-------------------------------- MODULE Sep41 --------------------------------
(***************************************************************************)
(* The SEP-41 token (contracts/token) as a pure state machine.             *)
(*                                                                         *)
(* A Soroban invocation is atomic: it either runs to its end, nested calls *)
(* included, or panics and leaves no trace.  So an operation is a function *)
(* from the token's storage to the SET of storages it can leave behind: a  *)
(* singleton when it returns, Panic (the empty set) when it panics.  A     *)
(* contract that makes several token calls in one invocation chains them   *)
(* with \E, and a panic anywhere leaves no outcome for the whole chain.    *)
(*                                                                         *)
(* The storage t of one token is a record: t.bal, the persistent Balance   *)
(* entries (0 when unset), and t.allow, the temporary Allowance entries,   *)
(* indexed by <<from, spender>>.  A temporary entry exists up to the       *)
(* ledger liveUntil; after it the host has dropped the entry.  Ledger      *)
(* sequence numbers start at 1, so liveUntil = 0 is an entry never         *)
(* written.                                                                *)
(***************************************************************************)
EXTENDS Totals

CONSTANTS
    Address,        \* accounts and contracts that can hold tokens
    MaxI128,        \* i128::MAX; overflow-checks are on, so going past it panics
    MinTempTtl,     \* host: ledgers a fresh temporary entry lives
    MaxEntryTtl     \* host: a temporary entry cannot be extended further ahead

ASSUME AddressAssumption == IsFiniteSet(Address)
ASSUME WidthAssumption   == MaxI128 \in Nat
ASSUME TtlAssumption     == MinTempTtl \in Nat \ {0} /\ MaxEntryTtl \in Nat \ {0}

Held     == 0..MaxI128
Pair     == Address \X Address
Entry    == [amount : Held, expiration : Nat, liveUntil : Nat]
NoEntry  == [amount |-> 0, expiration |-> 0, liveUntil |-> 0]
Storage  == [bal : [Address -> Held], allow : [Pair -> Entry]]

EmptyStorage == [bal   |-> [a \in Address |-> 0],
                 allow |-> [p \in Pair |-> NoEntry]]

(* Every entry that carries an amount outlives its expiration.             *)
Lasting(t) ==
    \A p \in Pair : t.allow[p].amount > 0 => t.allow[p].liveUntil >= t.allow[p].expiration

Panic == {}

Outcome(ok, t) == IF ok THEN {t} ELSE Panic

-----------------------------------------------------------------------------
(* balance.rs *)

receive_balance(t, a, n) ==
    Outcome(t.bal[a] + n <= MaxI128, [t EXCEPT !.bal[a] = @ + n])

\* mutant: the balance is not compared with the amount
spend_balance_unchecked(t, a, n) == {[t EXCEPT !.bal[a] = @ - n]}

spend_balance(t, a, n) ==
    Outcome(t.bal[a] >= n, [t EXCEPT !.bal[a] = @ - n])

-----------------------------------------------------------------------------
(* allowance.rs; seq is e.ledger().sequence() *)

read_allowance(t, seq, p) ==
    LET stored == t.allow[p] IN
    IF stored.liveUntil < seq
    THEN [amount |-> 0, expiration |-> 0]
    ELSE [amount     |-> IF stored.expiration < seq THEN 0 ELSE stored.amount,
          expiration |-> stored.expiration]

\* mutant: an existing entry is not extended
LiveUntil_not_extended(t, seq, p, n, expiration) ==
    IF t.allow[p].liveUntil < seq THEN seq + MinTempTtl - 1 ELSE t.allow[p].liveUntil

(* A set creates the entry with the host's minimum lifetime or keeps the   *)
(* lifetime of the existing one; extend_ttl(live_for, live_for) then makes *)
(* it last until the expiration ledger, and traps beyond the host's limit. *)
LiveUntil(t, seq, p, n, expiration) ==
    LET old   == t.allow[p].liveUntil
        kept  == IF old < seq THEN seq + MinTempTtl - 1 ELSE old
    IN  IF n > 0 /\ expiration > kept THEN expiration ELSE kept

write_allowance(t, seq, p, n, expiration) ==
    Outcome(n > 0 => expiration \in seq .. (seq + MaxEntryTtl - 1),
            [t EXCEPT !.allow[p] =
                [amount     |-> n,
                 expiration |-> expiration,
                 liveUntil  |-> LiveUntil(t, seq, p, n, expiration)]])

spend_allowance(t, seq, p, n) ==
    LET current == read_allowance(t, seq, p) IN
    IF current.amount < n THEN Panic
    ELSE IF n > 0
         THEN write_allowance(t, seq, p, current.amount - n, current.expiration)
         ELSE {t}

-----------------------------------------------------------------------------
(* contract.rs; the authorization of an operation is the caller's guard.   *)

check_nonnegative_amount(n) == n >= 0

mint(t, to, n) ==
    IF check_nonnegative_amount(n) THEN receive_balance(t, to, n) ELSE Panic

approve(t, seq, from, spender, n, expiration) ==
    IF check_nonnegative_amount(n)
    THEN write_allowance(t, seq, <<from, spender>>, n, expiration)
    ELSE Panic

\* mutant: the receiver's balance is read before the debit is written
transfer_stale_read(t, from, to, n) ==
    IF check_nonnegative_amount(n)
    THEN UNION {Outcome(t.bal[to] + n <= MaxI128, [u EXCEPT !.bal[to] = t.bal[to] + n]) :
                    u \in spend_balance(t, from, n)}
    ELSE Panic

transfer(t, from, to, n) ==
    IF check_nonnegative_amount(n)
    THEN UNION {receive_balance(u, to, n) : u \in spend_balance(t, from, n)}
    ELSE Panic

transfer_from(t, seq, spender, from, to, n) ==
    IF check_nonnegative_amount(n)
    THEN UNION {transfer(u, from, to, n) :
                    u \in spend_allowance(t, seq, <<from, spender>>, n)}
    ELSE Panic

burn(t, from, n) ==
    IF check_nonnegative_amount(n) THEN spend_balance(t, from, n) ELSE Panic

burn_from(t, seq, spender, from, n) ==
    IF check_nonnegative_amount(n)
    THEN UNION {spend_balance(u, from, n) :
                    u \in spend_allowance(t, seq, <<from, spender>>, n)}
    ELSE Panic

=============================================================================
