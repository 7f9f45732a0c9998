-------------------------------- MODULE Oracle --------------------------------
(***************************************************************************)
(* The latest price signed by a trusted key (contracts/oracle).  A         *)
(* signature verifies for the key, the price and the timestamp that were   *)
(* signed and for nothing else, so signed observations are what it stands  *)
(* for.  Anyone submits them, in any order and as often as wanted.         *)
(***************************************************************************)
EXTENDS Integers, FiniteSets

CONSTANTS
    Key,
    Prices, Times,  \* what an observation may say
    MaxSigned       \* bound: observations signed

VARIABLES
    signer, price, time, initialized,   \* the instance storage
    signed          \* the observations the holders of the keys have signed

vars == <<signer, price, time, initialized, signed>>

Observation == [key : Key, price : Prices, time : Times]

Init ==
    /\ signer \in Key
    /\ price = 0
    /\ time = 0
    /\ initialized = FALSE
    /\ signed = {}

(* Off the ledger, a key holder signs an observation.                      *)
Sign(observation) ==
    /\ Cardinality(signed) < MaxSigned
    /\ signed' = signed \cup {observation}
    /\ UNCHANGED <<signer, price, time, initialized>>

\* mutants: the first publish is recognized by the time being zero, or is not
\* recognized at all
Fresh_by_time(timestamp) == time > 0 => timestamp > time
Fresh_no_flag(timestamp) == timestamp > time

Fresh(timestamp) == initialized => timestamp > time

\* a signature of another key traps; a stale observation is answered false
Publish(observation) ==
    /\ observation.key = signer
    /\ Fresh(observation.time)
    /\ price' = observation.price
    /\ time' = observation.time
    /\ initialized' = TRUE
    /\ UNCHANGED <<signer, signed>>

\* authorized by the admin
SetSigner(new_signer) ==
    /\ signer' = new_signer
    /\ UNCHANGED <<price, time, initialized, signed>>

Next ==
    \/ \E observation \in Observation : Sign(observation)
    \/ \E observation \in signed : Publish(observation)
    \/ \E new_signer \in Key : SetSigner(new_signer)

-----------------------------------------------------------------------------
(* The storage is well typed and holds an observation once initialized.    *)
TypeOK ==
    /\ signer \in Key
    /\ price \in Int /\ time \in Nat /\ initialized \in BOOLEAN
    /\ signed \subseteq Observation

(* A price never changes without its time moving on, across any rotation   *)
(* of the signer, even when the first observation is of time zero; and the *)
(* new price and time were signed together by the key trusted then         *)
(* (lib.rs:33-65).                                                         *)
PricesMoveForward ==
    [][ <<price, time, initialized>>' # <<price, time, initialized>> =>
            /\ initialized => time' > time
            /\ [key |-> signer, price |-> price', time |-> time'] \in signed ]_vars

(* Nothing signed by a key that stays trusted is kept out: it is published,*)
(* or something at least as recent is, in whatever order the submissions   *)
(* arrive.                                                                 *)
SignedIsOvertaken ==
    \A key \in Key, timestamp \in Times :
        key = signer /\ (\E o \in signed : o.key = key /\ o.time = timestamp)
            ~> signer # key \/ (initialized /\ time >= timestamp)

=============================================================================
