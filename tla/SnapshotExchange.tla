--------------------------- MODULE SnapshotExchange ---------------------------
(***************************************************************************)
(* What the two-core exchange of FanPico promises, without its mutexes:   *)
(* a producer replaces a record of fields in one step, a consumer takes   *)
(* over the latest whole record in one step.  No reader ever sees half of *)
(* one record and half of another, and no field ever goes back.           *)
(*                                                                         *)
(* Every field holds the number of the transaction that last wrote it.    *)
(***************************************************************************)
EXTENDS Naturals

CONSTANT Fields

VARIABLES value,   \* the record the producer last completed
          view     \* the record the consumer works with

vars == <<value, view>>

Versions == [Fields -> Nat]

Init ==
  /\ value = [f \in Fields |-> 0]
  /\ view  = [f \in Fields |-> 0]

\* The producer completes a record; each field keeps its version or gets a later one.
Publish ==
  /\ value' \in Versions
  /\ \A f \in Fields : value'[f] >= value[f]
  /\ UNCHANGED view

\* The consumer takes the completed record over as a whole.
Adopt ==
  /\ view' = value
  /\ UNCHANGED value

Next == Publish \/ Adopt

Spec == Init /\ [][Next]_vars
===============================================================================
