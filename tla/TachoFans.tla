------------------------------- MODULE TachoFans -------------------------------
(* The fans whose tachometers TachoMux and TachoCounters read. *)
EXTENDS Integers

CONSTANT Fans    \* FAN_COUNT, here the indexes 0..Fans-1

ASSUME FansAssumption == Fans \in Nat \ {0}

Fan == 0..Fans-1

===============================================================================
