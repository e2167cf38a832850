---------------------------- MODULE MCTachoInputs ----------------------------
(* The two ways of reading tachometers.  A board has one of them; the variables of  *)
(* the other one stay as they are.                                                  *)
EXTENDS TachoMux, TachoCounters

VARIABLE board

all == <<board, vars, counterVars>>

MCInit ==
  /\ board \in {"multiplexer", "counters"}
  /\ Init /\ CountersInit
  /\ board = "multiplexer" => lra = {}
  /\ board = "counters" => period = [f \in Fan |-> 0] /\ lockedRotor = {}

MuxStep(A) == board = "multiplexer" /\ A /\ UNCHANGED <<board, counterVars>>

MCNext ==
  \/ MuxStep(Next)
  \/ board = "counters" /\ CountersNext /\ UNCHANGED <<board, vars>>

\* That of TachoMux, on a board that has the multiplexer.
MCFairSpec ==
  /\ MCInit /\ [][MCNext]_all
  /\ WF_all(MuxStep(Core1)) /\ WF_all(MuxStep(Elapse)) /\ WF_all(MuxStep(steady /\ Edge))

==============================================================================
