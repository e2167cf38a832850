----------------------------- MODULE TachoCounters -----------------------------
(***************************************************************************)
(* Reading the tachometers of fans that have an input each (boards        *)
(* without TACHO_READ_MULTIPLEX).                                         *)
(*                                                                         *)
(* The GPIO interrupt of core 1 counts the edges of each fan, modulo 2^32. *)
(* read_tacho_inputs(), in the loop of core 1, copies the counters one by *)
(* one and, when a second has passed since the last reading it used, takes *)
(* the difference for the frequency.  The interrupt may come between any  *)
(* two of its steps.                                                      *)
(***************************************************************************)
EXTENDS TachoFans

CONSTANTS
  Width,       \* 2^32
  Second,      \* one second, in ticks of the clock
  MaxTicks,    \* bound: ticks between two readings
  MaxEdges     \* bound: edges of one fan

ASSUME CountersAssumption ==
  /\ Width \in Nat \ {0, 1} /\ Second \in Nat \ {0}
  /\ MaxTicks \in Nat /\ MaxEdges \in Nat

VARIABLES
  counters,      \* fan_tacho_counters, shared with the interrupt
  countersLast,  \* fan_tacho_counters_last
  copied,        \* counters[] of read_tacho_inputs()
  step,          \* what is done next: a counter is copied, Fans: the frequencies are
                 \* calculated, Fans + 1: update_tacho_input_freq()
  ticks,         \* time since fan_tacho_last_read
  tachoFreq,     \* fan_tacho_freq, in whole Hz
  fanFreq,       \* state->fan_freq
  lra            \* fans in locked rotor mode: cfg->fans[i].rpm_mode

\* History: edges each fan has sent; edges that readings have taken account of.
VARIABLES sent, counted

counterVars == <<counters, countersLast, copied, step, ticks, tachoFreq, fanFreq, lra, sent, counted>>

\* setup_tacho_inputs(), setup_tacho_input_interrupts()
CountersInit ==
  /\ counters = [f \in Fan |-> 0] /\ countersLast = [f \in Fan |-> 0]
  /\ copied = [f \in Fan |-> 0] /\ step = 0 /\ ticks = 0
  /\ tachoFreq = [f \in Fan |-> 0] /\ fanFreq = [f \in Fan |-> 0]
  /\ lra \in SUBSET Fan
  /\ sent = [f \in Fan |-> 0] /\ counted = [f \in Fan |-> 0]

-------------------------------------------------------------------------------
\* fan_tacho_read_callback(): no fan sends 2^32 edges between two readings.
CounterEdge(f) ==
  /\ sent[f] < MaxEdges /\ sent[f] - counted[f] < Width - 1
  /\ counters' = [counters EXCEPT ![f] = (@ + 1) % Width]
  /\ sent' = [sent EXCEPT ![f] = @ + 1]
  /\ UNCHANGED <<countersLast, copied, step, ticks, tachoFreq, fanFreq, lra, counted>>

Tick ==
  /\ ticks < MaxTicks /\ ticks' = ticks + 1
  /\ UNCHANGED <<counters, countersLast, copied, step, tachoFreq, fanFreq, lra, sent, counted>>

\* cmd_fan_rpm_mode(): core 1 reads the mode from cfg.
CounterMode(f) ==
  /\ lra' = IF f \in lra THEN lra \ {f} ELSE lra \cup {f}
  /\ UNCHANGED <<counters, countersLast, copied, step, ticks, tachoFreq, fanFreq, sent, counted>>

-------------------------------------------------------------------------------
(***************************************************************************)
(* read_tacho_inputs() and update_tacho_input_freq(), core 1              *)
(***************************************************************************)

CopyCounter ==
  /\ step \in Fan /\ step' = step + 1
  /\ copied' = [copied EXCEPT ![step] = counters[step]]
  /\ UNCHANGED <<counters, countersLast, ticks, tachoFreq, fanFreq, lra, sent, counted>>

\* Less than a second since the last reading: the copy is not used.
TooSoon ==
  /\ step = Fans /\ ticks < Second /\ step' = Fans + 1
  /\ UNCHANGED <<counters, countersLast, copied, ticks, tachoFreq, fanFreq, lra, sent, counted>>

\* Edges since the last reading that was used.
Pulses(f) == (copied[f] - countersLast[f]) % Width

\* MUTANT of Calculate: the counters are read again to be kept for the next reading.
CalculateRereads ==
  /\ step = Fans /\ ticks >= Second /\ step' = Fans + 1
  /\ \E high \in SUBSET lra :
       tachoFreq' = [f \in Fan |-> IF f \notin lra THEN (Pulses(f) * Second) \div ticks
                                   ELSE IF f \in high THEN 1 ELSE 0]
  /\ countersLast' = counters /\ ticks' = 0
  /\ counted' = [f \in Fan |-> counted[f] + Pulses(f)]
  /\ UNCHANGED <<counters, copied, fanFreq, lra, sent>>

\* The frequencies, of a fan in locked rotor mode one of two for the level of its pin.
\* The counters are kept for the next reading, also those of fans in that mode.
Calculate ==
  /\ step = Fans /\ ticks >= Second /\ step' = Fans + 1
  /\ \E high \in SUBSET lra :
       tachoFreq' = [f \in Fan |-> IF f \notin lra THEN (Pulses(f) * Second) \div ticks
                                   ELSE IF f \in high THEN 1 ELSE 0]
  /\ countersLast' = copied /\ ticks' = 0
  /\ counted' = [f \in Fan |-> counted[f] + Pulses(f)]
  /\ UNCHANGED <<counters, copied, fanFreq, lra, sent>>

\* update_tacho_input_freq(): in each round, also without a new reading.
Update ==
  /\ step = Fans + 1 /\ step' = 0 /\ fanFreq' = tachoFreq
  /\ UNCHANGED <<counters, countersLast, copied, ticks, tachoFreq, lra, sent, counted>>

CountersCore1 == CopyCounter \/ TooSoon \/ Calculate \/ Update

CountersNext ==
  \/ CountersCore1
  \/ Tick
  \/ \E f \in Fan : CounterEdge(f) \/ CounterMode(f)

CountersSpec == CountersInit /\ [][CountersNext]_counterVars

-------------------------------------------------------------------------------
\* Every edge is taken account of in exactly one reading, or still to be: none is lost or
\* counted twice because it came while the counters were copied or calculated with, in
\* a reading that came too soon, in a change of the mode, or when a counter wrapped.
EdgesCounted ==
  \A f \in Fan : sent[f] = counted[f] + ((counters[f] - countersLast[f]) % Width)

===============================================================================
