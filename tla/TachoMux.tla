------------------------------- MODULE TachoMux -------------------------------
(***************************************************************************)
(* Reading the tachometers of all fans through one multiplexed input      *)
(* (boards with TACHO_READ_MULTIPLEX).                                    *)
(*                                                                         *)
(* read_tacho_inputs() is a state machine that core 1 calls in each pass  *)
(* of its loop.  It selects a fan, starts a measurement, and polls until  *)
(* the GPIO interrupt has seen two edges or 600 ms have passed.  Fans     *)
(* that spin are in the first queue.  A fan that does not costs 600 ms:   *)
(* it goes to the second queue, from which each pass of the first takes   *)
(* one.  The interrupt runs on the same core, between any two steps.      *)
(*                                                                         *)
(* Time passes in ticks while a fan is measured, also between a look at   *)
(* the interval and the look at the 600 ms that follows it: edges that    *)
(* come just there are lost when the time is over.                        *)
(***************************************************************************)
EXTENDS TachoFans, FiniteSets, FiniteSetsExt

CONSTANTS
  Limit,      \* 600 ms, in ticks
  Pass,       \* longest time between two looks at the interval, in ticks
  Periods     \* longest times between two edges of a fan that spins, in ticks

ASSUME TimesAssumption == Limit \in Nat \ {0} /\ Pass \in Nat \ {0} /\ Periods \subseteq Nat \ {0}

None == -1       \* no fan

VARIABLES
  \* statics of tacho.c
  queue,      \* queue a fan is in
  queuePos,   \* scan position of each queue
  q,          \* queue that is scanned
  state,      \* "pick", "start", "measure" or "timeout": where the machine is
  i,          \* the fan that is measured
  freq,       \* fan_tacho_freq: 0, or 1 for any frequency that is not 0
  \* pulse_len.c, shared with the interrupt
  counter, complete,       \* edges seen, and whether they make an interval
  pulseStart, pulseEnd,    \* fans the two edges came from
  \* the hardware
  port,       \* fan the multiplexer passes through
  period,     \* longest time between two edges of a fan, 0 when it is stopped
  lockedRotor, \* fans in locked rotor mode: cfg->fans[i].rpm_mode
  time,       \* time since start_t, up to the 600 ms
  wait,       \* time a fan that spins has sent no edge, until there are two
  gap         \* time since the last pulse_interval(), or since the measurement began

\* History: the fan has been spinning, at one speed, since its measurement began.
VARIABLE steady

vars == <<queue, queuePos, q, state, i, freq, counter, complete, pulseStart, pulseEnd,
          port, period, lockedRotor, time, wait, gap, steady>>

TypeOK ==
  /\ queue \in [Fan -> {0, 1}] /\ queuePos \in [{0, 1} -> 0..Fans] /\ q \in {0, 1}
  /\ state \in {"pick", "start", "measure", "timeout"}
  /\ i \in Fan \cup {None} /\ freq \in [Fan -> {0, 1}]
  /\ counter \in 0..2 /\ complete \in BOOLEAN
  /\ pulseStart \in Fan \cup {None} /\ pulseEnd \in Fan \cup {None}
  /\ port \in Fan /\ period \in [Fan -> Periods \cup {0}]
  /\ time \in 0..Limit /\ wait \in 0..Limit /\ gap \in 0..Pass
  /\ steady \in BOOLEAN /\ lockedRotor \subseteq Fan

\* setup_tacho_inputs(), setup_tacho_input_interrupts()
Init ==
  /\ queue = [f \in Fan |-> 0] /\ queuePos = [p \in {0, 1} |-> 0] /\ q = 0
  /\ state = "pick" /\ i = None /\ freq = [f \in Fan |-> 0]
  /\ counter = 2 /\ complete = FALSE /\ pulseStart = None /\ pulseEnd = None
  /\ port = 0 /\ time = 0 /\ wait = 0 /\ gap = 0
  /\ period \in [Fan -> Periods \cup {0}] /\ lockedRotor \in SUBSET Fan
  /\ steady = FALSE

pulse == <<counter, complete, pulseStart, pulseEnd>>
tacho == <<queue, queuePos, q, state, i, freq>>
times == <<time, wait, gap>>
elapsed == time = Limit

-------------------------------------------------------------------------------
(***************************************************************************)
(* The world: fans start and stop, edges interrupt, time passes.          *)
(***************************************************************************)

\* A fan stops, starts, or changes its speed.
SetSpeed(f, p) ==
  /\ p # period[f] /\ period' = [period EXCEPT ![f] = p]
  /\ steady' = (steady /\ f # i)
  /\ UNCHANGED <<tacho, pulse, port, lockedRotor, times>>

\* cmd_fan_rpm_mode(): core 1 reads the mode from cfg.
SetMode(f) ==
  /\ lockedRotor' = IF f \in lockedRotor THEN lockedRotor \ {f} ELSE lockedRotor \cup {f}
  /\ UNCHANGED <<tacho, pulse, port, period, times, steady>>

\* pulse_measure_callback(): an edge of the fan behind the multiplexer.  A fan
\* that stops may still send one in 600 ms.
Edge ==
  /\ counter = 0 \/ (counter = 1 /\ period[port] # 0)
  /\ counter' = counter + 1 /\ wait' = 0
  /\ IF counter = 0
     THEN pulseStart' = port /\ UNCHANGED <<complete, pulseEnd>>
     ELSE pulseEnd' = port /\ complete' = TRUE /\ UNCHANGED pulseStart
  /\ UNCHANGED <<tacho, port, period, lockedRotor, time, gap, steady>>

\* Time passes, anywhere between two polls.  Until there is an interval, a fan that has
\* been spinning sends an edge at least once a period, and core 1 looks for the
\* interval once a pass.
Elapse ==
  /\ state \in {"measure", "timeout"} /\ ~elapsed
  /\ steady /\ ~complete => wait < period[i]
  /\ gap < Pass
  /\ time' = time + 1 /\ gap' = gap + 1 /\ wait' = IF steady /\ ~complete THEN wait + 1 ELSE 0
  /\ UNCHANGED <<tacho, pulse, port, period, lockedRotor, steady>>

-------------------------------------------------------------------------------
(***************************************************************************)
(* read_tacho_inputs()                                                    *)
(***************************************************************************)

\* Entries of a queue that next_in_queue() has not passed yet.
Rest(k) == {f \in Fan : f >= queuePos[k] /\ queue[f] = k}

\* next_in_queue() returns -1: start over, with the other queue.
EndOfQueue ==
  /\ state = "pick" /\ Rest(q) = {}
  /\ queuePos' = [queuePos EXCEPT ![q] = 0]
  /\ q' = 1 - q
  /\ UNCHANGED <<queue, state, i, freq, pulse, port, period, lockedRotor, times, steady>>

\* MUTANT of Pick: the scan of the second queue starts over each time.
PickFirst ==
  /\ state = "pick" /\ Rest(q) # {}
  /\ i' = Min(Rest(q)) /\ queuePos' = [queuePos EXCEPT ![q] = IF q = 0 THEN i' + 1 ELSE 0]
  /\ q' = 0 /\ port' = i' /\ state' = "start"
  /\ UNCHANGED <<queue, freq, pulse, period, lockedRotor, times, steady>>

\* next_in_queue() returns a fan: the multiplexer switches to it.  Only one fan
\* of the second queue is taken at a time.
Pick ==
  /\ state = "pick" /\ Rest(q) # {}
  /\ i' = Min(Rest(q)) /\ queuePos' = [queuePos EXCEPT ![q] = i' + 1]
  /\ q' = 0 /\ port' = i' /\ state' = "start"
  /\ UNCHANGED <<queue, freq, pulse, period, lockedRotor, times, steady>>

\* MUTANT of Start: the counter of the last measurement is kept.
StartWarm ==
  /\ state = "start" /\ state' = "measure"
  /\ counter' = counter % 2 /\ complete' = FALSE
  /\ time' = 0 /\ wait' = 0 /\ gap' = 0 /\ steady' = (period[i] # 0)
  /\ UNCHANGED <<queue, queuePos, q, i, freq, pulseStart, pulseEnd, port, period,
                 lockedRotor>>

\* pulse_start_measure(), 50 us later, with the interrupt disabled.
Start ==
  /\ state = "start" /\ state' = "measure"
  /\ counter' = 0 /\ complete' = FALSE
  /\ time' = 0 /\ wait' = 0 /\ gap' = 0 /\ steady' = (period[i] # 0)
  /\ UNCHANGED <<queue, queuePos, q, i, freq, pulseStart, pulseEnd, port, period,
                 lockedRotor>>

\* Time is watched while a fan is measured.
Unwatched == time' = 0 /\ wait' = 0 /\ gap' = 0 /\ steady' = FALSE

Record(f) ==
  /\ freq' = [freq EXCEPT ![i] = f]
  /\ queue' = [queue EXCEPT ![i] = 1 - f]
  /\ state' = "pick" /\ Unwatched
  /\ UNCHANGED <<queuePos, q, i, pulse, port, period, lockedRotor>>

\* pulse_interval() returns the time between two edges: the fan spins.
Interval ==
  /\ state = "measure" /\ i \notin lockedRotor /\ complete /\ Record(1)

\* pulse_interval() returns 0; the timeout is looked at after that.
NoInterval ==
  /\ state = "measure" /\ i \notin lockedRotor /\ ~complete /\ state' = "timeout"
  /\ gap' = 0
  /\ UNCHANGED <<queue, queuePos, q, i, freq, pulse, port, period, lockedRotor, time, wait, steady>>

\* time_passed(&start_t, 600) is false: poll again.
PollAgain ==
  /\ state = "timeout" /\ ~elapsed /\ state' = "measure"
  /\ UNCHANGED <<queue, queuePos, q, i, freq, pulse, port, period, lockedRotor, times, steady>>

\* MUTANT of TimedOut: a fan without an interval counts as stopped at once.
TimedOutEarly == state = "timeout" /\ Record(0)

\* The fan does not spin.
TimedOut == state = "timeout" /\ elapsed /\ Record(0)

\* A fan in locked rotor mode: the level of the pin gives one of two frequencies,
\* and the queues stay as they are.
LockedRotor(f) ==
  /\ state = "measure" /\ i \in lockedRotor
  /\ freq' = [freq EXCEPT ![i] = f] /\ state' = "pick" /\ Unwatched
  /\ UNCHANGED <<queue, queuePos, q, i, pulse, port, period, lockedRotor>>

Core1 ==
  \/ EndOfQueue \/ Pick \/ Start
  \/ Interval \/ NoInterval \/ PollAgain \/ TimedOut
  \/ \E f \in {0, 1} : LockedRotor(f)

Next ==
  \/ Core1
  \/ Edge
  \/ Elapse
  \/ \E f \in Fan, p \in Periods \cup {0} : SetSpeed(f, p)
  \/ \E f \in Fan : SetMode(f)

Spec == Init /\ [][Next]_vars

\* The loop of core 1 goes on, time passes, and a fan that spins sends edges.
FairSpec == Spec /\ WF_vars(Core1) /\ WF_vars(Elapse) /\ WF_vars(steady /\ Edge)

-------------------------------------------------------------------------------
\* An interval is made of two edges of the fan it is recorded for: none of it comes
\* from the fan the multiplexer passed through before.
Attribution ==
  state \in {"measure", "timeout"} /\ complete => pulseStart = i /\ pulseEnd = i

\* The slowest fans whose second edge is certain to be looked for before the 600 ms are
\* over: the edges take two periods at most, and the look comes a pass later at most.
Fast(p) == p # 0 /\ 2 * p + Pass < Limit

\* The race between the second edge and the 600 ms, which are looked at after the
\* interval: a fan that spins throughout its measurement is not taken for stopped when
\* its edges leave time for one more pass.  A slower one may be.
SpinningSeen ==
  [][steady /\ Fast(period[i]) /\ state \in {"measure", "timeout"} /\ state' = "pick"
     /\ i \notin lockedRotor => freq'[i] = 1]_vars

\* A fan that starts, or stops, for good is sooner or later reported as it is,
\* whichever queue it waits in and whatever the other fans do.
Detected ==
  \A f \in Fan :
    /\ <>[](Fast(period[f]) /\ f \notin lockedRotor) => <>[](freq[f] = 1)
    /\ <>[](period[f] = 0 /\ f \notin lockedRotor) => <>[](freq[f] = 0)

===============================================================================
