------------------------------ MODULE FanOutputs ------------------------------
(***************************************************************************)
(* The outputs: PWM to the fans, tachometer or alarm to the motherboard.  *)
(*                                                                         *)
(* Twice a second core 1 goes through its outputs in order, calculates    *)
(* what each should be, and changes the pin when that is far enough from  *)
(* what the pin was last set to.  Core 0 changes settings at any time.    *)
(* The settings a value is calculated from are those of core 1's copy,    *)
(* but the hysteresis, and all that decides what a motherboard output is, *)
(* are read from the configuration of core 0.                             *)
(*                                                                         *)
(* Duty cycles are whole numbers up to Top, frequencies multiples of half *)
(* a hertz.  A map with its coefficient is one of Curves; what the filter *)
(* of a fan returns is any duty cycle (VirtualSensor models the filters). *)
(***************************************************************************)
EXTENDS Integers, Sequences

CONSTANTS
  N,           \* FAN_COUNT
  M,           \* MBFAN_COUNT
  Inputs,      \* what a fan may follow besides fans: mbfans, sensors
  Top,         \* the full duty cycle
  Curves,      \* maps from a duty cycle to a duty cycle
  Hysts,       \* values of pwm_hyst
  Filtered,    \* fans that have a filter
  BootFans,    \* settings of the fans the unit may be started with
  BootMbs,     \* and of the motherboard connectors
  Freqs,       \* frequencies of motherboard outputs
  Thresholds,  \* values of lra_treshold, in the same unit
  MaxChanges   \* bound: commands

Fan == 1..N
Mb  == 1..M
Duty == 0..Top
Depth  == 4    \* words in the TX FIFO of a PIO state machine
MbHyst == 2    \* change of frequency that is passed on: 1.0 Hz

Sources == ({"fixed"} \X Duty) \cup ({"input"} \X Inputs) \cup ({"fan"} \X Fan)

\* struct fan_output; struct mb_input as far as update_outputs() looks at it.
FanCfg == [src : Sources, curve : Curves, min : Duty, max : Duty, hyst : Hysts]
MbCfg  == [mode : {"tacho", "lra"}, threshold : Thresholds, invert : BOOLEAN]

ASSUME CountAssumption ==
  N \in Nat \ {0} /\ M \in Nat /\ Top \in Nat /\ MaxChanges \in Nat
ASSUME ValueAssumption ==
  /\ Curves \subseteq [Duty -> Nat] /\ Hysts \subseteq Nat /\ Filtered \subseteq Fan
  /\ BootFans \subseteq [Fan -> FanCfg] /\ BootMbs \subseteq [Mb -> MbCfg] /\ Freqs \subseteq Nat
ASSUME ThresholdAssumption == Thresholds \subseteq Nat

VARIABLES
  \* core 0
  fans,       \* cfg->fans
  mbs,        \* cfg->mbfans
  changes,    \* commands so far
  \* core 1
  core1fans,  \* config->fans
  input,      \* duty cycles of the inputs (a temperature through its map)
  duty, prev, \* fan_duty, fan_duty_prev
  freq, fprev, \* mbfan_freq, mbfan_freq_prev; freq is set for the whole round
  next,       \* output that is updated next, fans first; 0 elsewhere in the loop
  \* hardware
  pwm,        \* duty cycle of a fan's pin
  level,      \* level of a motherboard pin that is a GPIO
  started,    \* state machines that generate a square wave: mode at boot
  fifo,       \* their TX FIFOs
  wave        \* the frequency each generates

\* History: the hysteresis of the last update of a fan; motherboard outputs whose
\* mode command was used since boot.
VARIABLES used, touched

core0 == <<fans, mbs, changes, touched>>
fanOut == <<duty, prev, pwm, used>>
mbOut == <<freq, fprev, level, fifo>>
vars == <<core0, core1fans, input, fanOut, mbOut, next, started, wave>>

TypeOK ==
  /\ fans \in [Fan -> FanCfg] /\ core1fans \in [Fan -> FanCfg]
  /\ mbs \in [Mb -> MbCfg] /\ changes \in 0..MaxChanges
  /\ input \in [Inputs -> Duty]
  /\ duty \in [Fan -> Duty] /\ prev \in [Fan -> Duty] /\ pwm \in [Fan -> Duty]
  /\ freq \in [Mb -> Nat] /\ fprev \in [Mb -> Nat] /\ next \in 0..(N + M)
  /\ level \in [Mb -> BOOLEAN] /\ started \subseteq Mb
  /\ fifo \in [Mb -> Seq(Nat)] /\ wave \in [Mb -> Nat]
  /\ used \in [Fan -> Nat] /\ touched \subseteq Mb

\* The level that says "locked rotor" (the pin drives an inverting transistor).
Alarm(m) == ~mbs[m].invert

\* clear_state(), setup(), setup_tacho_outputs(), then the launch of core 1.
Init ==
  /\ fans \in BootFans /\ core1fans = fans /\ mbs \in BootMbs /\ changes = 0
  /\ input = [k \in Inputs |-> 0]
  /\ duty = [f \in Fan |-> 0] /\ prev = duty /\ pwm = duty /\ used = duty
  /\ freq = [m \in Mb |-> 0] /\ fprev = freq /\ wave = freq
  /\ next = 0
  /\ level = [m \in Mb |-> Alarm(m)]
  /\ started = {m \in Mb : mbs[m].mode = "tacho"}
  /\ fifo = [m \in Mb |-> <<>>] /\ touched = {}

-------------------------------------------------------------------------------
(***************************************************************************)
(* Core 0: commands.  No command compares the limits with each other.     *)
(***************************************************************************)
Command == changes < MaxChanges /\ changes' = changes + 1

Core1Unchanged == UNCHANGED <<core1fans, input, fanOut, mbOut, next, started, wave>>

SetFan(f, s) ==
  /\ Command /\ fans' = [fans EXCEPT ![f] = s]
  /\ Core1Unchanged /\ UNCHANGED <<mbs, touched>>

SetSource(f, src)   == SetFan(f, [fans[f] EXCEPT !.src = src])
SetMinPwm(f, d)     == SetFan(f, [fans[f] EXCEPT !.min = d])
SetMaxPwm(f, d)     == SetFan(f, [fans[f] EXCEPT !.max = d])
SetPwmHyst(f, h)    == SetFan(f, [fans[f] EXCEPT !.hyst = h])
SetCurve(f, c)      == SetFan(f, [fans[f] EXCEPT !.curve = c])

\* cmd_mbfan_rpm_mode(): the other two arguments only count with "LRA".
SetRpmMode(m, s) ==
  /\ Command /\ mbs' = [mbs EXCEPT ![m] = s] /\ touched' = touched \cup {m}
  /\ s.mode = "tacho" => s = [mbs[m] EXCEPT !.mode = "tacho"]
  /\ Core1Unchanged /\ UNCHANGED fans

-------------------------------------------------------------------------------
(***************************************************************************)
(* Core 1.                                                                *)
(***************************************************************************)

\* memcpy(config, cfg, sizeof(*config))
CopyConfig ==
  /\ next = 0 /\ core1fans' = fans
  /\ UNCHANGED <<core0, input, fanOut, mbOut, next, started, wave>>

\* An input has a new value.
Sense(k, d) ==
  /\ next = 0 /\ input' = [input EXCEPT ![k] = d]
  /\ UNCHANGED <<core0, core1fans, fanOut, mbOut, next, started, wave>>

\* time_passed(&t_set_outputs, 500).  No tachometer is read during the round, so that
\* what calculate_tacho_freq() will return for each output is known from here.
Begin ==
  /\ next = 0 /\ next' = 1
  /\ freq' \in [Mb -> Freqs]
  /\ UNCHANGED <<core0, core1fans, input, fanOut, fprev, level, fifo, started, wave>>

Abs(n) == IF n < 0 THEN -n ELSE n

\* check_for_change()
Changed(old, new, threshold) == Abs(old - new) >= threshold

Continue == next' = IF next = N + M THEN 0 ELSE next + 1

\* Value of the source of a fan.
SourceValue(src) ==
  CASE src[1] = "fixed" -> src[2]
    [] src[1] = "input" -> input[src[2]]
    [] src[1] = "fan"   -> duty[src[2]]

\* The last step of calculate_pwm_duty(): the upper limit wins.
Limited(s, d) ==
  LET raised == IF d < s.min THEN s.min ELSE d
  IN IF raised > s.max THEN s.max ELSE raised

\* calculate_pwm_duty() without the filter.
PwmDuty(f) == Limited(core1fans[f], core1fans[f].curve[SourceValue(core1fans[f].src)])

\* What calculate_pwm_duty() may return.
PwmDuties(f) ==
  IF f \in Filtered
  THEN {Limited(core1fans[f], core1fans[f].curve[d]) : d \in Duty}
  ELSE {PwmDuty(f)}

\* MUTANT of UpdateFan: fan_duty_prev follows the duty cycle in every round.
UpdateFanDrifts(f) ==
  /\ next = f
  /\ \E d \in PwmDuties(f) :
       /\ duty' = [duty EXCEPT ![f] = d] /\ prev' = [prev EXCEPT ![f] = d]
       /\ IF Changed(prev[f], d, fans[f].hyst)
          THEN pwm' = [pwm EXCEPT ![f] = d]
          ELSE UNCHANGED pwm
  /\ used' = [used EXCEPT ![f] = fans[f].hyst]
  /\ Continue
  /\ UNCHANGED <<core0, core1fans, input, mbOut, started, wave>>

\* MUTANT of UpdateFan: a small change is not even recorded in fan_duty.
UpdateFanSkips(f) ==
  /\ next = f
  /\ \E d \in PwmDuties(f) :
       IF Changed(prev[f], d, fans[f].hyst)
       THEN /\ duty' = [duty EXCEPT ![f] = d] /\ prev' = [prev EXCEPT ![f] = d]
            /\ pwm' = [pwm EXCEPT ![f] = d]
       ELSE UNCHANGED <<duty, prev, pwm>>
  /\ used' = [used EXCEPT ![f] = fans[f].hyst]
  /\ Continue
  /\ UNCHANGED <<core0, core1fans, input, mbOut, started, wave>>

\* One fan in update_outputs().
UpdateFan(f) ==
  /\ next = f
  /\ \E d \in PwmDuties(f) :
       /\ duty' = [duty EXCEPT ![f] = d]
       /\ IF Changed(prev[f], d, fans[f].hyst)
          THEN prev' = [prev EXCEPT ![f] = d] /\ pwm' = [pwm EXCEPT ![f] = d]
          ELSE UNCHANGED <<prev, pwm>>
  /\ used' = [used EXCEPT ![f] = fans[f].hyst]
  /\ Continue
  /\ UNCHANGED <<core0, core1fans, input, mbOut, started, wave>>

\* set_tacho_output_freq(): pio_sm_put_blocking() waits for room in the FIFO.
PutPeriod(m, v) ==
  /\ Len(fifo[m]) < Depth
  /\ fifo' = [fifo EXCEPT ![m] = Append(@, v)]
  /\ UNCHANGED level

\* MUTANT of PutLevel: the alarm is raised when the rotor turns.
PutLevelInverted(m, v) ==
  /\ level' = [level EXCEPT ![m] = IF v > mbs[m].threshold THEN Alarm(m) ELSE ~Alarm(m)]
  /\ UNCHANGED fifo

\* set_lra_output()
PutLevel(m, v) ==
  /\ level' = [level EXCEPT ![m] = IF v < mbs[m].threshold THEN Alarm(m) ELSE ~Alarm(m)]
  /\ UNCHANGED fifo

\* One motherboard output in update_outputs().  Mode and level are read from cfg.
UpdateMb(m) ==
  /\ next = N + m
  /\ IF Changed(fprev[m], freq[m], MbHyst)
     THEN /\ fprev' = [fprev EXCEPT ![m] = freq[m]]
          /\ IF mbs[m].mode = "tacho" THEN PutPeriod(m, freq[m]) ELSE PutLevel(m, freq[m])
     ELSE UNCHANGED <<fprev, level, fifo>>
  /\ Continue
  /\ UNCHANGED <<core0, core1fans, input, fanOut, freq, started, wave>>

-------------------------------------------------------------------------------
\* "pull noblock" of a state machine that runs: at the start of each period.
Generate(m) ==
  /\ m \in started /\ fifo[m] # <<>>
  /\ wave' = [wave EXCEPT ![m] = Head(fifo[m])] /\ fifo' = [fifo EXCEPT ![m] = Tail(@)]
  /\ UNCHANGED <<core0, core1fans, input, fanOut, freq, fprev, level, next, started>>

Core0 ==
  \/ \E f \in Fan :
       \/ \E src \in Sources : SetSource(f, src)
       \/ \E d \in Duty : SetMinPwm(f, d) \/ SetMaxPwm(f, d)
       \/ \E h \in Hysts : SetPwmHyst(f, h)
       \/ \E c \in Curves : SetCurve(f, c)
  \/ \E m \in Mb, s \in MbCfg : SetRpmMode(m, s)

Core1 ==
  \/ Begin
  \/ \E f \in Fan : UpdateFan(f)
  \/ \E m \in Mb : UpdateMb(m)

Next ==
  \/ Core0
  \/ Core1
  \/ CopyConfig
  \/ \E k \in Inputs, d \in Duty : Sense(k, d)
  \/ \E m \in Mb : Generate(m)

Spec == Init /\ [][Next]_vars

\* Core 1 goes on as long as it is not blocked, it copies the configuration again and
\* again, and a state machine that runs reads its FIFO.
FairSpec ==
  /\ Spec /\ WF_vars(Core1) /\ SF_vars(CopyConfig)
  /\ \A m \in Mb : WF_vars(Generate(m))

-------------------------------------------------------------------------------
\* The pin of a fan is off the duty cycle that is reported by less than the
\* hysteresis, however slowly the duty cycle moves and whatever is reconfigured.
OutputTracks == \A f \in Fan : pwm[f] = duty[f] \/ Abs(pwm[f] - duty[f]) < used[f]

\* A motherboard connector whose mode command was not used since boot reports, once a
\* round is over, a stopped fan by the level for it -- if its threshold is at least the
\* change of frequency that is passed on: below that, a fan that stops from a speed between
\* the two is not reported.  What the generator runs at, or will once it has read its FIFO,
\* is the frequency that was passed on last.
StopReported ==
  \A m \in Mb \ touched :
    /\ next = 0 /\ m \notin started /\ freq[m] = 0 /\ mbs[m].threshold >= MbHyst
         => level[m] = Alarm(m)
    /\ m \in started => fprev[m] = (IF fifo[m] = <<>> THEN wave[m] ELSE fifo[m][Len(fifo[m])])

\* No fan follows itself, nor one that follows a fan in turn.
Acyclic ==
  \A f, g \in Fan : fans[f].src = <<"fan", g>> => g # f /\ fans[g].src[1] # "fan"

\* A fan that follows another one, in whatever order the two are updated, ends up with
\* the duty cycle calculated from what the other one has, once settings and inputs stay
\* as they are and as long as motherboard outputs keep their mode.
ChainSettles ==
  <>[][FALSE]_<<fans, input>> /\ [](touched = {} /\ Acyclic)
    => <>[](\A f \in Fan \ Filtered : duty[f] = PwmDuty(f))

===============================================================================
