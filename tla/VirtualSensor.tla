----------------------------- MODULE VirtualSensor -----------------------------
(***************************************************************************)
(* One virtual sensor in MANUAL or I2C mode.                              *)
(*                                                                         *)
(* Core 0 stores a temperature with the time it got it (the WRITE command *)
(* or an I2C measurement).  Core 1 sees it when it next copies the        *)
(* configuration, and every two seconds get_vsensor() takes a new value   *)
(* over, falls back to the default when the value is too old, and runs    *)
(* the result through the filter.  The RESULT is stored as the sensor's   *)
(* temperature, and is what the next call starts from.                    *)
(*                                                                         *)
(* Time passes in seconds.  Temperatures are whole units, and the moving  *)
(* average is rounded to them.  A timestamp is the number of the write it *)
(* belongs to; age gives the seconds since each write.  No temperature is *)
(* below 0, the peak a new lossypeak context starts from.                 *)
(***************************************************************************)
EXTENDS Integers, Sequences, FiniteSets, FiniteSetsExt

CONSTANTS
  Filters,      \* subset of {"none", "lossypeak", "sma"}: filters considered
  Window,       \* sma: window size
  Decay,        \* lossypeak: decay per second
  Delay,        \* lossypeak: seconds before the decay starts
  Timeouts,     \* timeouts considered, in seconds, 0 = never
  DefaultTemp,  \* default temperature of the sensor
  Temps,        \* temperatures that are written
  MaxWrites     \* bound: number of writes

ASSUME FilterAssumption ==
  /\ Filters \subseteq {"none", "lossypeak", "sma"}
  /\ Window \in 2..32 /\ Decay \in Nat /\ Delay \in Nat

ASSUME SensorAssumption ==
  /\ Timeouts \subseteq Nat /\ \E m \in Timeouts : \A t \in Timeouts : t <= m
  /\ DefaultTemp \in Int /\ Temps \subseteq Int /\ MaxWrites \in Nat

Period == 2                          \* seconds between calls of get_vsensor()
OldAge == Max(Timeouts) + Delay + Period + 1   \* ages past this are told apart by nothing

VARIABLES
  filter,    \* the filter of the sensor, fixed
  timeout,   \* its timeout, fixed
  cfg,       \* vtemp and vtemp_updated of core 0
  core1cfg,  \* the same fields of core1_config
  state,     \* vtemp and vtemp_updated of core1_state
  filterCtx, \* filter context: the peak of lossypeak, whether it decays, and its age; the
             \* samples in the window of sma, oldest first
  age,       \* seconds since each write, up to OldAge
  wait       \* seconds since the last call of get_vsensor()

setting == <<filter, timeout>>
sensorVars == <<setting, cfg, core1cfg, state, filterCtx, age, wait>>

\* clear_config() and clear_state(): value 0, never updated.
SensorInit ==
  /\ filter \in Filters /\ timeout \in Timeouts
  /\ cfg = [temp |-> 0, updated |-> 0]
  /\ core1cfg = cfg /\ state = cfg
  /\ filterCtx = [peak |-> 0, decaying |-> FALSE, peakAge |-> OldAge, data |-> <<>>]
  /\ age = [w \in 0..MaxWrites |-> 0]
  /\ wait = 0

-------------------------------------------------------------------------------
\* cmd_vsensor_write(), or i2c_read_temps() with a measurement, under config_mutex.
Write(t) ==
  /\ cfg.updated < MaxWrites
  /\ cfg' = [temp |-> t, updated |-> cfg.updated + 1]
  /\ age' = [age EXCEPT ![cfg'.updated] = 0]
  /\ UNCHANGED <<setting, core1cfg, state, filterCtx, wait>>

\* core1_main() takes over the configuration.
CopyConfig ==
  /\ core1cfg' = cfg
  /\ UNCHANGED <<setting, cfg, state, filterCtx, age, wait>>

Older(n) == IF n < OldAge THEN n + 1 ELSE OldAge

\* A second passes; time_passed(&t_temp, 2000) is never late by a second.
Second ==
  /\ wait < Period
  /\ wait' = wait + 1
  /\ age' = [w \in 0..MaxWrites |-> Older(age[w])]
  /\ filterCtx' = [filterCtx EXCEPT !.peakAge = Older(@)]
  /\ UNCHANGED <<setting, cfg, core1cfg, state>>

\* lossy_peak_filter(), called every Period seconds.
LossyPeak(c, input) ==
  LET startDecay == ~c.decaying /\ c.peakAge > Delay
      elapsed == IF ~startDecay \/ Delay = 0 THEN Period ELSE c.peakAge - Delay
      floor == c.peak - elapsed * Decay
  IN CASE input >= c.peak ->
            [c EXCEPT !.peak = input, !.decaying = FALSE, !.peakAge = 0]
       [] input < c.peak /\ (c.decaying \/ startDecay) ->
            [c EXCEPT !.peak = IF input > floor THEN input ELSE floor, !.decaying = TRUE]
       [] OTHER -> c

\* sma_filter(): the context is the window, the result the mean.
SmaPush(c, input) ==
  [c EXCEPT !.data = Append(IF Len(@) < Window THEN @ ELSE Tail(@), input)]

SumOf(s) == LET sum[i \in 0..Len(s)] == IF i = 0 THEN 0 ELSE sum[i-1] + s[i]
            IN sum[Len(s)]

Filtered(c, input) ==
  CASE filter = "none" -> <<c, input>>
    [] filter = "lossypeak" -> LET d == LossyPeak(c, input) IN <<d, d.peak>>
    [] filter = "sma" -> LET d == SmaPush(c, input) IN <<d, SumOf(d.data) \div Len(d.data)>>

\* The reading before the filter: a new value is taken over, an old one expires.
Taken == IF core1cfg.updated # state.updated THEN core1cfg ELSE state

\* MUTANT of Expired: a timeout of N seconds counts from the next refresh.
ExpiredLate(r) == timeout > 0 /\ r.temp # DefaultTemp /\ age[r.updated] > timeout + Period

\* MUTANT of Expired: a timeout of 0 is a timeout like any other.
ExpiredAtZero(r) == r.temp # DefaultTemp /\ age[r.updated] > timeout

Expired(r) == timeout > 0 /\ r.temp # DefaultTemp /\ age[r.updated] > timeout

\* The rest of get_vsensor(), and the assignment of its result to state->vtemp[i].
Report(input, updated) ==
  /\ wait = Period /\ wait' = 0
  /\ filterCtx' = Filtered(filterCtx, input)[1]
  /\ state' = [temp |-> Filtered(filterCtx, input)[2], updated |-> updated]
  /\ UNCHANGED <<setting, cfg, core1cfg, age>>

\* MUTANT of GetVsensor: a write is noticed when its value differs from the reading.
GetVsensorByValue ==
  IF core1cfg.temp # state.temp
  THEN Report(core1cfg.temp, core1cfg.updated)
  ELSE Report(IF Expired(state) THEN DefaultTemp ELSE state.temp, state.updated)

\* time_passed(&t_temp, 2000)
GetVsensor == Report(IF Expired(Taken) THEN DefaultTemp ELSE Taken.temp, Taken.updated)

SensorNext ==
  \/ \E t \in Temps : Write(t)
  \/ CopyConfig
  \/ Second
  \/ GetVsensor

SensorSpec == SensorInit /\ [][SensorNext]_sensorVars

\* Time passes, and core 1 goes on refreshing its configuration and the sensors.
SensorFairSpec ==
  SensorSpec /\ WF_sensorVars(Second) /\ WF_sensorVars(GetVsensor) /\ SF_sensorVars(CopyConfig)

-------------------------------------------------------------------------------
\* A program that stops writing cannot hold the fans at its last temperature:
\* one period after the timeout an unfiltered sensor shows the default.
StaleIsDefault ==
  filter = "none" /\ timeout > 0 /\ age[state.updated] > timeout + Period
    => state.temp = DefaultTemp

\* A sensor that fell back to its default leaves it only for a newer write, although
\* the old value is still in core1_config and is compared again at each call.
NoRevival ==
  [][filter # "sma" /\ timeout > 0 /\ state.temp = DefaultTemp
       /\ state'.updated = state.updated /\ age[state.updated] > timeout + Period
     => state'.temp = DefaultTemp]_sensorVars

Settles == \A t \in Temps : <>[](cfg.temp = t /\ cfg.updated > 0) => <>[](state.temp = t)

\* With no timeout and no filter the sensor settles on the value written last: the
\* comparison of the timestamps misses no write, however the copies fall.
SettlesUnfiltered == timeout = 0 /\ filter = "none" => Settles

===============================================================================
