------------------------------ MODULE SensorPolls ------------------------------
(***************************************************************************)
(* The temperature sensors and how their readings reach the virtual       *)
(* sensors.                                                               *)
(*                                                                         *)
(* Core 0 polls the I2C devices and core 1 the 1-Wire devices, each with  *)
(* a state machine that is called again after a delay it returns: it      *)
(* starts all measurements, then reads one device per call, and a device  *)
(* that does not answer must not keep the others from being read.  Every  *)
(* 2 s core 1 reads the analog sensors and works out the virtual sensors  *)
(* one after the other; a combination uses values of this round and of    *)
(* the round before.                                                      *)
(*                                                                         *)
(* Left to other modules: the copies of the configuration between the     *)
(* cores (DualCore), timeouts and filters (VirtualSensor).  Delays are    *)
(* left out, the order of calls is kept.  Averages are rounded down.      *)
(***************************************************************************)
EXTENDS Integers, Sequences, FiniteSets, SequencesExt

CONSTANTS
  SensorCount,  \* VSENSOR_COUNT
  Configs,      \* configurations: a sequence of virtual sensors each
  Devices,      \* I2C devices
  Chips,        \* 1-Wire addresses, in the order the bus reports them
  Values,       \* the temperatures each device, chip and "adc" may have, and those "written"
  MaxChanges,   \* bound: readings that differ from the last one
  MaxSwitches   \* bound: commands that change a sensor

None == "none"
Sensors == 1..SensorCount

Combinations == {"max", "min", "avg", "delta"}

Settings == [mode : {"manual", "i2c", "onewire"} \cup Combinations,
             device : Devices \cup {None}, chip : ToSet(Chips) \cup {None},
             sources : Seq({1} \cup {100 + i : i \in Sensors})]

ASSUME ConfigAssumption ==
  /\ SensorCount \in Nat \ {0} /\ Chips \in Seq(STRING)
  /\ Configs \subseteq [Sensors -> Settings]
  /\ \A x \in Devices \cup ToSet(Chips) \cup {"adc", "written"} : Values[x] \subseteq Int
  /\ MaxChanges \in Nat /\ MaxSwitches \in Nat

VARIABLES
  vs,        \* cfg->vsensors: mode, device of an I2C, chip of a 1-Wire sensor; sources of
             \* a combination up to the first 0: 1 for the analog sensor, 100 + i
  ctx,       \* cfg->i2c_context: the device behind it, or None
  i2c,       \* i2c_read_temps(): step and sensor, and whether it is called again
  cfgTemp,   \* cfg->vtemp
  new,       \* cfg->vtemp_updated is not state->vtemp_updated
  active,    \* cfg->onewire_active
  bus,       \* onewire_bus->addr: the devices that were found
  onewire,   \* onewire_read_temps(): step and sensor
  owTemp,    \* state->onewire_temp
  adcTemp,   \* state->temp
  vtemp,     \* state->vtemp
  changes,   \* readings that differed so far
  switches   \* commands so far

\* History: sensors whose measurement is started and not read yet; that were turned to I2C
\* since measurements were started; that a command has changed since start-up; and that
\* have been given a value by hand.
VARIABLES begun, late, moved, written

history == <<moved, written>>
core0 == <<vs, ctx, i2c, active, switches, begun, late, history>>
core1 == <<bus, onewire, owTemp, adcTemp, vtemp>>
vars == <<core0, core1, cfgTemp, new, changes>>

IsPolled(i) == vs[i].mode = "i2c" /\ ctx[i] # None

\* setup_i2c_bus(): a device that cannot be initialized gets no context.
SetupI2c ==
  /\ \E ok \in SUBSET Devices :
       ctx = [i \in Sensors |-> IF vs[i].mode = "i2c" /\ vs[i].device \in ok
                                THEN vs[i].device ELSE None]
  /\ i2c = [step |-> 0, sensor |-> 1, on |-> \E i \in Sensors : ctx[i] # None]

\* onewire_scan_bus(): the devices that are there, or none when no reset is answered, one
\* of them needs power from the bus, or the search fails.
ScanBus ==
  \E n \in 0..Len(Chips) : \E at \in [1..n -> DOMAIN Chips] :
    /\ \A j, k \in 1..n : j < k => at[j] < at[k]
    /\ bus = [j \in 1..n |-> Chips[at[j]]]

\* setup_onewire_bus(), once, with the bus on.
SetupOnewire == active = TRUE /\ onewire = [step |-> 0, sensor |-> 1] /\ ScanBus

\* clear_config(), the configuration, and the two buses.
Init ==
  /\ vs \in Configs /\ SetupI2c /\ SetupOnewire
  /\ cfgTemp = [i \in Sensors |-> 0] /\ new = [i \in Sensors |-> FALSE]
  /\ owTemp = [j \in 1..Len(Chips) |-> 0] /\ adcTemp = 0
  /\ vtemp = [i \in Sensors |-> 0]
  /\ changes = 0 /\ switches = 0 /\ begun = {} /\ late = {}
  /\ moved = {} /\ written = {}

\* t is read where the last value was old.
Reads(t, old) == changes' = changes + (IF t = old THEN 0 ELSE 1) /\ changes' <= MaxChanges

-------------------------------------------------------------------------------
(***************************************************************************)
(* i2c_read_temps(), core 0                                               *)
(***************************************************************************)

\* step 0: measurements are started; what a device answers is only logged.
I2cStart ==
  /\ i2c.on /\ i2c.step # 1
  /\ i2c' = [i2c EXCEPT !.step = 1, !.sensor = 1]
  /\ begun' = {i \in Sensors : IsPolled(i)} /\ late' = {}
  /\ UNCHANGED <<vs, ctx, active, switches, history, core1, cfgTemp, new, changes>>

\* MUTANT of Advance: the next round reads without a start.
AdvanceOnly(i) == i2c' = [i2c EXCEPT !.sensor = IF i >= SensorCount THEN 1 ELSE i + 1]

\* After the last sensor the round is over.
Advance(i) == i2c' = [i2c EXCEPT !.sensor = i + 1,
                                 !.step = IF i >= SensorCount THEN 2 ELSE 1]

\* The sensor that step 1 reads; past the last one when there is none left.
I2cNext == Min({i \in Sensors : i >= i2c.sensor /\ IsPolled(i)} \cup {SensorCount + 1})

\* MUTANT of I2cFails: the sensor is tried again at the next call.
I2cFailsAgain(i) == UNCHANGED <<i2c, cfgTemp, new, changes>>

\* An error is only logged.
I2cFails(i) == Advance(i) /\ UNCHANGED <<cfgTemp, new, changes>>

\* step 1, a sensor is read.
I2cRead(i) ==
  /\ i2c.on /\ i2c.step = 1 /\ i = I2cNext
  /\ begun' = begun \ {i} /\ late' = late \ {i}
  /\ \/ \E t \in Values[ctx[i]] :
          /\ Reads(t, cfgTemp[i]) /\ cfgTemp' = [cfgTemp EXCEPT ![i] = t]
          /\ new' = [new EXCEPT ![i] = TRUE]
          /\ Advance(i)
     \/ I2cFails(i)
  /\ UNCHANGED <<vs, ctx, active, switches, history, core1>>

\* step 1, no sensor is left to read.
I2cEnd ==
  /\ i2c.on /\ i2c.step = 1 /\ I2cNext \notin Sensors
  /\ Advance(I2cNext)
  /\ UNCHANGED <<vs, ctx, active, switches, begun, late, history, core1, cfgTemp, new,
                 changes>>

\* cmd_vsensor_source(): MANUAL, or an I2C device.  The context stays what it is.
SetSource(i, mode, d) ==
  /\ switches < MaxSwitches /\ switches' = switches + 1
  /\ vs' = [vs EXCEPT ![i].mode = mode, ![i].device = IF mode = "i2c" THEN d ELSE @]
  /\ moved' = moved \cup {i}
  /\ late' = IF mode = "i2c" /\ vs[i].mode # "i2c" THEN late \cup {i} ELSE late
  /\ UNCHANGED <<ctx, i2c, active, begun, written, core1, cfgTemp, new, changes>>

\* cmd_vsensor_write()
WriteTemp(i, t) ==
  /\ vs[i].mode = "manual" /\ Reads(t, cfgTemp[i])
  /\ cfgTemp' = [cfgTemp EXCEPT ![i] = t] /\ new' = [new EXCEPT ![i] = TRUE]
  /\ written' = written \cup {i}
  /\ UNCHANGED <<vs, ctx, i2c, active, switches, begun, late, moved, core1>>

\* cmd_onewire()
SetOnewire ==
  /\ switches < MaxSwitches /\ switches' = switches + 1 /\ active' = ~active
  /\ UNCHANGED <<vs, ctx, i2c, begun, late, history, core1, cfgTemp, new, changes>>

-------------------------------------------------------------------------------
(***************************************************************************)
(* onewire_read_temps(), core 1                                           *)
(***************************************************************************)

\* step 0: all devices are told to convert; 15 s later it is tried again.
Convert ==
  /\ active /\ bus # <<>> /\ onewire.step # 1
  /\ onewire' \in {[step |-> 1, sensor |-> 1], [onewire EXCEPT !.step = 2]}
  /\ UNCHANGED <<core0, bus, owTemp, adcTemp, vtemp, cfgTemp, new, changes>>

\* step 1, a device is read; an error is only logged.
OneWireRead(j) ==
  /\ active /\ j \in DOMAIN bus /\ onewire.step = 1 /\ onewire.sensor = j
  /\ \/ \E t \in Values[bus[j]] :
          /\ Reads(t, owTemp[j]) /\ owTemp' = [owTemp EXCEPT ![j] = t]
     \/ UNCHANGED <<owTemp, changes>>
  /\ onewire' = [onewire EXCEPT !.sensor = j + 1]
  /\ UNCHANGED <<core0, bus, adcTemp, vtemp, cfgTemp, new>>

OneWireEnd ==
  /\ active /\ onewire.step = 1 /\ onewire.sensor > Len(bus)
  /\ onewire' = [onewire EXCEPT !.step = 2]
  /\ UNCHANGED <<core0, bus, owTemp, adcTemp, vtemp, cfgTemp, new, changes>>

-------------------------------------------------------------------------------
(***************************************************************************)
(* get_temperature() and get_vsensor() for all sensors, core 1            *)
(***************************************************************************)

\* The values of the sources of sensor i, before its turn in a round.
SourceValues(i, adc, v) ==
  [k \in DOMAIN vs[i].sources |->
     IF vs[i].sources[k] > 100 THEN v[vs[i].sources[k] - 100] ELSE adc]

\* MUTANT of Combine: the first value is compared with 0.
CombineFromZero(mode, k, t, x) ==
  CASE mode = "max" -> IF x > t THEN x ELSE t
    [] mode = "min" -> IF x < t THEN x ELSE t
    [] mode = "avg" -> t + x
    [] mode = "delta" -> IF k = 1 THEN x ELSE IF k = 2 THEN t - x ELSE t

\* What the loop over the sources of a combination makes of t with the value x of source k.
Combine(mode, k, t, x) ==
  CASE mode = "max" -> IF k = 1 \/ x > t THEN x ELSE t
    [] mode = "min" -> IF k = 1 \/ x < t THEN x ELSE t
    [] mode = "avg" -> t + x
    [] mode = "delta" -> IF k = 1 THEN x ELSE IF k = 2 THEN t - x ELSE t

Combined(mode, vals) ==
  LET t[k \in 0..Len(vals)] == IF k = 0 THEN 0 ELSE Combine(mode, k, t[k-1], vals[k])
  IN IF mode = "avg" /\ vals # <<>> THEN t[Len(vals)] \div Len(vals) ELSE t[Len(vals)]

\* MUTANT of OneWireValue: the position in the configuration, not the address.
OneWireByPosition(i) == owTemp[Min({i, Len(Chips)})]

\* A 1-Wire sensor is looked up by its address.
OneWireValue(i) ==
  LET found == {j \in DOMAIN bus : bus[j] = vs[i].chip}
  IN IF found = {} THEN 0 ELSE owTemp[Min(found)]

\* get_vsensor(): a reading is taken over when it is new.
Vsensor(i, adc, v) ==
  CASE vs[i].mode \in {"manual", "i2c"} -> IF new[i] THEN cfgTemp[i] ELSE v[i]
    [] vs[i].mode = "onewire" -> OneWireValue(i)
    [] OTHER -> Combined(vs[i].mode, SourceValues(i, adc, v))

\* time_passed(&t_temp, 2000)
Sense(adc) ==
  /\ Reads(adc, adcTemp) /\ adcTemp' = adc
  /\ vtemp' = LET round[i \in 0..SensorCount] ==
                    IF i = 0 THEN vtemp
                    ELSE [round[i-1] EXCEPT ![i] = Vsensor(i, adc, round[i-1])]
              IN round[SensorCount]
  /\ new' = [i \in Sensors |-> new[i] /\ vs[i].mode \notin {"manual", "i2c"}]
  /\ UNCHANGED <<core0, bus, onewire, owTemp, cfgTemp>>

I2cPoll == I2cStart \/ I2cEnd \/ \E i \in Sensors : I2cRead(i)
OneWirePoll == Convert \/ OneWireEnd \/ \E j \in DOMAIN Chips : OneWireRead(j)
Round == \E adc \in Values["adc"] : Sense(adc)

Next ==
  \/ I2cPoll \/ OneWirePoll \/ Round
  \/ \E i \in Sensors : vs[i].mode \in {"i2c", "manual"} /\
       \E mode \in {"i2c", "manual"}, d \in Devices : SetSource(i, mode, d)
  \/ \E i \in Sensors, t \in Values["written"] : WriteTemp(i, t)
  \/ SetOnewire

Spec == Init /\ [][Next]_vars

\* The main loops of both cores go on, and the 1-Wire bus works every now and then.
FairSpec ==
  /\ Spec /\ WF_vars(I2cPoll) /\ WF_vars(OneWirePoll) /\ WF_vars(Round)
  /\ SF_vars(Convert /\ onewire'.step = 1)

-------------------------------------------------------------------------------
\* What an I2C sensor has to show: values of the device behind it, and those it was given
\* by hand while it was MANUAL.
Reachable(i) ==
  {0} \cup (IF ctx[i] = None THEN {} ELSE Values[ctx[i]])
      \cup (IF i \in written THEN Values["written"] ELSE {})

\* A sensor shows temperatures of its own device: neither the order in which devices are
\* found nor one that is missing mixes them up.  For an I2C sensor that is the device that
\* was initialized for it at start-up: the one it is set to, or, when a command has moved
\* the sensor to another device since, still the one it had then.
OwnDevice ==
  \A i \in Sensors :
    /\ vs[i].mode = "i2c" => vtemp[i] \in Reachable(i)
    /\ vs[i].mode = "i2c" /\ i \notin moved => ctx[i] \in {vs[i].device, None}
    /\ vs[i].mode = "onewire" => vtemp[i] \in {0} \cup Values[vs[i].chip]

\* A device is asked for a measurement only when one was started in this round.  The one
\* exception is a sensor that a command has turned to I2C since: its device is read without.
StartedFirst == [][\A i \in Sensors : I2cRead(i) => i \in begun \cup late]_vars

\* Whatever fails, every I2C and 1-Wire device is tried again and again.
AllTried ==
  /\ \A i \in Sensors : <>[]IsPolled(i) => []<><<I2cRead(i)>>_vars
  /\ \A j \in DOMAIN Chips : <>[](active /\ j \in DOMAIN bus) => []<><<OneWireRead(j)>>_vars

\* What a combination of the values is meant to be.
Ideal(mode, vals) ==
  LET all == {vals[k] : k \in DOMAIN vals}
  IN CASE mode = "max" -> Max(all)
       [] mode = "min" -> Min(all)
       [] mode = "avg" -> FoldSet(LAMBDA k, sum : vals[k] + sum, 0, DOMAIN vals) \div Len(vals)
       [] mode = "delta" -> vals[1] - vals[2]

\* Once the temperatures stay the same, every combination settles on that of the
\* values of its sources, also when they come later in the round.
CombinationsSettle ==
  <>[](\A i \in Sensors : vs[i].mode \in Combinations =>
         vtemp[i] = Ideal(vs[i].mode, SourceValues(i, adcTemp, vtemp)))

===============================================================================
