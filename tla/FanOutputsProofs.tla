--------------------------- MODULE FanOutputsProofs ---------------------------
(***************************************************************************)
(* Proofs about FanOutputs, for any number of fans and motherboard        *)
(* connectors, any map, hysteresis and threshold, and any number of       *)
(* commands, in any order with the updates.                               *)
(***************************************************************************)
EXTENDS FanOutputs, SequenceTheorems, TLAPS

\* A pin has the duty cycle it was last set to, and core 1 remembers which one.
PinInv ==
  /\ pwm = prev
  /\ \A f \in Fan : prev[f] = duty[f] \/ Abs(prev[f] - duty[f]) < used[f]

\* A connector whose mode is as it was at boot is driven as its setting says.
ModeInv ==
  \A m \in Mb \ touched :
    /\ m \in started <=> mbs[m].mode = "tacho"
    /\ m \notin started /\ mbs[m].threshold > 0 =>
         level[m] = (IF fprev[m] < mbs[m].threshold THEN Alarm(m) ELSE ~Alarm(m))
    /\ m \in started => fprev[m] = (IF fifo[m] = <<>> THEN wave[m] ELSE fifo[m][Len(fifo[m])])

\* What this round has updated already, or the last round, is off by less than 1 Hz.
RoundInv ==
  \A m \in Mb : next = 0 \/ next > N + m => ~Changed(fprev[m], freq[m], MbHyst)

IInv == TypeOK /\ PinInv /\ ModeInv /\ RoundInv

-------------------------------------------------------------------------------
\* The limits keep a duty cycle a duty cycle, whichever of them is the larger.
LEMMA LimitedType ==
  ASSUME NEW s \in FanCfg, NEW d \in Nat
  PROVE  Limited(s, d) \in Duty
BY CountAssumption DEF Limited, FanCfg, Duty

\* The value of a source is a duty cycle.
LEMMA SourceType ==
  ASSUME TypeOK, NEW src \in Sources
  PROVE  SourceValue(src) \in Duty
<1>1. CASE src \in {"fixed"} \X Duty
  BY <1>1 DEF SourceValue
<1>2. CASE src \in {"input"} \X Inputs
  BY <1>2 DEF SourceValue, TypeOK
<1>3. CASE src \in {"fan"} \X Fan
  BY <1>3 DEF SourceValue, TypeOK
<1> QED BY <1>1, <1>2, <1>3 DEF Sources

\* Whatever calculate_pwm_duty() may return is a duty cycle.
LEMMA DutiesType ==
  ASSUME TypeOK, NEW f \in Fan
  PROVE  PwmDuties(f) \subseteq Duty
<1>1. core1fans[f] \in FanCfg
  BY DEF TypeOK
<1>2. \A d \in Duty : core1fans[f].curve[d] \in Nat
  BY <1>1, ValueAssumption DEF FanCfg
<1>3. \A d \in Duty : Limited(core1fans[f], core1fans[f].curve[d]) \in Duty
  BY <1>1, <1>2, LimitedType
<1>4. SourceValue(core1fans[f].src) \in Duty
  BY <1>1, SourceType DEF FanCfg
<1> QED BY <1>3, <1>4 DEF PwmDuties, PwmDuty

\* The duties of a fan that are near enough to what its pin has.
LEMMA CloseEnough ==
  ASSUME NEW old \in Nat, NEW new \in Nat, NEW h \in Nat, ~Changed(old, new, h)
  PROVE  Abs(old - new) < h
BY DEF Changed, Abs

\* Reading the first word of a FIFO: the last word stays, unless it was the first.
LEMMA FifoRead ==
  ASSUME NEW s \in Seq(Nat), s # <<>>
  PROVE  /\ Head(s) \in Nat /\ Tail(s) \in Seq(Nat)
         /\ Tail(s) = <<>> => s[Len(s)] = Head(s)
         /\ Tail(s) # <<>> => Tail(s)[Len(Tail(s))] = s[Len(s)]
<1>1. /\ Head(s) \in Nat /\ Tail(s) \in Seq(Nat)
      /\ Len(Tail(s)) = Len(s) - 1 /\ Len(s) \in Nat
      /\ \A k \in 1..Len(Tail(s)) : Tail(s)[k] = s[k+1]
  BY HeadTailProperties
<1>2. CASE Tail(s) = <<>>
  <2>1. Len(s) = 1
    <3>1. Len(Tail(s)) = 0
      BY <1>2, EmptySeq
    <3>2. Len(s) - 1 = 0 /\ Len(s) \in Nat
      BY <1>1, <3>1, Zenon
    <3> QED BY <3>2
  <2>2. Head(s) = s[1]
    OBVIOUS
  <2> QED BY <1>2, <2>1, <2>2
<1>3. CASE Tail(s) # <<>>
  <2>1. Len(Tail(s)) \in Nat \ {0}
    BY <1>1, <1>3, EmptySeq
  <2>2. Tail(s)[Len(Tail(s))] = s[Len(Tail(s)) + 1]
    BY <1>1, <2>1
  <2>3. Len(Tail(s)) + 1 = Len(s)
    BY <1>1
  <2> QED BY <1>1, <1>3, <2>2, <2>3
<1> QED BY <1>1, <1>2, <1>3

-------------------------------------------------------------------------------
\* The initial states satisfy the inductive invariant.
LEMMA InitIInv == Init => IInv
<1> SUFFICES ASSUME Init PROVE IInv
  OBVIOUS
<1> USE CountAssumption, ValueAssumption, ThresholdAssumption
<1>1. fans \in [Fan -> FanCfg] /\ core1fans \in [Fan -> FanCfg]
  BY DEF Init
<1>2. TypeOK
  BY <1>1 DEF Init, TypeOK, Duty, Alarm, MbCfg
<1>3. PinInv
  BY DEF Init, PinInv
<1>4. ModeInv
  BY DEF Init, ModeInv, Alarm, MbCfg, MbHyst
<1>5. RoundInv
  BY DEF Init, RoundInv, Changed, Abs, MbHyst
<1> QED BY <1>2, <1>3, <1>4, <1>5 DEF IInv

\* Commands change settings only; what decides about a motherboard output is then
\* no longer as it was at boot.
LEMMA Core0Step == IInv /\ Core0 => IInv'
<1> SUFFICES ASSUME IInv, Core0 PROVE IInv'
  OBVIOUS
<1> USE DEF IInv
<1>1. ASSUME NEW f \in Fan, NEW s \in FanCfg, SetFan(f, s) PROVE IInv'
  <2>1. TypeOK'
    BY <1>1, CountAssumption
    DEF TypeOK, SetFan, Command, Core1Unchanged, fanOut, mbOut
  <2>2. (PinInv /\ ModeInv /\ RoundInv)'
    BY <1>1 DEF SetFan, Core1Unchanged, fanOut, mbOut, PinInv, ModeInv, RoundInv, Alarm
  <2> QED BY <2>1, <2>2
<1>2. \A f \in Fan : fans[f] \in FanCfg
  BY DEF TypeOK
<1>3. ASSUME NEW f \in Fan, NEW src \in Sources, SetSource(f, src) PROVE IInv'
  BY <1>1, <1>2, <1>3 DEF SetSource, FanCfg
<1>4. ASSUME NEW f \in Fan, NEW d \in Duty, SetMinPwm(f, d) PROVE IInv'
  BY <1>1, <1>2, <1>4 DEF SetMinPwm, FanCfg
<1>5. ASSUME NEW f \in Fan, NEW d \in Duty, SetMaxPwm(f, d) PROVE IInv'
  BY <1>1, <1>2, <1>5 DEF SetMaxPwm, FanCfg
<1>6. ASSUME NEW f \in Fan, NEW h \in Hysts, SetPwmHyst(f, h) PROVE IInv'
  BY <1>1, <1>2, <1>6 DEF SetPwmHyst, FanCfg
<1>7. ASSUME NEW f \in Fan, NEW c \in Curves, SetCurve(f, c) PROVE IInv'
  BY <1>1, <1>2, <1>7 DEF SetCurve, FanCfg
<1>8. ASSUME NEW m \in Mb, NEW s \in MbCfg, SetRpmMode(m, s) PROVE IInv'
  <2>1. TypeOK'
    BY <1>8, CountAssumption
    DEF TypeOK, SetRpmMode, Command, Core1Unchanged, fanOut, mbOut
  <2>2. (PinInv /\ RoundInv)'
    BY <1>8 DEF SetRpmMode, Core1Unchanged, fanOut, mbOut, PinInv, RoundInv
  <2>3. ModeInv'
    BY <1>8 DEF SetRpmMode, Core1Unchanged, fanOut, mbOut, ModeInv, Alarm, TypeOK
  <2> QED BY <2>1, <2>2, <2>3
<1> QED BY <1>3, <1>4, <1>5, <1>6, <1>7, <1>8 DEF Core0

\* An update of a fan leaves the pin at, or near, what is calculated.
LEMMA FanStep ==
  ASSUME IInv, NEW f \in Fan, UpdateFan(f)
  PROVE  IInv'
<1> USE DEF IInv
<1>1. PICK d \in PwmDuties(f) :
        /\ duty' = [duty EXCEPT ![f] = d]
        /\ IF Changed(prev[f], d, fans[f].hyst)
           THEN prev' = [prev EXCEPT ![f] = d] /\ pwm' = [pwm EXCEPT ![f] = d]
           ELSE UNCHANGED <<prev, pwm>>
  BY DEF UpdateFan
<1>2. d \in Duty
  BY DutiesType
<1>3. fans[f].hyst \in Nat
  BY ValueAssumption DEF TypeOK, FanCfg
<1>4. TypeOK'
  BY <1>1, <1>2, <1>3, CountAssumption
  DEF TypeOK, UpdateFan, Continue, core0, mbOut
<1>5. PinInv'
  <2>1. pwm' = prev'
    BY <1>1 DEF PinInv
  <2>2. prev'[f] = duty'[f] \/ Abs(prev'[f] - duty'[f]) < used'[f]
    BY <1>1, <1>2, <1>3, CloseEnough, CountAssumption DEF UpdateFan, TypeOK, Duty
  <2>3. ASSUME NEW g \in Fan \ {f}
        PROVE prev'[g] = duty'[g] \/ Abs(prev'[g] - duty'[g]) < used'[g]
    <3>1. prev'[g] = prev[g] /\ duty'[g] = duty[g] /\ used'[g] = used[g]
      BY <1>1 DEF UpdateFan, TypeOK
    <3> QED BY <3>1 DEF PinInv
  <2> QED BY <2>1, <2>2, <2>3 DEF PinInv
<1>6. ModeInv'
  BY DEF ModeInv, Alarm, UpdateFan, core0, mbOut
<1>7. RoundInv'
  BY CountAssumption DEF RoundInv, UpdateFan, Continue, mbOut, Fan, Mb
<1> QED BY <1>4, <1>5, <1>6, <1>7

\* An update of a motherboard output drives it as its setting says.
LEMMA MbStep ==
  ASSUME IInv, NEW m \in Mb, UpdateMb(m)
  PROVE  IInv'
<1> USE DEF IInv
<1>1. freq[m] \in Nat /\ fprev[m] \in Nat /\ mbs[m] \in MbCfg
  BY DEF TypeOK
<1>2. mbs[m].threshold \in Nat /\ mbs[m].invert \in BOOLEAN
  BY <1>1, ThresholdAssumption DEF MbCfg
<1>3. TypeOK'
  <2>1. next' \in 0..(N + M)
    BY CountAssumption DEF TypeOK, UpdateMb, Continue
  <2>2. fprev' \in [Mb -> Nat]
    BY <1>1 DEF TypeOK, UpdateMb
  <2>3. fifo' \in [Mb -> Seq(Nat)]
    <3>1. fifo \in [Mb -> Seq(Nat)] /\ Append(fifo[m], freq[m]) \in Seq(Nat)
      BY <1>1, AppendProperties DEF TypeOK
    <3>2. fifo' = fifo \/ fifo' = [fifo EXCEPT ![m] = Append(fifo[m], freq[m])]
      BY DEF UpdateMb, PutPeriod, PutLevel
    <3> QED BY <3>1, <3>2
  <2>4. level' \in [Mb -> BOOLEAN]
    BY <1>2 DEF TypeOK, UpdateMb, PutPeriod, PutLevel, Alarm
  <2> QED BY <2>1, <2>2, <2>3, <2>4 DEF TypeOK, UpdateMb, core0, fanOut
<1>4. PinInv'
  BY DEF PinInv, UpdateMb, fanOut
<1>5. ModeInv'
  <2>1. \A k \in Mb \ {m} :
          level'[k] = level[k] /\ fifo'[k] = fifo[k] /\ fprev'[k] = fprev[k]
    BY DEF UpdateMb, PutPeriod, PutLevel, TypeOK
  <2>2. CASE ~Changed(fprev[m], freq[m], MbHyst)
    BY <2>2 DEF UpdateMb, ModeInv, Alarm, core0
  <2>3. CASE Changed(fprev[m], freq[m], MbHyst) /\ mbs[m].mode = "tacho"
    <3>1. fprev'[m] = freq[m] /\ fifo'[m] = Append(fifo[m], freq[m]) /\ fifo[m] \in Seq(Nat)
      BY <2>3 DEF UpdateMb, PutPeriod, TypeOK
    <3>2. fifo'[m] # <<>> /\ fifo'[m][Len(fifo'[m])] = fprev'[m]
      BY <3>1, <1>1
    <3> QED BY <2>1, <2>3, <3>1, <3>2 DEF UpdateMb, ModeInv, Alarm, core0
  <2>4. CASE Changed(fprev[m], freq[m], MbHyst) /\ mbs[m].mode # "tacho"
    <3>1. /\ fprev'[m] = freq[m]
          /\ level'[m] = (IF freq[m] < mbs[m].threshold THEN Alarm(m) ELSE ~Alarm(m))
      BY <2>4 DEF UpdateMb, PutLevel, TypeOK
    <3> QED BY <2>1, <2>4, <3>1 DEF UpdateMb, ModeInv, Alarm, core0
  <2> QED BY <2>2, <2>3, <2>4
<1>6. RoundInv'
  <2>1. ~Changed(fprev'[m], freq'[m], MbHyst)
    BY <1>1 DEF UpdateMb, Changed, Abs, MbHyst, TypeOK
  <2>2. ASSUME NEW k \in Mb \ {m}, next' = 0 \/ next' > N + k
        PROVE ~Changed(fprev'[k], freq'[k], MbHyst)
    <3>1. fprev'[k] = fprev[k] /\ freq'[k] = freq[k]
      BY DEF UpdateMb, TypeOK
    <3>2. next > N + k
      BY <2>2, CountAssumption DEF UpdateMb, Continue, Mb
    <3> QED BY <3>1, <3>2 DEF RoundInv
  <2> QED BY <2>1, <2>2 DEF RoundInv
<1> QED BY <1>3, <1>4, <1>5, <1>6

\* Every step preserves the inductive invariant.
LEMMA Step == IInv /\ [Next]_vars => IInv'
<1> SUFFICES ASSUME IInv, [Next]_vars PROVE IInv'
  OBVIOUS
<1> USE DEF IInv
<1>1. CASE Begin
  <2>1. TypeOK'
    <3>1. freq' \in [Mb -> Nat]
      BY <1>1, ValueAssumption DEF Begin
    <3>2. next' \in 0..(N + M)
      BY <1>1, CountAssumption DEF Begin
    <3> QED BY <1>1, <3>1, <3>2 DEF Begin, TypeOK, core0, fanOut
  <2>2. (PinInv /\ ModeInv)'
    BY <1>1 DEF Begin, PinInv, ModeInv, Alarm, core0, fanOut
  <2>3. RoundInv'
    BY <1>1, CountAssumption DEF Begin, RoundInv, Mb
  <2> QED BY <2>1, <2>2, <2>3
<1>2. CASE CopyConfig
  BY <1>2 DEF CopyConfig, TypeOK, PinInv, ModeInv, RoundInv, Alarm, core0, fanOut, mbOut
<1>3. ASSUME NEW k \in Inputs, NEW d \in Duty, Sense(k, d) PROVE IInv'
  BY <1>3 DEF Sense, TypeOK, PinInv, ModeInv, RoundInv, Alarm, core0, fanOut, mbOut
<1>4. ASSUME NEW m \in Mb, Generate(m) PROVE IInv'
  <2>1. fifo[m] \in Seq(Nat) /\ fifo[m] # <<>>
    BY <1>4 DEF Generate, TypeOK
  <2>2. /\ Head(fifo[m]) \in Nat /\ Tail(fifo[m]) \in Seq(Nat)
        /\ Tail(fifo[m]) = <<>> => fifo[m][Len(fifo[m])] = Head(fifo[m])
        /\ Tail(fifo[m]) # <<>> =>
             Tail(fifo[m])[Len(Tail(fifo[m]))] = fifo[m][Len(fifo[m])]
    BY <2>1, FifoRead
  <2>3. TypeOK'
    BY <1>4, <2>2 DEF Generate, TypeOK, core0, fanOut
  <2>4. (PinInv /\ RoundInv)'
    BY <1>4 DEF Generate, PinInv, RoundInv, fanOut
  <2>5. ModeInv'
    <3>1. /\ wave' = [wave EXCEPT ![m] = Head(fifo[m])]
          /\ fifo' = [fifo EXCEPT ![m] = Tail(fifo[m])]
          /\ UNCHANGED <<mbs, touched, started, level, fprev>>
      BY <1>4 DEF Generate, core0
    <3>2. \A k \in Mb \ {m} : wave'[k] = wave[k] /\ fifo'[k] = fifo[k]
      BY <3>1 DEF TypeOK
    <3>3. wave'[m] = Head(fifo[m]) /\ fifo'[m] = Tail(fifo[m])
      BY <3>1 DEF TypeOK
    <3>4. ASSUME NEW k \in Mb \ touched', k \in started'
          PROVE  fprev'[k] = (IF fifo'[k] = <<>> THEN wave'[k] ELSE fifo'[k][Len(fifo'[k])])
      <4>1. fprev[k] = (IF fifo[k] = <<>> THEN wave[k] ELSE fifo[k][Len(fifo[k])])
        BY <3>1, <3>4 DEF ModeInv
      <4>2. CASE k = m
        BY <2>1, <2>2, <3>1, <3>3, <4>1, <4>2
      <4>3. CASE k # m
        BY <3>1, <3>2, <4>1, <4>3
      <4> QED BY <4>2, <4>3
    <3> QED BY <3>1, <3>4 DEF ModeInv, Alarm
  <2> QED BY <2>3, <2>4, <2>5
<1>5. CASE UNCHANGED vars
  BY <1>5 DEF vars, TypeOK, PinInv, ModeInv, RoundInv, Alarm, core0, fanOut, mbOut
<1> QED
  BY <1>1, <1>2, <1>3, <1>4, <1>5, Core0Step, FanStep, MbStep DEF Next, Core1

\* The invariant holds whatever the commands, the fans and the motherboard do.
THEOREM Invariance == Spec => []IInv
BY InitIInv, Step, PTL DEF Spec

\* No map, coefficient, pair of limits or filter gives a duty cycle outside 0..Top, and
\* the round always has an output to go on with.
THEOREM TypeCorrect == Spec => []TypeOK
BY Invariance, PTL DEF IInv

\* The pin of every fan is off what is reported by less than the hysteresis.
THEOREM OutputsTrack == Spec => []OutputTracks
<1>1. IInv => OutputTracks
  BY DEF IInv, PinInv, OutputTracks
<1> QED BY <1>1, Invariance, PTL

\* A stopped fan is reported to the motherboard: by the alarm level where the threshold is
\* at least the change of frequency that is passed on, or as what the generator runs at.
THEOREM StopsReported == Spec => []StopReported
<1>1. IInv => StopReported
  <2> SUFFICES ASSUME IInv, NEW m \in Mb \ touched,
                      next = 0, m \notin started, freq[m] = 0, mbs[m].threshold >= MbHyst
               PROVE  level[m] = Alarm(m)
    BY DEF IInv, ModeInv, StopReported
  <2>1. fprev[m] \in Nat /\ mbs[m] \in MbCfg
    BY DEF IInv, TypeOK
  <2>2. mbs[m].threshold \in Nat
    BY <2>1, ThresholdAssumption DEF MbCfg
  <2>3. fprev[m] < MbHyst
    BY <2>1 DEF IInv, RoundInv, Changed, Abs, MbHyst
  <2> QED BY <2>1, <2>2, <2>3 DEF IInv, ModeInv, MbHyst
<1> QED BY <1>1, Invariance, PTL

===============================================================================
