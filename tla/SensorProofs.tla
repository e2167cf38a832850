----------------------------- MODULE SensorProofs -----------------------------
(***************************************************************************)
(* Proofs about VirtualSensor, for any filter, timeout and temperatures,  *)
(* and about SensorPolls, for any number of sensors and devices.          *)
(***************************************************************************)
EXTENDS VirtualSensor, SensorPolls, DataProofs

(***************************************************************************)
(* The filters of one virtual sensor                                      *)
(***************************************************************************)

\* T is a set of temperatures without gaps: a range, or all of them.
IsRange(T) == T \subseteq Int /\ \A a, b \in T : a..b \subseteq T

FilterContexts(T) ==
  [peak : T, decaying : BOOLEAN, peakAge : 0..OldAge, data : {s \in Seq(T) : Len(s) <= Window}]

\* Ages are told apart up to past every timeout.
LEMMA OldAgeBound ==
  /\ OldAge \in Nat
  /\ \A t \in Timeouts : t \in Nat /\ t + Period < OldAge
<1>1. PICK m \in Timeouts : \A t \in Timeouts : t <= m
  BY SensorAssumption
<1> DEFINE top == Max(Timeouts)
<1>2. top \in Timeouts /\ \A t \in Timeouts : t <= top
  <2>1. \A t \in Timeouts : m >= t
    BY <1>1, SensorAssumption
  <2>2. top \in Timeouts /\ \A t \in Timeouts : top >= t
    BY <2>1 DEF Max
  <2>3. QED
    BY <2>2, SensorAssumption
<1>3. OldAge = top + Delay + Period + 1
  BY DEF OldAge
<1> HIDE DEF top
<1>4. top \in Nat /\ Delay \in Nat /\ Timeouts \subseteq Nat
  BY <1>2, SensorAssumption, FilterAssumption
<1>5. QED
  BY <1>2, <1>3, <1>4 DEF Period

\* The sums of the first values of a window.
LEMMA SumsExist ==
  ASSUME NEW s \in Seq(Int)
  PROVE  \E sum : /\ sum = [k \in 0..Len(s) |-> IF k = 0 THEN 0 ELSE sum[k-1] + s[k]]
                  /\ SumOf(s) = sum[Len(s)]
<1> DEFINE n == Len(s)
           F == [k \in 1..n |-> [x \in Int |-> x + s[k]]]
<1>1. n \in Nat /\ 0 \in Int /\ \A k \in 1..n : s[k] \in Int
  OBVIOUS
<1>2. F \in [1..n -> [Int -> Int]]
  BY <1>1
<1>3. PICK f : IsRecursion(f, n, 0, F)
  <2> HIDE DEF n, F
  <2>1. QED
    BY <1>1, <1>2, RecursionExists
<1>4. Unfolds(f, n, Int, 0, F)
  <2> HIDE DEF n, F
  <2>1. QED
    BY <1>1, <1>2, <1>3, RecursionType
<1>5. f = [k \in 0..n |-> IF k = 0 THEN 0 ELSE f[k-1] + s[k]]
  <2> DEFINE g == [k \in 0..n |-> IF k = 0 THEN 0 ELSE f[k-1] + s[k]]
  <2>1. ASSUME NEW k \in 0..n PROVE f[k] = g[k]
    <3>1. CASE k = 0
      BY <1>4, <3>1 DEF Unfolds
    <3>2. CASE k # 0
      <4>1. k \in 1..n /\ k - 1 \in 0..n
        BY <1>1, <3>2
      <4>2. f[k-1] \in Int /\ f[k] = F[k][f[k-1]]
        BY <1>4, <4>1 DEF Unfolds
      <4>3. F[k][f[k-1]] = f[k-1] + s[k]
        BY <4>1, <4>2
      <4>4. QED
        BY <3>2, <4>2, <4>3
    <3>3. QED
      BY <3>1, <3>2
  <2>2. f \in [0..n -> Int]
    BY <1>4 DEF Unfolds
  <2>3. QED
    BY <2>1, <2>2
<1> DEFINE sum[k \in 0..Len(s)] == IF k = 0 THEN 0 ELSE sum[k-1] + s[k]
<1>6. sum = [k \in 0..Len(s) |-> IF k = 0 THEN 0 ELSE sum[k-1] + s[k]]
  BY <1>5
<1>7. SumOf(s) = sum[Len(s)]
  BY DEF SumOf
<1> HIDE DEF sum
<1>8. QED
  BY <1>6, <1>7

\* The mean of a window is not outside of its values: no sum is below the number of
\* values times some value, or above that times another.
LEMMA SumBetween ==
  ASSUME NEW T, IsRange(T), NEW s \in Seq(T), s # <<>>
  PROVE  \E low, high \in T : SumOf(s) \in Int /\ low * Len(s) <= SumOf(s)
                              /\ SumOf(s) <= high * Len(s)
<1>1. Len(s) \in Nat \ {0} /\ T \subseteq Int /\ \A k \in 1..Len(s) : s[k] \in T
  BY DEF IsRange
<1>2. s \in Seq(Int)
  BY <1>1, SeqMonotonic
<1>3. PICK sum : /\ sum = [k \in 0..Len(s) |-> IF k = 0 THEN 0 ELSE sum[k-1] + s[k]]
                 /\ SumOf(s) = sum[Len(s)]
  BY <1>2, SumsExist
<1>4. sum[0] = 0 /\ \A k \in 1..Len(s) : sum[k] = sum[k-1] + s[k]
  BY <1>1, <1>3
<1> DEFINE Between(k) == \E low, high \in T : sum[k] \in Int /\ low * k <= sum[k]
                                              /\ sum[k] <= high * k
           U == {n \in 0..Len(s)-1 : Between(n + 1)}
<1>5. 0 \in U
  <2> HIDE DEF U, Between
  <2>1. 1 \in 1..Len(s) /\ 1 - 1 = 0
    BY <1>1
  <2>2. sum[1] = sum[1-1] + s[1] /\ s[1] \in T
    BY <1>1, <1>4, <2>1
  <2>3. s[1] \in Int
    BY <1>1, <2>2
  <2>4. sum[1] = s[1] /\ s[1] * 1 = s[1]
    BY <1>4, <2>1, <2>2, <2>3
  <2>5. Between(0 + 1)
    BY <2>2, <2>3, <2>4 DEF Between
  <2>6. QED
    BY <1>1, <2>5 DEF U
<1>6. ASSUME NEW n \in 0..(Len(s)-1)-1, n \in U PROVE n + 1 \in U
  <2> DEFINE m == n + 1
             x == s[m + 1]
  <2>1. m \in Nat \ {0} /\ m + 1 \in 1..Len(s) /\ m \in 0..Len(s)-1 /\ (m + 1) - 1 = m
    BY <1>1
  <2>2. PICK low, high \in T : sum[m] \in Int /\ low * m <= sum[m] /\ sum[m] <= high * m
    BY <1>6
  <2>3. x \in T /\ sum[m + 1] = sum[m] + x
    BY <1>1, <1>4, <2>1
  <2> HIDE DEF m, x
  <2>4. low \in Int /\ high \in Int /\ x \in Int
    BY <1>1, <2>3
  <2>5. PICK l \in T : l <= low /\ l <= x
    BY <2>3, <2>4
  <2>6. PICK h \in T : high <= h /\ x <= h
    BY <2>3, <2>4
  <2>7. l \in Int /\ h \in Int
    BY <1>1
  <2>8. l * (m + 1) = l * m + l /\ h * (m + 1) = h * m + h
    BY <2>1, <2>7
  <2>9. l * m <= low * m /\ high * m <= h * m
    BY <2>1, <2>4, <2>5, <2>6, <2>7
  <2>10. sum[m + 1] \in Int /\ l * (m + 1) <= sum[m + 1] /\ sum[m + 1] <= h * (m + 1)
    <3>1. l * m \in Int /\ low * m \in Int /\ high * m \in Int /\ h * m \in Int
      BY <2>1, <2>4, <2>7
    <3>2. QED
      BY <2>2, <2>3, <2>4, <2>5, <2>6, <2>7, <2>8, <2>9, <3>1
  <2>11. Between(m + 1)
    BY <2>10
  <2>12. QED
    BY <2>1, <2>11 DEF m
<1>7. 0..Len(s)-1 \subseteq U
  <2> HIDE DEF U
  <2>1. Len(s) - 1 \in Nat
    BY <1>1
  <2>2. QED
    BY <1>5, <1>6, <2>1, BoundedInduction
<1>8. Between(Len(s))
  <2> HIDE DEF U, Between
  <2>1. Len(s) - 1 \in U /\ (Len(s) - 1) + 1 = Len(s)
    BY <1>1, <1>7
  <2>2. QED
    BY <2>1 DEF U
<1>9. QED
  BY <1>3, <1>8

\* lossy_peak_filter(): never below its input, and not above what it was.
LEMMA PeakBetween ==
  ASSUME NEW T, IsRange(T), NEW c \in FilterContexts(T), NEW input \in T
  PROVE  /\ LossyPeak(c, input) \in FilterContexts(T)
         /\ input <= LossyPeak(c, input).peak
         /\ LossyPeak(c, input).peak <= c.peak \/ LossyPeak(c, input).peak = input
<1> DEFINE startDecay == ~c.decaying /\ c.peakAge > Delay
           elapsed == IF ~startDecay \/ Delay = 0 THEN Period ELSE c.peakAge - Delay
           loss == elapsed * Decay
           floor == c.peak - loss
<1>1. /\ c.peak \in Int /\ input \in Int /\ c.peak \in T /\ c.peakAge \in Nat
      /\ c.decaying \in BOOLEAN /\ 0 \in 0..OldAge
  <2>1. c.peak \in T /\ c.peakAge \in 0..OldAge /\ c.decaying \in BOOLEAN
    BY DEF FilterContexts
  <2>2. T \subseteq Int
    BY DEF IsRange
  <2>3. c.peakAge \in Nat /\ 0 \in 0..OldAge
    BY <2>1, OldAgeBound
  <2>4. QED
    BY <2>1, <2>2, <2>3
<1>2. loss \in Nat
  <2>1. elapsed \in Nat
    BY <1>1, FilterAssumption DEF Period
  <2> HIDE DEF elapsed
  <2>2. QED
    BY <2>1, FilterAssumption
<1>3. LossyPeak(c, input) =
        CASE input >= c.peak ->
               [c EXCEPT !.peak = input, !.decaying = FALSE, !.peakAge = 0]
          [] input < c.peak /\ (c.decaying \/ startDecay) ->
               [c EXCEPT !.peak = IF input > floor THEN input ELSE floor, !.decaying = TRUE]
          [] OTHER -> c
  BY DEF LossyPeak
<1> HIDE DEF startDecay, loss
<1>4. CASE input >= c.peak
  <2>1. LossyPeak(c, input) = [c EXCEPT !.peak = input, !.decaying = FALSE, !.peakAge = 0]
    BY <1>1, <1>3, <1>4
  <2>2. LossyPeak(c, input) \in FilterContexts(T)
    BY <1>1, <2>1 DEF FilterContexts
  <2>3. LossyPeak(c, input).peak = input
    BY <2>1 DEF FilterContexts
  <2>4. QED
    BY <1>1, <2>2, <2>3
<1>5. CASE input < c.peak /\ (c.decaying \/ startDecay)
  <2> DEFINE p == IF input > floor THEN input ELSE floor
  <2>1. p \in Int /\ input <= p /\ p <= c.peak
    BY <1>1, <1>2, <1>5
  <2>2. p \in T
    BY <1>1, <2>1 DEF IsRange
  <2>3. LossyPeak(c, input) = [c EXCEPT !.peak = p, !.decaying = TRUE]
    BY <1>1, <1>3, <1>5
  <2> HIDE DEF p
  <2>4. QED
    BY <1>1, <2>1, <2>2, <2>3 DEF FilterContexts
<1>6. CASE ~(input >= c.peak) /\ ~(input < c.peak /\ (c.decaying \/ startDecay))
  <2>1. LossyPeak(c, input) = c /\ input < c.peak
    BY <1>1, <1>3, <1>6
  <2>2. QED
    BY <1>1, <2>1
<1>7. QED
  BY <1>4, <1>5, <1>6

\* sma_filter(): the window stays one.
LEMMA WindowKept ==
  ASSUME NEW T, NEW c \in FilterContexts(T), NEW input \in T
  PROVE  /\ SmaPush(c, input) \in FilterContexts(T)
         /\ SmaPush(c, input).data \in Seq(T) /\ SmaPush(c, input).data # <<>>
<1> DEFINE old == IF Len(c.data) < Window THEN c.data ELSE Tail(c.data)
<1>1. c.data \in Seq(T) /\ Len(c.data) \in Nat /\ Len(c.data) <= Window /\ Window \in Nat
      /\ Window >= 2
  BY FilterAssumption DEF FilterContexts
<1>2. old \in Seq(T) /\ Len(old) \in Nat /\ Len(old) < Window
  <2>1. CASE Len(c.data) < Window
    BY <1>1, <2>1
  <2>2. CASE ~(Len(c.data) < Window)
    <3>1. c.data # <<>>
      BY <1>1, <2>2
    <3>2. Tail(c.data) \in Seq(T) /\ Len(Tail(c.data)) = Len(c.data) - 1
      BY <1>1, <3>1
    <3>3. QED
      BY <1>1, <2>2, <3>2
  <2>3. QED
    BY <2>1, <2>2
<1>3. SmaPush(c, input) = [c EXCEPT !.data = Append(old, input)]
  BY DEF SmaPush, FilterContexts
<1> HIDE DEF old
<1>4. Append(old, input) \in Seq(T) /\ Len(Append(old, input)) = Len(old) + 1
      /\ Append(old, input) # <<>>
  BY <1>2
<1>5. Len(Append(old, input)) <= Window
  BY <1>1, <1>2, <1>4
<1>6. QED
  BY <1>3, <1>4, <1>5 DEF FilterContexts

\* sensor_filter(): what any filter returns is within any range that its input is within
\* and always has been.
THEOREM FilteredWithin ==
  ASSUME NEW T, IsRange(T), NEW c \in FilterContexts(T), NEW input \in T, filter \in Filters
  PROVE  Filtered(c, input)[1] \in FilterContexts(T) /\ Filtered(c, input)[2] \in T
<1>1. CASE filter = "none"
  BY <1>1 DEF Filtered
<1>2. CASE filter = "lossypeak"
  <2>1. LossyPeak(c, input) \in FilterContexts(T)
    BY PeakBetween
  <2>2. LossyPeak(c, input).peak \in T
    BY <2>1 DEF FilterContexts
  <2>3. QED
    BY <1>2, <2>1, <2>2 DEF Filtered
<1>3. CASE filter = "sma"
  <2> DEFINE d == SmaPush(c, input)
  <2>1. d \in FilterContexts(T) /\ d.data \in Seq(T) /\ d.data # <<>>
    BY WindowKept
  <2>2. PICK low, high \in T : /\ SumOf(d.data) \in Int /\ low * Len(d.data) <= SumOf(d.data)
                               /\ SumOf(d.data) <= high * Len(d.data)
    BY <2>1, SumBetween
  <2>3. Filtered(c, input) = <<d, SumOf(d.data) \div Len(d.data)>>
    BY <1>3 DEF Filtered
  <2> HIDE DEF d
  <2>4. low \in Int /\ high \in Int /\ Len(d.data) \in Nat \ {0}
    BY <2>1 DEF IsRange
  <2> DEFINE mean == SumOf(d.data) \div Len(d.data)
  <2>5. mean \in Int /\ low <= mean /\ mean <= high
    BY <2>2, <2>4, QuotientBetween
  <2> HIDE DEF mean
  <2>6. mean \in T
    BY <2>5 DEF IsRange
  <2>7. QED
    BY <2>1, <2>3, <2>6 DEF mean
<1>4. QED
  BY <1>1, <1>2, <1>3, FilterAssumption

-------------------------------------------------------------------------------
(***************************************************************************)
(* One virtual sensor                                                     *)
(***************************************************************************)

\* Types, with T for the temperatures.
SensorTypes(T) ==
  /\ filter \in Filters /\ timeout \in Timeouts
  /\ cfg \in [temp : T, updated : 0..MaxWrites]
  /\ core1cfg \in [temp : T, updated : 0..MaxWrites]
  /\ state \in [temp : T, updated : 0..MaxWrites]
  /\ filterCtx \in FilterContexts(T)
  /\ age \in [0..MaxWrites -> 0..OldAge] /\ wait \in 0..Period

\* The value of a write that is too old is replaced at the first call after that.
StaleInv == filter = "none" /\ timeout > 0 /\ age[state.updated] > timeout + wait
              => state.temp = DefaultTemp

\* What is shown through lossypeak is its peak.
PeakInv == filter = "lossypeak" => state.temp = filterCtx.peak

SensorIInv == SensorTypes(Int) /\ StaleInv /\ PeakInv

\* The initial states have these types.
LEMMA InitTypes ==
  ASSUME NEW T, Temps \cup {0, DefaultTemp} \subseteq T, SensorInit
  PROVE  SensorTypes(T)
<1>1. OldAge \in 0..OldAge /\ 0 \in 0..OldAge /\ 0 \in 0..MaxWrites /\ 0 \in 0..Period
  BY OldAgeBound, SensorAssumption DEF Period
<1>2. cfg \in [temp : T, updated : 0..MaxWrites]
  BY <1>1 DEF SensorInit
<1>3. <<>> \in {w \in Seq(T) : Len(w) <= Window}
  BY FilterAssumption
<1>4. filterCtx \in FilterContexts(T)
  BY <1>1, <1>3 DEF SensorInit, FilterContexts
<1>5. QED
  BY <1>1, <1>2, <1>4 DEF SensorInit, SensorTypes

\* What get_vsensor() filters, and the write it belongs to, have their types.
LEMMA ReportTypes ==
  ASSUME NEW T, IsRange(T), SensorTypes(T), NEW input \in T, NEW updated \in 0..MaxWrites,
         Report(input, updated)
  PROVE  SensorTypes(T)'
<1>1. Filtered(filterCtx, input)[1] \in FilterContexts(T) /\ Filtered(filterCtx, input)[2] \in T
  BY FilteredWithin DEF SensorTypes
<1>2. /\ filterCtx' \in FilterContexts(T)
      /\ state' \in [temp : T, updated : 0..MaxWrites]
      /\ wait' \in 0..Period
  BY <1>1 DEF Report, Period
<1>3. QED
  BY <1>2 DEF SensorTypes, Report, setting

\* Every step keeps them.
LEMMA NextTypes ==
  ASSUME NEW T, IsRange(T), Temps \cup {0, DefaultTemp} \subseteq T, SensorTypes(T),
         [SensorNext]_sensorVars
  PROVE  SensorTypes(T)'
<1>1. ASSUME NEW t \in Temps, Write(t) PROVE SensorTypes(T)'
  <2>1. cfg.updated + 1 \in 0..MaxWrites
    BY <1>1, SensorAssumption DEF Write, SensorTypes
  <2>2. cfg' \in [temp : T, updated : 0..MaxWrites]
    BY <1>1, <2>1 DEF Write
  <2>3. age' \in [0..MaxWrites -> 0..OldAge]
    <3>1. age' = [age EXCEPT ![cfg'.updated] = 0] /\ age \in [0..MaxWrites -> 0..OldAge]
      BY <1>1 DEF Write, SensorTypes
    <3>2. 0 \in 0..OldAge
      BY OldAgeBound
    <3>3. QED
      BY <3>1, <3>2
  <2>4. QED
    BY <1>1, <2>2, <2>3 DEF Write, SensorTypes, setting
<1>2. CASE CopyConfig
  BY <1>2 DEF CopyConfig, SensorTypes, setting
<1>3. CASE Second
  <2>1. \A n \in 0..OldAge : Older(n) \in 0..OldAge
    BY OldAgeBound DEF Older
  <2>2. age' \in [0..MaxWrites -> 0..OldAge]
    BY <1>3, <2>1 DEF Second, SensorTypes
  <2>3. filterCtx' \in FilterContexts(T)
    BY <1>3, <2>1 DEF Second, SensorTypes, FilterContexts
  <2>4. wait' \in 0..Period
    BY <1>3 DEF Second, SensorTypes, Period
  <2>5. QED
    BY <1>3, <2>2, <2>3, <2>4 DEF Second, SensorTypes, setting
<1>4. CASE GetVsensor
  <2>1. Taken \in [temp : T, updated : 0..MaxWrites]
    BY DEF Taken, SensorTypes
  <2>2. (IF Expired(Taken) THEN DefaultTemp ELSE Taken.temp) \in T
    BY <2>1
  <2>3. QED
    BY <1>4, <2>1, <2>2, ReportTypes DEF GetVsensor
<1>5. CASE UNCHANGED sensorVars
  BY <1>5 DEF sensorVars, setting, SensorTypes
<1>6. QED
  BY <1>1, <1>2, <1>3, <1>4, <1>5 DEF SensorNext

\* Temperatures without bounds are a range.
LEMMA IntIsRange == IsRange(Int) /\ Temps \cup {0, DefaultTemp} \subseteq Int
BY SensorAssumption DEF IsRange

\* A call that changes the reading of an unfiltered sensor, or not, replaces what is too old.
LEMMA ReadingKept ==
  ASSUME SensorIInv, GetVsensor
  PROVE  /\ StaleInv' /\ PeakInv'
         /\ filter # "sma" /\ state.temp = DefaultTemp /\ state'.updated = state.updated
              => state'.temp = DefaultTemp
<1> DEFINE input == IF Expired(Taken) THEN DefaultTemp ELSE Taken.temp
<1>1. /\ wait' = 0 /\ filter' = filter /\ timeout' = timeout /\ age' = age
      /\ filterCtx' = Filtered(filterCtx, input)[1]
      /\ state' = [temp |-> Filtered(filterCtx, input)[2], updated |-> Taken.updated]
  BY DEF GetVsensor, Report, setting
<1>2. /\ Taken \in [temp : Int, updated : 0..MaxWrites]
      /\ filterCtx \in FilterContexts(Int) /\ filterCtx.peak \in Int
      /\ age \in [0..MaxWrites -> 0..OldAge] /\ timeout \in Nat
  BY SensorAssumption DEF SensorIInv, SensorTypes, Taken, FilterContexts
<1>3. input \in Int
  BY <1>2, SensorAssumption
<1>4. timeout > 0 /\ age[Taken.updated] > timeout => input = DefaultTemp
  BY DEF Expired
<1>5. state'.updated = Taken.updated /\ state'.temp = Filtered(filterCtx, input)[2]
  BY <1>1
<1>6. state.temp = DefaultTemp /\ state'.updated = state.updated => input = DefaultTemp
  BY <1>5 DEF Taken, Expired
<1> HIDE DEF input
<1>7. CASE filter = "none"
  <2>1. state'.temp = input
    BY <1>5, <1>7 DEF Filtered
  <2>2. StaleInv'
    BY <1>1, <1>2, <1>4, <1>5, <2>1 DEF StaleInv
  <2>3. PeakInv'
    BY <1>1, <1>7 DEF PeakInv
  <2>4. QED
    BY <1>6, <2>1, <2>2, <2>3
<1>8. CASE filter = "lossypeak"
  <2> DEFINE d == LossyPeak(filterCtx, input)
  <2>1. filterCtx' = d /\ state'.temp = d.peak
    BY <1>1, <1>5, <1>8 DEF Filtered
  <2>2. PeakInv'
    BY <2>1 DEF PeakInv
  <2>3. StaleInv'
    BY <1>1, <1>8 DEF StaleInv
  <2>4. d.peak \in Int /\ input <= d.peak /\ (d.peak <= filterCtx.peak \/ d.peak = input)
    <3>1. d \in FilterContexts(Int) /\ input <= d.peak
          /\ (d.peak <= filterCtx.peak \/ d.peak = input)
      BY <1>2, <1>3, IntIsRange, PeakBetween
    <3>2. QED
      BY <3>1 DEF FilterContexts
  <2>5. state.temp = filterCtx.peak
    BY <1>8 DEF SensorIInv, PeakInv
  <2> HIDE DEF d
  <2>6. QED
    BY <1>2, <1>3, <1>6, <2>1, <2>2, <2>3, <2>4, <2>5
<1>9. CASE filter = "sma"
  BY <1>1, <1>9 DEF StaleInv, PeakInv
<1>10. QED
  BY <1>7, <1>8, <1>9, FilterAssumption DEF SensorIInv, SensorTypes

\* The initial states satisfy the inductive invariant.
LEMMA SensorInitInv == SensorInit => SensorIInv
<1> SUFFICES ASSUME SensorInit PROVE SensorIInv
  OBVIOUS
<1>1. SensorTypes(Int)
  BY InitTypes, IntIsRange
<1>2. PeakInv
  BY DEF SensorInit, PeakInv
<1>3. StaleInv
  <2>1. state.updated \in 0..MaxWrites /\ timeout \in Nat
    BY <1>1, SensorAssumption DEF SensorTypes
  <2>2. age[state.updated] = 0 /\ wait = 0
    BY <2>1 DEF SensorInit
  <2>3. QED
    BY <2>1, <2>2 DEF StaleInv
<1>4. QED
  BY <1>1, <1>2, <1>3 DEF SensorIInv

\* Every step preserves the inductive invariant.
LEMMA SensorNextInv == SensorIInv /\ [SensorNext]_sensorVars => SensorIInv'
<1> SUFFICES ASSUME SensorIInv, [SensorNext]_sensorVars PROVE SensorIInv'
  OBVIOUS
<1>1. SensorTypes(Int)'
  BY NextTypes, IntIsRange DEF SensorIInv
<1>2. SUFFICES StaleInv' /\ PeakInv'
  BY <1>1 DEF SensorIInv
<1>3. /\ state.updated \in 0..MaxWrites /\ timeout \in Nat /\ wait \in 0..Period
      /\ age \in [0..MaxWrites -> 0..OldAge] /\ timeout + Period < OldAge
  BY SensorAssumption, OldAgeBound DEF SensorIInv, SensorTypes
<1>4. ASSUME NEW t \in Temps, Write(t) PROVE StaleInv' /\ PeakInv'
  <2>1. age'[state.updated] = age[state.updated] \/ age'[state.updated] = 0
    BY <1>3, <1>4 DEF Write
  <2>2. QED
    BY <1>3, <1>4, <2>1 DEF Write, setting, SensorIInv, StaleInv, PeakInv
<1>5. CASE CopyConfig
  BY <1>5 DEF CopyConfig, setting, SensorIInv, StaleInv, PeakInv
<1>6. CASE Second
  <2>1. /\ age'[state.updated] = Older(age[state.updated]) /\ wait' = wait + 1
        /\ age[state.updated] \in 0..OldAge /\ wait < Period
    BY <1>3, <1>6 DEF Second
  <2>2. age'[state.updated] > timeout + wait' => age[state.updated] > timeout + wait
    BY <1>3, <2>1, OldAgeBound DEF Older, Period
  <2>3. filter' = filter /\ timeout' = timeout /\ state' = state
    BY <1>6 DEF Second, setting
  <2>4. filterCtx'.peak = filterCtx.peak
    BY <1>6 DEF Second, SensorIInv, SensorTypes, FilterContexts
  <2>5. QED
    BY <2>2, <2>3, <2>4 DEF SensorIInv, StaleInv, PeakInv
<1>7. CASE GetVsensor
  BY <1>7, ReadingKept
<1>8. CASE UNCHANGED sensorVars
  BY <1>8 DEF sensorVars, setting, SensorIInv, StaleInv, PeakInv
<1>9. QED
  BY <1>1, <1>4, <1>5, <1>6, <1>7, <1>8 DEF SensorNext

\* The inductive invariant: a reading that is too old is the default from the next call on.
THEOREM SensorInvariance == SensorSpec => []SensorIInv
<1>1. QED
  BY SensorInitInv, SensorNextInv, PTL DEF SensorSpec

\* For any timeouts and periods, a stale reading has given way to the default.
THEOREM StaleGivesWay == SensorSpec => []StaleIsDefault
<1>1. SensorIInv => StaleIsDefault
  <2>1. SUFFICES ASSUME SensorIInv, filter = "none", timeout > 0,
                        age[state.updated] > timeout + Period
                 PROVE  state.temp = DefaultTemp
    BY DEF StaleIsDefault
  <2>2. /\ state.updated \in 0..MaxWrites /\ age \in [0..MaxWrites -> 0..OldAge]
        /\ timeout \in Nat /\ wait \in 0..Period
    BY <2>1, SensorAssumption DEF SensorIInv, SensorTypes
  <2>3. age[state.updated] \in Nat
    BY <2>2, OldAgeBound
  <2>4. QED
    BY <2>1, <2>2, <2>3 DEF SensorIInv, StaleInv, Period
<1>2. QED
  BY <1>1, SensorInvariance, PTL

\* The default stays until there is a newer write, with no filter and with lossypeak.
THEOREM DefaultStays == SensorSpec => NoRevival
<1> DEFINE Stays == filter # "sma" /\ timeout > 0 /\ state.temp = DefaultTemp
                    /\ state'.updated = state.updated /\ age[state.updated] > timeout + Period
                      => state'.temp = DefaultTemp
<1>1. SensorIInv /\ [SensorNext]_sensorVars => [Stays]_sensorVars
  <2>1. ASSUME SensorIInv, GetVsensor PROVE Stays
    BY <2>1, ReadingKept
  <2>2. ASSUME NEW t \in Temps, Write(t) PROVE Stays
    BY <2>2 DEF Write
  <2>3. ASSUME CopyConfig \/ Second PROVE Stays
    BY <2>3 DEF CopyConfig, Second
  <2>4. QED
    BY <2>1, <2>2, <2>3, Zenon DEF SensorNext
<1>2. QED
  BY <1>1, SensorInvariance, PTL DEF SensorSpec, NoRevival

\* Whatever filter is used, and however writes, copies and calls fall, the sensor shows
\* nothing outside of a range of the temperatures written, the default and 0.
THEOREM ShownWithin ==
  ASSUME NEW low \in Int, NEW high \in Int, Temps \cup {0, DefaultTemp} \subseteq low..high
  PROVE  SensorSpec => [](state.temp \in low..high)
<1>1. IsRange(low..high)
  BY DEF IsRange
<1>2. SensorInit => SensorTypes(low..high)
  BY InitTypes
<1>3. SensorTypes(low..high) /\ [SensorNext]_sensorVars => SensorTypes(low..high)'
  BY <1>1, NextTypes
<1>4. SensorTypes(low..high) => state.temp \in low..high
  BY DEF SensorTypes
<1>5. QED
  BY <1>2, <1>3, <1>4, PTL DEF SensorSpec

-------------------------------------------------------------------------------
(***************************************************************************)
(* Combinations of sensors                                                *)
(***************************************************************************)

\* The loop over the values, and what is made of its last result.
LEMMA CombinedLoop ==
  ASSUME NEW mode \in Combinations, NEW vals \in Seq(Int)
  PROVE  \E t \in [0..Len(vals) -> Int] :
           /\ t[0] = 0
           /\ \A k \in 1..Len(vals) : t[k] = Combine(mode, k, t[k-1], vals[k])
           /\ Combined(mode, vals) = IF mode = "avg" /\ vals # <<>>
                                     THEN t[Len(vals)] \div Len(vals) ELSE t[Len(vals)]
<1> DEFINE n == Len(vals)
           F == [k \in 1..n |-> [x \in Int |-> Combine(mode, k, x, vals[k])]]
<1>1. n \in Nat /\ 0 \in Int /\ \A k \in 1..n : vals[k] \in Int
  OBVIOUS
<1>2. ASSUME NEW k \in 1..n, NEW x \in Int PROVE Combine(mode, k, x, vals[k]) \in Int
  <2>1. vals[k] \in Int
    BY <1>1
  <2>2. QED
    BY <2>1 DEF Combine, Combinations
<1>3. F \in [1..n -> [Int -> Int]]
  BY <1>2
<1>4. PICK f : IsRecursion(f, n, 0, F)
  <2> HIDE DEF n, F
  <2>1. QED
    BY <1>1, <1>3, RecursionExists
<1>5. Unfolds(f, n, Int, 0, F)
  <2> HIDE DEF n, F
  <2>1. QED
    BY <1>1, <1>3, <1>4, RecursionType
<1>6. f \in [0..n -> Int] /\ f[0] = 0
  BY <1>5 DEF Unfolds
<1>7. ASSUME NEW k \in 1..n PROVE f[k] = Combine(mode, k, f[k-1], vals[k])
  <2>1. k - 1 \in 0..n /\ f[k] = F[k][f[k-1]]
    BY <1>1, <1>5 DEF Unfolds
  <2>2. f[k-1] \in Int
    BY <1>6, <2>1
  <2>3. F[k][f[k-1]] = Combine(mode, k, f[k-1], vals[k])
    BY <2>2
  <2>4. QED
    BY <2>1, <2>3
<1> HIDE DEF F
<1>8. f = [k \in 0..n |-> IF k = 0 THEN 0 ELSE Combine(mode, k, f[k-1], vals[k])]
  <2> DEFINE g == [k \in 0..n |-> IF k = 0 THEN 0 ELSE Combine(mode, k, f[k-1], vals[k])]
  <2>1. ASSUME NEW k \in 0..n PROVE f[k] = g[k]
    <3>1. k = 0 \/ k \in 1..n
      BY <1>1
    <3>2. QED
      BY <1>6, <1>7, <3>1
  <2>2. QED
    BY <1>6, <2>1
<1> DEFINE t[k \in 0..Len(vals)] == IF k = 0 THEN 0 ELSE Combine(mode, k, t[k-1], vals[k])
<1>9. t = [k \in 0..Len(vals) |-> IF k = 0 THEN 0 ELSE Combine(mode, k, t[k-1], vals[k])]
  BY <1>8
<1>10. Combined(mode, vals) = IF mode = "avg" /\ vals # <<>>
                              THEN t[Len(vals)] \div Len(vals) ELSE t[Len(vals)]
  BY DEF Combined
<1> HIDE DEF t
<1>11. t[0] = 0 /\ \A k \in 1..n : t[k] = Combine(mode, k, t[k-1], vals[k])
  BY <1>1, <1>9
<1>12. t \in [0..n -> Int]
  <2> DEFINE U == {k \in 0..n : t[k] \in Int}
  <2>1. 0 \in U
    BY <1>1, <1>11
  <2>2. ASSUME NEW k \in 0..n-1, k \in U PROVE k + 1 \in U
    <3>1. k + 1 \in 1..n /\ (k + 1) - 1 = k /\ t[k] \in Int
      BY <1>1, <2>2
    <3>2. t[k+1] = Combine(mode, k + 1, t[k], vals[k+1])
      BY <1>11, <3>1
    <3>3. t[k+1] \in Int
      BY <1>2, <3>1, <3>2
    <3>4. QED
      BY <1>1, <3>1, <3>3
  <2>3. 0..n \subseteq U
    <3> HIDE DEF U, n
    <3>1. QED
      BY <1>1, <2>1, <2>2, BoundedInduction
  <2>4. QED
    BY <1>9, <2>3
<1>13. QED
  BY <1>10, <1>11, <1>12

\* A combination of whole numbers is one: nothing is divided by zero.
LEMMA CombinedType ==
  ASSUME NEW mode \in Combinations, NEW vals \in Seq(Int)
  PROVE  Combined(mode, vals) \in Int
<1>1. PICK t \in [0..Len(vals) -> Int] :
        Combined(mode, vals) = IF mode = "avg" /\ vals # <<>>
                               THEN t[Len(vals)] \div Len(vals) ELSE t[Len(vals)]
  BY CombinedLoop
<1>2. Len(vals) \in Nat /\ t[Len(vals)] \in Int /\ (vals # <<>> => Len(vals) # 0)
  OBVIOUS
<1>3. vals # <<>> => t[Len(vals)] \div Len(vals) \in Int
  BY <1>2
<1>4. QED
  BY <1>1, <1>2, <1>3

\* A largest number is the only one.
LEMMA MaxIs ==
  ASSUME NEW T, T \subseteq Int, NEW x \in T, \A y \in T : y <= x
  PROVE  Max(T) = x
<1>1. x \in T /\ \A y \in T : x >= y
  OBVIOUS
<1>2. Max(T) \in T /\ \A y \in T : Max(T) >= y
  BY <1>1 DEF Max
<1> DEFINE m == Max(T)
<1> HIDE DEF m
<1>3. m \in T /\ m \in Int /\ x \in Int /\ m <= x /\ x <= m
  BY <1>2 DEF m
<1>4. QED
  BY <1>3 DEF m

\* So is a smallest one.
LEMMA MinIs ==
  ASSUME NEW T, T \subseteq Int, NEW x \in T, \A y \in T : x <= y
  PROVE  Min(T) = x
<1>1. x \in T /\ \A y \in T : x <= y
  OBVIOUS
<1>2. Min(T) \in T /\ \A y \in T : Min(T) <= y
  BY <1>1 DEF Min
<1> DEFINE m == Min(T)
<1> HIDE DEF m
<1>3. m \in T /\ m \in Int /\ x \in Int /\ m <= x /\ x <= m
  BY <1>2 DEF m
<1>4. QED
  BY <1>3 DEF m

\* get_vsensor(): the loop that keeps the larger, or the smaller, of two values finds the
\* largest, or the smallest, of any number of them, also when all are below 0.
THEOREM ExtremesAreIdeal ==
  ASSUME NEW mode \in {"max", "min"}, NEW vals \in Seq(Int), vals # <<>>
  PROVE  Combined(mode, vals) = Ideal(mode, vals)
<1> DEFINE n == Len(vals)
           all == {vals[k] : k \in DOMAIN vals}
           beyond(x, y) == IF mode = "max" THEN x >= y ELSE x <= y
<1>1. n \in Nat \ {0} /\ DOMAIN vals = 1..n /\ \A k \in 1..n : vals[k] \in Int
  OBVIOUS
<1>2. PICK t \in [0..n -> Int] :
        /\ t[0] = 0 /\ \A k \in 1..n : t[k] = Combine(mode, k, t[k-1], vals[k])
        /\ Combined(mode, vals) = t[n]
  <2>1. mode \in Combinations /\ mode # "avg"
    BY DEF Combinations
  <2>2. QED
    BY <2>1, CombinedLoop
<1> DEFINE Extreme(k) == /\ \E j \in 1..k : t[k] = vals[j]
                         /\ \A j \in 1..k : beyond(t[k], vals[j])
           U == {k \in 0..n-1 : Extreme(k + 1)}
<1>3. 0 \in U
  <2>1. 1 \in 1..n /\ 1 - 1 = 0
    BY <1>1
  <2>2. t[1] = Combine(mode, 1, t[1-1], vals[1])
    BY <1>2, <2>1
  <2>3. t[1] = vals[1] /\ vals[1] \in Int
    BY <1>1, <2>1, <2>2 DEF Combine
  <2>4. Extreme(0 + 1)
    BY <2>3
  <2> HIDE DEF Extreme
  <2>5. QED
    BY <1>1, <2>4
<1>4. ASSUME NEW k \in 0..(n-1)-1, k \in U PROVE k + 1 \in U
  <2> DEFINE m == k + 1
  <2>1. /\ m \in 1..n /\ m \in 0..n-1 /\ m \in 0..n /\ m + 1 \in 1..n /\ m + 1 \in 0..n
        /\ (m + 1) - 1 = m /\ m + 1 # 1
    BY <1>1
  <2>2. Extreme(m)
    BY <1>4
  <2> HIDE DEF m
  <2>3. t[m+1] = Combine(mode, m + 1, t[m], vals[m+1])
    BY <1>2, <2>1
  <2>4. t[m+1] \in Int /\ t[m] \in Int /\ vals[m+1] \in Int
    BY <1>1, <1>2, <2>1
  <2>5. /\ t[m+1] = t[m] \/ t[m+1] = vals[m+1]
        /\ beyond(t[m+1], t[m]) /\ beyond(t[m+1], vals[m+1])
    BY <2>1, <2>3, <2>4 DEF Combine
  <2>6. \E j \in 1..m+1 : t[m+1] = vals[j]
    BY <2>1, <2>2, <2>5
  <2>7. ASSUME NEW j \in 1..m+1 PROVE beyond(t[m+1], vals[j])
    <3>1. CASE j = m + 1
      BY <2>5, <3>1
    <3>2. CASE j # m + 1
      <4>1. j \in 1..m /\ vals[j] \in Int
        BY <1>1, <2>1, <3>2
      <4>2. beyond(t[m], vals[j])
        BY <2>2, <4>1
      <4>3. \A x, y, z \in Int : beyond(x, y) /\ beyond(y, z) => beyond(x, z)
        OBVIOUS
      <4> HIDE DEF beyond
      <4>4. QED
        BY <2>4, <2>5, <4>1, <4>2, <4>3
    <3>3. QED
      BY <3>1, <3>2
  <2>8. Extreme(m + 1)
    BY <2>6, <2>7
  <2> HIDE DEF Extreme
  <2>9. QED
    BY <2>1, <2>8 DEF m
<1>5. 0..n-1 \subseteq U
  <2> HIDE DEF U, n
  <2>1. n - 1 \in Nat
    BY <1>1
  <2>2. QED
    BY <1>3, <1>4, <2>1, BoundedInduction
<1>6. Extreme(n)
  <2> HIDE DEF Extreme
  <2>1. n - 1 \in U /\ (n - 1) + 1 = n
    BY <1>1, <1>5
  <2>2. QED
    BY <2>1
<1>7. all \subseteq Int /\ t[n] \in all /\ t[n] \in Int
  <2>1. all = {vals[k] : k \in 1..n}
    BY <1>1
  <2>2. t[n] \in all
    BY <1>6, <2>1
  <2>3. all \subseteq Int
    BY <1>1, <2>1
  <2> HIDE DEF all
  <2>4. QED
    BY <2>2, <2>3
<1>8. CASE mode = "max"
  <2>1. \A y \in all : y <= t[n]
    BY <1>1, <1>6, <1>7, <1>8
  <2> HIDE DEF all
  <2>2. Max(all) = t[n]
    BY <1>7, <2>1, MaxIs
  <2>3. QED
    BY <1>2, <1>8, <2>2 DEF Ideal, all
<1>9. CASE mode = "min"
  <2>1. \A y \in all : t[n] <= y
    BY <1>1, <1>6, <1>7, <1>9
  <2> HIDE DEF all
  <2>2. Min(all) = t[n]
    BY <1>7, <2>1, MinIs
  <2>3. QED
    BY <1>2, <1>9, <2>2 DEF Ideal, all
<1>10. QED
  BY <1>8, <1>9

\* A difference is that of the first two values, however many follow.
THEOREM DeltaIsIdeal ==
  ASSUME NEW vals \in Seq(Int), Len(vals) >= 2
  PROVE  Combined("delta", vals) = Ideal("delta", vals)
<1> DEFINE n == Len(vals)
<1>1. n \in Nat /\ n >= 2 /\ \A k \in 1..n : vals[k] \in Int
  OBVIOUS
<1>2. PICK t \in [0..n -> Int] :
        /\ t[0] = 0 /\ \A k \in 1..n : t[k] = Combine("delta", k, t[k-1], vals[k])
        /\ Combined("delta", vals) = t[n]
  <2>1. "delta" \in Combinations /\ "delta" # "avg"
    BY DEF Combinations
  <2>2. QED
    BY <2>1, CombinedLoop
<1>3. t[2] = vals[1] - vals[2]
  <2>1. 1 \in 1..n /\ 2 \in 1..n /\ 2 - 1 = 1
    BY <1>1
  <2>2. t[1] = Combine("delta", 1, t[1-1], vals[1]) /\ t[2] = Combine("delta", 2, t[2-1], vals[2])
    BY <1>2, <2>1
  <2>3. QED
    BY <2>1, <2>2 DEF Combine
<1> DEFINE U == {k \in 0..n-2 : t[k+2] = t[2]}
<1>4. 0 \in U
  BY <1>1
<1>5. ASSUME NEW k \in 0..(n-2)-1, k \in U PROVE k + 1 \in U
  <2>1. k + 3 \in 1..n /\ (k + 3) - 1 = k + 2 /\ k + 3 # 1 /\ k + 3 # 2 /\ (k + 1) + 2 = k + 3
    BY <1>1
  <2>2. t[k+3] = Combine("delta", k + 3, t[k+2], vals[k+3])
    BY <1>2, <2>1
  <2>3. t[k+3] = t[k+2]
    BY <2>1, <2>2 DEF Combine
  <2>4. QED
    BY <1>1, <1>5, <2>1, <2>3
<1>6. 0..n-2 \subseteq U
  <2> HIDE DEF U, n
  <2>1. n - 2 \in Nat
    BY <1>1
  <2>2. QED
    BY <1>4, <1>5, <2>1, BoundedInduction
<1>7. t[n] = t[2]
  <2>1. n - 2 \in U /\ (n - 2) + 2 = n
    BY <1>1, <1>6
  <2>2. QED
    BY <2>1
<1>8. QED
  BY <1>2, <1>3, <1>7 DEF Ideal

-------------------------------------------------------------------------------
(***************************************************************************)
(* The sensors of both buses                                              *)
(***************************************************************************)

PollsTypeOK ==
  /\ vs \in [Sensors -> Settings] /\ ctx \in [Sensors -> Devices \cup {None}]
  /\ i2c \in [step : {0, 1, 2}, sensor : Nat, on : BOOLEAN]
  /\ cfgTemp \in [Sensors -> Int] /\ vtemp \in [Sensors -> Int]
  /\ DOMAIN bus \subseteq 1..Len(Chips) /\ \A j \in DOMAIN bus : bus[j] \in ToSet(Chips)
  /\ owTemp \in [1..Len(Chips) -> Int] /\ adcTemp \in Int

\* t is what the own device of sensor i may have.  A sensor on MANUAL keeps what it shows
\* when it is turned to I2C.
Own(i, t) ==
  /\ vs[i].mode \in {"i2c", "manual"} => t \in Reachable(i)
  /\ vs[i].mode = "onewire" => t \in {0} \cup Values[vs[i].chip]

\* What is passed on to get_vsensor() is of the own device, too: in the configuration, and
\* at the place of the device on the 1-Wire bus.
OwnInv ==
  /\ \A i \in Sensors :
       /\ Own(i, vtemp[i])
       /\ vs[i].mode \in {"i2c", "manual"} => cfgTemp[i] \in Reachable(i)
       /\ vs[i].mode = "i2c" /\ i \notin moved => ctx[i] \in {vs[i].device, None}
  /\ \A j \in DOMAIN bus : owTemp[j] \in {0} \cup Values[bus[j]]

\* The sensors a round has still to read have been started, or were turned to I2C since.
BegunInv ==
  i2c.step = 1 => \A i \in Sensors : i >= i2c.sensor /\ IsPolled(i) => i \in begun \cup late

PollsIInv == PollsTypeOK /\ OwnInv /\ BegunInv

-------------------------------------------------------------------------------
\* The sensors are numbered, and there is a first one.
LEMMA SensorNumbers == SensorCount \in Nat \ {0} /\ Sensors = 1..SensorCount /\ 1 \in Sensors
BY ConfigAssumption DEF Sensors

\* The initial states satisfy the inductive invariant.
LEMMA PollsInitInv == Init => PollsIInv
<1> SUFFICES ASSUME Init PROVE PollsIInv
  OBVIOUS
<1>1. vs \in [Sensors -> Settings]
  BY ConfigAssumption DEF Init
<1>2. /\ ctx \in [Sensors -> Devices \cup {None}]
      /\ \A i \in Sensors : vs[i].mode = "i2c" => ctx[i] \in {vs[i].device, None}
  <2>1. PICK ok \in SUBSET Devices :
          ctx = [i \in Sensors |-> IF vs[i].mode = "i2c" /\ vs[i].device \in ok
                                   THEN vs[i].device ELSE None]
    BY DEF Init, SetupI2c
  <2>2. QED
    BY <2>1
<1>3. i2c \in [step : {0, 1, 2}, sensor : Nat, on : BOOLEAN] /\ i2c.step = 0
  <2>1. i2c = [step |-> 0, sensor |-> 1, on |-> \E i \in Sensors : ctx[i] # None]
    BY DEF Init, SetupI2c
  <2>2. (\E i \in Sensors : ctx[i] # None) \in BOOLEAN
    OBVIOUS
  <2>3. QED
    BY <2>1, <2>2
<1>4. DOMAIN bus \subseteq 1..Len(Chips) /\ \A j \in DOMAIN bus : bus[j] \in ToSet(Chips)
  <2>1. PICK n \in 0..Len(Chips) :
          \E at \in [1..n -> DOMAIN Chips] : bus = [j \in 1..n |-> Chips[at[j]]]
    BY DEF Init, SetupOnewire, ScanBus
  <2>2. PICK at \in [1..n -> DOMAIN Chips] : bus = [j \in 1..n |-> Chips[at[j]]]
    BY <2>1
  <2>3. Len(Chips) \in Nat
    BY ConfigAssumption
  <2>4. QED
    BY <2>2, <2>3 DEF ToSet
<1>5. /\ cfgTemp = [i \in Sensors |-> 0] /\ vtemp = [i \in Sensors |-> 0]
      /\ owTemp = [j \in 1..Len(Chips) |-> 0] /\ adcTemp = 0
  BY DEF Init
<1>6. PollsTypeOK
  BY <1>1, <1>2, <1>3, <1>4, <1>5 DEF PollsTypeOK
<1>7. OwnInv
  BY <1>2, <1>4, <1>5 DEF OwnInv, Own, Reachable
<1>8. BegunInv
  BY <1>3 DEF BegunInv
<1>9. QED
  BY <1>6, <1>7, <1>8 DEF PollsIInv

\* The sensor that is read is one that is polled, and not before the one that is due.
LEMMA NextIsPolled ==
  ASSUME PollsTypeOK, I2cNext \in Sensors
  PROVE  IsPolled(I2cNext) /\ I2cNext >= i2c.sensor
<1> DEFINE polled == {i \in Sensors : i >= i2c.sensor /\ IsPolled(i)}
<1>1. polled \cup {SensorCount + 1} \subseteq Nat
  BY SensorNumbers
<1>2. I2cNext \in polled \cup {SensorCount + 1}
  BY <1>1, MinNatural DEF I2cNext
<1>3. SensorCount + 1 \notin Sensors
  BY SensorNumbers
<1>4. QED
  BY <1>2, <1>3

\* Going on to the next sensor.
LEMMA AdvanceType ==
  ASSUME i2c \in [step : {0, 1, 2}, sensor : Nat, on : BOOLEAN], NEW i \in Nat, Advance(i)
  PROVE  i2c' \in [step : {0, 1, 2}, sensor : Nat, on : BOOLEAN] /\ i2c'.sensor = i + 1
<1> DEFINE s == IF i >= SensorCount THEN 2 ELSE 1
<1>1. i2c' = [i2c EXCEPT !.sensor = i + 1, !.step = s]
  BY DEF Advance
<1>2. s \in {0, 1, 2} /\ i + 1 \in Nat
  OBVIOUS
<1> HIDE DEF s
<1>3. QED
  BY <1>1, <1>2

\* A poll that reads a sensor of the I2C bus.
LEMMA I2cReadInv ==
  ASSUME PollsIInv, NEW i \in Sensors, I2cRead(i)
  PROVE  PollsIInv' /\ i \in begun \cup late
<1>1. /\ i2c.on /\ i2c.step = 1 /\ i = I2cNext
      /\ begun' = begun \ {i} /\ late' = late \ {i}
      /\ UNCHANGED <<vs, ctx, moved, written, bus, owTemp, adcTemp, vtemp>>
  BY DEF I2cRead, core1, history
<1>2. IsPolled(i) /\ i >= i2c.sensor
  BY <1>1, NextIsPolled DEF PollsIInv
<1>3. i \in begun \cup late
  BY <1>1, <1>2 DEF PollsIInv, BegunInv
<1>4. Advance(i)
  BY DEF I2cRead, I2cFails
<1>5. \/ cfgTemp' = cfgTemp
      \/ \E t \in Values[ctx[i]] : cfgTemp' = [cfgTemp EXCEPT ![i] = t]
  BY DEF I2cRead, I2cFails
<1>6. ctx[i] \in Devices /\ Values[ctx[i]] \subseteq Int
  <2>1. ctx[i] \in Devices
    BY <1>2 DEF IsPolled, PollsIInv, PollsTypeOK
  <2>2. QED
    BY <2>1, ConfigAssumption
<1>7. /\ i2c' \in [step : {0, 1, 2}, sensor : Nat, on : BOOLEAN]
      /\ i2c'.sensor = i + 1
  BY <1>1, <1>4, SensorNumbers, AdvanceType DEF PollsIInv, PollsTypeOK
<1>8. cfgTemp' \in [Sensors -> Int]
  BY <1>5, <1>6 DEF PollsIInv, PollsTypeOK
<1>9. PollsTypeOK'
  BY <1>1, <1>7, <1>8 DEF PollsIInv, PollsTypeOK
<1>10. OwnInv'
  <2>1. ASSUME NEW k \in Sensors, vs[k].mode \in {"i2c", "manual"}
        PROVE  cfgTemp'[k] \in Reachable(k)
    <3>1. cfgTemp[k] \in Reachable(k)
      BY <2>1 DEF PollsIInv, OwnInv
    <3>2. k = i => Values[ctx[k]] \subseteq Reachable(k)
      BY <1>2 DEF IsPolled, Reachable
    <3>3. QED
      BY <1>5, <3>1, <3>2 DEF PollsIInv, PollsTypeOK
  <2>2. \A k \in Sensors : Reachable(k)' = Reachable(k)
    BY <1>1 DEF Reachable
  <2>3. QED
    BY <1>1, <2>1, <2>2 DEF PollsIInv, OwnInv, Own
<1>11. BegunInv'
  <2>1. SUFFICES ASSUME i2c'.step = 1, NEW k \in Sensors, k >= i + 1, IsPolled(k)'
                 PROVE  k \in begun' \cup late'
    BY <1>7 DEF BegunInv
  <2>2. k # i /\ k >= i2c.sensor /\ IsPolled(k)
    <3>1. k \in Nat /\ i \in Nat /\ i2c.sensor \in Nat
      BY SensorNumbers DEF PollsIInv, PollsTypeOK
    <3>2. QED
      BY <1>1, <1>2, <2>1, <3>1 DEF IsPolled
  <2>3. QED
    BY <1>1, <2>2 DEF PollsIInv, BegunInv
<1>12. QED
  BY <1>3, <1>9, <1>10, <1>11 DEF PollsIInv

\* The sensors one after the other, in a round.
LEMMA RoundSteps ==
  ASSUME PollsTypeOK, NEW adc \in Int, Sense(adc)
  PROVE  \E round \in [0..SensorCount -> [Sensors -> Int]] :
           /\ round[0] = vtemp /\ vtemp' = round[SensorCount]
           /\ \A i \in Sensors :
                round[i] = [round[i-1] EXCEPT ![i] = Vsensor(i, adc, round[i-1])]
<1> DEFINE n == SensorCount
           S == [Sensors -> Int]
           F == [k \in 1..n |-> [v \in S |-> [v EXCEPT ![k] = Vsensor(k, adc, v)]]]
<1>1. n \in Nat /\ Sensors = 1..n /\ n \in 0..n /\ vtemp \in S
  BY SensorNumbers DEF PollsTypeOK
<1>2. ASSUME NEW k \in 1..n, NEW v \in S PROVE Vsensor(k, adc, v) \in Int
  <2>1. k \in Sensors /\ vs[k] \in Settings
    BY <1>1 DEF PollsTypeOK
  <2>2. CASE vs[k].mode \in {"manual", "i2c"}
    BY <2>1, <2>2 DEF Vsensor, PollsTypeOK
  <2>3. CASE vs[k].mode = "onewire"
    <3>1. Vsensor(k, adc, v) = OneWireValue(k)
      BY <2>3 DEF Vsensor
    <3> DEFINE found == {j \in DOMAIN bus : bus[j] = vs[k].chip}
    <3>2. found \subseteq 1..Len(Chips) /\ found \subseteq Nat
      BY DEF PollsTypeOK
    <3> HIDE DEF found
    <3>3. found # {} => Min(found) \in 1..Len(Chips)
      BY <3>2, MinNatural
    <3>4. QED
      BY <3>1, <3>3 DEF OneWireValue, found, PollsTypeOK
  <2>4. CASE vs[k].mode \in Combinations
    <3> DEFINE sources == vs[k].sources
               vals == SourceValues(k, adc, v)
    <3>1. sources \in Seq({1} \cup {100 + i : i \in Sensors})
      BY <2>1 DEF Settings
    <3>2. vals = [j \in DOMAIN sources |-> IF sources[j] > 100 THEN v[sources[j] - 100] ELSE adc]
      BY DEF SourceValues
    <3> HIDE DEF sources, vals
    <3>3. Len(sources) \in Nat /\ DOMAIN sources = 1..Len(sources)
      BY <3>1
    <3>4. ASSUME NEW j \in 1..Len(sources), sources[j] > 100 PROVE v[sources[j] - 100] \in Int
      <4>1. PICK i \in Sensors : sources[j] = 100 + i
        BY <3>1, <3>4
      <4>2. sources[j] - 100 = i
        BY <1>1, <4>1
      <4>3. QED
        BY <4>2
    <3>5. vals \in [1..Len(sources) -> Int]
      BY <3>2, <3>3, <3>4
    <3>6. vals \in Seq(Int)
      BY <3>3, <3>5
    <3>7. Vsensor(k, adc, v) = Combined(vs[k].mode, vals)
      BY <2>4 DEF Vsensor, Combinations, vals
    <3>8. QED
      BY <2>4, <3>6, <3>7, CombinedType
  <2>5. QED
    BY <2>1, <2>2, <2>3, <2>4 DEF Settings
<1>3. F \in [1..n -> [S -> S]]
  <2>1. ASSUME NEW k \in 1..n, NEW v \in S PROVE [v EXCEPT ![k] = Vsensor(k, adc, v)] \in S
    BY <1>2
  <2> HIDE DEF S
  <2>2. QED
    BY <2>1
<1>4. PICK f : IsRecursion(f, n, vtemp, F)
  <2> HIDE DEF n, F, S
  <2>1. QED
    BY <1>1, <1>3, RecursionExists
<1>5. Unfolds(f, n, S, vtemp, F)
  <2> HIDE DEF n, F, S
  <2>1. QED
    BY <1>1, <1>3, <1>4, RecursionType
<1>6. f \in [0..n -> S] /\ f[0] = vtemp
  BY <1>5 DEF Unfolds
<1>7. ASSUME NEW k \in 1..n PROVE f[k] = [f[k-1] EXCEPT ![k] = Vsensor(k, adc, f[k-1])]
  <2> HIDE DEF S, F
  <2>1. k - 1 \in 0..n /\ f[k] = F[k][f[k-1]]
    BY <1>1, <1>5 DEF Unfolds
  <2>2. f[k-1] \in S
    BY <1>6, <2>1
  <2>3. F[k][f[k-1]] = [f[k-1] EXCEPT ![k] = Vsensor(k, adc, f[k-1])]
    BY <2>2 DEF F
  <2>4. QED
    BY <2>1, <2>3
<1> HIDE DEF F, S
<1>8. f = [k \in 0..n |-> IF k = 0 THEN vtemp
                          ELSE [f[k-1] EXCEPT ![k] = Vsensor(k, adc, f[k-1])]]
  <2> DEFINE g == [k \in 0..n |-> IF k = 0 THEN vtemp
                                  ELSE [f[k-1] EXCEPT ![k] = Vsensor(k, adc, f[k-1])]]
  <2>1. ASSUME NEW k \in 0..n PROVE f[k] = g[k]
    <3>1. k = 0 \/ k \in 1..n
      BY <1>1
    <3>2. QED
      BY <1>6, <1>7, <3>1
  <2>2. QED
    BY <1>6, <2>1
<1> DEFINE round[i \in 0..SensorCount] ==
             IF i = 0 THEN vtemp ELSE [round[i-1] EXCEPT ![i] = Vsensor(i, adc, round[i-1])]
<1>9. round = [i \in 0..SensorCount |->
                 IF i = 0 THEN vtemp
                 ELSE [round[i-1] EXCEPT ![i] = Vsensor(i, adc, round[i-1])]]
  BY <1>8
<1>10. vtemp' = round[SensorCount]
  BY DEF Sense
<1> HIDE DEF round
<1>11. round[0] = vtemp
       /\ \A i \in 1..n : round[i] = [round[i-1] EXCEPT ![i] = Vsensor(i, adc, round[i-1])]
  <2>1. 0 \in 0..n /\ \A i \in 1..n : i \in 0..n /\ i # 0
    BY <1>1
  <2> HIDE DEF n
  <2>2. QED
    BY <1>9, <2>1 DEF n
<1>12. round \in [0..n -> S]
  <2> DEFINE U == {k \in 0..n : round[k] \in S}
  <2>1. 0 \in U
    BY <1>1, <1>11
  <2>2. ASSUME NEW k \in 0..n-1, k \in U PROVE k + 1 \in U
    <3>1. k + 1 \in 1..n /\ k + 1 \in 0..n /\ (k + 1) - 1 = k /\ round[k] \in S
      BY <1>1, <2>2
    <3>2. round[k+1] = [round[k] EXCEPT ![k+1] = Vsensor(k + 1, adc, round[k])]
      BY <1>11, <3>1
    <3>3. Vsensor(k + 1, adc, round[k]) \in Int
      BY <1>2, <3>1
    <3>4. round[k+1] \in S
      BY <3>1, <3>2, <3>3 DEF S
    <3>5. QED
      BY <3>1, <3>4
  <2>3. 0..n \subseteq U
    <3> HIDE DEF U, n
    <3>1. QED
      BY <1>1, <2>1, <2>2, BoundedInduction
  <2>4. QED
    BY <1>9, <2>3
<1>13. QED
  BY <1>1, <1>10, <1>11, <1>12 DEF S

\* What get_vsensor() returns for a sensor with a device is of that device.
LEMMA VsensorOwn ==
  ASSUME PollsTypeOK, OwnInv, NEW adc, NEW i \in Sensors, NEW v, Own(i, v[i])
  PROVE  Own(i, Vsensor(i, adc, v))
<1>1. ASSUME vs[i].mode \in {"i2c", "manual"}
      PROVE  Vsensor(i, adc, v) \in Reachable(i)
  <2>1. Vsensor(i, adc, v) = IF new[i] THEN cfgTemp[i] ELSE v[i]
    BY <1>1 DEF Vsensor
  <2>2. v[i] \in Reachable(i) /\ cfgTemp[i] \in Reachable(i)
    BY <1>1 DEF Own, OwnInv
  <2>3. QED
    BY <2>1, <2>2
<1>2. ASSUME vs[i].mode = "onewire"
      PROVE  Vsensor(i, adc, v) \in {0} \cup Values[vs[i].chip]
  <2> DEFINE found == {j \in DOMAIN bus : bus[j] = vs[i].chip}
  <2>1. Vsensor(i, adc, v) = IF found = {} THEN 0 ELSE owTemp[Min(found)]
    BY <1>2 DEF Vsensor, OneWireValue
  <2>2. found \subseteq Nat
    BY DEF PollsTypeOK
  <2> HIDE DEF found
  <2>3. found # {} => Min(found) \in found
    BY <2>2, MinNatural
  <2>4. found # {} => owTemp[Min(found)] \in {0} \cup Values[vs[i].chip]
    BY <2>3 DEF found, OwnInv
  <2>5. QED
    BY <2>1, <2>4
<1>3. QED
  BY <1>1, <1>2 DEF Own

\* A round.
LEMMA SenseInv ==
  ASSUME PollsIInv, NEW adc \in Values["adc"], Sense(adc)
  PROVE  PollsIInv'
<1>1. adc \in Int
  BY ConfigAssumption
<1>2. PICK round \in [0..SensorCount -> [Sensors -> Int]] :
        /\ round[0] = vtemp /\ vtemp' = round[SensorCount]
        /\ \A i \in Sensors :
             round[i] = [round[i-1] EXCEPT ![i] = Vsensor(i, adc, round[i-1])]
  BY <1>1, RoundSteps DEF PollsIInv
<1> DEFINE OwnAll(k) == \A i \in Sensors : Own(i, round[k][i])
           U == {k \in 0..SensorCount : OwnAll(k)}
<1>3. 0 \in U
  BY <1>2, SensorNumbers DEF PollsIInv, OwnInv
<1>4. ASSUME NEW k \in 0..SensorCount-1, k \in U PROVE k + 1 \in U
  <2>1. /\ k + 1 \in Sensors /\ (k + 1) - 1 = k /\ k \in 0..SensorCount
        /\ k + 1 \in 0..SensorCount
    BY SensorNumbers
  <2> DEFINE m == k + 1
  <2>2. round[m] = [round[k] EXCEPT ![m] = Vsensor(m, adc, round[k])]
    BY <1>2, <2>1
  <2>3. round[k] \in [Sensors -> Int]
    BY <1>2, <2>1
  <2> HIDE DEF m
  <2>4. \A i \in Sensors : Own(i, round[k][i])
    BY <1>4
  <2>5. m \in Sensors
    BY <2>1 DEF m
  <2>6. Own(m, Vsensor(m, adc, round[k]))
    BY <2>4, <2>5, VsensorOwn DEF PollsIInv
  <2>7. ASSUME NEW i \in Sensors PROVE Own(i, round[m][i])
    <3>1. CASE i = m
      <4>1. round[m][m] = Vsensor(m, adc, round[k])
        BY <2>2, <2>3, <2>5
      <4>2. QED
        BY <2>6, <3>1, <4>1
    <3>2. CASE i # m
      <4>1. round[m][i] = round[k][i]
        BY <2>2, <2>3, <3>2
      <4>2. QED
        BY <2>4, <4>1
    <3>3. QED
      BY <3>1, <3>2
  <2>8. QED
    BY <2>1, <2>7 DEF m
<1>5. SensorCount \in U
  <2> HIDE DEF U
  <2>1. 0..SensorCount \subseteq U
    BY <1>3, <1>4, SensorNumbers, BoundedInduction
  <2>2. QED
    BY <2>1, SensorNumbers
<1>6. /\ adcTemp' = adc
      /\ UNCHANGED <<vs, ctx, i2c, begun, late, moved, written, bus, owTemp, cfgTemp>>
  BY DEF Sense, core0, history
<1>7. vtemp' \in [Sensors -> Int] /\ \A i \in Sensors : Own(i, vtemp'[i])
  BY <1>2, <1>5, SensorNumbers
<1>8. PollsTypeOK'
  BY <1>1, <1>6, <1>7 DEF PollsIInv, PollsTypeOK
<1>9. OwnInv'
  BY <1>6, <1>7 DEF PollsIInv, OwnInv, Own, Reachable
<1>10. BegunInv'
  BY <1>6 DEF PollsIInv, BegunInv, IsPolled
<1>11. QED
  BY <1>8, <1>9, <1>10 DEF PollsIInv

\* A command that changes where a sensor takes its values from.
LEMMA SetSourceInv ==
  ASSUME PollsIInv, NEW i \in Sensors, vs[i].mode \in {"i2c", "manual"},
         NEW mode \in {"i2c", "manual"}, NEW d \in Devices, SetSource(i, mode, d)
  PROVE  PollsIInv'
<1> DEFINE device == IF mode = "i2c" THEN d ELSE vs[i].device
<1>1. /\ vs' = [vs EXCEPT ![i].mode = mode, ![i].device = device]
      /\ moved' = moved \cup {i} /\ late \subseteq late'
      /\ mode = "i2c" /\ vs[i].mode # "i2c" => i \in late'
      /\ UNCHANGED <<ctx, i2c, begun, written, cfgTemp, vtemp, bus, owTemp, adcTemp>>
  BY DEF SetSource, core1
<1>2. vs[i] \in Settings /\ device \in Devices \cup {None}
  BY DEF PollsIInv, PollsTypeOK, Settings
<1> HIDE DEF device
<1>3. vs'[i] \in Settings /\ vs'[i].mode = mode /\ \A k \in Sensors : k # i => vs'[k] = vs[k]
  BY <1>1, <1>2 DEF PollsIInv, PollsTypeOK, Settings
<1>4. vs' \in [Sensors -> Settings]
  BY <1>1, <1>3 DEF PollsIInv, PollsTypeOK
<1>5. PollsTypeOK'
  BY <1>1, <1>4 DEF PollsIInv, PollsTypeOK
<1>6. OwnInv'
  <2>1. \A k \in Sensors : Reachable(k)' = Reachable(k)
    BY <1>1 DEF Reachable
  <2>2. ASSUME NEW k \in Sensors
        PROVE  /\ Own(k, vtemp[k])'
               /\ vs'[k].mode \in {"i2c", "manual"} => cfgTemp[k] \in Reachable(k)
               /\ vs'[k].mode = "i2c" /\ k \notin moved' => ctx[k] \in {vs'[k].device, None}
    <3>1. CASE k = i
      <4>1. vtemp[i] \in Reachable(i) /\ cfgTemp[i] \in Reachable(i)
        BY DEF PollsIInv, OwnInv, Own
      <4>2. QED
        BY <1>1, <1>3, <2>1, <3>1, <4>1 DEF Own
    <3>2. CASE k # i
      BY <1>1, <1>3, <2>1, <3>2 DEF PollsIInv, OwnInv, Own
    <3>3. QED
      BY <3>1, <3>2
  <2>3. QED
    BY <1>1, <2>1, <2>2 DEF PollsIInv, OwnInv
<1>7. BegunInv'
  BY <1>1, <1>3 DEF PollsIInv, BegunInv, IsPolled
<1>8. QED
  BY <1>5, <1>6, <1>7 DEF PollsIInv

\* A value given by hand.
LEMMA WriteTempInv ==
  ASSUME PollsIInv, NEW i \in Sensors, NEW t \in Values["written"], WriteTemp(i, t)
  PROVE  PollsIInv'
<1>1. /\ cfgTemp' = [cfgTemp EXCEPT ![i] = t] /\ written' = written \cup {i}
      /\ UNCHANGED <<vs, ctx, i2c, begun, late, moved, vtemp, bus, owTemp, adcTemp>>
  BY DEF WriteTemp, core1
<1>2. t \in Int
  BY ConfigAssumption
<1>3. PollsTypeOK'
  BY <1>1, <1>2 DEF PollsIInv, PollsTypeOK
<1>4. \A k \in Sensors : Reachable(k) \subseteq Reachable(k)'
  BY <1>1 DEF Reachable
<1>5. t \in Reachable(i)'
  BY <1>1 DEF Reachable
<1>6. OwnInv'
  <2>1. ASSUME NEW k \in Sensors, vs[k].mode \in {"i2c", "manual"}
        PROVE  cfgTemp'[k] \in Reachable(k)'
    <3>1. cfgTemp[k] \in Reachable(k)
      BY <2>1 DEF PollsIInv, OwnInv
    <3>2. QED
      BY <1>1, <1>4, <1>5, <3>1 DEF PollsIInv, PollsTypeOK
  <2>2. \A k \in Sensors : Own(k, vtemp[k])'
    BY <1>1, <1>4 DEF PollsIInv, OwnInv, Own
  <2>3. QED
    BY <1>1, <2>1, <2>2 DEF PollsIInv, OwnInv
<1>7. BegunInv'
  BY <1>1 DEF PollsIInv, BegunInv, IsPolled
<1>8. QED
  BY <1>3, <1>6, <1>7 DEF PollsIInv

\* Every step preserves the inductive invariant.
LEMMA PollsNextInv == PollsIInv /\ [Next]_vars => PollsIInv'
<1> SUFFICES ASSUME PollsIInv, [Next]_vars PROVE PollsIInv'
  OBVIOUS
<1> USE DEF PollsIInv
<1>1. CASE I2cStart
  <2>1. /\ i2c' = [i2c EXCEPT !.step = 1, !.sensor = 1]
        /\ begun' = {i \in Sensors : IsPolled(i)}
        /\ UNCHANGED <<vs, ctx, history, bus, owTemp, adcTemp, vtemp, cfgTemp>>
    BY <1>1 DEF I2cStart, core1
  <2>2. i2c' \in [step : {0, 1, 2}, sensor : Nat, on : BOOLEAN]
    BY <2>1 DEF PollsTypeOK
  <2>3. PollsTypeOK' /\ OwnInv'
    BY <2>1, <2>2 DEF PollsTypeOK, OwnInv, Own, Reachable, history
  <2>4. BegunInv'
    BY <2>1 DEF BegunInv, IsPolled
  <2>5. QED
    BY <2>3, <2>4
<1>2. CASE I2cEnd
  <2>1. /\ Advance(I2cNext) /\ i2c.step = 1 /\ I2cNext \notin Sensors
        /\ UNCHANGED <<vs, ctx, history, bus, owTemp, adcTemp, vtemp, cfgTemp>>
    BY <1>2 DEF I2cEnd, core1
  <2>2. I2cNext \in Nat /\ I2cNext >= SensorCount
    <3> DEFINE all == {i \in Sensors : i >= i2c.sensor /\ IsPolled(i)} \cup {SensorCount + 1}
    <3>1. all \subseteq Nat /\ all # {} /\ I2cNext = Min(all)
      BY SensorNumbers DEF I2cNext
    <3>2. I2cNext \in all
      <4> HIDE DEF all
      <4>1. QED
        BY <3>1, MinNatural
    <3>3. QED
      BY <2>1, <3>2, SensorNumbers
  <2>3. i2c' \in [step : {0, 1, 2}, sensor : Nat, on : BOOLEAN]
    BY <2>1, <2>2, AdvanceType DEF PollsTypeOK
  <2>4. i2c'.step = 2
    BY <2>1, <2>2 DEF Advance, PollsTypeOK
  <2>5. PollsTypeOK' /\ OwnInv'
    BY <2>1, <2>3 DEF PollsTypeOK, OwnInv, Own, Reachable, history
  <2>6. BegunInv'
    BY <2>4 DEF BegunInv
  <2>7. QED
    BY <2>5, <2>6
<1>3. ASSUME NEW i \in Sensors, I2cRead(i) PROVE PollsIInv'
  BY <1>3, I2cReadInv
<1>4. CASE Convert \/ OneWireEnd
  BY <1>4 DEF Convert, OneWireEnd, core0, PollsTypeOK, OwnInv, Own, BegunInv, IsPolled,
     Reachable, history
<1>5. ASSUME NEW j \in DOMAIN Chips, OneWireRead(j) PROVE PollsIInv'
  <2>1. /\ j \in DOMAIN bus
        /\ UNCHANGED <<vs, ctx, i2c, begun, late, history, bus, adcTemp, vtemp, cfgTemp>>
        /\ \/ owTemp' = owTemp
           \/ \E t \in Values[bus[j]] : owTemp' = [owTemp EXCEPT ![j] = t]
    BY <1>5 DEF OneWireRead, core0
  <2>2. Values[bus[j]] \subseteq Int
    BY <2>1, ConfigAssumption DEF PollsTypeOK
  <2>3. owTemp' \in [1..Len(Chips) -> Int]
    BY <2>1, <2>2 DEF PollsTypeOK
  <2>4. \A k \in DOMAIN bus : owTemp'[k] \in {0} \cup Values[bus[k]]
    BY <2>1 DEF PollsTypeOK, OwnInv
  <2>5. PollsTypeOK' /\ OwnInv'
    BY <2>1, <2>3, <2>4 DEF PollsTypeOK, OwnInv, Own, Reachable, history
  <2>6. BegunInv'
    BY <2>1 DEF BegunInv, IsPolled
  <2>7. QED
    BY <2>5, <2>6
<1>6. ASSUME NEW adc \in Values["adc"], Sense(adc) PROVE PollsIInv'
  BY <1>6, SenseInv
<1>7. ASSUME NEW i \in Sensors, vs[i].mode \in {"i2c", "manual"},
             NEW mode \in {"i2c", "manual"}, NEW d \in Devices, SetSource(i, mode, d)
      PROVE  PollsIInv'
  BY <1>7, SetSourceInv
<1>8. CASE SetOnewire
  BY <1>8 DEF SetOnewire, core1, PollsTypeOK, OwnInv, Own, BegunInv, IsPolled, Reachable,
     history
<1>9. ASSUME NEW i \in Sensors, NEW t \in Values["written"], WriteTemp(i, t) PROVE PollsIInv'
  BY <1>9, WriteTempInv
<1>10. CASE UNCHANGED vars
  BY <1>10 DEF vars, core0, core1, PollsTypeOK, OwnInv, Own, BegunInv, IsPolled, Reachable,
     history
<1>11. QED
  BY <1>1, <1>2, <1>3, <1>4, <1>5, <1>6, <1>7, <1>8, <1>9, <1>10
  DEF Next, I2cPoll, OneWirePoll, Round

\* The inductive invariant: every place a reading passes through holds one of its device.
THEOREM PollsInvariance == Spec => []PollsIInv
<1>1. QED
  BY PollsInitInv, PollsNextInv, PTL DEF Spec

\* Type correctness of SensorPolls; combinations of any sources are whole numbers.
THEOREM PollsTypeCorrect == Spec => []PollsTypeOK
<1>1. PollsIInv => PollsTypeOK
  BY DEF PollsIInv
<1>2. QED
  BY <1>1, PollsInvariance, PTL

\* Any number of sensors show temperatures of their own devices, whatever fails, is
\* missing, or is found in another order, and whatever sensors commands move: a moved
\* sensor shows those of the device it had at start-up.
THEOREM OwnDeviceShown == Spec => []OwnDevice
<1>1. PollsIInv => OwnDevice
  BY DEF PollsIInv, OwnInv, Own, OwnDevice
<1>2. QED
  BY <1>1, PollsInvariance, PTL

\* No device is asked for a measurement that was not started, however many there are;
\* only that of a sensor that a command has turned to I2C during the round may be.
THEOREM StartedBeforeRead == Spec => StartedFirst
<1> DEFINE Started == \A i \in Sensors : I2cRead(i) => i \in begun \cup late
<1>1. PollsIInv /\ [Next]_vars => [Started]_vars
  <2>1. PollsIInv => Started
    BY I2cReadInv
  <2>2. QED
    BY <2>1, Zenon
<1>2. QED
  BY <1>1, PollsInvariance, PTL DEF Spec, StartedFirst

===============================================================================
