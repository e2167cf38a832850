------------------------------ MODULE TachoProofs ------------------------------
(***************************************************************************)
(* Proofs about the two ways of reading tachometers: TachoMux, for any    *)
(* number of fans, and TachoCounters, for any number of fans, any width   *)
(* of the counters and any number of edges.                               *)
(***************************************************************************)
EXTENDS TachoMux, TachoCounters, DataProofs

(***************************************************************************)
(* Through the multiplexer                                                *)
(***************************************************************************)

\* From the time the multiplexer has switched to a fan until the fan is recorded it stays
\* there, and the edges seen since the measurement began are of that fan.
PortInv ==
  /\ state # "pick" => port = i
  /\ state \in {"measure", "timeout"} =>
       /\ complete => counter = 2
       /\ counter >= 1 => pulseStart = i
       /\ counter = 2 => pulseEnd = i

\* The edges of a fan that has been spinning, against the time: the first comes within a
\* period, the second within another, and a look at the interval that did not find it is
\* not later than that.
SpinInv ==
  /\ wait <= time
  /\ state \in {"measure", "timeout"} /\ steady =>
       /\ counter = 0 => time = wait /\ wait <= period[i]
       /\ counter = 1 => wait <= period[i] /\ time - wait <= period[i]
       /\ counter = 2 => complete
       /\ state = "timeout" => time - gap <= 2 * period[i]

IInv == TypeOK /\ PortInv /\ SpinInv

-------------------------------------------------------------------------------
\* next_in_queue() returns a fan of the queue when one is left.
LEMMA MinRest ==
  ASSUME NEW k \in {0, 1}, Rest(k) # {}
  PROVE  Min(Rest(k)) \in Fan
<1>1. Rest(k) \subseteq Nat /\ Rest(k) \subseteq Fan
  BY FansAssumption DEF Rest, Fan
<1>2. QED
  BY <1>1, MinNatural

\* The queue position after a fan.
LEMMA PosAfter == ASSUME NEW f \in Fan PROVE f + 1 \in 0..Fans
BY FansAssumption DEF Fan

\* There is a first fan, and a first queue position.
LEMMA FirstFan == 0 \in Fan /\ 0 \in 0..Fans
BY FansAssumption DEF Fan

\* Periods are numbers, and there is some time to measure.
LEMMA PeriodNatural == ASSUME TypeOK, NEW f \in Fan PROVE period[f] \in Nat
<1>1. period[f] \in Periods \cup {0}
  BY DEF TypeOK
<1>2. Periods \subseteq Nat
  BY TimesAssumption
<1>3. CASE period[f] \in Periods
  BY <1>2, <1>3, Zenon
<1>4. CASE period[f] = 0
  BY <1>4
<1>5. QED
  BY <1>1, <1>3, <1>4

\* The initial states satisfy the inductive invariant.
LEMMA InitInv == Init => IInv
<1> SUFFICES ASSUME Init PROVE IInv
  OBVIOUS
<1>1. TypeOK
  <2>1. complete \in BOOLEAN /\ steady \in BOOLEAN
    BY DEF Init
  <2>2. time \in 0..Limit /\ wait \in 0..Limit /\ gap \in 0..Pass
    BY TimesAssumption DEF Init
  <2>3. QED
    BY <2>1, <2>2, FirstFan DEF Init, TypeOK
<1>2. PortInv
  BY DEF Init, PortInv
<1>3. SpinInv
  BY DEF Init, SpinInv
<1>4. QED
  BY <1>1, <1>2, <1>3 DEF IInv

\* Every step preserves the inductive invariant.
LEMMA NextInv == IInv /\ [Next]_vars => IInv'
<1> SUFFICES ASSUME IInv, [Next]_vars PROVE IInv'
  OBVIOUS
<1>0. i \in Fan => period[i] \in Nat
  BY PeriodNatural DEF IInv
<1>14. 0 \in 0..Limit /\ 0 \in 0..Pass /\ Limit \in Nat /\ Pass \in Nat
  BY TimesAssumption
<1> USE DEF IInv, TypeOK, PortInv, SpinInv, tacho, pulse
<1>1. CASE Edge
  <2>1. counter' \in 0..2
    BY <1>1 DEF Edge
  <2>5. complete' \in BOOLEAN
    BY <1>1, Zenon DEF Edge
  <2>2. TypeOK'
    BY <1>1, <1>14, <2>1, <2>5 DEF Edge
  <2>3. PortInv'
    BY <1>1 DEF Edge
  <2>4. SpinInv'
    BY <1>0, <1>1 DEF Edge
  <2>6. QED
    BY <2>2, <2>3, <2>4
<1>2. CASE Elapse
  <2>1. TypeOK' /\ PortInv'
    BY <1>14, <1>2 DEF Elapse, elapsed
  <2>2. SpinInv'
    BY <1>0, <1>14, <1>2 DEF Elapse, elapsed
  <2>3. QED
    BY <2>1, <2>2
<1>3. ASSUME NEW f \in Fan, NEW p \in Periods \cup {0}, SetSpeed(f, p) PROVE IInv'
  <2>1. TypeOK' /\ PortInv'
    BY <1>3 DEF SetSpeed, times
  <2>2. SpinInv'
    BY <1>3 DEF SetSpeed, times
  <2>3. QED
    BY <2>1, <2>2
<1>4. ASSUME NEW f \in Fan, SetMode(f) PROVE IInv'
  BY <1>4 DEF SetMode, times
<1>5. CASE EndOfQueue
  BY <1>5, FirstFan DEF EndOfQueue, times
<1>6. CASE Pick
  <2>1. i' \in Fan /\ port' = i'
    BY <1>6, MinRest DEF Pick
  <2>2. queuePos' \in [{0, 1} -> 0..Fans]
    <3>1. i' + 1 \in 0..Fans
      BY <2>1, PosAfter
    <3>2. QED
      BY <1>6, <3>1 DEF Pick
  <2>3. QED
    BY <1>6, <2>1, <2>2 DEF Pick, times
<1>7. CASE Start
  <2>1. /\ counter' = 0 /\ ~complete' /\ state' = "measure" /\ state = "start"
        /\ time' = 0 /\ wait' = 0 /\ gap' = 0
        /\ UNCHANGED <<queue, queuePos, q, i, freq, pulseStart, pulseEnd, port, period,
                       lockedRotor>>
    BY <1>7 DEF Start
  <2>2. steady' \in BOOLEAN
    BY <1>7 DEF Start
  <2>3. complete' \in BOOLEAN
    BY <1>7, Zenon DEF Start
  <2>4. QED
    BY <1>0, <1>14, <2>1, <2>2, <2>3
<1>8. ASSUME NEW x \in {0, 1}, state \in {"measure", "timeout"}, Record(x) PROVE IInv'
  <2>3. 1 - x \in {0, 1}
    OBVIOUS
  <2>4. freq' = [freq EXCEPT ![i] = x] /\ queue' = [queue EXCEPT ![i] = 1 - x] /\ steady' = FALSE
    BY <1>8 DEF Record, Unwatched
  <2>0. freq' \in [Fan -> {0, 1}] /\ queue' \in [Fan -> {0, 1}] /\ steady' \in BOOLEAN
    BY <2>3, <2>4
  <2>1. TypeOK'
    BY <1>8, <1>14, <2>0 DEF Record, Unwatched
  <2>2. PortInv' /\ SpinInv'
    BY <1>8, <1>14 DEF Record, Unwatched
  <2>5. QED
    BY <2>1, <2>2
<1>9. CASE Interval \/ TimedOut
  BY <1>8, <1>9 DEF Interval, TimedOut
<1>10. CASE NoInterval \/ PollAgain
  <2>1. TypeOK' /\ PortInv'
    BY <1>10, <1>14 DEF NoInterval, PollAgain, times
  <2>2. SpinInv'
    BY <1>0, <1>10, <1>14 DEF NoInterval, PollAgain, times
  <2>3. QED
    BY <2>1, <2>2
<1>11. ASSUME NEW x \in {0, 1}, LockedRotor(x) PROVE IInv'
  <2>1. freq' \in [Fan -> {0, 1}] /\ steady' \in BOOLEAN
    BY <1>11 DEF LockedRotor, Unwatched
  <2>2. TypeOK'
    BY <1>11, <1>14, <2>1 DEF LockedRotor, Unwatched
  <2>3. PortInv' /\ SpinInv'
    BY <1>11, <1>14 DEF LockedRotor, Unwatched
  <2>4. QED
    BY <2>2, <2>3
<1>12. CASE UNCHANGED vars
  BY <1>12 DEF vars
<1>13. QED
  BY <1>1, <1>2, <1>3, <1>4, <1>5, <1>6, <1>7, <1>9, <1>10, <1>11, <1>12 DEF Next, Core1

\* The inductive invariant: the multiplexer stays with the fan that is measured.
THEOREM Invariance == Spec => []IInv
<1>1. QED
  BY InitInv, NextInv, PTL DEF Spec

\* Type correctness of TachoMux.
THEOREM TypeCorrect == Spec => []TypeOK
<1>1. IInv => TypeOK
  BY DEF IInv
<1>2. QED
  BY <1>1, Invariance, PTL

\* For any number of fans, an interval is made of edges of the fan it is recorded for.
THEOREM EdgesAttributed == Spec => []Attribution
<1>1. IInv => Attribution
  BY DEF IInv, PortInv, Attribution
<1>2. QED
  BY <1>1, Invariance, PTL

\* For any number of fans and any lengths of a pass: one that spins throughout its
\* measurement is not taken for stopped when two of its periods and a pass are less than
\* the 600 ms.
THEOREM SpinningIsSeen == Spec => SpinningSeen
<1> DEFINE Seen == steady /\ Fast(period[i]) /\ state \in {"measure", "timeout"}
                   /\ state' = "pick" /\ i \notin lockedRotor => freq'[i] = 1
<1>1. IInv /\ [Next]_vars => [Seen]_vars
  <2> SUFFICES ASSUME IInv, Next, steady, Fast(period[i]), state \in {"measure", "timeout"},
                      state' = "pick", i \notin lockedRotor
               PROVE  freq'[i] = 1
    BY Zenon
  <2>1. i \in Fan
    BY DEF IInv, TypeOK, PortInv
  <2>2. PICK x \in {0, 1} : Record(x) /\ (x = 0 => state = "timeout" /\ elapsed)
    <3>1. Interval \/ TimedOut
      <4>1. ~EndOfQueue /\ ~Pick /\ ~Start
        BY DEF EndOfQueue, Pick, Start
      <4>2. ~NoInterval /\ ~PollAgain /\ \A x \in {0, 1} : ~LockedRotor(x)
        BY DEF NoInterval, PollAgain, LockedRotor
      <4>3. ~Edge /\ ~Elapse /\ \A f \in Fan : ~SetMode(f)
        BY DEF Edge, Elapse, SetMode, tacho
      <4>4. \A f \in Fan, p \in Periods \cup {0} : ~SetSpeed(f, p)
        BY DEF SetSpeed, tacho
      <4>5. QED
        BY <4>1, <4>2, <4>3, <4>4 DEF Next, Core1
    <3>2. QED
      BY <3>1 DEF Interval, TimedOut
  <2>3. x = 1
    <3>1. /\ period[i] \in Nat /\ Pass \in Nat /\ Limit \in Nat
          /\ time \in Nat /\ gap \in 0..Pass /\ 2 * period[i] + Pass < Limit
      BY <2>1, PeriodNatural, TimesAssumption DEF IInv, TypeOK, Fast
    <3>2. state = "timeout" => time - gap <= 2 * period[i]
      BY DEF IInv, SpinInv
    <3>3. ~(state = "timeout" /\ elapsed)
      BY <3>1, <3>2 DEF elapsed
    <3>4. QED
      BY <2>2, <3>3
  <2>4. QED
    BY <2>1, <2>2, <2>3 DEF Record, IInv, TypeOK
<1>2. QED
  BY <1>1, Invariance, PTL DEF Spec, SpinningSeen

-------------------------------------------------------------------------------
(***************************************************************************)
(* With an input per fan                                                  *)
(***************************************************************************)

CountersTypeOK ==
  /\ counters \in [Fan -> Nat] /\ countersLast \in [Fan -> Nat] /\ copied \in [Fan -> Nat]
  /\ step \in 0..Fans+1
  /\ sent \in [Fan -> Nat] /\ counted \in [Fan -> Nat]

\* A counter is the number of edges modulo 2^32, and what the last reading kept is the
\* number of those it took account of.
CountersInv ==
  \A f \in Fan :
    /\ counters[f] = sent[f] % Width /\ countersLast[f] = counted[f] % Width
    /\ counted[f] <= sent[f] /\ sent[f] - counted[f] < Width

\* A copy is of a time since the last reading.
CopiedInv ==
  \A f \in Fan : f < step /\ step <= Fans =>
    \E n \in counted[f]..sent[f] : copied[f] = n % Width

CountersIInv == CountersTypeOK /\ CountersInv /\ CopiedInv

-------------------------------------------------------------------------------
\* The difference of two numbers that are less than the width apart, from their
\* remainders.
LEMMA WrappedDifference ==
  ASSUME NEW m \in Nat, NEW n \in Nat, m <= n, n - m < Width
  PROVE  ((n % Width) - (m % Width)) % Width = n - m
<1>1. Width \in Nat \ {0, 1}
  BY CountersAssumption
<1> DEFINE p == m \div Width
           k == n \div Width
           a == m % Width
           b == n % Width
<1>2. /\ p \in Int /\ k \in Int /\ a \in 0..Width-1 /\ b \in 0..Width-1
      /\ m = Width * p + a /\ n = Width * k + b
  BY <1>1, Z3
<1> HIDE DEF p, k, a, b
<1>3. Width * k - Width * p = Width * (k - p) /\ k - p \in Int
  BY <1>1, <1>2
<1>4. k = p \/ k = p + 1
  <2>1. ~(k - p >= 2)
    <3>1. SUFFICES ASSUME k - p >= 2 PROVE FALSE
      OBVIOUS
    <3>2. Width * (k - p) >= Width * 2
      BY <3>1, <1>1, <1>3
    <3>3. QED
      BY <3>2, <1>1, <1>2, <1>3
  <2>2. ~(k - p <= -1)
    <3>1. SUFFICES ASSUME k - p <= -1 PROVE FALSE
      OBVIOUS
    <3>2. Width * (k - p) <= Width * (-1)
      BY <3>1, <1>1, <1>3
    <3>3. QED
      BY <3>2, <1>1, <1>2, <1>3
  <2>3. k \in Int /\ p \in Int
    BY <1>2
  <2>4. QED
    BY <2>1, <2>2, <2>3
<1>5. CASE k = p
  <2>1. b - a = n - m /\ b - a \in 0..Width-1
    BY <1>1, <1>2, <1>5
  <2>2. (b - a) % Width = b - a
    BY <2>1, <1>1, Z3
  <2>3. QED
    BY <2>1, <2>2 DEF a, b
<1>6. CASE k = p + 1
  <2>1. b - a = (n - m) - Width /\ n - m \in 0..Width-1
    BY <1>1, <1>2, <1>6
  <2>2. ((n - m) - Width) % Width = n - m
    BY <2>1, <1>1, Z3
  <2>3. QED
    BY <2>1, <2>2 DEF a, b
<1>7. QED
  BY <1>4, <1>5, <1>6

\* Counting on, modulo the width.
LEMMA NextRemainder ==
  ASSUME NEW n \in Nat
  PROVE  ((n % Width) + 1) % Width = (n + 1) % Width
<1>1. Width \in Nat \ {0, 1}
  BY CountersAssumption
<1> DEFINE k == n \div Width
           b == n % Width
<1>2. k \in Int /\ b \in 0..Width-1 /\ n = Width * k + b
  BY <1>1, Z3
<1> HIDE DEF k, b
<1>3. CASE b < Width - 1
  <2>1. (b + 1) % Width = b + 1
    BY <1>1, <1>2, <1>3, Z3
  <2>2. (Width * k + (b + 1)) % Width = b + 1
    BY <1>1, <1>2, <1>3, Remainder
  <2>3. n + 1 = Width * k + (b + 1)
    BY <1>1, <1>2
  <2>4. QED
    BY <2>1, <2>2, <2>3 DEF b
<1>4. CASE b = Width - 1
  <2>1. (b + 1) % Width = 0
    BY <1>1, <1>4, Z3
  <2>2. n + 1 = Width * (k + 1)
    BY <1>1, <1>2, <1>4
  <2>3. (Width * (k + 1)) % Width = 0
    BY <1>1, <1>2, Z3
  <2>4. QED
    BY <2>1, <2>2, <2>3 DEF b
<1>5. QED
  BY <1>1, <1>2, <1>3, <1>4
-------------------------------------------------------------------------------
\* The initial states satisfy the inductive invariant.
LEMMA CountersInitInv == CountersInit => CountersIInv
<1> SUFFICES ASSUME CountersInit PROVE CountersIInv
  OBVIOUS
<1> USE FansAssumption, CountersAssumption
<1>1. CountersTypeOK
  BY DEF CountersInit, CountersTypeOK
<1>2. 0 % Width = 0
  BY Z3
<1>3. CountersInv
  BY <1>2 DEF CountersInit, CountersInv
<1>4. CopiedInv
  BY DEF CountersInit, CopiedInv, Fan
<1>5. QED
  BY <1>1, <1>3, <1>4 DEF CountersIInv

\* What a calculation takes for a fan is the number of its edges since the last reading.
LEMMA PulsesCount ==
  ASSUME CountersIInv, step = Fans, NEW f \in Fan
  PROVE  \E n \in counted[f]..sent[f] : copied[f] = n % Width /\ Pulses(f) = n - counted[f]
<1>1. f < step
  BY FansAssumption, CountersAssumption DEF Fan
<1>2. PICK n \in counted[f]..sent[f] : copied[f] = n % Width
  BY <1>1 DEF CountersIInv, CopiedInv, CountersTypeOK
<1>3. /\ counted[f] \in Nat /\ sent[f] \in Nat /\ n \in Nat /\ Width \in Nat
      /\ counted[f] <= n /\ n - counted[f] < Width
  BY CountersAssumption DEF CountersIInv, CountersTypeOK, CountersInv
<1>4. countersLast[f] = counted[f] % Width
  BY DEF CountersIInv, CountersInv
<1>5. QED
  BY <1>2, <1>3, <1>4, WrappedDifference DEF Pulses

\* Every step preserves the inductive invariant.
LEMMA CountersNextInv == CountersIInv /\ [CountersNext]_counterVars => CountersIInv'
<1> SUFFICES ASSUME CountersIInv, [CountersNext]_counterVars PROVE CountersIInv'
  OBVIOUS
<1> USE FansAssumption, CountersAssumption
<1>1. ASSUME NEW f \in Fan, CounterEdge(f) PROVE CountersIInv'
  <2>1. (counters[f] + 1) % Width = (sent[f] + 1) % Width
    BY NextRemainder DEF CountersIInv, CountersTypeOK, CountersInv
  <2>2. ((sent[f] + 1) % Width) \in Nat
    BY Z3 DEF CountersIInv, CountersTypeOK
  <2>3. CountersTypeOK'
    BY <1>1, <2>1, <2>2 DEF CountersIInv, CountersTypeOK, CounterEdge
  <2>4. CountersInv'
    BY <1>1, <2>1 DEF CountersIInv, CountersTypeOK, CountersInv, CounterEdge
  <2>5. CopiedInv'
    <3>1. SUFFICES ASSUME NEW g \in Fan, g < step, step <= Fans
                   PROVE  \E n \in counted[g]..sent'[g] : copied[g] = n % Width
      BY <1>1 DEF CopiedInv, CounterEdge
    <3>2. PICK n \in counted[g]..sent[g] : copied[g] = n % Width
      BY <3>1 DEF CountersIInv, CopiedInv
    <3>3. n \in counted[g]..sent'[g]
      BY <1>1 DEF CountersIInv, CountersTypeOK, CounterEdge
    <3>4. QED
      BY <3>2, <3>3
  <2>6. QED
    BY <2>3, <2>4, <2>5 DEF CountersIInv
<1>2. CASE CopyCounter
  <2>1. CountersTypeOK' /\ CountersInv'
    <3>1. step' \in 0..Fans+1
      BY <1>2 DEF CopyCounter, Fan
    <3>2. QED
      BY <1>2, <3>1 DEF CountersIInv, CountersTypeOK, CountersInv, CopyCounter
  <2>2. CopiedInv'
    <3>1. SUFFICES ASSUME NEW f \in Fan, f < step + 1, step \in Fan
                   PROVE  \E n \in counted[f]..sent[f] : copied'[f] = n % Width
      BY <1>2 DEF CopiedInv, CopyCounter
    <3>2. CASE f = step
      <4>1. copied'[f] = sent[f] % Width /\ sent[f] \in counted[f]..sent[f]
        BY <1>2, <3>2 DEF CountersIInv, CountersTypeOK, CountersInv, CopyCounter
      <4>2. QED
        BY <4>1
    <3>3. CASE f # step
      <4>1. f < step /\ step <= Fans
        BY <3>1, <3>3 DEF Fan
      <4>2. copied'[f] = copied[f]
        BY <1>2, <3>3 DEF CountersIInv, CountersTypeOK, CopyCounter
      <4>3. QED
        BY <4>1, <4>2 DEF CountersIInv, CopiedInv
    <3>4. QED
      BY <3>2, <3>3
  <2>3. QED
    BY <2>1, <2>2 DEF CountersIInv
<1>3. CASE Calculate
  <2>1. ASSUME NEW f \in Fan
        PROVE  /\ counted'[f] \in Nat /\ counted'[f] <= sent[f] /\ sent[f] - counted'[f] < Width
               /\ countersLast'[f] = counted'[f] % Width
    <3>1. PICK n \in counted[f]..sent[f] : copied[f] = n % Width /\ Pulses(f) = n - counted[f]
      BY <1>3, PulsesCount DEF Calculate
    <3>2. counted'[f] = n /\ countersLast'[f] = copied[f]
      BY <1>3, <3>1 DEF CountersIInv, CountersTypeOK, Calculate
    <3>3. QED
      BY <3>1, <3>2 DEF CountersIInv, CountersTypeOK, CountersInv
  <2>2. CountersTypeOK'
    <3>1. counted' \in [Fan -> Nat]
      BY <1>3, <2>1 DEF Calculate
    <3>2. QED
      BY <1>3, <3>1 DEF CountersIInv, CountersTypeOK, Calculate
  <2>3. CountersInv'
    BY <1>3, <2>1 DEF CountersIInv, CountersInv, Calculate
  <2>4. CopiedInv'
    BY <1>3 DEF CopiedInv, Calculate
  <2>5. QED
    BY <2>2, <2>3, <2>4 DEF CountersIInv
<1>4. CASE TooSoon
  BY <1>4 DEF CountersIInv, CountersTypeOK, CountersInv, CopiedInv, TooSoon
<1>5. CASE Update
  <2>1. CountersTypeOK' /\ CountersInv'
    BY <1>5 DEF CountersIInv, CountersTypeOK, CountersInv, Update
  <2>2. \A f \in Fan : ~(f < step')
    BY <1>5 DEF Update, Fan
  <2>3. QED
    BY <2>1, <2>2 DEF CountersIInv, CopiedInv
<1>6. CASE Tick
  BY <1>6 DEF CountersIInv, CountersTypeOK, CountersInv, CopiedInv, Tick
<1>7. ASSUME NEW f \in Fan, CounterMode(f) PROVE CountersIInv'
  BY <1>7 DEF CountersIInv, CountersTypeOK, CountersInv, CopiedInv, CounterMode
<1>8. CASE UNCHANGED counterVars
  BY <1>8 DEF CountersIInv, CountersTypeOK, CountersInv, CopiedInv, counterVars
<1>9. QED
  BY <1>1, <1>2, <1>3, <1>4, <1>5, <1>6, <1>7, <1>8 DEF CountersNext, CountersCore1

\* The inductive invariant: counters are numbers of edges modulo their width.
THEOREM CountersInvariance == CountersSpec => []CountersIInv
<1>1. QED
  BY CountersInitInv, CountersNextInv, PTL DEF CountersSpec

\* Every edge is taken account of once, for any width of the counters: see EdgesCounted.
THEOREM EdgesCountedOnce == CountersSpec => []EdgesCounted
<1>1. CountersIInv => EdgesCounted
  <2>1. SUFFICES ASSUME CountersIInv, NEW f \in Fan
                 PROVE  sent[f] = counted[f] + ((counters[f] - countersLast[f]) % Width)
    BY DEF EdgesCounted
  <2>2. /\ sent[f] \in Nat /\ counted[f] \in Nat
        /\ counted[f] <= sent[f] /\ sent[f] - counted[f] < Width
        /\ counters[f] = sent[f] % Width /\ countersLast[f] = counted[f] % Width
    BY <2>1 DEF CountersIInv, CountersTypeOK, CountersInv
  <2>3. (counters[f] - countersLast[f]) % Width = sent[f] - counted[f]
    BY <2>2, WrappedDifference
  <2>4. QED
    BY <2>2, <2>3
<1>2. QED
  BY <1>1, CountersInvariance, PTL

===============================================================================
