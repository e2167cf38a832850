----------------------------- MODULE StorageProofs -----------------------------
(***************************************************************************)
(* Proofs about what outlasts a reset: PersistentMemory, for any length   *)
(* and number of boots, and ConfigStore, for any settings, lists and      *)
(* numbers of slots.                                                      *)
(***************************************************************************)
EXTENDS PersistentMemory, ConfigStore, DataProofs

(***************************************************************************)
(* The block in memory that a reset leaves alone.                         *)
(***************************************************************************)

\* Only one of the main program and the hook is writing the block.
LockInv ==
  /\ pc \in {"uptime", "crc"} => mutex = "main"
  /\ irq = "crc" => pc = "loop" /\ mutex = "irq"
  /\ irq # "none" => pc \in {"loop", "uptime", "crc"}

\* The CRC always belongs to a block whose times are of one update, and while nothing
\* but the timezone is being changed the block has the same times.  A stopped clock has
\* never run.
WholeInv ==
  /\ crc.saved \in {0, crc.uptime + 1}
  /\ pc # "init" /\ ~rtc => mem.saved = 0
  /\ pc \in {"prev", "total", "warmstart", "sealed", "setup", "loop"} =>
       mem.saved = crc.saved /\ mem.uptime = crc.uptime
  /\ pc \in {"prev", "total", "loop"} => mem.total = crc.total
  /\ pc = "uptime" => mem.saved \in {0, up + 1}
  /\ pc = "crc" => mem.saved \in {0, up + 1} /\ mem.uptime = up

\* Outside of the stores the CRC is that of the block.
SealedInv == pc # "init" => mem.id /\ (~Storing => mem = crc)

\* What a block accepted after a reset would count, what this boot has counted, and what
\* a block that will be refused has lost.
CountInv ==
  /\ pc \in {"init", "prev", "total", "warmstart", "sealed", "setup"} => up = since
  /\ past + up <= crc.total + crc.uptime + gone + resets * Lag + since
  /\ pc = "init" /\ ~Intact => past + up <= gone + resets * Lag + since
  /\ pc \in {"warmstart", "sealed", "setup", "loop", "uptime", "crc"} =>
       past <= mem.total + gone + resets * Lag

IInv == TypeOK /\ LockInv /\ WholeInv /\ SealedInv /\ CountInv

-------------------------------------------------------------------------------
\* One reset more allows for one interval between updates more.
LEMMA OneMore ==
  ASSUME NEW r \in Nat
  PROVE  r * Lag \in Nat /\ (r + 1) * Lag = r * Lag + Lag /\ 0 * Lag = 0
BY BoundsAssumption

\* An empty block is one of the blocks.
LEMMA EmptyBlock ==
  /\ Empty \in Blocks /\ [Empty EXCEPT !.id = FALSE] \in Blocks
  /\ Empty.saved = 0 /\ Empty.uptime = 0 /\ Empty.total = 0
BY DEF Empty, Blocks, Zones

\* The initial states satisfy the inductive invariant.
LEMMA InitInv == Init => IInv
<1> SUFFICES ASSUME Init PROVE IInv
  OBVIOUS
<1>1. TypeOK
  <2>1. mem \in Blocks /\ crc \in Blocks
    BY EmptyBlock DEF Init
  <2>2. 0 \in 0..MaxTime /\ 0 \in 0..Lag /\ 0 \in 0..MaxBoots
    BY BoundsAssumption
  <2>3. QED
    BY <2>1, <2>2 DEF Init, TypeOK, Zones
<1>2. LockInv /\ WholeInv /\ SealedInv
  BY EmptyBlock DEF Init, LockInv, WholeInv, SealedInv
<1>3. CountInv
  <2>1. resets * Lag = 0
    BY OneMore DEF Init
  <2>2. /\ crc.total = 0 /\ crc.uptime = 0 /\ past = 0 /\ up = 0 /\ since = 0 /\ pc = "init"
        /\ gone = 0
    BY EmptyBlock DEF Init
  <2>3. QED
    BY <2>1, <2>2 DEF CountInv
<1>4. QED
  BY <1>1, <1>2, <1>3 DEF IInv

\* The counters that a step of the program leaves alone.
LEMMA HistoryKept ==
  ASSUME IInv, UNCHANGED history
  PROVE  /\ boots' = boots /\ past' = past /\ gone' = gone
         /\ resets' = resets /\ resets * Lag \in Nat /\ resets' * Lag = resets * Lag
<1>1. resets \in Nat
  BY DEF IInv, TypeOK
<1>2. QED
  BY <1>1, OneMore DEF history

\* The same, of a step that takes no time and leaves the clock alone.
LEMMA ClockKept ==
  ASSUME IInv, UNCHANGED clock
  PROVE  /\ up' = up /\ since' = since /\ rtc' = rtc
         /\ boots' = boots /\ past' = past /\ gone' = gone
         /\ resets' = resets /\ resets * Lag \in Nat /\ resets' * Lag = resets * Lag
<1>1. up' = up /\ since' = since /\ rtc' = rtc /\ UNCHANGED history
  BY DEF clock
<1>2. QED
  BY <1>1, HistoryKept

\* What the fields of a block are, and the numbers of a state.
LEMMA BlockNumbers ==
  ASSUME IInv
  PROVE  /\ mem.saved \in Nat /\ mem.uptime \in Nat /\ mem.total \in Nat
         /\ crc.saved \in Nat /\ crc.uptime \in Nat /\ crc.total \in Nat
         /\ up \in Nat /\ since \in Nat /\ since <= Lag /\ past \in Nat /\ resets \in Nat
         /\ gone \in Nat /\ resets * Lag \in Nat /\ Lag \in Nat
<1>1. /\ up \in 0..MaxTime /\ since \in 0..Lag /\ resets \in Nat /\ past \in Nat /\ gone \in Nat
      /\ mem \in Blocks /\ crc \in Blocks
  BY DEF IInv, TypeOK
<1>2. up \in Nat /\ since \in Nat /\ since <= Lag /\ resets \in Nat /\ Lag \in Nat
  BY <1>1, BoundsAssumption
<1>3. QED
  BY <1>1, <1>2, OneMore DEF Blocks

\* Changing one field of a block keeps the others.
LEMMA OneField ==
  ASSUME NEW b \in Blocks, NEW n \in Nat, NEW z \in Zones
  PROVE  /\ [b EXCEPT !.saved = n] \in Blocks /\ [b EXCEPT !.uptime = n] \in Blocks
         /\ [b EXCEPT !.prev = n] \in Blocks /\ [b EXCEPT !.total = n] \in Blocks
         /\ [b EXCEPT !.warmstart = n] \in Blocks /\ [b EXCEPT !.timezone = z] \in Blocks
BY DEF Blocks

\* A valid block is found after a reset.
LEMMA FoundInv == ASSUME IInv, FoundBlock PROVE IInv'
<1>1. /\ pc = "init" /\ mem.id /\ mem = crc
      /\ UNCHANGED <<mem, crc, mutex, irq, up, since, cfgTz, history>>
      /\ pc' \in {"prev", "warmstart"} /\ (pc' = "warmstart" => mem.uptime = 0)
      /\ tz' \in {tz, mem.timezone}
  BY DEF FoundBlock, Intact
<1>0. rtc' \in BOOLEAN /\ (~rtc' => mem.saved = 0)
  BY DEF FoundBlock
<1>2. TypeOK'
  BY <1>0, <1>1, HistoryKept DEF IInv, TypeOK, Blocks, history
<1>3. LockInv' /\ WholeInv'
  BY <1>0, <1>1 DEF IInv, LockInv, WholeInv
<1>6. SealedInv'
  BY <1>1, Zenon DEF SealedInv
<1>4. CountInv'
  BY <1>1, HistoryKept, BlockNumbers DEF IInv, CountInv
<1>5. QED
  BY <1>2, <1>3, <1>4, <1>6 DEF IInv

\* Any other block is replaced by an empty one.
LEMMA NotFoundInv == ASSUME IInv, NotFound PROVE IInv'
<1>1. /\ pc = "init" /\ pc' = "setup" /\ mem' = Empty /\ crc' = Empty /\ ~Intact
      /\ UNCHANGED <<mutex, irq, tz, cfgTz, clock>>
  BY DEF NotFound
<1>2. TypeOK'
  BY <1>1, EmptyBlock, ClockKept DEF IInv, TypeOK
<1>3. LockInv' /\ WholeInv'
  BY <1>1, EmptyBlock, ClockKept DEF IInv, LockInv, WholeInv
<1>6. SealedInv'
  BY <1>1 DEF SealedInv, Empty
<1>4. CountInv'
  <2>1. up = since /\ past + up <= gone + resets * Lag + since
    BY <1>1 DEF IInv, CountInv
  <2>2. QED
    BY <1>1, <2>1, EmptyBlock, BlockNumbers, ClockKept DEF CountInv
<1>5. QED
  BY <1>2, <1>3, <1>4, <1>6 DEF IInv

\* The counters of the block go on, one after the other.
LEMMA CountersInv == ASSUME IInv, SetPrev \/ AddTotal \/ CountReset PROVE IInv'
<1>1. /\ mem' \in Blocks /\ mem'.saved = mem.saved /\ mem'.uptime = mem.uptime
      /\ mem'.id = mem.id
      /\ mem'.total = IF pc = "total" THEN mem.total + mem.uptime ELSE mem.total
      /\ <<pc, pc'>> \in {<<"prev", "total">>, <<"total", "warmstart">>, <<"warmstart", "sealed">>}
      /\ UNCHANGED <<crc, mutex, irq, tz, cfgTz, clock>>
  <2>1. mem \in Blocks
    BY DEF IInv, TypeOK
  <2>2. QED
    BY <2>1 DEF SetPrev, AddTotal, CountReset, Blocks
<1>2. TypeOK'
  BY <1>1, ClockKept DEF IInv, TypeOK
<1>3. LockInv' /\ WholeInv' /\ SealedInv'
  BY <1>1, ClockKept DEF IInv, LockInv, WholeInv, SealedInv, Storing
<1>4. CountInv'
  BY <1>1, ClockKept, BlockNumbers DEF IInv, CountInv, WholeInv
<1>5. QED
  BY <1>2, <1>3, <1>4 DEF IInv

\* The counted block is sealed, and setup() applies the timezone that is configured.
LEMMA SetupInv == ASSUME IInv, Seal \/ SetupTimezone PROVE IInv'
<1>1. /\ mem' \in Blocks /\ mem'.saved = mem.saved /\ mem'.uptime = mem.uptime
      /\ mem'.total = mem.total /\ mem'.id = mem.id /\ tz' \in Zones
      /\ crc' = mem' \/ (pc = "setup" /\ crc' = crc /\ mem' = mem)
      /\ <<pc, pc'>> \in {<<"sealed", "setup">>, <<"setup", "loop">>}
      /\ UNCHANGED <<mutex, irq, cfgTz, clock>>
  <2>1. mem \in Blocks /\ tz \in Zones /\ cfgTz \in Zones
    BY DEF IInv, TypeOK, Zones
  <2>2. CASE Seal
    BY <2>1, <2>2 DEF Seal
  <2>3. CASE SetupTimezone
    BY <2>1, <2>3 DEF SetupTimezone, Blocks
  <2>4. QED
    BY <2>2, <2>3
<1>2. mem.saved \in {0, mem.uptime + 1} /\ irq = "none" /\ crc' = mem'
  <2>1. irq = "none" /\ (pc = "setup" => mem = crc)
    BY <1>1 DEF IInv, LockInv, TypeOK, SealedInv, Storing
  <2>2. QED
    BY <1>1, <2>1 DEF IInv, WholeInv
<1>3. TypeOK'
  BY <1>1, <1>2, ClockKept DEF IInv, TypeOK
<1>4. LockInv' /\ WholeInv'
  BY <1>1, <1>2, ClockKept DEF IInv, LockInv, WholeInv
<1>7. SealedInv'
  BY <1>1, <1>2 DEF IInv, SealedInv
<1>5. CountInv'
  BY <1>1, <1>2, ClockKept, BlockNumbers DEF IInv, CountInv, WholeInv
<1>6. QED
  BY <1>3, <1>4, <1>5, <1>7 DEF IInv

\* An update stores the time of day and the uptime.
LEMMA UpdateInv == ASSUME IInv, Update \/ StoreUptime PROVE IInv'
<1>1. /\ mem' \in Blocks /\ mem'.total = mem.total /\ mem'.id = mem.id
      /\ \/ /\ pc = "loop" /\ pc' = "uptime" /\ mutex' = "main"
            /\ mem'.saved = IF rtc THEN up + 1 ELSE mem.saved
         \/ /\ pc = "uptime" /\ pc' = "crc" /\ mem'.saved = mem.saved /\ mem'.uptime = up
            /\ mutex' = mutex
      /\ irq = "none" /\ UNCHANGED <<crc, irq, tz, cfgTz, clock>>
  <2>0. up \in Nat
    BY BlockNumbers
  <2>4. up + 1 \in Nat
    BY <2>0
  <2>5. mem \in Blocks
    BY DEF IInv, TypeOK
  <2>1. mem \in Blocks /\ up \in Nat /\ up + 1 \in Nat
    BY <2>0, <2>4, <2>5
  <2>2. CASE Update
    BY <2>1, <2>2, OneField DEF Update, Blocks
  <2>3. CASE StoreUptime
    BY <2>1, <2>3, OneField DEF StoreUptime, Blocks
  <2>6. QED
    BY <2>2, <2>3
<1>2. TypeOK'
  BY <1>1, ClockKept DEF IInv, TypeOK
<1>3. LockInv' /\ WholeInv'
  BY <1>1, ClockKept DEF IInv, LockInv, WholeInv
<1>6. SealedInv'
  BY <1>1 DEF IInv, SealedInv, Storing
<1>4. CountInv'
  BY <1>1, ClockKept, BlockNumbers DEF IInv, CountInv
<1>5. QED
  BY <1>2, <1>3, <1>4, <1>6 DEF IInv

\* The CRC closes an update: what this boot has lasted so far is in the block.
LEMMA StoreCrcInv == ASSUME IInv, StoreCrc PROVE IInv'
<1>1. /\ pc = "crc" /\ pc' = "loop" /\ irq = "none" /\ crc' = mem /\ mutex' = "free" /\ since' = 0
      /\ UNCHANGED <<mem, irq, tz, cfgTz, up, rtc, history>>
  BY DEF StoreCrc
<1>2. mem.saved \in {0, up + 1} /\ mem.uptime = up
  BY <1>1 DEF IInv, WholeInv
<1>3. TypeOK'
  <2>1. 0 \in 0..Lag
    BY BoundsAssumption
  <2>2. QED
    BY <1>1, <2>1, HistoryKept DEF IInv, TypeOK
<1>4. LockInv' /\ WholeInv' /\ SealedInv'
  BY <1>1, <1>2 DEF IInv, LockInv, WholeInv, SealedInv
<1>5. CountInv'
  <2>1. past <= mem.total + gone + resets * Lag
    BY <1>1 DEF IInv, CountInv
  <2>2. QED
    BY <1>1, <1>2, <2>1, HistoryKept, BlockNumbers DEF CountInv
<1>6. QED
  BY <1>3, <1>4, <1>5 DEF IInv

\* The hook stores nothing but a timezone, and only between updates.
LEMMA LeaseInv == ASSUME IInv, Lease \/ LeaseBusy \/ LeaseCrc \/ LeaseSetenv PROVE IInv'
<1>1. /\ mem' \in Blocks /\ mem'.saved = mem.saved /\ mem'.uptime = mem.uptime
      /\ mem'.total = mem.total /\ mem'.id = mem.id /\ tz' \in Zones
      /\ mem' = mem \/ (mutex = "free" /\ mutex' = "irq" /\ irq' = "crc")
      /\ UNCHANGED <<pc, cfgTz, clock>>
  <2>1. mem \in Blocks /\ tz \in Zones /\ mem.timezone \in Zones /\ Server \in Zones
    BY DEF IInv, TypeOK, Zones, Blocks
  <2>2. CASE Lease
    BY <2>1, <2>2 DEF Lease, Blocks
  <2>3. CASE LeaseBusy \/ LeaseCrc \/ LeaseSetenv
    BY <2>1, <2>3 DEF LeaseBusy, LeaseCrc, LeaseSetenv
  <2>4. QED
    BY <2>2, <2>3
<1>2. /\ crc' = crc \/ (crc' = mem /\ mem' = mem /\ irq = "crc")
      /\ irq = "crc" => crc' = mem'
      /\ irq' \in {"none", "crc", "setenv"} /\ mutex' \in {"free", "main", "irq"}
      /\ pc \in {"uptime", "crc"} => mutex' = mutex
      /\ irq' = "crc" => mutex = "free" /\ mutex' = "irq"
      /\ pc \in {"loop", "uptime", "crc"}
  BY DEF IInv, TypeOK, LockInv, Lease, LeaseBusy, LeaseCrc, LeaseSetenv
<1>3. TypeOK'
  BY <1>1, <1>2, ClockKept DEF IInv, TypeOK
<1>4. LockInv'
  BY <1>1, <1>2 DEF IInv, TypeOK, LockInv
<1>5. irq = "crc" => pc = "loop"
  BY DEF IInv, LockInv
<1>6. WholeInv'
  BY <1>1, <1>2, <1>5, ClockKept DEF IInv, WholeInv
<1>9. SealedInv'
  <2>1. irq' # "crc" /\ irq # "crc" => mem' = mem /\ crc' = crc
    BY <1>1, <1>2
  <2>2. QED
    BY <1>1, <1>2, <2>1 DEF IInv, SealedInv, Storing
<1>7. CountInv'
  BY <1>1, <1>2, <1>5, ClockKept, BlockNumbers DEF IInv, CountInv, WholeInv
<1>8. QED
  BY <1>3, <1>4, <1>6, <1>7, <1>9 DEF IInv

\* Time passes.
LEMMA TickInv == ASSUME IInv, Tick PROVE IInv'
<1>1. /\ pc \in {"init", "setup", "loop"} /\ irq = "none" /\ up < MaxTime /\ since < Lag
      /\ up' = up + 1 /\ since' = since + 1
      /\ UNCHANGED <<mem, crc, mutex, pc, irq, tz, cfgTz, rtc, history>>
  BY DEF Tick
<1>2. TypeOK'
  <2>1. up' \in 0..MaxTime /\ since' \in 0..Lag
    BY <1>1, BlockNumbers, BoundsAssumption
  <2>2. QED
    BY <1>1, <2>1, HistoryKept DEF IInv, TypeOK
<1>3. LockInv' /\ WholeInv' /\ SealedInv'
  BY <1>1 DEF IInv, LockInv, WholeInv, SealedInv, Storing
<1>4. CountInv'
  <2>1. Intact' = Intact
    BY <1>1 DEF Intact
  <2>2. QED
    BY <1>1, <2>1, HistoryKept, BlockNumbers DEF IInv, CountInv
<1>5. QED
  BY <1>2, <1>3, <1>4 DEF IInv

\* The clock is set and runs.
LEMMA SetClockInv == ASSUME IInv, SetClock PROVE IInv'
<1>1. /\ pc \in {"loop", "uptime", "crc"} /\ rtc' = TRUE
      /\ UNCHANGED <<mem, crc, mutex, pc, irq, up, since, tz, cfgTz, history>>
  BY DEF SetClock
<1>2. TypeOK'
  BY <1>1, HistoryKept DEF IInv, TypeOK
<1>3. LockInv' /\ WholeInv' /\ SealedInv'
  BY <1>1 DEF IInv, LockInv, WholeInv, SealedInv, Storing
<1>4. CountInv'
  BY <1>1, HistoryKept, BlockNumbers DEF IInv, CountInv
<1>5. QED
  BY <1>2, <1>3, <1>4 DEF IInv

\* A reset: what the block does not know of this boot is at most one interval, unless it
\* was being stored to, and then all of it is lost.
LEMMA ResetInv == ASSUME IInv, Reset PROVE IInv'
<1>1. /\ pc' = "init" /\ irq' = "none" /\ mutex' = "free" /\ tz' = ""
      /\ UNCHANGED <<mem, crc, cfgTz>>
  BY DEF Reset
<1>2. /\ boots < MaxBoots /\ boots' = boots + 1 /\ past' = past + up /\ resets' = resets + 1
      /\ up' = 0 /\ since' = 0
      /\ gone' = IF Storing THEN past' ELSE gone
  BY DEF Reset
<1>0. rtc' \in BOOLEAN
  BY DEF Reset, IInv, TypeOK
<1>3. TypeOK'
  <2>1. 0 \in 0..MaxTime /\ 0 \in 0..Lag
    BY BoundsAssumption
  <2>2. boots' \in 0..MaxBoots
    <3>1. boots \in 0..MaxBoots
      BY DEF IInv, TypeOK
    <3>2. QED
      BY <1>2, <3>1, BoundsAssumption
  <2>3. past' \in Nat /\ resets' \in Nat /\ gone' \in Nat
    <3>1. past \in Nat /\ up \in Nat /\ resets \in Nat /\ gone \in Nat
      BY BlockNumbers
    <3>2. QED
      BY <1>2, <3>1
  <2>4. QED
    BY <1>0, <1>1, <1>2, <2>1, <2>2, <2>3 DEF IInv, TypeOK, Zones
<1>4. LockInv' /\ WholeInv' /\ SealedInv'
  BY <1>1 DEF IInv, LockInv, WholeInv, SealedInv
<1>5. CountInv'
  <2>1. resets' * Lag = resets * Lag + Lag
    BY <1>2, BlockNumbers, OneMore
  <2>2. past + up <= crc.total + crc.uptime + gone + resets * Lag + since
    BY DEF IInv, CountInv
  <2>3. past' + up' <= crc.total + crc.uptime + gone' + resets' * Lag + since'
    <3>1. CASE Storing
      BY <1>2, <2>1, <3>1, BlockNumbers
    <3>2. CASE ~Storing
      BY <1>2, <2>1, <2>2, <3>2, BlockNumbers
    <3>3. QED
      BY <3>1, <3>2
  <2>4. ~Intact' => past' + up' <= gone' + resets' * Lag + since'
    <3>1. CASE Storing
      BY <1>2, <2>1, <3>1, BlockNumbers
    <3>2. CASE ~Storing /\ ~Intact'
      <4>1. ~Intact
        BY <1>1, <3>2 DEF Intact
      <4>2. pc = "init"
        BY <3>2, <4>1 DEF IInv, SealedInv, Intact
      <4>3. past + up <= gone + resets * Lag + since
        BY <4>1, <4>2 DEF IInv, CountInv
      <4>4. QED
        BY <1>2, <2>1, <3>2, <4>3, BlockNumbers
    <3>3. QED
      BY <3>1, <3>2
  <2>5. QED
    BY <1>1, <1>2, <2>3, <2>4 DEF CountInv
<1>6. QED
  BY <1>3, <1>4, <1>5 DEF IInv

\* Every step preserves the inductive invariant.
LEMMA NextInv == IInv /\ [Next]_vars => IInv'
<1>1. ASSUME IInv, UNCHANGED vars PROVE IInv'
  <2>1. UNCHANGED <<TypeOK, LockInv, WholeInv>>
    BY <1>1 DEF vars, TypeOK, LockInv, WholeInv
  <2>2. UNCHANGED <<SealedInv, CountInv>>
    BY <1>1 DEF vars, SealedInv, Storing, CountInv, Intact
  <2>3. QED
    BY <1>1, <2>1, <2>2 DEF IInv
<1>2. QED
  BY <1>1, FoundInv, NotFoundInv, CountersInv, SetupInv, UpdateInv, StoreCrcInv, LeaseInv,
     TickInv, SetClockInv, ResetInv DEF Next, Main

\* The inductive invariant: the CRC always belongs to a complete block, outside of the
\* stores it is that of the block, and the block accounts for all time but that since the
\* last update of each boot and before a reset during a store.
THEOREM Invariance == Spec => []IInv
<1>1. QED
  BY InitInv, NextInv, PTL DEF Spec

\* Type correctness of PersistentMemory.
THEOREM TypeCorrect == Spec => []TypeOK
<1>1. IInv => TypeOK
  BY DEF IInv
<1>2. QED
  BY <1>1, Invariance, PTL

\* A block that would be accepted after a reset, whenever it comes and whether or not the
\* clock runs, was left complete.
THEOREM AcceptedIsWhole == Spec => []AcceptedWhole
<1>1. IInv => AcceptedWhole
  BY DEF IInv, WholeInv, AcceptedWhole, Intact
<1>2. QED
  BY <1>1, Invariance, PTL

\* A reset outside of the stores loses no more of the time of earlier boots than what
\* passed since an update; one during a store may lose all of it, and no more.
THEOREM PastIsCounted == Spec => []PastCounted
<1>1. IInv => PastCounted
  BY DEF IInv, CountInv, PastCounted
<1>2. QED
  BY <1>1, Invariance, PTL

-------------------------------------------------------------------------------
(***************************************************************************)
(* Lists that are copied in part.                                         *)
(***************************************************************************)

\* The lists that Only() builds, one for each beginning of s.
Copies(f, s, S, T) ==
  /\ f \in [0..Len(s) -> Seq(T)] /\ f[0] = <<>>
  /\ \A k \in 1..Len(s) : f[k] = IF s[k] \in S THEN Append(f[k-1], s[k]) ELSE f[k-1]

\* They exist.
LEMMA CopiesExist ==
  ASSUME NEW T, NEW S, NEW s \in Seq(T)
  PROVE  \E f : Copies(f, s, S, T) /\ Only(s, S) = f[Len(s)]
<1> DEFINE n == Len(s)
           F == [k \in 1..n |-> [x \in Seq(T) |-> IF s[k] \in S THEN Append(x, s[k]) ELSE x]]
<1>1. n \in Nat /\ <<>> \in Seq(T) /\ \A k \in 1..n : s[k] \in T
  OBVIOUS
<1>12. \A k \in 0..n : k # 0 => k \in 1..n
  <2> HIDE DEF n
  <2>1. QED
    BY <1>1
<1>2. F \in [1..n -> [Seq(T) -> Seq(T)]]
  <2>1. ASSUME NEW k \in 1..n, NEW x \in Seq(T)
        PROVE  (IF s[k] \in S THEN Append(x, s[k]) ELSE x) \in Seq(T)
    BY <1>1
  <2>2. QED
    BY <2>1
<1>3. PICK f : IsRecursion(f, n, <<>>, F)
  <2> HIDE DEF n, F
  <2>1. QED
    BY <1>1, <1>2, RecursionExists
<1>4. Unfolds(f, n, Seq(T), <<>>, F)
  <2> HIDE DEF n, F
  <2>1. QED
    BY <1>1, <1>2, <1>3, RecursionType
<1>5. /\ f \in [0..n -> Seq(T)] /\ f[0] = <<>>
      /\ \A k \in 1..n : f[k] = F[k][f[k-1]]
  BY <1>4 DEF Unfolds
<1>6. ASSUME NEW k \in 1..n
      PROVE  f[k] = IF s[k] \in S THEN Append(f[k-1], s[k]) ELSE f[k-1]
  <2>4. k - 1 \in 0..n
    <3> HIDE DEF n, F
    <3>1. QED
      BY <1>1
  <2>5. f[k] = F[k][f[k-1]]
    <3> HIDE DEF n, F
    <3>1. QED
      BY <1>5
  <2>1. k - 1 \in 0..n /\ f[k] = F[k][f[k-1]]
    BY <2>4, <2>5
  <2>2. f[k-1] \in Seq(T)
    BY <1>5, <2>1
  <2>3. QED
    BY <2>1, <2>2
<1>7. f = [k \in 0..n |-> IF k = 0 THEN <<>>
                          ELSE IF s[k] \in S THEN Append(f[k-1], s[k]) ELSE f[k-1]]
  <2> DEFINE g == [k \in 0..n |-> IF k = 0 THEN <<>>
                                  ELSE IF s[k] \in S THEN Append(f[k-1], s[k]) ELSE f[k-1]]
  <2>1. ASSUME NEW k \in 0..n PROVE f[k] = g[k]
    <3>1. CASE k = 0
      BY <1>5, <3>1
    <3>2. CASE k # 0
      <4>1. k \in 1..n
        BY <1>12, <3>2, Zenon
      <4>2. QED
        BY <1>6, <3>2, <4>1
    <3>3. QED
      BY <3>1, <3>2
  <2>2. QED
    BY <1>5, <2>1
<1> DEFINE copied[k \in 0..Len(s)] ==
             IF k = 0 THEN <<>> ELSE IF s[k] \in S THEN Append(copied[k-1], s[k]) ELSE copied[k-1]
<1>8. copied = [k \in 0..Len(s) |-> IF k = 0 THEN <<>>
                  ELSE IF s[k] \in S THEN Append(copied[k-1], s[k]) ELSE copied[k-1]]
  BY <1>7, Zenon
<1>9. Only(s, S) = copied[Len(s)]
  BY DEF Only
<1> HIDE DEF copied
<1>10. Copies(copied, s, S, T)
  <2>1. ASSUME NEW k \in 1..n
        PROVE  copied[k] = IF s[k] \in S THEN Append(copied[k-1], s[k]) ELSE copied[k-1]
    <3>1. k \in 0..Len(s) /\ k # 0
      BY <1>1
    <3>2. QED
      BY <1>8, <3>1
  <2>2. copied[0] = <<>>
    BY <1>1, <1>8
  <2> DEFINE P == {k \in 0..n : copied[k] \in Seq(T)}
  <2>3. 0 \in P
    <3>1. <<>> \in Seq(T) /\ 0 \in 0..n
      BY <1>1
    <3>2. QED
      BY <2>2, <3>1
  <2>4. ASSUME NEW k \in 0..n-1, k \in P PROVE k + 1 \in P
    <3>1. k + 1 \in 1..n /\ k + 1 \in 0..n /\ (k + 1) - 1 = k /\ s[k+1] \in T
      BY <1>1
    <3>2. copied[k] \in Seq(T)
      BY <2>4
    <3>3. copied[k+1] = IF s[k+1] \in S THEN Append(copied[k], s[k+1]) ELSE copied[k]
      BY <2>1, <3>1
    <3>4. copied[k+1] \in Seq(T)
      BY <3>1, <3>2, <3>3
    <3>5. QED
      BY <3>1, <3>4
  <2>5. 0..n \subseteq P
    <3> HIDE DEF P, n
    <3>1. QED
      BY <1>1, <2>3, <2>4, BoundedInduction
  <2>6. copied \in [0..n -> Seq(T)]
    BY <1>8, <2>5
  <2>7. QED
    BY <2>1, <2>2, <2>6 DEF Copies
<1>11. QED
  BY <1>9, <1>10

\* What is copied is a list of chosen elements, and not longer.
LEMMA OnlyType ==
  ASSUME NEW T, NEW S, NEW s \in Seq(T)
  PROVE  Only(s, S) \in Seq(T \cap S) /\ Len(Only(s, S)) <= Len(s)
<1>1. PICK f : Copies(f, s, S, T) /\ Only(s, S) = f[Len(s)]
  BY CopiesExist
<1>2. /\ Len(s) \in Nat /\ f[0] = <<>> /\ \A k \in 1..Len(s) : s[k] \in T
      /\ \A k \in 1..Len(s) : f[k] = IF s[k] \in S THEN Append(f[k-1], s[k]) ELSE f[k-1]
  BY <1>1 DEF Copies
<1> DEFINE P == {k \in 0..Len(s) : f[k] \in Seq(T \cap S) /\ Len(f[k]) <= k}
<1>3. 0 \in P
  <2>1. <<>> \in Seq(T \cap S) /\ Len(<<>>) = 0 /\ 0 \in 0..Len(s)
    BY <1>2
  <2>2. f[0] \in Seq(T \cap S) /\ Len(f[0]) = 0
    BY <1>2, <2>1
  <2>3. QED
    BY <2>1, <2>2
<1>4. ASSUME NEW k \in 0..Len(s)-1, k \in P PROVE k + 1 \in P
  <2>1. k + 1 \in 1..Len(s) /\ k + 1 \in 0..Len(s) /\ (k + 1) - 1 = k
    BY <1>2
  <2>2. f[k] \in Seq(T \cap S) /\ Len(f[k]) <= k /\ k \in Nat
    BY <1>4
  <2>3. f[k+1] = IF s[k+1] \in S THEN Append(f[k], s[k+1]) ELSE f[k]
    BY <1>2, <2>1
  <2>4. CASE s[k+1] \in S
    <3>1. s[k+1] \in T \cap S /\ f[k+1] = Append(f[k], s[k+1])
      BY <1>2, <2>1, <2>3, <2>4
    <3>2. f[k+1] \in Seq(T \cap S) /\ Len(f[k+1]) = Len(f[k]) + 1
      BY <2>2, <3>1
    <3>3. Len(f[k]) \in Nat
      BY <2>2
    <3>4. QED
      BY <2>1, <2>2, <3>2, <3>3
  <2>5. CASE s[k+1] \notin S
    <3>1. f[k+1] \in Seq(T \cap S) /\ Len(f[k+1]) = Len(f[k]) /\ Len(f[k]) \in Nat
      BY <2>2, <2>3, <2>5
    <3>2. QED
      BY <2>1, <2>2, <3>1
  <2>6. QED
    BY <2>4, <2>5
<1>5. 0..Len(s) \subseteq P
  <2> HIDE DEF P
  <2>1. QED
    BY <1>2, <1>3, <1>4, BoundedInduction
<1>6. QED
  BY <1>1, <1>2, <1>5

\* When the chosen elements come first, they are what is copied.
LEMMA OnlyPrefix ==
  ASSUME NEW T, NEW S, NEW s \in Seq(T), NEW m \in 0..Len(s),
         \A i \in 1..m : s[i] \in S, \A i \in m+1..Len(s) : s[i] \notin S
  PROVE  Len(Only(s, S)) = m /\ \A i \in 1..m : Only(s, S)[i] = s[i]
<1>1. PICK f : Copies(f, s, S, T) /\ Only(s, S) = f[Len(s)]
  BY CopiesExist
<1>2. /\ Len(s) \in Nat /\ f[0] = <<>> /\ f \in [0..Len(s) -> Seq(T)]
      /\ \A k \in 1..Len(s) : f[k] = IF s[k] \in S THEN Append(f[k-1], s[k]) ELSE f[k-1]
  BY <1>1 DEF Copies
<1> DEFINE Size(k) == IF k <= m THEN k ELSE m
           P == {k \in 0..Len(s) : Len(f[k]) = Size(k) /\ \A i \in 1..Size(k) : f[k][i] = s[i]}
<1>3. 0 \in P
  BY <1>2
<1>4. ASSUME NEW k \in 0..Len(s)-1, k \in P PROVE k + 1 \in P
  <2>1. k + 1 \in 1..Len(s) /\ k + 1 \in 0..Len(s) /\ k \in 0..Len(s) /\ (k + 1) - 1 = k
    BY <1>2
  <2>2. f[k] \in Seq(T) /\ Len(f[k]) = Size(k) /\ \A i \in 1..Size(k) : f[k][i] = s[i]
    BY <1>2, <1>4, <2>1
  <2>3. f[k+1] = IF s[k+1] \in S THEN Append(f[k], s[k+1]) ELSE f[k]
    BY <1>2, <2>1
  <2>4. CASE k < m
    <3>1. k + 1 \in 1..m /\ Size(k) = k /\ Size(k + 1) = k + 1
      BY <2>1, <2>4
    <3>2. f[k+1] = Append(f[k], s[k+1])
      BY <2>3, <3>1
    <3>3. /\ Len(f[k+1]) = k + 1 /\ f[k+1][k+1] = s[k+1]
          /\ \A i \in 1..k : f[k+1][i] = f[k][i]
      BY <2>2, <3>1, <3>2
    <3>4. ASSUME NEW i \in 1..k+1 PROVE f[k+1][i] = s[i]
      <4>1. CASE i = k + 1
        BY <3>3, <4>1
      <4>2. CASE i # k + 1
        <5>1. i \in 1..k
          BY <2>1, <4>2
        <5>2. QED
          BY <2>2, <3>1, <3>3, <5>1
      <4>3. QED
        BY <4>1, <4>2
    <3>5. QED
      BY <2>1, <3>1, <3>3, <3>4
  <2>5. CASE k >= m
    <3>1. k + 1 \in m+1..Len(s) /\ Size(k) = m /\ Size(k + 1) = m
      BY <2>1, <2>5
    <3>2. f[k+1] = f[k]
      BY <2>3, <3>1
    <3>3. QED
      BY <2>1, <2>2, <3>1, <3>2
  <2>6. QED
    BY <2>1, <2>4, <2>5
<1>5. 0..Len(s) \subseteq P
  <2> HIDE DEF P
  <2>1. QED
    BY <1>2, <1>3, <1>4, BoundedInduction
<1>6. Len(s) \in P /\ Size(Len(s)) = m
  BY <1>2, <1>5
<1>7. QED
  BY <1>1, <1>6

-------------------------------------------------------------------------------
(***************************************************************************)
(* Lists in slots.                                                        *)
(***************************************************************************)

\* Slots are a sequence of as many.
LEMMA SlotsType ==
  ASSUME NEW T, NEW null, NEW n \in Nat
  PROVE  /\ \A slots \in [1..n -> T \cup {null}] :
              slots \in Seq(T \cup {null}) /\ Len(slots) = n
         /\ \A l \in Seq(T) : InSlots(l, n, null) \in [1..n -> T \cup {null}]
<1>1. ASSUME NEW slots \in [1..n -> T \cup {null}]
      PROVE  slots \in Seq(T \cup {null}) /\ Len(slots) = n
  BY <1>1
<1>2. ASSUME NEW l \in Seq(T), NEW i \in 1..n
      PROVE  (IF i <= Len(l) THEN l[i] ELSE null) \in T \cup {null}
  BY <1>2
<1>3. QED
  BY <1>1, <1>2 DEF InSlots

\* What is not null in slots is a list that fits them.
LEMMA NotNullType ==
  ASSUME NEW T, NEW null, null \notin T, NEW n \in Nat, NEW slots \in [1..n -> T \cup {null}]
  PROVE  NotNull(slots, null) \in Seq(T) /\ Len(NotNull(slots, null)) <= n
<1> DEFINE S == {slots[i] : i \in 1..Len(slots)} \ {null}
<1>1. slots \in Seq(T \cup {null}) /\ Len(slots) = n
  BY SlotsType
<1>2. Only(slots, S) \in Seq((T \cup {null}) \cap S) /\ Len(Only(slots, S)) <= Len(slots)
  <2> HIDE DEF S
  <2>1. QED
    BY <1>1, OnlyType
<1>3. (T \cup {null}) \cap S \subseteq T
  OBVIOUS
<1>4. Only(slots, S) \in Seq(T)
  <2> HIDE DEF S
  <2>1. QED
    BY <1>2, <1>3, SeqMonotonic
<1>5. QED
  BY <1>1, <1>2, <1>4 DEF NotNull

\* A list that is put into slots and read again is the same.
LEMMA ListBack ==
  ASSUME NEW T, NEW null, null \notin T, NEW n \in Nat, NEW l \in Seq(T), Len(l) <= n
  PROVE  NotNull(InSlots(l, n, null), null) = l
<1> DEFINE slots == InSlots(l, n, null)
           S == {slots[i] : i \in 1..Len(slots)} \ {null}
           m == Len(l)
<1>1. slots \in Seq(T \cup {null}) /\ Len(slots) = n /\ m \in 0..n
  <2>1. slots \in [1..n -> T \cup {null}]
    BY SlotsType
  <2>2. m \in 0..n
    OBVIOUS
  <2> HIDE DEF slots
  <2>3. QED
    BY <2>1, <2>2, SlotsType
<1>2. \A i \in 1..n : slots[i] = IF i <= m THEN l[i] ELSE null
  BY DEF InSlots
<1>3. \A i \in 1..m : l[i] \in T
  OBVIOUS
<1> HIDE DEF slots, m
<1>4. \A i \in 1..m : slots[i] = l[i] /\ slots[i] \in S
  BY <1>1, <1>2, <1>3
<1>5. \A i \in m+1..n : slots[i] \notin S
  BY <1>1, <1>2
<1> HIDE DEF S
<1>6. Len(Only(slots, S)) = m /\ \A i \in 1..m : Only(slots, S)[i] = slots[i]
  <2>1. m \in 0..Len(slots) /\ slots \in Seq(T \cup {null})
    BY <1>1
  <2>2. \A i \in 1..m : slots[i] \in S
    BY <1>4
  <2>3. \A i \in m+1..Len(slots) : slots[i] \notin S
    BY <1>1, <1>5
  <2>4. QED
    BY <2>1, <2>2, <2>3, OnlyPrefix
<1>7. Only(slots, S) \in Seq((T \cup {null}) \cap S)
  BY <1>1, OnlyType
<1>8. Only(slots, S) = l
  <2>1. \A i \in 1..m : Only(slots, S)[i] = l[i]
    BY <1>4, <1>6
  <2>2. QED
    BY <1>6, <1>7, <2>1, SeqEqual DEF m
<1>9. QED
  BY <1>8 DEF NotNull, slots, S

\* Slots that are filled from the first are the same when what is not null is put back.
LEMMA SlotsBack ==
  ASSUME NEW T, NEW null, null \notin T, NEW n \in Nat,
         NEW slots \in [1..n -> T \cup {null}], Filled(slots, null)
  PROVE  InSlots(NotNull(slots, null), n, null) = slots
<1> DEFINE S == {slots[i] : i \in 1..Len(slots)} \ {null}
           Ends == {j \in 1..n+1 : j = n + 1 \/ slots[j] = null}
<1>1. slots \in Seq(T \cup {null}) /\ Len(slots) = n
  BY SlotsType
<1>2. PICK j \in Ends : \A k \in Ends : j <= k
  <2>1. Ends \subseteq Nat /\ n + 1 \in Ends
    OBVIOUS
  <2> HIDE DEF Ends
  <2>2. QED
    BY <2>1, LeastNatural
<1> DEFINE m == j - 1
<1>3. m \in 0..n /\ (m < n => slots[m+1] = null)
  BY <1>2
<1>4. ASSUME NEW i \in 1..m PROVE slots[i] # null /\ slots[i] \in S
  <2>1. i \in 1..n /\ i \in 1..n+1 /\ ~(j <= i)
    BY <1>2
  <2>2. slots[i] # null
    BY <1>2, <2>1
  <2>3. QED
    BY <1>1, <2>1, <2>2
<1>5. \A i \in m+1..n : slots[i] = null
  <2> DEFINE P == {k \in Nat : m + 1 + k <= n => slots[m + 1 + k] = null}
  <2> HIDE DEF m
  <2>1. 0 \in P
    BY <1>3
  <2>2. ASSUME NEW k \in Nat, k \in P PROVE k + 1 \in P
    <3>1. SUFFICES ASSUME m + 1 + (k + 1) <= n PROVE slots[m + 1 + (k + 1)] = null
      OBVIOUS
    <3>2. m + 1 + k <= n /\ m + 1 + (k + 1) \in 2..n /\ (m + 1 + (k + 1)) - 1 = m + 1 + k
      BY <1>3, <3>1
    <3>3. slots[m + 1 + k] = null
      BY <2>2, <3>2
    <3>4. QED
      BY <1>1, <3>2, <3>3 DEF Filled
  <2>3. Nat \subseteq P
    <3> HIDE DEF P
    <3>1. QED
      BY <2>1, <2>2, SetInduction
  <2>4. ASSUME NEW i \in m+1..n PROVE slots[i] = null
    <3>1. i - m - 1 \in Nat /\ m + 1 + (i - m - 1) = i
      BY <1>3
    <3>2. i - m - 1 \in P
      BY <2>3, <3>1
    <3>3. QED
      BY <3>1, <3>2
  <2>5. QED
    BY <2>4
<1> HIDE DEF m
<1>6. \A i \in m+1..n : slots[i] \notin S
  BY <1>5
<1> HIDE DEF S
<1>7. Len(Only(slots, S)) = m /\ \A i \in 1..m : Only(slots, S)[i] = slots[i]
  BY <1>1, <1>3, <1>4, <1>6, OnlyPrefix
<1>8. NotNull(slots, null) = Only(slots, S)
  BY DEF NotNull, S
<1>9. \A i \in 1..n : (IF i <= m THEN Only(slots, S)[i] ELSE null) = slots[i]
  BY <1>3, <1>5, <1>7
<1>10. QED
  BY <1>7, <1>8, <1>9 DEF InSlots

\* A list without null entries fills slots from the first.
LEMMA SlotsFilled ==
  ASSUME NEW T, NEW null, null \notin T, NEW n \in Nat, NEW l \in Seq(T)
  PROVE  Filled(InSlots(l, n, null), null)
<1> DEFINE slots == InSlots(l, n, null)
<1>1. Len(slots) = n
  <2>1. slots \in [1..n -> T \cup {null}]
    BY SlotsType
  <2> HIDE DEF slots
  <2>2. QED
    BY <2>1, SlotsType
<1>2. \A i \in 1..n : slots[i] = IF i <= Len(l) THEN l[i] ELSE null
  BY DEF InSlots
<1>3. Len(l) \in Nat /\ \A i \in 1..Len(l) : l[i] \in T
  OBVIOUS
<1> HIDE DEF slots
<1>4. ASSUME NEW i \in 2..n, slots[i-1] = null PROVE slots[i] = null
  <2>1. i \in 1..n /\ i - 1 \in 1..n
    OBVIOUS
  <2>2. ~(i - 1 <= Len(l))
    BY <1>2, <1>3, <1>4, <2>1
  <2>3. ~(i <= Len(l))
    BY <1>3, <2>2
  <2>4. QED
    BY <1>2, <2>1, <2>3
<1>5. QED
  BY <1>1, <1>4 DEF Filled, slots

\* UpTo(): nothing is null before the first null entry.
LEMMA UpToType ==
  ASSUME NEW T, NEW null, null \notin T, NEW l \in Seq(T \cup {null})
  PROVE  UpTo(l, null) \in Seq(T)
<1> DEFINE Ends == {i \in 1..Len(l) : l[i] = null} \cup {Len(l) + 1}
           j == Min(Ends)
<1>1. Len(l) \in Nat /\ \A i \in 1..Len(l) : l[i] \in T \cup {null}
  OBVIOUS
<1>2. Ends \subseteq Nat /\ Ends # {} /\ Len(l) + 1 \in Ends
  BY <1>1
<1>3. j \in Ends /\ \A i \in Ends : j <= i
  <2> HIDE DEF Ends
  <2>1. QED
    BY <1>2, MinNatural
<1> HIDE DEF j
<1>4. j - 1 \in 0..Len(l)
  BY <1>1, <1>3
<1>5. ASSUME NEW i \in 1..j-1 PROVE l[i] \in T
  <2>1. i \in 1..Len(l) /\ ~(j <= i)
    BY <1>1, <1>4, <1>3
  <2>2. l[i] # null
    BY <1>3, <2>1
  <2>3. QED
    BY <1>1, <2>1, <2>2
<1>6. SubSeq(l, 1, j - 1) \in Seq(T)
  <2>1. /\ SubSeq(l, 1, j - 1) \in Seq(T \cup {null})
        /\ Len(SubSeq(l, 1, j - 1)) = j - 1
        /\ \A i \in 1..j-1 : SubSeq(l, 1, j - 1)[i] = l[i]
    BY <1>1, <1>4
  <2> DEFINE p == SubSeq(l, 1, j - 1)
  <2> HIDE DEF p
  <2>2. p \in Seq(T \cup {null}) /\ Len(p) = j - 1 /\ \A i \in 1..j-1 : p[i] \in T
    BY <1>5, <2>1 DEF p
  <2>3. p \in [1..j-1 -> T]
    BY <2>2
  <2>4. p \in Seq(T)
    BY <1>4, <2>3
  <2>5. QED
    BY <2>4 DEF p
<1>7. QED
  BY <1>6 DEF UpTo, j

-------------------------------------------------------------------------------
(***************************************************************************)
(* What a save and a load make of each part of a configuration.           *)
(***************************************************************************)

\* Every bit of a mask is in one of the runs that are written.
LEMMA InARun ==
  ASSUME NEW mask \in SUBSET (0..FanSlots-1), NEW x \in mask
  PROVE  \E r \in MaskJson(mask) : x \in r[1]-1..r[2]-1
<1>0. FanSlots \in Nat /\ x \in 0..FanSlots-1 /\ mask \subseteq 0..FanSlots-1
  BY CountAssumption
<1> DEFINE Starts == {a \in 1..x+1 : \A b \in a..x+1 : b - 1 \in mask}
           Beyond == {n \in Nat : x + 1 + n \notin mask}
<1>1. PICK a \in Starts : \A k \in Starts : a <= k
  <2>1. Starts \subseteq Nat /\ x + 1 \in Starts
    BY <1>0
  <2> HIDE DEF Starts
  <2>2. QED
    BY <2>1, LeastNatural
<1>2. a - 2 \notin mask
  <2>1. SUFFICES ASSUME a - 2 \in mask PROVE FALSE
    OBVIOUS
  <2>2. a - 1 \in 1..x+1 /\ a \in 1..x+1
    BY <1>0, <1>1, <2>1
  <2>3. ASSUME NEW b \in a-1..x+1 PROVE b - 1 \in mask
    <3>1. CASE b = a - 1
      BY <2>1, <2>2, <3>1
    <3>2. CASE b # a - 1
      BY <1>1, <2>2, <3>2
    <3>3. QED
      BY <3>1, <3>2
  <2>4. a - 1 \in Starts
    BY <2>2, <2>3
  <2>5. QED
    BY <1>1, <2>2, <2>4
<1>3. PICK n \in Beyond : \A k \in Beyond : n <= k
  <2>1. Beyond \subseteq Nat /\ FanSlots - x - 1 \in Beyond
    BY <1>0
  <2> HIDE DEF Beyond
  <2>2. QED
    BY <2>1, LeastNatural
<1> DEFINE z == x + 1 + n
<1>4. n \in Nat /\ z \in Nat /\ z \notin mask /\ x + 1 <= z
  BY <1>0, <1>3
<1>5. ASSUME NEW b \in a..z PROVE b - 1 \in mask
  <2>1. CASE b <= x + 1
    <3>1. b \in a..x+1
      BY <1>0, <1>1, <2>1
    <3>2. QED
      BY <1>1, <3>1
  <2>2. CASE b > x + 1
    <3>1. b - x - 2 \in Nat /\ ~(n <= b - x - 2) /\ x + 1 + (b - x - 2) = b - 1
      BY <1>0, <1>1, <1>4, <2>2
    <3>2. b - x - 2 \notin Beyond
      BY <1>3, <3>1
    <3>3. QED
      BY <3>1, <3>2
  <2>3. QED
    BY <1>0, <1>1, <2>1, <2>2
<1>6. z - 1 \in mask /\ a \in 1..FanSlots /\ z \in 1..FanSlots /\ a <= z
  <2>1. a \in 1..x+1
    BY <1>1
  <2> HIDE DEF z
  <2>2. z \in a..z
    BY <1>0, <1>4, <2>1
  <2>3. z - 1 \in mask
    BY <1>5, <2>2
  <2>4. QED
    BY <1>0, <1>4, <2>1, <2>3
<1> HIDE DEF z
<1>7. <<a, z>> \in MaskJson(mask)
  BY <1>2, <1>4, <1>5, <1>6 DEF MaskJson
<1>8. x \in a-1..z-1
  BY <1>0, <1>1, <1>4
<1>9. QED
  BY <1>7, <1>8

\* A mask that is written is read back.
LEMMA MaskBack ==
  ASSUME NEW mask \in SUBSET (0..FanSlots-1)
  PROVE  MaskLoad(MaskJson(mask)) = mask
<1>0. FanSlots \in Nat /\ mask \subseteq 0..FanSlots-1
  BY CountAssumption
<1>1. \A r \in MaskJson(mask) : /\ r[1] \in 1..FanSlots /\ r[2] \in 1..FanSlots
                                /\ \A b \in r[1]..r[2] : b - 1 \in mask
  BY DEF MaskJson
<1>2. ASSUME NEW x \in MaskLoad(MaskJson(mask)) PROVE x \in mask
  <2>1. PICK r \in MaskJson(mask) : x \in r[1]-1..r[2]-1
    BY <1>1 DEF MaskLoad
  <2>2. x + 1 \in r[1]..r[2] /\ x = (x + 1) - 1
    BY <1>1, <2>1
  <2>3. QED
    BY <1>1, <2>2
<1>3. ASSUME NEW x \in mask PROVE x \in MaskLoad(MaskJson(mask))
  <2>1. PICK r \in MaskJson(mask) : x \in r[1]-1..r[2]-1
    BY InARun
  <2>2. r[2] <= FanSlots /\ x \in 0..FanSlots-1
    BY <1>0, <1>1
  <2> DEFINE Bits(q) == IF q[2] <= FanSlots THEN q[1]-1 .. q[2]-1 ELSE {q[1]-1}
           All == UNION {Bits(q) : q \in MaskJson(mask)}
  <2>3. x \in Bits(r)
    BY <2>1, <2>2
  <2>4. MaskLoad(MaskJson(mask)) = All \cap 0..FanSlots-1
    BY DEF MaskLoad
  <2> HIDE DEF Bits
  <2>5. Bits(r) \in {Bits(q) : q \in MaskJson(mask)}
    OBVIOUS
  <2>6. x \in All
    BY <2>3, <2>5, Zenon
  <2> HIDE DEF All
  <2>7. QED
    BY <2>2, <2>4, <2>6
<1>4. QED
  BY <1>2, <1>3

\* What j, the JSON text of c, has under which key.
JsonOf(j, c) ==
  /\ DOMAIN j = Written(c)
  /\ {"led_mode", "fans", "mbfans", "sensors", "vsensors"} \subseteq Written(c)
  /\ "syslog_active" \notin Written(c) /\ "ssh_pub_keys" \notin Written(c)
  /\ "wifi_mode" \in Written(c) <=> c.wifi_mode # 0
  /\ "mqtt_tls" \in Written(c) <=> c.mqtt_tls # TRUE
  /\ "ntp_active" \in Written(c) <=> ~c.syslog_active \/ ~c.ntp_active
  /\ "snmp_community" \in Written(c) <=> c.snmp_community # ""
  /\ "http_fan_mask" \in Written(c) <=> c.http_fan_mask \notin {0..FanCount-1, {}}
  /\ "dns_servers" \in Written(c) <=> ServerSlots > 0 /\ c.dns_servers[1] # "any"
  /\ "ssh_acls" \in Written(c) <=> AclsJson(c.ssh_acls) # <<>>
  /\ "ssh_pubkeys" \in Written(c) <=> KeysJson(c.ssh_pub_keys) # <<>>
  /\ j.led_mode = c.led_mode
  /\ j.fans = FanJson(c.fan) /\ j.mbfans = MbfanJson(c.mbfan)
  /\ j.sensors = SensorJson(c.sensor) /\ j.vsensors = VsensorJson(c.vsensor)
  /\ \A k \in {"wifi_mode", "mqtt_tls", "snmp_community"} : k \in Written(c) => j[k] = c[k]
  /\ "ntp_active" \in Written(c) => j.ntp_active = (c.syslog_active /\ c.ntp_active)
  /\ "http_fan_mask" \in Written(c) => j.http_fan_mask = MaskJson(c.http_fan_mask)
  /\ "dns_servers" \in Written(c) => j.dns_servers = ServersJson(c.dns_servers)
  /\ "ssh_acls" \in Written(c) => j.ssh_acls = AclsJson(c.ssh_acls)
  /\ "ssh_pubkeys" \in Written(c) => j.ssh_pubkeys = KeysJson(c.ssh_pub_keys)

LEMMA JsonParts ==
  ASSUME NEW c \in Configs
  PROVE  JsonOf(Json(c), c)
<1> DEFINE j == Json(c)
<1>1. DOMAIN j = Written(c)
  BY DEF Json
<1>2. /\ Cleared.wifi_mode = 0 /\ Cleared.mqtt_tls = TRUE
      /\ Cleared.http_fan_mask = 0..FanCount-1
  BY DEF Cleared
<1>3. Cleared["wifi_mode"] = 0 /\ Cleared["mqtt_tls"] = TRUE
  BY DEF Cleared
<1>4. /\ {"led_mode", "fans", "mbfans", "sensors", "vsensors"} \subseteq Written(c)
      /\ "syslog_active" \notin Written(c) /\ "ssh_pub_keys" \notin Written(c)
      /\ "wifi_mode" \in Written(c) <=> c.wifi_mode # 0
      /\ "mqtt_tls" \in Written(c) <=> c.mqtt_tls # TRUE
      /\ "ntp_active" \in Written(c) <=> ~c.syslog_active \/ ~c.ntp_active
      /\ "snmp_community" \in Written(c) <=> c.snmp_community # ""
      /\ "http_fan_mask" \in Written(c) <=> c.http_fan_mask \notin {0..FanCount-1, {}}
      /\ "dns_servers" \in Written(c) <=> ServerSlots > 0 /\ c.dns_servers[1] # "any"
      /\ "ssh_acls" \in Written(c) <=> AclsJson(c.ssh_acls) # <<>>
      /\ "ssh_pubkeys" \in Written(c) <=> KeysJson(c.ssh_pub_keys) # <<>>
  BY <1>2, <1>3 DEF Written
<1>5. /\ j.led_mode = c.led_mode
      /\ j.fans = FanJson(c.fan) /\ j.mbfans = MbfanJson(c.mbfan)
      /\ j.sensors = SensorJson(c.sensor) /\ j.vsensors = VsensorJson(c.vsensor)
      /\ \A k \in {"wifi_mode", "mqtt_tls", "snmp_community"} : k \in Written(c) => j[k] = c[k]
      /\ "ntp_active" \in Written(c) => j.ntp_active = (c.syslog_active /\ c.ntp_active)
      /\ "http_fan_mask" \in Written(c) => j.http_fan_mask = MaskJson(c.http_fan_mask)
      /\ "dns_servers" \in Written(c) => j.dns_servers = ServersJson(c.dns_servers)
      /\ "ssh_acls" \in Written(c) => j.ssh_acls = AclsJson(c.ssh_acls)
      /\ "ssh_pubkeys" \in Written(c) => j.ssh_pubkeys = KeysJson(c.ssh_pub_keys)
  BY <1>4 DEF Json
<1> HIDE DEF j
<1>6. QED
  BY <1>1, <1>4, <1>5, Zenon DEF JsonOf, j

\* What l, the configuration that is made of the text j, has from which key.
LoadOf(l, j) ==
  /\ DOMAIN l = DOMAIN Cleared /\ l = [k \in DOMAIN Cleared |-> l[k]]
  /\ \A k \in {"led_mode", "wifi_mode", "mqtt_tls", "snmp_community", "syslog_active",
               "ntp_active"} : l[k] = IF k \in DOMAIN j THEN j[k] ELSE Cleared[k]
  /\ l.http_fan_mask = IF "http_fan_mask" \in DOMAIN j THEN MaskLoad(j.http_fan_mask)
                       ELSE Cleared.http_fan_mask
  /\ l.dns_servers = IF "dns_servers" \in DOMAIN j THEN ServersLoad(j.dns_servers)
                     ELSE Cleared.dns_servers
  /\ l.ssh_acls = IF "ssh_acls" \in DOMAIN j THEN AclsLoad(j.ssh_acls) ELSE Cleared.ssh_acls
  /\ l.ssh_pub_keys = IF "ssh_pubkeys" \in DOMAIN j THEN KeysLoad(j.ssh_pubkeys)
                      ELSE IF "ssh_pub_keys" \in DOMAIN j THEN j.ssh_pub_keys
                      ELSE Cleared.ssh_pub_keys
  /\ "fans" \in DOMAIN j => l.fan = FanLoad(j.fans)
  /\ "mbfans" \in DOMAIN j => l.mbfan = MbfanLoad(j.mbfans)
  /\ "sensors" \in DOMAIN j => l.sensor = SensorLoad(j.sensors)
  /\ "vsensors" \in DOMAIN j => l.vsensor = VsensorLoad(j.vsensors)

LEMMA LoadParts ==
  ASSUME NEW j
  PROVE  LoadOf(Load(j), j)
<1> DEFINE K == {"led_mode", "wifi_mode", "mqtt_tls", "snmp_community", "http_fan_mask",
                 "syslog_active", "ntp_active", "dns_servers", "ssh_acls", "ssh_pub_keys",
                 "fan", "mbfan", "sensor", "vsensor"}
<1>1. DOMAIN Cleared = K
  BY DEF Cleared
<1>2. QED
  BY <1>1 DEF Load, Field, LoadOf

\* A fan comes back as it was.
LEMMA FanBack ==
  ASSUME NEW f \in FanCfg
  PROVE  FanLoad(FanJson(f)) = f
<1>1. \A g \in Filters : g \in STRING \X STRING
  BY FilterAssumption
<1>2. ASSUME NEW g \in Filters \cup {NoFilter} PROVE FilterLoad(FilterJson(g)) = g
  <2>2. CASE g = NoFilter
    BY <2>2 DEF FilterLoad, FilterJson, Field, NoFilter
  <2>3. CASE g # NoFilter
    <3>1. g = <<g[1], g[2]>>
      BY <1>1, <2>3
    <3>2. QED
      BY <3>1, <2>3 DEF FilterLoad, FilterJson, Field
  <2>4. QED
    BY <2>2, <2>3
<1>3. f = [s_type |-> f.s_type, s_id |-> f.s_id, map |-> f.map, filter |-> f.filter]
      /\ f.filter \in Filters \cup {NoFilter}
  BY DEF FanCfg
<1>4. FanLoad(FanJson(f)) = [s_type |-> f.s_type, s_id |-> f.s_id, map |-> f.map,
                             filter |-> FilterLoad(FilterJson(f.filter))]
  BY DEF FanLoad, FanJson, Field
<1>5. QED
  BY <1>2, <1>3, <1>4

\* A connector comes back with those of its sources that are fans of the board.
LEMMA MbfanBack ==
  ASSUME NEW m \in MbfanCfg
  PROVE  MbfanLoad(MbfanJson(m)) =
           [m EXCEPT !.sources = IF m.s_type \in Many THEN m.sources \cap 0..FanCount-1 ELSE {}]
<1> DEFINE j == MbfanJson(m)
           S == m.sources \cap 0..FanCount-1
<1>1. /\ j.source_type = m.s_type /\ j.source_id = m.s_id
      /\ "rpm_mode" \in DOMAIN j /\ j.rpm_mode = m.rpm_mode
      /\ "lra_treshold" \in DOMAIN j /\ j.lra_treshold = m.lra_treshold
      /\ "sources" \in DOMAIN j <=> m.s_type \in Many
      /\ "sources" \in DOMAIN j => j.sources = {s + 1 : s \in S}
      /\ "lra_invert" \in DOMAIN j <=> m.lra_invert
      /\ "lra_invert" \in DOMAIN j => j.lra_invert = m.lra_invert
  BY DEF MbfanJson
<1>2. m = [s_type |-> m.s_type, s_id |-> m.s_id, sources |-> m.sources, rpm_mode |-> m.rpm_mode,
           lra_treshold |-> m.lra_treshold, lra_invert |-> m.lra_invert]
  BY DEF MbfanCfg
<1>7. m.lra_invert \in BOOLEAN
  BY DEF MbfanCfg
<1> HIDE DEF j
<1>3. {s - 1 : s \in {s + 1 : s \in S}} \cap 0..FanSlots-1 = S
  <2>1. S \subseteq Int /\ S \subseteq 0..FanSlots-1
    BY CountAssumption
  <2> HIDE DEF S
  <2>2. \A s \in S : (s + 1) - 1 = s
    BY <2>1
  <2>3. QED
    BY <2>1, <2>2
<1>4. {s - 1 : s \in Field(j, "sources", {})} \cap 0..FanSlots-1 = IF m.s_type \in Many THEN S ELSE {}
  BY <1>1, <1>3 DEF Field
<1>5. MbfanLoad(j) = [s_type |-> m.s_type, s_id |-> m.s_id, rpm_mode |-> m.rpm_mode,
                      lra_treshold |-> m.lra_treshold, lra_invert |-> m.lra_invert,
                      sources |-> IF m.s_type \in Many THEN S ELSE {}]
  <2>1. Field(j, "lra_invert", FALSE) = m.lra_invert
    BY <1>1, <1>7 DEF Field
  <2>2. Field(j, "rpm_mode", "tacho") = m.rpm_mode /\ Field(j, "lra_treshold", 200) = m.lra_treshold
    BY <1>1 DEF Field
  <2>3. QED
    BY <1>1, <1>4, <2>1, <2>2, Zenon DEF MbfanLoad
<1>6. QED
  BY <1>2, <1>5 DEF j

\* An analog sensor comes back without what is not needed for its type.
LEMMA SensorBack ==
  ASSUME NEW s \in SensorCfg
  PROVE  SensorLoad(SensorJson(s)) =
           [s EXCEPT !.beta = IF SensorType = "external" THEN s.beta ELSE 0]
<1>1. s = [type |-> SensorType, offset |-> s.offset, beta |-> s.beta]
  BY DEF SensorCfg
<1> DEFINE j == SensorJson(s)
<1>2. /\ j.sensor_type = SensorType
      /\ "temp_offset" \in DOMAIN j /\ j.temp_offset = s.offset
      /\ SensorType = "external" => "beta" \in DOMAIN j /\ j.beta = s.beta
  BY <1>1 DEF SensorJson
<1> HIDE DEF j
<1>3. SensorLoad(j) = [type |-> SensorType, offset |-> s.offset,
                       beta |-> IF SensorType = "external" THEN s.beta ELSE 0]
  BY <1>2 DEF SensorLoad, Field
<1>4. QED
  BY <1>1, <1>3 DEF j

\* A virtual sensor comes back with what belongs to its mode.
LEMMA VsensorBack ==
  ASSUME NEW v \in VsensorCfg
  PROVE  LET l == VsensorLoad(VsensorJson(v)) IN
         /\ v.mode = "manual" => l = [Cleared.vsensor EXCEPT !.mode = "manual", !.timeout = v.timeout]
         /\ v.mode = "avg" => l = [Cleared.vsensor EXCEPT !.mode = "avg",
                                                         !.sensors = KnownSensors(v.sensors)]
         /\ v.mode = "i2c" => l = [Cleared.vsensor EXCEPT !.mode = "i2c", !.i2c = v.i2c]
         /\ v.mode = "onewire" => l = [Cleared.vsensor EXCEPT !.mode = "onewire", !.onewire = v.onewire]
<1>1. Cleared.vsensor = [mode |-> "manual", timeout |-> 60, i2c |-> "", onewire |-> "", sensors |-> <<>>]
  BY DEF Cleared
<1>2. v.mode \in {"manual", "i2c", "onewire", "avg"}
  BY DEF VsensorCfg
<1>3. CASE v.mode = "manual"
  BY <1>1, <1>3 DEF VsensorJson, VsensorLoad, Field
<1>4. CASE v.mode = "avg"
  BY <1>1, <1>4 DEF VsensorJson, VsensorLoad, Field
<1>5. CASE v.mode = "i2c"
  BY <1>1, <1>5 DEF VsensorJson, VsensorLoad, Field
<1>6. CASE v.mode = "onewire"
  BY <1>1, <1>6 DEF VsensorJson, VsensorLoad, Field
<1>7. QED
  BY <1>2, <1>3, <1>4, <1>5, <1>6

\* The types of the parts.
LEMMA ConfigTypes ==
  ASSUME NEW c \in Configs
  PROVE  /\ c.led_mode \in 0..2 /\ c.wifi_mode \in 0..1 /\ c.mqtt_tls \in BOOLEAN
         /\ c.snmp_community \in Communities /\ c.http_fan_mask \in SUBSET (0..FanSlots-1)
         /\ c.syslog_active \in BOOLEAN /\ c.ntp_active \in BOOLEAN
         /\ c.dns_servers \in [1..ServerSlots -> Servers \cup {"any"}]
         /\ c.ssh_acls \in [1..AclSlots -> (1..32) \cup {0}]
         /\ c.ssh_pub_keys \in [1..KeySlots -> Keys \cup {""}]
         /\ c.fan \in FanCfg /\ c.mbfan \in MbfanCfg /\ c.sensor \in SensorCfg
         /\ c.vsensor \in VsensorCfg
<1>1. c.ssh_acls \in [1..AclSlots -> 0..32]
  BY DEF Configs
<1>2. c.ssh_acls \in [1..AclSlots -> (1..32) \cup {0}]
  BY <1>1
<1>3. QED
  BY <1>2 DEF Configs

\* Lists in slots that start with a free one are empty.
LEMMA EmptySlots ==
  ASSUME NEW T, NEW null, null \notin T, NEW n \in Nat, NEW slots \in [1..n -> T \cup {null}],
         Filled(slots, null), n = 0 \/ slots[1] = null
  PROVE  slots = InSlots(<<>>, n, null)
<1>1. NotNull(slots, null) \in Seq(T) /\ InSlots(NotNull(slots, null), n, null) = slots
  BY NotNullType, SlotsBack
<1> DEFINE l == NotNull(slots, null)
<1> HIDE DEF l
<1>2. l = <<>> \/ n = 0
  <2>1. SUFFICES ASSUME n # 0, l # <<>> PROVE FALSE
    OBVIOUS
  <2>2. 1 \in 1..n /\ 1 <= Len(l) /\ l[1] \in T
    BY <1>1, <2>1 DEF l
  <2>3. slots[1] = l[1]
    BY <1>1, <2>2 DEF InSlots, l
  <2>4. QED
    BY <2>1, <2>2, <2>3
<1>3. CASE l = <<>>
  BY <1>1, <1>3 DEF l
<1>4. CASE n = 0
  BY <1>1, <1>4 DEF InSlots
<1>5. QED
  BY <1>2, <1>3, <1>4

\* What a save and a load make of a configuration.
LEMMA Reloaded ==
  ASSUME NEW c \in Stored
  PROVE  LET l == Load(Json(c)) IN
         /\ DOMAIN l = DOMAIN Cleared /\ l = [k \in DOMAIN Cleared |-> l[k]]
         /\ l.led_mode = c.led_mode /\ l.wifi_mode = c.wifi_mode /\ l.mqtt_tls = c.mqtt_tls
         /\ l.snmp_community = IF c.snmp_community = "" THEN "public" ELSE c.snmp_community
         /\ l.http_fan_mask = IF c.http_fan_mask = {} THEN 0..FanCount-1 ELSE c.http_fan_mask
         /\ l.syslog_active = TRUE /\ l.ntp_active = (c.syslog_active /\ c.ntp_active)
         /\ l.dns_servers = c.dns_servers /\ l.ssh_acls = c.ssh_acls
         /\ l.ssh_pub_keys = KeysLoad(KeysJson(c.ssh_pub_keys))
         /\ l.fan = c.fan
         /\ l.mbfan = [c.mbfan EXCEPT !.sources = IF c.mbfan.s_type \in Many
                                                THEN c.mbfan.sources \cap 0..FanCount-1 ELSE {}]
         /\ l.sensor = [c.sensor EXCEPT !.beta = IF SensorType = "external" THEN c.sensor.beta ELSE 0]
         /\ l.vsensor = VsensorLoad(VsensorJson(c.vsensor))
<1> DEFINE j == Json(c)
           l == Load(j)
<1>1. c \in Configs /\ Filled(c.dns_servers, "any") /\ Filled(c.ssh_acls, 0)
  BY DEF Stored
<1>2. /\ Cleared["led_mode"] = 0 /\ Cleared["wifi_mode"] = 0 /\ Cleared["mqtt_tls"] = TRUE
      /\ Cleared["snmp_community"] = "public" /\ Cleared["syslog_active"] = TRUE
      /\ Cleared["ntp_active"] = TRUE /\ Cleared.http_fan_mask = 0..FanCount-1
      /\ Cleared.dns_servers = InSlots(<<>>, ServerSlots, "any")
      /\ Cleared.ssh_acls = InSlots(<<>>, AclSlots, 0)
      /\ Cleared.ssh_pub_keys = InSlots(<<>>, KeySlots, "")
  BY DEF Cleared
<1>15. LoadOf(l, j) /\ JsonOf(j, c)
  BY <1>1, LoadParts, JsonParts
<1> HIDE DEF l, j
<1> USE <1>15
<1>3. DOMAIN l = DOMAIN Cleared /\ l = [k \in DOMAIN Cleared |-> l[k]]
  BY DEF LoadOf
<1>4. l.led_mode = c.led_mode /\ l.wifi_mode = c.wifi_mode /\ l.mqtt_tls = c.mqtt_tls
  <2>1. c.wifi_mode \in 0..1 /\ c.mqtt_tls \in BOOLEAN
    BY <1>1, ConfigTypes
  <2>2. l["led_mode"] = c.led_mode
    BY DEF LoadOf, JsonOf
  <2>3. l["wifi_mode"] = c.wifi_mode
    BY <1>2, <2>1 DEF LoadOf, JsonOf
  <2>4. l["mqtt_tls"] = c.mqtt_tls
    BY <1>2, <2>1 DEF LoadOf, JsonOf
  <2>5. QED
    BY <2>2, <2>3, <2>4
<1>5. l.snmp_community = IF c.snmp_community = "" THEN "public" ELSE c.snmp_community
  <2>1. l["snmp_community"] = IF "snmp_community" \in Written(c) THEN c["snmp_community"] ELSE "public"
    BY <1>2 DEF LoadOf, JsonOf
  <2>2. QED
    BY <2>1 DEF JsonOf
<1>6. l.http_fan_mask = IF c.http_fan_mask = {} THEN 0..FanCount-1 ELSE c.http_fan_mask
  <2>1. c.http_fan_mask \in SUBSET (0..FanSlots-1)
    BY <1>1, ConfigTypes
  <2>2. MaskLoad(MaskJson(c.http_fan_mask)) = c.http_fan_mask
    BY <2>1, MaskBack
  <2>3. QED
    BY <1>2, <2>2 DEF LoadOf, JsonOf
<1>7. l.syslog_active = TRUE
  <2>1. l["syslog_active"] = TRUE
    BY <1>2 DEF LoadOf, JsonOf
  <2>2. QED
    BY <2>1
<1>8. l.ntp_active = (c.syslog_active /\ c.ntp_active)
  <2>1. c.syslog_active \in BOOLEAN /\ c.ntp_active \in BOOLEAN
    BY <1>1, ConfigTypes
  <2>2. l["ntp_active"] = IF "ntp_active" \in Written(c) THEN j["ntp_active"] ELSE TRUE
    BY <1>2 DEF LoadOf, JsonOf
  <2>3. "ntp_active" \in Written(c) => j.ntp_active = (c.syslog_active /\ c.ntp_active)
    BY DEF JsonOf
  <2>4. "ntp_active" \in Written(c) <=> ~c.syslog_active \/ ~c.ntp_active
    BY DEF JsonOf
  <2>5. QED
    BY <2>1, <2>2, <2>3, <2>4
<1>9. l.dns_servers = c.dns_servers
  <2>1. ServerSlots \in Nat /\ "any" \notin Servers
    BY CountAssumption, DataAssumption
  <2>2. c.dns_servers \in [1..ServerSlots -> Servers \cup {"any"}]
    BY <1>1, ConfigTypes
  <2>3. CASE "dns_servers" \in Written(c)
    <3>1. l.dns_servers = ServersLoad(ServersJson(c.dns_servers))
      BY <2>3 DEF LoadOf, JsonOf
    <3>2. QED
      BY <1>1, <2>1, <2>2, <3>1, SlotsBack DEF ServersLoad, ServersJson
  <2>4. CASE "dns_servers" \notin Written(c)
    <3>1. l.dns_servers = InSlots(<<>>, ServerSlots, "any")
      BY <1>2, <2>4 DEF LoadOf, JsonOf
    <3>2. ~(ServerSlots > 0) \/ c.dns_servers[1] = "any"
      BY <2>4 DEF JsonOf
    <3>4. ServerSlots = 0 \/ c.dns_servers[1] = "any"
      BY <2>1, <3>2
    <3>3. QED
      BY <1>1, <2>1, <2>2, <3>1, <3>4, EmptySlots
  <2>5. QED
    BY <2>3, <2>4
<1>10. l.ssh_acls = c.ssh_acls
  <2>1. AclSlots \in Nat /\ 0 \notin 1..32
    BY CountAssumption
  <2>2. c.ssh_acls \in [1..AclSlots -> (1..32) \cup {0}]
    BY <1>1, ConfigTypes
  <2>3. InSlots(AclsJson(c.ssh_acls), AclSlots, 0) = c.ssh_acls
    BY <1>1, <2>1, <2>2, SlotsBack DEF AclsJson
  <2>4. CASE "ssh_acls" \in Written(c)
    <3>1. l.ssh_acls = AclsLoad(AclsJson(c.ssh_acls))
      BY <2>4 DEF LoadOf, JsonOf
    <3>2. QED
      BY <2>3, <3>1 DEF AclsLoad
  <2>5. CASE "ssh_acls" \notin Written(c)
    <3>1. l.ssh_acls = InSlots(<<>>, AclSlots, 0)
      BY <1>2, <2>5 DEF LoadOf, JsonOf
    <3>2. AclsJson(c.ssh_acls) = <<>>
      BY <2>5 DEF JsonOf
    <3>3. QED
      BY <2>3, <3>1, <3>2
  <2>6. QED
    BY <2>4, <2>5
<1>11. l.ssh_pub_keys = KeysLoad(KeysJson(c.ssh_pub_keys))
  <2>1. CASE "ssh_pubkeys" \in Written(c)
    BY <2>1 DEF LoadOf, JsonOf
  <2>2. CASE "ssh_pubkeys" \notin Written(c)
    <3>1. KeysJson(c.ssh_pub_keys) = <<>>
      BY <2>2 DEF JsonOf
    <3>2. l.ssh_pub_keys = InSlots(<<>>, KeySlots, "")
      BY <1>2, <2>2 DEF LoadOf, JsonOf
    <3>3. QED
      BY <3>1, <3>2 DEF KeysLoad
  <2>3. QED
    BY <2>1, <2>2
<1>12. l.fan = FanLoad(FanJson(c.fan)) /\ l.mbfan = MbfanLoad(MbfanJson(c.mbfan))
       /\ l.sensor = SensorLoad(SensorJson(c.sensor))
       /\ l.vsensor = VsensorLoad(VsensorJson(c.vsensor))
  BY DEF LoadOf, JsonOf
<1>13. c.fan \in FanCfg /\ c.mbfan \in MbfanCfg /\ c.sensor \in SensorCfg
  BY <1>1, ConfigTypes
<1>14. QED
  BY <1>3, <1>4, <1>5, <1>6, <1>7, <1>8, <1>9, <1>10, <1>11, <1>12, <1>13,
     FanBack, MbfanBack, SensorBack DEF l, j

\* The sources that are read of a virtual sensor: real sensors, and of those with which a
\* command leaves it all.
LEMMA KnownType ==
  ASSUME NEW l \in Seq(Sources)
  PROVE  /\ KnownSensors(l) \in Seq(1..SensorCount) /\ Len(KnownSensors(l)) <= SensorCount
         /\ Len(l) <= SensorCount => KnownSensors(l) = Only(l, 1..SensorCount)
<1> DEFINE real == Only(l, 1..SensorCount)
           m == Min({Len(real), SensorCount})
<1>1. SensorCount \in 1..100
  BY CountAssumption
<1>2. real \in Seq(Sources \cap (1..SensorCount)) /\ Len(real) <= Len(l)
  BY OnlyType
<1>3. Sources \cap (1..SensorCount) \subseteq 1..SensorCount
  OBVIOUS
<1>4. KnownSensors(l) = SubSeq(real, 1, m)
  BY DEF KnownSensors
<1> HIDE DEF real
<1>5. real \in Seq(1..SensorCount) /\ Len(real) \in Nat
  <2>1. real \in Seq(1..SensorCount)
    BY <1>2, <1>3, SeqMonotonic
  <2>2. QED
    BY <2>1
<1>6. m \in {Len(real), SensorCount} /\ m <= Len(real) /\ m <= SensorCount
  <2>1. {Len(real), SensorCount} \subseteq Nat /\ {Len(real), SensorCount} # {}
    BY <1>1, <1>5
  <2>2. QED
    BY <2>1, MinNatural
<1> HIDE DEF m
<1>7. m \in Nat
  BY <1>1, <1>5, <1>6
<1>8. SubSeq(real, 1, m) \in Seq(1..SensorCount) /\ Len(SubSeq(real, 1, m)) = m
  <2>1. m <= Len(real)
    BY <1>6
  <2>2. SubSeq(real, 1, m) \in Seq(1..SensorCount)
    <3>1. 1 \in Int /\ m \in Int /\ \A i \in 1..m : i \in 1..Len(real)
      BY <1>5, <1>7, <2>1
    <3>2. \A i \in 1..m : real[i] \in 1..SensorCount
      BY <1>5, <3>1, ElementOfSeq
    <3>3. QED
      BY <3>1, <3>2, SubSeqProperties
  <2>3. Len(SubSeq(real, 1, m)) = m
    BY <1>5, <1>7, <2>1
  <2>4. QED
    BY <2>2, <2>3
<1>9. ASSUME Len(l) <= SensorCount PROVE SubSeq(real, 1, m) = real
  <2>1. Len(l) \in Nat
    OBVIOUS
  <2>2. m = Len(real)
    BY <1>1, <1>2, <1>5, <1>6, <1>9, <2>1
  <2>3. QED
    BY <1>5, <2>2, SubSeqFull
<1>10. QED
  BY <1>4, <1>6, <1>8, <1>9 DEF real

\* Reading them again changes nothing.
LEMMA KnownBack ==
  ASSUME NEW l \in Seq(1..SensorCount), Len(l) <= SensorCount
  PROVE  KnownSensors(l) = l
<1>1. SensorCount \in 1..100 /\ 1..SensorCount \subseteq Sources
  BY CountAssumption DEF Sources
<1>2. l \in Seq(Sources) /\ Len(l) \in Nat /\ \A i \in 1..Len(l) : l[i] \in 1..SensorCount
  <2>1. l \in Seq(Sources)
    BY <1>1, SeqMonotonic
  <2>2. \A i \in 1..Len(l) : l[i] \in 1..SensorCount
    BY ElementOfSeq
  <2>3. QED
    BY <2>1, <2>2
<1>3. KnownSensors(l) = Only(l, 1..SensorCount) /\ KnownSensors(l) \in Seq(1..SensorCount)
  BY <1>2, KnownType
<1>4. Len(l) \in 0..Len(l) /\ Len(l)+1..Len(l) = {}
  BY <1>2
<1>5. Len(Only(l, 1..SensorCount)) = Len(l) /\ \A i \in 1..Len(l) : Only(l, 1..SensorCount)[i] = l[i]
  BY <1>2, <1>4, OnlyPrefix
<1>6. QED
  BY <1>3, <1>5, SeqEqual

\* The settings of a fan and of a virtual sensor.
LEMMA FanIntro ==
  ASSUME NEW a \in SourceTypes, NEW n \in Nat, NEW m \in Maps \cup {""},
         NEW f \in Filters \cup {NoFilter}
  PROVE  [s_type |-> a, s_id |-> n, map |-> m, filter |-> f] \in FanCfg
BY DEF FanCfg

LEMMA VsensorIntro ==
  ASSUME NEW m \in {"manual", "i2c", "onewire", "avg"}, NEW t \in Nat, NEW a \in Devices,
         NEW b \in Devices, NEW l \in Seq(Sources)
  PROVE  /\ [mode |-> m, timeout |-> t, i2c |-> a, onewire |-> b, sensors |-> l] \in VsensorCfg
         /\ [mode |-> m, timeout |-> t, i2c |-> a, onewire |-> b, sensors |-> l].sensors = l
BY DEF VsensorCfg

\* What is read of a virtual sensor is one, and reading it again changes nothing.
LEMMA VsensorSettles ==
  ASSUME NEW v \in VsensorCfg
  PROVE  LET l == VsensorLoad(VsensorJson(v)) IN
         /\ l \in VsensorCfg /\ l.mode = v.mode /\ Len(l.sensors) <= SensorCount
         /\ VsensorLoad(VsensorJson(l)) = l
<1> DEFINE l == VsensorLoad(VsensorJson(v))
           w == Cleared.vsensor
<1>1. w = [mode |-> "manual", timeout |-> 60, i2c |-> "", onewire |-> "", sensors |-> <<>>]
  BY DEF Cleared
<1>2. /\ v.mode \in {"manual", "i2c", "onewire", "avg"} /\ v.timeout \in Nat
      /\ v.i2c \in Devices /\ v.onewire \in Devices /\ v.sensors \in Seq(Sources)
  BY DEF VsensorCfg
<1>3. SensorCount \in 1..100 /\ 1..SensorCount \subseteq Sources
  BY CountAssumption DEF Sources
<1>4. /\ <<>> \in Seq(Sources) /\ Len(<<>>) <= SensorCount /\ 60 \in Nat /\ "" \in Devices
  <2>1. <<>> \in Seq(Sources)
    OBVIOUS
  <2>2. QED
    BY <1>3, <2>1 DEF Devices
<1>5. /\ v.mode = "manual" => l = [w EXCEPT !.mode = "manual", !.timeout = v.timeout]
      /\ v.mode = "avg" => l = [w EXCEPT !.mode = "avg", !.sensors = KnownSensors(v.sensors)]
      /\ v.mode = "i2c" => l = [w EXCEPT !.mode = "i2c", !.i2c = v.i2c]
      /\ v.mode = "onewire" => l = [w EXCEPT !.mode = "onewire", !.onewire = v.onewire]
  BY VsensorBack, Zenon
<1>6. /\ KnownSensors(v.sensors) \in Seq(1..SensorCount)
      /\ Len(KnownSensors(v.sensors)) <= SensorCount
      /\ KnownSensors(KnownSensors(v.sensors)) = KnownSensors(v.sensors)
  BY <1>2, KnownType, KnownBack
<1>7. KnownSensors(v.sensors) \in Seq(Sources)
  BY <1>3, <1>6, SeqMonotonic
<1>8. \A u \in VsensorCfg :
        /\ u.mode = "manual" =>
             VsensorLoad(VsensorJson(u)) = [w EXCEPT !.mode = "manual", !.timeout = u.timeout]
        /\ u.mode = "avg" =>
             VsensorLoad(VsensorJson(u)) = [w EXCEPT !.mode = "avg", !.sensors = KnownSensors(u.sensors)]
        /\ u.mode = "i2c" => VsensorLoad(VsensorJson(u)) = [w EXCEPT !.mode = "i2c", !.i2c = u.i2c]
        /\ u.mode = "onewire" =>
             VsensorLoad(VsensorJson(u)) = [w EXCEPT !.mode = "onewire", !.onewire = u.onewire]
  BY VsensorBack, Zenon
<1> HIDE DEF l, w
<1>9. CASE v.mode = "avg"
  <2>1. l = [mode |-> "avg", timeout |-> 60, i2c |-> "", onewire |-> "",
             sensors |-> KnownSensors(v.sensors)]
    <3>1. l = [w EXCEPT !.mode = "avg", !.sensors = KnownSensors(v.sensors)]
      BY <1>5, <1>9
    <3>2. QED
      BY <1>1, <3>1
  <2>2. l \in VsensorCfg
    <3>1. [mode |-> "avg", timeout |-> 60, i2c |-> "", onewire |-> "",
           sensors |-> KnownSensors(v.sensors)] \in VsensorCfg
      BY <1>4, <1>7, VsensorIntro
    <3>2. QED
      BY <2>1, <3>1, Zenon
  <2>3. l.mode = "avg" /\ l.sensors = KnownSensors(v.sensors)
    BY <2>1
  <2>4. KnownSensors(l.sensors) = KnownSensors(v.sensors)
    BY <1>6, <2>3
  <2>5. VsensorLoad(VsensorJson(l)) = [w EXCEPT !.mode = "avg", !.sensors = KnownSensors(l.sensors)]
    BY <1>8, <2>2, <2>3, Zenon
  <2>6. VsensorLoad(VsensorJson(l)) = l
    BY <1>5, <1>9, <2>4, <2>5
  <2>7. QED
    BY <1>6, <1>9, <2>2, <2>3, <2>6 DEF l
<1>10. CASE v.mode = "manual"
  <2>1. l = [mode |-> "manual", timeout |-> v.timeout, i2c |-> "", onewire |-> "", sensors |-> <<>>]
    <3>1. l = [w EXCEPT !.mode = "manual", !.timeout = v.timeout]
      BY <1>5, <1>10
    <3>2. QED
      BY <1>1, <3>1
  <2>2. l \in VsensorCfg
    <3>1. [mode |-> "manual", timeout |-> v.timeout, i2c |-> "", onewire |-> "", sensors |-> <<>>] \in VsensorCfg
      BY <1>2, <1>4, VsensorIntro
    <3>2. QED
      BY <2>1, <3>1, Zenon
  <2>3. l.mode = "manual" /\ l.sensors = <<>> /\ l.timeout = v.timeout
    BY <2>1
  <2>4. VsensorLoad(VsensorJson(l)) = l
    <3>1. VsensorLoad(VsensorJson(l)) = [w EXCEPT !.mode = "manual", !.timeout = l.timeout]
      BY <1>8, <2>2, <2>3, Zenon
    <3>2. l = [w EXCEPT !.mode = "manual", !.timeout = v.timeout]
      BY <1>5, <1>10, Zenon
    <3>3. QED
      BY <2>3, <3>1, <3>2, Zenon
  <2>5. QED
    BY <1>4, <1>10, <2>2, <2>3, <2>4 DEF l
<1>11. CASE v.mode = "i2c"
  <2>1. l = [mode |-> "i2c", timeout |-> 60, i2c |-> v.i2c, onewire |-> "", sensors |-> <<>>]
    <3>1. l = [w EXCEPT !.mode = "i2c", !.i2c = v.i2c]
      BY <1>5, <1>11
    <3>2. QED
      BY <1>1, <3>1
  <2>2. l \in VsensorCfg
    <3>1. [mode |-> "i2c", timeout |-> 60, i2c |-> v.i2c, onewire |-> "", sensors |-> <<>>] \in VsensorCfg
      BY <1>2, <1>4, VsensorIntro
    <3>2. QED
      BY <2>1, <3>1, Zenon
  <2>3. l.mode = "i2c" /\ l.sensors = <<>> /\ l.i2c = v.i2c
    BY <2>1
  <2>4. VsensorLoad(VsensorJson(l)) = l
    <3>1. VsensorLoad(VsensorJson(l)) = [w EXCEPT !.mode = "i2c", !.i2c = l.i2c]
      BY <1>8, <2>2, <2>3, Zenon
    <3>2. l = [w EXCEPT !.mode = "i2c", !.i2c = v.i2c]
      BY <1>5, <1>11, Zenon
    <3>3. QED
      BY <2>3, <3>1, <3>2, Zenon
  <2>5. QED
    BY <1>4, <1>11, <2>2, <2>3, <2>4 DEF l
<1>12. CASE v.mode = "onewire"
  <2>1. l = [mode |-> "onewire", timeout |-> 60, i2c |-> "", onewire |-> v.onewire, sensors |-> <<>>]
    <3>1. l = [w EXCEPT !.mode = "onewire", !.onewire = v.onewire]
      BY <1>5, <1>12
    <3>2. QED
      BY <1>1, <3>1
  <2>2. l \in VsensorCfg
    <3>1. [mode |-> "onewire", timeout |-> 60, i2c |-> "", onewire |-> v.onewire, sensors |-> <<>>] \in VsensorCfg
      BY <1>2, <1>4, VsensorIntro
    <3>2. QED
      BY <2>1, <3>1, Zenon
  <2>3. l.mode = "onewire" /\ l.sensors = <<>> /\ l.onewire = v.onewire
    BY <2>1
  <2>4. VsensorLoad(VsensorJson(l)) = l
    <3>1. VsensorLoad(VsensorJson(l)) = [w EXCEPT !.mode = "onewire", !.onewire = l.onewire]
      BY <1>8, <2>2, <2>3, Zenon
    <3>2. l = [w EXCEPT !.mode = "onewire", !.onewire = v.onewire]
      BY <1>5, <1>12, Zenon
    <3>3. QED
      BY <2>3, <3>1, <3>2, Zenon
  <2>5. QED
    BY <1>4, <1>12, <2>2, <2>3, <2>4 DEF l
<1>13. QED
  BY <1>2, <1>9, <1>10, <1>11, <1>12

LEMMA AclsType ==
  ASSUME NEW n, NEW a \in [1..n -> (1..32) \cup {0}]
  PROVE  a \in [1..n -> 0..32]
OBVIOUS

\* A record with parts of the right types is a configuration.
LEMMA ConfigIntro ==
  ASSUME NEW l, DOMAIN l = DOMAIN Cleared, l = [k \in DOMAIN Cleared |-> l[k]],
         l.led_mode \in 0..2, l.wifi_mode \in 0..1, l.mqtt_tls \in BOOLEAN,
         l.snmp_community \in Communities, l.http_fan_mask \in SUBSET (0..FanSlots-1),
         l.syslog_active \in BOOLEAN, l.ntp_active \in BOOLEAN,
         l.dns_servers \in [1..ServerSlots -> Servers \cup {"any"}],
         l.ssh_acls \in [1..AclSlots -> (1..32) \cup {0}],
         l.ssh_pub_keys \in [1..KeySlots -> Keys \cup {""}],
         l.fan \in FanCfg, l.mbfan \in MbfanCfg, l.sensor \in SensorCfg, l.vsensor \in VsensorCfg
  PROVE  l \in Configs
<1>1. DOMAIN Cleared = {"led_mode", "wifi_mode", "mqtt_tls", "snmp_community", "http_fan_mask",
                        "syslog_active", "ntp_active", "dns_servers", "ssh_acls",
                        "ssh_pub_keys", "fan", "mbfan", "sensor", "vsensor"}
  BY DEF Cleared
<1>2. l.ssh_acls \in [1..AclSlots -> 0..32]
  <2> DEFINE a == l.ssh_acls
  <2>1. a \in [1..AclSlots -> (1..32) \cup {0}]
    OBVIOUS
  <2> HIDE DEF a
  <2>2. a \in [1..AclSlots -> 0..32]
    BY <2>1, AclsType
  <2>3. QED
    BY <2>2 DEF a
<1>3. QED
  BY <1>1, <1>2 DEF Configs

\* A configuration of which a save and a load lose nothing.
Settled(c) ==
  /\ c \in Stored
  /\ c.snmp_community # "" /\ c.syslog_active
  /\ c.http_fan_mask # {} \/ c.http_fan_mask = 0..FanCount-1
  /\ c.ssh_pub_keys = KeysLoad(KeysJson(c.ssh_pub_keys))
  /\ c.mbfan.sources = IF c.mbfan.s_type \in Many THEN c.mbfan.sources \cap 0..FanCount-1 ELSE {}
  /\ SensorType # "external" => c.sensor.beta = 0
  /\ c.vsensor = VsensorLoad(VsensorJson(c.vsensor)) /\ Len(c.vsensor.sensors) <= SensorCount

LEMMA SettledStays ==
  ASSUME NEW c, Settled(c)
  PROVE  Load(Json(c)) = c
<1> DEFINE l == Load(Json(c))
<1>1. c \in Stored /\ c \in Configs
  BY DEF Settled, Stored
<1>2. c = [k \in DOMAIN Cleared |-> c[k]]
  BY <1>1 DEF Configs, Cleared
<1>3. /\ l = [k \in DOMAIN Cleared |-> l[k]]
      /\ l.led_mode = c.led_mode /\ l.wifi_mode = c.wifi_mode /\ l.mqtt_tls = c.mqtt_tls
      /\ l.snmp_community = IF c.snmp_community = "" THEN "public" ELSE c.snmp_community
      /\ l.http_fan_mask = IF c.http_fan_mask = {} THEN 0..FanCount-1 ELSE c.http_fan_mask
      /\ l.syslog_active = TRUE /\ l.ntp_active = (c.syslog_active /\ c.ntp_active)
      /\ l.dns_servers = c.dns_servers /\ l.ssh_acls = c.ssh_acls
      /\ l.ssh_pub_keys = KeysLoad(KeysJson(c.ssh_pub_keys))
      /\ l.fan = c.fan
      /\ l.mbfan = [c.mbfan EXCEPT !.sources = IF c.mbfan.s_type \in Many
                                             THEN c.mbfan.sources \cap 0..FanCount-1 ELSE {}]
      /\ l.sensor = [c.sensor EXCEPT !.beta = IF SensorType = "external" THEN c.sensor.beta ELSE 0]
      /\ l.vsensor = VsensorLoad(VsensorJson(c.vsensor))
  BY <1>1, Reloaded
<1> HIDE DEF l
<1>4. c.syslog_active \in BOOLEAN /\ c.ntp_active \in BOOLEAN /\ c.mbfan \in MbfanCfg /\ c.sensor \in SensorCfg
  BY <1>1, ConfigTypes
<1>5. l.snmp_community = c.snmp_community /\ l.http_fan_mask = c.http_fan_mask
      /\ l.ssh_pub_keys = c.ssh_pub_keys /\ l.vsensor = c.vsensor
  BY <1>3 DEF Settled
<1>6. l.syslog_active = c.syslog_active /\ l.ntp_active = c.ntp_active
  BY <1>3, <1>4 DEF Settled
<1>7. l.mbfan = c.mbfan
  <2>1. l.mbfan = [c.mbfan EXCEPT !.sources = c.mbfan.sources]
    BY <1>3 DEF Settled
  <2>2. QED
    BY <1>4, <2>1 DEF MbfanCfg
<1>8. l.sensor = c.sensor
  <2>1. l.sensor = [c.sensor EXCEPT !.beta = c.sensor.beta]
    BY <1>3 DEF Settled
  <2>2. QED
    BY <1>4, <2>1 DEF SensorCfg
<1>9. DOMAIN Cleared = {"led_mode", "wifi_mode", "mqtt_tls", "snmp_community", "http_fan_mask",
                        "syslog_active", "ntp_active", "dns_servers", "ssh_acls",
                        "ssh_pub_keys", "fan", "mbfan", "sensor", "vsensor"}
  BY DEF Cleared
<1>10. \A k \in DOMAIN Cleared : l[k] = c[k]
  BY <1>3, <1>5, <1>6, <1>7, <1>8, <1>9
<1>11. l = c
  BY <1>2, <1>3, <1>10
<1>12. QED
  BY <1>11 DEF l

\* What is loaded of what was saved is such a configuration.
LEMMA LoadSettles ==
  ASSUME NEW c \in Stored
  PROVE  Settled(Load(Json(c)))
<1> DEFINE l == Load(Json(c))
<1>1. c \in Configs /\ Filled(c.dns_servers, "any") /\ Filled(c.ssh_acls, 0)
  BY DEF Stored
<1>2. /\ DOMAIN l = DOMAIN Cleared /\ l = [k \in DOMAIN Cleared |-> l[k]]
      /\ l.led_mode = c.led_mode /\ l.wifi_mode = c.wifi_mode /\ l.mqtt_tls = c.mqtt_tls
      /\ l.snmp_community = IF c.snmp_community = "" THEN "public" ELSE c.snmp_community
      /\ l.http_fan_mask = IF c.http_fan_mask = {} THEN 0..FanCount-1 ELSE c.http_fan_mask
      /\ l.syslog_active = TRUE /\ l.ntp_active = (c.syslog_active /\ c.ntp_active)
      /\ l.dns_servers = c.dns_servers /\ l.ssh_acls = c.ssh_acls
      /\ l.ssh_pub_keys = KeysLoad(KeysJson(c.ssh_pub_keys))
      /\ l.fan = c.fan
      /\ l.mbfan = [c.mbfan EXCEPT !.sources = IF c.mbfan.s_type \in Many
                                             THEN c.mbfan.sources \cap 0..FanCount-1 ELSE {}]
      /\ l.sensor = [c.sensor EXCEPT !.beta = IF SensorType = "external" THEN c.sensor.beta ELSE 0]
      /\ l.vsensor = VsensorLoad(VsensorJson(c.vsensor))
  BY Reloaded
<1> HIDE DEF l
<1>3. /\ c.led_mode \in 0..2 /\ c.wifi_mode \in 0..1 /\ c.mqtt_tls \in BOOLEAN
      /\ c.snmp_community \in Communities /\ c.http_fan_mask \in SUBSET (0..FanSlots-1)
      /\ c.syslog_active \in BOOLEAN /\ c.ntp_active \in BOOLEAN
      /\ c.dns_servers \in [1..ServerSlots -> Servers \cup {"any"}]
      /\ c.ssh_acls \in [1..AclSlots -> (1..32) \cup {0}]
      /\ c.ssh_pub_keys \in [1..KeySlots -> Keys \cup {""}]
      /\ c.fan \in FanCfg /\ c.mbfan \in MbfanCfg /\ c.sensor \in SensorCfg
      /\ c.vsensor \in VsensorCfg
  BY <1>1, ConfigTypes
<1>4. /\ l.snmp_community \in Communities /\ l.snmp_community # ""
  BY <1>2, <1>3, DataAssumption
<1>5. /\ l.http_fan_mask \in SUBSET (0..FanSlots-1)
      /\ l.http_fan_mask # {} \/ l.http_fan_mask = 0..FanCount-1
  <2>1. 0..FanCount-1 \subseteq 0..FanSlots-1
    BY CountAssumption
  <2>2. QED
    BY <1>2, <1>3, <2>1
<1>6. l.syslog_active \in BOOLEAN /\ l.syslog_active /\ l.ntp_active \in BOOLEAN
  BY <1>2, <1>3
<1>7. /\ l.ssh_pub_keys \in [1..KeySlots -> Keys \cup {""}]
      /\ l.ssh_pub_keys = KeysLoad(KeysJson(l.ssh_pub_keys))
  <2>1. KeySlots \in Nat /\ "" \notin Keys
    BY CountAssumption, DataAssumption
  <2> DEFINE keys == KeysJson(c.ssh_pub_keys)
  <2>2. keys \in Seq(Keys) /\ Len(keys) <= KeySlots
    BY <1>3, <2>1, NotNullType DEF KeysJson
  <2> HIDE DEF keys
  <2>3. l.ssh_pub_keys = InSlots(keys, KeySlots, "")
    BY <1>2 DEF KeysLoad, keys
  <2>4. InSlots(keys, KeySlots, "") \in [1..KeySlots -> Keys \cup {""}]
    BY <2>1, <2>2, SlotsType
  <2>5. KeysJson(l.ssh_pub_keys) = keys
    BY <2>1, <2>2, <2>3, ListBack DEF KeysJson
  <2>6. QED
    BY <2>3, <2>4, <2>5 DEF KeysLoad
<1>8. /\ l.mbfan \in MbfanCfg
      /\ l.mbfan.sources = IF l.mbfan.s_type \in Many THEN l.mbfan.sources \cap 0..FanCount-1 ELSE {}
  <2> DEFINE S == IF c.mbfan.s_type \in Many THEN c.mbfan.sources \cap 0..FanCount-1 ELSE {}
             m == c.mbfan
  <2>1. m \in MbfanCfg /\ l.mbfan = [m EXCEPT !.sources = S]
    BY <1>2, <1>3
  <2>2. S \in SUBSET (0..FanSlots-1) /\ S = IF m.s_type \in Many THEN S \cap 0..FanCount-1 ELSE {}
    BY <2>1 DEF MbfanCfg
  <2> HIDE DEF S, m
  <2>3. l.mbfan.sources = S /\ l.mbfan.s_type = m.s_type
    BY <2>1 DEF MbfanCfg
  <2>4. l.mbfan \in MbfanCfg
    BY <2>1, <2>2 DEF MbfanCfg
  <2>5. QED
    BY <2>2, <2>3, <2>4
<1>9. l.sensor \in SensorCfg /\ (SensorType # "external" => l.sensor.beta = 0)
  <2> DEFINE b == IF SensorType = "external" THEN c.sensor.beta ELSE 0
             s == c.sensor
  <2>1. s \in SensorCfg /\ b \in Nat /\ l.sensor = [s EXCEPT !.beta = b]
        /\ (SensorType # "external" => b = 0)
    BY <1>2, <1>3 DEF SensorCfg
  <2> HIDE DEF b, s
  <2>2. l.sensor \in SensorCfg
    BY <2>1 DEF SensorCfg
  <2>3. l.sensor.beta = b
    BY <2>1 DEF SensorCfg
  <2>4. QED
    BY <2>1, <2>2, <2>3
<1>10. /\ l.vsensor \in VsensorCfg /\ l.vsensor = VsensorLoad(VsensorJson(l.vsensor))
       /\ Len(l.vsensor.sensors) <= SensorCount
  <2>1. c.vsensor \in VsensorCfg /\ l.vsensor = VsensorLoad(VsensorJson(c.vsensor))
    BY <1>2, <1>3
  <2>2. QED
    BY <2>1, VsensorSettles
<1>11. l \in Configs
  <2>1. l.led_mode \in 0..2 /\ l.wifi_mode \in 0..1 /\ l.mqtt_tls \in BOOLEAN
        /\ l.dns_servers \in [1..ServerSlots -> Servers \cup {"any"}]
        /\ l.ssh_acls \in [1..AclSlots -> (1..32) \cup {0}] /\ l.fan \in FanCfg
    BY <1>2, <1>3
  <2>2. DOMAIN l = DOMAIN Cleared /\ l = [k \in DOMAIN Cleared |-> l[k]]
    BY <1>2
  <2>3. QED
    BY <1>4, <1>5, <1>6, <1>7, <1>8, <1>9, <1>10, <2>1, <2>2, ConfigIntro
<1>12. l \in Stored
  BY <1>1, <1>2, <1>11 DEF Stored
<1>13. Settled(l)
  BY <1>4, <1>5, <1>6, <1>7, <1>8, <1>9, <1>10, <1>12 DEF Settled
<1>14. QED
  BY <1>13 DEF l

\* Lists that are empty are lists.
LEMMA EmptyLists ==
  /\ InSlots(<<>>, ServerSlots, "any") \in [1..ServerSlots -> Servers \cup {"any"}]
  /\ Filled(InSlots(<<>>, ServerSlots, "any"), "any")
  /\ InSlots(<<>>, AclSlots, 0) \in [1..AclSlots -> (1..32) \cup {0}]
  /\ Filled(InSlots(<<>>, AclSlots, 0), 0)
  /\ InSlots(<<>>, KeySlots, "") \in [1..KeySlots -> Keys \cup {""}]
  /\ KeysJson(InSlots(<<>>, KeySlots, "")) = <<>>
<1>1. KeySlots \in Nat /\ ServerSlots \in Nat /\ AclSlots \in Nat
  BY CountAssumption
<1>2. "any" \notin Servers /\ "" \notin Keys
  BY DataAssumption
<1>3. 0 \notin 1..32
  OBVIOUS
<1>4. <<>> \in Seq(Servers) /\ <<>> \in Seq(1..32) /\ <<>> \in Seq(Keys) /\ Len(<<>>) = 0
  OBVIOUS
<1>5. InSlots(<<>>, ServerSlots, "any") \in [1..ServerSlots -> Servers \cup {"any"}]
  BY <1>1, <1>2, <1>4, SlotsType
<1>6. Filled(InSlots(<<>>, ServerSlots, "any"), "any")
  BY <1>1, <1>2, <1>4, SlotsFilled
<1> DEFINE P == 1..32
<1>12. 0 \notin P /\ <<>> \in Seq(P)
  BY <1>3
<1> HIDE DEF P
<1>13. InSlots(<<>>, AclSlots, 0) \in [1..AclSlots -> P \cup {0}]
  BY <1>1, <1>12, SlotsType
<1>7. InSlots(<<>>, AclSlots, 0) \in [1..AclSlots -> (1..32) \cup {0}]
  BY <1>13 DEF P
<1>8. Filled(InSlots(<<>>, AclSlots, 0), 0)
  BY <1>1, <1>12, SlotsFilled
<1>9. InSlots(<<>>, KeySlots, "") \in [1..KeySlots -> Keys \cup {""}]
  BY <1>1, <1>2, <1>4, SlotsType
<1>10. NotNull(InSlots(<<>>, KeySlots, ""), "") = <<>>
  <2>1. Len(<<>>) <= KeySlots
    BY <1>1
  <2>2. QED
    BY <1>1, <1>2, <1>4, <2>1, ListBack
<1>11. QED
  BY <1>5, <1>6, <1>7, <1>8, <1>9, <1>10 DEF KeysJson

\* What clear_config() makes could be made by commands.
LEMMA ClearedTypes ==
  /\ Cleared["led_mode"] = 0 /\ Cleared["wifi_mode"] = 0 /\ Cleared["mqtt_tls"] = TRUE
  /\ Cleared["snmp_community"] = "public" /\ Cleared["syslog_active"] = TRUE
  /\ Cleared["ntp_active"] = TRUE /\ Cleared.http_fan_mask = 0..FanCount-1
  /\ 0..FanCount-1 \in SUBSET (0..FanSlots-1)
  /\ Cleared.dns_servers = InSlots(<<>>, ServerSlots, "any")
  /\ Cleared.ssh_acls = InSlots(<<>>, AclSlots, 0)
  /\ Cleared.ssh_pub_keys = InSlots(<<>>, KeySlots, "")
  /\ Cleared.fan \in FanCfg /\ Cleared.mbfan \in MbfanCfg /\ Cleared.sensor \in SensorCfg
  /\ Cleared.vsensor \in VsensorCfg /\ Cleared.vsensor.sensors = <<>>
<1>1. /\ Cleared["led_mode"] = 0 /\ Cleared["wifi_mode"] = 0 /\ Cleared["mqtt_tls"] = TRUE
      /\ Cleared["snmp_community"] = "public" /\ Cleared["syslog_active"] = TRUE
      /\ Cleared["ntp_active"] = TRUE /\ Cleared.http_fan_mask = 0..FanCount-1
      /\ Cleared.dns_servers = InSlots(<<>>, ServerSlots, "any")
      /\ Cleared.ssh_acls = InSlots(<<>>, AclSlots, 0)
      /\ Cleared.ssh_pub_keys = InSlots(<<>>, KeySlots, "")
  BY DEF Cleared
<1>2. 0..FanCount-1 \in SUBSET (0..FanSlots-1)
  BY CountAssumption
<1>3. Cleared.fan \in FanCfg
  <2>1. Cleared.fan = [s_type |-> "fixed", s_id |-> 0, map |-> "", filter |-> NoFilter]
    BY DEF Cleared
  <2>2. "fixed" \in SourceTypes /\ "" \in Maps \cup {""} /\ NoFilter \in Filters \cup {NoFilter}
    BY DEF SourceTypes
  <2>3. [s_type |-> "fixed", s_id |-> 0, map |-> "", filter |-> NoFilter] \in FanCfg
    BY <2>2, FanIntro
  <2>4. QED
    BY <2>1, <2>3, Zenon
<1>4. Cleared.mbfan \in MbfanCfg
  <2>1. Cleared.mbfan = [s_type |-> "fixed", s_id |-> 0, sources |-> {},
                         rpm_mode |-> "tacho", lra_treshold |-> 200, lra_invert |-> FALSE]
    BY DEF Cleared
  <2>2. 200 \in Uint16
    BY DEF Uint16
  <2>3. QED
    BY <2>1, <2>2 DEF MbfanCfg, TachoTypes
<1>5. Cleared.sensor \in SensorCfg
  <2>1. Cleared.sensor = [type |-> SensorType, offset |-> 0, beta |-> 0]
    BY DEF Cleared
  <2>2. QED
    BY <2>1 DEF SensorCfg
<1>6. Cleared.vsensor \in VsensorCfg /\ Cleared.vsensor.sensors = <<>>
  <2>1. Cleared.vsensor = [mode |-> "manual", timeout |-> 60, i2c |-> "", onewire |-> "",
                           sensors |-> <<>>]
    BY DEF Cleared
  <2>2. <<>> \in Seq(Sources)
    OBVIOUS
  <2>3. "manual" \in {"manual", "i2c", "onewire", "avg"} /\ "" \in Devices /\ 60 \in Nat
    BY DEF Devices
  <2>4. [mode |-> "manual", timeout |-> 60, i2c |-> "", onewire |-> "", sensors |-> <<>>] \in VsensorCfg
    BY <2>2, <2>3, VsensorIntro
  <2>5. Cleared.vsensor \in VsensorCfg
    BY <2>1, <2>4, Zenon
  <2>6. Cleared.vsensor.sensors = <<>>
    BY DEF Cleared
  <2>7. QED
    BY <2>5, <2>6
<1>7. QED
  BY <1>1, <1>2, <1>3, <1>4, <1>5, <1>6

LEMMA ClearedStored == Cleared \in Stored /\ Len(Cleared.vsensor.sensors) <= SensorCount
<1> DEFINE l == Cleared
<1>1. /\ l.dns_servers \in [1..ServerSlots -> Servers \cup {"any"}] /\ Filled(l.dns_servers, "any")
      /\ l.ssh_acls \in [1..AclSlots -> (1..32) \cup {0}] /\ Filled(l.ssh_acls, 0)
      /\ l.ssh_pub_keys \in [1..KeySlots -> Keys \cup {""}]
  BY ClearedTypes, EmptyLists
<1>2. l.fan \in FanCfg /\ l.mbfan \in MbfanCfg /\ l.sensor \in SensorCfg
      /\ l.vsensor \in VsensorCfg /\ Len(l.vsensor.sensors) <= SensorCount
      /\ l.http_fan_mask \in SUBSET (0..FanSlots-1)
  <2>1. Len(<<>>) <= SensorCount
    BY CountAssumption
  <2>2. QED
    BY <2>1, ClearedTypes
<1>3. l.led_mode \in 0..2 /\ l.wifi_mode \in 0..1 /\ l.mqtt_tls \in BOOLEAN
       /\ l.snmp_community \in Communities /\ l.syslog_active \in BOOLEAN
       /\ l.ntp_active \in BOOLEAN
  <2>1. "public" \in Communities
    BY DataAssumption
  <2>2. 0 \in 0..2 /\ 0 \in 0..1 /\ TRUE \in BOOLEAN
    OBVIOUS
  <2>3. QED
    BY <2>1, <2>2, ClearedTypes, Zenon
<1>4. DOMAIN l = DOMAIN Cleared /\ l = [k \in DOMAIN Cleared |-> l[k]]
  <2>1. l = [k \in DOMAIN l |-> l[k]]
    BY DEF Cleared
  <2>2. QED
    BY <2>1
<1> HIDE DEF l
<1>5. l \in Configs
  BY <1>1, <1>2, <1>3, <1>4, ConfigIntro
<1>6. l \in Stored /\ Len(l.vsensor.sensors) <= SensorCount
  BY <1>1, <1>2, <1>5 DEF Stored
<1>7. QED
  BY <1>6 DEF l

\* A save of the default configuration of a board loses nothing of it.
LEMMA DefaultSettles == Settled(Load(DefaultJson))
<1> DEFINE j == DefaultJson
           l == Load(j)
           s0 == [type |-> SensorType, offset |-> 0, beta |-> 3950]
           v0 == [mode |-> "manual", timeout |-> 30, i2c |-> "", onewire |-> "", sensors |-> <<>>]
<1>1. /\ DOMAIN j = {"led_mode", "vsensors", "sensors", "fans", "mbfans"}
      /\ j["led_mode"] = 0 /\ j.vsensors = VsensorJson(v0) /\ j.sensors = SensorJson(s0)
      /\ j.fans = [source_type |-> "mbfan", source_id |-> 0, pwm_map |-> "linear"]
      /\ j.mbfans = [source_type |-> "fan", source_id |-> 0]
  BY DEF DefaultJson, VsensorJson
<1>3. v0 \in VsensorCfg
  <2>1. <<>> \in Seq(Sources)
    OBVIOUS
  <2>2. QED
    BY <2>1 DEF VsensorCfg, Devices
<1>4. s0 \in SensorCfg
  BY DEF SensorCfg
<1> HIDE DEF s0, v0, j
<1>5. LoadOf(l, j)
  BY LoadParts
<1> HIDE DEF l
<1>6. /\ l["led_mode"] = 0 /\ l["wifi_mode"] = 0 /\ l["mqtt_tls"] = TRUE
      /\ l["snmp_community"] = "public" /\ l["syslog_active"] = TRUE /\ l["ntp_active"] = TRUE
  <2>1. \A k \in {"led_mode", "wifi_mode", "mqtt_tls", "snmp_community", "syslog_active",
               "ntp_active"} : l[k] = IF k \in DOMAIN j THEN j[k] ELSE Cleared[k]
    BY <1>5 DEF LoadOf
  <2>2. QED
    BY <1>1, <2>1, ClearedTypes
<1>7. l.http_fan_mask = 0..FanCount-1 /\ l.http_fan_mask \in SUBSET (0..FanSlots-1)
  BY <1>1, <1>5, ClearedTypes DEF LoadOf
<1>8. l.dns_servers = InSlots(<<>>, ServerSlots, "any") /\ l.ssh_acls = InSlots(<<>>, AclSlots, 0)
      /\ l.ssh_pub_keys = InSlots(<<>>, KeySlots, "")
  BY <1>1, <1>5, ClearedTypes DEF LoadOf
<1>9. /\ l.fan = FanLoad(j.fans) /\ l.mbfan = MbfanLoad(j.mbfans)
      /\ l.sensor = SensorLoad(SensorJson(s0)) /\ l.vsensor = VsensorLoad(VsensorJson(v0))
  BY <1>1, <1>5 DEF LoadOf
<1>10. /\ l.dns_servers \in [1..ServerSlots -> Servers \cup {"any"}] /\ Filled(l.dns_servers, "any")
       /\ l.ssh_acls \in [1..AclSlots -> (1..32) \cup {0}] /\ Filled(l.ssh_acls, 0)
       /\ l.ssh_pub_keys \in [1..KeySlots -> Keys \cup {""}]
       /\ l.ssh_pub_keys = KeysLoad(KeysJson(l.ssh_pub_keys))
  BY <1>8, EmptyLists DEF KeysLoad
<1>12. l.fan \in FanCfg
  <2>1. l.fan = [s_type |-> "mbfan", s_id |-> 0, map |-> "linear", filter |-> NoFilter]
    <3>1. FilterLoad([name |-> "none"]) = NoFilter
      BY DEF FilterLoad, Field, NoFilter
    <3>2. Field(j.fans, "filter", [name |-> "none"]) = [name |-> "none"]
      BY <1>1 DEF Field
    <3>3. QED
      BY <1>1, <1>9, <3>1, <3>2 DEF FanLoad
  <2>2. "linear" \in Maps
    BY DataAssumption
  <2>4. "mbfan" \in SourceTypes /\ NoFilter \in Filters \cup {NoFilter}
    BY DEF SourceTypes
  <2>3. QED
    BY <2>1, <2>2, <2>4, FanIntro
<1>13. l.mbfan \in MbfanCfg /\ l.mbfan.s_type \notin Many /\ l.mbfan.sources = {}
  <2>1. l.mbfan = [s_type |-> "fan", s_id |-> 0, rpm_mode |-> "tacho", lra_treshold |-> 200,
                   lra_invert |-> FALSE, sources |-> {}]
    <3>1. /\ Field(j.mbfans, "rpm_mode", "tacho") = "tacho"
          /\ Field(j.mbfans, "lra_treshold", 200) = 200
          /\ Field(j.mbfans, "lra_invert", FALSE) = FALSE /\ Field(j.mbfans, "sources", {}) = {}
      BY <1>1 DEF Field
    <3>2. {s - 1 : s \in {}} \cap 0..FanSlots-1 = {}
      OBVIOUS
    <3> DEFINE m == j.mbfans
    <3>3. m.source_type = "fan" /\ m.source_id = 0
      BY <1>1
    <3>4. l.mbfan = [s_type |-> m.source_type, s_id |-> m.source_id,
                     rpm_mode |-> Field(m, "rpm_mode", "tacho"),
                     lra_treshold |-> Field(m, "lra_treshold", 200),
                     lra_invert |-> Field(m, "lra_invert", FALSE),
                     sources |-> {s - 1 : s \in Field(m, "sources", {})} \cap 0..FanSlots-1]
      BY <1>9 DEF MbfanLoad
    <3> HIDE DEF m
    <3>5. Field(m, "rpm_mode", "tacho") = "tacho" /\ Field(m, "lra_treshold", 200) = 200
          /\ Field(m, "lra_invert", FALSE) = FALSE /\ Field(m, "sources", {}) = {}
      BY <3>1 DEF m
    <3>6. QED
      BY <3>2, <3>3, <3>4, <3>5
  <2>2. 200 \in Uint16
    BY DEF Uint16
  <2>3. QED
    BY <2>1, <2>2 DEF MbfanCfg, TachoTypes, Many
<1>14. l.sensor \in SensorCfg /\ (SensorType # "external" => l.sensor.beta = 0)
  <2> DEFINE b == IF SensorType = "external" THEN s0.beta ELSE 0
  <2>1. l.sensor = [s0 EXCEPT !.beta = b]
    BY <1>4, <1>9, SensorBack
  <2>2. b \in Nat /\ (SensorType # "external" => b = 0)
    BY <1>4 DEF SensorCfg
  <2> HIDE DEF b
  <2>3. l.sensor \in SensorCfg
    BY <1>4, <2>1, <2>2 DEF SensorCfg
  <2>4. l.sensor.beta = b
    BY <1>4, <2>1 DEF SensorCfg
  <2>5. QED
    BY <2>2, <2>3, <2>4
<1>15. /\ l.vsensor \in VsensorCfg /\ l.vsensor = VsensorLoad(VsensorJson(l.vsensor))
       /\ Len(l.vsensor.sensors) <= SensorCount
  BY <1>3, <1>9, VsensorSettles
<1>16. "public" \in Communities /\ "public" # ""
  BY DataAssumption
<1>18. l \in Configs
  <2>1. DOMAIN l = DOMAIN Cleared /\ l = [k \in DOMAIN Cleared |-> l[k]]
    BY <1>5 DEF LoadOf
  <2>2. l.led_mode \in 0..2 /\ l.wifi_mode \in 0..1 /\ l.mqtt_tls \in BOOLEAN
        /\ l.snmp_community \in Communities /\ l.syslog_active \in BOOLEAN
        /\ l.ntp_active \in BOOLEAN
    <3>1. 0 \in 0..2 /\ 0 \in 0..1 /\ TRUE \in BOOLEAN
      OBVIOUS
    <3>2. QED
      BY <1>6, <1>16, <3>1, Zenon
  <2>3. QED
    BY <1>7, <1>10, <1>12, <1>13, <1>14, <1>15, <2>1, <2>2, ConfigIntro
<1>19. l \in Stored
  BY <1>10, <1>18 DEF Stored
<1>20. l.snmp_community # "" /\ l.syslog_active
  BY <1>6, <1>16
<1>21. l.mbfan.sources = IF l.mbfan.s_type \in Many THEN l.mbfan.sources \cap 0..FanCount-1 ELSE {}
  BY <1>13
<1>22. Settled(l)
  BY <1>7, <1>10, <1>14, <1>15, <1>19, <1>20, <1>21 DEF Settled
<1>23. QED
  BY <1>22 DEF l, j

-------------------------------------------------------------------------------
(***************************************************************************)
(* What the commands can make of the configuration.                       *)
(***************************************************************************)
Usable(c) == c \in Stored /\ Len(c.vsensor.sensors) <= SensorCount

\* A value for a setting that a command may store.
Fits(k, v) ==
  /\ k = "led_mode" => v \in 0..2
  /\ k = "wifi_mode" => v \in 0..1
  /\ k \in {"mqtt_tls", "syslog_active", "ntp_active"} => v \in BOOLEAN
  /\ k = "snmp_community" => v \in Communities
  /\ k = "http_fan_mask" => v \in SUBSET (0..FanSlots-1)
  /\ k = "dns_servers" => v \in [1..ServerSlots -> Servers \cup {"any"}] /\ Filled(v, "any")
  /\ k = "ssh_acls" => v \in [1..AclSlots -> (1..32) \cup {0}] /\ Filled(v, 0)
  /\ k = "ssh_pub_keys" => v \in [1..KeySlots -> Keys \cup {""}]
  /\ k = "fan" => v \in FanCfg
  /\ k = "mbfan" => v \in MbfanCfg
  /\ k = "sensor" => v \in SensorCfg
  /\ k = "vsensor" => v \in VsensorCfg /\ Len(v.sensors) <= SensorCount

\* Storing it makes a configuration that can be saved.
LEMMA FitsIn ==
  ASSUME NEW c, Usable(c), NEW k \in DOMAIN Cleared, NEW v, Fits(k, v)
  PROVE  Usable([c EXCEPT ![k] = v])
<1> DEFINE l == [c EXCEPT ![k] = v]
<1>1. c \in Configs /\ Filled(c.dns_servers, "any") /\ Filled(c.ssh_acls, 0)
      /\ Len(c.vsensor.sensors) <= SensorCount
  BY DEF Usable, Stored
<1>2. DOMAIN Cleared = {"led_mode", "wifi_mode", "mqtt_tls", "snmp_community", "http_fan_mask",
                        "syslog_active", "ntp_active", "dns_servers", "ssh_acls",
                        "ssh_pub_keys", "fan", "mbfan", "sensor", "vsensor"}
  BY DEF Cleared
<1>3. c = [g \in DOMAIN Cleared |-> c[g]]
  BY <1>1, <1>2 DEF Configs
<1>4. /\ DOMAIN l = DOMAIN Cleared /\ l = [g \in DOMAIN Cleared |-> l[g]]
      /\ \A g \in DOMAIN Cleared : l[g] = IF g = k THEN v ELSE c[g]
  BY <1>3
<1> HIDE DEF l
<1>5. \A g \in DOMAIN Cleared : Fits(g, c[g])
  <2> SUFFICES ASSUME NEW g \in DOMAIN Cleared PROVE Fits(g, c[g])
    OBVIOUS
  <2>1. /\ c.led_mode \in 0..2 /\ c.wifi_mode \in 0..1 /\ c.mqtt_tls \in BOOLEAN
        /\ c.snmp_community \in Communities /\ c.http_fan_mask \in SUBSET (0..FanSlots-1)
        /\ c.syslog_active \in BOOLEAN /\ c.ntp_active \in BOOLEAN
        /\ c.dns_servers \in [1..ServerSlots -> Servers \cup {"any"}]
        /\ c.ssh_acls \in [1..AclSlots -> (1..32) \cup {0}]
        /\ c.ssh_pub_keys \in [1..KeySlots -> Keys \cup {""}]
        /\ c.fan \in FanCfg /\ c.mbfan \in MbfanCfg /\ c.sensor \in SensorCfg
        /\ c.vsensor \in VsensorCfg
    BY <1>1, ConfigTypes
  <2>2. QED
    BY <1>1, <2>1, Zenon DEF Fits
<1>6. \A g \in DOMAIN Cleared : Fits(g, l[g])
  BY <1>4, <1>5
<1>7. /\ l.led_mode \in 0..2 /\ l.wifi_mode \in 0..1 /\ l.mqtt_tls \in BOOLEAN
      /\ l.snmp_community \in Communities /\ l.http_fan_mask \in SUBSET (0..FanSlots-1)
      /\ l.syslog_active \in BOOLEAN /\ l.ntp_active \in BOOLEAN
  BY <1>2, <1>6 DEF Fits
<1>8. /\ l.dns_servers \in [1..ServerSlots -> Servers \cup {"any"}] /\ Filled(l.dns_servers, "any")
      /\ l.ssh_acls \in [1..AclSlots -> (1..32) \cup {0}] /\ Filled(l.ssh_acls, 0)
      /\ l.ssh_pub_keys \in [1..KeySlots -> Keys \cup {""}]
  BY <1>2, <1>6 DEF Fits
<1>9. /\ l.fan \in FanCfg /\ l.mbfan \in MbfanCfg /\ l.sensor \in SensorCfg
      /\ l.vsensor \in VsensorCfg /\ Len(l.vsensor.sensors) <= SensorCount
  BY <1>2, <1>6 DEF Fits
<1>10. l \in Configs
  BY <1>4, <1>7, <1>8, <1>9, ConfigIntro
<1>11. Usable(l)
  BY <1>8, <1>9, <1>10 DEF Usable, Stored
<1>12. QED
  BY <1>11 DEF l

\* SaveKeeps, for what the commands can make.
LEMMA UsableKept ==
  ASSUME Usable(cfg)
  PROVE  SaveKeeps
<1> DEFINE c == cfg
           l == Load(Json(cfg))
<1>1. c \in Stored /\ c \in Configs /\ Len(c.vsensor.sensors) <= SensorCount
  BY DEF Usable, Stored
<1>2. /\ l.led_mode = c.led_mode /\ l.wifi_mode = c.wifi_mode /\ l.mqtt_tls = c.mqtt_tls
      /\ l.snmp_community = IF c.snmp_community = "" THEN "public" ELSE c.snmp_community
      /\ l.http_fan_mask = IF c.http_fan_mask = {} THEN 0..FanCount-1 ELSE c.http_fan_mask
      /\ l.syslog_active = TRUE /\ l.ntp_active = (c.syslog_active /\ c.ntp_active)
      /\ l.dns_servers = c.dns_servers /\ l.ssh_acls = c.ssh_acls
      /\ l.ssh_pub_keys = KeysLoad(KeysJson(c.ssh_pub_keys))
      /\ l.fan = c.fan
      /\ l.mbfan = [c.mbfan EXCEPT !.sources = IF c.mbfan.s_type \in Many
                                             THEN c.mbfan.sources \cap 0..FanCount-1 ELSE {}]
      /\ l.sensor = [c.sensor EXCEPT !.beta = IF SensorType = "external" THEN c.sensor.beta ELSE 0]
      /\ l.vsensor = VsensorLoad(VsensorJson(c.vsensor))
  BY <1>1, Reloaded
<1>3. /\ c.syslog_active \in BOOLEAN /\ c.ntp_active \in BOOLEAN
      /\ c.ssh_pub_keys \in [1..KeySlots -> Keys \cup {""}]
      /\ c.mbfan \in MbfanCfg /\ c.sensor \in SensorCfg /\ c.vsensor \in VsensorCfg
  BY <1>1, ConfigTypes
<1> HIDE DEF c, l
<1>4. \A k \in {"led_mode", "wifi_mode", "mqtt_tls", "dns_servers", "ssh_acls", "fan"} : l[k] = c[k]
  BY <1>2
<1>5. /\ \A k \in {"s_type", "s_id", "rpm_mode", "lra_treshold", "lra_invert"} : l.mbfan[k] = c.mbfan[k]
      /\ c.mbfan.s_type \in Many => l.mbfan.sources = c.mbfan.sources \cap 0..FanCount-1
  <2> DEFINE m == c.mbfan
             S == IF c.mbfan.s_type \in Many THEN c.mbfan.sources \cap 0..FanCount-1 ELSE {}
  <2>1. m \in MbfanCfg /\ l.mbfan = [m EXCEPT !.sources = S]
    BY <1>2, <1>3
  <2>2. m.s_type \in Many => S = m.sources \cap 0..FanCount-1
    OBVIOUS
  <2> HIDE DEF m, S
  <2>3. /\ \A k \in {"s_type", "s_id", "rpm_mode", "lra_treshold", "lra_invert"} : l.mbfan[k] = m[k]
        /\ l.mbfan.sources = S
    BY <2>1 DEF MbfanCfg
  <2>4. QED
    BY <2>2, <2>3 DEF m
<1>6. KeysJson(l.ssh_pub_keys) = KeysJson(c.ssh_pub_keys)
  <2>1. KeySlots \in Nat /\ "" \notin Keys
    BY CountAssumption, DataAssumption
  <2> DEFINE keys == KeysJson(c.ssh_pub_keys)
  <2>2. keys \in Seq(Keys) /\ Len(keys) <= KeySlots
    BY <1>3, <2>1, NotNullType DEF KeysJson
  <2> HIDE DEF keys
  <2>3. l.ssh_pub_keys = InSlots(keys, KeySlots, "")
    BY <1>2 DEF KeysLoad, keys
  <2>4. KeysJson(l.ssh_pub_keys) = keys
    BY <2>1, <2>2, <2>3, ListBack DEF KeysJson
  <2>5. QED
    BY <2>4 DEF keys
<1>7. /\ l.sensor.offset = c.sensor.offset
      /\ SensorType = "external" => l.sensor.beta = c.sensor.beta
  <2> DEFINE s == c.sensor
             b == IF SensorType = "external" THEN c.sensor.beta ELSE 0
  <2>1. s \in SensorCfg /\ l.sensor = [s EXCEPT !.beta = b] /\ (SensorType = "external" => b = s.beta)
    BY <1>2, <1>3
  <2> HIDE DEF s, b
  <2>2. l.sensor.offset = s.offset /\ l.sensor.beta = b
    BY <2>1 DEF SensorCfg
  <2>3. QED
    BY <2>1, <2>2 DEF s
<1>8. /\ c.snmp_community # "" => l.snmp_community = c.snmp_community
      /\ c.http_fan_mask # {} => l.http_fan_mask = c.http_fan_mask
      /\ c.syslog_active => l.syslog_active /\ l.ntp_active = c.ntp_active
  BY <1>2, <1>3
<1>9. /\ l.vsensor.mode = c.vsensor.mode
      /\ c.vsensor.mode = "manual" => l.vsensor.timeout = c.vsensor.timeout
      /\ c.vsensor.mode = "avg" => l.vsensor.sensors = Only(c.vsensor.sensors, 1..SensorCount)
      /\ c.vsensor.mode \in {"i2c", "onewire"} => l.vsensor[c.vsensor.mode] = c.vsensor[c.vsensor.mode]
  <2> DEFINE v == c.vsensor
             w == Cleared.vsensor
  <2>1. w = [mode |-> "manual", timeout |-> 60, i2c |-> "", onewire |-> "", sensors |-> <<>>]
    BY DEF Cleared
  <2>2. v \in VsensorCfg /\ l.vsensor = VsensorLoad(VsensorJson(v))
    BY <1>2, <1>3
  <2>11. Len(v.sensors) <= SensorCount
    BY <1>1 DEF c
  <2> HIDE DEF v
  <2>12. v.sensors \in Seq(Sources) /\ v.mode \in {"manual", "i2c", "onewire", "avg"}
    BY <2>2 DEF VsensorCfg
  <2>3. v.sensors \in Seq(Sources) /\ Len(v.sensors) <= SensorCount
        /\ v.mode \in {"manual", "i2c", "onewire", "avg"}
    BY <2>11, <2>12
  <2>4. KnownSensors(v.sensors) = Only(v.sensors, 1..SensorCount)
    BY <2>3, KnownType
  <2>5. /\ v.mode = "manual" => l.vsensor = [w EXCEPT !.mode = "manual", !.timeout = v.timeout]
        /\ v.mode = "avg" => l.vsensor = [w EXCEPT !.mode = "avg", !.sensors = KnownSensors(v.sensors)]
        /\ v.mode = "i2c" => l.vsensor = [w EXCEPT !.mode = "i2c", !.i2c = v.i2c]
        /\ v.mode = "onewire" => l.vsensor = [w EXCEPT !.mode = "onewire", !.onewire = v.onewire]
    BY <2>2, VsensorBack, Zenon
  <2> HIDE DEF v, w
  <2>6. CASE v.mode = "manual"
    BY <2>1, <2>5, <2>6 DEF v
  <2>7. CASE v.mode = "avg"
    BY <2>1, <2>4, <2>5, <2>7 DEF v
  <2>8. CASE v.mode = "i2c"
    BY <2>1, <2>5, <2>8 DEF v
  <2>9. CASE v.mode = "onewire"
    BY <2>1, <2>5, <2>9 DEF v
  <2>10. QED
    BY <2>3, <2>6, <2>7, <2>8, <2>9
<1>10. QED
  BY <1>4, <1>5, <1>6, <1>7, <1>8, <1>9, Zenon DEF SaveKeeps, c, l

\* The lists that are entered, in their slots.
LEMMA ServersFit ==
  ASSUME NEW l \in Seq(Servers \cup {"any"})
  PROVE  Fits("dns_servers", InSlots(UpTo(l, "any"), ServerSlots, "any"))
<1>1. ServerSlots \in Nat /\ "any" \notin Servers
  BY CountAssumption, DataAssumption
<1> DEFINE p == UpTo(l, "any")
<1>2. p \in Seq(Servers)
  BY <1>1, UpToType
<1> HIDE DEF p
<1>3. InSlots(p, ServerSlots, "any") \in [1..ServerSlots -> Servers \cup {"any"}]
  BY <1>1, <1>2, SlotsType
<1>4. Filled(InSlots(p, ServerSlots, "any"), "any")
  BY <1>1, <1>2, SlotsFilled
<1>5. QED
  BY <1>3, <1>4 DEF Fits, p

LEMMA AclsFit ==
  ASSUME NEW l \in Seq(0..32)
  PROVE  Fits("ssh_acls", InSlots(UpTo(l, 0), AclSlots, 0))
<1> DEFINE P == 1..32
           p == UpTo(l, 0)
<1>1. AclSlots \in Nat /\ 0 \notin P
  BY CountAssumption
<1>2. 0..32 = P \cup {0}
  OBVIOUS
<1> HIDE DEF P
<1>3. l \in Seq(P \cup {0})
  BY <1>2
<1>4. p \in Seq(P)
  BY <1>1, <1>3, UpToType
<1> HIDE DEF p
<1>5. InSlots(p, AclSlots, 0) \in [1..AclSlots -> P \cup {0}]
  BY <1>1, <1>4, SlotsType
<1>6. Filled(InSlots(p, AclSlots, 0), 0)
  BY <1>1, <1>4, SlotsFilled
<1>7. QED
  BY <1>5, <1>6 DEF Fits, p, P

\* The sources of a virtual sensor that are stored.
LEMMA CombinedFits ==
  ASSUME NEW l \in SourceLists
  PROVE  LET p == SubSeq(l, 1, Min({Len(l), SensorCount})) IN
         p \in Seq(Sources) /\ Len(p) <= SensorCount
<1> DEFINE m == Min({Len(l), SensorCount})
<1>1. SensorCount \in 1..100
  BY CountAssumption
<1>2. l \in Seq((1..SensorCount) \cup (101..108))
  BY StoreAssumption
<1>3. (1..SensorCount) \cup (101..108) \subseteq Sources
  BY <1>1 DEF Sources
<1>4. l \in Seq(Sources)
  BY <1>2, <1>3, SeqMonotonic
<1>5. Len(l) \in Nat /\ \A i \in 1..Len(l) : l[i] \in Sources
  <2>1. Len(l) \in Nat
    BY <1>4
  <2>2. QED
    BY <1>4, <2>1, ElementOfSeq
<1>6. m \in {Len(l), SensorCount} /\ m <= Len(l) /\ m <= SensorCount
  <2>1. {Len(l), SensorCount} \subseteq Nat /\ {Len(l), SensorCount} # {}
    BY <1>1, <1>5
  <2>2. QED
    BY <2>1, MinNatural
<1> HIDE DEF m
<1>7. m \in Nat /\ 1 \in Int /\ m \in Int /\ \A i \in 1..m : i \in 1..Len(l)
  BY <1>1, <1>5, <1>6
<1>8. \A i \in 1..m : l[i] \in Sources
  BY <1>5, <1>7
<1>9. SubSeq(l, 1, m) \in Seq(Sources) /\ Len(SubSeq(l, 1, m)) = IF 1 <= m THEN m-1+1 ELSE 0
  BY <1>7, <1>8, SubSeqProperties
<1>10. Len(SubSeq(l, 1, m)) <= SensorCount
  BY <1>1, <1>6, <1>7, <1>9
<1>11. QED
  BY <1>9, <1>10 DEF m

\* The sources and the mode of a connector.
LEMMA TachoSourceFits ==
  ASSUME cfg \in Configs, NEW type \in TachoTypes, NEW l \in Seq(Int), SetTachoSource(type, l)
  PROVE  \E m \in MbfanCfg : Change([cfg EXCEPT !.mbfan = m])
<1> DEFINE named == {i \in DOMAIN l : \A j \in 1..i : ValidTacho(type, Id(type, l[j]))}
           fans  == {l[i] - 1 : i \in named}
<1>1. cfg.mbfan \in MbfanCfg
  BY ConfigTypes
<1>2. CASE type \in Many
  <2>1. Change([cfg EXCEPT !.mbfan.s_type = type, !.mbfan.s_id = 0, !.mbfan.sources = fans])
    BY <1>2 DEF SetTachoSource
  <2>2. fans \in SUBSET (0..FanSlots-1)
    <3>1. type # "fixed"
      BY <1>2 DEF Many
    <3>2. \A i \in named : i \in 1..i
      OBVIOUS
    <3>3. \A i \in named : ValidTacho(type, Id(type, l[i]))
      BY <3>2
    <3>4. \A i \in named : l[i] - 1 \in 0..FanSlots-1
      BY <3>1, <3>3 DEF ValidTacho, Id
    <3>5. QED
      BY <3>4
  <2> DEFINE m == [cfg.mbfan EXCEPT !.s_type = type, !.s_id = 0, !.sources = fans]
  <2>3. [cfg EXCEPT !.mbfan.s_type = type, !.mbfan.s_id = 0, !.mbfan.sources = fans] =
          [cfg EXCEPT !.mbfan = m]
    BY DEF Configs
  <2> HIDE DEF fans
  <2>4. m \in MbfanCfg
    BY <1>1, <2>2 DEF MbfanCfg
  <2> HIDE DEF m
  <2>5. QED
    BY <2>1, <2>3, <2>4 DEF fans
<1>3. CASE type \notin Many
  <2> DEFINE n == Id(type, l[1])
  <2>1. 1 \in named /\ Change([cfg EXCEPT !.mbfan.s_type = type, !.mbfan.s_id = n])
    BY <1>3 DEF SetTachoSource
  <2>2. ValidTacho(type, n) /\ n \in Int
    BY <2>1 DEF Id
  <2>3. n \in Nat
    <3> HIDE DEF n
    <3>1. QED
      BY <2>2, CountAssumption DEF ValidTacho
  <2> DEFINE m == [cfg.mbfan EXCEPT !.s_type = type, !.s_id = n]
  <2>4. [cfg EXCEPT !.mbfan.s_type = type, !.mbfan.s_id = n] = [cfg EXCEPT !.mbfan = m]
    BY DEF Configs
  <2> HIDE DEF n, named
  <2>5. m \in MbfanCfg
    BY <1>1, <2>3 DEF MbfanCfg
  <2> HIDE DEF m
  <2>6. QED
    BY <2>1, <2>4, <2>5
<1>4. QED
  BY <1>2, <1>3

LEMMA RpmModeFits ==
  ASSUME cfg \in Configs, NEW r, SetRpmMode(r),
         \/ r.mode = "tacho"
         \/ r.mode = "lra" /\ r.treshold \in Int /\ r.invert \in BOOLEAN
  PROVE  \E m \in MbfanCfg : Change([cfg EXCEPT !.mbfan = m])
<1>1. cfg.mbfan \in MbfanCfg
  BY ConfigTypes
<1>2. CASE r.mode = "tacho"
  <2>1. Change([cfg EXCEPT !.mbfan.rpm_mode = "tacho"])
    BY <1>2 DEF SetRpmMode
  <2>2. [cfg.mbfan EXCEPT !.rpm_mode = "tacho"] \in MbfanCfg
    BY <1>1 DEF MbfanCfg
  <2>3. QED
    BY <2>1, <2>2
<1>3. CASE r.mode = "lra"
  <2> DEFINE clamped == IF r.treshold < 0 THEN 0
                        ELSE IF r.treshold > 100000 THEN 100000 ELSE r.treshold
             n == clamped % 65536
             b == r.invert
             m == [cfg.mbfan EXCEPT !.rpm_mode = "lra", !.lra_treshold = n, !.lra_invert = b]
  <2>1. Change([cfg EXCEPT !.mbfan.rpm_mode = "lra", !.mbfan.lra_treshold = n, !.mbfan.lra_invert = b])
    BY <1>3 DEF SetRpmMode
  <2>2. b \in BOOLEAN /\ n \in Uint16
    <3>1. b \in BOOLEAN /\ clamped \in Nat
      BY <1>3
    <3> HIDE DEF clamped
    <3>2. n \in Uint16
      BY <3>1 DEF Uint16
    <3>3. QED
      BY <3>1, <3>2
  <2> HIDE DEF n, b
  <2>3. [cfg EXCEPT !.mbfan.rpm_mode = "lra", !.mbfan.lra_treshold = n, !.mbfan.lra_invert = b] =
          [cfg EXCEPT !.mbfan = m]
    BY DEF Configs
  <2>4. m \in MbfanCfg
    BY <1>1, <2>2 DEF MbfanCfg
  <2> HIDE DEF m
  <2>5. QED
    BY <2>1, <2>3, <2>4
<1>4. QED
  BY <1>2, <1>3

\* A command that changes a setting.
LEMMA SetsUsable ==
  ASSUME Usable(cfg), Setting
  PROVE  /\ Usable(cfg') /\ fresh' = FALSE /\ changes' = changes + 1 /\ task = "run"
         /\ UNCHANGED <<flash, printed, task, job, kept>>
<1> DEFINE Done(c) == Usable(c) /\ Change(c)
<1>1. SUFFICES \E c : Done(c)
  BY DEF Change
<1>2. cfg \in Configs
  BY DEF Usable, Stored
<1>3. DOMAIN Cleared = {"led_mode", "wifi_mode", "mqtt_tls", "snmp_community", "http_fan_mask",
                        "syslog_active", "ntp_active", "dns_servers", "ssh_acls",
                        "ssh_pub_keys", "fan", "mbfan", "sensor", "vsensor"}
  BY DEF Cleared
<1>4. /\ cfg.ssh_pub_keys \in [1..KeySlots -> Keys \cup {""}]
      /\ cfg.fan \in FanCfg /\ cfg.mbfan \in MbfanCfg /\ cfg.sensor \in SensorCfg
      /\ cfg.vsensor \in VsensorCfg
  BY <1>2, ConfigTypes
<1>5. \A k \in DOMAIN Cleared : \A v : Fits(k, v) => Usable([cfg EXCEPT ![k] = v])
  BY FitsIn
<1>6. CASE \E v \in {1, 3} : SetLedMode(v)
  <2>1. PICK v : v \in 0..2 /\ Change([cfg EXCEPT !.led_mode = v])
    BY <1>6 DEF SetLedMode
  <2>2. Fits("led_mode", v)
    BY <2>1 DEF Fits
  <2>3. QED
    BY <1>3, <1>5, <2>1, <2>2
<1>7. CASE \E s \in Communities : SetCommunity(s)
  <2>1. PICK s \in Communities : Change([cfg EXCEPT !.snmp_community = s])
    BY <1>7 DEF SetCommunity
  <2>2. Fits("snmp_community", s)
    BY <2>1 DEF Fits
  <2>3. QED
    BY <1>3, <1>5, <2>1, <2>2
<1>8. CASE \E m \in Masks : SetMask(m)
  <2>1. PICK m \in Masks : Change([cfg EXCEPT !.http_fan_mask = m])
    BY <1>8 DEF SetMask
  <2>2. Fits("http_fan_mask", m)
    BY <2>1, StoreAssumption DEF Fits
  <2>3. QED
    BY <1>3, <1>5, <2>1, <2>2
<1>9. CASE \E k \in {"mqtt_tls", "syslog_active", "ntp_active"}, b \in BOOLEAN : SetFlag(k, b)
  <2>1. PICK k \in {"mqtt_tls", "syslog_active", "ntp_active"}, b \in BOOLEAN :
          Change([cfg EXCEPT ![k] = b])
    BY <1>9 DEF SetFlag
  <2>2. Fits(k, b)
    BY <2>1 DEF Fits
  <2>3. QED
    BY <1>3, <1>5, <2>1, <2>2
<1>10. CASE \E v \in Numbers : SetWifiMode(v)
  <2>1. PICK v \in Numbers : v % 256 \in 0..1 /\ Change([cfg EXCEPT !.wifi_mode = v % 256])
    BY <1>10 DEF SetWifiMode
  <2>2. Fits("wifi_mode", v % 256)
    BY <2>1 DEF Fits
  <2>3. QED
    BY <1>3, <1>5, <2>1, <2>2
<1>11. CASE \E l \in Addresses : SetServers(l)
  <2>1. PICK l \in Addresses :
          Change([cfg EXCEPT !.dns_servers = InSlots(UpTo(l, "any"), ServerSlots, "any")])
    BY <1>11 DEF SetServers
  <2>2. l \in Seq(Servers \cup {"any"})
    BY <2>1, ArgumentAssumption
  <2>3. Fits("dns_servers", InSlots(UpTo(l, "any"), ServerSlots, "any"))
    BY <2>2, ServersFit
  <2>4. QED
    BY <1>3, <1>5, <2>1, <2>3
<1>12. CASE \E l \in AccessLists : SetAcls(l)
  <2>1. PICK l \in AccessLists :
          Change([cfg EXCEPT !.ssh_acls = InSlots(UpTo(l, 0), AclSlots, 0)])
    BY <1>12 DEF SetAcls
  <2>2. l \in Seq(0..32)
    BY <2>1, ArgumentAssumption
  <2>3. Fits("ssh_acls", InSlots(UpTo(l, 0), AclSlots, 0))
    BY <2>2, AclsFit
  <2>4. QED
    BY <1>3, <1>5, <2>1, <2>3
<1>13. CASE \E k \in Keys : AddKey(k)
  <2> DEFINE free == {i \in 1..KeySlots : cfg.ssh_pub_keys[i] = ""}
  <2>1. PICK k \in Keys : free # {} /\ Change([cfg EXCEPT !.ssh_pub_keys[Min(free)] = k])
    BY <1>13 DEF AddKey
  <2>2. Fits("ssh_pub_keys", [cfg.ssh_pub_keys EXCEPT ![Min(free)] = k])
    BY <1>4 DEF Fits
  <2>3. QED
    BY <1>3, <1>5, <2>1, <2>2
<1>14. CASE \E i \in 1..KeySlots : DeleteKey(i)
  <2>1. PICK i \in 1..KeySlots : Change([cfg EXCEPT !.ssh_pub_keys[i] = ""])
    BY <1>14 DEF DeleteKey
  <2>2. Fits("ssh_pub_keys", [cfg.ssh_pub_keys EXCEPT ![i] = ""])
    BY <1>4 DEF Fits
  <2>3. QED
    BY <1>3, <1>5, <2>1, <2>2
<1>15. CASE \E s \in FanSources : SetFanSource(s[1], s[2])
  <2>1. PICK s \in FanSources :
          /\ ValidSource(s[1], Id(s[1], s[2]))
          /\ Change([cfg EXCEPT !.fan.s_type = s[1], !.fan.s_id = Id(s[1], s[2])])
    BY <1>15 DEF SetFanSource
  <2> DEFINE n == Id(s[1], s[2])
             f == [cfg.fan EXCEPT !.s_type = s[1], !.s_id = n]
  <2>2. s[1] \in SourceTypes /\ n \in Nat
    <3>1. s[1] \in SourceTypes /\ ValidSource(s[1], n)
      BY <2>1, ArgumentAssumption
    <3> HIDE DEF n
    <3>2. n \in Nat
      BY <3>1, CountAssumption DEF ValidSource
    <3>3. QED
      BY <3>1, <3>2
  <2>3. [cfg EXCEPT !.fan.s_type = s[1], !.fan.s_id = n] = [cfg EXCEPT !.fan = f]
    BY <1>2 DEF Configs
  <2> HIDE DEF n
  <2>4. f \in FanCfg
    BY <1>4, <2>2 DEF FanCfg
  <2> HIDE DEF f
  <2>5. Fits("fan", f)
    BY <2>4 DEF Fits
  <2>6. Change([cfg EXCEPT !.fan = f])
    BY <2>1, <2>3 DEF n
  <2>7. QED
    BY <1>3, <1>5, <2>5, <2>6
<1>16. CASE \E m \in Maps : SetPwmMap(m)
  <2>1. PICK m \in Maps : Change([cfg EXCEPT !.fan.map = m])
    BY <1>16 DEF SetPwmMap
  <2>2. Fits("fan", [cfg.fan EXCEPT !.map = m])
    BY <1>4, <2>1 DEF Fits, FanCfg
  <2>3. QED
    BY <1>3, <1>5, <2>1, <2>2
<1>17. CASE \E f \in Filters \cup {NoFilter} : SetFilter(f)
  <2>1. PICK f \in Filters \cup {NoFilter} : Change([cfg EXCEPT !.fan.filter = f])
    BY <1>17 DEF SetFilter
  <2>2. Fits("fan", [cfg.fan EXCEPT !.filter = f])
    BY <1>4, <2>1 DEF Fits, FanCfg
  <2>3. QED
    BY <1>3, <1>5, <2>1, <2>2
<1>18. CASE \E s \in TachoSources : SetTachoSource(s[1], s[2])
  <2>1. PICK s \in TachoSources : SetTachoSource(s[1], s[2])
    BY <1>18
  <2>2. s[1] \in TachoTypes /\ s[2] \in Seq(Int)
    BY <2>1, ArgumentAssumption
  <2>3. PICK m \in MbfanCfg : Change([cfg EXCEPT !.mbfan = m])
    BY <1>2, <2>1, <2>2, TachoSourceFits
  <2>4. Fits("mbfan", m)
    BY DEF Fits
  <2>5. QED
    BY <1>3, <1>5, <2>3, <2>4
<1>19. CASE \E r \in RpmModes : SetRpmMode(r)
  <2>1. PICK r \in RpmModes : SetRpmMode(r)
    BY <1>19
  <2>2. \/ r.mode = "tacho"
        \/ r.mode = "lra" /\ r.treshold \in Int /\ r.invert \in BOOLEAN
    BY <2>1, ArgumentAssumption
  <2>3. PICK m \in MbfanCfg : Change([cfg EXCEPT !.mbfan = m])
    BY <1>2, <2>1, <2>2, RpmModeFits
  <2>4. Fits("mbfan", m)
    BY DEF Fits
  <2>5. QED
    BY <1>3, <1>5, <2>3, <2>4
<1>20. CASE \E n \in Coefficients : SetBeta(n) \/ SetOffset(n)
  <2>1. PICK n \in Coefficients :
          \/ 0 <= n /\ Change([cfg EXCEPT !.sensor.beta = n])
          \/ Change([cfg EXCEPT !.sensor.offset = n])
    BY <1>20 DEF SetBeta, SetOffset
  <2>2. n \in Int
    BY <2>1, ArgumentAssumption
  <2>3. 0 <= n => Fits("sensor", [cfg.sensor EXCEPT !.beta = n])
    <3> SUFFICES ASSUME 0 <= n PROVE Fits("sensor", [cfg.sensor EXCEPT !.beta = n])
      OBVIOUS
    <3>1. n \in Nat
      BY <2>2
    <3>2. [cfg.sensor EXCEPT !.beta = n] \in SensorCfg
      BY <1>4, <3>1 DEF SensorCfg
    <3>3. QED
      BY <3>2 DEF Fits
  <2>4. Fits("sensor", [cfg.sensor EXCEPT !.offset = n])
    BY <1>4, <2>2 DEF Fits, SensorCfg
  <2>5. QED
    BY <1>3, <1>5, <2>1, <2>3, <2>4
<1>21. CASE \E t \in Timeouts : SetManual(t)
  <2>1. PICK t \in Timeouts :
          Change([cfg EXCEPT !.vsensor.mode = "manual", !.vsensor.timeout = IF t < 0 THEN 0 ELSE t])
    BY <1>21 DEF SetManual
  <2> DEFINE n == IF t < 0 THEN 0 ELSE t
             v == [cfg.vsensor EXCEPT !.mode = "manual", !.timeout = n]
  <2>2. n \in Nat
    BY <2>1, ArgumentAssumption
  <2>3. [cfg EXCEPT !.vsensor.mode = "manual", !.vsensor.timeout = n] = [cfg EXCEPT !.vsensor = v]
    BY <1>2 DEF Configs
  <2> HIDE DEF n
  <2>4. v \in VsensorCfg /\ v.sensors = cfg.vsensor.sensors
    BY <1>4, <2>2 DEF VsensorCfg
  <2> HIDE DEF v
  <2>5. Fits("vsensor", v)
    BY <2>4 DEF Fits, Usable
  <2>6. Change([cfg EXCEPT !.vsensor = v])
    BY <2>1, <2>3 DEF n
  <2>7. QED
    BY <1>3, <1>5, <2>5, <2>6
<1>22. CASE \E mode \in {"i2c", "onewire"} : SetDevice(mode, "x")
  <2>1. PICK mode \in {"i2c", "onewire"} :
          Change([cfg EXCEPT !.vsensor.mode = mode, !.vsensor[mode] = "x"])
    BY <1>22 DEF SetDevice
  <2> DEFINE v == [cfg.vsensor EXCEPT !.mode = mode, ![mode] = "x"]
  <2>2. [cfg EXCEPT !.vsensor.mode = mode, !.vsensor[mode] = "x"] = [cfg EXCEPT !.vsensor = v]
    BY <1>2 DEF Configs
  <2>3. v \in VsensorCfg /\ v.sensors = cfg.vsensor.sensors
    BY <1>4, <2>1 DEF VsensorCfg, Devices
  <2> HIDE DEF v
  <2>4. Fits("vsensor", v)
    BY <2>3 DEF Fits, Usable
  <2>5. QED
    BY <1>3, <1>5, <2>1, <2>2, <2>4
<1>23. CASE \E l \in SourceLists : SetCombined(l)
  <2>1. PICK l \in SourceLists :
          Change([cfg EXCEPT !.vsensor.mode = "avg",
                             !.vsensor.sensors = SubSeq(l, 1, Min({Len(l), SensorCount}))])
    BY <1>23 DEF SetCombined
  <2> DEFINE p == SubSeq(l, 1, Min({Len(l), SensorCount}))
             v == [cfg.vsensor EXCEPT !.mode = "avg", !.sensors = p]
  <2>2. p \in Seq(Sources) /\ Len(p) <= SensorCount
    BY <2>1, CombinedFits
  <2>3. [cfg EXCEPT !.vsensor.mode = "avg", !.vsensor.sensors = p] = [cfg EXCEPT !.vsensor = v]
    BY <1>2 DEF Configs
  <2> HIDE DEF p
  <2>4. v \in VsensorCfg /\ v.sensors = p
    BY <1>4, <2>2 DEF VsensorCfg
  <2> HIDE DEF v
  <2>5. Fits("vsensor", v)
    BY <2>2, <2>4 DEF Fits
  <2>6. Change([cfg EXCEPT !.vsensor = v])
    BY <2>1, <2>3 DEF p
  <2>7. QED
    BY <1>3, <1>5, <2>5, <2>6
<1>24. QED
  BY <1>6, <1>7, <1>8, <1>9, <1>10, <1>11, <1>12, <1>13, <1>14, <1>15, <1>16, <1>17, <1>18,
     <1>19, <1>20, <1>21, <1>22, <1>23 DEF Setting

-------------------------------------------------------------------------------
(***************************************************************************)
(* The invariant.                                                         *)
(***************************************************************************)
Texts == {Json(c) : c \in Stored}
Contents == {Missing, EmptyFile, Broken} \cup {Whole(j) : j \in Texts}

StoreTypeOK ==
  /\ Usable(cfg) /\ fresh \in BOOLEAN /\ changes \in Nat
  /\ flash \in [Files -> Contents] /\ printed \in {NoText} \cup Texts
  /\ task \in {"boot", "run", "save", "copy"} /\ job \in Files \X Files
  /\ kept \in [Files -> [known : BOOLEAN, cfg : Stored]]

\* A configuration that was loaded has lost what a save loses.
LoadedInv == task # "boot" /\ fresh => Settled(cfg)

\* What is said to be saved in a file is there.
KeptInv == \A n \in Files : kept[n].known => flash[n] = Whole(Json(kept[n].cfg))

\* The destination of a copy was missing, so nothing is said to be saved in it.
CopyInv == task = "copy" => flash[job[2]] = EmptyFile

StoreInv == StoreTypeOK /\ LoadedInv /\ KeptInv /\ CopyInv

\* A file that can be parsed has a text, and no other has one that was saved.
LEMMA ContentsDiffer ==
  /\ \A f \in Contents : f.state = "whole" => f.text \in Texts
  /\ \A j : Whole(j).state = "whole" /\ Whole(j).text = j
  /\ Missing.state = "missing" /\ EmptyFile.state = "empty" /\ Broken.state = "broken"
BY DEF Contents, Missing, EmptyFile, Broken, Whole

LEMMA FilesOpen ==
  /\ {Missing, EmptyFile, Broken} \subseteq Contents
  /\ \A c \in Stored : Json(c) \in Texts /\ Whole(Json(c)) \in Contents
  /\ ConfigFile \in Files /\ Backup \in Files
  /\ Unknown \in [known : BOOLEAN, cfg : Stored] /\ Unknown.known = FALSE
  /\ \A c \in Stored : [known |-> TRUE, cfg |-> c] \in [known : BOOLEAN, cfg : Stored]
<1>1. Cleared \in Stored
  BY ClearedStored
<1>2. {Missing, EmptyFile, Broken} \subseteq Contents
  BY DEF Contents
<1>3. \A c \in Stored : Json(c) \in Texts /\ Whole(Json(c)) \in Contents
  BY DEF Texts, Contents
<1>4. ConfigFile \in Files /\ Backup \in Files
  BY DEF Files
<1>5. Unknown \in [known : BOOLEAN, cfg : Stored] /\ Unknown.known = FALSE
  BY <1>1 DEF Unknown
<1>6. QED
  BY <1>2, <1>3, <1>4, <1>5

\* What is loaded of a text that was saved.
LEMMA TextSettles ==
  ASSUME NEW j \in Texts
  PROVE  Settled(Load(j))
BY LoadSettles DEF Texts

LEMMA SettledUsable ==
  ASSUME NEW c, Settled(c)
  PROVE  Usable(c)
BY DEF Settled, Usable

LEMMA StoreStart == StoreInit => StoreInv
<1> SUFFICES ASSUME StoreInit PROVE StoreInv
  OBVIOUS
<1>1. Usable(cfg) /\ fresh = TRUE /\ changes = 0 /\ task = "boot"
  BY ClearedStored DEF StoreInit, Usable
<1>2. flash \in [Files -> Contents] /\ kept \in [Files -> [known : BOOLEAN, cfg : Stored]]
      /\ \A n \in Files : kept[n].known = FALSE
  BY FilesOpen DEF StoreInit
<1>3. printed \in {NoText} \cup Texts
  BY StoreAssumption, FilesOpen DEF StoreInit
<1>4. job \in Files \X Files
  BY FilesOpen DEF StoreInit
<1>5. StoreTypeOK
  BY <1>1, <1>2, <1>3, <1>4 DEF StoreTypeOK
<1>6. QED
  BY <1>1, <1>2, <1>5 DEF StoreInv, LoadedInv, KeptInv, CopyInv

\* Steps that change the configuration only.
LEMMA ConfigSteps ==
  ASSUME StoreInv, Boot \/ Restart \/ Setting \/ Upload
  PROVE  StoreInv'
<1> USE DEF StoreInv
<1>1. \A j \in Texts : Settled(Load(j)) /\ Usable(Load(j))
  BY TextSettles, SettledUsable
<1>2. CASE Boot
  <2> DEFINE j == IF ~Safemode /\ Readable(ConfigFile) THEN flash[ConfigFile].text ELSE DefaultJson
  <2>1. Settled(Load(j))
    <3>1. CASE ~Safemode /\ Readable(ConfigFile)
      <4>1. flash[ConfigFile] \in Contents /\ flash[ConfigFile].state = "whole"
        BY <3>1, FilesOpen DEF StoreTypeOK, Readable
      <4>2. flash[ConfigFile].text \in Texts
        BY <4>1, ContentsDiffer
      <4>3. QED
        BY <1>1, <3>1, <4>2
    <3>2. CASE ~(~Safemode /\ Readable(ConfigFile))
      BY <3>2, DefaultSettles
    <3>3. QED
      BY <3>1, <3>2
  <2>2. /\ cfg' = Load(j) /\ fresh' = TRUE /\ task' = "run"
        /\ UNCHANGED <<flash, printed, job, changes, kept>>
    BY <1>2 DEF Boot
  <2> HIDE DEF j
  <2>3. Settled(cfg') /\ Usable(cfg')
    BY <2>1, <2>2, SettledUsable
  <2>4. StoreTypeOK'
    BY <2>2, <2>3 DEF StoreTypeOK
  <2>5. LoadedInv' /\ KeptInv' /\ CopyInv'
    BY <2>2, <2>3 DEF LoadedInv, KeptInv, CopyInv
  <2>6. QED
    BY <2>4, <2>5
<1>3. CASE Restart
  <2>1. /\ task' = "boot" /\ cfg' = Cleared /\ fresh' = TRUE /\ job' = <<ConfigFile, ConfigFile>>
        /\ UNCHANGED <<flash, printed, changes, kept>>
    BY <1>3 DEF Restart
  <2>2. Usable(cfg') /\ job' \in Files \X Files
    BY <2>1, ClearedStored, FilesOpen DEF Usable
  <2>3. StoreTypeOK'
    BY <2>1, <2>2 DEF StoreTypeOK
  <2>4. LoadedInv' /\ KeptInv' /\ CopyInv'
    BY <2>1 DEF LoadedInv, KeptInv, CopyInv
  <2>5. QED
    BY <2>3, <2>4
<1>4. CASE Setting
  <2>1. /\ Usable(cfg') /\ fresh' = FALSE /\ changes' = changes + 1 /\ task = "run"
        /\ UNCHANGED <<flash, printed, task, job, kept>>
    BY <1>4, SetsUsable DEF StoreTypeOK
  <2>5. changes' \in Nat
    BY <2>1 DEF StoreTypeOK
  <2>2. StoreTypeOK'
    BY <2>1, <2>5, Zenon DEF StoreTypeOK
  <2>3. LoadedInv' /\ KeptInv' /\ CopyInv'
    BY <2>1 DEF LoadedInv, KeptInv, CopyInv
  <2>4. QED
    BY <2>2, <2>3
<1>5. CASE Upload
  <2>1. /\ printed # NoText /\ cfg' = Load(printed) /\ fresh' = TRUE
        /\ UNCHANGED <<flash, printed, task, job, changes, kept>>
    BY <1>5 DEF Upload
  <2>2. Settled(cfg') /\ Usable(cfg')
    BY <1>1, <2>1 DEF StoreTypeOK
  <2>3. StoreTypeOK'
    BY <2>1, <2>2 DEF StoreTypeOK
  <2>4. LoadedInv' /\ KeptInv' /\ CopyInv'
    BY <2>1, <2>2 DEF LoadedInv, KeptInv, CopyInv
  <2>5. QED
    BY <2>3, <2>4
<1>6. QED
  BY <1>2, <1>3, <1>4, <1>5

\* Steps that write one file: what is known of it is there, and of the others nothing
\* changes.
LEMMA OneFile ==
  ASSUME StoreInv, NEW n \in Files, NEW f \in Contents, NEW k \in [known : BOOLEAN, cfg : Stored],
         k.known => f = Whole(Json(k.cfg)),
         flash' = [flash EXCEPT ![n] = f], kept' = [kept EXCEPT ![n] = k]
  PROVE  /\ flash' \in [Files -> Contents] /\ KeptInv'
         /\ kept' \in [Files -> [known : BOOLEAN, cfg : Stored]]
<1>1. flash \in [Files -> Contents] /\ kept \in [Files -> [known : BOOLEAN, cfg : Stored]] /\ KeptInv
  BY DEF StoreInv, StoreTypeOK
<1>2. flash' \in [Files -> Contents] /\ kept' \in [Files -> [known : BOOLEAN, cfg : Stored]]
  BY <1>1
<1>3. ASSUME NEW m \in Files, kept'[m].known PROVE flash'[m] = Whole(Json(kept'[m].cfg))
  <2>1. CASE m = n
    BY <1>1, <1>3, <2>1
  <2>2. CASE m # n
    <3>1. kept'[m] = kept[m] /\ flash'[m] = flash[m]
      BY <1>1, <2>2
    <3>2. QED
      BY <1>1, <1>3, <3>1 DEF KeptInv
  <2>3. QED
    BY <2>1, <2>2
<1>4. QED
  BY <1>2, <1>3 DEF KeptInv

\* A file of which nothing is known can be anything.
LEMMA Same ==
  ASSUME StoreInv, NEW n \in Files
  PROVE  kept = [kept EXCEPT ![n] = kept[n]] /\ kept[n] \in [known : BOOLEAN, cfg : Stored]
         /\ flash[n] \in Contents /\ (kept[n].known => flash[n] = Whole(Json(kept[n].cfg)))
         /\ (flash[n].state # "whole" => ~kept[n].known)
<1>1. flash \in [Files -> Contents] /\ kept \in [Files -> [known : BOOLEAN, cfg : Stored]] /\ KeptInv
  BY DEF StoreInv, StoreTypeOK
<1>2. kept[n].known => flash[n].state = "whole"
  BY <1>1, ContentsDiffer DEF KeptInv
<1>3. QED
  BY <1>1, <1>2 DEF KeptInv

\* Saving.
LEMMA SaveSteps ==
  ASSUME StoreInv, SaveOpen \/ SaveClose \/ SaveFails
  PROVE  StoreInv'
<1> DEFINE f == flash[ConfigFile]
<1>1. Usable(cfg) /\ cfg \in Stored /\ ConfigFile \in Files
  BY FilesOpen DEF StoreInv, StoreTypeOK, Usable
<1>2. CASE SaveOpen
  <2> DEFINE g == IF f.state = "missing" THEN EmptyFile ELSE f
  <2>1. /\ task = "run" /\ task' = "save" /\ flash' = [flash EXCEPT ![ConfigFile] = g]
        /\ UNCHANGED <<cfg, printed, job, changes, fresh, kept>>
    BY <1>2 DEF SaveOpen
  <2>2. g \in Contents /\ (kept[ConfigFile].known => g = Whole(Json(kept[ConfigFile].cfg)))
    BY <1>1, Same, FilesOpen
  <2>3. kept' = [kept EXCEPT ![ConfigFile] = kept[ConfigFile]]
        /\ kept[ConfigFile] \in [known : BOOLEAN, cfg : Stored]
    BY <1>1, <2>1, Same
  <2> HIDE DEF g
  <2>4. flash' \in [Files -> Contents] /\ KeptInv'
        /\ kept' \in [Files -> [known : BOOLEAN, cfg : Stored]]
    BY <1>1, <2>1, <2>2, <2>3, OneFile
  <2>5. StoreTypeOK'
    BY <2>1, <2>4 DEF StoreInv, StoreTypeOK
  <2>6. LoadedInv' /\ CopyInv'
    BY <2>1 DEF StoreInv, LoadedInv, CopyInv
  <2>7. QED
    BY <2>4, <2>5, <2>6 DEF StoreInv
<1>3. CASE SaveClose
  <2> DEFINE g == Whole(Json(cfg))
             k == [known |-> TRUE, cfg |-> cfg]
  <2>1. /\ task = "save" /\ task' = "run" /\ flash' = [flash EXCEPT ![ConfigFile] = g]
        /\ kept' = [kept EXCEPT ![ConfigFile] = k]
        /\ UNCHANGED <<cfg, printed, job, changes, fresh>>
    BY <1>3 DEF SaveClose
  <2>2. g \in Contents /\ k \in [known : BOOLEAN, cfg : Stored] /\ g = Whole(Json(k.cfg))
    BY <1>1, FilesOpen
  <2> HIDE DEF g, k
  <2>3. flash' \in [Files -> Contents] /\ KeptInv'
        /\ kept' \in [Files -> [known : BOOLEAN, cfg : Stored]]
    BY <1>1, <2>1, <2>2, OneFile
  <2>4. StoreTypeOK'
    BY <2>1, <2>3 DEF StoreInv, StoreTypeOK
  <2>5. LoadedInv' /\ CopyInv'
    BY <2>1 DEF StoreInv, LoadedInv, CopyInv
  <2>6. QED
    BY <2>3, <2>4, <2>5 DEF StoreInv
<1>4. CASE SaveFails
  <2>1. task = "save" /\ task' = "run" /\ UNCHANGED <<cfg, flash, printed, job, changes, fresh, kept>>
    BY <1>4 DEF SaveFails
  <2>2. StoreTypeOK'
    BY <2>1 DEF StoreInv, StoreTypeOK
  <2>3. QED
    BY <2>1, <2>2 DEF StoreInv, LoadedInv, KeptInv, CopyInv
<1>5. QED
  BY <1>2, <1>3, <1>4

\* Copying.
LEMMA CopySteps ==
  ASSUME StoreInv, NEW src \in Files, NEW dst \in Files,
         CopyOpen(src, dst) \/ CopyClose \/ CopyFails
  PROVE  StoreInv'
<1>1. job \in Files \X Files /\ job[1] \in Files /\ job[2] \in Files
      /\ <<ConfigFile, ConfigFile>> \in Files \X Files
  BY FilesOpen DEF StoreInv, StoreTypeOK
<1>2. CASE CopyOpen(src, dst)
  <2>1. /\ task = "run" /\ flash[dst].state = "missing" /\ task' = "copy" /\ job' = <<src, dst>>
        /\ flash' = [flash EXCEPT ![dst] = EmptyFile]
        /\ UNCHANGED <<cfg, printed, changes, fresh, kept>>
    BY <1>2 DEF CopyOpen
  <2>2. ~kept[dst].known
    BY <2>1, Same
  <2>3. kept' = [kept EXCEPT ![dst] = kept[dst]] /\ kept[dst] \in [known : BOOLEAN, cfg : Stored]
    BY <2>1, Same
  <2>4. flash' \in [Files -> Contents] /\ KeptInv'
        /\ kept' \in [Files -> [known : BOOLEAN, cfg : Stored]]
    BY <2>1, <2>2, <2>3, FilesOpen, OneFile
  <2>5. StoreTypeOK'
    BY <2>1, <2>4 DEF StoreInv, StoreTypeOK
  <2>6. LoadedInv' /\ CopyInv'
    <3>1. flash'[dst] = EmptyFile /\ job'[2] = dst
      BY <2>1 DEF StoreInv, StoreTypeOK
    <3>2. QED
      BY <2>1, <3>1 DEF StoreInv, LoadedInv, CopyInv
  <2>7. QED
    BY <2>4, <2>5, <2>6 DEF StoreInv
<1>3. CASE CopyClose
  <2> DEFINE f == flash[job[1]]
             k == kept[job[1]]
             n == job[2]
  <2>1. /\ task = "copy" /\ task' = "run" /\ job' = <<ConfigFile, ConfigFile>>
        /\ flash' = [flash EXCEPT ![n] = f] /\ kept' = [kept EXCEPT ![n] = k]
        /\ UNCHANGED <<cfg, printed, changes, fresh>>
    BY <1>3 DEF CopyClose
  <2>2. n \in Files /\ f \in Contents /\ k \in [known : BOOLEAN, cfg : Stored]
        /\ (k.known => f = Whole(Json(k.cfg)))
    BY <1>1, Same
  <2> HIDE DEF f, k, n
  <2>3. flash' \in [Files -> Contents] /\ KeptInv'
        /\ kept' \in [Files -> [known : BOOLEAN, cfg : Stored]]
    BY <2>1, <2>2, OneFile
  <2>4. StoreTypeOK'
    BY <1>1, <2>1, <2>3 DEF StoreInv, StoreTypeOK
  <2>5. LoadedInv' /\ CopyInv'
    BY <2>1 DEF StoreInv, LoadedInv, CopyInv
  <2>6. QED
    BY <2>3, <2>4, <2>5 DEF StoreInv
<1>4. CASE CopyFails
  <2> DEFINE n == job[2]
  <2>1. /\ task = "copy" /\ task' = "run" /\ job' = <<ConfigFile, ConfigFile>>
        /\ UNCHANGED <<cfg, printed, changes, fresh, kept>>
    BY <1>4 DEF CopyFails
  <2>2. PICK f \in {EmptyFile, Broken} : flash' = [flash EXCEPT ![n] = f]
    BY <1>4 DEF CopyFails
  <2>3. n \in Files /\ flash[n] = EmptyFile
    BY <1>1, <2>1 DEF StoreInv, CopyInv
  <2>4. ~kept[n].known
    BY <2>3, ContentsDiffer, Same
  <2> HIDE DEF n
  <2>5. kept' = [kept EXCEPT ![n] = kept[n]] /\ kept[n] \in [known : BOOLEAN, cfg : Stored]
    BY <2>1, <2>3, Same
  <2>6. flash' \in [Files -> Contents] /\ KeptInv'
        /\ kept' \in [Files -> [known : BOOLEAN, cfg : Stored]]
    BY <2>2, <2>3, <2>4, <2>5, FilesOpen, OneFile
  <2>7. StoreTypeOK'
    BY <1>1, <2>1, <2>6 DEF StoreInv, StoreTypeOK
  <2>8. LoadedInv' /\ CopyInv'
    BY <2>1 DEF StoreInv, LoadedInv, CopyInv
  <2>9. QED
    BY <2>6, <2>7, <2>8 DEF StoreInv
<1>5. QED
  BY <1>2, <1>3, <1>4

\* Deleting, renaming and formatting.
LEMMA FileSteps ==
  ASSUME StoreInv, NEW n \in Files, NEW m \in Files, Rename(n, m) \/ Delete(n) \/ Format
  PROVE  StoreInv'
<1>1. flash \in [Files -> Contents] /\ kept \in [Files -> [known : BOOLEAN, cfg : Stored]] /\ KeptInv
  BY DEF StoreInv, StoreTypeOK
<1>2. task = "run" /\ UNCHANGED <<cfg, printed, task, job, changes, fresh>>
  BY DEF Rename, Delete, Format
<1>3. flash' \in [Files -> Contents] /\ KeptInv'
      /\ kept' \in [Files -> [known : BOOLEAN, cfg : Stored]]
  <2>1. CASE Delete(n)
    <3>1. flash' = [flash EXCEPT ![n] = Missing] /\ kept' = [kept EXCEPT ![n] = Unknown]
      BY <2>1 DEF Delete
    <3>2. QED
      BY <3>1, FilesOpen, OneFile
  <2>2. CASE Rename(n, m)
    <3>1. /\ n # m /\ flash' = [flash EXCEPT ![m] = flash[n], ![n] = Missing]
          /\ kept' = [kept EXCEPT ![m] = kept[n], ![n] = Unknown]
      BY <2>2 DEF Rename
    <3>2. /\ \A i \in Files : flash'[i] = IF i = n THEN Missing ELSE IF i = m THEN flash[n] ELSE flash[i]
          /\ \A i \in Files : kept'[i] = IF i = n THEN Unknown ELSE IF i = m THEN kept[n] ELSE kept[i]
      BY <1>1, <3>1
    <3>3. flash' \in [Files -> Contents] /\ kept' \in [Files -> [known : BOOLEAN, cfg : Stored]]
      BY <1>1, <3>1, FilesOpen
    <3>4. KeptInv'
      BY <1>1, <3>2, FilesOpen DEF KeptInv
    <3>5. QED
      BY <3>3, <3>4
  <2>3. CASE Format
    <3>1. flash' = [i \in Files |-> Missing] /\ kept' = [i \in Files |-> Unknown]
      BY <2>3 DEF Format
    <3>2. QED
      BY <3>1, FilesOpen DEF KeptInv
  <2>4. QED
    BY <2>1, <2>2, <2>3
<1>4. StoreTypeOK'
  BY <1>2, <1>3 DEF StoreInv, StoreTypeOK
<1>5. LoadedInv' /\ CopyInv'
  BY <1>2 DEF StoreInv, LoadedInv, CopyInv
<1>6. QED
  BY <1>3, <1>4, <1>5 DEF StoreInv

LEMMA StoreStep == StoreInv /\ [StoreNext]_storeVars => StoreInv'
<1> SUFFICES ASSUME StoreInv, [StoreNext]_storeVars PROVE StoreInv'
  OBVIOUS
<1>1. CASE Boot \/ Restart \/ Setting \/ Upload
  BY <1>1, ConfigSteps
<1>2. CASE SaveOpen \/ SaveClose \/ SaveFails
  BY <1>2, SaveSteps
<1>3. CASE CopyClose \/ CopyFails
  BY <1>3, CopySteps, FilesOpen
<1>4. CASE \E src, dst \in Files : CopyOpen(src, dst) \/ Rename(src, dst)
  BY <1>4, CopySteps, FileSteps
<1>5. CASE \E n \in Files : Delete(n)
  BY <1>5, FileSteps
<1>6. CASE Format
  BY <1>6, FileSteps, FilesOpen
<1>7. CASE PrintConfig
  <2>1. printed' = Json(cfg) /\ UNCHANGED <<cfg, flash, task, job, changes, fresh, kept>>
    BY <1>7 DEF PrintConfig
  <2>2. printed' \in Texts
    BY <2>1, FilesOpen DEF StoreInv, StoreTypeOK, Usable
  <2>3. StoreTypeOK'
    BY <2>1, <2>2 DEF StoreInv, StoreTypeOK
  <2>4. QED
    BY <2>1, <2>3 DEF StoreInv, LoadedInv, KeptInv, CopyInv
<1>8. CASE UNCHANGED storeVars
  <2>1. StoreTypeOK'
    BY <1>8 DEF StoreInv, StoreTypeOK, storeVars
  <2>2. QED
    BY <1>8, <2>1 DEF StoreInv, LoadedInv, KeptInv, CopyInv, storeVars
<1>9. QED
  BY <1>1, <1>2, <1>3, <1>4, <1>5, <1>6, <1>7, <1>8 DEF StoreNext

\* In every state the configuration is one that can be saved, and what is said to be
\* saved in a file is there.
THEOREM StoreInvariance == StoreSpec => []StoreInv
<1>1. StoreInit => StoreInv
  BY StoreStart
<1>2. StoreInv /\ [StoreNext]_storeVars => StoreInv'
  BY StoreStep
<1>3. QED
  BY <1>1, <1>2, PTL DEF StoreSpec

\* The configuration and the files have their types (save_config(), read_config(), and
\* the commands that change settings and files).
THEOREM StoreTypeCorrect == StoreSpec => []StoreTypeOK
<1>1. StoreInv => StoreTypeOK
  BY DEF StoreInv
<1>2. QED
  BY <1>1, StoreInvariance, PTL

\* Of any configuration that commands can make, a save and a load keep what SaveKeeps
\* says (config_to_json(), clear_config() and json_to_config()).
THEOREM SettingsKept == StoreSpec => []SaveKeeps
<1>1. StoreInv => SaveKeeps
  BY UsableKept DEF StoreInv, StoreTypeOK
<1>2. QED
  BY <1>1, StoreInvariance, PTL

\* What was loaded is not changed by further saves and loads (json_to_config() after
\* config_to_json()).
THEOREM LoadsAreStable == StoreSpec => []LoadStable
<1>1. StoreInv => LoadStable
  BY SettledStays DEF StoreInv, LoadedInv, LoadStable
<1>2. QED
  BY <1>1, StoreInvariance, PTL

\* The unit comes up with what was saved last (save_config(), flash_copy_file(),
\* flash_rename_file() and read_config()).
THEOREM SavedSurvives == StoreSpec => SaveSurvives
<1> DEFINE Survives == task = "boot" /\ task' = "run" /\ kept[ConfigFile].known /\ ~Safemode
                         => cfg' = Load(Json(kept[ConfigFile].cfg))
<1>1. StoreInv /\ [StoreNext]_storeVars => [Survives]_storeVars
  <2> SUFFICES ASSUME StoreInv, StoreNext, task = "boot", task' = "run",
                      kept[ConfigFile].known, ~Safemode
               PROVE  cfg' = Load(Json(kept[ConfigFile].cfg))
    OBVIOUS
  <2>1. Boot
    BY SetsUsable DEF StoreNext, Restart, SaveOpen, SaveClose, SaveFails, CopyOpen, CopyClose,
       CopyFails, Rename, Delete, Format, PrintConfig, Upload, StoreInv, StoreTypeOK
  <2>2. flash[ConfigFile] = Whole(Json(kept[ConfigFile].cfg))
    BY FilesOpen DEF StoreInv, KeptInv
  <2>3. Readable(ConfigFile) /\ flash[ConfigFile].text = Json(kept[ConfigFile].cfg)
    BY <2>2, ContentsDiffer DEF Readable
  <2>4. QED
    BY <2>1, <2>3 DEF Boot
<1>2. QED
  BY <1>1, StoreInvariance, PTL DEF StoreSpec, SaveSurvives

===============================================================================
