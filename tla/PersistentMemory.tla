--------------------------- MODULE PersistentMemory ---------------------------
(***************************************************************************)
(* The block of RAM that survives a soft reset.                           *)
(*                                                                         *)
(* It counts soft resets and the time the unit has been on, and keeps the *)
(* time of day and the timezone.  It has no initializer: after a power-up *)
(* it holds anything, after a reset what the program left there.  A CRC   *)
(* tells a block that was left complete from any other, which is replaced *)
(* by an empty one.  A reset may come between any two steps.  Core 0      *)
(* updates the block from its main loop, and from the DHCP hook, which    *)
(* runs in interrupts of that core.                                       *)
(*                                                                         *)
(* The CRC is modelled as a copy of what it is computed from, the time of *)
(* day as the uptime at which the clock showed it.                        *)
(***************************************************************************)
EXTENDS Integers

CONSTANTS
  Local,      \* timezone that may be configured
  Server,     \* timezone the DHCP server sends
  Lag,        \* longest time between two updates, or from the reset to the first
  MaxTime,    \* bound: length of one boot
  MaxBoots    \* bound: resets after power-up

ASSUME BoundsAssumption == Lag \in Nat \ {0} /\ MaxTime \in Nat /\ MaxBoots \in Nat
ASSUME ZoneAssumption == Local # "" /\ Server # ""

VARIABLES
  mem,      \* the block, without its CRC
  crc,      \* the block as it was when m->crc32 was computed
  mutex,    \* pmem_mutex: "free", "main" or "irq"
  pc,       \* where the main program is
  irq,      \* where the DHCP hook is, "none" when it does not run
  up,       \* time since this boot
  since,    \* time since the last update, or since this boot
  tz,       \* environment variable TZ
  cfgTz,    \* cfg->timezone, "" when not configured
  rtc,      \* aon_timer_is_running()
  boots     \* resets so far

\* History since power-up: how long the unit was on before this boot, how often it was
\* reset, and the part of past before the last reset that came between a store to the
\* block and its CRC.
VARIABLES past, resets, gone

vars == <<mem, crc, mutex, pc, irq, up, since, tz, cfgTz, rtc, boots, past, resets, gone>>

Zones == {"", Local, Server}

\* saved is 0, or 1 + the uptime of the time of day.
Blocks == [id : BOOLEAN, saved : Nat, uptime : Nat, prev : Nat, total : Nat,
           warmstart : Nat, timezone : Zones]

TypeOK ==
  /\ mem \in Blocks /\ crc \in Blocks
  /\ mutex \in {"free", "main", "irq"}
  /\ pc \in {"init", "prev", "total", "warmstart", "sealed", "setup", "loop",
            "uptime", "crc"}
  /\ irq \in {"none", "crc", "setenv"}
  /\ up \in 0..MaxTime /\ since \in 0..Lag /\ rtc \in BOOLEAN
  /\ past \in Nat /\ resets \in Nat /\ gone \in Nat
  /\ tz \in Zones /\ cfgTz \in {"", Local} /\ boots \in 0..MaxBoots

\* memset(m, 0, sizeof(*m)), then id and len.
Empty == [id |-> TRUE, saved |-> 0, uptime |-> 0, prev |-> 0, total |-> 0,
          warmstart |-> 0, timezone |-> ""]

\* Power-up: anything, here a block without the identification.
Init ==
  /\ mem = [Empty EXCEPT !.id = FALSE] /\ crc = Empty
  /\ mutex = "free" /\ pc = "init" /\ irq = "none"
  /\ up = 0 /\ since = 0 /\ tz = "" /\ cfgTz \in {"", Local}
  /\ rtc = FALSE /\ boots = 0 /\ past = 0 /\ resets = 0 /\ gone = 0

history == <<boots, past, resets, gone>>
clock == <<up, since, rtc, history>>

-------------------------------------------------------------------------------
(***************************************************************************)
(* init_persistent_memory(), and the timezone in setup().                 *)
(***************************************************************************)
Intact == mem.id /\ mem = crc

\* A valid block: the timezone is restored, the clock is started with the time of day,
\* and the counters go on.
FoundBlock ==
  /\ pc = "init" /\ Intact
  /\ tz' = IF mem.timezone # "" THEN mem.timezone ELSE tz
  /\ rtc' = (rtc \/ mem.saved # 0)
  /\ pc' = IF mem.uptime # 0 THEN "prev" ELSE "warmstart"
  /\ UNCHANGED <<mem, crc, mutex, irq, up, since, cfgTz, history>>

\* Any other block is replaced: all it counted is lost.
NotFound ==
  /\ pc = "init" /\ ~Intact
  /\ mem' = Empty /\ crc' = Empty /\ pc' = "setup"
  /\ UNCHANGED <<mutex, irq, tz, cfgTz, clock>>

SetPrev ==
  /\ pc = "prev" /\ pc' = "total"
  /\ mem' = [mem EXCEPT !.prev = mem.uptime]
  /\ UNCHANGED <<crc, mutex, irq, tz, cfgTz, clock>>

\* MUTANT of AddTotal: the last boot replaces the sum of all boots.
AddTotalOnce ==
  /\ pc = "total" /\ pc' = "warmstart"
  /\ mem' = [mem EXCEPT !.total = mem.uptime]
  /\ UNCHANGED <<crc, mutex, irq, tz, cfgTz, clock>>

AddTotal ==
  /\ pc = "total" /\ pc' = "warmstart"
  /\ mem' = [mem EXCEPT !.total = @ + mem.uptime]
  /\ UNCHANGED <<crc, mutex, irq, tz, cfgTz, clock>>

CountReset ==
  /\ pc = "warmstart" /\ pc' = "sealed"
  /\ mem' = [mem EXCEPT !.warmstart = @ + 1]
  /\ UNCHANGED <<crc, mutex, irq, tz, cfgTz, clock>>

Seal ==
  /\ pc = "sealed" /\ pc' = "setup"
  /\ crc' = mem
  /\ UNCHANGED <<mem, mutex, irq, tz, cfgTz, clock>>

\* setup() applies the timezone of the configuration; nothing else runs yet.
SetupTimezone ==
  /\ pc = "setup" /\ pc' = "loop"
  /\ IF cfgTz # ""
     THEN mem' = [mem EXCEPT !.timezone = cfgTz] /\ crc' = mem' /\ tz' = cfgTz
     ELSE UNCHANGED <<mem, crc, tz>>
  /\ UNCHANGED <<mutex, irq, cfgTz, clock>>

-------------------------------------------------------------------------------
(***************************************************************************)
(* update_persistent_memory(), once a second and before *RST.             *)
(***************************************************************************)

\* The mutex, and the time of day when the clock runs.
Update ==
  /\ pc = "loop" /\ irq = "none" /\ mutex = "free"
  /\ mutex' = "main" /\ pc' = "uptime"
  /\ mem' = IF rtc THEN [mem EXCEPT !.saved = up + 1] ELSE mem
  /\ UNCHANGED <<crc, irq, tz, cfgTz, clock>>

StoreUptime ==
  /\ pc = "uptime" /\ irq = "none" /\ pc' = "crc"
  /\ mem' = [mem EXCEPT !.uptime = up]
  /\ UNCHANGED <<crc, mutex, irq, tz, cfgTz, clock>>

StoreCrc ==
  /\ pc = "crc" /\ irq = "none" /\ pc' = "loop"
  /\ crc' = mem /\ mutex' = "free" /\ since' = 0
  /\ UNCHANGED <<mem, irq, tz, cfgTz, up, rtc, history>>

-------------------------------------------------------------------------------
(***************************************************************************)
(* pico_dhcp_option_parse_hook() with a timezone.  It interrupts the main *)
(* program, which does not go on until it returns.                        *)
(***************************************************************************)
Wanted == cfgTz = "" /\ mem.timezone # Server

\* MUTANT of Lease: the hook stores the timezone without pmem_mutex.
LeaseUnlocked ==
  /\ pc \in {"loop", "uptime", "crc"} /\ irq = "none" /\ Wanted
  /\ irq' = "crc" /\ mem' = [mem EXCEPT !.timezone = Server]
  /\ UNCHANGED <<crc, mutex, pc, tz, cfgTz, clock>>

\* update_persistent_memory_tz() stores the timezone.
Lease ==
  /\ pc \in {"loop", "uptime", "crc"} /\ irq = "none" /\ Wanted /\ mutex = "free"
  /\ mutex' = "irq" /\ irq' = "crc"
  /\ mem' = [mem EXCEPT !.timezone = Server]
  /\ UNCHANGED <<crc, pc, tz, cfgTz, clock>>

\* The main program it interrupted holds the mutex: it gives up after 100 us.
LeaseBusy ==
  /\ pc \in {"loop", "uptime", "crc"} /\ irq = "none" /\ Wanted /\ mutex # "free"
  /\ irq' = "setenv"
  /\ UNCHANGED <<mem, crc, mutex, pc, tz, cfgTz, clock>>

LeaseCrc ==
  /\ irq = "crc" /\ irq' = "setenv"
  /\ crc' = mem /\ mutex' = IF mutex = "irq" THEN "free" ELSE mutex
  /\ UNCHANGED <<mem, pc, tz, cfgTz, clock>>

\* MUTANT of LeaseSetenv: the environment is set by the next reset only.
LeaseNoSetenv ==
  /\ irq = "setenv" /\ irq' = "none"
  /\ UNCHANGED <<mem, crc, mutex, pc, tz, cfgTz, clock>>

\* setenv("TZ", m->timezone, 1): what is in the block now.
LeaseSetenv ==
  /\ irq = "setenv" /\ irq' = "none"
  /\ tz' = mem.timezone
  /\ UNCHANGED <<mem, crc, mutex, pc, cfgTz, clock>>

-------------------------------------------------------------------------------
\* Time passes in setup() and in the main loop; updates themselves take no time.
Tick ==
  /\ pc \in {"init", "setup", "loop"} /\ irq = "none"
  /\ up < MaxTime /\ since < Lag
  /\ up' = up + 1 /\ since' = since + 1
  /\ UNCHANGED <<mem, crc, mutex, pc, irq, tz, cfgTz, rtc, history>>

\* The clock is set, and started when it does not run: by SNTP, in an interrupt, or by
\* a command between updates.
SetClock ==
  /\ pc \in {"loop", "uptime", "crc"} /\ irq = "none"
  /\ rtc' = TRUE
  /\ UNCHANGED <<mem, crc, mutex, pc, irq, up, since, tz, cfgTz, history>>

\* Between the first store to the block and its CRC.
Storing == pc \in {"total", "warmstart", "sealed", "uptime", "crc"} \/ irq = "crc"

\* The watchdog, the reset button, or a command: RAM stays, the rest starts over.
\* Whether the clock goes on depends on the chip.
Reset ==
  /\ boots < MaxBoots /\ boots' = boots + 1
  /\ past' = past + up /\ resets' = resets + 1 /\ up' = 0 /\ since' = 0
  /\ gone' = IF Storing THEN past' ELSE gone
  /\ pc' = "init" /\ irq' = "none" /\ mutex' = "free" /\ tz' = ""
  /\ rtc' \in {rtc, FALSE}
  /\ UNCHANGED <<mem, crc, cfgTz>>

Main ==
  \/ FoundBlock \/ NotFound \/ SetPrev \/ AddTotal \/ CountReset \/ Seal \/ SetupTimezone
  \/ Update \/ StoreUptime \/ StoreCrc

Next ==
  \/ Main
  \/ Lease \/ LeaseBusy \/ LeaseCrc \/ LeaseSetenv
  \/ Tick \/ SetClock \/ Reset

Spec == Init /\ [][Next]_vars

\* The program goes on between interrupts, an interrupt that has begun ends, and the
\* DHCP server, which sends its options with every renewal (hours apart), does not
\* find the mutex taken each time.
FairSpec ==
  Spec /\ SF_vars(Main) /\ WF_vars(LeaseCrc \/ LeaseSetenv) /\ SF_vars(Lease)

-------------------------------------------------------------------------------
\* A block that would be accepted after a reset is one that was left complete: the
\* time of day and the uptime in it were taken by the same update, unless the clock has
\* never run.  No update that finds the clock stopped leaves an older time of day there.
AcceptedWhole == Intact => mem.saved \in {0, mem.uptime + 1}

\* What total_uptime is short of the time the unit was on before this boot is at most
\* the time since the last update of each boot, and all that was counted before the last
\* reset that came between a store and the CRC: such a reset loses the whole block, any
\* other loses no more than its own boot's last interval.
PastCounted ==
  pc \in {"setup", "loop", "uptime", "crc"} => past <= mem.total + gone + resets * Lag

\* The timezone the DHCP server sends comes into effect, unless one is configured,
\* although the hook does not store it when it interrupts an update.
ServerZoneApplies == <>[](cfgTz # "" \/ tz = Server)

===============================================================================
