------------------------------- MODULE DualCore -------------------------------
(***************************************************************************)
(* The exchange between the two cores of the RP2040/RP2350.               *)
(*                                                                         *)
(* Core 0 owns the configuration (fanpico_config, read through "cfg"): it *)
(* runs the SCPI commands and polls the I2C sensors.  Core 1 runs the fan *)
(* control loop on a private copy (core1_config), which it refreshes once *)
(* a second under config_mutex.  The other way round core 1 publishes its *)
(* state (core1_state) in transfer_state under state_mutex, and core 0    *)
(* copies that buffer to system_state before it displays or reports it.   *)
(*                                                                         *)
(* A copy is a memcpy of kilobytes: the other core runs while it goes on. *)
(* Here a copy, and the assignments of a command, move one field per step.*)
(* The data of a field is the number of the transaction that wrote it.    *)
(***************************************************************************)
EXTENDS Naturals

CONSTANTS
  CfgFields,   \* groups of configuration fields that commands write
  FilterCtx,   \* the field that points to an allocated filter context
  StFields,    \* groups of fields of struct fanpico_state
  MaxWrites,   \* bound: transactions core 0 makes on the configuration
  MaxRounds    \* bound: rounds of the control loop that change the state

ASSUME FieldsAssumption ==
  /\ FilterCtx \in CfgFields
  /\ StFields # {}

ASSUME BoundsAssumption == MaxWrites \in Nat /\ MaxRounds \in Nat

VARIABLES
  cfg,         \* fanpico_config, as core 0 leaves it after each assignment
  cfgOwner,    \* holder of config_mutex
  core1cfg,    \* core1_config
  core1st,     \* core1_state
  transfer,    \* transfer_state
  stOwner,     \* holder of state_mutex
  system,      \* system_state
  heap,        \* filter contexts that are allocated
  pc0, pc1,    \* where each core is
  todo0,       \* fields core 0 still has to assign or to copy
  todo1,       \* fields core 1 still has to copy
  writes,      \* transactions begun so far
  rounds       \* control rounds so far

(***************************************************************************)
(* History variables: they record what the mutex sections have completed  *)
(* and never influence a step.                                            *)
(***************************************************************************)
VARIABLES
  committed,   \* cfg when config_mutex was last released by core 0
  adopted,     \* committed when core 1 last completed its copy
  published,   \* core1_state when core 1 last completed transfer_state
  fetched      \* published when core 0 last completed system_state

vars == <<cfg, cfgOwner, core1cfg, core1st, transfer, stOwner, system, heap,
          pc0, pc1, todo0, todo1, writes, rounds,
          committed, adopted, published, fetched>>

Core0 == "core0"
Core1 == "core1"
Nobody == "nobody"

CfgVersions == [CfgFields -> Nat]
StVersions  == [StFields -> Nat]

TypeOK ==
  /\ cfg \in CfgVersions /\ core1cfg \in CfgVersions
  /\ committed \in CfgVersions /\ adopted \in CfgVersions
  /\ core1st \in StVersions /\ transfer \in StVersions /\ system \in StVersions
  /\ published \in StVersions /\ fetched \in StVersions
  /\ cfgOwner \in {Nobody, Core0, Core1}
  /\ stOwner \in {Nobody, Core0, Core1}
  /\ heap \subseteq Nat
  /\ pc0 \in {"idle", "wait", "assign", "fetch"}
  /\ pc1 \in {"sense", "config", "copy", "state", "send"}
  /\ todo0 \subseteq IF pc0 = "fetch" THEN StFields ELSE CfgFields
  /\ todo1 \subseteq IF pc1 = "send" THEN StFields ELSE CfgFields
  /\ writes \in Nat /\ rounds \in Nat

\* main() copies cfg and system_state to core 1 before it launches it.
Init ==
  /\ cfg = [f \in CfgFields |-> 0] /\ core1cfg = cfg
  /\ committed = cfg /\ adopted = cfg
  /\ core1st = [f \in StFields |-> 0]
  /\ transfer = core1st /\ system = core1st
  /\ published = core1st /\ fetched = core1st
  /\ cfgOwner = Nobody /\ stOwner = Nobody
  /\ heap = {0}
  /\ pc0 = "idle" /\ pc1 = "sense"
  /\ todo0 = {} /\ todo1 = {}
  /\ writes = 0 /\ rounds = 0

-------------------------------------------------------------------------------
(***************************************************************************)
(* Core 0: commands, I2C updates and refreshes of system_state.           *)
(***************************************************************************)

\* run_cmd() with a command that is no query, or i2c_read_temps() with a new
\* measurement: the fields the handler is going to assign are known.
BeginWrite(F) ==
  /\ pc0 = "idle" /\ writes < MaxWrites
  /\ pc0' = "wait" /\ todo0' = F /\ writes' = writes + 1
  /\ UNCHANGED <<cfg, cfgOwner, core1cfg, core1st, transfer, stOwner, system,
                 heap, pc1, todo1, rounds, committed, adopted, published, fetched>>

\* MUTANT of EnterConfig: the handler runs without config_mutex.
EnterConfigUnlocked ==
  /\ pc0 = "wait" /\ pc0' = "assign"
  /\ UNCHANGED <<cfg, cfgOwner, core1cfg, core1st, transfer, stOwner, system, heap, pc1,
                 todo0, todo1, writes, rounds, committed, adopted, published, fetched>>

\* mutex_enter_blocking(config_mutex)
EnterConfig ==
  /\ pc0 = "wait" /\ cfgOwner = Nobody
  /\ cfgOwner' = Core0 /\ pc0' = "assign"
  /\ UNCHANGED <<cfg, core1cfg, core1st, transfer, stOwner, system, heap, pc1,
                 todo0, todo1, writes, rounds, committed, adopted, published, fetched>>

\* One assignment of the handler.  The filter commands allocate the new
\* context first and free the old one before they store the new pointer.
Assign(f) ==
  /\ pc0 = "assign" /\ f \in todo0
  /\ cfg' = [cfg EXCEPT ![f] = writes]
  /\ heap' = IF f = FilterCtx THEN (heap \ {cfg[f]}) \cup {writes} ELSE heap
  /\ todo0' = todo0 \ {f}
  /\ UNCHANGED <<cfgOwner, core1cfg, core1st, transfer, stOwner, system, pc0, pc1,
                 todo1, writes, rounds, committed, adopted, published, fetched>>

\* mutex_exit(config_mutex): the command is complete.
ExitConfig ==
  /\ pc0 = "assign" /\ todo0 = {}
  /\ cfgOwner' = Nobody /\ pc0' = "idle"
  /\ committed' = cfg
  /\ UNCHANGED <<cfg, core1cfg, core1st, transfer, stOwner, system, heap, pc1,
                 todo0, todo1, writes, rounds, adopted, published, fetched>>

\* MUTANT of BeginFetch: update_system_state() copies without state_mutex.
BeginFetchUnlocked ==
  /\ pc0 = "idle" /\ pc0' = "fetch" /\ todo0' = StFields
  /\ UNCHANGED <<cfg, cfgOwner, core1cfg, core1st, transfer, stOwner, system, heap, pc1,
                 todo1, writes, rounds, committed, adopted, published, fetched>>

\* update_system_state(): if the mutex is not free within a millisecond the
\* refresh is skipped, which changes nothing.
BeginFetch ==
  /\ pc0 = "idle" /\ stOwner = Nobody
  /\ stOwner' = Core0 /\ pc0' = "fetch" /\ todo0' = StFields
  /\ UNCHANGED <<cfg, cfgOwner, core1cfg, core1st, transfer, system, heap, pc1,
                 todo1, writes, rounds, committed, adopted, published, fetched>>

FetchField(f) ==
  /\ pc0 = "fetch" /\ f \in todo0
  /\ system' = [system EXCEPT ![f] = transfer[f]]
  /\ todo0' = todo0 \ {f}
  /\ UNCHANGED <<cfg, cfgOwner, core1cfg, core1st, transfer, stOwner, heap, pc0, pc1,
                 todo1, writes, rounds, committed, adopted, published, fetched>>

EndFetch ==
  /\ pc0 = "fetch" /\ todo0 = {}
  /\ stOwner' = Nobody /\ pc0' = "idle"
  /\ fetched' = published
  /\ UNCHANGED <<cfg, cfgOwner, core1cfg, core1st, transfer, system, heap, pc1,
                 todo0, todo1, writes, rounds, committed, adopted, published>>

-------------------------------------------------------------------------------
(***************************************************************************)
(* Core 1: the loop of core1_main(), in the order of its code.            *)
(***************************************************************************)

\* Inputs are read, filtered and mapped with core1_config; some groups of the
\* state change (each has its own period), the others keep their value.
Sense(F) ==
  /\ pc1 = "sense"
  /\ F # {} => rounds < MaxRounds
  /\ rounds' = IF F = {} THEN rounds ELSE rounds + 1
  /\ core1st' = [f \in StFields |-> IF f \in F THEN rounds' ELSE core1st[f]]
  /\ pc1' = "config"
  /\ UNCHANGED <<cfg, cfgOwner, core1cfg, transfer, stOwner, system, heap, pc0,
                 todo0, todo1, writes, committed, adopted, published, fetched>>

\* t_config is not due, or config_mutex is not free within 100 us.
SkipConfig ==
  /\ pc1 = "config" /\ pc1' = "state"
  /\ UNCHANGED <<cfg, cfgOwner, core1cfg, core1st, transfer, stOwner, system, heap, pc0,
                 todo0, todo1, writes, rounds, committed, adopted, published, fetched>>

\* MUTANT of BeginCopy: memcpy(config, cfg, sizeof(config)), the size of the
\* pointer and not of the structure.
BeginCopyShort ==
  /\ pc1 = "config" /\ cfgOwner = Nobody
  /\ cfgOwner' = Core1 /\ pc1' = "copy" /\ todo1' = {FilterCtx}
  /\ UNCHANGED <<cfg, core1cfg, core1st, transfer, stOwner, system, heap, pc0,
                 todo0, writes, rounds, committed, adopted, published, fetched>>

\* t_config is due and config_mutex is free (or gets free within 100 us).
BeginCopy ==
  /\ pc1 = "config" /\ cfgOwner = Nobody
  /\ cfgOwner' = Core1 /\ pc1' = "copy" /\ todo1' = CfgFields
  /\ UNCHANGED <<cfg, core1cfg, core1st, transfer, stOwner, system, heap, pc0,
                 todo0, writes, rounds, committed, adopted, published, fetched>>

CopyField(f) ==
  /\ pc1 = "copy" /\ f \in todo1
  /\ core1cfg' = [core1cfg EXCEPT ![f] = cfg[f]]
  /\ todo1' = todo1 \ {f}
  /\ UNCHANGED <<cfg, cfgOwner, core1st, transfer, stOwner, system, heap, pc0, pc1,
                 todo0, writes, rounds, committed, adopted, published, fetched>>

\* MUTANT of EndCopy: mutex_exit() is forgotten.
EndCopyKeepsMutex ==
  /\ pc1 = "copy" /\ todo1 = {} /\ pc1' = "state"
  /\ adopted' = committed
  /\ UNCHANGED <<cfg, cfgOwner, core1cfg, core1st, transfer, stOwner, system, heap, pc0,
                 todo0, todo1, writes, rounds, committed, published, fetched>>

EndCopy ==
  /\ pc1 = "copy" /\ todo1 = {}
  /\ cfgOwner' = Nobody /\ pc1' = "state"
  /\ adopted' = committed
  /\ UNCHANGED <<cfg, core1cfg, core1st, transfer, stOwner, system, heap, pc0,
                 todo0, todo1, writes, rounds, committed, published, fetched>>

\* t_state is not due, or state_mutex is not free within 100 us.
SkipState ==
  /\ pc1 = "state" /\ pc1' = "sense"
  /\ UNCHANGED <<cfg, cfgOwner, core1cfg, core1st, transfer, stOwner, system, heap, pc0,
                 todo0, todo1, writes, rounds, committed, adopted, published, fetched>>

\* MUTANT of BeginSend: the copy stops short of the end of the state.
BeginSendShort ==
  /\ pc1 = "state" /\ stOwner = Nobody
  /\ stOwner' = Core1 /\ pc1' = "send" /\ todo1' = {CHOOSE f \in StFields : TRUE}
  /\ UNCHANGED <<cfg, cfgOwner, core1cfg, core1st, transfer, system, heap, pc0,
                 todo0, writes, rounds, committed, adopted, published, fetched>>

BeginSend ==
  /\ pc1 = "state" /\ stOwner = Nobody
  /\ stOwner' = Core1 /\ pc1' = "send" /\ todo1' = StFields
  /\ UNCHANGED <<cfg, cfgOwner, core1cfg, core1st, transfer, system, heap, pc0,
                 todo0, writes, rounds, committed, adopted, published, fetched>>

SendField(f) ==
  /\ pc1 = "send" /\ f \in todo1
  /\ transfer' = [transfer EXCEPT ![f] = core1st[f]]
  /\ todo1' = todo1 \ {f}
  /\ UNCHANGED <<cfg, cfgOwner, core1cfg, core1st, stOwner, system, heap, pc0, pc1,
                 todo0, writes, rounds, committed, adopted, published, fetched>>

EndSend ==
  /\ pc1 = "send" /\ todo1 = {}
  /\ stOwner' = Nobody /\ pc1' = "sense"
  /\ published' = core1st
  /\ UNCHANGED <<cfg, cfgOwner, core1cfg, core1st, transfer, system, heap, pc0,
                 todo0, todo1, writes, rounds, committed, adopted, fetched>>

-------------------------------------------------------------------------------
Core0Next ==
  \/ \E F \in SUBSET CfgFields : BeginWrite(F)
  \/ EnterConfig
  \/ \E f \in CfgFields : Assign(f)
  \/ ExitConfig
  \/ BeginFetch
  \/ \E f \in StFields : FetchField(f)
  \/ EndFetch

Core1Next ==
  \/ \E F \in SUBSET StFields : Sense(F)
  \/ SkipConfig
  \/ BeginCopy
  \/ \E f \in CfgFields : CopyField(f)
  \/ EndCopy
  \/ SkipState
  \/ BeginSend
  \/ \E f \in StFields : SendField(f)
  \/ EndSend

Next == Core0Next \/ Core1Next

Spec == Init /\ [][Next]_vars

\* Steps core 0 finishes once it has begun them, whatever the user does next.
Core0Finish ==
  \/ EnterConfig
  \/ \E f \in CfgFields : Assign(f)
  \/ ExitConfig
  \/ \E f \in StFields : FetchField(f)
  \/ EndFetch

(***************************************************************************)
(* Both cores run forever, so each makes its next step.  A blocked        *)
(* mutex_enter_blocking() retries whenever the mutex is released.  t_config, *)
(* t_state and the display timer come due again and again, and an attempt *)
(* that is possible infinitely often succeeds in the end.  Core 0 holds   *)
(* state_mutex for one memcpy, once per second or command: core 1, which  *)
(* waits 100 us for it twice a second, does not find it taken each time.  *)
(***************************************************************************)
Fairness ==
  /\ WF_vars(Core0Finish)
  /\ WF_vars(Core1Next)
  /\ SF_vars(EnterConfig)
  /\ SF_vars(BeginCopy)
  /\ SF_vars(BeginSend)
  /\ SF_vars(BeginFetch)
  /\ []<>(pc1 = "state" /\ stOwner = Nobody)

FairSpec == Spec /\ Fairness

-------------------------------------------------------------------------------
(***************************************************************************)
(* Safety.                                                                *)
(***************************************************************************)

\* Except in the middle of its memcpy, core 1 controls the fans with the
\* configuration exactly as one completed command left it: no filter goes with
\* the context of another, no map is half old and half new.
ConfigWhole == pc1 # "copy" => core1cfg = adopted

\* Except in the middle of its memcpy, core 0 displays, reports and publishes a
\* state that core 1 had at one point of its loop, never parts of two rounds.
StateWhole == pc0 # "fetch" => system = fetched

\* The filter context core 1 calls filter() with is allocated memory.
FilterCtxLive == pc1 = "sense" => core1cfg[FilterCtx] \in heap

(***************************************************************************)
(* Refinement: both directions implement the exchange of whole records.   *)
(* While a side is inside its mutex section, the abstract record is the   *)
(* one from before the section.                                           *)
(***************************************************************************)
ConfigValue == IF pc0 = "assign" THEN committed ELSE cfg
ConfigView  == IF pc1 = "copy" THEN adopted ELSE core1cfg
StateValue  == IF pc1 = "send" THEN published ELSE transfer
StateView   == IF pc0 = "fetch" THEN fetched ELSE system

ConfigExchange ==
  INSTANCE SnapshotExchange WITH Fields <- CfgFields, value <- ConfigValue, view <- ConfigView
StateExchange ==
  INSTANCE SnapshotExchange WITH Fields <- StFields, value <- StateValue, view <- StateView

\* What core 1 works with is replaced only by a whole, current configuration.
ImplementsConfigExchange == ConfigExchange!Spec

\* What core 0 works with is replaced only by a whole, current transfer_state,
\* and no field of it ever goes back to an older reading.
ImplementsStateExchange == StateExchange!Spec

(***************************************************************************)
(* Liveness, under FairSpec.                                              *)
(***************************************************************************)

\* A command that waits for config_mutex gets it and completes: core 1, which
\* polls the same mutex from its loop, cannot hold it for ever.
CommandCompletes == pc0 = "wait" ~> pc0 = "idle"

\* Every configuration change reaches the control loop, although an attempt of
\* core 1 to take config_mutex may time out any number of times.
ConfigReachesCore1 ==
  \A f \in CfgFields, n \in 1..MaxWrites : committed[f] = n ~> core1cfg[f] >= n

\* Every reading of the control loop, or a later one, reaches the display and
\* the commands on core 0 through both copies.
StateReachesCore0 ==
  \A f \in StFields, n \in 1..MaxRounds : core1st[f] = n ~> system[f] >= n

===============================================================================
