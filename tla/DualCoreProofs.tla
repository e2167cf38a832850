---------------------------- MODULE DualCoreProofs ----------------------------
(***************************************************************************)
(* Proofs about DualCore, for any sets of fields and any bounds.          *)
(*                                                                         *)
(* ConfigWhole and StateWhole are not inductive: that a copy is whole     *)
(* depends on what every field copied so far is a copy of, and on who may *)
(* write while the copy goes on.  IInv says both.                         *)
(***************************************************************************)
EXTENDS DualCore, TLAPS

\* A core is inside a section that needs a mutex exactly when it holds it.
MutexInv ==
  /\ cfgOwner = Core0 <=> pc0 = "assign"
  /\ cfgOwner = Core1 <=> pc1 = "copy"
  /\ stOwner = Core0 <=> pc0 = "fetch"
  /\ stOwner = Core1 <=> pc1 = "send"

\* The configuration: what is where, outside and in the middle of a section.
ConfigInv ==
  /\ pc0 # "assign" => cfg = committed
  /\ pc1 # "copy" => core1cfg = adopted
  /\ pc1 = "copy" => \A f \in CfgFields \ todo1 : core1cfg[f] = committed[f]
  /\ \A f \in CfgFields : committed[f] <= cfg[f] /\ cfg[f] <= writes

\* The state, likewise.
StateInv ==
  /\ pc1 # "send" => transfer = published
  /\ pc1 = "send" => \A f \in StFields \ todo1 : transfer[f] = core1st[f]
  /\ pc0 # "fetch" => system = fetched
  /\ pc0 = "fetch" => \A f \in StFields \ todo0 : system[f] = published[f]
  /\ \A f \in StFields : published[f] <= core1st[f] /\ core1st[f] <= rounds

IInv == TypeOK /\ MutexInv /\ ConfigInv /\ StateInv

-------------------------------------------------------------------------------
\* The initial states satisfy the inductive invariant.
LEMMA InitIInv == Init => IInv
  BY DEF Init, IInv, TypeOK, MutexInv, ConfigInv, StateInv, CfgVersions, StVersions,
         Core0, Core1, Nobody

\* Every step preserves the types.
LEMMA TypeStep == TypeOK /\ [Next]_vars => TypeOK'
<1> SUFFICES ASSUME TypeOK, [Next]_vars PROVE TypeOK'
  OBVIOUS
<1> USE DEF TypeOK, CfgVersions, StVersions, Core0, Core1, Nobody
<1>1. ASSUME NEW F \in SUBSET CfgFields, BeginWrite(F) PROVE TypeOK'
  BY <1>1 DEF BeginWrite
<1>2. CASE EnterConfig
  BY <1>2 DEF EnterConfig
<1>3. ASSUME NEW f \in CfgFields, Assign(f) PROVE TypeOK'
  BY <1>3 DEF Assign
<1>4. CASE ExitConfig
  BY <1>4 DEF ExitConfig
<1>5. CASE BeginFetch
  BY <1>5 DEF BeginFetch
<1>6. ASSUME NEW f \in StFields, FetchField(f) PROVE TypeOK'
  BY <1>6 DEF FetchField
<1>7. CASE EndFetch
  BY <1>7 DEF EndFetch
<1>8. ASSUME NEW F \in SUBSET StFields, Sense(F) PROVE TypeOK'
  BY <1>8 DEF Sense
<1>9. CASE SkipConfig
  BY <1>9 DEF SkipConfig
<1>10. CASE BeginCopy
  BY <1>10 DEF BeginCopy
<1>11. ASSUME NEW f \in CfgFields, CopyField(f) PROVE TypeOK'
  BY <1>11 DEF CopyField
<1>12. CASE EndCopy
  BY <1>12 DEF EndCopy
<1>13. CASE SkipState
  BY <1>13 DEF SkipState
<1>14. CASE BeginSend
  BY <1>14 DEF BeginSend
<1>15. ASSUME NEW f \in StFields, SendField(f) PROVE TypeOK'
  BY <1>15 DEF SendField
<1>16. CASE EndSend
  BY <1>16 DEF EndSend
<1>17. CASE UNCHANGED vars
  BY <1>17 DEF vars
<1> QED
  BY <1>1, <1>2, <1>3, <1>4, <1>5, <1>6, <1>7, <1>8, <1>9, <1>10, <1>11, <1>12,
     <1>13, <1>14, <1>15, <1>16, <1>17 DEF Next, Core0Next, Core1Next

\* Steps of core 0 keep the rest of the invariant.
LEMMA Core0Step == IInv /\ Core0Next => (MutexInv /\ ConfigInv /\ StateInv)'
<1> SUFFICES ASSUME IInv, Core0Next PROVE (MutexInv /\ ConfigInv /\ StateInv)'
  OBVIOUS
<1> USE DEF IInv, TypeOK, MutexInv, ConfigInv, StateInv, CfgVersions, StVersions,
            Core0, Core1, Nobody
<1>1. ASSUME NEW F \in SUBSET CfgFields, BeginWrite(F)
      PROVE (MutexInv /\ ConfigInv /\ StateInv)'
  BY <1>1 DEF BeginWrite
<1>2. CASE EnterConfig
  BY <1>2 DEF EnterConfig
<1>3. ASSUME NEW f \in CfgFields, Assign(f) PROVE (MutexInv /\ ConfigInv /\ StateInv)'
  BY <1>3 DEF Assign
<1>4. CASE ExitConfig
  BY <1>4 DEF ExitConfig
<1>5. CASE BeginFetch
  BY <1>5 DEF BeginFetch
<1>6. ASSUME NEW f \in StFields, FetchField(f)
      PROVE (MutexInv /\ ConfigInv /\ StateInv)'
  BY <1>6 DEF FetchField
<1>7. CASE EndFetch
  <2>1. system = published
    BY <1>7 DEF EndFetch
  <2> QED
    BY <1>7, <2>1 DEF EndFetch
<1> QED
  BY <1>1, <1>2, <1>3, <1>4, <1>5, <1>6, <1>7 DEF Core0Next

\* Steps of core 1 keep the rest of the invariant.
LEMMA Core1Step == IInv /\ Core1Next => (MutexInv /\ ConfigInv /\ StateInv)'
<1> SUFFICES ASSUME IInv, Core1Next PROVE (MutexInv /\ ConfigInv /\ StateInv)'
  OBVIOUS
<1> USE DEF IInv, TypeOK, MutexInv, ConfigInv, StateInv, CfgVersions, StVersions,
            Core0, Core1, Nobody
<1>1. ASSUME NEW F \in SUBSET StFields, Sense(F)
      PROVE (MutexInv /\ ConfigInv /\ StateInv)'
  BY <1>1 DEF Sense
<1>2. CASE SkipConfig
  BY <1>2 DEF SkipConfig
<1>3. CASE BeginCopy
  BY <1>3 DEF BeginCopy
<1>4. ASSUME NEW f \in CfgFields, CopyField(f)
      PROVE (MutexInv /\ ConfigInv /\ StateInv)'
  BY <1>4 DEF CopyField
<1>5. CASE EndCopy
  <2>1. core1cfg = committed
    BY <1>5 DEF EndCopy
  <2> QED
    BY <1>5, <2>1 DEF EndCopy
<1>6. CASE SkipState
  BY <1>6 DEF SkipState
<1>7. CASE BeginSend
  BY <1>7 DEF BeginSend
<1>8. ASSUME NEW f \in StFields, SendField(f)
      PROVE (MutexInv /\ ConfigInv /\ StateInv)'
  BY <1>8 DEF SendField
<1>9. CASE EndSend
  <2>1. transfer = core1st
    BY <1>9 DEF EndSend
  <2> QED
    BY <1>9, <2>1 DEF EndSend
<1> QED
  BY <1>1, <1>2, <1>3, <1>4, <1>5, <1>6, <1>7, <1>8, <1>9 DEF Core1Next

\* Every step preserves the inductive invariant.
LEMMA IInvStep == IInv /\ [Next]_vars => IInv'
<1> SUFFICES ASSUME IInv, [Next]_vars PROVE IInv'
  OBVIOUS
<1>1. TypeOK'
  BY TypeStep DEF IInv
<1>2. (MutexInv /\ ConfigInv /\ StateInv)'
  <2>1. CASE Core0Next
    BY <2>1, Core0Step
  <2>2. CASE Core1Next
    BY <2>2, Core1Step
  <2>3. CASE UNCHANGED vars
    BY <2>3 DEF IInv, MutexInv, ConfigInv, StateInv, vars
  <2> QED
    BY <2>1, <2>2, <2>3 DEF Next
<1> QED
  BY <1>1, <1>2 DEF IInv

\* IInv holds throughout, whatever the fields and the bounds are.
THEOREM Invariance == Spec => []IInv
  BY InitIInv, IInvStep, PTL DEF Spec

-------------------------------------------------------------------------------
\* Every variable keeps its type: the two cores never leave their control states.
THEOREM TypeCorrect == Spec => []TypeOK
<1>1. IInv => TypeOK
  BY DEF IInv
<1> QED
  BY <1>1, Invariance, PTL

\* Core 1 never runs the control loop on a configuration that is part of two
\* transactions (core1_main, run_cmd, i2c_read_temps).
THEOREM ConfigAlwaysWhole == Spec => []ConfigWhole
<1>1. IInv => ConfigWhole
  BY DEF IInv, ConfigInv, ConfigWhole
<1> QED
  BY <1>1, Invariance, PTL

\* Core 0 never shows or reports a state that is part of two control rounds
\* (core1_main, update_system_state).
THEOREM StateAlwaysWhole == Spec => []StateWhole
<1>1. IInv => StateWhole
  BY DEF IInv, StateInv, StateWhole
<1> QED
  BY <1>1, Invariance, PTL

-------------------------------------------------------------------------------
(***************************************************************************)
(* Refinement: every step is one abstract step or a stutter.              *)
(***************************************************************************)
LEMMA ConfigStep == IInv /\ IInv' /\ [Next]_vars =>
                      [ConfigExchange!Next]_<<ConfigValue, ConfigView>>
<1> SUFFICES ASSUME IInv, IInv', [Next]_vars
             PROVE  [ConfigExchange!Next]_<<ConfigValue, ConfigView>>
  OBVIOUS
<1> USE DEF IInv, TypeOK, MutexInv, ConfigInv, CfgVersions, Core0, Core1, Nobody,
            ConfigValue, ConfigView
<1>1. CASE ExitConfig
  <2>1. ConfigExchange!Publish
    BY <1>1 DEF ExitConfig, ConfigExchange!Publish, ConfigExchange!Versions
  <2> QED
    BY <2>1 DEF ConfigExchange!Next
<1>2. CASE EndCopy
  <2>1. core1cfg = committed
    BY <1>2 DEF EndCopy
  <2>2. ConfigExchange!Adopt
    BY <1>2, <2>1 DEF EndCopy, ConfigExchange!Adopt
  <2> QED
    BY <2>2 DEF ConfigExchange!Next
<1>3. ASSUME ~ExitConfig, ~EndCopy PROVE UNCHANGED <<ConfigValue, ConfigView>>
  <2>1. CASE Core0Next
    BY <2>1, <1>3 DEF Core0Next, BeginWrite, EnterConfig, Assign, BeginFetch,
                      FetchField, EndFetch
  <2>2. CASE Core1Next
    BY <2>2, <1>3 DEF Core1Next, Sense, SkipConfig, BeginCopy, CopyField, SkipState,
                      BeginSend, SendField, EndSend
  <2>3. CASE UNCHANGED vars
    BY <2>3 DEF vars
  <2> QED
    BY <2>1, <2>2, <2>3 DEF Next
<1> QED
  BY <1>1, <1>2, <1>3

\* The configuration path implements the exchange of whole records: a reader of
\* core1_config sees nothing but completed commands, in order.
THEOREM ConfigRefinement == Spec => ImplementsConfigExchange
<1>1. Init => ConfigExchange!Init
  BY DEF Init, ConfigExchange!Init, ConfigValue, ConfigView
<1> QED
  BY <1>1, Invariance, ConfigStep, PTL
     DEF Spec, ImplementsConfigExchange, ConfigExchange!Spec, ConfigExchange!vars

\* Every step is one of the abstract exchange of the state, or a stutter.
LEMMA StateStep == IInv /\ IInv' /\ [Next]_vars =>
                      [StateExchange!Next]_<<StateValue, StateView>>
<1> SUFFICES ASSUME IInv, IInv', [Next]_vars
             PROVE  [StateExchange!Next]_<<StateValue, StateView>>
  OBVIOUS
<1> USE DEF IInv, TypeOK, MutexInv, StateInv, StVersions, Core0, Core1, Nobody,
            StateValue, StateView
<1>1. CASE EndSend
  <2>1. transfer = core1st
    BY <1>1 DEF EndSend
  <2>2. StateExchange!Publish
    BY <1>1, <2>1 DEF EndSend, StateExchange!Publish, StateExchange!Versions
  <2> QED
    BY <2>2 DEF StateExchange!Next
<1>2. CASE EndFetch
  <2>1. system = published
    BY <1>2 DEF EndFetch
  <2>2. StateExchange!Adopt
    BY <1>2, <2>1 DEF EndFetch, StateExchange!Adopt
  <2> QED
    BY <2>2 DEF StateExchange!Next
<1>3. ASSUME ~EndSend, ~EndFetch PROVE UNCHANGED <<StateValue, StateView>>
  <2>1. CASE Core0Next
    BY <2>1, <1>3 DEF Core0Next, BeginWrite, EnterConfig, Assign, ExitConfig, BeginFetch,
                      FetchField
  <2>2. CASE Core1Next
    BY <2>2, <1>3 DEF Core1Next, Sense, SkipConfig, BeginCopy, CopyField, EndCopy,
                      SkipState, BeginSend, SendField
  <2>3. CASE UNCHANGED vars
    BY <2>3 DEF vars
  <2> QED
    BY <2>1, <2>2, <2>3 DEF Next
<1> QED
  BY <1>1, <1>2, <1>3

\* The state path implements it in the other direction: a reader of system_state
\* sees nothing but whole rounds, and no reading goes back in time.
THEOREM StateRefinement == Spec => ImplementsStateExchange
<1>1. Init => StateExchange!Init
  BY DEF Init, StateExchange!Init, StateValue, StateView
<1> QED
  BY <1>1, Invariance, StateStep, PTL
     DEF Spec, ImplementsStateExchange, StateExchange!Spec, StateExchange!vars

===============================================================================
