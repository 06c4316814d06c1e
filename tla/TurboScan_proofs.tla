-------------------------- MODULE TurboScan_proofs --------------------------
(***************************************************************************)
(* Proofs about TurboScan, for every set of files, number of workers and   *)
(* phases, and every bound.                                                *)
(***************************************************************************)
EXTENDS TurboScan, FiniteSetTheorems, TLAPS

------------------------------------------------------------------------------
(* TypeOK is inductive by itself. *)

LEMMA TypeInit == Init => TypeOK
<1> SUFFICES ASSUME Init PROVE TypeOK
  OBVIOUS
<1>1. EngineTypes
  BY DEF Init, EngineTypes, EngineStates
<1>2. ThreadTypes
  BY DEF Init, ThreadTypes, ScanPoints
<1>3. PhaseTypes
  BY RoundsAssumption DEF RoundsAssumption, Init, PhaseTypes, JobStates
<1>4. EndTypes
  BY DEF Init, EndTypes
<1>5. CtlTypes
  BY BoundsAssumption DEF BoundsAssumption, Init, CtlTypes, CtlPoints
<1> QED
  BY <1>1, <1>2, <1>3, <1>4, <1>5 DEF TypeOK

LEMMA TypeStep == TypeOK /\ [Next]_vars => TypeOK'
<1> SUFFICES ASSUME TypeOK, [Next]_vars PROVE TypeOK'
  OBVIOUS
<1> USE RoundsAssumption, BoundsAssumption
    DEF RoundsAssumption, BoundsAssumption, EngineTypes, ThreadTypes, PhaseTypes,
        EndTypes, CtlTypes, EngineStates, ScanPoints, JobStates, CtlPoints, Terminal,
        engineVars, phaseVars, endVars, ctlVars, Callback
<1>1. CASE Controller
  <2>1. EngineTypes'
    BY <1>1 DEF TypeOK, Controller, StartScan, PauseBegin, PauseEvent, PauseState,
              PauseShow, ResumeBegin, ResumeState, ResumeSet, CancelBegin, CancelState
  <2>2. ThreadTypes'
    BY <1>1 DEF TypeOK, Controller, StartScan, PauseBegin, PauseEvent, PauseState,
              PauseShow, ResumeBegin, ResumeState, ResumeSet, CancelBegin, CancelState
  <2>3. PhaseTypes'
    BY <1>1 DEF TypeOK, Controller, StartScan, PauseBegin, PauseEvent, PauseState,
              PauseShow, ResumeBegin, ResumeState, ResumeSet, CancelBegin, CancelState
  <2>4. EndTypes'
    BY <1>1 DEF TypeOK, Controller, StartScan, PauseBegin, PauseEvent, PauseState,
              PauseShow, ResumeBegin, ResumeState, ResumeSet, CancelBegin, CancelState
  <2>5. CtlTypes'
    BY <1>1 DEF TypeOK, Controller, StartScan, PauseBegin, PauseEvent, PauseState,
              PauseShow, ResumeBegin, ResumeState, ResumeSet, CancelBegin, CancelState
  <2> QED
    BY <2>1, <2>2, <2>3, <2>4, <2>5 DEF TypeOK
<1>2. CASE EngineReset \/ EngineStarted \/ RunScan \/ UnreachableRoot \/ NoRoots
             \/ Roots
  <2>1. EngineTypes'
    BY <1>2 DEF TypeOK, EngineReset, EngineStarted, RunScan, UnreachableRoot, NoRoots, Roots
  <2>2. ThreadTypes'
    BY <1>2 DEF TypeOK, EngineReset, EngineStarted, RunScan, UnreachableRoot, NoRoots, Roots
  <2>3. PhaseTypes'
    BY <1>2 DEF TypeOK, EngineReset, EngineStarted, RunScan, UnreachableRoot, NoRoots, Roots
  <2>4. EndTypes'
    BY <1>2 DEF TypeOK, EngineReset, EngineStarted, RunScan, UnreachableRoot, NoRoots, Roots
  <2>5. CtlTypes'
    BY <1>2 DEF TypeOK, EngineReset, EngineStarted, RunScan, UnreachableRoot, NoRoots, Roots
  <2> QED
    BY <2>1, <2>2, <2>3, <2>4, <2>5 DEF TypeOK
<1>3. CASE CbGuard \/ CbCheck \/ CbWrite \/ CbEmit
  <2>1. EngineTypes'
    BY <1>3 DEF TypeOK, CbGuard, CbCheck, CbWrite, CbEmit
  <2>2. ThreadTypes'
    BY <1>3 DEF TypeOK, CbGuard, CbCheck, CbWrite, CbEmit
  <2>3. PhaseTypes'
    BY <1>3 DEF TypeOK, CbGuard, CbCheck, CbWrite, CbEmit
  <2>4. EndTypes'
    BY <1>3 DEF TypeOK, CbGuard, CbCheck, CbWrite, CbEmit
  <2>5. CtlTypes'
    BY <1>3 DEF TypeOK, CbGuard, CbCheck, CbWrite, CbEmit
  <2> QED
    BY <2>1, <2>2, <2>3, <2>4, <2>5 DEF TypeOK
<1>4. CASE Discover \/ DiscoverCancelled \/ ScanRaises \/ TierA \/ SkipTierA
             \/ PrefixDone \/ PrefixAborted \/ PauseGate \/ Sample
  <2>1. EngineTypes'
    BY <1>4 DEF TypeOK, Discover, DiscoverCancelled, ScanRaises, TierA, SkipTierA,
              PrefixDone, PrefixAborted, PauseGate, Sample, Grouped
  <2>2. ThreadTypes'
    BY <1>4 DEF TypeOK, Discover, DiscoverCancelled, ScanRaises, TierA, SkipTierA,
              PrefixDone, PrefixAborted, PauseGate, Sample, Grouped
  <2>3. PhaseTypes'
    BY <1>4 DEF TypeOK, Discover, DiscoverCancelled, ScanRaises, TierA, SkipTierA,
              PrefixDone, PrefixAborted, PauseGate, Sample, Grouped
  <2>4. EndTypes'
    BY <1>4 DEF TypeOK, Discover, DiscoverCancelled, ScanRaises, TierA, SkipTierA,
              PrefixDone, PrefixAborted, PauseGate, Sample, Grouped
  <2>5. CtlTypes'
    BY <1>4 DEF TypeOK, Discover, DiscoverCancelled, ScanRaises, TierA, SkipTierA,
              PrefixDone, PrefixAborted, PauseGate, Sample, Grouped
  <2> QED
    BY <2>1, <2>2, <2>3, <2>4, <2>5 DEF TypeOK
<1>5. CASE NothingToHash \/ PhaseDone \/ PhaseAborted
  <2>1. EngineTypes'
    BY <1>5 DEF TypeOK, NothingToHash, PhaseDone, PhaseAborted, PhaseResult, Grouped
  <2>2. ThreadTypes'
    BY <1>5 DEF TypeOK, NothingToHash, PhaseDone, PhaseAborted, PhaseResult, Grouped
  <2>3. PhaseTypes'
    BY <1>5 DEF TypeOK, NothingToHash, PhaseDone, PhaseAborted, PhaseResult, Grouped
  <2>4. EndTypes'
    BY <1>5 DEF TypeOK, NothingToHash, PhaseDone, PhaseAborted, PhaseResult, Grouped
  <2>5. CtlTypes'
    BY <1>5 DEF TypeOK, NothingToHash, PhaseDone, PhaseAborted, PhaseResult, Grouped
  <2> QED
    BY <2>1, <2>2, <2>3, <2>4, <2>5 DEF TypeOK
<1>6. CASE SubmitJobs \/ CollectMore
  <2>1. EngineTypes'
    BY <1>6 DEF TypeOK, SubmitJobs, CollectMore
  <2>2. ThreadTypes'
    BY <1>6 DEF TypeOK, SubmitJobs, CollectMore
  <2>3. PhaseTypes'
    BY <1>6 DEF TypeOK, SubmitJobs, CollectMore
  <2>4. EndTypes'
    BY <1>6 DEF TypeOK, SubmitJobs, CollectMore
  <2>5. CtlTypes'
    BY <1>6 DEF TypeOK, SubmitJobs, CollectMore
  <2> QED
    BY <2>1, <2>2, <2>3, <2>4, <2>5 DEF TypeOK
<1>7. ASSUME NEW f \in Files, Collect(f) PROVE TypeOK'
  <2>1. EngineTypes'
    BY <1>7 DEF TypeOK, Collect
  <2>2. ThreadTypes'
    BY <1>7 DEF TypeOK, Collect
  <2>3. PhaseTypes'
    BY <1>7 DEF TypeOK, Collect
  <2>4. EndTypes'
    BY <1>7 DEF TypeOK, Collect
  <2>5. CtlTypes'
    BY <1>7 DEF TypeOK, Collect
  <2> QED
    BY <2>1, <2>2, <2>3, <2>4, <2>5 DEF TypeOK
<1>8. CASE Drain \/ DrainStopped \/ FinishScan \/ ForceEmit
  <2>1. EngineTypes'
    BY <1>8 DEF TypeOK, Drain, DrainStopped, FinishScan, ForceEmit
  <2>2. ThreadTypes'
    BY <1>8 DEF TypeOK, Drain, DrainStopped, FinishScan, ForceEmit
  <2>3. PhaseTypes'
    BY <1>8 DEF TypeOK, Drain, DrainStopped, FinishScan, ForceEmit
  <2>4. EndTypes'
    BY <1>8 DEF TypeOK, Drain, DrainStopped, FinishScan, ForceEmit
  <2>5. CtlTypes'
    BY <1>8 DEF TypeOK, Drain, DrainStopped, FinishScan, ForceEmit
  <2> QED
    BY <2>1, <2>2, <2>3, <2>4, <2>5 DEF TypeOK
<1>9. CASE ConvertGroups
  <2>1. EngineTypes'
    BY <1>9 DEF TypeOK, ConvertGroups, Grouped
  <2>2. ThreadTypes'
    BY <1>9 DEF TypeOK, ConvertGroups, Grouped
  <2>3. PhaseTypes'
    BY <1>9 DEF TypeOK, ConvertGroups, Grouped
  <2>4. EndTypes'
    BY <1>9 DEF TypeOK, ConvertGroups, Grouped
  <2>5. CtlTypes'
    BY <1>9 DEF TypeOK, ConvertGroups, Grouped
  <2> QED
    BY <2>1, <2>2, <2>3, <2>4, <2>5 DEF TypeOK
<1>10. CASE ReadCancel \/ GuardTerminal \/ SetTerminal \/ EmitTerminal \/ ScanFailed
  <2>1. EngineTypes'
    BY <1>10 DEF TypeOK, ReadCancel, GuardTerminal, SetTerminal, EmitTerminal, ScanFailed
  <2>2. ThreadTypes'
    BY <1>10 DEF TypeOK, ReadCancel, GuardTerminal, SetTerminal, EmitTerminal, ScanFailed
  <2>3. PhaseTypes'
    BY <1>10 DEF TypeOK, ReadCancel, GuardTerminal, SetTerminal, EmitTerminal, ScanFailed
  <2>4. EndTypes'
    BY <1>10 DEF TypeOK, ReadCancel, GuardTerminal, SetTerminal, EmitTerminal, ScanFailed
  <2>5. CtlTypes'
    BY <1>10 DEF TypeOK, ReadCancel, GuardTerminal, SetTerminal, EmitTerminal, ScanFailed
  <2> QED
    BY <2>1, <2>2, <2>3, <2>4, <2>5 DEF TypeOK
<1>11. ASSUME NEW f \in Files, Worker(f) PROVE TypeOK'
  <2>1. EngineTypes'
    BY <1>11 DEF TypeOK, Worker, PrefixRead, JobTake, JobGate, JobCheck, JobRead, JobStep
  <2>2. ThreadTypes'
    BY <1>11 DEF TypeOK, Worker, PrefixRead, JobTake, JobGate, JobCheck, JobRead, JobStep
  <2>3. PhaseTypes'
    BY <1>11 DEF TypeOK, Worker, PrefixRead, JobTake, JobGate, JobCheck, JobRead, JobStep
  <2>4. EndTypes'
    BY <1>11 DEF TypeOK, Worker, PrefixRead, JobTake, JobGate, JobCheck, JobRead, JobStep
  <2>5. CtlTypes'
    BY <1>11 DEF TypeOK, Worker, PrefixRead, JobTake, JobGate, JobCheck, JobRead, JobStep
  <2> QED
    BY <2>1, <2>2, <2>3, <2>4, <2>5 DEF TypeOK
<1>12. CASE UNCHANGED vars
  <2>1. EngineTypes'
    BY <1>12 DEF TypeOK, vars
  <2>2. ThreadTypes'
    BY <1>12 DEF TypeOK, vars
  <2>3. PhaseTypes'
    BY <1>12 DEF TypeOK, vars
  <2>4. EndTypes'
    BY <1>12 DEF TypeOK, vars
  <2>5. CtlTypes'
    BY <1>12 DEF TypeOK, vars
  <2> QED
    BY <2>1, <2>2, <2>3, <2>4, <2>5 DEF TypeOK
<1> QED
  BY <1>1, <1>2, <1>3, <1>4, <1>5, <1>6, <1>7, <1>8, <1>9, <1>10, <1>11, <1>12
     DEF Next, ScanThread

(* Every variable keeps its type. *)
THEOREM TypeCorrect == Spec => []TypeOK
  BY TypeInit, TypeStep, PTL DEF Spec

------------------------------------------------------------------------------
(* Facts about groups. *)

LEMMA GroupedIdem == \A S : Grouped(Grouped(S)) = Grouped(S)
  BY DEF Grouped

LEMMA GroupedEmpty == Grouped({}) = {}
  BY DEF Grouped

LEMMA GroupedSubset == \A S : Grouped(S) \subseteq S
  BY DEF Grouped

LEMMA GroupedMono == \A S, T : S \subseteq T => Grouped(S) \subseteq Grouped(T)
  BY DEF Grouped

(* What has all the groups still has them when groups of one are dropped.  *)
LEMMA GroupedKeeps ==
  \A S, T : Grouped(T) \subseteq S => Grouped(T) \subseteq Grouped(S)
  BY GroupedMono, GroupedIdem

(* Nor does it lose one when files outside the groups are taken away.      *)
LEMMA GroupedMinus ==
  \A S, T, B : Grouped(T) \subseteq S => Grouped(T \ B) \subseteq S \ B
<1> SUFFICES ASSUME NEW S, NEW T, NEW B, Grouped(T) \subseteq S
             PROVE  Grouped(T \ B) \subseteq S \ B
  OBVIOUS
<1>1. Grouped(T \ B) \subseteq Grouped(T)
  BY GroupedMono
<1>2. Grouped(T \ B) \subseteq T \ B
  BY GroupedSubset
<1> QED
  BY <1>1, <1>2

------------------------------------------------------------------------------
(* ErrorIsOwn: what the thread's place says of the outcome. *)

LEMMA ScanInit == Init => ScanInv
  BY DEF Init, ScanInv, NothingLost, ErrorIsOwn, CancelSticks, At, Alive

LEMMA ErrorStep == TypeOK /\ ErrorIsOwn /\ [Next]_vars => ErrorIsOwn'
<1> SUFFICES ASSUME TypeOK, ErrorIsOwn, [Next]_vars PROVE ErrorIsOwn'
  OBVIOUS
<1> USE DEF ErrorIsOwn, At, Alive, engineVars, phaseVars, endVars, ctlVars, Callback
<1>1. CASE Controller
  BY <1>1 DEF Controller, StartScan, PauseBegin, PauseEvent, PauseState,
              PauseShow, ResumeBegin, ResumeState, ResumeSet, CancelBegin, CancelState
<1>2. CASE EngineReset \/ EngineStarted \/ RunScan \/ UnreachableRoot \/ NoRoots
             \/ Roots
  BY <1>2 DEF EngineReset, EngineStarted, RunScan, UnreachableRoot, NoRoots, Roots
<1>3. CASE CbGuard \/ CbCheck \/ CbWrite \/ CbEmit
  BY <1>3 DEF CbGuard, CbCheck, CbWrite, CbEmit, TypeOK, ThreadTypes, Terminal
<1>4. CASE Discover \/ DiscoverCancelled \/ ScanRaises \/ TierA \/ SkipTierA
             \/ PrefixDone \/ PrefixAborted \/ PauseGate \/ Sample
  BY <1>4 DEF Discover, DiscoverCancelled, ScanRaises, TierA, SkipTierA,
              PrefixDone, PrefixAborted, PauseGate, Sample
<1>5. CASE NothingToHash \/ PhaseDone \/ PhaseAborted
  BY <1>5 DEF NothingToHash, PhaseDone, PhaseAborted, PhaseResult
<1>6. CASE SubmitJobs \/ CollectMore
  BY <1>6 DEF SubmitJobs, CollectMore
<1>7. ASSUME NEW f \in Files, Collect(f) PROVE ErrorIsOwn'
  BY <1>7 DEF Collect
<1>8. CASE Drain \/ DrainStopped \/ FinishScan \/ ForceEmit
  BY <1>8 DEF Drain, DrainStopped, FinishScan, ForceEmit
<1>9. CASE ConvertGroups
  BY <1>9 DEF ConvertGroups
<1>10. CASE ReadCancel \/ GuardTerminal \/ SetTerminal \/ EmitTerminal \/ ScanFailed
  BY <1>10 DEF ReadCancel, GuardTerminal, SetTerminal, EmitTerminal, ScanFailed,
               TypeOK, EndTypes, Terminal
<1>11. ASSUME NEW f \in Files, Worker(f) PROVE ErrorIsOwn'
  BY <1>11 DEF Worker, PrefixRead, JobTake, JobGate, JobCheck, JobRead
<1>12. CASE UNCHANGED vars
  BY <1>12 DEF vars
<1> QED
  BY <1>1, <1>2, <1>3, <1>4, <1>5, <1>6, <1>7, <1>8, <1>9, <1>10, <1>11, <1>12
     DEF Next, ScanThread

------------------------------------------------------------------------------
(* NothingLost: the thread never drops a file without a cancel in force.   *)

LEMMA NothingLostStep ==
  TypeOK /\ ScanInv /\ [Next]_vars => NothingLost'
<1>0. SUFFICES ASSUME TypeOK, NothingLost, ErrorIsOwn, [Next]_vars PROVE NothingLost'
  BY DEF ScanInv
<1> USE DEF NothingLost, At, Covers, NotTaken, engineVars, phaseVars, endVars,
            ctlVars, Callback
<1>1. CASE Controller
  <2>1. CASE StartScan
    BY <1>0, <2>1 DEF StartScan, Alive
  <2>2. CASE ~StartScan
    <3>1. /\ UNCHANGED <<spc, ret, round, cand, job, pending, collected, bad, endVars>>
          /\ cancelEvent => cancelEvent'
      BY <1>1, <2>2 DEF Controller, PauseBegin, PauseEvent, PauseState, PauseShow,
              ResumeBegin, ResumeState, ResumeSet, CancelBegin, CancelState
    <3> QED
      BY <1>0, <3>1
  <2> QED
    BY <2>1, <2>2
<1>2. CASE EngineReset \/ EngineStarted \/ RunScan \/ UnreachableRoot \/ Roots
  BY <1>0, <1>2 DEF EngineReset, EngineStarted, RunScan, UnreachableRoot, Roots
<1>3. CASE NoRoots
  BY <1>0, <1>3, GroupedEmpty DEF NoRoots
<1>4. CASE CbGuard \/ CbCheck \/ CbWrite \/ CbEmit
  BY <1>0, <1>4 DEF CbGuard, CbCheck, CbWrite, CbEmit, ErrorIsOwn
<1>5. CASE Discover \/ DiscoverCancelled \/ ScanRaises \/ TierA \/ SkipTierA
             \/ PrefixAborted \/ PauseGate \/ Sample
  BY <1>0, <1>5, GroupedSubset
     DEF Discover, DiscoverCancelled, ScanRaises, TierA, SkipTierA, PrefixAborted,
         PauseGate, Sample
<1>18. CASE PrefixDone
  <2>1. cancelEvent \/ Grouped(Files \ bad) \subseteq cand
    BY <1>0, <1>18 DEF PrefixDone
  <2>2. Grouped((Files \ bad) \ bad) = Grouped(Files \ bad)
    <3>1. (Files \ bad) \ bad = Files \ bad
      OBVIOUS
    <3> QED
      BY <3>1
  <2>3. cancelEvent \/ Grouped(Files \ bad) \subseteq cand \ bad
    <3> DEFINE G == Grouped(Files \ bad)
    <3>1. G \subseteq cand => Grouped((Files \ bad) \ bad) \subseteq cand \ bad
      BY GroupedMinus
    <3> QED
      BY <2>1, <2>2, <3>1
  <2>4. cancelEvent \/ Grouped(Files \ bad) \subseteq Grouped(cand \ bad)
    <3>1. Grouped(Files \ bad) \subseteq cand \ bad
            => Grouped(Files \ bad) \subseteq Grouped(cand \ bad)
      BY GroupedKeeps
    <3> QED
      BY <2>3, <3>1
  <2>5. Covers(cand)'
    BY <1>0, <1>18, <2>4 DEF PrefixDone
  <2> QED
    BY <1>0, <1>18, <2>5 DEF PrefixDone
<1>6. CASE NothingToHash
  BY <1>0, <1>6 DEF NothingToHash, PhaseResult
<1>7. CASE SubmitJobs
  <2>1. {f \in cand : job'[f] # "taken"} = cand
    BY <1>0, <1>7 DEF SubmitJobs, TypeOK, PhaseTypes
  <2> QED
    BY <1>0, <1>7, <2>1 DEF SubmitJobs, TypeOK, PhaseTypes
<1>8. ASSUME NEW f \in Files, Collect(f) PROVE NothingLost'
  <2>1. /\ At \in {"collect", "checkCancel"} /\ At' = "checkCancel"
        /\ f \in cand /\ f \notin collected
        /\ NotTaken' = NotTaken \ {f} /\ f \in NotTaken
    BY <1>0, <1>8 DEF Collect, TypeOK, PhaseTypes
  <2>2. /\ \A g \in collected' : job'[g] = "taken"
        /\ \A g \in Files \ cand' : job'[g] = "none"
        /\ \A g \in cand' : job'[g] \in {"skip", "dropped"} => cancelEvent'
    BY <1>0, <1>8, <2>1 DEF Collect, TypeOK, PhaseTypes
  <2>3. CASE job[f] = "ok"
    <3>1. collected' \cup NotTaken' = collected \cup NotTaken
      BY <1>0, <1>8, <2>1, <2>3 DEF Collect
    <3>2. UNCHANGED <<cancelEvent, bad>>
      BY <1>0, <1>8, <2>3 DEF Collect
    <3>3. Covers(collected \cup NotTaken)
      BY <1>0, <2>1
    <3>4. Covers(collected \cup NotTaken)'
      BY <3>1, <3>2, <3>3
    <3>5. pending' = pending
      BY <1>0, <1>8 DEF Collect
    <3> QED
      BY <1>0, <2>1, <2>2, <3>4, <3>5
  <2>4. CASE job[f] = "fail"
    <3>1. /\ collected' \cup NotTaken' = (collected \cup NotTaken) \ {f}
          /\ Files \ bad' = (Files \ bad) \ {f}
      BY <1>0, <1>8, <2>1, <2>4 DEF Collect
    <3>2. cancelEvent \/ Grouped(Files \ bad) \subseteq collected \cup NotTaken
      BY <1>0, <2>1
    <3>3. cancelEvent \/ Grouped((Files \ bad) \ {f})
                           \subseteq (collected \cup NotTaken) \ {f}
      <4> DEFINE C == collected \cup NotTaken
      <4>1. \A T, B : Grouped(T) \subseteq C => Grouped(T \ B) \subseteq C \ B
        BY GroupedMinus
      <4> QED
        BY <3>2, <4>1
    <3>4. UNCHANGED <<cancelEvent, pending>>
      BY <1>0, <1>8 DEF Collect
    <3>5. Covers(collected \cup NotTaken)'
      BY <3>1, <3>3, <3>4
    <3> QED
      BY <1>0, <2>1, <2>2, <3>4, <3>5
  <2>5. CASE job[f] = "skip"
    BY <1>0, <1>8, <2>1, <2>2, <2>5 DEF Collect
  <2> QED
    BY <1>0, <1>8, <2>3, <2>4, <2>5 DEF Collect
<1>9. CASE CollectMore
  BY <1>0, <1>9 DEF CollectMore
<1>10. CASE PhaseDone
  <2>1. Covers(Grouped(collected))
    BY <1>0, <1>10, GroupedKeeps DEF PhaseDone
  <2> QED
    BY <1>0, <1>10, <2>1 DEF PhaseDone, PhaseResult
<1>11. CASE PhaseAborted
  BY <1>0, <1>11 DEF PhaseAborted, PhaseResult
<1>12. CASE Drain \/ DrainStopped \/ FinishScan \/ ForceEmit
  BY <1>0, <1>12 DEF Drain, DrainStopped, FinishScan, ForceEmit
<1>13. CASE ConvertGroups
  <2>1. CASE cancelEvent
    BY <1>0, <1>13, <2>1, GroupedEmpty DEF ConvertGroups
  <2>2. CASE ~cancelEvent
    <3>1. PICK gone \in SUBSET lastGroups :
            bad' = bad \cup gone /\ results' = Grouped(lastGroups \ gone)
      BY <1>0, <1>13, <2>2 DEF ConvertGroups
    <3>2. Grouped(Files \ bad) \subseteq lastGroups
      BY <1>0, <1>13, <2>2 DEF ConvertGroups
    <3>3. Grouped((Files \ bad) \ gone) \subseteq Grouped(lastGroups \ gone)
      <4>1. \A T, B : Grouped(T) \subseteq lastGroups
                        => Grouped(T \ B) \subseteq lastGroups \ B
        BY GroupedMinus
      <4>2. Grouped((Files \ bad) \ gone) \subseteq lastGroups \ gone
        BY <3>2, <4>1
      <4> QED
        BY <4>2, GroupedKeeps
    <3>4. (Files \ bad) \ gone = Files \ bad'
      BY <1>0, <3>1
    <3>5. Covers(results)'
      BY <1>0, <3>1, <3>3, <3>4
    <3> QED
      BY <1>0, <1>13, <3>5 DEF ConvertGroups
  <2> QED
    BY <1>0, <2>1, <2>2
<1>14. CASE ReadCancel
  BY <1>0, <1>14 DEF ReadCancel
<1>15. CASE GuardTerminal \/ SetTerminal \/ EmitTerminal \/ ScanFailed
  BY <1>0, <1>15 DEF GuardTerminal, SetTerminal, EmitTerminal, ScanFailed, Terminal,
               ErrorIsOwn
<1>16. ASSUME NEW f \in Files, Worker(f) PROVE NothingLost'
  <2>a. CASE PrefixRead(f)
    <3>1. /\ UNCHANGED <<engineVars, spc, ret, cand, collected, endVars, job>>
          /\ At = "prefix" /\ pending' \subseteq pending
      BY <1>0, <2>a DEF PrefixRead
    <3>2. Grouped(Files \ bad') \subseteq Grouped(Files \ bad)
      <4>1. Files \ bad' \subseteq Files \ bad
        BY <2>a DEF PrefixRead
      <4> QED
        BY <4>1, GroupedMono
    <3>3. Covers(cand)'
      BY <1>0, <3>1, <3>2
    <3> QED
      BY <1>0, <3>1, <3>3
  <2>b. CASE ~PrefixRead(f)
   <3>1. /\ job[f] \notin {"none", "taken"} /\ \A g \in Files \ {f} : job'[g] = job[g]
         /\ job'[f] \notin {"none", "taken", "dropped"}
         /\ job'[f] = "skip" => cancelEvent
    BY <1>0, <1>16, <2>b DEF Worker, JobTake, JobGate, JobCheck, JobRead, JobStep,
                             TypeOK, PhaseTypes
   <3>2. UNCHANGED <<engineVars, spc, ret, cand, pending, collected, bad, endVars>>
    BY <1>0, <1>16, <2>b DEF Worker, JobTake, JobGate, JobCheck, JobRead
   <3>3. NotTaken' = NotTaken
    BY <1>0, <3>1, <3>2 DEF TypeOK, PhaseTypes
   <3> QED
    BY <1>0, <3>1, <3>2, <3>3 DEF TypeOK, PhaseTypes
  <2> QED
    BY <2>a, <2>b
<1>17. CASE UNCHANGED vars
  BY <1>0, <1>17 DEF vars
<1> QED
  BY <1>0, <1>1, <1>2, <1>3, <1>4, <1>5, <1>6, <1>7, <1>8, <1>9, <1>10, <1>11, <1>12,
     <1>13, <1>14, <1>15, <1>16, <1>17, <1>18
     DEF Next, ScanThread

------------------------------------------------------------------------------
(* CancelSticks: a CANCELLED that was shown is still there at the end.     *)

LEMMA CancelSticksStep ==
  TypeOK /\ ScanInv /\ [Next]_vars => CancelSticks'
<1>0. SUFFICES ASSUME TypeOK, ErrorIsOwn, CancelSticks, [Next]_vars
               PROVE  CancelSticks'
  BY DEF ScanInv
<1> USE <1>0
    DEF CancelSticks, ErrorIsOwn, Alive, At, engineVars, phaseVars, endVars, ctlVars,
        Callback, Terminal, Overwriting
<1>1. CASE StartScan
  BY <1>1 DEF StartScan
<1>2. CASE PauseBegin \/ PauseEvent \/ PauseState \/ PauseShow \/ ResumeBegin
             \/ ResumeState \/ ResumeSet
  BY <1>2 DEF PauseBegin, PauseEvent, PauseState, PauseShow, ResumeBegin, ResumeState,
              ResumeSet
<1>3. CASE CancelBegin \/ CancelState
  BY <1>3 DEF CancelBegin, CancelState
<1>4. CASE EngineReset \/ EngineStarted \/ RunScan \/ UnreachableRoot \/ NoRoots
             \/ Roots
  BY <1>4 DEF EngineReset, EngineStarted, RunScan, UnreachableRoot, NoRoots, Roots
<1>5. CASE CbGuard \/ CbCheck
  BY <1>5 DEF CbGuard, CbCheck
<1>6. CASE CbWrite \/ CbEmit
  BY <1>6 DEF CbWrite, CbEmit, TypeOK, ThreadTypes
<1>7. CASE Discover \/ DiscoverCancelled \/ ScanRaises \/ TierA \/ SkipTierA
             \/ PrefixDone \/ PrefixAborted \/ PauseGate \/ Sample
  BY <1>7 DEF Discover, DiscoverCancelled, ScanRaises, TierA, SkipTierA, PrefixDone,
              PrefixAborted, PauseGate, Sample
<1>8. CASE NothingToHash \/ PhaseDone \/ PhaseAborted
  BY <1>8 DEF NothingToHash, PhaseDone, PhaseAborted, PhaseResult
<1>9. CASE SubmitJobs \/ CollectMore
  BY <1>9 DEF SubmitJobs, CollectMore
<1>10. ASSUME NEW f \in Files, Collect(f) PROVE CancelSticks'
  BY <1>10 DEF Collect
<1>11. CASE Drain \/ DrainStopped \/ FinishScan \/ ForceEmit
  BY <1>11 DEF Drain, DrainStopped, FinishScan, ForceEmit
<1>12. CASE ConvertGroups
  BY <1>12 DEF ConvertGroups
<1>13. CASE ReadCancel \/ GuardTerminal \/ SetTerminal \/ EmitTerminal \/ ScanFailed
  BY <1>13 DEF ReadCancel, GuardTerminal, SetTerminal, EmitTerminal, ScanFailed,
               TypeOK, EndTypes
<1>14. ASSUME NEW f \in Files, Worker(f) PROVE CancelSticks'
  BY <1>14 DEF Worker, PrefixRead, JobTake, JobGate, JobCheck, JobRead
<1>15. CASE UNCHANGED vars
  BY <1>15 DEF vars
<1> QED
  BY <1>1, <1>2, <1>3, <1>4, <1>5, <1>6, <1>7, <1>8, <1>9, <1>10, <1>11, <1>12,
     <1>13, <1>14, <1>15
     DEF Next, Controller, ScanThread

LEMMA ScanInvariant == Spec => [](TypeOK /\ ScanInv)
<1>1. TypeOK /\ ScanInv /\ [Next]_vars => (TypeOK /\ ScanInv)'
  BY TypeStep, ErrorStep, NothingLostStep, CancelSticksStep DEF ScanInv
<1> QED
  BY TypeInit, ScanInit, <1>1, PTL DEF Spec

(* A scan that reports COMPLETED has delivered every duplicate that could  *)
(* be read, whatever the interleaving with pause, resume and cancel.       *)
THEOREM CompleteMeansAllHolds == Spec => []CompleteMeansAll
<1>1. ScanInv => CompleteMeansAll
  BY DEF ScanInv, NothingLost, CompleteMeansAll, At
<1> QED
  BY ScanInvariant, <1>1, PTL

(* The progress stream of a scan never shows COMPLETED after CANCELLED.    *)
THEOREM NoCompletedAfterCancelledHolds == Spec => NoCompletedAfterCancelled
<1>1. TypeOK /\ ScanInv /\ [Next]_vars
        => [outcome = "cancelled" => outcome' # "completed"]_vars
  <2> SUFFICES ASSUME ScanInv, Next, outcome = "cancelled"
               PROVE  outcome' # "completed"
    OBVIOUS
  <2>1. CASE outcome' = outcome
    BY <2>1
  <2>2. CASE EngineReset \/ NoRoots \/ CbEmit \/ EmitTerminal
    BY <2>2 DEF EngineReset, NoRoots, CbEmit, EmitTerminal, ScanInv, CancelSticks, At
  <2> QED
    BY <2>1, <2>2
       DEF Next, Controller, ScanThread, Worker, endVars, phaseVars, engineVars,
           ctlVars,
           StartScan, PauseBegin, PauseEvent, PauseState, PauseShow, ResumeBegin,
           ResumeState, ResumeSet, CancelBegin, CancelState, EngineStarted, RunScan, UnreachableRoot, Roots,
           CbGuard, CbCheck, CbWrite, Discover, DiscoverCancelled, ScanRaises,
           TierA, SkipTierA, PrefixDone, PrefixAborted, PrefixRead, PauseGate, Sample,
           NothingToHash, SubmitJobs, Collect, CollectMore, PhaseDone,
           PhaseAborted, Drain, DrainStopped, FinishScan, ForceEmit, ConvertGroups,
           ReadCancel, GuardTerminal, SetTerminal, ScanFailed, JobTake, JobGate,
           JobCheck, JobRead
<1> QED
  BY ScanInvariant, <1>1, PTL DEF Spec, NoCompletedAfterCancelled

------------------------------------------------------------------------------
(* WorkersBound: the files opened while paused are counted by the workers  *)
(* that were past the gate when pause() cleared the event.                 *)

LEMMA WorkersInit == Init => WorkersBound
<1> SUFFICES ASSUME Init PROVE WorkersBound
  OBVIOUS
<1>1. Busy = {}
  BY DEF Init, Busy
<1> QED
  BY <1>1, FS_EmptySet, WorkersAssumption
     DEF WorkersAssumption, Init, WorkersBound

LEMMA SetsFinite ==
  /\ IsFiniteSet(Busy) /\ Cardinality(Busy) \in Nat
  /\ IsFiniteSet(PastGate) /\ Cardinality(PastGate) \in Nat
  /\ Cardinality(PastGate) <= Cardinality(Busy)
<1>1. Busy \in SUBSET Files /\ PastGate \in SUBSET Busy
  BY DEF Busy, PastGate
<1>2. IsFiniteSet(Busy) /\ Cardinality(Busy) \in Nat
  BY <1>1, FS_Subset, FS_CardinalityType, FilesAssumption DEF FilesAssumption
<1> QED
  BY <1>1, <1>2, FS_Subset, FS_CardinalityType

LEMMA FewerBusy ==
  ASSUME NEW f PROVE Cardinality(Busy \ {f}) \in Nat
                     /\ Cardinality(Busy \ {f}) <= Cardinality(Busy)
<1>1. Busy \ {f} \in SUBSET Busy
  OBVIOUS
<1>2. IsFiniteSet(Busy \ {f}) /\ Cardinality(Busy \ {f}) <= Cardinality(Busy)
  BY <1>1, SetsFinite, FS_Subset
<1> QED
  BY <1>2, FS_CardinalityType

LEMMA WorkersStep ==
  TypeOK /\ WorkersBound /\ [Next]_vars => WorkersBound'
<1>0. SUFFICES ASSUME TypeOK, WorkersBound, [Next]_vars PROVE WorkersBound'
  OBVIOUS
<1>a. NumWorkers \in Nat /\ leaked \in Nat /\ job \in [Files -> JobStates]
  BY <1>0, WorkersAssumption DEF WorkersAssumption, TypeOK, PhaseTypes
<1>b. ASSUME UNCHANGED <<job, leaked, pauseEvent>> PROVE WorkersBound'
  BY <1>0, <1>b DEF WorkersBound, Busy, PastGate
<1>1. CASE PauseEvent
  <2>1. UNCHANGED <<Busy, PastGate>>
    BY <1>1 DEF PauseEvent, Busy, PastGate
  <2>2. IF pauseEvent THEN leaked' = 0 ELSE leaked' = leaked
    BY <1>1 DEF PauseEvent
  <2> QED
    BY <1>0, <1>a, <2>1, <2>2, SetsFinite DEF WorkersBound
<1>2. CASE ResumeSet \/ EngineReset
  <2>1. UNCHANGED <<Busy, leaked>> /\ pauseEvent' = TRUE
    BY <1>2 DEF ResumeSet, EngineReset, phaseVars, Busy
  <2> QED
    BY <1>0, <2>1 DEF WorkersBound
<1>3. CASE SubmitJobs
  <2>1. Busy' = {} /\ PastGate' = {} /\ leaked' = leaked
    BY <1>3 DEF SubmitJobs, Busy, PastGate
  <2> QED
    BY <1>0, <1>a, <2>1, FS_EmptySet DEF WorkersBound
<1>4. ASSUME NEW f \in Files, Collect(f) PROVE WorkersBound'
  <2>1. UNCHANGED <<Busy, PastGate, leaked, pauseEvent>>
    BY <1>4, <1>a DEF Collect, engineVars, Busy, PastGate
  <2> QED
    BY <1>0, <2>1 DEF WorkersBound
<1>5. CASE PhaseAborted
  <2>1. UNCHANGED <<Busy, PastGate, leaked, pauseEvent>>
    BY <1>5, <1>a DEF PhaseAborted, engineVars, Busy, PastGate
  <2> QED
    BY <1>0, <2>1 DEF WorkersBound
<1>6. ASSUME NEW f \in Files, JobTake(f) PROVE WorkersBound'
  <2>1. Busy' = Busy \cup {f} /\ UNCHANGED <<PastGate, leaked, pauseEvent>>
    BY <1>6, <1>a DEF JobTake, JobStep, engineVars, Busy, PastGate
  <2>2. Cardinality(Busy') <= NumWorkers
    <3>1. Cardinality(Busy) < NumWorkers
      BY <1>6 DEF JobTake
    <3>2. Cardinality(Busy \cup {f}) <= Cardinality(Busy) + 1
      <4>1. Cardinality(Busy \cup {f}) = IF f \in Busy THEN Cardinality(Busy)
                                         ELSE Cardinality(Busy) + 1
        BY SetsFinite, FS_AddElement
      <4> QED
        BY <4>1, SetsFinite
    <3>3. Cardinality(Busy \cup {f}) \in Nat
      BY SetsFinite, FS_AddElement, FS_CardinalityType
    <3> QED
      BY <1>a, <2>1, <3>1, <3>2, <3>3, SetsFinite
  <2> QED
    BY <1>0, <2>1, <2>2 DEF WorkersBound
<1>7. ASSUME NEW f \in Files, JobGate(f) PROVE WorkersBound'
  <2>1. UNCHANGED <<Busy, leaked, pauseEvent>> /\ pauseEvent
    BY <1>7, <1>a DEF JobGate, JobStep, engineVars, Busy
  <2> QED
    BY <1>0, <2>1 DEF WorkersBound
<1>8. ASSUME NEW f \in Files, JobCheck(f) PROVE WorkersBound'
  <2>1. PastGate' = PastGate \ {f} /\ f \in PastGate /\ UNCHANGED pauseEvent
    BY <1>8, <1>a DEF JobCheck, JobStep, engineVars, PastGate
  <2>2. Busy' = Busy \/ Busy' = Busy \ {f}
    BY <1>8, <1>a DEF JobCheck, JobStep, Busy
  <2>3. Cardinality(Busy') <= NumWorkers
    <3>1. Cardinality(Busy) <= NumWorkers
      BY <1>0 DEF WorkersBound
    <3>2. Cardinality(Busy \ {f}) \in Nat /\ Cardinality(Busy \ {f}) <= Cardinality(Busy)
      BY FewerBusy
    <3> QED
      BY <1>a, <2>2, <3>1, <3>2, SetsFinite
  <2>4. Cardinality(PastGate') = Cardinality(PastGate) - 1
    BY <2>1, SetsFinite, FS_RemoveElement
  <2>5. leaked' = leaked \/ (leaked' = leaked + 1 /\ ~pauseEvent)
    BY <1>8 DEF JobCheck
  <2>6. Cardinality(PastGate) \in Nat /\ Cardinality(PastGate) # 0
    BY <2>1, SetsFinite, FS_EmptySet
  <2> QED
    BY <1>0, <1>a, <2>1, <2>3, <2>4, <2>5, <2>6 DEF WorkersBound
<1>9. ASSUME NEW f \in Files, JobRead(f) PROVE WorkersBound'
  <2>1. Busy' = Busy \ {f} /\ UNCHANGED <<PastGate, leaked, pauseEvent>>
    BY <1>9, <1>a DEF JobRead, JobStep, engineVars, Busy, PastGate
  <2>2. Cardinality(Busy') <= NumWorkers
    <3>1. Cardinality(Busy) <= NumWorkers
      BY <1>0 DEF WorkersBound
    <3>2. Cardinality(Busy \ {f}) \in Nat /\ Cardinality(Busy \ {f}) <= Cardinality(Busy)
      BY FewerBusy
    <3> QED
      BY <1>a, <2>1, <3>1, <3>2, SetsFinite
  <2> QED
    BY <1>0, <2>1, <2>2 DEF WorkersBound
<1>10. CASE StartScan \/ PauseBegin \/ PauseState \/ PauseShow \/ ResumeBegin
              \/ ResumeState \/ CancelBegin \/ CancelState
  BY <1>10, <1>b DEF StartScan, PauseBegin, PauseState, PauseShow, ResumeBegin,
                     ResumeState, CancelBegin, CancelState, engineVars, phaseVars
<1>11. CASE EngineStarted \/ RunScan \/ UnreachableRoot \/ NoRoots \/ Roots
              \/ CbGuard \/ CbCheck \/ CbWrite \/ CbEmit
  BY <1>11, <1>b DEF EngineStarted, RunScan, UnreachableRoot, NoRoots, Roots,
                     CbGuard, CbCheck, CbWrite, CbEmit, engineVars, phaseVars
<1>16. CASE TierA \/ SkipTierA \/ PrefixDone \/ PrefixAborted \/ PauseGate
              \/ Sample \/ \E f \in Files : PrefixRead(f)
  BY <1>16, <1>b DEF TierA, SkipTierA, PrefixDone, PrefixAborted, PauseGate, Sample,
                     PrefixRead, engineVars, phaseVars
<1>12. CASE Discover \/ DiscoverCancelled \/ ScanRaises
              \/ NothingToHash \/ CollectMore \/ PhaseDone
  BY <1>12, <1>b DEF Discover, DiscoverCancelled, ScanRaises,
                     NothingToHash, CollectMore, PhaseDone, engineVars, phaseVars
<1>13. CASE Drain \/ DrainStopped \/ FinishScan \/ ForceEmit \/ ConvertGroups
  BY <1>13, <1>b DEF Drain, DrainStopped, FinishScan, ForceEmit, ConvertGroups,
                     engineVars, phaseVars
<1>14. CASE ReadCancel \/ GuardTerminal \/ SetTerminal \/ EmitTerminal \/ ScanFailed
  BY <1>14, <1>b DEF ReadCancel, GuardTerminal, SetTerminal, EmitTerminal,
                     ScanFailed, engineVars, phaseVars
<1>15. CASE UNCHANGED vars
  BY <1>15, <1>b DEF vars, engineVars, phaseVars
<1> QED
  BY <1>0, <1>1, <1>2, <1>3, <1>4, <1>5, <1>6, <1>7, <1>8, <1>9, <1>10, <1>11,
     <1>12, <1>13, <1>14, <1>15, <1>16
     DEF Next, Controller, ScanThread, Worker

------------------------------------------------------------------------------
(* PassesBound: a pass without a gate that reads in a pause had begun      *)
(* before it, and the next one stands behind a gate.                       *)

LEMMA PassesInit == Init => PassesBound
  BY DEF Init, PassesBound

LEMMA PassesStep ==
  TypeOK /\ NothingLost /\ ErrorIsOwn /\ PassesBound /\ [Next]_vars => PassesBound'
<1>0. SUFFICES ASSUME TypeOK, NothingLost, ErrorIsOwn, PassesBound, [Next]_vars
               PROVE  PassesBound'
  OBVIOUS
<1> USE <1>0
    DEF PassesBound, At, engineVars, phaseVars, endVars, ctlVars, Callback
<1>1. CASE Controller
  BY <1>1 DEF Controller, StartScan, PauseBegin, PauseEvent, PauseState,
              PauseShow, ResumeBegin, ResumeState, ResumeSet, CancelBegin, CancelState
<1>2. CASE EngineReset \/ EngineStarted \/ RunScan \/ UnreachableRoot \/ NoRoots
             \/ Roots
  BY <1>2 DEF EngineReset, EngineStarted, RunScan, UnreachableRoot, NoRoots, Roots
<1>3. CASE CbGuard \/ CbCheck \/ CbWrite \/ CbEmit
  BY <1>3 DEF CbGuard, CbCheck, CbWrite, CbEmit, ErrorIsOwn
<1>4. CASE Discover \/ DiscoverCancelled \/ ScanRaises \/ TierA \/ SkipTierA
             \/ PrefixDone \/ PrefixAborted \/ PauseGate
  BY <1>4 DEF Discover, DiscoverCancelled, ScanRaises, TierA, SkipTierA,
              PrefixDone, PrefixAborted, PauseGate
<1>5. CASE Sample
  BY <1>5 DEF Sample
<1>6. CASE NothingToHash \/ SubmitJobs \/ CollectMore \/ PhaseDone \/ PhaseAborted
  BY <1>6 DEF NothingToHash, SubmitJobs, CollectMore, PhaseDone, PhaseAborted,
              PhaseResult
<1>7. ASSUME NEW f \in Files, Collect(f) PROVE PassesBound'
  BY <1>7 DEF Collect
<1>8. CASE Drain \/ DrainStopped \/ FinishScan \/ ForceEmit \/ ConvertGroups
  BY <1>8 DEF Drain, DrainStopped, FinishScan, ForceEmit, ConvertGroups
<1>9. CASE ReadCancel \/ GuardTerminal \/ SetTerminal \/ EmitTerminal \/ ScanFailed
  BY <1>9 DEF ReadCancel, GuardTerminal, SetTerminal, EmitTerminal, ScanFailed
<1>10. ASSUME NEW f \in Files, PrefixRead(f) PROVE PassesBound'
  <2>1. At = "prefix" /\ UNCHANGED <<engineVars, spc, ret>>
    BY <1>10 DEF PrefixRead, NothingLost
  <2> QED
    BY <1>10, <2>1 DEF PrefixRead
<1>11. ASSUME NEW f \in Files, JobTake(f) \/ JobGate(f) \/ JobCheck(f) \/ JobRead(f)
       PROVE  PassesBound'
  BY <1>11 DEF JobTake, JobGate, JobCheck, JobRead
<1>12. CASE UNCHANGED vars
  BY <1>12 DEF vars
<1> QED
  BY <1>1, <1>2, <1>3, <1>4, <1>5, <1>6, <1>7, <1>8, <1>9, <1>10, <1>11, <1>12
     DEF Next, ScanThread, Worker

(* After pause() at most one file per hash worker is still opened, and one *)
(* pass without a gate is still finished; no second one begins.            *)
THEOREM PauseBoundHolds == Spec => []PauseBound
<1>1. /\ TypeOK /\ ScanInv /\ WorkersBound /\ PassesBound /\ [Next]_vars
      => (WorkersBound /\ PassesBound)'
  BY WorkersStep, PassesStep DEF ScanInv
<1>2. WorkersBound /\ PassesBound => PauseBound
  BY DEF WorkersBound, PassesBound, PauseBound
<1> QED
  BY ScanInvariant, WorkersInit, PassesInit, <1>1, <1>2, PTL DEF Spec

------------------------------------------------------------------------------
(* The engine implements ScanContract.                                     *)

LEMMA ContractInit == Init => Contract!Init
  BY DEF Init, Contract!Init, Phase

LEMMA ContractStep ==
  TypeOK /\ ScanInv /\ [Next]_vars => [Contract!Next]_(Contract!contractVars)
<1>0. SUFFICES ASSUME TypeOK, NothingLost, ErrorIsOwn, CancelSticks, [Next]_vars
               PROVE  Contract!Next \/ UNCHANGED Contract!contractVars
  BY DEF ScanInv
<1> USE <1>0
    DEF Contract!contractVars, Phase, Closing, engineVars, phaseVars, endVars, ctlVars,
        Callback
<1>1. CASE EngineReset
  <2>1. Contract!Start
    BY <1>1 DEF EngineReset, Contract!Start, ErrorIsOwn
  <2> QED
    BY <2>1 DEF Contract!Next
<1>2. CASE CancelBegin
  <2>1. Contract!RequestCancel
    BY <1>2 DEF CancelBegin, Contract!RequestCancel
  <2> QED
    BY <2>1 DEF Contract!Next
<1>3. CASE NoRoots
  <2>1. Contract!NothingToScan
    BY <1>3 DEF NoRoots, Contract!NothingToScan, NothingLost, At
  <2> QED
    BY <2>1 DEF Contract!Next
<1>4. ASSUME NEW f \in Files, Collect(f)
      PROVE  Contract!Next \/ UNCHANGED Contract!contractVars
  <2>1. Contract!FailToRead
    BY <1>4 DEF Collect, Contract!FailToRead, TypeOK, PhaseTypes
  <2> QED
    BY <2>1 DEF Contract!Next
<1>5. CASE ConvertGroups
  <2>1. /\ results' \in SUBSET Files /\ bad' \in SUBSET Files
        /\ bad \subseteq bad'
    BY <1>5 DEF ConvertGroups, Grouped, TypeOK, PhaseTypes, EndTypes
  <2>2. Contract!Deliver
    BY <1>5, <2>1 DEF ConvertGroups, Contract!Deliver
  <2> QED
    BY <2>2 DEF Contract!Next
<1>6. CASE ReadCancel
  <2>1. Contract!Close
    BY <1>6 DEF ReadCancel, Contract!Close
  <2> QED
    BY <2>1 DEF Contract!Next
<1>7. CASE EmitTerminal
  <2>1. term \in Contract!Outcomes
    BY DEF Contract!Outcomes, TypeOK, EndTypes
  <2>2. CASE term = "error"
    <3>1. Contract!Abort("error")
      BY <1>7, <2>2 DEF EmitTerminal, Contract!Abort
    <3> QED
      BY <2>1, <2>2, <3>1 DEF Contract!Next
  <2>3. CASE term # "error"
    <3>1. term = "completed" => ~heard /\ Grouped(Files \ bad) \subseteq results
      BY <1>7 DEF EmitTerminal, NothingLost, At
    <3>2. Grouped(Files \ bad) = Contract!Grouped(Files \ bad)
      BY DEF Grouped, Contract!Grouped
    <3>3. Contract!Finish(term)
      BY <1>7, <2>1, <2>3, <3>1, <3>2 DEF EmitTerminal, Contract!Finish, Contract!Outcomes
    <3> QED
      BY <2>1, <3>3 DEF Contract!Next
  <2> QED
    BY <2>2, <2>3
<1>8. CASE StartScan \/ PauseBegin \/ PauseEvent \/ PauseState \/ PauseShow
             \/ ResumeBegin \/ ResumeState \/ ResumeSet \/ CancelState
  BY <1>8 DEF StartScan, PauseBegin, PauseEvent, PauseState, PauseShow, ResumeBegin,
              ResumeState, ResumeSet, CancelState, Alive, ErrorIsOwn
<1>9. CASE EngineStarted \/ RunScan \/ UnreachableRoot \/ Roots
  BY <1>9 DEF EngineStarted, RunScan, UnreachableRoot, Roots
<1>10. CASE CbGuard \/ CbCheck \/ CbWrite \/ CbEmit
  BY <1>10 DEF CbGuard, CbCheck, CbWrite, CbEmit, ErrorIsOwn
<1>11. CASE Discover \/ DiscoverCancelled \/ ScanRaises \/ TierA \/ SkipTierA
              \/ PrefixDone \/ PrefixAborted \/ PauseGate \/ Sample
  BY <1>11 DEF Discover, DiscoverCancelled, ScanRaises, TierA, SkipTierA, PrefixDone,
               PrefixAborted, PauseGate, Sample
<1>12. CASE NothingToHash \/ SubmitJobs \/ CollectMore \/ PhaseDone \/ PhaseAborted
  BY <1>12 DEF NothingToHash, SubmitJobs, CollectMore, PhaseDone, PhaseAborted,
               PhaseResult
<1>13. CASE Drain \/ DrainStopped \/ FinishScan \/ ForceEmit
  BY <1>13 DEF Drain, DrainStopped, FinishScan, ForceEmit
<1>14. CASE GuardTerminal \/ SetTerminal \/ ScanFailed
  BY <1>14 DEF GuardTerminal, SetTerminal, ScanFailed, Terminal, ErrorIsOwn, At
<1>15. ASSUME NEW f \in Files, Worker(f)
       PROVE  Contract!Next \/ UNCHANGED Contract!contractVars
  <2>1. CASE PrefixRead(f)
    <3>1. At = "prefix" /\ f \in Files
      BY <1>15, <2>1 DEF PrefixRead, NothingLost
    <3>2. Phase = "running" /\ Phase' = "running"
      BY <2>1, <3>1 DEF PrefixRead, At
    <3>3. Contract!FailToRead
      BY <2>1, <3>2 DEF PrefixRead, Contract!FailToRead, TypeOK, PhaseTypes
    <3> QED
      BY <3>3 DEF Contract!Next
  <2>2. CASE ~PrefixRead(f)
    BY <1>15, <2>2 DEF Worker, JobTake, JobGate, JobCheck, JobRead
  <2> QED
    BY <2>1, <2>2
<1>16. CASE UNCHANGED vars
  BY <1>16 DEF vars
<1> QED
  BY <1>1, <1>2, <1>3, <1>4, <1>5, <1>6, <1>7, <1>8, <1>9, <1>10, <1>11, <1>12,
     <1>13, <1>14, <1>15, <1>16
     DEF Next, Controller, ScanThread

(* Every behaviour of the engine, its threads and its callbacks is one of  *)
(* ScanContract: a cancel asked for in time is honoured, and completion    *)
(* means a full result.                                                    *)
THEOREM EngineKeepsContract == Spec => KeepsContract
  BY ScanInvariant, ContractInit, ContractStep, PTL
     DEF Spec, KeepsContract, Contract!Spec
=============================================================================
