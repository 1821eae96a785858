------------------------ MODULE RunnerLaunches_proofs ------------------------
(***************************************************************************)
(* Proofs that the promise chain of withAgentLock is a first-come,         *)
(* first-served lock for any number of calls, as long as no launch gives   *)
(* up while another call holds it (Prompt).                                *)
(***************************************************************************)
EXTENDS RunnerLaunches, FiniteSetTheorems, TLAPS

-----------------------------------------------------------------------------
(* Steps, as the lock sees them *)

\* Calls move between awaits they make while holding the lock.
Works ==
    /\ UNCHANGED <<kind, result, lock>>
    /\ \E c \in Calls :
          /\ Inside(c)
          /\ \E label \in {"listing", "removing", "running", "inspecting", "discarding",
                           "cleaning", "acting"} : Goto(c, label)

\* A call ends: it held the lock, or it was waiting and gave up.
Ends(c) ==
    /\ Live(c)
    /\ \E how \in {"ok", "cancelled", "timeout", "failed"} : End(c, how)
    /\ pc[c] = "waiting" => kind[c] = "start" /\ (Granted(c) \/ expired[c])

\* Nothing of the lock moves.
Still == UNCHANGED <<kind, result, lock, pc>>

\* What a launch that gives up reports is one of the three failures.
LEMMA VerdictType ==
  ASSUME TypeOK, NEW c \in Calls
  PROVE  Verdict(c) \in {"cancelled", "timeout", "failed"}
  BY DEF Verdict, TypeOK

\* A step of a launch works under the lock, ends it, or leaves the lock alone.
LEMMA LaunchSteps ==
  ASSUME TypeOK, NEW c \in Calls, LaunchStep(c)
  PROVE  Works \/ Ends(c) \/ Still
<1>1. CASE Project(c)
  BY <1>1 DEF Project, Works, Inside, Live
<1>2. CASE ListForLaunch(c)
  BY <1>2 DEF ListForLaunch, Works, Inside, Live
<1>3. CASE \E k \in Calls : RemoveSurplus(c, k)
  BY <1>3 DEF RemoveSurplus, Still
<1>4. CASE AcceptWinner(c)
  BY <1>4 DEF AcceptWinner, Ends, Live
<1>5. CASE Run(c)
  BY <1>5 DEF Run, Works, Inside, Live
<1>6. CASE Created(c)
  BY <1>6 DEF Created, Works, Inside, Live
<1>7. CASE AcceptCreated(c)
  BY <1>7 DEF AcceptCreated, Ends, Live
<1>8. CASE GiveUpWaiting(c)
  BY <1>8, VerdictType DEF GiveUpWaiting, Ends, LiveLaunch
<1>9. CASE BreakProjection(c)
  BY <1>9, VerdictType DEF BreakProjection, Ends, Live
<1>10. CASE BreakRemoval(c)
  BY <1>10, VerdictType DEF BreakRemoval, Ends, Live
<1>11. CASE BreakRun(c)
  BY <1>11 DEF BreakRun, Works, Inside, Live
<1>12. CASE BreakInspection(c)
  BY <1>12 DEF BreakInspection, Works, Inside, Live
<1>13. CASE Discard(c)
  BY <1>13, VerdictType DEF Discard, Unbounded, Ends, Live
<1>14. QED
  BY <1>1, <1>2, <1>3, <1>4, <1>5, <1>6, <1>7, <1>8, <1>9, <1>10, <1>11, <1>12, <1>13
  DEF LaunchStep

\* So does a step of a stop or a cleanup.
LEMMA StopSteps ==
  ASSUME TypeOK, NEW c \in Calls, StopStep(c)
  PROVE  Works \/ Ends(c) \/ Still
<1>1. CASE List(c)
  BY <1>1 DEF List, Works, Inside, Live
<1>2. CASE \E k \in Calls : Act(c, k)
  BY <1>2 DEF Act, Still
<1>3. CASE FinishStop(c)
  BY <1>3 DEF FinishStop, Ends, Live
<1>4. CASE EraseRoot(c)
  BY <1>4 DEF EraseRoot, Ends, Live
<1>5. CASE FailAct(c)
  BY <1>5 DEF FailAct, Ends, Live
<1>6. QED
  BY <1>1, <1>2, <1>3, <1>4, <1>5 DEF StopStep

\* Every step of the runner, as the lock sees it.
LEMMA LockSteps ==
  ASSUME TypeOK, [Next]_vars
  PROVE  \/ \E c \in Calls, k \in {"start", "stop", "cleanup"} : Arrive(c, k)
         \/ \E c \in Calls : Enter(c)
         \/ \E c \in Calls : Ends(c)
         \/ Works
         \/ Still
<1>1. ASSUME NEW c \in Calls, DeadlinePasses(c) \/ LateProjection(c) PROVE Still
  BY <1>1 DEF DeadlinePasses, LateProjection, Still
<1>2. CASE UNCHANGED vars
  BY <1>2 DEF vars, Still
<1>3. QED
  BY <1>1, <1>2, LaunchSteps, StopSteps DEF Next

-----------------------------------------------------------------------------
(* Type correctness *)

EndedMatches(c) == (result[c] = "none") = (pc[c] # "done")

\* The types of what the end of a call writes.
LEMMA EndType ==
  ASSUME TypeOK, NEW c \in Calls, Live(c),
         NEW how \in {"ok", "cancelled", "timeout", "failed"}, End(c, how)
  PROVE  /\ kind' = kind /\ target' = target /\ order' = order /\ blockers' = blockers
         /\ pc' \in [Calls -> {"none", "acting", "done"} \cup Bounded \cup Unbounded]
         /\ result' \in [Calls -> {"none", "ok", "cancelled", "timeout", "failed"}]
         /\ tail' \in Calls \cup {NoCall}
         /\ \A d \in Calls : EndedMatches(d)'
<1>1. /\ kind' = kind /\ target' = target /\ order' = order /\ blockers' = blockers
      /\ pc' = [pc EXCEPT ![c] = "done"] /\ result' = [result EXCEPT ![c] = how]
      /\ tail' \in {tail, NoCall}
  BY DEF End, Goto, ReleasedTail
<1>2. pc' \in [Calls -> {"none", "acting", "done"} \cup Bounded \cup Unbounded]
  BY <1>1 DEF TypeOK
<1>3. result' \in [Calls -> {"none", "ok", "cancelled", "timeout", "failed"}]
  BY <1>1 DEF TypeOK
<1>4. tail' \in Calls \cup {NoCall}
  BY <1>1 DEF TypeOK
<1>5. ASSUME NEW d \in Calls PROVE EndedMatches(d)'
  <2>1. CASE d = c
    BY <1>1, <2>1 DEF TypeOK, EndedMatches
  <2>2. CASE d # c
    BY <1>1, <2>2 DEF TypeOK, EndedMatches
  <2>3. QED
    BY <2>1, <2>2
<1>6. QED
  BY <1>1, <1>2, <1>3, <1>4, <1>5

\* A call that goes on to another await keeps the type of pc and of the results.
LEMMA GotoType ==
  ASSUME TypeOK, NEW c \in Calls, pc[c] # "done", UNCHANGED result,
         NEW label \in {"none", "acting"} \cup Bounded \cup Unbounded, Goto(c, label)
  PROVE  /\ pc' \in [Calls -> {"none", "acting", "done"} \cup Bounded \cup Unbounded]
         /\ \A d \in Calls : EndedMatches(d)'
<1>1. pc' = [pc EXCEPT ![c] = label] /\ label # "done"
  BY DEF Goto, Bounded, Unbounded
<1>2. pc' \in [Calls -> {"none", "acting", "done"} \cup Bounded \cup Unbounded]
  BY <1>1 DEF TypeOK
<1>3. ASSUME NEW d \in Calls PROVE EndedMatches(d)'
  BY <1>1 DEF TypeOK, EndedMatches
<1>4. QED
  BY <1>2, <1>3

\* The calls that arrived are finitely many, so their count is a natural number.
LEMMA ArrivedFinite ==
  /\ IsFiniteSet({d \in Calls : pc[d] # "none"})
  /\ Cardinality({d \in Calls : pc[d] # "none"}) \in Nat
  BY CallsAssumption, FS_Subset, FS_CardinalityType

\* The parts of TypeOK that a step can disturb, in three groups.
LockTyped ==
    /\ kind \in [Calls -> {"none", "start", "stop", "cleanup"}]
    /\ order \in [Calls -> Nat]
    /\ pc \in [Calls -> {"none", "acting", "done"} \cup Bounded \cup Unbounded]
    /\ tail \in Calls \cup {NoCall}
    /\ blockers \in [Calls -> SUBSET Calls]
    /\ result \in [Calls -> {"none", "ok", "cancelled", "timeout", "failed"}]
    /\ target \in [Calls -> Targets]
    /\ \A c \in Calls : EndedMatches(c)

LaunchTyped ==
    /\ reason \in [Calls -> {"none", "cancelled", "timeout"}]
    /\ expired \in [Calls -> BOOLEAN]
    /\ seen \in [Calls -> SUBSET Calls]
    /\ selected \in [Calls -> Calls \cup {NoCall}]

HostTyped ==
    /\ container \in [Calls -> {"absent", "running", "stopped"}]
    /\ root \in Targets \cup {NoTarget}
    /\ late \in SUBSET Calls

\* Together they are TypeOK; stated of the state after a step, where it is needed.
LEMMA TypeParts ==
  ASSUME LockTyped', LaunchTyped', HostTyped'
  PROVE  TypeOK'
  BY DEF TypeOK, LockTyped, LaunchTyped, HostTyped, EndedMatches

\* A step that leaves the lock alone keeps its types.
LEMMA StillLockTyped ==
  ASSUME TypeOK, UNCHANGED <<kind, target, pc, result, lock>>
  PROVE  LockTyped'
  BY DEF TypeOK, LockTyped, EndedMatches, lock

\* So does a call that goes on to another await,
LEMMA GotoLockTyped ==
  ASSUME TypeOK, NEW c \in Calls, pc[c] # "done", UNCHANGED <<kind, target, result, lock>>,
         NEW label \in {"none", "acting"} \cup Bounded \cup Unbounded, Goto(c, label)
  PROVE  LockTyped'
<1>1. /\ pc' \in [Calls -> {"none", "acting", "done"} \cup Bounded \cup Unbounded]
      /\ \A d \in Calls : EndedMatches(d)'
  BY GotoType
<1>2. QED
  BY <1>1 DEF LockTyped, TypeOK, lock

\* and a call that ends.
LEMMA EndLockTyped ==
  ASSUME TypeOK, NEW c \in Calls, Live(c),
         NEW how \in {"ok", "cancelled", "timeout", "failed"}, End(c, how)
  PROVE  LockTyped'
  BY EndType DEF LockTyped, TypeOK

\* A step that leaves the launches alone keeps their types.
LEMMA StillLaunchTyped ==
  TypeOK /\ UNCHANGED launch => LaunchTyped'
  BY DEF TypeOK, LaunchTyped, launch

\* A step that leaves the host alone keeps its types.
LEMMA StillHostTyped ==
  TypeOK /\ UNCHANGED host => HostTyped'
  BY DEF TypeOK, HostTyped, host

\* The arrival of a call keeps every type.
LEMMA ArriveType ==
  ASSUME TypeOK, NEW c \in Calls, NEW k \in {"start", "stop", "cleanup"}, Arrive(c, k)
  PROVE  TypeOK'
<1>1. /\ pc[c] = "none" /\ Goto(c, "waiting") /\ result' = result
      /\ kind' = [kind EXCEPT ![c] = k] /\ target' = target /\ tail' = c
  BY DEF Arrive
<1>2. order' \in [Calls -> Nat]
  BY ArrivedFinite DEF Arrive, TypeOK
<1>3. blockers' \in [Calls -> SUBSET Calls]
  <2>1. (IF tail = NoCall THEN {} ELSE blockers[tail] \cup {tail}) \in SUBSET Calls
    BY DEF TypeOK
  <2>2. QED
    BY <2>1 DEF Arrive, TypeOK
<1>4. kind' \in [Calls -> {"none", "start", "stop", "cleanup"}]
  BY <1>1 DEF TypeOK
<1>5. /\ pc' \in [Calls -> {"none", "acting", "done"} \cup Bounded \cup Unbounded]
      /\ \A d \in Calls : EndedMatches(d)'
  BY <1>1, GotoType DEF Bounded
<1>6. LockTyped'
  BY <1>1, <1>2, <1>3, <1>4, <1>5 DEF LockTyped, TypeOK
<1>7. LaunchTyped'
  <2>1. Cancelled(k) \in [Calls -> {"none", "cancelled", "timeout"}]
    BY DEF Cancelled, TypeOK
  <2>2. QED
    BY <2>1 DEF Arrive, LaunchTyped, TypeOK
<1>8. HostTyped'
  <2>1. UNCHANGED host
    BY DEF Arrive
  <2>2. QED
    BY <2>1, StillHostTyped
<1>9. QED
  BY <1>6, <1>7, <1>8, TypeParts

\* Every step of a launch keeps every type.
LEMMA LaunchStepType ==
  ASSUME TypeOK, NEW c \in Calls, LaunchStep(c)
  PROVE  TypeOK'
<1>1. CASE Project(c)
  <2>1. LockTyped'
    BY <1>1, GotoLockTyped DEF Project, Bounded
  <2>2. LaunchTyped'
    BY <1>1, StillLaunchTyped DEF Project
  <2>3. HostTyped'
    BY <1>1 DEF Project, HostTyped, TypeOK
  <2>4. QED
    BY <2>1, <2>2, <2>3, TypeParts
<1>2. CASE ListForLaunch(c)
  <2>1. LockTyped'
    BY <1>2, GotoLockTyped DEF ListForLaunch, Bounded
  <2>2. LaunchTyped'
    <3>1. /\ Existing \in SUBSET Calls /\ Winners(c) \in SUBSET Calls
      BY DEF Existing, Winners
    <3>2. seen' \in [Calls -> SUBSET Calls] /\ selected' \in [Calls -> Calls \cup {NoCall}]
      BY <1>2, <3>1 DEF ListForLaunch, TypeOK
    <3>3. QED
      BY <1>2, <3>2 DEF ListForLaunch, LaunchTyped, TypeOK
  <2>3. HostTyped'
    BY <1>2, StillHostTyped DEF ListForLaunch
  <2>4. QED
    BY <2>1, <2>2, <2>3, TypeParts
<1>3. ASSUME NEW k \in Calls, RemoveSurplus(c, k) PROVE TypeOK'
  <2>1. LockTyped'
    BY <1>3, StillLockTyped DEF RemoveSurplus
  <2>2. LaunchTyped'
    BY <1>3 DEF RemoveSurplus, LaunchTyped, TypeOK
  <2>3. HostTyped'
    BY <1>3 DEF RemoveSurplus, HostTyped, TypeOK
  <2>4. QED
    BY <2>1, <2>2, <2>3, TypeParts
<1>4. CASE AcceptWinner(c)
  <2>1. LockTyped'
    BY <1>4, EndLockTyped DEF AcceptWinner, Live
  <2>2. LaunchTyped' /\ HostTyped'
    BY <1>4, StillLaunchTyped, StillHostTyped DEF AcceptWinner
  <2>3. QED
    BY <2>1, <2>2, TypeParts
<1>5. CASE Run(c)
  <2>1. LockTyped'
    BY <1>5, GotoLockTyped DEF Run, Bounded
  <2>2. LaunchTyped' /\ HostTyped'
    BY <1>5, StillLaunchTyped, StillHostTyped DEF Run
  <2>3. QED
    BY <2>1, <2>2, TypeParts
<1>6. CASE Created(c)
  <2>1. LockTyped'
    BY <1>6, GotoLockTyped DEF Created, Bounded
  <2>2. LaunchTyped'
    BY <1>6, StillLaunchTyped DEF Created
  <2>3. HostTyped'
    BY <1>6 DEF Created, HostTyped, TypeOK
  <2>4. QED
    BY <2>1, <2>2, <2>3, TypeParts
<1>7. CASE AcceptCreated(c)
  <2>1. LockTyped'
    BY <1>7, EndLockTyped DEF AcceptCreated, Live
  <2>2. LaunchTyped'
    BY <1>7 DEF AcceptCreated, LaunchTyped, TypeOK
  <2>3. HostTyped'
    BY <1>7, StillHostTyped DEF AcceptCreated
  <2>4. QED
    BY <2>1, <2>2, <2>3, TypeParts
<1>8. CASE GiveUpWaiting(c)
  <2>1. LockTyped'
    BY <1>8, EndLockTyped, VerdictType DEF GiveUpWaiting, Live
  <2>2. LaunchTyped' /\ HostTyped'
    BY <1>8, StillLaunchTyped, StillHostTyped DEF GiveUpWaiting
  <2>3. QED
    BY <2>1, <2>2, TypeParts
<1>9. CASE BreakProjection(c)
  <2>1. LockTyped'
    BY <1>9, EndLockTyped, VerdictType DEF BreakProjection, Live
  <2>2. LaunchTyped'
    BY <1>9, StillLaunchTyped DEF BreakProjection
  <2>3. HostTyped'
    BY <1>9 DEF BreakProjection, HostTyped, TypeOK
  <2>4. QED
    BY <2>1, <2>2, <2>3, TypeParts
<1>10. CASE BreakRemoval(c)
  <2>1. LockTyped'
    BY <1>10, EndLockTyped, VerdictType DEF BreakRemoval, Live
  <2>2. LaunchTyped'
    BY <1>10, StillLaunchTyped DEF BreakRemoval
  <2>3. HostTyped'
    BY <1>10 DEF BreakRemoval, HostTyped, TypeOK
  <2>4. QED
    BY <2>1, <2>2, <2>3, TypeParts
<1>11. CASE BreakRun(c)
  <2>1. LockTyped'
    BY <1>11, GotoLockTyped DEF BreakRun, Unbounded
  <2>2. LaunchTyped'
    BY <1>11, StillLaunchTyped DEF BreakRun
  <2>3. HostTyped'
    BY <1>11 DEF BreakRun, HostTyped, TypeOK
  <2>4. QED
    BY <2>1, <2>2, <2>3, TypeParts
<1>12. CASE BreakInspection(c)
  <2>1. LockTyped'
    BY <1>12, GotoLockTyped DEF BreakInspection, Unbounded
  <2>2. LaunchTyped' /\ HostTyped'
    BY <1>12, StillLaunchTyped, StillHostTyped DEF BreakInspection
  <2>3. QED
    BY <2>1, <2>2, TypeParts
<1>13. CASE Discard(c)
  <2>1. LockTyped'
    BY <1>13, EndLockTyped, VerdictType DEF Discard, Live, Unbounded
  <2>2. LaunchTyped'
    BY <1>13, StillLaunchTyped DEF Discard
  <2>3. HostTyped'
    BY <1>13 DEF Discard, HostTyped, TypeOK
  <2>4. QED
    BY <2>1, <2>2, <2>3, TypeParts
<1>14. QED
  BY <1>1, <1>2, <1>3, <1>4, <1>5, <1>6, <1>7, <1>8, <1>9, <1>10, <1>11, <1>12, <1>13
  DEF LaunchStep

\* Every step of a stop or a cleanup keeps every type.
LEMMA StopStepType ==
  ASSUME TypeOK, NEW c \in Calls, StopStep(c)
  PROVE  TypeOK'
<1>1. CASE List(c)
  <2>1. LockTyped'
    BY <1>1, GotoLockTyped DEF List
  <2>2. LaunchTyped'
    BY <1>1 DEF List, Existing, LaunchTyped, TypeOK
  <2>3. HostTyped'
    BY <1>1, StillHostTyped DEF List
  <2>4. QED
    BY <2>1, <2>2, <2>3, TypeParts
<1>2. ASSUME NEW k \in Calls, Act(c, k) PROVE TypeOK'
  <2>1. LockTyped'
    BY <1>2, StillLockTyped DEF Act
  <2>2. LaunchTyped'
    BY <1>2 DEF Act, LaunchTyped, TypeOK
  <2>3. HostTyped'
    BY <1>2 DEF Act, HostTyped, TypeOK
  <2>4. QED
    BY <2>1, <2>2, <2>3, TypeParts
<1>3. CASE FinishStop(c)
  <2>1. LockTyped'
    BY <1>3, EndLockTyped DEF FinishStop, Live
  <2>2. LaunchTyped' /\ HostTyped'
    BY <1>3, StillLaunchTyped, StillHostTyped DEF FinishStop
  <2>3. QED
    BY <2>1, <2>2, TypeParts
<1>4. CASE EraseRoot(c)
  <2>1. LockTyped'
    BY <1>4, EndLockTyped DEF EraseRoot, Live
  <2>2. LaunchTyped'
    BY <1>4, StillLaunchTyped DEF EraseRoot
  <2>3. HostTyped'
    BY <1>4 DEF EraseRoot, HostTyped, TypeOK
  <2>4. QED
    BY <2>1, <2>2, <2>3, TypeParts
<1>5. CASE FailAct(c)
  <2>1. LockTyped'
    BY <1>5, EndLockTyped DEF FailAct, Live
  <2>2. LaunchTyped'
    BY <1>5, StillLaunchTyped DEF FailAct
  <2>3. HostTyped'
    BY <1>5 DEF FailAct, HostTyped, TypeOK
  <2>4. QED
    BY <2>1, <2>2, <2>3, TypeParts
<1>6. QED
  BY <1>1, <1>2, <1>3, <1>4, <1>5 DEF StopStep

\* Every step keeps every type.
LEMMA TypeStep == TypeOK /\ [Next]_vars => TypeOK'
<1> SUFFICES ASSUME TypeOK, [Next]_vars PROVE TypeOK'
  OBVIOUS
<1>1. ASSUME NEW c \in Calls, Enter(c) PROVE TypeOK'
  <2>1. LockTyped'
    BY <1>1, GotoLockTyped DEF Enter, Bounded
  <2>2. LaunchTyped' /\ HostTyped'
    BY <1>1, StillLaunchTyped, StillHostTyped DEF Enter
  <2>3. QED
    BY <2>1, <2>2, TypeParts
<1>2. ASSUME NEW c \in Calls, DeadlinePasses(c) PROVE TypeOK'
  <2>1. LockTyped'
    BY <1>2, StillLockTyped DEF DeadlinePasses
  <2>2. LaunchTyped'
    BY <1>2 DEF DeadlinePasses, LaunchTyped, TypeOK
  <2>3. HostTyped'
    BY <1>2, StillHostTyped DEF DeadlinePasses
  <2>4. QED
    BY <2>1, <2>2, <2>3, TypeParts
<1>3. ASSUME NEW c \in Calls, LateProjection(c) PROVE TypeOK'
  <2>1. LockTyped'
    BY <1>3, StillLockTyped DEF LateProjection
  <2>2. LaunchTyped'
    BY <1>3, StillLaunchTyped DEF LateProjection
  <2>3. HostTyped'
    BY <1>3 DEF LateProjection, HostTyped, TypeOK
  <2>4. QED
    BY <2>1, <2>2, <2>3, TypeParts
<1>4. CASE UNCHANGED vars
  <2>1. LockTyped' /\ LaunchTyped' /\ HostTyped'
    BY <1>4, StillLockTyped, StillLaunchTyped, StillHostTyped DEF vars
  <2>2. QED
    BY <2>1, TypeParts
<1>5. QED
  BY <1>1, <1>2, <1>3, <1>4, ArriveType, LaunchStepType, StopStepType DEF Next

(* TypeOK holds in every reachable state. *)
THEOREM TypeCorrect == Spec => []TypeOK
<1>1. Init => TypeOK
  BY DEF Init, TypeOK
<1>2. QED
  BY <1>1, TypeStep, PTL DEF Spec

-----------------------------------------------------------------------------
(* The queue, whether launches give up waiting or not *)

\* A call that was let in waits for nobody.
InsideGranted == \A c \in Calls : Inside(c) => Granted(c)

\* A call waits for calls that came before it.
BlockersOlder == \A d \in Calls : \A c \in blockers[d] : pc[c] # "none" /\ order[c] < order[d]

Arrived == {c \in Calls : pc[c] # "none"}

OrdersCounted == \A c \in Calls : order[c] <= Cardinality(Arrived)

TailArrived == tail # NoCall => pc[tail] # "none"

QueueInv ==
    /\ TypeOK
    /\ TailArrived
    /\ InsideGranted
    /\ BlockersOlder
    /\ OrdersCounted

\* The queue is empty at the start.
LEMMA InitQueue == Init => QueueInv
<1> SUFFICES ASSUME Init PROVE QueueInv
  OBVIOUS
<1>1. TypeOK
  BY DEF Init, TypeOK
<1>2. \A c \in Calls : pc[c] = "none" /\ order[c] = 0 /\ blockers[c] = {}
  BY DEF Init
<1>3. TailArrived /\ InsideGranted /\ BlockersOlder
  BY <1>2 DEF Init, TailArrived, InsideGranted, Inside, Live, BlockersOlder
<1>4. OrdersCounted
  BY <1>2, ArrivedFinite DEF OrdersCounted, Arrived
<1>5. QED
  BY <1>1, <1>3, <1>4 DEF QueueInv

\* A call that arrives is younger than all others.
LEMMA ArrivesLast ==
  ASSUME QueueInv, NEW c \in Calls, NEW k \in {"start", "stop", "cleanup"}, Arrive(c, k)
  PROVE  \A d \in Calls \ {c} : order'[d] = order[d] /\ order'[d] < order'[c]
<1>1. order' = [order EXCEPT ![c] = Cardinality(Arrived) + 1]
  BY DEF Arrive, Arrived
<1>2. Cardinality(Arrived) \in Nat /\ order \in [Calls -> Nat]
  BY ArrivedFinite DEF Arrived, QueueInv, TypeOK
<1>3. QED
  BY <1>1, <1>2 DEF QueueInv, OrdersCounted

\* It waits for calls that arrived before it.
LEMMA ArriveQueue ==
  ASSUME QueueInv, NEW c \in Calls, NEW k \in {"start", "stop", "cleanup"}, Arrive(c, k)
  PROVE  (TailArrived /\ InsideGranted /\ BlockersOlder /\ OrdersCounted)'
<1> DEFINE ahead == IF tail = NoCall THEN {} ELSE blockers[tail] \cup {tail}
<1>1. /\ pc[c] = "none" /\ pc' = [pc EXCEPT ![c] = "waiting"]
      /\ order' = [order EXCEPT ![c] = Cardinality(Arrived) + 1]
      /\ blockers' = [blockers EXCEPT ![c] = ahead]
      /\ tail' = c
  BY DEF Arrive, Goto, Arrived
<1>2. /\ pc \in [Calls -> {"none", "acting", "done"} \cup Bounded \cup Unbounded]
      /\ order \in [Calls -> Nat] /\ blockers \in [Calls -> SUBSET Calls]
      /\ tail \in Calls \cup {NoCall}
  BY DEF QueueInv, TypeOK
<1>3. \A d \in Calls : d # c => pc'[d] = pc[d] /\ order'[d] = order[d] /\ blockers'[d] = blockers[d]
  BY <1>1, <1>2
<1>4. pc'[c] = "waiting" /\ blockers'[c] = ahead /\ order'[c] = Cardinality(Arrived) + 1
  BY <1>1, <1>2
<1>5. \A d \in ahead : d \in Calls /\ pc[d] # "none"
  BY <1>2 DEF QueueInv, TailArrived, BlockersOlder
<1>6. TailArrived'
  BY <1>1, <1>4 DEF TailArrived
<1>7. InsideGranted'
  <2>1. ASSUME NEW d \in Calls, Inside(d)' PROVE Granted(d)'
    <3>1. d # c
      BY <1>4, <2>1 DEF Inside
    <3>2. Granted(d) /\ blockers'[d] = blockers[d] /\ blockers[d] \subseteq Calls
      BY <1>2, <1>3, <2>1, <3>1 DEF Inside, Live, QueueInv, InsideGranted
    <3>3. \A b \in blockers[d] : pc'[b] = pc[b]
      BY <1>1, <1>3, <3>2 DEF Granted
    <3>4. QED
      BY <3>2, <3>3 DEF Granted
  <2>2. QED
    BY <2>1 DEF InsideGranted
<1>8. /\ Cardinality(Arrived) \in Nat
      /\ Arrived' = Arrived \cup {c}
      /\ Cardinality(Arrived') = Cardinality(Arrived) + 1
  <2>1. IsFiniteSet(Arrived) /\ Cardinality(Arrived) \in Nat
    BY ArrivedFinite DEF Arrived
  <2>2. Arrived' = Arrived \cup {c} /\ c \notin Arrived
    BY <1>1, <1>3, <1>4 DEF Arrived
  <2>3. QED
    BY <2>1, <2>2, FS_AddElement
<1>9. OrdersCounted'
  BY <1>2, <1>3, <1>4, <1>8 DEF OrdersCounted, QueueInv
<1>10. BlockersOlder'
  <2>1. ASSUME NEW d \in Calls, NEW b \in blockers'[d] PROVE pc'[b] # "none" /\ order'[b] < order'[d]
    <3>1. CASE d = c
      <4>1. b \in Calls /\ pc[b] # "none" /\ b # c
        BY <1>1, <1>4, <1>5, <2>1, <3>1
      <4>2. QED
        BY <1>3, <3>1, <4>1, ArrivesLast
    <3>2. CASE d # c
      <4>1. b \in blockers[d] /\ b \in Calls
        BY <1>2, <1>3, <2>1, <3>2
      <4>2. pc[b] # "none" /\ order[b] < order[d] /\ b # c
        BY <1>1, <4>1 DEF QueueInv, BlockersOlder
      <4>3. QED
        BY <1>3, <3>2, <4>1, <4>2
    <3>3. QED
      BY <3>1, <3>2
  <2>2. QED
    BY <2>1 DEF BlockersOlder
<1>11. QED
  BY <1>6, <1>7, <1>9, <1>10

\* A call that moves on, or ends, keeps the queue; to be let in it was granted.
LEMMA MoveQueue ==
  ASSUME QueueInv, NEW c \in Calls, Live(c), UNCHANGED <<blockers, order>>,
         tail' \in {tail, NoCall},
         NEW label, label \notin {"none", "waiting"}, Goto(c, label), label = "done" \/ Granted(c)
  PROVE  (TailArrived /\ InsideGranted /\ BlockersOlder /\ OrdersCounted)'
<1>1. /\ pc' = [pc EXCEPT ![c] = label] /\ blockers' = blockers /\ order' = order
  BY DEF Goto
<1>2. /\ pc \in [Calls -> {"none", "acting", "done"} \cup Bounded \cup Unbounded]
      /\ blockers \in [Calls -> SUBSET Calls] /\ tail \in Calls \cup {NoCall}
  BY DEF QueueInv, TypeOK
<1>3. /\ \A d \in Calls : d # c => pc'[d] = pc[d]
      /\ pc'[c] = label
  BY <1>1, <1>2
<1>4. \A d \in Calls : pc[d] = "done" => pc'[d] = "done"
  BY <1>3 DEF Live
<1>5. InsideGranted'
  <2>1. ASSUME NEW d \in Calls, Inside(d)' PROVE Granted(d)'
    <3>1. Granted(d)
      BY <1>3, <2>1 DEF QueueInv, InsideGranted, Inside, Live
    <3>2. QED
      BY <1>1, <1>2, <1>4, <3>1 DEF Granted
  <2>2. QED
    BY <2>1 DEF InsideGranted
<1>6. Arrived' = Arrived
  BY <1>3 DEF Arrived, Live
<1>7. BlockersOlder' /\ OrdersCounted' /\ TailArrived'
  BY <1>1, <1>2, <1>3, <1>6 DEF QueueInv, BlockersOlder, OrdersCounted, TailArrived
<1>8. QED
  BY <1>5, <1>7

\* A call that works holds the lock, so it was granted.
LEMMA WorksMoves ==
  ASSUME QueueInv, Works
  PROVE  \E c \in Calls, label \in {"listing", "removing", "running", "inspecting",
                                    "discarding", "cleaning", "acting"} :
            Live(c) /\ Granted(c) /\ UNCHANGED lock /\ Goto(c, label)
<1>1. PICK c \in Calls :
        /\ Inside(c)
        /\ \E label \in {"listing", "removing", "running", "inspecting", "discarding",
                         "cleaning", "acting"} : Goto(c, label)
  BY DEF Works
<1>2. Live(c) /\ Granted(c) /\ UNCHANGED lock
  BY <1>1 DEF Works, Inside, QueueInv, InsideGranted
<1>3. QED
  BY <1>1, <1>2

\* Every step keeps the queue.
LEMMA QueueInvStep == QueueInv /\ [Next]_vars => QueueInv'
<1> SUFFICES ASSUME QueueInv, [Next]_vars PROVE QueueInv'
  OBVIOUS
<1> DEFINE Q == TailArrived /\ InsideGranted /\ BlockersOlder /\ OrdersCounted
<1>1. TypeOK /\ TypeOK'
  BY TypeStep DEF QueueInv
<1>2. ASSUME NEW c \in Calls, Enter(c) PROVE Q'
  <2>1. Live(c) /\ Granted(c) /\ UNCHANGED <<tail, blockers, order>>
        /\ \E label \in {"projecting", "listing"} : Goto(c, label)
    BY <1>2 DEF Enter, Live, lock
  <2>2. QED
    BY <2>1, MoveQueue
<1>3. ASSUME Works PROVE Q'
  BY <1>3, WorksMoves, MoveQueue DEF lock
<1>4. ASSUME NEW c \in Calls, Ends(c) PROVE Q'
  <2>1. /\ Live(c) /\ Goto(c, "done") /\ UNCHANGED <<blockers, order>>
        /\ tail' \in {tail, NoCall}
    BY <1>4 DEF Ends, End, ReleasedTail
  <2>2. QED
    BY <2>1, MoveQueue
<1>5. ASSUME Still PROVE Q'
  BY <1>5 DEF Still, lock, QueueInv, TailArrived, InsideGranted, Inside, Live, Granted,
     BlockersOlder, OrdersCounted, Arrived
<1>6. ASSUME NEW c \in Calls, NEW k \in {"start", "stop", "cleanup"}, Arrive(c, k) PROVE Q'
  BY <1>6, ArriveQueue
<1>7. Q'
  BY <1>1, <1>2, <1>3, <1>4, <1>5, <1>6, LockSteps
<1>8. QED
  BY <1>1, <1>7 DEF QueueInv

\* The queue is in order in every reachable state.
LEMMA QueueInvHolds == Spec => []QueueInv
  BY InitQueue, QueueInvStep, PTL DEF Spec

-----------------------------------------------------------------------------
(* The lock, while no launch gives up waiting *)

\* With no entry nobody is served or waits; an entry is the last live call's.
TailCovers ==
    IF tail = NoCall
      THEN \A c \in Calls : ~Live(c)
      ELSE Live(tail) /\ \A c \in Calls : Live(c) => c = tail \/ c \in blockers[tail]

\* Of two live calls one waits for the other.
Chained == \A c, d \in Calls : Live(c) /\ Live(d) => c = d \/ c \in blockers[d] \/ d \in blockers[c]

\* A launch does not expire while it waits: what Prompt means.
WaitersUnexpired == \A c \in Calls : pc[c] \in {"none", "waiting"} => ~expired[c]

LockInv ==
    /\ QueueInv
    /\ TailCovers
    /\ Chained
    /\ WaitersUnexpired

\* The lock invariant holds at the start.
LEMMA InitLock == Init => LockInv
<1> SUFFICES ASSUME Init PROVE LockInv
  OBVIOUS
<1>1. \A c \in Calls : pc[c] = "none" /\ expired[c] = FALSE
  BY DEF Init
<1>2. TailCovers /\ Chained /\ WaitersUnexpired
  BY <1>1 DEF Init, TailCovers, Chained, Live, WaitersUnexpired
<1>3. QED
  BY <1>2, InitQueue DEF LockInv

\* A deadline is the only step that expires a launch.
LEMMA ExpiredSteps ==
  ASSUME [Next]_vars
  PROVE  UNCHANGED expired \/ \E c \in Calls : DeadlinePasses(c)
<1>1. ASSUME NEW c \in Calls, LaunchStep(c) PROVE UNCHANGED expired
  BY <1>1 DEF LaunchStep, Project, ListForLaunch, RemoveSurplus, AcceptWinner, Run, Created,
     AcceptCreated, GiveUpWaiting, BreakProjection, BreakRemoval, BreakRun, BreakInspection,
     Discard, launch
<1>2. ASSUME NEW c \in Calls, StopStep(c) PROVE UNCHANGED expired
  BY <1>2 DEF StopStep, List, Act, FinishStop, EraseRoot, FailAct, launch
<1>3. ASSUME NEW c \in Calls, \/ \E k \in {"start", "stop", "cleanup"} : Arrive(c, k)
                               \/ Enter(c) \/ LateProjection(c)
      PROVE  UNCHANGED expired
  BY <1>3 DEF Arrive, Enter, LateProjection, launch
<1>4. CASE UNCHANGED vars
  BY <1>4 DEF vars, launch
<1>5. QED
  BY <1>1, <1>2, <1>3, <1>4 DEF Next

\* Calls that have not been let in yet: no step but Arrive and Enter changes who they are.
LEMMA WaitersStep ==
  ASSUME Prompt, TypeOK, WaitersUnexpired, [Next]_vars
  PROVE  WaitersUnexpired'
<1>1. \A c \in Calls : pc'[c] \in {"none", "waiting"} => pc[c] \in {"none", "waiting"}
  <2>1. ASSUME NEW c \in Calls, NEW k \in {"start", "stop", "cleanup"}, Arrive(c, k)
        PROVE  \A d \in Calls : pc'[d] \in {"none", "waiting"} => pc[d] \in {"none", "waiting"}
    BY <2>1 DEF Arrive, Goto, TypeOK
  <2>2. ASSUME NEW c \in Calls, NEW label, label \notin {"none", "waiting"}, Goto(c, label)
        PROVE  \A d \in Calls : pc'[d] \in {"none", "waiting"} => pc[d] \in {"none", "waiting"}
    BY <2>2 DEF Goto, TypeOK
  <2>3. ASSUME NEW c \in Calls, Enter(c)
        PROVE  \E label \in {"projecting", "listing"} : Goto(c, label)
    BY <2>3 DEF Enter
  <2>4. ASSUME NEW c \in Calls, Ends(c) PROVE Goto(c, "done")
    BY <2>4 DEF Ends, End
  <2>5. CASE Works
    BY <2>5, <2>2 DEF Works
  <2>6. CASE Still
    BY <2>6 DEF Still
  <2>7. QED
    BY <2>1, <2>2, <2>3, <2>4, <2>5, <2>6, LockSteps
<1>2. CASE UNCHANGED expired
  BY <1>1, <1>2 DEF WaitersUnexpired
<1>3. ASSUME NEW c \in Calls, DeadlinePasses(c) PROVE WaitersUnexpired'
  <2>1. pc[c] # "waiting" /\ pc[c] # "none" /\ pc' = pc
        /\ expired' = [expired EXCEPT ![c] = TRUE]
    BY <1>3 DEF DeadlinePasses, LiveLaunch, Live
  <2>2. QED
    BY <2>1 DEF WaitersUnexpired, TypeOK
<1>4. QED
  BY <1>2, <1>3, ExpiredSteps

\* The parts of LockInv about who waits for whom.
ChainInv == TailCovers /\ Chained

\* A call arrives at the end of the chain, after every live one.
LEMMA ArriveChain ==
  ASSUME LockInv, NEW c \in Calls, NEW k \in {"start", "stop", "cleanup"}, Arrive(c, k)
  PROVE  ChainInv'
<1> DEFINE ahead == IF tail = NoCall THEN {} ELSE blockers[tail] \cup {tail}
<1>1. /\ pc[c] = "none" /\ pc' = [pc EXCEPT ![c] = "waiting"]
      /\ blockers' = [blockers EXCEPT ![c] = ahead]
      /\ tail' = c
  BY DEF Arrive, Goto
<1>2. /\ pc \in [Calls -> {"none", "acting", "done"} \cup Bounded \cup Unbounded]
      /\ blockers \in [Calls -> SUBSET Calls]
  BY DEF LockInv, QueueInv, TypeOK
<1>3. c \in Calls /\ c # NoCall
  BY CallsAssumption
<1>4. \A d \in Calls : d # c => pc'[d] = pc[d] /\ blockers'[d] = blockers[d]
  BY <1>1, <1>2
<1>5. pc'[c] = "waiting" /\ blockers'[c] = ahead
  BY <1>1, <1>2
<1>6. \A d \in Calls : Live(d) => d \in ahead
  BY DEF LockInv, TailCovers
<1>7. TailCovers'
  BY <1>1, <1>3, <1>4, <1>5, <1>6 DEF TailCovers, Live
<1>8. Chained'
  BY <1>3, <1>4, <1>5, <1>6 DEF Chained, LockInv, Live
<1>9. QED
  BY <1>7, <1>8 DEF ChainInv

\* A call moves on without leaving.
LEMMA MoveChain ==
  ASSUME LockInv, NEW c \in Calls, Live(c), UNCHANGED lock,
         NEW label, label \notin {"none", "waiting", "done"}, Goto(c, label)
  PROVE  ChainInv'
<1>1. /\ pc' = [pc EXCEPT ![c] = label] /\ tail' = tail /\ blockers' = blockers
  BY DEF Goto, lock
<1>2. /\ pc \in [Calls -> {"none", "acting", "done"} \cup Bounded \cup Unbounded]
      /\ tail \in Calls \cup {NoCall}
  BY DEF LockInv, QueueInv, TypeOK
<1>3. \A d \in Calls : Live(d)' <=> Live(d)
  BY <1>1, <1>2 DEF Live
<1>4. TailCovers'
  BY <1>1, <1>2, <1>3 DEF LockInv, TailCovers
<1>5. Chained'
  BY <1>1, <1>3 DEF LockInv, Chained
<1>6. QED
  BY <1>4, <1>5 DEF ChainInv

\* Under Prompt a call that ends was granted: it never leaves a live one behind its back.
LEMMA EndsGranted ==
  ASSUME LockInv, NEW c \in Calls, Ends(c)
  PROVE  Granted(c)
  BY DEF LockInv, QueueInv, InsideGranted, WaitersUnexpired, Ends, Inside

\* The end of a call passes the lock on without breaking the chain.
LEMMA EndChain ==
  ASSUME LockInv, NEW c \in Calls, Ends(c)
  PROVE  ChainInv'
<1>1. /\ pc' = [pc EXCEPT ![c] = "done"] /\ tail' = (IF tail = c THEN NoCall ELSE tail)
      /\ blockers' = blockers /\ Live(c)
  BY DEF Ends, End, Goto, ReleasedTail
<1>2. /\ pc \in [Calls -> {"none", "acting", "done"} \cup Bounded \cup Unbounded]
      /\ tail \in Calls \cup {NoCall}
  BY DEF LockInv, QueueInv, TypeOK
<1>3. Granted(c)
  BY EndsGranted
<1>4. \A d \in Calls : Live(d)' <=> Live(d) /\ d # c
  BY <1>1, <1>2 DEF Live
<1>5. TailCovers'
  <2>1. CASE tail = c
    <3>1. \A d \in Calls : Live(d) => d = c
      BY <1>3, <2>1, CallsAssumption DEF LockInv, TailCovers, Granted, Live
    <3>2. QED
      BY <1>1, <1>4, <2>1, <3>1 DEF TailCovers
  <2>2. CASE tail # c
    BY <1>1, <1>2, <1>4, <2>2 DEF LockInv, TailCovers
  <2>3. QED
    BY <2>1, <2>2
<1>6. Chained'
  BY <1>1, <1>4 DEF LockInv, Chained
<1>7. QED
  BY <1>5, <1>6 DEF ChainInv

\* A step that leaves the lock alone keeps the chain.
LEMMA StillChain ==
  ASSUME LockInv, Still
  PROVE  ChainInv'
  BY DEF LockInv, Still, lock, ChainInv, TailCovers, Chained, Live

\* Every step keeps the lock invariant while no launch gives up waiting.
LEMMA LockInvStep == Prompt /\ LockInv /\ [Next]_vars => LockInv'
<1> SUFFICES ASSUME Prompt, LockInv, [Next]_vars PROVE LockInv'
  OBVIOUS
<1>1. QueueInv /\ TypeOK /\ WaitersUnexpired
  BY DEF LockInv, QueueInv
<1>2. QueueInv' /\ WaitersUnexpired'
  BY <1>1, QueueInvStep, WaitersStep
<1>3. ASSUME NEW c \in Calls, Enter(c) PROVE ChainInv'
  <2>1. Live(c) /\ UNCHANGED lock /\ \E label \in {"projecting", "listing"} : Goto(c, label)
    BY <1>3 DEF Enter, Live
  <2>2. QED
    BY <2>1, MoveChain
<1>4. ASSUME Works PROVE ChainInv'
  BY <1>1, <1>4, WorksMoves, MoveChain
<1>5. ChainInv'
  BY <1>1, <1>3, <1>4, ArriveChain, EndChain, StillChain, LockSteps
<1>6. QED
  BY <1>2, <1>5 DEF LockInv, ChainInv

\* The promise chain is a chain in every reachable state.
LEMMA LockInvHolds == Prompt => (Spec => []LockInv)
<1>1. CASE Prompt
  <2>1. LockInv /\ [Next]_vars => LockInv'
    BY <1>1, LockInvStep
  <2>2. QED
    BY <2>1, InitLock, PTL DEF Spec
<1>2. QED
  BY <1>1

\* A chain lets one call through: whoever is granted is the one inside.
LEMMA ChainExcludes ==
  ASSUME LockInv, NEW c \in Calls, NEW d \in Calls, Live(c), Live(d), Granted(c), Inside(d)
  PROVE  c = d
  BY DEF LockInv, QueueInv, Chained, InsideGranted, Granted, Inside, Live

(* While no launch gives up waiting, two calls are never past withAgentLock together. *)
THEOREM LockExcludes == Prompt => (Spec => []LockExclusive)
<1>1. LockInv => LockExclusive
  BY ChainExcludes DEF LockExclusive, LockInv, QueueInv, InsideGranted, Inside
<1>2. QED
  BY <1>1, LockInvHolds, PTL

-----------------------------------------------------------------------------
(* The promise chain implements the abstract lock *)

\* How the place of a call in the abstract lock reads off its await.
LEMMA PlaceOf ==
  ASSUME NEW c \in Calls
  PROVE  /\ Place[c] = "out" <=> pc[c] = "none"
         /\ Place[c] = "waiting" <=> pc[c] = "waiting"
         /\ Place[c] = "left" <=> pc[c] = "done"
         /\ Place[c] = "in" <=> Inside(c)
  BY DEF Place, Inside, Live

\* One call moves in pc, so it moves in Place, and no other does.
LEMMA PlaceMoves ==
  ASSUME TypeOK, NEW c \in Calls, NEW label, Goto(c, label)
  PROVE  /\ label = "waiting" => Place' = [Place EXCEPT ![c] = "waiting"]
         /\ label = "done" => Place' = [Place EXCEPT ![c] = "left"]
         /\ label \notin {"none", "waiting", "done"} => Place' = [Place EXCEPT ![c] = "in"]
<1>1. /\ \A d \in Calls : d # c => pc'[d] = pc[d]
      /\ pc'[c] = label
  BY DEF Goto, TypeOK
<1>2. QED
  BY <1>1 DEF Place

\* An arrival joins the queue of the abstract lock.
LEMMA ArriveJoins ==
  ASSUME LockInv, NEW c \in Calls, NEW k \in {"start", "stop", "cleanup"}, Arrive(c, k)
  PROVE  Lock!Join(c)
<1>1. pc[c] = "none" /\ Goto(c, "waiting")
      /\ order' = [order EXCEPT ![c] = Cardinality(Arrived) + 1]
  BY DEF Arrive, Arrived
<1>2. Place[c] = "out" /\ Place' = [Place EXCEPT ![c] = "waiting"]
  BY <1>1, PlaceOf, PlaceMoves DEF LockInv, QueueInv
<1>3. order'[c] = Cardinality(Arrived) + 1 /\ order' = [order EXCEPT ![c] = order'[c]]
  BY <1>1 DEF LockInv, QueueInv, TypeOK
<1>4. ASSUME NEW d \in Calls PROVE order[d] < order'[c]
  <2>1. order[d] \in Nat /\ Cardinality(Arrived) \in Nat /\ order[d] <= Cardinality(Arrived)
    BY ArrivedFinite DEF LockInv, QueueInv, TypeOK, OrdersCounted, Arrived
  <2>2. QED
    BY <1>3, <2>1
<1>5. QED
  BY <1>2, <1>3, <1>4 DEF Lock!Join

\* A call that passes withAgentLock enters the abstract lock, the oldest first.
LEMMA EnterEnters ==
  ASSUME LockInv, NEW c \in Calls, Enter(c)
  PROVE  Lock!Enter(c)
<1>1. /\ pc[c] = "waiting" /\ Granted(c) /\ order' = order
      /\ \E label \in {"projecting", "listing"} : Goto(c, label)
  BY DEF Enter, lock
<1>2. Place[c] = "waiting" /\ Place' = [Place EXCEPT ![c] = "in"]
  BY <1>1, PlaceOf, PlaceMoves DEF LockInv, QueueInv
<1>3. ASSUME NEW d \in Calls PROVE Place[d] # "in"
  BY <1>1, ChainExcludes, PlaceOf DEF Inside, Live
<1>4. ASSUME NEW d \in Calls, Place[d] = "waiting" PROVE order[c] <= order[d]
  <2>1. pc[d] = "waiting"
    BY <1>4, PlaceOf
  <2>2. c = d \/ c \in blockers[d]
    BY <1>1, <2>1 DEF LockInv, QueueInv, Chained, Granted, Live
  <2>3. order[c] \in Nat /\ order[d] \in Nat
    BY DEF LockInv, QueueInv, TypeOK
  <2>4. QED
    BY <2>2, <2>3 DEF LockInv, QueueInv, BlockersOlder
<1>5. QED
  BY <1>1, <1>2, <1>3, <1>4 DEF Lock!Enter

\* A call that ends leaves the abstract lock.
LEMMA EndsLeaves ==
  ASSUME LockInv, NEW c \in Calls, Ends(c)
  PROVE  Lock!Leave(c)
<1>1. Live(c) /\ Goto(c, "done") /\ order' = order
  BY DEF Ends, End
<1>2. Place[c] \in {"waiting", "in"}
  BY <1>1, PlaceOf DEF Inside
<1>3. Place' = [Place EXCEPT ![c] = "left"]
  BY <1>1, PlaceMoves DEF LockInv, QueueInv
<1>4. QED
  BY <1>1, <1>2, <1>3 DEF Lock!Leave

\* What a call does while it holds the lock is a stutter of the abstract lock.
LEMMA WorkStutters ==
  ASSUME LockInv, Works \/ Still
  PROVE  UNCHANGED Lock!vars
<1>1. ASSUME Works PROVE UNCHANGED Lock!vars
  <2>1. order' = order
    BY <1>1 DEF Works, lock
  <2>2. PICK c \in Calls :
          /\ Inside(c)
          /\ \E label \in {"listing", "removing", "running", "inspecting", "discarding",
                           "cleaning", "acting"} : Goto(c, label)
    BY <1>1 DEF Works
  <2>3. Place' = [Place EXCEPT ![c] = "in"] /\ Place[c] = "in"
    BY <2>2, PlaceMoves, PlaceOf DEF LockInv, QueueInv
  <2>4. Place' = Place
    BY <2>3 DEF Place
  <2>5. QED
    BY <2>1, <2>4 DEF Lock!vars
<1>2. ASSUME Still PROVE UNCHANGED Lock!vars
  BY <1>2 DEF Still, lock, Lock!vars, Place
<1>3. QED
  BY <1>1, <1>2

\* The runner starts with the abstract lock free.
LEMMA LockInit == Init => Lock!Init
  BY DEF Init, Lock!Init, Place

\* Every step of the runner is a step of the abstract lock, or none of it.
LEMMA LockNext == LockInv /\ [Next]_vars => [Lock!Next]_Lock!vars
<1> SUFFICES ASSUME LockInv, [Next]_vars PROVE [Lock!Next]_Lock!vars
  OBVIOUS
<1>1. TypeOK
  BY DEF LockInv, QueueInv
<1>2. QED
  BY <1>1, LockSteps, ArriveJoins, EnterEnters, EndsLeaves, WorkStutters DEF Lock!Next

(* While no launch gives up waiting, calls are served one at a time and in the order they *)
(* came, whatever they do and however they end: withAgentLock implements AgentLock.       *)
THEOREM LockImplemented == Prompt => (Spec => ServedInOrder)
<1>1. CASE Prompt
  <2>1. Spec => []LockInv
    BY <1>1, LockInvHolds
  <2>2. QED
    BY <2>1, LockInit, LockNext, PTL DEF Spec, ServedInOrder, Lock!Spec
<1>2. QED
  BY <1>1

=============================================================================
