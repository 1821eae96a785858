------------------------ MODULE AgentDeployment_proofs ------------------------
(***************************************************************************)
(* Type correctness of AgentDeployment, that one deployment is under way   *)
(* at a time, that the agent row agrees with the rows of its deployments,  *)
(* that a ready deployment has passed every stage and one canary, and that *)
(* the detailed steps of workers, owner and replacement implement the      *)
(* pipeline of DeploymentStages.                                           *)
(***************************************************************************)
EXTENDS AgentDeployment, TLAPS

-----------------------------------------------------------------------------
(* Type correctness *)

\* A group of variables a step leaves alone keeps its types.
LEMMA QuietTypes ==
    /\ RowType /\ UNCHANGED row => RowType'
    /\ AgentType /\ UNCHANGED agent => AgentType'
    /\ WorkerType /\ UNCHANGED worker => WorkerType'
    /\ HostType /\ UNCHANGED host => HostType'
  BY DEF RowType, AgentType, WorkerType, HostType, row, agent, worker, host

\* A worker that goes on to another label keeps its types.
LEMMA GotoType ==
    ASSUME WorkerType, NEW w \in Workers, NEW label \in Labels, Goto(w, label),
           UNCHANGED <<claim, target, got>>
    PROVE  WorkerType'
  BY DEF WorkerType, Goto

\* So does one that finishes.
LEMMA FinishType ==
    ASSUME WorkerType, NEW w \in Workers, Finish(w)
    PROVE  WorkerType'
<1>1. NoClaim \in Claims
  BY BoundsAssumption DEF NoClaim, Claims, Stages, Canaries, Deployments
<1>2. 0 \in 0..MaxOps
  BY BoundsAssumption
<1>. QED  BY <1>1, <1>2 DEF WorkerType, Labels, Finish, Goto

\* And so does one that sends a request to the runner the agent is assigned to.
LEMMA SendType ==
    ASSUME WorkerType, AgentType, NEW w \in Workers, NEW label \in Labels, Goto(w, label),
           target' = [target EXCEPT ![w] = home], UNCHANGED <<claim, got>>
    PROVE  WorkerType'
  BY DEF WorkerType, AgentType, Goto

\* A lease that is given back.
LEMMA FreeLeaseType ==
    ASSUME RowType, NEW d, FreeLease(d)
    PROVE  /\ lease' \in [Deployments -> Workers \cup {NoWorker}]
           /\ expired' \in [Deployments -> BOOLEAN]
  BY DEF RowType, FreeLease

\* The columns every stage change writes.
LEMMA AdvanceType ==
    ASSUME RowType, WorkerType, NEW w \in Workers, NEW next \in Stages, Advance(w, next)
    PROVE  /\ stage' \in [Deployments -> Stages \cup {"none"}]
           /\ attempts' \in [Deployments -> 0..RetryLimit]
           /\ lease' \in [Deployments -> Workers \cup {NoWorker}]
           /\ expired' \in [Deployments -> BOOLEAN]
           /\ recovering' \in [Deployments -> BOOLEAN]
           /\ recoveries' \in [Deployments -> 0..MaxRecoveries]
           /\ WorkerType'
           /\ owner' = owner /\ UNCHANGED host /\ faults' = faults
<1>1. 0 \in 0..RetryLimit
  BY BoundsAssumption
<1>2. FreeLease(Job(w)) /\ Finish(w)
  BY DEF Advance
<1>3. stage' = [stage EXCEPT ![Job(w)] = next] /\ attempts' = [attempts EXCEPT ![Job(w)] = 0]
  BY DEF Advance
<1>4. UNCHANGED <<recovering, recoveries, owner, host, faults>>
  BY DEF Advance
<1>5. stage' \in [Deployments -> Stages \cup {"none"}] /\ attempts' \in [Deployments -> 0..RetryLimit]
  BY <1>1, <1>3 DEF RowType
<1>6. WorkerType'
  BY <1>2, FinishType
<1>. QED  BY <1>2, <1>4, <1>5, <1>6, FreeLeaseType DEF RowType

\* A deployment that fails, and the agent it leaves in error.
LEMMA FailRowType ==
    ASSUME RowType, AgentType, NEW w \in Workers, FailRow(w)
    PROVE  RowType' /\ AgentType'
<1>1. FreeLease(Job(w))
  BY DEF FailRow
<1>2. stage' \in [Deployments -> Stages \cup {"none"}]
  BY DEF FailRow, RowType, Stages
<1>3. RowType'
  BY <1>1, <1>2, FreeLeaseType DEF FailRow, RowType
<1>4. AgentType'
  BY DEF FailRow, AgentType, Stoppable
<1>. QED  BY <1>3, <1>4

\* An owner's request that cancels what is under way.
LEMMA CancelType ==
    ASSUME RowType, AgentType, CancelActive,
           UNCHANGED <<attempts, op, canary, overdue, recovering, recoveries, status, home, deleted>>
    PROVE  RowType' /\ AgentType'
<1>1. \A d \in Deployments : Superseded(d) \in Stages \cup {"none"}
  BY DEF RowType, Superseded, Stages
<1>2. /\ stage' \in [Deployments -> Stages \cup {"none"}]
      /\ lease' \in [Deployments -> Workers \cup {NoWorker}]
      /\ expired' \in [Deployments -> BOOLEAN]
      /\ wanted' \in BOOLEAN /\ billed' \in BOOLEAN
  BY <1>1 DEF CancelActive, RowType, AgentType
<1>. QED  BY <1>2 DEF RowType, AgentType

\* An operation a runner accepts.
LEMMA LaunchType ==
    ASSUME HostType, NEW r, NEW o \in 1..MaxOps, Launch(r, o), UNCHANGED dispatched
    PROVE  HostType'
<1>1. CASE runs[r] # 0
  BY <1>1, QuietTypes DEF Launch, host
<1>2. CASE runs[r] = 0
  <2>1. ops' = o /\ runs' = [runs EXCEPT ![r] = o] /\ ready' = [ready EXCEPT ![r] = FALSE]
    BY <1>2 DEF Launch
  <2>2. o \in 0..MaxOps
    OBVIOUS
  <2>3. runs' \in [Runners -> 0..MaxOps] /\ ready' \in [Runners -> BOOLEAN]
    BY <2>1, <2>2 DEF HostType
  <2>. QED  BY <2>1, <2>2, <2>3 DEF HostType
<1>. QED  BY <1>1, <1>2

\* A workload that is stopped, or not.
LEMMA HaltType ==
    ASSUME HostType, NEW r, Halt(r), UNCHANGED <<ops, dispatched>>
    PROVE  HostType'
<1>1. CASE UNCHANGED <<runs, ready>>
  BY <1>1, QuietTypes DEF host
<1>2. CASE Stopped(r)
  <2>1. 0 \in 0..MaxOps
    BY BoundsAssumption
  <2>2. runs' \in [Runners -> 0..MaxOps] /\ ready' \in [Runners -> BOOLEAN]
    BY <1>2, <2>1 DEF HostType, Stopped
  <2>. QED  BY <2>2 DEF HostType
<1>. QED  BY <1>1, <1>2 DEF Halt

\* Every step of a worker keeps every type.
LEMMA WorkerStepType ==
    ASSUME TypeOK, NEW w \in Workers, WorkerStep(w)
    PROVE  TypeOK'
<1>1. CASE Lost(w)
  BY <1>1, QuietTypes, FinishType DEF Lost, TypeOK
<1>2. CASE Provisioned(w)
  <2>1. RowType'
    BY <1>2, AdvanceType DEF Provisioned, TypeOK, RowType, Stages
  <2>. QED  BY <1>2, <2>1, AdvanceType, QuietTypes DEF Provisioned, TypeOK, Stages
<1>3. CASE NoCapacity(w)
  BY <1>3, QuietTypes, GotoType DEF NoCapacity, TypeOK, Labels
<1>4. CASE CallRunner(w)
  BY <1>4, QuietTypes, SendType DEF CallRunner, TypeOK, Labels
<1>5. CASE BadLaunchSpec(w)
  BY <1>5, QuietTypes, GotoType DEF BadLaunchSpec, TypeOK, Labels
<1>6. CASE StartAccepted(w)
  <2>1. HostType'
    BY <1>6, LaunchType DEF StartAccepted, TypeOK
  <2>2. WorkerType'
    BY <1>6, BoundsAssumption DEF StartAccepted, TypeOK, WorkerType, Goto, Labels
  <2>. QED  BY <1>6, <2>1, <2>2, QuietTypes DEF StartAccepted, TypeOK
<1>7. CASE StartReady(w)
  <2>1. HostType'
    BY <1>7, BoundsAssumption DEF StartReady, TypeOK, HostType
  <2>2. WorkerType'
    BY <1>7, BoundsAssumption DEF StartReady, TypeOK, HostType, WorkerType, Goto, Labels
  <2>. QED  BY <1>7, <2>1, <2>2, QuietTypes DEF StartReady, TypeOK
<1>8. CASE StartUnusable(w)
  BY <1>8, LaunchType, QuietTypes, GotoType DEF StartUnusable, TypeOK, Labels
<1>9. CASE NoTransport(w)
  <2>1. HostType'
    BY <1>9, LaunchType, QuietTypes DEF NoTransport, TypeOK
  <2>. QED  BY <1>9, <2>1, QuietTypes, GotoType DEF NoTransport, TypeOK, Labels
<1>10. CASE Persist(w)
  <2>1. RowType'
    BY <1>10, AdvanceType DEF Persist, TypeOK, RowType, WorkerType, Stages
  <2>. QED  BY <1>10, <2>1, AdvanceType, QuietTypes DEF Persist, TypeOK, Stages, agent
<1>11. CASE GatewayTimesOut(w)
  BY <1>11, QuietTypes, GotoType DEF GatewayTimesOut, TypeOK, Labels
<1>12. CASE StatusReady(w)
  BY <1>12, QuietTypes, GotoType DEF StatusReady, TypeOK, Labels
<1>13. CASE StatusWaiting(w)
  BY <1>13, QuietTypes, GotoType DEF StatusWaiting, TypeOK, Labels
<1>14. CASE GatewayConfirmed(w)
  <2>1. RowType'
    BY <1>14, AdvanceType DEF GatewayConfirmed, TypeOK, RowType, Stages
  <2>. QED  BY <1>14, <2>1, AdvanceType, QuietTypes DEF GatewayConfirmed, TypeOK, Stages
<1>15. CASE SkipCanary(w)
  <2>1. RowType'
    BY <1>15, AdvanceType DEF SkipCanary, TypeOK, RowType, Stages, Canaries
  <2>. QED  BY <1>15, <2>1, AdvanceType, QuietTypes DEF SkipCanary, TypeOK, Stages
<1>16. CASE CanaryLeftOver(w)
  BY <1>16, QuietTypes, GotoType DEF CanaryLeftOver, TypeOK, Labels, LeftOver
<1>17. CASE CanaryUnfit(w)
  BY <1>17, QuietTypes, GotoType DEF CanaryUnfit, TypeOK, Labels
<1>18. CASE MarkCanaryStarted(w)
  <2>1. RowType'
    BY <1>18 DEF MarkCanaryStarted, TypeOK, RowType, Canaries
  <2>. QED  BY <1>18, <2>1, SendType, QuietTypes DEF MarkCanaryStarted, TypeOK, Labels
<1>19. CASE Dispatch(w)
  <2>1. \A d \in Deployments : dispatched[d] + 1 \in Nat
    BY DEF TypeOK, HostType
  <2>2. dispatched' \in [Deployments -> Nat]
    BY <1>19, <2>1 DEF Dispatch, TypeOK, HostType
  <2>3. HostType'
    BY <1>19, <2>1, <2>2 DEF Dispatch, TypeOK, HostType
  <2>. QED  BY <1>19, <2>1, <2>2, <2>3, GotoType, QuietTypes DEF Dispatch, TypeOK, Labels
<1>20. CASE NotDispatched(w)
  BY <1>20, QuietTypes, GotoType DEF NotDispatched, TypeOK, Labels
<1>21. CASE PassCanary(w)
  <2>1. RowType'
    BY <1>21, AdvanceType DEF PassCanary, TypeOK, RowType, Stages, Canaries
  <2>. QED  BY <1>21, <2>1, AdvanceType, QuietTypes DEF PassCanary, TypeOK, Stages
<1>22. CASE MarkCanary(w)
  <2>1. RowType'
    BY <1>22 DEF MarkCanary, TypeOK, RowType, Canaries
  <2>. QED  BY <1>22, <2>1, GotoType, QuietTypes DEF MarkCanary, TypeOK, Labels
<1>23. CASE ResetCanary(w)
  <2>1. RowType'
    BY <1>23 DEF ResetCanary, TypeOK, RowType, Canaries
  <2>. QED  BY <1>23, <2>1, GotoType, QuietTypes DEF ResetCanary, TypeOK, Labels
<1>24. CASE Retry(w)
  <2>1. RowType'
    BY <1>24, FreeLeaseType DEF Retry, TypeOK, RowType
  <2>. QED  BY <1>24, <2>1, FinishType, QuietTypes DEF Retry, TypeOK
<1>25. CASE Exhausted(w)
  BY <1>25, QuietTypes, GotoType DEF Exhausted, TypeOK, Labels
<1>26. CASE BeginCleanup(w)
  BY <1>26, QuietTypes, SendType, GotoType DEF BeginCleanup, TypeOK, Labels
<1>27. CASE CleanUp(w)
  BY <1>27, QuietTypes, FinishType, GotoType, HaltType DEF CleanUp, TypeOK, Labels
<1>28. CASE Fail(w)
  BY <1>28, QuietTypes, FailRowType, FinishType DEF Fail, TypeOK
<1>29. CASE Recover(w)
  <2>1. \A d \in Deployments :
            recoveries[d] < MaxRecoveries => recoveries[d] + 1 \in 0..MaxRecoveries
    BY BoundsAssumption DEF TypeOK, RowType
  <2>2. recoveries' \in [Deployments -> 0..MaxRecoveries]
    BY <1>29, <2>1 DEF Recover, TypeOK, RowType, WorkerType, Claims, Job
  <2>3. recovering' \in [Deployments -> BOOLEAN]
    BY <1>29 DEF Recover, TypeOK, RowType
  <2>4. RowType'
    BY <1>29, <2>1, <2>2, <2>3, FreeLeaseType DEF Recover, TypeOK, RowType
  <2>5. WorkerType'
    BY <1>29, FinishType, SendType DEF Recover, TypeOK, Labels
  <2>. QED  BY <1>29, <2>1, <2>2, <2>3, <2>4, <2>5, QuietTypes DEF Recover, TypeOK
<1>30. CASE RecoveryRefused(w)
  BY <1>30, QuietTypes, FailRowType, FinishType DEF RecoveryRefused, TypeOK
<1>31. CASE Unrecoverable(w)
  BY <1>31, QuietTypes, GotoType DEF Unrecoverable, TypeOK, Labels
<1>32. CASE Finalize(w)
  <2>1. RowType'
    BY <1>32, FreeLeaseType DEF Finalize, TypeOK, RowType, Stages
  <2>2. AgentType'
    BY <1>32 DEF Finalize, TypeOK, AgentType, Stoppable
  <2>. QED  BY <1>32, <2>1, <2>2, FinishType, QuietTypes DEF Finalize, TypeOK
<1>33. ASSUME NEW r \in Runners, Place(w, r)
       PROVE  TypeOK'
  <2>1. RowType'
    BY <1>33, AdvanceType DEF Place, TypeOK, RowType, Stages
  <2>2. AgentType'
    BY <1>33 DEF Place, TypeOK, AgentType, Stoppable
  <2>. QED  BY <1>33, <2>1, <2>2, AdvanceType, QuietTypes DEF Place, TypeOK, Stages
<1>34. ASSUME NEW r \in Runners, Provision(w, r)
       PROVE  TypeOK'
  <2>1. RowType'
    BY <1>34, AdvanceType DEF Provision, TypeOK, RowType, Stages
  <2>2. AgentType'
    BY <1>34 DEF Provision, TypeOK, AgentType, Stoppable
  <2>. QED  BY <1>34, <2>1, <2>2, AdvanceType, QuietTypes DEF Provision, TypeOK, Stages
<1>. QED  BY <1>1, <1>2, <1>3, <1>4, <1>5, <1>6, <1>7, <1>8, <1>9, <1>10, <1>11, <1>12, <1>13,
    <1>14, <1>15, <1>16, <1>17, <1>18, <1>19, <1>20, <1>21, <1>22, <1>23, <1>24, <1>25, <1>26,
    <1>27, <1>28, <1>29, <1>30, <1>31, <1>32, <1>33, <1>34 DEF WorkerStep

\* So does every step.
LEMMA TypeStep ==
    ASSUME TypeOK, [Next]_vars
    PROVE  TypeOK'
<1>1. CASE UNCHANGED vars
  BY <1>1, QuietTypes DEF vars, TypeOK
<1>2. ASSUME NEW w \in Workers, NEW d \in Deployments, Claim(w, d)
      PROVE  TypeOK'
  <2>1. RowType'
    BY <1>2, BoundsAssumption DEF Claim, Bumped, TypeOK, RowType
  <2>2. [dep |-> d, stage |-> stage[d], attempts |-> Bumped(attempts[d]), op |-> op[d], canary
      |-> canary[d], home |-> home] \in Claims
    BY <1>2, BoundsAssumption DEF Claim, Claimable, Active, Bumped, TypeOK, RowType, AgentType,
        Claims, Stages
  <2>3. WorkerType'
    BY <1>2, <2>1, <2>2 DEF Claim, TypeOK, WorkerType, Goto, Labels
  <2>. QED  BY <1>2, <2>1, <2>2, <2>3, QuietTypes DEF Claim, TypeOK
<1>3. ASSUME NEW w \in Workers, WorkerStep(w)
      PROVE  TypeOK'
  BY <1>3, WorkerStepType
<1>4. ASSUME NEW w \in Workers, Crash(w)
      PROVE  TypeOK'
  BY <1>4, FinishType, QuietTypes, BoundsAssumption DEF Crash, Fault, TypeOK
<1>5. ASSUME NEW w \in Workers, Release(w)
      PROVE  TypeOK'
  <2>1. RowType'
    BY <1>5, FreeLeaseType DEF Release, TypeOK, RowType
  <2>. QED  BY <1>5, <2>1, FinishType, QuietTypes, BoundsAssumption DEF Release, Fault, TypeOK
<1>6. ASSUME NEW d \in Deployments, LeaseExpires(d)
      PROVE  TypeOK'
  <2>1. RowType'
    BY <1>6 DEF LeaseExpires, TypeOK, RowType
  <2>. QED  BY <1>6, <2>1, QuietTypes, BoundsAssumption DEF LeaseExpires, Fault, TypeOK
<1>7. ASSUME NEW d \in Deployments, GatewayOverdue(d)
      PROVE  TypeOK'
  <2>1. RowType'
    BY <1>7 DEF GatewayOverdue, TypeOK, RowType
  <2>. QED  BY <1>7, <2>1, QuietTypes DEF GatewayOverdue, TypeOK
<1>8. ASSUME NEW d \in Deployments, ReplacementFails(d)
      PROVE  TypeOK'
  <2>1. RowType'
    BY <1>8 DEF ReplacementFails, TypeOK, RowType
  <2>. QED  BY <1>8, <2>1, QuietTypes DEF ReplacementFails, TypeOK
<1>9. ASSUME NEW d \in Deployments, NEW r \in Runners, Cutover(d, r)
      PROVE  TypeOK'
  <2>1. \A x \in Deployments : Superseded(x) \in Stages \cup {"none"}
    BY DEF TypeOK, RowType, Superseded, Stages
  <2>2. stage' \in [Deployments -> Stages \cup {"none"}]
    BY <1>9, <2>1 DEF Cutover, TypeOK, RowType, Stages
  <2>3. /\ lease' \in [Deployments -> Workers \cup {NoWorker}]
        /\ expired' \in [Deployments -> BOOLEAN]
    BY <1>9 DEF Cutover, TypeOK, RowType
  <2>4. RowType'
    BY <1>9, <2>1, <2>2, <2>3 DEF Cutover, TypeOK, RowType
  <2>5. AgentType'
    BY <1>9 DEF Cutover, TypeOK, AgentType, Stoppable
  <2>. QED  BY <1>9, <2>1, <2>2, <2>3, <2>4, <2>5, QuietTypes DEF Cutover, TypeOK
<1>10. ASSUME NEW r \in Runners, GatewayUp(r)
      PROVE  TypeOK'
  <2>1. HostType'
    BY <1>10 DEF GatewayUp, TypeOK, HostType
  <2>. QED  BY <1>10, <2>1, QuietTypes DEF GatewayUp, TypeOK
<1>11. CASE RetryDeployment
  <2>1. RowType'
    BY <1>11 DEF RetryDeployment, TypeOK, RowType, Stages
  <2>. QED  BY <1>11, <2>1, QuietTypes DEF RetryDeployment, TypeOK
<1>12. CASE RequestStop
  <2>1. RowType' /\ AgentType'
    BY <1>12, CancelType DEF RequestStop, TypeOK
  <2>. QED  BY <1>12, <2>1, QuietTypes DEF RequestStop, TypeOK, AgentType
<1>13. CASE RequestDelete
  <2>1. RowType' /\ AgentType'
    BY <1>13, CancelType DEF RequestDelete, TypeOK
  <2>. QED  BY <1>13, <2>1, QuietTypes DEF RequestDelete, TypeOK, AgentType
<1>14. CASE CallForOwner
  <2>1. owner' \in {[owner EXCEPT !.pc = "settling"], NoRequest}
    BY <1>14 DEF CallForOwner
  <2>2. owner \in [act : {"none", "stop", "delete"}, pc : {"idle", "calling", "settling"},
               cancelled : BOOLEAN, runner : Runners \cup {NoRunner}]
        => [owner EXCEPT !.pc = "settling"] \in
              [act : {"none", "stop", "delete"}, pc : {"idle", "calling", "settling"},
               cancelled : BOOLEAN, runner : Runners \cup {NoRunner}]
    OBVIOUS
  <2>3. NoRequest \in
              [act : {"none", "stop", "delete"}, pc : {"idle", "calling", "settling"},
               cancelled : BOOLEAN, runner : Runners \cup {NoRunner}]
    BY DEF NoRequest
  <2>4. owner' \in
              [act : {"none", "stop", "delete"}, pc : {"idle", "calling", "settling"},
               cancelled : BOOLEAN, runner : Runners \cup {NoRunner}]
    BY <2>1, <2>2, <2>3 DEF TypeOK
  <2>5. HostType'
    BY <1>14, HaltType DEF CallForOwner, Halt, TypeOK
  <2>. QED  BY <1>14, <2>4, <2>5, QuietTypes DEF CallForOwner, TypeOK
<1>15. CASE SettleStop
  <2>1. AgentType'
    BY <1>15 DEF SettleStop, TypeOK, AgentType, Stoppable
  <2>. QED  BY <1>15, <2>1, QuietTypes DEF SettleStop, NoRequest, TypeOK
<1>16. CASE SettleDelete
  <2>1. AgentType'
    BY <1>16 DEF SettleDelete, TypeOK, AgentType, Stoppable
  <2>. QED  BY <1>16, <2>1, QuietTypes DEF SettleDelete, NoRequest, TypeOK
<1>. QED  BY <1>1, <1>2, <1>3, <1>4, <1>5, <1>6, <1>7, <1>8, <1>9, <1>10, <1>11, <1>12, <1>13,
    <1>14, <1>15, <1>16 DEF Next, OwnerStep, ReplacementStep

\* The types at the start.
LEMMA InitType == Init => TypeOK
<1>. SUFFICES ASSUME Init PROVE TypeOK
  OBVIOUS
<1>1. RowType
  BY BoundsAssumption DEF Init, RowType, Stages, Canaries
<1>2. AgentType
  BY DEF Init, AgentType, Stoppable
<1>3. WorkerType
  <2>1. NoClaim \in Claims
    BY BoundsAssumption DEF NoClaim, Claims, Stages, Canaries, Deployments
  <2>. QED  BY <2>1, BoundsAssumption DEF Init, WorkerType, Labels
<1>4. HostType
  BY BoundsAssumption DEF Init, HostType
<1>. QED  BY <1>1, <1>2, <1>3, <1>4, BoundsAssumption DEF Init, TypeOK, NoRequest

\* What is stored of the rows, the workers and the runners has its type.
THEOREM TypeCorrect == Spec => []TypeOK
  BY InitType, TypeStep, PTL DEF Spec

-----------------------------------------------------------------------------
(* The pipeline *)

\* The transitions the workers take, one by one.
LEMMA Transitions ==
    /\ Pipeline!ALLOWED_FORWARD_TRANSITIONS["none"] = {}
    /\ Pipeline!ALLOWED_FORWARD_TRANSITIONS["pending"] =
          {"provisioning_runner", "configuring_hermes", "failed"}
    /\ Pipeline!ALLOWED_FORWARD_TRANSITIONS["provisioning_runner"] = {"configuring_hermes", "failed"}
    /\ Pipeline!ALLOWED_FORWARD_TRANSITIONS["configuring_hermes"] = {"starting_gateway", "failed"}
    /\ Pipeline!ALLOWED_FORWARD_TRANSITIONS["starting_gateway"] =
          {"verifying_model", "connecting_telegram", "failed"}
    /\ Pipeline!ALLOWED_FORWARD_TRANSITIONS["verifying_model"] = {"connecting_telegram", "failed"}
    /\ Pipeline!ALLOWED_FORWARD_TRANSITIONS["connecting_telegram"] = {"ready", "failed"}
    /\ Pipeline!ALLOWED_FORWARD_TRANSITIONS["ready"] = {}
    /\ Pipeline!ALLOWED_FORWARD_TRANSITIONS["failed"] = {}
  BY DEF Pipeline!ALLOWED_FORWARD_TRANSITIONS

\* A deployment is active exactly when the table lets it fail.
LEMMA ActiveIsUnderWay ==
    ASSUME RowType, NEW d \in Deployments
    PROVE  Active(d) <=> Pipeline!UnderWay(d)
<1>1. stage[d] \in Stages \cup {"none"}
  BY DEF RowType
<1>. QED  BY <1>1, Transitions DEF Active, Stages, Pipeline!UnderWay

\* A stage change takes the transition from the stage that was claimed.
LEMMA AdvanceMoves ==
    ASSUME TypeOK, NEW w \in Workers, NEW next \in Stages, Advance(w, next),
           next \in Pipeline!ALLOWED_FORWARD_TRANSITIONS[claim[w].stage]
    PROVE  \E d \in Deployments : Pipeline!Move(d, next)
<1>1. Job(w) \in Deployments
  BY DEF TypeOK, WorkerType, Claims, Job
<1>2. Pipeline!Move(Job(w), next)
  BY DEF Advance, Holds, Pipeline!Move
<1>. QED  BY <1>1, <1>2

\* A failure moves an active deployment to failed.
LEMMA FailMoves ==
    ASSUME TypeOK, NEW w \in Workers, FailRow(w)
    PROVE  \E d \in Deployments : Pipeline!Move(d, "failed")
<1>1. Job(w) \in Deployments
  BY DEF TypeOK, WorkerType, Claims, Job
<1>2. Pipeline!UnderWay(Job(w))
  BY <1>1, ActiveIsUnderWay DEF FailRow, HoldsAnyStage, TypeOK
<1>3. Pipeline!Move(Job(w), "failed")
  BY <1>2 DEF FailRow, Pipeline!Move, Pipeline!UnderWay
<1>. QED  BY <1>1, <1>3

\* The labels between two writes of a canary: dispatch, reply and what is made of it.
CanaryLabels == {"dispatching", "passed", "refused", "doubtful", "undispatched"}

\* Workers that hold an answer of a start, or that are about the canary, claimed the
\* deployment in the stage these belong to.
LabelsFit ==
    \A w \in Workers :
        /\ pc[w] = "accepted" => claim[w].stage = "configuring_hermes"
        /\ pc[w] \in CanaryLabels => claim[w].stage = "verifying_model"

\* A step that takes one worker to a label that fits keeps LabelsFit.
LEMMA GotoFits ==
    ASSUME WorkerType, LabelsFit, NEW v \in Workers, NEW label \in Labels, Goto(v, label),
           UNCHANGED claim,
           label = "accepted" => claim[v].stage = "configuring_hermes",
           label \in CanaryLabels => claim[v].stage = "verifying_model"
    PROVE  LabelsFit'
  BY DEF WorkerType, LabelsFit, Goto

\* So does one that finishes a worker.
LEMMA FinishFits ==
    ASSUME WorkerType, LabelsFit, NEW v \in Workers, Finish(v)
    PROVE  LabelsFit'
  BY DEF WorkerType, LabelsFit, CanaryLabels, Finish, Goto

\* And one that leaves labels and claims alone.
LEMMA QuietFits ==
    ASSUME LabelsFit, UNCHANGED <<pc, claim>>
    PROVE  LabelsFit'
  BY DEF LabelsFit

\* Every step keeps LabelsFit.
LEMMA FitStep ==
    ASSUME TypeOK, LabelsFit, [Next]_vars
    PROVE  LabelsFit'
<1>. WorkerType
  BY DEF TypeOK
<1>1. ASSUME NEW w \in Workers, WorkerStep(w)
      PROVE  LabelsFit'
  <2>1. CASE \/ Lost(w) \/ Persist(w) \/ Provisioned(w) \/ GatewayConfirmed(w) \/ SkipCanary(w)
             \/ PassCanary(w) \/ Retry(w) \/ Fail(w) \/ RecoveryRefused(w) \/ Finalize(w)
             \/ \E r \in Runners : Place(w, r) \/ Provision(w, r)
    <3>1. Finish(w)
      BY <2>1 DEF Lost, Persist, Provisioned, GatewayConfirmed, SkipCanary, PassCanary, Retry,
                  Fail, RecoveryRefused, Finalize, Place, Provision, Advance
    <3>. QED  BY <3>1, FinishFits
  <2>2. CASE \/ NoCapacity(w) \/ CallRunner(w) \/ BadLaunchSpec(w) \/ StartUnusable(w)
             \/ NoTransport(w) \/ GatewayTimesOut(w) \/ StatusReady(w) \/ StatusWaiting(w)
    <3>1. \E label \in Labels \ ({"accepted"} \cup CanaryLabels) :
             Goto(w, label) /\ UNCHANGED claim
      BY <2>2 DEF NoCapacity, CallRunner, BadLaunchSpec, StartUnusable, NoTransport,
                  GatewayTimesOut, StatusReady, StatusWaiting, Labels, CanaryLabels
    <3>. QED  BY <3>1, GotoFits
  <2>3. CASE \/ CanaryUnfit(w) \/ MarkCanary(w) \/ ResetCanary(w) \/ Exhausted(w)
             \/ BeginCleanup(w) \/ Unrecoverable(w)
    <3>1. \E label \in Labels \ ({"accepted"} \cup CanaryLabels) :
             Goto(w, label) /\ UNCHANGED claim
      BY <2>3 DEF CanaryUnfit, MarkCanary, ResetCanary, Exhausted, BeginCleanup, Unrecoverable,
                  Labels, CanaryLabels
    <3>. QED  BY <3>1, GotoFits
  <2>4. CASE StartAccepted(w) \/ StartReady(w)
    BY <2>4, GotoFits DEF StartAccepted, StartReady, Starts, Labels, CanaryLabels
  <2>5. CASE MarkCanaryStarted(w) \/ CanaryLeftOver(w)
    BY <2>5, GotoFits DEF MarkCanaryStarted, CanaryLeftOver, LeftOver, Verifies, Labels
  <2>6. CASE Dispatch(w) \/ NotDispatched(w)
    <3>1. claim[w].stage = "verifying_model"
      BY <2>6 DEF Dispatch, NotDispatched, LabelsFit, CanaryLabels
    <3>. QED  BY <2>6, <3>1, GotoFits DEF Dispatch, NotDispatched, Labels
  <2>7. CASE CleanUp(w)
    BY <2>7, GotoFits, FinishFits DEF CleanUp, Labels, CanaryLabels
  <2>8. CASE Recover(w)
    BY <2>8, GotoFits, FinishFits DEF Recover, Labels, CanaryLabels
  <2>. QED  BY <1>1, <2>1, <2>2, <2>3, <2>4, <2>5, <2>6, <2>7, <2>8 DEF WorkerStep
<1>2. ASSUME NEW w \in Workers, NEW d \in Deployments, Claim(w, d)
      PROVE  LabelsFit'
  BY <1>2 DEF Claim, Goto, WorkerType, LabelsFit, CanaryLabels
<1>3. ASSUME NEW w \in Workers, Crash(w) \/ Release(w)
      PROVE  LabelsFit'
  BY <1>3, FinishFits DEF Crash, Release
<1>4. ASSUME NEW d \in Deployments, LeaseExpires(d) \/ GatewayOverdue(d) \/ ReplacementStep(d)
      PROVE  LabelsFit'
  BY <1>4, QuietFits DEF LeaseExpires, GatewayOverdue, ReplacementStep, Cutover, ReplacementFails,
                         worker
<1>5. CASE OwnerStep
  BY <1>5, QuietFits DEF OwnerStep, RetryDeployment, RequestStop, RequestDelete, CallForOwner,
                         SettleStop, SettleDelete, worker
<1>6. ASSUME NEW r \in Runners, GatewayUp(r)
      PROVE  LabelsFit'
  BY <1>6, QuietFits DEF GatewayUp, worker
<1>7. CASE UNCHANGED vars
  BY <1>7, QuietFits DEF vars, worker
<1>. QED  BY <1>1, <1>2, <1>3, <1>4, <1>5, <1>6, <1>7 DEF Next

\* What a step of a worker does to the stages.
LEMMA WorkerStages ==
    ASSUME TypeOK, LabelsFit, NEW w \in Workers, WorkerStep(w)
    PROVE  stage' = stage \/ \E d \in Deployments, next \in Stages : Pipeline!Move(d, next)
<1>1. ASSUME NEW r \in Runners, Place(w, r) \/ Provision(w, r)
      PROVE  \E d \in Deployments, next \in Stages : Pipeline!Move(d, next)
  BY <1>1, AdvanceMoves, Transitions DEF Place, Provision, Stages
<1>2. CASE Provisioned(w)
  BY <1>2, AdvanceMoves, Transitions DEF Provisioned, Stages
<1>3. CASE Persist(w)
  <2>1. claim[w].stage = "configuring_hermes"
    BY <1>3 DEF Persist, LabelsFit
  <2>. QED  BY <1>3, <2>1, AdvanceMoves, Transitions DEF Persist, Stages
<1>4. CASE GatewayConfirmed(w) \/ SkipCanary(w)
  BY <1>4, AdvanceMoves, Transitions DEF GatewayConfirmed, SkipCanary, Stages
<1>5. CASE PassCanary(w)
  <2>1. claim[w].stage = "verifying_model"
    BY <1>5 DEF PassCanary, LabelsFit, CanaryLabels
  <2>. QED  BY <1>5, <2>1, AdvanceMoves, Transitions DEF PassCanary, Stages
<1>6. CASE Fail(w) \/ RecoveryRefused(w)
  BY <1>6, FailMoves DEF Fail, RecoveryRefused, Stages
<1>7. CASE Finalize(w)
  <2>1. Job(w) \in Deployments
    BY DEF TypeOK, WorkerType, Claims, Job
  <2>2. Pipeline!Move(Job(w), "ready")
    BY <1>7, Transitions DEF Finalize, Holds, Pipeline!Move
  <2>. QED  BY <2>1, <2>2 DEF Stages
<1>8. CASE \/ Lost(w) \/ NoCapacity(w) \/ CallRunner(w) \/ BadLaunchSpec(w) \/ StartAccepted(w)
           \/ StartReady(w) \/ StartUnusable(w) \/ NoTransport(w) \/ GatewayTimesOut(w)
           \/ StatusReady(w) \/ StatusWaiting(w) \/ CanaryLeftOver(w) \/ CanaryUnfit(w)
           \/ Dispatch(w) \/ NotDispatched(w) \/ Exhausted(w) \/ BeginCleanup(w) \/ CleanUp(w)
           \/ Unrecoverable(w)
  BY <1>8 DEF Lost, NoCapacity, CallRunner, BadLaunchSpec, StartAccepted, StartReady,
              StartUnusable, NoTransport, GatewayTimesOut, StatusReady, StatusWaiting,
              CanaryLeftOver, CanaryUnfit, Dispatch, NotDispatched, Exhausted, BeginCleanup,
              CleanUp, Unrecoverable, row
<1>9. CASE MarkCanaryStarted(w) \/ MarkCanary(w) \/ ResetCanary(w) \/ Retry(w) \/ Recover(w)
  BY <1>9 DEF MarkCanaryStarted, MarkCanary, ResetCanary, Retry, Recover
<1>. QED  BY <1>1, <1>2, <1>3, <1>4, <1>5, <1>6, <1>7, <1>8, <1>9 DEF WorkerStep

\* A new deployment in the place of the latest one, and of the active one if there is one.
Renewal ==
    \E e, n \in Deployments :
        /\ Latest(e) /\ n = e + 1
        /\ stage' = [x \in Deployments |-> IF x = n THEN "pending" ELSE Superseded(x)]

\* The shapes of every step.
LEMMA StageShapes ==
    ASSUME TypeOK, LabelsFit, [Next]_vars
    PROVE  \/ stage' = stage
           \/ \E d \in Deployments, next \in Stages : Pipeline!Move(d, next)
           \/ stage' = [x \in Deployments |-> Superseded(x)]
           \/ Renewal
<1>1. ASSUME NEW w \in Workers, WorkerStep(w)
      PROVE  stage' = stage \/ \E d \in Deployments, next \in Stages : Pipeline!Move(d, next)
  BY <1>1, WorkerStages
<1>2. ASSUME NEW w \in Workers, Crash(w) \/ Release(w) \/ \E d \in Deployments : Claim(w, d)
      PROVE  stage' = stage
  BY <1>2 DEF Crash, Release, Claim, row
<1>3. ASSUME NEW d \in Deployments, LeaseExpires(d) \/ GatewayOverdue(d) \/ ReplacementFails(d)
      PROVE  stage' = stage
  BY <1>3 DEF LeaseExpires, GatewayOverdue, ReplacementFails
<1>4. ASSUME NEW d \in Deployments, NEW r \in Runners, Cutover(d, r)
      PROVE  stage' = stage \/ Renewal
  BY <1>4 DEF Cutover, Renewal
<1>5. CASE RetryDeployment
  <2>1. PICK e \in Deployments, n \in Deployments :
           Latest(e) /\ n = e + 1 /\ stage' = [stage EXCEPT ![n] = "pending"]
    BY <1>5 DEF RetryDeployment
  <2>2. \A x \in Deployments : Superseded(x) = stage[x]
    BY <1>5 DEF RetryDeployment, Superseded
  <2>3. stage' = [x \in Deployments |-> IF x = n THEN "pending" ELSE Superseded(x)]
    BY <2>1, <2>2 DEF TypeOK, RowType
  <2>. QED  BY <2>1, <2>3 DEF Renewal
<1>6. CASE RequestStop \/ RequestDelete
  BY <1>6 DEF RequestStop, RequestDelete, CancelActive
<1>7. CASE CallForOwner \/ SettleStop \/ SettleDelete
  BY <1>7 DEF CallForOwner, SettleStop, SettleDelete, row
<1>8. ASSUME NEW r \in Runners, GatewayUp(r)
      PROVE  stage' = stage
  BY <1>8 DEF GatewayUp, row
<1>9. CASE UNCHANGED vars
  BY <1>9 DEF vars, row
<1>. QED  BY <1>1, <1>2, <1>3, <1>4, <1>5, <1>6, <1>7, <1>8, <1>9
          DEF Next, OwnerStep, ReplacementStep

\* A step keeps the active deployment the latest.
LEMMA OneActiveStep ==
    ASSUME TypeOK, LabelsFit, OneActive, [Next]_vars
    PROVE  OneActive'
<1>1. CASE stage' = stage
  BY <1>1 DEF OneActive, Active, Latest, Made
<1>2. ASSUME NEW d \in Deployments, NEW next \in Stages, Pipeline!Move(d, next)
      PROVE  OneActive'
  <2>1. stage[d] \in Stages \cup {"none"} /\ stage[d] # "none" /\ Active(d)
    BY <1>2, Transitions DEF TypeOK, RowType, Pipeline!Move, Active, Stages
  <2>2. \A x \in Deployments : stage'[x] = IF x = d THEN next ELSE stage[x]
    BY <1>2 DEF Pipeline!Move, TypeOK, RowType
  <2>3. next # "none"
    BY DEF Stages
  <2>. QED  BY <2>1, <2>2, <2>3 DEF OneActive, Active, Latest, Made
<1>3. CASE stage' = [x \in Deployments |-> Superseded(x)]
  BY <1>3 DEF OneActive, Active, Latest, Made, Superseded
<1>4. CASE Renewal
  <2>1. PICK e \in Deployments, n \in Deployments :
           /\ Latest(e) /\ n = e + 1
           /\ stage' = [x \in Deployments |-> IF x = n THEN "pending" ELSE Superseded(x)]
    BY <1>4 DEF Renewal
  <2>2. \A x \in Deployments : Active(x)' => x = n
    BY <2>1 DEF Active, Superseded
  <2>3. \A x \in Deployments : Made(x)' => x <= n
    <3>1. \A x \in Deployments : Made(x)' => x = n \/ Made(x)
      BY <2>1 DEF Made, Superseded, Active
    <3>. QED  BY <2>1, <3>1 DEF Latest, Deployments
  <2>4. Made(n)'
    BY <2>1 DEF Made
  <2>. QED  BY <2>2, <2>3, <2>4 DEF OneActive, Latest
<1>. QED  BY <1>1, <1>2, <1>3, <1>4, StageShapes

\* The inductive invariant: types, labels that fit the claimed stage, one deployment.
IInv == TypeOK /\ LabelsFit /\ OneActive

\* IInv holds at the start.
LEMMA InitIInv == Init => IInv
<1>. SUFFICES ASSUME Init PROVE IInv
  OBVIOUS
<1>1. TypeOK
  BY InitType
<1>2. LabelsFit
  BY DEF Init, LabelsFit, CanaryLabels
<1>3. OneActive
  BY DEF Init, OneActive, Active, Latest, Made, Deployments
<1>. QED  BY <1>1, <1>2, <1>3 DEF IInv

\* And it is kept.
LEMMA IInvStep == IInv /\ [Next]_vars => IInv'
  BY TypeStep, FitStep, OneActiveStep DEF IInv

\* At any time one deployment of the agent is under way at most, the latest: the claim
\* of a wakeup or a cron run cannot find two.
THEOREM OneDeploymentUnderWay == Spec => []OneActive
<1>1. IInv => OneActive
  BY DEF IInv
<1>. QED  BY <1>1, InitIInv, IInvStep, PTL DEF Spec

\* A step of the agent's deployment is a step of the pipeline, or none of it.
LEMMA StepFollowsStages ==
    ASSUME IInv, [Next]_vars
    PROVE  [Pipeline!Next]_stage
<1>. TypeOK /\ LabelsFit /\ OneActive /\ RowType
  BY DEF IInv, TypeOK
<1>1. ASSUME NEW d \in Deployments, NEW next \in Stages, Pipeline!Move(d, next)
      PROVE  Pipeline!Next
  <2>1. next # "pending"
    BY <1>1, Transitions DEF Pipeline!Move, RowType, Stages
  <2>. QED  BY <1>1, <2>1 DEF Pipeline!Next, Pipeline!Later, Stages
<1>2. ASSUME \A d \in Deployments : ~Active(d)
      PROVE  \A d \in Deployments : Superseded(d) = stage[d] /\ ~Pipeline!UnderWay(d)
  BY <1>2, ActiveIsUnderWay DEF Superseded
<1>3. ASSUME NEW d \in Deployments, Active(d)
      PROVE  /\ Pipeline!UnderWay(d)
             /\ \A x \in Deployments : Superseded(x) = IF x = d THEN "failed" ELSE stage[x]
  <2>1. \A x \in Deployments : Active(x) => x = d
    BY <1>3 DEF OneActive, Latest, Deployments
  <2>. QED  BY <1>3, <2>1, ActiveIsUnderWay DEF Superseded
<1>4. CASE stage' = [x \in Deployments |-> Superseded(x)]
  <2>1. CASE \A d \in Deployments : ~Active(d)
    BY <1>4, <1>2, <2>1 DEF RowType
  <2>2. ASSUME NEW d \in Deployments, Active(d)
        PROVE  Pipeline!Next
    <3>1. stage' = [stage EXCEPT ![d] = "failed"]
      BY <1>3, <1>4, <2>2 DEF RowType
    <3>2. Pipeline!Move(d, "failed")
      BY <1>3, <2>2, <3>1 DEF Pipeline!Move, Pipeline!UnderWay
    <3>. QED  BY <1>1, <3>2 DEF Stages
  <2>. QED  BY <2>1, <2>2
<1>5. CASE Renewal
  <2>1. PICK e \in Deployments, n \in Deployments :
           /\ Latest(e) /\ n = e + 1
           /\ stage' = [x \in Deployments |-> IF x = n THEN "pending" ELSE Superseded(x)]
    BY <1>5 DEF Renewal
  <2>2. stage[n] = "none"
    BY <2>1 DEF Latest, Made, Deployments
  <2>3. CASE \A d \in Deployments : ~Active(d)
    <3>1. stage' = [stage EXCEPT ![n] = "pending"]
      BY <1>2, <2>1, <2>3 DEF RowType
    <3>2. Pipeline!Open(n)
      BY <1>2, <2>2, <2>3, <3>1 DEF Pipeline!Open
    <3>. QED  BY <3>2 DEF Pipeline!Next
  <2>4. ASSUME NEW d \in Deployments, Active(d)
        PROVE  Pipeline!Next
    <3>1. d # n
      BY <2>2, <2>4 DEF Active
    <3>2. stage' = [stage EXCEPT ![d] = "failed", ![n] = "pending"]
      BY <1>3, <2>1, <2>4, <3>1 DEF RowType
    <3>3. Pipeline!Supersede(d, n)
      BY <1>3, <2>2, <2>4, <3>2 DEF Pipeline!Supersede
    <3>. QED  BY <3>3 DEF Pipeline!Next
  <2>. QED  BY <2>3, <2>4
<1>. QED  BY <1>1, <1>4, <1>5, StageShapes

\* Leases, takeovers, stops, retries and replacements implement deployment-state.ts.
THEOREM StagesImplemented == Spec => FollowsStages
<1>1. Init => Pipeline!Init
  BY DEF Init, Pipeline!Init
<1>2. IInv /\ [Next]_vars => [Pipeline!Next]_stage
  BY StepFollowsStages
<1>. QED  BY <1>1, <1>2, InitIInv, IInvStep, PTL DEF Spec, FollowsStages, Pipeline!Spec

\* No step brings back an agent that is not wanted.
LEMMA StopStaysStep ==
    ASSUME [Next]_vars, ~Wanted
    PROVE  status' \in {status, "stopped"}
<1>1. ASSUME NEW w \in Workers, WorkerStep(w)
      PROVE  status' = status
  <2>1. ASSUME NEW next, Advance(w, next)
        PROVE  FALSE
    BY <2>1 DEF Advance, Holds
  <2>2. ~FailRow(w) /\ ~Finalize(w)
    BY DEF FailRow, HoldsAnyStage, Finalize, Holds
  <2>3. CASE \/ Lost(w) \/ NoCapacity(w) \/ CallRunner(w) \/ BadLaunchSpec(w)
             \/ StartAccepted(w) \/ StartReady(w) \/ StartUnusable(w) \/ NoTransport(w)
             \/ GatewayTimesOut(w) \/ StatusReady(w) \/ StatusWaiting(w) \/ CanaryLeftOver(w)
             \/ CanaryUnfit(w) \/ Dispatch(w) \/ NotDispatched(w) \/ Exhausted(w)
             \/ BeginCleanup(w) \/ CleanUp(w) \/ Unrecoverable(w)
    BY <2>3 DEF Lost, NoCapacity, CallRunner, BadLaunchSpec, StartAccepted, StartReady,
                StartUnusable, NoTransport, GatewayTimesOut, StatusReady, StatusWaiting,
                CanaryLeftOver, CanaryUnfit, Dispatch, NotDispatched, Exhausted, BeginCleanup,
                CleanUp, Unrecoverable, agent
  <2>4. CASE MarkCanaryStarted(w) \/ MarkCanary(w) \/ ResetCanary(w) \/ Retry(w) \/ Recover(w)
    BY <2>4 DEF MarkCanaryStarted, MarkCanary, ResetCanary, Retry, Recover, agent
  <2>5. ~(\/ Provisioned(w) \/ Persist(w) \/ GatewayConfirmed(w) \/ SkipCanary(w) \/ PassCanary(w)
          \/ \E r \in Runners : Place(w, r) \/ Provision(w, r))
    BY <2>1 DEF Provisioned, Persist, GatewayConfirmed, SkipCanary, PassCanary, Place, Provision
  <2>. QED  BY <1>1, <2>2, <2>3, <2>4, <2>5 DEF WorkerStep, Fail, RecoveryRefused
<1>2. ASSUME NEW w \in Workers, Crash(w) \/ Release(w) \/ \E d \in Deployments : Claim(w, d)
      PROVE  status' = status
  BY <1>2 DEF Crash, Release, Claim, agent
<1>3. ASSUME NEW d \in Deployments, LeaseExpires(d) \/ GatewayOverdue(d) \/ ReplacementFails(d)
      PROVE  status' = status
  BY <1>3 DEF LeaseExpires, GatewayOverdue, ReplacementFails, agent
<1>4. ASSUME NEW d \in Deployments, NEW r \in Runners, Cutover(d, r)
      PROVE  status' = "stopped"
  BY <1>4 DEF Cutover
<1>5. CASE OwnerStep
  BY <1>5 DEF OwnerStep, RetryDeployment, RequestStop, RequestDelete, CallForOwner, SettleStop,
              SettleDelete, agent
<1>6. CASE UNCHANGED vars \/ \E r \in Runners : GatewayUp(r)
  BY <1>6 DEF vars, GatewayUp, agent
<1>. QED  BY <1>1, <1>2, <1>3, <1>4, <1>5, <1>6 DEF Next, ReplacementStep

\* A stop or a deletion that was persisted stays: no worker that was under way brings
\* the agent back to starting or running.
THEOREM StopStays == Spec => StopIsFinal
<1>1. [Next]_vars => [~Wanted => status' \in {status, "stopped"}]_vars
  BY StopStaysStep
<1>. QED  BY <1>1, PTL DEF Spec, StopIsFinal

-----------------------------------------------------------------------------
(* The agent row and the rows of its deployments *)

\* A worker whose write finds an active row writes the latest deployment's, and that of an
\* agent that neither runs nor is billed.
LEMMA HeldIsLatest ==
    ASSUME IInv, AgentMirrorsDeployment, NEW w \in Workers, Active(Job(w)), Wanted
    PROVE  Job(w) \in Deployments /\ Latest(Job(w)) /\ status # "running" /\ ~billed
<1>1. Job(w) \in Deployments
  BY DEF IInv, TypeOK, WorkerType, Claims, Job
<1>2. Latest(Job(w))
  BY <1>1 DEF IInv, OneActive
<1>. QED  BY <1>1, <1>2 DEF AgentMirrorsDeployment, Active, IInv, TypeOK, AgentType

\* The latest deployment is still the latest when its stage is written.
LEMMA LatestStays ==
    ASSUME RowType, NEW d \in Deployments, Latest(d), NEW next, next # "none",
           stage' = [stage EXCEPT ![d] = next]
    PROVE  \A x \in Deployments : Latest(x)' <=> x = d
<1>1. \A x \in Deployments : Made(x)' <=> Made(x)
  BY DEF RowType, Latest, Made
<1>2. \A x \in Deployments : Latest(x)' <=> Latest(x)
  BY <1>1 DEF Latest
<1>3. \A x \in Deployments : Latest(x) => x = d
  BY DEF Latest, Deployments
<1>. QED  BY <1>2, <1>3

\* Nothing is to be mirrored by an agent that is not running, is not billed, and whose latest
\* deployment is not ready.
LEMMA UnreadyMirrors ==
    ASSUME ~billed', status' # "running",
           \A d \in Deployments : Latest(d)' => stage'[d] # "ready"
    PROVE  AgentMirrorsDeployment'
  BY DEF AgentMirrorsDeployment

\* Nor by one that is not wanted.
LEMMA UnwantedMirrors ==
    ASSUME ~billed', ~Wanted'
    PROVE  AgentMirrorsDeployment'
  BY DEF AgentMirrorsDeployment

\* A write to the agent and to the stages that touches neither.
LEMMA QuietMirrors ==
    ASSUME AgentMirrorsDeployment, UNCHANGED <<stage, agent>>
    PROVE  AgentMirrorsDeployment'
  BY DEF AgentMirrorsDeployment, agent, Wanted, Latest, Made

\* A stage change before the last one keeps the agent starting, and unbilled.
LEMMA AdvanceMirrors ==
    ASSUME IInv, AgentMirrorsDeployment, NEW w \in Workers, NEW next, Advance(w, next),
           Active(Job(w)), next \notin {"none", "ready"}, UNCHANGED billed,
           status' \in {status, "starting"}
    PROVE  AgentMirrorsDeployment'
<1>1. Job(w) \in Deployments /\ Latest(Job(w)) /\ status # "running" /\ ~billed
  BY HeldIsLatest DEF Advance, Holds
<1>2. stage' = [stage EXCEPT ![Job(w)] = next]
  BY DEF Advance
<1>3. \A d \in Deployments : Latest(d)' => stage'[d] = next
  BY <1>1, <1>2, LatestStays DEF IInv, TypeOK, RowType
<1>. QED  BY <1>1, <1>3, UnreadyMirrors

\* A failure leaves the agent in error, and unbilled.
LEMMA FailMirrors ==
    ASSUME IInv, AgentMirrorsDeployment, NEW w \in Workers, FailRow(w)
    PROVE  AgentMirrorsDeployment'
<1>1. Job(w) \in Deployments /\ Latest(Job(w))
  BY HeldIsLatest DEF FailRow, HoldsAnyStage
<1>2. stage' = [stage EXCEPT ![Job(w)] = "failed"]
  BY DEF FailRow
<1>3. \A d \in Deployments : Latest(d)' => stage'[d] = "failed"
  BY <1>1, <1>2, LatestStays DEF IInv, TypeOK, RowType
<1>. QED  BY <1>3, UnreadyMirrors DEF FailRow

\* So does the owner's first transaction: it cancels what is active, or finds nothing to.
LEMMA CancelMirrors ==
    ASSUME AgentMirrorsDeployment, CancelActive, UNCHANGED <<status, home, deleted>>
    PROVE  AgentMirrorsDeployment'
<1>1. CASE \E d \in Deployments : Active(d)
  BY <1>1, UnwantedMirrors DEF CancelActive, Wanted
<1>2. CASE ~\E d \in Deployments : Active(d)
  BY <1>2, QuietMirrors DEF CancelActive, agent
<1>. QED  BY <1>1, <1>2

\* Every step of a worker keeps the two in agreement.
LEMMA WorkerMirrors ==
    ASSUME IInv, AgentMirrorsDeployment, NEW w \in Workers, WorkerStep(w)
    PROVE  AgentMirrorsDeployment'
<1>0. TypeOK /\ RowType /\ LabelsFit
  BY DEF IInv, TypeOK
<1>1. ASSUME NEW r \in Runners, Place(w, r) \/ Provision(w, r)
      PROVE  AgentMirrorsDeployment'
  <2>1. Active(Job(w))
    BY <1>1 DEF Place, Provision, Advance, Holds, Active
  <2>. QED  BY <1>1, <2>1, AdvanceMirrors DEF Place, Provision
<1>2. CASE Provisioned(w) \/ GatewayConfirmed(w) \/ SkipCanary(w)
  <2>1. Active(Job(w))
    BY <1>2 DEF Provisioned, GatewayConfirmed, SkipCanary, Advance, Holds, Active
  <2>. QED  BY <1>2, <2>1, AdvanceMirrors DEF Provisioned, GatewayConfirmed, SkipCanary, agent
<1>3. CASE Persist(w) \/ PassCanary(w)
  <2>1. Active(Job(w))
    BY <1>0, <1>3 DEF Persist, PassCanary, Advance, Holds, Active, LabelsFit, CanaryLabels
  <2>. QED  BY <1>3, <2>1, AdvanceMirrors DEF Persist, PassCanary, agent
<1>4. CASE Fail(w) \/ RecoveryRefused(w)
  BY <1>4, FailMirrors DEF Fail, RecoveryRefused
<1>5. CASE Finalize(w)
  <2>1. Active(Job(w)) /\ Wanted
    BY <1>5 DEF Finalize, Holds, Active
  <2>2. Job(w) \in Deployments /\ Latest(Job(w))
    BY <2>1, HeldIsLatest
  <2>3. stage' = [stage EXCEPT ![Job(w)] = "ready"]
    BY <1>5 DEF Finalize
  <2>4. \A d \in Deployments : Latest(d)' => stage'[d] = "ready"
    BY <1>0, <2>2, <2>3, LatestStays DEF RowType
  <2>. QED  BY <1>5, <2>1, <2>4 DEF Finalize, Wanted, AgentMirrorsDeployment
<1>6. CASE \/ Lost(w) \/ NoCapacity(w) \/ CallRunner(w) \/ BadLaunchSpec(w) \/ StartAccepted(w)
           \/ StartReady(w) \/ StartUnusable(w) \/ NoTransport(w) \/ GatewayTimesOut(w)
           \/ StatusReady(w) \/ StatusWaiting(w) \/ CanaryLeftOver(w) \/ CanaryUnfit(w)
           \/ Dispatch(w) \/ NotDispatched(w) \/ Exhausted(w) \/ BeginCleanup(w) \/ CleanUp(w)
           \/ Unrecoverable(w)
  BY <1>6, QuietMirrors
  DEF Lost, NoCapacity, CallRunner, BadLaunchSpec, StartAccepted, StartReady, StartUnusable,
      NoTransport, GatewayTimesOut, StatusReady, StatusWaiting, CanaryLeftOver, CanaryUnfit,
      Dispatch, NotDispatched, Exhausted, BeginCleanup, CleanUp, Unrecoverable, row
<1>7. CASE MarkCanaryStarted(w) \/ MarkCanary(w) \/ ResetCanary(w) \/ Retry(w) \/ Recover(w)
  BY <1>7, QuietMirrors DEF MarkCanaryStarted, MarkCanary, ResetCanary, Retry, Recover
<1>. QED  BY <1>1, <1>2, <1>3, <1>4, <1>5, <1>6, <1>7 DEF WorkerStep

\* The deployment after the latest one is the latest then.
LEMMA RenewalIsLatest ==
    ASSUME NEW e \in Deployments, NEW n \in Deployments, Latest(e), n = e + 1, Made(n)',
           \A x \in Deployments : Made(x)' => Made(x) \/ x = n
    PROVE  \A d \in Deployments : Latest(d)' => d = n
  BY DEF Latest, Deployments

\* So do the steps of the owner, of the replacement and of time.
LEMMA MirrorsStep ==
    ASSUME IInv, AgentMirrorsDeployment, [Next]_vars
    PROVE  AgentMirrorsDeployment'
<1>0. RowType
  BY DEF IInv, TypeOK
<1>1. ASSUME NEW w \in Workers, WorkerStep(w)
      PROVE  AgentMirrorsDeployment'
  BY <1>1, WorkerMirrors
<1>2. ASSUME NEW w \in Workers, Crash(w) \/ Release(w) \/ \E d \in Deployments : Claim(w, d)
      PROVE  AgentMirrorsDeployment'
  BY <1>2, QuietMirrors DEF Crash, Release, Claim, row
<1>3. ASSUME NEW d \in Deployments, LeaseExpires(d) \/ GatewayOverdue(d) \/ ReplacementFails(d)
      PROVE  AgentMirrorsDeployment'
  BY <1>3, QuietMirrors DEF LeaseExpires, GatewayOverdue, ReplacementFails
<1>4. ASSUME NEW d \in Deployments, NEW r \in Runners, Cutover(d, r)
      PROVE  AgentMirrorsDeployment'
  <2>1. ~billed'
    BY <1>4 DEF Cutover
  <2>2. CASE Wanted
    <3>1. PICK e \in Deployments, n \in Deployments :
             /\ Latest(e) /\ n = e + 1
             /\ stage' = [x \in Deployments |-> IF x = n THEN "pending" ELSE Superseded(x)]
      BY <1>4, <2>2 DEF Cutover
    <3>2. \A x \in Deployments : Made(x)' => Made(x) \/ x = n
      BY <3>1 DEF Made, Superseded, Active
    <3>3. \A x \in Deployments : Latest(x)' => x = n
      BY <3>1, <3>2, RenewalIsLatest DEF Made
    <3>4. \A x \in Deployments : Latest(x)' => stage'[x] = "pending"
      BY <3>1, <3>3
    <3>5. status' = "starting"
      BY <1>4, <2>2 DEF Cutover
    <3>. QED  BY <2>1, <3>4, <3>5, UnreadyMirrors
  <2>3. CASE ~Wanted
    BY <1>4, <2>1, <2>3, UnwantedMirrors DEF Cutover, Wanted
  <2>. QED  BY <2>2, <2>3
<1>5. CASE RetryDeployment
  <2>1. PICK e \in Deployments, n \in Deployments :
           /\ Latest(e) /\ stage[e] = "failed" /\ n = e + 1
           /\ stage' = [stage EXCEPT ![n] = "pending"]
    BY <1>5 DEF RetryDeployment
  <2>2. ~billed' /\ status' # "running"
    BY <1>5, <2>1 DEF RetryDeployment, AgentMirrorsDeployment, agent
  <2>3. \A x \in Deployments : Made(x)' => Made(x) \/ x = n
    BY <1>0, <2>1 DEF Made, RowType
  <2>4. \A x \in Deployments : Latest(x)' => x = n
    BY <1>0, <2>1, <2>3, RenewalIsLatest DEF Made, RowType
  <2>5. \A x \in Deployments : Latest(x)' => stage'[x] = "pending"
    BY <1>0, <2>1, <2>4 DEF RowType
  <2>. QED  BY <2>2, <2>5, UnreadyMirrors
<1>6. CASE RequestStop \/ RequestDelete
  BY <1>6, CancelMirrors DEF RequestStop, RequestDelete
<1>7. CASE CallForOwner
  BY <1>7, QuietMirrors DEF CallForOwner, row
<1>8. CASE SettleStop
  <2>1. CASE ~deleted /\ (status \in Stoppable \/ owner.cancelled)
    BY <1>8, <2>1, UnwantedMirrors DEF SettleStop, Wanted
  <2>2. CASE ~(~deleted /\ (status \in Stoppable \/ owner.cancelled))
    BY <1>8, <2>2, QuietMirrors DEF SettleStop, row, agent
  <2>. QED  BY <2>1, <2>2
<1>9. CASE SettleDelete
  BY <1>9, UnwantedMirrors DEF SettleDelete, Wanted
<1>10. CASE UNCHANGED vars \/ \E r \in Runners : GatewayUp(r)
  BY <1>10, QuietMirrors DEF vars, GatewayUp, row
<1>. QED  BY <1>1, <1>2, <1>3, <1>4, <1>5, <1>6, <1>7, <1>8, <1>9, <1>10
          DEF Next, OwnerStep, ReplacementStep

\* Between the transactions of workers, owner and replacement, a wanted agent runs and is
\* billed exactly when its latest deployment is ready, and no unwanted one is ever billed.
THEOREM AgentAgrees == Spec => []AgentMirrorsDeployment
<1>1. Init => AgentMirrorsDeployment
  BY DEF Init, AgentMirrorsDeployment, Latest
<1>2. IInv /\ AgentMirrorsDeployment /\ [Next]_vars => AgentMirrorsDeployment'
  BY MirrorsStep
<1>. QED  BY <1>1, <1>2, InitIInv, IInvStep, PTL DEF Spec

-----------------------------------------------------------------------------
(* The canary *)

\* A worker that marked the canary started and has not settled whether it was sent.
Sending(w) == pc[w] \in {"dispatching", "undispatched"}

\* While a worker may send the canary of a deployment, no other may, nothing was sent,
\* and the mark keeps later claims away; without the mark nothing was sent.
CanaryInv ==
    /\ \A w \in Workers : Sending(w) => dispatched[Job(w)] = 0 /\ canary[Job(w)] # "not_started"
    /\ \A v, w \in Workers : Sending(v) /\ Sending(w) /\ Job(v) = Job(w) => v = w
    /\ \A d \in Deployments : canary[d] = "not_started" => dispatched[d] = 0
    /\ CanaryOnce

\* No worker but v moves, and v does not start sending.
Steps(v) ==
    /\ \A u \in Workers \ {v} : pc'[u] = pc[u] /\ claim'[u] = claim[u]
    /\ Sending(v)' => Sending(v) /\ claim'[v] = claim[v]

\* No mark is taken off.
MarksStay == \A d \in Deployments : canary'[d] = "not_started" => canary[d] = "not_started"

\* Such a step keeps CanaryInv.
LEMMA CanaryKept ==
    ASSUME WorkerType, CanaryInv, NEW v \in Workers, Steps(v), MarksStay, UNCHANGED dispatched
    PROVE  CanaryInv'
<1>1. \A w \in Workers : Sending(w)' => Sending(w) /\ Job(w)' = Job(w)
  BY DEF Steps, Sending, Job
<1>2. \A w \in Workers : Job(w) \in Deployments
  BY DEF WorkerType, Claims, Job
<1>3. \A w \in Workers : Sending(w)' => dispatched'[Job(w)'] = 0 /\ canary'[Job(w)'] # "not_started"
  BY <1>1, <1>2 DEF CanaryInv, MarksStay
<1>4. \A u, w \in Workers : Sending(u)' /\ Sending(w)' /\ Job(u)' = Job(w)' => u = w
  BY <1>1 DEF CanaryInv
<1>5. \A d \in Deployments : canary'[d] = "not_started" => dispatched'[d] = 0
  BY DEF CanaryInv, MarksStay
<1>6. CanaryOnce'
  BY DEF CanaryInv, CanaryOnce
<1>. QED  BY <1>3, <1>4, <1>5, <1>6 DEF CanaryInv

\* A worker that finishes, or goes on to something else, does not start sending.
LEMMA GotoSteps ==
    ASSUME WorkerType, NEW v \in Workers, NEW label, Goto(v, label), UNCHANGED claim,
           label \notin {"dispatching", "undispatched"}
    PROVE  Steps(v)
  BY DEF WorkerType, Goto, Steps, Sending

\* A worker that finishes does not send.
LEMMA FinishSteps ==
    ASSUME WorkerType, NEW v \in Workers, Finish(v)
    PROVE  Steps(v)
  BY DEF WorkerType, Finish, Goto, Steps, Sending

\* Every step keeps CanaryInv.
LEMMA CanaryStep ==
    ASSUME TypeOK, CanaryInv, [Next]_vars
    PROVE  CanaryInv'
<1>. WorkerType /\ RowType /\ HostType
  BY DEF TypeOK
<1>0. \A w \in Workers : Job(w) \in Deployments
  BY DEF WorkerType, Claims, Job
<1>1. ASSUME NEW w \in Workers, WorkerStep(w)
      PROVE  CanaryInv'
  <2>1. CASE \/ Lost(w) \/ Persist(w) \/ Provisioned(w) \/ GatewayConfirmed(w) \/ Retry(w)
             \/ Fail(w) \/ RecoveryRefused(w) \/ Finalize(w)
             \/ \E r \in Runners : Place(w, r) \/ Provision(w, r)
    <3>1. Finish(w) /\ UNCHANGED <<canary, dispatched>>
      BY <2>1 DEF Lost, Persist, Provisioned, GatewayConfirmed, Retry, Fail, RecoveryRefused,
                  Finalize, FailRow, Place, Provision, Advance, row, host
    <3>. QED  BY <3>1, FinishSteps, CanaryKept DEF MarksStay
  <2>2. CASE SkipCanary(w) \/ PassCanary(w)
    <3>1. Finish(w) /\ UNCHANGED dispatched
      BY <2>2 DEF SkipCanary, PassCanary, Advance, host
    <3>2. MarksStay
      BY <2>2 DEF SkipCanary, PassCanary, MarksStay, RowType
    <3>. QED  BY <3>1, <3>2, FinishSteps, CanaryKept
  <2>3. CASE \/ NoCapacity(w) \/ CallRunner(w) \/ BadLaunchSpec(w) \/ StartAccepted(w)
             \/ StartReady(w) \/ StartUnusable(w) \/ NoTransport(w) \/ GatewayTimesOut(w)
             \/ StatusReady(w) \/ StatusWaiting(w)
    <3>1. \E label \in Labels \ {"dispatching", "undispatched"} : Goto(w, label) /\ UNCHANGED claim
      BY <2>3 DEF NoCapacity, CallRunner, BadLaunchSpec, StartAccepted, StartReady, StartUnusable,
                  NoTransport, GatewayTimesOut, StatusReady, StatusWaiting, Labels
    <3>2. UNCHANGED <<canary, dispatched>>
      BY <2>3 DEF NoCapacity, CallRunner, BadLaunchSpec, StartAccepted, StartReady, StartUnusable,
                  NoTransport, GatewayTimesOut, StatusReady, StatusWaiting, row, host
    <3>. QED  BY <3>1, <3>2, GotoSteps, CanaryKept DEF MarksStay
  <2>4. CASE \/ CanaryLeftOver(w) \/ CanaryUnfit(w) \/ Exhausted(w) \/ BeginCleanup(w)
             \/ Unrecoverable(w)
    <3>1. \E label \in Labels \ {"dispatching", "undispatched"} : Goto(w, label) /\ UNCHANGED claim
      BY <2>4 DEF CanaryLeftOver, LeftOver, CanaryUnfit, Exhausted, BeginCleanup, Unrecoverable,
                  Labels
    <3>2. UNCHANGED <<canary, dispatched>>
      BY <2>4 DEF CanaryLeftOver, CanaryUnfit, Exhausted, BeginCleanup, Unrecoverable, row, host
    <3>. QED  BY <3>1, <3>2, GotoSteps, CanaryKept DEF MarksStay
  <2>5. CASE CleanUp(w) \/ Recover(w)
    <3>1. Steps(w)
      BY <2>5, GotoSteps, FinishSteps DEF CleanUp, Recover
    <3>2. UNCHANGED <<canary, dispatched>>
      BY <2>5 DEF CleanUp, Recover, row, host
    <3>. QED  BY <3>1, <3>2, CanaryKept DEF MarksStay
  <2>6. CASE MarkCanary(w)
    <3>1. Goto(w, "cleaning") /\ UNCHANGED <<claim, dispatched>>
      BY <2>6 DEF MarkCanary, host
    <3>2. MarksStay
      BY <2>6 DEF MarkCanary, MarksStay, RowType
    <3>. QED  BY <3>1, <3>2, GotoSteps, CanaryKept
  <2>7. CASE NotDispatched(w)
    <3>1. Steps(w)
      BY <2>7 DEF NotDispatched, Goto, WorkerType, Steps, Sending
    <3>. QED  BY <2>7, <3>1, CanaryKept DEF NotDispatched, MarksStay, row, host
  <2>8. CASE MarkCanaryStarted(w)
    <3>1. /\ canary[Job(w)] = "not_started" /\ canary' = [canary EXCEPT ![Job(w)] = "started"]
          /\ pc' = [pc EXCEPT ![w] = "dispatching"] /\ UNCHANGED <<claim, dispatched>>
      BY <2>8 DEF MarkCanaryStarted, Goto, host
    <3>2. \A v \in Workers : Sending(v) => Job(v) # Job(w)
      BY <3>1 DEF CanaryInv
    <3>3. \A v \in Workers : Job(v)' = Job(v) /\ (Sending(v)' <=> v = w \/ Sending(v))
      BY <3>1 DEF Job, Sending, WorkerType
    <3>4. \A v \in Workers : Sending(v)' =>
             dispatched'[Job(v)'] = 0 /\ canary'[Job(v)'] # "not_started"
      BY <1>0, <3>1, <3>2, <3>3 DEF CanaryInv, RowType
    <3>5. \A u, v \in Workers : Sending(u)' /\ Sending(v)' /\ Job(u)' = Job(v)' => u = v
      BY <3>2, <3>3 DEF CanaryInv
    <3>6. \A d \in Deployments : canary'[d] = "not_started" => dispatched'[d] = 0
      BY <3>1 DEF CanaryInv, RowType
    <3>7. CanaryOnce'
      BY <3>1 DEF CanaryInv, CanaryOnce
    <3>. QED  BY <3>4, <3>5, <3>6, <3>7 DEF CanaryInv
  <2>9. CASE Dispatch(w)
    <3>1. /\ Sending(w) /\ UNCHANGED <<claim, canary>>
          /\ dispatched' = [dispatched EXCEPT ![Job(w)] = @ + 1]
      BY <2>9 DEF Dispatch, Sending, row
    <3>2. dispatched[Job(w)] = 0 /\ canary[Job(w)] # "not_started"
      BY <3>1 DEF CanaryInv
    <3>3. \A v \in Workers : Job(v)' = Job(v) /\ (Sending(v)' => v # w /\ Sending(v))
      BY <2>9, <3>1 DEF Dispatch, Goto, Job, Sending, WorkerType
    <3>4. \A v \in Workers : Sending(v)' => Job(v) # Job(w)
      BY <3>1, <3>3 DEF CanaryInv
    <3>5. \A d \in Deployments : dispatched'[d] = IF d = Job(w) THEN 1 ELSE dispatched[d]
      BY <3>1, <3>2 DEF HostType
    <3>6. \A v \in Workers : Sending(v)' =>
             dispatched'[Job(v)'] = 0 /\ canary'[Job(v)'] # "not_started"
      BY <1>0, <3>1, <3>3, <3>4, <3>5 DEF CanaryInv
    <3>7. \A u, v \in Workers : Sending(u)' /\ Sending(v)' /\ Job(u)' = Job(v)' => u = v
      BY <3>3 DEF CanaryInv
    <3>8. \A d \in Deployments : canary'[d] = "not_started" => dispatched'[d] = 0
      BY <3>1, <3>2, <3>5 DEF CanaryInv
    <3>9. CanaryOnce'
      BY <3>5 DEF CanaryInv, CanaryOnce
    <3>. QED  BY <3>6, <3>7, <3>8, <3>9 DEF CanaryInv
  <2>10. CASE ResetCanary(w)
    <3>1. Sending(w) /\ Goto(w, "retrying") /\ UNCHANGED <<claim, dispatched>>
      BY <2>10 DEF ResetCanary, Sending, host
    <3>2. \A d \in Deployments : canary'[d] = IF d = Job(w) /\ canary' # canary
                                             THEN "not_started" ELSE canary[d]
      BY <2>10 DEF ResetCanary, RowType
    <3>3. dispatched[Job(w)] = 0
      BY <3>1 DEF CanaryInv
    <3>4. \A v \in Workers : Job(v)' = Job(v) /\ (Sending(v)' => v # w /\ Sending(v))
      BY <3>1 DEF Goto, Job, Sending, WorkerType
    <3>5. \A v \in Workers : Sending(v)' => Job(v) # Job(w)
      BY <3>1, <3>4 DEF CanaryInv
    <3>6. \A v \in Workers : Sending(v)' =>
             dispatched'[Job(v)'] = 0 /\ canary'[Job(v)'] # "not_started"
      BY <1>0, <3>1, <3>2, <3>4, <3>5 DEF CanaryInv
    <3>7. \A u, v \in Workers : Sending(u)' /\ Sending(v)' /\ Job(u)' = Job(v)' => u = v
      BY <3>4 DEF CanaryInv
    <3>8. \A d \in Deployments : canary'[d] = "not_started" => dispatched'[d] = 0
      BY <3>1, <3>2, <3>3 DEF CanaryInv
    <3>9. CanaryOnce'
      BY <3>1 DEF CanaryInv, CanaryOnce
    <3>. QED  BY <3>6, <3>7, <3>8, <3>9 DEF CanaryInv
  <2>. QED  BY <1>1, <2>1, <2>2, <2>3, <2>4, <2>5, <2>6, <2>7, <2>8, <2>9, <2>10 DEF WorkerStep
<1>2. ASSUME NEW w \in Workers, NEW d \in Deployments, Claim(w, d)
      PROVE  CanaryInv'
  <2>1. Steps(w)
    BY <1>2 DEF Claim, Goto, WorkerType, Steps, Sending
  <2>. QED  BY <1>2, <2>1, CanaryKept DEF Claim, MarksStay, host
<1>3. ASSUME NEW w \in Workers, Crash(w) \/ Release(w)
      PROVE  CanaryInv'
  BY <1>3, FinishSteps, CanaryKept DEF Crash, Release, MarksStay, row, host
<1>4. CASE UNCHANGED <<pc, claim, canary, dispatched>>
  BY <1>4 DEF CanaryInv, Sending, Job, CanaryOnce
<1>5. ASSUME NEW d \in Deployments, LeaseExpires(d) \/ GatewayOverdue(d) \/ ReplacementStep(d)
      PROVE  CanaryInv'
  BY <1>4, <1>5 DEF LeaseExpires, GatewayOverdue, ReplacementStep, Cutover, ReplacementFails,
                    worker, host
<1>6. CASE OwnerStep
  BY <1>4, <1>6 DEF OwnerStep, RetryDeployment, RequestStop, RequestDelete, CallForOwner,
                    SettleStop, SettleDelete, row, worker, host
<1>7. CASE UNCHANGED vars \/ \E r \in Runners : GatewayUp(r)
  BY <1>4, <1>7 DEF vars, GatewayUp, row, worker, host
<1>. QED  BY <1>1, <1>2, <1>3, <1>5, <1>6, <1>7 DEF Next

\* The model is called at most once for a deployment, whatever leases expire, workers
\* die and answers are lost.
THEOREM CanaryAtMostOnce == Spec => []CanaryOnce
<1>1. Init => CanaryInv
  BY DEF Init, CanaryInv, Sending, CanaryOnce
<1>2. CanaryInv /\ TypeOK /\ [Next]_vars => CanaryInv'
  BY CanaryStep
<1>3. CanaryInv => CanaryOnce
  BY DEF CanaryInv
<1>. QED  BY <1>1, <1>2, <1>3, TypeCorrect, PTL DEF Spec

-----------------------------------------------------------------------------
(* What a ready deployment has been through *)

\* A worker that may finalize saw an operation, one that may pass the canary had it sent, and
\* a passed canary was sent.
Verified ==
    /\ \A w \in Workers :
          /\ pc[w] = "confirmed" => claim[w].op # 0
          /\ pc[w] = "passed" => dispatched[Job(w)] = 1
    /\ \A d \in Deployments : canary[d] = "passed" => dispatched[d] = 1
    /\ ReadyIsVerified

\* No row becomes ready or passed, and none that is ready is written.
RowsKept ==
    \A d \in Deployments :
        /\ stage'[d] = "ready" => stage[d] = "ready" /\ op'[d] = op[d] /\ canary'[d] = canary[d]
        /\ canary'[d] = "passed" => canary[d] = "passed"

\* No worker gets the answer it needs to finalize or to pass the canary.
AnswersKept ==
    \A w \in Workers :
        pc'[w] \in {"confirmed", "passed"} => pc'[w] = pc[w] /\ claim'[w] = claim[w]

\* Such a step keeps Verified.
LEMMA VerifiedKept ==
    ASSUME Verified, RowsKept, AnswersKept, UNCHANGED dispatched
    PROVE  Verified'
<1>1. \A w \in Workers : pc'[w] = "confirmed" => claim'[w].op # 0
  BY DEF Verified, AnswersKept
<1>2. \A w \in Workers : pc'[w] = "passed" => dispatched'[Job(w)'] = 1
  BY DEF Verified, AnswersKept, Job
<1>3. \A d \in Deployments : canary'[d] = "passed" => dispatched'[d] = 1
  BY DEF Verified, RowsKept
<1>4. ReadyIsVerified'
  BY DEF Verified, RowsKept, ReadyIsVerified
<1>. QED  BY <1>1, <1>2, <1>3, <1>4 DEF Verified

\* A worker that goes on without such an answer,
LEMMA GotoAnswers ==
    ASSUME WorkerType, NEW w \in Workers, NEW label, Goto(w, label), UNCHANGED claim,
           label \notin {"confirmed", "passed"}
    PROVE  AnswersKept
  BY DEF WorkerType, Goto, AnswersKept

\* and one that finishes.
LEMMA FinishAnswers ==
    ASSUME WorkerType, NEW w \in Workers, Finish(w)
    PROVE  AnswersKept
  BY DEF WorkerType, Finish, Goto, AnswersKept

\* A write to a row that does not make it ready, and leaves the other rows alone.
LEMMA OneRowKept ==
    ASSUME RowType, NEW d, NEW next, next # "ready", stage' = [stage EXCEPT ![d] = next],
           \A x \in Deployments : x # d => op'[x] = op[x] /\ canary'[x] = canary[x],
           canary'[d] = "passed" => canary[d] = "passed"
    PROVE  RowsKept
  BY DEF RowType, RowsKept

\* A step that writes no stage, operation or mark.
LEMMA QuietRowsKept ==
    ASSUME UNCHANGED <<stage, op, canary>>
    PROVE  RowsKept
  BY DEF RowsKept

\* A write of the mark alone, on a row that has no outcome yet.
LEMMA MarkKept ==
    ASSUME RowType, NEW d, NEW mark, mark # "passed", stage[d] # "ready",
           canary' = [canary EXCEPT ![d] = mark], UNCHANGED <<stage, op>>
    PROVE  RowsKept
  BY DEF RowType, RowsKept

\* Every step of a worker keeps Verified.
LEMMA WorkerVerified ==
    ASSUME IInv, CanaryInv, Verified, NEW w \in Workers, WorkerStep(w)
    PROVE  Verified'
<1>. TypeOK /\ WorkerType /\ RowType /\ HostType /\ LabelsFit /\ Job(w) \in Deployments
  BY DEF IInv, TypeOK, WorkerType, Claims, Job
<1>1. CASE Provisioned(w) \/ GatewayConfirmed(w) \/ \E r \in Runners : Place(w, r) \/ Provision(w, r)
  <2>1. \E next \in Stages \ {"ready"} : stage' = [stage EXCEPT ![Job(w)] = next]
    BY <1>1 DEF Provisioned, GatewayConfirmed, Place, Provision, Advance, Stages
  <2>2. Finish(w) /\ UNCHANGED <<op, canary, dispatched>>
    BY <1>1 DEF Provisioned, GatewayConfirmed, Place, Provision, Advance, host
  <2>. QED  BY <2>1, <2>2, OneRowKept, FinishAnswers, VerifiedKept
<1>2. CASE Persist(w)
  <2>1. stage' = [stage EXCEPT ![Job(w)] = "starting_gateway"] /\ Finish(w)
    BY <1>2 DEF Persist, Advance
  <2>2. UNCHANGED <<canary, dispatched>> /\ op' = [op EXCEPT ![Job(w)] = got[w]]
    BY <1>2 DEF Persist, Advance, host
  <2>3. \A x \in Deployments : x # Job(w) => op'[x] = op[x]
    BY <2>2 DEF RowType
  <2>. QED  BY <2>1, <2>2, <2>3, OneRowKept, FinishAnswers, VerifiedKept
<1>3. CASE SkipCanary(w)
  <2>1. stage' = [stage EXCEPT ![Job(w)] = "connecting_telegram"] /\ Finish(w)
    BY <1>3 DEF SkipCanary, Advance
  <2>2. UNCHANGED <<op, dispatched>> /\ canary' = [canary EXCEPT ![Job(w)] = "skipped"]
    BY <1>3 DEF SkipCanary, Advance, host
  <2>3. canary'[Job(w)] = "skipped" /\ \A x \in Deployments : x # Job(w) => canary'[x] = canary[x]
    BY <2>2 DEF RowType
  <2>. QED  BY <2>1, <2>2, <2>3, OneRowKept, FinishAnswers, VerifiedKept
<1>4. CASE Fail(w) \/ RecoveryRefused(w)
  <2>1. stage' = [stage EXCEPT ![Job(w)] = "failed"] /\ UNCHANGED <<op, canary>>
    BY <1>4 DEF Fail, RecoveryRefused, FailRow
  <2>2. Finish(w) /\ UNCHANGED dispatched
    BY <1>4 DEF Fail, RecoveryRefused, host
  <2>. QED  BY <2>1, <2>2, OneRowKept, FinishAnswers, VerifiedKept
<1>5. CASE \/ NoCapacity(w) \/ CallRunner(w) \/ BadLaunchSpec(w) \/ StartAccepted(w)
           \/ StartReady(w) \/ StartUnusable(w) \/ NoTransport(w) \/ GatewayTimesOut(w)
           \/ StatusWaiting(w) \/ CanaryLeftOver(w) \/ CanaryUnfit(w) \/ NotDispatched(w)
           \/ Exhausted(w) \/ BeginCleanup(w) \/ Unrecoverable(w)
  <2>1. \E label \in Labels \ {"confirmed", "passed"} : Goto(w, label) /\ UNCHANGED claim
    BY <1>5 DEF NoCapacity, CallRunner, BadLaunchSpec, StartAccepted, StartReady, StartUnusable,
                NoTransport, GatewayTimesOut, StatusWaiting, CanaryLeftOver, LeftOver, CanaryUnfit,
                NotDispatched, Exhausted, BeginCleanup, Unrecoverable, Labels
  <2>2. UNCHANGED <<stage, op, canary, dispatched>>
    BY <1>5 DEF NoCapacity, CallRunner, BadLaunchSpec, StartAccepted, StartReady, StartUnusable,
                NoTransport, GatewayTimesOut, StatusWaiting, CanaryLeftOver, CanaryUnfit,
                NotDispatched, Exhausted, BeginCleanup, Unrecoverable, row, host
  <2>. QED  BY <2>1, <2>2, GotoAnswers, QuietRowsKept, VerifiedKept
<1>6. CASE Lost(w) \/ Retry(w) \/ CleanUp(w) \/ Recover(w)
  <2>1. AnswersKept
    BY <1>6, FinishAnswers, GotoAnswers DEF Lost, Retry, CleanUp, Recover
  <2>2. UNCHANGED <<stage, op, canary, dispatched>>
    BY <1>6 DEF Lost, Retry, CleanUp, Recover, row, host
  <2>. QED  BY <2>1, <2>2, QuietRowsKept, VerifiedKept
<1>7. CASE StatusReady(w)
  <2>1. /\ claim[w].op # 0 /\ Goto(w, "confirmed")
        /\ UNCHANGED <<stage, op, canary, dispatched, claim>>
    BY <1>7 DEF StatusReady, ReadySnapshot, row, host
  <2>2. \A u \in Workers : /\ pc'[u] = "confirmed" => claim'[u].op # 0
                           /\ pc'[u] = "passed" => pc[u] = "passed"
    BY <2>1 DEF Goto, WorkerType, Verified
  <2>. QED  BY <2>1, <2>2 DEF Verified, Job, ReadyIsVerified
<1>8. CASE MarkCanaryStarted(w)
  <2>1. /\ canary[Job(w)] = "not_started" /\ canary' = [canary EXCEPT ![Job(w)] = "started"]
        /\ Goto(w, "dispatching") /\ UNCHANGED <<stage, op, claim, dispatched>>
    BY <1>8 DEF MarkCanaryStarted, host
  <2>2. stage[Job(w)] # "ready"
    BY <2>1 DEF Verified, ReadyIsVerified
  <2>. QED  BY <2>1, <2>2, MarkKept, GotoAnswers, VerifiedKept
<1>9. CASE MarkCanary(w)
  <2>1. Goto(w, "cleaning") /\ UNCHANGED <<stage, op, claim, dispatched>>
    BY <1>9 DEF MarkCanary, host
  <2>2. claim[w].stage = "verifying_model"
    BY <1>9 DEF MarkCanary, LabelsFit, CanaryLabels
  <2>3. RowsKept
    <3>1. CASE UNCHANGED canary
      BY <2>1, <3>1, QuietRowsKept
    <3>2. CASE Holds(w)
      <4>1. stage[Job(w)] # "ready"
        BY <2>2, <3>2 DEF Holds
      <4>2. \E mark \in {"failed", "outcome_unknown"} : canary' = [canary EXCEPT ![Job(w)] = mark]
        BY <1>9, <3>2 DEF MarkCanary
      <4>. QED  BY <2>1, <4>1, <4>2, MarkKept
    <3>. QED  BY <1>9, <3>1, <3>2 DEF MarkCanary
  <2>. QED  BY <2>1, <2>3, GotoAnswers, VerifiedKept
<1>10. CASE ResetCanary(w)
  <2>1. Goto(w, "retrying") /\ UNCHANGED <<stage, op, claim, dispatched>>
    BY <1>10 DEF ResetCanary, host
  <2>2. RowsKept
    <3>1. CASE UNCHANGED canary
      BY <2>1, <3>1, QuietRowsKept
    <3>2. CASE canary[Job(w)] = "started" /\ canary' = [canary EXCEPT ![Job(w)] = "not_started"]
      <4>1. stage[Job(w)] # "ready"
        BY <3>2 DEF Verified, ReadyIsVerified
      <4>. QED  BY <2>1, <3>2, <4>1, MarkKept
    <3>. QED  BY <1>10, <3>1, <3>2 DEF ResetCanary
  <2>. QED  BY <2>1, <2>2, GotoAnswers, VerifiedKept
<1>11. CASE PassCanary(w)
  <2>1. /\ stage' = [stage EXCEPT ![Job(w)] = "connecting_telegram"]
        /\ canary' = [canary EXCEPT ![Job(w)] = "passed"]
        /\ Finish(w) /\ UNCHANGED <<op, dispatched>>
    BY <1>11 DEF PassCanary, Advance, host
  <2>2. dispatched[Job(w)] = 1
    BY <1>11 DEF PassCanary, Verified
  <2>3. AnswersKept
    BY <2>1, FinishAnswers
  <2>4. \A u \in Workers : /\ pc'[u] = "confirmed" => claim'[u].op # 0
                           /\ pc'[u] = "passed" => dispatched'[Job(u)'] = 1
    BY <2>1, <2>3 DEF AnswersKept, Verified, Job
  <2>5. \A d \in Deployments : canary'[d] = "passed" => dispatched'[d] = 1
    BY <2>1, <2>2 DEF Verified, RowType
  <2>6. ReadyIsVerified'
    BY <2>1 DEF Verified, ReadyIsVerified, RowType
  <2>. QED  BY <2>4, <2>5, <2>6 DEF Verified
<1>12. CASE Dispatch(w)
  <2>1. /\ Sending(w) /\ UNCHANGED <<stage, op, canary, claim>>
        /\ dispatched' = [dispatched EXCEPT ![Job(w)] = @ + 1]
    BY <1>12 DEF Dispatch, Sending, row
  <2>2. dispatched[Job(w)] = 0
    BY <2>1 DEF CanaryInv
  <2>3. \A d \in Deployments : dispatched'[d] = IF d = Job(w) THEN 1 ELSE dispatched[d]
    BY <2>1, <2>2 DEF HostType
  <2>4. \A u \in Workers : Job(u) \in Deployments /\ Job(u)' = Job(u)
    BY <2>1 DEF Job, WorkerType, Claims
  <2>5. \A u \in Workers : pc'[u] = pc[u] \/ (u = w /\ pc'[u] # "confirmed")
    BY <1>12 DEF Dispatch, Goto, WorkerType
  <2>6. \A u \in Workers : pc'[u] = "confirmed" => claim'[u].op # 0
    BY <2>1, <2>5 DEF Verified
  <2>7. \A u \in Workers : pc'[u] = "passed" => dispatched'[Job(u)'] = 1
    BY <2>3, <2>4, <2>5 DEF Verified
  <2>8. \A d \in Deployments : canary'[d] = "passed" => dispatched'[d] = 1
    BY <2>1, <2>3 DEF Verified
  <2>9. ReadyIsVerified'
    BY <2>1, <2>3 DEF Verified, ReadyIsVerified
  <2>. QED  BY <2>6, <2>7, <2>8, <2>9 DEF Verified
<1>13. CASE Finalize(w)
  <2>1. /\ stage' = [stage EXCEPT ![Job(w)] = "ready"]
        /\ Finish(w) /\ UNCHANGED <<op, canary, dispatched>>
    BY <1>13 DEF Finalize, host
  <2>2. op[Job(w)] # 0 /\ canary[Job(w)] \in {"passed", "skipped"}
    BY <1>13 DEF Finalize, Verified
  <2>3. AnswersKept
    BY <2>1, FinishAnswers
  <2>4. \A u \in Workers : /\ pc'[u] = "confirmed" => claim'[u].op # 0
                           /\ pc'[u] = "passed" => dispatched'[Job(u)'] = 1
    BY <2>1, <2>3 DEF AnswersKept, Verified, Job
  <2>5. \A d \in Deployments : canary'[d] = "passed" => dispatched'[d] = 1
    BY <2>1 DEF Verified
  <2>6. \A d \in Deployments : stage'[d] = "ready" => d = Job(w) \/ stage[d] = "ready"
    BY <2>1 DEF RowType
  <2>7. ReadyIsVerified'
    BY <2>1, <2>2, <2>6 DEF Verified, ReadyIsVerified
  <2>. QED  BY <2>4, <2>5, <2>7 DEF Verified
<1>. QED  BY <1>1, <1>2, <1>3, <1>4, <1>5, <1>6, <1>7, <1>8, <1>9, <1>10, <1>11, <1>12, <1>13
          DEF WorkerStep

\* So does every step.
LEMMA VerifiedStep ==
    ASSUME IInv, CanaryInv, Verified, [Next]_vars
    PROVE  Verified'
<1>. TypeOK /\ WorkerType /\ RowType
  BY DEF IInv, TypeOK
<1>1. ASSUME NEW w \in Workers, WorkerStep(w)
      PROVE  Verified'
  BY <1>1, WorkerVerified
<1>2. ASSUME NEW w \in Workers, NEW d \in Deployments, Claim(w, d)
      PROVE  Verified'
  <2>1. AnswersKept
    BY <1>2 DEF Claim, Goto, WorkerType, AnswersKept
  <2>. QED  BY <1>2, <2>1, QuietRowsKept, VerifiedKept DEF Claim, host
<1>3. ASSUME NEW w \in Workers, Crash(w) \/ Release(w)
      PROVE  Verified'
  BY <1>3, FinishAnswers, QuietRowsKept, VerifiedKept DEF Crash, Release, row, host
<1>4. ASSUME RowsKept, UNCHANGED <<pc, claim, dispatched>>
      PROVE  Verified'
  BY <1>4, VerifiedKept DEF AnswersKept
<1>5. ASSUME NEW d \in Deployments, LeaseExpires(d) \/ GatewayOverdue(d) \/ ReplacementFails(d)
      PROVE  Verified'
  BY <1>4, <1>5, QuietRowsKept DEF LeaseExpires, GatewayOverdue, ReplacementFails, worker, host
<1>6. ASSUME NEW d \in Deployments, NEW r \in Runners, Cutover(d, r)
      PROVE  Verified'
  <2>1. \A x \in Deployments : stage'[x] = "ready" => stage[x] = "ready"
    BY <1>6 DEF Cutover, Superseded
  <2>2. RowsKept
    BY <1>6, <2>1 DEF Cutover, RowsKept
  <2>. QED  BY <1>4, <1>6, <2>2 DEF Cutover, worker, host
<1>7. CASE RetryDeployment
  <2>1. \A x \in Deployments : stage'[x] = "ready" => stage[x] = "ready"
    BY <1>7 DEF RetryDeployment, RowType
  <2>2. RowsKept
    BY <1>7, <2>1 DEF RetryDeployment, RowsKept
  <2>. QED  BY <1>4, <1>7, <2>2 DEF RetryDeployment, worker, host
<1>8. CASE RequestStop \/ RequestDelete
  <2>1. \A x \in Deployments : stage'[x] = "ready" => stage[x] = "ready"
    BY <1>8 DEF RequestStop, RequestDelete, CancelActive, Superseded
  <2>2. RowsKept
    BY <1>8, <2>1 DEF RequestStop, RequestDelete, RowsKept
  <2>. QED  BY <1>4, <1>8, <2>2 DEF RequestStop, RequestDelete, worker, host
<1>9. CASE CallForOwner \/ SettleStop \/ SettleDelete
  BY <1>4, <1>9, QuietRowsKept DEF CallForOwner, SettleStop, SettleDelete, row, worker, host
<1>10. CASE UNCHANGED vars \/ \E r \in Runners : GatewayUp(r)
  BY <1>4, <1>10, QuietRowsKept DEF vars, GatewayUp, row, worker, host
<1>. QED  BY <1>1, <1>2, <1>3, <1>5, <1>6, <1>7, <1>8, <1>9, <1>10
          DEF Next, OwnerStep, ReplacementStep

\* A deployment that is ready names an operation a runner accepted, and its model was called
\* once unless the rollout skips the canary: no late worker makes it ready without that.
THEOREM ReadyMeansVerified == Spec => []ReadyIsVerified
<1>1. Init => CanaryInv /\ Verified
  BY DEF Init, CanaryInv, Sending, CanaryOnce, Verified, ReadyIsVerified
<1>2. IInv /\ CanaryInv /\ [Next]_vars => CanaryInv'
  BY CanaryStep DEF IInv
<1>3. IInv /\ CanaryInv /\ Verified /\ [Next]_vars => Verified'
  BY VerifiedStep
<1>4. Verified => ReadyIsVerified
  BY DEF Verified
<1>. QED  BY <1>1, <1>2, <1>3, <1>4, InitIInv, IInvStep, PTL DEF Spec
=============================================================================
