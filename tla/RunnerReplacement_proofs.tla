----------------------- MODULE RunnerReplacement_proofs -----------------------
(***************************************************************************)
(* What holds of replacements for any number of workers, agents, runners,  *)
(* faults and sweeps: types, one droplet for each target, the fence of the *)
(* handover, which droplets are never deleted, and that the detailed steps *)
(* implement Relocation.                                                   *)
(***************************************************************************)
EXTENDS RunnerReplacement, TLAPS

-----------------------------------------------------------------------------
(* Type correctness *)

\* A group of variables a step leaves alone keeps its types.
LEMMA QuietTypes ==
    /\ RowType /\ UNCHANGED replacement => RowType'
    /\ RunnerType /\ UNCHANGED runner => RunnerType'
    /\ WorkType /\ UNCHANGED work => WorkType'
    /\ CloudType /\ UNCHANGED cloud => CloudType'
    /\ AgentType /\ UNCHANGED agents => AgentType'
    /\ SweepType /\ UNCHANGED sweeper => SweepType'
    /\ UsedType /\ UNCHANGED used => UsedType'
  BY DEF RowType, RunnerType, WorkType, CloudType, AgentType, SweepType, UsedType, cloud, agents,
         sweeper

Labels == {"claimed", "draining", "announcing", "creating", "requested", "recording", "refreshing",
           "validated", "stopping", "retiring", "retired", "doomed", "discarded"}

\* Targets are runners.
LEMMA TargetRunner == \A i \in Replacements : i \in Runners /\ i # 0
  BY ReplacementAssumption DEF Replacements, Runners

\* A worker that goes on to another label keeps its types.
LEMMA GotoType ==
    ASSUME RowType, WorkType, NEW w \in Workers, work[w].pc # "idle", NEW label \in Labels, Goto(w, label)
    PROVE  RowType' /\ WorkType'
  BY QuietTypes DEF WorkType, Goto, Labels, Jobs

\* The idle job.
LEMMA IdleJob == Idle \in Jobs
  BY DEF Idle, Jobs, States

\* So does one that finishes.
LEMMA FinishType ==
    ASSUME WorkType, NEW w \in Workers, work' = [work EXCEPT ![w] = Idle]
    PROVE  WorkType'
<1>1. work' \in [Workers -> Jobs]
  BY IdleJob DEF WorkType
<1>2. \A v \in Workers : work'[v].pc # "idle" => work'[v].id \in Replacements
  BY DEF WorkType, Idle
<1>. QED  BY <1>1, <1>2 DEF WorkType

\* And a row it moves.
LEMMA MovedType ==
    ASSUME RowType, NEW w \in Workers, work[w].id \in Replacements,
           NEW state \in States \cup {"complete", "failed"}
    PROVE  Moved(w, state) \in [Replacements -> Rows]
<1>1. replacement[work[w].id] \in Rows
  BY DEF RowType
<1>2. [replacement[work[w].id] EXCEPT !.state = state, !.owner = NoWorker] \in Rows
  BY <1>1 DEF Rows
<1>. QED  BY <1>2 DEF Moved, RowType

\* A transition, applied or not.
LEMMA ApplyType ==
    ASSUME RowType, WorkType, NEW w \in Workers, work[w].pc # "idle",
           NEW state \in States \cup {"complete", "failed"}, Apply(w, state)
    PROVE  RowType' /\ WorkType'
<1>1. work[w].id \in Replacements
  BY DEF WorkType
<1>2. RowType'
  BY <1>1, MovedType DEF Apply, RowType
<1>. QED  BY <1>2, FinishType DEF Apply

\* The transitions by their names.
LEMMA OutcomeType ==
    ASSUME RowType, WorkType, NEW w \in Workers, work[w].pc # "idle",
           Retry(w) \/ FailClaim(w) \/ RetryOrFail(w)
    PROVE  RowType' /\ WorkType'
<1>1. State(w) \in States
  BY DEF WorkType, Jobs, State
<1>. QED  BY <1>1, ApplyType DEF Retry, FailClaim, RetryOrFail

\* Every row a runner's row is changed to is one.
LEMMA RunnerRowType ==
    ASSUME RunnerType, NEW r \in Runners
    PROVE  /\ runner[r] \in RunnerRows
           /\ \A row \in RunnerRows : /\ [runner EXCEPT ![r] = row] \in [Runners -> RunnerRows]
                                      /\ Write(r, row) \in [Runners -> RunnerRows]
           /\ MarkFailed(r) => RunnerType'
           /\ Tombstone(r) \in [Runners -> RunnerRows]
           /\ Revoked(r) \in [Runners -> RunnerRows]
<1>1. runner[r] \in RunnerRows
  BY DEF RunnerType
<1>2. \A row \in RunnerRows : /\ [runner EXCEPT ![r] = row] \in [Runners -> RunnerRows]
                              /\ Write(r, row) \in [Runners -> RunnerRows]
  BY DEF RunnerType, Write
<1>3. [runner[r] EXCEPT !.prov = "failed", !.status = "failed"] \in RunnerRows
  BY <1>1 DEF RunnerRows
<1>4. [runner[r] EXCEPT !.prov = "deleted", !.credential = "revoked"] \in RunnerRows
  BY <1>1 DEF RunnerRows
<1>5. [runner[r] EXCEPT !.credential = "revoked"] \in RunnerRows
  BY <1>1 DEF RunnerRows
<1>6. Revoked(r) \in [Runners -> RunnerRows]
  BY <1>1, <1>5 DEF Revoked, RunnerType
<1>. QED  BY <1>1, <1>2, <1>3, <1>4, <1>6 DEF MarkFailed, Tombstone, RunnerType

\* The bounded counters.
LEMMA FaultType == UsedType /\ Fault => UsedType'
  BY DEF UsedType, Fault

\* Every step of a claimed replacement keeps every type.
LEMMA StepType ==
    ASSUME TypeOK, NEW w \in Workers, Step(w)
    PROVE  TypeOK'
<1>. USE DEF TypeOK
<1>1. work[w].pc # "idle"
  BY DEF Step, InitializeTarget, StartProvisioning, Discover, Announce, Create, CreateAnswered, Record,
         Equip, Refresh, Validate, AcceptTarget, Discard, Discarded, Degrade, Revoke, Reassign, Converge,
         Inspect, Retire, Retired, Claimed
<1>2. /\ work[w].id \in Replacements /\ Target(w) \in Runners /\ Target(w) = work[w].id
      /\ Source(w) \in Runners
  BY <1>1, TargetRunner DEF WorkType, RowType, Rows, Target, Source
<1>3. runner[Target(w)] \in RunnerRows /\ runner[Source(w)] \in RunnerRows
  BY <1>2, RunnerRowType
<1>4. CASE InitializeTarget(w)
  <2>1. RowType' /\ WorkType'
    BY <1>1, <1>4, ApplyType, OutcomeType DEF InitializeTarget, States
  <2>2. [runner[Target(w)] EXCEPT !.prov = "pending"] \in RunnerRows
    BY <1>3 DEF RunnerRows
  <2>3. RunnerType'
    BY <1>2, <1>4, <2>2, RunnerRowType, QuietTypes DEF InitializeTarget, RunnerType
  <2>. QED  BY <1>4, <2>1, <2>3, QuietTypes DEF InitializeTarget
<1>5. CASE StartProvisioning(w)
  <2>1. [replacement[work[w].id] EXCEPT !.reserved = TRUE] \in Rows
    BY <1>2 DEF RowType, Rows
  <2>2. [replacement EXCEPT ![work[w].id].reserved = TRUE] \in [Replacements -> Rows]
    BY <1>2, <2>1 DEF RowType
  <2>3. [work EXCEPT ![w].pc = "draining"] \in [Workers -> Jobs]
    BY DEF WorkType, Jobs
  <2>4. Moved(w, "failed") \in [Replacements -> Rows]
    BY <1>2, MovedType
  <2>5. \A label \in {"doomed", "draining"} : Goto(w, label) => RowType' /\ WorkType'
    BY <1>1, GotoType DEF Labels
  <2>6. ASSUME FailClaim(w) PROVE RowType' /\ WorkType'
    BY <1>1, <2>6, OutcomeType
  <2>7. ASSUME work' = [work EXCEPT ![w].pc = "draining"] PROVE WorkType'
    BY <1>2, <2>3, <2>7 DEF WorkType
  <2>8. RowType'
    BY <1>5, <2>2, <2>4, <2>5, <2>6, QuietTypes DEF StartProvisioning, RowType
  <2>9. WorkType'
    BY <1>5, <2>5, <2>6, <2>7, FinishType DEF StartProvisioning
  <2>. QED  BY <1>5, <2>8, <2>9, QuietTypes DEF StartProvisioning
<1>6. ASSUME Unobserved(w) PROVE RowType' /\ WorkType' /\ RunnerType'
  BY <1>1, <1>2, <1>6, GotoType, RunnerRowType, QuietTypes DEF Unobserved, Labels
<1>7. CASE Discover(w)
  <2>1. RowType' /\ WorkType' /\ RunnerType'
    BY <1>1, <1>6, <1>7, GotoType, QuietTypes DEF Discover, Labels
  <2>2. UsedType'
    BY <1>7, FaultType, QuietTypes DEF Discover
  <2>. QED  BY <1>7, <2>1, <2>2, QuietTypes DEF Discover
<1>8. CASE Announce(w)
  <2>1. [runner[Target(w)] EXCEPT !.prov = "creating",
           !.credential = IF @ = "none" THEN "pending" ELSE @] \in RunnerRows
    BY <1>3 DEF RunnerRows
  <2>2. RunnerType'
    BY <1>2, <1>8, <2>1, RunnerRowType DEF Announce, RunnerType
  <2>. QED  BY <1>1, <1>8, <2>2, GotoType, QuietTypes DEF Announce, Labels
<1>9. CASE Create(w)
  <2>1. CloudType'
    BY <1>2, <1>9 DEF Create, CloudType, cloud
  <2>. QED  BY <1>1, <1>9, <2>1, GotoType, QuietTypes DEF Create, Labels
<1>10. CASE CreateAnswered(w)
  <2>1. RowType' /\ WorkType' /\ RunnerType'
    BY <1>1, <1>2, <1>10, GotoType, RunnerRowType, QuietTypes DEF CreateAnswered, Labels
  <2>2. CloudType'
    BY <1>2, <1>10 DEF CreateAnswered, CloudType
  <2>3. UsedType'
    BY <1>10, FaultType, QuietTypes DEF CreateAnswered
  <2>. QED  BY <1>10, <2>1, <2>2, <2>3, QuietTypes DEF CreateAnswered
<1>11. CASE Record(w)
  <2>1. [runner[Target(w)] EXCEPT !.prov = "tagging", !.resource = TRUE,
           !.firewall = droplet[Target(w)] = "walled"] \in RunnerRows
    BY <1>3 DEF RunnerRows
  <2>2. RunnerType'
    BY <1>2, <1>11, <2>1, RunnerRowType DEF Record, RunnerType
  <2>. QED  BY <1>1, <1>11, <2>2, GotoType, QuietTypes DEF Record, Labels
<1>12. CASE Equip(w)
  <2>1. /\ [runner[Target(w)] EXCEPT !.prov = "firewall"] \in RunnerRows
        /\ [runner[Target(w)] EXCEPT !.prov = "waiting", !.status = "new", !.firewall = TRUE]
              \in RunnerRows
    BY <1>3 DEF RunnerRows
  <2>2. RowType' /\ WorkType'
    BY <1>1, <1>6, <1>12, GotoType DEF Equip, Labels
  <2>3. RunnerType'
    BY <1>2, <1>6, <1>12, <2>1, RunnerRowType, QuietTypes DEF Equip, RunnerType
  <2>4. CloudType'
    BY <1>2, <1>12 DEF Equip, CloudType
  <2>5. UsedType'
    BY <1>12, FaultType, QuietTypes DEF Equip
  <2>. QED  BY <1>12, <2>2, <2>3, <2>4, <2>5, QuietTypes DEF Equip
<1>13. CASE Refresh(w)
  <2>1. RowType' /\ WorkType'
    BY <1>1, <1>13, GotoType, ApplyType, OutcomeType DEF Refresh, Labels, States
  <2>. QED  BY <1>13, <2>1, QuietTypes DEF Refresh
<1>14. CASE Validate(w)
  <2>1. /\ [runner[Target(w)] EXCEPT !.prov = "ready"] \in RunnerRows
        /\ [runner[Target(w)] EXCEPT !.prov = "failed", !.status = "failed"] \in RunnerRows
    BY <1>3 DEF RunnerRows
  <2>2. RowType' /\ WorkType'
    BY <1>1, <1>14, GotoType, OutcomeType DEF Validate, Labels
  <2>3. RunnerType'
    BY <1>2, <1>14, <2>1, RunnerRowType, QuietTypes DEF Validate, RunnerType
  <2>. QED  BY <1>14, <2>2, <2>3, QuietTypes DEF Validate
<1>15. CASE AcceptTarget(w)
  <2>1. RowType' /\ WorkType'
    BY <1>1, <1>15, GotoType, ApplyType DEF AcceptTarget, Labels, States
  <2>. QED  BY <1>15, <2>1, QuietTypes DEF AcceptTarget
<1>16. CASE Discard(w)
  <2>1. RowType' /\ WorkType'
    BY <1>1, <1>16, GotoType, OutcomeType DEF Discard, Labels
  <2>2. CloudType'
    BY <1>2, <1>16 DEF Discard, CloudType
  <2>3. UsedType'
    BY <1>16, FaultType, QuietTypes DEF Discard
  <2>. QED  BY <1>16, <2>1, <2>2, <2>3, QuietTypes DEF Discard
<1>17. CASE Discarded(w)
  <2>1. RowType' /\ WorkType'
    BY <1>1, <1>17, OutcomeType DEF Discarded
  <2>2. RunnerType'
    BY <1>2, <1>17, RunnerRowType, QuietTypes DEF Discarded, RunnerType
  <2>. QED  BY <1>17, <2>1, <2>2, QuietTypes DEF Discarded
<1>18. CASE Degrade(w)
  <2>1. [runner[Source(w)] EXCEPT !.status = "degraded"] \in RunnerRows
    BY <1>3 DEF RunnerRows
  <2>2. RowType' /\ WorkType'
    BY <1>1, <1>18, GotoType, OutcomeType DEF Degrade, Labels
  <2>3. RunnerType'
    BY <1>2, <1>18, <2>1, RunnerRowType, QuietTypes DEF Degrade, RunnerType
  <2>. QED  BY <1>18, <2>2, <2>3, QuietTypes DEF Degrade
<1>19. CASE Revoke(w)
  <2>1. RowType' /\ WorkType'
    BY <1>1, <1>19, ApplyType DEF Revoke, States
  <2>2. RunnerType'
    BY <1>2, <1>19, RunnerRowType, QuietTypes DEF Revoke, RunnerType
  <2>. QED  BY <1>19, <2>1, <2>2, QuietTypes DEF Revoke
<1>20. CASE Reassign(w)
  <2>1. Assigned(Source(w)) \in SUBSET Agents
    BY DEF Assigned
  <2>2. Moved(w, "converging") \in [Replacements -> Rows]
    BY <1>2, MovedType DEF States
  <2>3. [Moved(w, "converging") EXCEPT ![work[w].id].moved = Assigned(Source(w))] \in [Replacements -> Rows]
    BY <1>2, <2>1, <2>2 DEF Rows
  <2>4. RowType' /\ WorkType'
    BY <1>1, <1>20, <2>3, FinishType, OutcomeType DEF Reassign, RowType
  <2>5. AgentType'
    BY <1>2, <1>20 DEF Reassign, AgentType
  <2>. QED  BY <1>20, <2>4, <2>5, QuietTypes DEF Reassign
<1>21. CASE Converge(w)
  <2>1. RowType' /\ WorkType'
    BY <1>1, <1>21, ApplyType, OutcomeType DEF Converge, States
  <2>. QED  BY <1>21, <2>1, QuietTypes DEF Converge
<1>22. CASE Inspect(w)
  <2>1. RowType' /\ WorkType'
    BY <1>1, <1>22, GotoType, OutcomeType DEF Inspect, Labels
  <2>. QED  BY <1>22, <2>1, QuietTypes DEF Inspect
<1>23. CASE Retire(w)
  <2>1. RowType' /\ WorkType'
    BY <1>1, <1>23, GotoType, OutcomeType DEF Retire, Labels
  <2>2. CloudType'
    BY <1>2, <1>23 DEF Retire, CloudType
  <2>3. UsedType'
    BY <1>23, FaultType, QuietTypes DEF Retire
  <2>. QED  BY <1>23, <2>1, <2>2, <2>3, QuietTypes DEF Retire
<1>24. CASE Retired(w)
  <2>1. RowType' /\ WorkType'
    BY <1>1, <1>24, ApplyType DEF Retired
  <2>2. RunnerType'
    BY <1>2, <1>24, RunnerRowType, QuietTypes DEF Retired, RunnerType
  <2>3. AgentType'
    BY <1>24 DEF Retired, AgentType
  <2>. QED  BY <1>24, <2>1, <2>2, <2>3, QuietTypes DEF Retired
<1>. QED  BY <1>4, <1>5, <1>7, <1>8, <1>9, <1>10, <1>11, <1>12, <1>13, <1>14, <1>15, <1>16, <1>17,
             <1>18, <1>19, <1>20, <1>21, <1>22, <1>23, <1>24 DEF Step

\* So does a claim, its end in any way, and an opening.
LEMMA ClaimType ==
    ASSUME TypeOK, NEW w \in Workers, NEW i \in Replacements, Claim(w, i)
    PROVE  TypeOK'
<1>. USE DEF TypeOK
<1>1. Counted(replacement[i].attempts) \in 0..MaxAttempts
  BY ReplacementAssumption DEF RowType, Rows, Counted
<1>. DEFINE count == Counted(replacement[i].attempts)
<1>3. RowType'
  <2>1. replacement' = [replacement EXCEPT ![i].owner = w, ![i].attempts = count]
    BY Zenon DEF Claim
  <2>2. count \in 0..MaxAttempts
    BY <1>1
  <2>. HIDE DEF count
  <2>3. [replacement[i] EXCEPT !.owner = w, !.attempts = count] \in Rows
    BY <2>2 DEF RowType, Rows
  <2>. QED  BY <2>1, <2>3 DEF RowType
<1>4. [pc |-> "claimed", id |-> i, state |-> replacement[i].state,
       last |-> Counted(replacement[i].attempts) = MaxAttempts, aborted |-> FALSE] \in Jobs
  BY DEF Claim, Open, Jobs
<1>5. WorkType'
  BY <1>4 DEF WorkType, Claim
<1>. QED  BY <1>3, <1>5, QuietTypes DEF Claim

LEMMA WorkerFaultType ==
    ASSUME TypeOK, NEW w \in Workers, Abort(w) \/ Die(w) \/ ConfigFails(w)
    PROVE  TypeOK'
<1>. USE DEF TypeOK
<1>1. CASE Abort(w)
  <2>1. work' \in [Workers -> Jobs]
    BY <1>1 DEF Abort, WorkType, Jobs
  <2>2. WorkType'
    BY <1>1, <2>1 DEF Abort, WorkType
  <2>. QED  BY <1>1, <2>2, FaultType, QuietTypes DEF Abort
<1>2. CASE Die(w)
  BY <1>2, FinishType, FaultType, QuietTypes DEF Die
<1>3. CASE ConfigFails(w)
  BY <1>3, OutcomeType, FaultType, QuietTypes DEF ConfigFails
<1>. QED  BY <1>1, <1>2, <1>3

LEMMA OpenedType ==
    ASSUME RowType, NEW i \in Replacements, NEW s \in Runners, NEW reason \in Reasons, Opened(i, s, reason)
    PROVE  RowType'
<1>1. [replacement[i] EXCEPT !.state = "pending", !.source = s, !.reason = reason] \in Rows
  BY DEF RowType, Rows, States
<1>. QED  BY <1>1 DEF Opened, RowType

\* And what sweeps, runners, agents and the provider do.
LEMMA SweepStepType ==
    ASSUME TypeOK, Sweep
    PROVE  TypeOK'
<1>. USE DEF TypeOK
<1>0. NoSweep \in [on : BOOLEAN, list : SUBSET Runners, walled : SUBSET Runners]
  BY DEF NoSweep
<1>1. CASE TakeInventory
  <2>1. SweepType' /\ UsedType'
    BY <1>1 DEF TakeInventory, SweepType, UsedType
  <2>. QED  BY <1>1, <2>1, QuietTypes DEF TakeInventory
<1>2. CASE SweepEnds
  <2>1. SweepType'
    BY <1>0, <1>2 DEF SweepEnds, SweepType
  <2>. QED  BY <1>2, <2>1, QuietTypes DEF SweepEnds
<1>3. ASSUME NEW a \in Agents, ClearStaleAssignment(a) PROVE TypeOK'
  <2>1. SweepType' /\ AgentType'
    BY <1>0, <1>3 DEF ClearStaleAssignment, SweepType, AgentType
  <2>. QED  BY <1>3, <2>1, QuietTypes DEF ClearStaleAssignment
<1>4. ASSUME NEW r \in Runners, SweepReplaces(r) PROVE TypeOK'
  <2>0. runner[r] \in RunnerRows
    BY RunnerRowType
  <2>1. [runner[r] EXCEPT !.status = "degraded"] \in RunnerRows
    BY <2>0 DEF RunnerRows
  <2>2. RunnerType' /\ SweepType'
    BY <1>0, <1>4, <2>1, RunnerRowType DEF SweepReplaces, RunnerType, SweepType
  <2>3. (IF Missing(r) THEN "missing" ELSE Health(r)) \in Reasons
    BY <1>4 DEF SweepReplaces, Unhealthy, Health, Reasons
  <2>4. RowType'
    BY <1>4, <2>3, OpenedType, QuietTypes DEF SweepReplaces
  <2>. QED  BY <1>4, <2>2, <2>4, QuietTypes DEF SweepReplaces
<1>5. ASSUME NEW r \in Runners, SweepTombstones(r) PROVE TypeOK'
  <2>1. RunnerType' /\ SweepType'
    BY <1>0, <1>5, RunnerRowType DEF SweepTombstones, RunnerType, SweepType
  <2>. QED  BY <1>5, <2>1, QuietTypes DEF SweepTombstones
<1>6. ASSUME NEW r \in Runners, SweepAdopts(r) PROVE TypeOK'
  <2>. DEFINE walled == r \in sweep.walled
  <2>0. runner[r] \in RunnerRows /\ walled \in BOOLEAN
    BY RunnerRowType
  <2>1. [runner[r] EXCEPT !.resource = TRUE, !.firewall = walled, !.status = "new",
           !.prov = IF walled THEN "waiting" ELSE "tagging"] \in RunnerRows
    <3>. HIDE DEF walled
    <3>. QED  BY <2>0 DEF RunnerRows
  <2>2. RunnerType' /\ SweepType'
    BY <1>0, <1>6, <2>1, RunnerRowType DEF SweepAdopts, RunnerType, SweepType
  <2>. QED  BY <1>6, <2>2, QuietTypes DEF SweepAdopts
<1>7. ASSUME NEW r \in Runners, SweepOrphan(r) PROVE TypeOK'
  <2>1. CloudType' /\ SweepType'
    BY <1>0, <1>7 DEF SweepOrphan, CloudType, SweepType
  <2>. QED  BY <1>7, <2>1, QuietTypes DEF SweepOrphan
<1>. QED  BY <1>1, <1>2, <1>3, <1>4, <1>5, <1>6, <1>7 DEF Sweep

LEMMA EnvironmentType ==
    ASSUME TypeOK, Environment
    PROVE  TypeOK'
<1>. USE DEF TypeOK
<1>1. ASSUME NEW r \in Runners, DropletAppears(r) \/ DropletVanishes(r) PROVE TypeOK'
  <2>1. CloudType'
    BY <1>1 DEF DropletAppears, DropletVanishes, CloudType
  <2>2. UsedType'
    BY <1>1, FaultType, QuietTypes DEF DropletAppears, DropletVanishes
  <2>. QED  BY <1>1, <2>1, <2>2, QuietTypes DEF DropletAppears, DropletVanishes
<1>2. ASSUME NEW r \in Runners, Register(r) \/ Heartbeat(r) \/ GoesStale(r) PROVE TypeOK'
  <2>0. runner[r] \in RunnerRows
    BY RunnerRowType
  <2>1. /\ [runner[r] EXCEPT !.credential = "active"] \in RunnerRows
        /\ [runner[r] EXCEPT !.status = "online"] \in RunnerRows
        /\ [runner[r] EXCEPT !.status = "offline"] \in RunnerRows
    BY <2>0 DEF RunnerRows
  <2>2. RunnerType'
    BY <1>2, <2>1, RunnerRowType DEF Register, Heartbeat, GoesStale, RunnerType
  <2>3. UsedType'
    BY <1>2, FaultType, QuietTypes DEF Register, Heartbeat, GoesStale
  <2>. QED  BY <1>2, <2>2, <2>3, QuietTypes DEF Register, Heartbeat, GoesStale
<1>3. ASSUME NEW a \in Agents, Settle(a) \/ OwnerStops(a) \/ \E r \in Runners : Place(a, r)
      PROVE  TypeOK'
  <2>1. AgentType'
    BY <1>3 DEF Settle, OwnerStops, Place, AgentType
  <2>. QED  BY <1>3, <2>1, QuietTypes DEF Settle, OwnerStops, Place
<1>. QED  BY <1>1, <1>2, <1>3 DEF Environment

LEMMA NextType == TypeOK /\ [Next]_vars => TypeOK'
<1>. SUFFICES ASSUME TypeOK, [Next]_vars PROVE TypeOK'
  OBVIOUS
<1>1. CASE UNCHANGED vars
  BY <1>1, QuietTypes DEF vars, TypeOK
<1>2. ASSUME NEW i \in Replacements, NEW s \in Runners, OpenForDeployment(i, s) PROVE TypeOK'
  BY <1>2, OpenedType, QuietTypes DEF OpenForDeployment, Reasons, TypeOK
<1>. QED  BY <1>1, <1>2, StepType, ClaimType, WorkerFaultType, SweepStepType, EnvironmentType DEF Next

LEMMA InitType == Init => TypeOK
<1>. SUFFICES ASSUME Init PROVE TypeOK
  OBVIOUS
<1>1. RowType
  BY ReplacementAssumption DEF Init, RowType, Rows, Runners, Reasons
<1>2. RunnerType
  BY DEF Init, RunnerType, RunnerRows
<1>3. WorkType
  BY IdleJob DEF Init, WorkType, Idle
<1>4. CloudType
  BY DEF Init, CloudType
<1>5. AgentType
  BY ReplacementAssumption DEF Init, AgentType, Runners
<1>6. SweepType /\ UsedType
  BY DEF Init, SweepType, NoSweep, UsedType
<1>. QED  BY <1>1, <1>2, <1>3, <1>4, <1>5, <1>6 DEF TypeOK

\* Every row, worker, runner and agent is of its type, for any bounds.
THEOREM TypeCorrect == Spec => []TypeOK
<1>. QED  BY InitType, NextType, PTL DEF Spec

-----------------------------------------------------------------------------
(* What a worker goes by *)

\* Where a worker may be with a claim of each state.
Fits(label, state) ==
    CASE label = "claimed"   -> TRUE
      [] label \in {"draining", "announcing", "creating", "requested", "recording", "refreshing"} ->
           state = "provisioning"
      [] label = "validated" -> state = "validating"
      [] label \in {"doomed", "discarded"} -> state \in {"provisioning", "validating"}
      [] label = "stopping"  -> state = "fencing"
      [] label \in {"retiring", "retired"} -> state = "cleaning"

\* What a worker goes by is so: the row it claimed has been opened, is its own until the claim
\* is old, and is then still in the state it read; and its place fits that state.
WorkFits ==
    \A w \in Workers : work[w].pc # "idle" =>
        /\ replacement[work[w].id].state # "none"
        /\ Owns(w) => replacement[work[w].id].state = State(w)
        /\ work[w].aborted \/ Owns(w)
        /\ Fits(work[w].pc, State(w))

\* The shapes of a step: the worker goes on, reserves the budget, is done, or is done with
\* its row moved.
Goes(w, label) == Fits(label, State(w)) /\ label \in Labels /\ Goto(w, label)
Reserves(w) ==
    /\ State(w) = "provisioning"
    /\ replacement' = [replacement EXCEPT ![work[w].id].reserved = TRUE]
    /\ work' = [work EXCEPT ![w].pc = "draining"]
Leaves(w) == work' = [work EXCEPT ![w] = Idle] /\ UNCHANGED replacement
Moves(w, state) ==
    LET i == work[w].id IN
    /\ Owns(w)
    /\ work' = [work EXCEPT ![w] = Idle]
    /\ \A j \in Replacements \ {i} : replacement'[j] = replacement[j]
    /\ replacement'[i].state = state /\ replacement'[i].owner = NoWorker
    /\ replacement'[i].source = Source(w)

FencedStates == {"reassigning", "converging", "cleaning", "complete"}
MovedStates == {"converging", "cleaning", "complete"}
Outcomes == States \cup {"complete", "failed"}

\* A move into the states after the fence, and after the handover, does what they stand for.
Reaches(w, state) ==
    /\ Moves(w, state)
    /\ state = "pending" => State(w) = "pending"
    /\ state \in FencedStates =>
         State(w) \in FencedStates \/ runner'[Source(w)].credential = "revoked"
    /\ state \in MovedStates =>
         \/ State(w) \in MovedStates
         \/ runner'[Source(w)].status # "online" /\ \A a \in Agents : home'[a] # Source(w)

LEMMA ApplyShape ==
    ASSUME RowType, WorkType, NEW w \in Workers, work[w].pc # "idle", NEW state \in Outcomes,
           Apply(w, state)
    PROVE  Leaves(w) \/ Moves(w, state)
<1>1. work[w].id \in Replacements
  BY DEF WorkType
<1>2. CASE Fence(w)
  BY <1>1, <1>2 DEF Apply, Moved, Fence, Moves, RowType, Rows, Source
<1>3. CASE ~Fence(w)
  BY <1>3 DEF Apply, Leaves
<1>. QED  BY <1>2, <1>3

LEMMA OutcomeShape ==
    ASSUME RowType, WorkType, NEW w \in Workers, work[w].pc # "idle",
           Retry(w) \/ FailClaim(w) \/ RetryOrFail(w)
    PROVE  Leaves(w) \/ \E state \in Outcomes : Reaches(w, state)
<1>1. State(w) \in Outcomes
  BY DEF WorkType, Jobs, State, Outcomes
<1>2. Apply(w, State(w)) \/ Apply(w, "failed")
  BY DEF Retry, FailClaim, RetryOrFail
<1>3. ASSUME Moves(w, State(w)) PROVE Reaches(w, State(w))
  BY <1>3 DEF Reaches
<1>4. ASSUME Moves(w, "failed") PROVE Reaches(w, "failed")
  BY <1>4 DEF Reaches, FencedStates, MovedStates
<1>. QED  BY <1>1, <1>2, <1>3, <1>4, ApplyShape DEF Outcomes

\* Every step of a worker has one of these shapes.
LEMMA StepShape ==
    ASSUME TypeOK, WorkFits, NEW w \in Workers, Step(w)
    PROVE  \/ \E label \in Labels : Goes(w, label)
           \/ Reserves(w) \/ Leaves(w)
           \/ \E state \in Outcomes : Reaches(w, state)
<1>. USE DEF TypeOK
<1>1. work[w].pc # "idle"
  BY DEF Step, InitializeTarget, StartProvisioning, Discover, Announce, Create, CreateAnswered, Record,
         Equip, Refresh, Validate, AcceptTarget, Discard, Discarded, Degrade, Revoke, Reassign, Converge,
         Inspect, Retire, Retired, Claimed
<1>2. /\ work[w].id \in Replacements /\ Target(w) \in Runners /\ Target(w) = work[w].id
      /\ Source(w) \in Runners
  BY <1>1, TargetRunner DEF WorkType, RowType, Rows, Target, Source
<1>3. Fits(work[w].pc, State(w))
  BY <1>1 DEF WorkFits
<1>. DEFINE Onward(label) == Fits(label, State(w)) /\ Goto(w, label)
            Done == Leaves(w) \/ \E state \in Outcomes : Reaches(w, state)
<1>4. \A label \in Labels : Onward(label) => Goes(w, label)
  BY DEF Goes
<1>5. \A state \in Outcomes : Apply(w, state) /\ state \notin FencedStates /\ state # "pending" => Done
  <2>. SUFFICES ASSUME NEW state \in Outcomes, Apply(w, state), state \notin FencedStates, state # "pending"
       PROVE Done
    OBVIOUS
  <2>. QED  BY <1>1, ApplyShape DEF Reaches, FencedStates, MovedStates
<1>6. Retry(w) \/ FailClaim(w) \/ RetryOrFail(w) => Done
  BY <1>1, OutcomeShape
<1>7. CASE InitializeTarget(w)
  BY <1>5, <1>6, <1>7 DEF InitializeTarget, Outcomes, States, FencedStates
<1>8. CASE StartProvisioning(w)
  <2>1. State(w) = "provisioning"
    BY <1>8 DEF StartProvisioning, Claimed
  <2>2. /\ Goto(w, "doomed") => Goes(w, "doomed")
        /\ Goto(w, "draining") => Goes(w, "draining")
    BY <2>1 DEF Goes, Fits, Labels
  <2>3. ASSUME replacement' = [replacement EXCEPT ![work[w].id].reserved = TRUE],
               work' = [work EXCEPT ![w].pc = "draining"]
        PROVE  Reserves(w)
    BY <2>1, <2>3 DEF Reserves
  <2>4. ASSUME replacement' = Moved(w, "failed"), work' = [work EXCEPT ![w] = Idle], Owns(w)
        PROVE  Reaches(w, "failed")
    BY <1>2, <2>4 DEF Moved, Reaches, Moves, RowType, Rows, Source, FencedStates, MovedStates
  <2>. QED  BY <1>6, <1>8, <2>2, <2>3, <2>4 DEF StartProvisioning, Leaves, Labels, Outcomes
<1>9. CASE Discover(w) \/ Announce(w) \/ Create(w) \/ CreateAnswered(w) \/ Record(w) \/ Equip(w)
  <2>1. State(w) = "provisioning"
    BY <1>3, <1>9 DEF Fits, Discover, Announce, Create, CreateAnswered, Record, Equip
  <2>2. \E label \in {"draining", "announcing", "creating", "requested", "recording", "refreshing", "doomed"} :
           Goto(w, label)
    BY <1>9 DEF Discover, Announce, Create, CreateAnswered, Record, Equip, Unobserved
  <2>. QED  BY <2>1, <2>2 DEF Goes, Fits, Labels
<1>10. CASE Refresh(w)
  <2>1. State(w) = "provisioning"
    BY <1>3, <1>10 DEF Fits, Refresh
  <2>2. Goto(w, "doomed") => Goes(w, "doomed")
    BY <2>1 DEF Goes, Fits, Labels
  <2>. QED  BY <1>5, <1>6, <1>10, <2>2 DEF Refresh, Outcomes, States, FencedStates, Labels
<1>11. CASE Validate(w)
  <2>1. State(w) = "validating"
    BY <1>11 DEF Validate, Claimed
  <2>2. /\ Goto(w, "doomed") => Goes(w, "doomed")
        /\ Goto(w, "validated") => Goes(w, "validated")
    BY <2>1 DEF Goes, Fits, Labels
  <2>. QED  BY <1>6, <1>11, <2>2 DEF Validate, Labels
<1>12. CASE AcceptTarget(w)
  <2>1. State(w) = "validating"
    BY <1>3, <1>12 DEF Fits, AcceptTarget
  <2>2. Goto(w, "doomed") => Goes(w, "doomed")
    BY <2>1 DEF Goes, Fits, Labels
  <2>. QED  BY <1>5, <1>12, <2>2 DEF AcceptTarget, Outcomes, States, FencedStates, Labels
<1>13. CASE Discard(w)
  <2>1. State(w) \in {"provisioning", "validating"}
    BY <1>3, <1>13 DEF Fits, Discard
  <2>2. Goto(w, "discarded") => Goes(w, "discarded")
    BY <2>1 DEF Goes, Fits, Labels
  <2>. QED  BY <1>6, <1>13, <2>2 DEF Discard, Labels
<1>14. CASE Discarded(w)
  BY <1>6, <1>14 DEF Discarded
<1>15. CASE Degrade(w)
  <2>1. State(w) = "fencing"
    BY <1>15 DEF Degrade, Claimed
  <2>2. Goto(w, "stopping") => Goes(w, "stopping")
    BY <2>1 DEF Goes, Fits, Labels
  <2>. QED  BY <1>6, <1>15, <2>2 DEF Degrade, Labels
<1>16. CASE Revoke(w)
  <2>1. CASE Fence(w)
    <3>1. runner'[Source(w)].credential = "revoked"
      BY <1>2, <1>16, <2>1 DEF Revoke, Revoked, RunnerType, RunnerRows
    <3>2. Leaves(w) \/ Moves(w, "reassigning")
      BY <1>1, <1>16, ApplyShape DEF Revoke, Outcomes, States
    <3>3. Moves(w, "reassigning") => Reaches(w, "reassigning")
      BY <3>1 DEF Reaches, MovedStates
    <3>. QED  BY <3>2, <3>3 DEF Outcomes, States
  <2>2. CASE ~Fence(w)
    BY <1>16, <2>2 DEF Revoke, Apply, Leaves
  <2>. QED  BY <2>1, <2>2
<1>17. CASE Reassign(w)
  <2>1. CASE HandoverReady(w) /\ Fence(w)
    <3>1. runner[Source(w)].status = "degraded" /\ runner' = runner
      BY <1>17, <2>1 DEF HandoverReady, Reassign
    <3>2. runner[Target(w)].status = "online"
      BY <2>1 DEF HandoverReady
    <3>3. \A a \in Agents : home'[a] # Source(w)
      BY <1>17, <2>1, <3>1, <3>2 DEF Reassign, Assigned
    <3>4. Moves(w, "converging")
      <4>. DEFINE next == Moved(w, "converging")
                  id == work[w].id
      <4>1. replacement' = [next EXCEPT ![id].moved = Assigned(Source(w))]
        BY <1>17, <2>1 DEF Reassign
      <4>2. next \in [Replacements -> Rows]
        BY <1>2, MovedType DEF States
      <4>3. /\ next[id].state = "converging" /\ next[id].owner = NoWorker
            /\ next[id].source = Source(w)
            /\ \A j \in Replacements \ {id} : next[j] = replacement[j]
        BY <1>2 DEF Moved, RowType, Rows, Source
      <4>4. work' = [work EXCEPT ![w] = Idle] /\ Owns(w)
        BY <1>17, <2>1 DEF Reassign, Fence
      <4>. HIDE DEF next
      <4>. QED  BY <1>2, <4>1, <4>2, <4>3, <4>4 DEF Moves, Rows
    <3>5. State(w) = "reassigning"
      BY <1>17 DEF Reassign, Claimed
    <3>6. Reaches(w, "converging")
      BY <3>1, <3>3, <3>4, <3>5 DEF Reaches, FencedStates
    <3>. QED  BY <3>6 DEF Outcomes, States
  <2>2. CASE ~(HandoverReady(w) /\ Fence(w))
    BY <1>6, <1>17, <2>2 DEF Reassign
  <2>. QED  BY <2>1, <2>2
<1>18. CASE Converge(w)
  <2>1. State(w) = "converging"
    BY <1>18 DEF Converge, Claimed
  <2>2. Moves(w, "cleaning") => Reaches(w, "cleaning")
    BY <2>1 DEF Reaches, FencedStates, MovedStates
  <2>. QED  BY <1>1, <1>6, <1>18, <2>2, ApplyShape DEF Converge, Outcomes, States
<1>19. CASE Inspect(w)
  <2>1. State(w) = "cleaning"
    BY <1>19 DEF Inspect, Claimed
  <2>2. Goto(w, "retiring") => Goes(w, "retiring")
    BY <2>1 DEF Goes, Fits, Labels
  <2>. QED  BY <1>6, <1>19, <2>2 DEF Inspect, Labels
<1>20. CASE Retire(w)
  <2>1. State(w) = "cleaning"
    BY <1>3, <1>20 DEF Fits, Retire
  <2>2. Goto(w, "retired") => Goes(w, "retired")
    BY <2>1 DEF Goes, Fits, Labels
  <2>. QED  BY <1>6, <1>20, <2>2 DEF Retire, Labels
<1>21. CASE Retired(w)
  <2>1. State(w) = "cleaning"
    BY <1>3, <1>21 DEF Fits, Retired
  <2>2. Moves(w, "complete") => Reaches(w, "complete")
    BY <2>1 DEF Reaches, FencedStates, MovedStates
  <2>. QED  BY <1>1, <1>21, <2>2, ApplyShape DEF Retired, Outcomes
<1>. QED  BY <1>7, <1>8, <1>9, <1>10, <1>11, <1>12, <1>13, <1>14, <1>15, <1>16, <1>17, <1>18, <1>19,
             <1>20, <1>21 DEF Step

\* A worker that finishes takes nothing from what the others go by.
LEMMA MovesFits ==
    ASSUME TypeOK, WorkFits, NEW w \in Workers, work[w].pc # "idle",
           Leaves(w) \/ \E state \in Outcomes : Moves(w, state)
    PROVE  WorkFits'
<1>1. work[w].id \in Replacements
  BY DEF TypeOK, WorkType
<1>2. ASSUME NEW v \in Workers, work'[v].pc # "idle"
      PROVE  v # w /\ work'[v] = work[v] /\ work[v].id \in Replacements
  BY <1>2 DEF TypeOK, WorkType, Leaves, Moves, Idle
<1>3. CASE Leaves(w)
  BY <1>2, <1>3 DEF Leaves, WorkFits, Owns, State
<1>4. ASSUME NEW state \in Outcomes, Moves(w, state) PROVE WorkFits'
  <2>1. SUFFICES ASSUME NEW v \in Workers, work'[v].pc # "idle"
        PROVE  /\ replacement'[work[v].id].state # "none"
               /\ replacement'[work[v].id].owner = v => replacement'[work[v].id].state = State(v)
               /\ work[v].aborted \/ replacement'[work[v].id].owner = v
               /\ Fits(work[v].pc, State(v))
    BY <1>2 DEF WorkFits, Owns, State
  <2>2. v # w /\ work'[v] = work[v] /\ work[v].id \in Replacements /\ work[v].pc # "idle"
    BY <1>2, <2>1
  <2>3. CASE work[v].id = work[w].id
    <3>1. ~Owns(v)
      BY <1>4, <2>2, <2>3 DEF Moves, Owns
    <3>2. work[v].aborted /\ Fits(work[v].pc, State(v))
      BY <2>2, <3>1 DEF WorkFits
    <3>3. replacement'[work[v].id].state = state /\ replacement'[work[v].id].owner = NoWorker
      BY <1>4, <2>3 DEF Moves
    <3>. QED  BY <3>2, <3>3, ReplacementAssumption DEF Outcomes, States
  <2>4. CASE work[v].id # work[w].id
    <3>1. replacement'[work[v].id] = replacement[work[v].id]
      BY <1>4, <2>2, <2>4 DEF Moves
    <3>. QED  BY <2>2, <3>1 DEF WorkFits, Owns, State
  <2>. QED  BY <2>3, <2>4
<1>. QED  BY <1>3, <1>4

LEMMA WorkFitsStep == TypeOK /\ WorkFits /\ [Next]_vars => WorkFits'
<1>. SUFFICES ASSUME TypeOK, WorkFits, [Next]_vars PROVE WorkFits'
  OBVIOUS
<1>1. ASSUME UNCHANGED <<replacement, work>> PROVE WorkFits'
  BY <1>1 DEF WorkFits, Owns, State
<1>2. ASSUME NEW w \in Workers, Step(w) PROVE WorkFits'
  <2>1. work[w].pc # "idle"
    BY <1>2 DEF Step, InitializeTarget, StartProvisioning, Discover, Announce, Create, CreateAnswered,
         Record, Equip, Refresh, Validate, AcceptTarget, Discard, Discarded, Degrade, Revoke, Reassign,
         Converge, Inspect, Retire, Retired, Claimed
  <2>2. work[w].id \in Replacements
    BY <2>1 DEF TypeOK, WorkType
  <2>3. ASSUME NEW label \in Labels, Goes(w, label) PROVE WorkFits'
    BY <2>1, <2>3 DEF Goes, Goto, WorkFits, Owns, State, TypeOK, WorkType, Jobs
  <2>4. CASE Reserves(w)
    <3>1. \A i \in Replacements : /\ replacement'[i].state = replacement[i].state
                                  /\ replacement'[i].owner = replacement[i].owner
      BY <2>2, <2>4 DEF Reserves, TypeOK, RowType, Rows
    <3>2. \A v \in Workers : /\ work'[v].id = work[v].id /\ work'[v].state = work[v].state
                             /\ work'[v].aborted = work[v].aborted
                             /\ work'[v].pc = IF v = w THEN "draining" ELSE work[v].pc
      BY <2>4 DEF Reserves, TypeOK, WorkType, Jobs
    <3>3. Fits("draining", State(w))
      BY <2>4 DEF Fits, Reserves
    <3>4. \A v \in Workers : work[v].pc # "idle" => work[v].id \in Replacements
      BY DEF TypeOK, WorkType
    <3>. QED  BY <2>1, <3>1, <3>2, <3>3, <3>4 DEF WorkFits, Owns, State
  <2>5. CASE Leaves(w) \/ \E state \in Outcomes : Reaches(w, state)
    BY <2>1, <2>5, MovesFits DEF Reaches
  <2>. QED  BY <1>2, <2>3, <2>4, <2>5, StepShape
<1>3. ASSUME NEW w \in Workers, NEW i \in Replacements, Claim(w, i) PROVE WorkFits'
  <2>1. /\ replacement'[i].owner = w /\ replacement'[i].state = replacement[i].state
        /\ \A j \in Replacements \ {i} : replacement'[j] = replacement[j]
    BY <1>3 DEF Claim, TypeOK, RowType, Rows
  <2>2. /\ work'[w].pc = "claimed" /\ work'[w].id = i /\ work'[w].state = replacement[i].state
        /\ \A v \in Workers \ {w} : work'[v] = work[v]
    BY <1>3 DEF Claim, TypeOK, WorkType
  <2>3. replacement[i].state # "none" /\ Lapsed(i)
    BY <1>3 DEF Claim, Open, States
  <2>4. ASSUME NEW v \in Workers \ {w}, work[v].pc # "idle", work[v].id = i PROVE work[v].aborted
    <3>1. replacement[i].owner = v => v # NoWorker
      BY ReplacementAssumption
    <3>. QED  BY <2>3, <2>4, <3>1 DEF Lapsed, WorkFits, Owns
  <2>5. \A v \in Workers : work[v].pc # "idle" => work[v].id \in Replacements
    BY DEF TypeOK, WorkType
  <2>6. ASSUME NEW v \in Workers, work'[v].pc # "idle"
        PROVE  /\ replacement'[work'[v].id].state # "none"
               /\ replacement'[work'[v].id].owner = v => replacement'[work'[v].id].state = work'[v].state
               /\ work'[v].aborted \/ replacement'[work'[v].id].owner = v
               /\ Fits(work'[v].pc, work'[v].state)
    <3>1. CASE v = w
      BY <2>1, <2>2, <2>3, <3>1 DEF Fits
    <3>2. CASE v # w /\ work[v].id = i
      BY <2>1, <2>2, <2>3, <2>4, <2>6, <3>2 DEF WorkFits, State
    <3>3. CASE v # w /\ work[v].id # i
      BY <2>1, <2>2, <2>5, <2>6, <3>3 DEF WorkFits, State, Owns
    <3>. QED  BY <3>1, <3>2, <3>3
  <2>. QED  BY <2>6 DEF WorkFits, Owns, State
<1>4. ASSUME NEW w \in Workers, Abort(w) PROVE WorkFits'
  BY <1>4 DEF Abort, WorkFits, Owns, State, TypeOK, WorkType, Jobs
<1>5. ASSUME NEW w \in Workers, Die(w) PROVE WorkFits'
  BY <1>5, MovesFits DEF Die, Leaves
<1>6. ASSUME NEW w \in Workers, ConfigFails(w) PROVE WorkFits'
  BY <1>6, OutcomeShape, MovesFits DEF ConfigFails, Reaches, TypeOK
<1>7. ASSUME NEW i \in Replacements, NEW s, NEW reason, Opened(i, s, reason), UNCHANGED work
      PROVE  WorkFits'
  <2>1. \A j \in Replacements \ {i} : replacement'[j] = replacement[j]
    BY <1>7 DEF Opened, TypeOK, RowType
  <2>2. \A v \in Workers : work[v].pc # "idle" => work[v].id \in Replacements \ {i}
    BY <1>7 DEF Opened, WorkFits, TypeOK, WorkType
  <2>. QED  BY <1>7, <2>1, <2>2 DEF WorkFits, Owns, State
<1>8. CASE Sweep
  BY <1>1, <1>7, <1>8 DEF Sweep, TakeInventory, SweepEnds, ClearStaleAssignment, SweepReplaces,
         SweepTombstones, SweepAdopts, SweepOrphan
<1>9. CASE Environment
  BY <1>1, <1>9 DEF Environment, DropletAppears, DropletVanishes, Register, Heartbeat, GoesStale, Settle,
         OwnerStops, Place
<1>10. ASSUME NEW i \in Replacements, NEW s \in Runners, OpenForDeployment(i, s) PROVE WorkFits'
  BY <1>7, <1>10 DEF OpenForDeployment
<1>11. CASE UNCHANGED vars
  BY <1>1, <1>11 DEF vars
<1>. QED  BY <1>2, <1>3, <1>4, <1>5, <1>6, <1>8, <1>9, <1>10, <1>11 DEF Next

-----------------------------------------------------------------------------
(* The fence of the handover *)

\* From the fence on the source has no credential, and cannot get one; from the handover on
\* it is not online, and cannot get there.
SourceFenced ==
    \A i \in Replacements :
        LET s == replacement[i].source IN
        /\ replacement[i].state \in FencedStates => runner[s].credential = "revoked"
        /\ replacement[i].state \in MovedStates => runner[s].status # "online" /\ Assigned(s) = {}

\* A revoked credential stays revoked, and only a heartbeat under an active one puts a runner
\* online.
RunnerStep(r) ==
    /\ runner[r].credential = "revoked" => runner'[r].credential = "revoked"
    /\ runner'[r].status = "online" => runner[r].status = "online" \/ runner[r].credential = "active"

LEMMA RunnerSteps ==
    ASSUME TypeOK, [Next]_vars, NEW r \in Runners
    PROVE  RunnerStep(r)
<1>1. runner \in [Runners -> RunnerRows]
  BY DEF TypeOK, RunnerType
<1>2. ASSUME runner' = runner PROVE RunnerStep(r)
  BY <1>2 DEF RunnerStep
<1>3. ASSUME NEW q, MarkFailed(q) PROVE RunnerStep(r)
  BY <1>1, <1>3 DEF MarkFailed, Write, RunnerStep, RunnerRows
<1>4. ASSUME NEW w \in Workers, Unobserved(w) PROVE RunnerStep(r)
  BY <1>2, <1>3, <1>4 DEF Unobserved
<1>5. ASSUME NEW w \in Workers, Step(w) PROVE RunnerStep(r)
  <2>1. CASE InitializeTarget(w)
    BY <1>1, <1>2, <2>1 DEF InitializeTarget, RunnerStep, RunnerRows
  <2>2. CASE Discover(w)
    BY <1>2, <1>4, <2>2 DEF Discover
  <2>3. CASE Announce(w)
    BY <1>1, <2>3 DEF Announce, Write, RunnerStep, RunnerRows
  <2>4. CASE CreateAnswered(w)
    BY <1>2, <1>3, <2>4 DEF CreateAnswered
  <2>5. CASE Record(w)
    BY <1>1, <2>5 DEF Record, Write, RunnerStep, RunnerRows
  <2>6. CASE Equip(w)
    <3>1. CASE runner' = [runner EXCEPT ![Target(w)].prov = "firewall"]
      BY <1>1, <3>1 DEF RunnerStep, RunnerRows
    <3>2. CASE runner' = [runner EXCEPT ![Target(w)] =
                            [@ EXCEPT !.prov = "waiting", !.status = "new", !.firewall = TRUE]]
      BY <1>1, <3>2 DEF RunnerStep, RunnerRows
    <3>. QED  BY <1>2, <1>3, <1>4, <2>6, <3>1, <3>2 DEF Equip
  <2>7. CASE Validate(w)
    <3>1. CASE runner' = [runner EXCEPT ![Target(w)].prov = "ready"]
      BY <1>1, <3>1 DEF RunnerStep, RunnerRows
    <3>2. CASE runner' = [runner EXCEPT ![Target(w)] = [@ EXCEPT !.prov = "failed", !.status = "failed"]]
      BY <1>1, <3>2 DEF RunnerStep, RunnerRows
    <3>. QED  BY <1>2, <2>7, <3>1, <3>2 DEF Validate
  <2>8. CASE Discarded(w)
    BY <1>1, <1>2, <2>8 DEF Discarded, Tombstone, RunnerStep, RunnerRows
  <2>9. CASE Degrade(w)
    BY <1>1, <1>2, <2>9 DEF Degrade, RunnerStep, RunnerRows
  <2>10. CASE Revoke(w)
    BY <1>1, <1>2, <2>10 DEF Revoke, Revoked, RunnerStep, RunnerRows
  <2>11. CASE Retired(w)
    BY <1>1, <1>2, <2>11 DEF Retired, Tombstone, RunnerStep, RunnerRows
  <2>12. CASE UNCHANGED runner
    BY <1>2, <2>12
  <2>. QED  BY <1>5, <2>1, <2>2, <2>3, <2>4, <2>5, <2>6, <2>7, <2>8, <2>9, <2>10, <2>11, <2>12
        DEF Step, StartProvisioning, Create, Refresh, AcceptTarget, Discard, Reassign, Converge, Inspect,
            Retire
<1>6. CASE Sweep
  <2>1. ASSUME NEW q \in Runners, SweepReplaces(q) PROVE RunnerStep(r)
    BY <1>1, <2>1 DEF SweepReplaces, RunnerStep, RunnerRows
  <2>2. ASSUME NEW q \in Runners, SweepTombstones(q) PROVE RunnerStep(r)
    BY <1>1, <2>2 DEF SweepTombstones, Tombstone, RunnerStep, RunnerRows
  <2>3. ASSUME NEW q \in Runners, SweepAdopts(q) PROVE RunnerStep(r)
    BY <1>1, <2>3 DEF SweepAdopts, RunnerStep, RunnerRows
  <2>. QED  BY <1>2, <1>6, <2>1, <2>2, <2>3 DEF Sweep, TakeInventory, SweepEnds, ClearStaleAssignment,
               SweepOrphan
<1>7. CASE Environment
  <2>1. ASSUME NEW q \in Runners, Register(q) PROVE RunnerStep(r)
    BY <1>1, <2>1 DEF Register, RunnerStep, RunnerRows
  <2>2. ASSUME NEW q \in Runners, Heartbeat(q) PROVE RunnerStep(r)
    BY <1>1, <2>2 DEF Heartbeat, RunnerStep, RunnerRows
  <2>3. ASSUME NEW q \in Runners, GoesStale(q) PROVE RunnerStep(r)
    BY <1>1, <2>3 DEF GoesStale, RunnerStep, RunnerRows
  <2>. QED  BY <1>2, <1>7, <2>1, <2>2, <2>3 DEF Environment, DropletAppears, DropletVanishes, Settle,
               OwnerStops, Place
<1>. QED  BY <1>2, <1>5, <1>6, <1>7 DEF Next, Abort, Die, ConfigFails, Claim, OpenForDeployment, vars

\* An agent comes to no runner but an online one.
HomeStep(a) ==
    home'[a] = home[a] \/ home'[a] = NoRunner \/ runner[home'[a]].status = "online"

LEMMA HomeSteps ==
    ASSUME TypeOK, [Next]_vars, NEW a \in Agents
    PROVE  HomeStep(a)
<1>1. home \in [Agents -> Runners \cup {NoRunner}]
  BY DEF TypeOK, AgentType
<1>2. ASSUME home' = home PROVE HomeStep(a)
  BY <1>2 DEF HomeStep
<1>3. ASSUME NEW w \in Workers, Step(w) PROVE HomeStep(a)
  <2>1. CASE Reassign(w)
    BY <1>2, <2>1 DEF Reassign, HandoverReady, HomeStep
  <2>2. CASE Retired(w)
    BY <1>2, <2>2 DEF Retired, HomeStep
  <2>3. CASE home' = home
    BY <1>2, <2>3
  <2>. QED  BY <1>3, <2>1, <2>2, <2>3
        DEF Step, InitializeTarget, StartProvisioning, Discover, Announce, Create, CreateAnswered, Record,
            Equip, Refresh, Validate, AcceptTarget, Discard, Discarded, Degrade, Revoke, Converge, Inspect,
            Retire, agents
<1>4. CASE Sweep
  BY <1>1, <1>2, <1>4 DEF Sweep, TakeInventory, SweepEnds, ClearStaleAssignment, SweepReplaces,
       SweepTombstones, SweepAdopts, SweepOrphan, HomeStep, agents
<1>5. CASE Environment
  BY <1>1, <1>2, <1>5 DEF Environment, DropletAppears, DropletVanishes, Register, Heartbeat, GoesStale,
       Settle, OwnerStops, Place, HomeStep, agents
<1>. QED  BY <1>2, <1>3, <1>4, <1>5
     DEF Next, Abort, Die, ConfigFails, Claim, OpenForDeployment, vars, agents

\* A row gets into the states after the fence, and after the handover, in no other way.
RowStep(i) ==
    LET s == replacement[i].source IN
    /\ replacement'[i].state \in {"none", "pending"} => replacement[i].state \in {"none", "pending"}
    /\ replacement'[i].state \in FencedStates =>
         /\ replacement'[i].source = s
         /\ replacement[i].state \in FencedStates \/ runner'[s].credential = "revoked"
    /\ replacement'[i].state \in MovedStates =>
         \/ replacement[i].state \in MovedStates
         \/ runner'[s].status # "online" /\ \A a \in Agents : home'[a] # s

LEMMA RowSteps ==
    ASSUME TypeOK, WorkFits, [Next]_vars, NEW i \in Replacements
    PROVE  RowStep(i)
<1>1. replacement \in [Replacements -> Rows]
  BY DEF TypeOK, RowType
<1>2. ASSUME replacement'[i].state = replacement[i].state, replacement'[i].source = replacement[i].source
      PROVE  RowStep(i)
  BY <1>2 DEF RowStep
<1>3. ASSUME NEW w \in Workers, work[w].pc # "idle", NEW state \in Outcomes, Reaches(w, state)
      PROVE  RowStep(i)
  <2>1. CASE i = work[w].id
    <3>1. replacement[i].state = State(w)
      BY <1>3, <2>1 DEF Reaches, Moves, WorkFits
    <3>2. state # "none"
      BY DEF Outcomes, States
    <3>. QED  BY <1>3, <2>1, <3>1, <3>2 DEF Reaches, Moves, RowStep, Source
  <2>2. CASE i # work[w].id
    BY <1>2, <1>3, <2>2 DEF Reaches, Moves
  <2>. QED  BY <2>1, <2>2
<1>4. ASSUME NEW w \in Workers, Step(w) PROVE RowStep(i)
  <2>1. work[w].pc # "idle"
    BY <1>4 DEF Step, InitializeTarget, StartProvisioning, Discover, Announce, Create, CreateAnswered,
         Record, Equip, Refresh, Validate, AcceptTarget, Discard, Discarded, Degrade, Revoke, Reassign,
         Converge, Inspect, Retire, Retired, Claimed
  <2>2. CASE Reserves(w)
    BY <1>1, <1>2, <2>2 DEF Reserves, Rows
  <2>3. CASE UNCHANGED replacement
    BY <1>2, <2>3
  <2>. QED  BY <1>3, <1>4, <2>1, <2>2, <2>3, StepShape DEF Goes, Goto, Leaves
<1>5. ASSUME NEW w \in Workers, NEW j \in Replacements, Claim(w, j) PROVE RowStep(i)
  <2>1. replacement'[j].state = replacement[j].state /\ replacement'[j].source = replacement[j].source
    BY <1>5 DEF Claim, TypeOK, RowType, Rows
  <2>2. \A k \in Replacements \ {j} : replacement'[k] = replacement[k]
    BY <1>5 DEF Claim, TypeOK, RowType
  <2>3. replacement'[i].state = replacement[i].state /\ replacement'[i].source = replacement[i].source
    BY <2>1, <2>2
  <2>. QED  BY <1>2, <2>3
<1>6. ASSUME NEW w \in Workers, ConfigFails(w) PROVE RowStep(i)
  <2>1. work[w].pc # "idle"
    BY <1>6 DEF ConfigFails
  <2>2. Leaves(w) \/ \E state \in Outcomes : Reaches(w, state)
    BY <1>6, <2>1, OutcomeShape DEF ConfigFails, TypeOK
  <2>. QED  BY <1>2, <1>3, <2>1, <2>2 DEF Leaves
<1>7. ASSUME NEW j \in Replacements, NEW s, NEW reason, Opened(j, s, reason) PROVE RowStep(i)
  <2>1. CASE i = j
    BY <1>1, <1>7, <2>1 DEF Opened, RowStep, FencedStates, MovedStates, Rows
  <2>2. CASE i # j
    BY <1>1, <1>2, <1>7, <2>2 DEF Opened
  <2>. QED  BY <2>1, <2>2
<1>8. CASE Sweep
  BY <1>2, <1>7, <1>8 DEF Sweep, TakeInventory, SweepEnds, ClearStaleAssignment, SweepReplaces,
         SweepTombstones, SweepAdopts, SweepOrphan
<1>9. CASE Environment
  BY <1>2, <1>9 DEF Environment, DropletAppears, DropletVanishes, Register, Heartbeat, GoesStale, Settle,
         OwnerStops, Place
<1>10. ASSUME NEW j \in Replacements, NEW s \in Runners, OpenForDeployment(j, s) PROVE RowStep(i)
  BY <1>7, <1>10 DEF OpenForDeployment
<1>. QED  BY <1>2, <1>4, <1>5, <1>6, <1>8, <1>9, <1>10 DEF Next, Abort, Die, vars

LEMMA SourceFencedStep == TypeOK /\ WorkFits /\ SourceFenced /\ [Next]_vars => SourceFenced'
<1>. SUFFICES ASSUME TypeOK, WorkFits, SourceFenced, [Next]_vars, NEW i \in Replacements
     PROVE  LET s == replacement'[i].source IN
            /\ replacement'[i].state \in FencedStates => runner'[s].credential = "revoked"
            /\ replacement'[i].state \in MovedStates =>
                 runner'[s].status # "online" /\ \A a \in Agents : home'[a] # s
  BY DEF SourceFenced, Assigned
<1>. DEFINE s == replacement[i].source
<1>1. s \in Runners
  BY DEF TypeOK, RowType, Rows
<1>2. RowStep(i) /\ RunnerStep(s)
  BY <1>1, RowSteps, RunnerSteps
<1>3. /\ replacement[i].state \in FencedStates => runner[s].credential = "revoked"
      /\ replacement[i].state \in MovedStates => runner[s].status # "online" /\ \A a \in Agents : home[a] # s
  BY DEF SourceFenced, Assigned
<1>4. MovedStates \subseteq FencedStates
  BY DEF MovedStates, FencedStates
<1>5. ASSUME replacement[i].state \in MovedStates
      PROVE  runner'[s].status # "online" /\ \A a \in Agents : home'[a] # s
  <2>1. runner[s].credential = "revoked" /\ runner[s].status # "online"
    BY <1>3, <1>4, <1>5
  <2>2. \A a \in Agents : HomeStep(a) /\ home[a] # s
    BY <1>3, <1>5, HomeSteps
  <2>3. s # NoRunner
    BY <1>1, ReplacementAssumption
  <2>. QED  BY <1>2, <2>1, <2>2, <2>3 DEF RunnerStep, HomeStep
<1>6. ASSUME replacement'[i].state \in FencedStates
      PROVE  replacement'[i].source = s /\ runner'[s].credential = "revoked"
  BY <1>2, <1>3, <1>6 DEF RowStep, RunnerStep
<1>7. ASSUME replacement'[i].state \in MovedStates
      PROVE  runner'[s].status # "online" /\ \A a \in Agents : home'[a] # s
  BY <1>2, <1>5, <1>7 DEF RowStep
<1>. QED  BY <1>4, <1>6, <1>7 DEF Assigned

-----------------------------------------------------------------------------
(* One creation for each target *)

Unannounced == {"none", "pending"}

\* No droplet was asked for a target whose creation has not been announced, nor for one whose
\* worker is about to ask and still may.
TargetsFresh ==
    /\ \A i \in Replacements :
        /\ replacement[i].state \in {"none", "pending"} => runner[i].prov = "none"
        /\ runner[i].prov \in Unannounced => creates[i] = 0
    /\ \A w \in Workers :
        /\ work[w].pc \in {"announcing", "creating"} /\ ~work[w].aborted => creates[work[w].id] = 0
        /\ work[w].pc = "creating" => runner[work[w].id].prov \notin Unannounced

\* A target is announced once, and only a replacement that goes on gets it a row.
ProvStep(i) ==
    /\ runner'[i].prov \in Unannounced => runner[i].prov \in Unannounced
    /\ runner[i].prov = "none" /\ runner'[i].prov # "none" =>
         replacement'[i].state \notin {"none", "pending"}

LEMMA ProvSteps ==
    ASSUME TypeOK, WorkFits, TargetsFresh, [Next]_vars, NEW i \in Replacements
    PROVE  ProvStep(i)
<1>1. /\ runner \in [Runners -> RunnerRows] /\ replacement \in [Replacements -> Rows]
      /\ i \in Runners
  BY TargetRunner DEF TypeOK, RunnerType, RowType
<1>2. ASSUME runner' = runner PROVE ProvStep(i)
  BY <1>2 DEF ProvStep
<1>3. ASSUME NEW q, MarkFailed(q) PROVE ProvStep(i)
  BY <1>1, <1>3 DEF MarkFailed, Write, ProvStep, RunnerRows, Alive, Unannounced
<1>4. ASSUME NEW w \in Workers, Unobserved(w) PROVE ProvStep(i)
  BY <1>2, <1>3, <1>4 DEF Unobserved
<1>5. ASSUME NEW q, Alive(q), runner' = Tombstone(q) PROVE ProvStep(i)
  BY <1>1, <1>5 DEF Tombstone, ProvStep, RunnerRows, Alive, Unannounced
<1>6. ASSUME NEW w \in Workers, Step(w) PROVE ProvStep(i)
  <2>1. CASE InitializeTarget(w)
    <3>1. work[w].pc # "idle" /\ State(w) = "pending"
      BY <2>1 DEF InitializeTarget, Claimed
    <3>2. CASE Fence(w) /\ Apply(w, "provisioning") /\ runner' = [runner EXCEPT ![work[w].id].prov = "pending"]
      <4>1. CASE i = work[w].id
        <5>1. replacement'[i].state = "provisioning"
          BY <1>1, <3>2, <4>1 DEF Apply, Moved, Rows
        <5>2. runner[i].prov = "none"
          BY <3>1, <3>2, <4>1 DEF Fence, WorkFits, TargetsFresh
        <5>. QED  BY <5>1, <5>2 DEF ProvStep, Unannounced
      <4>2. CASE i # work[w].id
        BY <1>1, <3>2, <4>2 DEF ProvStep
      <4>. QED  BY <4>1, <4>2
    <3>. QED  BY <1>2, <2>1, <3>2 DEF InitializeTarget, Target
  <2>2. CASE Discover(w)
    BY <1>2, <1>4, <2>2 DEF Discover
  <2>3. CASE Announce(w)
    BY <1>1, <2>3 DEF Announce, Write, ProvStep, RunnerRows, Alive, Unannounced
  <2>4. CASE CreateAnswered(w)
    BY <1>2, <1>3, <2>4 DEF CreateAnswered
  <2>5. CASE Record(w)
    BY <1>1, <2>5 DEF Record, Write, ProvStep, RunnerRows, Alive, Unannounced
  <2>6. CASE Equip(w)
    <3>1. CASE runner' = [runner EXCEPT ![Target(w)].prov = "firewall"]
      BY <1>1, <2>6, <3>1 DEF Equip, ProvStep, RunnerRows, Unannounced
    <3>2. CASE runner' = [runner EXCEPT ![Target(w)] =
                            [@ EXCEPT !.prov = "waiting", !.status = "new", !.firewall = TRUE]]
      BY <1>1, <2>6, <3>2 DEF Equip, ProvStep, RunnerRows, Unannounced
    <3>. QED  BY <1>2, <1>3, <1>4, <2>6, <3>1, <3>2 DEF Equip
  <2>7. CASE Validate(w)
    <3>1. CASE runner[Target(w)].prov = "waiting" /\ runner' = [runner EXCEPT ![Target(w)].prov = "ready"]
      BY <1>1, <3>1 DEF ProvStep, RunnerRows, Unannounced
    <3>2. CASE /\ runner[Target(w)].prov = "waiting"
               /\ runner' = [runner EXCEPT ![Target(w)] = [@ EXCEPT !.prov = "failed", !.status = "failed"]]
      BY <1>1, <3>2 DEF ProvStep, RunnerRows, Unannounced
    <3>. QED  BY <1>2, <2>7, <3>1, <3>2 DEF Validate
  <2>8. CASE Discarded(w)
    <3>1. State(w) # "pending"
      BY <2>8 DEF WorkFits, Fits, Discarded
    <3>. QED  BY <1>2, <1>5, <2>8, <3>1 DEF Discarded, Fence
  <2>9. CASE Degrade(w)
    BY <1>1, <1>2, <2>9 DEF Degrade, ProvStep, RunnerRows
  <2>10. CASE Revoke(w)
    BY <1>1, <1>2, <2>10 DEF Revoke, Revoked, ProvStep, RunnerRows
  <2>11. CASE Retired(w)
    BY <1>2, <1>5, <2>11 DEF Retired, Fence
  <2>12. CASE UNCHANGED runner
    BY <1>2, <2>12
  <2>. QED  BY <1>6, <2>1, <2>2, <2>3, <2>4, <2>5, <2>6, <2>7, <2>8, <2>9, <2>10, <2>11, <2>12
        DEF Step, StartProvisioning, Create, Refresh, AcceptTarget, Discard, Reassign, Converge, Inspect,
            Retire
<1>7. CASE Sweep
  <2>1. ASSUME NEW q \in Runners, SweepReplaces(q) PROVE ProvStep(i)
    BY <1>1, <2>1 DEF SweepReplaces, ProvStep, RunnerRows
  <2>2. ASSUME NEW q \in Runners, SweepTombstones(q) PROVE ProvStep(i)
    BY <1>5, <2>2 DEF SweepTombstones, Missing
  <2>3. ASSUME NEW q \in Runners, SweepAdopts(q) PROVE ProvStep(i)
    BY <1>1, <2>3 DEF SweepAdopts, Interrupted, Alive, ProvStep, RunnerRows, Unannounced
  <2>. QED  BY <1>2, <1>7, <2>1, <2>2, <2>3 DEF Sweep, TakeInventory, SweepEnds, ClearStaleAssignment,
               SweepOrphan
<1>8. CASE Environment
  <2>1. ASSUME NEW q \in Runners, Register(q) \/ Heartbeat(q) \/ GoesStale(q) PROVE ProvStep(i)
    BY <1>1, <2>1 DEF Register, Heartbeat, GoesStale, ProvStep, RunnerRows
  <2>. QED  BY <1>2, <1>8, <2>1 DEF Environment, DropletAppears, DropletVanishes, Settle, OwnerStops, Place
<1>. QED  BY <1>2, <1>6, <1>7, <1>8 DEF Next, Abort, Die, ConfigFails, Claim, OpenForDeployment, vars

\* A worker comes to ask for a droplet only by finding its target unannounced, then announcing it.
JobStep(w) ==
    LET i == work[w].id IN
    /\ work'[w].pc = "announcing" =>
         /\ work'[w].id = i
         /\ \/ work[w].pc = "announcing" /\ (work[w].aborted => work'[w].aborted)
            \/ i \in Replacements /\ runner[i].prov = "pending"
    /\ work'[w].pc = "creating" =>
         /\ work'[w].id = i
         /\ work[w].aborted => work'[w].aborted
         /\ \/ work[w].pc = "creating"
            \/ work[w].pc = "announcing" /\ runner'[i].prov \notin Unannounced

LEMMA JobSteps ==
    ASSUME TypeOK, [Next]_vars, NEW w \in Workers
    PROVE  JobStep(w)
<1>1. /\ work \in [Workers -> Jobs] /\ runner \in [Runners -> RunnerRows]
      /\ work[w].pc # "idle" => work[w].id \in Replacements /\ work[w].id \in Runners
  BY TargetRunner DEF TypeOK, WorkType, RunnerType
<1>2. ASSUME work'[w] = work[w] PROVE JobStep(w)
  BY <1>2 DEF JobStep
<1>3. ASSUME work'[w].pc \notin {"announcing", "creating"} PROVE JobStep(w)
  BY <1>3 DEF JobStep
<1>4. ASSUME NEW v \in Workers, NEW label \in Labels \ {"announcing", "creating"}, Goto(v, label)
      PROVE  JobStep(w)
  <2>1. CASE v = w
    BY <1>1, <1>3, <1>4, <2>1 DEF Goto, Jobs
  <2>2. CASE v # w
    BY <1>1, <1>2, <1>4, <2>2 DEF Goto
  <2>. QED  BY <2>1, <2>2
<1>5. ASSUME NEW v \in Workers, work' = [work EXCEPT ![v] = Idle] PROVE JobStep(w)
  BY <1>1, <1>2, <1>3, <1>5 DEF Idle
<1>6. ASSUME NEW v \in Workers, Retry(v) \/ FailClaim(v) \/ RetryOrFail(v) PROVE JobStep(w)
  BY <1>5, <1>6 DEF Retry, FailClaim, RetryOrFail, Apply
<1>7. ASSUME NEW v \in Workers, Unobserved(v) PROVE JobStep(w)
  BY <1>4, <1>7 DEF Unobserved, Labels
<1>8. ASSUME NEW v \in Workers, Step(v) PROVE JobStep(w)
  <2>1. CASE InitializeTarget(v)
    BY <1>5, <1>6, <2>1 DEF InitializeTarget, Apply
  <2>2. CASE StartProvisioning(v)
    <3>1. CASE work' = [work EXCEPT ![v].pc = "draining"]
      BY <1>1, <1>2, <1>3, <3>1 DEF Jobs
    <3>. QED  BY <1>4, <1>5, <1>6, <2>2, <3>1 DEF StartProvisioning, Labels
  <2>3. CASE Discover(v)
    <3>1. CASE Goto(v, "announcing") /\ runner[Target(v)].prov = "pending"
      <4>1. CASE v = w
        <5>1. work[w].pc # "idle"
          BY <2>3, <4>1 DEF Discover
        <5>. QED  BY <1>1, <3>1, <4>1, <5>1 DEF Goto, JobStep, Target, Jobs
      <4>2. CASE v # w
        BY <1>1, <1>2, <3>1, <4>2 DEF Goto
      <4>. QED  BY <4>1, <4>2
    <3>. QED  BY <1>4, <1>7, <2>3, <3>1 DEF Discover, Labels
  <2>4. CASE Announce(v)
    <3>1. CASE Goto(v, "creating") /\ Alive(Target(v)) /\ v = w
      <4>1. /\ work[w].pc = "announcing" /\ Target(v) = work[w].id /\ work[w].id \in Runners
            /\ work'[w].id = work[w].id /\ work'[w].aborted = work[w].aborted /\ work'[w].pc = "creating"
        BY <1>1, <2>4, <3>1 DEF Announce, Goto, Target, Jobs
      <4>2. runner'[work[w].id].prov = "creating"
        BY <1>1, <2>4, <3>1, <4>1 DEF Announce, Write, RunnerRows
      <4>. QED  BY <4>1, <4>2 DEF JobStep, Unannounced
    <3>2. CASE Goto(v, "creating") /\ v # w
      BY <1>1, <1>2, <3>2 DEF Goto
    <3>. QED  BY <1>4, <2>4, <3>1, <3>2 DEF Announce, Labels
  <2>5. CASE Create(v)
    BY <1>4, <2>5 DEF Create, Labels
  <2>6. CASE CreateAnswered(v)
    BY <1>4, <2>6 DEF CreateAnswered, Labels
  <2>7. CASE Record(v)
    BY <1>4, <2>7 DEF Record, Labels
  <2>8. CASE Equip(v)
    BY <1>4, <1>7, <2>8 DEF Equip, Labels
  <2>9. CASE Refresh(v)
    BY <1>4, <1>5, <1>6, <2>9 DEF Refresh, Apply, Labels
  <2>10. CASE Validate(v)
    BY <1>4, <1>6, <2>10 DEF Validate, Labels
  <2>11. CASE AcceptTarget(v)
    BY <1>4, <1>5, <2>11 DEF AcceptTarget, Apply, Labels
  <2>12. CASE Discard(v)
    BY <1>4, <1>6, <2>12 DEF Discard, Labels
  <2>13. CASE Discarded(v) \/ Revoke(v) \/ Reassign(v) \/ Converge(v) \/ Retired(v)
    BY <1>5, <1>6, <2>13 DEF Discarded, Revoke, Reassign, Converge, Retired, Apply
  <2>14. CASE Degrade(v) \/ Inspect(v) \/ Retire(v)
    BY <1>4, <1>6, <2>14 DEF Degrade, Inspect, Retire, Labels
  <2>. QED  BY <1>8, <2>1, <2>2, <2>3, <2>4, <2>5, <2>6, <2>7, <2>8, <2>9, <2>10, <2>11, <2>12, <2>13,
               <2>14 DEF Step
<1>9. ASSUME NEW v \in Workers, NEW i \in Replacements, Claim(v, i) PROVE JobStep(w)
  BY <1>1, <1>2, <1>3, <1>9 DEF Claim
<1>10. ASSUME NEW v \in Workers, Abort(v) PROVE JobStep(w)
  BY <1>1, <1>10 DEF Abort, JobStep, Jobs
<1>11. ASSUME NEW v \in Workers, Die(v) \/ ConfigFails(v) PROVE JobStep(w)
  BY <1>5, <1>6, <1>11 DEF Die, ConfigFails
<1>12. CASE Sweep
  BY <1>2, <1>12 DEF Sweep, TakeInventory, SweepEnds, ClearStaleAssignment, SweepReplaces,
         SweepTombstones, SweepAdopts, SweepOrphan
<1>13. CASE Environment
  BY <1>2, <1>13 DEF Environment, DropletAppears, DropletVanishes, Register, Heartbeat, GoesStale, Settle,
         OwnerStops, Place
<1>. QED  BY <1>2, <1>8, <1>9, <1>10, <1>11, <1>12, <1>13 DEF Next, OpenForDeployment, vars

\* A droplet is asked for by nobody but a worker that may.
LEMMA CreateSteps ==
    ASSUME TypeOK, [Next]_vars
    PROVE  \/ creates' = creates
           \/ \E w \in Workers :
                /\ work[w].pc = "creating" /\ ~work[w].aborted
                /\ runner' = runner
                /\ work' = [work EXCEPT ![w].pc = "requested"]
                /\ creates' = [creates EXCEPT ![work[w].id] = @ + 1]
<1>1. ASSUME NEW w \in Workers, Create(w)
      PROVE  \/ creates' = creates
             \/ /\ work[w].pc = "creating" /\ ~work[w].aborted
                /\ runner' = runner
                /\ work' = [work EXCEPT ![w].pc = "requested"]
                /\ creates' = [creates EXCEPT ![work[w].id] = @ + 1]
  BY <1>1 DEF Create, EffectAllowed, Goto, Target, cloud
<1>2. CASE creates' = creates
  BY <1>2
<1>. QED  BY <1>1, <1>2
     DEF Next, Step, InitializeTarget, StartProvisioning, Discover, Announce, CreateAnswered, Record, Equip,
         Refresh, Validate, AcceptTarget, Discard, Discarded, Degrade, Revoke, Reassign, Converge, Inspect,
         Retire, Retired, Claim, Abort, Die, ConfigFails, OpenForDeployment, Sweep, TakeInventory, SweepEnds,
         ClearStaleAssignment, SweepReplaces, SweepTombstones, SweepAdopts, SweepOrphan, Environment,
         DropletAppears, DropletVanishes, Register, Heartbeat, GoesStale, Settle, OwnerStops, Place, vars, cloud

LEMMA TargetsFreshStep ==
    ASSUME TypeOK, WorkFits, TargetsFresh, CreatedOnce, [Next]_vars
    PROVE  TargetsFresh' /\ CreatedOnce'
<1>1. /\ work \in [Workers -> Jobs] /\ runner \in [Runners -> RunnerRows]
      /\ creates \in [Runners -> Nat] /\ creates' \in [Runners -> Nat]
      /\ \A w \in Workers : work[w].pc # "idle" => work[w].id \in Replacements /\ work[w].id \in Runners
  BY NextType, TargetRunner DEF TypeOK, WorkType, RunnerType, CloudType
<1>2. ASSUME NEW i \in Replacements, replacement'[i].state \in {"none", "pending"}
      PROVE  runner'[i].prov = "none"
  <2>1. RowStep(i) /\ ProvStep(i)
    BY RowSteps, ProvSteps
  <2>2. runner[i].prov = "none"
    BY <1>2, <2>1 DEF RowStep, TargetsFresh
  <2>. QED  BY <1>2, <2>1, <2>2 DEF ProvStep
<1>3. ASSUME NEW w \in Workers, work[w].pc = "creating", ~work[w].aborted, runner' = runner,
             work' = [work EXCEPT ![w].pc = "requested"],
             creates' = [creates EXCEPT ![work[w].id] = @ + 1]
      PROVE  TargetsFresh' /\ CreatedOnce'
  <2>1. /\ work[w].id \in Runners /\ work[w].id \in Replacements
        /\ creates[work[w].id] = 0 /\ runner[work[w].id].prov \notin Unannounced
    BY <1>1, <1>3 DEF TargetsFresh
  <2>2. CreatedOnce'
    BY <1>1, <1>3, <2>1 DEF CreatedOnce
  <2>3. \A i \in Replacements : runner'[i].prov \in Unannounced => creates'[i] = 0
    BY <1>1, <1>3, <2>1, TargetRunner DEF TargetsFresh
  <2>4. ASSUME NEW v \in Workers, work'[v].pc \in {"announcing", "creating"}
        PROVE  /\ ~work'[v].aborted => creates'[work'[v].id] = 0
               /\ work'[v].pc = "creating" => runner'[work'[v].id].prov \notin Unannounced
    <3>1. v # w /\ work'[v] = work[v]
      BY <1>1, <1>3, <2>4 DEF Jobs
    <3>2. ~work[v].aborted => work[v].id # work[w].id
      BY <1>3, <2>4, <3>1 DEF WorkFits, Owns
    <3>3. ~work[v].aborted => creates[work[v].id] = 0 /\ work[v].id \in Runners
      BY <1>1, <2>4, <3>1 DEF TargetsFresh
    <3>. QED  BY <1>1, <1>3, <2>4, <3>1, <3>2, <3>3 DEF TargetsFresh
  <2>. QED  BY <1>2, <2>2, <2>3, <2>4 DEF TargetsFresh
<1>4. CASE creates' = creates
  <2>1. CreatedOnce'
    BY <1>4 DEF CreatedOnce
  <2>2. ASSUME NEW i \in Replacements, runner'[i].prov \in Unannounced PROVE creates'[i] = 0
    BY <1>4, <2>2, ProvSteps DEF ProvStep, TargetsFresh
  <2>3. ASSUME NEW w \in Workers, work'[w].pc \in {"announcing", "creating"}, ~work'[w].aborted
        PROVE  creates'[work'[w].id] = 0
    <3>1. JobStep(w)
      BY JobSteps
    <3>2. CASE work[w].pc \in {"announcing", "creating"} /\ ~work[w].aborted
      BY <1>4, <2>3, <3>1, <3>2 DEF JobStep, TargetsFresh
    <3>3. CASE work[w].id \in Replacements /\ runner[work[w].id].prov = "pending" /\ work'[w].id = work[w].id
      BY <1>4, <3>3 DEF TargetsFresh, Unannounced
    <3>. QED  BY <2>3, <3>1, <3>2, <3>3 DEF JobStep
  <2>4. ASSUME NEW w \in Workers, work'[w].pc = "creating"
        PROVE  runner'[work'[w].id].prov \notin Unannounced
    <3>1. JobStep(w)
      BY JobSteps
    <3>2. CASE work[w].pc = "creating"
      <4>1. work'[w].id = work[w].id /\ work[w].id \in Replacements
        BY <1>1, <2>4, <3>1, <3>2 DEF JobStep
      <4>. QED  BY <3>2, <4>1, ProvSteps DEF ProvStep, TargetsFresh
    <3>. QED  BY <2>4, <3>1, <3>2 DEF JobStep
  <2>. QED  BY <1>2, <2>1, <2>2, <2>3, <2>4 DEF TargetsFresh
<1>. QED  BY <1>3, <1>4, CreateSteps

-----------------------------------------------------------------------------
(* The theorems *)

IInv == TypeOK /\ WorkFits /\ SourceFenced /\ TargetsFresh /\ CreatedOnce

LEMMA InitIInv == Init => IInv
<1>. SUFFICES ASSUME Init PROVE IInv
  OBVIOUS
<1>1. WorkFits
  BY DEF Init, WorkFits, Idle
<1>2. SourceFenced
  BY DEF Init, SourceFenced, FencedStates, MovedStates
<1>3. TargetsFresh
  BY TargetRunner DEF Init, TargetsFresh, Idle, Unannounced
<1>4. CreatedOnce
  BY DEF Init, CreatedOnce
<1>. QED  BY <1>1, <1>2, <1>3, <1>4, InitType DEF IInv

LEMMA NextIInv == IInv /\ [Next]_vars => IInv'
  BY NextType, WorkFitsStep, SourceFencedStep, TargetsFreshStep DEF IInv

\* Whatever claims are lost, retried and taken over, the provider is asked for the droplet of
\* a target at most once (automaticProviderEffectAllowed and the "creating" phase).
THEOREM AskedAtMostOnce == Spec => []CreatedOnce
<1>1. IInv => CreatedOnce
  BY DEF IInv
<1>. QED  BY <1>1, InitIInv, NextIInv, PTL DEF Spec

\* After the handover the old runner has no agents and no authority, for good, whatever late
\* workers, heartbeats, placements and sweeps do.
THEOREM HandoverIsFenced == Spec => []HandoverFenced
<1>1. IInv => HandoverFenced
  BY DEF IInv, SourceFenced, HandoverFenced, FencedStates, MovedStates
<1>. QED  BY <1>1, InitIInv, NextIInv, PTL DEF Spec

-----------------------------------------------------------------------------
(* Who deletes a droplet *)

\* A droplet goes when the cleanup of a failed target, the retirement of a source or the
\* sweep of an orphan deletes it, or behind the program's back.
LEMMA GoneSteps ==
    ASSUME TypeOK, [Next]_vars, NEW r \in Runners, Exists(r), droplet'[r] = "gone"
    PROVE  \/ \E w \in Workers : Discard(w) /\ MayDelete(w) /\ Target(w) = r
           \/ \E w \in Workers : Retire(w) /\ ~work[w].aborted /\ Source(w) = r
           \/ SweepOrphan(r)
           \/ Fault
<1>1. droplet \in [Runners -> {"none", "requested", "up", "walled", "gone"}] /\ droplet[r] # "gone"
  BY DEF TypeOK, CloudType, Exists
<1>2. ASSUME UNCHANGED droplet PROVE FALSE
  BY <1>1, <1>2
<1>3. ASSUME NEW q \in Runners, NEW label, label # "gone", droplet' = [droplet EXCEPT ![q] = label]
      PROVE  FALSE
  BY <1>1, <1>3
<1>4. ASSUME NEW q, droplet' = [droplet EXCEPT ![q] = "gone"] PROVE q = r
  BY <1>1, <1>4
<1>5. ASSUME NEW w \in Workers, Step(w)
      PROVE  \/ Discard(w) /\ MayDelete(w) /\ Target(w) = r
             \/ Retire(w) /\ ~work[w].aborted /\ Source(w) = r
             \/ Fault
  <2>1. CASE Create(w)
    <3>1. Target(w) \in Runners
      BY <2>1, TargetRunner DEF Create, Target, TypeOK, WorkType
    <3>2. \/ UNCHANGED droplet
          \/ droplet' = [droplet EXCEPT ![Target(w)] = "requested"]
          \/ droplet' = [droplet EXCEPT ![Target(w)] = droplet[Target(w)]]
      BY <2>1 DEF Create, cloud
    <3>. QED  BY <1>1, <1>2, <3>1, <3>2
  <2>2. CASE CreateAnswered(w)
    BY <1>2, <2>2 DEF CreateAnswered
  <2>3. CASE Equip(w)
    <3>1. Target(w) \in Runners
      BY <2>3, TargetRunner DEF Equip, Target, TypeOK, WorkType
    <3>2. UNCHANGED droplet \/ droplet' = [droplet EXCEPT ![Target(w)] = "walled"]
      BY <2>3 DEF Equip
    <3>. QED  BY <1>2, <1>3, <3>1, <3>2
  <2>4. CASE Discard(w)
    BY <1>2, <1>4, <2>4 DEF Discard
  <2>5. CASE Retire(w)
    BY <1>2, <1>4, <2>5 DEF Retire
  <2>. QED  BY <1>2, <1>5, <2>1, <2>2, <2>3, <2>4, <2>5
        DEF Step, InitializeTarget, StartProvisioning, Discover, Announce, Record, Refresh, Validate,
            AcceptTarget, Discarded, Degrade, Revoke, Reassign, Converge, Inspect, Retired, cloud
<1>6. ASSUME Sweep PROVE SweepOrphan(r)
  <2>1. ASSUME NEW q \in Runners, SweepOrphan(q) PROVE q = r
    BY <1>2, <1>4, <2>1 DEF SweepOrphan
  <2>. QED  BY <1>2, <1>6, <2>1 DEF Sweep, TakeInventory, SweepEnds, ClearStaleAssignment, SweepReplaces,
               SweepTombstones, SweepAdopts, cloud
<1>7. ASSUME Environment PROVE Fault
  <2>1. ASSUME NEW q \in Runners, DropletAppears(q) PROVE FALSE
    BY <1>1, <1>3, <2>1 DEF DropletAppears
  <2>2. ASSUME NEW q \in Runners, DropletVanishes(q) PROVE Fault
    BY <2>2 DEF DropletVanishes
  <2>. QED  BY <1>2, <1>7, <2>1, <2>2 DEF Environment, Register, Heartbeat, GoesStale, Settle, OwnerStops,
               Place, cloud
<1>. QED  BY <1>2, <1>5, <1>6, <1>7 DEF Next, Abort, Die, ConfigFails, Claim, OpenForDeployment, vars, cloud

\* However late a worker is, the program deletes the droplet of no runner that has agents,
\* but that of a target it still prepares: a worker that may call the provider owns its
\* claim, a source is retired after its agents are gone, and the sweep clears assignments
\* to a runner without a row before it deletes its droplet.
THEOREM ServingIsKept == Spec => ServingDropletKept
<1>1. ASSUME IInv, [Next]_vars, NEW r \in Runners, Exists(r), droplet'[r] = "gone", Assigned(r) # {}
      PROVE  \/ used'.faults > used.faults
             \/ \E i \in Replacements : i = r /\ replacement[i].state \in {"provisioning", "validating"}
  <2>1. TypeOK /\ WorkFits /\ SourceFenced
    BY <1>1 DEF IInv
  <2>2. ASSUME NEW w \in Workers, Discard(w), MayDelete(w), Target(w) = r
        PROVE  r \in Replacements /\ replacement[r].state \in {"provisioning", "validating"}
    <3>1. work[w].pc = "doomed" /\ work[w].id = r /\ ~work[w].aborted
      BY <2>2 DEF Discard, MayDelete, Target
    <3>2. r \in Replacements
      BY <2>1, <3>1 DEF TypeOK, WorkType
    <3>3. Fits("doomed", State(w)) /\ replacement[r].state = State(w)
      BY <2>1, <3>1 DEF WorkFits
    <3>. QED  BY <3>2, <3>3 DEF Fits
  <2>3. ASSUME NEW w \in Workers, Retire(w), ~work[w].aborted, Source(w) = r PROVE FALSE
    <3>1. work[w].pc = "retiring" /\ work[w].id \in Replacements
      BY <2>1, <2>3 DEF Retire, TypeOK, WorkType
    <3>2. Fits("retiring", State(w)) /\ replacement[work[w].id].state = State(w)
      BY <2>1, <2>3, <3>1 DEF WorkFits
    <3>3. replacement[work[w].id].state \in MovedStates
      BY <3>2 DEF Fits, MovedStates
    <3>. QED  BY <1>1, <2>1, <2>3, <3>1, <3>3 DEF SourceFenced, Source
  <2>4. ASSUME SweepOrphan(r) PROVE FALSE
    BY <1>1, <2>4, ReplacementAssumption DEF SweepOrphan, Owned, StaleAssignments, Assigned
  <2>5. ASSUME Fault PROVE used'.faults > used.faults
    BY <2>1, <2>5 DEF Fault, TypeOK, UsedType
  <2>. QED  BY <1>1, <2>1, <2>2, <2>3, <2>4, <2>5, GoneSteps
<1>2. IInv /\ [Next]_vars =>
        [\A r \in Runners :
           Exists(r) /\ droplet'[r] = "gone" /\ Assigned(r) # {} =>
              \/ used'.faults > used.faults
              \/ \E i \in Replacements : i = r /\ replacement[i].state \in {"provisioning", "validating"}]_vars
  BY <1>1
<1>. QED  BY <1>2, InitIInv, NextIInv, PTL DEF Spec, ServingDropletKept

-----------------------------------------------------------------------------
(* A replacement is a relocation *)

Phases == [i \in Replacements |-> Phase(replacement[i].state)]
Sources == [i \in Replacements |-> replacement[i].source]
Authorities == [r \in Runners |-> Authority(r)]
PromisedStep == Promised!Next \/ UNCHANGED <<Phases, Sources, home, Authorities>>

\* What happens to the abstract variables in a step that leaves some of the detailed ones alone.
Quiet == home' = home /\ Authorities' = Authorities

LEMMA SameAuthority ==
    ASSUME \A r \in Runners :
             \/ runner'[r].credential = runner[r].credential
             \/ {runner[r].credential, runner'[r].credential} \subseteq {"none", "pending"}
    PROVE  Authorities' = Authorities
  BY DEF Authorities, Authority

LEMMA LostAuthority ==
    ASSUME NEW r \in Runners, runner'[r].credential = "revoked",
           \A q \in Runners \ {r} : runner'[q].credential = runner[q].credential
    PROVE  Authorities' = [Authorities EXCEPT ![r] = "lost"]
  BY DEF Authorities, Authority

LEMMA SameRows ==
    ASSUME \A i \in Replacements : /\ replacement'[i].state = replacement[i].state
                                   /\ replacement'[i].source = replacement[i].source
    PROVE  Phases' = Phases /\ Sources' = Sources
  BY DEF Phases, Sources

LEMMA MovedRow ==
    ASSUME WorkFits, NEW w \in Workers, work[w].pc # "idle", work[w].id \in Replacements, NEW state,
           Moves(w, state)
    PROVE  /\ Phases' = [Phases EXCEPT ![work[w].id] = Phase(state)]
           /\ Sources' = Sources
           /\ Phases[work[w].id] = Phase(State(w))
           /\ Sources[work[w].id] = Source(w)
<1>1. replacement[work[w].id].state = State(w)
  BY DEF WorkFits, Moves
<1>. QED  BY <1>1 DEF Moves, Phases, Sources, Source

LEMMA UnderwayPhases == \A state \in States : Phase(state) \in {"preparing", "fenced", "moved"}
  BY DEF Phase, States

\* A step that keeps the phase, or gives the replacement up.
LEMMA PromisedOutcome ==
    ASSUME TypeOK, WorkFits, NEW w \in Workers, work[w].pc # "idle", Quiet,
           \/ UNCHANGED replacement
           \/ Leaves(w)
           \/ \E state \in Outcomes : Moves(w, state) /\ (state = "failed" \/ Phase(state) = Phase(State(w)))
    PROVE  PromisedStep
<1>1. /\ work[w].id \in Replacements /\ State(w) \in States
  BY DEF TypeOK, WorkType, Jobs, State
<1>2. CASE UNCHANGED replacement \/ Leaves(w)
  BY <1>2, SameRows DEF Leaves, PromisedStep, Quiet
<1>3. ASSUME NEW state \in Outcomes, Moves(w, state), Phase(state) = Phase(State(w)) PROVE PromisedStep
  <2>1. Phases' = [Phases EXCEPT ![work[w].id] = Phases[work[w].id]] /\ Sources' = Sources
    BY <1>1, <1>3, MovedRow
  <2>2. Phases' = Phases
    BY <1>1, <2>1 DEF Phases
  <2>. QED  BY <2>1, <2>2 DEF PromisedStep, Quiet
<1>4. ASSUME Moves(w, "failed") PROVE PromisedStep
  <2>1. /\ Phases' = [Phases EXCEPT ![work[w].id] = "abandoned"] /\ Sources' = Sources
        /\ Phases[work[w].id] \in {"preparing", "fenced", "moved"}
    BY <1>1, <1>4, MovedRow, UnderwayPhases DEF Phase
  <2>2. Promised!Abandon(work[w].id)
    BY <2>1 DEF Promised!Abandon, Promised!Underway, Promised!Become, Phases, Sources, Authorities, Quiet
  <2>. QED  BY <1>1, <2>2 DEF PromisedStep, Promised!Next
<1>. QED  BY <1>2, <1>3, <1>4

LEMMA PromisedWork ==
    ASSUME IInv, NEW w \in Workers, Step(w)
    PROVE  PromisedStep
<1>1. work[w].pc # "idle"
  BY DEF Step, InitializeTarget, StartProvisioning, Discover, Announce, Create, CreateAnswered, Record,
         Equip, Refresh, Validate, AcceptTarget, Discard, Discarded, Degrade, Revoke, Reassign, Converge,
         Inspect, Retire, Retired, Claimed
<1>2. /\ TypeOK /\ WorkFits /\ RowType /\ WorkType
      /\ runner \in [Runners -> RunnerRows] /\ replacement \in [Replacements -> Rows]
  BY DEF IInv, TypeOK, RunnerType, RowType
<1>3. /\ work[w].id \in Replacements /\ Target(w) \in Runners /\ Target(w) = work[w].id
      /\ Source(w) \in Runners
  BY <1>1, <1>2, TargetRunner DEF WorkType, Rows, Target, Source
<1>4. Fits(work[w].pc, State(w))
  BY <1>1, <1>2 DEF WorkFits
<1>. DEFINE Same == \/ UNCHANGED replacement \/ Leaves(w)
                    \/ \E state \in Outcomes : Moves(w, state) /\ (state = "failed" \/ Phase(state) = Phase(State(w)))
<1>5. ASSUME Quiet, Same PROVE PromisedStep
  BY <1>1, <1>2, <1>5, PromisedOutcome
<1>6. ASSUME Retry(w) \/ FailClaim(w) \/ RetryOrFail(w) PROVE Same
  <2>1. Apply(w, State(w)) \/ Apply(w, "failed")
    BY <1>6 DEF Retry, FailClaim, RetryOrFail
  <2>2. State(w) \in Outcomes
    BY <1>2 DEF WorkType, Jobs, State, Outcomes
  <2>. QED  BY <1>1, <1>2, <2>1, <2>2, ApplyShape DEF Outcomes
<1>7. ASSUME NEW label, Goto(w, label) PROVE Same
  BY <1>7 DEF Goto
<1>8. ASSUME home' = home,
             \A r \in Runners : \/ runner'[r].credential = runner[r].credential
                                \/ {runner[r].credential, runner'[r].credential} \subseteq {"none", "pending"}
      PROVE  Quiet
  BY <1>8, SameAuthority DEF Quiet
<1>9. ASSUME UNCHANGED <<home, runner>> PROVE Quiet
  BY <1>8, <1>9
<1>10. ASSUME NEW q, MarkFailed(q), home' = home PROVE Quiet
  BY <1>2, <1>8, <1>10 DEF MarkFailed, Write, RunnerRows
<1>11. ASSUME Unobserved(w), home' = home PROVE Quiet /\ Same
  BY <1>7, <1>9, <1>10, <1>11 DEF Unobserved
<1>12. CASE InitializeTarget(w)
  <2>1. Same
    <3>1. Apply(w, "provisioning") \/ FailClaim(w)
      BY <1>12 DEF InitializeTarget
    <3>2. State(w) = "pending" /\ Phase("pending") = Phase("provisioning")
      BY <1>12 DEF InitializeTarget, Claimed, Phase
    <3>. QED  BY <1>1, <1>2, <1>6, <3>1, <3>2, ApplyShape DEF Outcomes, States
  <2>2. Quiet
    BY <1>2, <1>3, <1>8, <1>12 DEF InitializeTarget, RunnerRows, agents
  <2>. QED  BY <1>5, <2>1, <2>2
<1>13. CASE StartProvisioning(w)
  <2>1. Quiet
    BY <1>9, <1>13 DEF StartProvisioning, agents
  <2>2. CASE replacement' = [replacement EXCEPT ![work[w].id].reserved = TRUE]
    BY <1>2, <2>1, <2>2, SameRows DEF PromisedStep, Quiet, Rows
  <2>3. ASSUME replacement' = Moved(w, "failed"), work' = [work EXCEPT ![w] = Idle], Owns(w)
        PROVE  Same
    <3>1. Moves(w, "failed")
      BY <1>2, <1>3, <2>3 DEF Moved, Moves, Rows, Source
    <3>. QED  BY <3>1 DEF Outcomes
  <2>4. CASE Same
    BY <1>5, <2>1, <2>4
  <2>. QED  BY <1>6, <1>7, <1>13, <2>2, <2>3, <2>4 DEF StartProvisioning
<1>14. CASE Discover(w)
  BY <1>5, <1>7, <1>9, <1>11, <1>14 DEF Discover, agents
<1>15. CASE Announce(w)
  <2>1. Quiet
    BY <1>2, <1>3, <1>8, <1>15 DEF Announce, Write, RunnerRows, agents
  <2>. QED  BY <1>5, <1>7, <1>15, <2>1 DEF Announce
<1>16. CASE Create(w)
  BY <1>5, <1>7, <1>9, <1>16 DEF Create, agents
<1>17. CASE CreateAnswered(w)
  BY <1>5, <1>7, <1>9, <1>10, <1>17 DEF CreateAnswered, agents
<1>18. CASE Record(w)
  <2>1. Quiet
    BY <1>2, <1>3, <1>8, <1>18 DEF Record, Write, RunnerRows, agents
  <2>. QED  BY <1>5, <1>7, <1>18, <2>1 DEF Record
<1>19. CASE Equip(w)
  <2>1. home' = home
    BY <1>19 DEF Equip, agents
  <2>2. Same
    BY <1>7, <1>11, <1>19, <2>1 DEF Equip
  <2>3. CASE runner' = [runner EXCEPT ![Target(w)].prov = "firewall"]
    <3>1. \A r \in Runners : runner'[r].credential = runner[r].credential
      BY <1>2, <2>3 DEF RunnerRows
    <3>. QED  BY <1>5, <1>8, <2>1, <2>2, <3>1
  <2>4. CASE runner' = [runner EXCEPT ![Target(w)] =
                          [@ EXCEPT !.prov = "waiting", !.status = "new", !.firewall = TRUE]]
    <3>1. \A r \in Runners : runner'[r].credential = runner[r].credential
      BY <1>2, <2>4 DEF RunnerRows
    <3>. QED  BY <1>5, <1>8, <2>1, <2>2, <3>1
  <2>. QED  BY <1>5, <1>9, <1>10, <1>11, <1>19, <2>1, <2>2, <2>3, <2>4 DEF Equip
<1>20. CASE Refresh(w)
  <2>1. State(w) = "provisioning" /\ Phase("validating") = Phase("provisioning")
    BY <1>4, <1>20 DEF Fits, Refresh, Phase
  <2>2. Apply(w, "validating") => Same
    BY <1>1, <1>2, <2>1, ApplyShape DEF Outcomes, States
  <2>. QED  BY <1>5, <1>6, <1>7, <1>9, <1>20, <2>2 DEF Refresh, agents
<1>21. CASE Validate(w)
  <2>1. Same
    BY <1>6, <1>7, <1>21 DEF Validate
  <2>2. CASE runner' = [runner EXCEPT ![Target(w)].prov = "ready"]
    BY <1>2, <1>5, <1>8, <1>21, <2>1, <2>2 DEF Validate, RunnerRows, agents
  <2>3. CASE runner' = [runner EXCEPT ![Target(w)] = [@ EXCEPT !.prov = "failed", !.status = "failed"]]
    BY <1>2, <1>5, <1>8, <1>21, <2>1, <2>3 DEF Validate, RunnerRows, agents
  <2>. QED  BY <1>5, <1>9, <1>21, <2>1, <2>2, <2>3 DEF Validate, agents
<1>22. CASE AcceptTarget(w)
  <2>1. State(w) = "validating" /\ Phase("validating") = Phase("fencing")
    BY <1>4, <1>22 DEF Fits, AcceptTarget, Phase
  <2>2. Apply(w, "fencing") => Same
    BY <1>1, <1>2, <2>1, ApplyShape DEF Outcomes, States
  <2>. QED  BY <1>5, <1>7, <1>9, <1>22, <2>2 DEF AcceptTarget, agents
<1>23. CASE Discard(w)
  BY <1>5, <1>6, <1>7, <1>9, <1>23 DEF Discard, agents
<1>24. CASE Discarded(w)
  <2>1. CASE Fence(w)
    <3>1. Moves(w, "failed")
      BY <1>2, <1>3, <1>24, <2>1 DEF Discarded, FailClaim, Apply, Moved, Fence, Moves, Rows, Source
    <3>2. Authorities' = [Authorities EXCEPT ![Target(w)] = "lost"]
      BY <1>2, <1>3, <1>24, <2>1, LostAuthority DEF Discarded, Tombstone, RunnerRows
    <3>3. /\ Phases' = [Phases EXCEPT ![work[w].id] = "abandoned"] /\ Sources' = Sources
          /\ Phases[work[w].id] \in {"preparing", "fenced", "moved"}
      <4>1. State(w) \in States /\ Phase("failed") = "abandoned"
        BY <1>2 DEF WorkType, Jobs, State, Phase
      <4>. QED  BY <1>1, <1>2, <1>3, <3>1, <4>1, MovedRow, UnderwayPhases
    <3>4. home' = home
      BY <1>24 DEF Discarded, agents
    <3>5. Promised!Abandon(work[w].id)
      BY <1>3, <3>2, <3>3, <3>4 DEF Promised!Abandon, Promised!Underway, Promised!Become, Phases, Sources,
         Authorities
    <3>. QED  BY <1>3, <3>5 DEF PromisedStep, Promised!Next
  <2>2. CASE ~Fence(w)
    BY <1>5, <1>6, <1>9, <1>24, <2>2 DEF Discarded, agents
  <2>. QED  BY <2>1, <2>2
<1>25. CASE Degrade(w)
  <2>1. Quiet
    BY <1>2, <1>8, <1>9, <1>25 DEF Degrade, RunnerRows, agents
  <2>. QED  BY <1>5, <1>6, <1>7, <1>25, <2>1 DEF Degrade
<1>26. CASE Revoke(w)
  <2>1. State(w) = "fencing"
    BY <1>4, <1>26 DEF Fits, Revoke
  <2>2. CASE Fence(w)
    <3>1. Moves(w, "reassigning")
      BY <1>2, <1>3, <1>26, <2>2 DEF Revoke, Apply, Moved, Fence, Moves, Rows, Source
    <3>2. Authorities' = [Authorities EXCEPT ![Source(w)] = "lost"]
      BY <1>2, <1>3, <1>26, <2>2, LostAuthority DEF Revoke, Revoked, RunnerRows
    <3>3. /\ Phases' = [Phases EXCEPT ![work[w].id] = "fenced"] /\ Sources' = Sources
          /\ Phases[work[w].id] = "preparing" /\ Sources[work[w].id] = Source(w)
      BY <1>1, <1>2, <1>3, <2>1, <3>1, MovedRow DEF Phase
    <3>4. home' = home
      BY <1>26 DEF Revoke, agents
    <3>5. Promised!Fence(work[w].id)
      BY <1>3, <3>2, <3>3, <3>4 DEF Promised!Fence, Promised!Become, Phases, Sources, Authorities
    <3>. QED  BY <1>3, <3>5 DEF PromisedStep, Promised!Next
  <2>3. CASE ~Fence(w)
    BY <1>5, <1>9, <1>26, <2>3 DEF Revoke, Apply, Leaves, agents
  <2>. QED  BY <2>2, <2>3
<1>27. CASE Reassign(w)
  <2>1. State(w) = "reassigning"
    BY <1>27 DEF Reassign, Claimed
  <2>2. CASE HandoverReady(w) /\ Fence(w)
    <3>1. Moves(w, "converging")
      <4>. DEFINE next == Moved(w, "converging")
                  id == work[w].id
      <4>1. replacement' = [next EXCEPT ![id].moved = Assigned(Source(w))]
        BY <1>27, <2>2 DEF Reassign
      <4>2. next \in [Replacements -> Rows]
        BY <1>2, <1>3, MovedType DEF States
      <4>3. /\ next[id].state = "converging" /\ next[id].owner = NoWorker
            /\ next[id].source = Source(w)
            /\ \A j \in Replacements \ {id} : next[j] = replacement[j]
        BY <1>2, <1>3 DEF Moved, Rows, Source
      <4>4. work' = [work EXCEPT ![w] = Idle] /\ Owns(w)
        BY <1>27, <2>2 DEF Reassign, Fence
      <4>. HIDE DEF next
      <4>. QED  BY <1>3, <4>1, <4>2, <4>3, <4>4 DEF Moves, Rows
    <3>2. Authorities' = Authorities
      BY <1>27, SameAuthority DEF Reassign
    <3>3. /\ Phases' = [Phases EXCEPT ![work[w].id] = "moved"] /\ Sources' = Sources
          /\ Phases[work[w].id] = "fenced" /\ Sources[work[w].id] = Source(w)
      BY <1>1, <1>2, <1>3, <2>1, <3>1, MovedRow DEF Phase
    <3>4. Authorities[Source(w)] = "lost"
      <4>1. replacement[work[w].id].state = "reassigning"
        BY <1>1, <1>2, <2>1, <2>2 DEF WorkFits, Fence
      <4>2. runner[Source(w)].credential = "revoked"
        BY <1>3, <4>1 DEF IInv, SourceFenced, FencedStates, Source
      <4>. QED  BY <1>3, <4>2 DEF Authorities, Authority
    <3>5. home' = [a \in Agents |-> IF home[a] = Source(w) THEN work[w].id ELSE home[a]]
      BY <1>27, <2>2 DEF Reassign, Assigned, Target
    <3>6. Promised!Move(work[w].id)
      BY <1>3, <3>2, <3>3, <3>4, <3>5 DEF Promised!Move, Promised!Become, Phases, Sources, Authorities
    <3>. QED  BY <1>3, <3>6 DEF PromisedStep, Promised!Next
  <2>3. CASE ~(HandoverReady(w) /\ Fence(w))
    <3>1. FailClaim(w) /\ UNCHANGED <<home, runner>>
      BY <1>27, <2>3 DEF Reassign
    <3>. QED  BY <1>5, <1>6, <1>9, <3>1
  <2>. QED  BY <2>2, <2>3
<1>28. CASE Converge(w)
  <2>1. State(w) = "converging" /\ Phase("converging") = Phase("cleaning")
    BY <1>28 DEF Converge, Claimed, Phase
  <2>2. Apply(w, "cleaning") => Same
    BY <1>1, <1>2, <2>1, ApplyShape DEF Outcomes, States
  <2>. QED  BY <1>5, <1>6, <1>9, <1>28, <2>2 DEF Converge, agents
<1>29. CASE Inspect(w) \/ Retire(w)
  BY <1>5, <1>6, <1>7, <1>9, <1>29 DEF Inspect, Retire, agents
<1>30. CASE Retired(w)
  <2>1. State(w) = "cleaning"
    BY <1>4, <1>30 DEF Fits, Retired
  <2>2. CASE Fence(w)
    <3>1. Moves(w, "complete")
      BY <1>2, <1>3, <1>30, <2>2 DEF Retired, Apply, Moved, Fence, Moves, Rows, Source
    <3>2. replacement[work[w].id].state = "cleaning"
      BY <1>1, <1>2, <2>1, <2>2 DEF WorkFits, Fence
    <3>3. runner[Source(w)].credential = "revoked" /\ \A a \in Agents : home[a] # Source(w)
      BY <1>3, <3>2 DEF IInv, SourceFenced, FencedStates, MovedStates, Source, Assigned
    <3>4. Authorities' = Authorities
      BY <1>2, <1>3, <1>30, <2>2, <3>3, SameAuthority DEF Retired, Tombstone, RunnerRows
    <3>5. home' = home
      BY <1>2, <1>30, <2>2, <3>3 DEF Retired, TypeOK, AgentType
    <3>6. /\ Phases' = [Phases EXCEPT ![work[w].id] = "done"] /\ Sources' = Sources
          /\ Phases[work[w].id] = "moved" /\ Sources[work[w].id] = Source(w)
      BY <1>1, <1>2, <1>3, <2>1, <3>1, MovedRow DEF Phase
    <3>7. Promised!Finish(work[w].id)
      BY <1>3, <3>3, <3>4, <3>5, <3>6 DEF Promised!Finish, Promised!Become, Phases, Sources, Authorities
    <3>. QED  BY <1>3, <3>7 DEF PromisedStep, Promised!Next
  <2>3. CASE ~Fence(w)
    BY <1>5, <1>9, <1>30, <2>3 DEF Retired, Apply, Leaves
  <2>. QED  BY <2>2, <2>3
<1>. QED  BY <1>12, <1>13, <1>14, <1>15, <1>16, <1>17, <1>18, <1>19, <1>20, <1>21, <1>22, <1>23, <1>24,
             <1>25, <1>26, <1>27, <1>28, <1>29, <1>30 DEF Step

LEMMA RunnersArePlaces == Promised!Places = Runners
  BY ReplacementAssumption DEF Promised!Places, Replacements, Runners

LEMMA PromisedOpening ==
    ASSUME TypeOK, NEW i \in Replacements, NEW s \in Runners, NEW reason, Opened(i, s, reason), Quiet
    PROVE  PromisedStep
<1>1. replacement \in [Replacements -> Rows]
  BY DEF TypeOK, RowType
<1>2. /\ replacement'[i].state = "pending" /\ replacement'[i].source = s /\ replacement[i].state = "none"
      /\ \A j \in Replacements \ {i} : replacement'[j] = replacement[j]
  BY <1>1 DEF Opened, Rows
<1>3. /\ Phases' = [Phases EXCEPT ![i] = "preparing"] /\ Phases[i] = "unopened"
      /\ Sources' = [Sources EXCEPT ![i] = s]
  <2>1. Phase("pending") = "preparing" /\ Phase("none") = "unopened"
    BY DEF Phase
  <2>2. \A j \in Replacements : Phase(replacement'[j].state) =
                                  IF j = i THEN "preparing" ELSE Phase(replacement[j].state)
    BY <1>2, <2>1
  <2>3. \A j \in Replacements : replacement'[j].source = IF j = i THEN s ELSE replacement[j].source
    BY <1>2
  <2>. QED  BY <1>2, <2>1, <2>2, <2>3 DEF Phases, Sources
<1>4. \A n \in Replacements : Phases[n] \in {"preparing", "fenced", "moved"} => Sources[n] # s
  <2>1. ASSUME NEW n \in Replacements, Phases[n] \in {"preparing", "fenced", "moved"} PROVE Open(n)
    BY <1>1, <2>1 DEF Phases, Phase, Open, Rows, States
  <2>. QED  BY <2>1 DEF Opened, Sources
<1>5. Promised!Begin(i)
  BY <1>3, <1>4, RunnersArePlaces DEF Promised!Begin, Promised!Become, Promised!Underway, Phases, Sources,
     Authorities, Quiet
<1>. QED  BY <1>5 DEF PromisedStep, Promised!Next

LEMMA PromisedSweep ==
    ASSUME TypeOK, Sweep
    PROVE  PromisedStep
<1>1. /\ runner \in [Runners -> RunnerRows] /\ home \in [Agents -> Runners \cup {NoRunner}]
  BY DEF TypeOK, RunnerType, AgentType
<1>2. ASSUME UNCHANGED <<replacement, runner, home>> PROVE PromisedStep
  BY <1>2, SameRows, SameAuthority DEF PromisedStep
<1>3. ASSUME NEW a \in Agents, ClearStaleAssignment(a) PROVE PromisedStep
  <2>1. Promised!Leave(a)
    BY <1>3, SameRows, SameAuthority DEF ClearStaleAssignment, Promised!Leave, Phases, Sources, Authorities
  <2>. QED  BY <2>1 DEF PromisedStep, Promised!Next
<1>4. ASSUME NEW r \in Runners, SweepReplaces(r) PROVE PromisedStep
  <2>1. \A q \in Runners : runner'[q].credential = runner[q].credential
    BY <1>1, <1>4 DEF SweepReplaces, RunnerRows
  <2>2. Quiet
    BY <1>4, <2>1, SameAuthority DEF SweepReplaces, Quiet, agents
  <2>. QED  BY <1>4, <2>2, PromisedOpening, SameRows DEF SweepReplaces, PromisedStep, Quiet
<1>5. ASSUME NEW r \in Runners, SweepTombstones(r) PROVE PromisedStep
  <2>1. Authorities' = [Authorities EXCEPT ![r] = "lost"]
    BY <1>1, <1>5, LostAuthority DEF SweepTombstones, Tombstone, RunnerRows
  <2>2. UNCHANGED <<replacement, home>>
    BY <1>5 DEF SweepTombstones, agents
  <2>3. Promised!Lose(r)
    BY <2>1, <2>2, SameRows DEF Promised!Lose, Phases, Sources, Authorities
  <2>. QED  BY <2>3, RunnersArePlaces DEF PromisedStep, Promised!Next
<1>6. ASSUME NEW r \in Runners, SweepAdopts(r) PROVE PromisedStep
  <2>1. \A q \in Runners : runner'[q].credential = runner[q].credential
    BY <1>1, <1>6 DEF SweepAdopts, RunnerRows
  <2>. QED  BY <1>6, <2>1, SameAuthority, SameRows DEF SweepAdopts, PromisedStep, agents
<1>. QED  BY <1>2, <1>3, <1>4, <1>5, <1>6
     DEF Sweep, TakeInventory, SweepEnds, SweepOrphan, agents

LEMMA PromisedEnvironment ==
    ASSUME TypeOK, Environment
    PROVE  PromisedStep
<1>1. /\ runner \in [Runners -> RunnerRows] /\ home \in [Agents -> Runners \cup {NoRunner}]
  BY DEF TypeOK, RunnerType, AgentType
<1>2. ASSUME UNCHANGED <<replacement, runner, home>> PROVE PromisedStep
  BY <1>2, SameRows, SameAuthority DEF PromisedStep
<1>3. ASSUME NEW r \in Runners, Register(r) PROVE PromisedStep
  <2>1. Authorities[r] = "none" /\ Authorities' = [Authorities EXCEPT ![r] = "held"]
    BY <1>1, <1>3 DEF Register, Authorities, Authority, RunnerRows
  <2>2. Promised!Gain(r)
    BY <1>3, <2>1, SameRows DEF Register, Promised!Gain, Phases, Sources, Authorities, agents
  <2>. QED  BY <2>2, RunnersArePlaces DEF PromisedStep, Promised!Next
<1>4. ASSUME NEW r \in Runners, Heartbeat(r) \/ GoesStale(r) PROVE PromisedStep
  <2>1. \A q \in Runners : runner'[q].credential = runner[q].credential
    BY <1>1, <1>4 DEF Heartbeat, GoesStale, RunnerRows
  <2>. QED  BY <1>4, <2>1, SameAuthority, SameRows DEF Heartbeat, GoesStale, PromisedStep, agents
<1>5. ASSUME NEW a \in Agents, NEW r \in Runners, Place(a, r) PROVE PromisedStep
  <2>1. Promised!Arrive(a, r)
    BY <1>5, SameRows, SameAuthority DEF Place, Promised!Arrive, Phases, Sources, Authorities
  <2>. QED  BY <2>1, RunnersArePlaces DEF PromisedStep, Promised!Next
<1>. QED  BY <1>2, <1>3, <1>4, <1>5
     DEF Environment, DropletAppears, DropletVanishes, Settle, OwnerStops, agents

LEMMA PromisedInit == Init => Promised!Init
<1>. SUFFICES ASSUME Init PROVE Promised!Init
  OBVIOUS
<1>1. [i \in Replacements |-> Phase(replacement[i].state)] = [i \in Replacements |-> "unopened"]
  BY DEF Init, Phase
<1>2. [i \in Replacements |-> replacement[i].source] \in [Replacements -> Promised!Places]
  BY DEF Init, Promised!Places
<1>3. home \in [Agents -> {0, NoRunner}]
  BY DEF Init
<1>4. [r \in Runners |-> Authority(r)] = [p \in Promised!Places |-> IF p = 0 THEN "held" ELSE "none"]
  BY RunnersArePlaces DEF Init, Authority
<1>. QED  BY <1>1, <1>2, <1>3, <1>4 DEF Promised!Init

\* A replacement is a relocation: every step of workers, sweep and runners is a step of
\* Relocation or changes nothing there.
THEOREM RelocationImplemented == Spec => Relocates
<1>1. ASSUME IInv, [Next]_vars PROVE [Promised!Next]_(Promised!vars)
  <2>1. TypeOK /\ WorkFits
    BY <1>1 DEF IInv
  <2>2. ASSUME UNCHANGED <<replacement, runner, home>> PROVE PromisedStep
    BY <2>2, SameRows, SameAuthority DEF PromisedStep
  <2>3. ASSUME NEW w \in Workers, ConfigFails(w) PROVE PromisedStep
    <3>1. work[w].pc # "idle" /\ FailClaim(w) /\ UNCHANGED <<runner, home>>
      BY <2>3 DEF ConfigFails, agents
    <3>2. Quiet
      BY <3>1, SameAuthority DEF Quiet
    <3>3. Leaves(w) \/ Moves(w, "failed")
      BY <2>1, <3>1, ApplyShape DEF FailClaim, Outcomes, TypeOK
    <3>. QED  BY <2>1, <3>1, <3>2, <3>3, PromisedOutcome DEF Outcomes
  <2>4. ASSUME NEW w \in Workers, NEW i \in Replacements, Claim(w, i) PROVE PromisedStep
    <3>1. \A j \in Replacements : /\ replacement'[j].state = replacement[j].state
                                  /\ replacement'[j].source = replacement[j].source
      <4>1. replacement'[i].state = replacement[i].state /\ replacement'[i].source = replacement[i].source
        BY <2>1, <2>4 DEF Claim, TypeOK, RowType, Rows
      <4>2. \A k \in Replacements \ {i} : replacement'[k] = replacement[k]
        BY <2>1, <2>4 DEF Claim, TypeOK, RowType
      <4>. QED  BY <4>1, <4>2
    <3>2. UNCHANGED <<runner, home>>
      BY <2>4 DEF Claim, agents
    <3>. QED  BY <3>1, <3>2, SameRows, SameAuthority DEF PromisedStep
  <2>5. ASSUME NEW i \in Replacements, NEW s \in Runners, OpenForDeployment(i, s) PROVE PromisedStep
    <3>1. Quiet
      BY <2>5, SameAuthority DEF OpenForDeployment, Quiet, agents
    <3>. QED  BY <2>1, <2>5, <3>1, PromisedOpening DEF OpenForDeployment
  <2>6. PromisedStep
    BY <1>1, <2>1, <2>2, <2>3, <2>4, <2>5, PromisedWork, PromisedSweep, PromisedEnvironment
       DEF Next, Abort, Die, vars, agents
  <2>. QED  BY <2>6 DEF PromisedStep, Phases, Sources, Authorities, Promised!vars
<1>. QED  BY <1>1, InitIInv, NextIInv, PromisedInit, PTL DEF Spec, Relocates, Promised!Spec
=============================================================================
