-------------------------- MODULE RunnerReplacement --------------------------
(***************************************************************************)
(* How agents are moved from a runner that went bad to a fresh one, and    *)
(* what the infrastructure sweep does to runners meanwhile                 *)
(* (src/server/runners: runner-replacement-reconciler, -store and -state,  *)
(* the automatic part of runner-provisioning, runner-infrastructure-       *)
(* reconciler, and what runner-heartbeat writes to a runner's row).        *)
(*                                                                         *)
(* Runner 0 serves the agents at first; runner i is the target of the i-th *)
(* replacement.  A worker claims a replacement for one step of its states  *)
(* and carries it over several awaits.  Time is only the fact that a claim *)
(* has grown old: its provider calls are aborted (30 s) and then its lease *)
(* may be taken over (90 s); the worker itself goes on.                    *)
(***************************************************************************)
EXTENDS Naturals, FiniteSets

CONSTANTS
    Workers, NoWorker,
    Agents, NoRunner,
    Residents,       \* the agents that runner 0 serves at first
    MaxReplacements, \* bound: replacements ever opened
    MaxAttempts,     \* claims after which waiting gives up (the code's 8)
    Budget,          \* paid targets of one deployment per day (the code's 2)
    Capacity,        \* running agents a runner takes
    MaxFaults,       \* bound: provider failures, slow claims, deaths, bad configurations,
                     \* missed heartbeats, droplets deleted behind the program's back
    MaxSweeps        \* bound: inventories taken

Replacements == 1..MaxReplacements
Runners == 0..MaxReplacements

ASSUME ReplacementAssumption ==
    /\ NoWorker \notin Workers
    /\ NoRunner \notin Runners /\ Residents \subseteq Agents
    /\ MaxReplacements \in Nat /\ MaxAttempts \in Nat \ {0}
    /\ Budget \in Nat /\ Capacity \in Nat

VARIABLES
    replacement, \* the rows of runner_replacements
    runner,      \* the rows of runners, with their credential
    droplet,     \* what exists at the provider
    creates,     \* droplet creations requested for each runner
    work,        \* what each worker is at
    home,        \* agents.runner_id
    wanted,      \* agents.desired_status
    settled,     \* is the agent ready (or stopped) since it was handed over?
    sweep,       \* the inventory an infrastructure sweep has taken
    observed,    \* runner_infrastructure_orphans: was the droplet seen before?
    used         \* the bounded counters

agents == <<home, wanted, settled>>
cloud == <<droplet, creates>>
sweeper == <<sweep, observed>>
vars == <<replacement, runner, cloud, work, agents, sweeper, used>>

States == {"pending", "provisioning", "validating", "fencing", "reassigning",
           "converging", "cleaning"}
Reasons == {"deployment", "missing", "failed", "stale"}
Idle == [pc |-> "idle", id |-> 0, state |-> "pending", last |-> FALSE, aborted |-> FALSE]

NoSweep == [on |-> FALSE, list |-> {}, walled |-> {}]

Rows == [state : States \cup {"none", "complete", "failed"}, source : Runners,
         reason : Reasons, attempts : 0..MaxAttempts, owner : Workers \cup {NoWorker},
         reserved : BOOLEAN, moved : SUBSET Agents]
RunnerRows ==
    [prov : {"none", "pending", "creating", "tagging", "firewall", "waiting", "ready", "failed",
             "deleted"},
     status : {"new", "online", "degraded", "offline", "failed"},
     resource : BOOLEAN, firewall : BOOLEAN,
     credential : {"none", "pending", "active", "revoked"}]
Jobs == [pc : {"idle", "claimed", "draining", "announcing", "creating", "requested", "recording",
               "refreshing", "validated", "stopping", "retiring", "retired", "doomed", "discarded"},
         id : {0} \cup Replacements, state : States, last : BOOLEAN, aborted : BOOLEAN]

CloudType == /\ droplet \in [Runners -> {"none", "requested", "up", "walled", "gone"}]
             /\ creates \in [Runners -> Nat]
AgentType == /\ home \in [Agents -> Runners \cup {NoRunner}]
             /\ wanted \in [Agents -> {"running", "stopped"}]
             /\ settled \in [Agents -> BOOLEAN]
SweepType == /\ sweep \in [on : BOOLEAN, list : SUBSET Runners, walled : SUBSET Runners]
             /\ observed \in [Runners -> BOOLEAN]
UsedType == used \in [faults : Nat, sweeps : Nat]

RowType == replacement \in [Replacements -> Rows]
RunnerType == runner \in [Runners -> RunnerRows]
WorkType == /\ work \in [Workers -> Jobs]
            /\ \A w \in Workers : work[w].pc # "idle" => work[w].id \in Replacements

TypeOK ==
    /\ RowType /\ RunnerType /\ WorkType /\ CloudType /\ AgentType /\ SweepType /\ UsedType

\* The other agents wait to be placed.
Init ==
    /\ replacement = [i \in Replacements |->
         [state |-> "none", source |-> 0, reason |-> "deployment", attempts |-> 0,
          owner |-> NoWorker, reserved |-> FALSE, moved |-> {}]]
    /\ runner = [r \in Runners |->
         IF r = 0
           THEN [prov |-> "ready", status |-> "online", resource |-> TRUE, firewall |-> TRUE,
                 credential |-> "active"]
           ELSE [prov |-> "none", status |-> "new", resource |-> FALSE, firewall |-> FALSE,
                 credential |-> "none"]]
    /\ droplet = [r \in Runners |-> IF r = 0 THEN "walled" ELSE "none"]
    /\ creates = [r \in Runners |-> 0]
    /\ work = [w \in Workers |-> Idle]
    /\ home = [a \in Agents |-> IF a \in Residents THEN 0 ELSE NoRunner]
    /\ wanted = [a \in Agents |-> "running"]
    /\ settled = [a \in Agents |-> TRUE]
    /\ sweep = NoSweep
    /\ observed = [r \in Runners |-> FALSE]
    /\ used = [faults |-> 0, sweeps |-> 0]

(* Operators named Mutant... are slips the code could have had, one for a property; *)
(* each stands before the definition it deforms and is used nowhere.               *)

Alive(r) == runner[r].prov \notin {"none", "deleted"}
Exists(r) == droplet[r] \in {"up", "walled"}
Open(i) == replacement[i].state \in States
Assigned(r) == {a \in Agents : home[a] = r}
Running(r) == {a \in Assigned(r) : wanted[a] = "running"}
Fault == /\ used.faults < MaxFaults
         /\ used' = [used EXCEPT !.faults = @ + 1]

-----------------------------------------------------------------------------
(* Rows of replacements: opening, claiming, the fence of every transition *)

\* createOrGetRunnerReplacement: one open replacement per source.
Opened(i, s, reason) ==
    /\ replacement[i].state = "none"
    /\ \A j \in Replacements : j < i => replacement[j].state # "none"
    /\ \A j \in Replacements : Open(j) => replacement[j].source # s
    /\ replacement' = [replacement EXCEPT ![i] =
         [@ EXCEPT !.state = "pending", !.source = s, !.reason = reason]]

\* A deployment asks for a new runner.
OpenForDeployment(i, s) ==
    /\ Alive(s)
    /\ Running(s) # {}
    /\ Opened(i, s, "deployment")
    /\ UNCHANGED <<runner, cloud, work, agents, sweeper, used>>

MutantLapsed(i) == replacement[i].owner = NoWorker

\* The owner's worker died, took up something else, or has held it past the lease.
Lapsed(i) ==
    LET w == replacement[i].owner
    IN  w # NoWorker => work[w].pc = "idle" \/ work[w].id # i \/ work[w].aborted

MutantCounted(n) == n + 1

\* Attempts count every claim of every state; beyond the limit they are all the same.
Counted(n) == IF n < MaxAttempts THEN n + 1 ELSE n

\* An invocation of the cron route or of a trigger; those to come are alike.
Claim(w, i) ==
    /\ work[w].pc = "idle"
    /\ w = CHOOSE v \in Workers : work[v].pc = "idle"
    /\ Open(i)
    /\ Alive(replacement[i].source)
    /\ Lapsed(i)
    /\ replacement' = [replacement EXCEPT ![i].owner = w, ![i].attempts = Counted(@)]
    /\ work' = [work EXCEPT ![w] =
         [pc |-> "claimed", id |-> i, state |-> replacement[i].state,
          last |-> Counted(replacement[i].attempts) = MaxAttempts, aborted |-> FALSE]]
    /\ UNCHANGED <<runner, cloud, agents, sweeper, used>>

Owns(w) == replacement[work[w].id].owner = w
State(w) == work[w].state
Source(w) == replacement[work[w].id].source
Target(w) == work[w].id

MutantFence(w) == Alive(Source(w)) /\ (State(w) # "pending" => Alive(Target(w)))

\* applyClaimedRunnerReplacementTransition: the claim is still this worker's and
\* neither runner of the pair has been deleted.
Fence(w) ==
    /\ Owns(w)
    /\ Alive(Source(w))
    /\ State(w) # "pending" => Alive(Target(w))

Moved(w, state) ==
    [replacement EXCEPT ![work[w].id] = [@ EXCEPT !.state = state, !.owner = NoWorker]]

\* A transition that changes nothing when the fence is lost; the worker is done.
Apply(w, state) ==
    /\ replacement' = IF Fence(w) THEN Moved(w, state) ELSE replacement
    /\ work' = [work EXCEPT ![w] = Idle]

Retry(w) == Apply(w, State(w))
FailClaim(w) == Apply(w, "failed")
RetryOrFail(w) == Apply(w, IF work[w].last THEN "failed" ELSE State(w))
Goto(w, label) ==
    /\ work' = [work EXCEPT ![w].pc = label]
    /\ UNCHANGED replacement
Claimed(w, state) == work[w].pc = "claimed" /\ State(w) = state

\* The claim has grown old: the abort signal of its provider calls is raised.
Abort(w) ==
    /\ work[w].pc # "idle"
    /\ ~work[w].aborted
    /\ Fault
    /\ work' = [work EXCEPT ![w].aborted = TRUE]
    /\ UNCHANGED <<replacement, runner, cloud, agents, sweeper>>

\* The process ends between two steps, or a lost fence throws.
Die(w) ==
    /\ work[w].pc # "idle"
    /\ Fault
    /\ work' = [work EXCEPT ![w] = Idle]
    /\ UNCHANGED <<replacement, runner, cloud, agents, sweeper>>

\* The provider configuration is missing or unusable; any state ends then.
ConfigFails(w) ==
    /\ work[w].pc = "claimed"
    /\ Fault
    /\ FailClaim(w)
    /\ UNCHANGED <<runner, cloud, agents, sweeper>>

-----------------------------------------------------------------------------
(* pending: initializeTarget, one transaction *)

\* isInfrastructureReplacementSourceEligible
Eligible(s, reason) ==
    CASE reason = "deployment" -> TRUE
      [] reason = "failed"     -> runner[s].prov = "failed"
      [] reason = "missing"    -> runner[s].prov \in {"ready", "failed"}
      [] reason = "stale"      -> runner[s].prov = "ready" /\ runner[s].status \in {"offline", "degraded"}

\* The target's row and its association; both are rolled back when the fence is lost.
InitializeTarget(w) ==
    /\ Claimed(w, "pending")
    /\ IF Eligible(Source(w), replacement[work[w].id].reason)
         THEN /\ Apply(w, "provisioning")
              /\ runner' = IF Fence(w) THEN [runner EXCEPT ![Target(w)].prov = "pending"] ELSE runner
         ELSE FailClaim(w) /\ UNCHANGED runner
    /\ UNCHANGED <<cloud, agents, sweeper, used>>

-----------------------------------------------------------------------------
(* provisioning_target: the budget, then the drain of                       *)
(* advanceAutomaticDigitalOceanRunnerProvisioning.  What it writes to the    *)
(* target's row is fenced by nothing but the row being there.               *)

Write(r, fields) == [runner EXCEPT ![r] = IF Alive(r) THEN fields ELSE @]
MarkFailed(r) == runner' = Write(r, [runner[r] EXCEPT !.prov = "failed", !.status = "failed"])

Spent(w) == Cardinality({j \in Replacements : replacement[j].reserved
                           /\ replacement[j].source = Source(w) /\ j # work[w].id})

\* reserveClaimedRunnerReplacementBudget; a lost fence throws.
StartProvisioning(w) ==
    LET i == work[w].id
        paid == replacement[i].reason # "deployment" \/ replacement[i].reserved
    IN
    /\ Claimed(w, "provisioning")
    /\ CASE ~Alive(Target(w)) -> FailClaim(w)
         [] Alive(Target(w)) /\ runner[Target(w)].prov = "failed" -> Goto(w, "doomed")
         [] Alive(Target(w)) /\ runner[Target(w)].prov # "failed" ->
              \/ paid /\ Goto(w, "draining")
              \/ /\ ~paid /\ Owns(w) /\ Spent(w) < Budget
                 /\ replacement' = [replacement EXCEPT ![i].reserved = TRUE]
                 /\ work' = [work EXCEPT ![w].pc = "draining"]
              \/ /\ ~paid /\ Owns(w) /\ Spent(w) >= Budget
                 /\ replacement' = Moved(w, "failed")
                 /\ work' = [work EXCEPT ![w] = Idle]
              \/ ~paid /\ ~Owns(w) /\ work' = [work EXCEPT ![w] = Idle] /\ UNCHANGED replacement
    /\ UNCHANGED <<runner, cloud, agents, sweeper, used>>

\* A phase that could not be observed or done: wait, or give the target up.
Unobserved(w) ==
    IF work[w].last
      THEN MarkFailed(Target(w)) /\ Goto(w, "doomed")
      ELSE Goto(w, "refreshing") /\ UNCHANGED runner

\* The row is read, and the provider is asked for droplets with the operation's tag.
Discover(w) ==
    LET t == Target(w)
        prov == runner[t].prov
    IN
    /\ work[w].pc = "draining"
    /\ \/ prov \in {"waiting", "ready"} /\ Goto(w, "refreshing") /\ UNCHANGED <<runner, used>>
       \/ prov \in {"failed", "deleted"} /\ Goto(w, "doomed") /\ UNCHANGED <<runner, used>>
       \/ /\ prov \in {"pending", "creating"}
          /\ \/ work[w].aborted /\ Goto(w, "refreshing") /\ UNCHANGED <<runner, used>>
             \/ work[w].aborted /\ Unobserved(w) /\ UNCHANGED used
             \/ ~work[w].aborted /\ Fault /\ Unobserved(w)
             \/ ~work[w].aborted /\ Exists(t) /\ Goto(w, "recording") /\ UNCHANGED <<runner, used>>
             \/ /\ ~work[w].aborted /\ ~Exists(t) /\ prov = "creating"
                /\ Unobserved(w) /\ UNCHANGED used
             \/ /\ ~work[w].aborted /\ ~Exists(t) /\ prov = "pending"
                /\ Goto(w, "announcing") /\ UNCHANGED <<runner, used>>
    /\ UNCHANGED <<cloud, agents, sweeper>>

\* A registration token, then the phase that says a creation may be under way.
Announce(w) ==
    /\ work[w].pc = "announcing"
    /\ Goto(w, IF Alive(Target(w)) THEN "creating" ELSE "refreshing")
    /\ runner' = Write(Target(w), [runner[Target(w)] EXCEPT !.prov = "creating",
                                     !.credential = IF @ = "none" THEN "pending" ELSE @])
    /\ UNCHANGED <<cloud, agents, sweeper, used>>

MutantEffectAllowed(w) == TRUE

\* automaticProviderEffectAllowed
EffectAllowed(w) == ~work[w].aborted

Create(w) ==
    /\ work[w].pc = "creating"
    /\ \/ /\ EffectAllowed(w)
          /\ creates' = [creates EXCEPT ![Target(w)] = @ + 1]
          /\ droplet' = [droplet EXCEPT ![Target(w)] = IF @ = "none" THEN "requested" ELSE @]
          /\ Goto(w, "requested")
       \/ ~EffectAllowed(w) /\ Goto(w, "refreshing") /\ UNCHANGED cloud
    /\ UNCHANGED <<runner, agents, sweeper, used>>

\* The answer: created, refused, or lost (create_outcome_unknown).
CreateAnswered(w) ==
    LET t == Target(w) IN
    /\ work[w].pc = "requested"
    /\ \/ ~work[w].aborted /\ Exists(t) /\ Goto(w, "recording") /\ UNCHANGED <<runner, droplet, used>>
       \/ /\ ~work[w].aborted /\ droplet[t] = "requested" /\ Fault
          /\ droplet' = [droplet EXCEPT ![t] = "none"]
          /\ MarkFailed(t) /\ Goto(w, "doomed")
       \/ ~work[w].aborted /\ Fault /\ Goto(w, "refreshing") /\ UNCHANGED <<runner, droplet>>
       \/ /\ work[w].aborted \/ droplet[t] \in {"none", "gone"}
          /\ Goto(w, "refreshing") /\ UNCHANGED <<runner, droplet, used>>
    /\ UNCHANGED <<creates, agents, sweeper>>

\* completeAutomaticProvisioningPhase: the droplet's id, found or created.
Record(w) ==
    LET t == Target(w) IN
    /\ work[w].pc = "recording"
    /\ runner' = Write(t, [runner[t] EXCEPT !.prov = "tagging", !.resource = TRUE,
                             !.firewall = droplet[t] = "walled"])
    /\ Goto(w, "draining")
    /\ UNCHANGED <<cloud, agents, sweeper, used>>

\* Tagging, then the firewall; the last phase leaves the runner to register.
Equip(w) ==
    LET t == Target(w)
        r == runner[t]
    IN
    /\ work[w].pc = "draining"
    /\ r.prov \in {"tagging", "firewall"}
    /\ \/ /\ ~r.resource /\ MarkFailed(t) /\ Goto(w, "doomed") /\ UNCHANGED <<droplet, used>>
       \/ /\ r.resource /\ ~work[w].aborted /\ Exists(t) /\ r.prov = "tagging"
          /\ runner' = [runner EXCEPT ![t].prov = "firewall"]
          /\ Goto(w, "draining") /\ UNCHANGED <<droplet, used>>
       \/ /\ r.resource /\ ~work[w].aborted /\ Exists(t) /\ r.prov = "firewall"
          /\ droplet' = [droplet EXCEPT ![t] = "walled"]
          /\ runner' = [runner EXCEPT ![t] = [@ EXCEPT !.prov = "waiting", !.status = "new", !.firewall = TRUE]]
          /\ Goto(w, "refreshing") /\ UNCHANGED used
       \/ r.resource /\ work[w].aborted /\ Goto(w, "refreshing") /\ UNCHANGED <<runner, droplet, used>>
       \/ r.resource /\ (work[w].aborted \/ ~Exists(t)) /\ Unobserved(w) /\ UNCHANGED <<droplet, used>>
       \/ /\ r.resource /\ ~work[w].aborted /\ Fault /\ Unobserved(w) /\ UNCHANGED droplet
    /\ UNCHANGED <<creates, agents, sweeper>>

\* After the drain the target is read again.
Refresh(w) ==
    LET prov == runner[Target(w)].prov IN
    /\ work[w].pc = "refreshing"
    /\ CASE prov = "failed"              -> Goto(w, "doomed")
         [] prov \in {"waiting", "ready"} -> Apply(w, "validating")
         [] OTHER                        -> Retry(w)
    /\ UNCHANGED <<runner, cloud, agents, sweeper, used>>

-----------------------------------------------------------------------------
(* validating_target and the removal of a failed target *)

\* confirmCloudRunnerReadiness: a registered runner is probed once it is online.
Validate(w) ==
    LET t == Target(w)
        waits == runner[t].prov = "waiting" /\ runner[t].status = "online"
        NotReady == IF work[w].last THEN Goto(w, "doomed") ELSE Retry(w)
    IN
    /\ Claimed(w, "validating")
    /\ \/ ~Alive(t) /\ FailClaim(w) /\ UNCHANGED runner
       \/ Alive(t) /\ runner[t].prov = "ready" /\ Goto(w, "validated") /\ UNCHANGED runner
       \/ /\ waits /\ Exists(t)
          /\ runner' = [runner EXCEPT ![t].prov = "ready"]
          /\ Goto(w, "validated")
       \/ /\ waits /\ Exists(t)
          /\ runner' = [runner EXCEPT ![t] = [@ EXCEPT !.prov = "failed", !.status = "failed"]]
          /\ NotReady
       \/ Alive(t) /\ runner[t].prov # "ready" /\ NotReady /\ UNCHANGED runner
    /\ UNCHANGED <<cloud, agents, sweeper, used>>

\* Capacity for the source's agents and a fresh heartbeat, then the fence; whatever
\* of them fails, the target is to be removed.
AcceptTarget(w) ==
    LET t == Target(w)
        fit == /\ Cardinality(Assigned(Source(w))) <= Capacity
               /\ runner[t].prov = "ready" /\ runner[t].status = "online"
    IN
    /\ work[w].pc = "validated"
    /\ IF fit /\ Fence(w) THEN Apply(w, "fencing") ELSE Goto(w, "doomed")
    /\ UNCHANGED <<runner, cloud, agents, sweeper, used>>

MutantMayDelete(w) == TRUE

\* The signal of the provider's context.
MayDelete(w) == ~work[w].aborted

\* cleanupFailedTarget: only a droplet whose id the row has is deleted.
Discard(w) ==
    LET t == Target(w) IN
    /\ work[w].pc = "doomed"
    /\ \/ ~Alive(t) /\ FailClaim(w) /\ UNCHANGED <<droplet, used>>
       \/ Alive(t) /\ ~MayDelete(w) /\ RetryOrFail(w) /\ UNCHANGED <<droplet, used>>
       \/ Alive(t) /\ MayDelete(w) /\ Fault /\ RetryOrFail(w) /\ UNCHANGED droplet
       \/ /\ Alive(t) /\ MayDelete(w) /\ Exists(t) /\ ~runner[t].resource
          /\ FailClaim(w) /\ UNCHANGED <<droplet, used>>
       \/ /\ Alive(t) /\ MayDelete(w) /\ Exists(t) /\ runner[t].resource
          /\ droplet' = [droplet EXCEPT ![t] = "gone"]
          /\ Goto(w, "discarded") /\ UNCHANGED used
       \/ /\ Alive(t) /\ MayDelete(w) /\ ~Exists(t)
          /\ Goto(w, "discarded") /\ UNCHANGED <<droplet, used>>
    /\ UNCHANGED <<runner, creates, agents, sweeper>>

Tombstone(r) == [runner EXCEPT ![r] = [@ EXCEPT !.prov = "deleted", !.credential = "revoked"]]

Discarded(w) ==
    /\ work[w].pc = "discarded"
    /\ FailClaim(w)
    /\ runner' = IF Fence(w) THEN Tombstone(Target(w)) ELSE runner
    /\ UNCHANGED <<cloud, agents, sweeper, used>>

-----------------------------------------------------------------------------
(* fencing_source, reassigning, converging_agents, cleaning_source *)

\* The source takes no more work; then its agents are told to stop, whatever comes of it.
Degrade(w) ==
    /\ Claimed(w, "fencing")
    /\ IF Owns(w) /\ Alive(Source(w))
         THEN runner' = [runner EXCEPT ![Source(w)].status = "degraded"] /\ Goto(w, "stopping")
         ELSE FailClaim(w) /\ UNCHANGED runner
    /\ UNCHANGED <<cloud, agents, sweeper, used>>

Revoked(r) == [runner EXCEPT ![r].credential = "revoked"]

\* Its credentials and pending registrations go with the transition.
Revoke(w) ==
    /\ work[w].pc = "stopping"
    /\ Apply(w, "reassigning")
    /\ runner' = IF Fence(w) THEN Revoked(Source(w)) ELSE runner
    /\ UNCHANGED <<cloud, agents, sweeper, used>>

MutantHandoverReady(w) ==
    /\ runner[Target(w)].prov = "ready" /\ runner[Target(w)].status = "online"

HandoverReady(w) ==
    LET s == Source(w)
        t == Target(w)
    IN
    /\ Alive(s) /\ runner[s].status = "degraded"
    /\ runner[t].prov = "ready" /\ runner[t].status = "online"
    /\ runner[s].credential # "active"
    /\ Cardinality(Running(s)) + Cardinality(Running(t)) <= Capacity

\* One transaction; any obstacle fails the replacement with the source still fenced.
Reassign(w) ==
    LET moving == Assigned(Source(w)) IN
    /\ Claimed(w, "reassigning")
    /\ IF HandoverReady(w) /\ Fence(w)
         THEN /\ replacement' = [Moved(w, "converging") EXCEPT ![work[w].id].moved = moving]
              /\ home' = [a \in Agents |-> IF a \in moving THEN Target(w) ELSE home[a]]
              /\ settled' = [a \in Agents |-> settled[a] /\ a \notin moving]
              /\ work' = [work EXCEPT ![w] = Idle]
         ELSE FailClaim(w) /\ UNCHANGED <<home, settled>>
    /\ UNCHANGED <<runner, cloud, wanted, sweeper, used>>

\* Failed deployments are retried, the others triggered again, without a limit.
Converge(w) ==
    LET moved == replacement[work[w].id].moved \cap Assigned(Target(w)) IN
    /\ Claimed(w, "converging")
    /\ IF \A a \in moved : settled[a] THEN Apply(w, "cleaning") ELSE Retry(w)
    /\ UNCHANGED <<runner, cloud, agents, sweeper, used>>

Inspect(w) ==
    /\ Claimed(w, "cleaning")
    /\ CASE ~Alive(Source(w)) -> FailClaim(w)
         [] Alive(Source(w)) /\ Assigned(Source(w)) # {} -> Retry(w)
         [] Alive(Source(w)) /\ Assigned(Source(w)) = {} -> Goto(w, "retiring")
    /\ UNCHANGED <<runner, cloud, agents, sweeper, used>>

Retire(w) ==
    LET s == Source(w) IN
    /\ work[w].pc = "retiring"
    /\ \/ work[w].aborted /\ Retry(w) /\ UNCHANGED <<droplet, used>>
       \/ ~work[w].aborted /\ Fault /\ Retry(w) /\ UNCHANGED droplet
       \/ ~work[w].aborted /\ Exists(s) /\ ~runner[s].resource /\ Retry(w) /\ UNCHANGED <<droplet, used>>
       \/ /\ ~work[w].aborted
          /\ Exists(s) => runner[s].resource
          /\ droplet' = IF Exists(s) THEN [droplet EXCEPT ![s] = "gone"] ELSE droplet
          /\ Goto(w, "retired") /\ UNCHANGED used
    /\ UNCHANGED <<runner, creates, agents, sweeper>>

Retired(w) ==
    LET s == Source(w) IN
    /\ work[w].pc = "retired"
    /\ Apply(w, "complete")
    /\ runner' = IF Fence(w) THEN Tombstone(s) ELSE runner
    /\ home' = IF Fence(w) THEN [a \in Agents |-> IF home[a] = s THEN NoRunner ELSE home[a]] ELSE home
    /\ UNCHANGED <<cloud, wanted, settled, sweeper, used>>

-----------------------------------------------------------------------------
(* Runners, agents and the provider *)

\* A creation that was asked for happens, or (its answer was lost) never does.
DropletAppears(r) ==
    /\ droplet[r] = "requested"
    /\ \/ droplet' = [droplet EXCEPT ![r] = "up"] /\ UNCHANGED used
       \/ Fault /\ droplet' = [droplet EXCEPT ![r] = "none"]
    /\ UNCHANGED <<replacement, runner, creates, work, agents, sweeper>>

DropletVanishes(r) ==
    /\ Exists(r)
    /\ Fault
    /\ droplet' = [droplet EXCEPT ![r] = "gone"]
    /\ UNCHANGED <<replacement, runner, creates, work, agents, sweeper>>

\* The booted runner exchanges its registration token for a credential.
Register(r) ==
    /\ Exists(r) /\ Alive(r)
    /\ runner[r].credential = "pending"
    /\ runner' = [runner EXCEPT ![r].credential = "active"]
    /\ UNCHANGED <<replacement, cloud, work, agents, sweeper, used>>

\* recordRunnerHeartbeat: whatever the status was, unless provisioning failed.
Heartbeat(r) ==
    /\ Exists(r) /\ Alive(r)
    /\ runner[r].credential = "active"
    /\ runner[r].prov # "failed"
    /\ runner' = [runner EXCEPT ![r].status = "online"]
    /\ UNCHANGED <<replacement, cloud, work, agents, sweeper, used>>

\* reconcileStaleRunnerHeartbeats
GoesStale(r) ==
    /\ Alive(r)
    /\ runner[r].status \in {"online", "degraded"}
    /\ Fault
    /\ runner' = [runner EXCEPT ![r].status = "offline"]
    /\ UNCHANGED <<replacement, cloud, work, agents, sweeper>>

\* selectRunnerPlacementForUser: any online, ready runner with room, targets included.
Place(a, r) ==
    /\ home[a] = NoRunner
    /\ wanted[a] = "running"
    /\ runner[r].status = "online" /\ runner[r].prov = "ready"
    /\ Cardinality(Running(r)) < Capacity
    /\ home' = [home EXCEPT ![a] = r]
    /\ UNCHANGED <<replacement, runner, cloud, work, wanted, settled, sweeper, used>>

\* The deployment and the runtime controller bring the agent to ready.
Settle(a) ==
    /\ ~settled[a]
    /\ home[a] # NoRunner
    /\ wanted[a] = "running" => Alive(home[a]) /\ Exists(home[a]) /\ runner[home[a]].credential = "active"
    /\ settled' = [settled EXCEPT ![a] = TRUE]
    /\ UNCHANGED <<replacement, runner, cloud, work, home, wanted, sweeper, used>>

OwnerStops(a) ==
    /\ wanted[a] = "running"
    /\ home[a] # NoRunner
    /\ wanted' = [wanted EXCEPT ![a] = "stopped"]
    /\ UNCHANGED <<replacement, runner, cloud, work, home, settled, sweeper, used>>

-----------------------------------------------------------------------------
(* The infrastructure sweep: an inventory, then the rows, then one outcome *)

TakeInventory ==
    /\ ~sweep.on
    /\ used.sweeps < MaxSweeps
    /\ used' = [used EXCEPT !.sweeps = @ + 1]
    /\ sweep' = [on |-> TRUE, list |-> {r \in Runners : Exists(r)},
                 walled |-> {r \in Runners : droplet[r] = "walled"}]
    /\ UNCHANGED <<replacement, runner, cloud, work, agents, observed>>

Missing(r) == Alive(r) /\ runner[r].resource /\ r \notin sweep.list
Interrupted(r) == Alive(r) /\ ~runner[r].resource /\ r \in sweep.list
Replaceable(r) == runner[r].prov \in {"ready", "failed"}

\* replacementReasonForUnhealthyRunner; "ok" is the code's null.
Health(r) ==
    CASE runner[r].prov = "failed" -> "failed"
      [] runner[r].prov = "ready" /\ runner[r].status \in {"offline", "degraded"} -> "stale"
      [] OTHER -> "ok"

Unhealthy(r) ==
    /\ Alive(r) /\ runner[r].resource /\ r \in sweep.list
    /\ Assigned(r) # {} /\ Health(r) # "ok"

Orphans == {r \in sweep.list : ~Alive(r)}

\* Rows are visited from the oldest; the first that calls for something ends the sweep.
First(r) == \A q \in Runners : q < r => ~Missing(q) /\ ~Interrupted(q) /\ ~Unhealthy(q)

StaleAssignments == {a \in Agents : home[a] # NoRunner /\ ~Alive(home[a])}

ClearStaleAssignment(a) ==
    /\ sweep.on
    /\ a \in StaleAssignments
    /\ home' = [home EXCEPT ![a] = NoRunner]
    /\ sweep' = NoSweep
    /\ UNCHANGED <<replacement, runner, cloud, work, wanted, settled, observed, used>>

\* startRunnerReplacement: the source is degraded, and an open replacement is joined.
SweepReplaces(r) ==
    /\ sweep.on /\ StaleAssignments = {} /\ First(r)
    /\ Missing(r) \/ Unhealthy(r)
    /\ Assigned(r) # {}
    /\ Replaceable(r)
    /\ runner' = [runner EXCEPT ![r].status = "degraded"]
    /\ \/ \E i \in Replacements : Opened(i, r, IF Missing(r) THEN "missing" ELSE Health(r))
       \/ (\E j \in Replacements : Open(j) /\ replacement[j].source = r) /\ UNCHANGED replacement
    /\ sweep' = NoSweep
    /\ UNCHANGED <<cloud, work, agents, observed, used>>

SweepTombstones(r) ==
    /\ sweep.on /\ StaleAssignments = {} /\ First(r)
    /\ Missing(r)
    /\ Assigned(r) = {}
    /\ runner' = Tombstone(r)
    /\ sweep' = NoSweep
    /\ UNCHANGED <<replacement, cloud, work, agents, observed, used>>

SweepAdopts(r) ==
    /\ sweep.on /\ StaleAssignments = {} /\ First(r)
    /\ Interrupted(r)
    /\ runner' = [runner EXCEPT ![r] =
         [@ EXCEPT !.resource = TRUE, !.firewall = r \in sweep.walled, !.status = "new",
                   !.prov = IF r \in sweep.walled THEN "waiting" ELSE "tagging"]]
    /\ sweep' = NoSweep
    /\ UNCHANGED <<replacement, cloud, work, agents, observed, used>>

\* hasActiveRunnerOwnership
Owned(r) == Alive(r)

\* Seen once before, after the grace time, and behind a firewall of its own.
SweepOrphan(r) ==
    /\ sweep.on /\ StaleAssignments = {}
    /\ \A q \in Runners : ~Missing(q) /\ ~Interrupted(q) /\ ~Unhealthy(q)
    /\ r \in Orphans /\ ~Owned(r)
    /\ \/ /\ observed[r] /\ r \in sweep.walled
          /\ droplet' = [droplet EXCEPT ![r] = "gone"]
          /\ UNCHANGED observed
       \/ observed' = [observed EXCEPT ![r] = TRUE] /\ UNCHANGED droplet
    /\ sweep' = NoSweep
    /\ UNCHANGED <<replacement, runner, creates, work, agents, used>>

\* Nothing to do, something to wait for, or a provider that does not answer.
SweepEnds ==
    /\ sweep.on
    /\ sweep' = NoSweep
    /\ UNCHANGED <<replacement, runner, cloud, work, agents, observed, used>>

-----------------------------------------------------------------------------
Step(w) ==
    \/ InitializeTarget(w) \/ StartProvisioning(w)
    \/ Discover(w) \/ Announce(w) \/ Create(w) \/ CreateAnswered(w) \/ Record(w) \/ Equip(w) \/ Refresh(w)
    \/ Validate(w) \/ AcceptTarget(w) \/ Discard(w) \/ Discarded(w)
    \/ Degrade(w) \/ Revoke(w) \/ Reassign(w) \/ Converge(w)
    \/ Inspect(w) \/ Retire(w) \/ Retired(w)

Sweep ==
    \/ TakeInventory \/ SweepEnds
    \/ \E a \in Agents : ClearStaleAssignment(a)
    \/ \E r \in Runners : SweepReplaces(r) \/ SweepTombstones(r) \/ SweepAdopts(r) \/ SweepOrphan(r)

Environment ==
    \/ \E r \in Runners : DropletAppears(r) \/ DropletVanishes(r) \/ Register(r) \/ Heartbeat(r) \/ GoesStale(r)
    \/ \E a \in Agents : Settle(a) \/ OwnerStops(a) \/ \E r \in Runners : Place(a, r)

Next ==
    \/ \E w \in Workers : Step(w) \/ Abort(w) \/ Die(w) \/ ConfigFails(w)
    \/ \E w \in Workers, i \in Replacements : Claim(w, i)
    \/ \E i \in Replacements, s \in Runners : OpenForDeployment(i, s)
    \/ Sweep
    \/ Environment

Spec == Init /\ [][Next]_vars

\* A claimed step goes on to its end; a due replacement is claimed (the cron route
\* claims what is due, oldest first); a creation that will happen happens; agents
\* that can be served become ready.
Fairness ==
    /\ \A w \in Workers : WF_vars(Step(w))
    /\ \A i \in Replacements : SF_vars(\E w \in Workers : Claim(w, i))
    /\ \A r \in Runners : WF_vars(DropletAppears(r))
    /\ \A a \in Agents : WF_vars(Settle(a))

FairSpec == Spec /\ Fairness

-----------------------------------------------------------------------------
(* Properties *)

\* One paid droplet per target: however claims are lost, retried and taken over, the
\* provider is asked for it at most once (runner-provisioning.ts, the "creating" phase).
CreatedOnce == \A r \in Runners : creates[r] <= 1

\* Once agents have been handed over, the old runner can neither command nor get an
\* agent again (the fence of reassignment, runner-replacement-reconciler.ts:710).
HandoverFenced ==
    \A i \in Replacements :
        replacement[i].state \in {"converging", "cleaning", "complete"} =>
            /\ Assigned(replacement[i].source) = {}
            /\ runner[replacement[i].source].credential # "active"

\* However late a worker is, the program never deletes the droplet of a runner that has
\* agents (cleanupFailedTarget, reconcileCleaningSource, reconcileOrphan).  Left open: an
\* agent placed on a target that then fails; that cleanup does not look at agents.
ServingDropletKept ==
    [][\A r \in Runners :
         Exists(r) /\ droplet'[r] = "gone" /\ Assigned(r) # {} =>
            \/ used'.faults > used.faults
            \/ \E i \in Replacements : i = r /\ replacement[i].state \in {"provisioning", "validating"}]_vars

Phase(state) ==
    CASE state = "none" -> "unopened"
      [] state \in {"pending", "provisioning", "validating", "fencing"} -> "preparing"
      [] state = "reassigning" -> "fenced"
      [] state \in {"converging", "cleaning"} -> "moved"
      [] state = "complete" -> "done"
      [] state = "failed" -> "abandoned"

Authority(r) ==
    CASE runner[r].credential = "active"  -> "held"
      [] runner[r].credential = "revoked" -> "lost"
      [] OTHER                            -> "none"

Promised == INSTANCE Relocation WITH
    Moves <- Replacements, Nowhere <- NoRunner,
    phase <- [i \in Replacements |-> Phase(replacement[i].state)],
    from <- [i \in Replacements |-> replacement[i].source],
    place <- home,
    authority <- [r \in Runners |-> Authority(r)]

\* Whatever claims are lost and taken over, a replacement is a relocation: no stale worker
\* takes a phase back, and agents move together, off a runner that has lost its authority.
Relocates == Promised!Spec

\* A fenced source stays "degraded" until its agents have been reassigned, as the handover
\* demands and its test expects (tests/unit/runner-replacement-handover.test.ts:88).
StaysFenced ==
    \A i \in Replacements :
        LET s == replacement[i].source
        IN  replacement[i].state = "reassigning" /\ Alive(s) => runner[s].status = "degraded"

\* Every replacement ends, unless the sweep has deleted one of its runners or the
\* new runner is lost before the agents are ready on it.
Settles ==
    \A i \in Replacements :
        Open(i) ~> \/ ~Open(i)
                   \/ ~Alive(replacement[i].source)
                   \/ replacement[i].state # "pending" /\ ~Alive(i)
                   \/ replacement[i].state = "converging" /\ ~Exists(i)
=============================================================================
