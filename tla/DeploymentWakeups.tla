-------------------------- MODULE DeploymentWakeups --------------------------
(***************************************************************************)
(* The wakeup outbox of one Agent Deployment                               *)
(* (src/server/agents/agent-deployment-dispatch.ts, the wakeup, cron and    *)
(* exhausted-wakeup routes).  Every write that makes the deployment due     *)
(* appends a wakeup row of the next generation and terminalizes the older   *)
(* live one, in the transaction that writes the deployment.  After commit a *)
(* publisher leases the row, asks QStash to call back at the due time and   *)
(* records the answer in a second transaction; between the two it may be    *)
(* aborted or crash.  QStash delivers at least once, late and out of order. *)
(* The signed callback claims the row and drains the deployment.           *)
(*                                                                         *)
(* The code compares two instants with the clock and with nothing else: a  *)
(* row's due_at and the expiry of its publication lease.  The row keeps    *)
(* the outcome of each comparison, and time passing is the action that     *)
(* changes it, so neither the clock nor the length of a lease is bounded.  *)
(***************************************************************************)
EXTENDS Integers, FiniteSets

CONSTANTS
    Publishers,         \* invocations of publishDeploymentWakeupAfterCommit / sweep
    NoOne,              \* publish_lease_owner IS NULL
    MaxGeneration,      \* bound: generations of the deployment's wakeups
    MaxPublishAttempts, \* BRUNO_DEPLOYMENT_WAKEUP_MAX_PUBLISH_ATTEMPTS
    MaxDeliveries,      \* one delivery and the provider's retries of it
    RollbackAllowed     \* may the default dispatch mode be rolled back to cron?

ASSUME PublishersAssumption == IsFiniteSet(Publishers) /\ NoOne \notin Publishers
ASSUME BoundsAssumption ==
    /\ MaxGeneration \in Nat \ {0}
    /\ MaxPublishAttempts \in Nat \ {0}
    /\ MaxDeliveries \in Nat \ {0}
    /\ RollbackAllowed \in BOOLEAN

Generations == 1..MaxGeneration

WakeupState == {"pending", "publishing", "published", "failed",
                "claimed", "terminal", "exhausted"}

\* The states replaceDeploymentWakeupInTransaction terminalizes.
Live == {"pending", "publishing", "published", "failed"}
\* The states a publication may start from.
Publishable == {"pending", "failed"}
\* The states a delivery may claim: "publishing" is not among them.
Deliverable == {"pending", "published", "failed"}

VARIABLES
    defaultMode,  \* BRUNO_DEPLOYMENT_DISPATCH_MODE as the routes read it now
    pinnedMode,   \* deployment_choices ->> 'dispatchMode'
    stage,        \* "active", or "terminal" for ready and failed
    latest,       \* max(generation)
    wakeup,       \* agent_deployment_wakeups, by generation
    call,         \* the publishers' program counters and the row they work on
    inFlight,     \* QStash: deliveries still to be attempted, by generation
    effects,      \* history: provider publications attempted, by generation
    drains        \* history: claims answered with a drain, by generation

vars == <<defaultMode, pinnedMode, stage, latest, wakeup, call, inFlight,
          effects, drains>>

\* due: due_at <= now.  expired: publish_lease_expires_at <= now.
Row == [state : WakeupState, due : BOOLEAN, attempts : Nat,
        owner : Publishers \cup {NoOne}, expired : BOOLEAN]

NewRow(due) == [state |-> "pending", due |-> due, attempts |-> 0,
                owner |-> NoOne, expired |-> FALSE]

(* Operators named Mutant... are slips the code could have had, one for a       *)
(* property; each stands before the definition it deforms and is used nowhere.  *)

\* Every write that leaves "publishing" clears the lease pair.
Released(row, state) == [state |-> state, due |-> row.due, attempts |-> row.attempts,
                         owner |-> NoOne, expired |-> FALSE]

\* A publisher's progress: it read a row, leased it, and has the provider's answer.
Call == [step : {"idle", "selected", "publishing", "accepted", "rejected", "refused"},
         gen : 0..MaxGeneration]

Idle == [step |-> "idle", gen |-> 0]

TypeOK ==
    /\ defaultMode \in {"cron", "qstash"}
    /\ pinnedMode \in {"cron", "qstash"}
    /\ stage \in {"active", "terminal"}
    /\ latest \in Generations
    /\ wakeup \in [Generations -> Row]
    /\ call \in [Publishers -> Call]
    /\ inFlight \in [Generations -> 0..MaxDeliveries]
    /\ effects \in [Generations -> Nat]
    /\ drains \in [Generations -> Nat]

Exists(g) == g \in 1..latest

LiveRow(g) == Exists(g) /\ wakeup[g].state \in Live

\* createAgentDeploymentForUser inserts the row and its first wakeup, due now.
Init ==
    /\ defaultMode \in {"cron", "qstash"}
    /\ pinnedMode = defaultMode
    /\ stage = "active"
    /\ latest = 1
    /\ wakeup = [g \in Generations |-> NewRow(TRUE)]
    /\ call = [p \in Publishers |-> Idle]
    /\ inFlight = [g \in Generations |-> 0]
    /\ effects = [g \in Generations |-> 0]
    /\ drains = [g \in Generations |-> 0]

-----------------------------------------------------------------------------
(* Writers of the deployment row *)

MutantTerminalized ==
    [g \in Generations |->
        IF LiveRow(g) /\ wakeup[g].state # "published"
          THEN Released(wakeup[g], "terminal") ELSE wakeup[g]]

Terminalized ==
    [g \in Generations |->
        IF LiveRow(g) THEN Released(wakeup[g], "terminal") ELSE wakeup[g]]

AnyExhausted == \E g \in Generations : Exists(g) /\ wakeup[g].state = "exhausted"

MutantReplace(due) ==
    /\ latest < MaxGeneration
    /\ wakeup' = [Terminalized EXCEPT ![latest + 1] = NewRow(due)]
    /\ latest' = latest + 1

\* replaceDeploymentWakeupInTransaction with a due time: older live rows become
\* terminal, and the next generation is inserted unless one is exhausted.
Replace(due) ==
    IF AnyExhausted
      THEN /\ wakeup' = Terminalized
           /\ latest' = latest
      ELSE /\ latest < MaxGeneration
           /\ wakeup' = [Terminalized EXCEPT ![latest + 1] = NewRow(due)]
           /\ latest' = latest + 1

\* A reconciler commits a stage change (due now) or a retry (due later).
Reconcile(due) ==
    /\ stage = "active"
    /\ Replace(due)
    /\ UNCHANGED <<defaultMode, pinnedMode, stage, call, inFlight, effects, drains>>

\* Ready, failure, quarantine, stop, delete (the stage becomes terminal) and the
\* pause for a managed runner replacement (it does not): the due time is null.
Cancel(next) ==
    /\ stage = "active"
    /\ stage' = next
    /\ wakeup' = Terminalized
    /\ UNCHANGED <<defaultMode, pinnedMode, latest, call, inFlight, effects, drains>>

\* createAgentDeploymentForRunnerReplacement fails the interrupted deployment and
\* leaves its wakeups as they are.
Interrupt ==
    /\ stage = "active"
    /\ stage' = "terminal"
    /\ UNCHANGED <<defaultMode, pinnedMode, latest, wakeup, call, inFlight, effects, drains>>

-----------------------------------------------------------------------------
(* Publishers *)

Move(p, step, g) == call' = [call EXCEPT ![p] = [step |-> step, gen |-> g]]

\* publishLatestDeploymentWakeupAfterCommit reads the newest publishable row and
\* the pinned mode; the row may change before it is claimed.
Select(p, g) ==
    /\ call[p].step = "idle"
    /\ pinnedMode = "qstash"
    /\ Exists(g)
    /\ wakeup[g].state \in Publishable
    /\ \A h \in Generations : h > g => ~(Exists(h) /\ wakeup[h].state \in Publishable)
    /\ Move(p, "selected", g)
    /\ UNCHANGED <<defaultMode, pinnedMode, stage, latest, wakeup, inFlight, effects, drains>>

Leased(row, p) ==
    [state |-> "publishing", due |-> row.due, attempts |-> row.attempts + 1,
     owner |-> p, expired |-> FALSE]

\* claimDeploymentWakeupForPublish: a publishable row is leased, or exhausted when
\* its attempts are spent; any other row ends the call.
ClaimForPublish(p) ==
    /\ call[p].step = "selected"
    /\ LET g == call[p].gen
           row == wakeup[g]
       IN \/ /\ row.state \in Publishable
             /\ row.attempts < MaxPublishAttempts
             /\ wakeup' = [wakeup EXCEPT ![g] = Leased(row, p)]
             /\ Move(p, "publishing", g)
          \/ /\ row.state \in Publishable
             /\ row.attempts >= MaxPublishAttempts
             /\ wakeup' = [wakeup EXCEPT ![g] = Released(row, "exhausted")]
             /\ call' = [call EXCEPT ![p] = Idle]
          \/ /\ row.state \notin Publishable
             /\ call' = [call EXCEPT ![p] = Idle]
             /\ UNCHANGED wakeup
    /\ UNCHANGED <<defaultMode, pinnedMode, stage, latest, inFlight, effects, drains>>

MutantTakeable(g) == Exists(g) /\ wakeup[g].state \in Publishable

Takeable(g) ==
    /\ Exists(g)
    /\ \/ wakeup[g].state \in Publishable
       \/ wakeup[g].state = "publishing" /\ wakeup[g].expired

SpentRows ==
    [g \in Generations |->
        IF Takeable(g) /\ wakeup[g].attempts >= MaxPublishAttempts
          THEN Released(wakeup[g], "exhausted") ELSE wakeup[g]]

MutantSweepable(g) == Takeable(g)

Sweepable(g) == Takeable(g) /\ wakeup[g].attempts < MaxPublishAttempts

\* sweepDeploymentWakeupOutbox / claimNextDeploymentWakeupForPublish: every spent
\* row is exhausted, then one that is not spent is leased, an expired lease
\* included (the one due first: a deployment never has two, CurrentGeneration).
Sweep(p) ==
    /\ call[p].step = "idle"
    /\ pinnedMode = "qstash"
    /\ \E g \in Generations : Takeable(g)
    /\ \/ /\ \A g \in Generations : ~Sweepable(g)
          /\ wakeup' = SpentRows
          /\ UNCHANGED call
       \/ \E g \in Generations :
             /\ Sweepable(g)
             /\ wakeup' = [SpentRows EXCEPT ![g] = Leased(SpentRows[g], p)]
             /\ Move(p, "publishing", g)
    /\ UNCHANGED <<defaultMode, pinnedMode, stage, latest, inFlight, effects, drains>>

MutantEnqueue(g) == inFlight' = [inFlight EXCEPT ![g] = @ + MaxDeliveries]

\* QStash takes a message.  The deduplication identity deploymentId:generation may
\* make a repeated publication enqueue nothing.
Enqueue(g) ==
    \/ inFlight' = [inFlight EXCEPT ![g] = MaxDeliveries]
    \/ effects[g] > 0 /\ UNCHANGED inFlight

\* publisher.publish: QStash takes the message and answers, takes it but the
\* answer is lost, or turns it down, for good (401, 403, 400, 413, 422:
\* "refused") or not ("rejected").
Publish(p) ==
    /\ call[p].step = "publishing"
    /\ LET g == call[p].gen
       IN /\ effects' = [effects EXCEPT ![g] = @ + 1]
          /\ \/ /\ Enqueue(g)
                /\ \E answer \in {"accepted", "rejected"} : Move(p, answer, g)
             \/ /\ \E answer \in {"rejected", "refused"} : Move(p, answer, g)
                /\ UNCHANGED inFlight
    /\ UNCHANGED <<defaultMode, pinnedMode, stage, latest, wakeup, drains>>

MutantOwnsLease(p, g) == wakeup[g].state = "publishing"

\* The completion writes only the row still leased to this invocation.
OwnsLease(p, g) == wakeup[g].state = "publishing" /\ wakeup[g].owner = p

\* markDeploymentWakeupPublished.
MarkPublished(p) ==
    /\ call[p].step = "accepted"
    /\ LET g == call[p].gen
       IN wakeup' = IF OwnsLease(p, g)
                      THEN [wakeup EXCEPT ![g] = Released(@, "published")]
                      ELSE wakeup
    /\ call' = [call EXCEPT ![p] = Idle]
    /\ UNCHANGED <<defaultMode, pinnedMode, stage, latest, inFlight, effects, drains>>

\* markDeploymentWakeupPublishFailed.
MarkPublishFailed(p) ==
    /\ call[p].step \in {"rejected", "refused"}
    /\ LET g == call[p].gen
           spent == call[p].step = "refused" \/ wakeup[g].attempts >= MaxPublishAttempts
       IN wakeup' = IF OwnsLease(p, g)
                      THEN [wakeup EXCEPT ![g] =
                              Released(@, IF spent THEN "exhausted" ELSE "failed")]
                      ELSE wakeup
    /\ call' = [call EXCEPT ![p] = Idle]
    /\ UNCHANGED <<defaultMode, pinnedMode, stage, latest, inFlight, effects, drains>>

\* The abort signal, or a crash, ends the invocation without a completion.  An
\* aborted publication may still reach QStash.
Abandon(p) ==
    /\ call[p].step # "idle"
    /\ \/ UNCHANGED <<inFlight, effects>>
       \/ /\ call[p].step = "publishing"
          /\ Enqueue(call[p].gen)
          /\ effects' = [effects EXCEPT ![call[p].gen] = @ + 1]
    /\ call' = [call EXCEPT ![p] = Idle]
    /\ UNCHANGED <<defaultMode, pinnedMode, stage, latest, wakeup, drains>>

-----------------------------------------------------------------------------
(* Delivery *)

\* QStash drops an acknowledged message; it tries again after an error answer or
\* a lost one, until its retries are spent.
Attempt(g, acknowledged) ==
    inFlight' = [inFlight EXCEPT ![g] = IF acknowledged THEN 0 ELSE @ - 1]

MutantClaimableTwice(g) == wakeup[g].due /\ g = latest

MutantClaimableEarly(g) == wakeup[g].state \in Deliverable /\ g = latest

\* The guards of claimDeploymentWakeupDelivery.
Claimable(g) ==
    /\ wakeup[g].due
    /\ wakeup[g].state \in Deliverable
    /\ g = latest

\* The wakeup route: 503 unless the default mode is qstash; otherwise the delivery
\* claims the row and drains an active deployment, or is answered 200 unclaimed
\* ("early", "stale", "already_claimed", "terminal").
Deliver(g, acknowledged) ==
    /\ inFlight[g] > 0
    /\ Attempt(g, acknowledged)
    /\ \/ /\ defaultMode # "qstash"
          /\ ~acknowledged
          /\ UNCHANGED <<wakeup, drains>>
       \/ /\ defaultMode = "qstash"
          /\ Claimable(g)
          /\ wakeup' = [wakeup EXCEPT ![g] = Released(@, "claimed")]
          /\ drains' = IF stage = "active" THEN [drains EXCEPT ![g] = @ + 1] ELSE drains
       \/ /\ defaultMode = "qstash"
          /\ ~Claimable(g)
          /\ UNCHANGED <<wakeup, drains>>
    /\ UNCHANGED <<defaultMode, pinnedMode, stage, latest, call, effects>>

\* replayExhaustedDeploymentWakeupInTransaction, by an operator; the route then
\* publishes the new generation like any publisher.
Replay(g) ==
    /\ Exists(g)
    /\ wakeup[g].state = "exhausted"
    /\ stage = "active"
    /\ g = latest
    /\ latest < MaxGeneration
    /\ wakeup' = [wakeup EXCEPT ![g] = Released(wakeup[g], "terminal"), ![g + 1] = NewRow(TRUE)]
    /\ latest' = latest + 1
    /\ UNCHANGED <<defaultMode, pinnedMode, stage, call, inFlight, effects, drains>>

-----------------------------------------------------------------------------
(* The environment *)

\* An operator rolls the default dispatch mode of new deployments back to cron.
RollBack ==
    /\ RollbackAllowed
    /\ defaultMode = "qstash"
    /\ defaultMode' = "cron"
    /\ UNCHANGED <<pinnedMode, stage, latest, wakeup, call, inFlight, effects, drains>>

BecomeDue(g) ==
    /\ Exists(g)
    /\ ~wakeup[g].due
    /\ wakeup' = [wakeup EXCEPT ![g].due = TRUE]
    /\ UNCHANGED <<defaultMode, pinnedMode, stage, latest, call, inFlight, effects, drains>>

LeaseExpires(g) ==
    /\ Exists(g)
    /\ wakeup[g].state = "publishing"
    /\ ~wakeup[g].expired
    /\ wakeup' = [wakeup EXCEPT ![g].expired = TRUE]
    /\ UNCHANGED <<defaultMode, pinnedMode, stage, latest, call, inFlight, effects, drains>>

Reconciles == (\E due \in BOOLEAN : Reconcile(due)) \/ Cancel("active") \/ Cancel("terminal")

PublisherStep(p) ==
    \/ \E g \in Generations : Select(p, g)
    \/ ClaimForPublish(p)
    \/ Sweep(p)
    \/ Publish(p)
    \/ MarkPublished(p)
    \/ MarkPublishFailed(p)
    \/ Abandon(p)

Next ==
    \/ Reconciles
    \/ Interrupt
    \/ \E p \in Publishers : PublisherStep(p)
    \/ \E g \in Generations, acknowledged \in BOOLEAN : Deliver(g, acknowledged)
    \/ \E g \in Generations : Replay(g)
    \/ RollBack
    \/ \E g \in Generations : BecomeDue(g) \/ LeaseExpires(g)

Spec == Init /\ [][Next]_vars

\* An invocation runs to its completion or is cut off by its deadline, leases
\* expire, and the protected cron keeps sweeping while other invocations come and
\* go (strong, because the model's pool of invocations is finite).
Fairness ==
    /\ \A p \in Publishers :
          /\ WF_vars(ClaimForPublish(p))
          /\ WF_vars(Publish(p))
          /\ WF_vars(MarkPublished(p) \/ MarkPublishFailed(p))
    /\ SF_vars(\E p \in Publishers : Sweep(p))
    /\ \A g \in Generations : WF_vars(LeaseExpires(g))

FairSpec == Spec /\ Fairness

-----------------------------------------------------------------------------
(* Properties *)

\* Whatever publishers and deliveries were under way, a generation that can still
\* be published, delivered or replayed is the newest one: the deployment never
\* has two wakeups, and nothing replaces an exhausted one but its replay.
CurrentGeneration ==
    \A g \in Generations :
        Exists(g) /\ wakeup[g].state \in Live \cup {"exhausted"} => g = latest

\* A row is leased exactly while a publication is under way: no completion,
\* replacement, delivery or exhaustion leaves a lease behind
\* (agent_deployment_wakeups_publish_lease_pair_check, ..._exhausted_state_check).
LeasedWhilePublishing ==
    \A g \in Generations :
        Exists(g) => (wakeup[g].state = "publishing") = (wakeup[g].owner # NoOne)

\* The provider is never asked more often than the publish bound allows, however
\* leases expire and invocations overlap (docs/E2E_VALIDATION.md: "Expired
\* publication leases at the bound become exhausted without another provider effect").
BoundedProviderEffects == \A g \in Generations : effects[g] <= MaxPublishAttempts

\* A generation drains its deployment at most once, though the provider delivers
\* it several times ("already claimed deliveries cannot advance ... twice").
DrainedOnce == \A g \in Generations : drains[g] <= 1

\* A delivery drains only for the newest generation of an active deployment, at or
\* after its due time: a reordered, superseded or early message never does.
NoStaleDrain ==
    [][\A g \in Generations :
         drains'[g] # drains[g] =>
            wakeup[g].due /\ stage = "active" /\ \A h \in Generations : h > g => ~Exists(h)]_vars

\* A row becomes "published" only through the invocation that leases it now, and
\* that the provider answered: one that lost its lease to the sweep, or whose
\* generation was replaced meanwhile, completes nothing.
OnlyLeaseHolderPublishes ==
    [][\A g \in Generations :
         wakeup[g].state = "publishing" /\ wakeup'[g].state = "published" =>
            \E p \in Publishers :
                /\ wakeup[g].owner = p
                /\ call[p] = [step |-> "accepted", gen |-> g]]_vars

\* Reconciliation cannot silently replace an exhausted generation: a newer one
\* appears only when an operator replays it while the deployment is active.
ExhaustedNeedsReplay ==
    [][AnyExhausted /\ latest' # latest =>
         /\ stage = "active"
         /\ wakeup[latest].state = "exhausted"
         /\ wakeup'[latest].state = "terminal"]_vars

\* A claimed or terminal generation never comes back to life.
SettledRowsAreFinal ==
    [][\A g \in Generations :
         Exists(g) /\ wakeup[g].state \in {"claimed", "terminal"} =>
            wakeup'[g].state = wakeup[g].state]_vars

\* With nothing but the sweep to rely on, a wakeup of a QStash deployment does not
\* stay unpublished: a crashed or aborted publication is taken over, and the
\* attempts end in publication or in exhaustion.
PublicationSettles ==
    \A g \in Generations :
        (Exists(g) /\ pinnedMode = "qstash" /\ wakeup[g].state \in {"pending", "publishing", "failed"})
            ~> (wakeup[g].state \notin {"pending", "publishing", "failed"})
=============================================================================
