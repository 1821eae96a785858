----------------------------- MODULE AgentRuntime -----------------------------
(***************************************************************************)
(* How an agent whose deployment is ready is kept running, or stopped, as  *)
(* its owner wishes (src/server/agents: agent-runtime-reconciler, -state,  *)
(* -store and -lifecycle, and what lifecycle, update-agent-config and      *)
(* agent-secrets do to such an agent).                                     *)
(*                                                                         *)
(* The agent has one row.  An owner's request writes a new generation of   *)
(* it.  A worker claims the row for one effect (observe, stop, start, or   *)
(* ask Telegram), calls the runner, and writes what follows from what it   *)
(* claimed and was answered, if the claim still fits.  The runner knows of *)
(* no claims: a request that left a worker may reach it at any later time. *)
(*                                                                         *)
(* Time is only choice: a backoff is over whenever a claim is made, a      *)
(* recovery window has passed or not.                                      *)
(***************************************************************************)
EXTENDS Naturals

CONSTANTS
    Workers, NoWorker,
    Operations,    \* bound: operation ids of containers
    MaxRecoveries, \* recoveries, and restarts by Docker, before giving up (the code's 3)
    MaxAttempts,   \* claims without progress before giving up (the code's 5)
    MaxRequests,   \* bound: requests of the owner
    MaxFaults      \* bound: failures of workload, runner, network and workers

ASSUME RuntimeAssumption ==
    /\ NoWorker \notin Workers
    /\ Operations \subseteq Nat \ {0}
    /\ MaxRecoveries \in Nat /\ MaxAttempts \in Nat \ {0}

VARIABLES
    row,   \* the agent's row of agent_runtime_reconciliations
    agent, \* its row of agents, its open usage period, its required secret
    box,   \* the container on the agent's runner
    wire,  \* requests on their way to the runner that nobody waits for any more
    work,  \* what each worker is at
    used   \* the bounded counters, and the operation ids given out

vars == <<row, agent, box, wire, work, used>>

Revisions == {"deployed", "edited"} \X Nat
States == {"absent", "observing", "recovering_stop", "recovering_start", "verifying",
           "stopping", "stopped", "circuit_open"}
Rows == [state : States, gen : Nat, rev : Revisions, op : Nat, attempts : 0..MaxAttempts,
         recoveries : Nat, window : BOOLEAN, steady : BOOLEAN, telegram : BOOLEAN,
         circuit : BOOLEAN, lease : Workers \cup {NoWorker}]
Statuses == {"starting", "running", "restarting", "stopped", "error"}
Answers == {"none", "planned", "unavailable", "capacity", "unreachable", "unknown", "starting",
            "ready", "restarted", "down", "mismatch", "sick", "mute", "stopped", "unconfirmed",
            "accepted", "launched", "refused", "unlaunchable", "clear", "conflict", "uncertain"}

Replies == [kind : Answers, rev : Revisions, op : Nat]
Wishes == {"running", "stopped"}
Agents == [wish : Wishes, status : Statuses, billed : BOOLEAN, deleted : BOOLEAN,
           secret : BOOLEAN, home : Nat, deploying : BOOLEAN]
Containers == [health : {"none", "starting", "ready", "sick", "mute"}, rev : Revisions, op : Nat]
Messages == [kind : {"start", "stop"}, rev : Revisions]
Jobs == [pc : {"idle", "observe", "stop", "start", "diagnose", "write"}, row : Rows,
         wish : Wishes, home : Nat, got : Replies, asked : Nat]

\* A row as a ready deployment leaves it (initializeAgentRuntimeAfterDeploymentReady).
Ready(home, op) ==
    [state |-> "observing", gen |-> 0, rev |-> <<"deployed", home>>, op |-> op, attempts |-> 0,
     recoveries |-> 0, window |-> FALSE, steady |-> TRUE, telegram |-> FALSE, circuit |-> FALSE,
     lease |-> NoWorker]
NoRow == [Ready(0, 0) EXCEPT !.state = "absent"]
NoBox == [health |-> "none", rev |-> <<"deployed", 0>>, op |-> 0]
Silence == [kind |-> "none", rev |-> <<"deployed", 0>>, op |-> 0]
Idle == [pc |-> "idle", row |-> NoRow, wish |-> "running", home |-> 0, got |-> Silence,
         asked |-> 0]

TypeOK ==
    /\ row \in Rows
    /\ agent \in Agents
    /\ box \in Containers
    /\ wire \subseteq Messages
    /\ work \in [Workers -> Jobs]
    /\ used \in [faults : Nat, requests : Nat]

Init ==
    /\ row = Ready(0, 1)
    /\ agent = [wish |-> "running", status |-> "running", billed |-> TRUE, deleted |-> FALSE,
                secret |-> TRUE, home |-> 0, deploying |-> FALSE]
    /\ box = [health |-> "ready", rev |-> <<"deployed", 0>>, op |-> 1]
    /\ wire = {}
    /\ work = [w \in Workers |-> Idle]
    /\ used = [faults |-> 0, requests |-> 0]

(* Operators named Mutant... are slips the code could have had, one for a property; *)
(* each stands before the definition it deforms and is used nowhere.               *)

Fault == /\ used.faults < MaxFaults
         /\ used' = [used EXCEPT !.faults = @ + 1]

-----------------------------------------------------------------------------
(* The owner's requests, each one transaction *)

Request ==
    /\ used.requests < MaxRequests
    /\ ~agent.deleted /\ ~agent.deploying /\ row.state # "absent"
    /\ used' = [used EXCEPT !.requests = @ + 1]
    /\ UNCHANGED <<box, work>>

\* persistManagedRuntimeOwnerIntent: a new generation, and nothing of the old one.
Wished(state) ==
    [row EXCEPT !.state = state, !.gen = @ + 1, !.op = 0, !.attempts = 0, !.recoveries = 0,
                !.window = FALSE, !.steady = FALSE, !.telegram = FALSE, !.circuit = FALSE,
                !.lease = NoWorker]

Sent(kind, rev) == wire' = wire \cup {[kind |-> kind, rev |-> rev]}

\* Refused when the runner has no room.
RequestStart ==
    /\ Request
    /\ agent.status \in {"stopped", "error"}
    /\ row' = Wished("recovering_start")
    /\ agent' = [agent EXCEPT !.wish = "running", !.status = "starting"]
    /\ UNCHANGED wire

RequestRestart ==
    /\ Request
    /\ agent.status \in {"running", "error"}
    /\ row' = Wished("recovering_stop")
    /\ agent' = [agent EXCEPT !.wish = "running", !.status = "restarting"]
    /\ UNCHANGED wire

\* The runner is called when the wish is committed; the answer changes no row.
RequestStop ==
    /\ Request
    /\ agent.status # "stopped"
    /\ row' = Wished("stopping")
    /\ agent' = [agent EXCEPT !.wish = "stopped", !.status = "restarting"]
    /\ Sent("stop", row.rev)

RequestDelete ==
    /\ Request
    /\ row' = Wished("stopped")
    /\ agent' = [agent EXCEPT !.wish = "stopped", !.billed = FALSE, !.deleted = TRUE,
                              !.secret = FALSE]
    /\ Sent("stop", row.rev)

\* reviseManagedRuntimeConfiguration.  An agent that is to be stopped is taken for
\* stopped; an open circuit stays open.
Revised ==
    [row EXCEPT
       !.gen = @ + 1, !.rev = <<"edited", row.gen + 1>>, !.op = 0, !.attempts = 0,
       !.steady = FALSE, !.telegram = FALSE, !.lease = NoWorker,
       !.state = IF agent.wish = "stopped" THEN "stopped"
                 ELSE IF row.circuit THEN @ ELSE "recovering_stop",
       !.recoveries = IF row.circuit THEN @ ELSE 0,
       !.window = row.circuit /\ @]

\* agent_runtime_reconciliations_stopped_check: the write is refused, and with it the
\* owner's whole request.
Storable(r) == r.state = "stopped" => ~r.circuit

Revise(secret) ==
    /\ Request
    /\ Storable(Revised)
    /\ row' = Revised
    /\ agent' = [agent EXCEPT
         !.secret = secret,
         !.status = IF agent.wish = "running" /\ ~row.circuit THEN "restarting" ELSE @]
    /\ UNCHANGED wire

UpdateConfig == Revise(agent.secret)
ReplaceSecret == ~agent.secret /\ Revise(TRUE)

\* openManagedRuntimeSecretCircuit.
RevokeSecret ==
    /\ Request
    /\ row' = [row EXCEPT
         !.state = IF @ = "stopped" THEN "circuit_open" ELSE "stopping",
         !.gen = @ + 1, !.op = 0, !.attempts = 0, !.steady = FALSE, !.telegram = FALSE,
         !.circuit = TRUE, !.lease = NoWorker]
    /\ agent' = [agent EXCEPT !.secret = FALSE, !.status = "error"]
    /\ UNCHANGED wire

-----------------------------------------------------------------------------
(* A worker's claim and its plan *)

Settled == {"absent", "stopped", "circuit_open"}

\* enterDesiredStop is due when a stop is wished and the row is not just stopping.
Overruled(r, wish) == wish = "stopped" /\ (r.state # "stopping" \/ r.circuit)

MutantEffect(r, wish) ==
    CASE r.state = "stopping" -> "stop"
      [] r.state = "recovering_stop" -> IF r.telegram THEN "diagnose" ELSE "stop"
      [] r.state = "recovering_start" -> "start"
      [] OTHER -> "observe"

\* planRuntimeEffect with an eligible runner: one effect, or only a write.
Effect(r, wish) ==
    IF Overruled(r, wish) THEN "write"
    ELSE CASE r.state = "stopping"         -> "stop"
           [] r.state = "recovering_stop"  -> IF r.telegram THEN "diagnose" ELSE "stop"
           [] r.state = "recovering_start" -> "start"
           [] OTHER                        -> "observe"

MutantFree == row.lease = NoWorker

\* Nobody has the row, or its worker died.
Free == row.lease # NoWorker => work[row.lease].pc = "idle"

MutantCounted(n) == n + 1

\* Attempts beyond the limit are all the same.
Counted(n) == IF n < MaxAttempts THEN n + 1 ELSE n

Claimed(w) == [row EXCEPT !.lease = w, !.attempts = Counted(@)]

Proceed(w, pc, kind) ==
    work' = [work EXCEPT ![w] =
      [pc |-> pc, row |-> Claimed(w), wish |-> agent.wish, home |-> agent.home,
       got |-> [Silence EXCEPT !.kind = kind], asked |-> used.requests]]

\* An invocation of the cron route or of a trigger; those to come are alike.  A claim
\* that has lasted too long is taken over.
Claim(w) ==
    /\ work[w].pc = "idle"
    /\ w = CHOOSE v \in Workers : work[v].pc = "idle"
    /\ row.state \notin Settled
    /\ ~agent.deleted /\ ~agent.deploying
    /\ row' = Claimed(w)
    /\ LET effect == Effect(row, agent.wish)
           launches == effect \in {"start", "diagnose"}
       IN  \/ /\ Free /\ UNCHANGED used
              /\ IF launches /\ ~agent.secret
                   THEN Proceed(w, "write", "unlaunchable")
                   ELSE Proceed(w, effect, IF effect = "write" THEN "planned" ELSE "none")
           \/ /\ Fault
              /\ \/ Free /\ Proceed(w, "write", "unavailable")
                 \/ Free /\ effect = "start" /\ Proceed(w, "write", "capacity")
                 \/ Free /\ launches /\ Proceed(w, "write", "unlaunchable")
                 \/ ~Free /\ Proceed(w, effect, IF effect = "write" THEN "planned" ELSE "none")
    /\ UNCHANGED <<agent, box, wire>>

-----------------------------------------------------------------------------
(* The runner's answers *)

Answered(w, kind) ==
    work' = [work EXCEPT ![w] =
      [@ EXCEPT !.pc = "write", !.got = [kind |-> kind, rev |-> box.rev, op |-> box.op]]]

MutantSeen(r) == IF box.health = "none" THEN "down" ELSE box.health

\* mapRunnerSnapshotToRuntimeObservation: the container must be the one the claim is about.
Seen(r) ==
    IF box.health = "none" THEN "down"
    ELSE IF box.rev # r.rev \/ (r.op # 0 /\ box.op # r.op) THEN "mismatch"
    ELSE box.health

Observe(w) ==
    /\ work[w].pc = "observe"
    /\ LET seen == Seen(work[w].row)
       IN  \/ Answered(w, seen) /\ UNCHANGED used
           \/ Fault /\ \/ seen = "ready" /\ Answered(w, "restarted")
                       \/ Answered(w, "unreachable")
                       \/ Answered(w, "unknown")
    /\ UNCHANGED <<row, agent, box, wire>>

Stop(w) ==
    /\ work[w].pc = "stop"
    /\ \/ box' = NoBox /\ Answered(w, "stopped") /\ UNCHANGED <<used, wire>>
       \/ /\ Fault /\ Answered(w, "unconfirmed")
          /\ \/ box' \in {box, NoBox} /\ UNCHANGED wire
             \/ Sent("stop", work[w].row.rev) /\ UNCHANGED box
    /\ UNCHANGED <<row, agent>>

\* A container's operation id is new; an id that nothing remembers is as good as new.
Remembered == {row.op, box.op} \cup {work[w].row.op : w \in Workers}
                \cup {work[w].got.op : w \in Workers}
New(op) == op \in Operations \ Remembered /\ \A o \in Operations \ Remembered : op <= o

Launched(rev, op, health) == box' = [health |-> health, rev |-> rev, op |-> op]

LaunchAnswered(w, kind, op) ==
    work' = [work EXCEPT ![w] =
      [@ EXCEPT !.pc = "write", !.got = [kind |-> kind, rev |-> work[w].row.rev, op |-> op]]]

\* A runner accepts and goes on by itself; one of an earlier version answers when the
\* gateway is ready.  A start that fails may have been carried out, now or later.
Start(w) ==
    /\ work[w].pc = "start"
    /\ \E op \in Operations : LET rev == work[w].row.rev IN
        /\ New(op)
        /\ \/ /\ \/ Launched(rev, op, "starting") /\ LaunchAnswered(w, "accepted", op)
                 \/ Launched(rev, op, "ready") /\ LaunchAnswered(w, "launched", op)
              /\ UNCHANGED <<wire, used>>
           \/ /\ Fault
              /\ LaunchAnswered(w, "refused", 0)
              /\ \/ Launched(rev, op, "starting") /\ UNCHANGED wire
                 \/ Sent("start", rev) /\ UNCHANGED box
                 \/ UNCHANGED <<box, wire>>
    /\ UNCHANGED <<row, agent>>

\* diagnoseTelegramBeforeRecovery.
Diagnose(w) ==
    /\ work[w].pc = "diagnose"
    /\ \E kind \in {"clear", "conflict", "uncertain"} : Answered(w, kind)
    /\ UNCHANGED <<row, agent, box, wire, used>>

\* A request nobody waits for reaches the runner, or never does.
Arrive(m) ==
    /\ m \in wire
    /\ wire' = wire \ {m}
    /\ \/ m.kind = "stop" /\ box' = NoBox
       \/ m.kind = "start" /\ \E op \in Operations : New(op) /\ Launched(m.rev, op, "starting")
    /\ UNCHANGED <<row, agent, work, used>>

-----------------------------------------------------------------------------
(* What follows from a claimed row and an answer: the row to write, the agent's *)
(* status, and whether the usage period is opened, closed or kept.              *)

To(r, status, usage) == [row |-> r, status |-> status, usage |-> usage]

\* requestCircuitCleanup: stopped first, then the circuit is open.
Tripped(r) == [r EXCEPT !.state = "stopping", !.steady = FALSE, !.telegram = FALSE,
                        !.circuit = TRUE, !.op = 0]
GivenUp(r) == To(Tripped(r), "error", "closed")

Persist(r) == To(r, "restarting", "closed")
PersistOrGiveUp(r) == IF r.attempts = MaxAttempts THEN GivenUp(r) ELSE Persist(r)

\* requestAutomaticRecovery, with the recovery window still active or not.
Recovered(r, state, active) ==
    LET before == IF active THEN r.recoveries ELSE 0
    IN  IF before >= MaxRecoveries
          THEN GivenUp(r)
          ELSE Persist([r EXCEPT !.state = state, !.recoveries = before + 1, !.window = TRUE,
                                 !.steady = FALSE, !.op = 0])
Recovery(r, state) == {Recovered(r, state, active) : active \in {FALSE, r.window}}

\* exactReadyDecision; after fifteen steady minutes the recoveries are forgotten.
Serving(r, op) ==
    [r EXCEPT !.state = "observing", !.op = IF @ = 0 THEN op ELSE @, !.attempts = 0,
              !.steady = TRUE, !.telegram = FALSE]
Served(r, op) ==
    {To([Serving(r, op) EXCEPT !.recoveries = IF stable THEN 0 ELSE @,
                               !.window = @ /\ ~stable], "running", "open") :
       stable \in {FALSE, r.steady}}
Restarted(r, op) ==
    LET counted == [Serving(r, op) EXCEPT !.recoveries = @ + 1, !.window = TRUE]
    IN  IF counted.recoveries >= MaxRecoveries
          THEN To(Tripped(counted), "running", "closed")
          ELSE To(counted, "running", "open")

\* telegramDecision: a grace period, unless Telegram's state is final or it is over.
Mute(r) ==
    LET noted == [r EXCEPT !.telegram = TRUE]
    IN  Recovery(noted, "recovering_stop")
          \cup IF r.telegram THEN {} ELSE {Persist([noted EXCEPT !.steady = FALSE])}

\* enterDesiredStop, a generation of its own, written before the runner is called.
Bumped(r) ==
    [r EXCEPT !.state = "stopping", !.gen = @ + 1, !.op = 0, !.recoveries = 0, !.window = FALSE,
              !.steady = FALSE, !.telegram = FALSE, !.circuit = FALSE]
Planned(r, wish) == IF Overruled(r, wish) THEN Bumped(r) ELSE r

MutantConfirmed(r, wish) == To([r EXCEPT !.state = "stopped"], "stopped", "kept")

\* applyRuntimeStopResult for a confirmed stop, and clearStoppedPolicy.
Confirmed(r, wish) ==
    CASE wish = "stopped" ->
           To([r EXCEPT !.state = "stopped", !.attempts = 0, !.recoveries = 0, !.window = FALSE,
                        !.steady = FALSE, !.telegram = FALSE, !.circuit = FALSE],
              "stopped", "closed")
      [] wish = "running" /\ r.circuit ->
           To([r EXCEPT !.state = "circuit_open", !.attempts = 0], "error", "closed")
      [] OTHER ->
           Persist([r EXCEPT !.state = "recovering_start", !.attempts = 0, !.steady = FALSE,
                             !.telegram = FALSE])

Outcomes(r, wish, got) ==
    CASE got.kind = "planned"     -> {To(Planned(r, wish), "restarting", "kept")}
      [] got.kind = "unavailable" ->
           {To(Planned(r, wish), "restarting",
               IF wish = "running" /\ r.circuit THEN "kept" ELSE "closed")}
      [] got.kind = "capacity"    -> {To(r, "restarting", "kept")}
      [] got.kind = "unreachable" -> {To([r EXCEPT !.steady = FALSE], "restarting", "kept")}
      [] got.kind = "starting"    -> {Persist([r EXCEPT !.steady = FALSE])}
      [] got.kind = "unknown"     -> {PersistOrGiveUp([r EXCEPT !.steady = FALSE])}
      [] got.kind = "ready"       -> Served(r, got.op)
      [] got.kind = "restarted"   -> {Restarted(r, got.op)}
      [] got.kind = "down"        -> Recovery(r, "recovering_start")
      [] got.kind \in {"mismatch", "sick"} -> Recovery(r, "recovering_stop")
      [] got.kind = "mute"        -> Mute(r)
      [] got.kind = "stopped"     -> {Confirmed(r, wish)}
      [] got.kind = "unconfirmed" -> {Persist(r)}
      [] got.kind = "accepted"    ->
           {Persist([r EXCEPT !.state = "verifying", !.op = got.op, !.attempts = 0,
                              !.steady = FALSE, !.telegram = FALSE])}
      [] got.kind = "launched"    ->
           {Persist([r EXCEPT !.state = "observing", !.attempts = 0])}
      [] got.kind \in {"refused", "uncertain"}      -> {PersistOrGiveUp(r)}
      [] got.kind \in {"unlaunchable", "conflict"}  -> {GivenUp(r)}
      [] got.kind = "clear"       -> {Persist([r EXCEPT !.telegram = FALSE, !.attempts = 0])}
      [] OTHER                    -> {}

MutantFits(w) == row.state = work[w].row.state /\ agent.home = work[w].home /\ ~agent.deploying

\* applyClaimedAgentRuntimeResult: the claim still holds, of the same generation and
\* evidence, for the same wish, runner and deployment.
Fits(w) ==
    /\ row.lease = w
    /\ row.gen = work[w].row.gen /\ row.state = work[w].row.state
    /\ row.rev = work[w].row.rev /\ row.op = work[w].row.op
    /\ ~agent.deleted /\ agent.wish = work[w].wish
    /\ agent.home = work[w].home /\ ~agent.deploying

\* persistRuntimeTransition: all of it, or nothing.
Apply(w) ==
    \E o \in Outcomes(work[w].row, work[w].wish, work[w].got) :
      /\ row' = [o.row EXCEPT !.lease = NoWorker]
      /\ agent' = [agent EXCEPT !.status = o.status,
                                !.billed = IF o.usage = "kept" THEN @ ELSE o.usage = "open"]

Write(w) ==
    /\ work[w].pc = "write"
    /\ IF Fits(w) THEN Apply(w) ELSE UNCHANGED <<row, agent>>
    /\ work' = [work EXCEPT ![w] = Idle]
    /\ UNCHANGED <<box, wire, used>>

\* The invocation dies; its claim stays until it lapses.
Die(w) ==
    /\ work[w].pc # "idle"
    /\ Fault
    /\ work' = [work EXCEPT ![w] = Idle]
    /\ UNCHANGED <<row, agent, box, wire>>

-----------------------------------------------------------------------------
(* Around it: the container's health, and replacements of the runner *)

ComesUp ==
    /\ box.health = "starting"
    /\ box' = [box EXCEPT !.health = "ready"]
    /\ UNCHANGED <<row, agent, wire, work, used>>

Breaks ==
    /\ box.health # "none"
    /\ Fault
    /\ box' \in {NoBox, [box EXCEPT !.health = "sick"], [box EXCEPT !.health = "mute"]}
    /\ UNCHANGED <<row, agent, wire, work>>

\* The handover of RunnerReplacement: the row goes; a running agent is deployed anew.
Moved == NoRow

Move ==
    /\ Fault
    /\ ~agent.deleted /\ ~agent.deploying
    /\ row' = Moved
    /\ agent' = [agent EXCEPT !.home = @ + 1, !.billed = FALSE,
                              !.deploying = agent.wish = "running",
                              !.status = IF agent.wish = "running" THEN "starting" ELSE "stopped"]
    /\ box' = NoBox
    /\ wire' = {}
    /\ UNCHANGED work

\* The new deployment is ready (AgentDeployment): finalizeReady.
Deployed ==
    /\ agent.deploying
    /\ \E op \in Operations : New(op) /\ row' = Ready(agent.home, op)
    /\ agent' = [agent EXCEPT !.deploying = FALSE, !.status = "running", !.billed = TRUE]
    /\ Launched(<<"deployed", agent.home>>, row'.op, "ready")
    /\ UNCHANGED <<wire, work, used>>

Owner ==
    \/ RequestStart \/ RequestRestart \/ RequestStop \/ RequestDelete
    \/ UpdateConfig \/ ReplaceSecret \/ RevokeSecret
Step(w) == Claim(w) \/ Observe(w) \/ Stop(w) \/ Start(w) \/ Diagnose(w) \/ Write(w)
Worker(w) == Step(w) \/ Die(w)
Environment == ComesUp \/ Breaks \/ Move \/ Deployed \/ \E m \in wire : Arrive(m)

Next == Owner \/ Environment \/ \E w \in Workers : Worker(w)

Spec == Init /\ [][Next]_vars

\* The cron comes every minute and calls time out; a started gateway comes up, or
\* breaks; a deployment ends.
Fairness ==
    /\ WF_vars(\E w \in Workers : Claim(w))
    /\ \A w \in Workers : WF_vars(Observe(w) \/ Stop(w) \/ Start(w) \/ Diagnose(w) \/ Write(w))
    /\ WF_vars(ComesUp)
    /\ WF_vars(Deployed)
FairSpec == Spec /\ Fairness

-----------------------------------------------------------------------------
(* Properties *)

\* What a started workload costs is not charged before it was seen ready: a row that
\* waits for that has no usage period open.
UnverifiedIsUnbilled == row.state = "verifying" => ~agent.billed

\* An agent shown as stopped is one whose owner wants that, whose row is at rest and
\* whose usage period is closed, whoever wrote the two rows last.
ShownStopped ==
    agent.status = "stopped" =>
      agent.wish = "stopped" /\ row.state \in {"stopped", "absent"} /\ ~agent.billed

\* A worker writes only what follows from a claim made after the owner's last request and
\* the last handover, though the generation starts again at each handover and a wish may
\* have come back to what it was.
Effective(w) == work[w].pc = "write" /\ work'[w].pc = "idle" /\ row' # row
FreshEvidence ==
    [][\A w \in Workers :
         Effective(w) => work[w].asked = used.requests /\ work[w].home = agent.home]_vars

\* An agent turns "running" on the word of the very container its row stands for: of the
\* revision the owner last saved and the operation that was launched for it.
ReadyIsCurrent ==
    [][\A w \in Workers :
         Effective(w) /\ agent'.status = "running" /\ ~row'.circuit =>
           work[w].got.rev = row'.rev /\ work[w].got.op = row'.op]_vars

\* The refinement: a row is at a phase of the agent's life.
PhaseOf(r) ==
    CASE r.state = "absent"                              -> "away"
      [] r.state = "circuit_open"                        -> "failed"
      [] r.state = "stopping" /\ r.circuit               -> "failing"
      [] r.state = "stopping" /\ ~r.circuit              -> "ending"
      [] r.state = "recovering_stop"                     -> "ending"
      [] r.state \in {"recovering_start", "verifying"}   -> "launching"
      [] r.state = "stopped"                             -> "down"
      [] r.state = "observing"                           -> "served"
Wish == INSTANCE OwnerWish WITH wish <- agent.wish, phase <- PhaseOf(row), requests <- used.requests

\* Whatever answers are lost or late and whoever takes over, the agent goes through its
\* phases as its owner wishes.
ImplementsOwnerWish == Wish!Spec

\* An agent that is to run is served in the end, or given up with its workload stopped.
RunSettles ==
    agent.wish = "running" ~>
      \/ row.state = "observing" /\ agent.status = "running"
      \/ row.state = "circuit_open"
      \/ agent.wish = "stopped"

\* A Stop ends, though its worker dies or its answer is lost: the agent is at rest.
StopCompletes ==
    agent.wish = "stopped" ~>
      row.state \in {"stopped", "circuit_open", "absent"} \/ agent.wish = "running"

\* README.md:535 says of an intentionally stopped agent: "Durable Stop is complete; only
\* an explicit Start changes desired state."
IntentionallyStopped ==
    row.state = "stopped" /\ ~agent.deleted => box.health = "none" /\ ~agent.billed
=============================================================================
