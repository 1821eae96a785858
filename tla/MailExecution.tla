----------------------------- MODULE MailExecution -----------------------------
(***************************************************************************)
(* How an approved message is sent through Gmail                           *)
(* (src/server/operators/founder-mail-execution.ts).  An executor is one   *)
(* run of executeFounderApprovedGmailActionForUser: it prepares, claims    *)
(* the authorization, records a started attempt, and then asks Gmail       *)
(* inside a transaction that keeps the founder's lifecycle lock and the    *)
(* pause lock until the answer is there; the receipt is written after      *)
(* both are released.  A run may die anywhere.                             *)
(*                                                                         *)
(* Bindings, consents, entitlement, the sending connection and the start   *)
(* of the execution window are checks that may refuse at any moment, which *)
(* is GiveUp.  The five minutes an attempt is left alone before it may be  *)
(* reconciled are not counted: a run may be that slow.                     *)
(*                                                                         *)
(* Operators named Mutant... are slips the code could have had, one for a  *)
(* property; the specification does not use them.                          *)
(***************************************************************************)
EXTENDS ProposedActions

CONSTANTS Executors, NoAction

ASSUME NoActionAssumption == NoAction \notin Actions

VARIABLES
    work, \* what each executor is at
    gmail \* the requests Gmail was sent for each action, and what it made of them

vars == <<founder, work, gmail>>

Steps == {"idle", "prepared", "claimed", "started", "checked", "guarded", "asking", "answered"}
Answers == {"none", "accepted", "rejected", "lost"}
Idle == [pc |-> "idle", action |-> NoAction, answer |-> "none"]

Init ==
    /\ FounderInit
    /\ work = [e \in Executors |-> Idle]
    /\ gmail = [a \in Actions |-> [calls |-> 0, fate |-> "unasked"]]

Step(e, to) == work' = [work EXCEPT ![e].pc = to]
At(e, pc) == work[e].pc = pc

\* Advisory locks that the transaction around the request to Gmail keeps.
MutantLifecycleFree == TRUE \* a lock that ends with each statement
LifecycleFree == \A e \in Executors : work[e].pc \notin {"checked", "guarded", "asking"}
PauseFree == \A e \in Executors : work[e].pc \notin {"guarded", "asking"}

(***************************************************************************)
(* The run                                                                 *)
(***************************************************************************)
\* Up to the claim nothing is written; a receipt or a started attempt ends the run.
Prepare(e, a) ==
    /\ At(e, "idle") /\ PauseFree
    /\ row[a].receipt = "none" /\ ~row[a].started
    /\ Executable(a) /\ Approved(a) /\ ~held /\ pause = "off"
    /\ work' = [work EXCEPT ![e] = [pc |-> "prepared", action |-> a, answer |-> "none"]]
    /\ UNCHANGED <<founder, gmail>>

Claim(e) ==
    LET a == work[e].action IN
    /\ At(e, "prepared") /\ PauseFree
    /\ Claimable(a)
    /\ row' = [row EXCEPT ![a].state = "executing", ![a].auth = "claimed"]
    /\ Step(e, "claimed")
    /\ UNCHANGED <<policy, pause, held, late, changes, gmail>>

Start(e) ==
    LET a == work[e].action IN
    /\ At(e, "claimed") /\ PauseFree
    /\ row[a].receipt = "none" /\ ~row[a].started
    /\ ~held /\ pause = "off" /\ Executable(a) /\ Approved(a)
    /\ row' = [row EXCEPT ![a].started = TRUE]
    /\ Step(e, "started")
    /\ UNCHANGED <<policy, pause, held, late, changes, gmail>>

\* submitFounderMailWhileAuthorityLocked takes the lifecycle lock and checks again...
Check(e) ==
    /\ At(e, "started") /\ LifecycleFree
    /\ ~held /\ Executable(work[e].action)
    /\ Step(e, "checked")
    /\ UNCHANGED <<founder, gmail>>

\* ... then takes the pause lock...
Guard(e) ==
    /\ At(e, "checked") /\ PauseFree
    /\ pause = "off" /\ Approved(work[e].action)
    /\ Step(e, "guarded")
    /\ UNCHANGED <<founder, gmail>>

\* ... and asks Gmail.
Ask(e) ==
    LET a == work[e].action IN
    /\ At(e, "guarded")
    /\ gmail' = [gmail EXCEPT ![a] = [calls |-> gmail[a].calls + 1, fate |-> "asked"]]
    /\ Step(e, "asking")
    /\ UNCHANGED founder

\* The request may arrive after its sender has gone, or never.
Arrive(a) ==
    /\ gmail[a].fate = "asked"
    /\ \E fate \in {"taken", "refused"} : gmail' = [gmail EXCEPT ![a].fate = fate]
    /\ UNCHANGED <<founder, work>>

\* Asks again when the answer proves nothing.
MutantAnswer(e, answer) ==
    LET fate == gmail[work[e].action].fate IN
    /\ At(e, "asking")
    /\ answer = "accepted" => fate = "taken"
    /\ answer = "rejected" => fate = "refused"
    /\ work' = [work EXCEPT ![e].pc = IF answer = "lost" THEN "guarded" ELSE "answered",
                            ![e].answer = answer]
    /\ UNCHANGED <<founder, gmail>>

\* What sendMessage makes of the answer: an error of Gmail's own, no answer or one without an
\* identity prove nothing.  The locks are released.
Answer(e, answer) ==
    LET fate == gmail[work[e].action].fate IN
    /\ At(e, "asking")
    /\ answer = "accepted" => fate = "taken"
    /\ answer = "rejected" => fate = "refused"
    /\ work' = [work EXCEPT ![e].pc = "answered", ![e].answer = answer]
    /\ UNCHANGED <<founder, gmail>>

\* The token cannot be decrypted: nothing is sent, which counts as unproven too.
Garble(e) ==
    /\ At(e, "guarded")
    /\ work' = [work EXCEPT ![e].pc = "answered", ![e].answer = "lost"]
    /\ UNCHANGED <<founder, gmail>>

\* The phase of the attempt in place of the outcome.
MutantOutcome(answer) ==
    CASE answer = "accepted" -> "acknowledged"
      [] answer = "rejected" -> "failed"
      [] OTHER -> "outcome_uncertain"

Outcome(answer) ==
    CASE answer = "accepted" -> "succeeded"
      [] answer = "rejected" -> "failed"
      [] OTHER -> "outcome_uncertain"

\* The later answer replaces what was recorded.
MutantReceipted(a, outcome) == [row EXCEPT ![a].receipt = outcome, ![a].state = outcome]

\* finalizeExecution keeps a receipt that is there already.
Receipted(a, outcome) ==
    IF row[a].receipt # "none" THEN row
    ELSE [row EXCEPT ![a].receipt = outcome, ![a].state = outcome]

Finalize(e) ==
    /\ At(e, "answered")
    /\ row' = Receipted(work[e].action, Outcome(work[e].answer))
    /\ work' = [work EXCEPT ![e] = Idle]
    /\ UNCHANGED <<policy, pause, held, late, changes, gmail>>

\* A check refuses, the process dies or the database fails; what it held is released.
GiveUp(e) ==
    /\ ~At(e, "idle")
    /\ work' = [work EXCEPT ![e] = Idle]
    /\ UNCHANGED <<founder, gmail>>

(***************************************************************************)
(* The founder asks what became of an attempt that was never answered      *)
(***************************************************************************)
Reconcile(a) ==
    /\ LifecycleFree
    /\ row[a].started /\ row[a].receipt = "none" /\ ~held
    /\ row' = Receipted(a, "outcome_uncertain")
    /\ UNCHANGED <<policy, pause, held, late, changes, work, gmail>>

(***************************************************************************)
(* Which of the founder's transactions wait for a lock                     *)
(***************************************************************************)
AwaitsLifecycle ==
    \/ \E a \in Actions : Propose(a)
    \/ \E a, b \in Actions : RequestChanges(a, b) \/ Revise(a, b)
    \/ CloseAccount
    \/ \E hold \in BOOLEAN : SetHold(hold)
AwaitsPause == \E paused \in BOOLEAN : SetPause(paused)
AwaitsNone ==
    \/ \E a \in Actions : Approve(a) \/ Decline(a) \/ Expire(a)
    \/ \E allowed \in BOOLEAN : ChangePolicy(allowed)
    \/ RequestDeletion

Founder ==
    /\ \/ LifecycleFree /\ AwaitsLifecycle
       \/ PauseFree /\ AwaitsPause
       \/ AwaitsNone
    /\ UNCHANGED <<work, gmail>>

Executor(e) ==
    \/ \E a \in Actions : Prepare(e, a)
    \/ Claim(e) \/ Start(e) \/ Check(e) \/ Guard(e) \/ Ask(e) \/ Garble(e)
    \/ \E answer \in Answers \ {"none"} : Answer(e, answer)
    \/ Finalize(e) \/ GiveUp(e)

Next ==
    \/ Founder
    \/ \E e \in Executors : Executor(e)
    \/ \E a \in Actions : Arrive(a) \/ Reconcile(a)
Spec == Init /\ [][Next]_vars

(***************************************************************************)
(* Properties                                                              *)
(***************************************************************************)
Works == [pc : Steps, action : Actions \cup {NoAction}, answer : Answers]
Mails == [calls : Nat, fate : {"unasked", "asked", "taken", "refused"}]

\* The values of the rows, of the executors and of Gmail's side.
MailTypeOK ==
    /\ row \in [Actions -> Rows]
    /\ policy \in [version : Nat, allowed : BOOLEAN]
    /\ pause \in Pauses /\ held \in BOOLEAN /\ late \subseteq Actions
    /\ changes \in 0..MaxChanges
    /\ work \in [Executors -> Works]
    /\ \A e \in Executors : work[e].pc # "idle" => work[e].action \in Actions
    /\ gmail \in [Actions -> Mails]

\* Gmail is asked once at most for one action, however many runs there are, whoever dies and
\* whoever reconciles (the claim in claimFounderActionAuthorizationForUser, the state that the
\* submission reads again under the lifecycle lock).
SentOnce == \A a \in Actions : gmail[a].calls <= 1

\* At the moment Gmail is asked the action is still the approved one that was claimed, nobody has
\* recorded an outcome, the founder has neither paused nor closed the account and the release is
\* not on hold: all of these were read earlier, and hold because of the locks kept since
\* (submitFounderMailWhileAuthorityLocked).
SendIsPermitted ==
    [][\A a \in Actions : gmail'[a].calls # gmail[a].calls =>
           /\ row[a].state = "executing" /\ row[a].receipt = "none"
           /\ row[a].decision = "approve" /\ row[a].auth = "claimed"
           /\ ~held /\ pause \notin {"founder", "closure"}]_vars

\* What the rows and Gmail's side amount to for the founder.
Stage(a) ==
    LET r == row[a] IN
    IF r.receipt # "none" THEN "closed"
    ELSE CASE r.state \in {"absent", "awaiting_approval"} -> "pending"
           [] r.state = "authorized" -> "approved"
           [] r.state = "executing" -> "permitted"
           [] OTHER -> IF r.auth = "claimed" THEN "recalled" ELSE "dropped"

Effect == INSTANCE OneEffect WITH
    stage <- [a \in Actions |-> Stage(a)],
    effect <- [a \in Actions |-> gmail[a].fate],
    outcome <- [a \in Actions |-> row[a].receipt]

\* The rows, the runs and Gmail together keep the promise of OneEffect.
IsOneEffect == Effect!Spec
===============================================================================
