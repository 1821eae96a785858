---------------------------- MODULE ProposedActions ----------------------------
(***************************************************************************)
(* Proposed Actions of the family external_communication: the rows of      *)
(* operator_proposed_actions with their decision, authorization, started   *)
(* attempt and receipt, and everything a founder or the account's own      *)
(* upkeep does to them (src/server/operators: founder-proposed-actions,    *)
(* founder-ai-work, founder-deletion; founder-product-contract:            *)
(* release-stage-hold).  Each operation is one transaction; the advisory   *)
(* locks it waits for are added by MailExecution, the only code that keeps *)
(* one over several steps.                                                 *)
(*                                                                         *)
(* A row never changes its version: a revision is a new row, so the        *)
(* comparisons with an expected version always hold.  The states "proposed"*)
(* and "expired" are never stored: whoever writes "expired" (or "blocked"  *)
(* on a refusal) throws inside the same transaction.                       *)
(***************************************************************************)
EXTENDS Naturals

CONSTANTS
    Actions,   \* rows there may ever be
    MaxChanges \* bound: policy changes, pauses, deletion requests, closures and holds

ASSUME ChangesAssumption == MaxChanges \in Nat

VARIABLES
    row,     \* the proposed actions
    policy,  \* the latest authority policy: its version and whether it lets mail be proposed
    pause,   \* operators.external_action_pause, and who set it
    held,    \* is the release stage on hold?
    late,    \* the actions whose validity or execution window is over
    changes  \* the bounded counter

founder == <<row, policy, pause, held, late, changes>>

States == {"absent", "awaiting_approval", "authorized", "executing", "succeeded", "failed",
           "outcome_uncertain", "declined", "superseded", "cancelled", "blocked"}
Outcomes == {"succeeded", "failed", "outcome_uncertain"}
Rows == [state : States, policy : Nat, decision : {"none", "approve", "decline", "request_changes"},
         auth : {"none", "granted", "claimed"}, started : BOOLEAN, receipt : Outcomes \cup {"none"}]
Pauses == {"off", "founder", "deletion", "closure"}

New(state) == [state |-> state, policy |-> policy.version, decision |-> "none",
               auth |-> "none", started |-> FALSE, receipt |-> "none"]

FounderInit ==
    /\ policy = [version |-> 1, allowed |-> TRUE]
    /\ row = [a \in Actions |-> New("absent")]
    /\ pause = "off" /\ held = FALSE /\ late = {} /\ changes = 0

(***************************************************************************)
(* Proposals and the founder's decisions                                   *)
(***************************************************************************)
\* A policy of "never" blocks a new row, and so does a guardrail on its subtype.
Evaluated == IF policy.allowed THEN {"awaiting_approval", "blocked"} ELSE {"blocked"}

Propose(a) ==
    /\ row[a].state = "absent"
    /\ \E state \in Evaluated : row' = [row EXCEPT ![a] = New(state)]
    /\ UNCHANGED <<policy, pause, held, late, changes>>

\* The policy is the present one; the version the row was proposed under is not compared.
Decidable(a) ==
    /\ row[a].state = "awaiting_approval" /\ row[a].decision = "none"
    /\ a \notin late /\ policy.allowed

Approve(a) ==
    /\ Decidable(a)
    /\ row' = [row EXCEPT ![a].state = "authorized", ![a].decision = "approve",
                          ![a].auth = "granted"]
    /\ UNCHANGED <<policy, pause, held, late, changes>>

Decline(a) ==
    /\ Decidable(a)
    /\ row' = [row EXCEPT ![a].state = "declined", ![a].decision = "decline"]
    /\ UNCHANGED <<policy, pause, held, late, changes>>

RequestChanges(a, b) ==
    /\ Decidable(a) /\ row[b].state = "absent"
    /\ \E state \in Evaluated :
           row' = [row EXCEPT ![a].state = "superseded", ![a].decision = "request_changes",
                              ![b] = New(state)]
    /\ UNCHANGED <<policy, pause, held, late, changes>>

\* Whatever the state of the row, one that is being carried out or is done included.
Revise(a, b) ==
    /\ row[a].state # "absent" /\ row[b].state = "absent"
    /\ \E state \in Evaluated :
           row' = [row EXCEPT ![a].state = "superseded", ![b] = New(state)]
    /\ UNCHANGED <<policy, pause, held, late, changes>>

(***************************************************************************)
(* What changes around them                                                *)
(***************************************************************************)
Changed == changes < MaxChanges /\ changes' = changes + 1

\* A new policy version revokes every approval not yet taken up.
Revoked(a, allowed) ==
    IF row[a].state = "authorized"
    THEN [row[a] EXCEPT !.state = "blocked", !.auth = "none"]
    ELSE IF row[a].state = "awaiting_approval" /\ ~allowed
    THEN [row[a] EXCEPT !.state = "blocked"]
    ELSE row[a]

ChangePolicy(allowed) ==
    /\ Changed
    /\ policy' = [version |-> policy.version + 1, allowed |-> allowed]
    /\ row' = [a \in Actions |-> Revoked(a, allowed)]
    /\ UNCHANGED <<pause, held, late>>

\* The founder pauses, or resumes whoever has paused.
SetPause(paused) ==
    /\ Changed
    /\ pause' = IF paused THEN "founder" ELSE "off"
    /\ UNCHANGED <<row, policy, held, late>>

\* A request that repeats an open one changes nothing; here it may pause once more.
RequestDeletion ==
    /\ Changed
    /\ pause' = "deletion"
    /\ UNCHANGED <<row, policy, held, late>>

Cancelled(a) ==
    IF row[a].state \in {"awaiting_approval", "authorized"}
    THEN [row[a] EXCEPT !.state = "cancelled"]
    ELSE row[a]

CloseAccount ==
    /\ Changed
    /\ pause' = "closure"
    /\ row' = [a \in Actions |-> Cancelled(a)]
    /\ UNCHANGED <<policy, held, late>>

SetHold(hold) ==
    /\ Changed
    /\ held' = hold
    /\ UNCHANGED <<row, policy, pause, late>>

Expire(a) ==
    /\ a \notin late
    /\ late' = late \cup {a}
    /\ UNCHANGED <<row, policy, pause, held, changes>>

(***************************************************************************)
(* What an executor asks before it acts                                    *)
(***************************************************************************)
\* recheckFounderProposedActionForExecution
Executable(a) ==
    /\ row[a].state \in {"authorized", "executing"}
    /\ a \notin late
    /\ row[a].policy = policy.version /\ policy.allowed

Approved(a) == row[a].auth # "none" /\ row[a].decision = "approve"

\* claimFounderActionAuthorizationForUser: an authorization is claimed once.
Claimable(a) ==
    /\ row[a].auth = "granted" /\ row[a].state = "authorized"
    /\ a \notin late /\ policy.allowed /\ pause = "off"
===============================================================================
