-------------------------- MODULE MailExecution_proofs --------------------------
(***************************************************************************)
(* MailExecution keeps its types, asks Gmail once at most for an action    *)
(* and only while the action is permitted, and implements OneEffect: for   *)
(* any number of actions, executors and changes of the founder's mind.     *)
(***************************************************************************)
EXTENDS MailExecution, TLAPS

\* What the fields of one row say of each other and of Gmail's side.
RowOK(a) ==
    LET r == row[a] IN
    /\ r.state = "authorized" => r.auth = "granted"
    /\ r.state = "executing" => r.auth = "claimed" /\ r.receipt = "none"
    /\ r.state \in {"absent", "awaiting_approval"} => r.auth = "none"
    /\ r.auth # "none" => r.decision = "approve"
    /\ r.started => r.auth = "claimed"
    /\ r.receipt # "none" => r.started
    /\ r.receipt = "none" => r.state \notin Outcomes
    /\ gmail[a].calls > 0 => r.started
    /\ gmail[a].calls = 0 => gmail[a].fate = "unasked"
    /\ gmail[a].calls \in {0, 1}

\* What a run relies on at each of its steps.
RunOK(e) ==
    LET a == work[e].action r == row[a] IN
    /\ work[e].pc \notin {"idle", "prepared"} => r.auth = "claimed"
    /\ work[e].pc = "claimed" => ~r.started
    /\ work[e].pc \in {"started", "checked", "guarded"} => r.started /\ gmail[a].calls = 0
    /\ work[e].pc \in {"checked", "guarded"} => r.state = "executing" /\ ~held
    /\ work[e].pc = "guarded" => pause \notin {"founder", "closure"}
    /\ work[e].pc \in {"asking", "answered"} => r.started
    /\ work[e].pc = "answered" /\ work[e].answer = "accepted" => gmail[a].fate = "taken"
    /\ work[e].pc = "answered" /\ work[e].answer = "rejected" => gmail[a].fate = "refused"

\* An authorization that has been claimed has one run at most.
Apart(d, e) ==
    work[d].pc \notin {"idle", "prepared"} /\ work[e].pc \notin {"idle", "prepared"}
        /\ work[d].action = work[e].action => d = e

IInv == /\ MailTypeOK
        /\ \A a \in Actions : RowOK(a)
        /\ \A e \in Executors : RunOK(e)
        /\ \A d, e \in Executors : Apart(d, e)

LEMMA InitIInv == Init => IInv
<1> SUFFICES ASSUME Init PROVE IInv
  OBVIOUS
<1> USE DEF Init, FounderInit, New, Idle
<1>1. \A a \in Actions : row[a] \in Rows
  BY DEF Rows, States, Outcomes
<1>2. MailTypeOK
  <2>1. row \in [Actions -> Rows]
    BY <1>1
  <2>2. policy \in [version : Nat, allowed : BOOLEAN]
    OBVIOUS
  <2>3. work \in [Executors -> Works] /\ \A e \in Executors : work[e].pc = "idle"
    BY DEF Works, Steps, Answers
  <2>4. gmail \in [Actions -> Mails]
    BY DEF Mails
  <2>5. pause \in Pauses /\ held \in BOOLEAN /\ late \subseteq Actions
    BY DEF Pauses
  <2>6. changes \in 0..MaxChanges
    BY ChangesAssumption
  <2>. QED  BY <2>1, <2>2, <2>3, <2>4, <2>5, <2>6 DEF MailTypeOK
<1>3. ASSUME NEW a \in Actions PROVE RowOK(a)
  <2>1. /\ row[a].state = "absent" /\ row[a].auth = "none" /\ row[a].receipt = "none"
        /\ row[a].started = FALSE /\ gmail[a].calls = 0 /\ gmail[a].fate = "unasked"
    OBVIOUS
  <2>. QED  BY <2>1 DEF RowOK, Outcomes
<1>4. (\A e \in Executors : RunOK(e)) /\ (\A d, e \in Executors : Apart(d, e))
  BY DEF RunOK, Apart
<1>. QED  BY <1>2, <1>3, <1>4 DEF IInv

(***************************************************************************)
(* The founder's transactions.  None of them but Hold and Close disturbs a *)
(* run that keeps the lifecycle lock, and those wait for it.               *)
(***************************************************************************)
\* What a change of the rows must respect for the invariant to survive it.
Respects(r, s) ==
    /\ s.receipt = r.receipt /\ s.started = r.started
    /\ s.auth = "claimed" <=> r.auth = "claimed"
    /\ r.auth = "claimed" => s.decision = r.decision
    /\ s.state \notin Outcomes \/ s.state = r.state
    /\ s.state = "authorized" => s.auth = "granted"
    /\ s.state = "executing" => r.state = "executing"
    /\ s.state \in {"absent", "awaiting_approval"} => s.auth = "none"
    /\ s.auth # "none" => s.decision = "approve"

LEMMA RowsRespected ==
  ASSUME IInv, UNCHANGED <<work, gmail>>, MailTypeOK',
         \A a \in Actions : Respects(row[a], row'[a]),
         \A e \in Executors : work[e].pc \in {"checked", "guarded"} =>
             row'[work[e].action].state = row[work[e].action].state /\ held' = held,
         \A e \in Executors : work[e].pc = "guarded" => pause' = pause \/ pause' = "deletion"
  PROVE  IInv'
<1> USE DEF IInv
<1>1. ASSUME NEW a \in Actions PROVE RowOK(a)'
  <2>1. RowOK(a) /\ Respects(row[a], row'[a]) /\ row[a] \in Rows /\ gmail'[a] = gmail[a]
    BY DEF MailTypeOK
  <2>. QED  BY <2>1 DEF RowOK, Respects
<1>2. ASSUME NEW e \in Executors PROVE RunOK(e)'
  <2>1. RunOK(e) /\ work'[e] = work[e]
    BY DEF RunOK
  <2>2. CASE work[e].pc = "idle"
    BY <2>1, <2>2 DEF RunOK
  <2>3. CASE work[e].pc # "idle"
    <3>1. work[e].action \in Actions
      BY <2>3 DEF MailTypeOK
    <3>2. Respects(row[work[e].action], row'[work[e].action])
      BY <3>1
    <3>. QED  BY <2>1, <3>2 DEF RunOK, Respects
  <2>. QED  BY <2>2, <2>3
<1>3. \A d, e \in Executors : Apart(d, e)'
  BY DEF Apart
<1>. QED  BY <1>1, <1>2, <1>3

\* A row that is absent is blank.
LEMMA AbsentIsBlank ==
  ASSUME IInv, NEW a \in Actions, row[a].state = "absent", NEW state \in {"awaiting_approval", "blocked"}
  PROVE  Respects(row[a], New(state))
<1>1. RowOK(a) /\ row[a] \in Rows
  BY DEF IInv, MailTypeOK
<1>2. row[a].auth = "none" /\ row[a].receipt = "none" /\ row[a].started = FALSE
  BY <1>1 DEF RowOK, Rows
<1>. QED  BY <1>2 DEF Respects, New, Outcomes

LEMMA FounderTypes == MailTypeOK /\ Founder => MailTypeOK'
<1> SUFFICES ASSUME MailTypeOK, Founder PROVE MailTypeOK'
  OBVIOUS
<1> USE DEF MailTypeOK
<1>a. \A state \in {"awaiting_approval", "blocked"} : New(state) \in Rows
  BY DEF New, Rows, States
<1>b. Evaluated \subseteq {"awaiting_approval", "blocked"}
  BY DEF Evaluated
<1>1. CASE \E a \in Actions : Propose(a)
  BY <1>1, <1>a, <1>b DEF Propose, Founder
<1>2. CASE \E a, b \in Actions : RequestChanges(a, b)
  <2>1. PICK a \in Actions, b \in Actions : RequestChanges(a, b)
    BY <1>2
  <2>2. PICK state \in Evaluated :
            row' = [row EXCEPT ![a].state = "superseded", ![a].decision = "request_changes",
                               ![b] = New(state)]
    BY <2>1 DEF RequestChanges
  <2>. DEFINE given == [row[a] EXCEPT !.state = "superseded", !.decision = "request_changes"]
  <2>3. New(state) \in Rows /\ given \in Rows
    BY <1>a, <1>b DEF Rows, States
  <2>4. row' \in [Actions -> Rows]
    <3>1. row' = [row EXCEPT ![a] = given, ![b] = New(state)]
      BY <2>2
    <3>. HIDE DEF given
    <3>. QED  BY <2>3, <3>1
  <2>. QED  BY <2>1, <2>4 DEF RequestChanges, Founder
<1>3. CASE \E a, b \in Actions : Revise(a, b)
  BY <1>3, <1>a, <1>b DEF Revise, Founder, Rows, States
<1>4. CASE CloseAccount
  <2>1. \A a \in Actions : Cancelled(a) \in Rows
    BY DEF Cancelled, Rows, States
  <2>. QED  BY <1>4, <2>1, ChangesAssumption DEF CloseAccount, Changed, Founder, Pauses
<1>5. CASE \E hold \in BOOLEAN : SetHold(hold)
  BY <1>5, ChangesAssumption DEF SetHold, Changed, Founder
<1>6. CASE \E paused \in BOOLEAN : SetPause(paused)
  BY <1>6, ChangesAssumption DEF SetPause, Changed, Founder, Pauses
<1>7. CASE \E a \in Actions : Approve(a) \/ Decline(a)
  BY <1>7 DEF Approve, Decline, Founder, Rows, States
<1>8. CASE \E a \in Actions : Expire(a)
  BY <1>8 DEF Expire, Founder
<1>9. CASE \E allowed \in BOOLEAN : ChangePolicy(allowed)
  <2>1. \A a \in Actions, allowed \in BOOLEAN : Revoked(a, allowed) \in Rows
    BY DEF Revoked, Rows, States
  <2>. QED  BY <1>9, <2>1, ChangesAssumption DEF ChangePolicy, Changed, Founder
<1>10. CASE RequestDeletion
  BY <1>10, ChangesAssumption DEF RequestDeletion, Changed, Founder, Pauses
<1>. QED
  BY <1>1, <1>2, <1>3, <1>4, <1>5, <1>6, <1>7, <1>8, <1>9, <1>10
     DEF Founder, AwaitsLifecycle, AwaitsPause, AwaitsNone

LEMMA FounderStep == IInv /\ Founder => IInv'
<1> SUFFICES ASSUME IInv, Founder PROVE IInv'
  OBVIOUS
<1>a. MailTypeOK /\ MailTypeOK' /\ UNCHANGED <<work, gmail>>
  BY FounderTypes DEF IInv, Founder
<1>b. \A a \in Actions : RowOK(a) /\ row[a] \in Rows
  BY DEF IInv, MailTypeOK
<1>c. row \in [Actions -> Rows]
  BY <1>a DEF MailTypeOK
<1>d. \A e \in Executors : work[e].pc = "guarded" => work[e].pc \in {"checked", "guarded"}
  OBVIOUS
<1>e. \A state \in Evaluated : state \in {"awaiting_approval", "blocked"}
  BY DEF Evaluated
<1>f. \A a \in Actions : Respects(row[a], row[a])
  BY <1>b DEF Respects, RowOK
<1>1. CASE LifecycleFree /\ AwaitsLifecycle
  <2>1. \A e \in Executors : work[e].pc \notin {"checked", "guarded"}
    BY <1>1 DEF LifecycleFree
  <2>2. \A a \in Actions : Respects(row[a], row'[a])
    <3>1. CASE \E a \in Actions : Propose(a)
      BY <3>1, <1>c, <1>e, <1>f, AbsentIsBlank DEF Propose
    <3>2. CASE \E a, b \in Actions : RequestChanges(a, b)
      BY <3>2, <1>b, <1>c, <1>e, <1>f, AbsentIsBlank
         DEF RequestChanges, Decidable, Respects, RowOK, Rows, Outcomes
    <3>3. CASE \E a, b \in Actions : Revise(a, b)
      BY <3>3, <1>b, <1>c, <1>e, <1>f, AbsentIsBlank DEF Revise, Respects, RowOK, Rows, Outcomes
    <3>4. CASE CloseAccount
      BY <3>4, <1>b, <1>c, <1>f DEF CloseAccount, Cancelled, Respects, RowOK, Rows, Outcomes
    <3>5. CASE \E hold \in BOOLEAN : SetHold(hold)
      BY <3>5, <1>f DEF SetHold
    <3>. QED  BY <1>1, <3>1, <3>2, <3>3, <3>4, <3>5 DEF AwaitsLifecycle
  <2>. QED  BY <1>a, <1>d, <2>1, <2>2, RowsRespected
<1>2. CASE PauseFree /\ AwaitsPause
  <2>1. \A e \in Executors : work[e].pc # "guarded"
    BY <1>2 DEF PauseFree
  <2>2. row' = row /\ held' = held
    BY <1>2 DEF AwaitsPause, SetPause
  <2>. QED  BY <1>a, <1>f, <2>1, <2>2, RowsRespected
<1>3. CASE AwaitsNone
  <2>1. held' = held /\ (pause' = pause \/ pause' = "deletion")
    BY <1>3 DEF AwaitsNone, Approve, Decline, Expire, ChangePolicy, RequestDeletion
  <2>2. \A a \in Actions : Respects(row[a], row'[a]) /\ (row[a].state = "executing" => row'[a] = row[a])
    <3>1. CASE \E a \in Actions : Approve(a) \/ Decline(a)
      BY <3>1, <1>b, <1>c, <1>f DEF Approve, Decline, Decidable, Respects, RowOK, Rows, Outcomes
    <3>2. CASE \E a \in Actions : Expire(a)
      BY <3>2, <1>f DEF Expire
    <3>3. CASE \E allowed \in BOOLEAN : ChangePolicy(allowed)
      <4>1. ASSUME NEW a \in Actions, NEW allowed \in BOOLEAN
            PROVE  Respects(row[a], Revoked(a, allowed))
        BY <1>b, <1>f DEF Revoked, Respects, RowOK, Rows, Outcomes
      <4>. QED  BY <3>3, <4>1 DEF ChangePolicy, Revoked
    <3>4. CASE RequestDeletion
      BY <3>4, <1>f DEF RequestDeletion
    <3>. QED  BY <1>3, <3>1, <3>2, <3>3, <3>4 DEF AwaitsNone
  <2>3. \A e \in Executors : work[e].pc \in {"checked", "guarded"} =>
            work[e].action \in Actions /\ row[work[e].action].state = "executing"
    BY <1>a DEF IInv, RunOK, MailTypeOK
  <2>. QED  BY <1>a, <1>d, <2>1, <2>2, <2>3, RowsRespected
<1>. QED  BY <1>1, <1>2, <1>3 DEF Founder

(***************************************************************************)
(* The runs and Gmail                                                      *)
(***************************************************************************)
LEMMA OutcomeIsOutcome == \A answer : Outcome(answer) \in Outcomes
  BY DEF Outcome, Outcomes

LEMMA ReceiptedTypes ==
  ASSUME row \in [Actions -> Rows], NEW a \in Actions, NEW outcome \in Outcomes
  PROVE  Receipted(a, outcome) \in [Actions -> Rows]
<1>. DEFINE next == [row[a] EXCEPT !.receipt = outcome, !.state = outcome]
<1>1. next \in Rows
  BY DEF Rows, States, Outcomes
<1>2. [row EXCEPT ![a].receipt = outcome, ![a].state = outcome] = [row EXCEPT ![a] = next]
  OBVIOUS
<1>. HIDE DEF next
<1>. QED  BY <1>1, <1>2 DEF Receipted

LEMMA ExecutorTypes ==
  ASSUME MailTypeOK, NEW e \in Executors, Executor(e)
  PROVE  MailTypeOK'
<1> USE DEF MailTypeOK
<1>a. work[e] \in Works
  OBVIOUS
<1>b. \A x \in Works :
          work' = [work EXCEPT ![e] = x] /\ (x.pc # "idle" => x.action \in Actions) =>
              /\ work' \in [Executors -> Works]
              /\ \A d \in Executors : work'[d].pc # "idle" => work'[d].action \in Actions
  OBVIOUS
<1>c. \A to \in Steps : [work[e] EXCEPT !.pc = to] \in Works
  BY <1>a DEF Works
<1>d. \A to \in Steps : Step(e, to) /\ ~At(e, "idle") =>
          /\ work' \in [Executors -> Works]
          /\ \A d \in Executors : work'[d].pc # "idle" => work'[d].action \in Actions
  <2>1. ASSUME NEW to \in Steps, Step(e, to), ~At(e, "idle")
        PROVE  work' = [work EXCEPT ![e] = [work[e] EXCEPT !.pc = to]]
    BY <2>1 DEF Step
  <2>2. work[e].pc # "idle" => work[e].action \in Actions
    OBVIOUS
  <2>. QED  BY <1>a, <1>b, <1>c, <2>1, <2>2 DEF At, Works
<1>e. Idle \in Works
  BY DEF Idle, Works, Steps, Answers
<1>f. work[e].pc # "idle" => work[e].action \in Actions
  OBVIOUS
<1>1. ASSUME NEW a \in Actions, Prepare(e, a) PROVE MailTypeOK'
  <2>1. [pc |-> "prepared", action |-> a, answer |-> "none"] \in Works
    BY DEF Works, Steps, Answers
  <2>. QED  BY <1>1, <1>b, <2>1 DEF Prepare, founder
<1>2. CASE Claim(e)
  <2>. DEFINE next == [row[work[e].action] EXCEPT !.state = "executing", !.auth = "claimed"]
  <2>0. next \in Rows /\ row' = [row EXCEPT ![work[e].action] = next]
    <3>1. row[work[e].action] \in Rows
      BY <1>2, <1>f DEF Claim, At
    <3>2. next \in Rows
      BY <3>1 DEF Rows, States
    <3>. QED  BY <1>2, <3>2 DEF Claim
  <2>1. row' \in [Actions -> Rows]
    <3>. HIDE DEF next
    <3>. QED  BY <2>0
  <2>. QED  BY <1>2, <1>d, <2>1 DEF Claim, At, Steps
<1>3. CASE Start(e)
  <2>. DEFINE next == [row[work[e].action] EXCEPT !.started = TRUE]
  <2>0. next \in Rows /\ row' = [row EXCEPT ![work[e].action] = next]
    BY <1>3, <1>f DEF Start, At, Rows
  <2>1. row' \in [Actions -> Rows]
    <3>. HIDE DEF next
    <3>. QED  BY <2>0
  <2>. QED  BY <1>3, <1>d, <2>1 DEF Start, At, Steps
<1>4. CASE Check(e)
  BY <1>4, <1>d DEF Check, At, Steps, founder
<1>5. CASE Guard(e)
  BY <1>5, <1>d DEF Guard, At, Steps, founder
<1>6. CASE Ask(e)
  <2>0. [calls |-> gmail[work[e].action].calls + 1, fate |-> "asked"] \in Mails
    BY <1>6, <1>f DEF Ask, At, Mails
  <2>1. gmail' \in [Actions -> Mails]
    BY <1>6, <2>0 DEF Ask
  <2>. QED  BY <1>6, <1>d, <2>1 DEF Ask, At, Steps, founder
<1>7. ASSUME NEW answer \in Answers, Answer(e, answer) \/ Garble(e) PROVE MailTypeOK'
  <2>1. PICK told \in Answers :
            work' = [work EXCEPT ![e].pc = "answered", ![e].answer = told]
    BY <1>7 DEF Answer, Garble, Answers
  <2>2. [work[e] EXCEPT !.pc = "answered", !.answer = told] \in Works
    BY <1>a, <2>1 DEF Works, Steps
  <2>3. work' = [work EXCEPT ![e] = [work[e] EXCEPT !.pc = "answered", !.answer = told]]
    BY <2>1
  <2>4. work[e].action \in Actions
    BY <1>7 DEF Answer, Garble, At
  <2>. QED  BY <1>7, <1>a, <1>b, <2>2, <2>3, <2>4 DEF Answer, Garble, founder, Works
<1>8. CASE Finalize(e)
  <2>1. row' \in [Actions -> Rows]
    BY <1>8, <1>f, OutcomeIsOutcome, ReceiptedTypes DEF Finalize, At
  <2>. QED  BY <1>8, <1>b, <1>e, <2>1 DEF Finalize, Idle
<1>9. CASE GiveUp(e)
  BY <1>9, <1>b, <1>e DEF GiveUp, Idle, founder
<1>. QED
  BY <1>1, <1>2, <1>3, <1>4, <1>5, <1>6, <1>7, <1>8, <1>9 DEF Executor, Answers

LEMMA ExecutorStep ==
  ASSUME IInv, NEW e \in Executors, Executor(e)
  PROVE  IInv'
<1>a. MailTypeOK /\ MailTypeOK'
  BY ExecutorTypes DEF IInv
<1>b. /\ \A a \in Actions : RowOK(a)
      /\ \A d \in Executors : RunOK(d)
      /\ \A c, d \in Executors : Apart(c, d)
  BY DEF IInv
<1>c. /\ row \in [Actions -> Rows] /\ gmail \in [Actions -> Mails] /\ work \in [Executors -> Works]
      /\ \A d \in Executors : work[d].pc # "idle" => work[d].action \in Actions
  BY <1>a DEF MailTypeOK
<1>d. \A to \in Steps : Step(e, to) =>
          /\ work'[e].pc = to /\ work'[e].action = work[e].action /\ work'[e].answer = work[e].answer
          /\ \A d \in Executors : d # e => work'[d] = work[d]
  BY <1>c DEF Step, Works
<1> SUFFICES /\ \A a \in Actions : RowOK(a)'
             /\ \A d \in Executors : RunOK(d)'
             /\ \A c, d \in Executors : Apart(c, d)'
  BY <1>a DEF IInv
<1>1. ASSUME NEW a \in Actions, Prepare(e, a)
      PROVE  /\ \A x \in Actions : RowOK(x)'
             /\ \A d \in Executors : RunOK(d)'
             /\ \A c, d \in Executors : Apart(c, d)'
  <2>1. work'[e].pc = "prepared" /\ UNCHANGED <<row, pause, held, gmail>>
        /\ \A d \in Executors : d # e => work'[d] = work[d]
    BY <1>1, <1>c DEF Prepare, founder
  <2>. QED  BY <1>b, <2>1 DEF RowOK, RunOK, Apart
<1>2. CASE Claim(e)
  <2>. DEFINE a == work[e].action
  <2>1. /\ a \in Actions /\ At(e, "prepared") /\ row[a].auth = "granted" /\ row[a].state = "authorized"
        /\ row' = [row EXCEPT ![a].state = "executing", ![a].auth = "claimed"]
        /\ UNCHANGED <<pause, held, gmail>>
    BY <1>2, <1>c DEF Claim, Claimable, At
  <2>2. /\ work'[e].pc = "claimed" /\ work'[e].action = a
        /\ \A d \in Executors : d # e => work'[d] = work[d]
    BY <1>2, <1>d DEF Claim, Steps
  <2>3. ~row[a].started /\ row[a].receipt = "none" /\ row[a].decision = "approve"
    BY <1>b, <2>1 DEF RowOK
  <2>4. /\ row'[a].state = "executing" /\ row'[a].auth = "claimed" /\ row'[a].decision = "approve"
        /\ row'[a].receipt = "none" /\ ~row'[a].started
        /\ \A x \in Actions : x # a => row'[x] = row[x]
    BY <1>c, <2>1, <2>3 DEF Rows
  <2>5. \A d \in Executors : d # e /\ work[d].pc \notin {"idle", "prepared"} => work[d].action # a
    BY <1>b, <2>1 DEF RunOK
  <2>. HIDE DEF a
  <2>6. \A x \in Actions : RowOK(x)'
    <3>1. gmail'[a].calls = 0
      BY <1>b, <1>c, <2>1, <2>3 DEF RowOK, Mails
    <3>2. ASSUME NEW x \in Actions, x = a PROVE RowOK(x)'
      BY <1>b, <2>1, <2>4, <3>1, <3>2 DEF RowOK, Outcomes
    <3>3. ASSUME NEW x \in Actions, x # a PROVE RowOK(x)'
      BY <1>b, <2>1, <2>4, <3>3 DEF RowOK
    <3>. QED  BY <3>2, <3>3
  <2>7. \A d \in Executors : RunOK(d)'
    BY <1>b, <1>c, <2>1, <2>2, <2>3, <2>4, <2>5 DEF RunOK
  <2>8. \A c, d \in Executors : Apart(c, d)'
    BY <1>b, <2>2, <2>5 DEF Apart
  <2>. QED  BY <2>6, <2>7, <2>8
<1>3. CASE Start(e)
  <2>. DEFINE a == work[e].action
  <2>1. /\ a \in Actions /\ At(e, "claimed") /\ ~row[a].started
        /\ row' = [row EXCEPT ![a].started = TRUE]
        /\ UNCHANGED <<pause, held, gmail>>
    BY <1>3, <1>c DEF Start, At
  <2>2. /\ work'[e].pc = "started" /\ work'[e].action = a
        /\ \A d \in Executors : d # e => work'[d] = work[d]
    BY <1>3, <1>d DEF Start, Steps
  <2>3. gmail[a].calls = 0 /\ row[a].auth = "claimed"
    BY <1>b, <1>c, <2>1 DEF RowOK, RunOK, At, Mails
  <2>4. /\ row'[a].state = row[a].state /\ row'[a].auth = row[a].auth
        /\ row'[a].decision = row[a].decision
        /\ row'[a].receipt = row[a].receipt /\ row'[a].started
        /\ \A x \in Actions : x # a => row'[x] = row[x]
    BY <1>c, <2>1 DEF Rows
  <2>5. \A d \in Executors : d # e /\ work[d].pc \notin {"idle", "prepared"} => work[d].action # a
    BY <1>b, <2>1 DEF Apart, At
  <2>. HIDE DEF a
  <2>6. \A x \in Actions : RowOK(x)'
    BY <1>b, <2>1, <2>3, <2>4 DEF RowOK, Outcomes
  <2>7. \A d \in Executors : RunOK(d)'
    BY <1>b, <1>c, <2>1, <2>2, <2>3, <2>4, <2>5 DEF RunOK
  <2>8. \A c, d \in Executors : Apart(c, d)'
    BY <1>b, <2>2, <2>5 DEF Apart
  <2>. QED  BY <2>6, <2>7, <2>8
<1>4. CASE Check(e) \/ Guard(e)
  <2>. DEFINE a == work[e].action
  <2>1. /\ a \in Actions /\ UNCHANGED <<row, pause, held, gmail>>
        /\ \/ At(e, "started") /\ ~held /\ row[a].state \in {"authorized", "executing"}
              /\ Step(e, "checked")
           \/ At(e, "checked") /\ pause = "off" /\ Step(e, "guarded")
    BY <1>4, <1>c DEF Check, Guard, Executable, At, founder
  <2>2. /\ work'[e].pc \in {"checked", "guarded"} /\ work'[e].action = a
        /\ work'[e].pc = "guarded" => pause = "off"
        /\ work[e].pc \notin {"idle", "prepared"}
        /\ \A d \in Executors : d # e => work'[d] = work[d]
    BY <2>1, <1>d DEF Steps, At
  <2>3. row[a].started /\ gmail[a].calls = 0 /\ row[a].auth = "claimed"
        /\ row[a].state = "executing" /\ ~held
    BY <1>b, <2>1 DEF RunOK, RowOK, At
  <2>. HIDE DEF a
  <2>4. \A d \in Executors : RunOK(d)'
    BY <1>b, <2>1, <2>2, <2>3 DEF RunOK
  <2>5. \A c, d \in Executors : Apart(c, d)'
    BY <1>b, <2>2 DEF Apart, a
  <2>. QED  BY <1>b, <2>1, <2>4, <2>5 DEF RowOK
<1>5. CASE Ask(e)
  <2>. DEFINE a == work[e].action
  <2>1. /\ a \in Actions /\ At(e, "guarded") /\ UNCHANGED <<row, pause, held>>
        /\ gmail' = [gmail EXCEPT ![a] = [calls |-> gmail[a].calls + 1, fate |-> "asked"]]
    BY <1>5, <1>c DEF Ask, At, founder
  <2>2. /\ work'[e].pc = "asking" /\ work'[e].action = a
        /\ \A d \in Executors : d # e => work'[d] = work[d]
    BY <1>5, <1>d DEF Ask, Steps
  <2>3. row[a].started /\ gmail[a].calls = 0 /\ row[a].auth = "claimed"
    BY <1>b, <2>1 DEF RunOK, At
  <2>4. gmail'[a].calls = 1 /\ \A x \in Actions : x # a => gmail'[x] = gmail[x]
    BY <1>c, <2>1, <2>3
  <2>5. \A d \in Executors : d # e /\ work[d].pc \notin {"idle", "prepared"} => work[d].action # a
    BY <1>b, <2>1 DEF Apart, At
  <2>. HIDE DEF a
  <2>6. \A x \in Actions : RowOK(x)'
    BY <1>b, <2>1, <2>3, <2>4 DEF RowOK
  <2>7. \A d \in Executors : RunOK(d)'
    BY <1>b, <1>c, <2>1, <2>2, <2>3, <2>4, <2>5 DEF RunOK
  <2>8. \A c, d \in Executors : Apart(c, d)'
    BY <1>b, <2>1, <2>2 DEF Apart, At, a
  <2>. QED  BY <2>6, <2>7, <2>8
<1>6. ASSUME NEW answer \in Answers, Answer(e, answer) \/ Garble(e)
      PROVE  /\ \A x \in Actions : RowOK(x)'
             /\ \A d \in Executors : RunOK(d)'
             /\ \A c, d \in Executors : Apart(c, d)'
  <2>. DEFINE a == work[e].action
  <2>1. /\ a \in Actions /\ work[e].pc \in {"guarded", "asking"} /\ UNCHANGED <<row, pause, held, gmail>>
        /\ work'[e].pc = "answered" /\ work'[e].action = a
        /\ work'[e].answer = "accepted" => gmail[a].fate = "taken"
        /\ work'[e].answer = "rejected" => gmail[a].fate = "refused"
        /\ \A d \in Executors : d # e => work'[d] = work[d]
    BY <1>6, <1>c DEF Answer, Garble, At, founder, Works
  <2>2. row[a].started /\ row[a].auth = "claimed"
    BY <1>b, <2>1 DEF RunOK
  <2>. HIDE DEF a
  <2>3. \A d \in Executors : RunOK(d)'
    BY <1>b, <2>1, <2>2 DEF RunOK
  <2>4. \A c, d \in Executors : Apart(c, d)'
    BY <1>b, <2>1 DEF Apart, a
  <2>. QED  BY <1>b, <2>1, <2>3, <2>4 DEF RowOK
<1>7. CASE Finalize(e)
  <2>. DEFINE a == work[e].action
  <2>1. /\ a \in Actions /\ At(e, "answered") /\ UNCHANGED <<pause, held, gmail>>
        /\ row' = Receipted(a, Outcome(work[e].answer))
        /\ work'[e].pc = "idle" /\ \A d \in Executors : d # e => work'[d] = work[d]
    BY <1>7, <1>c DEF Finalize, Idle, At
  <2>2. row[a].started /\ row[a].auth = "claimed"
    BY <1>b, <2>1 DEF RunOK, At
  <2>3. PICK outcome \in Outcomes : row' = Receipted(a, outcome)
    BY <2>1, OutcomeIsOutcome
  <2>4. /\ row'[a].auth = row[a].auth /\ row'[a].decision = row[a].decision /\ row'[a].started
        /\ row'[a] = row[a] \/ (row'[a].state = outcome /\ row'[a].receipt = outcome)
        /\ \A x \in Actions : x # a => row'[x] = row[x]
    <3>. HIDE DEF a
    <3>1. CASE row[a].receipt # "none"
      <4>1. row' = row
        BY <3>1, <2>3 DEF Receipted
      <4>. QED  BY <2>2, <4>1
    <3>2. CASE row[a].receipt = "none"
      BY <3>2, <1>c, <2>1, <2>2, <2>3 DEF Receipted, Rows
    <3>. QED  BY <3>1, <3>2
  <2>5. \A d \in Executors : d # e /\ work[d].pc \notin {"idle", "prepared"} => work[d].action # a
    BY <1>b, <2>1 DEF Apart, At
  <2>. HIDE DEF a
  <2>6. \A x \in Actions : RowOK(x)'
    BY <1>b, <2>1, <2>2, <2>4 DEF RowOK, Outcomes
  <2>7. \A d \in Executors : RunOK(d)'
    BY <1>b, <1>c, <2>1, <2>4, <2>5 DEF RunOK
  <2>8. \A c, d \in Executors : Apart(c, d)'
    BY <1>b, <2>1 DEF Apart
  <2>. QED  BY <2>6, <2>7, <2>8
<1>8. CASE GiveUp(e)
  <2>1. work'[e].pc = "idle" /\ UNCHANGED <<row, pause, held, gmail>>
        /\ \A d \in Executors : d # e => work'[d] = work[d]
    BY <1>8, <1>c DEF GiveUp, Idle, founder
  <2>. QED  BY <1>b, <2>1 DEF RowOK, RunOK, Apart
<1>. QED
  BY <1>1, <1>2, <1>3, <1>4, <1>5, <1>6, <1>7, <1>8 DEF Executor, Answers

\* A request arrives, or the founder has an attempt reconciled.
LEMMA OutsideStep ==
  ASSUME IInv, NEW a \in Actions, Arrive(a) \/ Reconcile(a)
  PROVE  IInv'
<1>a. MailTypeOK /\ (\A x \in Actions : RowOK(x)) /\ (\A d \in Executors : RunOK(d))
      /\ \A c, d \in Executors : Apart(c, d)
  BY DEF IInv
<1>b. /\ row \in [Actions -> Rows] /\ gmail \in [Actions -> Mails]
      /\ \A d \in Executors : work[d].pc # "idle" => work[d].action \in Actions
  BY <1>a DEF MailTypeOK
<1>1. CASE Arrive(a)
  <2>1. UNCHANGED <<row, policy, pause, held, late, changes, work>> /\ gmail[a].fate = "asked"
    BY <1>1 DEF Arrive, founder
  <2>2. PICK fate \in {"taken", "refused"} : gmail' = [gmail EXCEPT ![a].fate = fate]
    BY <1>1 DEF Arrive
  <2>3. /\ gmail'[a].calls = gmail[a].calls /\ gmail'[a].fate = fate
        /\ \A x \in Actions : x # a => gmail'[x] = gmail[x]
    BY <1>b, <2>2 DEF Mails
  <2>4. gmail' \in [Actions -> Mails]
    BY <1>b, <2>2 DEF Mails
  <2>5. MailTypeOK'
    BY <1>a, <2>1, <2>4 DEF MailTypeOK
  <2>6. \A x \in Actions : RowOK(x)'
    BY <1>a, <2>1, <2>3 DEF RowOK
  <2>7. \A d \in Executors : RunOK(d)'
    BY <1>a, <1>b, <2>1, <2>3 DEF RunOK
  <2>. QED  BY <1>a, <2>1, <2>5, <2>6, <2>7 DEF IInv, Apart
<1>2. CASE Reconcile(a)
  <2>1. /\ UNCHANGED <<policy, pause, held, late, changes, work, gmail>>
        /\ row[a].started /\ row[a].receipt = "none"
        /\ \A d \in Executors : work[d].pc \notin {"checked", "guarded"}
    BY <1>2 DEF Reconcile, LifecycleFree
  <2>2. row' = [row EXCEPT ![a].receipt = "outcome_uncertain", ![a].state = "outcome_uncertain"]
    BY <1>2, <2>1 DEF Reconcile, Receipted
  <2>3. /\ row'[a].auth = row[a].auth /\ row'[a].decision = row[a].decision
        /\ row'[a].started
        /\ row'[a].state = "outcome_uncertain" /\ row'[a].receipt = "outcome_uncertain"
        /\ \A x \in Actions : x # a => row'[x] = row[x]
    BY <1>b, <2>1, <2>2 DEF Rows
  <2>4. row' \in [Actions -> Rows]
    BY <1>2, <1>b, ReceiptedTypes DEF Reconcile, Outcomes
  <2>5. MailTypeOK'
    BY <1>a, <2>1, <2>4 DEF MailTypeOK
  <2>6. \A x \in Actions : RowOK(x)'
    BY <1>a, <2>1, <2>3 DEF RowOK, Outcomes
  <2>7. \A d \in Executors : RunOK(d)'
    BY <1>a, <1>b, <2>1, <2>3 DEF RunOK
  <2>. QED  BY <1>a, <2>1, <2>5, <2>6, <2>7 DEF IInv, Apart
<1>. QED  BY <1>1, <1>2

LEMMA IInvStep == IInv /\ [Next]_vars => IInv'
<1> SUFFICES ASSUME IInv, [Next]_vars PROVE IInv'
  OBVIOUS
<1>1. CASE Next
  BY <1>1, FounderStep, ExecutorStep, OutsideStep DEF Next
<1>2. CASE UNCHANGED vars
  BY <1>2 DEF vars, founder, IInv, MailTypeOK, RowOK, RunOK, Apart
<1>. QED  BY <1>1, <1>2

(***************************************************************************)
(* What holds of every behaviour                                           *)
(***************************************************************************)
\* The strengthened invariant holds of every reachable state of the specification.
THEOREM Invariance == Spec => []IInv
BY InitIInv, IInvStep, PTL DEF Spec

\* Rows, executors and Gmail's side keep their types.
THEOREM MailTypes == Spec => []MailTypeOK
<1>1. IInv => MailTypeOK
  BY DEF IInv
<1>. QED  BY <1>1, Invariance, PTL

\* Whoever dies, whoever reconciles: Gmail is asked once at most for one action.
THEOREM AskedOnce == Spec => []SentOnce
<1>1. IInv => SentOnce
  <2>1. ASSUME IInv, NEW a \in Actions PROVE gmail[a].calls <= 1
    <3>1. gmail[a].calls \in {0, 1}
      BY <2>1 DEF IInv, RowOK
    <3>. QED  BY <3>1
  <2>. QED  BY <2>1 DEF SentOnce
<1>. QED  BY <1>1, Invariance, PTL

\* What a run found before it asks Gmail still holds when it asks.
LEMMA AskIsPermitted ==
  ASSUME IInv, NEW e \in Executors, Ask(e)
  PROVE  LET a == work[e].action IN
         /\ a \in Actions /\ gmail[a].calls = 0 /\ gmail[a].fate = "unasked"
         /\ row[a].state = "executing" /\ row[a].receipt = "none"
         /\ row[a].decision = "approve" /\ row[a].auth = "claimed"
         /\ ~held /\ pause \notin {"founder", "closure"}
<1>1. work[e].pc = "guarded" /\ work[e].action \in Actions
  BY DEF Ask, At, IInv, MailTypeOK
<1>2. RunOK(e) /\ RowOK(work[e].action)
  BY <1>1 DEF IInv
<1>. QED  BY <1>1, <1>2 DEF RunOK, RowOK

\* Only Ask adds a call.
LEMMA OnlyAskCalls ==
  ASSUME IInv, [Next]_vars, NEW a \in Actions, gmail'[a].calls # gmail[a].calls
  PROVE  \E e \in Executors : Ask(e) /\ work[e].action = a
<1>1. gmail \in [Actions -> Mails]
  BY DEF IInv, MailTypeOK
<1>2. gmail' # gmail
  OBVIOUS
<1>3. CASE \E x \in Actions : Arrive(x)
  <2>1. PICK x \in Actions, fate \in {"taken", "refused"} : gmail' = [gmail EXCEPT ![x].fate = fate]
    BY <1>3 DEF Arrive
  <2>2. gmail'[a].calls = gmail[a].calls
    BY <1>1, <2>1 DEF Mails
  <2>. QED  BY <2>2
<1>4. CASE \E e \in Executors : Ask(e)
  <2>1. PICK e \in Executors : Ask(e)
    BY <1>4
  <2>2. work[e].action = a
    BY <2>1, <1>1, AskIsPermitted DEF Ask
  <2>. QED  BY <2>1, <2>2
<1>. QED
  BY <1>2, <1>3, <1>4
     DEF vars, Next, Founder, Executor, Prepare, Claim, Start, Check, Guard, Answer, Garble,
         Finalize, GiveUp, Reconcile

\* Gmail is asked only for what is approved, claimed and unanswered, while the founder has not
\* paused, the account is open and the release is not on hold.
THEOREM PermittedSend == Spec => SendIsPermitted
<1>1. IInv /\ [Next]_vars =>
          [\A a \in Actions : gmail'[a].calls # gmail[a].calls =>
               /\ row[a].state = "executing" /\ row[a].receipt = "none"
               /\ row[a].decision = "approve" /\ row[a].auth = "claimed"
               /\ ~held /\ pause \notin {"founder", "closure"}]_vars
  BY OnlyAskCalls, AskIsPermitted
<1>. QED  BY <1>1, Invariance, PTL DEF Spec, SendIsPermitted

(***************************************************************************)
(* MailExecution implements OneEffect                                      *)
(***************************************************************************)
StageFn == [a \in Actions |-> Stage(a)]
FateFn == [a \in Actions |-> gmail[a].fate]
ToldFn == [a \in Actions |-> row[a].receipt]

\* What a change of mind makes of one row: nothing, or the action is withdrawn.
Recedes(a) ==
    \/ Stage(a)' = Stage(a)
    \/ /\ Stage(a) \in {"pending", "approved", "permitted"}
       /\ Stage(a)' = IF Stage(a) = "permitted" THEN "recalled" ELSE "dropped"

LEMMA RecedingWithdraws ==
  ASSUME \A a \in Actions : Recedes(a), UNCHANGED gmail,
         \A a \in Actions : row'[a].receipt = row[a].receipt
  PROVE  Effect!Next
<1>. DEFINE some == {a \in Actions : Stage(a)' # Stage(a)}
<1>1. \A a \in some : Stage(a) \in {"pending", "approved", "permitted"}
  BY DEF Recedes
<1>2. StageFn' = [a \in Actions |->
           IF a \notin some THEN Stage(a)
           ELSE IF Stage(a) = "permitted" THEN "recalled" ELSE "dropped"]
  BY DEF StageFn, Recedes
<1>3. FateFn' = FateFn /\ ToldFn' = ToldFn
  BY DEF FateFn, ToldFn
<1>4. some \in SUBSET Actions
  OBVIOUS
<1>. HIDE DEF some
<1>5. Effect!Withdraw(some)
  BY <1>1, <1>2, <1>3, <1>4 DEF Effect!Withdraw, StageFn, FateFn, ToldFn
<1>. QED  BY <1>4, <1>5 DEF Effect!Next

LEMMA MoveImplements ==
  ASSUME NEW a \in Actions, NEW to, Stage(a)' = to,
         \A x \in Actions : x # a => row'[x] = row[x]
  PROVE  StageFn' = [StageFn EXCEPT ![a] = to]
<1>1. \A x \in Actions : x # a => Stage(x)' = Stage(x)
  BY DEF Stage
<1>. QED  BY <1>1 DEF StageFn

LEMMA ApproveImplements ==
  ASSUME IInv, NEW a \in Actions, Approve(a), UNCHANGED gmail
  PROVE  Effect!Next
<1>1. row \in [Actions -> Rows] /\ RowOK(a)
  BY DEF IInv, MailTypeOK
<1>2. row[a].state = "awaiting_approval" /\ row[a].receipt = "none"
  BY <1>1 DEF Approve, Decidable, RowOK
<1>3. /\ row'[a].state = "authorized" /\ row'[a].receipt = "none"
      /\ \A x \in Actions : x # a => row'[x] = row[x]
  BY <1>1, <1>2 DEF Approve, Rows
<1>4. Stage(a) = "pending" /\ Stage(a)' = "approved"
  BY <1>2, <1>3 DEF Stage
<1>5. StageFn' = [StageFn EXCEPT ![a] = "approved"]
  BY <1>3, <1>4, MoveImplements
<1>6. FateFn' = FateFn /\ ToldFn' = ToldFn
  BY <1>2, <1>3 DEF FateFn, ToldFn
<1>7. Effect!Approve(a)
  BY <1>4, <1>5, <1>6 DEF Effect!Approve, Effect!Move, StageFn, FateFn, ToldFn
<1>. QED  BY <1>7 DEF Effect!Next

\* Every other transaction of the founder changes nothing, or withdraws.
LEMMA FounderImplements ==
  ASSUME IInv, Founder
  PROVE  Effect!Next
<1>1. row \in [Actions -> Rows] /\ (\A a \in Actions : RowOK(a)) /\ UNCHANGED gmail
  BY DEF IInv, MailTypeOK, Founder
<1>2. \A state \in Evaluated : state \in {"awaiting_approval", "blocked"}
  BY DEF Evaluated
<1>3. ASSUME NEW a \in Actions, row[a].state = "absent", NEW state \in Evaluated, row'[a] = New(state)
      PROVE  Recedes(a) /\ row'[a].receipt = row[a].receipt
  <2>1. row[a].receipt = "none" /\ row'[a].receipt = "none" /\ row'[a].auth = "none"
        /\ row'[a].state \in {"awaiting_approval", "blocked"}
    BY <1>1, <1>2, <1>3 DEF RowOK, New
  <2>. QED  BY <1>3, <2>1 DEF Recedes, Stage
<1>4. ASSUME NEW a \in Actions, row'[a].receipt = row[a].receipt,
             row'[a].state \in {"superseded", "declined", "blocked", "cancelled"},
             row'[a].auth = "claimed" <=> row[a].auth = "claimed",
             row[a].state # "absent"
      PROVE  Recedes(a)
  <2>1. RowOK(a)
    BY <1>1
  <2>. QED  BY <1>4, <2>1 DEF Recedes, Stage, RowOK
<1>5. ASSUME NEW a \in Actions, row'[a] = row[a] PROVE Recedes(a)
  BY <1>5 DEF Recedes, Stage
<1>. DEFINE Withdraws == \A a \in Actions : Recedes(a) /\ row'[a].receipt = row[a].receipt
<1>6. ASSUME NEW a \in Actions, Propose(a) PROVE Withdraws
  <2>1. PICK state \in Evaluated : row' = [row EXCEPT ![a] = New(state)]
    BY <1>6 DEF Propose
  <2>2. row'[a] = New(state) /\ \A x \in Actions : x # a => row'[x] = row[x]
    BY <1>1, <2>1
  <2>. QED  BY <1>3, <1>5, <1>6, <2>2 DEF Propose
<1>7. ASSUME NEW a \in Actions, NEW b \in Actions, RequestChanges(a, b) \/ Revise(a, b)
      PROVE  Withdraws
  <2>1. PICK state \in Evaluated :
            \/ row' = [row EXCEPT ![a].state = "superseded", ![a].decision = "request_changes",
                                  ![b] = New(state)]
            \/ row' = [row EXCEPT ![a].state = "superseded", ![b] = New(state)]
    BY <1>7 DEF RequestChanges, Revise
  <2>2. row[a].state # "absent" /\ row[b].state = "absent" /\ a # b
    BY <1>7 DEF RequestChanges, Revise, Decidable
  <2>3. /\ row'[b] = New(state) /\ \A x \in Actions : x \notin {a, b} => row'[x] = row[x]
        /\ row'[a].state = "superseded" /\ row'[a].receipt = row[a].receipt
        /\ row'[a].auth = row[a].auth
    BY <1>1, <2>1, <2>2 DEF Rows
  <2>. QED  BY <1>3, <1>4, <1>5, <2>2, <2>3
<1>8. ASSUME NEW a \in Actions, Decline(a) PROVE Withdraws
  <2>1. row[a].state # "absent"
    BY <1>8 DEF Decline, Decidable
  <2>2. /\ \A x \in Actions : x # a => row'[x] = row[x]
        /\ row'[a].state = "declined" /\ row'[a].receipt = row[a].receipt
        /\ row'[a].auth = row[a].auth
    BY <1>1, <1>8 DEF Decline, Rows
  <2>. QED  BY <1>4, <1>5, <2>1, <2>2
<1>9. ASSUME NEW allowed \in BOOLEAN, ChangePolicy(allowed) PROVE Withdraws
  <2>1. ASSUME NEW a \in Actions
        PROVE  \/ row'[a] = row[a]
               \/ /\ row'[a].receipt = row[a].receipt /\ row'[a].state = "blocked"
                  /\ row'[a].auth = "claimed" <=> row[a].auth = "claimed"
                  /\ row[a].state # "absent"
    <3>1. row'[a] = Revoked(a, allowed) /\ RowOK(a) /\ row[a] \in Rows
      BY <1>1, <1>9 DEF ChangePolicy
    <3>. QED  BY <3>1 DEF Revoked, RowOK, Rows
  <2>. QED  BY <1>4, <1>5, <2>1
<1>10. ASSUME CloseAccount PROVE Withdraws
  <2>1. ASSUME NEW a \in Actions
        PROVE  \/ row'[a] = row[a]
               \/ /\ row'[a].receipt = row[a].receipt /\ row'[a].state = "cancelled"
                  /\ row'[a].auth = row[a].auth /\ row[a].state # "absent"
    <3>1. row'[a] = Cancelled(a) /\ row[a] \in Rows
      BY <1>1, <1>10 DEF CloseAccount
    <3>. QED  BY <3>1 DEF Cancelled, Rows
  <2>. QED  BY <1>4, <1>5, <2>1
<1>11. ASSUME row' = row PROVE Withdraws
  BY <1>5, <1>11
<1>12. Withdraws => Effect!Next
  BY <1>1, RecedingWithdraws
<1>. HIDE DEF Withdraws
<1>. QED
  BY <1>1, <1>6, <1>7, <1>8, <1>9, <1>10, <1>11, <1>12, ApproveImplements
     DEF Founder, AwaitsLifecycle, AwaitsPause, AwaitsNone, SetHold, SetPause, Expire, RequestDeletion
\* A row that is not withdrawn, not asked and not answered leaves the promise as it is.
LEMMA NothingHappens ==
  ASSUME UNCHANGED gmail,
         \A a \in Actions : Stage(a)' = Stage(a) /\ row'[a].receipt = row[a].receipt
  PROVE  UNCHANGED Effect!vars
BY DEF Effect!vars

LEMMA ClaimImplements ==
  ASSUME IInv, NEW e \in Executors, Claim(e)
  PROVE  Effect!Next
<1>1. row \in [Actions -> Rows] /\ work[e].action \in Actions
  BY DEF IInv, MailTypeOK, Claim, At
<1>2. PICK a \in Actions : a = work[e].action
  BY <1>1
<1>3. RowOK(a)
  BY DEF IInv
<1>4. row[a].state = "authorized" /\ row[a].receipt = "none"
  BY <1>2, <1>3 DEF Claim, Claimable, RowOK
<1>5. /\ row'[a].state = "executing" /\ row'[a].receipt = "none"
      /\ \A x \in Actions : x # a => row'[x] = row[x]
      /\ UNCHANGED gmail
  BY <1>1, <1>2, <1>4 DEF Claim, Rows
<1>6. Stage(a) = "approved" /\ Stage(a)' = "permitted"
  BY <1>4, <1>5 DEF Stage
<1>7. StageFn' = [StageFn EXCEPT ![a] = "permitted"]
  BY <1>5, <1>6, MoveImplements
<1>8. FateFn' = FateFn /\ ToldFn' = ToldFn
  BY <1>4, <1>5 DEF FateFn, ToldFn
<1>9. Effect!Permit(a)
  BY <1>6, <1>7, <1>8 DEF Effect!Permit, Effect!Move, StageFn, FateFn, ToldFn
<1>. QED  BY <1>9 DEF Effect!Next

LEMMA AskImplements ==
  ASSUME IInv, NEW e \in Executors, Ask(e)
  PROVE  Effect!Next
<1>1. PICK a \in Actions : a = work[e].action
  BY AskIsPermitted
<1>2. gmail[a].fate = "unasked" /\ row[a].state = "executing" /\ row[a].receipt = "none"
  BY <1>1, AskIsPermitted
<1>3. gmail \in [Actions -> Mails] /\ row' = row
      /\ gmail' = [gmail EXCEPT ![a] = [calls |-> gmail[a].calls + 1, fate |-> "asked"]]
  BY <1>1 DEF Ask, founder, IInv, MailTypeOK
<1>4. Stage(a) = "permitted"
  BY <1>2 DEF Stage
<1>5. StageFn' = StageFn /\ ToldFn' = ToldFn
  BY <1>3 DEF StageFn, Stage, ToldFn
<1>6. FateFn' = [FateFn EXCEPT ![a] = "asked"]
  BY <1>3 DEF FateFn
<1>7. Effect!Ask(a)
  BY <1>2, <1>4, <1>5, <1>6 DEF Effect!Ask, StageFn, FateFn, ToldFn
<1>. QED  BY <1>7 DEF Effect!Next

LEMMA ArriveImplements ==
  ASSUME IInv, NEW a \in Actions, Arrive(a)
  PROVE  Effect!Next
<1>1. PICK fate \in {"taken", "refused"} : gmail' = [gmail EXCEPT ![a].fate = fate]
  BY DEF Arrive
<1>2. gmail \in [Actions -> Mails] /\ row' = row /\ gmail[a].fate = "asked"
  BY DEF Arrive, founder, IInv, MailTypeOK
<1>3. StageFn' = StageFn /\ ToldFn' = ToldFn
  BY <1>2 DEF StageFn, Stage, ToldFn
<1>4. FateFn' = [FateFn EXCEPT ![a] = fate]
  BY <1>1, <1>2 DEF FateFn, Mails
<1>5. Effect!Happen(a, fate)
  BY <1>2, <1>3, <1>4 DEF Effect!Happen, StageFn, FateFn, ToldFn
<1>. QED  BY <1>5 DEF Effect!Next

\* What is written once for an attempt closes the action, and what comes later is ignored.
LEMMA ReceiptImplements ==
  ASSUME IInv, UNCHANGED gmail, NEW a \in Actions, NEW told \in Outcomes,
         row' = Receipted(a, told), row[a].auth = "claimed",
         Effect!True(a, told)
  PROVE  [Effect!Next]_(Effect!vars)
<1>1. row \in [Actions -> Rows] /\ RowOK(a)
  BY DEF IInv, MailTypeOK
<1>2. CASE row[a].receipt # "none"
  <2>1. row' = row
    BY <1>2 DEF Receipted
  <2>. QED  BY <2>1, NothingHappens DEF Stage
<1>3. CASE row[a].receipt = "none"
  <2>1. row' = [row EXCEPT ![a].receipt = told, ![a].state = told]
    BY <1>3 DEF Receipted
  <2>2. /\ row'[a].receipt = told /\ told # "none"
        /\ \A x \in Actions : x # a => row'[x] = row[x]
    BY <1>1, <2>1 DEF Rows, Outcomes
  <2>3. Stage(a) \in {"permitted", "recalled"}
    BY <1>1, <1>3 DEF Stage, RowOK
  <2>4. Stage(a)' = "closed"
    BY <2>2 DEF Stage
  <2>5. StageFn' = [StageFn EXCEPT ![a] = "closed"]
    BY <2>2, <2>4, MoveImplements
  <2>6. FateFn' = FateFn /\ ToldFn' = [ToldFn EXCEPT ![a] = told]
    BY <2>2 DEF FateFn, ToldFn
  <2>7. Effect!Close(a, told)
    BY <2>3, <2>5, <2>6 DEF Effect!Close, StageFn, FateFn, ToldFn
  <2>. QED  BY <2>7 DEF Effect!Next, Outcomes
<1>. QED  BY <1>2, <1>3

LEMMA FinalizeImplements ==
  ASSUME IInv, NEW e \in Executors, Finalize(e)
  PROVE  [Effect!Next]_(Effect!vars)
<1>1. work[e].pc = "answered" /\ work[e].action \in Actions /\ UNCHANGED gmail
  BY DEF Finalize, At, IInv, MailTypeOK
<1>2. PICK a \in Actions : a = work[e].action
  BY <1>1
<1>3. PICK told \in Outcomes : told = Outcome(work[e].answer)
  BY DEF Outcome, Outcomes
<1>4. RunOK(e)
  BY DEF IInv
<1>5. /\ row[a].auth = "claimed"
      /\ work[e].answer = "accepted" => gmail[a].fate = "taken"
      /\ work[e].answer = "rejected" => gmail[a].fate = "refused"
  BY <1>1, <1>2, <1>4 DEF RunOK
<1>6. Effect!True(a, told)
  BY <1>3, <1>5 DEF Effect!True, Outcome
<1>. QED  BY <1>1, <1>2, <1>3, <1>5, <1>6, ReceiptImplements DEF Finalize

LEMMA ReconcileImplements ==
  ASSUME IInv, NEW a \in Actions, Reconcile(a)
  PROVE  [Effect!Next]_(Effect!vars)
<1>1. RowOK(a) /\ row[a].started /\ UNCHANGED gmail /\ row' = Receipted(a, "outcome_uncertain")
  BY DEF Reconcile, IInv
<1>2. row[a].auth = "claimed"
  BY <1>1 DEF RowOK
<1>3. Effect!True(a, "outcome_uncertain")
  BY DEF Effect!True
<1>. QED  BY <1>1, <1>2, <1>3, ReceiptImplements DEF Outcomes

\* Of the other steps of a run the founder sees nothing.
LEMMA SilentStepImplements ==
  ASSUME IInv, NEW e \in Executors,
         \/ \E a \in Actions : Prepare(e, a)
         \/ Start(e) \/ Check(e) \/ Guard(e) \/ Garble(e) \/ GiveUp(e)
         \/ \E answer \in Answers \ {"none"} : Answer(e, answer)
  PROVE  UNCHANGED Effect!vars
<1>1. row \in [Actions -> Rows]
  BY DEF IInv, MailTypeOK
<1>2. UNCHANGED gmail
  BY DEF Prepare, Start, Check, Guard, Garble, GiveUp, Answer
<1>3. CASE Start(e)
  <2>1. row' = [row EXCEPT ![work[e].action].started = TRUE]
    BY <1>3 DEF Start
  <2>2. \A a \in Actions : /\ row'[a].state = row[a].state /\ row'[a].auth = row[a].auth
                           /\ row'[a].receipt = row[a].receipt
    BY <1>1, <2>1 DEF Rows
  <2>. QED  BY <1>2, <2>2, NothingHappens DEF Stage
<1>4. CASE row' = row
  BY <1>2, <1>4, NothingHappens DEF Stage
<1>. QED
  BY <1>3, <1>4 DEF Prepare, Check, Guard, Garble, GiveUp, Answer, founder

LEMMA InitImplements == Init => Effect!Init
<1> SUFFICES ASSUME Init PROVE Effect!Init
  OBVIOUS
<1>1. \A a \in Actions : Stage(a) = "pending" /\ row[a].receipt = "none" /\ gmail[a].fate = "unasked"
  BY DEF Init, FounderInit, New, Stage
<1>. QED  BY <1>1 DEF Effect!Init

LEMMA StepImplements == IInv /\ [Next]_vars => [Effect!Next]_(Effect!vars)
<1> SUFFICES ASSUME IInv, [Next]_vars PROVE [Effect!Next]_(Effect!vars)
  OBVIOUS
<1>1. CASE Founder
  BY <1>1, FounderImplements
<1>2. ASSUME NEW e \in Executors, Executor(e)
      PROVE  [Effect!Next]_(Effect!vars)
  BY <1>2, ClaimImplements, AskImplements, FinalizeImplements, SilentStepImplements DEF Executor
<1>3. ASSUME NEW a \in Actions, Arrive(a) \/ Reconcile(a)
      PROVE  [Effect!Next]_(Effect!vars)
  BY <1>3, ArriveImplements, ReconcileImplements
<1>4. CASE UNCHANGED vars
  <2>1. row' = row /\ UNCHANGED gmail
    BY <1>4 DEF vars, founder
  <2>. QED  BY <2>1, NothingHappens DEF Stage
<1>. QED  BY <1>1, <1>2, <1>3, <1>4 DEF Next

\* The rows, the runs and Gmail keep the promise of OneEffect: every behaviour of the detailed
\* specification is one of the abstract one.
THEOREM EffectImplemented == Spec => IsOneEffect
BY InitImplements, StepImplements, Invariance, PTL DEF Spec, IsOneEffect, Effect!Spec
===============================================================================
