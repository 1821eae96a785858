------------------------ MODULE RunnerContainers_proofs ------------------------
(***************************************************************************)
(* Proofs of what the calls of RunnerLaunches leave on the host: no        *)
(* container runs after a successful stop or cleanup, even when launches   *)
(* gave up waiting and calls overlap; and, as long as no launch gives up   *)
(* while another call holds the lock, an accepted launch leaves exactly    *)
(* the container it was asked for.                                         *)
(***************************************************************************)
EXTENDS RunnerLaunches_proofs

-----------------------------------------------------------------------------
(* Steps, as the other calls see them *)

\* What a step of c leaves alone: who the calls are, and all that is other calls'.
Others(c) ==
    /\ UNCHANGED <<kind, target, order, blockers, reason, expired>>
    /\ tail' = tail \/ (tail' = NoCall /\ tail = c /\ Ends(c))
    /\ \A d \in Calls \ {c} : /\ pc'[d] = pc[d] /\ result'[d] = result[d]
                              /\ seen'[d] = seen[d] /\ selected'[d] = selected[d]

\* A call that goes on to another await touches no other call,
LEMMA GotoOthers ==
  ASSUME TypeOK, NEW c \in Calls, NEW label, Goto(c, label),
         UNCHANGED <<kind, target, result, lock, reason, expired>>,
         \A d \in Calls \ {c} : seen'[d] = seen[d] /\ selected'[d] = selected[d]
  PROVE  Others(c)
  BY DEF Goto, Others, TypeOK, lock

\* nor does one that ends, but for the entry it takes out of agentLocks.
LEMMA EndOthers ==
  ASSUME TypeOK, NEW c \in Calls, Ends(c), UNCHANGED <<reason, expired>>,
         \A d \in Calls \ {c} : seen'[d] = seen[d] /\ selected'[d] = selected[d]
  PROVE  Others(c)
<1>1. PICK how : End(c, how)
  BY DEF Ends
<1>2. /\ pc' = [pc EXCEPT ![c] = "done"] /\ result' = [result EXCEPT ![c] = how]
      /\ tail' = ReleasedTail(c) /\ UNCHANGED <<kind, target, blockers, order>>
  BY <1>1 DEF End, Goto
<1>3. tail' = tail \/ (tail' = NoCall /\ tail = c)
  BY <1>2 DEF ReleasedTail
<1>4. \A d \in Calls \ {c} : pc'[d] = pc[d] /\ result'[d] = result[d]
  BY <1>2 DEF TypeOK
<1>5. QED
  BY <1>2, <1>3, <1>4 DEF Others

\* A step of a launch is its own.
LEMMA LaunchOthers ==
  ASSUME TypeOK, NEW c \in Calls, LaunchStep(c)
  PROVE  Others(c)
<1>1. CASE Project(c) \/ Run(c) \/ Created(c) \/ BreakRun(c) \/ BreakInspection(c)
  BY <1>1, GotoOthers DEF Project, Run, Created, BreakRun, BreakInspection, launch
<1>2. CASE ListForLaunch(c)
  <2>1. \A d \in Calls \ {c} : seen'[d] = seen[d] /\ selected'[d] = selected[d]
    BY <1>2 DEF ListForLaunch, TypeOK
  <2>2. QED
    BY <1>2, <2>1, GotoOthers DEF ListForLaunch
<1>3. ASSUME NEW k \in Calls, RemoveSurplus(c, k) PROVE Others(c)
  BY <1>3 DEF RemoveSurplus, Others, TypeOK, lock
<1>4. ASSUME AcceptWinner(c) \/ AcceptCreated(c) \/ GiveUpWaiting(c) \/ BreakProjection(c)
             \/ BreakRemoval(c) \/ Discard(c)
      PROVE  Others(c)
  <2>1. Ends(c)
    BY <1>4, VerdictType DEF AcceptWinner, AcceptCreated, GiveUpWaiting, BreakProjection,
       BreakRemoval, Discard, Ends, Live, LiveLaunch, Unbounded
  <2>2. /\ UNCHANGED <<reason, expired>>
        /\ \A d \in Calls \ {c} : seen'[d] = seen[d] /\ selected'[d] = selected[d]
    BY <1>4 DEF AcceptWinner, AcceptCreated, GiveUpWaiting, BreakProjection,
       BreakRemoval, Discard, launch, TypeOK
  <2>3. QED
    BY <2>1, <2>2, EndOthers
<1>5. QED
  BY <1>1, <1>2, <1>3, <1>4 DEF LaunchStep

\* A step of a stop or cleanup is its own.
LEMMA StopOthers ==
  ASSUME TypeOK, NEW c \in Calls, StopStep(c)
  PROVE  Others(c)
<1>1. CASE List(c)
  <2>1. \A d \in Calls \ {c} : seen'[d] = seen[d] /\ selected'[d] = selected[d]
    BY <1>1 DEF List, TypeOK
  <2>2. QED
    BY <1>1, <2>1, GotoOthers DEF List
<1>2. ASSUME NEW k \in Calls, Act(c, k) PROVE Others(c)
  BY <1>2 DEF Act, Others, TypeOK, lock
<1>3. ASSUME FinishStop(c) \/ EraseRoot(c) \/ FailAct(c) PROVE Others(c)
  <2>1. Ends(c)
    BY <1>3 DEF FinishStop, EraseRoot, FailAct, Ends, Live
  <2>2. UNCHANGED launch
    BY <1>3 DEF FinishStop, EraseRoot, FailAct
  <2>3. QED
    BY <2>1, <2>2, EndOthers DEF launch
<1>4. QED
  BY <1>1, <1>2, <1>3 DEF StopStep

\* So is the step past the lock.
LEMMA EnterOthers ==
  ASSUME TypeOK, NEW c \in Calls, Enter(c)
  PROVE  Others(c)
  BY GotoOthers DEF Enter, launch

-----------------------------------------------------------------------------
(* Where each kind of call can be *)

KindFits ==
    \A c \in Calls :
       /\ kind[c] = "none" <=> pc[c] = "none"
       /\ pc[c] \in {"projecting", "removing", "running", "inspecting"} \cup Unbounded =>
             kind[c] = "start"
       /\ pc[c] = "acting" => kind[c] # "start"
       /\ expired[c] => kind[c] = "start"

\* Only launches make a launch's steps, only stops and cleanups theirs.
LEMMA StepKinds ==
  ASSUME TypeOK, KindFits, NEW c \in Calls
  PROVE  /\ LaunchStep(c) => kind[c] = "start"
         /\ StopStep(c) => kind[c] \in {"stop", "cleanup"}
<1>1. kind[c] \in {"none", "start", "stop", "cleanup"}
  BY DEF TypeOK
<1>2. ASSUME LaunchStep(c) PROVE kind[c] = "start"
  BY <1>2 DEF LaunchStep, Project, ListForLaunch, RemoveSurplus, AcceptWinner, Run, Created,
     AcceptCreated, GiveUpWaiting, LiveLaunch, BreakProjection, BreakRemoval, BreakRun,
     BreakInspection, Discard, KindFits
<1>3. ASSUME StopStep(c) PROVE kind[c] \in {"stop", "cleanup"}
  BY <1>1, <1>3 DEF StopStep, List, Act, FinishStop, EraseRoot, FailAct, KindFits
<1>4. QED
  BY <1>2, <1>3

\* Where a step takes the call that makes it.
LEMMA LaunchMoves ==
  ASSUME TypeOK, KindFits, NEW c \in Calls, LaunchStep(c)
  PROVE  /\ Live(c) /\ pc'[c] # "none" /\ pc'[c] # "acting"
         /\ pc[c] \in Unbounded => pc'[c] = "done"
         /\ pc'[c] = "waiting" => pc[c] = "waiting"
<1>1. CASE Project(c) \/ ListForLaunch(c) \/ Run(c) \/ Created(c) \/ BreakRun(c)
           \/ BreakInspection(c)
  BY <1>1 DEF Project, ListForLaunch, Run, Created, BreakRun, BreakInspection, Goto, Live,
     Unbounded, TypeOK
<1>2. CASE \E k \in Calls : RemoveSurplus(c, k)
  BY <1>2 DEF RemoveSurplus, Live, Unbounded
<1>3. CASE AcceptWinner(c) \/ AcceptCreated(c) \/ GiveUpWaiting(c) \/ BreakProjection(c)
           \/ BreakRemoval(c) \/ Discard(c)
  BY <1>3 DEF AcceptWinner, AcceptCreated, GiveUpWaiting, BreakProjection, BreakRemoval,
     Discard, End, Goto, Live, LiveLaunch, Unbounded, TypeOK
<1>4. QED
  BY <1>1, <1>2, <1>3 DEF LaunchStep

\* Stops and cleanups list, act and are done;
LEMMA StopMoves ==
  ASSUME TypeOK, NEW c \in Calls, StopStep(c)
  PROVE  Live(c) /\ pc'[c] \in {"acting", "done"}
<1>1. CASE List(c)
  BY <1>1 DEF List, Goto, Live, TypeOK
<1>2. CASE \E k \in Calls : Act(c, k)
  BY <1>2 DEF Act, Live
<1>3. CASE FinishStop(c) \/ EraseRoot(c) \/ FailAct(c)
  BY <1>3 DEF FinishStop, EraseRoot, FailAct, End, Goto, Live, TypeOK
<1>4. QED
  BY <1>1, <1>2, <1>3 DEF StopStep

\* a call that is let in projects when it is a launch and lists otherwise.
LEMMA EnterMoves ==
  ASSUME TypeOK, NEW c \in Calls, Enter(c)
  PROVE  /\ pc[c] = "waiting"
         /\ IF kind[c] = "start" THEN pc'[c] = "projecting" ELSE pc'[c] = "listing"
  BY DEF Enter, Goto, TypeOK

\* Every step keeps calls where their kind can be.
LEMMA KindStep == TypeOK /\ KindFits /\ [Next]_vars => KindFits'
<1> SUFFICES ASSUME TypeOK, KindFits, [Next]_vars PROVE KindFits'
  OBVIOUS
<1>1. ASSUME NEW c \in Calls, NEW k \in {"start", "stop", "cleanup"}, Arrive(c, k)
      PROVE  KindFits'
  BY <1>1 DEF Arrive, Goto, KindFits, TypeOK, Unbounded
<1>2. ASSUME NEW c \in Calls, Others(c), Live(c), pc'[c] # "none",
             pc'[c] \in {"projecting", "removing", "running", "inspecting"} \cup Unbounded
                => kind[c] = "start",
             pc'[c] = "acting" => kind[c] # "start"
      PROVE  KindFits'
  BY <1>2 DEF Others, KindFits, Live
<1>3. ASSUME NEW c \in Calls, Enter(c) PROVE KindFits'
  BY <1>2, <1>3, EnterOthers, EnterMoves DEF Live, Unbounded
<1>4. ASSUME NEW c \in Calls, LaunchStep(c) PROVE KindFits'
  BY <1>2, <1>4, LaunchOthers, LaunchMoves, StepKinds
<1>5. ASSUME NEW c \in Calls, StopStep(c) PROVE KindFits'
  BY <1>2, <1>5, StopOthers, StopMoves, StepKinds DEF Unbounded
<1>6. ASSUME NEW c \in Calls, DeadlinePasses(c) PROVE KindFits'
  BY <1>6 DEF DeadlinePasses, LiveLaunch, KindFits, TypeOK
<1>7. ASSUME NEW c \in Calls, LateProjection(c) PROVE KindFits'
  BY <1>7 DEF LateProjection, launch, KindFits
<1>8. CASE UNCHANGED vars
  BY <1>8 DEF vars, launch, KindFits
<1>9. QED
  BY <1>1, <1>3, <1>4, <1>5, <1>6, <1>7, <1>8 DEF Next

-----------------------------------------------------------------------------
(* Launches that can start no container any more *)

\* A launch is over, is only removing what it made, or is to give up when it is let in.
Harmless(c) ==
    kind[c] = "start" =>
       pc[c] \in {"done"} \cup Unbounded \/ (pc[c] = "waiting" /\ Terminated(c))

Running == {k \in Calls : container[k] = "running"}

\* The next step of a harmless launch ends it and starts no container.
LEMMA HarmlessLaunch ==
  ASSUME TypeOK, KindFits, NEW c \in Calls, LaunchStep(c), Harmless(c)
  PROVE  /\ pc'[c] = "done"
         /\ Running' \subseteq Running
<1>1. pc[c] \in Unbounded \/ (pc[c] = "waiting" /\ Terminated(c))
  BY StepKinds, LaunchMoves DEF Harmless, Live
<1>2. CASE GiveUpWaiting(c)
  BY <1>2 DEF GiveUpWaiting, End, Goto, Running, host, TypeOK
<1>3. CASE Discard(c)
  <2>1. pc'[c] = "done"
    BY <1>3 DEF Discard, End, Goto, TypeOK
  <2>2. container' = [container EXCEPT ![c] = "absent"] \/ container' = container
    BY <1>3 DEF Discard
  <2>3. Running' \subseteq Running
    BY <2>2 DEF Running, TypeOK
  <2>4. QED
    BY <2>1, <2>3
<1>4. QED
  BY <1>1, <1>2, <1>3 DEF LaunchStep, Project, ListForLaunch, RemoveSurplus, AcceptWinner, Run,
     Created, AcceptCreated, BreakProjection, BreakRemoval, BreakRun, BreakInspection,
     Unbounded

\* Stops and cleanups start no container.
LEMMA StopStarts ==
  ASSUME TypeOK, NEW c \in Calls, StopStep(c)
  PROVE  Running' \subseteq Running
<1>1. CASE List(c)
  BY <1>1 DEF List, Running, host
<1>2. ASSUME NEW k \in Calls, Act(c, k) PROVE Running' \subseteq Running
  BY <1>2 DEF Act, Running, TypeOK
<1>3. CASE FinishStop(c) \/ EraseRoot(c)
  BY <1>3 DEF FinishStop, EraseRoot, Running, host
<1>4. CASE FailAct(c)
  <2>1. \A k \in Calls : container'[k] = "running" => container[k] = "running"
    BY <1>4 DEF FailAct, TypeOK
  <2>2. QED
    BY <2>1 DEF Running
<1>5. QED
  BY <1>1, <1>2, <1>3, <1>4 DEF StopStep

\* Once harmless, a launch stays so: what was cancelled or timed out is never let in.
LEMMA StaysHarmless ==
  ASSUME TypeOK, KindFits, [Next]_vars, NEW d \in Calls, Harmless(d),
         pc[d] # "none" \/ pc'[d] = "none"
  PROVE  Harmless(d)'
<1>1. ASSUME NEW c \in Calls, NEW k \in {"start", "stop", "cleanup"}, Arrive(c, k)
      PROVE  Harmless(d)'
  <2>1. d # c
    BY <1>1 DEF Arrive, Goto, TypeOK
  <2>2. kind'[d] = kind[d] /\ pc'[d] = pc[d] /\ expired' = expired
    BY <1>1, <2>1 DEF Arrive, Goto, TypeOK
  <2>3. reason'[d] = reason[d] \/ reason'[d] = "cancelled"
    BY <1>1 DEF Arrive, Cancelled
  <2>4. QED
    BY <2>2, <2>3 DEF Harmless, Terminated
<1>2. ASSUME NEW c \in Calls, Others(c), d # c PROVE Harmless(d)'
  BY <1>2 DEF Others, Harmless, Terminated
<1>3. ASSUME NEW c \in Calls, Enter(c) PROVE Harmless(d)'
  <2>1. CASE d = c
    BY <1>3, <2>1 DEF Enter, Harmless, Unbounded
  <2>2. QED
    BY <1>2, <1>3, <2>1, EnterOthers
<1>4. ASSUME NEW c \in Calls, LaunchStep(c) PROVE Harmless(d)'
  <2>1. CASE d = c
    BY <1>4, <2>1, HarmlessLaunch DEF Harmless
  <2>2. QED
    BY <1>2, <1>4, <2>1, LaunchOthers
<1>5. ASSUME NEW c \in Calls, StopStep(c) PROVE Harmless(d)'
  <2>1. CASE d = c
    BY <1>5, <2>1, StepKinds, StopOthers DEF Harmless, Others
  <2>2. QED
    BY <1>2, <1>5, <2>1, StopOthers
<1>6. ASSUME NEW c \in Calls, DeadlinePasses(c) PROVE Harmless(d)'
  <2>1. kind' = kind /\ pc' = pc
    BY <1>6 DEF DeadlinePasses
  <2>2. Terminated(d) => Terminated(d)'
    BY <1>6 DEF DeadlinePasses, Terminated, TypeOK
  <2>3. QED
    BY <2>1, <2>2 DEF Harmless
<1>7. CASE UNCHANGED vars \/ \E c \in Calls : LateProjection(c)
  BY <1>7 DEF vars, launch, LateProjection, Harmless, Terminated
<1>8. QED
  BY <1>1, <1>3, <1>4, <1>5, <1>6, <1>7 DEF Next

-----------------------------------------------------------------------------
(* The chain covers every launch that can still start a container *)

\* Deadlines pass in the order of arrival, so behind an expired launch are only
\* removals.
DeadlinesInOrder ==
    \A c, d \in Calls :
       expired[c] /\ LiveLaunch(d) /\ order[d] < order[c] => pc[d] = "discarding"

Covered ==
    \A c \in Calls : Harmless(c) \/ (tail # NoCall /\ (c = tail \/ c \in blockers[tail]))

\* Every step keeps deadlines in order.
LEMMA DeadlineStep ==
  ASSUME QueueInv, KindFits, DeadlinesInOrder, [Next]_vars
  PROVE  DeadlinesInOrder'
<1>1. TypeOK
  BY DEF QueueInv
<1>2. ASSUME NEW n \in Calls, NEW k \in {"start", "stop", "cleanup"}, Arrive(n, k),
             NEW c \in Calls, NEW d \in Calls, (expired[c] /\ LiveLaunch(d) /\ order[d] < order[c])'
      PROVE  pc'[d] = "discarding"
  <2>1. expired' = expired /\ pc[n] = "none"
    BY <1>2 DEF Arrive
  <2>2. c # n
    BY <1>2, <2>1 DEF KindFits
  <2>3. order'[c] = order[c] /\ order'[c] < order'[n] /\ order \in [Calls -> Nat]
        /\ order' \in [Calls -> Nat]
    BY <1>1, <1>2, <2>2, ArrivesLast, ArriveType DEF TypeOK
  <2>4. d # n
    BY <1>2, <2>3
  <2>5. kind'[d] = kind[d] /\ pc'[d] = pc[d] /\ order'[d] = order[d]
    BY <1>1, <1>2, <2>4, ArrivesLast DEF Arrive, Goto, TypeOK
  <2>6. QED
    BY <1>2, <2>1, <2>3, <2>5 DEF DeadlinesInOrder, LiveLaunch, Live
<1>3. ASSUME NEW x \in Calls, Others(x), Live(x), pc[x] \in Unbounded => pc'[x] = "done",
             NEW c \in Calls, NEW d \in Calls, (expired[c] /\ LiveLaunch(d) /\ order[d] < order[c])'
      PROVE  pc'[d] = "discarding"
  <2>1. expired[c] /\ order[d] < order[c] /\ kind[d] = "start" /\ Live(d)'
    BY <1>3 DEF Others, LiveLaunch
  <2>2. Live(d)
    BY <1>3, <2>1 DEF Others, Live
  <2>3. pc[d] = "discarding"
    BY <2>1, <2>2 DEF DeadlinesInOrder, LiveLaunch
  <2>4. QED
    BY <1>3, <2>1, <2>3 DEF Others, Live, Unbounded
<1>4. ASSUME NEW x \in Calls, Enter(x) PROVE DeadlinesInOrder'
  <2>1. Others(x) /\ Live(x) /\ pc[x] \notin Unbounded
    BY <1>1, <1>4, EnterOthers, EnterMoves DEF Live, Unbounded
  <2>2. QED
    BY <1>3, <2>1 DEF DeadlinesInOrder
<1>5. ASSUME NEW x \in Calls, LaunchStep(x) PROVE DeadlinesInOrder'
  BY <1>1, <1>3, <1>5, LaunchOthers, LaunchMoves DEF DeadlinesInOrder
<1>6. ASSUME NEW x \in Calls, StopStep(x) PROVE DeadlinesInOrder'
  <2>1. kind[x] # "start" /\ Others(x) /\ Live(x) /\ pc[x] \notin Unbounded
    BY <1>1, <1>6, StopOthers, StopMoves, StepKinds DEF KindFits
  <2>2. QED
    BY <1>3, <2>1 DEF DeadlinesInOrder
<1>7. ASSUME NEW x \in Calls, DeadlinePasses(x) PROVE DeadlinesInOrder'
  <2>1. /\ kind' = kind /\ pc' = pc /\ order' = order
        /\ expired' = [expired EXCEPT ![x] = TRUE]
        /\ \A d \in Calls : LiveLaunch(d) /\ order[d] < order[x] => pc[d] = "discarding"
    BY <1>7 DEF DeadlinePasses, lock
  <2>2. QED
    BY <1>1, <2>1 DEF DeadlinesInOrder, LiveLaunch, Live, TypeOK
<1>8. CASE UNCHANGED vars \/ \E x \in Calls : LateProjection(x)
  BY <1>8 DEF vars, launch, lock, LateProjection, DeadlinesInOrder, LiveLaunch, Live
<1>9. QED
  BY <1>2, <1>4, <1>5, <1>6, <1>7, <1>8 DEF Next, DeadlinesInOrder

\* Every step keeps the launches covered: a call takes its entry out of agentLocks when
\* it was let in, or when its deadline has passed and nothing before it can start any.
LEMMA CoveredStep ==
  ASSUME QueueInv, KindFits, DeadlinesInOrder, Covered, [Next]_vars
  PROVE  Covered'
<1>1. TypeOK
  BY DEF QueueInv
<1>2. ASSUME NEW n \in Calls, NEW k \in {"start", "stop", "cleanup"}, Arrive(n, k)
      PROVE  Covered'
  <2>1. /\ tail' = n /\ n # NoCall
        /\ blockers' = [blockers EXCEPT ![n] = IF tail = NoCall THEN {} ELSE blockers[tail] \cup {tail}]
    BY <1>2, CallsAssumption DEF Arrive
  <2>2. ASSUME NEW d \in Calls, ~Harmless(d)', d # n PROVE d \in blockers'[n]
    <3>1. pc'[d] = pc[d]
      BY <1>1, <1>2, <2>2 DEF Arrive, Goto, TypeOK
    <3>2. ~Harmless(d)
      BY <1>1, <2>2, <3>1, StaysHarmless
    <3>3. QED
      BY <1>1, <2>1, <3>2 DEF Covered, TypeOK
  <2>3. QED
    BY <2>1, <2>2 DEF Covered
<1>3. ASSUME NEW x \in Calls, Others(x), pc[x] # "none" PROVE Covered'
  <2>1. ASSUME NEW d \in Calls, ~Harmless(d)' PROVE ~Harmless(d)
    BY <1>1, <1>3, <2>1, StaysHarmless DEF Others
  <2>2. CASE tail' = tail
    BY <1>3, <2>1, <2>2 DEF Covered, Others
  <2>3. CASE tail' # tail
    <3>1. tail = x /\ Ends(x) /\ x \in Calls
      BY <1>3, <2>3 DEF Others
    <3>2. pc'[x] = "done"
      BY <1>1, <3>1 DEF Ends, End, Goto, TypeOK
    <3>3. ASSUME NEW d \in Calls, ~Harmless(d)' PROVE FALSE
      <4>1. d # x /\ d \in blockers[x]
        BY <2>1, <3>1, <3>2, <3>3 DEF Harmless, Covered
      <4>2. kind[d] = "start" /\ pc[d] \notin {"done"} \cup Unbounded
        BY <2>1, <3>3 DEF Harmless
      <4>3. ~Granted(x)
        BY <4>1, <4>2 DEF Granted
      <4>4. expired[x]
        BY <3>1, <4>3 DEF Ends, QueueInv, InsideGranted, Inside
      <4>5. order[d] < order[x] /\ LiveLaunch(d)
        BY <4>1, <4>2 DEF QueueInv, BlockersOlder, LiveLaunch, Live
      <4>6. QED
        BY <4>2, <4>4, <4>5 DEF DeadlinesInOrder, Unbounded
    <3>4. QED
      BY <3>3 DEF Covered
  <2>4. QED
    BY <2>2, <2>3
<1>4. ASSUME NEW x \in Calls, Enter(x) \/ LaunchStep(x) \/ StopStep(x) PROVE Covered'
  BY <1>1, <1>3, <1>4, EnterOthers, EnterMoves, LaunchOthers, LaunchMoves, StopOthers, StopMoves
  DEF Live
<1>5. ASSUME UNCHANGED <<pc, tail, blockers>> PROVE Covered'
  BY <1>1, <1>5, StaysHarmless DEF Covered
<1>6. CASE UNCHANGED vars \/ \E x \in Calls : LateProjection(x) \/ DeadlinePasses(x)
  BY <1>5, <1>6 DEF vars, lock, LateProjection, DeadlinePasses
<1>7. QED
  BY <1>2, <1>4, <1>6 DEF Next

-----------------------------------------------------------------------------
(* A successful stop leaves nothing running *)

\* Until the next call: a stop or cleanup waits for every launch that could start a
\* container; once it is let in none is left, and it lists what they started.
LastStop(s) ==
    kind[s] \in {"stop", "cleanup"} /\ NothingSince(s) =>
       /\ pc[s] = "waiting" => \A c \in Calls : c \in blockers[s] \/ Harmless(c)
       /\ pc[s] \in {"listing", "acting"} \/ result[s] = "ok" => \A c \in Calls : Harmless(c)
       /\ pc[s] = "acting" => Running \subseteq seen[s]
       /\ result[s] = "ok" => Running = {}

StopInv ==
    /\ QueueInv
    /\ KindFits
    /\ DeadlinesInOrder
    /\ Covered
    /\ \A s \in Calls : LastStop(s)

\* Another call's step, or none, leaves the last stop what it relies on.
LEMMA LastStopOthers ==
  ASSUME TypeOK, KindFits, [Next]_vars, NEW s \in Calls, LastStop(s),
         \A c \in Calls : pc[c] # "none" \/ pc'[c] = "none",
         UNCHANGED <<kind, order, blockers>>,
         pc'[s] = pc[s], seen'[s] = seen[s], result'[s] = result[s],
         (\A c \in Calls : Harmless(c)) => Running' \subseteq Running
  PROVE  LastStop(s)'
  BY StaysHarmless DEF LastStop, NothingSince

\* The last stop's own step does what the later ones rely on.
LEMMA LastStopOwn ==
  ASSUME TypeOK, KindFits, [Next]_vars, NEW s \in Calls, LastStop(s), Enter(s) \/ StopStep(s)
  PROVE  LastStop(s)'
<1>1. Others(s) /\ pc[s] # "none"
  BY EnterOthers, EnterMoves, StopOthers, StopMoves DEF Live
<1>2. UNCHANGED <<kind, order>> /\ (NothingSince(s)' <=> NothingSince(s))
  BY <1>1 DEF Others, NothingSince
<1>3. ASSUME NEW c \in Calls, Harmless(c) PROVE Harmless(c)'
  BY <1>1, <1>3, StaysHarmless DEF Others
<1>4. SUFFICES ASSUME kind[s] \in {"stop", "cleanup"}, NothingSince(s) PROVE LastStop(s)'
  BY <1>2 DEF LastStop
<1>5. CASE Enter(s)
  <2>1. pc'[s] = "listing" /\ result'[s] = "none" /\ pc[s] = "waiting" /\ Granted(s)
    BY <1>4, <1>5, EnterMoves DEF Enter, TypeOK
  <2>2. \A c \in Calls : Harmless(c)
    BY <1>4, <2>1 DEF LastStop, Granted, Harmless
  <2>3. QED
    BY <1>3, <2>1, <2>2 DEF LastStop
<1>6. CASE List(s)
  <2>1. pc'[s] = "acting" /\ result'[s] = "none" /\ pc[s] = "listing" /\ seen'[s] = Existing
        /\ container' = container
    BY <1>6 DEF List, Goto, host, TypeOK
  <2>2. \A c \in Calls : Harmless(c)
    BY <1>4, <2>1 DEF LastStop
  <2>3. Running' \subseteq seen'[s]
    BY <2>1 DEF Running, Existing
  <2>4. QED
    BY <1>3, <2>1, <2>2, <2>3 DEF LastStop
<1>7. ASSUME NEW k \in Calls, Act(s, k) PROVE LastStop(s)'
  <2>1. pc' = pc /\ result' = result /\ pc[s] = "acting" /\ seen'[s] = seen[s] \ {k}
        /\ container' = [container EXCEPT ![k] = IF kind[s] = "stop" THEN "stopped" ELSE "absent"]
    BY <1>7 DEF Act, TypeOK
  <2>2. Running \subseteq seen[s] /\ (\A c \in Calls : Harmless(c)) /\ result[s] = "none"
    BY <1>4, <2>1 DEF LastStop, TypeOK
  <2>3. Running' \subseteq seen'[s]
    BY <2>1, <2>2 DEF Running, TypeOK
  <2>4. QED
    BY <1>3, <2>1, <2>2, <2>3 DEF LastStop
<1>8. CASE FinishStop(s) \/ EraseRoot(s)
  <2>1. pc'[s] = "done" /\ pc[s] = "acting" /\ seen[s] = {} /\ container' = container
    BY <1>8 DEF FinishStop, EraseRoot, End, Goto, host, TypeOK
  <2>2. Running = {} /\ \A c \in Calls : Harmless(c)
    BY <1>4, <2>1 DEF LastStop
  <2>3. Running' = {}
    BY <2>1, <2>2 DEF Running
  <2>4. QED
    BY <1>3, <2>1, <2>2, <2>3 DEF LastStop
<1>9. CASE FailAct(s)
  <2>1. pc'[s] = "done" /\ result'[s] = "failed"
    BY <1>9 DEF FailAct, End, Goto, TypeOK
  <2>2. QED
    BY <2>1 DEF LastStop
<1>10. QED
  BY <1>5, <1>6, <1>7, <1>8, <1>9 DEF StopStep

\* A stop that arrives finds every launch that can start a container ahead of it; a
\* call that arrives after one ends the time it answers for.
LEMMA LastStopArrives ==
  ASSUME StopInv, [Next]_vars, NEW n \in Calls, NEW k \in {"start", "stop", "cleanup"},
         Arrive(n, k), Covered', NEW s \in Calls
  PROVE  LastStop(s)'
<1>1. TypeOK /\ QueueInv
  BY DEF StopInv, QueueInv
<1>2. CASE s # n
  <2>1. order'[s] < order'[n] /\ order' \in [Calls -> Nat]
    BY <1>1, <1>2, ArrivesLast, ArriveType DEF TypeOK
  <2>2. ~NothingSince(s)'
    BY <2>1 DEF NothingSince
  <2>3. QED
    BY <2>2 DEF LastStop
<1>3. CASE s = n
  <2>1. pc[n] = "none" /\ pc'[n] = "waiting" /\ result' = result /\ tail' = n /\ kind'[n] = k
    BY <1>1 DEF Arrive, Goto, TypeOK
  <2>2. result'[n] = "none"
    BY <1>1, <2>1 DEF TypeOK
  <2>3. kind'[n] # "start" => Harmless(n)'
    BY DEF Harmless
  <2>4. kind'[n] # "start" => \A c \in Calls : c \in blockers'[n] \/ Harmless(c)'
    BY <2>1, <2>3 DEF Covered
  <2>5. QED
    BY <1>3, <2>1, <2>2, <2>4 DEF LastStop
<1>4. QED
  BY <1>2, <1>3

\* Every step keeps what makes stops win.
LEMMA StopInvStep == StopInv /\ [Next]_vars => StopInv'
<1> SUFFICES ASSUME StopInv, [Next]_vars PROVE StopInv'
  OBVIOUS
<1>1. QueueInv /\ TypeOK /\ KindFits /\ DeadlinesInOrder /\ Covered
  BY DEF StopInv, QueueInv
<1>2. QueueInv' /\ KindFits' /\ DeadlinesInOrder' /\ Covered'
  BY <1>1, QueueInvStep, KindStep, DeadlineStep, CoveredStep
<1>3. ASSUME NEW s \in Calls PROVE LastStop(s)'
  <2>1. LastStop(s)
    BY DEF StopInv
  <2>2. ASSUME NEW n \in Calls, NEW k \in {"start", "stop", "cleanup"}, Arrive(n, k)
        PROVE  LastStop(s)'
    BY <1>2, <2>2, LastStopArrives
  <2>3. ASSUME NEW c \in Calls, c # s, Others(c), pc[c] # "none",
               (\A d \in Calls : Harmless(d)) => Running' \subseteq Running
        PROVE  LastStop(s)'
    BY <1>1, <2>1, <2>3, LastStopOthers DEF Others
  <2>4. ASSUME NEW c \in Calls, Enter(c) PROVE LastStop(s)'
    <3>1. Others(c) /\ pc[c] # "none" /\ Running' = Running
      BY <1>1, <2>4, EnterOthers, EnterMoves DEF Enter, host, Running
    <3>2. QED
      BY <1>1, <2>1, <2>3, <2>4, <3>1, LastStopOwn
  <2>5. ASSUME NEW c \in Calls, LaunchStep(c) PROVE LastStop(s)'
    <3>1. CASE c = s
      BY <1>1, <2>5, <3>1, StepKinds, LaunchOthers DEF LastStop, Others
    <3>2. CASE c # s
      BY <1>1, <2>3, <2>5, <3>2, LaunchOthers, LaunchMoves, HarmlessLaunch DEF Live
    <3>3. QED
      BY <3>1, <3>2
  <2>6. ASSUME NEW c \in Calls, StopStep(c) PROVE LastStop(s)'
    BY <1>1, <2>1, <2>3, <2>6, StopOthers, StopMoves, StopStarts, LastStopOwn DEF Live
  <2>7. ASSUME UNCHANGED <<kind, pc, order, blockers, seen, result, container>> PROVE LastStop(s)'
    BY <1>1, <2>1, <2>7, LastStopOthers DEF Running
  <2>8. CASE UNCHANGED vars \/ \E c \in Calls : DeadlinePasses(c) \/ LateProjection(c)
    BY <2>7, <2>8 DEF vars, lock, launch, host, DeadlinePasses, LateProjection
  <2>9. QED
    BY <2>2, <2>4, <2>5, <2>6, <2>8 DEF Next
<1>4. QED
  BY <1>2, <1>3 DEF StopInv

(* After a successful stop or cleanup, and until the next call, no container of the agent *)
(* runs, even when launches gave up waiting and calls overlapped: stop cancels the tokens *)
(* it finds and waits for every launch that could still start one.                        *)
THEOREM StopsWin == Spec => []StopWins
<1>1. Init => StopInv
  <2> SUFFICES ASSUME Init PROVE StopInv
    OBVIOUS
  <2>1. \A c \in Calls : kind[c] = "none" /\ pc[c] = "none" /\ expired[c] = FALSE
    BY DEF Init
  <2>2. KindFits /\ DeadlinesInOrder /\ Covered /\ \A s \in Calls : LastStop(s)
    BY <2>1 DEF KindFits, Unbounded, DeadlinesInOrder, Covered, Harmless, LastStop
  <2>3. QED
    BY <2>2, InitQueue DEF StopInv
<1>2. StopInv => StopWins
  BY DEF StopInv, LastStop, StopWins, Running
<1>3. QED
  BY <1>1, <1>2, StopInvStep, PTL DEF Spec

-----------------------------------------------------------------------------
(* An accepted launch leaves the one container it was asked for *)

\* What a launch that is past the lock knows of the agent's containers: it has listed
\* all but the winner it keeps, and once docker run is issued there are none but its own.
LaunchKnows(c) ==
    /\ pc[c] \in {"none", "waiting", "projecting", "listing"} => selected[c] = NoCall
    /\ pc[c] = "removing" /\ selected[c] = NoCall => Existing \subseteq seen[c]
    /\ pc[c] = "removing" /\ selected[c] # NoCall =>
          /\ Existing \subseteq seen[c] \cup {selected[c]}
          /\ selected[c] \notin seen[c]
          /\ container[selected[c]] = "running"
          /\ target[selected[c]] = target[c]
    /\ pc[c] = "running" => Existing = {}
    /\ pc[c] = "inspecting" => Existing = {c} /\ container[c] = "running"

HostInv ==
    /\ LockInv
    /\ KindFits
    /\ \A c \in Calls : LaunchKnows(c)

\* A launch keeps knowing what it does not hear of while nobody touches the containers,
LEMMA KnowsStill ==
  ASSUME NEW d \in Calls, LaunchKnows(d), UNCHANGED <<target, container>>,
         pc'[d] = pc[d], seen'[d] = seen[d], selected'[d] = selected[d]
  PROVE  LaunchKnows(d)'
  BY DEF LaunchKnows, Existing

\* and only a call that holds the lock touches them.
LEMMA OnlyInsideTouches ==
  ASSUME TypeOK, KindFits, NEW c \in Calls, Enter(c) \/ LaunchStep(c) \/ StopStep(c)
  PROVE  UNCHANGED container \/ Inside(c)
<1>1. CASE Enter(c)
  BY <1>1 DEF Enter, host
<1>2. ASSUME LaunchStep(c) PROVE UNCHANGED container \/ Inside(c)
  <2>1. CASE GiveUpWaiting(c)
    BY <2>1 DEF GiveUpWaiting, host
  <2>2. QED
    BY <1>2, <2>1 DEF LaunchStep, Project, ListForLaunch, RemoveSurplus, AcceptWinner, Run,
       Created, AcceptCreated, BreakProjection, BreakRemoval, BreakRun, BreakInspection,
       Discard, Unbounded, Inside, Live
<1>3. ASSUME StopStep(c) PROVE Inside(c)
  BY <1>3 DEF StopStep, List, Act, FinishStop, EraseRoot, FailAct, Inside, Live
<1>4. QED
  BY <1>1, <1>2, <1>3

\* The other calls keep knowing what they know: they are not inside.
LEMMA KnowsOthers ==
  ASSUME HostInv, NEW c \in Calls, Enter(c) \/ LaunchStep(c) \/ StopStep(c),
         NEW d \in Calls, d # c
  PROVE  LaunchKnows(d)'
<1>1. TypeOK /\ KindFits /\ LaunchKnows(d)
  BY DEF HostInv, LockInv, QueueInv
<1>2. Others(c)
  BY <1>1, EnterOthers, LaunchOthers, StopOthers
<1>3. CASE UNCHANGED container
  BY <1>1, <1>2, <1>3, KnowsStill DEF Others
<1>4. CASE Inside(c)
  <2>1. ~Inside(d)
    BY <1>4, ChainExcludes DEF HostInv, LockInv, QueueInv, InsideGranted, Inside
  <2>2. pc'[d] = pc[d] /\ pc[d] \in {"none", "waiting", "done"} /\ selected'[d] = selected[d]
    BY <1>2, <2>1 DEF Others, Inside, Live
  <2>3. QED
    BY <1>1, <2>2 DEF LaunchKnows
<1>5. QED
  BY <1>1, <1>3, <1>4, OnlyInsideTouches

\* A launch comes to know what its next step relies on.
LEMMA KnowsOwn ==
  ASSUME HostInv, NEW c \in Calls, LaunchStep(c)
  PROVE  LaunchKnows(c)'
<1>1. TypeOK /\ KindFits /\ LaunchKnows(c)
  BY DEF HostInv, LockInv, QueueInv
<1>2. ASSUME pc'[c] \in {"done", "discarding", "cleaning"} PROVE LaunchKnows(c)'
  BY <1>2 DEF LaunchKnows
<1>3. CASE Project(c)
  BY <1>1, <1>3 DEF Project, Goto, LaunchKnows, launch, TypeOK
<1>4. CASE ListForLaunch(c)
  <2>1. pc[c] = "listing" /\ pc'[c] = "removing" /\ UNCHANGED <<container, target>>
    BY <1>1, <1>4 DEF ListForLaunch, Goto, host, TypeOK
  <2>2. Existing' = Existing
    BY <2>1 DEF Existing
  <2>3. CASE seen' = [seen EXCEPT ![c] = Existing] /\ UNCHANGED selected
    BY <1>1, <2>1, <2>2, <2>3 DEF LaunchKnows, TypeOK
  <2>4. ASSUME NEW w \in Winners(c), selected' = [selected EXCEPT ![c] = w],
               seen' = [seen EXCEPT ![c] = Existing \ {w}]
        PROVE  LaunchKnows(c)'
    <3>1. w \in Calls /\ container[w] = "running" /\ target[w] = target[c] /\ w # NoCall
      BY CallsAssumption DEF Winners
    <3>2. selected'[c] = w /\ seen'[c] = Existing \ {w}
      BY <1>1, <2>4 DEF TypeOK
    <3>3. QED
      BY <2>1, <2>2, <3>1, <3>2 DEF LaunchKnows
  <2>5. QED
    BY <1>4, <2>3, <2>4 DEF ListForLaunch
<1>5. ASSUME NEW k \in Calls, RemoveSurplus(c, k) PROVE LaunchKnows(c)'
  <2>1. /\ pc[c] = "removing" /\ k \in seen[c] /\ UNCHANGED <<pc, selected, target>>
        /\ container' = [container EXCEPT ![k] = "absent"] /\ seen'[c] = seen[c] \ {k}
    BY <1>1, <1>5 DEF RemoveSurplus, TypeOK
  <2>2. Existing' = Existing \ {k}
    BY <1>1, <2>1 DEF Existing, TypeOK
  <2>3. CASE selected[c] = NoCall
    BY <1>1, <2>1, <2>2, <2>3 DEF LaunchKnows
  <2>4. CASE selected[c] # NoCall
    <3>1. selected[c] \in Calls /\ selected[c] # k /\ container'[selected[c]] = "running"
      BY <1>1, <2>1, <2>4 DEF LaunchKnows, TypeOK
    <3>2. QED
      BY <1>1, <2>1, <2>2, <2>4, <3>1 DEF LaunchKnows
  <2>5. QED
    BY <2>3, <2>4
<1>6. CASE Run(c)
  <2>1. pc[c] = "removing" /\ pc'[c] = "running" /\ seen[c] = {} /\ selected[c] = NoCall
        /\ Existing' = Existing
    BY <1>1, <1>6 DEF Run, Goto, host, Existing, TypeOK
  <2>2. QED
    BY <1>1, <2>1 DEF LaunchKnows
<1>7. CASE Created(c)
  <2>1. pc[c] = "running" /\ pc'[c] = "inspecting"
        /\ container' = [container EXCEPT ![c] = "running"]
    BY <1>1, <1>7 DEF Created, Goto, TypeOK
  <2>2. Existing = {}
    BY <1>1, <2>1 DEF LaunchKnows
  <2>3. Existing' = {c} /\ container'[c] = "running"
    BY <1>1, <2>1, <2>2 DEF Existing, TypeOK
  <2>4. QED
    BY <2>1, <2>3 DEF LaunchKnows
<1>8. CASE AcceptWinner(c) \/ AcceptCreated(c) \/ GiveUpWaiting(c) \/ BreakProjection(c)
           \/ BreakRemoval(c) \/ Discard(c)
  BY <1>1, <1>2, <1>8 DEF AcceptWinner, AcceptCreated, GiveUpWaiting, BreakProjection,
     BreakRemoval, Discard, End, Goto, TypeOK
<1>9. CASE BreakRun(c) \/ BreakInspection(c)
  BY <1>1, <1>2, <1>9 DEF BreakRun, BreakInspection, Goto, TypeOK
<1>10. QED
  BY <1>3, <1>4, <1>5, <1>6, <1>7, <1>8, <1>9 DEF LaunchStep

\* Every step keeps what launches know, while no launch gives up waiting.
LEMMA HostInvStep == Prompt /\ HostInv /\ [Next]_vars => HostInv'
<1> SUFFICES ASSUME Prompt, HostInv, [Next]_vars PROVE HostInv'
  OBVIOUS
<1>1. TypeOK /\ KindFits /\ \A d \in Calls : LaunchKnows(d)
  BY DEF HostInv, LockInv, QueueInv
<1>2. LockInv' /\ KindFits'
  BY <1>1, LockInvStep, KindStep DEF HostInv
<1>3. ASSUME NEW d \in Calls PROVE LaunchKnows(d)'
  <2>1. ASSUME NEW c \in Calls, NEW k \in {"start", "stop", "cleanup"}, Arrive(c, k)
        PROVE  LaunchKnows(d)'
    <3>1. UNCHANGED <<target, container, seen, selected>> /\ pc[c] = "none" /\ Goto(c, "waiting")
      BY <2>1 DEF Arrive, host
    <3>2. CASE d = c
      BY <1>1, <3>1, <3>2 DEF LaunchKnows, Goto, TypeOK
    <3>3. CASE d # c
      <4>1. pc'[d] = pc[d]
        BY <1>1, <3>1, <3>3 DEF Goto, TypeOK
      <4>2. QED
        BY <1>1, <3>1, <4>1, KnowsStill
    <3>4. QED
      BY <3>2, <3>3
  <2>2. ASSUME NEW c \in Calls, Enter(c) PROVE LaunchKnows(d)'
    <3>1. CASE d = c
      <4>1. pc[c] = "waiting" /\ pc'[c] \in {"projecting", "listing"} /\ selected' = selected
        BY <1>1, <2>2, EnterMoves DEF Enter, launch
      <4>2. QED
        BY <1>1, <3>1, <4>1 DEF LaunchKnows
    <3>2. QED
      BY <2>2, <3>1, KnowsOthers
  <2>3. ASSUME NEW c \in Calls, LaunchStep(c) PROVE LaunchKnows(d)'
    BY <2>3, KnowsOwn, KnowsOthers
  <2>4. ASSUME NEW c \in Calls, StopStep(c) PROVE LaunchKnows(d)'
    <3>1. CASE d = c
      BY <1>1, <2>4, <3>1, StopMoves DEF LaunchKnows
    <3>2. QED
      BY <2>4, <3>1, KnowsOthers
  <2>5. CASE UNCHANGED vars \/ \E c \in Calls : DeadlinePasses(c) \/ LateProjection(c)
    <3>1. UNCHANGED <<target, container, pc, seen, selected>>
      BY <2>5 DEF vars, launch, host, DeadlinePasses, LateProjection
    <3>2. QED
      BY <1>1, <3>1, KnowsStill
  <2>6. QED
    BY <2>1, <2>2, <2>3, <2>4, <2>5 DEF Next
<1>4. QED
  BY <1>2, <1>3 DEF HostInv

\* A launch ends well by accepting a winner or what it created, and by no other step.
LEMMA OkSteps ==
  ASSUME TypeOK, KindFits, [Next]_vars, NEW c \in Calls, kind[c] = "start",
         result[c] # "ok", result'[c] = "ok"
  PROVE  AcceptWinner(c) \/ AcceptCreated(c)
<1>1. ASSUME NEW d \in Calls, d # c, Others(d) PROVE FALSE
  BY <1>1 DEF Others
<1>2. ASSUME UNCHANGED result PROVE FALSE
  BY <1>2
<1>3. ASSUME NEW d \in Calls, LaunchStep(d) PROVE AcceptWinner(c) \/ AcceptCreated(c)
  <2>1. d = c
    BY <1>1, <1>3, LaunchOthers
  <2>2. Verdict(c) # "ok"
    BY VerdictType
  <2>3. ASSUME GiveUpWaiting(c) \/ BreakProjection(c) \/ BreakRemoval(c) \/ Discard(c) PROVE FALSE
    BY <2>2, <2>3 DEF GiveUpWaiting, BreakProjection, BreakRemoval, Discard, End, TypeOK
  <2>4. QED
    BY <1>2, <1>3, <2>1, <2>3 DEF LaunchStep, Project, ListForLaunch, RemoveSurplus, Run, Created,
       BreakRun, BreakInspection
<1>4. ASSUME NEW d \in Calls, Enter(d) \/ StopStep(d) PROVE FALSE
  <2>1. d # c
    BY <1>2, <1>4, StepKinds DEF Enter
  <2>2. QED
    BY <1>1, <1>4, <2>1, EnterOthers, StopOthers
<1>5. QED
  BY <1>2, <1>3, <1>4 DEF Next, vars, Arrive, DeadlinePasses, LateProjection

(* While no launch gives up waiting, an accepted launch leaves one container of the agent, *)
(* running and with the revision it was asked for, whatever other calls left behind.       *)
THEOREM AcceptsOnly == Prompt => (Spec => AcceptedIsOnly)
<1>1. CASE Prompt
  <2>1. Init => HostInv
    <3> SUFFICES ASSUME Init PROVE HostInv
      OBVIOUS
    <3>1. \A c \in Calls : kind[c] = "none" /\ pc[c] = "none" /\ expired[c] = FALSE
                           /\ selected[c] = NoCall
      BY DEF Init
    <3>2. KindFits /\ \A c \in Calls : LaunchKnows(c)
      BY <3>1 DEF KindFits, Unbounded, LaunchKnows
    <3>3. QED
      BY <3>2, InitLock DEF HostInv
  <2>2. HostInv /\ [Next]_vars => HostInv'
    BY <1>1, HostInvStep
  <2>3. ASSUME HostInv, [Next]_vars, NEW c \in Calls, kind[c] = "start", result[c] # "ok",
               result'[c] = "ok"
        PROVE  \E w \in Calls :
                  Existing = {w} /\ container[w] = "running" /\ target[w] = target[c]
    <3>1. TypeOK /\ KindFits /\ LaunchKnows(c)
      BY <2>3 DEF HostInv, LockInv, QueueInv
    <3>2. CASE AcceptWinner(c)
      <4>1. pc[c] = "removing" /\ seen[c] = {} /\ selected[c] \in Calls /\ selected[c] # NoCall
        BY <3>1, <3>2 DEF AcceptWinner, TypeOK
      <4>2. Existing \subseteq {selected[c]} /\ container[selected[c]] = "running"
            /\ target[selected[c]] = target[c]
        BY <3>1, <4>1 DEF LaunchKnows
      <4>3. selected[c] \in Existing
        BY <4>1, <4>2 DEF Existing
      <4>4. Existing = {selected[c]}
        BY <4>2, <4>3
      <4>5. QED
        BY <4>1, <4>2, <4>4
    <3>3. CASE AcceptCreated(c)
      BY <3>1, <3>3 DEF AcceptCreated, LaunchKnows
    <3>4. QED
      BY <2>3, <3>1, <3>2, <3>3, OkSteps
  <2>4. HostInv /\ [Next]_vars =>
          [\A c \in Calls :
             kind[c] = "start" /\ result[c] # "ok" /\ result'[c] = "ok" =>
                \E w \in Calls :
                   /\ Existing = {w}
                   /\ container[w] = "running"
                   /\ target[w] = target[c]]_vars
    BY <2>3
  <2>5. QED
    BY <2>1, <2>2, <2>4, PTL DEF Spec, AcceptedIsOnly
<1>2. QED
  BY <1>1

=============================================================================
