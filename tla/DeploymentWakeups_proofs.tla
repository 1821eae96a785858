----------------------- MODULE DeploymentWakeups_proofs -----------------------
(***************************************************************************)
(* Proofs that the wakeup outbox keeps its promises for every number of    *)
(* publishers, generations, attempts and deliveries: all of its safety     *)
(* properties.                                                             *)
(***************************************************************************)
EXTENDS DeploymentWakeups, FiniteSetTheorems, TLAPS

-----------------------------------------------------------------------------
(* Facts about rows *)

\* A freshly inserted wakeup row has the type of a row.
LEMMA NewRowType == \A due \in BOOLEAN : NewRow(due) \in Row
  BY DEF NewRow, Row, WakeupState

\* What releasing a publication lease does to a row: only state, owner and expiry change.
LEMMA ReleasedType ==
  \A row \in Row, s \in WakeupState :
     /\ Released(row, s) \in Row
     /\ Released(row, s).state = s
     /\ Released(row, s).owner = NoOne
     /\ Released(row, s).attempts = row.attempts
     /\ Released(row, s).due = row.due
  BY DEF Released, Row, WakeupState

\* What taking a publication lease does to a row: it is publishing, owned, one attempt more.
LEMMA LeasedType ==
  \A row \in Row, p \in Publishers :
     /\ Leased(row, p) \in Row
     /\ Leased(row, p).state = "publishing"
     /\ Leased(row, p).owner = p
     /\ Leased(row, p).attempts = row.attempts + 1
     /\ Leased(row, p).due = row.due
  BY DEF Leased, Row, WakeupState

\* The single-column edits of a row keep its type.
LEMMA RowEdits ==
  \A row \in Row :
     /\ [row EXCEPT !.due = TRUE] \in Row
     /\ [row EXCEPT !.expired = TRUE] \in Row
     /\ row.attempts \in Nat
  BY DEF Row, WakeupState

\* Terminalizing turns every live row to terminal without a lease and leaves the others.
LEMMA TerminalizedType ==
  ASSUME wakeup \in [Generations -> Row]
  PROVE  /\ Terminalized \in [Generations -> Row]
         /\ \A g \in Generations :
              /\ Terminalized[g].attempts = wakeup[g].attempts
              /\ Terminalized[g].state = IF LiveRow(g) THEN "terminal" ELSE wakeup[g].state
              /\ LiveRow(g) => Terminalized[g].owner = NoOne
              /\ ~LiveRow(g) => Terminalized[g] = wakeup[g]
  BY ReleasedType DEF Terminalized, WakeupState

\* The sweep that retires spent rows keeps attempts and leaves rows it cannot take.
LEMMA SpentRowsType ==
  ASSUME wakeup \in [Generations -> Row]
  PROVE  /\ SpentRows \in [Generations -> Row]
         /\ \A g \in Generations :
              /\ SpentRows[g].attempts = wakeup[g].attempts
              /\ \/ SpentRows[g] = wakeup[g]
                 \/ /\ Takeable(g)
                    /\ wakeup[g].attempts >= MaxPublishAttempts
                    /\ SpentRows[g].state = "exhausted"
                    /\ SpentRows[g].owner = NoOne
  BY ReleasedType DEF SpentRows, WakeupState

\* A publisher that moves on keeps the type of call.
LEMMA MoveType ==
  ASSUME call \in [Publishers -> Call], NEW p \in Publishers
  PROVE  /\ [call EXCEPT ![p] = Idle] \in [Publishers -> Call]
         /\ \A g \in Generations \cup {call[p].gen},
              step \in {"selected", "publishing", "accepted", "rejected", "refused"} :
                Move(p, step, g) => call' \in [Publishers -> Call]
  BY BoundsAssumption DEF Move, Idle, Call, Generations

\* A message handed to the provider keeps the in-flight counts within their bound.
LEMMA EnqueueType ==
  ASSUME inFlight \in [Generations -> 0..MaxDeliveries], NEW g, Enqueue(g)
  PROVE  inFlight' \in [Generations -> 0..MaxDeliveries]
  BY BoundsAssumption DEF Enqueue

-----------------------------------------------------------------------------
(* Type correctness *)

\* Every step keeps every type.
LEMMA TypeStep == TypeOK /\ [Next]_vars => TypeOK'
<1>1. ASSUME TypeOK, NEW due \in BOOLEAN, Reconcile(due) PROVE TypeOK'
  <2>1. Terminalized \in [Generations -> Row] /\ NewRow(due) \in Row
    BY <1>1, TerminalizedType, NewRowType DEF TypeOK
  <2>2. CASE AnyExhausted
    BY <1>1, <2>1, <2>2 DEF Reconcile, Replace, TypeOK
  <2>3. CASE ~AnyExhausted
    <3>1. latest' \in Generations
      BY <1>1, <2>3, BoundsAssumption DEF Reconcile, Replace, Generations, TypeOK
    <3>2. wakeup' \in [Generations -> Row]
      BY <1>1, <2>1, <2>3 DEF Reconcile, Replace
    <3>3. QED
      BY <1>1, <3>1, <3>2 DEF Reconcile, TypeOK
  <2>4. QED
    BY <2>2, <2>3
<1>2. ASSUME TypeOK, NEW next \in {"active", "terminal"}, Cancel(next) PROVE TypeOK'
  BY <1>2, TerminalizedType DEF Cancel, TypeOK
<1>3. ASSUME TypeOK, Interrupt PROVE TypeOK'
  BY <1>3 DEF Interrupt, TypeOK
<1>4. ASSUME TypeOK, NEW p \in Publishers, NEW g \in Generations, Select(p, g) PROVE TypeOK'
  <2>1. [step |-> "selected", gen |-> g] \in Call
    BY DEF Call, Generations
  <2>2. QED
    BY <1>4, <2>1 DEF Select, Move, TypeOK
<1>5. ASSUME TypeOK, NEW p \in Publishers, ClaimForPublish(p) PROVE TypeOK'
  <2> DEFINE g == call[p].gen
  <2>1. \A row \in Row : Leased(row, p) \in Row /\ Released(row, "exhausted") \in Row
    BY LeasedType, ReleasedType DEF WakeupState
  <2>2. wakeup' \in {wakeup, [wakeup EXCEPT ![g] = Leased(wakeup[g], p)],
                     [wakeup EXCEPT ![g] = Released(wakeup[g], "exhausted")]}
    BY <1>5 DEF ClaimForPublish
  <2>3. wakeup' \in [Generations -> Row]
    BY <1>5, <2>1, <2>2 DEF TypeOK
  <2>4. call' \in [Publishers -> Call]
    BY <1>5, MoveType DEF ClaimForPublish, TypeOK
  <2>5. QED
    BY <1>5, <2>3, <2>4 DEF ClaimForPublish, TypeOK
<1>6. ASSUME TypeOK, NEW p \in Publishers, Sweep(p) PROVE TypeOK'
  <2>1. SpentRows \in [Generations -> Row] /\ \A row \in Row : Leased(row, p) \in Row
    BY <1>6, SpentRowsType, LeasedType DEF TypeOK
  <2>2. wakeup' \in [Generations -> Row]
    <3>1. CASE wakeup' = SpentRows
      BY <2>1, <3>1
    <3>2. ASSUME NEW g \in Generations,
                 wakeup' = [SpentRows EXCEPT ![g] = Leased(SpentRows[g], p)]
          PROVE  wakeup' \in [Generations -> Row]
      BY <2>1, <3>2
    <3>3. \/ wakeup' = SpentRows
          \/ \E g \in Generations : wakeup' = [SpentRows EXCEPT ![g] = Leased(SpentRows[g], p)]
      BY <1>6 DEF Sweep
    <3>4. QED
      BY <3>1, <3>2, <3>3
  <2>3. call' \in [Publishers -> Call]
    BY <1>6, MoveType DEF Sweep, TypeOK
  <2>4. QED
    BY <1>6, <2>2, <2>3 DEF Sweep, TypeOK
<1>7. ASSUME TypeOK, NEW p \in Publishers, Publish(p) PROVE TypeOK'
  <2> DEFINE g == call[p].gen
  <2>1. effects' \in [Generations -> Nat]
    <3>1. effects' = [effects EXCEPT ![g] = effects[g] + 1]
      BY <1>7 DEF Publish
    <3>2. effects \in [Generations -> Nat]
      BY <1>7 DEF TypeOK
    <3>3. g \in Generations => effects[g] + 1 \in Nat
      BY <3>2
    <3>4. \A h \in Generations : effects'[h] = IF h = g THEN effects[g] + 1 ELSE effects[h]
      BY <3>1, <3>2
    <3>5. QED
      BY <3>1, <3>2, <3>3, <3>4
  <2>2. inFlight' \in [Generations -> 0..MaxDeliveries]
    BY <1>7, EnqueueType DEF Publish, TypeOK
  <2>3. call' \in [Publishers -> Call]
    BY <1>7, MoveType DEF Publish, TypeOK
  <2>4. QED
    BY <1>7, <2>1, <2>2, <2>3 DEF Publish, TypeOK
<1>8. ASSUME TypeOK, NEW p \in Publishers, MarkPublished(p) PROVE TypeOK'
  <2>1. wakeup' \in [Generations -> Row]
    BY <1>8, ReleasedType DEF MarkPublished, WakeupState, TypeOK
  <2>2. QED
    BY <1>8, <2>1, MoveType DEF MarkPublished, TypeOK
<1>9. ASSUME TypeOK, NEW p \in Publishers, MarkPublishFailed(p) PROVE TypeOK'
  <2>1. wakeup' \in [Generations -> Row]
    BY <1>9, ReleasedType DEF MarkPublishFailed, WakeupState, TypeOK
  <2>2. QED
    BY <1>9, <2>1, MoveType DEF MarkPublishFailed, TypeOK
<1>10. ASSUME TypeOK, NEW p \in Publishers, Abandon(p) PROVE TypeOK'
  <2>1. effects' \in [Generations -> Nat]
    BY <1>10 DEF Abandon, TypeOK
  <2>2. inFlight' \in [Generations -> 0..MaxDeliveries]
    BY <1>10, EnqueueType DEF Abandon, TypeOK
  <2>3. QED
    BY <1>10, <2>1, <2>2, MoveType DEF Abandon, TypeOK
<1>11. ASSUME TypeOK, NEW g \in Generations, NEW acknowledged \in BOOLEAN, Deliver(g, acknowledged)
       PROVE  TypeOK'
  <2>1. inFlight' \in [Generations -> 0..MaxDeliveries]
    BY <1>11, BoundsAssumption DEF Deliver, Attempt, TypeOK
  <2>2. wakeup' \in [Generations -> Row]
    BY <1>11, ReleasedType DEF Deliver, WakeupState, TypeOK
  <2>3. drains' \in [Generations -> Nat]
    BY <1>11 DEF Deliver, TypeOK
  <2>4. QED
    BY <1>11, <2>1, <2>2, <2>3 DEF Deliver, TypeOK
<1>12. ASSUME TypeOK, NEW g \in Generations, Replay(g) PROVE TypeOK'
  <2>1. latest' \in Generations
    BY <1>12, BoundsAssumption DEF Replay, Generations, TypeOK
  <2>2. Released(wakeup[g], "terminal") \in Row /\ NewRow(TRUE) \in Row
    BY <1>12, NewRowType, ReleasedType DEF TypeOK, WakeupState
  <2>3. wakeup' \in [Generations -> Row]
    BY <1>12, <2>2 DEF Replay, TypeOK
  <2>4. QED
    BY <1>12, <2>1, <2>3 DEF Replay, TypeOK
<1>13. ASSUME TypeOK, RollBack PROVE TypeOK'
  BY <1>13 DEF RollBack, TypeOK
<1>14. ASSUME TypeOK, NEW g \in Generations, BecomeDue(g) PROVE TypeOK'
  <2>1. [wakeup[g] EXCEPT !.due = TRUE] \in Row
    BY <1>14, RowEdits DEF TypeOK
  <2>2. QED
    BY <1>14, <2>1 DEF BecomeDue, TypeOK
<1>15. ASSUME TypeOK, NEW g \in Generations, LeaseExpires(g) PROVE TypeOK'
  <2>1. [wakeup[g] EXCEPT !.expired = TRUE] \in Row
    BY <1>15, RowEdits DEF TypeOK
  <2>2. QED
    BY <1>15, <2>1 DEF LeaseExpires, TypeOK
<1>16. ASSUME TypeOK, UNCHANGED vars PROVE TypeOK'
  BY <1>16 DEF vars, TypeOK
<1>17. QED
  BY <1>1, <1>2, <1>3, <1>4, <1>5, <1>6, <1>7, <1>8, <1>9, <1>10, <1>11, <1>12,
     <1>13, <1>14, <1>15, <1>16 DEF Next, Reconciles, PublisherStep
-----------------------------------------------------------------------------
(* What one step may do to one row *)

\* Same state, lease holder and attempts: at most the clock moved.
Kept(g) ==
    /\ wakeup'[g].state = wakeup[g].state
    /\ wakeup'[g].owner = wakeup[g].owner
    /\ wakeup'[g].attempts = wakeup[g].attempts

\* The row left a state for another and holds no lease.
Left(g, from, to) ==
    /\ wakeup[g].state \in from
    /\ wakeup'[g].state = to
    /\ wakeup'[g].owner = NoOne
    /\ wakeup'[g].attempts = wakeup[g].attempts

\* A publisher took the lease, with an attempt to spare.
Taken(g) ==
    /\ wakeup[g].state \in Publishable \cup {"publishing"}
    /\ wakeup'[g].state = "publishing"
    /\ wakeup'[g].owner \in Publishers
    /\ wakeup[g].attempts < MaxPublishAttempts
    /\ wakeup'[g].attempts = wakeup[g].attempts + 1

\* The row is the one a writer just inserted.
Inserted(g) ==
    /\ g = latest + 1
    /\ latest' = latest + 1
    /\ \E due \in BOOLEAN : wakeup'[g] = NewRow(due)

RowChange(g) ==
    \/ Kept(g)
    \/ Left(g, Live, "terminal")
    \/ Left(g, Publishable \cup {"publishing"}, "exhausted")
    \/ Left(g, {"publishing"}, "published")
    \/ Left(g, {"publishing"}, "failed")
    \/ Left(g, Deliverable, "claimed")
    \/ Left(g, {"exhausted"}, "terminal")
    \/ Taken(g)
    \/ Inserted(g)

\* Every step changes a row in one of the ways RowChange lists.
LEMMA RowStep ==
  ASSUME TypeOK, [Next]_vars, NEW h \in Generations
  PROVE  RowChange(h)
<1> USE DEF RowChange
<1>1. ASSUME NEW due \in BOOLEAN, Reconcile(due) PROVE RowChange(h)
  <2>1. Terminalized[h] = wakeup[h] \/ (/\ wakeup[h].state \in Live
                                        /\ Terminalized[h].state = "terminal"
                                        /\ Terminalized[h].owner = NoOne
                                        /\ Terminalized[h].attempts = wakeup[h].attempts)
    BY TerminalizedType DEF TypeOK, LiveRow
  <2>2. CASE wakeup'[h] = Terminalized[h]
    BY <2>1, <2>2 DEF Kept, Left
  <2>3. CASE wakeup'[h] # Terminalized[h]
    <3>1. Terminalized \in [Generations -> Row]
      BY TerminalizedType DEF TypeOK
    <3>2. h = latest + 1 /\ latest' = latest + 1 /\ wakeup'[h] = NewRow(due)
      BY <1>1, <2>3, <3>1 DEF Reconcile, Replace
    <3>3. QED
      BY <3>2 DEF Inserted
  <2>4. QED
    BY <2>2, <2>3
<1>2. ASSUME NEW next \in {"active", "terminal"}, Cancel(next) PROVE RowChange(h)
  <2>1. Terminalized[h] = wakeup[h] \/ (/\ wakeup[h].state \in Live
                                        /\ Terminalized[h].state = "terminal"
                                        /\ Terminalized[h].owner = NoOne
                                        /\ Terminalized[h].attempts = wakeup[h].attempts)
    BY TerminalizedType DEF TypeOK, LiveRow
  <2>2. wakeup' = Terminalized
    BY <1>2 DEF Cancel
  <2>3. QED
    BY <2>1, <2>2 DEF Kept, Left
<1>3. CASE UNCHANGED wakeup
  BY <1>3 DEF Kept
<1>5. ASSUME NEW p \in Publishers, ClaimForPublish(p) PROVE RowChange(h)
  <2> DEFINE g == call[p].gen
  <2>1. wakeup \in [Generations -> Row] /\ wakeup[h] \in Row
    BY DEF TypeOK
  <2>2. CASE /\ wakeup[g].state \in Publishable
             /\ wakeup[g].attempts < MaxPublishAttempts
             /\ wakeup' = [wakeup EXCEPT ![g] = Leased(wakeup[g], p)]
    BY <2>1, <2>2, LeasedType DEF Kept, Taken
  <2>3. CASE /\ wakeup[g].state \in Publishable
             /\ wakeup' = [wakeup EXCEPT ![g] = Released(wakeup[g], "exhausted")]
    BY <2>1, <2>3, ReleasedType DEF Kept, Left, WakeupState
  <2>4. QED
    BY <1>3, <1>5, <2>2, <2>3 DEF ClaimForPublish
<1>6. ASSUME NEW p \in Publishers, Sweep(p) PROVE RowChange(h)
  <2>1. /\ SpentRows \in [Generations -> Row]
        /\ SpentRows[h].attempts = wakeup[h].attempts
        /\ \/ SpentRows[h] = wakeup[h]
           \/ /\ wakeup[h].state \in Publishable \cup {"publishing"}
              /\ wakeup[h].attempts >= MaxPublishAttempts
              /\ SpentRows[h].state = "exhausted"
              /\ SpentRows[h].owner = NoOne
    BY SpentRowsType DEF TypeOK, Takeable
  <2>2. CASE wakeup'[h] = SpentRows[h]
    BY <2>1, <2>2 DEF Kept, Left
  <2>3. ASSUME NEW g \in Generations, Sweepable(g),
               wakeup' = [SpentRows EXCEPT ![g] = Leased(SpentRows[g], p)]
        PROVE  RowChange(h)
    <3>1. CASE h # g
      BY <2>1, <2>2, <2>3, <3>1
    <3>2. CASE h = g
      <4>1. /\ wakeup[h].attempts < MaxPublishAttempts
            /\ wakeup[h].state \in Publishable \cup {"publishing"}
        BY <2>3, <3>2 DEF Sweepable, Takeable
      <4>2. wakeup'[h] = Leased(SpentRows[h], p)
        BY <2>1, <2>3, <3>2
      <4>3. SpentRows[h] \in Row
        BY <2>1
      <4>4. QED
        BY <2>1, <4>1, <4>2, <4>3, LeasedType DEF Taken
    <3>3. QED
      BY <3>1, <3>2
  <2>4. \/ wakeup' = SpentRows
        \/ \E g \in Generations :
             Sweepable(g) /\ wakeup' = [SpentRows EXCEPT ![g] = Leased(SpentRows[g], p)]
    BY <1>6 DEF Sweep
  <2>5. QED
    BY <2>2, <2>3, <2>4
<1>8. ASSUME NEW p \in Publishers, MarkPublished(p) PROVE RowChange(h)
  BY <1>8, ReleasedType DEF MarkPublished, OwnsLease, Kept, Left, TypeOK, WakeupState
<1>9. ASSUME NEW p \in Publishers, MarkPublishFailed(p) PROVE RowChange(h)
  <2> DEFINE g == call[p].gen
  <2>1. wakeup \in [Generations -> Row]
    BY DEF TypeOK
  <2>2. \/ UNCHANGED wakeup
        \/ /\ wakeup[g].state = "publishing"
           /\ \E s \in {"exhausted", "failed"} : wakeup' = [wakeup EXCEPT ![g] = Released(wakeup[g], s)]
    BY <1>9 DEF MarkPublishFailed, OwnsLease
  <2>3. QED
    BY <1>3, <2>1, <2>2, ReleasedType DEF Kept, Left, WakeupState
<1>11. ASSUME NEW g \in Generations, NEW acknowledged \in BOOLEAN, Deliver(g, acknowledged)
       PROVE  RowChange(h)
  BY <1>11, ReleasedType DEF Deliver, Claimable, Kept, Left, TypeOK, WakeupState
<1>12. ASSUME NEW g \in Generations, Replay(g) PROVE RowChange(h)
  <2>1. /\ wakeup' = [wakeup EXCEPT ![g] = Released(wakeup[g], "terminal"), ![g + 1] = NewRow(TRUE)]
        /\ latest' = latest + 1 /\ g = latest /\ wakeup[g].state = "exhausted"
    BY <1>12 DEF Replay
  <2>2. /\ wakeup \in [Generations -> Row] /\ wakeup[h] \in Row
        /\ latest \in Nat /\ h \in Nat
    BY BoundsAssumption DEF TypeOK, Generations
  <2>3. CASE h = latest + 1
    BY <2>1, <2>2, <2>3 DEF Inserted
  <2>4. CASE h = latest
    <3>1. h = g /\ h # g + 1
      BY <2>1, <2>2, <2>4
    <3>2. wakeup'[h] = Released(wakeup[h], "terminal")
      BY <2>1, <2>2, <3>1
    <3>3. wakeup'[h].state = "terminal" /\ wakeup'[h].owner = NoOne
          /\ wakeup'[h].attempts = wakeup[h].attempts
      BY <2>2, <3>2, ReleasedType DEF WakeupState
    <3>4. QED
      BY <2>1, <3>1, <3>3 DEF Left
  <2>5. CASE h # latest /\ h # latest + 1
    BY <2>1, <2>2, <2>5 DEF Kept
  <2>6. QED
    BY <2>3, <2>4, <2>5
<1>14. ASSUME NEW g \in Generations, BecomeDue(g) PROVE RowChange(h)
  BY <1>14 DEF BecomeDue, Kept, TypeOK, Row
<1>15. ASSUME NEW g \in Generations, LeaseExpires(g) PROVE RowChange(h)
  BY <1>15 DEF LeaseExpires, Kept, TypeOK, Row
<1>16. QED
  BY <1>1, <1>2, <1>3, <1>5, <1>6, <1>8, <1>9, <1>11, <1>12, <1>14, <1>15
  DEF Next, Reconciles, PublisherStep, Interrupt, Select, Publish, Abandon, RollBack, vars

-----------------------------------------------------------------------------
(* The newest generation *)

\* The states a generation must have left before it is superseded.
Tip == Live \cup {"exhausted"}

\* A step keeps the newest generation, or ends it and starts the next one.
LEMMA LatestStep ==
  ASSUME TypeOK, CurrentGeneration, [Next]_vars
  PROVE  \/ latest' = latest
         \/ /\ latest' = latest + 1
            /\ \A g \in 1..latest : wakeup'[g].state \notin Tip
<1>0. /\ latest \in Nat /\ 1..latest \subseteq Generations
      /\ wakeup \in [Generations -> Row]
  BY BoundsAssumption DEF TypeOK, Generations
<1>1. ASSUME NEW due \in BOOLEAN, Reconcile(due), latest' # latest
      PROVE  latest' = latest + 1 /\ \A g \in 1..latest : wakeup'[g].state \notin Tip
  <2>1. /\ ~AnyExhausted
        /\ latest' = latest + 1
        /\ wakeup' = [Terminalized EXCEPT ![latest + 1] = NewRow(due)]
    BY <1>1 DEF Reconcile, Replace
  <2>2. SUFFICES ASSUME NEW g \in 1..latest PROVE wakeup'[g].state \notin Tip
    BY <2>1
  <2>3. g \in Generations /\ Exists(g) /\ g # latest + 1 /\ g <= latest
    BY <1>0 DEF Exists
  <2>4. wakeup'[g] = Terminalized[g]
    BY <1>0, <2>1, <2>3, TerminalizedType
  <2>5. Terminalized[g].state = IF LiveRow(g) THEN "terminal" ELSE wakeup[g].state
    BY <1>0, <2>3, TerminalizedType
  <2>6. wakeup[g].state # "exhausted"
    BY <2>1, <2>3 DEF AnyExhausted
  <2>7. QED
    BY <2>3, <2>4, <2>5, <2>6 DEF LiveRow, Live, Tip
<1>2. ASSUME NEW h \in Generations, Replay(h)
      PROVE  latest' = latest + 1 /\ \A g \in 1..latest : wakeup'[g].state \notin Tip
  <2>1. /\ latest' = latest + 1 /\ h = latest
        /\ wakeup' = [wakeup EXCEPT ![h] = Released(wakeup[h], "terminal"), ![h + 1] = NewRow(TRUE)]
    BY <1>2 DEF Replay
  <2>2. SUFFICES ASSUME NEW g \in 1..latest PROVE wakeup'[g].state \notin Tip
    BY <2>1
  <2>3. g \in Generations /\ Exists(g) /\ g # latest + 1
    BY <1>0 DEF Exists
  <2>4. CASE g = latest
    <3>1. wakeup'[g] = Released(wakeup[g], "terminal")
      BY <1>0, <2>1, <2>3, <2>4
    <3>2. wakeup[g] \in Row
      BY <1>0, <2>3
    <3>3. QED
      BY <3>1, <3>2, ReleasedType DEF WakeupState, Tip, Live
  <2>5. CASE g # latest
    <3>1. wakeup'[g] = wakeup[g]
      BY <1>0, <2>1, <2>3, <2>5
    <3>2. QED
      BY <2>3, <2>5, <3>1 DEF CurrentGeneration, Tip
  <2>6. QED
    BY <2>4, <2>5
<1>3. QED
  BY <1>1, <1>2
  DEF Next, Reconciles, PublisherStep, Cancel, Interrupt, Select, ClaimForPublish, Sweep,
      Publish, MarkPublished, MarkPublishFailed, Abandon, Deliver, RollBack, BecomeDue,
      LeaseExpires, vars

\* Only a writer that inserts the row makes a generation exist.
LEMMA InsertedAtLatest ==
  ASSUME TypeOK, [Next]_vars, latest' = latest + 1
  PROVE  Inserted(latest + 1)
<1>1. latest \in Nat /\ wakeup \in [Generations -> Row]
  BY BoundsAssumption DEF TypeOK, Generations
<1>2. ASSUME NEW due \in BOOLEAN, Reconcile(due) PROVE Inserted(latest + 1)
  <2>1. /\ latest < MaxGeneration
        /\ wakeup' = [Terminalized EXCEPT ![latest + 1] = NewRow(due)]
    BY <1>1, <1>2 DEF Reconcile, Replace
  <2>2. latest + 1 \in Generations /\ Terminalized \in [Generations -> Row]
    BY <1>1, <2>1, BoundsAssumption, TerminalizedType DEF Generations
  <2>3. QED
    BY <2>1, <2>2 DEF Inserted
<1>3. ASSUME NEW g \in Generations, Replay(g) PROVE Inserted(latest + 1)
  <2>1. /\ g = latest /\ latest < MaxGeneration
        /\ wakeup' = [wakeup EXCEPT ![g] = Released(wakeup[g], "terminal"), ![g + 1] = NewRow(TRUE)]
    BY <1>3 DEF Replay
  <2>2. latest + 1 \in Generations
    BY <1>1, <2>1, BoundsAssumption DEF Generations
  <2>3. wakeup'[latest + 1] = NewRow(TRUE)
    BY <1>1, <2>1, <2>2
  <2>4. QED
    BY <2>3 DEF Inserted
<1>4. latest # latest + 1
  BY <1>1
<1>5. QED
  BY <1>2, <1>3, <1>4
  DEF Next, Reconciles, PublisherStep, Cancel, Interrupt, Select, ClaimForPublish, Sweep,
      Publish, MarkPublished, MarkPublishFailed, Abandon, Deliver, RollBack, BecomeDue,
      LeaseExpires, vars

\* Every step leaves at most the latest generation live or exhausted.
LEMMA CurrentGenerationStep ==
  ASSUME TypeOK, CurrentGeneration, [Next]_vars
  PROVE  CurrentGeneration'
<1>1. SUFFICES ASSUME NEW g \in Generations, Exists(g)', wakeup'[g].state \in Tip
               PROVE  g = latest'
  BY DEF CurrentGeneration, Tip
<1>2. g \in 1..latest' /\ latest \in Nat
  BY <1>1, BoundsAssumption DEF Exists, TypeOK, Generations
<1>3. CASE latest' = latest
  <2>1. Exists(g)
    BY <1>2, <1>3 DEF Exists
  <2>2. RowChange(g)
    BY RowStep
  <2>3. wakeup[g].state \in Tip
    BY <1>1, <1>2, <1>3, <2>2
    DEF RowChange, Kept, Left, Taken, Inserted, Tip, Live, Publishable, Deliverable
  <2>4. QED
    BY <1>3, <2>1, <2>3 DEF CurrentGeneration, Tip
<1>4. CASE /\ latest' = latest + 1
           /\ \A h \in 1..latest : wakeup'[h].state \notin Tip
  BY <1>1, <1>2, <1>4
<1>5. QED
  BY <1>3, <1>4, LatestStep

-----------------------------------------------------------------------------
(* Leases *)

\* Every step keeps lease ownership and the publishing state together.
LEMMA LeasedWhilePublishingStep ==
  ASSUME TypeOK, LeasedWhilePublishing, [Next]_vars, latest' \in {latest, latest + 1}
  PROVE  LeasedWhilePublishing'
<1>1. SUFFICES ASSUME NEW g \in Generations, Exists(g)'
               PROVE  (wakeup'[g].state = "publishing") = (wakeup'[g].owner # NoOne)
  BY DEF LeasedWhilePublishing
<1>2. RowChange(g)
  BY RowStep
<1> latest \in Nat /\ g \in Nat
  BY BoundsAssumption DEF TypeOK, Generations
<1>3. CASE Inserted(g)
  BY <1>3 DEF Inserted, NewRow
<1>4. CASE ~Inserted(g) /\ ~Exists(g)
  <2>1. g = latest + 1 /\ latest' = latest + 1
    BY <1>1, <1>2, <1>4 DEF Exists
  <2>2. QED
    BY <1>4, <2>1, InsertedAtLatest
<1>5. CASE ~Inserted(g) /\ Exists(g)
  <2>1. (wakeup[g].state = "publishing") = (wakeup[g].owner # NoOne)
    BY <1>5 DEF LeasedWhilePublishing
  <2>2. CASE Kept(g)
    BY <2>1, <2>2 DEF Kept
  <2>3. CASE Taken(g)
    BY <2>3, PublishersAssumption DEF Taken
  <2>4. CASE ~Kept(g) /\ ~Taken(g)
    BY <1>2, <1>5, <2>4 DEF RowChange, Left
  <2>5. QED
    BY <2>2, <2>3, <2>4
<1>6. QED
  BY <1>3, <1>4, <1>5

-----------------------------------------------------------------------------
(* Drains *)

\* No step moves a claimed or terminal row.
LEMMA SettledStep ==
  ASSUME TypeOK, [Next]_vars, NEW g \in Generations, Exists(g),
         wakeup[g].state \in {"claimed", "terminal"}
  PROVE  wakeup'[g].state = wakeup[g].state
<1>1. RowChange(g)
  BY RowStep
<1>2. latest \in Nat /\ g \in 1..latest
  BY BoundsAssumption DEF TypeOK, Generations, Exists
<1>3. ~Inserted(g)
  BY <1>2 DEF Inserted
<1>4. ~Taken(g)
  BY DEF Taken, Publishable
<1>5. ~Left(g, Live, "terminal") /\ ~Left(g, {"exhausted"}, "terminal")
  BY DEF Left, Live
<1>6. /\ ~Left(g, Publishable \cup {"publishing"}, "exhausted")
      /\ ~Left(g, {"publishing"}, "published")
      /\ ~Left(g, {"publishing"}, "failed")
      /\ ~Left(g, Deliverable, "claimed")
  BY DEF Left, Publishable, Deliverable
<1>7. QED
  BY <1>1, <1>3, <1>4, <1>5, <1>6 DEF RowChange, Kept

\* A drain leaves its row claimed, and claimed rows stay claimed.
DrainsClaimed ==
    \A g \in Generations :
        drains[g] <= IF Exists(g) /\ wakeup[g].state = "claimed" THEN 1 ELSE 0

\* Every step keeps the drains of a row at most one, and at none before its claim.
LEMMA DrainsClaimedStep ==
  ASSUME TypeOK, DrainsClaimed, [Next]_vars, latest' \in {latest, latest + 1}
  PROVE  DrainsClaimed'
<1>1. SUFFICES ASSUME NEW g \in Generations
               PROVE  drains'[g] <= IF Exists(g)' /\ wakeup'[g].state = "claimed" THEN 1 ELSE 0
  BY DEF DrainsClaimed
<1>2. RowChange(g)
  BY RowStep
<1>3. /\ latest \in Nat /\ g \in Nat
      /\ wakeup \in [Generations -> Row] /\ drains \in [Generations -> Nat]
  BY BoundsAssumption DEF TypeOK, Generations
<1>4. drains[g] <= IF Exists(g) /\ wakeup[g].state = "claimed" THEN 1 ELSE 0
  BY DEF DrainsClaimed
<1>5. ASSUME NEW h \in Generations, NEW acknowledged \in BOOLEAN, Deliver(h, acknowledged),
             drains' # drains
      PROVE  drains'[g] <= IF Exists(g)' /\ wakeup'[g].state = "claimed" THEN 1 ELSE 0
  <2>1. /\ Claimable(h) /\ latest' = latest
        /\ wakeup' = [wakeup EXCEPT ![h] = Released(wakeup[h], "claimed")]
        /\ drains' = [drains EXCEPT ![h] = drains[h] + 1]
    BY <1>5 DEF Deliver
  <2>2. CASE g = h
    <3>1. h = latest /\ wakeup[h].state # "claimed"
      BY <2>1 DEF Claimable, Deliverable
    <3>2. drains'[h] = 1
      BY <1>3, <1>4, <2>1, <2>2, <3>1
    <3>3. wakeup'[h].state = "claimed"
      BY <1>3, <2>1, ReleasedType DEF WakeupState
    <3>4. Exists(h)'
      BY <2>1, <3>1 DEF TypeOK, Generations, Exists
    <3>5. QED
      BY <2>2, <3>2, <3>3, <3>4
  <2>3. CASE g # h
    BY <1>3, <1>4, <2>1, <2>3 DEF Exists
  <2>4. QED
    BY <2>2, <2>3
<1>6. CASE drains' = drains
  <2>1. CASE Exists(g) /\ wakeup[g].state = "claimed"
    <3>1. Exists(g)'
      BY <1>3, <2>1 DEF Exists
    <3>2. wakeup'[g].state = "claimed"
      BY <2>1, SettledStep
    <3>3. QED
      BY <1>4, <1>6, <2>1, <3>1, <3>2
  <2>2. CASE ~(Exists(g) /\ wakeup[g].state = "claimed")
    BY <1>3, <1>4, <1>6, <2>2
  <2>3. QED
    BY <2>1, <2>2
<1>7. \/ drains' = drains
      \/ \E h \in Generations, acknowledged \in BOOLEAN : Deliver(h, acknowledged)
  BY DEF Next, Reconciles, PublisherStep, Reconcile, Cancel, Interrupt, Select,
         ClaimForPublish, Sweep, Publish, MarkPublished, MarkPublishFailed, Abandon, Replay,
         RollBack, BecomeDue, LeaseExpires, vars
<1>8. QED
  BY <1>5, <1>6, <1>7

-----------------------------------------------------------------------------
(* Provider effects *)

\* The invocations that hold the outcome of one attempt in their hands.
Publishing(g) == {p \in Publishers : call[p].step = "publishing" /\ call[p].gen = g}

\* Every effect, made or about to be made, was counted as an attempt when the row
\* was leased; nothing is attempted for a generation that does not exist yet.
EffectsCounted ==
    /\ \A g \in Generations :
          /\ effects[g] + Cardinality(Publishing(g)) <= wakeup[g].attempts
          /\ wakeup[g].attempts <= MaxPublishAttempts
          /\ g > latest => effects[g] = 0
    /\ \A p \in Publishers : call[p].step # "idle" => call[p].gen \in 1..latest

\* The publishers inside a publication of a generation are finitely many.
LEMMA PublishingFinite ==
  \A g : IsFiniteSet(Publishing(g)) /\ Cardinality(Publishing(g)) \in Nat
  BY PublishersAssumption, FS_Subset, FS_CardinalityType DEF Publishing

\* How Publishing(g) changes when one publisher moves.
LEMMA PublishingMoves ==
  ASSUME TypeOK, NEW p \in Publishers, NEW c \in Call, call' = [call EXCEPT ![p] = c],
         NEW g \in Generations
  PROVE  /\ c.step = "publishing" /\ c.gen = g /\ p \notin Publishing(g)
              => Cardinality(Publishing(g)') = Cardinality(Publishing(g)) + 1
         /\ (c.step # "publishing" \/ c.gen # g) /\ p \in Publishing(g)
              => Cardinality(Publishing(g)') = Cardinality(Publishing(g)) - 1
         /\ (c.step # "publishing" \/ c.gen # g) /\ p \notin Publishing(g)
              => Cardinality(Publishing(g)') = Cardinality(Publishing(g))
<1>1. call \in [Publishers -> Call]
  BY DEF TypeOK
<1>2. CASE c.step = "publishing" /\ c.gen = g /\ p \notin Publishing(g)
  <2>1. Publishing(g)' = Publishing(g) \cup {p}
    <3>1. call'[p] = c /\ \A q \in Publishers : q # p => call'[q] = call[q]
      BY <1>1
    <3>2. QED
      BY <1>2, <3>1 DEF Publishing
  <2>2. QED
    BY <1>2, <2>1, PublishingFinite, FS_AddElement
<1>3. CASE (c.step # "publishing" \/ c.gen # g) /\ p \in Publishing(g)
  <2>1. Publishing(g)' = Publishing(g) \ {p}
    <3>1. call'[p] = c /\ \A q \in Publishers : q # p => call'[q] = call[q]
      BY <1>1
    <3>2. QED
      BY <1>3, <3>1 DEF Publishing
  <2>2. QED
    BY <1>3, <2>1, PublishingFinite, FS_RemoveElement
<1>4. CASE (c.step # "publishing" \/ c.gen # g) /\ p \notin Publishing(g)
  <2>1. Publishing(g)' = Publishing(g)
    <3>1. call'[p] = c /\ \A q \in Publishers : q # p => call'[q] = call[q]
      BY <1>1
    <3>2. QED
      BY <1>4, <3>1 DEF Publishing
  <2>2. QED
    BY <1>4, <2>1
<1>5. QED
  BY <1>2, <1>3, <1>4

\* A row's attempts grow only when it is leased, and never past the bound.
LEMMA AttemptsStep ==
  ASSUME TypeOK, EffectsCounted, [Next]_vars, NEW g \in Generations
  PROVE  /\ wakeup'[g].attempts \in Nat
         /\ wakeup'[g].attempts <= MaxPublishAttempts
         /\ Exists(g) => wakeup'[g].attempts >= wakeup[g].attempts
<1>1. RowChange(g)
  BY RowStep
<1>2. /\ wakeup[g].attempts \in Nat /\ wakeup[g].attempts <= MaxPublishAttempts
      /\ latest \in Nat /\ MaxPublishAttempts \in Nat
  BY BoundsAssumption DEF TypeOK, Row, Generations, EffectsCounted
<1>3. CASE Inserted(g)
  BY <1>2, <1>3 DEF Inserted, NewRow, Exists
<1>4. CASE Taken(g)
  BY <1>2, <1>4 DEF Taken
<1>5. CASE wakeup'[g].attempts = wakeup[g].attempts
  BY <1>2, <1>5
<1>6. QED
  BY <1>1, <1>3, <1>4, <1>5 DEF RowChange, Kept, Left

\* The provider's and the publishers' part of a step, for one generation.
Count(g) == effects[g] + Cardinality(Publishing(g))

CountKept(g) == Count(g)' <= Count(g)

CountLeased(g) ==
    /\ Exists(g)
    /\ Count(g)' = Count(g) + 1
    /\ wakeup'[g].attempts = wakeup[g].attempts + 1

\* The effects counted for a generation are a natural number.
LEMMA CountType ==
  ASSUME TypeOK, NEW g \in Generations
  PROVE  /\ Count(g) \in Nat /\ effects[g] \in Nat
         /\ Cardinality(Publishing(g)) \in Nat
  BY PublishingFinite DEF Count, TypeOK

\* And so they are after a step.
LEMMA CountTypeNext ==
  ASSUME TypeOK', NEW g \in Generations
  PROVE  Count(g)' \in Nat
<1>1. IsFiniteSet(Publishing(g)')
  BY PublishersAssumption, FS_Subset DEF Publishing
<1>2. QED
  BY <1>1, FS_CardinalityType DEF Count, TypeOK

\* A publisher that is not publishing and does not start leaves every count alone.
LEMMA IdleMove ==
  ASSUME TypeOK, NEW p \in Publishers, NEW c \in Call, call' = [call EXCEPT ![p] = c],
         call[p].step # "publishing", c.step # "publishing", effects' = effects,
         NEW g \in Generations
  PROVE  CountKept(g)
<1>1. p \notin Publishing(g)
  BY DEF Publishing
<1>2. Cardinality(Publishing(g)') = Cardinality(Publishing(g))
  BY <1>1, PublishingMoves
<1>3. QED
  BY <1>2, CountType DEF CountKept, Count

\* A publisher that takes the lease of g0 adds one to the count of g0 only.
LEMMA LeaseMove ==
  ASSUME TypeOK, NEW p \in Publishers, NEW g0 \in Generations, Move(p, "publishing", g0),
         call[p].step # "publishing", effects' = effects, NEW g \in Generations
  PROVE  IF g = g0 THEN Count(g)' = Count(g) + 1 ELSE CountKept(g)
<1> DEFINE c == [step |-> "publishing", gen |-> g0]
<1>1. /\ call' = [call EXCEPT ![p] = c] /\ p \notin Publishing(g)
      /\ c.step = "publishing" /\ c.gen = g0
  BY DEF Move, Publishing
<1>2. c \in Call
  BY BoundsAssumption DEF Call, Generations
<1> HIDE DEF c
<1>3. CASE g = g0
  <2>1. Cardinality(Publishing(g)') = Cardinality(Publishing(g)) + 1
    BY <1>1, <1>2, <1>3, PublishingMoves
  <2>2. QED
    BY <1>3, <2>1, CountType DEF Count
<1>4. CASE g # g0
  <2>1. Cardinality(Publishing(g)') = Cardinality(Publishing(g))
    BY <1>1, <1>2, <1>4, PublishingMoves
  <2>2. QED
    BY <1>4, <2>1, CountType DEF Count, CountKept
<1>5. QED
  BY <1>3, <1>4

\* A publisher that stops publishing has had at most the one effect it held.
LEMMA FinishMove ==
  ASSUME TypeOK, NEW p \in Publishers, NEW c \in Call, call' = [call EXCEPT ![p] = c],
         call[p].step = "publishing", c.step # "publishing",
         effects' \in {effects, [effects EXCEPT ![call[p].gen] = effects[call[p].gen] + 1]},
         NEW g \in Generations
  PROVE  CountKept(g)
<1>1. CASE g = call[p].gen
  <2>1. p \in Publishing(g)
    BY <1>1 DEF Publishing
  <2>2. Cardinality(Publishing(g)') = Cardinality(Publishing(g)) - 1
    BY <2>1, PublishingMoves
  <2>3. effects'[g] <= effects[g] + 1
    BY <1>1, CountType DEF TypeOK
  <2>4. effects'[g] \in Nat
    BY <1>1, CountType DEF TypeOK
  <2>5. QED
    BY <2>2, <2>3, <2>4, CountType DEF CountKept, Count
<1>2. CASE g # call[p].gen
  <2>1. p \notin Publishing(g)
    BY <1>2 DEF Publishing
  <2>2. Cardinality(Publishing(g)') = Cardinality(Publishing(g))
    BY <2>1, PublishingMoves
  <2>3. effects'[g] = effects[g]
    BY <1>2 DEF TypeOK
  <2>4. QED
    BY <2>2, <2>3, CountType DEF CountKept, Count
<1>3. QED
  BY <1>1, <1>2

\* The calls a publisher may be in.
LEMMA CallTypes ==
  ASSUME TypeOK, NEW p \in Publishers
  PROVE  /\ Idle \in Call /\ Idle.step = "idle"
         /\ \A step \in {"selected", "accepted", "rejected", "refused"},
              g \in Generations \cup {call[p].gen} :
                [step |-> step, gen |-> g] \in Call
  BY BoundsAssumption DEF TypeOK, Idle, Call, Generations

\* A step keeps the count of effects, or raises it by one together with the attempts.
LEMMA CountStep ==
  ASSUME TypeOK, EffectsCounted, [Next]_vars, NEW g \in Generations
  PROVE  CountKept(g) \/ CountLeased(g)
<1>1. CASE UNCHANGED <<call, effects>>
  <2>1. Publishing(g)' = Publishing(g)
    BY <1>1 DEF Publishing
  <2>2. QED
    BY <1>1, <2>1, CountType DEF CountKept, Count
<1>2. ASSUME NEW p \in Publishers, NEW h \in Generations, Select(p, h)
      PROVE  CountKept(g)
  <2> DEFINE c == [step |-> "selected", gen |-> h]
  <2>1. c \in Call /\ c.step # "publishing"
    BY CallTypes
  <2>2. call' = [call EXCEPT ![p] = c] /\ effects' = effects /\ call[p].step # "publishing"
    BY <1>2 DEF Select, Move
  <2> HIDE DEF c
  <2>3. QED
    BY <2>1, <2>2, IdleMove
<1>3. ASSUME NEW p \in Publishers, ClaimForPublish(p)
      PROVE  CountKept(g) \/ CountLeased(g)
  <2> DEFINE g0 == call[p].gen
  <2>1. call[p].step # "publishing" /\ effects' = effects /\ call[p].step # "idle"
    BY <1>3 DEF ClaimForPublish
  <2>2. g0 \in 1..latest /\ g0 \in Generations
    BY <2>1, BoundsAssumption DEF EffectsCounted, TypeOK, Generations
  <2>3. CASE call' = [call EXCEPT ![p] = Idle]
    BY <2>1, <2>3, CallTypes, IdleMove
  <2>4. CASE /\ wakeup' = [wakeup EXCEPT ![g0] = Leased(wakeup[g0], p)]
             /\ Move(p, "publishing", g0)
    <3>1. IF g = g0 THEN Count(g)' = Count(g) + 1 ELSE CountKept(g)
      BY <2>1, <2>2, <2>4, LeaseMove
    <3>2. wakeup'[g0].attempts = wakeup[g0].attempts + 1
      BY <2>2, <2>4, LeasedType DEF TypeOK
    <3>3. QED
      BY <2>2, <3>1, <3>2 DEF CountLeased, Exists
  <2>5. QED
    BY <1>3, <2>3, <2>4 DEF ClaimForPublish
<1>4. ASSUME NEW p \in Publishers, Sweep(p), ~UNCHANGED call
      PROVE  CountKept(g) \/ CountLeased(g)
  <2>1. PICK g0 \in Generations :
          /\ Sweepable(g0)
          /\ wakeup' = [SpentRows EXCEPT ![g0] = Leased(SpentRows[g0], p)]
          /\ Move(p, "publishing", g0)
    BY <1>4 DEF Sweep
  <2>2. call[p].step # "publishing" /\ effects' = effects
    BY <1>4 DEF Sweep
  <2>3. IF g = g0 THEN Count(g)' = Count(g) + 1 ELSE CountKept(g)
    BY <2>1, <2>2, LeaseMove
  <2>4. /\ SpentRows \in [Generations -> Row]
        /\ SpentRows[g0].attempts = wakeup[g0].attempts
    BY SpentRowsType DEF TypeOK
  <2>5. wakeup'[g0].attempts = wakeup[g0].attempts + 1
    BY <2>1, <2>4, LeasedType
  <2>6. Exists(g0)
    BY <2>1 DEF Sweepable, Takeable
  <2>7. QED
    BY <2>3, <2>5, <2>6 DEF CountLeased
<1>5. ASSUME NEW p \in Publishers, Publish(p) PROVE CountKept(g)
  <2>1. PICK step \in {"accepted", "rejected", "refused"} :
          call' = [call EXCEPT ![p] = [step |-> step, gen |-> call[p].gen]]
    BY <1>5 DEF Publish, Move
  <2> DEFINE c == [step |-> step, gen |-> call[p].gen]
  <2>2. c \in Call /\ c.step # "publishing"
    BY CallTypes
  <2>3. /\ call[p].step = "publishing"
        /\ effects' = [effects EXCEPT ![call[p].gen] = effects[call[p].gen] + 1]
    BY <1>5 DEF Publish
  <2>4. call' = [call EXCEPT ![p] = c]
    BY <2>1
  <2> HIDE DEF c
  <2>5. QED
    BY <2>2, <2>3, <2>4, FinishMove
<1>6. ASSUME NEW p \in Publishers, MarkPublished(p) \/ MarkPublishFailed(p)
      PROVE  CountKept(g)
  <2>1. /\ call' = [call EXCEPT ![p] = Idle] /\ effects' = effects
        /\ call[p].step # "publishing"
    BY <1>6 DEF MarkPublished, MarkPublishFailed
  <2>2. QED
    BY <2>1, CallTypes, IdleMove
<1>7. ASSUME NEW p \in Publishers, Abandon(p) PROVE CountKept(g)
  <2>1. call' = [call EXCEPT ![p] = Idle]
    BY <1>7 DEF Abandon
  <2>2. CASE call[p].step = "publishing"
    <3>1. effects' \in {effects, [effects EXCEPT ![call[p].gen] = effects[call[p].gen] + 1]}
      BY <1>7 DEF Abandon
    <3>2. QED
      BY <2>1, <2>2, <3>1, CallTypes, FinishMove
  <2>3. CASE call[p].step # "publishing"
    <3>1. effects' = effects
      BY <1>7, <2>3 DEF Abandon
    <3>2. QED
      BY <2>1, <2>3, <3>1, CallTypes, IdleMove
  <2>4. QED
    BY <2>2, <2>3
<1>8. \/ UNCHANGED <<call, effects>>
      \/ \E p \in Publishers :
            \/ \E h \in Generations : Select(p, h)
            \/ ClaimForPublish(p) \/ Sweep(p) \/ Publish(p)
            \/ MarkPublished(p) \/ MarkPublishFailed(p) \/ Abandon(p)
  BY DEF Next, Reconciles, PublisherStep, Reconcile, Cancel, Interrupt, Deliver, Replay,
         RollBack, BecomeDue, LeaseExpires, vars
<1>9. QED
  BY <1>1, <1>2, <1>3, <1>4, <1>5, <1>6, <1>7, <1>8 DEF Sweep

\* Publishers work on, and the provider is asked for, existing generations only.
LEMMA KnownStep ==
  ASSUME TypeOK, EffectsCounted, [Next]_vars, latest' \in {latest, latest + 1}
  PROVE  /\ \A p \in Publishers : call'[p].step # "idle" => call'[p].gen \in 1..latest'
         /\ \A g \in Generations : g > latest' => effects'[g] = 0
<1>0. /\ latest \in Nat /\ call \in [Publishers -> Call] /\ effects \in [Generations -> Nat]
      /\ \A p \in Publishers : call[p].step # "idle" => call[p].gen \in 1..latest
      /\ \A g \in Generations : g > latest => effects[g] = 0
      /\ 1..latest \subseteq 1..latest'
      /\ \A g \in Generations : g > latest' => g > latest
  BY BoundsAssumption DEF TypeOK, Generations, EffectsCounted
<1>1. CASE UNCHANGED <<call, effects>>
  BY <1>0, <1>1
<1>2. ASSUME NEW p \in Publishers, NEW step, NEW g \in 1..latest,
             Move(p, step, g), effects' = effects
      PROVE  /\ \A q \in Publishers : call'[q].step # "idle" => call'[q].gen \in 1..latest'
             /\ \A h \in Generations : h > latest' => effects'[h] = 0
  <2>1. \A q \in Publishers : call'[q] = IF q = p THEN [step |-> step, gen |-> g] ELSE call[q]
    BY <1>0, <1>2 DEF Move
  <2>2. QED
    BY <1>0, <1>2, <2>1
<1>3. ASSUME NEW p \in Publishers, call' = [call EXCEPT ![p] = Idle],
             call[p].step # "idle",
             effects' \in {effects, [effects EXCEPT ![call[p].gen] = effects[call[p].gen] + 1]}
      PROVE  /\ \A q \in Publishers : call'[q].step # "idle" => call'[q].gen \in 1..latest'
             /\ \A h \in Generations : h > latest' => effects'[h] = 0
  <2>1. \A q \in Publishers : call'[q].step # "idle" => call'[q] = call[q]
    BY <1>0, <1>3 DEF Idle
  <2>2. \A h \in Generations : h > latest => effects'[h] = effects[h]
    BY <1>0, <1>3
  <2>3. QED
    BY <1>0, <2>1, <2>2
<1>4. ASSUME NEW p \in Publishers, NEW g \in Generations, Select(p, g)
      PROVE  g \in 1..latest /\ Move(p, "selected", g) /\ effects' = effects
  BY <1>4 DEF Select, Exists
<1>5. ASSUME NEW p \in Publishers, ClaimForPublish(p)
      PROVE  /\ call[p].step # "idle" /\ effects' = effects
             /\ \/ call' = [call EXCEPT ![p] = Idle]
                \/ Move(p, "publishing", call[p].gen)
  BY <1>5 DEF ClaimForPublish
<1>6. ASSUME NEW p \in Publishers, Sweep(p)
      PROVE  /\ effects' = effects
             /\ \/ call' = call
                \/ \E g \in 1..latest : Move(p, "publishing", g)
  BY <1>6 DEF Sweep, Sweepable, Takeable, Exists
<1>7. ASSUME NEW p \in Publishers, Publish(p)
      PROVE  /\ \A q \in Publishers : call'[q].step # "idle" => call'[q].gen \in 1..latest'
             /\ \A h \in Generations : h > latest' => effects'[h] = 0
  <2>1. /\ call[p].step # "idle"
        /\ effects' = [effects EXCEPT ![call[p].gen] = effects[call[p].gen] + 1]
        /\ \E step \in {"accepted", "rejected", "refused"} : Move(p, step, call[p].gen)
    BY <1>7 DEF Publish
  <2>2. \A h \in Generations : h > latest => effects'[h] = effects[h]
    BY <1>0, <2>1
  <2>3. \A q \in Publishers : call'[q].gen = call[q].gen /\ (q # p => call'[q] = call[q])
    BY <1>0, <2>1 DEF Move
  <2>4. QED
    BY <1>0, <2>1, <2>2, <2>3
<1>8. ASSUME NEW p \in Publishers, MarkPublished(p) \/ MarkPublishFailed(p)
      PROVE  call' = [call EXCEPT ![p] = Idle] /\ call[p].step # "idle" /\ effects' = effects
  BY <1>8 DEF MarkPublished, MarkPublishFailed
<1>9. ASSUME NEW p \in Publishers, Abandon(p)
      PROVE  /\ call' = [call EXCEPT ![p] = Idle] /\ call[p].step # "idle"
             /\ effects' \in {effects, [effects EXCEPT ![call[p].gen] = effects[call[p].gen] + 1]}
  BY <1>9 DEF Abandon
<1>10. ASSUME NEW p \in Publishers, PublisherStep(p)
       PROVE  /\ \A q \in Publishers : call'[q].step # "idle" => call'[q].gen \in 1..latest'
              /\ \A h \in Generations : h > latest' => effects'[h] = 0
  <2>1. CASE \E g \in Generations : Select(p, g)
    BY <1>2, <1>4, <2>1
  <2>2. CASE ClaimForPublish(p)
    BY <1>0, <1>2, <1>3, <1>5, <2>2
  <2>3. CASE Sweep(p)
    BY <1>1, <1>2, <1>6, <2>3
  <2>4. CASE MarkPublished(p) \/ MarkPublishFailed(p)
    BY <1>3, <1>8, <2>4
  <2>5. CASE Abandon(p)
    BY <1>3, <1>9, <2>5
  <2>6. QED
    BY <1>7, <1>10, <2>1, <2>2, <2>3, <2>4, <2>5 DEF PublisherStep
<1>11. UNCHANGED <<call, effects>> \/ \E p \in Publishers : PublisherStep(p)
  BY DEF Next, Reconciles, Reconcile, Cancel, Interrupt, Deliver, Replay,
         RollBack, BecomeDue, LeaseExpires, vars
<1>12. QED
  BY <1>1, <1>10, <1>11

\* Every step keeps the provider effects within the attempts the row records.
LEMMA EffectsCountedStep ==
  ASSUME TypeOK, EffectsCounted, [Next]_vars, latest' \in {latest, latest + 1}
  PROVE  EffectsCounted'
<1>1. ASSUME NEW g \in Generations
      PROVE  Count(g)' <= wakeup'[g].attempts
  <2>1. TypeOK'
    BY TypeStep
  <2>2. Count(g)' \in Nat
    BY <2>1, CountTypeNext
  <2>3. /\ Count(g) \in Nat /\ wakeup[g].attempts \in Nat
        /\ Count(g) <= wakeup[g].attempts
    BY CountType DEF EffectsCounted, Count, TypeOK, Row
  <2>4. CASE Exists(g)
    BY <2>2, <2>3, <2>4, CountStep, AttemptsStep DEF CountKept, CountLeased
  <2>5. CASE ~Exists(g)
    <3>1. g > latest /\ effects[g] = 0
      BY <2>5, BoundsAssumption DEF Exists, EffectsCounted, TypeOK, Generations
    <3>2. Publishing(g) = {}
      BY <2>5 DEF Publishing, EffectsCounted, Exists
    <3>3. Count(g) = 0
      BY <3>1, <3>2, FS_EmptySet DEF Count
    <3>4. CountKept(g)
      BY <2>5, CountStep DEF CountLeased
    <3>5. QED
      BY <2>2, <3>3, <3>4, AttemptsStep DEF CountKept
  <2>6. QED
    BY <2>4, <2>5
<1>2. QED
  BY <1>1, AttemptsStep, KnownStep DEF EffectsCounted, Count

-----------------------------------------------------------------------------
(* The inductive invariant and the theorems *)

\* CurrentGeneration and LeasedWhilePublishing are inductive given the types;
\* DrainedOnce and BoundedProviderEffects need to know where the drain and the
\* attempts are recorded in the row.
IInv ==
    /\ TypeOK
    /\ CurrentGeneration
    /\ LeasedWhilePublishing
    /\ DrainsClaimed
    /\ EffectsCounted

\* The inductive invariant holds at the start.
LEMMA InitIInv == Init => IInv
<1> SUFFICES ASSUME Init PROVE IInv
  OBVIOUS
<1>1. TypeOK
  <2>1. NewRow(TRUE) \in Row
    BY NewRowType
  <2>2. Idle \in Call
    BY BoundsAssumption DEF Idle, Call
  <2>3. 1 \in Generations
    BY BoundsAssumption DEF Generations
  <2>4. wakeup \in [Generations -> Row] /\ call \in [Publishers -> Call]
    BY <2>1, <2>2 DEF Init
  <2>5. /\ inFlight \in [Generations -> 0..MaxDeliveries]
        /\ effects \in [Generations -> Nat]
        /\ drains \in [Generations -> Nat]
    BY BoundsAssumption DEF Init
  <2>6. QED
    BY <2>3, <2>4, <2>5 DEF Init, TypeOK
<1>2. \A g \in Generations : /\ wakeup[g].state = "pending" /\ wakeup[g].owner = NoOne
                             /\ wakeup[g].attempts = 0 /\ effects[g] = 0 /\ drains[g] = 0
  BY DEF Init, NewRow
<1>3. CurrentGeneration
  BY DEF Init, CurrentGeneration, Exists
<1>4. LeasedWhilePublishing
  BY <1>2 DEF LeasedWhilePublishing
<1>5. DrainsClaimed
  BY <1>2 DEF DrainsClaimed
<1>6. EffectsCounted
  <2>1. \A g : Publishing(g) = {}
    BY DEF Publishing, Init, Idle
  <2>2. \A g \in Generations : Cardinality(Publishing(g)) = 0
    BY <2>1, FS_EmptySet
  <2>3. \A g \in Generations :
          /\ effects[g] + Cardinality(Publishing(g)) <= wakeup[g].attempts
          /\ wakeup[g].attempts <= MaxPublishAttempts
          /\ g > latest => effects[g] = 0
    BY <1>2, <2>2, BoundsAssumption
  <2>4. \A p \in Publishers : call[p].step = "idle"
    BY DEF Init, Idle
  <2>5. QED
    BY <2>3, <2>4 DEF EffectsCounted
<1>7. QED
  BY <1>1, <1>3, <1>4, <1>5, <1>6 DEF IInv

\* And every step keeps it.
LEMMA NextIInv == IInv /\ [Next]_vars => IInv'
<1> SUFFICES ASSUME IInv, [Next]_vars PROVE IInv'
  OBVIOUS
<1>1. TypeOK /\ CurrentGeneration /\ LeasedWhilePublishing /\ DrainsClaimed /\ EffectsCounted
  BY DEF IInv
<1>2. latest' \in {latest, latest + 1}
  BY <1>1, LatestStep
<1>3. TypeOK' /\ CurrentGeneration'
  BY <1>1, TypeStep, CurrentGenerationStep
<1>4. LeasedWhilePublishing'
  BY <1>1, <1>2, LeasedWhilePublishingStep
<1>5. DrainsClaimed'
  BY <1>1, <1>2, DrainsClaimedStep
<1>6. EffectsCounted'
  BY <1>1, <1>2, EffectsCountedStep
<1>7. QED
  BY <1>3, <1>4, <1>5, <1>6 DEF IInv

\* The strengthened invariant holds of every reachable state.
THEOREM IInvHolds == Spec => []IInv
  BY InitIInv, NextIInv, PTL DEF Spec

\* Every variable keeps the type its declaration describes, the row's record
\* included, for every number of publishers, generations and attempts.
THEOREM TypeCorrect == Spec => []TypeOK
<1>1. IInv => TypeOK
  BY DEF IInv
<1>2. QED
  BY <1>1, IInvHolds, PTL

\* A deployment never has two wakeups that can still be published, delivered or
\* replayed, however writers, publishers and deliveries interleave.
THEOREM OneCurrentGeneration == Spec => []CurrentGeneration
<1>1. IInv => CurrentGeneration
  BY DEF IInv
<1>2. QED
  BY <1>1, IInvHolds, PTL

\* No path out of "publishing" leaves a publication lease behind.
THEOREM LeaseIffPublishing == Spec => []LeasedWhilePublishing
<1>1. IInv => LeasedWhilePublishing
  BY DEF IInv
<1>2. QED
  BY <1>1, IInvHolds, PTL

\* The provider's repeated deliveries of a generation drain it at most once.
THEOREM DrainsAtMostOnce == Spec => []DrainedOnce
<1>1. IInv => DrainedOnce
  <2>1. SUFFICES ASSUME IInv, NEW g \in Generations PROVE drains[g] <= 1
    BY DEF DrainedOnce
  <2>2. drains[g] \in Nat
    BY <2>1 DEF IInv, TypeOK
  <2>3. QED
    BY <2>1, <2>2 DEF IInv, DrainsClaimed
<1>2. QED
  BY <1>1, IInvHolds, PTL

\* The provider is asked at most as often as the attempts bound, for any number of
\* overlapping, aborted and crashed invocations: each effect was paid for by the
\* attempt counted when the row was leased.
THEOREM EffectsBounded == Spec => []BoundedProviderEffects
<1>1. IInv => BoundedProviderEffects
  <2>1. SUFFICES ASSUME IInv, NEW g \in Generations PROVE effects[g] <= MaxPublishAttempts
    BY DEF BoundedProviderEffects
  <2>2. /\ effects[g] \in Nat /\ wakeup[g].attempts \in Nat
        /\ MaxPublishAttempts \in Nat
    BY <2>1, BoundsAssumption DEF IInv, TypeOK, Row
  <2>3. Cardinality(Publishing(g)) \in Nat
    BY PublishingFinite
  <2>4. /\ effects[g] + Cardinality(Publishing(g)) <= wakeup[g].attempts
        /\ wakeup[g].attempts <= MaxPublishAttempts
    BY <2>1 DEF IInv, EffectsCounted
  <2>5. QED
    BY <2>2, <2>3, <2>4
<1>2. QED
  BY <1>1, IInvHolds, PTL

\* No step revives a claimed or terminal generation.
THEOREM SettledStaysSettled == Spec => SettledRowsAreFinal
<1>1. TypeOK /\ [Next]_vars =>
        [\A g \in Generations :
           Exists(g) /\ wakeup[g].state \in {"claimed", "terminal"} =>
              wakeup'[g].state = wakeup[g].state]_vars
  BY SettledStep
<1>2. QED
  BY <1>1, TypeCorrect, PTL DEF Spec, SettledRowsAreFinal

\* Only a claimable delivery to an active deployment drains it.
THEOREM StaleNeverDrains == Spec => NoStaleDrain
<1>1. TypeOK /\ [Next]_vars =>
        [\A g \in Generations :
           drains'[g] # drains[g] =>
              wakeup[g].due /\ stage = "active" /\ \A h \in Generations : h > g => ~Exists(h)]_vars
  <2> SUFFICES ASSUME TypeOK, [Next]_vars, NEW g \in Generations, drains'[g] # drains[g]
               PROVE  wakeup[g].due /\ stage = "active" /\ \A h \in Generations : h > g => ~Exists(h)
    OBVIOUS
  <2>1. PICK h \in Generations, acknowledged \in BOOLEAN : Deliver(h, acknowledged)
    BY DEF Next, Reconciles, PublisherStep, Reconcile, Cancel, Interrupt, Select,
           ClaimForPublish, Sweep, Publish, MarkPublished, MarkPublishFailed, Abandon, Replay,
           RollBack, BecomeDue, LeaseExpires, vars
  <2>2. /\ Claimable(h) /\ stage = "active"
        /\ drains' = [drains EXCEPT ![h] = drains[h] + 1]
    BY <2>1 DEF Deliver
  <2>3. g = h
    BY <2>2 DEF TypeOK
  <2>4. wakeup[g].due /\ g = latest
    BY <2>2, <2>3 DEF Claimable
  <2>5. \A k \in Generations : k > g => ~Exists(k)
    <3>1. latest \in Nat /\ Generations \subseteq Nat
      BY BoundsAssumption DEF Generations, TypeOK
    <3>2. QED
      BY <2>4, <3>1 DEF Exists
  <2>6. QED
    BY <2>2, <2>4, <2>5
<1>2. QED
  BY <1>1, TypeCorrect, PTL DEF Spec, NoStaleDrain

-----------------------------------------------------------------------------
(* Who publishes, and what follows an exhausted generation *)

\* No write but the completion of a publication makes a leased row published.
LEMMA OnlyCompletionPublishes ==
  ASSUME TypeOK, [Next]_vars, NEW g \in Generations,
         wakeup[g].state = "publishing", wakeup'[g].state = "published"
  PROVE  \E p \in Publishers : MarkPublished(p)
<1>1. /\ wakeup \in [Generations -> Row] /\ wakeup[g] \in Row
      /\ \A due \in BOOLEAN : NewRow(due).state = "pending"
      /\ \A row \in Row : \A s \in WakeupState : Released(row, s).state = s
      /\ \A row \in Row : \A p \in Publishers : Leased(row, p).state = "publishing"
  BY NewRowType, ReleasedType, LeasedType DEF TypeOK, NewRow
<1>2. Terminalized[g].state # "published"
  BY <1>1, TerminalizedType
<1>3. ASSUME NEW due \in BOOLEAN, Reconcile(due) PROVE FALSE
  <2>1. Terminalized \in [Generations -> Row]
    BY <1>1, TerminalizedType
  <2>2. wakeup' = Terminalized \/ wakeup' = [Terminalized EXCEPT ![latest + 1] = NewRow(due)]
    BY <1>3 DEF Reconcile, Replace
  <2>3. wakeup'[g] = Terminalized[g] \/ wakeup'[g] = NewRow(due)
    BY <2>1, <2>2
  <2>4. QED
    BY <1>1, <1>2, <2>3
<1>4. ASSUME NEW next \in {"active", "terminal"}, Cancel(next) PROVE FALSE
  BY <1>2, <1>4 DEF Cancel
<1>5. ASSUME NEW p \in Publishers, ClaimForPublish(p) PROVE FALSE
  <2> DEFINE h == call[p].gen
  <2>1. \/ wakeup' = wakeup
        \/ /\ wakeup[h].state \in Publishable
           /\ \/ wakeup' = [wakeup EXCEPT ![h] = Leased(wakeup[h], p)]
              \/ wakeup' = [wakeup EXCEPT ![h] = Released(wakeup[h], "exhausted")]
    BY <1>5 DEF ClaimForPublish
  <2>2. QED
    BY <1>1, <2>1 DEF WakeupState
<1>6. ASSUME NEW p \in Publishers, Sweep(p) PROVE FALSE
  <2>1. SpentRows \in [Generations -> Row] /\ SpentRows[g].state \in {"publishing", "exhausted"}
    BY <1>1, SpentRowsType
  <2>2. \/ wakeup' = SpentRows
        \/ \E h \in Generations : wakeup' = [SpentRows EXCEPT ![h] = Leased(SpentRows[h], p)]
    BY <1>6 DEF Sweep
  <2>3. QED
    BY <1>1, <2>1, <2>2
<1>7. ASSUME NEW p \in Publishers, MarkPublishFailed(p) PROVE FALSE
  <2> DEFINE h == call[p].gen
  <2>1. \/ wakeup' = wakeup
        \/ \E s \in {"exhausted", "failed"} : wakeup' = [wakeup EXCEPT ![h] = Released(wakeup[h], s)]
    BY <1>7 DEF MarkPublishFailed
  <2>2. QED
    BY <1>1, <2>1 DEF WakeupState
<1>8. ASSUME NEW h \in Generations, NEW acknowledged \in BOOLEAN, Deliver(h, acknowledged)
      PROVE  FALSE
  <2>1. wakeup' = wakeup \/ wakeup' = [wakeup EXCEPT ![h] = Released(wakeup[h], "claimed")]
    BY <1>8 DEF Deliver
  <2>2. QED
    BY <1>1, <2>1 DEF WakeupState
<1>9. ASSUME NEW h \in Generations, Replay(h) PROVE FALSE
  <2>1. wakeup'[g] \in {wakeup[g], Released(wakeup[h], "terminal"), NewRow(TRUE)}
    BY <1>1, <1>9 DEF Replay
  <2>2. QED
    BY <1>1, <2>1 DEF WakeupState
<1>10. ASSUME NEW h \in Generations, BecomeDue(h) \/ LeaseExpires(h) PROVE FALSE
  <2>1. \/ wakeup' = [wakeup EXCEPT ![h] = [wakeup[h] EXCEPT !.due = TRUE]]
        \/ wakeup' = [wakeup EXCEPT ![h] = [wakeup[h] EXCEPT !.expired = TRUE]]
    BY <1>10 DEF BecomeDue, LeaseExpires
  <2>2. wakeup[h] \in Row
    BY <1>1
  <2>3. /\ [wakeup[h] EXCEPT !.due = TRUE].state = wakeup[h].state
        /\ [wakeup[h] EXCEPT !.expired = TRUE].state = wakeup[h].state
    BY <2>2 DEF Row
  <2>4. wakeup'[g] \in {wakeup[g], [wakeup[h] EXCEPT !.due = TRUE], [wakeup[h] EXCEPT !.expired = TRUE]}
        /\ (g = h \/ wakeup'[g] = wakeup[g])
    BY <1>1, <2>1
  <2>5. QED
    BY <2>3, <2>4
<1>11. ASSUME UNCHANGED wakeup PROVE FALSE
  BY <1>11
<1>12. \/ UNCHANGED wakeup
       \/ \E p \in Publishers : MarkPublished(p)
       \/ \E due \in BOOLEAN : Reconcile(due)
       \/ \E next \in {"active", "terminal"} : Cancel(next)
       \/ \E p \in Publishers : ClaimForPublish(p) \/ Sweep(p) \/ MarkPublishFailed(p)
       \/ \E h \in Generations, acknowledged \in BOOLEAN : Deliver(h, acknowledged)
       \/ \E h \in Generations : Replay(h) \/ BecomeDue(h) \/ LeaseExpires(h)
  BY DEF Next, Reconciles, PublisherStep, Interrupt, Select, Publish, Abandon, RollBack, vars
<1>13. QED
  BY <1>3, <1>4, <1>5, <1>6, <1>7, <1>8, <1>9, <1>10, <1>11, <1>12

\* A row becomes published only through the invocation that leases it and that the
\* provider answered: one that lost its lease, or whose generation was replaced,
\* completes nothing, for any number of overlapping invocations.
THEOREM HolderPublishes == Spec => OnlyLeaseHolderPublishes
<1>1. ASSUME TypeOK, [Next]_vars, NEW g \in Generations,
             wakeup[g].state = "publishing", wakeup'[g].state = "published"
      PROVE  \E p \in Publishers :
                wakeup[g].owner = p /\ call[p] = [step |-> "accepted", gen |-> g]
  <2>1. PICK p \in Publishers : MarkPublished(p)
    BY <1>1, OnlyCompletionPublishes
  <2>2. /\ OwnsLease(p, call[p].gen) /\ call[p].step = "accepted"
        /\ wakeup' = [wakeup EXCEPT ![call[p].gen] = Released(wakeup[call[p].gen], "published")]
    BY <1>1, <2>1 DEF MarkPublished
  <2>3. g = call[p].gen
    BY <1>1, <2>2 DEF TypeOK
  <2>4. call[p] \in Call
    BY <1>1 DEF TypeOK
  <2>5. call[p] = [step |-> "accepted", gen |-> g]
    BY <2>2, <2>3, <2>4 DEF Call
  <2>6. QED
    BY <2>2, <2>3, <2>5 DEF OwnsLease
<1>2. TypeOK /\ [Next]_vars =>
        [\A g \in Generations :
           wakeup[g].state = "publishing" /\ wakeup'[g].state = "published" =>
              \E p \in Publishers :
                  /\ wakeup[g].owner = p
                  /\ call[p] = [step |-> "accepted", gen |-> g]]_vars
  BY <1>1
<1>3. QED
  BY <1>2, TypeCorrect, PTL DEF Spec, OnlyLeaseHolderPublishes

\* Nothing but its replay by an operator, while the deployment is active, follows an
\* exhausted generation: a reconciler's write then inserts no wakeup.
THEOREM ExhaustedIsReplayed == Spec => ExhaustedNeedsReplay
<1>1. ASSUME TypeOK, [Next]_vars, AnyExhausted, latest' # latest
      PROVE  /\ stage = "active"
             /\ wakeup[latest].state = "exhausted"
             /\ wakeup'[latest].state = "terminal"
  <2>1. PICK g \in Generations : Replay(g)
    BY <1>1 DEF Next, Reconciles, PublisherStep, Reconcile, Replace, Cancel, Interrupt, Select,
       ClaimForPublish, Sweep, Publish, MarkPublished, MarkPublishFailed, Abandon, Deliver,
       RollBack, BecomeDue, LeaseExpires, vars
  <2>2. /\ stage = "active" /\ g = latest /\ wakeup[g].state = "exhausted"
        /\ wakeup' = [wakeup EXCEPT ![g] = Released(wakeup[g], "terminal"), ![g + 1] = NewRow(TRUE)]
    BY <2>1 DEF Replay
  <2>3. g # g + 1 /\ wakeup \in [Generations -> Row]
    BY <1>1, BoundsAssumption DEF TypeOK, Generations
  <2>4. wakeup'[g] = Released(wakeup[g], "terminal")
    BY <2>2, <2>3
  <2>5. wakeup'[g].state = "terminal"
    BY <2>3, <2>4, ReleasedType DEF WakeupState
  <2>6. QED
    BY <2>2, <2>5
<1>2. TypeOK /\ [Next]_vars =>
        [AnyExhausted /\ latest' # latest =>
           /\ stage = "active"
           /\ wakeup[latest].state = "exhausted"
           /\ wakeup'[latest].state = "terminal"]_vars
  BY <1>1
<1>3. QED
  BY <1>2, TypeCorrect, PTL DEF Spec, ExhaustedNeedsReplay

=============================================================================
