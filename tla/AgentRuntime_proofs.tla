-------------------------- MODULE AgentRuntime_proofs --------------------------
(***************************************************************************)
(* Theorems of AgentRuntime for any number of workers, requests, faults    *)
(* and operations.  The invariant behind them: a worker that is at work    *)
(* and still has the lease holds the row, the wish and the runner as they  *)
(* are, and what it was answered fits what it asked.                       *)
(***************************************************************************)
EXTENDS AgentRuntime, TLAPS

(* What each effect may be answered. *)
Observed == {"unreachable", "unknown", "starting", "ready", "restarted", "down", "mismatch",
             "sick", "mute"}
AnswersTo(effect) ==
    CASE effect = "write"    -> {"planned"}
      [] effect = "observe"  -> Observed
      [] effect = "stop"     -> {"stopped", "unconfirmed"}
      [] effect = "start"    -> {"accepted", "launched", "refused", "capacity", "unlaunchable"}
      [] effect = "diagnose" -> {"clear", "conflict", "uncertain", "unlaunchable"}

\* An open circuit is being cleaned up, or is.
Confined(r) ==
    /\ r.circuit => r.state \in {"stopping", "circuit_open"}
    /\ r.state = "circuit_open" => r.circuit

\* A claim is of a row that was due, and a ready container is the claim's own.
Evidence(r, wish, got) ==
    /\ r.state \notin Settled /\ Confined(r)
    /\ wish = "stopped" => r.state = "stopping"
    /\ got.kind \in AnswersTo(Effect(r, wish)) \cup {"unavailable"}
    /\ got.kind \in {"ready", "restarted"} =>
         got.rev = r.rev /\ (r.op # 0 => got.op = r.op)

\* How a phase may change while the owner asks for nothing.
Moves(wish, p, q) ==
    \/ p = q
    \/ wish = "running" /\ p = "launching" /\ q = "served"
    \/ wish = "running" /\ p \in {"served", "launching"} /\ q \in {"ending", "launching"}
    \/ wish = "running" /\ p \in {"served", "launching", "ending"} /\ q = "failing"
    \/ p = "ending" /\ q = IF wish = "running" THEN "launching" ELSE "down"
    \/ p = "failing" /\ q = IF wish = "running" THEN "failed" ELSE "ending"

\* What is true of whatever a worker may write.
Allowed(r, wish, got, o) ==
    /\ o.row \in Rows /\ o.status \in Statuses /\ o.usage \in {"open", "closed", "kept"}
    /\ Confined(o.row)
    /\ wish = "stopped" => o.row.state \in {"stopping", "stopped"}
    /\ o.status = "stopped" => wish = "stopped" /\ o.row.state = "stopped" /\ o.usage = "closed"
    /\ o.row.state = "verifying" =>
         o.usage = "closed" \/ (r.state = "verifying" /\ o.usage = "kept")
    /\ o.status = "running" /\ ~o.row.circuit => got.rev = o.row.rev /\ got.op = o.row.op
    /\ Moves(wish, PhaseOf(r), PhaseOf(o.row))

LEMMA Zero == 0 \in 0..MaxAttempts
  BY RuntimeAssumption DEF RuntimeAssumption

\* The phase of a row, state by state.
LEMMA Phases ==
    ASSUME NEW r
    PROVE  /\ r.state = "observing" => PhaseOf(r) = "served"
           /\ r.state = "recovering_stop" => PhaseOf(r) = "ending"
           /\ r.state \in {"recovering_start", "verifying"} => PhaseOf(r) = "launching"
           /\ r.state = "stopping" => PhaseOf(r) = IF r.circuit THEN "failing" ELSE "ending"
           /\ r.state = "circuit_open" => PhaseOf(r) = "failed"
           /\ r.state = "stopped" => PhaseOf(r) = "down"
           /\ r.state = "absent" => PhaseOf(r) = "away"
  BY DEF PhaseOf

\* Giving up is allowed whenever the agent is to run.
LEMMA GivingUp ==
    ASSUME NEW r \in Rows, NEW wish, wish = "running", NEW got, r.state \notin Settled,
           Confined(r)
    PROVE  /\ Allowed(r, wish, got, GivenUp(r))
           /\ Tripped(r) \in Rows /\ PhaseOf(Tripped(r)) = "failing"
<1>1. Tripped(r) \in Rows
  BY DEF Tripped, Rows, States
<1>2. Tripped(r).state = "stopping" /\ Tripped(r).circuit
  BY DEF Tripped, Rows
<1>3. PhaseOf(Tripped(r)) = "failing"
  BY <1>2 DEF PhaseOf
<1>4. PhaseOf(r) \in {"served", "launching", "ending", "failing"}
  BY DEF PhaseOf, Rows, States, Settled
<1>5. Moves(wish, PhaseOf(r), "failing")
  BY <1>4 DEF Moves
<1> QED
  BY <1>1, <1>2, <1>3, <1>5 DEF Allowed, GivenUp, To, Statuses, Confined

\* A row that is persisted after a failure, or for another try.
LEMMA Persisting ==
    ASSUME NEW r \in Rows, NEW s \in Rows, NEW wish, NEW got, Confined(s),
           Moves(wish, PhaseOf(r), PhaseOf(s)),
           wish = "stopped" => s.state \in {"stopping", "stopped"}
    PROVE  Allowed(r, wish, got, Persist(s))
  BY DEF Allowed, Persist, To, Statuses

\* A try that changes no phase, and may have been the last.
LEMMA Trying ==
    ASSUME NEW r \in Rows, NEW s \in Rows, s.state = r.state, s.circuit = r.circuit,
           NEW wish, NEW got, wish = "running", r.state \notin Settled, Confined(r)
    PROVE  /\ Allowed(r, wish, got, Persist(s))
           /\ Allowed(r, wish, got, PersistOrGiveUp(s))
<1>1. PhaseOf(s) = PhaseOf(r) /\ Confined(s)
  BY DEF PhaseOf, Confined
<1>2. Allowed(r, wish, got, Persist(s))
  BY <1>1, Persisting DEF Moves
<1>3. Allowed(s, wish, got, GivenUp(s))
  BY <1>1, GivingUp
<1>4. Allowed(r, wish, got, GivenUp(s))
  BY <1>1, <1>3 DEF Allowed
<1> QED
  BY <1>2, <1>4 DEF PersistOrGiveUp

\* A recovery, which may be one too many.
LEMMA Recovering ==
    ASSUME NEW r \in Rows, NEW s \in Rows, s.state = r.state,
           s.circuit = r.circuit, NEW wish, NEW got, wish = "running",
           r.state \in {"observing", "verifying"}, Confined(r),
           NEW state \in {"recovering_stop", "recovering_start"}, NEW o \in Recovery(s, state)
    PROVE  Allowed(r, wish, got, o)
<1>1. PICK active \in {FALSE, s.window} : o = Recovered(s, state, active)
  BY DEF Recovery
<1>2. Allowed(s, wish, got, GivenUp(s)) /\ PhaseOf(s) = PhaseOf(r) /\ ~s.circuit
  BY GivingUp DEF Settled, Confined, PhaseOf
<1>3. Allowed(r, wish, got, GivenUp(s))
  BY <1>2 DEF Allowed
<1> DEFINE before == IF active THEN s.recoveries ELSE 0
<1> DEFINE next == [s EXCEPT !.state = state, !.recoveries = before + 1, !.window = TRUE,
                             !.steady = FALSE, !.op = 0]
<1>4. before + 1 \in Nat /\ state \in States
  BY DEF Rows, States
<1> HIDE DEF before
<1>5. next \in Rows
  BY <1>4 DEF Rows
<1>5a. next.state = state /\ next.circuit = s.circuit
  BY DEF Rows
<1> HIDE DEF next
<1>6. PhaseOf(r) \in {"served", "launching"} /\ PhaseOf(next) \in {"ending", "launching"}
  BY <1>5a, Phases
<1>7. Allowed(r, wish, got, Persist(next))
  BY <1>2, <1>5, <1>5a, <1>6, Persisting DEF Moves, Confined
<1>8. o = IF before >= MaxRecoveries THEN GivenUp(s) ELSE Persist(next)
  BY <1>1 DEF Recovered, before, next
<1> QED
  BY <1>3, <1>7, <1>8

\* An agent seen ready, after restarts by Docker or not.
LEMMA SeenReady ==
    ASSUME NEW r \in Rows, NEW wish, wish = "running", NEW got \in Replies,
           r.state \in {"observing", "verifying"}, ~r.circuit,
           got.kind \in {"ready", "restarted"},
           got.rev = r.rev, r.op # 0 => got.op = r.op, NEW o \in Outcomes(r, wish, got)
    PROVE  Allowed(r, wish, got, o)
<1> DEFINE s == Serving(r, got.op)
<1>1. (IF r.op = 0 THEN got.op ELSE r.op) = got.op /\ got.op \in Nat
  BY DEF Replies
<1>2. s = [r EXCEPT !.state = "observing", !.op = got.op, !.attempts = 0, !.steady = TRUE,
                    !.telegram = FALSE]
  BY <1>1 DEF Serving, Rows
<1>3. s \in Rows
  BY <1>1, <1>2, Zero DEF Rows, States
<1>4. s.state = "observing" /\ ~s.circuit /\ s.op = got.op /\ s.rev = got.rev
  BY <1>2 DEF Rows
<1> HIDE DEF s
<1>5. PhaseOf(r) \in {"served", "launching"}
  BY Phases
<1>6. CASE got.kind = "ready"
  <2>1. PICK stable \in {FALSE, r.steady} :
          o = To([s EXCEPT !.recoveries = IF stable THEN 0 ELSE @, !.window = @ /\ ~stable],
                 "running", "open")
    BY <1>6 DEF Outcomes, Served, s
  <2> DEFINE count == IF stable THEN 0 ELSE s.recoveries
  <2> DEFINE active == s.window /\ ~stable
  <2> DEFINE t == [s EXCEPT !.recoveries = count, !.window = active]
  <2>2. count \in Nat
    BY <1>3 DEF Rows
  <2>3. active \in BOOLEAN
    OBVIOUS
  <2>4. o = To(t, "running", "open")
    BY <2>1, <1>3 DEF Rows
  <2> HIDE DEF count, active
  <2>5. t \in Rows
    BY <1>3, <2>2, <2>3 DEF Rows
  <2>6. t.state = "observing" /\ ~t.circuit /\ t.op = got.op /\ t.rev = got.rev
    BY <1>3, <1>4 DEF Rows
  <2> HIDE DEF t
  <2>7. PhaseOf(t) = "served"
    BY <2>6, Phases
  <2> QED
    BY <1>5, <2>4, <2>5, <2>6, <2>7 DEF Allowed, To, Statuses, Confined, Moves
<1>7. CASE got.kind = "restarted"
  <2> DEFINE t == [s EXCEPT !.recoveries = @ + 1, !.window = TRUE]
  <2>1. o = IF t.recoveries >= MaxRecoveries THEN To(Tripped(t), "running", "closed")
                                             ELSE To(t, "running", "open")
    BY <1>7 DEF Outcomes, Restarted, s
  <2>2. s.recoveries + 1 \in Nat
    BY <1>3 DEF Rows
  <2>3. t \in Rows
    BY <1>3, <2>2 DEF Rows
  <2>4. t.state = "observing" /\ ~t.circuit /\ t.op = got.op /\ t.rev = got.rev
    BY <1>3, <1>4 DEF Rows
  <2> HIDE DEF t
  <2>5. PhaseOf(t) = "served"
    BY <2>4, Phases
  <2>6. Tripped(t) \in Rows /\ PhaseOf(Tripped(t)) = "failing"
    BY <2>3, <2>4, GivingUp DEF Settled, Confined
  <2>7. Tripped(t).state = "stopping" /\ Tripped(t).circuit
    BY <2>3 DEF Tripped, Rows
  <2> HIDE DEF Tripped
  <2> QED
    BY <1>5, <2>1, <2>3, <2>4, <2>5, <2>6, <2>7 DEF Allowed, To, Statuses, Confined, Moves
<1> QED
  BY <1>6, <1>7

\* What a worker asks tells what it claimed.
LEMMA Asked ==
    ASSUME NEW r \in Rows, NEW wish \in Wishes, r.state \notin Settled, Confined(r),
           wish = "stopped" => r.state = "stopping"
    PROVE  LET effect == Effect(r, wish) IN
             /\ effect \in {"write", "observe", "stop", "start", "diagnose"}
             /\ effect = "write" <=> Overruled(r, wish)
             /\ effect = "observe" =>
                  r.state \in {"observing", "verifying"} /\ wish = "running" /\ ~r.circuit
             /\ effect = "stop" => r.state \in {"stopping", "recovering_stop"}
             /\ effect = "start" => r.state = "recovering_start" /\ wish = "running"
             /\ effect = "diagnose" => r.state = "recovering_stop" /\ wish = "running"
<1>1. r.state \in {"observing", "recovering_stop", "recovering_start", "verifying", "stopping"}
  BY DEF Rows, States, Settled
<1>2. wish = "stopped" \/ wish = "running"
  BY DEF Wishes
<1>3. CASE Overruled(r, wish)
  BY <1>3 DEF Effect
<1>4. CASE ~Overruled(r, wish)
  <2>1. Effect(r, wish) = CASE r.state = "stopping"         -> "stop"
                            [] r.state = "recovering_stop"  -> IF r.telegram THEN "diagnose"
                                                                            ELSE "stop"
                            [] r.state = "recovering_start" -> "start"
                            [] OTHER                        -> "observe"
    BY <1>1, <1>4 DEF Effect
  <2> QED
    BY <1>1, <1>2, <1>4, <2>1 DEF Confined
<1> QED
  BY <1>3, <1>4

\* So does what it was answered.
LEMMA AnsweredTo ==
    ASSUME NEW r \in Rows, NEW wish \in Wishes, NEW got \in Replies, Evidence(r, wish, got)
    PROVE  LET kind == got.kind IN
             /\ kind = "planned" => Overruled(r, wish)
             /\ kind \in Observed =>
                  r.state \in {"observing", "verifying"} /\ wish = "running" /\ ~r.circuit
             /\ kind \in {"stopped", "unconfirmed"} =>
                  r.state \in {"stopping", "recovering_stop"} /\ ~Overruled(r, wish)
             /\ kind \in {"accepted", "launched", "refused", "capacity"} =>
                  r.state = "recovering_start" /\ wish = "running"
             /\ kind = "unlaunchable" =>
                  r.state \in {"recovering_start", "recovering_stop"} /\ wish = "running"
             /\ kind \in {"clear", "conflict", "uncertain"} =>
                  r.state = "recovering_stop" /\ wish = "running"
             /\ kind \in {"planned", "unavailable"} \cup Observed \cup {"stopped", "unconfirmed"}
                  \cup {"accepted", "launched", "refused", "capacity", "unlaunchable"}
                  \cup {"clear", "conflict", "uncertain"}
<1> DEFINE effect == Effect(r, wish)
<1>1. /\ effect \in {"write", "observe", "stop", "start", "diagnose"}
      /\ effect = "write" <=> Overruled(r, wish)
      /\ effect = "observe" =>
           r.state \in {"observing", "verifying"} /\ wish = "running" /\ ~r.circuit
      /\ effect = "stop" => r.state \in {"stopping", "recovering_stop"}
      /\ effect = "start" => r.state = "recovering_start" /\ wish = "running"
      /\ effect = "diagnose" => r.state = "recovering_stop" /\ wish = "running"
  BY Asked DEF Evidence
<1>2. got.kind \in AnswersTo(effect) \cup {"unavailable"}
  BY DEF Evidence
<1> HIDE DEF effect
<1> QED
  BY <1>1, <1>2 DEF AnswersTo, Observed

\* Whatever the answer, what follows from it is a row that may follow the claimed one.
LEMMA OutcomesAllowed ==
    ASSUME NEW r \in Rows, NEW wish \in Wishes, NEW got \in Replies,
           Evidence(r, wish, got), NEW o \in Outcomes(r, wish, got)
    PROVE  Allowed(r, wish, got, o)
<1>1. r.state \in {"observing", "recovering_stop", "recovering_start", "verifying", "stopping"}
  BY DEF Evidence, Rows, States, Settled
<1>2. CASE got.kind \in {"planned", "unavailable"}
  <2>1. CASE Overruled(r, wish)
    <3>1. wish = "stopped" /\ r.state = "stopping"
      BY <2>1 DEF Overruled, Evidence
    <3>2. Bumped(r).state = "stopping" /\ ~Bumped(r).circuit
      BY DEF Bumped, Rows
    <3>5. r.gen + 1 \in Nat
      BY DEF Rows
    <3>6. Bumped(r) \in Rows
      BY <3>5 DEF Bumped, Rows, States
    <3>3. PhaseOf(Bumped(r)) = "ending" /\ PhaseOf(r) \in {"ending", "failing"}
      BY <3>1, <3>2, Phases
    <3>4. o = To(Bumped(r), "restarting", "kept") \/ o = To(Bumped(r), "restarting", "closed")
      BY <1>2, <2>1, <3>1 DEF Outcomes, Planned
    <3> QED
      BY <3>1, <3>2, <3>3, <3>4, <3>6 DEF Allowed, To, Statuses, Confined, Moves
  <2>2. CASE ~Overruled(r, wish)
    <3>1. got.kind = "unavailable"
      BY <1>2, <2>2, AnsweredTo
    <3>2. o = To(r, "restarting", IF wish = "running" /\ r.circuit THEN "kept" ELSE "closed")
      BY <2>2, <3>1 DEF Outcomes, Planned
    <3> QED
      BY <3>2 DEF Allowed, To, Statuses, Confined, Moves, Evidence
  <2> QED
    BY <2>1, <2>2
<1>3. CASE got.kind \in Observed
  <2>1. r.state \in {"observing", "verifying"} /\ wish = "running" /\ ~r.circuit
    BY <1>3, AnsweredTo
  <2> DEFINE s == [r EXCEPT !.steady = FALSE]
  <2>6. s.state = r.state /\ s.circuit = r.circuit
    BY DEF Rows
  <2>7. s \in Rows
    BY DEF Rows
  <2> HIDE DEF s
  <2>2. CASE got.kind \in {"ready", "restarted"}
    BY <2>1, <2>2, SeenReady DEF Evidence
  <2>3. CASE got.kind \in {"down", "mismatch", "sick"}
    <3>1. o \in Recovery(r, "recovering_start") \cup Recovery(r, "recovering_stop")
      BY <2>3 DEF Outcomes
    <3> QED
      BY <2>1, <3>1, Recovering DEF Evidence
  <2>4. CASE got.kind \in {"unreachable", "unknown", "starting"}
    <3>1. o = To(s, "restarting", "kept") \/ o = Persist(s) \/ o = PersistOrGiveUp(s)
      BY <2>4 DEF Outcomes, s
    <3>2. Allowed(r, wish, got, Persist(s)) /\ Allowed(r, wish, got, PersistOrGiveUp(s))
      BY <2>1, <2>6, <2>7, Trying DEF Evidence, Settled
    <3>3. PhaseOf(s) = PhaseOf(r)
      BY <2>6 DEF PhaseOf
    <3>4. Allowed(r, wish, got, To(s, "restarting", "kept"))
      BY <2>1, <2>6, <2>7, <3>3 DEF Allowed, To, Statuses, Confined, Moves
    <3> QED
      BY <3>1, <3>2, <3>4
  <2>5. CASE got.kind = "mute"
    <3> DEFINE noted == [r EXCEPT !.telegram = TRUE]
    <3> DEFINE t == [noted EXCEPT !.steady = FALSE]
    <3>1. noted.state = r.state /\ noted.circuit = r.circuit
      BY DEF Rows
    <3>2. noted \in Rows
      BY DEF Rows
    <3>3. o \in Recovery(noted, "recovering_stop") \/ o = Persist(t)
      BY <2>5 DEF Outcomes, Mute
    <3> HIDE DEF noted
    <3>4. t.state = r.state /\ t.circuit = r.circuit
      BY <3>1, <3>2 DEF Rows
    <3>5. t \in Rows
      BY <3>2 DEF Rows
    <3> HIDE DEF t
    <3>6. Allowed(r, wish, got, Persist(t))
      BY <2>1, <3>4, <3>5, Trying DEF Evidence
    <3> QED
      BY <2>1, <3>1, <3>2, <3>3, <3>6, Recovering DEF Evidence
  <2> QED
    BY <1>3, <2>2, <2>3, <2>4, <2>5 DEF Observed
<1>4. CASE got.kind \in {"stopped", "unconfirmed"}
  <2>1. r.state \in {"stopping", "recovering_stop"} /\ ~Overruled(r, wish)
    BY <1>4, AnsweredTo
  <2>2. CASE got.kind = "unconfirmed"
    BY <2>1, <2>2, Persisting DEF Outcomes, Evidence, Moves
  <2>3. CASE got.kind = "stopped" /\ wish = "stopped"
    <3> DEFINE s == [r EXCEPT !.state = "stopped", !.attempts = 0, !.recoveries = 0,
                              !.window = FALSE, !.steady = FALSE, !.telegram = FALSE,
                              !.circuit = FALSE]
    <3>1. o = To(s, "stopped", "closed")
      BY <2>3 DEF Outcomes, Confirmed
    <3>2. s \in Rows
      BY Zero DEF Rows, States
    <3>3. s.state = "stopped" /\ ~s.circuit
      BY DEF Rows
    <3> HIDE DEF s
    <3>4. PhaseOf(r) = "ending" /\ PhaseOf(s) = "down"
      BY <2>1, <2>3, <3>3, Phases DEF Evidence, Overruled
    <3> QED
      BY <2>3, <3>1, <3>2, <3>3, <3>4 DEF Allowed, To, Statuses, Confined, Moves
  <2>4. CASE got.kind = "stopped" /\ wish = "running"
    <3>1. CASE r.circuit
      <4> DEFINE s == [r EXCEPT !.state = "circuit_open", !.attempts = 0]
      <4>1. o = To(s, "error", "closed")
        BY <2>4, <3>1 DEF Outcomes, Confirmed
      <4>2. s \in Rows
        BY Zero DEF Rows, States
      <4>3. s.state = "circuit_open" /\ s.circuit
        BY <3>1 DEF Rows
      <4> HIDE DEF s
      <4>4. PhaseOf(r) = "failing" /\ PhaseOf(s) = "failed"
        BY <2>1, <3>1, <4>3, Phases DEF Evidence, Confined
      <4> QED
        BY <2>4, <4>1, <4>2, <4>3, <4>4 DEF Allowed, To, Statuses, Confined, Moves
    <3>2. CASE ~r.circuit
      <4> DEFINE s == [r EXCEPT !.state = "recovering_start", !.attempts = 0, !.steady = FALSE,
                                !.telegram = FALSE]
      <4>1. o = Persist(s)
        BY <2>4, <3>2 DEF Outcomes, Confirmed
      <4>2. s \in Rows
        BY Zero DEF Rows, States
      <4>3. s.state = "recovering_start" /\ ~s.circuit
        BY <3>2 DEF Rows
      <4> HIDE DEF s
      <4>4. PhaseOf(r) = "ending" /\ PhaseOf(s) = "launching"
        BY <2>1, <3>2, <4>3, Phases
      <4> QED
        BY <2>4, <4>1, <4>2, <4>3, <4>4, Persisting DEF Confined, Moves
    <3> QED
      BY <3>1, <3>2
  <2> QED
    BY <1>4, <2>2, <2>3, <2>4 DEF Wishes
<1>5. CASE got.kind \in {"accepted", "launched", "refused", "capacity", "unlaunchable"}
  <2>1. wish = "running" /\ (got.kind # "unlaunchable" => r.state = "recovering_start")
    BY <1>5, AnsweredTo
  <2>4. got.kind # "unlaunchable" => PhaseOf(r) = "launching" /\ ~r.circuit
    BY <2>1, Phases DEF Evidence, Confined
  <2>5. got.op \in Nat
    BY DEF Replies
  <2>2. CASE got.kind \in {"accepted", "launched"}
    <3> DEFINE a == [r EXCEPT !.state = "verifying", !.op = got.op, !.attempts = 0,
                              !.steady = FALSE, !.telegram = FALSE]
    <3> DEFINE l == [r EXCEPT !.state = "observing", !.attempts = 0]
    <3>1. o = Persist(a) \/ o = Persist(l)
      BY <2>2 DEF Outcomes
    <3>2. a \in Rows
      BY <2>5, Zero DEF Rows, States
    <3>3. l \in Rows
      BY Zero DEF Rows, States
    <3>4. a.state = "verifying" /\ a.circuit = r.circuit
      BY DEF Rows
    <3>5. l.state = "observing" /\ l.circuit = r.circuit
      BY DEF Rows
    <3> HIDE DEF a, l
    <3>6. PhaseOf(a) = "launching" /\ PhaseOf(l) = "served"
      BY <3>4, <3>5, Phases
    <3> QED
      BY <2>1, <2>2, <2>4, <3>1, <3>2, <3>3, <3>4, <3>5, <3>6, Persisting DEF Confined, Moves
  <2>3. CASE got.kind \in {"refused", "capacity", "unlaunchable"}
    <3>1. CASE got.kind = "capacity"
      <4>1. o = To(r, "restarting", "kept")
        BY <3>1 DEF Outcomes
      <4> QED
        BY <2>1, <2>4, <3>1, <4>1 DEF Allowed, To, Statuses, Confined, Moves
    <3>2. CASE got.kind # "capacity"
      <4>1. o = PersistOrGiveUp(r) \/ o = GivenUp(r)
        BY <2>3, <3>2 DEF Outcomes
      <4>2. Allowed(r, wish, got, GivenUp(r)) /\ Allowed(r, wish, got, PersistOrGiveUp(r))
        BY <2>1, GivingUp, Trying DEF Evidence
      <4> QED
        BY <4>1, <4>2
    <3> QED
      BY <3>1, <3>2
  <2> QED
    BY <1>5, <2>2, <2>3
<1>6. CASE got.kind \in {"clear", "conflict", "uncertain"}
  <2>1. r.state = "recovering_stop" /\ wish = "running"
    BY <1>6, AnsweredTo
  <2> DEFINE s == [r EXCEPT !.telegram = FALSE, !.attempts = 0]
  <2>2. s.state = r.state /\ s.circuit = r.circuit
    BY DEF Rows
  <2>5. s \in Rows
    BY Zero DEF Rows
  <2>3. Allowed(r, wish, got, Persist(s))
    BY <2>1, <2>2, <2>5, Trying DEF Evidence
  <2>4. Allowed(r, wish, got, GivenUp(r)) /\ Allowed(r, wish, got, PersistOrGiveUp(r))
    BY <2>1, GivingUp, Trying DEF Evidence
  <2> QED
    BY <1>6, <2>3, <2>4 DEF Outcomes
<1>7. got.kind \in {"planned", "unavailable"} \cup Observed \cup {"stopped", "unconfirmed"}
        \cup {"accepted", "launched", "refused", "capacity", "unlaunchable"}
        \cup {"clear", "conflict", "uncertain"}
  BY AnsweredTo
<1> QED
  BY <1>2, <1>3, <1>4, <1>5, <1>6, <1>7
-----------------------------------------------------------------------------
(* The inductive invariant *)

RowInv ==
    /\ Confined(row)
    /\ agent.wish = "stopped" => row.state \in {"stopping", "stopped", "circuit_open", "absent"}
    /\ agent.deploying => row.state = "absent" /\ agent.wish = "running"

Held ==
    \A w \in Workers : row.lease = w /\ work[w].pc # "idle" =>
      /\ work[w].row = row /\ work[w].wish = agent.wish
      /\ work[w].home = agent.home /\ work[w].asked = used.requests

SoundJob(j) ==
    /\ j.pc \in {"observe", "stop", "start", "diagnose"} =>
         /\ j.row.state \notin Settled /\ Confined(j.row)
         /\ j.wish = "stopped" => j.row.state = "stopping"
         /\ Effect(j.row, j.wish) = j.pc
    /\ j.pc = "write" => Evidence(j.row, j.wish, j.got)
Sound == \A w \in Workers : SoundJob(work[w])

IInv ==
    /\ TypeOK /\ RowInv /\ Held /\ Sound
    /\ UnverifiedIsUnbilled /\ ShownStopped

LEMMA Constants ==
    /\ NoWorker \notin Workers
    /\ Silence \in Replies /\ NoBox \in Containers /\ NoRow \in Rows /\ Idle \in Jobs
    /\ \A home \in Nat, op \in Nat : Ready(home, op) \in Rows
<1>1. NoWorker \notin Workers
  BY RuntimeAssumption DEF RuntimeAssumption
<1>2. \A home \in Nat : <<"deployed", home>> \in Revisions
  BY DEF Revisions
<1>3. \A home \in Nat, op \in Nat : Ready(home, op) \in Rows
  BY <1>2, Zero DEF Ready, Rows, States
<1>4. NoRow \in Rows
  BY <1>2, Zero DEF NoRow, Ready, Rows, States
<1>5. Silence \in Replies /\ NoBox \in Containers
  BY <1>2 DEF Silence, Replies, Answers, NoBox, Containers
<1>6. Idle \in Jobs
  BY <1>4, <1>5 DEF Idle, Jobs, Wishes
<1> QED
  BY <1>1, <1>3, <1>4, <1>5, <1>6

\* A step that leaves the row and the agent alone: of each worker, it goes on as it was,
\* is through, or was answered what fits its claim.
LEMMA AroundTheRow ==
    ASSUME IInv, UNCHANGED <<row, agent>>, used' \in [faults : Nat, requests : Nat],
           used'.requests = used.requests, box' \in Containers, wire' \subseteq Messages,
           work' \in [Workers -> Jobs],
           \A v \in Workers :
             \/ work'[v] = work[v]
             \/ work'[v] = Idle
             \/ /\ work[v].pc # "idle" /\ work'[v].pc = "write"
                /\ work'[v].row = work[v].row /\ work'[v].wish = work[v].wish
                /\ work'[v].home = work[v].home /\ work'[v].asked = work[v].asked
                /\ Evidence(work[v].row, work[v].wish, work'[v].got)
    PROVE  IInv'
<1>1. TypeOK' /\ RowInv' /\ UnverifiedIsUnbilled' /\ ShownStopped'
  BY DEF IInv, TypeOK, RowInv, Confined, UnverifiedIsUnbilled, ShownStopped
<1>2. Held'
  BY DEF IInv, Held, Idle
<1>3. Sound'
  <2> SUFFICES ASSUME NEW v \in Workers PROVE SoundJob(work'[v])
    BY DEF Sound, SoundJob, Evidence, Confined, Effect, Overruled, AnswersTo, Observed, Settled
  <2> QED
    BY DEF IInv, Sound, SoundJob, Idle
<1> QED
  BY <1>1, <1>2, <1>3 DEF IInv

\* A request of the owner takes the row from whoever had it.
LEMMA RequestKeeps ==
    ASSUME IInv, Request, row' \in Rows, row'.lease = NoWorker, row'.state # "verifying",
           agent' \in Agents, wire' \subseteq Messages, RowInv', ShownStopped'
    PROVE  IInv'
<1>1. TypeOK'
  BY DEF IInv, Request, TypeOK
<1>2. Held' /\ Sound' /\ UnverifiedIsUnbilled'
  BY Constants DEF IInv, Request, Held, Sound, UnverifiedIsUnbilled
<1> QED
  BY <1>1, <1>2 DEF IInv

LEMMA WishedRow ==
    ASSUME TypeOK, NEW state \in States
    PROVE  /\ Wished(state) \in Rows /\ Wished(state).state = state
           /\ Wished(state).lease = NoWorker /\ ~Wished(state).circuit
<1>1. row.gen + 1 \in Nat
  BY DEF TypeOK, Rows
<1>2. Wished(state) \in Rows
  BY <1>1, Zero DEF TypeOK, Wished, Rows
<1> QED
  BY <1>2 DEF TypeOK, Wished, Rows

LEMMA SentMessage ==
    ASSUME TypeOK, NEW kind \in {"start", "stop"}, NEW rev \in Revisions, Sent(kind, rev)
    PROVE  wire' \subseteq Messages
  BY DEF TypeOK, Sent, Messages

LEMMA WishesKeep ==
    ASSUME IInv, RequestStart \/ RequestRestart \/ RequestStop \/ RequestDelete
    PROVE  IInv'
<1>1. TypeOK /\ row.rev \in Revisions /\ ~agent.deploying
  BY DEF IInv, TypeOK, Rows, RequestStart, RequestRestart, RequestStop, RequestDelete, Request
<1>2. CASE RequestStart
  <2>1. row' = Wished("recovering_start") /\ UNCHANGED wire /\ Request
    BY <1>2 DEF RequestStart
  <2>2. agent' \in Agents /\ agent'.wish = "running" /\ agent'.status = "starting"
        /\ ~agent'.deploying
    BY <1>1, <1>2 DEF RequestStart, TypeOK, Agents, Wishes, Statuses
  <2> QED
    BY <1>1, <2>1, <2>2, WishedRow, RequestKeeps
       DEF TypeOK, RowInv, Confined, ShownStopped, States
<1>3. CASE RequestRestart
  <2>1. row' = Wished("recovering_stop") /\ UNCHANGED wire /\ Request
    BY <1>3 DEF RequestRestart
  <2>2. agent' \in Agents /\ agent'.wish = "running" /\ agent'.status = "restarting"
        /\ ~agent'.deploying
    BY <1>1, <1>3 DEF RequestRestart, TypeOK, Agents, Wishes, Statuses
  <2> QED
    BY <1>1, <2>1, <2>2, WishedRow, RequestKeeps
       DEF TypeOK, RowInv, Confined, ShownStopped, States
<1>4. CASE RequestStop
  <2>1. row' = Wished("stopping") /\ Sent("stop", row.rev) /\ Request
    BY <1>4 DEF RequestStop
  <2>2. agent' \in Agents /\ agent'.wish = "stopped" /\ agent'.status = "restarting"
        /\ ~agent'.deploying
    BY <1>1, <1>4 DEF RequestStop, TypeOK, Agents, Wishes, Statuses
  <2> QED
    BY <1>1, <2>1, <2>2, WishedRow, SentMessage, RequestKeeps
       DEF RowInv, Confined, ShownStopped, States
<1>5. CASE RequestDelete
  <2>1. row' = Wished("stopped") /\ Sent("stop", row.rev) /\ Request
    BY <1>5 DEF RequestDelete
  <2>2. agent' \in Agents /\ agent'.wish = "stopped" /\ ~agent'.billed /\ ~agent'.deploying
    BY <1>1, <1>5 DEF RequestDelete, TypeOK, Agents, Wishes
  <2> QED
    BY <1>1, <2>1, <2>2, WishedRow, SentMessage, RequestKeeps
       DEF RowInv, Confined, ShownStopped, States
<1> QED
  BY <1>2, <1>3, <1>4, <1>5

LEMMA RevisedRow ==
    ASSUME TypeOK
    PROVE  /\ Revised \in Rows /\ Revised.lease = NoWorker /\ Revised.circuit = row.circuit
           /\ Revised.state = IF agent.wish = "stopped" THEN "stopped"
                              ELSE IF row.circuit THEN row.state ELSE "recovering_stop"
<1> DEFINE state == IF agent.wish = "stopped" THEN "stopped"
                    ELSE IF row.circuit THEN row.state ELSE "recovering_stop"
<1> DEFINE count == IF row.circuit THEN row.recoveries ELSE 0
<1> DEFINE active == row.circuit /\ row.window
<1>1. row.gen + 1 \in Nat /\ <<"edited", row.gen + 1>> \in Revisions
  BY DEF TypeOK, Rows, Revisions
<1>2. state \in States /\ count \in Nat /\ active \in BOOLEAN
  BY DEF TypeOK, Rows, States
<1>3. Revised = [row EXCEPT !.gen = row.gen + 1, !.rev = <<"edited", row.gen + 1>>, !.op = 0,
                            !.attempts = 0, !.steady = FALSE, !.telegram = FALSE,
                            !.lease = NoWorker, !.state = state, !.recoveries = count,
                            !.window = active]
  BY DEF Revised, TypeOK, Rows
<1> HIDE DEF state, count, active
<1>4. Revised \in Rows
  BY <1>1, <1>2, <1>3, Zero DEF TypeOK, Rows
<1>5. Revised.state = state /\ Revised.lease = NoWorker /\ Revised.circuit = row.circuit
  BY <1>3 DEF TypeOK, Rows
<1> QED
  BY <1>4, <1>5 DEF state

LEMMA ReviseKeeps ==
    ASSUME IInv, NEW secret \in BOOLEAN, Revise(secret)
    PROVE  IInv'
<1>1. /\ TypeOK /\ RowInv /\ ShownStopped /\ ~agent.deploying /\ Storable(Revised)
      /\ row' = Revised /\ Request /\ UNCHANGED wire
  BY DEF IInv, Revise, Request
<1>2. /\ row' \in Rows /\ row'.lease = NoWorker /\ row'.circuit = row.circuit
      /\ row'.state = IF agent.wish = "stopped" THEN "stopped"
                      ELSE IF row.circuit THEN row.state ELSE "recovering_stop"
  BY <1>1, RevisedRow
<1>3. agent' \in Agents
  BY <1>1 DEF Revise, TypeOK, Agents, Statuses
<1>4. /\ agent'.wish = agent.wish /\ agent'.billed = agent.billed /\ ~agent'.deploying
      /\ agent.wish = "running" \/ agent'.status = agent.status
      /\ agent'.status \in {agent.status, "restarting"}
  BY <1>1 DEF Revise, TypeOK, Agents, Wishes
<1>5. Confined(row') /\ row'.state # "verifying"
  BY <1>1, <1>2 DEF RowInv, Confined, Storable
<1>6. RowInv' /\ ShownStopped'
  BY <1>1, <1>2, <1>4, <1>5 DEF RowInv, ShownStopped, Confined
<1> QED
  BY <1>1, <1>2, <1>3, <1>5, <1>6, RequestKeeps DEF TypeOK

LEMMA RevokeKeeps ==
    ASSUME IInv, RevokeSecret
    PROVE  IInv'
<1> DEFINE state == IF row.state = "stopped" THEN "circuit_open" ELSE "stopping"
<1>1. TypeOK /\ RowInv /\ ~agent.deploying /\ Request /\ UNCHANGED wire
  BY DEF IInv, RevokeSecret, Request
<1>2. row.gen + 1 \in Nat /\ state \in States
  BY <1>1 DEF TypeOK, Rows, States
<1>3. row' = [row EXCEPT !.state = state, !.gen = row.gen + 1, !.op = 0, !.attempts = 0,
                         !.steady = FALSE, !.telegram = FALSE, !.circuit = TRUE,
                         !.lease = NoWorker]
  BY <1>1 DEF RevokeSecret, TypeOK, Rows
<1>4. state \in {"stopping", "circuit_open"}
  OBVIOUS
<1> HIDE DEF state
<1>5. row' \in Rows
  BY <1>1, <1>2, <1>3, Zero DEF TypeOK, Rows
<1>6. row'.state = state /\ row'.lease = NoWorker /\ row'.circuit
  BY <1>1, <1>3 DEF TypeOK, Rows
<1>7. agent' \in Agents /\ agent'.status = "error" /\ ~agent'.deploying
  BY <1>1 DEF RevokeSecret, TypeOK, Agents, Statuses
<1>8. RowInv' /\ ShownStopped'
  BY <1>4, <1>6, <1>7 DEF RowInv, ShownStopped, Confined
<1> QED
  BY <1>1, <1>4, <1>5, <1>6, <1>7, <1>8, RequestKeeps DEF TypeOK

LEMMA OwnerKeeps ==
    ASSUME IInv, Owner
    PROVE  IInv'
<1>1. UpdateConfig => IInv'
  BY ReviseKeeps DEF UpdateConfig, IInv, TypeOK, Agents
<1>2. ReplaceSecret => IInv'
  BY ReviseKeeps DEF ReplaceSecret
<1> QED
  BY <1>1, <1>2, WishesKeep, RevokeKeeps DEF Owner

-----------------------------------------------------------------------------
(* The workers *)

\* A worker that is answered goes on to write.
LEMMA ReplyKeeps ==
    ASSUME IInv, NEW w \in Workers, work[w].pc # "idle", NEW got \in Replies,
           work' = [work EXCEPT ![w] = [@ EXCEPT !.pc = "write", !.got = got]],
           Evidence(work[w].row, work[w].wish, got), UNCHANGED <<row, agent>>,
           used' \in [faults : Nat, requests : Nat], used'.requests = used.requests,
           box' \in Containers, wire' \subseteq Messages
    PROVE  IInv'
<1>1. work[w] \in Jobs
  BY DEF IInv, TypeOK
<1> DEFINE job == [work[w] EXCEPT !.pc = "write", !.got = got]
<1>2. job \in Jobs
  BY <1>1 DEF Jobs
<1>3. /\ job.pc = "write" /\ job.got = got /\ job.row = work[w].row
      /\ job.wish = work[w].wish /\ job.home = work[w].home /\ job.asked = work[w].asked
  BY <1>1 DEF Jobs
<1>4. work' = [work EXCEPT ![w] = job]
  OBVIOUS
<1> HIDE DEF job
<1>5. work' \in [Workers -> Jobs] /\ work'[w] = job /\ \A v \in Workers : v # w => work'[v] = work[v]
  BY <1>2, <1>4 DEF IInv, TypeOK
<1> QED
  BY <1>3, <1>5, AroundTheRow

\* What is known of the claim of a worker that is about to call.
LEMMA Calling ==
    ASSUME IInv, NEW w \in Workers, NEW got \in Replies,
           work[w].pc \in {"observe", "stop", "start", "diagnose"},
           got.kind \in AnswersTo(work[w].pc),
           got.kind \in {"ready", "restarted"} =>
             got.rev = work[w].row.rev /\ (work[w].row.op # 0 => got.op = work[w].row.op)
    PROVE  Evidence(work[w].row, work[w].wish, got)
  BY DEF IInv, Sound, SoundJob, Evidence

LEMMA FaultCounts ==
    ASSUME TypeOK, Fault
    PROVE  used' \in [faults : Nat, requests : Nat] /\ used'.requests = used.requests
  BY DEF TypeOK, Fault

\* The answer of a runner, or of Telegram, that tells of the container.
LEMMA AnsweredKeeps ==
    ASSUME IInv, NEW w \in Workers, work[w].pc \in {"observe", "stop", "diagnose"},
           NEW kind \in AnswersTo(work[w].pc), Answered(w, kind),
           kind \in {"ready", "restarted"} =>
             box.rev = work[w].row.rev /\ (work[w].row.op # 0 => box.op = work[w].row.op),
           UNCHANGED <<row, agent>>,
           used' \in [faults : Nat, requests : Nat], used'.requests = used.requests,
           box' \in Containers, wire' \subseteq Messages
    PROVE  IInv'
<1> DEFINE got == [kind |-> kind, rev |-> box.rev, op |-> box.op]
<1>1. kind \in Answers
  BY DEF AnswersTo, Observed, Answers
<1>2. got \in Replies
  BY <1>1 DEF IInv, TypeOK, Containers, Replies
<1>3. got.kind = kind /\ got.rev = box.rev /\ got.op = box.op
  OBVIOUS
<1>4. work' = [work EXCEPT ![w] = [@ EXCEPT !.pc = "write", !.got = got]]
  BY DEF Answered
<1> HIDE DEF got
<1>5. Evidence(work[w].row, work[w].wish, got)
  BY <1>2, <1>3, Calling
<1> QED
  BY <1>2, <1>4, <1>5, ReplyKeeps

LEMMA SeenIs ==
    ASSUME TypeOK, NEW r
    PROVE  /\ Seen(r) \in {"down", "mismatch", "starting", "ready", "sick", "mute"}
           /\ Seen(r) = "ready" => box.rev = r.rev /\ (r.op # 0 => box.op = r.op)
  BY DEF TypeOK, Containers, Seen

LEMMA ObserveKeeps ==
    ASSUME IInv, NEW w \in Workers, Observe(w)
    PROVE  IInv'
<1> DEFINE seen == Seen(work[w].row)
<1>1. TypeOK /\ work[w].pc = "observe" /\ UNCHANGED <<row, agent, box, wire>>
  BY DEF IInv, Observe
<1>2. /\ seen \in {"down", "mismatch", "starting", "ready", "sick", "mute"}
      /\ seen = "ready" =>
           box.rev = work[w].row.rev /\ (work[w].row.op # 0 => box.op = work[w].row.op)
  BY <1>1, SeenIs
<1>3. \/ Answered(w, seen) /\ UNCHANGED used
      \/ Fault /\ \/ seen = "ready" /\ Answered(w, "restarted")
                  \/ Answered(w, "unreachable")
                  \/ Answered(w, "unknown")
  BY DEF Observe
<1> HIDE DEF seen
<1>4. used' \in [faults : Nat, requests : Nat] /\ used'.requests = used.requests
  BY <1>1, <1>3, FaultCounts DEF TypeOK
<1>5. AnswersTo(work[w].pc) = Observed
  BY <1>1 DEF AnswersTo
<1>6. PICK kind \in AnswersTo(work[w].pc) :
        /\ Answered(w, kind)
        /\ kind \in {"ready", "restarted"} =>
             box.rev = work[w].row.rev /\ (work[w].row.op # 0 => box.op = work[w].row.op)
  BY <1>2, <1>3, <1>5 DEF Observed
<1> QED
  BY <1>1, <1>4, <1>6, AnsweredKeeps DEF TypeOK

LEMMA StopKeeps ==
    ASSUME IInv, NEW w \in Workers, Stop(w)
    PROVE  IInv'
<1>1. TypeOK /\ work[w].pc = "stop" /\ UNCHANGED <<row, agent>>
  BY DEF IInv, Stop
<1>2. AnswersTo(work[w].pc) = {"stopped", "unconfirmed"}
  BY <1>1 DEF AnswersTo
<1>3. PICK kind \in AnswersTo(work[w].pc) : Answered(w, kind) /\ kind \notin {"ready", "restarted"}
  BY <1>2 DEF Stop
<1>4. used' \in [faults : Nat, requests : Nat] /\ used'.requests = used.requests
  BY <1>1, FaultCounts DEF Stop, TypeOK
<1>5. box' \in Containers
  BY <1>1, Constants DEF Stop, TypeOK
<1>6. work[w].row.rev \in Revisions
  BY <1>1 DEF TypeOK, Jobs, Rows
<1>7. wire' \subseteq Messages
  BY <1>1, <1>6, SentMessage DEF Stop, TypeOK
<1> QED
  BY <1>1, <1>3, <1>4, <1>5, <1>7, AnsweredKeeps

LEMMA DiagnoseKeeps ==
    ASSUME IInv, NEW w \in Workers, Diagnose(w)
    PROVE  IInv'
<1>1. TypeOK /\ work[w].pc = "diagnose" /\ UNCHANGED <<row, agent, box, wire, used>>
  BY DEF IInv, Diagnose
<1>2. {"clear", "conflict", "uncertain"} \subseteq AnswersTo(work[w].pc)
  BY <1>1 DEF AnswersTo
<1>3. PICK kind \in AnswersTo(work[w].pc) : Answered(w, kind) /\ kind \notin {"ready", "restarted"}
  BY <1>2 DEF Diagnose
<1> QED
  BY <1>1, <1>3, AnsweredKeeps DEF TypeOK

LEMMA LaunchedBox ==
    ASSUME NEW rev \in Revisions, NEW op \in Operations, NEW health \in {"starting", "ready"},
           Launched(rev, op, health)
    PROVE  box' \in Containers
  BY RuntimeAssumption DEF RuntimeAssumption, Launched, Containers

LEMMA StartKeeps ==
    ASSUME IInv, NEW w \in Workers, Start(w)
    PROVE  IInv'
<1>1. TypeOK /\ work[w].pc = "start" /\ UNCHANGED <<row, agent>> /\ work[w] \in Jobs
  BY DEF IInv, Start, TypeOK
<1>2. work[w].row.rev \in Revisions
  BY <1>1 DEF Jobs, Rows
<1>3. PICK op \in Operations :
        LET rev == work[w].row.rev IN
        \/ /\ \/ Launched(rev, op, "starting") /\ LaunchAnswered(w, "accepted", op)
              \/ Launched(rev, op, "ready") /\ LaunchAnswered(w, "launched", op)
           /\ UNCHANGED <<wire, used>>
        \/ /\ Fault
           /\ LaunchAnswered(w, "refused", 0)
           /\ \/ Launched(rev, op, "starting") /\ UNCHANGED wire
              \/ Sent("start", rev) /\ UNCHANGED box
              \/ UNCHANGED <<box, wire>>
  BY DEF Start
<1>4. used' \in [faults : Nat, requests : Nat] /\ used'.requests = used.requests
  BY <1>1, <1>3, FaultCounts DEF TypeOK
<1>5. box' \in Containers /\ wire' \subseteq Messages
  BY <1>1, <1>2, <1>3, LaunchedBox, SentMessage DEF TypeOK
<1>6. PICK kind \in {"accepted", "launched", "refused"}, id \in Nat : LaunchAnswered(w, kind, id)
  BY <1>3, RuntimeAssumption DEF RuntimeAssumption
<1> DEFINE got == [kind |-> kind, rev |-> work[w].row.rev, op |-> id]
<1>7. got \in Replies /\ got.kind = kind
  BY <1>2 DEF Replies, Answers
<1>8. work' = [work EXCEPT ![w] = [@ EXCEPT !.pc = "write", !.got = got]]
  BY <1>6 DEF LaunchAnswered
<1>9. kind \in AnswersTo(work[w].pc)
  BY <1>1 DEF AnswersTo
<1> HIDE DEF got
<1>10. Evidence(work[w].row, work[w].wish, got)
  BY <1>1, <1>7, <1>9, Calling
<1> QED
  BY <1>1, <1>4, <1>5, <1>7, <1>8, <1>10, ReplyKeeps

LEMMA DieKeeps ==
    ASSUME IInv, NEW w \in Workers, Die(w)
    PROVE  IInv'
  BY FaultCounts, Constants, AroundTheRow DEF IInv, TypeOK, Die

LEMMA AroundKeeps ==
    ASSUME IInv, ComesUp \/ Breaks \/ \E m \in wire : Arrive(m)
    PROVE  IInv'
<1>1. TypeOK /\ box \in Containers
  BY DEF IInv, TypeOK
<1>2. CASE ComesUp
  <2>1. box' \in Containers
    BY <1>1, <1>2 DEF ComesUp, Containers
  <2> QED
    BY <1>1, <1>2, <2>1, AroundTheRow DEF ComesUp, TypeOK
<1>3. CASE Breaks
  <2>1. box' \in Containers
    BY <1>1, <1>3, Constants DEF Breaks, Containers
  <2> QED
    BY <1>1, <1>3, <2>1, FaultCounts, AroundTheRow DEF Breaks, TypeOK
<1>4. CASE \E m \in wire : Arrive(m)
  <2>1. PICK m \in wire : Arrive(m)
    BY <1>4
  <2>2. m.rev \in Revisions
    BY <1>1 DEF TypeOK, Messages
  <2>3. box' \in Containers
    BY <2>1, <2>2, Constants, LaunchedBox DEF Arrive
  <2> QED
    BY <1>1, <2>1, <2>3, AroundTheRow DEF Arrive, TypeOK
<1> QED
  BY <1>2, <1>3, <1>4

\* The row a worker claims is the row as it was, but for the lease and the attempt.
LEMMA ClaimedRow ==
    ASSUME TypeOK, NEW w \in Workers
    PROVE  /\ Claimed(w) \in Rows /\ Claimed(w).lease = w
           /\ Claimed(w).state = row.state /\ Claimed(w).circuit = row.circuit
           /\ \A wish : /\ Effect(Claimed(w), wish) = Effect(row, wish)
                        /\ Overruled(Claimed(w), wish) = Overruled(row, wish)
<1>1. row \in Rows /\ Counted(row.attempts) \in 0..MaxAttempts
  BY RuntimeAssumption DEF RuntimeAssumption, TypeOK, Rows, Counted
<1>2. Claimed(w) = [row EXCEPT !.lease = w, !.attempts = Counted(row.attempts)]
  BY <1>1 DEF Claimed, Rows
<1>3. Claimed(w) \in Rows
  BY <1>1, <1>2 DEF Rows
<1>4. /\ Claimed(w).lease = w /\ Claimed(w).state = row.state
      /\ Claimed(w).circuit = row.circuit /\ Claimed(w).telegram = row.telegram
  BY <1>1, <1>2 DEF Rows
<1> QED
  BY <1>3, <1>4 DEF Effect, Overruled

LEMMA ClaimKeeps ==
    ASSUME IInv, NEW w \in Workers, Claim(w)
    PROVE  IInv'
<1> DEFINE effect == Effect(row, agent.wish)
<1>1. /\ TypeOK /\ RowInv /\ agent \in Agents /\ row \in Rows /\ agent.wish \in Wishes
      /\ row' = Claimed(w) /\ row.state \notin Settled /\ UNCHANGED <<agent, box, wire>>
  BY DEF IInv, TypeOK, Agents, Claim
<1>2. used' \in [faults : Nat, requests : Nat] /\ used'.requests = used.requests
  BY <1>1, FaultCounts DEF Claim, TypeOK
<1>3. agent.wish = "stopped" => row.state = "stopping"
  BY <1>1 DEF RowInv, Settled
<1>4. effect \in {"write", "observe", "stop", "start", "diagnose"}
  BY <1>1, <1>3, Asked DEF RowInv
<1>5. PICK pc, kind :
        /\ Proceed(w, pc, kind)
        /\ \/ pc = effect /\ kind = IF effect = "write" THEN "planned" ELSE "none"
           \/ pc = "write" /\ kind = "unlaunchable" /\ effect \in {"start", "diagnose"}
           \/ pc = "write" /\ kind = "capacity" /\ effect = "start"
           \/ pc = "write" /\ kind = "unavailable"
  BY DEF Claim
<1> DEFINE got == [Silence EXCEPT !.kind = kind]
<1> DEFINE job == [pc |-> pc, row |-> Claimed(w), wish |-> agent.wish, home |-> agent.home,
                   got |-> got, asked |-> used.requests]
<1>6. pc \in {"observe", "stop", "start", "diagnose", "write"} /\ kind \in Answers
  BY <1>4, <1>5 DEF Answers
<1>7. got \in Replies /\ got.kind = kind
  BY <1>6, Constants DEF Replies
<1> HIDE DEF got
<1>8. job \in Jobs
  BY <1>1, <1>6, <1>7, ClaimedRow DEF Jobs, TypeOK, Agents
<1>9. SoundJob(job)
  <2>1. /\ Claimed(w).state = row.state /\ Confined(Claimed(w))
        /\ Effect(Claimed(w), agent.wish) = effect
    BY <1>1, ClaimedRow DEF RowInv, Confined
  <2>2. pc = "write" => kind \in AnswersTo(effect) \cup {"unavailable"}
    BY <1>4, <1>5 DEF AnswersTo
  <2>3. pc # "write" => pc = effect
    BY <1>5
  <2>4. kind \notin {"ready", "restarted"}
    BY <1>5
  <2> HIDE DEF effect
  <2> QED
    BY <1>1, <1>3, <1>7, <2>1, <2>2, <2>3, <2>4 DEF SoundJob, Evidence
<1>10. work' \in [Workers -> Jobs] /\ work'[w] = job /\ \A v \in Workers : v # w => work'[v] = work[v]
  BY <1>1, <1>5, <1>8 DEF Proceed, TypeOK, got
<1>11. /\ job.row = row' /\ job.wish = agent'.wish /\ job.home = agent'.home
       /\ job.asked = used'.requests
  BY <1>1, <1>2
<1> HIDE DEF job
<1>12. TypeOK'
  BY <1>1, <1>2, <1>10, ClaimedRow DEF TypeOK
<1>13. RowInv' /\ UnverifiedIsUnbilled' /\ ShownStopped'
  BY <1>1, ClaimedRow DEF IInv, RowInv, Confined, UnverifiedIsUnbilled, ShownStopped
<1>14. Held'
  BY <1>1, <1>10, <1>11, ClaimedRow DEF Held
<1>15. Sound'
  <2> SUFFICES ASSUME NEW v \in Workers PROVE SoundJob(work'[v])
    BY DEF Sound, SoundJob, Evidence, Confined, Effect, Overruled, AnswersTo, Observed, Settled
  <2> QED
    BY <1>9, <1>10 DEF IInv, Sound
<1> QED
  BY <1>12, <1>13, <1>14, <1>15 DEF IInv

\* A worker that fits writes what may follow from the row, the wish and the home as they are.
LEMMA WriteIsAllowed ==
    ASSUME IInv, NEW w \in Workers, Write(w), Fits(w)
    PROVE  /\ work[w].asked = used.requests /\ work[w].home = agent.home
           /\ row.state \notin Settled /\ ~agent.deploying
           /\ \E o : /\ Allowed(row, agent.wish, work[w].got, o)
                    /\ row' = [o.row EXCEPT !.lease = NoWorker]
                    /\ agent' = [agent EXCEPT !.status = o.status,
                                  !.billed = IF o.usage = "kept" THEN @ ELSE o.usage = "open"]
<1>1. work[w].pc = "write" /\ row.lease = w /\ work[w] \in Jobs /\ ~agent.deploying
  BY DEF Write, Fits, IInv, TypeOK
<1>2. /\ work[w].row = row /\ work[w].wish = agent.wish
      /\ work[w].home = agent.home /\ work[w].asked = used.requests
  BY <1>1 DEF IInv, Held
<1>3. Evidence(row, agent.wish, work[w].got)
  BY <1>1, <1>2 DEF IInv, Sound, SoundJob
<1>4. PICK o \in Outcomes(row, agent.wish, work[w].got) :
        /\ row' = [o.row EXCEPT !.lease = NoWorker]
        /\ agent' = [agent EXCEPT !.status = o.status,
                      !.billed = IF o.usage = "kept" THEN @ ELSE o.usage = "open"]
  BY <1>2 DEF Write, Apply
<1>5. row \in Rows /\ agent.wish \in Wishes /\ work[w].got \in Replies
  BY <1>1 DEF IInv, TypeOK, Agents, Jobs
<1>6. Allowed(row, agent.wish, work[w].got, o)
  BY <1>3, <1>4, <1>5, OutcomesAllowed
<1> QED
  BY <1>1, <1>2, <1>3, <1>4, <1>6 DEF Evidence

LEMMA WriteKeeps ==
    ASSUME IInv, NEW w \in Workers, Write(w)
    PROVE  IInv'
<1>1. UNCHANGED <<box, wire, used>> /\ work' = [work EXCEPT ![w] = Idle] /\ TypeOK
  BY DEF IInv, Write
<1>2. CASE ~Fits(w)
  <2>1. UNCHANGED <<row, agent>>
    BY <1>2 DEF Write
  <2> QED
    BY <1>1, <2>1, Constants, AroundTheRow DEF TypeOK
<1>3. CASE Fits(w)
  <2>1. PICK o : /\ Allowed(row, agent.wish, work[w].got, o)
                 /\ row' = [o.row EXCEPT !.lease = NoWorker]
                 /\ agent' = [agent EXCEPT !.status = o.status,
                               !.billed = IF o.usage = "kept" THEN @ ELSE o.usage = "open"]
    BY <1>3, WriteIsAllowed
  <2>2. row' \in Rows
    BY <2>1 DEF Allowed, Rows
  <2>3. row'.lease = NoWorker /\ row'.state = o.row.state /\ row'.circuit = o.row.circuit
    BY <2>1 DEF Allowed, Rows
  <2> DEFINE billed == IF o.usage = "kept" THEN agent.billed ELSE o.usage = "open"
  <2>4. agent' = [agent EXCEPT !.status = o.status, !.billed = billed]
    BY <1>1, <2>1 DEF TypeOK, Agents
  <2>5. billed \in BOOLEAN
    BY <1>1 DEF TypeOK, Agents
  <2>6. (o.usage = "kept" => billed = agent.billed) /\ (o.usage = "closed" => ~billed)
    OBVIOUS
  <2> HIDE DEF billed
  <2>7. agent' \in Agents
    BY <1>1, <2>1, <2>4, <2>5 DEF Allowed, TypeOK, Agents
  <2>8. /\ agent'.status = o.status /\ agent'.billed = billed /\ agent'.wish = agent.wish
        /\ agent'.deploying = agent.deploying
    BY <1>1, <2>4 DEF TypeOK, Agents
  <2>9. TypeOK'
    BY <1>1, <2>2, <2>7, Constants DEF TypeOK
  <2>10. RowInv'
    BY <1>3, <2>1, <2>3, <2>8 DEF RowInv, Confined, Allowed, Fits
  <2>11. UnverifiedIsUnbilled'
    BY <2>1, <2>3, <2>6, <2>8 DEF IInv, UnverifiedIsUnbilled, Allowed
  <2>12. ShownStopped'
    BY <2>1, <2>3, <2>6, <2>8 DEF ShownStopped, Allowed
  <2>13. Held' /\ Sound'
    <3>1. \A v \in Workers : work'[v] = Idle \/ work'[v] = work[v]
      BY <1>1 DEF TypeOK
    <3>2. Held'
      BY <2>3, Constants DEF Held
    <3>3. SoundJob(Idle)
      BY DEF SoundJob, Idle
    <3>4. \A v \in Workers : SoundJob(work'[v])
      BY <3>1, <3>3 DEF IInv, Sound
    <3> QED
      BY <3>2, <3>4
      DEF Sound, SoundJob, Evidence, Confined, Effect, Overruled, AnswersTo, Observed, Settled
  <2> QED
    BY <2>9, <2>10, <2>11, <2>12, <2>13 DEF IInv
<1> QED
  BY <1>2, <1>3

\* A handover takes the row and the lease with it; a new deployment brings a new row.
LEMMA HandoverKeeps ==
    ASSUME IInv, Move \/ Deployed
    PROVE  IInv'
<1>1. TypeOK /\ RowInv /\ UNCHANGED work /\ NoRow.state = "absent" /\ ~NoRow.circuit
  BY DEF IInv, Move, Deployed, NoRow, Ready
<1>2. CASE Move
  <2>1. row' = NoRow /\ NoRow.lease = NoWorker /\ box' = NoBox /\ wire' = {}
    BY <1>2 DEF Move, Moved, NoRow, Ready
  <2> DEFINE status == IF agent.wish = "running" THEN "starting" ELSE "stopped"
  <2> DEFINE deploying == agent.wish = "running"
  <2>2. agent' = [agent EXCEPT !.home = agent.home + 1, !.billed = FALSE,
                               !.deploying = deploying, !.status = status]
    BY <1>1, <1>2 DEF Move, TypeOK, Agents
  <2>3. status \in Statuses /\ deploying \in BOOLEAN /\ agent.home + 1 \in Nat
    BY <1>1 DEF TypeOK, Agents, Statuses
  <2>4. (deploying <=> agent.wish = "running") /\ (~deploying <=> status = "stopped")
    OBVIOUS
  <2> HIDE DEF status, deploying
  <2>5. agent' \in Agents
    BY <1>1, <2>2, <2>3 DEF TypeOK, Agents
  <2>6. /\ agent'.wish = agent.wish /\ ~agent'.billed /\ agent'.status = status
        /\ agent'.deploying = deploying
    BY <1>1, <2>2 DEF TypeOK, Agents
  <2>7. TypeOK'
    BY <1>1, <1>2, <2>1, <2>5, Constants, FaultCounts DEF Move, TypeOK
  <2>8. RowInv' /\ UnverifiedIsUnbilled'
    BY <1>1, <2>1, <2>4, <2>6 DEF RowInv, Confined, UnverifiedIsUnbilled
  <2>9. ShownStopped'
    BY <1>1, <2>1, <2>4, <2>6, <2>5 DEF ShownStopped, Agents, Wishes
  <2>10. Held'
    BY <2>1, Constants DEF Held
  <2>11. Sound'
    BY <1>1 DEF IInv, Sound, SoundJob, Evidence, Confined, Effect, Overruled, AnswersTo,
       Observed, Settled
  <2> QED
    BY <2>7, <2>8, <2>9, <2>10, <2>11 DEF IInv
<1>3. CASE Deployed
  <2>1. PICK op \in Operations : row' = Ready(agent.home, op)
    BY <1>3 DEF Deployed
  <2>2. agent.home \in Nat /\ op \in Nat
    BY <1>1, RuntimeAssumption DEF RuntimeAssumption, TypeOK, Agents
  <2>3. row' \in Rows
    BY <2>1, <2>2, Constants
  <2>4. row'.lease = NoWorker /\ row'.state = "observing" /\ ~row'.circuit /\ row'.op = op
    BY <2>1 DEF Ready
  <2>5. agent' \in Agents /\ ~agent'.deploying /\ agent'.wish = agent.wish /\ agent'.status = "running"
    BY <1>1, <1>3 DEF Deployed, TypeOK, Agents, Statuses
  <2>6. agent.wish = "running"
    BY <1>1, <1>3 DEF Deployed, RowInv
  <2>7. box' \in Containers
    BY <1>3, <2>2, <2>4 DEF Deployed, Launched, Containers, Revisions
  <2>8. TypeOK'
    BY <1>1, <1>3, <2>3, <2>5, <2>7 DEF Deployed, TypeOK
  <2>9. RowInv' /\ UnverifiedIsUnbilled' /\ ShownStopped'
    BY <2>4, <2>5, <2>6 DEF RowInv, Confined, UnverifiedIsUnbilled, ShownStopped
  <2>10. Held'
    BY <2>4, Constants DEF Held
  <2>11. Sound'
    BY <1>1 DEF IInv, Sound, SoundJob, Evidence, Confined, Effect, Overruled, AnswersTo,
       Observed, Settled
  <2> QED
    BY <2>8, <2>9, <2>10, <2>11 DEF IInv
<1> QED
  BY <1>2, <1>3

LEMMA InitHolds == Init => IInv
<1> SUFFICES ASSUME Init PROVE IInv
  OBVIOUS
<1>1. row \in Rows /\ row.state = "observing" /\ ~row.circuit /\ row.lease = NoWorker
  BY Constants DEF Init, Ready
<1>2. agent \in Agents /\ agent.wish = "running" /\ agent.status = "running" /\ ~agent.deploying
  BY DEF Init, Agents, Wishes, Statuses
<1>3. box \in Containers /\ wire \subseteq Messages
  BY DEF Init, Containers, Messages, Revisions
<1>4. work \in [Workers -> Jobs] /\ used \in [faults : Nat, requests : Nat]
  BY Constants DEF Init
<1>5. Held /\ Sound
  BY <1>1, Constants DEF Init, Held, Sound, SoundJob, Idle
<1> QED
  BY <1>1, <1>2, <1>3, <1>4, <1>5
     DEF IInv, TypeOK, RowInv, Confined, UnverifiedIsUnbilled, ShownStopped

LEMMA StutterKeeps == ASSUME IInv, UNCHANGED vars PROVE IInv'
<1>1. \A v \in Workers : work'[v] = work[v]
  BY DEF vars
<1> QED
  BY <1>1, AroundTheRow DEF IInv, TypeOK, vars

LEMMA NextKeeps == IInv /\ [Next]_vars => IInv'
<1> SUFFICES ASSUME IInv, [Next]_vars PROVE IInv'
  OBVIOUS
<1>1. CASE Owner
  BY <1>1, OwnerKeeps
<1>2. CASE Environment
  BY <1>2, AroundKeeps, HandoverKeeps DEF Environment
<1>3. CASE \E w \in Workers : Worker(w)
  BY <1>3, ClaimKeeps, ObserveKeeps, StopKeeps, StartKeeps, DiagnoseKeeps, WriteKeeps, DieKeeps
     DEF Worker, Step
<1>4. CASE UNCHANGED vars
  BY <1>4, StutterKeeps
<1> QED
  BY <1>1, <1>2, <1>3, <1>4 DEF Next

-----------------------------------------------------------------------------
(* Theorems *)

\* The inductive invariant: what rows may look like, what a claim still holds of the row
\* while it fits, and what a claim and its answer may lead to.
THEOREM Invariance == Spec => []IInv
  BY InitHolds, NextKeeps, PTL DEF Spec

\* Rows, agents, containers, messages and jobs keep their types.
THEOREM TypeCorrect == Spec => []TypeOK
<1>1. IInv => TypeOK
  BY DEF IInv
<1> QED
  BY <1>1, Invariance, PTL

\* A workload that still has to be verified is never charged for.
THEOREM NothingUnverifiedIsBilled == Spec => []UnverifiedIsUnbilled
<1>1. IInv => UnverifiedIsUnbilled
  BY DEF IInv
<1> QED
  BY <1>1, Invariance, PTL

\* An agent shown as stopped is stopped by its owner's wish, in its row and in its bill.
THEOREM StoppedIsShown == Spec => []ShownStopped
<1>1. IInv => ShownStopped
  BY DEF IInv
<1> QED
  BY <1>1, Invariance, PTL

\* Only a worker that writes changes the row from the state of writing to idle.
LEMMA EffectiveWrite ==
    ASSUME IInv, [Next]_vars, NEW w \in Workers, Effective(w)
    PROVE  Write(w) /\ Fits(w)
<1>1. work[w].pc = "write" /\ work'[w].pc = "idle" /\ row' # row /\ TypeOK
  BY DEF Effective, IInv
<1>2. ~(UNCHANGED work)
  BY <1>1
<1>3. ~Owner /\ ~Environment
  BY <1>2 DEF Owner, RequestStart, RequestRestart, RequestStop, RequestDelete, UpdateConfig,
     ReplaceSecret, Revise, RevokeSecret, Request, Environment, ComesUp, Breaks, Move, Deployed,
     Arrive
<1>4. PICK v \in Workers : Worker(v)
  BY <1>2, <1>3 DEF Next, vars
<1>5. v = w \/ work'[w] = work[w]
  BY <1>1, <1>4 DEF TypeOK, Worker, Step, Claim, Proceed, Observe, Stop, Diagnose, Answered, Start,
     LaunchAnswered, Write, Die
<1>6. Worker(w)
  BY <1>1, <1>4, <1>5
<1> QED
  BY <1>1, <1>6 DEF Worker, Step, Claim, Observe, Stop, Diagnose, Start, Write, Die

\* A worker's write is about the wish and the home of the moment.
THEOREM EvidenceIsFresh == Spec => FreshEvidence
<1>1. IInv /\ [Next]_vars =>
        [\A w \in Workers :
           Effective(w) => work[w].asked = used.requests /\ work[w].home = agent.home]_vars
  BY EffectiveWrite, WriteIsAllowed
<1> QED
  BY <1>1, Invariance, PTL DEF Spec, FreshEvidence

\* An agent turns "running" on the word of the container its row stands for.
THEOREM RunningIsCurrent == Spec => ReadyIsCurrent
<1>1. ASSUME IInv, [Next]_vars, NEW w \in Workers, Effective(w), agent'.status = "running",
             ~row'.circuit
      PROVE  work[w].got.rev = row'.rev /\ work[w].got.op = row'.op
  <2>1. PICK o : /\ Allowed(row, agent.wish, work[w].got, o)
                 /\ row' = [o.row EXCEPT !.lease = NoWorker]
                 /\ agent' = [agent EXCEPT !.status = o.status,
                               !.billed = IF o.usage = "kept" THEN @ ELSE o.usage = "open"]
    BY <1>1, EffectiveWrite, WriteIsAllowed
  <2>2. /\ row'.rev = o.row.rev /\ row'.op = o.row.op /\ row'.circuit = o.row.circuit
        /\ agent'.status = o.status
    BY <1>1, <2>1 DEF Allowed, Rows, IInv, TypeOK, Agents
  <2> QED
    BY <1>1, <2>1, <2>2 DEF Allowed
<1>2. IInv /\ [Next]_vars =>
        [\A w \in Workers :
           Effective(w) /\ agent'.status = "running" /\ ~row'.circuit =>
             work[w].got.rev = row'.rev /\ work[w].got.op = row'.op]_vars
  BY <1>1
<1> QED
  BY <1>2, Invariance, PTL DEF Spec, ReadyIsCurrent

-----------------------------------------------------------------------------
(* The refinement *)

LEMMA PhaseIs ==
    ASSUME TypeOK
    PROVE  /\ PhaseOf(row) = "away" <=> row.state = "absent"
           /\ PhaseOf(row) = "down" <=> row.state = "stopped"
           /\ Confined(row) => (PhaseOf(row) \in {"failing", "failed"} <=> row.circuit)
<1>1. row.state \in States /\ row.circuit \in BOOLEAN
  BY DEF TypeOK, Rows
<1> QED
  BY <1>1, Phases DEF States, Confined

\* A phase depends on the state and on the circuit only.
LEMMA SamePhase ==
    ASSUME NEW r, NEW s, s.state = r.state, s.circuit = r.circuit
    PROVE  PhaseOf(s) = PhaseOf(r)
BY DEF PhaseOf

LEMMA OwnerImplements ==
    ASSUME IInv, Owner
    PROVE  Wish!Owner
<1>1. TypeOK /\ Confined(row) /\ agent \in Agents
  BY DEF IInv, RowInv, TypeOK
<1>2. Request
  BY DEF Owner, RequestStart, RequestRestart, RequestStop, RequestDelete, UpdateConfig,
     ReplaceSecret, Revise, RevokeSecret
<1>3. PhaseOf(row) # "away" /\ used'.requests = used.requests + 1
  BY <1>1, <1>2, PhaseIs DEF Request, TypeOK
<1>4. CASE RequestStart
  <2>1. agent'.wish = "running" /\ PhaseOf(row') = "launching"
    BY <1>1, <1>4, WishedRow, Phases DEF RequestStart, Agents, States
  <2> QED
    BY <1>3, <2>1 DEF Wish!Owner, Wish!Start, Wish!Ask
<1>5. CASE RequestRestart
  <2>1. agent'.wish = "running" /\ PhaseOf(row') = "ending"
    BY <1>1, <1>5, WishedRow, Phases DEF RequestRestart, Agents, States
  <2> QED
    BY <1>3, <2>1 DEF Wish!Owner, Wish!Restart, Wish!Ask
<1>6. CASE RequestStop
  <2>1. agent'.wish = "stopped" /\ PhaseOf(row') = "ending"
    BY <1>1, <1>6, WishedRow, Phases DEF RequestStop, Agents, States
  <2> QED
    BY <1>3, <2>1 DEF Wish!Owner, Wish!Stop, Wish!Ask
<1>7. CASE RequestDelete
  <2>1. agent'.wish = "stopped" /\ PhaseOf(row') = "down"
    BY <1>1, <1>7, WishedRow, Phases DEF RequestDelete, Agents, States
  <2> QED
    BY <1>3, <2>1 DEF Wish!Owner, Wish!Delete, Wish!Ask
<1>8. ASSUME NEW secret, Revise(secret)
      PROVE  Wish!Owner
  <2>1. agent'.wish = agent.wish /\ row' = Revised
    BY <1>1, <1>8 DEF Revise, Agents
  <2>2. row'.circuit = row.circuit
    BY <1>1, <2>1, RevisedRow
  <2>3. row'.state = IF agent.wish = "stopped" THEN "stopped"
                     ELSE IF row.circuit THEN row.state ELSE "recovering_stop"
    BY <1>1, <2>1, RevisedRow
  <2>4. PhaseOf(row') = IF agent.wish = "stopped" THEN "down"
                        ELSE IF row.circuit THEN PhaseOf(row) ELSE "ending"
    <3>1. CASE agent.wish = "stopped"
      BY <2>3, <3>1, Phases
    <3>2. CASE agent.wish # "stopped" /\ row.circuit
      <4>1. row'.state = row.state /\ row'.circuit = row.circuit
        BY <2>2, <2>3, <3>2
      <4> QED
        BY <3>2, <4>1, SamePhase
    <3>3. CASE agent.wish # "stopped" /\ ~row.circuit
      BY <2>3, <3>3, Phases
    <3> QED
      BY <3>1, <3>2, <3>3
  <2> QED
    BY <1>1, <1>3, <2>1, <2>4, PhaseIs DEF Wish!Owner, Wish!Revise, Wish!Ask
<1>9. CASE RevokeSecret
  <2>1. agent'.wish = agent.wish
    BY <1>1, <1>9 DEF RevokeSecret, Agents
  <2>2. row'.circuit /\ row'.state = IF row.state = "stopped" THEN "circuit_open" ELSE "stopping"
    BY <1>1, <1>9 DEF RevokeSecret, TypeOK, Rows
  <2>3. PhaseOf(row') = IF PhaseOf(row) = "down" THEN "failed" ELSE "failing"
    BY <1>1, <2>2, PhaseIs, Phases
  <2> QED
    BY <1>3, <2>1, <2>3 DEF Wish!Owner, Wish!Withdraw, Wish!Ask
<1> QED
  BY <1>4, <1>5, <1>6, <1>7, <1>8, <1>9 DEF Owner, UpdateConfig, ReplaceSecret

LEMMA WriteImplements ==
    ASSUME IInv, NEW w \in Workers, Write(w)
    PROVE  Wish!Keeper \/ UNCHANGED Wish!vars
<1>1. UNCHANGED used /\ TypeOK
  BY DEF Write, IInv
<1>2. CASE ~Fits(w)
  BY <1>1, <1>2 DEF Write, Wish!vars
<1>3. CASE Fits(w)
  <2>1. PICK o : /\ Allowed(row, agent.wish, work[w].got, o)
                 /\ row' = [o.row EXCEPT !.lease = NoWorker]
                 /\ agent' = [agent EXCEPT !.status = o.status,
                               !.billed = IF o.usage = "kept" THEN @ ELSE o.usage = "open"]
    BY <1>3, WriteIsAllowed
  <2>2. agent'.wish = agent.wish
    BY <1>1, <2>1 DEF TypeOK, Agents
  <2>3. row'.state = o.row.state /\ row'.circuit = o.row.circuit
    BY <2>1 DEF Allowed, Rows
  <2>4. PhaseOf(row') = PhaseOf(o.row)
    BY <2>3 DEF PhaseOf
  <2>5. Moves(agent.wish, PhaseOf(row), PhaseOf(row'))
    BY <2>1, <2>4 DEF Allowed
  <2> QED
    BY <1>1, <2>2, <2>5 DEF Moves, Wish!Keeper, Wish!Serve, Wish!Fail, Wish!GiveUp,
       Wish!TakeDown, Wish!vars
<1> QED
  BY <1>2, <1>3

LEMMA StepImplements ==
    ASSUME IInv, [Next]_vars
    PROVE  [Wish!Owner \/ Wish!Keeper]_(Wish!vars)
<1>1. TypeOK /\ agent \in Agents /\ row \in Rows /\ RowInv
  BY DEF IInv, TypeOK
<1>2. CASE Owner
  BY <1>2, OwnerImplements
<1>3. CASE Move
  <2>1. row' = NoRow /\ agent'.wish = agent.wish
    BY <1>1, <1>3 DEF Move, Moved, Agents
  <2>2. PhaseOf(row') = "away"
    BY <2>1, Phases DEF NoRow, Ready
  <2>3. used'.requests = used.requests
    BY <1>1, <1>3, FaultCounts DEF Move
  <2> QED
    BY <2>1, <2>2, <2>3 DEF Wish!Keeper, Wish!Leave, Wish!vars
<1>4. CASE Deployed
  <2>1. PhaseOf(row) = "away" /\ agent.wish = "running"
    BY <1>1, <1>4, PhaseIs DEF Deployed, RowInv
  <2>2. PhaseOf(row') = "served" /\ agent'.wish = agent.wish /\ UNCHANGED used
    BY <1>1, <1>4, Phases DEF Deployed, Ready, Agents
  <2> QED
    BY <2>1, <2>2 DEF Wish!Keeper, Wish!Settle
<1>5. ASSUME NEW w \in Workers, Claim(w)
      PROVE  UNCHANGED Wish!vars
  <2>1. PhaseOf(Claimed(w)) = PhaseOf(row)
    BY <1>1, ClaimedRow DEF PhaseOf
  <2>2. used'.requests = used.requests
    BY <1>1, <1>5, FaultCounts DEF Claim
  <2> QED
    BY <1>5, <2>1, <2>2 DEF Claim, Wish!vars
<1>6. ASSUME NEW w \in Workers, Observe(w) \/ Stop(w) \/ Start(w) \/ Diagnose(w) \/ Die(w)
      PROVE  UNCHANGED Wish!vars
  <2>1. UNCHANGED <<row, agent>> /\ (UNCHANGED used \/ Fault)
    BY <1>6 DEF Observe, Stop, Start, Diagnose, Die
  <2> QED
    BY <1>1, <2>1, FaultCounts DEF Wish!vars
<1>7. CASE ComesUp \/ Breaks \/ \E m \in wire : Arrive(m)
  <2>1. UNCHANGED <<row, agent>> /\ (UNCHANGED used \/ Fault)
    BY <1>7 DEF ComesUp, Breaks, Arrive
  <2> QED
    BY <1>1, <2>1, FaultCounts DEF Wish!vars
<1>8. CASE UNCHANGED vars
  BY <1>8 DEF vars, Wish!vars
<1> QED
  BY <1>2, <1>3, <1>4, <1>5, <1>6, <1>7, <1>8, WriteImplements DEF Next, Environment, Worker, Step

\* The rows, the workers and the runner together do as the owner wishes.
THEOREM Implements == Spec => ImplementsOwnerWish
<1>1. Init => Wish!Init
  BY Phases DEF Init, Ready, Wish!Init
<1> QED
  BY <1>1, StepImplements, Invariance, PTL DEF Spec, ImplementsOwnerWish, Wish!Spec
================================================================================
