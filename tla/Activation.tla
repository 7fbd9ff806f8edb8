----------------------------- MODULE Activation -----------------------------
(* The activation evaluation (evals/activation_core): every trial, a case    *)
(* and a repetition, is run under two arms by a pool of workers; a session   *)
(* is read line by line beside a watchdog, stopped as soon as its verdict is *)
(* settled, and tried again while the provider throttles it; blocks of       *)
(* should-fire trials are compared until the comparison is decided.          *)
EXTENDS Integers, Sequences, FiniteSets, Absence

CONSTANTS
  FireTrials,    \* trials of cases that expect a workflow, the first ones
  QuietTrials,   \* trials of cases that expect silence
  Forbidding,    \* the should-fire trials whose case also forbids a workflow
  Workers,
  Scripts,       \* what a session of the host may do
  BlockTrials,   \* BLOCK_TRIALS, 4 in the code
  MaxAttempts,   \* DEFAULT_ATTEMPTS, 5 in the code
  Margin, Floor, MaxFalse    \* the caller's thresholds, in tenths

Row == [complete : BOOLEAN, passed : BOOLEAN]
Stop == [at : Nat, verdict : {"superior", "inferior", "equivalent"}]

ASSUME ActivationConstants ==
  /\ FireTrials \in Nat /\ QuietTrials \in Nat /\ Workers \in Nat /\ BlockTrials \in Nat
  /\ MaxAttempts \in Nat
  /\ \A script \in Scripts : script.events \in Seq({"good", "bad", "end"})
  /\ None \notin Scripts \cup Row \cup Stop

Arm == 1..2      \* the first is the baseline
Trial == 1..FireTrials + QuietTrials
Quiet(t) == t > FireTrials

\* The arms of a trial are adjacent in the work.
Work == 1..2 * (FireTrials + QuietTrials)
TrialOf(i) == (i + 1) \div 2
ArmOf(i) == 2 - (i % 2)
Place(t, a) == 2 * t - 2 + a
FireWork == {i \in Work : ~Quiet(TrialOf(i))}
NegativeWork == Work \ FireWork

\* A script has the workflows the session invokes, "good" for one that is expected
\* and "bad" for another, and its terminal event; how the session exits; and whether
\* the context of its arm reached it.
Script(events, exit, injected) == [events |-> events, exit |-> exit, injected |-> injected]

VARIABLES
  phase,     \* "fire", "quiet" or "scored"
  start,     \* where the current block of should-fire work starts
  session,   \* what happens at each place of the work
  rows,      \* results, by place
  stopped    \* where the comparison was stopped, and its verdict then

activationVars == <<phase, start, session, rows, stopped>>
-----------------------------------------------------------------------------
Fired(events) == {events[k] : k \in DOMAIN events} \ {"end"}
Seen(s) == SubSeq(s.script.events, 1, s.read)

\* Case.satisfied_by: what is expected fired and nothing forbidden did.
SatisfiedBy(t, fired) ==
  IF Quiet(t) THEN fired = {}
  ELSE "good" \in fired /\ ~(t \in Forbidding /\ "bad" \in fired)

\* Mutant: any workflow settles a run.
MutSettled(t, fired) == fired # {}

\* Silence never settles a run, nor does anything where silence is expected.
Settled(t, fired) ==
  ~Quiet(t) /\ (SatisfiedBy(t, fired) \/ (t \in Forbidding /\ "bad" \in fired))

Waiting == [at |-> "waiting", attempt |-> 0, script |-> None, read |-> 0,
            expired |-> FALSE, early |-> FALSE]

ActivationInit ==
  /\ phase = "fire" /\ start = 0
  /\ session = [i \in Work |-> Waiting]
  /\ rows = [i \in Work |-> None]
  /\ stopped = None
-----------------------------------------------------------------------------
(* The pool.                                                               *)

\* A block holds whole trials, whatever the number of workers.
Width == (IF Workers > 2 THEN Workers ELSE 2) * BlockTrials
Block == 2 * ((Width + 1) \div 2)

Submitted ==
  IF phase = "quiet" THEN NegativeWork ELSE {i \in FireWork : start < i /\ i <= start + Block}

AtWork == {i \in Work : session[i].at \notin {"waiting", "done"}}

Spawn(i, attempt) ==
  \E script \in Scripts :
    session' = [session EXCEPT ![i] = [Waiting EXCEPT !.at = "reading", !.attempt = attempt,
                                                      !.script = script]]

Take(i) ==
  /\ i \in Submitted /\ session[i].at = "waiting"
  /\ \A j \in Submitted : j < i => session[j].at # "waiting"
  /\ Cardinality(AtWork) < Workers
  /\ Spawn(i, 1)
  /\ UNCHANGED <<phase, start, rows, stopped>>

(* One case that cannot be spawned does not end the matrix.                *)
SpawnFails(i) ==
  /\ i \in Submitted /\ session[i].at = "waiting"
  /\ \A j \in Submitted : j < i => session[j].at # "waiting"
  /\ Cardinality(AtWork) < Workers
  /\ session' = [session EXCEPT ![i].at = "placed"]
  /\ rows' = [rows EXCEPT ![i] = [complete |-> FALSE, passed |-> FALSE]]
  /\ UNCHANGED <<phase, start, stopped>>
-----------------------------------------------------------------------------
(* A session: its reader, and the watchdog's own thread.                   *)

SessionStep(i) == UNCHANGED <<phase, start, rows, stopped>>

ReadLine(i) ==
  LET s == session[i] IN
  /\ s.at = "reading" /\ s.read < Len(s.script.events)
  /\ LET seen == SubSeq(s.script.events, 1, s.read + 1)
         settles == seen[s.read + 1] # "end" /\ Settled(TrialOf(i), Fired(seen)) IN
     session' = [session EXCEPT ![i].read = s.read + 1,
                                ![i].early = settles,
                                ![i].at = IF settles THEN "closing" ELSE "reading"]
  /\ SessionStep(i)

\* The stream ends with the session, or anywhere once the watchdog kills it.
ReadEnd(i) ==
  LET s == session[i] IN
  /\ s.at = "reading"
  /\ s.expired \/ s.read = Len(s.script.events)
  /\ session' = [session EXCEPT ![i].at = "closing"]
  /\ SessionStep(i)

\* The timer fires until it is cancelled, which is after the reader has stopped.
Expire(i) ==
  /\ session[i].at \in {"reading", "closing"} /\ ~session[i].expired
  /\ session' = [session EXCEPT ![i].expired = TRUE]
  /\ SessionStep(i)

LooksRateLimited(s) == ~s.early /\ ~s.expired /\ s.script.exit = "throttled"

StreamError(s) == s.expired \/ (s.script.exit # "ok" /\ ~s.early)

\* The terminal event is asked of every run but one that was stopped as settled.
MissingTerminal(t, s) ==
  "end" \notin {Seen(s)[k] : k \in DOMAIN Seen(s)} /\ ~(s.early /\ ~Quiet(t))

Observe(t, s) ==
  LET complete == /\ ~StreamError(s)
                  /\ ~MissingTerminal(t, s)
                  /\ s.script.injected
                  /\ ~(s.early /\ Quiet(t)) IN
  [complete |-> complete, passed |-> complete /\ SatisfiedBy(t, Fired(Seen(s)))]

Close(i) ==
  LET s == session[i] IN
  /\ s.at = "closing"
  /\ IF LooksRateLimited(s) /\ s.attempt < MaxAttempts
     THEN session' = [session EXCEPT ![i].at = "backoff"] /\ UNCHANGED rows
     ELSE /\ session' = [session EXCEPT ![i].at = "placed"]
          /\ rows' = [rows EXCEPT ![i] = Observe(TrialOf(i), s)]
  /\ UNCHANGED <<phase, start, stopped>>

Retry(i) ==
  /\ session[i].at = "backoff"
  /\ Spawn(i, session[i].attempt + 1)
  /\ UNCHANGED <<phase, start, rows, stopped>>

\* The progress line; the worker is free again.
Report(i) ==
  /\ session[i].at = "placed"
  /\ session' = [session EXCEPT ![i] = [Waiting EXCEPT !.at = "done"]]
  /\ UNCHANGED <<phase, start, rows, stopped>>
-----------------------------------------------------------------------------
(* The comparison of the second arm with the baseline, in integers: the     *)
(* interval of the paired difference d of n pairs with a + b disagreements   *)
(* is (d -+ z * sqrt(V)) / (n + 2), V = a + b + 1 - d * d / (n + 2).         *)

Complete(t, a) == rows[Place(t, a)] # None /\ rows[Place(t, a)].complete
Passed(t, a) == rows[Place(t, a)].passed

Pairs == {t \in Trial : ~Quiet(t) /\ Complete(t, 1) /\ Complete(t, 2)}
Only(a) == Cardinality({t \in Pairs : Passed(t, a) /\ ~Passed(t, 3 - a)})

\* Of n pairs, where a trial passed under one arm only.
Compare(n, first, second) ==
  LET d == second - first
      spread == 384146 * ((first + second + 1) * (n + 2) - d * d)
      apart == 100000 * d * d * (n + 2) > spread
      low == 10 * d + Margin * (n + 2)
      high == Margin * (n + 2) - 10 * d
      inside(x) == x >= 0 /\ 1000 * x * x * (n + 2) >= spread IN
  CASE n = 0 -> "undecidable"
    [] n > 0 /\ d > 0 /\ apart -> "superior"
    [] n > 0 /\ d < 0 /\ apart -> "inferior"
    [] n > 0 /\ ~(d # 0 /\ apart) /\ inside(low) /\ inside(high) -> "equivalent"
    [] OTHER -> "not-proven"

Verdict == Compare(Cardinality(Pairs), Only(1), Only(2))

Decided == Verdict \in {"superior", "inferior", "equivalent"}

NextBlock ==
  /\ phase = "fire" /\ \A i \in Submitted : session[i].at = "done"
  /\ IF start + Block >= 2 * FireTrials
     THEN phase' = "quiet" /\ UNCHANGED <<start, stopped>>
     ELSE IF Decided
     THEN phase' = "quiet" /\ stopped' = [at |-> start + Block, verdict |-> Verdict]
          /\ UNCHANGED start
     ELSE start' = start + Block /\ UNCHANGED <<phase, stopped>>
  /\ UNCHANGED <<session, rows>>

ScoreArms ==
  /\ phase = "quiet" /\ \A i \in NegativeWork : session[i].at = "done"
  /\ phase' = "scored"
  /\ UNCHANGED <<start, session, rows, stopped>>

\* score_arm and gate: rates are over complete runs, and a missing rate fails.
Measured(a, quiet) == {t \in Trial : Quiet(t) = quiet /\ Complete(t, a)}
Passing(a, quiet) == {t \in Measured(a, quiet) : Passed(t, a)}

Gate ==
  \A a \in Arm :
    /\ Measured(a, FALSE) # {}
    /\ 10 * Cardinality(Passing(a, FALSE)) >= Floor * Cardinality(Measured(a, FALSE))
    /\ IF Measured(a, TRUE) = {} THEN QuietTrials = 0
       ELSE 10 * Cardinality(Measured(a, TRUE) \ Passing(a, TRUE))
              <= MaxFalse * Cardinality(Measured(a, TRUE))

ActivationNext ==
  \/ \E i \in Work :
       \/ Take(i) \/ SpawnFails(i) \/ ReadLine(i) \/ ReadEnd(i) \/ Expire(i)
       \/ Close(i) \/ Retry(i) \/ Report(i)
  \/ NextBlock \/ ScoreArms

ActivationSpec == ActivationInit /\ [][ActivationNext]_activationVars
-----------------------------------------------------------------------------
\* What the host would have shown had nobody stopped it.
FinalVerdict(i) == SatisfiedBy(TrialOf(i), Fired(session[i].script.events))

\* A row that counts is of a session whose context was its arm's and that ended well
\* by itself or was stopped as settled; a throttled, dead or late one never counts, as
\* a pass or as a miss.
RowsAreMeasured ==
  \A i \in Work :
    LET s == session[i] IN
    s.at = "placed" /\ s.script # None /\ rows[i].complete =>
      /\ s.script.injected /\ ~s.expired
      /\ s.early \/ (s.script.exit = "ok" /\ s.read = Len(s.script.events))
      /\ TrialOf(i) \notin Forbidding => rows[i].passed = FinalVerdict(i)

\* The comparison stops only between whole trials and only with a verdict, the one it
\* publishes; whatever was stopped, every trial that expects silence has its rows.
StopIsWhole ==
  phase = "scored" =>
    /\ \A t \in Trial : rows[Place(t, 1)] = None <=> rows[Place(t, 2)] = None
    /\ \A i \in NegativeWork : rows[i] # None
    /\ (\E i \in FireWork : rows[i] = None) => stopped # None /\ stopped.verdict = Verdict

\* The gate lets nothing pass that was not measured on both sides.
GateIsEarned ==
  phase = "scored" /\ Gate =>
    \A a \in Arm, quiet \in {q \in BOOLEAN : q => QuietTrials > 0} :
      \E t \in Trial : Quiet(t) = quiet /\ Complete(t, a)

ActivationIsMeasured == RowsAreMeasured /\ StopIsWhole /\ GateIsEarned
=============================================================================
