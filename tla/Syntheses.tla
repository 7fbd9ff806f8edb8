------------------------------ MODULE Syntheses ------------------------------
(* What the skills make of the reports of several agents, which arrive in any *)
(* order: the hypotheses of a diagnosis (investigation_protocol.py) and the   *)
(* verdicts of a review (review_protocol.py); how both choose what agents to  *)
(* ask; and whether a delivery may be closed (knowledge_closeout.py).         *)
EXTENDS Naturals, Sequences, FiniteSets, Ranking, Absence

CONSTANTS
  Hypotheses,   \* findings of a diagnosis: [key, confidence, evidence]
  Issues,       \* findings of a review: [key, axis, severity, confidence, problem, evidence]
  Passes,       \* its passes: [axis, verdict, evidence]
  MaxReports,   \* bound
  Surfaces      \* knowledge surfaces

VARIABLES
  hypotheses,   \* findings of a diagnosis, in the order they were handed in
  issues, passes,  \* what a review was handed
  response      \* what route, select_angles or assess answered

synthesesVars == <<hypotheses, issues, passes, response>>
-----------------------------------------------------------------------------
\* CONFIDENCE and LEVEL: low, medium, high.
Levels == 0..2
Axes == {"contract", "quality"}
PassVerdicts == {"confirmed", "failed", "inconclusive"}

ASSUME SynthesesConstants ==
  /\ \A f \in Hypotheses : f.key \in Nat /\ f.confidence \in Levels /\ IsFiniteSet(f.evidence)
  /\ \A f \in Issues : /\ f.key \in Nat /\ f.axis \in Axes
                       /\ f.severity \in Levels /\ f.confidence \in Levels
  /\ \A v \in Passes : v.axis \in Axes /\ v.verdict \in PassVerdicts
  /\ MaxReports \in Nat

Least(x, y) == IF y < x THEN y ELSE x

\* Mutant: the last severity replaces the others.
MutMost(x, y) == y

Most(x, y) == IF y > x THEN y ELSE x

\* Before the first report.
NoGroups == [key \in {} |-> None]

\* Without evidence confidence is low.
Floored(item) == IF item.evidence = {} THEN [item EXCEPT !.confidence = 0] ELSE item

-----------------------------------------------------------------------------
(* investigation_protocol.synthesize.                                      *)

HypothesisOf(f) == [key |-> f.key, confidence |-> f.confidence, evidence |-> f.evidence]

\* One more finding, under its key.
Joined(grouped, f) ==
  [key \in DOMAIN grouped \cup {f.key} |->
    IF key # f.key THEN grouped[key]
    ELSE IF key \notin DOMAIN grouped THEN HypothesisOf(f)
    ELSE [grouped[key] EXCEPT !.evidence = @ \cup f.evidence,
                              !.confidence = Least(@, f.confidence)]]

Grouped(findings) ==
  LET after[k \in 0..Len(findings)] ==
        IF k = 0 THEN NoGroups ELSE Joined(after[k - 1], findings[k])
  IN after[Len(findings)]

StrongerHypothesis(a, b) ==
  \/ a.confidence > b.confidence
  \/ a.confidence = b.confidence /\ Cardinality(a.evidence) > Cardinality(b.evidence)
  \/ a.confidence = b.confidence /\ Cardinality(a.evidence) = Cardinality(b.evidence)
     /\ a.key < b.key

Diagnosis(findings) ==
  LET grouped == Grouped(findings)
      items == {Floored(grouped[key]) : key \in DOMAIN grouped} IN
  InOrder(items, {pair \in items \X items : StrongerHypothesis(pair[1], pair[2])})
-----------------------------------------------------------------------------
(* review_protocol.synthesize.                                             *)

Issue(f) ==
  [key |-> f.key, axis |-> f.axis, severity |-> f.severity, confidence |-> f.confidence,
   problems |-> {f.problem}, evidence |-> f.evidence]

Crosses(grouped, f) == f.key \in DOMAIN grouped /\ grouped[f.key].axis # f.axis

\* It raises once a key crosses axes.
Raised == [crossed |-> TRUE, by |-> NoGroups]

Merged(merged, f) ==
  IF merged.crossed \/ Crosses(merged.by, f) THEN Raised
  ELSE [crossed |-> FALSE,
        by |-> [key \in DOMAIN merged.by \cup {f.key} |->
          IF key # f.key THEN merged.by[key]
          ELSE IF key \notin DOMAIN merged.by THEN Issue(f)
          ELSE [merged.by[key] EXCEPT !.evidence = @ \cup f.evidence,
                                      !.problems = @ \cup {f.problem},
                                      !.severity = Most(@, f.severity),
                                      !.confidence = Least(@, f.confidence)]]]

MergedAll(findings) ==
  LET after[k \in 0..Len(findings)] ==
        IF k = 0 THEN [crossed |-> FALSE, by |-> NoGroups] ELSE Merged(after[k - 1], findings[k])
  IN after[Len(findings)]

Conflict(items, axis) ==
  \E item \in items : item.axis = axis /\ Cardinality(item.problems) > 1

\* _axis_verdict.
AxisVerdict(verdicts, axis, conflict) ==
  LET relevant == {verdicts[k] : k \in {i \in DOMAIN verdicts : verdicts[i].axis = axis}}
      values == {v.verdict : v \in relevant} IN
  IF relevant = {} THEN "unverified"
  ELSE IF "failed" \in values THEN "contradicted"
  ELSE IF conflict \/ "inconclusive" \in values
  THEN IF \E v \in relevant : v.evidence # {} THEN "partially verified" ELSE "unverified"
  ELSE "verified"

MoreMaterial(a, b) ==
  \/ a.severity > b.severity
  \/ a.severity = b.severity /\ a.confidence > b.confidence
  \/ a.severity = b.severity /\ a.confidence = b.confidence /\ a.key < b.key

NoReview == [refused |-> TRUE, findings |-> <<>>, verdict |-> NoGroups]

Review(findings, verdicts) ==
  LET merged == MergedAll(findings)
      items == {Floored(merged.by[key]) : key \in DOMAIN merged.by} IN
  IF merged.crossed THEN NoReview
  ELSE [refused |-> FALSE,
        findings |-> InOrder(items, {pair \in items \X items : MoreMaterial(pair[1], pair[2])}),
        verdict |-> [axis \in Axes |-> AxisVerdict(verdicts, axis, Conflict(items, axis))]]
-----------------------------------------------------------------------------
(* Whom to ask, and whether to close.                                      *)

Symptoms == [reproduced : BOOLEAN, components : 1..3, seams : 1..2, intermittent : BOOLEAN,
             regression : BOOLEAN, cheap : BOOLEAN]

Parallel(s) ==
  /\ s.reproduced /\ ~s.cheap
  /\ \/ s.components >= 2 /\ s.seams >= 2
     \/ s.intermittent /\ s.regression
     \/ s.components >= 3

\* route.
Route(s) ==
  IF ~Parallel(s) THEN {"local-investigation"}
  ELSE {"reproduction-scope", "proof-observability"}
       \cup (IF s.seams >= 2 \/ s.components >= 3 THEN {"code-path-failure-seam"} ELSE {})
       \cup (IF s.regression THEN {"recent-change-regression"} ELSE {})

Deliveries == [crosscutting : BOOLEAN, release : BOOLEAN, delegated : BOOLEAN,
            asked : BOOLEAN, boundary : BOOLEAN, modules : 1..2]

Security(c) == c.asked \/ c.boundary
Broad(c) == c.crosscutting \/ c.release \/ c.delegated \/ c.modules > 1

Angle(name, axes) == [name |-> name, axes |-> axes]

\* select_angles.
Angles(c) ==
  IF ~Broad(c) /\ ~Security(c) THEN {Angle("focused", Axes)}
  ELSE {Angle("contract-scope", {"contract"}), Angle("runtime-quality", {"quality"})}
       \cup (IF c.modules > 1 THEN {Angle("code-contracts", {"quality"})} ELSE {})
       \cup (IF c.delegated THEN {Angle("durable-evidence", Axes)} ELSE {})
       \cup (IF Security(c) THEN {Angle("security-boundary", {"quality"})} ELSE {})

Statuses == {"current", "pending", "not-applicable"}
SurfaceReports == [required : BOOLEAN, status : Statuses, evidence : BOOLEAN]

Assessable(mode, reports) ==
  /\ IF mode = "full" THEN DOMAIN reports = Surfaces ELSE DOMAIN reports # {}
  /\ \A s \in DOMAIN reports :
       /\ ~(reports[s].required /\ reports[s].status = "not-applicable")
       /\ reports[s].status = "current" => reports[s].evidence

Outstanding(reports) ==
  {s \in DOMAIN reports : reports[s].required /\ reports[s].status # "current"}

\* assess; a request is a cleanup or a write to memory.
Blocked(requests, authorized) == requests \ authorized
-----------------------------------------------------------------------------
SynthesesInit == hypotheses = <<>> /\ issues = <<>> /\ passes = <<>> /\ response = None

HandedIn == Len(hypotheses) + Len(issues) + Len(passes)

ReportHypothesis ==
  /\ HandedIn < MaxReports /\ issues = <<>> /\ passes = <<>> /\ response = None
  /\ \E f \in Hypotheses : hypotheses' = Append(hypotheses, f)
  /\ UNCHANGED <<issues, passes, response>>

ReportIssue ==
  /\ HandedIn < MaxReports /\ hypotheses = <<>> /\ response = None
  /\ \E f \in Issues : issues' = Append(issues, f)
  /\ UNCHANGED <<hypotheses, passes, response>>

ReportPass ==
  /\ HandedIn < MaxReports /\ hypotheses = <<>> /\ response = None
  /\ \E v \in Passes : passes' = Append(passes, v)
  /\ UNCHANGED <<hypotheses, issues, response>>

Ask ==
  /\ HandedIn = 0 /\ response = None
  /\ \/ \E s \in Symptoms : response' = [to |-> "route", signals |-> s, lanes |-> Route(s)]
     \/ \E c \in Deliveries : response' = [to |-> "select", change |-> c, angles |-> Angles(c)]
     \/ \E mode \in {"light", "full"}, known \in SUBSET Surfaces,
           requests \in SUBSET {"cleanup", "memory-write"},
           authorized \in SUBSET {"cleanup", "memory-write"} :
        \E reports \in [known -> SurfaceReports] :
          /\ Assessable(mode, reports)
          /\ response' = [to |-> "close", mode |-> mode, reports |-> reports,
                        requests |-> requests, authorized |-> authorized,
                        ready |-> Outstanding(reports) = {} /\ Blocked(requests, authorized) = {}]
  /\ UNCHANGED <<hypotheses, issues, passes>>

SynthesesNext == ReportHypothesis \/ ReportIssue \/ ReportPass \/ Ask

SynthesesSpec == SynthesesInit /\ [][SynthesesNext]_synthesesVars
-----------------------------------------------------------------------------
Shuffles(D) == {p \in [D -> D] : \A i \in D : \E k \in D : p[k] = i}
Reordered(s) == {[k \in DOMAIN s |-> s[p[k]]] : p \in Shuffles(DOMAIN s)}

\* A hypothesis is trusted no more than the least confident of its reports, one without
\* evidence leads only when none has any, and the order of the reports does not matter.
DiagnosisIsCautious ==
  hypotheses # <<>> =>
    LET ranked == Diagnosis(hypotheses)
        About(h) == {k \in DOMAIN hypotheses : hypotheses[k].key = h.key} IN
    /\ \A i \in DOMAIN ranked :
         /\ \A k \in About(ranked[i]) : ranked[i].confidence <= hypotheses[k].confidence
         /\ ranked[i].evidence = {} => \A j \in DOMAIN ranked : j < i \/ ranked[j].evidence = {}
    /\ \A other \in Reordered(hypotheses) : Diagnosis(other) = ranked

\* "Never average away a failed or inconclusive mandatory check": an axis is verified
\* only by passes that all confirm it, with no problem described in two ways, and one
\* more pass or finding never makes a verdict better than the worst of them; severity
\* is never lowered; and the order of the reports does not matter.
ReviewIsCautious ==
  LET review == Review(issues, passes) IN
  /\ ~review.refused =>
       /\ \A axis \in Axes :
            LET On == {k \in DOMAIN passes : passes[k].axis = axis} IN
            /\ review.verdict[axis] = "verified" =>
                 /\ On # {} /\ \A k \in On : passes[k].verdict = "confirmed"
                 /\ \A j, k \in DOMAIN issues :
                      issues[j].axis = axis /\ issues[k].key = issues[j].key =>
                        issues[k].problem = issues[j].problem
            /\ (\E k \in On : passes[k].verdict = "failed") <=>
                 review.verdict[axis] = "contradicted"
            /\ review.verdict[axis] = "partially verified" =>
                 \E k \in On : passes[k].evidence # {}
       /\ \A i \in DOMAIN review.findings, k \in DOMAIN issues :
            review.findings[i].key = issues[k].key =>
              /\ review.findings[i].severity >= issues[k].severity
              /\ review.findings[i].confidence <= issues[k].confidence
  /\ \A f \in Reordered(issues), v \in Reordered(passes) : Review(f, v) = review

\* Agents investigate in parallel only a symptom that was reproduced and that no cheap
\* probe decides, and then several; a review always has both axes covered, more of a
\* change never takes an angle away, and security is an angle of its own when it is
\* concerned; and a delivery closes only when each surface that is required is current
\* on evidence and nothing unauthorized was asked for.
AnswersHold ==
  response # None =>
    CASE response.to = "route" ->
           Cardinality(response.lanes) > 1 <=> Parallel(response.signals)
      [] response.to = "select" ->
           /\ UNION {a.axes : a \in response.angles} = Axes
           /\ Security(response.change) <=> \E a \in response.angles : a.name = "security-boundary"
           /\ \A flag \in {"crosscutting", "release", "delegated", "asked", "boundary"} :
                Cardinality(Angles([response.change EXCEPT ![flag] = TRUE])) >= Cardinality(response.angles)
      [] response.to = "close" ->
           response.ready =>
             /\ response.requests \subseteq response.authorized
             /\ \A s \in DOMAIN response.reports : response.reports[s].required =>
                  response.reports[s].status = "current" /\ response.reports[s].evidence
             /\ response.mode = "full" => DOMAIN response.reports = Surfaces

SynthesesHold == DiagnosisIsCautious /\ ReviewIsCautious /\ AnswersHold
=============================================================================
