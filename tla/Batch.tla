------------------------------- MODULE Batch -------------------------------
(* The controller A/B batch (scripts/controller_ab_batch.py) and the        *)
(* finalizer of its evidence (scripts/finalize_controller_ab_evidence.py).  *)
(* A coordinator runs the provider jobs of a frozen schedule one after the  *)
(* other, journals them, condenses their output and removes the work        *)
(* directory; it may die between any two file operations and be started     *)
(* again on the same output directory.  One coordinator runs at a time; the *)
(* runner it started may outlive it.                                        *)
EXTENDS Naturals, Absence

CONSTANTS
  LastJob,    \* the schedule is 1..LastJob
  Dir,        \* work directories, and the paths an operator may name
  Config,     \* digests of the configuration, task contract, runner and code
  MaxStarts   \* bound: starts of a coordinator

ASSUME BatchBounds == LastJob \in Nat \ {0} /\ MaxStarts \in Nat

Job == 1..LastJob
Output == {"none", "partial", "valid", "invalid"}

ASSUME NoneIsNoDirectory == None \notin Dir /\ None \notin [Job -> Output]

VARIABLES
  made,      \* how far the output directory was created, 0..4
  frozen,    \* the configuration of its manifest
  journal,   \* batch-journal.jsonl: the state of every job
  torn,      \* the journal ends in part of a record
  pointer,   \* active-workdir.json and debug-workdir.json
  session,   \* the job outputs below each work directory, None when it is gone
  evidence,  \* the files that condense the outputs
  runner,    \* the job a runner process is working on, and where
  co,        \* the coordinator
  bundle,    \* the combined bundle of the finalizer, and what it has read
  calls,     \* how often a runner was started for a job (only counted)
  starts

batchVars == <<made, frozen, journal, torn, pointer, session, evidence, runner, co, bundle,
               calls, starts>>
-----------------------------------------------------------------------------
RowState == {"none", "started", "completed", "failed", "interrupted"}
Stage == {"idle", "create", "prepare", "adopt", "journal", "jobs", "call", "running",
          "returned", "materialize", "final", "analyse", "index", "status", "validate",
          "clean", "unpoint", "measure", "debug", "undebug", "verdict", "voidAnalysis",
          "voidStatus", "retain", "unretain"}

\* What the coordinator index digests.
Condensed == [journal : [Job -> RowState], receipts : SUBSET Job,
              analysis : {"none", "report", "invalid"}]
Evidence == [receipts : SUBSET Job, analysis : {"none", "report", "invalid"},
             index : Condensed \cup {None}, status : {"none", "complete", "invalid"},
             verdict : BOOLEAN]
Coordinator == [at : Stage, config : Config, dir : Dir \cup {None}, job : 1..LastJob + 1,
                retain : BOOLEAN, asked : Dir \cup {None}]

BatchTypeOK ==
  /\ made \in 0..4 /\ frozen \in Config \cup {None}
  /\ journal \in [Job -> RowState] /\ torn \in BOOLEAN
  /\ pointer \in [active : Dir \cup {None}, debug : Dir \cup {None}]
  /\ session \in [Dir -> [Job -> Output] \cup {None}]
  /\ evidence \in Evidence
  /\ runner \in [job : Job \cup {0}, dir : Dir \cup {None}]
  /\ co \in Coordinator \cup {None}
  /\ bundle \in [read : Evidence \cup {None}, signed : Condensed \cup {None},
                 published : Evidence \cup {None}]
  /\ calls \in [Job -> 0..MaxStarts] /\ starts \in 0..MaxStarts

NoRunner == [job |-> 0, dir |-> None]

BatchInit ==
  /\ made = 0 /\ frozen = None
  /\ journal = [j \in Job |-> "none"] /\ torn = FALSE
  /\ pointer = [active |-> None, debug |-> None]
  /\ session = [d \in Dir |-> None]
  /\ evidence = [receipts |-> {}, analysis |-> "none", index |-> None, status |-> "none",
                 verdict |-> FALSE]
  /\ runner = NoRunner /\ co = None
  /\ bundle = [read |-> None, signed |-> None, published |-> None]
  /\ calls = [j \in Job |-> 0] /\ starts = 0
-----------------------------------------------------------------------------
(* Reading the files.                                                      *)

CondensedNow(e) == [journal |-> journal, receipts |-> e.receipts, analysis |-> e.analysis]

\* validate_compact_evidence
Compact(e) == e.status = "complete" /\ e.index = CondensedNow(e)

\* The status and an index are there and no work directory is recorded.
Finished ==
  /\ evidence.status # "none" /\ evidence.index # None
  /\ pointer = [active |-> None, debug |-> None]

Recorded == IF pointer.active # None THEN pointer.active ELSE pointer.debug

Outputs == IF session[co.dir] = None THEN [j \in Job |-> "none"] ELSE session[co.dir]

Goto(stage) == co' = [co EXCEPT !.at = stage]
Ends == co' = None

files == <<made, frozen, journal, torn, pointer, session, evidence>>
others == <<runner, bundle, calls, starts>>
-----------------------------------------------------------------------------
(* Starting: the frozen identity and the work directory.                   *)

\* load_config and the binding to the task contract and protocol have accepted c.
\* An output directory goes on only under the manifest and schedule it was created
\* with; one that is finished is only validated.
StartBatch(c, retain, asked) ==
  /\ co = None /\ starts < MaxStarts
  /\ made > 0 => made >= 3 /\ frozen = c /\ ~Finished
  /\ starts' = starts + 1
  /\ co' = [at |-> IF made = 0 THEN "create" ELSE "prepare", config |-> c, dir |-> None,
            job |-> 1, retain |-> retain, asked |-> asked]
  /\ UNCHANGED <<files, runner, bundle, calls>>

\* mkdir, frozen-manifest.json, randomized-schedule.json, batch-journal.jsonl
CreateOutput ==
  /\ co # None /\ co.at = "create"
  /\ made' = made + 1
  /\ frozen' = IF made' >= 2 THEN co.config ELSE None
  /\ IF made' = 4 THEN Goto("prepare") ELSE UNCHANGED co
  /\ UNCHANGED <<journal, torn, pointer, session, evidence, others>>

\* _prepare_batch_workdir: the recorded directory if there is one and it still
\* exists and is the one asked for, otherwise a new one.
ResumeWorkdir ==
  /\ co # None /\ co.at = "prepare" /\ Recorded # None
  /\ IF session[Recorded] = None \/ co.asked \notin {None, Recorded}
     THEN Ends /\ UNCHANGED pointer
     ELSE /\ co' = [co EXCEPT !.dir = Recorded,
                              !.at = IF pointer.active = None THEN "adopt" ELSE "journal"]
          /\ pointer' = [pointer EXCEPT !.active = Recorded]
  /\ UNCHANGED <<made, frozen, journal, torn, session, evidence, others>>

ForgetDebug ==
  /\ co # None /\ co.at = "adopt"
  /\ pointer' = [pointer EXCEPT !.debug = None]
  /\ Goto("journal")
  /\ UNCHANGED <<made, frozen, journal, torn, session, evidence, others>>

NewWorkdir(d) ==
  /\ co # None /\ co.at = "prepare" /\ Recorded = None
  /\ session[d] = None /\ co.asked \in {None, d}
  /\ session' = [session EXCEPT ![d] = [j \in Job |-> "none"]]
  /\ \/ /\ pointer' = [pointer EXCEPT !.active = d]
        /\ co' = [co EXCEPT !.dir = d, !.at = "journal"]
     \/ UNCHANGED pointer /\ Ends
  /\ UNCHANGED <<made, frozen, journal, torn, evidence, others>>
-----------------------------------------------------------------------------
(* The jobs.                                                               *)

\* read_journal: a record that does not parse stops the resume; a job without a
\* completed end closes the experiment as invalid.
ReadJournal ==
  /\ co # None /\ co.at = "journal"
  /\ IF torn THEN Ends
     ELSE IF \A j \in Job : journal[j] \in {"none", "completed"} THEN Goto("jobs")
     ELSE Goto("debug")
  /\ UNCHANGED <<files, others>>

\* _append_journal: the record, or part of it when the process dies.
Note(j, row, next) ==
  \/ journal' = [journal EXCEPT ![j] = row] /\ UNCHANGED torn /\ Goto(next)
  \/ torn' = TRUE /\ UNCHANGED journal /\ Ends

\* Mutant: the job is recorded when its runner has returned.
MutStartJob ==
  /\ co # None /\ co.at = "jobs" /\ co.job <= LastJob
  /\ journal[co.job] # "completed" /\ Outputs[co.job] = "none"
  /\ Goto("call")
  /\ UNCHANGED <<files, others>>

StartJob ==
  /\ co # None /\ co.at = "jobs" /\ co.job <= LastJob
  /\ journal[co.job] # "completed" /\ Outputs[co.job] = "none"
  /\ Note(co.job, "started", "call")
  /\ UNCHANGED <<made, frozen, pointer, session, evidence, others>>

\* Outputs of completed jobs are validated again; an output nobody recorded, like
\* one that no longer validates, closes the experiment.
PassJob ==
  /\ co # None /\ co.at = "jobs" /\ co.job <= LastJob
  /\ journal[co.job] = "completed" \/ Outputs[co.job] # "none"
  /\ IF journal[co.job] = "completed" /\ Outputs[co.job] = "valid"
     THEN co' = [co EXCEPT !.job = co.job + 1]
     ELSE Goto("debug")
  /\ UNCHANGED <<files, others>>

\* runner_command, invoke
CallRunner ==
  /\ co # None /\ co.at = "call"
  /\ runner' = [job |-> co.job, dir |-> co.dir]
  /\ calls' = [calls EXCEPT ![co.job] = @ + 1]
  /\ Goto("running")
  /\ UNCHANGED <<files, bundle, starts>>

\* The runner process writes its output and ends, whoever still waits for it.
RunnerWrites(o) ==
  /\ runner.job # 0
  /\ IF session[runner.dir] = None THEN UNCHANGED session
     ELSE session' = [session EXCEPT ![runner.dir][runner.job] = o]
  /\ runner' = IF o = "partial" THEN runner ELSE NoRunner
  /\ UNCHANGED <<made, frozen, journal, torn, pointer, evidence, co, bundle, calls, starts>>

\* It ends before it has written anything.
RunnerFails ==
  /\ runner.job # 0
  /\ runner' = NoRunner
  /\ UNCHANGED <<files, co, bundle, calls, starts>>

\* ^C: the job is interrupted, the runner with it.
Interrupt ==
  /\ co # None /\ co.at = "running" /\ runner.job # 0
  /\ runner' = NoRunner
  /\ Note(co.job, "interrupted", "retain")
  /\ UNCHANGED <<made, frozen, pointer, session, evidence, bundle, calls, starts>>

\* Mutant: the exit code alone completes the job.
MutJobReturns ==
  /\ co # None /\ co.at = "running" /\ runner.job = 0
  /\ Note(co.job, "completed", "materialize") \/ Note(co.job, "failed", "debug")
  /\ UNCHANGED <<made, frozen, pointer, session, evidence, others>>

\* An exit code other than 0 and 1 fails the job whatever it wrote, and so does an
\* output that validate_job_output refuses.
JobReturns ==
  /\ co # None /\ co.at = "running" /\ runner.job = 0
  /\ \/ Outputs[co.job] = "valid" /\ Note(co.job, "completed", "materialize")
     \/ Note(co.job, "failed", "debug")
  /\ UNCHANGED <<made, frozen, pointer, session, evidence, others>>
-----------------------------------------------------------------------------
(* The condensed evidence.                                                 *)

Completed == {j \in Job : journal[j] = "completed"}

\* materialize, after every job and once more at the end; an error closes the
\* experiment.
Materialize ==
  /\ co # None
  /\ co.at = "materialize" \/ (co.at = "jobs" /\ co.job > LastJob)
  /\ \/ /\ evidence' = [evidence EXCEPT !.receipts = Completed]
        /\ co' = IF co.job > LastJob THEN [co EXCEPT !.at = "analyse"]
                 ELSE [co EXCEPT !.at = "jobs", !.job = co.job + 1]
     \/ UNCHANGED evidence /\ Goto("debug")
  /\ UNCHANGED <<made, frozen, journal, torn, pointer, session, others>>

\* compare, analysis-with-ci95.json
Analyse ==
  /\ co # None /\ co.at = "analyse"
  /\ \/ evidence' = [evidence EXCEPT !.analysis = "report"] /\ Goto("index")
     \/ UNCHANGED evidence /\ Goto("debug")
  /\ UNCHANGED <<made, frozen, journal, torn, pointer, session, others>>

\* materialize_coordinator_index
WriteIndex ==
  /\ co # None /\ co.at = "index"
  /\ evidence' = [evidence EXCEPT !.index = CondensedNow(evidence)]
  /\ Goto("status")
  /\ UNCHANGED <<made, frozen, journal, torn, pointer, session, others>>

\* batch-status.json; `complete` is that every job of the schedule is completed.
WriteStatus ==
  /\ co # None /\ co.at = "status"
  /\ evidence' = [evidence EXCEPT !.status = "complete"]
  /\ Goto("validate")
  /\ UNCHANGED <<made, frozen, journal, torn, pointer, session, others>>

Validate ==
  /\ co # None /\ co.at = "validate"
  /\ IF ~Compact(evidence) THEN Ends
     ELSE Goto(IF co.retain THEN "retain" ELSE "clean")
  /\ UNCHANGED <<files, others>>
-----------------------------------------------------------------------------
(* The work directory afterwards.                                          *)

\* finalize_workdir: the tree goes in pieces, and what cannot be removed is an
\* error that keeps the rest for debugging.
Clean ==
  /\ co # None /\ co.at = "clean"
  /\ \/ /\ \E S \in SUBSET Job :
             session' = [session EXCEPT ![co.dir] =
                           [j \in Job |-> IF j \in S THEN "none" ELSE Outputs[j]]]
        /\ co' \in {co, [co EXCEPT !.at = "retain"]}
     \/ session' = [session EXCEPT ![co.dir] = None] /\ Goto("unpoint")
  /\ UNCHANGED <<made, frozen, journal, torn, pointer, evidence, others>>

Unpoint ==
  /\ co # None /\ co.at = "unpoint"
  /\ pointer' = [pointer EXCEPT !.active = None]
  /\ Ends
  /\ UNCHANGED <<made, frozen, journal, torn, session, evidence, others>>

\* _record_debug_workdir: debug-workdir.json first, then active-workdir.json goes.
RecordDebug ==
  /\ co # None /\ co.at \in {"debug", "retain"}
  /\ pointer' = [pointer EXCEPT !.debug = co.dir]
  /\ Goto(IF co.at = "debug" THEN "undebug" ELSE "unretain")
  /\ UNCHANGED <<made, frozen, journal, torn, session, evidence, others>>

ForgetActive ==
  /\ co # None /\ co.at \in {"undebug", "unretain"}
  /\ pointer' = [pointer EXCEPT !.active = None]
  /\ IF co.at = "undebug" THEN Goto("verdict") ELSE Ends
  /\ UNCHANGED <<made, frozen, journal, torn, session, evidence, others>>

\* materialize_invalid_bundle, file by file.
CloseInvalid ==
  /\ co # None /\ co.at \in {"verdict", "voidAnalysis", "voidStatus"}
  /\ CASE co.at = "verdict" ->
            evidence' = [evidence EXCEPT !.verdict = TRUE] /\ Goto("voidAnalysis")
       [] co.at = "voidAnalysis" ->
            evidence' = [evidence EXCEPT !.analysis = "invalid"] /\ Goto("voidStatus")
       [] co.at = "voidStatus" ->
            evidence' = [evidence EXCEPT !.status = "invalid"] /\ Ends
  /\ UNCHANGED <<made, frozen, journal, torn, pointer, session, others>>

\* The coordinator dies, or an error that nothing handles ends it.
CoordinatorDies ==
  /\ co # None
  /\ Ends
  /\ UNCHANGED <<files, others>>
-----------------------------------------------------------------------------
(* The finalizer; the second coordinator output it combines is like this   *)
(* one.                                                                    *)

\* A host-independent verifier confirms the index of a batch.
VerifierSigns ==
  /\ evidence.index # None /\ Compact(evidence)
  /\ bundle' = [bundle EXCEPT !.signed = evidence.index]
  /\ UNCHANGED <<files, runner, co, calls, starts>>

\* _load_coordinator_output: the index has the digests of the artifacts, the batch
\* is complete and its schedule has exactly these receipts.
Loads(e) ==
  /\ Compact(e) /\ e.index = bundle.signed
  /\ e.receipts = Job

LoadOutput ==
  /\ bundle.published = None /\ bundle.signed # None /\ Loads(evidence)
  /\ bundle' = [bundle EXCEPT !.read = evidence]
  /\ UNCHANGED <<files, runner, co, calls, starts>>

\* _assert_sources_unchanged, then the staged bundle is renamed into place; a
\* refusal, an error of the evaluation or a crash leaves no bundle.
Publish ==
  /\ bundle.read # None
  /\ bundle' = [bundle EXCEPT
       !.published = IF evidence = bundle.read THEN evidence ELSE None, !.read = None]
  /\ UNCHANGED <<files, runner, co, calls, starts>>

GiveUpPublishing ==
  /\ bundle.read # None
  /\ bundle' = [bundle EXCEPT !.read = None]
  /\ UNCHANGED <<files, runner, co, calls, starts>>
-----------------------------------------------------------------------------
BatchNext ==
  \/ \E c \in Config, retain \in BOOLEAN, asked \in Dir \cup {None} :
       StartBatch(c, retain, asked)
  \/ CreateOutput \/ ResumeWorkdir \/ ForgetDebug \/ ReadJournal
  \/ \E d \in Dir : NewWorkdir(d)
  \/ StartJob \/ PassJob \/ CallRunner \/ Interrupt \/ JobReturns
  \/ \E o \in Output \ {"none"} : RunnerWrites(o)
  \/ RunnerFails
  \/ Materialize \/ Analyse \/ WriteIndex \/ WriteStatus \/ Validate
  \/ Clean \/ Unpoint \/ RecordDebug \/ ForgetActive \/ CloseInvalid
  \/ CoordinatorDies
  \/ VerifierSigns \/ LoadOutput \/ Publish \/ GiveUpPublishing

BatchSpec == BatchInit /\ [][BatchNext]_batchVars
-----------------------------------------------------------------------------
\* "The batch journal never automatically retries an interrupted provider job"
\* (docs/evidence.md:344): whenever the coordinator dies, is interrupted or is
\* started again, with a runner that outlived it or a journal record cut short, no
\* job of the schedule is given to the provider twice.
JobCalledOnce == \A j \in Job : calls[j] <= 1

\* A bundle that was published holds the receipts of every job, each run once and to
\* a valid end under the frozen configuration, and the work directory is not
\* removed before that is in the evidence: a completed job whose output is gone has
\* its receipts condensed.
BundleIsEarned ==
  /\ bundle.published # None =>
       /\ bundle.published.receipts = Job
       /\ \A j \in Job : calls[j] = 1 /\ journal[j] = "completed"
       /\ bundle.published.analysis = "report"
  /\ \A j \in Job : journal[j] = "completed" /\ evidence.receipts # Job =>
       Recorded # None /\ session[Recorded] # None /\ session[Recorded][j] = "valid"
=============================================================================
