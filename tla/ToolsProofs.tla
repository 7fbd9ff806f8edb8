---------------------------- MODULE ToolsProofs ----------------------------
(* Theorems about delegation and its evaluation: the batch, the live runs, the  *)
(* plans of the orchestration policy, the telemetry of the sessions and the     *)
(* plans of packets.                                                           *)
EXTENDS Batch, LiveRun, AgentPlan, Rollouts, PacketPlan, TLAPS, FiniteSetTheorems, SequenceTheorems

-----------------------------------------------------------------------------
(* Theorems about Batch, for a schedule of any length and any number of     *)
(* work directories, configurations and starts of the coordinator.          *)

\* The stages before the jobs, those that use the work directory, and those
\* after the last job.
Before == {"create", "prepare", "adopt", "journal"}
Working == {"adopt", "journal", "jobs", "call", "running", "materialize",
            "analyse", "index", "status", "validate", "clean", "debug",
            "retain", "unpoint", "undebug", "unretain"}
Condensing == {"analyse", "index", "status", "validate", "clean", "unpoint"}

\* The types; how often a runner was started is bounded below.
Typed ==
  /\ made \in 0..4 /\ frozen \in Config \cup {None}
  /\ journal \in [Job -> RowState] /\ torn \in BOOLEAN
  /\ pointer \in [active : Dir \cup {None}, debug : Dir \cup {None}]
  /\ session \in [Dir -> [Job -> Output] \cup {None}]
  /\ evidence \in Evidence
  /\ runner \in [job : Job \cup {0}, dir : Dir \cup {None}]
  /\ runner.job # 0 => runner.dir \in Dir
  /\ co \in Coordinator \cup {None}
  /\ bundle \in [read : Evidence \cup {None}, signed : Condensed \cup {None},
                 published : Evidence \cup {None}]
  /\ calls \in [Job -> Nat] /\ starts \in 0..MaxStarts

\* Nothing is created, and no runner called, before a coordinator has started.
Begun ==
  /\ co # None => starts >= 1
  /\ \A j \in Job : calls[j] > 0 => starts >= 1
  /\ co # None /\ co.at = "create" => made < 4

\* A runner is called once, for a job the journal says has started; a completed
\* job has had its call.
CallsAreJournaled ==
  \A j \in Job :
    /\ calls[j] <= 1
    /\ calls[j] = 1 => journal[j] # "none"
    /\ journal[j] = "completed" => calls[j] = 1

\* While a coordinator is at the jobs, the journal has no open job but its own.
JournalIsRead ==
  co # None =>
    /\ co.at \in Before => co.job = 1
    /\ co.at \in {"jobs", "call", "running", "materialize"} =>
         /\ \A j \in Job : j < co.job => journal[j] = "completed"
         /\ \A j \in Job : j # co.job => journal[j] \in {"none", "completed"}
    /\ co.at = "jobs" /\ co.job \in Job =>
         journal[co.job] \in {"none", "completed"}
    /\ co.at \in {"call", "running"} =>
         co.job \in Job /\ journal[co.job] = "started"
    /\ co.at = "call" => calls[co.job] = 0
    /\ co.at = "running" => calls[co.job] = 1
    /\ co.at = "materialize" => co.job \in Job /\ journal[co.job] = "completed"

\* The work directory it uses is the one on record.
DirectoryIsRecorded ==
  co # None =>
    /\ co.at \in Working => co.dir \in Dir /\ pointer.active = co.dir
    /\ co.at \in {"undebug", "unretain"} =>
         co.dir \in Dir /\ pointer.debug = co.dir

\* A runner that outlived its coordinator works on a job still on record as
\* started.
RunnerIsJournaled ==
  runner.job # 0 => journal[runner.job] = "started"

\* Receipts are of completed jobs; past the jobs they are of every job; an index
\* is written over a report.
EvidenceIsOfJobs ==
  /\ \A j \in evidence.receipts : journal[j] = "completed"
  /\ co # None /\ co.at \in Condensing => evidence.receipts = Job
  /\ co # None /\ co.at = "index" => evidence.analysis = "report"
  /\ evidence.index # None => evidence.index.analysis = "report"

\* What the finalizer has read or published is a whole batch.
BundleIsWhole ==
  /\ bundle.read # None =>
       bundle.read.receipts = Job /\ bundle.read.analysis = "report"
  /\ bundle.published # None =>
       /\ bundle.published.receipts = Job /\ bundle.published.analysis = "report"
       /\ \A j \in Job : journal[j] = "completed"

\* The output of a completed job is in the recorded directory until every job has
\* its receipt.
OutputsAreKept ==
  \A j \in Job : journal[j] = "completed" /\ evidence.receipts # Job =>
    Recorded # None /\ session[Recorded] # None /\ session[Recorded][j] = "valid"

IInv == /\ Typed /\ Begun /\ CallsAreJournaled /\ JournalIsRead
        /\ DirectoryIsRecorded /\ RunnerIsJournaled /\ EvidenceIsOfJobs
        /\ BundleIsWhole /\ OutputsAreKept
-----------------------------------------------------------------------------
\* Where the coordinator is after a step: it has ended, or is at one of the given
\* stages, with this job and work directory.
Arrives(stages, job, dir) ==
  \/ co' = None
  \/ /\ co' \in Coordinator /\ co'.at \in stages
     /\ co'.job = job /\ co'.dir = dir

\* A coordinator that goes on arrives at the stage it goes to.
LEMMA GotoArrives ==
  ASSUME co \in Coordinator, NEW stages, NEW s \in stages, s \in Stage, Goto(s)
  PROVE  Arrives(stages, co.job, co.dir)
BY DEF Goto, Coordinator, Arrives

\* A coordinator that ends arrives nowhere.
LEMMA EndsArrives ==
  ASSUME Ends, NEW stages
  PROVE  Arrives(stages, co.job, co.dir)
BY DEF Ends, Arrives

\* A recorded directory is a directory.
LEMMA RecordedTyped ==
  ASSUME Typed
  PROVE  Recorded \in Dir \cup {None}
BY DEF Typed, Recorded

\* The outputs of completed jobs are where they were.
LEMMA OutputsStay ==
  ASSUME OutputsAreKept,
         evidence'.receipts = evidence.receipts \/ evidence'.receipts = Job,
         \A j \in Job : journal'[j] = "completed" => journal[j] = "completed",
         evidence'.receipts # Job => Recorded' = Recorded,
         evidence'.receipts # Job => \A j \in Job :
            journal'[j] = "completed" => session'[Recorded] = session[Recorded]
  PROVE  OutputsAreKept'
BY DEF OutputsAreKept

\* A work directory is not touched before the output directory is complete.
LEMMA CreateOutputKeeps ==
  ASSUME IInv, CreateOutput
  PROVE  IInv'
<1> USE DEF IInv, Typed, CreateOutput, files, others
<1>1. co \in Coordinator
  OBVIOUS
<1>2. /\ Arrives({"create", "prepare"}, co.job, co.dir)
      /\ made' < 4 \/ co' = None \/ co'.at = "prepare"
  <2>1. CASE made' = 4
    BY <1>1, <2>1 DEF Goto, Arrives, Coordinator, Stage
  <2>2. CASE made' # 4
    BY <1>1, <2>2 DEF Arrives, Begun
  <2> QED BY <2>1, <2>2
<1>3. Typed'
  <2>1. made' \in 0..4
    BY DEF Begun
  <2>2. frozen' \in Config \cup {None}
    BY <1>1 DEF Coordinator
  <2> QED BY <1>1, <1>2, <2>1, <2>2 DEF Arrives
<1>4. /\ CallsAreJournaled'
      /\ JournalIsRead'
      /\ DirectoryIsRecorded'
      /\ RunnerIsJournaled'
      /\ EvidenceIsOfJobs'
      /\ BundleIsWhole'
  BY <1>1, <1>2, <1>3 DEF Arrives, CallsAreJournaled, JournalIsRead,
     DirectoryIsRecorded, RunnerIsJournaled, EvidenceIsOfJobs, BundleIsWhole,
     Before, Working, Condensing
<1>5. Begun'
  BY <1>1, <1>2, <1>3 DEF Arrives, Begun
<1>6. OutputsAreKept'
  BY OutputsStay DEF Recorded
<1> QED BY <1>3, <1>4, <1>5, <1>6

\* active-workdir.json already names it.
LEMMA ForgetDebugKeeps ==
  ASSUME IInv, ForgetDebug
  PROVE  IInv'
<1> USE DEF IInv, Typed, ForgetDebug, files, others
<1>1. co \in Coordinator
  OBVIOUS
<1>2. Arrives({"journal"}, co.job, co.dir)
  BY <1>1, GotoArrives, EndsArrives DEF Stage
<1>3. Typed'
  BY <1>1, <1>2 DEF Arrives, Evidence
<1>4. /\ Begun'
      /\ CallsAreJournaled'
      /\ JournalIsRead'
      /\ DirectoryIsRecorded'
      /\ RunnerIsJournaled'
      /\ EvidenceIsOfJobs'
      /\ BundleIsWhole'
  BY <1>1, <1>2, <1>3 DEF Arrives, Begun, CallsAreJournaled, JournalIsRead,
     DirectoryIsRecorded, RunnerIsJournaled, EvidenceIsOfJobs, BundleIsWhole,
     Before, Working, Condensing
<1>5. OutputsAreKept'
  <2>1. pointer.active = co.dir /\ co.dir \in Dir
    BY <1>1 DEF DirectoryIsRecorded, Working
  <2>2. Recorded' = Recorded
    BY <2>1, NoneIsNoDirectory DEF NoneIsNoDirectory, Recorded
  <2> QED BY <2>2, OutputsStay
<1> QED BY <1>3, <1>4, <1>5

\* A journal with an open job leads away from the jobs.
LEMMA ReadJournalKeeps ==
  ASSUME IInv, ReadJournal
  PROVE  IInv'
<1> USE DEF IInv, Typed, ReadJournal, files, others
<1>1. co \in Coordinator
  OBVIOUS
<1>2. Arrives({"jobs", "debug"}, co.job, co.dir)
  BY <1>1, GotoArrives, EndsArrives DEF Stage
<1>3. Typed'
  BY <1>1, <1>2 DEF Arrives, Evidence
<1>4. /\ Begun'
      /\ CallsAreJournaled'
      /\ DirectoryIsRecorded'
      /\ RunnerIsJournaled'
      /\ EvidenceIsOfJobs'
      /\ BundleIsWhole'
  BY <1>1, <1>2, <1>3 DEF Arrives, Begun, CallsAreJournaled,
     DirectoryIsRecorded, RunnerIsJournaled, EvidenceIsOfJobs, BundleIsWhole,
     Before, Working, Condensing
<1>5. OutputsAreKept'
  BY OutputsStay DEF Recorded
<1>6. JournalIsRead'
  <2>1. co.job = 1
    BY <1>1 DEF JournalIsRead, Before
  <2>2. \/ co' = None \/ co'.at = "debug"
        \/ \A j \in Job : journal[j] \in {"none", "completed"}
    BY <1>1 DEF Ends, Goto, Coordinator
  <2> QED BY <1>1, <1>2, <2>1, <2>2 DEF Arrives, JournalIsRead, Before, Job
<1> QED BY <1>3, <1>4, <1>5, <1>6

\* The job is on record as started, and this is its first call.
LEMMA CallRunnerKeeps ==
  ASSUME IInv, CallRunner
  PROVE  IInv'
<1> USE DEF IInv, Typed, CallRunner, files, others
<1>1. co \in Coordinator
  OBVIOUS
<1>2. Arrives({"running"}, co.job, co.dir)
  BY <1>1, GotoArrives, EndsArrives DEF Stage
<1>3. Typed'
  <2>1. co.job \in Job /\ co.dir \in Dir
    BY <1>1 DEF JournalIsRead, DirectoryIsRecorded, Working
  <2>2. calls' \in [Job -> Nat]
    BY <2>1
  <2> QED BY <1>1, <1>2, <2>1, <2>2 DEF Arrives
<1>4. /\ DirectoryIsRecorded'
      /\ EvidenceIsOfJobs'
      /\ BundleIsWhole'
  BY <1>1, <1>2, <1>3 DEF Arrives, DirectoryIsRecorded, EvidenceIsOfJobs,
     BundleIsWhole, Before, Working, Condensing
<1>5. OutputsAreKept'
  BY OutputsStay DEF Recorded
<1>6. CallsAreJournaled'
  BY <1>1 DEF CallsAreJournaled, JournalIsRead
<1>7. RunnerIsJournaled'
  BY <1>1 DEF RunnerIsJournaled, JournalIsRead
<1>8. JournalIsRead'
  BY <1>1, <1>2 DEF Arrives, JournalIsRead, Before
<1>9. Begun'
  BY <1>1, <1>2 DEF Arrives, Begun
<1> QED BY <1>3, <1>4, <1>5, <1>6, <1>7, <1>8, <1>9

\* The index stage is reached with a report only.
LEMMA AnalyseKeeps ==
  ASSUME IInv, Analyse
  PROVE  IInv'
<1> USE DEF IInv, Typed, Analyse, files, others
<1>1. co \in Coordinator
  OBVIOUS
<1>2. Arrives({"index", "debug"}, co.job, co.dir)
  BY <1>1, GotoArrives, EndsArrives DEF Stage
<1>3. Typed'
  BY <1>1, <1>2 DEF Arrives, Evidence
<1>4. /\ Begun'
      /\ CallsAreJournaled'
      /\ JournalIsRead'
      /\ DirectoryIsRecorded'
      /\ RunnerIsJournaled'
      /\ BundleIsWhole'
  BY <1>1, <1>2, <1>3 DEF Arrives, Begun, CallsAreJournaled, JournalIsRead,
     DirectoryIsRecorded, RunnerIsJournaled, BundleIsWhole, Before, Working,
     Condensing
<1>5. OutputsAreKept'
  BY OutputsStay DEF Recorded, Evidence
<1>6. EvidenceIsOfJobs'
  <2>1. /\ evidence'.receipts = evidence.receipts
        /\ evidence'.index = evidence.index
    BY DEF Evidence
  <2>2. co' = None \/ co'.at = "debug" \/ evidence'.analysis = "report"
    BY <1>1 DEF Goto, Evidence, Coordinator
  <2>3. evidence'.index # None => evidence'.index.analysis = "report"
    BY <2>1 DEF EvidenceIsOfJobs
  <2> QED BY <1>1, <1>2, <2>1, <2>2, <2>3 DEF Arrives, EvidenceIsOfJobs, Condensing
<1> QED BY <1>3, <1>4, <1>5, <1>6

\* The index is written after the outputs.
LEMMA WriteIndexKeeps ==
  ASSUME IInv, WriteIndex
  PROVE  IInv'
<1> USE DEF IInv, Typed, WriteIndex, files, others
<1>1. co \in Coordinator
  OBVIOUS
<1>2. Arrives({"status"}, co.job, co.dir)
  BY <1>1, GotoArrives, EndsArrives DEF Stage
<1>3. Typed'
  <2>1. CondensedNow(evidence) \in Condensed
    BY DEF CondensedNow, Condensed, Evidence
  <2>2. evidence' \in Evidence
    BY <2>1 DEF Evidence
  <2> QED BY <1>1, <1>2, <2>2 DEF Arrives
<1>4. /\ Begun'
      /\ CallsAreJournaled'
      /\ JournalIsRead'
      /\ DirectoryIsRecorded'
      /\ RunnerIsJournaled'
      /\ BundleIsWhole'
  BY <1>1, <1>2, <1>3 DEF Arrives, Begun, CallsAreJournaled, JournalIsRead,
     DirectoryIsRecorded, RunnerIsJournaled, BundleIsWhole, Before, Working,
     Condensing
<1>5. OutputsAreKept'
  BY OutputsStay DEF Recorded, Evidence
<1>6. EvidenceIsOfJobs'
  <2>1. /\ evidence'.receipts = evidence.receipts
        /\ evidence'.index = CondensedNow(evidence)
    BY DEF Evidence
  <2>2. evidence'.index.analysis = "report"
    BY <1>1, <2>1 DEF CondensedNow, EvidenceIsOfJobs
  <2> QED BY <1>1, <1>2, <2>1, <2>2 DEF Arrives, EvidenceIsOfJobs, Condensing
<1> QED BY <1>3, <1>4, <1>5, <1>6

\* The status is written after the index.
LEMMA WriteStatusKeeps ==
  ASSUME IInv, WriteStatus
  PROVE  IInv'
<1> USE DEF IInv, Typed, WriteStatus, files, others
<1>1. co \in Coordinator
  OBVIOUS
<1>2. Arrives({"validate"}, co.job, co.dir)
  BY <1>1, GotoArrives, EndsArrives DEF Stage
<1>3. Typed'
  BY <1>1, <1>2 DEF Arrives, Evidence
<1>4. /\ Begun'
      /\ CallsAreJournaled'
      /\ JournalIsRead'
      /\ DirectoryIsRecorded'
      /\ RunnerIsJournaled'
      /\ EvidenceIsOfJobs'
      /\ BundleIsWhole'
  BY <1>1, <1>2, <1>3 DEF Arrives, Begun, CallsAreJournaled, JournalIsRead,
     DirectoryIsRecorded, RunnerIsJournaled, EvidenceIsOfJobs, BundleIsWhole,
     Before, Working, Condensing
<1>5. OutputsAreKept'
  BY OutputsStay DEF Recorded, Evidence
<1> QED BY <1>3, <1>4, <1>5

\* A bundle is validated from the files of completed jobs.
LEMMA ValidateKeeps ==
  ASSUME IInv, Validate
  PROVE  IInv'
<1> USE DEF IInv, Typed, Validate, files, others
<1>1. co \in Coordinator
  OBVIOUS
<1>2. Arrives({"retain", "clean"}, co.job, co.dir)
  BY <1>1, GotoArrives, EndsArrives DEF Stage
<1>3. Typed'
  BY <1>1, <1>2 DEF Arrives, Evidence
<1>4. /\ Begun'
      /\ CallsAreJournaled'
      /\ JournalIsRead'
      /\ DirectoryIsRecorded'
      /\ RunnerIsJournaled'
      /\ EvidenceIsOfJobs'
      /\ BundleIsWhole'
  BY <1>1, <1>2, <1>3 DEF Arrives, Begun, CallsAreJournaled, JournalIsRead,
     DirectoryIsRecorded, RunnerIsJournaled, EvidenceIsOfJobs, BundleIsWhole,
     Before, Working, Condensing
<1>5. OutputsAreKept'
  BY OutputsStay DEF Recorded
<1> QED BY <1>3, <1>4, <1>5

\* Nothing goes before every job has its receipt.
LEMMA CleanKeeps ==
  ASSUME IInv, Clean
  PROVE  IInv'
<1> USE DEF IInv, Typed, Clean, files, others
<1>1. co \in Coordinator
  OBVIOUS
<1>2. Arrives({"clean", "retain", "unpoint"}, co.job, co.dir)
  BY <1>1 DEF Goto, Stage, Coordinator, Arrives<1>3. Typed'
  <2>1. co.dir \in Dir
    BY <1>1 DEF DirectoryIsRecorded, Working
  <2>2. \A S \in SUBSET Job :
          [j \in Job |-> IF j \in S THEN "none" ELSE Outputs[j]]
            \in [Job -> Output]
    BY <2>1 DEF Outputs, Output
  <2>3. session' \in [Dir -> [Job -> Output] \cup {None}]
    BY <2>1, <2>2
  <2> QED BY <1>1, <1>2, <2>3 DEF Arrives
<1>4. /\ Begun'
      /\ CallsAreJournaled'
      /\ JournalIsRead'
      /\ DirectoryIsRecorded'
      /\ RunnerIsJournaled'
      /\ EvidenceIsOfJobs'
      /\ BundleIsWhole'
  BY <1>1, <1>2, <1>3 DEF Arrives, Begun, CallsAreJournaled, JournalIsRead,
     DirectoryIsRecorded, RunnerIsJournaled, EvidenceIsOfJobs, BundleIsWhole,
     Before, Working, Condensing
<1>5. OutputsAreKept'
  <2>1. evidence.receipts = Job
    BY <1>1 DEF EvidenceIsOfJobs, Condensing
  <2> QED BY <2>1 DEF OutputsAreKept
<1> QED BY <1>3, <1>4, <1>5

\* Nor does the record of the directory.
LEMMA UnpointKeeps ==
  ASSUME IInv, Unpoint
  PROVE  IInv'
<1> USE DEF IInv, Typed, Unpoint, files, others
<1>1. co \in Coordinator
  OBVIOUS
<1>2. co' = None
  BY DEF Ends
<1>3. Typed'
  BY <1>1, <1>2 DEF Ends
<1>4. /\ Begun'
      /\ CallsAreJournaled'
      /\ JournalIsRead'
      /\ DirectoryIsRecorded'
      /\ RunnerIsJournaled'
      /\ EvidenceIsOfJobs'
      /\ BundleIsWhole'
  BY <1>1, <1>2, <1>3 DEF Arrives, Begun, CallsAreJournaled, JournalIsRead,
     DirectoryIsRecorded, RunnerIsJournaled, EvidenceIsOfJobs, BundleIsWhole,
     Before, Working, Condensing
<1>5. OutputsAreKept'
  <2>1. evidence.receipts = Job
    BY <1>1 DEF EvidenceIsOfJobs, Condensing
  <2> QED BY <2>1 DEF OutputsAreKept
<1> QED BY <1>3, <1>4, <1>5

\* A coordinator that dies leaves the files as they are.
LEMMA CoordinatorDiesKeeps ==
  ASSUME IInv, CoordinatorDies
  PROVE  IInv'
<1> USE DEF IInv, Typed, CoordinatorDies, files, others
<1>1. co \in Coordinator
  OBVIOUS
<1>2. co' = None
  BY DEF Ends
<1>3. Typed'
  BY <1>1, <1>2 DEF Ends
<1>4. /\ Begun'
      /\ CallsAreJournaled'
      /\ JournalIsRead'
      /\ DirectoryIsRecorded'
      /\ RunnerIsJournaled'
      /\ EvidenceIsOfJobs'
      /\ BundleIsWhole'
  BY <1>1, <1>2, <1>3 DEF Arrives, Begun, CallsAreJournaled, JournalIsRead,
     DirectoryIsRecorded, RunnerIsJournaled, EvidenceIsOfJobs, BundleIsWhole,
     Before, Working, Condensing
<1>5. OutputsAreKept'
  BY OutputsStay DEF Recorded
<1> QED BY <1>3, <1>4, <1>5

\* The directory is on record twice, then ...
LEMMA RecordDebugKeeps ==
  ASSUME IInv, RecordDebug
  PROVE  IInv'
<1> USE DEF IInv, Typed, RecordDebug, files, others
<1>1. co \in Coordinator
  OBVIOUS
<1>2. Arrives({"undebug", "unretain"}, co.job, co.dir)
  BY <1>1, GotoArrives, EndsArrives DEF Stage
<1>3. Typed'
  <2>1. co.dir \in Dir
    BY <1>1 DEF DirectoryIsRecorded, Working
  <2> QED BY <1>1, <1>2, <2>1 DEF Arrives
<1>4. /\ Begun'
      /\ CallsAreJournaled'
      /\ JournalIsRead'
      /\ DirectoryIsRecorded'
      /\ RunnerIsJournaled'
      /\ EvidenceIsOfJobs'
      /\ BundleIsWhole'
  BY <1>1, <1>2, <1>3 DEF Arrives, Begun, CallsAreJournaled, JournalIsRead,
     DirectoryIsRecorded, RunnerIsJournaled, EvidenceIsOfJobs, BundleIsWhole,
     Before, Working, Condensing
<1>5. OutputsAreKept'
  <2>1. pointer.active = co.dir /\ co.dir \in Dir
    BY <1>1 DEF DirectoryIsRecorded, Working
  <2>2. Recorded' = Recorded
    BY <2>1, NoneIsNoDirectory DEF NoneIsNoDirectory, Recorded
  <2> QED BY <2>2, OutputsStay
<1> QED BY <1>3, <1>4, <1>5

\* ... once, and remains the same.
LEMMA ForgetActiveKeeps ==
  ASSUME IInv, ForgetActive
  PROVE  IInv'
<1> USE DEF IInv, Typed, ForgetActive, files, others
<1>1. co \in Coordinator
  OBVIOUS
<1>2. Arrives({"verdict"}, co.job, co.dir)
  BY <1>1, GotoArrives, EndsArrives DEF Stage
<1>3. Typed'
  BY <1>1, <1>2 DEF Arrives, Evidence
<1>4. /\ Begun'
      /\ CallsAreJournaled'
      /\ JournalIsRead'
      /\ DirectoryIsRecorded'
      /\ RunnerIsJournaled'
      /\ EvidenceIsOfJobs'
      /\ BundleIsWhole'
  BY <1>1, <1>2, <1>3 DEF Arrives, Begun, CallsAreJournaled, JournalIsRead,
     DirectoryIsRecorded, RunnerIsJournaled, EvidenceIsOfJobs, BundleIsWhole,
     Before, Working, Condensing
<1>5. OutputsAreKept'
  <2>1. /\ co.dir \in Dir /\ pointer.active = co.dir
        /\ pointer'.active = None /\ pointer'.debug = co.dir
    BY <1>1 DEF DirectoryIsRecorded, Working
  <2>2. Recorded' = Recorded
    BY <2>1, NoneIsNoDirectory DEF NoneIsNoDirectory, Recorded
  <2> QED BY <2>2, OutputsStay
<1> QED BY <1>3, <1>4, <1>5

\* A batch closed as invalid keeps its receipts and its index.
LEMMA CloseInvalidKeeps ==
  ASSUME IInv, CloseInvalid
  PROVE  IInv'
<1> USE DEF IInv, Typed, CloseInvalid, files, others
<1>1. co \in Coordinator
  OBVIOUS
<1>2. /\ Arrives({"voidAnalysis", "voidStatus"}, co.job, co.dir)
      /\ evidence' \in Evidence
      /\ evidence'.receipts = evidence.receipts /\ evidence'.index = evidence.index
  <2>1. CASE co.at = "verdict"
    <3>1. /\ evidence' = [evidence EXCEPT !.verdict = TRUE]
          /\ Goto("voidAnalysis")
      BY <2>1
    <3> QED BY <1>1, <3>1, GotoArrives DEF Stage, Evidence
  <2>2. CASE co.at = "voidAnalysis"
    <3>1. /\ evidence' = [evidence EXCEPT !.analysis = "invalid"]
          /\ Goto("voidStatus")
      BY <2>2
    <3> QED BY <1>1, <3>1, GotoArrives DEF Stage, Evidence
  <2>3. CASE co.at = "voidStatus"
    <3>1. /\ evidence' = [evidence EXCEPT !.status = "invalid"]
          /\ Ends
      BY <2>3
    <3> QED BY <1>1, <3>1, EndsArrives DEF Evidence
  <2> QED BY <2>1, <2>2, <2>3<1>3. Typed'
  BY <1>1, <1>2 DEF Arrives, Evidence
<1>4. /\ Begun'
      /\ CallsAreJournaled'
      /\ JournalIsRead'
      /\ DirectoryIsRecorded'
      /\ RunnerIsJournaled'
      /\ BundleIsWhole'
  BY <1>1, <1>2, <1>3 DEF Arrives, Begun, CallsAreJournaled, JournalIsRead,
     DirectoryIsRecorded, RunnerIsJournaled, BundleIsWhole, Before, Working,
     Condensing
<1>5. EvidenceIsOfJobs'
  BY <1>1, <1>2 DEF Arrives, EvidenceIsOfJobs, Condensing
<1>6. OutputsAreKept'
  BY <1>2, OutputsStay DEF Recorded
<1> QED BY <1>3, <1>4, <1>5, <1>6

\* The directory on record stays the one on record.
LEMMA ResumeWorkdirKeeps ==
  ASSUME IInv, ResumeWorkdir
  PROVE  IInv'
<1> USE DEF IInv, Typed, ResumeWorkdir, files, others
<1>1. co \in Coordinator
  OBVIOUS
<1>2. \/ co' = None /\ pointer' = pointer
      \/ /\ co' \in Coordinator /\ co'.at \in {"adopt", "journal"}
         /\ co'.job = co.job /\ co'.dir = Recorded
         /\ Recorded \in Dir /\ pointer'.active = Recorded
         /\ pointer' \in [active : Dir \cup {None}, debug : Dir \cup {None}]
  <2>1. Recorded \in Dir
    BY RecordedTyped
  <2>2. CASE session[Recorded] = None \/ co.asked \notin {None, Recorded}
    BY <2>2 DEF Ends
  <2>3. CASE ~ (session[Recorded] = None \/ co.asked \notin {None, Recorded})
    <3>1. co' \in Coordinator /\ co'.at \in {"adopt", "journal"}
          /\ co'.job = co.job /\ co'.dir = Recorded
      <4>1. PICK s \in {"adopt", "journal"} :
              co' = [co EXCEPT !.dir = Recorded, !.at = s]
        BY <2>3
      <4>2. s \in Stage
        BY DEF Stage
      <4> QED BY <1>1, <2>1, <4>1, <4>2 DEF Coordinator
    <3>2. pointer'.active = Recorded
          /\ pointer' \in [active : Dir \cup {None}, debug : Dir \cup {None}]
      BY <2>1, <2>3
    <3> QED BY <2>1, <3>1, <3>2
  <2> QED BY <2>2, <2>3<1>3. Typed'
  BY <1>1, <1>2
<1>4. /\ Begun'
      /\ CallsAreJournaled'
      /\ JournalIsRead'
      /\ DirectoryIsRecorded'
      /\ RunnerIsJournaled'
      /\ EvidenceIsOfJobs'
      /\ BundleIsWhole'
  BY <1>1, <1>2, <1>3 DEF Arrives, Begun, CallsAreJournaled, JournalIsRead,
     DirectoryIsRecorded, RunnerIsJournaled, EvidenceIsOfJobs, BundleIsWhole,
     Before, Working, Condensing
<1>5. OutputsAreKept'
  <2>1. Recorded' = Recorded
    BY <1>2, NoneIsNoDirectory DEF NoneIsNoDirectory, Recorded
  <2> QED BY <2>1, OutputsStay
<1> QED BY <1>3, <1>4, <1>5

\* The job was not in the journal, so its runner was never called.
LEMMA StartJobKeeps ==
  ASSUME IInv, StartJob
  PROVE  IInv'
<1> USE DEF IInv, Typed, StartJob, files, others
<1>1. co \in Coordinator
  OBVIOUS
<1>2. /\ co.job \in Job /\ journal[co.job] = "none"
      /\ \/ /\ journal' = [journal EXCEPT ![co.job] = "started"]
            /\ Arrives({"call"}, co.job, co.dir)
         \/ journal' = journal /\ co' = None
  <2>1. co.job \in Job
    BY <1>1 DEF Coordinator, Job
  <2>2. journal[co.job] = "none"
    BY <1>1, <2>1 DEF JournalIsRead
  <2> QED BY <1>1, <2>1, <2>2, GotoArrives DEF Note, Ends, Stage<1>3. Typed'
  <2>1. journal' \in [Job -> RowState] /\ torn' \in BOOLEAN
    BY <1>2 DEF RowState, Note
  <2> QED BY <1>1, <1>2, <2>1 DEF Arrives
<1>4. /\ Begun'
      /\ DirectoryIsRecorded'
  BY <1>1, <1>2, <1>3 DEF Arrives, Begun, DirectoryIsRecorded, Before, Working,
     Condensing
<1>5. OutputsAreKept'
  <2>1. Recorded' = Recorded
    BY DEF Recorded
  <2> QED BY <1>2, <2>1, OutputsStay
<1>6. JournalIsRead'
  <2>1. calls[co.job] \in Nat /\ calls[co.job] <= 1 /\ calls[co.job] # 1
    BY <1>2 DEF CallsAreJournaled
  <2>2. calls[co.job] = 0
    BY <2>1
  <2> QED BY <1>1, <1>2, <2>2 DEF Arrives, JournalIsRead, Before
<1>7. CallsAreJournaled'
  BY <1>2 DEF CallsAreJournaled
<1>8. RunnerIsJournaled'
  BY <1>2 DEF RunnerIsJournaled
<1>9. EvidenceIsOfJobs'
  BY <1>1, <1>2 DEF Arrives, EvidenceIsOfJobs, Condensing, Evidence
<1>10. BundleIsWhole'
  BY <1>2 DEF BundleIsWhole
<1> QED BY <1>3, <1>4, <1>5, <1>6, <1>7, <1>8, <1>9, <1>10

\* The jobs up to here are completed.
LEMMA PassJobKeeps ==
  ASSUME IInv, PassJob
  PROVE  IInv'
<1> USE DEF IInv, Typed, PassJob, files, others
<1>1. co \in Coordinator
  OBVIOUS
<1>2. \/ /\ journal[co.job] = "completed" /\ co.job \in Job
         /\ Arrives({"jobs"}, co.job + 1, co.dir)
      \/ Arrives({"debug"}, co.job, co.dir)
  <2>1. co.job \in Job /\ co.job + 1 \in 1..LastJob + 1
    BY <1>1, BatchBounds DEF BatchBounds, Coordinator, Job
  <2>2. CASE journal[co.job] = "completed" /\ Outputs[co.job] = "valid"
    BY <1>1, <2>1, <2>2 DEF Coordinator, Arrives
  <2>3. CASE ~ (journal[co.job] = "completed" /\ Outputs[co.job] = "valid")
    BY <1>1, <2>3, GotoArrives DEF Stage
  <2> QED BY <2>2, <2>3<1>3. Typed'
  BY <1>1, <1>2 DEF Arrives, Evidence
<1>4. /\ Begun'
      /\ CallsAreJournaled'
      /\ DirectoryIsRecorded'
      /\ RunnerIsJournaled'
      /\ EvidenceIsOfJobs'
      /\ BundleIsWhole'
  BY <1>1, <1>2, <1>3 DEF Arrives, Begun, CallsAreJournaled,
     DirectoryIsRecorded, RunnerIsJournaled, EvidenceIsOfJobs, BundleIsWhole,
     Before, Working, Condensing
<1>5. OutputsAreKept'
  BY OutputsStay DEF Recorded
<1>6. JournalIsRead'
  <2>1. CASE Arrives({"jobs"}, co.job + 1, co.dir) /\ journal[co.job] = "completed"
    <3>1. \A j \in Job : j < co.job + 1 => j < co.job \/ j = co.job
      BY <1>1 DEF Coordinator, Job
    <3> QED BY <1>1, <2>1, <3>1 DEF Arrives, JournalIsRead, Before
  <2>2. CASE Arrives({"debug"}, co.job, co.dir)
    BY <2>2 DEF Arrives, JournalIsRead, Before
  <2> QED BY <1>2, <2>1, <2>2
<1> QED BY <1>3, <1>4, <1>5, <1>6

\* An interrupted job keeps its record, and is never at the jobs again.
LEMMA InterruptKeeps ==
  ASSUME IInv, Interrupt
  PROVE  IInv'
<1> USE DEF IInv, Typed, Interrupt, files, others
<1>1. co \in Coordinator
  OBVIOUS
<1>2. /\ co.job \in Job /\ journal[co.job] = "started" /\ calls[co.job] = 1
      /\ \/ /\ journal' = [journal EXCEPT ![co.job] = "interrupted"]
            /\ Arrives({"retain"}, co.job, co.dir)
         \/ journal' = journal /\ co' = None
  <2>1. co.job \in Job /\ journal[co.job] = "started" /\ calls[co.job] = 1
    BY <1>1 DEF JournalIsRead
  <2> QED BY <1>1, <2>1, GotoArrives DEF Note, Ends, Stage<1>3. Typed'
  <2>1. journal' \in [Job -> RowState] /\ torn' \in BOOLEAN
    BY <1>2 DEF RowState, Note
  <2> QED BY <1>1, <1>2, <2>1 DEF Arrives, NoRunner
<1>4. /\ Begun'
      /\ CallsAreJournaled'
      /\ JournalIsRead'
      /\ DirectoryIsRecorded'
  BY <1>1, <1>2, <1>3 DEF Arrives, Begun, CallsAreJournaled, JournalIsRead,
     DirectoryIsRecorded, Before, Working, Condensing
<1>5. RunnerIsJournaled'
  BY DEF RunnerIsJournaled, NoRunner
<1>6. OutputsAreKept'
  <2>1. Recorded' = Recorded
    BY DEF Recorded
  <2> QED BY <1>2, <2>1, OutputsStay
<1>7. EvidenceIsOfJobs'
  BY <1>1, <1>2 DEF Arrives, EvidenceIsOfJobs, Condensing, Evidence
<1>8. BundleIsWhole'
  BY <1>2 DEF BundleIsWhole
<1> QED BY <1>3, <1>4, <1>5, <1>6, <1>7, <1>8

\* Only a valid output completes the job, and it is in the recorded directory.
LEMMA JobReturnsKeeps ==
  ASSUME IInv, JobReturns
  PROVE  IInv'
<1> USE DEF IInv, Typed, JobReturns, files, others
<1>1. co \in Coordinator
  OBVIOUS
<1>2. /\ co.job \in Job /\ journal[co.job] = "started" /\ calls[co.job] = 1
      /\ \/ /\ journal' = [journal EXCEPT ![co.job] = "completed"]
            /\ Outputs[co.job] = "valid"
            /\ Arrives({"materialize"}, co.job, co.dir)
         \/ /\ journal' = [journal EXCEPT ![co.job] = "failed"]
            /\ Arrives({"debug"}, co.job, co.dir)
         \/ journal' = journal /\ co' = None
  <2>1. co.job \in Job /\ journal[co.job] = "started" /\ calls[co.job] = 1
    BY <1>1 DEF JournalIsRead
  <2> QED BY <1>1, <2>1, GotoArrives DEF Note, Ends, Stage<1>3. Typed'
  <2>1. journal' \in [Job -> RowState] /\ torn' \in BOOLEAN
    BY <1>2 DEF RowState, Note
  <2> QED BY <1>1, <1>2, <2>1 DEF Arrives
<1>4. /\ Begun'
      /\ DirectoryIsRecorded'
  BY <1>1, <1>2, <1>3 DEF Arrives, Begun, DirectoryIsRecorded, Before, Working,
     Condensing
<1>5. CallsAreJournaled'
  BY <1>2 DEF CallsAreJournaled
<1>6. JournalIsRead'
  BY <1>1, <1>2 DEF Arrives, JournalIsRead, Before
<1>7. EvidenceIsOfJobs'
  BY <1>1, <1>2 DEF Arrives, EvidenceIsOfJobs, Condensing, Evidence
<1>8. BundleIsWhole'
  BY <1>2 DEF BundleIsWhole
<1>9. RunnerIsJournaled'
  BY DEF RunnerIsJournaled
<1>10. OutputsAreKept'
  <2>1. Recorded' = Recorded /\ Recorded = co.dir /\ co.dir # None
    BY <1>1, NoneIsNoDirectory
       DEF NoneIsNoDirectory, Recorded, DirectoryIsRecorded, Working
  <2>2. CASE journal'[co.job] = "completed"
    <3>1. Outputs[co.job] = "valid"
      BY <1>2, <2>2
    <3>2. session[co.dir] # None /\ session[co.dir][co.job] = "valid"
      BY <1>2, <3>1 DEF Outputs
    <3> QED BY <1>2, <2>1, <3>2 DEF OutputsAreKept
  <2>3. CASE journal'[co.job] # "completed"
    BY <1>2, <2>1, <2>3 DEF OutputsAreKept
  <2> QED BY <2>2, <2>3
<1> QED BY <1>3, <1>4, <1>5, <1>6, <1>7, <1>8, <1>9, <1>10

\* Past the last job every job is completed, so the receipts are of all.
LEMMA MaterializeKeeps ==
  ASSUME IInv, Materialize
  PROVE  IInv'
<1> USE DEF IInv, Typed, Materialize, files, others
<1>1. co \in Coordinator
  OBVIOUS
<1>2. \/ /\ evidence' = [evidence EXCEPT !.receipts = Completed]
         /\ \/ co.at = "materialize" /\ Arrives({"jobs"}, co.job + 1, co.dir)
               /\ co.job \in Job /\ journal[co.job] = "completed"
            \/ Completed = Job /\ Arrives({"analyse"}, co.job, co.dir)
      \/ evidence' = evidence /\ Arrives({"debug"}, co.job, co.dir)
  <2>1. CASE evidence' = evidence /\ Goto("debug")
    BY <1>1, <2>1, GotoArrives DEF Stage
  <2>2. CASE /\ co.job > LastJob /\ co' = [co EXCEPT !.at = "analyse"]
             /\ evidence' = [evidence EXCEPT !.receipts = Completed]
    <3>1. co.at = "jobs"
      BY <1>1, <2>2, BatchBounds DEF BatchBounds, JournalIsRead, Job
    <3>2. \A j \in Job : j < co.job
      BY <1>1, <2>2, BatchBounds DEF BatchBounds, Job, Coordinator
    <3>3. Completed = Job
      BY <1>1, <3>1, <3>2 DEF JournalIsRead, Completed
    <3>4. Arrives({"analyse"}, co.job, co.dir)
      BY <1>1, <2>2 DEF Coordinator, Stage, Arrives
    <3> QED BY <2>2, <3>3, <3>4
  <2>3. CASE /\ ~ (co.job > LastJob)
             /\ evidence' = [evidence EXCEPT !.receipts = Completed]
             /\ co' = [co EXCEPT !.at = "jobs", !.job = co.job + 1]
    <3>1. co.at = "materialize"
      BY <2>3
    <3>2. co.job \in Job /\ journal[co.job] = "completed"
      BY <1>1, <3>1 DEF JournalIsRead
    <3>3. Arrives({"jobs"}, co.job + 1, co.dir)
      <4>1. co.job + 1 \in 1..LastJob + 1 /\ "jobs" \in Stage
        BY <3>2, BatchBounds DEF BatchBounds, Job, Stage
      <4> QED BY <1>1, <2>3, <4>1 DEF Coordinator, Arrives
    <3> QED BY <2>3, <3>1, <3>2, <3>3
  <2> QED BY <2>1, <2>2, <2>3<1>3. Typed'
  <2>1. evidence' \in Evidence
    BY <1>2 DEF Evidence, Completed
  <2> QED BY <1>1, <1>2, <2>1 DEF Arrives
<1>4. /\ Begun'
      /\ CallsAreJournaled'
      /\ DirectoryIsRecorded'
      /\ RunnerIsJournaled'
      /\ BundleIsWhole'
  BY <1>1, <1>2, <1>3 DEF Arrives, Begun, CallsAreJournaled,
     DirectoryIsRecorded, RunnerIsJournaled, BundleIsWhole, Before, Working,
     Condensing
<1>5. EvidenceIsOfJobs'
  <2>1. CASE evidence' = evidence /\ Arrives({"debug"}, co.job, co.dir)
    BY <2>1 DEF EvidenceIsOfJobs, Arrives, Condensing
  <2>2. CASE evidence' = [evidence EXCEPT !.receipts = Completed]
    <3>1. /\ evidence'.receipts = Completed /\ evidence'.index = evidence.index
          /\ evidence'.analysis = evidence.analysis
      BY <2>2 DEF Evidence
    <3>2. co' # None /\ co'.at \in Condensing =>
            Completed = Job /\ co'.at = "analyse"
      BY <1>2 DEF Arrives, Condensing
    <3>3. co' # None => co'.at # "index"
      BY <1>2 DEF Arrives
    <3> QED BY <3>1, <3>2, <3>3 DEF EvidenceIsOfJobs, Completed
  <2> QED BY <1>2, <2>1, <2>2
<1>6. JournalIsRead'
  <2>1. CASE /\ co.at = "materialize" /\ journal[co.job] = "completed"
             /\ Arrives({"jobs"}, co.job + 1, co.dir)
    <3>1. \A j \in Job : j < co.job + 1 => j < co.job \/ j = co.job
      BY <1>1 DEF Coordinator, Job
    <3> QED BY <1>1, <2>1, <3>1 DEF Arrives, JournalIsRead, Before
  <2>2. CASE \/ Arrives({"analyse"}, co.job, co.dir)
             \/ Arrives({"debug"}, co.job, co.dir)
    BY <2>2 DEF Arrives, JournalIsRead, Before
  <2> QED BY <1>2, <2>1, <2>2
<1>7. OutputsAreKept'
  <2>1. Recorded' = Recorded
    BY DEF Recorded
  <2>2. evidence'.receipts # Job => \A j \in Job : journal[j] = "completed" =>
          evidence.receipts # Job
    <3>1. CASE evidence' = [evidence EXCEPT !.receipts = Completed]
      <4>1. evidence'.receipts = Completed
        BY <3>1 DEF Evidence
      <4>2. evidence.receipts = Job => Completed = Job
        BY DEF EvidenceIsOfJobs, Completed
      <4> QED BY <4>1, <4>2
    <3>2. CASE evidence' = evidence
      BY <3>2
    <3> QED BY <1>2, <3>1, <3>2
  <2> QED BY <2>1, <2>2 DEF OutputsAreKept
<1> QED BY <1>3, <1>4, <1>5, <1>6, <1>7

\* A coordinator starts at the first job.
LEMMA StartBatchKeeps ==
  ASSUME IInv, NEW c \in Config, NEW retain \in BOOLEAN,
         NEW asked \in Dir \cup {None}, StartBatch(c, retain, asked)
  PROVE  IInv'
<1> USE DEF IInv, Typed, StartBatch, files
<1>1. /\ co' \in Coordinator /\ co'.job = 1
      /\ co'.at = "prepare" \/ (co'.at = "create" /\ made = 0)
  BY BatchBounds DEF BatchBounds, Coordinator, Stage
<1>2. starts' \in 0..MaxStarts /\ starts' >= 1
  BY BatchBounds DEF BatchBounds
<1>3. Typed'
  BY <1>1, <1>2
<1>4. /\ Begun'
      /\ CallsAreJournaled'
      /\ JournalIsRead'
      /\ DirectoryIsRecorded'
      /\ RunnerIsJournaled'
      /\ EvidenceIsOfJobs'
      /\ BundleIsWhole'
  BY <1>1, <1>2 DEF Begun, CallsAreJournaled, JournalIsRead,
     DirectoryIsRecorded, RunnerIsJournaled, EvidenceIsOfJobs, BundleIsWhole,
     Before, Working, Condensing
<1>5. OutputsAreKept'
  BY OutputsStay DEF Recorded
<1> QED BY <1>3, <1>4, <1>5

\* A new directory is made when none is on record: then no job is completed, or
\* every one has its receipt.
LEMMA NewWorkdirKeeps ==
  ASSUME IInv, NEW d \in Dir, NewWorkdir(d)
  PROVE  IInv'
<1> USE DEF IInv, Typed, NewWorkdir, others
<1>1. co \in Coordinator
  OBVIOUS
<1>2. /\ session' \in [Dir -> [Job -> Output] \cup {None}]
      /\ pointer' \in [active : Dir \cup {None}, debug : Dir \cup {None}]
      /\ \/ co' = None
         \/ /\ pointer'.active = d /\ Arrives({"journal"}, co.job, d)
  <2>1. [j \in Job |-> "none"] \in [Job -> Output]
    BY DEF Output
  <2> QED BY <1>1, <2>1 DEF Ends, Coordinator, Stage, Arrives
<1>3. Typed'
  BY <1>1, <1>2 DEF Arrives
<1>4. /\ Begun'
      /\ CallsAreJournaled'
      /\ JournalIsRead'
      /\ DirectoryIsRecorded'
      /\ RunnerIsJournaled'
      /\ EvidenceIsOfJobs'
      /\ BundleIsWhole'
  BY <1>1, <1>2, <1>3 DEF Arrives, Begun, CallsAreJournaled, JournalIsRead,
     DirectoryIsRecorded, RunnerIsJournaled, EvidenceIsOfJobs, BundleIsWhole,
     Before, Working, Condensing
<1>5. OutputsAreKept'
  BY DEF OutputsAreKept
<1> QED BY <1>3, <1>4, <1>5

\* A runner never touches the output of a completed job: its own is still on
\* record as started.
LEMMA RunnerWritesKeeps ==
  ASSUME IInv, NEW o \in Output, RunnerWrites(o)
  PROVE  IInv'
<1> USE DEF IInv, Typed, RunnerWrites
<1>1. runner.job \in Job /\ runner.dir \in Dir /\ journal[runner.job] = "started"
  BY DEF RunnerIsJournaled
<1>2. \/ session' = session
      \/ /\ session[runner.dir] \in [Job -> Output]
         /\ session' = [session EXCEPT ![runner.dir] =
                          [session[runner.dir] EXCEPT ![runner.job] = o]]
  BY <1>1
<1>3. session' \in [Dir -> [Job -> Output] \cup {None}]
  BY <1>1, <1>2
<1>4. runner' = runner \/ runner' = NoRunner
  OBVIOUS
<1>5. Typed'
  BY <1>3, <1>4 DEF NoRunner
<1>6. /\ Begun'
      /\ CallsAreJournaled'
      /\ JournalIsRead'
      /\ DirectoryIsRecorded'
      /\ RunnerIsJournaled'
      /\ EvidenceIsOfJobs'
      /\ BundleIsWhole'
  BY <1>4 DEF NoRunner, Begun, CallsAreJournaled, JournalIsRead,
     DirectoryIsRecorded, RunnerIsJournaled, EvidenceIsOfJobs, BundleIsWhole
<1>7. OutputsAreKept'
  <2> SUFFICES ASSUME NEW j \in Job, journal[j] = "completed",
                      evidence.receipts # Job
               PROVE  /\ Recorded # None /\ session'[Recorded] # None
                      /\ session'[Recorded][j] = "valid"
    BY DEF OutputsAreKept, Recorded
  <2>1. /\ Recorded # None /\ session[Recorded] # None
        /\ session[Recorded][j] = "valid" /\ Recorded \in Dir
    BY RecordedTyped DEF OutputsAreKept
  <2>2. j # runner.job
    BY <1>1
  <2>3. CASE Recorded = runner.dir /\ session' # session
    <3>1. session'[Recorded] = [session[Recorded] EXCEPT ![runner.job] = o]
      BY <1>2, <2>1, <2>3
    <3>2. session'[Recorded] \in [Job -> Output]
          /\ session'[Recorded][j] = session[Recorded][j]
      BY <1>1, <1>2, <2>2, <2>3, <3>1
    <3> QED BY <2>1, <3>2, NoneIsNoDirectory DEF NoneIsNoDirectory
  <2>4. CASE Recorded # runner.dir \/ session' = session
    BY <1>2, <2>1, <2>4
  <2> QED BY <2>3, <2>4
<1> QED BY <1>5, <1>6, <1>7

\* The finalizer reads what the signed index digests, and publishes what it has
\* read.
LEMMA FinalizerKeeps ==
  ASSUME IInv, VerifierSigns \/ LoadOutput \/ Publish \/ GiveUpPublishing
  PROVE  IInv'
<1> USE DEF IInv, Typed, files
<1>1. UNCHANGED <<files, runner, co, calls, starts>>
  BY DEF VerifierSigns, LoadOutput, Publish, GiveUpPublishing
<1>2. /\ bundle' \in [read : Evidence \cup {None},
                      signed : Condensed \cup {None},
                      published : Evidence \cup {None}]
      /\ BundleIsWhole'
  <2>1. CASE VerifierSigns
    BY <2>1 DEF VerifierSigns, Evidence, BundleIsWhole
  <2>2. CASE LoadOutput
    <3>1. evidence.receipts = Job /\ evidence.index = CondensedNow(evidence)
      BY <2>2 DEF LoadOutput, Loads, Compact
    <3>2. evidence.index # None /\ evidence.index.analysis = "report"
      BY <2>2 DEF LoadOutput, Loads, EvidenceIsOfJobs
    <3>3. evidence.analysis = "report"
      BY <3>1, <3>2 DEF CondensedNow
    <3>4. bundle' = [bundle EXCEPT !.read = evidence]
      BY <2>2 DEF LoadOutput
    <3> QED BY <1>1, <3>1, <3>3, <3>4 DEF BundleIsWhole
  <2>3. CASE Publish
    BY <1>1, <2>3 DEF Publish, BundleIsWhole, EvidenceIsOfJobs
  <2>4. CASE GiveUpPublishing
    BY <2>4 DEF GiveUpPublishing, BundleIsWhole
  <2> QED BY <2>1, <2>2, <2>3, <2>4
<1>3. Typed'
  BY <1>1, <1>2
<1>4. /\ Begun'
      /\ CallsAreJournaled'
      /\ JournalIsRead'
      /\ DirectoryIsRecorded'
      /\ RunnerIsJournaled'
      /\ EvidenceIsOfJobs'
  BY <1>1 DEF Begun, CallsAreJournaled, JournalIsRead, DirectoryIsRecorded,
     RunnerIsJournaled, EvidenceIsOfJobs
<1>5. OutputsAreKept'
  BY <1>1, OutputsStay DEF Recorded
<1> QED BY <1>2, <1>3, <1>4, <1>5

\* A runner that fails leaves what it wrote.
LEMMA RunnerFailsKeeps ==
  ASSUME IInv, RunnerFails
  PROVE  IInv'
<1> USE DEF IInv, Typed, RunnerFails, files
<1>1. Typed'
  BY DEF NoRunner
<1>2. /\ Begun'
      /\ CallsAreJournaled'
      /\ JournalIsRead'
      /\ DirectoryIsRecorded'
      /\ RunnerIsJournaled'
      /\ EvidenceIsOfJobs'
      /\ BundleIsWhole'
  BY DEF NoRunner, Begun, CallsAreJournaled, JournalIsRead,
     DirectoryIsRecorded, RunnerIsJournaled, EvidenceIsOfJobs, BundleIsWhole
<1>3. OutputsAreKept'
  BY OutputsStay DEF Recorded
<1> QED BY <1>1, <1>2, <1>3
-----------------------------------------------------------------------------
\* The invariant holds at first.
LEMMA InitIInv == BatchInit => IInv
<1> SUFFICES ASSUME BatchInit PROVE IInv
  OBVIOUS
<1> USE BatchBounds DEF BatchInit, BatchBounds, NoRunner
<1>1. Typed
  <2>1. evidence \in Evidence
    BY DEF Evidence
  <2>2. journal \in [Job -> RowState] /\ calls \in [Job -> Nat]
    BY DEF RowState
  <2>3. session \in [Dir -> [Job -> Output] \cup {None}]
    OBVIOUS
  <2>4. /\ made \in 0..4 /\ frozen \in Config \cup {None}
        /\ pointer \in [active : Dir \cup {None}, debug : Dir \cup {None}]
        /\ co \in Coordinator \cup {None} /\ starts \in 0..MaxStarts
    OBVIOUS
  <2>5. /\ runner \in [job : Job \cup {0}, dir : Dir \cup {None}]
        /\ runner.job = 0
    OBVIOUS
  <2>6. bundle \in [read : Evidence \cup {None}, signed : Condensed \cup {None},
                   published : Evidence \cup {None}]
    OBVIOUS
  <2>7. torn \in BOOLEAN
    OBVIOUS
  <2> QED BY <2>1, <2>2, <2>3, <2>4, <2>5, <2>6, <2>7 DEF Typed
<1>2. /\ Begun
      /\ CallsAreJournaled
      /\ JournalIsRead
      /\ DirectoryIsRecorded
      /\ RunnerIsJournaled
      /\ EvidenceIsOfJobs
      /\ BundleIsWhole
      /\ OutputsAreKept
  BY DEF Begun, CallsAreJournaled, JournalIsRead, DirectoryIsRecorded,
     RunnerIsJournaled, EvidenceIsOfJobs, BundleIsWhole, OutputsAreKept
<1> QED BY <1>1, <1>2 DEF IInv

\* Every step keeps the invariant.
LEMMA StepIInv == IInv /\ [BatchNext]_batchVars => IInv'
<1> SUFFICES ASSUME IInv, [BatchNext]_batchVars PROVE IInv'
  OBVIOUS
<1>1. CASE \E c \in Config, retain \in BOOLEAN, asked \in Dir \cup {None} :
             StartBatch(c, retain, asked)
  BY <1>1, StartBatchKeeps
<1>2. CASE CreateOutput \/ ResumeWorkdir \/ ForgetDebug \/ ReadJournal
  BY <1>2, CreateOutputKeeps, ResumeWorkdirKeeps, ForgetDebugKeeps,
     ReadJournalKeeps
<1>3. CASE \E d \in Dir : NewWorkdir(d)
  BY <1>3, NewWorkdirKeeps
<1>4. CASE StartJob \/ PassJob \/ CallRunner \/ Interrupt \/ JobReturns
  BY <1>4, StartJobKeeps, PassJobKeeps, CallRunnerKeeps, InterruptKeeps,
     JobReturnsKeeps
<1>5. CASE \E o \in Output \ {"none"} : RunnerWrites(o)
  BY <1>5, RunnerWritesKeeps
<1>6. CASE RunnerFails
  BY <1>6, RunnerFailsKeeps
<1>7. CASE Materialize \/ Analyse \/ WriteIndex \/ WriteStatus \/ Validate
  BY <1>7, MaterializeKeeps, AnalyseKeeps, WriteIndexKeeps, WriteStatusKeeps,
     ValidateKeeps
<1>8. CASE Clean \/ Unpoint \/ RecordDebug \/ ForgetActive \/ CloseInvalid
  BY <1>8, CleanKeeps, UnpointKeeps, RecordDebugKeeps, ForgetActiveKeeps,
     CloseInvalidKeeps
<1>9. CASE CoordinatorDies
  BY <1>9, CoordinatorDiesKeeps
<1>10. CASE VerifierSigns \/ LoadOutput \/ Publish \/ GiveUpPublishing
  BY <1>10, FinalizerKeeps
<1>11. CASE UNCHANGED batchVars
  BY <1>11 DEF batchVars, IInv, Typed, Begun, CallsAreJournaled, JournalIsRead,
     DirectoryIsRecorded, RunnerIsJournaled, EvidenceIsOfJobs, BundleIsWhole,
     OutputsAreKept, Recorded
<1> QED BY <1>1, <1>2, <1>3, <1>4, <1>5, <1>6, <1>7, <1>8, <1>9, <1>10, <1>11
        DEF BatchNext
-----------------------------------------------------------------------------
\* The inductive invariant: the journal, the recorded directory and the condensed
\* evidence say what has happened, wherever the coordinator is.
THEOREM Invariance == BatchSpec => []IInv
BY InitIInv, StepIInv, PTL DEF BatchSpec

\* The files, the coordinator and the runner have their types.
THEOREM TypeCorrect == BatchSpec => []BatchTypeOK
<1>1. IInv => BatchTypeOK
  <2> SUFFICES ASSUME IInv PROVE calls \in [Job -> 0..MaxStarts]
    BY DEF IInv, Typed, BatchTypeOK
  <2>1. ASSUME NEW j \in Job PROVE calls[j] \in 0..MaxStarts
    BY BatchBounds DEF BatchBounds, IInv, Typed, Begun, CallsAreJournaled
  <2> QED BY <2>1 DEF IInv, Typed
<1> QED BY <1>1, Invariance, PTL

\* For a schedule of any length and any number of starts, deaths and interrupts,
\* no job is given to the provider twice.
THEOREM JobsAreCalledOnce == BatchSpec => []JobCalledOnce
<1>1. IInv => JobCalledOnce
  BY DEF IInv, CallsAreJournaled, JobCalledOnce
<1> QED BY <1>1, Invariance, PTL

\* What the finalizer publishes is a whole batch of jobs that ran once, and no
\* output of a completed job is lost before its receipts are kept.
THEOREM BundlesAreEarned == BatchSpec => []BundleIsEarned
<1>1. IInv => BundleIsEarned
  BY DEF IInv, BundleIsWhole, OutputsAreKept, CallsAreJournaled, BundleIsEarned
<1> QED BY <1>1, Invariance, PTL

-----------------------------------------------------------------------------
(* Theorems about LiveRun, for any inputs, repetitions and versions of the  *)
(* workflows. An arm works in a copy that nobody else has, and its row is   *)
(* of that copy.                                                            *)

\* The steps of a runner in their order: before the homes are copied, with copied homes,
\* while an arm runs, and after the arms.
Opening == {"preflight", "guard", "hash", "create"}
Copying == {"homes", "check"}
ArmRuns == {"session", "measure", "clone", "compare", "evaluate", "judge"}
Homed == {"copy", "recheck"} \cup ArmRuns
Closing == {"postflight", "guards"}
Writing == {"write", "validate"}
RunSteps == Opening \cup Copying \cup Homed \cup Closing \cup Writing

Work == {"allowed", "other"}
ATree == [version : Nat, work : SUBSET Work, late : Nat]
ARow == [arm : Arm, rep : Nat, plugin : Nat, fixture : Nat, changed : SUBSET Work,
         wasLate : Nat, success : BOOLEAN, hidden : ATree, quality : ATree, left : ATree]
Orders == {<<"baseline", "candidate">>, <<"candidate", "baseline">>,
           <<"baseline">>, <<"candidate">>, <<>>}
ADraft(step) ==
  CASE step = "session" -> [arm : Arm, fixture : Nat]
    [] step = "measure" -> [arm : Arm, fixture : Nat, plugin : Nat, ok : BOOLEAN]
    [] OTHER -> [arm : Arm, fixture : Nat, plugin : Nat, ok : BOOLEAN, changed : SUBSET Work,
                 wasLate : Nat]

\* The types; the draft, the result and its clones exist only while an arm runs.
RunTyped ==
  /\ at \in RunSteps \cup {"clean", "done", "dead"}
  /\ newest \in Nat
  /\ world \in [Root -> Nat]
  /\ taken \in [plugin : Nat \cup {None}, guards : [Root -> Nat] \cup {None},
                fixture : Nat \cup {None}]
  /\ homes \in [Arm -> Nat \cup {None}]
  /\ at \in ArmRuns => tree \in ATree /\ draft \in ADraft(at)
  /\ armResults \in Seq(ARow)
  /\ todo \in Orders
  /\ rep \in 0..LastRep
  /\ written \subseteq File
  /\ work \in {None, "kept", "gone"} /\ exit \in {None, 0, 1, 2}

\* No version is newer than the newest one.
NewestLeads ==
  /\ \A r \in Root : world[r] <= newest
  /\ \A a \in Arm : homes[a] # None => homes[a] <= newest
  /\ at \in ArmRuns => tree.late <= newest

\* What was taken down is no newer than the roots are now; between the last look at
\* the plugin and the last look at the guards the plugin lies between the two.
TakenIsOlder ==
  /\ at \in RunSteps \ {"preflight"} => taken.plugin \in Nat
  /\ at \in RunSteps \ {"preflight", "guard"} =>
       /\ taken.guards \in [Root -> Nat]
       /\ \A r \in Root : taken.guards[r] <= world[r]
  /\ at \in RunSteps \ {"preflight", "guard", "hash"} =>
       /\ taken.fixture \in Nat
       /\ taken.guards["fixture"] <= taken.fixture /\ taken.fixture <= world["fixture"]
  /\ at = "guards" =>
       \A r \in Root \ {"fixture"} :
         taken.guards[r] <= taken.plugin /\ taken.plugin <= world[r]

\* From the check of the copied homes on they are no older than the frozen plugin.
HomesAreYounger ==
  at \in Homed => \A a \in Arm : homes[a] \in Nat /\ taken.plugin <= homes[a]

\* The arm that runs: it is the next one, on the frozen fixture, its plugin is no newer
\* than its home, what was measured holds until somebody writes, and the checks are given
\* what is then the result.
ArmIsNext ==
  at \in ArmRuns =>
    /\ todo # <<>> /\ draft.arm = Head(todo) /\ draft.fixture = taken.fixture
    /\ at # "session" => taken.plugin <= draft.plugin /\ draft.plugin <= homes[draft.arm]
    /\ at \notin {"session", "measure"} =>
         /\ draft.wasLate <= tree.late
         /\ tree.late = draft.wasLate => draft.changed = tree.work
    /\ at \in {"evaluate", "judge"} =>
         clones.hidden = clones.measured /\ clones.quality = clones.measured

\* The results so far have the frozen fixture, and the frozen plugin or, until the homes
\* are compared again, one between it and their home.
ResultsAreFrozen ==
  at \in RunSteps \ Writing =>
    /\ at \in Opening => armResults = <<>>
    /\ \A i \in DOMAIN armResults :
         /\ armResults[i].fixture = taken.fixture
         /\ \/ armResults[i].plugin = taken.plugin
            \/ /\ at \in Homed
               /\ taken.plugin <= armResults[i].plugin
               /\ armResults[i].plugin <= homes[armResults[i].arm]

HasRun(rows, a, r) == \E i \in DOMAIN rows : rows[i].arm = a /\ rows[i].rep = r
Owed(order, a) == \E k \in DOMAIN order : order[k] = a

\* Every arm of every repetition so far has one result, but for those still to run.
ResultsAreCounted ==
  /\ at \in Copying =>
       /\ rep >= 1 /\ Len(armResults) = 2 * (rep - 1)
       /\ \A r \in 1..rep - 1, a \in Arm : HasRun(armResults, a, r)
  /\ at \in Homed =>
       /\ rep >= 1 /\ Len(armResults) + Len(todo) = 2 * rep
       /\ \A r \in 1..rep - 1, a \in Arm : HasRun(armResults, a, r)
       /\ \A a \in Arm : Owed(todo, a) \/ HasRun(armResults, a, rep)
       /\ at = "recheck" <=> todo = <<>>
  /\ at \in Closing =>
       /\ Len(armResults) = 2 * LastRep
       /\ \A r \in 1..LastRep, a \in Arm : HasRun(armResults, a, r)

\* What OneExperiment says of the results, before the summary is there.
ExperimentIsOne(rows, frozenPlan) ==
  /\ \A a \in Arm, r \in 1..LastRep : HasRun(rows, a, r)
  /\ Len(rows) = 2 * LastRep
  /\ \A i \in DOMAIN rows :
       rows[i].plugin = frozenPlan.plugin /\ rows[i].fixture = frozenPlan.fixture
  /\ frozenPlan.guards = [r \in Root |-> IF r = "fixture" THEN frozenPlan.fixture ELSE frozenPlan.plugin]

\* Nothing is written before the guards have been verified.
EvidenceIsLast ==
  /\ at \in RunSteps \ Writing => written = {}
  /\ at \in Writing \/ "summary" \in written => ExperimentIsOne(armResults, taken)

\* A runner at work has no exit code, and its work directory goes last.
ExitIsLast ==
  /\ at \in RunSteps => exit = None
  /\ at \in RunSteps \cup {"clean"} => work # "gone"

RunIInv ==
  /\ RunTyped /\ NewestLeads /\ TakenIsOlder /\ HomesAreYounger /\ ArmIsNext
  /\ ResultsAreFrozen /\ ResultsAreCounted /\ JudgedAsLeft
  /\ EvidenceIsLast /\ ExitIsLast /\ WorkOutlivesFailure
-----------------------------------------------------------------------------
(* Facts about the operators.                                              *)

\* The arms that are left when the next one has run.
LEMMA OrdersShrink ==
  ASSUME NEW s \in Orders, s # <<>>
  PROVE  /\ Head(s) \in Arm /\ Tail(s) \in Orders
         /\ Len(s) \in {1, 2} /\ Len(Tail(s)) = Len(s) - 1
         /\ Tail(s) = <<>> <=> Len(s) = 1
         /\ \A a \in Arm : Owed(s, a) => a = Head(s) \/ Owed(Tail(s), a)
<1>1. CASE s = <<"baseline", "candidate">>
  <2>1. Tail(s) = <<"candidate">> /\ Head(s) = "baseline" /\ Len(s) = 2
    BY <1>1
  <2>. QED BY <2>1, <1>1 DEF Arm, Orders, Owed
<1>2. CASE s = <<"candidate", "baseline">>
  <2>1. Tail(s) = <<"baseline">> /\ Head(s) = "candidate" /\ Len(s) = 2
    BY <1>2
  <2>. QED BY <2>1, <1>2 DEF Arm, Orders, Owed
<1>3. CASE s = <<"baseline">>
  <2>1. Tail(s) = <<>> /\ Head(s) = "baseline" /\ Len(s) = 1
    BY <1>3
  <2>. QED BY <2>1, <1>3 DEF Arm, Orders, Owed
<1>4. CASE s = <<"candidate">>
  <2>1. Tail(s) = <<>> /\ Head(s) = "candidate" /\ Len(s) = 1
    BY <1>4
  <2>. QED BY <2>1, <1>4 DEF Arm, Orders, Owed
<1>. QED BY <1>1, <1>2, <1>3, <1>4 DEF Orders

\* Homes that have the plugin of the source have a version.
LEMMA PluginsAgree ==
  ASSUME RunTyped, NEW home, ArmPlugins(home) # None
  PROVE  /\ ArmPlugins(home) = world["source"] /\ ArmPlugins(home) \in Nat
         /\ \A a \in Arm : home[a] = ArmPlugins(home)
BY DEF ArmPlugins, Installed, RunTyped, Root

\* A judged arm adds its row at the end.
LEMMA JudgeAppends ==
  ASSUME RunTyped, ArmIsNext, Judge
  PROVE  LET n == Len(armResults) IN
         /\ n \in Nat /\ DOMAIN armResults = 1..n /\ DOMAIN armResults' = 1..n + 1
         /\ Len(armResults') = n + 1
         /\ \A i \in 1..n : armResults'[i] = armResults[i]
         /\ armResults' \in Seq(ARow)
         /\ armResults'[n + 1] =
              [arm |-> draft.arm, rep |-> rep, plugin |-> draft.plugin,
               fixture |-> draft.fixture, changed |-> draft.changed,
               wasLate |-> draft.wasLate, success |-> draft.ok,
               hidden |-> clones.hidden, quality |-> clones.quality, left |-> tree]
<1> DEFINE row == [arm |-> draft.arm, rep |-> rep, plugin |-> draft.plugin,
                   fixture |-> draft.fixture, changed |-> draft.changed,
                   wasLate |-> draft.wasLate, success |-> draft.ok,
                   hidden |-> clones.hidden, quality |-> clones.quality, left |-> tree]
<1>1. armResults \in Seq(ARow) /\ armResults' = Append(armResults, row)
  BY DEF RunTyped, Judge
<1>2. draft \in ADraft("judge") /\ tree \in ATree /\ rep \in Nat
  BY RunBounds DEF RunTyped, Judge, ArmRuns
<1>3. clones.hidden = tree /\ clones.quality = tree
  BY DEF ArmIsNext, Judge, Unchanged, ArmRuns
<1>4. row \in ARow
  BY <1>2, <1>3 DEF ADraft, ARow
<1> HIDE DEF row
<1>5. armResults' \in Seq(ARow) /\ Len(armResults') = Len(armResults) + 1
      /\ \A i \in 1..Len(armResults) : armResults'[i] = armResults[i]
  BY <1>1, <1>4
<1>6. armResults'[Len(armResults) + 1] = row
  BY <1>1, <1>4
<1>. QED BY <1>1, <1>4, <1>5, <1>6 DEF row

-----------------------------------------------------------------------------
(* Each part of the invariant is kept by every step.                       *)

\* Every step keeps the types: a draft has the fields of its step, a result those of a row.
LEMMA RunTypes ==
  ASSUME RunTyped, NewestLeads, TakenIsOlder, HomesAreYounger, ArmIsNext, ResultsAreCounted, [RunNext]_runVars
  PROVE  RunTyped'
<1> USE NoneIsNoValue, RunBounds DEF RunSteps, Opening, Copying, ArmRuns, Homed, Closing,
       Writing, RunTyped, Proceed, Stop, Arm, Root, File, ADraft
<1>1. CASE Preflight
  <2>1. ArmPlugins(world) \in Nat
    BY <1>1, PluginsAgree DEF Preflight
  <2>. QED BY <1>1, <2>1 DEF Preflight
<1>2. CASE SnapshotGuards
  BY <1>2 DEF SnapshotGuards
<1>3. CASE HashFixture
  BY <1>3 DEF HashFixture
<1>4. CASE CreateWorkdir
  BY <1>4 DEF CreateWorkdir
<1>5. ASSUME NEW a \in Arm, CopyHome(a) PROVE RunTyped'
  BY <1>5 DEF CopyHome
<1>6. CASE CheckHomes
  BY <1>6 DEF CheckHomes, Orders
<1>7. CASE CopyFixture
  <2>1. Head(todo) \in Arm
    BY <1>7, OrdersShrink DEF CopyFixture
  <2>2. tree' \in ATree /\ draft' \in ADraft("session")
    BY <1>7, <2>1 DEF CopyFixture, ATree
  <2>. QED BY <1>7, <2>2 DEF CopyFixture
<1>8. CASE Session
  <2>1. homes[draft.arm] \in Nat
    BY <1>8 DEF Session, HomesAreYounger
  <2>2. tree' \in ATree
    <3>1. tree \in ATree
      BY <1>8 DEF Session
    <3>2. \E drafted \in SUBSET Work : tree' = [tree EXCEPT !.work = @ \cup drafted]
      BY <1>8 DEF Session, Work
    <3> HIDE DEF RunTyped
    <3>. QED BY <3>1, <3>2 DEF ATree
  <2>3. draft' \in [arm : Arm, fixture : Nat, plugin : Nat, ok : BOOLEAN]
    BY <1>8, <2>1 DEF Session
  <2>. QED BY <1>8, <2>2, <2>3 DEF Session
<1>9. CASE Measure
  BY <1>9 DEF Measure, Changed, ATree, Work
<1>10. CASE CloneResult
  BY <1>10 DEF CloneResult
<1>11. CASE CompareClones
  BY <1>11 DEF CompareClones
<1>12. CASE EvaluateArm
  BY <1>12 DEF EvaluateArm
<1>13. CASE Judge
  <2>1. armResults' \in Seq(ARow)
    BY <1>13, JudgeAppends DEF Judge
  <2>2. todo' \in Orders
    BY <1>13, OrdersShrink DEF Judge, ArmIsNext
  <2>. QED BY <1>13, <2>1, <2>2 DEF Judge
<1>14. CASE Recheck
  BY <1>14 DEF Recheck, NoHomes
<1>15. CASE Postflight
  BY <1>15 DEF Postflight
<1>16. CASE VerifyGuards
  BY <1>16 DEF VerifyGuards
<1>17. CASE WriteEvidence
  BY <1>17 DEF WriteEvidence, NextFile
<1>18. CASE ValidateEvidence
  BY <1>18 DEF ValidateEvidence
<1>19. CASE Finalize
  BY <1>19 DEF Finalize
<1>20. ASSUME Executing, Fail PROVE RunTyped'
  BY <1>20 DEF Fail, Executing
<1>21. CASE Crash
  BY <1>21 DEF Crash, Executing
<1>22. ASSUME NEW r \in Root, EditRoot(r) PROVE RunTyped'
  BY <1>22 DEF EditRoot, Executing
<1>23. ASSUME NEW a \in Arm, EditHome(a) PROVE RunTyped'
  BY <1>23 DEF EditHome, NewestLeads
<1>24. CASE WriteLate
  <2>1. tree' \in ATree
    <3>1. tree \in ATree /\ newest + 1 \in Nat
      BY <1>24 DEF WriteLate
    <3>2. tree' = [tree EXCEPT !.work = @ \cup {"other"}, !.late = newest + 1]
      BY <1>24 DEF WriteLate
    <3> HIDE DEF RunTyped
    <3>. QED BY <3>1, <3>2 DEF ATree, Work
  <2>. QED BY <1>24, <2>1 DEF WriteLate
<1>25. CASE UNCHANGED runVars
  BY <1>25 DEF runVars
<1>. QED BY <1>1, <1>2, <1>3, <1>4, <1>5, <1>6, <1>7, <1>8, <1>9, <1>10, <1>11, <1>12,
     <1>13, <1>14, <1>15, <1>16, <1>17, <1>18, <1>19, <1>20, <1>21, <1>22, <1>23, <1>24,
     <1>25 DEF RunNext

\* An edit takes a version that is at most the newest one, or becomes it.
LEMMA RunNewest ==
  ASSUME RunTyped, NewestLeads, [RunNext]_runVars
  PROVE  NewestLeads'
<1> USE NoneIsNoValue, RunBounds DEF RunSteps, Opening, Copying, ArmRuns, Homed, Closing,
       Writing, NewestLeads, RunTyped, Proceed, Stop, Root, Arm, ATree
<1>1. CASE Preflight
  BY <1>1 DEF Preflight
<1>2. CASE SnapshotGuards
  BY <1>2 DEF SnapshotGuards
<1>3. CASE HashFixture
  BY <1>3 DEF HashFixture
<1>4. CASE CreateWorkdir
  BY <1>4 DEF CreateWorkdir
<1>5. ASSUME NEW a \in Arm, CopyHome(a) PROVE NewestLeads'
  BY <1>5 DEF CopyHome
<1>6. CASE CheckHomes
  BY <1>6 DEF CheckHomes
<1>7. CASE CopyFixture
  BY <1>7 DEF CopyFixture
<1>8. CASE Session
  BY <1>8 DEF Session
<1>9. CASE Measure
  BY <1>9 DEF Measure
<1>10. CASE CloneResult
  BY <1>10 DEF CloneResult
<1>11. CASE CompareClones
  BY <1>11 DEF CompareClones
<1>12. CASE EvaluateArm
  BY <1>12 DEF EvaluateArm
<1>13. CASE Judge
  BY <1>13 DEF Judge
<1>14. CASE Recheck
  BY <1>14 DEF Recheck, NoHomes
<1>15. CASE Postflight
  BY <1>15 DEF Postflight
<1>16. CASE VerifyGuards
  BY <1>16 DEF VerifyGuards
<1>17. CASE WriteEvidence
  BY <1>17 DEF WriteEvidence
<1>18. CASE ValidateEvidence
  BY <1>18 DEF ValidateEvidence
<1>19. CASE Finalize
  BY <1>19 DEF Finalize
<1>20. ASSUME Executing, Fail PROVE NewestLeads'
  BY <1>20 DEF Fail, Executing
<1>21. CASE Crash
  BY <1>21 DEF Crash, Executing
<1>22. ASSUME NEW r \in Root, EditRoot(r) PROVE NewestLeads'
  BY <1>22 DEF EditRoot, Executing
<1>23. ASSUME NEW a \in Arm, EditHome(a) PROVE NewestLeads'
  BY <1>23 DEF EditHome
<1>24. CASE WriteLate
  BY <1>24 DEF WriteLate
<1>25. CASE UNCHANGED runVars
  BY <1>25 DEF runVars
<1>. QED BY <1>1, <1>2, <1>3, <1>4, <1>5, <1>6, <1>7, <1>8, <1>9, <1>10, <1>11, <1>12,
     <1>13, <1>14, <1>15, <1>16, <1>17, <1>18, <1>19, <1>20, <1>21, <1>22, <1>23, <1>24,
     <1>25 DEF RunNext

\* Roots only get newer, so what was taken down stays no newer than they are.
LEMMA RunTaken ==
  ASSUME RunTyped, NewestLeads, TakenIsOlder, [RunNext]_runVars
  PROVE  TakenIsOlder'
<1> USE NoneIsNoValue, RunBounds DEF RunSteps, Opening, Copying, ArmRuns, Homed, Closing,
       Writing, TakenIsOlder, RunTyped, Proceed, Stop, Root, Arm
<1>1. CASE Preflight
  BY <1>1 DEF Preflight, ArmPlugins, Installed
<1>2. CASE SnapshotGuards
  BY <1>2 DEF SnapshotGuards
<1>3. CASE HashFixture
  BY <1>3 DEF HashFixture
<1>4. CASE CreateWorkdir
  BY <1>4 DEF CreateWorkdir
<1>5. ASSUME NEW a \in Arm, CopyHome(a) PROVE TakenIsOlder'
  BY <1>5 DEF CopyHome
<1>6. CASE CheckHomes
  BY <1>6 DEF CheckHomes
<1>7. CASE CopyFixture
  BY <1>7 DEF CopyFixture
<1>8. CASE Session
  BY <1>8 DEF Session
<1>9. CASE Measure
  BY <1>9 DEF Measure
<1>10. CASE CloneResult
  BY <1>10 DEF CloneResult
<1>11. CASE CompareClones
  BY <1>11 DEF CompareClones
<1>12. CASE EvaluateArm
  BY <1>12 DEF EvaluateArm
<1>13. CASE Judge
  BY <1>13 DEF Judge
<1>14. CASE Recheck
  BY <1>14 DEF Recheck
<1>15. CASE Postflight
  BY <1>15 DEF Postflight, ArmPlugins, Installed
<1>16. CASE VerifyGuards
  BY <1>16 DEF VerifyGuards
<1>17. CASE WriteEvidence
  BY <1>17 DEF WriteEvidence
<1>18. CASE ValidateEvidence
  BY <1>18 DEF ValidateEvidence
<1>19. CASE Finalize
  BY <1>19 DEF Finalize
<1>20. ASSUME Executing, Fail PROVE TakenIsOlder'
  BY <1>20 DEF Fail, Executing
<1>21. CASE Crash
  BY <1>21 DEF Crash, Executing
<1>22. ASSUME NEW r \in Root, EditRoot(r) PROVE TakenIsOlder'
  BY <1>22 DEF EditRoot, Executing
<1>23. ASSUME NEW a \in Arm, EditHome(a) PROVE TakenIsOlder'
  BY <1>23 DEF EditHome
<1>24. CASE WriteLate
  BY <1>24 DEF WriteLate
<1>25. CASE UNCHANGED runVars
  BY <1>25 DEF runVars
<1>. QED BY <1>1, <1>2, <1>3, <1>4, <1>5, <1>6, <1>7, <1>8, <1>9, <1>10, <1>11, <1>12,
     <1>13, <1>14, <1>15, <1>16, <1>17, <1>18, <1>19, <1>20, <1>21, <1>22, <1>23, <1>24,
     <1>25 DEF RunNext

\* The check of the copied homes finds the frozen plugin, and edits make homes newer.
LEMMA RunHomes ==
  ASSUME RunTyped, NewestLeads, TakenIsOlder, HomesAreYounger, [RunNext]_runVars
  PROVE  HomesAreYounger'
<1> USE NoneIsNoValue, RunBounds DEF RunSteps, Opening, Copying, ArmRuns, Homed, Closing,
       Writing, TakenIsOlder, NewestLeads,HomesAreYounger, RunTyped, Proceed, Stop, Root,
       Arm
<1>1. CASE Preflight
  BY <1>1 DEF Preflight
<1>2. CASE SnapshotGuards
  BY <1>2 DEF SnapshotGuards
<1>3. CASE HashFixture
  BY <1>3 DEF HashFixture
<1>4. CASE CreateWorkdir
  BY <1>4 DEF CreateWorkdir
<1>5. ASSUME NEW a \in Arm, CopyHome(a) PROVE HomesAreYounger'
  BY <1>5 DEF CopyHome
<1>6. CASE CheckHomes
  BY <1>6 DEF CheckHomes, ArmPlugins, Installed
<1>7. CASE CopyFixture
  BY <1>7 DEF CopyFixture
<1>8. CASE Session
  BY <1>8 DEF Session
<1>9. CASE Measure
  BY <1>9 DEF Measure
<1>10. CASE CloneResult
  BY <1>10 DEF CloneResult
<1>11. CASE CompareClones
  BY <1>11 DEF CompareClones
<1>12. CASE EvaluateArm
  BY <1>12 DEF EvaluateArm
<1>13. CASE Judge
  BY <1>13 DEF Judge
<1>14. CASE Recheck
  BY <1>14 DEF Recheck
<1>15. CASE Postflight
  BY <1>15 DEF Postflight
<1>16. CASE VerifyGuards
  BY <1>16 DEF VerifyGuards
<1>17. CASE WriteEvidence
  BY <1>17 DEF WriteEvidence
<1>18. CASE ValidateEvidence
  BY <1>18 DEF ValidateEvidence
<1>19. CASE Finalize
  BY <1>19 DEF Finalize
<1>20. ASSUME Executing, Fail PROVE HomesAreYounger'
  BY <1>20 DEF Fail, Executing
<1>21. CASE Crash
  BY <1>21 DEF Crash, Executing
<1>22. ASSUME NEW r \in Root, EditRoot(r) PROVE HomesAreYounger'
  BY <1>22 DEF EditRoot, Executing
<1>23. ASSUME NEW a \in Arm, EditHome(a) PROVE HomesAreYounger'
  <2>1. /\ at \in Homed /\ at' = at /\ taken' = taken
        /\ homes' = [homes EXCEPT ![a] = newest + 1]
    BY <1>23 DEF EditHome
  <2>2. /\ taken.plugin \in Nat /\ newest \in Nat
        /\ homes[a] \in Nat /\ homes[a] <= newest /\ taken.plugin <= homes[a]
    BY <2>1
  <2>. QED BY <2>1, <2>2
<1>24. CASE WriteLate
  BY <1>24 DEF WriteLate
<1>25. CASE UNCHANGED runVars
  BY <1>25 DEF runVars
<1>. QED BY <1>1, <1>2, <1>3, <1>4, <1>5, <1>6, <1>7, <1>8, <1>9, <1>10, <1>11, <1>12,
     <1>13, <1>14, <1>15, <1>16, <1>17, <1>18, <1>19, <1>20, <1>21, <1>22, <1>23, <1>24,
     <1>25 DEF RunNext

\* The draft follows the arm at the head of the order through its steps.
LEMMA RunArm ==
  ASSUME RunTyped, NewestLeads, TakenIsOlder, HomesAreYounger, ArmIsNext, [RunNext]_runVars
  PROVE  ArmIsNext'
<1> USE NoneIsNoValue, RunBounds DEF RunSteps, Opening, Copying, ArmRuns, Homed, Closing,
       Writing, ArmIsNext, RunTyped, Proceed, Stop, Root, Arm, ADraft, ATree
<1>1. CASE Preflight
  BY <1>1 DEF Preflight
<1>2. CASE SnapshotGuards
  BY <1>2 DEF SnapshotGuards
<1>3. CASE HashFixture
  BY <1>3 DEF HashFixture
<1>4. CASE CreateWorkdir
  BY <1>4 DEF CreateWorkdir
<1>5. ASSUME NEW a \in Arm, CopyHome(a) PROVE ArmIsNext'
  BY <1>5 DEF CopyHome
<1>6. CASE CheckHomes
  BY <1>6 DEF CheckHomes
<1>7. CASE CopyFixture
  BY <1>7 DEF CopyFixture
<1>8. CASE Session
  <2>1. PICK drafted, ok \in BOOLEAN :
          draft' = [arm |-> draft.arm, fixture |-> draft.fixture,
                    plugin |-> homes[draft.arm], ok |-> ok]
    BY <1>8 DEF Session
  <2>2. homes[draft.arm] \in Nat /\ taken.plugin <= homes[draft.arm]
    BY <1>8 DEF Session, HomesAreYounger
  <2>. QED BY <1>8, <2>1, <2>2 DEF Session
<1>9. CASE Measure
  BY <1>9 DEF Measure, Changed
<1>10. CASE CloneResult
  BY <1>10 DEF CloneResult
<1>11. CASE CompareClones
  BY <1>11 DEF CompareClones, MeasuredTree
<1>12. CASE EvaluateArm
  BY <1>12 DEF EvaluateArm
<1>13. CASE Judge
  BY <1>13 DEF Judge
<1>14. CASE Recheck
  BY <1>14 DEF Recheck
<1>15. CASE Postflight
  BY <1>15 DEF Postflight
<1>16. CASE VerifyGuards
  BY <1>16 DEF VerifyGuards
<1>17. CASE WriteEvidence
  BY <1>17 DEF WriteEvidence
<1>18. CASE ValidateEvidence
  BY <1>18 DEF ValidateEvidence
<1>19. CASE Finalize
  BY <1>19 DEF Finalize
<1>20. ASSUME Executing, Fail PROVE ArmIsNext'
  BY <1>20 DEF Fail, Executing
<1>21. CASE Crash
  BY <1>21 DEF Crash, Executing
<1>22. ASSUME NEW r \in Root, EditRoot(r) PROVE ArmIsNext'
  BY <1>22 DEF EditRoot, Executing
<1>23. ASSUME NEW a \in Arm, EditHome(a) PROVE ArmIsNext'
  <2>1. /\ at' = at /\ UNCHANGED <<taken, todo, draft, tree, clones>> /\ at \in Homed
        /\ homes' = [homes EXCEPT ![a] = newest + 1] /\ homes[a] \in Nat /\ homes[a] <= newest
    BY <1>23 DEF EditHome, NewestLeads
  <2>2. CASE at \in ArmRuns \ {"session"}
    <3>1. draft.arm \in Arm /\ draft.plugin \in Nat
      BY <2>2
    <3>2. homes \in [Arm -> Nat \cup {None}] /\ homes[draft.arm] \in Nat /\ newest \in Nat
      BY <2>1, <3>1, <2>2 DEF HomesAreYounger
    <3>3. taken.plugin \in Nat
      BY <2>1 DEF TakenIsOlder
    <3> HIDE DEF RunTyped, ATree, ADraft, Arm
    <3>4. homes'[draft.arm] \in Nat /\ homes[draft.arm] <= homes'[draft.arm]
      BY <2>1, <3>1, <3>2
    <3>. QED BY <2>1, <2>2, <3>1, <3>2, <3>3, <3>4
  <2>3. CASE at \notin ArmRuns \ {"session"}
    BY <2>1, <2>3
  <2>. QED BY <2>2, <2>3
<1>24. CASE WriteLate
  <2>1. at' = at /\ UNCHANGED <<taken, todo, draft, homes, clones>> /\ at \in ArmRuns \ {"session"}
    BY <1>24 DEF WriteLate
  <2>2. tree'.late = newest + 1 /\ tree.late \in Nat /\ newest \in Nat /\ tree.late <= newest
    BY <1>24, <2>1 DEF WriteLate, NewestLeads
  <2>3. at # "measure" => draft.wasLate \in Nat
    BY <2>1
  <2> HIDE DEF RunTyped, ATree, ADraft
  <2>. QED BY <2>1, <2>2, <2>3
<1>25. CASE UNCHANGED runVars
  BY <1>25 DEF runVars
<1>. QED BY <1>1, <1>2, <1>3, <1>4, <1>5, <1>6, <1>7, <1>8, <1>9, <1>10, <1>11, <1>12,
     <1>13, <1>14, <1>15, <1>16, <1>17, <1>18, <1>19, <1>20, <1>21, <1>22, <1>23, <1>24,
     <1>25 DEF RunNext

\* A result enters with a plugin between the frozen one and its home; the recheck makes
\* them equal.
LEMMA RunFrozen ==
  ASSUME RunTyped, NewestLeads, TakenIsOlder, HomesAreYounger, ArmIsNext, ResultsAreFrozen, [RunNext]_runVars
  PROVE  ResultsAreFrozen'
<1> USE NoneIsNoValue, RunBounds DEF RunSteps, Opening, Copying, ArmRuns, Homed, Closing,
       Writing, ResultsAreFrozen, RunTyped, Proceed, Stop, Root, Arm, ARow
<1>1. CASE Preflight
  BY <1>1 DEF Preflight
<1>2. CASE SnapshotGuards
  BY <1>2 DEF SnapshotGuards
<1>3. CASE HashFixture
  BY <1>3 DEF HashFixture
<1>4. CASE CreateWorkdir
  BY <1>4 DEF CreateWorkdir
<1>5. ASSUME NEW a \in Arm, CopyHome(a) PROVE ResultsAreFrozen'
  BY <1>5 DEF CopyHome
<1>6. CASE CheckHomes
  BY <1>6 DEF CheckHomes
<1>7. CASE CopyFixture
  BY <1>7 DEF CopyFixture
<1>8. CASE Session
  BY <1>8 DEF Session
<1>9. CASE Measure
  BY <1>9 DEF Measure
<1>10. CASE CloneResult
  BY <1>10 DEF CloneResult
<1>11. CASE CompareClones
  BY <1>11 DEF CompareClones
<1>12. CASE EvaluateArm
  BY <1>12 DEF EvaluateArm
<1>13. CASE Judge
  <2>1. /\ at = "judge" /\ at' \in Homed /\ UNCHANGED <<homes, taken>>
    BY <1>13 DEF Judge
  <2>2. /\ draft.arm \in Arm /\ draft.fixture = taken.fixture
        /\ taken.plugin <= draft.plugin /\ draft.plugin <= homes[draft.arm]
    BY <2>1 DEF ArmIsNext, ADraft
  <2> HIDE DEF RunTyped, ARow, Arm
  <2>3. \A i \in DOMAIN armResults' :
          /\ armResults'[i].fixture = taken'.fixture
          /\ \/ armResults'[i].plugin = taken'.plugin
             \/ /\ taken'.plugin <= armResults'[i].plugin
                /\ armResults'[i].plugin <= homes'[armResults'[i].arm]
    BY <1>13, <2>1, <2>2, JudgeAppends
  <2>. QED BY <2>1, <2>3
<1>14. CASE Recheck
  <2>1. \A b \in Arm : homes[b] = taken.plugin /\ taken.plugin \in Nat
    BY <1>14, PluginsAgree DEF Recheck, HomesHeld, TakenIsOlder
  <2>2. \A i \in DOMAIN armResults : armResults[i].arm \in Arm /\ armResults[i].plugin \in Nat
    <3> HIDE DEF ARow
    <3>1. \A i \in DOMAIN armResults : armResults[i] \in ARow
      OBVIOUS
    <3>. QED BY <3>1 DEF ARow
  <2> HIDE DEF RunTyped, ARow, Arm
  <2>. QED BY <1>14, <2>1, <2>2 DEF Recheck
<1>15. CASE Postflight
  BY <1>15 DEF Postflight
<1>16. CASE VerifyGuards
  BY <1>16 DEF VerifyGuards
<1>17. CASE WriteEvidence
  BY <1>17 DEF WriteEvidence
<1>18. CASE ValidateEvidence
  BY <1>18 DEF ValidateEvidence
<1>19. CASE Finalize
  BY <1>19 DEF Finalize
<1>20. ASSUME Executing, Fail PROVE ResultsAreFrozen'
  BY <1>20 DEF Fail, Executing
<1>21. CASE Crash
  BY <1>21 DEF Crash, Executing
<1>22. ASSUME NEW r \in Root, EditRoot(r) PROVE ResultsAreFrozen'
  BY <1>22 DEF EditRoot, Executing
<1>23. ASSUME NEW a \in Arm, EditHome(a) PROVE ResultsAreFrozen'
  <2>1. /\ at' = at /\ UNCHANGED <<taken, armResults>> /\ at \in Homed
        /\ homes' = [homes EXCEPT ![a] = newest + 1] /\ homes[a] \in Nat /\ homes[a] <= newest
    BY <1>23 DEF EditHome, NewestLeads
  <2>2. \A b \in Arm : homes[b] \in Nat /\ homes'[b] \in Nat /\ homes[b] <= homes'[b]
    BY <2>1 DEF HomesAreYounger
  <2>3. \A i \in DOMAIN armResults : armResults[i].arm \in Arm /\ armResults[i].plugin \in Nat
    <3> HIDE DEF ARow
    <3>1. \A i \in DOMAIN armResults : armResults[i] \in ARow
      OBVIOUS
    <3>. QED BY <3>1 DEF ARow
  <2> HIDE DEF RunTyped, ARow, Arm
  <2>4. taken.plugin \in Nat
    BY <2>1 DEF TakenIsOlder
  <2>. QED BY <2>1, <2>2, <2>3, <2>4
<1>24. CASE WriteLate
  BY <1>24 DEF WriteLate
<1>25. CASE UNCHANGED runVars
  BY <1>25 DEF runVars
<1>. QED BY <1>1, <1>2, <1>3, <1>4, <1>5, <1>6, <1>7, <1>8, <1>9, <1>10, <1>11, <1>12,
     <1>13, <1>14, <1>15, <1>16, <1>17, <1>18, <1>19, <1>20, <1>21, <1>22, <1>23, <1>24,
     <1>25 DEF RunNext

\* The checks judged the tree that is recorded with their verdicts.
LEMMA RunJudged ==
  ASSUME RunTyped, NewestLeads, ArmIsNext, JudgedAsLeft, [RunNext]_runVars
  PROVE  JudgedAsLeft'
<1> USE NoneIsNoValue, RunBounds DEF RunSteps, Opening, Copying, ArmRuns, Homed, Closing,
       Writing, JudgedAsLeft, Proceed, Stop, Changed
<1>1. CASE Preflight
  BY <1>1 DEF Preflight
<1>2. CASE SnapshotGuards
  BY <1>2 DEF SnapshotGuards
<1>3. CASE HashFixture
  BY <1>3 DEF HashFixture
<1>4. CASE CreateWorkdir
  BY <1>4 DEF CreateWorkdir
<1>5. ASSUME NEW a \in Arm, CopyHome(a) PROVE JudgedAsLeft'
  BY <1>5 DEF CopyHome
<1>6. CASE CheckHomes
  BY <1>6 DEF CheckHomes
<1>7. CASE CopyFixture
  BY <1>7 DEF CopyFixture
<1>8. CASE Session
  BY <1>8 DEF Session
<1>9. CASE Measure
  BY <1>9 DEF Measure
<1>10. CASE CloneResult
  BY <1>10 DEF CloneResult
<1>11. CASE CompareClones
  BY <1>11 DEF CompareClones
<1>12. CASE EvaluateArm
  BY <1>12 DEF EvaluateArm
<1>13. CASE Judge
  <2>1. /\ clones.hidden = tree /\ clones.quality = tree
        /\ tree.late = draft.wasLate => draft.changed = tree.work
    BY <1>13 DEF Judge, ArmIsNext, Unchanged
  <2>. QED BY <1>13, <2>1, JudgeAppends
<1>14. CASE Recheck
  BY <1>14 DEF Recheck
<1>15. CASE Postflight
  BY <1>15 DEF Postflight
<1>16. CASE VerifyGuards
  BY <1>16 DEF VerifyGuards
<1>17. CASE WriteEvidence
  BY <1>17 DEF WriteEvidence
<1>18. CASE ValidateEvidence
  BY <1>18 DEF ValidateEvidence
<1>19. CASE Finalize
  BY <1>19 DEF Finalize
<1>20. ASSUME Executing, Fail PROVE JudgedAsLeft'
  BY <1>20 DEF Fail, Executing
<1>21. CASE Crash
  BY <1>21 DEF Crash, Executing
<1>22. ASSUME NEW r \in Root, EditRoot(r) PROVE JudgedAsLeft'
  BY <1>22 DEF EditRoot, Executing
<1>23. ASSUME NEW a \in Arm, EditHome(a) PROVE JudgedAsLeft'
  BY <1>23 DEF EditHome
<1>24. CASE WriteLate
  BY <1>24 DEF WriteLate
<1>25. CASE UNCHANGED runVars
  BY <1>25 DEF runVars
<1>. QED BY <1>1, <1>2, <1>3, <1>4, <1>5, <1>6, <1>7, <1>8, <1>9, <1>10, <1>11, <1>12,
     <1>13, <1>14, <1>15, <1>16, <1>17, <1>18, <1>19, <1>20, <1>21, <1>22, <1>23, <1>24,
     <1>25 DEF RunNext

\* A judged arm moves from the arms owed to the results; the recheck ends a repetition.
LEMMA RunCounted ==
  ASSUME RunTyped, ArmIsNext, ResultsAreCounted, ResultsAreFrozen, [RunNext]_runVars
  PROVE  ResultsAreCounted'
<1> USE NoneIsNoValue, RunBounds DEF RunSteps, Opening, Copying, ArmRuns, Homed, Closing,
       Writing, ResultsAreCounted, RunTyped, Proceed, Stop
<1>1. CASE Preflight
  BY <1>1 DEF Preflight
<1>2. CASE SnapshotGuards
  BY <1>2 DEF SnapshotGuards
<1>3. CASE HashFixture
  BY <1>3 DEF HashFixture
<1>4. CASE CreateWorkdir
  BY <1>4 DEF CreateWorkdir, ResultsAreFrozen
<1>5. ASSUME NEW a \in Arm, CopyHome(a) PROVE ResultsAreCounted'
  BY <1>5 DEF CopyHome
<1>6. CASE CheckHomes
  <2>1. Len(todo') = 2 /\ todo' # <<>> /\ \A b \in Arm : Owed(todo', b)
    <3>1. todo' = <<"baseline", "candidate">> \/ todo' = <<"candidate", "baseline">>
      BY <1>6 DEF CheckHomes
    <3> HIDE DEF RunTyped, ResultsAreCounted
    <3>. QED BY <3>1 DEF Owed, Arm
  <2>2. at = "check" /\ at' = "copy" /\ UNCHANGED <<armResults, rep>>
    BY <1>6 DEF CheckHomes
  <2>. QED BY <2>1, <2>2
<1>7. CASE CopyFixture
  BY <1>7 DEF CopyFixture
<1>8. CASE Session
  BY <1>8 DEF Session
<1>9. CASE Measure
  BY <1>9 DEF Measure
<1>10. CASE CloneResult
  BY <1>10 DEF CloneResult
<1>11. CASE CompareClones
  BY <1>11 DEF CompareClones
<1>12. CASE EvaluateArm
  BY <1>12 DEF EvaluateArm
<1>13. CASE Judge
  <2> DEFINE n == Len(armResults)
  <2>1. /\ n \in Nat /\ DOMAIN armResults = 1..n /\ DOMAIN armResults' = 1..n + 1
        /\ Len(armResults') = n + 1
        /\ \A i \in 1..n : armResults'[i] = armResults[i]
        /\ armResults'[n + 1].arm = Head(todo) /\ armResults'[n + 1].rep = rep
    BY <1>13, JudgeAppends DEF Judge, ArmIsNext
  <2>2. \A b, k : HasRun(armResults, b, k) => HasRun(armResults', b, k)
    <3> SUFFICES ASSUME NEW b, NEW k, HasRun(armResults, b, k) PROVE HasRun(armResults', b, k)
      OBVIOUS
    <3>1. PICK i \in 1..n : armResults[i].arm = b /\ armResults[i].rep = k
      BY <2>1 DEF HasRun
    <3> HIDE DEF RunTyped, ResultsAreCounted, n
    <3>2. i \in 1..n + 1 /\ armResults'[i] = armResults[i]
      BY <2>1
    <3>. QED BY <2>1, <3>1, <3>2 DEF HasRun
  <2>3. HasRun(armResults', Head(todo), rep)
    <3> HIDE DEF RunTyped, ResultsAreCounted, n
    <3>. QED BY <2>1 DEF HasRun
  <2>4. /\ todo \in Orders /\ todo # <<>> /\ todo' = Tail(todo) /\ rep' = rep
        /\ at = "judge" /\ at' = IF Len(todo) = 1 THEN "recheck" ELSE "copy"
    BY <1>13 DEF Judge, ArmIsNext
  <2>5. /\ Len(todo) \in {1, 2} /\ Len(todo') = Len(todo) - 1
        /\ todo' = <<>> <=> Len(todo) = 1
        /\ \A b \in Arm : Owed(todo, b) => b = Head(todo) \/ Owed(todo', b)
    BY <2>4, OrdersShrink
  <2>6. \A b \in Arm : Owed(todo', b) \/ HasRun(armResults', b, rep')
    BY <2>2, <2>3, <2>4, <2>5
  <2>7. rep >= 1 /\ rep \in Nat /\ Len(armResults) + Len(todo) = 2 * rep /\ Len(todo) \in Nat
    BY <2>4, <2>5, RunBounds
  <2>8. Len(armResults') + Len(todo') = 2 * rep'
    <3>1. Len(armResults') = n + 1 /\ Len(todo') = Len(todo) - 1 /\ rep' = rep /\ n \in Nat
      BY <2>1, <2>4, <2>5
    <3> HIDE DEF RunTyped, ResultsAreCounted
    <3>. QED BY <2>7, <3>1
  <2>9. \A k \in 1..rep' - 1, b \in Arm : HasRun(armResults', b, k)
    BY <2>2, <2>4
  <2>10. at' = "recheck" <=> todo' = <<>>
    BY <2>4, <2>5
  <2> HIDE DEF RunTyped, n
  <2>. QED BY <2>4, <2>6, <2>7, <2>8, <2>9, <2>10
<1>14. CASE Recheck
  <2>1. \A b \in Arm : HasRun(armResults, b, rep)
    BY <1>14 DEF Recheck, Owed
  <2>2. \A k \in 1..rep, b \in Arm : HasRun(armResults, b, k)
    <3>1. \A k \in 1..rep - 1, b \in Arm : HasRun(armResults, b, k)
      BY <1>14 DEF Recheck
    <3>2. rep \in Nat
      OBVIOUS
    <3> HIDE DEF RunTyped, ResultsAreCounted
    <3>. QED BY <2>1, <3>1, <3>2
  <2>3. Len(armResults) = 2 * rep /\ rep >= 1
    BY <1>14 DEF Recheck
  <2>4. /\ armResults' = armResults
        /\ rep' = IF rep < LastRep THEN rep + 1 ELSE rep
        /\ at' = IF rep < LastRep THEN "homes" ELSE "postflight"
    <3> HIDE DEF RunTyped, ResultsAreCounted
    <3>. QED BY <1>14 DEF Recheck
  <2>5. rep \in 0..LastRep /\ LastRep \in Nat
    OBVIOUS
  <2> HIDE DEF RunTyped, ResultsAreCounted, HasRun
  <2>6. CASE rep < LastRep
    <3>1. rep' = rep + 1 /\ rep' - 1 = rep /\ at' = "homes"
      BY <2>4, <2>5, <2>6
    <3>. QED BY <2>2, <2>3, <2>4, <2>5, <3>1 DEF ResultsAreCounted
  <2>7. CASE ~(rep < LastRep)
    <3>1. rep = LastRep /\ at' = "postflight"
      BY <2>4, <2>5, <2>7
    <3>. QED BY <2>2, <2>3, <2>4, <2>5, <3>1 DEF ResultsAreCounted
  <2>. QED BY <2>6, <2>7
<1>15. CASE Postflight
  BY <1>15 DEF Postflight
<1>16. CASE VerifyGuards
  BY <1>16 DEF VerifyGuards
<1>17. CASE WriteEvidence
  BY <1>17 DEF WriteEvidence
<1>18. CASE ValidateEvidence
  BY <1>18 DEF ValidateEvidence
<1>19. CASE Finalize
  BY <1>19 DEF Finalize
<1>20. ASSUME Executing, Fail PROVE ResultsAreCounted'
  BY <1>20 DEF Fail, Executing
<1>21. CASE Crash
  BY <1>21 DEF Crash, Executing
<1>22. ASSUME NEW r \in Root, EditRoot(r) PROVE ResultsAreCounted'
  BY <1>22 DEF EditRoot, Executing
<1>23. ASSUME NEW a \in Arm, EditHome(a) PROVE ResultsAreCounted'
  BY <1>23 DEF EditHome
<1>24. CASE WriteLate
  BY <1>24 DEF WriteLate
<1>25. CASE UNCHANGED runVars
  BY <1>25 DEF runVars
<1>. QED BY <1>1, <1>2, <1>3, <1>4, <1>5, <1>6, <1>7, <1>8, <1>9, <1>10, <1>11, <1>12,
     <1>13, <1>14, <1>15, <1>16, <1>17, <1>18, <1>19, <1>20, <1>21, <1>22, <1>23, <1>24,
     <1>25 DEF RunNext

\* Guards that are verified after the last look at the plugin hold all roots to what was
\* taken down, so the evidence that is written then is of one experiment.
LEMMA RunEvidence ==
  ASSUME RunTyped, TakenIsOlder, ResultsAreFrozen, ResultsAreCounted, EvidenceIsLast, [RunNext]_runVars
  PROVE  EvidenceIsLast'
<1> USE NoneIsNoValue, RunBounds DEF RunSteps, Opening, Copying, ArmRuns, Homed, Closing,
       Writing, EvidenceIsLast, RunTyped, Proceed, Stop
<1>1. CASE Preflight
  BY <1>1 DEF Preflight
<1>2. CASE SnapshotGuards
  BY <1>2 DEF SnapshotGuards
<1>3. CASE HashFixture
  BY <1>3 DEF HashFixture
<1>4. CASE CreateWorkdir
  BY <1>4 DEF CreateWorkdir
<1>5. ASSUME NEW a \in Arm, CopyHome(a) PROVE EvidenceIsLast'
  BY <1>5 DEF CopyHome
<1>6. CASE CheckHomes
  BY <1>6 DEF CheckHomes
<1>7. CASE CopyFixture
  BY <1>7 DEF CopyFixture
<1>8. CASE Session
  BY <1>8 DEF Session
<1>9. CASE Measure
  BY <1>9 DEF Measure
<1>10. CASE CloneResult
  BY <1>10 DEF CloneResult
<1>11. CASE CompareClones
  BY <1>11 DEF CompareClones
<1>12. CASE EvaluateArm
  BY <1>12 DEF EvaluateArm
<1>13. CASE Judge
  BY <1>13 DEF Judge
<1>14. CASE Recheck
  BY <1>14 DEF Recheck
<1>15. CASE Postflight
  BY <1>15 DEF Postflight
<1>16. CASE VerifyGuards
  <2>1. \A r \in Root \ {"fixture"} : taken.guards[r] = taken.plugin
    BY <1>16 DEF VerifyGuards, TakenIsOlder, Root, Arm
  <2>2. taken.guards["fixture"] = taken.fixture
    BY <1>16 DEF VerifyGuards, TakenIsOlder, Root
  <2>3. taken.guards = [r \in Root |-> IF r = "fixture" THEN taken.fixture ELSE taken.plugin]
    BY <1>16, <2>1, <2>2 DEF VerifyGuards
  <2>4. ExperimentIsOne(armResults, taken)
    BY <1>16, <2>3 DEF VerifyGuards, ResultsAreFrozen, ResultsAreCounted, ExperimentIsOne
  <2>. QED BY <1>16, <2>4 DEF VerifyGuards
<1>17. CASE WriteEvidence
  BY <1>17 DEF WriteEvidence
<1>18. CASE ValidateEvidence
  BY <1>18 DEF ValidateEvidence
<1>19. CASE Finalize
  BY <1>19 DEF Finalize
<1>20. ASSUME Executing, Fail PROVE EvidenceIsLast'
  BY <1>20 DEF Fail, Executing
<1>21. CASE Crash
  BY <1>21 DEF Crash, Executing
<1>22. ASSUME NEW r \in Root, EditRoot(r) PROVE EvidenceIsLast'
  BY <1>22 DEF EditRoot, Executing
<1>23. ASSUME NEW a \in Arm, EditHome(a) PROVE EvidenceIsLast'
  BY <1>23 DEF EditHome
<1>24. CASE WriteLate
  BY <1>24 DEF WriteLate
<1>25. CASE UNCHANGED runVars
  BY <1>25 DEF runVars
<1>. QED BY <1>1, <1>2, <1>3, <1>4, <1>5, <1>6, <1>7, <1>8, <1>9, <1>10, <1>11, <1>12,
     <1>13, <1>14, <1>15, <1>16, <1>17, <1>18, <1>19, <1>20, <1>21, <1>22, <1>23, <1>24,
     <1>25 DEF RunNext

\* An exit code comes with the end of the run.
LEMMA RunExit ==
  ASSUME RunTyped, ExitIsLast, WorkOutlivesFailure, [RunNext]_runVars
  PROVE  ExitIsLast'
<1> USE NoneIsNoValue, RunBounds DEF RunSteps, Opening, Copying, ArmRuns, Homed, Closing,
       Writing, ExitIsLast, Stop, Proceed, Succeeded, WorkOutlivesFailure
<1>1. CASE Preflight
  BY <1>1 DEF Preflight
<1>2. CASE SnapshotGuards
  BY <1>2 DEF SnapshotGuards
<1>3. CASE HashFixture
  BY <1>3 DEF HashFixture
<1>4. CASE CreateWorkdir
  BY <1>4 DEF CreateWorkdir
<1>5. ASSUME NEW a \in Arm, CopyHome(a) PROVE ExitIsLast'
  BY <1>5 DEF CopyHome
<1>6. CASE CheckHomes
  BY <1>6 DEF CheckHomes
<1>7. CASE CopyFixture
  BY <1>7 DEF CopyFixture
<1>8. CASE Session
  BY <1>8 DEF Session
<1>9. CASE Measure
  BY <1>9 DEF Measure
<1>10. CASE CloneResult
  BY <1>10 DEF CloneResult
<1>11. CASE CompareClones
  BY <1>11 DEF CompareClones
<1>12. CASE EvaluateArm
  BY <1>12 DEF EvaluateArm
<1>13. CASE Judge
  BY <1>13 DEF Judge
<1>14. CASE Recheck
  BY <1>14 DEF Recheck
<1>15. CASE Postflight
  BY <1>15 DEF Postflight
<1>16. CASE VerifyGuards
  BY <1>16 DEF VerifyGuards
<1>17. CASE WriteEvidence
  BY <1>17 DEF WriteEvidence
<1>18. CASE ValidateEvidence
  BY <1>18 DEF ValidateEvidence
<1>19. CASE Finalize
  BY <1>19 DEF Finalize, RunTyped
<1>20. ASSUME Executing, Fail PROVE ExitIsLast'
  BY <1>20 DEF Fail, Executing, RunTyped
<1>21. CASE Crash
  BY <1>21 DEF Crash, Executing
<1>22. ASSUME NEW r \in Root, EditRoot(r) PROVE ExitIsLast'
  BY <1>22 DEF EditRoot, Executing
<1>23. ASSUME NEW a \in Arm, EditHome(a) PROVE ExitIsLast'
  BY <1>23 DEF EditHome
<1>24. CASE WriteLate
  BY <1>24 DEF WriteLate
<1>25. CASE UNCHANGED runVars
  BY <1>25 DEF runVars
<1>. QED BY <1>1, <1>2, <1>3, <1>4, <1>5, <1>6, <1>7, <1>8, <1>9, <1>10, <1>11, <1>12,
     <1>13, <1>14, <1>15, <1>16, <1>17, <1>18, <1>19, <1>20, <1>21, <1>22, <1>23, <1>24,
     <1>25 DEF RunNext

\* The work directory goes, and an exit code is good, only behind validated evidence.
LEMMA RunWork ==
  ASSUME RunTyped, ExitIsLast, WorkOutlivesFailure, [RunNext]_runVars
  PROVE  WorkOutlivesFailure'
<1> USE NoneIsNoValue, RunBounds DEF RunSteps, Opening, Copying, ArmRuns, Homed, Closing,
       Writing, ExitIsLast, WorkOutlivesFailure, Proceed, Stop, Succeeded
<1>1. CASE Preflight
  BY <1>1 DEF Preflight
<1>2. CASE SnapshotGuards
  BY <1>2 DEF SnapshotGuards
<1>3. CASE HashFixture
  BY <1>3 DEF HashFixture
<1>4. CASE CreateWorkdir
  BY <1>4 DEF CreateWorkdir
<1>5. ASSUME NEW a \in Arm, CopyHome(a) PROVE WorkOutlivesFailure'
  BY <1>5 DEF CopyHome
<1>6. CASE CheckHomes
  BY <1>6 DEF CheckHomes
<1>7. CASE CopyFixture
  BY <1>7 DEF CopyFixture
<1>8. CASE Session
  BY <1>8 DEF Session
<1>9. CASE Measure
  BY <1>9 DEF Measure
<1>10. CASE CloneResult
  BY <1>10 DEF CloneResult
<1>11. CASE CompareClones
  BY <1>11 DEF CompareClones
<1>12. CASE EvaluateArm
  BY <1>12 DEF EvaluateArm
<1>13. CASE Judge
  BY <1>13 DEF Judge
<1>14. CASE Recheck
  BY <1>14 DEF Recheck
<1>15. CASE Postflight
  BY <1>15 DEF Postflight
<1>16. CASE VerifyGuards
  BY <1>16 DEF VerifyGuards
<1>17. CASE WriteEvidence
  BY <1>17 DEF WriteEvidence
<1>18. CASE ValidateEvidence
  BY <1>18 DEF ValidateEvidence
<1>19. CASE Finalize
  BY <1>19 DEF Finalize
<1>20. ASSUME Executing, Fail PROVE WorkOutlivesFailure'
  BY <1>20 DEF Fail, Executing, RunTyped
<1>21. CASE Crash
  BY <1>21 DEF Crash, Executing, RunTyped
<1>22. ASSUME NEW r \in Root, EditRoot(r) PROVE WorkOutlivesFailure'
  BY <1>22 DEF EditRoot, Executing
<1>23. ASSUME NEW a \in Arm, EditHome(a) PROVE WorkOutlivesFailure'
  BY <1>23 DEF EditHome
<1>24. CASE WriteLate
  BY <1>24 DEF WriteLate
<1>25. CASE UNCHANGED runVars
  BY <1>25 DEF runVars
<1>. QED BY <1>1, <1>2, <1>3, <1>4, <1>5, <1>6, <1>7, <1>8, <1>9, <1>10, <1>11, <1>12,
     <1>13, <1>14, <1>15, <1>16, <1>17, <1>18, <1>19, <1>20, <1>21, <1>22, <1>23, <1>24,
     <1>25 DEF RunNext

\* The invariant holds before the first step.
LEMMA RunStarts == ASSUME RunInit PROVE RunIInv
<1> USE NoneIsNoValue, RunBounds DEF RunInit, NoHomes, RunSteps, Opening, Copying, ArmRuns,
       Homed, Closing, Writing
<1>1. RunTyped
  BY DEF RunTyped, Orders, File
<1>2. NewestLeads /\ TakenIsOlder /\ HomesAreYounger
  BY DEF NewestLeads, TakenIsOlder, HomesAreYounger
<1>3. ArmIsNext /\ ResultsAreFrozen /\ ResultsAreCounted /\ JudgedAsLeft
  BY DEF ArmIsNext, ResultsAreFrozen, ResultsAreCounted, JudgedAsLeft
<1>4. EvidenceIsLast
  BY DEF EvidenceIsLast
<1>5. None # "gone" /\ None # 0 /\ None # 1
  BY NoneIsNoWork
<1>6. ExitIsLast /\ WorkOutlivesFailure
  BY <1>5 DEF ExitIsLast, WorkOutlivesFailure
<1>. QED BY <1>1, <1>2, <1>3, <1>4, <1>6 DEF RunIInv

\* The parts of the invariant keep one another.
LEMMA RunKeeps == RunIInv /\ [RunNext]_runVars => RunIInv'
BY RunTypes, RunNewest, RunTaken, RunHomes, RunArm, RunFrozen, RunJudged, RunCounted, RunEvidence,
   RunExit, RunWork DEF RunIInv

\* The invariant implies what the run checks.
LEMMA RunHolds == RunIInv => RunTyped /\ LiveRunIsSound
BY DEF RunIInv, LiveRunIsSound, OneExperiment, EvidenceIsLast, ExperimentIsOne, HasRun

\* The live runner: evidence is of one frozen experiment, its checks judged what was
\* recorded, and the work directory goes only behind complete evidence.
THEOREM LiveRunStaysSound == RunSpec => []LiveRunIsSound
BY RunStarts, RunKeeps, RunHolds, PTL DEF RunSpec
-----------------------------------------------------------------------------
(* Recursion over numbers up to a bound, for what the planner and the reader  *)
(* of rollouts compute: by least elements of sets of numbers, so that it is     *)
(* induction over a set and not over a predicate.                            *)

\* Of some numbers up to a bound one is least.
LEMMA LeastOf ==
  ASSUME NEW N \in Nat, NEW S \in SUBSET (0..N), S # {}
  PROVE  \E m \in S : \A k \in S : m <= k
<1> DEFINE Less == {ss \in Nat \X Nat : ss[1] < ss[2]}
<1>1. IsWellFoundedOn(Less, Nat)
  BY NatLessThanWellFounded DEF OpToRel
<1>2. S \subseteq Nat
  OBVIOUS
<1>3. PICK m \in S : \A k \in S : <<k, m>> \notin Less
  <2> HIDE DEF Less
  <2> QED BY <1>1, <1>2, WFMin
<1>4. \A k \in S : ~(k < m)
  BY <1>2, <1>3
<1> QED BY <1>2, <1>4

\* Induction up to a bound, over a set instead of a predicate.
LEMMA InductionTo ==
  ASSUME NEW N \in Nat, NEW S, 0 \in S,
         \A n \in 0..N : n < N /\ n \in S => n + 1 \in S
  PROVE  \A n \in 0..N : n \in S
<1> DEFINE T == {n \in 0..N : n \notin S}
<1> SUFFICES ASSUME T # {} PROVE FALSE
  OBVIOUS
<1>1. T \in SUBSET (0..N)
  OBVIOUS
<1>2. PICK m \in T : \A k \in T : m <= k
  <2> HIDE DEF T
  <2> QED BY <1>1, LeastOf
<1>3. m # 0 /\ m - 1 \in 0..N /\ m - 1 < N /\ m \notin S
  BY <1>2
<1>4. m - 1 \in S
  <2> SUFFICES ASSUME m - 1 \in T PROVE FALSE
    BY <1>3
  <2> QED BY <1>2, <1>3
<1>5. (m - 1) + 1 = m
  BY <1>2
<1> QED BY <1>3, <1>4, <1>5

\* And one is greatest.
LEMMA GreatestOf ==
  ASSUME NEW N \in Nat, NEW S \in SUBSET (0..N), S # {}
  PROVE  \E m \in S : \A k \in S : k <= m
<1> DEFINE T == {N - k : k \in S}
<1>1. T \in SUBSET (0..N) /\ T # {}
  <2>1. \A k \in S : N - k \in 0..N
    OBVIOUS
  <2> QED BY <2>1
<1>2. PICK g \in T : \A h \in T : g <= h
  <2> HIDE DEF T
  <2> QED BY <1>1, LeastOf
<1>3. PICK m \in S : g = N - m
  BY <1>2
<1>4. \A k \in S : k <= m
  <2> TAKE k \in S
  <2>1. N - k \in T
    OBVIOUS
  <2>2. N - m <= N - k
    BY <1>2, <1>3, <2>1
  <2> QED BY <2>2
<1> QED BY <1>4

\* A function on numbers that steps from each to the next.
Stepwise(f, N, T, base, step) ==
  f \in [0..N -> T] /\ f[0] = base /\ \A n \in 1..N : f[n] = step[n][f[n - 1]]

\* Recursion up to a bound, over a set of values.
LEMMA RecursionTo ==
  ASSUME NEW N \in Nat, NEW T, NEW base \in T, NEW step \in [Nat -> [T -> T]]
  PROVE  \E f : Stepwise(f, N, T, base, step)
<1> DEFINE Upto(f, n) == f[0] = base /\ \A k \in 1..n : f[k] = step[k][f[k - 1]]
           S == {n \in 0..N : \E f \in [0..n -> T] : Upto(f, n)}
<1>1. 0 \in S
  <2> DEFINE f == [k \in 0..0 |-> base]
  <2>1. f \in [0..0 -> T] /\ Upto(f, 0)
    OBVIOUS
  <2> HIDE DEF f, Upto
  <2>2. \E g \in [0..0 -> T] : Upto(g, 0)
    BY <2>1
  <2> QED BY <2>2
<1>2. \A n \in 0..N : n < N /\ n \in S => n + 1 \in S
  <2> TAKE n \in 0..N
  <2> HAVE n < N /\ n \in S
  <2>1. PICK f \in [0..n -> T] : Upto(f, n)
    OBVIOUS
  <2> DEFINE g == [k \in 0..n + 1 |-> IF k <= n THEN f[k] ELSE step[n + 1][f[n]]]
  <2>2. \A k \in 0..n : g[k] = f[k]
    OBVIOUS
  <2>3. g \in [0..n + 1 -> T]
    <3>1. f[n] \in T /\ step[n + 1] \in [T -> T]
      OBVIOUS
    <3>2. step[n + 1][f[n]] \in T
      BY <3>1
    <3> QED BY <3>2
  <2>4. ASSUME NEW k \in 1..n + 1 PROVE g[k] = step[k][g[k - 1]]
    <3>1. CASE k \in 1..n
      <4>1. k - 1 \in 0..n /\ k \in 0..n
        BY <3>1
      <4> QED BY <2>1, <2>2, <3>1, <4>1
    <3>2. CASE k = n + 1
      <4>1. k - 1 = n /\ ~(k <= n)
        BY <3>2
      <4> QED BY <2>2, <3>2, <4>1
    <3> QED BY <3>1, <3>2
  <2>5. g[0] = base
    BY <2>1, <2>2
  <2> HIDE DEF g
  <2>6. Upto(g, n + 1)
    BY <2>4, <2>5
  <2>7. n + 1 \in 0..N
    OBVIOUS
  <2> QED BY <2>3, <2>6, <2>7
<1> HIDE DEF S
<1>3. \A n \in 0..N : n \in S
  BY <1>1, <1>2, InductionTo
<1>4. N \in S
  BY <1>3
<1> QED BY <1>4 DEF S, Stepwise
-----------------------------------------------------------------------------
(* Theorems about AgentPlan, for any planning inputs, any number of units and  *)
(* any paths.                                                              *)
(* The first k of a set of units.                                          *)

\* A host has finitely many units, and so has every part of them.
LEMMA UnitsAreFinite ==
  /\ IsFiniteSet(Unit)
  /\ \A S \in SUBSET Unit : IsFiniteSet(S) /\ Cardinality(S) \in Nat
<1>1. IsFiniteSet(Unit)
  BY PlanConstants, FS_Interval DEF PlanConstants, Unit
<1> QED BY <1>1, FS_Subset, FS_CardinalityType

\* FirstOf picks units of the set, and no more than it is asked for: the largest one
\* it picks has all the others below it.
LEMMA FirstOfBound ==
  ASSUME NEW S \in SUBSET Unit, NEW k \in Nat
  PROVE  FirstOf(S, k) \in SUBSET S /\ Cardinality(FirstOf(S, k)) <= k
<1> DEFINE F == FirstOf(S, k)
<1>1. F \in SUBSET S /\ F \in SUBSET Unit
  BY DEF FirstOf
<1>2. CASE F = {}
  BY <1>1, <1>2, FS_EmptySet
<1>3. CASE F # {}
  <2>1. LastUnit \in Nat /\ F \in SUBSET (0..LastUnit)
    BY <1>1, PlanConstants DEF PlanConstants, Unit
  <2>2. PICK m \in F : \A u \in F : u <= m
    <3> HIDE DEF F
    <3> QED BY <1>3, <2>1, GreatestOf
  <2> DEFINE below == {v \in S : v < m}
  <2>3. Cardinality(below) < k
    BY DEF FirstOf
  <2>4. F \ {m} \in SUBSET below
    BY <1>1, <2>1, <2>2 DEF Unit
  <2>5. below \in SUBSET Unit
    OBVIOUS
  <2> HIDE DEF F, below
  <2>6. Cardinality(F \ {m}) <= Cardinality(below) /\ Cardinality(below) \in Nat
    BY <2>4, <2>5, UnitsAreFinite, FS_Subset
  <2>7. Cardinality(F \ {m}) = Cardinality(F) - 1 /\ Cardinality(F) \in Nat
    BY <1>1, <2>2, UnitsAreFinite, FS_RemoveElement
  <2> QED BY <1>1, <2>3, <2>6, <2>7 DEF F
<1> QED BY <1>2, <1>3
-----------------------------------------------------------------------------
(* The schedule.                                                           *)

\* What is scheduled after one more wave.
Later(i, done) ==
  done \cup FirstOf({u \in Candidates(i) \ done : i.units[u].deps \subseteq i.completed \cup done},
                    Capacity(i))

Schedules(f, i, N) == f = [n \in 0..N |-> IF n = 0 THEN {} ELSE Later(i, f[n - 1])]

\* There is a schedule up to any number of waves.
LEMMA SchedulesExist ==
  ASSUME NEW i, NEW N \in Nat
  PROVE  \E f : Schedules(f, i, N)
<1> DEFINE T == SUBSET Candidates(i)
           base == {}
           step == [n \in Nat |-> [done \in T |-> Later(i, done)]]
<1>1. base \in T /\ \A done \in T : Later(i, done) \in T
  BY DEF Later, FirstOf
<1>2. step \in [Nat -> [T -> T]]
  BY <1>1
<1> HIDE DEF T, base
<1>3. PICK f : Stepwise(f, N, T, base, step)
  <2> HIDE DEF step
  <2> QED BY <1>1, <1>2, RecursionTo
<1>4. ASSUME NEW n \in 0..N PROVE f[n] = IF n = 0 THEN {} ELSE Later(i, f[n - 1])
  <2>1. CASE n = 0
    BY <1>3, <2>1 DEF Stepwise, base
  <2>2. CASE n # 0
    <3>1. n \in 1..N /\ n - 1 \in 0..N /\ n \in Nat
      BY <2>2
    <3>2. f[n - 1] \in T /\ f[n] = step[n][f[n - 1]]
      BY <1>3, <3>1 DEF Stepwise
    <3> QED BY <2>2, <3>1, <3>2
  <2> QED BY <2>1, <2>2
<1>5. f = [n \in 0..N |-> f[n]]
  BY <1>3 DEF Stepwise
<1>6. f = [n \in 0..N |-> IF n = 0 THEN {} ELSE Later(i, f[n - 1])]
  BY <1>4, <1>5
<1> QED BY <1>6 DEF Schedules

\* The schedule of the planner is one.
LEMMA ScheduledIs ==
  ASSUME NEW i
  PROVE  Schedules(Scheduled(i), i, LastUnit)
<1>1. \E f : Schedules(f, i, LastUnit)
  BY SchedulesExist, PlanConstants DEF PlanConstants
<1>2. Scheduled(i) = CHOOSE f : Schedules(f, i, LastUnit)
  BY DEF Scheduled, Schedules, Later
<1> QED BY <1>1, <1>2

\* The capacity of a host with two slots or more.
LEMMA CapacityBound ==
  ASSUME NEW i \in PlanInput, i.slots >= 2
  PROVE  Capacity(i) \in Nat /\ Capacity(i) <= i.slots - 1
<1>1. Candidates(i) \in SUBSET Unit
  BY DEF Candidates
<1>2. Cardinality(Candidates(i)) \in Nat
  BY <1>1, UnitsAreFinite
<1>3. i.slots \in Nat
  BY DEF PlanInput
<1> QED BY <1>2, <1>3 DEF Capacity, MinOf

\* The schedule starts empty and grows by candidates.
LEMMA ScheduleGrows ==
  ASSUME NEW i \in PlanInput
  PROVE  /\ Scheduled(i)[0] = {}
         /\ \A n \in 0..LastUnit : n < LastUnit => Scheduled(i)[n + 1] = Later(i, Scheduled(i)[n])
         /\ \A n \in 0..LastUnit : Scheduled(i)[n] \in SUBSET Candidates(i)
         /\ \A m, n \in 0..LastUnit : m <= n => Scheduled(i)[m] \in SUBSET Scheduled(i)[n]
<1> DEFINE f == Scheduled(i)
<1>0. LastUnit \in Nat
  BY PlanConstants DEF PlanConstants
<1>1. f = [n \in 0..LastUnit |-> IF n = 0 THEN {} ELSE Later(i, f[n - 1])]
  BY ScheduledIs DEF Schedules
<1> HIDE DEF f
<1>2. f[0] = {}
  BY <1>0, <1>1
<1>3. ASSUME NEW n \in 0..LastUnit, n < LastUnit PROVE f[n + 1] = Later(i, f[n])
  <2>1. n + 1 \in 0..LastUnit /\ n + 1 # 0 /\ (n + 1) - 1 = n
    BY <1>0, <1>3
  <2> QED BY <1>1, <2>1
<1>4. \A done : Later(i, done) \in SUBSET (done \cup Candidates(i)) /\ done \in SUBSET Later(i, done)
  BY DEF Later, FirstOf
<1>5. \A n \in 0..LastUnit : f[n] \in SUBSET Candidates(i)
  <2> DEFINE S == {n \in 0..LastUnit : f[n] \in SUBSET Candidates(i)}
  <2>1. 0 \in S
    BY <1>0, <1>2
  <2>2. \A n \in 0..LastUnit : n < LastUnit /\ n \in S => n + 1 \in S
    <3> TAKE n \in 0..LastUnit
    <3> HAVE n < LastUnit /\ n \in S
    <3>1. f[n + 1] = Later(i, f[n]) /\ n + 1 \in 0..LastUnit
      BY <1>0, <1>3
    <3>2. Later(i, f[n]) \in SUBSET (f[n] \cup Candidates(i))
      BY <1>4
    <3> QED BY <3>1, <3>2
  <2> HIDE DEF S
  <2>3. \A n \in 0..LastUnit : n \in S
    BY <1>0, <2>1, <2>2, InductionTo
  <2> QED BY <2>3 DEF S
<1>6. ASSUME NEW m \in 0..LastUnit PROVE \A n \in 0..LastUnit : m <= n => f[m] \in SUBSET f[n]
  <2> DEFINE S == {n \in 0..LastUnit : m <= n => f[m] \in SUBSET f[n]}
  <2>1. 0 \in S
    BY <1>0, <1>2
  <2>2. \A n \in 0..LastUnit : n < LastUnit /\ n \in S => n + 1 \in S
    <3> TAKE n \in 0..LastUnit
    <3> HAVE n < LastUnit /\ n \in S
    <3>1. f[n + 1] = Later(i, f[n]) /\ n + 1 \in 0..LastUnit
      BY <1>0, <1>3
    <3>2. f[n] \in SUBSET Later(i, f[n])
      BY <1>4
    <3>3. CASE m = n + 1
      BY <3>1, <3>3
    <3>4. CASE m # n + 1
      BY <3>1, <3>2, <3>4
    <3> QED BY <3>3, <3>4
  <2> HIDE DEF S
  <2>3. \A n \in 0..LastUnit : n \in S
    BY <1>0, <2>1, <2>2, InductionTo
  <2> QED BY <2>3 DEF S
<1> QED BY <1>2, <1>3, <1>5, <1>6 DEF f

\* Once a wave adds nothing, no later one does.
LEMMA ScheduleSettles ==
  ASSUME NEW i \in PlanInput, NEW n \in 0..LastUnit, n < LastUnit,
         Scheduled(i)[n + 1] = Scheduled(i)[n]
  PROVE  Scheduled(i)[LastUnit] = Scheduled(i)[n]
<1> DEFINE f == Scheduled(i)
<1>0. LastUnit \in Nat
  BY PlanConstants DEF PlanConstants
<1>1. f[n + 1] = f[n] /\ \A k \in 0..LastUnit : k < LastUnit => f[k + 1] = Later(i, f[k])
  BY ScheduleGrows
<1> HIDE DEF f
<1> DEFINE S == {k \in 0..LastUnit : n <= k => f[k] = f[n]}
<1>2. 0 \in S
  BY <1>0
<1>3. \A k \in 0..LastUnit : k < LastUnit /\ k \in S => k + 1 \in S
  <2> TAKE k \in 0..LastUnit
  <2> HAVE k < LastUnit /\ k \in S
  <2>1. f[k + 1] = Later(i, f[k]) /\ f[n + 1] = Later(i, f[n]) /\ k + 1 \in 0..LastUnit
    BY <1>0, <1>1
  <2>2. CASE n <= k
    BY <1>1, <2>1, <2>2
  <2>3. CASE n = k + 1
    BY <2>1, <2>3
  <2>4. CASE ~(n <= k) /\ n # k + 1
    BY <2>1, <2>4
  <2> QED BY <2>2, <2>3, <2>4
<1> HIDE DEF S
<1>4. LastUnit \in S
  BY <1>0, <1>2, <1>3, InductionTo
<1> QED BY <1>0, <1>4 DEF S, f
-----------------------------------------------------------------------------
(* The layers.                                                             *)

\* What the waves of a plan promise, over the number of waves and what is done after each.
Layered(i, d, f, layers) ==
  /\ d \in Nat /\ layers = [n \in 1..d |-> f[n] \ f[n - 1]]
  /\ f[0] = {} /\ f[d] = Selected(i)
  /\ \A n \in 0..d : f[n] \in SUBSET Candidates(i)
  /\ \A m, n \in 0..d : m <= n => f[m] \in SUBSET f[n]
  /\ \A n \in 1..d :
       /\ layers[n] # {} /\ Cardinality(layers[n]) <= Capacity(i)
       /\ \A u \in layers[n] : i.units[u].deps \subseteq i.completed \cup f[n - 1]

\* Layers cuts the schedule where it settles, and so at every wave that adds something.
LEMMA LayersAreLayered ==
  ASSUME NEW i \in PlanInput, i.slots >= 2
  PROVE  \E d \in 0..LastUnit : Layered(i, d, Scheduled(i), Layers(i))
<1> DEFINE f == Scheduled(i)
<1>0. LastUnit \in Nat
  BY PlanConstants DEF PlanConstants
<1>1. /\ f[0] = {}
      /\ \A n \in 0..LastUnit : n < LastUnit => f[n + 1] = Later(i, f[n])
      /\ \A n \in 0..LastUnit : f[n] \in SUBSET Candidates(i)
      /\ \A m, n \in 0..LastUnit : m <= n => f[m] \in SUBSET f[n]
  BY ScheduleGrows
<1>2. \A n \in 0..LastUnit : n < LastUnit /\ f[n + 1] = f[n] => f[LastUnit] = f[n]
  BY ScheduleSettles
<1> DEFINE Settled(n) == f[n] = f[LastUnit] /\ \A m \in 0..n - 1 : f[m] # f[LastUnit]
           depth == CHOOSE n \in 0..LastUnit : Settled(n)
<1>3. Layers(i) = [n \in 1..depth |-> f[n] \ f[n - 1]]
  BY DEF Layers
<1>4. Selected(i) = f[LastUnit]
  BY DEF Selected
<1> HIDE DEF f
<1>5. \E n \in 0..LastUnit : Settled(n)
  <2> DEFINE S == {n \in 0..LastUnit : f[n] = f[LastUnit]}
  <2>1. S \in SUBSET (0..LastUnit) /\ S # {}
    BY <1>0
  <2>2. PICK n \in S : \A k \in S : n <= k
    <3> HIDE DEF S
    <3> QED BY <1>0, <2>1, LeastOf
  <2>3. \A m \in 0..n - 1 : f[m] # f[LastUnit]
    <3> TAKE m \in 0..n - 1
    <3>1. m \in 0..LastUnit /\ ~(n <= m)
      BY <1>0, <2>2
    <3> QED BY <2>2, <3>1
  <2> QED BY <2>2, <2>3
<1>6. depth \in 0..LastUnit /\ Settled(depth)
  BY <1>5
<1> HIDE DEF depth
<1>7. ASSUME NEW n \in 1..depth
      PROVE  /\ f[n] \ f[n - 1] # {}
             /\ Cardinality(f[n] \ f[n - 1]) <= Capacity(i)
             /\ \A u \in f[n] \ f[n - 1] : i.units[u].deps \subseteq i.completed \cup f[n - 1]
  <2>1. n - 1 \in 0..LastUnit /\ n - 1 < LastUnit /\ (n - 1) + 1 = n /\ n - 1 \in 0..depth - 1
    BY <1>0, <1>6
  <2>2. f[n] = Later(i, f[n - 1])
    BY <1>1, <2>1
  <2>3. f[n - 1] # f[LastUnit]
    BY <1>6, <2>1
  <2>4. f[n] # f[n - 1]
    BY <1>2, <2>1, <2>3
  <2> DEFINE due == {u \in Candidates(i) \ f[n - 1] : i.units[u].deps \subseteq i.completed \cup f[n - 1]}
             first == FirstOf(due, Capacity(i))
  <2>5. f[n] = f[n - 1] \cup first
    BY <2>2 DEF Later
  <2>6. due \in SUBSET Unit /\ due \cap f[n - 1] = {}
    BY DEF Candidates
  <2>7. first \in SUBSET due /\ Cardinality(first) <= Capacity(i)
    <3> HIDE DEF due
    <3> QED BY <2>6, FirstOfBound, CapacityBound
  <2>8. f[n] \ f[n - 1] = first
    <3> HIDE DEF due, first
    <3> QED BY <2>5, <2>6, <2>7
  <2>9. f[n] \ f[n - 1] # {}
    <3> HIDE DEF due, first
    <3> QED BY <2>4, <2>5, <2>8
  <2>10. \A u \in first : i.units[u].deps \subseteq i.completed \cup f[n - 1]
    <3> HIDE DEF first
    <3> QED BY <2>7
  <2> HIDE DEF due, first
  <2> QED BY <2>7, <2>8, <2>9, <2>10
<1>8. \A n \in 0..depth : n \in 0..LastUnit
  BY <1>0, <1>6
<1>9. /\ \A n \in 0..depth : f[n] \in SUBSET Candidates(i)
      /\ \A m, n \in 0..depth : m <= n => f[m] \in SUBSET f[n]
  BY <1>1, <1>8
<1>10. depth \in Nat /\ f[depth] = Selected(i)
  BY <1>0, <1>4, <1>6
<1>11. \A n \in 1..depth : Layers(i)[n] = f[n] \ f[n - 1]
  BY <1>3
<1> DEFINE layers == Layers(i)
<1>12. ASSUME NEW n \in 1..depth
       PROVE  /\ layers[n] # {} /\ Cardinality(layers[n]) <= Capacity(i)
              /\ \A u \in layers[n] : i.units[u].deps \subseteq i.completed \cup f[n - 1]
  BY <1>7, <1>11
<1>13. layers = [n \in 1..depth |-> f[n] \ f[n - 1]]
  BY <1>3
<1> HIDE DEF layers, Settled
<1>14. Layered(i, depth, f, layers)
  BY <1>1, <1>9, <1>10, <1>12, <1>13 DEF Layered
<1> QED BY <1>6, <1>14 DEF f, layers

\* The first waves together are what is scheduled after them, and a unit is in one of them.
LEMMA LayersPartition ==
  ASSUME NEW i, NEW d, NEW f, NEW layers, Layered(i, d, f, layers)
  PROVE  /\ \A n \in 0..d : UNION {layers[m] : m \in 1..n} = f[n]
         /\ \A m, n \in 1..d : m # n => layers[m] \cap layers[n] = {}
<1>0. d \in Nat /\ \A n \in 1..d : layers[n] = f[n] \ f[n - 1]
  BY DEF Layered
<1>1. f[0] = {} /\ \A m, n \in 0..d : m <= n => f[m] \in SUBSET f[n]
  BY DEF Layered
<1>2. \A n \in 0..d : UNION {layers[m] : m \in 1..n} = f[n]
  <2> DEFINE S == {n \in 0..d : UNION {layers[m] : m \in 1..n} = f[n]}
  <2>1. 0 \in S
    BY <1>0, <1>1
  <2>2. \A n \in 0..d : n < d /\ n \in S => n + 1 \in S
    <3> TAKE n \in 0..d
    <3> HAVE n < d /\ n \in S
    <3>1. n + 1 \in 1..d /\ n + 1 \in 0..d /\ (n + 1) - 1 = n /\ n <= n + 1
      BY <1>0
    <3>2. layers[n + 1] = f[n + 1] \ f[n] /\ f[n] \in SUBSET f[n + 1]
      BY <1>0, <1>1, <3>1
    <3>3. 1..n + 1 = (1..n) \cup {n + 1}
      BY <1>0
    <3>4. UNION {layers[m] : m \in 1..n + 1} = (UNION {layers[m] : m \in 1..n}) \cup layers[n + 1]
      <4> HIDE DEF S
      <4>1. \A R, k : UNION {layers[m] : m \in R \cup {k}} = (UNION {layers[m] : m \in R}) \cup layers[k]
        OBVIOUS
      <4> QED BY <3>3, <4>1
    <3>5. UNION {layers[m] : m \in 1..n + 1} = f[n + 1]
      BY <3>2, <3>4
    <3> QED BY <3>1, <3>5
  <2> HIDE DEF S
  <2>3. \A n \in 0..d : n \in S
    BY <1>0, <2>1, <2>2, InductionTo
  <2> QED BY <2>3 DEF S
<1>3. ASSUME NEW m \in 1..d, NEW n \in 1..d, m < n PROVE layers[m] \cap layers[n] = {}
  <2>1. m \in 0..d /\ n - 1 \in 0..d /\ m <= n - 1
    BY <1>0, <1>3
  <2>2. f[m] \in SUBSET f[n - 1]
    BY <1>1, <2>1
  <2> QED BY <1>0, <2>2
<1>4. ASSUME NEW m \in 1..d, NEW n \in 1..d, m # n PROVE layers[m] \cap layers[n] = {}
  <2>1. m < n \/ n < m
    BY <1>0, <1>4
  <2>2. CASE m < n
    BY <1>3, <2>2
  <2>3. CASE n < m
    <3>1. layers[n] \cap layers[m] = {}
      BY <1>3, <2>3
    <3> QED BY <3>1
  <2> QED BY <2>1, <2>2, <2>3
<1> QED BY <1>2, <1>4
-----------------------------------------------------------------------------
(* The plan.                                                               *)

\* WavesAreSound, over the input and the plan.
SoundWaves(i, p) ==
  /\ Workers(p) = Candidates(i)
  /\ \A m, n \in DOMAIN p.waves : m # n => p.waves[m] \cap p.waves[n] = {}
  /\ \A n \in DOMAIN p.waves :
       /\ Cardinality(p.waves[n]) \in 1..i.slots - 1
       /\ \A u \in p.waves[n] \ {Verifier} :
            i.units[u].deps \subseteq i.completed \cup UNION {p.waves[m] : m \in 1..n - 1}
       /\ \A u, v \in p.waves[n] \ {Verifier} :
            u # v /\ Writes(i.units[u]) => ~Share(i.units[u].owned, i.units[v].owned)
  /\ (\E u \in Workers(p) : Writes(i.units[u])) =>
       i.authorized /\ p.waves[Len(p.waves)] = {Verifier}

\* The waves of a plan are its layers and, where one is needed, a wave of the verifier.
LEMMA PlannedWaves ==
  ASSUME NEW i, NEW d \in Nat, Layers(i) \in [1..d -> SUBSET Unit], ~Refused(i)
  PROVE  LET w == SelectPlan(i).waves
             e == IF VerifierRequired(i) THEN d + 1 ELSE d IN
         /\ w \in Seq(SUBSET Assignment) /\ Len(w) = e /\ DOMAIN w = 1..e
         /\ \A n \in 1..d : w[n] = Layers(i)[n]
         /\ VerifierRequired(i) => w[d + 1] = {Verifier}
<1> DEFINE layers == Layers(i)
           last == IF VerifierRequired(i) THEN << {Verifier} >> ELSE <<>>
           w == layers \o last
           e == IF VerifierRequired(i) THEN d + 1 ELSE d
<1>1. SelectPlan(i).waves = w
  BY DEF SelectPlan
<1>2. layers \in Seq(SUBSET Assignment) /\ Len(layers) = d
  <2>1. layers \in [1..d -> SUBSET Assignment]
    BY DEF Assignment
  <2> HIDE DEF layers
  <2> QED BY <2>1
<1>3. last \in Seq(SUBSET Assignment) /\ Len(last) = e - d
      /\ (VerifierRequired(i) => last[1] = {Verifier})
  <2>1. CASE VerifierRequired(i)
    <3>1. last = << {Verifier} >> /\ e = d + 1
      BY <2>1
    <3>2. {Verifier} \in SUBSET Assignment
      BY DEF Assignment
    <3> HIDE DEF last, e
    <3> QED BY <3>1, <3>2
  <2>2. CASE ~VerifierRequired(i)
    <3>1. last = <<>> /\ e = d
      BY <2>2
    <3> HIDE DEF last, e
    <3> QED BY <2>2, <3>1
  <2> QED BY <2>1, <2>2
<1> HIDE DEF layers, last
<1>4. /\ w \in Seq(SUBSET Assignment) /\ Len(w) = d + (e - d)
      /\ \A n \in 1..d + (e - d) : w[n] = IF n <= d THEN layers[n] ELSE last[n - d]
  BY <1>2, <1>3, ConcatProperties
<1>5. e \in {d, d + 1} /\ d + (e - d) = e
  OBVIOUS
<1>6. DOMAIN w = 1..e
  BY <1>4, <1>5, LenProperties
<1>7. \A n \in 1..d : w[n] = layers[n]
  <2> TAKE n \in 1..d
  <2>1. n \in 1..d + (e - d) /\ n <= d
    OBVIOUS
  <2> QED BY <1>4, <2>1
<1>8. VerifierRequired(i) => w[d + 1] = {Verifier}
  <2> SUFFICES ASSUME VerifierRequired(i) PROVE w[d + 1] = {Verifier}
    OBVIOUS
  <2>1. d + 1 \in 1..d + (e - d) /\ ~(d + 1 <= d) /\ (d + 1) - d = 1
    OBVIOUS
  <2> QED BY <1>3, <1>4, <2>1
<1> HIDE DEF w
<1>9. Len(w) = e
  BY <1>4, <1>5
<1> QED BY <1>1, <1>4, <1>6, <1>7, <1>8, <1>9 DEF layers

\* A plan that is not refused has sound waves.
LEMMA PlansAreSound ==
  ASSUME NEW i \in PlanInput, SelectPlan(i).mode # "solo"
  PROVE  SoundWaves(i, SelectPlan(i))
<1> DEFINE p == SelectPlan(i)
<1>1. ~Refused(i)
  BY DEF SelectPlan, Solo
<1>2. i.slots >= 2 /\ Selected(i) = Candidates(i) /\ ~WritesRefused(i) /\ i.slots \in Nat
  BY <1>1 DEF Refused, PlanInput
<1>3. PICK d \in 0..LastUnit : Layered(i, d, Scheduled(i), Layers(i))
  BY <1>2, LayersAreLayered
<1> DEFINE f == Scheduled(i)
           layers == Layers(i)
           e == IF VerifierRequired(i) THEN d + 1 ELSE d
<1>4. d \in Nat /\ e \in Nat
  OBVIOUS
<1>5. /\ layers = [n \in 1..d |-> f[n] \ f[n - 1]] /\ f[0] = {} /\ f[d] = Candidates(i)
      /\ \A n \in 0..d : f[n] \in SUBSET Candidates(i)
      /\ \A n \in 1..d :
           /\ layers[n] # {} /\ Cardinality(layers[n]) <= Capacity(i)
           /\ \A u \in layers[n] : i.units[u].deps \subseteq i.completed \cup f[n - 1]
  BY <1>2, <1>3 DEF Layered
<1>6. /\ \A n \in 0..d : UNION {layers[m] : m \in 1..n} = f[n]
      /\ \A m, n \in 1..d : m # n => layers[m] \cap layers[n] = {}
  BY <1>3, LayersPartition
<1>7. Candidates(i) \in SUBSET Unit /\ Verifier \notin Unit
  BY DEF Candidates, Unit, Verifier
<1>8. layers \in [1..d -> SUBSET Unit]
  <2> HIDE DEF f
  <2>1. \A n \in 1..d : f[n] \ f[n - 1] \in SUBSET Unit
    <3> TAKE n \in 1..d
    <3>1. n \in 0..d
      BY <1>4
    <3> QED BY <1>5, <1>7, <3>1
  <2> HIDE DEF layers
  <2> QED BY <1>5, <2>1
<1>9. /\ p.waves \in Seq(SUBSET Assignment) /\ Len(p.waves) = e /\ DOMAIN p.waves = 1..e
      /\ \A n \in 1..d : p.waves[n] = layers[n]
      /\ VerifierRequired(i) => p.waves[d + 1] = {Verifier}
  BY <1>1, <1>4, <1>8, PlannedWaves
<1>10. WritersIn(i) # {} => VerifierRequired(i) /\ i.authorized
                           /\ \A n \in DOMAIN layers : \A u, v \in layers[n] :
                                u # v => ~Share(i.units[u].owned, i.units[v].owned)
  BY <1>2 DEF WritesRefused, VerifierRequired
<1>11. WritersIn(i) = {u \in Candidates(i) : Writes(i.units[u])}
  BY <1>2 DEF WritersIn
<1>12. Capacity(i) \in Nat /\ Capacity(i) <= i.slots - 1
  BY <1>2, CapacityBound
<1>13. e = d \/ (e = d + 1 /\ VerifierRequired(i))
  OBVIOUS
<1>14. VerifierRequired(i) => e = d + 1
  OBVIOUS
<1> HIDE DEF p, f, layers, e
<1> DEFINE w == p.waves
<1>15. Range(w) = {w[n] : n \in 1..e} /\ Planned(p) = UNION {w[n] : n \in 1..e}
  BY <1>9 DEF Planned, Range
<1>16. \A n \in 1..e : n \in 1..d \/ (n = d + 1 /\ w[n] = {Verifier})
  BY <1>4, <1>9, <1>13
<1>17. \A n \in 1..d : w[n] = layers[n] /\ w[n] \in SUBSET Unit /\ n \in 1..e
  BY <1>4, <1>8, <1>9, <1>13
<1> HIDE DEF w
<1>18. Workers(p) = Candidates(i)
  <2>1. UNION {layers[m] : m \in 1..d} = Candidates(i)
    <3>1. d \in 0..d
      BY <1>4
    <3> QED BY <1>5, <1>6, <3>1
  <2>2. ASSUME NEW u PROVE u \in Workers(p) <=> u \in UNION {layers[m] : m \in 1..d}
    BY <1>7, <1>15, <1>16, <1>17 DEF Workers
  <2> QED BY <2>1, <2>2
<1>19. ASSUME NEW m \in 1..e, NEW n \in 1..e, m # n PROVE w[m] \cap w[n] = {}
  <2>1. CASE m \in 1..d /\ n \in 1..d
    BY <1>6, <1>17, <1>19, <2>1
  <2>2. CASE ~(m \in 1..d /\ n \in 1..d)
    BY <1>7, <1>16, <1>17, <1>19, <2>2
  <2> QED BY <2>1, <2>2
<1>20. ASSUME NEW n \in 1..e
       PROVE  /\ Cardinality(w[n]) \in 1..i.slots - 1
              /\ \A u \in w[n] \ {Verifier} :
                   i.units[u].deps \subseteq i.completed \cup UNION {w[m] : m \in 1..n - 1}
              /\ \A u, v \in w[n] \ {Verifier} :
                   u # v /\ Writes(i.units[u]) => ~Share(i.units[u].owned, i.units[v].owned)
  <2>1. CASE n = d + 1 /\ w[n] = {Verifier}
    <3>1. Cardinality(w[n]) = 1
      BY <2>1, FS_Singleton
    <3> QED BY <1>2, <2>1, <3>1
  <2>2. CASE n \in 1..d
    <3>1. w[n] = layers[n] /\ w[n] \in SUBSET Unit /\ w[n] # {}
      BY <1>5, <1>17, <2>2
    <3>2. Cardinality(w[n]) \in Nat /\ Cardinality(w[n]) # 0 /\ Cardinality(w[n]) <= Capacity(i)
      <4>1. IsFiniteSet(w[n]) /\ Cardinality(w[n]) \in Nat
        BY <3>1, UnitsAreFinite
      <4> QED BY <1>5, <2>2, <3>1, <4>1, FS_EmptySet
    <3>3. Cardinality(w[n]) \in 1..i.slots - 1
      BY <1>2, <1>12, <3>2
    <3>4. UNION {w[m] : m \in 1..n - 1} = f[n - 1]
      <4>1. n - 1 \in 0..d /\ \A m \in 1..n - 1 : m \in 1..d
        BY <1>4, <2>2
      <4>2. {w[m] : m \in 1..n - 1} = {layers[m] : m \in 1..n - 1}
        BY <1>17, <4>1
      <4> QED BY <1>6, <4>1, <4>2
    <3>5. \A u \in w[n] : i.units[u].deps \subseteq i.completed \cup f[n - 1]
      BY <1>5, <2>2, <3>1
    <3>6. \A u \in w[n] : u \in Candidates(i)
      <4>1. w[n] = f[n] \ f[n - 1] /\ n \in 0..d
        BY <1>4, <1>5, <2>2, <3>1
      <4> QED BY <1>5, <4>1
    <3>7. \A u, v \in w[n] \ {Verifier} :
            u # v /\ Writes(i.units[u]) => ~Share(i.units[u].owned, i.units[v].owned)
      <4>1. n \in DOMAIN layers
        BY <1>8, <2>2
      <4> QED BY <1>10, <1>11, <3>1, <3>6, <4>1
    <3> QED BY <3>3, <3>4, <3>5, <3>7
  <2> QED BY <1>16, <2>1, <2>2
<1>21. (\E u \in Workers(p) : Writes(i.units[u])) => i.authorized /\ w[Len(w)] = {Verifier}
  <2> SUFFICES ASSUME NEW u \in Candidates(i), Writes(i.units[u])
               PROVE  i.authorized /\ w[Len(w)] = {Verifier}
    BY <1>18
  <2>1. VerifierRequired(i) /\ i.authorized
    BY <1>10, <1>11
  <2>2. Len(w) = d + 1
    BY <1>9, <1>14, <2>1 DEF w
  <2> QED BY <1>9, <2>1, <2>2 DEF w
<1>22. DOMAIN w = 1..e
  BY <1>9 DEF w
<1>23. SoundWaves(i, p)
  BY <1>18, <1>19, <1>20, <1>21, <1>22 DEF SoundWaves, w
<1> QED BY <1>23 DEF p
-----------------------------------------------------------------------------
(* Paths.                                                                  *)

\* A path is a prefix of another when the components agree as far as it goes.
LEMMA PrefixIs ==
  ASSUME NEW s \in Seq(STRING), NEW t \in Seq(STRING)
  PROVE  IsPrefix(s, t) <=> Len(s) <= Len(t) /\ \A k \in 1..Len(s) : s[k] = t[k]
<1>1. Len(s) \in Nat /\ Len(t) \in Nat
  BY LenProperties
<1>2. ASSUME Len(s) <= Len(t)
      PROVE  /\ SubSeq(s, 1, Len(s)) \in Seq(STRING) /\ SubSeq(t, 1, Len(s)) \in Seq(STRING)
             /\ Len(SubSeq(s, 1, Len(s))) = Len(s) /\ Len(SubSeq(t, 1, Len(s))) = Len(s)
             /\ \A k \in 1..Len(s) : SubSeq(s, 1, Len(s))[k] = s[k] /\ SubSeq(t, 1, Len(s))[k] = t[k]
  <2>1. \A k \in 1..Len(s) : s[k] \in STRING /\ t[k] \in STRING
    BY <1>1, <1>2, ElementOfSeq
  <2> QED BY <1>1, <2>1, SubSeqProperties
<1>3. CASE Len(s) <= Len(t)
  <2>1. ASSUME SubSeq(s, 1, Len(s)) = SubSeq(t, 1, Len(s)) PROVE \A k \in 1..Len(s) : s[k] = t[k]
    BY <1>2, <1>3, <2>1
  <2>2. ASSUME \A k \in 1..Len(s) : s[k] = t[k] PROVE SubSeq(s, 1, Len(s)) = SubSeq(t, 1, Len(s))
    <3> DEFINE x == SubSeq(s, 1, Len(s))
               y == SubSeq(t, 1, Len(s))
    <3>1. x \in Seq(STRING) /\ y \in Seq(STRING) /\ Len(x) = Len(y) /\ \A k \in 1..Len(x) : x[k] = y[k]
      BY <1>2, <1>3, <2>2
    <3> HIDE DEF x, y
    <3>2. x = y
      BY <3>1, SeqEqual
    <3> QED BY <3>2 DEF x, y
  <2> QED BY <1>3, <2>1, <2>2 DEF IsPrefix
<1>4. CASE ~(Len(s) <= Len(t))
  BY <1>4 DEF IsPrefix
<1> QED BY <1>3, <1>4

\* Files overlap only where the paths that own them do.
LEMMA OwnersOverlap ==
  ASSUME NEW r \in Seq(STRING), NEW s \in Seq(STRING), NEW p \in Seq(STRING), NEW q \in Seq(STRING),
         IsPrefix(r, p), IsPrefix(s, q), Overlap(p, q)
  PROVE  Overlap(r, s)
<1>1. Len(r) \in Nat /\ Len(s) \in Nat /\ Len(p) \in Nat /\ Len(q) \in Nat
  BY LenProperties
<1>2. /\ Len(r) <= Len(p) /\ \A k \in 1..Len(r) : r[k] = p[k]
      /\ Len(s) <= Len(q) /\ \A k \in 1..Len(s) : s[k] = q[k]
  BY PrefixIs
<1>3. \/ Len(p) <= Len(q) /\ \A k \in 1..Len(p) : p[k] = q[k]
      \/ Len(q) <= Len(p) /\ \A k \in 1..Len(q) : q[k] = p[k]
  BY PrefixIs DEF Overlap
<1>4. \A k \in Nat : k \in 1..Len(r) /\ k \in 1..Len(s) => r[k] = s[k]
  BY <1>1, <1>2, <1>3
<1>5. CASE Len(r) <= Len(s)
  <2>1. \A k \in 1..Len(r) : r[k] = s[k]
    BY <1>1, <1>4, <1>5
  <2> QED BY <1>5, <2>1, PrefixIs DEF Overlap
<1>6. CASE Len(s) <= Len(r)
  <2>1. \A k \in 1..Len(s) : s[k] = r[k]
    BY <1>1, <1>4, <1>6
  <2> QED BY <1>6, <2>1, PrefixIs DEF Overlap
<1> QED BY <1>1, <1>5, <1>6
-----------------------------------------------------------------------------
(* The execution of a plan.                                                *)

\* The results that count as a completed delegation.
Delegated ==
  /\ plan # None /\ Spawned = Planned(plan) /\ Reported = Spawned
  /\ \A a, b \in Spawned : a # b => actors[a] # actors[b]

\* The results a confirmed claim rests on.
Confirmed ==
  /\ plan # None /\ results[Verifier] # None
  /\ \A w \in Workers(plan) :
       /\ results[w] # None /\ results[w].clean
       /\ results[w].actor # results[Verifier].actor
       /\ results[w].actor = actors[w]

\* A result is of an agent that was started, and what its validation lets through.
Kept(a) ==
  results[a] # None =>
    /\ actors[a] # None
    /\ StatusFits(a, results[a].status, results[a].clean)
    /\ ChangeFits(a, results[a].status, results[a].changed)

\* The plan is the planner's answer to the input, only what it plans is started, only
\* what was started is reported, and the outcome and the claim rest on that.
IPlan ==
  /\ input \in Input
  /\ actors \in [Assignment -> Actor \cup {None}]
  /\ results \in [Assignment -> Result \cup {None}]
  /\ plan # None => plan = SelectPlan(input)
  /\ \A a \in Assignment : actors[a] # None => plan # None /\ a \in Planned(plan)
  /\ \A a \in Assignment : Kept(a)
  /\ outcome # None => plan # None
  /\ outcome = "completed" => Delegated
  /\ claim = "confirmed" => Confirmed

\* The absent outcome and the absent claim are not the good ones.
LEMMA NoneIsNoOutcome == None # "completed" /\ None # "confirmed"
BY PlanConstants DEF PlanConstants, Status

\* Initially nothing is planned, started or claimed.
LEMMA PlanStarts == PlanInit => IPlan
BY NoneIsNoOutcome DEF PlanInit, IPlan, Kept

\* Workers are assignments of the plan.
LEMMA WorkersAreAssigned ==
  ASSUME IPlan, plan # None
  PROVE  Planned(plan) \in SUBSET Assignment /\ Workers(plan) \in SUBSET Unit
<1>1. input \in PlanInput /\ plan = SelectPlan(input)
  BY PlanConstants DEF IPlan, PlanConstants
<1>2. CASE plan.mode # "solo"
  <2>1. SoundWaves(input, plan)
    BY <1>1, <1>2, PlansAreSound
  <2>2. Workers(plan) \in SUBSET Unit
    BY <2>1 DEF SoundWaves, Candidates
  <2> QED BY <2>2 DEF Workers, Assignment
<1>3. CASE plan.mode = "solo"
  <2>1. plan = Solo
    BY <1>1, <1>3 DEF SelectPlan
  <2>2. Planned(plan) = {}
    BY <2>1 DEF Planned, Solo, Range
  <2> QED BY <2>2 DEF Workers
<1> QED BY <1>2, <1>3

\* Deciding: the plan is what the planner answers, and nothing was started before.
LEMMA PlanDecides == IPlan /\ Decide => IPlan'
<1> SUFFICES ASSUME IPlan, Decide PROVE IPlan'
  OBVIOUS
<1>1. /\ plan = None /\ plan' = SelectPlan(input)
      /\ UNCHANGED <<input, actors, results, claim, outcome>>
  BY DEF Decide
<1>2. outcome = None /\ claim # "confirmed" /\ \A a \in Assignment : actors[a] = None /\ results[a] = None
  BY <1>1 DEF IPlan, Kept, Confirmed
<1> QED BY <1>1, <1>2, NoneIsNoOutcome DEF IPlan, Kept

\* Starting an agent: it is planned, and nothing was reported for its assignment.
LEMMA PlanSpawns ==
  ASSUME IPlan, NEW a \in Assignment, NEW x \in Actor, Spawn(a, x)
  PROVE  IPlan'
<1>1. /\ plan # None /\ outcome = None /\ a \in Planned(plan) /\ actors[a] = None
      /\ actors' = [actors EXCEPT ![a] = x]
      /\ UNCHANGED <<input, plan, results, claim, outcome>>
  BY DEF Spawn, Running
<1>2. /\ actors' \in [Assignment -> Actor \cup {None}]
      /\ \A b \in Assignment : b # a => actors'[b] = actors[b]
  BY <1>1 DEF IPlan
<1>3. \A b \in Assignment : results[b] # None => b # a
  BY <1>1 DEF IPlan, Kept
<1>4. \A b \in Assignment : actors'[b] # None => plan' # None /\ b \in Planned(plan)'
  BY <1>1, <1>2 DEF IPlan, Planned
<1>5. \A b \in Assignment : Kept(b)'
  <2> SUFFICES ASSUME NEW b \in Assignment, results[b] # None PROVE Kept(b)'
    BY <1>1 DEF Kept
  <2>1. Kept(b) /\ actors'[b] = actors[b]
    BY <1>2, <1>3 DEF IPlan
  <2> QED BY <1>1, <2>1 DEF Kept, ChangeFits
<1>6. outcome' # "completed"
  BY <1>1, NoneIsNoOutcome
<1>7. claim' = "confirmed" => Confirmed'
  <2> SUFFICES ASSUME claim = "confirmed" PROVE Confirmed'
    BY <1>1
  <2>1. Confirmed /\ Workers(plan) \in SUBSET Unit
    BY <1>1, WorkersAreAssigned DEF IPlan
  <2>2. \A w \in Workers(plan) : actors'[w] = actors[w]
    BY <1>2, <1>3, <2>1 DEF Confirmed, Assignment
  <2>3. Workers(plan)' = Workers(plan)
    BY <1>1 DEF Workers, Planned
  <2> QED BY <1>1, <2>1, <2>2, <2>3 DEF Confirmed
<1> QED BY <1>1, <1>2, <1>4, <1>5, <1>6, <1>7 DEF IPlan

\* A result is kept once, so that what a claim rests on is not replaced.
LEMMA PlanReports ==
  ASSUME IPlan, NEW a \in Assignment, Report(a)
  PROVE  IPlan'
<1>1. PICK status \in Status, changed \in SUBSET Path, clean \in BOOLEAN, x \in Actor :
        /\ StatusFits(a, status, clean) /\ ChangeFits(a, status, changed)
        /\ results' = [results EXCEPT ![a] = [status |-> status, actor |-> x,
                                              changed |-> changed, clean |-> clean]]
  BY DEF Report
<1>2. /\ plan # None /\ outcome = None /\ actors[a] # None /\ results[a] = None
      /\ UNCHANGED <<input, plan, actors, claim, outcome>>
  BY DEF Report, Running
<1> DEFINE new == [status |-> status, actor |-> x, changed |-> changed, clean |-> clean]
<1>3. new \in Result /\ new.status = status /\ new.clean = clean /\ new.changed = changed
  BY DEF Result
<1> HIDE DEF new
<1>4. /\ results' \in [Assignment -> Result \cup {None}] /\ results'[a] = new
      /\ \A b \in Assignment : b # a => results'[b] = results[b]
  BY <1>1, <1>3 DEF IPlan, new
<1>5. \A b \in Assignment : Kept(b)'
  <2> TAKE b \in Assignment
  <2>1. CASE b = a
    BY <1>1, <1>2, <1>3, <1>4, <2>1 DEF Kept, ChangeFits
  <2>2. CASE b # a
    <3>1. Kept(b)
      BY DEF IPlan
    <3> QED BY <1>2, <1>4, <2>2, <3>1 DEF Kept, ChangeFits
  <2> QED BY <2>1, <2>2
<1>6. outcome' # "completed"
  BY <1>2, NoneIsNoOutcome
<1>7. claim' = "confirmed" => Confirmed'
  <2> SUFFICES ASSUME claim = "confirmed" PROVE Confirmed'
    BY <1>2
  <2>1. Confirmed /\ Workers(plan) \in SUBSET Unit
    BY <1>2, WorkersAreAssigned DEF IPlan
  <2>2. \A w \in Workers(plan) \cup {Verifier} : results'[w] = results[w]
    BY <1>2, <1>4, <2>1 DEF Confirmed, Assignment
  <2>3. Workers(plan)' = Workers(plan)
    BY <1>2 DEF Workers, Planned
  <2> QED BY <1>2, <2>1, <2>2, <2>3 DEF Confirmed
<1>8. \A b \in Assignment : actors'[b] # None => plan' # None /\ b \in Planned(plan)'
  BY <1>2 DEF IPlan, Planned
<1> QED BY <1>2, <1>4, <1>5, <1>6, <1>7, <1>8 DEF IPlan

\* A claim is made when the context binds every worker to another actor than the verifier.
LEMMA PlanClaims == IPlan /\ Claim => IPlan'
<1> SUFFICES ASSUME IPlan, Claim PROVE IPlan'
  OBVIOUS
<1>1. /\ plan # None /\ outcome = None /\ results[Verifier] # None /\ Durable
      /\ claim' = results[Verifier].status
      /\ UNCHANGED <<input, plan, actors, results, outcome>>
  BY DEF Claim, Running
<1>2. claim' = "confirmed" => Confirmed'
  <2> SUFFICES ASSUME results[Verifier].status = "confirmed" PROVE Confirmed
    BY <1>1 DEF Confirmed, Workers, Planned
  <2> SUFFICES ASSUME NEW w \in Workers(plan)
               PROVE  /\ results[w] # None /\ results[w].clean
                      /\ results[w].actor # results[Verifier].actor
                      /\ results[w].actor = actors[w]
    BY <1>1 DEF Confirmed
  <2>1. /\ actors[Verifier] = results[Verifier].actor
        /\ actors[w] # actors[Verifier] /\ results[w] # None /\ results[w].actor = actors[w]
        /\ results[w].status \in {"completed", "no-op"}
    BY <1>1 DEF Durable
  <2>2. w \in Assignment
    BY <1>1, WorkersAreAssigned DEF Assignment
  <2>3. results[w].clean
    BY <2>1, <2>2 DEF IPlan, Kept, StatusFits
  <2> QED BY <2>1, <2>3
<1>3. Planned(plan)' = Planned(plan)
  BY <1>1 DEF Planned
<1>4. \A a \in Assignment : Kept(a)'
  BY <1>1 DEF IPlan, Kept, ChangeFits
<1>5. outcome' # "completed"
  BY <1>1, NoneIsNoOutcome
<1> QED BY <1>1, <1>2, <1>3, <1>4, <1>5 DEF IPlan

\* The outcome is read off the plan, the actors and the results.
LEMMA PlanClassifies == IPlan /\ Classify => IPlan'
<1> SUFFICES ASSUME IPlan, Classify PROVE IPlan'
  OBVIOUS
<1>1. /\ plan # None /\ outcome' = OutcomeNow
      /\ UNCHANGED <<input, plan, actors, results, claim>>
  BY DEF Classify, Running
<1>2. outcome' = "completed" => Delegated
  BY <1>1 DEF OutcomeNow, Complete, Delegated
<1>3. Delegated' = Delegated /\ Confirmed' = Confirmed /\ Planned(plan)' = Planned(plan)
  BY <1>1 DEF Delegated, Confirmed, Spawned, Reported, Planned, Workers
<1>4. \A a \in Assignment : Kept(a)'
  BY <1>1 DEF IPlan, Kept, ChangeFits
<1> QED BY <1>1, <1>2, <1>3, <1>4 DEF IPlan

\* Stuttering.
LEMMA PlanStutters == IPlan /\ UNCHANGED planVars => IPlan'
<1> SUFFICES ASSUME IPlan, UNCHANGED planVars PROVE IPlan'
  OBVIOUS
<1>1. Delegated' = Delegated /\ Confirmed' = Confirmed /\ Planned(plan)' = Planned(plan)
  BY DEF planVars, Delegated, Confirmed, Spawned, Reported, Planned, Workers
<1>2. \A a \in Assignment : Kept(a)'
  BY DEF planVars, IPlan, Kept, ChangeFits
<1> QED BY <1>1, <1>2 DEF planVars, IPlan

\* What the invariant says of the plan and of what is made of it.
LEMMA IPlanIsSound == IPlan => PlanIsSound
<1> SUFFICES ASSUME IPlan PROVE WavesAreSound /\ ChangesAreDisjoint /\ DelegationIsReal
  BY DEF PlanIsSound
<1>1. input \in PlanInput
  BY PlanConstants DEF IPlan, PlanConstants
<1>2. plan # None /\ plan.mode # "solo" => SoundWaves(input, plan)
  BY <1>1, PlansAreSound DEF IPlan
<1>3. WavesAreSound
  BY <1>2 DEF WavesAreSound, SoundWaves
<1>4. ASSUME NEW a \in Unit, NEW b \in Unit, a # b, results[a] # None, results[b] # None,
             WaveOf(plan, a) = WaveOf(plan, b),
             NEW p \in results[a].changed, NEW q \in results[b].changed, Overlap(p, q)
      PROVE  FALSE
  <2>1. a \in Assignment /\ b \in Assignment /\ a # Verifier /\ b # Verifier
    BY DEF Unit, Assignment, Verifier
  <2>2. /\ plan # None /\ a \in Planned(plan) /\ b \in Planned(plan)
        /\ results[a] \in Result /\ results[b] \in Result
        /\ ChangeFits(a, results[a].status, results[a].changed)
        /\ ChangeFits(b, results[b].status, results[b].changed)
    BY <1>4, <2>1 DEF IPlan, Kept
  <2>3. PICK r \in input.units[a].owned : IsPrefix(r, p)
    BY <2>1, <2>2 DEF ChangeFits
  <2>4. PICK s \in input.units[b].owned : IsPrefix(s, q)
    BY <2>1, <2>2 DEF ChangeFits
  <2>5. p \in Path /\ q \in Path /\ r \in Path /\ s \in Path
    <3>1. input.units[a] \in UnitSpec /\ input.units[b] \in UnitSpec
      BY <1>1 DEF PlanInput
    <3> QED BY <2>2, <3>1 DEF Result, UnitSpec
  <2>6. Overlap(r, s)
    <3>1. p \in Seq(STRING) /\ q \in Seq(STRING) /\ r \in Seq(STRING) /\ s \in Seq(STRING)
      BY <2>5, PlanConstants DEF PlanConstants
    <3> QED BY <1>4, <2>3, <2>4, <3>1, OwnersOverlap
  <2>7. plan.mode # "solo"
    <3> SUFFICES ASSUME plan.mode = "solo" PROVE FALSE
      OBVIOUS
    <3>1. plan = Solo
      BY <2>2 DEF IPlan, SelectPlan
    <3> QED BY <2>2, <3>1 DEF Planned, Solo, Range
  <2> DEFINE n == WaveOf(plan, a)
  <2>8. n \in DOMAIN plan.waves /\ a \in plan.waves[n]
    <3>1. \E m \in DOMAIN plan.waves : a \in plan.waves[m]
      BY <2>2 DEF Planned, Range
    <3> QED BY <3>1 DEF WaveOf
  <2>9. b \in plan.waves[n]
    <3>1. \E m \in DOMAIN plan.waves : b \in plan.waves[m]
      BY <2>2 DEF Planned, Range
    <3>2. b \in plan.waves[WaveOf(plan, b)]
      BY <3>1 DEF WaveOf
    <3> QED BY <1>4, <3>2
  <2>10. Writes(input.units[a])
    BY <2>2 DEF ChangeFits
  <2>11. ~Share(input.units[a].owned, input.units[b].owned)
    <3> HIDE DEF n
    <3> QED BY <1>2, <1>4, <2>1, <2>2, <2>7, <2>8, <2>9, <2>10 DEF SoundWaves
  <2> QED BY <2>6, <2>11 DEF Share
<1>5. ChangesAreDisjoint
  BY <1>4 DEF ChangesAreDisjoint, Share
<1>6. outcome = "completed" =>
        \A a \in Planned(plan) :
          /\ results[a] # None
          /\ \A b \in Planned(plan) : a # b => actors[a] # actors[b]
  BY DEF IPlan, Delegated, Spawned, Reported
<1>7. DelegationIsReal
  BY <1>6 DEF DelegationIsReal, IPlan, Confirmed
<1> QED BY <1>3, <1>5, <1>7

\* A plan and what is made of it are sound, for any input, number of units and agents:
\* _topological_selection layers the dependencies within the capacity, what is refused
\* leaves no overlap beside a writer, and completed or confirmed delegation was done by
\* agents that differ.
THEOREM PlanAlwaysSound == PlanSpec => []PlanIsSound
<1>1. IPlan /\ [PlanNext]_planVars => IPlan'
  BY PlanDecides, PlanSpawns, PlanReports, PlanClaims, PlanClassifies, PlanStutters DEF PlanNext
<1> QED BY <1>1, PlanStarts, IPlanIsSound, PTL DEF PlanSpec
-----------------------------------------------------------------------------
(* Theorems about Rollouts, for a log of any length, tasks and children.       *)

(* The credit of waits.                                                    *)

LogRow == [kind : {"spawn", "wait", "final"}, task : Task \cup {None}, actor : Child \cup {None}]

\* The rows are finitely many numbers.
LEMMA RowsAreFinite ==
  ASSUME log \in Seq(LogRow)
  PROVE  /\ Len(log) \in Nat /\ DOMAIN log = 1..Len(log)
         /\ \A S \in SUBSET (0..Len(log)) : IsFiniteSet(S)
         /\ Spawns \in SUBSET (1..Len(log)) /\ Waits \in SUBSET (1..Len(log))
         /\ Finals \in SUBSET (1..Len(log))
<1>1. Len(log) \in Nat /\ DOMAIN log = 1..Len(log)
  BY LenProperties
<1>2. \A S \in SUBSET (0..Len(log)) : IsFiniteSet(S)
  <2>1. IsFiniteSet(0..Len(log))
    BY <1>1, FS_Interval
  <2> QED BY <2>1, FS_Subset
<1> QED BY <1>1, <1>2 DEF Spawns, Waits, Finals, Rows

\* The credits up to a row, from those before it.
CreditStep(n, c) ==
  IF log[n].kind # "final" THEN Append(c, None)
  ELSE LET used == {c[j] : j \in 1..(n - 1)} IN
       Append(c, IF Free(n, used) = {} THEN None ELSE Max(Free(n, used)))

\* A wait that is free is one of the waits.
LEMMA FreeIsWait ==
  ASSUME log \in Seq(LogRow), NEW n, NEW used, Free(n, used) # {}
  PROVE  Max(Free(n, used)) \in Free(n, used)
<1>1. Free(n, used) \in SUBSET (0..Len(log)) /\ Len(log) \in Nat
  BY RowsAreFinite DEF Free
<1>2. PICK w \in Free(n, used) : \A v \in Free(n, used) : v <= w
  BY <1>1, GreatestOf
<1>3. \E x \in Free(n, used) : \A y \in Free(n, used) : x >= y
  BY <1>1, <1>2
<1> QED BY <1>3 DEF Max

\* Credit is computed row by row.
LEMMA CreditIsStepwise ==
  ASSUME log \in Seq(LogRow)
  PROVE  \E f : /\ f[0] = <<>> /\ Credit = f[Len(log)]
                /\ \A n \in 0..Len(log) : f[n] \in Seq(Waits \cup {None})
                /\ \A n \in 1..Len(log) : f[n] = CreditStep(n, f[n - 1])
<1> DEFINE L == Len(log)
           T == Seq(Waits \cup {None})
           step == [n \in Nat |-> [c \in T |-> CreditStep(n, c)]]
           Credits(f) == f = [i \in 0..L |->
             IF i = 0 THEN <<>>
             ELSE IF log[i].kind # "final" THEN Append(f[i - 1], None)
             ELSE LET used == {f[i - 1][j] : j \in 1..(i - 1)} IN
                  Append(f[i - 1], IF Free(i, used) = {} THEN None ELSE Max(Free(i, used)))]
<1>1. L \in Nat /\ <<>> \in T
  BY RowsAreFinite
<1>2. \A n, c : c \in T => CreditStep(n, c) \in T
  <2> SUFFICES ASSUME NEW n, NEW c \in T PROVE CreditStep(n, c) \in T
    OBVIOUS
  <2> DEFINE used == {c[j] : j \in 1..(n - 1)}
  <2>1. Free(n, used) # {} => Max(Free(n, used)) \in Waits
    <3> HIDE DEF used
    <3>1. Free(n, used) # {} => Max(Free(n, used)) \in Free(n, used)
      BY FreeIsWait
    <3>2. Free(n, used) \in SUBSET Waits
      BY DEF Free
    <3> QED BY <3>1, <3>2
  <2>2. \A x \in Waits \cup {None} : Append(c, x) \in T
    BY AppendProperties
  <2> QED BY <2>1, <2>2 DEF CreditStep
<1>3. step \in [Nat -> [T -> T]]
  BY <1>2
<1> HIDE DEF T, L
<1>4. PICK f \in [0..L -> T] : f[0] = <<>> /\ \A n \in 1..L : f[n] = step[n][f[n - 1]]
  <2> DEFINE base == <<>>
  <2>1. base \in T
    BY <1>1
  <2> HIDE DEF step, Credits, base
  <2>2. \E f : Stepwise(f, L, T, base, step)
    BY <1>1, <1>3, <2>1, RecursionTo
  <2> QED BY <2>2 DEF base, Stepwise
<1>5. ASSUME NEW n \in 1..L PROVE f[n] = CreditStep(n, f[n - 1])
  <2>1. n - 1 \in 0..L /\ n \in Nat
    BY <1>1
  <2>2. f[n - 1] \in T
    BY <2>1
  <2> QED BY <1>4, <2>1, <2>2
<1>6. Credits(f)
  <2>1. f = [i \in 0..L |-> f[i]]
    OBVIOUS
  <2>2. ASSUME NEW i \in 0..L
        PROVE  f[i] = IF i = 0 THEN <<>>
                      ELSE IF log[i].kind # "final" THEN Append(f[i - 1], None)
                      ELSE LET used == {f[i - 1][j] : j \in 1..(i - 1)} IN
                           Append(f[i - 1], IF Free(i, used) = {} THEN None ELSE Max(Free(i, used)))
    <3>1. CASE i = 0
      BY <1>4, <3>1
    <3>2. CASE i # 0
      <4>1. i \in 1..L
        BY <1>1, <3>2
      <4> QED BY <1>5, <3>2, <4>1 DEF CreditStep
    <3> QED BY <3>1, <3>2
  <2> QED BY <2>1, <2>2
<1> DEFINE credit == CHOOSE h : Credits(h)
<1>7. Credit = credit[L]
  BY DEF Credit, L
<1>8. Credits(credit)
  <2> HIDE DEF Credits
  <2> QED BY <1>6
<1> HIDE DEF credit
<1>9. credit = f
  <2> DEFINE S == {n \in 0..L : credit[n] = f[n]}
  <2>1. 0 \in S
    BY <1>1, <1>4, <1>8
  <2>2. \A n \in 0..L : n < L /\ n \in S => n + 1 \in S
    <3> TAKE n \in 0..L
    <3> HAVE n < L /\ n \in S
    <3>1. n + 1 \in 0..L /\ n + 1 # 0 /\ (n + 1) - 1 = n
      BY <1>1
    <3>2. ASSUME NEW h, Credits(h) PROVE h[n + 1] = CreditStep(n + 1, h[n])
      <4>1. h[n + 1] = CreditStep(n + 1, h[(n + 1) - 1])
        BY <3>1, <3>2 DEF CreditStep
      <4> QED BY <3>1, <4>1
    <3>3. credit[n + 1] = CreditStep(n + 1, credit[n]) /\ f[n + 1] = CreditStep(n + 1, f[n])
      <4> HIDE DEF Credits
      <4> QED BY <1>6, <1>8, <3>2
    <3> QED BY <3>1, <3>3
  <2> HIDE DEF S
  <2>3. \A n \in 0..L : n \in S
    BY <1>1, <2>1, <2>2, InductionTo
  <2>4. credit = [n \in 0..L |-> credit[n]] /\ f = [n \in 0..L |-> f[n]]
    BY <1>8
  <2> QED BY <2>3, <2>4 DEF S
<1> QED BY <1>4, <1>5, <1>7, <1>9 DEF L, T

\* What the credits of the first rows say of the waits before them.
Credited(n, c) ==
  /\ Len(c) = n
  /\ \A j \in 1..n :
       /\ c[j] # None => /\ j \in Finals /\ c[j] \in Waits /\ c[j] < j
                         /\ \A k \in 1..n : c[k] = c[j] => k = j
       /\ c[j] = None /\ j \in Finals => \A w \in Waits : w < j => \E k \in 1..j - 1 : c[k] = w

\* Crediting one more row keeps it.
LEMMA CreditStepKeeps ==
  ASSUME log \in Seq(LogRow), NEW n \in 1..Len(log), NEW c \in Seq(Waits \cup {None}),
         Credited(n - 1, c)
  PROVE  Credited(n, CreditStep(n, c))
<1> DEFINE used == {c[j] : j \in 1..(n - 1)}
           x == IF log[n].kind # "final" THEN None
                ELSE IF Free(n, used) = {} THEN None ELSE Max(Free(n, used))
           d == Append(c, x)
<1>1. Len(log) \in Nat /\ DOMAIN log = 1..Len(log) /\ Waits \in SUBSET (1..Len(log))
  BY RowsAreFinite
<1>2. CreditStep(n, c) = d
  BY DEF CreditStep
<1>3. n \in Finals <=> log[n].kind = "final"
  BY <1>1 DEF Finals, Rows
<1>4. None \notin Waits
  <2>1. \A w \in 1..Len(log) : w \in Nat
    OBVIOUS
  <2> QED BY <1>1, <2>1, NoneIsNoValue
<1> HIDE DEF used
<1>5. x # None => n \in Finals /\ x \in Waits /\ x < n /\ x \notin used
  <2> SUFFICES ASSUME x # None PROVE n \in Finals /\ x \in Free(n, used)
    BY DEF Free
  <2> QED BY <1>3, FreeIsWait
<1>6. x = None /\ n \in Finals => \A w \in Waits : w < n => w \in used
  <2> SUFFICES ASSUME x = None, n \in Finals PROVE Free(n, used) = {}
    BY DEF Free
  <2>1. CASE Free(n, used) # {}
    <3>1. Max(Free(n, used)) \in Waits
      <4>1. Max(Free(n, used)) \in Free(n, used)
        BY <2>1, FreeIsWait
      <4>2. Free(n, used) \in SUBSET Waits
        BY DEF Free
      <4> QED BY <4>1, <4>2
    <3> QED BY <1>3, <1>4, <2>1, <3>1
  <2> QED BY <2>1
<1> HIDE DEF x
<1>7. x \in Waits \cup {None}
  BY <1>5
<1>8. /\ Len(d) = n /\ d[n] = x /\ \A j \in 1..n - 1 : d[j] = c[j]
  <2>1. Len(c) = n - 1
    BY DEF Credited
  <2> QED BY <1>7, <2>1, AppendProperties
<1> HIDE DEF d
<1>9. \A w : w \in used <=> \E k \in 1..n - 1 : d[k] = w
  BY <1>8 DEF used
<1>10. n \in Nat /\ \A j \in 1..n : j \in 1..n - 1 \/ j = n
  OBVIOUS
<1>11. ASSUME NEW j \in 1..n, d[j] # None
       PROVE  /\ j \in Finals /\ d[j] \in Waits /\ d[j] < j
              /\ \A k \in 1..n : d[k] = d[j] => k = j
  <2>1. CASE j = n
    BY <1>5, <1>8, <1>9, <1>10, <1>11, <2>1
  <2>2. CASE j \in 1..n - 1
    <3>1. d[j] \in used
      BY <1>9, <2>2
    <3>2. d[n] # d[j]
      BY <1>5, <1>8, <1>11, <3>1
    <3> QED BY <1>8, <1>10, <1>11, <2>2, <3>2 DEF Credited
  <2> QED BY <1>10, <2>1, <2>2
<1>12. ASSUME NEW j \in 1..n, d[j] = None, j \in Finals, NEW w \in Waits, w < j
       PROVE  \E k \in 1..j - 1 : d[k] = w
  <2>1. CASE j = n
    BY <1>6, <1>8, <1>9, <1>12, <2>1
  <2>2. CASE j \in 1..n - 1
    <3>1. PICK k \in 1..j - 1 : c[k] = w
      BY <1>8, <1>12, <2>2 DEF Credited
    <3>2. k \in 1..n - 1
      BY <1>10, <2>2
    <3> QED BY <1>8, <3>1, <3>2
  <2> QED BY <1>10, <2>1, <2>2
<1> QED BY <1>2, <1>8, <1>11, <1>12 DEF Credited

\* The credits of all rows.
LEMMA CreditIsCredited ==
  ASSUME log \in Seq(LogRow)
  PROVE  Credited(Len(log), Credit)
<1> DEFINE L == Len(log)
<1>1. L \in Nat
  BY RowsAreFinite
<1>2. PICK f : /\ f[0] = <<>> /\ Credit = f[L]
               /\ \A n \in 0..L : f[n] \in Seq(Waits \cup {None})
               /\ \A n \in 1..L : f[n] = CreditStep(n, f[n - 1])
  BY CreditIsStepwise
<1> DEFINE S == {n \in 0..L : Credited(n, f[n])}
<1>3. 0 \in S
  BY <1>1, <1>2 DEF Credited
<1>4. \A n \in 0..L : n < L /\ n \in S => n + 1 \in S
  <2> TAKE n \in 0..L
  <2> HAVE n < L /\ n \in S
  <2>1. n + 1 \in 1..L /\ n + 1 \in 0..L /\ (n + 1) - 1 = n
    BY <1>1
  <2>2. f[n + 1] = CreditStep(n + 1, f[n]) /\ f[n] \in Seq(Waits \cup {None})
    BY <1>2, <2>1
  <2>3. Credited(n + 1, CreditStep(n + 1, f[n]))
    BY <2>1, <2>2, CreditStepKeeps
  <2> QED BY <2>1, <2>2, <2>3
<1> HIDE DEF S
<1>5. \A n \in 0..L : n \in S
  BY <1>1, <1>3, <1>4, InductionTo
<1>6. L \in S
  BY <1>1, <1>5
<1> QED BY <1>2, <1>6 DEF S

\* No way to credit the waits explains more joins than Credit: after the last final
\* answer that got none every other got one, and before it no wait was left.
LEMMA CreditIsBest ==
  ASSUME log \in Seq(LogRow), NEW m \in Matchings
  PROVE  LET C == {i \in Finals : Credit[i] # None} IN
         IsFiniteSet(C) /\ Cardinality(DOMAIN m) <= Cardinality(C)
<1> DEFINE C == {i \in Finals : Credit[i] # None}
           D == DOMAIN m
           U == Finals \ C
           L == Len(log)
<1>1. L \in Nat /\ Finals \in SUBSET (1..L) /\ Waits \in SUBSET (1..L) /\ IsFiniteSet(C)
  BY RowsAreFinite
<1>2. /\ D \in SUBSET Finals
      /\ \A i \in D : m[i] \in Waits /\ m[i] < i /\ \A j \in D : m[i] = m[j] => i = j
  BY DEF Matchings
<1>3. \A j \in 1..L :
        /\ Credit[j] # None => j \in Finals /\ \A k \in 1..L : Credit[k] = Credit[j] => k = j
        /\ Credit[j] = None /\ j \in Finals =>
             \A w \in Waits : w < j => \E k \in 1..j - 1 : Credit[k] = w
  BY CreditIsCredited DEF Credited
<1>4. CASE U = {}
  <2>1. D \in SUBSET C
    BY <1>2, <1>4
  <2> QED BY <1>1, <2>1, FS_Subset
<1>5. CASE U # {}
  <2>1. U \in SUBSET (0..L)
    <3>1. 1..L \in SUBSET (0..L)
      BY <1>1
    <3> QED BY <1>1, <3>1
  <2>2. PICK last \in U : \A i \in U : i <= last
    <3> HIDE DEF U
    <3> QED BY <1>1, <1>5, <2>1, GreatestOf
  <2>3. \A w \in Waits : w < last => \E k \in C : k < last /\ Credit[k] = w
    <3> TAKE w \in Waits
    <3> HAVE w < last
    <3>1. last \in 1..L /\ last \in Finals /\ Credit[last] = None
      BY <1>1
    <3>2. PICK k \in 1..last - 1 : Credit[k] = w
      BY <1>3, <3>1
    <3>3. k \in 1..L /\ k < last /\ w # None
      BY <1>1, <3>1, NoneIsNoValue
    <3> QED BY <1>3, <3>2, <3>3
  <2> DEFINE g == [i \in D |-> IF i > last THEN i ELSE CHOOSE k \in C : k < last /\ Credit[k] = m[i]]
  <2>4. ASSUME NEW i \in D
        PROVE  /\ g[i] \in C
               /\ i > last => g[i] = i
               /\ ~(i > last) => g[i] < last /\ Credit[g[i]] = m[i]
    <3>1. CASE i > last
      <4>1. i \in Finals /\ i \notin U
        BY <1>1, <1>2, <2>1, <2>2, <3>1
      <4> QED BY <3>1, <4>1
    <3>2. CASE ~(i > last)
      <4>1. m[i] \in Waits /\ m[i] < last
        <5>1. m[i] \in Waits /\ m[i] < i /\ i \in Finals
          BY <1>2
        <5>2. m[i] \in 1..L /\ i \in 1..L /\ last \in 0..L
          BY <1>1, <2>1, <5>1
        <5>3. m[i] < last
          <6> DEFINE w == m[i]
          <6> HIDE DEF w
          <6> SUFFICES w \in 1..L /\ w < i => w < last
            BY <5>1, <5>2 DEF w
          <6> QED BY <1>1, <3>2, <5>2
        <5> QED BY <5>1, <5>3
      <4>2. \E k \in C : k < last /\ Credit[k] = m[i]
        BY <2>3, <4>1
      <4> QED BY <3>2, <4>2
    <3> QED BY <3>1, <3>2
  <2> HIDE DEF g
  <2>5. \A i, j \in D : g[i] = g[j] => i = j
    <3> TAKE i, j \in D
    <3> HAVE g[i] = g[j]
    <3>1. i \in 1..L /\ j \in 1..L /\ last \in 0..L
      BY <1>1, <1>2, <2>1
    <3>2. CASE i > last /\ j > last
      BY <2>4, <3>2
    <3>3. CASE ~(i > last) /\ ~(j > last)
      BY <1>2, <2>4, <3>3
    <3>4. CASE (i > last /\ ~(j > last)) \/ (~(i > last) /\ j > last)
      BY <2>4, <3>1, <3>4
    <3> QED BY <3>2, <3>3, <3>4
  <2>6. g \in [D -> C]
    <3>1. g = [i \in D |-> g[i]]
      BY DEF g
    <3> QED BY <2>4, <3>1
  <2>7. g \in Injection(D, C)
    BY <2>5, <2>6 DEF Injection, IsInjective
  <2>8. Cardinality(D) <= Cardinality(C)
    <3> HIDE DEF C, D
    <3> QED BY <1>1, <2>7, FS_Injection
  <2> QED BY <1>1, <2>8
<1> QED BY <1>1, <1>4, <1>5
-----------------------------------------------------------------------------
(* The telemetry.                                                          *)

\* What is accepted was bound, and the rows stay what they are.
IRollouts ==
  /\ log \in Seq(LogRow)
  /\ Accepted => \E found : Bound(found, Spawns) /\ telemetry = Telemetry(found)

\* Initially nothing was read.
LEMMA RolloutsStart == RolloutsInit => IRollouts
BY DEF RolloutsInit, IRollouts, Accepted

\* The host writes rows only before they are read.
LEMMA HostWritesKeeps == IRollouts /\ HostWrites => IRollouts'
<1> SUFFICES ASSUME IRollouts, HostWrites PROVE IRollouts'
  OBVIOUS
<1>1. telemetry = None /\ UNCHANGED telemetry
  BY DEF HostWrites
<1>2. ~Accepted'
  BY <1>1 DEF Accepted
<1>3. PICK row : row \in LogRow /\ log' = Append(log, row)
  <2>1. CASE \E t \in Task, a \in Child : Row("spawn", t, a)
    <3>1. PICK t \in Task, a \in Child : Row("spawn", t, a)
      BY <2>1
    <3>2. [kind |-> "spawn", task |-> t, actor |-> a] \in LogRow
      BY DEF LogRow
    <3> QED BY <3>1, <3>2 DEF Row
  <2>2. CASE Row("wait", None, None)
    <3>1. [kind |-> "wait", task |-> None, actor |-> None] \in LogRow
      BY DEF LogRow
    <3> QED BY <2>2, <3>1 DEF Row
  <2>3. CASE \E t \in Task : Row("final", t, None)
    <3>1. PICK t \in Task : Row("final", t, None)
      BY <2>3
    <3>2. [kind |-> "final", task |-> t, actor |-> None] \in LogRow
      BY DEF LogRow
    <3> QED BY <3>1, <3>2 DEF Row
  <2> QED BY <2>1, <2>2, <2>3 DEF HostWrites
<1>4. log' \in Seq(LogRow)
  BY <1>3, AppendProperties DEF IRollouts
<1> QED BY <1>2, <1>4 DEF IRollouts

\* What is bound, and how, depends on the log alone.
LEMMA BindingStays ==
  ASSUME UNCHANGED log, NEW found
  PROVE  Bound(found, Spawns)' = Bound(found, Spawns) /\ Telemetry(found)' = Telemetry(found)
BY DEF Bound, Telemetry, LifecycleOf, Credit, Free, Distinct, TaskOf, ActorOf, Spawns, Waits,
       Finals, Rows

\* Reading accepts what is bound to the spawns in the log.
LEMMA ParseKeeps == IRollouts /\ ParseNewRollouts => IRollouts'
<1> SUFFICES ASSUME IRollouts, ParseNewRollouts PROVE IRollouts'
  OBVIOUS
<1>1. UNCHANGED log
  BY DEF ParseNewRollouts
<1>2. PICK found \in SUBSET Child, started \in SUBSET Spawns :
        telemetry' = IF Bound(found, started) THEN Telemetry(found) ELSE NotBound
  BY DEF ParseNewRollouts
<1>3. CASE Bound(found, started)
  <2>1. Bound(found, Spawns) /\ telemetry' = Telemetry(found)
    BY <1>2, <1>3 DEF Bound
  <2>2. Bound(found, Spawns)' = Bound(found, Spawns) /\ Telemetry(found)' = Telemetry(found)
    BY <1>1, BindingStays
  <2> QED BY <1>1, <2>1, <2>2 DEF IRollouts
<1>4. CASE ~Bound(found, started)
  <2>1. ~Accepted'
    BY <1>2, <1>4 DEF Accepted, NotBound
  <2> QED BY <1>1, <2>1 DEF IRollouts
<1> QED BY <1>3, <1>4

\* Stuttering.
LEMMA RolloutsStutter == IRollouts /\ UNCHANGED rolloutVars => IRollouts'
<1> SUFFICES ASSUME IRollouts, UNCHANGED rolloutVars PROVE IRollouts'
  OBVIOUS
<1>1. UNCHANGED <<log, telemetry>>
  BY DEF rolloutVars
<1>2. \A found : Bound(found, Spawns)' = Bound(found, Spawns)
                 /\ Telemetry(found)' = Telemetry(found)
  BY <1>1, BindingStays
<1>3. Accepted' = Accepted
  BY <1>1 DEF Accepted
<1> QED BY <1>1, <1>2, <1>3 DEF IRollouts

\* Children and spawns are the same in number.
LEMMA UsageIsCounted == IRollouts => UsageCountedOnce
<1> SUFFICES ASSUME IRollouts, Accepted PROVE UsageCountedOnce
  BY DEF UsageCountedOnce
<1>1. PICK found : Bound(found, Spawns) /\ telemetry = Telemetry(found)
  BY DEF IRollouts
<1>2. /\ telemetry.new = found /\ DOMAIN telemetry.lifecycle = Spawns
      /\ \A s \in Spawns : telemetry.lifecycle[s].actor = ActorOf[s]
  BY <1>1 DEF Telemetry, LifecycleOf
<1>3. /\ found = {ActorOf[s] : s \in Spawns}
      /\ \A s, t \in Spawns : ActorOf[s] = ActorOf[t] => s = t
  BY <1>1 DEF Bound, Distinct
<1>4. \A a \in found : \E s \in Spawns : \A t \in Spawns : ActorOf[t] = a <=> t = s
  BY <1>3
<1>5. IsFiniteSet(Spawns)
  <2>1. log \in Seq(LogRow)
    BY DEF IRollouts
  <2>2. \A n \in 1..Len(log) : n \in 0..Len(log)
    OBVIOUS
  <2> QED BY <2>1, <2>2, RowsAreFinite
<1>6. Cardinality(found) = Cardinality(Spawns)
  <2>1. ActorOf \in [Spawns -> found]
    BY <1>3 DEF ActorOf
  <2>2. ActorOf \in Bijection(Spawns, found)
    BY <1>3, <2>1 DEF Bijection, Injection, Surjection, IsInjective
  <2>3. ExistsBijection(Spawns, found)
    BY <2>2 DEF ExistsBijection
  <2> QED BY <1>5, <2>3, FS_Bijection
<1> QED BY <1>2, <1>4, <1>6 DEF UsageCountedOnce

\* A credited final answer is the join of one spawn, whose wait it gives.
LEMMA WaitsAreCredited == IRollouts => WaitsCreditedBest
<1> SUFFICES ASSUME IRollouts, Accepted PROVE WaitsCreditedBest
  BY DEF WaitsCreditedBest
<1>0. log \in Seq(LogRow)
  BY DEF IRollouts
<1>1. PICK found : Bound(found, Spawns) /\ telemetry = Telemetry(found)
  BY DEF IRollouts
<1> DEFINE C == {i \in Finals : Credit[i] # None}
           life == telemetry.lifecycle
           Joins(s) == {i \in Finals : log[i].task = TaskOf[s]}
           waited == {s \in DOMAIN life : life[s].wait # None}
<1>2. /\ DOMAIN life = Spawns
      /\ \A s \in Spawns :
           life[s].wait = IF Joins(s) = {} THEN None ELSE Credit[CHOOSE i \in Joins(s) : TRUE]
  BY <1>1 DEF Telemetry, LifecycleOf
<1>3. /\ \A s, t \in Spawns : TaskOf[s] = TaskOf[t] => s = t
      /\ \A i \in Finals : \E s \in Spawns : TaskOf[s] = log[i].task
      /\ \A i, j \in Finals : log[i].task = log[j].task => i = j
  BY <1>1 DEF Bound, Distinct
<1>4. ASSUME NEW s \in Spawns, NEW i \in Finals, log[i].task = TaskOf[s]
      PROVE  life[s].wait = Credit[i]
  <2>1. Joins(s) = {i}
    BY <1>3, <1>4
  <2>2. (CHOOSE j \in Joins(s) : TRUE) = i
    BY <2>1
  <2> QED BY <1>2, <2>1, <2>2
<1>5. ASSUME NEW s \in waited PROVE \E i \in C : log[i].task = TaskOf[s] /\ life[s].wait = Credit[i]
  <2>1. PICK i \in Joins(s) : TRUE
    BY <1>2
  <2> QED BY <1>2, <1>4, <2>1
<1> HIDE DEF life, Joins
<1>6. \A s, t \in waited : life[s].wait = life[t].wait => s = t
  <2> TAKE s, t \in waited
  <2> HAVE life[s].wait = life[t].wait
  <2>1. PICK i \in C : log[i].task = TaskOf[s] /\ life[s].wait = Credit[i]
    BY <1>5
  <2>2. PICK j \in C : log[j].task = TaskOf[t] /\ life[t].wait = Credit[j]
    BY <1>5
  <2>3. i = j
    <3>1. i \in 1..Len(log) /\ j \in 1..Len(log)
      BY <1>0, RowsAreFinite
    <3> QED BY <1>0, <2>1, <2>2, <3>1, CreditIsCredited DEF Credited
  <2> QED BY <1>2, <1>3, <2>1, <2>2, <2>3
<1>7. Cardinality(C) <= Cardinality(waited)
  <2> DEFINE g == [i \in C |-> CHOOSE s \in Spawns : TaskOf[s] = log[i].task]
  <2>1. ASSUME NEW i \in C PROVE g[i] \in Spawns /\ TaskOf[g[i]] = log[i].task
    BY <1>3
  <2> HIDE DEF g
  <2>2. ASSUME NEW i \in C PROVE g[i] \in waited
    BY <1>2, <1>4, <2>1
  <2>3. g \in [C -> waited]
    <3> HIDE DEF C, waited
    <3>1. g = [i \in C |-> g[i]]
      BY DEF g
    <3> QED BY <2>2, <3>1
  <2>4. \A i, j \in C : g[i] = g[j] => i = j
    BY <1>3, <2>1
  <2>5. g \in Injection(C, waited)
    <3> HIDE DEF C, waited
    <3> QED BY <2>3, <2>4 DEF Injection, IsInjective
  <2>6. IsFiniteSet(waited)
    <3>1. waited \in SUBSET Spawns
      BY <1>2
    <3>2. Spawns \in SUBSET (0..Len(log))
      <4>1. \A n \in 1..Len(log) : n \in 0..Len(log)
        OBVIOUS
      <4> QED BY <1>0, <4>1, RowsAreFinite
    <3> QED BY <1>0, <3>1, <3>2, RowsAreFinite
  <2> HIDE DEF C, waited
  <2> QED BY <2>5, <2>6, FS_Injection
<1>8. ASSUME NEW m \in Matchings PROVE Cardinality(DOMAIN m) <= Cardinality(waited)
  <2>1. IsFiniteSet(C) /\ Cardinality(DOMAIN m) <= Cardinality(C)
    BY <1>0, CreditIsBest
  <2>2. IsFiniteSet(DOMAIN m) /\ IsFiniteSet(waited)
    <3>1. \A n \in 1..Len(log) : n \in 0..Len(log)
      OBVIOUS
    <3>2. DOMAIN m \in SUBSET (0..Len(log)) /\ waited \in SUBSET (0..Len(log))
      BY <1>0, <1>2, <3>1, RowsAreFinite DEF Matchings
    <3> QED BY <1>0, <3>2, RowsAreFinite
  <2>3. Cardinality(DOMAIN m) \in Nat /\ Cardinality(C) \in Nat /\ Cardinality(waited) \in Nat
    <3> HIDE DEF C, waited
    <3> QED BY <2>1, <2>2, FS_CardinalityType
  <2> HIDE DEF C, waited
  <2> QED BY <1>7, <2>1, <2>3
<1> QED BY <1>6, <1>8 DEF WaitsCreditedBest, life

\* The parsed telemetry counts every child once, and explains as many joins by waits as
\* any other way would: parse_new_rollouts, for a log of any length.
THEOREM TelemetryAlwaysBound == RolloutsSpec => []TelemetryIsBound
<1>1. IRollouts /\ [RolloutsNext]_rolloutVars => IRollouts'
  BY HostWritesKeeps, ParseKeeps, RolloutsStutter DEF RolloutsNext
<1>2. IRollouts => TelemetryIsBound
  BY UsageIsCounted, WaitsAreCredited DEF TelemetryIsBound
<1> QED BY <1>1, <1>2, RolloutsStart, PTL DEF RolloutsSpec
-----------------------------------------------------------------------------
(* Theorems about PacketPlan, for packets of any number with any names,     *)
(* paths of any length and any dependencies.                                *)

\* Each from where the last one ended.
Turns(f, visit, search, ids) ==
  f = [k \in 0..Len(ids) |-> IF k = 0 THEN search ELSE visit[<<f[k - 1], ids[k]>>]]

\* So many searches, of which InTurn gives the last.
Goes(f, S, visit, search, ids) ==
  /\ f \in [0..Len(ids) -> S]
  /\ f[0] = search /\ InTurn(visit, search, ids) = f[Len(ids)]
  /\ \A k \in 1..Len(ids) : f[k] = visit[<<f[k - 1], ids[k]>>]

\* What InTurn goes through is there, and is of the searches it is made of.
LEMMA InTurnIs ==
  ASSUME NEW S, NEW D, NEW visit \in [S \X D -> S], NEW search \in S, NEW ids \in Seq(D)
  PROVE  \E f : Goes(f, S, visit, search, ids)
<1> DEFINE n == Len(ids)
           step == [k \in Nat |-> [s \in S |-> IF k \in 1..n THEN visit[<<s, ids[k]>>] ELSE s]]
<1>0. n \in Nat /\ \A k \in 1..n : ids[k] \in D
  OBVIOUS
<1>1. step \in [Nat -> [S -> S]]
  <2>1. \A k \in Nat, s \in S : (IF k \in 1..n THEN visit[<<s, ids[k]>>] ELSE s) \in S
    BY <1>0
  <2> HIDE DEF n
  <2> QED BY <2>1
<1>2. PICK g : Stepwise(g, n, S, search, step)
  <2> HIDE DEF n, step
  <2> QED BY <1>0, <1>1, RecursionTo
<1>3. ASSUME NEW k \in 0..n
      PROVE  g[k] = IF k = 0 THEN search ELSE visit[<<g[k - 1], ids[k]>>]
  <2>1. CASE k = 0
    BY <1>2, <2>1 DEF Stepwise
  <2>2. CASE k # 0
    <3>1. k \in 1..n /\ k \in Nat /\ k - 1 \in 0..n
      BY <1>0, <2>2
    <3>2. g[k - 1] \in S /\ g[k] = step[k][g[k - 1]]
      BY <1>2, <3>1 DEF Stepwise
    <3>3. step[k][g[k - 1]] = visit[<<g[k - 1], ids[k]>>]
      BY <3>1, <3>2
    <3> QED BY <2>2, <3>2, <3>3
  <2> QED BY <2>1, <2>2
<1>4. Turns(g, visit, search, ids)
  <2>1. g = [k \in 0..n |-> g[k]]
    BY <1>2 DEF Stepwise
  <2> HIDE DEF step
  <2> QED BY <1>3, <2>1 DEF Turns
<1> DEFINE f == CHOOSE h : Turns(h, visit, search, ids)
<1>5. Turns(f, visit, search, ids)
  BY <1>4
<1>6. InTurn(visit, search, ids) = f[Len(ids)]
  BY DEF InTurn, Turns
<1> HIDE DEF f, step
<1>7. /\ f[0] = search /\ DOMAIN f = 0..n
      /\ \A k \in 1..n : f[k] = visit[<<f[k - 1], ids[k]>>]
  <2>1. 0 \in 0..n /\ \A k \in 1..n : k \in 0..n /\ k # 0
    BY <1>0
  <2> QED BY <1>5, <2>1 DEF Turns
<1>8. \A k \in 0..n : f[k] \in S
  <2> DEFINE T == {k \in 0..n : f[k] \in S}
  <2>1. 0 \in T
    BY <1>0, <1>7
  <2>2. ASSUME NEW k \in 0..n, k < n, k \in T PROVE k + 1 \in T
    <3>1. k + 1 \in 1..n /\ k + 1 \in 0..n /\ (k + 1) - 1 = k
      BY <1>0, <2>2
    <3>2. f[k + 1] = visit[<<f[k], ids[k + 1]>>]
      BY <1>7, <3>1
    <3> QED BY <1>0, <2>2, <3>1, <3>2
  <2> HIDE DEF T, n
  <2>3. \A k \in 0..n : k \in T
    BY <1>0, <2>1, <2>2, InductionTo
  <2> QED BY <2>3 DEF T
<1>9. f \in [0..n -> S]
  <2>1. f = [k \in 0..n |-> f[k]]
    BY <1>5 DEF Turns
  <2> QED BY <1>8, <2>1
<1> QED BY <1>6, <1>7, <1>9 DEF Goes

\* A plan as both validators have it before they search for cycles.
Known(packets) ==
  /\ packets \in Seq(PlannedPacket) /\ IdsDiffer(packets)
  /\ \A i \in DOMAIN packets : \A k \in DOMAIN packets[i].deps : packets[i].deps[k] \in IdsIn(packets)

\* The dependencies of a packet are packets.
LEMMA DependenciesAre ==
  ASSUME NEW packets, Known(packets), NEW i \in DOMAIN packets
  PROVE  /\ packets[i].id \in IdsIn(packets)
         /\ DependenciesOf(packets, packets[i].id) = packets[i].deps
         /\ packets[i].deps \in Seq(IdsIn(packets))
<1>1. packets[i].id \in IdsIn(packets)
  BY DEF IdsIn
<1>2. (CHOOSE j \in DOMAIN packets : packets[j].id = packets[i].id) = i
  BY DEF Known, IdsDiffer
<1>3. packets[i] \in PlannedPacket
  BY DEF Known
<1>4. packets[i].deps \in Seq(Identifier)
  BY <1>3 DEF PlannedPacket
<1>5. packets[i].deps \in Seq(IdsIn(packets))
  <2> DEFINE deps == packets[i].deps
  <2>1. deps \in Seq(Identifier) /\ \A k \in DOMAIN deps : deps[k] \in IdsIn(packets)
    BY <1>4 DEF Known
  <2> HIDE DEF deps
  <2>2. deps \in [1..Len(deps) -> IdsIn(packets)] /\ Len(deps) \in Nat
    BY <2>1
  <2>3. deps \in Seq(IdsIn(packets))
    BY <2>2, SeqDef
  <2> QED BY <2>3 DEF deps
<1> QED BY <1>1, <1>2, <1>5 DEF DependenciesOf

\* A visit ends in a search.
LEMMA VisitIs ==
  ASSUME NEW packets, Known(packets), NEW id \in IdsIn(packets), NEW search \in Search(packets),
         NEW deeper \in [Search(packets) \X IdsIn(packets) -> Search(packets)]
  PROVE  Visit(packets, deeper, search, id) \in Search(packets)
<1> DEFINE S == Search(packets)
           inside == [search EXCEPT !.visiting = @ \cup {id}]
           deps == DependenciesOf(packets, id)
           below == InTurn(deeper, inside, deps)
<1>1. PICK i \in DOMAIN packets : packets[i].id = id
  BY DEF IdsIn
<1>2. deps \in Seq(IdsIn(packets))
  BY <1>1, DependenciesAre
<1>3. inside \in S /\ [search EXCEPT !.cycle = TRUE] \in S
  BY DEF Search
<1>4. below \in S
  <2> DEFINE D == IdsIn(packets)
  <2>0. deeper \in [S \X D -> S] /\ inside \in S /\ deps \in Seq(D)
    BY <1>2, <1>3
  <2> HIDE DEF inside, deps, S, D
  <2>1. PICK f : Goes(f, S, deeper, inside, deps)
    BY <2>0, InTurnIs
  <2>2. Len(deps) \in 0..Len(deps)
    BY <1>2
  <2> QED BY <2>1, <2>2 DEF Goes
<1>5. [below EXCEPT !.visiting = @ \ {id}, !.visited = @ \cup {id}] \in S
  <2> HIDE DEF below
  <2> QED BY <1>4 DEF Search
<1> QED BY <1>3, <1>5 DEF Visit

\* Visits with so many packets left.
VisitsByDepth(v, packets) ==
  v = [n \in 0..Len(packets) |->
        [pair \in Search(packets) \X IdsIn(packets) |->
           IF n = 0 THEN [pair[1] EXCEPT !.cycle = TRUE]
           ELSE Visit(packets, v[n - 1], pair[1], pair[2])]]

\* What Visits are, level by level.
LEMMA VisitsAre ==
  ASSUME NEW packets, Known(packets)
  PROVE  /\ Visits(packets) \in [0..Len(packets) -> [Search(packets) \X IdsIn(packets) -> Search(packets)]]
         /\ \A s \in Search(packets), id \in IdsIn(packets) :
              Visits(packets)[0][<<s, id>>] = [s EXCEPT !.cycle = TRUE]
         /\ \A n \in 1..Len(packets), s \in Search(packets), id \in IdsIn(packets) :
              Visits(packets)[n][<<s, id>>] = Visit(packets, Visits(packets)[n - 1], s, id)
<1> DEFINE N == Len(packets)
           S == Search(packets)
           D == IdsIn(packets)
           T == [S \X D -> S]
           base == [pair \in S \X D |-> [pair[1] EXCEPT !.cycle = TRUE]]
           step == [n \in Nat |-> [v \in T |-> [pair \in S \X D |-> Visit(packets, v, pair[1], pair[2])]]]
<1>1. N \in Nat
  BY DEF Known
<1>2. base \in T
  <2>1. \A s \in S : [s EXCEPT !.cycle = TRUE] \in S
    BY DEF Search
  <2>2. \A pair \in S \X D : [pair[1] EXCEPT !.cycle = TRUE] \in S
    <3> HIDE DEF S, D
    <3> QED BY <2>1
  <2> HIDE DEF S, D
  <2> QED BY <2>2
<1>3. \A v \in T, pair \in S \X D : Visit(packets, v, pair[1], pair[2]) \in S
  BY VisitIs
<1> HIDE DEF S, D, N
<1>4. step \in [Nat -> [T -> T]]
  <2>1. \A v \in T : [pair \in S \X D |-> Visit(packets, v, pair[1], pair[2])] \in T
    BY <1>3
  <2> HIDE DEF T
  <2> QED BY <2>1
<1>5. PICK g : Stepwise(g, N, T, base, step)
  <2> HIDE DEF step, T, base
  <2> QED BY <1>1, <1>2, <1>4, RecursionTo
<1>6. ASSUME NEW n \in 0..N
      PROVE  g[n] = [pair \in S \X D |-> IF n = 0 THEN [pair[1] EXCEPT !.cycle = TRUE]
                                         ELSE Visit(packets, g[n - 1], pair[1], pair[2])]
  <2>1. CASE n = 0
    <3>1. g[0] = base
      BY <1>5 DEF Stepwise
    <3> QED BY <2>1, <3>1
  <2>2. CASE n # 0
    <3>1. n \in 1..N /\ n \in Nat /\ n - 1 \in 0..N
      BY <1>1, <2>2
    <3>2. g[n - 1] \in T /\ g[n] = step[n][g[n - 1]]
      BY <1>5, <3>1 DEF Stepwise
    <3>3. step[n][g[n - 1]] = [pair \in S \X D |-> Visit(packets, g[n - 1], pair[1], pair[2])]
      <4> HIDE DEF T
      <4> QED BY <3>1, <3>2
    <3> HIDE DEF step, T
    <3> QED BY <2>2, <3>2, <3>3
  <2> QED BY <2>1, <2>2
<1>7. VisitsByDepth(g, packets)
  <2>1. g = [n \in 0..N |-> g[n]]
    BY <1>5 DEF Stepwise
  <2> HIDE DEF step, T, base
  <2> QED BY <1>6, <2>1 DEF VisitsByDepth, N, S, D
<1> DEFINE v == CHOOSE h : VisitsByDepth(h, packets)
<1>8. Visits(packets) = v
  BY DEF Visits, VisitsByDepth
<1>9. VisitsByDepth(v, packets)
  BY <1>7
<1> HIDE DEF v, step, base
<1>10. /\ v = [n \in 0..N |-> v[n]]
       /\ \A n \in 0..N : v[n] = [pair \in S \X D |-> IF n = 0 THEN [pair[1] EXCEPT !.cycle = TRUE]
                                                      ELSE Visit(packets, v[n - 1], pair[1], pair[2])]
  BY <1>9 DEF VisitsByDepth, N, S, D
<1>11. v[0] = base
  <2>1. 0 \in 0..N
    BY <1>1
  <2>2. v[0] = [pair \in S \X D |-> IF 0 = 0 THEN [pair[1] EXCEPT !.cycle = TRUE]
                                    ELSE Visit(packets, v[0 - 1], pair[1], pair[2])]
    BY <1>10, <2>1
  <2> QED BY <2>2 DEF base
<1>12. ASSUME NEW n \in 1..N
       PROVE  v[n] = [pair \in S \X D |-> Visit(packets, v[n - 1], pair[1], pair[2])]
  <2>1. n \in 0..N /\ n # 0
    BY <1>1
  <2>2. v[n] = [pair \in S \X D |-> IF n = 0 THEN [pair[1] EXCEPT !.cycle = TRUE]
                                    ELSE Visit(packets, v[n - 1], pair[1], pair[2])]
    BY <1>10, <2>1
  <2> QED BY <2>1, <2>2
<1>13. \A n \in 0..N : v[n] \in T
  <2> DEFINE A == {n \in 0..N : v[n] \in T}
  <2>1. 0 \in A
    BY <1>1, <1>2, <1>11
  <2>2. ASSUME NEW n \in 0..N, n < N, n \in A PROVE n + 1 \in A
    <3>1. n + 1 \in 1..N /\ n + 1 \in 0..N /\ (n + 1) - 1 = n
      BY <1>1, <2>2
    <3>2. v[n + 1] = [pair \in S \X D |-> Visit(packets, v[n], pair[1], pair[2])]
      BY <1>12, <3>1
    <3>3. \A pair \in S \X D : Visit(packets, v[n], pair[1], pair[2]) \in S
      BY <1>3, <2>2
    <3>4. v[n + 1] \in T
      BY <3>2, <3>3
    <3> HIDE DEF T
    <3> QED BY <3>1, <3>4
  <2> HIDE DEF A
  <2>3. \A n \in 0..N : n \in A
    BY <1>1, <2>1, <2>2, InductionTo
  <2> QED BY <2>3 DEF A
<1>14. v \in [0..N -> T]
  <2> HIDE DEF T
  <2> QED BY <1>10, <1>13
<1>15. \A s \in S, id \in D : v[0][<<s, id>>] = [s EXCEPT !.cycle = TRUE]
  BY <1>11 DEF base
<1>16. \A n \in 1..N, s \in S, id \in D : v[n][<<s, id>>] = Visit(packets, v[n - 1], s, id)
  BY <1>12
<1> QED BY <1>8, <1>14, <1>15, <1>16 DEF T, S, D, N

\* Some packets in an order of theirs: each once, and after what it depends on.
PutsInOrder(packets, done, some) ==
  /\ {done[k] : k \in DOMAIN done} = some /\ IsInjective(done)
  /\ \A k \in DOMAIN done : \A m \in DOMAIN DependenciesOf(packets, done[k]) :
       \E j \in DOMAIN done : j < k /\ done[j] = DependenciesOf(packets, done[k])[m]

Ordered(packets, some) == \E done \in Seq(IdsIn(packets)) : PutsInOrder(packets, done, some)

\* What has been visited is in order, and not what is being visited.
KeptInOrder(packets, s) ==
  /\ s \in Search(packets) /\ s.visiting \cap s.visited = {}
  /\ Ordered(packets, s.visited)

\* From one search to a later one: a cycle stays one; without one, some more were visited.
Keeps(packets, s, t, some) ==
  /\ s.cycle => t.cycle
  /\ KeptInOrder(packets, s) /\ ~t.cycle =>
       KeptInOrder(packets, t) /\ s.visited \cup some \subseteq t.visited /\ t.visiting = s.visiting

VisitsKeep(packets, visit) ==
  \A s \in Search(packets), id \in IdsIn(packets) : Keeps(packets, s, visit[<<s, id>>], {id})

\* One more packet is put last.
LEMMA OneMoreInOrder ==
  ASSUME NEW packets, Known(packets), NEW some, Ordered(packets, some),
         NEW id \in IdsIn(packets), id \notin some,
         \A m \in DOMAIN DependenciesOf(packets, id) : DependenciesOf(packets, id)[m] \in some
  PROVE  Ordered(packets, some \cup {id})
<1> DEFINE D == IdsIn(packets)
           deps(x) == DependenciesOf(packets, x)
<1>1. PICK done \in Seq(D) : PutsInOrder(packets, done, some)
  BY DEF Ordered
<1> DEFINE longer == Append(done, id)
           n == Len(done)
<1> HIDE DEF D
<1>2. id \in D
  BY DEF D
<1>3. /\ n \in Nat /\ DOMAIN done = 1..n /\ longer \in Seq(D) /\ DOMAIN longer = 1..(n + 1)
      /\ longer[n + 1] = id /\ \A k \in 1..n : longer[k] = done[k]
  BY <1>1, <1>2
<1> HIDE DEF longer, n
<1>4. {done[k] : k \in 1..n} = some /\ IsInjective(done)
  BY <1>1, <1>3 DEF PutsInOrder
<1>5. \A k \in 1..(n + 1) : k \in 1..n \/ k = n + 1
  BY <1>3
<1>6. {longer[k] : k \in 1..(n + 1)} = some \cup {id}
  <2>1. \A k \in 1..n : k \in 1..(n + 1)
    BY <1>3
  <2>2. n + 1 \in 1..(n + 1)
    BY <1>3
  <2> QED BY <1>3, <1>4, <1>5, <2>1, <2>2
<1>7. IsInjective(longer)
  <2> SUFFICES ASSUME NEW a \in 1..(n + 1), NEW b \in 1..(n + 1), longer[a] = longer[b] PROVE a = b
    BY <1>3 DEF IsInjective
  <2>1. \A k \in 1..n : done[k] \in some
    BY <1>4
  <2>2. \A k, m \in 1..n : done[k] = done[m] => k = m
    BY <1>3, <1>4 DEF IsInjective
  <2> QED BY <1>3, <1>5, <2>1, <2>2
<1>8. ASSUME NEW k \in 1..(n + 1), NEW m \in DOMAIN deps(longer[k])
      PROVE  \E j \in 1..(n + 1) : j < k /\ longer[j] = deps(longer[k])[m]
  <2>1. CASE k = n + 1
    <3>1. deps(longer[k])[m] \in some
      BY <1>3, <2>1
    <3>2. PICK j \in 1..n : done[j] = deps(longer[k])[m]
      BY <1>4, <3>1
    <3>3. j \in 1..(n + 1) /\ j < k /\ longer[j] = done[j]
      BY <1>3, <2>1
    <3> HIDE DEF deps
    <3> QED BY <3>2, <3>3
  <2>2. CASE k \in 1..n
    <3>1. longer[k] = done[k]
      BY <1>3, <2>2
    <3>2. PICK j \in 1..n : j < k /\ done[j] = deps(done[k])[m]
      BY <1>1, <1>3, <2>2, <3>1 DEF PutsInOrder
    <3>3. j \in 1..(n + 1) /\ longer[j] = done[j]
      BY <1>3
    <3> HIDE DEF deps
    <3> QED BY <3>1, <3>2, <3>3
  <2> QED BY <1>5, <2>1, <2>2
<1>9. PutsInOrder(packets, longer, some \cup {id})
  BY <1>3, <1>6, <1>7, <1>8 DEF PutsInOrder
<1> QED BY <1>3, <1>9 DEF Ordered, D

\* Searches in turn keep what each keeps.
LEMMA TurnsKeep ==
  ASSUME NEW packets, NEW visit \in [Search(packets) \X IdsIn(packets) -> Search(packets)],
         VisitsKeep(packets, visit), NEW search \in Search(packets), NEW ids \in Seq(IdsIn(packets))
  PROVE  Keeps(packets, search, InTurn(visit, search, ids), Range(ids))
<1> DEFINE S == Search(packets)
           D == IdsIn(packets)
           n == Len(ids)
           upto(k) == {ids[j] : j \in 1..k}
<1>0. visit \in [S \X D -> S] /\ search \in S /\ ids \in Seq(D)
  OBVIOUS
<1>1. n \in Nat /\ DOMAIN ids = 1..n /\ \A k \in 1..n : ids[k] \in D
  OBVIOUS
<1> HIDE DEF S, D, n
<1>2. PICK f : Goes(f, S, visit, search, ids)
  BY <1>0, InTurnIs
<1>3. /\ f \in [0..n -> S] /\ f[0] = search /\ InTurn(visit, search, ids) = f[n]
      /\ \A k \in 1..n : f[k] = visit[<<f[k - 1], ids[k]>>]
  BY <1>2 DEF Goes, n
<1> DEFINE T == {k \in 0..n : Keeps(packets, search, f[k], upto(k))}
<1>4. 0 \in T
  <2>1. upto(0) = {}
    OBVIOUS
  <2>2. Keeps(packets, search, search, {})
    BY DEF Keeps
  <2>3. 0 \in 0..n
    BY <1>1
  <2> HIDE DEF upto
  <2>4. Keeps(packets, search, f[0], upto(0))
    BY <1>3, <2>1, <2>2
  <2> QED BY <2>3, <2>4
<1>5. ASSUME NEW k \in 0..n, k < n, k \in T PROVE k + 1 \in T
  <2>1. k + 1 \in 1..n /\ k + 1 \in 0..n /\ (k + 1) - 1 = k
    BY <1>1, <1>5
  <2>2. f[k + 1] = visit[<<f[k], ids[k + 1]>>] /\ f[k] \in S /\ ids[k + 1] \in D
    BY <1>1, <1>3, <2>1
  <2>3. Keeps(packets, f[k], f[k + 1], {ids[k + 1]})
    BY <2>2 DEF VisitsKeep, S, D
  <2>4. upto(k + 1) = upto(k) \cup {ids[k + 1]}
    BY <1>1, <2>1
  <2> HIDE DEF upto
  <2>5. Keeps(packets, search, f[k], upto(k))
    BY <1>5
  <2>6. Keeps(packets, search, f[k + 1], upto(k) \cup {ids[k + 1]})
    BY <2>3, <2>5 DEF Keeps
  <2> QED BY <2>1, <2>4, <2>6
<1>6. n \in T
  <2> HIDE DEF T
  <2>1. \A k \in 0..n : k \in T
    BY <1>1, <1>4, <1>5, InductionTo
  <2> QED BY <1>1, <2>1
<1>7. upto(n) = Range(ids)
  BY <1>1 DEF Range
<1> HIDE DEF upto
<1> QED BY <1>3, <1>6, <1>7

\* A visit keeps what visits to its dependencies keep.
LEMMA VisitKeeps ==
  ASSUME NEW packets, Known(packets), NEW search \in Search(packets), NEW id \in IdsIn(packets),
         NEW deeper \in [Search(packets) \X IdsIn(packets) -> Search(packets)],
         VisitsKeep(packets, deeper)
  PROVE  Keeps(packets, search, Visit(packets, deeper, search, id), {id})
<1> DEFINE inside == [search EXCEPT !.visiting = @ \cup {id}]
           deps == DependenciesOf(packets, id)
           below == InTurn(deeper, inside, deps)
           t == Visit(packets, deeper, search, id)
<1>0. search.visiting \in SUBSET IdsIn(packets) /\ search.visited \in SUBSET IdsIn(packets) /\ search.cycle \in BOOLEAN
  BY DEF Search
<1>1. CASE search.cycle \/ id \in search.visiting
  <2>1. t = [search EXCEPT !.cycle = TRUE]
    BY <1>1 DEF Visit
  <2>2. t.cycle
    BY <2>1 DEF Search
  <2> HIDE DEF t
  <2> QED BY <2>2 DEF Keeps, t
<1>2. CASE ~(search.cycle \/ id \in search.visiting) /\ id \in search.visited
  <2>1. t = search
    BY <1>2 DEF Visit
  <2> HIDE DEF t
  <2> QED BY <1>2, <2>1 DEF Keeps, t
<1>3. CASE ~(search.cycle \/ id \in search.visiting) /\ id \notin search.visited
  <2>1. t = [below EXCEPT !.visiting = @ \ {id}, !.visited = @ \cup {id}]
    BY <1>3 DEF Visit
  <2>2. PICK i \in DOMAIN packets : packets[i].id = id
    BY DEF IdsIn
  <2>3. deps \in Seq(IdsIn(packets))
    BY <2>2, DependenciesAre
  <2>4. /\ inside \in Search(packets) /\ inside.visiting = search.visiting \cup {id}
        /\ inside.visited = search.visited /\ inside.cycle = search.cycle
    BY DEF Search
  <2> HIDE DEF inside, deps
  <2>5. Keeps(packets, inside, below, Range(deps))
    BY <2>3, <2>4, TurnsKeep
  <2> HIDE DEF below, t
  <2> SUFFICES ASSUME KeptInOrder(packets, search), ~t.cycle
               PROVE  KeptInOrder(packets, t) /\ search.visited \cup {id} \subseteq t.visited /\ t.visiting = search.visiting
    BY <1>3 DEF Keeps, t
  <2>6. t \in Search(packets)
    BY VisitIs DEF t
  <2>7. KeptInOrder(packets, inside)
    BY <1>3, <2>4 DEF KeptInOrder
  <2>9. below \in Search(packets)
    <3> DEFINE S == Search(packets)
               D == IdsIn(packets)
    <3>0. deeper \in [S \X D -> S] /\ inside \in S /\ deps \in Seq(D)
      BY <2>3, <2>4
    <3>1. Len(deps) \in 0..Len(deps)
      BY <2>3
    <3> HIDE DEF S, D
    <3>2. PICK f : Goes(f, S, deeper, inside, deps)
      BY <3>0, InTurnIs
    <3>3. below \in S
      BY <3>1, <3>2 DEF Goes, below
    <3> QED BY <3>3 DEF S
  <2>10. /\ t.visiting = below.visiting \ {id} /\ t.visited = below.visited \cup {id}
         /\ t.cycle = below.cycle
    BY <2>1, <2>9 DEF Search
  <2>11. /\ KeptInOrder(packets, below) /\ search.visited \cup Range(deps) \subseteq below.visited
         /\ below.visiting = search.visiting \cup {id}
    BY <2>4, <2>5, <2>7, <2>10 DEF Keeps
  <2>12. id \notin below.visited
    BY <2>11 DEF KeptInOrder
  <2>13. Ordered(packets, below.visited \cup {id})
    <3>1. Ordered(packets, below.visited)
      BY <2>11 DEF KeptInOrder
    <3>2. \A m \in DOMAIN DependenciesOf(packets, id) : DependenciesOf(packets, id)[m] \in below.visited
      BY <2>11 DEF deps, Range
    <3> QED BY <2>12, <3>1, <3>2, OneMoreInOrder
  <2>14. t.visiting = search.visiting
    BY <1>3, <2>10, <2>11
  <2>15. t.visiting \cap t.visited = {}
    <3>1. below.visiting \cap below.visited = {}
      BY <2>11 DEF KeptInOrder
    <3> QED BY <2>10, <3>1
  <2>16. KeptInOrder(packets, t)
    BY <2>6, <2>10, <2>13, <2>15 DEF KeptInOrder
  <2> QED BY <2>10, <2>11, <2>14, <2>16
<1> QED BY <1>1, <1>2, <1>3

\* So without a cycle there is an order.
LEMMA AcyclicIsOrdered ==
  ASSUME NEW packets, Known(packets), ~Cyclic(packets)
  PROVE  Ordered(packets, IdsIn(packets))
<1> DEFINE N == Len(packets)
           v == Visits(packets)
           Sets == [Search(packets) \X IdsIn(packets) -> Search(packets)]
<1>1. N \in Nat /\ DOMAIN packets = 1..N
  BY DEF Known
<1>2. /\ v \in [0..N -> Sets]
      /\ \A s \in Search(packets), id \in IdsIn(packets) : v[0][<<s, id>>] = [s EXCEPT !.cycle = TRUE]
      /\ \A n \in 1..N, s \in Search(packets), id \in IdsIn(packets) :
           v[n][<<s, id>>] = Visit(packets, v[n - 1], s, id)
  BY VisitsAre
<1> HIDE DEF N, v
<1> DEFINE T == {n \in 0..N : VisitsKeep(packets, v[n])}
<1>3. 0 \in T
  <2>1. \A s \in Search(packets) : [s EXCEPT !.cycle = TRUE].cycle
    BY DEF Search
  <2>2. VisitsKeep(packets, v[0])
    BY <1>2, <2>1 DEF VisitsKeep, Keeps
  <2> QED BY <1>1, <2>2
<1>4. ASSUME NEW n \in 0..N, n < N, n \in T PROVE n + 1 \in T
  <2>1. n + 1 \in 1..N /\ n + 1 \in 0..N /\ (n + 1) - 1 = n
    BY <1>1, <1>4
  <2>2. v[n] \in Sets /\ VisitsKeep(packets, v[n])
    BY <1>2, <1>4
  <2>3. \A s \in Search(packets), id \in IdsIn(packets) :
          Keeps(packets, s, Visit(packets, v[n], s, id), {id})
    BY <2>2, VisitKeeps
  <2>4. \A s \in Search(packets), id \in IdsIn(packets) : v[n + 1][<<s, id>>] = Visit(packets, v[n], s, id)
    <3> DEFINE m == n + 1
    <3>1. m \in 1..N /\ m - 1 = n
      BY <2>1
    <3> HIDE DEF m
    <3>2. \A s \in Search(packets), id \in IdsIn(packets) :
            v[m][<<s, id>>] = Visit(packets, v[m - 1], s, id)
      BY <1>2, <3>1
    <3> QED BY <3>1, <3>2 DEF m
  <2>5. VisitsKeep(packets, v[n + 1])
    BY <2>3, <2>4 DEF VisitsKeep
  <2> QED BY <2>1, <2>5
<1>5. v[N] \in Sets /\ VisitsKeep(packets, v[N])
  <2> HIDE DEF T
  <2>1. \A n \in 0..N : n \in T
    BY <1>1, <1>3, <1>4, InductionTo
  <2>2. N \in 0..N
    BY <1>1
  <2> QED BY <1>2, <2>1, <2>2 DEF T
<1> DEFINE start == [visiting |-> {}, visited |-> {}, cycle |-> FALSE]
           ids == [i \in DOMAIN packets |-> packets[i].id]
           end == InTurn(v[N], start, ids)
<1>6. ids \in Seq(IdsIn(packets)) /\ Range(ids) = IdsIn(packets)
  <2>1. \A i \in DOMAIN packets : packets[i].id \in IdsIn(packets)
    BY DEF IdsIn
  <2>2. ids \in [1..N -> IdsIn(packets)]
    BY <1>1, <2>1
  <2> HIDE DEF ids
  <2>3. ids \in Seq(IdsIn(packets))
    BY <1>1, <2>2, SeqDef
  <2> QED BY <1>1, <2>3 DEF ids, IdsIn, Range
<1>7. start \in Search(packets) /\ KeptInOrder(packets, start)
  <2>1. start \in Search(packets) /\ start.visiting = {} /\ start.visited = {}
    BY DEF Search
  <2>2. <<>> \in Seq(IdsIn(packets)) /\ DOMAIN <<>> = {}
    OBVIOUS
  <2>3. PutsInOrder(packets, <<>>, {})
    BY <2>2 DEF PutsInOrder, IsInjective
  <2>4. Ordered(packets, {})
    BY <2>2, <2>3 DEF Ordered
  <2> HIDE DEF start
  <2> QED BY <2>1, <2>4 DEF KeptInOrder
<1>8. ~end.cycle
  BY DEF Cyclic, v, N
<1> HIDE DEF start, ids
<1>9. Keeps(packets, start, end, Range(ids))
  BY <1>5, <1>6, <1>7, TurnsKeep
<1> HIDE DEF end
<1>10. KeptInOrder(packets, end) /\ IdsIn(packets) \subseteq end.visited
  BY <1>6, <1>7, <1>8, <1>9 DEF Keeps
<1>11. end.visited = IdsIn(packets)
  BY <1>10 DEF KeptInOrder, Search
<1> QED BY <1>10, <1>11 DEF KeptInOrder

\* Ranks of the packets, each above those of its dependencies.
Ranked(packets, rank) ==
  /\ rank \in [IdsIn(packets) -> 1..Len(packets)]
  /\ \A id \in IdsIn(packets) : \A m \in DOMAIN DependenciesOf(packets, id) :
       rank[DependenciesOf(packets, id)[m]] < rank[id]

\* A packet below all that are being visited.
Below(rank, s, id) == ~s.cycle /\ \A other \in s.visiting : rank[id] < rank[other]

Passes(s, t) == ~t.cycle /\ t.visiting = s.visiting

VisitsPass(packets, rank, visit, n) ==
  \A s \in Search(packets), id \in IdsIn(packets) :
    Below(rank, s, id) /\ rank[id] <= n => Passes(s, visit[<<s, id>>])

\* Searches in turn pass what each passes.
LEMMA TurnsPass ==
  ASSUME NEW packets, NEW visit \in [Search(packets) \X IdsIn(packets) -> Search(packets)],
         NEW rank, NEW m, VisitsPass(packets, rank, visit, m),
         NEW search \in Search(packets), NEW ids \in Seq(IdsIn(packets)), ~search.cycle,
         \A k \in DOMAIN ids : Below(rank, search, ids[k]) /\ rank[ids[k]] <= m
  PROVE  Passes(search, InTurn(visit, search, ids))
<1> DEFINE S == Search(packets)
           D == IdsIn(packets)
           n == Len(ids)
<1>0. visit \in [S \X D -> S] /\ search \in S /\ ids \in Seq(D)
  OBVIOUS
<1>1. n \in Nat /\ DOMAIN ids = 1..n /\ \A k \in 1..n : ids[k] \in D
  OBVIOUS
<1> HIDE DEF S, D, n
<1>2. PICK f : Goes(f, S, visit, search, ids)
  BY <1>0, InTurnIs
<1>3. /\ f \in [0..n -> S] /\ f[0] = search /\ InTurn(visit, search, ids) = f[n]
      /\ \A k \in 1..n : f[k] = visit[<<f[k - 1], ids[k]>>]
  BY <1>2 DEF Goes, n
<1> DEFINE T == {k \in 0..n : Passes(search, f[k])}
<1>4. 0 \in T
  <2>1. Passes(search, f[0])
    BY <1>3 DEF Passes
  <2>2. 0 \in 0..n
    BY <1>1
  <2> QED BY <2>1, <2>2
<1>5. ASSUME NEW k \in 0..n, k < n, k \in T PROVE k + 1 \in T
  <2>1. k + 1 \in 1..n /\ k + 1 \in 0..n /\ (k + 1) - 1 = k
    BY <1>1, <1>5
  <2>2. f[k + 1] = visit[<<f[k], ids[k + 1]>>] /\ f[k] \in S /\ ids[k + 1] \in D
    BY <1>1, <1>3, <2>1
  <2>3. Below(rank, f[k], ids[k + 1]) /\ rank[ids[k + 1]] <= m
    BY <1>1, <1>5, <2>1 DEF Below, Passes
  <2>4. Passes(f[k], f[k + 1])
    BY <2>2, <2>3 DEF VisitsPass, S, D
  <2>5. Passes(search, f[k + 1])
    BY <1>5, <2>4 DEF Passes
  <2> QED BY <2>1, <2>5
<1>6. n \in T
  <2> HIDE DEF T
  <2>1. \A k \in 0..n : k \in T
    BY <1>1, <1>4, <1>5, InductionTo
  <2> QED BY <1>1, <2>1
<1> QED BY <1>3, <1>6

\* A visit passes if visits to its dependencies, which rank below, do.
LEMMA VisitPasses ==
  ASSUME NEW packets, Known(packets), NEW rank, Ranked(packets, rank), NEW n \in Nat,
         NEW search \in Search(packets), NEW id \in IdsIn(packets),
         NEW deeper \in [Search(packets) \X IdsIn(packets) -> Search(packets)],
         VisitsPass(packets, rank, deeper, n), Below(rank, search, id), rank[id] <= n + 1
  PROVE  Passes(search, Visit(packets, deeper, search, id))
<1> DEFINE inside == [search EXCEPT !.visiting = @ \cup {id}]
           deps == DependenciesOf(packets, id)
           below == InTurn(deeper, inside, deps)
           t == Visit(packets, deeper, search, id)
<1>0. /\ search.visiting \in SUBSET IdsIn(packets) /\ ~search.cycle
      /\ \A other \in IdsIn(packets) : rank[other] \in Nat
      /\ \A other \in search.visiting : rank[id] < rank[other]
  BY DEF Search, Below, Ranked, Known
<1>1. id \notin search.visiting
  BY <1>0
<1>2. CASE id \in search.visited
  <2>1. t = search
    BY <1>0, <1>1, <1>2 DEF Visit
  <2> HIDE DEF t
  <2> QED BY <1>0, <2>1 DEF Passes, t
<1>3. CASE id \notin search.visited
  <2>1. t = [below EXCEPT !.visiting = @ \ {id}, !.visited = @ \cup {id}]
    BY <1>0, <1>1, <1>3 DEF Visit
  <2>2. PICK i \in DOMAIN packets : packets[i].id = id
    BY DEF IdsIn
  <2>3. deps \in Seq(IdsIn(packets))
    BY <2>2, DependenciesAre
  <2>4. /\ inside \in Search(packets) /\ inside.visiting = search.visiting \cup {id}
        /\ inside.cycle = search.cycle
    BY DEF Search
  <2>5. \A k \in DOMAIN deps : deps[k] \in IdsIn(packets) /\ rank[deps[k]] < rank[id]
    BY <2>3 DEF Ranked
  <2> HIDE DEF inside, deps
  <2>6. \A k \in DOMAIN deps : Below(rank, inside, deps[k]) /\ rank[deps[k]] <= n
    BY <1>0, <2>4, <2>5 DEF Below
  <2>7. Passes(inside, below)
    BY <1>0, <2>3, <2>4, <2>6, TurnsPass
  <2>8. below \in Search(packets)
    <3> DEFINE S == Search(packets)
               D == IdsIn(packets)
    <3>0. deeper \in [S \X D -> S] /\ inside \in S /\ deps \in Seq(D)
      BY <2>3, <2>4
    <3>1. Len(deps) \in 0..Len(deps)
      BY <2>3
    <3> HIDE DEF S, D
    <3>2. PICK f : Goes(f, S, deeper, inside, deps)
      BY <3>0, InTurnIs
    <3>3. below \in S
      BY <3>1, <3>2 DEF Goes, below
    <3> QED BY <3>3 DEF S
  <2> HIDE DEF below, t
  <2>9. t.visiting = below.visiting \ {id} /\ t.cycle = below.cycle
    BY <2>1, <2>8 DEF Search
  <2>10. Passes(search, t)
    BY <1>1, <2>4, <2>7, <2>9 DEF Passes
  <2> QED BY <2>10 DEF t
<1> QED BY <1>2, <1>3

\* So with an order there is no cycle.
LEMMA RankedIsAcyclic ==
  ASSUME NEW packets, Known(packets), NEW rank, Ranked(packets, rank)
  PROVE  ~Cyclic(packets)
<1> DEFINE N == Len(packets)
           v == Visits(packets)
           Sets == [Search(packets) \X IdsIn(packets) -> Search(packets)]
<1>1. N \in Nat /\ DOMAIN packets = 1..N
  BY DEF Known
<1>2. /\ v \in [0..N -> Sets]
      /\ \A n \in 1..N, s \in Search(packets), id \in IdsIn(packets) :
           v[n][<<s, id>>] = Visit(packets, v[n - 1], s, id)
  BY VisitsAre
<1>3. \A id \in IdsIn(packets) : rank[id] \in 1..N
  BY DEF Ranked
<1> HIDE DEF N, v
<1> DEFINE T == {n \in 0..N : VisitsPass(packets, rank, v[n], n)}
<1>4. 0 \in T
  <2>1. VisitsPass(packets, rank, v[0], 0)
    BY <1>1, <1>3 DEF VisitsPass
  <2> QED BY <1>1, <2>1
<1>5. ASSUME NEW n \in 0..N, n < N, n \in T PROVE n + 1 \in T
  <2> DEFINE m == n + 1
  <2>1. m \in 1..N /\ m \in 0..N /\ m - 1 = n /\ n \in Nat
    BY <1>1, <1>5
  <2>2. v[n] \in Sets /\ VisitsPass(packets, rank, v[n], n)
    BY <1>2, <1>5
  <2>3. \A s \in Search(packets), id \in IdsIn(packets) :
          Below(rank, s, id) /\ rank[id] <= n + 1 => Passes(s, Visit(packets, v[n], s, id))
    BY <2>1, <2>2, VisitPasses
  <2>4. \A s \in Search(packets), id \in IdsIn(packets) :
          Below(rank, s, id) /\ rank[id] <= m => Passes(s, Visit(packets, v[n], s, id))
    BY <2>3
  <2> HIDE DEF m
  <2>5. \A s \in Search(packets), id \in IdsIn(packets) : v[m][<<s, id>>] = Visit(packets, v[n], s, id)
    BY <1>2, <2>1
  <2>6. VisitsPass(packets, rank, v[m], m)
    BY <2>4, <2>5 DEF VisitsPass
  <2>7. m \in T
    BY <2>1, <2>6
  <2> QED BY <2>7 DEF m
<1>6. v[N] \in Sets /\ VisitsPass(packets, rank, v[N], N)
  <2> HIDE DEF T
  <2>1. \A n \in 0..N : n \in T
    BY <1>1, <1>4, <1>5, InductionTo
  <2>2. N \in 0..N
    BY <1>1
  <2> QED BY <1>2, <2>1, <2>2 DEF T
<1> DEFINE start == [visiting |-> {}, visited |-> {}, cycle |-> FALSE]
           ids == [i \in DOMAIN packets |-> packets[i].id]
           end == InTurn(v[N], start, ids)
<1>7. ids \in Seq(IdsIn(packets))
  <2>1. \A i \in DOMAIN packets : packets[i].id \in IdsIn(packets)
    BY DEF IdsIn
  <2>2. ids \in [1..N -> IdsIn(packets)]
    BY <1>1, <2>1
  <2> HIDE DEF ids
  <2> QED BY <1>1, <2>2, SeqDef
<1>8. start \in Search(packets) /\ ~start.cycle /\ start.visiting = {}
  BY DEF Search
<1>9. Cyclic(packets) = end.cycle
  BY DEF Cyclic, v, N
<1> HIDE DEF start, ids
<1>10. \A k \in DOMAIN ids : Below(rank, start, ids[k]) /\ rank[ids[k]] <= N
  <2>1. \A k \in DOMAIN ids : ids[k] \in IdsIn(packets)
    BY <1>7
  <2> QED BY <1>1, <1>3, <1>8, <2>1 DEF Below
<1>11. Passes(start, end)
  BY <1>6, <1>7, <1>8, <1>10, TurnsPass
<1> QED BY <1>9, <1>11 DEF Passes
-----------------------------------------------------------------------------
\* An order of the places of a plan is one of its packets.
LEMMA OrderableIsRanked ==
  ASSUME Known(packetPlan), Orderable
  PROVE  \E rank : Ranked(packetPlan, rank)
<1> DEFINE D == DOMAIN packetPlan
           P == packetPlan
           spot(id) == CHOOSE i \in D : P[i].id = id
<1>1. PICK order \in [D -> D] : \A i, j \in D : NeedsPacket(i, j) => order[j] < order[i]
  BY DEF Orderable
<1> DEFINE rank == [id \in IdsIn(P) |-> order[spot(id)]]
<1>2. D = 1..Len(P) /\ Len(P) \in Nat
  BY DEF Known
<1>3. \A id \in IdsIn(P) : spot(id) \in D /\ P[spot(id)].id = id
  BY DEF IdsIn
<1>4. rank \in [IdsIn(P) -> 1..Len(P)]
  BY <1>1, <1>2, <1>3
<1>5. ASSUME NEW id \in IdsIn(P), NEW m \in DOMAIN DependenciesOf(P, id)
      PROVE  rank[DependenciesOf(P, id)[m]] < rank[id]
  <2> DEFINE i == spot(id)
             need == DependenciesOf(P, id)[m]
  <2>1. i \in D /\ P[i].id = id
    BY <1>3
  <2> HIDE DEF i
  <2>2. DependenciesOf(P, id) = P[i].deps
    BY <2>1, DependenciesAre
  <2>3. need = P[i].deps[m] /\ m \in DOMAIN P[i].deps
    BY <2>2
  <2>4. need \in IdsIn(P)
    BY <2>1, <2>3 DEF Known
  <2> HIDE DEF need
  <2>5. NeedsPacket(i, spot(need))
    BY <1>3, <2>3, <2>4 DEF NeedsPacket
  <2>6. order[spot(need)] < order[i]
    BY <1>1, <1>3, <2>1, <2>4, <2>5
  <2> QED BY <2>4, <2>6 DEF i, need
<1> HIDE DEF rank
<1>6. Ranked(P, rank)
  BY <1>4, <1>5 DEF Ranked
<1> QED BY <1>6

\* And an order of its packets is one of its places.
LEMMA OrderedIsOrderable ==
  ASSUME Known(packetPlan), Ordered(packetPlan, IdsIn(packetPlan))
  PROVE  Orderable
<1> DEFINE P == packetPlan
           I == IdsIn(P)
           n == Len(P)
<1>1. n \in Nat /\ DOMAIN P = 1..n
  BY DEF Known
<1>2. PICK done \in Seq(I) : PutsInOrder(P, done, I)
  BY DEF Ordered
<1> DEFINE w == Len(done)
           spot == [k \in 1..w |-> CHOOSE i \in DOMAIN P : P[i].id = done[k]]
           place == [i \in DOMAIN P |-> CHOOSE k \in 1..w : done[k] = P[i].id]
<1>3. w \in Nat /\ DOMAIN done = 1..w /\ \A k \in 1..w : done[k] \in I
  BY <1>2
<1> HIDE DEF w
<1>4. \A k \in 1..w : spot[k] \in 1..n /\ P[spot[k]].id = done[k]
  <2>1. \A k \in 1..w : \E i \in DOMAIN P : P[i].id = done[k]
    BY <1>3 DEF IdsIn
  <2> QED BY <1>1, <2>1
<1>5. \A k, l \in 1..w : done[k] = done[l] => k = l
  BY <1>2, <1>3 DEF PutsInOrder, IsInjective
<1>6. w <= n
  <2>1. spot \in [1..w -> 1..n]
    BY <1>4
  <2>2. \A k, l \in 1..w : spot[k] = spot[l] => k = l
    BY <1>4, <1>5
  <2> HIDE DEF spot
  <2>3. spot \in Injection(1..w, 1..n)
    BY <2>1, <2>2 DEF Injection, IsInjective
  <2>4. /\ IsFiniteSet(1..w) /\ Cardinality(1..w) = w
        /\ IsFiniteSet(1..n) /\ Cardinality(1..n) = n
    <3>1. \A m \in Nat : IsFiniteSet(1..m) /\ Cardinality(1..m) = m
      <4> TAKE m \in Nat
      <4>1. 1 \in Int /\ m \in Int
        OBVIOUS
      <4>2. IsFiniteSet(1..m) /\ Cardinality(1..m) = IF 1 > m THEN 0 ELSE m - 1 + 1
        BY <4>1, FS_Interval
      <4> QED BY <4>2
    <3> HIDE DEF n
    <3> QED BY <1>1, <1>3, <3>1
  <2>5. Cardinality(1..w) <= Cardinality(1..n)
    BY <2>3, <2>4, FS_Injection
  <2> QED BY <2>4, <2>5
<1>7. \A i \in DOMAIN P : place[i] \in 1..w /\ done[place[i]] = P[i].id
  <2>1. \A i \in DOMAIN P : \E k \in 1..w : done[k] = P[i].id
    BY <1>2, <1>3 DEF PutsInOrder, IdsIn
  <2> QED BY <2>1
<1>8. DOMAIN place = DOMAIN P
  OBVIOUS
<1> HIDE DEF place, spot
<1>9. place \in [DOMAIN P -> DOMAIN P]
  <2>1. place = [i \in DOMAIN P |-> place[i]]
    BY DEF place
  <2>2. \A i \in DOMAIN P : place[i] \in DOMAIN P
    BY <1>1, <1>3, <1>6, <1>7
  <2> QED BY <2>1, <2>2
<1>10. IsInjective(place)
  BY <1>7, <1>8 DEF IsInjective, Known, IdsDiffer
<1>11. ASSUME NEW i \in DOMAIN P, NEW j \in DOMAIN P, NeedsPacket(i, j)
       PROVE  place[j] < place[i]
  <2>1. PICK k \in DOMAIN P[i].deps : P[i].deps[k] = P[j].id
    BY <1>11 DEF NeedsPacket
  <2>2. DependenciesOf(P, done[place[i]]) = P[i].deps
    BY <1>7, DependenciesAre
  <2>3. PICK l \in 1..w : l < place[i] /\ done[l] = P[j].id
    BY <1>2, <1>3, <1>7, <2>1, <2>2 DEF PutsInOrder
  <2>4. l = place[j]
    BY <1>5, <1>7, <2>3
  <2> QED BY <2>3, <2>4
<1> QED BY <1>9, <1>10, <1>11 DEF Orderable

\* No cycle is found exactly when there is an order.
LEMMA CyclesAreFound ==
  ASSUME Known(packetPlan)
  PROVE  ~Cyclic(packetPlan) <=> Orderable
<1>1. ASSUME Orderable PROVE ~Cyclic(packetPlan)
  <2>1. PICK rank : Ranked(packetPlan, rank)
    BY <1>1, OrderableIsRanked
  <2> QED BY <2>1, RankedIsAcyclic
<1>2. ASSUME ~Cyclic(packetPlan) PROVE Orderable
  BY <1>2, AcyclicIsOrdered, OrderedIsOrderable
<1> QED BY <1>1, <1>2
-----------------------------------------------------------------------------
\* A path is above another one, or the same, when they agree as far as it goes.
LEMMA AboveIs ==
  ASSUME NEW S, NEW a \in Seq(S), NEW b \in Seq(S)
  PROVE  IsPrefix(a, b) <=> Len(a) <= Len(b) /\ \A k \in 1..Len(a) : a[k] = b[k]
<1>1. Len(a) \in Nat /\ Len(b) \in Nat
  OBVIOUS
<1>2. SubSeq(a, 1, Len(a)) = [k \in 1..Len(a) |-> a[k]]
  BY <1>1
<1>3. ASSUME Len(a) <= Len(b) PROVE SubSeq(b, 1, Len(a)) = [k \in 1..Len(a) |-> b[k]]
  BY <1>1, <1>3
<1>4. ASSUME IsPrefix(a, b) PROVE Len(a) <= Len(b) /\ \A k \in 1..Len(a) : a[k] = b[k]
  <2>1. Len(a) <= Len(b) /\ SubSeq(a, 1, Len(a)) = SubSeq(b, 1, Len(a))
    BY <1>4 DEF IsPrefix
  <2>2. [k \in 1..Len(a) |-> a[k]] = [k \in 1..Len(a) |-> b[k]]
    BY <1>2, <1>3, <2>1
  <2>3. \A k \in 1..Len(a) : [j \in 1..Len(a) |-> a[j]][k] = [j \in 1..Len(a) |-> b[j]][k]
    BY <2>2
  <2> QED BY <2>1, <2>3
<1>5. ASSUME Len(a) <= Len(b), \A k \in 1..Len(a) : a[k] = b[k] PROVE IsPrefix(a, b)
  <2>1. [k \in 1..Len(a) |-> a[k]] = [k \in 1..Len(a) |-> b[k]]
    BY <1>5
  <2> QED BY <1>2, <1>3, <1>5, <2>1 DEF IsPrefix
<1> QED BY <1>4, <1>5

\* The names of a path.
LEMMA ResolvedIs ==
  ASSUME NEW path \in Seq(Component)
  PROVE  /\ Resolved(path) \in Seq(FileName) /\ Len(Resolved(path)) = Len(path)
         /\ Fold(path) = Resolved(path) /\ Resolved(path) \in [1..Len(path) -> FileName]
<1>1. Len(path) \in Nat /\ DOMAIN path = 1..Len(path)
  OBVIOUS
<1>2. \A k \in 1..Len(path) : path[k].name \in FileName
  <2>1. \A k \in 1..Len(path) : path[k] \in Component
    OBVIOUS
  <2> QED BY <2>1 DEF Component
<1>3. Resolved(path) \in [1..Len(path) -> FileName]
  BY <1>1, <1>2 DEF Resolved
<1> DEFINE r == Resolved(path)
           n == Len(path)
<1>4. r \in Seq(FileName) /\ Len(r) = n
  <2>1. n \in Nat /\ r \in [1..n -> FileName]
    BY <1>1, <1>3
  <2> HIDE DEF r, n
  <2>2. r \in Seq(FileName)
    BY <2>1, SeqDef
  <2>3. DOMAIN r = 1..n
    BY <2>1
  <2> QED BY <2>1, <2>2, <2>3
<1>5. Fold(path) = Resolved(path)
  BY DEF Fold, Resolved
<1> QED BY <1>3, <1>4, <1>5

\* Paths overlap when one is above the other.
LEMMA OverlapIs ==
  ASSUME NEW left \in Seq(Component), NEW right \in Seq(Component)
  PROVE  PathsOverlap(left, right) <=>
           IsPrefix(Resolved(left), Resolved(right)) \/ IsPrefix(Resolved(right), Resolved(left))
<1> DEFINE a == Resolved(left)
           b == Resolved(right)
           m == Len(left)
           n == Len(right)
<1>1. /\ a \in Seq(FileName) /\ b \in Seq(FileName) /\ Len(a) = m /\ Len(b) = n
      /\ Fold(left) = a /\ Fold(right) = b /\ m \in Nat /\ n \in Nat
  BY ResolvedIs
<1>2. PathsOverlap(left, right) <=>
        SubSeq(a, 1, IF m < n THEN m ELSE n) = SubSeq(b, 1, IF m < n THEN m ELSE n)
  BY <1>1 DEF PathsOverlap
<1> HIDE DEF a, b, m, n
<1>3. IsPrefix(a, b) <=> m <= n /\ SubSeq(a, 1, m) = SubSeq(b, 1, m)
  BY <1>1 DEF IsPrefix
<1>4. IsPrefix(b, a) <=> n <= m /\ SubSeq(b, 1, n) = SubSeq(a, 1, n)
  BY <1>1 DEF IsPrefix
<1>5. PathsOverlap(left, right) <=> IsPrefix(a, b) \/ IsPrefix(b, a)
  <2>1. CASE m < n
    BY <1>1, <1>2, <1>3, <1>4, <2>1
  <2>2. CASE m = n
    BY <1>1, <1>2, <1>3, <1>4, <2>2
  <2>3. CASE n < m
    <3>1. ~(m < n)
      BY <1>1, <2>3
    <3> QED BY <1>1, <1>2, <1>3, <1>4, <2>3, <3>1
  <2> QED BY <1>1, <2>1, <2>2, <2>3
<1> QED BY <1>5 DEF a, b

\* A packet owns paths.
LEMMA OwnedAre ==
  ASSUME NEW packets \in Seq(PlannedPacket), NEW i \in DOMAIN packets
  PROVE  /\ packets[i].owned \in Seq(Seq(Component))
         /\ \A k \in DOMAIN packets[i].owned : packets[i].owned[k] \in Seq(Component)
         /\ DOMAIN packets[i].owned \subseteq Nat
<1>1. packets[i] \in PlannedPacket
  OBVIOUS
<1>2. packets[i].owned \in Seq(Seq(Component))
  BY <1>1 DEF PlannedPacket
<1> DEFINE owned == packets[i].owned
           Path1 == Seq(Component)
<1>3. owned \in Seq(Path1)
  BY <1>2
<1> HIDE DEF owned, Path1
<1>4. DOMAIN owned \subseteq Nat /\ \A k \in DOMAIN owned : owned[k] \in Path1
  BY <1>3
<1> QED BY <1>2, <1>4 DEF owned, Path1

\* Paths of one packet overlap when one of two is above the other.
LEMMA WithinIs ==
  ASSUME NEW packets \in Seq(PlannedPacket), NEW i \in DOMAIN packets
  PROVE  ~OverlapWithin(packets[i].owned) <=>
           \A k, l \in DOMAIN packets[i].owned : k # l =>
             ~IsPrefix(Resolved(packets[i].owned[k]), Resolved(packets[i].owned[l]))
<1> DEFINE owned == packets[i].owned
           above(k, l) == IsPrefix(Resolved(owned[k]), Resolved(owned[l]))
<1>1. \A k \in DOMAIN owned : owned[k] \in Seq(Component) /\ k \in Nat
  BY OwnedAre
<1> HIDE DEF owned
<1>2. \A k, l \in DOMAIN owned : PathsOverlap(owned[k], owned[l]) <=> above(k, l) \/ above(l, k)
  BY <1>1, OverlapIs
<1> HIDE DEF above
<1>3. OverlapWithin(owned) <=> \E k, l \in DOMAIN owned : k < l /\ (above(k, l) \/ above(l, k))
  BY <1>2 DEF OverlapWithin
<1>4. ~OverlapWithin(owned) <=> \A k, l \in DOMAIN owned : k # l => ~above(k, l)
  <2>1. \A k, l \in DOMAIN owned : k # l => k < l \/ l < k
    BY <1>1
  <2>2. \A k, l \in DOMAIN owned : k < l => k # l
    BY <1>1
  <2> QED BY <1>3, <2>1, <2>2
<1> QED BY <1>4 DEF owned, above

\* Then no path is there twice.
LEMMA ApartIsOnce ==
  ASSUME NEW packets \in Seq(PlannedPacket), NEW i \in DOMAIN packets,
         \A k, l \in DOMAIN packets[i].owned : k # l =>
           ~IsPrefix(Resolved(packets[i].owned[k]), Resolved(packets[i].owned[l]))
  PROVE  IsInjective(packets[i].owned)
<1> DEFINE owned == packets[i].owned
<1> SUFFICES ASSUME NEW k \in DOMAIN owned, NEW l \in DOMAIN owned, owned[k] = owned[l], k # l
             PROVE  FALSE
  BY DEF IsInjective
<1>1. owned[k] \in Seq(Component)
  BY OwnedAre
<1>2. Resolved(owned[k]) \in Seq(FileName)
  BY <1>1, ResolvedIs
<1>3. IsPrefix(Resolved(owned[k]), Resolved(owned[k]))
  BY <1>2, AboveIs
<1>4. ~IsPrefix(Resolved(owned[k]), Resolved(owned[l]))
  OBVIOUS
<1> QED BY <1>3, <1>4

\* Packets overlap exactly when a file has two owners.
LEMMA BetweenIs ==
  ASSUME packetPlan \in Seq(PlannedPacket)
  PROVE  ~OverlapBetween(packetPlan) <=> OneOwner
<1> DEFINE P == packetPlan
<1>0. \A i \in DOMAIN P : i \in Nat /\ \A k \in DOMAIN P[i].owned : P[i].owned[k] \in Seq(Component)
  BY OwnedAre
<1>1. ASSUME OneOwner, OverlapBetween(P) PROVE FALSE
  <2>1. PICK i \in DOMAIN P, j \in DOMAIN P :
          /\ i < j
          /\ \E k \in DOMAIN P[i].owned, l \in DOMAIN P[j].owned :
               PathsOverlap(P[i].owned[k], P[j].owned[l])
    BY <1>1 DEF OverlapBetween
  <2>2. PICK k \in DOMAIN P[i].owned, l \in DOMAIN P[j].owned :
          PathsOverlap(P[i].owned[k], P[j].owned[l])
    BY <2>1
  <2> DEFINE p == P[i].owned[k]
             q == P[j].owned[l]
  <2>3. p \in Seq(Component) /\ q \in Seq(Component) /\ p \in PathsOf(i) /\ q \in PathsOf(j)
    BY <1>0 DEF PathsOf
  <2>4. i # j
    BY <1>0, <2>1
  <2>5. PathsOverlap(p, q)
    BY <2>2
  <2> HIDE DEF p, q
  <2>6. IsPrefix(Resolved(p), Resolved(q)) \/ IsPrefix(Resolved(q), Resolved(p))
    BY <2>3, <2>5, OverlapIs
  <2>7. /\ Resolved(p) \in Seq(FileName) /\ Resolved(p) \in [1..Len(p) -> FileName]
        /\ Resolved(q) \in Seq(FileName) /\ Resolved(q) \in [1..Len(q) -> FileName]
    BY <2>3, ResolvedIs
  <2>8. Resolved(p) \in Files /\ Resolved(q) \in Files
    BY <2>3, <2>7 DEF Files
  <2>9. IsPrefix(Resolved(p), Resolved(p)) /\ IsPrefix(Resolved(q), Resolved(q))
    BY <2>7, AboveIs
  <2>10. i \in OwnersOf(Resolved(p)) /\ j \in OwnersOf(Resolved(q))
    BY <2>3, <2>9 DEF OwnersOf
  <2>11. i \in OwnersOf(Resolved(q)) \/ j \in OwnersOf(Resolved(p))
    BY <2>3, <2>6 DEF OwnersOf
  <2> QED BY <1>1, <2>4, <2>8, <2>10, <2>11 DEF OneOwner
<1>2. ASSUME ~OverlapBetween(P), NEW file \in Files, NEW i \in OwnersOf(file), NEW j \in OwnersOf(file), i < j
      PROVE  FALSE
  <2>1. i \in DOMAIN P /\ j \in DOMAIN P
    BY DEF OwnersOf
  <2>2. PICK p \in PathsOf(i) : IsPrefix(Resolved(p), file)
    BY DEF OwnersOf
  <2>3. PICK q \in PathsOf(j) : IsPrefix(Resolved(q), file)
    BY DEF OwnersOf
  <2>4. PICK k \in DOMAIN P[i].owned : p = P[i].owned[k]
    BY DEF PathsOf
  <2>5. PICK l \in DOMAIN P[j].owned : q = P[j].owned[l]
    BY DEF PathsOf
  <2>6. p \in Seq(Component) /\ q \in Seq(Component)
    BY <1>0, <2>1, <2>4, <2>5
  <2> DEFINE a == Resolved(p)
             b == Resolved(q)
  <2>7. a \in Seq(FileName) /\ b \in Seq(FileName)
    BY <2>6, ResolvedIs
  <2>8. file \in Seq(FileName)
    <3>1. PICK n : n \in DOMAIN P
      BY <2>1
    <3>2. PICK path \in UNION {PathsOf(h) : h \in DOMAIN P} : file \in [1..Len(path) -> FileName]
      BY DEF Files
    <3>3. PICK h \in DOMAIN P : path \in PathsOf(h)
      BY <3>2
    <3>4. path \in Seq(Component)
      BY <1>0, <3>3 DEF PathsOf
    <3>5. Len(path) \in Nat
      BY <3>4
    <3> QED BY <3>2, <3>5, SeqDef
  <2> HIDE DEF a, b
  <2>9. /\ Len(a) <= Len(file) /\ \A m \in 1..Len(a) : a[m] = file[m]
        /\ Len(b) <= Len(file) /\ \A m \in 1..Len(b) : b[m] = file[m]
    BY <2>2, <2>3, <2>7, <2>8, AboveIs DEF a, b
  <2>10. Len(a) \in Nat /\ Len(b) \in Nat
    BY <2>7
  <2>11. CASE Len(a) <= Len(b)
    <3>1. \A m \in 1..Len(a) : m \in 1..Len(b)
      BY <2>10, <2>11
    <3>2. IsPrefix(a, b)
      BY <2>7, <2>9, <2>11, <3>1, AboveIs
    <3>3. PathsOverlap(p, q)
      BY <2>6, <3>2, OverlapIs DEF a, b
    <3> QED BY <1>2, <2>1, <2>4, <2>5, <3>3 DEF OverlapBetween
  <2>12. CASE Len(b) <= Len(a)
    <3>1. \A m \in 1..Len(b) : m \in 1..Len(a)
      BY <2>10, <2>12
    <3>2. IsPrefix(b, a)
      BY <2>7, <2>9, <2>12, <3>1, AboveIs
    <3>3. PathsOverlap(p, q)
      BY <2>6, <3>2, OverlapIs DEF a, b
    <3> QED BY <1>2, <2>1, <2>4, <2>5, <3>3 DEF OverlapBetween
  <2> QED BY <2>10, <2>11, <2>12
<1>3. ASSUME ~OverlapBetween(P) PROVE OneOwner
  <2> SUFFICES ASSUME NEW file \in Files, NEW i \in OwnersOf(file), NEW j \in OwnersOf(file), i # j
               PROVE  FALSE
    BY DEF OneOwner
  <2>1. i \in Nat /\ j \in Nat
    BY <1>0 DEF OwnersOf
  <2>2. i < j \/ j < i
    BY <2>1
  <2> QED BY <1>2, <1>3, <2>2
<1> QED BY <1>1, <1>3
-----------------------------------------------------------------------------
\* When identifiers differ and dependencies are known, no cycle is found exactly when
\* there is an order; then no packet depends on itself.
LEMMA GraphIs ==
  ASSUME packetPlan \in Seq(PlannedPacket), IdsDiffer(packetPlan)
  PROVE  GraphHolds(packetPlan) <=>
           /\ \A i \in DOMAIN packetPlan : \A k \in DOMAIN packetPlan[i].deps :
                packetPlan[i].deps[k] \in IdsIn(packetPlan)
           /\ Orderable
<1> DEFINE P == packetPlan
           Deps == \A i \in DOMAIN P : \A k \in DOMAIN P[i].deps : P[i].deps[k] \in IdsIn(P)
<1>1. ASSUME GraphHolds(P) PROVE Deps /\ Orderable
  <2>1. Deps /\ ~Cyclic(P)
    BY <1>1 DEF GraphHolds
  <2>2. Known(P)
    BY <2>1 DEF Known
  <2> QED BY <2>1, <2>2, CyclesAreFound
<1>2. ASSUME Deps, Orderable PROVE GraphHolds(P)
  <2>1. Known(P)
    BY <1>2 DEF Known
  <2>2. ~Cyclic(P)
    BY <1>2, <2>1, CyclesAreFound
  <2>3. ASSUME NEW i \in DOMAIN P, NEW k \in DOMAIN P[i].deps, P[i].deps[k] = P[i].id
        PROVE  FALSE
    <3>1. NeedsPacket(i, i)
      BY <2>3 DEF NeedsPacket
    <3>2. PICK order \in [DOMAIN P -> DOMAIN P] : order[i] < order[i]
      BY <1>2, <3>1 DEF Orderable
    <3>3. order[i] \in Nat
      <4>1. DOMAIN P \subseteq Nat
        OBVIOUS
      <4> QED BY <4>1
    <3> QED BY <3>2, <3>3
  <2> QED BY <1>2, <2>2, <2>3 DEF GraphHolds
<1> QED BY <1>1, <1>2

\* What the two validations and the reference ask of each packet's paths.
LEMMA PathsAre ==
  ASSUME packetPlan \in Seq(PlannedPacket), NEW i \in DOMAIN packetPlan
  PROVE  /\ (\A k \in DOMAIN packetPlan[i].owned : OwnablePath(packetPlan[i].owned[k]))
              <=> \A path \in PathsOf(i) : OwnablePath(path)
         /\ (\A k \in DOMAIN packetPlan[i].owned : OwnablePath(packetPlan[i].owned[k]))
              <=> /\ \A k \in DOMAIN packetPlan[i].owned : CompilablePath(packetPlan[i].owned[k])
                  /\ <<>> \notin PathsOf(i)
<1>1. PathsOf(i) = {packetPlan[i].owned[k] : k \in DOMAIN packetPlan[i].owned}
  BY DEF PathsOf
<1> QED BY <1>1 DEF OwnablePath, CompilablePath

\* plan-packets accepts the sound plans, and no other.
LEMMA ValidIsSound ==
  ASSUME packetPlan \in Seq(PlannedPacket)
  PROVE  ValidPacketPlan(packetPlan) <=> SoundPlan
<1> DEFINE P == packetPlan
           Apart(i) == \A k, l \in DOMAIN P[i].owned : k # l =>
                         ~IsPrefix(Resolved(P[i].owned[k]), Resolved(P[i].owned[l]))
           Deps(i) == \A k \in DOMAIN P[i].deps : P[i].deps[k] \in IdsIn(P)
<1>1. \A i \in DOMAIN P : ~OverlapWithin(P[i].owned) <=> Apart(i)
  BY WithinIs
<1>2. \A i \in DOMAIN P : Apart(i) => IsInjective(P[i].owned)
  BY ApartIsOnce
<1>3. ~OverlapBetween(P) <=> OneOwner
  BY BetweenIs
<1>4. IdsDiffer(P) => (GraphHolds(P) <=> (\A i \in DOMAIN P : Deps(i)) /\ Orderable)
  BY GraphIs
<1>5. \A i \in DOMAIN P : (\A k \in DOMAIN P[i].owned : OwnablePath(P[i].owned[k]))
                            <=> \A path \in PathsOf(i) : OwnablePath(path)
  BY PathsAre
<1>6. EachIsWellFormed <=>
        \A i \in DOMAIN P :
          /\ P[i].id.stable
          /\ P[i].owned # <<>> /\ \A path \in PathsOf(i) : OwnablePath(path)
          /\ Apart(i) /\ Deps(i) /\ IsInjective(P[i].deps)
  BY DEF EachIsWellFormed
<1> HIDE DEF Apart, Deps
<1>7. ASSUME ValidPacketPlan(P) PROVE SoundPlan
  BY <1>1, <1>3, <1>4, <1>5, <1>6, <1>7 DEF ValidPacketPlan, SoundPlan
<1>8. ASSUME SoundPlan PROVE ValidPacketPlan(P)
  BY <1>1, <1>2, <1>3, <1>4, <1>5, <1>6, <1>8 DEF ValidPacketPlan, SoundPlan
<1> QED BY <1>7, <1>8

\* The compiler accepts these, and others only for an identifier or the path ".".
LEMMA CompilesIs ==
  ASSUME packetPlan \in Seq(PlannedPacket)
  PROVE  /\ ValidPacketPlan(packetPlan) => Compiles(packetPlan)
         /\ Compiles(packetPlan) /\ ~ValidPacketPlan(packetPlan) =>
              \E i \in DOMAIN packetPlan : ~packetPlan[i].id.stable \/ <<>> \in PathsOf(i)
<1> DEFINE P == packetPlan
<1>1. \A i \in DOMAIN P : (\A k \in DOMAIN P[i].owned : OwnablePath(P[i].owned[k]))
        <=> /\ \A k \in DOMAIN P[i].owned : CompilablePath(P[i].owned[k])
            /\ <<>> \notin PathsOf(i)
  BY PathsAre
<1>2. ASSUME ValidPacketPlan(P) PROVE Compiles(P)
  BY <1>1, <1>2 DEF ValidPacketPlan, Compiles, Builds, CompiledGraphHolds
<1>3. ASSUME Compiles(P), \A i \in DOMAIN P : P[i].id.stable /\ <<>> \notin PathsOf(i)
      PROVE  ValidPacketPlan(P)
  BY <1>1, <1>3 DEF ValidPacketPlan, Compiles, Builds, CompiledGraphHolds
<1> QED BY <1>2, <1>3

\* What a validation said is what it says of this plan.
PacketPlanIInv ==
  /\ packetPlan \in Seq(PlannedPacket)
  /\ compiled \in {"unread", IF Compiles(packetPlan) THEN "accepted" ELSE "refused"}
  /\ validated \in {"unread", IF ValidPacketPlan(packetPlan) THEN "accepted" ELSE "refused"}

\* A plan is accepted exactly when it is sound, for any packets with any dependencies
\* and any paths.
THEOREM PacketPlansAreSound == PacketPlanSpec => []PacketPlanIsSound
<1>1. PacketPlanInit => PacketPlanIInv
  BY PacketPlanConstants DEF PacketPlanInit, PacketPlanIInv
<1>2. PacketPlanIInv /\ [PacketPlanNext]_packetPlanVars => PacketPlanIInv'
  <2> SUFFICES ASSUME PacketPlanIInv, [PacketPlanNext]_packetPlanVars PROVE PacketPlanIInv'
    OBVIOUS
  <2>1. CASE CompileMarkdown
    BY <2>1 DEF CompileMarkdown, PacketPlanIInv
  <2>2. CASE TakePlan
    BY <2>2 DEF TakePlan, PacketPlanIInv
  <2>3. CASE UNCHANGED packetPlanVars
    BY <2>3 DEF packetPlanVars, PacketPlanIInv
  <2> QED BY <2>1, <2>2, <2>3 DEF PacketPlanNext
<1>3. PacketPlanIInv => PacketPlanIsSound
  <2> SUFFICES ASSUME PacketPlanIInv PROVE PacketPlanIsSound
    OBVIOUS
  <2>1. ValidPacketPlan(packetPlan) <=> SoundPlan
    BY ValidIsSound DEF PacketPlanIInv
  <2>2. /\ ValidPacketPlan(packetPlan) => Compiles(packetPlan)
        /\ Compiles(packetPlan) /\ ~ValidPacketPlan(packetPlan) =>
             \E i \in DOMAIN packetPlan : ~packetPlan[i].id.stable \/ <<>> \in PathsOf(i)
    BY CompilesIs DEF PacketPlanIInv
  <2>3. compiled = "accepted" => Compiles(packetPlan)
    BY DEF PacketPlanIInv
  <2>4. compiled = "refused" => ~Compiles(packetPlan)
    BY DEF PacketPlanIInv
  <2>5. validated # "unread" => (validated = "accepted" <=> ValidPacketPlan(packetPlan))
    BY DEF PacketPlanIInv
  <2>6. validated = "refused" => ~ValidPacketPlan(packetPlan)
    BY DEF PacketPlanIInv
  <2> QED BY <2>1, <2>2, <2>3, <2>4, <2>5, <2>6 DEF PacketPlanIsSound
<1> QED BY <1>1, <1>2, <1>3, PTL DEF PacketPlanSpec
=============================================================================
