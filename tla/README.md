# Formal model of Cognitive Powers

Cognitive Powers is a plugin for coding agents. Its core is *durable work*: a
session kept outside the repository, whose criteria are closed by evidence that
commands produced and another agent verified
(`skills/execute-durably/scripts/work_state.py` and `work_state_core/`). Around
it stand hooks that watch edits, planners and coordinators that give work to
agents, recorders of evidence, evaluations, a release and an installer. Most of
these are short-lived processes that share files and no server: what protects
them is a lock file, a ledger, and the order of checks and file replacements.
This directory models them in TLA+, checks the models with TLC and proves the
main invariants with TLAPS.

Paths are relative to the repository; `W` is
`skills/execute-durably/scripts/work_state.py`, `D` is
`work_state_core/durability.py` and `S` is `work_state_core/storage.py` beside it.
`PROJECT.json` maps every definition to the lines it stands for.

## Inventory

| Component | State | Operations | What is hard | What makes it correct |
|---|---|---|---|---|
| Session lock (`D` 358-664) | `.state.lock` naming pid, creation time and token; a flock'ed guard file | acquire, judge abandoned, reclaim, time out, release | crashes between two system calls, reused pids, creation times that cannot be read, torn files | one holder; nobody's file removed while it lives; every call returns; an abandoned file goes away |
| Session files (`W` 104-298, 949-1013; `D` 708-1189) | `state.json`, `ledger.jsonl`, `recovery.json` | save, compact, load, initialize, compact-session | a crash between any two replacements, a `state.json` edited in place or torn, reads without the lock | a session always loads, and loads its last appended state |
| State deltas and bundles (`D` 792-1052, `W` 217-352) | lines of the ledger, one bundle file | delta, apply, replay, compact, verify-bundle | nested documents, a bundle replaced before the ledger knows it | replay gives the saved state, a bundle that verifies restores |
| Criteria (`W` 467-1130, 1207-1412, 1965-2966) | criteria with attempts, executor, receipts, verdict; session status | run, run-red, run-green, record-*, verify, reopen, complete, status | commands run outside the lock; workspace and receipts change at any time; late processes | nothing unverified, self-verified or stale is sealed |
| Evidence of the skills (normalizers, `record-*`, documentation lookup) | what a provider left, its copies, a receipt, a claim | run, normalize, look up, record | three reads of files anybody may rewrite, remote runs that outlive their time-out, expiry | sealed copies show what is claimed |
| Work packets (`W` 1454-1963; `plan_compiler.py`) | a dependency graph, each packet with owner and checks | compile, plan-, start-, run-check, complete-, reopen-packet | reopening below active work, takeover of a check, checks that passed at different times, a plan validated twice by different code | work rests on completed work; a completed packet was proven as a whole |
| Storage and collection (`S`) | CAS objects shared by sessions, tombstones | copy to CAS, gc | renaming the directory that holds the lock; decisions taken before it; removal that fails half way | no live session and no scanned receipt's object is deleted |
| Edit ledger and Stop gate (`hooks/selective_hooks.py`) | hash-chained ledger and a validation receipt per conversation | post-tool-use, record-validation, stop | parallel tool calls, torn writes, five reads at five moments | silence of the gate is earned |
| Orchestration policy (`scripts/orchestration_policy.py`) | one plan of waves, results, claims | plan, validate results and contexts | capacity, dependencies and ownership together | waves are executable, delegation is real |
| Controller A/B batch and live runner | journal, outputs, work directory; homes, trees, rollouts | run jobs, resume, condense, finalize; freeze, run arms, judge, read telemetry | deaths between a paid call and its record; edits between checks and copies | no job paid twice, one experiment per bundle, usage counted once |
| Activation evaluation (`evals/activation_core`) | sessions of trials, rows, blocks | run, watch, retry, compare, admit | watchdog against early stop, throttling | what counts was measured |
| Memory and context (`solve-efficiently`) | one store file, snapshots, receipts; a selection | write, undo, retrieve; process, select, mark | writers without a lock; a budget's edge | an undo is exact, a receipt accounts for what went out |
| Lifecycle, research, diagnosis, review, closeout | receipts handed from call to call | transition; register, evaluate; synthesize, route, assess | receipts rewritten, reports in any order | results answer to what was registered |
| Release (`validate_all`, `build_release_manifest`, `release_witness`) | receipts, manifest, witness | validate, build, create, verify | looks at a repository that moves | a witness is of what was validated |
| Installers (`install.sh`, `install.ps1`) | marketplace, two plugins, a recovery copy | preflight, transact, roll back | commands that fail with or without effect, twice | all or nothing, and the message says which |
| Routing, resume, coordination report, MCP server, doctor, benchmarks | none of their own | one document in, one out | wording and tables | deterministic |

How they interact: every `work_state.py` command enters the session lock,
loads the session, checks, changes the loaded state and saves it, all inside
one lock, except that `run*`, `record*` and `run-packet-check` let go of the
lock while the command runs and enter it again to record the result, and that
`status` and `resume` never take it. The hooks, the MCP server and the collector
load sessions through the same `load_state`; the collector holds the session
lock while it renames the directory in which the lock lies. Normalizers hand
receipts to `record-*` as files. Plans for packets come from the compiler or by
hand, and `plan-packets` judges both. The batch coordinator starts runners, and
these read the rollouts of the host and judge delegation by the plan of the
orchestration policy. The installer trusts the verdict of `verify_installed.py`.

## Modules

| Module | Models |
|---|---|
| `Absence` | `None`, the value of a field that is not set |
| `SessionLock` | `session_lock` and the helpers under it |
| `DurableSession` | what the session files promise: one versioned state that changes atomically |
| `DurableStore` | the three files; instance of `DurableSession` as refinement |
| `LedgerReplay` | what deltas, ledger lines and bundles contain |
| `Criteria` | the criterion gate |
| `Evidence` | from a provider's files through normalizer and recorder to the criterion |
| `Packets`, `PacketPlan` | the work packets; which plans the compiler and `plan-packets` let through |
| `StorageGC` | `storage-gc --apply` against commands of other processes |
| `EditGate` | edit ledger, `record-validation`, Stop gate |
| `AgentPlan` | plans of waves, results, contexts, and the runner's verdict on an execution |
| `Batch`, `LiveRun`, `Rollouts` | the batch coordinator and its finalizer; one runner process; its reading of rollouts |
| `Activation` | the activation evaluation |
| `MemoryContext`, `ContextPipeline` | the memory store; the selection of context |
| `Lifecycle`, `Research`, `Syntheses`, `Protocols` | capability transitions; registered research; diagnosis, review, closeout; what these and the selection of context promise (`Protocols`) |
| `Ranking` | sorting by what is above what |
| `ReleaseWitness` | validation, manifest, witness over a moving repository |
| `Installer` | the installation transaction and its rollback |
| `MCSessionLock`, `MCDurableStore`, `MCCriteria`, `MCPackets`, `MCStorageGC` | constants and symmetry of one component for TLC |
| `MCArtifacts`, `MCHosts`, `MCTools` | constants and symmetry; each puts several components under one run |
| `SessionLockProofs`, `DurableStoreProofs`, `CriteriaProofs`, `PacketsProofs` | theorems about the module of that name |
| `ArtifactsProofs`, `HostsProofs`, `ToolsProofs`, `ReleaseProofs` | theorems about `StorageGC`, `Evidence` and `LedgerReplay`; `EditGate`, `Installer`, `Activation` and `MemoryContext`; `Batch`, `LiveRun`, `AgentPlan`, `Rollouts` and `PacketPlan`; `ReleaseWitness`, `Lifecycle`, `Research`, `Syntheses` and `ContextPipeline` |

The grain follows the code's own layering. `SessionLock` is at the grain of
system calls. `DurableStore` has one writer, because `SessionLock` shows that
there is one, and is at the grain of file replacements. `Criteria`, `Packets`
and `StorageGC` take a locked read-check-save as a single step, because
`DurableStore` shows that a save is atomic, except where a command looks at
something the lock does not protect. A digest is everywhere the content it
digests, and a hash-chained file a sequence that changes by whole lines or is
torn.

### SessionLock

`pc[p]` is the place of process `p` in `session_lock`: `wait` (before the
guard), `guarded`, `created` (the file exists, its owner is not yet written),
`reclaim` (judged abandoned, not yet unlinked), `retry` (the loop's look at the
deadline), `critical`, and `unlinkWait`/`unlinking` for the release. `lock` is
the content of the file: `Absent`, `Torn`, or an owner record with pid, creation
time (`None` when unobtainable) and token. A pid can be given to a new process
with another `birth`. A crash can strike at every step and releases the guard but
not the file. Two clocks, the caller's deadline (`expired`) and the age of the
file (`old`), pass at any time, so no property depends on how 10 and 30 seconds
compare.

### DurableStore and LedgerReplay

In `DurableStore` a state is a sequence number and a content; the ledger is what
replaying its lines yields and how many there are. A save runs `Begin` (load,
decide delta or checkpoint), `AppendLedger`, `CompactAfterAppend`,
`WriteRecovery`, `WriteState`, and a `Crash` can cut it off anywhere.
`EditState` and `TearState` are what happens to `state.json` from outside. In one
behaviour it is of one kind, which `interference` picks: both kinds together can
lose an edit that only `state.json` ever held, which the code does not promise
to keep. `ReadState`,
`ReadLedgerLines` and `ReadRecovery` are the three reads of `status`.

`LedgerReplay` opens the lines: documents are trees, `_state_delta` and
`_apply_state_delta` are defined over them, and saves, edits in place,
compaction, `compact-session` and `verify-bundle` produce and read lines. The
documents of depth 0 are atoms, and those of each further depth are made of the
ones below (`Documents`), so `StateDelta` recurs over a depth; a path is walked
down to the parent of its last component and rebuilt on the way up
(`AlongPath`). What Python raises is the document `Raised`.
Values that differ in type only (`1` and `"1"`) are kept apart, as the code does.

### Criteria and Evidence

`criterion[c]` is the stored record, `evidence` the receipt files, `source` the
workspace, `run[r]` a process between `_begin_attempt` and `_finish_attempt`,
and `gate` a `verify` or `complete` that has read and not yet saved. The command
of a capture runs on the workspace of one moment (`Execute`), the fingerprint is
taken at a later one (`WriteReceipt`), and the result is recorded later still
(`Finish`) or refused (`FinishRefused`). The eight `record-*` commands are the
kind `artifact`. A receipt that is missing, malformed, expired, or whose copied
artifacts changed is `None`: every reader refuses all of these. `Altered` adds
receipts rewritten with another result. `status` is the operator
`EffectiveStatus`, since it stores nothing. A process that dies during `run`
leaves its criterion `in_progress` until somebody reopens it (`W` 1223), and
`reopen` keeps `completed_at` (`W` 2896): the model has the first and leaves out
the field.

`Evidence` has what `Criteria` abstracts: seven kinds of receipt, what each
normalizer reads, copies and digests, what the recorder validates and what it
copies, with a time at which documentation expires and remote runs that may end
after their attempt was given up. A document is a version and the facts it
shows; anybody may write a new version between two reads.

### Packets and PacketPlan

`plan` is the dependency graph, `packet[p]` the stored record with its checks,
`content[p]` what its owned paths hold, `run[r]` the process of a check between
the two locked halves of `run-packet-check`. `Alive` is the identity check of a
takeover: `SessionLock` examines how it is read; here it is exact.
`Descendants` is the least set closed under dependency, `Frontier` the
wave-by-wave loop of the code. Owned paths of different packets are disjoint,
which `PacketPlan` shows of what `plan-packets` accepts: there, `compiled` and
`validated` are what the compiler and `plan-packets` say of one plan, ids are stable
or not, path components have spellings (case, composition, Windows names), and
the compiler's checks stand beside those of `_validate_packet_plan`. `visit` recurses
over the packets that are not being visited yet, so `Visits` counts them. The
reference knows neither search nor folding: an order of the packets, and files
that are found by name.

### StorageGC

`dir[s]` is the directory at a session's path with its state, age, lock and the
digests its receipts name, `tomb[s]` the directory a collection renamed away,
`object[d]` a CAS object. The collector goes through `verdict` (unlocked look),
lock, second look, rename, removal that may fail half way and be moved back, the
scan of references, and the deletion of objects; clients open, record, reopen,
complete or only probe.

### EditGate

`hook` processes append to `ledger` under `lock`, `validation` reads ledger,
session and evidence at different moments and writes `receipt`, and `stop` reads
ledger, receipt, evidence, criterion and workspace one after the other. All fail
open, as the code does. A write may be torn by a death; nothing is appended
after a torn line.

### Batch, LiveRun, Rollouts, AgentPlan

`Batch` follows the journal record by record: `pointer` is the pair of files
that name work directories, `session` what lies in them, `evidence` the
condensed files, `bundle` the finalizer's, `co` the coordinator and `runner` a
child that may outlive it. `LiveRun` is one such child: `world` is the version
of the four trees it depends on, which somebody may edit or upgrade between its
guards, and `clones` what it judges. `Rollouts` builds every short rollout of a
parent thread and applies `parse_new_rollouts` to it. `AgentPlan` plans an
input, lets agents report, and compares with what the runner's classification
accepts.

### Activation, MemoryContext, ContextPipeline

`Activation` has `session[i]` at each place of the work with its events,
watchdog, retries and exit, blocks that stop the comparison, and the gate over
the rows. `MemoryContext` has writers that read, snapshot and replace the one
store without a lock, their receipts and undos, and retrievals over expiring and
superseding records. `ContextPipeline` runs `ContextPipeline.run` step by step
(`stage`: provider, processors, selector, acceptance, then marks on the
receipt). Processors and selectors are plug-ins: what others may return is a
constant operator of what they are handed (`Processings`, `Answers`), about which
nothing is assumed; beside them stand the shipped processor and selector, whose
loop over the ranked items is `Servings`.

### Lifecycle, Research, Syntheses, ReleaseWitness, Installer

The protocols are functions of the documents they are handed; what makes them
stateful is who hands them what. `Lifecycle` keeps all receipts there are and
lets somebody edit them; `Research` registers plans before there are results
and evaluates packets made afterwards; `Syntheses` hands in reports one by one.
`ReleaseWitness` has the repository (HEAD, tree, tags) and one job at a time
that looks at it command by command. `Installer` has the profile of the host
(`profile`), the recovery copies (`copies`) and one installer at a time; each
command of the codex program is a step that may fail with or without its effect,
`host.reported` is how codex reports a pinned source, and an installer may be
interrupted (its EXIT trap runs) or killed.

## Checks

| Run | Instance | Shows |
|---|---|---|
| `lock_calls` | 2 pids handed out twice, 3 tokens, torn and unreadable files, hidden creation times, fairness | `MutualExclusion`, `HolderOwnsFile`, `NoLockStolen`, `CallsEnd`, `AbandonedLockIsReclaimed` |
| `lock_timeout` | 3 pids | finding 1 (`TimeoutMeansLiveOwner`) |
| `store_files` | checkpoint every 3rd sequence, compaction above 2 events, 3 saves, one unlocked reader; `state.json` edited in place, or torn | `SessionLoads`, `LedgerLeads`, `UnlockedReadsAreCurrent`, `SaveSettles`, refinement of `DurableSession` (`ImplementsDurableSession`) |
| `criteria_race` | 1 criterion, 2 processes, 2 workspaces, 2 commands, 2 attempts, 3 agents of which two are one name in two spellings, receipts lost and rewritten | `SealedEvidence`, `ReceiptIsOfThisAttempt`, `ReviewedCycleIsOne`, `StatusMatchesGate`, `CompletedIsFrozen`, `EvidenceWrittenOnce` |
| `criteria_red_source` | 1 process, 1 attempt | finding 2 (`RedBindsDefectiveSource`) |
| `packets_graph` | every acyclic graph of 3 packets, 1 check each, 2 attempts, receipts lost but paths never edited | `BuiltOnCompleted`, `CompleteSessionIsDone`, `FrontierFindsDescendants` |
| `packets_runners` | 1 packet, 2 checks, 2 owners, 2 processes, 2 contents, 2 attempts, fairness | `CompletedIsProven`, `OneProcessPerCheck`, `CheckEnds` |
| `packets_retry` | 1 packet, 2 checks | finding 3 (`RetryLeadsToCompletion`) |
| `artifacts` | storage: 2 sessions, 1 client with 2 commands, 1 digest, `--keep-last 1`; evidence: 7 kinds, 3 documents, 2 normalizations, 2 attempts, documentation valid for 1 of 2 time steps; ledgers: 3 saves, a checkpoint every 3rd sequence, 6 documents of 3 levels, and 2 documents with 2 bundles of which one line is retained | `LockedInPlace`, `ScannedReceiptsKeepObjects`, `ActiveKept`; `EvidenceHolds`; `HistoryRestores` |
| `gc_recent` | 1 session, 1 client, `--keep-last 0` | finding 4 (`RecentCompletionKept`) |
| `hosts` | edits: 2 hooks, 2 agents, 2 workspaces, 2 edits, 3 changes; evaluation: 2 should-fire trials and a quiet one, 2 workers, 2 attempts, blocks of 1; memory: 2 writers with 3 writes, and retrieval over 4 records with limits 1 and 2; installation: 2 releases, 2 installers | `ChainHolds`, `SilentStopIsEarned`; `ActivationIsMeasured`; `MemoryHolds`; `InstallIsTransaction` |
| `tools` | batch: 2 jobs, 2 directories, 2 configurations, 3 starts; plans of 3 units; 1 repetition of a live run with 1 edit; rollouts of 2 tasks with 2 spawns, waits and finals each; packet plans of 3 packets; 2 capabilities with 4 receipts; 2 experiments; 3 reports; 3 items of context; a release of 1 offline and 1 live command edited twice, and one edited and retagged once | `JobCalledOnce`, `BundleIsEarned`, `PlanIsSound`, `LiveRunIsSound`, `TelemetryIsBound`, `PacketPlanIsSound`, `ProtocolsHold`, `ReleaseIsWitnessed` |

`artifacts`, `hosts` and `tools` hold components that share nothing. Their MC
modules extend the components, so the properties and the assumptions on
constants are those of the theorems. A behaviour is about one component, its
`focus`, chosen at the start; the others keep an initial state, in which their
properties hold. The memory store has two focuses: two writers that nobody reads, and one writer under a clock with
a reader.

Of the properties that join several:

- `EvidenceHolds`: what is sealed shows the claim although the provider's file,
  the copy and the receipt are read at three moments; documentation was fresh
  when recorded; a cited remote run completed.
- `ActivationIsMeasured`: a row that counts is of a session that ended by itself
  or was settled, not of one the watchdog killed; the verdict published is that
  of the rows at the stop; the gate passes nothing unmeasured.
- `PlanIsSound`: every eligible unit in one wave, after its dependencies, within
  capacity, nobody beside a writer of what it owns; changes accepted from a wave
  are disjoint; completed delegation was by distinct agents with clean checks.
- `LiveRunIsSound`: an exit below 2 means results of one frozen plugin, fixture
  and pair of homes, judged on the tree that is recorded, and the work
  directory goes only behind complete evidence.
- `TelemetryIsBound`: the greedy binding of children counts usage once and
  credits waits as well as any binding could.
- `PacketPlanIsSound`: `plan-packets` accepts exactly the plans that `Packets`
  can execute, and the compiler refuses none of them.
- `HistoryRestores`: whatever was saved, edited, compacted or cut off, the ledger
  replays to the document that was saved last, and a bundle that verifies
  restores what was exported, also when `state.json` lagged behind.
- `ProtocolsHold`: approved transitions are chained back to an observation or a
  seed, and what is active was tried (`LifecycleIsChained`); confirmatory results
  were registered before there were results (`ResearchIsRegistered`); a synthesis
  is no better than its reports, whatever their order (`SynthesesHold`); a context
  receipt accounts for the context that went out, whatever the plug-ins returned
  (`ContextIsAccounted`).
- `ReleaseIsWitnessed`: a witness that verifies is of the repository as it is;
  its validations ran on the released sources; its archive is of its commit
  (both as far as two looks can tell, which the formulas spell out).
- `InstallIsTransaction`: "installed" means the release alone, pinned;
  "restored" means what was there is there and the next installer accepts it;
  every message that names a copy names one that holds the previous
  marketplace; and without an interruption the profile never points to a copy
  that was dropped, through one failed installation after the other.

Why the bounds are enough. The lock's hazards need a dead owner, a successor and
one more caller that acts on an old verdict: two pids, each reused, give all
three (three pids were checked before the proof made it unnecessary). The
store's need a checkpoint, a compaction and a cut-off save on either side of
both; limits of two and three (the code has 32 and 128, `D` 34-35) put all of
these within three saves, whose sequence numbers are 1, 2 and 3. A criterion's need an attempt that is overtaken, two
workspaces to go from one to the other and back, an executor who is also the
verifier under another spelling. A packet's need a chain and a diamond's half
(three packets) and two checks at different times. A batch's need a death, a
resume and a resume of that, with a job before and one after. A block of one
trial and two attempts (the code has 4 and 5) give an early stop and a retry
that is throttled again. An installer's need a failure that leaves the profile
on a recovery copy and a second one over that. `MaxAttempts`, `MaxSeq`,
`MaxRetained`, `MaxBirth`, `MaxCommands`, `MaxEdits`, `MaxChanges`, `MaxStarts`,
`MaxRuns`, `MaxWrites` and the like bound counters that the code does not; they
stand in guards or in the environment, and no property is about reaching them.
`packets_runners` lets a process die only before its last attempt, so that the
bound is not what keeps a check from ending.

Symmetry is declared for interchangeable model values in `store_files`,
`criteria_*`, `packets_graph`, `artifacts` and `hosts`, never where a run checks
liveness. In `criteria_race` the two spellings are interchangeable, as only
their casefolds are compared.

Deadlock is checked where the system can always go on. It is switched off in
the lock runs (when all pids have died for the last time nothing is left to
do), in `packets_graph` (its checks run out of attempts and nobody edits), and
in `artifacts`, `gc_recent`, `hosts` and `tools`, whose programs end.

### Fairness

`SessionLock!FairSpec` assumes that a running process keeps executing, that the
body of a lock ends, and that time passes (weak fairness of each process's next
step and of the two clocks); dead processes owe nothing. `CallsEnd` needs no
more. `AbandonedLockIsReclaimed` says under which further assumption it holds
(`Persistence`): clients call again, and a file they find again and again is at
some time readable. `Packets!FairSpec` assumes that a process which is not
killed ends (the command it runs returns) and that an owner asks again for an
unfinished check, which is the only way to complete the packet. Nothing is
assumed elsewhere: a criterion whose process died waits for `reopen`, a batch
for an operator.

## Findings

1. **A lock time-out does not mean a live owner** (`lock_timeout`).
   `docs/operations.md:177-178`: "`timed out waiting for state lock` means an
   identified live owner still holds the session". `session_lock` gives up after
   10 seconds (`D` 651) but keeps a file that names no process for 30 (`D` 640),
   so a caller that comes within 20 seconds of a crash between creation and
   identity gets the error with nobody holding the session. It resolves by itself.
2. **A red receipt can name a workspace the test did not fail on**
   (`criteria_red_source`). `references/state-contract.md:63`: "`run-red`: execute a
   regression command that must fail and bind it to the defective source
   fingerprint". The fingerprint is taken after the command (`W` 1976). What
   survives is `ReviewedCycleIsOne`: the two halves of a cycle still name
   different workspaces.
3. **A packet can become impossible to complete** (`packets_retry`).
   `references/work-packets.md:38-42` draws `failed -> retry` within an active
   packet on its way to `completed`. When the edit that repairs one check follows
   another check's pass, the pass is stale: `complete-packet` refuses it (`W` 1840),
   `run-packet-check` refuses to run a passed check (`W` 1728), and
   `reopen-packet` takes completed packets only (`W` 1859).
4. **A session completed a moment ago can be collected** (`gc_recent`).
   `docs/operations.md:535-536`: "recent completed sessions [...] remain protected".
   The age is read before the lock (`S` 409) and the second look under the lock asks
   only whether the status is complete: a session reopened and completed in between
   goes as an old one.

Modelling met further places where parts of the repository disagree, or where a
step loses something. They have no run of their own; each was read in the code,
and the models take the code's side.

*Sessions and packets.* With `ledger.jsonl` deleted from outside, the next save
appends a delta to an empty ledger (`W` 129) and the session no longer loads. A
waiter that opened the guard file before the collector renamed the directory
waits on a guard nobody else uses any more (`D` 538); it finds its directory
gone. Tombstones are not scanned for references while they exist. The compiler
lets through ids such as `a.` and device names, and the owned path `.`, which
`plan-packets` refuses. `verify-bundle` can pair the digest of one file with the
contents of the next. `coordination_report.py:66` reads `depends_on` where packets
say `dependencies`.

*Hooks.* A time-out on the ledger lock drops an edit event, and a torn line
freezes the ledger: both make Stop speak rather than be silent, except that a
hook which never wrote leaves the previous receipt valid for the edit before it.
The fingerprint of the workspace, compared at Stop, is what still catches that.

*Delegation and evaluation.* The planner's read-only `staged-verify` plans are
"degraded" for the runner, which also does not check the order of waves
(`live_ab_runner_core/core.py:1373` against `routing.md:70`); a verifier's result of
the verify phase can never validate (`orchestration_policy.py:1144`). Dependencies on
units completed earlier and writers that overlap across waves are rejected by
the runner though planned. A session that expects one workflow and forbids
another is stopped at the first (`session.py:217`, `evals/README.md:51`). A retry
after throttling reuses the workspace of the throttled attempt, and the quick
filter of `cases.select` drops negative cases its docstring keeps.

*Batch.* An error while cleaning up makes a later resume overwrite validated
evidence as invalid; a crash between `rmtree` and the unlink of
`active-workdir.json` makes every resume raise; one between `mkdir` and the
manifest leaves an output directory no start accepts. The runner takes
`changed_paths` before the clones, so a process that outlives its session makes
the recorded diff differ from the judged tree.

*Evidence.* The recorder copies receipt, provider record and context without
comparing the copies with what it validated (the seals still match the copies).
The QCU normalizer copies a transcript again after validating it. A remote run
that timed out goes on, and a rerun starts a second. A naive expiry time is
accepted by the cache reader and refused by the recorder.

*Memory and protocols.* Two writers lose a record of one; a receipt whose
after-digest was taken after another's write lets `undo` destroy that write; ids
are shared across scopes; when a superseding record expires the old one returns,
and mutual supersession hides both. A review is `verified` on confirmed passes
with empty evidence (finding-contract.md: "Missing, stale, or skipped evidence
is inconclusive, never confirmed"). A planned confirmatory experiment reported
as exploratory counts as reported. Syntheses keep the text of the finding that
came first. A lifecycle fingerprint has no key and does not cover
`transition_approved` and `next_state`.

*Release.* `build_release_manifest` reads the commit once but archives by tag name, so
a tag moved meanwhile gives a manifest that names one commit and holds another,
which `create_witness` accepts. An edit made and taken back while commands run is
not noticed. Witnesses record raw file sizes, so a CRLF checkout looks stale. A
context processor that rewrites an item becomes the receipt's "original".

*Installation.* The rollback recognizes a remote restore only if codex reports
`repository@commit` (`install.sh:745`, as `tests/fixtures/fake_codex_cli.py` does), the verifier
accepts only the plain repository (`verify_installed.py:399`, as
`tests/test_verify_installed.py` does): whichever codex reports, either no installation
verifies or no remote restore is recognized. The tests of the installer stub the
verifier. An interrupt runs the EXIT trap and drops the recovery copy, during the
rollback even one the profile already points to, which the next run then
refuses; `RootsAreThere` is therefore about installers that were not interrupted.

## Proofs

Theorems hold for any values of the constants that satisfy the modules'
assumptions: any number of pids, criteria, packets, sessions, hooks, jobs,
installers, any intervals. Each proof has three parts: an inductive invariant
(in the proof module) that holds initially, is preserved by each action (one
lemma or step per action), and implies the property; PTL combines them.

| Module | Theorems | Invariant and argument |
|---|---|---|
| `SessionLockProofs` | `TypeCorrect`, `HolderOwnsFileAlways`, `Exclusive`, `NothingStolen` | One process is at a guarded step; a creator sees its torn file and a holder its own; a process about to reclaim excludes holders of what it has seen; a verdict that an owner is dead stands, since births only grow. Exclusion alone is not inductive: it needs who may unlink what. |
| `DurableStoreProofs` | `TypeCorrect`, `AlwaysLoads`, `LedgerAlwaysLeads`, `SavesSettle`, `Implements` | The ledger replays, no file is newer than it, and a file with its sequence has its content, edits apart; a writer between two replacements holds the state it appended. Refinement follows from what a load returns before and after each step. |
| `CriteriaProofs` | `TypeCorrect`, `SessionIsSealed`, `CyclesAreOne`, `CompletedStaysFrozen` | Evidence digested by a verifier is part of the criterion and no longer depends on files: what a `verify` or `complete` has read still holds when it saves (`GateKnows`), because the lock keeps the criteria and a digest does not change with its file; that a capture in progress excludes completion follows from the criteria being verified. |
| | `ReceiptsAreOfTheirAttempt`, `ReceiptsAreWrittenOnce`, `ReportMatchesGate` | `AInv`: processes of one criterion are in different attempts, files are of past or running attempts, and a receipt file in the making belongs to one process; a recorded receipt ends its attempt, and a verdict digests the receipt of the criterion. Attempt numbers only grow, so a late process cannot meet its number again. |
| `PacketsProofs` | `TypeCorrect`, `WorkRestsOnCompleted`, `CompleteSessionsAreDone` | Reopening takes back a set closed under dependency, from which no active packet is reachable; a session turns complete only with all packets completed, and the one operation that takes back a packet reactivates it. |
| | `ChecksHaveOneProcess`, `CompletedPacketsAreProven` | `RInv`: nothing runs before a plan, one live process per check and attempt, a passed check has the receipt of its latest attempt with the content it saw; completion compares these contents. |
| | `WavesFindDescendants` | After n waves everything found is a descendant, whatever depends on something found before the last wave is found, and n packets are found while there are new ones (`WaveHolds`): after as many waves as packets nothing is missing. `InductionTo` is over a set of wave numbers, by their least missing one. |
| `ArtifactsProofs`: `StorageGC` | `TypeCorrect`, `HoldersStayInPlace`, `ScannedKeepObjects`, `ActiveSessionsAreKept` | The collector holds the lock of what it is about to rename, in the tombstone too (`CollectorHolds`); directories it found are there until it renames them; objects named by a receipt it saw are present, and what it saw it has written down (`SeenIsNamed`), a half-failed removal included. |
| `Evidence` | `EvidenceAlwaysHolds` | `CopiesShowTheClaim` speaks of sealed evidence only; what makes it true is spread over the steps before: what the normalizer has read is what its receipt will list (`ReadingIsOfListed`), a receipt, in the recorder's hand too, shows what it asks (`ReceiptsAreEarned`), what the recorder has checked and copied is what is there (`CopiesAreOfLoaded`), each unless a file was rewritten in its window. Normalizer and recorder never overlap (`TurnsAreTaken`), so one step disturbs one of these. |
| `LedgerReplay` | `DeltasAreExact`, `HistoryAlwaysRestores` | An operation below a part changes that part and nothing else (`ChangePart`, `OperationUnder`), so the operations of a part, put under its key or index, do in the whole what they do in the part (`DeltaUnder`). Keys that go are gone after the first list of operations and the others untouched (`GoneGo`), keys that stay or come are right after the second (`HereCome`); by depth, every delta leads from its first document to its second (`DeltaLeads`). Then `LedgerIInv`: the ledger leads to the state that was appended, or unless `state.json` was edited to the one that loads; retained lines change nothing (`RecoveredCompacted`); a line names only bundles of this session, and such a bundle at the path restores what it was made of. |
| `HostsProofs`: `EditGate` | `TypeCorrect`, `LedgersAreChained`, `SilenceIsEarned` | At most one process is between reading the tip and appending, and the tip it has read is still last (`TipIsLast`); a Stop that goes on reading has the receipt it judges (`ReadingHasReceipt`). |
| `Installer` | `TransactionHolds` | What codex reports is true (a copy in the profile is one an installer made, with the commit it holds); the copy is made before anything changes and is of what was there (`CopyIsPrevious`); each step knows how many marketplaces there are (`MarketplaceIsOfStep`). An end drops the copy only where nothing in the profile has it, which is what the judgement establishes. |
| `Activation` | `ActivationAlwaysMeasured` | A session that was closed has the row its lines give, and an early one was settled by the lines it had read (`SessionsHold`); places are worked off block by block (`BlocksHold`), blocks are whole pairs, and once a block stops the rest stays untouched. That a settled session cannot change its verdict is a fact about prefixes of its events. |
| `MemoryContext` | `MemoryAlwaysHolds` | Records in the file have different ids, a process that was not raced has seen the file as it is (`Faithful`), and the receipt of a write that was not raced tells what it did (`Exact`); raced processes are marked at the replacement that races them. For retrieval: with different ids the order is total, so ranks are exactly the places up to the number of matching records, and the first of them are given (`SelectedIsCurrent`). |
| `ToolsProofs`: `Batch` | `TypeCorrect`, `JobsAreCalledOnce`, `BundlesAreEarned` | A call has a start record before it (`CallsAreJournaled`), and what a coordinator acts on is the journal as it is (`JournalIsRead`); a runner that outlives its coordinator belongs to a started job; outputs lie where the recorded directory says, and are condensed before they go (`OutputsAreKept`). |
| `LiveRun` | `LiveRunStaysSound` | What was hashed, copied and frozen agrees as far as the run has come (the homes, the frozen plan, the snapshot of the guards), every earlier repetition has both its results in the order drawn, and the result in the making is judged on the tree its session left; the last guard check then says that the roots held that one version. |
| `AgentPlan` | `PlanAlwaysSound` | The plan is the planner's answer to its input, only what it plans is started, only what was started is reported, and outcome and claim rest on that (`IPlan`). The rest is about `Scheduled`: each round adds what is ready up to the capacity, once a round adds nothing no later one does, and in an acyclic plan that happens with everything eligible done; so its layers partition the units, each after what it depends on (`PlansAreSound`). |
| `Rollouts` | `TelemetryAlwaysBound` | What is accepted was bound, and the rows stay what they are (`IRollouts`). That the greedy credit is best (`CreditIsBest`): after the last final answer that got no wait all got one, and at it no earlier wait was left, so any other assignment can be mapped one to one into the credited answers. |
| `PacketPlan` | `PacketPlansAreSound` | Whenever the search of `visit` has met no cycle, what it has visited can be put in an order, each after its dependencies, and what is being visited is none of it (`KeptInOrder`, kept by a visit if visits to its dependencies keep it): at the end that orders the plan. With an order, a visit is only to packets below all being visited, so none is met twice (`VisitPasses`). Both by how deep the search may still go. Two paths overlap exactly when the deeper of them, taken as a file, belongs to both packets (`BetweenIs`). |
| `ReleaseProofs`: `ReleaseWitness` | `ReleaseAlwaysWitnessed` | Repository and tags count their moves. A job that nobody disturbed has seen what is there (`LooksAreCurrent`); a validation disturbed at most once ran everything on one checkout if its first and last look agree (`ValidationHolds`), since one move cannot come back; receipts, manifest and witness keep what was true when they were written. |
| `Lifecycle` | `LifecycleStaysChained` | A transition still called approved was emitted or is a seed, however receipts are edited; a link is emitted before what links to it. |
| `Research` | `ResearchStaysRegistered` | What is reported under a hash was compared with the plan of that hash when it was evaluated. |
| `Syntheses` | `SynthesesAlwaysHold` | Reports gathered one by one give what their set gives (`GroupedIs`, `MergedAllIs`): under each key the lowest or highest level, all evidence and problems, and a refusal exactly when a key is on two axes. So their order cannot matter. Distinct keys make the orders total, and sorting by how many are above gives every item its place (`SortedInOrder`). |
| `ContextPipeline`, `Protocols` | `ContextAlwaysAccounted`, `ProtocolsAlwaysHold` | The loop of the shipped selector: what was chosen are the first items in rank order, each what fitted of it when its turn came; with the separators it is no longer than what was taken from the budget, and once there is no room there is none for any item after it (`ServedSo`). So its answer always passes the checks (`RankedIsValid`), and nothing is served before what ranks above it is served whole (`RankedInRank`). Everybody else's answer is held by the checks alone: a receipt says of each offered item what the checked selection says (`ReceiptSays` in `PipelineIInv`), marks change only the marks. That consumed text is no longer than what went out compares sums over two different sets of places (`SumOfPlaces`, `SumGrows`). |

Assumptions are the named `ASSUME`s, evaluated by TLC in every run: bounds are
naturals (at least 1 where the code starts with one); packets are finitely many; the lines of a session are
a sequence of events; sentinel values differ from what they
stand beside (`DistinctContents`, `NoneIsNoValue` and the others), as `None`
differs from every record in the code. `ReleaseConstants` asks that every commit
has a checkout and every tree a version; which ones is free. `PlanConstants` asks
that inputs are of the planner's schema and `MemoryConstants` that ids, expiry
times and scores are numbers (ids are only compared) and a limit is positive.
`LedgerConstants` asks that the documents of a depth are atoms or made of those
of the depth below, that session states are objects, and that at least one line
is retained. `PacketPlanConstants` asks that plans are sequences of packets.

Induction over numbers is stated over sets instead of predicates: a least number
is missing from a set or none is (`LeastOf`, `InductionTo`), and what is
defined step by step exists (`RecursionTo`). This is how results about loops
(`Scheduled`, `Credit`, `Without`, `Grouped`, the waves of `reopen_packet`,
`StateDelta`, the replay of a ledger, the rounds of the context selector, the search of
`visit`) are proved for any length and depth; the functions of
these modules that are recursive are recursive over a number for this reason.

Type invariants are proved and not run. Model-checked only: liveness (`CallsEnd`,
`AbandonedLockIsReclaimed`, `CheckEnds`), since fairness is out of the prover's
reach. Every other property of a passing run is a theorem.

## Not modelled

`PROJECT.json` lists each component with its status. Left out as a whole: the
mutation probe, resume summaries and reports, the prompt hooks, the MCP server,
integration evaluation, skill routing, the read-only doctor, and benchmarks: each
turns one document into another, or one event into a text, and keeps no state
between two calls. Inside the modelled components: the migration report and the
ledger key; HMAC authentication of ledger events (files change as a whole or not
at all); sessions with criteria and packets at the same time, whose `complete` is
the conjunction of what `Criteria` and `Packets` check; interface version 1 of the
orchestration policy; the construction of fixtures and homes; statistics;
aggregation of release artifacts and the compatibility matrix; two installers at
the same time, and tags that move between two installations.

What is left to do, in order: a `Session` module that composes criteria and packets
under one gate; the compatibility receipts; a larger installation instance with three releases of which two
share a version (the single-installer case of it was explored, without a
violation).
