--------------------------- MODULE ReleaseWitness ---------------------------
(* How a release is witnessed: validate_all.py runs the offline and live     *)
(* commands between two looks at the repository and writes a receipt;        *)
(* build_release_manifest.py archives what a tag names; release_witness.py   *)
(* binds receipts and manifest to the repository it finds, and verifies such *)
(* a witness later.  Each looks at the repository with one git command or    *)
(* one walk of the tree at a time, and nobody stops others from editing,     *)
(* committing and tagging meanwhile.                                         *)
(*                                                                           *)
(* One job runs at a time, and a behaviour goes once through the pipeline:   *)
(* receipts, manifest, witness, verification; an aborted job runs again.     *)
(* Jobs write nothing that another one looks at before it ended.             *)
EXTENDS Naturals, Sequences, FiniteSets, Absence

CONSTANTS
  Commit, Tree, Tag,
  Checkouts,     \* [Commit -> SUBSET Tree]: the trees that git status finds clean there,
                 \* all of one version
  Version,       \* [Tree -> Tag]: "v" followed by the version in plugin.json
  Offline, Live, \* how many commands there are of each category
  MaxMoves, MaxTags, MaxReceipts

\* What a job can know about the repository, once it has looked.
Sight == [head : Commit \cup {None}, clean : BOOLEAN \cup {None}, source : Tree \cup {None},
          version : Tag \cup {None}, tags : (SUBSET Tag) \cup {None}, commit : Commit \cup {None},
          files : Commit \cup {None}, archive : Commit \cup {None}]

ASSUME ReleaseConstants ==
  /\ Checkouts \in [Commit -> SUBSET Tree] /\ \A c \in Commit : Checkouts[c] # {}
  /\ Version \in [Tree -> Tag]
  /\ Offline \in Nat /\ Live \in Nat
  /\ None \notin Sight \cup Commit

VARIABLES
  repo,      \* what HEAD names, the working tree, and the commit of each tag
  moves,     \* how often HEAD or the tree changed, and how often a tag did
  job,       \* the program that runs, or None
  receipts, manifest, witness,   \* what the programs wrote
  answer     \* the last verification

releaseVars == <<repo, moves, job, receipts, manifest, witness, answer>>

\* What a job knows about the repository: None where it has not looked.
Nothing == [head |-> None, clean |-> None, source |-> None, version |-> None, tags |-> None,
            commit |-> None, files |-> None, archive |-> None]

Looks(kind) ==
  CASE kind = "validate" -> <<"head", "clean", "source">>
    [] kind = "manifest" -> <<"commit", "tags", "version", "files", "archive">>
    [] kind = "create" -> <<"version", "head", "clean", "tags", "source">>
    [] kind = "verify" -> <<"version", "tags", "head", "clean", "source">>

TagsAt(commit) == {t \in Tag : repo.tags[t] = commit}

\* The version of the release a manifest is built for is read from the tagged commit, the
\* one of a witness from the working tree.
VersionSeen ==
  IF job.kind = "manifest"
  THEN LET c == repo.tags[job.tag]
       IN IF c = None THEN None ELSE Version[CHOOSE t \in Checkouts[c] : TRUE]
  ELSE Version[repo.tree]

Now(item) ==
  CASE item = "head" -> repo.head
    [] item = "clean" -> repo.tree \in Checkouts[repo.head]
    [] item = "source" -> repo.tree
    [] item = "version" -> VersionSeen
    [] item = "tags" -> TagsAt(IF job.kind = "manifest" THEN job.seen.commit ELSE repo.head)
    [] item \in {"commit", "files", "archive"} -> repo.tags[job.tag]
-----------------------------------------------------------------------------
(* Somebody works on the repository.                                        *)

EditTree ==
  /\ answer = None /\ moves.repo < MaxMoves
  /\ \E t \in Tree \ {repo.tree} : repo' = [repo EXCEPT !.tree = t]
  /\ moves' = [moves EXCEPT !.repo = @ + 1]
  /\ UNCHANGED <<job, receipts, manifest, witness, answer>>

\* A commit of what is there, or a checkout of another one.
MoveHead ==
  /\ answer = None /\ moves.repo < MaxMoves
  /\ \E c \in Commit \ {repo.head} :
       \E t \in Checkouts[c] : repo' = [repo EXCEPT !.head = c, !.tree = t]
  /\ moves' = [moves EXCEPT !.repo = @ + 1]
  /\ UNCHANGED <<job, receipts, manifest, witness, answer>>

Retag ==
  /\ answer = None /\ moves.tags < MaxTags
  /\ \E t \in Tag : \E c \in (Commit \cup {None}) \ {repo.tags[t]} :
       repo' = [repo EXCEPT !.tags[t] = c]
  /\ moves' = [moves EXCEPT !.tags = @ + 1]
  /\ UNCHANGED <<job, receipts, manifest, witness, answer>>
-----------------------------------------------------------------------------
(* Jobs.                                                                    *)

JobOf(kind) ==
  [kind |-> kind, left |-> Looks(kind), seen |-> Nothing, since |-> moves,
   first |-> None, todo |-> <<>>, ran |-> <<>>, tag |-> None]

Commands(category, n) == [i \in 1..n |-> category]

\* --offline, --live with its commands, or both.
ValidateAll ==
  /\ job = None /\ manifest = None /\ witness = None
  /\ Cardinality(receipts) < MaxReceipts
  /\ \E wanted \in (SUBSET {"offline", "live"}) \ {{}} :
       /\ "live" \in wanted => Live > 0
       /\ job' = [JobOf("validate") EXCEPT
                    !.todo = (IF "offline" \in wanted THEN Commands("offline", Offline) ELSE <<>>)
                             \o (IF "live" \in wanted THEN Commands("live", Live) ELSE <<>>)]
  /\ UNCHANGED <<repo, moves, receipts, manifest, witness, answer>>

BuildManifest ==
  /\ job = None /\ manifest = None /\ witness = None
  /\ \E t \in Tag : job' = [JobOf("manifest") EXCEPT !.tag = t]
  /\ UNCHANGED <<repo, moves, receipts, manifest, witness, answer>>

Create ==
  /\ job = None /\ witness = None /\ job' = JobOf("create")
  /\ UNCHANGED <<repo, moves, receipts, manifest, witness, answer>>

Verify ==
  /\ job = None /\ witness # None /\ answer = None
  /\ job' = JobOf("verify")
  /\ UNCHANGED <<repo, moves, receipts, manifest, witness, answer>>

\* One git command, or one walk over the tree.
Look ==
  /\ job # None /\ job.left # <<>>
  /\ LET item == Head(job.left)
     IN job' = [job EXCEPT !.left = Tail(@), !.seen[item] = Now(item)]
  /\ UNCHANGED <<repo, moves, receipts, manifest, witness, answer>>

\* A command passes or fails on what it finds; after the last one validate_all looks again.
RunCommand ==
  /\ job # None /\ job.left = <<>> /\ job.todo # <<>>
  /\ \E passed \in BOOLEAN :
       LET run == [category |-> Head(job.todo), passed |-> passed,
                   head |-> repo.head, tree |-> repo.tree]
           next == [job EXCEPT !.todo = Tail(@), !.ran = Append(@, run)]
       IN job' = IF next.todo = <<>>
                 THEN [next EXCEPT !.first = job.seen, !.seen = Nothing,
                                   !.left = Looks("validate")]
                 ELSE next
  /\ UNCHANGED <<repo, moves, receipts, manifest, witness, answer>>

\* An exception, a failing git command or the death of the process.
Abort ==
  /\ job # None /\ job' = None
  /\ UNCHANGED <<repo, moves, receipts, manifest, witness, answer>>
-----------------------------------------------------------------------------
(* Receipts.                                                                *)

JobEnds(kind) ==
  /\ job # None /\ job.kind = kind /\ job.left = <<>> /\ job.todo = <<>>
  /\ job' = None

Ran(receipt, category) ==
  {i \in DOMAIN receipt.ran : receipt.ran[i].category = category}

AllPassed(receipt, runs) == \A i \in runs : receipt.ran[i].passed

WriteReceipt ==
  /\ JobEnds("validate")
  /\ receipts' = receipts \cup
       {[first |-> job.first, last |-> job.seen, ran |-> job.ran,
         since |-> job.since.repo, until |-> moves.repo]}
  /\ UNCHANGED <<repo, moves, manifest, witness, answer>>

\* identityStable: what was found before the commands was found after them.
Stable(receipt) == receipt.first = receipt.last

LiveValidated(receipt) ==
  /\ Cardinality(Ran(receipt, "live")) = Live
  /\ AllPassed(receipt, Ran(receipt, "live"))

ValidReceipt(receipt, head, source) ==
  /\ receipt.last.head = head
  /\ receipt.last.clean = TRUE
  /\ receipt.last.source = source
  /\ Stable(receipt)
  /\ Cardinality(Ran(receipt, "offline")) = Offline
  /\ AllPassed(receipt, DOMAIN receipt.ran)

\* Built for a tag that alone names its commit and says its version.
WriteManifest ==
  /\ JobEnds("manifest")
  /\ job.seen.tags = {job.tag} /\ job.seen.version = job.tag
  /\ job.seen.commit # None /\ job.seen.files # None /\ job.seen.archive # None
  /\ manifest' = [commit |-> job.seen.commit, tag |-> job.tag, files |-> job.seen.files,
                  archive |-> job.seen.archive, quiet |-> moves.tags = job.since.tags]
  /\ UNCHANGED <<repo, moves, receipts, witness, answer>>
-----------------------------------------------------------------------------
(* Witnesses.                                                               *)

\* Mutant: another tag may stand at HEAD beside the one of the version.
MutTaggedExactly(seen) == seen.version \in seen.tags

\* release_tag_identity: the version's tag is the only one at HEAD.
TaggedExactly(seen) == seen.tags = {seen.version}

Ready(validations) == validations # {}

AllLive(validations) == validations # {} /\ \A r \in validations : LiveValidated(r)

\* With some of the receipts, and with the manifest or without.
WriteWitness ==
  /\ JobEnds("create")
  /\ job.seen.clean = TRUE /\ TaggedExactly(job.seen)
  /\ \E validations \in SUBSET receipts, bound \in {None, manifest} :
       /\ \A r \in validations : ValidReceipt(r, job.seen.head, job.seen.source)
       /\ bound # None => bound.commit = job.seen.head /\ bound.tag = job.seen.version
       /\ witness' = [head |-> job.seen.head, tag |-> job.seen.version,
                      source |-> job.seen.source, validations |-> validations,
                      manifest |-> bound, ready |-> Ready(validations),
                      live |-> AllLive(validations), since |-> job.since]
  /\ UNCHANGED <<repo, moves, receipts, manifest, answer>>

Verified(seen) ==
  LET valid == {r \in witness.validations : ValidReceipt(r, seen.head, seen.source)}
      ready == Ready(witness.validations) /\ valid = witness.validations
  IN /\ TaggedExactly(seen) /\ witness.tag = seen.version
     /\ seen.clean = TRUE /\ witness.head = seen.head
     /\ witness.source = seen.source
     /\ valid = witness.validations
     /\ witness.ready = ready
     /\ witness.live = (ready /\ AllLive(valid))

ReportVerification ==
  /\ JobEnds("verify")
  /\ answer' = [valid |-> Verified(job.seen), witness |-> witness, repo |-> repo,
                quiet |-> moves = job.since, still |-> moves = witness.since]
  /\ UNCHANGED <<repo, moves, receipts, manifest, witness>>

ReleaseInit ==
  /\ \E c \in Commit : \E t \in Checkouts[c] :
       repo = [head |-> c, tree |-> t, tags |-> [v \in Tag |-> IF v = Version[t] THEN c ELSE None]]
  /\ moves = [repo |-> 0, tags |-> 0]
  /\ job = None /\ receipts = {} /\ manifest = None /\ witness = None /\ answer = None

ReleaseNext ==
  \/ EditTree \/ MoveHead \/ Retag
  \/ ValidateAll \/ BuildManifest \/ Create \/ Verify
  \/ Look \/ RunCommand \/ Abort
  \/ WriteReceipt \/ WriteManifest \/ WriteWitness \/ ReportVerification

ReleaseSpec == ReleaseInit /\ [][ReleaseNext]_releaseVars
-----------------------------------------------------------------------------
(* Properties.                                                              *)

\* A witness that a quiet verification finds ready is one of the repository as it is: clean,
\* at the witnessed commit and sources, and tagged with their version alone.
WitnessIsCurrent ==
  answer # None /\ answer.valid /\ answer.quiet =>
    LET w == answer.witness
    IN /\ answer.repo.head = w.head
       /\ answer.repo.tree = w.source
       /\ w.source \in Checkouts[w.head]
       /\ {t \in Tag : answer.repo.tags[t] = w.head} = {Version[w.source]}
       /\ w.tag = Version[w.source]

\* Every validation in it ran all offline commands, and they passed on the released sources,
\* unless somebody both left and returned to them while they ran: two looks cannot see that.
ReleaseIsValidated ==
  answer # None /\ answer.valid /\ answer.witness.ready =>
    /\ answer.witness.validations # {}
    /\ \A r \in answer.witness.validations :
         /\ Cardinality(Ran(r, "offline")) = Offline
         /\ \A i \in DOMAIN r.ran :
              /\ r.ran[i].passed
              /\ r.until - r.since <= 1 =>
                   /\ r.ran[i].head = answer.witness.head
                   /\ r.ran[i].tree = answer.witness.source

\* The archive and the file list of a bound manifest are those of the witnessed commit, unless
\* a tag moved while it was built.
ArchiveIsOfRelease ==
  witness # None /\ witness.manifest # None /\ witness.manifest.quiet =>
    /\ witness.manifest.archive = witness.head
    /\ witness.manifest.files = witness.head

\* A witness of a repository nobody touched since is not found stale.
GoodWitnessVerifies == answer # None /\ answer.still => answer.valid

ReleaseIsWitnessed ==
  WitnessIsCurrent /\ ReleaseIsValidated /\ ArchiveIsOfRelease /\ GoodWitnessVerifies
=============================================================================
