---------------------------- MODULE ReleaseProofs ----------------------------
(* Theorems about how a release is witnessed, and about what the protocols of *)
(* the skills promise: the lifecycle of capabilities and of research, what is *)
(* made of the reports of several agents, and how context is selected.        *)
EXTENDS ReleaseWitness, Protocols, FiniteSetTheorems, SequenceTheorems,
        WellFoundedInduction, TLAPS

-----------------------------------------------------------------------------
(* Theorems about ReleaseWitness, for any commits, trees and tags, and any  *)
(* number of commands. Looks are compared with the repository they were     *)
(* made of, through how often that has changed since.                       *)

Items == {"head", "clean", "source", "version", "tags", "commit", "files", "archive"}
Jobs == {"validate", "manifest", "create", "verify"}
Categories == {"offline", "live"}
Moves == [repo : Nat, tags : Nat]
ARun == [category : Categories, passed : BOOLEAN, head : Commit, tree : Tree]
AJob == [kind : Jobs, left : Seq(Items), seen : Sight, since : Moves, first : Sight \cup {None},
         todo : Seq(Categories), ran : Seq(ARun), tag : Tag \cup {None}]

\* A job has looked at an item when it is no longer among those left.
Left(seq) == {seq[i] : i \in DOMAIN seq}
HasSeen(item) == item \notin Left(job.left)

\* The types; only a validation has commands, and looks before them and after them.
ReleaseTyped ==
  /\ repo \in [head : Commit, tree : Tree, tags : [Tag -> Commit \cup {None}]]
  /\ moves \in Moves
  /\ job # None =>
       /\ job \in AJob
       /\ job.since.repo <= moves.repo /\ job.since.tags <= moves.tags
       /\ job.kind # "validate" => job.todo = <<>>
       /\ IF job.kind = "manifest" THEN job.tag \in Tag
          ELSE \A item \in {"commit", "files", "archive"} : HasSeen(item)

Undisturbed(since) == moves = since

\* A witness and its verification have seen the repository as it is, while nobody touched it.
LooksAreCurrent ==
  job # None /\ job.kind \in {"create", "verify"} /\ Undisturbed(job.since) =>
    /\ HasSeen("version") => job.seen.version = Version[repo.tree]
    /\ HasSeen("head") => job.seen.head = repo.head
    /\ HasSeen("clean") => job.seen.clean = (repo.tree \in Checkouts[repo.head])
    /\ HasSeen("tags") => job.seen.tags = {t \in Tag : repo.tags[t] = repo.head}
    /\ HasSeen("source") => job.seen.source = repo.tree

\* What a validation's last look says, or will say if nobody moves.
LastHead == IF HasSeen("head") THEN job.seen.head ELSE repo.head
LastTree == IF HasSeen("source") THEN job.seen.source ELSE repo.tree

AllRan(ran, head, tree) == \A i \in DOMAIN ran : ran[i].head = head /\ ran[i].tree = tree

\* The commands ran on what the first look found, if the repository moved at most once and
\* the last look finds it again.
ValidationHolds ==
  job # None /\ job.kind = "validate" /\ moves.repo - job.since.repo <= 1 =>
    /\ job.first = None /\ job.left # <<>> => job.ran = <<>>
    /\ job.first = None /\ job.left = <<>> =>
         /\ job.seen.head = repo.head /\ job.seen.source = repo.tree =>
              AllRan(job.ran, repo.head, repo.tree)
         /\ moves.repo = job.since.repo => job.seen.head = repo.head /\ job.seen.source = repo.tree
    /\ job.first # None =>
         /\ job.todo = <<>>
         /\ job.first.head = LastHead /\ job.first.source = LastTree =>
              AllRan(job.ran, LastHead, LastTree)
    /\ moves.repo = job.since.repo =>
         /\ LastHead = repo.head /\ LastTree = repo.tree
         /\ AllRan(job.ran, repo.head, repo.tree)
         /\ job.first # None => job.first.head = repo.head /\ job.first.source = repo.tree

\* The receipts say so of their commands.
ReceiptHolds(r) ==
  r.until - r.since <= 1 /\ Stable(r) => AllRan(r.ran, r.last.head, r.last.source)

ReceiptsHold == \A r \in receipts : ReceiptHolds(r)

\* A manifest is of the commit its tag names, unless tags moved while it was built.
ManifestHolds ==
  /\ job # None /\ job.kind = "manifest" /\ moves.tags = job.since.tags =>
       \A item \in {"commit", "files", "archive"} :
         HasSeen(item) => job.seen[item] = repo.tags[job.tag]
  /\ manifest # None /\ manifest.quiet =>
       manifest.archive = manifest.commit /\ manifest.files = manifest.commit

\* A witness has receipts that are valid for it, and describes the repository for as long
\* as nobody touches that.
WitnessHolds ==
  witness # None =>
    /\ witness.validations \subseteq receipts
    /\ \A r \in witness.validations : ValidReceipt(r, witness.head, witness.source)
    /\ witness.ready = Ready(witness.validations) /\ witness.live = AllLive(witness.validations)
    /\ witness.since \in Moves
    /\ witness.since.repo <= moves.repo /\ witness.since.tags <= moves.tags
    /\ Undisturbed(witness.since) =>
         /\ witness.head = repo.head /\ witness.source = repo.tree
         /\ repo.tree \in Checkouts[repo.head] /\ witness.tag = Version[repo.tree]
         /\ {t \in Tag : repo.tags[t] = repo.head} = {witness.tag}

\* A verification is of the witness there is, and begins after it was made.
VerifyFollows ==
  job # None /\ job.kind = "verify" =>
    /\ witness # None
    /\ witness.since.repo <= job.since.repo /\ witness.since.tags <= job.since.tags

ReleaseIInv == ReleaseTyped /\ LooksAreCurrent /\ ValidationHolds /\ ReceiptsHold /\ ManifestHolds
               /\ WitnessHolds /\ VerifyFollows /\ ReleaseIsWitnessed

-----------------------------------------------------------------------------
(* What is left after a look.                                               *)

\* An item a job has not still to look at after a look is the one it looked at, or one it
\* had looked at before.
LEMMA LeftAfterLook ==
  ASSUME NEW s \in Seq(Items), s # <<>>, NEW x \in Items, x \notin Left(Tail(s)), x # Head(s)
  PROVE  x \notin Left(s)
<1> SUFFICES ASSUME x \in Left(s) PROVE FALSE
  OBVIOUS
<1>1. PICK i \in DOMAIN s : s[i] = x
  BY DEF Left
<1>2. i # 1
  BY <1>1
<1>3. i - 1 \in DOMAIN Tail(s) /\ Tail(s)[i - 1] = x
  BY <1>1, <1>2
<1>. QED BY <1>3 DEF Left

\* Nothing is left of no items.
LEMMA NothingLeft == Left(<<>>) = {}
  BY DEF Left

\* What each kind of job has to look at.
LEMMA LeftAtFirst ==
  /\ \A x \in {"head", "clean", "source"} : x \in Left(Looks("validate"))
  /\ \A x \in {"commit", "files", "archive"} : x \in Left(Looks("manifest"))
  /\ \A kind \in {"create", "verify"} :
       \A x \in {"version", "head", "clean", "tags", "source"} : x \in Left(Looks(kind))
<1>1. <<"head", "clean", "source">>[1] = "head" /\ <<"head", "clean", "source">>[2] = "clean"
      /\ <<"head", "clean", "source">>[3] = "source"
      /\ DOMAIN <<"head", "clean", "source">> = 1..3
  OBVIOUS
<1>2. \A x \in {"head", "clean", "source"} : x \in Left(Looks("validate"))
  BY <1>1 DEF Left, Looks
<1>3. \A x \in {"commit", "files", "archive"} : x \in Left(Looks("manifest"))
  <2> DEFINE s == <<"commit", "tags", "version", "files", "archive">>
  <2>1. s[1] = "commit" /\ s[4] = "files" /\ s[5] = "archive" /\ DOMAIN s = 1..5
    OBVIOUS
  <2>2. Looks("manifest") = s
    BY DEF Looks
  <2>. QED BY <2>1, <2>2 DEF Left
<1>4. \A x \in {"version", "head", "clean", "tags", "source"} : x \in Left(Looks("create"))
  <2> DEFINE s == <<"version", "head", "clean", "tags", "source">>
  <2>1. s[1] = "version" /\ s[2] = "head" /\ s[3] = "clean" /\ s[4] = "tags" /\ s[5] = "source"
        /\ DOMAIN s = 1..5
    OBVIOUS
  <2>2. Looks("create") = s
    BY DEF Looks
  <2>. QED BY <2>1, <2>2 DEF Left
<1>5. \A x \in {"version", "head", "clean", "tags", "source"} : x \in Left(Looks("verify"))
  <2> DEFINE s == <<"version", "tags", "head", "clean", "source">>
  <2>1. s[1] = "version" /\ s[2] = "tags" /\ s[3] = "head" /\ s[4] = "clean" /\ s[5] = "source"
        /\ DOMAIN s = 1..5
    OBVIOUS
  <2>2. Looks("verify") = s
    BY DEF Looks
  <2>. QED BY <2>1, <2>2 DEF Left
<1>. QED BY <1>2, <1>3, <1>4, <1>5
-----------------------------------------------------------------------------
(* Types.                                                                   *)

\* A new job is a job, with every look ahead of it.
LEMMA JobsAreTyped ==
  ASSUME ReleaseTyped, NEW kind \in Jobs
  PROVE  /\ JobOf(kind) \in AJob
         /\ JobOf(kind).since = moves /\ JobOf(kind).todo = <<>> /\ JobOf(kind).ran = <<>>
         /\ JobOf(kind).kind = kind /\ JobOf(kind).left = Looks(kind)
         /\ JobOf(kind).first = None
<1>1. Looks(kind) \in Seq(Items)
  <2>1. CASE kind = "validate"
    BY <2>1 DEF Looks, Items
  <2>2. CASE kind = "manifest"
    BY <2>2 DEF Looks, Items
  <2>3. CASE kind = "create"
    BY <2>3 DEF Looks, Items
  <2>4. CASE kind = "verify"
    BY <2>4 DEF Looks, Items
  <2>. QED BY <2>1, <2>2, <2>3, <2>4 DEF Jobs
<1>2. Nothing \in Sight
  <2> DEFINE C == Commit \cup {None}
             B == BOOLEAN \cup {None}
             S == Tree \cup {None}
             V == Tag \cup {None}
             T == (SUBSET Tag) \cup {None}
  <2>1. None \in C /\ None \in S /\ None \in V
    OBVIOUS
  <2>3. None \in B
    OBVIOUS
  <2>4. None \in T
    OBVIOUS
  <2>2. Sight = [head : C, clean : B, source : S, version : V, tags : T, commit : C,
                 files : C, archive : C]
    BY DEF Sight
  <2> HIDE DEF C, B, S, V, T
  <2>. QED BY <2>1, <2>2, <2>3, <2>4 DEF Nothing
<1>3. moves \in Moves
  BY DEF ReleaseTyped
<1>4. <<>> \in Seq(Categories) /\ <<>> \in Seq(ARun)
  OBVIOUS
<1>. QED BY <1>1, <1>2, <1>3, <1>4 DEF JobOf, AJob

\* A look finds something that a job can know.
LEMMA LooksAreTyped ==
  ASSUME ReleaseTyped, job # None, job.left # <<>>, NEW item, item = Head(job.left)
  PROVE  /\ item \in Items
         /\ [job.seen EXCEPT ![item] = Now(item)] \in Sight
         /\ [job.seen EXCEPT ![item] = Now(item)][item] = Now(item)
         /\ \A x \in Items : x # item =>
               [job.seen EXCEPT ![item] = Now(item)][x] = job.seen[x]
<1>1. job.left \in Seq(Items) /\ job.seen \in Sight /\ job.kind \in Jobs
      /\ job.tag \in Tag \cup {None}
  BY DEF ReleaseTyped, AJob
<1>2. item \in Items
  BY <1>1
<1>3. repo.head \in Commit /\ repo.tree \in Tree /\ repo.tags \in [Tag -> Commit \cup {None}]
  BY DEF ReleaseTyped
<1>4. item \in {"head", "clean", "source", "version", "tags", "commit", "files", "archive"}
  BY <1>2 DEF Items
<1>5. CASE item = "head"
  <2>1. Now(item) = repo.head
    BY <1>5 DEF Now
  <2>. QED BY <1>1, <1>3, <1>5, <2>1 DEF Sight, Items
<1>6. CASE item = "clean"
  <2>1. Now(item) = (repo.tree \in Checkouts[repo.head])
    BY <1>6, Zenon DEF Now
  <2> DEFINE B == BOOLEAN \cup {None}
  <2>4. Now(item) = TRUE \/ Now(item) = FALSE
    BY <2>1
  <2>2. Now(item) \in B
    BY <2>4
  <2>3. Sight = [head : Commit \cup {None}, clean : B, source : Tree \cup {None},
                 version : Tag \cup {None}, tags : (SUBSET Tag) \cup {None},
                 commit : Commit \cup {None}, files : Commit \cup {None},
                 archive : Commit \cup {None}]
    BY DEF Sight
  <2> HIDE DEF B
  <2>. QED BY <1>1, <1>6, <2>2, <2>3 DEF Items
<1>7. CASE item = "source"
  <2>1. Now(item) = repo.tree
    BY <1>7 DEF Now
  <2>. QED BY <1>1, <1>3, <1>7, <2>1 DEF Sight, Items
<1>8. CASE item = "version"
  <2>1. Now(item) \in Tag \cup {None}
    BY <1>1, <1>3, <1>8, ReleaseConstants DEF Now, VersionSeen, ReleaseTyped
  <2>. QED BY <1>1, <1>3, <1>8, <2>1 DEF Sight, Items
<1>9. CASE item = "tags"
  <2>1. Now(item) \in SUBSET Tag
    BY <1>9 DEF Now, TagsAt
  <2>. QED BY <1>1, <1>3, <1>9, <2>1 DEF Sight, Items
<1>10. CASE item \in {"commit", "files", "archive"}
  <2>1. job.kind = "manifest" /\ job.tag \in Tag
    <3>1. Head(job.left) \in Left(job.left)
      BY <1>1 DEF Left
    <3>. QED BY <3>1, <1>10 DEF ReleaseTyped, HasSeen
  <2>2. Now(item) \in Commit \cup {None}
    BY <1>1, <1>3, <1>10, <2>1 DEF Now
  <2>. QED BY <1>1, <1>3, <1>10, <2>2 DEF Sight, Items
<1>. QED BY <1>2, <1>4, <1>5, <1>6, <1>7, <1>8, <1>9, <1>10

\* How a look changes its job.
LEMMA LookSees ==
  ASSUME ReleaseTyped, Look
  PROVE  /\ job' # None => job' \in AJob
         /\ job.left # <<>> /\ Head(job.left) \in Items
         /\ job'.left = Tail(job.left)
         /\ job'.seen[Head(job.left)] = Now(Head(job.left))
         /\ \A x \in Items : x # Head(job.left) => job'.seen[x] = job.seen[x]
         /\ job'.kind = job.kind /\ job'.since = job.since /\ job'.first = job.first
         /\ job'.todo = job.todo /\ job'.ran = job.ran /\ job'.tag = job.tag
         /\ ~HasSeen(Head(job.left))
         /\ \A x \in Items : HasSeen(x) => x \notin Left(job'.left)
         /\ \A x \in Items : x \notin Left(job'.left) /\ x # Head(job.left) => HasSeen(x)
<1> DEFINE item == Head(job.left)
<1>1. job # None /\ job.left # <<>> /\ job \in AJob
  BY DEF Look, ReleaseTyped
<1>2. job.left \in Seq(Items)
  BY <1>1 DEF AJob
<1>3. /\ item \in Items
      /\ [job.seen EXCEPT ![item] = Now(item)] \in Sight
      /\ [job.seen EXCEPT ![item] = Now(item)][item] = Now(item)
      /\ \A x \in Items : x # item => [job.seen EXCEPT ![item] = Now(item)][x] = job.seen[x]
  BY <1>1, LooksAreTyped
<1>4. job' = [job EXCEPT !.left = Tail(job.left), !.seen = [job.seen EXCEPT ![item] = Now(item)]]
  BY DEF Look
<1>5. Tail(job.left) \in Seq(Items)
  BY <1>1, <1>2
<1> HIDE DEF item
<1>6. job' \in AJob /\ job'.left = Tail(job.left)
      /\ job'.seen = [job.seen EXCEPT ![item] = Now(item)]
      /\ job'.kind = job.kind /\ job'.since = job.since /\ job'.first = job.first
      /\ job'.todo = job.todo /\ job'.ran = job.ran /\ job'.tag = job.tag
  BY <1>1, <1>3, <1>4, <1>5 DEF AJob
<1>7. \A x \in Items : x \notin Left(job'.left) /\ x # item => HasSeen(x)
  BY <1>1, <1>2, <1>6, LeftAfterLook DEF HasSeen, item
<1>8. Left(Tail(job.left)) \subseteq Left(job.left)
  <2>1. ASSUME NEW i \in DOMAIN Tail(job.left)
        PROVE  i + 1 \in DOMAIN job.left /\ Tail(job.left)[i] = job.left[i + 1]
    BY <1>1, <1>2
  <2>. QED BY <2>1 DEF Left
<1>9. item \in Left(job.left)
  BY <1>1, <1>2 DEF Left, item
<1>10. ~HasSeen(item) /\ \A x \in Items : HasSeen(x) => x \notin Left(job'.left)
  BY <1>6, <1>8, <1>9 DEF HasSeen
<1>. QED BY <1>1, <1>3, <1>6, <1>7, <1>10 DEF item

\* How a command changes its job: the last one makes it look again.
LEMMA CommandRuns ==
  ASSUME ReleaseTyped, RunCommand
  PROVE  /\ job' \in AJob
         /\ job.kind = "validate" /\ job.left = <<>> /\ job.todo # <<>>
         /\ job'.todo = Tail(job.todo) /\ job'.kind = job.kind /\ job'.since = job.since
         /\ job'.tag = job.tag
         /\ \E run \in ARun : /\ job'.ran = Append(job.ran, run)
                              /\ run.head = repo.head /\ run.tree = repo.tree
         /\ IF job'.todo = <<>>
            THEN job'.first = job.seen /\ job'.seen = Nothing /\ job'.left = Looks("validate")
            ELSE job'.first = job.first /\ job'.seen = job.seen /\ job'.left = <<>>
<1>1. job \in AJob /\ job # None /\ job.left = <<>> /\ job.todo # <<>> /\ job.kind = "validate"
  BY DEF RunCommand, ReleaseTyped
<1>2. job.todo \in Seq(Categories) /\ job.ran \in Seq(ARun) /\ job.seen \in Sight
  BY <1>1 DEF AJob
<1>3. repo.head \in Commit /\ repo.tree \in Tree
  BY DEF ReleaseTyped
<1>4. PICK passed \in BOOLEAN :
        LET run == [category |-> Head(job.todo), passed |-> passed,
                    head |-> repo.head, tree |-> repo.tree]
            next == [job EXCEPT !.todo = Tail(@), !.ran = Append(@, run)]
        IN job' = IF next.todo = <<>>
                  THEN [next EXCEPT !.first = job.seen, !.seen = Nothing,
                                    !.left = Looks("validate")]
                  ELSE next
  BY DEF RunCommand
<1> DEFINE run == [category |-> Head(job.todo), passed |-> passed,
                   head |-> repo.head, tree |-> repo.tree]
           next == [job EXCEPT !.todo = Tail(job.todo), !.ran = Append(job.ran, run)]
<1>5. run \in ARun /\ run.head = repo.head /\ run.tree = repo.tree
  <2>1. Head(job.todo) \in Categories
    BY <1>1, <1>2
  <2>. QED BY <1>3, <2>1 DEF ARun
<1>6. job' = IF next.todo = <<>>
             THEN [next EXCEPT !.first = job.seen, !.seen = Nothing, !.left = Looks("validate")]
             ELSE next
  BY <1>4
<1>7. Tail(job.todo) \in Seq(Categories) /\ Append(job.ran, run) \in Seq(ARun)
  BY <1>1, <1>2, <1>5
<1> HIDE DEF run
<1>8. next \in AJob /\ next.todo = Tail(job.todo) /\ next.ran = Append(job.ran, run)
      /\ next.kind = job.kind /\ next.since = job.since /\ next.first = job.first
      /\ next.seen = job.seen /\ next.left = <<>> /\ next.tag = job.tag
  BY <1>1, <1>7 DEF AJob
<1> HIDE DEF next
<1>9. Nothing \in Sight /\ Looks("validate") \in Seq(Items)
  BY JobsAreTyped DEF Jobs, AJob, JobOf
<1>10. CASE next.todo = <<>>
  <2>1. job' = [next EXCEPT !.first = job.seen, !.seen = Nothing, !.left = Looks("validate")]
    BY <1>6, <1>10
  <2>2. job' \in AJob /\ job'.todo = next.todo /\ job'.ran = next.ran /\ job'.kind = next.kind
        /\ job'.since = next.since /\ job'.first = job.seen /\ job'.seen = Nothing
        /\ job'.left = Looks("validate") /\ job'.tag = next.tag
    BY <1>2, <1>8, <1>9, <2>1 DEF AJob
  <2>. QED BY <1>1, <1>5, <1>8, <1>10, <2>2
<1>11. CASE next.todo # <<>>
  BY <1>1, <1>5, <1>6, <1>8, <1>11
<1>. QED BY <1>10, <1>11

\* What the job starts with.
LEMMA ValidationStarts ==
  ASSUME ReleaseTyped, ValidateAll
  PROVE  /\ job' \in AJob /\ job'.kind = "validate" /\ job'.since = moves
         /\ job'.left = Looks("validate") /\ job'.ran = <<>> /\ job'.first = None
<1>1. PICK wanted \in (SUBSET {"offline", "live"}) \ {{}} :
        job' = [JobOf("validate") EXCEPT
                  !.todo = (IF "offline" \in wanted THEN Commands("offline", Offline) ELSE <<>>)
                           \o (IF "live" \in wanted THEN Commands("live", Live) ELSE <<>>)]
  BY DEF ValidateAll
<1> DEFINE a == IF "offline" \in wanted THEN Commands("offline", Offline) ELSE <<>>
           b == IF "live" \in wanted THEN Commands("live", Live) ELSE <<>>
<1>2. Commands("offline", Offline) \in Seq(Categories) /\ Commands("live", Live) \in Seq(Categories)
  BY ReleaseConstants DEF Commands, Categories
<1>3. a \in Seq(Categories) /\ b \in Seq(Categories)
  BY <1>2
<1>4. a \o b \in Seq(Categories)
  BY <1>3
<1>5. job' = [JobOf("validate") EXCEPT !.todo = a \o b]
  BY <1>1
<1> HIDE DEF a, b
<1>6. /\ JobOf("validate") \in AJob
      /\ JobOf("validate").since = moves /\ JobOf("validate").ran = <<>>
      /\ JobOf("validate").kind = "validate" /\ JobOf("validate").left = Looks("validate")
      /\ JobOf("validate").first = None
  BY JobsAreTyped DEF Jobs
<1>. QED BY <1>4, <1>5, <1>6 DEF AJob

\* Only a manifest looks at what a tag names.
LEMMA TagsAreForManifests ==
  ASSUME NEW kind \in Jobs, kind # "manifest", NEW x \in {"commit", "files", "archive"}
  PROVE  x \notin Left(Looks(kind))
<1>1. CASE kind = "validate"
  BY <1>1 DEF Looks, Left
<1>2. CASE kind = "create"
  BY <1>2 DEF Looks, Left
<1>3. CASE kind = "verify"
  BY <1>3 DEF Looks, Left
<1>. QED BY <1>1, <1>2, <1>3 DEF Jobs

\* Types are kept.
LEMMA ReleaseTypes ==
  ASSUME ReleaseTyped, [ReleaseNext]_releaseVars
  PROVE  ReleaseTyped'
<1> DEFINE TypedJob ==
      job # None =>
        /\ job \in AJob
        /\ job.since.repo <= moves.repo /\ job.since.tags <= moves.tags
        /\ job.kind # "validate" => job.todo = <<>>
        /\ IF job.kind = "manifest" THEN job.tag \in Tag
           ELSE \A item \in {"commit", "files", "archive"} : HasSeen(item)
<1>1. repo \in [head : Commit, tree : Tree, tags : [Tag -> Commit \cup {None}]] /\ moves \in Moves
      /\ moves.repo \in Nat /\ moves.tags \in Nat
  BY DEF ReleaseTyped, Moves
<1>2. TypedJob
  BY DEF ReleaseTyped
<1>3. job # None => job.since \in Moves /\ job.since.repo \in Nat /\ job.since.tags \in Nat
  BY <1>2 DEF AJob, Moves
<1>4. ASSUME job' = job, moves' \in Moves, moves'.repo >= moves.repo, moves'.tags >= moves.tags
      PROVE  TypedJob'
  <2>1. job' # None => job'.since.repo <= moves'.repo /\ job'.since.tags <= moves'.tags
    BY <1>1, <1>2, <1>3, <1>4 DEF Moves
  <2>. QED BY <1>2, <1>4, <2>1 DEF HasSeen
<1>5. ASSUME NEW kind \in Jobs, job' = JobOf(kind), kind # "manifest", moves' = moves
      PROVE  TypedJob'
  <2>1. JobOf(kind) \in AJob /\ JobOf(kind).since = moves /\ JobOf(kind).todo = <<>>
        /\ JobOf(kind).kind = kind /\ JobOf(kind).left = Looks(kind)
    BY JobsAreTyped
  <2>. QED BY <1>1, <1>5, <2>1, TagsAreForManifests DEF HasSeen
<1>6. CASE EditTree
  <2>1. PICK t \in Tree : repo' = [repo EXCEPT !.tree = t]
    BY <1>6 DEF EditTree
  <2>2. moves' = [moves EXCEPT !.repo = @ + 1] /\ job' = job
    BY <1>6 DEF EditTree
  <2>3. moves' \in Moves /\ moves'.repo >= moves.repo /\ moves'.tags >= moves.tags
    BY <1>1, <2>2 DEF Moves
  <2>4. TypedJob'
    BY <1>4, <2>2, <2>3
  <2>. QED BY <1>1, <2>1, <2>3, <2>4 DEF ReleaseTyped
<1>7. CASE MoveHead
  <2>5. PICK c \in Commit : \E t \in Checkouts[c] : repo' = [repo EXCEPT !.head = c, !.tree = t]
    BY <1>7 DEF MoveHead
  <2>1. PICK t \in Checkouts[c] : repo' = [repo EXCEPT !.head = c, !.tree = t]
    BY <2>5
  <2>2. moves' = [moves EXCEPT !.repo = @ + 1] /\ job' = job
    BY <1>7 DEF MoveHead
  <2>3. moves' \in Moves /\ moves'.repo >= moves.repo /\ moves'.tags >= moves.tags
    BY <1>1, <2>2 DEF Moves
  <2>4. TypedJob'
    BY <1>4, <2>2, <2>3
  <2>. QED BY <1>1, <2>1, <2>3, <2>4, ReleaseConstants DEF ReleaseTyped
<1>8. CASE Retag
  <2>1. PICK v \in Tag, c \in Commit \cup {None} : repo' = [repo EXCEPT !.tags[v] = c]
    BY <1>8 DEF Retag
  <2>2. moves' = [moves EXCEPT !.tags = @ + 1] /\ job' = job
    BY <1>8 DEF Retag
  <2>3. moves' \in Moves /\ moves'.repo >= moves.repo /\ moves'.tags >= moves.tags
    BY <1>1, <2>2 DEF Moves
  <2>4. TypedJob'
    BY <1>4, <2>2, <2>3
  <2>. QED BY <1>1, <2>1, <2>3, <2>4 DEF ReleaseTyped
<1>9. CASE ValidateAll
  <2>1. repo' = repo /\ moves' = moves
    BY <1>9 DEF ValidateAll
  <2>2. TypedJob'
    BY <1>1, <1>9, <2>1, ValidationStarts, TagsAreForManifests DEF HasSeen, Jobs
  <2>. QED BY <1>1, <2>1, <2>2 DEF ReleaseTyped
<1>10. CASE BuildManifest
  <2>1. PICK t \in Tag : job' = [JobOf("manifest") EXCEPT !.tag = t]
    BY <1>10 DEF BuildManifest
  <2>2. repo' = repo /\ moves' = moves
    BY <1>10 DEF BuildManifest
  <2>3. JobOf("manifest") \in AJob /\ JobOf("manifest").since = moves
        /\ JobOf("manifest").todo = <<>> /\ JobOf("manifest").kind = "manifest"
    BY JobsAreTyped DEF Jobs
  <2>4. job' \in AJob /\ job'.since = moves /\ job'.todo = <<>> /\ job'.kind = "manifest"
        /\ job'.tag = t
    BY <2>1, <2>3 DEF AJob
  <2>5. TypedJob'
    BY <1>1, <2>2, <2>4
  <2>. QED BY <1>1, <2>2, <2>5 DEF ReleaseTyped
<1>11. CASE Create
  <2>1. repo' = repo /\ moves' = moves /\ job' = JobOf("create")
    BY <1>11 DEF Create
  <2>2. TypedJob'
    BY <1>5, <2>1 DEF Jobs
  <2>. QED BY <1>1, <2>1, <2>2 DEF ReleaseTyped
<1>12. CASE Verify
  <2>1. repo' = repo /\ moves' = moves /\ job' = JobOf("verify")
    BY <1>12 DEF Verify
  <2>2. TypedJob'
    BY <1>5, <2>1 DEF Jobs
  <2>. QED BY <1>1, <2>1, <2>2 DEF ReleaseTyped
<1>13. CASE Look
  <2>1. repo' = repo /\ moves' = moves /\ job # None
    BY <1>13 DEF Look
  <2>2. /\ job' # None => job' \in AJob
        /\ job'.kind = job.kind /\ job'.since = job.since /\ job'.todo = job.todo
        /\ job'.tag = job.tag /\ job.left # <<>>
        /\ job'.left = Tail(job.left)
    BY <1>13, LookSees
  <2>3. \A x \in Items : HasSeen(x) => x \notin Left(job'.left)
    BY <1>13, LookSees
  <2>4. TypedJob'
    BY <1>2, <2>1, <2>2, <2>3 DEF HasSeen, Items
  <2>. QED BY <1>1, <2>1, <2>4 DEF ReleaseTyped
<1>14. CASE RunCommand
  <2>1. repo' = repo /\ moves' = moves /\ job # None
    BY <1>14 DEF RunCommand
  <2>2. job'.left = Looks("validate") \/ job'.left = <<>>
    BY <1>14, CommandRuns
  <2>3. job' \in AJob /\ job'.kind = "validate" /\ job'.since = job.since
    BY <1>14, CommandRuns
  <2>4. \A x \in {"commit", "files", "archive"} : x \notin Left(job'.left)
    BY <2>2, NothingLeft, TagsAreForManifests DEF Jobs
  <2>5. TypedJob'
    BY <1>2, <2>1, <2>3, <2>4 DEF HasSeen
  <2>. QED BY <1>1, <2>1, <2>5 DEF ReleaseTyped
<1>15. CASE job' = None /\ UNCHANGED <<repo, moves>>
  BY <1>1, <1>15 DEF ReleaseTyped
<1>16. CASE UNCHANGED releaseVars
  BY <1>16 DEF releaseVars, ReleaseTyped, HasSeen
<1>17. Abort \/ WriteReceipt \/ WriteManifest \/ WriteWitness \/ ReportVerification
       => job' = None /\ UNCHANGED <<repo, moves>>
  BY DEF Abort, WriteReceipt, WriteManifest, WriteWitness, ReportVerification, JobEnds
<1>. QED
  BY <1>6, <1>7, <1>8, <1>9, <1>10, <1>11, <1>12, <1>13, <1>14, <1>15, <1>16, <1>17
  DEF ReleaseNext

\* Who edits, commits or tags leaves the programs and their files alone, and is counted.
LEMMA MovesAreCounted ==
  ASSUME ReleaseTyped, EditTree \/ MoveHead \/ Retag
  PROVE  /\ job' = job /\ receipts' = receipts /\ manifest' = manifest /\ witness' = witness
         /\ answer' = answer /\ answer = None
         /\ moves' \in Moves
         /\ \/ moves'.repo = moves.repo + 1 /\ moves'.tags = moves.tags /\ repo'.tags = repo.tags
            \/ /\ moves'.repo = moves.repo /\ moves'.tags = moves.tags + 1
               /\ repo'.head = repo.head /\ repo'.tree = repo.tree
<1>1. repo \in [head : Commit, tree : Tree, tags : [Tag -> Commit \cup {None}]] /\ moves \in Moves
      /\ moves.repo \in Nat /\ moves.tags \in Nat
  BY DEF ReleaseTyped, Moves
<1>2. /\ job' = job /\ receipts' = receipts /\ manifest' = manifest /\ witness' = witness
      /\ answer' = answer /\ answer = None
  BY DEF EditTree, MoveHead, Retag
<1>3. CASE EditTree
  <2>1. PICK t \in Tree : repo' = [repo EXCEPT !.tree = t]
    BY <1>3 DEF EditTree
  <2>2. moves' = [moves EXCEPT !.repo = @ + 1]
    BY <1>3 DEF EditTree
  <2>. QED BY <1>1, <1>2, <2>1, <2>2 DEF Moves
<1>4. CASE MoveHead
  <2>1. PICK c \in Commit : \E t \in Checkouts[c] : repo' = [repo EXCEPT !.head = c, !.tree = t]
    BY <1>4 DEF MoveHead
  <2>2. moves' = [moves EXCEPT !.repo = @ + 1]
    BY <1>4 DEF MoveHead
  <2>. QED BY <1>1, <1>2, <2>1, <2>2 DEF Moves
<1>5. CASE Retag
  <2>1. PICK v \in Tag, c \in Commit \cup {None} : repo' = [repo EXCEPT !.tags[v] = c]
    BY <1>5 DEF Retag
  <2>2. moves' = [moves EXCEPT !.tags = @ + 1]
    BY <1>5 DEF Retag
  <2>. QED BY <1>1, <1>2, <2>1, <2>2 DEF Moves
<1>. QED BY <1>3, <1>4, <1>5

\* Nothing a move follows is undisturbed.
LEMMA MovesDisturb ==
  ASSUME ReleaseTyped, EditTree \/ MoveHead \/ Retag,
         NEW since, since.repo \in Nat, since.tags \in Nat,
         since.repo <= moves.repo, since.tags <= moves.tags
  PROVE  moves' # since
<1>1. moves.repo \in Nat /\ moves.tags \in Nat
  BY DEF ReleaseTyped, Moves
<1>2. moves'.repo = moves.repo + 1 \/ moves'.tags = moves.tags + 1
  BY MovesAreCounted
<1>. QED BY <1>1, <1>2

\* The programs leave the repository alone.
LEMMA ProgramsOnlyLook ==
  ASSUME ValidateAll \/ BuildManifest \/ Create \/ Verify \/ Look \/ RunCommand \/ Abort
         \/ WriteReceipt \/ WriteManifest \/ WriteWitness \/ ReportVerification
         \/ UNCHANGED releaseVars
  PROVE  repo' = repo /\ moves' = moves
  BY DEF ValidateAll, BuildManifest, Create, Verify, Look, RunCommand, Abort, WriteReceipt,
     WriteManifest, WriteWitness, ReportVerification, releaseVars

\* What a job saw is current unless the repository moved since.
LEMMA LooksStayCurrent ==
  ASSUME ReleaseTyped, LooksAreCurrent, [ReleaseNext]_releaseVars
  PROVE  LooksAreCurrent'
<1>1. CASE EditTree \/ MoveHead \/ Retag
  <2>1. job' = job
    BY <1>1, MovesAreCounted
  <2>2. job # None => moves' # job.since
    <3> SUFFICES ASSUME job # None PROVE moves' # job.since
      OBVIOUS
    <3>1. job.since.repo \in Nat /\ job.since.tags \in Nat
          /\ job.since.repo <= moves.repo /\ job.since.tags <= moves.tags
      BY DEF ReleaseTyped, AJob, Moves
    <3>. QED BY <1>1, <3>1, MovesDisturb
  <2>. QED BY <2>1, <2>2 DEF LooksAreCurrent, Undisturbed
<1>2. ASSUME NEW kind \in {"create", "verify"}, job' = JobOf(kind)
      PROVE  LooksAreCurrent'
  <2>1. JobOf(kind).left = Looks(kind)
    BY JobsAreTyped DEF Jobs
  <2>2. \A x \in {"version", "head", "clean", "tags", "source"} : x \in Left(job'.left)
    BY <1>2, <2>1, LeftAtFirst
  <2>. QED BY <2>2 DEF LooksAreCurrent, HasSeen
<1>3. CASE ValidateAll
  <2>1. job'.kind = "validate"
    BY <1>3, ValidationStarts
  <2>. QED BY <2>1 DEF LooksAreCurrent
<1>4. CASE BuildManifest
  <2>1. PICK t \in Tag : job' = [JobOf("manifest") EXCEPT !.tag = t]
    BY <1>4 DEF BuildManifest
  <2>2. job'.kind = "manifest"
    BY <2>1, JobsAreTyped DEF Jobs, AJob
  <2>. QED BY <2>2 DEF LooksAreCurrent
<1>5. CASE Look
  <2> SUFFICES ASSUME job' # None, job'.kind \in {"create", "verify"}, (Undisturbed(job.since))'
               PROVE  (/\ HasSeen("version") => job.seen.version = Version[repo.tree]
                       /\ HasSeen("head") => job.seen.head = repo.head
                       /\ HasSeen("clean") => job.seen.clean = (repo.tree \in Checkouts[repo.head])
                       /\ HasSeen("tags") => job.seen.tags = {t \in Tag : repo.tags[t] = repo.head}
                       /\ HasSeen("source") => job.seen.source = repo.tree)'
    BY DEF LooksAreCurrent
  <2> DEFINE item == Head(job.left)
  <2>1. repo' = repo /\ moves' = moves
    BY <1>5, ProgramsOnlyLook
  <2>2. job # None
    BY <1>5 DEF Look
  <2>3. /\ item \in Items
        /\ job'.seen[item] = Now(item)
        /\ \A x \in Items : x # item => job'.seen[x] = job.seen[x]
        /\ job'.kind = job.kind /\ job'.since = job.since
        /\ \A x \in Items : x \notin Left(job'.left) /\ x # item => HasSeen(x)
    BY <1>5, LookSees
  <2>4. job.kind \in {"create", "verify"} /\ Undisturbed(job.since)
    BY <2>1, <2>3 DEF Undisturbed
  <2>5. Now("version") = Version[repo.tree]
    BY <2>4 DEF Now, VersionSeen
  <2>6. Now("head") = repo.head /\ Now("source") = repo.tree
    BY DEF Now
  <2>7. Now("clean") = (repo.tree \in Checkouts[repo.head])
    BY Zenon DEF Now
  <2>8. Now("tags") = {t \in Tag : repo.tags[t] = repo.head}
    BY <2>4 DEF Now, TagsAt
  <2> HIDE DEF item
  <2>9. (HasSeen("version") => job.seen.version = Version[repo.tree])'
    BY <2>1, <2>2, <2>3, <2>4, <2>5 DEF LooksAreCurrent, HasSeen, Items
  <2>10. (HasSeen("head") => job.seen.head = repo.head)'
    BY <2>1, <2>2, <2>3, <2>4, <2>6 DEF LooksAreCurrent, HasSeen, Items
  <2>11. (HasSeen("clean") => job.seen.clean = (repo.tree \in Checkouts[repo.head]))'
    BY <2>1, <2>2, <2>3, <2>4, <2>7 DEF LooksAreCurrent, HasSeen, Items
  <2>12. (HasSeen("tags") => job.seen.tags = {t \in Tag : repo.tags[t] = repo.head})'
    BY <2>1, <2>2, <2>3, <2>4, <2>8 DEF LooksAreCurrent, HasSeen, Items
  <2>13. (HasSeen("source") => job.seen.source = repo.tree)'
    BY <2>1, <2>2, <2>3, <2>4, <2>6 DEF LooksAreCurrent, HasSeen, Items
  <2>. QED BY <2>9, <2>10, <2>11, <2>12, <2>13
<1>6. CASE RunCommand
  <2>1. job'.kind = "validate"
    BY <1>6, CommandRuns
  <2>. QED BY <2>1 DEF LooksAreCurrent
<1>7. CASE job' = None
  BY <1>7 DEF LooksAreCurrent
<1>8. CASE UNCHANGED releaseVars
  BY <1>8 DEF releaseVars, LooksAreCurrent, HasSeen, Undisturbed
<1>9. Abort \/ WriteReceipt \/ WriteManifest \/ WriteWitness \/ ReportVerification => job' = None
  BY DEF Abort, WriteReceipt, WriteManifest, WriteWitness, ReportVerification, JobEnds
<1>10. CASE Create \/ Verify
  BY <1>2, <1>10 DEF Create, Verify
<1>. QED BY <1>1, <1>3, <1>4, <1>5, <1>6, <1>7, <1>8, <1>9, <1>10 DEF ReleaseNext

\* One more command of the same checkout.
LEMMA OneMoreRan ==
  ASSUME NEW ran \in Seq(ARun), NEW run \in ARun, NEW head, NEW tree,
         AllRan(ran, head, tree), run.head = head, run.tree = tree
  PROVE  AllRan(Append(ran, run), head, tree)
  BY DEF AllRan

\* No command ran at any other checkout.
LEMMA NoneRan ==
  ASSUME NEW head, NEW tree
  PROVE  AllRan(<<>>, head, tree)
  BY DEF AllRan

\* A look does not change what the last look says or will say.
LEMMA LastLookStays ==
  ASSUME ReleaseTyped, Look
  PROVE  LastHead' = LastHead /\ LastTree' = LastTree
<1> DEFINE item == Head(job.left)
<1>1. repo' = repo
  BY DEF Look
<1>2. /\ item \in Items
      /\ job'.seen[item] = Now(item)
      /\ \A x \in Items : x # item => job'.seen[x] = job.seen[x]
      /\ ~HasSeen(item)
      /\ \A x \in Items : HasSeen(x) => x \notin Left(job'.left)
      /\ \A x \in Items : x \notin Left(job'.left) /\ x # item => HasSeen(x)
  BY LookSees
<1>3. Now("head") = repo.head /\ Now("source") = repo.tree
  BY DEF Now
<1>4. "head" \in Items /\ "source" \in Items
  BY DEF Items
<1> HIDE DEF item
<1>5. LastHead' = LastHead
  <2>1. CASE item = "head"
    BY <1>1, <1>2, <1>3, <1>4, <2>1 DEF LastHead, HasSeen
  <2>2. CASE item # "head"
    BY <1>1, <1>2, <1>3, <1>4, <2>2 DEF LastHead, HasSeen
  <2>. QED BY <2>1, <2>2
<1>6. LastTree' = LastTree
  <2>1. CASE item = "source"
    BY <1>1, <1>2, <1>3, <1>4, <2>1 DEF LastTree, HasSeen
  <2>2. CASE item # "source"
    BY <1>1, <1>2, <1>3, <1>4, <2>2 DEF LastTree, HasSeen
  <2>. QED BY <2>1, <2>2
<1>. QED BY <1>5, <1>6

\* A validation's commands ran at the checkout it saw, unless that moved twice.
LEMMA ValidationsHold ==
  ASSUME ReleaseTyped, ValidationHolds, [ReleaseNext]_releaseVars
  PROVE  ValidationHolds'
<1> SUFFICES ASSUME job' # None, job'.kind = "validate", moves'.repo - job'.since.repo <= 1
             PROVE  (/\ job.first = None /\ job.left # <<>> => job.ran = <<>>
                     /\ job.first = None /\ job.left = <<>> =>
                          /\ job.seen.head = repo.head /\ job.seen.source = repo.tree =>
                               AllRan(job.ran, repo.head, repo.tree)
                          /\ moves.repo = job.since.repo =>
                               job.seen.head = repo.head /\ job.seen.source = repo.tree
                     /\ job.first # None =>
                          /\ job.todo = <<>>
                          /\ job.first.head = LastHead /\ job.first.source = LastTree =>
                               AllRan(job.ran, LastHead, LastTree)
                     /\ moves.repo = job.since.repo =>
                          /\ LastHead = repo.head /\ LastTree = repo.tree
                          /\ AllRan(job.ran, repo.head, repo.tree)
                          /\ job.first # None =>
                               job.first.head = repo.head /\ job.first.source = repo.tree)'
  BY DEF ValidationHolds
<1>1. moves.repo \in Nat /\ moves.tags \in Nat
  BY DEF ReleaseTyped, Moves
<1>2. job # None => job.since.repo \in Nat /\ job.since.repo <= moves.repo
  BY DEF ReleaseTyped, AJob, Moves
<1>3. CASE (EditTree \/ MoveHead \/ Retag) /\ moves'.repo = moves.repo + 1
  <2>1. job' = job
    BY <1>3, MovesAreCounted
  <2>2. moves.repo = job.since.repo /\ moves'.repo # job.since.repo /\ moves.repo - job.since.repo <= 1
    BY <1>1, <1>2, <1>3, <2>1
  <2>3. /\ job.first = None /\ job.left # <<>> => job.ran = <<>>
        /\ job.first = None /\ job.left = <<>> =>
             job.seen.head = repo.head /\ job.seen.source = repo.tree
        /\ job.first # None => /\ job.todo = <<>>
                               /\ job.first.head = repo.head /\ job.first.source = repo.tree
        /\ AllRan(job.ran, repo.head, repo.tree)
    BY <2>1, <2>2 DEF ValidationHolds
  <2>. QED BY <2>1, <2>2, <2>3
<1>4. CASE (EditTree \/ MoveHead \/ Retag) /\ moves'.repo # moves.repo + 1
  <2>1. job' = job /\ moves'.repo = moves.repo /\ repo'.head = repo.head /\ repo'.tree = repo.tree
    BY <1>4, MovesAreCounted
  <2>. QED BY <2>1 DEF ValidationHolds, LastHead, LastTree, HasSeen
<1>5. CASE ValidateAll
  <2>1. repo' = repo /\ moves' = moves
    BY <1>5, ProgramsOnlyLook
  <2>2. job'.left = Looks("validate") /\ job'.ran = <<>> /\ job'.first = None
    BY <1>5, ValidationStarts
  <2>3. "head" \in Left(job'.left) /\ "source" \in Left(job'.left)
    BY <2>2, LeftAtFirst
  <2>4. job'.left # <<>> /\ LastHead' = repo'.head /\ LastTree' = repo'.tree
    BY <2>3, NothingLeft DEF LastHead, LastTree, HasSeen
  <2>. QED BY <2>2, <2>4, NoneRan
<1>6. CASE Look
  <2>1. repo' = repo /\ moves' = moves
    BY <1>6, ProgramsOnlyLook
  <2>2. job # None
    BY <1>6 DEF Look
  <2>3. /\ job.left # <<>>
        /\ job'.kind = job.kind /\ job'.since = job.since /\ job'.first = job.first
        /\ job'.todo = job.todo /\ job'.ran = job.ran
    BY <1>6, LookSees
  <2>4. LastHead' = LastHead /\ LastTree' = LastTree
    BY <1>6, LastLookStays
  <2>5. job'.left = <<>> => LastHead' = job'.seen.head /\ LastTree' = job'.seen.source
    BY NothingLeft DEF LastHead, LastTree, HasSeen
  <2>6. /\ job.first = None => job.ran = <<>>
        /\ job.first # None =>
             /\ job.todo = <<>>
             /\ job.first.head = LastHead /\ job.first.source = LastTree =>
                  AllRan(job.ran, LastHead, LastTree)
        /\ moves.repo = job.since.repo =>
             /\ LastHead = repo.head /\ LastTree = repo.tree
             /\ AllRan(job.ran, repo.head, repo.tree)
             /\ job.first # None => job.first.head = repo.head /\ job.first.source = repo.tree
    BY <2>1, <2>2, <2>3 DEF ValidationHolds
  <2>. QED BY <2>1, <2>3, <2>4, <2>5, <2>6, NoneRan
<1>7. CASE RunCommand
  <2>1. repo' = repo /\ moves' = moves
    BY <1>7, ProgramsOnlyLook
  <2>2. job # None /\ job \in AJob /\ job.ran \in Seq(ARun) /\ job.seen \in Sight
    BY <1>7 DEF RunCommand, ReleaseTyped, AJob
  <2>3. /\ job.kind = "validate" /\ job.left = <<>> /\ job.todo # <<>>
        /\ job'.kind = job.kind /\ job'.since = job.since
        /\ IF job'.todo = <<>>
           THEN job'.first = job.seen /\ job'.seen = Nothing /\ job'.left = Looks("validate")
           ELSE job'.first = job.first /\ job'.seen = job.seen /\ job'.left = <<>>
    BY <1>7, CommandRuns
  <2>4. PICK run \in ARun : job'.ran = Append(job.ran, run) /\ run.head = repo.head
                            /\ run.tree = repo.tree
    BY <1>7, CommandRuns
  <2>5. /\ job.first = None
        /\ job.seen.head = repo.head /\ job.seen.source = repo.tree =>
             AllRan(job.ran, repo.head, repo.tree)
        /\ moves.repo = job.since.repo => job.seen.head = repo.head /\ job.seen.source = repo.tree
    BY <2>1, <2>2, <2>3 DEF ValidationHolds
  <2>6. job.seen.head = repo.head /\ job.seen.source = repo.tree =>
          AllRan(job'.ran, repo.head, repo.tree)
    BY <2>2, <2>4, <2>5, OneMoreRan
  <2>7. CASE job'.todo = <<>>
    <3>1. job'.first = job.seen /\ job'.left = Looks("validate") /\ job'.first # None
      BY <2>2, <2>3, <2>7, ReleaseConstants
    <3>2. "head" \in Left(job'.left) /\ "source" \in Left(job'.left)
      BY <3>1, LeftAtFirst
    <3>3. LastHead' = repo.head /\ LastTree' = repo.tree
      BY <2>1, <3>2 DEF LastHead, LastTree, HasSeen
    <3>. QED BY <2>1, <2>3, <2>5, <2>6, <2>7, <3>1, <3>3
  <2>8. CASE job'.todo # <<>>
    <3>1. job'.first = None /\ job'.seen = job.seen /\ job'.left = <<>>
      BY <2>3, <2>5, <2>8
    <3>2. LastHead' = job.seen.head /\ LastTree' = job.seen.source
      BY <3>1, NothingLeft DEF LastHead, LastTree, HasSeen
    <3>. QED BY <2>1, <2>3, <2>5, <2>6, <3>1, <3>2
  <2>. QED BY <2>7, <2>8
<1>8. CASE UNCHANGED releaseVars
  BY <1>8 DEF releaseVars, ValidationHolds, LastHead, LastTree, HasSeen
<1>9. Abort \/ WriteReceipt \/ WriteManifest \/ WriteWitness \/ ReportVerification => job' = None
  BY DEF Abort, WriteReceipt, WriteManifest, WriteWitness, ReportVerification, JobEnds
<1>10. Create \/ Verify => job'.kind \in {"create", "verify"}
  BY JobsAreTyped DEF Create, Verify, Jobs
<1>11. BuildManifest => job'.kind = "manifest"
  <2> SUFFICES ASSUME BuildManifest PROVE job'.kind = "manifest"
    OBVIOUS
  <2>1. PICK t \in Tag : job' = [JobOf("manifest") EXCEPT !.tag = t]
    BY DEF BuildManifest
  <2>. QED BY <2>1, JobsAreTyped DEF Jobs, AJob
<1>. QED BY <1>3, <1>4, <1>5, <1>6, <1>7, <1>8, <1>9, <1>10, <1>11 DEF ReleaseNext

\* Receipts are written at the end of a validation.
LEMMA ReceiptsStillHold ==
  ASSUME ReleaseTyped, ValidationHolds, ReceiptsHold, [ReleaseNext]_releaseVars
  PROVE  ReceiptsHold'
<1>1. CASE WriteReceipt
  <2> DEFINE r == [first |-> job.first, last |-> job.seen, ran |-> job.ran,
                   since |-> job.since.repo, until |-> moves.repo]
  <2>1. job # None /\ job.kind = "validate" /\ job.left = <<>> /\ receipts' = receipts \cup {r}
    BY <1>1 DEF WriteReceipt, JobEnds
  <2>2. ReceiptHolds(r)
    <3> SUFFICES ASSUME moves.repo - job.since.repo <= 1, job.first = job.seen
                 PROVE  AllRan(job.ran, job.seen.head, job.seen.source)
      BY DEF ReceiptHolds, Stable
    <3>1. job.first # None
      BY <2>1, ReleaseConstants DEF ReleaseTyped, AJob
    <3>2. LastHead = job.seen.head /\ LastTree = job.seen.source
      BY <2>1, NothingLeft DEF LastHead, LastTree, HasSeen
    <3>. QED BY <2>1, <3>1, <3>2 DEF ValidationHolds
  <2>. QED BY <2>1, <2>2 DEF ReceiptsHold
<1>2. CASE UNCHANGED receipts
  BY <1>2 DEF ReceiptsHold
<1>. QED
  BY <1>1, <1>2 DEF ReleaseNext, releaseVars, EditTree, MoveHead, Retag, ValidateAll,
     BuildManifest, Create, Verify, Look, RunCommand, Abort, WriteManifest, WriteWitness,
     ReportVerification

\* What a manifest knows of its tag is what that names, while no tag moves.
LEMMA ManifestsHold ==
  ASSUME ReleaseTyped, ManifestHolds, [ReleaseNext]_releaseVars
  PROVE  ManifestHolds'
<1> DEFINE Building ==
             job # None /\ job.kind = "manifest" /\ moves.tags = job.since.tags =>
               \A item \in {"commit", "files", "archive"} :
                 HasSeen(item) => job.seen[item] = repo.tags[job.tag]
           Built ==
             manifest # None /\ manifest.quiet =>
               manifest.archive = manifest.commit /\ manifest.files = manifest.commit
<1>1. Building /\ Built
  BY DEF ManifestHolds
<1>2. moves.repo \in Nat /\ moves.tags \in Nat
  BY DEF ReleaseTyped, Moves
<1>3. job # None => job.since.tags \in Nat /\ job.since.tags <= moves.tags
  BY DEF ReleaseTyped, AJob, Moves
<1>4. Built'
  <2>1. CASE WriteManifest
    <3>1. /\ job # None /\ job.kind = "manifest" /\ job.left = <<>>
          /\ manifest' = [commit |-> job.seen.commit, tag |-> job.tag, files |-> job.seen.files,
                          archive |-> job.seen.archive, quiet |-> moves.tags = job.since.tags]
      BY <2>1 DEF WriteManifest, JobEnds
    <3>2. SUFFICES ASSUME manifest'.quiet
                   PROVE  manifest'.archive = manifest'.commit /\ manifest'.files = manifest'.commit
      OBVIOUS
    <3>3. moves.tags = job.since.tags
      BY <3>1, <3>2
    <3>4. job.seen.commit = job.seen.files /\ job.seen.commit = job.seen.archive
      BY <1>1, <3>1, <3>3, NothingLeft DEF HasSeen
    <3>. QED BY <3>1, <3>4
  <2>2. CASE UNCHANGED manifest
    BY <1>1, <2>2
  <2>. QED
    BY <2>1, <2>2 DEF ReleaseNext, releaseVars, EditTree, MoveHead, Retag, ValidateAll,
       BuildManifest, Create, Verify, Look, RunCommand, Abort, WriteReceipt, WriteWitness,
       ReportVerification
<1>5. Building'
  <2>1. CASE EditTree \/ MoveHead \/ Retag
    <3>1. /\ job' = job
          /\ \/ moves'.tags = moves.tags + 1
             \/ moves'.tags = moves.tags /\ repo'.tags = repo.tags
      BY <2>1, MovesAreCounted
    <3>. QED BY <1>1, <1>2, <1>3, <3>1 DEF HasSeen
  <2>2. CASE ValidateAll
    <3>1. job'.kind = "validate"
      BY <2>2, ValidationStarts
    <3>. QED BY <3>1
  <2>3. CASE BuildManifest
    <3>1. PICK t \in Tag : job' = [JobOf("manifest") EXCEPT !.tag = t]
      BY <2>3 DEF BuildManifest
    <3>2. job'.left = Looks("manifest")
      BY <3>1, JobsAreTyped DEF Jobs, AJob
    <3>. QED BY <3>2, LeftAtFirst DEF HasSeen
  <2>4. CASE Create \/ Verify
    <3>1. job'.kind \in {"create", "verify"}
      BY <2>4, JobsAreTyped DEF Create, Verify, Jobs
    <3>. QED BY <3>1
  <2>5. CASE Look
    <3> DEFINE item == Head(job.left)
    <3>1. repo' = repo /\ moves' = moves
      BY <2>5, ProgramsOnlyLook
    <3>2. /\ job'.kind = job.kind /\ job'.since = job.since /\ job'.tag = job.tag
          /\ job'.seen[item] = Now(item)
          /\ \A x \in Items : x # item => job'.seen[x] = job.seen[x]
          /\ \A x \in Items : x \notin Left(job'.left) /\ x # item => HasSeen(x)
      BY <2>5, LookSees
    <3>3. job # None
      BY <2>5 DEF Look
    <3>4. \A x \in {"commit", "files", "archive"} : x \in Items /\ Now(x) = repo.tags[job.tag]
      BY DEF Now, Items
    <3> HIDE DEF item
    <3>. QED BY <1>1, <3>1, <3>2, <3>3, <3>4 DEF HasSeen
  <2>6. CASE RunCommand
    <3>1. job'.kind = "validate"
      BY <2>6, CommandRuns
    <3>. QED BY <3>1
  <2>7. CASE UNCHANGED releaseVars
    BY <1>1, <2>7 DEF releaseVars, HasSeen
  <2>8. Abort \/ WriteReceipt \/ WriteManifest \/ WriteWitness \/ ReportVerification => job' = None
    BY DEF Abort, WriteReceipt, WriteManifest, WriteWitness, ReportVerification, JobEnds
  <2>. QED BY <2>1, <2>2, <2>3, <2>4, <2>5, <2>6, <2>7, <2>8 DEF ReleaseNext
<1>. QED BY <1>4, <1>5 DEF ManifestHolds

\* What a witness or its verification has seen in the end, if nobody touched the repository.
LEMMA EndsCurrent ==
  ASSUME LooksAreCurrent, job # None, job.kind \in {"create", "verify"}, job.left = <<>>,
         Undisturbed(job.since)
  PROVE  /\ job.seen.version = Version[repo.tree]
         /\ job.seen.head = repo.head
         /\ job.seen.clean = (repo.tree \in Checkouts[repo.head])
         /\ job.seen.tags = {t \in Tag : repo.tags[t] = repo.head}
         /\ job.seen.source = repo.tree
  BY NothingLeft DEF LooksAreCurrent, HasSeen

\* The witness is of what its look saw.
LEMMA WitnessesHold ==
  ASSUME ReleaseTyped, LooksAreCurrent, WitnessHolds, [ReleaseNext]_releaseVars
  PROVE  WitnessHolds'
<1>1. moves.repo \in Nat /\ moves.tags \in Nat /\ moves \in Moves
  BY DEF ReleaseTyped, Moves
<1>2. CASE EditTree \/ MoveHead \/ Retag
  <2>1. /\ witness' = witness /\ receipts' = receipts
        /\ moves'.repo \in Nat /\ moves'.tags \in Nat
        /\ moves'.repo >= moves.repo /\ moves'.tags >= moves.tags
    BY <1>1, <1>2, MovesAreCounted
  <2>2. witness # None => moves' # witness.since /\ witness.since.repo <= moves'.repo
                          /\ witness.since.tags <= moves'.tags
    <3> SUFFICES ASSUME witness # None
                 PROVE  moves' # witness.since /\ witness.since.repo <= moves'.repo
                        /\ witness.since.tags <= moves'.tags
      OBVIOUS
    <3>1. witness.since.repo \in Nat /\ witness.since.tags \in Nat
          /\ witness.since.repo <= moves.repo /\ witness.since.tags <= moves.tags
      BY DEF WitnessHolds, Moves
    <3>. QED BY <1>1, <1>2, <2>1, <3>1, MovesDisturb
  <2>. QED BY <2>1, <2>2 DEF WitnessHolds, Undisturbed
<1>3. CASE WriteWitness
  <2>1. /\ job # None /\ job.kind = "create" /\ job.left = <<>> /\ receipts' = receipts
        /\ job.seen.clean = TRUE /\ job.seen.tags = {job.seen.version}
        /\ repo' = repo /\ moves' = moves
    BY <1>3 DEF WriteWitness, JobEnds, TaggedExactly
  <2>2. PICK validations \in SUBSET receipts, bound \in {None, manifest} :
          /\ \A r \in validations : ValidReceipt(r, job.seen.head, job.seen.source)
          /\ witness' = [head |-> job.seen.head, tag |-> job.seen.version,
                         source |-> job.seen.source, validations |-> validations,
                         manifest |-> bound, ready |-> Ready(validations),
                         live |-> AllLive(validations), since |-> job.since]
    BY <1>3 DEF WriteWitness
  <2>3. job.since \in Moves /\ job.since.repo <= moves.repo /\ job.since.tags <= moves.tags
    BY <2>1 DEF ReleaseTyped, AJob
  <2>4. Undisturbed(job.since) =>
          /\ job.seen.head = repo.head /\ job.seen.source = repo.tree
          /\ repo.tree \in Checkouts[repo.head] /\ job.seen.version = Version[repo.tree]
          /\ {t \in Tag : repo.tags[t] = repo.head} = {job.seen.version}
    BY <2>1, EndsCurrent
  <2>5. /\ witness'.head = job.seen.head /\ witness'.tag = job.seen.version
        /\ witness'.source = job.seen.source /\ witness'.validations = validations
        /\ witness'.since = job.since
    BY <2>2
  <2>6. witness'.ready = Ready(validations) /\ witness'.live = AllLive(validations)
    BY <2>2, Zenon
  <2>7. (Undisturbed(witness.since) =>
           /\ witness.head = repo.head /\ witness.source = repo.tree
           /\ repo.tree \in Checkouts[repo.head] /\ witness.tag = Version[repo.tree]
           /\ {t \in Tag : repo.tags[t] = repo.head} = {witness.tag})'
    BY <2>1, <2>4, <2>5 DEF Undisturbed
  <2>8. \A r \in witness'.validations : ValidReceipt(r, witness'.head, witness'.source)
    BY <2>2, <2>5
  <2>. QED BY <2>1, <2>2, <2>3, <2>5, <2>6, <2>7, <2>8 DEF WitnessHolds
<1>4. CASE /\ UNCHANGED <<repo, moves, witness>>
           /\ receipts \subseteq receipts'
  BY <1>4 DEF WitnessHolds, Undisturbed
<1>5. ValidateAll \/ BuildManifest \/ Create \/ Verify \/ Look \/ RunCommand \/ Abort
      \/ WriteReceipt \/ WriteManifest \/ ReportVerification \/ UNCHANGED releaseVars
      => UNCHANGED <<repo, moves, witness>> /\ receipts \subseteq receipts'
  BY DEF ValidateAll, BuildManifest, Create, Verify, Look, RunCommand, Abort, WriteReceipt,
     WriteManifest, ReportVerification, releaseVars
<1>. QED BY <1>2, <1>3, <1>4, <1>5 DEF ReleaseNext

\* A verification begins after its witness was made.
LEMMA VerificationsFollow ==
  ASSUME ReleaseTyped, WitnessHolds, VerifyFollows, [ReleaseNext]_releaseVars
  PROVE  VerifyFollows'
<1>1. CASE EditTree \/ MoveHead \/ Retag
  BY <1>1, MovesAreCounted DEF VerifyFollows
<1>2. CASE ValidateAll
  <2>1. job'.kind = "validate"
    BY <1>2, ValidationStarts
  <2>. QED BY <2>1 DEF VerifyFollows
<1>3. CASE BuildManifest
  <2>1. PICK t \in Tag : job' = [JobOf("manifest") EXCEPT !.tag = t]
    BY <1>3 DEF BuildManifest
  <2>2. job'.kind = "manifest"
    BY <2>1, JobsAreTyped DEF Jobs, AJob
  <2>. QED BY <2>2 DEF VerifyFollows
<1>4. CASE Create
  <2>1. job'.kind = "create"
    BY <1>4, JobsAreTyped DEF Create, Jobs
  <2>. QED BY <2>1 DEF VerifyFollows
<1>5. CASE Verify
  <2>1. job'.since = moves /\ witness' = witness /\ witness # None
    BY <1>5, JobsAreTyped DEF Verify, Jobs
  <2>. QED BY <2>1 DEF VerifyFollows, WitnessHolds
<1>6. CASE Look
  <2>1. job'.kind = job.kind /\ job'.since = job.since
    BY <1>6, LookSees
  <2>2. job # None /\ witness' = witness
    BY <1>6 DEF Look
  <2>. QED BY <2>1, <2>2 DEF VerifyFollows
<1>7. CASE RunCommand
  <2>1. job'.kind = "validate"
    BY <1>7, CommandRuns
  <2>. QED BY <2>1 DEF VerifyFollows
<1>8. CASE UNCHANGED releaseVars
  BY <1>8 DEF releaseVars, VerifyFollows
<1>9. Abort \/ WriteReceipt \/ WriteManifest \/ WriteWitness \/ ReportVerification => job' = None
  BY DEF Abort, WriteReceipt, WriteManifest, WriteWitness, ReportVerification, JobEnds
<1>. QED BY <1>1, <1>2, <1>3, <1>4, <1>5, <1>6, <1>7, <1>8, <1>9 DEF ReleaseNext, VerifyFollows

\* What a verification answers: that of the witness's own receipts, when it finds it valid, and
\* that it is, when nobody touched the repository since the witness was made.
LEMMA VerificationIsRight ==
  ASSUME ReleaseIInv, ReportVerification
  PROVE  ReleaseIsWitnessed'
<1>1. /\ job # None /\ job.kind = "verify" /\ job.left = <<>>
      /\ answer' = [valid |-> Verified(job.seen), witness |-> witness, repo |-> repo,
                    quiet |-> moves = job.since, still |-> moves = witness.since]
      /\ repo' = repo /\ moves' = moves /\ receipts' = receipts /\ witness' = witness
  BY DEF ReportVerification, JobEnds
<1>2. ReleaseTyped /\ LooksAreCurrent /\ ReceiptsHold /\ WitnessHolds /\ VerifyFollows
      /\ ReleaseIsWitnessed
  BY DEF ReleaseIInv
<1>3. /\ answer'.witness = witness /\ answer'.repo = repo
      /\ answer'.valid = Verified(job.seen)
      /\ answer'.quiet = (moves = job.since)
      /\ answer'.still = (moves = witness.since)
  BY <1>1, Zenon
<1>4. witness # None
  BY <1>1, <1>2 DEF VerifyFollows
<1>5. Undisturbed(job.since) =>
        /\ job.seen.version = Version[repo.tree]
        /\ job.seen.head = repo.head
        /\ job.seen.clean = (repo.tree \in Checkouts[repo.head])
        /\ job.seen.tags = {t \in Tag : repo.tags[t] = repo.head}
        /\ job.seen.source = repo.tree
  BY <1>1, <1>2, EndsCurrent
<1>6. WitnessIsCurrent'
  <2> SUFFICES ASSUME Verified(job.seen), moves = job.since
               PROVE  /\ repo.head = witness.head
                      /\ repo.tree = witness.source
                      /\ witness.source \in Checkouts[witness.head]
                      /\ {t \in Tag : repo.tags[t] = witness.head} = {Version[witness.source]}
                      /\ witness.tag = Version[witness.source]
    BY <1>3 DEF WitnessIsCurrent
  <2>1. /\ job.seen.tags = {job.seen.version} /\ witness.tag = job.seen.version
        /\ job.seen.clean = TRUE /\ witness.head = job.seen.head
        /\ witness.source = job.seen.source
    BY DEF Verified, TaggedExactly
  <2>2. /\ job.seen.version = Version[repo.tree]
        /\ job.seen.head = repo.head
        /\ job.seen.clean = (repo.tree \in Checkouts[repo.head])
        /\ job.seen.tags = {t \in Tag : repo.tags[t] = repo.head}
        /\ job.seen.source = repo.tree
    BY <1>5 DEF Undisturbed
  <2>. QED BY <2>1, <2>2
<1>7. ReleaseIsValidated'
  <2> SUFFICES ASSUME Verified(job.seen), witness.ready
               PROVE  /\ witness.validations # {}
                      /\ \A r \in witness.validations :
                           /\ Cardinality(Ran(r, "offline")) = Offline
                           /\ \A i \in DOMAIN r.ran :
                                /\ r.ran[i].passed
                                /\ r.until - r.since <= 1 =>
                                     /\ r.ran[i].head = witness.head
                                     /\ r.ran[i].tree = witness.source
    BY <1>3 DEF ReleaseIsValidated
  <2>1. witness.validations # {}
    BY <1>2, <1>4 DEF WitnessHolds, Ready
  <2>2. ASSUME NEW r \in witness.validations
        PROVE  /\ Cardinality(Ran(r, "offline")) = Offline
               /\ \A i \in DOMAIN r.ran :
                    /\ r.ran[i].passed
                    /\ r.until - r.since <= 1 =>
                         r.ran[i].head = witness.head /\ r.ran[i].tree = witness.source
    <3>1. r \in receipts /\ ValidReceipt(r, witness.head, witness.source)
      BY <1>2, <1>4 DEF WitnessHolds
    <3>2. /\ Cardinality(Ran(r, "offline")) = Offline /\ \A i \in DOMAIN r.ran : r.ran[i].passed
          /\ r.last.head = witness.head /\ r.last.source = witness.source /\ Stable(r)
      BY <3>1 DEF ValidReceipt, AllPassed
    <3>3. r.until - r.since <= 1 => AllRan(r.ran, witness.head, witness.source)
      BY <1>2, <3>1, <3>2 DEF ReceiptsHold, ReceiptHolds
    <3>. QED BY <3>2, <3>3 DEF AllRan
  <2>. QED BY <2>1, <2>2
<1>8. GoodWitnessVerifies'
  <2> SUFFICES ASSUME moves = witness.since
               PROVE  Verified(job.seen)
    BY <1>3 DEF GoodWitnessVerifies
  <2>1. /\ witness.head = repo.head /\ witness.source = repo.tree
        /\ repo.tree \in Checkouts[repo.head] /\ witness.tag = Version[repo.tree]
        /\ {t \in Tag : repo.tags[t] = repo.head} = {witness.tag}
    BY <1>2, <1>4 DEF WitnessHolds, Undisturbed
  <2>2. moves = job.since
    <3>1. witness.since \in Moves /\ job.since \in Moves /\ moves \in Moves
          /\ witness.since.repo <= job.since.repo /\ witness.since.tags <= job.since.tags
          /\ job.since.repo <= moves.repo /\ job.since.tags <= moves.tags
      BY <1>1, <1>2, <1>4 DEF WitnessHolds, VerifyFollows, ReleaseTyped, AJob
    <3>2. job.since.repo = moves.repo /\ job.since.tags = moves.tags
      BY <3>1 DEF Moves
    <3>. QED BY <3>1, <3>2 DEF Moves
  <2>3. /\ job.seen.version = Version[repo.tree]
        /\ job.seen.head = repo.head
        /\ job.seen.clean = (repo.tree \in Checkouts[repo.head])
        /\ job.seen.tags = {t \in Tag : repo.tags[t] = repo.head}
        /\ job.seen.source = repo.tree
    BY <1>5, <2>2 DEF Undisturbed
  <2>4. TaggedExactly(job.seen) /\ job.seen.clean = TRUE
    BY <2>1, <2>3 DEF TaggedExactly
  <2>5. \A r \in witness.validations : ValidReceipt(r, job.seen.head, job.seen.source)
    BY <1>2, <1>4, <2>1, <2>3 DEF WitnessHolds
  <2>6. witness.ready = Ready(witness.validations) /\ witness.live = AllLive(witness.validations)
    BY <1>2, <1>4 DEF WitnessHolds
  <2>7. AllLive(witness.validations) => Ready(witness.validations)
    BY DEF AllLive, Ready
  <2> DEFINE valid == {r \in witness.validations :
                         ValidReceipt(r, job.seen.head, job.seen.source)}
  <2>8. valid = witness.validations
    BY <2>5
  <2> HIDE DEF valid
  <2>9. /\ TaggedExactly(job.seen) /\ witness.tag = job.seen.version
        /\ job.seen.clean = TRUE /\ witness.head = job.seen.head
        /\ witness.source = job.seen.source
    BY <2>1, <2>3, <2>4
  <2>10. /\ valid = witness.validations
         /\ witness.ready = (Ready(witness.validations) /\ valid = witness.validations)
         /\ witness.live = ((Ready(witness.validations) /\ valid = witness.validations)
                            /\ AllLive(valid))
    BY <2>6, <2>8 DEF Ready, AllLive
  <2>. QED BY <2>9, <2>10 DEF Verified, valid
<1>9. ArchiveIsOfRelease'
  BY <1>1, <1>2 DEF ArchiveIsOfRelease, ReleaseIsWitnessed
<1>. QED BY <1>6, <1>7, <1>8, <1>9 DEF ReleaseIsWitnessed

\* A step from an invariant state leaves releases witnessed.
LEMMA ReleaseStaysWitnessed ==
  ASSUME ReleaseIInv, [ReleaseNext]_releaseVars
  PROVE  ReleaseIsWitnessed'
<1>1. ReleaseIsWitnessed
  BY DEF ReleaseIInv
<1>2. CASE WriteWitness
  <2>1. answer' = answer
    BY <1>2 DEF WriteWitness
  <2>2. WitnessIsCurrent' /\ ReleaseIsValidated' /\ GoodWitnessVerifies'
    BY <1>1, <2>1 DEF ReleaseIsWitnessed, WitnessIsCurrent, ReleaseIsValidated,
       GoodWitnessVerifies
  <2>3. ArchiveIsOfRelease'
    <3>1. PICK validations \in SUBSET receipts, bound \in {None, manifest} :
            /\ bound # None => bound.commit = job.seen.head /\ bound.tag = job.seen.version
            /\ witness' = [head |-> job.seen.head, tag |-> job.seen.version,
                           source |-> job.seen.source, validations |-> validations,
                           manifest |-> bound, ready |-> Ready(validations),
                           live |-> AllLive(validations), since |-> job.since]
      BY <1>2 DEF WriteWitness
    <3>2. witness'.manifest = bound /\ witness'.head = job.seen.head
      BY <3>1
    <3>3. bound # None /\ bound.quiet => bound.archive = bound.commit /\ bound.files = bound.commit
      BY DEF ReleaseIInv, ManifestHolds
    <3>. QED BY <3>1, <3>2, <3>3 DEF ArchiveIsOfRelease
  <2>. QED BY <2>2, <2>3 DEF ReleaseIsWitnessed
<1>3. CASE UNCHANGED <<witness, answer>>
  BY <1>1, <1>3 DEF ReleaseIsWitnessed, WitnessIsCurrent, ReleaseIsValidated, ArchiveIsOfRelease,
     GoodWitnessVerifies
<1>4. CASE ReportVerification
  BY <1>4, VerificationIsRight
<1>. QED
  BY <1>2, <1>3, <1>4 DEF ReleaseNext, releaseVars, EditTree, MoveHead, Retag, ValidateAll,
     BuildManifest, Create, Verify, Look, RunCommand, Abort, WriteReceipt, WriteManifest

\* The invariant holds at first.
LEMMA ReleaseStarts ==
  ASSUME ReleaseInit
  PROVE  ReleaseIInv
<1>1. moves = [repo |-> 0, tags |-> 0] /\ job = None /\ receipts = {} /\ manifest = None
      /\ witness = None /\ answer = None
  BY DEF ReleaseInit
<1>2. PICK c \in Commit : \E t \in Checkouts[c] :
        repo = [head |-> c, tree |-> t,
                tags |-> [v \in Tag |-> IF v = Version[t] THEN c ELSE None]]
  BY DEF ReleaseInit
<1>3. repo \in [head : Commit, tree : Tree, tags : [Tag -> Commit \cup {None}]]
  BY <1>2, ReleaseConstants
<1>4. ReleaseTyped
  BY <1>1, <1>3 DEF ReleaseTyped, Moves
<1>. QED
  BY <1>1, <1>4 DEF ReleaseIInv, LooksAreCurrent, ValidationHolds, ReceiptsHold, ManifestHolds,
     WitnessHolds, VerifyFollows, ReleaseIsWitnessed, WitnessIsCurrent, ReleaseIsValidated,
     ArchiveIsOfRelease, GoodWitnessVerifies

\* Every step keeps the invariant.
LEMMA ReleaseKeeps ==
  ASSUME ReleaseIInv, [ReleaseNext]_releaseVars
  PROVE  ReleaseIInv'
<1>1. ReleaseTyped /\ LooksAreCurrent /\ ValidationHolds /\ ReceiptsHold /\ ManifestHolds
      /\ WitnessHolds /\ VerifyFollows
  BY DEF ReleaseIInv
<1>. QED
  BY <1>1, ReleaseTypes, LooksStayCurrent, ValidationsHold, ReceiptsStillHold, ManifestsHold,
     WitnessesHold, VerificationsFollow, ReleaseStaysWitnessed DEF ReleaseIInv

\* A release is what its witness says: a valid, quietly verified witness is of the repository
\* as it is, its validations ran and passed on its sources, its archive is of its commit, and
\* a witness of an untouched repository is found valid.
THEOREM ReleaseAlwaysWitnessed == ReleaseSpec => []ReleaseIsWitnessed
<1>1. ReleaseInit => ReleaseIInv
  BY ReleaseStarts
<1>2. ReleaseIInv /\ [ReleaseNext]_releaseVars => ReleaseIInv'
  BY ReleaseKeeps
<1>3. ReleaseIInv => ReleaseIsWitnessed
  BY DEF ReleaseIInv
<1>. QED BY <1>1, <1>2, <1>3, PTL DEF ReleaseSpec

-----------------------------------------------------------------------------
(* Theorems about Lifecycle, for any capabilities, implementations and      *)
(* events.                                                                  *)

\* The state before a state, and the states at and after one.
Before(state) ==
  CASE state = "candidate" -> "observed" [] state = "trial" -> "candidate"
    [] state = "active" -> "trial" [] state = "retired" -> "active"
Since(state) ==
  CASE state = "candidate" -> {"candidate", "trial", "active", "retired"}
    [] state = "trial" -> {"trial", "active", "retired"}
    [] state = "active" -> {"active", "retired"}

\* What an approved transition rests on.
Approved(core) ==
  /\ core.chained = TRUE /\ core.to \in {"observed"} \cup Since("candidate")
  /\ core.to = "observed" => core.from = None
  /\ core.to # "observed" =>
       /\ core.from = Before(core.to)
       /\ core.link \in issued \cup seeds
       /\ core.link.capability = core.capability /\ core.link.to = core.from
  /\ core.to \in Since("candidate") => core.events >= 2
  /\ core.to \in Since("trial") =>
       core.implementation # None /\ \A check \in core.checks : check.passed
  /\ core.to \in Since("active") => core.rollback.target # core.implementation

\* A core from before the chain, which seeds it if it is of a first transition.
Unchained(core) ==
  core.chained = FALSE /\ (core.from = None /\ core.to = "observed" => core \in seeds)

\* However a receipt was edited, its fingerprint is a core that was made.
LifecycleIInv ==
  /\ \A core \in issued : Approved(core)
  /\ \A core \in seeds : core.to = "observed"
  /\ \A r \in transitions :
       /\ DOMAIN r = {"core", "fingerprint", "approved", "next"}
       /\ r.fingerprint \in issued \/ Unchained(r.fingerprint)
-----------------------------------------------------------------------------
\* The positions of the five states.
LEMMA IndexOfState ==
  /\ Index("observed") = 1 /\ Index("candidate") = 2 /\ Index("trial") = 3
  /\ Index("active") = 4 /\ Index("retired") = 5
<1>1. DOMAIN States = 1..5 /\ States[1] = "observed" /\ States[2] = "candidate"
      /\ States[3] = "trial" /\ States[4] = "active" /\ States[5] = "retired"
  BY DEF States
<1>2. \A i, j \in 1..5 : States[i] = States[j] => i = j
  BY <1>1
<1>3. \A i \in 1..5 : Index(States[i]) = i
  BY <1>1, <1>2 DEF Index
<1>. QED BY <1>1, <1>3

\* Each state after the first has its predecessor.
LEMMA StatesInOrder ==
  ASSUME NEW k \in 1..Len(States) - 1
  PROVE  /\ States[k + 1] \in Since("candidate") /\ Before(States[k + 1]) = States[k]
         /\ States[k + 1] = "candidate" => States[k] = "observed"
BY DEF States, Since, Before

\* The two ways to say that a state has been reached agree.
LEMMA AtLeastIsSince ==
  ASSUME NEW s \in Since("candidate")
  PROVE  /\ AtLeast(s, "candidate")
         /\ s \in Since("trial") => AtLeast(s, "trial")
         /\ s \in Since("active") => AtLeast(s, "active")
BY IndexOfState DEF AtLeast, Since

\* An established receipt holds a transition that was approved, or a seed.
LEMMA EstablishedIsMade ==
  ASSUME LifecycleIInv, NEW r \in transitions, NEW c, NEW current, NEW requested,
         Establishes(r, c, current, requested)
  PROVE  /\ r.fingerprint \in issued \cup seeds
         /\ r.fingerprint.capability = c /\ r.fingerprint.to = current
BY DEF LifecycleIInv, Establishes, Intact, LinkHolds, Unchained, Approved

\* Approved transitions stay so when more are made.
LEMMA ApprovedStays ==
  ASSUME issued \subseteq issued', seeds \subseteq seeds', NEW core, Approved(core)
  PROVE  Approved(core)'
BY DEF Approved

\* An observation starts a chain.
LEMMA ObserveKeeps ==
  ASSUME LifecycleIInv, NEW c \in Capability, Observe(c)
  PROVE  LifecycleIInv'
<1>1. PICK p \in Payloads("observed") : Emit(Core(c, None, "observed", p, None))
  BY DEF Observe
<1> DEFINE core == Core(c, None, "observed", p, None)
<1>2. Approved(core)'
  BY DEF Approved, Core, Since
<1>3. /\ transitions' = transitions \cup {Receipt(core)} /\ issued' = issued \cup {core}
      /\ seeds' = seeds
  BY <1>1 DEF Emit
<1> HIDE DEF core
<1>4. /\ DOMAIN Receipt(core) = {"core", "fingerprint", "approved", "next"}
      /\ Receipt(core).fingerprint = core
  BY DEF Receipt
<1>. QED BY <1>2, <1>3, <1>4, ApprovedStays DEF LifecycleIInv, Unchained

\* An advance links to the receipt it was established by.
LEMMA AdvanceKeeps ==
  ASSUME LifecycleIInv, NEW c \in Capability, Advance(c)
  PROVE  LifecycleIInv'
<1>1. PICK r \in transitions, k \in 1..Len(States) - 1 :
        /\ Establishes(r, c, States[k], States[k + 1])
        /\ \E p \in Payloads(States[k + 1]) :
             /\ Supported(States[k + 1], p)
             /\ Emit(Core(c, States[k], States[k + 1], p, r.fingerprint))
  BY DEF Advance
<1>2. PICK p \in Payloads(States[k + 1]) :
        /\ Supported(States[k + 1], p)
        /\ Emit(Core(c, States[k], States[k + 1], p, r.fingerprint))
  BY <1>1
<1> DEFINE core == Core(c, States[k], States[k + 1], p, r.fingerprint)
<1>3. /\ States[k + 1] \in Since("candidate") /\ Before(States[k + 1]) = States[k]
      /\ AtLeast(States[k + 1], "candidate")
      /\ States[k + 1] \in Since("trial") => AtLeast(States[k + 1], "trial")
      /\ States[k + 1] \in Since("active") => AtLeast(States[k + 1], "active")
  BY StatesInOrder, AtLeastIsSince
<1>4. /\ r.fingerprint \in issued \cup seeds
      /\ r.fingerprint.capability = c /\ r.fingerprint.to = States[k]
  BY <1>1, EstablishedIsMade
<1>5. /\ core.chained = TRUE /\ core.to = States[k + 1] /\ core.from = States[k]
      /\ core.link = r.fingerprint /\ core.capability = c
      /\ core.events = DistinctEvents(p.events) /\ core.implementation = p.implementation
      /\ core.checks = p.checks /\ core.rollback = p.rollback
  BY DEF Core
<1>6. /\ transitions' = transitions \cup {Receipt(core)} /\ issued' = issued \cup {core}
      /\ seeds' = seeds
  BY <1>2 DEF Emit
<1> HIDE DEF core
<1>7. Approved(core)'
  <2>1. core.to # "observed"
    BY <1>3, <1>5 DEF Since
  <2>2. core.events >= 2
    BY <1>2, <1>3, <1>5 DEF Supported
  <2>3. core.to \in Since("trial") =>
          core.implementation # None /\ \A check \in core.checks : check.passed
    BY <1>2, <1>3, <1>5 DEF Supported
  <2>4. core.to \in Since("active") => core.rollback.target # core.implementation
    BY <1>2, <1>3, <1>5 DEF Supported, RollbackHolds
  <2>. QED BY <1>3, <1>4, <1>5, <1>6, <2>1, <2>2, <2>3, <2>4 DEF Approved
<1>8. /\ DOMAIN Receipt(core) = {"core", "fingerprint", "approved", "next"}
      /\ Receipt(core).fingerprint = core
  BY DEF Receipt
<1>. QED BY <1>6, <1>7, <1>8, ApprovedStays DEF LifecycleIInv, Unchained

\* An old receipt is outside the chain.
LEMMA KeepOldKeeps ==
  ASSUME LifecycleIInv, NEW c \in Capability, KeepOldReceipt(c)
  PROVE  LifecycleIInv'
<1> DEFINE Old(state) == [Core(c, IF state = "observed" THEN None ELSE "observed", state,
                               [events |-> <<>>, implementation |-> None, checks |-> {},
                                approval |-> FALSE, rollback |-> None], None)
                          EXCEPT !.events = 2, !.chained = FALSE]
<1>1. PICK state \in {"observed", "candidate"} :
        /\ transitions' = transitions \cup {Receipt(Old(state))}
        /\ seeds' = IF state = "observed" THEN seeds \cup {Old(state)} ELSE seeds
  BY DEF KeepOldReceipt
<1>2. issued' = issued
  BY DEF KeepOldReceipt
<1>3. Old(state).chained = FALSE /\ Old(state).to = state
  BY DEF Core
<1> HIDE DEF Old
<1>4. /\ DOMAIN Receipt(Old(state)) = {"core", "fingerprint", "approved", "next"}
      /\ Receipt(Old(state)).fingerprint = Old(state)
  BY DEF Receipt
<1>5. Unchained(Old(state))'
  BY <1>1, <1>3 DEF Unchained
<1>. QED BY <1>1, <1>2, <1>3, <1>4, <1>5, ApprovedStays DEF LifecycleIInv, Unchained

\* No edit touches the fingerprint.
LEMMA EditKeeps ==
  ASSUME LifecycleIInv, EditReceipt
  PROVE  LifecycleIInv'
<1>1. \A r \in transitions' : \E q \in transitions :
        DOMAIN r = DOMAIN q /\ r.fingerprint = q.fingerprint
  <2>1. \A q \in transitions : DOMAIN q = {"core", "fingerprint", "approved", "next"}
    BY DEF LifecycleIInv
  <2>. QED BY <2>1 DEF EditReceipt
<1>2. issued' = issued /\ seeds' = seeds
  BY DEF EditReceipt
<1>. QED BY <1>1, <1>2, ApprovedStays DEF LifecycleIInv, Unchained

\* Every step keeps the invariant.
LEMMA LifecycleKeeps == LifecycleIInv /\ [LifecycleNext]_lifecycleVars => LifecycleIInv'
<1> SUFFICES ASSUME LifecycleIInv, [LifecycleNext]_lifecycleVars PROVE LifecycleIInv'
  OBVIOUS
<1>1. CASE UNCHANGED lifecycleVars
  BY <1>1 DEF lifecycleVars, LifecycleIInv, Approved, Unchained
<1>. QED BY <1>1, ObserveKeeps, AdvanceKeeps, KeepOldKeeps, EditKeeps DEF LifecycleNext

\* The invariant implies what the run checks.
LEMMA LifecycleImplied == LifecycleIInv => LifecycleIsChained
<1> SUFFICES ASSUME LifecycleIInv, NEW core \in issued
             PROVE  /\ core.from # None =>
                         /\ core.link \in issued \cup seeds
                         /\ core.link.capability = core.capability
                         /\ core.link.to = core.from
                    /\ core.to = "active" =>
                         LET trial == core.link
                             candidate == trial.link IN
                         /\ candidate.to = "candidate" /\ candidate.events >= 2
                         /\ trial.implementation # None
                         /\ \A check \in trial.checks \cup core.checks : check.passed
                         /\ core.rollback.target # core.implementation
  BY DEF LifecycleIsChained
<1>1. Approved(core)
  BY DEF LifecycleIInv
<1>2. CASE core.to = "active"
  <2>1. /\ core.link \in issued \cup seeds /\ core.link.to = "trial"
        /\ core.rollback.target # core.implementation
        /\ \A check \in core.checks : check.passed
    BY <1>1, <1>2 DEF Approved, Before, Since
  <2>2. core.link \in issued /\ Approved(core.link)
    BY <2>1 DEF LifecycleIInv
  <2>3. /\ core.link.link \in issued \cup seeds /\ core.link.link.to = "candidate"
        /\ core.link.implementation # None /\ \A check \in core.link.checks : check.passed
    BY <2>1, <2>2 DEF Approved, Before, Since
  <2>4. core.link.link \in issued /\ Approved(core.link.link)
    BY <2>3 DEF LifecycleIInv
  <2>5. core.link.link.events >= 2
    BY <2>3, <2>4 DEF Approved, Since
  <2>. QED BY <1>1, <1>2, <2>1, <2>3, <2>5 DEF Approved
<1>. QED BY <1>1, <1>2 DEF Approved

\* Capabilities: every approved transition follows on an approved one or a seed of the
\* same capability, so what is active was a candidate and was tried.
THEOREM LifecycleStaysChained == LifecycleSpec => []LifecycleIsChained
<1>1. LifecycleInit => LifecycleIInv
  BY DEF LifecycleInit, LifecycleIInv
<1>. QED BY <1>1, LifecycleKeeps, LifecycleImplied, PTL DEF LifecycleSpec

-----------------------------------------------------------------------------
(* Theorems about Research, for any experiments, hypotheses and evidence.   *)

\* What is registered was in order when it was, and an evaluation comes after the last
\* registration.
ResearchIInv ==
  /\ obtained \in BOOLEAN
  /\ \A plan \in registered : Registrable(plan)
  /\ evaluation # None => obtained
  /\ ResearchIsRegistered

\* An evaluation of a registered plan reports what was registered.
LEMMA EvaluationIsRegistered ==
  ASSUME ResearchIInv, Evaluate
  PROVE  ResearchIsRegistered'
<1>1. PICK packet \in Packets :
        /\ Frozen(packet) /\ ResultsHold(packet)
        /\ evaluation' = [hash |-> packet.hash, reported |-> packet.reported,
                          evidence |-> packet.evidence, verdict |-> packet.verdict,
                          complete |-> ResearchComplete(packet)]
  BY DEF Evaluate
<1>2. registered' = registered /\ packet.hash = packet.plan
  BY <1>1 DEF Evaluate, Frozen
<1>3. evaluation'.hash = packet.plan /\ evaluation'.reported = packet.reported
      /\ evaluation'.evidence = packet.evidence
  BY <1>1, <1>2
<1>4. evaluation'.complete => Missing(packet) = {} /\ Open(packet) = {}
  BY <1>1 DEF ResearchComplete
<1>5. ASSUME packet.plan \in registered, NEW e \in DOMAIN packet.reported
      PROVE  /\ packet.reported[e].mode = "confirmatory" =>
                  /\ e \in DOMAIN packet.plan.experiments
                  /\ packet.plan.experiments[e].mode = "confirmatory"
                  /\ packet.plan.experiments[e].hypothesis \in packet.plan.hypotheses
             /\ packet.reported[e].evidence \subseteq packet.evidence
  BY <1>1, <1>5 DEF ResultsHold, PlannedAs, ResearchIInv, Registrable
<1>6. ASSUME Missing(packet) = {}, Open(packet) = {}, NEW e \in DOMAIN packet.plan.experiments,
             packet.plan.experiments[e].mode = "confirmatory"
      PROVE  e \in DOMAIN packet.reported /\ packet.reported[e].closed
  BY <1>6 DEF Missing, Open, PlannedAs
<1>. QED BY <1>2, <1>3, <1>4, <1>5, <1>6 DEF ResearchIsRegistered

\* Every step keeps the invariant.
LEMMA ResearchKeeps == ResearchIInv /\ [ResearchNext]_researchVars => ResearchIInv'
<1> SUFFICES ASSUME ResearchIInv, [ResearchNext]_researchVars PROVE ResearchIInv'
  OBVIOUS
<1>1. CASE Preregister
  BY <1>1 DEF Preregister, ResearchIInv, ResearchIsRegistered
<1>2. CASE ObtainResults
  BY <1>2 DEF ObtainResults, ResearchIInv, ResearchIsRegistered
<1>3. CASE Evaluate
  BY <1>3, EvaluationIsRegistered DEF Evaluate, ResearchIInv
<1>4. CASE UNCHANGED researchVars
  BY <1>4 DEF researchVars, ResearchIInv, ResearchIsRegistered
<1>. QED BY <1>1, <1>2, <1>3, <1>4 DEF ResearchNext

\* Research: under a hash that was registered before the results, nothing becomes
\* confirmatory afterwards.
THEOREM ResearchStaysRegistered == ResearchSpec => []ResearchIsRegistered
<1>1. ResearchInit => ResearchIInv
  BY DEF ResearchInit, ResearchIInv, ResearchIsRegistered
<1>2. ResearchIInv => ResearchIsRegistered
  BY DEF ResearchIInv
<1>. QED BY <1>1, <1>2, ResearchKeeps, PTL DEF ResearchSpec

-----------------------------------------------------------------------------
(* Theorems about Syntheses, for any findings and passes and any number of  *)
(* them. What is made of reports is computed from the set of what was said, *)
(* by an induction over the reports, so their order cannot matter; and       *)
(* sorting ranks each item by how many are above it.                        *)

\* The least number of a set.
LEMMA LeastOf ==
  ASSUME NEW N \in Nat, NEW S \in SUBSET (0..N), S # {}
  PROVE  \E m \in S : \A k \in S : m <= k
<1> DEFINE Less == {ss \in Nat \X Nat : ss[1] < ss[2]}
<1>1. IsWellFoundedOn(Less, Nat)
  BY NatLessThanWellFounded DEF OpToRel
<1>2. S \subseteq Nat
  OBVIOUS
<1>3. PICK m \in S : \A k \in S : <<k, m>> \notin Less
  <2> HIDE DEF Less
  <2> QED BY <1>1, <1>2, WFMin
<1>4. \A k \in S : ~(k < m)
  BY <1>2, <1>3
<1> QED BY <1>2, <1>4

\* What holds of 0 and of the number after each that it holds of.
LEMMA InductionTo ==
  ASSUME NEW N \in Nat, NEW S, 0 \in S,
         \A n \in 0..N : n < N /\ n \in S => n + 1 \in S
  PROVE  \A n \in 0..N : n \in S
<1> DEFINE T == {n \in 0..N : n \notin S}
<1> SUFFICES ASSUME T # {} PROVE FALSE
  OBVIOUS
<1>1. T \in SUBSET (0..N)
  OBVIOUS
<1>2. PICK m \in T : \A k \in T : m <= k
  <2> HIDE DEF T
  <2> QED BY <1>1, LeastOf
<1>3. m # 0 /\ m - 1 \in 0..N /\ m - 1 < N /\ m \notin S
  BY <1>2
<1>4. m - 1 \in S
  <2> SUFFICES ASSUME m - 1 \in T PROVE FALSE
    BY <1>3
  <2> QED BY <1>2, <1>3
<1>5. (m - 1) + 1 = m
  BY <1>2
<1> QED BY <1>3, <1>4, <1>5

\* What a function makes of finitely many values.
LEMMA FiniteValues ==
  ASSUME NEW S, IsFiniteSet(S), NEW g, DOMAIN g = S
  PROVE  IsFiniteSet({g[x] : x \in S})
<1> DEFINE T == {g[x] : x \in S}
           h == [x \in S |-> g[x]]
<1>1. h \in [S -> T] /\ \A t \in T : \E x \in S : h[x] = t
  OBVIOUS
<1>2. h \in Surjection(S, T)
  <2> HIDE DEF h, T
  <2> QED BY <1>1 DEF Surjection
<1> HIDE DEF h, T
<1>3. IsFiniteSet(T)
  BY <1>2, FS_Surjection
<1> QED BY <1>3 DEF T

-----------------------------------------------------------------------------
(* What is sorted.                                                         *)

\* Relations by which a set is sorted.
Sorts(above, S) ==
  /\ \A a \in S : <<a, a>> \notin above
  /\ \A a, b, c \in S : <<a, b>> \in above /\ <<b, c>> \in above => <<a, c>> \in above
  /\ \A a, b \in S : a # b => <<a, b>> \in above \/ <<b, a>> \in above

\* Sorted items are items, and each one is above those after it.
LEMMA SortedInOrder ==
  ASSUME NEW S, IsFiniteSet(S), NEW above, Sorts(above, S)
  PROVE  /\ Cardinality(S) \in Nat
         /\ DOMAIN InOrder(S, above) = 1..Cardinality(S)
         /\ \A r \in 1..Cardinality(S) : InOrder(S, above)[r] \in S
         /\ \A q, r \in 1..Cardinality(S) :
              q < r => <<InOrder(S, above)[q], InOrder(S, above)[r]>> \in above
<1> DEFINE c == Cardinality(S)
           Ahead(r) == {q \in S : <<q, r>> \in above}
           o == InOrder(S, above)
<1>1. c \in Nat
  BY FS_CardinalityType
<1>2. \A r : IsFiniteSet(Ahead(r)) /\ Cardinality(Ahead(r)) \in Nat
  <2> TAKE r
  <2>1. Ahead(r) \in SUBSET S
    OBVIOUS
  <2> QED BY <2>1, FS_Subset, FS_CardinalityType
<1>3. ASSUME NEW q \in S, NEW r \in S, <<q, r>> \in above
      PROVE  Cardinality(Ahead(q)) < Cardinality(Ahead(r))
  <2>1. Ahead(q) \in SUBSET (Ahead(r) \ {q}) /\ q \in Ahead(r)
    <3>1. \A p \in S : <<p, q>> \in above => <<p, r>> \in above /\ p # q
      BY <1>3 DEF Sorts
    <3> QED BY <1>3, <3>1
  <2> DEFINE A == Ahead(q)
             B == Ahead(r)
  <2>2. IsFiniteSet(A) /\ IsFiniteSet(B) /\ Cardinality(A) \in Nat /\ Cardinality(B) \in Nat
    BY <1>2
  <2>3. A \in SUBSET (B \ {q}) /\ q \in B
    BY <2>1
  <2> HIDE DEF A, B
  <2>4. IsFiniteSet(B \ {q}) /\ Cardinality(B \ {q}) = Cardinality(B) - 1
    BY <2>2, <2>3, FS_RemoveElement
  <2>5. Cardinality(A) <= Cardinality(B \ {q})
    BY <2>3, <2>4, FS_Subset
  <2>6. Cardinality(A) < Cardinality(B)
    BY <2>2, <2>4, <2>5
  <2> QED BY <2>6 DEF A, B
<1>4. ASSUME NEW r \in S PROVE Cardinality(Ahead(r)) \in 0..c - 1
  <2>1. Ahead(r) \in SUBSET (S \ {r})
    BY DEF Sorts
  <2>2. IsFiniteSet(S \ {r}) /\ Cardinality(S \ {r}) = c - 1
    BY FS_RemoveElement
  <2>3. Cardinality(Ahead(r)) <= Cardinality(S \ {r})
    BY <2>1, <2>2, FS_Subset
  <2> DEFINE n == Cardinality(Ahead(r))
  <2>4. n \in Nat /\ n <= c - 1
    BY <1>2, <2>2, <2>3
  <2> HIDE DEF n, c
  <2>5. n \in 0..c - 1
    BY <1>1, <2>4
  <2> QED BY <2>5 DEF n
<1>5. ASSUME NEW n \in 0..c - 1 PROVE \E r \in S : Cardinality(Ahead(r)) = n
  <2> DEFINE g == [r \in S |-> Cardinality(Ahead(r))]
  <2>1. g \in [S -> 0..c - 1]
    BY <1>4
  <2>2. \A q, r \in S : g[q] = g[r] => q = r
    <3> SUFFICES ASSUME NEW q \in S, NEW r \in S, q # r PROVE g[q] # g[r]
      OBVIOUS
    <3>1. <<q, r>> \in above \/ <<r, q>> \in above
      BY DEF Sorts
    <3>2. Cardinality(Ahead(q)) < Cardinality(Ahead(r)) \/ Cardinality(Ahead(r)) < Cardinality(Ahead(q))
      BY <1>3, <3>1
    <3> DEFINE A == Cardinality(Ahead(q))
               B == Cardinality(Ahead(r))
    <3>3. A \in Nat /\ B \in Nat /\ (A < B \/ B < A)
      BY <1>2, <3>2
    <3> HIDE DEF A, B
    <3>4. A # B
      BY <3>3
    <3> USE DEF A, B
    <3>5. Cardinality(Ahead(q)) # Cardinality(Ahead(r))
      BY <3>4
    <3> QED BY <3>5
  <2>3. g \in Injection(S, 0..c - 1)
    <3> HIDE DEF g
    <3> QED BY <2>1, <2>2 DEF Injection, IsInjective
  <2>4. IsFiniteSet(0..c - 1) /\ Cardinality(0..c - 1) = c
    BY <1>1, FS_Interval
  <2>5. g \in Surjection(S, 0..c - 1)
    <3> HIDE DEF g
    <3> QED BY <2>3, <2>4, FS_Injection
  <2>6. \E r \in S : g[r] = n
    <3> HIDE DEF g
    <3> QED BY <2>5 DEF Surjection
  <2> QED BY <2>6
<1>6. DOMAIN o = 1..c
  BY DEF InOrder
<1>7. ASSUME NEW r \in 1..c PROVE o[r] \in S /\ Cardinality(Ahead(o[r])) = r - 1
  <2>1. o[r] = CHOOSE i \in S : Cardinality(Ahead(i)) = r - 1
    BY DEF InOrder
  <2>2. r - 1 \in 0..c - 1
    BY <1>1
  <2>3. \E i \in S : Cardinality(Ahead(i)) = r - 1
    BY <1>5, <2>2
  <2> HIDE DEF o, Ahead
  <2> QED BY <2>1, <2>3
<1>8. ASSUME NEW q \in 1..c, NEW r \in 1..c, q < r PROVE <<o[q], o[r]>> \in above
  <2> DEFINE A == Cardinality(Ahead(o[q]))
             B == Cardinality(Ahead(o[r]))
  <2>1. o[q] \in S /\ A = q - 1 /\ o[r] \in S /\ B = r - 1
    <3> HIDE DEF o
    <3> QED BY <1>7
  <2>2. q \in Nat /\ r \in Nat
    <3> HIDE DEF c
    <3> QED BY <1>1
  <2>3. A < B
    <3> HIDE DEF A, B, c
    <3> QED BY <2>1, <2>2, <1>8
  <2>4. ~(B < A) /\ A # B
    <3>1. A \in Nat /\ B \in Nat
      BY <1>2
    <3> HIDE DEF A, B, c
    <3> QED BY <2>3, <3>1
  <2>5. o[q] # o[r]
    <3> HIDE DEF o
    <3> QED BY <2>4
  <2>6. <<o[r], o[q]>> \notin above
    <3> HIDE DEF o
    <3> QED BY <1>3, <2>1, <2>4
  <2> HIDE DEF o, A, B
  <2> QED BY <2>1, <2>5, <2>6 DEF Sorts
<1> QED BY <1>1, <1>6, <1>7, <1>8
-----------------------------------------------------------------------------
(* Levels of several reports.                                              *)

Lowest(S) == CHOOSE x \in S : \A y \in S : x <= y
Highest(S) == CHOOSE x \in S : \A y \in S : y <= x

\* A lowest and a highest level there is.
LEMMA LowestIs ==
  ASSUME NEW S \in SUBSET Levels, S # {}
  PROVE  /\ Lowest(S) \in S /\ \A y \in S : Lowest(S) <= y
         /\ Highest(S) \in S /\ \A y \in S : y <= Highest(S)
<1>1. S \subseteq {0, 1, 2}
  BY DEF Levels
<1>2. \E x \in S : \A y \in S : x <= y
  <2>1. CASE 0 \in S
    BY <1>1, <2>1
  <2>2. CASE 0 \notin S /\ 1 \in S
    BY <1>1, <2>2
  <2>3. CASE 0 \notin S /\ 1 \notin S
    <3>1. S = {2}
      BY <1>1, <2>3
    <3> QED BY <3>1
  <2> QED BY <2>1, <2>2, <2>3
<1>3. \E x \in S : \A y \in S : y <= x
  <2>1. CASE 2 \in S
    BY <1>1, <2>1
  <2>2. CASE 2 \notin S /\ 1 \in S
    BY <1>1, <2>2
  <2>3. CASE 2 \notin S /\ 1 \notin S
    <3>1. S = {0}
      BY <1>1, <2>3
    <3> QED BY <3>1
  <2> QED BY <2>1, <2>2, <2>3
<1> QED BY <1>2, <1>3 DEF Lowest, Highest

\* One more level.
LEMMA LowestWith ==
  ASSUME NEW S \in SUBSET Levels, S # {}, NEW x \in Levels
  PROVE  Lowest(S \cup {x}) = Least(Lowest(S), x) /\ Highest(S \cup {x}) = Most(Highest(S), x)
<1> DEFINE T == S \cup {x}
<1>1. T \in SUBSET Levels /\ T # {}
  OBVIOUS
<1>2. /\ Lowest(S) \in S /\ \A y \in S : Lowest(S) <= y
      /\ Highest(S) \in S /\ \A y \in S : y <= Highest(S)
  BY LowestIs
<1> HIDE DEF T
<1>3. /\ Lowest(T) \in T /\ \A y \in T : Lowest(T) <= y
      /\ Highest(T) \in T /\ \A y \in T : y <= Highest(T)
  BY <1>1, LowestIs
<1>4. \A y \in T : y \in Nat
  BY <1>1 DEF Levels
<1>5. \A y : y \in T <=> y \in S \/ y = x
  BY DEF T
<1>6. Lowest(T) = Least(Lowest(S), x)
  BY <1>2, <1>3, <1>4, <1>5 DEF Least
<1>7. Highest(T) = Most(Highest(S), x)
  BY <1>2, <1>3, <1>4, <1>5 DEF Most
<1> QED BY <1>6, <1>7 DEF T

\* A level alone.
LEMMA LowestAlone ==
  ASSUME NEW x \in Levels
  PROVE  Lowest({x}) = x /\ Highest({x}) = x
<1>1. {x} \in SUBSET Levels /\ {x} # {}
  OBVIOUS
<1> QED BY <1>1, LowestIs

-----------------------------------------------------------------------------
(* The hypotheses of a set of findings.                                    *)

On(V, key) == {f \in V : f.key = key}

\* What is known under a key.
Known(V, key) ==
  [key |-> key, confidence |-> Lowest({f.confidence : f \in On(V, key)}),
   evidence |-> UNION {f.evidence : f \in On(V, key)}]

Hypothesized(V) == [key \in {f.key : f \in V} |-> Known(V, key)]

\* One finding joins.
LEMMA JoinedHypothesized ==
  ASSUME NEW V \in SUBSET Hypotheses, NEW f \in Hypotheses
  PROVE  Joined(Hypothesized(V), f) = Hypothesized(V \cup {f})
<1> DEFINE g == Hypothesized(V)
           W == V \cup {f}
           K == {e.key : e \in V}
<1>1. DOMAIN g = K /\ \A key \in K : g[key] = Known(V, key)
  BY DEF Hypothesized
<1>2. {e.key : e \in W} = K \cup {f.key}
  OBVIOUS
<1>3. Joined(g, f) = [key \in K \cup {f.key} |->
        IF key # f.key THEN g[key]
        ELSE IF key \notin K THEN HypothesisOf(f)
        ELSE [g[key] EXCEPT !.evidence = @ \cup f.evidence,
                            !.confidence = Least(@, f.confidence)]]
  BY <1>1 DEF Joined
<1>4. Hypothesized(W) = [key \in K \cup {f.key} |-> Known(W, key)]
  BY <1>2 DEF Hypothesized
<1>5. ASSUME NEW key \in K, key # f.key PROVE g[key] = Known(W, key)
  <2>1. On(W, key) = On(V, key)
    BY <1>5 DEF On
  <2> QED BY <1>1, <2>1 DEF Known
<1>6. ASSUME f.key \notin K PROVE HypothesisOf(f) = Known(W, f.key)
  <2>1. On(W, f.key) = {f}
    BY <1>6 DEF On
  <2>2. {e.confidence : e \in {f}} = {f.confidence} /\ UNION {e.evidence : e \in {f}} = f.evidence
    OBVIOUS
  <2>3. Lowest({f.confidence}) = f.confidence
    BY LowestAlone, SynthesesConstants
  <2> QED BY <2>1, <2>2, <2>3 DEF Known, HypothesisOf
<1>7. ASSUME f.key \in K
      PROVE  [g[f.key] EXCEPT !.evidence = @ \cup f.evidence,
                              !.confidence = Least(@, f.confidence)] = Known(W, f.key)
  <2> DEFINE C == {e.confidence : e \in On(V, f.key)}
             E == UNION {e.evidence : e \in On(V, f.key)}
  <2>1. On(W, f.key) = On(V, f.key) \cup {f}
    BY DEF On
  <2>2. {e.confidence : e \in On(W, f.key)} = C \cup {f.confidence}
    BY <2>1
  <2>3. UNION {e.evidence : e \in On(W, f.key)} = E \cup f.evidence
    BY <2>1
  <2>4. C \in SUBSET Levels /\ C # {} /\ f.confidence \in Levels
    BY <1>7, SynthesesConstants DEF On
  <2>5. Lowest(C \cup {f.confidence}) = Least(Lowest(C), f.confidence)
    <3> HIDE DEF C
    <3> QED BY <2>4, LowestWith
  <2>6. Known(W, f.key) = [key |-> f.key, confidence |-> Least(Lowest(C), f.confidence),
                           evidence |-> E \cup f.evidence]
    BY <2>2, <2>3, <2>5 DEF Known
  <2>7. g[f.key] = [key |-> f.key, confidence |-> Lowest(C), evidence |-> E]
    BY <1>1, <1>7 DEF Known
  <2> DEFINE r == g[f.key]
  <2>8. r = [key |-> f.key, confidence |-> Lowest(C), evidence |-> E]
    BY <2>7
  <2> DEFINE q == [r EXCEPT !.evidence = @ \cup f.evidence, !.confidence = Least(@, f.confidence)]
  <2> HIDE DEF C, E, r
  <2>9. DOMAIN q = {"key", "confidence", "evidence"}
    BY <2>8
  <2>10. q.key = f.key /\ q.confidence = Least(Lowest(C), f.confidence) /\ q.evidence = E \cup f.evidence
    BY <2>8
  <2>11. q = [j \in DOMAIN q |-> q[j]]
    OBVIOUS
  <2> HIDE DEF q
  <2>12. q = Known(W, f.key)
    BY <2>6, <2>9, <2>10, <2>11
  <2> QED BY <2>12 DEF q, r
<1> HIDE DEF g, K, W
<1>8. \A key \in K \cup {f.key} :
        Known(W, key) = IF key # f.key THEN g[key]
                        ELSE IF key \notin K THEN HypothesisOf(f)
                        ELSE [g[key] EXCEPT !.evidence = @ \cup f.evidence,
                                            !.confidence = Least(@, f.confidence)]
  BY <1>5, <1>6, <1>7
<1>9. Joined(g, f) = Hypothesized(W)
  BY <1>3, <1>4, <1>8
<1> QED BY <1>9 DEF g, W

SaidBy(s, k) == {s[i] : i \in 1..k}

\* What was said before each report.
LEMMA BeforeNext ==
  ASSUME NEW S, NEW s \in Seq(S)
  PROVE  /\ SaidBy(s, 0) = {} /\ SaidBy(s, Len(s)) \in SUBSET S
         /\ \A k \in 1..Len(s) : /\ s[k] \in S /\ SaidBy(s, k - 1) \in SUBSET S
                                 /\ SaidBy(s, k) = SaidBy(s, k - 1) \cup {s[k]}
<1>1. Len(s) \in Nat /\ \A i \in 1..Len(s) : s[i] \in S
  OBVIOUS
<1>2. SaidBy(s, 0) = {}
  BY DEF SaidBy
<1>3. SaidBy(s, Len(s)) \in SUBSET S
  BY <1>1 DEF SaidBy
<1>4. ASSUME NEW k \in 1..Len(s)
      PROVE  /\ s[k] \in S /\ SaidBy(s, k - 1) \in SUBSET S
             /\ SaidBy(s, k) = SaidBy(s, k - 1) \cup {s[k]}
  <2>1. 1..k = (1..(k - 1)) \cup {k} /\ \A i \in 1..(k - 1) : i \in 1..Len(s)
    BY <1>1
  <2> QED BY <1>1, <2>1 DEF SaidBy
<1> QED BY <1>2, <1>3, <1>4

\* Findings grouped one by one are those of their set.
LEMMA GroupedIs ==
  ASSUME NEW s \in Seq(Hypotheses)
  PROVE  Grouped(s) = Hypothesized(SaidBy(s, Len(s)))
<1> DEFINE n == Len(s)
           Rule(a) == [k \in 0..n |-> IF k = 0 THEN NoGroups ELSE Joined(a[k - 1], s[k])]
           after == CHOOSE a : a = Rule(a)
           h == [k \in 0..n |-> Hypothesized(SaidBy(s, k))]
<1>1. n \in Nat
  OBVIOUS
<1>2. Hypothesized({}) = NoGroups
  BY DEF Hypothesized, NoGroups
<1>3. \A k \in 1..n : Joined(Hypothesized(SaidBy(s, k - 1)), s[k]) = Hypothesized(SaidBy(s, k))
  <2> TAKE k \in 1..n
  <2>1. /\ s[k] \in Hypotheses /\ SaidBy(s, k - 1) \in SUBSET Hypotheses
        /\ SaidBy(s, k) = SaidBy(s, k - 1) \cup {s[k]}
    BY BeforeNext
  <2> QED BY <2>1, JoinedHypothesized
<1>4. h = Rule(h)
  <2>1. \A k \in 0..n : k # 0 => k \in 1..n /\ k - 1 \in 0..n
    BY <1>1
  <2>2. SaidBy(s, 0) = {}
    BY BeforeNext
  <2>3. \A k \in 0..n : h[k] = IF k = 0 THEN NoGroups ELSE Joined(h[k - 1], s[k])
    <3> TAKE k \in 0..n
    <3>1. CASE k = 0
      BY <1>2, <2>2, <3>1
    <3>2. CASE k # 0
      <4>1. h[k] = Hypothesized(SaidBy(s, k)) /\ h[k - 1] = Hypothesized(SaidBy(s, k - 1))
        BY <2>1, <3>2
      <4> QED BY <1>3, <2>1, <3>2, <4>1
    <3> QED BY <3>1, <3>2
  <2>4. h = [k \in 0..n |-> h[k]]
    OBVIOUS
  <2> HIDE DEF h, n
  <2> QED BY <2>3, <2>4
<1>5. after = Rule(after)
  <2> HIDE DEF h
  <2> QED BY <1>4
<1>6. \A k \in 0..n : after[k] = h[k]
  <2> DEFINE S == {k \in 0..n : after[k] = h[k]}
  <2> HIDE DEF after, h
  <2>1. 0 \in S
    <3>1. 0 \in 0..n
      BY <1>1
    <3> QED BY <1>4, <1>5, <3>1
  <2>2. ASSUME NEW k \in 0..n, k < n, k \in S PROVE k + 1 \in S
    <3>1. k + 1 \in 0..n /\ k + 1 # 0 /\ (k + 1) - 1 = k
      BY <1>1, <2>2
    <3>2. after[k] = h[k]
      BY <2>2
    <3> HIDE DEF n
    <3>3. after[k + 1] = Joined(after[k], s[k + 1]) /\ h[k + 1] = Joined(h[k], s[k + 1])
      BY <1>4, <1>5, <3>1
    <3> QED BY <3>1, <3>2, <3>3
  <2> HIDE DEF S, n
  <2>3. \A k \in 0..n : k \in S
    BY <1>1, <2>1, <2>2, InductionTo
  <2> QED BY <2>3 DEF S
<1>7. Grouped(s) = after[n]
  BY DEF Grouped
<1>8. n \in 0..n /\ h[n] = Hypothesized(SaidBy(s, n))
  BY <1>1
<1> HIDE DEF after, h
<1> QED BY <1>6, <1>7, <1>8

-----------------------------------------------------------------------------
(* The issues of a set of findings.                                        *)

\* A key on both axes.
Crossing(V) == \E e, f \in V : e.key = f.key /\ e.axis # f.axis

AxisOf(V, key) == CHOOSE axis \in Axes : \E f \in On(V, key) : f.axis = axis

\* What is raised under a key.
Stated(V, key) ==
  [key |-> key, axis |-> AxisOf(V, key), severity |-> Highest({f.severity : f \in On(V, key)}),
   confidence |-> Lowest({f.confidence : f \in On(V, key)}),
   problems |-> {f.problem : f \in On(V, key)}, evidence |-> UNION {f.evidence : f \in On(V, key)}]

Materialized(V) ==
  IF Crossing(V) THEN Raised
  ELSE [crossed |-> FALSE, by |-> [key \in {f.key : f \in V} |-> Stated(V, key)]]

\* The findings of a key name its axis unless one crosses.
LEMMA AxisOfIs ==
  ASSUME NEW V \in SUBSET Issues, ~Crossing(V), NEW f \in V
  PROVE  AxisOf(V, f.key) = f.axis
<1>1. f.axis \in Axes /\ f \in On(V, f.key)
  BY SynthesesConstants DEF On
<1>2. \A axis \in Axes : (\E e \in On(V, f.key) : e.axis = axis) => axis = f.axis
  BY DEF Crossing, On
<1> QED BY <1>1, <1>2 DEF AxisOf

\* One finding is merged.
LEMMA MergedMaterialized ==
  ASSUME NEW V \in SUBSET Issues, NEW f \in Issues
  PROVE  Merged(Materialized(V), f) = Materialized(V \cup {f})
<1> DEFINE W == V \cup {f}
           K == {e.key : e \in V}
           g == [key \in K |-> Stated(V, key)]
           One(key) == IF key # f.key THEN g[key]
                       ELSE IF key \notin K THEN Issue(f)
                       ELSE [g[key] EXCEPT !.evidence = @ \cup f.evidence,
                                           !.problems = @ \cup {f.problem},
                                           !.severity = Most(@, f.severity),
                                           !.confidence = Least(@, f.confidence)]
<1>1. CASE Crossing(V)
  <2>1. Crossing(W)
    BY <1>1 DEF Crossing
  <2> QED BY <1>1, <2>1 DEF Materialized, Merged, Raised
<1>2. CASE ~Crossing(V)
  <2>1. Materialized(V) = [crossed |-> FALSE, by |-> g]
    BY <1>2 DEF Materialized
  <2>2. \A e \in V : g[e.key] = Stated(V, e.key) /\ Stated(V, e.key).axis = e.axis
    BY <1>2, AxisOfIs DEF Stated
  <2>3. Crosses(g, f) <=> \E e \in V : e.key = f.key /\ e.axis # f.axis
    BY <2>2 DEF Crosses
  <2>4. Crosses(g, f) <=> Crossing(W)
    BY <1>2, <2>3 DEF Crossing
  <2>5. CASE Crossing(W)
    <3>1. Crosses(Materialized(V).by, f)
      <4> HIDE DEF g
      <4> QED BY <2>1, <2>4, <2>5
    <3> QED BY <2>5, <3>1 DEF Materialized, Merged
  <2>6. CASE ~Crossing(W)
    <3>1. {e.key : e \in W} = K \cup {f.key}
      OBVIOUS
    <3>2. Materialized(W) = [crossed |-> FALSE, by |-> [key \in K \cup {f.key} |-> Stated(W, key)]]
      BY <2>6, <3>1 DEF Materialized
    <3>3. Merged(Materialized(V), f) = [crossed |-> FALSE, by |-> [key \in K \cup {f.key} |-> One(key)]]
      <4> DEFINE m == Materialized(V)
      <4>1. m.crossed = FALSE /\ m.by = g
        <5> HIDE DEF g
        <5> QED BY <2>1
      <4>2. ~(m.crossed \/ Crosses(m.by, f))
        <5> HIDE DEF g, m
        <5> QED BY <2>4, <2>6, <4>1
      <4>3. DOMAIN g = K
        OBVIOUS
      <4>4. Merged(m, f) = [crossed |-> FALSE, by |-> [key \in DOMAIN m.by \cup {f.key} |->
              IF key # f.key THEN m.by[key]
              ELSE IF key \notin DOMAIN m.by THEN Issue(f)
              ELSE [m.by[key] EXCEPT !.evidence = @ \cup f.evidence,
                                     !.problems = @ \cup {f.problem},
                                     !.severity = Most(@, f.severity),
                                     !.confidence = Least(@, f.confidence)]]]
        <5> HIDE DEF m
        <5> QED BY <4>2 DEF Merged
      <4> HIDE DEF g, K
      <4> QED BY <4>1, <4>3, <4>4
    <3>4. ASSUME NEW key \in K, key # f.key PROVE g[key] = Stated(W, key)
      <4>1. On(W, key) = On(V, key)
        BY <3>4 DEF On
      <4> QED BY <4>1 DEF Stated, AxisOf
    <3>5. ASSUME f.key \notin K PROVE Issue(f) = Stated(W, f.key)
      <4>1. On(W, f.key) = {f}
        BY <3>5 DEF On
      <4>2. /\ {e.confidence : e \in {f}} = {f.confidence} /\ {e.severity : e \in {f}} = {f.severity}
            /\ {e.problem : e \in {f}} = {f.problem} /\ UNION {e.evidence : e \in {f}} = f.evidence
        OBVIOUS
      <4>3. Lowest({f.confidence}) = f.confidence /\ Highest({f.severity}) = f.severity
        BY LowestAlone, SynthesesConstants
      <4>4. AxisOf(W, f.key) = f.axis
        BY <2>6, AxisOfIs
      <4> QED BY <4>1, <4>2, <4>3, <4>4 DEF Stated, Issue
    <3>6. ASSUME f.key \in K PROVE One(f.key) = Stated(W, f.key)
      <4> DEFINE C == {e.confidence : e \in On(V, f.key)}
                 S == {e.severity : e \in On(V, f.key)}
                 P == {e.problem : e \in On(V, f.key)}
                 E == UNION {e.evidence : e \in On(V, f.key)}
                 r == g[f.key]
      <4>1. On(W, f.key) = On(V, f.key) \cup {f}
        BY DEF On
      <4>2. /\ {e.confidence : e \in On(W, f.key)} = C \cup {f.confidence}
            /\ {e.severity : e \in On(W, f.key)} = S \cup {f.severity}
            /\ {e.problem : e \in On(W, f.key)} = P \cup {f.problem}
            /\ UNION {e.evidence : e \in On(W, f.key)} = E \cup f.evidence
        BY <4>1
      <4>3. /\ C \in SUBSET Levels /\ C # {} /\ f.confidence \in Levels
            /\ S \in SUBSET Levels /\ S # {} /\ f.severity \in Levels
        BY <3>6, SynthesesConstants DEF On
      <4>4. /\ Lowest(C \cup {f.confidence}) = Least(Lowest(C), f.confidence)
            /\ Highest(S \cup {f.severity}) = Most(Highest(S), f.severity)
        <5> HIDE DEF C, S
        <5> QED BY <4>3, LowestWith
      <4>5. PICK e \in V : e.key = f.key
        BY <3>6
      <4>6. AxisOf(V, f.key) = e.axis /\ AxisOf(W, f.key) = e.axis
        BY <1>2, <2>6, <4>5, AxisOfIs
      <4>7. Stated(W, f.key) =
              [key |-> f.key, axis |-> e.axis, severity |-> Most(Highest(S), f.severity),
               confidence |-> Least(Lowest(C), f.confidence), problems |-> P \cup {f.problem},
               evidence |-> E \cup f.evidence]
        BY <4>2, <4>4, <4>6 DEF Stated
      <4>8. r = [key |-> f.key, axis |-> e.axis, severity |-> Highest(S),
                 confidence |-> Lowest(C), problems |-> P, evidence |-> E]
        BY <3>6, <4>6 DEF Stated
      <4>9. One(f.key) = [r EXCEPT !.evidence = @ \cup f.evidence,
                                   !.problems = @ \cup {f.problem},
                                   !.severity = Most(@, f.severity),
                                   !.confidence = Least(@, f.confidence)]
        BY <3>6
      <4> DEFINE q == [r EXCEPT !.evidence = @ \cup f.evidence,
                                !.problems = @ \cup {f.problem},
                                !.severity = Most(@, f.severity),
                                !.confidence = Least(@, f.confidence)]
      <4> HIDE DEF C, S, P, E, r, One
      <4>10. DOMAIN q = {"key", "axis", "severity", "confidence", "problems", "evidence"}
        BY <4>8
      <4>11. q.key = f.key /\ q.axis = e.axis /\ q.severity = Most(Highest(S), f.severity)
        BY <4>8
      <4>12. /\ q.confidence = Least(Lowest(C), f.confidence)
             /\ q.problems = P \cup {f.problem} /\ q.evidence = E \cup f.evidence
        BY <4>8
      <4>13. q = [j \in DOMAIN q |-> q[j]]
        OBVIOUS
      <4>14. One(f.key) = q
        BY <4>9
      <4> HIDE DEF q
      <4> QED BY <4>7, <4>10, <4>11, <4>12, <4>13, <4>14
    <3>7. \A key \in K \cup {f.key} : One(key) = Stated(W, key)
      BY <3>4, <3>5, <3>6
    <3> HIDE DEF One, W, K
    <3>8. [key \in K \cup {f.key} |-> One(key)] = [key \in K \cup {f.key} |-> Stated(W, key)]
      BY <3>7
    <3>9. Merged(Materialized(V), f) = Materialized(W)
      BY <3>2, <3>3, <3>8
    <3> QED BY <3>9 DEF W
  <2> QED BY <2>5, <2>6
<1> QED BY <1>1, <1>2

\* Findings merged one by one are those of their set.
LEMMA MergedAllIs ==
  ASSUME NEW s \in Seq(Issues)
  PROVE  MergedAll(s) = Materialized(SaidBy(s, Len(s)))
<1> DEFINE n == Len(s)
           Ungrouped == [crossed |-> FALSE, by |-> NoGroups]
           Rule(a) == [k \in 0..n |-> IF k = 0 THEN Ungrouped ELSE Merged(a[k - 1], s[k])]
           after == CHOOSE a : a = Rule(a)
           h == [k \in 0..n |-> Materialized(SaidBy(s, k))]
<1>1. n \in Nat
  OBVIOUS
<1>2. Materialized({}) = Ungrouped
  <2>1. ~Crossing({})
    BY DEF Crossing
  <2>2. [key \in {f.key : f \in {}} |-> Stated({}, key)] = [key \in {} |-> None]
    OBVIOUS
  <2> QED BY <2>1, <2>2 DEF Materialized, NoGroups
<1>3. \A k \in 1..n : Merged(Materialized(SaidBy(s, k - 1)), s[k]) = Materialized(SaidBy(s, k))
  <2> TAKE k \in 1..n
  <2>1. /\ s[k] \in Issues /\ SaidBy(s, k - 1) \in SUBSET Issues
        /\ SaidBy(s, k) = SaidBy(s, k - 1) \cup {s[k]}
    BY BeforeNext
  <2> QED BY <2>1, MergedMaterialized
<1> HIDE DEF Ungrouped
<1>4. h = Rule(h)
  <2>1. \A k \in 0..n : k # 0 => k \in 1..n /\ k - 1 \in 0..n
    BY <1>1
  <2>2. SaidBy(s, 0) = {}
    BY BeforeNext
  <2>3. \A k \in 0..n : h[k] = IF k = 0 THEN Ungrouped ELSE Merged(h[k - 1], s[k])
    <3> TAKE k \in 0..n
    <3>1. CASE k = 0
      BY <1>2, <2>2, <3>1
    <3>2. CASE k # 0
      <4>1. h[k] = Materialized(SaidBy(s, k)) /\ h[k - 1] = Materialized(SaidBy(s, k - 1))
        BY <2>1, <3>2
      <4> QED BY <1>3, <2>1, <3>2, <4>1
    <3> QED BY <3>1, <3>2
  <2>4. h = [k \in 0..n |-> h[k]]
    OBVIOUS
  <2> HIDE DEF h, n
  <2> QED BY <2>3, <2>4
<1>5. after = Rule(after)
  <2> HIDE DEF h
  <2> QED BY <1>4
<1>6. \A k \in 0..n : after[k] = h[k]
  <2> DEFINE S == {k \in 0..n : after[k] = h[k]}
  <2> HIDE DEF after, h
  <2>1. 0 \in S
    <3>1. 0 \in 0..n
      BY <1>1
    <3> QED BY <1>4, <1>5, <3>1
  <2>2. ASSUME NEW k \in 0..n, k < n, k \in S PROVE k + 1 \in S
    <3>1. k + 1 \in 0..n /\ k + 1 # 0 /\ (k + 1) - 1 = k
      BY <1>1, <2>2
    <3>2. after[k] = h[k]
      BY <2>2
    <3> HIDE DEF n
    <3>3. after[k + 1] = Merged(after[k], s[k + 1]) /\ h[k + 1] = Merged(h[k], s[k + 1])
      BY <1>4, <1>5, <3>1
    <3> QED BY <3>1, <3>2, <3>3
  <2> HIDE DEF S, n
  <2>3. \A k \in 0..n : k \in S
    BY <1>1, <2>1, <2>2, InductionTo
  <2> QED BY <2>3 DEF S
<1>7. MergedAll(s) = after[n]
  BY DEF MergedAll, Ungrouped
<1>8. n \in 0..n /\ h[n] = Materialized(SaidBy(s, n))
  BY <1>1
<1> HIDE DEF after, h
<1> QED BY <1>6, <1>7, <1>8

-----------------------------------------------------------------------------
(* The order of the reports.                                               *)

Said(s) == SaidBy(s, Len(s))

\* What was said.
LEMMA SaidIs ==
  ASSUME NEW S, NEW s \in Seq(S)
  PROVE  /\ Said(s) \in SUBSET S /\ IsFiniteSet(Said(s))
         /\ \A k \in DOMAIN s : s[k] \in Said(s)
         /\ \A v \in Said(s) : \E k \in DOMAIN s : s[k] = v
<1>1. DOMAIN s = 1..Len(s) /\ Len(s) \in Nat /\ \A k \in 1..Len(s) : s[k] \in S
  OBVIOUS
<1>2. Said(s) = {s[i] : i \in 1..Len(s)}
  BY DEF Said, SaidBy
<1>3. IsFiniteSet(1..Len(s))
  BY <1>1, FS_Interval
<1>4. IsFiniteSet({s[i] : i \in 1..Len(s)})
  BY <1>1, <1>3, FiniteValues
<1> QED BY <1>1, <1>2, <1>4

\* Reports in another order say the same.
LEMMA ReorderedSays ==
  ASSUME NEW S, NEW s \in Seq(S), NEW other \in Reordered(s)
  PROVE  other \in Seq(S) /\ Said(other) = Said(s)
<1>1. PICK p \in Shuffles(DOMAIN s) : other = [k \in DOMAIN s |-> s[p[k]]]
  BY DEF Reordered
<1>2. p \in [DOMAIN s -> DOMAIN s] /\ \A i \in DOMAIN s : \E k \in DOMAIN s : p[k] = i
  BY <1>1 DEF Shuffles
<1>3. DOMAIN s = 1..Len(s) /\ Len(s) \in Nat /\ \A k \in 1..Len(s) : s[k] \in S
  OBVIOUS
<1>4. other \in [1..Len(s) -> S]
  BY <1>1, <1>2, <1>3
<1>5. other \in Seq(S) /\ Len(other) = Len(s)
  BY <1>3, <1>4
<1>6. Said(other) \subseteq Said(s)
  <2> SUFFICES ASSUME NEW k \in 1..Len(s) PROVE other[k] \in Said(s)
    BY <1>5 DEF Said, SaidBy
  <2>1. p[k] \in 1..Len(s) /\ other[k] = s[p[k]]
    BY <1>1, <1>2, <1>3
  <2> QED BY <2>1 DEF Said, SaidBy
<1>7. Said(s) \subseteq Said(other)
  <2> SUFFICES ASSUME NEW i \in 1..Len(s) PROVE s[i] \in Said(other)
    BY DEF Said, SaidBy
  <2>1. PICK k \in 1..Len(s) : p[k] = i
    BY <1>2, <1>3
  <2>2. other[k] = s[i]
    BY <1>1, <1>3, <2>1
  <2> QED BY <1>5, <2>2 DEF Said, SaidBy
<1> QED BY <1>5, <1>6, <1>7
-----------------------------------------------------------------------------
(* A diagnosis.                                                            *)

\* What is known under a key that someone reported.
LEMMA KnownIs ==
  ASSUME NEW V \in SUBSET Hypotheses, IsFiniteSet(V), NEW f \in V
  PROVE  /\ Known(V, f.key).key = f.key /\ f.key \in Nat
         /\ Known(V, f.key).confidence \in Levels
         /\ \A e \in On(V, f.key) : Known(V, f.key).confidence <= e.confidence
         /\ IsFiniteSet(Known(V, f.key).evidence)
<1> DEFINE C == {e.confidence : e \in On(V, f.key)}
           E == {e.evidence : e \in On(V, f.key)}
<1>1. f.key \in Nat /\ f \in On(V, f.key) /\ \A e \in V : e.confidence \in Levels /\ IsFiniteSet(e.evidence)
  BY SynthesesConstants DEF On
<1>2. C \in SUBSET Levels /\ C # {} /\ \A e \in On(V, f.key) : e.confidence \in C
  BY <1>1 DEF On
<1>3. Lowest(C) \in C /\ \A y \in C : Lowest(C) <= y
  <2> HIDE DEF C
  <2> QED BY <1>2, LowestIs
<1>4. IsFiniteSet(On(V, f.key))
  <2>1. On(V, f.key) \in SUBSET V
    BY DEF On
  <2> QED BY <2>1, FS_Subset
<1>5. IsFiniteSet(E)
  <2> DEFINE O == On(V, f.key)
             g == [e \in O |-> e.evidence]
  <2>1. E = {g[e] : e \in O} /\ DOMAIN g = O
    OBVIOUS
  <2> HIDE DEF O, g, E
  <2>2. IsFiniteSet({g[e] : e \in O})
    BY <1>4, <2>1, FiniteValues DEF O
  <2> QED BY <2>1, <2>2
<1>6. IsFiniteSet(UNION E)
  <2>1. \A e \in E : IsFiniteSet(e)
    BY <1>1 DEF On
  <2> HIDE DEF E
  <2> QED BY <1>5, <2>1, FS_UNION
<1>7. Known(V, f.key) = [key |-> f.key, confidence |-> Lowest(C), evidence |-> UNION E]
  BY DEF Known
<1> HIDE DEF C, E
<1>8. /\ Known(V, f.key).key = f.key /\ Known(V, f.key).confidence = Lowest(C)
      /\ Known(V, f.key).evidence = UNION E
  BY <1>7
<1> QED BY <1>1, <1>2, <1>3, <1>6, <1>8

Hypothetical(V) == {Floored(Known(V, f.key)) : f \in V}

Stronger(items) == {pair \in items \X items : StrongerHypothesis(pair[1], pair[2])}

\* The items of a diagnosis.
LEMMA HypotheticalIs ==
  ASSUME NEW V \in SUBSET Hypotheses, IsFiniteSet(V)
  PROVE  /\ IsFiniteSet(Hypothetical(V))
         /\ \A h \in Hypothetical(V) :
              /\ h.key \in Nat /\ h.confidence \in Levels /\ IsFiniteSet(h.evidence)
              /\ Cardinality(h.evidence) \in Nat
              /\ h.evidence = {} => h.confidence = 0
              /\ \A f \in V : f.key = h.key => h.confidence <= f.confidence
         /\ \A a, b \in Hypothetical(V) : a.key = b.key => a = b
<1>1. IsFiniteSet(Hypothetical(V))
  <2> DEFINE g == [f \in V |-> Floored(Known(V, f.key))]
  <2>1. Hypothetical(V) = {g[f] : f \in V} /\ DOMAIN g = V
    BY DEF Hypothetical
  <2> HIDE DEF g
  <2> QED BY <2>1, FiniteValues
<1>2. ASSUME NEW f \in V, NEW h, h = Floored(Known(V, f.key))
      PROVE  /\ h.key = f.key /\ h.key \in Nat /\ h.confidence \in Levels /\ IsFiniteSet(h.evidence)
             /\ h.evidence = {} => h.confidence = 0
             /\ \A e \in V : e.key = h.key => h.confidence <= e.confidence
  <2> DEFINE k == Known(V, f.key)
  <2>1. /\ k.key = f.key /\ f.key \in Nat /\ k.confidence \in Levels
        /\ \A e \in On(V, f.key) : k.confidence <= e.confidence
        /\ IsFiniteSet(k.evidence)
    BY KnownIs
  <2>2. k = [key |-> k.key, confidence |-> k.confidence, evidence |-> k.evidence]
    BY DEF Known
  <2>3. \A e \in V : e.key = f.key => e \in On(V, f.key) /\ e.confidence \in Levels
    BY SynthesesConstants DEF On
  <2> HIDE DEF k
  <2>4. CASE k.evidence = {}
    <3>1. h = [k EXCEPT !.confidence = 0]
      BY <1>2, <2>4 DEF Floored, k
    <3>2. h.key = k.key /\ h.confidence = 0 /\ h.evidence = k.evidence
      BY <2>2, <3>1
    <3>3. 0 \in Levels /\ \A x \in Levels : 0 <= x
      BY DEF Levels
    <3> QED BY <2>1, <2>3, <3>2, <3>3
  <2>5. CASE k.evidence # {}
    <3>1. h = k
      BY <1>2, <2>5 DEF Floored, k
    <3> QED BY <2>1, <2>3, <2>5, <3>1
  <2> QED BY <2>4, <2>5
<1>3. \A h \in Hypothetical(V) : \E f \in V : h = Floored(Known(V, f.key))
  BY DEF Hypothetical
<1>4. \A h \in Hypothetical(V) :
        /\ h.key \in Nat /\ h.confidence \in Levels /\ IsFiniteSet(h.evidence)
        /\ h.evidence = {} => h.confidence = 0
        /\ \A f \in V : f.key = h.key => h.confidence <= f.confidence
  BY <1>2, <1>3
<1>5. \A h \in Hypothetical(V) : Cardinality(h.evidence) \in Nat
  BY <1>4, FS_CardinalityType
<1>6. \A a, b \in Hypothetical(V) : a.key = b.key => a = b
  <2> TAKE a, b \in Hypothetical(V)
  <2>1. PICK e \in V : a = Floored(Known(V, e.key))
    BY <1>3
  <2>2. PICK f \in V : b = Floored(Known(V, f.key))
    BY <1>3
  <2>3. a.key = e.key /\ b.key = f.key
    BY <1>2, <2>1, <2>2
  <2> QED BY <2>1, <2>2, <2>3
<1> QED BY <1>1, <1>4, <1>5, <1>6

\* They have an order.
LEMMA StrongerSorts ==
  ASSUME NEW V \in SUBSET Hypotheses, IsFiniteSet(V)
  PROVE  Sorts(Stronger(Hypothetical(V)), Hypothetical(V))
<1> DEFINE S == Hypothetical(V)
<1>1. /\ \A h \in S : h.key \in Nat /\ h.confidence \in Nat /\ Cardinality(h.evidence) \in Nat
      /\ \A a, b \in S : a.key = b.key => a = b
  BY HypotheticalIs DEF Levels
<1> HIDE DEF S
<1>2. \A a, b \in S : <<a, b>> \in Stronger(S) <=> StrongerHypothesis(a, b)
  BY DEF Stronger
<1>3. \A a \in S : ~StrongerHypothesis(a, a)
  BY <1>1 DEF StrongerHypothesis
<1>4. \A a, b, c \in S : StrongerHypothesis(a, b) /\ StrongerHypothesis(b, c) => StrongerHypothesis(a, c)
  BY <1>1 DEF StrongerHypothesis
<1>5. \A a, b \in S : a # b => StrongerHypothesis(a, b) \/ StrongerHypothesis(b, a)
  BY <1>1 DEF StrongerHypothesis
<1>6. Sorts(Stronger(S), S)
  BY <1>2, <1>3, <1>4, <1>5 DEF Sorts
<1> QED BY <1>6 DEF S

\* A diagnosis sorts what was said.
LEMMA DiagnosisIs ==
  ASSUME NEW s \in Seq(Hypotheses)
  PROVE  Diagnosis(s) = InOrder(Hypothetical(Said(s)), Stronger(Hypothetical(Said(s))))
<1> DEFINE V == Said(s)
           g == Hypothesized(V)
<1>1. Grouped(s) = g
  BY GroupedIs DEF Said
<1>2. {Floored(g[key]) : key \in DOMAIN g} = Hypothetical(V)
  BY DEF Hypothesized, Hypothetical
<1> HIDE DEF g, V
<1>3. Diagnosis(s) = InOrder(Hypothetical(V), Stronger(Hypothetical(V)))
  BY <1>1, <1>2 DEF Diagnosis, Stronger
<1> QED BY <1>3 DEF V

\* A diagnosis of any findings is cautious.
LEMMA CautiousDiagnosis ==
  ASSUME hypotheses \in Seq(Hypotheses)
  PROVE  DiagnosisIsCautious
<1> DEFINE V == Said(hypotheses)
           S == Hypothetical(V)
           ranked == Diagnosis(hypotheses)
<1>1. /\ V \in SUBSET Hypotheses /\ IsFiniteSet(V)
      /\ \A k \in DOMAIN hypotheses : hypotheses[k] \in V
  BY SaidIs
<1>2. ranked = InOrder(S, Stronger(S))
  BY DiagnosisIs
<1> HIDE DEF V, ranked
<1>3. /\ IsFiniteSet(S)
      /\ \A h \in S : /\ h.confidence \in Levels /\ IsFiniteSet(h.evidence)
                      /\ Cardinality(h.evidence) \in Nat
                      /\ h.evidence = {} => h.confidence = 0
                      /\ \A f \in V : f.key = h.key => h.confidence <= f.confidence
  BY <1>1, HypotheticalIs
<1>4. Sorts(Stronger(S), S)
  BY <1>1, StrongerSorts
<1> HIDE DEF S
<1>5. /\ DOMAIN ranked = 1..Cardinality(S) /\ Cardinality(S) \in Nat
      /\ \A r \in DOMAIN ranked : ranked[r] \in S
      /\ \A q, r \in DOMAIN ranked : q < r => <<ranked[q], ranked[r]>> \in Stronger(S)
  BY <1>2, <1>3, <1>4, SortedInOrder
<1>6. ASSUME NEW i \in DOMAIN ranked, NEW k \in DOMAIN hypotheses,
             hypotheses[k].key = ranked[i].key
      PROVE  ranked[i].confidence <= hypotheses[k].confidence
  BY <1>1, <1>3, <1>5, <1>6
<1>7. ASSUME NEW i \in DOMAIN ranked, ranked[i].evidence = {}, NEW j \in DOMAIN ranked, ~(j < i)
      PROVE  ranked[j].evidence = {}
  <2>1. CASE i = j
    BY <1>7, <2>1
  <2>2. CASE i # j
    <3>1. i < j
      BY <1>5, <1>7, <2>2
    <3> DEFINE a == ranked[i]
               b == ranked[j]
    <3>2. a \in S /\ b \in S /\ <<a, b>> \in Stronger(S)
      BY <1>5, <3>1
    <3>3. a.evidence = {}
      BY <1>7
    <3> HIDE DEF a, b
    <3>4. StrongerHypothesis(a, b)
      BY <3>2 DEF Stronger
    <3>5. a.confidence = 0 /\ Cardinality(a.evidence) = 0
      BY <1>3, <3>2, <3>3, FS_EmptySet
    <3>6. b.confidence \in Nat /\ Cardinality(b.evidence) \in Nat /\ IsFiniteSet(b.evidence)
      BY <1>3, <3>2 DEF Levels
    <3>7. Cardinality(b.evidence) = 0
      BY <3>4, <3>5, <3>6 DEF StrongerHypothesis
    <3>8. b.evidence = {}
      BY <3>6, <3>7, FS_EmptySet
    <3> QED BY <3>8 DEF b
  <2> QED BY <2>1, <2>2
<1>8. ASSUME NEW other \in Reordered(hypotheses) PROVE Diagnosis(other) = ranked
  <2>1. other \in Seq(Hypotheses) /\ Said(other) = V
    BY ReorderedSays DEF V
  <2> QED BY <1>2, <2>1, DiagnosisIs DEF S
<1> QED BY <1>6, <1>7, <1>8 DEF DiagnosisIsCautious, ranked

-----------------------------------------------------------------------------
(* A review.                                                               *)

\* What is raised under a key that someone raised.
LEMMA StatedIs ==
  ASSUME NEW V \in SUBSET Issues, IsFiniteSet(V), ~Crossing(V), NEW f \in V
  PROVE  LET item == Stated(V, f.key) IN
         /\ item.key = f.key /\ f.key \in Nat /\ item.axis = f.axis
         /\ item.severity \in Levels /\ item.confidence \in Levels
         /\ \A e \in On(V, f.key) : item.severity >= e.severity /\ item.confidence <= e.confidence
         /\ item.problems = {e.problem : e \in On(V, f.key)} /\ IsFiniteSet(item.problems)
<1> DEFINE O == On(V, f.key)
           C == {e.confidence : e \in O}
           S == {e.severity : e \in O}
           P == {e.problem : e \in O}
           item == Stated(V, f.key)
<1>1. /\ f.key \in Nat /\ f \in O
      /\ \A e \in O : e.confidence \in Levels /\ e.severity \in Levels
  BY SynthesesConstants DEF On
<1>2. /\ C \in SUBSET Levels /\ C # {} /\ \A e \in O : e.confidence \in C
      /\ S \in SUBSET Levels /\ S # {} /\ \A e \in O : e.severity \in S
  BY <1>1
<1>3. /\ Lowest(C) \in C /\ \A y \in C : Lowest(C) <= y
      /\ Highest(S) \in S /\ \A y \in S : y <= Highest(S)
  <2> HIDE DEF C, S
  <2> QED BY <1>2, LowestIs
<1>4. IsFiniteSet(P)
  <2> DEFINE g == [e \in O |-> e.problem]
  <2>1. IsFiniteSet(O)
    <3>1. O \in SUBSET V
      BY DEF On
    <3> QED BY <3>1, FS_Subset
  <2>2. P = {g[e] : e \in O} /\ DOMAIN g = O
    OBVIOUS
  <2> HIDE DEF O, g, P
  <2> QED BY <2>1, <2>2, FiniteValues
<1>5. AxisOf(V, f.key) = f.axis
  BY AxisOfIs
<1>6. item = [key |-> f.key, axis |-> f.axis, severity |-> Highest(S), confidence |-> Lowest(C),
              problems |-> P, evidence |-> UNION {e.evidence : e \in O}]
  BY <1>5 DEF Stated
<1> HIDE DEF C, S, P, item
<1>7. /\ item.key = f.key /\ item.axis = f.axis /\ item.severity = Highest(S)
      /\ item.confidence = Lowest(C) /\ item.problems = P
  BY <1>6
<1>8. Lowest(C) \in Levels /\ Highest(S) \in Levels
  BY <1>2, <1>3
<1>9. \A e \in O : item.severity >= e.severity /\ item.confidence <= e.confidence
  <2> HIDE DEF O
  <2> QED BY <1>1, <1>2, <1>3, <1>7, <1>8 DEF Levels
<1> QED BY <1>1, <1>4, <1>7, <1>8, <1>9 DEF P, item

Material(V) == {Floored(Stated(V, f.key)) : f \in V}

Above(items) == {pair \in items \X items : MoreMaterial(pair[1], pair[2])}

\* The items of a review.
LEMMA MaterialIs ==
  ASSUME NEW V \in SUBSET Issues, IsFiniteSet(V), ~Crossing(V)
  PROVE  /\ IsFiniteSet(Material(V))
         /\ \A h \in Material(V) :
              /\ h.key \in Nat /\ h.severity \in Levels /\ h.confidence \in Levels
              /\ \A f \in V : f.key = h.key =>
                   h.severity >= f.severity /\ h.confidence <= f.confidence
         /\ \A a, b \in Material(V) : a.key = b.key => a = b
         /\ \A f \in V : \E h \in Material(V) :
              /\ h.axis = f.axis /\ IsFiniteSet(h.problems)
              /\ \A e \in V : e.key = f.key => e.problem \in h.problems
<1>1. IsFiniteSet(Material(V))
  <2> DEFINE g == [f \in V |-> Floored(Stated(V, f.key))]
  <2>1. Material(V) = {g[f] : f \in V} /\ DOMAIN g = V
    BY DEF Material
  <2> HIDE DEF g
  <2> QED BY <2>1, FiniteValues
<1>2. ASSUME NEW f \in V, NEW h, h = Floored(Stated(V, f.key))
      PROVE  /\ h.key = f.key /\ h.key \in Nat /\ h.severity \in Levels /\ h.confidence \in Levels
             /\ \A e \in V : e.key = h.key =>
                  h.severity >= e.severity /\ h.confidence <= e.confidence
             /\ h.axis = f.axis /\ IsFiniteSet(h.problems)
             /\ \A e \in V : e.key = f.key => e.problem \in h.problems
  <2> DEFINE k == Stated(V, f.key)
  <2>1. /\ k.key = f.key /\ f.key \in Nat /\ k.axis = f.axis
        /\ k.severity \in Levels /\ k.confidence \in Levels
        /\ \A e \in On(V, f.key) : k.severity >= e.severity /\ k.confidence <= e.confidence
        /\ k.problems = {e.problem : e \in On(V, f.key)} /\ IsFiniteSet(k.problems)
    BY StatedIs
  <2>2. k = [key |-> k.key, axis |-> k.axis, severity |-> k.severity, confidence |-> k.confidence,
             problems |-> k.problems, evidence |-> k.evidence]
    BY DEF Stated
  <2>3. \A e \in V : e.key = f.key =>
          e \in On(V, f.key) /\ e.confidence \in Levels /\ e.severity \in Levels
    BY SynthesesConstants DEF On
  <2>4. \A e \in V : e.key = f.key => e.problem \in k.problems
    BY <2>1, <2>3
  <2>5. /\ h.key = k.key /\ h.axis = k.axis /\ h.severity = k.severity /\ h.problems = k.problems
        /\ h.confidence = k.confidence \/ h.confidence = 0
    <3> HIDE DEF k
    <3>1. CASE k.evidence = {}
      <4>1. h = [k EXCEPT !.confidence = 0]
        BY <1>2, <3>1 DEF Floored, k
      <4> QED BY <2>2, <4>1
    <3>2. CASE k.evidence # {}
      <4>1. h = k
        BY <1>2, <3>2 DEF Floored, k
      <4> QED BY <4>1
    <3> QED BY <3>1, <3>2
  <2> HIDE DEF k
  <2>6. 0 \in Levels /\ \A x \in Levels : 0 <= x
    BY DEF Levels
  <2> QED BY <2>1, <2>3, <2>4, <2>5, <2>6
<1>3. \A h \in Material(V) : \E f \in V : h = Floored(Stated(V, f.key))
  BY DEF Material
<1>4. \A h \in Material(V) :
        /\ h.key \in Nat /\ h.severity \in Levels /\ h.confidence \in Levels
        /\ \A f \in V : f.key = h.key => h.severity >= f.severity /\ h.confidence <= f.confidence
  BY <1>2, <1>3
<1>5. \A a, b \in Material(V) : a.key = b.key => a = b
  <2> TAKE a, b \in Material(V)
  <2>1. PICK e \in V : a = Floored(Stated(V, e.key))
    BY <1>3
  <2>2. PICK f \in V : b = Floored(Stated(V, f.key))
    BY <1>3
  <2>3. a.key = e.key /\ b.key = f.key
    BY <1>2, <2>1, <2>2
  <2> QED BY <2>1, <2>2, <2>3
<1>6. \A f \in V : \E h \in Material(V) :
        /\ h.axis = f.axis /\ IsFiniteSet(h.problems)
        /\ \A e \in V : e.key = f.key => e.problem \in h.problems
  <2> TAKE f \in V
  <2>1. Floored(Stated(V, f.key)) \in Material(V)
    BY DEF Material
  <2> QED BY <1>2, <2>1
<1> QED BY <1>1, <1>4, <1>5, <1>6

\* They have an order.
LEMMA MaterialSorts ==
  ASSUME NEW V \in SUBSET Issues, IsFiniteSet(V), ~Crossing(V)
  PROVE  Sorts(Above(Material(V)), Material(V))
<1> DEFINE S == Material(V)
<1>1. /\ \A h \in S : h.key \in Nat /\ h.confidence \in Nat /\ h.severity \in Nat
      /\ \A a, b \in S : a.key = b.key => a = b
  BY MaterialIs DEF Levels
<1> HIDE DEF S
<1>2. \A a, b \in S : <<a, b>> \in Above(S) <=> MoreMaterial(a, b)
  BY DEF Above
<1>3. \A a \in S : ~MoreMaterial(a, a)
  BY <1>1 DEF MoreMaterial
<1>4. \A a, b, c \in S : MoreMaterial(a, b) /\ MoreMaterial(b, c) => MoreMaterial(a, c)
  BY <1>1 DEF MoreMaterial
<1>5. \A a, b \in S : a # b => MoreMaterial(a, b) \/ MoreMaterial(b, a)
  BY <1>1 DEF MoreMaterial
<1>6. Sorts(Above(S), S)
  BY <1>2, <1>3, <1>4, <1>5 DEF Sorts
<1> QED BY <1>6 DEF S

\* What the passes on an axis say of it.
Judged(relevant, conflict) ==
  LET values == {v.verdict : v \in relevant} IN
  IF relevant = {} THEN "unverified"
  ELSE IF "failed" \in values THEN "contradicted"
  ELSE IF conflict \/ "inconclusive" \in values
  THEN IF \E v \in relevant : v.evidence # {} THEN "partially verified" ELSE "unverified"
  ELSE "verified"

OnAxis(R, axis) == {v \in R : v.axis = axis}

VerdictOf(R, axis, conflict) == Judged(OnAxis(R, axis), conflict)

\* The order of the passes does not matter.
LEMMA AxisVerdictIs ==
  ASSUME NEW v \in Seq(Passes), NEW axis, NEW conflict
  PROVE  AxisVerdict(v, axis, conflict) = VerdictOf(Said(v), axis, conflict)
<1> DEFINE R == {v[k] : k \in {i \in DOMAIN v : v[i].axis = axis}}
<1>1. R = OnAxis(Said(v), axis)
  BY SaidIs DEF OnAxis
<1>2. AxisVerdict(v, axis, conflict) = Judged(R, conflict)
  BY DEF AxisVerdict, Judged
<1> HIDE DEF R
<1> QED BY <1>1, <1>2 DEF VerdictOf

ReviewOf(V, R) ==
  IF Crossing(V) THEN NoReview
  ELSE [refused |-> FALSE, findings |-> InOrder(Material(V), Above(Material(V))),
        verdict |-> [axis \in Axes |-> VerdictOf(R, axis, Conflict(Material(V), axis))]]

\* A review is of what was said.
LEMMA ReviewIs ==
  ASSUME NEW s \in Seq(Issues), NEW v \in Seq(Passes)
  PROVE  Review(s, v) = ReviewOf(Said(s), Said(v))
<1> DEFINE V == Said(s)
           merged == MergedAll(s)
           g == [key \in {f.key : f \in V} |-> Stated(V, key)]
<1>1. merged = Materialized(V)
  BY MergedAllIs DEF Said
<1>2. CASE Crossing(V)
  <2>1. merged.crossed
    BY <1>1, <1>2 DEF Materialized, Raised
  <2> QED BY <1>2, <2>1 DEF Review, ReviewOf
<1>3. CASE ~Crossing(V)
  <2>1. merged = [crossed |-> FALSE, by |-> g]
    BY <1>1, <1>3 DEF Materialized
  <2>2. ~merged.crossed /\ merged.by = g
    <3> HIDE DEF g, merged
    <3> QED BY <2>1
  <2>3. {Floored(g[key]) : key \in DOMAIN g} = Material(V)
    BY DEF Material
  <2>4. \A axis \in Axes :
          AxisVerdict(v, axis, Conflict(Material(V), axis))
            = VerdictOf(Said(v), axis, Conflict(Material(V), axis))
    BY AxisVerdictIs
  <2>5. Review(s, v) =
          LET items == {Floored(merged.by[key]) : key \in DOMAIN merged.by} IN
          [refused |-> FALSE, findings |-> InOrder(items, Above(items)),
           verdict |-> [axis \in Axes |-> AxisVerdict(v, axis, Conflict(items, axis))]]
    <3> HIDE DEF g
    <3> QED BY <2>2 DEF Review, Above
  <2> HIDE DEF g, merged, V
  <2>6. Review(s, v) =
          [refused |-> FALSE, findings |-> InOrder(Material(V), Above(Material(V))),
           verdict |-> [axis \in Axes |-> AxisVerdict(v, axis, Conflict(Material(V), axis))]]
    BY <2>2, <2>3, <2>5
  <2>7. [axis \in Axes |-> AxisVerdict(v, axis, Conflict(Material(V), axis))]
          = [axis \in Axes |-> VerdictOf(Said(v), axis, Conflict(Material(V), axis))]
    BY <2>4
  <2>8. Review(s, v) = ReviewOf(V, Said(v))
    BY <1>3, <2>6, <2>7 DEF ReviewOf
  <2> QED BY <2>8 DEF V
<1> QED BY <1>2, <1>3

\* The verdict on an axis is the worst of its passes.
LEMMA JudgedIs ==
  ASSUME NEW R \in SUBSET Passes, NEW axis, NEW conflict \in BOOLEAN
  PROVE  LET verdict == VerdictOf(R, axis, conflict)
             T == OnAxis(R, axis) IN
         /\ verdict = "verified" => T # {} /\ ~conflict /\ \A v \in T : v.verdict = "confirmed"
         /\ (\E v \in T : v.verdict = "failed") <=> verdict = "contradicted"
         /\ verdict = "partially verified" => \E v \in T : v.evidence # {}
<1> DEFINE T == OnAxis(R, axis)
<1>1. \A v \in T : v.verdict \in {"confirmed", "failed", "inconclusive"}
  BY SynthesesConstants DEF OnAxis, PassVerdicts
<1> HIDE DEF T
<1>2. /\ "failed" \in {v.verdict : v \in T} <=> \E v \in T : v.verdict = "failed"
      /\ "inconclusive" \in {v.verdict : v \in T} <=> \E v \in T : v.verdict = "inconclusive"
  OBVIOUS
<1> DEFINE verdict == Judged(T, conflict)
<1>3. CASE T = {}
  <2>1. verdict = "unverified"
    BY <1>3 DEF Judged
  <2> QED BY <1>3, <2>1 DEF VerdictOf, T
<1>4. CASE T # {} /\ \E v \in T : v.verdict = "failed"
  <2>1. verdict = "contradicted"
    BY <1>2, <1>4 DEF Judged
  <2> QED BY <1>4, <2>1 DEF VerdictOf, T
<1>5. CASE T # {} /\ ~(\E v \in T : v.verdict = "failed")
           /\ (conflict \/ \E v \in T : v.verdict = "inconclusive")
  <2>1. verdict = IF \E v \in T : v.evidence # {} THEN "partially verified" ELSE "unverified"
    BY <1>2, <1>5 DEF Judged
  <2> QED BY <1>5, <2>1 DEF VerdictOf, T
<1>6. CASE T # {} /\ ~(\E v \in T : v.verdict = "failed")
           /\ ~conflict /\ ~(\E v \in T : v.verdict = "inconclusive")
  <2>1. verdict = "verified"
    BY <1>2, <1>6 DEF Judged
  <2>2. \A v \in T : v.verdict = "confirmed"
    BY <1>1, <1>6
  <2> QED BY <1>6, <2>1, <2>2 DEF VerdictOf, T
<1> QED BY <1>3, <1>4, <1>5, <1>6

\* A review of any findings and passes is cautious.
LEMMA CautiousReview ==
  ASSUME issues \in Seq(Issues), passes \in Seq(Passes)
  PROVE  ReviewIsCautious
<1> DEFINE V == Said(issues)
           R == Said(passes)
           S == Material(V)
           review == Review(issues, passes)
           Tells(axis) == {k \in DOMAIN passes : passes[k].axis = axis}
<1>1. /\ V \in SUBSET Issues /\ IsFiniteSet(V) /\ \A k \in DOMAIN issues : issues[k] \in V
      /\ \A f \in V : \E k \in DOMAIN issues : issues[k] = f
  BY SaidIs
<1>2. /\ R \in SUBSET Passes /\ \A k \in DOMAIN passes : passes[k] \in R
      /\ \A v \in R : \E k \in DOMAIN passes : passes[k] = v
  BY SaidIs
<1>3. review = ReviewOf(V, R)
  BY ReviewIs
<1> HIDE DEF V, R, review
<1>4. \A axis : /\ \A k \in Tells(axis) : passes[k] \in OnAxis(R, axis)
                /\ \A v \in OnAxis(R, axis) : \E k \in Tells(axis) : passes[k] = v
  BY <1>2 DEF OnAxis
<1> HIDE DEF Tells
<1>5. ASSUME ~review.refused, NEW axis \in Axes
      PROVE  /\ review.verdict[axis] = "verified" =>
                  /\ Tells(axis) # {} /\ \A k \in Tells(axis) : passes[k].verdict = "confirmed"
                  /\ \A j, k \in DOMAIN issues :
                       issues[j].axis = axis /\ issues[k].key = issues[j].key =>
                         issues[k].problem = issues[j].problem
             /\ (\E k \in Tells(axis) : passes[k].verdict = "failed") <=>
                  review.verdict[axis] = "contradicted"
             /\ review.verdict[axis] = "partially verified" =>
                  \E k \in Tells(axis) : passes[k].evidence # {}
  <2> DEFINE conflict == Conflict(S, axis)
             T == OnAxis(R, axis)
  <2>1. ~Crossing(V)
    BY <1>3, <1>5 DEF ReviewOf, NoReview
  <2>2. review.verdict[axis] = VerdictOf(R, axis, conflict)
    BY <1>3, <2>1 DEF ReviewOf
  <2>3. conflict \in BOOLEAN
    BY DEF Conflict
  <2>4. ASSUME ~conflict, NEW j \in DOMAIN issues, NEW k \in DOMAIN issues,
               issues[j].axis = axis, issues[k].key = issues[j].key
        PROVE  issues[k].problem = issues[j].problem
    <3>1. issues[j] \in V /\ issues[k] \in V
      BY <1>1
    <3>2. PICK h \in S : /\ h.axis = issues[j].axis /\ IsFiniteSet(h.problems)
                         /\ \A e \in V : e.key = issues[j].key => e.problem \in h.problems
      BY <1>1, <2>1, <3>1, MaterialIs
    <3> DEFINE p == issues[j].problem
               q == issues[k].problem
               P == h.problems
    <3>3. p \in P /\ q \in P /\ IsFiniteSet(P)
      BY <2>4, <3>1, <3>2
    <3>4. ~(Cardinality(P) > 1)
      BY <2>4, <3>2 DEF Conflict
    <3> HIDE DEF p, q, P
    <3>5. Cardinality(P) \in Nat
      BY <3>3, FS_CardinalityType
    <3>6. Cardinality(P) = 1
      BY <3>3, <3>4, <3>5, FS_EmptySet
    <3>7. \E x : P = {x}
      BY <3>3, <3>6, FS_Singleton
    <3>8. p = q
      BY <3>3, <3>7
    <3> QED BY <3>8 DEF p, q
  <2> HIDE DEF conflict, S
  <2> DEFINE verdict == VerdictOf(R, axis, conflict)
  <2>5. /\ verdict = "verified" => T # {} /\ ~conflict /\ \A v \in T : v.verdict = "confirmed"
        /\ (\E v \in T : v.verdict = "failed") <=> verdict = "contradicted"
        /\ verdict = "partially verified" => \E v \in T : v.evidence # {}
    BY <1>2, <2>3, JudgedIs
  <2>6. /\ \A k \in Tells(axis) : passes[k] \in T
        /\ \A v \in T : \E k \in Tells(axis) : passes[k] = v
    BY <1>4
  <2> HIDE DEF T, verdict
  <2>7. review.verdict[axis] = verdict
    BY <2>2 DEF verdict
  <2> QED BY <2>4, <2>5, <2>6, <2>7
<1>6. ASSUME ~review.refused, NEW i \in DOMAIN review.findings, NEW k \in DOMAIN issues,
             review.findings[i].key = issues[k].key
      PROVE  /\ review.findings[i].severity >= issues[k].severity
             /\ review.findings[i].confidence <= issues[k].confidence
  <2>1. ~Crossing(V)
    BY <1>3, <1>6 DEF ReviewOf, NoReview
  <2>2. review.findings = InOrder(S, Above(S))
    BY <1>3, <2>1 DEF ReviewOf
  <2>3. Sorts(Above(S), S)
    BY <1>1, <2>1, MaterialSorts
  <2>4. /\ IsFiniteSet(S)
        /\ \A h \in S : \A f \in V : f.key = h.key =>
             h.severity >= f.severity /\ h.confidence <= f.confidence
    BY <1>1, <2>1, MaterialIs
  <2> HIDE DEF S
  <2>5. \A r \in DOMAIN review.findings : review.findings[r] \in S
    BY <2>2, <2>3, <2>4, SortedInOrder
  <2>6. review.findings[i] \in S /\ issues[k] \in V
    BY <1>1, <2>5
  <2> QED BY <1>6, <2>4, <2>6
<1>7. ASSUME NEW f \in Reordered(issues), NEW v \in Reordered(passes) PROVE Review(f, v) = review
  <2>1. f \in Seq(Issues) /\ Said(f) = V
    BY ReorderedSays DEF V
  <2>2. v \in Seq(Passes) /\ Said(v) = R
    BY ReorderedSays DEF R
  <2> QED BY <1>3, <2>1, <2>2, ReviewIs
<1> HIDE DEF S
<1>8. ~review.refused =>
        \A i \in DOMAIN review.findings, k \in DOMAIN issues :
          review.findings[i].key = issues[k].key =>
            /\ review.findings[i].severity >= issues[k].severity
            /\ review.findings[i].confidence <= issues[k].confidence
  BY <1>6
<1>9. \A f \in Reordered(issues), v \in Reordered(passes) : Review(f, v) = review
  BY <1>7
<1> QED BY <1>5, <1>8, <1>9 DEF ReviewIsCautious, review, Tells

-----------------------------------------------------------------------------
(* The answers.                                                            *)

\* Two different values, at least.
LEMMA MoreThanOne ==
  ASSUME NEW S, IsFiniteSet(S), NEW a \in S, NEW b \in S, a # b
  PROVE  Cardinality(S) > 1
<1>1. Cardinality(S) \in Nat
  BY FS_CardinalityType
<1>2. Cardinality(S) # 0
  BY FS_EmptySet
<1>3. Cardinality(S) # 1
  <2> SUFFICES ASSUME Cardinality(S) = 1 PROVE FALSE
    OBVIOUS
  <2>1. PICK x : S = {x}
    BY FS_Singleton
  <2> QED BY <2>1
<1> QED BY <1>1, <1>2, <1>3

\* A route has several lanes exactly where they are parallel.
LEMMA RouteIs ==
  ASSUME NEW s \in Symptoms
  PROVE  Cardinality(Route(s)) > 1 <=> Parallel(s)
<1>1. CASE ~Parallel(s)
  <2>1. Route(s) = {"local-investigation"}
    BY <1>1 DEF Route
  <2>2. Cardinality({"local-investigation"}) = 1
    BY FS_Singleton
  <2> QED BY <1>1, <2>1, <2>2
<1>2. CASE Parallel(s)
  <2> DEFINE All == {"reproduction-scope", "proof-observability",
                     "code-path-failure-seam", "recent-change-regression"}
  <2>1. /\ Route(s) \in SUBSET All
        /\ "reproduction-scope" \in Route(s) /\ "proof-observability" \in Route(s)
    BY <1>2 DEF Route
  <2>2. IsFiniteSet(All)
    <3>1. All = (({"reproduction-scope"} \cup {"proof-observability"})
                  \cup {"code-path-failure-seam"}) \cup {"recent-change-regression"}
      OBVIOUS
    <3>2. /\ IsFiniteSet({"reproduction-scope"}) /\ IsFiniteSet({"proof-observability"})
          /\ IsFiniteSet({"code-path-failure-seam"}) /\ IsFiniteSet({"recent-change-regression"})
      BY FS_Singleton
    <3> HIDE DEF All
    <3> QED BY <3>1, <3>2, FS_Union
  <2> HIDE DEF All
  <2>3. IsFiniteSet(Route(s))
    BY <2>1, <2>2, FS_Subset
  <2>4. Cardinality(Route(s)) > 1
    BY <2>1, <2>3, MoreThanOne
  <2> QED BY <1>2, <2>4
<1> QED BY <1>1, <1>2

Flags == {"crosscutting", "release", "delegated", "asked", "boundary"}

\* Angles are finitely many, and cover both axes.
LEMMA AnglesAre ==
  ASSUME NEW c \in Deliveries
  PROVE  /\ IsFiniteSet(Angles(c)) /\ Angles(c) # {}
         /\ UNION {a.axes : a \in Angles(c)} = Axes
         /\ Security(c) <=> \E a \in Angles(c) : a.name = "security-boundary"
<1> DEFINE A == Angle("focused", Axes)
           B == Angle("contract-scope", {"contract"})
           C == Angle("runtime-quality", {"quality"})
           D == Angle("code-contracts", {"quality"})
           E == Angle("durable-evidence", Axes)
           F == Angle("security-boundary", {"quality"})
<1>1. /\ A.axes = Axes /\ B.axes = {"contract"} /\ C.axes = {"quality"} /\ D.axes = {"quality"}
      /\ E.axes = Axes /\ F.axes = {"quality"} /\ F.name = "security-boundary"
      /\ A.name = "focused" /\ B.name = "contract-scope" /\ C.name = "runtime-quality"
      /\ D.name = "code-contracts" /\ E.name = "durable-evidence"
  BY DEF Angle
<1>2. Angles(c) = IF ~Broad(c) /\ ~Security(c) THEN {A}
                  ELSE {B, C} \cup (IF c.modules > 1 THEN {D} ELSE {})
                       \cup (IF c.delegated THEN {E} ELSE {})
                       \cup (IF Security(c) THEN {F} ELSE {})
  BY DEF Angles
<1> HIDE DEF A, B, C, D, E, F
<1>3. Angles(c) \in SUBSET {A, B, C, D, E, F} /\ Angles(c) # {}
  BY <1>2
<1>4. IsFiniteSet({A, B, C, D, E, F})
  <2>1. {A, B, C, D, E, F} = (((({A} \cup {B}) \cup {C}) \cup {D}) \cup {E}) \cup {F}
    OBVIOUS
  <2>2. /\ IsFiniteSet({A}) /\ IsFiniteSet({B}) /\ IsFiniteSet({C})
        /\ IsFiniteSet({D}) /\ IsFiniteSet({E}) /\ IsFiniteSet({F})
    BY FS_Singleton
  <2>3. IsFiniteSet(({A} \cup {B}) \cup {C})
    BY <2>2, FS_Union
  <2>4. IsFiniteSet((({A} \cup {B}) \cup {C}) \cup {D})
    BY <2>2, <2>3, FS_Union
  <2>5. IsFiniteSet(((({A} \cup {B}) \cup {C}) \cup {D}) \cup {E})
    BY <2>2, <2>4, FS_Union
  <2>6. IsFiniteSet((((({A} \cup {B}) \cup {C}) \cup {D}) \cup {E}) \cup {F})
    BY <2>2, <2>5, FS_Union
  <2> QED BY <2>1, <2>6
<1>5. IsFiniteSet(Angles(c))
  BY <1>3, <1>4, FS_Subset
<1>6. UNION {a.axes : a \in Angles(c)} = Axes
  <2>1. \A a \in Angles(c) : a.axes \subseteq Axes
    BY <1>1, <1>3 DEF Axes
  <2>2. \A axis \in Axes : \E a \in Angles(c) : axis \in a.axes
    <3>1. CASE ~Broad(c) /\ ~Security(c)
      BY <1>1, <1>2, <3>1
    <3>2. CASE Broad(c) \/ Security(c)
      <4>1. B \in Angles(c) /\ C \in Angles(c)
        BY <1>2, <3>2
      <4> QED BY <1>1, <4>1 DEF Axes
    <3> QED BY <3>1, <3>2
  <2> QED BY <2>1, <2>2
<1>7. Security(c) <=> \E a \in Angles(c) : a.name = "security-boundary"
  <2>1. CASE Security(c)
    BY <1>1, <1>2, <2>1
  <2>2. CASE ~Security(c)
    <3>1. Angles(c) \in SUBSET {A, B, C, D, E}
      BY <1>2, <2>2
    <3> QED BY <1>1, <2>2, <3>1
  <2> QED BY <2>1, <2>2
<1> QED BY <1>3, <1>5, <1>6, <1>7

\* More of a change asks for no fewer angles.
LEMMA AnglesGrow ==
  ASSUME NEW c \in Deliveries, NEW flag \in Flags
  PROVE  Cardinality(Angles([c EXCEPT ![flag] = TRUE])) >= Cardinality(Angles(c))
<1> DEFINE d == [c EXCEPT ![flag] = TRUE]
<1>1. /\ d \in Deliveries /\ d.modules = c.modules
      /\ c.crosscutting => d.crosscutting
      /\ c.release => d.release
      /\ c.delegated => d.delegated
      /\ c.asked => d.asked
      /\ c.boundary => d.boundary
  BY DEF Deliveries, Flags
<1> HIDE DEF d
<1>2. Broad(c) => Broad(d)
  BY <1>1, Zenon DEF Broad
<1>3. Security(c) => Security(d)
  BY <1>1, Zenon DEF Security
<1>4. /\ IsFiniteSet(Angles(c)) /\ IsFiniteSet(Angles(d)) /\ Angles(d) # {}
  BY <1>1, AnglesAre
<1>5. CASE ~Broad(c) /\ ~Security(c)
  <2>1. Cardinality(Angles(c)) = 1
    <3>1. Angles(c) = {Angle("focused", Axes)}
      BY <1>5 DEF Angles
    <3> QED BY <3>1, FS_Singleton
  <2>2. Cardinality(Angles(d)) \in Nat /\ Cardinality(Angles(d)) # 0
    BY <1>4, FS_CardinalityType, FS_EmptySet
  <2> QED BY <2>1, <2>2 DEF d
<1>6. CASE Broad(c) \/ Security(c)
  <2>1. Angles(c) \in SUBSET Angles(d)
    <3>1. Broad(d) \/ Security(d)
      BY <1>2, <1>3, <1>6
    <3> DEFINE B == Angle("contract-scope", {"contract"})
               C == Angle("runtime-quality", {"quality"})
               D == Angle("code-contracts", {"quality"})
               E == Angle("durable-evidence", Axes)
               F == Angle("security-boundary", {"quality"})
    <3>2. Angles(c) = {B, C} \cup (IF c.modules > 1 THEN {D} ELSE {})
                      \cup (IF c.delegated THEN {E} ELSE {})
                      \cup (IF Security(c) THEN {F} ELSE {})
      BY <1>6 DEF Angles
    <3>3. Angles(d) = {B, C} \cup (IF d.modules > 1 THEN {D} ELSE {})
                      \cup (IF d.delegated THEN {E} ELSE {})
                      \cup (IF Security(d) THEN {F} ELSE {})
      BY <3>1 DEF Angles
    <3> HIDE DEF B, C, D, E, F
    <3>4. (IF c.delegated THEN {E} ELSE {}) \subseteq (IF d.delegated THEN {E} ELSE {})
      BY <1>1, Zenon
    <3>5. (IF Security(c) THEN {F} ELSE {}) \subseteq (IF Security(d) THEN {F} ELSE {})
      BY <1>3
    <3> QED BY <1>1, <3>2, <3>3, <3>4, <3>5
  <2>2. Cardinality(Angles(c)) <= Cardinality(Angles(d))
    BY <1>4, <2>1, FS_Subset
  <2>3. Cardinality(Angles(c)) \in Nat /\ Cardinality(Angles(d)) \in Nat
    BY <1>4, FS_CardinalityType
  <2> QED BY <2>2, <2>3 DEF d
<1> QED BY <1>5, <1>6

-----------------------------------------------------------------------------
(* The theorem.                                                            *)

ReportsTyped ==
  hypotheses \in Seq(Hypotheses) /\ issues \in Seq(Issues) /\ passes \in Seq(Passes)

\* What the skills answer.
SynthesesIInv == ReportsTyped /\ AnswersHold

\* An answer is right when it is given.
LEMMA AskAnswers == Ask => AnswersHold'
<1> SUFFICES ASSUME Ask PROVE AnswersHold'
  OBVIOUS
<1>1. CASE \E s \in Symptoms : response' = [to |-> "route", signals |-> s, lanes |-> Route(s)]
  <2>1. PICK s \in Symptoms : response' = [to |-> "route", signals |-> s, lanes |-> Route(s)]
    BY <1>1
  <2>2. response'.to = "route" /\ response'.signals = s /\ response'.lanes = Route(s)
    BY <2>1
  <2>3. Cardinality(Route(s)) > 1 <=> Parallel(s)
    BY RouteIs
  <2> QED BY <2>2, <2>3 DEF AnswersHold
<1>2. CASE \E c \in Deliveries : response' = [to |-> "select", change |-> c, angles |-> Angles(c)]
  <2>1. PICK c \in Deliveries : response' = [to |-> "select", change |-> c, angles |-> Angles(c)]
    BY <1>2
  <2>2. response'.to = "select" /\ response'.change = c /\ response'.angles = Angles(c)
    BY <2>1
  <2>3. /\ UNION {a.axes : a \in Angles(c)} = Axes
        /\ Security(c) <=> \E a \in Angles(c) : a.name = "security-boundary"
    BY AnglesAre
  <2>4. \A flag \in {"crosscutting", "release", "delegated", "asked", "boundary"} :
          Cardinality(Angles([c EXCEPT ![flag] = TRUE])) >= Cardinality(Angles(c))
    BY AnglesGrow DEF Flags
  <2> QED BY <2>2, <2>3, <2>4 DEF AnswersHold
<1>3. CASE \E mode \in {"light", "full"}, known \in SUBSET Surfaces,
              requests \in SUBSET {"cleanup", "memory-write"},
              authorized \in SUBSET {"cleanup", "memory-write"} :
             \E reports \in [known -> SurfaceReports] :
               /\ Assessable(mode, reports)
               /\ response' = [to |-> "close", mode |-> mode, reports |-> reports,
                               requests |-> requests, authorized |-> authorized,
                               ready |-> /\ Outstanding(reports) = {}
                                         /\ Blocked(requests, authorized) = {}]
  <2>1. PICK mode \in {"light", "full"}, known \in SUBSET Surfaces,
             requests \in SUBSET {"cleanup", "memory-write"},
             authorized \in SUBSET {"cleanup", "memory-write"} :
             \E reports \in [known -> SurfaceReports] :
               /\ Assessable(mode, reports)
               /\ response' = [to |-> "close", mode |-> mode, reports |-> reports,
                               requests |-> requests, authorized |-> authorized,
                               ready |-> /\ Outstanding(reports) = {}
                                         /\ Blocked(requests, authorized) = {}]
    BY <1>3
  <2>2. PICK reports \in [known -> SurfaceReports] :
               /\ Assessable(mode, reports)
               /\ response' = [to |-> "close", mode |-> mode, reports |-> reports,
                               requests |-> requests, authorized |-> authorized,
                               ready |-> /\ Outstanding(reports) = {}
                                         /\ Blocked(requests, authorized) = {}]
    BY <2>1
  <2>3. /\ response'.to = "close" /\ response'.mode = mode /\ response'.reports = reports
        /\ response'.requests = requests /\ response'.authorized = authorized
        /\ response'.ready <=> Outstanding(reports) = {} /\ Blocked(requests, authorized) = {}
    BY <2>2
  <2>4. ASSUME response'.ready
        PROVE  /\ requests \subseteq authorized
               /\ \A s \in DOMAIN reports : reports[s].required =>
                    reports[s].status = "current" /\ reports[s].evidence
               /\ mode = "full" => DOMAIN reports = Surfaces
    <3>1. Outstanding(reports) = {} /\ Blocked(requests, authorized) = {}
      BY <2>3, <2>4
    <3>2. \A s \in DOMAIN reports : reports[s].required => reports[s].status = "current"
      BY <3>1 DEF Outstanding
    <3> QED BY <2>2, <3>1, <3>2 DEF Assessable, Blocked
  <2> QED BY <2>3, <2>4 DEF AnswersHold
<1> QED BY <1>1, <1>2, <1>3 DEF Ask

\* A step keeps what was handed in and answered.
LEMMA SynthesesKeep == SynthesesIInv /\ [SynthesesNext]_synthesesVars => SynthesesIInv'
<1> SUFFICES ASSUME SynthesesIInv, [SynthesesNext]_synthesesVars PROVE SynthesesIInv'
  OBVIOUS
<1> USE DEF SynthesesIInv, ReportsTyped
<1>1. CASE ReportHypothesis
  BY <1>1 DEF ReportHypothesis, AnswersHold
<1>2. CASE ReportIssue
  BY <1>2 DEF ReportIssue, AnswersHold
<1>3. CASE ReportPass
  BY <1>3 DEF ReportPass, AnswersHold
<1>4. CASE Ask
  <2>1. ReportsTyped'
    BY <1>4 DEF Ask
  <2> QED BY <1>4, <2>1, AskAnswers
<1>5. CASE UNCHANGED synthesesVars
  BY <1>5 DEF synthesesVars, AnswersHold
<1> QED BY <1>1, <1>2, <1>3, <1>4, <1>5 DEF SynthesesNext

\* What several agents reported is never trusted more than the least of it, in any order.
THEOREM SynthesesAlwaysHold == SynthesesSpec => []SynthesesHold
<1>1. SynthesesInit => SynthesesIInv
  BY DEF SynthesesInit, SynthesesIInv, ReportsTyped, AnswersHold
<1>2. SynthesesIInv => SynthesesHold
  BY CautiousDiagnosis, CautiousReview DEF SynthesesIInv, ReportsTyped, SynthesesHold
<1> QED BY <1>1, <1>2, SynthesesKeep, PTL DEF SynthesesSpec

-----------------------------------------------------------------------------
(* Theorems about ContextPipeline, for any items and budgets, and for       *)
(* processors and selectors that do as they please.                         *)

\* The results of N steps from b.
Iterates(h, X, b, N, step) ==
  h \in [0..N -> X] /\ h[0] = b /\ \A k \in 1..N : h[k] = step[<<h[k - 1], k>>]

\* What is computed step by step can be.
LEMMA IteratesExist ==
  ASSUME NEW X, NEW b \in X, NEW N \in Nat, NEW step \in [X \X (1..N) -> X]
  PROVE  \E h : Iterates(h, X, b, N, step)
<1> DEFINE Upto(n, h) == h[0] = b /\ \A k \in 1..n : h[k] = step[<<h[k - 1], k>>]
           S == {n \in 0..N : \E h \in [0..n -> X] : Upto(n, h)}
<1>1. 0 \in S
  <2> DEFINE h == [k \in 0..0 |-> b]
  <2>1. h \in [0..0 -> X] /\ Upto(0, h)
    OBVIOUS
  <2>2. 0 \in 0..N
    OBVIOUS
  <2> HIDE DEF Upto, h
  <2> QED BY <2>1, <2>2
<1>2. ASSUME NEW n \in 0..N, n < N, n \in S PROVE n + 1 \in S
  <2>1. PICK g \in [0..n -> X] : Upto(n, g)
    BY <1>2
  <2> DEFINE h == [k \in 0..(n + 1) |-> IF k = n + 1 THEN step[<<g[n], n + 1>>] ELSE g[k]]
  <2>2. n \in Nat /\ n + 1 \in 1..N /\ n + 1 \in 0..N /\ n \in 0..n /\ n + 1 # 0 /\ 0 \in 0..n
    BY <1>2
  <2>3. g[n] \in X /\ step[<<g[n], n + 1>>] \in X
    BY <2>1, <2>2
  <2>4. \A k \in 0..(n + 1) : k # n + 1 => k \in 0..n
    BY <2>2
  <2>5. h \in [0..(n + 1) -> X]
    BY <2>1, <2>3, <2>4
  <2>6. h[0] = b
    BY <2>1, <2>2
  <2>7. \A k \in 1..(n + 1) : h[k] = step[<<h[k - 1], k>>]
    <3> TAKE k \in 1..(n + 1)
    <3>1. k \in 0..(n + 1) /\ k - 1 \in 0..(n + 1) /\ k - 1 # n + 1
      BY <2>2
    <3>2. h[k - 1] = g[k - 1]
      BY <3>1
    <3>3. CASE k = n + 1
      <4>1. h[k] = step[<<g[n], n + 1>>] /\ k - 1 = n
        BY <2>2, <3>1, <3>3
      <4> QED BY <3>2, <3>3, <4>1
    <3>4. CASE k # n + 1
      <4>1. k \in 1..n
        BY <2>2, <3>4
      <4>2. h[k] = g[k] /\ g[k] = step[<<g[k - 1], k>>]
        BY <2>1, <3>1, <3>4, <4>1
      <4> QED BY <3>2, <4>2
    <3> QED BY <3>3, <3>4
  <2> HIDE DEF h
  <2>8. Upto(n + 1, h)
    BY <2>6, <2>7
  <2> HIDE DEF Upto
  <2> QED BY <2>2, <2>5, <2>8
<1>3. N \in S
  <2> HIDE DEF S
  <2>1. \A n \in 0..N : n \in S
    BY <1>1, <1>2, InductionTo
  <2> QED BY <2>1
<1> QED BY <1>3 DEF Iterates

\* The steps of a sum.
LEMMA SumSteps ==
  ASSUME NEW N \in Nat, NEW f, \A k \in 1..N : f[k] \in Nat
  PROVE  /\ Sum(f, 0) = 0
         /\ \A k \in 0..N : Sum(f, k) \in Nat
         /\ \A k \in 1..N : k - 1 \in 0..N /\ Sum(f, k) = Sum(f, k - 1) + f[k]
<1> DEFINE step == [p \in Nat \X (1..N) |-> p[1] + f[p[2]]]
<1>1. step \in [Nat \X (1..N) -> Nat]
  OBVIOUS
<1>2. PICK h : Iterates(h, Nat, 0, N, step)
  <2> DEFINE b == 0
             X == Nat
  <2>1. b \in X /\ step \in [X \X (1..N) -> X]
    BY <1>1
  <2> HIDE DEF step, b, X
  <2>2. \E h : Iterates(h, X, b, N, step)
    BY <2>1, IteratesExist
  <2> QED BY <2>2 DEF X, b
<1>3. \A k \in 1..N : k \in 0..N /\ k - 1 \in 0..N /\ k # 0
  OBVIOUS
<1>4. \A k \in 1..N : h[k] = h[k - 1] + f[k]
  BY <1>2, <1>3 DEF Iterates
<1> HIDE DEF step
<1>5. ASSUME NEW n \in 0..N PROVE Sum(f, n) = h[n]
  <2> DEFINE Rule(a) == [k \in 0..n |-> IF k = 0 THEN 0 ELSE a[k - 1] + f[k]]
             upto == CHOOSE a : a = Rule(a)
             g == [k \in 0..n |-> h[k]]
  <2>1. \A k \in 0..n : k \in 0..N /\ (k # 0 => k \in 1..N /\ k - 1 \in 0..n)
    OBVIOUS
  <2>2. \A k \in 0..n : g[k] = IF k = 0 THEN 0 ELSE g[k - 1] + f[k]
    BY <1>2, <1>4, <2>1 DEF Iterates
  <2>3. g = Rule(g)
    <3>1. g = [k \in 0..n |-> g[k]]
      OBVIOUS
    <3> HIDE DEF g
    <3> QED BY <2>2, <3>1
  <2>4. upto = Rule(upto)
    <3> HIDE DEF g
    <3> QED BY <2>3
  <2> DEFINE S == {k \in 0..n : upto[k] = h[k]}
  <2> HIDE DEF upto
  <2>5. 0 \in S
    <3>1. 0 \in 0..n
      OBVIOUS
    <3> QED BY <1>2, <2>4, <3>1 DEF Iterates
  <2>6. ASSUME NEW k \in 0..n, k < n, k \in S PROVE k + 1 \in S
    <3>1. k + 1 \in 0..n /\ k + 1 # 0 /\ (k + 1) - 1 = k /\ k + 1 \in 1..N
      BY <2>6
    <3>2. upto[k] = h[k]
      BY <2>6
    <3>3. upto[k + 1] = upto[k] + f[k + 1] /\ h[k + 1] = h[k] + f[k + 1]
      BY <1>4, <2>4, <3>1
    <3> QED BY <3>1, <3>2, <3>3
  <2>7. \A k \in 0..n : k \in S
    <3>1. n \in Nat
      OBVIOUS
    <3> HIDE DEF S
    <3> QED BY <2>5, <2>6, <3>1, InductionTo
  <2>8. Sum(f, n) = upto[n]
    BY DEF Sum, upto
  <2>9. n \in 0..n
    OBVIOUS
  <2> QED BY <2>7, <2>8, <2>9
<1>6. Sum(f, 0) = 0
  <2>1. 0 \in 0..N
    OBVIOUS
  <2> QED BY <1>2, <1>5, <2>1 DEF Iterates
<1> QED BY <1>2, <1>3, <1>4, <1>5, <1>6 DEF Iterates

\* A sum grows with its numbers, by no less than any of them does.
LEMMA SumGrows ==
  ASSUME NEW N \in Nat, NEW f, NEW g,
         \A k \in 1..N : f[k] \in Nat /\ g[k] \in Nat /\ f[k] <= g[k]
  PROVE  /\ Sum(f, N) \in Nat /\ Sum(g, N) \in Nat /\ Sum(f, N) <= Sum(g, N)
         /\ \A i \in 1..N : Sum(f, N) + (g[i] - f[i]) <= Sum(g, N)
<1> DEFINE S == {k \in 0..N : /\ Sum(f, k) <= Sum(g, k)
                             /\ \A i \in 1..k : Sum(f, k) + (g[i] - f[i]) <= Sum(g, k)}
<1>1. /\ Sum(f, 0) = 0 /\ Sum(g, 0) = 0
      /\ \A k \in 0..N : Sum(f, k) \in Nat /\ Sum(g, k) \in Nat
      /\ \A k \in 1..N : /\ k - 1 \in 0..N /\ Sum(f, k) = Sum(f, k - 1) + f[k]
                         /\ Sum(g, k) = Sum(g, k - 1) + g[k]
  BY SumSteps
<1>2. 0 \in S
  BY <1>1
<1>3. ASSUME NEW k \in 0..N, k < N, k \in S PROVE k + 1 \in S
  <2>1. k + 1 \in 1..N /\ (k + 1) - 1 = k /\ k + 1 \in 0..N
    BY <1>3
  <2> DEFINE a == Sum(f, k)
             b == Sum(g, k)
             A == Sum(f, k + 1)
             B == Sum(g, k + 1)
  <2>2. a \in Nat /\ b \in Nat /\ A = a + f[k + 1] /\ B = b + g[k + 1]
    BY <1>1, <2>1
  <2>3. f[k + 1] \in Nat /\ g[k + 1] \in Nat /\ f[k + 1] <= g[k + 1]
    BY <2>1
  <2>4. a <= b /\ \A i \in 1..k : a + (g[i] - f[i]) <= b
    BY <1>3
  <2> HIDE DEF a, b, A, B
  <2>5. A <= B
    BY <2>2, <2>3, <2>4
  <2>6. ASSUME NEW i \in 1..(k + 1) PROVE A + (g[i] - f[i]) <= B
    <3>1. CASE i = k + 1
      BY <2>2, <2>3, <2>4, <3>1
    <3>2. CASE i # k + 1
      <4>1. i \in 1..k /\ i \in 1..N
        BY <2>1, <3>2
      <4>2. g[i] \in Nat /\ f[i] \in Nat /\ a + (g[i] - f[i]) <= b
        BY <2>4, <4>1
      <4> QED BY <2>2, <2>3, <4>2
    <3> QED BY <3>1, <3>2
  <2> QED BY <2>1, <2>5, <2>6 DEF A, B
<1>4. N \in S
  <2> HIDE DEF S
  <2>1. \A k \in 0..N : k \in S
    BY <1>2, <1>3, InductionTo
  <2> QED BY <2>1
<1>5. Sum(f, N) \in Nat /\ Sum(g, N) \in Nat
  <2>1. N \in 0..N
    OBVIOUS
  <2> QED BY <1>1, <2>1
<1> QED BY <1>4, <1>5

\* Sums of the same numbers.
LEMMA SumsAgree ==
  ASSUME NEW N \in Nat, NEW f, NEW g, \A k \in 1..N : f[k] \in Nat /\ g[k] = f[k]
  PROVE  Sum(f, N) = Sum(g, N)
<1>1. \A k \in 1..N : f[k] <= g[k] /\ g[k] <= f[k] /\ g[k] \in Nat
  OBVIOUS
<1>2. Sum(f, N) \in Nat /\ Sum(g, N) \in Nat /\ Sum(f, N) <= Sum(g, N)
  BY <1>1, SumGrows
<1>3. Sum(g, N) <= Sum(f, N)
  BY <1>1, SumGrows
<1> QED BY <1>2, <1>3

\* Numbers that are each found among others, at places of their own, sum up to no more.
LEMMA SumOfPlaces ==
  ASSUME NEW N \in Nat, NEW M \in Nat, NEW f, NEW g, NEW place \in [1..M -> 1..N],
         \A k \in 1..M : f[k] \in Nat,
         \A i \in 1..N : /\ g[i] \in Nat
                         /\ g[i] = 0 \/ \E k \in 1..M : place[k] = i /\ g[i] <= f[k]
  PROVE  Sum(g, N) <= Sum(f, M)
<1> DEFINE F(j) == [k \in 1..M |-> IF place[k] <= j THEN f[k] ELSE 0]
           S == {j \in 0..N : Sum(g, j) <= Sum(F(j), M)}
<1>1. \A j \in 0..N : \A k \in 1..M : F(j)[k] \in Nat
  OBVIOUS
<1>2. \A j \in 0..N : Sum(F(j), M) \in Nat
  <2> TAKE j \in 0..N
  <2> DEFINE a == F(j)
  <2>1. \A k \in 1..M : a[k] \in Nat
    BY <1>1
  <2> HIDE DEF a
  <2>2. Sum(a, M) \in Nat
    <3>1. M \in 0..M
      OBVIOUS
    <3> QED BY <2>1, <3>1, SumSteps
  <2> QED BY <2>2 DEF a
<1>3. /\ Sum(g, 0) = 0 /\ \A k \in 0..N : Sum(g, k) \in Nat
      /\ \A k \in 1..N : k - 1 \in 0..N /\ Sum(g, k) = Sum(g, k - 1) + g[k]
  BY SumSteps
<1>4. 0 \in S
  <2>1. 0 \in 0..N
    OBVIOUS
  <2> HIDE DEF F
  <2> QED BY <1>2, <1>3, <2>1
<1>5. ASSUME NEW j \in 0..N, j < N, j \in S PROVE j + 1 \in S
  <2>1. j + 1 \in 1..N /\ j + 1 \in 0..N /\ (j + 1) - 1 = j
    BY <1>5
  <2> DEFINE a == F(j)
             b == F(j + 1)
  <2>2. \A k \in 1..M : a[k] \in Nat /\ b[k] \in Nat /\ a[k] <= b[k]
    BY <2>1
  <2>3. Sum(g, j + 1) = Sum(g, j) + g[j + 1] /\ Sum(g, j) \in Nat /\ g[j + 1] \in Nat
    BY <1>3, <2>1
  <2>4. Sum(g, j) <= Sum(a, M)
    BY <1>5
  <2>5. Sum(a, M) + g[j + 1] <= Sum(b, M)
    <3>1. CASE g[j + 1] = 0
      <4> HIDE DEF a, b
      <4>1. Sum(a, M) \in Nat /\ Sum(a, M) <= Sum(b, M)
        BY <2>2, SumGrows
      <4> QED BY <3>1, <4>1
    <3>2. CASE g[j + 1] # 0
      <4>1. PICK k \in 1..M : place[k] = j + 1 /\ g[j + 1] <= f[k]
        BY <2>1, <3>2
      <4>2. a[k] = 0 /\ b[k] = f[k]
        BY <2>1, <4>1
      <4> HIDE DEF a, b
      <4>3. /\ Sum(a, M) \in Nat /\ Sum(b, M) \in Nat
            /\ Sum(a, M) + (b[k] - a[k]) <= Sum(b, M)
        BY <2>2, SumGrows
      <4> QED BY <2>2, <2>3, <4>1, <4>2, <4>3
    <3> QED BY <3>1, <3>2
  <2>6. Sum(a, M) \in Nat /\ Sum(b, M) \in Nat
    <3> HIDE DEF a, b
    <3> QED BY <2>2, SumGrows
  <2>7. Sum(g, j + 1) <= Sum(b, M)
    <3> HIDE DEF a, b
    <3> QED BY <2>3, <2>4, <2>5, <2>6
  <2> HIDE DEF F
  <2> QED BY <2>1, <2>7
<1>6. Sum(g, N) <= Sum(F(N), M)
  <2> HIDE DEF S
  <2>1. \A j \in 0..N : j \in S
    BY <1>4, <1>5, InductionTo
  <2>2. N \in S
    BY <2>1
  <2> USE DEF S
  <2> HIDE DEF F
  <2> QED BY <2>2
<1>7. Sum(F(N), M) = Sum(f, M)
  <2>1. \A k \in 1..M : f[k] = F(N)[k]
    OBVIOUS
  <2> HIDE DEF F
  <2> QED BY <1>1, <2>1, SumsAgree
<1> QED BY <1>6, <1>7

\* A part of a text.
LEMMA CutIs ==
  ASSUME NEW text \in Seq(Character), NEW n \in 0..Len(text)
  PROVE  Cut(text, n) \in Seq(Character) /\ Len(Cut(text, n)) = n /\ Cut(text, Len(text)) = text
<1>1. Len(text) \in Nat /\ n \in Nat /\ \A k \in 1..n : text[k] \in Character
  OBVIOUS
<1>2. Cut(text, n) = [k \in 1..n |-> text[k]]
  BY DEF Cut
<1>3. Cut(text, n) \in Seq(Character) /\ Len(Cut(text, n)) = n
  BY <1>1, <1>2
<1>4. text = [k \in 1..Len(text) |-> text[k]]
  OBVIOUS
<1> QED BY <1>3, <1>4 DEF Cut

\* What fits of an item is the item up to some character.
LEMMA FittingIs ==
  ASSUME NEW item \in ContextItem, NEW room \in Nat
  PROVE  /\ Fitting(item, room) \in ContextItem /\ Fitting(item, room).id = item.id
         /\ Len(Fitting(item, room).text) = IF Len(item.text) <= room THEN Len(item.text) ELSE room
         /\ Fitting(item, room).text = Cut(item.text, Len(Fitting(item, room).text))
         /\ Len(item.text) <= room => Fitting(item, room) = item
<1>1. item.text \in Seq(Character) /\ Len(item.text) \in Nat
  BY DEF ContextItem
<1>2. CASE Len(item.text) <= room
  <2>1. Cut(item.text, Len(item.text)) = item.text
    <3>1. Len(item.text) \in 0..Len(item.text)
      BY <1>1
    <3> QED BY <1>1, <3>1, CutIs
  <2> QED BY <1>2, <2>1 DEF Fitting
<1>3. CASE ~(Len(item.text) <= room)
  <2> DEFINE q == [item EXCEPT !.text = Cut(item.text, room)]
  <2>1. room \in 0..Len(item.text)
    BY <1>1, <1>3
  <2>2. Cut(item.text, room) \in Seq(Character) /\ Len(Cut(item.text, room)) = room
    BY <1>1, <2>1, CutIs
  <2>3. q \in ContextItem /\ q.id = item.id /\ q.text = Cut(item.text, room)
    BY <2>2 DEF ContextItem
  <2>4. Fitting(item, room) = q
    BY <1>3 DEF Fitting
  <2> HIDE DEF q
  <2> QED BY <1>3, <2>2, <2>3, <2>4
<1> QED BY <1>2, <1>3

\* The characters of some items.
LEMMA RenderedOf ==
  ASSUME NEW s \in Seq(ContextItem)
  PROVE  Len(s) \in Nat /\ Rendered(s) \in Nat
<1> DEFINE n == Len(s)
           f == [i \in DOMAIN s |-> Len(s[i].text)]
<1>1. n \in Nat /\ n \in 0..n /\ DOMAIN s = 1..n /\ \A i \in 1..n : s[i] \in ContextItem
  OBVIOUS
<1>2. \A i \in 1..n : f[i] \in Nat
  BY <1>1 DEF ContextItem
<1>3. Rendered(s) = Sum(f, n) + Separators(n)
  BY DEF Rendered
<1> HIDE DEF f, n
<1>4. Sum(f, n) \in Nat
  BY <1>1, <1>2, SumSteps
<1>5. Separators(n) \in Nat
  BY <1>1 DEF Separators
<1> QED BY <1>1, <1>3, <1>4, <1>5 DEF n

\* An item more, with what separates it.
LEMMA RenderedWith ==
  ASSUME NEW s \in Seq(ContextItem), NEW item \in ContextItem
  PROVE  /\ Rendered(s) \in Nat /\ Len(s) \in Nat /\ Len(item.text) \in Nat
         /\ Rendered(Append(s, item)) =
              Rendered(s) + Len(item.text) + (IF s = <<>> THEN 0 ELSE 2)
<1> DEFINE n == Len(s)
           t == Append(s, item)
           f == [i \in DOMAIN s |-> Len(s[i].text)]
           g == [i \in DOMAIN t |-> Len(t[i].text)]
<1>1. /\ n \in Nat /\ n + 1 \in Nat /\ Len(t) = n + 1 /\ DOMAIN s = 1..n /\ DOMAIN t = 1..(n + 1)
      /\ t[n + 1] = item /\ \A i \in 1..n : t[i] = s[i] /\ s[i] \in ContextItem
  OBVIOUS
<1>2. \A x \in ContextItem : Len(x.text) \in Nat
  BY DEF ContextItem
<1>3. (\A i \in 1..n : f[i] \in Nat /\ g[i] = f[i]) /\ g[n + 1] = Len(item.text)
  BY <1>1, <1>2
<1>4. s = <<>> <=> n = 0
  OBVIOUS
<1> HIDE DEF f, g, n
<1>5. Sum(f, n) = Sum(g, n)
  BY <1>1, <1>3, SumsAgree
<1>6. Sum(f, n) \in Nat
  <2>1. n \in 0..n
    BY <1>1
  <2> QED BY <1>1, <1>3, <2>1, SumSteps
<1>7. Sum(g, n + 1) = Sum(g, n) + g[n + 1]
  <2>1. n + 1 \in 1..(n + 1) /\ (n + 1) - 1 = n
    BY <1>1
  <2>2. \A i \in 1..(n + 1) : g[i] \in Nat
    <3> TAKE i \in 1..(n + 1)
    <3>1. i = n + 1 \/ i \in 1..n
      BY <1>1
    <3> QED BY <1>2, <1>3, <3>1
  <2>3. Sum(g, n + 1) = Sum(g, (n + 1) - 1) + g[n + 1]
    BY <1>1, <2>1, <2>2, SumSteps
  <2> QED BY <2>1, <2>3
<1>8. Rendered(s) = Sum(f, n) + Separators(n) /\ Rendered(t) = Sum(g, n + 1) + Separators(n + 1)
  BY <1>1 DEF Rendered, f, g, n
<1>9. /\ Separators(n) \in Nat /\ Separators(n + 1) = Separators(n) + (IF s = <<>> THEN 0 ELSE 2)
  BY <1>1, <1>4 DEF Separators
<1>10. Len(item.text) \in Nat
  BY <1>2
<1> HIDE DEF t
<1>11. Rendered(t) = Rendered(s) + Len(item.text) + (IF s = <<>> THEN 0 ELSE 2)
  BY <1>3, <1>5, <1>6, <1>7, <1>8, <1>9, <1>10
<1>12. Rendered(s) \in Nat
  BY <1>6, <1>8, <1>9
<1> QED BY <1>1, <1>10, <1>11, <1>12 DEF n, t

\* Nothing to render.
LEMMA NothingRendered == Rendered(<<>>) = 0
<1> DEFINE f == [i \in DOMAIN <<>> |-> Len(<<>>[i].text)]
<1>1. Sum(f, 0) = 0
  <2>1. \A k \in 1..0 : f[k] \in Nat
    OBVIOUS
  <2> HIDE DEF f
  <2> QED BY <2>1, SumSteps
<1>2. Rendered(<<>>) = Sum(f, 0) + Separators(0)
  BY DEF Rendered
<1> HIDE DEF f
<1> QED BY <1>1, <1>2 DEF Separators

\* An id tells which item it is.
LEMMA WithIdIs ==
  ASSUME NEW items, UniqueIds(items), NEW i \in DOMAIN items
  PROVE  WithId(items, items[i].id) = items[i]
<1>1. \A j \in DOMAIN items : items[j].id = items[i].id <=> j = i
  BY DEF UniqueIds
<1>2. (CHOOSE j \in DOMAIN items : items[j].id = items[i].id) = i
  BY <1>1
<1> QED BY <1>2 DEF WithId

\* Some of the items.
LEMMA OnlyIs ==
  ASSUME NEW X, NEW items \in Seq(X), NEW places \in SUBSET DOMAIN items
  PROVE  /\ Only(items, places) \in Seq(X)
         /\ \A r \in DOMAIN Only(items, places) : \E i \in places : Only(items, places)[r] = items[i]
         /\ UniqueIds(items) => UniqueIds(Only(items, places))
<1> DEFINE above == {pair \in places \X places : pair[1] < pair[2]}
           at == InOrder(places, above)
           n == Cardinality(places)
           only == Only(items, places)
<1>1. Len(items) \in Nat /\ DOMAIN items = 1..Len(items) /\ \A i \in DOMAIN items : items[i] \in X
  OBVIOUS
<1>2. IsFiniteSet(places)
  <2>1. IsFiniteSet(1..Len(items))
    BY <1>1, FS_Interval
  <2> QED BY <1>1, <2>1, FS_Subset
<1>3. \A a, b \in places : <<a, b>> \in above <=> a < b
  OBVIOUS
<1>4. \A a \in places : a \in Nat
  BY <1>1
<1>5. Sorts(above, places)
  <2> HIDE DEF above
  <2> QED BY <1>3, <1>4 DEF Sorts
<1>6. /\ n \in Nat /\ DOMAIN at = 1..n /\ \A r \in 1..n : at[r] \in places
      /\ \A q, r \in 1..n : q < r => <<at[q], at[r]>> \in above
  <2> HIDE DEF above
  <2> QED BY <1>2, <1>5, SortedInOrder
<1> HIDE DEF at, above, n
<1>7. only = [r \in 1..n |-> items[at[r]]]
  BY DEF Only, at, above, n
<1>8. only \in Seq(X) /\ DOMAIN only = 1..n /\ \A r \in 1..n : only[r] = items[at[r]]
  BY <1>1, <1>6, <1>7
<1> HIDE DEF only
<1>9. ASSUME UniqueIds(items), NEW q \in 1..n, NEW r \in 1..n, only[q].id = only[r].id
      PROVE  q = r
  <2>1. at[q] = at[r]
    BY <1>6, <1>8, <1>9 DEF UniqueIds
  <2>2. at[q] \in places /\ at[r] \in places /\ at[q] \in Nat /\ ~(at[q] < at[q])
    BY <1>4, <1>6
  <2>3. <<at[q], at[r]>> \notin above /\ <<at[r], at[q]>> \notin above
    BY <1>3, <2>1, <2>2
  <2>4. ~(q < r) /\ ~(r < q)
    BY <1>6, <2>3
  <2> QED BY <1>6, <2>4
<1>10. UniqueIds(items) => UniqueIds(only)
  BY <1>8, <1>9 DEF UniqueIds
<1> QED BY <1>6, <1>8, <1>10 DEF only

\* How often an item names what was asked for.
LEMMA MatchesIn ==
  ASSUME NEW item \in ContextItem
  PROVE  Matches(item) \in Nat
<1>1. IsFiniteSet(DOMAIN item.text)
  <2>1. item.text \in Seq(Character) /\ DOMAIN item.text = 1..Len(item.text) /\ Len(item.text) \in Nat
    BY DEF ContextItem
  <2> QED BY <2>1, FS_Interval
<1>2. {k \in DOMAIN item.text : item.text[k] \in Query} \in SUBSET DOMAIN item.text
  OBVIOUS
<1> QED BY <1>1, <1>2, FS_Subset, FS_CardinalityType DEF Matches

\* The ranks name every place once, and no one is served before what ranks above it.
LEMMA RanksAre ==
  ASSUME NEW items \in Seq(ContextItem)
  PROVE  /\ Ranks(items) \in [1..Len(items) -> 1..Len(items)]
         /\ \A q, r \in 1..Len(items) : Ranks(items)[q] = Ranks(items)[r] => q = r
         /\ \A i \in 1..Len(items) : \E r \in 1..Len(items) : Ranks(items)[r] = i
         /\ \A q, r \in 1..Len(items) :
              ServedBefore(items, Ranks(items)[q], Ranks(items)[r]) => q < r
<1> DEFINE n == Len(items)
           above == {pair \in (DOMAIN items) \X (DOMAIN items) : ServedBefore(items, pair[1], pair[2])}
           order == Ranks(items)
<1>1. n \in Nat /\ DOMAIN items = 1..n /\ \A i \in 1..n : items[i] \in ContextItem
  OBVIOUS
<1> HIDE DEF n
<1>2. \A i \in 1..n : Matches(items[i]) \in Nat /\ items[i].priority \in Int
  BY <1>1, MatchesIn DEF ContextItem
<1>3. \A a, b \in 1..n : <<a, b>> \in above <=> ServedBefore(items, a, b)
  BY <1>1
<1>4. \A a \in 1..n : ~ServedBefore(items, a, a)
  BY <1>1, <1>2 DEF ServedBefore
<1>5. ASSUME NEW a \in 1..n, NEW b \in 1..n, NEW c \in 1..n,
             ServedBefore(items, a, b), ServedBefore(items, b, c)
      PROVE  ServedBefore(items, a, c)
  <2> DEFINE A == Matches(items[a])
             B == Matches(items[b])
             C == Matches(items[c])
             P == items[a].priority
             Q == items[b].priority
             R == items[c].priority
  <2>1. A \in Nat /\ B \in Nat /\ C \in Nat /\ P \in Int /\ Q \in Int /\ R \in Int
    BY <1>2
  <2>2. \/ A > B
        \/ A = B /\ P > Q
        \/ A = B /\ P = Q /\ a < b
    BY <1>5, <2>1 DEF ServedBefore
  <2>3. \/ B > C
        \/ B = C /\ Q > R
        \/ B = C /\ Q = R /\ b < c
    BY <1>5, <2>1 DEF ServedBefore
  <2> HIDE DEF A, B, C, P, Q, R
  <2>4. \/ A > C
        \/ A = C /\ P > R
        \/ A = C /\ P = R /\ a < c
    BY <1>1, <2>1, <2>2, <2>3
  <2> QED BY <2>4 DEF ServedBefore, A, C, P, R
<1>6. ASSUME NEW a \in 1..n, NEW b \in 1..n, a # b
      PROVE  ServedBefore(items, a, b) \/ ServedBefore(items, b, a)
  <2> DEFINE A == Matches(items[a])
             B == Matches(items[b])
             P == items[a].priority
             Q == items[b].priority
  <2>1. A \in Nat /\ B \in Nat /\ P \in Int /\ Q \in Int
    BY <1>2
  <2> HIDE DEF A, B, P, Q
  <2>2. \/ A > B
        \/ A = B /\ P > Q
        \/ A = B /\ P = Q /\ a < b
        \/ B > A
        \/ B = A /\ Q > P
        \/ B = A /\ Q = P /\ b < a
    <3>1. a \in Nat /\ b \in Nat /\ (a < b \/ b < a)
      BY <1>1, <1>6
    <3> QED BY <2>1, <3>1
  <2> QED BY <2>2 DEF ServedBefore, A, B, P, Q
<1>7. Sorts(above, DOMAIN items)
  <2> HIDE DEF above
  <2>1. \A a \in 1..n : <<a, a>> \notin above
    BY <1>3, <1>4
  <2>2. \A a, b, c \in 1..n : <<a, b>> \in above /\ <<b, c>> \in above => <<a, c>> \in above
    BY <1>3, <1>5
  <2>3. \A a, b \in 1..n : a # b => <<a, b>> \in above \/ <<b, a>> \in above
    BY <1>3, <1>6
  <2> QED BY <1>1, <2>1, <2>2, <2>3 DEF Sorts
<1>8. IsFiniteSet(1..n) /\ Cardinality(1..n) = n
  BY <1>1, FS_Interval
<1>9. order = InOrder(DOMAIN items, above)
  BY DEF Ranks
<1>10. /\ DOMAIN order = 1..n /\ \A r \in 1..n : order[r] \in 1..n
       /\ \A q, r \in 1..n : q < r => <<order[q], order[r]>> \in above
  <2> HIDE DEF above, order
  <2> QED BY <1>1, <1>7, <1>8, <1>9, SortedInOrder
<1>11. order \in [1..n -> 1..n]
  <2>1. order = [r \in DOMAIN order |-> order[r]]
    BY <1>9 DEF InOrder
  <2> HIDE DEF order
  <2> QED BY <1>10, <2>1
<1> HIDE DEF order, above
<1>12. \A q, r \in 1..n : q < r => ServedBefore(items, order[q], order[r])
  BY <1>3, <1>10
<1>13. \A q, r \in 1..n : order[q] = order[r] => q = r
  <2> SUFFICES ASSUME NEW q \in 1..n, NEW r \in 1..n, order[q] = order[r], q # r PROVE FALSE
    OBVIOUS
  <2>1. q < r \/ r < q
    BY <1>1
  <2> QED BY <1>4, <1>10, <1>12, <2>1
<1>14. \A i \in 1..n : \E r \in 1..n : order[r] = i
  <2>1. order \in Injection(1..n, 1..n)
    BY <1>11, <1>13 DEF Injection, IsInjective
  <2>2. order \in Surjection(1..n, 1..n)
    BY <1>8, <2>1, FS_Injection
  <2> QED BY <2>2 DEF Surjection
<1>15. ASSUME NEW q \in 1..n, NEW r \in 1..n, ServedBefore(items, order[q], order[r]) PROVE q < r
  <2>1. CASE q = r
    BY <1>4, <1>10, <1>15, <2>1
  <2>2. CASE r < q
    <3>1. ServedBefore(items, order[r], order[q])
      BY <1>12, <2>2
    <3>2. ServedBefore(items, order[q], order[q])
      BY <1>5, <1>10, <1>15, <3>1
    <3> QED BY <1>4, <1>10, <3>2
  <2>3. q < r \/ q = r \/ r < q
    BY <1>1
  <2> QED BY <2>1, <2>2, <2>3
<1> QED BY <1>11, <1>13, <1>14, <1>15 DEF order, n

\* What a round goes on with.
Serving == [items : Seq(ContextItem), remaining : Nat]

\* A round leaves what the next one can go on with.
LEMMA ServeGoesOn ==
  ASSUME NEW state \in Serving, NEW item \in ContextItem
  PROVE  /\ Serve(state, item) \in Serving /\ Room(state) \in Nat /\ Len(state.items) \in Nat
         /\ ~Full(state) => LET put == Fitting(item, Room(state)) IN
              /\ Serve(state, item).items = Append(state.items, put)
              /\ Serve(state, item).remaining = Room(state) - Len(put.text)
         /\ Full(state) => Serve(state, item) = state
<1> DEFINE room == Room(state)
           put == Fitting(item, room)
<1>1. state.items \in Seq(ContextItem) /\ state.remaining \in Nat /\ Len(state.items) \in Nat
  BY DEF Serving
<1>2. room \in Nat
  BY <1>1 DEF Room, Available
<1>3. Len(item.text) \in Nat
  BY DEF ContextItem
<1>4. put \in ContextItem /\ Len(put.text) \in Nat /\ Len(put.text) <= room
  <2> HIDE DEF room
  <2> QED BY <1>2, <1>3, FittingIs
<1>5. CASE Full(state)
  BY <1>1, <1>2, <1>5 DEF Serve
<1>6. CASE ~Full(state)
  <2>1. Serve(state, item) = [items |-> Append(state.items, put), remaining |-> room - Len(put.text)]
    BY <1>6 DEF Serve
  <2> HIDE DEF room, put
  <2>2. Append(state.items, put) \in Seq(ContextItem) /\ room - Len(put.text) \in Nat
    BY <1>1, <1>2, <1>4
  <2>3. Serve(state, item) \in Serving
    BY <2>1, <2>2 DEF Serving
  <2> QED BY <1>1, <1>2, <1>6, <2>1, <2>3 DEF room, put
<1> QED BY <1>5, <1>6

\* The rounds, one by one.
LEMMA ServingsAre ==
  ASSUME NEW items \in Seq(ContextItem), budget \in ContextBudget
  PROVE  /\ Servings(items) \in [0..Len(items) -> Serving]
         /\ Servings(items)[0] = [items |-> <<>>, remaining |-> budget.chars]
         /\ \A r \in 1..Len(items) :
              /\ r - 1 \in 0..Len(items) /\ items[Ranks(items)[r]] \in ContextItem
              /\ Servings(items)[r] = Serve(Servings(items)[r - 1], items[Ranks(items)[r]])
<1> DEFINE n == Len(items)
           order == Ranks(items)
           start == [items |-> <<>>, remaining |-> budget.chars]
           step == [p \in Serving \X (1..n) |-> Serve(p[1], items[order[p[2]]])]
           Rule(a) == [r \in 0..n |-> IF r = 0 THEN start ELSE Serve(a[r - 1], items[order[r]])]
           served == CHOOSE a : a = Rule(a)
<1>1. n \in Nat /\ \A r \in 1..n : r \in 0..n /\ r - 1 \in 0..n /\ r # 0
  OBVIOUS
<1>2. \A r \in 1..n : items[order[r]] \in ContextItem
  <2>1. order \in [1..n -> 1..n]
    BY RanksAre
  <2> HIDE DEF order
  <2> QED BY <2>1
<1>3. start \in Serving
  BY DEF ContextBudget, Serving
<1> HIDE DEF n, order, start
<1>4. step \in [Serving \X (1..n) -> Serving]
  BY <1>2, ServeGoesOn
<1>5. PICK h : Iterates(h, Serving, start, n, step)
  <2> HIDE DEF step
  <2> QED BY <1>1, <1>3, <1>4, IteratesExist
<1>6. \A r \in 1..n : h[r] = Serve(h[r - 1], items[order[r]])
  BY <1>1, <1>5 DEF Iterates
<1> HIDE DEF step
<1>7. h = Rule(h)
  <2>1. \A r \in 0..n : h[r] = IF r = 0 THEN start ELSE Serve(h[r - 1], items[order[r]])
    <3> TAKE r \in 0..n
    <3>1. r = 0 \/ r \in 1..n
      BY <1>1
    <3> QED BY <1>1, <1>5, <1>6, <3>1 DEF Iterates
  <2>2. h = [r \in 0..n |-> h[r]]
    BY <1>5 DEF Iterates
  <2> QED BY <2>1, <2>2
<1>8. served = Rule(served)
  BY <1>7
<1> HIDE DEF served
<1>9. \A r \in 0..n : served[r] = h[r]
  <2> DEFINE S == {r \in 0..n : served[r] = h[r]}
  <2>1. 0 \in S
    <3>1. 0 \in 0..n
      BY <1>1
    <3> QED BY <1>5, <1>8, <3>1 DEF Iterates
  <2>2. ASSUME NEW r \in 0..n, r < n, r \in S PROVE r + 1 \in S
    <3>1. r + 1 \in 0..n /\ r + 1 \in 1..n /\ r + 1 # 0 /\ (r + 1) - 1 = r
      BY <1>1, <2>2
    <3>2. served[r] = h[r]
      BY <2>2
    <3>3. served[r + 1] = Serve(served[r], items[order[r + 1]])
      BY <1>8, <3>1
    <3>4. h[r + 1] = Serve(h[r], items[order[r + 1]])
      BY <1>6, <3>1
    <3> QED BY <3>1, <3>2, <3>3, <3>4
  <2> HIDE DEF S
  <2>3. \A r \in 0..n : r \in S
    BY <1>1, <2>1, <2>2, InductionTo
  <2> QED BY <2>3 DEF S
<1>10. served = h
  <2>1. h = [r \in 0..n |-> h[r]]
    BY <1>5 DEF Iterates
  <2>2. served = [r \in 0..n |-> served[r]]
    BY <1>8
  <2> QED BY <1>9, <2>1, <2>2
<1>11. Servings(items) = served
  BY DEF Servings, served, order, start, n
<1> QED BY <1>1, <1>2, <1>5, <1>6, <1>10, <1>11 DEF Iterates, order, start, n

\* After r rounds: what was chosen fits the budget, a round that found it full chose nothing,
\* and once full it stays so.
ServedSo(items, r) ==
  LET state == Servings(items)[r]
      m == Len(state.items) IN
  /\ m <= r /\ m <= budget.items
  /\ m < r => Full(state)
  /\ Rendered(state.items) + state.remaining <= budget.chars
  /\ \A q \in 1..r :
       LET before == Servings(items)[q - 1]
           item == items[Ranks(items)[q]] IN
       IF q <= m
       THEN /\ ~Full(before) /\ state.items[q] = Fitting(item, Room(before))
            /\ Servings(items)[q].remaining = Room(before) - Len(Fitting(item, Room(before)).text)
       ELSE Full(before)

\* That is so after every round.
LEMMA RoundsServeSo ==
  ASSUME NEW items \in Seq(ContextItem), budget \in ContextBudget
  PROVE  \A r \in 0..Len(items) : ServedSo(items, r)
<1> DEFINE n == Len(items)
           s == Servings(items)
           S == {r \in 0..n : ServedSo(items, r)}
<1>1. n \in Nat
  OBVIOUS
<1>2. budget.chars \in Nat /\ budget.items \in Nat
  BY DEF ContextBudget
<1>3. /\ \A r \in 0..n : s[r] \in Serving
      /\ s[0] = [items |-> <<>>, remaining |-> budget.chars]
      /\ \A r \in 1..n : /\ r - 1 \in 0..n /\ items[Ranks(items)[r]] \in ContextItem
                         /\ s[r] = Serve(s[r - 1], items[Ranks(items)[r]])
  <2> HIDE DEF s
  <2> QED BY ServingsAre DEF s
<1> HIDE DEF s, n
<1>4. 0 \in S
  <2>1. s[0].items = <<>> /\ s[0].remaining = budget.chars /\ Len(<<>>) = 0
    BY <1>3
  <2>2. Rendered(s[0].items) = 0
    BY <2>1, NothingRendered
  <2>3. ServedSo(items, 0)
    BY <1>2, <2>1, <2>2 DEF ServedSo, s
  <2> QED BY <1>1, <2>3
<1>5. ASSUME NEW k \in 0..n, k < n, k \in S PROVE k + 1 \in S
  <2> DEFINE r == k + 1
             old == s[k]
             new == s[r]
             item == items[Ranks(items)[r]]
             m == Len(old.items)
             room == Room(old)
             put == Fitting(item, room)
  <2>1. r \in 1..n /\ r \in 0..n /\ r - 1 = k /\ k \in Nat
    BY <1>1, <1>5
  <2>2. old \in Serving /\ item \in ContextItem /\ new = Serve(old, item)
    <3>1. new = Serve(s[r - 1], item) /\ item \in ContextItem
      BY <1>3, <2>1
    <3>2. s[r - 1] = old
      BY <2>1
    <3> QED BY <1>3, <3>1, <3>2
  <2>3. /\ m <= k /\ m <= budget.items /\ (m < k => Full(old))
        /\ Rendered(old.items) + old.remaining <= budget.chars
        /\ \A q \in 1..k : IF q <= m
             THEN /\ ~Full(s[q - 1])
                  /\ old.items[q] = Fitting(items[Ranks(items)[q]], Room(s[q - 1]))
                  /\ s[q].remaining =
                       Room(s[q - 1]) - Len(Fitting(items[Ranks(items)[q]], Room(s[q - 1])).text)
             ELSE Full(s[q - 1])
    BY <1>5 DEF ServedSo, s
  <2>4. old.items \in Seq(ContextItem) /\ old.remaining \in Nat /\ m \in Nat /\ room \in Nat
    BY <2>2, ServeGoesOn DEF Serving
  <2>5. /\ put \in ContextItem /\ Len(put.text) \in Nat /\ Len(put.text) <= room
    <3>1. Len(item.text) \in Nat
      BY <2>2 DEF ContextItem
    <3> HIDE DEF room, item
    <3> QED BY <2>2, <2>4, <3>1, FittingIs
  <2> HIDE DEF r, old, new, item, m, room, put
  <2>6. CASE Full(old)
    <3>1. new = old
      BY <2>2, <2>6, ServeGoesOn
    <3>2. m < r /\ m <= r
      BY <2>1, <2>3, <2>4
    <3>3. ASSUME NEW q \in 1..r
          PROVE  IF q <= m
                 THEN /\ ~Full(s[q - 1])
                      /\ new.items[q] = Fitting(items[Ranks(items)[q]], Room(s[q - 1]))
                      /\ s[q].remaining =
                           Room(s[q - 1]) - Len(Fitting(items[Ranks(items)[q]], Room(s[q - 1])).text)
                 ELSE Full(s[q - 1])
      <4>1. CASE q = r
        <5>1. s[q - 1] = old /\ ~(q <= m)
          BY <2>1, <2>4, <3>2, <4>1 DEF old
        <5> QED BY <2>6, <5>1
      <4>2. CASE q # r
        <5>1. q \in 1..k
          BY <2>1, <4>2
        <5> QED BY <2>3, <3>1, <5>1
      <4> QED BY <4>1, <4>2
    <3>4. Len(new.items) = m
      BY <3>1 DEF m
    <3>5. ServedSo(items, r)
      BY <2>3, <2>6, <3>1, <3>2, <3>3, <3>4 DEF ServedSo, new, s
    <3> QED BY <2>1, <3>5 DEF r
  <2>7. CASE ~Full(old)
    <3>1. m = k
      BY <2>1, <2>3, <2>4, <2>7
    <3>2. new.items = Append(old.items, put) /\ new.remaining = room - Len(put.text)
      BY <2>2, <2>7, ServeGoesOn DEF put, room
    <3>3. /\ Len(new.items) = r /\ new.items[r] = put
          /\ \A q \in 1..k : new.items[q] = old.items[q]
      BY <2>1, <2>4, <2>5, <3>1, <3>2 DEF m, r
    <3>4. m < budget.items /\ room > 0
      BY <1>2, <2>4, <2>7 DEF Full, m, room
    <3>5. r <= budget.items
      BY <1>2, <2>4, <3>1, <3>4 DEF r
    <3>6. Rendered(new.items) + new.remaining <= budget.chars
      <4>1. /\ Rendered(old.items) \in Nat
            /\ Rendered(new.items) = Rendered(old.items) + Len(put.text) + (IF old.items = <<>> THEN 0 ELSE 2)
        BY <2>4, <2>5, <3>2, RenderedWith
      <4>2. room + (IF old.items = <<>> THEN 0 ELSE 2) = old.remaining
        BY <2>4, <3>4 DEF room, Room, Available
      <4> QED BY <1>2, <2>3, <2>4, <2>5, <3>2, <4>1, <4>2
    <3>7. ASSUME NEW q \in 1..r
          PROVE  /\ ~Full(s[q - 1])
                 /\ new.items[q] = Fitting(items[Ranks(items)[q]], Room(s[q - 1]))
                 /\ s[q].remaining =
                      Room(s[q - 1]) - Len(Fitting(items[Ranks(items)[q]], Room(s[q - 1])).text)
      <4>1. CASE q = r
        <5>1. s[q - 1] = old
          BY <2>1, <4>1 DEF old
        <5> QED BY <2>7, <3>2, <3>3, <4>1, <5>1 DEF put, room, item, new
      <4>2. CASE q # r
        <5>1. q \in 1..k /\ q <= m
          BY <2>1, <3>1, <4>2
        <5> QED BY <2>3, <3>3, <5>1
      <4> QED BY <4>1, <4>2
    <3>8. ServedSo(items, r)
      <4>1. r \in Nat /\ \A q \in 1..r : q <= r
        BY <2>1
      <4> QED BY <3>3, <3>5, <3>6, <3>7, <4>1 DEF ServedSo, new, s
    <3> QED BY <2>1, <3>8 DEF r
  <2> QED BY <2>6, <2>7
<1>6. \A r \in 0..n : r \in S
  <2> HIDE DEF S
  <2> QED BY <1>1, <1>4, <1>5, InductionTo
<1> QED BY <1>6 DEF n

\* What is decided of an item when the budget is so full.
LEMMA DecidedIs ==
  ASSUME NEW state \in Serving, NEW item \in ContextItem
  PROVE  LET d == Decided(state, item)
             put == Fitting(item, Room(state)) IN
         /\ d \in ContextDecision /\ d.id = item.id /\ d.original = item.text
         /\ ~d.consumed /\ d.usefulness = "unknown"
         /\ d.selected \in 0..Len(item.text)
         /\ Full(state) => d.status = "excluded" /\ d.selected = 0
         /\ ~Full(state) => /\ d.selected = Len(put.text)
                            /\ d.status = IF Len(item.text) <= Room(state) THEN "included" ELSE "truncated"
<1> DEFINE room == Room(state)
           put == Fitting(item, room)
           d == Decided(state, item)
<1>1. item.id \in ItemId /\ item.text \in Seq(Character) /\ Len(item.text) \in Nat
  BY DEF ContextItem
<1>2. room \in Nat
  BY ServeGoesOn
<1>3. Len(put.text) \in Nat /\ Len(put.text) <= Len(item.text)
  <2> HIDE DEF room
  <2> QED BY <1>1, <1>2, FittingIs
<1> HIDE DEF room, put
<1>4. CASE Full(state)
  <2>1. d = Decision(item, "excluded", 0)
    BY <1>4 DEF Decided
  <2> QED BY <1>1, <1>4, <2>1 DEF Decision, ContextDecision
<1>5. CASE ~Full(state)
  <2> DEFINE status == IF Len(item.text) <= room THEN "included" ELSE "truncated"
  <2>1. d = Decision(item, status, Len(put.text))
    BY <1>5 DEF Decided, room, put
  <2>2. status \in {"included", "truncated"}
    OBVIOUS
  <2>3. d.id = item.id /\ d.original = item.text /\ d.status = status /\ d.selected = Len(put.text)
        /\ ~d.consumed /\ d.usefulness = "unknown"
    BY <2>1 DEF Decision
  <2>4. d \in ContextDecision
    <3> HIDE DEF status
    <3> QED BY <1>1, <1>3, <2>1, <2>2 DEF Decision, ContextDecision
  <2>5. d.selected \in 0..Len(item.text)
    BY <1>1, <1>3, <2>3
  <2> HIDE DEF d
  <2> QED BY <1>5, <2>3, <2>4, <2>5 DEF room, put, d
<1> QED BY <1>4, <1>5

\* What the ranked selection is made of: the first items by rank were served, the others found
\* the budget full.
LEMMA RankedAre ==
  ASSUME NEW items \in Seq(ContextItem), budget \in ContextBudget
  PROVE  LET s == RankedBudgetSelect(items)
             n == Len(items)
             m == Len(s.items)
             item(r) == items[Ranks(items)[r]]
             before(r) == Servings(items)[r - 1] IN
         /\ s \in ContextSelection /\ n \in Nat /\ m \in 0..n /\ m <= budget.items
         /\ Rendered(s.items) <= budget.chars
         /\ DOMAIN s.decisions = 1..n /\ \A i \in 1..n : s.decisions[i].id = items[i].id
         /\ \A r \in 1..n :
              /\ Ranks(items)[r] \in 1..n /\ item(r) \in ContextItem /\ before(r) \in Serving
              /\ s.decisions[Ranks(items)[r]] = Decided(before(r), item(r))
              /\ r <= m => /\ ~Full(before(r)) /\ s.items[r] = Fitting(item(r), Room(before(r)))
                           /\ Servings(items)[r].remaining =
                                Room(before(r)) - Len(Fitting(item(r), Room(before(r))).text)
              /\ r > m => Full(before(r))
<1> DEFINE s == RankedBudgetSelect(items)
           n == Len(items)
           order == Ranks(items)
           served == Servings(items)
           rank(i) == CHOOSE r \in DOMAIN order : order[r] = i
           d == [i \in DOMAIN items |-> Decided(served[rank(i) - 1], items[i])]
<1>1. n \in Nat /\ n \in 0..n /\ DOMAIN items = 1..n /\ \A i \in 1..n : items[i] \in ContextItem
  OBVIOUS
<1>2. /\ order \in [1..n -> 1..n]
      /\ \A q, r \in 1..n : order[q] = order[r] => q = r
      /\ \A i \in 1..n : \E r \in 1..n : order[r] = i
  <2> HIDE DEF order
  <2> QED BY RanksAre DEF order
<1>3. served \in [0..n -> Serving] /\ \A r \in 1..n : r - 1 \in 0..n
  <2> HIDE DEF served
  <2> QED BY ServingsAre DEF served
<1>4. s.items = served[n].items /\ s.decisions = d /\ s = [items |-> served[n].items, decisions |-> d]
  BY DEF RankedBudgetSelect
<1>5. ServedSo(items, n)
  BY <1>1, RoundsServeSo
<1> HIDE DEF s, n, order, served
<1>6. ASSUME NEW i \in 1..n
      PROVE  /\ rank(i) \in 1..n /\ order[rank(i)] = i /\ served[rank(i) - 1] \in Serving
             /\ d[i] = Decided(served[rank(i) - 1], items[i])
             /\ d[i] \in ContextDecision /\ d[i].id = items[i].id
  <2>1. DOMAIN order = 1..n /\ \E r \in DOMAIN order : order[r] = i
    BY <1>2
  <2>2. rank(i) \in 1..n /\ order[rank(i)] = i
    BY <2>1
  <2>3. d[i] = Decided(served[rank(i) - 1], items[i])
    BY <1>1
  <2> HIDE DEF rank, d
  <2>4. served[rank(i) - 1] \in Serving /\ items[i] \in ContextItem
    BY <1>1, <1>3, <2>2
  <2>5. d[i] \in ContextDecision /\ d[i].id = items[i].id
    BY <2>3, <2>4, DecidedIs
  <2> QED BY <2>2, <2>3, <2>4, <2>5
<1>7. served[n] \in Serving
  BY <1>1, <1>3
<1>8. DOMAIN d = 1..n /\ d \in Seq(ContextDecision)
  <2>1. DOMAIN d = 1..n /\ d = [i \in DOMAIN d |-> d[i]]
    BY <1>1
  <2> HIDE DEF d
  <2>2. \A i \in 1..n : d[i] \in ContextDecision
    BY <1>6
  <2>3. d \in [1..n -> ContextDecision]
    BY <2>1, <2>2
  <2> QED BY <1>1, <2>1, <2>3
<1>9. s \in ContextSelection
  BY <1>4, <1>7, <1>8 DEF ContextSelection, Serving
<1> DEFINE m == Len(s.items)
<1>10. /\ m \in 0..n /\ m <= budget.items /\ Rendered(s.items) <= budget.chars
       /\ \A q \in 1..n :
            IF q <= m
            THEN /\ ~Full(served[q - 1])
                 /\ s.items[q] = Fitting(items[order[q]], Room(served[q - 1]))
                 /\ served[q].remaining =
                      Room(served[q - 1]) - Len(Fitting(items[order[q]], Room(served[q - 1])).text)
            ELSE Full(served[q - 1])
  <2>1. served[n].items \in Seq(ContextItem) /\ served[n].remaining \in Nat
    BY <1>7 DEF Serving
  <2>2. Len(served[n].items) \in Nat /\ Rendered(served[n].items) \in Nat
    BY <2>1, RenderedOf
  <2>3. budget.chars \in Nat
    BY DEF ContextBudget
  <2>4. /\ Len(served[n].items) <= n /\ Len(served[n].items) <= budget.items
        /\ Rendered(served[n].items) + served[n].remaining <= budget.chars
    BY <1>5 DEF ServedSo, served
  <2>5. Rendered(served[n].items) <= budget.chars
    BY <2>1, <2>2, <2>3, <2>4
  <2>6. Len(served[n].items) \in 0..n
    BY <1>1, <2>2, <2>4
  <2>7. \A q \in 1..n :
            IF q <= Len(served[n].items)
            THEN /\ ~Full(served[q - 1])
                 /\ served[n].items[q] = Fitting(items[order[q]], Room(served[q - 1]))
                 /\ served[q].remaining =
                      Room(served[q - 1]) - Len(Fitting(items[order[q]], Room(served[q - 1])).text)
            ELSE Full(served[q - 1])
    BY <1>5 DEF ServedSo, served, order
  <2> QED BY <1>4, <2>4, <2>5, <2>6, <2>7
<1>11. ASSUME NEW r \in 1..n
       PROVE  /\ order[r] \in 1..n /\ items[order[r]] \in ContextItem /\ served[r - 1] \in Serving
              /\ d[order[r]] = Decided(served[r - 1], items[order[r]])
  <2>1. order[r] \in 1..n
    BY <1>2
  <2>2. rank(order[r]) \in 1..n /\ order[rank(order[r])] = order[r]
    BY <1>6, <2>1
  <2>3. d[order[r]] = Decided(served[rank(order[r]) - 1], items[order[r]])
    BY <1>6, <2>1
  <2> HIDE DEF rank, d
  <2>4. rank(order[r]) = r
    BY <1>2, <2>2
  <2> QED BY <1>1, <1>3, <2>1, <2>3, <2>4
<1> HIDE DEF m, d
<1>12. \A r \in 1..n : r > m <=> ~(r <= m)
  BY <1>1, <1>10
<1> QED BY <1>1, <1>4, <1>6, <1>8, <1>9, <1>10, <1>11, <1>12 DEF m, s, n, order, served

\* The ranked selection passes the checks.
LEMMA RankedIsValid ==
  ASSUME processed \in Seq(ContextItem), UniqueIds(processed), budget \in ContextBudget
  PROVE  ValidSelection(RankedBudgetSelect(processed))
<1> DEFINE s == RankedBudgetSelect(processed)
           n == Len(processed)
           m == Len(s.items)
           order == Ranks(processed)
           before(r) == Servings(processed)[r - 1]
           item(r) == processed[order[r]]
<1>1. /\ s \in ContextSelection /\ n \in Nat /\ m \in 0..n /\ m <= budget.items
      /\ Rendered(s.items) <= budget.chars
      /\ DOMAIN s.decisions = 1..n /\ \A i \in 1..n : s.decisions[i].id = processed[i].id
      /\ \A r \in 1..n :
           /\ order[r] \in 1..n /\ item(r) \in ContextItem /\ before(r) \in Serving
           /\ s.decisions[order[r]] = Decided(before(r), item(r))
           /\ r <= m => ~Full(before(r)) /\ s.items[r] = Fitting(item(r), Room(before(r)))
           /\ r > m => Full(before(r))
  BY RankedAre
<1>2. /\ \A q, r \in 1..n : order[q] = order[r] => q = r
      /\ \A i \in 1..n : \E r \in 1..n : order[r] = i
  BY RanksAre
<1>3. DOMAIN processed = 1..n
  OBVIOUS
<1> HIDE DEF s, n, order, before, m
<1>4. DOMAIN s.items = 1..m /\ m \in Nat
  BY <1>1 DEF ContextSelection, m
<1>5. \A r \in 1..m : r \in 1..n
  BY <1>1
<1>6. ASSUME NEW r \in 1..m PROVE s.items[r].id = item(r).id /\ order[r] \in 1..n
  <2>1. r \in 1..n /\ r <= m
    BY <1>5, <1>4
  <2>2. item(r) \in ContextItem /\ before(r) \in Serving /\ s.items[r] = Fitting(item(r), Room(before(r)))
    BY <1>1, <2>1
  <2>3. Room(before(r)) \in Nat
    BY <2>2, ServeGoesOn
  <2> QED BY <1>1, <2>1, <2>2, <2>3, FittingIs
<1>7. UniqueIds(s.items)
  <2> SUFFICES ASSUME NEW q \in 1..m, NEW r \in 1..m, s.items[q].id = s.items[r].id PROVE q = r
    BY <1>4 DEF UniqueIds
  <2>1. processed[order[q]].id = processed[order[r]].id /\ order[q] \in 1..n /\ order[r] \in 1..n
    BY <1>6
  <2>2. order[q] = order[r]
    BY <1>3, <2>1 DEF UniqueIds
  <2> QED BY <1>2, <1>5, <2>2
<1>8. IdsOf(s.items) \subseteq IdsOf(processed)
  BY <1>3, <1>4, <1>6 DEF IdsOf
<1>9. UniqueIds(s.decisions)
  <2>1. \A i, j \in 1..n : s.decisions[i].id = s.decisions[j].id => i = j
    BY <1>1, <1>3 DEF UniqueIds
  <2> QED BY <1>1, <2>1 DEF UniqueIds
<1>10. IdsOf(s.decisions) = IdsOf(processed)
  BY <1>1, <1>3 DEF IdsOf
<1>11. ASSUME NEW i \in 1..n PROVE DecisionHolds(s.decisions[i], s.items)
  <2>1. PICK r \in 1..n : order[r] = i
    BY <1>2
  <2> DEFINE state == before(r)
             it == processed[i]
             room == Room(state)
             put == Fitting(it, room)
             d == s.decisions[i]
  <2>2. /\ it \in ContextItem /\ state \in Serving /\ d = Decided(state, it)
        /\ r <= m => ~Full(state) /\ s.items[r] = put
        /\ r > m => Full(state)
    BY <1>1, <2>1
  <2>3. room \in Nat
    BY <2>2, ServeGoesOn
  <2>4. it.text \in Seq(Character) /\ Len(it.text) \in Nat
    BY <2>2 DEF ContextItem
  <2> HIDE DEF state
  <2>5. /\ d.id = it.id /\ d.original = it.text /\ ~d.consumed /\ d.usefulness = "unknown"
        /\ d.selected \in 0..Len(it.text)
        /\ Full(state) => d.status = "excluded" /\ d.selected = 0
        /\ ~Full(state) => /\ d.selected = Len(put.text)
                           /\ d.status = IF Len(it.text) <= room THEN "included" ELSE "truncated"
    BY <2>2, DecidedIs
  <2>6. WithId(processed, it.id) = it
    BY <1>3, WithIdIs
  <2> HIDE DEF room
  <2>7. /\ put.id = it.id
        /\ Len(put.text) = IF Len(it.text) <= room THEN Len(it.text) ELSE room
        /\ put.text = Cut(it.text, Len(put.text))
        /\ Len(it.text) <= room => put = it
    BY <2>2, <2>3, FittingIs
  <2> HIDE DEF d, it, put
  <2> SUFFICES DecisionHolds(d, s.items)
    BY DEF d
  <2>10. d.selected \in 0..Len(d.original) /\ WithId(processed, d.id).text = d.original
    BY <2>5, <2>6
  <2>8. CASE r <= m
    <3>1. r \in 1..m
      BY <1>1, <2>8
    <3>2. s.items[r] = put /\ ~Full(state)
      BY <2>2, <2>8
    <3>3. put.id \in IdsOf(s.items)
      BY <1>4, <3>1, <3>2 DEF IdsOf
    <3>4. WithId(s.items, put.id) = put
      BY <1>4, <1>7, <3>1, <3>2, WithIdIs
    <3>5. CASE Len(it.text) <= room
      <4>1. d.status = "included" /\ put.text = it.text
        BY <2>5, <2>7, <3>2, <3>5
      <4>2. d.id \in IdsOf(s.items) /\ WithId(s.items, d.id) = put /\ d.selected = Len(put.text)
        BY <2>5, <2>7, <3>2, <3>3, <3>4
      <4>3. d.status = "included" /\ put.text = WithId(processed, d.id).text
        BY <2>5, <2>10, <4>1
      <4> QED BY <2>5, <2>10, <4>2, <4>3 DEF DecisionHolds
    <3>6. CASE ~(Len(it.text) <= room)
      <4>1. d.status = "truncated" /\ Len(put.text) < Len(it.text)
        BY <2>3, <2>4, <2>5, <2>7, <3>2, <3>6
      <4>2. d.id \in IdsOf(s.items) /\ WithId(s.items, d.id) = put /\ d.selected = Len(put.text)
        BY <2>5, <2>7, <3>2, <3>3, <3>4
      <4>3. /\ d.status = "truncated" /\ Len(put.text) < Len(WithId(processed, d.id).text)
            /\ put.text = Cut(WithId(processed, d.id).text, Len(put.text))
        BY <2>5, <2>7, <2>10, <4>1
      <4> QED BY <2>5, <2>10, <4>2, <4>3 DEF DecisionHolds
    <3> QED BY <3>5, <3>6
  <2>9. CASE ~(r <= m)
    <3>1. d.status = "excluded" /\ d.selected = 0
      <4>1. r > m
        BY <1>1, <2>9
      <4> QED BY <2>2, <2>5, <4>1
    <3>2. it.id \notin IdsOf(s.items)
      <4> SUFFICES ASSUME NEW q \in 1..m, s.items[q].id = it.id PROVE FALSE
        BY <1>4 DEF IdsOf
      <4>1. processed[order[q]].id = processed[i].id /\ order[q] \in 1..n
        BY <1>6 DEF it
      <4>2. order[q] = order[r]
        BY <1>3, <2>1, <4>1 DEF UniqueIds
      <4>3. q = r
        BY <1>2, <1>5, <4>2
      <4> QED BY <1>4, <2>9, <4>3
    <3>3. d.id \notin IdsOf(s.items)
      BY <2>5, <3>2
    <3> QED BY <2>5, <2>10, <3>1, <3>3 DEF DecisionHolds
  <2> QED BY <2>8, <2>9
<1>12. ValidSelection(s)
  BY <1>1, <1>7, <1>8, <1>9, <1>10, <1>11 DEF ValidSelection, m
<1> QED BY <1>12 DEF s

\* In the ranked selection, what ranks above something served was served whole.
LEMMA RankedInRank ==
  ASSUME NEW items \in Seq(ContextItem), budget \in ContextBudget,
         NEW i \in DOMAIN items, NEW j \in DOMAIN items, ServedBefore(items, i, j),
         RankedBudgetSelect(items).decisions[j].status # "excluded"
  PROVE  RankedBudgetSelect(items).decisions[i].status = "included"
<1> DEFINE s == RankedBudgetSelect(items)
           n == Len(items)
           m == Len(s.items)
           order == Ranks(items)
           served == Servings(items)
           item(r) == items[order[r]]
<1>1. /\ n \in Nat /\ m \in 0..n
      /\ \A r \in 1..n :
           /\ order[r] \in 1..n /\ item(r) \in ContextItem /\ served[r - 1] \in Serving
           /\ s.decisions[order[r]] = Decided(served[r - 1], item(r))
           /\ r <= m => /\ ~Full(served[r - 1])
                        /\ served[r].remaining =
                             Room(served[r - 1]) - Len(Fitting(item(r), Room(served[r - 1])).text)
           /\ r > m => Full(served[r - 1])
  BY RankedAre
<1>2. i \in 1..n /\ j \in 1..n
  OBVIOUS
<1>3. PICK q \in 1..n : order[q] = i
  BY <1>2, RanksAre
<1>4. PICK r \in 1..n : order[r] = j
  BY <1>2, RanksAre
<1>5. q < r
  <2>1. \A a, b \in 1..n : ServedBefore(items, order[a], order[b]) => a < b
    BY RanksAre
  <2> QED BY <1>3, <1>4, <2>1
<1> HIDE DEF s, n, order, served, m
<1>6. r <= m
  <2> SUFFICES ASSUME ~(r <= m) PROVE FALSE
    OBVIOUS
  <2>1. Full(served[r - 1]) /\ served[r - 1] \in Serving /\ item(r) \in ContextItem
    BY <1>1
  <2>2. Decided(served[r - 1], item(r)).status = "excluded"
    BY <2>1, DecidedIs
  <2> QED BY <1>1, <1>4, <2>2 DEF s
<1>7. q <= m /\ q + 1 \in 1..n /\ q + 1 <= m /\ (q + 1) - 1 = q
  BY <1>1, <1>5, <1>6
<1>8. ~Full(served[q])
  BY <1>1, <1>7
<1> DEFINE state == served[q - 1]
           it == item(q)
           room == Room(state)
<1>9. /\ state \in Serving /\ it \in ContextItem /\ ~Full(state)
      /\ s.decisions[i] = Decided(state, it)
      /\ served[q].remaining = room - Len(Fitting(it, room).text)
  BY <1>1, <1>3, <1>7
<1>10. room \in Nat
  BY <1>9, ServeGoesOn
<1> HIDE DEF state, it
<1>11. Len(it.text) <= room
  <2> SUFFICES ASSUME ~(Len(it.text) <= room) PROVE FALSE
    OBVIOUS
  <2> HIDE DEF room
  <2>1. Len(Fitting(it, room).text) = room
    BY <1>9, <1>10, FittingIs
  <2>2. served[q].remaining = 0
    BY <1>9, <1>10, <2>1
  <2>3. Room(served[q]) = 0
    BY <2>2 DEF Room, Available
  <2> QED BY <1>8, <2>3 DEF Full
<1>12. Decided(state, it).status = "included"
  BY <1>9, <1>11, DecidedIs
<1> QED BY <1>9, <1>12 DEF s

\* What the receipt says of an offered item, when some of those that were left are chosen.
ReceiptSays(d, item, left, chosen) ==
  /\ d \in ContextDecision /\ d.id = item.id
  /\ IF item.id \in IdsOf(chosen)
     THEN /\ d.status # "excluded"
          /\ d.selected = Len(WithId(chosen, item.id).text)
          /\ WithId(chosen, item.id).text = Cut(WithId(left, item.id).text, d.selected)
     ELSE d.status = "excluded"
  /\ d.usefulness = "useful" => d.consumed
  /\ d.consumed => d.status # "excluded"

\* The pipeline: ids are unique and nothing expired is left after the processors; a rejected
\* selection failed a check; an accepted one passed them all and is what the receipt tells.
PipelineIInv ==
  /\ stage \in {"provider", "processors", "refused", "selected", "rejected", "accepted"}
  /\ stage # "provider" =>
       /\ offered \in Seq(ContextItem) /\ budget \in ContextBudget
       /\ processed \in Seq(ContextItem)
  /\ stage \in {"processors", "selected", "rejected", "accepted"} =>
       /\ UniqueIds(offered) /\ UniqueIds(processed)
       /\ ExpiredIds(offered) \cap IdsOf(processed) = {}
  /\ stage \in {"selected", "rejected", "accepted"} =>
       selection \in ContextSelection /\ IdsOf(processed) \subseteq IdsOf(offered)
  /\ stage = "rejected" => ~ValidSelection(selection)
  /\ stage = "accepted" =>
       /\ ValidSelection(selection)
       /\ DOMAIN receipt = {"chars", "decisions"} /\ receipt.chars = Rendered(selection.items)
       /\ receipt.decisions \in Seq(ContextDecision) /\ DOMAIN receipt.decisions = DOMAIN offered
       /\ \A i \in DOMAIN offered : ReceiptSays(receipt.decisions[i], offered[i], processed, selection.items)

\* An item there is for every id.
LEMMA IdOfItem ==
  ASSUME NEW items, UniqueIds(items), NEW id \in IdsOf(items)
  PROVE  \E i \in DOMAIN items : items[i].id = id /\ WithId(items, id) = items[i]
<1>1. PICK i \in DOMAIN items : items[i].id = id
  BY DEF IdsOf
<1> QED BY <1>1, WithIdIs

\* The decisions on a valid selection tell it.
LEMMA DecisionsSay ==
  ASSUME offered \in Seq(ContextItem), processed \in Seq(ContextItem),
         UniqueIds(processed), selection \in ContextSelection, ValidSelection(selection),
         NEW i \in DOMAIN offered
  PROVE  ReceiptSays(DecisionsOn(selection)[i], offered[i], processed, selection.items)
<1> DEFINE item == offered[i]
           id == item.id
           e == DecisionsOn(selection)[i]
<1>1. item \in ContextItem
  OBVIOUS
<1>2. e = IF id \in IdsOf(selection.decisions) THEN WithId(selection.decisions, id)
          ELSE Decision(item, "excluded", 0)
  BY DEF DecisionsOn
<1>3. /\ UniqueIds(selection.items) /\ IdsOf(selection.items) \subseteq IdsOf(processed)
      /\ UniqueIds(selection.decisions) /\ IdsOf(selection.decisions) = IdsOf(processed)
      /\ \A k \in DOMAIN selection.decisions :
           DecisionHolds(selection.decisions[k], selection.items)
  BY DEF ValidSelection
<1>4. \A k \in DOMAIN selection.decisions : selection.decisions[k] \in ContextDecision
  BY DEF ContextSelection
<1> HIDE DEF e
<1>5. CASE id \in IdsOf(selection.decisions)
  <2>1. PICK k \in DOMAIN selection.decisions :
          selection.decisions[k].id = id /\ WithId(selection.decisions, id) = selection.decisions[k]
    BY <1>3, <1>5, IdOfItem
  <2>2. e \in ContextDecision /\ e.id = id /\ DecisionHolds(e, selection.items)
    BY <1>2, <1>3, <1>4, <1>5, <2>1
  <2>3. ~e.consumed /\ e.usefulness = "unknown"
    BY <2>2 DEF DecisionHolds
  <2>4. CASE id \in IdsOf(selection.items)
    <3> DEFINE text == WithId(selection.items, id).text
               original == WithId(processed, id).text
    <3>1. /\ e.selected = Len(text)
          /\ \/ e.status = "included" /\ text = original
             \/ e.status = "truncated" /\ text = Cut(original, Len(text))
      BY <2>2, <2>4 DEF DecisionHolds
    <3>2. original \in Seq(Character)
      <4>1. PICK p \in DOMAIN processed : WithId(processed, id) = processed[p]
        BY <1>3, <1>5, IdOfItem
      <4>2. processed[p] \in ContextItem
        BY <4>1
      <4>3. processed[p].text \in Seq(Character)
        BY <4>2 DEF ContextItem
      <4> QED BY <4>1, <4>3
    <3> HIDE DEF text, original
    <3>3. Cut(original, Len(original)) = original
      <4>1. Len(original) \in Nat /\ Len(original) \in 0..Len(original)
        BY <3>2
      <4> QED BY <3>2, <4>1, CutIs
    <3>4. e.status # "excluded" /\ text = Cut(original, e.selected)
      BY <3>1, <3>3
    <3> QED BY <2>2, <2>3, <2>4, <3>1, <3>4 DEF ReceiptSays, e, text, original
  <2>5. CASE id \notin IdsOf(selection.items)
    <3>1. e.status = "excluded"
      BY <2>2, <2>5 DEF DecisionHolds
    <3> QED BY <2>2, <2>3, <2>5, <3>1 DEF ReceiptSays, e
  <2> QED BY <2>4, <2>5
<1>6. CASE id \notin IdsOf(selection.decisions)
  <2>1. id \notin IdsOf(selection.items)
    BY <1>3, <1>6
  <2>2. e = Decision(item, "excluded", 0)
    BY <1>2, <1>6
  <2>3. /\ e.id = id /\ e.status = "excluded" /\ ~e.consumed /\ e.usefulness = "unknown"
    BY <2>2 DEF Decision
  <2>4. e \in ContextDecision
    BY <1>1, <2>2 DEF Decision, ContextDecision, ContextItem
  <2> QED BY <2>1, <2>3, <2>4 DEF ReceiptSays, e
<1> QED BY <1>5, <1>6

\* Decisions on every offered item are a sequence.
LEMMA DecisionsInSeq ==
  ASSUME offered \in Seq(ContextItem), NEW f, f = [i \in DOMAIN offered |-> f[i]],
         \A i \in DOMAIN offered : f[i] \in ContextDecision
  PROVE  f \in Seq(ContextDecision) /\ DOMAIN f = DOMAIN offered
<1>1. DOMAIN offered = 1..Len(offered) /\ Len(offered) \in Nat
  OBVIOUS
<1>2. f \in [1..Len(offered) -> ContextDecision]
  BY <1>1
<1> QED BY <1>1, <1>2

\* What is offered, without what expired, is where the pipeline starts.
LEMMA ProvideKeeps == Provide => PipelineIInv'
<1> SUFFICES ASSUME Provide PROVE PipelineIInv'
  OBVIOUS
<1> DEFINE live == {i \in DOMAIN offered' : ~offered'[i].expired}
<1>1. /\ offered' \in Seq(ContextItem) /\ budget' \in ContextBudget /\ processed' = Only(offered', live)
      /\ stage' = IF UniqueIds(offered') THEN "processors" ELSE "refused"
  BY PipelineConstants DEF Provide
<1>2. live \in SUBSET DOMAIN offered'
  OBVIOUS
<1> DEFINE given == offered'
           left == processed'
<1>3. /\ left \in Seq(ContextItem)
      /\ \A r \in DOMAIN left : \E i \in live : left[r] = given[i]
      /\ UniqueIds(given) => UniqueIds(left)
  <2>1. given \in Seq(ContextItem) /\ live \in SUBSET DOMAIN given /\ left = Only(given, live)
    BY <1>1, <1>2
  <2> HIDE DEF given, live, left
  <2> QED BY <2>1, OnlyIs
<1>4. ASSUME UniqueIds(given) PROVE ExpiredIds(given) \cap IdsOf(left) = {}
  <2> SUFFICES ASSUME NEW r \in DOMAIN left, NEW j \in DOMAIN given, given[j].expired,
                      left[r].id = given[j].id
               PROVE  FALSE
    BY DEF ExpiredIds, IdsOf
  <2>1. PICK i \in live : left[r] = given[i]
    BY <1>3
  <2>2. i = j
    BY <1>4, <2>1 DEF UniqueIds
  <2> QED BY <2>1, <2>2
<1>5. CASE UniqueIds(given)
  <2>1. stage' = "processors"
    BY <1>1, <1>5
  <2>2. UniqueIds(offered)' /\ UniqueIds(processed)' /\ (ExpiredIds(offered) \cap IdsOf(processed) = {})'
    BY <1>3, <1>4, <1>5 DEF UniqueIds, ExpiredIds, IdsOf
  <2> QED BY <1>1, <1>3, <2>1, <2>2 DEF PipelineIInv
<1>6. CASE ~UniqueIds(given)
  <2>1. stage' = "refused"
    BY <1>1, <1>6
  <2> QED BY <1>1, <1>3, <2>1 DEF PipelineIInv
<1> QED BY <1>5, <1>6

\* A processor of others is held to the ids it may return.
LEMMA ProcessKeeps == PipelineIInv /\ Process => PipelineIInv'
<1> SUFFICES ASSUME PipelineIInv, Process PROVE PipelineIInv'
  OBVIOUS
<1>1. /\ stage = "processors" /\ offered' = offered /\ budget' = budget
      /\ processed' \in Seq(ContextItem)
      /\ stage' = IF UniqueIds(processed') /\ ExpiredIds(offered) \cap IdsOf(processed') = {}
                  THEN "processors" ELSE "refused"
  BY DEF Process
<1>2. offered \in Seq(ContextItem) /\ budget \in ContextBudget /\ UniqueIds(offered)
  BY <1>1 DEF PipelineIInv
<1>3. UniqueIds(offered)' /\ ExpiredIds(offered)' = ExpiredIds(offered)
  BY <1>1, <1>2 DEF UniqueIds, ExpiredIds
<1>4. CASE UniqueIds(processed') /\ ExpiredIds(offered) \cap IdsOf(processed') = {}
  <2>1. stage' = "processors"
    BY <1>1, <1>4
  <2>2. UniqueIds(processed)' /\ (ExpiredIds(offered) \cap IdsOf(processed) = {})'
    BY <1>3, <1>4 DEF UniqueIds, IdsOf
  <2> QED BY <1>1, <1>2, <1>3, <2>1, <2>2 DEF PipelineIInv
<1>5. CASE ~(UniqueIds(processed') /\ ExpiredIds(offered) \cap IdsOf(processed') = {})
  <2>1. stage' = "refused"
    BY <1>1, <1>5
  <2> QED BY <1>1, <1>2, <2>1 DEF PipelineIInv
<1> QED BY <1>4, <1>5

\* The selector sees only what was offered; the shipped one's answer is a selection.
LEMMA AskSelectorKeeps == PipelineIInv /\ AskSelector => PipelineIInv'
<1> SUFFICES ASSUME PipelineIInv, AskSelector PROVE PipelineIInv'
  OBVIOUS
<1>1. /\ stage = "processors" /\ offered' = offered /\ budget' = budget /\ processed' = processed
  BY DEF AskSelector
<1>2. /\ offered \in Seq(ContextItem) /\ budget \in ContextBudget /\ processed \in Seq(ContextItem)
      /\ UniqueIds(offered) /\ UniqueIds(processed) /\ ExpiredIds(offered) \cap IdsOf(processed) = {}
  BY <1>1 DEF PipelineIInv
<1>3. /\ UniqueIds(offered)' /\ UniqueIds(processed)'
      /\ IdsOf(processed)' = IdsOf(processed) /\ IdsOf(offered)' = IdsOf(offered)
      /\ (ExpiredIds(offered) \cap IdsOf(processed) = {})'
  <2>1. UniqueIds(offered)' = UniqueIds(offered) /\ UniqueIds(processed)' = UniqueIds(processed)
    BY <1>1 DEF UniqueIds
  <2>2. IdsOf(processed)' = IdsOf(processed) /\ IdsOf(offered)' = IdsOf(offered)
    BY <1>1 DEF IdsOf
  <2>3. ExpiredIds(offered)' = ExpiredIds(offered)
    BY <1>1 DEF ExpiredIds
  <2> QED BY <1>2, <2>1, <2>2, <2>3
<1>4. CASE IdsOf(processed) \subseteq IdsOf(offered)
  <2>1. /\ stage' = "selected"
        /\ \/ selection' = RankedBudgetSelect(processed)
           \/ selection' \in ContextSelection
    BY <1>4 DEF AskSelector
  <2>2. RankedBudgetSelect(processed) \in ContextSelection
    BY <1>2, RankedAre
  <2> QED BY <1>1, <1>2, <1>3, <1>4, <2>1, <2>2 DEF PipelineIInv
<1>5. CASE ~(IdsOf(processed) \subseteq IdsOf(offered))
  <2>1. stage' = "refused"
    BY <1>5 DEF AskSelector
  <2> QED BY <1>1, <1>2, <2>1 DEF PipelineIInv
<1> QED BY <1>4, <1>5

\* What a step that leaves all but the receipt keeps.
LEMMA SameSelection ==
  ASSUME UNCHANGED <<offered, budget, processed, selection>>
  PROVE  /\ UniqueIds(offered)' = UniqueIds(offered) /\ UniqueIds(processed)' = UniqueIds(processed)
         /\ ExpiredIds(offered)' = ExpiredIds(offered)
         /\ IdsOf(processed)' = IdsOf(processed) /\ IdsOf(offered)' = IdsOf(offered)
         /\ ValidSelection(selection)' = ValidSelection(selection)
         /\ Rendered(selection.items)' = Rendered(selection.items)
BY DEF UniqueIds, ExpiredIds, IdsOf, ValidSelection, DecisionHolds, WithId

\* The receipt of a selection that passed the checks says what was selected.
LEMMA AcceptKeeps == PipelineIInv /\ Accept => PipelineIInv'
<1> SUFFICES ASSUME PipelineIInv, Accept PROVE PipelineIInv'
  OBVIOUS
<1>1. stage = "selected" /\ UNCHANGED <<offered, budget, processed, selection>>
  BY DEF Accept
<1>2. /\ offered \in Seq(ContextItem) /\ budget \in ContextBudget /\ processed \in Seq(ContextItem)
      /\ UniqueIds(offered) /\ UniqueIds(processed) /\ ExpiredIds(offered) \cap IdsOf(processed) = {}
      /\ selection \in ContextSelection /\ IdsOf(processed) \subseteq IdsOf(offered)
  BY <1>1 DEF PipelineIInv
<1>3. /\ offered' \in Seq(ContextItem) /\ budget' \in ContextBudget /\ processed' \in Seq(ContextItem)
      /\ UniqueIds(offered)' /\ UniqueIds(processed)' /\ (ExpiredIds(offered) \cap IdsOf(processed) = {})'
      /\ selection' \in ContextSelection /\ (IdsOf(processed) \subseteq IdsOf(offered))'
      /\ ValidSelection(selection)' = ValidSelection(selection)
  BY <1>1, <1>2, SameSelection
<1>4. CASE ValidSelection(selection)
  <2>1. /\ stage' = "accepted"
        /\ receipt' = [chars |-> Rendered(selection.items), decisions |-> DecisionsOn(selection)]
    BY <1>4 DEF Accept
  <2>2. /\ DOMAIN receipt' = {"chars", "decisions"} /\ receipt'.chars = Rendered(selection.items)
        /\ receipt'.decisions = DecisionsOn(selection)
    BY <2>1
  <2>4. \A i \in DOMAIN offered :
          ReceiptSays(DecisionsOn(selection)[i], offered[i], processed, selection.items)
    BY <1>2, <1>4, DecisionsSay
  <2>3. DecisionsOn(selection) \in Seq(ContextDecision) /\ DOMAIN DecisionsOn(selection) = DOMAIN offered
    <3> DEFINE f == DecisionsOn(selection)
    <3>1. f = [i \in DOMAIN offered |-> f[i]]
      BY DEF DecisionsOn
    <3>2. \A i \in DOMAIN offered : f[i] \in ContextDecision
      BY <2>4 DEF ReceiptSays
    <3> HIDE DEF f
    <3>3. f \in Seq(ContextDecision) /\ DOMAIN f = DOMAIN offered
      BY <1>2, <3>1, <3>2, DecisionsInSeq
    <3> QED BY <3>3 DEF f
  <2>5. \A i \in DOMAIN offered' :
          ReceiptSays(receipt'.decisions[i], offered'[i], processed', selection'.items)
    BY <1>1, <2>2, <2>4
  <2> QED BY <1>1, <1>3, <1>4, <2>1, <2>2, <2>3, <2>5, SameSelection DEF PipelineIInv
<1>5. CASE ~ValidSelection(selection)
  <2>1. stage' = "rejected"
    BY <1>5 DEF Accept
  <2> QED BY <1>3, <1>5, <2>1 DEF PipelineIInv
<1> QED BY <1>4, <1>5

\* An accepted receipt, and what marking it keeps.
LEMMA MarksKeep ==
  ASSUME PipelineIInv, stage = "accepted",
         UNCHANGED <<offered, budget, processed, selection, stage>>,
         NEW decisions, receipt' = [receipt EXCEPT !.decisions = decisions],
         decisions = [i \in DOMAIN offered |-> decisions[i]],
         \A i \in DOMAIN offered :
           ReceiptSays(decisions[i], offered[i], processed, selection.items)
  PROVE  PipelineIInv'
<1>1. /\ offered \in Seq(ContextItem) /\ budget \in ContextBudget /\ processed \in Seq(ContextItem)
      /\ UniqueIds(offered) /\ UniqueIds(processed) /\ ExpiredIds(offered) \cap IdsOf(processed) = {}
      /\ selection \in ContextSelection /\ IdsOf(processed) \subseteq IdsOf(offered)
      /\ ValidSelection(selection)
      /\ DOMAIN receipt = {"chars", "decisions"} /\ receipt.chars = Rendered(selection.items)
  BY DEF PipelineIInv
<1>2. /\ offered' \in Seq(ContextItem) /\ budget' \in ContextBudget /\ processed' \in Seq(ContextItem)
      /\ UniqueIds(offered)' /\ UniqueIds(processed)' /\ (ExpiredIds(offered) \cap IdsOf(processed) = {})'
      /\ selection' \in ContextSelection /\ (IdsOf(processed) \subseteq IdsOf(offered))'
      /\ ValidSelection(selection)'
  BY <1>1, SameSelection
<1>3. /\ DOMAIN receipt' = {"chars", "decisions"} /\ receipt'.chars = Rendered(selection.items)
      /\ receipt'.decisions = decisions
  BY <1>1
<1>5. decisions \in Seq(ContextDecision) /\ DOMAIN decisions = DOMAIN offered
  <2>1. \A i \in DOMAIN offered : decisions[i] \in ContextDecision
    BY DEF ReceiptSays
  <2> QED BY <1>1, <2>1, DecisionsInSeq
<1>4. /\ receipt'.chars = Rendered(selection'.items) /\ DOMAIN receipt'.decisions = DOMAIN offered'
      /\ receipt'.decisions \in Seq(ContextDecision)
      /\ \A i \in DOMAIN offered' :
           ReceiptSays(receipt'.decisions[i], offered'[i], processed', selection'.items)
  BY <1>3, <1>5
<1> QED BY <1>2, <1>3, <1>4 DEF PipelineIInv

\* Only what was selected is marked consumed.
LEMMA MarkConsumedKeeps == PipelineIInv /\ MarkConsumed => PipelineIInv'
<1> SUFFICES ASSUME PipelineIInv, MarkConsumed PROVE PipelineIInv'
  OBVIOUS
<1>1. stage = "accepted" /\ UNCHANGED <<offered, budget, processed, selection, stage>>
  BY DEF MarkConsumed
<1>2. PICK chosen \in SUBSET Chosen(receipt.decisions) :
        receipt' = [receipt EXCEPT !.decisions =
          [i \in DOMAIN offered |->
             IF i \in chosen THEN [receipt.decisions[i] EXCEPT !.consumed = TRUE]
             ELSE receipt.decisions[i]]]
  BY DEF MarkConsumed
<1> DEFINE marked == [i \in DOMAIN offered |->
             IF i \in chosen THEN [receipt.decisions[i] EXCEPT !.consumed = TRUE]
             ELSE receipt.decisions[i]]
<1>3. ASSUME NEW i \in DOMAIN offered
      PROVE  ReceiptSays(marked[i], offered[i], processed, selection.items)
  <2> DEFINE d == receipt.decisions[i]
             e == [d EXCEPT !.consumed = TRUE]
  <2>1. ReceiptSays(d, offered[i], processed, selection.items)
    BY <1>1 DEF PipelineIInv
  <2>2. CASE i \notin chosen
    BY <2>1, <2>2
  <2>3. CASE i \in chosen
    <3>1. d.status # "excluded"
      BY <2>3 DEF Chosen
    <3>2. d \in ContextDecision
      BY <2>1 DEF ReceiptSays
    <3>3. marked[i] = e
      BY <2>3
    <3> HIDE DEF d, marked
    <3>4. /\ e \in ContextDecision /\ e.id = d.id /\ e.status = d.status /\ e.selected = d.selected
          /\ e.consumed
      BY <3>2 DEF ContextDecision
    <3> HIDE DEF e
    <3>5. ReceiptSays(e, offered[i], processed, selection.items)
      BY <2>1, <3>1, <3>4 DEF ReceiptSays
    <3> QED BY <3>3, <3>5
  <2> QED BY <2>2, <2>3
<1>4. marked = [i \in DOMAIN offered |-> marked[i]] /\ receipt' = [receipt EXCEPT !.decisions = marked]
  BY <1>2
<1> HIDE DEF marked
<1> QED BY <1>1, <1>3, <1>4, MarksKeep

\* Only what was consumed is marked useful.
LEMMA MarkUsefulnessKeeps == PipelineIInv /\ MarkUsefulness => PipelineIInv'
<1> SUFFICES ASSUME PipelineIInv, MarkUsefulness PROVE PipelineIInv'
  OBVIOUS
<1>1. stage = "accepted" /\ UNCHANGED <<offered, budget, processed, selection, stage>>
  BY DEF MarkUsefulness
<1>2. PICK chosen \in SUBSET Chosen(receipt.decisions), usefulness \in {"useful", "unused"} :
        /\ usefulness = "useful" => \A i \in chosen : receipt.decisions[i].consumed
        /\ receipt' = [receipt EXCEPT !.decisions =
             [i \in DOMAIN offered |->
                IF i \in chosen THEN [receipt.decisions[i] EXCEPT !.usefulness = usefulness]
                ELSE receipt.decisions[i]]]
  BY DEF MarkUsefulness
<1> DEFINE marked == [i \in DOMAIN offered |->
             IF i \in chosen THEN [receipt.decisions[i] EXCEPT !.usefulness = usefulness]
             ELSE receipt.decisions[i]]
<1>3. ASSUME NEW i \in DOMAIN offered
      PROVE  ReceiptSays(marked[i], offered[i], processed, selection.items)
  <2> DEFINE d == receipt.decisions[i]
             e == [d EXCEPT !.usefulness = usefulness]
  <2>1. ReceiptSays(d, offered[i], processed, selection.items)
    BY <1>1 DEF PipelineIInv
  <2>2. CASE i \notin chosen
    BY <2>1, <2>2
  <2>3. CASE i \in chosen
    <3>1. usefulness = "useful" => d.consumed
      BY <1>2, <2>3
    <3>2. d \in ContextDecision
      BY <2>1 DEF ReceiptSays
    <3>3. marked[i] = e
      BY <2>3
    <3> HIDE DEF d, marked
    <3>4. /\ e \in ContextDecision /\ e.id = d.id /\ e.status = d.status /\ e.selected = d.selected
          /\ e.consumed = d.consumed /\ e.usefulness = usefulness
      BY <3>2 DEF ContextDecision
    <3> HIDE DEF e
    <3>5. ReceiptSays(e, offered[i], processed, selection.items)
      BY <2>1, <3>1, <3>4 DEF ReceiptSays
    <3> QED BY <3>3, <3>5
  <2> QED BY <2>2, <2>3
<1>4. marked = [i \in DOMAIN offered |-> marked[i]] /\ receipt' = [receipt EXCEPT !.decisions = marked]
  BY <1>2
<1> HIDE DEF marked
<1> QED BY <1>1, <1>3, <1>4, MarksKeep

\* So every step keeps the invariant.
LEMMA PipelineKeeps == PipelineIInv /\ [PipelineNext]_pipelineVars => PipelineIInv'
<1> SUFFICES ASSUME PipelineIInv, [PipelineNext]_pipelineVars PROVE PipelineIInv'
  OBVIOUS
<1>1. CASE UNCHANGED pipelineVars
  <2>1. UNCHANGED <<offered, budget, processed, selection, stage, receipt>>
    BY <1>1 DEF pipelineVars
  <2> QED BY <2>1, SameSelection DEF PipelineIInv
<1> QED BY <1>1, ProvideKeeps, ProcessKeeps, AskSelectorKeeps, AcceptKeeps, MarkConsumedKeeps,
           MarkUsefulnessKeeps DEF PipelineNext

\* What goes out is bounded, and the receipt tells it.
LEMMA BoundedFollows == PipelineIInv => ContextIsBounded
<1> SUFFICES ASSUME PipelineIInv, stage = "accepted" PROVE ContextIsBounded
  BY DEF ContextIsBounded
<1>1. /\ offered \in Seq(ContextItem) /\ processed \in Seq(ContextItem)
      /\ UniqueIds(offered) /\ UniqueIds(processed) /\ ExpiredIds(offered) \cap IdsOf(processed) = {}
      /\ selection \in ContextSelection /\ IdsOf(processed) \subseteq IdsOf(offered)
      /\ ValidSelection(selection) /\ DOMAIN receipt.decisions = DOMAIN offered
      /\ \A i \in DOMAIN offered :
           ReceiptSays(receipt.decisions[i], offered[i], processed, selection.items)
  BY DEF PipelineIInv
<1>2. /\ UniqueIds(selection.items) /\ IdsOf(selection.items) \subseteq IdsOf(processed)
      /\ Len(selection.items) <= budget.items /\ Rendered(selection.items) <= budget.chars
  BY <1>1 DEF ValidSelection
<1> DEFINE items == selection.items
           decisions == receipt.decisions
<1>3. \A i \in DOMAIN offered :
        /\ decisions[i].id = offered[i].id
        /\ decisions[i].status # "excluded" <=> offered[i].id \in IdsOf(items)
  BY <1>1 DEF ReceiptSays
<1>4. UniqueIds(decisions)
  BY <1>1, <1>3 DEF UniqueIds
<1> HIDE DEF items, decisions
<1>5. ASSUME NEW k \in DOMAIN items
      PROVE  /\ items[k].id \in IdsOf(offered) \ ExpiredIds(offered)
             /\ items[k].text = Cut(WithId(processed, items[k].id).text,
                                    WithId(decisions, items[k].id).selected)
             /\ \E i \in DOMAIN offered : offered[i].id = items[k].id
  <2> DEFINE id == items[k].id
  <2>1. id \in IdsOf(items)
    BY DEF IdsOf
  <2>2. id \in IdsOf(processed) /\ id \in IdsOf(offered) /\ id \notin ExpiredIds(offered)
    BY <1>1, <1>2, <2>1 DEF items
  <2>3. PICK i \in DOMAIN offered : offered[i].id = id
    BY <2>2 DEF IdsOf
  <2>4. decisions[i].id = id /\ WithId(decisions, id) = decisions[i]
    <3>1. i \in DOMAIN decisions /\ decisions[i].id = id
      BY <1>1, <1>3, <2>3 DEF decisions
    <3> QED BY <1>4, <3>1, WithIdIs
  <2>5. WithId(items, id) = items[k]
    BY <1>2, WithIdIs DEF items
  <2>6. ReceiptSays(decisions[i], offered[i], processed, items)
    BY <1>1 DEF items, decisions
  <2>7. items[k].text = Cut(WithId(processed, id).text, decisions[i].selected)
    BY <2>1, <2>3, <2>5, <2>6 DEF ReceiptSays
  <2> QED BY <2>2, <2>3, <2>4, <2>7
<1>6. {decisions[i].id : i \in Chosen(decisions)} = IdsOf(items)
  <2>1. DOMAIN decisions = DOMAIN offered
    BY <1>1 DEF decisions
  <2>2. ASSUME NEW i \in Chosen(decisions) PROVE decisions[i].id \in IdsOf(items)
    <3>1. i \in DOMAIN offered /\ decisions[i].status # "excluded"
      BY <2>1 DEF Chosen
    <3> QED BY <1>3, <3>1
  <2>3. ASSUME NEW id \in IdsOf(items) PROVE \E i \in Chosen(decisions) : decisions[i].id = id
    <3>1. PICK k \in DOMAIN items : items[k].id = id
      BY <2>3 DEF IdsOf
    <3>2. PICK i \in DOMAIN offered : offered[i].id = id
      BY <1>5, <3>1
    <3>3. decisions[i].status # "excluded" /\ decisions[i].id = id /\ i \in DOMAIN decisions
      BY <1>3, <2>1, <2>3, <3>2
    <3> QED BY <3>3 DEF Chosen
  <2> QED BY <2>2, <2>3
<1> QED BY <1>1, <1>2, <1>3, <1>5, <1>6 DEF ContextIsBounded, items, decisions

\* The characters of some decisions.
LEMMA CharsAre ==
  ASSUME NEW decisions \in Seq(ContextDecision), NEW n \in Nat, n = Len(decisions),
         NEW U \in SUBSET (1..n), NEW V \in SUBSET (1..n), U \subseteq V,
         \A i \in V : decisions[i].selected \in Nat
  PROVE  CharsOf(decisions, U) <= CharsOf(decisions, V)
<1> DEFINE f == [i \in DOMAIN decisions |-> IF i \in U THEN decisions[i].selected ELSE 0]
           g == [i \in DOMAIN decisions |-> IF i \in V THEN decisions[i].selected ELSE 0]
           u == Cardinality(U)
           v == Cardinality(V)
<1>1. \A i \in 1..n : f[i] \in Nat /\ g[i] \in Nat /\ f[i] <= g[i]
  OBVIOUS
<1>2. Len(decisions) = n
  OBVIOUS
<1>3. u \in Nat /\ v \in Nat /\ u <= v
  <2>1. IsFiniteSet(1..n)
    BY FS_Interval
  <2>2. IsFiniteSet(V) /\ IsFiniteSet(U)
    BY <2>1, FS_Subset
  <2> QED BY <2>2, FS_Subset, FS_CardinalityType
<1> HIDE DEF f, g, u, v
<1>4. Sum(f, n) \in Nat /\ Sum(g, n) \in Nat /\ Sum(f, n) <= Sum(g, n)
  BY <1>1, SumGrows
<1>5. Separators(u) \in Nat /\ Separators(v) \in Nat /\ Separators(u) <= Separators(v)
  BY <1>3 DEF Separators
<1>6. /\ CharsOf(decisions, U) = Sum(f, n) + Separators(u)
      /\ CharsOf(decisions, V) = Sum(g, n) + Separators(v)
  BY <1>2 DEF CharsOf, f, g, u, v
<1> QED BY <1>4, <1>5, <1>6

\* What was consumed went out, and what was useful was consumed.
LEMMA AccountFollows == PipelineIInv => UsageIsAccounted
<1> SUFFICES ASSUME PipelineIInv, stage = "accepted" PROVE UsageIsAccounted
  BY DEF UsageIsAccounted
<1> DEFINE items == selection.items
           decisions == receipt.decisions
           n == Len(decisions)
           m == Len(items)
           consumed == {i \in DOMAIN decisions : decisions[i].consumed}
           useful == {i \in DOMAIN decisions : decisions[i].usefulness = "useful"}
           went == Chosen(decisions)
<1>1. /\ offered \in Seq(ContextItem) /\ UniqueIds(offered) /\ UniqueIds(items)
      /\ items \in Seq(ContextItem) /\ decisions \in Seq(ContextDecision)
      /\ IdsOf(items) \subseteq IdsOf(offered)
      /\ DOMAIN decisions = DOMAIN offered /\ receipt.chars = Rendered(items)
  BY DEF PipelineIInv, ValidSelection, ContextSelection
<1>2. \A i \in DOMAIN offered :
        /\ decisions[i].usefulness = "useful" => decisions[i].consumed
        /\ decisions[i].consumed => decisions[i].status # "excluded"
        /\ decisions[i].status # "excluded" =>
             /\ offered[i].id \in IdsOf(items)
             /\ decisions[i].selected = Len(WithId(items, offered[i].id).text)
  BY DEF PipelineIInv, ReceiptSays
<1> HIDE DEF items, decisions
<1>3. n \in Nat /\ m \in Nat /\ DOMAIN decisions = 1..n /\ DOMAIN items = 1..m /\ DOMAIN offered = 1..n
  BY <1>1
<1>4. useful \subseteq consumed /\ consumed \subseteq went /\ went \in SUBSET (1..n)
  BY <1>1, <1>2, <1>3 DEF Chosen
<1>5. \A k \in 1..m : items[k] \in ContextItem /\ Len(items[k].text) \in Nat
  <2>1. \A k \in 1..m : items[k] \in ContextItem
    BY <1>1, <1>3
  <2>2. \A item \in ContextItem : Len(item.text) \in Nat
    BY DEF ContextItem
  <2> QED BY <2>1, <2>2
<1> HIDE DEF n, m, useful, consumed, went
<1>6. ASSUME NEW i \in went
      PROVE  \E k \in 1..m : items[k].id = offered[i].id /\ decisions[i].selected = Len(items[k].text)
  <2>1. i \in DOMAIN offered /\ decisions[i].status # "excluded"
    BY <1>3, <1>4 DEF went, Chosen
  <2>2. PICK k \in DOMAIN items :
          items[k].id = offered[i].id /\ WithId(items, offered[i].id) = items[k]
    BY <1>1, <1>2, <2>1, IdOfItem
  <2> QED BY <1>2, <1>3, <2>1, <2>2
<1>7. \A i \in went : decisions[i].selected \in Nat
  BY <1>5, <1>6
<1>8. CharsOf(decisions, useful) <= CharsOf(decisions, consumed)
  <2>1. useful \in SUBSET (1..n) /\ consumed \in SUBSET (1..n) /\ \A i \in consumed : decisions[i].selected \in Nat
    BY <1>4, <1>7
  <2>2. n = Len(decisions)
    BY DEF n
  <2> QED BY <1>1, <1>3, <1>4, <2>1, <2>2, CharsAre
<1>9. CharsOf(decisions, consumed) <= Rendered(items)
  <2> DEFINE place == [k \in 1..m |-> CHOOSE i \in 1..n : offered[i].id = items[k].id]
             f == [k \in DOMAIN items |-> Len(items[k].text)]
             g == [i \in DOMAIN decisions |-> IF i \in consumed THEN decisions[i].selected ELSE 0]
             c == Cardinality(consumed)
  <2>1. \A k \in 1..m : place[k] \in 1..n /\ offered[place[k]].id = items[k].id
    <3> TAKE k \in 1..m
    <3>1. items[k].id \in IdsOf(offered)
      BY <1>1, <1>3 DEF IdsOf
    <3>2. \E i \in 1..n : offered[i].id = items[k].id
      BY <1>3, <3>1 DEF IdsOf
    <3> QED BY <3>2
  <2>2. place \in [1..m -> 1..n]
    BY <2>1
  <2> HIDE DEF place
  <2>3. ASSUME NEW i \in consumed
        PROVE  \E k \in 1..m : place[k] = i /\ decisions[i].selected = Len(items[k].text)
    <3>1. PICK k \in 1..m : items[k].id = offered[i].id /\ decisions[i].selected = Len(items[k].text)
      BY <1>4, <1>6
    <3>2. place[k] = i
      BY <1>1, <1>3, <1>4, <2>1, <3>1 DEF UniqueIds
    <3> QED BY <3>1, <3>2
  <2>4. \A k \in 1..m : f[k] \in Nat
    BY <1>3, <1>5
  <2>5. \A i \in 1..n : /\ g[i] \in Nat
                        /\ \/ g[i] = 0
                           \/ \E k \in 1..m : place[k] = i /\ g[i] <= f[k]
    <3> TAKE i \in 1..n
    <3>1. CASE i \in consumed
      <4>1. PICK k \in 1..m : place[k] = i /\ decisions[i].selected = Len(items[k].text)
        BY <2>3, <3>1
      <4>2. g[i] = decisions[i].selected /\ f[k] = Len(items[k].text)
        BY <1>3, <3>1
      <4>3. g[i] \in Nat /\ g[i] <= f[k]
        BY <1>5, <4>1, <4>2
      <4> QED BY <4>1, <4>3
    <3>2. CASE i \notin consumed
      BY <1>3, <3>2
    <3> QED BY <3>1, <3>2
  <2> HIDE DEF f, g
  <2>6. Sum(g, n) <= Sum(f, m) /\ Sum(g, n) \in Nat /\ Sum(f, m) \in Nat
    <3>1. Sum(g, n) <= Sum(f, m)
      BY <1>3, <2>2, <2>4, <2>5, SumOfPlaces
    <3>2. Sum(f, m) \in Nat
      <4>1. m \in 0..m
        BY <1>3
      <4> QED BY <1>3, <2>4, <4>1, SumSteps
    <3>3. Sum(g, n) \in Nat
      <4>1. n \in 0..n
        BY <1>3
      <4>2. \A i \in 1..n : g[i] \in Nat
        BY <2>5
      <4> QED BY <1>3, <4>1, <4>2, SumSteps
    <3> QED BY <3>1, <3>2, <3>3
  <2>7. c \in Nat /\ c <= m
    <3> DEFINE P == {place[k] : k \in 1..m}
               h == [k \in 1..m |-> place[k]]
    <3>1. IsFiniteSet(1..m) /\ Cardinality(1..m) = m
      BY <1>3, FS_Interval
    <3>2. h \in [1..m -> P] /\ \A p \in P : \E k \in 1..m : h[k] = p
      OBVIOUS
    <3>3. h \in Surjection(1..m, P)
      <4> HIDE DEF h, P
      <4> QED BY <3>2 DEF Surjection
    <3>4. consumed \subseteq P
      BY <2>3
    <3> HIDE DEF P, h
    <3>5. IsFiniteSet(P) /\ Cardinality(P) <= m
      BY <3>1, <3>3, FS_Surjection
    <3>6. IsFiniteSet(consumed) /\ Cardinality(consumed) <= Cardinality(P)
      BY <3>4, <3>5, FS_Subset
    <3>7. Cardinality(P) \in Nat /\ Cardinality(consumed) \in Nat
      BY <3>5, <3>6, FS_CardinalityType
    <3> QED BY <1>3, <3>5, <3>6, <3>7
  <2> HIDE DEF c
  <2>8. Separators(c) \in Nat /\ Separators(m) \in Nat /\ Separators(c) <= Separators(m)
    BY <1>3, <2>7 DEF Separators
  <2>9. CharsOf(decisions, consumed) = Sum(g, n) + Separators(c)
    BY DEF CharsOf, g, n, c
  <2>10. Rendered(items) = Sum(f, m) + Separators(m)
    BY DEF Rendered, f, m
  <2> QED BY <2>6, <2>8, <2>9, <2>10
<1> QED BY <1>1, <1>4, <1>8, <1>9 DEF UsageIsAccounted, useful, consumed, went, decisions

\* Whatever processors and selectors do, the context that goes out is within its budget, the
\* receipt tells it, and what was consumed or useful is no more than that.
THEOREM ContextAlwaysAccounted == PipelineSpec => []ContextIsAccounted
<1>1. PipelineInit => PipelineIInv
  BY DEF PipelineInit, PipelineIInv
<1>2. PipelineIInv => RankedSelectionIsValid
  BY RankedIsValid DEF PipelineIInv, RankedSelectionIsValid
<1>3. PipelineIInv => RankIsRespected
  <2> SUFFICES ASSUME PipelineIInv, stage = "accepted", selection = RankedBudgetSelect(processed),
                      NEW i \in DOMAIN processed, NEW j \in DOMAIN processed,
                      ServedBefore(processed, i, j), selection.decisions[j].status # "excluded"
               PROVE  selection.decisions[i].status = "included"
    BY DEF RankIsRespected
  <2>1. processed \in Seq(ContextItem) /\ budget \in ContextBudget
    BY DEF PipelineIInv
  <2> QED BY <2>1, RankedInRank
<1>4. PipelineIInv => ContextIsAccounted
  BY <1>2, <1>3, BoundedFollows, AccountFollows DEF ContextIsAccounted
<1> QED BY <1>1, <1>4, PipelineKeeps, PTL DEF PipelineSpec

\* All together: what a step of a protocol is judged by was there before it, what is made of
\* reports is no better than they are, and what context went out is accounted for.
THEOREM ProtocolsAlwaysHold ==
  LifecycleSpec /\ ResearchSpec /\ SynthesesSpec /\ PipelineSpec => []ProtocolsHold
BY LifecycleStaysChained, ResearchStaysRegistered, SynthesesAlwaysHold, ContextAlwaysAccounted,
   PTL DEF ProtocolsHold
=============================================================================
