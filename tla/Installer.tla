----------------------------- MODULE Installer -----------------------------
(* The installers (install.sh and install.ps1, one transaction): a release *)
(* takes the place of what the Codex profile has, or what was there comes  *)
(* back, from the remote repository or from a copy made before.  Each      *)
(* command of the codex program is a step and may fail, with or without    *)
(* its effect; an installer may be interrupted (its EXIT trap runs) or     *)
(* killed (it does not) between any two of them.                           *)
EXTENDS Naturals, Sequences, Absence

CONSTANTS
  Commit,     \* commits of the repository
  Version,    \* the version a commit's plugin.json names
  MaxRuns     \* bound: installers started, one after the other

VARIABLES
  host,       \* how codex reports a pinned source, and what the personal marketplace has
  profile,    \* the marketplaces of this name and the two plugins
  copies,     \* the recovery marketplaces under the data home: by installer, a commit
  run         \* the installer, its local variables and its last message

installVars == <<host, profile, copies, run>>

Plugin == [version : {Version[c] : c \in Commit}, enabled : BOOLEAN]

\* A configured marketplace has the source it is reported with, the commit that source
\* names, the commit its root is at, and the recovery copy that is its root (0: none).
Remote(commit, head) ==
  [source |-> host.reported, ref |-> IF host.reported = "pinned" THEN commit ELSE None,
   head |-> head, copy |-> 0]
RecoveryMarketplace(n) ==
  [source |-> "copy", ref |-> None, head |-> copies[n], copy |-> n]

HasRoot(m) == m.copy # 0 => m.copy \in DOMAIN copies

\* The commit the previous marketplace is bound to: the one its source names, or HEAD.
PreviousCommit(m) == IF m.ref # None THEN m.ref ELSE m.head

\* The preflight: one marketplace at most, of this repository or a recovery copy that is
\* there; enabled plugins only, the private one with its marketplace and the personal one
\* with a marketplace to come back from.
Acceptable(p) ==
  /\ Len(p.markets) <= 1
  /\ p.markets # <<>> => HasRoot(p.markets[1])
  /\ p.private # None => p.private.enabled /\ p.markets # <<>>
  /\ p.personal # None => p.personal.enabled /\ host.personal # None

RemotePrevious ==
  {<<>>} \cup {<<[source |-> s, ref |-> IF s = "plain" THEN None ELSE c, head |-> c, copy |-> 0]>> :
                 s \in {"plain", "tag", "pinned"}, c \in Commit}

NoRun ==
  [id |-> 0, at |-> "ended", message |-> "none", release |-> None, interrupted |-> FALSE,
   before |-> profile, previous |-> None, prepared |-> FALSE, remote |-> FALSE, todo |-> {}]

InstallInit ==
  /\ host \in [reported : {"plain", "pinned"},
               personal : {Version[c] : c \in Commit} \cup {None}]
  /\ profile \in [markets : RemotePrevious, private : Plugin \cup {None},
                  personal : Plugin \cup {None}]
  /\ copies = [n \in {} |-> n]
  /\ run = NoRun

-----------------------------------------------------------------------------
(* The transaction.                                                        *)

AfterPrivate(before) ==
  IF before.markets # <<>> THEN "remove marketplace" ELSE "add marketplace"
AfterCopy(before) ==
  IF before.private # None THEN "remove private" ELSE AfterPrivate(before)

Start(release) ==
  /\ run.at = "ended" /\ run.id < MaxRuns
  /\ Acceptable(profile)
  /\ run' = [NoRun EXCEPT !.id = run.id + 1, !.at = "copy", !.release = release,
                           !.interrupted = run.interrupted,
                           !.previous = IF profile.markets = <<>> THEN None
                                        ELSE PreviousCommit(profile.markets[1])]
  /\ UNCHANGED <<host, profile, copies>>

Dropped == [n \in DOMAIN copies \ {run.id} |-> copies[n]]
Copied(commit) ==
  [n \in DOMAIN copies \cup {run.id} |-> IF n = run.id THEN commit ELSE copies[n]]

\* The end of an installer that was not killed: the trap drops its recovery copy unless
\* the rollback asked for it.
End(message, preserve) ==
  /\ run' = [run EXCEPT !.at = "ended", !.message = message]
  /\ copies' = IF preserve THEN copies ELSE Dropped

Copy ==
  /\ run.at = "copy"
  /\ IF run.before.markets = <<>>
     THEN run' = [run EXCEPT !.at = AfterCopy(run.before)] /\ UNCHANGED copies
     ELSE \/ /\ copies' = Copied(profile.markets[1].head)
             /\ run' = [run EXCEPT !.at = AfterCopy(run.before), !.prepared = TRUE]
          \/ End("restored", FALSE)    \* nothing was changed yet
  /\ UNCHANGED <<host, profile>>

\* A command that leaves the profile as one of results, or fails with or without that.
Command(place, results, worked, failed) ==
  /\ run.at = place
  /\ \/ profile' \in results /\ run' = worked
     \/ profile' \in results \cup {profile} /\ run' = failed
  /\ UNCHANGED <<host, copies>>

To(place) == [run EXCEPT !.at = place]

WithoutPrivate == {[profile EXCEPT !.private = None]}
WithoutPersonal == {[profile EXCEPT !.personal = None]}
WithoutMarketplace == {[profile EXCEPT !.markets = <<>>]}

\* A marketplace at a commit: its root may turn out to be at another one.
WithRemote(commit) ==
  {[profile EXCEPT !.markets = Append(@, Remote(commit, head))] : head \in Commit}
WithCopy == {[profile EXCEPT !.markets = Append(@, RecoveryMarketplace(run.id))]}

\* The private plugin is the one of the first marketplace, and needs one.
WithPrivate ==
  IF profile.markets = <<>> THEN {}
  ELSE {[profile EXCEPT !.private = [version |-> Version[profile.markets[1].head], enabled |-> TRUE]]}
WithPersonal ==
  IF host.personal = None THEN {}
  ELSE {[profile EXCEPT !.personal = [version |-> host.personal, enabled |-> TRUE]]}

RemovePrivate ==
  Command("remove private", WithoutPrivate, To(AfterPrivate(run.before)), To("undo private"))
RemoveMarketplace ==
  Command("remove marketplace", WithoutMarketplace, To("add marketplace"), To("undo private"))
AddMarketplace ==
  Command("add marketplace", WithRemote(run.release), To("add private"), To("undo private"))
AddPrivate ==
  Command("add private", WithPrivate, To("provisional"), To("undo private"))
RemovePersonal ==
  Command("remove personal", WithoutPersonal, To("verify"), To("undo private"))

IsRelease(plugin) == plugin = [version |-> Version[run.release], enabled |-> TRUE]

\* The new plugin is there before the personal one goes.
Provisional ==
  /\ run.at = "provisional"
  /\ \/ /\ IsRelease(profile.private)
        /\ run' = To(IF run.before.personal # None THEN "remove personal" ELSE "verify")
     \/ run' = To("undo private")
  /\ UNCHANGED <<host, profile, copies>>

\* One enabled plugin, and the canonical verifier on the root of the marketplace: a
\* known spelling of the repository, at the commit of the tag.
Verified ==
  /\ IsRelease(profile.private) /\ profile.personal = None
  /\ Len(profile.markets) = 1
  /\ profile.markets[1].source = "plain" /\ profile.markets[1].head = run.release

Verify ==
  /\ run.at = "verify"
  /\ \/ Verified /\ End("installed", FALSE)
     \/ run' = To("undo private") /\ UNCHANGED copies
  /\ UNCHANGED <<host, profile>>

-----------------------------------------------------------------------------
(* The rollback, whose commands may fail too.                              *)

UndoPrivate ==
  Command("undo private", WithoutPrivate, To("undo marketplace"), To("undo marketplace"))

Restoring(place) ==
  [run EXCEPT !.at = place,
              !.todo = (IF run.before.private # None THEN {"private"} ELSE {})
                       \cup (IF run.before.personal # None THEN {"personal"} ELSE {})]

UndoMarketplace ==
  Command("undo marketplace", WithoutMarketplace,
          Restoring(IF run.before.markets # <<>> THEN "restore remote" ELSE "restore plugins"),
          Restoring(IF run.prepared THEN "restore copy" ELSE "restore plugins"))

RestoreRemote ==
  Command("restore remote", WithRemote(run.previous),
          [run EXCEPT !.at = "restore plugins", !.remote = TRUE], To("restore copy"))

RestoreCopy ==
  Command("restore copy", WithCopy, To("restore plugins"), To("restore plugins"))

RestorePlugin(plugin) ==
  LET next == [run EXCEPT !.todo = @ \ {plugin}]
  IN  /\ plugin \in run.todo
      /\ Command("restore plugins",
                 IF plugin = "private" THEN WithPrivate ELSE WithPersonal, next, next)

\* What the rollback compares with what the preflight saw.
Recognized ==
  /\ profile.private = run.before.private /\ profile.personal = run.before.personal
  /\ IF run.before.markets = <<>> THEN profile.markets = <<>>
     ELSE /\ Len(profile.markets) = 1
          /\ IF run.remote
             THEN /\ profile.markets[1].source = "pinned"
                  /\ profile.markets[1].ref = run.previous
                  /\ profile.markets[1].head = run.previous
             ELSE profile.markets[1].copy = run.id

\* Mutant: the copy goes as soon as the remote was added, recognized or not.
MutPreserve(succeeded) == run.prepared /\ ~run.remote

\* The recovery copy is kept unless the remote took over and all was recognized.
Preserve(succeeded) == run.prepared /\ (~run.remote \/ ~succeeded)

Judge ==
  /\ run.at = "restore plugins" /\ run.todo = {}
  /\ \E succeeded \in {Recognized, FALSE} :    \* the lists may be unreadable
       End(CASE succeeded /\ Preserve(succeeded) -> "restored from copy"
             [] succeeded /\ ~Preserve(succeeded) -> "restored"
             [] ~succeeded /\ run.prepared -> "incomplete"
             [] ~succeeded /\ ~run.prepared -> "no copy",
           Preserve(succeeded))
  /\ UNCHANGED <<host, profile>>

-----------------------------------------------------------------------------
\* A signal runs the EXIT trap, which drops the copy; a kill leaves it.
Interrupt ==
  /\ run.at # "ended"
  /\ run' = [run EXCEPT !.at = "ended", !.message = "interrupted", !.interrupted = TRUE]
  /\ copies' \in {copies, Dropped}
  /\ UNCHANGED <<host, profile>>

InstallNext ==
  \/ \E release \in Commit : Start(release)
  \/ Copy \/ RemovePrivate \/ RemoveMarketplace \/ AddMarketplace \/ AddPrivate
  \/ Provisional \/ RemovePersonal \/ Verify
  \/ UndoPrivate \/ UndoMarketplace \/ RestoreRemote \/ RestoreCopy
  \/ \E plugin \in {"private", "personal"} : RestorePlugin(plugin)
  \/ Judge \/ Interrupt

InstallSpec == InstallInit /\ [][InstallNext]_installVars
-----------------------------------------------------------------------------
(* Properties.                                                             *)

\* What the preflight saw is back: the plugins as they were, and a marketplace whose root
\* is there, at the commit it was at or was bound to.
IsBack ==
  /\ profile.private = run.before.private /\ profile.personal = run.before.personal
  /\ Len(profile.markets) = Len(run.before.markets)
  /\ run.before.markets # <<>> =>
       /\ profile.markets[1].head \in {run.before.markets[1].head, run.previous}
       /\ HasRoot(profile.markets[1])

\* An installation is all or nothing, and what the last message says is so: the release
\* alone is installed and pinned, or what was there is back and the next installer
\* accepts it, or the copy the message names holds the previous marketplace
\* (docs/operations.md:261-266).
MessageIsTrue ==
  /\ run.message = "installed" =>
       /\ IsRelease(profile.private) /\ profile.personal = None
       /\ profile.markets = <<Remote(run.release, run.release)>>
  /\ run.message \in {"restored", "restored from copy"} => IsBack /\ Acceptable(profile)
  /\ run.message \in {"restored from copy", "incomplete"} =>
       run.id \in DOMAIN copies /\ copies[run.id] = run.before.markets[1].head

\* Unless an installer was interrupted, the profile never points to a recovery copy that
\* was dropped, through one failed installation after the other.
RootsAreThere ==
  ~run.interrupted => \A k \in 1..Len(profile.markets) : HasRoot(profile.markets[k])

InstallIsTransaction == MessageIsTrue /\ RootsAreThere
=============================================================================
