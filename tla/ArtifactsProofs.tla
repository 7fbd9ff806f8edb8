---------------------------- MODULE ArtifactsProofs ----------------------------
(* Theorems about the artifacts of durable work: storage and its collection, *)
(* the evidence of criteria, and the ledger of a session and its bundles.    *)
EXTENDS StorageGC, Evidence, LedgerReplay, SequenceTheorems, WellFoundedInduction, TLAPS

-----------------------------------------------------------------------------
(* Theorems about StorageGC, for any number of sessions, processes and      *)
(* artifacts, and any --keep-last.                                          *)

\* While the collector decides whether to rename a directory it holds the lock that
\* is in it, and afterwards it has the directory.
CollectorHolds ==
  /\ gc.at = "inspect" => gc.on = None
  /\ gc.at = "apply" /\ gc.on # None =>
       dir[gc.on] # Absent /\ dir[gc.on].lock = Collector
  /\ gc.at \in {"removing", "removed", "restore"} => gc.on # None /\ tomb[gc.on] # Absent

\* Until objects are judged, each one that a receipt names or is about to name is there.
ReferencedPresent ==
  gc.at \notin {"judge", "done"} =>
    /\ \A s \in Session :
         /\ dir[s] # Absent => \A d \in dir[s].refs : object[d] # "absent"
         /\ tomb[s] # Absent => \A d \in tomb[s].refs : object[d] # "absent"
    /\ \A c \in Client : client[c] # None /\ client[c].at = "copied" =>
         object[client[c].digest] # "absent"

\* What a scanned receipt names is there and not to be deleted.
SeenIsNamed ==
  /\ \A s \in Session, d \in Digest : <<s, d>> \in seen => object[d] # "absent" /\ d \in named
  /\ gc.at = "judge" => gc.doomed \cap named = {}

\* A session that the collector has found is at its path until the collector renames it.
FoundPresent ==
  \A s \in Session :
    verdict[s] \notin {"gone", "deleted"} /\ s \notin failed /\ ~(gc.at \in {"removing", "done"} /\ gc.on = s)
      => dir[s] # Absent

IInv == GCTypeOK /\ CollectorHolds /\ FoundPresent /\ LockedInPlace /\ ReferencedPresent /\ SeenIsNamed
-----------------------------------------------------------------------------
\* A new directory is a directory.
LEMMA BareTyped == Bare \in Directory
BY DEF Bare, Directory

\* The invariant holds at first.
LEMMA InitInv == Init => IInv
<1> SUFFICES ASSUME Init PROVE IInv
  OBVIOUS
<1>1. dir \in [Session -> Directory \cup {Absent}]
  BY DEF Init
<1>2. GCTypeOK
  BY <1>1, Bounds DEF Init, GCTypeOK, Bounds
<1>3. CollectorHolds /\ FoundPresent /\ LockedInPlace /\ SeenIsNamed
  BY DEF Init, CollectorHolds, FoundPresent, LockedInPlace, SeenIsNamed
<1>4. ReferencedPresent
  <2>1. ASSUME NEW s \in Session, dir[s] # Absent PROVE \A d \in dir[s].refs : object[d] # "absent"
    <3>1. dir[s] \in Directory /\ Stored(dir[s])
      BY <2>1 DEF Init
    <3>2. dir[s].refs \subseteq dir[s].copies
      BY <3>1, <2>1 DEF Stored
    <3> QED BY <2>1, <3>1, <3>2 DEF Init, Directory
  <2> QED BY <2>1 DEF Init, ReferencedPresent
<1> QED BY <1>2, <1>3, <1>4 DEF IInv
-----------------------------------------------------------------------------
\* A directory that is replaced by a typed one.
LEMMA DirTyped ==
  ASSUME GCTypeOK, NEW s \in Session, NEW d \in Directory \cup {Absent},
         dir' = [dir EXCEPT ![s] = d]
  PROVE  dir' \in [Session -> Directory \cup {Absent}]
BY DEF GCTypeOK

\* A command picks its session and makes the directory it misses.
LEMMA OpenInv ==
  ASSUME IInv, NEW c \in Client, Open(c)
  PROVE  IInv'
<1>1. PICK op \in {"init", "record", "reopen", "complete", "probe"}, s \in Session, d \in Digest :
        /\ client' = [client EXCEPT ![c] = [op |-> op, on |-> s, digest |-> d, at |-> "opened"]]
        /\ dir' = IF dir[s] = Absent THEN [dir EXCEPT ![s] = Bare] ELSE dir
  BY DEF Open
<1> DEFINE k == [op |-> op, on |-> s, digest |-> d, at |-> "opened"]
<1>2. k \in Command /\ k.at = "opened"
  BY DEF Command
<1>3. client' = [client EXCEPT ![c] = k]
  BY <1>1
<1> HIDE DEF k
<1>4. client' \in [Client -> Command \cup {None}]
  BY <1>2, <1>3 DEF IInv, GCTypeOK
<1>5. commands' \in 0..MaxCommands
  <2>1. commands \in 0..MaxCommands /\ commands < MaxCommands /\ commands' = commands + 1
    BY DEF IInv, GCTypeOK, Open
  <2> QED BY <2>1, Bounds DEF Bounds
<1>6. dir' \in [Session -> Directory \cup {Absent}]
  BY <1>1, BareTyped DEF IInv, GCTypeOK
<1>7. GCTypeOK'
  BY <1>4, <1>5, <1>6 DEF IInv, GCTypeOK, Open, gcVars
<1>8. \A t \in Session : dir'[t] = dir[t] \/ (dir[t] = Absent /\ dir'[t] = Bare)
  BY <1>1 DEF IInv, GCTypeOK
<1>9. CollectorHolds'
  BY <1>8, NoneIsNoSession DEF IInv, GCTypeOK, CollectorHolds, Open, gcVars, NoneIsNoSession
<1>10. LockedInPlace'
  <2> SUFFICES ASSUME NEW b \in Client, client'[b] # None, client'[b].at = "locked"
               PROVE  dir'[client'[b].on] # Absent /\ dir'[client'[b].on].lock = b
    BY DEF LockedInPlace
  <2>1. client'[b] = client[b]
    BY <1>2, <1>3 DEF IInv, GCTypeOK
  <2>2. client[b].on \in Session
    BY <2>1 DEF IInv, GCTypeOK, Command
  <2>3. dir[client[b].on] # Absent /\ dir[client[b].on].lock = b
    BY <2>1 DEF IInv, LockedInPlace
  <2> QED BY <1>8, <2>1, <2>2, <2>3
<1>11. Bare.refs = {}
  BY DEF Bare
<1>12. ReferencedPresent'
  BY <1>2, <1>3, <1>8, <1>11 DEF IInv, GCTypeOK, ReferencedPresent, Open, gcVars
<1>13. SeenIsNamed'
  BY DEF IInv, SeenIsNamed, Open, gcVars
<1>14. FoundPresent'
  <2>1. Bare # Absent
    BY BareTyped, AbsentIsNoDirectory DEF AbsentIsNoDirectory
  <2> QED BY <1>8, <2>1 DEF IInv, FoundPresent, Open, gcVars
<1> QED BY <1>14, <1>7, <1>9, <1>10, <1>12, <1>13 DEF IInv

\* A client's step that replaces the directory of its session and its own command keeps
\* the invariant, when ...
LEMMA ClientInv ==
  ASSUME IInv, NEW c \in Client, NEW s \in Session,
         NEW x \in Directory, NEW k \in Command \cup {None},
         dir' = [dir EXCEPT ![s] = x], client' = [client EXCEPT ![c] = k],
         UNCHANGED <<tomb, object, commands, gcVars>>,
         \* ... nobody else loses a lock,
         dir[s] # Absent /\ dir[s].lock # x.lock => dir[s].lock \in {None, c},
         \* the client is locked in place,
         k # None /\ k.at = "locked" => k.on = s /\ x.lock = c,
         \* and the objects it names are there.
         gc.at \notin {"judge", "done"} =>
           /\ \A d \in x.refs : object[d] # "absent"
           /\ k # None /\ k.at = "copied" => object[k.digest] # "absent"
  PROVE  IInv'
<1>1. GCTypeOK'
  BY DEF IInv, GCTypeOK, gcVars
<1>2. x # Absent
  BY AbsentIsNoDirectory DEF AbsentIsNoDirectory
<1>3. CollectorHolds'
  BY <1>2, CollectorIsNoClient, NoneIsNoSession
  DEF IInv, GCTypeOK, CollectorHolds, gcVars, CollectorIsNoClient, NoneIsNoSession
<1>4. LockedInPlace'
  <2> SUFFICES ASSUME NEW b \in Client, client'[b] # None, client'[b].at = "locked"
               PROVE  dir'[client'[b].on] # Absent /\ dir'[client'[b].on].lock = b
    BY DEF LockedInPlace
  <2>1. CASE b = c
    <3>1. client'[b] = k /\ dir'[s] = x
      BY <2>1 DEF IInv, GCTypeOK
    <3> QED BY <1>2, <2>1, <3>1
  <2>2. CASE b # c
    <3>1. client'[b] = client[b]
      BY <2>2 DEF IInv, GCTypeOK
    <3>2. client[b].on \in Session
      BY <3>1 DEF IInv, GCTypeOK, Command
    <3>3. dir[client[b].on] # Absent /\ dir[client[b].on].lock = b
      BY <3>1 DEF IInv, LockedInPlace
    <3>4. b # None
      BY CollectorIsNoClient DEF CollectorIsNoClient
    <3> QED BY <1>2, <2>2, <3>1, <3>2, <3>3, <3>4 DEF IInv, GCTypeOK
  <2> QED BY <2>1, <2>2
<1>5. ReferencedPresent'
  BY <1>2 DEF IInv, GCTypeOK, ReferencedPresent, gcVars
<1>6. SeenIsNamed'
  BY DEF IInv, SeenIsNamed, gcVars
<1>7. FoundPresent'
  BY <1>2 DEF IInv, GCTypeOK, FoundPresent, gcVars
<1> QED BY <1>1, <1>3, <1>4, <1>5, <1>6, <1>7 DEF IInv

\* A command that gets the lock of a directory finds the directory in place.
LEMMA LockInv ==
  ASSUME IInv, NEW c \in Client, Lock(c)
  PROVE  IInv'
<1> DEFINE s == client[c].on
           x == [dir[s] EXCEPT !.lock = c, !.mtime = IF @ = "old" THEN "touched" ELSE @]
           k == [client[c] EXCEPT !.at = "locked"]
<1>1. client[c] \in Command /\ s \in Session /\ dir[s] \in Directory /\ dir[s].lock = None
  BY DEF Lock, IInv, GCTypeOK, Command
<1>2. x \in Directory /\ x.lock = c /\ x.refs = dir[s].refs
  BY <1>1 DEF Directory
<1>3. k \in Command /\ k.on = s /\ k.at = "locked"
  BY <1>1 DEF Command
<1>4. /\ dir' = [dir EXCEPT ![s] = x] /\ client' = [client EXCEPT ![c] = k]
      /\ UNCHANGED <<tomb, object, commands, gcVars>>
  BY DEF Lock
<1>5. gc.at \notin {"judge", "done"} => \A d \in dir[s].refs : object[d] # "absent"
  BY <1>1, AbsentIsNoDirectory DEF IInv, ReferencedPresent, AbsentIsNoDirectory
<1> HIDE DEF x, k, s
<1> QED BY <1>1, <1>2, <1>3, <1>4, <1>5, ClientInv

\* A command that gets no lock changes nothing.
LEMMA CannotLockInv ==
  ASSUME IInv, NEW c \in Client, CannotLock(c)
  PROVE  IInv'
<1>1. client' = [client EXCEPT ![c] = None] /\ client[c].at = "opened"
      /\ UNCHANGED <<dir, tomb, object, commands, gcVars>>
  BY DEF CannotLock
<1>2. GCTypeOK' /\ CollectorHolds' /\ FoundPresent' /\ SeenIsNamed'
  BY <1>1 DEF IInv, GCTypeOK, CollectorHolds, FoundPresent, SeenIsNamed, gcVars
<1>3. LockedInPlace' /\ ReferencedPresent'
  BY <1>1 DEF IInv, GCTypeOK, LockedInPlace, ReferencedPresent, gcVars
<1> QED BY <1>2, <1>3 DEF IInv

\* What a command does under the lock keeps the receipts of its directory.
LEMMA BodyInv ==
  ASSUME IInv, NEW c \in Client, Body(c)
  PROVE  IInv'
<1> DEFINE s == client[c].on
           d == dir[s]
           op == client[c].op
           usable == d.state \in {"active", "complete"}
           status == IF op = (IF usable THEN "reopen" ELSE "init") THEN "active"
                     ELSE IF op = "complete" /\ d.state = "active" THEN "complete"
                     ELSE d.state
           x == [d EXCEPT !.state = status, !.lock = None,
                          !.mtime = IF status = d.state THEN @
                                    ELSE IF status = "complete" THEN "completed" ELSE "touched"]
           k == IF op = "record" /\ d.state = "active" THEN [client[c] EXCEPT !.at = "begun"]
                ELSE None
<1>1. /\ client[c] \in Command /\ client[c] # None /\ client[c].at = "locked"
      /\ s \in Session /\ d \in Directory /\ d.lock = c /\ d # Absent
  BY DEF Body, IInv, GCTypeOK, Command, LockedInPlace
<1>2. x \in Directory /\ x.lock = None /\ x.refs = d.refs
  BY <1>1 DEF Directory
<1>3. k \in Command \cup {None} /\ (k # None => k.at = "begun")
  BY <1>1 DEF Command
<1>4. /\ dir' = [dir EXCEPT ![s] = x] /\ client' = [client EXCEPT ![c] = k]
      /\ UNCHANGED <<tomb, object, commands, gcVars>>
  BY DEF Body
<1>5. gc.at \notin {"judge", "done"} => \A e \in d.refs : object[e] # "absent"
  BY <1>1 DEF IInv, ReferencedPresent
<1>6. client[c].on = s /\ d = dir[s]
  OBVIOUS
<1> HIDE DEF x, k, s, d, status, op, usable
<1> QED BY <1>1, <1>2, <1>3, <1>4, <1>5, <1>6, ClientInv

\* Storing an object only adds one.
LEMMA StoreObjectInv ==
  ASSUME IInv, NEW c \in Client, StoreObject(c)
  PROVE  IInv'
<1> DEFINE d == client[c].digest
           k == [client[c] EXCEPT !.at = "stored"]
<1>1. client[c] \in Command /\ d \in Digest
  BY DEF StoreObject, IInv, GCTypeOK, Command
<1>2. k \in Command /\ k.at = "stored"
  BY <1>1 DEF Command
<1>3. /\ client' = [client EXCEPT ![c] = k]
      /\ object' = [object EXCEPT ![d] = IF @ = "absent" THEN "young" ELSE @]
      /\ UNCHANGED <<dir, tomb, commands, gcVars>>
  BY DEF StoreObject
<1> HIDE DEF k, d
<1>4. \A e \in Digest : object[e] # "absent" => object'[e] # "absent"
  BY <1>3 DEF IInv, GCTypeOK
<1>5. GCTypeOK'
  BY <1>1, <1>2, <1>3 DEF IInv, GCTypeOK, gcVars
<1>6. CollectorHolds' /\ FoundPresent' /\ LockedInPlace'
  BY <1>2, <1>3 DEF IInv, GCTypeOK, CollectorHolds, FoundPresent, LockedInPlace, gcVars
<1>7. SeenIsNamed'
  BY <1>3, <1>4 DEF IInv, SeenIsNamed, gcVars
<1>8. ReferencedPresent'
  <2> SUFFICES ASSUME gc'.at \notin {"judge", "done"} PROVE ReferencedPresent'
    BY DEF ReferencedPresent
  <2>1. gc' = gc /\ dir' = dir /\ tomb' = tomb
    BY <1>3 DEF gcVars
  <2>2. ASSUME NEW t \in Session
        PROVE  /\ dir[t] # Absent => \A e \in dir[t].refs : object'[e] # "absent"
               /\ tomb[t] # Absent => \A e \in tomb[t].refs : object'[e] # "absent"
    BY <1>4, <2>1 DEF IInv, GCTypeOK, ReferencedPresent, Directory
  <2>3. ASSUME NEW b \in Client, client'[b] # None, client'[b].at = "copied"
        PROVE  object'[client'[b].digest] # "absent"
    <3>1. client'[b] = client[b]
      BY <1>2, <1>3, <2>3 DEF IInv, GCTypeOK
    <3>2. client[b].digest \in Digest
      BY <3>1, <2>3 DEF IInv, GCTypeOK, Command
    <3> QED BY <1>4, <2>1, <2>3, <3>1, <3>2 DEF IInv, ReferencedPresent
  <2> QED BY <2>1, <2>2, <2>3 DEF ReferencedPresent
<1> QED BY <1>5, <1>6, <1>7, <1>8 DEF IInv

\* A directory made again below evidence/ keeps its receipts and its lock.
LEMMA WithEvidenceKeeps ==
  ASSUME NEW d \in Directory \cup {Absent}
  PROVE  /\ WithEvidence(d) \in Directory
         /\ d # Absent => WithEvidence(d).refs = d.refs /\ WithEvidence(d).lock = d.lock
         /\ d = Absent => WithEvidence(d).refs = {} /\ WithEvidence(d).lock = None
<1>1. CASE d = Absent
  BY <1>1, BareTyped DEF WithEvidence, Bare, Directory
<1>2. CASE d # Absent
  BY <1>2 DEF WithEvidence, Directory
<1> QED BY <1>1, <1>2

\* A copy is linked into the directory the command holds.
LEMMA LinkCopyInv ==
  ASSUME IInv, NEW c \in Client, LinkCopy(c)
  PROVE  IInv'
<1> DEFINE s == client[c].on
           e == client[c].digest
           here == WithEvidence(dir[s])
           absent == object[e] = "absent"
           x == IF absent THEN here ELSE [here EXCEPT !.copies = @ \cup {e}]
           k == IF absent THEN None ELSE [client[c] EXCEPT !.at = "copied"]
<1>1. client[c] \in Command /\ s \in Session /\ e \in Digest /\ dir[s] \in Directory \cup {Absent}
  BY DEF LinkCopy, IInv, GCTypeOK, Command
<1>2. /\ here \in Directory
      /\ dir[s] # Absent => here.refs = dir[s].refs /\ here.lock = dir[s].lock
      /\ dir[s] = Absent => here.refs = {} /\ here.lock = None
  BY <1>1, WithEvidenceKeeps
<1> HIDE DEF here
<1>3. x \in Directory /\ x.refs = here.refs /\ x.lock = here.lock
  BY <1>1, <1>2 DEF Directory
<1>4. k \in Command \cup {None} /\ (k # None => k.at = "copied" /\ k.digest = e /\ ~absent)
  BY <1>1 DEF Command
<1>5. /\ dir' = [dir EXCEPT ![s] = x] /\ client' = [client EXCEPT ![c] = k]
      /\ UNCHANGED <<tomb, object, commands, gcVars>>
  BY DEF LinkCopy, here
<1>6. gc.at \notin {"judge", "done"} => \A d \in x.refs : object[d] # "absent"
  BY <1>1, <1>2, <1>3 DEF IInv, ReferencedPresent
<1>7. k # None => object[k.digest] # "absent"
  BY <1>4
<1>8. dir[s] # Absent /\ dir[s].lock # x.lock => dir[s].lock \in {None, c}
  BY <1>2, <1>3
<1>9. k # None => k.at # "locked"
  BY <1>4
<1> HIDE DEF x, k, s, e, absent
<1> QED BY <1>1, <1>3, <1>4, <1>5, <1>6, <1>7, <1>8, <1>9, ClientInv

\* A receipt names an object that was there when it was copied.
LEMMA WriteReceiptInv ==
  ASSUME IInv, NEW c \in Client, WriteReceipt(c)
  PROVE  IInv'
<1> DEFINE s == client[c].on
           e == client[c].digest
           here == WithEvidence(dir[s])
           x == [here EXCEPT !.refs = @ \cup {e}]
<1>1. /\ client[c] \in Command /\ client[c] # None /\ client[c].at = "copied"
      /\ s \in Session /\ e \in Digest /\ dir[s] \in Directory \cup {Absent}
  BY DEF WriteReceipt, IInv, GCTypeOK, Command
<1>2. /\ here \in Directory
      /\ dir[s] # Absent => here.refs = dir[s].refs /\ here.lock = dir[s].lock
      /\ dir[s] = Absent => here.refs = {} /\ here.lock = None
  BY <1>1, WithEvidenceKeeps
<1> HIDE DEF here
<1>3. x \in Directory /\ x.refs = here.refs \cup {e} /\ x.lock = here.lock
  BY <1>1, <1>2 DEF Directory
<1>4. /\ dir' = [dir EXCEPT ![s] = x] /\ client' = [client EXCEPT ![c] = None]
      /\ UNCHANGED <<tomb, object, commands, gcVars>>
  BY DEF WriteReceipt, here
<1>5. gc.at \notin {"judge", "done"} => \A d \in x.refs : object[d] # "absent"
  BY <1>1, <1>2, <1>3 DEF IInv, ReferencedPresent
<1>6. dir[s] # Absent /\ dir[s].lock # x.lock => dir[s].lock \in {None, c}
  BY <1>2, <1>3
<1> HIDE DEF x, s, e
<1> QED BY <1>1, <1>3, <1>4, <1>5, <1>6, ClientInv

\* A process that dies frees its lock and leaves the directory.
LEMMA DieInv ==
  ASSUME IInv, NEW c \in Client, Die(c)
  PROVE  IInv'
<1>1. \A s \in Session :
        dir'[s] = IF dir[s] # Absent /\ dir[s].lock = c THEN [dir[s] EXCEPT !.lock = None] ELSE dir[s]
  BY DEF Die
<1>2. \A s \in Session : dir[s] \in Directory \cup {Absent}
  BY DEF IInv, GCTypeOK
<1>3. \A s \in Session :
        /\ dir'[s] \in Directory \cup {Absent}
        /\ dir'[s] = Absent <=> dir[s] = Absent
        /\ dir[s] # Absent => dir'[s].refs = dir[s].refs
        /\ dir[s] # Absent /\ dir[s].lock # c => dir'[s] = dir[s]
  <2> SUFFICES ASSUME NEW s \in Session
               PROVE  /\ dir'[s] \in Directory \cup {Absent}
                      /\ dir'[s] = Absent <=> dir[s] = Absent
                      /\ dir[s] # Absent => dir'[s].refs = dir[s].refs
                      /\ dir[s] # Absent /\ dir[s].lock # c => dir'[s] = dir[s]
    OBVIOUS
  <2>1. CASE dir[s] # Absent /\ dir[s].lock = c
    <3> DEFINE x == [dir[s] EXCEPT !.lock = None]
    <3>1. dir'[s] = x /\ dir[s] \in Directory
      BY <1>1, <1>2, <2>1
    <3>2. x \in Directory /\ x.refs = dir[s].refs
      BY <3>1 DEF Directory
    <3> QED BY <2>1, <3>1, <3>2, AbsentIsNoDirectory DEF AbsentIsNoDirectory
  <2>2. CASE ~(dir[s] # Absent /\ dir[s].lock = c)
    BY <1>1, <1>2, <2>2
  <2> QED BY <2>1, <2>2
<1>4. dir' \in [Session -> Directory \cup {Absent}]
  BY <1>3 DEF Die
<1>5. client' = [client EXCEPT ![c] = None] /\ UNCHANGED <<tomb, object, commands, gcVars>>
  BY DEF Die
<1>6. GCTypeOK'
  BY <1>4, <1>5 DEF IInv, GCTypeOK, gcVars
<1>7. CollectorHolds'
  <2>1. gc' = gc /\ tomb' = tomb /\ c # Collector /\ gc.on \in Session \cup {None}
    BY <1>5, CollectorIsNoClient DEF IInv, GCTypeOK, gcVars, CollectorIsNoClient
  <2> QED BY <1>3, <2>1 DEF IInv, CollectorHolds
<1>8. LockedInPlace'
  <2> SUFFICES ASSUME NEW b \in Client, client'[b] # None, client'[b].at = "locked"
               PROVE  dir'[client'[b].on] # Absent /\ dir'[client'[b].on].lock = b
    BY DEF LockedInPlace
  <2>1. client'[b] = client[b] /\ b # c
    BY <1>5 DEF IInv, GCTypeOK
  <2>2. client[b].on \in Session
    BY <2>1 DEF IInv, GCTypeOK, Command
  <2>3. dir[client[b].on] # Absent /\ dir[client[b].on].lock = b
    BY <2>1 DEF IInv, LockedInPlace
  <2> QED BY <1>3, <2>1, <2>2, <2>3
<1>9. ReferencedPresent'
  BY <1>3, <1>5 DEF IInv, GCTypeOK, ReferencedPresent, gcVars
<1>10. SeenIsNamed'
  BY <1>5 DEF IInv, SeenIsNamed, gcVars
<1>11. FoundPresent'
  BY <1>3, <1>5 DEF IInv, FoundPresent, gcVars
<1> QED BY <1>11, <1>6, <1>7, <1>8, <1>9, <1>10 DEF IInv

\* Every step of a command keeps the invariant.
LEMMA ClientStepInv ==
  ASSUME IInv, NEW c \in Client, ClientStep(c)
  PROVE  IInv'
BY OpenInv, LockInv, CannotLockInv, BodyInv, StoreObjectInv, LinkCopyInv, WriteReceiptInv, DieInv
DEF ClientStep
-----------------------------------------------------------------------------
\* Decisions without locks.
LEMMA LookInv ==
  ASSUME IInv, Retain \/ StartScan \/ (\E s \in Session : Inspect(s) \/ LookBack(s))
  PROVE  IInv'
<1>1. UNCHANGED <<dir, tomb, object, client, commands, failed, scanned, named, seen>>
  BY DEF Retain, StartScan, Inspect, LookBack
<1>2. /\ verdict' \in [Session -> {"unseen", "gone", "protect", "completed", "keep",
                                  "delete", "delete empty", "deleted"}]
      /\ gc' \in [at : {"inspect", "apply", "removing", "removed", "restore", "scan", "judge",
                        "done"},
                  on : Session \cup {None}, doomed : SUBSET Digest]
      /\ gc'.at \notin {"judge", "done"} /\ gc.at \notin {"judge", "done"}
      /\ gc'.at = "inspect" => gc'.on = None
      /\ gc'.at = "apply" => gc'.on = None
      /\ gc.at # "removing"
      /\ gc'.at \in {"removing", "removed", "restore"} => gc'.on # None /\ tomb[gc'.on] # Absent
      /\ \A t \in Session : verdict'[t] \notin {"gone", "deleted"} => verdict[t] \notin {"gone", "deleted"}
  <2>1. CASE Retain
    <3>1. PICK kept \in SUBSET Session, completed \in SUBSET Session, Recent \in [Session -> BOOLEAN] :
            verdict' = [s \in Session |->
                  IF s \notin completed THEN verdict[s]
                  ELSE IF s \in kept \/ Recent[s] THEN "keep" ELSE "delete"]
      <4> DEFINE completed == {s \in Session : verdict[s] = "completed"}
                 R == [s \in Session |-> dir[s].mtime # "old"]
      <4>1. PICK kept \in SUBSET completed : verdict' = [s \in Session |->
                  IF s \notin completed THEN verdict[s]
                  ELSE IF s \in kept \/ dir[s].mtime # "old" THEN "keep" ELSE "delete"]
        BY <2>1 DEF Retain
      <4>2. verdict' = [s \in Session |->
                  IF s \notin completed THEN verdict[s]
                  ELSE IF s \in kept \/ R[s] THEN "keep" ELSE "delete"]
        BY <4>1
      <4>3. R \in [Session -> BOOLEAN] /\ completed \in SUBSET Session /\ kept \in SUBSET Session
        OBVIOUS
      <4> HIDE DEF R, completed
      <4> QED BY <4>2, <4>3
    <3>2. verdict \in [Session -> {"unseen", "gone", "protect", "completed", "keep",
                                  "delete", "delete empty", "deleted"}]
      BY DEF IInv, GCTypeOK
    <3>3. verdict' \in [Session -> {"unseen", "gone", "protect", "completed", "keep",
                                  "delete", "delete empty", "deleted"}]
      BY <3>1, <3>2
    <3>4. \A t \in Session : verdict'[t] \notin {"gone", "deleted"} => verdict[t] \notin {"gone", "deleted"}
      <4>1. PICK stay \in SUBSET Session : verdict' = [s \in Session |->
                  IF s \notin {t \in Session : verdict[t] = "completed"} THEN verdict[s]
                  ELSE IF s \in stay \/ dir[s].mtime # "old" THEN "keep" ELSE "delete"]
        BY <2>1 DEF Retain
      <4> QED BY <4>1
    <3> QED BY <2>1, <3>3, <3>4 DEF Retain, IInv, GCTypeOK, CollectorHolds
  <2>2. CASE StartScan
    BY <2>2 DEF StartScan, IInv, GCTypeOK
  <2>3. CASE \E s \in Session : Inspect(s)
    BY <2>3 DEF Inspect, IInv, GCTypeOK, CollectorHolds
  <2>4. CASE \E s \in Session : LookBack(s)
    BY <2>4 DEF LookBack, IInv, GCTypeOK, CollectorHolds
  <2> QED BY <2>1, <2>2, <2>3, <2>4
<1>3. GCTypeOK'
  BY <1>1, <1>2 DEF IInv, GCTypeOK
<1>4. CollectorHolds' /\ FoundPresent' /\ LockedInPlace'
  BY <1>1, <1>2 DEF IInv, CollectorHolds, FoundPresent, LockedInPlace
<1>5. ReferencedPresent' /\ SeenIsNamed'
  BY <1>1, <1>2 DEF IInv, ReferencedPresent, SeenIsNamed
<1> QED BY <1>3, <1>4, <1>5 DEF IInv

\* A step of the collector that replaces a directory nobody else has locked.
LEMMA CollectorInv ==
  ASSUME IInv, NEW s \in Session, NEW x \in Directory \cup {Absent}, NEW y \in Directory \cup {Absent},
         dir' = [dir EXCEPT ![s] = x], tomb' = [tomb EXCEPT ![s] = y],
         GCTypeOK', CollectorHolds', FoundPresent',
         UNCHANGED <<object, client, named, seen>>,
         gc.at \notin {"judge", "done"}, gc'.at # "judge",
         dir[s] # Absent => dir[s].lock \in {None, Collector} \/ x = dir[s],
         x # Absent => \A d \in x.refs : object[d] # "absent",
         y # Absent => \A d \in y.refs : object[d] # "absent"
  PROVE  IInv'
<1>1. LockedInPlace'
  <2> SUFFICES ASSUME NEW b \in Client, client'[b] # None, client'[b].at = "locked"
               PROVE  dir'[client'[b].on] # Absent /\ dir'[client'[b].on].lock = b
    BY DEF LockedInPlace
  <2>1. client[b].on \in Session
    BY DEF IInv, GCTypeOK, Command
  <2>2. dir[client[b].on] # Absent /\ dir[client[b].on].lock = b
    BY DEF IInv, LockedInPlace
  <2>3. b # None /\ b # Collector
    BY CollectorIsNoClient DEF CollectorIsNoClient
  <2>4. dir'[client[b].on] = dir[client[b].on]
    BY <2>1, <2>2, <2>3 DEF IInv, GCTypeOK
  <2> QED BY <2>2, <2>4
<1>2. ReferencedPresent'
  BY DEF IInv, GCTypeOK, ReferencedPresent
<1>3. SeenIsNamed'
  BY DEF IInv, SeenIsNamed
<1> QED BY <1>1, <1>2, <1>3 DEF IInv

\* The collector takes a free lock, or passes a session by.
LEMMA EnterInv ==
  ASSUME IInv, NEW s \in Session, Enter(s)
  PROVE  IInv'
<1>1. CASE dir[s].lock = None /\ dir' = [dir EXCEPT ![s].lock = Collector]
           /\ gc' = [gc EXCEPT !.on = s] /\ UNCHANGED failed
  <2> DEFINE x == [dir[s] EXCEPT !.lock = Collector]
  <2>1. /\ gc.at = "apply" /\ gc.on = None /\ Pending(s)
        /\ UNCHANGED <<tomb, object, client, commands, verdict, scanned, named, seen>>
    BY DEF Enter
  <2>2. dir[s] # Absent /\ dir[s] \in Directory
    BY <2>1 DEF IInv, GCTypeOK, FoundPresent, Pending
  <2>3. x \in Directory /\ x.lock = Collector /\ x.refs = dir[s].refs
    BY <2>2 DEF Directory
  <2>4. dir' = [dir EXCEPT ![s] = x]
    BY <1>1
  <2> HIDE DEF x
  <2>5. GCTypeOK'
    <3>1. dir' \in [Session -> Directory \cup {Absent}]
      BY <2>3, <2>4 DEF IInv, GCTypeOK
    <3>2. gc' = [gc EXCEPT !.on = s] /\ failed' = failed
      BY <1>1
    <3> QED BY <2>1, <3>1, <3>2 DEF IInv, GCTypeOK
  <2>6. x # Absent
    BY <2>3, AbsentIsNoDirectory DEF AbsentIsNoDirectory
  <2>7. CollectorHolds' /\ FoundPresent'
    BY <1>1, <2>1, <2>3, <2>4, <2>6 DEF IInv, GCTypeOK, CollectorHolds, FoundPresent
  <2>8. tomb' = [tomb EXCEPT ![s] = tomb[s]] /\ tomb[s] \in Directory \cup {Absent}
    BY <2>1 DEF IInv, GCTypeOK
  <2>9. /\ \A d \in x.refs : object[d] # "absent"
        /\ tomb[s] # Absent => \A d \in tomb[s].refs : object[d] # "absent"
    BY <2>1, <2>2, <2>3 DEF IInv, ReferencedPresent
  <2>10. gc.at \notin {"judge", "done"} /\ gc'.at # "judge"
    BY <1>1, <2>1 DEF IInv, GCTypeOK
  <2>11. dir[s].lock = None
    BY <1>1
  <2> QED BY <2>1, <2>3, <2>4, <2>5, <2>7, <2>8, <2>9, <2>10, <2>11, CollectorInv
<1>2. CASE failed' = failed \cup {s} /\ UNCHANGED <<dir, gc>>
  <2>1. UNCHANGED <<dir, tomb, object, client, commands, gc, verdict, scanned, named, seen>>
    BY <1>2 DEF Enter
  <2>2. GCTypeOK' /\ CollectorHolds' /\ FoundPresent'
    BY <1>2, <2>1 DEF IInv, GCTypeOK, CollectorHolds, FoundPresent
  <2>3. LockedInPlace' /\ ReferencedPresent' /\ SeenIsNamed'
    BY <2>1 DEF IInv, LockedInPlace, ReferencedPresent, SeenIsNamed
  <2> QED BY <2>2, <2>3 DEF IInv
<1> QED BY <1>1, <1>2 DEF Enter

\* The directory the collector moves is the one it holds.
LEMMA RenameInv ==
  ASSUME IInv, NEW s \in Session, Rename(s)
  PROVE  IInv'
<1>1. /\ gc.at = "apply" /\ gc.on = s
      /\ tomb' = [tomb EXCEPT ![s] = dir[s]] /\ dir' = [dir EXCEPT ![s] = Absent]
      /\ gc' = [gc EXCEPT !.at = "removing"]
      /\ UNCHANGED <<object, client, commands, verdict, failed, scanned, named, seen>>
  BY DEF Rename
<1>2. dir[s] \in Directory /\ dir[s] # Absent /\ dir[s].lock = Collector
  BY <1>1, NoneIsNoSession DEF IInv, GCTypeOK, CollectorHolds, NoneIsNoSession
<1>3. GCTypeOK'
  BY <1>1, <1>2 DEF IInv, GCTypeOK
<1>4. CollectorHolds' /\ FoundPresent'
  BY <1>1, <1>2, NoneIsNoSession DEF IInv, GCTypeOK, CollectorHolds, FoundPresent, NoneIsNoSession
<1>5. \A d \in dir[s].refs : object[d] # "absent"
  BY <1>1, <1>2 DEF IInv, ReferencedPresent
<1>6. gc.at \notin {"judge", "done"} /\ gc'.at # "judge"
  BY <1>1 DEF IInv, GCTypeOK
<1> QED BY <1>1, <1>2, <1>3, <1>4, <1>5, <1>6, CollectorInv

\* A rename that is refused leaves the directory in place and its lock free.
LEMMA RefuseInv ==
  ASSUME IInv, NEW s \in Session, Refuse(s)
  PROVE  IInv'
<1> DEFINE x == [dir[s] EXCEPT !.lock = None]
<1>1. /\ gc.at = "apply" /\ gc.on = s /\ dir' = [dir EXCEPT ![s] = x]
      /\ gc' = [gc EXCEPT !.on = None] /\ failed' = failed \cup {s}
      /\ UNCHANGED <<tomb, object, client, commands, verdict, scanned, named, seen>>
  BY DEF Refuse
<1>2. dir[s] \in Directory /\ dir[s] # Absent /\ dir[s].lock = Collector
  BY <1>1, NoneIsNoSession DEF IInv, GCTypeOK, CollectorHolds, NoneIsNoSession
<1>3. x \in Directory /\ x.refs = dir[s].refs
  BY <1>2 DEF Directory
<1> HIDE DEF x
<1>4. GCTypeOK'
  BY <1>1, <1>3 DEF IInv, GCTypeOK
<1>5. CollectorHolds' /\ FoundPresent'
  BY <1>1, <1>3 DEF IInv, GCTypeOK, CollectorHolds, FoundPresent
<1>6. tomb' = [tomb EXCEPT ![s] = tomb[s]] /\ tomb[s] \in Directory \cup {Absent}
  BY <1>1 DEF IInv, GCTypeOK
<1>7. /\ \A d \in x.refs : object[d] # "absent"
      /\ tomb[s] # Absent => \A d \in tomb[s].refs : object[d] # "absent"
  BY <1>1, <1>2, <1>3 DEF IInv, ReferencedPresent
<1>8. gc.at \notin {"judge", "done"} /\ gc'.at # "judge"
  BY <1>1 DEF IInv, GCTypeOK
<1> QED BY <1>1, <1>2, <1>3, <1>4, <1>5, <1>6, <1>7, <1>8, CollectorInv

\* A removed tombstone is of a session nobody holds.
LEMMA RemoveInv ==
  ASSUME IInv, NEW s \in Session, Remove(s)
  PROVE  IInv'
<1>1. /\ gc.at = "removing" /\ gc.on = s
      /\ tomb' = [tomb EXCEPT ![s] = Absent] /\ verdict' = [verdict EXCEPT ![s] = "deleted"]
      /\ gc' = [gc EXCEPT !.at = "apply", !.on = None]
      /\ UNCHANGED <<dir, object, client, commands, failed, scanned, named, seen>>
  BY DEF Remove
<1>2. GCTypeOK'
  BY <1>1 DEF IInv, GCTypeOK
<1>3. CollectorHolds' /\ FoundPresent'
  BY <1>1 DEF IInv, GCTypeOK, CollectorHolds, FoundPresent
<1>4. dir' = [dir EXCEPT ![s] = dir[s]] /\ dir[s] \in Directory \cup {Absent}
  BY <1>1 DEF IInv, GCTypeOK
<1>5. dir[s] # Absent => \A d \in dir[s].refs : object[d] # "absent"
  BY <1>1 DEF IInv, ReferencedPresent
<1>6. gc.at \notin {"judge", "done"} /\ gc'.at # "judge"
  BY <1>1 DEF IInv, GCTypeOK
<1> QED BY <1>1, <1>2, <1>3, <1>4, <1>5, <1>6, CollectorInv

\* What rmtree left.
LEMMA RemoveFailsInv ==
  ASSUME IInv, NEW s \in Session, RemoveFails(s)
  PROVE  IInv'
<1>1. PICK left \in SUBSET tomb[s].copies, named2 \in SUBSET tomb[s].refs,
           rest \in {"none", "evidence", tomb[s].state} :
        tomb' = [tomb EXCEPT ![s].copies = left, ![s].refs = named2,
                             ![s].state = rest, ![s].blind = @ /\ named2 # {}]
  BY DEF RemoveFails
<1>2. /\ gc.at = "removing" /\ gc.on = s /\ failed' = failed \cup {s}
      /\ gc' = [gc EXCEPT !.at = "removed"]
      /\ UNCHANGED <<dir, object, client, commands, verdict, scanned, named, seen>>
  BY DEF RemoveFails
<1> DEFINE y == [tomb[s] EXCEPT !.copies = left, !.refs = named2, !.state = rest,
                                !.blind = @ /\ named2 # {}]
<1>3. tomb[s] \in Directory /\ tomb[s] # Absent
  BY <1>2 DEF IInv, GCTypeOK, CollectorHolds
<1>4. y \in Directory /\ y.refs \subseteq tomb[s].refs
  BY <1>3 DEF Directory
<1>5. tomb' = [tomb EXCEPT ![s] = y]
  BY <1>1 DEF IInv, GCTypeOK
<1> HIDE DEF y
<1>6. GCTypeOK'
  BY <1>2, <1>4, <1>5 DEF IInv, GCTypeOK
<1>7. CollectorHolds' /\ FoundPresent'
  <2>1. y # Absent
    BY <1>4, AbsentIsNoDirectory DEF AbsentIsNoDirectory
  <2> QED BY <1>2, <1>5, <2>1, NoneIsNoSession
      DEF NoneIsNoSession, IInv, GCTypeOK, CollectorHolds, FoundPresent
<1>8. dir' = [dir EXCEPT ![s] = dir[s]] /\ dir[s] \in Directory \cup {Absent}
  BY <1>2 DEF IInv, GCTypeOK
<1>9. /\ dir[s] # Absent => \A d \in dir[s].refs : object[d] # "absent"
      /\ \A d \in y.refs : object[d] # "absent"
  BY <1>2, <1>3, <1>4 DEF IInv, ReferencedPresent
<1>10. gc.at \notin {"judge", "done"} /\ gc'.at # "judge"
  BY <1>2 DEF IInv, GCTypeOK
<1> QED BY <1>2, <1>4, <1>5, <1>6, <1>7, <1>8, <1>9, <1>10, CollectorInv

\* A tombstone goes back when no used directory is in its place, or stays where it is.
LEMMA RestoreInv ==
  ASSUME IInv, NEW s \in Session, Restore(s)
  PROVE  IInv'
<1>1. /\ gc.at = "restore" /\ gc.on = s /\ gc' = [gc EXCEPT !.at = "apply", !.on = None]
      /\ UNCHANGED <<object, client, commands, verdict, failed, scanned, named, seen>>
  BY DEF Restore
<1>2. /\ dir[s] # Absent => \A d \in dir[s].refs : object[d] # "absent"
      /\ tomb[s] # Absent => \A d \in tomb[s].refs : object[d] # "absent"
      /\ gc.at \notin {"judge", "done"} /\ gc'.at # "judge"
  BY <1>1 DEF IInv, GCTypeOK, ReferencedPresent
<1>3. dir[s] \in Directory \cup {Absent} /\ tomb[s] \in Directory \cup {Absent}
  BY DEF IInv, GCTypeOK
<1>4. CASE dir[s] \in {Absent, Bare} /\ dir' = [dir EXCEPT ![s] = tomb[s]]
           /\ tomb' = [tomb EXCEPT ![s] = Absent]
  <2>1. GCTypeOK'
    BY <1>1, <1>3, <1>4 DEF IInv, GCTypeOK
  <2>2. CollectorHolds' /\ FoundPresent'
    BY <1>1, <1>3, <1>4 DEF IInv, GCTypeOK, CollectorHolds, FoundPresent
  <2>3. dir[s] # Absent => dir[s].lock = None
    BY <1>4 DEF Bare
  <2> QED BY <1>1, <1>2, <1>3, <1>4, <2>1, <2>2, <2>3, CollectorInv
<1>5. CASE UNCHANGED <<dir, tomb>>
  <2>1. dir' = [dir EXCEPT ![s] = dir[s]] /\ tomb' = [tomb EXCEPT ![s] = tomb[s]]
    BY <1>5 DEF IInv, GCTypeOK
  <2>2. GCTypeOK'
    BY <1>1, <1>5 DEF IInv, GCTypeOK
  <2>3. CollectorHolds' /\ FoundPresent'
    BY <1>1, <1>5 DEF IInv, GCTypeOK, CollectorHolds, FoundPresent
  <2> QED BY <1>1, <1>2, <1>3, <2>1, <2>2, <2>3, CollectorInv
<1> QED BY <1>4, <1>5 DEF Restore
-----------------------------------------------------------------------------
\* The objects.
LEMMA ScanInv ==
  ASSUME IInv, NEW s \in Session, Scan(s)
  PROVE  IInv'
<1>1. /\ gc.at = "scan" /\ scanned' = scanned \cup {s}
      /\ UNCHANGED <<dir, tomb, object, client, commands, gc, verdict, failed>>
  BY DEF Scan
<1>2. CollectorHolds' /\ FoundPresent' /\ LockedInPlace' /\ ReferencedPresent'
  BY <1>1 DEF IInv, CollectorHolds, FoundPresent, LockedInPlace, ReferencedPresent
<1>3. CASE Retained(s)
  <2>1. named' = named \cup MayName(dir[s]) /\ seen' = seen \cup ({s} \X dir[s].refs)
    BY <1>3 DEF Scan
  <2>2. dir[s] \in Directory /\ dir[s] # Absent
    BY <1>3 DEF Retained, IInv, GCTypeOK
  <2>3. /\ dir[s].refs \in SUBSET Digest /\ MayName(dir[s]) \in SUBSET Digest
        /\ dir[s].refs \subseteq MayName(dir[s])
    BY <2>2 DEF Directory, MayName
  <2>4. \A d \in dir[s].refs : object[d] # "absent"
    BY <1>1, <2>2 DEF IInv, ReferencedPresent
  <2>5. GCTypeOK'
    BY <1>1, <2>1, <2>3 DEF IInv, GCTypeOK
  <2>6. SeenIsNamed'
    BY <1>1, <2>1, <2>3, <2>4 DEF IInv, SeenIsNamed
  <2> QED BY <1>2, <2>5, <2>6 DEF IInv
<1>4. CASE UNCHANGED <<named, seen>>
  BY <1>1, <1>2, <1>4 DEF IInv, GCTypeOK, SeenIsNamed
<1> QED BY <1>3, <1>4 DEF Scan

\* The doomed objects are those no receipt the scan saw names.
LEMMA JudgeInv ==
  ASSUME IInv, Judge
  PROVE  IInv'
<1> DEFINE D == {d \in Digest : Unreferenced(d)}
<1>1. /\ gc.at = "scan" /\ gc' = [gc EXCEPT !.at = "judge", !.doomed = D]
      /\ UNCHANGED <<dir, tomb, object, client, commands, verdict, failed, scanned, named, seen>>
  BY DEF Judge
<1>2. D \in SUBSET Digest /\ D \cap named = {}
  BY DEF Unreferenced
<1> HIDE DEF D
<1>3. GCTypeOK' /\ gc'.at = "judge" /\ gc'.doomed = D
  BY <1>1, <1>2 DEF IInv, GCTypeOK
<1>4. CollectorHolds' /\ FoundPresent' /\ LockedInPlace' /\ ReferencedPresent' /\ SeenIsNamed'
  BY <1>1, <1>2, <1>3
  DEF IInv, CollectorHolds, FoundPresent, LockedInPlace, ReferencedPresent, SeenIsNamed
<1> QED BY <1>3, <1>4 DEF IInv

\* Unlinking takes a doomed object, which no seen receipt names.
LEMMA UnlinkInv ==
  ASSUME IInv, NEW d \in Digest, Unlink(d)
  PROVE  IInv'
<1>1. /\ gc.at = "judge" /\ d \in gc.doomed
      /\ object' = [object EXCEPT ![d] = "absent"] /\ gc' = [gc EXCEPT !.doomed = @ \ {d}]
      /\ UNCHANGED <<dir, tomb, client, commands, verdict, failed, scanned, named, seen>>
  BY DEF Unlink
<1>2. GCTypeOK' /\ gc'.at = "judge" /\ gc'.doomed \subseteq gc.doomed
  BY <1>1 DEF IInv, GCTypeOK
<1>3. d \notin named
  BY <1>1 DEF IInv, SeenIsNamed
<1>4. SeenIsNamed'
  BY <1>1, <1>2, <1>3 DEF IInv, GCTypeOK, SeenIsNamed
<1>5. CollectorHolds' /\ FoundPresent' /\ LockedInPlace' /\ ReferencedPresent'
  BY <1>1, <1>2 DEF IInv, CollectorHolds, FoundPresent, LockedInPlace, ReferencedPresent
<1> QED BY <1>2, <1>4, <1>5 DEF IInv

\* The last step only frees locks.
LEMMA EndInv ==
  ASSUME IInv, End
  PROVE  IInv'
<1>1. /\ gc' = [gc EXCEPT !.at = "done"]
      /\ UNCHANGED <<tomb, object, client, commands, verdict, failed, scanned, named, seen>>
  BY DEF End
<1>2. ASSUME NEW s \in Session
      PROVE  /\ dir'[s] \in Directory \cup {Absent}
             /\ dir'[s] = Absent <=> dir[s] = Absent
             /\ dir[s] # Absent /\ dir[s].lock # Collector => dir'[s] = dir[s]
  <2>1. dir'[s] = IF dir[s] # Absent /\ dir[s].lock = Collector
                  THEN [dir[s] EXCEPT !.lock = None] ELSE dir[s]
    BY DEF End
  <2>2. CASE dir[s] # Absent /\ dir[s].lock = Collector
    <3> DEFINE x == [dir[s] EXCEPT !.lock = None]
    <3>1. dir'[s] = x /\ dir[s] \in Directory
      BY <2>1, <2>2 DEF IInv, GCTypeOK
    <3>2. x \in Directory
      BY <3>1 DEF Directory
    <3> QED BY <2>2, <3>1, <3>2, AbsentIsNoDirectory DEF AbsentIsNoDirectory
  <2>3. CASE ~(dir[s] # Absent /\ dir[s].lock = Collector)
    BY <2>1, <2>3 DEF IInv, GCTypeOK
  <2> QED BY <2>2, <2>3
<1>3. dir' \in [Session -> Directory \cup {Absent}]
  BY <1>2 DEF End
<1>4. GCTypeOK' /\ gc'.at = "done"
  BY <1>1, <1>3 DEF IInv, GCTypeOK
<1>5. CollectorHolds' /\ ReferencedPresent' /\ SeenIsNamed'
  BY <1>1, <1>4 DEF IInv, CollectorHolds, ReferencedPresent, SeenIsNamed
<1>6. FoundPresent'
  <2>1. gc'.on = gc.on
    BY <1>1 DEF IInv, GCTypeOK
  <2> QED BY <1>1, <1>2, <1>4, <2>1 DEF IInv, FoundPresent
<1>7. LockedInPlace'
  <2> SUFFICES ASSUME NEW b \in Client, client[b] # None, client[b].at = "locked"
               PROVE  dir'[client[b].on] # Absent /\ dir'[client[b].on].lock = b
    BY <1>1 DEF LockedInPlace
  <2>1. client[b].on \in Session /\ b # Collector
    BY CollectorIsNoClient DEF IInv, GCTypeOK, Command, CollectorIsNoClient
  <2>2. dir[client[b].on] # Absent /\ dir[client[b].on].lock = b
    BY DEF IInv, LockedInPlace
  <2> QED BY <1>2, <2>1, <2>2
<1> QED BY <1>4, <1>5, <1>6, <1>7 DEF IInv

\* Every step keeps the invariant.
LEMMA NextInv == IInv /\ [Next]_vars => IInv'
<1> SUFFICES ASSUME IInv, [Next]_vars PROVE IInv'
  OBVIOUS
<1>1. CASE UNCHANGED vars
  BY <1>1 DEF IInv, GCTypeOK, CollectorHolds, FoundPresent, LockedInPlace, ReferencedPresent,
              SeenIsNamed, vars, gcVars
<1>2. CASE \E c \in Client : ClientStep(c)
  BY <1>2, ClientStepInv
<1>3. CASE Collect
  <2>1. CASE Retain \/ StartScan \/ (\E s \in Session : Inspect(s) \/ LookBack(s))
    BY <2>1, LookInv
  <2>2. CASE Judge \/ End \/ \E d \in Digest : Unlink(d)
    BY <2>2, JudgeInv, EndInv, UnlinkInv
  <2>3. CASE \E s \in Session : \/ Enter(s) \/ Rename(s) \/ Refuse(s) \/ Remove(s)
                                 \/ RemoveFails(s) \/ Restore(s) \/ Scan(s)
    BY <2>3, EnterInv, RenameInv, RefuseInv, RemoveInv, RemoveFailsInv, RestoreInv, ScanInv
  <2> QED BY <1>3, <2>1, <2>2, <2>3 DEF Collect
<1> QED BY <1>1, <1>2, <1>3 DEF Next

\* The inductive invariant holds in every state of every behaviour.
THEOREM Invariance == Spec => []IInv
BY InitInv, NextInv, PTL DEF Spec

\* The variables keep their types.
THEOREM TypeCorrect == Spec => []GCTypeOK
<1>1. IInv => GCTypeOK
  BY DEF IInv
<1> QED BY <1>1, Invariance, PTL

\* A command that holds the lock of its session is alone in the directory at its path.
THEOREM HoldersStayInPlace == Spec => []LockedInPlace
<1>1. IInv => LockedInPlace
  BY DEF IInv
<1> QED BY <1>1, Invariance, PTL

\* Objects that a scanned receipt names are not collected.
THEOREM ScannedKeepObjects == Spec => []ScannedReceiptsKeepObjects
<1>1. IInv => ScannedReceiptsKeepObjects
  <2> SUFFICES ASSUME IInv, NEW s \in Session, dir[s] # Absent,
                      NEW d \in dir[s].refs, <<s, d>> \in seen
               PROVE  object[d] # "absent"
    BY DEF ScannedReceiptsKeepObjects
  <2>1. d \in Digest
    BY DEF IInv, GCTypeOK, Directory
  <2> QED BY <2>1 DEF IInv, SeenIsNamed
<1> QED BY <1>1, Invariance, PTL
-----------------------------------------------------------------------------
\* An active session stays at its path, whoever takes the next step.
Kept == \A s \in Session : dir[s] # Absent /\ dir[s].state = "active" =>
          dir'[s] # Absent /\ dir'[s].state \in {"active", "complete"}

\* A step of an invariant state keeps the active sessions.
LEMMA StepKeeps == IInv /\ [Next]_vars => [Kept]_vars
<1> SUFFICES ASSUME IInv, Next, NEW s \in Session, dir[s] # Absent, dir[s].state = "active"
             PROVE  dir'[s] # Absent /\ dir'[s].state \in {"active", "complete"}
  BY DEF Kept
<1> DEFINE Keeps == dir'[s] # Absent /\ dir'[s].state \in {"active", "complete"}
<1>1. dir \in [Session -> Directory \cup {Absent}] /\ dir[s] \in Directory
  BY DEF IInv, GCTypeOK
<1>2. ASSUME NEW x \in Directory, dir'[s] = x, x.state \in {"active", "complete"} PROVE Keeps
  BY <1>2, AbsentIsNoDirectory DEF AbsentIsNoDirectory
<1>3. CASE \E c \in Client : ClientStep(c)
  <2> PICK c \in Client : ClientStep(c)
    BY <1>3
  <2>1. client[c] = None \/ client[c].on \in Session
    BY DEF IInv, GCTypeOK, Command
  <2>2. CASE Open(c)
    <3>1. dir'[s] = dir[s]
      BY <1>1, <2>2 DEF Open
    <3> QED BY <3>1
  <2>3. CASE CannotLock(c) \/ StoreObject(c)
    BY <2>3 DEF CannotLock, StoreObject
  <2>4. CASE Lock(c)
    <3>1. /\ client[c].on \in Session
          /\ dir' = [dir EXCEPT ![client[c].on].lock = c,
                                ![client[c].on].mtime = IF @ = "old" THEN "touched" ELSE @]
      BY <2>1, <2>4 DEF Lock
    <3> DEFINE x == [dir[s] EXCEPT !.lock = c, !.mtime = IF @ = "old" THEN "touched" ELSE @]
    <3>2. dir'[s] = dir[s] \/ dir'[s] = x
      BY <1>1, <3>1
    <3>3. x \in Directory /\ x.state = "active"
      BY <1>1 DEF Directory
    <3> HIDE DEF x
    <3> QED BY <1>1, <1>2, <3>2, <3>3
  <2>5. CASE Body(c)
    <3> DEFINE usable == dir[s].state \in {"active", "complete"}
               op == client[c].op
               status == IF op = (IF usable THEN "reopen" ELSE "init") THEN "active"
                         ELSE IF op = "complete" /\ dir[s].state = "active" THEN "complete"
                         ELSE dir[s].state
               x == [dir[s] EXCEPT !.state = status, !.lock = None,
                                   !.mtime = IF status = dir[s].state THEN @
                                             ELSE IF status = "complete" THEN "completed"
                                             ELSE "touched"]
    <3>1. client[c].on = s => dir'[s] = x
      BY <1>1, <2>5 DEF Body
    <3>2. client[c].on # s => dir'[s] = dir[s]
      BY <1>1, <2>5 DEF Body
    <3>3. x \in Directory /\ x.state \in {"active", "complete"}
      BY <1>1 DEF Directory
    <3> HIDE DEF x
    <3> QED BY <1>1, <1>2, <3>1, <3>2, <3>3
  <2>6. CASE LinkCopy(c) \/ WriteReceipt(c)
    <3> DEFINE here == WithEvidence(dir[s])
               x == [here EXCEPT !.copies = @ \cup {client[c].digest}]
               y == [here EXCEPT !.refs = @ \cup {client[c].digest}]
    <3>1. here = dir[s]
      BY DEF WithEvidence
    <3>2. dir'[s] \in {dir[s], x, y}
      BY <1>1, <2>6, <3>1 DEF LinkCopy, WriteReceipt
    <3>3. client[c].digest \in Digest
      BY <2>6 DEF LinkCopy, WriteReceipt, IInv, GCTypeOK, Command
    <3>4. x \in Directory /\ y \in Directory /\ x.state = "active" /\ y.state = "active"
      BY <1>1, <3>1, <3>3 DEF Directory
    <3> HIDE DEF x, y
    <3> QED BY <1>1, <1>2, <3>2, <3>4
  <2>7. CASE Die(c)
    <3> DEFINE x == [dir[s] EXCEPT !.lock = None]
    <3>1. dir'[s] \in {dir[s], x}
      BY <2>7 DEF Die
    <3>2. x \in Directory /\ x.state = "active"
      BY <1>1 DEF Directory
    <3> HIDE DEF x
    <3> QED BY <1>1, <1>2, <3>1, <3>2
  <2> QED BY <2>2, <2>3, <2>4, <2>5, <2>6, <2>7 DEF ClientStep
<1>4. CASE Collect
  <2>1. CASE dir' = dir
    BY <2>1
  <2>2. CASE \E t \in Session : Enter(t) \/ Refuse(t)
    <3> PICK t \in Session : Enter(t) \/ Refuse(t)
      BY <2>2
    <3> DEFINE x == [dir[s] EXCEPT !.lock = Collector]
               y == [dir[s] EXCEPT !.lock = None]
    <3>1. dir'[s] \in {dir[s], x, y}
      BY <1>1 DEF Enter, Refuse
    <3>2. x \in Directory /\ y \in Directory /\ x.state = "active" /\ y.state = "active"
      BY <1>1 DEF Directory
    <3> HIDE DEF x, y
    <3> QED BY <1>1, <1>2, <3>1, <3>2
  <2>3. CASE \E t \in Session : Rename(t)
    <3> PICK t \in Session : Rename(t)
      BY <2>3
    <3>1. t # s
      BY DEF Rename, StillDoomed, HasState
    <3> QED BY <1>1, <3>1 DEF Rename
  <2>4. CASE \E t \in Session : Restore(t)
    <3> PICK t \in Session : Restore(t)
      BY <2>4
    <3>1. CASE dir[t] \in {Absent, Bare} /\ dir' = [dir EXCEPT ![t] = tomb[t]]
      <4>1. t # s
        BY <3>1 DEF Bare
      <4> QED BY <1>1, <3>1, <4>1
    <3>2. CASE dir' = dir
      BY <3>2
    <3> QED BY <3>1, <3>2 DEF Restore
  <2>5. CASE End
    <3> DEFINE x == [dir[s] EXCEPT !.lock = None]
    <3>1. dir'[s] \in {dir[s], x}
      BY <2>5 DEF End
    <3>2. x \in Directory /\ x.state = "active"
      BY <1>1 DEF Directory
    <3> HIDE DEF x
    <3> QED BY <1>1, <1>2, <3>1, <3>2
  <2>6. \/ dir' = dir
        \/ End
        \/ \E t \in Session : Enter(t) \/ Refuse(t) \/ Rename(t) \/ Restore(t)
    BY <1>4 DEF Collect, Retain, StartScan, Judge, Inspect, Remove, RemoveFails, LookBack, Scan,
                Unlink
  <2> QED BY <2>1, <2>2, <2>3, <2>4, <2>5, <2>6
<1> QED BY <1>3, <1>4 DEF Next

\* A decision that the collector took without the lock never makes an active session
\* disappear.
THEOREM ActiveSessionsAreKept == Spec => ActiveKept
<1>1. Spec => [][Kept]_vars
  BY Invariance, StepKeeps, PTL DEF Spec
<1> QED BY <1>1 DEF ActiveKept, Kept

-----------------------------------------------------------------------------
(* Theorems about Evidence, for any documents, receipts, workers and time   *)
(* to live. What a result was derived from is followed through its files:   *)
(* each is what its writer made of the records it had read.                 *)

Resting == {"idle", "done", "failed"}
Reading == {"ran", "listing", "copying", "polling", "comparing"}
Recording == {"loaded", "receipt", "artifacts", "seal"}

ANorm == [at : Resting \cup Reading, read : Document \cup {None}, exit0 : BOOLEAN, run : Nat, runs : Nat]
ARec == [at : Recording \cup {"idle"}, payload : Receipts \cup {None}, copied : Receipts \cup {None},
         listed : Document \cup {None}]
ACrit == [status : {"pending", "in_progress", "claimed", "verified", "complete", "failed"},
          attempt : Nat, at : Nat \cup {None}]
ASeal == [payload : Receipts, copied : Receipts, listed : Document \cup {None},
          raced : SUBSET {"norm", "rec"}]

EvidenceTyped ==
  /\ kind \in Kind /\ now \in Nat /\ docs \in Nat
  /\ record \in Document \cup {None} /\ shown \in Document \cup {None}
  /\ receipt \in Receipts \cup {None} /\ cache \in Receipts \cup {None}
  /\ remote \in Seq({"running", "completed", "failed"})
  /\ norm \in ANorm /\ rec \in ARec /\ crit \in ACrit
  /\ seal \in ASeal \cup {None}
  /\ raced \in SUBSET {"norm", "rec"}

\* A normalizer at work has no receipt yet, and the record command works on one.
TurnsAreTaken ==
  /\ norm.at \in Reading => receipt = None /\ rec.at = "idle" /\ kind \notin {"context", "artifact"}
  /\ rec.at \in Recording => receipt # None

\* What the normalizer has read is what its receipt will list, unless a file was
\* rewritten in its window; the run it names is a remote one, which has ended as read.
ReadingIsOfListed ==
  /\ kind = "browser" /\ norm.at = "listing" /\ "norm" \notin raced => record = norm.read
  /\ kind = "desktop" /\ norm.at = "copying" /\ "norm" \notin raced =>
       Facts(record) = DesktopFacts
  /\ kind = "desktop" /\ norm.at = "listing" /\ "norm" \notin raced =>
       Facts(shown) = DesktopFacts
  /\ kind = "navigation" /\ norm.at = "listing" /\ "norm" \notin raced => shown = norm.read
  /\ kind = "communication" /\ norm.at = "listing" => record # None /\ norm.read # None
  /\ norm.at = "polling" => remote # <<>>
  /\ kind = "navigation" /\ norm.run # 0 =>
       /\ norm.run \in DOMAIN remote
       /\ "completed" \in Facts(norm.read) => remote[norm.run] = "completed"

\* The artifacts a receipt lists show what it claims, outside of the races it is exposed to.
ListsShow(k, r, races) ==
  k \in Manifest /\ races \cap Exposed(k) = {} /\ Asked(k) \subseteq r.facts =>
    Demonstrated(k) \subseteq Facts(r.lists)

\* A looked-up context does not outlive its time, and a run in a receipt completed.
LookupIsDated(k, r) == k = "context" => r.expires <= r.retrieved + Ttl
RunIsReal(k, runs, r) ==
  k = "navigation" /\ r.run # 0 /\ "completed" \in r.facts =>
    r.run \in DOMAIN runs /\ runs[r.run] = "completed"

Earned(k, runs, r, races) == ListsShow(k, r, races) /\ LookupIsDated(k, r) /\ RunIsReal(k, runs, r)

ReceiptsAreEarned ==
  /\ receipt # None => Earned(kind, remote, receipt, raced)
  /\ cache # None => LookupIsDated(kind, cache)
  /\ rec.at \in Recording =>
       /\ rec.payload \in Receipts /\ Asked(kind) \subseteq rec.payload.facts
       /\ Earned(kind, remote, rec.payload, raced)

\* What the record command has checked and copied is what is there, until a file is
\* rewritten in its window.
CopiesAreOfLoaded ==
  /\ receipt # None /\ kind = "communication" => record # None
  /\ rec.at \in {"loaded", "receipt"} /\ "rec" \notin raced => receipt = rec.payload
  /\ rec.at \in {"artifacts", "seal"} =>
       rec.copied \in Receipts /\ ("rec" \notin raced => rec.copied = rec.payload)
  /\ rec.at \in {"loaded", "receipt", "artifacts"} /\ "rec" \notin raced
       /\ kind = "communication" => record # None /\ record.id = rec.payload.usage
  /\ rec.at = "seal" =>
       /\ kind \in Manifest => rec.listed = rec.payload.lists
       /\ kind = "communication" /\ "rec" \notin raced => rec.listed.id = rec.payload.usage

SealIsEarned ==
  Sealed =>
    /\ seal \in ASeal /\ Earned(kind, remote, seal.payload, seal.raced)
    /\ CopiesShowTheClaim

EvidenceIInv == EvidenceTyped /\ TurnsAreTaken /\ ReadingIsOfListed /\ ReceiptsAreEarned
                /\ CopiesAreOfLoaded /\ SealIsEarned /\ ContextWasFresh
-----------------------------------------------------------------------------
(* Facts about the operators.                                              *)

\* What the provider may leave is a document, which shows its facts.
LEMMA DocumentsTyped ==
  ASSUME docs \in Nat
  PROVE  /\ \A k : Docs(k) \subseteq Document
         /\ \A f \in SUBSET Fact : Doc(f) \in Document /\ Facts(Doc(f)) = f
<1>1. ASSUME NEW f \in SUBSET Fact
      PROVE  Doc(f) \in Document /\ Facts(Doc(f)) = f
  BY EvidenceConstants DEF Doc, Document, Facts
<1>2. \A k : Demonstrated(k) \subseteq Fact
  BY DEF Demonstrated, Fact, BrowserAsked, DesktopAsked, NavigationAsked, DesignAsked
<1>3. \A k : Docs(k) \subseteq Document
  BY <1>1, <1>2 DEF Docs
<1>. QED BY <1>1, <1>3

\* The facts of a document are facts.
LEMMA FactsTyped ==
  ASSUME NEW d \in Document \cup {None}
  PROVE  Facts(d) \in SUBSET Fact
BY DEF Facts, Document

\* A receipt has the facts it is made of.
LEMMA ReceiptTyped ==
  ASSUME NEW f \in SUBSET Fact, NEW l \in Document \cup {None}
  PROVE  /\ Receipt(f, l) \in Receipts
         /\ \A n \in Nat : [Receipt(f, l) EXCEPT !.usage = n] \in Receipts
         /\ \A n \in Nat : [Receipt(f, l) EXCEPT !.run = n] \in Receipts
         /\ \A n, m, e \in Nat :
              [Receipt(f, l) EXCEPT !.id = n, !.retrieved = m, !.expires = e] \in Receipts
BY DEF Receipt, Receipts

\* A normalizer that begins is idle but for its step.
LEMMA IdleTyped ==
  ASSUME NEW s \in Resting \cup Reading, NEW n \in Nat
  PROVE  /\ [Idle EXCEPT !.at = s, !.runs = n] \in ANorm
         /\ \A b \in BOOLEAN : [Idle EXCEPT !.at = s, !.exit0 = b, !.runs = n] \in ANorm
         /\ \A d \in Document \cup {None} : [Idle EXCEPT !.at = s, !.read = d, !.runs = n] \in ANorm
BY DEF Idle, ANorm, Resting, Reading

\* A file that is there is rewritten, and stays; a receipt loses what it claims.
LEMMA RewriteReplaces ==
  ASSUME EvidenceTyped, Rewrite
  PROVE  /\ record' \in Document \cup {None} /\ shown' \in Document \cup {None}
         /\ record' = None <=> record = None
         /\ receipt = None => receipt' = None
         /\ receipt # None =>
              /\ receipt' \in Receipts /\ receipt'.lists = receipt.lists
              /\ receipt'.run = receipt.run /\ receipt'.retrieved = receipt.retrieved
              /\ receipt'.expires = receipt.expires
              /\ receipt' = receipt \/ receipt'.facts = {}
         /\ record' = record \/ raced' = raced \cup Windows
<1>1. Docs(kind) \subseteq Document /\ None \notin Document
  BY DocumentsTyped, EvidenceConstants DEF EvidenceTyped
<1>2. ASSUME receipt # None PROVE [receipt EXCEPT !.id = docs + 1, !.facts = {}] \in Receipts
  <2>1. receipt \in Receipts /\ docs + 1 \in Nat
    BY <1>2 DEF EvidenceTyped
  <2>. QED BY <2>1 DEF Receipts
<1>. QED BY <1>1, <1>2 DEF Rewrite, EvidenceTyped, Receipts

\* A finished receipt is a new version of what it was made of.
LEMMA FinishTyped ==
  ASSUME NEW r \in Receipts, Finish(r), docs \in Nat
  PROVE  /\ receipt' \in Receipts /\ docs' \in Nat
         /\ receipt'.facts = r.facts /\ receipt'.lists = r.lists /\ receipt'.usage = r.usage
         /\ receipt'.run = r.run /\ receipt'.retrieved = r.retrieved
         /\ receipt'.expires = r.expires
BY DEF Finish, Receipts

\* What holds of a receipt goes on to hold while remote runs go on and more is raced.
Later(runs, after) ==
  \A i \in DOMAIN runs : i \in DOMAIN after /\ (runs[i] = "completed" => after[i] = "completed")

\* An earned receipt stays earned as more tests run and more races happen.
LEMMA EarnedStays ==
  ASSUME NEW k, NEW runs, NEW after, NEW r, NEW races, NEW more,
         Earned(k, runs, r, races), Later(runs, after), "norm" \in races => "norm" \in more
  PROVE  Earned(k, after, r, more)
<1>1. ListsShow(k, r, more)
  BY DEF Earned, ListsShow, Exposed, Manifest
<1>2. RunIsReal(k, after, r)
  BY DEF Earned, RunIsReal, Later
<1>. QED BY <1>1, <1>2 DEF Earned
-----------------------------------------------------------------------------
(* Each part of the invariant is kept by every step.                       *)

\* Types are kept.
LEMMA EvidenceTypes ==
  ASSUME EvidenceTyped, ReadingIsOfListed, ReceiptsAreEarned, CopiesAreOfLoaded, [EvidenceNext]_evidenceVars
  PROVE  EvidenceTyped'
<1> USE EvidenceConstants DEF Resting, Reading, Recording, EvidenceTyped
<1>1. CASE Provide
  <2>1. record' \in Document
    BY DocumentsTyped, <1>1 DEF Provide, WorldKept, RecorderKept
  <2>. QED BY <1>1, <2>1 DEF Provide, WorldKept, RecorderKept
<1>2. CASE RunTests
  <2>1. norm.runs + 1 \in Nat
    BY <1>2 DEF RunTests, WorldKept, RecorderKept, ANorm
  <2>2. norm' \in ANorm
    <3>1. PICK passes \in BOOLEAN :
                 norm' = [Idle EXCEPT !.at = "ran", !.exit0 = passes, !.runs = norm.runs + 1]
      BY <1>2 DEF RunTests
    <3>2. [Idle EXCEPT !.at = "ran", !.exit0 = passes, !.runs = norm.runs + 1] \in ANorm
      BY <2>1, IdleTyped
    <3>. QED BY <3>1, <3>2
  <2>3. record' \in Document \cup {None}
    BY DocumentsTyped, <1>2 DEF RunTests, WorldKept, RecorderKept
  <2>. QED BY <1>2, <2>1, <2>2, <2>3 DEF RunTests, WorldKept, RecorderKept
<1>3. CASE NormalizeReport
  <2>1. norm' \in ANorm
    BY <1>3 DEF NormalizeReport, WorldKept, RecorderKept, ANorm
  <2>. QED BY <1>3, <2>1 DEF NormalizeReport, WorldKept, RecorderKept
<1>4. CASE BrowserReceipt
  <2>1. ReportedFacts \cup {"passed"} \in SUBSET Fact /\ ReportedFacts \in SUBSET Fact /\ ListedNow \in Document \cup {None}
    BY FactsTyped DEF ListedNow, ReportedFacts, Fact, BrowserAsked, ANorm
  <2>2. PICK r \in Receipts : Finish(r)
    BY <1>4, <2>1, ReceiptTyped DEF BrowserReceipt
  <2>3. receipt' \in Receipts /\ docs' \in Nat
    BY <2>2, FinishTyped
  <2>4. norm' \in ANorm
    BY <2>2 DEF Finish, Proceed, ANorm
  <2>. QED BY <2>2, <2>3, <2>4 DEF Finish, Proceed, WorldKept, RecorderKept
<1>5. CASE ValidateTranscript
  <2>1. norm.runs + 1 \in Nat
    BY <1>5 DEF ValidateTranscript, WorldKept, RecorderKept, StartNormalizer, Proceed, ANorm
  <2>2. norm' \in ANorm
    BY <2>1, IdleTyped, <1>5 DEF ValidateTranscript, WorldKept, RecorderKept,
       StartNormalizer, Proceed
  <2>. QED BY <1>5, <2>1, <2>2 DEF ValidateTranscript, WorldKept, RecorderKept,
       StartNormalizer, Proceed
<1>6. CASE CopyTranscript
  <2>1. norm' \in ANorm
    BY <1>6 DEF CopyTranscript, WorldKept, RecorderKept, Proceed, ANorm
  <2>. QED BY <1>6, <2>1 DEF CopyTranscript, WorldKept, RecorderKept, Proceed
<1>7. CASE DesktopReceipt
  <2>1. DesktopFacts \in SUBSET Fact /\ ListedNow \in Document \cup {None}
    BY FactsTyped DEF ListedNow, Fact, DesktopAsked
  <2>2. PICK r \in Receipts : Finish(r)
    BY <1>7, <2>1, ReceiptTyped DEF DesktopReceipt
  <2>3. receipt' \in Receipts /\ docs' \in Nat
    BY <2>2, FinishTyped
  <2>4. norm' \in ANorm
    BY <2>2 DEF Finish, Proceed, ANorm
  <2>. QED BY <2>2, <2>3, <2>4 DEF Finish, Proceed, WorldKept, RecorderKept
<1>8. CASE CreateRun
  <2>1. norm.runs + 1 \in Nat
    BY <1>8 DEF CreateRun, RecorderKept, StartNormalizer, Proceed, ANorm
  <2>2. norm' \in ANorm
    BY <2>1, IdleTyped, <1>8 DEF CreateRun, RecorderKept, StartNormalizer, Proceed
  <2>3. remote' \in Seq({"running", "completed", "failed"})
    BY <1>8 DEF CreateRun, RecorderKept, StartNormalizer, Proceed
  <2>. QED BY <1>8, <2>1, <2>2, <2>3 DEF CreateRun, RecorderKept, StartNormalizer, Proceed
<1>9. CASE RemoteRunEnds
  BY <1>9 DEF RemoteRunEnds, RecorderKept
<1>10. CASE PollRun
  <2> DEFINE doc == Doc(StatusFacts(remote[Len(remote)]))
  <2>1. doc \in Document
    BY DocumentsTyped DEF StatusFacts, Fact, NavigationAsked, NavigationFacts
  <2>2. norm' = [norm EXCEPT !.at = "listing", !.read = doc, !.run = Len(remote)]
        /\ shown' = doc /\ Len(remote) \in Nat
    BY <1>10 DEF PollRun
  <2> HIDE DEF doc
  <2>3. norm' \in ANorm /\ shown' \in Document
    BY <2>1, <2>2 DEF ANorm
  <2>. QED BY <1>10, <2>3 DEF PollRun, WorldKept, RecorderKept
<1>11. CASE Ingest
  <2>1. norm.runs + 1 \in Nat
    BY <1>11 DEF Ingest, WorldKept, RecorderKept, ANorm
  <2>2. norm' \in ANorm
    BY <2>1, IdleTyped, <1>11 DEF Ingest, WorldKept, RecorderKept
  <2>. QED BY <1>11, <2>1, <2>2 DEF Ingest, WorldKept, RecorderKept
<1>12. CASE NavigationReceipt
  <2>1. Facts(norm.read) \in SUBSET Fact /\ norm.run \in Nat /\ ListedNow \in Document \cup {None}
    BY FactsTyped DEF ListedNow, ANorm
  <2>2. PICK r \in Receipts : Finish(r)
    BY <1>12, <2>1, ReceiptTyped DEF NavigationReceipt
  <2>3. receipt' \in Receipts /\ docs' \in Nat
    BY <2>2, FinishTyped
  <2>4. norm' \in ANorm
    BY <2>2 DEF Finish, Proceed, ANorm
  <2>. QED BY <2>2, <2>3, <2>4 DEF Finish, Proceed, WorldKept, RecorderKept
<1>13. CASE CheckDesign
  <2>1. norm.runs + 1 \in Nat
    BY <1>13 DEF CheckDesign, WorldKept, RecorderKept, ANorm
  <2>2. norm' \in ANorm
    BY <2>1, IdleTyped, <1>13 DEF CheckDesign, WorldKept, RecorderKept
  <2>. QED BY <1>13, <2>1, <2>2 DEF CheckDesign, WorldKept, RecorderKept
<1>14. CASE CopyDesign
  <2>1. norm' \in ANorm
    BY <1>14 DEF CopyDesign, WorldKept, RecorderKept, Proceed, ANorm
  <2>. QED BY <1>14, <2>1 DEF CopyDesign, WorldKept, RecorderKept, Proceed
<1>15. CASE DesignReceipt
  <2>1. Facts(norm.read) \in SUBSET Fact /\ norm.read \in Document \cup {None}
    BY FactsTyped DEF ListedNow, ANorm
  <2>2. PICK r \in Receipts : Finish(r)
    BY <1>15, <2>1, ReceiptTyped DEF DesignReceipt
  <2>3. receipt' \in Receipts /\ docs' \in Nat
    BY <2>2, FinishTyped
  <2>4. norm' \in ANorm
    BY <2>2 DEF Finish, Proceed, ANorm
  <2>. QED BY <2>2, <2>3, <2>4 DEF Finish, Proceed, WorldKept, RecorderKept
<1>16. CASE ReadUsage
  <2>1. norm.runs + 1 \in Nat
    BY <1>16 DEF ReadUsage, WorldKept, RecorderKept, ANorm
  <2>2. norm' \in ANorm
    BY <2>1, IdleTyped, <1>16 DEF ReadUsage, WorldKept, RecorderKept
  <2>. QED BY <1>16, <2>1, <2>2 DEF ReadUsage, WorldKept, RecorderKept
<1>17. CASE UsageReceipt
  <2>1. ListedNow \in Document \cup {None} /\ norm.read \in Document
    BY <1>17 DEF ListedNow, UsageReceipt, ReadingIsOfListed, ANorm
  <2>2. norm.read.id \in Nat /\ {} \in SUBSET Fact
    BY <2>1 DEF Document
  <2>3. PICK r \in Receipts : Finish(r)
    BY <1>17, <2>1, <2>2, ReceiptTyped DEF UsageReceipt
  <2>4. receipt' \in Receipts /\ docs' \in Nat
    BY <2>3, FinishTyped
  <2>5. norm' \in ANorm
    BY <2>3 DEF Finish, Proceed, ANorm
  <2>. QED BY <2>3, <2>4, <2>5 DEF Finish, Proceed, WorldKept, RecorderKept
<1>18. CASE Lookup
  <2> DEFINE fresh == [Receipt({}, None) EXCEPT !.id = docs + 1, !.retrieved = now,
                                                !.expires = now + Ttl]
  <2>1. fresh \in Receipts
    <3>1. docs + 1 \in Nat /\ now \in Nat /\ now + Ttl \in Nat
      OBVIOUS
    <3>. QED BY <3>1, ReceiptTyped
  <2>2. receipt' \in {cache, fresh} /\ cache' = receipt' /\ (receipt' = cache => cache # None \/ cache = fresh)
    BY <1>18 DEF Lookup, CacheHit
  <2>3. norm' \in ANorm
    BY <1>18 DEF Lookup, ANorm
  <2> HIDE DEF fresh
  <2>4. receipt' \in Receipts \cup {None} /\ cache' \in Receipts \cup {None}
    BY <2>1, <2>2
  <2>. QED BY <1>18, <2>3, <2>4 DEF Lookup, RecorderKept
<1>19. CASE MakeArtifact
  <2>1. receipt' \in Receipts
    BY <1>19 DEF MakeArtifact, WorldKept, RecorderKept, Receipt, Receipts
  <2>. QED BY <1>19, <2>1 DEF MakeArtifact, WorldKept, RecorderKept
<1>20. CASE NormalizerFails
  <2>1. norm' \in ANorm
    BY <1>20 DEF NormalizerFails, WorldKept, RecorderKept, Proceed, ANorm
  <2>. QED BY <1>20, <2>1 DEF NormalizerFails, WorldKept, RecorderKept, Proceed
<1>21. CASE Load
  <2>1. rec' \in ARec
    BY <1>21 DEF Load, OutsideKept, ARec, Recording
  <2>. QED BY <1>21, <2>1 DEF Load, OutsideKept
<1>22. CASE BeginAttempt
  <2>1. rec' \in ARec
    BY <1>22 DEF BeginAttempt, OutsideKept, ARec, Recording
  <2>2. crit' \in ACrit
    BY <1>22 DEF BeginAttempt, OutsideKept, ACrit
  <2>. QED BY <1>22, <2>1, <2>2 DEF BeginAttempt, OutsideKept
<1>23. CASE CopyReceipt
  <2>1. rec' \in ARec
    BY <1>23 DEF CopyReceipt, CaptureKept, OutsideKept, ARec, Recording
  <2>. QED BY <1>23, <2>1 DEF CopyReceipt, CaptureKept, OutsideKept
<1>24. CASE CopyArtifacts
  <2>1. rec' \in ARec
    BY <1>24 DEF CopyArtifacts, CaptureKept, OutsideKept, ARec, Recording, ListedNow
  <2>. QED BY <1>24, <2>1 DEF CopyArtifacts, CaptureKept, OutsideKept
<1>25. CASE FinishAttempt
  <2>1. rec' \in ARec
    BY <1>25 DEF FinishAttempt, OutsideKept, ARec, Recording
  <2>2. crit' \in ACrit
    BY <1>25 DEF FinishAttempt, OutsideKept, ACrit
  <2>3. seal' \in ASeal \cup {None}
    BY <1>25 DEF FinishAttempt, OutsideKept, ASeal, ReceiptsAreEarned, CopiesAreOfLoaded,
       ARec
  <2>. QED BY <1>25, <2>1, <2>2, <2>3 DEF FinishAttempt, OutsideKept
<1>26. CASE Verify
  <2>1. crit' \in ACrit
    BY <1>26 DEF Verify, OutsideKept, ACrit
  <2>. QED BY <1>26, <2>1 DEF Verify, OutsideKept
<1>27. CASE Complete
  <2>1. crit' \in ACrit
    BY <1>27 DEF Complete, OutsideKept, ACrit
  <2>. QED BY <1>27, <2>1 DEF Complete, OutsideKept
<1>28. CASE Reopen
  <2>1. crit' \in ACrit
    BY <1>28 DEF Reopen, OutsideKept, ACrit
  <2>. QED BY <1>28, <2>1 DEF Reopen, OutsideKept
<1>29. CASE RecorderDies
  <2>1. rec' \in ARec
    BY <1>29 DEF RecorderDies, OutsideKept, ARec, Recording
  <2>. QED BY <1>29, <2>1 DEF RecorderDies, OutsideKept
<1>30. CASE Tick
  BY <1>30 DEF Tick, RecorderKept
<1>31. CASE Rewrite
  <2>1. receipt' \in Receipts \cup {None}
    BY <1>31, RewriteReplaces
  <2>2. record' \in Document \cup {None} /\ shown' \in Document \cup {None}
    BY <1>31, RewriteReplaces
  <2>. QED BY <1>31, <2>1, <2>2 DEF Rewrite, WorldKept, RecorderKept, Windows
<1>32. CASE Alter
  BY <1>32 DEF Alter, OutsideKept
<1>33. CASE UNCHANGED evidenceVars
  BY <1>33 DEF evidenceVars
<1>. QED BY <1>1, <1>2, <1>3, <1>4, <1>5, <1>6, <1>7, <1>8, <1>9, <1>10, <1>11, <1>12,
     <1>13, <1>14, <1>15, <1>16, <1>17, <1>18, <1>19, <1>20, <1>21, <1>22, <1>23, <1>24,
     <1>25, <1>26, <1>27, <1>28, <1>29, <1>30, <1>31, <1>32, <1>33 DEF EvidenceNext,
     RecordBrowser, RecordDesktop, RecordNavigation, RecordDesign, RecordCommunication,
     RecordContext, RecordArtifact, Capture

\* The normalizer reads while there is no receipt, the recorder while there is one.
LEMMA TurnsTaken ==
  ASSUME EvidenceTyped, TurnsAreTaken, [EvidenceNext]_evidenceVars
  PROVE  TurnsAreTaken'
<1> USE EvidenceConstants DEF Resting, Reading, Recording, TurnsAreTaken, EvidenceTyped,
       ANorm, ARec
<1>1. CASE Provide
  BY <1>1 DEF Provide, WorldKept, RecorderKept
<1>2. CASE RunTests
  BY <1>2 DEF RunTests, WorldKept, RecorderKept, Idle
<1>3. CASE NormalizeReport
  BY <1>3 DEF NormalizeReport, WorldKept, RecorderKept
<1>4. CASE BrowserReceipt
  BY <1>4 DEF BrowserReceipt, Finish, Proceed, WorldKept, RecorderKept
<1>5. CASE ValidateTranscript
  BY <1>5 DEF ValidateTranscript, WorldKept, RecorderKept, StartNormalizer, Proceed, Idle
<1>6. CASE CopyTranscript
  BY <1>6 DEF CopyTranscript, WorldKept, RecorderKept, Proceed
<1>7. CASE DesktopReceipt
  BY <1>7 DEF DesktopReceipt, Finish, Proceed, WorldKept, RecorderKept
<1>8. CASE CreateRun
  BY <1>8 DEF CreateRun, RecorderKept, StartNormalizer, Proceed, Idle
<1>9. CASE RemoteRunEnds
  BY <1>9 DEF RemoteRunEnds, RecorderKept
<1>10. CASE PollRun
  BY <1>10 DEF PollRun, WorldKept, RecorderKept
<1>11. CASE Ingest
  BY <1>11 DEF Ingest, WorldKept, RecorderKept, Idle
<1>12. CASE NavigationReceipt
  BY <1>12 DEF NavigationReceipt, Finish, Proceed, WorldKept, RecorderKept
<1>13. CASE CheckDesign
  BY <1>13 DEF CheckDesign, WorldKept, RecorderKept, Idle
<1>14. CASE CopyDesign
  BY <1>14 DEF CopyDesign, WorldKept, RecorderKept, Proceed
<1>15. CASE DesignReceipt
  BY <1>15 DEF DesignReceipt, Finish, Proceed, WorldKept, RecorderKept
<1>16. CASE ReadUsage
  BY <1>16 DEF ReadUsage, WorldKept, RecorderKept, Idle
<1>17. CASE UsageReceipt
  BY <1>17 DEF UsageReceipt, Finish, Proceed, WorldKept, RecorderKept
<1>18. CASE Lookup
  BY <1>18 DEF Lookup, RecorderKept
<1>19. CASE MakeArtifact
  BY <1>19 DEF MakeArtifact, WorldKept, RecorderKept
<1>20. CASE NormalizerFails
  BY <1>20 DEF NormalizerFails, WorldKept, RecorderKept, Proceed
<1>21. CASE Load
  BY <1>21 DEF Load, OutsideKept
<1>22. CASE BeginAttempt
  BY <1>22 DEF BeginAttempt, OutsideKept
<1>23. CASE CopyReceipt
  BY <1>23 DEF CopyReceipt, CaptureKept, OutsideKept
<1>24. CASE CopyArtifacts
  BY <1>24 DEF CopyArtifacts, CaptureKept, OutsideKept
<1>25. CASE FinishAttempt
  BY <1>25 DEF FinishAttempt, OutsideKept
<1>26. CASE Verify
  BY <1>26 DEF Verify, OutsideKept
<1>27. CASE Complete
  BY <1>27 DEF Complete, OutsideKept
<1>28. CASE Reopen
  BY <1>28 DEF Reopen, OutsideKept
<1>29. CASE RecorderDies
  BY <1>29 DEF RecorderDies, OutsideKept
<1>30. CASE Tick
  BY <1>30 DEF Tick, RecorderKept
<1>31. CASE Rewrite
  BY RewriteReplaces, <1>31 DEF Rewrite, WorldKept, RecorderKept
<1>32. CASE Alter
  BY <1>32 DEF Alter, OutsideKept
<1>33. CASE UNCHANGED evidenceVars
  BY <1>33 DEF evidenceVars
<1>. QED BY <1>1, <1>2, <1>3, <1>4, <1>5, <1>6, <1>7, <1>8, <1>9, <1>10, <1>11, <1>12,
     <1>13, <1>14, <1>15, <1>16, <1>17, <1>18, <1>19, <1>20, <1>21, <1>22, <1>23, <1>24,
     <1>25, <1>26, <1>27, <1>28, <1>29, <1>30, <1>31, <1>32, <1>33 DEF EvidenceNext,
     RecordBrowser, RecordDesktop, RecordNavigation, RecordDesign, RecordCommunication,
     RecordContext, RecordArtifact, Capture

\* What the normalizer has read so far is of the file it listed, or the file changed since.
LEMMA ReadingHolds ==
  ASSUME EvidenceTyped, TurnsAreTaken, ReadingIsOfListed, [EvidenceNext]_evidenceVars
  PROVE  ReadingIsOfListed'
<1> USE EvidenceConstants DEF Resting, Reading, Recording, ReadingIsOfListed, EvidenceTyped,
       Windows, ANorm
<1>1. CASE Provide
  BY <1>1 DEF Provide, WorldKept, RecorderKept
<1>2. CASE RunTests
  BY <1>2 DEF RunTests, WorldKept, RecorderKept, Idle
<1>3. CASE NormalizeReport
  BY <1>3 DEF NormalizeReport, WorldKept, RecorderKept
<1>4. CASE BrowserReceipt
  BY <1>4 DEF BrowserReceipt, Finish, Proceed, WorldKept, RecorderKept
<1>5. CASE ValidateTranscript
  BY <1>5 DEF ValidateTranscript, WorldKept, RecorderKept, StartNormalizer, Proceed, Idle
<1>6. CASE CopyTranscript
  BY <1>6 DEF CopyTranscript, WorldKept, RecorderKept, Proceed
<1>7. CASE DesktopReceipt
  BY <1>7 DEF DesktopReceipt, Finish, Proceed, WorldKept, RecorderKept
<1>8. CASE CreateRun
  BY <1>8 DEF CreateRun, RecorderKept, StartNormalizer, Proceed, Idle
<1>9. CASE RemoteRunEnds
  BY <1>9 DEF RemoteRunEnds, RecorderKept
<1>10. CASE PollRun
  <2>1. /\ norm'.read = Doc(StatusFacts(remote[Len(remote)])) /\ shown' = norm'.read
        /\ norm'.run = Len(remote) /\ norm'.at = "listing" /\ kind = "navigation"
        /\ UNCHANGED <<kind, remote>> /\ norm.at = "polling"
    BY <1>10 DEF PollRun, WorldKept
  <2>2. Facts(norm'.read) = StatusFacts(remote[Len(remote)])
    BY <2>1, DocumentsTyped DEF StatusFacts, Fact, NavigationAsked, NavigationFacts
  <2>3. Len(remote) \in DOMAIN remote
    BY <2>1
  <2>. QED BY <2>1, <2>2, <2>3 DEF StatusFacts
<1>11. CASE Ingest
  BY <1>11 DEF Ingest, WorldKept, RecorderKept, Idle
<1>12. CASE NavigationReceipt
  BY <1>12 DEF NavigationReceipt, Finish, Proceed, WorldKept, RecorderKept
<1>13. CASE CheckDesign
  BY <1>13 DEF CheckDesign, WorldKept, RecorderKept, Idle
<1>14. CASE CopyDesign
  BY <1>14 DEF CopyDesign, WorldKept, RecorderKept, Proceed
<1>15. CASE DesignReceipt
  BY <1>15 DEF DesignReceipt, Finish, Proceed, WorldKept, RecorderKept
<1>16. CASE ReadUsage
  BY <1>16 DEF ReadUsage, WorldKept, RecorderKept, Idle
<1>17. CASE UsageReceipt
  BY <1>17 DEF UsageReceipt, Finish, Proceed, WorldKept, RecorderKept
<1>18. CASE Lookup
  BY <1>18 DEF Lookup, RecorderKept
<1>19. CASE MakeArtifact
  BY <1>19 DEF MakeArtifact, WorldKept, RecorderKept
<1>20. CASE NormalizerFails
  BY <1>20 DEF NormalizerFails, WorldKept, RecorderKept, Proceed
<1>21. CASE Load
  BY <1>21 DEF Load, OutsideKept
<1>22. CASE BeginAttempt
  BY <1>22 DEF BeginAttempt, OutsideKept
<1>23. CASE CopyReceipt
  BY <1>23 DEF CopyReceipt, CaptureKept, OutsideKept
<1>24. CASE CopyArtifacts
  BY <1>24 DEF CopyArtifacts, CaptureKept, OutsideKept
<1>25. CASE FinishAttempt
  BY <1>25 DEF FinishAttempt, OutsideKept
<1>26. CASE Verify
  BY <1>26 DEF Verify, OutsideKept
<1>27. CASE Complete
  BY <1>27 DEF Complete, OutsideKept
<1>28. CASE Reopen
  BY <1>28 DEF Reopen, OutsideKept
<1>29. CASE RecorderDies
  BY <1>29 DEF RecorderDies, OutsideKept
<1>30. CASE Tick
  BY <1>30 DEF Tick, RecorderKept
<1>31. CASE Rewrite
  <2>1. /\ UNCHANGED <<norm, kind, remote>>
        /\ norm.at \in {"listing", "copying"} => "norm" \in raced'
    BY <1>31 DEF Rewrite, WorldKept
  <2>2. record # None => record' # None
    BY <1>31, RewriteReplaces
  <2>. QED BY <2>1, <2>2
<1>32. CASE Alter
  BY <1>32 DEF Alter, OutsideKept
<1>33. CASE UNCHANGED evidenceVars
  BY <1>33 DEF evidenceVars
<1>. QED BY <1>1, <1>2, <1>3, <1>4, <1>5, <1>6, <1>7, <1>8, <1>9, <1>10, <1>11, <1>12,
     <1>13, <1>14, <1>15, <1>16, <1>17, <1>18, <1>19, <1>20, <1>21, <1>22, <1>23, <1>24,
     <1>25, <1>26, <1>27, <1>28, <1>29, <1>30, <1>31, <1>32, <1>33 DEF EvidenceNext,
     RecordBrowser, RecordDesktop, RecordNavigation, RecordDesign, RecordCommunication,
     RecordContext, RecordArtifact, Capture

\* What the recorder checked and copied is what is there, unless a file was rewritten meanwhile.
LEMMA CopiesHold ==
  ASSUME EvidenceTyped, TurnsAreTaken, ReadingIsOfListed, CopiesAreOfLoaded, [EvidenceNext]_evidenceVars
  PROVE  CopiesAreOfLoaded'
<1> USE EvidenceConstants DEF Resting, Reading, Recording, CopiesAreOfLoaded, EvidenceTyped,
       Windows, ARec, TurnsAreTaken
<1>1. CASE Provide
  BY <1>1 DEF Provide, WorldKept, RecorderKept
<1>2. CASE RunTests
  BY <1>2 DEF RunTests, WorldKept, RecorderKept, Idle
<1>3. CASE NormalizeReport
  <2>1. rec'.at = "idle" /\ (receipt' # None /\ kind' = "communication" => record' # None)
    BY <1>3 DEF NormalizeReport, WorldKept, RecorderKept, ReadingIsOfListed
  <2> HIDE DEF EvidenceTyped
  <2>. QED BY <2>1
<1>4. CASE BrowserReceipt
  <2>1. rec'.at = "idle" /\ (receipt' # None /\ kind' = "communication" => record' # None)
    BY <1>4 DEF BrowserReceipt, Finish, Proceed, WorldKept, RecorderKept, ReadingIsOfListed
  <2> HIDE DEF EvidenceTyped
  <2>. QED BY <2>1
<1>5. CASE ValidateTranscript
  BY <1>5 DEF ValidateTranscript, WorldKept, RecorderKept, StartNormalizer, Proceed, Idle
<1>6. CASE CopyTranscript
  BY <1>6 DEF CopyTranscript, WorldKept, RecorderKept, Proceed
<1>7. CASE DesktopReceipt
  <2>1. rec'.at = "idle" /\ (receipt' # None /\ kind' = "communication" => record' # None)
    BY <1>7 DEF DesktopReceipt, Finish, Proceed, WorldKept, RecorderKept, ReadingIsOfListed
  <2> HIDE DEF EvidenceTyped
  <2>. QED BY <2>1
<1>8. CASE CreateRun
  BY <1>8 DEF CreateRun, RecorderKept, StartNormalizer, Proceed, Idle
<1>9. CASE RemoteRunEnds
  BY <1>9 DEF RemoteRunEnds, RecorderKept
<1>10. CASE PollRun
  <2>1. rec'.at = "idle" /\ (receipt' # None /\ kind' = "communication" => record' # None)
    BY <1>10 DEF PollRun, WorldKept, RecorderKept, ReadingIsOfListed
  <2> HIDE DEF EvidenceTyped
  <2>. QED BY <2>1
<1>11. CASE Ingest
  BY <1>11 DEF Ingest, WorldKept, RecorderKept, Idle
<1>12. CASE NavigationReceipt
  <2>1. rec'.at = "idle" /\ (receipt' # None /\ kind' = "communication" => record' # None)
    BY <1>12 DEF NavigationReceipt, Finish, Proceed, WorldKept, RecorderKept, ReadingIsOfListed
  <2> HIDE DEF EvidenceTyped
  <2>. QED BY <2>1
<1>13. CASE CheckDesign
  BY <1>13 DEF CheckDesign, WorldKept, RecorderKept, Idle
<1>14. CASE CopyDesign
  BY <1>14 DEF CopyDesign, WorldKept, RecorderKept, Proceed
<1>15. CASE DesignReceipt
  <2>1. rec'.at = "idle" /\ (receipt' # None /\ kind' = "communication" => record' # None)
    BY <1>15 DEF DesignReceipt, Finish, Proceed, WorldKept, RecorderKept, ReadingIsOfListed
  <2> HIDE DEF EvidenceTyped
  <2>. QED BY <2>1
<1>16. CASE ReadUsage
  BY <1>16 DEF ReadUsage, WorldKept, RecorderKept, Idle
<1>17. CASE UsageReceipt
  <2>1. rec'.at = "idle" /\ (receipt' # None /\ kind' = "communication" => record' # None)
    BY <1>17 DEF UsageReceipt, Finish, Proceed, WorldKept, RecorderKept, ReadingIsOfListed
  <2> HIDE DEF EvidenceTyped
  <2>. QED BY <2>1
<1>18. CASE Lookup
  BY <1>18 DEF Lookup, RecorderKept
<1>19. CASE MakeArtifact
  <2>1. /\ kind' = "artifact" /\ UNCHANGED <<rec, record, raced>> /\ rec.at \notin {"loaded", "receipt"}
    BY <1>19 DEF MakeArtifact, WorldKept, RecorderKept, TurnsAreTaken
  <2> HIDE DEF EvidenceTyped
  <2>. QED BY <2>1 DEF Manifest
<1>20. CASE NormalizerFails
  BY <1>20 DEF NormalizerFails, WorldKept, RecorderKept, Proceed
<1>21. CASE Load
  <2>1. /\ rec' = [at |-> "loaded", payload |-> receipt, copied |-> None, listed |-> None]
        /\ UNCHANGED <<kind, record, receipt>>
        /\ kind = "communication" => record # None /\ record.id = receipt.usage
    BY <1>21 DEF Load, OutsideKept, Loads, UsageMatches
  <2> HIDE DEF EvidenceTyped
  <2>. QED BY <2>1
<1>22. CASE BeginAttempt
  BY <1>22 DEF BeginAttempt, OutsideKept
<1>23. CASE CopyReceipt
  BY <1>23 DEF CopyReceipt, CaptureKept, OutsideKept
<1>24. CASE CopyArtifacts
  <2>1. /\ rec'.payload = rec.payload /\ rec'.copied = rec.copied /\ rec'.listed = ListedNow
        /\ rec'.at = IF Accepted(ListedNow) THEN "seal" ELSE "idle"
        /\ rec.at = "artifacts" /\ UNCHANGED <<kind, record, receipt, raced>>
    BY <1>24 DEF CopyArtifacts, CaptureKept, OutsideKept
  <2> HIDE DEF EvidenceTyped
  <2>. QED BY <2>1 DEF Accepted, ListedNow, Manifest
<1>25. CASE FinishAttempt
  BY <1>25 DEF FinishAttempt, OutsideKept
<1>26. CASE Verify
  BY <1>26 DEF Verify, OutsideKept
<1>27. CASE Complete
  BY <1>27 DEF Complete, OutsideKept
<1>28. CASE Reopen
  BY <1>28 DEF Reopen, OutsideKept
<1>29. CASE RecorderDies
  BY <1>29 DEF RecorderDies, OutsideKept
<1>30. CASE Tick
  BY <1>30 DEF Tick, RecorderKept
<1>31. CASE Rewrite
  <2>1. /\ UNCHANGED <<rec, kind>>
        /\ rec.at \in {"loaded", "receipt", "artifacts"} => "rec" \in raced'
        /\ "rec" \in raced => "rec" \in raced'
    BY <1>31 DEF Rewrite, WorldKept, RecorderKept
  <2>2. (record # None => record' # None) /\ (receipt' # None => receipt # None)
    BY <1>31, RewriteReplaces
  <2> HIDE DEF EvidenceTyped
  <2>. QED BY <2>1, <2>2
<1>32. CASE Alter
  BY <1>32 DEF Alter, OutsideKept
<1>33. CASE UNCHANGED evidenceVars
  BY <1>33 DEF evidenceVars
<1>. QED BY <1>1, <1>2, <1>3, <1>4, <1>5, <1>6, <1>7, <1>8, <1>9, <1>10, <1>11, <1>12,
     <1>13, <1>14, <1>15, <1>16, <1>17, <1>18, <1>19, <1>20, <1>21, <1>22, <1>23, <1>24,
     <1>25, <1>26, <1>27, <1>28, <1>29, <1>30, <1>31, <1>32, <1>33 DEF EvidenceNext,
     RecordBrowser, RecordDesktop, RecordNavigation, RecordDesign, RecordCommunication,
     RecordContext, RecordArtifact, Capture

\* The steps that neither make nor take up a receipt.
Quiet ==
  /\ receipt' \in {receipt, None} /\ cache' = cache
  /\ rec'.at \in Recording => rec.at \in Recording /\ rec'.payload = rec.payload
  /\ "norm" \in raced => "norm" \in raced' \/ (receipt' = None /\ rec'.at = "idle")

\* The steps that touch what is sealed.
Judgement == FinishAttempt \/ Verify \/ Complete

Makes ==
  \/ BrowserReceipt \/ DesktopReceipt \/ NavigationReceipt \/ DesignReceipt \/ UsageReceipt
  \/ Lookup \/ MakeArtifact \/ Load \/ Rewrite

Framed ==
  /\ kind' = kind /\ Later(remote, remote')
  /\ Judgement \/ ~Sealed' \/ (seal' = seal /\ crit' = crit)
  /\ Quiet \/ Makes

\* What a step may change: receipts by the normalizer, the seal by the gate.
LEMMA StepsFrame ==
  ASSUME EvidenceTyped, TurnsAreTaken, [EvidenceNext]_evidenceVars
  PROVE  Framed
<1> USE DEF Resting, Reading, Recording, EvidenceTyped, TurnsAreTaken
<1>1. CASE Provide
  <2>1. kind' = kind /\ Later(remote, remote')
    BY <1>1 DEF Provide, WorldKept, RecorderKept, Later
  <2>2. Judgement \/ ~Sealed' \/ (seal' = seal /\ crit' = crit)
    BY <1>1 DEF Provide, WorldKept, RecorderKept
  <2>3. Quiet \/ Makes
    BY <1>1 DEF Quiet, ARec, Provide, WorldKept, RecorderKept
  <2>. QED BY <2>1, <2>2, <2>3 DEF Framed
<1>2. CASE RunTests
  <2>1. kind' = kind /\ Later(remote, remote')
    BY <1>2 DEF RunTests, WorldKept, RecorderKept, Later
  <2>2. Judgement \/ ~Sealed' \/ (seal' = seal /\ crit' = crit)
    BY <1>2 DEF RunTests, WorldKept, RecorderKept
  <2>3. Quiet \/ Makes
    BY <1>2 DEF Quiet, ARec, RunTests, WorldKept, RecorderKept
  <2>. QED BY <2>1, <2>2, <2>3 DEF Framed
<1>3. CASE NormalizeReport
  <2>1. kind' = kind /\ Later(remote, remote')
    BY <1>3 DEF NormalizeReport, WorldKept, RecorderKept, Later
  <2>2. Judgement \/ ~Sealed' \/ (seal' = seal /\ crit' = crit)
    BY <1>3 DEF NormalizeReport, WorldKept, RecorderKept
  <2>3. Quiet \/ Makes
    BY <1>3 DEF Quiet, ARec, NormalizeReport, WorldKept, RecorderKept
  <2>. QED BY <2>1, <2>2, <2>3 DEF Framed
<1>4. CASE BrowserReceipt
  <2>1. kind' = kind /\ Later(remote, remote')
    BY <1>4 DEF BrowserReceipt, Finish, Proceed, WorldKept, RecorderKept, Later
  <2>2. Judgement \/ ~Sealed' \/ (seal' = seal /\ crit' = crit)
    BY <1>4 DEF BrowserReceipt, Finish, Proceed, WorldKept, RecorderKept
  <2>3. Quiet \/ Makes
    BY <1>4 DEF Makes
  <2>. QED BY <2>1, <2>2, <2>3 DEF Framed
<1>5. CASE ValidateTranscript
  <2>1. kind' = kind /\ Later(remote, remote')
    BY <1>5 DEF ValidateTranscript, WorldKept, RecorderKept, StartNormalizer, Proceed, Later
  <2>2. Judgement \/ ~Sealed' \/ (seal' = seal /\ crit' = crit)
    BY <1>5 DEF ValidateTranscript, WorldKept, RecorderKept, StartNormalizer, Proceed
  <2>3. Quiet \/ Makes
    BY <1>5 DEF Quiet, ARec, ValidateTranscript, WorldKept, RecorderKept, StartNormalizer,
       Proceed
  <2>. QED BY <2>1, <2>2, <2>3 DEF Framed
<1>6. CASE CopyTranscript
  <2>1. kind' = kind /\ Later(remote, remote')
    BY <1>6 DEF CopyTranscript, WorldKept, RecorderKept, Proceed, Later
  <2>2. Judgement \/ ~Sealed' \/ (seal' = seal /\ crit' = crit)
    BY <1>6 DEF CopyTranscript, WorldKept, RecorderKept, Proceed
  <2>3. Quiet \/ Makes
    BY <1>6 DEF Quiet, ARec, CopyTranscript, WorldKept, RecorderKept, Proceed
  <2>. QED BY <2>1, <2>2, <2>3 DEF Framed
<1>7. CASE DesktopReceipt
  <2>1. kind' = kind /\ Later(remote, remote')
    BY <1>7 DEF DesktopReceipt, Finish, Proceed, WorldKept, RecorderKept, Later
  <2>2. Judgement \/ ~Sealed' \/ (seal' = seal /\ crit' = crit)
    BY <1>7 DEF DesktopReceipt, Finish, Proceed, WorldKept, RecorderKept
  <2>3. Quiet \/ Makes
    BY <1>7 DEF Makes
  <2>. QED BY <2>1, <2>2, <2>3 DEF Framed
<1>8. CASE CreateRun
  <2>1. kind' = kind /\ Later(remote, remote')
    BY <1>8 DEF CreateRun, RecorderKept, StartNormalizer, Proceed, Later
  <2>2. Judgement \/ ~Sealed' \/ (seal' = seal /\ crit' = crit)
    BY <1>8 DEF CreateRun, RecorderKept, StartNormalizer, Proceed
  <2>3. Quiet \/ Makes
    BY <1>8 DEF Quiet, ARec, CreateRun, RecorderKept, StartNormalizer, Proceed
  <2>. QED BY <2>1, <2>2, <2>3 DEF Framed
<1>9. CASE RemoteRunEnds
  <2>1. kind' = kind /\ Later(remote, remote')
    BY <1>9 DEF RemoteRunEnds, RecorderKept, Later
  <2>2. Judgement \/ ~Sealed' \/ (seal' = seal /\ crit' = crit)
    BY <1>9 DEF RemoteRunEnds, RecorderKept
  <2>3. Quiet \/ Makes
    BY <1>9 DEF Quiet, ARec, RemoteRunEnds, RecorderKept
  <2>. QED BY <2>1, <2>2, <2>3 DEF Framed
<1>10. CASE PollRun
  <2>1. kind' = kind /\ Later(remote, remote')
    BY <1>10 DEF PollRun, WorldKept, RecorderKept, Later
  <2>2. Judgement \/ ~Sealed' \/ (seal' = seal /\ crit' = crit)
    BY <1>10 DEF PollRun, WorldKept, RecorderKept
  <2>3. Quiet \/ Makes
    BY <1>10 DEF Quiet, ARec, PollRun, WorldKept, RecorderKept
  <2>. QED BY <2>1, <2>2, <2>3 DEF Framed
<1>11. CASE Ingest
  <2>1. kind' = kind /\ Later(remote, remote')
    BY <1>11 DEF Ingest, WorldKept, RecorderKept, Later
  <2>2. Judgement \/ ~Sealed' \/ (seal' = seal /\ crit' = crit)
    BY <1>11 DEF Ingest, WorldKept, RecorderKept
  <2>3. Quiet \/ Makes
    BY <1>11 DEF Quiet, ARec, Ingest, WorldKept, RecorderKept
  <2>. QED BY <2>1, <2>2, <2>3 DEF Framed
<1>12. CASE NavigationReceipt
  <2>1. kind' = kind /\ Later(remote, remote')
    BY <1>12 DEF NavigationReceipt, Finish, Proceed, WorldKept, RecorderKept, Later
  <2>2. Judgement \/ ~Sealed' \/ (seal' = seal /\ crit' = crit)
    BY <1>12 DEF NavigationReceipt, Finish, Proceed, WorldKept, RecorderKept
  <2>3. Quiet \/ Makes
    BY <1>12 DEF Makes
  <2>. QED BY <2>1, <2>2, <2>3 DEF Framed
<1>13. CASE CheckDesign
  <2>1. kind' = kind /\ Later(remote, remote')
    BY <1>13 DEF CheckDesign, WorldKept, RecorderKept, Later
  <2>2. Judgement \/ ~Sealed' \/ (seal' = seal /\ crit' = crit)
    BY <1>13 DEF CheckDesign, WorldKept, RecorderKept
  <2>3. Quiet \/ Makes
    BY <1>13 DEF Quiet, ARec, CheckDesign, WorldKept, RecorderKept
  <2>. QED BY <2>1, <2>2, <2>3 DEF Framed
<1>14. CASE CopyDesign
  <2>1. kind' = kind /\ Later(remote, remote')
    BY <1>14 DEF CopyDesign, WorldKept, RecorderKept, Proceed, Later
  <2>2. Judgement \/ ~Sealed' \/ (seal' = seal /\ crit' = crit)
    BY <1>14 DEF CopyDesign, WorldKept, RecorderKept, Proceed
  <2>3. Quiet \/ Makes
    BY <1>14 DEF Quiet, ARec, CopyDesign, WorldKept, RecorderKept, Proceed
  <2>. QED BY <2>1, <2>2, <2>3 DEF Framed
<1>15. CASE DesignReceipt
  <2>1. kind' = kind /\ Later(remote, remote')
    BY <1>15 DEF DesignReceipt, Finish, Proceed, WorldKept, RecorderKept, Later
  <2>2. Judgement \/ ~Sealed' \/ (seal' = seal /\ crit' = crit)
    BY <1>15 DEF DesignReceipt, Finish, Proceed, WorldKept, RecorderKept
  <2>3. Quiet \/ Makes
    BY <1>15 DEF Makes
  <2>. QED BY <2>1, <2>2, <2>3 DEF Framed
<1>16. CASE ReadUsage
  <2>1. kind' = kind /\ Later(remote, remote')
    BY <1>16 DEF ReadUsage, WorldKept, RecorderKept, Later
  <2>2. Judgement \/ ~Sealed' \/ (seal' = seal /\ crit' = crit)
    BY <1>16 DEF ReadUsage, WorldKept, RecorderKept
  <2>3. Quiet \/ Makes
    BY <1>16 DEF Quiet, ARec, ReadUsage, WorldKept, RecorderKept
  <2>. QED BY <2>1, <2>2, <2>3 DEF Framed
<1>17. CASE UsageReceipt
  <2>1. kind' = kind /\ Later(remote, remote')
    BY <1>17 DEF UsageReceipt, Finish, Proceed, WorldKept, RecorderKept, Later
  <2>2. Judgement \/ ~Sealed' \/ (seal' = seal /\ crit' = crit)
    BY <1>17 DEF UsageReceipt, Finish, Proceed, WorldKept, RecorderKept
  <2>3. Quiet \/ Makes
    BY <1>17 DEF Makes
  <2>. QED BY <2>1, <2>2, <2>3 DEF Framed
<1>18. CASE Lookup
  <2>1. kind' = kind /\ Later(remote, remote')
    BY <1>18 DEF Lookup, RecorderKept, Later
  <2>2. Judgement \/ ~Sealed' \/ (seal' = seal /\ crit' = crit)
    BY <1>18 DEF Lookup, RecorderKept
  <2>3. Quiet \/ Makes
    BY <1>18 DEF Makes
  <2>. QED BY <2>1, <2>2, <2>3 DEF Framed
<1>19. CASE MakeArtifact
  <2>1. kind' = kind /\ Later(remote, remote')
    BY <1>19 DEF MakeArtifact, WorldKept, RecorderKept, Later
  <2>2. Judgement \/ ~Sealed' \/ (seal' = seal /\ crit' = crit)
    BY <1>19 DEF MakeArtifact, WorldKept, RecorderKept
  <2>3. Quiet \/ Makes
    BY <1>19 DEF Makes
  <2>. QED BY <2>1, <2>2, <2>3 DEF Framed
<1>20. CASE NormalizerFails
  <2>1. kind' = kind /\ Later(remote, remote')
    BY <1>20 DEF NormalizerFails, WorldKept, RecorderKept, Proceed, Later
  <2>2. Judgement \/ ~Sealed' \/ (seal' = seal /\ crit' = crit)
    BY <1>20 DEF NormalizerFails, WorldKept, RecorderKept, Proceed
  <2>3. Quiet \/ Makes
    BY <1>20 DEF Quiet, ARec, NormalizerFails, WorldKept, RecorderKept, Proceed
  <2>. QED BY <2>1, <2>2, <2>3 DEF Framed
<1>21. CASE Load
  <2>1. kind' = kind /\ Later(remote, remote')
    BY <1>21 DEF Load, OutsideKept, Later
  <2>2. Judgement \/ ~Sealed' \/ (seal' = seal /\ crit' = crit)
    BY <1>21 DEF Load, OutsideKept
  <2>3. Quiet \/ Makes
    BY <1>21 DEF Makes
  <2>. QED BY <2>1, <2>2, <2>3 DEF Framed
<1>22. CASE BeginAttempt
  <2>1. kind' = kind /\ Later(remote, remote')
    BY <1>22 DEF BeginAttempt, OutsideKept, Later
  <2>2. Judgement \/ ~Sealed' \/ (seal' = seal /\ crit' = crit)
    BY <1>22 DEF BeginAttempt, OutsideKept, Sealed, ACrit
  <2>3. Quiet \/ Makes
    BY <1>22 DEF Quiet, ARec, BeginAttempt, OutsideKept
  <2>. QED BY <2>1, <2>2, <2>3 DEF Framed
<1>23. CASE CopyReceipt
  <2>1. kind' = kind /\ Later(remote, remote')
    BY <1>23 DEF CopyReceipt, CaptureKept, OutsideKept, Later
  <2>2. Judgement \/ ~Sealed' \/ (seal' = seal /\ crit' = crit)
    BY <1>23 DEF CopyReceipt, CaptureKept, OutsideKept
  <2>3. Quiet \/ Makes
    BY <1>23 DEF Quiet, ARec, CopyReceipt, CaptureKept, OutsideKept
  <2>. QED BY <2>1, <2>2, <2>3 DEF Framed
<1>24. CASE CopyArtifacts
  <2>1. kind' = kind /\ Later(remote, remote')
    BY <1>24 DEF CopyArtifacts, CaptureKept, OutsideKept, Later
  <2>2. Judgement \/ ~Sealed' \/ (seal' = seal /\ crit' = crit)
    BY <1>24 DEF CopyArtifacts, CaptureKept, OutsideKept
  <2>3. Quiet \/ Makes
    BY <1>24 DEF Quiet, ARec, CopyArtifacts, CaptureKept, OutsideKept
  <2>. QED BY <2>1, <2>2, <2>3 DEF Framed
<1>25. CASE FinishAttempt
  <2>1. kind' = kind /\ Later(remote, remote')
    BY <1>25 DEF FinishAttempt, OutsideKept, Later
  <2>2. Judgement \/ ~Sealed' \/ (seal' = seal /\ crit' = crit)
    BY <1>25 DEF Judgement
  <2>3. Quiet \/ Makes
    BY <1>25 DEF Quiet, ARec, FinishAttempt, OutsideKept
  <2>. QED BY <2>1, <2>2, <2>3 DEF Framed
<1>26. CASE Verify
  <2>1. kind' = kind /\ Later(remote, remote')
    BY <1>26 DEF Verify, OutsideKept, Later
  <2>2. Judgement \/ ~Sealed' \/ (seal' = seal /\ crit' = crit)
    BY <1>26 DEF Judgement
  <2>3. Quiet \/ Makes
    BY <1>26 DEF Quiet, ARec, Verify, OutsideKept
  <2>. QED BY <2>1, <2>2, <2>3 DEF Framed
<1>27. CASE Complete
  <2>1. kind' = kind /\ Later(remote, remote')
    BY <1>27 DEF Complete, OutsideKept, Later
  <2>2. Judgement \/ ~Sealed' \/ (seal' = seal /\ crit' = crit)
    BY <1>27 DEF Judgement
  <2>3. Quiet \/ Makes
    BY <1>27 DEF Quiet, ARec, Complete, OutsideKept
  <2>. QED BY <2>1, <2>2, <2>3 DEF Framed
<1>28. CASE Reopen
  <2>1. kind' = kind /\ Later(remote, remote')
    BY <1>28 DEF Reopen, OutsideKept, Later
  <2>2. Judgement \/ ~Sealed' \/ (seal' = seal /\ crit' = crit)
    BY <1>28 DEF Reopen, OutsideKept, Sealed, ACrit
  <2>3. Quiet \/ Makes
    BY <1>28 DEF Quiet, ARec, Reopen, OutsideKept
  <2>. QED BY <2>1, <2>2, <2>3 DEF Framed
<1>29. CASE RecorderDies
  <2>1. kind' = kind /\ Later(remote, remote')
    BY <1>29 DEF RecorderDies, OutsideKept, Later
  <2>2. Judgement \/ ~Sealed' \/ (seal' = seal /\ crit' = crit)
    BY <1>29 DEF RecorderDies, OutsideKept
  <2>3. Quiet \/ Makes
    BY <1>29 DEF Quiet, ARec, RecorderDies, OutsideKept
  <2>. QED BY <2>1, <2>2, <2>3 DEF Framed
<1>30. CASE Tick
  <2>1. kind' = kind /\ Later(remote, remote')
    BY <1>30 DEF Tick, RecorderKept, Later
  <2>2. Judgement \/ ~Sealed' \/ (seal' = seal /\ crit' = crit)
    BY <1>30 DEF Tick, RecorderKept
  <2>3. Quiet \/ Makes
    BY <1>30 DEF Quiet, ARec, Tick, RecorderKept
  <2>. QED BY <2>1, <2>2, <2>3 DEF Framed
<1>31. CASE Rewrite
  <2>1. kind' = kind /\ Later(remote, remote')
    BY <1>31 DEF Rewrite, WorldKept, RecorderKept, Later
  <2>2. Judgement \/ ~Sealed' \/ (seal' = seal /\ crit' = crit)
    BY <1>31 DEF Rewrite, WorldKept, RecorderKept
  <2>3. Quiet \/ Makes
    BY <1>31 DEF Makes
  <2>. QED BY <2>1, <2>2, <2>3 DEF Framed
<1>32. CASE Alter
  <2>1. kind' = kind /\ Later(remote, remote')
    BY <1>32 DEF Alter, OutsideKept, Later
  <2>2. Judgement \/ ~Sealed' \/ (seal' = seal /\ crit' = crit)
    BY <1>32 DEF Alter, OutsideKept
  <2>3. Quiet \/ Makes
    BY <1>32 DEF Quiet, ARec, Alter, OutsideKept
  <2>. QED BY <2>1, <2>2, <2>3 DEF Framed
<1>33. CASE UNCHANGED evidenceVars
  BY <1>33 DEF evidenceVars, Framed, Later, Quiet
<1>. QED BY <1>1, <1>2, <1>3, <1>4, <1>5, <1>6, <1>7, <1>8, <1>9, <1>10, <1>11, <1>12,
     <1>13, <1>14, <1>15, <1>16, <1>17, <1>18, <1>19, <1>20, <1>21, <1>22, <1>23, <1>24,
     <1>25, <1>26, <1>27, <1>28, <1>29, <1>30, <1>31, <1>32, <1>33 DEF EvidenceNext,
     RecordBrowser, RecordDesktop, RecordNavigation, RecordDesign, RecordCommunication,
     RecordContext, RecordArtifact, Capture


\* Every receipt, current or left over, is earned.
LEMMA ReceiptsHold ==
  ASSUME EvidenceTyped, TurnsAreTaken, ReadingIsOfListed, ReceiptsAreEarned, Framed,
         EvidenceTyped'
  PROVE  ReceiptsAreEarned'
<1>1. kind' = kind /\ Later(remote, remote')
  BY DEF Framed
<1>2. CASE Quiet
  <2>1. ASSUME receipt' # None PROVE Earned(kind', remote', receipt', raced')
    <3>1. receipt' = receipt /\ ("norm" \in raced => "norm" \in raced')
      BY <1>2, <2>1 DEF Quiet
    <3>2. Earned(kind, remote, receipt, raced)
      BY <2>1, <3>1 DEF ReceiptsAreEarned
    <3>. QED BY <1>1, <3>1, <3>2, EarnedStays
  <2>2. ASSUME rec'.at \in Recording
        PROVE  rec'.payload \in Receipts /\ Asked(kind') \subseteq rec'.payload.facts
               /\ Earned(kind', remote', rec'.payload, raced')
    <3>1. /\ rec.at \in Recording /\ rec'.payload = rec.payload
          /\ "norm" \in raced => "norm" \in raced'
      BY <1>2, <2>2 DEF Quiet, Recording
    <3>2. /\ rec.payload \in Receipts /\ Asked(kind) \subseteq rec.payload.facts
          /\ Earned(kind, remote, rec.payload, raced)
      BY <3>1 DEF ReceiptsAreEarned
    <3>3. Earned(kind', remote', rec'.payload, raced')
      BY <1>1, <3>1, <3>2, EarnedStays
    <3>. QED BY <1>1, <3>1, <3>2, <3>3
  <2>. QED BY <1>1, <1>2, <2>1, <2>2 DEF Quiet, ReceiptsAreEarned
<1>3. ASSUME NEW r \in Receipts, Finish(r), Earned(kind, remote, r, raced), rec.at = "idle"
      PROVE  ReceiptsAreEarned'
  <2>1. /\ receipt' \in Receipts /\ receipt'.facts = r.facts /\ receipt'.lists = r.lists
        /\ receipt'.run = r.run /\ receipt'.retrieved = r.retrieved
        /\ receipt'.expires = r.expires
    BY <1>3, FinishTyped DEF EvidenceTyped
  <2>2. Earned(kind, remote, receipt', raced)
    BY <1>3, <2>1 DEF Earned, ListsShow, LookupIsDated, RunIsReal
  <2>. QED BY <1>1, <1>3, <2>2
       DEF Finish, WorldKept, RecorderKept, ReceiptsAreEarned, Recording
<1>4. CASE BrowserReceipt
  <2> DEFINE facts == ReportedFacts \cup
               (IF ReportedFacts = BrowserFacts \cup {"exit0"} THEN {"passed"} ELSE {})
  <2>1. /\ kind = "browser" /\ norm.at = "listing" /\ rec.at = "idle"
        /\ Finish(Receipt(facts, record)) /\ record \in Document \cup {None}
    BY <1>4 DEF BrowserReceipt, TurnsAreTaken, Reading, ListedNow, EvidenceTyped
  <2>2. facts \in SUBSET Fact
    BY FactsTyped DEF ReportedFacts, Fact, BrowserAsked, EvidenceTyped, ANorm
  <2>3. "norm" \notin raced /\ BrowserFacts \subseteq facts => BrowserFacts \subseteq Facts(record)
    BY <2>1 DEF ReadingIsOfListed, ReportedFacts, BrowserFacts
  <2> HIDE DEF facts
  <2>4. Receipt(facts, record) \in Receipts
    BY <2>1, <2>2, ReceiptTyped
  <2>5. Earned("browser", remote, Receipt(facts, record), raced)
    BY <2>3 DEF Earned, ListsShow, LookupIsDated, RunIsReal, Receipt, Exposed, Manifest, Asked,
       BrowserAsked, Demonstrated
  <2>. QED BY <2>1, <2>4, <2>5, <1>3
<1>5. CASE DesktopReceipt
  <2>1. /\ kind = "desktop" /\ norm.at = "listing" /\ rec.at = "idle"
        /\ Finish(Receipt(DesktopFacts, shown)) /\ shown \in Document \cup {None}
    BY <1>5 DEF DesktopReceipt, TurnsAreTaken, Reading, ListedNow, EvidenceTyped
  <2>2. Receipt(DesktopFacts, shown) \in Receipts
    BY <2>1, ReceiptTyped DEF Fact, DesktopAsked
  <2>3. Earned("desktop", remote, Receipt(DesktopFacts, shown), raced)
    BY <2>1 DEF Earned, ListsShow, LookupIsDated, RunIsReal, Receipt, Exposed, Manifest,
       Demonstrated, ReadingIsOfListed
  <2>. QED BY <2>1, <2>2, <2>3, <1>3
<1>6. CASE NavigationReceipt
  <2> DEFINE r == [Receipt(Facts(norm.read), shown) EXCEPT !.run = norm.run]
  <2>1. /\ kind = "navigation" /\ norm.at = "listing" /\ rec.at = "idle"
        /\ Finish(r) /\ shown \in Document \cup {None}
        /\ norm.run \in Nat /\ norm.read \in Document \cup {None}
    BY <1>6 DEF NavigationReceipt, TurnsAreTaken, Reading, ListedNow, EvidenceTyped, ANorm
  <2>2. r \in Receipts
    BY <2>1, ReceiptTyped, FactsTyped
  <2>3. r.facts = Facts(norm.read) /\ r.lists = shown /\ r.run = norm.run
    BY DEF Receipt
  <2> HIDE DEF r
  <2>4. Earned("navigation", remote, r, raced)
    BY <2>1, <2>3 DEF Earned, ListsShow, LookupIsDated, RunIsReal, Exposed, Manifest, Asked,
       NavigationAsked, Demonstrated, ReadingIsOfListed
  <2>. QED BY <2>1, <2>2, <2>4, <1>3
<1>7. CASE DesignReceipt
  <2>1. /\ kind = "design" /\ rec.at = "idle"
        /\ Finish(Receipt(Facts(norm.read), norm.read)) /\ norm.read \in Document \cup {None}
    BY <1>7 DEF DesignReceipt, TurnsAreTaken, Reading, EvidenceTyped, ANorm
  <2>2. Receipt(Facts(norm.read), norm.read) \in Receipts
    BY <2>1, ReceiptTyped, FactsTyped
  <2>3. Earned("design", remote, Receipt(Facts(norm.read), norm.read), raced)
    BY DEF Earned, ListsShow, LookupIsDated, RunIsReal, Receipt, Asked, DesignAsked, Demonstrated
  <2>. QED BY <2>1, <2>2, <2>3, <1>3
<1>8. CASE UsageReceipt
  <2> DEFINE r == [Receipt({}, record) EXCEPT !.usage = norm.read.id]
  <2>1. /\ kind = "communication" /\ rec.at = "idle" /\ Finish(r)
        /\ record \in Document \cup {None} /\ norm.read \in Document
    BY <1>8 DEF UsageReceipt, TurnsAreTaken, Reading, ListedNow, EvidenceTyped, ANorm,
       ReadingIsOfListed
  <2>2. norm.read.id \in Nat /\ {} \in SUBSET Fact
    BY <2>1 DEF Document
  <2>3. r \in Receipts
    BY <2>1, <2>2, ReceiptTyped
  <2>4. Earned("communication", remote, r, raced)
    BY DEF Earned, ListsShow, LookupIsDated, RunIsReal, Manifest
  <2>. QED BY <2>1, <2>3, <2>4, <1>3
<1>9. CASE Lookup
  <2> DEFINE fresh == [Receipt({}, None) EXCEPT !.id = docs + 1, !.retrieved = now,
                                                !.expires = now + Ttl]
  <2>1. /\ kind = "context" /\ rec'.at = "idle" /\ cache' = receipt'
        /\ receipt' = fresh \/ (receipt' = cache /\ cache # None)
    BY <1>9 DEF Lookup, RecorderKept, CacheHit
  <2>2. fresh.retrieved = now /\ fresh.expires = now + Ttl
    BY DEF Receipt
  <2> HIDE DEF fresh
  <2>3. LookupIsDated("context", receipt')
    BY <2>1, <2>2, EvidenceConstants DEF ReceiptsAreEarned, LookupIsDated, EvidenceTyped
  <2>4. Earned(kind', remote', receipt', raced')
    BY <1>1, <2>1, <2>3 DEF Earned, ListsShow, RunIsReal, Manifest
  <2>. QED BY <1>1, <2>1, <2>3, <2>4 DEF ReceiptsAreEarned, Recording
<1>10. CASE MakeArtifact
  <2>1. kind = "artifact" /\ rec'.at = "idle" /\ cache' = cache
    BY <1>10 DEF MakeArtifact, WorldKept, RecorderKept, TurnsAreTaken, EvidenceTyped, ARec
  <2>2. \A r, races : Earned("artifact", remote', r, races)
    BY DEF Earned, ListsShow, LookupIsDated, RunIsReal, Manifest
  <2>. QED BY <1>1, <2>1, <2>2 DEF ReceiptsAreEarned, Recording
<1>11. CASE Load
  <2>1. /\ receipt # None /\ receipt' = receipt /\ cache' = cache /\ rec'.payload = receipt
        /\ receipt \in Receipts /\ Asked(kind) \subseteq receipt.facts
        /\ "norm" \in raced => "norm" \in raced'
    BY <1>11 DEF Load, OutsideKept, Loads, EvidenceTyped
  <2>2. Earned(kind', remote', receipt, raced')
    BY <1>1, <2>1, EarnedStays DEF ReceiptsAreEarned
  <2>. QED BY <1>1, <2>1, <2>2 DEF ReceiptsAreEarned
<1>12. CASE Rewrite
  <2>1. /\ rec' = rec /\ cache' = cache
        /\ "norm" \in raced => "norm" \in raced'
    BY <1>12 DEF Rewrite, WorldKept, RecorderKept
  <2>2. ASSUME receipt' # None PROVE Earned(kind', remote', receipt', raced')
    <3>1. receipt # None /\ receipt'.lists = receipt.lists /\ receipt'.run = receipt.run
          /\ receipt'.retrieved = receipt.retrieved /\ receipt'.expires = receipt.expires
          /\ (receipt' = receipt \/ receipt'.facts = {})
      BY <1>12, <2>2, RewriteReplaces
    <3>2. Earned(kind', remote', receipt, raced')
      BY <1>1, <2>1, <3>1, EarnedStays DEF ReceiptsAreEarned
    <3>3. kind \in Manifest => Asked(kind) # {}
      BY DEF Manifest, Asked, BrowserAsked, DesktopAsked, DesktopFacts, NavigationAsked,
         NavigationFacts, DesignAsked, DesignFacts
    <3>. QED BY <1>1, <3>1, <3>2, <3>3 DEF Earned, ListsShow, LookupIsDated, RunIsReal
  <2>3. ASSUME rec'.at \in Recording
        PROVE  rec'.payload \in Receipts /\ Asked(kind') \subseteq rec'.payload.facts
               /\ Earned(kind', remote', rec'.payload, raced')
    BY <1>1, <2>1, <2>3, EarnedStays DEF ReceiptsAreEarned
  <2>. QED BY <1>1, <2>1, <2>2, <2>3 DEF ReceiptsAreEarned
<1>. QED BY <1>2, <1>4, <1>5, <1>6, <1>7, <1>8, <1>9, <1>10, <1>11, <1>12 DEF Framed, Makes

\* An attempt is sealed with a checked receipt and what was copied for it, and the seal
\* stays as it is.
LEMMA SealStays ==
  ASSUME EvidenceTyped, ReceiptsAreEarned, CopiesAreOfLoaded, SealIsEarned, Framed
  PROVE  SealIsEarned'
<1>1. kind' = kind /\ Later(remote, remote')
  BY DEF Framed
<1>2. ASSUME seal' = seal, Sealed PROVE SealIsEarned'
  <2>1. Earned(kind', remote', seal'.payload, seal'.raced)
    BY <1>1, <1>2, EarnedStays DEF SealIsEarned
  <2>. QED BY <1>1, <1>2, <2>1 DEF SealIsEarned, CopiesShowTheClaim
<1>3. CASE seal' = seal /\ crit' = crit
  BY <1>2, <1>3 DEF SealIsEarned, Sealed
<1>4. CASE ~Sealed'
  BY <1>4 DEF SealIsEarned
<1>5. CASE Verify \/ Complete
  <2>1. seal' = seal /\ Sealed
    BY <1>5 DEF Verify, Complete, Sealed
  <2>. QED BY <2>1, <1>2
<1>6. CASE FinishAttempt
  <2>1. CASE crit.status = "in_progress"
    <3>1. /\ seal' = [payload |-> rec.payload, copied |-> rec.copied, listed |-> rec.listed,
                      raced |-> raced]
          /\ rec.at = "seal"
      BY <1>6, <2>1 DEF FinishAttempt
    <3>2. rec.payload \in Receipts /\ Asked(kind) \subseteq rec.payload.facts
          /\ Earned(kind, remote, rec.payload, raced)
      BY <3>1 DEF ReceiptsAreEarned, Recording
    <3>3. Earned(kind', remote', rec.payload, raced)
      BY <1>1, <3>2, EarnedStays
    <3>4. rec.copied \in Receipts /\ ("rec" \notin raced => rec.copied = rec.payload)
          /\ (kind \in Manifest => rec.listed = rec.payload.lists)
          /\ (kind = "communication" /\ "rec" \notin raced => rec.listed.id = rec.payload.usage)
      BY <3>1 DEF CopiesAreOfLoaded
    <3>5. seal' \in ASeal
      BY <3>1, <3>2, <3>4 DEF EvidenceTyped, ARec, ASeal
    <3>6. raced \cap Exposed(kind) = {} =>
            /\ Demonstrated(kind) \subseteq Facts(rec.listed)
            /\ kind = "communication" => rec.listed.id = rec.payload.usage
      <4>1. CASE kind \in Manifest
        BY <4>1, <3>2, <3>4 DEF Earned, ListsShow, Manifest
      <4>2. CASE kind \notin Manifest
        BY <4>2, <3>4 DEF Manifest, Demonstrated, Exposed
      <4>. QED BY <4>1, <4>2
    <3>7. CopiesShowTheClaim'
      BY <1>1, <3>1, <3>2, <3>4, <3>6 DEF CopiesShowTheClaim
    <3>. QED BY <3>1, <3>3, <3>5, <3>7 DEF SealIsEarned
  <2>2. CASE crit.status # "in_progress"
    <3>1. seal' = seal /\ crit' = crit
      BY <1>6, <2>2 DEF FinishAttempt
    <3>. QED BY <3>1, <1>3
  <2>. QED BY <2>1, <2>2
<1>. QED BY <1>3, <1>4, <1>5, <1>6 DEF Framed, Judgement

\* A context is within its time when it is verified or completed upon.
LEMMA ContextStaysFresh ==
  ASSUME EvidenceTyped, SealIsEarned, ContextWasFresh, Framed
  PROVE  ContextWasFresh'
<1>1. kind' = kind
  BY DEF Framed
<1>2. CASE Verify \/ Complete
  <2>1. ASSUME kind = "context", crit'.status \in {"verified", "complete"}
        PROVE  crit'.at < seal'.payload.retrieved + Ttl
    <3>1. crit'.at = now /\ seal' = seal /\ seal.payload.expires > now /\ Sealed
      BY <1>2, <2>1 DEF Verify, Complete, Valid, Unexpired, Sealed, EvidenceTyped, ACrit
    <3>2. seal.payload.expires <= seal.payload.retrieved + Ttl /\ seal.payload \in Receipts
      BY <2>1, <3>1 DEF SealIsEarned, Earned, LookupIsDated, ASeal
    <3>. QED BY <3>1, <3>2, EvidenceConstants DEF EvidenceTyped, Receipts
  <2>. QED BY <1>1, <2>1 DEF ContextWasFresh
<1>3. CASE FinishAttempt
  BY <1>1, <1>3 DEF FinishAttempt, ContextWasFresh, EvidenceTyped, ACrit
<1>4. CASE ~Sealed' \/ (seal' = seal /\ crit' = crit)
  BY <1>1, <1>4 DEF ContextWasFresh, Sealed
<1>. QED BY <1>2, <1>3, <1>4 DEF Framed, Judgement

\* The invariant holds at first.
LEMMA EvidenceStarts == ASSUME EvidenceInit PROVE EvidenceIInv
<1> USE EvidenceConstants DEF EvidenceInit, Idle, Resting, Reading, Recording
<1>1. EvidenceTyped
  BY DEF EvidenceTyped, ANorm, ARec, ACrit
<1>2. TurnsAreTaken /\ ReadingIsOfListed
  BY DEF TurnsAreTaken, ReadingIsOfListed
<1>3. ReceiptsAreEarned /\ CopiesAreOfLoaded
  BY DEF ReceiptsAreEarned, CopiesAreOfLoaded
<1>4. SealIsEarned /\ ContextWasFresh
  BY DEF SealIsEarned, ContextWasFresh, Sealed
<1>. QED BY <1>1, <1>2, <1>3, <1>4 DEF EvidenceIInv

\* Every step keeps the invariant.
LEMMA EvidenceKeeps == EvidenceIInv /\ [EvidenceNext]_evidenceVars => EvidenceIInv'
BY EvidenceTypes, TurnsTaken, ReadingHolds, CopiesHold, StepsFrame, ReceiptsHold, SealStays,
   ContextStaysFresh DEF EvidenceIInv

\* The invariant implies what the run checks.
LEMMA EvidenceImplied == EvidenceIInv => EvidenceHolds
<1> SUFFICES ASSUME EvidenceIInv PROVE EvidenceHolds
  OBVIOUS
<1>1. CopiesShowTheClaim /\ ContextWasFresh
  BY DEF EvidenceIInv, SealIsEarned, CopiesShowTheClaim
<1>2. NavigationHappened
  BY <1>1 DEF EvidenceIInv, SealIsEarned, NavigationHappened, Earned, RunIsReal, CopiesShowTheClaim,
     Asked, NavigationAsked, NavigationFacts
<1>. QED BY <1>1, <1>2 DEF EvidenceHolds

\* Evidence: what is sealed in an attempt shows what was claimed, outside of the window in
\* which its kind is exposed; a context was fresh, and a navigation that is named happened.
THEOREM EvidenceAlwaysHolds == EvidenceSpec => []EvidenceHolds
BY EvidenceStarts, EvidenceKeeps, EvidenceImplied, PTL DEF EvidenceSpec

-----------------------------------------------------------------------------
(* Theorems about LedgerReplay, for any documents and depth, any checkpoint  *)
(* interval and any number of retained lines.                               *)

\* The least of some numbers.
LEMMA LeastOf ==
  ASSUME NEW N \in Nat, NEW S \in SUBSET (0..N), S # {}
  PROVE  \E m \in S : \A k \in S : m <= k
<1> DEFINE Less == {ss \in Nat \X Nat : ss[1] < ss[2]}
<1>1. IsWellFoundedOn(Less, Nat)
  BY NatLessThanWellFounded DEF OpToRel
<1>2. S \subseteq Nat
  OBVIOUS
<1>3. PICK m \in S : \A k \in S : <<k, m>> \notin Less
  <2> HIDE DEF Less
  <2> QED BY <1>1, <1>2, WFMin
<1>4. \A k \in S : ~(k < m)
  BY <1>2, <1>3
<1> QED BY <1>2, <1>4

\* What holds of 0 and of the number after each that it holds of.
LEMMA InductionTo ==
  ASSUME NEW N \in Nat, NEW S, 0 \in S,
         \A n \in 0..N : n < N /\ n \in S => n + 1 \in S
  PROVE  \A n \in 0..N : n \in S
<1> DEFINE T == {n \in 0..N : n \notin S}
<1> SUFFICES ASSUME T # {} PROVE FALSE
  OBVIOUS
<1>1. T \in SUBSET (0..N)
  OBVIOUS
<1>2. PICK m \in T : \A k \in T : m <= k
  <2> HIDE DEF T
  <2> QED BY <1>1, LeastOf
<1>3. m # 0 /\ m - 1 \in 0..N /\ m - 1 < N /\ m \notin S
  BY <1>2
<1>4. m - 1 \in S
  <2> SUFFICES ASSUME m - 1 \in T PROVE FALSE
    BY <1>3
  <2> QED BY <1>2, <1>3
<1>5. (m - 1) + 1 = m
  BY <1>2
<1> QED BY <1>3, <1>4, <1>5

-----------------------------------------------------------------------------
(* Operations one after the other.                                         *)

\* What each of the operations makes of a document.
Steps(f, doc, operations, n) ==
  f[0] = doc /\ \A k \in 1..n : f[k] = ApplyOperation(f[k - 1], operations[k])

\* Nothing but the operations decides what each of them makes.
LEMMA StepsAgree ==
  ASSUME NEW doc, NEW operations, NEW n \in Nat, NEW f, NEW g,
         Steps(f, doc, operations, n), Steps(g, doc, operations, n)
  PROVE  \A k \in 0..n : f[k] = g[k]
<1> DEFINE S == {k \in 0..n : f[k] = g[k]}
<1>1. 0 \in S
  BY DEF Steps
<1>2. \A k \in 0..n : k < n /\ k \in S => k + 1 \in S
  <2> TAKE k \in 0..n
  <2> HAVE k < n /\ k \in S
  <2>1. k + 1 \in 1..n /\ (k + 1) - 1 = k /\ k + 1 \in 0..n
    OBVIOUS
  <2>2. f[k + 1] = ApplyOperation(f[k], operations[k + 1])
        /\ g[k + 1] = ApplyOperation(g[k], operations[k + 1])
    BY <2>1 DEF Steps
  <2> QED BY <2>1, <2>2
<1> HIDE DEF S
<1>3. \A k \in 0..n : k \in S
  BY <1>1, <1>2, InductionTo
<1> QED BY <1>3 DEF S

\* There is such a function.
LEMMA StepsExist ==
  ASSUME NEW doc, NEW operations, NEW n \in Nat
  PROVE  \E f : Steps(f, doc, operations, n)
<1> DEFINE S == {m \in 0..n : \E f : Steps(f, doc, operations, m)}
<1>1. 0 \in S
  <2>1. Steps([k \in {0} |-> doc], doc, operations, 0)
    BY DEF Steps
  <2> QED BY <2>1
<1>2. \A m \in 0..n : m < n /\ m \in S => m + 1 \in S
  <2> TAKE m \in 0..n
  <2> HAVE m < n /\ m \in S
  <2>1. PICK f : Steps(f, doc, operations, m)
    OBVIOUS
  <2> DEFINE g == [k \in 0..m + 1 |-> IF k <= m THEN f[k] ELSE ApplyOperation(f[m], operations[m + 1])]
  <2>2. (\A k \in 0..m : g[k] = f[k]) /\ g[m + 1] = ApplyOperation(f[m], operations[m + 1])
    OBVIOUS
  <2> HIDE DEF g
  <2>3. ASSUME NEW k \in 1..m + 1 PROVE g[k] = ApplyOperation(g[k - 1], operations[k])
    <3>1. CASE k \in 1..m
      <4>1. k - 1 \in 0..m /\ k \in 0..m
        BY <3>1
      <4> QED BY <2>1, <2>2, <3>1, <4>1 DEF Steps
    <3>2. CASE k = m + 1
      <4>1. k - 1 = m /\ m \in 0..m
        BY <3>2
      <4> QED BY <2>2, <3>2, <4>1
    <3> QED BY <3>1, <3>2
  <2>4. Steps(g, doc, operations, m + 1)
    BY <2>1, <2>2, <2>3 DEF Steps
  <2> QED BY <2>4
<1> HIDE DEF S
<1>3. \A m \in 0..n : m \in S
  BY <1>1, <1>2, InductionTo
<1> QED BY <1>3 DEF S

\* ApplyDelta is what the last operation makes.
LEMMA ApplyDeltaIs ==
  ASSUME NEW doc, NEW operations, Len(operations) \in Nat, NEW f,
         Steps(f, doc, operations, Len(operations))
  PROVE  ApplyDelta(doc, operations) = f[Len(operations)]
<1> DEFINE n == Len(operations)
           After(g) == g = [k \in 0..n |-> IF k = 0 THEN doc ELSE ApplyOperation(g[k - 1], operations[k])]
           g0 == [k \in 0..n |-> f[k]]
           g1 == CHOOSE g : After(g)
<1>1. After(g0)
  <2>1. \A k \in 0..n : f[k] = IF k = 0 THEN doc ELSE ApplyOperation(g0[k - 1], operations[k])
    <3> TAKE k \in 0..n
    <3>1. CASE k = 0
      BY <3>1 DEF Steps
    <3>2. CASE k # 0
      <4>1. k \in 1..n /\ k - 1 \in 0..n
        BY <3>2
      <4> QED BY <3>2, <4>1 DEF Steps
    <3> QED BY <3>1, <3>2
  <2> QED BY <2>1
<1>2. After(g1)
  <2> HIDE DEF After, g0
  <2> QED BY <1>1
<1>3. Steps(g1, doc, operations, n)
  <2> HIDE DEF g1
  <2>1. 0 \in 0..n /\ \A k \in 1..n : k \in 0..n /\ k # 0
    OBVIOUS
  <2> QED BY <1>2, <2>1 DEF Steps
<1>4. ApplyDelta(doc, operations) = g1[n]
  BY DEF ApplyDelta
<1> HIDE DEF g1
<1> QED BY <1>3, <1>4, StepsAgree

\* And there is such a list of what they make.
LEMMA ApplyDeltaHas ==
  ASSUME NEW doc, NEW operations, Len(operations) \in Nat
  PROVE  \E f : Steps(f, doc, operations, Len(operations))
                /\ ApplyDelta(doc, operations) = f[Len(operations)]
BY StepsExist, ApplyDeltaIs

\* Lists of operations are applied one after the other.
LEMMA ApplyConcat ==
  ASSUME NEW S, NEW p \in Seq(S), NEW q \in Seq(S), NEW doc
  PROVE  ApplyDelta(doc, p \o q) = ApplyDelta(ApplyDelta(doc, p), q)
<1> DEFINE m == Len(p)
           n == Len(q)
<1>1. m \in Nat /\ n \in Nat /\ Len(p \o q) = m + n
      /\ \A i \in 1..m + n : (p \o q)[i] = IF i <= m THEN p[i] ELSE q[i - m]
  BY ConcatProperties, LenProperties
<1>2. PICK f : Steps(f, doc, p, m) /\ ApplyDelta(doc, p) = f[m]
  BY <1>1, ApplyDeltaHas
<1>3. PICK g : Steps(g, f[m], q, n) /\ ApplyDelta(f[m], q) = g[n]
  BY <1>1, ApplyDeltaHas
<1> DEFINE h == [k \in 0..m + n |-> IF k <= m THEN f[k] ELSE g[k - m]]
           pq == p \o q
<1>4. \A k \in 0..m : h[k] = f[k]
  BY <1>1
<1>5. \A k \in 0..n : h[m + k] = g[k]
  <2> TAKE k \in 0..n
  <2>1. CASE k = 0
    BY <1>1, <1>3, <2>1 DEF Steps
  <2>2. CASE k # 0
    <3>1. m + k \in 0..m + n /\ ~(m + k <= m) /\ (m + k) - m = k
      BY <1>1, <2>2
    <3> QED BY <3>1
  <2> QED BY <2>1, <2>2
<1> HIDE DEF h
<1>6. ASSUME NEW k \in 1..m + n PROVE h[k] = ApplyOperation(h[k - 1], pq[k])
  <2>1. CASE k <= m
    <3>1. k \in 1..m /\ k \in 0..m /\ k - 1 \in 0..m
      BY <1>1, <2>1
    <3> QED BY <1>1, <1>2, <1>4, <2>1, <3>1 DEF Steps
  <2>2. CASE ~(k <= m)
    <3> DEFINE j == k - m
    <3>1. j \in 1..n /\ j \in 0..n /\ j - 1 \in 0..n /\ m + j = k /\ m + (j - 1) = k - 1
      BY <1>1, <2>2
    <3>2. pq[k] = q[j]
      BY <1>1, <2>2
    <3> HIDE DEF j
    <3>3. h[k] = g[j] /\ h[k - 1] = g[j - 1]
      BY <1>5, <3>1
    <3> QED BY <1>3, <3>1, <3>2, <3>3 DEF Steps
  <2> QED BY <2>1, <2>2
<1>7. Steps(h, doc, pq, m + n)
  <2>1. h[0] = doc
    BY <1>1, <1>2, <1>4 DEF Steps
  <2> QED BY <1>6, <2>1 DEF Steps
<1>8. ApplyDelta(doc, pq) = h[m + n]
  <2>1. Len(pq) = m + n /\ Len(pq) \in Nat
    BY <1>1
  <2>2. Steps(h, doc, pq, Len(pq))
    BY <1>7, <2>1
  <2> HIDE DEF pq
  <2>3. ApplyDelta(doc, pq) = h[Len(pq)]
    BY <2>1, <2>2, ApplyDeltaIs
  <2> QED BY <2>1, <2>3
<1>9. h[m + n] = g[n]
  BY <1>1, <1>5
<1> QED BY <1>2, <1>3, <1>8, <1>9
-----------------------------------------------------------------------------
(* One operation, along its path.                                          *)

\* The nodes down a path, ...
Downward(down, node, path, last) ==
  down[0] = node /\ \A i \in 1..last : down[i] = Part(down[i - 1], path[i])

\* ... and what comes of them.
Walked(down, up, node, path, o, last) ==
  /\ Downward(down, node, path, last)
  /\ up[last] = AtLeaf(down[last], path[last + 1], o)
  /\ \A i \in 0..last - 1 : up[i] = With(down[i], path[i + 1], up[i + 1])

\* The nodes down a path are determined.
LEMMA DownAgrees ==
  ASSUME NEW node, NEW path, NEW last \in Nat, NEW f, NEW g,
         Downward(f, node, path, last), Downward(g, node, path, last)
  PROVE  \A i \in 0..last : f[i] = g[i]
<1> DEFINE S == {i \in 0..last : f[i] = g[i]}
<1>1. 0 \in S
  BY DEF Downward
<1>2. \A i \in 0..last : i < last /\ i \in S => i + 1 \in S
  <2> TAKE i \in 0..last
  <2> HAVE i < last /\ i \in S
  <2>1. i + 1 \in 1..last /\ (i + 1) - 1 = i /\ i + 1 \in 0..last
    OBVIOUS
  <2>2. f[i + 1] = Part(f[i], path[i + 1]) /\ g[i + 1] = Part(g[i], path[i + 1])
    BY <2>1 DEF Downward
  <2> QED BY <2>1, <2>2
<1> HIDE DEF S
<1>3. \A i \in 0..last : i \in S
  BY <1>1, <1>2, InductionTo
<1> QED BY <1>3 DEF S

\* There are nodes down a path.
LEMMA DownExists ==
  ASSUME NEW node, NEW path, NEW last \in Nat
  PROVE  \E f : Downward(f, node, path, last)
<1> DEFINE S == {n \in 0..last : \E f : Downward(f, node, path, n)}
<1>1. 0 \in S
  <2>1. Downward([i \in {0} |-> node], node, path, 0)
    BY DEF Downward
  <2> QED BY <2>1
<1>2. \A n \in 0..last : n < last /\ n \in S => n + 1 \in S
  <2> TAKE n \in 0..last
  <2> HAVE n < last /\ n \in S
  <2>1. PICK f : Downward(f, node, path, n)
    OBVIOUS
  <2> DEFINE g == [i \in 0..n + 1 |-> IF i <= n THEN f[i] ELSE Part(f[n], path[n + 1])]
  <2>2. (\A i \in 0..n : g[i] = f[i]) /\ g[n + 1] = Part(f[n], path[n + 1])
    OBVIOUS
  <2> HIDE DEF g
  <2>3. ASSUME NEW i \in 1..n + 1 PROVE g[i] = Part(g[i - 1], path[i])
    <3>1. CASE i \in 1..n
      <4>1. i - 1 \in 0..n /\ i \in 0..n
        BY <3>1
      <4> QED BY <2>1, <2>2, <3>1, <4>1 DEF Downward
    <3>2. CASE i = n + 1
      <4>1. i - 1 = n /\ n \in 0..n
        BY <3>2
      <4> QED BY <2>2, <3>2, <4>1
    <3> QED BY <3>1, <3>2
  <2>4. Downward(g, node, path, n + 1)
    BY <2>1, <2>2, <2>3 DEF Downward
  <2> QED BY <2>4
<1> HIDE DEF S
<1>3. \A n \in 0..last : n \in S
  BY <1>1, <1>2, InductionTo
<1> QED BY <1>3 DEF S

\* And something comes of them.
LEMMA WalkExists ==
  ASSUME NEW node, NEW path, NEW o, NEW last \in Nat
  PROVE  \E down, up : Walked(down, up, node, path, o, last)
<1>1. PICK f : Downward(f, node, path, last)
  BY DownExists
<1> DEFINE U(g, n) == /\ g[last] = AtLeaf(f[last], path[last + 1], o)
                      /\ \A i \in last - n..last - 1 : g[i] = With(f[i], path[i + 1], g[i + 1])
           S == {n \in 0..last : \E g : U(g, n)}
<1>2. 0 \in S
  <2>1. U([i \in {last} |-> AtLeaf(f[last], path[last + 1], o)], 0)
    OBVIOUS
  <2> QED BY <2>1
<1>3. \A n \in 0..last : n < last /\ n \in S => n + 1 \in S
  <2> TAKE n \in 0..last
  <2> HAVE n < last /\ n \in S
  <2>1. PICK g : U(g, n)
    OBVIOUS
  <2> DEFINE j == last - (n + 1)
             h == [i \in j..last |-> IF i = j THEN With(f[j], path[j + 1], g[j + 1]) ELSE g[i]]
  <2>2. j \in 0..last - 1 /\ j + 1 = last - n /\ j + 1 \in 1..last
    OBVIOUS
  <2> HIDE DEF j
  <2>3. h[j] = With(f[j], path[j + 1], g[j + 1]) /\ \A i \in j + 1..last : h[i] = g[i]
    BY <2>2
  <2> HIDE DEF h
  <2>4. ASSUME NEW i \in j..last - 1 PROVE h[i] = With(f[i], path[i + 1], h[i + 1])
    <3>1. CASE i = j
      <4>1. h[j + 1] = g[j + 1]
        BY <2>2, <2>3
      <4> QED BY <2>3, <3>1, <4>1
    <3>2. CASE i # j
      <4>1. i \in j + 1..last /\ i + 1 \in j + 1..last /\ i \in last - n..last - 1
        BY <2>2, <3>2
      <4>2. h[i] = g[i] /\ h[i + 1] = g[i + 1]
        BY <2>3, <4>1
      <4> QED BY <2>1, <4>1, <4>2
    <3> QED BY <3>1, <3>2
  <2>5. h[last] = g[last]
    BY <2>2, <2>3
  <2>6. U(h, n + 1)
    BY <2>1, <2>4, <2>5 DEF j
  <2> HIDE DEF U
  <2>7. n + 1 \in 0..last
    OBVIOUS
  <2> QED BY <2>6, <2>7
<1> HIDE DEF S
<1>4. \A n \in 0..last : n \in S
  BY <1>2, <1>3, InductionTo
<1>5. PICK g : U(g, last)
  <2>1. last \in S
    BY <1>4
  <2> QED BY <2>1 DEF S
<1>6. Walked(f, g, node, path, o, last)
  BY <1>1, <1>5 DEF Walked
<1> QED BY <1>6

\* Nothing but the path and the operation decides it.
LEMMA WalksAgree ==
  ASSUME NEW node, NEW path, NEW o, NEW last \in Nat, NEW f, NEW g, NEW down, NEW up,
         Walked(f, g, node, path, o, last), Walked(down, up, node, path, o, last)
  PROVE  g[0] = up[0]
<1>1. \A i \in 0..last : f[i] = down[i]
  <2>1. Downward(f, node, path, last) /\ Downward(down, node, path, last)
    BY DEF Walked
  <2> QED BY <2>1, DownAgrees
<1> DEFINE S == {n \in 0..last : g[last - n] = up[last - n]}
<1>2. 0 \in S
  <2>1. last - 0 = last /\ last \in 0..last /\ 0 \in 0..last
    OBVIOUS
  <2>2. g[last] = up[last]
    BY <1>1, <2>1 DEF Walked
  <2> QED BY <2>1, <2>2
<1>3. \A n \in 0..last : n < last /\ n \in S => n + 1 \in S
  <2> TAKE n \in 0..last
  <2> HAVE n < last /\ n \in S
  <2> DEFINE j == last - (n + 1)
  <2>1. j \in 0..last - 1 /\ j \in 0..last /\ j + 1 = last - n /\ n + 1 \in 0..last
    OBVIOUS
  <2> HIDE DEF j
  <2>2. g[j] = With(f[j], path[j + 1], g[j + 1]) /\ up[j] = With(down[j], path[j + 1], up[j + 1])
    BY <2>1 DEF Walked
  <2>3. g[j] = up[j]
    BY <1>1, <2>1, <2>2
  <2> QED BY <2>1, <2>3 DEF j
<1> HIDE DEF S
<1>4. \A n \in 0..last : n \in S
  BY <1>2, <1>3, InductionTo
<1>5. last \in 0..last /\ last - last = 0
  OBVIOUS
<1> QED BY <1>4, <1>5 DEF S

\* AlongPath is what comes of the first node.
LEMMA AlongPathIs ==
  ASSUME NEW node, NEW path, NEW o, Len(path) \in Nat, Len(path) # 0, NEW f, NEW g,
         Walked(f, g, node, path, o, Len(path) - 1)
  PROVE  AlongPath(node, path, o) = g[0]
<1> DEFINE last == Len(path) - 1
           Down(d) == d = [i \in 0..last |-> IF i = 0 THEN node ELSE Part(d[i - 1], path[i])]
           d1 == CHOOSE d : Down(d)
           Up(u) == u = [i \in 0..last |-> IF i = last THEN AtLeaf(d1[i], path[i + 1], o)
                                           ELSE With(d1[i], path[i + 1], u[i + 1])]
           u1 == CHOOSE u : Up(u)
           f0 == [i \in 0..last |-> f[i]]
           g0 == [i \in 0..last |-> g[i]]
<1>0. last \in Nat
  OBVIOUS
<1>1. AlongPath(node, path, o) = u1[0]
  BY DEF AlongPath
<1> HIDE DEF last
<1>w. Walked(f, g, node, path, o, last)
  BY DEF last
<1>2. Down(f0)
  <2>1. \A i \in 0..last : f[i] = IF i = 0 THEN node ELSE Part(f0[i - 1], path[i])
    <3> TAKE i \in 0..last
    <3>1. CASE i = 0
      BY <1>w, <3>1 DEF Walked, Downward
    <3>2. CASE i # 0
      <4>1. i \in 1..last /\ i - 1 \in 0..last
        BY <1>0, <3>2
      <4> QED BY <1>w, <3>2, <4>1 DEF Walked, Downward
    <3> QED BY <3>1, <3>2
  <2> QED BY <2>1
<1>3. Down(d1)
  <2> HIDE DEF Down, f0
  <2> QED BY <1>2
<1>4. Downward(d1, node, path, last)
  <2> HIDE DEF d1
  <2>1. 0 \in 0..last /\ \A i \in 1..last : i \in 0..last /\ i # 0
    BY <1>0
  <2> QED BY <1>3, <2>1 DEF Downward
<1>5. \A i \in 0..last : d1[i] = f[i]
  <2>1. Downward(f, node, path, last)
    BY <1>w DEF Walked
  <2> HIDE DEF d1
  <2> QED BY <1>0, <1>4, <2>1, DownAgrees
<1>6. Up(g0)
  <2> HIDE DEF d1
  <2>1. \A i \in 0..last : g[i] = IF i = last THEN AtLeaf(d1[i], path[i + 1], o)
                                  ELSE With(d1[i], path[i + 1], g0[i + 1])
    <3> TAKE i \in 0..last
    <3>1. CASE i = last
      BY <1>5, <1>w, <3>1 DEF Walked
    <3>2. CASE i # last
      <4>1. i \in 0..last - 1 /\ i + 1 \in 0..last
        BY <1>0, <3>2
      <4> QED BY <1>5, <1>w, <3>2, <4>1 DEF Walked
    <3> QED BY <3>1, <3>2
  <2> QED BY <2>1
<1>7. Up(u1)
  <2> HIDE DEF Up, g0
  <2> QED BY <1>6
<1> HIDE DEF d1, u1
<1>8. Walked(d1, u1, node, path, o, last)
  <2>1. last \in 0..last /\ \A i \in 0..last - 1 : i \in 0..last /\ i # last
    BY <1>0
  <2>2. u1[last] = AtLeaf(d1[last], path[last + 1], o)
    BY <1>7, <2>1
  <2>3. \A i \in 0..last - 1 : u1[i] = With(d1[i], path[i + 1], u1[i + 1])
    BY <1>7, <2>1
  <2> QED BY <1>4, <2>2, <2>3 DEF Walked
<1> QED BY <1>0, <1>1, <1>8, <1>w, WalksAgree

\* A path of one component ends at a part of the document.
LEMMA AlongOne ==
  ASSUME NEW node, NEW step, NEW o
  PROVE  AlongPath(node, <<step>>, o) = AtLeaf(node, step, o)
<1> DEFINE path == <<step>>
           g == [i \in {0} |-> AtLeaf(node, step, o)]
           f == [i \in {0} |-> node]
<1>1. Len(path) = 1 /\ Len(path) - 1 = 0 /\ path[1] = step /\ Len(path) \in Nat /\ Len(path) # 0
  OBVIOUS
<1>2. Walked(f, g, node, path, o, 0)
  BY <1>1 DEF Walked, Downward
<1>3. Walked(f, g, node, path, o, Len(path) - 1)
  BY <1>1, <1>2
<1> HIDE DEF path, f
<1>4. g[0] = AtLeaf(node, step, o)
  OBVIOUS
<1> HIDE DEF g
<1>5. AlongPath(node, path, o) = g[0]
  BY <1>1, <1>3, AlongPathIs
<1> QED BY <1>4, <1>5 DEF path

\* A longer path leads through a part of the document.
LEMMA AlongMore ==
  ASSUME NEW S, NEW step \in S, NEW rest \in Seq(S), rest # <<>>, NEW node, NEW o, NEW u,
         u.op = o.op, u.value = o.value
  PROVE  AlongPath(node, <<step>> \o rest, u) =
           With(node, step, AlongPath(Part(node, step), rest, o))
<1> DEFINE path == <<step>> \o rest
           n == Len(rest) - 1
<1>1. /\ Len(rest) \in Nat /\ Len(rest) # 0 /\ n \in Nat
      /\ Len(path) \in Nat /\ Len(path) # 0 /\ Len(path) - 1 = n + 1
      /\ path[1] = step /\ \A i \in 1..n + 1 : path[i + 1] = rest[i]
  <2>1. <<step>> \in Seq(S) /\ Len(<<step>>) = 1 /\ Len(rest) \in Nat /\ Len(rest) # 0
    BY EmptySeq, LenProperties
  <2>2. /\ Len(path) = 1 + Len(rest)
        /\ \A i \in 1..1 + Len(rest) : path[i] = IF i <= 1 THEN <<step>>[i] ELSE rest[i - 1]
    BY <2>1, ConcatProperties
  <2> HIDE DEF path
  <2>3. \A i \in 1..n + 1 : path[i + 1] = rest[i]
    <3> TAKE i \in 1..n + 1
    <3>1. i + 1 \in 1..1 + Len(rest) /\ ~(i + 1 <= 1) /\ (i + 1) - 1 = i
      BY <2>1
    <3> QED BY <2>2, <3>1
  <2>4. path[1] = step
    BY <2>1, <2>2
  <2> QED BY <2>1, <2>2, <2>3, <2>4
<1>2. PICK f, g : Walked(f, g, Part(node, step), rest, o, n)
  BY <1>1, WalkExists
<1>3. AlongPath(Part(node, step), rest, o) = g[0]
  BY <1>1, <1>2, AlongPathIs
<1> DEFINE f1 == [i \in 0..n + 1 |-> IF i = 0 THEN node ELSE f[i - 1]]
           g1 == [i \in 0..n + 1 |-> IF i = 0 THEN With(node, step, g[0]) ELSE g[i - 1]]
<1> HIDE DEF path, n
<1>4. /\ f1[0] = node /\ g1[0] = With(node, step, g[0])
      /\ \A i \in 0..n : f1[i + 1] = f[i] /\ g1[i + 1] = g[i]
  <2>1. 0 \in 0..n + 1 /\ \A i \in 0..n : i + 1 \in 0..n + 1 /\ (i + 1) - 1 = i /\ i + 1 # 0
    BY <1>1
  <2> QED BY <2>1
<1> HIDE DEF f1, g1
<1>5. Downward(f1, node, path, n + 1)
  <2> SUFFICES \A i \in 1..n + 1 : f1[i] = Part(f1[i - 1], path[i])
    BY <1>4 DEF Downward
  <2> TAKE i \in 1..n + 1
  <2>1. CASE i = 1
    <3>1. f1[1] = f[0]
      <4>1. 0 \in 0..n /\ 0 + 1 = 1
        BY <1>1
      <4> QED BY <1>4, <4>1
    <3> QED BY <1>1, <1>2, <1>4, <2>1, <3>1 DEF Walked, Downward
  <2>2. CASE i # 1
    <3> DEFINE j == i - 1
    <3>1. j \in 1..n /\ j \in 0..n /\ j - 1 \in 0..n /\ j + 1 = i /\ (j - 1) + 1 = j /\ i - 1 = j
          /\ j \in 1..n + 1
      BY <1>1, <2>2
    <3> HIDE DEF j
    <3>2. f1[i] = f[j] /\ f1[j] = f[j - 1] /\ path[i] = rest[j]
      BY <1>1, <1>4, <3>1
    <3> QED BY <1>2, <3>1, <3>2 DEF Walked, Downward
  <2> QED BY <2>1, <2>2
<1>6. g1[n + 1] = AtLeaf(f1[n + 1], path[(n + 1) + 1], u)
  <2>1. n \in 0..n /\ n + 1 \in 1..n + 1
    BY <1>1
  <2>2. g1[n + 1] = AtLeaf(f1[n + 1], path[(n + 1) + 1], o)
    BY <1>1, <1>2, <1>4, <2>1 DEF Walked
  <2> QED BY <2>2 DEF AtLeaf
<1>7. \A i \in 0..(n + 1) - 1 : g1[i] = With(f1[i], path[i + 1], g1[i + 1])
  <2> TAKE i \in 0..(n + 1) - 1
  <2>1. CASE i = 0
    <3>1. g1[1] = g[0]
      <4>1. 0 \in 0..n /\ 0 + 1 = 1
        BY <1>1
      <4> QED BY <1>4, <4>1
    <3> QED BY <1>1, <1>4, <2>1, <3>1
  <2>2. CASE i # 0
    <3> DEFINE j == i - 1
    <3>1. j \in 0..n - 1 /\ j \in 0..n /\ j + 1 = i /\ i \in 0..n /\ i \in 1..n + 1
      BY <1>1, <2>2
    <3> HIDE DEF j
    <3>2. g1[i] = g[j] /\ f1[i] = f[j] /\ g1[i + 1] = g[i] /\ path[i + 1] = rest[i]
      BY <1>1, <1>4, <3>1
    <3>3. g[j] = With(f[j], rest[j + 1], g[j + 1])
      BY <1>2, <3>1 DEF Walked
    <3> QED BY <3>1, <3>2, <3>3
  <2> QED BY <2>1, <2>2
<1>8. Walked(f1, g1, node, path, u, Len(path) - 1)
  BY <1>1, <1>4, <1>5, <1>6, <1>7 DEF Walked
<1>9. AlongPath(node, path, u) = g1[0]
  BY <1>1, <1>8, AlongPathIs
<1> QED BY <1>3, <1>4, <1>9 DEF path
-----------------------------------------------------------------------------
(* Operations on a part of a document.                                     *)

\* The document has a part at the step.
HasPart(node, step) ==
  \/ /\ node = Object(node.keys) /\ node.keys = [k \in DOMAIN node.keys |-> node.keys[k]]
     /\ step.key \in DOMAIN node.keys /\ step.key # None
  \/ /\ node = List(node.items) /\ node.items = [k \in DOMAIN node.items |-> node.items[k]]
     /\ step.index \in DOMAIN node.items

\* Objects and lists hold what they are made of.
LEMMA Made ==
  ASSUME NEW x
  PROVE  /\ Object(x).type = "object" /\ Object(x).keys = x
         /\ List(x).type = "list" /\ List(x).items = x
         /\ Object(x) # Raised /\ List(x) # Raised
BY DEF Object, List, Raised, Atom

\* What is put at a step is the part there, and replaces what was put there before.
LEMMA PutAtStep ==
  ASSUME NEW node, NEW step, HasPart(node, step), NEW x, x # Raised
  PROVE  /\ HasPart(With(node, step, x), step) /\ Part(With(node, step, x), step) = x
         /\ With(node, step, x) # Raised
         /\ \A y : With(With(node, step, x), step, y) = With(node, step, y)
         /\ Part(node, step) # Raised => With(node, step, Part(node, step)) = node
<1>1. CASE /\ node = Object(node.keys) /\ node.keys = [k \in DOMAIN node.keys |-> node.keys[k]]
           /\ step.key \in DOMAIN node.keys /\ step.key # None
  <2> DEFINE f == node.keys
             g == [f EXCEPT ![step.key] = x]
  <2>1. node.type = "object" /\ Part(node, step) = f[step.key]
    BY <1>1, Made DEF Part
  <2>2. With(node, step, x) = Object(g)
    BY <2>1 DEF With
  <2>3. DOMAIN g = DOMAIN f /\ g = [k \in DOMAIN g |-> g[k]] /\ g[step.key] = x
    BY <1>1
  <2>4. \A y : [g EXCEPT ![step.key] = y] = [f EXCEPT ![step.key] = y]
    BY <1>1
  <2>5. [f EXCEPT ![step.key] = f[step.key]] = f
    BY <1>1
  <2> HIDE DEF f, g
  <2>6. Object(g).type = "object" /\ Object(g).keys = g /\ Object(g) # Raised /\ node = Object(f)
    BY <1>1, Made DEF f
  <2>7. HasPart(Object(g), step) /\ Part(Object(g), step) = x
    BY <1>1, <2>3, <2>6 DEF HasPart, Part, f
  <2>8. ASSUME NEW y PROVE With(Object(g), step, y) = With(node, step, y)
    BY <2>1, <2>4, <2>6, Made DEF With, f
  <2>9. Part(node, step) # Raised => With(node, step, Part(node, step)) = node
    BY <2>1, <2>5, <2>6 DEF With, f
  <2> QED BY <2>2, <2>6, <2>7, <2>8, <2>9
<1>2. CASE /\ node = List(node.items) /\ node.items = [k \in DOMAIN node.items |-> node.items[k]]
           /\ step.index \in DOMAIN node.items
  <2> DEFINE f == node.items
             g == [f EXCEPT ![step.index] = x]
  <2>1. node.type = "list" /\ Part(node, step) = f[step.index]
    BY <1>2, Made DEF Part
  <2>2. With(node, step, x) = List(g)
    BY <2>1 DEF With
  <2>3. DOMAIN g = DOMAIN f /\ g = [k \in DOMAIN g |-> g[k]] /\ g[step.index] = x
    BY <1>2
  <2>4. \A y : [g EXCEPT ![step.index] = y] = [f EXCEPT ![step.index] = y]
    BY <1>2
  <2>5. [f EXCEPT ![step.index] = f[step.index]] = f
    BY <1>2
  <2> HIDE DEF f, g
  <2>6. List(g).type = "list" /\ List(g).items = g /\ List(g) # Raised /\ node = List(f)
    BY <1>2, Made DEF f
  <2>7. HasPart(List(g), step) /\ Part(List(g), step) = x
    BY <1>2, <2>3, <2>6 DEF HasPart, Part, f
  <2>8. ASSUME NEW y PROVE With(List(g), step, y) = With(node, step, y)
    BY <2>1, <2>4, <2>6, Made DEF With, f
  <2>9. Part(node, step) # Raised => With(node, step, Part(node, step)) = node
    BY <2>1, <2>5, <2>6 DEF With, f
  <2> QED BY <2>2, <2>6, <2>7, <2>8, <2>9
<1> QED BY <1>1, <1>2 DEF HasPart

\* An operation under a step is the operation on the part there.
LEMMA OperationUnder ==
  ASSUME NEW S, NEW node, NEW step \in S, HasPart(node, step), Part(node, step) # Raised,
         NEW o, o.path \in Seq(S), ApplyOperation(Part(node, step), o) # Raised
  PROVE  ApplyOperation(node, Operation(o.op, <<step>> \o o.path, o.value)) =
           With(node, step, ApplyOperation(Part(node, step), o))
<1> DEFINE u == Operation(o.op, <<step>> \o o.path, o.value)
           part == Part(node, step)
<1>1. u.op = o.op /\ u.path = <<step>> \o o.path /\ u.value = o.value
  BY DEF Operation
<1>2. node # Raised
  BY Made DEF HasPart
<1>3. Len(u.path) = 1 + Len(o.path) /\ Len(o.path) \in Nat
  <2>1. <<step>> \in Seq(S) /\ Len(<<step>>) = 1
    OBVIOUS
  <2> QED BY <1>1, <2>1, ConcatProperties, LenProperties
<1>4. u.path # <<>>
  <2>1. Len(<<>>) = 0
    OBVIOUS
  <2> QED BY <1>3, <2>1
<1> HIDE DEF u, part
<1>5. ApplyOperation(node, u) = AlongPath(node, u.path, u)
  BY <1>2, <1>4 DEF ApplyOperation
<1>6. CASE o.path = <<>>
  <2>1. o.op = "set" /\ ApplyOperation(part, o) = o.value /\ o.value # Raised
    BY <1>6 DEF ApplyOperation, part
  <2>2. u.path = <<step>>
    <3>1. <<step>> \in Seq(S)
      OBVIOUS
    <3> QED BY <1>1, <1>6, <3>1, ConcatEmptySeq
  <2>3. ApplyOperation(node, u) = AtLeaf(node, step, u)
    BY <1>5, <2>2, AlongOne
  <2>4. AtLeaf(node, step, u) = With(node, step, o.value)
    <3>1. CASE /\ node = Object(node.keys) /\ node.keys = [k \in DOMAIN node.keys |-> node.keys[k]]
               /\ step.key \in DOMAIN node.keys /\ step.key # None
      <4>1. node.type = "object"
        BY <3>1, Made
      <4>2. [key \in DOMAIN node.keys \cup {step.key} |->
               IF key = step.key THEN o.value ELSE node.keys[key]]
            = [node.keys EXCEPT ![step.key] = o.value]
        BY <3>1
      <4> QED BY <1>1, <2>1, <3>1, <4>1, <4>2 DEF AtLeaf, With
    <3>2. CASE /\ node = List(node.items) /\ node.items = [k \in DOMAIN node.items |-> node.items[k]]
               /\ step.index \in DOMAIN node.items
      <4>1. node.type = "list"
        BY <3>2, Made
      <4> QED BY <1>1, <2>1, <3>2, <4>1 DEF AtLeaf, With
    <3> QED BY <3>1, <3>2 DEF HasPart
  <2> QED BY <2>1, <2>3, <2>4 DEF part, u
<1>7. CASE o.path # <<>>
  <2>1. AlongPath(node, u.path, u) = With(node, step, AlongPath(part, o.path, o))
    BY <1>1, <1>7, AlongMore DEF part
  <2>2. ApplyOperation(part, o) = AlongPath(part, o.path, o)
    BY <1>7 DEF ApplyOperation, part
  <2> QED BY <1>5, <2>1, <2>2 DEF part, u
<1> QED BY <1>6, <1>7

\* Once an operation has failed the document is lost.
LEMMA NoneRaised ==
  ASSUME NEW doc, NEW operations, NEW n \in Nat, NEW f, Steps(f, doc, operations, n),
         f[n] # Raised
  PROVE  \A k \in 0..n : f[k] # Raised
<1> SUFFICES ASSUME NEW j \in 0..n, f[j] = Raised PROVE FALSE
  OBVIOUS
<1> DEFINE S == {k \in 0..n : k >= j => f[k] = Raised}
<1>1. 0 \in S
  <2>1. 0 >= j => j = 0
    OBVIOUS
  <2> QED BY <2>1
<1>2. \A k \in 0..n : k < n /\ k \in S => k + 1 \in S
  <2> TAKE k \in 0..n
  <2> HAVE k < n /\ k \in S
  <2>1. k + 1 \in 0..n /\ k + 1 \in 1..n /\ (k + 1) - 1 = k
    OBVIOUS
  <2>2. CASE k >= j
    <3>1. f[k + 1] = ApplyOperation(f[k], operations[k + 1]) /\ f[k] = Raised
      BY <2>1, <2>2 DEF Steps
    <3>2. f[k + 1] = Raised
      BY <3>1 DEF ApplyOperation
    <3> QED BY <2>1, <3>2
  <2>3. CASE ~(k >= j)
    <3>1. k + 1 >= j => k + 1 = j
      BY <2>3
    <3> QED BY <2>1, <3>1
  <2> QED BY <2>2, <2>3
<1> HIDE DEF S
<1>3. \A k \in 0..n : k \in S
  BY <1>1, <1>2, InductionTo
<1>4. n \in 0..n /\ n >= j
  OBVIOUS
<1> QED BY <1>3, <1>4 DEF S

\* Operations under a step are the operations on the part there.
LEMMA DeltaUnder ==
  ASSUME NEW S, NEW node, NEW step \in S, HasPart(node, step), Part(node, step) # Raised,
         NEW operations, Len(operations) \in Nat,
         \A k \in 1..Len(operations) : operations[k].path \in Seq(S),
         ApplyDelta(Part(node, step), operations) # Raised
  PROVE  ApplyDelta(node, Under(step, operations)) =
           With(node, step, ApplyDelta(Part(node, step), operations))
<1> DEFINE n == Len(operations)
           under == Under(step, operations)
<1>1. PICK f : Steps(f, Part(node, step), operations, n)
               /\ ApplyDelta(Part(node, step), operations) = f[n]
  BY ApplyDeltaHas
<1>2. \A k \in 0..n : f[k] # Raised
  BY <1>1, NoneRaised
<1> DEFINE g == [k \in 0..n |-> With(node, step, f[k])]
<1>3. g[0] = node
  <2>1. f[0] = Part(node, step) /\ f[0] # Raised
    BY <1>1 DEF Steps
  <2>2. With(node, step, Part(node, step)) = node
    BY <2>1, PutAtStep
  <2> QED BY <2>1, <2>2
<1>4. Len(under) = n /\ \A k \in 1..n : under[k] = Operation(operations[k].op, <<step>> \o operations[k].path, operations[k].value)
  BY DEF Under
<1>5. ASSUME NEW k \in 1..n PROVE g[k] = ApplyOperation(g[k - 1], under[k])
  <2> DEFINE m == With(node, step, f[k - 1])
             o == operations[k]
  <2>1. k - 1 \in 0..n /\ k \in 0..n
    OBVIOUS
  <2>2. f[k - 1] # Raised /\ f[k] # Raised /\ f[k] = ApplyOperation(f[k - 1], o) /\ o.path \in Seq(S)
    BY <1>1, <1>2, <2>1 DEF Steps
  <2>3. HasPart(m, step) /\ Part(m, step) = f[k - 1] /\ With(m, step, f[k]) = With(node, step, f[k])
    BY <2>2, PutAtStep
  <2>4. g[k - 1] = m /\ g[k] = With(node, step, f[k])
    BY <2>1
  <2>5. under[k] = Operation(o.op, <<step>> \o o.path, o.value)
    BY <1>4
  <2> HIDE DEF m, o, g, under
  <2>6. ApplyOperation(m, Operation(o.op, <<step>> \o o.path, o.value)) = With(m, step, ApplyOperation(f[k - 1], o))
    BY <2>2, <2>3, OperationUnder
  <2> QED BY <2>2, <2>3, <2>4, <2>5, <2>6
<1>6. g[n] = With(node, step, f[n])
  BY <1>1
<1> HIDE DEF g, under
<1>7. Steps(g, node, under, Len(under)) /\ Len(under) \in Nat
  BY <1>3, <1>4, <1>5 DEF Steps
<1>8. ApplyDelta(node, under) = g[n]
  BY <1>4, <1>7, ApplyDeltaIs
<1> QED BY <1>1, <1>6, <1>8 DEF under
-----------------------------------------------------------------------------
(* Lists of operations.                                                    *)

Step == [key : Key \cup {None}, index : Nat]
Values == (UNION {Documents[n] : n \in 0..Depth}) \cup {None}
Op == [op : {"set", "delete"}, path : Seq(Step), value : Values]

\* No operation.
LEMMA ApplyNothing ==
  ASSUME NEW doc
  PROVE  ApplyDelta(doc, <<>>) = doc
<1> DEFINE f == [k \in {0} |-> doc]
<1>1. Len(<<>>) = 0 /\ Len(<<>>) \in Nat
  OBVIOUS
<1>2. Steps(f, doc, <<>>, Len(<<>>)) /\ f[0] = doc
  BY <1>1 DEF Steps
<1> HIDE DEF f
<1> QED BY <1>1, <1>2, ApplyDeltaIs

\* One operation.
LEMMA ApplyOne ==
  ASSUME NEW doc, NEW o
  PROVE  ApplyDelta(doc, <<o>>) = ApplyOperation(doc, o)
<1> DEFINE f == [k \in {0, 1} |-> IF k = 0 THEN doc ELSE ApplyOperation(doc, o)]
           one == <<o>>
<1>1. Len(one) = 1 /\ Len(one) \in Nat /\ one[1] = o
  OBVIOUS
<1>2. f[0] = doc /\ f[1] = ApplyOperation(doc, o)
  OBVIOUS
<1> HIDE DEF f, one
<1>3. \A k \in 1..1 : k = 1 /\ k - 1 = 0
  OBVIOUS
<1>4. Steps(f, doc, one, Len(one))
  BY <1>1, <1>2, <1>3 DEF Steps
<1>5. ApplyDelta(doc, one) = f[Len(one)]
  BY <1>1, <1>4, ApplyDeltaIs
<1> QED BY <1>1, <1>2, <1>5 DEF one

\* Lists of lists are joined from the first one on.
JoinedBy(J, parts, n) ==
  J[0] = <<>> /\ \A k \in 1..n : J[k] = J[k - 1] \o parts[k]

\* The lists joined so far exist.
LEMMA JoinedExists ==
  ASSUME NEW parts, NEW n \in Nat
  PROVE  \E J : J = [k \in 0..n |-> IF k = 0 THEN <<>> ELSE J[k - 1] \o parts[k]]
<1> DEFINE S == {m \in 0..n : \E J : JoinedBy(J, parts, m)}
<1>1. 0 \in S
  <2>1. JoinedBy([k \in {0} |-> <<>>], parts, 0)
    BY DEF JoinedBy
  <2> QED BY <2>1
<1>2. \A m \in 0..n : m < n /\ m \in S => m + 1 \in S
  <2> TAKE m \in 0..n
  <2> HAVE m < n /\ m \in S
  <2>1. PICK J : JoinedBy(J, parts, m)
    OBVIOUS
  <2> DEFINE K == [k \in 0..m + 1 |-> IF k <= m THEN J[k] ELSE J[m] \o parts[m + 1]]
  <2>2. (\A k \in 0..m : K[k] = J[k]) /\ K[m + 1] = J[m] \o parts[m + 1]
    OBVIOUS
  <2> HIDE DEF K
  <2>3. ASSUME NEW k \in 1..m + 1 PROVE K[k] = K[k - 1] \o parts[k]
    <3>1. CASE k \in 1..m
      <4>1. k - 1 \in 0..m /\ k \in 0..m
        BY <3>1
      <4> QED BY <2>1, <2>2, <3>1, <4>1 DEF JoinedBy
    <3>2. CASE k = m + 1
      <4>1. k - 1 = m /\ m \in 0..m
        BY <3>2
      <4> QED BY <2>2, <3>2, <4>1
    <3>3. k \in 1..m \/ k = m + 1
      OBVIOUS
    <3> QED BY <3>1, <3>2, <3>3, Zenon
  <2>4. JoinedBy(K, parts, m + 1)
    <3>1. K[0] = <<>>
      BY <2>1, <2>2 DEF JoinedBy
    <3> QED BY <2>3, <3>1, Zenon DEF JoinedBy
  <2> QED BY <2>4
<1> HIDE DEF S
<1>3. \A m \in 0..n : m \in S
  BY <1>1, <1>2, InductionTo
<1>4. PICK J : JoinedBy(J, parts, n)
  BY <1>3 DEF S
<1> DEFINE K == [k \in 0..n |-> J[k]]
<1>5. \A k \in 0..n : J[k] = IF k = 0 THEN <<>> ELSE K[k - 1] \o parts[k]
  <2> TAKE k \in 0..n
  <2>1. CASE k = 0
    BY <1>4, <2>1 DEF JoinedBy
  <2>2. CASE k # 0
    <3>1. k \in 1..n /\ k - 1 \in 0..n
      BY <2>2
    <3> QED BY <1>4, <2>2, <3>1 DEF JoinedBy
  <2> QED BY <2>1, <2>2
<1>6. K = [k \in 0..n |-> IF k = 0 THEN <<>> ELSE K[k - 1] \o parts[k]]
  BY <1>5
<1> HIDE DEF K
<1> QED BY <1>6

\* Joined is the last of them.
LEMMA JoinedHas ==
  ASSUME NEW parts, Len(parts) \in Nat
  PROVE  \E J : JoinedBy(J, parts, Len(parts)) /\ Joined(parts) = J[Len(parts)]
<1> DEFINE n == Len(parts)
           Is(J) == J = [k \in 0..n |-> IF k = 0 THEN <<>> ELSE J[k - 1] \o parts[k]]
           J1 == CHOOSE J : Is(J)
<1>1. Is(J1)
  <2>1. \E J : Is(J)
    BY JoinedExists
  <2> HIDE DEF Is
  <2> QED BY <2>1
<1>2. Joined(parts) = J1[n]
  BY DEF Joined
<1> HIDE DEF J1
<1>3. JoinedBy(J1, parts, n)
  <2>1. 0 \in 0..n /\ \A k \in 1..n : k \in 0..n /\ k # 0
    OBVIOUS
  <2> QED BY <1>1, <2>1 DEF JoinedBy
<1> QED BY <1>2, <1>3

\* Lists that lead from each document to the next lead, joined, from the first to the
\* last.
LEMMA JoinedLeads ==
  ASSUME NEW S, NEW parts, Len(parts) \in Nat, NEW v,
         \A k \in 1..Len(parts) : /\ parts[k] \in Seq(S)
                                  /\ ApplyDelta(v[k - 1], parts[k]) = v[k]
  PROVE  Joined(parts) \in Seq(S) /\ ApplyDelta(v[0], Joined(parts)) = v[Len(parts)]
<1> DEFINE n == Len(parts)
<1>1. PICK J : JoinedBy(J, parts, n) /\ Joined(parts) = J[n]
  BY JoinedHas
<1> DEFINE T == {k \in 0..n : J[k] \in Seq(S) /\ ApplyDelta(v[0], J[k]) = v[k]}
<1>2. 0 \in T
  <2>1. J[0] = <<>>
    BY <1>1 DEF JoinedBy
  <2>2. <<>> \in Seq(S)
    BY EmptySeq
  <2>3. ApplyDelta(v[0], J[0]) = v[0]
    BY <2>1, ApplyNothing
  <2>4. 0 \in 0..n
    OBVIOUS
  <2> QED BY <2>1, <2>2, <2>3, <2>4, Zenon
<1>3. \A k \in 0..n : k < n /\ k \in T => k + 1 \in T
  <2> TAKE k \in 0..n
  <2> HAVE k < n /\ k \in T
  <2>1. k + 1 \in 1..n /\ (k + 1) - 1 = k /\ k + 1 \in 0..n
    OBVIOUS
  <2>2. J[k + 1] = J[k] \o parts[k + 1]
    BY <1>1, <2>1 DEF JoinedBy
  <2>3. parts[k + 1] \in Seq(S) /\ ApplyDelta(v[k], parts[k + 1]) = v[k + 1]
    BY <2>1
  <2>4. J[k] \in Seq(S) /\ ApplyDelta(v[0], J[k]) = v[k]
    OBVIOUS
  <2>5. J[k + 1] \in Seq(S)
    BY <2>2, <2>3, <2>4, ConcatProperties
  <2>6. ApplyDelta(v[0], J[k + 1]) = v[k + 1]
    BY <2>2, <2>3, <2>4, ApplyConcat
  <2> QED BY <2>1, <2>5, <2>6
<1> HIDE DEF T
<1>4. \A k \in 0..n : k \in T
  BY <1>2, <1>3, InductionTo
<1>5. n \in T
  BY <1>4
<1> QED BY <1>1, <1>5 DEF T

\* Operations under a step are operations.
LEMMA UnderTyped ==
  ASSUME NEW step \in Step, NEW operations \in Seq(Op)
  PROVE  Under(step, operations) \in Seq(Op)
<1>1. Len(operations) \in Nat
  BY LenProperties
<1>2. ASSUME NEW k \in 1..Len(operations)
      PROVE  Operation(operations[k].op, <<step>> \o operations[k].path, operations[k].value) \in Op
  <2>1. operations[k] \in Op
    BY ElementOfSeq
  <2>2. operations[k].path \in Seq(Step) /\ operations[k].op \in {"set", "delete"}
        /\ operations[k].value \in Values
    BY <2>1 DEF Op
  <2>3. <<step>> \in Seq(Step)
    OBVIOUS
  <2>4. <<step>> \o operations[k].path \in Seq(Step)
    BY <2>2, <2>3, ConcatProperties
  <2> QED BY <2>2, <2>4 DEF Operation, Op
<1> QED BY <1>1, <1>2 DEF Under
-----------------------------------------------------------------------------
(* Deltas between documents.                                               *)

Leads(operations, before, after) ==
  operations \in Seq(Op) /\ ApplyDelta(before, operations) = after

\* The constants.
LEMMA KeysTyped ==
  /\ LastKey \in Nat /\ Key = 1..LastKey /\ None \notin Key /\ None \in Values
  /\ \A k \in Key : Member(k) \in Step /\ Member(k).key = k
  /\ \A k \in Nat : Element(k) \in Step /\ Element(k).index = k
<1>1. LastKey \in Nat
  BY LedgerConstants
<1>2. \A k \in Key : k \in Nat
  BY <1>1 DEF Key
<1> QED BY <1>1, <1>2, NoneIsNoValue DEF Key, Member, Element, Step, Values

\* The whole document is replaced.
LEMMA SetRoot ==
  ASSUME NEW doc, doc # Raised, NEW a \in Values
  PROVE  Leads(Set(<<>>, a), doc, a)
<1> DEFINE o == Operation("set", <<>>, a)
<1>1. o.op = "set" /\ o.path = <<>> /\ o.value = a
  BY DEF Operation
<1>2. o \in Op
  <2>1. <<>> \in Seq(Step)
    BY EmptySeq
  <2> QED BY <2>1 DEF Operation, Op
<1> HIDE DEF o
<1>3. ApplyOperation(doc, o) = a
  BY <1>1 DEF ApplyOperation
<1>4. ApplyDelta(doc, <<o>>) = a /\ <<o>> \in Seq(Op)
  BY <1>2, <1>3, ApplyOne
<1> QED BY <1>4 DEF Leads, Set, o

\* An operation with one component is one on that part.
LEMMA AtOne ==
  ASSUME NEW node, node # Raised, NEW step \in Step, NEW op \in {"set", "delete"},
         NEW value \in Values
  PROVE  LET o == Operation(op, <<step>>, value)
         IN  <<o>> \in Seq(Op) /\ ApplyDelta(node, <<o>>) = AtLeaf(node, step, o)
             /\ o.op = op /\ o.value = value
<1> DEFINE o == Operation(op, <<step>>, value)
<1>1. o.op = op /\ o.path = <<step>> /\ o.value = value
  BY DEF Operation
<1>2. o \in Op
  BY DEF Operation, Op
<1>3. <<step>> # <<>>
  OBVIOUS
<1> HIDE DEF o
<1>4. ApplyOperation(node, o) = AtLeaf(node, step, o)
  BY <1>1, <1>3, AlongOne DEF ApplyOperation
<1>5. ApplyDelta(node, <<o>>) = AtLeaf(node, step, o) /\ <<o>> \in Seq(Op)
  BY <1>2, <1>4, ApplyOne
<1> QED BY <1>1, <1>5 DEF o

\* A key goes.
LEMMA DeleteMember ==
  ASSUME NEW D, NEW f, NEW key \in Key, key \in D
  PROVE  Leads(Delete(<<Member(key)>>), Object([j \in D |-> f[j]]),
               Object([j \in D \ {key} |-> f[j]]))
<1> DEFINE h == [j \in D |-> f[j]]
           o == Operation("delete", <<Member(key)>>, None)
<1>1. Member(key) \in Step /\ Member(key).key = key /\ key # None /\ None \in Values
  BY KeysTyped
<1>2. Object(h) # Raised /\ Object(h).type = "object" /\ Object(h).keys = h
  BY Made
<1>3. DOMAIN h = D /\ [j \in D \ {key} |-> h[j]] = [j \in D \ {key} |-> f[j]]
  OBVIOUS
<1> HIDE DEF h
<1>4. <<o>> \in Seq(Op) /\ ApplyDelta(Object(h), <<o>>) = AtLeaf(Object(h), Member(key), o)
      /\ o.op = "delete"
  BY <1>1, <1>2, AtOne
<1>5. AtLeaf(Object(h), Member(key), o) = Object([j \in DOMAIN h \ {key} |-> h[j]])
  BY <1>1, <1>2, <1>3, <1>4 DEF AtLeaf
<1> QED BY <1>3, <1>4, <1>5 DEF Leads, Delete, h

\* With one more key, or another value under it.
Added(h, key, value) == [j \in DOMAIN h \cup {key} |-> IF j = key THEN value ELSE h[j]]

\* A key is there, with a value.
LEMMA SetMember ==
  ASSUME NEW h, NEW key \in Key, NEW value \in Values
  PROVE  Leads(Set(<<Member(key)>>, value), Object(h), Object(Added(h, key, value)))
<1> DEFINE o == Operation("set", <<Member(key)>>, value)
<1>1. Member(key) \in Step /\ Member(key).key = key /\ key # None
  BY KeysTyped
<1>2. Object(h) # Raised /\ Object(h).type = "object" /\ Object(h).keys = h
  BY Made
<1>4. <<o>> \in Seq(Op) /\ ApplyDelta(Object(h), <<o>>) = AtLeaf(Object(h), Member(key), o)
      /\ o.op = "set" /\ o.value = value
  BY <1>1, <1>2, AtOne
<1> HIDE DEF o
<1>5. AtLeaf(Object(h), Member(key), o)
      = Object(Added(h, key, value))
  BY <1>1, <1>2, <1>4 DEF AtLeaf, Added
<1> QED BY <1>4, <1>5 DEF Leads, Set, o

\* A part of the document changes.
LEMMA ChangePart ==
  ASSUME NEW node, NEW step \in Step, HasPart(node, step), NEW operations, NEW b, NEW a,
         Part(node, step) = b, b # Raised, a # Raised, Leads(operations, b, a)
  PROVE  Leads(Under(step, operations), node, With(node, step, a))
<1>1. operations \in Seq(Op) /\ Len(operations) \in Nat
  BY LenProperties DEF Leads
<1>2. \A k \in 1..Len(operations) : operations[k].path \in Seq(Step)
  <2> TAKE k \in 1..Len(operations)
  <2>1. operations[k] \in Op
    BY <1>1, ElementOfSeq
  <2> QED BY <2>1 DEF Op
<1>3. ApplyDelta(Part(node, step), operations) = a
  BY DEF Leads
<1>4. ApplyDelta(node, Under(step, operations)) = With(node, step, a)
  BY <1>1, <1>2, <1>3, DeltaUnder
<1>5. Under(step, operations) \in Seq(Op)
  BY <1>1, UnderTyped
<1> QED BY <1>4, <1>5 DEF Leads

\* Joined lists.
LEMMA JoinedParts ==
  ASSUME NEW n \in Nat, NEW parts, Len(parts) = n, NEW v,
         \A k \in 1..n : Leads(parts[k], v[k - 1], v[k])
  PROVE  Leads(Joined(parts), v[0], v[n])
<1>1. \A k \in 1..Len(parts) : parts[k] \in Seq(Op) /\ ApplyDelta(v[k - 1], parts[k]) = v[k]
  BY DEF Leads
<1>2. Joined(parts) \in Seq(Op) /\ ApplyDelta(v[0], Joined(parts)) = v[Len(parts)]
  BY <1>1, JoinedLeads
<1> QED BY <1>2 DEF Leads

\* Nothing to do.
LEMMA LeadsNowhere ==
  ASSUME NEW doc
  PROVE  Leads(<<>>, doc, doc)
BY ApplyNothing, EmptySeq DEF Leads

\* The keys that are gone go.
LEMMA GoneGo ==
  ASSUME NEW f, f = [j \in DOMAIN f |-> f[j]], DOMAIN f \subseteq Key, NEW gone \in SUBSET DOMAIN f
  PROVE  Leads(Joined([k \in Key |-> IF k \in gone THEN Delete(<<Member(k)>>) ELSE <<>>]),
               Object(f), Object([j \in DOMAIN f \ gone |-> f[j]]))
<1> DEFINE parts == [k \in Key |-> IF k \in gone THEN Delete(<<Member(k)>>) ELSE <<>>]
           left(k) == DOMAIN f \ {i \in gone : i <= k}
           v == [k \in 0..LastKey |-> Object([j \in left(k) |-> f[j]])]
<1>1. LastKey \in Nat /\ Key = 1..LastKey
  BY KeysTyped
<1>2. Len(parts) = LastKey
  BY <1>1
<1>3. ASSUME NEW k \in 1..LastKey PROVE Leads(parts[k], v[k - 1], v[k])
  <2>1. k - 1 \in 0..LastKey /\ k \in 0..LastKey /\ k \in Key
    BY <1>1
  <2>2. v[k - 1] = Object([j \in left(k - 1) |-> f[j]]) /\ v[k] = Object([j \in left(k) |-> f[j]])
    BY <2>1
  <2>3. CASE k \in gone
    <3>1. k \in left(k - 1) /\ left(k) = left(k - 1) \ {k}
      BY <1>1, <2>3
    <3>2. parts[k] = Delete(<<Member(k)>>)
      BY <2>1, <2>3
    <3> HIDE DEF left, parts, v
    <3>3. Leads(Delete(<<Member(k)>>), Object([j \in left(k - 1) |-> f[j]]),
                Object([j \in left(k - 1) \ {k} |-> f[j]]))
      BY <2>1, <3>1, DeleteMember
    <3> QED BY <2>2, <3>1, <3>2, <3>3
  <2>4. CASE k \notin gone
    <3>1. left(k) = left(k - 1)
      BY <1>1, <2>4
    <3>2. parts[k] = <<>>
      BY <2>1, <2>4
    <3> HIDE DEF left, parts, v
    <3> QED BY <2>2, <3>1, <3>2, LeadsNowhere
  <2> QED BY <2>3, <2>4
<1>4. v[0] = Object(f)
  <2>1. left(0) = DOMAIN f
    <3>1. \A i \in gone : ~(i <= 0)
      BY <1>1
    <3>2. {i \in gone : i <= 0} = {}
      BY <3>1
    <3> QED BY <3>2
  <2> QED BY <1>1, <2>1
<1>5. v[LastKey] = Object([j \in DOMAIN f \ gone |-> f[j]])
  <2>1. left(LastKey) = DOMAIN f \ gone
    BY <1>1
  <2> QED BY <1>1, <2>1
<1> HIDE DEF parts, v
<1>6. Leads(Joined(parts), v[0], v[LastKey])
  BY <1>1, <1>2, <1>3, JoinedParts
<1> QED BY <1>4, <1>5, <1>6 DEF parts

\* The keys that are there come, or change.
LEMMA HereCome ==
  ASSUME NEW P \in SUBSET Values, Raised \notin P, NEW inner,
         \A b, a \in P : Leads(inner[<<b, a>>], b, a),
         NEW f, f \in [DOMAIN f -> P], NEW g, g \in [DOMAIN g -> P],
         DOMAIN f \subseteq Key, DOMAIN g \subseteq Key
  PROVE  Leads(Joined([k \in Key |->
                 IF k \notin DOMAIN g THEN <<>>
                 ELSE IF k \in DOMAIN f THEN Under(Member(k), inner[<<f[k], g[k]>>])
                 ELSE Set(<<Member(k)>>, g[k])]),
               Object([j \in DOMAIN f \cap DOMAIN g |-> f[j]]), Object(g))
<1> DEFINE parts == [k \in Key |->
                      IF k \notin DOMAIN g THEN <<>>
                      ELSE IF k \in DOMAIN f THEN Under(Member(k), inner[<<f[k], g[k]>>])
                      ELSE Set(<<Member(k)>>, g[k])]
           C == DOMAIN f \cap DOMAIN g
           here(k) == C \cup {i \in DOMAIN g : i <= k}
           h(k) == [j \in here(k) |-> IF j <= k THEN g[j] ELSE f[j]]
           v == [k \in 0..LastKey |-> Object(h(k))]
<1>1. LastKey \in Nat /\ Key = 1..LastKey /\ \A i \in DOMAIN f \cup DOMAIN g : i \in 1..LastKey
  BY KeysTyped
<1>2. Len(parts) = LastKey
  BY <1>1
<1>3. ASSUME NEW k \in 1..LastKey PROVE Leads(parts[k], v[k - 1], v[k])
  <2>1. k - 1 \in 0..LastKey /\ k \in 0..LastKey /\ k \in Key /\ k \in Nat
    BY <1>1
  <2>2. v[k - 1] = Object(h(k - 1)) /\ v[k] = Object(h(k))
    BY <2>1
  <2>m. Member(k) \in Step /\ Member(k).key = k /\ k # None
    BY <2>1, KeysTyped
  <2>3. CASE k \notin DOMAIN g
    <3>1. here(k) = here(k - 1) /\ \A j \in here(k) : j # k /\ j \in 1..LastKey
      BY <1>1, <2>1, <2>3
    <3>2. \A j \in here(k) : j <= k <=> j <= k - 1
      BY <2>1, <3>1
    <3>3. h(k) = h(k - 1)
      BY <3>1, <3>2
    <3>4. parts[k] = <<>>
      BY <2>1, <2>3
    <3> HIDE DEF h, parts, v
    <3> QED BY <2>2, <3>3, <3>4, LeadsNowhere
  <2>4. CASE k \in DOMAIN g /\ k \in DOMAIN f
    <3>1. here(k) = here(k - 1) /\ k \in here(k - 1) /\ \A j \in here(k) : j \in 1..LastKey
      BY <1>1, <2>1, <2>4
    <3>2. \A j \in here(k) : j # k => (j <= k <=> j <= k - 1)
      BY <2>1, <3>1
    <3>a. ASSUME NEW j \in here(k)
          PROVE (IF j <= k THEN g[j] ELSE f[j])
                = (IF j = k THEN g[k] ELSE IF j <= k - 1 THEN g[j] ELSE f[j])
      BY <2>1, <3>2
    <3>b. [h(k - 1) EXCEPT ![k] = g[k]]
          = [j \in here(k - 1) |-> IF j = k THEN g[k] ELSE IF j <= k - 1 THEN g[j] ELSE f[j]]
      OBVIOUS
    <3>c. h(k) = [j \in here(k - 1) |-> IF j = k THEN g[k] ELSE IF j <= k - 1 THEN g[j] ELSE f[j]]
      <4> HIDE DEF here
      <4> QED BY <3>1, <3>a
    <3>d. h(k - 1)[k] = f[k] /\ DOMAIN h(k - 1) = here(k - 1)
      <4>1. ~(k <= k - 1)
        BY <2>1
      <4> HIDE DEF here
      <4> QED BY <3>1, <4>1
    <3>3. h(k) = [h(k - 1) EXCEPT ![k] = g[k]] /\ h(k - 1)[k] = f[k]
          /\ DOMAIN h(k - 1) = here(k - 1)
      <4> HIDE DEF h, here
      <4> QED BY <3>b, <3>c, <3>d
    <3>4. h(k - 1) = [j \in DOMAIN h(k - 1) |-> h(k - 1)[j]]
      OBVIOUS
    <3>5. parts[k] = Under(Member(k), inner[<<f[k], g[k]>>])
      BY <2>1, <2>4
    <3>6. f[k] \in P /\ g[k] \in P /\ f[k] # Raised /\ g[k] # Raised
      BY <2>4
    <3>7. Leads(inner[<<f[k], g[k]>>], f[k], g[k])
      BY <3>6
    <3> DEFINE x == h(k - 1)
               node == Object(x)
    <3> HIDE DEF x, h, here, parts, v
    <3>8. node.type = "object" /\ node.keys = x
      BY Made
    <3>9. HasPart(node, Member(k)) /\ Part(node, Member(k)) = f[k]
      BY <2>m, <3>1, <3>3, <3>4, <3>8 DEF HasPart, Part, x
    <3>10. With(node, Member(k), g[k]) = Object(h(k))
      BY <2>m, <3>3, <3>6, <3>8 DEF With, x
    <3> HIDE DEF node
    <3>11. Leads(Under(Member(k), inner[<<f[k], g[k]>>]), node, With(node, Member(k), g[k]))
      BY <2>m, <3>6, <3>7, <3>9, ChangePart
    <3> QED BY <2>2, <3>5, <3>10, <3>11 DEF node, x
  <2>5. CASE k \in DOMAIN g /\ k \notin DOMAIN f
    <3>1. here(k) = here(k - 1) \cup {k} /\ \A j \in here(k) : j \in 1..LastKey
      BY <1>1, <2>1, <2>5
    <3>2. \A j \in here(k) : j # k => (j <= k <=> j <= k - 1)
      BY <2>1, <3>1
    <3>3. h(k) = [j \in here(k - 1) \cup {k} |-> IF j = k THEN g[k] ELSE h(k - 1)[j]]
      BY <2>1, <3>1, <3>2
    <3>4. DOMAIN h(k - 1) = here(k - 1)
      OBVIOUS
    <3>5. parts[k] = Set(<<Member(k)>>, g[k])
      BY <2>1, <2>5
    <3>6. g[k] \in Values
      BY <2>5
    <3> DEFINE x == h(k - 1)
               y == g[k]
    <3> HIDE DEF x, y, h, here, parts, v
    <3>7. Leads(Set(<<Member(k)>>, y), Object(x), Object(Added(x, k, y)))
      <4>1. y \in Values
        BY <3>6 DEF y
      <4>2. k \in Key
        BY <2>1
      <4> QED BY <4>1, <4>2, SetMember
    <3>8. Object(Added(x, k, y)) = Object(h(k))
      BY <3>3, <3>4 DEF x, y, Added
    <3> QED BY <2>2, <3>5, <3>7, <3>8 DEF x, y
  <2> QED BY <2>3, <2>4, <2>5
<1>4. v[0] = Object([j \in C |-> f[j]])
  <2>1. \A i \in DOMAIN f \cup DOMAIN g : ~(i <= 0)
    BY <1>1
  <2>2. here(0) = C
    BY <2>1
  <2>3. h(0) = [j \in C |-> f[j]]
    BY <2>1, <2>2
  <2>4. 0 \in 0..LastKey
    BY <1>1
  <2> HIDE DEF h
  <2> QED BY <2>3, <2>4
<1>5. v[LastKey] = Object(g)
  <2>1. \A i \in DOMAIN f \cup DOMAIN g : i <= LastKey
    BY <1>1
  <2>2. here(LastKey) = DOMAIN g
    BY <2>1
  <2>3. h(LastKey) = g
    BY <2>1, <2>2
  <2>4. LastKey \in 0..LastKey
    BY <1>1
  <2> HIDE DEF h
  <2> QED BY <2>3, <2>4
<1> HIDE DEF parts, v
<1>6. Leads(Joined(parts), v[0], v[LastKey])
  BY <1>1, <1>2, <1>3, JoinedParts
<1> QED BY <1>4, <1>5, <1>6 DEF parts, C

\* Objects.
LEMMA ObjectLeads ==
  ASSUME NEW P \in SUBSET Values, Raised \notin P, NEW inner,
         \A b, a \in P : Leads(inner[<<b, a>>], b, a),
         NEW f, f \in [DOMAIN f -> P], NEW g, g \in [DOMAIN g -> P],
         DOMAIN f \subseteq Key, DOMAIN g \subseteq Key
  PROVE  Leads(ObjectDelta(inner, f, g), Object(f), Object(g))
<1> DEFINE gone == DOMAIN f \ DOMAIN g
           p == Joined([k \in Key |-> IF k \in gone THEN Delete(<<Member(k)>>) ELSE <<>>])
           q == Joined([k \in Key |->
                 IF k \notin DOMAIN g THEN <<>>
                 ELSE IF k \in DOMAIN f THEN Under(Member(k), inner[<<f[k], g[k]>>])
                 ELSE Set(<<Member(k)>>, g[k])])
           mid == Object([j \in DOMAIN f \cap DOMAIN g |-> f[j]])
<1>1. ObjectDelta(inner, f, g) = p \o q
  BY DEF ObjectDelta
<1>2. Leads(p, Object(f), mid)
  <2>1. DOMAIN f \ gone = DOMAIN f \cap DOMAIN g
    OBVIOUS
  <2>2. Leads(p, Object(f), Object([j \in DOMAIN f \ gone |-> f[j]]))
    BY GoneGo
  <2> QED BY <2>1, <2>2
<1>3. Leads(q, mid, Object(g))
  BY HereCome
<1> HIDE DEF p, q, mid
<1>4. p \o q \in Seq(Op) /\ ApplyDelta(Object(f), p \o q) = ApplyDelta(ApplyDelta(Object(f), p), q)
  BY <1>2, <1>3, ConcatProperties, ApplyConcat DEF Leads
<1> QED BY <1>1, <1>2, <1>3, <1>4 DEF Leads

\* Lists.
LEMMA ListLeads ==
  ASSUME NEW P \in SUBSET Values, Raised \notin P, NEW inner,
         \A b, a \in P : Leads(inner[<<b, a>>], b, a),
         NEW s \in Seq(P), NEW t \in Seq(P), List(t) \in Values
  PROVE  Leads(ListDelta(inner, s, t), List(s), List(t))
<1>1. CASE Len(s) # Len(t)
  <2>1. ListDelta(inner, s, t) = Set(<<>>, List(t))
    BY <1>1 DEF ListDelta
  <2> QED BY <2>1, Made, SetRoot
<1>2. CASE Len(s) = Len(t)
  <2> DEFINE n == Len(t)
             parts == [k \in 1..n |-> Under(Element(k), inner[<<s[k], t[k]>>])]
             h(k) == [j \in 1..n |-> IF j <= k THEN t[j] ELSE s[j]]
             v == [k \in 0..n |-> List(h(k))]
  <2>1. n \in Nat /\ DOMAIN s = 1..n /\ DOMAIN t = 1..n
        /\ s = [j \in 1..n |-> s[j]] /\ t = [j \in 1..n |-> t[j]]
        /\ \A k \in 1..n : s[k] \in P /\ t[k] \in P
    BY <1>2, LenProperties, ElementOfSeq
  <2>2. ListDelta(inner, s, t) = Joined(parts)
    BY <1>2 DEF ListDelta
  <2>3. Len(parts) = n
    BY <2>1
  <2> HIDE DEF n
  <2>4. ASSUME NEW k \in 1..n PROVE Leads(parts[k], v[k - 1], v[k])
    <3>1. k - 1 \in 0..n /\ k \in 0..n /\ k \in Nat /\ \A j \in 1..n : j # k => (j <= k <=> j <= k - 1)
      BY <2>1
    <3>2. v[k - 1] = List(h(k - 1)) /\ v[k] = List(h(k))
      BY <3>1
    <3>a. ASSUME NEW j \in 1..n
          PROVE (IF j <= k THEN t[j] ELSE s[j])
                = (IF j = k THEN t[k] ELSE IF j <= k - 1 THEN t[j] ELSE s[j])
      BY <2>1, <3>1
    <3>b. [h(k - 1) EXCEPT ![k] = t[k]]
          = [j \in 1..n |-> IF j = k THEN t[k] ELSE IF j <= k - 1 THEN t[j] ELSE s[j]]
      OBVIOUS
    <3>c. h(k) = [j \in 1..n |-> IF j = k THEN t[k] ELSE IF j <= k - 1 THEN t[j] ELSE s[j]]
      BY <3>a
    <3>d. h(k - 1)[k] = s[k] /\ DOMAIN h(k - 1) = 1..n
          /\ h(k - 1) = [j \in DOMAIN h(k - 1) |-> h(k - 1)[j]]
      <4>1. ~(k <= k - 1)
        BY <3>1
      <4> QED BY <4>1
    <3>3. h(k) = [h(k - 1) EXCEPT ![k] = t[k]] /\ h(k - 1)[k] = s[k] /\ DOMAIN h(k - 1) = 1..n
          /\ h(k - 1) = [j \in DOMAIN h(k - 1) |-> h(k - 1)[j]]
      <4> HIDE DEF h
      <4> QED BY <3>b, <3>c, <3>d
    <3>4. parts[k] = Under(Element(k), inner[<<s[k], t[k]>>])
      OBVIOUS
    <3>5. s[k] \in P /\ t[k] \in P /\ s[k] # Raised /\ t[k] # Raised
      BY <2>1
    <3>6. Leads(inner[<<s[k], t[k]>>], s[k], t[k])
      BY <3>5
    <3>7. Element(k) \in Step /\ Element(k).index = k
      BY <3>1, KeysTyped
    <3> DEFINE x == h(k - 1)
               node == List(x)
    <3> HIDE DEF x, h, parts, v
    <3>8. node.type = "list" /\ node.items = x
      BY Made
    <3>9. HasPart(node, Element(k)) /\ Part(node, Element(k)) = s[k]
      BY <3>3, <3>7, <3>8 DEF HasPart, Part, x
    <3>10. With(node, Element(k), t[k]) = List(h(k))
      BY <3>3, <3>5, <3>7, <3>8 DEF With, x
    <3> HIDE DEF node
    <3>11. Leads(Under(Element(k), inner[<<s[k], t[k]>>]), node, With(node, Element(k), t[k]))
      BY <3>5, <3>6, <3>7, <3>9, ChangePart
    <3> QED BY <3>2, <3>4, <3>10, <3>11 DEF node, x
  <2>5. v[0] = List(s)
    <3>1. \A j \in 1..n : ~(j <= 0)
      BY <2>1
    <3>2. h(0) = s
      BY <2>1, <3>1
    <3>3. 0 \in 0..n
      BY <2>1
    <3> HIDE DEF h
    <3> QED BY <3>2, <3>3
  <2>6. v[n] = List(t)
    <3>1. h(n) = t /\ n \in 0..n
      BY <2>1
    <3> HIDE DEF h
    <3> QED BY <3>1
  <2> HIDE DEF parts, v
  <2>7. Leads(Joined(parts), v[0], v[n])
    BY <2>1, <2>3, <2>4, JoinedParts
  <2> QED BY <2>2, <2>5, <2>6, <2>7
<1> QED BY <1>1, <1>2

\* Documents made of parts between which the deltas are known.
LEMMA NodeLeads ==
  ASSUME NEW P \in SUBSET Values, Raised \notin P, NEW inner,
         \A b, a \in P : Leads(inner[<<b, a>>], b, a),
         NEW b \in Values, NEW a \in Values, IsMadeOf(b, P), IsMadeOf(a, P)
  PROVE  Leads(NodeDelta(inner, b, a), b, a)
<1>1. b # Raised
  BY Made DEF IsMadeOf, Raised, Atom
<1>2. CASE b.type # a.type
  BY <1>1, <1>2, SetRoot DEF NodeDelta
<1>3. CASE b.type = a.type /\ b.type = "object"
  <2>1. /\ b = Object(b.keys) /\ b.keys \in [DOMAIN b.keys -> P] /\ DOMAIN b.keys \subseteq Key
        /\ a = Object(a.keys) /\ a.keys \in [DOMAIN a.keys -> P] /\ DOMAIN a.keys \subseteq Key
    BY <1>3 DEF IsMadeOf
  <2>2. NodeDelta(inner, b, a) = ObjectDelta(inner, b.keys, a.keys)
    BY <1>3 DEF NodeDelta
  <2> DEFINE f == b.keys
             g == a.keys
  <2> HIDE DEF f, g
  <2>3. Leads(ObjectDelta(inner, f, g), Object(f), Object(g))
    BY <2>1, ObjectLeads DEF f, g
  <2> QED BY <2>1, <2>2, <2>3 DEF f, g
<1>4. CASE b.type = a.type /\ b.type = "list"
  <2>1. b = List(b.items) /\ b.items \in Seq(P) /\ a = List(a.items) /\ a.items \in Seq(P)
    BY <1>4 DEF IsMadeOf
  <2>2. NodeDelta(inner, b, a) = ListDelta(inner, b.items, a.items)
    BY <1>4 DEF NodeDelta
  <2> DEFINE f == b.items
             g == a.items
  <2> HIDE DEF f, g
  <2>3. Leads(ListDelta(inner, f, g), List(f), List(g))
    BY <2>1, ListLeads DEF f, g
  <2> QED BY <2>1, <2>2, <2>3 DEF f, g
<1>5. CASE b.type = a.type /\ b.type # "object" /\ b.type # "list"
  <2>1. b = Atom(b.type, b.atom) /\ a = Atom(a.type, a.atom)
    BY <1>5 DEF IsMadeOf
  <2>2. CASE b.atom # a.atom
    BY <1>1, <1>5, <2>2, SetRoot DEF NodeDelta
  <2>3. CASE b.atom = a.atom
    <3>1. b = a
      BY <1>5, <2>1, <2>3
    <3>2. NodeDelta(inner, b, a) = <<>>
      BY <1>5, <2>3 DEF NodeDelta
    <3> QED BY <3>1, <3>2, LeadsNowhere
  <2> QED BY <2>2, <2>3
<1> QED BY <1>2, <1>3, <1>4, <1>5

\* The deltas of one depth, from those of the next one.
Deltas(n, inner) == [pair \in Documents[n] \X Documents[n] |-> NodeDelta(inner, pair[1], pair[2])]

Levels(f, n) ==
  f[0] = Deltas(0, <<>>) /\ \A i \in 1..n : f[i] = Deltas(i, f[i - 1])

\* There are deltas of every depth.
LEMMA LevelsExist ==
  ASSUME NEW n \in Nat
  PROVE  \E f : Levels(f, n)
<1> DEFINE S == {m \in 0..n : \E f : Levels(f, m)}
<1>1. 0 \in S
  <2>1. Levels([k \in {0} |-> Deltas(0, <<>>)], 0)
    BY DEF Levels
  <2> QED BY <2>1
<1>2. \A m \in 0..n : m < n /\ m \in S => m + 1 \in S
  <2> TAKE m \in 0..n
  <2> HAVE m < n /\ m \in S
  <2>1. PICK f : Levels(f, m)
    OBVIOUS
  <2> DEFINE g == [k \in 0..m + 1 |-> IF k <= m THEN f[k] ELSE Deltas(m + 1, f[m])]
  <2>2. (\A k \in 0..m : g[k] = f[k]) /\ g[m + 1] = Deltas(m + 1, f[m])
    OBVIOUS
  <2> HIDE DEF g
  <2>3. ASSUME NEW k \in 1..m + 1 PROVE g[k] = Deltas(k, g[k - 1])
    <3>1. CASE k \in 1..m
      <4>1. k - 1 \in 0..m /\ k \in 0..m
        BY <3>1
      <4> QED BY <2>1, <2>2, <3>1, <4>1 DEF Levels
    <3>2. CASE k = m + 1
      <4>1. k - 1 = m /\ m \in 0..m
        BY <3>2
      <4> QED BY <2>2, <3>2, <4>1
    <3> QED BY <3>1, <3>2
  <2>4. Levels(g, m + 1)
    BY <2>1, <2>2, <2>3 DEF Levels
  <2> QED BY <2>4
<1> HIDE DEF S
<1>3. \A m \in 0..n : m \in S
  BY <1>1, <1>2, InductionTo
<1> QED BY <1>3 DEF S

\* StateDelta is them.
LEMMA StateDeltaLevels == Levels(StateDelta, Depth)
<1> DEFINE Is(f) == f = [n \in 0..Depth |->
                          [pair \in Documents[n] \X Documents[n] |->
                            NodeDelta(IF n = 0 THEN <<>> ELSE f[n - 1], pair[1], pair[2])]]
<1>1. Depth \in Nat
  BY LedgerConstants
<1>2. PICK f : Levels(f, Depth)
  BY <1>1, LevelsExist
<1> DEFINE g == [n \in 0..Depth |-> f[n]]
<1>3. Is(g)
  <2>1. \A n \in 0..Depth : g[n] = Deltas(n, IF n = 0 THEN <<>> ELSE g[n - 1])
    <3> TAKE n \in 0..Depth
    <3>1. CASE n = 0
      BY <1>1, <1>2, <3>1 DEF Levels
    <3>2. CASE n # 0
      <4>1. n \in 1..Depth /\ n - 1 \in 0..Depth
        BY <1>1, <3>2
      <4> QED BY <1>2, <3>2, <4>1 DEF Levels
    <3> QED BY <3>1, <3>2
  <2>2. g = [n \in 0..Depth |-> g[n]]
    OBVIOUS
  <2> HIDE DEF g
  <2>3. g = [n \in 0..Depth |-> Deltas(n, IF n = 0 THEN <<>> ELSE g[n - 1])]
    BY <2>1, <2>2
  <2> QED BY <2>3 DEF Deltas
<1>4. Is(StateDelta)
  <2>1. StateDelta = CHOOSE f1 : Is(f1)
    BY DEF StateDelta
  <2> HIDE DEF Is, g
  <2> QED BY <1>3, <2>1
<1>5. \A n \in 0..Depth : StateDelta[n] = Deltas(n, IF n = 0 THEN <<>> ELSE StateDelta[n - 1])
  <2> DEFINE h == StateDelta
  <2>1. Is(h)
    BY <1>4
  <2> HIDE DEF h
  <2>2. \A n \in 0..Depth : h[n] = Deltas(n, IF n = 0 THEN <<>> ELSE h[n - 1])
    BY <2>1 DEF Deltas
  <2> QED BY <2>2 DEF h
<1>6. 0 \in 0..Depth /\ \A n \in 1..Depth : n \in 0..Depth /\ n # 0
  BY <1>1
<1> QED BY <1>5, <1>6 DEF Levels

\* The delta between two documents leads from one to the other, at every depth.
LEMMA DeltaLeads ==
  ASSUME NEW n \in 0..Depth, NEW b \in Documents[n], NEW a \in Documents[n]
  PROVE  Leads(StateDelta[n][<<b, a>>], b, a)
<1> DEFINE S == {m \in 0..Depth :
                   \A x, y \in Documents[m] : Leads(StateDelta[m][<<x, y>>], x, y)}
<1>1. Depth \in Nat /\ \A m \in 0..Depth : Documents[m] \in SUBSET Values
  BY LedgerConstants DEF Values
<1>2. ASSUME NEW m \in 0..Depth, NEW d \in Documents[m] PROVE d # Raised
  <2>1. PICK parts : IsMadeOf(d, parts)
    BY LedgerConstants
  <2> QED BY <2>1, Made DEF IsMadeOf, Raised, Atom
<1>3. 0 \in S
  <2>1. ASSUME NEW x \in Documents[0], NEW y \in Documents[0]
        PROVE  Leads(StateDelta[0][<<x, y>>], x, y)
    <3>1. 0 \in 0..Depth /\ x \in Values /\ y \in Values
      BY <1>1
    <3>2. IsMadeOf(x, {}) /\ IsMadeOf(y, {})
      BY <3>1, LedgerConstants
    <3>3. StateDelta[0][<<x, y>>] = NodeDelta(<<>>, x, y)
      BY StateDeltaLevels DEF Levels, Deltas
    <3>4. {} \in SUBSET Values /\ Raised \notin {} /\ \A p, q \in {} : Leads(<<>>[<<p, q>>], p, q)
      OBVIOUS
    <3> QED BY <3>1, <3>2, <3>3, <3>4, NodeLeads
  <2> QED BY <1>1, <2>1
<1>4. \A m \in 0..Depth : m < Depth /\ m \in S => m + 1 \in S
  <2> TAKE m \in 0..Depth
  <2> HAVE m < Depth /\ m \in S
  <2>1. m + 1 \in 1..Depth /\ m + 1 \in 0..Depth /\ (m + 1) - 1 = m /\ m + 1 # 0
    BY <1>1
  <2> DEFINE P == Documents[m]
             inner == StateDelta[m]
  <2>2. P \in SUBSET Values /\ Raised \notin P /\ \A p, q \in P : Leads(inner[<<p, q>>], p, q)
    BY <1>1, <1>2
  <2>3. ASSUME NEW x \in Documents[m + 1], NEW y \in Documents[m + 1]
        PROVE  Leads(StateDelta[m + 1][<<x, y>>], x, y)
    <3>1. IsMadeOf(x, P) /\ IsMadeOf(y, P)
      BY <2>1, LedgerConstants
    <3>2. x \in Values /\ y \in Values
      BY <1>1, <2>1
    <3>3. StateDelta[m + 1][<<x, y>>] = NodeDelta(inner, x, y)
      <4>1. StateDelta[m + 1] = Deltas(m + 1, inner)
        BY <2>1, StateDeltaLevels DEF Levels
      <4> QED BY <4>1 DEF Deltas
    <3> HIDE DEF P, inner
    <3> QED BY <2>2, <3>1, <3>2, <3>3, NodeLeads
  <2> QED BY <2>1, <2>3
<1> HIDE DEF S
<1>5. \A m \in 0..Depth : m \in S
  BY <1>1, <1>3, <1>4, InductionTo
<1>6. n \in S
  BY <1>5
<1> QED BY <1>6 DEF S

\* The delta between two session states, of any depth, leads from one to the other.
THEOREM DeltasAreExact ==
  \A before, after \in States : ApplyDelta(before, StateDelta[Depth][<<before, after>>]) = after
<1> TAKE before, after \in States
<1>1. Depth \in 0..Depth
  BY LedgerConstants
<1>2. Leads(StateDelta[Depth][<<before, after>>], before, after)
  BY <1>1, DeltaLeads DEF States
<1> QED BY <1>2 DEF Leads
-----------------------------------------------------------------------------
(* Lines one after the other.                                              *)

\* What each of the lines recovers.
Recovering(f, lines, n) ==
  f[0] = Nothing /\ \A k \in 1..n : f[k] = Replayed(f[k - 1], lines[k])

\* Nothing but the lines decides it.
LEMMA RecoveringAgrees ==
  ASSUME NEW lines, NEW n \in Nat, NEW f, NEW g,
         Recovering(f, lines, n), Recovering(g, lines, n)
  PROVE  \A k \in 0..n : f[k] = g[k]
<1> DEFINE S == {k \in 0..n : f[k] = g[k]}
<1>1. 0 \in S
  BY DEF Recovering
<1>2. \A k \in 0..n : k < n /\ k \in S => k + 1 \in S
  <2> TAKE k \in 0..n
  <2> HAVE k < n /\ k \in S
  <2>1. k + 1 \in 1..n /\ (k + 1) - 1 = k /\ k + 1 \in 0..n
    OBVIOUS
  <2>2. f[k + 1] = Replayed(f[k], lines[k + 1]) /\ g[k + 1] = Replayed(g[k], lines[k + 1])
    BY <2>1 DEF Recovering
  <2> QED BY <2>1, <2>2
<1> HIDE DEF S
<1>3. \A k \in 0..n : k \in S
  BY <1>1, <1>2, InductionTo
<1> QED BY <1>3 DEF S

\* There is something that each recovers.
LEMMA RecoveringExists ==
  ASSUME NEW lines, NEW n \in Nat
  PROVE  \E f : Recovering(f, lines, n)
<1> DEFINE S == {m \in 0..n : \E f : Recovering(f, lines, m)}
<1>1. 0 \in S
  <2>1. Recovering([k \in {0} |-> Nothing], lines, 0)
    BY DEF Recovering
  <2> QED BY <2>1
<1>2. \A m \in 0..n : m < n /\ m \in S => m + 1 \in S
  <2> TAKE m \in 0..n
  <2> HAVE m < n /\ m \in S
  <2>1. PICK f : Recovering(f, lines, m)
    OBVIOUS
  <2> DEFINE g == [k \in 0..m + 1 |-> IF k <= m THEN f[k] ELSE Replayed(f[m], lines[m + 1])]
  <2>2. (\A k \in 0..m : g[k] = f[k]) /\ g[m + 1] = Replayed(f[m], lines[m + 1])
    OBVIOUS
  <2> HIDE DEF g
  <2>3. ASSUME NEW k \in 1..m + 1 PROVE g[k] = Replayed(g[k - 1], lines[k])
    <3>1. CASE k \in 1..m
      <4>1. k - 1 \in 0..m /\ k \in 0..m
        BY <3>1
      <4> QED BY <2>1, <2>2, <3>1, <4>1 DEF Recovering
    <3>2. CASE k = m + 1
      <4>1. k - 1 = m /\ m \in 0..m
        BY <3>2
      <4> QED BY <2>2, <3>2, <4>1
    <3> QED BY <3>1, <3>2
  <2>4. Recovering(g, lines, m + 1)
    BY <2>1, <2>2, <2>3 DEF Recovering
  <2> QED BY <2>4
<1> HIDE DEF S
<1>3. \A m \in 0..n : m \in S
  BY <1>1, <1>2, InductionTo
<1> QED BY <1>3 DEF S

\* Recovered is what the last line recovers.
LEMMA RecoveredIs ==
  ASSUME NEW lines, Len(lines) \in Nat, NEW f, Recovering(f, lines, Len(lines))
  PROVE  Recovered(lines) = f[Len(lines)]
<1> DEFINE n == Len(lines)
           After(g) == g = [k \in 0..n |-> IF k = 0 THEN Nothing ELSE Replayed(g[k - 1], lines[k])]
           g0 == [k \in 0..n |-> f[k]]
           g1 == CHOOSE g : After(g)
<1>1. After(g0)
  <2>1. \A k \in 0..n : f[k] = IF k = 0 THEN Nothing ELSE Replayed(g0[k - 1], lines[k])
    <3> TAKE k \in 0..n
    <3>1. CASE k = 0
      BY <3>1 DEF Recovering
    <3>2. CASE k # 0
      <4>1. k \in 1..n /\ k - 1 \in 0..n
        BY <3>2
      <4> QED BY <3>2, <4>1 DEF Recovering
    <3> QED BY <3>1, <3>2
  <2> QED BY <2>1
<1>2. After(g1)
  <2> HIDE DEF After, g0
  <2> QED BY <1>1
<1>3. Recovering(g1, lines, n)
  <2> HIDE DEF g1
  <2>1. 0 \in 0..n /\ \A k \in 1..n : k \in 0..n /\ k # 0
    OBVIOUS
  <2> QED BY <1>2, <2>1 DEF Recovering
<1>4. Recovered(lines) = g1[n]
  BY DEF Recovered
<1> HIDE DEF g1
<1> QED BY <1>3, <1>4, RecoveringAgrees

\* A line more.
LEMMA RecoveredAppend ==
  ASSUME NEW S, NEW lines \in Seq(S), NEW line \in S
  PROVE  Recovered(Append(lines, line)) = Replayed(Recovered(lines), line)
<1> DEFINE n == Len(lines)
           more == Append(lines, line)
<1>1. n \in Nat /\ Len(more) = n + 1 /\ more[n + 1] = line /\ \A i \in 1..n : more[i] = lines[i]
  BY LenProperties, AppendProperties
<1>2. PICK f : Recovering(f, lines, n)
  BY <1>1, RecoveringExists
<1>3. Recovered(lines) = f[n]
  BY <1>1, <1>2, RecoveredIs
<1> DEFINE g == [k \in 0..n + 1 |-> IF k <= n THEN f[k] ELSE Replayed(f[n], line)]
<1>4. (\A k \in 0..n : g[k] = f[k]) /\ g[n + 1] = Replayed(f[n], line)
  BY <1>1
<1> HIDE DEF g, more
<1>5. ASSUME NEW k \in 1..n + 1 PROVE g[k] = Replayed(g[k - 1], more[k])
  <2>1. CASE k \in 1..n
    <3>1. k - 1 \in 0..n /\ k \in 0..n
      BY <1>1, <2>1
    <3> QED BY <1>1, <1>2, <1>4, <2>1, <3>1 DEF Recovering
  <2>2. CASE k = n + 1
    <3>1. k - 1 = n /\ n \in 0..n
      BY <1>1, <2>2
    <3> QED BY <1>1, <1>4, <2>2, <3>1
  <2> QED BY <1>1, <2>1, <2>2
<1>6. Recovering(g, more, Len(more)) /\ Len(more) \in Nat
  BY <1>1, <1>2, <1>4, <1>5 DEF Recovering
<1>7. Recovered(more) = g[Len(more)]
  BY <1>6, RecoveredIs
<1> QED BY <1>1, <1>3, <1>4, <1>7 DEF more

\* A checkpoint and history after it.
LEMMA RecoveredCompacted ==
  ASSUME NEW lines, Len(lines) \in Nat, Len(lines) # 0, lines[1].kind = "checkpoint",
         \A k \in 2..Len(lines) : lines[k].kind = "historical"
  PROVE  Recovered(lines) = [seq |-> lines[1].seq, doc |-> lines[1].payload]
<1> DEFINE s == [seq |-> lines[1].seq, doc |-> lines[1].payload]
           f == [k \in 0..Len(lines) |-> IF k = 0 THEN Nothing ELSE s]
<1>1. Nothing # Failed
  BY DEF Nothing, Failed, Atom, Raised
<1>2. f[0] = Nothing /\ \A k \in 1..Len(lines) : f[k] = s
  OBVIOUS
<1> HIDE DEF f
<1>3. ASSUME NEW k \in 1..Len(lines) PROVE f[k] = Replayed(f[k - 1], lines[k])
  <2>1. CASE k = 1
    BY <1>1, <1>2, <2>1 DEF Replayed
  <2>2. CASE k # 1
    <3>1. k - 1 \in 1..Len(lines) /\ k \in 2..Len(lines)
      BY <2>2
    <3> QED BY <1>2, <3>1 DEF Replayed
  <2> QED BY <2>1, <2>2
<1>4. Recovering(f, lines, Len(lines))
  BY <1>2, <1>3 DEF Recovering
<1>5. Recovered(lines) = f[Len(lines)]
  BY <1>4, RecoveredIs
<1>6. Len(lines) \in 1..Len(lines)
  OBVIOUS
<1> QED BY <1>2, <1>5, <1>6
-----------------------------------------------------------------------------
(* The invariant.                                                          *)

StateT == [seq : Nat, doc : States]

\* Lines of a ledger.
LineT == [kind : {"checkpoint", "delta", "historical"}, seq : Nat, base : Nat,
          payload : Values \cup Seq(Op), sha : Values, bundled : Nat]

\* Bundles: the ledger in one leads to a state.
BundleT == {b \in [id : Nat \ {0}, state : StateT, ledger : Seq(LineT)] :
              Recovered(b.ledger) \in StateT}

\* Types.
LedgerTyped ==
  /\ state \in StateT /\ ledger \in Seq(LineT)
  /\ pending = None \/ pending \in StateT
  /\ bundles \in Nat
  /\ bundle = None \/ bundle \in BundleT
  /\ exported = None \/ exported \in [bundle : Nat, state : StateT]
  /\ DOMAIN made \subseteq 1..bundles /\ made \in [DOMAIN made -> StateT]
  /\ verifying \in [at : {"idle", "digest", "recorded", "refused", "verified"}, digest : Nat,
                    doc : StateT \cup {None}, swapped : BOOLEAN]

\* The ledger leads to a state: the one that a save has appended, and unless state.json was
\* edited the one that is loaded.  compact_session has exported what is loaded.
LedgerLeadsOn ==
  /\ Recovered(ledger) \in StateT
  /\ pending = None \/ (Recovered(ledger) = pending /\ state.seq < pending.seq)
  /\ edited \/ Recovered(ledger) = Loaded
  /\ exported = None \/ (exported.state = Loaded /\ exported.bundle \in DOMAIN made)

\* The bundles the ledger names are the session's own, and its own bundle at the path
\* restores what it exported.
BundlesKnown ==
  /\ \A k \in DOMAIN ledger : ledger[k].bundled \in {0} \cup DOMAIN made
  /\ bundle \in BundleT /\ bundle.id \in DOMAIN made =>
       LoadState(bundle.state, bundle.ledger) = made[bundle.id]

\* What a verification has found out so far.
VerifyingKnown ==
  /\ verifying.at \in {"digest", "recorded"} =>
       verifying.digest # 0 /\ bundle \in BundleT /\ (~verifying.swapped => bundle.id = verifying.digest)
  /\ verifying.at \in {"recorded", "verified"} => verifying.digest \in DOMAIN made
  /\ verifying.at = "verified" /\ ~verifying.swapped => verifying.doc = made[verifying.digest]

LedgerIInv == LedgerTyped /\ LedgerLeadsOn /\ BundlesKnown /\ VerifyingKnown

\* The session's states are documents of the ledger.
LEMMA StatesTyped ==
  /\ States \subseteq Values /\ \A d \in States : d.type = "object" /\ d # Raised
  /\ None \in Values
<1>1. Depth \in 0..Depth /\ \A d \in States : d.type = "object"
  BY LedgerConstants
<1>2. Raised.type # "object"
  BY DEF Raised, Atom
<1> QED BY <1>1, <1>2 DEF Values, States

\* What is loaded is a state, which the ledger with another line for it leads to.
LEMMA LoadedTyped ==
  ASSUME LedgerTyped, LedgerLeadsOn
  PROVE  /\ Loaded \in StateT /\ state.seq <= Loaded.seq /\ Recovers(ledger)
         /\ Loaded.seq \in Nat /\ Loaded.doc \in States
<1>1. state \in StateT /\ Recovered(ledger) \in StateT
  BY DEF LedgerTyped, LedgerLeadsOn
<1>2. Recovered(ledger).doc.type = "object"
  BY <1>1, StatesTyped DEF StateT
<1>3. Loaded = state \/ (Loaded = Recovered(ledger) /\ ~(state.seq >= Recovered(ledger).seq))
  BY DEF Loaded, LoadState
<1>4. state.seq \in Nat /\ Recovered(ledger).seq \in Nat
  BY <1>1 DEF StateT
<1>5. Loaded \in StateT /\ state.seq <= Loaded.seq
  BY <1>1, <1>3, <1>4
<1> QED BY <1>2, <1>5 DEF StateT, Recovers, IsState

\* A state that the ledger leads to is loaded if it is what was loaded before, or newer
\* than state.json.
LEMMA LoadedFrom ==
  ASSUME NEW file \in StateT, NEW lines, NEW more, Recovered(lines) \in StateT,
         Recovered(more) \in StateT,
         Recovered(more) = LoadState(file, lines) \/ file.seq < Recovered(more).seq
  PROVE  LoadState(file, more) = Recovered(more)
<1>1. file.seq \in Nat /\ Recovered(lines).seq \in Nat /\ Recovered(more).seq \in Nat
  BY DEF StateT
<1> DEFINE old == Recovered(lines)
           new == Recovered(more)
<1> HIDE DEF old, new
<1>2. LoadState(file, lines) = IF file.seq >= old.seq THEN file ELSE old
  BY DEF LoadState, old
<1>3. LoadState(file, more) = IF file.seq >= new.seq THEN file ELSE new
  BY DEF LoadState, new
<1>4. file.seq \in Nat /\ old.seq \in Nat /\ new.seq \in Nat
      /\ (new = LoadState(file, lines) \/ file.seq < new.seq)
  BY <1>1 DEF old, new
<1>5. CASE file.seq < new.seq
  BY <1>3, <1>4, <1>5 DEF new
<1>6. CASE new = LoadState(file, lines)
  BY <1>2, <1>3, <1>4, <1>6 DEF new
<1> QED BY <1>4, <1>5, <1>6

\* Lines are typed, and a checkpoint alone leads to its state.
LEMMA CheckpointTyped ==
  ASSUME NEW s \in StateT
  PROVE  /\ Checkpoint(s) \in LineT /\ Checkpoint(s).bundled = 0 /\ Checkpoint(s).kind = "checkpoint"
         /\ [seq |-> Checkpoint(s).seq, doc |-> Checkpoint(s).payload] = s
         /\ <<Checkpoint(s)>> \in Seq(LineT) /\ Recovered(<<Checkpoint(s)>>) = s
<1>1. s.seq \in Nat /\ s.doc \in States /\ s = [seq |-> s.seq, doc |-> s.doc]
  BY DEF StateT
<1>2. Checkpoint(s) \in LineT
  BY <1>1, StatesTyped DEF Checkpoint, Line, LineT
<1>3. /\ Checkpoint(s).bundled = 0 /\ Checkpoint(s).kind = "checkpoint"
      /\ Checkpoint(s).seq = s.seq /\ Checkpoint(s).payload = s.doc
  BY DEF Checkpoint, Line
<1> DEFINE lines == <<Checkpoint(s)>>
<1>4. Len(lines) = 1 /\ lines[1] = Checkpoint(s) /\ lines \in Seq(LineT)
  BY <1>2
<1> HIDE DEF lines
<1>5. \A k \in 2..Len(lines) : lines[k].kind = "historical"
  <2>1. \A k \in 2..1 : FALSE
    OBVIOUS
  <2> QED BY <1>4, <2>1
<1>6. Recovered(lines) = [seq |-> lines[1].seq, doc |-> lines[1].payload]
  <2>1. Len(lines) \in Nat /\ Len(lines) # 0
    BY <1>4
  <2>2. lines[1].kind = "checkpoint"
    BY <1>3, <1>4
  <2> QED BY <1>5, <2>1, <2>2, RecoveredCompacted
<1> QED BY <1>1, <1>2, <1>3, <1>4, <1>6 DEF lines

\* The first checkpoint of a session.
LEMMA LedgerStarts == ASSUME LedgerInit PROVE LedgerIInv
<1>1. PICK doc \in States : /\ state = [seq |-> 1, doc |-> doc]
                            /\ ledger = <<Checkpoint([seq |-> 1, doc |-> doc])>>
  BY DEF LedgerInit
<1> DEFINE s == [seq |-> 1, doc |-> doc]
<1>2. s \in StateT /\ s.seq = 1
  BY DEF StateT
<1> HIDE DEF s
<1>3. state = s /\ ledger = <<Checkpoint(s)>>
  BY <1>1 DEF s
<1>4. Checkpoint(s).bundled = 0 /\ ledger \in Seq(LineT) /\ Recovered(ledger) = s
  BY <1>2, <1>3, CheckpointTyped
<1>5. LedgerTyped
  BY <1>2, <1>3, <1>4 DEF LedgerTyped, LedgerInit
<1>6. LedgerLeadsOn
  <2>1. LoadState(s, ledger) = s
    BY <1>4 DEF LoadState
  <2> QED BY <1>2, <1>3, <1>4, <2>1 DEF LedgerLeadsOn, LedgerInit, Loaded
<1>7. BundlesKnown
  <2>1. \A k \in DOMAIN ledger : ledger[k].bundled = 0
    BY <1>3, <1>4
  <2> QED BY <2>1 DEF BundlesKnown, LedgerInit
<1>8. VerifyingKnown
  BY DEF VerifyingKnown, LedgerInit
<1> QED BY <1>5, <1>6, <1>7, <1>8 DEF LedgerIInv

\* What verifications know does not depend on the state.
LEMMA VerifyingStays ==
  ASSUME VerifyingKnown, UNCHANGED <<bundle, made, verifying>>
  PROVE  VerifyingKnown'
BY DEF VerifyingKnown

\* A line more of the ledger.
LEMMA AppendTyped ==
  ASSUME NEW lines \in Seq(LineT), NEW line \in LineT
  PROVE  /\ Append(lines, line) \in Seq(LineT)
         /\ \A k \in DOMAIN Append(lines, line) :
              Append(lines, line)[k] = line \/ (k \in DOMAIN lines /\ Append(lines, line)[k] = lines[k])
<1>1. /\ Append(lines, line) \in Seq(LineT) /\ Len(Append(lines, line)) = Len(lines) + 1
      /\ \A i \in 1..Len(lines) : Append(lines, line)[i] = lines[i]
      /\ Append(lines, line)[Len(lines) + 1] = line
  BY AppendProperties
<1>2. Len(lines) \in Nat /\ DOMAIN lines = 1..Len(lines)
  BY LenProperties
<1>3. DOMAIN Append(lines, line) = 1..Len(lines) + 1
  BY <1>1, LenProperties
<1>4. \A k \in 1..Len(lines) + 1 : k \in 1..Len(lines) \/ k = Len(lines) + 1
  BY <1>2
<1> QED BY <1>1, <1>2, <1>3, <1>4

\* A save appends a line that leads to the new state.
LEMMA AppendKeeps == ASSUME LedgerIInv, SaveAppends PROVE LedgerIInv'
<1>1. /\ LedgerTyped /\ LedgerLeadsOn /\ BundlesKnown /\ VerifyingKnown
      /\ pending = None /\ exported = None
      /\ UNCHANGED <<state, edited, bundle, bundles, exported, made, verifying>>
  BY DEF LedgerIInv, SaveAppends, Unlocked
<1>2. PICK doc \in States :
        LET after == [seq |-> Loaded.seq + 1, doc |-> doc] IN
        /\ pending' = after
        /\ ledger' = Append(ledger,
             IF Forced(Loaded) \/ after.seq % Interval = 0 THEN Checkpoint(after)
             ELSE DeltaLine(Loaded, after))
  BY DEF SaveAppends
<1> DEFINE after == [seq |-> Loaded.seq + 1, doc |-> doc]
           delta == DeltaLine(Loaded, after)
           line == IF Forced(Loaded) \/ after.seq % Interval = 0 THEN Checkpoint(after) ELSE delta
<1>3. pending' = after /\ ledger' = Append(ledger, line)
  BY <1>2
<1>4. /\ Loaded \in StateT /\ state.seq <= Loaded.seq /\ Loaded.seq \in Nat /\ Loaded.doc \in States
      /\ ledger \in Seq(LineT) /\ state \in StateT /\ state.seq \in Nat
  BY <1>1, LoadedTyped DEF LedgerTyped, StateT
<1>5. after \in StateT /\ after.seq = Loaded.seq + 1 /\ after.doc = doc /\ state.seq < after.seq
      /\ after.seq \in Nat /\ after = [seq |-> after.seq, doc |-> doc]
  BY <1>4 DEF StateT
<1> HIDE DEF after
<1>6. /\ delta.kind = "delta" /\ delta.seq = after.seq /\ delta.base = Loaded.seq
      /\ delta.payload = StateDelta[Depth][<<Loaded.doc, doc>>] /\ delta.sha = doc
      /\ delta.bundled = 0 /\ delta \in LineT
  <2>1. StateDelta[Depth][<<Loaded.doc, doc>>] \in Seq(Op)
    <3>1. Depth \in 0..Depth
      BY LedgerConstants
    <3> QED BY <1>4, <3>1, DeltaLeads DEF Leads, States
  <2> QED BY <1>4, <1>5, <2>1, StatesTyped DEF DeltaLine, Line, LineT
<1> HIDE DEF delta
<1>7. line \in LineT /\ line.bundled = 0
  BY <1>5, <1>6, CheckpointTyped
<1>8. Replayed(Recovered(ledger), line) = after
  <2>1. Recovered(ledger).doc \in States /\ Recovered(ledger) # Failed
    BY <1>1, StatesTyped DEF LedgerLeadsOn, StateT, Failed
  <2>2. CASE line = Checkpoint(after)
    <3>1. line.kind = "checkpoint" /\ [seq |-> line.seq, doc |-> line.payload] = after
      BY <1>5, <2>2, CheckpointTyped
    <3> HIDE DEF line
    <3> QED BY <2>1, <3>1 DEF Replayed
  <2>3. CASE line = delta /\ ~Forced(Loaded)
    <3>1. Recovered(ledger) = Loaded
      BY <2>3 DEF Forced
    <3>2. ApplyDelta(Loaded.doc, delta.payload) = doc
      BY <1>4, <1>6, DeltasAreExact
    <3>3. doc.type = "object" /\ Loaded.doc.type = "object"
      BY <1>4, StatesTyped
    <3>4. Advanced(Loaded, delta) = [seq |-> delta.seq, doc |-> doc]
      BY <1>4, <1>5, <1>6, <3>2, <3>3 DEF Advanced, IsState
    <3>5. Replayed(Loaded, delta) = Advanced(Loaded, delta)
      BY <1>6, <2>1, <3>1 DEF Replayed
    <3> QED BY <1>5, <1>6, <2>3, <3>1, <3>4, <3>5
  <2> QED BY <2>2, <2>3
<1> HIDE DEF line
<1>9. Recovered(ledger') = after
  BY <1>3, <1>4, <1>7, <1>8, RecoveredAppend
<1>10. LedgerTyped'
  <2>1. ledger' \in Seq(LineT)
    BY <1>3, <1>4, <1>7, AppendTyped
  <2> QED BY <1>1, <1>3, <1>5, <2>1 DEF LedgerTyped
<1>11. LedgerLeadsOn'
  <2>1. LoadState(state, ledger') = Recovered(ledger')
    BY <1>4, <1>5, <1>9 DEF LoadState
  <2> QED BY <1>1, <1>3, <1>5, <1>9, <2>1 DEF LedgerLeadsOn, Loaded
<1>12. BundlesKnown'
  <2>1. \A k \in DOMAIN ledger' : ledger'[k] = line \/ (k \in DOMAIN ledger /\ ledger'[k] = ledger[k])
    BY <1>3, <1>4, <1>7, AppendTyped
  <2>2. \A k \in DOMAIN ledger' : ledger'[k].bundled \in {0} \cup DOMAIN made
    BY <1>1, <1>7, <2>1 DEF BundlesKnown
  <2> QED BY <1>1, <2>2 DEF BundlesKnown
<1> QED BY <1>1, <1>10, <1>11, <1>12, VerifyingStays DEF LedgerIInv

\* state.json becomes what the ledger leads to.
LEMMA ReplaceKeeps == ASSUME LedgerIInv, SaveReplaces PROVE LedgerIInv'
<1>1. /\ LedgerTyped /\ LedgerLeadsOn /\ BundlesKnown /\ VerifyingKnown
      /\ pending # None /\ state' = pending /\ pending' = None
      /\ UNCHANGED <<ledger, edited, bundle, bundles, exported, made, verifying>>
  BY DEF LedgerIInv, SaveReplaces
<1>2. Recovered(ledger) = pending /\ state.seq < pending.seq /\ pending \in StateT
  BY <1>1 DEF LedgerLeadsOn, LedgerTyped
<1>3. LedgerTyped'
  BY <1>1, <1>2 DEF LedgerTyped
<1>4. LoadState(pending, ledger) = pending
  BY <1>2 DEF LoadState
<1>5. Loaded = pending
  BY <1>1, <1>2 DEF Loaded, LoadState, LedgerTyped, StateT
<1>6. LedgerLeadsOn'
  BY <1>1, <1>2, <1>4, <1>5 DEF LedgerLeadsOn, Loaded
<1>7. BundlesKnown'
  BY <1>1 DEF BundlesKnown
<1> QED BY <1>1, <1>3, <1>6, <1>7, VerifyingStays DEF LedgerIInv

\* An edit in place.
LEMMA EditKeeps == ASSUME LedgerIInv, EditInPlace PROVE LedgerIInv'
<1>1. /\ LedgerTyped /\ LedgerLeadsOn /\ BundlesKnown /\ VerifyingKnown
      /\ pending = None /\ exported = None /\ edited' = TRUE
      /\ UNCHANGED <<ledger, pending, bundle, bundles, exported, made, verifying>>
  BY DEF LedgerIInv, EditInPlace, Unlocked
<1>2. PICK doc \in States : state' = [state EXCEPT !.doc = doc]
  BY DEF EditInPlace
<1>3. LedgerTyped'
  <2>1. state' \in StateT
    BY <1>1, <1>2 DEF LedgerTyped, StateT
  <2> QED BY <1>1, <2>1 DEF LedgerTyped
<1>4. LedgerLeadsOn'
  BY <1>1 DEF LedgerLeadsOn
<1>5. BundlesKnown'
  BY <1>1 DEF BundlesKnown
<1> QED BY <1>1, <1>3, <1>4, <1>5, VerifyingStays DEF LedgerIInv

\* A ledger of one checkpoint leads to what is loaded.
LEMMA CompactKeeps == ASSUME LedgerIInv, CompactLedger PROVE LedgerIInv'
<1>1. /\ LedgerTyped /\ LedgerLeadsOn /\ BundlesKnown /\ VerifyingKnown
      /\ pending = None /\ exported = None /\ ledger' = <<Checkpoint(Loaded)>>
      /\ UNCHANGED <<state, pending, edited, bundle, bundles, exported, made, verifying>>
  BY DEF LedgerIInv, CompactLedger, Unlocked
<1>2. Loaded \in StateT /\ state \in StateT /\ Recovered(ledger) \in StateT
  BY <1>1, LoadedTyped DEF LedgerTyped, LedgerLeadsOn
<1>3. /\ ledger' \in Seq(LineT) /\ Recovered(ledger') = Loaded
      /\ Checkpoint(Loaded).bundled = 0
  BY <1>1, <1>2, CheckpointTyped
<1>4. LoadState(state, ledger') = Loaded
  BY <1>2, <1>3, LoadedFrom DEF Loaded
<1>5. LedgerTyped'
  BY <1>1, <1>3 DEF LedgerTyped
<1>6. LedgerLeadsOn'
  <2>1. Loaded' = Loaded
    BY <1>1, <1>4 DEF Loaded
  <2> QED BY <1>1, <1>2, <1>3, <2>1 DEF LedgerLeadsOn
<1>7. BundlesKnown'
  <2>1. \A k \in DOMAIN ledger' : ledger'[k].bundled = 0
    BY <1>1, <1>3
  <2> QED BY <1>1, <2>1 DEF BundlesKnown
<1> QED BY <1>1, <1>5, <1>6, <1>7, VerifyingStays DEF LedgerIInv

\* A process dies.
LEMMA CrashKeeps == ASSUME LedgerIInv, Crash PROVE LedgerIInv'
<1>1. /\ LedgerTyped /\ LedgerLeadsOn /\ BundlesKnown /\ VerifyingKnown
      /\ pending' = None /\ exported' = None
      /\ UNCHANGED <<state, ledger, edited, bundle, bundles, made, verifying>>
  BY DEF LedgerIInv, Crash
<1>2. LedgerTyped'
  BY <1>1 DEF LedgerTyped
<1>3. LedgerLeadsOn'
  BY <1>1 DEF LedgerLeadsOn, Loaded
<1>4. BundlesKnown'
  BY <1>1 DEF BundlesKnown
<1> QED BY <1>1, <1>2, <1>3, <1>4, VerifyingStays DEF LedgerIInv

\* A bundle is exported: it holds what is loaded.
LEMMA ExportKeeps == ASSUME LedgerIInv, ExportBundle PROVE LedgerIInv'
<1>1. /\ LedgerTyped /\ LedgerLeadsOn /\ BundlesKnown /\ VerifyingKnown
      /\ pending = None /\ exported = None
      /\ bundles' = bundles + 1
      /\ bundle' = [id |-> bundles', state |-> state, ledger |-> ledger]
      /\ exported' = [bundle |-> bundles', state |-> Loaded]
      /\ made' = [id \in DOMAIN made \cup {bundles'} |-> IF id = bundles' THEN Loaded ELSE made[id]]
      /\ verifying' = [verifying EXCEPT !.swapped = TRUE]
      /\ UNCHANGED <<state, ledger, pending, edited>>
  BY DEF LedgerIInv, ExportBundle, Unlocked
<1>2. Loaded \in StateT /\ Recovers(ledger)
  BY <1>1, LoadedTyped
<1>3. /\ bundles \in Nat /\ bundles' \in 1..bundles' /\ bundles' \in Nat /\ bundles' # 0
      /\ bundles' \notin DOMAIN made /\ DOMAIN made' \subseteq 1..bundles'
  BY <1>1 DEF LedgerTyped
<1>4. /\ DOMAIN made' = DOMAIN made \cup {bundles'} /\ made'[bundles'] = Loaded
      /\ \A id \in DOMAIN made : made'[id] = made[id]
  BY <1>1, <1>3
<1>5. made' \in [DOMAIN made' -> StateT]
  <2>1. \A id \in DOMAIN made : made[id] \in StateT
    BY <1>1 DEF LedgerTyped
  <2> QED BY <1>1, <1>2, <2>1
<1>6. /\ bundle'.id = bundles' /\ bundle'.state = state /\ bundle'.ledger = ledger
      /\ bundle' \in BundleT
  BY <1>1, <1>3 DEF LedgerTyped, BundleT, LedgerLeadsOn
<1>7. /\ verifying'.at = verifying.at /\ verifying'.digest = verifying.digest
      /\ verifying'.swapped = TRUE /\ verifying'.doc = verifying.doc
      /\ verifying' \in [at : {"idle", "digest", "recorded", "refused", "verified"}, digest : Nat,
                          doc : StateT \cup {None}, swapped : BOOLEAN]
  BY <1>1 DEF LedgerTyped
<1>8. LedgerTyped'
  BY <1>1, <1>2, <1>3, <1>5, <1>6, <1>7 DEF LedgerTyped
<1>9. LedgerLeadsOn'
  <2>1. exported'.state = Loaded /\ exported'.bundle \in DOMAIN made'
    BY <1>1, <1>4
  <2>2. Loaded' = Loaded
    BY <1>1 DEF Loaded
  <2> QED BY <1>1, <2>1, <2>2 DEF LedgerLeadsOn
<1>10. BundlesKnown'
  <2>1. \A k \in DOMAIN ledger : ledger[k].bundled \in {0} \cup DOMAIN made'
    BY <1>1, <1>4 DEF BundlesKnown
  <2>2. LoadState(bundle'.state, bundle'.ledger) = made'[bundle'.id]
    BY <1>2, <1>4, <1>6 DEF Loaded
  <2> QED BY <1>1, <2>1, <2>2 DEF BundlesKnown
<1>11. VerifyingKnown'
  BY <1>1, <1>4, <1>6, <1>7 DEF VerifyingKnown
<1> QED BY <1>8, <1>9, <1>10, <1>11 DEF LedgerIInv

\* Retained lines, after the checkpoint that names the bundle.
LEMMA RecordKeeps == ASSUME LedgerIInv, RecordBundle PROVE LedgerIInv'
<1> DEFINE from == IF Len(ledger) > RetainEvents THEN Len(ledger) - RetainEvents + 1 ELSE 1
           kept == SubSeq(ledger, from, Len(ledger))
           history == [k \in 1..Len(kept) |-> Historical(kept[k])]
           first == [Checkpoint(exported.state) EXCEPT !.bundled = exported.bundle]
<1>1. /\ LedgerTyped /\ LedgerLeadsOn /\ BundlesKnown /\ VerifyingKnown
      /\ exported # None /\ exported' = None /\ ledger' = <<first>> \o history
      /\ UNCHANGED <<state, pending, edited, bundle, bundles, made, verifying>>
  BY DEF LedgerIInv, RecordBundle
<1>2. /\ exported.state = Loaded /\ exported.bundle \in DOMAIN made /\ exported.bundle \in Nat
      /\ Loaded \in StateT /\ state \in StateT /\ Recovered(ledger) \in StateT
      /\ ledger \in Seq(LineT)
  BY <1>1, LoadedTyped DEF LedgerTyped, LedgerLeadsOn
<1>3. /\ first \in LineT /\ first.bundled = exported.bundle /\ first.kind = "checkpoint"
      /\ [seq |-> first.seq, doc |-> first.payload] = Loaded
  <2>1. /\ Checkpoint(Loaded) \in LineT /\ Checkpoint(Loaded).kind = "checkpoint"
        /\ [seq |-> Checkpoint(Loaded).seq, doc |-> Checkpoint(Loaded).payload] = Loaded
    BY <1>2, CheckpointTyped
  <2> QED BY <1>2, <2>1 DEF LineT
<1>4. /\ Len(kept) \in Nat
      /\ \A k \in 1..Len(kept) : kept[k] \in LineT /\ kept[k].bundled \in {0} \cup DOMAIN made
  <2>1. Len(ledger) \in Nat /\ RetainEvents \in Nat \ {0} /\ DOMAIN ledger = 1..Len(ledger)
    BY <1>2, LenProperties, LedgerConstants
  <2>2. from \in Int /\ from >= 1
    BY <2>1
  <2> HIDE DEF from
  <2>3. \A i \in from..Len(ledger) : ledger[i] \in LineT /\ i \in DOMAIN ledger
    <3> TAKE i \in from..Len(ledger)
    <3>1. i \in 1..Len(ledger)
      BY <2>1, <2>2
    <3> QED BY <1>2, <2>1, <3>1, ElementOfSeq
  <2>4. /\ kept \in Seq(LineT)
        /\ Len(kept) = IF from <= Len(ledger) THEN Len(ledger) - from + 1 ELSE 0
        /\ \A i \in 1..Len(ledger) - from + 1 : kept[i] = ledger[from + i - 1]
    BY <2>1, <2>2, <2>3, SubSeqProperties
  <2> HIDE DEF kept
  <2>5. Len(kept) \in Nat /\ \A k \in 1..Len(kept) : kept[k] \in LineT
    BY <2>4, LenProperties, ElementOfSeq
  <2>6. ASSUME NEW k \in 1..Len(kept) PROVE kept[k].bundled \in {0} \cup DOMAIN made
    <3>1. k \in 1..Len(ledger) - from + 1 /\ from + k - 1 \in from..Len(ledger)
      BY <2>1, <2>2, <2>4
    <3>2. kept[k] = ledger[from + k - 1] /\ from + k - 1 \in DOMAIN ledger
      BY <2>3, <2>4, <3>1
    <3> QED BY <1>1, <3>2 DEF BundlesKnown
  <2> QED BY <2>5, <2>6
<1> HIDE DEF kept, first
<1>5. /\ history \in Seq(LineT) /\ Len(history) = Len(kept)
      /\ \A k \in 1..Len(kept) : /\ history[k].kind = "historical"
                                 /\ history[k].bundled \in {0} \cup DOMAIN made
  <2>1. ASSUME NEW k \in 1..Len(kept)
        PROVE  /\ Historical(kept[k]) \in LineT /\ Historical(kept[k]).kind = "historical"
               /\ Historical(kept[k]).bundled = kept[k].bundled
    BY <1>4, StatesTyped DEF Historical, Line, LineT
  <2> QED BY <1>4, <2>1
<1> HIDE DEF history
<1>6. /\ ledger' \in Seq(LineT) /\ Len(ledger') = 1 + Len(history) /\ ledger'[1] = first
      /\ \A k \in 1..Len(history) : ledger'[k + 1] = history[k]
  <2>1. <<first>> \in Seq(LineT) /\ Len(<<first>>) = 1 /\ <<first>>[1] = first
    BY <1>3
  <2>2. Len(history) \in Nat
    BY <1>4, <1>5
  <2>3. /\ ledger' \in Seq(LineT) /\ Len(ledger') = 1 + Len(history)
        /\ \A i \in 1..1 + Len(history) : ledger'[i] = IF i <= 1 THEN <<first>>[i] ELSE history[i - 1]
    BY <1>1, <1>5, <2>1, ConcatProperties
  <2>4. \A k \in 1..Len(history) : ledger'[k + 1] = history[k]
    <3> TAKE k \in 1..Len(history)
    <3>1. k + 1 \in 1..1 + Len(history) /\ ~(k + 1 <= 1) /\ (k + 1) - 1 = k
      BY <2>2
    <3> QED BY <2>3, <3>1
  <2>5. ledger'[1] = first
    <3>1. 1 \in 1..1 + Len(history) /\ 1 <= 1
      BY <2>2
    <3> QED BY <2>1, <2>3, <3>1
  <2> QED BY <2>3, <2>4, <2>5
<1>7. Len(ledger') \in Nat /\ Len(ledger') # 0 /\ DOMAIN ledger' = 1..Len(ledger')
      /\ \A k \in 2..Len(ledger') : k - 1 \in 1..Len(history) /\ (k - 1) + 1 = k
  BY <1>4, <1>5, <1>6, LenProperties
<1>8. \A k \in 2..Len(ledger') : ledger'[k] = history[k - 1]
  BY <1>6, <1>7
<1>9. Recovered(ledger') = Loaded
  <2> DEFINE lines == ledger'
  <2>1. Len(lines) \in Nat /\ Len(lines) # 0 /\ lines[1] = first
    BY <1>6, <1>7
  <2>2. lines[1].kind = "checkpoint"
    BY <1>3, <2>1
  <2>3. \A k \in 2..Len(lines) : lines[k].kind = "historical"
    BY <1>5, <1>7, <1>8
  <2> HIDE DEF lines
  <2>4. Recovered(lines) = [seq |-> lines[1].seq, doc |-> lines[1].payload]
    BY <2>1, <2>2, <2>3, RecoveredCompacted
  <2> QED BY <1>3, <2>1, <2>4 DEF lines
<1>10. LedgerTyped'
  BY <1>1, <1>6 DEF LedgerTyped
<1>11. LedgerLeadsOn'
  <2>1. LoadState(state, ledger') = Loaded
    BY <1>2, <1>9, LoadedFrom DEF Loaded
  <2>2. Loaded' = Loaded
    BY <1>1, <2>1 DEF Loaded
  <2>3. pending = None \/ (Recovered(ledger') = pending /\ state.seq < pending.seq)
    <3>1. CASE pending = None
      BY <3>1
    <3>2. CASE Recovered(ledger) = pending /\ state.seq < pending.seq
      <4>1. Loaded = pending
        BY <1>2, <3>2 DEF Loaded, LoadState, StateT
      <4> QED BY <1>9, <3>2, <4>1
    <3> QED BY <1>1, <3>1, <3>2 DEF LedgerLeadsOn
  <2> QED BY <1>1, <1>2, <1>9, <2>2, <2>3 DEF LedgerLeadsOn
<1>12. BundlesKnown'
  <2>1. ASSUME NEW k \in DOMAIN ledger' PROVE ledger'[k].bundled \in {0} \cup DOMAIN made
    <3>1. CASE k = 1
      BY <1>2, <1>3, <1>6, <3>1
    <3>2. CASE k # 1
      <4>1. k \in 2..Len(ledger')
        BY <1>7, <3>2
      <4> QED BY <1>5, <1>7, <1>8, <4>1
    <3> QED BY <3>1, <3>2
  <2> QED BY <1>1, <2>1 DEF BundlesKnown
<1> QED BY <1>1, <1>10, <1>11, <1>12, VerifyingStays DEF LedgerIInv

\* A bundle of somebody else is none that the session made.
LEMMA ForgeKeeps == ASSUME LedgerIInv, Forge PROVE LedgerIInv'
<1>1. /\ LedgerTyped /\ LedgerLeadsOn /\ BundlesKnown /\ VerifyingKnown
      /\ bundles' = bundles + 1
      /\ verifying' = [verifying EXCEPT !.swapped = TRUE]
      /\ UNCHANGED <<state, ledger, pending, edited, exported, made>>
  BY DEF LedgerIInv, Forge
<1>2. PICK s : s \in StateT /\ bundle' = [id |-> bundles', state |-> s, ledger |-> <<Checkpoint(s)>>]
  <2>1. PICK doc \in States : LET s == [seq |-> 1, doc |-> doc] IN
          bundle' = [id |-> bundles', state |-> s, ledger |-> <<Checkpoint(s)>>]
    BY DEF Forge
  <2>2. [seq |-> 1, doc |-> doc] \in StateT
    BY DEF StateT
  <2> QED BY <2>1, <2>2
<1>3. /\ bundles' \in Nat /\ bundles' # 0 /\ bundles' \notin DOMAIN made
      /\ DOMAIN made \subseteq 1..bundles'
  BY <1>1 DEF LedgerTyped
<1>4. bundle' \in BundleT /\ bundle'.id = bundles'
  BY <1>2, <1>3, CheckpointTyped DEF BundleT
<1>5. /\ verifying'.at = verifying.at /\ verifying'.digest = verifying.digest
      /\ verifying'.swapped = TRUE /\ verifying'.doc = verifying.doc
      /\ verifying' \in [at : {"idle", "digest", "recorded", "refused", "verified"}, digest : Nat,
                          doc : StateT \cup {None}, swapped : BOOLEAN]
  BY <1>1 DEF LedgerTyped
<1>6. LedgerTyped'
  BY <1>1, <1>3, <1>4, <1>5 DEF LedgerTyped
<1>7. LedgerLeadsOn'
  BY <1>1 DEF LedgerLeadsOn, Loaded
<1>8. BundlesKnown'
  BY <1>1, <1>3, <1>4 DEF BundlesKnown
<1>9. VerifyingKnown'
  BY <1>1, <1>4, <1>5 DEF VerifyingKnown
<1> QED BY <1>6, <1>7, <1>8, <1>9 DEF LedgerIInv

\* The steps of a verification.
LEMMA VerifyKeeps ==
  ASSUME LedgerIInv, ReadDigest \/ ReadRecord \/ Extract
  PROVE  LedgerIInv'
<1>1. /\ LedgerTyped /\ LedgerLeadsOn /\ BundlesKnown /\ VerifyingKnown
      /\ UNCHANGED <<state, ledger, pending, edited, bundle, bundles, exported, made>>
  BY DEF LedgerIInv, ReadDigest, ReadRecord, Extract
<1>2. verifying' \in [at : {"idle", "digest", "recorded", "refused", "verified"}, digest : Nat,
                      doc : StateT \cup {None}, swapped : BOOLEAN]
      /\ VerifyingKnown'
  <2>1. CASE ReadDigest
    <3>1. /\ bundle # None
          /\ verifying' = [at |-> "digest", digest |-> bundle.id, doc |-> None, swapped |-> FALSE]
      BY <2>1 DEF ReadDigest
    <3>2. bundle \in BundleT /\ bundle.id \in Nat /\ bundle.id # 0
      BY <1>1, <3>1 DEF LedgerTyped, BundleT
    <3> QED BY <1>1, <3>1, <3>2 DEF VerifyingKnown
  <2>2. CASE ReadRecord
    <3>1. /\ verifying.at = "digest"
          /\ verifying' = [verifying EXCEPT !.at = IF Recorded(verifying.digest) THEN "recorded"
                                                   ELSE "refused"]
      BY <2>2 DEF ReadRecord
    <3>2. /\ verifying'.at = (IF Recorded(verifying.digest) THEN "recorded" ELSE "refused")
          /\ verifying'.digest = verifying.digest /\ verifying'.swapped = verifying.swapped
          /\ verifying' \in [at : {"idle", "digest", "recorded", "refused", "verified"}, digest : Nat,
                              doc : StateT \cup {None}, swapped : BOOLEAN]
      BY <1>1, <3>1 DEF LedgerTyped
    <3>3. Recorded(verifying.digest) => verifying.digest \in DOMAIN made
      BY <1>1, <3>1 DEF Recorded, BundlesKnown, VerifyingKnown
    <3> QED BY <1>1, <3>1, <3>2, <3>3 DEF VerifyingKnown
  <2>3. CASE Extract
    <3> DEFINE doc == LoadState(bundle.state, bundle.ledger)
    <3>1. /\ verifying.at = "recorded"
          /\ verifying' = [verifying EXCEPT !.at = IF Recovers(bundle.ledger) THEN "verified" ELSE "refused",
                                            !.doc = doc]
      BY <2>3 DEF Extract
    <3> HIDE DEF doc
    <3>2. /\ verifying'.at = (IF Recovers(bundle.ledger) THEN "verified" ELSE "refused")
          /\ verifying'.digest = verifying.digest /\ verifying'.swapped = verifying.swapped
          /\ verifying'.doc = doc
      BY <1>1, <3>1 DEF LedgerTyped
    <3>3. /\ bundle \in BundleT /\ verifying.digest \in DOMAIN made
          /\ ~verifying.swapped => bundle.id = verifying.digest
      BY <1>1, <3>1 DEF VerifyingKnown
    <3>4. doc \in StateT
      BY <3>3 DEF doc, LoadState, BundleT
    <3>5. bundle.id \in DOMAIN made => doc = made[bundle.id]
      BY <1>1, <3>3 DEF doc, BundlesKnown
    <3>6. verifying' \in [at : {"idle", "digest", "recorded", "refused", "verified"}, digest : Nat,
                          doc : StateT \cup {None}, swapped : BOOLEAN]
      BY <1>1, <3>1, <3>4 DEF LedgerTyped
    <3>7. VerifyingKnown'
      BY <1>1, <3>2, <3>3, <3>5 DEF VerifyingKnown
    <3> QED BY <3>6, <3>7
  <2> QED BY <2>1, <2>2, <2>3
<1>3. LedgerTyped'
  BY <1>1, <1>2 DEF LedgerTyped
<1>4. LedgerLeadsOn'
  BY <1>1 DEF LedgerLeadsOn, Loaded
<1>5. BundlesKnown'
  BY <1>1 DEF BundlesKnown
<1> QED BY <1>2, <1>3, <1>4, <1>5 DEF LedgerIInv

\* Every step of the ledger and of a verification keeps the invariant.
LEMMA LedgerKeeps == LedgerIInv /\ [LedgerNext]_ledgerVars => LedgerIInv'
<1> SUFFICES ASSUME LedgerIInv, [LedgerNext]_ledgerVars PROVE LedgerIInv'
  OBVIOUS
<1>1. CASE UNCHANGED ledgerVars
  <2>1. UNCHANGED <<state, ledger, pending, edited, bundle, bundles, exported, made, verifying>>
    BY <1>1 DEF ledgerVars
  <2>2. LedgerTyped' /\ LedgerLeadsOn'
    BY <2>1 DEF LedgerIInv, LedgerTyped, LedgerLeadsOn, Loaded
  <2>3. BundlesKnown' /\ VerifyingKnown'
    BY <2>1 DEF LedgerIInv, BundlesKnown, VerifyingKnown
  <2> QED BY <2>2, <2>3 DEF LedgerIInv
<1>2. CASE LedgerNext
  BY <1>2, AppendKeeps, ReplaceKeeps, EditKeeps, CompactKeeps, ExportKeeps, RecordKeeps,
     CrashKeeps, ForgeKeeps, VerifyKeeps DEF LedgerNext
<1> QED BY <1>1, <1>2

\* What the invariant says of the ledger and of verified bundles.
LEMMA LedgerImplied == LedgerIInv => HistoryRestores
<1> SUFFICES ASSUME LedgerIInv PROVE HistoryRestores
  OBVIOUS
<1>1. LedgerTyped /\ LedgerLeadsOn /\ VerifyingKnown
  BY DEF LedgerIInv
<1>2. ReplayRestores
  <2>1. Recovers(ledger)
    BY <1>1, LoadedTyped
  <2>2. ASSUME pending # None PROVE Loaded = pending
    <3>1. Recovered(ledger) = pending /\ state.seq < pending.seq
      BY <1>1, <2>2 DEF LedgerLeadsOn
    <3>2. state.seq \in Nat /\ pending.seq \in Nat
      BY <1>1, <2>2 DEF LedgerTyped, StateT
    <3> QED BY <3>1, <3>2 DEF Loaded, LoadState
  <2>3. edited \/ Recovered(ledger) = Loaded
    BY <1>1 DEF LedgerLeadsOn
  <2> QED BY <2>1, <2>2, <2>3 DEF ReplayRestores
<1>3. VerifiedBundleRestores
  BY <1>1 DEF VerifyingKnown, VerifiedBundleRestores
<1> QED BY <1>2, <1>3 DEF HistoryRestores

\* HistoryRestores: after every sequence of saves, edits, compactions and crashes the ledger
\* replays to the state that was saved last, and a bundle that verifies restores the state
\* that compact_session exported in it.
THEOREM HistoryAlwaysRestores == LedgerSpec => []HistoryRestores
<1>1. LedgerInit => LedgerIInv
  BY LedgerStarts
<1>2. LedgerIInv /\ [LedgerNext]_ledgerVars => LedgerIInv'
  BY LedgerKeeps
<1>3. LedgerIInv => HistoryRestores
  BY LedgerImplied
<1> QED BY <1>1, <1>2, <1>3, PTL DEF LedgerSpec
=============================================================================
