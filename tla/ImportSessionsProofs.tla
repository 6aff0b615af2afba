----------------------- MODULE ImportSessionsProofs -----------------------
(***************************************************************************)
(* Proofs about ImportSessions, for any number of sessions, requests and    *)
(* files, any quota and any number of restarts, when clients wait for the   *)
(* answers (Patient): the source of a session has one owner, and what a     *)
(* repository is made of is a snapshot of it.                               *)
(***************************************************************************)
EXTENDS ImportSessions, FiniteSetTheorems, WellFoundedInduction, TLAPS

---------------------------------------------------------------------------
(* Types. *)

Staging == {None} \union SUBSET Entries
Prints  == {None} \union SUBSET (Files \union {GitDir})

SessionRecord ==
  [kind : {"none", "upload_zip", "upload_folder", "github_url"}, status : Statuses,
   expected : Nat, received : Nat, saved : Nat, bytes : Nat, seen : SUBSET STRING,
   print : Prints, repository : Confirms \union {None}]

Batch == [at : {"next", "saving"}, session : Sessions, files : Seq(Files),
          count : Nat, bytes : Nat]

Confirmation == [at : {"move", "create", "mark", "ended"}, session : Sessions]

RepoRecord == [source : Staging, listed : BOOLEAN, stored : BOOLEAN, print : Prints]

CloneTo == {"none", "start", "create", "clone", "cloned", "strip", "stripped",
            "validate", "validated", "ready", "raised", "fail", "ended", "dead"}

TypeInv ==
  /\ session \in [Sessions -> SessionRecord]
  /\ listed \subseteq Sessions
  /\ staged \in [Sessions -> Staging]
  /\ clone \in [Sessions -> CloneTo]
  /\ upload \in [Uploads -> Batch \union {Idle}]
  /\ \A u \in Uploads : upload[u].at = "saving" => upload[u].files # <<>>
  /\ confirm \in [Confirms -> Confirmation \union {Idle}]
  /\ cancel \in [Sessions -> {"idle", "leave", "clean", "remove"}]
  /\ repo \in [Confirms -> RepoRecord]
  /\ restarts \in Nat

---------------------------------------------------------------------------
(* Who may touch the source of a session, and when. *)

\* Requests and threads that work on a session.
Receiving(s)  == \E u \in Uploads : upload[u] # Idle /\ upload[u].session = s
Confirming(s) == \E c \in Confirms : confirm[c] # Idle /\ confirm[c].session = s
\* A confirmation has the source of the session: it is not over, or it was left with it.
Stranded(c)   == confirm[c].at = "ended" /\ repo[c].source # None /\ ~repo[c].stored
Held(s)       == \E c \in Confirms : /\ confirm[c].at \in {"create", "mark"} \/ Stranded(c)
                                     /\ confirm[c].session = s
Cloning(s)    == clone[s] \notin {"none", "ended", "dead"}

\* Nothing acquires the source any more, or ever will again.
Settled(s) ==
  /\ session[s].kind # "none" /\ session[s].status \in {"preview_ready", "confirmed", "cancelled"}
  /\ ~Cloning(s) /\ ~Receiving(s)

SessionInv(s) ==
  /\ session[s].kind = "none" => /\ session[s].status = "none" /\ s \notin listed
                                 /\ clone[s] = "none" /\ cancel[s] = "idle"
                                 /\ ~Receiving(s) /\ staged[s] = None
                                 /\ session[s].print = None
  /\ session[s].status = "none" => session[s].kind = "none"
  /\ clone[s] # "none" => session[s].kind = "github_url"
  /\ Receiving(s) => /\ session[s].kind = "upload_folder"
                     /\ session[s].status \in {"uploading", "cancelled"}
  /\ session[s].status = "uploading" => /\ session[s].kind = "upload_folder"
                                        /\ cancel[s] # "remove"
                                        /\ s \in listed => staged[s] # None
  /\ session[s].status \in {"preview_ready", "confirmed"} => Settled(s)
  /\ Confirming(s) => Settled(s)
  /\ cancel[s] \in {"clean", "remove"} => ~Cloning(s)
  /\ clone[s] \in {"cloned", "strip", "stripped", "validate", "validated", "ready"}
     => staged[s] # None
  /\ s \in listed /\ session[s].status = "preview_ready" /\ cancel[s] # "remove" /\ ~Held(s)
     => staged[s] # None

ConfirmInv(c) ==
  /\ confirm[c].at \in {"idle", "move"} => repo[c].source = None
  /\ confirm[c].at \in {"create", "mark"} => repo[c].source # None
  /\ repo[c].source # None => staged[confirm[c].session] = None
  /\ repo[c].stored => confirm[c].at \in {"mark", "ended"}

\* No two confirmations of a session have its source.
OneTaker ==
  \A c, d \in Confirms :
    /\ c # d /\ confirm[c] # Idle /\ confirm[d] # Idle
    /\ confirm[c].session = confirm[d].session
    => \/ repo[c].source = None \/ repo[d].source = None

OwnerInv ==
  /\ \A s \in Sessions : SessionInv(s)
  /\ \A c \in Confirms : ConfirmInv(c)
  /\ OneTaker

---------------------------------------------------------------------------
(* Type correctness. *)

LEMMA NewSessionType ==
  ASSUME NEW kind \in {"none", "upload_zip", "upload_folder", "github_url"},
         NEW status \in Statuses, NEW expected \in Nat
  PROVE  NewSession(kind, status, expected) \in SessionRecord
  BY DEF NewSession, SessionRecord, Prints

LEMMA EntriesType ==
  /\ \A files \in SUBSET (Files \union {GitDir}) :
       Whole(files) \in SUBSET Entries /\ Partial(files) \in SUBSET Entries
  /\ \A entries \in SUBSET Entries : FilesIn(entries) \in SUBSET (Files \union {GitDir})
  BY DEF Whole, Partial, Entries, FilesIn

LEMMA TypeInit == Init => TypeInv
  <1> SUFFICES ASSUME Init PROVE TypeInv
    OBVIOUS
  <1>1. NoSession \in SessionRecord
    BY NewSessionType DEF NoSession, Statuses
  <1>2. NoRepo \in RepoRecord
    BY DEF NoRepo, RepoRecord, Staging, Prints
  <1> QED BY <1>1, <1>2 DEF Init, TypeInv, Idle, Staging, CloneTo

\* A session record with one field changed.
LEMMA SetStatusField ==
  ASSUME NEW x \in SessionRecord, NEW n \in Statuses, NEW y, y = [x EXCEPT !.status = n]
  PROVE  /\ y \in SessionRecord /\ y.status = n
         /\ y.kind = x.kind /\ y.expected = x.expected /\ y.received = x.received /\ y.saved = x.saved
         /\ y.bytes = x.bytes /\ y.seen = x.seen /\ y.print = x.print /\ y.repository = x.repository
  BY DEF SessionRecord

LEMMA SetSeen ==
  ASSUME NEW x \in SessionRecord, NEW n \in SUBSET STRING, NEW y, y = [x EXCEPT !.seen = n]
  PROVE  /\ y \in SessionRecord /\ y.seen = n
         /\ y.kind = x.kind /\ y.status = x.status /\ y.expected = x.expected /\ y.received = x.received
         /\ y.saved = x.saved /\ y.bytes = x.bytes /\ y.print = x.print /\ y.repository = x.repository
  BY DEF SessionRecord

LEMMA SetReceived ==
  ASSUME NEW x \in SessionRecord, NEW n \in Nat, NEW y, y = [x EXCEPT !.received = n]
  PROVE  /\ y \in SessionRecord /\ y.received = n
         /\ y.kind = x.kind /\ y.status = x.status /\ y.expected = x.expected /\ y.saved = x.saved
         /\ y.bytes = x.bytes /\ y.seen = x.seen /\ y.print = x.print /\ y.repository = x.repository
  BY DEF SessionRecord

LEMMA SetSaved ==
  ASSUME NEW x \in SessionRecord, NEW n \in Nat, NEW y, y = [x EXCEPT !.saved = n]
  PROVE  /\ y \in SessionRecord /\ y.saved = n
         /\ y.kind = x.kind /\ y.status = x.status /\ y.expected = x.expected /\ y.received = x.received
         /\ y.bytes = x.bytes /\ y.seen = x.seen /\ y.print = x.print /\ y.repository = x.repository
  BY DEF SessionRecord

LEMMA SetBytes ==
  ASSUME NEW x \in SessionRecord, NEW n \in Nat, NEW y, y = [x EXCEPT !.bytes = n]
  PROVE  /\ y \in SessionRecord /\ y.bytes = n
         /\ y.kind = x.kind /\ y.status = x.status /\ y.expected = x.expected /\ y.received = x.received
         /\ y.saved = x.saved /\ y.seen = x.seen /\ y.print = x.print /\ y.repository = x.repository
  BY DEF SessionRecord

LEMMA SetPrint ==
  ASSUME NEW x \in SessionRecord, NEW n \in Prints, NEW y, y = [x EXCEPT !.print = n]
  PROVE  /\ y \in SessionRecord /\ y.print = n
         /\ y.kind = x.kind /\ y.status = x.status /\ y.expected = x.expected /\ y.received = x.received
         /\ y.saved = x.saved /\ y.bytes = x.bytes /\ y.seen = x.seen /\ y.repository = x.repository
  BY DEF SessionRecord

LEMMA SetRepository ==
  ASSUME NEW x \in SessionRecord, NEW n \in Confirms \union {None}, NEW y, y = [x EXCEPT !.repository = n]
  PROVE  /\ y \in SessionRecord /\ y.repository = n
         /\ y.kind = x.kind /\ y.status = x.status /\ y.expected = x.expected /\ y.received = x.received
         /\ y.saved = x.saved /\ y.bytes = x.bytes /\ y.seen = x.seen /\ y.print = x.print
  BY DEF SessionRecord

\* Assigning the status of a session, and no more.
LEMMA StatusType ==
  ASSUME TypeInv, NEW s \in Sessions, NEW st \in Statuses, SetStatus(s, st)
  PROVE  session' \in [Sessions -> SessionRecord]
  <1>1. [session[s] EXCEPT !.status = st] \in SessionRecord
    BY SetStatusField DEF TypeInv
  <1> QED BY <1>1 DEF TypeInv, SetStatus

LEMMA DiscardType ==
  ASSUME TypeInv, NEW s \in Sessions, Discard(s)
  PROVE  listed' \subseteq Sessions /\ staged' \in [Sessions -> Staging]
  BY DEF TypeInv, Discard, Staging

\* A batch after the file that it was saving.
SavedBatch(b, f) ==
  [b EXCEPT !.at = "next", !.files = Tail(@), !.count = @ + 1, !.bytes = @ + f.size]

LEMMA NextBatch ==
  ASSUME NEW b \in Batch, NEW f \in Files, b.files \in Seq(Files), b.files # <<>>
  PROVE  /\ SavedBatch(b, f) \in Batch
         /\ SavedBatch(b, f).at = "next" /\ SavedBatch(b, f).session = b.session
         /\ SavedBatch(b, f).files = Tail(b.files)
         /\ SavedBatch(b, f).count = b.count + 1 /\ SavedBatch(b, f).bytes = b.bytes + f.size
  <1> DEFINE n == SavedBatch(b, f)
             files == Tail(b.files)
             count == b.count + 1
             bytes == b.bytes + f.size
  <1>1. b = [at |-> b.at, session |-> b.session, files |-> b.files,
             count |-> b.count, bytes |-> b.bytes]
    BY DEF Batch
  <1>2. n = [at |-> "next", session |-> b.session, files |-> files, count |-> count, bytes |-> bytes]
    <2>1. ASSUME NEW m, m = [b EXCEPT !.at = "next", !.files = Tail(@), !.count = @ + 1,
                                      !.bytes = @ + f.size]
          PROVE  m = [at |-> "next", session |-> b.session, files |-> files, count |-> count,
                      bytes |-> bytes]
      BY <1>1, <2>1
    <2> QED BY <2>1 DEF SavedBatch
  <1>3. files \in Seq(Files) /\ count \in Nat /\ bytes \in Nat /\ b.session \in Sessions
    BY FilesAssumption DEF FileType, Batch
  <1> HIDE DEF n, files, count, bytes
  <1>4. n \in Batch
    BY <1>2, <1>3 DEF Batch
  <1>5. /\ n.at = "next" /\ n.session = b.session /\ n.files = files
        /\ n.count = count /\ n.bytes = bytes
    BY <1>2
  <1> QED BY <1>4, <1>5 DEF n, files, count, bytes

LEMMA ReceiveType ==
  ASSUME TypeInv, NEW u \in Uploads, ReceiveFile(u)
  PROVE  TypeInv'
  <1> DEFINE b == upload[u]
             s == b.session
             f == Head(b.files)
  <1>1. b \in Batch /\ s \in Sessions /\ b.files \in Seq(Files) /\ b.files # <<>>
    BY DEF TypeInv, ReceiveFile, Batch, Idle
  <1>2. f \in Files /\ Tail(b.files) \in Seq(Files) /\ f.identity \in STRING
    BY <1>1, FilesAssumption DEF FileType
  <1>3. session' \in [Sessions -> SessionRecord]
    <2>1. CASE UNCHANGED session
      BY <2>1 DEF TypeInv
    <2>2. CASE session' = [session EXCEPT ![s].seen = @ \union {f.identity}, ![s].received = @ + 1]
      <3> DEFINE seen == session[s].seen \union {f.identity}
                 x == [session[s] EXCEPT !.seen = seen]
                 y == [x EXCEPT !.received = x.received + 1]
      <3>1. session[s] \in SessionRecord /\ seen \in SUBSET STRING
            /\ session[s].received + 1 \in Nat
        BY <1>1, <1>2 DEF TypeInv, SessionRecord
      <3>2. x \in SessionRecord /\ x.received = session[s].received
        <4> HIDE DEF seen, x
        <4>1. x = [session[s] EXCEPT !.seen = seen]
          BY DEF x
        <4> QED BY <3>1, <4>1, SetSeen
      <3>3. y \in SessionRecord
        BY <3>1, <3>2, SetReceived
      <3>4. session' = [session EXCEPT ![s] = y]
        BY <2>2
      <3> QED BY <3>3, <3>4 DEF TypeInv
    <2> QED BY <2>1, <2>2 DEF ReceiveFile
  <1>4. listed' \subseteq Sessions /\ staged' \in [Sessions -> Staging]
    <2>1. CASE Discard(s)
      BY <2>1, <1>1, DiscardType
    <2>2. CASE UNCHANGED <<listed, staged>>
      BY <2>2 DEF TypeInv
    <2>3. CASE UNCHANGED listed /\ staged' = [staged EXCEPT ![s] =
                                 (IF @ = None THEN {} ELSE @) \union Partial({f})]
      <3>1. Partial({f}) \in SUBSET Entries
        BY <1>2, EntriesType
      <3> QED BY <2>3, <3>1, <1>1 DEF TypeInv, Staging
    <2> QED BY <2>1, <2>2, <2>3 DEF ReceiveFile, RefuseBatch
  <1>5. upload' \in [Uploads -> Batch \union {Idle}]
    <2>1. CASE upload' = [upload EXCEPT ![u] = Idle]
      BY <2>1 DEF TypeInv
    <2>2. CASE upload' = [upload EXCEPT ![u].files = Tail(@)]
      BY <2>2, <1>1, <1>2 DEF TypeInv, Batch
    <2>3. CASE upload' = [upload EXCEPT ![u].at = "saving"]
      BY <2>3, <1>1 DEF TypeInv, Batch
    <2> QED BY <2>1, <2>2, <2>3 DEF ReceiveFile, RefuseBatch
  <1>6. ASSUME NEW v \in Uploads, upload'[v].at = "saving" PROVE upload'[v].files # <<>>
    <2>1. CASE v # u
      BY <2>1, <1>6 DEF TypeInv, ReceiveFile, RefuseBatch
    <2>2. CASE v = u
      <3>1. CASE upload' = [upload EXCEPT ![u] = Idle]
        BY <2>2, <3>1, <1>6 DEF Idle, TypeInv
      <3>2. CASE upload' = [upload EXCEPT ![u].files = Tail(@)]
        BY <2>2, <3>2, <1>6 DEF TypeInv, ReceiveFile
      <3>3. CASE upload' = [upload EXCEPT ![u].at = "saving"]
        BY <2>2, <3>3, <1>1 DEF TypeInv
      <3> QED BY <3>1, <3>2, <3>3 DEF ReceiveFile, RefuseBatch
    <2> QED BY <2>1, <2>2
  <1> QED BY <1>3, <1>4, <1>5, <1>6 DEF ReceiveFile, TypeInv

LEMMA SaveType ==
  ASSUME TypeInv, NEW u \in Uploads, SaveFile(u)
  PROVE  TypeInv'
  <1> DEFINE b == upload[u]
             s == b.session
             f == Head(b.files)
  <1>1. b \in Batch /\ s \in Sessions /\ b.files \in Seq(Files) /\ b.files # <<>>
        /\ b.count \in Nat /\ b.bytes \in Nat
    BY DEF TypeInv, SaveFile, Batch, Idle
  <1>2. f \in Files /\ Tail(b.files) \in Seq(Files) /\ f.size \in Nat
    BY <1>1, FilesAssumption DEF FileType
  <1>3. session' \in [Sessions -> SessionRecord]
    <2>1. CASE UNCHANGED session
      BY <2>1 DEF TypeInv
    <2>2. CASE session' = [session EXCEPT ![s].bytes = b.bytes + f.size, ![s].saved = @ + 1]
      <3> DEFINE x == [session[s] EXCEPT !.bytes = b.bytes + f.size]
                 y == [x EXCEPT !.saved = x.saved + 1]
      <3>1. session[s] \in SessionRecord /\ b.bytes + f.size \in Nat
            /\ session[s].saved + 1 \in Nat
        BY <1>1, <1>2 DEF TypeInv, SessionRecord
      <3>2. x \in SessionRecord /\ x.saved = session[s].saved
        BY <3>1, SetBytes
      <3>3. y \in SessionRecord
        BY <3>1, <3>2, SetSaved
      <3>4. session' = [session EXCEPT ![s] = y]
        BY <2>2
      <3> QED BY <3>3, <3>4 DEF TypeInv
    <2> QED BY <2>1, <2>2 DEF SaveFile
  <1>4. listed' \subseteq Sessions /\ staged' \in [Sessions -> Staging]
    <2>1. CASE Discard(s)
      BY <2>1, <1>1, DiscardType
    <2>2. CASE UNCHANGED listed /\ staged' = [staged EXCEPT ![s] =
                IF @ # None /\ <<f, "partial">> \in @
                THEN (@ \ Partial({f})) \union Whole({f}) ELSE @]
      <3>1. Whole({f}) \in SUBSET Entries
        BY <1>2, EntriesType
      <3> QED BY <2>2, <3>1, <1>1 DEF TypeInv, Staging
    <2> QED BY <2>1, <2>2 DEF SaveFile, RefuseBatch
  <1>5. upload' \in [Uploads -> Batch \union {Idle}]
        /\ upload'[u].at # "saving" /\ \A v \in Uploads \ {u} : upload'[v] = upload[v]
    <2>1. CASE upload' = [upload EXCEPT ![u] = Idle]
      BY <2>1 DEF TypeInv, Idle
    <2>2. CASE upload' = [upload EXCEPT ![u] = SavedBatch(b, f)]
      <3> HIDE DEF b, f
      <3>1. SavedBatch(b, f) \in Batch /\ SavedBatch(b, f).at = "next"
        BY <1>1, <1>2, NextBatch
      <3> QED BY <2>2, <3>1 DEF TypeInv, b
    <2>3. upload' = [upload EXCEPT ![u] = Idle] \/ upload' = [upload EXCEPT ![u] = SavedBatch(b, f)]
      BY DEF SaveFile, RefuseBatch, SavedBatch
    <2> QED BY <2>1, <2>2, <2>3
  <1> QED BY <1>3, <1>4, <1>5 DEF SaveFile, TypeInv

LEMMA CloneType ==
  ASSUME TypeInv, NEW s \in Sessions, CloneStep(s)
  PROVE  TypeInv'
  <1>1. ASSUME NEW from, NEW to \in CloneTo, Thread(s, from, to),
               session' \in [Sessions -> SessionRecord], staged' \in [Sessions -> Staging]
        PROVE  TypeInv'
    BY <1>1 DEF TypeInv, Thread
  <1>2. UNCHANGED session => session' \in [Sessions -> SessionRecord]
    BY DEF TypeInv
  <1>3. UNCHANGED staged => staged' \in [Sessions -> Staging]
    BY DEF TypeInv
  <1>4. staged' = [staged EXCEPT ![s] = None] => staged' \in [Sessions -> Staging]
    BY DEF TypeInv, Staging
  <1>5. CASE BeginClone(s)
    <2>1. CASE Thread(s, "start", "create") /\ SetStatus(s, "cloning")
      BY <1>1, <1>3, <1>5, <2>1, StatusType DEF BeginClone, CloneTo, Statuses, Acquiring
    <2>2. CASE Thread(s, "start", "dead") /\ UNCHANGED session
      BY <1>1, <1>2, <1>3, <1>5, <2>2 DEF BeginClone, CloneTo
    <2> QED BY <1>5, <2>1, <2>2 DEF BeginClone
  <1>6. CASE CreateClone(s)
    <2>1. PICK files \in (SUBSET Files) \ {{}} : staged' = [staged EXCEPT ![s] = Partial(files)]
      BY <1>6 DEF CreateClone
    <2>2. staged' \in [Sessions -> Staging]
      BY <2>1, EntriesType DEF TypeInv, Staging
    <2> QED BY <1>1, <1>2, <1>6, <2>2 DEF CreateClone, CloneTo
  <1>7. CASE EndClone(s)
    <2>1. CASE staged[s] # None /\ staged' = [staged EXCEPT ![s] = Whole(FilesIn(@) \union {GitDir})]
      <3>1. FilesIn(staged[s]) \union {GitDir} \in SUBSET (Files \union {GitDir})
        BY <2>1, EntriesType DEF TypeInv, Staging
      <3>2. Whole(FilesIn(staged[s]) \union {GitDir}) \in Staging
        BY <3>1, EntriesType DEF Staging
      <3>3. staged' \in [Sessions -> Staging]
        BY <2>1, <3>2 DEF TypeInv
      <3> QED BY <1>1, <1>2, <1>3, <1>7, <3>3 DEF EndClone, CloneTo
    <2> QED BY <1>1, <1>2, <1>3, <1>7, <2>1 DEF EndClone, CloneTo
  <1>8. CASE CheckCancelled(s)
    BY <1>1, <1>2, <1>3, <1>4, <1>8 DEF CheckCancelled, CloneTo
  <1>9. CASE StripGit(s)
    <2>1. session' \in [Sessions -> SessionRecord]
      BY <1>9, StatusType DEF StripGit, Statuses, Acquiring
    <2>2. staged' \in [Sessions -> Staging]
      BY <1>3, <1>9 DEF StripGit, TypeInv, Staging
    <2> QED BY <1>1, <1>9, <2>1, <2>2 DEF StripGit, CloneTo
  <1>10. CASE ValidateTree(s)
    BY <1>1, <1>2, <1>3, <1>10 DEF ValidateTree, CloneTo
  <1>11. CASE BecomeReady(s)
    BY <1>1, <1>3, <1>11, StatusType DEF BecomeReady, CloneTo, Statuses
  <1>12. CASE FailClone(s)
    BY <1>1, <1>4, <1>12, StatusType DEF FailClone, CloneTo, Statuses
  <1> QED BY <1>5, <1>6, <1>7, <1>8, <1>9, <1>10, <1>11, <1>12 DEF CloneStep

LEMMA RollBackType ==
  ASSUME TypeInv, NEW c \in Confirms, NEW s \in Sessions, RollBack(c, s)
  PROVE  staged' \in [Sessions -> Staging] /\ repo' \in [Confirms -> RepoRecord]
  <1>1. CASE /\ staged' = [staged EXCEPT ![s] = IF @ = None THEN repo[c].source ELSE @]
             /\ repo' = [repo EXCEPT ![c].source = None, ![c].listed = TRUE]
    BY <1>1 DEF TypeInv, Staging, RepoRecord
  <1>2. CASE repo' = [repo EXCEPT ![c].listed = TRUE] /\ UNCHANGED staged
    BY <1>2 DEF TypeInv, RepoRecord
  <1> QED BY <1>1, <1>2 DEF RollBack

LEMMA ConfirmType ==
  ASSUME TypeInv, NEW c \in Confirms, MoveSource(c) \/ CreateRepository(c) \/ MarkConfirmed(c)
  PROVE  TypeInv'
  <1> DEFINE s == confirm[c].session
  <1>1. confirm[c] \in Confirmation /\ s \in Sessions
    BY DEF TypeInv, MoveSource, CreateRepository, MarkConfirmed, Confirmation, Idle
  <1>2. ASSUME NEW l \in {"move", "create", "mark", "ended"}, confirm' = [confirm EXCEPT ![c].at = l]
        PROVE  confirm' \in [Confirms -> Confirmation \union {Idle}]
    BY <1>1, <1>2 DEF TypeInv, Confirmation
  <1>3. CASE MoveSource(c)
    <2>1. confirm' \in [Confirms -> Confirmation \union {Idle}]
      BY <1>2, <1>3 DEF MoveSource
    <2>2. staged' \in [Sessions -> Staging]
      BY <1>3 DEF MoveSource, TypeInv, Staging
    <2>3. repo' \in [Confirms -> RepoRecord]
      <3>1. session[s].print \in Prints /\ staged[s] \in Staging
        BY <1>1 DEF TypeInv, SessionRecord
      <3> QED BY <1>3, <3>1 DEF MoveSource, TypeInv, RepoRecord
    <2> QED BY <1>3, <2>1, <2>2, <2>3 DEF MoveSource, TypeInv
  <1>4. CASE CreateRepository(c)
    <2>1. confirm' \in [Confirms -> Confirmation \union {Idle}]
      BY <1>2, <1>4 DEF CreateRepository
    <2>2. staged' \in [Sessions -> Staging] /\ repo' \in [Confirms -> RepoRecord]
      <3>1. CASE RollBack(c, s)
        BY <1>1, <3>1, RollBackType
      <3>2. CASE UNCHANGED staged /\ repo' = [repo EXCEPT ![c].listed = TRUE, ![c].stored = TRUE]
        BY <3>2 DEF TypeInv, RepoRecord
      <3> QED BY <1>4, <3>1, <3>2 DEF CreateRepository
    <2> QED BY <1>4, <2>1, <2>2 DEF CreateRepository, TypeInv
  <1>5. CASE MarkConfirmed(c)
    <2>1. confirm' \in [Confirms -> Confirmation \union {Idle}]
      BY <1>2, <1>5 DEF MarkConfirmed
    <2>2. session' \in [Sessions -> SessionRecord]
      <3> DEFINE x == [session[s] EXCEPT !.status = "confirmed"]
                 y == [x EXCEPT !.repository = c]
      <3>1. x \in SessionRecord
        BY <1>1, SetStatusField DEF TypeInv, Statuses
      <3>2. y \in SessionRecord
        <4> HIDE DEF x
        <4> QED BY <3>1, SetRepository
      <3>3. session' = [session EXCEPT ![s] = y]
        BY <1>5 DEF MarkConfirmed
      <3> QED BY <1>1, <3>2, <3>3 DEF TypeInv
    <2> QED BY <1>5, <2>1, <2>2 DEF MarkConfirmed, TypeInv
  <1> QED BY <1>3, <1>4, <1>5

LEMMA TypeStep == TypeInv /\ [Next]_vars => TypeInv'
  <1> SUFFICES ASSUME TypeInv, [Next]_vars PROVE TypeInv'
    OBVIOUS
  <1>1. ASSUME NEW s \in Sessions, NEW members \in SUBSET Files, CreateZip(s, members) PROVE TypeInv'
    <2>1. NewSession("upload_zip", "preview_ready", 0) \in SessionRecord
      BY NewSessionType DEF Statuses
    <2>2. Whole(Extracted(members)) \in Staging
      BY EntriesType DEF Extracted, Staging
    <2> QED BY <1>1, <2>1, <2>2 DEF CreateZip, TypeInv
  <1>2. ASSUME NEW s \in Sessions, NEW total \in 1..MaxFiles, StartFolder(s, total) PROVE TypeInv'
    <2>1. NewSession("upload_folder", "uploading", total) \in SessionRecord
      <3>1. total \in Nat
        BY QuotaAssumption
      <3> QED BY <3>1, NewSessionType DEF Statuses
    <2> QED BY <1>2, <2>1 DEF StartFolder, TypeInv, Staging
  <1>3. ASSUME NEW s \in Sessions, CompleteFolder(s) PROVE TypeInv'
    <2>1. listed' \subseteq Sessions /\ staged' \in [Sessions -> Staging]
      BY <1>3, DiscardType DEF CompleteFolder, TypeInv
    <2>2. session' \in [Sessions -> SessionRecord]
      BY <1>3, StatusType DEF CompleteFolder, Statuses, TypeInv
    <2> QED BY <1>3, <2>1, <2>2 DEF CompleteFolder, TypeInv
  <1>4. ASSUME NEW s \in Sessions, NEW url \in Urls, NEW ref \in Refs, StartGithub(s, url, ref) PROVE TypeInv'
    <2>1. NewSession("github_url", "preparing", 0) \in SessionRecord
      BY NewSessionType DEF Statuses, Acquiring
    <2> QED BY <1>4, <2>1 DEF StartGithub, TypeInv, CloneTo
  <1>5. ASSUME NEW s \in Sessions, CloneStep(s) PROVE TypeInv'
    BY <1>5, CloneType
  <1>6. ASSUME NEW s \in Sessions, Preview(s) PROVE TypeInv'
    <2> DEFINE n == FilesIn(staged[s])
               x == [session[s] EXCEPT !.print = n]
    <2>1. n \in Prints
      BY <1>6, EntriesType DEF Preview, TypeInv, Staging, Prints
    <2>2. x \in SessionRecord
      <3> HIDE DEF n
      <3> QED BY <2>1, SetPrint DEF TypeInv
    <2>3. session' = [session EXCEPT ![s] = x]
      BY <1>6 DEF Preview
    <2> QED BY <1>6, <2>2, <2>3 DEF Preview, TypeInv
  <1>7. ASSUME NEW s \in Sessions, BeginCancel(s) PROVE TypeInv'
    BY <1>7 DEF BeginCancel, TypeInv
  <1>8. ASSUME NEW s \in Sessions, MarkCancelled(s) PROVE TypeInv'
    <2>1. session' \in [Sessions -> SessionRecord]
      BY <1>8, StatusType DEF MarkCancelled, Statuses
    <2> QED BY <1>8, <2>1 DEF MarkCancelled, TypeInv
  <1>9. ASSUME NEW s \in Sessions, RemoveCancelled(s) PROVE TypeInv'
    BY <1>9 DEF RemoveCancelled, TypeInv, Staging
  <1>10. ASSUME NEW s \in Sessions, NEW u \in Uploads,
                NEW files \in BoundedSeq(Files, 2) \ {<<>>}, StartBatch(u, s, files) PROVE TypeInv'
    <2>1. files \in Seq(Files)
      <3>1. PICK m \in 0..2 : files \in [1..m -> Files]
        BY DEF BoundedSeq, SeqOf
      <3> QED BY <3>1
    <2>2. session[s].saved \in Nat /\ session[s].bytes \in Nat
      BY DEF TypeInv, SessionRecord
    <2> QED BY <1>10, <2>1, <2>2 DEF StartBatch, TypeInv, Batch
  <1>11. ASSUME NEW s \in Sessions, NEW c \in Confirms, BeginConfirm(c, s) PROVE TypeInv'
    BY <1>11 DEF BeginConfirm, TypeInv, Confirmation
  <1>12. ASSUME NEW u \in Uploads, ReceiveFile(u) \/ SaveFile(u) \/ EndBatch(u) PROVE TypeInv'
    <2>1. CASE EndBatch(u)
      BY <2>1 DEF EndBatch, TypeInv, Idle
    <2> QED BY <1>12, <2>1, ReceiveType, SaveType
  <1>13. ASSUME NEW c \in Confirms, MoveSource(c) \/ CreateRepository(c) \/ MarkConfirmed(c)
         PROVE  TypeInv'
    BY <1>13, ConfirmType
  <1>14. ASSUME Restart PROVE TypeInv'
    <2>1. confirm' \in [Confirms -> Confirmation \union {Idle}]
      <3>1. \A c \in Confirms : confirm[c] # Idle => [confirm[c] EXCEPT !.at = "ended"] \in Confirmation
        BY DEF TypeInv, Confirmation
      <3> QED BY <1>14, <3>1 DEF Restart
    <2>2. repo' \in [Confirms -> RepoRecord]
      <3>1. \A c \in Confirms : [repo[c] EXCEPT !.listed = repo[c].stored] \in RepoRecord
        BY DEF TypeInv, RepoRecord
      <3> QED BY <1>14, <3>1 DEF Restart
    <2> QED BY <1>14, <2>1, <2>2 DEF Restart, TypeInv, CloneTo, Idle
  <1>15. CASE UNCHANGED vars
    BY <1>15 DEF vars, TypeInv
  <1> QED BY <1>1, <1>2, <1>3, <1>4, <1>5, <1>6, <1>7, <1>8, <1>9, <1>10, <1>11, <1>12, <1>13,
             <1>14, <1>15 DEF Next

\* Every variable keeps its type.
THEOREM TypeCorrect == Spec => []TypeInv
  BY TypeInit, TypeStep, PTL DEF Spec

---------------------------------------------------------------------------
(* The source of a session has one owner. *)

LEMMA OwnerInit == Init => OwnerInv
  BY DEF Init, OwnerInv, SessionInv, ConfirmInv, OneTaker, Receiving, Confirming, Held, Cloning,
         Idle, NoSession, NewSession, NoRepo

\* Nothing that a session's invariant speaks of has changed.
SameSession(q) ==
  /\ session'[q] = session[q] /\ (q \in listed' <=> q \in listed) /\ staged'[q] = staged[q]
  /\ clone'[q] = clone[q] /\ cancel'[q] = cancel[q]
  /\ Receiving(q)' <=> Receiving(q)
  /\ Confirming(q)' <=> Confirming(q)
  /\ Held(q)' <=> Held(q)

LEMMA SessionFrame ==
  ASSUME NEW q \in Sessions, SessionInv(q), SameSession(q)
  PROVE  SessionInv(q)'
  BY DEF SessionInv, SameSession, Settled, Cloning

LEMMA ConfirmsSame ==
  ASSUME UNCHANGED <<confirm, repo>>, NEW q
  PROVE  (Confirming(q)' <=> Confirming(q)) /\ (Held(q)' <=> Held(q))
  BY DEF Confirming, Held, Stranded

LEMMA UploadsSame ==
  ASSUME UNCHANGED upload, NEW q
  PROVE  Receiving(q)' <=> Receiving(q)
  BY DEF Receiving

\* A confirmation that has the source of a session is one of the session.
LEMMA SourceConfirms ==
  ASSUME TypeInv, NEW c \in Confirms, ConfirmInv(c), repo[c].source # None
  PROVE  confirm[c] \in Confirmation /\ confirm[c] # Idle /\ Confirming(confirm[c].session)
  BY DEF TypeInv, ConfirmInv, Confirming, Confirmation, Idle

\* A step of one session: it brings no source back that a repository has taken.
LEMMA OneSession ==
  ASSUME TypeInv, OwnerInv, NEW s \in Sessions,
         \A q \in Sessions \ {s} :
           /\ session'[q] = session[q] /\ (q \in listed' <=> q \in listed)
           /\ staged'[q] = staged[q] /\ clone'[q] = clone[q] /\ cancel'[q] = cancel[q]
           /\ Receiving(q)' <=> Receiving(q),
         UNCHANGED <<confirm, repo>>, SessionInv(s)',
         staged'[s] = None \/ staged'[s] = staged[s] \/ ~Confirming(s)
  PROVE  OwnerInv'
  <1>1. ASSUME NEW q \in Sessions PROVE SessionInv(q)'
    <2>1. CASE q # s
      <3>1. SameSession(q)
        BY <2>1, ConfirmsSame DEF SameSession
      <3> QED BY <3>1, SessionFrame DEF OwnerInv
    <2> QED BY <2>1
  <1>2. ASSUME NEW c \in Confirms PROVE ConfirmInv(c)'
    <2>1. CASE repo[c].source = None
      BY <2>1 DEF OwnerInv, ConfirmInv
    <2>2. CASE repo[c].source # None
      <3>1. confirm[c].session \in Sessions /\ Confirming(confirm[c].session)
        BY <2>2, SourceConfirms DEF OwnerInv, Confirmation
      <3>2. staged[confirm[c].session] = None
        BY <2>2 DEF OwnerInv, ConfirmInv
      <3>3. staged'[confirm[c].session] = None
        BY <3>1, <3>2
      <3> QED BY <3>3 DEF OwnerInv, ConfirmInv
    <2> QED BY <2>1, <2>2
  <1>3. OneTaker'
    BY DEF OwnerInv, OneTaker
  <1> QED BY <1>1, <1>2, <1>3 DEF OwnerInv

\* The fields of a session whose status is assigned.
LEMMA StatusFields ==
  ASSUME TypeInv, NEW s \in Sessions, NEW st, SetStatus(s, st)
  PROVE  /\ session'[s].status = st /\ session'[s].kind = session[s].kind
         /\ session'[s].print = session[s].print
         /\ \A q \in Sessions \ {s} : session'[q] = session[q]
  BY DEF TypeInv, SetStatus, SessionRecord

\* What Fresh lets a handler assume.
LEMMA FreshSession ==
  ASSUME OwnerInv, NEW s \in Sessions, Fresh(s)
  PROVE  ~Receiving(s) /\ ~Confirming(s) /\ clone[s] = "none" /\ cancel[s] = "idle"
  BY DEF OwnerInv, SessionInv, Fresh, Settled

LEMMA HeldConfirms ==
  ASSUME NEW s, Held(s)
  PROVE  Confirming(s)
  BY DEF Held, Stranded, Confirming, Idle

\* Files that are staged are not taken for a missing directory.
LEMMA StagedIsThere ==
  \A files \in SUBSET (Files \union {GitDir}) : Whole(files) # None /\ Partial(files) # None
  BY EntriesType, NoneAssumption

LEMMA BeginOwner ==
  ASSUME TypeInv, OwnerInv, NEW s \in Sessions,
         \/ \E members \in SUBSET Files : CreateZip(s, members)
         \/ \E total \in 1..MaxFiles : StartFolder(s, total)
         \/ \E url \in Urls, ref \in Refs : StartGithub(s, url, ref)
  PROVE  OwnerInv'
  <1>1. ASSUME NEW kind, NEW status, NEW expected,
               session' = [session EXCEPT ![s] = NewSession(kind, status, expected)]
        PROVE  /\ session'[s].kind = kind /\ session'[s].status = status /\ session'[s].print = None
               /\ \A q \in Sessions \ {s} : session'[q] = session[q]
    BY <1>1 DEF TypeInv, NewSession
  <1>2. ~Receiving(s) /\ ~Confirming(s) /\ ~Held(s) /\ clone[s] = "none" /\ cancel[s] = "idle"
    BY FreshSession, HeldConfirms DEF CreateZip, StartFolder, StartGithub
  <1>3. UNCHANGED <<upload, confirm, cancel, repo>> /\ listed' = listed \union {s}
    BY DEF CreateZip, StartFolder, StartGithub
  <1>4. CASE \E members \in SUBSET Files : CreateZip(s, members)
    <2>1. PICK members \in SUBSET Files : CreateZip(s, members)
      BY <1>4
    <2>2. staged'[s] = Whole(Extracted(members)) /\ staged'[s] # None
      BY <2>1, StagedIsThere DEF CreateZip, TypeInv, Extracted
    <2>3. session'[s].kind = "upload_zip" /\ session'[s].status = "preview_ready" /\ UNCHANGED clone
      BY <2>1, <1>1 DEF CreateZip
    <2>4. SessionInv(s)'
      BY <1>2, <1>3, <2>2, <2>3, UploadsSame, ConfirmsSame DEF SessionInv, Settled, Cloning
    <2> QED BY <2>1, <2>4, <1>1, <1>2, <1>3, OneSession, UploadsSame DEF CreateZip, TypeInv
  <1>5. CASE \E total \in 1..MaxFiles : StartFolder(s, total)
    <2>1. PICK total \in 1..MaxFiles : StartFolder(s, total)
      BY <1>5
    <2>2. staged'[s] = {} /\ staged'[s] # None
      BY <2>1, NoneAssumption DEF StartFolder, TypeInv
    <2>3. session'[s].kind = "upload_folder" /\ session'[s].status = "uploading" /\ UNCHANGED clone
      BY <2>1, <1>1 DEF StartFolder
    <2>4. SessionInv(s)'
      BY <1>2, <1>3, <2>2, <2>3, UploadsSame, ConfirmsSame DEF SessionInv, Settled, Cloning
    <2> QED BY <2>1, <2>4, <1>1, <1>2, <1>3, OneSession, UploadsSame DEF StartFolder, TypeInv
  <1>6. CASE \E url \in Urls, ref \in Refs : StartGithub(s, url, ref)
    <2>1. PICK url \in Urls, ref \in Refs : StartGithub(s, url, ref)
      BY <1>6
    <2>2. staged'[s] = staged[s] /\ clone'[s] = "start"
      BY <2>1 DEF StartGithub, TypeInv
    <2>3. session'[s].kind = "github_url" /\ session'[s].status = "preparing"
      BY <2>1, <1>1 DEF StartGithub
    <2>4. SessionInv(s)'
      BY <1>2, <1>3, <2>2, <2>3, UploadsSame, ConfirmsSame DEF SessionInv, Settled, Cloning
    <2> QED BY <2>1, <2>4, <1>1, <1>2, <1>3, OneSession, UploadsSame DEF StartGithub, TypeInv
  <1> QED BY <1>4, <1>5, <1>6

\* Nobody receives for a session whose client has been answered.
LEMMA NoneReceives ==
  ASSUME NEW s, Answered(s)
  PROVE  ~Receiving(s)
  BY DEF Answered, Receiving

LEMMA FolderOwner ==
  ASSUME TypeInv, OwnerInv, Patient, NEW s \in Sessions, CompleteFolder(s)
  PROVE  OwnerInv'
  <1>1. /\ ~Receiving(s) /\ ~Confirming(s) /\ ~Held(s) /\ s \in listed /\ staged[s] # None
        /\ clone[s] = "none" /\ session[s].kind = "upload_folder"
        /\ UNCHANGED <<clone, upload, confirm, cancel, repo>>
    BY NoneReceives, HeldConfirms
       DEF CompleteFolder, Available, OwnerInv, SessionInv, Settled
  <1>2. CASE Discard(s) /\ UNCHANGED session
    <2>1. SessionInv(s) /\ s \notin listed' /\ staged'[s] = None
      BY <1>1, <1>2 DEF OwnerInv, Discard, TypeInv
    <2>2. SessionInv(s)'
      BY <1>1, <1>2, <2>1, UploadsSame, ConfirmsSame DEF SessionInv, Settled, Cloning
    <2> QED BY <1>1, <1>2, <2>1, <2>2, OneSession, UploadsSame DEF Discard, TypeInv
  <1>3. CASE SetStatus(s, "preview_ready") /\ UNCHANGED <<listed, staged>>
    <2>1. SessionInv(s) /\ session'[s].status = "preview_ready" /\ session'[s].kind = "upload_folder"
          /\ \A q \in Sessions \ {s} : session'[q] = session[q]
      BY <1>1, <1>3, StatusFields DEF OwnerInv
    <2>2. SessionInv(s)'
      BY <1>1, <1>3, <2>1, UploadsSame, ConfirmsSame DEF SessionInv, Settled, Cloning
    <2> QED BY <1>1, <1>3, <2>1, <2>2, OneSession, UploadsSame
  <1> QED BY <1>2, <1>3 DEF CompleteFolder

LEMMA CloneOwner ==
  ASSUME TypeInv, OwnerInv, NEW s \in Sessions, CloneStep(s)
  PROVE  OwnerInv'
  <1>1. /\ UNCHANGED <<listed, upload, confirm, cancel, repo>>
        /\ Cloning(s)
        /\ \A q \in Sessions \ {s} :
             session'[q] = session[q] /\ staged'[q] = staged[q] /\ clone'[q] = clone[q]
    BY DEF CloneStep, BeginClone, CreateClone, EndClone, CheckCancelled, StripGit, ValidateTree,
           BecomeReady, FailClone, Thread, SetStatus, TypeInv, Cloning
  <1>2. /\ SessionInv(s) /\ session[s].kind = "github_url"
        /\ ~Receiving(s) /\ ~Confirming(s) /\ ~Held(s) /\ cancel[s] \notin {"clean", "remove"}
        /\ session[s].status \notin {"none", "uploading", "preview_ready", "confirmed"}
    BY <1>1, HeldConfirms DEF OwnerInv, SessionInv, Settled, Cloning
  <1>3. ~Receiving(s)' /\ ~Confirming(s)' /\ ~Held(s)'
    BY <1>1, <1>2, UploadsSame, ConfirmsSame
  <1>4. ASSUME NEW from, NEW to, Thread(s, from, to) PROVE clone[s] = from /\ clone'[s] = to
    BY <1>4 DEF Thread, TypeInv
  <1>5. ASSUME NEW st, SetStatus(s, st)
        PROVE  session'[s].status = st /\ session'[s].kind = "github_url"
    BY <1>2, <1>5, StatusFields
  <1>6. ASSUME NEW st, session'[s].status = st, session'[s].kind = "github_url",
               st \notin {"none", "uploading", "preview_ready", "confirmed"},
               clone'[s] \in {"cloned", "strip", "stripped", "validate", "validated", "ready"}
               => staged'[s] # None
        PROVE  SessionInv(s)'
    BY <1>1, <1>2, <1>3, <1>6 DEF SessionInv, Settled, Cloning
  <1>7. SessionInv(s)'
    <2>1. CASE BeginClone(s)
      <3>1. CASE Thread(s, "start", "create") /\ SetStatus(s, "cloning")
        BY <3>1, <1>4, <1>5, <1>6
      <3>2. CASE Thread(s, "start", "dead") /\ UNCHANGED session
        BY <3>2, <1>2, <1>4, <1>6
      <3> QED BY <2>1, <3>1, <3>2 DEF BeginClone
    <2>2. CASE CreateClone(s)
      BY <2>2, <1>2, <1>4, <1>6 DEF CreateClone
    <2>3. CASE EndClone(s)
      <3>1. CASE staged[s] # None /\ staged' = [staged EXCEPT ![s] = Whole(FilesIn(@) \union {GitDir})]
        <4>1. FilesIn(staged[s]) \union {GitDir} \in SUBSET (Files \union {GitDir})
          BY <3>1, EntriesType DEF TypeInv, Staging
        <4>2. staged'[s] # None
          BY <3>1, <4>1, StagedIsThere DEF TypeInv
        <4> QED BY <2>3, <4>2, <1>2, <1>6 DEF EndClone
      <3>2. CASE Thread(s, "clone", "raised") /\ UNCHANGED <<session, staged>>
        BY <3>2, <1>2, <1>4, <1>6
      <3> QED BY <2>3, <3>1, <3>2 DEF EndClone
    <2>4. CASE CheckCancelled(s)
      <3>1. PICK step \in {<<"cloned", "strip">>, <<"stripped", "validate">>,
                           <<"validated", "ready">>, <<"raised", "fail">>} :
              \/ /\ Thread(s, step[1], "ended")
                 /\ UNCHANGED session
              \/ /\ Thread(s, step[1], step[2])
                 /\ UNCHANGED <<session, staged>>
        BY <2>4 DEF CheckCancelled
      <3>2. CASE Thread(s, step[1], "ended") /\ UNCHANGED session
        BY <3>2, <1>2, <1>4, <1>6
      <3>3. CASE Thread(s, step[1], step[2]) /\ UNCHANGED <<session, staged>>
        <4>1. clone[s] = step[1] /\ clone'[s] = step[2]
          BY <3>3, <1>4
        <4>2. clone'[s] # "fail" => staged[s] # None
          BY <4>1, <1>2, <3>1 DEF SessionInv
        <4> QED BY <3>3, <4>1, <4>2, <1>2, <1>6
      <3> QED BY <3>1, <3>2, <3>3
    <2>5. CASE StripGit(s)
      <3>1. session'[s].status = "validating" /\ session'[s].kind = "github_url" /\ clone[s] = "strip"
        BY <2>5, <1>4, <1>5 DEF StripGit
      <3>2. staged[s] \in SUBSET Entries /\ staged[s] # None
        BY <3>1, <1>2 DEF SessionInv, TypeInv, Staging
      <3>3. staged'[s] = staged[s] \/ staged'[s] = staged[s] \ Whole({GitDir})
        BY <2>5, <3>2 DEF StripGit, TypeInv
      <3>4. staged'[s] # None
        BY <3>2, <3>3, NoneAssumption
      <3> QED BY <3>1, <3>4, <1>6
    <2>6. CASE ValidateTree(s)
      BY <2>6, <1>2, <1>4, <1>6 DEF ValidateTree, SessionInv
    <2>7. CASE BecomeReady(s)
      <3>1. session'[s].status = "preview_ready" /\ session'[s].kind = "github_url"
            /\ clone[s] = "ready" /\ clone'[s] = "ended" /\ staged'[s] = staged[s]
        BY <2>7, <1>4, <1>5 DEF BecomeReady
      <3>2. staged'[s] # None
        BY <3>1, <1>2 DEF SessionInv
      <3> QED BY <1>1, <1>2, <1>3, <3>1, <3>2 DEF SessionInv, Settled, Cloning
    <2>8. CASE FailClone(s)
      BY <2>8, <1>4, <1>5, <1>6 DEF FailClone
    <2> QED BY <2>1, <2>2, <2>3, <2>4, <2>5, <2>6, <2>7, <2>8 DEF CloneStep
  <1> QED BY <1>1, <1>2, <1>7, OneSession, UploadsSame

LEMMA CancelOwner ==
  ASSUME TypeInv, OwnerInv, Patient, NEW s \in Sessions,
         Preview(s) \/ BeginCancel(s) \/ MarkCancelled(s) \/ RemoveCancelled(s)
  PROVE  OwnerInv'
  <1>1. /\ UNCHANGED <<clone, upload, confirm, repo>> /\ SessionInv(s)
        /\ Receiving(s)' <=> Receiving(s)
        /\ Confirming(s)' <=> Confirming(s)
        /\ Held(s)' <=> Held(s)
    BY UploadsSame, ConfirmsSame DEF Preview, BeginCancel, MarkCancelled, RemoveCancelled, OwnerInv
  <1>2. CASE Preview(s)
    <2>1. /\ session'[s].status = session[s].status /\ session'[s].kind = session[s].kind
          /\ session[s].kind # "none"
          /\ \A q \in Sessions \ {s} : session'[q] = session[q]
      BY <1>1, <1>2 DEF Preview, TypeInv, SessionRecord, SessionInv
    <2>2. SessionInv(s)'
      BY <1>1, <1>2, <2>1 DEF Preview, SessionInv, Settled, Cloning
    <2> QED BY <1>1, <1>2, <2>1, <2>2, OneSession, UploadsSame DEF Preview
  <1>3. CASE BeginCancel(s)
    <2>1. /\ cancel'[s] \in {"leave", "clean"} /\ \A q \in Sessions \ {s} : cancel'[q] = cancel[q]
          /\ cancel'[s] = "clean" => ~(session[s].kind = "github_url" /\ session[s].status \in Acquiring)
          /\ s \in listed /\ session[s].status \notin {"cancelled", "failed"}
      BY <1>3 DEF BeginCancel, TypeInv, Available
    <2>2. Cloning(s) => session[s].kind = "github_url"
      BY <1>1 DEF SessionInv, Cloning
    <2>3. cancel'[s] = "clean" => ~Cloning(s)
      <3>1. session[s].status \in Statuses
        BY DEF TypeInv, SessionRecord
      <3>2. Cloning(s) => session[s].status \in Acquiring
        BY <1>1, <2>1, <2>2, <3>1 DEF SessionInv, Settled, Statuses, Acquiring
      <3> QED BY <2>1, <2>2, <3>2
    <2>4. SessionInv(s)'
      BY <1>1, <1>3, <2>1, <2>3 DEF BeginCancel, SessionInv, Settled, Cloning
    <2> QED BY <1>1, <1>3, <2>1, <2>4, OneSession, UploadsSame DEF BeginCancel
  <1>4. CASE MarkCancelled(s)
    <2>1. /\ session'[s].status = "cancelled" /\ session'[s].kind = session[s].kind
          /\ \A q \in Sessions \ {s} : session'[q] = session[q]
      BY <1>4, StatusFields DEF MarkCancelled
    <2>2. /\ cancel[s] \in {"leave", "clean"}
          /\ cancel'[s] = IF cancel[s] = "leave" THEN "idle" ELSE "remove"
          /\ \A q \in Sessions \ {s} : cancel'[q] = cancel[q]
      BY <1>4 DEF MarkCancelled, TypeInv
    <2>3. SessionInv(s)'
      BY <1>1, <1>4, <2>1, <2>2 DEF MarkCancelled, SessionInv, Settled, Cloning
    <2> QED BY <1>1, <1>4, <2>1, <2>2, <2>3, OneSession, UploadsSame DEF MarkCancelled
  <1>5. CASE RemoveCancelled(s)
    <2>1. /\ cancel[s] = "remove" /\ cancel'[s] = "idle" /\ s \notin listed' /\ staged'[s] = None
          /\ UNCHANGED session
          /\ \A q \in Sessions \ {s} : cancel'[q] = cancel[q] /\ staged'[q] = staged[q]
                                      /\ (q \in listed' <=> q \in listed)
      BY <1>5 DEF RemoveCancelled, TypeInv
    <2>2. SessionInv(s)'
      BY <1>1, <2>1 DEF SessionInv, Settled, Cloning
    <2> QED BY <1>1, <2>1, <2>2, OneSession, UploadsSame
  <1> QED BY <1>2, <1>3, <1>4, <1>5

\* Only the session of a batch is received for, or not, by a step of the batch.
LEMMA BatchFrame ==
  ASSUME TypeInv, NEW u \in Uploads, NEW s, NEW q, q # s,
         \A v \in Uploads \ {u} : upload'[v] = upload[v],
         upload[u] = Idle \/ upload[u].session = s,
         upload'[u] = Idle \/ upload'[u].session = s
  PROVE  Receiving(q)' <=> Receiving(q)
  BY DEF Receiving

LEMMA StartBatchOwner ==
  ASSUME TypeInv, OwnerInv, NEW s \in Sessions, NEW u \in Uploads, NEW files, StartBatch(u, s, files)
  PROVE  OwnerInv'
  <1>1. /\ upload[u] = Idle /\ upload'[u].session = s
        /\ \A v \in Uploads \ {u} : upload'[v] = upload[v]
        /\ UNCHANGED <<session, listed, staged, clone, confirm, cancel, repo>>
        /\ session[s].kind = "upload_folder" /\ session[s].status = "uploading"
    BY DEF StartBatch, TypeInv
  <1>2. SessionInv(s) /\ ~Confirming(s) /\ ~Held(s)
    BY <1>1, HeldConfirms DEF OwnerInv, SessionInv, Settled
  <1>3. SessionInv(s)'
    BY <1>1, <1>2, ConfirmsSame DEF SessionInv, Settled, Cloning
  <1>4. \A q \in Sessions \ {s} : Receiving(q)' <=> Receiving(q)
    BY <1>1, BatchFrame
  <1> QED BY <1>1, <1>3, <1>4, OneSession

\* A step of a batch keeps the kind and the status of its session, and leaves it a
\* directory or no longer lists it.
LEMMA BatchOwner ==
  ASSUME TypeInv, OwnerInv, NEW u \in Uploads, upload[u] # Idle, NEW s, s = upload[u].session,
         \A v \in Uploads \ {u} : upload'[v] = upload[v],
         upload'[u] = Idle \/ upload'[u].session = s,
         session'[s].kind = session[s].kind, session'[s].status = session[s].status,
         \A q \in Sessions \ {s} :
            session'[q] = session[q] /\ (q \in listed' <=> q \in listed) /\ staged'[q] = staged[q],
         s \in listed' => s \in listed /\ (staged[s] # None => staged'[s] # None),
         UNCHANGED <<clone, confirm, cancel, repo>>
  PROVE  OwnerInv'
  <1>1. s \in Sessions /\ Receiving(s)
    BY DEF TypeInv, Receiving, Batch
  <1>2. /\ SessionInv(s) /\ ~Confirming(s) /\ ~Held(s) /\ clone[s] = "none"
        /\ session[s].kind = "upload_folder" /\ session[s].status \in {"uploading", "cancelled"}
    BY <1>1, HeldConfirms DEF OwnerInv, SessionInv, Settled
  <1>3. SessionInv(s)'
    BY <1>1, <1>2, ConfirmsSame DEF SessionInv, Settled, Cloning
  <1>4. \A q \in Sessions \ {s} : Receiving(q)' <=> Receiving(q)
    BY BatchFrame
  <1> QED BY <1>1, <1>2, <1>3, <1>4, OneSession

LEMMA DiscardOwner ==
  ASSUME TypeInv, NEW s \in Sessions, Discard(s)
  PROVE  /\ s \notin listed'
         /\ \A q \in Sessions \ {s} : (q \in listed' <=> q \in listed) /\ staged'[q] = staged[q]
  BY DEF TypeInv, Discard

LEMMA ReceiveOwner ==
  ASSUME TypeInv, OwnerInv, NEW u \in Uploads, ReceiveFile(u) \/ SaveFile(u) \/ EndBatch(u)
  PROVE  OwnerInv'
  <1> DEFINE b == upload[u]
             s == b.session
             f == Head(b.files)
  <1>1. /\ upload[u] # Idle /\ s \in Sessions /\ b \in Batch
        /\ b.files # <<>> => f \in Files
        /\ session[s] \in SessionRecord
    <2>1. upload[u].at # "idle"
      BY DEF ReceiveFile, SaveFile, EndBatch
    <2>2. b \in Batch /\ b # Idle
      BY <2>1 DEF TypeInv, Idle
    <2>3. s \in Sessions /\ b.files \in Seq(Files)
      BY <2>2 DEF Batch
    <2>4. b.files # <<>> => f \in Files
      BY <2>3
    <2> QED BY <2>2, <2>3, <2>4 DEF TypeInv
  <1>2. UNCHANGED <<clone, confirm, cancel, repo>>
    BY DEF ReceiveFile, SaveFile, EndBatch
  <1>3. CASE EndBatch(u)
    <2>1. upload' = [upload EXCEPT ![u] = Idle] /\ UNCHANGED <<session, listed, staged>>
      BY <1>3 DEF EndBatch
    <2>2. upload'[u] = Idle /\ \A v \in Uploads \ {u} : upload'[v] = upload[v]
      BY <2>1 DEF TypeInv
    <2> HIDE DEF b
    <2> QED BY <1>1, <1>2, <2>1, <2>2, BatchOwner DEF b
  <1>4. CASE ReceiveFile(u)
    <2>1. /\ session'[s].kind = session[s].kind /\ session'[s].status = session[s].status
          /\ \A q \in Sessions \ {s} : session'[q] = session[q]
      <3>1. CASE UNCHANGED session
        BY <3>1
      <3>2. CASE session' = [session EXCEPT ![s].seen = @ \union {f.identity}, ![s].received = @ + 1]
        <4>1. /\ session'[s] = [[session[s] EXCEPT !.seen = session[s].seen \union {f.identity}]
                                   EXCEPT !.received = session[s].received + 1]
              /\ \A q \in Sessions \ {s} : session'[q] = session[q]
          BY <3>2, <1>1 DEF TypeInv, SessionRecord
        <4> DEFINE x == session[s]
                   y == session'[s]
                   seen == session[s].seen \union {f.identity}
                   received == session[s].received + 1
        <4>2. y = [[x EXCEPT !.seen = seen] EXCEPT !.received = received] /\ x \in SessionRecord
          BY <4>1, <1>1
        <4>3. y.kind = x.kind /\ y.status = x.status
          <5> HIDE DEF x, y, seen, received
          <5> QED BY <4>2 DEF SessionRecord
        <4> QED BY <4>1, <4>3
      <3> QED BY <1>4, <3>1, <3>2 DEF ReceiveFile
    <2>2. /\ upload'[u] = Idle \/ upload'[u].session = s
          /\ \A v \in Uploads \ {u} : upload'[v] = upload[v]
      <3>1. CASE upload' = [upload EXCEPT ![u] = Idle]
        BY <3>1 DEF TypeInv
      <3>2. CASE upload' = [upload EXCEPT ![u].files = Tail(@)]
        BY <3>2, <1>1 DEF TypeInv, Batch
      <3>3. CASE upload' = [upload EXCEPT ![u].at = "saving"]
        BY <3>3, <1>1 DEF TypeInv, Batch
      <3> QED BY <1>4, <3>1, <3>2, <3>3 DEF ReceiveFile, RefuseBatch
    <2>3. /\ \A q \in Sessions \ {s} : (q \in listed' <=> q \in listed) /\ staged'[q] = staged[q]
          /\ s \in listed' => s \in listed /\ (staged[s] # None => staged'[s] # None)
      <3>1. CASE Discard(s)
        BY <3>1, <1>1, DiscardOwner
      <3>2. CASE UNCHANGED <<listed, staged>>
        BY <3>2
      <3>3. CASE UNCHANGED listed /\ f \in Files /\ staged' = [staged EXCEPT ![s] =
                                 (IF @ = None THEN {} ELSE @) \union Partial({f})]
        <4>1. Partial({f}) \in SUBSET Entries
          BY <3>3, EntriesType
        <4>2. staged[s] # None => staged[s] \in SUBSET Entries
          BY <1>1 DEF TypeInv, Staging
        <4>3. staged[s] # None => staged'[s] = staged[s] \union Partial({f})
          BY <1>1, <3>3 DEF TypeInv
        <4>4. staged[s] # None => staged'[s] # None
          BY <4>1, <4>2, <4>3, NoneAssumption
        <4> QED BY <1>1, <3>3, <4>4 DEF TypeInv
      <3> QED BY <1>1, <1>4, <3>1, <3>2, <3>3 DEF ReceiveFile, RefuseBatch
    <2> HIDE DEF b
    <2> QED BY <1>1, <1>2, <2>1, <2>2, <2>3, BatchOwner DEF b
  <1>5. CASE SaveFile(u)
    <2>1. /\ session'[s].kind = session[s].kind /\ session'[s].status = session[s].status
          /\ \A q \in Sessions \ {s} : session'[q] = session[q]
      <3>1. CASE UNCHANGED session
        BY <3>1
      <3>2. CASE session' = [session EXCEPT ![s].bytes = b.bytes + f.size, ![s].saved = @ + 1]
        <4>1. /\ session'[s] = [[session[s] EXCEPT !.bytes = b.bytes + f.size]
                                   EXCEPT !.saved = session[s].saved + 1]
              /\ \A q \in Sessions \ {s} : session'[q] = session[q]
          BY <3>2, <1>1 DEF TypeInv, SessionRecord
        <4> DEFINE x == session[s]
                   y == session'[s]
                   bytes == b.bytes + f.size
                   saved == session[s].saved + 1
        <4>2. y = [[x EXCEPT !.bytes = bytes] EXCEPT !.saved = saved] /\ x \in SessionRecord
          BY <4>1, <1>1
        <4>3. y.kind = x.kind /\ y.status = x.status
          <5> HIDE DEF x, y, bytes, saved
          <5> QED BY <4>2 DEF SessionRecord
        <4> QED BY <4>1, <4>3
      <3> QED BY <1>5, <3>1, <3>2 DEF SaveFile
    <2>2. /\ upload'[u] = Idle \/ upload'[u].session = s
          /\ \A v \in Uploads \ {u} : upload'[v] = upload[v]
      <3>1. CASE upload' = [upload EXCEPT ![u] = Idle]
        BY <3>1 DEF TypeInv
      <3>2. CASE upload' = [upload EXCEPT ![u] =
                [b EXCEPT !.at = "next", !.files = Tail(@), !.count = @ + 1, !.bytes = @ + f.size]]
        BY <3>2, <1>1 DEF TypeInv, Batch
      <3> QED BY <1>5, <3>1, <3>2 DEF SaveFile, RefuseBatch
    <2>3. /\ \A q \in Sessions \ {s} : (q \in listed' <=> q \in listed) /\ staged'[q] = staged[q]
          /\ s \in listed' => s \in listed /\ (staged[s] # None => staged'[s] # None)
      <3>1. CASE Discard(s)
        BY <3>1, <1>1, DiscardOwner
      <3>2. CASE UNCHANGED listed /\ staged' = [staged EXCEPT ![s] =
                IF @ # None /\ <<f, "partial">> \in @
                THEN (@ \ Partial({f})) \union Whole({f}) ELSE @]
        <4>1. f \in Files
          BY <1>1, <1>5 DEF SaveFile, TypeInv
        <4>2. Whole({f}) \in SUBSET Entries
          BY <4>1, EntriesType
        <4>3. staged[s] # None => staged[s] \in SUBSET Entries
          BY <1>1 DEF TypeInv, Staging
        <4>4. staged'[s] = staged[s] \/ staged'[s] = (staged[s] \ Partial({f})) \union Whole({f})
          BY <1>1, <3>2 DEF TypeInv
        <4>5. staged[s] # None => staged'[s] # None
          BY <4>2, <4>3, <4>4, NoneAssumption
        <4> QED BY <1>1, <3>2, <4>5 DEF TypeInv
      <3> QED BY <1>5, <3>1, <3>2 DEF SaveFile, RefuseBatch
    <2> HIDE DEF b
    <2> QED BY <1>1, <1>2, <2>1, <2>2, <2>3, BatchOwner DEF b
  <1> QED BY <1>3, <1>4, <1>5

\* A step of a confirmation changes nothing for the sessions that it is not of.
LEMMA ConfirmFrame ==
  ASSUME NEW c \in Confirms, NEW s, NEW q, q # s,
         \A d \in Confirms \ {c} : confirm'[d] = confirm[d] /\ repo'[d] = repo[d],
         confirm[c] = Idle \/ confirm[c].session = s,
         confirm'[c] # Idle, confirm'[c].session = s
  PROVE  (Confirming(q)' <=> Confirming(q)) /\ (Held(q)' <=> Held(q))
  BY DEF Confirming, Held, Stranded, Idle

LEMMA BeginConfirmOwner ==
  ASSUME TypeInv, OwnerInv, Patient, NEW s \in Sessions, NEW c \in Confirms, BeginConfirm(c, s)
  PROVE  OwnerInv'
  <1>1. /\ confirm[c] = Idle /\ confirm'[c] = [at |-> "move", session |-> s]
        /\ confirm'[c] # Idle /\ confirm'[c].session = s
        /\ \A d \in Confirms \ {c} : confirm'[d] = confirm[d]
        /\ UNCHANGED <<session, listed, staged, clone, upload, cancel, repo>>
    BY DEF BeginConfirm, TypeInv, Idle
  <1>2. Settled(s) /\ SessionInv(s) /\ repo[c].source = None /\ ~repo[c].stored
    BY <1>1 DEF BeginConfirm, OwnerInv, SessionInv, ConfirmInv, Idle
  <1>3. ASSUME NEW q \in Sessions PROVE SessionInv(q)'
    <2>1. CASE q # s
      <3>1. SameSession(q)
        BY <1>1, <2>1, ConfirmFrame, UploadsSame DEF SameSession
      <3> QED BY <3>1, SessionFrame DEF OwnerInv
    <2>2. CASE q = s
      <3>1. Held(s)' <=> Held(s)
        BY <1>1 DEF Held, Stranded, Idle
      <3>2. Settled(s)'
        BY <1>1, <1>2, UploadsSame DEF Settled, Cloning
      <3> QED BY <1>1, <1>2, <2>2, <3>1, <3>2, UploadsSame DEF SessionInv, Settled, Cloning
    <2> QED BY <2>1, <2>2
  <1>4. ASSUME NEW d \in Confirms PROVE ConfirmInv(d)'
    BY <1>1, <1>2 DEF OwnerInv, ConfirmInv
  <1>5. OneTaker'
    BY <1>1, <1>2 DEF OwnerInv, OneTaker
  <1> QED BY <1>3, <1>4, <1>5 DEF OwnerInv

\* The rest of a confirmation: it takes the source, gives it back or keeps it.
LEMMA ConfirmOwner ==
  ASSUME TypeInv, OwnerInv, NEW c \in Confirms,
         MoveSource(c) \/ CreateRepository(c) \/ MarkConfirmed(c)
  PROVE  OwnerInv'
  <1>0. PICK s : s = confirm[c].session
    OBVIOUS
  <1>1. /\ confirm[c] \in Confirmation /\ confirm[c] # Idle /\ s \in Sessions
    <2>1. confirm[c].at # "idle"
      BY DEF MoveSource, CreateRepository, MarkConfirmed
    <2> QED BY <1>0, <2>1 DEF TypeInv, Confirmation, Idle
  <1>2. /\ UNCHANGED <<listed, clone, upload, cancel>>
        /\ \A d \in Confirms \ {c} : confirm'[d] = confirm[d] /\ repo'[d] = repo[d]
        /\ confirm'[c] # Idle /\ confirm'[c].session = s /\ confirm'[c].at \in {"create", "mark", "ended"}
    <2>1. \A d \in Confirms \ {c} : confirm'[d] = confirm[d]
      BY DEF MoveSource, CreateRepository, MarkConfirmed, TypeInv
    <2>2. \A d \in Confirms \ {c} : repo'[d] = repo[d]
      BY DEF MoveSource, CreateRepository, MarkConfirmed, RollBack, TypeInv
    <2>3. confirm'[c] # Idle /\ confirm'[c].session = s /\ confirm'[c].at \in {"create", "mark", "ended"}
      BY <1>0, <1>1 DEF MoveSource, CreateRepository, MarkConfirmed, TypeInv, Confirmation, Idle
    <2> QED BY <2>1, <2>2, <2>3 DEF MoveSource, CreateRepository, MarkConfirmed
  <1>3. Settled(s) /\ SessionInv(s) /\ ConfirmInv(c) /\ Confirming(s)
    BY <1>0, <1>1 DEF OwnerInv, SessionInv, Confirming
  <1>4. ASSUME session'[s].kind = session[s].kind,
               session'[s].status = session[s].status \/ session'[s].status = "confirmed",
               session'[s].print = session[s].print,
               staged'[s] = None /\ session'[s].status = "preview_ready"
               => Held(s)' \/ (staged[s] = None /\ ~Held(s)),
               \A q \in Sessions \ {s} : session'[q] = session[q] /\ staged'[q] = staged[q]
        PROVE  \A q \in Sessions : SessionInv(q)'
    <2>1. ASSUME NEW q \in Sessions, q # s PROVE SessionInv(q)'
      <3>1. Receiving(q)' <=> Receiving(q)
        BY <1>0, <1>2, UploadsSame
      <3>2. (Confirming(q)' <=> Confirming(q)) /\ (Held(q)' <=> Held(q))
        BY <1>0, <1>2, <2>1, ConfirmFrame
      <3>3. SameSession(q)
        BY <1>0, <1>2, <1>4, <2>1, <3>1, <3>2 DEF SameSession
      <3> QED BY <3>3, SessionFrame DEF OwnerInv
    <2>2. Settled(s)'
      BY <1>0, <1>2, <1>3, <1>4, UploadsSame DEF Settled, Cloning
    <2>3. SessionInv(s)'
      BY <1>0, <1>2, <1>3, <1>4, <2>2, UploadsSame DEF SessionInv, Settled, Cloning
    <2> QED BY <2>1, <2>3
  <1>5. CASE MoveSource(c) /\ confirm'[c].at = "create"
    <2>1. /\ UNCHANGED session /\ staged[s] # None /\ staged'[s] = None /\ ~repo'[c].stored
          /\ repo'[c].source = staged[s]
          /\ \A d \in Confirms \ {c} : repo'[d] = repo[d]
          /\ \A q \in Sessions \ {s} : staged'[q] = staged[q]
      BY <1>0, <1>1, <1>3, <1>5 DEF MoveSource, TypeInv, Confirmation, RepoRecord, ConfirmInv
    <2>2. Held(s)'
      BY <1>0, <1>2, <1>5 DEF Held
    <2>3. \A q \in Sessions : SessionInv(q)'
      BY <1>4, <2>1, <2>2
    <2>4. ASSUME NEW d \in Confirms \ {c}, confirm[d].session = s PROVE repo[d].source = None
      BY <1>0, <2>1, <2>4 DEF OwnerInv, ConfirmInv
    <2>5. ASSUME NEW d \in Confirms PROVE ConfirmInv(d)'
      <3>1. CASE d = c
        BY <1>0, <1>2, <1>5, <2>1, <3>1 DEF ConfirmInv
      <3>2. CASE d # c /\ repo[d].source = None
        BY <1>0, <1>2, <2>1, <3>2 DEF OwnerInv, ConfirmInv
      <3>3. CASE d # c /\ repo[d].source # None
        <4>1. confirm[d].session \in Sessions /\ confirm[d].session # s
          BY <1>0, <2>4, <3>3, SourceConfirms DEF OwnerInv, Confirmation
        <4> QED BY <1>0, <1>2, <2>1, <3>3, <4>1 DEF OwnerInv, ConfirmInv
      <3> QED BY <3>1, <3>2, <3>3
    <2>6. OneTaker'
      BY <1>0, <1>2, <2>1, <2>4 DEF OwnerInv, OneTaker
    <2> QED BY <2>3, <2>5, <2>6 DEF OwnerInv
  <1>6. CASE MoveSource(c) /\ confirm'[c].at = "ended"
    <2>1. /\ UNCHANGED <<session, staged, repo>> /\ confirm[c].at = "move"
          /\ repo[c].source = None /\ ~repo[c].stored
      BY <1>0, <1>1, <1>3, <1>6 DEF MoveSource, TypeInv, Confirmation, ConfirmInv
    <2>2. Held(s)' <=> Held(s)
      BY <1>0, <1>2, <1>6, <2>1 DEF Held, Stranded
    <2>3. \A q \in Sessions : SessionInv(q)'
      BY <1>4, <1>6, <2>1, <2>2
    <2>4. ASSUME NEW d \in Confirms PROVE ConfirmInv(d)'
      BY <1>0, <1>2, <1>6, <2>1 DEF OwnerInv, ConfirmInv
    <2>5. OneTaker'
      BY <1>0, <1>1, <1>2, <2>1 DEF OwnerInv, OneTaker
    <2> QED BY <2>3, <2>4, <2>5 DEF OwnerInv
  <1>7. CASE CreateRepository(c) /\ confirm'[c].at = "mark"
    <2>1. /\ UNCHANGED <<session, staged>> /\ confirm[c].at = "create"
          /\ \A d \in Confirms : repo'[d].source = repo[d].source
      BY <1>0, <1>1, <1>7 DEF CreateRepository, TypeInv, Confirmation, RepoRecord
    <2>2. Held(s)'
      BY <1>0, <1>2, <1>7 DEF Held
    <2>3. \A q \in Sessions : SessionInv(q)'
      BY <1>4, <2>1, <2>2
    <2>4. ASSUME NEW d \in Confirms PROVE ConfirmInv(d)'
      BY <1>0, <1>2, <1>7, <2>1 DEF OwnerInv, ConfirmInv
    <2>5. OneTaker'
      BY <1>0, <1>1, <1>2, <2>1 DEF OwnerInv, OneTaker
    <2> QED BY <2>3, <2>4, <2>5 DEF OwnerInv
  <1>8. CASE CreateRepository(c) /\ confirm'[c].at = "ended"
    <2>1. /\ UNCHANGED session /\ confirm[c].at = "create" /\ RollBack(c, s)
      BY <1>0, <1>1, <1>8 DEF CreateRepository, TypeInv, Confirmation
    <2>2. repo[c].source # None /\ staged[s] = None /\ ~repo[c].stored
      BY <1>0, <1>3, <2>1 DEF ConfirmInv
    <2>3. /\ \/ staged'[s] # None /\ repo'[c].source = None
             \/ staged'[s] = None /\ repo'[c].source = repo[c].source
          /\ ~repo'[c].stored
          /\ \A q \in Sessions \ {s} : staged'[q] = staged[q]
      <3>1. CASE /\ staged' = [staged EXCEPT ![s] = IF @ = None THEN repo[c].source ELSE @]
                 /\ repo' = [repo EXCEPT ![c].source = None, ![c].listed = TRUE]
        BY <1>1, <2>2, <3>1 DEF TypeInv, RepoRecord
      <3>2. CASE repo' = [repo EXCEPT ![c].listed = TRUE] /\ UNCHANGED staged
        BY <1>1, <2>2, <3>2 DEF TypeInv, RepoRecord
      <3> QED BY <2>1, <3>1, <3>2 DEF RollBack
    <2>4. \A q \in Sessions : SessionInv(q)'
      <3>1. staged'[s] = None => Held(s)'
        BY <1>2, <1>8, <2>2, <2>3 DEF Held, Stranded
      <3> QED BY <1>4, <2>1, <2>3, <3>1
    <2>5. ASSUME NEW d \in Confirms PROVE ConfirmInv(d)'
      <3>1. CASE d = c
        BY <1>0, <1>2, <1>8, <2>3, <3>1 DEF ConfirmInv
      <3>2. CASE d # c /\ repo[d].source = None
        BY <1>0, <1>2, <2>3, <3>2 DEF OwnerInv, ConfirmInv
      <3>3. CASE d # c /\ repo[d].source # None
        <4>1. confirm[d] # Idle /\ confirm[d].session \in Sessions
          BY <3>3, SourceConfirms DEF OwnerInv, Confirmation
        <4>2. confirm[d].session # s
          BY <1>0, <1>1, <2>2, <3>3, <4>1 DEF OwnerInv, OneTaker
        <4> QED BY <1>0, <1>2, <2>3, <3>3, <4>1, <4>2 DEF OwnerInv, ConfirmInv
      <3> QED BY <3>1, <3>2, <3>3
    <2>6. OneTaker'
      BY <1>0, <1>1, <1>2, <2>3 DEF OwnerInv, OneTaker
    <2> QED BY <2>4, <2>5, <2>6 DEF OwnerInv
  <1>9. CASE MarkConfirmed(c)
    <2>1. /\ session'[s].kind = session[s].kind /\ session'[s].status = "confirmed"
          /\ session'[s].print = session[s].print
          /\ \A q \in Sessions \ {s} : session'[q] = session[q]
      BY <1>0, <1>1, <1>9 DEF MarkConfirmed, TypeInv, SessionRecord
    <2>2. UNCHANGED <<staged, repo>> /\ confirm'[c].at = "ended" /\ confirm[c].at = "mark"
      BY <1>0, <1>1, <1>9 DEF MarkConfirmed, TypeInv, Confirmation
    <2>3. \A q \in Sessions : SessionInv(q)'
      BY <1>4, <2>1, <2>2
    <2>4. ASSUME NEW d \in Confirms PROVE ConfirmInv(d)'
      BY <1>0, <1>2, <2>2 DEF OwnerInv, ConfirmInv
    <2>5. OneTaker'
      BY <1>0, <1>1, <1>2, <2>2 DEF OwnerInv, OneTaker
    <2> QED BY <2>3, <2>4, <2>5 DEF OwnerInv
  <1> QED
    <2>1. CASE MoveSource(c)
      <3>1. confirm'[c].at \in {"create", "ended"}
        BY <2>1, <1>1 DEF MoveSource, TypeInv, Confirmation
      <3> QED BY <2>1, <3>1, <1>5, <1>6
    <2>2. CASE CreateRepository(c)
      <3>1. confirm'[c].at \in {"mark", "ended"}
        BY <2>2, <1>1 DEF CreateRepository, TypeInv, Confirmation
      <3> QED BY <2>2, <3>1, <1>7, <1>8
    <2> QED BY <2>1, <2>2, <1>9

\* After a restart nothing runs, and what was moved stays where it is.
LEMMA RestartOwner ==
  ASSUME TypeInv, OwnerInv, Restart
  PROVE  OwnerInv'
  <1>1. /\ UNCHANGED <<session, staged>> /\ listed' = {}
        /\ \A s \in Sessions : /\ cancel'[s] = "idle" /\ clone'[s] \in {"none", "ended"}
                               /\ clone'[s] = "none" <=> clone[s] = "none"
        /\ \A u \in Uploads : upload'[u] = Idle
    BY DEF Restart, TypeInv
  <1>2. ASSUME NEW c \in Confirms
        PROVE  /\ repo'[c].source = repo[c].source
               /\ confirm'[c].session = confirm[c].session
               /\ confirm'[c] = Idle <=> confirm[c] = Idle
               /\ confirm'[c].at \in {"idle", "ended"}
               /\ confirm'[c].at = "idle" => confirm[c].at = "idle"
               /\ repo'[c].stored = repo[c].stored
    <2>1. repo'[c].source = repo[c].source /\ repo'[c].stored = repo[c].stored
      BY DEF Restart, TypeInv, RepoRecord
    <2>2. CASE confirm[c] = Idle
      <3>1. confirm'[c] = Idle
        BY <2>2 DEF Restart
      <3> QED BY <2>1, <2>2, <3>1 DEF Idle
    <2>3. CASE confirm[c] # Idle
      <3>1. confirm[c] \in Confirmation
        BY <2>3 DEF TypeInv
      <3>2. confirm'[c] = [confirm[c] EXCEPT !.at = "ended"]
        BY <2>3 DEF Restart
      <3>3. confirm'[c].at = "ended" /\ confirm'[c].session = confirm[c].session
        BY <3>1, <3>2 DEF Confirmation
      <3> QED BY <2>1, <2>3, <3>3 DEF Idle
    <2> QED BY <2>2, <2>3
  <1>3. ASSUME NEW s \in Sessions PROVE SessionInv(s)'
    <2>1. ~Receiving(s)' /\ (Confirming(s)' <=> Confirming(s)) /\ SessionInv(s)
      BY <1>1, <1>2 DEF Receiving, Confirming, OwnerInv
    <2> QED BY <1>1, <2>1 DEF SessionInv, Settled, Cloning
  <1>4. ASSUME NEW c \in Confirms PROVE ConfirmInv(c)'
    BY <1>1, <1>2 DEF OwnerInv, ConfirmInv
  <1>5. OneTaker'
    BY <1>2 DEF OwnerInv, OneTaker
  <1> QED BY <1>3, <1>4, <1>5 DEF OwnerInv

LEMMA OwnerStep == Patient /\ TypeInv /\ OwnerInv /\ [Next]_vars => OwnerInv'
  <1> SUFFICES ASSUME Patient, TypeInv, OwnerInv, [Next]_vars PROVE OwnerInv'
    OBVIOUS
  <1>1. CASE UNCHANGED vars
    BY <1>1 DEF vars, OwnerInv, SessionInv, ConfirmInv, OneTaker, Settled, Cloning,
                Receiving, Confirming, Held, Stranded
  <1> QED BY <1>1, BeginOwner, FolderOwner, CloneOwner, CancelOwner, StartBatchOwner, ReceiveOwner,
             BeginConfirmOwner, ConfirmOwner, RestartOwner DEF Next

\* The source of a session is in one place, whatever confirmations, failed rollbacks,
\* threads and restarts there are, and one that is offered for confirmation has it.
THEOREM SourceHasOneOwnerCorrect ==
  ASSUME Patient
  PROVE  Spec => []SourceHasOneOwner
  <1>1. TypeInv /\ OwnerInv => SourceHasOneOwner
    <2> SUFFICES ASSUME TypeInv, OwnerInv PROVE OneRepository /\ ReadyHasSource
      BY DEF SourceHasOneOwner
    <2>1. OneRepository
      BY DEF OwnerInv, ConfirmInv, OneTaker, OneRepository
    <2>2. ReadyHasSource
      <3> SUFFICES ASSUME NEW s \in Sessions, s \in listed, session[s].status = "preview_ready",
                          cancel[s] # "remove", staged[s] = None
                   PROVE  \E c \in Confirms : /\ confirm[c].session = s /\ repo[c].source # None
                                              /\ confirm[c].at = "ended" => ~repo[c].stored
        BY DEF ReadyHasSource, TypeInv
      <3>1. PICK c \in Confirms : /\ confirm[c].at \in {"create", "mark"} \/ Stranded(c)
                                  /\ confirm[c].session = s
        BY DEF OwnerInv, SessionInv, Held
      <3>2. repo[c].source # None /\ (confirm[c].at = "ended" => ~repo[c].stored)
        BY <3>1 DEF OwnerInv, ConfirmInv, Stranded
      <3> QED BY <3>1, <3>2
    <2> QED BY <2>1, <2>2
  <1>2. Spec => [](TypeInv /\ OwnerInv)
    <2>1. Init => TypeInv /\ OwnerInv
      BY TypeInit, OwnerInit
    <2>2. TypeInv /\ OwnerInv /\ [Next]_vars => (TypeInv /\ OwnerInv)'
      BY Patient, TypeStep, OwnerStep
    <2> QED BY <2>1, <2>2, PTL DEF Spec
  <1> QED BY <1>1, <1>2, PTL

---------------------------------------------------------------------------
(* The size of a set of files. *)

LEMMA CardinalityInduction ==
  ASSUME NEW C, C \subseteq Nat,
         \A n \in Nat : (\A m \in 0..(n - 1) : m \in C) => n \in C
  PROVE  \A n \in Nat : n \in C
  <1> SUFFICES ASSUME NEW m \in Nat, m \notin C PROVE FALSE
    OBVIOUS
  <1> DEFINE T == {0..n : n \in Nat \ C}
  <1>1. T \subseteq FiniteSubsetsOf(Nat)
    <2>1. ASSUME NEW n \in Nat PROVE 0..n \in FiniteSubsetsOf(Nat)
      BY FS_Interval DEF FiniteSubsetsOf
    <2> QED BY <2>1
  <1>2. T # {}
    OBVIOUS
  <1>3. PICK x \in T : \A y \in T : ~ (<<y, x>> \in StrictSubsetOrdering(Nat))
    <2> HIDE DEF T
    <2> QED BY <1>1, <1>2, WFMin, FS_StrictSubsetOrderingWellFounded
  <1>4. PICK n \in Nat \ C : x = 0..n
    BY <1>3
  <1>5. PICK k \in 0..(n - 1) : k \notin C
    BY <1>4
  <1>6. 0..k \in T /\ k \in Nat /\ k < n
    BY <1>4, <1>5
  <1>7. <<0..k, x>> \in StrictSubsetOrdering(Nat)
    <2>1. 0..k \in SUBSET Nat /\ 0..n \in SUBSET Nat /\ 0..k \subseteq 0..n
      BY <1>4, <1>6
    <2>2. n \in 0..n /\ n \notin 0..k
      BY <1>4, <1>6
    <2> QED BY <2>1, <2>2, <1>4 DEF StrictSubsetOrdering
  <1> QED BY <1>3, <1>6, <1>7

\* A property of finite sets that the smaller ones hand on to the larger ones.
LEMMA FiniteInduction ==
  ASSUME NEW X, IsFiniteSet(X), NEW C,
         \A S \in SUBSET X : (\A R \in SUBSET S : R # S => R \in C) => S \in C
  PROVE  X \in C
  <1> DEFINE D == {n \in Nat : \A S \in SUBSET X : Cardinality(S) = n => S \in C}
  <1>1. ASSUME NEW n \in Nat, \A m \in 0..(n - 1) : m \in D PROVE n \in D
    <2> SUFFICES ASSUME NEW S \in SUBSET X, Cardinality(S) = n PROVE S \in C
      OBVIOUS
    <2>1. ASSUME NEW R \in SUBSET S, R # S PROVE R \in C
      <3>1. IsFiniteSet(S)
        BY FS_Subset
      <3>2. Cardinality(R) < Cardinality(S) /\ Cardinality(R) \in Nat
        BY <2>1, <3>1, FS_Subset, FS_CardinalityType
      <3> QED BY <1>1, <3>2
    <2> QED BY <2>1
  <1>2. \A n \in Nat : n \in D
    <2> HIDE DEF D
    <2>1. \A n \in Nat : (\A m \in 0..(n - 1) : m \in D) => n \in D
      BY <1>1
    <2>2. D \subseteq Nat
      BY DEF D
    <2> QED BY <2>1, <2>2, CardinalityInduction
  <1> QED BY <1>2, FS_CardinalityType

Pick(files) == CHOOSE f \in files : TRUE
AddUp(sum, files) == IF files = {} THEN 0 ELSE Pick(files).size + sum[files \ {Pick(files)}]

LEMMA BytesIsSum ==
  ASSUME NEW files, NEW g, g = [part \in SUBSET files |-> AddUp(g, part)]
  PROVE  \E sum : sum = [part \in SUBSET files |-> AddUp(sum, part)] /\ Bytes(files) = sum[files]
  BY DEF Bytes, MapThenSumSet, MapThenFoldSet, AddUp, Pick

\* Sum over all but the one file that is picked.
Rest(files) == IF files = {} THEN 0 ELSE Pick(files).size + Bytes(files \ {Pick(files)})

LEMMA PickIn == \A files : files # {} => Pick(files) \in files
  BY DEF Pick

LEMMA BytesEquation ==
  ASSUME NEW files, IsFiniteSet(files)
  PROVE  Bytes(files) = Rest(files)
  <1> DEFINE C == {part \in SUBSET files :
                     /\ Bytes(part) = Rest(part)
                     /\ \A all : \A sum : part \subseteq all /\ sum = [p \in SUBSET all |-> AddUp(sum, p)]
                                 => sum[part] = Bytes(part)}
  <1>1. ASSUME NEW S \in SUBSET files, \A R \in SUBSET S : R # S => R \in C PROVE S \in C
    <2>0. ASSUME S # {} PROVE S \ {Pick(S)} \in SUBSET S /\ S \ {Pick(S)} # S
      BY <2>0, PickIn
    <2>1. ASSUME NEW all, NEW sum, S \subseteq all, sum = [p \in SUBSET all |-> AddUp(sum, p)]
          PROVE  sum[S] = Rest(S)
      <3>1. sum[S] = AddUp(sum, S)
        BY <2>1
      <3>2. ASSUME S # {} PROVE sum[S \ {Pick(S)}] = Bytes(S \ {Pick(S)})
        BY <1>1, <2>0, <2>1, <3>2
      <3> QED BY <3>1, <3>2 DEF AddUp, Rest
    <2> DEFINE g == [p \in SUBSET S |-> Rest(p)]
    <2>2. g = [p \in SUBSET S |-> AddUp(g, p)]
      <3>1. ASSUME NEW p \in SUBSET S PROVE Rest(p) = AddUp(g, p)
        <4>1. CASE p = {}
          BY <4>1 DEF Rest, AddUp
        <4>2. CASE p # {}
          <5>1. p \ {Pick(p)} \in SUBSET S /\ p \ {Pick(p)} # S
            BY <4>2, PickIn
          <5>2. Bytes(p \ {Pick(p)}) = Rest(p \ {Pick(p)})
            BY <1>1, <5>1
          <5>3. g[p \ {Pick(p)}] = Bytes(p \ {Pick(p)})
            BY <5>1, <5>2
          <5> HIDE DEF g
          <5> QED BY <4>2, <5>3 DEF Rest, AddUp
        <4> QED BY <4>1, <4>2
      <3> QED BY <3>1
    <2> HIDE DEF g
    <2>3. PICK sum : sum = [p \in SUBSET S |-> AddUp(sum, p)] /\ Bytes(S) = sum[S]
      BY <2>2, BytesIsSum
    <2>4. Bytes(S) = Rest(S)
      BY <2>1, <2>3
    <2> QED BY <2>1, <2>4
  <1>2. files \in C
    <2> HIDE DEF C
    <2> QED BY <1>1, FiniteInduction
  <1> QED BY <1>2

Sized(files) == IsFiniteSet(files) /\ \A f \in files : f.size \in Nat

LEMMA BytesEmpty == Bytes({}) = 0
  BY BytesEquation, FS_EmptySet DEF Rest

LEMMA BytesType ==
  ASSUME NEW files, Sized(files)
  PROVE  Bytes(files) \in Nat
  <1> DEFINE C == {part \in SUBSET files : Bytes(part) \in Nat}
  <1>1. ASSUME NEW S \in SUBSET files, \A R \in SUBSET S : R # S => R \in C PROVE S \in C
    <2>1. IsFiniteSet(S)
      BY FS_Subset DEF Sized
    <2>2. CASE S = {}
      BY <2>2, BytesEmpty
    <2>3. CASE S # {}
      <3>1. Pick(S) \in S /\ Bytes(S \ {Pick(S)}) \in Nat
        BY <1>1, <2>3, PickIn
      <3>2. Bytes(S) = Pick(S).size + Bytes(S \ {Pick(S)})
        BY <2>1, <2>3, BytesEquation DEF Rest
      <3> QED BY <3>1, <3>2 DEF Sized
    <2> QED BY <2>2, <2>3
  <1>2. files \in C
    <2> HIDE DEF C
    <2> QED BY <1>1, FiniteInduction DEF Sized
  <1> QED BY <1>2

\* The sum does not depend on the order in which the files are taken.
LEMMA BytesRemove ==
  ASSUME NEW files, Sized(files)
  PROVE  \A f \in files : Bytes(files) = f.size + Bytes(files \ {f})
  <1> DEFINE C == {part \in SUBSET files : \A f \in part : Bytes(part) = f.size + Bytes(part \ {f})}
  <1>0. ASSUME NEW S \in SUBSET files PROVE Sized(S) /\ Bytes(S) \in Nat
    <2>1. Sized(S)
      BY FS_Subset DEF Sized
    <2> QED BY <2>1, BytesType
  <1>1. ASSUME NEW S \in SUBSET files, \A R \in SUBSET S : R # S => R \in C PROVE S \in C
    <2> SUFFICES ASSUME NEW f \in S PROVE Bytes(S) = f.size + Bytes(S \ {f})
      OBVIOUS
    <2>1. Bytes(S) = Pick(S).size + Bytes(S \ {Pick(S)}) /\ Pick(S) \in S
      BY <1>0, PickIn, BytesEquation DEF Rest, Sized
    <2>2. CASE f = Pick(S)
      BY <2>1, <2>2
    <2>3. CASE f # Pick(S)
      <3>1. S \ {Pick(S)} \in C /\ S \ {f} \in C
        BY <1>1, <2>1
      <3>2. Bytes(S \ {Pick(S)}) = f.size + Bytes((S \ {Pick(S)}) \ {f})
        BY <2>3, <3>1
      <3>3. Bytes(S \ {f}) = Pick(S).size + Bytes((S \ {f}) \ {Pick(S)})
        BY <2>1, <2>3, <3>1
      <3>4. PICK r : r = Bytes((S \ {f}) \ {Pick(S)})
        OBVIOUS
      <3>5. Bytes((S \ {Pick(S)}) \ {f}) = r
        <4>1. (S \ {Pick(S)}) \ {f} = (S \ {f}) \ {Pick(S)}
          OBVIOUS
        <4> QED BY <3>4, <4>1
      <3>6. f.size \in Nat /\ Pick(S).size \in Nat /\ r \in Nat
        BY <1>0, <2>1, <3>4 DEF Sized
      <3> QED BY <2>1, <3>2, <3>3, <3>4, <3>5, <3>6
    <2> QED BY <2>2, <2>3
  <1>2. files \in C
    <2> HIDE DEF C
    <2> QED BY <1>1, FiniteInduction DEF Sized
  <1> QED BY <1>2

LEMMA BytesAdd ==
  ASSUME NEW files, Sized(files), NEW f, f.size \in Nat, f \notin files
  PROVE  Bytes(files \union {f}) = Bytes(files) + f.size
  <1>1. Sized(files \union {f})
    BY FS_AddElement DEF Sized
  <1>2. (files \union {f}) \ {f} = files
    OBVIOUS
  <1>3. Bytes(files \union {f}) = f.size + Bytes(files)
    BY <1>1, <1>2, BytesRemove
  <1>4. Bytes(files) \in Nat
    BY BytesType
  <1> QED BY <1>3, <1>4

LEMMA BytesMonotone ==
  ASSUME NEW files, Sized(files)
  PROVE  \A part \in SUBSET files : Bytes(part) <= Bytes(files)
  <1> DEFINE C == {all \in SUBSET files : \A part \in SUBSET all : Bytes(part) <= Bytes(all)}
  <1>0. ASSUME NEW S \in SUBSET files PROVE Sized(S) /\ Bytes(S) \in Nat
    <2>1. Sized(S)
      BY FS_Subset DEF Sized
    <2> QED BY <2>1, BytesType
  <1>1. ASSUME NEW S \in SUBSET files, \A R \in SUBSET S : R # S => R \in C PROVE S \in C
    <2> SUFFICES ASSUME NEW part \in SUBSET S PROVE Bytes(part) <= Bytes(S)
      OBVIOUS
    <2>1. CASE part = S
      BY <2>1, <1>0
    <2>2. CASE part # S
      <3>1. PICK f \in S : f \notin part
        BY <2>2
      <3>2. Bytes(S) = f.size + Bytes(S \ {f})
        BY <1>0, BytesRemove
      <3>3. S \ {f} \in C /\ part \in SUBSET (S \ {f})
        BY <1>1, <3>1
      <3>4. Bytes(part) <= Bytes(S \ {f})
        BY <3>3
      <3>5. f.size \in Nat /\ Bytes(part) \in Nat /\ Bytes(S \ {f}) \in Nat
        BY <1>0 DEF Sized
      <3> QED BY <3>2, <3>4, <3>5
    <2> QED BY <2>1, <2>2
  <1>2. files \in C
    <2> HIDE DEF C
    <2> QED BY <1>1, FiniteInduction DEF Sized
  <1> QED BY <1>2

---------------------------------------------------------------------------
(* What a repository is made of. *)

\* What may be confirmed: complete files, within the quota, all of them, as shown.
Snapshot(s, entries) ==
  LET files == FilesIn(entries) IN
  /\ entries = Whole(files) /\ GitDir \notin files
  /\ Cardinality(files) <= MaxFiles /\ Bytes(files) <= MaxBytes
  /\ session[s].kind = "upload_folder" =>
       /\ session[s].received = session[s].expected
       /\ Cardinality(files) = session[s].saved
  /\ session[s].print \in {None, files}

Offered(s) == session[s].status \in {"preview_ready", "confirmed"} \/ Confirming(s)
Saving(s)  == {u \in Uploads : upload[u].at = "saving" /\ upload[u].session = s}

\* The directory of a folder upload: the files that are counted, complete, and those
\* that batches are writing.
Assembled(s) ==
  \E files \in SUBSET Files :
    /\ staged[s] = Whole(files) \union Partial({Head(upload[u].files) : u \in Saving(s)})
    /\ \A f \in files : f.class = "source" /\ f.identity \in session[s].seen
    /\ Cardinality(files) = session[s].saved /\ Cardinality(files) <= MaxFiles
    /\ Bytes(files) = session[s].bytes /\ Bytes(files) <= MaxBytes
    /\ \A u \in Saving(s) : Head(upload[u].files) \notin files

Open(s) == session[s].status = "uploading" /\ s \in listed

\* A batch is the only one of its session, and its quota is what the session has used.
BatchInv(u) ==
  upload[u] # Idle =>
    /\ \A v \in Uploads : upload[v] # Idle /\ upload[v].session = upload[u].session => v = u
    /\ Open(upload[u].session) =>
         /\ upload[u].count = session[upload[u].session].saved
         /\ upload[u].bytes = session[upload[u].session].bytes
         /\ upload[u].at = "saving" =>
              /\ Head(upload[u].files).class = "source"
              /\ Head(upload[u].files).identity \in session[upload[u].session].seen

SourceInv(s) ==
  /\ session[s].print # None => Settled(s)
  /\ Offered(s) /\ staged[s] # None => Snapshot(s, staged[s])
  /\ Open(s) => Assembled(s)
  /\ clone[s] \in {"cloned", "strip", "stripped", "validate", "validated", "ready"}
     => staged[s] = Whole(FilesIn(staged[s]))
  /\ clone[s] \in {"stripped", "validate", "validated", "ready"}
     => GitDir \notin FilesIn(staged[s])
  /\ clone[s] \in {"validated", "ready"} => TreeAccepted(staged[s])

RepoInv(c) ==
  /\ repo[c].source # None => /\ Snapshot(confirm[c].session, repo[c].source)
                              /\ repo[c].print \in {None, FilesIn(repo[c].source)}
  /\ repo[c].stored => repo[c].source # None /\ confirm[c].at \in {"mark", "ended"}

SnapshotInv ==
  /\ \A s \in Sessions : SourceInv(s)
  /\ \A c \in Confirms : RepoInv(c)
  /\ \A u \in Uploads : BatchInv(u)

LEMMA SnapshotInit == Init => SnapshotInv
  BY DEF Init, SnapshotInv, SourceInv, RepoInv, BatchInv, Offered, Open, Confirming, Idle, NoSession,
         NewSession, NoRepo

\* The files of complete entries.
LEMMA WholeFiles ==
  ASSUME NEW files
  PROVE  FilesIn(Whole(files)) = files
  <1>1. ASSUME NEW f \in files PROVE f \in FilesIn(Whole(files))
    <2>1. <<f, "whole">> \in Whole(files) /\ <<f, "whole">>[1] = f
      BY DEF Whole
    <2> QED BY <2>1 DEF FilesIn
  <1>2. ASSUME NEW f \in FilesIn(Whole(files)) PROVE f \in files
    <2>1. PICK e \in Whole(files) : f = e[1]
      BY DEF FilesIn
    <2>2. PICK g \in files : e = <<g, "whole">>
      BY DEF Whole
    <2> QED BY <2>1, <2>2
  <1> QED BY <1>1, <1>2

LEMMA SnapshotFrame ==
  ASSUME NEW s, NEW entries, Snapshot(s, entries),
         session'[s].kind = session[s].kind, session'[s].received = session[s].received,
         session'[s].expected = session[s].expected, session'[s].saved = session[s].saved,
         session'[s].print = session[s].print
  PROVE  Snapshot(s, entries)'
  BY DEF Snapshot

\* Nothing that a session's invariant speaks of has changed.
SameSource(q) ==
  /\ session'[q] = session[q] /\ (q \in listed' <=> q \in listed) /\ staged'[q] = staged[q]
  /\ clone'[q] = clone[q]
  /\ Offered(q)' => Offered(q)
  /\ Settled(q) => Settled(q)'
  /\ Saving(q)' = Saving(q)
  /\ \A u \in Saving(q) : upload'[u].files = upload[u].files

LEMMA SourceFrame ==
  ASSUME NEW q \in Sessions, SourceInv(q), SameSource(q)
  PROVE  SourceInv(q)'
  <1>1. Open(q)' => Assembled(q)'
    <2> SUFFICES ASSUME Open(q)' PROVE Assembled(q)'
      OBVIOUS
    <2>1. Assembled(q)
      BY DEF Open, SourceInv, SameSource
    <2>2. {Head(upload'[u].files) : u \in Saving(q)'} = {Head(upload[u].files) : u \in Saving(q)}
      BY DEF SameSource
    <2>3. \A u \in Saving(q)' : Head(upload'[u].files) = Head(upload[u].files)
      BY DEF SameSource
    <2> QED BY <2>1, <2>2, <2>3 DEF Assembled, SameSource
  <1>2. Offered(q)' /\ staged'[q] # None => Snapshot(q, staged[q])'
    BY DEF SourceInv, SameSource, Snapshot
  <1>3. TreeAccepted(staged[q]) => TreeAccepted(staged'[q])
    BY DEF SameSource
  <1> QED BY <1>1, <1>2, <1>3 DEF SourceInv, SameSource, Snapshot

\* What the invariant says of a session is not touched by a step of another one.
LEMMA OthersSame ==
  ASSUME UNCHANGED <<upload, confirm>>, NEW q,
         session'[q] = session[q], q \in listed' <=> q \in listed,
         staged'[q] = staged[q], clone'[q] = clone[q]
  PROVE  SameSource(q)
  BY UploadsSame DEF SameSource, Offered, Settled, Cloning, Saving, Confirming

\* A repository's snapshot stays one when the session that it was taken from keeps
\* its record, or has got its source back.
LEMMA RepoFrame ==
  ASSUME TypeInv, OwnerInv, SnapshotInv, UNCHANGED <<confirm, repo>>, NEW s \in Sessions,
         \A q \in Sessions \ {s} : session'[q] = session[q],
         Confirming(s) /\ staged[s] = None =>
           /\ session'[s].kind = session[s].kind /\ session'[s].received = session[s].received
           /\ session'[s].expected = session[s].expected /\ session'[s].saved = session[s].saved
           /\ session'[s].print = session[s].print
  PROVE  \A c \in Confirms : RepoInv(c)'
  <1> SUFFICES ASSUME NEW c \in Confirms PROVE RepoInv(c)'
    OBVIOUS
  <1>1. RepoInv(c) /\ ConfirmInv(c)
    BY DEF SnapshotInv, OwnerInv
  <1>2. CASE repo[c].source = None
    BY <1>1, <1>2 DEF RepoInv
  <1>3. CASE repo[c].source # None
    <2>1. PICK q : q = confirm[c].session
      OBVIOUS
    <2>2. q \in Sessions /\ Confirming(q) /\ staged[q] = None
      BY <1>1, <1>3, <2>1, SourceConfirms DEF ConfirmInv, Confirmation
    <2>3. Snapshot(q, repo[c].source)
      BY <1>1, <1>3, <2>1 DEF RepoInv
    <2>4. PICK e : e = repo[c].source
      OBVIOUS
    <2>5. Snapshot(q, e)'
      BY <2>2, <2>3, <2>4, SnapshotFrame
    <2> QED BY <1>1, <2>1, <2>4, <2>5 DEF RepoInv, Snapshot
  <1> QED BY <1>2, <1>3

\* Batches go on as they were when the sessions that they are of do.
LEMMA BatchesSame ==
  ASSUME TypeInv, SnapshotInv, UNCHANGED upload,
         \A q \in Sessions : Receiving(q) /\ Open(q)' =>
           /\ Open(q) /\ session'[q].saved = session[q].saved
           /\ session'[q].bytes = session[q].bytes /\ session'[q].seen = session[q].seen
  PROVE  \A u \in Uploads : BatchInv(u)'
  <1> SUFFICES ASSUME NEW u \in Uploads, upload[u] # Idle PROVE BatchInv(u)'
    BY DEF BatchInv
  <1>1. PICK q : q = upload[u].session
    OBVIOUS
  <1>2. q \in Sessions /\ Receiving(q) /\ BatchInv(u)
    BY <1>1 DEF TypeInv, Batch, Receiving, SnapshotInv
  <1> QED BY <1>1, <1>2 DEF BatchInv, Open

LEMMA NobodySaves ==
  ASSUME NEW s, ~Receiving(s)
  PROVE  Saving(s) = {}
  BY DEF Receiving, Saving, Idle

\* What is offered is settled, so nothing acquires it any more.
LEMMA OfferedSettled ==
  ASSUME OwnerInv, NEW s \in Sessions, Offered(s)
  PROVE  Settled(s)
  BY DEF OwnerInv, SessionInv, Offered

\* Files that uploads take are ones that have a size.
LEMMA FilesSized ==
  ASSUME NEW files \in SUBSET Files
  PROVE  Sized(files) /\ Cardinality(files) \in Nat /\ Bytes(files) \in Nat
  <1>1. IsFiniteSet(files) /\ Cardinality(files) \in Nat
    BY FilesAssumption, FS_Subset, FS_CardinalityType
  <1>2. Sized(files)
    BY <1>1, FilesAssumption DEF Sized, FileType
  <1> QED BY <1>1, <1>2, BytesType

\* A step of one session that leaves batches and confirmations alone.
LEMMA OneSource ==
  ASSUME TypeInv, OwnerInv, SnapshotInv, UNCHANGED <<upload, confirm, repo>>, NEW s \in Sessions,
         \A q \in Sessions \ {s} : /\ session'[q] = session[q] /\ (q \in listed' <=> q \in listed)
                                   /\ staged'[q] = staged[q] /\ clone'[q] = clone[q],
         SourceInv(s)',
         Receiving(s) /\ Open(s)' =>
           /\ Open(s) /\ session'[s].saved = session[s].saved
           /\ session'[s].bytes = session[s].bytes /\ session'[s].seen = session[s].seen,
         Confirming(s) /\ staged[s] = None =>
           /\ session'[s].kind = session[s].kind /\ session'[s].received = session[s].received
           /\ session'[s].expected = session[s].expected /\ session'[s].saved = session[s].saved
           /\ session'[s].print = session[s].print
  PROVE  SnapshotInv'
  <1>1. \A q \in Sessions : SourceInv(q)'
    <2>1. ASSUME NEW q \in Sessions \ {s} PROVE SourceInv(q)'
      BY OthersSame, SourceFrame DEF SnapshotInv
    <2> QED BY <2>1
  <1>2. \A c \in Confirms : RepoInv(c)'
    BY RepoFrame
  <1>3. \A u \in Uploads : BatchInv(u)'
    <2>1. ASSUME NEW q \in Sessions \ {s}, Open(q)' PROVE Open(q)
      BY <2>1 DEF Open
    <2> QED BY <2>1, BatchesSame
  <1> QED BY <1>1, <1>2, <1>3 DEF SnapshotInv

LEMMA BeginSnapshot ==
  ASSUME TypeInv, OwnerInv, SnapshotInv, NEW s \in Sessions,
         \/ \E members \in SUBSET Files : CreateZip(s, members)
         \/ \E total \in 1..MaxFiles : StartFolder(s, total)
         \/ \E url \in Urls, ref \in Refs : StartGithub(s, url, ref)
  PROVE  SnapshotInv'
  <1>1. ASSUME NEW kind, NEW status, NEW expected,
               session' = [session EXCEPT ![s] = NewSession(kind, status, expected)]
        PROVE  /\ session'[s].kind = kind /\ session'[s].status = status /\ session'[s].print = None
               /\ session'[s].saved = 0 /\ session'[s].bytes = 0
               /\ \A q \in Sessions \ {s} : session'[q] = session[q]
    BY <1>1 DEF TypeInv, NewSession
  <1>2. ~Receiving(s) /\ ~Confirming(s) /\ clone[s] = "none"
    BY FreshSession DEF CreateZip, StartFolder, StartGithub
  <1>3. /\ UNCHANGED <<upload, confirm, repo>> /\ listed' = listed \union {s}
        /\ ~Receiving(s)' /\ ~Confirming(s)' /\ Saving(s)' = {}
    BY <1>2, UploadsSame, ConfirmsSame, NobodySaves DEF CreateZip, StartFolder, StartGithub, Saving
  <1>4. CASE \E members \in SUBSET Files : CreateZip(s, members)
    <2>1. PICK members \in SUBSET Files : CreateZip(s, members)
      BY <1>4
    <2>2. PICK files \in SUBSET members : files = Extracted(members)
      BY DEF Extracted
    <2>3. staged'[s] = Whole(files) /\ UNCHANGED clone
      BY <2>1, <2>2 DEF CreateZip, TypeInv
    <2>4. /\ session'[s].kind = "upload_zip" /\ session'[s].status = "preview_ready"
          /\ session'[s].print = None
      BY <2>1, <1>1 DEF CreateZip
    <2>5. GitDir \notin files
      BY <2>2 DEF Extracted, SafeMember, GitDir
    <2>6. Cardinality(files) <= MaxFiles /\ Bytes(files) <= MaxBytes
      <3>1. Cardinality(files) <= Cardinality(members) /\ Bytes(files) <= Bytes(members)
        BY FilesSized, FS_Subset, BytesMonotone DEF Sized
      <3>2. Cardinality(members) <= MaxFiles /\ Bytes(members) <= MaxBytes
        BY <2>1 DEF CreateZip, PlanAccepted
      <3>3. files \in SUBSET Files
        OBVIOUS
      <3> QED BY <3>1, <3>2, <3>3, FilesSized, QuotaAssumption
    <2>7. SourceInv(s)'
      BY <1>2, <1>3, <2>3, <2>4, <2>5, <2>6, WholeFiles DEF SourceInv, Snapshot, Open
    <2> QED BY <2>1, <2>7, <1>1, <1>2, <1>3, OneSource DEF CreateZip, TypeInv
  <1>5. CASE \E total \in 1..MaxFiles : StartFolder(s, total)
    <2>1. PICK total \in 1..MaxFiles : StartFolder(s, total)
      BY <1>5
    <2>2. staged'[s] = {} /\ UNCHANGED clone
      BY <2>1 DEF StartFolder, TypeInv
    <2>3. /\ session'[s].kind = "upload_folder" /\ session'[s].status = "uploading"
          /\ session'[s].print = None /\ session'[s].saved = 0 /\ session'[s].bytes = 0
      BY <2>1, <1>1 DEF StartFolder
    <2>4. Assembled(s)'
      <3>1. Whole({}) = {} /\ Partial({}) = {}
        BY DEF Whole, Partial
      <3>2. {Head(upload'[u].files) : u \in Saving(s)'} = {}
        BY <1>3
      <3>3. Cardinality({}) = 0 /\ Bytes({}) = 0
        BY FS_EmptySet, BytesEmpty
      <3> QED BY <1>3, <2>2, <2>3, <3>1, <3>2, <3>3, QuotaAssumption DEF Assembled
    <2>5. SourceInv(s)'
      BY <1>2, <1>3, <2>2, <2>3, <2>4 DEF SourceInv, Offered
    <2> QED BY <2>1, <2>5, <1>1, <1>2, <1>3, OneSource DEF StartFolder, TypeInv
  <1>6. CASE \E url \in Urls, ref \in Refs : StartGithub(s, url, ref)
    <2>1. PICK url \in Urls, ref \in Refs : StartGithub(s, url, ref)
      BY <1>6
    <2>2. clone'[s] = "start" /\ UNCHANGED staged
      BY <2>1 DEF StartGithub, TypeInv
    <2>3. session'[s].status = "preparing" /\ session'[s].print = None
      BY <2>1, <1>1 DEF StartGithub
    <2>4. SourceInv(s)'
      BY <1>3, <2>2, <2>3 DEF SourceInv, Offered, Open
    <2> QED BY <2>1, <2>4, <1>1, <1>2, <1>3, OneSource DEF StartGithub, TypeInv
  <1> QED BY <1>4, <1>5, <1>6

\* The fields of a session whose status is assigned, all but the status.
LEMMA StatusKeeps ==
  ASSUME TypeInv, NEW s \in Sessions, NEW st, SetStatus(s, st)
  PROVE  /\ session'[s].status = st /\ session'[s].kind = session[s].kind
         /\ session'[s].print = session[s].print /\ session'[s].received = session[s].received
         /\ session'[s].expected = session[s].expected /\ session'[s].saved = session[s].saved
         /\ session'[s].bytes = session[s].bytes /\ session'[s].seen = session[s].seen
         /\ \A q \in Sessions \ {s} : session'[q] = session[q]
  BY DEF TypeInv, SetStatus, SessionRecord

LEMMA FolderSnapshot ==
  ASSUME TypeInv, OwnerInv, SnapshotInv, Patient, NEW s \in Sessions, CompleteFolder(s)
  PROVE  SnapshotInv'
  <1>1. /\ ~Receiving(s) /\ ~Confirming(s) /\ Open(s) /\ clone[s] = "none"
        /\ session[s].kind = "upload_folder" /\ session[s].print = None
        /\ SourceInv(s) /\ UNCHANGED <<clone, upload, confirm, cancel, repo>>
    BY NoneReceives DEF CompleteFolder, Available, OwnerInv, SessionInv, Settled, Open,
                        SnapshotInv, SourceInv
  <1>2. ~Receiving(s)' /\ ~Confirming(s)'
    BY <1>1, UploadsSame, ConfirmsSame
  <1>3. CASE Discard(s) /\ UNCHANGED session
    <2>1. /\ s \notin listed' /\ staged'[s] = None
          /\ \A q \in Sessions \ {s} : (q \in listed' <=> q \in listed) /\ staged'[q] = staged[q]
      BY <1>1, <1>3 DEF Discard, TypeInv, Open
    <2>2. SourceInv(s)'
      BY <1>1, <1>2, <1>3, <2>1 DEF SourceInv, Open
    <2> QED BY <1>1, <1>3, <2>1, <2>2, OneSource
  <1>4. CASE SetStatus(s, "preview_ready") /\ UNCHANGED <<listed, staged>>
                /\ session[s].received = session[s].expected
    <2>1. /\ session'[s].status = "preview_ready" /\ session'[s].kind = "upload_folder"
          /\ session'[s].print = None /\ session'[s].received = session'[s].expected
          /\ session'[s].saved = session[s].saved
          /\ \A q \in Sessions \ {s} : session'[q] = session[q]
      BY <1>1, <1>4, StatusKeeps
    <2>2. PICK files \in SUBSET Files :
            /\ staged[s] = Whole(files) \union Partial({Head(upload[u].files) : u \in Saving(s)})
            /\ \A f \in files : f.class = "source"
            /\ Cardinality(files) = session[s].saved /\ Cardinality(files) <= MaxFiles
            /\ Bytes(files) <= MaxBytes
      BY <1>1 DEF SourceInv, Assembled
    <2>3. staged[s] = Whole(files)
      <3>1. {Head(upload[u].files) : u \in Saving(s)} = {}
        BY <1>1, NobodySaves
      <3>2. Partial({}) = {}
        BY DEF Partial
      <3> QED BY <2>2, <3>1, <3>2
    <2>4. GitDir \notin files
      BY <2>2 DEF GitDir
    <2>5. Snapshot(s, staged[s])'
      BY <1>4, <2>1, <2>2, <2>3, <2>4, WholeFiles DEF Snapshot
    <2>6. SourceInv(s)'
      BY <1>1, <1>4, <2>1, <2>5 DEF SourceInv, Open
    <2> QED BY <1>1, <1>4, <2>1, <2>6, OneSource
  <1> QED BY <1>3, <1>4 DEF CompleteFolder

LEMMA CloneSnapshot ==
  ASSUME TypeInv, OwnerInv, SnapshotInv, NEW s \in Sessions, CloneStep(s)
  PROVE  SnapshotInv'
  <1>1. /\ UNCHANGED <<listed, upload, confirm, cancel, repo>>
        /\ Cloning(s)
        /\ \A q \in Sessions \ {s} :
             session'[q] = session[q] /\ staged'[q] = staged[q] /\ clone'[q] = clone[q]
    BY DEF CloneStep, BeginClone, CreateClone, EndClone, CheckCancelled, StripGit, ValidateTree,
           BecomeReady, FailClone, Thread, SetStatus, TypeInv, Cloning
  <1>2. /\ SourceInv(s) /\ session[s].kind = "github_url" /\ session[s].print = None
        /\ ~Receiving(s) /\ ~Confirming(s)
        /\ session[s].status \notin {"uploading", "preview_ready", "confirmed"}
    BY <1>1 DEF OwnerInv, SnapshotInv, SessionInv, SourceInv, Settled, Cloning
  <1>3. ~Confirming(s)'
    BY <1>1, <1>2, ConfirmsSame
  <1>4. ASSUME NEW from, NEW to, Thread(s, from, to) PROVE clone[s] = from /\ clone'[s] = to
    BY <1>4 DEF Thread, TypeInv
  <1>5. ASSUME NEW st, SetStatus(s, st)
        PROVE  session'[s].status = st /\ session'[s].kind = "github_url" /\ session'[s].print = None
    BY <1>2, <1>5, StatusKeeps
  <1>6. ASSUME session'[s].status \notin {"uploading", "preview_ready", "confirmed"},
               session'[s].print = None,
               clone'[s] \in {"cloned", "strip", "stripped", "validate", "validated", "ready"}
               => staged'[s] = Whole(FilesIn(staged'[s])),
               clone'[s] \in {"stripped", "validate", "validated", "ready"}
               => GitDir \notin FilesIn(staged'[s]),
               clone'[s] \in {"validated", "ready"} => TreeAccepted(staged'[s])
        PROVE  SourceInv(s)'
    BY <1>3, <1>6 DEF SourceInv, Offered, Open, TreeAccepted
  <1>7. SourceInv(s)'
    <2>1. CASE BeginClone(s)
      <3>1. CASE Thread(s, "start", "create") /\ SetStatus(s, "cloning")
        BY <3>1, <1>4, <1>5, <1>6
      <3>2. CASE Thread(s, "start", "dead") /\ UNCHANGED session
        BY <3>2, <1>2, <1>4, <1>6
      <3> QED BY <2>1, <3>1, <3>2 DEF BeginClone
    <2>2. CASE CreateClone(s)
      BY <2>2, <1>2, <1>4, <1>6 DEF CreateClone
    <2>3. CASE EndClone(s)
      <3>1. CASE Thread(s, "clone", "cloned") /\ UNCHANGED session
                 /\ staged' = [staged EXCEPT ![s] = Whole(FilesIn(@) \union {GitDir})]
        <4>1. staged'[s] = Whole(FilesIn(staged'[s]))
          BY <3>1, WholeFiles DEF TypeInv
        <4> QED BY <3>1, <4>1, <1>2, <1>4, <1>6
      <3>2. CASE Thread(s, "clone", "raised") /\ UNCHANGED <<session, staged>>
        BY <3>2, <1>2, <1>4, <1>6
      <3> QED BY <2>3, <3>1, <3>2 DEF EndClone
    <2>4. CASE CheckCancelled(s)
      <3>1. PICK step \in {<<"cloned", "strip">>, <<"stripped", "validate">>,
                           <<"validated", "ready">>, <<"raised", "fail">>} :
              \/ /\ Thread(s, step[1], "ended")
                 /\ UNCHANGED session
              \/ /\ Thread(s, step[1], step[2])
                 /\ UNCHANGED <<session, staged>>
        BY <2>4 DEF CheckCancelled
      <3>2. CASE Thread(s, step[1], "ended") /\ UNCHANGED session
        BY <3>2, <1>2, <1>4, <1>6
      <3>3. CASE Thread(s, step[1], step[2]) /\ UNCHANGED <<session, staged>>
        <4>1. clone[s] = step[1] /\ clone'[s] = step[2]
          BY <3>3, <1>4
        <4>2. /\ clone'[s] # "fail" => staged[s] = Whole(FilesIn(staged[s]))
              /\ clone'[s] \in {"stripped", "validate", "validated", "ready"}
                 => GitDir \notin FilesIn(staged[s])
              /\ clone'[s] \in {"validated", "ready"} => TreeAccepted(staged[s])
          BY <4>1, <1>2, <3>1 DEF SourceInv
        <4> QED BY <3>1, <3>3, <4>1, <4>2, <1>2, <1>6
      <3> QED BY <3>1, <3>2, <3>3
    <2>5. CASE StripGit(s)
      <3>1. session'[s].status = "validating" /\ session'[s].print = None /\ clone[s] = "strip"
        BY <2>5, <1>4, <1>5 DEF StripGit
      <3>2. PICK files : files = FilesIn(staged[s])
        OBVIOUS
      <3>3. staged[s] = Whole(files) /\ staged[s] # None
        BY <3>1, <3>2, <1>2 DEF SourceInv, OwnerInv, SessionInv
      <3>4. CASE clone'[s] = "stripped" /\ staged' = [staged EXCEPT ![s] =
                    IF @ = None THEN None ELSE @ \ Whole({GitDir})]
        <4>1. staged'[s] = Whole(files) \ Whole({GitDir})
          BY <3>3, <3>4 DEF TypeInv
        <4>2. Whole(files) \ Whole({GitDir}) = Whole(files \ {GitDir})
          BY DEF Whole
        <4>3. FilesIn(staged'[s]) = files \ {GitDir}
          BY <4>1, <4>2, WholeFiles
        <4> QED BY <3>1, <3>4, <4>1, <4>2, <4>3, <1>6
      <3>5. CASE clone'[s] = "raised"
        BY <3>1, <3>5, <1>6
      <3> QED BY <2>5, <3>4, <3>5, <1>4 DEF StripGit
    <2>6. CASE ValidateTree(s)
      BY <2>6, <1>2, <1>4, <1>6 DEF ValidateTree, SourceInv
    <2>7. CASE BecomeReady(s)
      <3>1. /\ session'[s].status = "preview_ready" /\ session'[s].kind = "github_url"
            /\ session'[s].print = None
            /\ clone[s] = "ready" /\ clone'[s] = "ended" /\ staged'[s] = staged[s]
        BY <2>7, <1>4, <1>5 DEF BecomeReady
      <3>2. /\ staged[s] # None /\ staged[s] = Whole(FilesIn(staged[s]))
            /\ GitDir \notin FilesIn(staged[s]) /\ TreeAccepted(staged[s])
        BY <3>1, <1>2 DEF SourceInv, OwnerInv, SessionInv
      <3>3. Snapshot(s, staged[s])'
        BY <3>1, <3>2 DEF Snapshot, TreeAccepted
      <3> QED BY <1>1, <3>1, <3>3 DEF SourceInv, Open
    <2>8. CASE FailClone(s)
      BY <2>8, <1>4, <1>5, <1>6 DEF FailClone
    <2> QED BY <2>1, <2>2, <2>3, <2>4, <2>5, <2>6, <2>7, <2>8 DEF CloneStep
  <1> QED BY <1>1, <1>2, <1>7, OneSource

LEMMA CancelSnapshot ==
  ASSUME TypeInv, OwnerInv, SnapshotInv, NEW s \in Sessions,
         Preview(s) \/ BeginCancel(s) \/ MarkCancelled(s) \/ RemoveCancelled(s)
  PROVE  SnapshotInv'
  <1>1. /\ UNCHANGED <<clone, upload, confirm, repo>> /\ SourceInv(s) /\ SessionInv(s)
        /\ Receiving(s)' <=> Receiving(s)
        /\ Confirming(s)' <=> Confirming(s)
    BY UploadsSame, ConfirmsSame
       DEF Preview, BeginCancel, MarkCancelled, RemoveCancelled, OwnerInv, SnapshotInv
  <1>2. CASE Preview(s)
    <2>1. /\ session[s].status \in {"preview_ready", "confirmed"} /\ session[s].print = None
          /\ staged[s] # None /\ UNCHANGED <<listed, staged>>
          /\ session'[s].status = session[s].status /\ session'[s].kind = session[s].kind
          /\ session'[s].received = session[s].received /\ session'[s].saved = session[s].saved
          /\ session'[s].expected = session[s].expected
          /\ session'[s].print = FilesIn(staged[s])
          /\ \A q \in Sessions \ {s} : session'[q] = session[q]
      BY <1>2 DEF Preview, TypeInv, SessionRecord
    <2>2. Settled(s) /\ Snapshot(s, staged[s])
      BY <1>1, <2>1 DEF SourceInv, SessionInv, Offered
    <2>3. Settled(s)' /\ Snapshot(s, staged[s])'
      BY <1>1, <2>1, <2>2 DEF Settled, Cloning, Snapshot
    <2>4. SourceInv(s)'
      BY <1>1, <2>1, <2>3 DEF SourceInv, Open
    <2> QED BY <1>1, <2>1, <2>2, <2>4, OneSource DEF Open
  <1>3. CASE BeginCancel(s)
    <2>1. UNCHANGED <<session, listed, staged>>
      BY <1>3 DEF BeginCancel
    <2>2. SourceInv(s)'
      BY <1>1, <2>1, OthersSame, SourceFrame
    <2> QED BY <1>1, <2>1, <2>2, OneSource DEF Open
  <1>4. CASE MarkCancelled(s)
    <2>1. /\ session'[s].status = "cancelled" /\ session'[s].kind = session[s].kind
          /\ session'[s].print = session[s].print /\ session'[s].received = session[s].received
          /\ session'[s].expected = session[s].expected /\ session'[s].saved = session[s].saved
          /\ \A q \in Sessions \ {s} : session'[q] = session[q]
          /\ UNCHANGED <<listed, staged>>
      BY <1>4, StatusKeeps DEF MarkCancelled
    <2>2. ~Open(s)'
      BY <2>1 DEF Open
    <2>3. Settled(s) => Settled(s)'
      BY <1>1, <2>1 DEF Settled, Cloning
    <2>4. Offered(s)' => Offered(s)
      BY <1>1, <2>1 DEF Offered
    <2>5. staged[s] # None /\ Offered(s)' => Snapshot(s, staged[s])'
      BY <1>1, <2>1, <2>4 DEF SourceInv, Snapshot
    <2>6. TreeAccepted(staged[s]) => TreeAccepted(staged'[s])
      BY <2>1
    <2>7. SourceInv(s)'
      BY <1>1, <2>1, <2>2, <2>3, <2>5, <2>6 DEF SourceInv
    <2> QED BY <1>1, <2>1, <2>2, <2>7, OneSource
  <1>5. CASE RemoveCancelled(s)
    <2>1. /\ cancel[s] = "remove" /\ s \notin listed' /\ staged'[s] = None /\ UNCHANGED session
          /\ \A q \in Sessions \ {s} : staged'[q] = staged[q] /\ (q \in listed' <=> q \in listed)
      BY <1>5 DEF RemoveCancelled, TypeInv
    <2>2. ~Cloning(s) /\ ~Open(s)'
      BY <1>1, <2>1 DEF SessionInv, Open
    <2>3. Settled(s) => Settled(s)'
      BY <1>1, <2>1 DEF Settled, Cloning
    <2>4. SourceInv(s)'
      BY <1>1, <2>1, <2>2, <2>3 DEF SourceInv, Cloning
    <2> QED BY <1>1, <2>1, <2>2, <2>4, OneSource
  <1> QED BY <1>2, <1>3, <1>4, <1>5

\* A step of a batch: it touches its session, and no session that is offered.
LEMMA BatchSnapshot ==
  ASSUME TypeInv, OwnerInv, SnapshotInv,
         NEW u \in Uploads, upload[u] # Idle, NEW s, s = upload[u].session,
         \A v \in Uploads \ {u} : upload'[v] = upload[v],
         upload'[u] = Idle \/ upload'[u].session = s,
         session'[s].status = session[s].status, session'[s].print = session[s].print,
         \A q \in Sessions \ {s} :
            session'[q] = session[q] /\ (q \in listed' <=> q \in listed) /\ staged'[q] = staged[q],
         s \in listed' => s \in listed, UNCHANGED <<clone, confirm, repo>>,
         Open(s)' => /\ Assembled(s)'
                     /\ upload'[u] # Idle =>
                          /\ upload'[u].count = session'[s].saved /\ upload'[u].bytes = session'[s].bytes
                          /\ upload'[u].at = "saving" =>
                               /\ Head(upload'[u].files).class = "source"
                               /\ Head(upload'[u].files).identity \in session'[s].seen
  PROVE  SnapshotInv'
  <1>1. s \in Sessions /\ Receiving(s) /\ BatchInv(u)
    BY DEF TypeInv, Receiving, Batch, SnapshotInv
  <1>2. /\ ~Confirming(s) /\ clone[s] = "none" /\ session[s].print = None
        /\ session[s].status \in {"uploading", "cancelled"}
    BY <1>1 DEF OwnerInv, SnapshotInv, SessionInv, SourceInv, Settled
  <1>3. ~Confirming(s)'
    BY <1>2, ConfirmsSame
  <1>4. SourceInv(s)'
    BY <1>2, <1>3 DEF SourceInv, Offered
  <1>5. ASSUME NEW q \in Sessions \ {s} PROVE SourceInv(q)'
    <2>1. Receiving(q)' <=> Receiving(q)
      BY BatchFrame
    <2>2. Saving(q)' = Saving(q) /\ u \notin Saving(q)
      <3>1. ASSUME NEW v \in Uploads
            PROVE  (v \in Saving(q)' <=> v \in Saving(q)) /\ (v = u => v \notin Saving(q))
        BY DEF Saving, Idle
      <3> QED BY <3>1 DEF Saving
    <2>3. \A v \in Saving(q) : upload'[v].files = upload[v].files
      BY <2>2 DEF Saving
    <2>4. SameSource(q)
      BY <2>1, <2>2, <2>3, ConfirmsSame DEF SameSource, Offered, Settled, Cloning
    <2> QED BY <2>4, SourceFrame DEF SnapshotInv
  <1>6. \A c \in Confirms : RepoInv(c)'
    BY <1>1, <1>2, RepoFrame
  <1>7. ASSUME NEW v \in Uploads PROVE BatchInv(v)'
    <2>1. CASE v = u
      <3> SUFFICES ASSUME upload'[u] # Idle PROVE BatchInv(u)'
        BY <2>1 DEF BatchInv
      <3>1. ASSUME NEW w \in Uploads, upload'[w] # Idle, upload'[w].session = s PROVE w = u
        BY <1>1, <3>1 DEF BatchInv
      <3> QED BY <3>1 DEF BatchInv
    <2>2. CASE v # u /\ upload[v] # Idle
      <3>1. PICK q : q = upload[v].session
        OBVIOUS
      <3>2. q \in Sessions /\ q # s /\ BatchInv(v)
        BY <1>1, <2>2, <3>1 DEF TypeInv, Batch, BatchInv, SnapshotInv
      <3>3. upload'[v] = upload[v]
        BY <2>2
      <3>4. ASSUME NEW w \in Uploads, upload'[w] # Idle, upload'[w].session = q PROVE w = v
        BY <2>2, <3>1, <3>2, <3>4 DEF BatchInv
      <3>5. Open(q)' <=> Open(q)
        BY <3>2 DEF Open
      <3> QED BY <2>2, <3>1, <3>2, <3>3, <3>4, <3>5 DEF BatchInv
    <2>3. CASE v # u /\ upload[v] = Idle
      BY <2>3 DEF BatchInv
    <2> QED BY <2>1, <2>2, <2>3
  <1> QED BY <1>1, <1>4, <1>5, <1>6, <1>7 DEF SnapshotInv

\* A batch begins when no other one of its session is there, with what it has used.
LEMMA StartBatchSnapshot ==
  ASSUME TypeInv, OwnerInv, SnapshotInv, Patient, NEW s \in Sessions, NEW u \in Uploads, NEW files,
         StartBatch(u, s, files)
  PROVE  SnapshotInv'
  <1>1. /\ upload[u] = Idle /\ upload'[u].session = s /\ upload'[u].at = "next"
        /\ upload'[u].count = session[s].saved /\ upload'[u].bytes = session[s].bytes
        /\ \A v \in Uploads \ {u} : upload'[v] = upload[v]
        /\ \A v \in Uploads : upload[v].session # s
        /\ UNCHANGED <<session, listed, staged, clone, confirm, cancel, repo>>
        /\ session[s].status = "uploading"
    BY DEF StartBatch, TypeInv, Answered
  <1>2. ASSUME NEW q \in Sessions PROVE SourceInv(q)'
    <2>1. Saving(q)' = Saving(q) /\ u \notin Saving(q)
      <3>1. ASSUME NEW v \in Uploads
            PROVE  (v \in Saving(q)' <=> v \in Saving(q)) /\ (v = u => v \notin Saving(q))
        BY <1>1 DEF Saving, Idle
      <3> QED BY <3>1 DEF Saving
    <2>2. \A v \in Saving(q) : upload'[v].files = upload[v].files
      BY <1>1, <2>1 DEF Saving
    <2>3. Settled(q) => Settled(q)'
      <3>1. CASE q = s
        BY <1>1, <3>1 DEF Settled
      <3>2. CASE q # s
        <4>1. Receiving(q)' <=> Receiving(q)
          BY <1>1, <3>2, BatchFrame
        <4> QED BY <1>1, <4>1 DEF Settled, Cloning
      <3> QED BY <3>1, <3>2
    <2>4. SameSource(q)
      BY <1>1, <2>1, <2>2, <2>3, ConfirmsSame DEF SameSource, Offered
    <2> QED BY <2>4, SourceFrame DEF SnapshotInv
  <1>3. \A c \in Confirms : RepoInv(c)'
    BY <1>1, RepoFrame
  <1>4. ASSUME NEW v \in Uploads PROVE BatchInv(v)'
    <2>1. CASE v = u
      BY <1>1, <2>1 DEF BatchInv
    <2>2. CASE v # u
      <3>1. BatchInv(v) /\ upload'[v] = upload[v] /\ upload[v].session # s
        BY <1>1, <2>2 DEF SnapshotInv
      <3> QED BY <1>1, <3>1 DEF BatchInv, Open
    <2> QED BY <2>1, <2>2
  <1> QED BY <1>2, <1>3, <1>4 DEF SnapshotInv

\* The session and the batch that a step of a batch is of.
LEMMA BatchOf ==
  ASSUME TypeInv, NEW u \in Uploads, upload[u].at # "idle"
  PROVE  /\ upload[u] # Idle /\ upload[u] \in Batch /\ upload[u].session \in Sessions
         /\ upload[u].files \in Seq(Files)
         /\ upload[u].files # <<>> => Head(upload[u].files) \in Files
         /\ upload[u].count \in Nat /\ upload[u].bytes \in Nat
         /\ session[upload[u].session] \in SessionRecord
  <1>1. upload[u] # Idle /\ upload[u] \in Batch
    BY DEF TypeInv, Idle
  <1>2. /\ upload[u].session \in Sessions /\ upload[u].files \in Seq(Files)
        /\ upload[u].count \in Nat /\ upload[u].bytes \in Nat
    BY <1>1 DEF Batch
  <1>3. upload[u].files # <<>> => Head(upload[u].files) \in Files
    BY <1>2
  <1> QED BY <1>1, <1>2, <1>3 DEF TypeInv

LEMMA SeenFields ==
  ASSUME TypeInv, NEW s \in Sessions, NEW f \in Files,
         session' = [session EXCEPT ![s].seen = @ \union {f.identity}, ![s].received = @ + 1]
  PROVE  /\ session'[s].seen = session[s].seen \union {f.identity}
         /\ session'[s].status = session[s].status /\ session'[s].print = session[s].print
         /\ session'[s].saved = session[s].saved /\ session'[s].bytes = session[s].bytes
         /\ \A q \in Sessions \ {s} : session'[q] = session[q]
  <1> DEFINE x == session[s]
             y == session'[s]
             seen == session[s].seen \union {f.identity}
             received == session[s].received + 1
  <1>1. y = [[x EXCEPT !.seen = seen] EXCEPT !.received = received] /\ x \in SessionRecord
    BY DEF TypeInv, SessionRecord
  <1>2. /\ y.seen = seen /\ y.status = x.status /\ y.print = x.print /\ y.saved = x.saved
        /\ y.bytes = x.bytes
    <2> HIDE DEF x, y, seen, received
    <2> QED BY <1>1 DEF SessionRecord
  <1> QED BY <1>2 DEF TypeInv

LEMMA SavedFields ==
  ASSUME TypeInv, NEW s \in Sessions, NEW n,
         session' = [session EXCEPT ![s].bytes = n, ![s].saved = @ + 1]
  PROVE  /\ session'[s].bytes = n /\ session'[s].saved = session[s].saved + 1
         /\ session'[s].status = session[s].status /\ session'[s].print = session[s].print
         /\ session'[s].seen = session[s].seen
         /\ \A q \in Sessions \ {s} : session'[q] = session[q]
  <1> DEFINE x == session[s]
             y == session'[s]
             saved == session[s].saved + 1
  <1>1. y = [[x EXCEPT !.bytes = n] EXCEPT !.saved = saved] /\ x \in SessionRecord
    BY DEF TypeInv, SessionRecord
  <1>2. /\ y.seen = x.seen /\ y.status = x.status /\ y.print = x.print /\ y.saved = saved
        /\ y.bytes = n
    <2> HIDE DEF x, y, saved
    <2> QED BY <1>1 DEF SessionRecord
  <1> QED BY <1>2 DEF TypeInv

\* Of an open session nobody else saves a file.
LEMMA OnlySaver ==
  ASSUME TypeInv, SnapshotInv, NEW u \in Uploads, upload[u] # Idle, NEW s, s = upload[u].session
  PROVE  Saving(s) = IF upload[u].at = "saving" THEN {u} ELSE {}
  <1>1. ASSUME NEW v \in Saving(s) PROVE v = u
    <2>1. v \in Uploads /\ upload[v] # Idle /\ upload[v].session = s
      BY DEF Saving, Idle
    <2> QED BY <2>1 DEF SnapshotInv, BatchInv
  <1>2. u \in Saving(s) <=> upload[u].at = "saving"
    BY DEF Saving
  <1> QED BY <1>1, <1>2

LEMMA EndBatchSnapshot ==
  ASSUME TypeInv, OwnerInv, SnapshotInv, NEW u \in Uploads, EndBatch(u)
  PROVE  SnapshotInv'
  <1>0. PICK s : s = upload[u].session
    OBVIOUS
  <1>1. /\ upload[u] # Idle /\ s \in Sessions /\ upload[u].at = "next"
        /\ UNCHANGED <<session, listed, staged, clone, confirm, repo>>
        /\ upload'[u] = Idle /\ \A v \in Uploads \ {u} : upload'[v] = upload[v]
    BY <1>0, BatchOf DEF EndBatch, TypeInv
  <1>2. Saving(s)' = Saving(s) /\ \A v \in Saving(s) : upload'[v] = upload[v]
    <2>1. ASSUME NEW v \in Uploads
          PROVE  (v \in Saving(s)' <=> v \in Saving(s)) /\ (v = u => v \notin Saving(s))
      BY <1>1 DEF Saving, Idle
    <2> QED BY <1>1, <2>1 DEF Saving
  <1>3. Open(s)' => Assembled(s)'
    <2> SUFFICES ASSUME Open(s)' PROVE Assembled(s)'
      OBVIOUS
    <2>1. Assembled(s)
      BY <1>1 DEF Open, SnapshotInv, SourceInv
    <2>2. {Head(upload'[v].files) : v \in Saving(s)'} = {Head(upload[v].files) : v \in Saving(s)}
      BY <1>2
    <2> QED BY <1>1, <1>2, <2>1, <2>2 DEF Assembled
  <1> QED BY <1>0, <1>1, <1>3, BatchSnapshot

\* A refused batch leaves a session that is no longer listed.
LEMMA RefuseSnapshot ==
  ASSUME TypeInv, OwnerInv, SnapshotInv, NEW u \in Uploads, upload[u] # Idle, RefuseBatch(u),
         NEW s \in Sessions, s = upload[u].session,
         session'[s].status = session[s].status, session'[s].print = session[s].print,
         \A q \in Sessions \ {s} : session'[q] = session[q], UNCHANGED <<clone, confirm, repo>>
  PROVE  SnapshotInv'
  <1>1. /\ s \notin listed'
        /\ \A q \in Sessions \ {s} : (q \in listed' <=> q \in listed) /\ staged'[q] = staged[q]
    BY DiscardOwner DEF RefuseBatch
  <1>2. upload'[u] = Idle /\ \A v \in Uploads \ {u} : upload'[v] = upload[v]
    BY DEF RefuseBatch, TypeInv
  <1>3. ~Open(s)'
    BY <1>1 DEF Open
  <1> QED BY <1>1, <1>2, <1>3, BatchSnapshot

LEMMA ReceiveSnapshot ==
  ASSUME TypeInv, OwnerInv, SnapshotInv, NEW u \in Uploads, ReceiveFile(u)
  PROVE  SnapshotInv'
  <1>0. PICK s, f : s = upload[u].session /\ f = Head(upload[u].files)
    OBVIOUS
  <1>1. /\ upload[u] # Idle /\ upload[u] \in Batch /\ s \in Sessions /\ f \in Files
        /\ upload[u].at = "next" /\ UNCHANGED <<clone, confirm, repo>>
    BY <1>0, BatchOf DEF ReceiveFile
  <1>2. CASE RefuseBatch(u) /\ UNCHANGED session
    BY <1>0, <1>1, <1>2, RefuseSnapshot
  <1>3. CASE /\ session' = [session EXCEPT ![s].seen = @ \union {f.identity}, ![s].received = @ + 1]
             /\ RefuseBatch(u)
    BY <1>0, <1>1, <1>3, SeenFields, RefuseSnapshot
  <1>4. CASE /\ session' = [session EXCEPT ![s].seen = @ \union {f.identity}, ![s].received = @ + 1]
             /\ upload' = [upload EXCEPT ![u].files = Tail(@)] /\ UNCHANGED <<listed, staged>>
    <2>1. /\ session'[s].seen = session[s].seen \union {f.identity}
          /\ session'[s].status = session[s].status /\ session'[s].print = session[s].print
          /\ session'[s].saved = session[s].saved /\ session'[s].bytes = session[s].bytes
          /\ \A q \in Sessions \ {s} : session'[q] = session[q]
      BY <1>1, <1>4, SeenFields
    <2>2. /\ upload'[u].session = s /\ upload'[u].at = "next" /\ upload[u].session = s
          /\ upload'[u].count = upload[u].count /\ upload'[u].bytes = upload[u].bytes
          /\ \A v \in Uploads \ {u} : upload'[v] = upload[v]
      BY <1>0, <1>1, <1>4 DEF TypeInv, Batch
    <2>3. Saving(s) = {} /\ Saving(s)' = {}
      <3>1. Saving(s) = {}
        BY <1>0, <1>1, OnlySaver
      <3>2. ASSUME NEW v \in Saving(s)' PROVE FALSE
        BY <2>2, <3>1 DEF Saving
      <3> QED BY <3>1, <3>2
    <2>4. ASSUME Open(s)' PROVE Assembled(s)' /\ upload'[u].count = session'[s].saved
                                /\ upload'[u].bytes = session'[s].bytes
      <3>1. Open(s) /\ Assembled(s) /\ BatchInv(u)
        BY <1>1, <1>4, <2>1, <2>4 DEF Open, SnapshotInv, SourceInv
      <3>2. {Head(upload'[v].files) : v \in Saving(s)'} = {Head(upload[v].files) : v \in Saving(s)}
        BY <2>3
      <3>3. Assembled(s)'
        BY <1>4, <2>1, <2>3, <3>1, <3>2 DEF Assembled
      <3> QED BY <1>0, <1>1, <2>1, <2>2, <3>1, <3>3 DEF BatchInv
    <2>5. s \in listed' => s \in listed
      BY <1>4
    <2>6. \A q \in Sessions \ {s} : (q \in listed' <=> q \in listed) /\ staged'[q] = staged[q]
      BY <1>4
    <2> QED BY <1>0, <1>1, <2>1, <2>2, <2>4, <2>5, <2>6, BatchSnapshot
  <1>5. CASE /\ session' = [session EXCEPT ![s].seen = @ \union {f.identity}, ![s].received = @ + 1]
             /\ UniquePath(f, session[s].seen) /\ SafeUpload(f)
             /\ staged' = [staged EXCEPT ![s] = (IF @ = None THEN {} ELSE @) \union Partial({f})]
             /\ upload' = [upload EXCEPT ![u].at = "saving"] /\ UNCHANGED listed
    <2>1. /\ session'[s].seen = session[s].seen \union {f.identity}
          /\ session'[s].status = session[s].status /\ session'[s].print = session[s].print
          /\ session'[s].saved = session[s].saved /\ session'[s].bytes = session[s].bytes
          /\ \A q \in Sessions \ {s} : session'[q] = session[q]
      BY <1>1, <1>5, SeenFields
    <2>2. /\ upload'[u].session = s /\ upload'[u].at = "saving" /\ upload[u].session = s
          /\ Head(upload'[u].files) = f
          /\ upload'[u].count = upload[u].count /\ upload'[u].bytes = upload[u].bytes
          /\ \A v \in Uploads \ {u} : upload'[v] = upload[v]
      BY <1>0, <1>1, <1>5 DEF TypeInv, Batch
    <2>3. Saving(s) = {} /\ Saving(s)' = {u}
      <3>1. Saving(s) = {}
        BY <1>0, <1>1, OnlySaver
      <3>2. ASSUME NEW v \in Uploads PROVE v \in Saving(s)' <=> v = u
        BY <2>2, <3>1 DEF Saving
      <3>3. Saving(s)' \subseteq Uploads
        BY DEF Saving
      <3> QED BY <3>1, <3>2, <3>3
    <2>4. /\ \A q \in Sessions \ {s} : staged'[q] = staged[q]
          /\ staged[s] # None => staged'[s] = staged[s] \union Partial({f})
      BY <1>1, <1>5 DEF TypeInv
    <2>5. ASSUME Open(s)' PROVE Assembled(s)' /\ upload'[u].count = session'[s].saved
                                /\ upload'[u].bytes = session'[s].bytes
      <3>1. Open(s) /\ Assembled(s) /\ BatchInv(u) /\ staged[s] # None
        BY <1>1, <1>5, <2>1, <2>5 DEF Open, SnapshotInv, SourceInv, OwnerInv, SessionInv
      <3>2. {Head(upload'[v].files) : v \in Saving(s)'} = {f} /\ {Head(upload[v].files) : v \in Saving(s)} = {}
        BY <2>2, <2>3
      <3>3. PICK files \in SUBSET Files :
              /\ staged[s] = Whole(files) \union Partial({})
              /\ \A g \in files : g.class = "source" /\ g.identity \in session[s].seen
              /\ Cardinality(files) = session[s].saved /\ Cardinality(files) <= MaxFiles
              /\ Bytes(files) = session[s].bytes /\ Bytes(files) <= MaxBytes
        BY <3>1, <3>2 DEF Assembled
      <3>4. staged'[s] = Whole(files) \union Partial({f})
        BY <2>4, <3>1, <3>3 DEF Partial
      <3>5. f \notin files
        BY <1>5, <3>3 DEF UniquePath
      <3>6. Assembled(s)'
        BY <2>1, <2>2, <2>3, <3>2, <3>3, <3>4, <3>5 DEF Assembled
      <3> QED BY <1>0, <1>1, <2>1, <2>2, <3>1, <3>6 DEF BatchInv
    <2>6. f.class = "source" /\ f.identity \in session'[s].seen
      BY <1>5, <2>1 DEF SafeUpload
    <2>7. /\ s \in listed' => s \in listed
          /\ \A q \in Sessions \ {s} : (q \in listed' <=> q \in listed) /\ staged'[q] = staged[q]
      BY <1>5, <2>4
    <2> QED BY <1>0, <1>1, <2>1, <2>2, <2>5, <2>6, <2>7, BatchSnapshot
  <1> QED
    <2>1. \/ RefuseBatch(u) /\ UNCHANGED session
          \/ /\ UniquePath(f, session[s].seen)
             /\ session' = [session EXCEPT ![s].seen = @ \union {f.identity}, ![s].received = @ + 1]
             /\ \/ upload' = [upload EXCEPT ![u].files = Tail(@)] /\ UNCHANGED <<listed, staged>>
                \/ RefuseBatch(u)
                \/ /\ SafeUpload(f)
                   /\ staged' = [staged EXCEPT ![s] =
                                   (IF @ = None THEN {} ELSE @) \union Partial({f})]
                   /\ upload' = [upload EXCEPT ![u].at = "saving"]
                   /\ UNCHANGED listed
      BY <1>0 DEF ReceiveFile
    <2> QED BY <2>1, <1>2, <1>3, <1>4, <1>5

\* A file that is saved becomes complete, and is counted once.
LEMMA SaveSnapshot ==
  ASSUME TypeInv, OwnerInv, SnapshotInv, NEW u \in Uploads, SaveFile(u)
  PROVE  SnapshotInv'
  <1>0. PICK s, f, b : s = upload[u].session /\ f = Head(upload[u].files) /\ b = upload[u]
    OBVIOUS
  <1>1. /\ b # Idle /\ b \in Batch /\ s \in Sessions /\ f \in Files /\ b.files # <<>> /\ b.session = s
        /\ b.at = "saving" /\ b.count \in Nat /\ b.bytes \in Nat /\ b.files \in Seq(Files)
        /\ f.size \in Nat /\ UNCHANGED <<clone, confirm, repo>>
    <2>1. upload[u].at = "saving" /\ upload[u].files # <<>>
      BY DEF SaveFile, TypeInv
    <2>2. f \in Files
      BY <1>0, <2>1, BatchOf
    <2>3. f.size \in Nat
      BY <2>2, FilesAssumption DEF FileType
    <2> QED BY <1>0, <2>1, <2>2, <2>3, BatchOf DEF SaveFile
  <1>2. CASE RefuseBatch(u) /\ UNCHANGED session
    BY <1>0, <1>1, <1>2, RefuseSnapshot
  <1> DEFINE n == SavedBatch(b, f)
  <1>3. CASE /\ QuotaAdmits(b.count, b.bytes, f.size, TRUE)
             /\ staged' = [staged EXCEPT ![s] = IF @ # None /\ <<f, "partial">> \in @
                                                THEN (@ \ Partial({f})) \union Whole({f}) ELSE @]
             /\ session' = [session EXCEPT ![s].bytes = b.bytes + f.size, ![s].saved = @ + 1]
             /\ upload' = [upload EXCEPT ![u] = n] /\ UNCHANGED listed
    <2>1. /\ session'[s].bytes = b.bytes + f.size /\ session'[s].saved = session[s].saved + 1
          /\ session'[s].status = session[s].status /\ session'[s].print = session[s].print
          /\ session'[s].seen = session[s].seen
          /\ \A q \in Sessions \ {s} : session'[q] = session[q]
      BY <1>1, <1>3, SavedFields
    <2>2. n.at = "next" /\ n.session = s /\ n.count = b.count + 1 /\ n.bytes = b.bytes + f.size
      BY <1>1, NextBatch
    <2> HIDE DEF n
    <2>3. upload'[u] = n /\ \A v \in Uploads \ {u} : upload'[v] = upload[v]
      BY <1>3 DEF TypeInv
    <2>4. Saving(s) = {u} /\ Saving(s)' = {}
      <3>1. Saving(s) = {u}
        BY <1>0, <1>1, OnlySaver
      <3>2. ASSUME NEW v \in Saving(s)' PROVE FALSE
        BY <2>2, <2>3, <3>1 DEF Saving
      <3> QED BY <3>1, <3>2
    <2>5. \A q \in Sessions \ {s} : staged'[q] = staged[q]
      BY <1>3 DEF TypeInv
    <2>6. ASSUME Open(s)' PROVE Assembled(s)' /\ n.count = session'[s].saved
      <3>0. UNCHANGED listed
        BY <1>3
      <3>1. Open(s) /\ Assembled(s) /\ BatchInv(u) /\ staged[s] # None
        <4>1. s \in Sessions /\ Open(s)
          BY <1>1, <2>1, <2>6, <3>0 DEF Open
        <4> QED BY <4>1 DEF Open, SnapshotInv, SourceInv, OwnerInv, SessionInv
      <3>2. /\ {Head(upload[v].files) : v \in Saving(s)} = {f}
            /\ {Head(upload'[v].files) : v \in Saving(s)'} = {}
        BY <1>0, <2>4
      <3>3. PICK files \in SUBSET Files :
              /\ staged[s] = Whole(files) \union Partial({f})
              /\ \A g \in files : g.class = "source" /\ g.identity \in session[s].seen
              /\ Cardinality(files) = session[s].saved /\ Bytes(files) = session[s].bytes
              /\ f \notin files
        BY <1>0, <2>4, <3>1, <3>2 DEF Assembled
      <3>4. b.count = session[s].saved /\ b.bytes = session[s].bytes
            /\ f.class = "source" /\ f.identity \in session[s].seen
        BY <1>0, <1>1, <3>1 DEF BatchInv
      <3> DEFINE all == files \union {f}
      <3>5. staged'[s] = Whole(all) \union Partial({})
        <4>1. <<f, "partial">> \in staged[s]
          BY <3>3 DEF Partial
        <4>2. staged'[s] = (staged[s] \ Partial({f})) \union Whole({f})
          BY <1>1, <1>3, <3>1, <4>1 DEF TypeInv
        <4>3. Whole(files) \intersect Partial({f}) = {} /\ Partial({}) = {}
              /\ Whole(all) = Whole(files) \union Whole({f})
          BY DEF Whole, Partial
        <4> QED BY <3>3, <4>2, <4>3
      <3>6. /\ all \in SUBSET Files
            /\ Cardinality(all) = Cardinality(files) + 1 /\ Bytes(all) = Bytes(files) + f.size
        <4>1. Sized(files)
          BY FilesSized
        <4> QED BY <1>1, <3>3, <4>1, FS_AddElement, BytesAdd DEF Sized
      <3>7. b.count + 1 <= MaxFiles /\ b.bytes + f.size <= MaxBytes
        BY <1>3 DEF QuotaAdmits
      <3> HIDE DEF all
      <3>8. \A g \in all : g.class = "source" /\ g.identity \in session'[s].seen
        BY <2>1, <3>3, <3>4 DEF all
      <3>9. /\ Cardinality(all) = session'[s].saved /\ Cardinality(all) <= MaxFiles
            /\ Bytes(all) = session'[s].bytes /\ Bytes(all) <= MaxBytes
        BY <2>1, <3>3, <3>4, <3>6, <3>7
      <3>10. Assembled(s)'
        BY <2>4, <3>2, <3>5, <3>6, <3>8, <3>9 DEF Assembled
      <3> QED BY <2>1, <2>2, <3>4, <3>10
    <2>7. /\ s \in listed' => s \in listed
          /\ \A q \in Sessions \ {s} : (q \in listed' <=> q \in listed) /\ staged'[q] = staged[q]
      BY <1>3, <2>5
    <2> QED BY <1>0, <1>1, <2>1, <2>2, <2>3, <2>6, <2>7, BatchSnapshot
  <1> QED
    <2>1. \/ RefuseBatch(u) /\ UNCHANGED session
          \/ /\ QuotaAdmits(b.count, b.bytes, f.size, TRUE)
             /\ staged' = [staged EXCEPT ![s] = IF @ # None /\ <<f, "partial">> \in @
                                                THEN (@ \ Partial({f})) \union Whole({f}) ELSE @]
             /\ session' = [session EXCEPT ![s].bytes = b.bytes + f.size, ![s].saved = @ + 1]
             /\ upload' = [upload EXCEPT ![u] = n] /\ UNCHANGED listed
      BY <1>0 DEF SaveFile, SavedBatch
    <2> QED BY <2>1, <1>2, <1>3

\* A step of a confirmation keeps what the record of its session says of the source.
LEMMA ConfirmRepos ==
  ASSUME TypeInv, OwnerInv, SnapshotInv, NEW c \in Confirms, NEW s \in Sessions,
         confirm'[c].session = s, confirm[c] = Idle \/ confirm[c].session = s,
         \A d \in Confirms \ {c} : confirm'[d] = confirm[d] /\ repo'[d] = repo[d],
         session'[s].kind = session[s].kind, session'[s].received = session[s].received,
         session'[s].expected = session[s].expected, session'[s].saved = session[s].saved,
         session'[s].print = session[s].print,
         \A q \in Sessions \ {s} : session'[q] = session[q],
         RepoInv(c)'
  PROVE  \A d \in Confirms : RepoInv(d)'
  <1> SUFFICES ASSUME NEW d \in Confirms \ {c} PROVE RepoInv(d)'
    OBVIOUS
  <1>1. RepoInv(d) /\ ConfirmInv(d) /\ confirm'[d] = confirm[d] /\ repo'[d] = repo[d]
    BY DEF SnapshotInv, OwnerInv
  <1>2. CASE repo[d].source = None
    BY <1>1, <1>2 DEF RepoInv
  <1>3. CASE repo[d].source # None
    <2>1. PICK q, e : q = confirm[d].session /\ e = repo[d].source
      OBVIOUS
    <2>2. q \in Sessions /\ Snapshot(q, e)
      BY <1>1, <1>3, <2>1, SourceConfirms DEF RepoInv, Confirmation
    <2>3. Snapshot(q, e)'
      BY <2>2, SnapshotFrame
    <2> QED BY <1>1, <2>1, <2>3 DEF RepoInv
  <1> QED BY <1>2, <1>3

LEMMA BeginConfirmSnapshot ==
  ASSUME TypeInv, OwnerInv, SnapshotInv, Patient, NEW s \in Sessions, NEW c \in Confirms,
         BeginConfirm(c, s)
  PROVE  SnapshotInv'
  <1>1. /\ confirm[c] = Idle /\ confirm'[c] # Idle /\ confirm'[c].session = s
        /\ \A d \in Confirms \ {c} : confirm'[d] = confirm[d]
        /\ UNCHANGED <<session, listed, staged, clone, upload, cancel, repo>>
        /\ Offered(s)
    BY DEF BeginConfirm, TypeInv, Idle, Offered
  <1>2. ASSUME NEW q \in Sessions PROVE SourceInv(q)'
    <2>1. Offered(q)' => Offered(q)
      <3>1. CASE q = s
        BY <1>1, <3>1
      <3>2. CASE q # s
        BY <1>1, <3>2, ConfirmFrame DEF Offered
      <3> QED BY <3>1, <3>2
    <2>2. SameSource(q)
      BY <1>1, <2>1, UploadsSame DEF SameSource, Settled, Cloning, Saving
    <2> QED BY <2>2, SourceFrame DEF SnapshotInv
  <1>3. RepoInv(c)'
    <2>1. repo[c].source = None /\ ~repo[c].stored
      BY <1>1 DEF OwnerInv, ConfirmInv, SnapshotInv, RepoInv, Idle
    <2> QED BY <1>1, <2>1 DEF RepoInv
  <1>4. \A d \in Confirms : RepoInv(d)'
    BY <1>1, <1>3, ConfirmRepos
  <1>5. \A u \in Uploads : BatchInv(u)'
    BY <1>1, BatchesSame DEF Open
  <1> QED BY <1>2, <1>4, <1>5 DEF SnapshotInv

LEMMA ConfirmSnapshot ==
  ASSUME TypeInv, OwnerInv, SnapshotInv, NEW c \in Confirms,
         MoveSource(c) \/ CreateRepository(c) \/ MarkConfirmed(c)
  PROVE  SnapshotInv'
  <1>0. PICK s : s = confirm[c].session
    OBVIOUS
  <1>1. /\ confirm[c] \in Confirmation /\ confirm[c] # Idle /\ s \in Sessions
        /\ repo[c] \in RepoRecord
    <2>1. confirm[c].at # "idle"
      BY DEF MoveSource, CreateRepository, MarkConfirmed
    <2> QED BY <1>0, <2>1 DEF TypeInv, Confirmation, Idle
  <1>2. /\ UNCHANGED <<listed, clone, upload>>
        /\ \A d \in Confirms \ {c} : confirm'[d] = confirm[d] /\ repo'[d] = repo[d]
        /\ confirm'[c] # Idle /\ confirm'[c].session = s
    <2>1. UNCHANGED <<listed, clone, upload>>
      BY DEF MoveSource, CreateRepository, MarkConfirmed
    <2>2. \A d \in Confirms \ {c} : repo'[d] = repo[d]
      BY DEF MoveSource, CreateRepository, MarkConfirmed, RollBack, TypeInv
    <2>3. \A d \in Confirms \ {c} : confirm'[d] = confirm[d]
      BY DEF MoveSource, CreateRepository, MarkConfirmed, TypeInv
    <2>4. confirm'[c] # Idle /\ confirm'[c].session = s
      BY <1>0, <1>1 DEF MoveSource, CreateRepository, MarkConfirmed, TypeInv, Confirmation, Idle
    <2> QED BY <2>1, <2>2, <2>3, <2>4
  <1>3. /\ Settled(s) /\ Offered(s) /\ SessionInv(s) /\ SourceInv(s) /\ ConfirmInv(c) /\ RepoInv(c)
        /\ session[s].status # "uploading" /\ clone[s] \in {"none", "ended", "dead"}
    <2>1. Confirming(s)
      BY <1>0, <1>1 DEF Confirming
    <2> QED BY <1>1, <2>1 DEF OwnerInv, SessionInv, SnapshotInv, Offered, Settled, Cloning
  <1>4. /\ session'[s].kind = session[s].kind /\ session'[s].received = session[s].received
        /\ session'[s].expected = session[s].expected /\ session'[s].saved = session[s].saved
        /\ session'[s].print = session[s].print
        /\ session'[s].status \in {session[s].status, "confirmed"}
        /\ \A q \in Sessions \ {s} : session'[q] = session[q]
    <2>1. CASE UNCHANGED session
      BY <2>1
    <2>2. CASE MarkConfirmed(c)
      BY <1>0, <1>1, <2>2 DEF MarkConfirmed, TypeInv, SessionRecord
    <2> QED BY <2>1, <2>2 DEF MoveSource, CreateRepository
  <1>5. \A q \in Sessions \ {s} : staged'[q] = staged[q]
    BY <1>0 DEF MoveSource, CreateRepository, MarkConfirmed, RollBack, TypeInv
  <1>6. ASSUME staged'[s] # None => Snapshot(s, staged'[s]) PROVE \A q \in Sessions : SourceInv(q)'
    <2>1. ASSUME NEW q \in Sessions \ {s} PROVE SourceInv(q)'
      <3>1. Offered(q)' => Offered(q)
        BY <1>0, <1>2, <1>4, ConfirmFrame DEF Offered
      <3>2. SameSource(q)
        BY <1>2, <1>4, <1>5, <3>1, UploadsSame DEF SameSource, Settled, Cloning, Saving
      <3> QED BY <3>2, SourceFrame DEF SnapshotInv
    <2>2. SourceInv(s)'
      <3>1. Settled(s)'
        BY <1>2, <1>3, <1>4, UploadsSame DEF Settled, Cloning
      <3>2. staged'[s] # None => Snapshot(s, staged[s])'
        BY <1>4, <1>6 DEF Snapshot
      <3> QED BY <1>2, <1>3, <1>4, <3>1, <3>2 DEF SourceInv, Open
    <2> QED BY <2>1, <2>2
  <1>7. \A u \in Uploads : BatchInv(u)'
    <2>1. ASSUME NEW q \in Sessions, Receiving(q) PROVE q # s
      BY <1>3, <2>1 DEF Settled
    <2> QED BY <1>2, <1>4, <2>1, BatchesSame DEF Open
  <1>8. ASSUME RepoInv(c)', staged'[s] # None => Snapshot(s, staged'[s]) PROVE SnapshotInv'
    <2>1. \A d \in Confirms : RepoInv(d)'
      BY <1>0, <1>1, <1>2, <1>4, <1>8, ConfirmRepos
    <2>2. \A q \in Sessions : SourceInv(q)'
      BY <1>6, <1>8
    <2> QED BY <1>7, <2>1, <2>2 DEF SnapshotInv
  <1>9. staged[s] # None => Snapshot(s, staged[s])
    BY <1>3 DEF SourceInv
  <1>10. CASE MoveSource(c)
    <2>1. ~repo[c].stored /\ repo[c].source = None
      BY <1>3, <1>10 DEF MoveSource, RepoInv, ConfirmInv
    <2>2. CASE staged[s] # None /\ repo' = [repo EXCEPT ![c].source = staged[s],
                                                        ![c].print = session[s].print]
               /\ staged' = [staged EXCEPT ![s] = None] /\ UNCHANGED session
      <3>1. /\ repo'[c].source = staged[s] /\ repo'[c].print = session[s].print
            /\ ~repo'[c].stored /\ staged'[s] = None
        BY <1>1, <2>1, <2>2 DEF TypeInv, RepoRecord
      <3>2. PICK e : e = staged[s]
        OBVIOUS
      <3>3. Snapshot(s, e)' /\ session[s].print \in {None, FilesIn(e)}
        BY <1>9, <2>2, <3>2 DEF Snapshot
      <3>4. RepoInv(c)'
        BY <1>2, <3>1, <3>2, <3>3 DEF RepoInv
      <3> QED BY <1>8, <3>1, <3>4
    <2>3. CASE UNCHANGED <<repo, staged, session>>
      <3>1. RepoInv(c)'
        BY <2>1, <2>3 DEF RepoInv
      <3> QED BY <1>8, <1>9, <2>3, <3>1 DEF Snapshot
    <2> QED BY <1>0, <1>10, <2>2, <2>3 DEF MoveSource
  <1>11. CASE CreateRepository(c)
    <2>1. repo[c].source # None /\ ~repo[c].stored /\ staged[s] = None
      BY <1>0, <1>3, <1>11 DEF CreateRepository, RepoInv, ConfirmInv
    <2>2. PICK e : e = repo[c].source
      OBVIOUS
    <2>3. Snapshot(s, e) /\ repo[c].print \in {None, FilesIn(e)}
      BY <1>0, <1>3, <2>1, <2>2 DEF RepoInv
    <2>4. CASE /\ repo' = [repo EXCEPT ![c].listed = TRUE, ![c].stored = TRUE]
               /\ confirm' = [confirm EXCEPT ![c].at = "mark"] /\ UNCHANGED staged
      <3>1. repo'[c].source = e /\ repo'[c].print = repo[c].print /\ confirm'[c].at = "mark"
        BY <1>1, <2>2, <2>4 DEF TypeInv, RepoRecord, Confirmation
      <3>2. Snapshot(s, e)'
        BY <1>4, <2>3, SnapshotFrame
      <3>3. RepoInv(c)'
        BY <1>2, <2>1, <2>2, <2>3, <3>1, <3>2 DEF RepoInv
      <3> QED BY <1>8, <2>1, <2>4, <3>3
    <2>5. CASE /\ repo' = [repo EXCEPT ![c].listed = TRUE] /\ UNCHANGED staged
               /\ confirm' = [confirm EXCEPT ![c].at = "ended"]
      <3>1. repo'[c].source = e /\ repo'[c].print = repo[c].print /\ ~repo'[c].stored
        BY <1>1, <2>1, <2>2, <2>5 DEF TypeInv, RepoRecord
      <3>2. Snapshot(s, e)'
        BY <1>4, <2>3, SnapshotFrame
      <3>3. RepoInv(c)'
        BY <1>2, <2>2, <2>3, <3>1, <3>2 DEF RepoInv
      <3> QED BY <1>8, <2>1, <2>5, <3>3
    <2>6. CASE /\ staged' = [staged EXCEPT ![s] = IF @ = None THEN repo[c].source ELSE @]
               /\ repo' = [repo EXCEPT ![c].source = None, ![c].listed = TRUE]
      <3>1. staged'[s] = e /\ repo'[c].source = None /\ ~repo'[c].stored
        BY <1>1, <2>1, <2>2, <2>6 DEF TypeInv, RepoRecord
      <3>2. RepoInv(c)'
        BY <3>1 DEF RepoInv
      <3> QED BY <1>8, <2>3, <3>1, <3>2
    <2> QED BY <1>0, <1>11, <2>4, <2>5, <2>6 DEF CreateRepository, RollBack
  <1>12. CASE MarkConfirmed(c)
    <2>1. confirm'[c].at = "ended" /\ UNCHANGED <<staged, repo>>
      BY <1>1, <1>12 DEF MarkConfirmed, TypeInv, Confirmation
    <2>2. PICK e : e = repo[c].source
      OBVIOUS
    <2>3. repo[c].source # None => Snapshot(s, e)'
      BY <1>0, <1>3, <1>4, <2>2, SnapshotFrame DEF RepoInv
    <2>4. RepoInv(c)'
      BY <1>2, <1>3, <2>1, <2>2, <2>3 DEF RepoInv
    <2> QED BY <1>8, <1>9, <2>1, <2>4
  <1> QED BY <1>10, <1>11, <1>12

\* A restart loses no source, and leaves nothing that could change one.
LEMMA RestartSnapshot ==
  ASSUME TypeInv, OwnerInv, SnapshotInv, Restart
  PROVE  SnapshotInv'
  <1>1. /\ UNCHANGED <<session, staged>> /\ listed' = {}
        /\ \A s \in Sessions : clone'[s] \in {"none", "ended"}
        /\ \A u \in Uploads : upload'[u] = Idle
    BY DEF Restart, TypeInv
  <1>2. ASSUME NEW c \in Confirms
        PROVE  /\ repo'[c].source = repo[c].source /\ repo'[c].print = repo[c].print
               /\ repo'[c].stored = repo[c].stored
               /\ confirm'[c].session = confirm[c].session
               /\ confirm'[c] = Idle <=> confirm[c] = Idle
               /\ confirm[c].at \in {"mark", "ended"} => confirm'[c].at = "ended"
    <2>1. /\ repo'[c].source = repo[c].source /\ repo'[c].print = repo[c].print
          /\ repo'[c].stored = repo[c].stored
      BY DEF Restart, TypeInv, RepoRecord
    <2>2. CASE confirm[c] = Idle
      <3>1. confirm'[c] = Idle
        BY <2>2 DEF Restart
      <3> QED BY <2>1, <2>2, <3>1 DEF Idle
    <2>3. CASE confirm[c] # Idle
      <3>1. confirm[c] \in Confirmation /\ confirm'[c] = [confirm[c] EXCEPT !.at = "ended"]
        BY <2>3 DEF Restart, TypeInv
      <3>2. confirm'[c].at = "ended" /\ confirm'[c].session = confirm[c].session
        BY <3>1 DEF Confirmation
      <3> QED BY <2>1, <2>3, <3>2 DEF Idle
    <2> QED BY <2>2, <2>3
  <1>3. ASSUME NEW s \in Sessions PROVE SourceInv(s)'
    <2>1. Offered(s)' => Offered(s)
      BY <1>1, <1>2 DEF Offered, Confirming
    <2>2. Settled(s) => Settled(s)'
      BY <1>1 DEF Settled, Cloning, Receiving
    <2>3. Offered(s)' /\ staged'[s] # None => Snapshot(s, staged[s])'
      BY <1>1, <2>1 DEF SnapshotInv, SourceInv, Snapshot
    <2>4. session'[s].print # None => Settled(s)'
      BY <1>1, <2>2 DEF SnapshotInv, SourceInv
    <2> QED BY <1>1, <2>3, <2>4 DEF SourceInv, Open
  <1>4. ASSUME NEW c \in Confirms PROVE RepoInv(c)'
    <2>1. RepoInv(c)
      BY DEF SnapshotInv
    <2>2. PICK s, e : s = confirm[c].session /\ e = repo[c].source
      OBVIOUS
    <2>3. Snapshot(s, e) => Snapshot(s, e)'
      BY <1>1 DEF Snapshot
    <2> QED BY <1>2, <2>1, <2>2, <2>3 DEF RepoInv
  <1>5. \A u \in Uploads : BatchInv(u)'
    BY <1>1 DEF BatchInv
  <1> QED BY <1>3, <1>4, <1>5 DEF SnapshotInv

LEMMA SnapshotStep == Patient /\ TypeInv /\ OwnerInv /\ SnapshotInv /\ [Next]_vars => SnapshotInv'
  <1> SUFFICES ASSUME Patient, TypeInv, OwnerInv, SnapshotInv, [Next]_vars PROVE SnapshotInv'
    OBVIOUS
  <1>1. CASE UNCHANGED vars
    <2>1. UNCHANGED <<session, listed, staged, clone, upload, confirm, repo>>
      BY <1>1 DEF vars
    <2>2. ASSUME NEW s \in Sessions PROVE SourceInv(s)'
      BY <2>1, OthersSame, SourceFrame DEF SnapshotInv
    <2>3. \A c \in Confirms : RepoInv(c)'
      BY <2>1 DEF SnapshotInv, RepoInv, Snapshot
    <2>4. \A u \in Uploads : BatchInv(u)'
      BY <2>1, BatchesSame DEF Open
    <2> QED BY <2>2, <2>3, <2>4 DEF SnapshotInv
  <1>2. ASSUME NEW s \in Sessions,
               \/ \E members \in SUBSET Files : CreateZip(s, members)
               \/ \E total \in 1..MaxFiles : StartFolder(s, total)
               \/ CompleteFolder(s)
               \/ \E url \in Urls, ref \in Refs : StartGithub(s, url, ref)
               \/ CloneStep(s)
               \/ Preview(s) \/ BeginCancel(s) \/ MarkCancelled(s) \/ RemoveCancelled(s)
               \/ \E u \in Uploads, files \in BoundedSeq(Files, 2) \ {<<>>} : StartBatch(u, s, files)
               \/ \E c \in Confirms : BeginConfirm(c, s)
        PROVE  SnapshotInv'
    BY <1>2, BeginSnapshot, FolderSnapshot, CloneSnapshot, CancelSnapshot, StartBatchSnapshot,
       BeginConfirmSnapshot
  <1>3. ASSUME NEW u \in Uploads, ReceiveFile(u) \/ SaveFile(u) \/ EndBatch(u) PROVE SnapshotInv'
    BY <1>3, ReceiveSnapshot, SaveSnapshot, EndBatchSnapshot
  <1> QED BY <1>1, <1>2, <1>3, ConfirmSnapshot, RestartSnapshot DEF Next

\* What a repository is made of is a snapshot of an acquisition that was complete: whole
\* files, within the quota, without Git's metadata, all that the upload saved, and what
\* the preview showed, whatever batches, clones, rollbacks and cancellations there are.
THEOREM RepositoryIsSnapshotCorrect ==
  ASSUME Patient
  PROVE  Spec => []RepositoryIsSnapshot
  <1>1. SnapshotInv => RepositoryIsSnapshot
    BY DEF SnapshotInv, RepoInv, Snapshot, RepositoryIsSnapshot
  <1>2. Spec => [](TypeInv /\ OwnerInv /\ SnapshotInv)
    <2>1. Init => TypeInv /\ OwnerInv /\ SnapshotInv
      BY TypeInit, OwnerInit, SnapshotInit
    <2>2. TypeInv /\ OwnerInv /\ SnapshotInv /\ [Next]_vars => (TypeInv /\ OwnerInv /\ SnapshotInv)'
      BY Patient, TypeStep, OwnerStep, SnapshotStep
    <2> QED BY <2>1, <2>2, PTL DEF Spec
  <1> QED BY <1>1, <1>2, PTL

=============================================================================
