--------------------------- MODULE ImportSessions ---------------------------
(***************************************************************************)
(* Import sessions: acquisition of a source tree by ZIP upload, by folder  *)
(* batches or by a clone thread; preview, confirmation, cancellation.      *)
(* services/ingestion: import_session_service, archive_service,            *)
(* upload_service, streaming_upload_service, import_policy.                *)
(*                                                                         *)
(* Request handlers run in a thread pool, batches as coroutines, the clone *)
(* in a thread of its own.  All share the session record and the staging   *)
(* directory.  A step is what a handler does up to its next await or up to *)
(* the next place where another thread's assignment matters.               *)
(***************************************************************************)
EXTENDS Naturals, FiniteSets, FiniteSetsExt, Sequences, SequencesExt

CONSTANTS
  Sessions, Uploads, Confirms,   \* session ids; batch and confirm requests
  Files,                         \* submitted entries, see FileType
  Urls, Refs,                    \* submitted addresses and branches
  MaxFiles, MaxBytes, MaxFile,   \* ImportQuota.configured
  MaxRestarts,
  Patient,                       \* clients wait for an answer, see Answered
  None

FileType == [identity : STRING, path : {"plain", "unsafe", "deep"},
             class : {"source", "ignored", "secret", "archive", "unsupported"},
             size : Nat, link : BOOLEAN, dense : BOOLEAN]
ASSUME FilesAssumption == IsFiniteSet(Files) /\ \A f \in Files : f \in FileType
ASSUME QuotaAssumption == {MaxFiles, MaxBytes, MaxFile} \subseteq Nat

VARIABLES
  session,    \* ImportSessionRecord of each session
  listed,     \* the keys of import_sessions
  staged,     \* entries of the staging directory; None: no directory
  clone,      \* place of the clone thread
  upload,     \* a batch that is being received
  confirm,    \* a confirmation that is in progress or over
  cancel,     \* place of a cancellation request
  repo,       \* per confirm request, the repository it makes
  restarts

vars == <<session, listed, staged, clone, upload, confirm, cancel, repo, restarts>>

Acquiring == {"preparing", "cloning", "validating"}
Statuses == Acquiring \union
            {"none", "uploading", "preview_ready", "confirmed", "cancelled", "failed"}

\* Git's own directory, an entry of a fresh clone.
GitDir == [identity |-> ".git", path |-> "plain", class |-> "ignored",
           size |-> 0, link |-> FALSE, dense |-> FALSE]
Whole(files) == {<<f, "whole">> : f \in files}
Partial(files) == {<<f, "partial">> : f \in files}
Entries == (Files \union {GitDir}) \X {"whole", "partial"}
ASSUME NoneAssumption == \A entries \in SUBSET Entries : entries # None
FilesIn(entries) == {e[1] : e \in entries}
Bytes(files) == MapThenSumSet(LAMBDA f : f.size, files)

-----------------------------------------------------------------------------
(* Policy *)

ValidPath(f) == f.path = "plain"

\* ImportQuota.add_file: does the quota take one more file?
QuotaAdmits(count, bytes, size, enforceFileSize) ==
  /\ enforceFileSize => size <= MaxFile
  /\ count + 1 <= MaxFiles
  /\ bytes + size <= MaxBytes

UniquePath(f, seen) == f.identity \notin seen

\* Entries that are stored; the others are recorded as skipped.
SafeUpload(f) == f.class = "source"
SafeMember(f) == f.class = "source"

ValidUrl(u) ==
  /\ u.https /\ u.githubHost
  /\ ~u.credentials /\ ~u.port /\ ~u.query
  /\ u.parts = 2 /\ u.namesMatch

ValidRef(r) == r # None => r.token

\* validate_zip_plan: an archive is refused as a whole before anything is written.
PlanAccepted(members) ==
  /\ \A f \in members : ValidPath(f) /\ ~f.link /\ (f.size > 0 => ~f.dense)
  /\ \A f, g \in members : f.identity = g.identity => f = g
  /\ Cardinality(members) <= MaxFiles
  /\ Bytes(members) <= MaxBytes

Extracted(members) == {f \in members : SafeMember(f) /\ f.size <= MaxFile}

\* _validate_import_tree; a directory that is gone has nothing to refuse.
TreeAccepted(entries) ==
  entries # None =>
    LET files == FilesIn(entries) IN
    /\ \A f \in files : ValidPath(f) /\ ~f.link
    /\ \A f, g \in files : f.identity = g.identity => f = g
    /\ Cardinality(files) <= MaxFiles
    /\ Bytes(files) <= MaxBytes

-----------------------------------------------------------------------------
NewSession(kind, status, expected) ==
  [kind |-> kind, status |-> status, expected |-> expected, received |-> 0,
   saved |-> 0, bytes |-> 0, seen |-> {}, print |-> None, repository |-> None]
NoSession == NewSession("none", "none", 0)
NoRepo == [source |-> None, listed |-> FALSE, stored |-> FALSE, print |-> None]
Idle == [at |-> "idle", session |-> None]

Init ==
  /\ session = [s \in Sessions |-> NoSession]
  /\ listed = {}
  /\ staged = [s \in Sessions |-> None]
  /\ clone = [s \in Sessions |-> "none"]
  /\ upload = [u \in Uploads |-> Idle]
  /\ confirm = [c \in Confirms |-> Idle]
  /\ cancel = [s \in Sessions |-> "idle"]
  /\ repo = [c \in Confirms |-> NoRepo]
  /\ restarts = 0

Fresh(s) == session[s].kind = "none"
\* _get_import_session
Available(s) == s \in listed /\ session[s].status \notin {"cancelled", "failed"}
\* No batch of the session is being received.
Answered(s) == \A u \in Uploads : upload[u].session # s
SetStatus(s, st) == session' = [session EXCEPT ![s].status = st]

-----------------------------------------------------------------------------
(* ZIP upload: one request; the session appears when all is extracted. *)

CreateZip(s, members) ==
  /\ Fresh(s)
  /\ PlanAccepted(members) /\ Extracted(members) # {}
  /\ session' = [session EXCEPT ![s] = NewSession("upload_zip", "preview_ready", 0)]
  /\ staged' = [staged EXCEPT ![s] = Whole(Extracted(members))]
  /\ listed' = listed \union {s}
  /\ UNCHANGED <<clone, upload, confirm, cancel, repo, restarts>>

-----------------------------------------------------------------------------
(* Folder upload *)

StartFolder(s, total) ==
  /\ Fresh(s) /\ total \in 1..MaxFiles
  /\ session' = [session EXCEPT ![s] = NewSession("upload_folder", "uploading", total)]
  /\ staged' = [staged EXCEPT ![s] = {}]
  /\ listed' = listed \union {s}
  /\ UNCHANGED <<clone, upload, confirm, cancel, repo, restarts>>

Discard(s) ==
  /\ listed' = listed \ {s}
  /\ staged' = [staged EXCEPT ![s] = IF s \in listed THEN None ELSE @]

\* Mutant of StartBatch: every batch starts from an empty quota.
StartBatchFromZero(u, s, files) ==
  /\ upload[u] = Idle /\ Available(s)
  /\ Patient => Answered(s)
  /\ session[s].kind = "upload_folder" /\ session[s].status = "uploading"
  /\ session[s].received + Len(files) <= session[s].expected
  /\ upload' = [upload EXCEPT ![u] =
       [at |-> "next", session |-> s, files |-> files, count |-> 0, bytes |-> 0]]
  /\ UNCHANGED <<session, listed, staged, clone, confirm, cancel, repo, restarts>>

\* The quota of a batch starts from the session's totals; it is the batch's own copy.
StartBatch(u, s, files) ==
  /\ upload[u] = Idle /\ Available(s)
  /\ Patient => Answered(s)
  /\ session[s].kind = "upload_folder" /\ session[s].status = "uploading"
  /\ session[s].received + Len(files) <= session[s].expected
  /\ upload' = [upload EXCEPT ![u] =
       [at |-> "next", session |-> s, files |-> files,
        count |-> session[s].saved, bytes |-> session[s].bytes]]
  /\ UNCHANGED <<session, listed, staged, clone, confirm, cancel, repo, restarts>>

Limit(b) == Min({MaxFile, MaxBytes - b.bytes})

\* A refused file ends the batch and the session with it.
RefuseBatch(u) ==
  /\ Discard(upload[u].session)
  /\ upload' = [upload EXCEPT ![u] = Idle]

\* Up to the await: check the path, count the file, create its target.
ReceiveFile(u) ==
  /\ upload[u].at = "next" /\ upload[u].files # <<>>
  /\ LET b == upload[u]
         s == b.session
         f == Head(b.files)
     IN \/ /\ ~(ValidPath(f) /\ UniquePath(f, session[s].seen))
           /\ RefuseBatch(u)
           /\ UNCHANGED session
        \/ /\ ValidPath(f) /\ UniquePath(f, session[s].seen)
           /\ session' = [session EXCEPT ![s].seen = @ \union {f.identity},
                                         ![s].received = @ + 1]
           /\ \/ /\ ~SafeUpload(f)
                 /\ upload' = [upload EXCEPT ![u].files = Tail(@)]
                 /\ UNCHANGED <<listed, staged>>
              \/ /\ SafeUpload(f) /\ Limit(b) <= 0
                 /\ RefuseBatch(u)
              \/ /\ SafeUpload(f) /\ Limit(b) > 0
                 /\ staged' = [staged EXCEPT ![s] =
                                 (IF @ = None THEN {} ELSE @) \union Partial({f})]
                 /\ upload' = [upload EXCEPT ![u].at = "saving"]
                 /\ UNCHANGED listed
  /\ UNCHANGED <<clone, confirm, cancel, repo, restarts>>

\* The awaited save_upload returned or raised; a broken connection raises as well.
SaveFile(u) ==
  /\ upload[u].at = "saving"
  /\ LET b == upload[u]
         s == b.session
         f == Head(b.files)
     IN \/ /\ f.size <= Limit(b)
           /\ QuotaAdmits(b.count, b.bytes, f.size, TRUE)
           /\ staged' = [staged EXCEPT ![s] =
                IF @ # None /\ <<f, "partial">> \in @
                THEN (@ \ Partial({f})) \union Whole({f}) ELSE @]
           /\ session' = [session EXCEPT ![s].bytes = b.bytes + f.size,
                                         ![s].saved = @ + 1]
           /\ upload' = [upload EXCEPT ![u] =
                [b EXCEPT !.at = "next", !.files = Tail(@),
                          !.count = @ + 1, !.bytes = @ + f.size]]
           /\ UNCHANGED listed
        \/ /\ RefuseBatch(u)
           /\ UNCHANGED session
  /\ UNCHANGED <<clone, confirm, cancel, repo, restarts>>

EndBatch(u) ==
  /\ upload[u].at = "next" /\ upload[u].files = <<>>
  /\ upload' = [upload EXCEPT ![u] = Idle]
  /\ UNCHANGED <<session, listed, staged, clone, confirm, cancel, repo, restarts>>

CompleteFolder(s) ==
  /\ Available(s)
  /\ Patient => Answered(s)
  /\ session[s].kind = "upload_folder" /\ session[s].status = "uploading"
  /\ session[s].received = session[s].expected
  /\ \/ /\ session[s].saved = 0
        /\ Discard(s)
        /\ UNCHANGED session
     \/ /\ session[s].saved > 0
        /\ SetStatus(s, "preview_ready")
        /\ UNCHANGED <<listed, staged>>
  /\ UNCHANGED <<clone, upload, confirm, cancel, repo, restarts>>

-----------------------------------------------------------------------------
(* Clone thread.  The handlers below it may assign the status at any time. *)

StartGithub(s, url, ref) ==
  /\ Fresh(s) /\ ValidUrl(url) /\ ValidRef(ref)
  /\ session' = [session EXCEPT ![s] = NewSession("github_url", "preparing", 0)]
  /\ listed' = listed \union {s}
  /\ clone' = [clone EXCEPT ![s] = "start"]
  /\ UNCHANGED <<staged, upload, confirm, cancel, repo, restarts>>

Thread(s, from, to) ==
  /\ clone[s] = from
  /\ clone' = [clone EXCEPT ![s] = to]
  /\ UNCHANGED <<listed, upload, confirm, cancel, repo, restarts>>

\* The directory of the session is made outside the try: an error there ends the
\* thread, and nobody assigns the status any more.
BeginClone(s) ==
  /\ UNCHANGED staged
  /\ \/ Thread(s, "start", "create") /\ SetStatus(s, "cloning")
     \/ Thread(s, "start", "dead") /\ UNCHANGED session

CreateClone(s) ==
  /\ Thread(s, "create", "clone")
  /\ \E files \in (SUBSET Files) \ {{}} :
       staged' = [staged EXCEPT ![s] = Partial(files)]
  /\ UNCHANGED session

\* git succeeds, or it fails, times out, or finds its directory moved away.
EndClone(s) ==
  \/ /\ staged[s] # None
     /\ Thread(s, "clone", "cloned")
     /\ staged' = [staged EXCEPT ![s] = Whole(FilesIn(@) \union {GitDir})]
     /\ UNCHANGED session
  \/ /\ Thread(s, "clone", "raised")
     /\ UNCHANGED <<session, staged>>

\* The three places where the thread looks for a cancellation.
CheckCancelled(s) ==
  \E step \in {<<"cloned", "strip">>, <<"stripped", "validate">>,
               <<"validated", "ready">>, <<"raised", "fail">>} :
    \/ /\ session[s].status = "cancelled"
       /\ Thread(s, step[1], "ended")
       /\ staged' = [staged EXCEPT ![s] = None]
       /\ UNCHANGED session
    \/ /\ session[s].status # "cancelled"
       /\ Thread(s, step[1], step[2])
       /\ UNCHANGED <<session, staged>>

StripGit(s) ==
  /\ SetStatus(s, "validating")
  /\ \/ /\ Thread(s, "strip", "stripped")
        /\ staged' = [staged EXCEPT ![s] = IF @ = None THEN None ELSE @ \ Whole({GitDir})]
     \/ /\ Thread(s, "strip", "raised")
        /\ UNCHANGED staged

ValidateTree(s) ==
  /\ Thread(s, "validate", IF TreeAccepted(staged[s]) THEN "validated" ELSE "raised")
  /\ UNCHANGED <<session, staged>>

BecomeReady(s) ==
  /\ Thread(s, "ready", "ended")
  /\ SetStatus(s, "preview_ready")
  /\ UNCHANGED staged

\* Mutant of FailClone: the directory goes, the status stays.
FailCloneSilently(s) ==
  /\ Thread(s, "fail", "ended")
  /\ staged' = [staged EXCEPT ![s] = None]
  /\ UNCHANGED session

FailClone(s) ==
  /\ Thread(s, "fail", "ended")
  /\ SetStatus(s, "failed")
  /\ staged' = [staged EXCEPT ![s] = None]

CloneStep(s) ==
  \/ BeginClone(s) \/ CreateClone(s) \/ EndClone(s) \/ CheckCancelled(s)
  \/ StripGit(s) \/ ValidateTree(s) \/ BecomeReady(s) \/ FailClone(s)

-----------------------------------------------------------------------------
(* Preview, confirmation, cancellation *)

\* The first preview scans the directory and keeps the fingerprint of what it saw.
Preview(s) ==
  /\ Available(s) /\ session[s].status \in {"preview_ready", "confirmed"}
  /\ session[s].print = None /\ staged[s] # None
  /\ session' = [session EXCEPT ![s].print = FilesIn(staged[s])]
  /\ UNCHANGED <<listed, staged, clone, upload, confirm, cancel, repo, restarts>>

\* A client that waits for the preview confirms sessions that were ready.
BeginConfirm(c, s) ==
  /\ confirm[c] = Idle /\ Available(s)
  /\ Patient => session[s].status \in {"preview_ready", "confirmed"}
  /\ ~(session[s].status = "confirmed" /\ session[s].repository # None)
  /\ confirm' = [confirm EXCEPT ![c] = [at |-> "move", session |-> s]]
  /\ UNCHANGED <<session, listed, staged, clone, upload, cancel, repo, restarts>>

\* The move fails when the source is gone, and may fail at any time.
MoveSource(c) ==
  /\ confirm[c].at = "move"
  /\ LET s == confirm[c].session IN
     \/ /\ staged[s] # None
        /\ repo' = [repo EXCEPT ![c].source = staged[s], ![c].print = session[s].print]
        /\ staged' = [staged EXCEPT ![s] = None]
        /\ confirm' = [confirm EXCEPT ![c].at = "create"]
     \/ /\ confirm' = [confirm EXCEPT ![c].at = "ended"]
        /\ UNCHANGED <<repo, staged>>
  /\ UNCHANGED <<session, listed, clone, upload, cancel, restarts>>

\* Mutant of RollBack: the source is copied back.
RollBackByCopy(c, s) ==
  /\ staged' = [staged EXCEPT ![s] = IF @ = None THEN repo[c].source ELSE @]
  /\ repo' = [repo EXCEPT ![c].listed = TRUE]

\* _rollback_confirmed_source: back to the session, unless something is there again.
\* An error of the move or of the removal is swallowed: the source stays where it is.
RollBack(c, s) ==
  \/ /\ staged' = [staged EXCEPT ![s] = IF @ = None THEN repo[c].source ELSE @]
     /\ repo' = [repo EXCEPT ![c].source = None, ![c].listed = TRUE]
  \/ /\ repo' = [repo EXCEPT ![c].listed = TRUE]
     /\ UNCHANGED staged

\* The repository is listed in memory before its row is written, which may fail.
CreateRepository(c) ==
  /\ confirm[c].at = "create"
  /\ \/ /\ repo' = [repo EXCEPT ![c].listed = TRUE, ![c].stored = TRUE]
        /\ confirm' = [confirm EXCEPT ![c].at = "mark"]
        /\ UNCHANGED staged
     \/ /\ RollBack(c, confirm[c].session)
        /\ confirm' = [confirm EXCEPT ![c].at = "ended"]
  /\ UNCHANGED <<session, listed, clone, upload, cancel, restarts>>

MarkConfirmed(c) ==
  /\ confirm[c].at = "mark"
  /\ session' = [session EXCEPT ![confirm[c].session].status = "confirmed",
                                ![confirm[c].session].repository = c]
  /\ confirm' = [confirm EXCEPT ![c].at = "ended"]
  /\ UNCHANGED <<listed, staged, clone, upload, cancel, repo, restarts>>

\* A running acquisition is left to its thread; otherwise the handler cleans up.
\* The status is read for that decision before it is assigned.
BeginCancel(s) ==
  /\ cancel[s] = "idle" /\ Available(s)
  /\ Patient => Answered(s)
  /\ cancel' = [cancel EXCEPT ![s] =
       IF session[s].kind = "github_url" /\ session[s].status \in Acquiring
       THEN "leave" ELSE "clean"]
  /\ UNCHANGED <<session, listed, staged, clone, upload, confirm, repo, restarts>>

MarkCancelled(s) ==
  /\ cancel[s] \in {"leave", "clean"}
  /\ SetStatus(s, "cancelled")
  /\ cancel' = [cancel EXCEPT ![s] = IF @ = "leave" THEN "idle" ELSE "remove"]
  /\ UNCHANGED <<listed, staged, clone, upload, confirm, repo, restarts>>

RemoveCancelled(s) ==
  /\ cancel[s] = "remove"
  /\ cancel' = [cancel EXCEPT ![s] = "idle"]
  /\ listed' = listed \ {s}
  /\ staged' = [staged EXCEPT ![s] = None]
  /\ UNCHANGED <<session, clone, upload, confirm, repo, restarts>>

\* Sessions, requests and threads are lost; directories and rows stay.
Restart ==
  /\ restarts < MaxRestarts
  /\ restarts' = restarts + 1
  /\ listed' = {} /\ cancel' = [s \in Sessions |-> "idle"]
  /\ clone' = [s \in Sessions |-> IF clone[s] = "none" THEN "none" ELSE "ended"]
  /\ upload' = [u \in Uploads |-> Idle]
  /\ confirm' = [c \in Confirms |-> IF confirm[c] = Idle THEN Idle
                                    ELSE [confirm[c] EXCEPT !.at = "ended"]]
  /\ repo' = [c \in Confirms |-> [repo[c] EXCEPT !.listed = repo[c].stored]]
  /\ UNCHANGED <<session, staged>>

Next ==
  \/ \E s \in Sessions :
       \/ \E members \in SUBSET Files : CreateZip(s, members)
       \/ \E total \in 1..MaxFiles : StartFolder(s, total)
       \/ CompleteFolder(s)
       \/ \E url \in Urls, ref \in Refs : StartGithub(s, url, ref)
       \/ CloneStep(s)
       \/ Preview(s) \/ BeginCancel(s) \/ MarkCancelled(s) \/ RemoveCancelled(s)
       \/ \E u \in Uploads, files \in BoundedSeq(Files, 2) \ {<<>>} : StartBatch(u, s, files)
       \/ \E c \in Confirms : BeginConfirm(c, s)
  \/ \E u \in Uploads : ReceiveFile(u) \/ SaveFile(u) \/ EndBatch(u)
  \/ \E c \in Confirms : MoveSource(c) \/ CreateRepository(c) \/ MarkConfirmed(c)
  \/ Restart

Spec == Init /\ [][Next]_vars

\* A clone thread goes on until it ends: git runs under a timeout.
FairSpec == Spec /\ \A s \in Sessions : WF_vars(CloneStep(s))

-----------------------------------------------------------------------------
\* A session becomes at most one repository, however its confirmations and their
\* rollbacks interleave: its files are in one place, staging or one repository.
OneRepository ==
  \A c \in Confirms : confirm[c] # Idle /\ repo[c].source # None =>
    /\ staged[confirm[c].session] = None
    /\ \A d \in Confirms \ {c} :
         confirm[d] # Idle /\ confirm[d].session = confirm[c].session => repo[d].source = None

\* What a stored repository is made of: complete files only, within the quota, without
\* Git's metadata, all that the folder upload saved, and what the preview showed.
RepositoryIsSnapshot ==
  \A c \in Confirms : repo[c].stored =>
    LET s == confirm[c].session
        files == FilesIn(repo[c].source)
    IN /\ repo[c].source = Whole(files) /\ GitDir \notin files
       /\ Cardinality(files) <= MaxFiles /\ Bytes(files) <= MaxBytes
       /\ session[s].kind = "upload_folder" =>
            /\ session[s].received = session[s].expected
            /\ Cardinality(files) = session[s].saved
       /\ repo[c].print \in {None, files}

\* The source of a session that is offered for confirmation is not lost: it is in
\* staging, or with a confirmation that is in progress, or that could neither write its
\* row nor give the source back.  What is offered has not become a repository.
ReadyHasSource ==
  \A s \in listed :
    session[s].status = "preview_ready" /\ cancel[s] # "remove"
    => \/ staged[s] # None
       \/ \E c \in Confirms : /\ confirm[c].session = s /\ repo[c].source # None
                              /\ confirm[c].at = "ended" => ~repo[c].stored

\* The source of a session has one owner, from its acquisition to its repository.
SourceHasOneOwner == OneRepository /\ ReadyHasSource

\* "Cancellation/expiry cleans staging": when a cancelled session has nothing running
\* any more its directory is gone.
CancelledIsClean ==
  \A s \in Sessions :
    /\ session[s].status = "cancelled" /\ cancel[s] = "idle"
    /\ clone[s] \in {"none", "ended", "dead"} /\ Answered(s)
    /\ \A c \in Confirms : confirm[c].at # "idle" => confirm[c].at = "ended"
    /\ restarts = 0
    => staged[s] = None

\* Whoever polls an acquisition learns its end: it does not stay in a state that
\* tells the client to go on waiting.  The one exception is a thread that died before
\* it had a directory.
AcquisitionEnds ==
  \A s \in Sessions :
    clone[s] = "start" ~> \/ session[s].status \notin Acquiring
                         \/ s \notin listed
                         \/ clone[s] = "dead"

=============================================================================
