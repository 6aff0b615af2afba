--------------------------- MODULE LocalIndexing ---------------------------
(***************************************************************************)
(* Indexing in the local profile: IndexingService with a thread per job in   *)
(* the process of the API, for one repository.                              *)
(*                                                                         *)
(* The requests (submit, pause, resume, cancel, status) and the indexing    *)
(* threads share the RepositoryState in memory, the registered controls and *)
(* the database; a step is one database transaction or one look at shared   *)
(* memory, and anything may happen between two steps.  The process may stop *)
(* at any of them.  Statuses with and without warnings are one here, and a  *)
(* job's error code is part of its status.                                  *)
(***************************************************************************)
EXTENDS Naturals, FiniteSets

CONSTANTS
  Clients,     \* request handlers
  Operations,  \* the operations that each of them serves
  MaxJobs,     \* bound on jobs
  MaxRestarts, \* bound on restarts of the process
  None

Jobs == 1..MaxJobs

ASSUME OperationAssumption ==
  Operations \in [Clients -> SUBSET {"submit", "pause", "resume", "cancel", "status"}]
ASSUME BoundAssumption == MaxJobs \in Nat \ {0} /\ MaxRestarts \in Nat

VARIABLES
  row,        \* status of the job rows
  version,    \* index_version of the jobs
  saved,      \* the repository row
  stored,     \* history: the versions whose records were committed
  repo,       \* the RepositoryState in memory
  controls,   \* _controls: the jobs with a registered IndexingJobControl
  pause, resume, cancel,  \* the events of the controls
  thread,     \* where the thread of a job is
  previous,   \* previous_status of a job
  at, job, seen,          \* a handler's place, the job it works on, the status it read
  misjudged,  \* history: a status request failed a job that was not published yet
  restarts

database == <<row, version, saved, stored>>
events   == <<pause, resume, cancel>>
handlers == <<at, job, seen>>
history  == <<misjudged, restarts>>
vars == <<database, repo, controls, events, thread, previous, handlers, history>>

Active == {"running", "paused", "cancelling"}
Status == Active \cup {"completed", "failed", "cancelled", "interrupted", "unpublished"}

ASSUME NoneAssumption == None \notin Status

Repository == [status : {"created", "indexing", "indexed", "failed"}, version : Nat]

Known == {j \in Jobs : row[j] # None}
Latest(j) == j \in Known /\ \A k \in Known : k <= j

\* A new database, and two that older versions of the code left behind: a re-index
\* used to hide the active version behind "indexing".
Init ==
  /\ \/ /\ row = [j \in Jobs |-> None]
        /\ version = [j \in Jobs |-> 0]
        /\ saved = [status |-> "created", version |-> 0] /\ stored = {}
     \/ /\ \E s \in {"completed", "running"} :
             /\ row = [j \in Jobs |-> IF j = 1 THEN s ELSE None]
             /\ version = [j \in Jobs |-> IF j > 1 THEN 0 ELSE IF s = "running" THEN 2 ELSE 1]
        /\ saved = [status |-> "indexing", version |-> 1] /\ stored = {1}
  /\ repo = saved
  /\ controls = {}
  /\ pause = [j \in Jobs |-> FALSE] /\ resume = [j \in Jobs |-> TRUE]
  /\ cancel = [j \in Jobs |-> FALSE]
  /\ thread = [j \in Jobs |-> "none"] /\ previous = [j \in Jobs |-> None]
  /\ at = [c \in Clients |-> "idle"] /\ job = [c \in Clients |-> None]
  /\ seen = [c \in Clients |-> None]
  /\ misjudged = FALSE /\ restarts = 0

Set(j, status) == row' = [row EXCEPT ![j] = status]
Goto(c, l) == at' = [at EXCEPT ![c] = l]
Move(j, l) == thread' = [thread EXCEPT ![j] = l]

Return(c) ==
  /\ Goto(c, "idle")
  /\ job' = [job EXCEPT ![c] = None] /\ seen' = [seen EXCEPT ![c] = None]

\* persist_repository_metadata writes what is in memory, the version included.
SaveMetadata(state) == saved' = state

Memory == <<controls, events, thread, previous>>

---------------------------------------------------------------------------
(* _prepare_indexing_job and the start of the thread. *)

\* get_latest_indexing_job
SubmitRead(c) ==
  /\ at[c] = "idle" /\ "submit" \in Operations[c]
  /\ version[MaxJobs] = 0
  /\ \/ Known = {} /\ Goto(c, "create") /\ UNCHANGED <<job, seen>>
     \/ \E j \in Jobs :
          /\ Latest(j)
          /\ job' = [job EXCEPT ![c] = j] /\ seen' = [seen EXCEPT ![c] = row[j]]
          /\ Goto(c, IF row[j] \in Active THEN "check" ELSE "create")
  /\ UNCHANGED <<database, repo, Memory, history>>

\* Mutant of SubmitCheck: every job that looks active is taken for an orphan.
SubmitCheckNothing(c) ==
  /\ at[c] = "check"
  /\ Goto(c, "retire") /\ UNCHANGED <<job, seen>>
  /\ UNCHANGED <<database, repo, Memory, history>>

\* An active job without a control is an orphan; otherwise the request is refused.
SubmitCheck(c) ==
  /\ at[c] = "check"
  /\ \/ job[c] \in controls /\ Return(c)
     \/ job[c] \notin controls /\ Goto(c, "retire") /\ UNCHANGED <<job, seen>>
  /\ UNCHANGED <<database, repo, Memory, history>>

SubmitRetire(c) ==
  /\ at[c] = "retire"
  /\ Set(job[c], "interrupted")
  /\ seen' = [seen EXCEPT ![c] = "interrupted"]
  /\ Goto(c, "repair")
  /\ UNCHANGED <<version, saved, stored, repo, Memory, job, history>>

SubmitRepair(c) ==
  /\ at[c] = "repair"
  /\ repo' = [repo EXCEPT !.status = IF repo.version > 0 THEN "indexed" ELSE "failed"]
  /\ SaveMetadata(repo')
  /\ Goto(c, "create")
  /\ UNCHANGED <<row, version, stored, Memory, job, seen, history>>

\* The version of the last job is the active one, whatever the status says.
VersionProven(c) ==
  seen[c] = "completed" /\ version[job[c]] = repo.version /\ repo.version > 0

SubmitRecover(c) ==
  /\ at[c] = "create" /\ repo.status = "indexing"
  /\ \/ /\ VersionProven(c)
        /\ repo' = [repo EXCEPT !.status = "indexed"] /\ SaveMetadata(repo')
        /\ UNCHANGED handlers
     \/ /\ ~VersionProven(c)
        /\ Return(c)
        /\ UNCHANGED <<repo, saved>>
  /\ UNCHANGED <<row, version, stored, Memory, history>>

\* Jobs are numbered in the order of started_at.
NewJob(c, before) ==
  /\ \E j \in Jobs :
       /\ version[j] = 0 /\ \A k \in 1..(j - 1) : version[k] # 0
       /\ job' = [job EXCEPT ![c] = j]
       /\ version' = [version EXCEPT ![j] = repo.version + 1]
       /\ previous' = [previous EXCEPT ![j] = before]
  /\ Goto(c, "save")
  /\ UNCHANGED <<row, saved, stored, controls, events, thread, seen, history>>

\* Mutant of SubmitCreate: the active version is hidden while its replacement is
\* built.
SubmitCreateHiding(c) ==
  /\ at[c] = "create" /\ repo.status # "indexing"
  /\ repo' = [repo EXCEPT !.status = "indexing"]
  /\ NewJob(c, repo.status)

SubmitCreate(c) ==
  /\ at[c] = "create" /\ repo.status # "indexing"
  /\ repo' = [repo EXCEPT !.status = IF @ = "indexed" THEN @ ELSE "indexing"]
  /\ NewJob(c, repo.status)

SubmitSave(c) ==
  /\ at[c] = "save"
  /\ Set(job[c], "running")
  /\ Goto(c, "announce")
  /\ UNCHANGED <<version, saved, stored, repo, Memory, job, seen, history>>

SubmitAnnounce(c) ==
  /\ at[c] = "announce"
  /\ SaveMetadata(repo)
  /\ Goto(c, "start")
  /\ UNCHANGED <<row, version, stored, repo, Memory, job, seen, history>>

SubmitStart(c) ==
  /\ at[c] = "start"
  /\ controls' = controls \cup {job[c]}
  /\ Move(job[c], "check")
  /\ Return(c)
  /\ UNCHANGED <<database, repo, events, previous, history>>

Submit(c) ==
  \/ SubmitRead(c) \/ SubmitCheck(c) \/ SubmitRetire(c) \/ SubmitRepair(c)
  \/ SubmitRecover(c) \/ SubmitCreate(c) \/ SubmitSave(c) \/ SubmitAnnounce(c)
  \/ SubmitStart(c)

---------------------------------------------------------------------------
(* _execute_indexing, in the thread of job j. *)

\* _check_control, which comes before every step and every file.
CheckControl(j) ==
  /\ thread[j] = "check"
  /\ \/ cancel[j] /\ Move(j, "cancelled") /\ UNCHANGED row
     \/ ~cancel[j] /\ ~pause[j] /\ Move(j, "step") /\ UNCHANGED row
     \/ ~cancel[j] /\ pause[j] /\ Move(j, "pausing") /\ Set(j, "paused")
  /\ UNCHANGED <<version, saved, stored, repo, controls, events, previous, handlers, history>>

\* resume_requested.wait() returns at once if the event is set; otherwise the next
\* set() releases the thread, even if a clear() follows.
Wait(j) ==
  /\ thread[j] = "pausing"
  /\ Move(j, IF resume[j] THEN "woken" ELSE "waiting")
  /\ UNCHANGED <<database, repo, controls, events, previous, handlers, history>>

Woken(j) ==
  /\ thread[j] = "woken"
  /\ \/ cancel[j] /\ Move(j, "cancelled") /\ UNCHANGED row
     \/ ~cancel[j] /\ Move(j, "step") /\ Set(j, "running")
  /\ UNCHANGED <<version, saved, stored, repo, controls, events, previous, handlers, history>>

\* A file or a step is done and the record saved; the last step leads on.
Step(j) ==
  /\ thread[j] = "step"
  /\ Set(j, "running")
  /\ Move(j, "check") \/ Move(j, "finish")
  /\ UNCHANGED <<version, saved, stored, repo, controls, events, previous, handlers, history>>

\* Mutant of Finish: the thread works on the shared repository, not on a copy.
FinishInPlace(j) ==
  /\ thread[j] = "finish"
  /\ Set(j, "completed") /\ Move(j, "publish")
  /\ repo' = [status |-> "indexed", version |-> version[j]]
  /\ UNCHANGED <<version, saved, stored, controls, events, previous, handlers, history>>

\* The end of _index_repository: the record says completed.
Finish(j) ==
  /\ thread[j] = "finish"
  /\ Set(j, "completed") /\ Move(j, "publish")
  /\ UNCHANGED <<version, saved, stored, repo, controls, events, previous, handlers, history>>

\* persist_repository, one transaction of the row and all index records.
Publish(j) ==
  /\ thread[j] = "publish"
  /\ saved' = [status |-> "indexed", version |-> version[j]]
  /\ stored' = stored \cup {version[j]}
  /\ Move(j, "replace")
  /\ UNCHANGED <<row, version, repo, controls, events, previous, handlers, history>>

\* replace_repository_index
Replace(j) ==
  /\ thread[j] = "replace"
  /\ repo' = [status |-> "indexed", version |-> version[j]]
  /\ Move(j, "leave")
  /\ UNCHANGED <<database, controls, events, previous, handlers, history>>

\* IndexingCancelled
Cancelled(j) ==
  /\ thread[j] = "cancelled"
  /\ repo' = [repo EXCEPT !.status = IF previous[j] = "indexed" THEN "indexed" ELSE "created"]
  /\ Set(j, "cancelled") /\ Move(j, "note")
  /\ UNCHANGED <<version, saved, stored, controls, events, previous, handlers, history>>

\* Any other exception of the steps or of persist_repository.
Fail(j) ==
  /\ thread[j] \in {"step", "publish"}
  /\ repo' = [repo EXCEPT !.status = IF previous[j] = "indexed" THEN "indexed" ELSE "failed"]
  /\ Set(j, "failed") /\ Move(j, "note")
  /\ UNCHANGED <<version, saved, stored, controls, events, previous, handlers, history>>

Note(j) ==
  /\ thread[j] = "note"
  /\ SaveMetadata(repo) /\ Move(j, "leave")
  /\ UNCHANGED <<row, version, stored, repo, controls, events, previous, handlers, history>>

Leave(j) ==
  /\ thread[j] = "leave"
  /\ controls' = controls \ {j} /\ Move(j, "gone")
  /\ UNCHANGED <<database, repo, events, previous, handlers, history>>

Thread(j) ==
  \/ CheckControl(j) \/ Wait(j) \/ Woken(j) \/ Step(j) \/ Finish(j) \/ Publish(j)
  \/ Replace(j) \/ Cancelled(j) \/ Fail(j) \/ Note(j) \/ Leave(j)

---------------------------------------------------------------------------
(* pause_indexing_job, resume_indexing_job, cancel_indexing_job: the row is read  *)
(* and the control looked up, its two events are changed one after the other, and *)
(* the row that was read is saved with its new status.                            *)

Admits == [pause |-> {"running"}, resume |-> {"paused"}, cancel |-> {"running", "paused"}]
Leaves == [pause |-> "paused", resume |-> "running", cancel |-> "cancelling"]

ControlRead(c) ==
  /\ at[c] = "idle"
  /\ \E op \in Operations[c] \cap DOMAIN Admits : \E j \in controls :
       /\ row[j] \in Admits[op]
       /\ job' = [job EXCEPT ![c] = j]
       /\ seen' = [seen EXCEPT ![c] = op]
  /\ Goto(c, "request")
  /\ UNCHANGED <<database, repo, Memory, history>>

ControlRequest(c) ==
  /\ at[c] = "request"
  /\ pause' = [pause EXCEPT ![job[c]] = seen[c] = "pause" \/ (@ /\ seen[c] = "cancel")]
  /\ cancel' = [cancel EXCEPT ![job[c]] = @ \/ seen[c] = "cancel"]
  /\ Goto(c, "signal")
  /\ UNCHANGED <<database, repo, controls, resume, thread, previous, job, seen, history>>

\* Mutant of ControlSignal: cancel() leaves resume_requested as it is.
ControlSignalResume(c) ==
  /\ at[c] = "signal"
  /\ resume' = [resume EXCEPT ![job[c]] = seen[c] = "resume" \/ (@ /\ seen[c] = "cancel")]
  /\ IF seen[c] = "resume" /\ thread[job[c]] = "waiting"
     THEN Move(job[c], "woken") ELSE UNCHANGED thread
  /\ Goto(c, "record")
  /\ UNCHANGED <<database, repo, controls, pause, cancel, previous, job, seen, history>>

ControlSignal(c) ==
  /\ at[c] = "signal"
  /\ resume' = [resume EXCEPT ![job[c]] = seen[c] # "pause"]
  /\ IF seen[c] # "pause" /\ thread[job[c]] = "waiting"
     THEN Move(job[c], "woken") ELSE UNCHANGED thread
  /\ Goto(c, "record")
  /\ UNCHANGED <<database, repo, controls, pause, cancel, previous, job, seen, history>>

ControlSave(c) ==
  /\ at[c] = "record"
  /\ Set(job[c], Leaves[seen[c]])
  /\ Return(c)
  /\ UNCHANGED <<version, saved, stored, repo, Memory, history>>

Control(c) == ControlRead(c) \/ ControlRequest(c) \/ ControlSignal(c) \/ ControlSave(c)

---------------------------------------------------------------------------
(* get_index_status repairs what it finds. *)

\* Nothing is repaired after a job with another status.
StatusRead(c) ==
  /\ at[c] = "idle" /\ "status" \in Operations[c]
  /\ \E j \in Jobs :
       /\ Latest(j) /\ row[j] \in Active \cup {"completed"}
       /\ job' = [job EXCEPT ![c] = j] /\ seen' = [seen EXCEPT ![c] = row[j]]
  /\ Goto(c, "repairs")
  /\ UNCHANGED <<database, repo, Memory, history>>

\* A completed job whose version is not there, as it is between Finish and Replace.
Unpublished(c) == repo = [status |-> "indexing", version |-> 0] /\ seen[c] = "completed"

\* An active version hidden by a re-index that has not ended, or that has.
Hidden(c) ==
  /\ repo.status = "indexing" /\ repo.version > 0
  /\ \/ seen[c] \in Active /\ version[job[c]] > repo.version
     \/ seen[c] = "completed" /\ version[job[c]] = repo.version

StatusRepair(c) ==
  /\ at[c] = "repairs"
  /\ \/ /\ Unpublished(c)
        /\ repo' = [repo EXCEPT !.status = "failed"]
        /\ Set(job[c], "unpublished") /\ misjudged' = TRUE
        /\ Goto(c, "announced") /\ UNCHANGED <<saved, job, seen>>
     \/ /\ Hidden(c)
        /\ repo' = [repo EXCEPT !.status = "indexed"]
        /\ SaveMetadata(repo')
        /\ UNCHANGED <<row, misjudged>> /\ Return(c)
     \/ /\ ~Unpublished(c) /\ ~Hidden(c)
        /\ UNCHANGED <<row, repo, saved, misjudged>> /\ Return(c)
  /\ UNCHANGED <<version, stored, Memory, restarts>>

StatusSave(c) ==
  /\ at[c] = "announced"
  /\ SaveMetadata(repo)
  /\ Return(c)
  /\ UNCHANGED <<row, version, stored, repo, Memory, history>>

ServeStatus(c) == StatusRead(c) \/ StatusRepair(c) \/ StatusSave(c)

---------------------------------------------------------------------------

\* The process stops and starts again: what is left is the database.
Restart ==
  /\ restarts < MaxRestarts /\ restarts' = restarts + 1
  /\ repo' = saved
  /\ controls' = {}
  /\ pause' = [j \in Jobs |-> FALSE] /\ resume' = [j \in Jobs |-> TRUE]
  /\ cancel' = [j \in Jobs |-> FALSE] /\ previous' = [j \in Jobs |-> None]
  /\ thread' = [j \in Jobs |-> IF version[j] = 0 THEN "none" ELSE "gone"]
  /\ at' = [c \in Clients |-> "idle"] /\ job' = [c \in Clients |-> None]
  /\ seen' = [c \in Clients |-> None]
  /\ UNCHANGED <<database, misjudged>>

Next ==
  \/ \E c \in Clients : Submit(c) \/ Control(c) \/ ServeStatus(c)
  \/ \E j \in Jobs : Thread(j)
  \/ Restart

\* A handler that has begun and a thread that can run go on.
Fairness ==
  /\ \A c \in Clients : WF_vars(at[c] # "idle" /\ (Submit(c) \/ Control(c) \/ ServeStatus(c)))
  /\ \A j \in Jobs : WF_vars(Thread(j))

Spec == Init /\ [][Next]_vars /\ Fairness

---------------------------------------------------------------------------
(* Properties. *)

Alive(j) == thread[j] \notin {"none", "gone"}
Working(j) == thread[j] \in {"check", "step", "pausing", "waiting", "woken", "finish"}
Readable == repo.status = "indexed"

\* The type invariant; a job never returns to "indexing".
TypeOK ==
  /\ row \in [Jobs -> Status \cup {None}]
  /\ version \in [Jobs -> Nat] /\ stored \subseteq Nat
  /\ saved \in Repository /\ repo \in Repository
  /\ controls \subseteq Jobs
  /\ \A e \in {pause, resume, cancel} : e \in [Jobs -> BOOLEAN]
  /\ thread \in [Jobs -> {"none", "check", "step", "pausing", "waiting", "woken", "finish",
                          "publish", "replace", "cancelled", "note", "leave", "gone"}]
  /\ previous \in [Jobs -> {None, "created", "indexed", "failed"}]
  /\ at \in [Clients -> {"idle", "check", "retire", "repair", "create", "save", "announce",
                         "start", "request", "signal", "record", "repairs", "announced"}]
  /\ job \in [Clients -> Jobs \cup {None}]
  /\ seen \in [Clients -> Status \cup {None, "pause", "resume", "cancel"}]

\* Two threads never go through the steps of an index at a time, if submissions
\* come one after another: the answer INDEXING_ALREADY_RUNNING is never left out.
OneIndexer ==
  \A j, k \in Jobs : Working(j) /\ Working(k) => j = k

\* A job is retired as interrupted only when its thread is gone, also when the
\* thread ends while a submission is looking at its job.
RetiredIsDead == \A j \in Jobs : row[j] = "interrupted" => ~Alive(j)

\* Readers are shown no version before its records were committed, and a failed
\* commit shows them nothing (the comment at line 295).
ExposedIsStored == repo.version \in stored \cup {0}

\* A readable index stays readable while others are submitted, built, paused,
\* cancelled, fail and are given up, unless a status request has once failed a job
\* whose version was about to be published, or the process restarts.
ReadableStays ==
  [][Readable => Readable' \/ misjudged \/ restarts' # restarts]_vars

\* Once cancelled, a job's thread ends, paused or not, as long as control requests
\* come one after another.
CancelEnds == \A j \in Jobs : cancel[j] ~> ~Alive(j)
=============================================================================
