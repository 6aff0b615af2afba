-------------------------- MODULE RepositoryViews --------------------------
(***************************************************************************)
(* One repository as the production profile keeps it: the rows in the      *)
(* database, and the two copies that RepositoryService loads into memory   *)
(* when its process starts, one in the API and one in the indexing worker. *)
(* Nothing refreshes a copy later.  The API submits, polls and deletes     *)
(* from its copy; the worker indexes what it knows and publishes.          *)
(*                                                                         *)
(* A version is named by its number (its row's id is a hash of repository  *)
(* and number).  Leases, retries and duplicates are those of JobDelivery;  *)
(* here one worker has the job at a time, as long as it lives.             *)
(***************************************************************************)
EXTENDS Naturals

CONSTANTS
  MaxVersion,   \* bound on version numbers
  Restarts,     \* may the API process restart?
  Deletes       \* may the repository be deleted?

ASSUME VersionAssumption == MaxVersion \in Nat \ {0}
ASSUME SwitchAssumption  == {Restarts, Deletes} \subseteq BOOLEAN

VARIABLES
  row,       \* the repositories row exists
  active,    \* number of its active version, 0 for NULL
  version,   \* index_versions.lifecycle by number
  job,       \* the latest index_jobs row: state, target version, error
  api,       \* the API's copy: is it there, its status and current version
  worker,    \* "down", or up with a copy of the repository or without one
  run,       \* what the worker is doing with the job
  build      \* the version number that the run is to publish, 0 without a run

rows == <<row, active, version, job>>
vars == <<rows, api, worker, run, build>>

Versions   == 1..MaxVersion
Unfinished == {"queued", "running"}
Lifecycle  == {"absent", "building", "active", "superseded", "failed", "cancelled"}
Job == [state: {"none", "queued", "running", "succeeded", "failed", "cancelled"},
        target: 0..MaxVersion,
        error: {"none", "not_found", "immutable", "indexing"}]
Copy == [known: BOOLEAN,
         status: {"created", "indexing", "indexed", "failed"},
         version: 0..MaxVersion]

TypeOK ==
  /\ row \in BOOLEAN
  /\ active \in 0..MaxVersion
  /\ version \in [Versions -> Lifecycle]
  /\ job \in Job
  /\ api \in Copy
  /\ worker \in {"down", "aware", "unaware"}
  /\ run \in {"idle", "indexing", "saving", "published"}
  /\ build \in 0..MaxVersion

NoJob     == [state |-> "none", target |-> 0, error |-> "none"]
NoCopy    == [known |-> FALSE, status |-> "created", version |-> 0]
NoVersion == [v \in Versions |-> "absent"]

\* RepositoryService.create_repository has just returned: the API has a copy, a
\* worker that is already up has none.
Init ==
  /\ row = TRUE /\ active = 0 /\ version = NoVersion /\ job = NoJob
  /\ api = [NoCopy EXCEPT !.known = TRUE]
  /\ worker \in {"down", "unaware"} /\ run = "idle" /\ build = 0

---------------------------------------------------------------------------
(* The API process. *)

\* Mutant of Loaded: the version of the latest job is taken for the active one.
LoadedJobVersion ==
  IF ~row THEN NoCopy
  ELSE [known |-> TRUE, version |-> job.target,
        status |-> IF job.target = 0 THEN "created" ELSE "indexed"]

\* RepositoryService.__init__ with _load_repository.
Loaded ==
  IF ~row THEN NoCopy
  ELSE [known |-> TRUE, version |-> active,
        status |-> IF active = 0 THEN "created" ELSE "indexed"]

RestartApi ==
  /\ Restarts
  /\ api' = Loaded
  /\ UNCHANGED <<rows, worker, run, build>>

NextVersion == api.version + 1

\* _prepare_indexing_job for the worker queue: a copy that says indexing is
\* refused; the target row is inserted unless its id exists.  (The repair of a
\* copy that says indexing and has a version is of no use here: VersionIsUsable.)
SubmitIndex ==
  /\ api.known
  /\ job.state \notin Unfinished
  /\ api.status # "indexing"
  /\ NextVersion \in Versions
  /\ job' = [state |-> "queued", target |-> NextVersion, error |-> "none"]
  /\ version' = IF version[NextVersion] = "absent"
                THEN [version EXCEPT ![NextVersion] = "building"] ELSE version
  /\ api' = [api EXCEPT !.status = IF @ = "indexed" THEN @ ELSE "indexing"]
  /\ UNCHANGED <<row, active, worker, run, build>>

\* The first repair of get_index_status: a completed candidate that the copy does
\* not have is failed.  The job row keeps its state, since an attempt is set.
PollUnpublished ==
  /\ api.known /\ api.status = "indexing" /\ api.version = 0
  /\ job.state = "succeeded" /\ job.target > 0
  /\ api' = [api EXCEPT !.status = "failed"]
  /\ UNCHANGED <<rows, worker, run, build>>

\* _finish_version
Closed(outcome) ==
  IF job.target \in Versions /\ version[job.target] = "building"
  THEN [version EXCEPT ![job.target] = outcome] ELSE version

CancelQueued ==
  /\ api.known /\ job.state = "queued"
  /\ job' = [job EXCEPT !.state = "cancelled"]
  /\ version' = Closed("cancelled")
  /\ UNCHANGED <<row, active, api, worker, run, build>>

\* RepositoryService.delete_repository: the rows go, with all that refers to
\* them; a worker that runs the job is not told.
Delete ==
  /\ Deletes /\ api.known
  /\ row' = FALSE /\ active' = 0 /\ version' = NoVersion /\ job' = NoJob
  /\ api' = NoCopy
  /\ UNCHANGED <<worker, run, build>>

---------------------------------------------------------------------------
(* The worker process. *)

\* _delivery_service composes the services once per process.
StartWorker ==
  /\ worker = "down"
  /\ worker' = IF row THEN "aware" ELSE "unaware"
  /\ UNCHANGED <<rows, api, run, build>>

\* The process dies; its message is delivered again once its lease ran out.
StopWorker ==
  /\ worker # "down"
  /\ worker' = "down" /\ run' = "idle" /\ build' = 0
  /\ UNCHANGED <<rows, api>>

\* The outcome of an attempt, if the job row is still there.
Conclude(outcome, why) ==
  /\ job' = IF job.state = "running"
            THEN [job EXCEPT !.state = outcome, !.error = why] ELSE job
  /\ version' = IF job.state = "running" THEN Closed(outcome) ELSE version
  /\ run' = "idle" /\ build' = 0
  /\ UNCHANGED <<row, active, api, worker>>

Claim ==
  /\ worker # "down" /\ run = "idle"
  /\ job.state \in Unfinished
  /\ job' = [job EXCEPT !.state = "running"]
  /\ run' = "indexing" /\ build' = job.target
  /\ UNCHANGED <<row, active, version, api, worker>>

\* execute_persisted_job -> get_repository raises REPOSITORY_NOT_FOUND.
NotFound ==
  /\ run = "indexing" /\ worker = "unaware"
  /\ Conclude("failed", "not_found")

\* _index_repository; its progress writes need the rows.
Index ==
  /\ run = "indexing" /\ worker = "aware"
  /\ \/ row /\ run' = "saving" /\ UNCHANGED <<rows, api, worker, build>>
     \/ Conclude("failed", "indexing")
     \/ Conclude("cancelled", "none")

Published(superseded) ==
  [v \in Versions |->
     IF v = build THEN "active" ELSE IF v \in superseded THEN "superseded" ELSE version[v]]

Writable == version[build] \in {"absent", "building"}

\* Mutant of Save: the version that was active is left as it is.
SaveBeside ==
  /\ run = "saving"
  /\ Writable
  /\ row' = TRUE /\ active' = build /\ version' = Published({})
  /\ run' = "published"
  /\ UNCHANGED <<job, api, worker, build>>

\* save_repository: the repository row is inserted if it is missing, the version
\* row if it is missing, and a version that was decided is not written again.
Save ==
  /\ run = "saving"
  /\ Writable
  /\ row' = TRUE /\ active' = build /\ version' = Published({active})
  /\ run' = "published"
  /\ UNCHANGED <<job, api, worker, build>>

\* Mutant of SaveRefused: a version that exists is taken for this run's.
SaveTolerant ==
  /\ run = "saving"
  /\ ~Writable
  /\ run' = "published"
  /\ UNCHANGED <<rows, api, worker, build>>

SaveRefused ==
  /\ run = "saving"
  /\ ~Writable
  /\ Conclude("failed", "immutable")

Complete ==
  /\ run = "published"
  /\ Conclude("succeeded", "none")

---------------------------------------------------------------------------

Next ==
  \/ RestartApi \/ SubmitIndex \/ PollUnpublished \/ CancelQueued \/ Delete
  \/ StartWorker \/ StopWorker
  \/ Claim \/ NotFound \/ Index \/ Save \/ SaveRefused \/ Complete

Spec == Init /\ [][Next]_vars

---------------------------------------------------------------------------
(* What holds between the rows and the copies. *)

\* The pointer names the one version that is active, also when a job reuses a
\* number or a run outlives its repository (save_repository).
PointerIsActive ==
  /\ active # 0 => row
  /\ \A v \in Versions : version[v] = "active" <=> active = v

\* The latest job says succeeded only of the version that readers would load.
SuccessIsReadable == job.state = "succeeded" => active = job.target

\* The API's copy may lag behind the rows, never lead them, and a copy with a
\* version is usable while a newer one is built (_prepare_indexing_job).
VersionIsUsable ==
  /\ api.version <= active
  /\ api.version > 0 => api.status = "indexed"

---------------------------------------------------------------------------
(* What documents and comments say and the code does not keep. *)

\* ADR-0003: "workers reload all authority and input from PostgreSQL".  The
\* worker looks the repository up in the copy it made when it started.
WorkerFindsRepository == job.error = "not_found" => ~row

\* indexing_service.py: the first repair fails an "unpublished candidate".  The
\* API's copy does not tell it whether the worker published the candidate.
OnlyUnpublishedFails == api.known /\ api.status = "failed" => active = 0
=============================================================================
