---------------------------- MODULE JobDelivery ----------------------------
(***************************************************************************)
(* One index job from its submission to its outcome: the API process that  *)
(* saves it and publishes a message, the Redis queue, the worker processes *)
(* that run JobDeliveryService.deliver with a heartbeat thread beside the  *)
(* runner (IndexingService._execute_indexing), and the rows they share.    *)
(*                                                                         *)
(* The commands of the job state store are those of JobStateStore, reduced *)
(* to one job and without a clock: `live` says that the current lease has  *)
(* not expired, and LeaseExpires is the passage of time.  Between two      *)
(* database transactions of one worker anything may happen: an expiry, a   *)
(* crash, another delivery, a cancellation.  The worker also writes the    *)
(* job and publishes the version through ProductionRepositoryStore, whose  *)
(* transactions do not look at the lease.                                  *)
(***************************************************************************)
EXTENDS Naturals, FiniteSets

CONSTANTS
  Workers,        \* worker processes
  MaxAttempts,    \* settings.index_max_attempts
  Stages,         \* progress writes of one run before its last one
  MaxCrashes,     \* bound on worker crashes
  MaxDuplicates,  \* bound on redeliveries of a message still being processed
  Timely,         \* a lease expires only when its worker is gone
  BrokerFails,    \* publishing a message may fail
  RunnerFails,    \* indexing may raise
  DatabaseFails,  \* a worker's transaction may meet a database error
  Cancellable     \* somebody may ask for cancellation

ASSUME WorkerAssumption == IsFiniteSet(Workers)
ASSUME BoundAssumption ==
  /\ MaxAttempts \in Nat \ {0}
  /\ Stages \in Nat /\ MaxCrashes \in Nat /\ MaxDuplicates \in Nat
ASSUME SwitchAssumption ==
  {Timely, BrokerFails, RunnerFails, DatabaseFails, Cancellable} \subseteq BOOLEAN

VARIABLES
  state,            \* index_jobs.state
  current,          \* generation of index_jobs.current_attempt_id, 0 for NULL
  generation,       \* index_jobs.lease_generation, the number of attempt rows
  cancelRequested,  \* index_jobs.cancellation_requested_at IS NOT NULL
  live,             \* the current attempt's lease_expires_at > now()
  version,          \* index_versions.lifecycle of the target
  queue,            \* messages waiting in the queue, delayed ones included
  api,              \* where start_indexing_background is
  pc,               \* where each worker's delivery is
  lease,            \* the generation each delivery was granted
  monitor,          \* LeaseHeartbeatMonitor of each delivery
  status,           \* job.status in each worker's memory
  stage,            \* progress writes of each run
  error,            \* how deliver classifies the exception it is handling
  crashes, duplicates

rows  == <<state, current, generation, cancelRequested, live, version>>
local == <<lease, monitor, status, stage, error>>
vars  == <<rows, queue, api, pc, local, crashes, duplicates>>

Terminal == {"succeeded", "failed", "cancelled"}
Label    == {"idle", "claim", "load", "check", "work", "lastCheck", "publish", "write",
             "published", "noteCancel", "noteFail", "stopping", "complete", "cancel", "fail",
             "enqueue", "ack"}
Status   == {"queued", "running", "succeeded", "failed", "cancelled"}

\* A message is in the queue or in the hands of a worker; each crash or
\* duplicate adds at most one.
MaxMessages == 1 + MaxCrashes + MaxDuplicates

TypeOK ==
  /\ state \in Status
  /\ current \in 0..MaxAttempts /\ generation \in 0..MaxAttempts
  /\ cancelRequested \in BOOLEAN /\ live \in BOOLEAN
  /\ version \in {"building", "active", "failed", "cancelled"}
  /\ queue \in 0..MaxMessages
  /\ api \in {"publishing", "done"}
  /\ pc \in [Workers -> Label]
  /\ lease \in [Workers -> 0..MaxAttempts]
  /\ monitor \in [Workers -> {"off", "on", "cancelled", "lost"}]
  /\ status \in [Workers -> Status]
  /\ stage \in [Workers -> 0..Stages]
  /\ error \in [Workers -> {"none", "transient", "permanent"}]
  /\ crashes \in 0..MaxCrashes /\ duplicates \in 0..MaxDuplicates

\* _prepare_indexing_job has saved the job as queued and its target as building.
Init ==
  /\ state = "queued" /\ current = 0 /\ generation = 0
  /\ cancelRequested = FALSE /\ live = FALSE
  /\ version = "building"
  /\ queue = 0 /\ api = "publishing"
  /\ pc = [w \in Workers |-> "idle"]
  /\ lease = [w \in Workers |-> 0]
  /\ monitor = [w \in Workers |-> "off"]
  /\ status = [w \in Workers |-> "queued"]
  /\ stage = [w \in Workers |-> 0]
  /\ error = [w \in Workers |-> "none"]
  /\ crashes = 0 /\ duplicates = 0

At(w, l)   == pc[w] = l
Goto(w, l) == pc' = [pc EXCEPT ![w] = l]

---------------------------------------------------------------------------
(* What the database transactions do. *)

\* _lock_owned_lease after its cancellation test, and the predicate of cancel.
Owned(w) == state = "running" /\ current = lease[w] /\ generation = lease[w] /\ live

\* Mutant of RepositoryFree: the upsert of the repository locks nothing.
RepositoryNeverLocked == TRUE

\* Who publishes keeps the row of the repository locked from its first statement
\* (_ensure_repository_identity); whoever wants that row waits.
RepositoryFree == \A v \in Workers : ~At(v, "write")

\* _finish_version
FinishVersion(outcome) == version' = IF version = "building" THEN outcome ELSE version

CancelLocked ==
  /\ state' = "cancelled"
  /\ cancelRequested' = TRUE
  /\ FinishVersion("cancelled")
  /\ UNCHANGED <<current, generation, live>>

FailLocked ==
  /\ state' = "failed"
  /\ FinishVersion("failed")
  /\ UNCHANGED <<current, generation, cancelRequested, live>>

\* Mutant of SaveJob: the upsert does not look at current_attempt_id.
SaveJobUnguarded(s) ==
  /\ state' = s
  /\ UNCHANGED <<current, generation, cancelRequested, live, version>>

\* ProductionRepositoryStore.save_indexing_job: the row keeps its state while a
\* current attempt is set, and takes the caller's otherwise.
SaveJob(s) ==
  /\ state' = IF current # 0 THEN state ELSE s
  /\ UNCHANGED <<current, generation, cancelRequested, live, version>>

---------------------------------------------------------------------------
(* The API process, the queue and time. *)

ApiPublish ==
  /\ api = "publishing"
  /\ api' = "done"
  /\ \/ queue' = queue + 1
     \/ BrokerFails /\ queue' = queue
  /\ UNCHANGED <<rows, pc, local, crashes, duplicates>>

\* cancel_indexing_job -> request_cancellation
RequestCancellation ==
  /\ Cancellable
  /\ \/ state = "queued" /\ CancelLocked
     \/ /\ state = "running" /\ ~cancelRequested
        /\ cancelRequested' = TRUE
        /\ UNCHANGED <<state, current, generation, live, version>>
  /\ UNCHANGED <<queue, api, pc, local, crashes, duplicates>>

\* A lease that its holder renews in time does not expire.
LeaseExpires ==
  /\ state = "running" /\ live
  /\ Timely => \A w \in Workers : lease[w] # current
  /\ live' = FALSE
  /\ UNCHANGED <<state, current, generation, cancelRequested, version,
                 queue, api, pc, local, crashes, duplicates>>

\* The broker gives a message it holds as unacknowledged to another consumer.
Redeliver(w) ==
  /\ ~At(w, "idle")
  /\ duplicates < MaxDuplicates
  /\ duplicates' = duplicates + 1
  /\ queue' = queue + 1
  /\ UNCHANGED <<rows, api, pc, local, crashes>>

\* The process dies and its unacknowledged message returns to the queue.
Crash(w) ==
  /\ ~At(w, "idle")
  /\ crashes < MaxCrashes
  /\ crashes' = crashes + 1
  /\ queue' = queue + 1
  /\ Goto(w, "idle")
  /\ lease' = [lease EXCEPT ![w] = 0]
  /\ monitor' = [monitor EXCEPT ![w] = "off"]
  /\ UNCHANGED <<rows, api, status, stage, error, duplicates>>

---------------------------------------------------------------------------
(* deliver, one action per transaction or decision. *)

Take(w) ==
  /\ At(w, "idle")
  /\ queue > 0
  /\ queue' = queue - 1
  /\ Goto(w, "claim")
  /\ UNCHANGED <<rows, api, local, crashes, duplicates>>

Ack(w) ==
  /\ At(w, "ack")
  /\ Goto(w, "idle")
  /\ lease' = [lease EXCEPT ![w] = 0]
  /\ monitor' = [monitor EXCEPT ![w] = "off"]
  /\ UNCHANGED <<rows, queue, api, status, stage, error, crashes, duplicates>>

\* Mutant of LeaseHeld: a running job is taken for an abandoned one.
NeverHeld == FALSE

LeaseHeld == state = "running" /\ current # 0 /\ live

Claimable == state \notin Terminal /\ ~cancelRequested

BudgetLeft == generation < MaxAttempts

ClaimTerminal(w) ==
  /\ At(w, "claim")
  /\ \/ state \in Terminal /\ UNCHANGED rows
     \/ state \notin Terminal /\ RepositoryFree /\ cancelRequested /\ CancelLocked
  /\ Goto(w, "ack")
  /\ UNCHANGED <<queue, api, local, crashes, duplicates>>

\* Mutant of ClaimDeferred: an early delivery is dropped as a duplicate.
ClaimDeferredDropped(w) ==
  /\ At(w, "claim")
  /\ RepositoryFree /\ Claimable /\ LeaseHeld
  /\ Goto(w, "ack")
  /\ UNCHANGED <<rows, queue, api, local, crashes, duplicates>>

ClaimDeferred(w) ==
  /\ At(w, "claim")
  /\ RepositoryFree /\ Claimable /\ LeaseHeld
  /\ Goto(w, "enqueue")
  /\ UNCHANGED <<rows, queue, api, local, crashes, duplicates>>

ClaimExhausted(w) ==
  /\ At(w, "claim")
  /\ RepositoryFree /\ Claimable /\ ~LeaseHeld /\ ~BudgetLeft
  /\ FailLocked
  /\ Goto(w, "ack")
  /\ UNCHANGED <<queue, api, local, crashes, duplicates>>

ClaimGranted(w) ==
  /\ At(w, "claim")
  /\ RepositoryFree /\ Claimable /\ ~LeaseHeld /\ BudgetLeft
  /\ state' = "running"
  /\ current' = generation + 1
  /\ generation' = generation + 1
  /\ live' = TRUE
  /\ lease' = [lease EXCEPT ![w] = generation + 1]
  /\ monitor' = [monitor EXCEPT ![w] = "on"]
  /\ stage' = [stage EXCEPT ![w] = 0]
  /\ error' = [error EXCEPT ![w] = "none"]
  /\ Goto(w, "load")
  /\ UNCHANGED <<cancelRequested, version, queue, api, status, crashes, duplicates>>

\* LeaseHeartbeatMonitor._run: a heartbeat that is refused sets a flag and ends
\* the thread; one that is granted changes nothing here.
Heartbeat(w) ==
  /\ monitor[w] = "on"
  /\ \/ RepositoryFree /\ cancelRequested /\ monitor' = [monitor EXCEPT ![w] = "cancelled"]
     \/ /\ DatabaseFails \/ (RepositoryFree /\ ~cancelRequested /\ ~Owned(w))
        /\ monitor' = [monitor EXCEPT ![w] = "lost"]
  /\ UNCHANGED <<rows, queue, api, pc, lease, status, stage, error, crashes, duplicates>>

\* execute_persisted_job reads the job row.
Load(w) ==
  /\ At(w, "load")
  /\ status' = [status EXCEPT ![w] = state]
  /\ Goto(w, "check")
  /\ UNCHANGED <<rows, queue, api, lease, monitor, stage, error, crashes, duplicates>>

\* monitor.check before a step, and before the publication.
AuthorityCheck(w, here, next) ==
  /\ At(w, here)
  /\ CASE monitor[w] = "cancelled" -> Goto(w, "noteCancel")
       [] monitor[w] = "lost"      -> Goto(w, "ack")
       [] OTHER                    -> Goto(w, next)
  /\ UNCHANGED <<rows, queue, api, local, crashes, duplicates>>

Check(w)     == AuthorityCheck(w, "check", "work")
LastCheck(w) == AuthorityCheck(w, "lastCheck", "publish")

Progress(w) ==
  /\ At(w, "work")
  /\ stage[w] < Stages
  /\ SaveJob(status[w])
  /\ stage' = [stage EXCEPT ![w] = @ + 1]
  /\ Goto(w, "check")
  /\ UNCHANGED <<queue, api, lease, monitor, status, error, crashes, duplicates>>

\* The last write of _index_repository says that the job completed.
Finish(w) ==
  /\ At(w, "work")
  /\ stage[w] = Stages
  /\ status' = [status EXCEPT ![w] = "succeeded"]
  /\ SaveJob("succeeded")
  /\ Goto(w, "lastCheck")
  /\ UNCHANGED <<queue, api, lease, monitor, stage, error, crashes, duplicates>>

\* Where an exception that leaves the step l is handled: by the handler of
\* _execute_indexing, by that of deliver, or by Dramatiq, which drops the message.
HandlerOf(l) ==
  CASE l \in {"work", "publish", "write"} -> "noteFail"
    [] l \in {"load", "noteCancel", "noteFail", "published", "complete"} -> "fail"
    [] l \in {"claim", "cancel", "fail"} -> "ack"

Raise(w, e) ==
  /\ Goto(w, HandlerOf(pc[w]))
  /\ error' = [error EXCEPT ![w] = e]
  /\ UNCHANGED <<rows, queue, api, lease, monitor, status, stage, crashes, duplicates>>

\* deliver retries TimeoutError, ConnectionError and RetryableJobError only.
RunnerRaises(w) ==
  /\ RunnerFails
  /\ pc[w] \in {"load", "work", "published"}
  /\ Raise(w, "transient") \/ Raise(w, "permanent")

\* A transaction that fails is rolled back; its error is not one of those three.
DatabaseError(w) ==
  /\ DatabaseFails
  /\ pc[w] \in {"claim", "load", "work", "publish", "write", "published",
               "noteCancel", "noteFail", "complete", "cancel", "fail"}
  /\ Raise(w, "permanent")

\* The handlers of _execute_indexing save the job: cancellation is swallowed,
\* any other error is raised again.
NoteCancel(w) ==
  /\ At(w, "noteCancel")
  /\ status' = [status EXCEPT ![w] = "cancelled"]
  /\ SaveJob("cancelled")
  /\ Goto(w, "stopping")
  /\ UNCHANGED <<queue, api, lease, monitor, stage, error, crashes, duplicates>>

NoteFail(w) ==
  /\ At(w, "noteFail")
  /\ status' = [status EXCEPT ![w] = "failed"]
  /\ SaveJob("failed")
  /\ Goto(w, "fail")
  /\ UNCHANGED <<queue, api, lease, monitor, stage, error, crashes, duplicates>>

\* save_repository, its reads: the lifecycle is read without a lock on the
\* version, and writing a version that is not building is a permanent error.
PublishRead(w) ==
  /\ At(w, "publish")
  /\ RepositoryFree
  /\ \/ version = "building" /\ Goto(w, "write")
        /\ UNCHANGED <<rows, queue, api, local, crashes, duplicates>>
     \/ version # "building" /\ Raise(w, "permanent")

\* Its writes: the version is updated by its id, whatever it has become since.
PublishWrite(w) ==
  /\ At(w, "write")
  /\ version' = "active"
  /\ Goto(w, "published")
  /\ UNCHANGED <<state, current, generation, cancelRequested, live,
                 queue, api, local, crashes, duplicates>>

\* replace_repository_index and mark_stale_evidence, then the runner returns.
Published(w) ==
  /\ At(w, "published")
  /\ Goto(w, "stopping")
  /\ UNCHANGED <<rows, queue, api, local, crashes, duplicates>>

\* monitor.stop and monitor.check
StopMonitor(w) ==
  /\ At(w, "stopping")
  /\ monitor' = [monitor EXCEPT ![w] = IF @ = "on" THEN "off" ELSE @]
  /\ Goto(w, CASE monitor[w] = "cancelled" -> "cancel"
               [] monitor[w] = "lost"      -> "ack"
               [] OTHER                    -> "complete")
  /\ UNCHANGED <<rows, queue, api, lease, status, stage, error, crashes, duplicates>>

Complete(w) ==
  /\ At(w, "complete")
  /\ RepositoryFree
  /\ \/ cancelRequested /\ UNCHANGED state /\ Goto(w, "cancel")
     \/ ~cancelRequested /\ ~Owned(w) /\ UNCHANGED state /\ Goto(w, "ack")
     \/ ~cancelRequested /\ Owned(w) /\ state' = "succeeded" /\ Goto(w, "ack")
  /\ UNCHANGED <<current, generation, cancelRequested, live, version,
                 queue, api, local, crashes, duplicates>>

Cancel(w) ==
  /\ At(w, "cancel")
  /\ RepositoryFree
  /\ IF cancelRequested /\ Owned(w) THEN CancelLocked ELSE UNCHANGED rows
  /\ monitor' = [monitor EXCEPT ![w] = "off"]
  /\ Goto(w, "ack")
  /\ UNCHANGED <<queue, api, lease, status, stage, error, crashes, duplicates>>

\* fail: refused for a cancelled job and for a lost lease, retried within the
\* budget, final otherwise.
FailRefused(w) ==
  /\ cancelRequested \/ ~Owned(w)
  /\ Goto(w, "ack")
  /\ UNCHANGED rows

FailRetry(w) ==
  /\ ~cancelRequested /\ Owned(w)
  /\ error[w] = "transient" /\ lease[w] < MaxAttempts
  /\ state' = "queued" /\ current' = 0 /\ live' = FALSE
  /\ Goto(w, "enqueue")
  /\ UNCHANGED <<generation, cancelRequested, version>>

FailFinal(w) ==
  /\ ~cancelRequested /\ Owned(w)
  /\ error[w] = "permanent" \/ lease[w] >= MaxAttempts
  /\ FailLocked
  /\ Goto(w, "ack")

Fail(w) ==
  /\ At(w, "fail")
  /\ RepositoryFree
  /\ FailRefused(w) \/ FailRetry(w) \/ FailFinal(w)
  /\ monitor' = [monitor EXCEPT ![w] = "off"]
  /\ UNCHANGED <<queue, api, lease, status, stage, error, crashes, duplicates>>

\* Mutant of Enqueue: a job to be retried is left to the message at hand.
EnqueueNothing(w) ==
  /\ At(w, "enqueue")
  /\ Goto(w, "ack")
  /\ UNCHANGED <<rows, queue, api, local, crashes, duplicates>>

\* The next delivery, of a deferred or of a retried job; a publication error is
\* swallowed and this message is acknowledged all the same.
Enqueue(w) ==
  /\ At(w, "enqueue")
  /\ \/ queue' = queue + 1
     \/ BrokerFails /\ queue' = queue
  /\ Goto(w, "ack")
  /\ UNCHANGED <<rows, api, local, crashes, duplicates>>

---------------------------------------------------------------------------

Claim(w) ==
  ClaimTerminal(w) \/ ClaimDeferred(w) \/ ClaimExhausted(w) \/ ClaimGranted(w)

Run(w) ==
  \/ Load(w) \/ Check(w) \/ Progress(w) \/ Finish(w) \/ LastCheck(w)
  \/ RunnerRaises(w) \/ DatabaseError(w) \/ NoteCancel(w) \/ NoteFail(w)
  \/ PublishRead(w) \/ PublishWrite(w) \/ Published(w)

Conclude(w) ==
  StopMonitor(w) \/ Complete(w) \/ Cancel(w) \/ Fail(w) \/ Enqueue(w) \/ Ack(w)

Deliver(w) == Take(w) \/ Claim(w) \/ Run(w) \/ Conclude(w)

Next ==
  \/ ApiPublish \/ RequestCancellation \/ LeaseExpires
  \/ \E w \in Workers : Deliver(w) \/ Heartbeat(w) \/ Redeliver(w) \/ Crash(w)

Spec == Init /\ [][Next]_vars

\* Processes and heartbeat threads keep running (a dead process is replaced),
\* the broker hands its messages out, and time passes.
Fairness ==
  /\ WF_vars(ApiPublish)
  /\ WF_vars(LeaseExpires)
  /\ \A w \in Workers : WF_vars(Deliver(w)) /\ WF_vars(Heartbeat(w))

FairSpec == Spec /\ Fairness

---------------------------------------------------------------------------
(* What delivery keeps under every fault the constants allow. *)

Busy(w)      == ~At(w, "idle") /\ ~At(w, "ack")
InRunner(w)  == pc[w] \in {"load", "check", "work", "lastCheck", "publish", "write",
                           "published", "noteCancel", "noteFail"}
Moves(w)     == pc'[w] # pc[w]

\* Every write of a progress row, late or not, leaves the state of a leased job
\* to the holder of the lease (the `leased` cases of save_indexing_job).
AuthorityKept ==
  [][\A w \in Workers : current # 0 /\ lease[w] # 0 /\ ~Owned(w) /\ Moves(w)
       => state' = state]_vars

\* The step of w that makes the version readable.
Publishes(w) == At(w, "write") /\ pc'[w] = "published"

\* A published or failed version is never published, reopened or closed again,
\* though save_repository updates it by its id: the lock on the repository keeps
\* a failure and a second publisher out from between its read and its write.  It
\* does not keep out the cancellation of a queued job, so a cancelled version may
\* still be published, by a run that had read it before and by nobody else.
VersionDecidedOnce ==
  [][/\ version \in {"active", "failed"} =>
          version' = version /\ \A w \in Workers : ~Publishes(w)
     /\ version = "cancelled" /\ version' # version =>
          version' = "active" /\ \E w \in Workers : Publishes(w)]_vars

---------------------------------------------------------------------------
(* What it keeps while leases are renewed in time. *)

\* A running job has one runner, across duplicates, crashes and retries.
OneRunner == \A v, w \in Workers : InRunner(v) /\ InRunner(w) => v = w

\* A job says succeeded only when its version is what readers get; the row is
\* never finished by the progress write that precedes the publication.
SuccessIsPublished == state = "succeeded" => version = "active"

\* While the broker accepts messages, an unfinished job has a message waiting or
\* a worker that will conclude it: no interleaving of claims, crashes and
\* acknowledgements strands it.
JobAttended ==
  state \notin Terminal =>
    queue > 0 \/ api = "publishing" \/ \E w \in Workers : Busy(w)

\* A submitted job is concluded.
JobSettles == <>[](state \in Terminal)

\* A cancellation asked for before the publication ends the job.
CancellationSettles == cancelRequested /\ version = "building" ~> state \in Terminal

---------------------------------------------------------------------------
(* What the documents say of the system and the code does not keep. *)

\* detailed-indexing-pipeline.md: "Cancellation stops at a safe boundary and
\* never publishes."  complete reads the request after save_repository.
CancelledNotPublished == ~(state = "cancelled" /\ version = "active")

\* detailed-indexing-pipeline.md: "Failed/cancelled builds remain inactive" and
\* redelivery is normal.  A redelivered job cannot publish its version again.
FailedNotPublished == ~(state = "failed" /\ version = "active")
=============================================================================
