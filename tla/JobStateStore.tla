--------------------------- MODULE JobStateStore ---------------------------
(***************************************************************************)
(* The transactional commands of JobStateStore (job_state_store.py) over   *)
(* the index_jobs, job_attempts, index_versions and repositories rows of   *)
(* one repository.  Every command is one database transaction that takes   *)
(* row locks, so it is one action.  The callers are arbitrary: any lease   *)
(* that a claim ever granted may be presented again at any later time, by  *)
(* a worker that is alive, slow or superseded.                             *)
(*                                                                         *)
(* A submission inserts a job together with the index version it targets,  *)
(* so a version is named by its job.  An attempt is named by its job and   *)
(* its lease generation (uq_job_attempts_generation); generation 0 stands  *)
(* for a NULL current_attempt_id.  "succeeded" stands for the two states   *)
(* succeeded and succeeded_with_warnings.                                  *)
(***************************************************************************)
EXTENDS Naturals, Sequences

CONSTANTS
  Jobs,           \* jobs (and target versions) that may be submitted
  None,           \* no version: a NULL reference
  MaxAttempts,    \* settings.index_max_attempts
  LeaseSeconds,   \* settings.index_lease_seconds, in ticks
  MaxClock        \* bound on the passage of time

ASSUME NoneAssumption    == None \notin Jobs
ASSUME AttemptAssumption == MaxAttempts \in Nat \ {0}
ASSUME LeaseAssumption   == LeaseSeconds \in Nat \ {0}
ASSUME ClockAssumption   == MaxClock \in Nat

VARIABLES
  state,            \* index_jobs.state
  current,          \* index_jobs.current_attempt_id
  generation,       \* index_jobs.lease_generation
  cancelRequested,  \* index_jobs.cancellation_requested_at IS NOT NULL
  base,             \* base_index_version_id of the job and of its version
  fence,            \* index_jobs.repository_generation
  attempts,         \* job_attempts rows of each job, by generation
  version,          \* index_versions.lifecycle of the job's target
  active,           \* repositories.active_index_version_id
  repoOpen,         \* repositories.lifecycle = 'active'
  repoGeneration,   \* repositories.operation_generation
  clock             \* wall-clock time

jobVars  == <<state, current, generation, cancelRequested, base, fence>>
repoVars == <<active, repoOpen, repoGeneration>>
vars     == <<jobVars, attempts, version, repoVars, clock>>

Unfinished    == {"queued", "running"}
Terminal      == {"succeeded", "failed", "cancelled"}
JobState      == {"absent"} \cup Unfinished \cup Terminal
AttemptState  == {"running", "succeeded", "failed", "cancelled", "lease_lost"}
VersionState  == {"absent", "building", "active", "superseded", "failed", "cancelled"}
Attempt       == [state: AttemptState, expires: Nat]

TypeOK ==
  /\ state \in [Jobs -> JobState]
  /\ current \in [Jobs -> Nat]
  /\ generation \in [Jobs -> Nat]
  /\ cancelRequested \in [Jobs -> BOOLEAN]
  /\ base \in [Jobs -> Jobs \cup {None}]
  /\ fence \in [Jobs -> Nat]
  /\ attempts \in [Jobs -> Seq(Attempt)]
  /\ version \in [Jobs -> VersionState]
  /\ active \in Jobs \cup {None}
  /\ repoOpen \in BOOLEAN
  /\ repoGeneration \in Nat
  /\ clock \in 0..MaxClock

Init ==
  /\ state = [j \in Jobs |-> "absent"]
  /\ current = [j \in Jobs |-> 0]
  /\ generation = [j \in Jobs |-> 0]
  /\ cancelRequested = [j \in Jobs |-> FALSE]
  /\ base = [j \in Jobs |-> None]
  /\ fence = [j \in Jobs |-> 0]
  /\ attempts = [j \in Jobs |-> <<>>]
  /\ version = [j \in Jobs |-> "absent"]
  /\ active = None
  /\ repoOpen = TRUE
  /\ repoGeneration = 0
  /\ clock = 0

\* Every command reads now() before it waits for its row locks: by the time it
\* runs, its `now` may be any earlier instant.
Instants == 0..clock

---------------------------------------------------------------------------
(* The parts the commands share. *)

\* Helpers write the attempts row only while it is still live.
Retire(j, g, outcome) ==
  IF g \in DOMAIN attempts[j] /\ attempts[j][g].state = "running"
  THEN [attempts EXCEPT ![j][g].state = outcome]
  ELSE attempts

\* _finish_version: only an unpublished candidate takes the job's outcome.
FinishVersion(j, outcome) ==
  IF version[j] = "building" THEN [version EXCEPT ![j] = outcome] ELSE version

\* _cancel_locked with update_attempt, from claim and request_cancellation.
CancelLocked(j) ==
  /\ attempts' = Retire(j, current[j], "cancelled")
  /\ state' = [state EXCEPT ![j] = "cancelled"]
  /\ cancelRequested' = [cancelRequested EXCEPT ![j] = TRUE]
  /\ version' = FinishVersion(j, "cancelled")
  /\ UNCHANGED <<current, generation, base, fence>>

\* _fail_locked; `outcome` is the state the live attempt is left in.
FailLocked(j, outcome) ==
  /\ attempts' = Retire(j, current[j], outcome)
  /\ state' = [state EXCEPT ![j] = "failed"]
  /\ version' = FinishVersion(j, "failed")
  /\ UNCHANGED <<current, generation, cancelRequested, base, fence>>

\* Mutant of Owns: the repository row is locked but not compared.
OwnsUnfenced(j, g, now) ==
  /\ state[j] = "running"
  /\ current[j] = g
  /\ generation[j] = g
  /\ attempts[j][g].state = "running"
  /\ attempts[j][g].expires > now

\* The predicate of _lock_owned_lease, without the cancellation flag.
Owns(j, g, now) ==
  /\ state[j] = "running"
  /\ current[j] = g
  /\ generation[j] = g
  /\ fence[j] = repoGeneration
  /\ attempts[j][g].state = "running"
  /\ attempts[j][g].expires > now
  /\ repoOpen

\* Mutant of OwnsUncancelled: the durable cancellation flag is not read.
OwnsRegardless(j, g, now) == Owns(j, g, now)

OwnsUncancelled(j, g, now) ==
  /\ ~cancelRequested[j]
  /\ Owns(j, g, now)

---------------------------------------------------------------------------
(* Commands of submitters and operators. *)

\* submit: uq_index_jobs_one_active rejects a second unfinished job, and the
\* base version must be a row of this repository.
Submit(j, b, gen) ==
  /\ state[j] = "absent"
  /\ \A k \in Jobs : state[k] \notin Unfinished
  /\ b # None => version[b] # "absent"
  /\ state' = [state EXCEPT ![j] = "queued"]
  /\ base' = [base EXCEPT ![j] = b]
  /\ fence' = [fence EXCEPT ![j] = gen]
  /\ version' = [version EXCEPT ![j] = "building"]
  /\ UNCHANGED <<current, generation, cancelRequested, attempts, repoVars, clock>>

\* request_cancellation of a job no worker holds ends it at once.
RequestCancellationQueued(j) ==
  /\ state[j] = "queued"
  /\ CancelLocked(j)
  /\ UNCHANGED <<repoVars, clock>>

\* request_cancellation of a running job leaves a durable flag for its worker.
RequestCancellationRunning(j) ==
  /\ state[j] = "running"
  /\ cancelRequested' = [cancelRequested EXCEPT ![j] = TRUE]
  /\ UNCHANGED <<state, current, generation, base, fence, attempts, version, repoVars, clock>>

\* The repository stops accepting its jobs.  The commands check this fence;
\* the row is written by code outside the store.
FenceRepository ==
  /\ repoOpen
  /\ repoOpen' = FALSE
  /\ repoGeneration' = repoGeneration + 1
  /\ UNCHANGED <<jobVars, attempts, version, active, clock>>

---------------------------------------------------------------------------
(* claim: the branches in the order the code tries them. *)

FencedOff(j) == ~repoOpen \/ repoGeneration # fence[j]

LeaseHeld(j, now) ==
  /\ state[j] = "running"
  /\ current[j] # 0
  /\ attempts[j][current[j]].expires > now

Claimable(j, now) ==
  /\ state[j] \in Unfinished
  /\ ~cancelRequested[j]
  /\ ~FencedOff(j)
  /\ ~LeaseHeld(j, now)

\* An attempt whose lease ran out is closed before anything replaces it.
CloseExpired(j) ==
  IF state[j] = "running" THEN Retire(j, current[j], "lease_lost") ELSE attempts

ClaimCancelled(j) ==
  /\ state[j] \in Unfinished
  /\ cancelRequested[j]
  /\ CancelLocked(j)
  /\ UNCHANGED <<repoVars, clock>>

ClaimFenced(j) ==
  /\ state[j] \in Unfinished
  /\ ~cancelRequested[j]
  /\ FencedOff(j)
  /\ FailLocked(j, "failed")
  /\ UNCHANGED <<repoVars, clock>>

BudgetLeft(j) == Len(attempts[j]) < MaxAttempts

ClaimExhausted(j, now) ==
  /\ Claimable(j, now)
  /\ ~BudgetLeft(j)
  /\ FailLocked(j, "lease_lost")
  /\ UNCHANGED <<repoVars, clock>>

ClaimLease(j, now) ==
  /\ Claimable(j, now)
  /\ BudgetLeft(j)
  /\ attempts' = [attempts EXCEPT ![j] =
       Append(CloseExpired(j)[j], [state |-> "running", expires |-> now + LeaseSeconds])]
  /\ state' = [state EXCEPT ![j] = "running"]
  /\ current' = [current EXCEPT ![j] = generation[j] + 1]
  /\ generation' = [generation EXCEPT ![j] = generation[j] + 1]
  /\ UNCHANGED <<cancelRequested, base, fence, version, repoVars, clock>>

---------------------------------------------------------------------------
(* Commands of the holder of a lease (j, g).  A predicate that fails raises *)
(* and rolls back, so those commands are the disabled cases.                *)

Heartbeat(j, g, now) ==
  /\ OwnsUncancelled(j, g, now)
  /\ attempts' = [attempts EXCEPT ![j][g].expires = now + LeaseSeconds]
  /\ UNCHANGED <<jobVars, version, repoVars, clock>>

Complete(j, g, now) ==
  /\ OwnsUncancelled(j, g, now)
  /\ attempts' = [attempts EXCEPT ![j][g].state = "succeeded"]
  /\ state' = [state EXCEPT ![j] = "succeeded"]
  /\ UNCHANGED <<current, generation, cancelRequested, base, fence, version, repoVars, clock>>

\* Mutant of FailRetry: the budget test is off by one.
FailRetryOffByOne(j, g, now) ==
  /\ OwnsUncancelled(j, g, now)
  /\ g <= MaxAttempts
  /\ attempts' = [attempts EXCEPT ![j][g].state = "failed"]
  /\ state' = [state EXCEPT ![j] = "queued"]
  /\ current' = [current EXCEPT ![j] = 0]
  /\ UNCHANGED <<generation, cancelRequested, base, fence, version, repoVars, clock>>

\* fail, when another delivery is to be queued.
FailRetry(j, g, now) ==
  /\ OwnsUncancelled(j, g, now)
  /\ g < MaxAttempts
  /\ attempts' = [attempts EXCEPT ![j][g].state = "failed"]
  /\ state' = [state EXCEPT ![j] = "queued"]
  /\ current' = [current EXCEPT ![j] = 0]
  /\ UNCHANGED <<generation, cancelRequested, base, fence, version, repoVars, clock>>

\* fail, for a permanent error or on the last attempt.
FailFinal(j, g, now) ==
  /\ OwnsUncancelled(j, g, now)
  /\ FailLocked(j, "failed")
  /\ UNCHANGED <<repoVars, clock>>

\* cancel: acknowledges a durable request while the lease is still owned.
CancelOwned(j, g, now) ==
  /\ cancelRequested[j]
  /\ Owns(j, g, now)
  /\ CancelLocked(j)
  /\ UNCHANGED <<repoVars, clock>>

\* The expected previous version is still the active one.
BaseIsActive(j) ==
  /\ active = base[j]
  /\ base[j] # None => version[base[j]] = "active"

\* Mutant of Switched: the previous version is not superseded.
SwitchedOnly(j) == [version EXCEPT ![j] = "active"]

Switched(j) ==
  [v \in Jobs |-> IF v = j THEN "active"
                  ELSE IF v = base[j] THEN "superseded" ELSE version[v]]

\* Mutant of Activate: the pointer moves to the candidate whatever it was.
ActivateUnconditionally(j, g, now) ==
  /\ OwnsUncancelled(j, g, now)
  /\ version[j] = "building"
  /\ version' = Switched(j)
  /\ active' = j
  /\ attempts' = [attempts EXCEPT ![j][g].state = "succeeded"]
  /\ state' = [state EXCEPT ![j] = "succeeded"]
  /\ UNCHANGED <<current, generation, cancelRequested, base, fence,
                 repoOpen, repoGeneration, clock>>

\* activate: the fence, the candidate's lifecycle and the expected previous
\* version are checked under lock; then the pointer, both versions, the attempt
\* and the job change together.  The artifact comparison is data that this
\* module leaves out: it may succeed or raise in any state.
Activate(j, g, now) ==
  /\ OwnsUncancelled(j, g, now)
  /\ version[j] = "building"
  /\ BaseIsActive(j)
  /\ version' = Switched(j)
  /\ active' = j
  /\ attempts' = [attempts EXCEPT ![j][g].state = "succeeded"]
  /\ state' = [state EXCEPT ![j] = "succeeded"]
  /\ UNCHANGED <<current, generation, cancelRequested, base, fence,
                 repoOpen, repoGeneration, clock>>

---------------------------------------------------------------------------

Tick ==
  /\ clock < MaxClock
  /\ clock' = clock + 1
  /\ UNCHANGED <<jobVars, attempts, version, repoVars>>

LeaseCommand(j, g, now) ==
  \/ Heartbeat(j, g, now)
  \/ Complete(j, g, now)
  \/ FailRetry(j, g, now)
  \/ FailFinal(j, g, now)
  \/ CancelOwned(j, g, now)
  \/ Activate(j, g, now)

JobCommand(j) ==
  \/ \E b \in Jobs \cup {None}, gen \in 0..repoGeneration : Submit(j, b, gen)
  \/ RequestCancellationQueued(j)
  \/ RequestCancellationRunning(j)
  \/ ClaimCancelled(j)
  \/ ClaimFenced(j)
  \/ \E now \in Instants : ClaimExhausted(j, now) \/ ClaimLease(j, now)
  \/ \E g \in DOMAIN attempts[j], now \in Instants : LeaseCommand(j, g, now)

Next ==
  \/ \E j \in Jobs : JobCommand(j)
  \/ FenceRepository
  \/ Tick

Spec == Init /\ [][Next]_vars

---------------------------------------------------------------------------
(* What the store guarantees, whoever calls it and whenever. *)

\* Lease fencing: a live attempt is the current one of a running job, so a job
\* never has two, and the worker of any other attempt is refused (claim and
\* _lock_owned_lease).
SingleAuthority ==
  \A j \in Jobs : \A g \in DOMAIN attempts[j] :
    attempts[j][g].state = "running" =>
      state[j] = "running" /\ current[j] = g /\ generation[j] = g

\* Retry budget: fail compares the lease generation and claim counts attempt
\* rows; the two agree, so a job that was queued again can be claimed again and
\* no job gets more than MaxAttempts attempts.
RetryKeepsBudget ==
  \A j \in Jobs :
    /\ Len(attempts[j]) <= MaxAttempts
    /\ state[j] = "queued" => Len(attempts[j]) < MaxAttempts

\* The rows of job_attempts, the lease generation and the state of the job tell the
\* same story of who may write, and for how many more attempts.
Authority == SingleAuthority /\ RetryKeepsBudget

\* A published version belongs to a job that succeeded, and the version of a
\* failed or cancelled job is closed (activate, _fail_locked, _cancel_locked).
CandidateOutcome ==
  \A j \in Jobs :
    /\ version[j] \in {"active", "superseded"} => state[j] = "succeeded"
    /\ state[j] \in {"failed", "cancelled"} => version[j] \in {"failed", "cancelled"}

\* The repository's pointer and the lifecycles of the versions agree: activate
\* changes them together (uq_index_versions_one_active backs it up).
OneActiveVersion ==
  \A v \in Jobs : version[v] = "active" <=> active = v

\* The three tables agree on what is published: the version rows, the outcome of
\* their jobs and the pointer of the repository.
Publication == CandidateOutcome /\ OneActiveVersion

\* A cancellation recorded before the job ended is never overtaken: the job
\* does not succeed and its version is not published.
CancellationWins ==
  \A j \in Jobs : cancelRequested[j] =>
    /\ state[j] # "succeeded"
    /\ version[j] \notin {"active", "superseded"}

\* The outcome of a job, with every attempt that led to it, is final, whichever
\* stale lease or redelivered message comes later.
TerminalStays ==
  [][\A j \in Jobs : state[j] \in Terminal =>
       state'[j] = state[j] /\ attempts'[j] = attempts[j]
                           /\ cancelRequested'[j] = cancelRequested[j]]_vars

\* A worker loses a lease to another delivery only after the lease it was
\* granted, as extended by its heartbeats, has run out.
NoEarlyTakeover ==
  [][\A j \in Jobs : \A g \in DOMAIN attempts[j] :
       attempts[j][g].state = "running" /\ attempts'[j][g].state = "lease_lost"
         => attempts[j][g].expires <= clock]_vars

PublishedVersions == {v \in Jobs : version[v] \in {"active", "superseded"}}

\* The versions ever published form one line: each was built on another of them or
\* is the first, no two on the same, and those something was built on are the ones
\* that are superseded.  Candidates of different ages that name the same base, or
\* one that was replaced while they were built, never fork the history
\* (EXPECTED_ACTIVE_VERSION_CHANGED in activate).
HistoryIsOneLine ==
  /\ active = None => PublishedVersions = {}
  /\ \A v \in PublishedVersions : base[v] \in (PublishedVersions \ {v}) \cup {None}
  /\ \A v, w \in PublishedVersions : base[v] = base[w] => v = w
  /\ \A v \in PublishedVersions :
       version[v] = "superseded" <=> \E w \in PublishedVersions : base[w] = v

\* A repository that stopped accepting jobs publishes nothing more, grants no
\* lease and lets no job succeed, also to a worker that holds a live lease.
FenceHolds ==
  [][~repoOpen =>
       /\ active' = active
       /\ \A j \in Jobs : Len(attempts'[j]) = Len(attempts[j])
       /\ \A j \in Jobs : state'[j] = "succeeded" => state[j] = "succeeded"]_vars

\* What a stale writer can no longer do: reopen what is concluded, take a live lease
\* over, or publish in a repository that is closed.
Fencing == TerminalStays /\ NoEarlyTakeover /\ FenceHolds

---------------------------------------------------------------------------
(* The inductive strengthening of the invariants above. *)

\* Generations number the attempt rows, and a running job points at the last one.
AttemptNumbering ==
  \A j \in Jobs :
    /\ generation[j] = Len(attempts[j])
    /\ state[j] = "running" => current[j] = generation[j] /\ generation[j] > 0
    /\ state[j] = "absent" => generation[j] = 0

\* The candidate of an unfinished job is still being built.
CandidateOpen ==
  \A j \in Jobs :
    /\ state[j] \in Unfinished => version[j] = "building"
    /\ state[j] = "absent" => version[j] = "absent" /\ ~cancelRequested[j]

\* A durable cancellation request is pending or was honoured.
CancellationPending ==
  \A j \in Jobs : cancelRequested[j] => state[j] \in {"running", "cancelled"}

StoreInvariant ==
  /\ TypeOK
  /\ AttemptNumbering
  /\ SingleAuthority
  /\ RetryKeepsBudget
  /\ CandidateOpen
  /\ CandidateOutcome
  /\ OneActiveVersion
  /\ CancellationPending

---------------------------------------------------------------------------
(* The promise, as an abstract specification. *)

Outcome(j) ==
  IF state[j] = "absent" THEN "none"
  ELSE IF state[j] \in Unfinished THEN "pending" ELSE state[j]

Abstract == INSTANCE IndexJobs WITH
  outcome   <- [j \in Jobs |-> Outcome(j)],
  wanted    <- {j \in Jobs : cancelRequested[j]},
  builtOn   <- base,
  published <- active,
  retired   <- {v \in Jobs : version[v] = "superseded"}

\* Attempts, leases, retries, fences and time are invisible to submitters: every
\* command is one step of IndexJobs or leaves its state alone.
ImplementsIndexJobs == Abstract!Spec
=============================================================================
