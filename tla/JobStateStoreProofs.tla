------------------------ MODULE JobStateStoreProofs ------------------------
(***************************************************************************)
(* Proofs about JobStateStore for any jobs, budget, lease and clock bound, *)
(* and about the activation that is built on it, IndexActivation, for any  *)
(* artifact types, candidates and mandatory capabilities.                  *)
(***************************************************************************)
EXTENDS IndexActivation, FiniteSetTheorems, TLAPS

USE NoneAssumption, AttemptAssumption, LeaseAssumption, ClockAssumption

\* Changing the state of one attempt keeps every other attempt, and the length.
LEMMA SetStateLemma ==
  ASSUME attempts \in [Jobs -> Seq(Attempt)], NEW j \in Jobs,
         NEW g \in DOMAIN attempts[j], NEW o \in AttemptState
  PROVE  LET new == [attempts EXCEPT ![j][g].state = o] IN
         /\ new \in [Jobs -> Seq(Attempt)]
         /\ \A k \in Jobs : Len(new[k]) = Len(attempts[k])
         /\ \A k \in Jobs : k # j => new[k] = attempts[k]
         /\ \A h \in DOMAIN attempts[j] : h # g => new[j][h] = attempts[j][h]
         /\ new[j][g].state = o
         /\ new[j][g].expires = attempts[j][g].expires
  <1> DEFINE row == [attempts[j][g] EXCEPT !.state = o]
             held == [attempts[j] EXCEPT ![g] = row]
             new == [attempts EXCEPT ![j] = held]
  <1>1. attempts[j] \in Seq(Attempt)
    OBVIOUS
  <1>2. attempts[j][g] \in Attempt
    BY <1>1
  <1>3. row \in Attempt /\ row.state = o /\ row.expires = attempts[j][g].expires
    BY <1>2 DEF Attempt
  <1>4. /\ held \in Seq(Attempt)
        /\ Len(held) = Len(attempts[j])
        /\ held[g] = row
        /\ \A h \in DOMAIN attempts[j] : h # g => held[h] = attempts[j][h]
    <2> HIDE DEF row
    <2> QED BY <1>1, <1>3
  <1>5. /\ new \in [Jobs -> Seq(Attempt)]
        /\ new[j] = held
        /\ \A k \in Jobs : k # j => new[k] = attempts[k]
    <2> HIDE DEF held
    <2> QED BY <1>4
  <1>6. new = [attempts EXCEPT ![j][g].state = o]
    OBVIOUS
  <1> HIDE DEF new, held, row
  <1> QED BY <1>3, <1>4, <1>5, <1>6

\* The commands that end job j's live attempt leave none of its attempts running.
Ended(j) ==
  /\ attempts' \in [Jobs -> Seq(Attempt)]
  /\ \A k \in Jobs : Len(attempts'[k]) = Len(attempts[k])
  /\ \A k \in Jobs : k # j => attempts'[k] = attempts[k]
  /\ \A h \in DOMAIN attempts'[j] : attempts'[j][h].state # "running"

LEMMA SetEnds ==
  ASSUME StoreInvariant, NEW j \in Jobs, NEW g \in DOMAIN attempts[j],
         current[j] = g, NEW o \in AttemptState \ {"running"},
         attempts' = [attempts EXCEPT ![j][g].state = o]
  PROVE  Ended(j)
  <1>1. attempts \in [Jobs -> Seq(Attempt)]
    BY DEF StoreInvariant, TypeOK
  <1>2. /\ attempts' \in [Jobs -> Seq(Attempt)]
        /\ \A k \in Jobs : Len(attempts'[k]) = Len(attempts[k])
        /\ \A k \in Jobs : k # j => attempts'[k] = attempts[k]
        /\ \A h \in DOMAIN attempts[j] : h # g => attempts'[j][h] = attempts[j][h]
        /\ attempts'[j][g].state = o
    BY <1>1, SetStateLemma
  <1>3. DOMAIN attempts'[j] = DOMAIN attempts[j]
    BY <1>1, <1>2
  <1>4. \A h \in DOMAIN attempts[j] : h # g => attempts[j][h].state # "running"
    BY DEF StoreInvariant, SingleAuthority
  <1> QED BY <1>2, <1>3, <1>4 DEF Ended

LEMMA RetireEnds ==
  ASSUME StoreInvariant, NEW j \in Jobs, NEW o \in AttemptState \ {"running"},
         attempts' = Retire(j, current[j], o)
  PROVE  Ended(j)
  <1>1. CASE current[j] \in DOMAIN attempts[j] /\ attempts[j][current[j]].state = "running"
    BY <1>1, SetEnds DEF Retire
  <1>2. CASE ~(current[j] \in DOMAIN attempts[j] /\ attempts[j][current[j]].state = "running")
    <2>1. attempts' = attempts
      BY <1>2 DEF Retire
    <2>2. \A h \in DOMAIN attempts[j] : attempts[j][h].state # "running"
      BY <1>2 DEF StoreInvariant, SingleAuthority
    <2> QED BY <2>1, <2>2 DEF Ended, StoreInvariant, TypeOK
  <1> QED BY <1>1, <1>2

\* Job j ends as failed or cancelled, and its candidate with it.
LEMMA EndPreserves ==
  ASSUME StoreInvariant, NEW j \in Jobs, Ended(j),
         state[j] \in Unfinished,
         NEW o \in {"failed", "cancelled"},
         state' = [state EXCEPT ![j] = o],
         version' = FinishVersion(j, o),
         \/ cancelRequested' = cancelRequested /\ (o = "failed" => ~cancelRequested[j])
         \/ o = "cancelled" /\ cancelRequested' = [cancelRequested EXCEPT ![j] = TRUE],
         UNCHANGED <<current, generation, base, fence, repoVars, clock>>
  PROVE  StoreInvariant'
  <1> USE DEF StoreInvariant
  <1>1. version' = [version EXCEPT ![j] = o]
    BY DEF FinishVersion, CandidateOpen, Unfinished
  <1>2. TypeOK'
    BY <1>1 DEF TypeOK, Ended, JobState, Terminal, VersionState, repoVars
  <1>3. AttemptNumbering' /\ RetryKeepsBudget'
    BY DEF AttemptNumbering, RetryKeepsBudget, TypeOK, Ended
  <1>4. SingleAuthority'
    BY DEF SingleAuthority, TypeOK, Ended
  <1>5. CandidateOpen' /\ CandidateOutcome' /\ OneActiveVersion'
    BY <1>1 DEF CandidateOpen, CandidateOutcome, OneActiveVersion, TypeOK, Unfinished, repoVars
  <1>6. CancellationPending'
    BY DEF CancellationPending, TypeOK
  <1> QED BY <1>2, <1>3, <1>4, <1>5, <1>6

---------------------------------------------------------------------------

LEMMA InitInvariant == Init => StoreInvariant
  BY DEF Init, StoreInvariant, TypeOK, AttemptNumbering, SingleAuthority, RetryKeepsBudget,
         CandidateOpen, CandidateOutcome, OneActiveVersion, CancellationPending,
         JobState, Unfinished, Terminal, VersionState

LEMMA SubmitPreserves ==
  ASSUME StoreInvariant, NEW j \in Jobs, NEW b \in Jobs \cup {None},
         NEW gen \in 0..repoGeneration, Submit(j, b, gen)
  PROVE  StoreInvariant'
  <1> USE DEF StoreInvariant, Submit, repoVars
  <1>1. TypeOK'
    BY DEF TypeOK, JobState, Unfinished, VersionState
  <1>2. AttemptNumbering' /\ SingleAuthority' /\ RetryKeepsBudget'
    BY DEF AttemptNumbering, SingleAuthority, RetryKeepsBudget, TypeOK
  <1>3. CandidateOpen' /\ CandidateOutcome' /\ OneActiveVersion' /\ CancellationPending'
    BY DEF CandidateOpen, CandidateOutcome, OneActiveVersion, CancellationPending,
           TypeOK, Unfinished
  <1> QED BY <1>1, <1>2, <1>3

LEMMA RequestPreserves ==
  ASSUME StoreInvariant, NEW j \in Jobs, RequestCancellationRunning(j)
  PROVE  StoreInvariant'
  BY DEF StoreInvariant, RequestCancellationRunning, repoVars, TypeOK, AttemptNumbering,
         SingleAuthority, RetryKeepsBudget, CandidateOpen, CandidateOutcome,
         OneActiveVersion, CancellationPending, Unfinished

LEMMA CancelPreserves ==
  ASSUME StoreInvariant, NEW j \in Jobs, state[j] \in Unfinished,
         CancelLocked(j), UNCHANGED <<repoVars, clock>>
  PROVE  StoreInvariant'
  <1>1. Ended(j)
    BY RetireEnds DEF CancelLocked, AttemptState
  <1> QED BY <1>1, EndPreserves DEF CancelLocked

LEMMA FailPreserves ==
  ASSUME StoreInvariant, NEW j \in Jobs, state[j] \in Unfinished, ~cancelRequested[j],
         NEW o \in {"failed", "lease_lost"}, FailLocked(j, o), UNCHANGED <<repoVars, clock>>
  PROVE  StoreInvariant'
  <1>1. Ended(j)
    BY RetireEnds DEF FailLocked, AttemptState
  <1> QED BY <1>1, EndPreserves DEF FailLocked

LEMMA ClaimLeasePreserves ==
  ASSUME StoreInvariant, NEW j \in Jobs, NEW now \in Instants, ClaimLease(j, now)
  PROVE  StoreInvariant'
  <1> DEFINE closed == CloseExpired(j)
             row == [state |-> "running", expires |-> now + LeaseSeconds]
  <1>1. /\ closed \in [Jobs -> Seq(Attempt)]
        /\ Len(closed[j]) = Len(attempts[j])
        /\ \A h \in DOMAIN closed[j] : closed[j][h].state # "running"
    <2>1. CASE current[j] \in DOMAIN attempts[j] /\ attempts[j][current[j]].state = "running"
      <3>1. state[j] = "running"
        BY <2>1 DEF StoreInvariant, SingleAuthority
      <3>2. closed = [attempts EXCEPT ![j][current[j]].state = "lease_lost"]
        BY <2>1, <3>1 DEF CloseExpired, Retire
      <3>3. attempts \in [Jobs -> Seq(Attempt)]
        BY DEF StoreInvariant, TypeOK
      <3>4. /\ closed \in [Jobs -> Seq(Attempt)]
            /\ Len(closed[j]) = Len(attempts[j])
            /\ \A h \in DOMAIN attempts[j] : h # current[j] => closed[j][h] = attempts[j][h]
            /\ closed[j][current[j]].state = "lease_lost"
        <4>1. "lease_lost" \in AttemptState
          BY DEF AttemptState
        <4> HIDE DEF closed
        <4> QED BY <2>1, <3>2, <3>3, <4>1, SetStateLemma
      <3>5. \A h \in DOMAIN attempts[j] : h # current[j] => attempts[j][h].state # "running"
        BY DEF StoreInvariant, SingleAuthority
      <3>6. DOMAIN closed[j] = DOMAIN attempts[j]
        BY <3>3, <3>4
      <3> HIDE DEF closed
      <3> QED BY <3>4, <3>5, <3>6
    <2>2. CASE ~(current[j] \in DOMAIN attempts[j] /\ attempts[j][current[j]].state = "running")
      <3>1. closed = attempts
        BY <2>2 DEF CloseExpired, Retire
      <3> QED BY <2>2, <3>1 DEF StoreInvariant, SingleAuthority, TypeOK
    <2> QED BY <2>1, <2>2
  <1>2. row \in Attempt
    BY DEF Attempt, AttemptState, Instants, StoreInvariant, TypeOK
  <1>3. attempts' = [attempts EXCEPT ![j] = Append(closed[j], row)]
    BY DEF ClaimLease
  <1>4. /\ attempts' \in [Jobs -> Seq(Attempt)]
        /\ Len(attempts'[j]) = Len(attempts[j]) + 1
        /\ \A k \in Jobs : k # j => attempts'[k] = attempts[k]
        /\ \A h \in DOMAIN attempts'[j] :
             attempts'[j][h].state = "running" => h = Len(attempts[j]) + 1
    <2> HIDE DEF closed, row
    <2>1. attempts \in [Jobs -> Seq(Attempt)]
      BY DEF StoreInvariant, TypeOK
    <2> QED BY <1>1, <1>2, <1>3, <2>1
  <1> HIDE DEF closed, row
  <1>5. /\ state' = [state EXCEPT ![j] = "running"]
        /\ current' = [current EXCEPT ![j] = generation[j] + 1]
        /\ generation' = [generation EXCEPT ![j] = generation[j] + 1]
        /\ UNCHANGED <<cancelRequested, base, fence, version, clock>>
        /\ UNCHANGED <<active, repoOpen, repoGeneration>>
        /\ state[j] \in Unfinished /\ ~cancelRequested[j]
        /\ Len(attempts[j]) < MaxAttempts
    BY DEF ClaimLease, Claimable, BudgetLeft, repoVars
  <1> USE DEF StoreInvariant
  <1>6. TypeOK'
    <2>1. state' \in [Jobs -> JobState]
      BY <1>5 DEF TypeOK, JobState, Unfinished
    <2>2. current' \in [Jobs -> Nat] /\ generation' \in [Jobs -> Nat]
      BY <1>5 DEF TypeOK
    <2>3. attempts' \in [Jobs -> Seq(Attempt)]
      BY <1>4
    <2> QED BY <1>5, <2>1, <2>2, <2>3 DEF TypeOK
  <1>7. AttemptNumbering'
    <2> SUFFICES ASSUME NEW k \in Jobs
                 PROVE  /\ generation'[k] = Len(attempts'[k])
                        /\ state'[k] = "running" => current'[k] = generation'[k] /\ generation'[k] > 0
                        /\ state'[k] = "absent" => generation'[k] = 0
      BY DEF AttemptNumbering
    <2>1. CASE k = j
      BY <1>4, <1>5, <2>1 DEF AttemptNumbering, TypeOK
    <2>2. CASE k # j
      BY <1>4, <1>5, <2>2 DEF AttemptNumbering, TypeOK
    <2> QED BY <2>1, <2>2
  <1>8. SingleAuthority'
    <2> SUFFICES ASSUME NEW k \in Jobs, NEW h \in DOMAIN attempts'[k],
                        attempts'[k][h].state = "running"
                 PROVE  state'[k] = "running" /\ current'[k] = h /\ generation'[k] = h
      BY DEF SingleAuthority
    <2>1. CASE k = j
      BY <1>4, <1>5, <2>1 DEF AttemptNumbering, TypeOK
    <2>2. CASE k # j
      BY <1>4, <1>5, <2>2 DEF SingleAuthority, TypeOK
    <2> QED BY <2>1, <2>2
  <1>9. RetryKeepsBudget'
    BY <1>4, <1>5 DEF RetryKeepsBudget, TypeOK
  <1>10. CandidateOpen' /\ CandidateOutcome' /\ OneActiveVersion' /\ CancellationPending'
    BY <1>5 DEF CandidateOpen, CandidateOutcome, OneActiveVersion, CancellationPending,
           TypeOK, Unfinished
  <1> QED BY <1>6, <1>7, <1>8, <1>9, <1>10

LEMMA HeartbeatPreserves ==
  ASSUME StoreInvariant, NEW j \in Jobs, NEW g \in DOMAIN attempts[j],
         NEW now \in Instants, Heartbeat(j, g, now)
  PROVE  StoreInvariant'
  <1> DEFINE row == [attempts[j][g] EXCEPT !.expires = now + LeaseSeconds]
             held == [attempts[j] EXCEPT ![g] = row]
  <1>1. attempts' = [attempts EXCEPT ![j] = held]
    BY DEF Heartbeat
  <1>2. attempts \in [Jobs -> Seq(Attempt)] /\ attempts[j] \in Seq(Attempt)
    BY DEF StoreInvariant, TypeOK
  <1>3. row \in Attempt /\ row.state = attempts[j][g].state
    <2>1. attempts[j][g] \in Attempt
      BY <1>2
    <2>2. now + LeaseSeconds \in Nat
      BY DEF Instants, StoreInvariant, TypeOK
    <2> QED BY <2>1, <2>2 DEF Attempt
  <1>4. /\ held \in Seq(Attempt) /\ Len(held) = Len(attempts[j])
        /\ DOMAIN held = DOMAIN attempts[j]
        /\ \A h \in DOMAIN attempts[j] : held[h].state = attempts[j][h].state
    <2> HIDE DEF row
    <2> QED BY <1>2, <1>3
  <1> HIDE DEF row, held
  <1>5. /\ attempts' \in [Jobs -> Seq(Attempt)]
        /\ \A k \in Jobs : Len(attempts'[k]) = Len(attempts[k])
        /\ \A k \in Jobs : DOMAIN attempts'[k] = DOMAIN attempts[k]
        /\ \A k \in Jobs : \A h \in DOMAIN attempts[k] :
             attempts'[k][h].state = attempts[k][h].state
    BY <1>1, <1>2, <1>4
  <1> USE DEF StoreInvariant, Heartbeat, jobVars, repoVars
  <1>6. TypeOK'
    BY <1>5 DEF TypeOK
  <1>7. AttemptNumbering' /\ RetryKeepsBudget'
    BY <1>5 DEF AttemptNumbering, RetryKeepsBudget
  <1>8. SingleAuthority'
    BY <1>5 DEF SingleAuthority
  <1>9. CandidateOpen' /\ CandidateOutcome' /\ OneActiveVersion' /\ CancellationPending'
    BY DEF CandidateOpen, CandidateOutcome, OneActiveVersion, CancellationPending
  <1> QED BY <1>6, <1>7, <1>8, <1>9

\* A lease that passes the predicate is the current one of its job.
LEMMA CompletePreserves ==
  ASSUME StoreInvariant, NEW j \in Jobs, NEW g \in DOMAIN attempts[j],
         NEW now \in Instants, Complete(j, g, now)
  PROVE  StoreInvariant'
  <1>1. Ended(j)
    <2>1. current[j] = g /\ attempts' = [attempts EXCEPT ![j][g].state = "succeeded"]
      BY DEF Complete, OwnsUncancelled, Owns
    <2>2. "succeeded" \in AttemptState \ {"running"}
      BY DEF AttemptState
    <2> QED BY <2>1, <2>2, SetEnds
  <1>2. /\ state[j] = "running" /\ ~cancelRequested[j]
        /\ state' = [state EXCEPT ![j] = "succeeded"]
        /\ UNCHANGED <<current, generation, cancelRequested, base, fence, version, clock>>
        /\ UNCHANGED <<active, repoOpen, repoGeneration>>
    BY DEF Complete, OwnsUncancelled, Owns, repoVars
  <1> USE DEF StoreInvariant
  <1>3. TypeOK'
    BY <1>1, <1>2 DEF TypeOK, Ended, JobState, Terminal
  <1>4. AttemptNumbering' /\ RetryKeepsBudget'
    BY <1>1, <1>2 DEF AttemptNumbering, RetryKeepsBudget, TypeOK, Ended
  <1>5. SingleAuthority'
    BY <1>1, <1>2 DEF SingleAuthority, TypeOK, Ended
  <1>6. CandidateOpen' /\ CandidateOutcome' /\ OneActiveVersion' /\ CancellationPending'
    BY <1>2 DEF CandidateOpen, CandidateOutcome, OneActiveVersion, CancellationPending,
           TypeOK, Unfinished
  <1> QED BY <1>3, <1>4, <1>5, <1>6

LEMMA FailRetryPreserves ==
  ASSUME StoreInvariant, NEW j \in Jobs, NEW g \in DOMAIN attempts[j],
         NEW now \in Instants, FailRetry(j, g, now)
  PROVE  StoreInvariant'
  <1>1. Ended(j)
    <2>1. current[j] = g /\ attempts' = [attempts EXCEPT ![j][g].state = "failed"]
      BY DEF FailRetry, OwnsUncancelled, Owns
    <2>2. "failed" \in AttemptState \ {"running"}
      BY DEF AttemptState
    <2> QED BY <2>1, <2>2, SetEnds
  <1>2. /\ state[j] = "running" /\ generation[j] = g /\ g < MaxAttempts
        /\ ~cancelRequested[j]
        /\ state' = [state EXCEPT ![j] = "queued"]
        /\ current' = [current EXCEPT ![j] = 0]
        /\ UNCHANGED <<generation, cancelRequested, base, fence, version, clock>>
        /\ UNCHANGED <<active, repoOpen, repoGeneration>>
    BY DEF FailRetry, OwnsUncancelled, Owns, repoVars
  <1> USE DEF StoreInvariant
  <1>3. TypeOK'
    BY <1>1, <1>2 DEF TypeOK, Ended, JobState, Unfinished
  <1>4. AttemptNumbering' /\ RetryKeepsBudget'
    BY <1>1, <1>2 DEF AttemptNumbering, RetryKeepsBudget, TypeOK, Ended
  <1>5. SingleAuthority'
    BY <1>1, <1>2 DEF SingleAuthority, TypeOK, Ended
  <1>6. CandidateOpen' /\ CandidateOutcome' /\ OneActiveVersion' /\ CancellationPending'
    BY <1>2 DEF CandidateOpen, CandidateOutcome, OneActiveVersion, CancellationPending,
           TypeOK, Unfinished
  <1> QED BY <1>3, <1>4, <1>5, <1>6

LEMMA ActivatePreserves ==
  ASSUME StoreInvariant, NEW j \in Jobs, NEW g \in DOMAIN attempts[j],
         NEW now \in Instants, Activate(j, g, now)
  PROVE  StoreInvariant'
  <1>1. Ended(j)
    <2>1. current[j] = g /\ attempts' = [attempts EXCEPT ![j][g].state = "succeeded"]
      BY DEF Activate, OwnsUncancelled, Owns
    <2>2. "succeeded" \in AttemptState \ {"running"}
      BY DEF AttemptState
    <2> QED BY <2>1, <2>2, SetEnds
  <1>2. /\ state[j] = "running" /\ ~cancelRequested[j] /\ version[j] = "building"
        /\ active = base[j] /\ (base[j] # None => version[base[j]] = "active")
        /\ state' = [state EXCEPT ![j] = "succeeded"]
        /\ active' = j
        /\ UNCHANGED <<current, generation, cancelRequested, base, fence, clock>>
        /\ UNCHANGED <<repoOpen, repoGeneration>>
    BY DEF Activate, OwnsUncancelled, Owns, BaseIsActive
  <1>3. /\ version' \in [Jobs -> VersionState]
        /\ version'[j] = "active"
        /\ \A v \in Jobs : v # j => version'[v] = IF v = base[j] THEN "superseded" ELSE version[v]
    <2>1. version' = Switched(j)
      BY DEF Activate
    <2> QED BY <2>1 DEF Switched, StoreInvariant, TypeOK, VersionState
  <1> USE DEF StoreInvariant
  <1>4. TypeOK'
    BY <1>1, <1>2, <1>3 DEF TypeOK, Ended, JobState, Terminal
  <1>5. AttemptNumbering' /\ RetryKeepsBudget'
    BY <1>1, <1>2 DEF AttemptNumbering, RetryKeepsBudget, TypeOK, Ended
  <1>6. SingleAuthority'
    BY <1>1, <1>2 DEF SingleAuthority, TypeOK, Ended
  <1>7. CandidateOpen' /\ CandidateOutcome'
    <2>1. \A v \in Jobs : v # j => state'[v] = state[v]
      BY <1>2 DEF TypeOK
    <2>2. state'[j] = "succeeded"
      BY <1>2 DEF TypeOK
    <2>3. \A v \in Jobs : v = base[j] => state[v] = "succeeded"
      BY <1>2 DEF CandidateOutcome
    <2>4. CandidateOpen'
      BY <1>2, <1>3, <2>1, <2>2, <2>3 DEF CandidateOpen, Unfinished
    <2>5. CandidateOutcome'
      BY <1>3, <2>1, <2>2, <2>3 DEF CandidateOutcome
    <2> QED BY <2>4, <2>5
  <1>8. OneActiveVersion'
    <2>1. \A v \in Jobs : version[v] = "active" <=> active = v
      BY DEF OneActiveVersion
    <2> QED BY <1>2, <1>3, <2>1 DEF OneActiveVersion
  <1>9. CancellationPending'
    BY <1>2 DEF CancellationPending, TypeOK
  <1> QED BY <1>4, <1>5, <1>6, <1>7, <1>8, <1>9

LEMMA FencePreserves == StoreInvariant /\ FenceRepository => StoreInvariant'
  <1> SUFFICES ASSUME StoreInvariant, FenceRepository PROVE StoreInvariant'
    OBVIOUS
  <1>1. UNCHANGED <<state, current, generation, cancelRequested, base, fence, attempts,
                    version, active, clock>>
    BY DEF FenceRepository, jobVars
  <1>2. repoOpen' \in BOOLEAN
    BY DEF FenceRepository
  <1>3. repoGeneration' \in Nat
    BY DEF FenceRepository, StoreInvariant, TypeOK
  <1>4. TypeOK'
    BY <1>1, <1>2, <1>3 DEF StoreInvariant, TypeOK
  <1> QED BY <1>1, <1>4 DEF StoreInvariant, AttemptNumbering, SingleAuthority, RetryKeepsBudget,
                        CandidateOpen, CandidateOutcome, OneActiveVersion, CancellationPending

LEMMA TickPreserves == StoreInvariant /\ Tick => StoreInvariant'
  BY DEF Tick, StoreInvariant, jobVars, repoVars, TypeOK, AttemptNumbering, SingleAuthority,
         RetryKeepsBudget, CandidateOpen, CandidateOutcome, OneActiveVersion, CancellationPending

LEMMA StutterPreserves == StoreInvariant /\ UNCHANGED vars => StoreInvariant'
  BY DEF vars, StoreInvariant, jobVars, repoVars, TypeOK, AttemptNumbering, SingleAuthority,
         RetryKeepsBudget, CandidateOpen, CandidateOutcome, OneActiveVersion, CancellationPending

---------------------------------------------------------------------------

LEMMA NextPreserves == StoreInvariant /\ [Next]_vars => StoreInvariant'
  <1> SUFFICES ASSUME StoreInvariant, [Next]_vars PROVE StoreInvariant'
    OBVIOUS
  <1>1. ASSUME NEW j \in Jobs, JobCommand(j) PROVE StoreInvariant'
    <2>1. CASE \E b \in Jobs \cup {None}, gen \in 0..repoGeneration : Submit(j, b, gen)
      BY <2>1, SubmitPreserves
    <2>2. CASE RequestCancellationQueued(j)
      BY <2>2, CancelPreserves DEF RequestCancellationQueued, Unfinished
    <2>3. CASE RequestCancellationRunning(j)
      BY <2>3, RequestPreserves
    <2>4. CASE ClaimCancelled(j)
      BY <2>4, CancelPreserves DEF ClaimCancelled
    <2>5. CASE ClaimFenced(j)
      BY <2>5, FailPreserves DEF ClaimFenced
    <2>6. CASE \E now \in Instants : ClaimExhausted(j, now)
      BY <2>6, FailPreserves DEF ClaimExhausted, Claimable
    <2>7. CASE \E now \in Instants : ClaimLease(j, now)
      BY <2>7, ClaimLeasePreserves
    <2>8. ASSUME NEW g \in DOMAIN attempts[j], NEW now \in Instants, LeaseCommand(j, g, now)
          PROVE  StoreInvariant'
      <3>1. CASE Heartbeat(j, g, now)
        BY <3>1, HeartbeatPreserves
      <3>2. CASE Complete(j, g, now)
        BY <3>2, CompletePreserves
      <3>3. CASE FailRetry(j, g, now)
        BY <3>3, FailRetryPreserves
      <3>4. CASE FailFinal(j, g, now)
        BY <3>4, FailPreserves DEF FailFinal, OwnsUncancelled, Owns, Unfinished
      <3>5. CASE CancelOwned(j, g, now)
        BY <3>5, CancelPreserves DEF CancelOwned, Owns, Unfinished
      <3>6. CASE Activate(j, g, now)
        BY <3>6, ActivatePreserves
      <3> QED BY <2>8, <3>1, <3>2, <3>3, <3>4, <3>5, <3>6 DEF LeaseCommand
    <2> QED BY <1>1, <2>1, <2>2, <2>3, <2>4, <2>5, <2>6, <2>7, <2>8 DEF JobCommand
  <1>2. CASE FenceRepository
    BY <1>2, FencePreserves
  <1>3. CASE Tick
    BY <1>3, TickPreserves
  <1>4. CASE UNCHANGED vars
    BY <1>4, StutterPreserves
  <1> QED BY <1>1, <1>2, <1>3, <1>4 DEF Next

\* The inductive invariant of the store.
THEOREM StoreSafety == Spec => []StoreInvariant
  <1> QED BY InitInvariant, NextPreserves, PTL DEF Spec

\* Every column keeps a value the schema allows.
THEOREM StoreTypes == Spec => []TypeOK
  <1>1. StoreInvariant => TypeOK
    BY DEF StoreInvariant
  <1> QED BY <1>1, StoreSafety, PTL

\* At most one attempt of a job is live, the current one (fencing), and a job that is
\* queued again still has an attempt left.
THEOREM StoreAuthority == Spec => []Authority
  <1>1. StoreInvariant => Authority
    BY DEF StoreInvariant, Authority
  <1> QED BY <1>1, StoreSafety, PTL

\* A job's outcome and its version's lifecycle agree, and the pointer with them.
THEOREM StorePublication == Spec => []Publication
  <1>1. StoreInvariant => Publication
    BY DEF StoreInvariant, Publication
  <1> QED BY <1>1, StoreSafety, PTL

\* A job whose cancellation was recorded neither succeeds nor is published.
THEOREM StoreCancellationWins == Spec => []CancellationWins
  <1>1. StoreInvariant => CancellationWins
    BY DEF StoreInvariant, CancellationPending, CandidateOpen, CandidateOutcome,
           CancellationWins, Unfinished
  <1> QED BY <1>1, StoreSafety, PTL

---------------------------------------------------------------------------
(* Refinement: each command is a step of IndexJobs, or changes nothing there. *)

Outcomes == [j \in Jobs |-> Outcome(j)]
Wanted   == {j \in Jobs : cancelRequested[j]}
Retired  == {v \in Jobs : version[v] = "superseded"}

LEMMA InitRefines == Init => Abstract!Init
  BY DEF Init, Abstract!Init, Outcome

\* A step that keeps these columns is invisible.
LEMMA InvisibleStep ==
  ASSUME \A k \in Jobs : Outcome(k)' = Outcome(k), Wanted' = Wanted, Retired' = Retired,
         UNCHANGED <<base, active>>
  PROVE  UNCHANGED Abstract!vars
  <1>1. [j \in Jobs |-> Outcome(j)]' = [j \in Jobs |-> Outcome(j)]
    OBVIOUS
  <1> QED BY <1>1 DEF Abstract!vars, Wanted, Retired

\* The effect on IndexJobs of a job that ends without publishing.
LEMMA EndOutcome ==
  ASSUME StoreInvariant, NEW j \in Jobs, state[j] \in Unfinished,
         NEW o \in Terminal, state' = [state EXCEPT ![j] = o]
  PROVE  /\ Outcomes[j] = "pending"
         /\ Outcomes' = [Outcomes EXCEPT ![j] = o]
  <1>1. state \in [Jobs -> JobState]
    BY DEF StoreInvariant, TypeOK
  <1>2. Outcome(j)' = o
    BY <1>1 DEF Outcome, Terminal, Unfinished
  <1>3. \A k \in Jobs : k # j => Outcome(k)' = Outcome(k)
    BY <1>1 DEF Outcome
  <1>4. Outcome(j) = "pending"
    BY DEF Outcome, Unfinished
  <1>5. Outcomes' = [k \in Jobs |-> Outcome(k)']
    BY DEF Outcomes
  <1> QED BY <1>2, <1>3, <1>4, <1>5 DEF Outcomes

LEMMA SubmitRefines ==
  ASSUME StoreInvariant, NEW j \in Jobs, NEW b \in Jobs \cup {None},
         NEW gen \in 0..repoGeneration, Submit(j, b, gen)
  PROVE  Abstract!Submit(j, b)
  <1> USE DEF Submit
  <1>1. state \in [Jobs -> JobState] /\ version \in [Jobs -> VersionState]
    BY DEF StoreInvariant, TypeOK
  <1>2. /\ Outcome(j) = "none" /\ Outcome(j)' = "pending"
        /\ \A k \in Jobs : k # j => Outcome(k)' = Outcome(k)
        /\ \A k \in Jobs : Outcome(k) # "pending"
    BY <1>1 DEF Outcome, Unfinished, JobState, Terminal
  <1>3. Outcomes' = [Outcomes EXCEPT ![j] = "pending"]
    <2>1. Outcomes' = [k \in Jobs |-> Outcome(k)']
      BY DEF Outcomes
    <2> QED BY <1>2, <2>1 DEF Outcomes
  <1>4. version[j] # "superseded"
    BY DEF StoreInvariant, CandidateOpen
  <1>5. Retired' = Retired
    BY <1>1, <1>4 DEF Retired
  <1> QED BY <1>2, <1>3, <1>5 DEF Abstract!Submit, Outcomes, Retired, repoVars

LEMMA CancelRefines ==
  ASSUME StoreInvariant, NEW j \in Jobs, state[j] \in Unfinished,
         CancelLocked(j), UNCHANGED <<repoVars, clock>>
  PROVE  Abstract!Cancel(j)
  <1> USE DEF CancelLocked
  <1>1. Outcomes[j] = "pending" /\ Outcomes' = [Outcomes EXCEPT ![j] = "cancelled"]
    BY EndOutcome DEF Terminal
  <1>2. Wanted' = Wanted \cup {j}
    BY DEF Wanted, StoreInvariant, TypeOK
  <1>3. version[j] = "building" /\ version' = [version EXCEPT ![j] = "cancelled"]
    BY DEF FinishVersion, StoreInvariant, CandidateOpen
  <1>4. Retired' = Retired
    BY <1>3 DEF Retired, StoreInvariant, TypeOK
  <1> QED BY <1>1, <1>2, <1>4 DEF Abstract!Cancel, Outcomes, Wanted, Retired, repoVars

LEMMA FailRefines ==
  ASSUME StoreInvariant, NEW j \in Jobs, state[j] \in Unfinished, ~cancelRequested[j],
         NEW o, FailLocked(j, o), UNCHANGED <<repoVars, clock>>
  PROVE  Abstract!Fail(j)
  <1> USE DEF FailLocked
  <1>1. Outcomes[j] = "pending" /\ Outcomes' = [Outcomes EXCEPT ![j] = "failed"]
    BY EndOutcome DEF Terminal
  <1>2. version[j] = "building" /\ version' = [version EXCEPT ![j] = "failed"]
    BY DEF FinishVersion, StoreInvariant, CandidateOpen
  <1>3. Retired' = Retired
    BY <1>2 DEF Retired, StoreInvariant, TypeOK
  <1> QED BY <1>1, <1>3 DEF Abstract!Fail, Outcomes, Retired, repoVars

LEMMA CompleteRefines ==
  ASSUME StoreInvariant, NEW j \in Jobs, NEW g, NEW now, Complete(j, g, now)
  PROVE  Abstract!Succeed(j)
  <1> USE DEF Complete, OwnsUncancelled, Owns
  <1>1. Outcomes[j] = "pending" /\ Outcomes' = [Outcomes EXCEPT ![j] = "succeeded"]
    BY EndOutcome DEF Terminal, Unfinished
  <1> QED BY <1>1 DEF Abstract!Succeed, Outcomes, repoVars

LEMMA ActivateRefines ==
  ASSUME StoreInvariant, NEW j \in Jobs, NEW g, NEW now, Activate(j, g, now)
  PROVE  Abstract!Publish(j)
  <1> USE DEF Activate, OwnsUncancelled, Owns
  <1>1. Outcomes[j] = "pending" /\ Outcomes' = [Outcomes EXCEPT ![j] = "succeeded"]
    BY EndOutcome DEF Terminal, Unfinished
  <1>2. base[j] = active /\ active \in Jobs \cup {None}
    BY DEF BaseIsActive, StoreInvariant, TypeOK
  <1>3. active # j
    BY DEF StoreInvariant, OneActiveVersion
  <1>4. Retired' = Retired \cup ({active} \ {None})
    <2>1. \A v \in Jobs : version'[v] = IF v = j THEN "active"
                                        ELSE IF v = base[j] THEN "superseded" ELSE version[v]
      BY DEF Switched
    <2> QED BY <1>2, <1>3, <2>1 DEF Retired
  <1> QED BY <1>1, <1>2, <1>4 DEF Abstract!Publish, Outcomes, Retired

LEMMA RequestRefines ==
  ASSUME StoreInvariant, NEW j \in Jobs, RequestCancellationRunning(j)
  PROVE  Abstract!AskCancel(j)
  <1> USE DEF RequestCancellationRunning
  <1>1. Outcome(j) = "pending"
    BY DEF Outcome, Unfinished
  <1>2. Wanted' = Wanted \cup {j}
    BY DEF Wanted, StoreInvariant, TypeOK
  <1>3. [k \in Jobs |-> Outcome(k)]' = [k \in Jobs |-> Outcome(k)]
    BY DEF Outcome
  <1> QED BY <1>1, <1>2, <1>3 DEF Abstract!AskCancel, Wanted, repoVars

\* Moves between queued and running are invisible.
LEMMA MoveRefines ==
  ASSUME StoreInvariant, NEW j \in Jobs, state[j] \in Unfinished, NEW o \in Unfinished,
         state' = [state EXCEPT ![j] = o],
         UNCHANGED <<cancelRequested, base, version, active>>
  PROVE  UNCHANGED Abstract!vars
  <1>1. \A k \in Jobs : Outcome(k)' = Outcome(k)
    BY DEF Outcome, Unfinished, StoreInvariant, TypeOK
  <1> QED BY <1>1, InvisibleStep DEF Wanted, Retired

LEMMA QuietRefines ==
  ASSUME UNCHANGED <<state, cancelRequested, base, version, active>>
  PROVE  UNCHANGED Abstract!vars
  BY InvisibleStep DEF Outcome, Wanted, Retired

LEMMA NextRefines == StoreInvariant /\ [Next]_vars => [Abstract!Next]_(Abstract!vars)
  <1> SUFFICES ASSUME StoreInvariant, [Next]_vars
               PROVE  Abstract!Next \/ UNCHANGED Abstract!vars
    OBVIOUS
  <1>1. ASSUME NEW j \in Jobs, JobCommand(j)
        PROVE  Abstract!Next \/ UNCHANGED Abstract!vars
    <2>1. CASE \E b \in Jobs \cup {None}, gen \in 0..repoGeneration : Submit(j, b, gen)
      BY <2>1, SubmitRefines DEF Abstract!Next
    <2>2. CASE RequestCancellationQueued(j) \/ ClaimCancelled(j)
      <3>1. state[j] \in Unfinished /\ CancelLocked(j) /\ UNCHANGED <<repoVars, clock>>
        BY <2>2 DEF RequestCancellationQueued, ClaimCancelled, Unfinished
      <3> QED BY <3>1, CancelRefines DEF Abstract!Next
    <2>3. CASE RequestCancellationRunning(j)
      BY <2>3, RequestRefines DEF Abstract!Next
    <2>4. CASE ClaimFenced(j) \/ \E now \in Instants : ClaimExhausted(j, now)
      <3>1. /\ state[j] \in Unfinished /\ ~cancelRequested[j]
            /\ FailLocked(j, "failed") \/ FailLocked(j, "lease_lost")
            /\ UNCHANGED <<repoVars, clock>>
        BY <2>4 DEF ClaimFenced, ClaimExhausted, Claimable
      <3> QED BY <3>1, FailRefines DEF Abstract!Next
    <2>5. CASE \E now \in Instants : ClaimLease(j, now)
      <3>1. /\ state[j] \in Unfinished
            /\ state' = [state EXCEPT ![j] = "running"]
            /\ UNCHANGED <<cancelRequested, base, version, active>>
        BY <2>5 DEF ClaimLease, Claimable, repoVars
      <3> QED BY <3>1, MoveRefines DEF Unfinished
    <2>6. ASSUME NEW g \in DOMAIN attempts[j], NEW now \in Instants, LeaseCommand(j, g, now)
          PROVE  Abstract!Next \/ UNCHANGED Abstract!vars
      <3>1. CASE Heartbeat(j, g, now)
        BY <3>1, QuietRefines DEF Heartbeat, jobVars, repoVars
      <3>2. CASE Complete(j, g, now)
        BY <3>2, CompleteRefines DEF Abstract!Next
      <3>3. CASE FailRetry(j, g, now)
        <4>1. /\ state[j] \in Unfinished
              /\ state' = [state EXCEPT ![j] = "queued"]
              /\ UNCHANGED <<cancelRequested, base, version, active>>
          BY <3>3 DEF FailRetry, OwnsUncancelled, Owns, Unfinished, repoVars
        <4> QED BY <4>1, MoveRefines DEF Unfinished
      <3>4. CASE FailFinal(j, g, now)
        <4>1. /\ state[j] \in Unfinished /\ ~cancelRequested[j]
              /\ FailLocked(j, "failed") /\ UNCHANGED <<repoVars, clock>>
          BY <3>4 DEF FailFinal, OwnsUncancelled, Owns, Unfinished
        <4> QED BY <4>1, FailRefines DEF Abstract!Next
      <3>5. CASE CancelOwned(j, g, now)
        <4>1. state[j] \in Unfinished /\ CancelLocked(j) /\ UNCHANGED <<repoVars, clock>>
          BY <3>5 DEF CancelOwned, Owns, Unfinished
        <4> QED BY <4>1, CancelRefines DEF Abstract!Next
      <3>6. CASE Activate(j, g, now)
        BY <3>6, ActivateRefines DEF Abstract!Next
      <3> QED BY <2>6, <3>1, <3>2, <3>3, <3>4, <3>5, <3>6 DEF LeaseCommand
    <2> QED BY <1>1, <2>1, <2>2, <2>3, <2>4, <2>5, <2>6 DEF JobCommand
  <1>2. CASE FenceRepository
    BY <1>2, QuietRefines DEF FenceRepository, jobVars
  <1>3. CASE Tick
    BY <1>3, QuietRefines DEF Tick, jobVars, repoVars
  <1>4. CASE UNCHANGED vars
    BY <1>4, QuietRefines DEF vars, jobVars, repoVars
  <1> QED BY <1>1, <1>2, <1>3, <1>4 DEF Next

\* The store implements IndexJobs: leases, retries and fences are invisible to
\* those who submit and cancel jobs, and publication is one step with success.
THEOREM StoreImplementsIndexJobs == Spec => ImplementsIndexJobs
  <1> QED BY InitRefines, StoreSafety, NextRefines, PTL
          DEF Spec, ImplementsIndexJobs, Abstract!Spec

---------------------------------------------------------------------------
(* Action properties. *)

\* Nothing is built on itself.
BaseIsOther == \A j \in Jobs : state[j] # "absent" => base[j] # j

OneLine == HistoryIsOneLine /\ BaseIsOther

\* What a step that publishes nothing leaves of the history.
HistoryFrame ==
  /\ active' = active
  /\ \A v \in Jobs : version'[v] = version[v]
                     \/ {version[v], version'[v]} \cap {"active", "superseded"} = {}
  /\ \A v \in Jobs : base'[v] = base[v] \/ version[v] = "absent"

LEMMA FrameKeepsLine == OneLine /\ HistoryFrame => HistoryIsOneLine'
  <1> SUFFICES ASSUME OneLine, HistoryFrame PROVE HistoryIsOneLine'
    OBVIOUS
  <1>1. PublishedVersions' = PublishedVersions
    BY DEF HistoryFrame, PublishedVersions
  <1>2. \A v \in PublishedVersions :
          v \in Jobs /\ version'[v] = version[v] /\ base'[v] = base[v]
    BY DEF HistoryFrame, PublishedVersions
  <1>3. active' = active
    BY DEF HistoryFrame
  <1> QED BY <1>1, <1>2, <1>3 DEF OneLine, HistoryIsOneLine

\* Every command but an activation is such a step.
LEMMA CommandKeepsHistory ==
  ASSUME StoreInvariant, NEW j \in Jobs, JobCommand(j)
  PROVE  \/ HistoryFrame /\ (BaseIsOther => BaseIsOther')
         \/ \E g \in DOMAIN attempts[j], now \in Instants : Activate(j, g, now)
  <1>1. /\ version \in [Jobs -> VersionState] /\ state \in [Jobs -> JobState]
        /\ base \in [Jobs -> Jobs \cup {None}]
        /\ \A v \in Jobs : state[v] = "absent" => version[v] = "absent"
    BY DEF StoreInvariant, TypeOK, CandidateOpen
  <1> USE <1>1 DEF HistoryFrame, BaseIsOther
  <1>2. ASSUME NEW b \in Jobs \cup {None}, NEW gen, Submit(j, b, gen)
        PROVE  HistoryFrame /\ (BaseIsOther => BaseIsOther')
    <2>1. b # j
      BY <1>2, NoneAssumption DEF Submit
    <2> QED BY <1>2, <2>1 DEF Submit, repoVars
  <1>3. ASSUME state[j] # "absent", UNCHANGED <<base, active>>,
               \E s : state' = [state EXCEPT ![j] = s],
               \E o \in {"failed", "cancelled"} : version' = FinishVersion(j, o) \/ version' = version
        PROVE  HistoryFrame /\ (BaseIsOther => BaseIsOther')
    <2>1. HistoryFrame
      BY <1>3 DEF FinishVersion
    <2>2. BaseIsOther => BaseIsOther'
      BY <1>3
    <2> QED BY <2>1, <2>2
  <1>4. CASE \/ RequestCancellationQueued(j) \/ ClaimCancelled(j)
             \/ \E g \in DOMAIN attempts[j], now \in Instants : CancelOwned(j, g, now)
    <2>1. state[j] # "absent" /\ CancelLocked(j) /\ UNCHANGED active
      BY <1>4 DEF RequestCancellationQueued, ClaimCancelled, CancelOwned, Owns, repoVars, Unfinished
    <2> QED BY <1>3, <2>1 DEF CancelLocked
  <1>5. CASE RequestCancellationRunning(j)
    BY <1>5 DEF RequestCancellationRunning, repoVars
  <1>6. CASE \/ ClaimFenced(j) \/ \E now \in Instants : ClaimExhausted(j, now)
             \/ \E g \in DOMAIN attempts[j], now \in Instants : FailFinal(j, g, now)
    <2>1. state[j] # "absent" /\ (\E o : FailLocked(j, o)) /\ UNCHANGED active
      BY <1>6 DEF ClaimFenced, ClaimExhausted, Claimable, FailFinal, OwnsUncancelled, Owns,
                  repoVars, Unfinished
    <2> QED BY <1>3, <2>1 DEF FailLocked
  <1>7. ASSUME NEW now \in Instants,
               ClaimLease(j, now) \/ \E g \in DOMAIN attempts[j] :
                 Heartbeat(j, g, now) \/ Complete(j, g, now) \/ FailRetry(j, g, now)
        PROVE  HistoryFrame /\ (BaseIsOther => BaseIsOther')
    <2>1. state[j] # "absent" /\ UNCHANGED <<version, base, active>>
      BY <1>7 DEF ClaimLease, Claimable, Heartbeat, Complete, FailRetry, OwnsUncancelled, Owns,
                  jobVars, repoVars, Unfinished
    <2>2. state' = state \/ \E s : state' = [state EXCEPT ![j] = s]
      BY <1>7 DEF ClaimLease, Heartbeat, Complete, FailRetry, jobVars
    <2> QED BY <2>1, <2>2
  <1> QED BY <1>2, <1>4, <1>5, <1>6, <1>7 DEF JobCommand, LeaseCommand

\* An activation adds the version at the end of the line.
LEMMA ActivationExtendsLine ==
  ASSUME StoreInvariant, OneLine, NEW j \in Jobs, NEW g, NEW now, Activate(j, g, now)
  PROVE  OneLine'
  <1>1. /\ version[j] = "building" /\ state[j] # "absent" /\ base[j] # j
        /\ active = base[j] /\ (base[j] # None => version[base[j]] = "active")
        /\ active' = j /\ base' = base
        /\ state' = [state EXCEPT ![j] = "succeeded"]
    BY DEF Activate, BaseIsActive, OwnsUncancelled, Owns, OneLine, BaseIsOther
  <1>2. /\ version'[j] = "active"
        /\ \A v \in Jobs : v # j => version'[v] = IF v = base[j] THEN "superseded" ELSE version[v]
    BY DEF Activate, Switched
  <1>3. /\ j \notin PublishedVersions /\ PublishedVersions \subseteq Jobs
        /\ base[j] = None \/ base[j] \in PublishedVersions
    BY <1>1 DEF PublishedVersions, StoreInvariant, TypeOK
  <1>4. PublishedVersions' = PublishedVersions \cup {j}
    BY <1>1, <1>2, <1>3 DEF PublishedVersions
  <1>5. \A v \in PublishedVersions : base[v] # base[j] /\ base[v] # j
    <2>1. CASE base[j] = None
      BY <1>1, <1>3, <2>1 DEF OneLine, HistoryIsOneLine
    <2>2. CASE base[j] # None
      BY <1>1, <1>3, <2>2, NoneAssumption DEF OneLine, HistoryIsOneLine
    <2> QED BY <2>1, <2>2
  <1>6. HistoryIsOneLine'
    <2>1. active' # None
      BY <1>1, NoneAssumption
    <2>2. \A v \in PublishedVersions' : base'[v] \in (PublishedVersions' \ {v}) \cup {None}
      BY <1>1, <1>3, <1>4 DEF OneLine, HistoryIsOneLine
    <2>3. \A v, w \in PublishedVersions' : base'[v] = base'[w] => v = w
      BY <1>1, <1>4, <1>5 DEF OneLine, HistoryIsOneLine
    <2>4. \A v \in PublishedVersions' :
            version'[v] = "superseded" <=> \E w \in PublishedVersions' : base'[w] = v
      <3>1. version'[j] # "superseded" /\ \A w \in PublishedVersions' : base[w] # j
        BY <1>1, <1>2, <1>4, <1>5
      <3>2. ASSUME NEW v \in PublishedVersions
            PROVE  version'[v] = "superseded" <=> \E w \in PublishedVersions' : base[w] = v
        BY <1>1, <1>2, <1>3, <1>4, <3>2 DEF OneLine, HistoryIsOneLine
      <3> QED BY <1>1, <1>4, <3>1, <3>2
    <2> QED BY <2>1, <2>2, <2>3, <2>4 DEF HistoryIsOneLine
  <1>7. BaseIsOther'
    BY <1>1 DEF OneLine, BaseIsOther, StoreInvariant, TypeOK
  <1> QED BY <1>6, <1>7 DEF OneLine

\* HistoryIsOneLine, for any set of jobs, budget, lease and clock.
THEOREM StoreHistoryIsOneLine == Spec => []HistoryIsOneLine
  <1>1. Init => OneLine
    BY NoneAssumption DEF Init, OneLine, HistoryIsOneLine, BaseIsOther, PublishedVersions
  <1>2. StoreInvariant /\ OneLine /\ [Next]_vars => OneLine'
    <2> SUFFICES ASSUME StoreInvariant, OneLine, [Next]_vars PROVE OneLine'
      OBVIOUS
    <2>1. ASSUME NEW j \in Jobs, JobCommand(j) PROVE OneLine'
      BY <2>1, CommandKeepsHistory, ActivationExtendsLine, FrameKeepsLine DEF OneLine
    <2>2. CASE FenceRepository \/ Tick \/ UNCHANGED vars
      <3>1. HistoryFrame /\ state' = state /\ base' = base
        BY <2>2 DEF FenceRepository, Tick, vars, jobVars, repoVars, HistoryFrame
      <3> QED BY <3>1, FrameKeepsLine DEF OneLine, BaseIsOther
    <2> QED BY <2>1, <2>2 DEF Next
  <1>3. OneLine => HistoryIsOneLine
    BY DEF OneLine
  <1> QED BY <1>1, <1>2, <1>3, StoreSafety, PTL DEF Spec

\* Retire changes only the rows of its job.
LEMMA RetireFrame ==
  ASSUME StoreInvariant, NEW j, NEW k \in Jobs, k # j, NEW g, NEW o
  PROVE  Retire(j, g, o)[k] = attempts[k]
  BY DEF Retire, StoreInvariant, TypeOK

\* A command touches the rows of one job, and never those of a terminal one.
LEMMA CommandFrame ==
  ASSUME StoreInvariant, NEW j \in Jobs, JobCommand(j), NEW k \in Jobs
  PROVE  /\ state[j] \notin Terminal
         /\ k # j => /\ state'[k] = state[k]
                     /\ attempts'[k] = attempts[k]
                     /\ cancelRequested'[k] = cancelRequested[k]
  <1> USE DEF Unfinished, Terminal
  <1>1. /\ attempts \in [Jobs -> Seq(Attempt)]
        /\ state \in [Jobs -> JobState]
        /\ cancelRequested \in [Jobs -> BOOLEAN]
    BY DEF StoreInvariant, TypeOK
  <1>2. CASE \E b \in Jobs \cup {None}, gen \in 0..repoGeneration : Submit(j, b, gen)
    BY <1>1, <1>2 DEF Submit
  <1>3. CASE RequestCancellationQueued(j) \/ ClaimCancelled(j)
             \/ \E g \in DOMAIN attempts[j], now \in Instants : CancelOwned(j, g, now)
    <2>1. state[j] \in Unfinished /\ CancelLocked(j)
      BY <1>3 DEF RequestCancellationQueued, ClaimCancelled, CancelOwned, Owns
    <2> QED BY <1>1, <2>1, RetireFrame DEF CancelLocked
  <1>4. CASE RequestCancellationRunning(j)
    BY <1>1, <1>4 DEF RequestCancellationRunning
  <1>5. CASE ClaimFenced(j) \/ (\E now \in Instants : ClaimExhausted(j, now))
             \/ \E g \in DOMAIN attempts[j], now \in Instants : FailFinal(j, g, now)
    <2>1. state[j] \in Unfinished /\ \E o \in AttemptState : FailLocked(j, o)
      BY <1>5 DEF ClaimFenced, ClaimExhausted, Claimable, FailFinal, OwnsUncancelled, Owns,
                  AttemptState
    <2> QED BY <1>1, <2>1, RetireFrame DEF FailLocked
  <1>6. CASE \E now \in Instants : ClaimLease(j, now)
    <2>1. PICK now \in Instants : ClaimLease(j, now)
      BY <1>6
    <2> DEFINE held == Append(CloseExpired(j)[j], [state |-> "running", expires |-> now + LeaseSeconds])
    <2>2. /\ state[j] \in Unfinished
          /\ state' = [state EXCEPT ![j] = "running"]
          /\ attempts' = [attempts EXCEPT ![j] = held]
          /\ cancelRequested' = cancelRequested
      BY <2>1 DEF ClaimLease, Claimable
    <2> HIDE DEF held
    <2> QED BY <1>1, <2>2
  <1>7. ASSUME NEW g \in DOMAIN attempts[j], NEW now \in Instants,
               Heartbeat(j, g, now) \/ Complete(j, g, now) \/ FailRetry(j, g, now)
                 \/ Activate(j, g, now)
        PROVE  /\ state[j] = "running"
               /\ k # j => /\ state'[k] = state[k]
                           /\ attempts'[k] = attempts[k]
                           /\ cancelRequested'[k] = cancelRequested[k]
    <2>1. state[j] = "running" /\ cancelRequested' = cancelRequested
      BY <1>7 DEF Heartbeat, Complete, FailRetry, Activate, OwnsUncancelled, Owns, jobVars
    <2>2. k # j => state'[k] = state[k]
      BY <1>1, <1>7 DEF Heartbeat, Complete, FailRetry, Activate, jobVars
    <2>3. \E held : attempts' = [attempts EXCEPT ![j] = held]
      BY <1>7 DEF Heartbeat, Complete, FailRetry, Activate
    <2> QED BY <1>1, <2>1, <2>2, <2>3
  <1> QED BY <1>2, <1>3, <1>4, <1>5, <1>6, <1>7 DEF JobCommand, LeaseCommand

\* A job's outcome is final, with its attempts and its cancellation flag.
THEOREM StoreTerminalStays == Spec => TerminalStays
  <1> DEFINE Same(j) == /\ state'[j] = state[j] /\ attempts'[j] = attempts[j]
                        /\ cancelRequested'[j] = cancelRequested[j]
  <1>1. ASSUME StoreInvariant, [Next]_vars, NEW k \in Jobs, state[k] \in Terminal
        PROVE  Same(k)
    <2>1. ASSUME NEW j \in Jobs, JobCommand(j) PROVE Same(k)
      BY <1>1, <2>1, CommandFrame
    <2>2. CASE FenceRepository \/ Tick \/ UNCHANGED vars
      BY <2>2 DEF FenceRepository, Tick, vars, jobVars
    <2> QED BY <1>1, <2>1, <2>2 DEF Next
  <1>2. StoreInvariant /\ [Next]_vars =>
          [\A j \in Jobs : state[j] \in Terminal =>
             state'[j] = state[j] /\ attempts'[j] = attempts[j]
                                 /\ cancelRequested'[j] = cancelRequested[j]]_vars
    BY <1>1
  <1> QED BY <1>2, StoreSafety, PTL DEF Spec, TerminalStays

\* Behind a closed repository only the commands that end or submit jobs remain.
THEOREM StoreFenceHolds == Spec => FenceHolds
  <1> DEFINE Frozen == /\ active' = active
                       /\ \A j \in Jobs : Len(attempts'[j]) = Len(attempts[j])
                       /\ \A j \in Jobs : state'[j] = "succeeded" => state[j] = "succeeded"
  <1>1. ASSUME StoreInvariant, ~repoOpen, NEW j \in Jobs, JobCommand(j) PROVE Frozen
    <2>1. CASE \E b \in Jobs \cup {None}, gen \in 0..repoGeneration : Submit(j, b, gen)
      BY <1>1, <2>1 DEF Submit, repoVars, StoreInvariant, TypeOK
    <2>2. CASE RequestCancellationQueued(j) \/ ClaimCancelled(j)
      <3>1. state[j] \in Unfinished /\ CancelLocked(j) /\ UNCHANGED <<repoVars, clock>>
        BY <2>2 DEF RequestCancellationQueued, ClaimCancelled, Unfinished
      <3>2. Ended(j)
        BY <1>1, <3>1, RetireEnds DEF CancelLocked, AttemptState
      <3> QED BY <1>1, <3>1, <3>2 DEF CancelLocked, Ended, repoVars, StoreInvariant, TypeOK
    <2>3. CASE RequestCancellationRunning(j)
      BY <2>3 DEF RequestCancellationRunning, repoVars
    <2>4. CASE ClaimFenced(j)
      <3>1. FailLocked(j, "failed") /\ UNCHANGED <<repoVars, clock>>
        BY <2>4 DEF ClaimFenced
      <3>2. Ended(j)
        BY <1>1, <3>1, RetireEnds DEF FailLocked, AttemptState
      <3> QED BY <1>1, <3>1, <3>2 DEF FailLocked, Ended, repoVars, StoreInvariant, TypeOK
    <2>5. ASSUME NEW now PROVE ~ClaimExhausted(j, now) /\ ~ClaimLease(j, now)
      BY <1>1 DEF ClaimExhausted, ClaimLease, Claimable, FencedOff
    <2>6. ASSUME NEW g, NEW now PROVE ~LeaseCommand(j, g, now)
      BY <1>1 DEF LeaseCommand, Heartbeat, Complete, FailRetry, FailFinal, CancelOwned, Activate,
                  OwnsUncancelled, Owns
    <2> QED BY <1>1, <2>1, <2>2, <2>3, <2>4, <2>5, <2>6 DEF JobCommand
  <1>2. ASSUME Tick \/ FenceRepository \/ UNCHANGED vars PROVE Frozen
    BY <1>2 DEF Tick, FenceRepository, vars, jobVars, repoVars
  <1>3. StoreInvariant /\ [Next]_vars =>
          [~repoOpen =>
             /\ active' = active
             /\ \A j \in Jobs : Len(attempts'[j]) = Len(attempts[j])
             /\ \A j \in Jobs : state'[j] = "succeeded" => state[j] = "succeeded"]_vars
    BY <1>1, <1>2 DEF Next
  <1> QED BY <1>3, StoreSafety, PTL DEF Spec, FenceHolds

\* Retire changes only the row it is given, and writes only the state it is given.
LEMMA RetireRows ==
  ASSUME StoreInvariant, NEW j \in Jobs, NEW g, NEW o \in AttemptState,
         NEW k \in Jobs, NEW h \in DOMAIN attempts[k],
         Retire(j, g, o)[k][h] # attempts[k][h]
  PROVE  k = j /\ h = g /\ Retire(j, g, o)[k][h].state = o
  <1>1. attempts \in [Jobs -> Seq(Attempt)]
    BY DEF StoreInvariant, TypeOK
  <1>2. CASE g \in DOMAIN attempts[j] /\ attempts[j][g].state = "running"
    <2>1. Retire(j, g, o) = [attempts EXCEPT ![j][g].state = o]
      BY <1>2 DEF Retire
    <2>2. /\ \A i \in Jobs : i # j => Retire(j, g, o)[i] = attempts[i]
          /\ \A i \in DOMAIN attempts[j] : i # g => Retire(j, g, o)[j][i] = attempts[j][i]
          /\ Retire(j, g, o)[j][g].state = o
      BY <1>1, <1>2, <2>1, SetStateLemma
    <2> QED BY <2>2
  <1>3. CASE ~(g \in DOMAIN attempts[j] /\ attempts[j][g].state = "running")
    BY <1>3 DEF Retire
  <1> QED BY <1>2, <1>3

\* An attempt row is marked lease_lost only when it had expired.
Taken(k, h) == attempts[k][h].state = "running" /\ attempts'[k][h].state = "lease_lost"

LEMMA RetireTakes ==
  ASSUME StoreInvariant, NEW j \in Jobs, NEW now \in Instants, Claimable(j, now),
         NEW k \in Jobs, NEW h \in DOMAIN attempts[k],
         attempts[k][h].state = "running",
         Retire(j, current[j], "lease_lost")[k][h].state = "lease_lost"
  PROVE  attempts[k][h].expires <= clock
  <1>1. "lease_lost" \in AttemptState
    BY DEF AttemptState
  <1>2. k = j /\ h = current[j]
    BY <1>1, RetireRows
  <1>3. state[j] = "running" /\ current[j] # 0
    BY <1>2 DEF StoreInvariant, SingleAuthority, AttemptNumbering
  <1>4. ~(attempts[j][current[j]].expires > now)
    BY <1>3 DEF Claimable, LeaseHeld
  <1>5. attempts[k] \in Seq(Attempt) /\ clock \in Nat
    BY DEF StoreInvariant, TypeOK
  <1>6. attempts[k][h].expires \in Nat
    <2>1. attempts[k][h] \in Attempt
      BY <1>5
    <2> QED BY <2>1 DEF Attempt
  <1> QED BY <1>2, <1>4, <1>5, <1>6 DEF Instants

LEMMA TakeoverStep ==
  ASSUME StoreInvariant, NEW j \in Jobs, JobCommand(j),
         NEW k \in Jobs, NEW h \in DOMAIN attempts[k], Taken(k, h)
  PROVE  attempts[k][h].expires <= clock
  <1>1. k = j
    BY CommandFrame DEF Taken
  <1>2. attempts \in [Jobs -> Seq(Attempt)] /\ attempts[j] \in Seq(Attempt)
    BY DEF StoreInvariant, TypeOK
  <1>3. CASE \E now \in Instants : ClaimExhausted(j, now)
    BY <1>3, RetireTakes DEF ClaimExhausted, FailLocked, Taken
  <1>4. CASE \E now \in Instants : ClaimLease(j, now)
    <2>1. PICK now \in Instants : ClaimLease(j, now)
      BY <1>4
    <2> DEFINE row == [state |-> "running", expires |-> now + LeaseSeconds]
               closed == CloseExpired(j)[j]
    <2>2. attempts'[j] = Append(closed, row)
      BY <1>2, <2>1 DEF ClaimLease
    <2>3. CASE state[j] = "running"
      <3>1. closed = Retire(j, current[j], "lease_lost")[j]
        BY <2>3 DEF CloseExpired
      <3>2. closed \in Seq(Attempt) /\ Len(closed) = Len(attempts[j])
        <4>1. "lease_lost" \in AttemptState
          BY DEF AttemptState
        <4>2. CASE current[j] \in DOMAIN attempts[j] /\ attempts[j][current[j]].state = "running"
          BY <1>2, <3>1, <4>1, <4>2, SetStateLemma DEF Retire
        <4>3. CASE ~(current[j] \in DOMAIN attempts[j] /\ attempts[j][current[j]].state = "running")
          BY <1>2, <3>1, <4>3 DEF Retire
        <4> QED BY <4>2, <4>3
      <3>3. attempts'[j][h] = closed[h]
        <4> HIDE DEF closed, row
        <4> QED BY <1>1, <1>2, <2>2, <3>2
      <3>4. Claimable(j, now)
        BY <2>1 DEF ClaimLease
      <3> QED BY <1>1, <3>1, <3>3, <3>4, RetireTakes DEF Taken
    <2>4. CASE state[j] # "running"
      BY <1>1, <2>4 DEF Taken, StoreInvariant, SingleAuthority
    <2> QED BY <2>3, <2>4
  <1>5. ASSUME NEW o \in AttemptState \ {"lease_lost"}, attempts' = Retire(j, current[j], o)
        PROVE  FALSE
    BY <1>5, RetireRows DEF Taken
  <1>6. ASSUME NEW g \in DOMAIN attempts[j], NEW o \in AttemptState \ {"lease_lost"},
               attempts' = [attempts EXCEPT ![j][g].state = o]
        PROVE  FALSE
    BY <1>1, <1>2, <1>6, SetStateLemma DEF Taken
  <1>7. attempts' # attempts
    BY DEF Taken
  <1>8. CASE \E g \in DOMAIN attempts[j], now \in Instants : Heartbeat(j, g, now)
    <2>1. PICK g \in DOMAIN attempts[j], now \in Instants : Heartbeat(j, g, now)
      BY <1>8
    <2>2. attempts'[j][h].state = attempts[j][h].state
      <3> DEFINE row == [attempts[j][g] EXCEPT !.expires = now + LeaseSeconds]
      <3>1. attempts' = [attempts EXCEPT ![j] = [attempts[j] EXCEPT ![g] = row]]
        BY <2>1 DEF Heartbeat
      <3>2. row.state = attempts[j][g].state
        BY <1>2 DEF Attempt
      <3> HIDE DEF row
      <3> QED BY <1>1, <1>2, <3>1, <3>2
    <2> QED BY <1>1, <2>2 DEF Taken
  <1>9. {"cancelled", "failed", "succeeded"} \subseteq AttemptState \ {"lease_lost"}
    BY DEF AttemptState
  <1>10. \/ \E now \in Instants : ClaimExhausted(j, now) \/ ClaimLease(j, now)
         \/ \E g \in DOMAIN attempts[j], now \in Instants : Heartbeat(j, g, now)
    BY <1>5, <1>6, <1>7, <1>9 DEF JobCommand, LeaseCommand, Submit, RequestCancellationQueued,
       RequestCancellationRunning, ClaimCancelled, ClaimFenced, CancelLocked, FailLocked,
       Complete, FailRetry, FailFinal, CancelOwned, Activate
  <1> QED BY <1>3, <1>4, <1>8, <1>10

\* A delivery takes a lease over only when the lease, as extended, has run out.
THEOREM StoreNoEarlyTakeover == Spec => NoEarlyTakeover
  <1>1. StoreInvariant /\ [Next]_vars =>
          [\A j \in Jobs : \A g \in DOMAIN attempts[j] :
             attempts[j][g].state = "running" /\ attempts'[j][g].state = "lease_lost"
               => attempts[j][g].expires <= clock]_vars
    <2>1. FenceRepository \/ Tick \/ UNCHANGED vars => attempts' = attempts
      BY DEF FenceRepository, Tick, vars
    <2> QED BY <2>1, TakeoverStep DEF Next, Taken
  <1> QED BY <1>1, StoreSafety, PTL DEF Spec, NoEarlyTakeover

\* Nothing a stale writer does reopens a job, takes a live lease over or publishes
\* behind a closed repository.
THEOREM StoreFencing == Spec => Fencing
  <1> QED BY StoreTerminalStays, StoreNoEarlyTakeover, StoreFenceHolds DEF Fencing

---------------------------------------------------------------------------
(* IndexActivation. *)

\* A version readers are or were pointed at.
Pointed == {"active", "superseded"}

ActivationTypes ==
  /\ files \in [Types -> Nat]
  /\ rows \in [Types -> [bytes : Nat, required : BOOLEAN]]
  /\ candidate \in [1..MaxAttempts -> Candidates \cup {NoCandidate}]
  /\ manifest \in Candidates \cup {NoCandidate}
  /\ audits \in Nat

\* What is stored under the manifest's key has its artifacts on disk: neither is
\* ever replaced.
ManifestHolds == manifest # NoCandidate => Verified(manifest)

ActivationInvariant ==
  /\ StoreInvariant
  /\ ActivationTypes
  /\ ManifestHolds
  /\ ActivatedIsPublished
  /\ audits = IF \E j \in Jobs : version[j] \in Pointed THEN 1 ELSE 0

LEMMA ArtifactsOf ==
  ASSUME NEW c \in Candidates, NEW t \in DOMAIN c.artifacts
  PROVE  /\ t \in Types
         /\ c.artifacts[t] \in [bytes : Nat, required : BOOLEAN]
         /\ c.artifacts[t].bytes # 0
  BY CandidateAssumption

\* The other commands of the store point readers at no version and take none away.
LEMMA OtherKeepsPointed ==
  ASSUME StoreInvariant, NEW j \in Jobs, OtherCommand(j), NEW k \in Jobs
  PROVE  version'[k] \in Pointed <=> version[k] \in Pointed
  <1> USE DEF Pointed
  <1>1. version \in [Jobs -> VersionState] /\ CandidateOutcome
    BY DEF StoreInvariant, TypeOK
  <1>2. CASE Submit(j, active, repoGeneration)
    BY <1>1, <1>2 DEF Submit, CandidateOutcome
  <1>3. CASE \E o \in {"failed", "cancelled"} : version' = FinishVersion(j, o)
    BY <1>1, <1>3 DEF FinishVersion
  <1>4. CASE version' = version
    BY <1>4
  <1>5. version' = version \/ Submit(j, active, repoGeneration)
          \/ \E o \in {"failed", "cancelled"} : version' = FinishVersion(j, o)
    BY DEF OtherCommand, RequestCancellationQueued, RequestCancellationRunning, ClaimCancelled,
           ClaimFenced, ClaimExhausted, ClaimLease, Heartbeat, FailRetry, FailFinal, CancelOwned,
           CancelLocked, FailLocked
  <1> QED BY <1>2, <1>3, <1>4, <1>5

LEMMA OtherIsCommand ==
  ASSUME StoreInvariant, NEW j \in Jobs, OtherCommand(j)
  PROVE  JobCommand(j)
  <1>1. active \in Jobs \cup {None} /\ repoGeneration \in 0..repoGeneration
    BY DEF StoreInvariant, TypeOK
  <1> QED BY <1>1 DEF OtherCommand, JobCommand, LeaseCommand

\* Only the activation itself points readers at a version, and that one for good.
LEMMA ActivateStep ==
  ASSUME ActivationInvariant, NEW j \in Jobs, NEW g \in DOMAIN attempts[j], NEW now \in Instants,
         ActivateIndex(j, g, now)
  PROVE  /\ g \in 1..MaxAttempts
         /\ version[j] = "building"
         /\ version'[j] = "active"
         /\ Jobs = {j}
  <1>1. /\ attempts \in [Jobs -> Seq(Attempt)]
        /\ Len(attempts[j]) <= MaxAttempts
    BY DEF ActivationInvariant, StoreInvariant, TypeOK, RetryKeepsBudget
  <1>2. g \in 1..MaxAttempts
    BY <1>1, AttemptAssumption
  <1>3. version[j] = "building" /\ version' = Switched(j)
    BY DEF ActivateIndex, Activate
  <1>4. PICK x : Jobs = {x}
    BY VersionAssumption, FS_Singleton
  <1> QED BY <1>2, <1>3, <1>4 DEF Switched

LEMMA InitActivation == ActivationInit => ActivationInvariant
  <1> SUFFICES ASSUME ActivationInit PROVE ActivationInvariant
    OBVIOUS
  <1>1. StoreInvariant
    BY InitInvariant DEF ActivationInit
  <1>2. \A j \in Jobs : version[j] \notin Pointed
    BY DEF ActivationInit, Init, Pointed
  <1>3. ActivationTypes /\ ManifestHolds /\ audits = 0
    BY DEF ActivationInit, ActivationTypes, ManifestHolds, NoRow
  <1> QED BY <1>1, <1>2, <1>3 DEF ActivationInvariant, ActivatedIsPublished, Pointed

\* A step of the store alone.
LEMMA StoreStepPreserves ==
  ASSUME ActivationInvariant, StoreInvariant', UNCHANGED storeVars,
         \A k \in Jobs : version'[k] \in Pointed <=> version[k] \in Pointed
  PROVE  ActivationInvariant'
  <1>1. UNCHANGED <<files, rows, manifest, candidate, recorded, audits>>
    BY DEF storeVars
  <1> QED BY <1>1 DEF ActivationInvariant, ActivationTypes, ManifestHolds, ActivatedIsPublished,
                     Verified, Pointed

LEMMA ActivationPreserves == ActivationInvariant /\ [ActivationNext]_allVars => ActivationInvariant'
  <1> SUFFICES ASSUME ActivationInvariant, [ActivationNext]_allVars PROVE ActivationInvariant'
    OBVIOUS
  <1> USE DEF Pointed
  <1>0. /\ StoreInvariant /\ ActivationTypes /\ ManifestHolds /\ ActivatedIsPublished
        /\ audits = IF \E j \in Jobs : version[j] \in Pointed THEN 1 ELSE 0
    BY DEF ActivationInvariant
  <1>1. ASSUME NEW g \in 1..MaxAttempts, Compose(g)
        PROVE  ActivationInvariant'
    <2>1. UNCHANGED <<vars, files, rows, manifest, recorded, audits>>
          /\ \E c \in Candidates : candidate' = [candidate EXCEPT ![g] = c]
      BY <1>1 DEF Compose
    <2>2. StoreInvariant'
      BY <1>0, <2>1, StutterPreserves
    <2>3. ActivationTypes'
      BY <1>0, <2>1 DEF ActivationTypes
    <2>4. version' = version
      BY <2>1 DEF vars
    <2> QED BY <1>0, <2>1, <2>2, <2>3, <2>4
            DEF ActivationInvariant, ManifestHolds, ActivatedIsPublished, Verified
  <1>2. ASSUME NEW g \in 1..MaxAttempts, NEW t \in Types, WriteArtifact(g, t)
        PROVE  ActivationInvariant'
    <2>1. /\ UNCHANGED <<vars, rows, manifest, candidate, recorded, audits>>
          /\ files[t] = 0
          /\ files' = [files EXCEPT ![t] = candidate[g].artifacts[t].bytes]
          /\ candidate[g] \in Candidates /\ t \in DOMAIN candidate[g].artifacts
      BY <1>0, <1>2 DEF WriteArtifact, ActivationTypes
    <2>2. candidate[g].artifacts[t].bytes \in Nat
      BY <2>1, ArtifactsOf
    <2>3. StoreInvariant'
      BY <1>0, <2>1, StutterPreserves
    <2>4. ActivationTypes'
      BY <1>0, <2>1, <2>2 DEF ActivationTypes
    <2>5. version' = version
      BY <2>1 DEF vars
    <2>6. ASSUME NEW c \in Candidates, Verified(c)
          PROVE  Verified(c)'
      <3>1. \A u \in DOMAIN c.artifacts : u \in Types /\ c.artifacts[u].bytes \in Nat \ {0}
        BY ArtifactsOf
      <3> QED BY <1>0, <2>1, <2>6, <3>1 DEF Verified, ActivationTypes
    <2>7. ManifestHolds'
      BY <1>0, <2>1, <2>6 DEF ManifestHolds, ActivationTypes
    <2>8. ActivatedIsPublished'
      BY <1>0, <2>1, <2>5, <2>6 DEF ActivatedIsPublished, ActivationTypes
    <2> QED BY <1>0, <2>1, <2>3, <2>4, <2>5, <2>7, <2>8 DEF ActivationInvariant
  <1>3. ASSUME NEW g \in 1..MaxAttempts, NEW t \in Types, RegisterArtifact(g, t)
        PROVE  ActivationInvariant'
    <2>1. /\ UNCHANGED <<vars, files, manifest, candidate, recorded, audits>>
          /\ rows[t] = NoRow
          /\ rows' = [rows EXCEPT ![t] = candidate[g].artifacts[t]]
          /\ candidate[g] \in Candidates /\ t \in DOMAIN candidate[g].artifacts
      BY <1>0, <1>3 DEF RegisterArtifact, ActivationTypes
    <2>2. candidate[g].artifacts[t] \in [bytes : Nat, required : BOOLEAN]
      BY <2>1, ArtifactsOf
    <2>3. StoreInvariant'
      BY <1>0, <2>1, StutterPreserves
    <2>4. ActivationTypes'
      BY <1>0, <2>1, <2>2 DEF ActivationTypes
    <2>5. version' = version
      BY <2>1 DEF vars
    <2>6. ManifestHolds'
      BY <1>0, <2>1 DEF ManifestHolds, Verified
    <2>7. ActivatedIsPublished'
      <3> SUFFICES ASSUME \E j \in Jobs : version[j] \in {"active", "superseded"}
                   PROVE  ActivatedIsPublished'
        BY <2>5 DEF ActivatedIsPublished
      <3>1. recorded \in Candidates
        BY <1>0 DEF ActivatedIsPublished, ActivationTypes
      <3>2. \A u \in DOMAIN recorded.artifacts : rows[u] # NoRow
        BY <1>0, <3>1, ArtifactsOf DEF ActivatedIsPublished, NoRow
      <3>3. \A u \in Types : rows[u].required => rows'[u] = rows[u]
        BY <1>0, <2>1 DEF NoRow, ActivationTypes
      <3>4. \A u \in DOMAIN recorded.artifacts : rows'[u] = rows[u]
        BY <1>0, <2>1, <3>2 DEF ActivationTypes
      <3>5. \A k \in Mandatory : \A u \in recorded.readiness[k].needs :
              rows[u].required /\ (u \in DOMAIN rows => rows'[u].required)
        BY <1>0, <3>3 DEF ActivatedIsPublished, ActivationTypes
      <3> QED BY <1>0, <2>1, <2>5, <3>4, <3>5 DEF ActivatedIsPublished, Verified
    <2> QED BY <1>0, <2>1, <2>3, <2>4, <2>5, <2>6, <2>7 DEF ActivationInvariant
  <1>4. ASSUME NEW g \in 1..MaxAttempts, Publish(g)
        PROVE  ActivationInvariant'
    <2>1. /\ UNCHANGED <<vars, files, rows, candidate, recorded, audits>>
          /\ manifest \in {NoCandidate, candidate[g]} /\ manifest' = candidate[g]
          /\ candidate[g] # NoCandidate /\ Verified(candidate[g])
      BY <1>4 DEF Publish
    <2>2. StoreInvariant'
      BY <1>0, <2>1, StutterPreserves
    <2>3. ActivationTypes' /\ ManifestHolds'
      BY <1>0, <2>1 DEF ActivationTypes, ManifestHolds, Verified
    <2>4. version' = version
      BY <2>1 DEF vars
    <2>5. ActivatedIsPublished'
      BY <1>0, <2>1, <2>4 DEF ActivatedIsPublished, Verified
    <2> QED BY <1>0, <2>1, <2>2, <2>3, <2>4, <2>5 DEF ActivationInvariant
  <1>5. ASSUME NEW j \in Jobs, NEW g \in DOMAIN attempts[j], NEW now \in Instants,
               ActivateIndex(j, g, now)
        PROVE  ActivationInvariant'
    <2>1. /\ g \in 1..MaxAttempts /\ Jobs = {j}
          /\ version[j] = "building" /\ version'[j] = "active"
      BY <1>5, ActivateStep
    <2>2. /\ UNCHANGED <<files, rows, manifest, candidate>>
          /\ recorded' = candidate[g] /\ audits' = audits + 1
          /\ Published(g) /\ RowsMatch(candidate[g]) /\ Activate(j, g, now)
      BY <1>5 DEF ActivateIndex
    <2>3. StoreInvariant'
      <3>1. Next
        BY <2>2 DEF Next, JobCommand, LeaseCommand
      <3> QED BY <1>0, <3>1, NextPreserves
    <2>4. ActivationTypes' /\ ManifestHolds'
      BY <1>0, <2>2 DEF ActivationTypes, ManifestHolds, Verified
    <2>5. audits = 0
      BY <1>0, <2>1
    <2>6. candidate[g] \in Candidates /\ Valid(candidate[g], Mandatory)
      BY <1>0, <2>1, <2>2 DEF Published, ActivationTypes
    <2>7. \A k \in Mandatory : \A t \in candidate[g].readiness[k].needs : rows[t].required
      BY <2>2, <2>6 DEF Valid, Required, RowsMatch
    <2>8. ActivatedIsPublished'
      BY <2>2, <2>6, <2>7, CandidateAssumption DEF ActivatedIsPublished, Published, RowsMatch, Verified
    <2>9. audits' = IF \E k \in Jobs : version'[k] \in Pointed THEN 1 ELSE 0
      BY <2>1, <2>2, <2>5
    <2> QED BY <2>3, <2>4, <2>8, <2>9 DEF ActivationInvariant
  <1>6. ASSUME NEW j \in Jobs, OtherCommand(j), UNCHANGED storeVars
        PROVE  ActivationInvariant'
    <2>1. StoreInvariant'
      BY <1>0, <1>6, OtherIsCommand, NextPreserves DEF Next
    <2> QED BY <1>0, <1>6, <2>1, OtherKeepsPointed, StoreStepPreserves
  <1>7. CASE (FenceRepository \/ Tick) /\ UNCHANGED storeVars
    <2>1. StoreInvariant'
      BY <1>0, <1>7, NextPreserves DEF Next
    <2>2. version' = version
      BY <1>7 DEF FenceRepository, Tick
    <2> QED BY <1>7, <2>1, <2>2, StoreStepPreserves
  <1>8. CASE UNCHANGED allVars
    <2>1. StoreInvariant' /\ version' = version /\ UNCHANGED storeVars
      BY <1>0, <1>8, StutterPreserves DEF allVars, vars
    <2> QED BY <2>1, StoreStepPreserves
  <1> QED BY <1>1, <1>2, <1>3, <1>4, <1>5, <1>6, <1>7, <1>8 DEF ActivationNext

LEMMA ActivationSafety == ActivationSpec => []ActivationInvariant
  BY InitActivation, ActivationPreserves, PTL DEF ActivationSpec

\* A version that readers are pointed at has its manifest and artifacts stored and
\* registered, whatever earlier attempts and stale workers published or registered.
THEOREM ActivatedIsPublishedHolds == ActivationSpec => []ActivatedIsPublished
  <1>1. ActivationInvariant => ActivatedIsPublished
    BY DEF ActivationInvariant
  <1> QED BY <1>1, ActivationSafety, PTL

\* However often an activation is sent again, it leaves one audit event.
THEOREM OneAuditHolds == ActivationSpec => []OneAuditPerActivation
  <1>1. ActivationInvariant => OneAuditPerActivation
    <2> SUFFICES ASSUME ActivationInvariant PROVE OneAuditPerActivation
      OBVIOUS
    <2> DEFINE published == {j \in Jobs : version[j] \in Pointed}
    <2>1. PICK x : Jobs = {x}
      BY VersionAssumption, FS_Singleton
    <2>2. CASE version[x] \in Pointed
      <3>1. published = {x} /\ audits = 1
        BY <2>1, <2>2 DEF ActivationInvariant
      <3> QED BY <3>1, FS_Singleton DEF OneAuditPerActivation, Pointed
    <2>3. CASE version[x] \notin Pointed
      <3>1. published = {} /\ audits = 0
        BY <2>1, <2>3 DEF ActivationInvariant
      <3> QED BY <3>1, FS_EmptySet DEF OneAuditPerActivation, Pointed
    <2> QED BY <2>2, <2>3
  <1> QED BY <1>1, ActivationSafety, PTL
=============================================================================
