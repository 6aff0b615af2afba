----------------------- MODULE RepositoryViewsProofs -----------------------
(***************************************************************************)
(* Proofs about RepositoryViews for any number of versions, with and       *)
(* without restarts of the API and deletions.                              *)
(***************************************************************************)
EXTENDS RepositoryViews, TLAPS

USE VersionAssumption, SwitchAssumption

\* A version that save_repository would still write.
Open(v) == v \in Versions /\ version[v] \in {"absent", "building"}

\* A run publishes the version its job names, unless the job was deleted under
\* it, and a run that published has moved the pointer there.
RunMatchesJob ==
  /\ run # "idle" => build \in Versions /\ job.state \notin {"succeeded", "failed"}
  /\ run # "idle" /\ job.state = "running" => build = job.target
  /\ run = "published" /\ job.state = "running" => active = build

\* A job and a copy in the API are those of an existing repository.
JobIsKnown ==
  /\ job.state # "none" => api.known /\ job.target \in Versions
  /\ api.known => row

\* What can still be published lies above the pointer, directly above it while
\* the repository exists; an API without a copy has no version of it.
OpenAboveActive ==
  /\ api.known => \A v \in Versions : Open(v) /\ v > api.version => v > active
  /\ run # "idle" /\ Open(build) => build > active
  /\ run # "idle" /\ row => build <= active + 1
  /\ job.state \in Unfinished /\ Open(job.target) => job.target > active
  /\ job.state \in Unfinished => job.target <= active + 1
  /\ ~api.known => api.version = 0

ViewsInvariant ==
  /\ TypeOK /\ PointerIsActive /\ SuccessIsReadable /\ VersionIsUsable
  /\ RunMatchesJob /\ JobIsKnown /\ OpenAboveActive

\* The strengthening holds before anything is indexed.
LEMMA InitViews == Init => ViewsInvariant
  <1> SUFFICES ASSUME Init PROVE ViewsInvariant
    OBVIOUS
  <1> USE DEF Init, NoVersion, NoJob, NoCopy, Versions, Unfinished
  <1>1. TypeOK
    <2>1. NoCopy \in Copy /\ NoJob \in Job /\ NoVersion \in [Versions -> Lifecycle]
      BY DEF Copy, Job, Lifecycle
    <2> HIDE DEF NoCopy, NoJob, NoVersion
    <2>2. [NoCopy EXCEPT !.known = TRUE] \in Copy
      BY <2>1 DEF Copy
    <2> QED BY <2>1, <2>2 DEF TypeOK
  <1>2. PointerIsActive /\ SuccessIsReadable /\ VersionIsUsable
    BY DEF PointerIsActive, SuccessIsReadable, VersionIsUsable
  <1>3. RunMatchesJob /\ JobIsKnown /\ OpenAboveActive
    BY DEF RunMatchesJob, JobIsKnown, OpenAboveActive
  <1> QED BY <1>1, <1>2, <1>3 DEF ViewsInvariant

\* Every step keeps the strengthening; one step of the proof per action.
LEMMA NextViews == ViewsInvariant /\ [Next]_vars => ViewsInvariant'
  <1> SUFFICES ASSUME ViewsInvariant, [Next]_vars PROVE ViewsInvariant'
    OBVIOUS
  <1> USE DEF Versions, Unfinished
  <1>0. /\ TypeOK /\ PointerIsActive /\ SuccessIsReadable /\ VersionIsUsable
        /\ RunMatchesJob /\ JobIsKnown /\ OpenAboveActive
    BY DEF ViewsInvariant
  <1>1. CASE RestartApi
    <2> USE <1>0, <1>1 DEF RestartApi, Loaded, NoCopy, rows
    <2>1. TypeOK'
      BY DEF TypeOK, Copy
    <2>2. VersionIsUsable'
      BY DEF TypeOK, VersionIsUsable
    <2>3. JobIsKnown'
      BY DEF JobIsKnown
    <2>4. OpenAboveActive'
      BY DEF OpenAboveActive, Open
    <2>5. PointerIsActive' /\ SuccessIsReadable' /\ RunMatchesJob'
      BY DEF PointerIsActive, SuccessIsReadable, RunMatchesJob
    <2> QED BY <2>1, <2>2, <2>3, <2>4, <2>5 DEF ViewsInvariant
  <1>2. CASE SubmitIndex
    <2> USE <1>0, <1>2 DEF SubmitIndex, NextVersion
    <2>1. TypeOK'
      BY DEF TypeOK, Lifecycle, Job, Copy
    <2>2. PointerIsActive'
      BY DEF PointerIsActive
    <2>3. SuccessIsReadable'
      BY DEF SuccessIsReadable
    <2>4. VersionIsUsable'
      BY DEF VersionIsUsable
    <2>5. RunMatchesJob'
      BY DEF RunMatchesJob
    <2>6. JobIsKnown'
      BY DEF JobIsKnown
    <2>7. OpenAboveActive'
      BY DEF TypeOK, OpenAboveActive, Open, VersionIsUsable, Copy
    <2> QED BY <2>1, <2>2, <2>3, <2>4, <2>5, <2>6, <2>7 DEF ViewsInvariant
  <1>3. CASE PollUnpublished
    <2> USE <1>0, <1>3 DEF PollUnpublished, rows
    <2>1. TypeOK'
      BY DEF TypeOK, Copy
    <2>2. VersionIsUsable'
      BY DEF VersionIsUsable
    <2>3. JobIsKnown'
      BY DEF JobIsKnown
    <2>4. OpenAboveActive'
      BY DEF OpenAboveActive, Open
    <2>5. PointerIsActive' /\ SuccessIsReadable' /\ RunMatchesJob'
      BY DEF PointerIsActive, SuccessIsReadable, RunMatchesJob
    <2> QED BY <2>1, <2>2, <2>3, <2>4, <2>5 DEF ViewsInvariant
  <1>4. CASE CancelQueued
    <2> USE <1>0, <1>4 DEF CancelQueued, Closed
    <2>1. TypeOK'
      BY DEF TypeOK, Lifecycle, Job
    <2>2. PointerIsActive'
      BY DEF PointerIsActive
    <2>3. SuccessIsReadable'
      BY DEF SuccessIsReadable
    <2>4. RunMatchesJob'
      BY DEF RunMatchesJob
    <2>5. JobIsKnown'
      BY DEF JobIsKnown
    <2>6. OpenAboveActive'
      BY DEF OpenAboveActive, Open
    <2>7. VersionIsUsable'
      BY DEF VersionIsUsable
    <2> QED BY <2>1, <2>2, <2>3, <2>4, <2>5, <2>6, <2>7 DEF ViewsInvariant
  <1>5. CASE Delete
    <2> USE <1>0, <1>5 DEF Delete, NoVersion, NoJob, NoCopy
    <2>1. TypeOK'
      <3>1. NoJob \in Job /\ NoCopy \in Copy /\ NoVersion \in [Versions -> Lifecycle]
        BY DEF Job, Copy, Lifecycle
      <3> HIDE DEF NoJob, NoCopy, NoVersion
      <3>2. row' \in BOOLEAN
        BY Zenon
      <3> QED BY <3>1, <3>2 DEF TypeOK
    <2>2. PointerIsActive'
      BY DEF PointerIsActive
    <2>3. SuccessIsReadable'
      BY DEF SuccessIsReadable
    <2>4. VersionIsUsable'
      BY DEF VersionIsUsable
    <2>5. RunMatchesJob'
      BY DEF RunMatchesJob
    <2>6. JobIsKnown'
      BY DEF JobIsKnown
    <2>7. OpenAboveActive'
      BY DEF OpenAboveActive, RunMatchesJob
    <2> QED BY <2>1, <2>2, <2>3, <2>4, <2>5, <2>6, <2>7 DEF ViewsInvariant
  <1>6. CASE StartWorker
    <2> USE <1>0, <1>6 DEF StartWorker, rows
    <2>1. TypeOK'
      BY DEF TypeOK
    <2>2. PointerIsActive' /\ SuccessIsReadable' /\ VersionIsUsable' /\ RunMatchesJob' /\ JobIsKnown' /\ OpenAboveActive'
      BY DEF PointerIsActive, SuccessIsReadable, VersionIsUsable, RunMatchesJob, JobIsKnown, OpenAboveActive, Open
    <2> QED BY <2>1, <2>2 DEF ViewsInvariant
  <1>7. CASE StopWorker
    <2> USE <1>0, <1>7 DEF StopWorker, rows
    <2>1. TypeOK'
      BY DEF TypeOK
    <2>2. RunMatchesJob'
      BY DEF RunMatchesJob
    <2>3. OpenAboveActive'
      BY DEF OpenAboveActive, Open
    <2>4. PointerIsActive' /\ SuccessIsReadable' /\ VersionIsUsable' /\ JobIsKnown'
      BY DEF PointerIsActive, SuccessIsReadable, VersionIsUsable, JobIsKnown
    <2> QED BY <2>1, <2>2, <2>3, <2>4 DEF ViewsInvariant
  <1>8. CASE Claim
    <2> USE <1>0, <1>8 DEF Claim
    <2>1. TypeOK'
      BY DEF TypeOK, Job
    <2>2. SuccessIsReadable'
      BY DEF SuccessIsReadable
    <2>3. RunMatchesJob'
      BY DEF RunMatchesJob, JobIsKnown
    <2>4. JobIsKnown'
      BY DEF JobIsKnown
    <2>5. OpenAboveActive'
      BY DEF OpenAboveActive, Open
    <2>6. PointerIsActive' /\ VersionIsUsable'
      BY DEF PointerIsActive, VersionIsUsable
    <2> QED BY <2>1, <2>2, <2>3, <2>4, <2>5, <2>6 DEF ViewsInvariant
  <1>9. CASE NotFound
    <2> USE <1>0, <1>9 DEF NotFound, Conclude, Closed
    <2>1. TypeOK'
      <3>1. version' \in [Versions -> Lifecycle]
        BY DEF TypeOK, Lifecycle
      <3>2. job' \in Job
        BY DEF TypeOK, Job
      <3> QED BY <3>1, <3>2 DEF TypeOK
    <2>2. PointerIsActive'
      BY DEF PointerIsActive
    <2>3. SuccessIsReadable'
      BY DEF SuccessIsReadable
    <2>4. RunMatchesJob'
      BY DEF RunMatchesJob
    <2>5. JobIsKnown'
      BY DEF JobIsKnown
    <2>6. OpenAboveActive'
      BY DEF OpenAboveActive, Open
    <2>7. VersionIsUsable'
      BY DEF VersionIsUsable
    <2> QED BY <2>1, <2>2, <2>3, <2>4, <2>5, <2>6, <2>7 DEF ViewsInvariant
  <1>10. CASE Index
    <2> USE <1>0, <1>10 DEF Index, Conclude, Closed, rows
    <2>1. TypeOK'
      <3>1. version' \in [Versions -> Lifecycle]
        BY DEF TypeOK, Lifecycle
      <3>2. job' \in Job
        BY DEF TypeOK, Job
      <3> QED BY <3>1, <3>2 DEF TypeOK
    <2>2. PointerIsActive'
      BY DEF TypeOK, PointerIsActive
    <2>3. SuccessIsReadable'
      BY DEF TypeOK, SuccessIsReadable, Job
    <2>4. RunMatchesJob'
      BY DEF RunMatchesJob
    <2>5. JobIsKnown'
      BY DEF TypeOK, JobIsKnown, Job
    <2>6. OpenAboveActive'
      BY DEF TypeOK, OpenAboveActive, Open, Job
    <2>7. VersionIsUsable'
      BY DEF VersionIsUsable
    <2> QED BY <2>1, <2>2, <2>3, <2>4, <2>5, <2>6, <2>7 DEF ViewsInvariant
  <1>11. CASE Save
    <2> USE <1>0, <1>11 DEF Save, Writable, Published
    <2>1. TypeOK'
      BY DEF TypeOK, Lifecycle
    <2>2. PointerIsActive'
      BY DEF PointerIsActive
    <2>3. SuccessIsReadable'
      BY DEF SuccessIsReadable, RunMatchesJob
    <2>4. VersionIsUsable'
      BY DEF TypeOK, VersionIsUsable, RunMatchesJob, OpenAboveActive, Open, Copy
    <2>5. RunMatchesJob'
      BY DEF RunMatchesJob
    <2>6. JobIsKnown'
      BY DEF JobIsKnown
    <2>7. OpenAboveActive'
      BY DEF TypeOK, OpenAboveActive, Open, RunMatchesJob, JobIsKnown
    <2> QED BY <2>1, <2>2, <2>3, <2>4, <2>5, <2>6, <2>7 DEF ViewsInvariant
  <1>12. CASE SaveRefused
    <2> USE <1>0, <1>12 DEF SaveRefused, Writable, Conclude, Closed
    <2>1. TypeOK'
      <3>1. version' \in [Versions -> Lifecycle]
        BY DEF TypeOK, Lifecycle
      <3>2. job' \in Job
        BY DEF TypeOK, Job
      <3> QED BY <3>1, <3>2 DEF TypeOK
    <2>2. PointerIsActive'
      BY DEF PointerIsActive
    <2>3. SuccessIsReadable'
      BY DEF SuccessIsReadable
    <2>4. RunMatchesJob'
      BY DEF RunMatchesJob
    <2>5. JobIsKnown'
      BY DEF JobIsKnown
    <2>6. OpenAboveActive'
      BY DEF OpenAboveActive, Open
    <2>7. VersionIsUsable'
      BY DEF VersionIsUsable
    <2> QED BY <2>1, <2>2, <2>3, <2>4, <2>5, <2>6, <2>7 DEF ViewsInvariant
  <1>13. CASE Complete
    <2> USE <1>0, <1>13 DEF Complete, Conclude, Closed
    <2>1. TypeOK'
      <3>1. version' \in [Versions -> Lifecycle]
        BY DEF TypeOK, PointerIsActive, RunMatchesJob
      <3>2. job' \in Job
        BY DEF TypeOK, Job
      <3> QED BY <3>1, <3>2 DEF TypeOK
    <2>2. PointerIsActive'
      BY DEF PointerIsActive
    <2>3. SuccessIsReadable'
      BY DEF SuccessIsReadable, RunMatchesJob
    <2>4. RunMatchesJob'
      BY DEF RunMatchesJob
    <2>5. JobIsKnown'
      BY DEF JobIsKnown
    <2>6. OpenAboveActive'
      BY DEF OpenAboveActive, Open
    <2>7. VersionIsUsable'
      BY DEF VersionIsUsable
    <2> QED BY <2>1, <2>2, <2>3, <2>4, <2>5, <2>6, <2>7 DEF ViewsInvariant
  <1>14. CASE UNCHANGED vars
    BY <1>0, <1>14
    DEF vars, rows, ViewsInvariant, TypeOK, PointerIsActive, SuccessIsReadable,
        VersionIsUsable, RunMatchesJob, JobIsKnown, OpenAboveActive, Open
  <1> QED BY <1>1, <1>2, <1>3, <1>4, <1>5, <1>6, <1>7, <1>8, <1>9, <1>10, <1>11, <1>12, <1>13, <1>14 DEF Next

\* The inductive invariant that the theorems below are parts of.
THEOREM ViewsInvariantHolds == Spec => []ViewsInvariant
  BY InitViews, NextViews, PTL DEF Spec

\* TypeOK, for any constants.
THEOREM TypesHold == Spec => []TypeOK
  BY ViewsInvariantHolds, PTL DEF ViewsInvariant

\* The active pointer and the lifecycles agree in every reachable state.
THEOREM PointerIsActiveHolds == Spec => []PointerIsActive
  BY ViewsInvariantHolds, PTL DEF ViewsInvariant

\* A job says succeeded only of the version that readers would load.
THEOREM SuccessIsReadableHolds == Spec => []SuccessIsReadable
  BY ViewsInvariantHolds, PTL DEF ViewsInvariant

\* The API's copy never leads the rows, and says indexed whenever it has a version.
THEOREM VersionIsUsableHolds == Spec => []VersionIsUsable
  BY ViewsInvariantHolds, PTL DEF ViewsInvariant
=============================================================================
