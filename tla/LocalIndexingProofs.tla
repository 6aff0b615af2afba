------------------------ MODULE LocalIndexingProofs ------------------------
(***************************************************************************)
(* For any handlers, operations and bounds: the types of LocalIndexing, and  *)
(* that no version is shown before it was committed, even if handlers submit *)
(* at the same time.  If they do not, that one thread indexes at a time,     *)
(* that no job is given up while its thread is alive, and that an index which *)
(* readers have stays readable.                                             *)
(***************************************************************************)
EXTENDS LocalIndexing, TLAPS

\* A job has a version as soon as a handler or a thread works on it, so that the
\* number of a running job is not given away again.
Numbered ==
  /\ \A j \in Jobs : version[j] = 0 => thread[j] = "none"
  /\ \A c \in Clients : at[c] \in {"save", "announce", "start"} =>
       job[c] \in Jobs /\ version[job[c]] # 0

\* Memory and the repository row name committed versions, and a thread replaces the
\* one in memory only after its commit.
Committed ==
  /\ repo.version \in stored \cup {0}
  /\ saved.version \in stored \cup {0}
  /\ \A j \in Jobs : thread[j] = "replace" => version[j] \in stored

\* A control request that is under way is one of the three.
Requested ==
  \A c \in Clients : at[c] \in {"request", "signal", "record"} => seen[c] \in {"pause", "resume", "cancel"}

IndexingInvariant == TypeOK /\ Numbered /\ Committed /\ Requested

\* The invariant holds of a new database and of those that older versions left.
LEMMA InitIndexing == Init => IndexingInvariant
  <1> SUFFICES ASSUME Init PROVE IndexingInvariant
    OBVIOUS
  <1> USE BoundAssumption DEF Init, Jobs
  <1>1. TypeOK
    BY DEF TypeOK, Active, Status, Repository
  <1>2. Numbered
    BY DEF Numbered
  <1>3. Committed
    BY DEF Committed
  <1>4. Requested
    BY DEF Requested
  <1> QED BY <1>1, <1>2, <1>3, <1>4 DEF IndexingInvariant

\* Every step keeps the invariant; one step of the proof per action.
LEMMA NextIndexing == IndexingInvariant /\ [Next]_vars => IndexingInvariant'
  <1> SUFFICES ASSUME IndexingInvariant, [Next]_vars PROVE IndexingInvariant'
    OBVIOUS
  <1>0. TypeOK /\ Numbered /\ Committed /\ Requested
    BY DEF IndexingInvariant
  <1> USE <1>0 DEF Set, Goto, Move, Return, SaveMetadata, Memory, database, events, handlers, history
  <1>1. ASSUME NEW c \in Clients, SubmitRead(c) PROVE IndexingInvariant'
    <2> USE <1>1 DEF SubmitRead, Latest, Known
    <2>1. TypeOK'
      BY DEF TypeOK
    <2>2. Committed'
      BY DEF Committed
    <2>3. Numbered'
      BY DEF TypeOK, Numbered
    <2>4. Requested'
      BY DEF TypeOK, Requested
    <2> QED BY <2>1, <2>2, <2>3, <2>4 DEF IndexingInvariant
  <1>2. ASSUME NEW c \in Clients, SubmitCheck(c) PROVE IndexingInvariant'
    <2> USE <1>2 DEF SubmitCheck
    <2>1. TypeOK'
      BY DEF TypeOK
    <2>2. Committed'
      BY DEF Committed
    <2>3. Numbered'
      BY DEF TypeOK, Numbered
    <2>4. Requested'
      BY DEF TypeOK, Requested
    <2> QED BY <2>1, <2>2, <2>3, <2>4 DEF IndexingInvariant
  <1>3. ASSUME NEW c \in Clients, SubmitRetire(c) PROVE IndexingInvariant'
    <2> USE <1>3 DEF SubmitRetire
    <2>1. TypeOK'
      BY DEF TypeOK, Active, Status
    <2>2. Committed'
      BY DEF Committed
    <2>3. Numbered'
      BY DEF TypeOK, Numbered
    <2>4. Requested'
      BY DEF TypeOK, Requested
    <2> QED BY <2>1, <2>2, <2>3, <2>4 DEF IndexingInvariant
  <1>4. ASSUME NEW c \in Clients, SubmitRepair(c) PROVE IndexingInvariant'
    <2> USE <1>4 DEF SubmitRepair
    <2>1. TypeOK'
      BY DEF TypeOK, Repository
    <2>2. Numbered'
      BY DEF TypeOK, Numbered
    <2>3. Committed'
      BY DEF TypeOK, Committed
    <2>4. Requested'
      BY DEF TypeOK, Requested
    <2> QED BY <2>1, <2>2, <2>3, <2>4 DEF IndexingInvariant
  <1>5. ASSUME NEW c \in Clients, SubmitRecover(c) PROVE IndexingInvariant'
    <2> USE <1>5 DEF SubmitRecover
    <2>1. TypeOK'
      BY DEF TypeOK, Repository
    <2>2. Numbered'
      BY DEF TypeOK, Numbered
    <2>3. Committed'
      BY DEF TypeOK, Repository, Committed
    <2>4. Requested'
      BY DEF TypeOK, Requested
    <2> QED BY <2>1, <2>2, <2>3, <2>4 DEF IndexingInvariant
  <1>6. ASSUME NEW c \in Clients, SubmitCreate(c) PROVE IndexingInvariant'
    <2> USE <1>6 DEF SubmitCreate, NewJob
    <2>1. TypeOK'
      BY DEF TypeOK, Repository
    <2>2. Numbered'
      BY DEF TypeOK, Repository, Numbered
    <2>3. Committed'
      BY DEF TypeOK, Committed, Numbered
    <2>4. Requested'
      BY DEF TypeOK, Requested
    <2> QED BY <2>1, <2>2, <2>3, <2>4 DEF IndexingInvariant
  <1>7. ASSUME NEW c \in Clients, SubmitSave(c) PROVE IndexingInvariant'
    <2> USE <1>7 DEF SubmitSave
    <2>1. TypeOK'
      BY DEF TypeOK, Active, Status
    <2>2. Committed'
      BY DEF Committed
    <2>3. Numbered'
      BY DEF TypeOK, Numbered
    <2>4. Requested'
      BY DEF TypeOK, Requested
    <2> QED BY <2>1, <2>2, <2>3, <2>4 DEF IndexingInvariant
  <1>8. ASSUME NEW c \in Clients, SubmitAnnounce(c) PROVE IndexingInvariant'
    <2> USE <1>8 DEF SubmitAnnounce
    <2>1. TypeOK'
      BY DEF TypeOK
    <2>2. Numbered'
      BY DEF TypeOK, Numbered
    <2>3. Committed'
      BY DEF TypeOK, Committed
    <2>4. Requested'
      BY DEF TypeOK, Requested
    <2> QED BY <2>1, <2>2, <2>3, <2>4 DEF IndexingInvariant
  <1>9. ASSUME NEW c \in Clients, SubmitStart(c) PROVE IndexingInvariant'
    <2> USE <1>9 DEF SubmitStart
    <2>1. TypeOK'
      BY DEF TypeOK, Numbered
    <2>2. Numbered'
      BY DEF TypeOK, Numbered
    <2>3. Committed'
      BY DEF TypeOK, Committed
    <2>4. Requested'
      BY DEF TypeOK, Requested
    <2> QED BY <2>1, <2>2, <2>3, <2>4 DEF IndexingInvariant
  <1>10. ASSUME NEW c \in Clients, ControlRead(c) PROVE IndexingInvariant'
    <2> USE <1>10 DEF ControlRead
    <2>1. TypeOK'
      BY DEF TypeOK, Active, Status, Admits
    <2>2. Committed'
      BY DEF Committed
    <2>3. Numbered'
      BY DEF TypeOK, Numbered
    <2>4. Requested'
      BY DEF TypeOK, Requested, Admits
    <2> QED BY <2>1, <2>2, <2>3, <2>4 DEF IndexingInvariant
  <1>11. ASSUME NEW c \in Clients, ControlRequest(c) PROVE IndexingInvariant'
    <2> USE <1>11 DEF ControlRequest
    <2>1. TypeOK'
      BY DEF TypeOK
    <2>2. Committed'
      BY DEF Committed
    <2>3. Numbered'
      BY DEF TypeOK, Numbered
    <2>4. Requested'
      BY DEF TypeOK, Requested
    <2> QED BY <2>1, <2>2, <2>3, <2>4 DEF IndexingInvariant
  <1>12. ASSUME NEW c \in Clients, ControlSignal(c) PROVE IndexingInvariant'
    <2> USE <1>12 DEF ControlSignal
    <2>1. TypeOK'
      <3>1. resume' \in [Jobs -> BOOLEAN]
        BY Zenon DEF TypeOK
      <3>2. thread' \in [Jobs -> {"none", "check", "step", "pausing", "waiting", "woken", "finish",
                              "publish", "replace", "cancelled", "note", "leave", "gone"}]
        BY DEF TypeOK
      <3> QED BY <3>1, <3>2 DEF TypeOK, Active, Status, Repository
    <2>2. Numbered'
      BY DEF TypeOK, Numbered
    <2>3. Committed'
      BY DEF TypeOK, Committed
    <2>4. Requested'
      BY DEF TypeOK, Requested
    <2> QED BY <2>1, <2>2, <2>3, <2>4 DEF IndexingInvariant
  <1>13. ASSUME NEW c \in Clients, ControlSave(c) PROVE IndexingInvariant'
    <2> USE <1>13 DEF ControlSave, Leaves
    <2>1. TypeOK'
      <3>1. Leaves[seen[c]] \in {"paused", "running", "cancelling"}
        <4>1. CASE seen[c] = "pause"
          BY <4>1
        <4>2. CASE seen[c] = "resume"
          BY <4>2
        <4>3. CASE seen[c] = "cancel"
          BY <4>3
        <4> QED BY <4>1, <4>2, <4>3 DEF Requested
      <3> HIDE DEF Leaves
      <3> QED BY <3>1 DEF TypeOK, Active, Status
    <2>2. Committed'
      BY DEF Committed
    <2>3. Numbered'
      BY DEF TypeOK, Numbered
    <2>4. Requested'
      BY DEF TypeOK, Requested
    <2> QED BY <2>1, <2>2, <2>3, <2>4 DEF IndexingInvariant
  <1>14. ASSUME NEW c \in Clients, StatusRead(c) PROVE IndexingInvariant'
    <2> USE <1>14 DEF StatusRead, Latest, Known
    <2>1. TypeOK'
      BY DEF TypeOK
    <2>2. Committed'
      BY DEF Committed
    <2>3. Numbered'
      BY DEF TypeOK, Numbered
    <2>4. Requested'
      BY DEF TypeOK, Requested
    <2> QED BY <2>1, <2>2, <2>3, <2>4 DEF IndexingInvariant
  <1>15. ASSUME NEW c \in Clients, StatusRepair(c) PROVE IndexingInvariant'
    <2> USE <1>15 DEF StatusRepair
    <2>1. TypeOK'
      BY DEF TypeOK, Active, Status, Repository
    <2>2. Numbered'
      BY DEF TypeOK, Numbered
    <2>3. Committed'
      BY DEF TypeOK, Repository, Committed
    <2>4. Requested'
      BY DEF TypeOK, Requested
    <2> QED BY <2>1, <2>2, <2>3, <2>4 DEF IndexingInvariant
  <1>16. ASSUME NEW c \in Clients, StatusSave(c) PROVE IndexingInvariant'
    <2> USE <1>16 DEF StatusSave
    <2>1. TypeOK'
      BY DEF TypeOK
    <2>2. Numbered'
      BY DEF TypeOK, Numbered
    <2>3. Committed'
      BY DEF TypeOK, Committed
    <2>4. Requested'
      BY DEF TypeOK, Requested
    <2> QED BY <2>1, <2>2, <2>3, <2>4 DEF IndexingInvariant
  <1>17. ASSUME NEW j \in Jobs, CheckControl(j) PROVE IndexingInvariant'
    <2> USE <1>17 DEF CheckControl
    <2>1. TypeOK'
      BY DEF TypeOK, Active, Status
    <2>2. Requested'
      BY DEF Requested
    <2>3. Numbered'
      BY DEF TypeOK, Numbered
    <2>4. Committed'
      BY DEF TypeOK, Committed
    <2> QED BY <2>1, <2>2, <2>3, <2>4 DEF IndexingInvariant
  <1>18. ASSUME NEW j \in Jobs, Wait(j) PROVE IndexingInvariant'
    <2> USE <1>18 DEF Wait
    <2>1. TypeOK'
      BY DEF TypeOK
    <2>2. Requested'
      BY DEF Requested
    <2>3. Numbered'
      BY DEF TypeOK, Numbered
    <2>4. Committed'
      BY DEF TypeOK, Committed
    <2> QED BY <2>1, <2>2, <2>3, <2>4 DEF IndexingInvariant
  <1>19. ASSUME NEW j \in Jobs, Woken(j) PROVE IndexingInvariant'
    <2> USE <1>19 DEF Woken
    <2>1. TypeOK'
      BY DEF TypeOK, Active, Status
    <2>2. Requested'
      BY DEF Requested
    <2>3. Numbered'
      BY DEF TypeOK, Numbered
    <2>4. Committed'
      BY DEF TypeOK, Committed
    <2> QED BY <2>1, <2>2, <2>3, <2>4 DEF IndexingInvariant
  <1>20. ASSUME NEW j \in Jobs, Step(j) PROVE IndexingInvariant'
    <2> USE <1>20 DEF Step
    <2>1. TypeOK'
      BY DEF TypeOK, Active, Status
    <2>2. Requested'
      BY DEF Requested
    <2>3. Numbered'
      BY DEF TypeOK, Numbered
    <2>4. Committed'
      BY DEF TypeOK, Committed
    <2> QED BY <2>1, <2>2, <2>3, <2>4 DEF IndexingInvariant
  <1>21. ASSUME NEW j \in Jobs, Finish(j) PROVE IndexingInvariant'
    <2> USE <1>21 DEF Finish
    <2>1. TypeOK'
      BY DEF TypeOK, Active, Status
    <2>2. Requested'
      BY DEF Requested
    <2>3. Numbered'
      BY DEF TypeOK, Numbered
    <2>4. Committed'
      BY DEF TypeOK, Committed
    <2> QED BY <2>1, <2>2, <2>3, <2>4 DEF IndexingInvariant
  <1>22. ASSUME NEW j \in Jobs, Publish(j) PROVE IndexingInvariant'
    <2> USE <1>22 DEF Publish
    <2>1. TypeOK'
      BY DEF TypeOK, Repository
    <2>2. Requested'
      BY DEF Requested
    <2>3. Numbered'
      BY DEF TypeOK, Numbered
    <2>4. Committed'
      BY DEF TypeOK, Committed
    <2> QED BY <2>1, <2>2, <2>3, <2>4 DEF IndexingInvariant
  <1>23. ASSUME NEW j \in Jobs, Replace(j) PROVE IndexingInvariant'
    <2> USE <1>23 DEF Replace
    <2>1. TypeOK'
      BY DEF TypeOK, Repository
    <2>2. Requested'
      BY DEF Requested
    <2>3. Numbered'
      BY DEF TypeOK, Numbered
    <2>4. Committed'
      BY DEF TypeOK, Committed
    <2> QED BY <2>1, <2>2, <2>3, <2>4 DEF IndexingInvariant
  <1>24. ASSUME NEW j \in Jobs, Cancelled(j) PROVE IndexingInvariant'
    <2> USE <1>24 DEF Cancelled
    <2>1. TypeOK'
      BY DEF TypeOK, Active, Status, Repository
    <2>2. Requested'
      BY DEF Requested
    <2>3. Numbered'
      BY DEF TypeOK, Numbered
    <2>4. Committed'
      BY DEF TypeOK, Committed
    <2> QED BY <2>1, <2>2, <2>3, <2>4 DEF IndexingInvariant
  <1>25. ASSUME NEW j \in Jobs, Fail(j) PROVE IndexingInvariant'
    <2> USE <1>25 DEF Fail
    <2>1. TypeOK'
      BY DEF TypeOK, Active, Status, Repository
    <2>2. Requested'
      BY DEF Requested
    <2>3. Numbered'
      BY DEF TypeOK, Numbered
    <2>4. Committed'
      BY DEF TypeOK, Committed
    <2> QED BY <2>1, <2>2, <2>3, <2>4 DEF IndexingInvariant
  <1>26. ASSUME NEW j \in Jobs, Note(j) PROVE IndexingInvariant'
    <2> USE <1>26 DEF Note
    <2>1. TypeOK'
      BY DEF TypeOK
    <2>2. Requested'
      BY DEF Requested
    <2>3. Numbered'
      BY DEF TypeOK, Numbered
    <2>4. Committed'
      BY DEF TypeOK, Committed
    <2> QED BY <2>1, <2>2, <2>3, <2>4 DEF IndexingInvariant
  <1>27. ASSUME NEW j \in Jobs, Leave(j) PROVE IndexingInvariant'
    <2> USE <1>27 DEF Leave
    <2>1. TypeOK'
      BY DEF TypeOK
    <2>2. Requested'
      BY DEF Requested
    <2>3. Numbered'
      BY DEF TypeOK, Numbered
    <2>4. Committed'
      BY DEF TypeOK, Committed
    <2> QED BY <2>1, <2>2, <2>3, <2>4 DEF IndexingInvariant
  <1>28. CASE Restart
    <2> USE <1>28 DEF Restart
    <2>1. TypeOK'
      BY DEF TypeOK
    <2>2. Numbered'
      BY DEF TypeOK, Numbered
    <2>3. Committed'
      BY DEF TypeOK, Committed
    <2>4. Requested'
      BY DEF TypeOK, Requested
    <2> QED BY <2>1, <2>2, <2>3, <2>4 DEF IndexingInvariant
  <1>29. CASE UNCHANGED vars
    BY <1>29 DEF vars, IndexingInvariant, TypeOK, Numbered, Committed, Requested
  <1> QED
    BY <1>1, <1>2, <1>3, <1>4, <1>5, <1>6, <1>7, <1>8, <1>9, <1>10, <1>11, <1>12, <1>13, <1>14, <1>15, <1>16, <1>17, <1>18, <1>19, <1>20, <1>21, <1>22, <1>23, <1>24, <1>25, <1>26, <1>27, <1>28, <1>29 DEF Next, Submit, Control, ServeStatus, Thread

\* The inductive invariant that the theorems below are parts of.
THEOREM IndexingInvariantHolds == Spec => []IndexingInvariant
  BY InitIndexing, NextIndexing, PTL DEF Spec

\* TypeOK, for any constants.
THEOREM TypesHold == Spec => []TypeOK
  BY IndexingInvariantHolds, PTL DEF IndexingInvariant

\* Readers are shown committed versions only, in any number of jobs and requests.
THEOREM ExposedIsStoredHolds == Spec => []ExposedIsStored
  <1>1. IndexingInvariant => ExposedIsStored
    BY DEF IndexingInvariant, Committed, ExposedIsStored
  <1> QED BY <1>1, IndexingInvariantHolds, PTL

---------------------------------------------------------------------------
(* Mutual exclusion of the threads. *)

\* One submission at a time; any number of other requests.
OneSubmitter ==
  \A c, d \in Clients : "submit" \in Operations[c] /\ "submit" \in Operations[d] => c = d

\* A handler is in a submission, and has a new job in hand.
Submits(c) == at[c] \in {"check", "retire", "repair", "create", "save", "announce", "start"}
Prepares(c) == at[c] \in {"save", "announce", "start"}

\* Handlers do what they are there for.
Submitters == \A c \in Clients : Submits(c) => "submit" \in Operations[c]

\* Jobs are created one after another, and saved after that.
InOrder ==
  /\ \A j, k \in Jobs : version[j] = 0 /\ j < k => version[k] = 0
  /\ \A j \in Jobs : row[j] # None => version[j] # 0

\* A control is registered with its thread and until the thread is gone.
LiveIsControlled ==
  /\ \A j \in Jobs : Alive(j) => j \in controls /\ row[j] # None
  /\ \A j \in controls : thread[j] # "none"

\* A submission that looks at the last job finds it active while its thread works.
WorkingIsLast ==
  \A j \in Jobs : Working(j) => row[j] \in Active /\ \A k \in Jobs : j < k => version[k] = 0

\* No job is saved while a submission looks at the last one.
Looking ==
  \A c \in Clients :
    /\ at[c] \in {"check", "retire"} =>
         job[c] \in Jobs /\ row[job[c]] # None /\ \A k \in Jobs : row[k] # None => k <= job[c]
    /\ at[c] = "retire" => job[c] \notin controls

\* The other requests work on jobs that were started, or are completed.
Others ==
  \A c \in Clients :
    /\ at[c] \in {"request", "signal", "record"} =>
         job[c] \in Jobs /\ thread[job[c]] # "none" /\ row[job[c]] # None
    /\ at[c] = "repairs" => job[c] \in Jobs /\ row[job[c]] # None
    /\ at[c] = "repairs" /\ seen[c] = "completed" =>
         ~Working(job[c]) /\ \A d \in Clients : Prepares(d) => job[d] # job[c]

\* A new job is the last one, and nobody else knows it before it is started.
Preparing ==
  \A c \in Clients : Prepares(c) =>
    /\ thread[job[c]] = "none"
    /\ \A k \in Jobs : job[c] < k => version[k] = 0
    /\ row[job[c]] = IF at[c] = "save" THEN None ELSE "running"

\* From the retirement of the last job to the start of the next no thread works.
Alone ==
  \A c \in Clients : Submits(c) /\ at[c] # "check" => \A j \in Jobs : ~Working(j)

\* The strengthening: OneIndexer needs to know what a submission in progress saw.
Exclusion ==
  /\ Submitters /\ InOrder /\ LiveIsControlled /\ WorkingIsLast /\ Looking /\ Others
  /\ Preparing /\ Alone /\ RetiredIsDead

\* Exclusion holds before anything is submitted.
LEMMA InitExclusion == Init => Exclusion
  <1> SUFFICES ASSUME Init PROVE Exclusion
    OBVIOUS
  <1> USE BoundAssumption DEF Init, Jobs, Submits, Prepares, Alive, Working
  <1>1. Submitters /\ Looking /\ Others /\ Preparing /\ Alone
    BY DEF Submitters, Looking, Others, Preparing, Alone
  <1>2. InOrder
    BY DEF InOrder
  <1>3. LiveIsControlled /\ WorkingIsLast /\ RetiredIsDead
    BY DEF LiveIsControlled, WorkingIsLast, RetiredIsDead
  <1> QED BY <1>1, <1>2, <1>3 DEF Exclusion

\* Every step keeps it when submissions come one after another.
LEMMA NextExclusion ==
  ASSUME OneSubmitter, IndexingInvariant, Exclusion, [Next]_vars
  PROVE  Exclusion'
  <1>0. TypeOK /\ Numbered /\ Exclusion
    BY DEF IndexingInvariant
  <1> USE <1>0, NoneAssumption, OneSubmitter DEF Exclusion, Status, Active, OneSubmitter, Submits, Prepares, Alive, Working,
      Set, Goto, Move, Return, SaveMetadata, Memory, database, events, handlers, history
  <1>1. ASSUME NEW c \in Clients, SubmitRead(c) PROVE Exclusion'
    <2> USE <1>1 DEF SubmitRead, Latest, Known
    <2>1. InOrder' /\ LiveIsControlled' /\ WorkingIsLast' /\ RetiredIsDead'
      BY DEF InOrder, LiveIsControlled, WorkingIsLast, RetiredIsDead
    <2>2. Submitters'
      BY DEF TypeOK, Submitters
    <2>3. Looking'
      BY DEF TypeOK, Looking
    <2>4. Others'
      BY DEF TypeOK, Others
    <2>5. Preparing'
      BY DEF TypeOK, Preparing
    <2>6. Alone'
      <3> SUFFICES ASSUME NEW d \in Clients, Submits(d)', at'[d] # "check", NEW j \in Jobs, Working(j)
                   PROVE  FALSE
        BY DEF Alone
      <3>1. d = c
        BY DEF TypeOK, Submitters
      <3>2. row[j] \in Active
        BY DEF WorkingIsLast
      <3>3. PICK l \in Jobs : row[l] # None /\ row[l] \notin Active /\ j <= l
        BY <3>1, <3>2 DEF TypeOK
      <3>4. j < l
        BY <3>2, <3>3, BoundAssumption DEF Jobs
      <3> QED BY <3>3, <3>4 DEF WorkingIsLast, InOrder
    <2> QED BY <2>1, <2>2, <2>3, <2>4, <2>5, <2>6
  <1>2. ASSUME NEW c \in Clients, SubmitCheck(c) PROVE Exclusion'
    <2> USE <1>2 DEF SubmitCheck
    <2>1. InOrder' /\ LiveIsControlled' /\ WorkingIsLast' /\ RetiredIsDead'
      BY DEF InOrder, LiveIsControlled, WorkingIsLast, RetiredIsDead
    <2>2. Submitters'
      BY DEF TypeOK, Submitters
    <2>3. Looking'
      BY DEF TypeOK, Looking
    <2>4. Others'
      BY DEF TypeOK, Others
    <2>5. Preparing'
      BY DEF TypeOK, Preparing
    <2>6. Alone'
      <3> SUFFICES ASSUME NEW d \in Clients, Submits(d)', at'[d] # "check", NEW j \in Jobs, Working(j)
                   PROVE  FALSE
        BY DEF Alone
      <3>1. d = c
        BY DEF TypeOK, Submitters
      <3>2. job[c] \in Jobs /\ row[job[c]] # None /\ j <= job[c] /\ j # job[c]
        BY <3>1 DEF TypeOK, Looking, LiveIsControlled
      <3>3. j < job[c]
        BY <3>2, BoundAssumption DEF Jobs
      <3> QED BY <3>2, <3>3 DEF WorkingIsLast, InOrder
    <2> QED BY <2>1, <2>2, <2>3, <2>4, <2>5, <2>6
  <1>3. ASSUME NEW c \in Clients, SubmitRetire(c) PROVE Exclusion'
    <2> USE <1>3 DEF SubmitRetire
    <2>1. Submitters'
      BY DEF TypeOK, Submitters
    <2>2. InOrder'
      BY DEF TypeOK, InOrder, Looking
    <2>3. LiveIsControlled'
      BY DEF TypeOK, LiveIsControlled
    <2>4. WorkingIsLast'
      BY DEF TypeOK, Alone, WorkingIsLast
    <2>5. Looking'
      BY DEF TypeOK, Looking
    <2>6. Others'
      BY DEF TypeOK, Others
    <2>7. Preparing'
      BY DEF TypeOK, Preparing, Submitters
    <2>8. Alone'
      BY DEF TypeOK, Alone
    <2>9. RetiredIsDead'
      BY DEF TypeOK, RetiredIsDead, Preparing, Looking, LiveIsControlled
    <2> QED BY <2>1, <2>2, <2>3, <2>4, <2>5, <2>6, <2>7, <2>8, <2>9
  <1>4. ASSUME NEW c \in Clients, SubmitRepair(c) PROVE Exclusion'
    <2> USE <1>4 DEF SubmitRepair
    <2>1. InOrder' /\ LiveIsControlled' /\ WorkingIsLast' /\ RetiredIsDead'
      BY DEF InOrder, LiveIsControlled, WorkingIsLast, RetiredIsDead
    <2>2. Submitters'
      BY DEF TypeOK, Submitters
    <2>3. Looking'
      BY DEF TypeOK, Looking
    <2>4. Others'
      BY DEF TypeOK, Others
    <2>5. Preparing'
      BY DEF TypeOK, Preparing
    <2>6. Alone'
      BY DEF TypeOK, Alone
    <2> QED BY <2>1, <2>2, <2>3, <2>4, <2>5, <2>6
  <1>5. ASSUME NEW c \in Clients, SubmitRecover(c) PROVE Exclusion'
    <2> USE <1>5 DEF SubmitRecover
    <2>1. InOrder' /\ LiveIsControlled' /\ WorkingIsLast' /\ RetiredIsDead'
      BY DEF InOrder, LiveIsControlled, WorkingIsLast, RetiredIsDead
    <2>2. Submitters'
      BY DEF TypeOK, Submitters
    <2>3. Looking'
      BY DEF TypeOK, Looking
    <2>4. Others'
      BY DEF TypeOK, Others
    <2>5. Preparing'
      BY DEF TypeOK, Preparing
    <2>6. Alone'
      BY DEF TypeOK, Alone
    <2> QED BY <2>1, <2>2, <2>3, <2>4, <2>5, <2>6
  <1>6. ASSUME NEW c \in Clients, SubmitCreate(c) PROVE Exclusion'
    <2> USE <1>6, BoundAssumption DEF SubmitCreate, NewJob, Jobs
    <2>1. LiveIsControlled' /\ RetiredIsDead'
      BY DEF LiveIsControlled, RetiredIsDead
    <2>2. Submitters'
      BY DEF TypeOK, Submitters
    <2>3. InOrder'
      BY DEF TypeOK, InOrder
    <2>4. WorkingIsLast'
      BY DEF TypeOK, Alone, WorkingIsLast
    <2>5. Looking'
      BY DEF TypeOK, Looking
    <2>6. Others'
      BY DEF TypeOK, Others, InOrder
    <2>7. Preparing'
      BY DEF TypeOK, Preparing, Submitters, InOrder, Others, Numbered, Repository
    <2>8. Alone'
      BY DEF TypeOK, Alone
    <2> QED BY <2>1, <2>2, <2>3, <2>4, <2>5, <2>6, <2>7, <2>8
  <1>7. ASSUME NEW c \in Clients, SubmitSave(c) PROVE Exclusion'
    <2> USE <1>7 DEF SubmitSave
    <2>1. Submitters'
      BY DEF TypeOK, Submitters
    <2>2. InOrder'
      BY DEF TypeOK, InOrder, Numbered
    <2>3. LiveIsControlled'
      BY DEF TypeOK, LiveIsControlled
    <2>4. WorkingIsLast'
      BY DEF TypeOK, WorkingIsLast
    <2>5. Looking'
      BY DEF TypeOK, Looking, Submitters
    <2>6. Others'
      BY DEF TypeOK, Others
    <2>7. Preparing'
      BY DEF TypeOK, Preparing, Submitters, InOrder, Others, Numbered, Repository
    <2>8. Alone'
      BY DEF TypeOK, Alone
    <2>9. RetiredIsDead'
      BY DEF TypeOK, RetiredIsDead
    <2> QED BY <2>1, <2>2, <2>3, <2>4, <2>5, <2>6, <2>7, <2>8, <2>9
  <1>8. ASSUME NEW c \in Clients, SubmitAnnounce(c) PROVE Exclusion'
    <2> USE <1>8 DEF SubmitAnnounce
    <2>1. InOrder' /\ LiveIsControlled' /\ WorkingIsLast' /\ RetiredIsDead'
      BY DEF InOrder, LiveIsControlled, WorkingIsLast, RetiredIsDead
    <2>2. Submitters'
      BY DEF TypeOK, Submitters
    <2>3. Looking'
      BY DEF TypeOK, Looking
    <2>4. Others'
      BY DEF TypeOK, Others
    <2>5. Preparing'
      BY DEF TypeOK, Preparing
    <2>6. Alone'
      BY DEF TypeOK, Alone
    <2> QED BY <2>1, <2>2, <2>3, <2>4, <2>5, <2>6
  <1>9. ASSUME NEW c \in Clients, SubmitStart(c) PROVE Exclusion'
    <2> USE <1>9 DEF SubmitStart
    <2>1. InOrder'
      BY DEF InOrder
    <2>2. Submitters'
      BY DEF TypeOK, Submitters
    <2>3. LiveIsControlled'
      BY DEF TypeOK, LiveIsControlled, Preparing, Numbered
    <2>4. WorkingIsLast'
      BY DEF TypeOK, WorkingIsLast, Preparing
    <2>5. Looking'
      BY DEF TypeOK, Looking, Submitters
    <2>6. Others'
      BY DEF TypeOK, Others
    <2>7. Preparing'
      BY DEF TypeOK, Preparing, Submitters
    <2>8. Alone'
      BY DEF TypeOK, Alone, Submitters
    <2>9. RetiredIsDead'
      BY DEF TypeOK, RetiredIsDead, Preparing
    <2> QED BY <2>1, <2>2, <2>3, <2>4, <2>5, <2>6, <2>7, <2>8, <2>9
  <1>10. ASSUME NEW c \in Clients, ControlRead(c) PROVE Exclusion'
    <2> USE <1>10 DEF ControlRead, Admits
    <2>1. InOrder' /\ LiveIsControlled' /\ WorkingIsLast' /\ RetiredIsDead'
      BY DEF InOrder, LiveIsControlled, WorkingIsLast, RetiredIsDead
    <2>2. Submitters'
      BY DEF TypeOK, Submitters
    <2>3. Looking'
      BY DEF TypeOK, Looking
    <2>4. Others'
      BY DEF TypeOK, Others, LiveIsControlled
    <2>5. Preparing'
      BY DEF TypeOK, Preparing
    <2>6. Alone'
      BY DEF TypeOK, Alone
    <2> QED BY <2>1, <2>2, <2>3, <2>4, <2>5, <2>6
  <1>11. ASSUME NEW c \in Clients, ControlRequest(c) PROVE Exclusion'
    <2> USE <1>11 DEF ControlRequest
    <2>1. InOrder' /\ LiveIsControlled' /\ WorkingIsLast' /\ RetiredIsDead'
      BY DEF InOrder, LiveIsControlled, WorkingIsLast, RetiredIsDead
    <2>2. Submitters'
      BY DEF TypeOK, Submitters
    <2>3. Looking'
      BY DEF TypeOK, Looking
    <2>4. Others'
      BY DEF TypeOK, Others
    <2>5. Preparing'
      BY DEF TypeOK, Preparing
    <2>6. Alone'
      BY DEF TypeOK, Alone
    <2> QED BY <2>1, <2>2, <2>3, <2>4, <2>5, <2>6
  <1>12. ASSUME NEW c \in Clients, ControlSignal(c) PROVE Exclusion'
    <2> USE <1>12 DEF ControlSignal
    <2>1. InOrder'
      BY DEF InOrder
    <2>2. Submitters'
      BY DEF TypeOK, Submitters
    <2>3. LiveIsControlled'
      BY DEF TypeOK, LiveIsControlled
    <2>4. WorkingIsLast'
      BY DEF TypeOK, WorkingIsLast
    <2>5. Looking'
      BY DEF TypeOK, Looking
    <2>6. Others'
      BY DEF TypeOK, Others
    <2>7. Preparing'
      BY DEF TypeOK, Preparing, Numbered
    <2>8. Alone'
      BY DEF TypeOK, Alone
    <2>9. RetiredIsDead'
      BY DEF TypeOK, RetiredIsDead
    <2> QED BY <2>1, <2>2, <2>3, <2>4, <2>5, <2>6, <2>7, <2>8, <2>9
  <1>13. ASSUME NEW c \in Clients, ControlSave(c) PROVE Exclusion'
    <2> USE <1>13 DEF ControlSave
    <2>0. Leaves[seen[c]] \in Active
      BY DEF IndexingInvariant, Requested, Leaves
    <2> USE <2>0
    <2>1. Submitters'
      BY DEF TypeOK, Submitters
    <2>2. InOrder'
      BY DEF TypeOK, InOrder, Others
    <2>3. LiveIsControlled'
      BY DEF TypeOK, LiveIsControlled
    <2>4. WorkingIsLast'
      BY DEF TypeOK, WorkingIsLast
    <2>5. Looking'
      BY DEF TypeOK, Others, Looking
    <2>6. Others'
      BY DEF TypeOK, Others
    <2>7. Preparing'
      BY DEF TypeOK, Preparing, Others
    <2>8. Alone'
      BY DEF TypeOK, Alone
    <2>9. RetiredIsDead'
      BY DEF TypeOK, RetiredIsDead
    <2> QED BY <2>1, <2>2, <2>3, <2>4, <2>5, <2>6, <2>7, <2>8, <2>9
  <1>14. ASSUME NEW c \in Clients, StatusRead(c) PROVE Exclusion'
    <2> USE <1>14 DEF StatusRead, Latest, Known
    <2>1. InOrder' /\ LiveIsControlled' /\ WorkingIsLast' /\ RetiredIsDead'
      BY DEF InOrder, LiveIsControlled, WorkingIsLast, RetiredIsDead
    <2>2. Submitters'
      BY DEF TypeOK, Submitters
    <2>3. Looking'
      BY DEF TypeOK, Looking
    <2>4. Others'
      BY DEF TypeOK, Others, Preparing, Submitters, InOrder, LiveIsControlled, WorkingIsLast, Numbered
    <2>5. Preparing'
      BY DEF TypeOK, Preparing
    <2>6. Alone'
      BY DEF TypeOK, Alone
    <2> QED BY <2>1, <2>2, <2>3, <2>4, <2>5, <2>6
  <1>15. ASSUME NEW c \in Clients, StatusRepair(c) PROVE Exclusion'
    <2> USE <1>15 DEF StatusRepair, Unpublished
    <2>1. Submitters'
      BY DEF TypeOK, Submitters
    <2>2. InOrder'
      BY DEF TypeOK, InOrder, Others
    <2>3. LiveIsControlled'
      BY DEF TypeOK, LiveIsControlled
    <2>4. WorkingIsLast'
      BY DEF TypeOK, WorkingIsLast, Others
    <2>5. Looking'
      BY DEF TypeOK, Others, Looking
    <2>6. Others'
      BY DEF TypeOK, Others
    <2>7. Preparing'
      BY DEF TypeOK, Preparing, Submitters, InOrder, Others, Numbered, Repository
    <2>8. Alone'
      BY DEF TypeOK, Alone
    <2>9. RetiredIsDead'
      BY DEF TypeOK, RetiredIsDead
    <2> QED BY <2>1, <2>2, <2>3, <2>4, <2>5, <2>6, <2>7, <2>8, <2>9
  <1>16. ASSUME NEW c \in Clients, StatusSave(c) PROVE Exclusion'
    <2> USE <1>16 DEF StatusSave
    <2>1. InOrder' /\ LiveIsControlled' /\ WorkingIsLast' /\ RetiredIsDead'
      BY DEF InOrder, LiveIsControlled, WorkingIsLast, RetiredIsDead
    <2>2. Submitters'
      BY DEF TypeOK, Submitters
    <2>3. Looking'
      BY DEF TypeOK, Looking
    <2>4. Others'
      BY DEF TypeOK, Others
    <2>5. Preparing'
      BY DEF TypeOK, Preparing
    <2>6. Alone'
      BY DEF TypeOK, Alone
    <2> QED BY <2>1, <2>2, <2>3, <2>4, <2>5, <2>6
  <1>17. ASSUME NEW j \in Jobs, CheckControl(j) PROVE Exclusion'
    <2> USE <1>17 DEF CheckControl
    <2>1. Submitters'
      BY DEF Submitters
    <2>2. InOrder'
      BY DEF TypeOK, InOrder, Numbered
    <2>3. LiveIsControlled'
      BY DEF TypeOK, LiveIsControlled
    <2>4. WorkingIsLast'
      BY DEF TypeOK, WorkingIsLast
    <2>5. Looking'
      BY DEF TypeOK, LiveIsControlled, Looking
    <2>6. Others'
      BY DEF TypeOK, Others
    <2>7. Preparing'
      BY DEF TypeOK, Preparing, Numbered
    <2>8. Alone'
      BY DEF TypeOK, Alone
    <2>9. RetiredIsDead'
      BY DEF TypeOK, RetiredIsDead
    <2> QED BY <2>1, <2>2, <2>3, <2>4, <2>5, <2>6, <2>7, <2>8, <2>9
  <1>18. ASSUME NEW j \in Jobs, Wait(j) PROVE Exclusion'
    <2> USE <1>18 DEF Wait
    <2>1. Submitters' /\ InOrder' /\ Looking'
      BY DEF Submitters, InOrder, Looking
    <2>2. LiveIsControlled'
      BY DEF TypeOK, LiveIsControlled
    <2>3. WorkingIsLast'
      BY DEF TypeOK, WorkingIsLast
    <2>4. Others'
      BY DEF TypeOK, Others
    <2>5. Preparing'
      BY DEF TypeOK, Preparing
    <2>6. Alone'
      BY DEF TypeOK, Alone
    <2>7. RetiredIsDead'
      BY DEF TypeOK, RetiredIsDead
    <2> QED BY <2>1, <2>2, <2>3, <2>4, <2>5, <2>6, <2>7
  <1>19. ASSUME NEW j \in Jobs, Woken(j) PROVE Exclusion'
    <2> USE <1>19 DEF Woken
    <2>1. Submitters'
      BY DEF Submitters
    <2>2. InOrder'
      BY DEF TypeOK, InOrder, Numbered
    <2>3. LiveIsControlled'
      BY DEF TypeOK, LiveIsControlled
    <2>4. WorkingIsLast'
      BY DEF TypeOK, WorkingIsLast
    <2>5. Looking'
      BY DEF TypeOK, LiveIsControlled, Looking
    <2>6. Others'
      BY DEF TypeOK, Others
    <2>7. Preparing'
      BY DEF TypeOK, Preparing, Numbered
    <2>8. Alone'
      BY DEF TypeOK, Alone
    <2>9. RetiredIsDead'
      BY DEF TypeOK, RetiredIsDead
    <2> QED BY <2>1, <2>2, <2>3, <2>4, <2>5, <2>6, <2>7, <2>8, <2>9
  <1>20. ASSUME NEW j \in Jobs, Step(j) PROVE Exclusion'
    <2> USE <1>20 DEF Step
    <2>1. Submitters'
      BY DEF Submitters
    <2>2. InOrder'
      BY DEF TypeOK, InOrder, Numbered
    <2>3. LiveIsControlled'
      BY DEF TypeOK, LiveIsControlled
    <2>4. WorkingIsLast'
      BY DEF TypeOK, WorkingIsLast
    <2>5. Looking'
      BY DEF TypeOK, LiveIsControlled, Looking
    <2>6. Others'
      BY DEF TypeOK, Others
    <2>7. Preparing'
      BY DEF TypeOK, Preparing, Numbered
    <2>8. Alone'
      BY DEF TypeOK, Alone
    <2>9. RetiredIsDead'
      BY DEF TypeOK, RetiredIsDead
    <2> QED BY <2>1, <2>2, <2>3, <2>4, <2>5, <2>6, <2>7, <2>8, <2>9
  <1>21. ASSUME NEW j \in Jobs, Finish(j) PROVE Exclusion'
    <2> USE <1>21 DEF Finish
    <2>1. Submitters'
      BY DEF Submitters
    <2>2. InOrder'
      BY DEF TypeOK, InOrder, Numbered
    <2>3. LiveIsControlled'
      BY DEF TypeOK, LiveIsControlled
    <2>4. WorkingIsLast'
      BY DEF TypeOK, WorkingIsLast
    <2>5. Looking'
      BY DEF TypeOK, LiveIsControlled, Looking
    <2>6. Others'
      BY DEF TypeOK, Others
    <2>7. Preparing'
      BY DEF TypeOK, Preparing
    <2>8. Alone'
      BY DEF TypeOK, Alone
    <2>9. RetiredIsDead'
      BY DEF TypeOK, RetiredIsDead
    <2> QED BY <2>1, <2>2, <2>3, <2>4, <2>5, <2>6, <2>7, <2>8, <2>9
  <1>22. ASSUME NEW j \in Jobs, Publish(j) PROVE Exclusion'
    <2> USE <1>22 DEF Publish
    <2>1. Submitters' /\ InOrder' /\ Looking'
      BY DEF Submitters, InOrder, Looking
    <2>2. LiveIsControlled'
      BY DEF TypeOK, LiveIsControlled
    <2>3. WorkingIsLast'
      BY DEF TypeOK, WorkingIsLast
    <2>4. Others'
      BY DEF TypeOK, Others
    <2>5. Preparing'
      BY DEF TypeOK, Preparing
    <2>6. Alone'
      BY DEF TypeOK, Alone
    <2>7. RetiredIsDead'
      BY DEF TypeOK, RetiredIsDead
    <2> QED BY <2>1, <2>2, <2>3, <2>4, <2>5, <2>6, <2>7
  <1>23. ASSUME NEW j \in Jobs, Replace(j) PROVE Exclusion'
    <2> USE <1>23 DEF Replace
    <2>1. Submitters' /\ InOrder' /\ Looking'
      BY DEF Submitters, InOrder, Looking
    <2>2. LiveIsControlled'
      BY DEF TypeOK, LiveIsControlled
    <2>3. WorkingIsLast'
      BY DEF TypeOK, WorkingIsLast
    <2>4. Others'
      BY DEF TypeOK, Others
    <2>5. Preparing'
      BY DEF TypeOK, Preparing
    <2>6. Alone'
      BY DEF TypeOK, Alone
    <2>7. RetiredIsDead'
      BY DEF TypeOK, RetiredIsDead
    <2> QED BY <2>1, <2>2, <2>3, <2>4, <2>5, <2>6, <2>7
  <1>24. ASSUME NEW j \in Jobs, Cancelled(j) PROVE Exclusion'
    <2> USE <1>24 DEF Cancelled
    <2>1. Submitters'
      BY DEF Submitters
    <2>2. InOrder'
      BY DEF TypeOK, InOrder, Numbered
    <2>3. LiveIsControlled'
      BY DEF TypeOK, LiveIsControlled
    <2>4. WorkingIsLast'
      BY DEF TypeOK, WorkingIsLast
    <2>5. Looking'
      BY DEF TypeOK, LiveIsControlled, Looking
    <2>6. Others'
      BY DEF TypeOK, Others
    <2>7. Preparing'
      BY DEF TypeOK, Preparing
    <2>8. Alone'
      BY DEF TypeOK, Alone
    <2>9. RetiredIsDead'
      BY DEF TypeOK, RetiredIsDead
    <2> QED BY <2>1, <2>2, <2>3, <2>4, <2>5, <2>6, <2>7, <2>8, <2>9
  <1>25. ASSUME NEW j \in Jobs, Fail(j) PROVE Exclusion'
    <2> USE <1>25 DEF Fail
    <2>1. Submitters'
      BY DEF Submitters
    <2>2. InOrder'
      BY DEF TypeOK, InOrder, Numbered
    <2>3. LiveIsControlled'
      BY DEF TypeOK, LiveIsControlled
    <2>4. WorkingIsLast'
      BY DEF TypeOK, WorkingIsLast
    <2>5. Looking'
      BY DEF TypeOK, LiveIsControlled, Looking
    <2>6. Others'
      BY DEF TypeOK, Others
    <2>7. Preparing'
      BY DEF TypeOK, Preparing
    <2>8. Alone'
      BY DEF TypeOK, Alone
    <2>9. RetiredIsDead'
      BY DEF TypeOK, RetiredIsDead
    <2> QED BY <2>1, <2>2, <2>3, <2>4, <2>5, <2>6, <2>7, <2>8, <2>9
  <1>26. ASSUME NEW j \in Jobs, Note(j) PROVE Exclusion'
    <2> USE <1>26 DEF Note
    <2>1. Submitters' /\ InOrder' /\ Looking'
      BY DEF Submitters, InOrder, Looking
    <2>2. LiveIsControlled'
      BY DEF TypeOK, LiveIsControlled
    <2>3. WorkingIsLast'
      BY DEF TypeOK, WorkingIsLast
    <2>4. Others'
      BY DEF TypeOK, Others
    <2>5. Preparing'
      BY DEF TypeOK, Preparing
    <2>6. Alone'
      BY DEF TypeOK, Alone
    <2>7. RetiredIsDead'
      BY DEF TypeOK, RetiredIsDead
    <2> QED BY <2>1, <2>2, <2>3, <2>4, <2>5, <2>6, <2>7
  <1>27. ASSUME NEW j \in Jobs, Leave(j) PROVE Exclusion'
    <2> USE <1>27 DEF Leave
    <2>1. Submitters' /\ InOrder'
      BY DEF Submitters, InOrder
    <2>2. LiveIsControlled'
      BY DEF TypeOK, LiveIsControlled
    <2>3. WorkingIsLast'
      BY DEF TypeOK, WorkingIsLast
    <2>4. Looking'
      BY DEF TypeOK, Looking
    <2>5. Others'
      BY DEF TypeOK, Others
    <2>6. Preparing'
      BY DEF TypeOK, Preparing
    <2>7. Alone'
      BY DEF TypeOK, Alone
    <2>8. RetiredIsDead'
      BY DEF TypeOK, RetiredIsDead
    <2> QED BY <2>1, <2>2, <2>3, <2>4, <2>5, <2>6, <2>7, <2>8
  <1>28. CASE Restart
    <2> USE <1>28 DEF Restart
    <2>1. InOrder'
      BY DEF InOrder
    <2>2. Submitters'
      BY DEF TypeOK, Submitters
    <2>3. LiveIsControlled'
      BY DEF TypeOK, LiveIsControlled
    <2>4. WorkingIsLast'
      BY DEF TypeOK, WorkingIsLast
    <2>5. Looking'
      BY DEF TypeOK, Looking
    <2>6. Others'
      BY DEF TypeOK, Others
    <2>7. Preparing'
      BY DEF TypeOK, Preparing
    <2>8. Alone'
      BY DEF TypeOK, Alone
    <2>9. RetiredIsDead'
      BY DEF TypeOK, RetiredIsDead
    <2> QED BY <2>1, <2>2, <2>3, <2>4, <2>5, <2>6, <2>7, <2>8, <2>9
  <1>29. CASE UNCHANGED vars
    BY <1>29 DEF vars, Submitters, InOrder, LiveIsControlled, WorkingIsLast, Looking, Others, Preparing, Alone, RetiredIsDead
  <1> QED
    BY <1>1, <1>2, <1>3, <1>4, <1>5, <1>6, <1>7, <1>8, <1>9, <1>10, <1>11, <1>12, <1>13, <1>14, <1>15, <1>16, <1>17, <1>18, <1>19, <1>20, <1>21, <1>22, <1>23, <1>24, <1>25, <1>26, <1>27, <1>28, <1>29 DEF Next, Submit, Control, ServeStatus, Thread

\* One thread indexes at a time and no live job is retired, for any number of jobs,
\* restarts and other requests, if submissions come one after another.
THEOREM OneIndexerHolds ==
  ASSUME OneSubmitter
  PROVE  Spec => [](OneIndexer /\ RetiredIsDead)
  <1>1. IndexingInvariant /\ Exclusion /\ [Next]_vars => Exclusion'
    BY OneSubmitter, NextExclusion
  <1>2. IndexingInvariant /\ Exclusion => OneIndexer /\ RetiredIsDead
    <2> SUFFICES ASSUME IndexingInvariant, Exclusion,
                        NEW j \in Jobs, NEW k \in Jobs, Working(j), Working(k), j # k
                 PROVE  FALSE
      BY DEF OneIndexer, Exclusion
    <2>1. version[j] # 0 /\ version[k] # 0
      BY DEF IndexingInvariant, Numbered, Working
    <2>2. j < k \/ k < j
      BY BoundAssumption DEF Jobs
    <2> QED BY <2>1, <2>2 DEF Exclusion, WorkingIsLast
  <1> QED BY <1>1, <1>2, InitExclusion, IndexingInvariantHolds, PTL DEF Spec
---------------------------------------------------------------------------
(* A readable index stays readable. *)

\* A version is active exactly when the repository says "indexed", but for a database
\* that an older version of the code left behind.
Exposed(state) ==
  /\ state.status = "indexed" => state.version # 0
  /\ state.version # 0 => state.status \in {"indexed", "indexing"}

\* A job is prepared, or its thread has neither published nor failed yet.
Building(j) ==
  \/ thread[j] \in {"check", "step", "pausing", "waiting", "woken", "finish", "publish", "replace",
                    "cancelled"}
  \/ \E c \in Clients : Prepares(c) /\ job[c] = j

\* What a job that fails or is cancelled will put back is what is there.
Restorable ==
  \A j \in Jobs : Building(j) =>
    IF previous[j] = "indexed" THEN repo.status = "indexed"
    ELSE repo = [status |-> "indexing", version |-> 0]

\* The job of a first index is the only one.
FirstIsAlone ==
  \A j, k \in Jobs : Building(j) /\ previous[j] # "indexed" =>
    /\ Building(k) => j = k
    /\ j < k => version[k] = 0

\* A submission that gives up an orphan repairs no first index that is being built.
NothingFirst ==
  \A c \in Clients, j \in Jobs :
    at[c] \in {"retire", "repair"} /\ Building(j) => previous[j] = "indexed"

\* An index that readers have has nothing to fear from a job, unless a status request
\* has failed a job too early.
Retained ==
  ~misjudged =>
    Exposed(repo) /\ Exposed(saved) /\ Restorable /\ FirstIsAlone /\ NothingFirst

LEMMA InitRetained == Init => Retained
  BY BoundAssumption DEF Init, Retained, Exposed, Restorable, FirstIsAlone, NothingFirst, Building, Prepares,
                         Jobs

\* A step that begins no job, and changes no repository, in memory.
LEMMA RetainedFrame ==
  ASSUME Retained, UNCHANGED <<repo, previous, version, misjudged>>,
         Exposed(repo) /\ Exposed(saved) => Exposed(saved'),
         \A j \in Jobs : Building(j)' => Building(j),
         \A c \in Clients : at'[c] \in {"retire", "repair"} => at[c] \in {"retire", "repair"}
  PROVE  Retained'
  <1> SUFFICES ASSUME ~misjudged PROVE Retained'
    BY DEF Retained
  <1>1. Exposed(repo') /\ Exposed(saved')
    BY DEF Retained
  <1>2. Restorable'
    BY DEF Retained, Restorable
  <1>3. FirstIsAlone'
    BY DEF Retained, FirstIsAlone
  <1>4. NothingFirst'
    BY DEF Retained, NothingFirst
  <1> QED BY <1>1, <1>2, <1>3, <1>4 DEF Retained

\* A step of a handler in which it takes up no new job.
LEMMA HandlerBuilds ==
  ASSUME NEW c \in Clients, UNCHANGED thread,
         \A d \in Clients \ {c} : at'[d] = at[d] /\ job'[d] = job[d],
         at'[c] \in {"save", "announce", "start"} => Prepares(c) /\ job'[c] = job[c]
  PROVE  \A j \in Jobs : Building(j)' => Building(j)
  BY DEF Building, Prepares

\* While the handler that submits looks at other jobs, each job that is built has a live
\* thread, a control and a row.
LEMMA BuildingThread ==
  ASSUME TypeOK, Exclusion, OneSubmitter, NEW c \in Clients, Submits(c), ~Prepares(c),
         NEW j \in Jobs, Building(j)
  PROVE  Alive(j) /\ j \in controls /\ row[j] # None
  <1>1. ~\E d \in Clients : Prepares(d) /\ job[d] = j
    BY DEF Exclusion, Submitters, OneSubmitter, Submits, Prepares
  <1>2. Alive(j)
    BY <1>1 DEF Building, Alive
  <1> QED BY <1>2 DEF Exclusion, LiveIsControlled

LEMMA NextRetained ==
  ASSUME OneSubmitter, IndexingInvariant, Exclusion, Retained, [Next]_vars
  PROVE  Retained'
  <1>0. TypeOK /\ Numbered
    BY DEF IndexingInvariant
  <1>1. ASSUME NEW c \in Clients,
               \/ SubmitRead(c) \/ SubmitRetire(c) \/ SubmitSave(c) \/ SubmitAnnounce(c)
               \/ ControlRead(c) \/ ControlSave(c) \/ StatusRead(c) \/ StatusSave(c)
        PROVE  Retained'
    <2>1. UNCHANGED <<repo, previous, version, misjudged, thread>>
      BY <1>1 DEF SubmitRead, SubmitRetire, SubmitSave, SubmitAnnounce, ControlRead, ControlSave,
                  StatusRead, StatusSave, Memory, database, history
    <2>2. saved' \in {saved, repo}
      BY <1>1 DEF SubmitRead, SubmitRetire, SubmitSave, SubmitAnnounce, ControlRead, ControlSave,
                  StatusRead, StatusSave, database, SaveMetadata
    <2>3. /\ \A d \in Clients \ {c} : at'[d] = at[d] /\ job'[d] = job[d]
          /\ at'[c] \in {"save", "announce", "start"} => Prepares(c) /\ job'[c] = job[c]
          /\ at'[c] \in {"retire", "repair"} => at[c] \in {"retire", "repair"}
      BY <1>0, <1>1 DEF SubmitRead, SubmitRetire, SubmitSave, SubmitAnnounce, ControlRead, ControlSave,
                  StatusRead, StatusSave, Goto, Return, TypeOK, Prepares
    <2>4. \A j \in Jobs : Building(j)' => Building(j)
      BY <2>1, <2>3, HandlerBuilds
    <2> QED BY <2>1, <2>2, <2>3, <2>4, RetainedFrame
  <1>2. ASSUME NEW c \in Clients, ControlRequest(c) \/ ControlSignal(c) PROVE Retained'
    <2>1. /\ UNCHANGED <<repo, saved, previous, version, misjudged>>
          /\ \A d \in Clients \ {c} : at'[d] = at[d] /\ job'[d] = job[d]
          /\ ~Prepares(c) /\ at'[c] \in {"signal", "record"}
      BY <1>0, <1>2 DEF ControlRequest, ControlSignal, Goto, TypeOK, Prepares, database, history
    <2>2. ASSUME NEW j \in Jobs, Building(j)' PROVE Building(j)
      <3>1. thread'[j] = thread[j] \/ thread[j] = "waiting"
        BY <1>0, <1>2 DEF ControlRequest, ControlSignal, Move, TypeOK
      <3> QED BY <2>1, <2>2, <3>1 DEF Building, Prepares
    <2>3. \A d \in Clients : at'[d] \in {"retire", "repair"} => at[d] \in {"retire", "repair"}
      BY <2>1
    <2> QED BY <2>1, <2>2, <2>3, RetainedFrame
  <1>3. ASSUME NEW c \in Clients, SubmitStart(c) PROVE Retained'
    <2>1. /\ UNCHANGED <<repo, saved, previous, version, misjudged>>
          /\ at[c] = "start" /\ job[c] \in Jobs
          /\ \A d \in Clients \ {c} : at'[d] = at[d] /\ job'[d] = job[d]
          /\ at'[c] = "idle" /\ \A j \in Jobs \ {job[c]} : thread'[j] = thread[j]
      BY <1>0, <1>3 DEF SubmitStart, Return, Goto, Move, TypeOK, Numbered, database, history
    <2>2. ASSUME NEW j \in Jobs, Building(j)' PROVE Building(j)
      BY <2>1, <2>2 DEF Building, Prepares
    <2>3. \A d \in Clients : at'[d] \in {"retire", "repair"} => at[d] \in {"retire", "repair"}
      BY <2>1
    <2> QED BY <2>1, <2>2, <2>3, RetainedFrame
  <1>4. ASSUME NEW c \in Clients, SubmitCheck(c) PROVE Retained'
    <2>1. /\ UNCHANGED <<repo, saved, previous, version, misjudged, thread, controls>>
          /\ at[c] = "check" /\ at'[c] \in {"idle", "retire"}
          /\ \A d \in Clients \ {c} : at'[d] = at[d] /\ job'[d] = job[d]
          /\ at'[c] = "retire" => job[c] \notin controls
      BY <1>0, <1>4 DEF SubmitCheck, Return, Goto, TypeOK, Memory, database, history
    <2>2. \A j \in Jobs : Building(j)' => Building(j)
      BY <2>1, HandlerBuilds
    <2>3. CASE at'[c] = "idle"
      <3>1. \A d \in Clients : at'[d] \in {"retire", "repair"} => at[d] \in {"retire", "repair"}
        BY <2>1, <2>3
      <3> QED BY <2>1, <2>2, <3>1, RetainedFrame
    <2>4. CASE at'[c] = "retire"
      <3> SUFFICES ASSUME ~misjudged PROVE Retained'
        BY <2>1 DEF Retained
      <3>1. ASSUME NEW j \in Jobs, Building(j), previous[j] # "indexed" PROVE FALSE
        <4>1. j \in controls /\ row[j] # None
          BY <1>0, <2>1, <3>1, BuildingThread DEF Submits, Prepares
        <4>2. /\ job[c] \in Jobs /\ row[job[c]] # None /\ j <= job[c] /\ j # job[c]
              /\ version[job[c]] # 0
          BY <2>1, <2>4, <4>1 DEF Exclusion, Looking, InOrder
        <4>3. j < job[c]
          BY <4>2, BoundAssumption DEF Jobs
        <4> QED BY <3>1, <4>2, <4>3 DEF Retained, FirstIsAlone
      <3>2. NothingFirst'
        BY <2>1, <2>2, <3>1 DEF NothingFirst
      <3>3. Restorable' /\ FirstIsAlone' /\ Exposed(repo') /\ Exposed(saved')
        BY <2>1, <2>2 DEF Retained, Restorable, FirstIsAlone
      <3> QED BY <3>2, <3>3 DEF Retained
    <2> QED BY <2>1, <2>3, <2>4
  <1>5. ASSUME NEW c \in Clients, SubmitRepair(c) PROVE Retained'
    <2> SUFFICES ASSUME ~misjudged PROVE Retained'
      BY <1>5 DEF Retained, SubmitRepair, history
    <2>1. /\ UNCHANGED <<previous, version, misjudged, thread>> /\ saved' = repo'
          /\ at[c] = "repair" /\ at'[c] = "create"
          /\ \A d \in Clients \ {c} : at'[d] = at[d] /\ job'[d] = job[d]
          /\ repo'.version = repo.version
          /\ repo'.status = IF repo.version > 0 THEN "indexed" ELSE "failed"
      BY <1>0, <1>5 DEF SubmitRepair, SaveMetadata, Goto, TypeOK, Repository, Memory, history
    <2>2. repo.version \in Nat
      BY <1>0 DEF TypeOK, Repository
    <2>3. \A j \in Jobs : Building(j)' => Building(j)
      BY <2>1, HandlerBuilds
    <2>4. ASSUME NEW j \in Jobs, Building(j) PROVE previous[j] = "indexed" /\ repo'.status = "indexed"
      <3>1. previous[j] = "indexed"
        BY <2>1, <2>4 DEF Retained, NothingFirst
      <3>2. repo.version # 0
        BY <2>4, <3>1 DEF Retained, Restorable, Exposed
      <3> QED BY <2>1, <2>2, <3>1, <3>2
    <2>5. Restorable' /\ FirstIsAlone'
      BY <2>1, <2>3, <2>4 DEF Restorable, FirstIsAlone
    <2>6. NothingFirst'
      BY <2>1, <2>3, <2>4 DEF NothingFirst
    <2>7. Exposed(repo')
      BY <2>1, <2>2 DEF Exposed
    <2> QED BY <2>1, <2>5, <2>6, <2>7 DEF Retained
  <1>6. ASSUME NEW c \in Clients, SubmitRecover(c) \/ StatusRepair(c) PROVE Retained'
    <2> SUFFICES ASSUME ~misjudged' PROVE Retained'
      BY DEF Retained
    <2>1. /\ UNCHANGED <<previous, version, misjudged, thread>>
          /\ at'[c] \in {at[c], "idle"} /\ at[c] \in {"create", "repairs"}
          /\ \A d \in Clients \ {c} : at'[d] = at[d] /\ job'[d] = job[d]
          /\ \/ UNCHANGED <<repo, saved>>
             \/ /\ repo' = [repo EXCEPT !.status = "indexed"]
                /\ saved' = repo' /\ repo.version > 0
                /\ repo.status = "indexing"
      BY <1>0, <1>6 DEF SubmitRecover, StatusRepair, SaveMetadata, Return, Goto, TypeOK, VersionProven,
                        Hidden, Memory, handlers, history
    <2>2. \A j \in Jobs : Building(j)' => Building(j)
      BY <2>1, HandlerBuilds
    <2>3. \A d \in Clients : at'[d] \in {"retire", "repair"} => at[d] \in {"retire", "repair"}
      BY <2>1
    <2>4. CASE UNCHANGED <<repo, saved>>
      BY <2>1, <2>2, <2>3, <2>4, RetainedFrame
    <2>5. CASE /\ repo' = [repo EXCEPT !.status = "indexed"] /\ saved' = repo' /\ repo.version > 0
               /\ repo.status = "indexing"
      <3>1. repo'.status = "indexed" /\ repo'.version = repo.version /\ repo.version \in Nat
        BY <1>0, <2>5 DEF TypeOK, Repository
      <3>2. Exposed(repo') /\ Exposed(saved')
        BY <2>5, <3>1 DEF Exposed
      <3>3. ASSUME NEW j \in Jobs, Building(j) PROVE FALSE
        BY <2>1, <2>5, <3>3 DEF Retained, Restorable
      <3>4. Restorable' /\ FirstIsAlone' /\ NothingFirst'
        BY <2>2, <3>3 DEF Restorable, FirstIsAlone, NothingFirst
      <3> QED BY <3>2, <3>4 DEF Retained
    <2> QED BY <2>1, <2>4, <2>5
  <1>7. ASSUME NEW c \in Clients, SubmitCreate(c) PROVE Retained'
    <2> SUFFICES ASSUME ~misjudged PROVE Retained'
      BY <1>7 DEF Retained, SubmitCreate, NewJob, history
    <2>1. PICK i \in Jobs :
            /\ version[i] = 0 /\ \A k \in 1..(i - 1) : version[k] # 0
            /\ job' = [job EXCEPT ![c] = i]
            /\ version' = [version EXCEPT ![i] = repo.version + 1]
            /\ previous' = [previous EXCEPT ![i] = repo.status]
      BY <1>7 DEF SubmitCreate, NewJob
    <2>2. /\ UNCHANGED <<saved, thread>> /\ at[c] = "create" /\ at'[c] = "save"
          /\ \A d \in Clients \ {c} : at'[d] = at[d] /\ job'[d] = job[d]
          /\ repo.status # "indexing" /\ repo'.version = repo.version
          /\ repo'.status = IF repo.status = "indexed" THEN "indexed" ELSE "indexing"
          /\ repo' \in Repository /\ repo.version \in Nat
      BY <1>0, <1>7 DEF SubmitCreate, NewJob, Goto, TypeOK, Repository
    <2>3. /\ previous'[i] = repo.status /\ \A k \in Jobs \ {i} : previous'[k] = previous[k]
          /\ \A k \in Jobs \ {i} : version'[k] = version[k]
      BY <1>0, <2>1 DEF TypeOK
    <2>4. ASSUME NEW j \in Jobs, Building(j)', j # i PROVE Building(j)
      BY <1>0, <2>1, <2>2, <2>4 DEF Building, Prepares, TypeOK
    <2>5. ASSUME NEW j \in Jobs, Building(j)
          PROVE  previous[j] = "indexed" /\ repo.status = "indexed" /\ j # i
      <3>1. previous[j] = "indexed" /\ repo.status = "indexed"
        BY <2>2, <2>5 DEF Retained, Restorable
      <3>2. version[j] # 0
        BY <1>0, <2>5 DEF Numbered, Building, Prepares
      <3> QED BY <2>1, <3>1, <3>2
    <2>6. Exposed(repo') /\ Exposed(saved')
      BY <2>2 DEF Retained, Exposed
    <2>7. Restorable'
      <3> SUFFICES ASSUME NEW j \in Jobs, Building(j)'
                   PROVE  IF previous'[j] = "indexed" THEN repo'.status = "indexed"
                          ELSE repo' = [status |-> "indexing", version |-> 0]
        BY DEF Restorable
      <3>1. CASE j # i
        BY <2>2, <2>3, <2>4, <2>5, <3>1
      <3>2. CASE j = i
        <4>1. repo.status # "indexed" => repo.version = 0
          BY <2>2 DEF Retained, Exposed
        <4>2. repo' = [status |-> repo'.status, version |-> repo'.version]
          BY <2>2 DEF Repository
        <4> QED BY <2>2, <2>3, <3>2, <4>1, <4>2
      <3> QED BY <3>1, <3>2
    <2>8. FirstIsAlone'
      <3> SUFFICES ASSUME NEW j \in Jobs, NEW k \in Jobs, Building(j)', previous'[j] # "indexed"
                   PROVE  (Building(k)' => j = k) /\ (j < k => version'[k] = 0)
        BY DEF FirstIsAlone
      <3>1. j = i /\ repo.status # "indexed"
        BY <2>3, <2>4, <2>5
      <3>2. Building(k)' => k = i
        BY <2>4, <2>5, <3>1
      <3>3. j < k => version'[k] = 0
        BY <2>1, <2>3, <3>1, BoundAssumption DEF Exclusion, InOrder, Jobs
      <3> QED BY <3>1, <3>2, <3>3
    <2>9. NothingFirst'
      <3>1. ASSUME NEW d \in Clients PROVE at'[d] \notin {"retire", "repair"}
        BY <2>2 DEF Exclusion, Submitters, OneSubmitter, Submits
      <3> QED BY <3>1 DEF NothingFirst
    <2> QED BY <2>6, <2>7, <2>8, <2>9 DEF Retained
  <1>8. ASSUME NEW j \in Jobs,
               \/ CheckControl(j) \/ Wait(j) \/ Woken(j) \/ Step(j) \/ Finish(j) \/ Publish(j)
               \/ Note(j) \/ Leave(j)
        PROVE  Retained'
    <2>1. UNCHANGED <<repo, previous, version, misjudged, at, job>>
      BY <1>8 DEF CheckControl, Wait, Woken, Step, Finish, Publish, Note, Leave, database, handlers, history
    <2>2. \/ saved' \in {saved, repo}
          \/ saved' = [status |-> "indexed", version |-> version[j]] /\ version[j] # 0
      BY <1>0, <1>8 DEF CheckControl, Wait, Woken, Step, Finish, Publish, Note, Leave, SaveMetadata,
                        database, Numbered
    <2>3. ASSUME NEW k \in Jobs, Building(k)' PROVE Building(k)
      <3>1. \/ thread'[k] = thread[k]
            \/ k = j /\ thread[j] \in {"check", "pausing", "woken", "step", "finish", "publish"}
            \/ thread'[k] \in {"leave", "gone"}
        BY <1>0, <1>8 DEF CheckControl, Wait, Woken, Step, Finish, Publish, Note, Leave, Move, TypeOK
      <3> QED BY <2>1, <2>3, <3>1 DEF Building, Prepares
    <2>4. Exposed(repo) /\ Exposed(saved) => Exposed(saved')
      BY <2>2 DEF Exposed
    <2> QED BY <2>1, <2>3, <2>4, RetainedFrame
  <1>9. ASSUME NEW j \in Jobs, Replace(j) \/ Cancelled(j) \/ Fail(j) PROVE Retained'
    <2> SUFFICES ASSUME ~misjudged PROVE Retained'
      BY <1>9 DEF Retained, Replace, Cancelled, Fail, history
    <2>1. /\ UNCHANGED <<saved, previous, version, misjudged, at, job>>
          /\ thread[j] \in {"replace", "cancelled", "step", "publish"}
          /\ thread'[j] \in {"leave", "note"} /\ \A k \in Jobs \ {j} : thread'[k] = thread[k]
      BY <1>0, <1>9 DEF Replace, Cancelled, Fail, Move, TypeOK, database, handlers, history
    <2>2. ASSUME NEW k \in Jobs, Building(k)' PROVE Building(k) /\ k # j
      <3>1. ASSUME NEW c \in Clients, Prepares(c) PROVE job[c] # j
        BY <2>1, <3>1 DEF Exclusion, Preparing
      <3> QED BY <2>1, <2>2, <3>1 DEF Building, Prepares
    <2>3. /\ Building(j) /\ version[j] # 0 /\ repo' \in Repository
          /\ \/ repo'.status = "indexed" /\ repo'.version = version[j]
             \/ repo'.status = "indexed" /\ previous[j] = "indexed" /\ repo'.version = repo.version
             \/ repo'.status \in {"created", "failed"} /\ previous[j] # "indexed" /\ repo'.version = repo.version
      BY <1>0, <1>9, <2>1 DEF Replace, Cancelled, Fail, TypeOK, Repository, Numbered, Building
    <2>4. IF previous[j] = "indexed" THEN repo.status = "indexed" ELSE repo.version = 0
      BY <2>3 DEF Retained, Restorable
    <2>5. Exposed(repo') /\ Exposed(saved')
      BY <2>1, <2>3, <2>4 DEF Retained, Exposed
    <2>6. ASSUME NEW k \in Jobs, Building(k)' PROVE previous[k] = "indexed" /\ repo'.status = "indexed"
      <3>1. previous[k] = "indexed"
        BY <2>2, <2>3, <2>6 DEF Retained, FirstIsAlone
      <3>2. previous[j] = "indexed"
        BY <2>2, <2>3, <2>6 DEF Retained, FirstIsAlone
      <3> QED BY <2>3, <3>1, <3>2
    <2>7. Restorable' /\ FirstIsAlone' /\ NothingFirst'
      BY <2>1, <2>6 DEF Restorable, FirstIsAlone, NothingFirst
    <2> QED BY <2>5, <2>7 DEF Retained
  <1>10. ASSUME Restart PROVE Retained'
    <2> SUFFICES ASSUME ~misjudged PROVE Retained'
      BY <1>10 DEF Retained, Restart
    <2>1. /\ repo' = saved /\ UNCHANGED <<saved, version, misjudged>>
          /\ \A j \in Jobs : thread'[j] \in {"none", "gone"} /\ \A c \in Clients : at'[c] = "idle"
      BY <1>10 DEF Restart, database
    <2>2. \A j \in Jobs : ~Building(j)'
      BY <2>1 DEF Building, Prepares
    <2>3. Exposed(repo') /\ Exposed(saved')
      BY <2>1 DEF Retained
    <2> QED BY <2>2, <2>3 DEF Retained, Restorable, FirstIsAlone, NothingFirst
  <1>11. CASE UNCHANGED vars
    <2>1. UNCHANGED <<repo, saved, previous, version, misjudged, thread, at, job>>
      BY <1>11 DEF vars, database, handlers, history
    <2>2. \A j \in Jobs : Building(j)' => Building(j)
      BY <2>1 DEF Building, Prepares
    <2> QED BY <2>1, <2>2, RetainedFrame
  <1> QED BY <1>1, <1>2, <1>3, <1>4, <1>5, <1>6, <1>7, <1>8, <1>9, <1>10, <1>11
          DEF Next, Submit, Control, ServeStatus, Thread

\* A step never hides an index that was readable: not the submission, the build, the
\* cancellation or the failure of another one, nor the repair of an orphan.
LEMMA StepKeepsReadable ==
  ASSUME OneSubmitter, IndexingInvariant, Retained, [Next]_vars
  PROVE  Readable => Readable' \/ misjudged \/ restarts' # restarts
  <1> SUFFICES ASSUME Readable, ~misjudged, restarts' = restarts PROVE Readable'
    OBVIOUS
  <1>0. TypeOK /\ repo \in Repository /\ repo.status = "indexed" /\ repo.version > 0
    BY DEF IndexingInvariant, TypeOK, Repository, Retained, Exposed, Readable
  <1>1. ASSUME NEW c \in Clients, SubmitRepair(c) PROVE Readable'
    BY <1>0, <1>1 DEF SubmitRepair, Readable, Repository
  <1>2. ASSUME NEW c \in Clients, SubmitRecover(c) PROVE Readable'
    BY <1>0, <1>2 DEF SubmitRecover
  <1>3. ASSUME NEW c \in Clients, SubmitCreate(c) PROVE Readable'
    BY <1>0, <1>3 DEF SubmitCreate, Readable, Repository
  <1>4. ASSUME NEW c \in Clients, StatusRepair(c) PROVE Readable'
    BY <1>0, <1>4 DEF StatusRepair, Unpublished, Hidden, Readable
  <1>5. ASSUME NEW j \in Jobs, Replace(j) PROVE Readable'
    BY <1>5 DEF Replace, Readable
  <1>6. ASSUME NEW j \in Jobs, Cancelled(j) \/ Fail(j) PROVE Readable'
    <2>1. Building(j)
      BY <1>6 DEF Cancelled, Fail, Building
    <2>2. previous[j] = "indexed"
      BY <1>0, <2>1 DEF Retained, Restorable
    <2> QED BY <1>0, <1>6, <2>2 DEF Cancelled, Fail, Readable, Repository
  <1>7. Restart => FALSE
    BY <1>0 DEF Restart, TypeOK, IndexingInvariant
  <1>8. UNCHANGED repo => Readable'
    BY DEF Readable
  <1>9. ASSUME NEW c \in Clients,
               \/ SubmitRead(c) \/ SubmitCheck(c) \/ SubmitRetire(c) \/ SubmitSave(c)
               \/ SubmitAnnounce(c) \/ SubmitStart(c)
               \/ ControlRead(c) \/ ControlRequest(c) \/ ControlSignal(c) \/ ControlSave(c)
               \/ StatusRead(c) \/ StatusSave(c)
        PROVE  Readable'
    BY <1>8, <1>9 DEF SubmitRead, SubmitCheck, SubmitRetire, SubmitSave, SubmitAnnounce, SubmitStart,
                      ControlRead, ControlRequest, ControlSignal, ControlSave, StatusRead, StatusSave
  <1>10. ASSUME NEW j \in Jobs,
                \/ CheckControl(j) \/ Wait(j) \/ Woken(j) \/ Step(j) \/ Finish(j) \/ Publish(j)
                \/ Note(j) \/ Leave(j)
         PROVE  Readable'
    BY <1>8, <1>10 DEF CheckControl, Wait, Woken, Step, Finish, Publish, Note, Leave
  <1>11. CASE UNCHANGED vars
    BY <1>8, <1>11 DEF vars
  <1> QED BY <1>1, <1>2, <1>3, <1>4, <1>5, <1>6, <1>7, <1>9, <1>10, <1>11
          DEF Next, Submit, Control, ServeStatus, Thread

\* An index that readers have stays readable through any number of jobs and requests,
\* as long as the process runs and no status request has failed a job too early.
THEOREM ReadableStaysHolds ==
  ASSUME OneSubmitter
  PROVE  Spec => ReadableStays
  <1>1. Init => IndexingInvariant /\ Exclusion /\ Retained
    BY InitIndexing, InitExclusion, InitRetained
  <1>2. IndexingInvariant /\ Exclusion /\ Retained /\ [Next]_vars
        => (IndexingInvariant /\ Exclusion /\ Retained)'
    BY OneSubmitter, NextIndexing, NextExclusion, NextRetained
  <1>3. IndexingInvariant /\ Exclusion /\ Retained /\ [Next]_vars
        => [Readable => Readable' \/ misjudged \/ restarts' # restarts]_vars
    BY OneSubmitter, StepKeepsReadable
  <1> QED BY <1>1, <1>2, <1>3, PTL DEF Spec, ReadableStays
=============================================================================
