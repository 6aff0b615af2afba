------------------------- MODULE JobDeliveryProofs -------------------------
(***************************************************************************)
(* Proofs about JobDelivery for any finite set of workers and any bounds:  *)
(* what holds under every fault, what holds while leases are renewed in    *)
(* time, and what holds when, besides, broker and database answer.         *)
(***************************************************************************)
EXTENDS JobDelivery, FiniteSetTheorems, TLAPS

USE WorkerAssumption, BoundAssumption, SwitchAssumption

---------------------------------------------------------------------------
(* Messages: none appears but from a submission, a crash or a redelivery. *)

InHand  == {w \in Workers : Busy(w)}
Pending == IF api = "publishing" THEN 1 ELSE 0

MessageBound ==
  /\ queue \in Nat
  /\ queue + Cardinality(InHand) + Pending <= 1 + crashes + duplicates

\* What a step of one worker does to the number of messages in hand.
LEMMA InHandStep ==
  ASSUME pc \in [Workers -> Label], NEW w \in Workers, NEW l \in Label, Goto(w, l)
  PROVE  /\ Cardinality(InHand) \in Nat /\ Cardinality(InHand)' \in Nat
         /\ Busy(w) /\ l \in {"idle", "ack"}
              => Cardinality(InHand)' = Cardinality(InHand) - 1
         /\ ~Busy(w) /\ l \notin {"idle", "ack"}
              => Cardinality(InHand)' = Cardinality(InHand) + 1
         /\ Busy(w) /\ l \notin {"idle", "ack"} => Cardinality(InHand)' = Cardinality(InHand)
         /\ ~Busy(w) /\ l \in {"idle", "ack"} => Cardinality(InHand)' = Cardinality(InHand)
  <1>1. IsFiniteSet(InHand) /\ IsFiniteSet(InHand')
    BY FS_Subset DEF InHand
  <1>2. Cardinality(InHand) \in Nat /\ Cardinality(InHand)' \in Nat
    BY <1>1, FS_CardinalityType
  <1>3. Busy(w)' <=> l \notin {"idle", "ack"}
    BY DEF Busy, At, Goto
  <1>4. \A v \in Workers \ {w} : Busy(v)' <=> Busy(v)
    BY DEF Busy, At, Goto
  <1>5. CASE Busy(w) /\ l \in {"idle", "ack"}
    <2>1. InHand' = InHand \ {w} /\ w \in InHand
      BY <1>3, <1>4, <1>5 DEF InHand
    <2> QED BY <1>1, <1>2, <1>5, <2>1, FS_RemoveElement
  <1>6. CASE ~Busy(w) /\ l \notin {"idle", "ack"}
    <2>1. InHand' = InHand \cup {w} /\ w \notin InHand
      BY <1>3, <1>4, <1>6 DEF InHand
    <2> QED BY <1>1, <1>2, <1>6, <2>1, FS_AddElement
  <1>7. CASE Busy(w) <=> l \notin {"idle", "ack"}
    <2>1. InHand' = InHand
      BY <1>3, <1>4, <1>7 DEF InHand
    <2> QED BY <1>2, <1>7, <2>1
  <1> QED BY <1>5, <1>6, <1>7

\* A submitted job has no message yet.
LEMMA InitTypes == Init => TypeOK /\ MessageBound
  <1> SUFFICES ASSUME Init PROVE TypeOK /\ MessageBound
    OBVIOUS
  <1>1. InHand = {}
    BY DEF Init, InHand, Busy, At
  <1>2. MessageBound
    BY <1>1, FS_EmptySet DEF Init, MessageBound, Pending
  <1>3. cancelRequested \in BOOLEAN /\ live \in BOOLEAN
    BY Zenon DEF Init
  <1>4. TypeOK
    BY <1>3 DEF Init, TypeOK, Status, Label, MaxMessages
  <1> QED BY <1>2, <1>4

\* Every step keeps count of the messages.
LEMMA NextMessages == TypeOK /\ MessageBound /\ [Next]_vars => MessageBound'
  <1> SUFFICES ASSUME TypeOK, MessageBound, [Next]_vars PROVE MessageBound'
    OBVIOUS
  <1> USE DEF MessageBound, Pending
  <1>1. /\ pc \in [Workers -> Label] /\ Cardinality(InHand) \in Nat
        /\ crashes \in Nat /\ duplicates \in Nat /\ queue \in Nat
    <2>1. IsFiniteSet(InHand)
      BY FS_Subset DEF InHand
    <2> QED BY <2>1, FS_CardinalityType DEF TypeOK
  <1>2. ASSUME UNCHANGED pc PROVE InHand' = InHand
    BY <1>2 DEF InHand, Busy, At
  <1>3. CASE ApiPublish
    BY <1>1, <1>2, <1>3 DEF ApiPublish
  <1>4. CASE RequestCancellation \/ LeaseExpires \/ UNCHANGED vars
    BY <1>2, <1>4 DEF RequestCancellation, LeaseExpires, vars
  <1>5. ASSUME NEW w \in Workers, Heartbeat(w) PROVE MessageBound'
    BY <1>2, <1>5 DEF Heartbeat
  <1>6. ASSUME NEW w \in Workers, Redeliver(w) PROVE MessageBound'
    BY <1>1, <1>2, <1>6 DEF Redeliver
  <1>7. ASSUME NEW w \in Workers, Crash(w) PROVE MessageBound'
    <2>1. "idle" \in Label /\ Goto(w, "idle") /\ Cardinality(InHand)' \in Nat
          /\ Cardinality(InHand)' <= Cardinality(InHand)
      BY <1>1, <1>7, InHandStep DEF Crash, Label
    <2> QED BY <1>1, <1>7, <2>1 DEF Crash
  <1>8. ASSUME NEW w \in Workers, Deliver(w) PROVE MessageBound'
    <2> USE <1>1, <1>8, InHandStep DEF Busy, Label
    <2>1. CASE Take(w)
      BY <2>1 DEF Take, At
    <2>2. CASE ClaimTerminal(w)
      BY <2>2 DEF ClaimTerminal, At
    <2>3. CASE ClaimDeferred(w)
      BY <2>3 DEF ClaimDeferred, At
    <2>4. CASE ClaimExhausted(w)
      BY <2>4 DEF ClaimExhausted, At
    <2>5. CASE ClaimGranted(w)
      BY <2>5 DEF ClaimGranted, At, BudgetLeft
    <2>6. CASE Load(w)
      BY <2>6 DEF Load, At
    <2>7. CASE Check(w)
      BY <2>7 DEF Check, AuthorityCheck, At
    <2>8. CASE LastCheck(w)
      BY <2>8 DEF LastCheck, AuthorityCheck, At
    <2>9. CASE Progress(w)
      BY <2>9 DEF Progress, At
    <2>10. CASE Finish(w)
      BY <2>10 DEF Finish, At
    <2>11. CASE RunnerRaises(w)
      <3>1. HandlerOf(pc[w]) \in Label /\ Busy(w)
        BY <2>11 DEF RunnerRaises, HandlerOf, At
      <3> QED BY <2>11, <3>1 DEF RunnerRaises, Raise
    <2>12. CASE DatabaseError(w)
      <3>1. HandlerOf(pc[w]) \in Label /\ Busy(w)
        BY <2>12 DEF DatabaseError, HandlerOf, At
      <3> QED BY <2>12, <3>1 DEF DatabaseError, Raise
    <2>13. CASE NoteCancel(w)
      BY <2>13 DEF NoteCancel, At
    <2>14. CASE NoteFail(w)
      BY <2>14 DEF NoteFail, At
    <2>15. CASE PublishRead(w) \/ PublishWrite(w)
      BY <2>15 DEF PublishRead, PublishWrite, At, Raise, HandlerOf
    <2>16. CASE Published(w)
      BY <2>16 DEF Published, At
    <2>17. CASE StopMonitor(w)
      BY <2>17 DEF StopMonitor, At
    <2>18. CASE Complete(w)
      BY <2>18 DEF Complete, At
    <2>19. CASE Cancel(w)
      BY <2>19 DEF Cancel, At
    <2>20. CASE Fail(w)
      BY <2>20 DEF Fail, At, FailRefused, FailRetry, FailFinal
    <2>21. CASE Enqueue(w)
      BY <2>21 DEF Enqueue, At
    <2>22. CASE Ack(w)
      BY <2>22 DEF Ack, At
    <2> QED BY <2>1, <2>2, <2>3, <2>4, <2>5, <2>6, <2>7, <2>8, <2>9, <2>10, <2>11,
               <2>12, <2>13, <2>14, <2>15, <2>16, <2>17, <2>18, <2>19, <2>20, <2>21,
               <2>22
      DEF Deliver, Claim, Run, Conclude
  <1> QED BY <1>3, <1>4, <1>5, <1>6, <1>7, <1>8 DEF Next

\* Every step keeps the types; the queue's comes from the count.
LEMMA NextTypes == TypeOK /\ MessageBound /\ [Next]_vars => TypeOK' /\ MessageBound'
  <1> SUFFICES ASSUME TypeOK, MessageBound', [Next]_vars PROVE TypeOK'
    BY NextMessages
  <1> USE DEF TypeOK, rows, local, Status, Label
  <1>1. crashes' \in 0..MaxCrashes /\ duplicates' \in 0..MaxDuplicates => queue' \in 0..MaxMessages
    <2>1. IsFiniteSet(InHand)'
      <3>1. InHand' \subseteq Workers
        BY DEF InHand
      <3> QED BY <3>1, FS_Subset
    <2>2. Cardinality(InHand)' \in Nat
      BY <2>1, FS_CardinalityType
    <2> QED BY <2>2 DEF MessageBound, Pending, MaxMessages
  <1>2. CASE ApiPublish
    BY <1>1, <1>2 DEF ApiPublish
  <1>3. CASE RequestCancellation
    BY <1>1, <1>3 DEF RequestCancellation, CancelLocked, FinishVersion
  <1>4. CASE LeaseExpires
    BY <1>1, <1>4 DEF LeaseExpires
  <1>5. ASSUME NEW w \in Workers, Heartbeat(w) PROVE TypeOK'
    BY <1>1, <1>5 DEF Heartbeat
  <1>6. ASSUME NEW w \in Workers, Redeliver(w) PROVE TypeOK'
    BY <1>1, <1>6 DEF Redeliver
  <1>7. ASSUME NEW w \in Workers, Crash(w) PROVE TypeOK'
    BY <1>1, <1>7 DEF Crash, Goto
  <1>8. ASSUME NEW w \in Workers, Deliver(w) PROVE TypeOK'
    <2> USE <1>1, <1>8 DEF At, Goto
    <2>1. CASE Take(w)
      BY <2>1 DEF Take
    <2>2. CASE ClaimTerminal(w)
      BY <2>2 DEF ClaimTerminal, CancelLocked, FinishVersion
    <2>3. CASE ClaimDeferred(w)
      BY <2>3 DEF ClaimDeferred
    <2>4. CASE ClaimExhausted(w)
      BY <2>4 DEF ClaimExhausted, FailLocked, FinishVersion
    <2>5. CASE ClaimGranted(w)
      BY <2>5 DEF ClaimGranted, BudgetLeft
    <2>6. CASE Load(w)
      BY <2>6 DEF Load
    <2>7. CASE Check(w)
      BY <2>7 DEF Check, AuthorityCheck
    <2>8. CASE LastCheck(w)
      BY <2>8 DEF LastCheck, AuthorityCheck
    <2>9. CASE Progress(w)
      BY <2>9 DEF Progress, SaveJob
    <2>10. CASE Finish(w)
      BY <2>10 DEF Finish, SaveJob
    <2>11. CASE RunnerRaises(w)
      BY <2>11 DEF RunnerRaises, Raise, HandlerOf
    <2>12. CASE DatabaseError(w)
      BY <2>12 DEF DatabaseError, Raise, HandlerOf
    <2>13. CASE NoteCancel(w)
      BY <2>13 DEF NoteCancel, SaveJob
    <2>14. CASE NoteFail(w)
      BY <2>14 DEF NoteFail, SaveJob
    <2>15. CASE PublishRead(w) \/ PublishWrite(w)
      BY <2>15 DEF PublishRead, PublishWrite, Raise, HandlerOf
    <2>16. CASE Published(w)
      BY <2>16 DEF Published
    <2>17. CASE StopMonitor(w)
      BY <2>17 DEF StopMonitor
    <2>18. CASE Complete(w)
      BY <2>18 DEF Complete
    <2>19. CASE Cancel(w)
      BY <2>19 DEF Cancel, CancelLocked, FinishVersion
    <2>20. CASE Fail(w)
      <3> USE <2>20 DEF Fail
      <3>1. CASE FailRefused(w)
        BY <3>1 DEF FailRefused
      <3>2. CASE FailRetry(w)
        <4>1. live' \in BOOLEAN /\ cancelRequested' \in BOOLEAN
          BY <3>2, Zenon DEF FailRetry
        <4> QED BY <3>2, <4>1 DEF FailRetry
      <3>3. CASE FailFinal(w)
        BY <3>3 DEF FailFinal, FailLocked, FinishVersion
      <3> QED BY <3>1, <3>2, <3>3
    <2>21. CASE Enqueue(w)
      BY <2>21 DEF Enqueue
    <2>22. CASE Ack(w)
      BY <2>22 DEF Ack
    <2> QED BY <2>1, <2>2, <2>3, <2>4, <2>5, <2>6, <2>7, <2>8, <2>9, <2>10, <2>11,
               <2>12, <2>13, <2>14, <2>15, <2>16, <2>17, <2>18, <2>19, <2>20, <2>21,
               <2>22
      DEF Deliver, Claim, Run, Conclude
  <1>9. CASE UNCHANGED vars
    BY <1>9 DEF vars
  <1> QED BY <1>2, <1>3, <1>4, <1>5, <1>6, <1>7, <1>8, <1>9 DEF Next

\* The types and the count hold together.
LEMMA TypedAndCounted == Spec => [](TypeOK /\ MessageBound)
  <1>1. TypeOK /\ MessageBound /\ [Next]_vars => TypeOK' /\ MessageBound'
    BY NextTypes, NextMessages
  <1> QED BY InitTypes, <1>1, PTL DEF Spec

\* TypeOK, for any constants; in particular the queue never holds more messages
\* than the submission, the crashes and the redeliveries account for.
THEOREM TypesHold == Spec => []TypeOK
  BY TypedAndCounted, PTL

---------------------------------------------------------------------------
(* Leases: each generation was granted to one delivery. *)

LeaseOrder ==
  /\ current \in {0, generation}
  /\ \A w \in Workers : lease[w] <= generation
  /\ \A w \in Workers : pc[w] \in {"idle", "claim"} => lease[w] = 0
  /\ \A v, w \in Workers : lease[v] = lease[w] /\ lease[v] # 0 => v = w

\* A claim grants the next generation, and nothing else grants one.
LEMMA NextLeases == TypeOK /\ LeaseOrder /\ [Next]_vars => LeaseOrder'
  <1> SUFFICES ASSUME TypeOK, LeaseOrder, [Next]_vars PROVE LeaseOrder'
    OBVIOUS
  <1> USE DEF LeaseOrder, local, rows
  <1>1. /\ pc \in [Workers -> Label] /\ lease \in [Workers -> Nat] /\ generation \in Nat
    BY DEF TypeOK
  <1>2. CASE ApiPublish \/ RequestCancellation \/ LeaseExpires \/ UNCHANGED vars
    BY <1>2 DEF ApiPublish, RequestCancellation, CancelLocked, LeaseExpires, vars
  <1>3. ASSUME NEW w \in Workers, Heartbeat(w) \/ Redeliver(w) PROVE LeaseOrder'
    BY <1>3 DEF Heartbeat, Redeliver
  <1>4. ASSUME NEW w \in Workers, Crash(w) PROVE LeaseOrder'
    BY <1>1, <1>4 DEF Crash, Goto
  <1>5. ASSUME NEW w \in Workers, Deliver(w) PROVE LeaseOrder'
    <2> USE <1>1 DEF At, Goto
    <2>1. CASE Take(w)
      BY <2>1
      DEF Take
    <2>2. CASE ClaimTerminal(w) \/ ClaimDeferred(w) \/ ClaimExhausted(w)
      BY <2>2
      DEF ClaimTerminal, ClaimDeferred, ClaimExhausted, CancelLocked, FailLocked
    <2>3. CASE ClaimGranted(w)
      BY <2>3
      DEF ClaimGranted, BudgetLeft
    <2>4. CASE Load(w) \/ Check(w) \/ LastCheck(w) \/ Progress(w) \/ Finish(w)
      BY <2>4
      DEF Load, Check, LastCheck, Progress, Finish, AuthorityCheck, SaveJob
    <2>5. CASE RunnerRaises(w) \/ DatabaseError(w)
      BY <2>5
      DEF RunnerRaises, DatabaseError, Raise, HandlerOf
    <2>6. CASE NoteCancel(w) \/ NoteFail(w) \/ PublishRead(w) \/ PublishWrite(w) \/ Published(w)
      BY <2>6
      DEF NoteCancel, NoteFail, PublishRead, PublishWrite, Published, SaveJob, Raise, HandlerOf
    <2>7. CASE StopMonitor(w) \/ Complete(w) \/ Cancel(w)
      BY <2>7
      DEF StopMonitor, Complete, Cancel, CancelLocked
    <2>8. CASE Fail(w)
      BY <2>8
      DEF Fail, FailRefused, FailRetry, FailFinal, FailLocked
    <2>9. CASE Enqueue(w)
      BY <2>9
      DEF Enqueue
    <2>10. CASE Ack(w)
      BY <2>10
      DEF Ack
    <2> QED BY <1>5, <2>1, <2>2, <2>3, <2>4, <2>5, <2>6, <2>7, <2>8, <2>9, <2>10
      DEF Deliver, Claim, Run, Conclude
  <1> QED BY <1>2, <1>3, <1>4, <1>5 DEF Next

\* No generation is ever granted twice (claim_or_take_over).
THEOREM LeaseOrderHolds == Spec => []LeaseOrder
  <1>1. Init => LeaseOrder
    BY DEF Init, LeaseOrder
  <1> QED BY <1>1, TypesHold, NextLeases, PTL DEF Spec

---------------------------------------------------------------------------
(* Under every fault. *)

\* Whoever does not hold the lease of a leased job leaves its state alone.
LEMMA AuthorityStep ==
  ASSUME TypeOK, LeaseOrder, [Next]_vars, NEW v \in Workers,
         current # 0, lease[v] # 0, ~Owned(v), Moves(v)
  PROVE  state' = state
  <1> USE DEF rows, local
  <1>1. pc \in [Workers -> Label] /\ lease \in [Workers -> Nat]
    BY DEF TypeOK
  <1>2. pc'[v] # pc[v] /\ pc[v] \notin {"idle", "claim"}
    BY DEF Moves, LeaseOrder
  <1>3. CASE ApiPublish \/ RequestCancellation \/ LeaseExpires \/ UNCHANGED vars
    BY <1>2, <1>3 DEF ApiPublish, RequestCancellation, LeaseExpires, vars
  <1>4. ASSUME NEW w \in Workers, Heartbeat(w) \/ Redeliver(w) \/ Crash(w) PROVE state' = state
    BY <1>2, <1>4 DEF Heartbeat, Redeliver, Crash
  <1>5. ASSUME NEW w \in Workers, Deliver(w) PROVE state' = state
    <2> USE <1>1, <1>2 DEF At, Goto
    <2>1. CASE Take(w) \/ Ack(w) \/ Enqueue(w)
      BY <2>1
      DEF Take, Ack, Enqueue
    <2>2. CASE ClaimTerminal(w) \/ ClaimDeferred(w) \/ ClaimExhausted(w) \/ ClaimGranted(w)
      BY <2>2
      DEF ClaimTerminal, ClaimDeferred, ClaimExhausted, ClaimGranted, CancelLocked,
          FailLocked
    <2>3. CASE Load(w) \/ Check(w) \/ LastCheck(w) \/ Progress(w) \/ Finish(w)
      BY <2>3
      DEF Load, Check, LastCheck, Progress, Finish, AuthorityCheck, SaveJob
    <2>4. CASE RunnerRaises(w) \/ DatabaseError(w)
      BY <2>4
      DEF RunnerRaises, DatabaseError, Raise, HandlerOf
    <2>5. CASE NoteCancel(w) \/ NoteFail(w) \/ PublishRead(w) \/ PublishWrite(w) \/ Published(w)
      BY <2>5
      DEF NoteCancel, NoteFail, PublishRead, PublishWrite, Published, SaveJob, Raise, HandlerOf
    <2>6. CASE StopMonitor(w) \/ Complete(w)
      BY <2>6
      DEF StopMonitor, Complete, Owned
    <2>7. CASE Cancel(w)
      BY <2>7
      DEF Cancel, Owned, CancelLocked
    <2>8. CASE Fail(w)
      BY <2>8
      DEF Fail, Owned, FailRefused, FailRetry, FailFinal, FailLocked
    <2> QED BY <1>5, <2>1, <2>2, <2>3, <2>4, <2>5, <2>6, <2>7, <2>8
      DEF Deliver, Claim, Run, Conclude
  <1> QED BY <1>3, <1>4, <1>5 DEF Next

\* AuthorityKept, whatever is late, lost or repeated: save_indexing_job and the
\* commands of the store leave a leased job to the holder of its lease.
THEOREM AuthorityKeptHolds == Spec => AuthorityKept
  <1>1. TypeOK /\ LeaseOrder /\ [Next]_vars
        => [\A w \in Workers : current # 0 /\ lease[w] # 0 /\ ~Owned(w) /\ Moves(w)
              => state' = state]_vars
    BY AuthorityStep
  <1> QED BY <1>1, TypesHold, LeaseOrderHolds, PTL DEF Spec, AuthorityKept

\* One publisher at a time is between its read and its write, over a version that
\* nobody published or failed meanwhile.
OneWriter ==
  \A w \in Workers : At(w, "write") =>
    /\ version \in {"building", "cancelled"}
    /\ \A v \in Workers : At(v, "write") => v = w

\* Commands that fail a version wait for the repository; a publisher waits too.
LEMMA NextWriter == TypeOK /\ OneWriter /\ [Next]_vars => OneWriter'
  <1> SUFFICES ASSUME TypeOK, OneWriter, [Next]_vars PROVE OneWriter'
    OBVIOUS
  <1> USE DEF rows, OneWriter, RepositoryFree, At, Goto
  <1>1. pc \in [Workers -> Label]
    BY DEF TypeOK
  <1>2. CASE ApiPublish \/ RequestCancellation \/ LeaseExpires \/ UNCHANGED vars
    BY <1>2 DEF ApiPublish, RequestCancellation, CancelLocked, FinishVersion,
                LeaseExpires, vars
  <1>3. ASSUME NEW w \in Workers, Heartbeat(w) \/ Redeliver(w) \/ Crash(w)
        PROVE  OneWriter'
    BY <1>1, <1>3 DEF Heartbeat, Redeliver, Crash
  <1>4. ASSUME NEW w \in Workers, Deliver(w) PROVE OneWriter'
    <2> USE <1>1
    <2>1. CASE Take(w) \/ Ack(w) \/ Enqueue(w)
      BY <2>1
      DEF Take, Ack, Enqueue
    <2>2. CASE ClaimTerminal(w) \/ ClaimDeferred(w) \/ ClaimExhausted(w) \/ ClaimGranted(w)
      BY <2>2
      DEF ClaimTerminal, ClaimDeferred, ClaimExhausted, ClaimGranted, CancelLocked,
          FinishVersion, FailLocked
    <2>3. CASE Load(w) \/ Check(w) \/ LastCheck(w) \/ Progress(w) \/ Finish(w)
      BY <2>3
      DEF Load, Check, LastCheck, Progress, Finish, AuthorityCheck, SaveJob
    <2>4. CASE RunnerRaises(w) \/ DatabaseError(w)
      BY <2>4
      DEF RunnerRaises, DatabaseError, Raise, HandlerOf
    <2>5. CASE NoteCancel(w) \/ NoteFail(w) \/ Published(w)
      BY <2>5
      DEF NoteCancel, NoteFail, Published, SaveJob
    <2>6. CASE PublishRead(w)
      BY <2>6
      DEF PublishRead, Raise, HandlerOf
    <2>7. CASE PublishWrite(w)
      BY <2>7
      DEF PublishWrite
    <2>8. CASE StopMonitor(w) \/ Complete(w)
      BY <2>8
      DEF StopMonitor, Complete
    <2>9. CASE Cancel(w)
      BY <2>9
      DEF Cancel, CancelLocked, FinishVersion
    <2>10. CASE Fail(w)
      BY <2>10
      DEF Fail, FailRefused, FailRetry, FailFinal, FailLocked, FinishVersion
    <2> QED BY <1>4, <2>1, <2>2, <2>3, <2>4, <2>5, <2>6, <2>7, <2>8, <2>9, <2>10
      DEF Deliver, Claim, Run, Conclude
  <1> QED BY <1>2, <1>3, <1>4 DEF Next

\* What a step may do to a version that is not building any more.
Decided ==
  /\ version \in {"active", "failed"} =>
       version' = version /\ \A w \in Workers : ~Publishes(w)
  /\ version = "cancelled" /\ version' # version =>
       version' = "active" /\ \E w \in Workers : Publishes(w)

\* No other step than a publisher's write touches such a version.
LEMMA DecidedStep ==
  ASSUME TypeOK, OneWriter, [Next]_vars
  PROVE  Decided
  <1> USE DEF rows, Publishes, At, Goto
  <1>1. pc \in [Workers -> Label]
    BY DEF TypeOK
  <1>2. SUFFICES \/ /\ version # "building" => version' = version
                    /\ \A w \in Workers : ~Publishes(w)
                 \/ \E w \in Workers : PublishWrite(w)
    <2>1. CASE \E w \in Workers : PublishWrite(w)
      <3>1. PICK w \in Workers : PublishWrite(w)
        BY <2>1
      <3>2. version \in {"building", "cancelled"} /\ version' = "active" /\ Publishes(w)
        BY <1>1, <3>1 DEF PublishWrite, OneWriter
      <3> QED BY <3>2, Zenon DEF Decided
    <2>2. CASE (version # "building" => version' = version) /\ \A w \in Workers : ~Publishes(w)
      BY <2>2 DEF Decided
    <2> QED BY <2>1, <2>2
  <1>3. CASE ApiPublish \/ RequestCancellation \/ LeaseExpires \/ UNCHANGED vars
    BY <1>3 DEF ApiPublish, RequestCancellation, CancelLocked, FinishVersion,
                LeaseExpires, vars
  <1>4. ASSUME NEW w \in Workers, Heartbeat(w) \/ Redeliver(w) \/ Crash(w)
        PROVE  version' = version /\ \A v \in Workers : ~Publishes(v)
    BY <1>1, <1>4 DEF Heartbeat, Redeliver, Crash
  <1>5. ASSUME NEW w \in Workers, Deliver(w), ~PublishWrite(w)
        PROVE  /\ version # "building" => version' = version
               /\ \A v \in Workers : ~Publishes(v)
    <2> USE <1>1, <1>5
    <2>1. CASE Take(w) \/ Ack(w) \/ Enqueue(w)
      BY <2>1
      DEF Take, Ack, Enqueue
    <2>2. CASE ClaimTerminal(w) \/ ClaimDeferred(w) \/ ClaimExhausted(w) \/ ClaimGranted(w)
      BY <2>2
      DEF ClaimTerminal, ClaimDeferred, ClaimExhausted, ClaimGranted, CancelLocked,
          FinishVersion, FailLocked
    <2>3. CASE Load(w) \/ Check(w) \/ LastCheck(w) \/ Progress(w) \/ Finish(w)
      BY <2>3
      DEF Load, Check, LastCheck, Progress, Finish, AuthorityCheck, SaveJob
    <2>4. CASE RunnerRaises(w) \/ DatabaseError(w)
      BY <2>4
      DEF RunnerRaises, DatabaseError, Raise, HandlerOf
    <2>5. CASE NoteCancel(w) \/ NoteFail(w) \/ PublishRead(w) \/ Published(w)
      BY <2>5
      DEF NoteCancel, NoteFail, PublishRead, Published, SaveJob, Raise, HandlerOf
    <2>6. CASE StopMonitor(w) \/ Complete(w)
      BY <2>6
      DEF StopMonitor, Complete
    <2>7. CASE Cancel(w)
      BY <2>7
      DEF Cancel, CancelLocked, FinishVersion
    <2>8. CASE Fail(w)
      BY <2>8
      DEF Fail, FailRefused, FailRetry, FailFinal, FailLocked, FinishVersion
    <2> QED BY <2>1, <2>2, <2>3, <2>4, <2>5, <2>6, <2>7, <2>8
      DEF Deliver, Claim, Run, Conclude
  <1> QED BY <1>3, <1>4, <1>5 DEF Next

\* VersionDecidedOnce, for any constants and under every fault: the lock on the
\* repository is what makes save_repository's unlocked read of the lifecycle safe
\* against failures and other publishers.
THEOREM VersionDecidedOnceHolds == Spec => VersionDecidedOnce
  <1>1. Init => OneWriter
    BY DEF Init, OneWriter, At
  <1>2. TypeOK /\ OneWriter /\ [Next]_vars
        => [/\ version \in {"active", "failed"} =>
                 version' = version /\ \A w \in Workers : ~Publishes(w)
            /\ version = "cancelled" /\ version' # version =>
                 version' = "active" /\ \E w \in Workers : Publishes(w)]_vars
    BY DecidedStep DEF Decided
  <1> QED BY <1>1, <1>2, NextWriter, TypesHold, PTL DEF Spec, VersionDecidedOnce

---------------------------------------------------------------------------
(* While leases are renewed in time. *)

Holding(w) == InRunner(w) \/ pc[w] \in {"stopping", "complete", "cancel", "fail"}

\* A delivery holds its lease from the claim to the command that concludes it.
Held == \A w \in Workers : Holding(w) =>
  /\ lease[w] # 0 /\ lease[w] = current /\ live
  /\ state # "queued"

\* A run reaches complete only over a publication.
PublicationOrder ==
  /\ \A w \in Workers :
       /\ pc[w] = "noteCancel" => monitor[w] = "cancelled"
       /\ pc[w] = "stopping" => version = "active" \/ monitor[w] = "cancelled"
       /\ pc[w] \in {"published", "complete"} => version = "active"
  /\ SuccessIsPublished

\* A delivery keeps its lease through every step of anybody.
LEMMA NextHeld ==
  ASSUME Timely, TypeOK, LeaseOrder, Held, [Next]_vars
  PROVE  Held'
  <1> USE DEF rows, local, Held, Holding, InRunner, LeaseOrder
  <1>1. /\ pc \in [Workers -> Label] /\ lease \in [Workers -> Nat]
        /\ generation \in Nat /\ state \in Status
    BY DEF TypeOK
  <1>2. CASE ApiPublish \/ UNCHANGED vars
    BY <1>2 DEF ApiPublish, vars
  <1>3. CASE RequestCancellation \/ LeaseExpires
    BY <1>3 DEF RequestCancellation, CancelLocked, LeaseExpires
  <1>4. ASSUME NEW w \in Workers, Heartbeat(w) \/ Redeliver(w) \/ Crash(w) PROVE Held'
    BY <1>1, <1>4 DEF Heartbeat, Redeliver, Crash, Goto
  <1>5. ASSUME NEW w \in Workers, Deliver(w) PROVE Held'
    <2> USE <1>1 DEF At, Goto, Owned, Claimable, LeaseHeld, Terminal, Status
    <2>1. CASE Take(w) \/ Enqueue(w) \/ Ack(w)
      BY <2>1
      DEF Take, Enqueue, Ack
    <2>2. CASE ClaimTerminal(w) \/ ClaimDeferred(w)
      BY <2>2
      DEF ClaimTerminal, ClaimDeferred, CancelLocked
    <2>3. CASE ClaimExhausted(w)
      BY <2>3
      DEF ClaimExhausted, FailLocked
    <2>4. CASE ClaimGranted(w)
      BY <2>4
      DEF ClaimGranted, BudgetLeft
    <2>5. CASE Load(w) \/ Check(w) \/ LastCheck(w)
      BY <2>5
      DEF Load, Check, LastCheck, AuthorityCheck
    <2>6. CASE Progress(w) \/ Finish(w) \/ NoteCancel(w) \/ NoteFail(w)
      BY <2>6
      DEF Progress, Finish, NoteCancel, NoteFail, SaveJob
    <2>7. CASE RunnerRaises(w) \/ DatabaseError(w)
      BY <2>7
      DEF RunnerRaises, DatabaseError, Raise, HandlerOf
    <2>8. CASE PublishRead(w) \/ PublishWrite(w) \/ Published(w)
      BY <2>8
      DEF PublishRead, PublishWrite, Published, Raise, HandlerOf
    <2>9. CASE StopMonitor(w)
      BY <2>9
      DEF StopMonitor
    <2>10. CASE Complete(w)
      BY <2>10
      DEF Complete
    <2>11. CASE Cancel(w)
      BY <2>11
      DEF Cancel, CancelLocked
    <2>12. CASE Fail(w)
      BY <2>12
      DEF Fail, FailRefused, FailRetry, FailFinal, FailLocked
    <2> QED BY <1>5, <2>1, <2>2, <2>3, <2>4, <2>5, <2>6, <2>7, <2>8, <2>9, <2>10, <2>11,
                     <2>12
      DEF Deliver, Claim, Run, Conclude
  <1> QED BY <1>2, <1>3, <1>4, <1>5 DEF Next

\* Every step keeps the order of publication and conclusion.
LEMMA NextPublication ==
  ASSUME Timely, TypeOK, LeaseOrder, Held, PublicationOrder, [Next]_vars
  PROVE  PublicationOrder'
  <1> USE DEF rows, local, PublicationOrder, SuccessIsPublished
  <1>1. /\ pc \in [Workers -> Label] /\ monitor \in [Workers -> {"off", "on", "cancelled", "lost"}]
        /\ \A w \in Workers : InRunner(w) => current # 0
    BY DEF TypeOK, Held, Holding
  <1>2. CASE ApiPublish \/ LeaseExpires \/ UNCHANGED vars
    BY <1>2 DEF ApiPublish, LeaseExpires, vars
  <1>3. CASE RequestCancellation
    BY <1>3 DEF RequestCancellation, CancelLocked, FinishVersion
  <1>4. ASSUME NEW w \in Workers, Heartbeat(w) \/ Redeliver(w) \/ Crash(w)
        PROVE  PublicationOrder'
    BY <1>1, <1>4 DEF Heartbeat, Redeliver, Crash, Goto
  <1>5. ASSUME NEW w \in Workers, Deliver(w) PROVE PublicationOrder'
    <2> USE <1>1 DEF At, Goto, InRunner
    <2>1. CASE Take(w) \/ Enqueue(w) \/ Ack(w)
      BY <2>1
      DEF Take, Enqueue, Ack
    <2>2. CASE ClaimTerminal(w) \/ ClaimDeferred(w)
      BY <2>2
      DEF ClaimTerminal, ClaimDeferred, CancelLocked, FinishVersion
    <2>3. CASE ClaimExhausted(w)
      BY <2>3
      DEF ClaimExhausted, FailLocked, FinishVersion
    <2>4. CASE ClaimGranted(w)
      BY <2>4
      DEF ClaimGranted, BudgetLeft
    <2>5. CASE Load(w) \/ Check(w) \/ LastCheck(w)
      BY <2>5
      DEF Load, Check, LastCheck, AuthorityCheck
    <2>6. CASE Progress(w) \/ Finish(w) \/ NoteCancel(w) \/ NoteFail(w)
      BY <2>6
      DEF Progress, Finish, NoteCancel, NoteFail, SaveJob
    <2>7. CASE RunnerRaises(w) \/ DatabaseError(w)
      BY <2>7
      DEF RunnerRaises, DatabaseError, Raise, HandlerOf
    <2>8. CASE PublishRead(w) \/ PublishWrite(w) \/ Published(w)
      BY <2>8
      DEF PublishRead, PublishWrite, Published, Raise, HandlerOf
    <2>9. CASE StopMonitor(w)
      BY <2>9
      DEF StopMonitor
    <2>10. CASE Complete(w)
      BY <2>10
      DEF Complete
    <2>11. CASE Cancel(w)
      BY <2>11
      DEF Cancel, CancelLocked, FinishVersion
    <2>12. CASE Fail(w)
      BY <2>12
      DEF Fail, FailRefused, FailRetry, FailFinal, FailLocked, FinishVersion
    <2> QED BY <1>5, <2>1, <2>2, <2>3, <2>4, <2>5, <2>6, <2>7, <2>8, <2>9, <2>10, <2>11,
                     <2>12
      DEF Deliver, Claim, Run, Conclude
  <1> QED BY <1>2, <1>3, <1>4, <1>5 DEF Next

\* Both, from the start.
LEMMA TimelyInvariant ==
  ASSUME Timely
  PROVE  Spec => [](TypeOK /\ LeaseOrder /\ Held /\ PublicationOrder)
  <1>1. Init => Held /\ PublicationOrder
    BY DEF Init, Held, Holding, InRunner, PublicationOrder, SuccessIsPublished
  <1>2. TypeOK /\ LeaseOrder /\ Held /\ PublicationOrder /\ [Next]_vars
        => Held' /\ PublicationOrder'
    BY NextHeld, NextPublication
  <1> QED BY <1>1, <1>2, TypesHold, LeaseOrderHolds, PTL DEF Spec

\* OneRunner: two deliveries of the job, however they came about, are never both
\* in the runner (claim_or_take_over, LeaseHeartbeatMonitor).
THEOREM OneRunnerHolds ==
  ASSUME Timely
  PROVE  Spec => []OneRunner
  <1>1. LeaseOrder /\ Held => OneRunner
    BY DEF LeaseOrder, Held, Holding, OneRunner
  <1> QED BY <1>1, TimelyInvariant, PTL

\* SuccessIsPublished: the state becomes succeeded in complete only, which a run
\* reaches over save_repository.
THEOREM SuccessIsPublishedHolds ==
  ASSUME Timely
  PROVE  Spec => []SuccessIsPublished
  <1>1. PublicationOrder => SuccessIsPublished
    BY DEF PublicationOrder
  <1> QED BY <1>1, TimelyInvariant, PTL

---------------------------------------------------------------------------
(* And while broker and database answer, and nobody cancels. *)

\* An unfinished job is attended, and a monitor that says otherwise watches a
\* job that is finished.
Attended ==
  /\ ~cancelRequested
  /\ \A w \in Workers :
       /\ monitor[w] = "on" => InRunner(w) \/ pc[w] \in {"stopping", "fail"}
       /\ monitor[w] # "cancelled"
       /\ monitor[w] = "lost" => state \in Terminal
       /\ pc[w] \notin {"noteCancel", "cancel"}
  /\ JobAttended

\* Every step leaves an unfinished job attended.
LEMMA NextAttended ==
  ASSUME Timely, ~BrokerFails, ~DatabaseFails, ~Cancellable,
         TypeOK, LeaseOrder, Held, Attended, [Next]_vars
  PROVE  Attended'
  <1> USE DEF rows, local, Attended, JobAttended, Busy, Holding, InRunner
  <1>1. /\ pc \in [Workers -> Label] /\ monitor \in [Workers -> {"off", "on", "cancelled", "lost"}]
        /\ lease \in [Workers -> Nat] /\ queue \in Nat /\ state \in Status
    BY DEF TypeOK
  <1>2. CASE ApiPublish \/ LeaseExpires \/ UNCHANGED vars
    BY <1>1, <1>2 DEF ApiPublish, LeaseExpires, vars, At
  <1>3. CASE RequestCancellation
    BY <1>3 DEF RequestCancellation
  <1>4. ASSUME NEW w \in Workers, Heartbeat(w) \/ Redeliver(w) \/ Crash(w)
        PROVE  Attended'
    BY <1>1, <1>4 DEF Heartbeat, Redeliver, Crash, Goto, At, Held, LeaseOrder, Owned, Status, Terminal
  <1>5. ASSUME NEW w \in Workers, Deliver(w) PROVE Attended'
    <2> USE <1>1 DEF At, Goto, Held, LeaseOrder, Owned, Status, Terminal, Claimable
    <2>1. CASE Take(w) \/ Enqueue(w) \/ Ack(w)
      BY <2>1
      DEF Take, Enqueue, Ack
    <2>2. CASE ClaimTerminal(w) \/ ClaimDeferred(w)
      BY <2>2
      DEF ClaimTerminal, ClaimDeferred, CancelLocked
    <2>3. CASE ClaimExhausted(w)
      BY <2>3
      DEF ClaimExhausted, FailLocked
    <2>4. CASE ClaimGranted(w)
      BY <2>4
      DEF ClaimGranted, BudgetLeft
    <2>5. CASE Load(w) \/ Check(w) \/ LastCheck(w)
      BY <2>5
      DEF Load, Check, LastCheck, AuthorityCheck
    <2>6. CASE Progress(w) \/ Finish(w) \/ NoteCancel(w) \/ NoteFail(w)
      BY <2>6
      DEF Progress, Finish, NoteCancel, NoteFail, SaveJob
    <2>7. CASE RunnerRaises(w) \/ DatabaseError(w)
      BY <2>7
      DEF RunnerRaises, DatabaseError, Raise, HandlerOf
    <2>8. CASE PublishRead(w) \/ PublishWrite(w) \/ Published(w)
      BY <2>8
      DEF PublishRead, PublishWrite, Published, Raise, HandlerOf
    <2>9. CASE StopMonitor(w)
      BY <2>9
      DEF StopMonitor
    <2>10. CASE Complete(w)
      <3>1. state' \in Terminal
        <4>1. state \in Terminal \/ Owned(w)
          BY <2>10 DEF Complete
        <4>2. state' \in {state, "succeeded"} /\ (Owned(w) => state' = "succeeded")
          BY <2>10 DEF Complete
        <4> QED BY <4>1, <4>2
      <3>2. pc[w] = "complete" /\ UNCHANGED <<cancelRequested, monitor>> /\ pc' = [pc EXCEPT ![w] = "ack"]
        BY <2>10 DEF Complete
      <3> QED BY <3>1, <3>2
    <2>11. CASE Cancel(w)
      BY <2>11
      DEF Cancel, CancelLocked
    <2>12. CASE Fail(w)
      BY <2>12
      DEF Fail, FailRefused, FailRetry, FailFinal, FailLocked
    <2> QED BY <1>5, <2>1, <2>2, <2>3, <2>4, <2>5, <2>6, <2>7, <2>8, <2>9, <2>10, <2>11,
                     <2>12
      DEF Deliver, Claim, Run, Conclude
  <1> QED BY <1>2, <1>3, <1>4, <1>5 DEF Next

\* JobAttended: no interleaving of claims, crashes, redeliveries, retries and
\* acknowledgements leaves an unfinished job without a message or a worker.
THEOREM JobAttendedHolds ==
  ASSUME Timely, ~BrokerFails, ~DatabaseFails, ~Cancellable
  PROVE  Spec => []JobAttended
  <1>1. Init => Attended
    BY DEF Init, Attended, JobAttended
  <1>2. TypeOK /\ LeaseOrder /\ Held /\ Attended /\ [Next]_vars => Attended'
    BY NextAttended
  <1>3. Attended => JobAttended
    BY DEF Attended
  <1> QED BY <1>1, <1>2, <1>3, TimelyInvariant, PTL DEF Spec
=============================================================================
