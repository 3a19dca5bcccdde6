------------------------- MODULE JobLifecycleProofs -------------------------
(* Proofs about JobLifecycle, for any number of messages, any number of      *)
(* blocks, any set of job kinds, with or without lost saves and silent       *)
(* workers: no assumption but LifecycleAssumption.                           *)
EXTENDS JobLifecycle, TLAPS

USE DEF Statuses, Terminal, Scannable, Places, Executing, Waiting

(* A save, refused or not, leaves a row of the right type. *)
LEMMA SaveRowType ==
    ASSUME RowType, NEW s \in Statuses, NEW f \in BOOLEAN, NEW y \in BOOLEAN,
           SaveRow(s, f, y)
    PROVE  RowType'
BY DEF SaveRow, SetRow, RowType, row

(* A row nobody saves keeps its type.                                        *)
LEMMA RowKept == ASSUME RowType, UNCHANGED row PROVE RowType'
BY DEF RowType, row

(* Going on in an execution keeps the types,                                 *)
LEMMA GotoType ==
    ASSUME WorkerType, NEW t \in Tasks, NEW place \in Places, Goto(t, place)
    PROVE  pc' \in [Tasks -> Places]
BY DEF Goto, WorkerType

(* and so does ending one.                                                   *)
LEMMA StopType ==
    ASSUME LifecycleAssumption, WorkerType, NEW t \in Tasks, NEW place \in Places,
           Stop(t, place)
    PROVE  WorkerType'
<1>1. pc' \in [Tasks -> Places]
  BY GotoType DEF Stop
<1>2. seen' \in [Tasks -> SUBSET Tasks]
  BY DEF Stop, WorkerType
<1>3. staged' \in [Tasks -> 0..Chunks]
  BY 0 \in 0..Chunks DEF Stop, WorkerType, LifecycleAssumption
<1>4. QED
  BY <1>1, <1>2, <1>3 DEF WorkerType

(* Variables a step leaves alone keep their types.                           *)
LEMMA Kept ==
    /\ MetaType /\ UNCHANGED meta => MetaType'
    /\ FilesType /\ UNCHANGED files => FilesType'
    /\ RequestType /\ UNCHANGED <<submit, revoked, view>> => RequestType'
    /\ RecoveryType /\ UNCHANGED recover => RecoveryType'
BY DEF MetaType, FilesType, RequestType, RecoveryType, meta, files, view, recover

(* Every step of a worker keeps the types. *)
LEMMA WorkType ==
    ASSUME LifecycleAssumption, TypeOK, BlocksLeft, NEW t \in Tasks, Work(t)
    PROVE  TypeOK'
<1> USE DEF TypeOK
<1>1. CASE Deliver(t)
  <2>1. RowType'
    BY <1>1, RowKept DEF Deliver
  <2>2. MetaType'
    BY <1>1, Kept DEF Deliver
  <2>3. FilesType'
    BY <1>1, Kept DEF Deliver
  <2>4. WorkerType'
    BY <1>1, GotoType DEF Deliver, WorkerType
  <2>5. QED
    BY <1>1, <2>1, <2>2, <2>3, <2>4, Kept DEF Deliver
<1>2. CASE DropRevoked(t)
  <2>1. RowType'
    BY <1>2, RowKept DEF DropRevoked
  <2>2. MetaType'
    BY <1>2, Kept DEF DropRevoked
  <2>3. FilesType'
    BY <1>2, Kept DEF DropRevoked
  <2>4. WorkerType'
    BY <1>2, GotoType DEF DropRevoked, WorkerType
  <2>5. QED
    BY <1>2, <2>1, <2>2, <2>3, <2>4, Kept DEF DropRevoked
<1>3. CASE Claim(t)
  <2>1. RowType'
    BY <1>3, RowKept DEF Claim
  <2>2. MetaType'
    BY <1>3, Kept DEF Claim
  <2>3. FilesType'
    BY <1>3, Kept DEF Claim
  <2>4. WorkerType'
    BY <1>3, GotoType DEF Claim, WorkerType, MetaType
  <2>5. QED
    BY <1>3, <2>1, <2>2, <2>3, <2>4, Kept DEF Claim
<1>4. CASE Start(t)
  <2>1. RowType'
    BY <1>4, SaveRowType, RowKept DEF Start, RowStart, StartStatuses, RowType
  <2>2. MetaType'
    BY <1>4, Kept DEF Start
  <2>3. FilesType'
    BY <1>4, Kept DEF Start
  <2>4. WorkerType'
    BY <1>4, GotoType DEF Start, WorkerType
  <2>5. QED
    BY <1>4, <2>1, <2>2, <2>3, <2>4, Kept DEF Start
<1>5. CASE StartMeta(t)
  <2>1. RowType'
    BY <1>5, RowKept DEF StartMeta
  <2>2. MetaType'
    BY <1>5 DEF StartMeta, Recorded, MetaType, WorkerType
  <2>3. FilesType'
    BY <1>5, Kept DEF StartMeta
  <2>4. WorkerType'
    BY <1>5, GotoType DEF StartMeta, WorkerType, MetaType
  <2>5. QED
    BY <1>5, <2>1, <2>2, <2>3, <2>4, Kept DEF StartMeta
<1>6. CASE Normalize(t)
  <2>1. RowType'
    BY <1>6, SaveRowType, RowKept DEF Normalize, RowTransition, RowType
  <2>2. MetaType'
    BY <1>6, Kept DEF Normalize
  <2>3. FilesType'
    BY <1>6, Kept DEF Normalize
  <2>4. WorkerType'
    BY <1>6, GotoType DEF Normalize, WorkerType
  <2>5. QED
    BY <1>6, <2>1, <2>2, <2>3, <2>4, Kept DEF Normalize
<1>7. CASE BeginUpload(t)
  <2>1. RowType'
    BY <1>7, SaveRowType, RowKept DEF BeginUpload, RowTransition, RowType
  <2>2. MetaType'
    BY <1>7, Kept DEF BeginUpload
  <2>3. FilesType'
    BY <1>7, Kept DEF BeginUpload
  <2>4. WorkerType'
    BY <1>7, GotoType DEF BeginUpload, WorkerType
  <2>5. QED
    BY <1>7, <2>1, <2>2, <2>3, <2>4, Kept DEF BeginUpload
<1>8. CASE CancelCheck(t)
  <2>1. RowType'
    BY <1>8, RowKept DEF CancelCheck
  <2>2. MetaType'
    BY <1>8, Kept DEF CancelCheck
  <2>3. FilesType'
    BY <1>8, Kept DEF CancelCheck
  <2>4. WorkerType'
    BY <1>8, GotoType DEF CancelCheck, WorkerType
  <2>5. QED
    BY <1>8, <2>1, <2>2, <2>3, <2>4, Kept DEF CancelCheck
<1>9. CASE StageBlock(t)
  <2>1. RowType'
    BY <1>9, SaveRowType, RowKept DEF StageBlock, RowTransition, RowType
  <2>2. MetaType'
    BY <1>9, Kept DEF StageBlock
  <2>3. FilesType'
    BY <1>9, Kept DEF StageBlock
  <2>4. WorkerType'
    BY <1>9, GotoType DEF StageBlock, WorkerType, BlocksLeft, LifecycleAssumption
  <2>5. QED
    BY <1>9, <2>1, <2>2, <2>3, <2>4, Kept DEF StageBlock
<1>10. CASE PostUploadCheck(t)
  <2>1. RowType'
    BY <1>10, RowKept DEF PostUploadCheck
  <2>2. MetaType'
    BY <1>10, Kept DEF PostUploadCheck
  <2>3. FilesType'
    BY <1>10, Kept DEF PostUploadCheck
  <2>4. WorkerType'
    BY <1>10, GotoType DEF PostUploadCheck, WorkerType
  <2>5. QED
    BY <1>10, <2>1, <2>2, <2>3, <2>4, Kept DEF PostUploadCheck
<1>11. CASE UploadDone(t)
  <2>1. RowType'
    BY <1>11, SaveRowType, RowKept DEF UploadDone, RowTransition, RowType
  <2>2. MetaType'
    BY <1>11, Kept DEF UploadDone
  <2>3. FilesType'
    BY <1>11, Kept DEF UploadDone
  <2>4. WorkerType'
    BY <1>11, GotoType DEF UploadDone, WorkerType
  <2>5. QED
    BY <1>11, <2>1, <2>2, <2>3, <2>4, Kept DEF UploadDone
<1>12. CASE UploadCancelled(t)
  <2>1. RowType'
    BY <1>12, SaveRowType, RowKept DEF UploadCancelled, RowFinish, RowType
  <2>2. MetaType'
    BY <1>12 DEF UploadCancelled, Recorded, MetaType, WorkerType
  <2>3. FilesType'
    BY <1>12 DEF UploadCancelled, FilesType
  <2>4. WorkerType'
    BY <1>12, StopType DEF UploadCancelled
  <2>5. QED
    BY <1>12, <2>1, <2>2, <2>3, <2>4, Kept DEF UploadCancelled
<1>13. CASE AgentReturns(t)
  <2>1. RowType'
    BY <1>13, RowKept DEF AgentReturns
  <2>2. MetaType'
    BY <1>13, Kept DEF AgentReturns
  <2>3. FilesType'
    BY <1>13 DEF AgentReturns, FilesType
  <2>4. WorkerType'
    BY <1>13, GotoType, StopType DEF AgentReturns, WorkerType
  <2>5. QED
    BY <1>13, <2>1, <2>2, <2>3, <2>4, Kept DEF AgentReturns
<1>14. CASE Succeed(t)
  <2>1. RowType'
    BY <1>14, SaveRowType, RowKept DEF Succeed, RowFinish, RowType
  <2>2. MetaType'
    BY <1>14 DEF Succeed, Recorded, MetaType, WorkerType
  <2>3. FilesType'
    BY <1>14, Kept DEF Succeed
  <2>4. WorkerType'
    BY <1>14, StopType DEF Succeed
  <2>5. QED
    BY <1>14, <2>1, <2>2, <2>3, <2>4, Kept DEF Succeed
<1>15. CASE Fail(t)
  <2>1. RowType'
    BY <1>15, SaveRowType, RowKept DEF Fail, RowFinish, RowType
  <2>2. MetaType'
    BY <1>15 DEF Fail, Recorded, MetaType, WorkerType
  <2>3. FilesType'
    BY <1>15, Kept DEF Fail
  <2>4. WorkerType'
    BY <1>15, StopType DEF Fail
  <2>5. QED
    BY <1>15, <2>1, <2>2, <2>3, <2>4, Kept DEF Fail
<1>16. CASE Abort(t)
  <2>1. RowType'
    BY <1>16, RowKept DEF Abort
  <2>2. MetaType'
    BY <1>16, Kept DEF Abort
  <2>3. FilesType'
    BY <1>16, Kept DEF Abort
  <2>4. WorkerType'
    BY <1>16, StopType DEF Abort
  <2>5. QED
    BY <1>16, <2>1, <2>2, <2>3, <2>4, Kept DEF Abort
<1>17. QED
  BY <1>1, <1>2, <1>3, <1>4, <1>5, <1>6, <1>7, <1>8, <1>9, <1>10, <1>11, <1>12, <1>13, <1>14, <1>15, <1>16 DEF Work

(* Every other step keeps them too. *)
LEMMA OtherType ==
    ASSUME LifecycleAssumption, TypeOK,
           \/ EnqueueFails \/ Cancel \/ MarkCorrupted \/ Restart \/ UnlinkShared
           \/ Recovery \/ Age
           \/ \E t \in Tasks : Enqueue(t) \/ Crash(t)
           \/ UNCHANGED vars
    PROVE  TypeOK'
<1> USE DEF TypeOK
<1>1. CASE EnqueueFails
  BY <1>1, RowKept, Kept DEF EnqueueFails, RequestType, WorkerType, worker, view
<1>2. CASE CancelRead
  BY <1>2, RowKept, Kept DEF CancelRead, RequestType, MetaType, WorkerType, worker
<1>3. CASE CancelInspect
  <2>1. vactive' \subseteq Tasks
    BY <1>3 DEF CancelInspect, Answers, RequestType
  <2>2. QED
    BY <1>3, <2>1, RowKept, Kept DEF CancelInspect, RequestType, WorkerType, worker
<1>4. CASE CancelNow
  BY <1>4, Kept DEF CancelNow, CancelReset, SetRow, RowType, MetaType, RequestType, WorkerType, worker
<1>5. CASE CancelLater
  BY <1>5, Kept DEF CancelLater, CancelReset, Revocable, SetRow, RowType, MetaType, RequestType, WorkerType, worker
<1>6. CASE CancelFails
  BY <1>6, RowKept, Kept DEF CancelFails, CancelReset, Revocable, RequestType, WorkerType, worker
<1>7. CASE MarkCorrupted
  BY <1>7, Kept DEF MarkCorrupted, SetRow, RowType, WorkerType, worker
<1>20. CASE Restart \/ UnlinkShared
  BY <1>20, RowKept, Kept DEF Restart, UnlinkShared, FilesType, WorkerType, worker
<1>8. CASE Scan
  BY <1>8, RowKept, Kept DEF Scan, RecoveryType, WorkerType, worker
<1>9. CASE Inspect
  BY <1>9, RowKept, Kept DEF Inspect, RecoveryReset, RecoveryType, MetaType, WorkerType, worker
<1>10. CASE FinalizeCancel
  <2>1. RowType'
    BY <1>10, SaveRowType DEF FinalizeCancel, RowFinish, RowType
  <2>2. QED
    BY <1>10, <2>1, Kept DEF FinalizeCancel, RecoveryReset, RecoveryType, MetaType, WorkerType, worker
<1>11. CASE Requeue
  <2>1. RowType'
    BY <1>11, SaveRowType DEF Requeue, RowRequeue
  <2>2. QED
    BY <1>11, <2>1, Kept DEF Requeue, RecoveryType, WorkerType, worker
<1>12. CASE RecordRequeue
  <2>1. MetaType'
    BY <1>12 DEF RecordRequeue, RecoveryType, MetaType
  <2>2. RecoveryType'
    BY <1>12 DEF RecordRequeue, RecoveryReset, RecoveryType
  <2>3. QED
    BY <1>12, <2>1, <2>2, RowKept, Kept DEF RecordRequeue, WorkerType, worker
<1>13. CASE CannotResume
  <2>1. RowType'
    BY <1>13, SaveRowType DEF CannotResume, RowFinish, RowType
  <2>2. QED
    BY <1>13, <2>1, Kept DEF CannotResume, RecoveryReset, RecoveryType, MetaType, WorkerType, worker
<1>14. CASE Age
  BY <1>14, Kept DEF Age, RowType, MetaType, WorkerType, worker
<1>15. ASSUME NEW t \in Tasks, Redispatch(t) PROVE TypeOK'
  <2>1. WorkerType'
    BY <1>15, GotoType DEF Redispatch, WorkerType
  <2>2. QED
    BY <1>15, <2>1, RowKept, Kept DEF Redispatch, RecoveryType
<1>16. ASSUME NEW t \in Tasks, Enqueue(t) PROVE TypeOK'
  BY <1>16, RowKept, Kept DEF Enqueue, RequestType, WorkerType, view
<1>17. ASSUME NEW t \in Tasks, Crash(t) PROVE TypeOK'
  BY <1>17, StopType, RowKept, Kept DEF Crash
<1>18. CASE UNCHANGED vars
  BY <1>18, RowKept, Kept DEF vars, WorkerType, worker
<1>19. QED
  BY <1>1, <1>2, <1>3, <1>4, <1>5, <1>6, <1>7, <1>8, <1>9, <1>10, <1>11, <1>12,
     <1>13, <1>14, <1>15, <1>16, <1>17, <1>18, <1>20 DEF Cancel, Recovery

(* Only CancelCheck makes a task stage a block, and it counts them first. *)
LEMMA BlocksStep ==
    ASSUME TypeOK, BlocksLeft, [Next]_vars
    PROVE  BlocksLeft'
<1> USE DEF TypeOK, WorkerType, BlocksLeft
<1>1. ASSUME NEW t \in Tasks, Work(t) PROVE BlocksLeft'
  <2>1. CASE CancelCheck(t)
    BY <2>1 DEF CancelCheck, Goto
  <2>2. CASE StageBlock(t)
    BY <2>2 DEF StageBlock, Goto
  <2>3. CASE Deliver(t) \/ DropRevoked(t) \/ Claim(t) \/ Start(t) \/ StartMeta(t)
    BY <2>3 DEF Deliver, DropRevoked, Claim, Start, StartMeta, Goto
  <2>4. CASE Normalize(t) \/ BeginUpload(t) \/ PostUploadCheck(t) \/ UploadDone(t)
    BY <2>4 DEF Normalize, BeginUpload, PostUploadCheck, UploadDone, Goto
  <2>5. CASE UploadCancelled(t) \/ AgentReturns(t) \/ Succeed(t) \/ Fail(t) \/ Abort(t)
    BY <2>5 DEF UploadCancelled, AgentReturns, Succeed, Fail, Abort, Stop, Goto
  <2>6. QED
    BY <1>1, <2>1, <2>2, <2>3, <2>4, <2>5 DEF Work
<1>2. ASSUME NEW t \in Tasks, Enqueue(t) \/ Crash(t) \/ Redispatch(t) PROVE BlocksLeft'
  BY <1>2 DEF Enqueue, Crash, Redispatch, Stop, Goto
<1>3. CASE UNCHANGED worker
  BY <1>3 DEF worker
<1>4. QED
  <2>1. EnqueueFails \/ Cancel \/ MarkCorrupted \/ Restart \/ UnlinkShared \/ Age => UNCHANGED worker
    BY DEF EnqueueFails, Cancel, CancelRead, CancelInspect, CancelNow, CancelLater,
           CancelFails, MarkCorrupted, Restart, UnlinkShared, Age
  <2>2. Scan \/ Inspect \/ FinalizeCancel \/ Requeue \/ RecordRequeue \/ CannotResume
            => UNCHANGED worker
    BY DEF Scan, Inspect, FinalizeCancel, Requeue, RecordRequeue, CannotResume
  <2>3. UNCHANGED vars => UNCHANGED worker
    BY DEF vars, worker
  <2>4. QED
    BY <1>1, <1>2, <1>3, <2>1, <2>2, <2>3 DEF Next, Recovery

(* The inductive invariant behind the types. *)
Typed == TypeOK /\ BlocksLeft

(* Type correctness: every variable keeps its type, for all constants. *)
THEOREM TypeCorrect == Spec => []TypeOK
<1> USE LifecycleAssumption
<1>1. Init => Typed
  <2> SUFFICES ASSUME Init PROVE Typed
    OBVIOUS
  <2>1. RowType /\ MetaType /\ FilesType
    BY DEF Init, RowType, MetaType, FilesType
  <2>2. WorkerType /\ BlocksLeft
    BY 0 \in 0..Chunks DEF Init, WorkerType, BlocksLeft, LifecycleAssumption
  <2>3. RequestType /\ RecoveryType
    BY DEF Init, RequestType, RecoveryType
  <2>4. QED
    BY <2>1, <2>2, <2>3 DEF Init, Typed, TypeOK
<1>2. Typed /\ [Next]_vars => Typed'
  BY WorkType, OtherType, BlocksStep DEF Typed, Next
<1>3. Typed => TypeOK
  BY DEF Typed
<1>4. QED
  BY <1>1, <1>2, <1>3, PTL DEF Spec

(* A save keeps the end time in step with the status it writes. *)
LEMMA SaveRowDated ==
    ASSUME DatedExactly, NEW s, NEW f \in BOOLEAN, NEW y, SaveRow(s, f, y),
           s \in Terminal => f,
           s = "PENDING" => ~f
    PROVE  DatedExactly'
BY DEF DatedExactly, SaveRow, SetRow, row

(* A closed job has an end time and a PENDING one has none: every writer of  *)
(* the row, in any order with any other, keeps the two in step.              *)
THEOREM DatesCorrect == Spec => []DatedExactly
<1>1. Init => DatedExactly
  BY DEF Init, DatedExactly
<1>2. TypeOK /\ DatedExactly /\ [Next]_vars => DatedExactly'
  <2> SUFFICES ASSUME TypeOK, DatedExactly, [Next]_vars PROVE DatedExactly'
    OBVIOUS
  <2>0. finished \in BOOLEAN
    BY DEF TypeOK, RowType
  <2>1. ASSUME NEW t \in Tasks, Work(t) PROVE DatedExactly'
    <3>1. CASE Start(t)
      BY <3>1, SaveRowDated DEF Start, StartStatuses, RowStart
    <3>2. CASE Normalize(t) \/ BeginUpload(t) \/ StageBlock(t) \/ UploadDone(t)
      BY <3>2, <2>0, SaveRowDated
         DEF Normalize, BeginUpload, StageBlock, UploadDone, RowTransition, DatedExactly, row
    <3>3. CASE UploadCancelled(t) \/ Succeed(t) \/ Fail(t)
      BY <3>3, SaveRowDated DEF UploadCancelled, Succeed, Fail, RowFinish
    <3>4. CASE Deliver(t) \/ DropRevoked(t) \/ Claim(t) \/ StartMeta(t)
      BY <3>4 DEF Deliver, DropRevoked, Claim, StartMeta, DatedExactly, row
    <3>5. CASE CancelCheck(t) \/ PostUploadCheck(t) \/ AgentReturns(t) \/ Abort(t)
      BY <3>5 DEF CancelCheck, PostUploadCheck, AgentReturns, Abort, DatedExactly, row
    <3>6. QED
      BY <2>1, <3>1, <3>2, <3>3, <3>4, <3>5 DEF Work
  <2>2. ASSUME NEW t \in Tasks, Enqueue(t) \/ Crash(t) \/ Redispatch(t) PROVE DatedExactly'
    BY <2>2 DEF Enqueue, Crash, Redispatch, DatedExactly, row
  <2>3. CASE CancelNow \/ CancelLater \/ MarkCorrupted
    BY <2>3 DEF CancelNow, CancelLater, MarkCorrupted, SetRow, DatedExactly
  <2>4. CASE FinalizeCancel \/ CannotResume
    BY <2>4, SaveRowDated DEF FinalizeCancel, CannotResume, RowFinish
  <2>5. CASE Requeue
    BY <2>5, SaveRowDated DEF Requeue, RowRequeue
  <2>6. CASE EnqueueFails \/ CancelRead \/ CancelInspect \/ CancelFails \/ Restart \/ UnlinkShared
    BY <2>6 DEF EnqueueFails, CancelRead, CancelInspect, CancelFails, Restart, UnlinkShared,
                DatedExactly, row
  <2>7. CASE Scan \/ Inspect \/ RecordRequeue \/ Age
    BY <2>7 DEF Scan, Inspect, RecordRequeue, Age, DatedExactly, row
  <2>8. CASE UNCHANGED vars
    BY <2>8 DEF vars, DatedExactly, row
  <2>9. QED
    BY <2>1, <2>2, <2>3, <2>4, <2>5, <2>6, <2>7, <2>8 DEF Next, Cancel, Recovery
<1>3. QED
  BY <1>1, <1>2, TypeCorrect, PTL DEF Spec

(***************************************************************************)
(* A message makes finitely many steps                                     *)
(***************************************************************************)
(* The steps a message may still make: the longest way from each place to    *)
(* the end of its execution, with two steps for each block not yet staged.   *)
StepsLeft ==
    [t \in Tasks |->
        CASE pc[t] = "unused"    -> 2 * Chunks + 12
          [] pc[t] = "queued"    -> 2 * Chunks + 11
          [] pc[t] = "reserved"  -> 2 * Chunks + 10
          [] pc[t] = "claimed"   -> 2 * Chunks + 9
          [] pc[t] = "started"   -> 2 * Chunks + 8
          [] pc[t] = "normalize" -> 2 * Chunks + 7
          [] pc[t] = "upload"    -> 2 * Chunks + 6
          [] pc[t] = "check"     -> 2 * (Chunks - staged[t]) + 5
          [] pc[t] = "stage"     -> 2 * (Chunks - staged[t]) + 4
          [] pc[t] = "uploaded"  -> 4
          [] pc[t] = "cleared"   -> 3
          [] pc[t] = "agent"     -> 2
          [] pc[t] \in {"persist", "cancelled", "withdrawn"} -> 1
          [] OTHER               -> 0]

StepsCounted == \A t \in Tasks : StepsLeft[t] \in 0..(2 * Chunks + 12)

(* The steps of a message: it is sent, by the request or by recovery, makes  *)
(* its way through a worker, or dies with it.                                *)
Advances(t) == Enqueue(t) \/ Redispatch(t) \/ Crash(t) \/ Work(t)

MessageSteps ==
    \A t \in Tasks : /\ Advances(t)  => StepsLeft'[t] < StepsLeft[t]
                     /\ ~Advances(t) => StepsLeft'[t] = StepsLeft[t]

(* What is left is counted. *)
LEMMA StepsType == ASSUME TypeOK PROVE StepsCounted
<1> SUFFICES ASSUME NEW t \in Tasks PROVE StepsLeft[t] \in 0..(2 * Chunks + 12)
  BY DEF StepsCounted
<1>1. /\ Chunks \in Nat /\ staged[t] \in Nat /\ staged[t] <= Chunks
      /\ pc[t] \in Places
  BY LifecycleAssumption DEF TypeOK, WorkerType, LifecycleAssumption
<1>2. CASE pc[t] \in {"check", "stage"}
  <2>1. StepsLeft[t] = 2 * (Chunks - staged[t]) + IF pc[t] = "check" THEN 5 ELSE 4
    BY <1>2 DEF StepsLeft
  <2>2. QED
    BY <1>1, <2>1
<1>3. CASE pc[t] \in {"unused", "queued", "reserved", "claimed", "started", "normalize", "upload"}
  <2>1. PICK n \in 6..12 : StepsLeft[t] = 2 * Chunks + n
    BY <1>3 DEF StepsLeft
  <2>2. QED
    BY <1>1, <2>1
<1>4. CASE pc[t] \notin {"unused", "queued", "reserved", "claimed", "started", "normalize",
                         "upload", "check", "stage"}
  <2>1. StepsLeft[t] \in 0..4
    BY <1>4 DEF StepsLeft
  <2>2. QED
    BY <1>1, <2>1
<1>5. QED
  BY <1>2, <1>3, <1>4

(* The way of a message: each place leads to places nearer to the end, but   *)
(* for the loop over the blocks, where a block more is staged.               *)
Nearer(t) ==
    /\ \A u \in Tasks \ {t} : pc'[u] = pc[u] /\ staged'[u] = staged[u]
    /\ \/ pc[t] = "unused"    /\ pc'[t] = "queued"
       \/ pc[t] = "queued"    /\ pc'[t] = "reserved"
       \/ pc[t] = "reserved"  /\ pc'[t] \in {"claimed", "done"}
       \/ pc[t] = "claimed"   /\ pc'[t] \in {"started", "done"}
       \/ pc[t] = "started"   /\ pc'[t] \in {"normalize", "agent"}
       \/ pc[t] = "normalize" /\ pc'[t] \in {"upload", "done"}
       \/ pc[t] = "upload"    /\ pc'[t] \in {"check", "done"}
       \/ pc[t] = "check"     /\ pc'[t] \in {"cancelled", "uploaded", "done"}
       \/ pc[t] = "check"     /\ pc'[t] = "stage" /\ staged'[t] = staged[t]
       \/ pc[t] = "stage"     /\ pc'[t] = "check" /\ staged'[t] = staged[t] + 1
       \/ pc[t] = "stage"     /\ pc'[t] = "done"
       \/ pc[t] = "uploaded"  /\ pc'[t] \in {"cleared", "withdrawn", "done"}
       \/ pc[t] = "cleared"   /\ pc'[t] = "agent"
       \/ pc[t] = "agent"     /\ pc'[t] \in {"persist", "done"}
       \/ pc[t] \in {"persist", "cancelled", "withdrawn"} /\ pc'[t] = "done"
       \/ pc[t] \in Executing /\ pc'[t] = "dead"

(* Every step of a message is one on that way, and leaves other messages be. *)
LEMMA AdvancesNearer ==
    ASSUME TypeOK, NEW t \in Tasks, Advances(t)
    PROVE  Nearer(t)
<1> USE DEF TypeOK, WorkerType, Nearer
<1>1. CASE Enqueue(t)
  BY <1>1 DEF Enqueue, IsNew, Unused
<1>2. CASE Redispatch(t)
  BY <1>2 DEF Redispatch, Goto, IsNew, Unused
<1>3. CASE Crash(t)
  BY <1>3 DEF Crash, Stop, Goto
<1>4. CASE Deliver(t)
  BY <1>4 DEF Deliver, Goto
<1>5. CASE DropRevoked(t)
  BY <1>5 DEF DropRevoked, Goto
<1>6. CASE Claim(t)
  BY <1>6 DEF Claim, Goto
<1>7. CASE Start(t)
  BY <1>7 DEF Start, Goto
<1>8. CASE StartMeta(t)
  BY <1>8 DEF StartMeta, Goto
<1>9. CASE Normalize(t)
  BY <1>9 DEF Normalize, Goto
<1>10. CASE BeginUpload(t)
  BY <1>10 DEF BeginUpload, Goto
<1>11. CASE CancelCheck(t)
  BY <1>11 DEF CancelCheck, Goto
<1>12. CASE StageBlock(t)
  BY <1>12 DEF StageBlock, Goto
<1>13. CASE PostUploadCheck(t)
  BY <1>13 DEF PostUploadCheck, Goto
<1>14. CASE UploadDone(t)
  BY <1>14 DEF UploadDone, Goto
<1>15. CASE UploadCancelled(t)
  BY <1>15 DEF UploadCancelled, Stop, Goto
<1>16. CASE AgentReturns(t)
  BY <1>16 DEF AgentReturns, Stop, Goto
<1>17. CASE Succeed(t)
  BY <1>17 DEF Succeed, Stop, Goto
<1>18. CASE Fail(t)
  BY <1>18 DEF Fail, Stop, Goto
<1>19. CASE Abort(t)
  BY <1>19 DEF Abort, Stop, Goto
<1>20. QED
  BY <1>1, <1>2, <1>3, <1>4, <1>5, <1>6, <1>7, <1>8, <1>9, <1>10, <1>11, <1>12,
     <1>13, <1>14, <1>15, <1>16, <1>17, <1>18, <1>19 DEF Advances, Work

(* A step nearer to the end is one less to make. *)
LEMMA NearerIsLess ==
    ASSUME TypeOK, TypeOK', NEW t \in Tasks, Nearer(t)
    PROVE  /\ StepsLeft'[t] < StepsLeft[t]
           /\ \A u \in Tasks \ {t} : StepsLeft'[u] = StepsLeft[u]
<1>1. /\ Chunks \in Nat /\ staged[t] \in Nat /\ staged[t] <= Chunks
      /\ staged'[t] \in Nat /\ staged'[t] <= Chunks
  BY LifecycleAssumption DEF TypeOK, WorkerType, LifecycleAssumption
<1>2. StepsLeft'[t] < StepsLeft[t]
  BY <1>1 DEF Nearer, StepsLeft
<1>3. \A u \in Tasks \ {t} : StepsLeft'[u] = StepsLeft[u]
  BY DEF Nearer, StepsLeft
<1>4. QED
  BY <1>2, <1>3

(* Whatever requests, recovery and other workers do to the row and the       *)
(* metadata, a message makes at most 2 * Chunks + 12 steps: no overwritten   *)
(* status sends an execution round again, and no step but its own moves it.  *)
THEOREM MessagesEnd == Spec => []StepsCounted /\ [][MessageSteps]_vars
<1>1. TypeOK => StepsCounted
  BY StepsType
<1>2. TypeOK /\ TypeOK' /\ [Next]_vars => [MessageSteps]_vars
  <2> SUFFICES ASSUME TypeOK, TypeOK', Next, NEW t \in Tasks
               PROVE  /\ Advances(t)  => StepsLeft'[t] < StepsLeft[t]
                      /\ ~Advances(t) => StepsLeft'[t] = StepsLeft[t]
    BY DEF MessageSteps
  <2>1. CASE Advances(t)
    <3>1. Nearer(t)
      BY <2>1, AdvancesNearer
    <3>2. StepsLeft'[t] < StepsLeft[t]
      BY <3>1, NearerIsLess
    <3>3. QED
      BY <2>1, <3>2
  <2>2. CASE ~Advances(t)
    <3>1. ASSUME NEW u \in Tasks, Advances(u) PROVE StepsLeft'[t] = StepsLeft[t]
      BY <2>2, <3>1, AdvancesNearer, NearerIsLess
    <3>2. CASE UNCHANGED worker
      <4>1. StepsLeft' = StepsLeft
        BY <3>2 DEF worker, StepsLeft
      <4>2. QED
        BY <2>2, <4>1
    <3>3. EnqueueFails \/ Cancel \/ MarkCorrupted \/ Restart \/ UnlinkShared \/ Age => UNCHANGED worker
      BY DEF EnqueueFails, Cancel, CancelRead, CancelInspect, CancelNow, CancelLater,
             CancelFails, MarkCorrupted, Restart, UnlinkShared, Age
    <3>4. Scan \/ Inspect \/ FinalizeCancel \/ Requeue \/ RecordRequeue \/ CannotResume
              => UNCHANGED worker
      BY DEF Scan, Inspect, FinalizeCancel, Requeue, RecordRequeue, CannotResume
    <3>5. QED
      BY <2>2, <3>1, <3>2, <3>3, <3>4 DEF Next, Recovery, Advances
  <2>3. QED
    BY <2>1, <2>2
<1>3. QED
  BY <1>1, <1>2, TypeCorrect, PTL DEF Spec

(***************************************************************************)
(* Recovery comes nearer to an abandoned job                               *)
(***************************************************************************)
(* The stale period is running, and recovery has not got past its questions. *)
Young == (fresh \/ recent) /\ rpc \in {"idle", "scanned"}

(* How far recovery is from closing an abandoned job or sending it again:    *)
(* the rest of an earlier pass comes first, then the end of the stale        *)
(* period, then the three steps of the pass.                                 *)
RecoveryRank ==
    CASE rpc = "requeue"               -> 6
      [] rpc = "record"                -> 5
      [] Young                         -> 4
      [] ~Young /\ rpc = "idle"        -> 3
      [] ~Young /\ rpc = "scanned"     -> 2
      [] rpc \in {"resume", "finalize"} -> 1

(* No step but one that ends its state takes an abandoned job away from its  *)
(* recovery, and the step that is due, the end of the stale period or one of *)
(* recovery, brings it nearer.                                               *)
RanksFall ==
    Abandoned /\ Abandoned' =>
        /\ RecoveryRank' <= RecoveryRank
        /\ (IF Young THEN Age ELSE Recovery) => RecoveryRank' < RecoveryRank

(* Of an abandoned job no worker reports a task, so that a pass after the    *)
(* stale period goes on to resume or to close the job.                       *)
LEMMA InspectGoesOn ==
    ASSUME TypeOK, Abandoned, Inspect
    PROVE  /\ rpc = "scanned" /\ UNCHANGED <<fresh, recent>>
           /\ rpc' \in {"idle", "resume", "finalize"}
           /\ ~recent => rpc' \in {"resume", "finalize"}
<1>1. PICK active \in Answers(ids), stored \in SUBSET Killed :
        IF active # {} \/ WaitsForRequeued(stored)
        THEN RecoveryReset
        ELSE rpc' = IF rsnap = "CANCELLING" THEN "finalize" ELSE "resume"
  BY DEF Inspect
<1>2. active = {}
  <2>1. Visible \subseteq Alive
    BY DEF Visible, Alive
  <2>2. QED
    BY <2>1 DEF Answers, Abandoned
<1>3. ~recent => ~WaitsForRequeued(stored)
  BY DEF WaitsForRequeued
<1>4. QED
  BY <1>1, <1>2, <1>3 DEF Inspect, RecoveryReset, row, meta

(* Each step of a pass over an abandoned job. *)
LEMMA RecoveryNearer ==
    ASSUME ~SavesFail, TypeOK, Abandoned, Abandoned', Recovery
    PROVE  /\ RecoveryRank' <= RecoveryRank
           /\ ~Young => RecoveryRank' < RecoveryRank
<1>1. CASE Scan
  <2>1. rpc = "idle" /\ rpc' = "scanned" /\ ~fresh /\ UNCHANGED <<fresh, recent>>
    BY <1>1 DEF Scan, row, meta
  <2>2. QED
    BY <2>1 DEF RecoveryRank, Young
<1>2. CASE Inspect
  <2>1. /\ rpc = "scanned" /\ UNCHANGED <<fresh, recent>>
        /\ rpc' \in {"idle", "resume", "finalize"}
        /\ ~recent => rpc' \in {"resume", "finalize"}
    BY <1>2, InspectGoesOn
  <2>2. QED
    BY <2>1 DEF RecoveryRank, Young
<1>3. CASE FinalizeCancel \/ CannotResume
  <2>1. finished'
    BY <1>3 DEF FinalizeCancel, CannotResume, RowFinish, SaveRow, SetRow
  <2>2. QED
    BY <2>1 DEF Abandoned
<1>4. CASE Requeue
  <2>1. status' = "PENDING"
    BY <1>4 DEF Requeue, RowRequeue, SaveRow, SetRow
  <2>2. QED
    BY <2>1 DEF Abandoned
<1>5. CASE RecordRequeue
  <2>1. rpc = "record" /\ rpc' = "idle" /\ recent' = TRUE
    BY <1>5 DEF RecordRequeue, RecoveryReset
  <2>2. QED
    BY <2>1 DEF RecoveryRank, Young
<1>6. ASSUME NEW t \in Tasks, Redispatch(t)
      PROVE  FALSE
  <2>1. pc'[t] = "queued"
    BY <1>6 DEF Redispatch, Goto, TypeOK, WorkerType
  <2>2. QED
    BY <2>1 DEF Abandoned, Alive
<1>7. QED
  BY <1>1, <1>2, <1>3, <1>4, <1>5, <1>6 DEF Recovery

(* The other steps an abandoned job may see. *)
LEMMA OthersNoFarther ==
    ASSUME TypeOK, Abandoned, Abandoned', Next, ~Recovery
    PROVE  /\ RecoveryRank' <= RecoveryRank
           /\ Young /\ Age => RecoveryRank' < RecoveryRank
<1>1. CASE EnqueueFails \/ Cancel \/ MarkCorrupted \/ Restart \/ UnlinkShared
  <2>1. UNCHANGED <<rpc, fresh, recent>>
    BY <1>1 DEF EnqueueFails, Cancel, CancelRead, CancelInspect, CancelNow, CancelLater,
                CancelFails, MarkCorrupted, Restart, UnlinkShared, SetRow, row, meta, recover
  <2>2. RecoveryRank' = RecoveryRank /\ ~(Young /\ Age)
    BY <2>1 DEF RecoveryRank, Young, Age
  <2>3. RecoveryRank \in 1..6
    BY DEF RecoveryRank, TypeOK, RecoveryType
  <2>4. QED
    BY <2>2, <2>3
<1>2. CASE Age
  <2>1. rpc' = rpc /\ fresh' = FALSE /\ recent' = FALSE
    BY <1>2 DEF Age, recover
  <2>2. rpc \in {"idle", "scanned", "resume", "finalize", "requeue", "record"}
    BY DEF TypeOK, RecoveryType
  <2>3. QED
    BY <2>1, <2>2 DEF RecoveryRank, Young
<1>3. ASSUME NEW t \in Tasks, Enqueue(t) \/ Work(t) \/ Crash(t)
      PROVE  FALSE
  <2>1. CASE Enqueue(t)
    <3>1. pc'[t] = "queued"
      BY <2>1 DEF Enqueue, TypeOK, WorkerType
    <3>2. QED
      BY <3>1 DEF Abandoned, Alive
  <2>2. CASE Work(t) \/ Crash(t)
    <3>1. pc[t] \in Executing \cup Waiting
      BY <2>2 DEF Work, Crash, Deliver, DropRevoked, Claim, Start, StartMeta, Normalize,
         BeginUpload, CancelCheck, StageBlock, PostUploadCheck, UploadDone,
         UploadCancelled, AgentReturns, Succeed, Fail, Abort
    <3>2. QED
      BY <3>1 DEF Abandoned, Alive
  <2>3. QED
    BY <1>3, <2>1, <2>2
<1>4. QED
  BY <1>1, <1>2, <1>3 DEF Next

(* Where saves are not refused, nothing users do, and no end of an earlier   *)
(* pass, keeps recovery from an abandoned job: the argument behind           *)
(* AbandonedIsRecovered, whatever the kind and even if workers do not answer *)
(* inspect().                                                                *)
THEOREM RecoveryComesNearer == ASSUME ~SavesFail PROVE Spec => [][RanksFall]_vars
<1>1. TypeOK /\ [Next]_vars => [RanksFall]_vars
  <2> SUFFICES ASSUME TypeOK, Next, Abandoned, Abandoned'
               PROVE  /\ RecoveryRank' <= RecoveryRank
                      /\ (IF Young THEN Age ELSE Recovery) => RecoveryRank' < RecoveryRank
    BY DEF RanksFall
  <2>1. CASE Recovery
    <3>1. ~(Young /\ Age)
      BY <2>1 DEF Recovery, Scan, Inspect, Redispatch, Requeue, RecordRequeue,
         FinalizeCancel, CannotResume, Age, Young, row, meta
    <3>2. QED
      BY <2>1, <3>1, RecoveryNearer
  <2>2. CASE ~Recovery
    BY <2>2, OthersNoFarther
  <2>3. QED
    BY <2>1, <2>2
<1>2. QED
  BY <1>1, TypeCorrect, PTL DEF Spec
=============================================================================
