---------------------- MODULE JobLifecycleLeaseProofs ----------------------
(* One message of a job at a time: the theorems about JobLifecycle that need *)
(* workers that answer inspect(), a database that takes every save, and a    *)
(* kind that records its task id; for any number of messages and blocks.     *)
EXTENDS JobLifecycleProofs, FiniteSetTheorems

Tracked == InspectReplies /\ ~SavesFail /\ "compose" \notin Kinds

(***************************************************************************)
(* The inductive invariant                                                 *)
(***************************************************************************)
Busy       == {"RUNNING", "UPLOADING", "CONVERTING"}
NotBegun   == Waiting \cup {"claimed"}
Unrecorded == NotBegun \cup {"started"}

(* At most one message is waiting or executing, *)
OneAlive == \A t, u \in Alive : t = u

(* none before the request has sent one, *)
NoneYet ==
    submit = "created" =>
        /\ Alive = {}
        /\ status \notin Busy
        /\ rpc \in {"idle", "scanned", "finalize"}
        /\ rpc = "scanned" => rsnap \notin Busy

(* and the id of one that is executing is in the metadata, *)
AliveRecorded == \A t \in Alive : pc[t] \in Unrecorded \/ t \in ids

(* at the latest by the time recovery can find the row. *)
BusyBegun ==
    status \in Busy =>
        \A t \in Tasks : /\ pc[t] \in NotBegun => rpc = "requeue"
                         /\ pc[t] = "started" => fresh

(* Recovery goes on only where nothing is alive but what it has sent. *)
RecoveryAlone ==
    /\ rpc = "scanned" => rsnap \in Scannable
    /\ rpc = "scanned" /\ rsnap \in Busy => \A t \in Tasks : pc[t] \notin Unrecorded
    /\ rpc = "resume" => Alive = {}
    /\ rpc \in {"requeue", "record"} => \A t \in Alive : t = rnew

AloneInv == OneAlive /\ NoneYet /\ AliveRecorded /\ BusyBegun /\ RecoveryAlone

(***************************************************************************)
(* What a step does to the places                                          *)
(***************************************************************************)
USE DEF Statuses, Terminal, Scannable, Places, Executing, Waiting

(* A step of a worker concerns one message, which stays what it is or ends. *)
Moves(t, x) ==
    /\ pc' = [pc EXCEPT ![t] = x]
    /\ UNCHANGED <<kind, submit, rpc, rsnap, rnew>>

(* The steps of a worker that leave row and metadata alone. *)
Quiet(t) ==
    \/ Deliver(t) \/ DropRevoked(t) \/ Claim(t) \/ CancelCheck(t) \/ PostUploadCheck(t)
    \/ AgentReturns(t) \/ Abort(t) \/ Crash(t)

Ended == {"done", "dead"}

(* What they do to the place of a message.                                   *)
LEMMA QuietMoves ==
    ASSUME TypeOK, NEW t \in Tasks, Quiet(t)
    PROVE  /\ t \in Alive
           /\ UNCHANGED <<status, fresh, ids>>
           /\ \E x \in Places :
                /\ Moves(t, x)
                /\ pc[t] \notin Unrecorded => x \notin Unrecorded
                /\ x \in Unrecorded => x \in NotBegun /\ pc[t] \in NotBegun
                /\ x \notin Unrecorded /\ pc[t] \in Unrecorded => x \in Ended
                /\ x # "unused"
<1> USE DEF TypeOK, WorkerType, Moves, Unrecorded, NotBegun, Ended, Alive, row, meta, recover
<1>1. CASE Deliver(t)
  BY <1>1 DEF Deliver, Goto
<1>2. CASE DropRevoked(t)
  BY <1>2 DEF DropRevoked, Goto
<1>3. CASE Claim(t)
  BY <1>3 DEF Claim, Goto
<1>4. CASE CancelCheck(t)
  BY <1>4 DEF CancelCheck, Goto
<1>5. CASE PostUploadCheck(t)
  BY <1>5 DEF PostUploadCheck, Goto
<1>6. CASE AgentReturns(t)
  BY <1>6 DEF AgentReturns, Stop, Goto
<1>7. CASE Abort(t) \/ Crash(t)
  BY <1>7 DEF Abort, Crash, Stop, Goto
<1>8. QED
  BY <1>1, <1>2, <1>3, <1>4, <1>5, <1>6, <1>7 DEF Quiet

(* The steps of an execution that save the row and go on. *)
Saving(t) == Normalize(t) \/ BeginUpload(t) \/ StageBlock(t) \/ UploadDone(t)

(* The steps of an execution that save the row and go on.                    *)
LEMMA SavingMoves ==
    ASSUME Tracked, TypeOK, NEW t \in Tasks, Saving(t)
    PROVE  /\ t \in Alive
           /\ UNCHANGED <<fresh, ids>>
           /\ status' \in Busy \cup {status}
           /\ pc[t] \notin Unrecorded
           /\ \E x \in Executing \ Unrecorded : Moves(t, x)
<1> USE DEF TypeOK, WorkerType, Moves, Unrecorded, NotBegun, Alive, row, meta, recover,
            Busy, Tracked, RowTransition, SaveRow, SetRow, Goto
<1>1. CASE Normalize(t)
  BY <1>1 DEF Normalize
<1>2. CASE BeginUpload(t)
  BY <1>2 DEF BeginUpload
<1>3. CASE StageBlock(t)
  BY <1>3 DEF StageBlock
<1>4. CASE UploadDone(t)
  BY <1>4 DEF UploadDone
<1>5. QED
  BY <1>1, <1>2, <1>3, <1>4 DEF Saving

(* The steps that close the row. *)
Ending(t) == UploadCancelled(t) \/ Succeed(t) \/ Fail(t)

(* The steps that end an execution with a save.                              *)
LEMMA EndingMoves ==
    ASSUME Tracked, TypeOK, NEW t \in Tasks, Ending(t)
    PROVE  /\ t \in Alive
           /\ ids \subseteq ids'
           /\ status' \notin Busy
           /\ pc[t] \notin Unrecorded
           /\ Moves(t, "done")
<1> USE DEF TypeOK, WorkerType, Moves, Unrecorded, NotBegun, Alive, row, meta, recover,
            Busy, Tracked, RowFinish, SaveRow, SetRow, Stop, Goto, Recorded
<1>1. CASE UploadCancelled(t)
  BY <1>1 DEF UploadCancelled
<1>2. CASE Succeed(t)
  BY <1>2 DEF Succeed
<1>3. CASE Fail(t)
  BY <1>3 DEF Fail
<1>4. QED
  BY <1>1, <1>2, <1>3 DEF Ending

(* The first save of an execution makes the row fresh,                       *)
LEMMA StartMoves ==
    ASSUME Tracked, TypeOK, NEW t \in Tasks, Start(t)
    PROVE  /\ t \in Alive /\ pc[t] = "claimed"
           /\ UNCHANGED ids
           /\ status' \in Busy /\ fresh' = TRUE
           /\ Moves(t, "started")
BY DEF TypeOK, WorkerType, Moves, Alive, meta, recover, Busy, Tracked, RowStart, SaveRow,
       SetRow, Goto, Start, StartStatuses

(* and the next records its id.                                              *)
LEMMA StartMetaMoves ==
    ASSUME LifecycleAssumption, Tracked, TypeOK, NEW t \in Tasks, StartMeta(t)
    PROVE  /\ t \in Alive /\ pc[t] = "started"
           /\ UNCHANGED <<status, fresh>>
           /\ t \in ids'
           /\ \E x \in {"normalize", "agent"} : Moves(t, x)
BY DEF TypeOK, WorkerType, Moves, Alive, row, recover, Tracked, Goto, StartMeta, Recorded,
       LifecycleAssumption

(* Only a message that is alive moves, and no message comes to life. *)
LEMMA AliveMoves ==
    ASSUME TypeOK, NEW t \in Alive, NEW x \in Places \ {"unused"}, Moves(t, x)
    PROVE  /\ Alive' \subseteq Alive /\ Alive' \subseteq Tasks
           /\ \A u \in Tasks : pc'[u] = IF u = t THEN x ELSE pc[u]
           /\ x \in Ended => t \notin Alive'
<1>1. \A u \in Tasks : pc'[u] = IF u = t THEN x ELSE pc[u]
  BY DEF Moves, TypeOK, WorkerType, Alive
<1>2. QED
  BY <1>1 DEF Alive, Ended

(***************************************************************************)
(* Every step keeps the invariant                                          *)
(***************************************************************************)
LEMMA AloneByWork ==
    ASSUME LifecycleAssumption, Tracked, TypeOK, AloneInv, NEW t \in Tasks,
           Work(t) \/ Crash(t)
    PROVE  AloneInv'
<1> USE DEF AloneInv
<1>1. CASE Quiet(t)
  <2>1. t \in Alive /\ UNCHANGED <<status, fresh, ids>>
    BY <1>1, QuietMoves
  <2>2. PICK x \in Places \ {"unused"} :
          /\ Moves(t, x)
          /\ pc[t] \notin Unrecorded => x \notin Unrecorded
          /\ x \in Unrecorded => x \in NotBegun /\ pc[t] \in NotBegun
          /\ x \notin Unrecorded /\ pc[t] \in Unrecorded => x \in Ended
    BY <1>1, QuietMoves
  <2>3. /\ Alive' \subseteq Alive /\ Alive' \subseteq Tasks
        /\ \A u \in Tasks : pc'[u] = IF u = t THEN x ELSE pc[u]
        /\ x \in Ended => t \notin Alive'
    BY <2>1, <2>2, AliveMoves
  <2>4. UNCHANGED <<submit, rpc, rsnap, rnew>>
    BY <2>2 DEF Moves
  <2>5. OneAlive'
    BY <2>3 DEF OneAlive
  <2>6. NoneYet'
    BY <2>1, <2>3, <2>4 DEF NoneYet
  <2>7. AliveRecorded'
    BY <2>1, <2>2, <2>3 DEF AliveRecorded
  <2>8. BusyBegun'
    BY <2>1, <2>2, <2>3, <2>4 DEF BusyBegun, Unrecorded, NotBegun
  <2>9. RecoveryAlone'
    BY <2>2, <2>3, <2>4 DEF RecoveryAlone, Unrecorded
  <2>10. QED
    BY <2>5, <2>6, <2>7, <2>8, <2>9
<1>2. CASE Start(t)
  <2>1. /\ t \in Alive /\ pc[t] = "claimed" /\ ids' = ids /\ fresh' = TRUE
        /\ Moves(t, "started")
    BY <1>2, StartMoves
  <2>2. /\ Alive' \subseteq Alive /\ Alive' \subseteq Tasks
        /\ \A u \in Tasks : pc'[u] = IF u = t THEN "started" ELSE pc[u]
    BY <2>1, AliveMoves
  <2>3. UNCHANGED <<submit, rpc, rsnap, rnew>>
    BY <2>1 DEF Moves
  <2>4. OneAlive'
    BY <2>2 DEF OneAlive
  <2>5. NoneYet'
    BY <2>1, <2>3 DEF NoneYet
  <2>6. AliveRecorded'
    BY <2>1, <2>2 DEF AliveRecorded, Unrecorded
  <2>7. BusyBegun'
    <3>1. \A u \in Tasks \ {t} : pc[u] \notin NotBegun
      BY <2>1 DEF OneAlive, Alive, NotBegun
    <3>2. QED
      BY <2>1, <2>2, <3>1 DEF BusyBegun, NotBegun
  <2>8. RecoveryAlone'
    BY <2>1, <2>2, <2>3 DEF RecoveryAlone, Unrecorded, NotBegun
  <2>9. QED
    BY <2>4, <2>5, <2>6, <2>7, <2>8
<1>3. CASE StartMeta(t)
  <2>1. /\ t \in Alive /\ pc[t] = "started" /\ t \in ids'
        /\ UNCHANGED <<status, fresh>>
    BY <1>3, StartMetaMoves
  <2>2. PICK x \in {"normalize", "agent"} : Moves(t, x)
    BY <1>3, StartMetaMoves
  <2>3. /\ Alive' \subseteq Alive /\ Alive' \subseteq Tasks
        /\ \A u \in Tasks : pc'[u] = IF u = t THEN x ELSE pc[u]
    BY <2>1, <2>2, AliveMoves
  <2>4. UNCHANGED <<submit, rpc, rsnap, rnew>>
    BY <2>2 DEF Moves
  <2>5. OneAlive'
    BY <2>3 DEF OneAlive
  <2>6. NoneYet'
    BY <2>1, <2>4 DEF NoneYet
  <2>7. AliveRecorded'
    BY <2>1, <2>3 DEF AliveRecorded, OneAlive
  <2>8. BusyBegun'
    BY <2>1, <2>3, <2>4 DEF BusyBegun, NotBegun
  <2>9. RecoveryAlone'
    BY <2>3, <2>4 DEF RecoveryAlone, Unrecorded, NotBegun
  <2>10. QED
    BY <2>5, <2>6, <2>7, <2>8, <2>9
<1>4. CASE Saving(t)
  <2>1. /\ t \in Alive /\ UNCHANGED <<fresh, ids>> /\ pc[t] \notin Unrecorded
    BY <1>4, SavingMoves
  <2>2. PICK x \in Executing \ Unrecorded : Moves(t, x)
    BY <1>4, SavingMoves
  <2>3. /\ Alive' \subseteq Alive /\ Alive' \subseteq Tasks
        /\ \A u \in Tasks : pc'[u] = IF u = t THEN x ELSE pc[u]
    BY <2>1, <2>2, AliveMoves
  <2>4. UNCHANGED <<submit, rpc, rsnap, rnew>>
    BY <2>2 DEF Moves
  <2>5. OneAlive'
    BY <2>3 DEF OneAlive
  <2>6. NoneYet'
    BY <2>1, <2>4 DEF NoneYet
  <2>7. AliveRecorded'
    BY <2>1, <2>3 DEF AliveRecorded
  <2>8. BusyBegun'
    <3>1. \A u \in Tasks \ {t} : pc[u] \notin Unrecorded
      BY <2>1 DEF OneAlive, Alive, Unrecorded, NotBegun
    <3>2. \A u \in Tasks : pc'[u] \notin Unrecorded
      BY <2>2, <2>3, <3>1
    <3>3. QED
      BY <3>2 DEF BusyBegun, Unrecorded
  <2>9. RecoveryAlone'
    BY <2>2, <2>3, <2>4 DEF RecoveryAlone
  <2>10. QED
    BY <2>5, <2>6, <2>7, <2>8, <2>9
<1>5. CASE Ending(t)
  <2>1. /\ t \in Alive /\ ids \subseteq ids' /\ status' \notin Busy
        /\ Moves(t, "done")
    BY <1>5, EndingMoves
  <2>2. /\ Alive' \subseteq Alive /\ Alive' \subseteq Tasks
        /\ \A u \in Tasks : pc'[u] = IF u = t THEN "done" ELSE pc[u]
        /\ t \notin Alive'
    BY <2>1, AliveMoves DEF Ended
  <2>3. UNCHANGED <<submit, rpc, rsnap, rnew>>
    BY <2>1 DEF Moves
  <2>4. OneAlive' /\ NoneYet' /\ BusyBegun'
    BY <2>1, <2>2, <2>3 DEF OneAlive, NoneYet, BusyBegun
  <2>5. AliveRecorded'
    BY <2>1, <2>2 DEF AliveRecorded, Alive
  <2>6. RecoveryAlone'
    BY <2>2, <2>3 DEF RecoveryAlone, Unrecorded, NotBegun
  <2>7. QED
    BY <2>4, <2>5, <2>6
<1>6. QED
  BY <1>1, <1>2, <1>3, <1>4, <1>5 DEF Work, Quiet, Saving, Ending

(* Steps that leave the messages where they are. *)
LEMMA AliveStays == ASSUME UNCHANGED pc PROVE Alive' = Alive
BY DEF Alive

(* Requests of a user and time keep the invariant,                           *)
LEMMA AloneByRequest ==
    ASSUME Tracked, TypeOK, AloneInv,
           EnqueueFails \/ Cancel \/ MarkCorrupted \/ Restart \/ UnlinkShared \/ Age
    PROVE  AloneInv'
<1> USE DEF AloneInv
<1>1. UNCHANGED <<pc, ids, rpc, rsnap, rnew>> /\ (submit' = "created" => submit = "created")
  BY DEF EnqueueFails, Cancel, CancelRead, CancelInspect, CancelNow, CancelLater,
         CancelFails, MarkCorrupted, Restart, UnlinkShared, Age, meta, recover, worker
<1>2. Alive' = Alive
  BY <1>1, AliveStays
<1>3. \/ status' = status /\ fresh' = fresh
      \/ status' \notin Busy
      \/ status' = status /\ \A t \in Tasks : pc[t] # "started"
  BY DEF EnqueueFails, Cancel, CancelRead, CancelInspect, CancelNow, CancelLater,
         CancelFails, MarkCorrupted, Restart, UnlinkShared, Age, row, SetRow, Busy
<1>4. OneAlive' /\ AliveRecorded' /\ RecoveryAlone'
  BY <1>1, <1>2 DEF OneAlive, AliveRecorded, RecoveryAlone
<1>5. NoneYet'
  BY <1>1, <1>2, <1>3 DEF NoneYet
<1>6. BusyBegun'
  BY <1>1, <1>3 DEF BusyBegun
<1>7. QED
  BY <1>4, <1>5, <1>6

(* so does the message of the creating request,                              *)
LEMMA AloneByEnqueue ==
    ASSUME TypeOK, AloneInv, NEW t \in Tasks, Enqueue(t)
    PROVE  AloneInv'
<1> USE DEF AloneInv
<1>1. /\ Alive = {} /\ status \notin Busy
      /\ rpc \in {"idle", "scanned", "finalize"} /\ (rpc = "scanned" => rsnap \notin Busy)
  BY DEF Enqueue, NoneYet
<1>2. /\ submit' = "sent" /\ UNCHANGED <<status, ids, rpc, rsnap, rnew>>
      /\ \A u \in Tasks : pc'[u] = IF u = t THEN "queued" ELSE pc[u]
  BY DEF Enqueue, row, meta, recover, TypeOK, WorkerType
<1>3. Alive' = {t}
  BY <1>1, <1>2 DEF Alive
<1>4. OneAlive' /\ NoneYet' /\ BusyBegun'
  BY <1>1, <1>2, <1>3 DEF OneAlive, NoneYet, BusyBegun
<1>5. AliveRecorded'
  BY <1>2, <1>3 DEF AliveRecorded, Unrecorded, NotBegun
<1>6. RecoveryAlone'
  BY <1>1, <1>2 DEF RecoveryAlone
<1>7. QED
  BY <1>4, <1>5, <1>6

(* Recovery goes on to send the job again only if nothing is alive: what     *)
(* executes is in the metadata, and workers answer for it.                   *)
LEMMA AloneByInspect ==
    ASSUME Tracked, TypeOK, AloneInv, Inspect
    PROVE  AloneInv'
<1> USE DEF AloneInv
<1>1. /\ UNCHANGED <<status, fresh, ids, submit, pc, rnew>> \/ rpc' = "idle"
      /\ UNCHANGED <<status, fresh, ids, submit, pc>>
      /\ rpc' \in {"idle", "finalize", "resume"}
  BY DEF Inspect, RecoveryReset, row, meta, worker
<1>2. Alive' = Alive
  BY <1>1, AliveStays
<1>3. rpc = "scanned" /\ rsnap \in Scannable
  BY DEF Inspect, RecoveryAlone
<1>4. rpc' = "resume" => rsnap \in Busy /\ ids \cap Visible = {}
  BY <1>3 DEF Inspect, Answers, Tracked, RecoveryReset, Busy
<1>5. rpc' = "resume" => Alive = {}
  <2> SUFFICES ASSUME rpc' = "resume", NEW t \in Alive PROVE FALSE
    OBVIOUS
  <2>1. t \in Tasks /\ pc[t] \notin Unrecorded
    BY <1>3, <1>4 DEF RecoveryAlone, Alive
  <2>2. t \in ids
    BY <2>1 DEF AliveRecorded
  <2>3. t \in Visible
    BY <2>1 DEF Visible, Alive, Unrecorded, NotBegun
  <2>4. QED
    BY <1>4, <2>2, <2>3
<1>6. submit' = "created" => rpc' \in {"idle", "finalize"}
  BY <1>1, <1>3, <1>4 DEF NoneYet
<1>7. OneAlive' /\ AliveRecorded'
  BY <1>1, <1>2 DEF OneAlive, AliveRecorded
<1>8. NoneYet'
  BY <1>1, <1>2, <1>6 DEF NoneYet
<1>9. BusyBegun'
  BY <1>1, <1>3 DEF BusyBegun
<1>10. RecoveryAlone'
  BY <1>1, <1>2, <1>5 DEF RecoveryAlone
<1>11. QED
  BY <1>7, <1>8, <1>9, <1>10

(* and what recovery does after it.                                          *)
LEMMA AloneByRecovery ==
    ASSUME Tracked, TypeOK, AloneInv, Recovery
    PROVE  AloneInv'
<1> USE DEF AloneInv
<1>1. CASE Scan
  <2>1. /\ UNCHANGED <<status, fresh, ids, submit, pc>>
        /\ rpc = "idle" /\ rpc' = "scanned" /\ rsnap' = status
        /\ status \in Scannable /\ ~fresh
    BY <1>1 DEF Scan, row, meta, worker
  <2>2. Alive' = Alive
    BY <2>1, AliveStays
  <2>3. OneAlive' /\ AliveRecorded'
    BY <2>1, <2>2 DEF OneAlive, AliveRecorded
  <2>4. NoneYet' /\ BusyBegun'
    BY <2>1, <2>2 DEF NoneYet, BusyBegun
  <2>5. RecoveryAlone'
    BY <2>1 DEF RecoveryAlone, BusyBegun, Unrecorded
  <2>6. QED
    BY <2>3, <2>4, <2>5
<1>2. CASE FinalizeCancel \/ CannotResume
  <2>1. /\ UNCHANGED <<ids, submit, pc>>
        /\ rpc' = "idle" /\ status' \notin Busy
    BY <1>2 DEF FinalizeCancel, CannotResume, RecoveryReset, RowFinish, SaveRow, SetRow,
                Tracked, Busy, worker, meta
  <2>2. Alive' = Alive
    BY <2>1, AliveStays
  <2>3. OneAlive' /\ AliveRecorded' /\ BusyBegun'
    BY <2>1, <2>2 DEF OneAlive, AliveRecorded, BusyBegun
  <2>4. NoneYet' /\ RecoveryAlone'
    BY <2>1, <2>2 DEF NoneYet, RecoveryAlone
  <2>5. QED
    BY <2>3, <2>4
<1>3. ASSUME NEW t \in Tasks, Redispatch(t)
      PROVE  AloneInv'
  <2>1. /\ UNCHANGED <<status, fresh, ids, submit>>
        /\ rpc = "resume" /\ rpc' = "requeue" /\ rnew' = t
        /\ \A u \in Tasks : pc'[u] = IF u = t THEN "queued" ELSE pc[u]
    BY <1>3 DEF Redispatch, Goto, row, meta, TypeOK, WorkerType
  <2>2. Alive = {} /\ submit # "created"
    BY <2>1 DEF RecoveryAlone, NoneYet
  <2>3. Alive' = {t}
    BY <2>1, <2>2 DEF Alive
  <2>4. OneAlive' /\ NoneYet' /\ RecoveryAlone'
    BY <2>1, <2>2, <2>3 DEF OneAlive, NoneYet, RecoveryAlone
  <2>5. AliveRecorded'
    BY <2>1, <2>3 DEF AliveRecorded, Unrecorded, NotBegun
  <2>6. BusyBegun'
    BY <2>1, <2>2 DEF BusyBegun, Alive
  <2>7. QED
    BY <2>4, <2>5, <2>6
<1>4. CASE Requeue
  <2>1. /\ UNCHANGED <<ids, submit, pc, rnew>>
        /\ rpc = "requeue" /\ rpc' = "record" /\ status' \notin Busy
    BY <1>4 DEF Requeue, RowRequeue, SaveRow, SetRow, Tracked, Busy, worker, meta
  <2>2. Alive' = Alive
    BY <2>1, AliveStays
  <2>3. QED
    BY <2>1, <2>2 DEF OneAlive, AliveRecorded, BusyBegun, NoneYet, RecoveryAlone
<1>5. CASE RecordRequeue
  <2>1. /\ UNCHANGED <<status, fresh, submit, pc>>
        /\ rpc = "record" /\ rpc' = "idle" /\ rnew \in ids'
    BY <1>5 DEF RecordRequeue, RecoveryReset, worker, row
  <2>2. Alive' = Alive /\ \A t \in Alive : t = rnew
    BY <2>1, AliveStays DEF RecoveryAlone
  <2>3. QED
    BY <2>1, <2>2 DEF OneAlive, AliveRecorded, BusyBegun, NoneYet, RecoveryAlone
<1>6. QED
  BY <1>1, <1>2, <1>3, <1>4, <1>5, AloneByInspect DEF Recovery

(* The invariant holds at the beginning,                                     *)
LEMMA AloneInit == ASSUME Init PROVE AloneInv
BY DEF Init, AloneInv, OneAlive, NoneYet, AliveRecorded, BusyBegun, RecoveryAlone, Alive,
       Busy, NotBegun

(* is kept by every step,                                                    *)
LEMMA AloneStep ==
    ASSUME LifecycleAssumption, Tracked, TypeOK, AloneInv, [Next]_vars
    PROVE  AloneInv'
<1>1. CASE UNCHANGED vars
  <2>1. UNCHANGED <<status, fresh, ids, submit, pc, rpc, rsnap, rnew>>
    BY <1>1 DEF vars, row, meta, worker, recover
  <2>2. Alive' = Alive
    BY <2>1, AliveStays
  <2>3. QED
    BY <2>1, <2>2 DEF AloneInv, OneAlive, AliveRecorded, BusyBegun, NoneYet, RecoveryAlone
<1>2. QED
  BY <1>1, AloneByWork, AloneByRequest, AloneByEnqueue, AloneByRecovery DEF Next

(* and so holds in every behaviour.                                          *)
LEMMA AloneCorrect == ASSUME Tracked PROVE Spec => [](TypeOK /\ AloneInv)
<1>1. Init => AloneInv
  BY AloneInit
<1>2. TypeOK /\ AloneInv /\ [Next]_vars => AloneInv'
  BY AloneStep, LifecycleAssumption
<1>3. QED
  BY <1>1, <1>2, TypeCorrect, PTL DEF Spec

(* Two workers never execute a job at once, nor is a second message waiting  *)
(* while one is executed, for any number of messages.                        *)
THEOREM ExecutionIsSingle == ASSUME Tracked PROVE Spec => []SingleExecution
<1>1. TypeOK /\ AloneInv => SingleExecution
  <2> SUFFICES ASSUME OneAlive PROVE SingleExecution
    BY DEF AloneInv
  <2>1. \A t, u \in Running : t = u
    BY DEF OneAlive, Running, Alive
  <2>2. CASE Running = {}
    BY <2>2, FS_EmptySet DEF SingleExecution
  <2>3. CASE \E t \in Running : Running = {t}
    BY <2>3, FS_Singleton DEF SingleExecution
  <2>4. QED
    BY <2>1, <2>2, <2>3
<1>2. QED
  BY <1>1, AloneCorrect, PTL

(***************************************************************************)
(* The files of a success                                                  *)
(***************************************************************************)
(* The files an execution will leave with a success are there, but for audio *)
(* that another job shares, and once it has succeeded no message of the job  *)
(* is far enough to take them away.                                          *)
Handling == {"upload", "check", "stage", "uploaded", "cleared", "agent"}

FilesInv ==
    /\ \A t \in Tasks :
         /\ kind = "batch" /\ pc[t] \in Handling => audio \/ shared
         /\ Transcription /\ pc[t] = "persist" => transcript /\ (audio \/ shared)
    /\ status = "SUCCEEDED" => \A t \in Alive : pc[t] \in NotBegun
    /\ SucceededHasFiles

(* A step of a worker keeps the files of a success,                          *)
LEMMA FilesByWork ==
    ASSUME LifecycleAssumption, Tracked, TypeOK, OneAlive, FilesInv, NEW t \in Tasks,
           Work(t) \/ Crash(t)
    PROVE  FilesInv'
<1> USE DEF FilesInv, SucceededHasFiles, Transcription, Handling, NotBegun, Alive,
            TypeOK, WorkerType
<1>0. kind' = kind
  BY DEF Work, Deliver, DropRevoked, Claim, Start, StartMeta, Normalize, BeginUpload,
         CancelCheck, StageBlock, PostUploadCheck, UploadDone, UploadCancelled,
         AgentReturns, Succeed, Fail, Abort, Crash
<1>1. CASE Deliver(t) \/ DropRevoked(t) \/ Claim(t)
  BY <1>1, <1>0 DEF Deliver, DropRevoked, Claim, Goto, row, files
<1>2. CASE Start(t)
  BY <1>2, <1>0 DEF Start, Goto, RowStart, SaveRow, SetRow, Tracked, StartStatuses, files
<1>3. CASE StartMeta(t)
  BY <1>3, <1>0 DEF StartMeta, Goto, row, files
<1>4. CASE Normalize(t) \/ BeginUpload(t)
  BY <1>4, <1>0 DEF Normalize, BeginUpload, Goto, RowTransition, SaveRow, SetRow, Tracked,
                    row, files
<1>5. CASE StageBlock(t) \/ UploadDone(t)
  BY <1>5, <1>0 DEF StageBlock, UploadDone, Goto, RowTransition, SaveRow, SetRow, Tracked,
                    row, files
<1>6. CASE CancelCheck(t) \/ PostUploadCheck(t)
  BY <1>6, <1>0 DEF CancelCheck, PostUploadCheck, Goto, row, files
<1>7. CASE UploadCancelled(t)
  BY <1>7, <1>0 DEF OneAlive, UploadCancelled, Stop, Goto, RowFinish, SaveRow, SetRow, Tracked
<1>8. CASE AgentReturns(t)
  <2>1. t \in Alive /\ pc[t] = "agent" /\ status' = status /\ (status = "SUCCEEDED" => FALSE)
    BY <1>8 DEF AgentReturns, row
  <2>2. CASE Transcription /\ status = "CANCELLED"
    <3>1. audio' = (audio /\ kind # "ondemand") /\ pc' = [pc EXCEPT ![t] = "done"]
      BY <1>8, <2>2 DEF AgentReturns, Stop, Goto
    <3>2. \A u \in Tasks : pc'[u] \notin Handling \cup {"persist"}
      BY <2>1, <3>1 DEF OneAlive
    <3>3. QED
      BY <1>0, <2>1, <3>1, <3>2
  <2>3. CASE ~(Transcription /\ status = "CANCELLED")
    <3>1. /\ pc' = [pc EXCEPT ![t] = "persist"] /\ audio' = audio
          /\ transcript' = (transcript \/ Transcription)
          /\ kind = "ondemand" => audio \/ shared
          /\ shared' = shared
      BY <1>8, <2>3 DEF AgentReturns, Goto
    <3>2. \A u \in Tasks : u # t => pc'[u] = pc[u]
      BY <3>1
    <3>3. Transcription => (audio \/ shared) /\ transcript'
      BY <2>1, <3>1
    <3>4. QED
      BY <1>0, <2>1, <3>1, <3>2, <3>3
  <2>4. QED
    BY <2>2, <2>3
<1>9. CASE Succeed(t)
  BY <1>9, <1>0 DEF OneAlive, Succeed, Stop, Goto, RowFinish, SaveRow, SetRow, Tracked, files
<1>10. CASE Fail(t)
  BY <1>10, <1>0 DEF Fail, Stop, Goto, RowFinish, SaveRow, SetRow, Tracked, files
<1>11. CASE Abort(t) \/ Crash(t)
  BY <1>11, <1>0 DEF Abort, Crash, Stop, Goto, row, files
<1>12. QED
  BY <1>1, <1>2, <1>3, <1>4, <1>5, <1>6, <1>7, <1>8, <1>9, <1>10, <1>11 DEF Work

(* and so does every other step.                                             *)
LEMMA FilesByOthers ==
    ASSUME Tracked, TypeOK, FilesInv,
           \/ EnqueueFails \/ Cancel \/ MarkCorrupted \/ Restart \/ UnlinkShared
           \/ Recovery \/ Age
           \/ \E t \in Tasks : Enqueue(t)
           \/ UNCHANGED vars
    PROVE  FilesInv'
<1> USE DEF FilesInv, SucceededHasFiles, Transcription, Handling, NotBegun, Alive,
            TypeOK, WorkerType, files
<1>1. CASE EnqueueFails \/ Cancel \/ MarkCorrupted \/ Restart \/ UnlinkShared \/ Age \/ UNCHANGED vars
  BY <1>1 DEF EnqueueFails, Cancel, CancelRead, CancelInspect, CancelNow, CancelLater,
              CancelFails, MarkCorrupted, Restart, UnlinkShared, Age, SetRow, vars, row, worker
<1>2. CASE Scan \/ Inspect \/ RecordRequeue
  BY <1>2 DEF Scan, Inspect, RecordRequeue, row, worker
<1>3. CASE FinalizeCancel \/ Requeue \/ CannotResume
  BY <1>3 DEF FinalizeCancel, Requeue, CannotResume, RowFinish, RowRequeue, SaveRow, SetRow,
              Tracked, worker
<1>4. ASSUME NEW t \in Tasks, Enqueue(t) \/ Redispatch(t)
      PROVE  FilesInv'
  BY <1>4 DEF Enqueue, Redispatch, Goto, row
<1>5. QED
  BY <1>1, <1>2, <1>3, <1>4 DEF Recovery

(* A transcription that says SUCCEEDED has its transcript, and its audio     *)
(* unless restart() has given that to another job.                           *)
THEOREM FilesStay == ASSUME Tracked PROVE Spec => []SucceededHasFiles
<1>1. Init => FilesInv
  BY DEF Init, FilesInv, SucceededHasFiles, Alive, Handling
<1>2. TypeOK /\ AloneInv /\ FilesInv /\ [Next]_vars => FilesInv'
  BY FilesByWork, FilesByOthers, LifecycleAssumption DEF AloneInv, Next
<1>3. FilesInv => SucceededHasFiles
  BY DEF FilesInv
<1>4. QED
  BY <1>1, <1>2, <1>3, AloneCorrect, PTL DEF Spec

(***************************************************************************)
(* The executions implement the lease                                      *)
(***************************************************************************)
HolderOf(S) == IF S = {} THEN NoTask ELSE CHOOSE t \in S : TRUE
Holder      == HolderOf(Running)
Spent       == {t \in Tasks : pc[t] \notin Waiting \cup {"unused"}}

(* The holder among one executing message is that message.                   *)
LEMMA HolderOfOne == ASSUME NEW t PROVE HolderOf({t}) = t
BY DEF HolderOf

(* What a step may do to the place of a message.                             *)
PlaceStep(t, x) ==
    /\ pc' = [pc EXCEPT ![t] = x]
    /\ \/ pc[t] = "unused" /\ x \in Waiting
       \/ pc[t] \in Waiting /\ x \in Waiting \cup {"claimed", "done"}
       \/ pc[t] \in Executing /\ x \in Executing \cup Ended

(* A worker moves one message, forward only.                                 *)
LEMMA WorkPlaces ==
    ASSUME TypeOK, NEW t \in Tasks, Work(t) \/ Crash(t)
    PROVE  \E x \in Places : PlaceStep(t, x)
<1> USE DEF PlaceStep, Ended, Goto, Stop
<1>1. CASE Deliver(t) \/ DropRevoked(t) \/ Claim(t)
  BY <1>1 DEF Deliver, DropRevoked, Claim
<1>2. CASE Start(t) \/ StartMeta(t)
  BY <1>2 DEF Start, StartMeta
<1>3. CASE Normalize(t) \/ BeginUpload(t) \/ StageBlock(t)
  BY <1>3 DEF Normalize, BeginUpload, StageBlock
<1>4. CASE CancelCheck(t)
  BY <1>4 DEF CancelCheck
<1>5. CASE PostUploadCheck(t) \/ UploadDone(t)
  BY <1>5 DEF PostUploadCheck, UploadDone
<1>6. CASE UploadCancelled(t) \/ Succeed(t) \/ Fail(t) \/ Abort(t) \/ Crash(t)
  BY <1>6 DEF UploadCancelled, Succeed, Fail, Abort, Crash
<1>7. CASE AgentReturns(t)
  BY <1>7 DEF AgentReturns
<1>8. QED
  BY <1>1, <1>2, <1>3, <1>4, <1>5, <1>6, <1>7 DEF Work

(* Taking the message on is Acquire, dropping it Discard, ending Release.    *)
LEMMA LeaseStep ==
    ASSUME LifecycleAssumption, WorkerType, OneAlive, OneAlive',
           NEW t \in Tasks, NEW x \in Places, PlaceStep(t, x)
    PROVE  \/ Holder' = Holder /\ Spent' = Spent
           \/ Holder # NoTask /\ Holder' = NoTask /\ Spent' = Spent
           \/ /\ t \notin Spent /\ Spent' = Spent \cup {t}
              /\ Holder' = Holder \/ (Holder = NoTask /\ Holder' = t)
<1> USE DEF PlaceStep, WorkerType
<1>1. \A u \in Tasks : u # t => pc'[u] = pc[u]
  OBVIOUS
<1>2. pc'[t] = x
  OBVIOUS
<1>3. CASE pc[t] \in Executing
  <2>1. Running = {t} /\ Spent' = Spent
    BY <1>1, <1>2, <1>3 DEF OneAlive, Alive, Running, Spent, Ended
  <2>2. Holder = t /\ t # NoTask
    BY <2>1, HolderOfOne DEF Holder, LifecycleAssumption
  <2>3. CASE x \in Executing
    <3>1. Running' = {t}
      BY <1>1, <1>2, <2>1, <2>3 DEF Running
    <3>2. QED
      BY <2>1, <3>1 DEF Holder
  <2>4. CASE x \in Ended
    <3>1. Running' = {}
      BY <1>1, <1>2, <2>1, <2>4 DEF Running, Ended
    <3>2. Holder' = NoTask
      BY <3>1 DEF Holder, HolderOf
    <3>3. QED
      BY <2>1, <2>2, <3>2
  <2>5. QED
    BY <1>3, <2>3, <2>4
<1>4. CASE pc[t] \in Waiting /\ x = "claimed"
  <2>1. Running = {}
    BY <1>4 DEF OneAlive, Alive, Running
  <2>2. Running' = {t}
    BY <1>1, <1>2, <1>4, <2>1 DEF Running
  <2>3. Holder = NoTask /\ Holder' = t
    BY <2>1, <2>2, HolderOfOne DEF Holder, HolderOf
  <2>4. t \notin Spent /\ Spent' = Spent \cup {t}
    BY <1>1, <1>2, <1>4 DEF Spent
  <2>5. QED
    BY <2>3, <2>4
<1>5. CASE pc[t] \in Waiting /\ x = "done"
  <2>1. Running' = Running
    BY <1>1, <1>2, <1>5 DEF Running
  <2>2. t \notin Spent /\ Spent' = Spent \cup {t}
    BY <1>1, <1>2, <1>5 DEF Spent
  <2>3. QED
    BY <2>1, <2>2 DEF Holder
<1>6. CASE pc[t] \notin Executing /\ x \in Waiting
  <2>1. Running' = Running /\ Spent' = Spent
    BY <1>1, <1>2, <1>6 DEF Running, Spent
  <2>2. QED
    BY <2>1 DEF Holder
<1>7. QED
  BY <1>3, <1>4, <1>5, <1>6

(* Each message is executed at most once and one at a time, for any number   *)
(* of messages.                                                              *)
THEOREM LeaseImplemented == ASSUME Tracked PROVE Spec => LeaseHeld
<1>1. Init => Lease!Init
  BY DEF Init, Lease!Init, Running
<1>2. /\ LifecycleAssumption /\ TypeOK /\ AloneInv /\ AloneInv' /\ [Next]_vars
      => [Lease!Next]_(Lease!vars)
  <2> SUFFICES ASSUME LifecycleAssumption, WorkerType, OneAlive, OneAlive', TypeOK, [Next]_vars
               PROVE  [Lease!Next]_(Lease!vars)
    BY DEF AloneInv, TypeOK
  <2>1. ASSUME NEW t \in Tasks, NEW x \in Places, PlaceStep(t, x)
        PROVE  [Lease!Next]_(Lease!vars)
    BY <2>1, LeaseStep
       DEF Holder, HolderOf, Spent, Lease!Next, Lease!vars, Lease!Acquire, Lease!Release,
           Lease!Discard
  <2>2. ASSUME NEW t \in Tasks, Enqueue(t) \/ Redispatch(t)
        PROVE  PlaceStep(t, "queued")
    BY <2>2 DEF Enqueue, Redispatch, IsNew, Unused, Goto, PlaceStep
  <2>3. CASE UNCHANGED pc
    BY <2>3 DEF Running, Lease!vars
  <2>4. CASE EnqueueFails \/ Cancel \/ MarkCorrupted \/ Restart \/ UnlinkShared \/ Age \/ UNCHANGED vars
    BY <2>3, <2>4 DEF EnqueueFails, Cancel, CancelRead, CancelInspect, CancelNow, CancelLater,
              CancelFails, MarkCorrupted, Restart, UnlinkShared, Age, vars, worker
  <2>5. CASE Scan \/ Inspect \/ RecordRequeue \/ FinalizeCancel \/ Requeue \/ CannotResume
    BY <2>3, <2>5 DEF Scan, Inspect, RecordRequeue, FinalizeCancel, Requeue, CannotResume, worker
  <2>6. ASSUME NEW t \in Tasks, Work(t) \/ Crash(t) PROVE [Lease!Next]_(Lease!vars)
    BY <2>1, <2>6, WorkPlaces
  <2>7. ASSUME NEW t \in Tasks, Enqueue(t) \/ Redispatch(t) PROVE [Lease!Next]_(Lease!vars)
    BY <2>1, <2>2, <2>7
  <2>8. QED
    BY <2>4, <2>5, <2>6, <2>7 DEF Next, Recovery
<1>3. QED
  BY <1>1, <1>2, AloneCorrect, LifecycleAssumption, PTL DEF Spec, LeaseHeld, Lease!Spec
=============================================================================
