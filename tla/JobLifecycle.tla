---------------------------- MODULE JobLifecycle ----------------------------
(* The life of one job row of the udocket platform, from the request that    *)
(* creates it to its final status, as four kinds of process interleave:      *)
(* Celery workers that execute messages for the job, the "cancel" request,   *)
(* the "mark-corrupted" request, and the periodic recovery pass.             *)
(* Every step below is one database save, one read, or one call to the       *)
(* broker: no process holds a lock, so any step of another may come between. *)
EXTENDS Naturals, FiniteSets

CONSTANTS
    Tasks,          \* Celery messages
    Sendable,       \* those that may be sent for a job of each kind (bound)
    NoTask,
    Kinds,          \* job kinds to consider, a subset of JobKinds
    Chunks,         \* 8 MiB blocks of a batch upload (bound)
    InspectReplies, \* TRUE if every worker answers control.inspect()
    SavesFail       \* TRUE if the database may refuse a save

JobKinds == {"batch", "ondemand", "analyze", "compose"}

ASSUME LifecycleAssumption ==
    /\ NoTask \notin Tasks
    /\ Kinds \subseteq JobKinds
    /\ Sendable \in [Kinds -> SUBSET Tasks]
    /\ Chunks \in Nat \ {0}
    /\ InspectReplies \in BOOLEAN
    /\ SavesFail \in BOOLEAN

VARIABLES
    kind,        \* the kind of the job; never changes
    status,      \* Job.status
    finished,    \* Job.finished_at is set
    fresh,       \* Job.started_at is younger than JOB_RECOVERY_STALE_MINUTES
    ids,         \* task ids in the metadata file (celery_task_id and history)
    queued,      \* celery_task_status in the metadata file is "queued"
    recent,      \* recovered_at is younger than JOB_RECOVERY_STALE_MINUTES
    transcript,  \* the transcript file of the job is on disk
    audio,       \* the source audio file of the job is on disk
    shared,      \* restart() has given it to another job as well
    submit,      \* the creating request: "created", "sent" or "failed"
    pc,          \* where each task is
    seen,        \* the task ids each task read when it was claimed
    staged,      \* blocks each task has uploaded
    revoked,     \* prefetched messages whose revocation reached their worker
    vpc, vids, vactive,        \* the cancel request: place, ids read, ids active
    rpc, rsnap, rids, rnew     \* recovery: place, status read, ids read, task sent

row     == <<status, finished, fresh>>
meta    == <<ids, queued, recent>>
files   == <<transcript, audio, shared>>
worker  == <<pc, seen, staged>>
view    == <<vpc, vids, vactive>>
recover == <<rpc, rsnap, rids, rnew>>
vars    == <<kind, row, meta, files, submit, worker, revoked, view, recover>>

(***************************************************************************)
(* Statuses and places                                                     *)
(***************************************************************************)
Terminal    == {"SUCCEEDED", "FAILED", "CANCELLED", "CORRUPTED"}
Statuses    == Terminal \cup
               {"PENDING", "RUNNING", "CONVERTING", "UPLOADING", "CANCELLING"}
Scannable   == {"RUNNING", "UPLOADING", "CONVERTING", "CANCELLING"}
Cancellable == {"PENDING", "RUNNING", "CANCELLING", "UPLOADING"}
Stopping    == {"CANCELLING", "CANCELLED"}

Executing == {"claimed", "started", "normalize", "upload", "check", "stage",
              "uploaded", "cleared", "agent", "persist", "cancelled", "withdrawn"}
Waiting   == {"queued", "reserved"}
Places    == Executing \cup Waiting \cup {"unused", "done", "dead"}

Transcription == kind \in {"batch", "ondemand"}
Unused        == {t \in Sendable[kind] : pc[t] = "unused"}
Running       == {t \in Tasks : pc[t] \in Executing}
Alive         == {t \in Tasks : pc[t] \in Executing \cup Waiting}

(* A message gets an id no other has; which one makes no difference. *)
IsNew(t) == t \in Unused /\ t = CHOOSE u \in Unused : TRUE

(* inspect() lists executing and prefetched messages; AsyncResult adds none, *)
(* because workers do not record a STARTED state.                            *)
Visible == {t \in Tasks : pc[t] \in Executing \cup {"reserved"}}

(* AsyncResult reports PENDING for a task that has stored no result; for one *)
(* that was killed, its worker may or may not have stored a failure.         *)
Pending(S, stored) == {t \in S : pc[t] # "done"} \ stored

Killed == {t \in Tasks : pc[t] = "dead"}

(* Variant for mutation runs: executing messages are not asked for. *)
AnswersReserved(S) == {{t \in S : pc[t] = "reserved"}}

(* What a caller of inspect() learns about S: the truth, or nothing. *)
Answers(S) == IF InspectReplies THEN {S \cap Visible} ELSE {S \cap Visible, {}}

Init ==
    /\ kind \in Kinds
    /\ status = "PENDING" /\ finished = FALSE /\ fresh = TRUE
    /\ ids = {} /\ queued = FALSE /\ recent = FALSE
    /\ transcript = FALSE /\ audio = TRUE /\ shared = FALSE
    /\ submit = "created"
    /\ pc = [t \in Tasks |-> "unused"]
    /\ seen = [t \in Tasks |-> {}]
    /\ staged = [t \in Tasks |-> 0]
    /\ revoked = {}
    /\ vpc = "idle" /\ vids = {} /\ vactive = {}
    /\ rpc = "idle" /\ rsnap = "PENDING" /\ rids = {} /\ rnew = NoTask

(***************************************************************************)
(* The creating request: the row is committed, then the message is sent    *)
(***************************************************************************)
Enqueue(t) ==
    /\ submit = "created"
    /\ IsNew(t)
    /\ submit' = "sent"
    /\ pc' = [pc EXCEPT ![t] = "queued"]
    /\ UNCHANGED <<kind, row, meta, files, seen, staged, revoked, view, recover>>

(* delay() raises: the request answers 500 and the row stays PENDING. *)
EnqueueFails ==
    /\ submit = "created"
    /\ submit' = "failed"
    /\ UNCHANGED <<kind, row, meta, files, worker, revoked, view, recover>>

(***************************************************************************)
(* JobRuntimeContext: each hook saves the fields it names and reads none;  *)
(* a save the database refuses is swallowed and the caller goes on.        *)
(***************************************************************************)
SetRow(s, f, y) == status' = s /\ finished' = f /\ fresh' = y

SaveRow(s, f, y) == SetRow(s, f, y) \/ (SavesFail /\ UNCHANGED row)

(* Variant for mutation runs: finished_at is forgotten. *)
RowFinishUndated(s) == SaveRow(s, finished, fresh)

RowStart(s)      == SaveRow(s, FALSE, TRUE)
RowFinish(s)     == SaveRow(s, TRUE, fresh)
RowTransition(s) == SaveRow(s, finished, fresh)
RowRequeue       == SaveRow("PENDING", FALSE, FALSE)

(***************************************************************************)
(* A worker and one message                                                *)
(***************************************************************************)
Goto(t, place) == pc' = [pc EXCEPT ![t] = place]

(* An execution ends and its local variables are gone. *)
Stop(t, place) ==
    /\ Goto(t, place)
    /\ seen' = [seen EXCEPT ![t] = {}]
    /\ staged' = [staged EXCEPT ![t] = 0]

(* The worker prefetches the message. *)
Deliver(t) ==
    /\ pc[t] = "queued"
    /\ Goto(t, "reserved")
    /\ UNCHANGED <<kind, row, meta, files, submit, seen, staged, revoked, view, recover>>

(* A revoked message is dropped when its turn comes. *)
DropRevoked(t) ==
    /\ pc[t] = "reserved"
    /\ t \in revoked
    /\ Goto(t, "done")
    /\ UNCHANGED <<kind, row, meta, files, submit, seen, staged, revoked, view, recover>>

(* Execution begins: the task reads the row and the metadata.  Only a        *)
(* transcription looks at the status it read, and only for CANCELLED.        *)
Claim(t) ==
    /\ pc[t] = "reserved"
    /\ t \notin revoked
    /\ IF Transcription /\ status = "CANCELLED"
       THEN Goto(t, "done") /\ UNCHANGED seen
       ELSE Goto(t, "claimed") /\ seen' = [seen EXCEPT ![t] = ids]
    /\ UNCHANGED <<kind, row, meta, files, submit, staged, revoked, view, recover>>

StartStatuses == IF kind = "batch" THEN {"UPLOADING", "CONVERTING"} ELSE {"RUNNING"}

(* runtime.start(): the row is saved ... *)
Start(t) ==
    /\ pc[t] = "claimed"
    /\ \E s \in StartStatuses : RowStart(s)
    /\ Goto(t, "started")
    /\ UNCHANGED <<kind, meta, files, submit, seen, staged, revoked, view, recover>>

(* Variant for mutation runs: no kind records its task id. *)
RecordedNever(known, t) == known

(* The metadata with the id of the task; a compose never records it. *)
Recorded(known, t) == IF kind = "compose" THEN known ELSE known \cup {t}

(* ... and then the metadata. *)
StartMeta(t) ==
    /\ pc[t] = "started"
    /\ ids' = IF kind = "compose" THEN ids ELSE Recorded(seen[t], t)
    /\ queued' = (queued /\ kind # "analyze")
    /\ seen' = [seen EXCEPT ![t] = {}]
    /\ Goto(t, IF kind = "batch" THEN "normalize" ELSE "agent")
    /\ UNCHANGED <<kind, row, recent, files, submit, staged, revoked, view, recover>>

(* normalize_audio(): CONVERTING is saved when the audio was converted. *)
Normalize(t) ==
    /\ pc[t] = "normalize"
    /\ audio
    /\ RowTransition("CONVERTING") \/ UNCHANGED row
    /\ Goto(t, "upload")
    /\ UNCHANGED <<kind, meta, files, submit, seen, staged, revoked, view, recover>>

(* The progress callback saves UPLOADING whatever the row says by now. *)
BeginUpload(t) ==
    /\ pc[t] = "upload"
    /\ RowTransition("UPLOADING")
    /\ Goto(t, "check")
    /\ UNCHANGED <<kind, meta, files, submit, seen, staged, revoked, view, recover>>

(* Before each block, and once more at the end of the file, the row is read. *)
CancelCheck(t) ==
    /\ pc[t] = "check"
    /\ Goto(t, CASE status \in Stopping                         -> "cancelled"
                 [] status \notin Stopping /\ staged[t] < Chunks -> "stage"
                 [] OTHER                                         -> "uploaded")
    /\ UNCHANGED <<kind, row, meta, files, submit, seen, staged, revoked, view, recover>>

(* The callback saves nothing when the rounded percentage is unchanged. *)
StageBlock(t) ==
    /\ pc[t] = "stage"
    /\ staged' = [staged EXCEPT ![t] = @ + 1]
    /\ RowTransition("UPLOADING") \/ UNCHANGED row
    /\ Goto(t, "check")
    /\ UNCHANGED <<kind, meta, files, submit, seen, revoked, view, recover>>

(* After the commit of the blob the status is read again ... *)
PostUploadCheck(t) ==
    /\ pc[t] = "uploaded"
    /\ Goto(t, IF status \in Stopping THEN "withdrawn" ELSE "cleared")
    /\ UNCHANGED <<kind, row, meta, files, submit, seen, staged, revoked, view, recover>>

(* ... and RUNNING is saved in a later step. *)
UploadDone(t) ==
    /\ pc[t] = "cleared"
    /\ RowTransition("RUNNING")
    /\ Goto(t, "agent")
    /\ UNCHANGED <<kind, meta, files, submit, seen, staged, revoked, view, recover>>

(* except UploadCancelled: CANCELLED is saved, and the source audio unlinked *)
(* unless its upload had returned (its local path is forgotten by then).     *)
UploadCancelled(t) ==
    /\ pc[t] \in {"cancelled", "withdrawn"}
    /\ RowFinish("CANCELLED")
    /\ ids' = Recorded(ids, t)
    /\ queued' = FALSE
    /\ audio' = (audio /\ pc[t] = "withdrawn")
    /\ Stop(t, "done")
    /\ UNCHANGED <<kind, recent, transcript, shared, submit, revoked, view, recover>>

(* Variant for mutation runs: the transcript is discarded, the task goes on. *)
AgentReturnsGoesOn(t) ==
    /\ pc[t] = "agent"
    /\ kind = "ondemand" => audio \/ shared
    /\ Goto(t, "persist")
    /\ transcript' = IF status = "CANCELLED" THEN FALSE ELSE transcript \/ Transcription
    /\ UNCHANGED <<kind, row, meta, audio, shared, submit, seen, staged, revoked, view,
                   recover>>

(* The agent returns.  A transcription reads the row again: if it finds      *)
(* CANCELLED (CANCELLING is not looked for) it discards the transcript, and  *)
(* the audio it was given by path, and leaves the row alone.  A recognizer   *)
(* goes on with a file it has opened before another job unlinked it.         *)
AgentReturns(t) ==
    /\ pc[t] = "agent"
    /\ kind = "ondemand" => audio \/ shared
    /\ IF Transcription /\ status = "CANCELLED"
       THEN /\ Stop(t, "done")
            /\ transcript' = FALSE
            /\ audio' = (audio /\ kind # "ondemand")
       ELSE /\ Goto(t, "persist")
            /\ transcript' = (transcript \/ Transcription)
            /\ UNCHANGED <<audio, seen, staged>>
    /\ UNCHANGED <<kind, row, meta, shared, submit, revoked, view, recover>>

Succeed(t) ==
    /\ pc[t] = "persist"
    /\ RowFinish("SUCCEEDED")
    /\ ids' = Recorded(ids, t)
    /\ queued' = FALSE
    /\ Stop(t, "done")
    /\ UNCHANGED <<kind, recent, files, submit, revoked, view, recover>>

(* Any step of the guarded block may raise; the handler saves FAILED. *)
Fail(t) ==
    /\ pc[t] \in {"normalize", "upload", "check", "stage", "uploaded", "agent"}
    /\ RowFinish("FAILED")
    /\ ids' = Recorded(ids, t)
    /\ queued' = (queued /\ kind = "compose")
    /\ Stop(t, "done")
    /\ UNCHANGED <<kind, recent, files, submit, revoked, view, recover>>

(* An exception no handler turns into FAILED: before the start of any kind,  *)
(* after the agent returned, and in the configuration of a compose.          *)
Abort(t) ==
    /\ \/ pc[t] \in {"claimed", "persist"}
       \/ kind = "compose" /\ pc[t] = "agent"
    /\ Stop(t, "done")
    /\ UNCHANGED <<kind, row, meta, files, submit, revoked, view, recover>>

(* The worker process dies.  Messages are acknowledged before execution, so  *)
(* the message of the dead execution is not delivered again.                 *)
Crash(t) ==
    /\ pc[t] \in Executing
    /\ Stop(t, "dead")
    /\ UNCHANGED <<kind, row, meta, files, submit, revoked, view, recover>>

(***************************************************************************)
(* The requests of a user                                                  *)
(***************************************************************************)
(* POST cancel: the row and the metadata are read ... *)
CancelRead ==
    /\ vpc = "idle"
    /\ status \in Cancellable
    /\ vpc' = "read"
    /\ vids' = ids
    /\ UNCHANGED <<kind, row, meta, files, submit, worker, revoked, vactive, recover>>

(* ... the workers are asked which of those tasks they hold ... *)
CancelInspect ==
    /\ vpc = "read"
    /\ vactive' \in Answers(vids)
    /\ vids' = {}
    /\ vpc' = "decided"
    /\ UNCHANGED <<kind, row, meta, files, submit, worker, revoked, recover>>

(* What a revocation leaves behind: a message that is executed by then is    *)
(* killed by it (Crash), or not; one that waits will be dropped.             *)
Revocable == {t \in vactive : pc[t] = "reserved"}

CancelReset == vpc' = "idle" /\ vactive' = {} /\ UNCHANGED vids

(* ... and with none of them active the job is closed at once; *)
CancelNow ==
    /\ vpc = "decided"
    /\ vactive = {}
    /\ SetRow("CANCELLED", TRUE, fresh)
    /\ queued' = FALSE
    /\ CancelReset
    /\ UNCHANGED <<kind, ids, recent, files, submit, worker, revoked, recover>>

(* otherwise they are revoked (best effort) and the row says CANCELLING. *)
CancelLater ==
    /\ vpc = "decided"
    /\ vactive # {}
    /\ SetRow("CANCELLING", finished, fresh)
    /\ queued' = FALSE
    /\ revoked' \in {revoked, revoked \cup Revocable}
    /\ CancelReset
    /\ UNCHANGED <<kind, ids, recent, files, submit, worker, recover>>

(* In a request an exception of the save is not swallowed: it answers 500.   *)
CancelFails ==
    /\ SavesFail
    /\ vpc = "decided"
    /\ revoked' \in {revoked, revoked \cup Revocable}
    /\ CancelReset
    /\ UNCHANGED <<kind, row, meta, files, submit, worker, recover>>

(* POST mark-corrupted: accepted in every status but CORRUPTED. *)
MarkCorrupted ==
    /\ status # "CORRUPTED"
    /\ SetRow("CORRUPTED", TRUE, fresh)
    /\ UNCHANGED <<kind, meta, files, submit, worker, revoked, view, recover>>

(* POST restart, in every status but RUNNING: another job gets audio_input,  *)
(* or this one got it so from an older job. *)
Restart ==
    /\ Transcription
    /\ ~shared
    /\ status # "RUNNING"
    /\ shared' = TRUE
    /\ UNCHANGED <<kind, row, meta, transcript, audio, submit, worker, revoked, view, recover>>

(* A step of the other job: its execution is cancelled and unlinks the file. *)
UnlinkShared ==
    /\ shared
    /\ audio
    /\ audio' = FALSE
    /\ UNCHANGED <<kind, row, meta, transcript, shared, submit, worker, revoked, view, recover>>

(***************************************************************************)
(* recover_stale_jobs: one pass over the job                               *)
(***************************************************************************)
RecoveryReset == rpc' = "idle" /\ rsnap' = "PENDING" /\ rids' = {} /\ rnew' = NoTask

(* Variant for mutation runs: UPLOADING is not looked for. *)
ScanNoUploads ==
    /\ rpc = "idle"
    /\ status \in Scannable \ {"UPLOADING"}
    /\ ~finished
    /\ ~fresh
    /\ rpc' = "scanned"
    /\ rsnap' = status
    /\ UNCHANGED <<kind, row, meta, files, submit, worker, revoked, view, rids, rnew>>

(* The row is read into the list of candidates. *)
Scan ==
    /\ rpc = "idle"
    /\ status \in Scannable
    /\ ~finished
    /\ ~fresh
    /\ rpc' = "scanned"
    /\ rsnap' = status
    /\ UNCHANGED <<kind, row, meta, files, submit, worker, revoked, view, rids, rnew>>

(* A message the previous pass sent may still be waiting: leave it some time. *)
WaitsForRequeued(stored) == recent /\ queued /\ Pending(ids, stored) # {}

(* The metadata is read and the workers are asked; with a task active the    *)
(* candidate is skipped, and with none the status read by Scan decides.      *)
Inspect ==
    /\ rpc = "scanned"
    /\ \E active \in Answers(ids), stored \in SUBSET Killed :
         IF active # {} \/ WaitsForRequeued(stored)
         THEN RecoveryReset
         ELSE /\ rpc' = IF rsnap = "CANCELLING" THEN "finalize" ELSE "resume"
              /\ rsnap' = "PENDING"
              /\ rids' = ids
              /\ UNCHANGED rnew
    /\ UNCHANGED <<kind, row, meta, files, submit, worker, revoked, view>>

FinalizeCancel ==
    /\ rpc = "finalize"
    /\ RowFinish("CANCELLED")
    /\ queued' = FALSE /\ recent' = TRUE
    /\ RecoveryReset
    /\ UNCHANGED <<kind, ids, files, submit, worker, revoked, view>>

(* Variant for mutation runs: the id of the new task is not kept. *)
RedispatchForgets(t) ==
    /\ rpc = "resume"
    /\ IsNew(t)
    /\ Goto(t, "queued")
    /\ rpc' = "requeue"
    /\ UNCHANGED <<kind, row, meta, files, submit, seen, staged, revoked, view, rsnap, rids, rnew>>

(* The job is sent again first ... *)
Redispatch(t) ==
    /\ rpc = "resume"
    /\ IsNew(t)
    /\ Goto(t, "queued")
    /\ rpc' = "requeue" /\ rnew' = t
    /\ UNCHANGED <<kind, row, meta, files, submit, seen, staged, revoked, view, rsnap, rids>>

(* ... PENDING is saved next ... *)
Requeue ==
    /\ rpc = "requeue"
    /\ RowRequeue
    /\ rpc' = "record"
    /\ UNCHANGED <<kind, meta, files, submit, worker, revoked, view, rsnap, rids, rnew>>

(* ... and the metadata last, over the ids read before. *)
RecordRequeue ==
    /\ rpc = "record"
    /\ ids' = rids \cup {rnew}
    /\ queued' = TRUE /\ recent' = TRUE
    /\ RecoveryReset
    /\ UNCHANGED <<kind, row, files, submit, worker, revoked, view>>

(* An input is missing or the broker refuses the message: FAILED. *)
CannotResume ==
    /\ rpc = "resume"
    /\ RowFinish("FAILED")
    /\ recent' = TRUE
    /\ RecoveryReset
    /\ UNCHANGED <<kind, ids, queued, files, submit, worker, revoked, view>>

(* JOB_RECOVERY_STALE_MINUTES pass.  A task that has saved its start records *)
(* itself in the metadata in less time than that.                            *)
Age ==
    /\ fresh \/ recent
    /\ \A t \in Tasks : pc[t] # "started"
    /\ fresh' = FALSE /\ recent' = FALSE
    /\ UNCHANGED <<kind, status, finished, ids, queued, files, submit, worker,
                   revoked, view, recover>>

(***************************************************************************)
(* Specification                                                           *)
(***************************************************************************)
Work(t) ==
    \/ Deliver(t) \/ DropRevoked(t) \/ Claim(t) \/ Start(t) \/ StartMeta(t)
    \/ Normalize(t) \/ BeginUpload(t) \/ CancelCheck(t) \/ StageBlock(t)
    \/ PostUploadCheck(t) \/ UploadDone(t) \/ UploadCancelled(t)
    \/ AgentReturns(t) \/ Succeed(t) \/ Fail(t) \/ Abort(t)

Cancel == CancelRead \/ CancelInspect \/ CancelNow \/ CancelLater \/ CancelFails

Recovery ==
    \/ Scan \/ Inspect \/ FinalizeCancel \/ Requeue \/ RecordRequeue \/ CannotResume
    \/ \E t \in Tasks : Redispatch(t)

Next ==
    \/ EnqueueFails \/ Cancel \/ MarkCorrupted \/ Restart \/ UnlinkShared \/ Recovery \/ Age
    \/ \E t \in Tasks : Enqueue(t) \/ Work(t) \/ Crash(t)

Spec == Init /\ [][Next]_vars

(* Requests that have begun, recovery and time go on; workers work.  Nothing *)
(* obliges a user to act or a worker to crash.                               *)
Fairness ==
    /\ WF_vars(CancelInspect \/ CancelNow \/ CancelLater \/ CancelFails)
    /\ WF_vars(Recovery)
    /\ WF_vars(Age)
    /\ \A t \in Tasks : WF_vars(Work(t))

FairSpec == Spec /\ Fairness

(***************************************************************************)
(* Properties                                                              *)
(***************************************************************************)
RowType == status \in Statuses /\ finished \in BOOLEAN /\ fresh \in BOOLEAN

MetaType == ids \subseteq Tasks /\ queued \in BOOLEAN /\ recent \in BOOLEAN

FilesType == transcript \in BOOLEAN /\ audio \in BOOLEAN /\ shared \in BOOLEAN

WorkerType ==
    /\ pc \in [Tasks -> Places]
    /\ seen \in [Tasks -> SUBSET Tasks]
    /\ staged \in [Tasks -> 0..Chunks]

RequestType ==
    /\ submit \in {"created", "sent", "failed"}
    /\ revoked \subseteq Tasks
    /\ vpc \in {"idle", "read", "decided"}
    /\ vids \subseteq Tasks
    /\ vactive \subseteq Tasks

RecoveryType ==
    /\ rpc \in {"idle", "scanned", "resume", "finalize", "requeue", "record"}
    /\ rsnap \in Scannable \cup {"PENDING"}
    /\ rids \subseteq Tasks
    /\ rnew \in Tasks \cup {NoTask}
    /\ rpc \in {"requeue", "record"} => rnew \in Tasks

(* Every variable has its type. *)
TypeOK ==
    /\ kind \in Kinds
    /\ RowType
    /\ MetaType
    /\ FilesType
    /\ WorkerType
    /\ RequestType
    /\ RecoveryType

(* A block is staged only while blocks are left. *)
BlocksLeft == \A t \in Tasks : pc[t] = "stage" => staged[t] < Chunks

(* finished_at and status are saved together by every writer, and the saves  *)
(* of status alone never reach a closed status or PENDING: a closed job      *)
(* always has its end time, a PENDING one never has one, whatever the order  *)
(* in which workers, requests and recovery overwrite each other.             *)
DatedExactly ==
    /\ status \in Terminal => finished
    /\ status = "PENDING" => ~finished

(* For the kinds that record their task id, and with workers that answer     *)
(* inspect(), a job is never executed by two workers at once: recovery sends *)
(* it again only after the last execution is over.                           *)
SingleExecution == Cardinality(Running) <= 1

(* A transcription that says SUCCEEDED has its transcript, and the source    *)
(* audio it can be verified and restarted from: a cancellation that loses    *)
(* the race against the worker deletes neither.  Only where restart() has    *)
(* made another job on the audio file may a cancellation, of that job, have  *)
(* taken the audio; the transcript is there even then.                       *)
SucceededHasFiles ==
    status = "SUCCEEDED" /\ Transcription => transcript /\ (audio \/ shared)

(* A job in a status recovery looks for, without an end time, of which no    *)
(* message is waiting or executing. *)
Abandoned ==
    status \in Scannable /\ ~finished /\ Alive = {}

(* Recovery resumes or closes every abandoned job, whatever workers, cancel  *)
(* requests and crashes did before (for as long as the model has messages).  *)
AbandonedIsRecovered == (Abandoned /\ Unused # {}) ~> ~Abandoned

Lease == INSTANCE ExecutionLease
    WITH holder <- IF Running = {} THEN NoTask ELSE CHOOSE t \in Running : TRUE,
         spent  <- {t \in Tasks : pc[t] \notin Waiting \cup {"unused"}}

(* Each message is executed at most once and one at a time. *)
LeaseHeld == Lease!Spec

=============================================================================
