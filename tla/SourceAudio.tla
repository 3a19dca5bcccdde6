---------------------------- MODULE SourceAudio ----------------------------
(* Transcription jobs that share one source audio file: the job created with *)
(* it and those restart() makes of that one.  All of them convert the file   *)
(* to the same <source>.tmp.wav; a batch job also keeps the result as the    *)
(* audio of a row of its own, uploads it and has Azure Speech transcribe it. *)
(* The agent that runs the recognition is part of the model, and so is what  *)
(* the jobs on other sources of the case do to its directory of converted    *)
(* files.  Executions of one job never overlap here, and its row never       *)
(* refuses a status: JobLifecycle is about that.                             *)
EXTENDS Naturals, FiniteSets

CONSTANTS
    Jobs,        \* transcription jobs on the source file (bound)
    Rows,        \* rows for conversions (bound)
    Versions,    \* numbers of converted files, <name>.wav being the first (bound)
    RetryMax,    \* TranscriptionConfig.retry_max
    Cases,       \* instances considered: Job.mode, the jobs there may be, whether
                 \* two executions may use the temporary file together, how many
                 \* cancels, failures (deaths of an execution, rows the
                 \* database refuses, copies that fail) and conversions of
                 \* other sources there are, and how many answers of Azure
                 \* Speech to its POST an execution may lose (bound)
    None

Tmp == 0         \* the temporary file, where the number of a version is expected

ASSUME AudioAssumption ==
    /\ None \notin Jobs \cup Rows \cup Nat
    /\ IsFiniteSet(Rows)
    /\ Versions \subseteq Nat \ {Tmp}
    /\ RetryMax \in Nat \ {0}
    /\ \A c \in Cases :
         /\ c.mode \in {"batch", "ondemand"}
         /\ c.jobs \subseteq Jobs /\ c.jobs # {}
         /\ c.overlap \in BOOLEAN
         /\ c.cancels \in Nat /\ c.failures \in Nat /\ c.lost \in Nat
         /\ c.rivals \in Nat

VARIABLES
    case,       \* the instance; Job.mode is the same for a job and its restarts
    status,     \* Job.status of each job; "absent" until it is created
    finished,   \* Job.finished_at of each job is set
    asked,      \* what a request to cancel each job has done: "none" without one,
                \* "read" the row, "revoked" the task
    pc,         \* where the execution of each job is
    source,     \* the source file exists
    tmp,        \* the content of <source>.tmp.wav
    audio,      \* the content of each converted file
    owner,      \* the job each conversion row was made for
    file,       \* audio_input of each conversion row
    noted,      \* converted_audio_job_id in the metadata of each job
    mine,       \* converted_job_obj of the execution of each job
    path,       \* converted_path of the execution of each job
    attempts,   \* attempts of the on-demand loop
    input,      \* what the execution has given the speech service
    heard,      \* the service has answered a text
    submitted,  \* transcriptions Azure has created for the execution
    lost,       \* answers to its POST that were lost
    rival,      \* name a conversion of another source has chosen and is yet to copy to
    taken,      \* names the rows of other sources have for their audio
    rivals,     \* conversions of other sources
    cancels,    \* requests to cancel
    failures,   \* deaths of executions, refused rows and failed copies
    mislaid,    \* history: conversions whose row was not, or no longer, noted
                \* when the execution ended
    clean       \* history: no two executions used the temporary file together,
                \* none ended while it was replacing a converted file, and none
                \* chose a name while one on another source was doing so

jobrow  == <<status, finished>>
others  == <<rival, taken, rivals>>
around  == <<case, asked, others>>
service == <<attempts, input, heard, submitted, lost>>
disk    == <<source, tmp, audio>>
rows    == <<owner, file>>
local   == <<mine, path, service>>
faults  == <<cancels, failures>>
history == <<mislaid, clean>>
vars    == <<around, jobrow, pc, disk, rows, noted, local, faults, history>>

mode == case.mode

Contents == {"none", "partial", "whole"}
Settled  == {"CANCELLED", "FAILED"}
Stopping == {"CANCELLING", "CANCELLED"}
Active   == {"PENDING", "CONVERTING", "UPLOADING", "RUNNING", "CANCELLING"}

(* Places of an execution: from the start of ffmpeg to the removal of the    *)
(* temporary file, and outside of it.                                        *)
Replacing == {"copy", "save"}
Uses      == {"ffmpeg", "row", "name", "note", "upload", "reading", "check", "recognize",
              "listening"} \cup Replacing
Working   == {"begun", "claimed", "submit", "poll", "log", "report", "cancelled", "withdrawn"}
             \cup Uses
Places    == {"idle", "queued", "dead"} \cup Working

Using == {j \in Jobs : pc[j] \in Uses /\ path[j] # None}

(* The row of the conversion is made, and the metadata does not name it yet  *)
(* or, after the record of a failure has replaced it, any more.              *)
Between(j) == mine[j] # None /\ noted[j] # mine[j]

Init ==
    /\ case \in Cases
    /\ LET first == CHOOSE j \in case.jobs : TRUE
       IN  /\ status = [j \in Jobs |-> IF j = first THEN "PENDING" ELSE "absent"]
           /\ pc = [j \in Jobs |-> IF j = first THEN "queued" ELSE "idle"]
    /\ finished = [j \in Jobs |-> FALSE] /\ asked = [j \in Jobs |-> "none"]
    /\ rival = None /\ taken = {} /\ rivals = 0
    /\ source = TRUE /\ tmp = "none" /\ audio = [v \in Versions |-> "none"]
    /\ owner = [r \in Rows |-> None] /\ file = [r \in Rows |-> None]
    /\ noted = [j \in Jobs |-> None]
    /\ mine = [j \in Jobs |-> None] /\ path = [j \in Jobs |-> None]
    /\ attempts = [j \in Jobs |-> 0]
    /\ input = [j \in Jobs |-> "none"] /\ heard = [j \in Jobs |-> FALSE]
    /\ submitted = [j \in Jobs |-> 0] /\ lost = [j \in Jobs |-> 0]
    /\ cancels = 0 /\ failures = 0 /\ mislaid = 0 /\ clean = TRUE

Goto(j, place) == pc' = [pc EXCEPT ![j] = place]

(* The status is saved, with finished_at as it is, set, or cleared. *)
Save(j, s)  == status' = [status EXCEPT ![j] = s] /\ UNCHANGED finished
Close(j, s) == status' = [status EXCEPT ![j] = s] /\ finished' = [finished EXCEPT ![j] = TRUE]
Open(j, s)  == status' = [status EXCEPT ![j] = s] /\ finished' = [finished EXCEPT ![j] = FALSE]

FailsNow ==
    /\ failures < case.failures
    /\ failures' = failures + 1

(* An execution is over and its local variables are gone. *)
End(j, place) ==
    /\ Goto(j, place)
    /\ mine' = [mine EXCEPT ![j] = None]
    /\ path' = [path EXCEPT ![j] = None]
    /\ attempts' = [attempts EXCEPT ![j] = 0]
    /\ input' = [input EXCEPT ![j] = "none"]
    /\ heard' = [heard EXCEPT ![j] = FALSE]
    /\ submitted' = [submitted EXCEPT ![j] = 0]
    /\ lost' = [lost EXCEPT ![j] = 0]

Interrupted(j) ==
    /\ mislaid' = mislaid + (IF Between(j) THEN 1 ELSE 0)
    /\ clean' = (clean /\ pc[j] \notin Replacing)

(***************************************************************************)
(* Requests and recovery                                                   *)
(***************************************************************************)
(* POST restart: a new job on the same file, unless the job is RUNNING. *)
Restart(j) ==
    /\ j \in case.jobs
    /\ status[j] = "absent"
    /\ \E k \in Jobs : status[k] \notin {"absent", "RUNNING"}
    /\ Save(j, "PENDING")
    /\ Goto(j, "queued")
    /\ UNCHANGED <<around, disk, rows, noted, local, faults, history>>

(* POST cancel reads the row and goes by the status it has then.            *)
CancelRead(j) ==
    /\ cancels < case.cancels
    /\ cancels' = cancels + 1
    /\ asked[j] = "none"
    /\ status[j] \in {"PENDING", "RUNNING", "CANCELLING", "UPLOADING"}
    /\ asked' = [asked EXCEPT ![j] = "read"]
    /\ UNCHANGED <<case, others, jobrow, pc, disk, rows, noted, local, failures, history>>

(* No worker holds the task, or none answers: the job is closed at once,     *)
(* whatever has become of it.                                                *)
CancelClose(j) ==
    /\ asked[j] = "read"
    /\ asked' = [asked EXCEPT ![j] = "none"]
    /\ Close(j, "CANCELLED")
    /\ UNCHANGED <<case, others, pc, disk, rows, noted, local, faults, history>>

(* A worker is known to hold the task and told to stop, which may kill the   *)
(* execution or come too late ...                                            *)
CancelRevoke(j) ==
    /\ asked[j] = "read"
    /\ pc[j] \in Working \cup {"queued"}
    /\ asked' = [asked EXCEPT ![j] = "revoked"]
    /\ \/ End(j, "dead") /\ Interrupted(j)
       \/ UNCHANGED <<pc, local, history>>
    /\ UNCHANGED <<case, others, jobrow, disk, rows, noted, faults>>

(* ... and then the job is CANCELLING, be it over by now. *)
CancelSave(j) ==
    /\ asked[j] = "revoked"
    /\ asked' = [asked EXCEPT ![j] = "none"]
    /\ Save(j, "CANCELLING")
    /\ UNCHANGED <<case, others, pc, disk, rows, noted, local, faults, history>>

(* The worker process dies; or, before runtime.start(), transcribe_job ends  *)
(* with an exception, which does as much to the row.                         *)
Crash(j) ==
    /\ FailsNow
    /\ pc[j] \in Working
    /\ End(j, "dead")
    /\ Interrupted(j)
    /\ UNCHANGED <<around, jobrow, disk, rows, noted, cancels>>

(* Recovery closes a job that was being cancelled and sends others again.    *)
(* It looks neither for PENDING jobs nor for those with a finished_at.       *)
Recover(j) ==
    /\ pc[j] = "dead"
    /\ ~finished[j]
    /\ \/ /\ status[j] = "CANCELLING"
          /\ Close(j, "CANCELLED")
          /\ Goto(j, "idle")
       \/ /\ status[j] \in {"RUNNING", "UPLOADING", "CONVERTING"}
          /\ Open(j, "PENDING")
          /\ Goto(j, "queued")
    /\ UNCHANGED <<around, disk, rows, noted, local, faults, history>>

(***************************************************************************)
(* transcribe_job: the conversion                                          *)
(***************************************************************************)
(* The task reads the row and goes on unless that says CANCELLED. *)
Claim(j) ==
    /\ pc[j] = "queued"
    /\ Goto(j, IF status[j] = "CANCELLED" THEN "idle" ELSE "begun")
    /\ UNCHANGED <<around, jobrow, disk, rows, noted, local, faults, history>>

(* runtime.start() saves a status that depends on the mode and on            *)
(* force_wav_conversion, which recovery does not repeat.                     *)
Start(j) ==
    /\ pc[j] = "begun"
    /\ Goto(j, "claimed")
    /\ \E s \in IF mode = "batch" THEN {"UPLOADING", "CONVERTING"} ELSE {"RUNNING"} :
         Open(j, s)
    /\ UNCHANGED <<around, disk, rows, noted, local, faults, history>>

(* The source has the target format already and is used as it is. *)
KeepFormat(j) ==
    /\ pc[j] = "claimed"
    /\ source
    /\ Goto(j, IF mode = "batch" THEN "upload" ELSE "recognize")
    /\ UNCHANGED <<around, jobrow, disk, rows, noted, local, faults, history>>

(* Variant for mutation runs: a temporary file that exists is used. *)
StartFfmpegOnce(j) ==
    /\ pc[j] = "claimed"
    /\ source
    /\ tmp' = IF tmp = "none" THEN "partial" ELSE tmp
    /\ Goto(j, CASE tmp = "none" -> "ffmpeg" [] mode = "batch" -> "row" [] OTHER -> "recognize")
    /\ path' = [path EXCEPT ![j] = Tmp]
    /\ clean' = (clean /\ Using = {})
    /\ UNCHANGED <<around, jobrow, source, audio, rows, noted, mine, service, faults, mislaid>>

(* ffmpeg -y opens the temporary file, which empties it for every reader. *)
StartFfmpeg(j) ==
    /\ pc[j] = "claimed"
    /\ source
    /\ case.overlap \/ Using = {}
    /\ Goto(j, "ffmpeg")
    /\ tmp' = "partial"
    /\ path' = [path EXCEPT ![j] = Tmp]
    /\ input' = [k \in Jobs |-> IF /\ tmp # "none" /\ path[k] # None
                                   /\ pc[k] \in {"reading", "listening"}
                                THEN "partial" ELSE input[k]]
    /\ clean' = (clean /\ Using = {})
    /\ UNCHANGED <<around, jobrow, source, audio, rows, noted, mine, attempts, heard,
                   submitted, lost,
                   faults, mislaid>>

(* The file may be gone by now, or another ffmpeg may still be writing it. *)
FinishFfmpeg(j) ==
    /\ pc[j] = "ffmpeg"
    /\ tmp' = CASE tmp = "none" -> "none"
                [] tmp # "none" /\ (\E k \in Jobs \ {j} : pc[k] = "ffmpeg") -> "partial"
                [] OTHER -> "whole"
    /\ IF mode = "batch"
       THEN Save(j, "CONVERTING") /\ Goto(j, "row")
       ELSE UNCHANGED jobrow /\ Goto(j, "recognize")
    /\ UNCHANGED <<around, source, audio, rows, noted, local, faults, history>>

(* The row noted by an earlier execution is used again ... *)
ReuseRow(j) ==
    /\ pc[j] = "row"
    /\ noted[j] # None
    /\ mine' = [mine EXCEPT ![j] = noted[j]]
    /\ Goto(j, "name")
    /\ UNCHANGED <<around, jobrow, disk, rows, noted, path, service, faults, history>>

Unused == {r \in Rows : owner[r] = None}

(* Variant for mutation runs: every execution makes a row. *)
CreateRowAnew(j) ==
    /\ pc[j] = "row"
    /\ Unused # {}
    /\ LET r == CHOOSE u \in Unused : TRUE
       IN  owner' = [owner EXCEPT ![r] = j] /\ mine' = [mine EXCEPT ![j] = r]
    /\ Goto(j, "name")
    /\ UNCHANGED <<around, jobrow, disk, file, noted, path, service, faults, history>>

(* ... or one is made: SUCCEEDED from the beginning, and without audio.      *)
(* Without a row, when the database refuses it, the task goes on.            *)
CreateRow(j) ==
    /\ pc[j] = "row"
    /\ noted[j] = None
    /\ \/ /\ Unused # {}
          /\ LET r == CHOOSE u \in Unused : TRUE
             IN  owner' = [owner EXCEPT ![r] = j] /\ mine' = [mine EXCEPT ![j] = r]
          /\ UNCHANGED failures
       \/ FailsNow /\ UNCHANGED <<owner, mine>>
    /\ Goto(j, "name")
    /\ UNCHANGED <<around, jobrow, disk, file, noted, path, service, cancels, history>>

(* The first name of <name>.wav, <name>_v2.wav, ... that no file has. *)
FirstFree == {v \in Versions : /\ audio[v] = "none"
                               /\ \A w \in Versions : audio[w] = "none" => v <= w}

(* Variant for mutation runs: files that exist are not looked for. *)
NamesAnew(j) == {v \in Versions : \A w \in Versions : v <= w}

(* The audio of the row, or the first name that no file has. *)
Names(j) ==
    IF mine[j] # None /\ file[mine[j]] # None THEN {file[mine[j]]} ELSE FirstFree

(* A file of that name is removed, be it the temporary file itself. *)
ChoosePath(j) ==
    /\ pc[j] = "name"
    /\ \E name \in Names(j) :
         /\ path' = [path EXCEPT ![j] = name]
         /\ IF name = Tmp
            THEN tmp' = "none" /\ UNCHANGED audio
            ELSE audio' = [audio EXCEPT ![name] = "none"] /\ UNCHANGED tmp
    /\ Goto(j, "copy")
    /\ clean' = (clean /\ rival = None)
    /\ UNCHANGED <<around, jobrow, source, rows, noted, mine, service, faults, mislaid>>

Copy(j) ==
    /\ pc[j] = "copy"
    /\ path[j] # Tmp
    /\ tmp # "none"
    /\ audio' = [audio EXCEPT ![path[j]] = tmp]
    /\ Goto(j, "save")
    /\ UNCHANGED <<around, jobrow, source, tmp, rows, noted, local, faults, history>>

(* Variant for mutation runs: the name of the copy is kept. *)
CopyFailsUnnoticed(j) ==
    /\ pc[j] = "copy"
    /\ path[j] # Tmp
    /\ audio' = [audio EXCEPT ![path[j]] = "partial"]
    /\ Goto(j, "save")
    /\ UNCHANGED <<around, jobrow, source, tmp, rows, noted, local, faults, history>>

(* Without a copy the temporary file becomes the audio of the row. *)
CopyFails(j) ==
    /\ pc[j] = "copy"
    /\ path' = [path EXCEPT ![j] = Tmp]
    /\ \/ (path[j] = Tmp \/ tmp = "none") /\ UNCHANGED <<audio, failures>>
       \/ FailsNow /\ UNCHANGED audio
       \/ FailsNow /\ path[j] # Tmp /\ audio' = [audio EXCEPT ![path[j]] = "partial"]
    /\ Goto(j, "save")
    /\ UNCHANGED <<around, jobrow, source, tmp, rows, noted, mine, service,
                   cancels, history>>

(* sha256_file() raises without the file (Fail); otherwise the row is saved. *)
SaveRow(j) ==
    /\ pc[j] = "save"
    /\ IF path[j] = Tmp THEN tmp # "none" ELSE audio[path[j]] # "none"
    /\ file' = IF mine[j] = None THEN file ELSE [file EXCEPT ![mine[j]] = path[j]]
    /\ Goto(j, "note")
    /\ UNCHANGED <<around, jobrow, disk, owner, noted, local, faults, history>>

(* Variant for mutation runs: the file is noted, not the row. *)
NotePath(j) ==
    /\ pc[j] = "note"
    /\ noted' = [noted EXCEPT ![j] = path[j]]
    /\ Goto(j, "upload")
    /\ UNCHANGED <<around, jobrow, disk, rows, local, faults, history>>

Note(j) ==
    /\ pc[j] = "note"
    /\ noted' = IF mine[j] = None THEN noted ELSE [noted EXCEPT ![j] = mine[j]]
    /\ Goto(j, "upload")
    /\ UNCHANGED <<around, jobrow, disk, rows, local, faults, history>>

(***************************************************************************)
(* transcribe_job on other sources of the case: ChoosePath, Copy and what  *)
(* may become of them, for sources that have the same name, one at a time  *)
(***************************************************************************)
(* Another conversion chooses a name as Names does: the first that no file   *)
(* has, or that of its row, whose file it removes.                           *)
RivalChooses ==
    /\ rival = None
    /\ rivals < case.rivals
    /\ rivals' = rivals + 1
    /\ \E v \in Versions :
         /\ v \in taken \/ v \in FirstFree
         /\ rival' = v
         /\ audio' = [audio EXCEPT ![v] = "none"]
    /\ clean' = (clean /\ \A j \in Jobs : pc[j] \notin Replacing)
    /\ UNCHANGED <<case, asked, taken, jobrow, pc, source, tmp, rows, noted, local, faults,
                   mislaid>>

(* It copies its audio there, and saves the name in its row if that can be   *)
(* saved; or it cannot copy, and the row has its temporary file instead.     *)
RivalCopies ==
    /\ rival # None
    /\ rival' = None
    /\ \/ /\ audio' = [audio EXCEPT ![rival] = "other"]
          /\ taken' \in {taken, taken \cup {rival}}
       \/ /\ audio' \in {audio, [audio EXCEPT ![rival] = "partial"]}
          /\ taken' = taken \ {rival}
    /\ UNCHANGED <<case, asked, rivals, jobrow, pc, source, tmp, rows, noted, local, faults,
                   history>>

(* Its execution ends before either. *)
RivalDies ==
    /\ rival # None
    /\ rival' = None
    /\ audio' \in {audio, [audio EXCEPT ![rival] = "partial"]}
    /\ clean' = (clean /\ rival \notin taken)
    /\ UNCHANGED <<case, asked, taken, rivals, jobrow, pc, source, tmp, rows, noted, local,
                   faults, mislaid>>

Rival == RivalChooses \/ RivalCopies \/ RivalDies

(***************************************************************************)
(* transcribe_job: the upload                                              *)
(***************************************************************************)
(* What upload_path or the recognizer opens: the converted file before the   *)
(* copy, or the source.                                                      *)
Opened(j) ==
    IF path[j] # None THEN tmp ELSE IF source THEN "whole" ELSE "none"

(* UPLOADING is saved, over CANCELLING too, and the file is opened. *)
BeginUpload(j) ==
    /\ pc[j] = "upload"
    /\ Opened(j) # "none"
    /\ Save(j, "UPLOADING")
    /\ input' = [input EXCEPT ![j] = Opened(j)]
    /\ Goto(j, "reading")
    /\ UNCHANGED <<around, disk, rows, noted, mine, path, attempts, heard, submitted,
                   lost, faults,
                   history>>

(* All blocks are sent, unless a check before one of them finds the job      *)
(* cancelled.                                                                *)
FinishUpload(j) ==
    /\ pc[j] = "reading"
    /\ Goto(j, IF status[j] \in Stopping THEN "cancelled" ELSE "check")
    /\ UNCHANGED <<around, jobrow, disk, rows, noted, local, faults, history>>

(* cleanup_path is removed, whoever uses it, and the status is read again. *)
AfterUpload(j) ==
    /\ pc[j] = "check"
    /\ tmp' = IF path[j] = None THEN tmp ELSE "none"
    /\ IF status[j] \in Stopping
       THEN Goto(j, "withdrawn") /\ UNCHANGED jobrow
       ELSE Goto(j, "submit") /\ Save(j, "RUNNING")
    /\ UNCHANGED <<around, source, audio, rows, noted, local, faults, history>>

(* except UploadCancelled: the source file is unlinked unless the upload     *)
(* had returned, whichever other job is to read it.                          *)
UploadCancelled(j) ==
    /\ pc[j] \in {"cancelled", "withdrawn"}
    /\ Close(j, "CANCELLED")
    /\ source' = (source /\ pc[j] = "withdrawn")
    /\ End(j, "idle")
    /\ UNCHANGED <<around, tmp, audio, rows, noted, faults, history>>

(* An exception reaches the handler, which knows the conversion only once    *)
(* batch_upload_meta names it.                                               *)
Fail(j) ==
    /\ pc[j] \in {"claimed", "ffmpeg", "row", "save", "upload", "reading", "submit"}
    /\ Goto(j, "report")
    /\ mine' = [mine EXCEPT ![j] = IF Between(j) THEN None ELSE @]
    /\ Interrupted(j)
    /\ UNCHANGED <<around, jobrow, disk, rows, noted, path, service, faults>>

(* except Exception: the metadata names the conversion again. *)
Report(j) ==
    /\ pc[j] = "report"
    /\ Close(j, "FAILED")
    /\ noted' = IF mine[j] = None THEN noted ELSE [noted EXCEPT ![j] = mine[j]]
    /\ End(j, "idle")
    /\ UNCHANGED <<around, disk, rows, faults, history>>

(***************************************************************************)
(* TranscriptionAgent.transcribe()                                         *)
(***************************************************************************)
(* POST transcriptions; a lost answer makes the HTTP adapter post again. *)
CreateTranscription(j) ==
    /\ pc[j] = "submit"
    /\ submitted' = [submitted EXCEPT ![j] = @ + 1]
    /\ \/ Goto(j, "poll") /\ UNCHANGED lost
       \/ lost[j] < case.lost /\ lost' = [lost EXCEPT ![j] = @ + 1] /\ UNCHANGED pc
    /\ UNCHANGED <<around, jobrow, disk, rows, noted, mine, path, attempts, input, heard,
                   faults, history>>

(* Variant for mutation runs: the batch loop goes on after a failure. *)
SpeechFailsAgain(j) ==
    /\ pc[j] \in {"submit", "poll"}
    /\ Goto(j, "submit")
    /\ UNCHANGED <<around, jobrow, disk, rows, noted, local, faults, history>>


(* An error, a failed or empty transcription, or the deadline of polling;    *)
(* after an error the health check of the service may raise instead.         *)
SpeechFails(j) ==
    /\ pc[j] \in {"submit", "poll"}
    /\ Goto(j, "log") \/ Goto(j, "report")
    /\ UNCHANGED <<around, jobrow, disk, rows, noted, local, faults, history>>

(* The recognizer opens the audio; a missing file is an attempt that failed. *)
Recognize(j) ==
    /\ pc[j] = "recognize"
    /\ input' = [input EXCEPT ![j] = Opened(j)]
    /\ Goto(j, "listening")
    /\ UNCHANGED <<around, jobrow, disk, rows, noted, mine, path, attempts, heard,
                   submitted, lost,
                   faults, history>>

(* Nothing recognized in time, or an exception: another attempt, or none. *)
NotHeard(j) ==
    /\ pc[j] = "listening"
    /\ attempts' = [attempts EXCEPT ![j] = @ + 1]
    /\ Goto(j, IF attempts'[j] < RetryMax THEN "recognize" ELSE "log")
    /\ UNCHANGED <<around, jobrow, disk, rows, noted, mine, path, input, heard,
                   submitted, lost,
                   faults, history>>

(* A text is there.  _sha256sum() then opens the transcript file, which is   *)
(* yet to be written, and _next_versioned() has made sure it does not exist. *)
Heard(j) ==
    /\ pc[j] = "poll" \/ (pc[j] = "listening" /\ input[j] # "none")
    /\ heard' = [heard EXCEPT ![j] = TRUE]
    /\ Goto(j, "report")
    /\ UNCHANGED <<around, jobrow, disk, rows, noted, mine, path, attempts, input,
                   submitted, lost,
                   faults, history>>

(* The record of the failure replaces the metadata of the job, and with it   *)
(* the conversion of an earlier execution if this one made none: recovery    *)
(* does not repeat force_wav_conversion.                                     *)
LogFailure(j) ==
    /\ pc[j] = "log"
    /\ noted' = [noted EXCEPT ![j] = None]
    /\ mislaid' = mislaid + (IF mine[j] = None /\ noted[j] # None THEN 1 ELSE 0)
    /\ Goto(j, "report")
    /\ UNCHANGED <<around, jobrow, disk, rows, local, faults, clean>>

(* What an execution does by itself, and what takes an answer of the service *)
(* that may never come.                                                      *)
Work(j) ==
    \/ Claim(j) \/ Start(j) \/ KeepFormat(j) \/ StartFfmpeg(j) \/ FinishFfmpeg(j)
    \/ ReuseRow(j) \/ CreateRow(j) \/ ChoosePath(j) \/ Copy(j) \/ CopyFails(j)
    \/ SaveRow(j) \/ Note(j) \/ BeginUpload(j) \/ FinishUpload(j) \/ AfterUpload(j)
    \/ UploadCancelled(j) \/ Fail(j) \/ Report(j)
    \/ SpeechFails(j) \/ Recognize(j) \/ NotHeard(j) \/ LogFailure(j)

Answer(j) == CreateTranscription(j) \/ Heard(j)

Step(j) ==
    \/ Restart(j) \/ CancelRead(j) \/ CancelClose(j) \/ CancelRevoke(j) \/ CancelSave(j)
    \/ Crash(j) \/ Recover(j) \/ Work(j) \/ Answer(j)

Next == (\E j \in Jobs : Step(j)) \/ Rival

Spec == Init /\ [][Next]_vars

(* Workers go on with what they execute, and recovery runs every so often. *)
Fairness == \A j \in Jobs : WF_vars(Work(j) \/ Recover(j))

FairSpec == Spec /\ Fairness

(***************************************************************************)
(* Properties                                                              *)
(***************************************************************************)
(* Every variable has its type. *)
TypeOK ==
    /\ case \in Cases
    /\ status \in [Jobs -> {"absent"} \cup Active \cup Settled]
    /\ finished \in [Jobs -> BOOLEAN]
    /\ asked \in [Jobs -> {"none", "read", "revoked"}]
    /\ pc \in [Jobs -> Places]
    /\ source \in BOOLEAN
    /\ tmp \in Contents
    /\ audio \in [Versions -> Contents \cup {"other"}]
    /\ rival \in Versions \cup {None} /\ taken \subseteq Versions /\ rivals \in Nat
    /\ owner \in [Rows -> Jobs \cup {None}]
    /\ file \in [Rows -> Versions \cup {Tmp, None}]
    /\ noted \in [Jobs -> Rows \cup {None}]
    /\ mine \in [Jobs -> Rows \cup {None}]
    /\ path \in [Jobs -> Versions \cup {Tmp, None}]
    /\ input \in [Jobs -> Contents]
    /\ heard \in [Jobs -> BOOLEAN]
    /\ attempts \in [Jobs -> Nat]
    /\ submitted \in [Jobs -> Nat]
    /\ lost \in [Jobs -> Nat] /\ cancels \in Nat /\ failures \in Nat /\ mislaid \in Nat
    /\ clean \in BOOLEAN

(* The service is given whole audio, whatever earlier executions left in the *)
(* temporary file, as long as no two executions use that file together:      *)
(* nothing but luck keeps a job and its restart from doing so.               *)
InputIsWhole == clean => \A j \in Jobs : input[j] # "partial"

(* The converted audio a job keeps for its user is what it goes on to have   *)
(* transcribed, unless it could not be copied.                               *)
Kept(j) == mine[j] # None /\ pc[j] \in {"upload", "reading", "check", "submit", "poll"}

KeptIsWhole ==
    clean => \A j \in Jobs : Kept(j) /\ file[mine[j]] # Tmp
                                 => file[mine[j]] # None /\ audio[file[mine[j]]] = "whole"

(* No two conversions of the case have the same file: names are chosen by    *)
(* looking at the directory, and re-executions remove and rewrite their own, *)
(* while other sources of that name do the same; but nothing keeps two that  *)
(* choose at once from choosing the same, and a conversion is itself a job   *)
(* that users may delete or restart, which they do not here.                 *)
FilesAreDistinct ==
    clean => /\ \A r, s \in Rows : r # s /\ file[r] = file[s] => file[r] \in {Tmp, None}
             /\ \A r \in Rows : file[r] \notin taken

(* Re-executions of a job find the conversion of the earlier ones: a row no  *)
(* job names is in the making, or was lost by an execution that died or      *)
(* failed before it had noted the row, or after the record of a failure had  *)
(* replaced the metadata, or by that record in an execution without its own. *)
Orphans == {r \in Rows : /\ owner[r] # None
                         /\ \A j \in Jobs : noted[j] # r /\ mine[j] # r}

OrphansWereInterrupted == Cardinality(Orphans) <= mislaid

(* An execution makes Azure create more than one transcription only for lost *)
(* answers, which the HTTP adapter retries: a batch that failed, or whose    *)
(* deadline passed while Azure still works on it, is not submitted again.    *)
SubmittedOnce == \A j \in Jobs : submitted[j] <= 1 + lost[j]

(* Where a job is left for good: dead before runtime.start() had saved a     *)
(* status recovery looks for, or CANCELLING by a request that went by what   *)
(* the row said before the execution ended.                                  *)
Stranded(j) == pc[j] \in {"dead", "idle"} /\ (status[j] = "PENDING" \/ finished[j])


(* What tests/udocket_core/e2e/test_transcribe_e2e.py asserts of the agent:  *)
(* a recording in which speech is recognized gets its transcript.            *)
TranscriptIsWritten == \A j \in Jobs : heard[j] => pc[j] # "report"
=============================================================================
