-------------------------- MODULE SourceAudioProofs --------------------------
(* Proofs about SourceAudio, for any number of jobs, rows, names, failures   *)
(* and cancels.                                                              *)
EXTENDS SourceAudio, Integers, FiniteSetTheorems, WellFoundedInduction, TLAPS

(***************************************************************************)
(* The inductive invariant                                                 *)
(***************************************************************************)
(* Rows are made for one job, and only jobs with a row give it audio. *)
Owned ==
    /\ \A j \in Jobs : mine[j] # None => owner[mine[j]] = j
    /\ \A j \in Jobs : noted[j] # None => owner[noted[j]] = j
    /\ \A r \in Rows : file[r] # None => owner[r] # None

Before  == {"idle", "queued", "dead", "begun", "claimed"}
Holding == {"ffmpeg", "row", "name", "note"} \cup Replacing
KeptAt  == {"note", "upload", "reading", "check", "submit", "poll"}
Posting == {"poll", "log", "report"}

(* What the local variables of an execution tell of where it is. *)
Locals ==
    \A j \in Jobs :
        /\ status[j] = "absent" => pc[j] = "idle"
        /\ pc[j] \in Before => path[j] = None
        /\ pc[j] \in Before \cup {"ffmpeg", "row"} => mine[j] = None
        /\ pc[j] \in Holding => path[j] # None

Alone == clean => \A j, k \in Using : j = k

(* Only ffmpeg leaves the temporary file unfinished. *)
TmpIsWhole == clean /\ tmp = "partial" => \A j \in Using : pc[j] = "ffmpeg"

(* The file an execution is replacing belongs to no row but its own. *)
Replaces ==
    clean => \A j \in Jobs :
        pc[j] \in Replacing /\ path[j] # Tmp
        => /\ \A r \in Rows : file[r] = path[j] => r = mine[j]
           /\ pc[j] = "save" => audio[path[j]] = "whole"

(* A row without its file is one that has it replaced. *)
Present ==
    clean => \A r \in Rows :
        file[r] \in Versions /\ audio[file[r]] = "none"
        => \E j \in Jobs : pc[j] \in Replacing /\ mine[j] = r

Keeps ==
    clean => \A j \in Jobs :
        mine[j] # None /\ pc[j] \in KeptAt /\ file[mine[j]] # Tmp
        => file[mine[j]] # None /\ audio[file[mine[j]]] = "whole"

Posted ==
    \A j \in Jobs : /\ submitted[j] <= 1 + lost[j]
                    /\ pc[j] \notin Posting => submitted[j] <= lost[j]

(* An execution has the row it noted, or one it has yet to note. *)
NotedAt == {"upload", "reading", "check", "submit", "poll", "cancelled", "withdrawn"}
Named ==
    \A j \in Jobs : /\ mine[j] # None => noted[j] \in {None, mine[j]}
                    /\ pc[j] \in NotedAt => ~Between(j)

(* A conversion of another source that has chosen a name, in a clean         *)
(* behaviour, is alone in replacing a file, and no row here has that name.   *)
RivalsApart ==
    clean => /\ rival # None => /\ \A j \in Jobs : pc[j] \notin Replacing
                                /\ \A r \in Rows : file[r] # rival
             /\ \A v \in taken : audio[v] # "none" \/ rival = v
             /\ \A j \in Jobs : pc[j] \in Replacing /\ path[j] # Tmp => path[j] \notin taken

FilesOK == Replaces /\ Present /\ Keeps /\ FilesAreDistinct /\ RivalsApart

IInv ==
    /\ TypeOK /\ Owned /\ Locals /\ Alone /\ TmpIsWhole /\ InputIsWhole
    /\ FilesOK /\ Posted /\ Named /\ OrphansWereInterrupted

(***************************************************************************)
(* Types                                                                   *)
(***************************************************************************)
LEMMA TypeInit == Init => TypeOK
<1>1. Tmp \notin Versions /\ None \notin Versions
  BY AudioAssumption DEF Tmp
<1>2. QED
  BY DEF Init, TypeOK, Contents, Active, Settled, Places, Working, Uses, Replacing

(* A row that is made was not in use. *)
Made(j) ==
    \/ UNCHANGED <<owner, mine>>
    \/ \E r \in Rows : /\ owner[r] = None
                       /\ owner' = [owner EXCEPT ![r] = j]
                       /\ mine' = [mine EXCEPT ![j] = r]

(* A new row belongs to the job that made it.                                *)
LEMMA CreatedRow == ASSUME NEW j \in Jobs, CreateRow(j) PROVE Made(j)
<1>1. CASE Unused # {}
  <2>1. (CHOOSE u \in Unused : TRUE) \in Unused
    BY <1>1
  <2>2. QED
    BY <2>1 DEF CreateRow, Made, Unused
<1>2. CASE Unused = {}
  BY <1>2 DEF CreateRow, Made
<1>3. QED
  BY <1>1, <1>2

(* A step of a job keeps the types.                                          *)
LEMMA TypeStep == ASSUME TypeOK, NEW j \in Jobs, Step(j) PROVE TypeOK'
<1> USE DEF TypeOK, Contents, Active, Settled, Places, Working, Uses, Replacing,
            around, others, jobrow, disk, rows, local, service, faults, history
<1>1. CASE Restart(j)
  BY <1>1 DEF Restart, Goto, Save
<1>2. CASE CancelRead(j)
  BY <1>2 DEF CancelRead
<1>3. CASE CancelClose(j)
  BY <1>3 DEF CancelClose, Close
<1>4. CASE CancelRevoke(j)
  <2>1. CASE End(j, "dead") /\ Interrupted(j)
    <3>1. cancels' \in Nat /\ mislaid' \in Nat /\ clean' \in BOOLEAN
      BY <1>4, <2>1 DEF CancelRevoke, Interrupted
    <3>2. QED
      BY <1>4, <2>1, <3>1 DEF CancelRevoke, End, Goto
  <2>2. CASE UNCHANGED <<pc, local, history>>
    BY <1>4, <2>2 DEF CancelRevoke
  <2>3. QED
    BY <1>4, <2>1, <2>2 DEF CancelRevoke
<1>5. CASE CancelSave(j)
  BY <1>5 DEF CancelSave, Save
<1>6. CASE Crash(j)
  BY <1>6 DEF Crash, FailsNow, End, Goto, Interrupted
<1>7. CASE Recover(j)
  BY <1>7 DEF Recover, Close, Open, Goto
<1>8. CASE Claim(j)
  BY <1>8 DEF Claim, Goto
<1>9. CASE Start(j)
  BY <1>9 DEF Start, Open, Goto
<1>10. CASE KeepFormat(j)
  BY <1>10 DEF KeepFormat, Goto
<1>11. CASE StartFfmpeg(j)
  BY <1>11 DEF StartFfmpeg, Goto
<1>12. CASE FinishFfmpeg(j)
  BY <1>12 DEF FinishFfmpeg, Goto, Save
<1>13. CASE ReuseRow(j)
  BY <1>13 DEF ReuseRow, Goto
<1>14. CASE CreateRow(j)
  <2>1. owner' \in [Rows -> Jobs \cup {None}] /\ mine' \in [Jobs -> Rows \cup {None}]
    BY <1>14, CreatedRow DEF Made
  <2>2. failures' \in Nat
    BY <1>14 DEF CreateRow, FailsNow
  <2>3. QED
    BY <1>14, <2>1, <2>2 DEF CreateRow, Goto
<1>15. CASE ChoosePath(j)
  BY <1>15 DEF ChoosePath, Names, FirstFree, Goto
<1>16. CASE Copy(j)
  BY <1>16 DEF Copy, Goto
<1>17. CASE CopyFails(j)
  BY <1>17 DEF CopyFails, FailsNow, Goto
<1>18. CASE SaveRow(j)
  BY <1>18 DEF SaveRow, Goto
<1>19. CASE Note(j)
  BY <1>19 DEF Note, Goto
<1>20. CASE BeginUpload(j)
  BY <1>20 DEF BeginUpload, Opened, Save, Goto
<1>21. CASE FinishUpload(j)
  BY <1>21 DEF FinishUpload, Goto
<1>22. CASE AfterUpload(j)
  BY <1>22 DEF AfterUpload, Goto, Save
<1>23. CASE UploadCancelled(j)
  BY <1>23 DEF UploadCancelled, Close, End, Goto
<1>24. CASE Fail(j)
  BY <1>24 DEF Fail, Interrupted, Goto
<1>25. CASE Report(j)
  BY <1>25 DEF Report, Close, End, Goto
<1>26. CASE SpeechFails(j)
  BY <1>26 DEF SpeechFails, Goto
<1>27. CASE Recognize(j)
  BY <1>27 DEF Recognize, Opened, Goto
<1>28. CASE NotHeard(j)
  BY <1>28 DEF NotHeard, Goto
<1>29. CASE LogFailure(j)
  BY <1>29 DEF LogFailure, Goto
<1>30. CASE CreateTranscription(j)
  BY <1>30 DEF CreateTranscription, Goto
<1>31. CASE Heard(j)
  BY <1>31 DEF Heard, Goto
<1>32. QED
  BY <1>1, <1>2, <1>3, <1>4, <1>5, <1>6, <1>7, <1>8, <1>9, <1>10, <1>11, <1>12,
     <1>13, <1>14, <1>15, <1>16, <1>17, <1>18, <1>19, <1>20, <1>21, <1>22, <1>23,
     <1>24, <1>25, <1>26, <1>27, <1>28, <1>29, <1>30, <1>31 DEF Step, Work, Answer

(***************************************************************************)
(* Rows and their owners, local variables                                  *)
(***************************************************************************)
(* The owners of rows are not changed, and no job takes another one's row. *)
Settles(j) ==
    /\ owner' = owner
    /\ \A r \in Rows : file'[r] # None => file[r] # None \/ mine[j] = r
    /\ \A k \in Jobs : /\ mine'[k] # None => mine'[k] \in {mine[k], noted[k]}
                       /\ noted'[k] # None => noted'[k] \in {mine[k], noted[k]}

(* Steps that make no row keep the owners,                                   *)
LEMMA OwnedKept == ASSUME TypeOK, Owned, NEW j \in Jobs, Settles(j) PROVE Owned'
BY AudioAssumption DEF TypeOK, Owned, Settles

(* the one that makes a row keeps them too,                                  *)
LEMMA CreateRowOwned == ASSUME TypeOK, Owned, NEW j \in Jobs, CreateRow(j) PROVE Owned'
<1>1. CASE UNCHANGED <<owner, mine>>
  BY <1>1 DEF Owned, CreateRow
<1>2. CASE \E r \in Rows : /\ owner[r] = None
                          /\ owner' = [owner EXCEPT ![r] = j]
                          /\ mine' = [mine EXCEPT ![j] = r]
  <2>1. PICK r \in Rows : /\ owner[r] = None
                          /\ owner' = [owner EXCEPT ![r] = j]
                          /\ mine' = [mine EXCEPT ![j] = r]
    BY <1>2
  <2>2. file' = file /\ noted' = noted
    BY DEF CreateRow
  <2>3. QED
    BY <2>1, <2>2, AudioAssumption DEF TypeOK, Owned
<1>3. QED
  BY <1>1, <1>2, CreatedRow DEF Made

(* and so does every step.                                                   *)
LEMMA OwnedStep == ASSUME TypeOK, Owned, NEW j \in Jobs, Step(j) PROVE Owned'
<1> USE DEF around, others, jobrow, disk, rows, local, service, faults, history
<1>1. CASE Restart(j)
  BY <1>1, OwnedKept DEF Restart, Goto, Save, Settles, TypeOK
<1>2. CASE CancelRead(j)
  BY <1>2, OwnedKept DEF CancelRead, Settles, TypeOK
<1>3. CASE CancelClose(j)
  BY <1>3, OwnedKept DEF CancelClose, Close, Settles, TypeOK
<1>4. CASE CancelRevoke(j)
  <2>1. Settles(j)
    BY <1>4 DEF CancelRevoke, End, Goto, Settles, TypeOK
  <2>2. QED
    BY <2>1, OwnedKept
<1>5. CASE CancelSave(j)
  BY <1>5, OwnedKept DEF CancelSave, Save, Settles, TypeOK
<1>6. CASE Crash(j)
  BY <1>6, OwnedKept DEF Crash, FailsNow, End, Goto, Interrupted, Settles, TypeOK
<1>7. CASE Recover(j)
  BY <1>7, OwnedKept DEF Recover, Close, Open, Goto, Settles, TypeOK
<1>8. CASE Claim(j)
  BY <1>8, OwnedKept DEF Claim, Goto, Settles, TypeOK
<1>9. CASE Start(j)
  BY <1>9, OwnedKept DEF Start, Open, Goto, Settles, TypeOK
<1>10. CASE KeepFormat(j)
  BY <1>10, OwnedKept DEF KeepFormat, Goto, Settles, TypeOK
<1>11. CASE StartFfmpeg(j)
  BY <1>11, OwnedKept DEF StartFfmpeg, Goto, Settles, TypeOK
<1>12. CASE FinishFfmpeg(j)
  BY <1>12, OwnedKept DEF FinishFfmpeg, Goto, Save, Settles, TypeOK
<1>13. CASE ReuseRow(j)
  BY <1>13, OwnedKept DEF ReuseRow, Goto, Settles, TypeOK
<1>14. CASE CreateRow(j)
  BY <1>14, CreateRowOwned
<1>15. CASE ChoosePath(j)
  BY <1>15, OwnedKept DEF ChoosePath, Goto, Settles, TypeOK
<1>16. CASE Copy(j)
  BY <1>16, OwnedKept DEF Copy, Goto, Settles, TypeOK
<1>17. CASE CopyFails(j)
  BY <1>17, OwnedKept DEF CopyFails, FailsNow, Goto, Settles, TypeOK
<1>18. CASE SaveRow(j)
  BY <1>18, OwnedKept DEF SaveRow, Goto, Settles, TypeOK
<1>19. CASE Note(j)
  BY <1>19, OwnedKept DEF Note, Goto, Settles, TypeOK
<1>20. CASE BeginUpload(j)
  BY <1>20, OwnedKept DEF BeginUpload, Save, Goto, Settles, TypeOK
<1>21. CASE FinishUpload(j)
  BY <1>21, OwnedKept DEF FinishUpload, Goto, Settles, TypeOK
<1>22. CASE AfterUpload(j)
  BY <1>22, OwnedKept DEF AfterUpload, Goto, Save, Settles, TypeOK
<1>23. CASE UploadCancelled(j)
  BY <1>23, OwnedKept DEF UploadCancelled, Close, End, Goto, Settles, TypeOK
<1>24. CASE Fail(j)
  BY <1>24, OwnedKept DEF Fail, Interrupted, Goto, Settles, TypeOK
<1>25. CASE Report(j)
  BY <1>25, OwnedKept DEF Report, Close, End, Goto, Settles, TypeOK
<1>26. CASE SpeechFails(j)
  BY <1>26, OwnedKept DEF SpeechFails, Goto, Settles, TypeOK
<1>27. CASE Recognize(j)
  BY <1>27, OwnedKept DEF Recognize, Goto, Settles, TypeOK
<1>28. CASE NotHeard(j)
  BY <1>28, OwnedKept DEF NotHeard, Goto, Settles, TypeOK
<1>29. CASE LogFailure(j)
  BY <1>29, OwnedKept DEF LogFailure, Goto, Settles, TypeOK
<1>30. CASE CreateTranscription(j)
  BY <1>30, OwnedKept DEF CreateTranscription, Goto, Settles, TypeOK
<1>31. CASE Heard(j)
  BY <1>31, OwnedKept DEF Heard, Goto, Settles, TypeOK
<1>32. QED
  BY <1>1, <1>2, <1>3, <1>4, <1>5, <1>6, <1>7, <1>8, <1>9, <1>10, <1>11, <1>12,
     <1>13, <1>14, <1>15, <1>16, <1>17, <1>18, <1>19, <1>20, <1>21, <1>22, <1>23,
     <1>24, <1>25, <1>26, <1>27, <1>28, <1>29, <1>30, <1>31 DEF Step, Work, Answer

(* Every step keeps what a place says of the local variables.                *)
LEMMA LocalsStep == ASSUME TypeOK, Locals, NEW j \in Jobs, Step(j) PROVE Locals'
<1> USE AudioAssumption DEF TypeOK, Locals, Before, Holding, Replacing, Tmp, Working,
            Uses, around, others, jobrow, disk, rows, local, service, faults, history
<1>1. CASE Restart(j)
  BY <1>1 DEF Restart, Goto, Save
<1>2. CASE CancelRead(j)
  BY <1>2 DEF CancelRead
<1>3. CASE CancelClose(j)
  BY <1>3 DEF CancelClose, Close
<1>4. CASE CancelRevoke(j)
  BY <1>4 DEF CancelRevoke, End, Goto, Interrupted
<1>5. CASE CancelSave(j)
  BY <1>5 DEF CancelSave, Save
<1>6. CASE Crash(j)
  BY <1>6 DEF Crash, FailsNow, End, Goto, Interrupted
<1>7. CASE Recover(j)
  BY <1>7 DEF Recover, Close, Open, Goto
<1>8. CASE Claim(j)
  BY <1>8 DEF Claim, Goto
<1>9. CASE Start(j)
  BY <1>9 DEF Start, Open, Goto
<1>10. CASE KeepFormat(j)
  BY <1>10 DEF KeepFormat, Goto
<1>11. CASE StartFfmpeg(j)
  BY <1>11 DEF StartFfmpeg, Goto
<1>12. CASE FinishFfmpeg(j)
  BY <1>12 DEF FinishFfmpeg, Goto, Save
<1>13. CASE ReuseRow(j)
  BY <1>13 DEF ReuseRow, Goto
<1>14. CASE CreateRow(j)
  BY <1>14, CreatedRow DEF Made, CreateRow, Goto
<1>15. CASE ChoosePath(j)
  <2>1. PICK name \in Names(j) : path' = [path EXCEPT ![j] = name]
    BY <1>15 DEF ChoosePath
  <2>2. name # None
    BY <2>1 DEF Names, FirstFree
  <2>3. QED
    BY <1>15, <2>1, <2>2 DEF ChoosePath, Goto
<1>16. CASE Copy(j)
  BY <1>16 DEF Copy, Goto
<1>17. CASE CopyFails(j)
  BY <1>17 DEF CopyFails, FailsNow, Goto
<1>18. CASE SaveRow(j)
  BY <1>18 DEF SaveRow, Goto
<1>19. CASE Note(j)
  BY <1>19 DEF Note, Goto
<1>20. CASE BeginUpload(j)
  BY <1>20 DEF BeginUpload, Save, Goto
<1>21. CASE FinishUpload(j)
  BY <1>21 DEF FinishUpload, Goto
<1>22. CASE AfterUpload(j)
  BY <1>22 DEF AfterUpload, Goto, Save
<1>23. CASE UploadCancelled(j)
  BY <1>23 DEF UploadCancelled, Close, End, Goto
<1>24. CASE Fail(j)
  BY <1>24 DEF Fail, Interrupted, Goto
<1>25. CASE Report(j)
  BY <1>25 DEF Report, Close, End, Goto
<1>26. CASE SpeechFails(j)
  BY <1>26 DEF SpeechFails, Goto
<1>27. CASE Recognize(j)
  BY <1>27 DEF Recognize, Goto
<1>28. CASE NotHeard(j)
  BY <1>28 DEF NotHeard, Goto
<1>29. CASE LogFailure(j)
  BY <1>29 DEF LogFailure, Goto
<1>30. CASE CreateTranscription(j)
  BY <1>30 DEF CreateTranscription, Goto
<1>31. CASE Heard(j)
  BY <1>31 DEF Heard, Goto
<1>32. QED
  BY <1>1, <1>2, <1>3, <1>4, <1>5, <1>6, <1>7, <1>8, <1>9, <1>10, <1>11, <1>12,
     <1>13, <1>14, <1>15, <1>16, <1>17, <1>18, <1>19, <1>20, <1>21, <1>22, <1>23,
     <1>24, <1>25, <1>26, <1>27, <1>28, <1>29, <1>30, <1>31 DEF Step, Work, Answer

(***************************************************************************)
(* The temporary file                                                      *)
(***************************************************************************)
(* Nobody begins to use the temporary file, or to write it. *)
Shrinks ==
    /\ clean' => clean
    /\ tmp' \in {tmp, "none"}
    /\ \A k \in Jobs : pc'[k] \in Uses /\ path'[k] # None
                      => /\ pc[k] \in Uses /\ path[k] # None
                         /\ pc[k] = "ffmpeg" => pc'[k] = "ffmpeg"

(* Leaving the temporary file leaves at most one execution there,            *)
LEMMA ShrinksAlone ==
    ASSUME Alone, TmpIsWhole, Shrinks PROVE Alone' /\ TmpIsWhole'
BY DEF Alone, TmpIsWhole, Shrinks, Using

(* entering it makes the behaviour unclean if there is another.              *)
LEMMA StartFfmpegAlone ==
    ASSUME TypeOK, Alone, TmpIsWhole, NEW j \in Jobs, StartFfmpeg(j)
    PROVE  Alone' /\ TmpIsWhole'
<1>1. SUFFICES ASSUME clean' PROVE \A k \in Using' : k = j /\ pc'[k] = "ffmpeg"
  BY DEF Alone, TmpIsWhole
<1>2. Using = {}
  BY <1>1 DEF StartFfmpeg
<1>3. pc' = [pc EXCEPT ![j] = "ffmpeg"] /\ path' = [path EXCEPT ![j] = Tmp]
  BY DEF StartFfmpeg, Goto
<1>4. QED
  BY <1>2, <1>3 DEF Using, TypeOK

(* Another ffmpeg that is running is another user of the file. *)
LEMMA FinishFfmpegAlone ==
    ASSUME TypeOK, Locals, Alone, TmpIsWhole, NEW j \in Jobs, FinishFfmpeg(j)
    PROVE  Alone' /\ TmpIsWhole'
<1>1. clean' = clean /\ path' = path /\ pc[j] = "ffmpeg"
  BY DEF FinishFfmpeg, history, local
<1>2. pc' \in {[pc EXCEPT ![j] = "row"], [pc EXCEPT ![j] = "recognize"]}
  BY DEF FinishFfmpeg, Goto
<1>3. Using' \subseteq Using
  BY <1>1, <1>2 DEF Using, TypeOK, Uses
<1>4. Alone'
  BY <1>1, <1>3 DEF Alone
<1>5. ASSUME clean PROVE tmp' # "partial"
  <2>1. j \in Using
    BY <1>1 DEF Using, Uses, Locals, Holding
  <2>2. \A k \in Jobs \ {j} : pc[k] # "ffmpeg"
    BY <1>5, <2>1 DEF Using, Uses, Locals, Holding, Alone
  <2>3. QED
    BY <2>2 DEF FinishFfmpeg
<1>6. QED
  BY <1>1, <1>4, <1>5 DEF TmpIsWhole

(* So in a clean behaviour one execution is there.                           *)
LEMMA AloneStep ==
    ASSUME TypeOK, Locals, Alone, TmpIsWhole, NEW j \in Jobs, Step(j)
    PROVE  Alone' /\ TmpIsWhole'
<1> USE DEF around, others, jobrow, disk, rows, local, service, faults, history
<1>1. CASE Restart(j)
  BY <1>1, ShrinksAlone DEF Restart, Goto, Save, Shrinks, TypeOK, Locals, Before, Holding, Uses, Replacing
<1>2. CASE CancelRead(j)
  BY <1>2, ShrinksAlone DEF CancelRead, Shrinks, TypeOK, Locals, Before, Holding, Uses, Replacing
<1>3. CASE CancelClose(j)
  BY <1>3, ShrinksAlone DEF CancelClose, Close, Shrinks, TypeOK, Locals, Before, Holding, Uses, Replacing
<1>4. CASE CancelRevoke(j)
  BY <1>4, ShrinksAlone DEF CancelRevoke, End, Goto, Interrupted, Shrinks, TypeOK, Locals, Before, Holding, Uses, Replacing
<1>5. CASE CancelSave(j)
  BY <1>5, ShrinksAlone DEF CancelSave, Save, Shrinks, TypeOK, Locals, Before, Holding, Uses, Replacing
<1>6. CASE Crash(j)
  BY <1>6, ShrinksAlone DEF Crash, FailsNow, End, Goto, Interrupted, Shrinks, TypeOK, Locals, Before, Holding, Uses, Replacing
<1>7. CASE Recover(j)
  BY <1>7, ShrinksAlone DEF Recover, Close, Open, Goto, Shrinks, TypeOK, Locals, Before, Holding, Uses, Replacing
<1>8. CASE Claim(j)
  BY <1>8, ShrinksAlone DEF Claim, Goto, Shrinks, TypeOK, Locals, Before, Holding, Uses, Replacing
<1>9. CASE Start(j)
  BY <1>9, ShrinksAlone DEF Start, Open, Goto, Shrinks, TypeOK, Locals, Before, Holding, Uses, Replacing
<1>10. CASE KeepFormat(j)
  BY <1>10, ShrinksAlone DEF KeepFormat, Goto, Shrinks, TypeOK, Locals, Before, Holding, Uses, Replacing
<1>11. CASE StartFfmpeg(j)
  BY <1>11, StartFfmpegAlone
<1>12. CASE FinishFfmpeg(j)
  BY <1>12, FinishFfmpegAlone
<1>13. CASE ReuseRow(j)
  BY <1>13, ShrinksAlone DEF ReuseRow, Goto, Shrinks, TypeOK, Locals, Before, Holding, Uses, Replacing
<1>14. CASE CreateRow(j)
  BY <1>14, ShrinksAlone DEF CreateRow, Goto, Shrinks, TypeOK, Locals, Before, Holding, Uses, Replacing
<1>15. CASE ChoosePath(j)
  BY <1>15, ShrinksAlone DEF ChoosePath, Goto, Shrinks, TypeOK, Locals, Before, Holding, Uses, Replacing
<1>16. CASE Copy(j)
  BY <1>16, ShrinksAlone DEF Copy, Goto, Shrinks, TypeOK, Locals, Before, Holding, Uses, Replacing
<1>17. CASE CopyFails(j)
  BY <1>17, ShrinksAlone DEF CopyFails, FailsNow, Goto, Shrinks, TypeOK, Locals, Before, Holding, Uses, Replacing
<1>18. CASE SaveRow(j)
  BY <1>18, ShrinksAlone DEF SaveRow, Goto, Shrinks, TypeOK, Locals, Before, Holding, Uses, Replacing
<1>19. CASE Note(j)
  BY <1>19, ShrinksAlone DEF Note, Goto, Shrinks, TypeOK, Locals, Before, Holding, Uses, Replacing
<1>20. CASE BeginUpload(j)
  BY <1>20, ShrinksAlone DEF BeginUpload, Save, Goto, Shrinks, TypeOK, Locals, Before, Holding, Uses, Replacing
<1>21. CASE FinishUpload(j)
  BY <1>21, ShrinksAlone DEF FinishUpload, Goto, Shrinks, TypeOK, Locals, Before, Holding, Uses, Replacing
<1>22. CASE AfterUpload(j)
  BY <1>22, ShrinksAlone DEF AfterUpload, Goto, Save, Shrinks, TypeOK, Locals, Before, Holding, Uses, Replacing
<1>23. CASE UploadCancelled(j)
  BY <1>23, ShrinksAlone DEF UploadCancelled, Close, End, Goto, Shrinks, TypeOK, Locals, Before, Holding, Uses, Replacing
<1>24. CASE Fail(j)
  BY <1>24, ShrinksAlone DEF Fail, Interrupted, Goto, Shrinks, TypeOK, Locals, Before, Holding, Uses, Replacing
<1>25. CASE Report(j)
  BY <1>25, ShrinksAlone DEF Report, Close, End, Goto, Shrinks, TypeOK, Locals, Before, Holding, Uses, Replacing
<1>26. CASE SpeechFails(j)
  BY <1>26, ShrinksAlone DEF SpeechFails, Goto, Shrinks, TypeOK, Locals, Before, Holding, Uses, Replacing
<1>27. CASE Recognize(j)
  BY <1>27, ShrinksAlone DEF Recognize, Goto, Shrinks, TypeOK, Locals, Before, Holding, Uses, Replacing
<1>28. CASE NotHeard(j)
  BY <1>28, ShrinksAlone DEF NotHeard, Goto, Shrinks, TypeOK, Locals, Before, Holding, Uses, Replacing
<1>29. CASE LogFailure(j)
  BY <1>29, ShrinksAlone DEF LogFailure, Goto, Shrinks, TypeOK, Locals, Before, Holding, Uses, Replacing
<1>30. CASE CreateTranscription(j)
  BY <1>30, ShrinksAlone DEF CreateTranscription, Goto, Shrinks, TypeOK, Locals, Before, Holding, Uses, Replacing
<1>31. CASE Heard(j)
  BY <1>31, ShrinksAlone DEF Heard, Goto, Shrinks, TypeOK, Locals, Before, Holding, Uses, Replacing
<1>32. QED
  BY <1>1, <1>2, <1>3, <1>4, <1>5, <1>6, <1>7, <1>8, <1>9, <1>10, <1>11, <1>12,
     <1>13, <1>14, <1>15, <1>16, <1>17, <1>18, <1>19, <1>20, <1>21, <1>22, <1>23,
     <1>24, <1>25, <1>26, <1>27, <1>28, <1>29, <1>30, <1>31 DEF Step, Work, Answer

(* What is opened is not what ffmpeg is still writing. *)
LEMMA OpenedIsWhole ==
    ASSUME Alone, TmpIsWhole, NEW j \in Jobs, clean, pc[j] \in {"upload", "recognize"}
    PROVE  Opened(j) # "partial"
BY DEF Opened, TmpIsWhole, Using, Uses

(* Every step keeps the temporary file whole where it is read.               *)
LEMMA InputStep ==
    ASSUME TypeOK, Alone, TmpIsWhole, InputIsWhole, NEW j \in Jobs, Step(j)
    PROVE  InputIsWhole'
<1> USE DEF around, others, jobrow, disk, rows, local, service, faults, history
<1>1. CASE Restart(j)
  BY <1>1 DEF Restart, Goto, Save, InputIsWhole, TypeOK
<1>2. CASE CancelRead(j)
  BY <1>2 DEF CancelRead, InputIsWhole, TypeOK
<1>3. CASE CancelClose(j)
  BY <1>3 DEF CancelClose, Close, InputIsWhole, TypeOK
<1>4. CASE CancelRevoke(j)
  BY <1>4 DEF CancelRevoke, End, Goto, Interrupted, InputIsWhole, TypeOK
<1>5. CASE CancelSave(j)
  BY <1>5 DEF CancelSave, Save, InputIsWhole, TypeOK
<1>6. CASE Crash(j)
  BY <1>6 DEF Crash, FailsNow, End, Goto, Interrupted, InputIsWhole, TypeOK
<1>7. CASE Recover(j)
  BY <1>7 DEF Recover, Close, Open, Goto, InputIsWhole, TypeOK
<1>8. CASE Claim(j)
  BY <1>8 DEF Claim, Goto, InputIsWhole, TypeOK
<1>9. CASE Start(j)
  BY <1>9 DEF Start, Open, Goto, InputIsWhole, TypeOK
<1>10. CASE KeepFormat(j)
  BY <1>10 DEF KeepFormat, Goto, InputIsWhole, TypeOK
<1>11. CASE StartFfmpeg(j)
  BY <1>11 DEF StartFfmpeg, InputIsWhole, Using, Uses, TypeOK
<1>12. CASE FinishFfmpeg(j)
  BY <1>12 DEF FinishFfmpeg, Goto, Save, InputIsWhole, TypeOK
<1>13. CASE ReuseRow(j)
  BY <1>13 DEF ReuseRow, Goto, InputIsWhole, TypeOK
<1>14. CASE CreateRow(j)
  BY <1>14 DEF CreateRow, Goto, InputIsWhole, TypeOK
<1>15. CASE ChoosePath(j)
  BY <1>15 DEF ChoosePath, Goto, InputIsWhole, TypeOK
<1>16. CASE Copy(j)
  BY <1>16 DEF Copy, Goto, InputIsWhole, TypeOK
<1>17. CASE CopyFails(j)
  BY <1>17 DEF CopyFails, FailsNow, Goto, InputIsWhole, TypeOK
<1>18. CASE SaveRow(j)
  BY <1>18 DEF SaveRow, Goto, InputIsWhole, TypeOK
<1>19. CASE Note(j)
  BY <1>19 DEF Note, Goto, InputIsWhole, TypeOK
<1>20. CASE BeginUpload(j)
  <2>1. clean' => Opened(j) # "partial"
    BY <1>20, OpenedIsWhole DEF BeginUpload
  <2>2. QED
    BY <1>20, <2>1 DEF BeginUpload, InputIsWhole, TypeOK
<1>21. CASE FinishUpload(j)
  BY <1>21 DEF FinishUpload, Goto, InputIsWhole, TypeOK
<1>22. CASE AfterUpload(j)
  BY <1>22 DEF AfterUpload, Goto, Save, InputIsWhole, TypeOK
<1>23. CASE UploadCancelled(j)
  BY <1>23 DEF UploadCancelled, Close, End, Goto, InputIsWhole, TypeOK
<1>24. CASE Fail(j)
  BY <1>24 DEF Fail, Interrupted, Goto, InputIsWhole, TypeOK
<1>25. CASE Report(j)
  BY <1>25 DEF Report, Close, End, Goto, InputIsWhole, TypeOK
<1>26. CASE SpeechFails(j)
  BY <1>26 DEF SpeechFails, Goto, InputIsWhole, TypeOK
<1>27. CASE Recognize(j)
  <2>1. clean' => Opened(j) # "partial"
    BY <1>27, OpenedIsWhole DEF Recognize
  <2>2. QED
    BY <1>27, <2>1 DEF Recognize, InputIsWhole, TypeOK
<1>28. CASE NotHeard(j)
  BY <1>28 DEF NotHeard, Goto, InputIsWhole, TypeOK
<1>29. CASE LogFailure(j)
  BY <1>29 DEF LogFailure, Goto, InputIsWhole, TypeOK
<1>30. CASE CreateTranscription(j)
  BY <1>30 DEF CreateTranscription, Goto, InputIsWhole, TypeOK
<1>31. CASE Heard(j)
  BY <1>31 DEF Heard, Goto, InputIsWhole, TypeOK
<1>32. QED
  BY <1>1, <1>2, <1>3, <1>4, <1>5, <1>6, <1>7, <1>8, <1>9, <1>10, <1>11, <1>12,
     <1>13, <1>14, <1>15, <1>16, <1>17, <1>18, <1>19, <1>20, <1>21, <1>22, <1>23,
     <1>24, <1>25, <1>26, <1>27, <1>28, <1>29, <1>30, <1>31 DEF Step, Work, Answer

(***************************************************************************)
(* Transcriptions                                                          *)
(***************************************************************************)
LEMMA PostedStep ==
    ASSUME TypeOK, Locals, Posted, NEW j \in Jobs, Step(j) PROVE Posted'
<1> USE DEF Posted, Posting, TypeOK, around, others, jobrow, disk, rows, local, service, faults, history
<1>1. CASE Restart(j)
  BY <1>1 DEF Restart, Goto, Save, Locals
<1>2. CASE CancelRead(j)
  BY <1>2 DEF CancelRead, Locals
<1>3. CASE CancelClose(j)
  BY <1>3 DEF CancelClose, Close, Locals
<1>4. CASE CancelRevoke(j)
  BY <1>4 DEF CancelRevoke, End, Goto, Interrupted, Locals
<1>5. CASE CancelSave(j)
  BY <1>5 DEF CancelSave, Save, Locals
<1>6. CASE Crash(j)
  BY <1>6 DEF Crash, FailsNow, End, Goto, Interrupted, Locals
<1>7. CASE Recover(j)
  BY <1>7 DEF Recover, Close, Open, Goto, Locals
<1>8. CASE Claim(j)
  BY <1>8 DEF Claim, Goto, Locals
<1>9. CASE Start(j)
  BY <1>9 DEF Start, Open, Goto, Locals
<1>10. CASE KeepFormat(j)
  BY <1>10 DEF KeepFormat, Goto, Locals
<1>11. CASE StartFfmpeg(j)
  BY <1>11 DEF StartFfmpeg, Goto, Locals
<1>12. CASE FinishFfmpeg(j)
  BY <1>12 DEF FinishFfmpeg, Goto, Save, Locals
<1>13. CASE ReuseRow(j)
  BY <1>13 DEF ReuseRow, Goto, Locals
<1>14. CASE CreateRow(j)
  BY <1>14 DEF CreateRow, Goto, Locals
<1>15. CASE ChoosePath(j)
  BY <1>15 DEF ChoosePath, Goto, Locals
<1>16. CASE Copy(j)
  BY <1>16 DEF Copy, Goto, Locals
<1>17. CASE CopyFails(j)
  BY <1>17 DEF CopyFails, FailsNow, Goto, Locals
<1>18. CASE SaveRow(j)
  BY <1>18 DEF SaveRow, Goto, Locals
<1>19. CASE Note(j)
  BY <1>19 DEF Note, Goto, Locals
<1>20. CASE BeginUpload(j)
  BY <1>20 DEF BeginUpload, Save, Goto, Locals
<1>21. CASE FinishUpload(j)
  BY <1>21 DEF FinishUpload, Goto, Locals
<1>22. CASE AfterUpload(j)
  BY <1>22 DEF AfterUpload, Goto, Save, Locals
<1>23. CASE UploadCancelled(j)
  BY <1>23 DEF UploadCancelled, Close, End, Goto, Locals
<1>24. CASE Fail(j)
  BY <1>24 DEF Fail, Interrupted, Goto, Locals
<1>25. CASE Report(j)
  BY <1>25 DEF Report, Close, End, Goto, Locals
<1>26. CASE SpeechFails(j)
  BY <1>26 DEF SpeechFails, Goto, Locals
<1>27. CASE Recognize(j)
  BY <1>27 DEF Recognize, Goto, Locals
<1>28. CASE NotHeard(j)
  BY <1>28 DEF NotHeard, Goto, Locals
<1>29. CASE LogFailure(j)
  BY <1>29 DEF LogFailure, Goto, Locals
<1>30. CASE CreateTranscription(j)
  BY <1>30 DEF CreateTranscription, Goto, Locals
<1>31. CASE Heard(j)
  BY <1>31 DEF Heard, Goto, Locals
<1>32. QED
  BY <1>1, <1>2, <1>3, <1>4, <1>5, <1>6, <1>7, <1>8, <1>9, <1>10, <1>11, <1>12,
     <1>13, <1>14, <1>15, <1>16, <1>17, <1>18, <1>19, <1>20, <1>21, <1>22, <1>23,
     <1>24, <1>25, <1>26, <1>27, <1>28, <1>29, <1>30, <1>31 DEF Step, Work, Answer

(***************************************************************************)
(* The converted files                                                     *)
(***************************************************************************)
(* No file is touched, and nobody begins to replace or to keep one. *)
Quiet ==
    /\ audio' = audio /\ file' = file /\ UNCHANGED others /\ (clean' => clean)
    /\ clean' => \A k \in Jobs :
         /\ pc[k] \in Replacing
            => pc'[k] = pc[k] /\ mine'[k] = mine[k] /\ path'[k] = path[k]
         /\ pc'[k] \in Replacing => pc[k] \in Replacing
         /\ pc'[k] \in KeptAt /\ mine'[k] # None
            => pc[k] \in KeptAt /\ mine'[k] = mine[k]

(* Steps that touch no file keep what rows and files hold;                   *)
LEMMA QuietFiles == ASSUME TypeOK, FilesOK, Quiet PROVE FilesOK'
<1>1. Replaces'
  BY DEF FilesOK, Replaces, Quiet
<1>2. Present'
  BY DEF FilesOK, Present, Quiet
<1>3. Keeps'
  BY DEF FilesOK, Keeps, Quiet
<1>4. FilesAreDistinct'
  BY DEF FilesOK, FilesAreDistinct, Quiet, others
<1>5. RivalsApart'
  BY DEF FilesOK, RivalsApart, Quiet, others
<1>6. QED
  BY <1>1, <1>2, <1>3, <1>4, <1>5 DEF FilesOK

(* While one execution replaces a file, no other one does. *)
LEMMA OneReplaces ==
    ASSUME TypeOK, Locals, Alone, clean, NEW j \in Jobs, pc[j] \in Holding
    PROVE  \A k \in Jobs : pc[k] \in Replacing => k = j
BY DEF Locals, Alone, Using, Uses, Holding, Replacing

(* The first free name is that of no row: its file would be there. *)
LEMMA FreshName ==
    ASSUME TypeOK, Locals, Alone, FilesOK, clean, NEW j \in Jobs, pc[j] = "name",
           NEW name \in Names(j), name # Tmp
    PROVE  name \in Versions /\ \A r \in Rows : file[r] = name => r = mine[j]
<1> USE DEF FirstFree
<1>1. CASE mine[j] # None /\ file[mine[j]] # None
  BY <1>1, AudioAssumption DEF Names, TypeOK, FilesOK, FilesAreDistinct
<1>2. CASE ~(mine[j] # None /\ file[mine[j]] # None)
  <2>1. name \in Versions /\ audio[name] = "none"
    BY <1>2 DEF Names
  <2>2. \A k \in Jobs : pc[k] \notin Replacing
    BY OneReplaces DEF Holding, Replacing
  <2>3. QED
    BY <2>1, <2>2 DEF FilesOK, Present
<1>3. QED
  BY <1>1, <1>2

(* Nor is it that of a row of another source.                                *)
LEMMA FreshToRivals ==
    ASSUME TypeOK, FilesOK, clean, rival = None, NEW j \in Jobs,
           NEW name \in Names(j), name # Tmp
    PROVE  name \notin taken
<1>1. CASE mine[j] # None /\ file[mine[j]] # None
  BY <1>1 DEF Names, TypeOK, FilesOK, FilesAreDistinct
<1>2. CASE ~(mine[j] # None /\ file[mine[j]] # None)
  <2>1. name \in Versions /\ audio[name] = "none"
    BY <1>2 DEF Names, FirstFree
  <2>2. QED
    BY <2>1, AudioAssumption DEF FilesOK, RivalsApart
<1>3. QED
  BY <1>1, <1>2

(* choosing the name of the file,                                            *)
LEMMA ChoosePathFiles ==
    ASSUME TypeOK, Owned, Locals, Alone, FilesOK, NEW j \in Jobs, ChoosePath(j)
    PROVE  FilesOK'
<1>1. PICK name \in Names(j) :
        /\ path' = [path EXCEPT ![j] = name]
        /\ IF name = Tmp THEN audio' = audio
                         ELSE audio' = [audio EXCEPT ![name] = "none"]
  BY DEF ChoosePath
<1>2. /\ pc[j] = "name" /\ pc' = [pc EXCEPT ![j] = "copy"]
      /\ file' = file /\ mine' = mine /\ clean' = (clean /\ rival = None) /\ owner' = owner
      /\ rival' = rival /\ taken' = taken
  BY DEF ChoosePath, Goto, rows, around, others
<1>3. SUFFICES ASSUME clean, rival = None PROVE FilesOK'
  BY <1>2 DEF FilesOK, Replaces, Present, Keeps, FilesAreDistinct, RivalsApart
<1>4. name # Tmp => name \in Versions /\ \A r \in Rows : file[r] = name => r = mine[j]
  BY <1>2, <1>3, FreshName
<1>5. \A k \in Jobs : pc'[k] \in Replacing => k = j
  BY <1>2, <1>3, OneReplaces DEF Holding, TypeOK
<1>6. Replaces'
  BY <1>1, <1>2, <1>4, <1>5 DEF Replaces, TypeOK
<1>7. Present'
  <2>1. SUFFICES ASSUME NEW r \in Rows, file[r] \in Versions, audio'[file[r]] = "none"
                 PROVE  \E k \in Jobs : pc'[k] \in Replacing /\ mine'[k] = r
    BY <1>2 DEF Present
  <2>2. CASE audio[file[r]] = "none"
    BY <2>1, <2>2, <1>2, <1>3, OneReplaces DEF FilesOK, Present, Holding, Replacing
  <2>3. CASE audio[file[r]] # "none"
    <3>1. name # Tmp /\ file[r] = name
      BY <1>1, <2>1, <2>3 DEF TypeOK
    <3>2. mine'[j] = r /\ pc'[j] = "copy"
      BY <3>1, <1>2, <1>4 DEF TypeOK
    <3>3. QED
      BY <3>2 DEF Replacing
  <2>4. QED
    BY <2>2, <2>3
<1>8. Keeps'
  <2>1. SUFFICES ASSUME NEW k \in Jobs, mine[k] # None, pc'[k] \in KeptAt, file[mine[k]] # Tmp
                 PROVE  file[mine[k]] # None /\ audio'[file[mine[k]]] = "whole"
    BY <1>2 DEF Keeps
  <2>2. k # j /\ pc[k] \in KeptAt
    BY <2>1, <1>2 DEF KeptAt, TypeOK
  <2>3. mine[k] # mine[j]
    BY <2>1, <2>2 DEF Owned
  <2>4. file[mine[k]] # None /\ audio[file[mine[k]]] = "whole"
    BY <1>3, <2>1, <2>2 DEF FilesOK, Keeps
  <2>5. name = Tmp \/ file[mine[k]] # name
    BY <1>4, <2>1, <2>3 DEF TypeOK
  <2>6. file[mine[k]] \in Versions
    BY <2>1, <2>4 DEF TypeOK
  <2>7. QED
    BY <1>1, <2>4, <2>5, <2>6 DEF TypeOK
<1>9. FilesAreDistinct'
  BY <1>2, <1>3 DEF FilesOK, FilesAreDistinct
<1>10. RivalsApart'
  <2>1. name # Tmp => name \notin taken
    BY <1>3, FreshToRivals
  <2>2. \A v \in taken : audio'[v] # "none"
    BY <1>1, <1>3, <2>1, AudioAssumption DEF FilesOK, RivalsApart, TypeOK
  <2>3. path'[j] = name
    BY <1>1 DEF TypeOK
  <2>4. QED
    BY <1>2, <1>3, <1>5, <2>1, <2>2, <2>3 DEF RivalsApart
<1>11. QED
  BY <1>6, <1>7, <1>8, <1>9, <1>10 DEF FilesOK

(* The file of a row that some other job keeps is not being replaced. *)
LEMMA KeptApart ==
    ASSUME TypeOK, Owned, FilesOK, clean, NEW j \in Jobs, pc[j] \in Replacing, path[j] # Tmp,
           NEW k \in Jobs, mine[k] # None, k # j
    PROVE  file[mine[k]] # path[j]
<1>1. mine[k] # mine[j] /\ mine[k] \in Rows
  BY DEF Owned, TypeOK
<1>2. QED
  BY <1>1 DEF FilesOK, Replaces

(* copying to it,                                                            *)
LEMMA CopyFiles ==
    ASSUME TypeOK, Owned, Locals, Alone, TmpIsWhole, FilesOK, NEW j \in Jobs, Copy(j)
    PROVE  FilesOK'
<1>1. /\ pc[j] = "copy" /\ pc' = [pc EXCEPT ![j] = "save"]
      /\ path[j] # Tmp /\ tmp # "none" /\ audio' = [audio EXCEPT ![path[j]] = tmp]
      /\ file' = file /\ mine' = mine /\ clean' = clean /\ path' = path
      /\ rival' = rival /\ taken' = taken
  BY DEF Copy, Goto, rows, history, local, around, others
<1>2. SUFFICES ASSUME clean PROVE FilesOK'
  BY <1>1 DEF FilesOK, Replaces, Present, Keeps, FilesAreDistinct, RivalsApart
<1>3. path[j] # None /\ path[j] \in Versions
  BY <1>1 DEF Locals, Holding, Replacing, TypeOK
<1>4. j \in Using
  BY <1>1, <1>3 DEF Using, Uses, Replacing
<1>5. tmp = "whole"
  BY <1>1, <1>2, <1>4 DEF TmpIsWhole, TypeOK, Contents
<1>6. \A k \in Jobs : pc'[k] \in Replacing => k = j
  BY <1>1, <1>2, OneReplaces DEF Holding, Replacing, TypeOK
<1>7. Replaces'
  <2>1. \A r \in Rows : file[r] = path[j] => r = mine[j]
    BY <1>1, <1>2 DEF FilesOK, Replaces, Replacing
  <2>2. audio'[path[j]] = "whole"
    BY <1>1, <1>3, <1>5 DEF TypeOK
  <2>3. QED
    BY <1>1, <1>6, <2>1, <2>2 DEF Replaces
<1>8. Present'
  <2>1. SUFFICES ASSUME NEW r \in Rows, file[r] \in Versions, audio'[file[r]] = "none"
                 PROVE  \E k \in Jobs : pc'[k] \in Replacing /\ mine'[k] = r
    BY <1>1 DEF Present
  <2>2. audio[file[r]] = "none"
    BY <1>1, <1>5, <2>1 DEF TypeOK
  <2>3. PICK k \in Jobs : pc[k] \in Replacing /\ mine[k] = r
    BY <1>2, <2>1, <2>2 DEF FilesOK, Present
  <2>4. QED
    BY <1>1, <2>3 DEF Replacing, TypeOK
<1>9. Keeps'
  <2>1. SUFFICES ASSUME NEW k \in Jobs, mine[k] # None, pc'[k] \in KeptAt, file[mine[k]] # Tmp
                 PROVE  file[mine[k]] # None /\ audio'[file[mine[k]]] = "whole"
    BY <1>1 DEF Keeps
  <2>2. k # j /\ pc[k] \in KeptAt
    BY <2>1, <1>1 DEF KeptAt, TypeOK
  <2>3. file[mine[k]] # None /\ audio[file[mine[k]]] = "whole"
    BY <1>2, <2>1, <2>2 DEF FilesOK, Keeps
  <2>4. file[mine[k]] # path[j]
    BY <1>1, <1>2, <2>1, <2>2, KeptApart DEF Replacing
  <2>5. QED
    BY <1>1, <2>3, <2>4 DEF TypeOK
<1>10. FilesAreDistinct'
  BY <1>1 DEF FilesOK, FilesAreDistinct
<1>11. RivalsApart'
  <2>1. rival = None /\ path[j] \notin taken
    BY <1>1, <1>2 DEF FilesOK, RivalsApart, Replacing
  <2>2. \A v \in taken : audio'[v] # "none"
    BY <1>1, <1>2, <1>5, <2>1, AudioAssumption DEF FilesOK, RivalsApart, TypeOK
  <2>3. QED
    BY <1>1, <1>6, <2>1, <2>2 DEF RivalsApart
<1>12. QED
  BY <1>7, <1>8, <1>9, <1>10, <1>11 DEF FilesOK

(* failing to,                                                               *)
LEMMA CopyFailsFiles ==
    ASSUME TypeOK, Owned, Locals, Alone, FilesOK, NEW j \in Jobs, CopyFails(j)
    PROVE  FilesOK'
<1>1. /\ pc[j] = "copy" /\ pc' = [pc EXCEPT ![j] = "save"]
      /\ path' = [path EXCEPT ![j] = Tmp]
      /\ file' = file /\ mine' = mine /\ clean' = clean
      /\ rival' = rival /\ taken' = taken
  BY DEF CopyFails, Goto, rows, history, service, around, others
<1>2. audio' = audio \/ (path[j] # Tmp /\ audio' = [audio EXCEPT ![path[j]] = "partial"])
  BY DEF CopyFails
<1>3. SUFFICES ASSUME clean PROVE FilesOK'
  BY <1>1 DEF FilesOK, Replaces, Present, Keeps, FilesAreDistinct, RivalsApart
<1>4. \A k \in Jobs : pc'[k] \in Replacing => k = j
  BY <1>1, <1>3, OneReplaces DEF Holding, Replacing, TypeOK
<1>5. Replaces'
  BY <1>1, <1>4 DEF Replaces, TypeOK
<1>6. Present'
  <2>1. SUFFICES ASSUME NEW r \in Rows, file[r] \in Versions, audio'[file[r]] = "none"
                 PROVE  \E k \in Jobs : pc'[k] \in Replacing /\ mine'[k] = r
    BY <1>1 DEF Present
  <2>2. audio[file[r]] = "none"
    BY <1>2, <2>1 DEF TypeOK
  <2>3. PICK k \in Jobs : pc[k] \in Replacing /\ mine[k] = r
    BY <1>3, <2>1, <2>2 DEF FilesOK, Present
  <2>4. QED
    BY <1>1, <2>3 DEF Replacing, TypeOK
<1>7. Keeps'
  <2>1. SUFFICES ASSUME NEW k \in Jobs, mine[k] # None, pc'[k] \in KeptAt, file[mine[k]] # Tmp
                 PROVE  file[mine[k]] # None /\ audio'[file[mine[k]]] = "whole"
    BY <1>1 DEF Keeps
  <2>2. k # j /\ pc[k] \in KeptAt
    BY <2>1, <1>1 DEF KeptAt, TypeOK
  <2>3. file[mine[k]] # None /\ audio[file[mine[k]]] = "whole"
    BY <1>3, <2>1, <2>2 DEF FilesOK, Keeps
  <2>4. path[j] # Tmp => file[mine[k]] # path[j]
    BY <1>1, <1>3, <2>1, <2>2, KeptApart DEF Replacing
  <2>5. file[mine[k]] \in Versions
    BY <2>1, <2>3 DEF TypeOK
  <2>6. QED
    BY <1>2, <2>3, <2>4, <2>5 DEF TypeOK
<1>8. FilesAreDistinct'
  BY <1>1 DEF FilesOK, FilesAreDistinct
<1>9. RivalsApart'
  <2>1. rival = None
    BY <1>1, <1>3 DEF FilesOK, RivalsApart, Replacing
  <2>2. \A v \in taken : audio'[v] # "none"
    BY <1>2, <1>3, <2>1, AudioAssumption DEF FilesOK, RivalsApart, TypeOK
  <2>3. path'[j] = Tmp
    BY <1>1 DEF TypeOK
  <2>4. QED
    BY <1>1, <1>4, <2>1, <2>2, <2>3 DEF RivalsApart
<1>10. QED
  BY <1>5, <1>6, <1>7, <1>8, <1>9 DEF FilesOK

(* saving the row,                                                           *)
LEMMA SaveRowFiles ==
    ASSUME TypeOK, Owned, Locals, Alone, FilesOK, NEW j \in Jobs, SaveRow(j)
    PROVE  FilesOK'
<1>1. /\ pc[j] = "save" /\ pc' = [pc EXCEPT ![j] = "note"]
      /\ path' = path /\ audio' = audio /\ mine' = mine /\ clean' = clean
      /\ IF path[j] = Tmp THEN tmp # "none" ELSE audio[path[j]] # "none"
      /\ file' = IF mine[j] = None THEN file ELSE [file EXCEPT ![mine[j]] = path[j]]
      /\ rival' = rival /\ taken' = taken
  BY DEF SaveRow, Goto, disk, history, local, around, others
<1>2. SUFFICES ASSUME clean PROVE FilesOK'
  BY <1>1 DEF FilesOK, Replaces, Present, Keeps, FilesAreDistinct, RivalsApart
<1>3. path[j] # None /\ path[j] \in Versions \cup {Tmp}
  BY <1>1 DEF Locals, Holding, Replacing, TypeOK
<1>4. \A k \in Jobs : pc[k] \in Replacing => k = j
  BY <1>1, <1>2, OneReplaces DEF Holding, Replacing
<1>5. \A k \in Jobs : pc'[k] \notin Replacing
  BY <1>1, <1>4 DEF Replacing, TypeOK
<1>6. path[j] # Tmp => /\ \A r \in Rows : file[r] = path[j] => r = mine[j]
                       /\ audio[path[j]] = "whole"
  BY <1>1, <1>2 DEF FilesOK, Replaces, Replacing
<1>7. mine[j] # None => mine[j] \in Rows
  BY DEF TypeOK
<1>8. Replaces'
  BY <1>5 DEF Replaces
<1>9. Present'
  <2>1. SUFFICES ASSUME NEW r \in Rows, file'[r] \in Versions PROVE audio[file'[r]] # "none"
    BY <1>1 DEF Present
  <2>2. CASE r = mine[j]
    <3>1. file'[r] = path[j] /\ path[j] # Tmp
      BY <1>1, <1>7, <2>1, <2>2, AudioAssumption DEF TypeOK
    <3>2. QED
      BY <1>6, <3>1
  <2>3. CASE r # mine[j]
    <3>1. file'[r] = file[r]
      BY <1>1, <1>7, <2>3 DEF TypeOK
    <3>2. QED
      BY <1>2, <1>4, <2>1, <2>3, <3>1 DEF FilesOK, Present
  <2>4. QED
    BY <2>2, <2>3
<1>10. Keeps'
  <2>1. SUFFICES ASSUME NEW k \in Jobs, mine[k] # None, pc'[k] \in KeptAt, file'[mine[k]] # Tmp
                 PROVE  file'[mine[k]] # None /\ audio[file'[mine[k]]] = "whole"
    BY <1>1 DEF Keeps
  <2>2. CASE k = j
    <3>1. file'[mine[k]] = path[j]
      BY <1>1, <1>7, <2>1, <2>2 DEF TypeOK
    <3>2. QED
      BY <1>3, <1>6, <2>1, <3>1
  <2>3. CASE k # j
    <3>1. mine[k] # mine[j] /\ mine[k] \in Rows
      BY <2>1, <2>3 DEF Owned, TypeOK
    <3>2. file'[mine[k]] = file[mine[k]] /\ pc[k] = pc'[k]
      BY <1>1, <1>7, <2>3, <3>1 DEF TypeOK
    <3>3. QED
      BY <1>2, <2>1, <3>2 DEF FilesOK, Keeps
  <2>4. QED
    BY <2>2, <2>3
<1>11. \A q \in Rows : file'[q] = IF q = mine[j] THEN path[j] ELSE file[q]
  BY <1>1, <1>7, AudioAssumption DEF TypeOK
<1>12. path[j] \notin taken /\ rival = None
  BY <1>1, <1>2, AudioAssumption DEF FilesOK, RivalsApart, Replacing, TypeOK
<1>13. FilesAreDistinct'
  <2>1. ASSUME NEW r \in Rows, NEW s \in Rows, r # s, file'[r] = file'[s]
        PROVE  file'[r] \in {Tmp, None}
    <3>1. CASE r = mine[j] \/ s = mine[j]
      BY <1>6, <1>11, <2>1, <3>1
    <3>2. CASE r # mine[j] /\ s # mine[j]
      BY <1>2, <1>11, <2>1, <3>2 DEF FilesOK, FilesAreDistinct
    <3>3. QED
      BY <3>1, <3>2
  <2>2. \A r \in Rows : file'[r] \notin taken'
    BY <1>1, <1>2, <1>11, <1>12 DEF FilesOK, FilesAreDistinct
  <2>3. QED
    BY <2>1, <2>2 DEF FilesAreDistinct
<1>14. RivalsApart'
  BY <1>1, <1>2, <1>5, <1>12 DEF FilesOK, RivalsApart
<1>15. QED
  BY <1>8, <1>9, <1>10, <1>13, <1>14 DEF FilesOK

(* and so every step.                                                        *)
LEMMA FilesStep ==
    ASSUME TypeOK, Owned, Locals, Alone, TmpIsWhole, FilesOK, NEW j \in Jobs, Step(j)
    PROVE  FilesOK'
<1> USE DEF around, others, jobrow, disk, rows, local, service, faults, history
<1>1. CASE Restart(j)
  BY <1>1, QuietFiles DEF Restart, Goto, Save, Quiet, TypeOK, Locals, Before, Replacing, KeptAt
<1>2. CASE CancelRead(j)
  BY <1>2, QuietFiles DEF CancelRead, Quiet, TypeOK, Locals, Before, Replacing, KeptAt
<1>3. CASE CancelClose(j)
  BY <1>3, QuietFiles DEF CancelClose, Close, Quiet, TypeOK, Locals, Before, Replacing, KeptAt
<1>4. CASE CancelRevoke(j)
  <2>1. CASE End(j, "dead") /\ Interrupted(j)
    BY <1>4, <2>1, QuietFiles DEF CancelRevoke, End, Goto, Interrupted, Quiet, TypeOK, Replacing, KeptAt
  <2>2. CASE UNCHANGED <<pc, local, history>>
    BY <1>4, <2>2, QuietFiles DEF CancelRevoke, Quiet
  <2>3. QED
    BY <1>4, <2>1, <2>2 DEF CancelRevoke
<1>5. CASE CancelSave(j)
  BY <1>5, QuietFiles DEF CancelSave, Save, Quiet, TypeOK, Locals, Before, Replacing, KeptAt
<1>6. CASE Crash(j)
  BY <1>6, QuietFiles DEF Crash, FailsNow, End, Goto, Interrupted, Quiet, TypeOK, Locals, Before, Replacing, KeptAt
<1>7. CASE Recover(j)
  BY <1>7, QuietFiles DEF Recover, Close, Open, Goto, Quiet, TypeOK, Locals, Before, Replacing, KeptAt
<1>8. CASE Claim(j)
  BY <1>8, QuietFiles DEF Claim, Goto, Quiet, TypeOK, Locals, Before, Replacing, KeptAt
<1>9. CASE Start(j)
  BY <1>9, QuietFiles DEF Start, Open, Goto, Quiet, TypeOK, Locals, Before, Replacing, KeptAt
<1>10. CASE KeepFormat(j)
  BY <1>10, QuietFiles DEF KeepFormat, Goto, Quiet, TypeOK, Locals, Before, Replacing, KeptAt
<1>11. CASE StartFfmpeg(j)
  BY <1>11, QuietFiles DEF StartFfmpeg, Goto, Quiet, TypeOK, Locals, Before, Replacing, KeptAt
<1>12. CASE FinishFfmpeg(j)
  BY <1>12, QuietFiles DEF FinishFfmpeg, Goto, Save, Quiet, TypeOK, Locals, Before, Replacing, KeptAt
<1>13. CASE ReuseRow(j)
  BY <1>13, QuietFiles DEF ReuseRow, Goto, Quiet, TypeOK, Locals, Before, Replacing, KeptAt
<1>14. CASE CreateRow(j)
  BY <1>14, QuietFiles DEF CreateRow, Goto, Quiet, TypeOK, Locals, Before, Replacing, KeptAt
<1>15. CASE ChoosePath(j)
  BY <1>15, ChoosePathFiles
<1>16. CASE Copy(j)
  BY <1>16, CopyFiles
<1>17. CASE CopyFails(j)
  BY <1>17, CopyFailsFiles
<1>18. CASE SaveRow(j)
  BY <1>18, SaveRowFiles
<1>19. CASE Note(j)
  BY <1>19, QuietFiles DEF Note, Goto, Quiet, TypeOK, Locals, Before, Replacing, KeptAt
<1>20. CASE BeginUpload(j)
  BY <1>20, QuietFiles DEF BeginUpload, Save, Goto, Quiet, TypeOK, Locals, Before, Replacing, KeptAt
<1>21. CASE FinishUpload(j)
  BY <1>21, QuietFiles DEF FinishUpload, Goto, Quiet, TypeOK, Locals, Before, Replacing, KeptAt
<1>22. CASE AfterUpload(j)
  BY <1>22, QuietFiles DEF AfterUpload, Goto, Save, Quiet, TypeOK, Locals, Before, Replacing, KeptAt
<1>23. CASE UploadCancelled(j)
  BY <1>23, QuietFiles DEF UploadCancelled, Close, End, Goto, Quiet, TypeOK, Locals, Before, Replacing, KeptAt
<1>24. CASE Fail(j)
  BY <1>24, QuietFiles DEF Fail, Interrupted, Goto, Quiet, TypeOK, Locals, Before, Replacing, KeptAt
<1>25. CASE Report(j)
  BY <1>25, QuietFiles DEF Report, Close, End, Goto, Quiet, TypeOK, Locals, Before, Replacing, KeptAt
<1>26. CASE SpeechFails(j)
  BY <1>26, QuietFiles DEF SpeechFails, Goto, Quiet, TypeOK, Locals, Before, Replacing, KeptAt
<1>27. CASE Recognize(j)
  BY <1>27, QuietFiles DEF Recognize, Goto, Quiet, TypeOK, Locals, Before, Replacing, KeptAt
<1>28. CASE NotHeard(j)
  BY <1>28, QuietFiles DEF NotHeard, Goto, Quiet, TypeOK, Locals, Before, Replacing, KeptAt
<1>29. CASE LogFailure(j)
  BY <1>29, QuietFiles DEF LogFailure, Goto, Quiet, TypeOK, Locals, Before, Replacing, KeptAt
<1>30. CASE CreateTranscription(j)
  BY <1>30, QuietFiles DEF CreateTranscription, Goto, Quiet, TypeOK, Locals, Before, Replacing, KeptAt
<1>31. CASE Heard(j)
  BY <1>31, QuietFiles DEF Heard, Goto, Quiet, TypeOK, Locals, Before, Replacing, KeptAt
<1>32. QED
  BY <1>1, <1>2, <1>3, <1>4, <1>5, <1>6, <1>7, <1>8, <1>9, <1>10, <1>11, <1>12,
     <1>13, <1>14, <1>15, <1>16, <1>17, <1>18, <1>19, <1>20, <1>21, <1>22, <1>23,
     <1>24, <1>25, <1>26, <1>27, <1>28, <1>29, <1>30, <1>31 DEF Step, Work, Answer

(* Where the conversions of other sources write, no row here has its file:   *)
(* choosing a name,                                                          *)
LEMMA RivalChoosesFiles ==
    ASSUME TypeOK, FilesOK, RivalChooses PROVE FilesOK'
<1>1. PICK v \in Versions : /\ v \in taken \/ audio[v] = "none"
                            /\ rival' = v
                            /\ audio' = [audio EXCEPT ![v] = "none"]
  BY DEF RivalChooses, FirstFree
<1>2. /\ clean' = (clean /\ \A j \in Jobs : pc[j] \notin Replacing)
      /\ pc' = pc /\ file' = file /\ mine' = mine /\ path' = path /\ taken' = taken
      /\ rival = None
  BY DEF RivalChooses, rows, local
<1>3. SUFFICES ASSUME clean, \A j \in Jobs : pc[j] \notin Replacing PROVE FilesOK'
  BY <1>2 DEF FilesOK, Replaces, Present, Keeps, FilesAreDistinct, RivalsApart
<1>4. \A r \in Rows : file[r] \in Versions => audio[file[r]] # "none"
  BY <1>3 DEF FilesOK, Present
<1>5. \A r \in Rows : file[r] # v
  BY <1>1, <1>3, <1>4 DEF FilesOK, FilesAreDistinct
<1>6. \A r \in Rows : file[r] \in Versions => audio'[file[r]] = audio[file[r]]
  BY <1>1, <1>5 DEF TypeOK
<1>7. Replaces' /\ FilesAreDistinct'
  BY <1>2, <1>3 DEF FilesOK, Replaces, FilesAreDistinct
<1>8. Present'
  BY <1>2, <1>4, <1>6 DEF Present
<1>9. Keeps'
  <2> SUFFICES ASSUME NEW k \in Jobs, mine[k] # None, pc[k] \in KeptAt, file[mine[k]] # Tmp
               PROVE  file[mine[k]] # None /\ audio'[file[mine[k]]] = "whole"
    BY <1>2 DEF Keeps
  <2>1. file[mine[k]] # None /\ audio[file[mine[k]]] = "whole" /\ mine[k] \in Rows
    BY <1>3 DEF FilesOK, Keeps, TypeOK
  <2>2. QED
    BY <1>6, <2>1 DEF TypeOK
<1>10. RivalsApart'
  BY <1>1, <1>2, <1>3, <1>5, AudioAssumption DEF FilesOK, RivalsApart, TypeOK
<1>11. QED
  BY <1>7, <1>8, <1>9, <1>10 DEF FilesOK

(* writing there, or not.                                                    *)
LEMMA RivalEndsFiles ==
    ASSUME TypeOK, FilesOK, RivalCopies \/ RivalDies PROVE FilesOK'
<1>1. /\ rival # None /\ rival' = None /\ rival \in Versions /\ (clean' => clean)
      /\ pc' = pc /\ file' = file /\ mine' = mine /\ path' = path
      /\ taken' \in {taken, taken \cup {rival}, taken \ {rival}}
  BY DEF RivalCopies, RivalDies, rows, local, history, TypeOK
<1>2. audio' \in {audio, [audio EXCEPT ![rival] = "partial"], [audio EXCEPT ![rival] = "other"]}
  BY DEF RivalCopies, RivalDies
<1>3. ASSUME clean', rival \in taken' PROVE audio'[rival] # "none"
  BY <1>1, <1>3 DEF RivalCopies, RivalDies, TypeOK
<1>4. SUFFICES ASSUME clean, clean' PROVE FilesOK'
  BY <1>1 DEF FilesOK, Replaces, Present, Keeps, FilesAreDistinct, RivalsApart
<1>5. (\A j \in Jobs : pc[j] \notin Replacing) /\ (\A r \in Rows : file[r] # rival)
  BY <1>1, <1>4 DEF FilesOK, RivalsApart
<1>6. \A v \in Versions : v # rival => audio'[v] = audio[v]
  BY <1>2 DEF TypeOK
<1>7. Replaces'
  BY <1>1, <1>5 DEF Replaces
<1>8. Present'
  BY <1>1, <1>4, <1>5, <1>6 DEF FilesOK, Present
<1>9. Keeps'
  <2> SUFFICES ASSUME NEW k \in Jobs, mine[k] # None, pc[k] \in KeptAt, file[mine[k]] # Tmp
               PROVE  file[mine[k]] # None /\ audio'[file[mine[k]]] = "whole"
    BY <1>1 DEF Keeps
  <2>1. file[mine[k]] # None /\ audio[file[mine[k]]] = "whole" /\ mine[k] \in Rows
    BY <1>4 DEF FilesOK, Keeps, TypeOK
  <2>2. QED
    BY <1>5, <1>6, <2>1 DEF TypeOK
<1>10. FilesAreDistinct'
  BY <1>1, <1>4, <1>5 DEF FilesOK, FilesAreDistinct
<1>11. RivalsApart'
  <2>1. \A v \in taken' : audio'[v] # "none"
    BY <1>1, <1>3, <1>4, <1>6 DEF FilesOK, RivalsApart, TypeOK
  <2>2. QED
    BY <1>1, <1>5, <2>1 DEF RivalsApart
<1>12. QED
  BY <1>7, <1>8, <1>9, <1>10, <1>11 DEF FilesOK

(***************************************************************************)
(* Rows that no job names                                                  *)
(***************************************************************************)
LEMMA NamedStep ==
    ASSUME TypeOK, Locals, Named, NEW j \in Jobs, Step(j) PROVE Named'
<1> USE DEF Named, NotedAt, Between, TypeOK, around, others, jobrow, disk, rows, local, service, faults, history
<1>1. CASE Restart(j)
  BY <1>1 DEF Restart, Goto, Save, Locals, Before
<1>2. CASE CancelRead(j)
  BY <1>2 DEF CancelRead, Locals, Before
<1>3. CASE CancelClose(j)
  BY <1>3 DEF CancelClose, Close, Locals, Before
<1>4. CASE CancelRevoke(j)
  <2>1. CASE End(j, "dead") /\ Interrupted(j)
    BY <1>4, <2>1 DEF CancelRevoke, End, Goto
  <2>2. CASE UNCHANGED <<pc, local, history>>
    BY <1>4, <2>2 DEF CancelRevoke
  <2>3. QED
    BY <1>4, <2>1, <2>2 DEF CancelRevoke
<1>5. CASE CancelSave(j)
  BY <1>5 DEF CancelSave, Save, Locals, Before
<1>6. CASE Crash(j)
  BY <1>6 DEF Crash, FailsNow, End, Goto, Interrupted, Locals, Before
<1>7. CASE Recover(j)
  BY <1>7 DEF Recover, Close, Open, Goto, Locals, Before
<1>8. CASE Claim(j)
  BY <1>8 DEF Claim, Goto, Locals, Before
<1>9. CASE Start(j)
  BY <1>9 DEF Start, Open, Goto, Locals, Before
<1>10. CASE KeepFormat(j)
  BY <1>10 DEF KeepFormat, Goto, Locals, Before
<1>11. CASE StartFfmpeg(j)
  BY <1>11 DEF StartFfmpeg, Goto, Locals, Before
<1>12. CASE FinishFfmpeg(j)
  BY <1>12 DEF FinishFfmpeg, Goto, Save, Locals, Before
<1>13. CASE ReuseRow(j)
  BY <1>13 DEF ReuseRow, Goto, Locals, Before
<1>14. CASE CreateRow(j)
  BY <1>14, CreatedRow DEF Made, CreateRow, Goto, Locals
<1>15. CASE ChoosePath(j)
  BY <1>15 DEF ChoosePath, Goto, Locals, Before
<1>16. CASE Copy(j)
  BY <1>16 DEF Copy, Goto, Locals, Before
<1>17. CASE CopyFails(j)
  BY <1>17 DEF CopyFails, FailsNow, Goto, Locals, Before
<1>18. CASE SaveRow(j)
  BY <1>18 DEF SaveRow, Goto, Locals, Before
<1>19. CASE Note(j)
  BY <1>19 DEF Note, Goto, Locals, Before
<1>20. CASE BeginUpload(j)
  BY <1>20 DEF BeginUpload, Save, Goto, Locals, Before
<1>21. CASE FinishUpload(j)
  BY <1>21 DEF FinishUpload, Goto, Locals, Before
<1>22. CASE AfterUpload(j)
  BY <1>22 DEF AfterUpload, Goto, Save, Locals, Before
<1>23. CASE UploadCancelled(j)
  BY <1>23 DEF UploadCancelled, Close, End, Goto, Locals, Before
<1>24. CASE Fail(j)
  BY <1>24 DEF Fail, Interrupted, Goto, Locals, Before
<1>25. CASE Report(j)
  BY <1>25 DEF Report, Close, End, Goto, Locals, Before
<1>26. CASE SpeechFails(j)
  BY <1>26 DEF SpeechFails, Goto, Locals, Before
<1>27. CASE Recognize(j)
  BY <1>27 DEF Recognize, Goto, Locals, Before
<1>28. CASE NotHeard(j)
  BY <1>28 DEF NotHeard, Goto, Locals, Before
<1>29. CASE LogFailure(j)
  BY <1>29 DEF LogFailure, Goto, Locals, Before
<1>30. CASE CreateTranscription(j)
  BY <1>30 DEF CreateTranscription, Goto, Locals, Before
<1>31. CASE Heard(j)
  BY <1>31 DEF Heard, Goto, Locals, Before
<1>32. QED
  BY <1>1, <1>2, <1>3, <1>4, <1>5, <1>6, <1>7, <1>8, <1>9, <1>10, <1>11, <1>12,
     <1>13, <1>14, <1>15, <1>16, <1>17, <1>18, <1>19, <1>20, <1>21, <1>22, <1>23,
     <1>24, <1>25, <1>26, <1>27, <1>28, <1>29, <1>30, <1>31 DEF Step, Work, Answer

(* The rows without a job are finitely many,                                 *)
LEMMA OrphansFinite == IsFiniteSet(Orphans) /\ IsFiniteSet(Orphans')
BY AudioAssumption, FS_Subset DEF Orphans

(* stay as many when no metadata forgets a row,                              *)
LEMMA NoneLost ==
    ASSUME TypeOK, OrphansWereInterrupted, Orphans' \subseteq Orphans,
           mislaid' \in Nat, mislaid' >= mislaid
    PROVE  OrphansWereInterrupted'
<1>1. Cardinality(Orphans') <= Cardinality(Orphans)
  BY OrphansFinite, FS_Subset
<1>2. Cardinality(Orphans) \in Nat /\ Cardinality(Orphans') \in Nat
  BY OrphansFinite, FS_CardinalityType
<1>3. QED
  BY <1>1, <1>2 DEF OrphansWereInterrupted, TypeOK

(* and grow by one when one does,                                            *)
LEMMA OneLost ==
    ASSUME TypeOK, OrphansWereInterrupted, NEW r, Orphans' \subseteq Orphans \cup {r},
           mislaid' = mislaid + 1
    PROVE  OrphansWereInterrupted'
<1>1. /\ IsFiniteSet(Orphans \cup {r})
      /\ Cardinality(Orphans \cup {r}) <= Cardinality(Orphans) + 1
  <2>1. Cardinality(Orphans) \in Nat
    BY OrphansFinite, FS_CardinalityType
  <2>2. /\ IsFiniteSet(Orphans \cup {r})
        /\ Cardinality(Orphans \cup {r})
             = IF r \in Orphans THEN Cardinality(Orphans) ELSE Cardinality(Orphans) + 1
    BY OrphansFinite, FS_AddElement
  <2>3. QED
    BY <2>1, <2>2
<1>2. Cardinality(Orphans') <= Cardinality(Orphans \cup {r})
  BY <1>1, FS_Subset
<1>3. /\ Cardinality(Orphans) \in Nat /\ Cardinality(Orphans') \in Nat
      /\ Cardinality(Orphans \cup {r}) \in Nat
  BY <1>1, OrphansFinite, FS_CardinalityType
<1>4. QED
  BY <1>1, <1>2, <1>3 DEF OrphansWereInterrupted, TypeOK

(* What an execution that ends early takes with it. *)
LEMMA EndsOrphans ==
    ASSUME TypeOK, Owned, Named, OrphansWereInterrupted, NEW j \in Jobs, Interrupted(j),
           mine' \in {mine, [mine EXCEPT ![j] = None]}, noted' = noted, owner' = owner,
           mine' = mine => ~Between(j)
    PROVE  OrphansWereInterrupted'
<1>1. CASE Between(j)
  <2>1. Orphans' \subseteq Orphans \cup {mine[j]}
    BY <1>1 DEF Orphans, TypeOK
  <2>2. mislaid' = mislaid + 1
    BY <1>1 DEF Interrupted
  <2>3. QED
    BY <2>1, <2>2, OneLost
<1>2. CASE ~Between(j)
  <2>1. Orphans' \subseteq Orphans
    BY <1>2 DEF Orphans, TypeOK, Between
  <2>2. mislaid' = mislaid
    BY <1>2 DEF Interrupted, TypeOK
  <2>3. QED
    BY <2>1, <2>2, NoneLost DEF TypeOK
<1>3. QED
  BY <1>1, <1>2

(* which the record of a failure may do.                                     *)
LEMMA LogFailureOrphans ==
    ASSUME TypeOK, Named, OrphansWereInterrupted, NEW j \in Jobs, LogFailure(j)
    PROVE  OrphansWereInterrupted'
<1>1. /\ noted' = [noted EXCEPT ![j] = None] /\ mine' = mine /\ owner' = owner
      /\ mislaid' = mislaid + (IF mine[j] = None /\ noted[j] # None THEN 1 ELSE 0)
  BY DEF LogFailure, local, rows
<1>2. CASE mine[j] = None /\ noted[j] # None
  <2>1. Orphans' \subseteq Orphans \cup {noted[j]}
    BY <1>1 DEF Orphans, TypeOK
  <2>2. QED
    BY <1>1, <1>2, <2>1, OneLost
<1>3. CASE ~(mine[j] = None /\ noted[j] # None)
  <2>1. Orphans' \subseteq Orphans
    BY <1>1, <1>3, AudioAssumption DEF Orphans, TypeOK, Named
  <2>2. mislaid' = mislaid
    BY <1>1, <1>3 DEF TypeOK
  <2>3. QED
    BY <2>1, <2>2, NoneLost DEF TypeOK
<1>4. QED
  BY <1>2, <1>3

(* Every step counts the rows it loses.                                      *)
LEMMA OrphansStep ==
    ASSUME TypeOK, Owned, Locals, Named, OrphansWereInterrupted, NEW j \in Jobs, Step(j)
    PROVE  OrphansWereInterrupted'
<1> USE DEF around, others, jobrow, disk, rows, local, service, faults, history
<1>1. CASE Restart(j)
  BY <1>1, NoneLost DEF Restart, Goto, Save, Orphans, TypeOK
<1>2. CASE CancelRead(j)
  BY <1>2, NoneLost DEF CancelRead, Orphans, TypeOK
<1>3. CASE CancelClose(j)
  BY <1>3, NoneLost DEF CancelClose, Close, Orphans, TypeOK
<1>4. CASE CancelRevoke(j)
  <2>1. CASE End(j, "dead") /\ Interrupted(j)
    BY <1>4, <2>1, EndsOrphans DEF CancelRevoke, End, Between, TypeOK
  <2>2. CASE UNCHANGED <<pc, local, history>>
    BY <1>4, <2>2, NoneLost DEF CancelRevoke, Orphans, TypeOK
  <2>3. QED
    BY <1>4, <2>1, <2>2 DEF CancelRevoke
<1>5. CASE CancelSave(j)
  BY <1>5, NoneLost DEF CancelSave, Save, Orphans, TypeOK
<1>6. CASE Crash(j)
  BY <1>6, EndsOrphans DEF Crash, End, Between, TypeOK
<1>7. CASE Recover(j)
  BY <1>7, NoneLost DEF Recover, Close, Open, Goto, Orphans, TypeOK
<1>8. CASE Claim(j)
  BY <1>8, NoneLost DEF Claim, Goto, Orphans, TypeOK
<1>9. CASE Start(j)
  BY <1>9, NoneLost DEF Start, Open, Goto, Orphans, TypeOK
<1>10. CASE KeepFormat(j)
  BY <1>10, NoneLost DEF KeepFormat, Goto, Orphans, TypeOK
<1>11. CASE StartFfmpeg(j)
  BY <1>11, NoneLost DEF StartFfmpeg, Goto, Orphans, TypeOK
<1>12. CASE FinishFfmpeg(j)
  BY <1>12, NoneLost DEF FinishFfmpeg, Goto, Save, Orphans, TypeOK
<1>13. CASE ReuseRow(j)
  <2>1. mine[j] = None
    BY <1>13 DEF ReuseRow, Locals
  <2>2. Orphans' \subseteq Orphans
    BY <1>13, <2>1, AudioAssumption DEF ReuseRow, Orphans, TypeOK
  <2>3. mislaid' = mislaid
    BY <1>13 DEF ReuseRow
  <2>4. QED
    BY <2>2, <2>3, NoneLost DEF TypeOK
<1>14. CASE CreateRow(j)
  <2>1. mine[j] = None
    BY <1>14 DEF CreateRow, Locals
  <2>2. Orphans' \subseteq Orphans
    BY <1>14, <2>1, CreatedRow DEF Made, CreateRow, Orphans, TypeOK
  <2>3. mislaid' = mislaid
    BY <1>14 DEF CreateRow
  <2>4. QED
    BY <2>2, <2>3, NoneLost DEF TypeOK
<1>15. CASE ChoosePath(j)
  BY <1>15, NoneLost DEF ChoosePath, Goto, Orphans, TypeOK
<1>16. CASE Copy(j)
  BY <1>16, NoneLost DEF Copy, Goto, Orphans, TypeOK
<1>17. CASE CopyFails(j)
  BY <1>17, NoneLost DEF CopyFails, FailsNow, Goto, Orphans, TypeOK
<1>18. CASE SaveRow(j)
  BY <1>18, NoneLost DEF SaveRow, Goto, Orphans, TypeOK
<1>19. CASE Note(j)
  <2>1. Orphans' \subseteq Orphans
    BY <1>19, AudioAssumption DEF Note, Orphans, TypeOK, Named
  <2>2. mislaid' = mislaid
    BY <1>19 DEF Note
  <2>3. QED
    BY <2>1, <2>2, NoneLost DEF TypeOK
<1>20. CASE BeginUpload(j)
  BY <1>20, NoneLost DEF BeginUpload, Save, Goto, Orphans, TypeOK
<1>21. CASE FinishUpload(j)
  BY <1>21, NoneLost DEF FinishUpload, Goto, Orphans, TypeOK
<1>22. CASE AfterUpload(j)
  BY <1>22, NoneLost DEF AfterUpload, Goto, Save, Orphans, TypeOK
<1>23. CASE UploadCancelled(j)
  <2>1. ~Between(j)
    BY <1>23 DEF UploadCancelled, Named, NotedAt
  <2>2. Orphans' \subseteq Orphans
    BY <1>23, <2>1 DEF UploadCancelled, End, Orphans, TypeOK, Between
  <2>3. mislaid' = mislaid
    BY <1>23 DEF UploadCancelled
  <2>4. QED
    BY <2>2, <2>3, NoneLost DEF TypeOK
<1>24. CASE Fail(j)
  <2>1. mine' = IF Between(j) THEN [mine EXCEPT ![j] = None] ELSE mine
    BY <1>24 DEF Fail, TypeOK
  <2>2. CASE mine' = mine
    <3>1. Between(j) => mine[j] = None
      BY <2>1, <2>2 DEF TypeOK
    <3>2. QED
      BY <1>24, <2>2, <3>1, EndsOrphans DEF Fail, Between
  <2>3. CASE mine' # mine
    BY <1>24, <2>1, <2>3, EndsOrphans DEF Fail
  <2>4. QED
    BY <2>2, <2>3
<1>25. CASE Report(j)
  <2>1. Orphans' \subseteq Orphans
    BY <1>25 DEF Report, End, Orphans, TypeOK, Named
  <2>2. mislaid' = mislaid
    BY <1>25 DEF Report
  <2>3. QED
    BY <2>1, <2>2, NoneLost DEF TypeOK
<1>26. CASE SpeechFails(j)
  BY <1>26, NoneLost DEF SpeechFails, Goto, Orphans, TypeOK
<1>27. CASE Recognize(j)
  BY <1>27, NoneLost DEF Recognize, Goto, Orphans, TypeOK
<1>28. CASE NotHeard(j)
  BY <1>28, NoneLost DEF NotHeard, Goto, Orphans, TypeOK
<1>29. CASE LogFailure(j)
  BY <1>29, LogFailureOrphans
<1>30. CASE CreateTranscription(j)
  BY <1>30, NoneLost DEF CreateTranscription, Goto, Orphans, TypeOK
<1>31. CASE Heard(j)
  BY <1>31, NoneLost DEF Heard, Goto, Orphans, TypeOK
<1>32. QED
  BY <1>1, <1>2, <1>3, <1>4, <1>5, <1>6, <1>7, <1>8, <1>9, <1>10, <1>11, <1>12,
     <1>13, <1>14, <1>15, <1>16, <1>17, <1>18, <1>19, <1>20, <1>21, <1>22, <1>23,
     <1>24, <1>25, <1>26, <1>27, <1>28, <1>29, <1>30, <1>31 DEF Step, Work, Answer

(***************************************************************************)
(* Theorems                                                                *)
(***************************************************************************)
LEMMA Initially == Init => IInv
<1> SUFFICES ASSUME Init PROVE IInv
  OBVIOUS
<1>1. TypeOK
  BY TypeInit
<1>2. \A j \in Jobs : pc[j] \in {"idle", "queued"}
  BY DEF Init
<1>3. Owned /\ Named
  BY <1>2 DEF Init, Owned, Named, NotedAt
<1>4. Locals
  BY <1>2 DEF Init, Locals, Before, Holding, Replacing
<1>5. Using = {}
  BY <1>2 DEF Using, Uses, Replacing
<1>6. Alone /\ TmpIsWhole
  BY <1>5 DEF Alone, TmpIsWhole
<1>7. InputIsWhole /\ Posted
  BY DEF Init, InputIsWhole, Posted
<1>8. \A r \in Rows : file[r] = None
  BY DEF Init
<1>9. FilesOK
  <2>1. Replaces
    BY <1>2 DEF Replaces, Replacing
  <2>2. Present
    BY <1>8, AudioAssumption DEF Present
  <2>3. Keeps
    BY <1>2 DEF Keeps, KeptAt
  <2>4. FilesAreDistinct /\ RivalsApart
    BY <1>2, <1>8 DEF Init, FilesAreDistinct, RivalsApart, Replacing
  <2>5. QED
    BY <2>1, <2>2, <2>3, <2>4 DEF FilesOK
<1>10. OrphansWereInterrupted
  <2>1. Orphans = {} /\ mislaid = 0
    BY DEF Init, Orphans
  <2>2. QED
    BY <2>1, FS_EmptySet DEF OrphansWereInterrupted
<1>11. QED
  BY <1>1, <1>3, <1>4, <1>6, <1>7, <1>9, <1>10 DEF IInv

(* Nothing changes the invariant when nothing happens.                       *)
LEMMA Stutters == IInv /\ UNCHANGED vars => IInv'
<1> SUFFICES ASSUME IInv, UNCHANGED vars PROVE IInv'
  OBVIOUS
<1> USE DEF vars, around, others, jobrow, disk, rows, local, service, faults, history
<1>1. TypeOK' /\ Owned' /\ Locals'
  BY DEF IInv, TypeOK, Owned, Locals
<1>2. Alone' /\ TmpIsWhole'
  BY DEF IInv, Alone, TmpIsWhole, Using
<1>3. InputIsWhole' /\ Posted' /\ Named'
  BY DEF IInv, InputIsWhole, Posted, Named, Between
<1>4. FilesOK'
  BY DEF IInv, FilesOK, Replaces, Present, Keeps, FilesAreDistinct, RivalsApart
<1>5. OrphansWereInterrupted'
  BY DEF IInv, OrphansWereInterrupted, Orphans
<1>6. QED
  BY <1>1, <1>2, <1>3, <1>4, <1>5 DEF IInv

(* A step of a conversion of another source keeps it too.                    *)
LEMMA RivalKeeps == IInv /\ Rival => IInv'
<1> SUFFICES ASSUME IInv, Rival PROVE IInv'
  OBVIOUS
<1>1. /\ UNCHANGED <<case, asked, jobrow, pc, source, tmp, rows, noted, local, faults, mislaid>>
      /\ clean' => clean
  <2>1. CASE RivalChooses
    BY <2>1 DEF RivalChooses
  <2>2. CASE RivalCopies
    BY <2>2 DEF RivalCopies, history
  <2>3. CASE RivalDies
    BY <2>3 DEF RivalDies
  <2>4. QED
    BY <2>1, <2>2, <2>3 DEF Rival
<1>2. TypeOK'
  <2>1. /\ audio' \in [Versions -> Contents \cup {"other"}]
        /\ rival' \in Versions \cup {None} /\ taken' \subseteq Versions /\ rivals' \in Nat
    <3>1. CASE RivalChooses
      BY <3>1 DEF RivalChooses, IInv, TypeOK, Contents
    <3>2. CASE RivalCopies
      BY <3>2 DEF RivalCopies, IInv, TypeOK, Contents
    <3>3. CASE RivalDies
      BY <3>3 DEF RivalDies, IInv, TypeOK, Contents
    <3>4. QED
      BY <3>1, <3>2, <3>3 DEF Rival
  <2>2. clean' \in BOOLEAN
    <3>1. CASE RivalChooses
      BY <3>1 DEF RivalChooses
    <3>2. CASE RivalCopies
      BY <3>2 DEF RivalCopies, IInv, TypeOK, history
    <3>3. CASE RivalDies
      BY <3>3 DEF RivalDies
    <3>4. QED
      BY <3>1, <3>2, <3>3 DEF Rival
  <2>3. QED
    BY <1>1, <2>1, <2>2 DEF IInv, TypeOK, jobrow, rows, local, service, faults
<1>3. Owned' /\ Locals' /\ Posted' /\ Named'
  BY <1>1 DEF IInv, Owned, Locals, Posted, Named, Between, jobrow, rows, local, service
<1>4. Alone' /\ TmpIsWhole' /\ InputIsWhole'
  BY <1>1 DEF IInv, Alone, TmpIsWhole, InputIsWhole, Using, local, service
<1>5. FilesOK'
  BY RivalChoosesFiles, RivalEndsFiles DEF IInv, Rival
<1>6. OrphansWereInterrupted'
  BY <1>1 DEF IInv, OrphansWereInterrupted, Orphans, rows, local
<1>7. QED
  BY <1>2, <1>3, <1>4, <1>5, <1>6 DEF IInv

(* The invariant holds in every behaviour, for any jobs and rows.            *)
THEOREM Invariance == Spec => []IInv
<1>1. ASSUME IInv, NEW j \in Jobs, Step(j) PROVE IInv'
  <2>1. TypeOK' /\ Owned' /\ Locals'
    BY <1>1, TypeStep, OwnedStep, LocalsStep DEF IInv
  <2>2. Alone' /\ TmpIsWhole' /\ InputIsWhole'
    BY <1>1, AloneStep, InputStep DEF IInv
  <2>3. FilesOK' /\ Posted'
    BY <1>1, FilesStep, PostedStep DEF IInv
  <2>4. Named' /\ OrphansWereInterrupted'
    BY <1>1, NamedStep, OrphansStep DEF IInv
  <2>5. QED
    BY <2>1, <2>2, <2>3, <2>4 DEF IInv
<1>2. IInv /\ [Next]_vars => IInv'
  BY <1>1, RivalKeeps, Stutters DEF Next
<1>3. QED
  BY <1>2, Initially, PTL DEF Spec

(* Every variable of the conversions, uploads and recognitions has its type. *)
THEOREM TypeCorrect == Spec => []TypeOK
BY Invariance, PTL DEF IInv

(* However many executions fail and are repeated, what upload_with_sas or    *)
(* the recognizer reads is never a file ffmpeg left unfinished, unless two   *)
(* executions have used the temporary file together.                         *)
THEOREM WholeInput == Spec => []InputIsWhole
BY Invariance, PTL DEF IInv

(* The converted audio transcribe_job keeps as the audio of a row is the     *)
(* whole of what it goes on to have transcribed.                             *)
THEOREM WholeKept == Spec => []KeptIsWhole
<1>1. IInv => KeptIsWhole
  BY DEF IInv, FilesOK, Keeps, KeptAt, KeptIsWhole, Kept
<1>2. QED
  BY <1>1, Invariance, PTL

(* The names chosen for converted files are never those of another row's, be *)
(* it one of a job on another source, unless two were chosen at once.        *)
THEOREM DistinctFiles == Spec => []FilesAreDistinct
<1>1. IInv => FilesAreDistinct
  BY DEF IInv, FilesOK
<1>2. QED
  BY <1>1, Invariance, PTL

(* Re-executions of transcribe_job find the row made before, but for those   *)
(* an execution lost as it ended.                                            *)
THEOREM FoundAgain == Spec => []OrphansWereInterrupted
BY Invariance, PTL DEF IInv

(* One execution makes Azure Speech create one transcription, and another    *)
(* one only for an answer that was lost.                                     *)
THEOREM OneTranscription == Spec => []SubmittedOnce
<1>1. IInv => SubmittedOnce
  BY DEF IInv, Posted, SubmittedOnce
<1>2. QED
  BY <1>1, Invariance, PTL

(***************************************************************************)
(* A job makes finitely many steps                                         *)
(***************************************************************************)
(* What is left to a job, the most significant part first: what may yet go   *)
(* wrong, and conversions of other sources, for all jobs together;           *)
FaultsLeft ==
    (case.cancels - cancels) + (case.failures - failures)
      + 2 * (case.rivals - rivals) + (IF rival = None THEN 0 ELSE 1)

(* what a request to cancel it still has to do, which may end an execution   *)
(* before the status is saved;                                               *)
AsksLeft == [j \in Jobs |-> CASE asked[j] = "read" -> 2 [] asked[j] = "revoked" -> 1 [] OTHER -> 0]

(* the places on the way to the end of its execution, a dead one before the  *)
(* one that recovery starts;                                                 *)
Place(p) ==
    CASE p = "dead" -> 21 [] p = "queued" -> 19 [] p = "begun" -> 18 [] p = "claimed" -> 17
      [] p = "ffmpeg" -> 16 [] p = "row" -> 15 [] p = "name" -> 14 [] p = "copy" -> 13
      [] p = "save" -> 12 [] p = "note" -> 11 [] p = "upload" -> 10 [] p = "reading" -> 9
      [] p = "check" -> 8 [] p = "submit" -> 7 [] p = "poll" -> 6 [] p = "recognize" -> 5
      [] p = "listening" -> 5 [] p = "log" -> 4 [] p = "report" -> 3 [] p = "cancelled" -> 2
      [] p = "withdrawn" -> 2 [] OTHER -> 0

PlacesLeft == [j \in Jobs |-> IF status[j] = "absent" THEN 20 ELSE Place(pc[j])]

(* and where an execution loops, the answers that may be lost, or the        *)
(* attempts of the recognizer.                                               *)
WorkLeft ==
    [j \in Jobs |-> CASE pc[j] = "submit"    -> case.lost - lost[j]
                      [] pc[j] = "recognize" -> 2 * (RetryMax - attempts[j])
                      [] pc[j] = "listening" -> 2 * (RetryMax - attempts[j]) - 1
                      [] OTHER               -> 0]

Left    == [j \in Jobs |-> <<FaultsLeft, AsksLeft[j], PlacesLeft[j], WorkLeft[j]>>]
Below   == OpToRel(<, Nat)
Descent == LexProductOrdering(Below, Nat, 4)

LeftOK == /\ FaultsLeft \in Nat /\ AsksLeft \in [Jobs -> Nat]
          /\ PlacesLeft \in [Jobs -> Nat] /\ WorkLeft \in [Jobs -> Nat]

(* A step is one of some job, to which less is left, and no other job has    *)
(* more left than before; or one of another source, and all have less left.  *)
LessIsLeft ==
    \/ \E j \in Jobs :
         /\ Step(j)
         /\ <<Left'[j], Left[j]>> \in Descent
         /\ \A k \in Jobs \ {j} : Left'[k] = Left[k] \/ <<Left'[k], Left[k]>> \in Descent
    \/ Rival /\ \A k \in Jobs : <<Left'[k], Left[k]>> \in Descent

(* Nothing descends in that order for ever.                                  *)
THEOREM DescentEnds == IsWellFoundedOn(Descent, [1..4 -> Nat])
BY NatLessThanWellFounded, WFLexProductOrdering, Zenon DEF Descent, Below

(* What goes wrong, is lost or is tried again has its limit. *)
Limits ==
    /\ cancels <= case.cancels /\ failures <= case.failures /\ rivals <= case.rivals
    /\ \A j \in Jobs :
         /\ lost[j] <= case.lost
         /\ pc[j] \in Before \cup {"ffmpeg"} => attempts[j] = 0
         /\ pc[j] \in {"recognize", "listening"} => attempts[j] < RetryMax

(* The limits of an instance are numbers. *)
LEMMA CaseType ==
    ASSUME TypeOK
    PROVE  /\ case.cancels \in Nat /\ case.failures \in Nat /\ case.lost \in Nat
           /\ case.rivals \in Nat
           /\ RetryMax \in Nat \ {0}
BY AudioAssumption DEF TypeOK

(* Every step keeps the limits.                                              *)
LEMMA LimitsStep == ASSUME TypeOK, Locals, Limits, NEW j \in Jobs, Step(j) PROVE Limits'
<1> USE CaseType DEF TypeOK, Limits, Before, Working, Uses, Replacing, around, others,
            jobrow, disk, rows, local, service, faults, history
<1>1. CASE Restart(j)
  BY <1>1 DEF Restart, Goto, Save, Locals
<1>2. CASE CancelRead(j)
  BY <1>2 DEF CancelRead
<1>3. CASE CancelClose(j)
  BY <1>3 DEF CancelClose, Close
<1>4. CASE CancelRevoke(j)
  BY <1>4 DEF CancelRevoke, End, Goto, Interrupted
<1>5. CASE CancelSave(j)
  BY <1>5 DEF CancelSave, Save
<1>6. CASE Crash(j)
  BY <1>6 DEF Crash, FailsNow, End, Goto, Interrupted
<1>7. CASE Recover(j)
  BY <1>7 DEF Recover, Close, Open, Goto
<1>8. CASE Claim(j)
  BY <1>8 DEF Claim, Goto
<1>9. CASE Start(j)
  BY <1>9 DEF Start, Open, Goto
<1>10. CASE KeepFormat(j)
  BY <1>10 DEF KeepFormat, Goto
<1>11. CASE StartFfmpeg(j)
  BY <1>11 DEF StartFfmpeg, Goto
<1>12. CASE FinishFfmpeg(j)
  BY <1>12 DEF FinishFfmpeg, Goto, Save
<1>13. CASE ReuseRow(j)
  BY <1>13 DEF ReuseRow, Goto
<1>14. CASE CreateRow(j)
  BY <1>14 DEF CreateRow, FailsNow, Goto
<1>15. CASE ChoosePath(j)
  BY <1>15 DEF ChoosePath, Goto
<1>16. CASE Copy(j)
  BY <1>16 DEF Copy, Goto
<1>17. CASE CopyFails(j)
  BY <1>17 DEF CopyFails, FailsNow, Goto
<1>18. CASE SaveRow(j)
  BY <1>18 DEF SaveRow, Goto
<1>19. CASE Note(j)
  BY <1>19 DEF Note, Goto
<1>20. CASE BeginUpload(j)
  BY <1>20 DEF BeginUpload, Save, Goto
<1>21. CASE FinishUpload(j)
  BY <1>21 DEF FinishUpload, Goto
<1>22. CASE AfterUpload(j)
  BY <1>22 DEF AfterUpload, Goto, Save
<1>23. CASE UploadCancelled(j)
  BY <1>23 DEF UploadCancelled, Close, End, Goto
<1>24. CASE Fail(j)
  BY <1>24 DEF Fail, Interrupted, Goto
<1>25. CASE Report(j)
  BY <1>25 DEF Report, Close, End, Goto
<1>26. CASE SpeechFails(j)
  BY <1>26 DEF SpeechFails, Goto
<1>27. CASE Recognize(j)
  BY <1>27 DEF Recognize, Goto
<1>28. CASE NotHeard(j)
  BY <1>28 DEF NotHeard, Goto
<1>29. CASE LogFailure(j)
  BY <1>29 DEF LogFailure, Goto
<1>30. CASE CreateTranscription(j)
  BY <1>30 DEF CreateTranscription, Goto
<1>31. CASE Heard(j)
  BY <1>31 DEF Heard, Goto
<1>32. QED
  BY <1>1, <1>2, <1>3, <1>4, <1>5, <1>6, <1>7, <1>8, <1>9, <1>10, <1>11, <1>12,
     <1>13, <1>14, <1>15, <1>16, <1>17, <1>18, <1>19, <1>20, <1>21, <1>22, <1>23,
     <1>24, <1>25, <1>26, <1>27, <1>28, <1>29, <1>30, <1>31 DEF Step, Work, Answer

(* A step of a job leaves the places of the others alone.                    *)
Apart(j) ==
    /\ case' = case
    /\ \A k \in Jobs \ {j} : /\ status'[k] = status[k] /\ pc'[k] = pc[k] /\ asked'[k] = asked[k]
                             /\ lost'[k] = lost[k] /\ attempts'[k] = attempts[k]

(* Every step is one of a single job.                                        *)
LEMMA StepsApart == ASSUME TypeOK, NEW j \in Jobs, Step(j) PROVE Apart(j)
<1> USE DEF TypeOK, Apart, around, others, jobrow, disk, rows, local, service, faults, history
<1>1. CASE Restart(j)
  BY <1>1 DEF Restart, Goto, Save
<1>2. CASE CancelRead(j)
  BY <1>2 DEF CancelRead
<1>3. CASE CancelClose(j)
  BY <1>3 DEF CancelClose, Close
<1>4. CASE CancelRevoke(j)
  BY <1>4 DEF CancelRevoke, End, Goto, Interrupted
<1>5. CASE CancelSave(j)
  BY <1>5 DEF CancelSave, Save
<1>6. CASE Crash(j)
  BY <1>6 DEF Crash, FailsNow, End, Goto, Interrupted
<1>7. CASE Recover(j)
  BY <1>7 DEF Recover, Close, Open, Goto
<1>8. CASE Claim(j)
  BY <1>8 DEF Claim, Goto
<1>9. CASE Start(j)
  BY <1>9 DEF Start, Open, Goto
<1>10. CASE KeepFormat(j)
  BY <1>10 DEF KeepFormat, Goto
<1>11. CASE StartFfmpeg(j)
  BY <1>11 DEF StartFfmpeg, Goto
<1>12. CASE FinishFfmpeg(j)
  BY <1>12 DEF FinishFfmpeg, Goto, Save
<1>13. CASE ReuseRow(j)
  BY <1>13 DEF ReuseRow, Goto
<1>14. CASE CreateRow(j)
  BY <1>14 DEF CreateRow, FailsNow, Goto
<1>15. CASE ChoosePath(j)
  BY <1>15 DEF ChoosePath, Goto
<1>16. CASE Copy(j)
  BY <1>16 DEF Copy, Goto
<1>17. CASE CopyFails(j)
  BY <1>17 DEF CopyFails, FailsNow, Goto
<1>18. CASE SaveRow(j)
  BY <1>18 DEF SaveRow, Goto
<1>19. CASE Note(j)
  BY <1>19 DEF Note, Goto
<1>20. CASE BeginUpload(j)
  BY <1>20 DEF BeginUpload, Save, Goto
<1>21. CASE FinishUpload(j)
  BY <1>21 DEF FinishUpload, Goto
<1>22. CASE AfterUpload(j)
  BY <1>22 DEF AfterUpload, Goto, Save
<1>23. CASE UploadCancelled(j)
  BY <1>23 DEF UploadCancelled, Close, End, Goto
<1>24. CASE Fail(j)
  BY <1>24 DEF Fail, Interrupted, Goto
<1>25. CASE Report(j)
  BY <1>25 DEF Report, Close, End, Goto
<1>26. CASE SpeechFails(j)
  BY <1>26 DEF SpeechFails, Goto
<1>27. CASE Recognize(j)
  BY <1>27 DEF Recognize, Goto
<1>28. CASE NotHeard(j)
  BY <1>28 DEF NotHeard, Goto
<1>29. CASE LogFailure(j)
  BY <1>29 DEF LogFailure, Goto
<1>30. CASE CreateTranscription(j)
  BY <1>30 DEF CreateTranscription, Goto
<1>31. CASE Heard(j)
  BY <1>31 DEF Heard, Goto
<1>32. QED
  BY <1>1, <1>2, <1>3, <1>4, <1>5, <1>6, <1>7, <1>8, <1>9, <1>10, <1>11, <1>12,
     <1>13, <1>14, <1>15, <1>16, <1>17, <1>18, <1>19, <1>20, <1>21, <1>22, <1>23,
     <1>24, <1>25, <1>26, <1>27, <1>28, <1>29, <1>30, <1>31 DEF Step, Work, Answer

(* Something goes wrong that may; or the request to cancel, the execution or *)
(* its loop gets further.                                                    *)
FaultsFall ==
    /\ UNCHANGED others
    /\ \/ cancels < case.cancels /\ cancels' = cancels + 1 /\ failures' = failures
       \/ failures < case.failures /\ failures' = failures + 1 /\ cancels' = cancels

Further(j) ==
    /\ UNCHANGED <<faults, others>>
    /\ \/ AsksLeft'[j] < AsksLeft[j]
       \/ AsksLeft'[j] = AsksLeft[j] /\ PlacesLeft'[j] < PlacesLeft[j]
       \/ /\ AsksLeft'[j] = AsksLeft[j] /\ PlacesLeft'[j] = PlacesLeft[j]
          /\ WorkLeft'[j] < WorkLeft[j]

(* A job that goes on from a place to a later one gets further, *)
LEMMA GoesFurther ==
    ASSUME NEW j \in Jobs, UNCHANGED <<faults, others>>, asked' = asked,
           status[j] # "absent", status'[j] # "absent", Place(pc'[j]) < Place(pc[j])
    PROVE  Further(j)
BY DEF Further, PlacesLeft, AsksLeft

(* and so does one whose request to cancel goes on. *)
LEMMA AskGoesFurther ==
    ASSUME TypeOK, NEW j \in Jobs, UNCHANGED <<faults, others>>,
           \/ asked[j] = "read" /\ asked' \in {[asked EXCEPT ![j] = "none"],
                                               [asked EXCEPT ![j] = "revoked"]}
           \/ asked[j] = "revoked" /\ asked' = [asked EXCEPT ![j] = "none"]
    PROVE  Further(j)
<1>1. asked'[j] \in {"none", "revoked"} /\ (asked[j] = "revoked" => asked'[j] = "none")
  BY DEF TypeOK
<1>2. AsksLeft'[j] < AsksLeft[j]
  BY <1>1 DEF AsksLeft
<1>3. QED
  BY <1>2 DEF Further

(* Every step of a job takes it further, or is something that goes wrong.    *)
LEMMA StepsFurther ==
    ASSUME TypeOK, Locals, Limits, NEW j \in Jobs, Step(j)
    PROVE  FaultsFall \/ Further(j)
<1> USE DEF TypeOK, Locals, around, jobrow
<1>1. CASE Restart(j)
  <2>1. /\ UNCHANGED <<faults, others>> /\ asked' = asked /\ status[j] = "absent" /\ status'[j] = "PENDING"
        /\ pc'[j] = "queued"
    BY <1>1 DEF Restart, Save, Goto
  <2>2. QED
    BY <2>1 DEF Further, AsksLeft, PlacesLeft, Place
<1>2. CASE CancelRead(j)
  BY <1>2 DEF CancelRead, FaultsFall
<1>3. CASE CancelClose(j)
  BY <1>3, AskGoesFurther DEF CancelClose
<1>4. CASE CancelRevoke(j)
  BY <1>4, AskGoesFurther DEF CancelRevoke
<1>5. CASE CancelSave(j)
  BY <1>5, AskGoesFurther DEF CancelSave
<1>6. CASE Crash(j)
  BY <1>6 DEF Crash, FaultsFall, FailsNow
<1>7. CASE Recover(j)
  <2>1. /\ UNCHANGED <<faults, others>> /\ asked' = asked
        /\ status[j] # "absent" /\ status'[j] # "absent"
        /\ pc[j] = "dead" /\ pc'[j] \in {"queued", "idle"}
    BY <1>7 DEF Recover, Close, Open, Goto, faults
  <2>2. Place(pc'[j]) < Place(pc[j])
    BY <2>1 DEF Place
  <2>3. QED
    BY <2>1, <2>2, GoesFurther
<1>8. CASE Claim(j)
  <2>1. /\ UNCHANGED <<faults, others>> /\ asked' = asked
        /\ status[j] # "absent" /\ status'[j] # "absent"
        /\ pc[j] = "queued" /\ pc'[j] \in {"idle", "begun"}
    BY <1>8 DEF Claim, Goto, faults
  <2>2. Place(pc'[j]) < Place(pc[j])
    BY <2>1 DEF Place
  <2>3. QED
    BY <2>1, <2>2, GoesFurther
<1>9. CASE Start(j)
  <2>1. /\ UNCHANGED <<faults, others>> /\ asked' = asked
        /\ status[j] # "absent" /\ status'[j] # "absent"
        /\ pc[j] = "begun" /\ pc'[j] = "claimed"
    BY <1>9 DEF Start, Open, Goto, faults
  <2>2. Place(pc'[j]) < Place(pc[j])
    BY <2>1 DEF Place
  <2>3. QED
    BY <2>1, <2>2, GoesFurther
<1>10. CASE KeepFormat(j)
  <2>1. /\ UNCHANGED <<faults, others>> /\ asked' = asked
        /\ status[j] # "absent" /\ status'[j] # "absent"
        /\ pc[j] = "claimed" /\ pc'[j] \in {"upload", "recognize"}
    BY <1>10 DEF KeepFormat, Goto, faults
  <2>2. Place(pc'[j]) < Place(pc[j])
    BY <2>1 DEF Place
  <2>3. QED
    BY <2>1, <2>2, GoesFurther
<1>11. CASE StartFfmpeg(j)
  <2>1. /\ UNCHANGED <<faults, others>> /\ asked' = asked
        /\ status[j] # "absent" /\ status'[j] # "absent"
        /\ pc[j] = "claimed" /\ pc'[j] = "ffmpeg"
    BY <1>11 DEF StartFfmpeg, Goto, faults
  <2>2. Place(pc'[j]) < Place(pc[j])
    BY <2>1 DEF Place
  <2>3. QED
    BY <2>1, <2>2, GoesFurther
<1>12. CASE FinishFfmpeg(j)
  <2>1. /\ UNCHANGED <<faults, others>> /\ asked' = asked
        /\ status[j] # "absent" /\ status'[j] # "absent"
        /\ pc[j] = "ffmpeg" /\ pc'[j] \in {"row", "recognize"}
    BY <1>12 DEF FinishFfmpeg, Goto, Save, faults
  <2>2. Place(pc'[j]) < Place(pc[j])
    BY <2>1 DEF Place
  <2>3. QED
    BY <2>1, <2>2, GoesFurther
<1>13. CASE ReuseRow(j)
  <2>1. /\ UNCHANGED <<faults, others>> /\ asked' = asked
        /\ status[j] # "absent" /\ status'[j] # "absent"
        /\ pc[j] = "row" /\ pc'[j] = "name"
    BY <1>13 DEF ReuseRow, Goto, faults
  <2>2. Place(pc'[j]) < Place(pc[j])
    BY <2>1 DEF Place
  <2>3. QED
    BY <2>1, <2>2, GoesFurther
<1>14. CASE CreateRow(j)
  <2>1. /\ (UNCHANGED <<faults, others>> \/ FaultsFall) /\ asked' = asked
        /\ status[j] # "absent" /\ status'[j] # "absent"
        /\ pc[j] = "row" /\ pc'[j] = "name"
    BY <1>14 DEF CreateRow, FailsNow, Goto, FaultsFall, faults
  <2>2. Place(pc'[j]) < Place(pc[j])
    BY <2>1 DEF Place
  <2>3. QED
    BY <2>1, <2>2, GoesFurther
<1>15. CASE ChoosePath(j)
  <2>1. /\ UNCHANGED <<faults, others>> /\ asked' = asked
        /\ status[j] # "absent" /\ status'[j] # "absent"
        /\ pc[j] = "name" /\ pc'[j] = "copy"
    BY <1>15 DEF ChoosePath, Goto, faults
  <2>2. Place(pc'[j]) < Place(pc[j])
    BY <2>1 DEF Place
  <2>3. QED
    BY <2>1, <2>2, GoesFurther
<1>16. CASE Copy(j)
  <2>1. /\ UNCHANGED <<faults, others>> /\ asked' = asked
        /\ status[j] # "absent" /\ status'[j] # "absent"
        /\ pc[j] = "copy" /\ pc'[j] = "save"
    BY <1>16 DEF Copy, Goto, faults
  <2>2. Place(pc'[j]) < Place(pc[j])
    BY <2>1 DEF Place
  <2>3. QED
    BY <2>1, <2>2, GoesFurther
<1>17. CASE CopyFails(j)
  <2>1. /\ (UNCHANGED <<faults, others>> \/ FaultsFall) /\ asked' = asked
        /\ status[j] # "absent" /\ status'[j] # "absent"
        /\ pc[j] = "copy" /\ pc'[j] = "save"
    BY <1>17 DEF CopyFails, FailsNow, Goto, FaultsFall, faults
  <2>2. Place(pc'[j]) < Place(pc[j])
    BY <2>1 DEF Place
  <2>3. QED
    BY <2>1, <2>2, GoesFurther
<1>18. CASE SaveRow(j)
  <2>1. /\ UNCHANGED <<faults, others>> /\ asked' = asked
        /\ status[j] # "absent" /\ status'[j] # "absent"
        /\ pc[j] = "save" /\ pc'[j] = "note"
    BY <1>18 DEF SaveRow, Goto, faults
  <2>2. Place(pc'[j]) < Place(pc[j])
    BY <2>1 DEF Place
  <2>3. QED
    BY <2>1, <2>2, GoesFurther
<1>19. CASE Note(j)
  <2>1. /\ UNCHANGED <<faults, others>> /\ asked' = asked
        /\ status[j] # "absent" /\ status'[j] # "absent"
        /\ pc[j] = "note" /\ pc'[j] = "upload"
    BY <1>19 DEF Note, Goto, faults
  <2>2. Place(pc'[j]) < Place(pc[j])
    BY <2>1 DEF Place
  <2>3. QED
    BY <2>1, <2>2, GoesFurther
<1>20. CASE BeginUpload(j)
  <2>1. /\ UNCHANGED <<faults, others>> /\ asked' = asked
        /\ status[j] # "absent" /\ status'[j] # "absent"
        /\ pc[j] = "upload" /\ pc'[j] = "reading"
    BY <1>20 DEF BeginUpload, Save, Goto, faults
  <2>2. Place(pc'[j]) < Place(pc[j])
    BY <2>1 DEF Place
  <2>3. QED
    BY <2>1, <2>2, GoesFurther
<1>21. CASE FinishUpload(j)
  <2>1. /\ UNCHANGED <<faults, others>> /\ asked' = asked
        /\ status[j] # "absent" /\ status'[j] # "absent"
        /\ pc[j] = "reading" /\ pc'[j] \in {"cancelled", "check"}
    BY <1>21 DEF FinishUpload, Goto, faults
  <2>2. Place(pc'[j]) < Place(pc[j])
    BY <2>1 DEF Place
  <2>3. QED
    BY <2>1, <2>2, GoesFurther
<1>22. CASE AfterUpload(j)
  <2>1. /\ UNCHANGED <<faults, others>> /\ asked' = asked
        /\ status[j] # "absent" /\ status'[j] # "absent"
        /\ pc[j] = "check" /\ pc'[j] \in {"withdrawn", "submit"}
    BY <1>22 DEF AfterUpload, Goto, Save, faults
  <2>2. Place(pc'[j]) < Place(pc[j])
    BY <2>1 DEF Place
  <2>3. QED
    BY <2>1, <2>2, GoesFurther
<1>23. CASE UploadCancelled(j)
  <2>1. /\ UNCHANGED <<faults, others>> /\ asked' = asked
        /\ status[j] # "absent" /\ status'[j] # "absent"
        /\ pc[j] \in {"cancelled", "withdrawn"} /\ pc'[j] = "idle"
    BY <1>23 DEF UploadCancelled, Close, End, Goto, faults
  <2>2. Place(pc'[j]) < Place(pc[j])
    BY <2>1 DEF Place
  <2>3. QED
    BY <2>1, <2>2, GoesFurther
<1>24. CASE Fail(j)
  <2>1. /\ UNCHANGED <<faults, others>> /\ asked' = asked
        /\ status[j] # "absent" /\ status'[j] # "absent"
        /\ pc[j] \in {"claimed", "ffmpeg", "row", "save", "upload", "reading", "submit"} /\ pc'[j] = "report"
    BY <1>24 DEF Fail, Interrupted, Goto, faults
  <2>2. Place(pc'[j]) < Place(pc[j])
    BY <2>1 DEF Place
  <2>3. QED
    BY <2>1, <2>2, GoesFurther
<1>25. CASE Report(j)
  <2>1. /\ UNCHANGED <<faults, others>> /\ asked' = asked
        /\ status[j] # "absent" /\ status'[j] # "absent"
        /\ pc[j] = "report" /\ pc'[j] = "idle"
    BY <1>25 DEF Report, Close, End, Goto, faults
  <2>2. Place(pc'[j]) < Place(pc[j])
    BY <2>1 DEF Place
  <2>3. QED
    BY <2>1, <2>2, GoesFurther
<1>26. CASE SpeechFails(j)
  <2>1. /\ UNCHANGED <<faults, others>> /\ asked' = asked
        /\ status[j] # "absent" /\ status'[j] # "absent"
        /\ pc[j] \in {"submit", "poll"} /\ pc'[j] \in {"log", "report"}
    BY <1>26 DEF SpeechFails, Goto, faults
  <2>2. Place(pc'[j]) < Place(pc[j])
    BY <2>1 DEF Place
  <2>3. QED
    BY <2>1, <2>2, GoesFurther
<1>27. CASE Recognize(j)
  <2>1. /\ UNCHANGED <<faults, others>> /\ asked' = asked /\ pc[j] = "recognize" /\ pc'[j] = "listening"
        /\ status' = status /\ attempts' = attempts
    BY <1>27 DEF Recognize, Goto
  <2>2. PlacesLeft'[j] = PlacesLeft[j]
    BY <2>1 DEF PlacesLeft, Place
  <2>3. WorkLeft[j] = 2 * (RetryMax - attempts[j]) /\ WorkLeft'[j] = WorkLeft[j] - 1
    BY <2>1 DEF WorkLeft
  <2>4. attempts[j] \in Nat /\ RetryMax \in Nat
    BY CaseType
  <2>5. WorkLeft'[j] < WorkLeft[j]
    BY <2>3, <2>4
  <2>6. QED
    BY <2>1, <2>2, <2>5 DEF Further, AsksLeft
<1>28. CASE NotHeard(j)
  <2>1. /\ UNCHANGED <<faults, others>> /\ asked' = asked /\ pc[j] = "listening" /\ status' = status
        /\ attempts'[j] = attempts[j] + 1 /\ pc'[j] \in {"recognize", "log"}
    BY <1>28 DEF NotHeard, Goto
  <2>2. CASE pc'[j] = "recognize"
    <3>1. PlacesLeft'[j] = PlacesLeft[j]
      BY <2>1, <2>2 DEF PlacesLeft, Place
    <3>2. /\ WorkLeft[j] = 2 * (RetryMax - attempts[j]) - 1
          /\ WorkLeft'[j] = 2 * (RetryMax - (attempts[j] + 1))
      BY <2>1, <2>2 DEF WorkLeft
    <3>3. attempts[j] \in Nat /\ RetryMax \in Nat
      BY CaseType
    <3>4. WorkLeft'[j] < WorkLeft[j]
      BY <3>2, <3>3
    <3>5. QED
      BY <2>1, <3>1, <3>4 DEF Further, AsksLeft
  <2>3. CASE pc'[j] = "log"
    <3>1. Place(pc'[j]) < Place(pc[j]) /\ status[j] # "absent" /\ status'[j] # "absent"
      BY <2>1, <2>3 DEF Place
    <3>2. QED
      BY <2>1, <3>1, GoesFurther
  <2>4. QED
    BY <2>1, <2>2, <2>3
<1>29. CASE LogFailure(j)
  <2>1. /\ UNCHANGED <<faults, others>> /\ asked' = asked
        /\ status[j] # "absent" /\ status'[j] # "absent"
        /\ pc[j] = "log" /\ pc'[j] = "report"
    BY <1>29 DEF LogFailure, Goto, faults
  <2>2. Place(pc'[j]) < Place(pc[j])
    BY <2>1 DEF Place
  <2>3. QED
    BY <2>1, <2>2, GoesFurther
<1>30. CASE CreateTranscription(j)
  <2>1. /\ UNCHANGED <<faults, others>> /\ asked' = asked /\ pc[j] = "submit" /\ status' = status /\ case' = case
        /\ \/ pc'[j] = "poll"
           \/ pc' = pc /\ lost'[j] = lost[j] + 1
    BY <1>30 DEF CreateTranscription, Goto
  <2>2. CASE pc' = pc /\ lost'[j] = lost[j] + 1
    <3>1. PlacesLeft'[j] = PlacesLeft[j]
      BY <2>1, <2>2 DEF PlacesLeft
    <3>2. WorkLeft[j] = case.lost - lost[j] /\ WorkLeft'[j] = case.lost - (lost[j] + 1)
      BY <2>1, <2>2 DEF WorkLeft
    <3>3. case.lost \in Nat /\ lost[j] \in Nat
      BY CaseType
    <3>4. WorkLeft'[j] < WorkLeft[j]
      BY <3>2, <3>3
    <3>5. QED
      BY <2>1, <3>1, <3>4 DEF Further, AsksLeft
  <2>3. CASE pc'[j] = "poll"
    <3>1. Place(pc'[j]) < Place(pc[j]) /\ status[j] # "absent" /\ status'[j] # "absent"
      BY <2>1, <2>3 DEF Place
    <3>2. QED
      BY <2>1, <3>1, GoesFurther
  <2>4. QED
    BY <2>1, <2>2, <2>3
<1>31. CASE Heard(j)
  <2>1. /\ UNCHANGED <<faults, others>> /\ asked' = asked
        /\ status[j] # "absent" /\ status'[j] # "absent"
        /\ pc[j] \in {"poll", "listening"} /\ pc'[j] = "report"
    BY <1>31 DEF Heard, Goto, faults
  <2>2. Place(pc'[j]) < Place(pc[j])
    BY <2>1 DEF Place
  <2>3. QED
    BY <2>1, <2>2, GoesFurther
<1>32. QED
  BY <1>1, <1>2, <1>3, <1>4, <1>5, <1>6, <1>7, <1>8, <1>9, <1>10, <1>11, <1>12,
     <1>13, <1>14, <1>15, <1>16, <1>17, <1>18, <1>19, <1>20, <1>21, <1>22, <1>23,
     <1>24, <1>25, <1>26, <1>27, <1>28, <1>29, <1>30, <1>31 DEF Step, Work, Answer

(* What is left is counted. *)
LEMMA LeftType == ASSUME TypeOK, Limits PROVE LeftOK
<1>1. FaultsLeft \in Nat
  BY CaseType DEF TypeOK, Limits, FaultsLeft
<1>2. AsksLeft \in [Jobs -> Nat] /\ PlacesLeft \in [Jobs -> Nat]
  BY DEF AsksLeft, PlacesLeft, Place
<1>3. WorkLeft \in [Jobs -> Nat]
  <2> SUFFICES ASSUME NEW j \in Jobs PROVE WorkLeft[j] \in Nat
    BY DEF WorkLeft
  <2>1. /\ lost[j] \in Nat /\ attempts[j] \in Nat /\ lost[j] <= case.lost
        /\ pc[j] \in {"recognize", "listening"} => attempts[j] < RetryMax
    BY DEF TypeOK, Limits
  <2>2. QED
    BY <2>1, CaseType DEF WorkLeft
<1>4. QED
  BY <1>1, <1>2, <1>3 DEF LeftOK

(* Less is left means lower in the order. *)
LEMMA LessIsBelow ==
    ASSUME NEW f \in [1..4 -> Nat], NEW g \in [1..4 -> Nat],
           \/ f[1] < g[1]
           \/ f[1] = g[1] /\ f[2] < g[2]
           \/ f[1] = g[1] /\ f[2] = g[2] /\ f[3] < g[3]
           \/ f[1] = g[1] /\ f[2] = g[2] /\ f[3] = g[3] /\ f[4] < g[4]
    PROVE  <<f, g>> \in Descent
<1>1. \A a, b \in Nat : a < b => <<a, b>> \in Below
  BY DEF OpToRel, Below
<1>2. ASSUME NEW i \in 1..4, \A h \in 1..(i - 1) : f[h] = g[h], f[i] < g[i]
      PROVE  <<f, g>> \in Descent
  BY <1>1, <1>2 DEF Descent, LexProductOrdering
<1>3. CASE f[1] < g[1]
  BY <1>2, <1>3
<1>4. CASE f[1] = g[1] /\ f[2] < g[2]
  BY <1>2, <1>4
<1>5. CASE f[1] = g[1] /\ f[2] = g[2] /\ f[3] < g[3]
  BY <1>2, <1>5
<1>6. CASE f[1] = g[1] /\ f[2] = g[2] /\ f[3] = g[3] /\ f[4] < g[4]
  BY <1>2, <1>6
<1>7. QED
  BY <1>3, <1>4, <1>5, <1>6

(* A step leaves less to its job, and no more to any other. *)
LEMMA StepLess ==
    ASSUME TypeOK, Locals, Limits, LeftOK, LeftOK', NEW j \in Jobs, Step(j)
    PROVE  LessIsLeft
<1>1. Apart(j) /\ (FaultsFall \/ Further(j))
  BY StepsApart, StepsFurther
<1>2. \A k \in Jobs : /\ Left[k] \in [1..4 -> Nat] /\ Left'[k] \in [1..4 -> Nat]
                      /\ Left[k][1] = FaultsLeft /\ Left'[k][1] = FaultsLeft'
                      /\ Left[k][2] = AsksLeft[k] /\ Left'[k][2] = AsksLeft'[k]
                      /\ Left[k][3] = PlacesLeft[k] /\ Left'[k][3] = PlacesLeft'[k]
                      /\ Left[k][4] = WorkLeft[k] /\ Left'[k][4] = WorkLeft'[k]
  BY DEF Left, LeftOK
<1>3. CASE FaultsFall
  <2>1. FaultsLeft' < FaultsLeft
    BY <1>1, <1>3, CaseType DEF FaultsFall, FaultsLeft, Apart, TypeOK, others
  <2>2. \A k \in Jobs : <<Left'[k], Left[k]>> \in Descent
    BY <1>2, <2>1, LessIsBelow
  <2>3. QED
    BY <2>2 DEF LessIsLeft
<1>4. CASE Further(j)
  <2>1. FaultsLeft' = FaultsLeft
    BY <1>1, <1>4 DEF Further, FaultsLeft, Apart, faults, others
  <2>2. <<Left'[j], Left[j]>> \in Descent
    BY <1>2, <1>4, <2>1, LessIsBelow DEF Further
  <2>3. \A k \in Jobs \ {j} : Left'[k] = Left[k]
    <3> SUFFICES ASSUME NEW k \in Jobs \ {j} PROVE Left'[k] = Left[k]
      OBVIOUS
    <3>1. AsksLeft'[k] = AsksLeft[k] /\ PlacesLeft'[k] = PlacesLeft[k] /\ WorkLeft'[k] = WorkLeft[k]
      BY <1>1 DEF Apart, AsksLeft, PlacesLeft, WorkLeft
    <3>2. QED
      BY <2>1, <3>1 DEF Left
  <2>4. QED
    BY <2>2, <2>3 DEF LessIsLeft
<1>5. QED
  BY <1>1, <1>3, <1>4

(* A step of a conversion of another source leaves less to every job. *)
LEMMA RivalLess ==
    ASSUME TypeOK, Limits, LeftOK, LeftOK', Rival PROVE LessIsLeft
<1>1. case' = case /\ UNCHANGED faults
  BY DEF Rival, RivalChooses, RivalCopies, RivalDies, faults
<1>2. \/ /\ rival = None /\ rivals < case.rivals /\ rivals' = rivals + 1
      \/ rival # None /\ rival' = None /\ rivals' = rivals
  BY DEF Rival, RivalChooses, RivalCopies, RivalDies
<1>3. FaultsLeft' < FaultsLeft
  <2>1. CASE rival = None /\ rivals < case.rivals /\ rivals' = rivals + 1
    BY <1>1, <2>1, CaseType DEF FaultsLeft, TypeOK, faults
  <2>2. CASE rival # None /\ rival' = None /\ rivals' = rivals
    BY <1>1, <2>2, CaseType DEF FaultsLeft, TypeOK, faults
  <2>3. QED
    BY <1>2, <2>1, <2>2
<1>4. \A k \in Jobs : /\ Left[k] \in [1..4 -> Nat] /\ Left'[k] \in [1..4 -> Nat]
                      /\ Left[k][1] = FaultsLeft /\ Left'[k][1] = FaultsLeft'
  BY DEF Left, LeftOK
<1>5. \A k \in Jobs : <<Left'[k], Left[k]>> \in Descent
  BY <1>3, <1>4, LessIsBelow
<1>6. QED
  BY <1>5 DEF LessIsLeft

(* Every step of a job, the deaths of its executions and what recovery does  *)
(* with it included, leaves less to it in an order that nothing descends for *)
(* ever, and no more to the other jobs: a job makes finitely many steps,     *)
(* whatever the database, the file system and the service do, and however    *)
(* many other jobs there are on this source file and on others.              *)
THEOREM JobsDescend == Spec => []LeftOK /\ [][LessIsLeft]_vars
<1>1. Init => Limits
  <2> SUFFICES ASSUME Init PROVE Limits
    OBVIOUS
  <2>1. TypeOK
    BY TypeInit
  <2>2. QED
    BY <2>1, CaseType DEF Init, Limits
<1>2. IInv /\ Limits /\ [Next]_vars => Limits'
  <2> SUFFICES ASSUME IInv, Limits, [Next]_vars PROVE Limits'
    OBVIOUS
  <2>1. ASSUME NEW j \in Jobs, Step(j) PROVE Limits'
    BY <2>1, LimitsStep DEF IInv
  <2>2. CASE Rival
    <3>1. /\ UNCHANGED <<case, pc, local, faults>>
          /\ rivals' = rivals \/ (rivals < case.rivals /\ rivals' = rivals + 1)
      BY <2>2 DEF Rival, RivalChooses, RivalCopies, RivalDies
    <3>2. QED
      BY <3>1, CaseType DEF IInv, TypeOK, Limits, local, service, faults
  <2>3. CASE UNCHANGED vars
    BY <2>3 DEF vars, around, others, local, service, faults, Limits
  <2>4. QED
    BY <2>1, <2>2, <2>3 DEF Next
<1>3. IInv /\ Limits => LeftOK
  BY LeftType DEF IInv
<1>4. IInv /\ Limits /\ LeftOK /\ LeftOK' /\ [Next]_vars => [LessIsLeft]_vars
  <2> SUFFICES ASSUME IInv, Limits, LeftOK, LeftOK', Next PROVE LessIsLeft
    OBVIOUS
  <2>1. ASSUME NEW j \in Jobs, Step(j) PROVE LessIsLeft
    BY <2>1, StepLess DEF IInv
  <2>2. ASSUME Rival PROVE LessIsLeft
    BY <2>2, RivalLess DEF IInv
  <2>3. QED
    BY <2>1, <2>2 DEF Next
<1>5. QED
  BY <1>1, <1>2, <1>3, <1>4, Invariance, PTL DEF Spec
=============================================================================
