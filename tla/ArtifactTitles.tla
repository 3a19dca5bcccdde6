--------------------------- MODULE ArtifactTitles ---------------------------
(* How the jobs of one case register their artifacts.  The table has one row *)
(* per (case, type, title); titles are numbered by unique_title() over the   *)
(* titles read some steps earlier, and an insert that collides raises.  A    *)
(* transcription swallows that exception, a compose dies of it.              *)
EXTENDS Naturals, FiniteSets, FiniteSetsExt

CONSTANTS
    UiJobs,       \* transcriptions created in the web pages: title reserved
    ApiJobs,      \* transcriptions created by POST upload: no title reserved
    ComposeJobs,  \* composes
    Hints,        \* title hints of the deliverables a compose may have
    Extensions,   \* <<h, g>> if the hint g begins with the hint h
    Cases,        \* sets of jobs to consider as those of the case (bound)
    MaxRuns       \* executions of a job (bound)

Transcriptions == UiJobs \cup ApiJobs
Jobs           == Transcriptions \cup ComposeJobs
Transcript     == "Transcript"

ASSUME TitlesAssumption ==
    /\ UiJobs \cap ApiJobs = {}
    /\ Transcriptions \cap ComposeJobs = {}
    /\ Transcript \notin Hints
    /\ Extensions \subseteq Hints \X Hints
    /\ Cases \subseteq SUBSET Jobs
    /\ MaxRuns \in Nat \ {0}

VARIABLES
    table,     \* registered artifacts: [job, hint, n]
    reserved,  \* number of the job_title in the metadata of each job, 0 if none
    pc,        \* where each job is
    titles,    \* titles each job has read and chosen: [hint, n]
    produced,  \* deliverables whose file the current execution of a compose left
    made,      \* hints for which the current execution has inserted its artifact
    runs,      \* executions of each job
    clean      \* history: nobody chose a new title of the same type between
               \* another's reading of the titles and its use of them

vars == <<table, reserved, pc, titles, produced, made, runs, clean>>

Title(h, n) == [hint |-> h, n |-> n]

(* Variant for mutation runs: the highest number is used again. *)
UniqueTitleRepeats(h, existing) ==
    LET numbers == {t.n : t \in {x \in existing : x.hint = h \/ <<h, x.hint>> \in Extensions}}
    IN  Title(h, Max(numbers \cup {0}))

(* unique_title(): one more than the highest number behind any title that    *)
(* begins with the hint.                                                     *)
UniqueTitle(h, existing) ==
    LET numbers == {t.n : t \in {x \in existing : x.hint = h \/ <<h, x.hint>> \in Extensions}}
    IN  Title(h, 1 + Max(numbers \cup {0}))

Registered == {Title(a.hint, a.n) : a \in table}
Reserved   == {Title(Transcript, reserved[j]) : j \in {u \in Jobs : reserved[u] # 0}}

TitlesFor(j) ==
    {t \in Registered : t.hint = Transcript <=> j \in Transcriptions}

(* Jobs of the type of j that will yet use titles they have read before. *)
Holding(j) ==
    {i \in Jobs \ {j} : /\ pc[i] = "naming" \/ (pc[i] = "registering" /\ reserved[i] = 0)
                        /\ i \in Transcriptions <=> j \in Transcriptions}

Init ==
    /\ table = {}
    /\ reserved = [j \in Jobs |-> 0]
    /\ \E jobs \in Cases :
          pc = [j \in Jobs |-> CASE j \notin jobs -> "absent"
                                [] j \in jobs \cap UiJobs -> "new"
                                [] OTHER -> "sent"]
    /\ titles = [j \in Jobs |-> {}]
    /\ produced = [j \in Jobs |-> {}]
    /\ made = [j \in Jobs |-> {}]
    /\ runs = [j \in Jobs |-> 0]
    /\ clean = TRUE

(* Variant for mutation runs: reserved titles are not looked at. *)
ReadForNameTableOnly(j) ==
    /\ pc[j] = "new"
    /\ pc' = [pc EXCEPT ![j] = "naming"]
    /\ titles' = [titles EXCEPT ![j] = TitlesFor(j)]
    /\ UNCHANGED <<table, reserved, produced, made, runs, clean>>

(* The page reads the titles in the table and those in all metadata files ...*)
ReadForName(j) ==
    /\ pc[j] = "new"
    /\ pc' = [pc EXCEPT ![j] = "naming"]
    /\ titles' = [titles EXCEPT ![j] = TitlesFor(j) \cup Reserved]
    /\ UNCHANGED <<table, reserved, produced, made, runs, clean>>

(* ... writes the next one in the metadata of the job and sends the job. *)
Reserve(j) ==
    /\ pc[j] = "naming"
    /\ pc' = [pc EXCEPT ![j] = "sent"]
    /\ reserved' = [reserved EXCEPT ![j] = UniqueTitle(Transcript, titles[j]).n]
    /\ titles' = [titles EXCEPT ![j] = {}]
    /\ clean' = (clean /\ Holding(j) = {})
    /\ UNCHANGED <<table, produced, made, runs>>

(* A compose returns paths for some of its deliverables only, and a file may *)
(* be missing: _create_artifact() passes over those without a word.          *)
Returned(j) ==
    \E files \in SUBSET (IF j \in ComposeJobs THEN Hints ELSE {}) :
        produced' = [produced EXCEPT ![j] = files]

(* Variant for mutation runs: the job's own artifacts are left out. *)
ReadTitlesOfOthers(j) ==
    /\ pc[j] = "sent"
    /\ runs[j] < MaxRuns
    /\ pc' = [pc EXCEPT ![j] = "registering"]
    /\ runs' = [runs EXCEPT ![j] = @ + 1]
    /\ titles' = [titles EXCEPT ![j] =
           TitlesFor(j) \ {Title(a.hint, a.n) : a \in {b \in table : b.job = j}}]
    /\ Returned(j)
    /\ made' = [made EXCEPT ![j] = {}]
    /\ UNCHANGED <<table, reserved, clean>>

(* The agent of an execution has returned: the titles in the table are read. *)
ReadTitles(j) ==
    /\ pc[j] = "sent"
    /\ runs[j] < MaxRuns
    /\ pc' = [pc EXCEPT ![j] = "registering"]
    /\ runs' = [runs EXCEPT ![j] = @ + 1]
    /\ titles' = [titles EXCEPT ![j] = TitlesFor(j)]
    /\ Returned(j)
    /\ made' = [made EXCEPT ![j] = {}]
    /\ UNCHANGED <<table, reserved, clean>>

Insert(j, t) == table' = table \cup {[job |-> j, hint |-> t.hint, n |-> t.n]}

(* A transcription takes the reserved title, or the next one, and succeeds   *)
(* whether or not the insert did.                                            *)
RegisterTranscript(j) ==
    LET t == IF reserved[j] # 0 THEN Title(Transcript, reserved[j])
                                ELSE UniqueTitle(Transcript, titles[j])
    IN  /\ j \in Transcriptions
        /\ pc[j] = "registering"
        /\ IF t \in Registered THEN UNCHANGED table ELSE Insert(j, t)
        /\ pc' = [pc EXCEPT ![j] = "succeeded"]
        /\ titles' = [titles EXCEPT ![j] = {}]
        /\ clean' = (clean /\ (reserved[j] # 0 \/ Holding(j) = {}))
        /\ UNCHANGED <<reserved, produced, made, runs>>

(* Variant for mutation runs: a collision is swallowed. *)
RegisterDeliverableAnyway(j, h) ==
    LET t == UniqueTitle(h, titles[j])
    IN  /\ j \in ComposeJobs
        /\ pc[j] = "registering"
        /\ h \in produced[j] \ made[j]
        /\ IF t \in Registered THEN UNCHANGED table ELSE Insert(j, t)
        /\ titles' = [titles EXCEPT ![j] = @ \cup {t}]
        /\ made' = [made EXCEPT ![j] = @ \cup {h}]
        /\ clean' = (clean /\ Holding(j) = {})
        /\ UNCHANGED <<pc, reserved, produced, runs>>

(* A compose inserts the artifacts of its files one by one; a collision ends *)
(* the task and leaves the job RUNNING.  Job.case and Job.organization are   *)
(* never null, so the checks for them pass.                                  *)
RegisterDeliverable(j, h) ==
    LET t == UniqueTitle(h, titles[j])
    IN  /\ j \in ComposeJobs
        /\ pc[j] = "registering"
        /\ h \in produced[j] \ made[j]
        /\ IF t \in Registered
           THEN /\ pc' = [pc EXCEPT ![j] = "aborted"]
                /\ titles' = [titles EXCEPT ![j] = {}]
                /\ UNCHANGED <<table, made, clean>>
           ELSE /\ Insert(j, t)
                /\ titles' = [titles EXCEPT ![j] = @ \cup {t}]
                /\ made' = [made EXCEPT ![j] = @ \cup {h}]
                /\ clean' = (clean /\ Holding(j) = {})
                /\ UNCHANGED pc
        /\ UNCHANGED <<reserved, produced, runs>>

ComposeSucceeds(j) ==
    /\ j \in ComposeJobs
    /\ pc[j] = "registering"
    /\ made[j] = produced[j]
    /\ pc' = [pc EXCEPT ![j] = "succeeded"]
    /\ titles' = [titles EXCEPT ![j] = {}]
    /\ UNCHANGED <<table, reserved, produced, made, runs, clean>>

(* The worker dies between two inserts. *)
Crash(j) ==
    /\ pc[j] = "registering"
    /\ pc' = [pc EXCEPT ![j] = "crashed"]
    /\ titles' = [titles EXCEPT ![j] = {}]
    /\ UNCHANGED <<table, reserved, produced, made, runs, clean>>

(* Recovery sends the job again. *)
Resume(j) ==
    /\ pc[j] \in {"aborted", "crashed"}
    /\ pc' = [pc EXCEPT ![j] = "sent"]
    /\ UNCHANGED <<table, reserved, titles, produced, made, runs, clean>>

Next == \E j \in Jobs :
    \/ ReadForName(j) \/ Reserve(j) \/ ReadTitles(j) \/ RegisterTranscript(j)
    \/ \E h \in Hints : RegisterDeliverable(j, h)
    \/ ComposeSucceeds(j) \/ Crash(j) \/ Resume(j)

Spec == Init /\ [][Next]_vars

(***************************************************************************)
(* Properties                                                              *)
(***************************************************************************)
Titles == [hint : Hints \cup {Transcript}, n : Nat \ {0}]

(* Every variable has its type. *)
TypeOK ==
    /\ table \subseteq [job : Jobs, hint : Hints \cup {Transcript}, n : Nat \ {0}]
    /\ reserved \in [Jobs -> Nat]
    /\ pc \in [Jobs -> {"absent", "new", "naming", "sent", "registering", "succeeded",
                    "aborted", "crashed"}]
    /\ titles \in [Jobs -> SUBSET Titles]
    /\ produced \in [Jobs -> SUBSET Hints]
    /\ made \in [Jobs -> SUBSET Hints]
    /\ runs \in [Jobs -> 0..MaxRuns]
    /\ clean \in BOOLEAN

(* A compose that says SUCCEEDED has registered an artifact for every        *)
(* deliverable whose file its execution left, whatever executions before it  *)
(* left behind and whichever compose of the case ran beside it.  Deliverables*)
(* without a file are passed over: nothing is claimed of them.               *)
SucceededComposeIsComplete ==
    \A j \in ComposeJobs : pc[j] = "succeeded" =>
        \A h \in produced[j] : \E a \in table : a.job = j /\ a.hint = h

(* unique_title() is right for composes: as long as no two of them overlap   *)
(* between reading the titles and using them, no insert collides, though a   *)
(* resumed compose finds the artifacts of its own earlier executions.        *)
ComposesCollideOnlyByOverlap ==
    clean => \A j \in ComposeJobs : pc[j] # "aborted"

(* As long as no two web pages read the titles before either has reserved    *)
(* one, and the case has no upload through the API, which looks at the table *)
(* only, a transcription that says SUCCEEDED has its transcript registered   *)
(* under the title it was promised, although it is sent and executed much    *)
(* later, perhaps several times, and nobody looks at the table again.        *)
ReservedTitleIsKept ==
    clean => \A j \in UiJobs : pc[j] = "succeeded" =>
        \E a \in table : a.job = j /\ a.n = reserved[j]
=============================================================================
