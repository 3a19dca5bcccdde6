--------------------------- MODULE AnalyzePipeline ---------------------------
(* The analyze agent and the task around it: the transcript is cut into the  *)
(* chunks of each stage; outline, timeline and entities send one request per *)
(* chunk, cut in two again when a reply does not fit; the summary is drafted,*)
(* the outputs are written under new names, the SUMMARY artifact registered  *)
(* and the row closed, then the metadata.  An execution may die anywhere, any *)
(* save of the row be refused, and recovery sends the message again for a row *)
(* it finds RUNNING; that two executions never overlap is JobLifecycle's.    *)
EXTENDS Naturals, Sequences, FiniteSets

CONSTANTS
    Size,          \* characters of the prompt text, its lines joined by newlines
    Newlines,      \* those that are newlines
    SegmentLimits, \* max_prompt_segments: lines used at most; 0 for all
    CharLimit,     \* characters of a chunk of each stage
    MinLines,      \* ChunkSplitConfig.min_lines
    MinChars,      \* ChunkSplitConfig.min_chars
    Outputs,       \* files an execution writes
    MaxRuns        \* executions of the job (bound)

Listing == {"outline", "timeline", "entities"}

ASSUME AnalyzeAssumption ==
    /\ Size \in Nat \ {0} /\ SegmentLimits \subseteq Nat
    /\ Newlines \subseteq 2..(Size - 1)
    /\ \A n \in Newlines : n + 1 \notin Newlines
    /\ CharLimit \in [Listing -> Nat \ {0}]
    /\ MinLines \in Nat \ {0, 1} /\ MinChars \in Nat \ {0}
    /\ Outputs \in Nat \ {0} /\ MaxRuns \in Nat

VARIABLES
    phase,      \* where the execution is
    run,        \* its number
    status,     \* Job.status
    limit,      \* the limit of lines that is configured
    pos,        \* the first character context_builder has not taken
    chunks,     \* context_chunks of each stage
    queue,      \* chunk_queue of the stage at work
    read,       \* characters it has had answers about
    skipped,    \* characters it has given up
    requests,   \* requests it has made
    found,      \* its aggregate is not empty
    files,      \* contents of <job>__<output>_v1, _v2, ... for each output
    names,      \* the version the execution wrote of each output
    log,        \* <job>__summary_log.json
    artifacts,  \* SUMMARY artifacts of the job
    meta        \* summary files named in the job's metadata

text    == <<limit, pos, chunks>>
stage   == <<queue, read, skipped, requests, found>>
output  == <<files, names, log>>
results == <<artifacts, meta>>
vars    == <<phase, run, status, text, stage, output, results>>

Phases  == {"waiting", "begun", "setup", "agent", "context", "draft", "open", "write",
            "logging", "register", "close", "record", "dead", "over"} \cup Listing
Working == Phases \ {"waiting", "dead", "over"}

Chunk == {c \in [lo : 1..Size, hi : 1..Size] : c.lo <= c.hi}
Taken     == {p \in 1..Size : p < pos /\ p \notin Newlines}
Within(c) == (c.lo..c.hi) \ Newlines
Queued    == UNION {Within(queue[i]) : i \in DOMAIN queue}
Done      == read \cup skipped

NoFiles == [o \in 1..Outputs |-> 0]
NoLog   == [run |-> 0, names |-> NoFiles, whole |-> FALSE]

Init ==
    /\ phase = "waiting" /\ run = 0 /\ status = "PENDING"
    /\ limit \in SegmentLimits
    /\ pos = 1 /\ chunks = [s \in Listing |-> <<>>]
    /\ queue = <<>> /\ read = {} /\ skipped = {} /\ requests = 0 /\ found = FALSE
    /\ files = [o \in 1..Outputs |-> <<>>] /\ names = NoFiles /\ log = NoLog
    /\ artifacts = {} /\ meta = NoFiles

NewStage(q) ==
    /\ queue' = q
    /\ read' = {} /\ skipped' = {} /\ requests' = 0 /\ found' = FALSE

(***************************************************************************)
(* The task: a worker takes its message, it starts; it fails, or dies      *)
(***************************************************************************)
(* Variant for mutation runs: a new execution knows the files of the last. *)
BeginKnowsNames ==
    /\ phase = "waiting"
    /\ run < MaxRuns
    /\ phase' = "begun"
    /\ run' = run + 1
    /\ pos' = 1 /\ chunks' = [s \in Listing |-> <<>>]
    /\ NewStage(<<>>)
    /\ UNCHANGED <<status, limit, files, names, log, results>>

(* A worker takes the message, and reads the row and the metadata. *)
Begin ==
    /\ phase = "waiting"
    /\ run < MaxRuns
    /\ phase' = "begun"
    /\ run' = run + 1
    /\ pos' = 1 /\ chunks' = [s \in Listing |-> <<>>]
    /\ NewStage(<<>>)
    /\ names' = NoFiles
    /\ UNCHANGED <<status, limit, files, log, results>>

(* The runtime saves the row, and goes on when the save is refused. *)
Saved(new) == status' \in {new, status}

(* runtime.start(); a PENDING that recovery saves after it has the row look  *)
(* as if the save had been refused.                                          *)
Start ==
    /\ phase = "begun"
    /\ phase' = "setup"
    /\ Saved("RUNNING")
    /\ UNCHANGED <<run, text, stage, output, results>>

(* runtime.fail(): the row is FAILED, and the task over. *)
Fail ==
    /\ phase' = "over"
    /\ Saved("FAILED")

(* The worker dies, or the task raises where it does not catch: the row      *)
(* stays as it is, PENDING before runtime.start().                           *)
Die ==
    /\ phase \in Working
    /\ phase' = "dead"
    /\ UNCHANGED <<run, status, text, stage, output, results>>

(* recover_stale_jobs sends the message again for a row it finds RUNNING     *)
(* without a worker, be the execution dead or its last save refused.         *)
Recover ==
    /\ phase \in {"dead", "over"}
    /\ status = "RUNNING"
    /\ run < MaxRuns
    /\ phase' = "waiting"
    /\ Saved("PENDING")
    /\ UNCHANGED <<run, text, stage, output, results>>

(* The transcript, the settings of the LLM or a configuration may be missing. *)
SetUp ==
    /\ phase = "setup"
    /\ \/ Fail
       \/ phase' = "agent" /\ UNCHANGED status
    /\ UNCHANGED <<run, text, stage, output, results>>

(* So may a stage's provider, model or credentials; and every client is      *)
(* asked for its health.                                                     *)
Connect ==
    /\ phase = "agent"
    /\ \/ Fail
       \/ phase' = "context" /\ UNCHANGED status
    /\ UNCHANGED <<run, text, stage, output, results>>

(***************************************************************************)
(* context_builder: lines are added to the last chunk while they fit       *)
(***************************************************************************)
(* Line p..q of the text. *)
IsLine(p, q) ==
    /\ p <= q
    /\ (p..q) \cap Newlines = {}
    /\ q = Size \/ q + 1 \in Newlines

LinesTaken == Cardinality({n \in Newlines : n < pos})
Full       == limit > 0 /\ LinesTaken >= limit

(* Variant for mutation runs: the line that no longer fits is still added. *)
FitsLate(s, last, q) == (last.hi - last.lo) + 2 <= CharLimit[s]

(* Each line counts with its newline. *)
Fits(s, last, q) == (q - last.lo) + 2 <= CharLimit[s]

AddedTo(s, q) ==
    LET cs == chunks[s]
        n  == Len(cs)
    IN  IF n > 0 /\ Fits(s, cs[n], q)
        THEN [cs EXCEPT ![n].hi = q]
        ELSE Append(cs, [lo |-> pos, hi |-> q])

AddLine ==
    /\ phase = "context"
    /\ ~Full
    /\ \E q \in pos..Size :
         /\ IsLine(pos, q)
         /\ chunks' = [s \in Listing |-> AddedTo(s, q)]
         /\ pos' = q + 2
    /\ UNCHANGED <<phase, run, status, limit, stage, output, results>>

ContextBuilt ==
    /\ phase = "context"
    /\ pos > Size \/ Full
    /\ phase' = "outline"
    /\ NewStage(chunks["outline"])
    /\ UNCHANGED <<run, status, text, output, results>>

(***************************************************************************)
(* split_for_retry: halves of a chunk, by its lines or else its characters *)
(***************************************************************************)
Breaks(c) == {n \in Newlines : c.lo < n /\ n < c.hi}

LineCut(c) ==
    LET half == (Cardinality(Breaks(c)) + 1) \div 2
    IN  {n \in Breaks(c) : Cardinality({b \in Breaks(c) : b <= n}) = half}

Middle(c) == c.lo + ((c.hi - c.lo) + 1) \div 2

(* rstrip() of the left half, lstrip() of the right one. *)
Trimmed(m) ==
    [hi |-> IF m - 1 \in Newlines THEN m - 2 ELSE m - 1,
     lo |-> IF m \in Newlines THEN m + 1 ELSE m]

Cut(c, hi, lo) == <<[lo |-> c.lo, hi |-> hi], [lo |-> lo, hi |-> c.hi]>>

(* Variant for mutation runs: any chunk that is long enough is cut. *)
HalvesOfAny(c) ==
    IF c.hi - c.lo + 1 >= MinChars
    THEN {Cut(c, Trimmed(Middle(c)).hi, Trimmed(Middle(c)).lo)}
    ELSE {}

(* Variant for mutation runs: the right half starts a character late. *)
HalvesWithGap(c) ==
    IF (c.hi - c.lo) + 1 >= 2 * MinChars + 1
    THEN {Cut(c, Trimmed(Middle(c)).hi, Trimmed(Middle(c)).lo + 1)}
    ELSE {}

Halves(c) ==
    IF Cardinality(Breaks(c)) + 1 >= MinLines
    THEN {Cut(c, n - 1, n + 1) : n \in LineCut(c)}
    ELSE IF (c.hi - c.lo) + 1 >= 2 * MinChars
         THEN {Cut(c, Trimmed(Middle(c)).hi, Trimmed(Middle(c)).lo)}
         ELSE {}

(* Variant for mutation runs: the right half is pushed last. *)
PushedRightLast(h) == <<h[2], h[1]>> \o Tail(queue)

(* Both halves are pushed in front of the queue, the left one last. *)
Pushed(h) == h \o Tail(queue)

(***************************************************************************)
(* A request of a stage for the first chunk of its queue                   *)
(***************************************************************************)
Request ==
    /\ phase \in Listing
    /\ queue # <<>>
    /\ requests' = requests + 1

Consume == queue' = Tail(queue)

Read ==
    /\ Consume
    /\ read' = read \cup Within(Head(queue))
    /\ UNCHANGED <<phase, status, skipped>>

Skip ==
    /\ Consume
    /\ skipped' = skipped \cup Within(Head(queue))
    /\ UNCHANGED <<phase, status, read, found>>

Split(h) ==
    /\ queue' = Pushed(h)
    /\ UNCHANGED <<phase, status, read, skipped, found>>

(* Variant for mutation runs: the chunk is asked for again. *)
StageAsksAgain ==
    UNCHANGED <<phase, status, queue, read, skipped, found>>

StageFails ==
    /\ Fail
    /\ UNCHANGED <<queue, read, skipped, found>>

(* The reply is JSON of the schema.  An outline counts whatever it says;     *)
(* events and entities may be missing, or none of them usable.               *)
Answer ==
    /\ Request
    /\ Read
    /\ found' \in (IF phase = "outline" THEN {TRUE} ELSE {found, TRUE})
    /\ UNCHANGED <<run, text, output, results>>

(* chat() raises, and the message has the word "length" in it. *)
TooLong ==
    /\ Request
    /\ \/ \E h \in Halves(Head(queue)) : Split(h)
       \/ Halves(Head(queue)) = {} /\ StageFails
    /\ UNCHANGED <<run, text, output, results>>

(* Variant for mutation runs: so does the outline. *)
SkipsAny == Listing

(* Stages that go on with the next chunk when a reply is not a JSON object. *)
Skips == {"timeline", "entities"}

(* The reply is no JSON object.  Only the timeline ever cuts the chunk: the  *)
(* others look for "invalid json" in the parser's message, which reads       *)
(* "Invalid entity stage payload: ..." or "Invalid outline stage payload".   *)
Garbled ==
    /\ Request
    /\ \/ phase = "timeline" /\ \E h \in Halves(Head(queue)) : Split(h)
       \/ phase = "timeline" /\ Halves(Head(queue)) = {} /\ Skip
       \/ phase \in Skips \ {"timeline"} /\ Skip
       \/ phase \notin Skips /\ StageFails
    /\ UNCHANGED <<run, text, output, results>>

(* The reply is blank: the outline cannot be parsed from it. *)
Blank ==
    /\ Request
    /\ \/ phase \in Skips /\ Skip
       \/ phase \notin Skips /\ StageFails
    /\ UNCHANGED <<run, text, output, results>>

(* chat() raises anything else. *)
ServiceFails ==
    /\ Request
    /\ StageFails
    /\ UNCHANGED <<run, text, output, results>>

(* Variant for mutation runs: a stage without results waits for some. *)
NextPhaseNever == [outline |-> "outline", timeline |-> "timeline", entities |-> "entities"]

NextPhase == [outline |-> "timeline", timeline |-> "entities", entities |-> "draft"]

StageDone ==
    /\ phase \in Listing
    /\ queue = <<>>
    /\ found
    /\ phase' = NextPhase[phase]
    /\ NewStage(IF NextPhase[phase] \in Listing THEN chunks[NextPhase[phase]] ELSE <<>>)
    /\ UNCHANGED <<run, status, text, output, results>>

StageFoundNothing ==
    /\ phase \in Listing
    /\ queue = <<>>
    /\ ~found
    /\ Fail
    /\ UNCHANGED <<run, text, stage, output, results>>

(* One request with the first chunk only; nothing but a summary of the       *)
(* schema will do.  qa_and_finalize adds headings to it.                     *)
Draft ==
    /\ phase = "draft"
    /\ \/ Fail
       \/ phase' = "open" /\ UNCHANGED status
    /\ UNCHANGED <<run, text, stage, output, results>>

(***************************************************************************)
(* finalize_outputs: each file under a name of its own, then the log       *)
(***************************************************************************)
(* Variant for mutation runs: the first name is used again. *)
FirstVersion(o) == 1

(* next_versioned: nothing removes these files, so versions have no gaps. *)
NextVersion(o) == Len(files[o]) + 1

Mine(whole) == [run |-> run, whole |-> whole]

WriteAt(f, v, content) ==
    IF v \in DOMAIN f THEN [f EXCEPT ![v] = content] ELSE Append(f, content)

(* Outputs are written in order: the next one, and the last one opened. *)
IsNext(o) == names[o] = 0 /\ \A k \in 1..Outputs : k < o => names[k] # 0
IsLast(o) == names[o] # 0 /\ \A k \in 1..Outputs : k > o => names[k] = 0

OpenFile ==
    /\ phase = "open"
    /\ \E o \in 1..Outputs :
         /\ IsNext(o)
         /\ names' = [names EXCEPT ![o] = NextVersion(o)]
         /\ files' = [files EXCEPT ![o] = WriteAt(files[o], NextVersion(o), Mine(FALSE))]
    /\ phase' = "write"
    /\ UNCHANGED <<run, status, text, stage, log, results>>

(* A write that raises ends the task; what was written of the file stays. *)
WriteFile ==
    /\ phase = "write"
    /\ \/ Fail /\ UNCHANGED files
       \/ \E o \in 1..Outputs :
            /\ IsLast(o)
            /\ files' = [files EXCEPT ![o] = WriteAt(files[o], names[o], Mine(TRUE))]
            /\ phase' = IF o = Outputs THEN "logging" ELSE "open"
            /\ UNCHANGED status
    /\ UNCHANGED <<run, text, stage, names, log, results>>

(* The log of an earlier execution is overwritten in place. *)
OpenLog ==
    /\ phase = "logging" /\ (log.whole \/ log.run # run)
    /\ log' = [run |-> run, names |-> names, whole |-> FALSE]
    /\ UNCHANGED <<phase, run, status, text, stage, files, names, results>>

WriteLog ==
    /\ phase = "logging" /\ log.run = run /\ ~log.whole
    /\ \/ Fail /\ UNCHANGED log
       \/ /\ log' = [log EXCEPT !.whole = TRUE]
          /\ phase' = "register"
          /\ UNCHANGED status
    /\ UNCHANGED <<run, text, stage, files, names, results>>

(* The row of the artifact is made, or refused (its title may be taken by    *)
(* now), which the task ignores.                                             *)
Register ==
    /\ phase = "register"
    /\ artifacts' \in {artifacts, artifacts \cup {[run |-> run, names |-> names]}}
    /\ phase' = "close"
    /\ UNCHANGED <<run, status, text, stage, output, meta>>

(* runtime.succeed() saves the row, *)
Succeed ==
    /\ phase = "close"
    /\ Saved("SUCCEEDED")
    /\ phase' = "record"
    /\ UNCHANGED <<run, text, stage, output, results>>

(* and then the metadata, unless that raises, which it ignores. *)
Record ==
    /\ phase = "record"
    /\ meta' \in {names, meta}
    /\ phase' = "over"
    /\ UNCHANGED <<run, status, text, stage, output, artifacts>>

(***************************************************************************)
(* The specification                                                       *)
(***************************************************************************)
Chat == Answer \/ TooLong \/ Garbled \/ Blank \/ ServiceFails

Work ==
    \/ Start \/ SetUp \/ Connect \/ AddLine \/ ContextBuilt
    \/ Chat \/ StageDone \/ StageFoundNothing \/ Draft
    \/ OpenFile \/ WriteFile \/ OpenLog \/ WriteLog \/ Register \/ Succeed \/ Record

Next == Begin \/ Die \/ Recover \/ Work

Spec == Init /\ [][Next]_vars

(* Workers take messages; one goes on until it is done or dies; every        *)
(* request it sends is answered, refused or times out; beat runs recovery.   *)
FairSpec == Spec /\ WF_vars(Begin) /\ WF_vars(Work) /\ WF_vars(Recover)

(***************************************************************************)
(* Properties                                                              *)
(***************************************************************************)
(* Values stay in their domains; above all no chunk that is queued is empty. *)
TypeOK ==
    /\ phase \in Phases /\ run \in 0..MaxRuns
    /\ status \in {"PENDING", "RUNNING", "FAILED", "SUCCEEDED"}
    /\ limit \in SegmentLimits /\ pos \in 1..(Size + 2)
    /\ chunks \in [Listing -> Seq(Chunk)]
    /\ queue \in Seq(Chunk)
    /\ read \subseteq 1..Size /\ skipped \subseteq 1..Size
    /\ requests \in Nat /\ found \in BOOLEAN
    /\ files \in [1..Outputs -> Seq([run : 1..MaxRuns, whole : BOOLEAN])]
    /\ names \in [1..Outputs -> Nat]
    /\ log \in [run : 0..MaxRuns, names : [1..Outputs -> Nat], whole : BOOLEAN]
    /\ artifacts \subseteq [run : 1..MaxRuns, names : [1..Outputs -> Nat]]
    /\ meta \in [1..Outputs -> Nat]

(* However chunks are cut, every character context_builder took is asked     *)
(* about or given up by the stage at work, or is still in its queue.         *)
NothingLost == phase \in Listing => Taken \subseteq Done \cup Queued

(* Chunks are asked about in the order of the text: nothing that was asked   *)
(* about lies behind what is queued, so nothing is asked about twice.        *)
InOrder ==
    /\ \A i, j \in DOMAIN queue : i < j => queue[i].hi < queue[j].lo
    /\ \A p \in Done : \A i \in DOMAIN queue : p < queue[i].lo

(* An outline that lets the analysis go on leaves nothing out. *)
OutlineIsWhole == phase = "outline" => skipped = {}

(* A chunk is longer than its stage allows only if it is a single line. *)
ChunksFit ==
    \A s \in Listing : \A i \in DOMAIN chunks[s] :
        LET c == chunks[s][i]
        IN  (c.hi - c.lo) + 2 <= CharLimit[s] \/ Breaks(c) = {}

(* Cutting ends: a stage makes at most two requests per character. *)
RequestsBounded == requests <= 2 * Size

(* An artifact keeps naming the whole files of the one execution it was      *)
(* registered by, whatever later executions write.                           *)
ArtifactKeepsItsFiles ==
    \A a \in artifacts : \A o \in 1..Outputs :
        /\ a.names[o] \in DOMAIN files[o]
        /\ files[o][a.names[o]] = [run |-> a.run, whole |-> TRUE]

(* The log of a job that succeeded names the files of the execution that     *)
(* did, all whole.  The metadata, written after the row and without regard   *)
(* to failure, may name older files or none: what it names is whole all the  *)
(* same, and of one execution.                                               *)
SucceededIsWhole ==
    /\ status = "SUCCEEDED" =>
         /\ log.run = run /\ log.whole
         /\ \A o \in 1..Outputs :
              /\ log.names[o] \in DOMAIN files[o]
              /\ files[o][log.names[o]] = [run |-> run, whole |-> TRUE]
    /\ meta # NoFiles =>
         \E r \in 1..run : \A o \in 1..Outputs :
             /\ meta[o] \in DOMAIN files[o]
             /\ files[o][meta[o]] = [run |-> r, whole |-> TRUE]

(* Whatever the service replies, executions come to an end, and a row that   *)
(* says RUNNING is not left behind unless recovery runs out of them (the     *)
(* bound).  One left PENDING is: recovery does not look for it.              *)
EveryRunEnds ==
    <>[](phase \in {"dead", "over"} /\ (status = "RUNNING" => run = MaxRuns))
=============================================================================
