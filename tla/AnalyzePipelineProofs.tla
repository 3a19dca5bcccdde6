------------------------ MODULE AnalyzePipelineProofs ------------------------
(* Proofs about AnalyzePipeline, for any text, limits and outputs.           *)
EXTENDS AnalyzePipeline, Integers, FiniteSetTheorems, SequenceTheorems, WellFoundedInduction, TLAPS

(***************************************************************************)
(* Lists of chunks                                                         *)
(***************************************************************************)
(* Chunks begin and end with text, and each begins after the one before it, *)
(* which takes a character at least.                                        *)
Edges(c) == c.lo \notin Newlines /\ c.hi \notin Newlines

Tidy(q) ==
    /\ q \in Seq(Chunk)
    /\ \A i \in DOMAIN q : Edges(q[i])
    /\ \A i, j \in DOMAIN q : i < j => q[i].hi < q[j].lo
    /\ \A i, j \in DOMAIN q : i < j => q[i].lo + (j - i) <= q[j].lo

TextOf(q) == UNION {Within(q[i]) : i \in DOMAIN q}

(* What a cut leaves of a chunk: two chunks that are not empty, the first    *)
(* before the second, with nothing but newlines between them.                *)
CutWell(c, h) ==
    /\ h \in Seq(Chunk) /\ Len(h) = 2
    /\ Edges(h[1]) /\ Edges(h[2])
    /\ h[1].lo = c.lo /\ h[1].hi < h[2].lo /\ h[2].hi = c.hi
    /\ Within(c) \subseteq Within(h[1]) \cup Within(h[2])

(* A chunk is an interval of characters of the text.                         *)
LEMMA ChunkType ==
    ASSUME NEW c \in Chunk
    PROVE  c.lo \in Int /\ c.hi \in Int /\ 1 <= c.lo /\ c.lo <= c.hi /\ c.hi <= Size
BY AnalyzeAssumption DEF Chunk

(* What one cut returns: tidy pieces with the text of the chunk.             *)
LEMMA CutIsWell ==
    ASSUME NEW c \in Chunk, Edges(c), NEW m \in Int, NEW n \in Int,
           c.lo <= m, m < n, n <= c.hi, m \notin Newlines, n \notin Newlines,
           \A p \in m + 1 .. n - 1 : p \in Newlines
    PROVE  CutWell(c, Cut(c, m, n))
<1> DEFINE a == [lo |-> c.lo, hi |-> m]
           b == [lo |-> n, hi |-> c.hi]
<1>1. a \in Chunk /\ b \in Chunk
  BY AnalyzeAssumption DEF Chunk
<1>2. Cut(c, m, n) = <<a, b>>
  BY DEF Cut
<1>3. Within(c) \subseteq Within(a) \cup Within(b)
  <2> SUFFICES ASSUME NEW p \in c.lo .. c.hi, p \notin Newlines
               PROVE  p \in c.lo .. m \/ p \in n .. c.hi
    BY DEF Within
  <2> QED
    BY AnalyzeAssumption DEF Chunk
<1> HIDE DEF a, b
<1>4. QED
  BY <1>1, <1>2, <1>3 DEF CutWell, Edges, a, b

(* Cutting a chunk for another attempt loses none of its text.               *)
LEMMA HalvesAreCutWell ==
    ASSUME NEW c \in Chunk, Edges(c), NEW h \in Halves(c)
    PROVE  CutWell(c, h)
<1>1. c.lo \in Nat /\ c.hi \in Nat /\ c.lo <= c.hi
  BY AnalyzeAssumption DEF Chunk
<1>2. CASE Cardinality(Breaks(c)) + 1 >= MinLines
  <2>1. PICK n \in LineCut(c) : h = Cut(c, n - 1, n + 1)
    BY <1>2 DEF Halves
  <2>2. n \in Newlines /\ n \in Int /\ c.lo < n /\ n < c.hi
    BY AnalyzeAssumption DEF LineCut, Breaks
  <2>3. n - 1 \notin Newlines /\ n + 1 \notin Newlines
    BY <2>2, AnalyzeAssumption
  <2>4. QED
    BY <1>1, <2>1, <2>2, <2>3, CutIsWell
<1>3. CASE ~(Cardinality(Breaks(c)) + 1 >= MinLines)
  <2> DEFINE m == Middle(c)
  <2>1. /\ (c.hi - c.lo) + 1 >= 2 * MinChars
        /\ h = Cut(c, Trimmed(m).hi, Trimmed(m).lo)
    BY <1>3 DEF Halves
  <2>2. m \in Int /\ c.lo < m /\ m <= c.hi
    BY <1>1, <2>1, AnalyzeAssumption DEF Middle
  <2> HIDE DEF m
  <2>3. Trimmed(m).hi \in Int /\ Trimmed(m).lo \in Int
    BY <2>2 DEF Trimmed
  <2>4. /\ Trimmed(m).hi < m /\ Trimmed(m).hi \notin Newlines
        /\ c.lo <= Trimmed(m).hi
        /\ \A p \in Trimmed(m).hi + 1 .. m - 1 : p \in Newlines
    BY <1>1, <2>2, AnalyzeAssumption DEF Trimmed, Edges
  <2>5. /\ m <= Trimmed(m).lo /\ Trimmed(m).lo \notin Newlines
        /\ Trimmed(m).lo <= c.hi
        /\ \A p \in m .. Trimmed(m).lo - 1 : p \in Newlines
    BY <1>1, <2>2, AnalyzeAssumption DEF Trimmed, Edges
  <2>6. \A p \in Trimmed(m).hi + 1 .. Trimmed(m).lo - 1 : p \in Newlines
    BY <2>2, <2>3, <2>4, <2>5
  <2>7. QED
    BY <2>1, <2>2, <2>3, <2>4, <2>5, <2>6, CutIsWell
<1>4. QED
  BY <1>2, <1>3

(* No chunks are tidy and have no text.                                      *)
LEMMA EmptyIsTidy == Tidy(<<>>) /\ TextOf(<<>>) = {}
BY DEF Tidy, TextOf

(* The first of tidy chunks is one, and has text.                            *)
LEMMA HeadIsChunk ==
    ASSUME NEW q, Tidy(q), q # <<>>
    PROVE  q[1] \in Chunk /\ Edges(q[1]) /\ Head(q) = q[1] /\ Len(q) \in Nat \ {0}
BY DEF Tidy

(* Tidy chunks without the first are tidy.                                   *)
LEMMA TailIsTidy ==
    ASSUME NEW q, Tidy(q), q # <<>>
    PROVE  /\ Tidy(Tail(q))
           /\ TextOf(q) = Within(q[1]) \cup TextOf(Tail(q))
           /\ \A i \in DOMAIN Tail(q) : i + 1 \in DOMAIN q /\ Tail(q)[i] = q[i + 1]
<1>1. q \in Seq(Chunk) /\ Tail(q) \in Seq(Chunk) /\ Len(Tail(q)) = Len(q) - 1
  BY DEF Tidy
<1>2. \A i \in DOMAIN Tail(q) : i + 1 \in DOMAIN q /\ Tail(q)[i] = q[i + 1]
  BY <1>1
<1>3. \A i \in DOMAIN q : i = 1 \/ (i - 1 \in DOMAIN Tail(q) /\ Tail(q)[i - 1] = q[i])
  BY <1>1
<1>4. TextOf(q) = Within(q[1]) \cup TextOf(Tail(q))
  <2>1. 1 \in DOMAIN q
    BY <1>1
  <2>2. QED
    BY <2>1, <1>2, <1>3 DEF TextOf
<1>5. Tidy(Tail(q))
  <2>1. \A i \in DOMAIN Tail(q) : i \in Nat
    BY <1>1
  <2>2. \A i \in DOMAIN q : q[i].lo \in Int
    BY <1>1 DEF Chunk
  <2>3. \A i \in DOMAIN Tail(q) : Edges(Tail(q)[i])
    BY <1>2 DEF Tidy
  <2>4. ASSUME NEW i \in DOMAIN Tail(q), NEW j \in DOMAIN Tail(q), i < j
        PROVE  /\ Tail(q)[i].hi < Tail(q)[j].lo
               /\ Tail(q)[i].lo + (j - i) <= Tail(q)[j].lo
    <3>1. i + 1 < j + 1 /\ (j + 1) - (i + 1) = j - i
      BY <2>1, <2>4
    <3>2. /\ q[i + 1].hi < q[j + 1].lo
          /\ q[i + 1].lo + ((j + 1) - (i + 1)) <= q[j + 1].lo
      BY <1>2, <3>1 DEF Tidy
    <3>3. QED
      BY <1>2, <3>1, <3>2
  <2>5. QED
    BY <1>1, <2>3, <2>4 DEF Tidy
<1>6. QED
  BY <1>2, <1>4, <1>5

(* Cutting the first chunk of a queue leaves the queue tidy and whole. *)
LEMMA CutIsTidy ==
    ASSUME NEW q, Tidy(q), q # <<>>, NEW h, CutWell(q[1], h)
    PROVE  /\ Tidy(h \o Tail(q))
           /\ TextOf(q) \subseteq TextOf(h \o Tail(q))
           /\ Len(h \o Tail(q)) = Len(q) + 1
           /\ (h \o Tail(q))[1].lo = q[1].lo
<1> DEFINE r == h \o Tail(q)
<1>1. /\ q \in Seq(Chunk) /\ Tail(q) \in Seq(Chunk) /\ Len(Tail(q)) = Len(q) - 1
      /\ h \in Seq(Chunk) /\ Len(h) = 2 /\ Len(q) \in Nat \ {0}
  BY DEF Tidy, CutWell
<1>2. /\ r \in Seq(Chunk) /\ Len(r) = Len(q) + 1
      /\ \A i \in 1..Len(q) + 1 : r[i] = IF i <= 2 THEN h[i] ELSE Tail(q)[i - 2]
  <2>1. 2 + (Len(q) - 1) = Len(q) + 1
    BY <1>1
  <2>2. /\ h \o Tail(q) \in Seq(Chunk)
        /\ Len(h \o Tail(q)) = Len(h) + Len(Tail(q))
        /\ \A i \in 1..Len(h) + Len(Tail(q)) :
             (h \o Tail(q))[i] = IF i <= Len(h) THEN h[i] ELSE Tail(q)[i - Len(h)]
    BY <1>1, ConcatProperties
  <2>3. Len(h) + Len(Tail(q)) = Len(q) + 1
    BY <1>1, <2>1
  <2>4. QED
    BY <1>1, <2>2, <2>3
<1>3. r \in Seq(Chunk) /\ Len(r) = Len(q) + 1 /\ r[1] = h[1] /\ r[2] = h[2]
  BY <1>2, <1>1
<1>4. \A i \in 1..Len(q) - 1 : Tail(q)[i] = q[i + 1]
  BY <1>1, HeadTailProperties
<1> HIDE DEF r
<1>5. DOMAIN q = 1..Len(q) /\ DOMAIN r = 1..Len(q) + 1
  BY <1>2, <1>1
<1>6. ASSUME NEW i \in DOMAIN r
      PROVE  i = 1 \/ i = 2 \/ (i - 1 \in DOMAIN q /\ i > 2 /\ r[i] = q[i - 1])
  <2>1. CASE i > 2
    <3>1. i - 2 \in 1..Len(q) - 1 /\ i - 1 \in DOMAIN q /\ (i - 2) + 1 = i - 1
      BY <1>1, <1>5, <2>1
    <3>2. r[i] = Tail(q)[i - 2]
      BY <1>2, <1>1, <1>5, <2>1
    <3>3. QED
      BY <1>4, <2>1, <3>1, <3>2
  <2>2. QED
    BY <1>1, <1>5, <2>1
<1>7. ASSUME NEW i \in DOMAIN q
      PROVE  i = 1 \/ (i + 1 \in DOMAIN r /\ r[i + 1] = q[i])
  <2>1. i + 1 \in DOMAIN r /\ (i + 1) - 1 = i /\ (i + 1 = 1 \/ i + 1 = 2 => i = 1)
    BY <1>1, <1>5
  <2>2. QED
    BY <1>6, <2>1
<1>8. 1 \in DOMAIN q /\ 1 \in DOMAIN r /\ 2 \in DOMAIN r
  BY <1>1, <1>5
<1>9. TextOf(q) \subseteq TextOf(r)
  <2>1. Within(q[1]) \subseteq Within(r[1]) \cup Within(r[2])
    BY <1>3 DEF CutWell
  <2>2. QED
    BY <1>7, <1>8, <2>1 DEF TextOf
<1>10. \A i \in DOMAIN r : Edges(r[i])
  BY <1>3, <1>6 DEF CutWell, Tidy
<1>11. ASSUME NEW i \in DOMAIN r, NEW j \in DOMAIN r, i < j
      PROVE  r[i].hi < r[j].lo /\ r[i].lo + (j - i) <= r[j].lo
  <2>1. /\ i \in Nat /\ j \in Nat /\ q[1] \in Chunk /\ h[1] \in Chunk /\ h[2] \in Chunk
        /\ r[i] \in Chunk /\ r[j] \in Chunk
    BY <1>1, <1>3, <1>8
  <2>2. /\ q[1].lo \in Int /\ q[1].hi \in Int
        /\ h[1].lo = q[1].lo /\ h[1].hi \in Int /\ h[1].lo <= h[1].hi
        /\ h[1].hi < h[2].lo
        /\ h[2].lo \in Int /\ h[2].hi = q[1].hi /\ h[2].lo <= h[2].hi
    BY <2>1, ChunkType DEF CutWell
  <2>3. CASE i = 1 /\ j = 2
    BY <1>3, <2>3, <2>2
  <2>4. CASE i <= 2 /\ j > 2
    <3>1. j - 1 \in DOMAIN q /\ r[j] = q[j - 1] /\ 1 < j - 1
      BY <1>6, <2>1, <2>4
    <3>2. q[1].hi < q[j - 1].lo /\ q[1].lo + ((j - 1) - 1) <= q[j - 1].lo
      BY <1>8, <3>1 DEF Tidy
    <3>3. i = 1 \/ i = 2
      BY <2>1, <2>4, <1>3
    <3>4. q[j - 1].lo \in Int
      BY <3>1, <1>1, ChunkType
    <3>5. CASE i = 1
      <4>1. r[i].lo = q[1].lo /\ r[i].hi < q[1].hi
        BY <1>3, <2>2, <3>5
      <4>2. j = 3 \/ j > 3
        BY <2>1, <2>4
      <4>3. CASE j = 3
        BY <1>3, <2>2, <3>1, <3>2, <3>4, <3>5, <4>1, <4>3
      <4>4. CASE j > 3
        <5>1. /\ 2 \in DOMAIN q /\ q[2] \in Chunk
              /\ q[1].hi < q[2].lo /\ q[2].lo + ((j - 1) - 2) <= q[j - 1].lo
          BY <1>1, <1>8, <2>1, <3>1, <4>4 DEF Tidy
        <5>2. q[2].lo \in Int
          BY <5>1, ChunkType
        <5>3. q[1].lo + 2 <= q[2].lo
          BY <2>2, <5>1, <5>2
        <5>4. q[1].lo + (j - 1) <= q[j - 1].lo
          BY <2>1, <2>2, <3>4, <5>1, <5>2, <5>3
        <5>5. r[i].hi \in Int
          BY <1>3, <2>2, <3>5
        <5>6. QED
          BY <2>2, <3>1, <3>2, <3>4, <3>5, <4>1, <5>4, <5>5
      <4>5. QED
        BY <4>2, <4>3, <4>4
    <3>6. CASE i = 2
      <4>1. r[i].hi = q[1].hi /\ r[i].lo <= q[1].hi
        BY <1>3, <2>2, <3>6
      <4>2. j = 3 \/ j > 3
        BY <2>1, <2>4
      <4>3. CASE j = 3
        BY <1>3, <2>2, <3>1, <3>2, <3>4, <3>6, <4>3
      <4>4. CASE j > 3
        <5>1. /\ 2 \in DOMAIN q /\ q[2] \in Chunk
              /\ q[1].hi < q[2].lo /\ q[2].lo + ((j - 1) - 2) <= q[j - 1].lo
          BY <1>1, <1>8, <2>1, <3>1, <4>4 DEF Tidy
        <5>2. q[2].lo \in Int
          BY <5>1, ChunkType
        <5>3. r[i].lo \in Int /\ r[i].lo + 1 <= q[2].lo
          BY <1>3, <2>2, <3>6, <4>1, <5>1, <5>2
        <5>4. r[i].lo + (j - 2) <= q[j - 1].lo
          BY <2>1, <3>4, <5>1, <5>2, <5>3
        <5>5. QED
          BY <3>1, <3>2, <3>6, <4>1, <5>4
      <4>5. QED
        BY <4>2, <4>3, <4>4
    <3>7. QED
      BY <3>3, <3>5, <3>6
  <2>5. CASE i > 2
    <3>1. /\ i - 1 \in DOMAIN q /\ r[i] = q[i - 1] /\ j - 1 \in DOMAIN q /\ r[j] = q[j - 1]
          /\ i - 1 < j - 1 /\ (j - 1) - (i - 1) = j - i
      BY <1>6, <1>11, <2>1, <2>5
    <3>2. QED
      BY <3>1 DEF Tidy
  <2>6. QED
    <3>1. (i = 1 /\ j = 2) \/ (i <= 2 /\ j > 2) \/ i > 2
      BY <1>1, <1>11, <1>5
    <3>2. QED
      BY <3>1, <2>3, <2>4, <2>5
<1>12. QED
  BY <1>1, <1>3, <1>9, <1>10, <1>11 DEF Tidy, CutWell, r

(* The first chunk of a queue leaves room for as many characters as there    *)
(* are chunks.                                                               *)
LEMMA QueueHasRoom ==
    ASSUME NEW q, Tidy(q), q # <<>>
    PROVE  (q[1].lo - 1) + Len(q) <= Size
<1>1. q \in Seq(Chunk) /\ Len(q) \in Nat \ {0} /\ 1 \in DOMAIN q /\ Len(q) \in DOMAIN q
  BY DEF Tidy
<1>2. q[1] \in Chunk /\ q[Len(q)] \in Chunk
  BY <1>1
<1>3. /\ q[1].lo \in Int /\ q[Len(q)].lo \in Int /\ q[Len(q)].lo <= Size
  BY <1>2, ChunkType, AnalyzeAssumption DEF Chunk
<1>4. CASE Len(q) = 1
  BY <1>3, <1>4, AnalyzeAssumption
<1>5. CASE Len(q) > 1
  <2>1. q[1].lo + (Len(q) - 1) <= q[Len(q)].lo
    BY <1>1, <1>5 DEF Tidy
  <2>2. Size \in Int
    BY AnalyzeAssumption
  <2>3. QED
    BY <1>1, <1>3, <2>1, <2>2
<1>6. Len(q) = 1 \/ Len(q) > 1
  <2>1. \A n \in Nat \ {0} : n = 1 \/ n > 1
    OBVIOUS
  <2>2. QED
    BY <1>1, <2>1
<1>7. QED
  BY <1>4, <1>5, <1>6

(***************************************************************************)
(* The invariant                                                           *)
(***************************************************************************)
(* The chunks of every stage are tidy, lie before the first character that   *)
(* is not taken, and hold all that is.                                       *)
Covers(q) ==
    /\ Tidy(q)
    /\ \A i \in DOMAIN q : q[i].hi < pos
    /\ Taken \subseteq TextOf(q)

ChunksInv == \A s \in Listing : Covers(chunks[s])

(* Characters before the first one that is queued. *)
Ahead == IF queue = <<>> THEN Size ELSE queue[1].lo - 1

(* A request that cuts a chunk adds one to the queue, any other moves a      *)
(* character ahead at least and takes one off it.                            *)
QueueInv ==
    /\ Tidy(queue)
    /\ NothingLost
    /\ \A p \in Done : \A i \in DOMAIN queue : p < queue[i].lo
    /\ OutlineIsWhole
    /\ phase \in Listing => requests <= 2 * Ahead + Len(queue)
    /\ RequestsBounded

Content == [run : 1..MaxRuns, whole : BOOLEAN]
Writing == {"open", "write", "logging", "register", "close", "record"}

(* An execution has named no file before it opens the first; the files it    *)
(* names are its own, and whole but for the one that is being written.       *)
FilesInv ==
    /\ phase # "waiting" => run >= 1
    /\ phase \in Working \ Writing => names = NoFiles
    /\ phase \in Writing =>
         /\ \A o \in 1..Outputs : names[o] # 0 =>
              /\ names[o] \in DOMAIN files[o]
              /\ files[o][names[o]] =
                   [run |-> run, whole |-> ~(phase = "write" /\ IsLast(o))]
         /\ \A o, k \in 1..Outputs : k < o /\ names[o] # 0 => names[k] # 0
    /\ phase \in {"logging", "register", "close", "record"} =>
         \A o \in 1..Outputs : names[o] # 0

(* The log is that of an earlier execution until this one opens it. *)
LogInv ==
    /\ log.run <= run
    /\ phase \in Working \ {"logging", "register", "close", "record"} => log.run < run
    /\ phase = "logging" /\ log.run = run => log.names = names
    /\ phase \in {"register", "close", "record"} =>
         log = [run |-> run, names |-> names, whole |-> TRUE]
    /\ status = "SUCCEEDED" => phase \in {"record", "over", "dead"}

IInv ==
    /\ TypeOK /\ ChunksInv /\ QueueInv /\ FilesInv /\ LogInv
    /\ ChunksFit /\ ArtifactKeepsItsFiles /\ SucceededIsWhole

(* The invariant holds at the beginning,                                     *)
LEMMA InitIInv == Init => IInv
<1> SUFFICES ASSUME Init PROVE IInv
  OBVIOUS
<1> USE AnalyzeAssumption
<1>1. TypeOK
  <2>1. /\ phase \in Phases /\ run \in 0..MaxRuns /\ pos \in 1..(Size + 2)
        /\ chunks \in [Listing -> Seq(Chunk)] /\ queue \in Seq(Chunk)
        /\ read \subseteq 1..Size /\ skipped \subseteq 1..Size /\ requests \in Nat
    BY DEF Init, Phases
  <2>2. files \in [1..Outputs -> Seq([run : 1..MaxRuns, whole : BOOLEAN])]
    BY DEF Init
  <2>3. /\ names \in [1..Outputs -> Nat] /\ meta \in [1..Outputs -> Nat]
        /\ log \in [run : 0..MaxRuns, names : [1..Outputs -> Nat], whole : BOOLEAN]
    BY DEF Init, NoFiles, NoLog
  <2>4. QED
    BY <2>1, <2>2, <2>3 DEF Init, TypeOK
<1>2. ChunksInv
  <2> SUFFICES ASSUME NEW s \in Listing PROVE Covers(chunks[s])
    BY DEF ChunksInv
  <2>1. chunks[s] = <<>> /\ pos = 1
    BY DEF Init
  <2>2. Taken = {}
    BY <2>1 DEF Taken
  <2>3. QED
    BY <2>1, <2>2, EmptyIsTidy DEF Covers
<1>3. QueueInv
  BY EmptyIsTidy DEF Init, QueueInv, NothingLost, OutlineIsWhole, RequestsBounded, Done, Listing
<1>4. FilesInv /\ LogInv /\ ArtifactKeepsItsFiles /\ SucceededIsWhole /\ ChunksFit
  BY DEF Init, FilesInv, LogInv, ArtifactKeepsItsFiles, SucceededIsWhole, ChunksFit, NoLog, NoFiles,
         Working, Writing, Phases, Listing
<1>5. QED
  BY <1>1, <1>2, <1>3, <1>4 DEF IInv

(***************************************************************************)
(* The chunks                                                              *)
(***************************************************************************)
(* Every step adds a line, starts over or leaves the text and chunks alone. *)
LEMMA TextFrame ==
    ASSUME [Next]_vars
    PROVE  UNCHANGED text \/ AddLine \/ (Begin /\ pos' = 1 /\ chunks' = [s \in Listing |-> <<>>])
BY DEF Next, Begin, Start, Die, Recover, Record, Work, SetUp, Connect, ContextBuilt,
       Chat, StageDone, StageFoundNothing, Draft,
       OpenFile, WriteFile, OpenLog, WriteLog, Register, Succeed, Answer, TooLong, Garbled,
       Blank, ServiceFails, vars, text

(* A line is put at the end of a list of chunks, or its last chunk stretched *)
(* to the end of the line.                                                   *)
LEMMA AddedCovers ==
    ASSUME TypeOK, NEW s \in Listing, Covers(chunks[s]), NEW e \in pos..Size, IsLine(pos, e),
           pos' = e + 2, chunks'[s] = AddedTo(s, e)
    PROVE  Covers(chunks[s])'
<1> DEFINE q == chunks[s]
           n == Len(q)
           r == AddedTo(s, e)
           c == [lo |-> pos, hi |-> e]
<1> USE AnalyzeAssumption
<1>1. /\ q \in Seq(Chunk) /\ n \in Nat /\ DOMAIN q = 1..n
      /\ pos \in Int /\ 1 <= pos /\ e \in Int /\ pos <= e /\ e <= Size
  BY DEF TypeOK, Covers, Tidy
<1>2. /\ \A p \in pos..e : p \notin Newlines
      /\ e = Size \/ e + 1 \in Newlines
  BY <1>1 DEF IsLine
<1>3. c \in Chunk /\ Edges(c) /\ Within(c) = pos..e
  BY <1>1, <1>2 DEF Chunk, Edges, Within
<1>4. \A i \in 1..n : /\ q[i] \in Chunk /\ Edges(q[i]) /\ q[i].lo \in Int /\ q[i].hi \in Int
                      /\ q[i].lo <= q[i].hi /\ q[i].hi < pos /\ 1 <= q[i].lo
  BY <1>1, ChunkType DEF Covers, Tidy
<1>5. Taken' \subseteq Taken \cup (pos..e)
  <2>1. \A p \in 1..Size : p < e + 2 /\ p \notin Newlines => p < pos \/ p \in pos..e
    BY <1>1, <1>2
  <2>2. QED
    BY <2>1 DEF Taken
<1>6. CASE n > 0 /\ Fits(s, q[n], e)
  <2> DEFINE d == [q[n] EXCEPT !.hi = e]
  <2>1. r = [q EXCEPT ![n] = d]
    BY <1>6 DEF AddedTo
  <2>2. /\ n \in 1..n /\ q[n] \in Chunk /\ Edges(q[n]) /\ q[n].lo \in Int
        /\ q[n].hi \in Int /\ q[n].lo <= q[n].hi /\ q[n].hi < pos /\ 1 <= q[n].lo
    BY <1>1, <1>4, <1>6
  <2>3. d.lo = q[n].lo /\ d.hi = e /\ d \in Chunk /\ Edges(d)
    <3>1. d = [lo |-> q[n].lo, hi |-> e]
      BY <2>2 DEF Chunk
    <3>2. q[n].lo \in 1..Size /\ e \in 1..Size /\ q[n].lo <= e /\ e \notin Newlines
      BY <1>1, <1>2, <2>2
    <3>3. d.lo = q[n].lo /\ d.hi = e
      BY <3>1
    <3>4. d \in [lo : 1..Size, hi : 1..Size]
      BY <3>1, <3>2
    <3> HIDE DEF d
    <3>5. QED
      BY <2>2, <3>2, <3>3, <3>4 DEF Chunk, Edges
  <2>4. Within(q[n]) \subseteq Within(d) /\ pos..e \subseteq Within(d)
    <3>1. q[n].lo..q[n].hi \subseteq q[n].lo..e /\ pos..e \subseteq q[n].lo..e
      BY <1>1, <2>2
    <3> HIDE DEF d
    <3>2. QED
      BY <1>2, <2>3, <3>1 DEF Within
  <2> HIDE DEF d
  <2>5. r \in Seq(Chunk) /\ Len(r) = n /\ DOMAIN r = 1..n /\ r[n] = d
        /\ \A i \in 1..n : i # n => r[i] = q[i]
    BY <1>1, <1>6, <2>1, <2>3
  <2> HIDE DEF r
  <2>6. \A i \in 1..n : Edges(r[i]) /\ r[i].lo = q[i].lo /\ r[i].hi < e + 2
    BY <1>1, <1>4, <2>3, <2>5
  <2>7. ASSUME NEW i \in 1..n, NEW j \in 1..n, i < j
        PROVE  r[i].hi < r[j].lo /\ r[i].lo + (j - i) <= r[j].lo
    <3>1. i # n /\ r[i] = q[i]
      BY <1>1, <2>5, <2>7
    <3>2. q[i].hi < q[j].lo /\ q[i].lo + (j - i) <= q[j].lo
      BY <1>1, <2>7 DEF Covers, Tidy
    <3>3. QED
      BY <2>6, <3>1, <3>2
  <2>8. TextOf(q) \subseteq TextOf(r) /\ pos..e \subseteq TextOf(r)
    <3>1. \A i \in 1..n : Within(q[i]) \subseteq Within(r[i])
      BY <2>4, <2>5
    <3>2. QED
      BY <1>1, <2>2, <2>4, <2>5, <3>1 DEF TextOf
  <2>9. QED
    BY <1>1, <1>5, <2>5, <2>6, <2>7, <2>8 DEF Covers, Tidy, r
<1>7. CASE ~(n > 0 /\ Fits(s, q[n], e))
  <2>1. r = Append(q, c)
    BY <1>7 DEF AddedTo
  <2> HIDE DEF c
  <2>2. r \in Seq(Chunk) /\ Len(r) = n + 1 /\ DOMAIN r = 1..n + 1 /\ r[n + 1] = c
        /\ \A i \in 1..n : r[i] = q[i]
    BY <1>1, <1>3, <2>1
  <2>3. c.lo = pos /\ c.hi = e
    BY DEF c
  <2> HIDE DEF r
  <2>4. \A i \in 1..n + 1 : i = n + 1 \/ i \in 1..n
    BY <1>1
  <2>5. \A i \in 1..n : i \in 1..n + 1
    BY <1>1
  <2> HIDE DEF q, n
  <2>6. ASSUME NEW i \in 1..n + 1
        PROVE  Edges(r[i]) /\ r[i].hi < e + 2
    <3>1. CASE i = n + 1
      BY <1>1, <1>3, <2>2, <2>3, <3>1
    <3>2. CASE i \in 1..n
      BY <1>1, <1>4, <2>2, <3>2
    <3>3. QED
      BY <2>4, <3>1, <3>2
  <2>7. ASSUME NEW i \in 1..n + 1, NEW j \in 1..n + 1, i < j
        PROVE  r[i].hi < r[j].lo /\ r[i].lo + (j - i) <= r[j].lo
    <3>1. i \in 1..n /\ r[i] = q[i]
      BY <1>1, <2>2, <2>7
    <3> USE DEF q, n
    <3>2. CASE j = n + 1
      <4>1. r[j].lo = pos /\ q[i].hi < pos
        BY <1>4, <2>2, <2>3, <3>1, <3>2
      <4>2. i = n \/ (i < n /\ n \in 1..n)
        BY <1>1, <3>1
      <4>3. CASE i = n
        BY <1>1, <1>4, <3>1, <3>2, <4>1, <4>3
      <4>4. CASE i < n
        <5>1. n \in 1..n /\ q[i].lo + (n - i) <= q[n].lo
          BY <1>1, <3>1, <4>2, <4>4 DEF Covers, Tidy
        <5>2. /\ q[i].lo \in Int /\ q[n].lo \in Int /\ q[n].hi \in Int
              /\ q[n].lo <= q[n].hi /\ q[n].hi < pos
          BY <1>4, <3>1, <5>1
        <5>3. q[i].lo + (j - i) <= pos
          <6> HIDE DEF q, n
          <6>1. \A a, b, d \in Int : a + (n - i) <= b /\ b <= d /\ d < pos
                                     => a + ((n + 1) - i) <= pos
            BY <1>1
          <6>2. QED
            BY <3>2, <5>1, <5>2, <6>1
        <5>4. QED
          BY <3>1, <4>1, <5>3
      <4>5. QED
        BY <4>2, <4>3, <4>4
    <3>3. CASE j \in 1..n
      <4>1. q[i].hi < q[j].lo /\ q[i].lo + (j - i) <= q[j].lo
        BY <1>1, <2>7, <3>1, <3>3 DEF Covers, Tidy
      <4>2. QED
        BY <2>2, <3>1, <3>3, <4>1
    <3>4. j = n + 1 \/ j \in 1..n
      BY <2>4
    <3>5. QED
      BY <3>2, <3>3, <3>4
  <2>8. TextOf(q) \subseteq TextOf(r) /\ pos..e \subseteq TextOf(r)
    <3>1. n + 1 \in 1..n + 1
      BY <1>1
    <3>2. QED
      BY <1>1, <1>3, <2>2, <2>5, <3>1 DEF TextOf
  <2>9. QED
    BY <1>1, <1>5, <2>2, <2>6, <2>7, <2>8 DEF Covers, Tidy, r, q, n
<1>8. QED
  BY <1>6, <1>7

(* The part about the chunks of a stage is kept by every step,               *)
LEMMA ChunksStep ==
    ASSUME TypeOK, ChunksInv, [Next]_vars
    PROVE  ChunksInv'
<1> SUFFICES ASSUME NEW s \in Listing PROVE Covers(chunks[s])'
  BY DEF ChunksInv
<1>1. Covers(chunks[s])
  BY DEF ChunksInv
<1>2. CASE UNCHANGED text
  BY <1>1, <1>2 DEF Covers, Taken, text
<1>3. CASE AddLine
  <2>1. PICK e \in pos..Size : IsLine(pos, e) /\ pos' = e + 2 /\ chunks'[s] = AddedTo(s, e)
    BY <1>3 DEF AddLine
  <2>2. QED
    BY <1>1, <2>1, AddedCovers
<1>4. CASE pos' = 1 /\ chunks' = [t \in Listing |-> <<>>]
  <2>1. chunks'[s] = <<>> /\ Taken' = {}
    BY <1>4, AnalyzeAssumption DEF Taken
  <2>2. QED
    BY <2>1, EmptyIsTidy DEF Covers
<1>5. QED
  BY <1>2, <1>3, <1>4, TextFrame

(* A chunk is stretched only while it fits; a new one is a single line. *)
LEMMA FitStep ==
    ASSUME TypeOK, ChunksInv, ChunksFit, [Next]_vars
    PROVE  ChunksFit'
<1> USE AnalyzeAssumption
<1>1. CASE UNCHANGED text
  BY <1>1 DEF ChunksFit, text
<1>2. CASE AddLine
  <2>1. PICK e \in pos..Size : IsLine(pos, e) /\ chunks' = [s \in Listing |-> AddedTo(s, e)]
    BY <1>2 DEF AddLine
  <2> SUFFICES ASSUME NEW s \in Listing, NEW i \in DOMAIN AddedTo(s, e)
               PROVE  LET c == AddedTo(s, e)[i]
                      IN  (c.hi - c.lo) + 2 <= CharLimit[s] \/ Breaks(c) = {}
    BY <2>1 DEF ChunksFit
  <2> DEFINE q == chunks[s]
             n == Len(q)
             c == [lo |-> pos, hi |-> e]
  <2>2. q \in Seq(Chunk) /\ n \in Nat /\ DOMAIN q = 1..n
    BY DEF ChunksInv, Covers, Tidy
  <2>3. \A j \in 1..n : (q[j].hi - q[j].lo) + 2 <= CharLimit[s] \/ Breaks(q[j]) = {}
    BY <2>2 DEF ChunksFit
  <2>4. CASE n > 0 /\ Fits(s, q[n], e)
    <3>1. AddedTo(s, e) = [q EXCEPT ![n].hi = e] /\ n \in 1..n /\ q[n] \in Chunk
      BY <2>2, <2>4 DEF AddedTo
    <3>2. i \in 1..n /\ (i # n => AddedTo(s, e)[i] = q[i])
      BY <2>2, <3>1
    <3>3. AddedTo(s, e)[n].hi = e /\ AddedTo(s, e)[n].lo = q[n].lo
      BY <2>2, <3>1 DEF Chunk
    <3>4. QED
      BY <2>3, <2>4, <3>2, <3>3 DEF Fits
  <2>5. CASE ~(n > 0 /\ Fits(s, q[n], e))
    <3>1. AddedTo(s, e) = Append(q, c)
      BY <2>5 DEF AddedTo
    <3>2. Breaks(c) = {}
      <4>1. \A p \in pos..e : p \notin Newlines
        BY <2>1 DEF IsLine
      <4>2. c.lo = pos /\ c.hi = e /\ pos \in Int
        BY DEF TypeOK
      <4>3. e \in Int
        BY <4>2
      <4> HIDE DEF c
      <4>4. \A p \in Newlines : ~(c.lo < p /\ p < c.hi)
        BY <4>1, <4>2, <4>3
      <4>5. QED
        BY <4>4 DEF Breaks
    <3> HIDE DEF c
    <3>3. i \in 1..n + 1 /\ AddedTo(s, e)[n + 1] = c /\ \A j \in 1..n : AddedTo(s, e)[j] = q[j]
      BY <2>2, <3>1
    <3>4. i = n + 1 \/ i \in 1..n
      BY <2>2, <3>3
    <3>5. QED
      BY <2>3, <3>2, <3>3, <3>4
  <2>6. QED
    BY <2>4, <2>5
<1>3. CASE chunks' = [s \in Listing |-> <<>>]
  BY <1>3 DEF ChunksFit
<1>4. QED
  BY <1>1, <1>2, <1>3, TextFrame

(***************************************************************************)
(* The queue                                                               *)
(***************************************************************************)
(* What a step does to the stage at work.                                    *)
Asked ==
    /\ Request /\ UNCHANGED text
    /\ \/ Consume /\ phase' = phase /\ skipped' = skipped /\ read' = read \cup Within(Head(queue))
       \/ /\ Consume /\ phase' = phase /\ phase # "outline"
          /\ skipped' = skipped \cup Within(Head(queue)) /\ read' = read
       \/ /\ \E h \in Halves(Head(queue)) : queue' = Pushed(h)
          /\ phase' = phase /\ UNCHANGED <<read, skipped>>
       \/ phase' = "over" /\ UNCHANGED <<queue, read, skipped>>

(* Steps outside the stages leave queue and counts alone.                    *)
LEMMA StageFrame ==
    ASSUME [Next]_vars
    PROVE  \/ UNCHANGED vars
           \/ UNCHANGED stage /\ phase' \notin Listing
           \/ NewStage(<<>>) /\ phase' \notin Listing
           \/ phase' \in Listing /\ NewStage(chunks[phase']) /\ UNCHANGED text
           \/ Asked
<1>1. CASE UNCHANGED vars
  BY <1>1
<1>2. CASE Begin
  BY <1>2 DEF Begin, Listing
<1>3. CASE Start \/ Die \/ Recover \/ SetUp \/ Connect \/ AddLine \/ Draft \/ StageFoundNothing
  BY <1>3 DEF Start, Die, Recover, SetUp, Connect, AddLine, Draft, StageFoundNothing, Fail,
              Listing, stage
<1>4. CASE OpenFile \/ WriteFile \/ OpenLog \/ WriteLog \/ Register \/ Succeed \/ Record
  BY <1>4 DEF OpenFile, WriteFile, OpenLog, WriteLog, Register, Succeed, Record, Fail, Listing,
              stage
<1>5. CASE ContextBuilt
  BY <1>5 DEF ContextBuilt, Listing
<1>6. CASE StageDone
  BY <1>6 DEF StageDone, Listing, NextPhase
<1>7. CASE Chat
  <2>1. CASE Answer
    BY <2>1 DEF Answer, Asked, Read
  <2>2. CASE TooLong
    BY <2>2 DEF TooLong, Asked, Split, StageFails, Fail
  <2>3. CASE Garbled
    BY <2>3 DEF Garbled, Asked, Split, Skip, Skips, StageFails, Fail
  <2>4. CASE Blank
    BY <2>4 DEF Blank, Asked, Skip, Skips, StageFails, Fail
  <2>5. CASE ServiceFails
    BY <2>5 DEF ServiceFails, Asked, StageFails, Fail
  <2>6. QED
    BY <1>7, <2>1, <2>2, <2>3, <2>4, <2>5 DEF Chat
<1>8. QED
  BY <1>1, <1>2, <1>3, <1>4, <1>5, <1>6, <1>7 DEF Next, Work

(* A request that takes the first chunk off the queue, read or given up. *)
LEMMA ConsumeKeepsQueueInv ==
    ASSUME TypeOK, QueueInv, Request, Consume, phase' = phase, UNCHANGED text,
           Done' = Done \cup Within(queue[1]), phase = "outline" => skipped' = skipped
    PROVE  QueueInv'
<1> USE AnalyzeAssumption
<1> DEFINE a == queue[1]
           t == Tail(queue)
<1>1. /\ phase \in Listing /\ queue # <<>> /\ Tidy(queue) /\ queue' = t
      /\ requests' = requests + 1
  BY DEF Request, QueueInv, Consume
<1>2. /\ a \in Chunk /\ Len(queue) \in Nat \ {0} /\ 1 \in DOMAIN queue /\ Len(t) = Len(queue) - 1
      /\ queue \in Seq(Chunk) /\ t \in Seq(Chunk)
  BY <1>1, HeadIsChunk DEF Tidy
<1>3. a.lo \in Int /\ a.hi \in Int /\ 1 <= a.lo /\ a.lo <= a.hi /\ a.hi <= Size
  BY <1>2, ChunkType
<1>4. /\ Tidy(t) /\ TextOf(queue) = Within(a) \cup TextOf(t)
      /\ \A i \in DOMAIN t : i + 1 \in DOMAIN queue /\ t[i] = queue[i + 1]
  BY <1>1, TailIsTidy
<1>5. Taken' = Taken
  BY DEF Taken, text
<1>6. NothingLost'
  <2>1. Taken \subseteq Done \cup TextOf(queue)
    BY <1>1 DEF QueueInv, NothingLost, Queued, TextOf
  <2>2. Taken' \subseteq Done' \cup TextOf(t)
    BY <1>4, <1>5, <2>1
  <2>3. QED
    BY <1>1, <2>2 DEF NothingLost, Queued, TextOf
<1>7. \A p \in Done' : \A i \in DOMAIN t : p < t[i].lo
  <2> SUFFICES ASSUME NEW p \in Done', NEW i \in DOMAIN t PROVE p < t[i].lo
    OBVIOUS
  <2>1. i \in Nat \ {0} /\ i + 1 \in DOMAIN queue /\ t[i] = queue[i + 1] /\ 1 < i + 1
    BY <1>2, <1>4
  <2>2. CASE p \in Done
    BY <2>1, <2>2 DEF QueueInv
  <2>3. CASE p \in Within(a)
    <3>1. p \in Int /\ p <= a.hi /\ a.hi < queue[i + 1].lo /\ queue[i + 1] \in Chunk
      BY <1>1, <1>2, <1>3, <2>1, <2>3 DEF Within, Tidy
    <3>2. queue[i + 1].lo \in Int
      BY <3>1, ChunkType
    <3>3. QED
      BY <1>3, <2>1, <3>1, <3>2
  <2>4. QED
    BY <2>2, <2>3
<1>8. OutlineIsWhole'
  BY DEF QueueInv, OutlineIsWhole
<1>9. requests \in Int /\ requests <= 2 * (a.lo - 1) + Len(queue) /\ (a.lo - 1) + Len(queue) <= Size
  BY <1>1, QueueHasRoom DEF TypeOK, QueueInv, Ahead
<1>10. requests' <= 2 * Ahead' + Len(t)
  <2>1. Ahead' \in Int /\ a.lo <= Ahead'
    <3>1. CASE t = <<>>
      BY <1>1, <1>3, <3>1 DEF Ahead
    <3>2. CASE t # <<>>
      <4>1. 1 \in DOMAIN t
        BY <1>2, <3>2
      <4>2. t[1] = queue[2] /\ 2 \in DOMAIN queue /\ queue[2] \in Chunk
        BY <1>2, <1>4, <4>1
      <4>3. a.lo + (2 - 1) <= queue[2].lo /\ queue[2].lo \in Int
        BY <1>1, <1>2, <4>2, ChunkType DEF Tidy
      <4>4. Ahead' = queue[2].lo - 1
        BY <1>1, <3>2, <4>2 DEF Ahead
      <4>5. QED
        BY <1>3, <4>3, <4>4
    <3>3. QED
      BY <3>1, <3>2
  <2>2. /\ requests' = requests + 1 /\ Len(t) = Len(queue) - 1 /\ Len(queue) \in Int
        /\ requests <= 2 * (a.lo - 1) + Len(queue)
    BY <1>1, <1>2, <1>9
  <2>3. \A rq, lo, ahead, n \in Int :
           rq <= 2 * (lo - 1) + n /\ lo <= ahead => rq + 1 <= 2 * ahead + (n - 1)
    OBVIOUS
  <2>4. QED
    BY <1>3, <1>9, <2>1, <2>2, <2>3
<1>11. RequestsBounded'
  BY <1>1, <1>2, <1>3, <1>9 DEF RequestsBounded
<1>12. QED
  BY <1>1, <1>4, <1>6, <1>7, <1>8, <1>10, <1>11 DEF QueueInv

(* A request whose chunk is cut in two. *)
LEMMA SplitKeepsQueueInv ==
    ASSUME TypeOK, QueueInv, Request, NEW h \in Halves(Head(queue)), queue' = Pushed(h),
           phase' = phase, UNCHANGED <<read, skipped>>, UNCHANGED text
    PROVE  QueueInv'
<1> USE AnalyzeAssumption
<1> DEFINE a == queue[1]
           r == h \o Tail(queue)
<1>1. /\ phase \in Listing /\ queue # <<>> /\ Tidy(queue) /\ queue' = r
      /\ requests' = requests + 1
  BY DEF Request, QueueInv, Pushed
<1>2. /\ a \in Chunk /\ Edges(a) /\ Head(queue) = a /\ Len(queue) \in Nat \ {0}
      /\ queue \in Seq(Chunk) /\ 1 \in DOMAIN queue
  BY <1>1, HeadIsChunk DEF Tidy
<1>3. a.lo \in Int /\ a.hi \in Int /\ 1 <= a.lo /\ a.lo <= a.hi /\ a.hi <= Size
  BY <1>2, ChunkType
<1>4. CutWell(a, h)
  BY <1>2, HalvesAreCutWell
<1>5. /\ Tidy(r) /\ TextOf(queue) \subseteq TextOf(r) /\ Len(r) = Len(queue) + 1
      /\ r[1].lo = a.lo
  BY <1>1, <1>4, CutIsTidy
<1> HIDE DEF r
<1>6. NothingLost'
  <2>1. Taken \subseteq Done \cup TextOf(queue)
    BY <1>1 DEF QueueInv, NothingLost, Queued, TextOf
  <2>2. Taken' \subseteq Done' \cup TextOf(r)
    BY <1>5, <2>1 DEF Taken, Done, text
  <2>3. QED
    BY <1>1, <2>2 DEF NothingLost, Queued, TextOf
<1>7. \A p \in Done' : \A i \in DOMAIN r : p < r[i].lo
  <2> SUFFICES ASSUME NEW p \in Done, NEW i \in DOMAIN r PROVE p < r[i].lo
    BY DEF Done
  <2>1. /\ p \in Int /\ p < a.lo /\ r \in Seq(Chunk) /\ Len(r) \in Nat \ {0}
        /\ 1 \in DOMAIN r /\ i \in Nat \ {0} /\ r[i] \in Chunk /\ r[1] \in Chunk
    <3>1. r \in Seq(Chunk) /\ Len(r) = Len(queue) + 1
      BY <1>5 DEF Tidy
    <3>2. Len(r) \in Nat \ {0} /\ DOMAIN r = 1..Len(r)
      BY <1>2, <3>1
    <3>3. 1 \in DOMAIN r /\ i \in Nat \ {0} /\ r[i] \in Chunk /\ r[1] \in Chunk
      BY <3>1, <3>2
    <3>4. p \in Int
      BY DEF Done, TypeOK
    <3>5. p < a.lo
      BY <1>2 DEF QueueInv
    <3>6. QED
      BY <3>1, <3>2, <3>3, <3>4, <3>5
  <2>2. r[i].lo \in Int
    BY <2>1, ChunkType
  <2>3. CASE i = 1
    BY <1>5, <2>1, <2>3
  <2>4. CASE 1 < i
    <3>1. r[1].lo + (i - 1) <= r[i].lo
      BY <1>5, <2>1, <2>4 DEF Tidy
    <3>2. QED
      BY <1>3, <1>5, <2>1, <2>2, <2>4, <3>1
  <2>5. i = 1 \/ 1 < i
    BY <2>1
  <2>6. QED
    BY <2>3, <2>4, <2>5
<1>8. OutlineIsWhole'
  BY DEF QueueInv, OutlineIsWhole
<1>9. requests \in Int /\ requests <= 2 * (a.lo - 1) + Len(queue) /\ (a.lo - 1) + Len(queue) <= Size
  BY <1>1, QueueHasRoom DEF TypeOK, QueueInv, Ahead
<1>10. requests' <= 2 * Ahead' + Len(r)
  <2>1. r # <<>>
    BY <1>2, <1>5
  <2>2. Ahead' = a.lo - 1
    BY <1>1, <1>5, <2>1 DEF Ahead
  <2>3. QED
    BY <1>1, <1>2, <1>3, <1>5, <1>9, <2>2
<1>11. RequestsBounded'
  BY <1>1, <1>2, <1>3, <1>9 DEF RequestsBounded
<1>12. QED
  BY <1>1, <1>5, <1>6, <1>7, <1>8, <1>10, <1>11 DEF QueueInv

(* the part about the queue and what was read and skipped,                   *)
LEMMA QueueStep ==
    ASSUME TypeOK, ChunksInv, QueueInv, [Next]_vars
    PROVE  QueueInv'
<1> USE AnalyzeAssumption
<1>1. CASE UNCHANGED vars
  BY <1>1 DEF vars, text, stage, QueueInv, NothingLost, Taken, Queued, Done, OutlineIsWhole,
              Ahead, RequestsBounded
<1>2. CASE UNCHANGED stage /\ phase' \notin Listing
  BY <1>2 DEF stage, QueueInv, NothingLost, Done, OutlineIsWhole, RequestsBounded, Listing
<1>3. CASE NewStage(<<>>) /\ phase' \notin Listing
  BY <1>3, EmptyIsTidy DEF NewStage, QueueInv, NothingLost, Done, OutlineIsWhole,
                           RequestsBounded, Listing
<1>4. CASE phase' \in Listing /\ NewStage(chunks[phase']) /\ UNCHANGED text
  <2>1. queue' = chunks[phase'] /\ read' = {} /\ skipped' = {} /\ requests' = 0
    BY <1>4 DEF NewStage
  <2>2. Tidy(queue') /\ Taken' \subseteq TextOf(queue')
    BY <1>4, <2>1 DEF ChunksInv, Covers, Taken, text
  <2>3. Ahead' \in Int /\ Ahead' >= 0 /\ Len(queue') \in Nat
    <3>1. CASE queue' = <<>>
      BY <3>1 DEF Ahead
    <3>2. CASE queue' # <<>>
      <4>1. queue'[1] \in Chunk
        BY <2>2, <3>2, HeadIsChunk
      <4>2. queue'[1].lo \in Int /\ 1 <= queue'[1].lo /\ Len(queue') \in Nat
        BY <2>2, <3>2, <4>1, ChunkType, HeadIsChunk
      <4>3. QED
        BY <3>2, <4>2 DEF Ahead
    <3>3. QED
      BY <3>1, <3>2
  <2>4. QED
    BY <2>1, <2>2, <2>3 DEF QueueInv, NothingLost, Queued, TextOf, Done, OutlineIsWhole,
                            RequestsBounded
<1>5. CASE Asked
  <2>1. /\ Request /\ UNCHANGED text /\ Head(queue) = queue[1]
        /\ requests' = requests + 1
    BY <1>5, HeadIsChunk DEF Asked, Request, QueueInv
  <2>2. CASE /\ Consume /\ phase' = phase
             /\ \/ skipped' = skipped /\ read' = read \cup Within(Head(queue))
                \/ /\ phase # "outline" /\ read' = read
                   /\ skipped' = skipped \cup Within(Head(queue))
    <3>1. Done' = Done \cup Within(queue[1]) /\ (phase = "outline" => skipped' = skipped)
      BY <2>1, <2>2 DEF Done
    <3>2. QED
      BY <2>1, <2>2, <3>1, ConsumeKeepsQueueInv
  <2>3. CASE /\ \E h \in Halves(Head(queue)) : queue' = Pushed(h)
             /\ phase' = phase /\ UNCHANGED <<read, skipped>>
    BY <2>1, <2>3, SplitKeepsQueueInv
  <2>4. CASE phase' = "over" /\ UNCHANGED <<queue, read, skipped>>
    <3>1. phase \in Listing /\ queue # <<>> /\ Tidy(queue)
      BY <2>1 DEF Request, QueueInv
    <3>2. /\ queue[1] \in Chunk /\ Len(queue) \in Nat
          /\ requests \in Int /\ requests <= 2 * (queue[1].lo - 1) + Len(queue)
          /\ (queue[1].lo - 1) + Len(queue) <= Size
      <4>1. queue[1] \in Chunk /\ Len(queue) \in Nat /\ (queue[1].lo - 1) + Len(queue) <= Size
        BY <3>1, HeadIsChunk, QueueHasRoom
      <4>2. requests \in Int /\ requests <= 2 * Ahead + Len(queue)
        BY <3>1 DEF QueueInv, TypeOK
      <4>3. QED
        BY <3>1, <4>1, <4>2 DEF Ahead
    <3>3. queue[1].lo \in Int /\ queue[1].lo <= Size
      BY <3>2, ChunkType
    <3>4. RequestsBounded'
      BY <2>1, <3>2, <3>3 DEF RequestsBounded
    <3>5. QED
      BY <2>4, <3>4 DEF QueueInv, NothingLost, Done, OutlineIsWhole, Listing
  <2>5. QED
    BY <1>5, <2>2, <2>3, <2>4 DEF Asked
<1>6. QED
  BY <1>1, <1>2, <1>3, <1>4, <1>5, StageFrame

(***************************************************************************)
(* The files                                                               *)
(***************************************************************************)
(* Every step writes files, the log or results, or touches none of them. *)
LEMMA FilesFrame ==
    ASSUME [Next]_vars
    PROVE  \/ UNCHANGED vars
           \/ Begin \/ Recover
           \/ /\ phase \in Working /\ UNCHANGED <<run, output, results>>
              /\ \/ phase' \in {"dead", "over"}
                 \/ phase' = phase /\ phase \in Working \ Writing
                 \/ phase \in Working \ Writing /\ phase' \in Working \ Writing
                 \/ phase = "draft" /\ phase' = "open"
              /\ status' \in {status, "RUNNING", "FAILED"}
           \/ OpenFile \/ WriteFile \/ OpenLog \/ WriteLog \/ Register \/ Succeed \/ Record
<1>1. CASE UNCHANGED vars \/ Begin \/ Recover
  BY <1>1
<1>2. CASE Start \/ Die \/ SetUp \/ Connect \/ AddLine \/ Draft \/ StageFoundNothing
  BY <1>2 DEF Start, Die, SetUp, Connect, AddLine, Draft, StageFoundNothing, Fail, Saved,
              Listing, Working, Writing, Phases
<1>3. CASE OpenFile \/ WriteFile \/ OpenLog \/ WriteLog \/ Register \/ Succeed \/ Record
  BY <1>3
<1>4. CASE ContextBuilt \/ StageDone
  BY <1>4 DEF ContextBuilt, StageDone, NextPhase, Listing, Working, Writing, Phases
<1>5. CASE Chat
  BY <1>5 DEF Chat, Answer, TooLong, Garbled, Blank, ServiceFails, Request, Read, Skip, Split,
              StageFails, Fail, Saved, Listing, Working, Writing, Phases
<1>6. QED
  BY <1>1, <1>2, <1>3, <1>4, <1>5 DEF Next, Work

(* What writing a version does to the files of an output. *)
LEMMA WriteAtProperties ==
    ASSUME NEW f \in Seq(Content), NEW c \in Content, NEW v \in 1..Len(f) + 1
    PROVE  /\ WriteAt(f, v, c) \in Seq(Content)
           /\ v \in DOMAIN WriteAt(f, v, c)
           /\ WriteAt(f, v, c)[v] = c
           /\ \A u \in DOMAIN f : /\ u \in DOMAIN WriteAt(f, v, c)
                                  /\ u # v => WriteAt(f, v, c)[u] = f[u]
<1>1. Len(f) \in Nat /\ DOMAIN f = 1..Len(f)
  OBVIOUS
<1>2. WriteAt(f, v, c) = IF v \in DOMAIN f THEN [f EXCEPT ![v] = c] ELSE Append(f, c)
  BY DEF WriteAt
<1>3. CASE v \in DOMAIN f
  BY <1>1, <1>2, <1>3
<1>4. CASE v \notin DOMAIN f
  <2>1. v = Len(f) + 1
    BY <1>1, <1>4
  <2>2. QED
    BY <1>1, <1>2, <1>4, <2>1
<1>5. QED
  BY <1>3, <1>4

(* The type of the files, as the proofs use it. *)
LEMMA FilesType ==
    ASSUME TypeOK, NEW o \in 1..Outputs
    PROVE  /\ files[o] \in Seq(Content) /\ DOMAIN files[o] = 1..Len(files[o])
           /\ Len(files[o]) \in Nat /\ names[o] \in Nat
<1>1. files \in [1..Outputs -> Seq(Content)] /\ names \in [1..Outputs -> Nat]
  BY DEF TypeOK, Content
<1>2. files[o] \in Seq(Content) /\ names[o] \in Nat
  BY <1>1
<1>3. QED
  BY <1>2

(* An output is opened: as a version that was not there. *)
LEMMA OpenFileStep ==
    ASSUME IInv, OpenFile
    PROVE  /\ files' \in [1..Outputs -> Seq(Content)]
           /\ names' \in [1..Outputs -> Nat]
           /\ FilesInv' /\ LogInv' /\ ArtifactKeepsItsFiles' /\ SucceededIsWhole'
<1> USE AnalyzeAssumption
<1>1. PICK x \in 1..Outputs :
        /\ IsNext(x)
        /\ names' = [names EXCEPT ![x] = NextVersion(x)]
        /\ files' = [files EXCEPT ![x] = WriteAt(files[x], NextVersion(x), Mine(FALSE))]
  BY DEF OpenFile
<1> DEFINE v == NextVersion(x)
<1>2. /\ phase = "open" /\ phase' = "write" /\ run' = run /\ status' = status
      /\ log' = log /\ artifacts' = artifacts /\ meta' = meta
  BY DEF OpenFile, results
<1>3. /\ files \in [1..Outputs -> Seq(Content)] /\ names \in [1..Outputs -> Nat]
      /\ run \in 1..MaxRuns /\ artifacts \subseteq [run : 1..MaxRuns, names : [1..Outputs -> Nat]]
  <2>1. run \in 0..MaxRuns /\ run >= 1
    BY <1>2 DEF IInv, TypeOK, FilesInv
  <2>2. QED
    <3>1. run \in 1..MaxRuns
      BY <2>1
    <3>2. files \in [1..Outputs -> Seq(Content)] /\ names \in [1..Outputs -> Nat]
      BY DEF IInv, TypeOK, Content
    <3>3. artifacts \subseteq [run : 1..MaxRuns, names : [1..Outputs -> Nat]]
      BY DEF IInv, TypeOK
    <3>4. QED
      BY <3>1, <3>2, <3>3
<1>4. v \in 1..Len(files[x]) + 1 /\ v \notin DOMAIN files[x] /\ v \in Nat \ {0}
  BY <1>3, FilesType DEF NextVersion, IInv
<1>5. /\ files'[x] \in Seq(Content) /\ v \in DOMAIN files'[x]
      /\ files'[x][v] = [run |-> run, whole |-> FALSE]
      /\ \A u \in DOMAIN files[x] : u \in DOMAIN files'[x] /\ files'[x][u] = files[x][u]
  <2>1. /\ files'[x] = WriteAt(files[x], v, Mine(FALSE)) /\ files[x] \in Seq(Content)
        /\ Mine(FALSE) \in Content /\ Mine(FALSE) = [run |-> run, whole |-> FALSE]
    BY <1>1, <1>3 DEF Mine, Content
  <2> DEFINE f == files[x]
             c == Mine(FALSE)
             g == WriteAt(f, v, c)
  <2>2. f \in Seq(Content) /\ c \in Content /\ v \in 1..Len(f) + 1 /\ v \notin DOMAIN f
    BY <1>4, <2>1
  <2> HIDE DEF v, f, c
  <2>3. /\ g \in Seq(Content) /\ v \in DOMAIN g /\ g[v] = c
        /\ \A u \in DOMAIN f : u \in DOMAIN g /\ (u # v => g[u] = f[u])
    BY <2>2, WriteAtProperties
  <2> HIDE DEF g
  <2>4. files'[x] = g /\ c = [run |-> run, whole |-> FALSE]
    BY <2>1 DEF f, c, g
  <2>5. \A u \in DOMAIN f : u \in DOMAIN g /\ g[u] = f[u]
    BY <2>2, <2>3
  <2>6. QED
    BY <2>3, <2>4, <2>5 DEF f
<1> HIDE DEF v
<1>6. /\ \A o \in 1..Outputs : o # x => files'[o] = files[o] /\ names'[o] = names[o]
      /\ names'[x] = v
  BY <1>1, <1>3 DEF v
<1>7. files' \in [1..Outputs -> Seq(Content)] /\ names' \in [1..Outputs -> Nat]
  BY <1>1, <1>3, <1>4, <1>5 DEF v
<1>8. FilesInv'
  <2>1. IsLast(x)'
    <3>1. \A k \in 1..Outputs : k > x => names[k] = 0
      BY <1>1, <1>2 DEF IsNext, IInv, FilesInv, Writing
    <3>2. QED
      BY <1>4, <1>6, <3>1 DEF IsLast
  <2>2. ASSUME NEW o \in 1..Outputs, names'[o] # 0
        PROVE  /\ names'[o] \in DOMAIN files'[o]
               /\ files'[o][names'[o]] = [run |-> run, whole |-> ~IsLast(o)']
    <3>1. CASE o = x
      BY <1>5, <1>6, <2>1, <3>1
    <3>2. CASE o # x
      <4>1. o < x
        BY <1>6, <2>2, <3>2, <1>1, <1>2 DEF IsNext, IInv, FilesInv, Writing
      <4>2. ~IsLast(o)'
        BY <1>4, <1>6, <4>1 DEF IsLast
      <4>3. names[o] \in DOMAIN files[o] /\ files[o][names[o]] = [run |-> run, whole |-> TRUE]
        BY <1>2, <1>6, <2>2, <3>2 DEF IInv, FilesInv, Writing
      <4>4. QED
        BY <1>6, <3>2, <4>2, <4>3
    <3>3. QED
      BY <3>1, <3>2
  <2>3. ASSUME NEW o \in 1..Outputs, NEW k \in 1..Outputs, k < o, names'[o] # 0
        PROVE  names'[k] # 0
    BY <1>1, <1>2, <1>4, <1>6, <2>3 DEF IsNext, IInv, FilesInv, Writing
  <2>4. QED
    BY <1>2, <1>3, <2>2, <2>3 DEF FilesInv, Writing, Working
<1>9. LogInv'
  BY <1>2 DEF IInv, LogInv, Working, Phases
<1>10. ArtifactKeepsItsFiles'
  <2> SUFFICES ASSUME NEW a \in artifacts, NEW o \in 1..Outputs
               PROVE  /\ a.names[o] \in DOMAIN files'[o]
                      /\ files'[o][a.names[o]] = [run |-> a.run, whole |-> TRUE]
    BY <1>2 DEF ArtifactKeepsItsFiles
  <2>1. /\ a.names[o] \in DOMAIN files[o]
        /\ files[o][a.names[o]] = [run |-> a.run, whole |-> TRUE]
    BY DEF IInv, ArtifactKeepsItsFiles
  <2>2. QED
    BY <1>5, <1>6, <2>1
<1>11. SucceededIsWhole'
  <2>1. \A o \in 1..Outputs : \A u \in DOMAIN files[o] :
          u \in DOMAIN files'[o] /\ files'[o][u] = files[o][u]
    BY <1>5, <1>6
  <2>2. status # "SUCCEEDED"
    BY <1>2 DEF IInv, LogInv
  <2>3. QED
    BY <1>2, <2>1, <2>2 DEF IInv, SucceededIsWhole
<1>12. QED
  BY <1>7, <1>8, <1>9, <1>10, <1>11

(* The output opened last is written: nothing else names it, for it was not  *)
(* whole.                                                                    *)
LEMMA WriteFileStep ==
    ASSUME IInv, WriteFile
    PROVE  /\ files' \in [1..Outputs -> Seq(Content)]
           /\ FilesInv' /\ LogInv' /\ ArtifactKeepsItsFiles' /\ SucceededIsWhole'
<1> USE AnalyzeAssumption
<1>1. /\ phase = "write" /\ run' = run /\ names' = names
      /\ log' = log /\ artifacts' = artifacts /\ meta' = meta
  BY DEF WriteFile, results
<1>2. /\ files \in [1..Outputs -> Seq(Content)] /\ names \in [1..Outputs -> Nat]
      /\ run \in 1..MaxRuns
  <2>1. run \in 0..MaxRuns /\ run >= 1
    BY <1>1 DEF IInv, TypeOK, FilesInv
  <2>2. run \in 1..MaxRuns
    BY <2>1
  <2>3. QED
    BY <2>2 DEF IInv, TypeOK, Content
<1>3. CASE Fail /\ UNCHANGED files
  <2>1. phase' = "over" /\ status' \in {"FAILED", status} /\ files' = files
    BY <1>3 DEF Fail, Saved
  <2>2. QED
    BY <1>1, <1>2, <2>1 DEF IInv, FilesInv, LogInv, ArtifactKeepsItsFiles, SucceededIsWhole,
                            Writing, Working
<1>4. ASSUME NEW x \in 1..Outputs, IsLast(x),
             files' = [files EXCEPT ![x] = WriteAt(files[x], names[x], Mine(TRUE))],
             phase' = IF x = Outputs THEN "logging" ELSE "open",
             status' = status
      PROVE  /\ files' \in [1..Outputs -> Seq(Content)]
             /\ FilesInv' /\ LogInv' /\ ArtifactKeepsItsFiles' /\ SucceededIsWhole'
  <2> DEFINE v == names[x]
  <2>1. v # 0 /\ v \in DOMAIN files[x] /\ files[x][v] = [run |-> run, whole |-> FALSE]
    BY <1>1, <1>4 DEF IInv, FilesInv, Writing, IsLast
  <2>2. /\ files[x] \in Seq(Content) /\ v \in 1..Len(files[x]) + 1
        /\ Mine(TRUE) \in Content /\ Mine(TRUE) = [run |-> run, whole |-> TRUE]
        /\ files'[x] = WriteAt(files[x], v, Mine(TRUE))
    <3>1. files[x] \in Seq(Content) /\ DOMAIN files[x] = 1..Len(files[x]) /\ Len(files[x]) \in Nat
      BY FilesType DEF IInv
    <3>2. v \in 1..Len(files[x]) + 1
      BY <2>1, <3>1
    <3>3. Mine(TRUE) \in Content /\ Mine(TRUE) = [run |-> run, whole |-> TRUE]
      BY <1>2 DEF Mine, Content
    <3>4. QED
      BY <1>2, <1>4, <3>1, <3>2, <3>3
  <2> HIDE DEF v
  <2>3. /\ files'[x] \in Seq(Content) /\ v \in DOMAIN files'[x]
        /\ files'[x][v] = [run |-> run, whole |-> TRUE]
        /\ \A u \in DOMAIN files[x] :
             u \in DOMAIN files'[x] /\ (u # v => files'[x][u] = files[x][u])
    <3> DEFINE f == files[x]
               c == Mine(TRUE)
               g == WriteAt(f, v, c)
    <3>1. f \in Seq(Content) /\ c \in Content /\ v \in 1..Len(f) + 1
      BY <2>2
    <3> HIDE DEF f, c
    <3>2. /\ g \in Seq(Content) /\ v \in DOMAIN g /\ g[v] = c
          /\ \A u \in DOMAIN f : u \in DOMAIN g /\ (u # v => g[u] = f[u])
      BY <3>1, WriteAtProperties
    <3> HIDE DEF g
    <3>3. files'[x] = g /\ c = [run |-> run, whole |-> TRUE]
      BY <2>2 DEF f, c, g
    <3>4. QED
      BY <3>2, <3>3 DEF f
  <2>4. \A o \in 1..Outputs : o # x => files'[o] = files[o]
    BY <1>2, <1>4
  <2>5. files' \in [1..Outputs -> Seq(Content)]
    BY <1>2, <1>4, <2>2, <2>3
  <2>6. phase' \in {"logging", "open"}
    BY <1>4
  <2>7. FilesInv'
    <3>1. ASSUME NEW o \in 1..Outputs, names[o] # 0
          PROVE  names[o] \in DOMAIN files'[o] /\ files'[o][names[o]] = [run |-> run, whole |-> TRUE]
      <4>1. CASE o = x
        BY <2>3, <4>1 DEF v
      <4>2. CASE o # x
        <5>1. ~IsLast(o)
          BY <1>2, <1>4, <3>1, <4>2 DEF IsLast
        <5>2. names[o] \in DOMAIN files[o] /\ files[o][names[o]] = [run |-> run, whole |-> TRUE]
          BY <1>1, <3>1, <5>1 DEF IInv, FilesInv, Writing
        <5>3. QED
          BY <2>4, <4>2, <5>2
      <4>3. QED
        BY <4>1, <4>2
    <3>2. \A o, k \in 1..Outputs : k < o /\ names[o] # 0 => names[k] # 0
      BY <1>1 DEF IInv, FilesInv, Writing
    <3>3. phase' = "logging" => \A o \in 1..Outputs : names[o] # 0
      <4> SUFFICES ASSUME phase' = "logging", NEW o \in 1..Outputs PROVE names[o] # 0
        OBVIOUS
      <4>1. x = Outputs /\ names[x] # 0
        BY <1>4 DEF IsLast
      <4>2. o = x \/ o < x
        BY <4>1
      <4>3. QED
        BY <3>2, <4>1, <4>2
    <3>4. \A o \in 1..Outputs : names'[o] # 0 =>
             /\ names'[o] \in DOMAIN files'[o]
             /\ files'[o][names'[o]] =
                  [run |-> run', whole |-> ~(phase' = "write" /\ IsLast(o)')]
      BY <1>1, <2>6, <3>1
    <3>5. \A o, k \in 1..Outputs : k < o /\ names'[o] # 0 => names'[k] # 0
      BY <1>1, <3>2
    <3>6. QED
      BY <1>1, <1>2, <2>6, <3>3, <3>4, <3>5 DEF FilesInv, Writing, Working
  <2>8. LogInv'
    BY <1>1, <1>2, <1>4, <2>6 DEF IInv, LogInv, Working, Phases
  <2>9. ArtifactKeepsItsFiles'
    <3> SUFFICES ASSUME NEW a \in artifacts, NEW o \in 1..Outputs
                 PROVE  /\ a.names[o] \in DOMAIN files'[o]
                        /\ files'[o][a.names[o]] = [run |-> a.run, whole |-> TRUE]
      BY <1>1 DEF ArtifactKeepsItsFiles
    <3>1. /\ a.names[o] \in DOMAIN files[o]
          /\ files[o][a.names[o]] = [run |-> a.run, whole |-> TRUE]
      BY DEF IInv, ArtifactKeepsItsFiles
    <3>2. CASE o = x
      <4>1. a.names[x] # v
        BY <2>1, <3>1, <3>2
      <4>2. QED
        BY <2>3, <3>1, <3>2, <4>1
    <3>3. QED
      BY <2>4, <3>1, <3>2
  <2>10. SucceededIsWhole'
    <3>1. ASSUME NEW o \in 1..Outputs, NEW u \in DOMAIN files[o], files[o][u].whole
          PROVE  u \in DOMAIN files'[o] /\ files'[o][u] = files[o][u]
      <4>1. CASE o = x
        <5>1. u # v
          BY <2>1, <3>1, <4>1
        <5>2. QED
          BY <2>3, <3>1, <4>1, <5>1
      <4>2. CASE o # x
        BY <2>4, <3>1, <4>2
      <4>3. QED
        BY <4>1, <4>2
    <3>2. status' # "SUCCEEDED"
      BY <1>1, <1>4 DEF IInv, LogInv
    <3>3. ASSUME meta # NoFiles
          PROVE  \E k \in 1..run : \A o \in 1..Outputs :
                     /\ meta[o] \in DOMAIN files'[o]
                     /\ files'[o][meta[o]] = [run |-> k, whole |-> TRUE]
      <4>1. PICK k \in 1..run : \A o \in 1..Outputs :
                     /\ meta[o] \in DOMAIN files[o]
                     /\ files[o][meta[o]] = [run |-> k, whole |-> TRUE]
        BY <3>3 DEF IInv, SucceededIsWhole
      <4>2. ASSUME NEW o \in 1..Outputs
            PROVE  /\ meta[o] \in DOMAIN files'[o]
                   /\ files'[o][meta[o]] = [run |-> k, whole |-> TRUE]
        <5>1. /\ meta[o] \in DOMAIN files[o]
              /\ files[o][meta[o]] = [run |-> k, whole |-> TRUE]
          BY <4>1
        <5>2. files[o][meta[o]].whole
          BY <5>1
        <5>3. QED
          BY <3>1, <5>1, <5>2
      <4>3. QED
        BY <4>2
    <3>4. QED
      BY <1>1, <3>2, <3>3 DEF SucceededIsWhole
  <2>11. QED
    BY <2>5, <2>7, <2>8, <2>9, <2>10
<1>5. QED
  BY <1>3, <1>4 DEF WriteFile

(* The log, the artifact, the row and the metadata. *)
LEMMA CloseSteps ==
    ASSUME IInv, OpenLog \/ WriteLog \/ Register \/ Succeed \/ Record
    PROVE  FilesInv' /\ LogInv' /\ ArtifactKeepsItsFiles' /\ SucceededIsWhole'
<1> USE AnalyzeAssumption
<1>1. /\ run \in Nat /\ log.run \in Nat
      /\ log \in [run : 0..MaxRuns, names : [1..Outputs -> Nat], whole : BOOLEAN]
  BY DEF IInv, TypeOK
<1>2. CASE OpenLog
  <2>1. /\ phase = "logging" /\ phase' = phase /\ UNCHANGED <<run, status, files, names, artifacts, meta>>
        /\ log' = [run |-> run, names |-> names, whole |-> FALSE]
    BY <1>2 DEF OpenLog, results
  <2>2. status # "SUCCEEDED"
    BY <2>1 DEF IInv, LogInv
  <2>3. SucceededIsWhole' /\ ArtifactKeepsItsFiles'
    BY <2>1, <2>2 DEF IInv, ArtifactKeepsItsFiles, SucceededIsWhole
  <2>4. FilesInv'
    BY <2>1 DEF IInv, FilesInv, Working, Writing, IsLast
  <2>5. LogInv'
    BY <1>1, <2>1, <2>2 DEF IInv, LogInv, Working, Writing
  <2>6. QED
    BY <2>3, <2>4, <2>5
<1>3. CASE WriteLog
  <2>1. /\ phase = "logging" /\ log.run = run /\ UNCHANGED <<run, files, names, artifacts, meta>>
    BY <1>3 DEF WriteLog, results
  <2>2. CASE Fail /\ UNCHANGED log
    BY <1>1, <2>1, <2>2 DEF Fail, Saved, IInv, FilesInv, LogInv, ArtifactKeepsItsFiles,
                            SucceededIsWhole, Working, Writing
  <2>3. CASE log' = [log EXCEPT !.whole = TRUE] /\ phase' = "register" /\ UNCHANGED status
    <3>1. log' = [run |-> run, names |-> names, whole |-> TRUE]
      BY <1>1, <2>1, <2>3 DEF IInv, LogInv
    <3>2. FilesInv'
      BY <2>1, <2>3 DEF IInv, FilesInv, Working, Writing
    <3>3. LogInv'
      BY <1>1, <2>1, <2>3, <3>1 DEF IInv, LogInv, Working
    <3>4. ArtifactKeepsItsFiles' /\ SucceededIsWhole'
      BY <2>1, <2>3 DEF IInv, LogInv, ArtifactKeepsItsFiles, SucceededIsWhole
    <3>5. QED
      BY <3>2, <3>3, <3>4
  <2>4. QED
    BY <1>3, <2>2, <2>3 DEF WriteLog
<1>4. CASE Register
  <2>1. /\ phase = "register" /\ phase' = "close" /\ UNCHANGED <<run, status, files, names, log, meta>>
        /\ artifacts' \subseteq artifacts \cup {[run |-> run, names |-> names]}
    BY <1>4 DEF Register, output
  <2>2. \A o \in 1..Outputs : /\ names[o] \in DOMAIN files[o]
                              /\ files[o][names[o]] = [run |-> run, whole |-> TRUE]
    BY <2>1 DEF IInv, FilesInv, Writing
  <2>3. ArtifactKeepsItsFiles'
    <3> SUFFICES ASSUME NEW a \in artifacts \cup {[run |-> run, names |-> names]},
                        NEW o \in 1..Outputs
                 PROVE  /\ a.names[o] \in DOMAIN files[o]
                        /\ files[o][a.names[o]] = [run |-> a.run, whole |-> TRUE]
      BY <2>1 DEF ArtifactKeepsItsFiles
    <3>1. CASE a \in artifacts
      BY <3>1 DEF IInv, ArtifactKeepsItsFiles
    <3>2. CASE a = [run |-> run, names |-> names]
      <4>1. a.run = run /\ a.names = names
        BY <3>2
      <4>2. QED
        BY <2>2, <4>1
    <3>3. QED
      BY <3>1, <3>2
  <2>4. QED
    BY <1>1, <2>1, <2>3 DEF IInv, FilesInv, LogInv, SucceededIsWhole, Working, Writing
<1>5. CASE Succeed
  <2>1. /\ phase = "close" /\ phase' = "record"
        /\ UNCHANGED <<run, files, names, log, artifacts, meta>>
    BY <1>5 DEF Succeed, output, results
  <2>2. \A o \in 1..Outputs : /\ names[o] \in DOMAIN files[o]
                              /\ files[o][names[o]] = [run |-> run, whole |-> TRUE]
    BY <2>1 DEF IInv, FilesInv, Writing
  <2>3. log = [run |-> run, names |-> names, whole |-> TRUE]
    BY <2>1 DEF IInv, LogInv
  <2>4. log.run = run /\ log.names = names /\ log.whole
    BY <2>3
  <2>5. SucceededIsWhole'
    BY <2>1, <2>2, <2>4 DEF IInv, SucceededIsWhole
  <2>6. LogInv'
    BY <1>1, <2>1, <2>3 DEF IInv, LogInv, Working
  <2>7. QED
    BY <2>1, <2>5, <2>6 DEF IInv, FilesInv, ArtifactKeepsItsFiles, Working, Writing
<1>6. CASE Record
  <2>1. /\ phase = "record" /\ phase' = "over" /\ meta' \in {names, meta}
        /\ UNCHANGED <<run, status, files, names, log, artifacts>>
    BY <1>6 DEF Record, output
  <2>2. run >= 1 /\ \A o \in 1..Outputs : /\ names[o] \in DOMAIN files[o]
                                          /\ files[o][names[o]] = [run |-> run, whole |-> TRUE]
    BY <2>1 DEF IInv, FilesInv, Writing
  <2>3. run \in 1..run
    BY <1>1, <2>2
  <2>4. SucceededIsWhole'
    <3>1. CASE meta' = names
      <4>1. \E k \in 1..run : \A o \in 1..Outputs :
                /\ meta'[o] \in DOMAIN files[o]
                /\ files[o][meta'[o]] = [run |-> k, whole |-> TRUE]
        BY <2>2, <2>3, <3>1
      <4>2. QED
        BY <2>1, <4>1 DEF IInv, SucceededIsWhole
    <3>2. CASE meta' = meta
      BY <2>1, <3>2 DEF IInv, SucceededIsWhole
    <3>3. QED
      BY <2>1, <3>1, <3>2
  <2>5. QED
    BY <1>1, <2>1, <2>4 DEF IInv, FilesInv, LogInv, ArtifactKeepsItsFiles, Working, Writing
<1>7. QED
  BY <1>2, <1>3, <1>4, <1>5, <1>6

(* and the part about files, log, artifact and metadata.                     *)
LEMMA FilesStep ==
    ASSUME IInv, [Next]_vars
    PROVE  FilesInv' /\ LogInv' /\ ArtifactKeepsItsFiles' /\ SucceededIsWhole'
<1> USE AnalyzeAssumption
<1>1. /\ run \in 0..MaxRuns /\ run \in Nat /\ log.run \in Nat /\ phase \in Phases
  BY DEF IInv, TypeOK
<1>2. CASE UNCHANGED vars
  BY <1>2 DEF vars, output, results, IInv, FilesInv, LogInv, ArtifactKeepsItsFiles,
              SucceededIsWhole, IsLast
<1>3. CASE Begin \/ Recover
  <2>1. CASE Begin
    <3>1. /\ phase = "waiting" /\ phase' = "begun" /\ run' = run + 1 /\ names' = NoFiles
          /\ UNCHANGED <<status, files, log, artifacts, meta>>
      BY <2>1 DEF Begin, results
    <3>2. status # "SUCCEEDED"
      BY <3>1 DEF IInv, LogInv
    <3>3. \A r \in 1..run : r \in 1..run + 1
      BY <1>1
    <3>4. SucceededIsWhole'
      BY <3>1, <3>2, <3>3 DEF IInv, SucceededIsWhole
    <3>5. QED
      BY <1>1, <3>1, <3>2, <3>4 DEF IInv, FilesInv, LogInv, ArtifactKeepsItsFiles, Working, Writing
  <2>2. CASE Recover
    <3>1. /\ phase' = "waiting" /\ status' # "SUCCEEDED"
          /\ UNCHANGED <<run, files, names, log, artifacts, meta>>
      BY <2>2 DEF Recover, Saved, output, results
    <3>2. QED
      BY <1>1, <3>1 DEF IInv, FilesInv, LogInv, ArtifactKeepsItsFiles, SucceededIsWhole,
                        Working, Writing
  <2>3. QED
    BY <1>3, <2>1, <2>2
<1>4. CASE /\ phase \in Working /\ UNCHANGED <<run, output, results>>
           /\ \/ phase' \in {"dead", "over"}
              \/ phase' = phase /\ phase \in Working \ Writing
              \/ phase \in Working \ Writing /\ phase' \in Working \ Writing
              \/ phase = "draft" /\ phase' = "open"
           /\ status' \in {status, "RUNNING", "FAILED"}
  <2>1. UNCHANGED <<run, files, names, log, artifacts, meta>>
    BY <1>4 DEF output, results
  <2>2. ArtifactKeepsItsFiles' /\ SucceededIsWhole'
    BY <1>4, <2>1 DEF IInv, ArtifactKeepsItsFiles, SucceededIsWhole
  <2>3. FilesInv'
    BY <1>4, <2>1 DEF IInv, FilesInv, Working, Writing, NoFiles, Phases, Listing
  <2>4. LogInv'
    BY <1>1, <1>4, <2>1 DEF IInv, LogInv, Working, Writing, Phases, Listing
  <2>5. QED
    BY <2>2, <2>3, <2>4
<1>5. CASE OpenFile
  BY <1>5, OpenFileStep
<1>6. CASE WriteFile
  BY <1>6, WriteFileStep
<1>7. CASE OpenLog \/ WriteLog \/ Register \/ Succeed \/ Record
  BY <1>7, CloseSteps
<1>8. QED
  BY <1>2, <1>3, <1>4, <1>5, <1>6, <1>7, FilesFrame

(***************************************************************************)
(* The theorems                                                            *)
(***************************************************************************)
LEMMA TypeStep ==
    ASSUME IInv, [Next]_vars, ChunksInv', QueueInv', FilesInv'
    PROVE  TypeOK'
<1> USE AnalyzeAssumption
<1>1. chunks' \in [Listing -> Seq(Chunk)] /\ pos' \in 1..(Size + 2)
  <2>1. CASE UNCHANGED text
    BY <2>1 DEF IInv, TypeOK, text
  <2>2. CASE AddLine
    <3>1. pos' \in 1..(Size + 2) /\ chunks' = [s \in Listing |-> chunks'[s]]
      BY <2>2 DEF AddLine, IInv, TypeOK
    <3>2. \A s \in Listing : chunks'[s] \in Seq(Chunk)
      BY DEF ChunksInv, Covers, Tidy
    <3>3. QED
      BY <3>1, <3>2
  <2>3. CASE pos' = 1 /\ chunks' = [s \in Listing |-> <<>>]
    BY <2>3
  <2>4. QED
    BY <2>1, <2>2, <2>3, TextFrame
<1>2. queue' \in Seq(Chunk)
  BY DEF QueueInv, Tidy
<1>3. limit' = limit
  BY DEF Next, Begin, Start, Die, Recover, Record, Work, SetUp, Connect, AddLine, ContextBuilt,
         Chat, StageDone, StageFoundNothing, Draft, OpenFile, WriteFile, OpenLog, WriteLog, Register, Succeed, Answer, TooLong,
         Garbled, Blank, ServiceFails, vars, text
<1>4. /\ phase' \in Phases /\ status' \in {"PENDING", "RUNNING", "FAILED", "SUCCEEDED"}
      /\ found' \in BOOLEAN
  <2>1. /\ phase \in Phases /\ status \in {"PENDING", "RUNNING", "FAILED", "SUCCEEDED"}
        /\ found \in BOOLEAN
    BY DEF IInv, TypeOK
  <2>2. CASE UNCHANGED vars \/ Die \/ SetUp \/ Connect \/ AddLine \/ Draft \/ StageFoundNothing
    BY <2>1, <2>2 DEF vars, stage, Die, SetUp, Connect, AddLine, Draft, StageFoundNothing, Fail,
                      Saved, Phases
  <2>3. CASE Begin \/ Start \/ Recover \/ ContextBuilt
    BY <2>1, <2>3 DEF Begin, Start, Recover, Saved, ContextBuilt, NewStage, stage, Phases, Listing
  <2>4. CASE StageDone
    <3>1. NextPhase[phase] \in Phases
      BY <2>4 DEF StageDone, NextPhase, Phases, Listing
    <3>2. phase' \in Phases /\ status' = status /\ found' = FALSE
      BY <2>4, <3>1 DEF StageDone, NewStage
    <3>3. QED
      BY <2>1, <3>2
  <2>5. CASE OpenFile \/ WriteFile \/ OpenLog \/ WriteLog \/ Register \/ Succeed \/ Record
    BY <2>1, <2>5 DEF OpenFile, WriteFile, OpenLog, WriteLog, Register, Succeed, Record, stage,
                      Fail, Saved, Phases
  <2>6. CASE Answer
    BY <2>1, <2>6 DEF Answer, Read
  <2>7. CASE TooLong \/ Garbled \/ Blank \/ ServiceFails
    BY <2>1, <2>7 DEF TooLong, Garbled, Blank, ServiceFails, Skip, Split, StageFails, Fail, Saved, Phases
  <2>8. QED
    BY <2>2, <2>5, <2>6, <2>7, <2>3, <2>4 DEF Next, Work, Chat
<1>5. read' \subseteq 1..Size /\ skipped' \subseteq 1..Size /\ requests' \in Nat
  <2>1. read \subseteq 1..Size /\ skipped \subseteq 1..Size /\ requests \in Nat
    BY DEF IInv, TypeOK
  <2>2. CASE UNCHANGED vars \/ UNCHANGED stage
    BY <2>1, <2>2 DEF vars, stage
  <2>3. CASE NewStage(<<>>) \/ NewStage(chunks[phase'])
    BY <2>3 DEF NewStage
  <2>4. CASE Asked
    <3>1. Head(queue) \in Chunk
      BY <2>4, HeadIsChunk DEF Asked, Request, IInv, QueueInv
    <3>2. Within(Head(queue)) \subseteq 1..Size
      BY <3>1, ChunkType DEF Within
    <3>3. requests' \in Nat
      BY <2>1, <2>4 DEF Asked, Request
    <3>4. /\ read' \in {read, read \cup Within(Head(queue))}
          /\ skipped' \in {skipped, skipped \cup Within(Head(queue))}
      BY <2>4 DEF Asked
    <3>5. QED
      BY <2>1, <3>2, <3>3, <3>4
  <2>5. QED
    BY <2>2, <2>3, <2>4, StageFrame
<1>6. run' \in 0..MaxRuns
  <2>1. run' = run \/ (run < MaxRuns /\ run' = run + 1)
    BY FilesFrame DEF Begin, Recover, OpenFile, WriteFile, OpenLog, WriteLog, Register, Succeed,
                      Record, vars
  <2>2. run \in 0..MaxRuns
    BY DEF IInv, TypeOK
  <2>3. QED
    BY <2>1, <2>2
<1>7. /\ files' \in [1..Outputs -> Seq(Content)]
      /\ names' \in [1..Outputs -> Nat] /\ meta' \in [1..Outputs -> Nat]
      /\ log' \in [run : 0..MaxRuns, names : [1..Outputs -> Nat], whole : BOOLEAN]
      /\ artifacts' \subseteq [run : 1..MaxRuns, names : [1..Outputs -> Nat]]
  <2>1. /\ files \in [1..Outputs -> Seq(Content)]
        /\ names \in [1..Outputs -> Nat] /\ meta \in [1..Outputs -> Nat]
        /\ log \in [run : 0..MaxRuns, names : [1..Outputs -> Nat], whole : BOOLEAN]
        /\ artifacts \subseteq [run : 1..MaxRuns, names : [1..Outputs -> Nat]]
        /\ run \in 0..MaxRuns
    BY DEF IInv, TypeOK, Content
  <2>2. CASE UNCHANGED vars \/ UNCHANGED <<run, output, results>>
    BY <2>1, <2>2 DEF vars, output, results
  <2>3. CASE Begin \/ Recover
    <3>1. CASE Begin
      BY <2>1, <3>1 DEF Begin, results, NoFiles
    <3>2. CASE Recover
      BY <2>1, <3>2 DEF Recover, output, results
    <3>3. QED
      BY <2>3, <3>1, <3>2
  <2>4. CASE OpenFile
    BY <2>1, <2>4, OpenFileStep DEF OpenFile, results
  <2>5. CASE WriteFile
    BY <2>1, <2>5, WriteFileStep DEF WriteFile, results
  <2>6. CASE OpenLog
    <3>1. log' = [run |-> run, names |-> names, whole |-> FALSE]
      BY <2>6 DEF OpenLog
    <3>2. log' \in [run : 0..MaxRuns, names : [1..Outputs -> Nat], whole : BOOLEAN]
      BY <2>1, <3>1
    <3>3. UNCHANGED <<files, names, meta, artifacts>>
      BY <2>6 DEF OpenLog, results
    <3>4. QED
      BY <2>1, <3>2, <3>3
  <2>7. CASE WriteLog
    <3>1. log' \in {log, [log EXCEPT !.whole = TRUE]}
      BY <2>7 DEF WriteLog
    <3>2. log' \in [run : 0..MaxRuns, names : [1..Outputs -> Nat], whole : BOOLEAN]
      BY <2>1, <3>1
    <3>3. QED
      BY <2>1, <2>7, <3>2 DEF WriteLog, results
  <2>8. CASE Register
    <3>1. run >= 1
      BY <2>8 DEF Register, IInv, FilesInv
    <3>2. [run |-> run, names |-> names] \in [run : 1..MaxRuns, names : [1..Outputs -> Nat]]
      BY <2>1, <3>1
    <3>3. QED
      BY <2>1, <2>8, <3>2 DEF Register, output
  <2>9. CASE Succeed \/ Record
    BY <2>1, <2>9 DEF Succeed, Record, output, results
  <2>10. QED
    BY <2>2, <2>3, <2>4, <2>5, <2>6, <2>8, <2>9, <2>7, FilesFrame
<1>8. QED
  BY <1>1, <1>2, <1>3, <1>4, <1>5, <1>6, <1>7 DEF IInv, TypeOK, Content

(* Together: every step keeps the invariant.                                 *)
LEMMA NextIInv == IInv /\ [Next]_vars => IInv'
<1> SUFFICES ASSUME IInv, [Next]_vars PROVE IInv'
  OBVIOUS
<1>1. ChunksInv' /\ QueueInv' /\ ChunksFit'
  BY ChunksStep, QueueStep, FitStep DEF IInv
<1>2. FilesInv' /\ LogInv' /\ ArtifactKeepsItsFiles' /\ SucceededIsWhole'
  BY FilesStep
<1>3. TypeOK'
  BY <1>1, <1>2, TypeStep
<1>4. QED
  BY <1>1, <1>2, <1>3 DEF IInv

(* The invariant holds in every behaviour, for any text and limits.          *)
THEOREM Invariance == Spec => []IInv
BY InitIInv, NextIInv, PTL DEF Spec

(* Every value stays in its domain; no chunk that is queued is empty. *)
THEOREM TypeCorrect == Spec => []TypeOK
<1>1. IInv => TypeOK
  BY DEF IInv
<1>2. QED
  BY <1>1, Invariance, PTL

(* Nothing context_builder took is lost between the requests of a stage,     *)
(* whatever is cut and wherever.                                             *)
THEOREM TextIsKept == Spec => []NothingLost
<1>1. IInv => NothingLost
  BY DEF IInv, QueueInv
<1>2. QED
  BY <1>1, Invariance, PTL

(* The text is asked about in its order, no character twice. *)
THEOREM TextIsInOrder == Spec => []InOrder
<1>1. IInv => InOrder
  BY DEF IInv, QueueInv, Tidy, InOrder
<1>2. QED
  BY <1>1, Invariance, PTL

(* An outline that lets the analysis go on has skipped nothing. *)
THEOREM OutlineLeavesNothingOut == Spec => []OutlineIsWhole
<1>1. IInv => OutlineIsWhole
  BY DEF IInv, QueueInv
<1>2. QED
  BY <1>1, Invariance, PTL

(* No chunk is too long for its stage but a line that is too long itself. *)
THEOREM ChunksAreFit == Spec => []ChunksFit
<1>1. IInv => ChunksFit
  BY DEF IInv
<1>2. QED
  BY <1>1, Invariance, PTL

(* A stage makes at most two requests per character, however it is answered. *)
THEOREM CuttingEnds == Spec => []RequestsBounded
<1>1. IInv => RequestsBounded
  BY DEF IInv, QueueInv
<1>2. QED
  BY <1>1, Invariance, PTL

(* No later execution touches the files a registered artifact names. *)
THEOREM ArtifactsKeepTheirFiles == Spec => []ArtifactKeepsItsFiles
<1>1. IInv => ArtifactKeepsItsFiles
  BY DEF IInv
<1>2. QED
  BY <1>1, Invariance, PTL

(* Success is of one execution: its log names its files, all whole; and the  *)
(* metadata, saved or not, names whole files of one execution or none.       *)
THEOREM SuccessIsWhole == Spec => []SucceededIsWhole
<1>1. IInv => SucceededIsWhole
  BY DEF IInv
<1>2. QED
  BY <1>1, Invariance, PTL

(***************************************************************************)
(* A job makes finitely many steps                                         *)
(***************************************************************************)
(* What is left to a job, the most significant part first: executions, each  *)
(* to be begun, to end and to be sent again;                                 *)
RunsLeft == 3 * (MaxRuns - run)
            + (IF phase \in Working THEN 2 ELSE IF phase = "waiting" THEN 0 ELSE 1)

(* the phases of this one;                                                   *)
PlacesLeft ==
    CASE phase = "begun"    -> 12 [] phase = "setup"    -> 11 [] phase = "agent"    -> 10
      [] phase = "context"  -> 9  [] phase = "outline"  -> 8  [] phase = "timeline" -> 7
      [] phase = "entities" -> 6  [] phase = "draft"    -> 5  [] phase = "open"     -> 4
      [] phase = "write"    -> 4  [] phase = "logging"  -> 3  [] phase = "register" -> 2
      [] phase = "close"    -> 1  [] OTHER -> 0

(* and in a phase that loops the characters context_builder has not taken,   *)
(* the requests of the stage, the files not written, the log not begun.      *)
Unnamed == {o \in 1..Outputs : names[o] = 0}

WorkLeft ==
    CASE phase = "context"  -> (Size + 2) - pos
      [] phase \in Listing  -> 2 * Size - requests
      [] phase = "open"     -> 2 * Cardinality(Unnamed)
      [] phase = "write"    -> 2 * Cardinality(Unnamed) + 1
      [] phase = "logging"  -> IF log.run = run /\ ~log.whole THEN 0 ELSE 1
      [] OTHER -> 0

LeftOK == RunsLeft \in Nat /\ PlacesLeft \in Nat /\ WorkLeft \in Nat

(* There is less left, in the lexicographic order. *)
LessIsLeft ==
    \/ RunsLeft' < RunsLeft
    \/ /\ RunsLeft' = RunsLeft
       /\ \/ PlacesLeft' < PlacesLeft
          \/ PlacesLeft' = PlacesLeft /\ WorkLeft' < WorkLeft

(* The same as an order on triples of natural numbers.                       *)
Left    == <<RunsLeft, PlacesLeft, WorkLeft>>
Below   == OpToRel(<, Nat)
Descent == LexProductOrdering(Below, Nat, 3)

(* Nothing descends in that order for ever.                                  *)
THEOREM DescentEnds == IsWellFoundedOn(Descent, [1..3 -> Nat])
BY NatLessThanWellFounded, WFLexProductOrdering, Zenon DEF Descent, Below

(* A smaller number is below in the order of the natural numbers. *)
LEMMA LessThanIsBelow == \A a, b \in Nat : a < b => <<a, b>> \in Below
BY DEF OpToRel, Below

(* Less is left means lower in the order. *)
LEMMA LessIsBelow ==
    ASSUME LeftOK, LeftOK', LessIsLeft
    PROVE  <<Left', Left>> \in Descent
<1>1. ASSUME NEW f \in [1..3 -> Nat], NEW g \in [1..3 -> Nat], NEW j \in 1..3,
             \A i \in 1..(j - 1) : f[i] = g[i], f[j] < g[j]
      PROVE  <<f, g>> \in Descent
  BY <1>1, LessThanIsBelow DEF Descent, LexProductOrdering
<1>2. Left \in [1..3 -> Nat] /\ Left' \in [1..3 -> Nat]
  BY DEF Left, LeftOK
<1>3. /\ Left[1] = RunsLeft /\ Left[2] = PlacesLeft /\ Left[3] = WorkLeft
      /\ Left'[1] = RunsLeft' /\ Left'[2] = PlacesLeft' /\ Left'[3] = WorkLeft'
  BY DEF Left
<1>4. PICK j \in 1..3 : (\A i \in 1..(j - 1) : Left'[i] = Left[i]) /\ Left'[j] < Left[j]
  <2>1. CASE RunsLeft' < RunsLeft
    <3>1. (\A i \in 1..(1 - 1) : Left'[i] = Left[i]) /\ Left'[1] < Left[1]
      BY <2>1, <1>3
    <3>2. QED
      BY <3>1
  <2>2. CASE RunsLeft' = RunsLeft /\ PlacesLeft' < PlacesLeft
    <3>1. (\A i \in 1..(2 - 1) : Left'[i] = Left[i]) /\ Left'[2] < Left[2]
      BY <2>2, <1>3
    <3>2. QED
      BY <3>1
  <2>3. CASE RunsLeft' = RunsLeft /\ PlacesLeft' = PlacesLeft /\ WorkLeft' < WorkLeft
    <3>1. (\A i \in 1..(3 - 1) : Left'[i] = Left[i]) /\ Left'[3] < Left[3]
      BY <2>3, <1>3
    <3>2. QED
      BY <3>1
  <2>4. QED
    BY <2>1, <2>2, <2>3 DEF LessIsLeft
<1>5. QED
  BY <1>1, <1>2, <1>4

(* There are finitely many outputs. *)
LEMMA UnnamedFinite == IsFiniteSet(Unnamed)
<1>1. IsFiniteSet(1..Outputs)
  BY AnalyzeAssumption, FS_Interval
<1>2. QED
  BY <1>1, FS_Subset DEF Unnamed

(* Opening a file leaves one output less to write. *)
LEMMA OpenedIsNamed ==
    ASSUME NEW o \in 1..Outputs, names \in [1..Outputs -> Nat], names[o] = 0,
           NEW v \in Nat \ {0}, names' = [names EXCEPT ![o] = v]
    PROVE  /\ Cardinality(Unnamed) \in Nat /\ Cardinality(Unnamed') \in Nat
           /\ Cardinality(Unnamed') = Cardinality(Unnamed) - 1
<1>1. IsFiniteSet(Unnamed)
  BY UnnamedFinite
<1>2. o \in Unnamed
  BY DEF Unnamed
<1>3. Unnamed' = Unnamed \ {o}
  BY DEF Unnamed
<1>4. IsFiniteSet(Unnamed') /\ Cardinality(Unnamed') = Cardinality(Unnamed) - 1
  BY <1>1, <1>2, <1>3, FS_RemoveElement
<1>5. QED
  BY <1>1, <1>4, FS_CardinalityType

(* What is left is counted. *)
LEMMA LeftType == ASSUME IInv PROVE LeftOK
<1>1. RunsLeft \in Nat
  BY AnalyzeAssumption DEF IInv, TypeOK, RunsLeft
<1>2. PlacesLeft \in Nat
  BY DEF PlacesLeft
<1>3. WorkLeft \in Nat
  <2>1. Cardinality(Unnamed) \in Nat
    BY UnnamedFinite, FS_CardinalityType
  <2>2. (Size + 2) - pos \in Nat /\ 2 * Size - requests \in Nat
    BY AnalyzeAssumption DEF IInv, TypeOK, QueueInv, RequestsBounded
  <2>3. QED
    BY <2>1, <2>2 DEF WorkLeft
<1>4. QED
  BY <1>1, <1>2, <1>3 DEF LeftOK

(* An execution that ends, one way or another, is one less. *)
LEMMA EndsLess ==
    ASSUME IInv, phase \in Working, phase' \in {"dead", "over"}, run' = run
    PROVE  LessIsLeft
<1>1. run \in Nat /\ MaxRuns \in Nat
  BY AnalyzeAssumption DEF IInv, TypeOK
<1>2. RunsLeft' < RunsLeft
  BY <1>1 DEF RunsLeft, Working
<1>3. QED
  BY <1>2 DEF LessIsLeft

(* An execution that goes on to its next phase has one phase less. *)
LEMMA MovesLess ==
    ASSUME phase \in Working, phase' \in Working, run' = run, PlacesLeft' < PlacesLeft
    PROVE  LessIsLeft
<1>1. RunsLeft' = RunsLeft
  BY DEF RunsLeft
<1>2. QED
  BY <1>1 DEF LessIsLeft

(* One that stays in a phase has less of its work. *)
LEMMA StaysLess ==
    ASSUME phase \in Working, phase' \in Working, run' = run,
           PlacesLeft' = PlacesLeft, WorkLeft' < WorkLeft
    PROVE  LessIsLeft
<1>1. RunsLeft' = RunsLeft
  BY DEF RunsLeft
<1>2. QED
  BY <1>1 DEF LessIsLeft

(* The phases that do not loop; a write that raises; the end of each loop.   *)
LEMMA PassesLess ==
    ASSUME IInv, \/ Begin \/ Start \/ Die \/ Recover \/ SetUp \/ Connect \/ ContextBuilt \/ StageDone
                 \/ StageFoundNothing \/ Draft \/ WriteLog \/ Register \/ Succeed \/ Record
    PROVE  LessIsLeft
<1> run \in Nat /\ MaxRuns \in Nat
  BY AnalyzeAssumption DEF IInv, TypeOK
<1>1. CASE Begin \/ Recover
  <2>1. CASE Begin
    <3>1. phase = "waiting" /\ phase' = "begun" /\ run' = run + 1
      BY <2>1 DEF Begin
    <3>2. phase \notin Working /\ phase' \in Working
      BY <3>1 DEF Working, Phases
    <3>3. RunsLeft = 3 * (MaxRuns - run) /\ RunsLeft' = 3 * (MaxRuns - (run + 1)) + 2
      BY <3>1, <3>2 DEF RunsLeft
    <3>4. QED
      BY <3>3 DEF LessIsLeft
  <2>2. CASE Recover
    <3>1. phase \in {"dead", "over"} /\ phase' = "waiting" /\ run' = run
      BY <2>2 DEF Recover
    <3>2. RunsLeft = 3 * (MaxRuns - run) + 1 /\ RunsLeft' = 3 * (MaxRuns - run)
      BY <3>1 DEF RunsLeft, Working
    <3>3. QED
      BY <3>2 DEF LessIsLeft
  <2>3. QED
    BY <1>1, <2>1, <2>2
<1>2. CASE Die \/ StageFoundNothing \/ Record
  <2>1. phase \in Working /\ phase' \in {"dead", "over"} /\ run' = run
    BY <1>2 DEF Die, StageFoundNothing, Record, Fail, Working, Phases, Listing
  <2>2. QED
    BY <2>1, EndsLess
<1>3. CASE SetUp \/ Connect \/ Draft \/ WriteLog
  <2>1. phase \in Working /\ run' = run
    BY <1>3 DEF SetUp, Connect, Draft, WriteLog, Working, Phases
  <2>2. CASE phase' = "over"
    BY <2>1, <2>2, EndsLess
  <2>3. CASE phase' # "over"
    <3>1. /\ phase' \in Working
          /\ \/ phase = "setup" /\ phase' = "agent"
             \/ phase = "agent" /\ phase' = "context"
             \/ phase = "draft" /\ phase' = "open"
             \/ phase = "logging" /\ phase' = "register"
      BY <1>3, <2>3 DEF SetUp, Connect, Draft, WriteLog, Fail, Working, Phases
    <3>2. PlacesLeft' < PlacesLeft
      BY <3>1 DEF PlacesLeft
    <3>3. QED
      BY <2>1, <3>1, <3>2, MovesLess
  <2>4. QED
    BY <2>2, <2>3
<1>4. CASE Start \/ ContextBuilt \/ StageDone \/ Register \/ Succeed
  <2>1. /\ phase \in Working /\ phase' \in Working /\ run' = run
        /\ \/ phase = "begun" /\ phase' = "setup"
           \/ phase = "close" /\ phase' = "record"
           \/ phase = "context" /\ phase' = "outline"
           \/ phase = "outline" /\ phase' = "timeline"
           \/ phase = "timeline" /\ phase' = "entities"
           \/ phase = "entities" /\ phase' = "draft"
           \/ phase = "register" /\ phase' = "close"
    BY <1>4 DEF Start, ContextBuilt, StageDone, Register, Succeed, NextPhase, Listing, Working,
                Phases
  <2>2. PlacesLeft' < PlacesLeft
    BY <2>1 DEF PlacesLeft
  <2>3. QED
    BY <2>1, <2>2, MovesLess
<1>5. QED
  BY <1>1, <1>2, <1>3, <1>4

(* The loops: lines, requests, files, the log. *)
LEMMA LoopsLess ==
    ASSUME IInv, IInv', AddLine \/ Chat \/ OpenFile \/ WriteFile \/ OpenLog
    PROVE  LessIsLeft
<1>1. CASE AddLine
  <2>1. PICK q \in pos..Size : pos' = q + 2
    BY <1>1 DEF AddLine
  <2>2. phase = "context" /\ phase' = phase /\ run' = run
    BY <1>1 DEF AddLine
  <2>3. pos \in Int /\ Size \in Int
    BY AnalyzeAssumption DEF IInv, TypeOK
  <2>4. WorkLeft = (Size + 2) - pos /\ WorkLeft' = (Size + 2) - pos'
    BY <2>2 DEF WorkLeft, Listing
  <2>5. WorkLeft' < WorkLeft /\ PlacesLeft' = PlacesLeft /\ phase \in Working
    BY <2>1, <2>2, <2>3, <2>4 DEF PlacesLeft, Working, Phases
  <2>6. QED
    BY <2>2, <2>5, StaysLess
<1>2. CASE Chat
  <2>1. phase \in Listing /\ requests' = requests + 1 /\ run' = run /\ phase' \in {phase, "over"}
    BY <1>2 DEF Chat, Answer, TooLong, Garbled, Blank, ServiceFails, Request, Read, Skip,
                Split, StageFails, Fail
  <2>2. phase \in Working
    BY <2>1 DEF Working, Phases, Listing
  <2>3. CASE phase' = "over"
    BY <2>1, <2>2, <2>3, EndsLess
  <2>4. CASE phase' = phase
    <3>1. requests \in Int /\ Size \in Int
      BY AnalyzeAssumption DEF IInv, TypeOK
    <3>2. WorkLeft = 2 * Size - requests /\ WorkLeft' = 2 * Size - requests'
      BY <2>1, <2>4 DEF WorkLeft, Listing
    <3>3. WorkLeft' < WorkLeft /\ PlacesLeft' = PlacesLeft
      BY <2>1, <2>4, <3>1, <3>2 DEF PlacesLeft
    <3>4. QED
      BY <2>1, <2>2, <2>4, <3>3, StaysLess
  <2>5. QED
    BY <2>1, <2>3, <2>4
<1>3. CASE OpenFile
  <2>1. PICK o \in 1..Outputs : names[o] = 0 /\ names' = [names EXCEPT ![o] = NextVersion(o)]
    BY <1>3 DEF OpenFile, IsNext
  <2>2. phase = "open" /\ phase' = "write" /\ run' = run
    BY <1>3 DEF OpenFile
  <2>3. NextVersion(o) \in Nat \ {0} /\ names \in [1..Outputs -> Nat]
    BY DEF NextVersion, IInv, TypeOK
  <2>4. /\ Cardinality(Unnamed) \in Nat /\ Cardinality(Unnamed') \in Nat
        /\ Cardinality(Unnamed') = Cardinality(Unnamed) - 1
    BY <2>1, <2>3, OpenedIsNamed
  <2>5. /\ WorkLeft = 2 * Cardinality(Unnamed) /\ WorkLeft' = 2 * Cardinality(Unnamed') + 1
        /\ PlacesLeft' = PlacesLeft /\ phase \in Working /\ phase' \in Working
    BY <2>2 DEF WorkLeft, PlacesLeft, Listing, Working, Phases
  <2>6. WorkLeft' < WorkLeft
    BY <2>4, <2>5
  <2>7. QED
    BY <2>2, <2>5, <2>6, StaysLess
<1>4. CASE WriteFile
  <2>1. /\ phase = "write" /\ phase' \in {"over", "open", "logging"} /\ run' = run
        /\ names' = names
    BY <1>4 DEF WriteFile, Fail
  <2>2. phase \in Working
    BY <2>1 DEF Working, Phases
  <2>3. CASE phase' = "over"
    BY <2>1, <2>2, <2>3, EndsLess
  <2>4. CASE phase' = "logging"
    <3>1. PlacesLeft' < PlacesLeft /\ phase' \in Working
      BY <2>1, <2>4 DEF PlacesLeft, Working, Phases
    <3>2. QED
      BY <2>1, <2>2, <3>1, MovesLess
  <2>5. CASE phase' = "open"
    <3>1. Unnamed' = Unnamed
      BY <2>1 DEF Unnamed
    <3>2. /\ WorkLeft = 2 * Cardinality(Unnamed) + 1
          /\ WorkLeft' = 2 * Cardinality(Unnamed)
          /\ PlacesLeft' = PlacesLeft /\ phase' \in Working
      BY <2>1, <2>5, <3>1 DEF WorkLeft, PlacesLeft, Listing, Working, Phases
    <3>3. Cardinality(Unnamed) \in Nat
      BY UnnamedFinite, FS_CardinalityType
    <3>4. WorkLeft' < WorkLeft
      BY <3>2, <3>3
    <3>5. QED
      BY <2>1, <2>2, <3>2, <3>4, StaysLess
  <2>6. QED
    BY <2>1, <2>3, <2>4, <2>5
<1>5. CASE OpenLog
  <2>1. /\ phase = "logging" /\ phase' = phase /\ run' = run
        /\ (log.whole \/ log.run # run)
        /\ log' = [run |-> run, names |-> names, whole |-> FALSE]
    BY <1>5 DEF OpenLog
  <2>2. WorkLeft = 1
    BY <2>1 DEF WorkLeft, Listing
  <2>3. WorkLeft' = 0
    BY <2>1 DEF WorkLeft, Listing
  <2>4. PlacesLeft' = PlacesLeft /\ phase \in Working
    BY <2>1 DEF PlacesLeft, Working, Phases
  <2>5. QED
    BY <2>1, <2>2, <2>3, <2>4, StaysLess
<1>6. QED
  BY <1>1, <1>2, <1>3, <1>4, <1>5

(* Every step of a job, the death of a worker and a new execution included,  *)
(* leaves less of it in an order that nothing descends for ever: a job makes *)
(* finitely many steps, whatever the service replies and whatever is cut.    *)
THEOREM AnalyzeDescends == Spec => []LeftOK /\ [][(<<Left', Left>> \in Descent)]_vars
<1>1. IInv => LeftOK
  BY LeftType
<1>2. IInv /\ IInv' /\ [Next]_vars => [LessIsLeft]_vars
  <2> SUFFICES ASSUME IInv, IInv', Next PROVE LessIsLeft
    OBVIOUS
  <2>1. QED
    BY PassesLess, LoopsLess DEF Next, Work
<1>3. LeftOK /\ LeftOK' /\ [LessIsLeft]_vars => [(<<Left', Left>> \in Descent)]_vars
  BY LessIsBelow
<1>4. QED
  BY <1>1, <1>2, <1>3, Invariance, PTL DEF Spec

(***************************************************************************)
(* No phase is stuck                                                       *)
(***************************************************************************)
(* The next character to take begins a line; an output is left to be opened, *)
(* and one is open while it is written.                                      *)
LoopInv ==
    /\ pos <= Size => pos \notin Newlines
    /\ phase = "open" => names[Outputs] = 0
    /\ phase = "write" => \E o \in 1..Outputs : names[o] # 0

(* What AddLine, OpenFile and WriteFile choose is there to be chosen.  Every *)
(* other phase has an action whose guard is the phase alone, or two whose    *)
(* guards are each other's negation.                                         *)
LoopsGoOn ==
    /\ phase = "context" => pos > Size \/ Full \/ \E q \in pos..Size : IsLine(pos, q)
    /\ phase = "open" => \E o \in 1..Outputs : IsNext(o)
    /\ phase = "write" => \E o \in 1..Outputs : IsLast(o)

(* A set of natural numbers has a least one. *)
LEMMA LeastOf ==
    ASSUME NEW S, S \subseteq Nat, S # {}
    PROVE  \E m \in S : \A k \in S : m <= k
<1>1. PICK m \in S : \A k \in S : ~(<<k, m>> \in Below)
  BY NatLessThanWellFounded, WFMin, Zenon DEF Below
<1>2. \A k \in S : m \in Nat /\ k \in Nat /\ ~(k < m)
  BY <1>1, LessThanIsBelow
<1>3. QED
  BY <1>2

(* A line ends before the next newline, or where the text does. *)
LEMMA LineEnds ==
    ASSUME pos \in 1..Size, pos \notin Newlines
    PROVE  \E q \in pos..Size : IsLine(pos, q)
<1> USE AnalyzeAssumption
<1> DEFINE S == {n \in Newlines : pos < n}
<1>1. CASE S = {}
  <2>1. (pos..Size) \cap Newlines = {}
    BY <1>1
  <2>2. QED
    BY <2>1 DEF IsLine
<1>2. CASE S # {}
  <2>1. S \subseteq Nat
    <3>1. \A n \in Newlines : n \in Nat
      OBVIOUS
    <3>2. QED
      BY <3>1
  <2>2. PICK n \in S : \A k \in S : n <= k
    BY <1>2, <2>1, LeastOf
  <2>3. n \in Newlines /\ n \in Nat /\ pos < n /\ n <= Size - 1
    BY <2>2
  <2>4. (pos..(n - 1)) \cap Newlines = {}
    BY <2>2, <2>3
  <2>5. n - 1 \in pos..Size /\ (n - 1) + 1 \in Newlines /\ pos <= n - 1
    BY <2>3
  <2>6. QED
    BY <2>4, <2>5 DEF IsLine
<1>3. QED
  BY <1>1, <1>2

(* Outputs that are not named: the first of them is next, and the one before *)
(* it was the last to be opened.                                             *)
LEMMA OutputsGoOn ==
    ASSUME names \in [1..Outputs -> Nat],
           \A o, k \in 1..Outputs : k < o /\ names[o] # 0 => names[k] # 0
    PROVE  /\ names[Outputs] = 0 => \E o \in 1..Outputs : IsNext(o)
           /\ (\E o \in 1..Outputs : names[o] # 0) => \E o \in 1..Outputs : IsLast(o)
<1> USE AnalyzeAssumption
<1>1. Unnamed \subseteq Nat /\ Outputs \in 1..Outputs
  BY DEF Unnamed
<1>2. CASE Unnamed = {}
  <2>1. \A o \in 1..Outputs : names[o] # 0
    BY <1>2 DEF Unnamed
  <2>2. IsLast(Outputs)
    BY <1>1, <2>1 DEF IsLast
  <2>3. QED
    BY <1>1, <2>1, <2>2
<1>3. CASE Unnamed # {}
  <2>1. PICK m \in Unnamed : \A k \in Unnamed : m <= k
    BY <1>1, <1>3, LeastOf
  <2>2. m \in 1..Outputs /\ names[m] = 0 /\ \A k \in 1..Outputs : k < m => names[k] # 0
    BY <2>1 DEF Unnamed
  <2>3. IsNext(m)
    BY <2>2 DEF IsNext
  <2>4. ASSUME NEW o \in 1..Outputs, names[o] # 0 PROVE IsLast(m - 1)
    <3>1. o < m
      <4>1. ~(m < o) /\ o # m
        BY <2>2, <2>4
      <4>2. QED
        BY <2>2, <4>1
    <3>2. m - 1 \in 1..Outputs /\ names[m - 1] # 0
      BY <2>2, <3>1
    <3>3. \A k \in 1..Outputs : k > m - 1 => names[k] = 0
      <4> SUFFICES ASSUME NEW k \in 1..Outputs, k > m - 1, names[k] # 0 PROVE FALSE
        OBVIOUS
      <4>1. ~(m < k) /\ k # m
        BY <2>2
      <4>2. QED
        BY <2>2, <4>1
    <3>4. QED
      BY <3>2, <3>3 DEF IsLast
  <2>5. ASSUME NEW o \in 1..Outputs, names[o] # 0 PROVE m - 1 \in 1..Outputs
    <3>1. ~(m < o) /\ o # m
      BY <2>2, <2>5
    <3>2. QED
      BY <2>2, <3>1
  <2>6. QED
    BY <2>2, <2>3, <2>4, <2>5
<1>4. QED
  BY <1>2, <1>3

(* A step leaves the loops something to choose. *)
LEMMA LoopStep ==
    ASSUME IInv, LoopInv, [Next]_vars
    PROVE  LoopInv'
<1> USE AnalyzeAssumption
<1>1. pos' <= Size => pos' \notin Newlines
  <2>1. CASE UNCHANGED text
    BY <2>1 DEF text, LoopInv
  <2>2. CASE AddLine
    <3>1. PICK q \in pos..Size : IsLine(pos, q) /\ pos' = q + 2
      BY <2>2 DEF AddLine
    <3>2. pos \in Int
      BY DEF IInv, TypeOK
    <3>3. CASE q = Size
      BY <3>1, <3>3
    <3>4. CASE q + 1 \in Newlines
      <4>1. (q + 1) + 1 \notin Newlines /\ (q + 1) + 1 = q + 2
        BY <3>2, <3>4
      <4>2. QED
        BY <3>1, <4>1
    <3>5. QED
      BY <3>1, <3>3, <3>4 DEF IsLine
  <2>3. CASE pos' = 1
    BY <2>3
  <2>4. QED
    BY <2>1, <2>2, <2>3, TextFrame
<1>2. /\ phase' = "open" => names'[Outputs] = 0
      /\ phase' = "write" => \E o \in 1..Outputs : names'[o] # 0
  <2>1. CASE UNCHANGED vars
    BY <2>1 DEF vars, output, LoopInv
  <2>2. CASE Begin \/ Recover
    BY <2>2 DEF Begin, Recover
  <2>3. CASE /\ phase \in Working /\ UNCHANGED <<run, output, results>>
             /\ \/ phase' \in {"dead", "over"}
                \/ phase' = phase /\ phase \in Working \ Writing
                \/ phase \in Working \ Writing /\ phase' \in Working \ Writing
                \/ phase = "draft" /\ phase' = "open"
    <3>1. CASE phase = "draft" /\ phase' = "open"
      <4>1. names = NoFiles /\ names' = names
        BY <2>3, <3>1 DEF IInv, FilesInv, Working, Writing, Phases, output
      <4>2. QED
        BY <3>1, <4>1 DEF NoFiles
    <3>2. QED
      BY <2>3, <3>1 DEF Writing
  <2>4. CASE OpenFile
    <3>1. phase' = "write" /\ names \in [1..Outputs -> Nat]
      BY <2>4 DEF OpenFile, IInv, TypeOK
    <3>2. PICK o \in 1..Outputs : names' = [names EXCEPT ![o] = NextVersion(o)]
      BY <2>4 DEF OpenFile
    <3>3. NextVersion(o) # 0
      BY DEF NextVersion, IInv, TypeOK
    <3>4. QED
      BY <3>1, <3>2, <3>3
  <2>5. CASE WriteFile
    <3>1. names' = names /\ phase' # "write"
      BY <2>5 DEF WriteFile, Fail
    <3>2. CASE phase' = "open"
      <4>1. PICK o \in 1..Outputs : IsLast(o) /\ o # Outputs
        BY <2>5, <3>2 DEF WriteFile, Fail
      <4>2. names[Outputs] = 0
        BY <4>1 DEF IsLast
      <4>3. QED
        BY <3>1, <4>2
    <3>3. QED
      BY <3>1, <3>2
  <2>6. CASE OpenLog \/ WriteLog \/ Register \/ Succeed \/ Record
    BY <2>6 DEF OpenLog, WriteLog, Register, Succeed, Record, Fail
  <2>7. QED
    BY <2>1, <2>2, <2>3, <2>4, <2>5, <2>6, FilesFrame
<1>3. QED
  BY <1>1, <1>2 DEF LoopInv

(* The task is never stuck in a phase: with AnalyzeDescends, what is left of *)
(* the liveness of a job is that the worker is scheduled (FairSpec).         *)
THEOREM NeverStuck == Spec => []LoopsGoOn
<1> USE AnalyzeAssumption
<1>1. Init => LoopInv
  BY DEF Init, LoopInv
<1>2. IInv /\ LoopInv /\ [Next]_vars => LoopInv'
  BY LoopStep
<1>3. IInv /\ LoopInv => LoopsGoOn
  <2> SUFFICES ASSUME IInv, LoopInv PROVE LoopsGoOn
    OBVIOUS
  <2>1. phase = "context" => pos > Size \/ Full \/ \E q \in pos..Size : IsLine(pos, q)
    <3>1. pos > Size \/ (pos \in 1..Size /\ pos \notin Newlines)
      BY DEF IInv, TypeOK, LoopInv
    <3>2. QED
      BY <3>1, LineEnds
  <2>2. names \in [1..Outputs -> Nat]
    BY DEF IInv, TypeOK
  <2>3. phase \in {"open", "write"} =>
          \A o, k \in 1..Outputs : k < o /\ names[o] # 0 => names[k] # 0
    BY DEF IInv, FilesInv, Writing
  <2>4. QED
    BY <2>1, <2>2, <2>3, OutputsGoOn DEF LoopInv, LoopsGoOn
<1>4. QED
  BY <1>1, <1>2, <1>3, Invariance, PTL DEF Spec
=============================================================================
