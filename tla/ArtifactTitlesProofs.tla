------------------------ MODULE ArtifactTitlesProofs ------------------------
(* Theorems about ArtifactTitles, for any number of jobs and deliverables.   *)
EXTENDS ArtifactTitles, WellFoundedInduction, TLAPS

(***************************************************************************)
(* Numbers: a bounded set of them has a maximum                            *)
(***************************************************************************)
Less == {p \in Nat \X Nat : p[1] < p[2]}

(* Numbers have no infinite descent.                                         *)
LEMMA LessIsWellFounded == IsWellFoundedOn(Less, Nat)
BY NatLessThanWellFounded DEF OpToRel, Less

(* A bounded non-empty set of numbers has a greatest one.                    *)
LEMMA MaxIs ==
    ASSUME NEW S \in SUBSET Nat, S # {}, NEW m \in Nat, \A x \in S : x <= m
    PROVE  Max(S) \in S /\ \A x \in S : x <= Max(S)
<1> DEFINE T == {k \in Nat : \E x \in S : k = m - x}
<1>1. T # {} /\ T \subseteq Nat
  <2>1. PICK x \in S : TRUE
    OBVIOUS
  <2>2. m - x \in T
    BY <2>1
  <2>3. QED
    BY <2>2
<1>2. PICK k \in T : \A y \in T : ~ (<<y, k>> \in Less)
  <2> HIDE DEF T
  <2>1. QED
    BY <1>1, WFMin, LessIsWellFounded
<1>3. \A y \in T : ~ (y < k)
  BY <1>1, <1>2 DEF Less
<1>4. PICK x \in S : k = m - x
  BY <1>2
<1>5. \A y \in S : y <= x
  <2> SUFFICES ASSUME NEW y \in S PROVE y <= x
    OBVIOUS
  <2>1. m - y \in T
    OBVIOUS
  <2>2. QED
    BY <2>1, <1>3, <1>4
<1>6. QED
  BY <1>5 DEF Max

Bounded(S) == \E m \in Nat : \A t \in S : t.n <= m

(* unique_title() returns a title behind all it has seen. *)
LEMMA UniqueTitleIs ==
    ASSUME NEW S \in SUBSET Titles, Bounded(S), NEW h \in Hints \cup {Transcript}
    PROVE  /\ UniqueTitle(h, S) \in Titles
           /\ UniqueTitle(h, S).hint = h
           /\ \A t \in S : t.hint = h => t.n < UniqueTitle(h, S).n
<1> DEFINE seen    == {t \in S : t.hint = h \/ <<h, t.hint>> \in Extensions}
           numbers == {t.n : t \in seen} \cup {0}
<1>1. numbers \in SUBSET Nat /\ numbers # {}
  <2>1. \A t \in seen : t.n \in Nat
    BY DEF Titles
  <2>2. 0 \in numbers
    OBVIOUS
  <2>3. \A x \in numbers : x = 0 \/ \E t \in seen : x = t.n
    OBVIOUS
  <2> HIDE DEF numbers, seen
  <2>4. \A x \in numbers : x \in Nat
    BY <2>1, <2>3
  <2>5. QED
    BY <2>2, <2>4
<1>2. PICK m \in Nat : \A t \in S : t.n <= m
  BY DEF Bounded
<1>3. \A x \in numbers : x <= m
  <2>1. \A t \in seen : t.n <= m
    BY <1>2
  <2>2. \A x \in numbers : x = 0 \/ \E t \in seen : x = t.n
    OBVIOUS
  <2> HIDE DEF numbers, seen
  <2>3. QED
    BY <2>1, <2>2
<1>4. Max(numbers) \in numbers /\ \A x \in numbers : x <= Max(numbers)
  <2> HIDE DEF numbers
  <2>1. QED
    BY <1>1, <1>3, MaxIs
<1>5. UniqueTitle(h, S) = [hint |-> h, n |-> 1 + Max(numbers)]
  BY DEF UniqueTitle, Title
<1>6. Max(numbers) \in Nat
  BY <1>1, <1>4
<1>7. \A t \in S : t.hint = h => t.n <= Max(numbers)
  <2>1. \A t \in S : t.hint = h => t.n \in numbers
    OBVIOUS
  <2> HIDE DEF numbers
  <2>2. QED
    BY <1>4, <2>1
<1> HIDE DEF numbers
<1>8. QED
  BY <1>5, <1>6, <1>7 DEF Titles

(***************************************************************************)
(* Types                                                                   *)
(***************************************************************************)
(* No set of titles is unbounded. *)
BoundedInv ==
    /\ Bounded(table)
    /\ \A j \in Jobs : Bounded(titles[j])
    /\ \E m \in Nat : \A j \in Jobs : reserved[j] <= m

Typed == TypeOK /\ BoundedInv

(* Two bounded sets of titles are bounded together.                          *)
LEMMA BoundedUnion ==
    ASSUME NEW S, NEW T, Bounded(S), Bounded(T), \A t \in S \cup T : t.n \in Nat
    PROVE  Bounded(S \cup T)
<1>1. PICK m \in Nat : \A t \in S : t.n <= m
  BY DEF Bounded
<1>2. PICK k \in Nat : \A t \in T : t.n <= k
  BY DEF Bounded
<1>3. \A t \in S \cup T : t.n <= m + k
  BY <1>1, <1>2
<1>4. QED
  BY <1>3 DEF Bounded

(* One title is bounded.                                                     *)
LEMMA BoundedSingle ==
    ASSUME NEW t, t.n \in Nat
    PROVE  Bounded({t})
BY DEF Bounded

(* No title is bounded.                                                      *)
LEMMA BoundedEmpty == Bounded({})
BY DEF Bounded

(* The titles a job reads. *)
LEMMA RegisteredTyped ==
    ASSUME TypeOK, Bounded(table)
    PROVE  Registered \in SUBSET Titles /\ Bounded(Registered)
<1>1. Registered \in SUBSET Titles
  BY DEF Registered, Title, TypeOK, Titles
<1>2. PICK m \in Nat : \A a \in table : a.n <= m
  BY DEF Bounded
<1>3. \A t \in Registered : t.n <= m
  BY <1>2 DEF Registered, Title
<1>4. QED
  BY <1>1, <1>3 DEF Bounded

(* Reserved titles are titles.                                               *)
LEMMA ReservedTyped ==
    ASSUME TypeOK, BoundedInv
    PROVE  Reserved \in SUBSET Titles /\ Bounded(Reserved)
<1>1. Reserved \in SUBSET Titles
  BY DEF Reserved, Title, TypeOK, Titles
<1>2. PICK m \in Nat : \A j \in Jobs : reserved[j] <= m
  BY DEF BoundedInv
<1>3. \A t \in Reserved : t.n <= m
  BY <1>2 DEF Reserved, Title
<1>4. QED
  BY <1>1, <1>3 DEF Bounded

(* What UniqueTitle may return is a title, with one number.                  *)
LEMMA TitlesForTyped ==
    ASSUME TypeOK, BoundedInv, NEW j \in Jobs
    PROVE  TitlesFor(j) \in SUBSET Titles /\ Bounded(TitlesFor(j))
<1>1. TitlesFor(j) \subseteq Registered
  BY DEF TitlesFor
<1>2. QED
  BY <1>1, RegisteredTyped DEF BoundedInv, Bounded

(* An artifact is inserted under a title. *)
LEMMA InsertTyped ==
    ASSUME TypeOK, BoundedInv, NEW j \in Jobs, NEW t \in Titles, Insert(j, t)
    PROVE  /\ table' \subseteq [job : Jobs, hint : Hints \cup {Transcript}, n : Nat \ {0}]
           /\ Bounded(table')
<1> DEFINE a == [job |-> j, hint |-> t.hint, n |-> t.n]
<1>1. a \in [job : Jobs, hint : Hints \cup {Transcript}, n : Nat \ {0}]
  BY DEF Titles
<1>2. table' = table \cup {a}
  BY DEF Insert
<1>3. a.n \in Nat
  BY <1>1
<1>4. \A b \in table : b.n \in Nat
  BY DEF TypeOK
<1> HIDE DEF a
<1>5. Bounded({a})
  BY <1>3, BoundedSingle
<1>6. Bounded(table \cup {a})
  BY <1>3, <1>4, <1>5, BoundedUnion DEF BoundedInv
<1>7. QED
  BY <1>1, <1>2, <1>6 DEF TypeOK

(* The titles of one job change. *)
LEMMA TitlesChange ==
    ASSUME TypeOK, BoundedInv, NEW j \in Jobs, NEW S \in SUBSET Titles, Bounded(S),
           titles' = [titles EXCEPT ![j] = S]
    PROVE  /\ titles' \in [Jobs -> SUBSET Titles]
           /\ \A i \in Jobs : Bounded(titles'[i])
BY DEF TypeOK, BoundedInv

(* Typed holds at the beginning                                              *)
LEMMA TypedInit == ASSUME TitlesAssumption, Init PROVE Typed
<1>1. TypeOK
  BY DEF Init, TypeOK, TitlesAssumption, Jobs, Transcriptions
<1>2. BoundedInv
  BY BoundedEmpty DEF Init, BoundedInv
<1>3. QED
  BY <1>1, <1>2 DEF Typed

(* and is kept by every step.                                                *)
LEMMA TypedStep ==
    ASSUME TitlesAssumption, Typed, [Next]_vars
    PROVE  Typed'
<1> USE DEF Typed
<1>1. CASE UNCHANGED vars
  BY <1>1 DEF vars, TypeOK, BoundedInv, Bounded
<1>2. ASSUME NEW j \in Jobs, ReadForName(j)
      PROVE  Typed'
  <2>1. /\ TitlesFor(j) \cup Reserved \in SUBSET Titles
        /\ Bounded(TitlesFor(j) \cup Reserved)
    <3>1. \A t \in TitlesFor(j) \cup Reserved : t.n \in Nat
      BY TitlesForTyped, ReservedTyped DEF Titles
    <3>2. QED
      BY <3>1, TitlesForTyped, ReservedTyped, BoundedUnion
  <2>2. /\ titles' \in [Jobs -> SUBSET Titles]
        /\ \A i \in Jobs : Bounded(titles'[i])
    BY <1>2, <2>1, TitlesChange DEF ReadForName
  <2>3. QED
    BY <1>2, <2>2 DEF ReadForName, TypeOK, BoundedInv, Bounded
<1>3. ASSUME NEW j \in Jobs, Reserve(j)
      PROVE  Typed'
  <2>1. UniqueTitle(Transcript, titles[j]) \in Titles
    BY UniqueTitleIs DEF TypeOK, BoundedInv
  <2>2. PICK k \in Nat \ {0} : reserved' = [reserved EXCEPT ![j] = k]
    BY <1>3, <2>1 DEF Reserve, Titles
  <2>3. \E m \in Nat : \A i \in Jobs : reserved'[i] <= m
    <3>1. PICK m \in Nat : \A i \in Jobs : reserved[i] <= m
      BY DEF BoundedInv
    <3>2. \A i \in Jobs : reserved'[i] <= m + k
      BY <2>2, <3>1 DEF TypeOK
    <3>3. QED
      BY <3>2
  <2>4. /\ titles' \in [Jobs -> SUBSET Titles]
        /\ \A i \in Jobs : Bounded(titles'[i])
    BY <1>3, BoundedEmpty, TitlesChange DEF Reserve
  <2>5. QED
    BY <1>3, <2>2, <2>3, <2>4 DEF Reserve, TypeOK, BoundedInv, Bounded
<1>4. ASSUME NEW j \in Jobs, ReadTitles(j)
      PROVE  Typed'
  <2>1. /\ titles' \in [Jobs -> SUBSET Titles]
        /\ \A i \in Jobs : Bounded(titles'[i])
    BY <1>4, TitlesForTyped, TitlesChange DEF ReadTitles
  <2>2. QED
    BY <1>4, <2>1 DEF ReadTitles, Returned, TypeOK, BoundedInv, Bounded, TitlesAssumption
<1>5. ASSUME NEW j \in Jobs, RegisterTranscript(j)
      PROVE  Typed'
  <2>1. PICK t \in Titles : table' = table \/ Insert(j, t)
    <3>1. CASE reserved[j] # 0
      BY <1>5, <3>1 DEF RegisterTranscript, Title, Titles, TypeOK
    <3>2. CASE reserved[j] = 0
      <4>1. UniqueTitle(Transcript, titles[j]) \in Titles
        BY UniqueTitleIs DEF TypeOK, BoundedInv
      <4>2. QED
        BY <1>5, <3>2, <4>1 DEF RegisterTranscript
    <3>3. QED
      BY <3>1, <3>2
  <2>2. /\ table' \subseteq [job : Jobs, hint : Hints \cup {Transcript}, n : Nat \ {0}]
        /\ Bounded(table')
    BY <2>1, InsertTyped DEF TypeOK, BoundedInv
  <2>3. /\ titles' \in [Jobs -> SUBSET Titles]
        /\ \A i \in Jobs : Bounded(titles'[i])
    BY <1>5, BoundedEmpty, TitlesChange DEF RegisterTranscript
  <2>4. QED
    BY <1>5, <2>2, <2>3 DEF RegisterTranscript, TypeOK, BoundedInv, Bounded
<1>6. ASSUME NEW j \in Jobs, NEW h \in Hints, RegisterDeliverable(j, h)
      PROVE  Typed'
  <2> DEFINE t == UniqueTitle(h, titles[j])
  <2>1. t \in Titles
    BY UniqueTitleIs DEF TypeOK, BoundedInv
  <2>2. t.n \in Nat
    BY <2>1 DEF Titles
  <2> HIDE DEF t
  <2>3. CASE t \in Registered
    <3>1. /\ titles' \in [Jobs -> SUBSET Titles]
          /\ \A i \in Jobs : Bounded(titles'[i])
      BY <1>6, <2>3, BoundedEmpty, TitlesChange DEF RegisterDeliverable, t
    <3>2. QED
      BY <1>6, <2>3, <3>1 DEF RegisterDeliverable, TypeOK, BoundedInv, Bounded, t
  <2>4. CASE t \notin Registered
    <3>1. Bounded(titles[j] \cup {t})
      <4>1. \A x \in titles[j] \cup {t} : x.n \in Nat
        BY <2>2 DEF TypeOK, Titles
      <4>2. QED
        BY <2>2, <4>1, BoundedSingle, BoundedUnion DEF BoundedInv
    <3>2. titles[j] \cup {t} \in SUBSET Titles
      BY <2>1 DEF TypeOK
    <3>3. titles' = [titles EXCEPT ![j] = titles[j] \cup {t}]
      BY <1>6, <2>4 DEF RegisterDeliverable, TypeOK, t
    <3>4. /\ titles' \in [Jobs -> SUBSET Titles]
          /\ \A i \in Jobs : Bounded(titles'[i])
      BY <3>1, <3>2, <3>3, TitlesChange
    <3>5. /\ table' \subseteq [job : Jobs, hint : Hints \cup {Transcript}, n : Nat \ {0}]
          /\ Bounded(table')
      BY <1>6, <2>1, <2>4, InsertTyped DEF RegisterDeliverable, t
    <3>6. QED
      BY <1>6, <2>4, <3>4, <3>5 DEF RegisterDeliverable, TypeOK, BoundedInv, Bounded, t
  <2>5. QED
    BY <2>3, <2>4
<1>7. ASSUME NEW j \in Jobs, ComposeSucceeds(j) \/ Crash(j)
      PROVE  Typed'
  <2>1. /\ titles' \in [Jobs -> SUBSET Titles]
        /\ \A i \in Jobs : Bounded(titles'[i])
    BY <1>7, BoundedEmpty, TitlesChange DEF ComposeSucceeds, Crash
  <2>2. QED
    BY <1>7, <2>1 DEF ComposeSucceeds, Crash, TypeOK, BoundedInv, Bounded
<1>8. ASSUME NEW j \in Jobs, Resume(j)
      PROVE  Typed'
  BY <1>8 DEF Resume, TypeOK, BoundedInv, Bounded
<1>9. QED
  BY <1>1, <1>2, <1>3, <1>4, <1>5, <1>6, <1>7, <1>8 DEF Next

(* So types and bounds hold in every behaviour.                              *)
LEMMA TypedCorrect == Spec => []Typed
BY TypedInit, TypedStep, TitlesAssumption, PTL DEF Spec

(* Every variable keeps its type, for any number of jobs, deliverables and   *)
(* executions.                                                               *)
THEOREM TypeCorrect == Spec => []TypeOK
BY TypedCorrect, PTL DEF Typed

(***************************************************************************)
(* Who is where                                                            *)
(***************************************************************************)
(* A title is reserved by a page before it sends its transcription, and only *)
(* transcriptions make transcripts.                                          *)
Placed ==
    /\ \A j \in Jobs : reserved[j] # 0 =>
          j \in UiJobs /\ pc[j] \notin {"absent", "new", "naming"}
    /\ \A j \in UiJobs : reserved[j] = 0 => pc[j] \in {"absent", "new", "naming"}
    /\ \A j \in Jobs : pc[j] \in {"new", "naming"} => j \in UiJobs
    /\ \A a \in table : a.hint = Transcript <=> a.job \in Transcriptions

(* What a page reserves, and what the steps that register add to the table. *)
LEMMA ReservedNumber ==
    ASSUME Typed, NEW j \in Jobs, Reserve(j)
    PROVE  /\ reserved'[j] \in Nat \ {0}
           /\ \A i \in Jobs \ {j} : reserved'[i] = reserved[i]
           /\ \A t \in titles[j] : t.hint = Transcript => t.n < reserved'[j]
<1>1. /\ UniqueTitle(Transcript, titles[j]) \in Titles
      /\ \A t \in titles[j] : t.hint = Transcript
             => t.n < UniqueTitle(Transcript, titles[j]).n
  BY UniqueTitleIs DEF Typed, TypeOK, BoundedInv
<1>2. reserved'[j] = UniqueTitle(Transcript, titles[j]).n
  BY DEF Reserve, Typed, TypeOK
<1>3. QED
  BY <1>1, <1>2 DEF Reserve, Typed, TypeOK, Titles

(* The title a transcription is registered under. *)
TranscriptTitle(j) ==
    IF reserved[j] # 0 THEN Title(Transcript, reserved[j])
                       ELSE UniqueTitle(Transcript, titles[j])

(* The transcription jobs insert one artifact.                               *)
LEMMA TranscriptIs ==
    ASSUME Typed, NEW j \in Jobs, RegisterTranscript(j)
    PROVE  /\ TranscriptTitle(j).hint = Transcript
           /\ IF TranscriptTitle(j) \in Registered THEN table' = table
              ELSE table' = table \cup {[job |-> j, hint |-> Transcript,
                                        n |-> TranscriptTitle(j).n]}
<1>1. UniqueTitle(Transcript, titles[j]).hint = Transcript
  BY UniqueTitleIs DEF Typed, TypeOK, BoundedInv
<1>2. TranscriptTitle(j).hint = Transcript
  BY <1>1 DEF TranscriptTitle, Title
<1>3. QED
  BY <1>2 DEF RegisterTranscript, TranscriptTitle, Insert

(* What the steps of a deliverable read and write.                           *)
LEMMA DeliverableIs ==
    ASSUME Typed, NEW j \in Jobs, NEW h \in Hints, RegisterDeliverable(j, h)
    PROVE  LET t == UniqueTitle(h, titles[j])
           IN  /\ t.hint = h
               /\ \A x \in titles[j] : x.hint = h => x.n < t.n /\ x.n \in Nat
               /\ IF t \in Registered THEN table' = table
                  ELSE table' = table \cup {[job |-> j, hint |-> h, n |-> t.n]}
<1>1. /\ UniqueTitle(h, titles[j]).hint = h
      /\ \A x \in titles[j] : x.hint = h => x.n < UniqueTitle(h, titles[j]).n
  BY UniqueTitleIs DEF Typed, TypeOK, BoundedInv
<1>2. \A x \in titles[j] : x.n \in Nat
  BY DEF Typed, TypeOK, Titles
<1>3. QED
  BY <1>1, <1>2 DEF RegisterDeliverable, Insert

(* A job that has been sent goes on. *)
LEMMA PlaceMoves ==
    ASSUME Typed, Placed, NEW j \in Jobs, NEW x, reserved' = reserved,
           pc' = [pc EXCEPT ![j] = x],
           pc[j] \notin {"absent", "new", "naming"}, x \notin {"absent", "new", "naming"},
           \A a \in table' : a.hint = Transcript <=> a.job \in Transcriptions
    PROVE  Placed'
<1>1. \A i \in Jobs : pc'[i] = IF i = j THEN x ELSE pc[i]
  BY DEF Typed, TypeOK
<1>2. UiJobs \subseteq Jobs
  BY DEF Jobs, Transcriptions
<1>3. QED
  BY <1>1, <1>2 DEF Placed

(* Placed holds at the beginning                                             *)
LEMMA PlacedInit == ASSUME TitlesAssumption, Init PROVE Placed
BY DEF Init, Placed, TitlesAssumption, Jobs, Transcriptions

(* and is kept by every step.                                                *)
LEMMA PlacedStep ==
    ASSUME TitlesAssumption, Typed, Placed, [Next]_vars
    PROVE  Placed'
<1>1. CASE UNCHANGED vars
  BY <1>1 DEF vars, Placed
<1>2. ASSUME NEW j \in Jobs, ReadForName(j)
      PROVE  Placed'
  BY <1>2 DEF ReadForName, Placed, Typed, TypeOK
<1>3. ASSUME NEW j \in Jobs, Reserve(j)
      PROVE  Placed'
  BY <1>3, ReservedNumber DEF Reserve, Placed, Typed, TypeOK, Jobs, Transcriptions
<1>4. ASSUME NEW j \in Jobs, ReadTitles(j)
      PROVE  Placed'
  BY <1>4 DEF ReadTitles, Placed, Typed, TypeOK
<1>5. ASSUME NEW j \in Jobs, RegisterTranscript(j)
      PROVE  Placed'
  <2> DEFINE a == [job |-> j, hint |-> Transcript, n |-> TranscriptTitle(j).n]
  <2>1. table' = table \/ table' = table \cup {a}
    BY <1>5, TranscriptIs
  <2>2. a.hint = Transcript /\ a.job \in Transcriptions
    BY <1>5 DEF RegisterTranscript
  <2> HIDE DEF a
  <2>3. \A b \in table' : b.hint = Transcript <=> b.job \in Transcriptions
    BY <2>1, <2>2 DEF Placed
  <2>4. QED
    BY <1>5, <2>3, PlaceMoves DEF RegisterTranscript
<1>6. ASSUME NEW j \in Jobs, NEW h \in Hints, RegisterDeliverable(j, h)
      PROVE  Placed'
  <2>1. h # Transcript /\ j \notin Transcriptions
    BY <1>6 DEF RegisterDeliverable, TitlesAssumption
  <2>2. \A a \in table' : a.hint = Transcript <=> a.job \in Transcriptions
    BY <1>6, <2>1, DeliverableIs DEF Placed
  <2>3. reserved' = reserved /\ pc[j] = "registering"
    BY <1>6 DEF RegisterDeliverable
  <2>4. PICK x \in {"registering", "aborted"} : pc' = [pc EXCEPT ![j] = x]
    BY <1>6 DEF RegisterDeliverable, Typed, TypeOK
  <2>5. QED
    BY <2>2, <2>3, <2>4, PlaceMoves
<1>7. ASSUME NEW j \in Jobs, ComposeSucceeds(j) \/ Crash(j)
      PROVE  Placed'
  <2>1. \A a \in table' : a.hint = Transcript <=> a.job \in Transcriptions
    BY <1>7 DEF ComposeSucceeds, Crash, Placed
  <2>2. CASE ComposeSucceeds(j)
    BY <2>1, <2>2, PlaceMoves DEF ComposeSucceeds
  <2>3. CASE Crash(j)
    BY <2>1, <2>3, PlaceMoves DEF Crash
  <2>4. QED
    BY <1>7, <2>2, <2>3
<1>8. ASSUME NEW j \in Jobs, Resume(j)
      PROVE  Placed'
  <2>1. \A a \in table' : a.hint = Transcript <=> a.job \in Transcriptions
    BY <1>8 DEF Resume, Placed
  <2>2. QED
    BY <1>8, <2>1, PlaceMoves DEF Resume
<1>9. QED
  BY <1>1, <1>2, <1>3, <1>4, <1>5, <1>6, <1>7, <1>8 DEF Next

(* So each place has the artifacts it should have.                           *)
LEMMA PlacedCorrect == Spec => [](Typed /\ Placed)
<1>1. Init => Typed /\ Placed
  BY TypedInit, PlacedInit, TitlesAssumption
<1>2. Typed /\ Placed /\ [Next]_vars => (Typed /\ Placed)'
  BY TypedStep, PlacedStep, TitlesAssumption
<1>3. QED
  BY <1>1, <1>2, PTL DEF Spec

(***************************************************************************)
(* A compose that succeeded                                                *)
(***************************************************************************)
(* What an execution has made is in the table, and success needs all it left *)
(* a file for.                                                               *)
CompleteInv ==
    \A j \in ComposeJobs :
        /\ \A h \in made[j] : \E a \in table : a.job = j /\ a.hint = h
        /\ pc[j] = "succeeded" => made[j] = produced[j]

(* A compose reaches SUCCEEDED past its last deliverable only.               *)
LEMMA CompleteStep ==
    ASSUME TitlesAssumption, Typed, CompleteInv, [Next]_vars
    PROVE  CompleteInv'
<1>0. ComposeJobs \subseteq Jobs
  BY DEF Jobs
<1>1. CASE UNCHANGED vars
  BY <1>1 DEF vars, CompleteInv
<1>2. ASSUME NEW j \in Jobs, ReadForName(j) \/ Reserve(j)
      PROVE  CompleteInv'
  BY <1>0, <1>2 DEF ReadForName, Reserve, CompleteInv, Typed, TypeOK
<1>3. ASSUME NEW j \in Jobs, ReadTitles(j)
      PROVE  CompleteInv'
  BY <1>0, <1>3 DEF ReadTitles, Returned, CompleteInv, Typed, TypeOK
<1>4. ASSUME NEW j \in Jobs, RegisterTranscript(j)
      PROVE  CompleteInv'
  <2>1. table \subseteq table' /\ made' = made /\ j \notin ComposeJobs
    BY <1>4, TranscriptIs DEF RegisterTranscript, TitlesAssumption
  <2>2. QED
    BY <1>0, <1>4, <2>1 DEF RegisterTranscript, CompleteInv, Typed, TypeOK
<1>5. ASSUME NEW j \in Jobs, NEW h \in Hints, RegisterDeliverable(j, h)
      PROVE  CompleteInv'
  <2> DEFINE t == UniqueTitle(h, titles[j])
  <2>1. CASE t \in Registered
    BY <1>0, <1>5, <2>1 DEF RegisterDeliverable, CompleteInv, Typed, TypeOK
  <2>2. CASE t \notin Registered
    <3>1. table' = table \cup {[job |-> j, hint |-> h, n |-> t.n]}
      BY <1>5, <2>2, DeliverableIs
    <3>2. [job |-> j, hint |-> h, n |-> t.n] \in table' /\ table \subseteq table'
      BY <3>1
    <3>3. /\ made' = [made EXCEPT ![j] = @ \cup {h}]
          /\ pc' = pc /\ pc[j] = "registering" /\ produced' = produced
      BY <1>5, <2>2 DEF RegisterDeliverable
    <3> HIDE DEF t
    <3>4. \E a \in table' : a.job = j /\ a.hint = h
      BY <3>2
    <3>5. QED
      BY <1>0, <3>2, <3>3, <3>4 DEF CompleteInv, Typed, TypeOK
  <2>3. QED
    BY <2>1, <2>2
<1>6. ASSUME NEW j \in Jobs, ComposeSucceeds(j) \/ Crash(j)
      PROVE  CompleteInv'
  BY <1>0, <1>6 DEF ComposeSucceeds, Crash, CompleteInv, Typed, TypeOK
<1>7. ASSUME NEW j \in Jobs, Resume(j)
      PROVE  CompleteInv'
  BY <1>0, <1>7 DEF Resume, CompleteInv, Typed, TypeOK
<1>8. QED
  BY <1>1, <1>2, <1>3, <1>4, <1>5, <1>6, <1>7 DEF Next

(* A compose that says SUCCEEDED has registered every deliverable its last   *)
(* execution left a file for, however many executions and composes there     *)
(* were.                                                                     *)
THEOREM CompletenessCorrect == Spec => []SucceededComposeIsComplete
<1>1. Init => CompleteInv
  BY DEF Init, CompleteInv, Jobs
<1>2. Typed /\ CompleteInv /\ [Next]_vars => CompleteInv'
  BY CompleteStep, TitlesAssumption
<1>3. CompleteInv => SucceededComposeIsComplete
  BY DEF CompleteInv, SucceededComposeIsComplete
<1>4. QED
  BY <1>1, <1>2, <1>3, TypedCorrect, PTL DEF Spec

(***************************************************************************)
(* Composes collide by overlap only                                        *)
(***************************************************************************)
(* Unless two composes overlapped, each holds every title of the table.      *)
OverlapInv ==
    clean => \A j \in ComposeJobs :
        /\ pc[j] = "registering" =>
              \A t \in Registered : t.hint # Transcript => t \in titles[j]
        /\ pc[j] # "aborted"

(* A new collision of composes means they overlapped.                        *)
LEMMA OverlapStep ==
    ASSUME TitlesAssumption, Typed, Placed, OverlapInv, [Next]_vars
    PROVE  OverlapInv'
<1>0. ComposeJobs \subseteq Jobs /\ ComposeJobs \cap Transcriptions = {}
  BY DEF Jobs, TitlesAssumption
<1>1. CASE UNCHANGED vars
  BY <1>1 DEF vars, OverlapInv, Registered
<1>2. ASSUME NEW j \in Jobs, ReadForName(j)
      PROVE  OverlapInv'
  <2>1. j \notin ComposeJobs
    BY <1>0, <1>2 DEF ReadForName, Placed, Transcriptions
  <2>2. QED
    BY <1>0, <1>2, <2>1 DEF ReadForName, OverlapInv, Registered, Typed, TypeOK
<1>3. ASSUME NEW j \in Jobs, Reserve(j)
      PROVE  OverlapInv'
  <2>1. j \notin ComposeJobs
    BY <1>0, <1>3 DEF Reserve, Placed, Transcriptions
  <2>2. QED
    BY <1>0, <1>3, <2>1 DEF Reserve, OverlapInv, Registered, Typed, TypeOK
<1>4. ASSUME NEW j \in Jobs, ReadTitles(j)
      PROVE  OverlapInv'
  <2>1. j \in ComposeJobs => \A t \in Registered : t.hint # Transcript => t \in TitlesFor(j)
    BY <1>0 DEF TitlesFor
  <2>2. Registered' = Registered
    BY <1>4 DEF ReadTitles, Registered
  <2>3. QED
    BY <1>0, <1>4, <2>1, <2>2 DEF ReadTitles, OverlapInv, Typed, TypeOK
<1>5. ASSUME NEW j \in Jobs, RegisterTranscript(j)
      PROVE  OverlapInv'
  <2>1. j \notin ComposeJobs
    BY <1>0, <1>5 DEF RegisterTranscript
  <2>2. \A t \in Registered' : t.hint # Transcript => t \in Registered
    BY <1>5, TranscriptIs DEF Registered, Title
  <2>3. clean' => clean
    BY <1>5 DEF RegisterTranscript
  <2>4. QED
    BY <1>0, <1>5, <2>1, <2>2, <2>3 DEF RegisterTranscript, OverlapInv, Typed, TypeOK
<1>6. ASSUME NEW j \in Jobs, NEW h \in Hints, RegisterDeliverable(j, h)
      PROVE  OverlapInv'
  <2> SUFFICES ASSUME clean'
               PROVE  \A i \in ComposeJobs :
                          /\ pc'[i] = "registering" =>
                                \A t \in Registered' : t.hint # Transcript => t \in titles'[i]
                          /\ pc'[i] # "aborted"
    BY DEF OverlapInv
  <2> DEFINE t == UniqueTitle(h, titles[j])
  <2>1. clean /\ j \in ComposeJobs /\ pc[j] = "registering" /\ h # Transcript
    BY <1>6 DEF RegisterDeliverable, TitlesAssumption
  <2>2. /\ t.hint = h
        /\ \A x \in titles[j] : x.hint = h => x.n < t.n /\ x.n \in Nat
    BY <1>6, DeliverableIs
  <2>3. t \notin Registered
    <3>1. t \in Registered => t \in titles[j]
      BY <2>1, <2>2 DEF OverlapInv
    <3> HIDE DEF t
    <3>2. QED
      BY <2>2, <3>1
  <2>4. /\ pc' = pc /\ table' = table \cup {[job |-> j, hint |-> h, n |-> t.n]}
        /\ titles' = [titles EXCEPT ![j] = @ \cup {t}]
        /\ Holding(j) = {}
    BY <1>6, <2>2, <2>3 DEF RegisterDeliverable, Insert
  <2>5. t = Title(h, t.n)
    BY DEF UniqueTitle, Title
  <2> HIDE DEF t
  <2>6. \A x \in Registered' : x \in Registered \/ x = t
    BY <2>4, <2>5 DEF Registered
  <2>7. \A i \in ComposeJobs \ {j} : pc[i] # "registering"
    <3> SUFFICES ASSUME NEW i \in ComposeJobs \ {j}, pc[i] = "registering" PROVE FALSE
      OBVIOUS
    <3>1. i \in Jobs /\ i \notin Transcriptions /\ j \notin Transcriptions
      BY <1>0, <2>1
    <3>2. reserved[i] = 0
      BY <3>1 DEF Placed, Transcriptions
    <3>3. i \in Holding(j)
      BY <3>1, <3>2 DEF Holding
    <3>4. QED
      BY <2>4, <3>3
  <2>8. QED
    BY <1>0, <2>1, <2>4, <2>6, <2>7 DEF OverlapInv, Typed, TypeOK
<1>7. ASSUME NEW j \in Jobs, ComposeSucceeds(j) \/ Crash(j)
      PROVE  OverlapInv'
  <2>1. Registered' = Registered
    BY <1>7 DEF ComposeSucceeds, Crash, Registered
  <2>2. QED
    BY <1>0, <1>7, <2>1 DEF ComposeSucceeds, Crash, OverlapInv, Typed, TypeOK
<1>8. ASSUME NEW j \in Jobs, Resume(j)
      PROVE  OverlapInv'
  <2>1. Registered' = Registered
    BY <1>8 DEF Resume, Registered
  <2>2. QED
    BY <1>0, <1>8, <2>1 DEF Resume, OverlapInv, Typed, TypeOK
<1>9. QED
  BY <1>1, <1>2, <1>3, <1>4, <1>5, <1>6, <1>7, <1>8 DEF Next

(* A compose aborts only if another one registered between its reading of    *)
(* the titles and its inserts, for any number of composes and executions.    *)
THEOREM CollisionsCorrect == Spec => []ComposesCollideOnlyByOverlap
<1>1. Init => OverlapInv
  BY DEF Init, OverlapInv, Jobs
<1>2. Typed /\ Placed /\ OverlapInv /\ [Next]_vars => OverlapInv'
  BY OverlapStep, TitlesAssumption
<1>3. OverlapInv => ComposesCollideOnlyByOverlap
  BY DEF OverlapInv, ComposesCollideOnlyByOverlap
<1>4. QED
  BY <1>1, <1>2, <1>3, PlacedCorrect, PTL DEF Spec

(***************************************************************************)
(* A reserved title is kept                                                *)
(***************************************************************************)
(* The case has no upload through the API, *)
NoUpload == \A j \in ApiJobs : pc[j] = "absent"

(* every transcript has the title its job reserved, *)
TranscriptsReserved ==
    \A a \in table : a.hint = Transcript => a.job \in UiJobs /\ a.n = reserved[a.job]

(* a page that names its job knows all reserved titles, which are distinct,  *)
Distinct ==
    clean => /\ \A i, j \in Jobs : i # j /\ reserved[i] # 0 => reserved[i] # reserved[j]
             /\ \A j \in UiJobs : pc[j] = "naming" => Reserved \subseteq titles[j]

(* and a success has its own. *)
KeptInv == NoUpload /\ TranscriptsReserved /\ Distinct /\ ReservedTitleIsKept

(* Nothing of a step matters but the table and the reserved titles. *)
LEMMA KeptByOthers ==
    ASSUME Typed, Placed, KeptInv, NEW j \in Jobs, NEW x,
           UNCHANGED <<table, reserved>>, clean' => clean, pc' = [pc EXCEPT ![j] = x],
           \A i \in UiJobs \ {j} : titles'[i] = titles[i],
           pc[j] # "absent", x = "naming" => Reserved \subseteq titles'[j],
           x = "succeeded" => j \notin UiJobs
    PROVE  KeptInv'
<1>1. UiJobs \subseteq Jobs /\ ApiJobs \subseteq Jobs
  BY DEF Jobs, Transcriptions
<1>2. \A i \in Jobs : pc'[i] = IF i = j THEN x ELSE pc[i]
  BY DEF Typed, TypeOK
<1>3. NoUpload'
  BY <1>1, <1>2 DEF KeptInv, NoUpload
<1>4. TranscriptsReserved'
  BY DEF KeptInv, TranscriptsReserved
<1>5. Distinct'
  <2>1. Reserved' = Reserved
    BY DEF Reserved
  <2>2. QED
    BY <1>1, <1>2, <2>1 DEF KeptInv, Distinct
<1>6. ReservedTitleIsKept'
  BY <1>1, <1>2 DEF KeptInv, ReservedTitleIsKept
<1>7. QED
  BY <1>3, <1>4, <1>5, <1>6 DEF KeptInv

(* A page reserves a title nobody else has,                                  *)
LEMMA KeptByReserve ==
    ASSUME TitlesAssumption, Typed, Placed, KeptInv, NEW j \in Jobs, Reserve(j)
    PROVE  KeptInv'
<1>1. UiJobs \subseteq Jobs /\ ApiJobs \subseteq Jobs
  BY DEF Jobs, Transcriptions
<1>2. /\ pc[j] = "naming" /\ j \in UiJobs /\ reserved[j] = 0
      /\ table' = table
      /\ \A i \in Jobs : pc'[i] = IF i = j THEN "sent" ELSE pc[i]
  BY DEF Reserve, Placed, Typed, TypeOK
<1>3. NoUpload'
  BY <1>1, <1>2 DEF KeptInv, NoUpload
<1>4. TranscriptsReserved'
  <2>1. \A a \in table : a.hint = Transcript => a.job \in Jobs /\ a.n # 0
    BY DEF Typed, TypeOK
  <2>2. \A a \in table : a.hint = Transcript => a.job # j
    BY <1>2, <2>1 DEF KeptInv, TranscriptsReserved
  <2>3. QED
    BY <1>2, <2>1, <2>2, ReservedNumber DEF KeptInv, TranscriptsReserved
<1>5. Distinct'
  <2> SUFFICES ASSUME clean'
               PROVE  /\ \A i, k \in Jobs :
                             i # k /\ reserved'[i] # 0 => reserved'[i] # reserved'[k]
                      /\ \A i \in UiJobs : pc'[i] # "naming"
    BY DEF Distinct
  <2>1. clean /\ Holding(j) = {}
    BY DEF Reserve
  <2>2. \A i \in Jobs : reserved[i] # 0 => Title(Transcript, reserved[i]) \in titles[j]
    BY <1>2, <2>1 DEF KeptInv, Distinct, Reserved
  <2>3. \A i \in Jobs : reserved[i] # 0 => reserved[i] < reserved'[j]
    BY <2>2, ReservedNumber DEF Title
  <2>4. \A i \in Jobs : i # j => reserved'[i] # reserved'[j]
    BY <2>3, ReservedNumber DEF Typed, TypeOK
  <2>5. \A i, k \in Jobs : i # k /\ reserved'[i] # 0 => reserved'[i] # reserved'[k]
    BY <2>1, <2>4, ReservedNumber DEF KeptInv, Distinct
  <2>6. \A i \in UiJobs : pc'[i] # "naming"
    BY <1>1, <1>2, <2>1 DEF Holding, Transcriptions
  <2>7. QED
    BY <2>5, <2>6
<1>6. ReservedTitleIsKept'
  <2>1. \A i \in UiJobs : pc'[i] = "succeeded" => i # j /\ pc[i] = "succeeded"
    BY <1>1, <1>2
  <2>2. clean' => clean
    BY DEF Reserve
  <2>3. QED
    BY <1>1, <1>2, <2>1, <2>2, ReservedNumber DEF KeptInv, ReservedTitleIsKept
<1>7. QED
  BY <1>3, <1>4, <1>5, <1>6 DEF KeptInv

(* a transcription takes its own,                                            *)
LEMMA KeptByTranscript ==
    ASSUME TitlesAssumption, Typed, Placed, KeptInv, NEW j \in Jobs, RegisterTranscript(j)
    PROVE  KeptInv'
<1>1. UiJobs \subseteq Jobs /\ ApiJobs \subseteq Jobs
  BY DEF Jobs, Transcriptions
<1>2. /\ j \in UiJobs /\ reserved[j] # 0 /\ pc[j] = "registering"
      /\ reserved' = reserved /\ clean' = clean
      /\ \A i \in Jobs : pc'[i] = IF i = j THEN "succeeded" ELSE pc[i]
      /\ \A i \in Jobs \ {j} : titles'[i] = titles[i]
  BY DEF RegisterTranscript, Transcriptions, KeptInv, NoUpload, Placed, Typed, TypeOK
<1> DEFINE a == [job |-> j, hint |-> Transcript, n |-> reserved[j]]
<1>3. IF Title(Transcript, reserved[j]) \in Registered
      THEN table' = table ELSE table' = table \cup {a}
  BY <1>2, TranscriptIs DEF TranscriptTitle, Title
<1>4. a.job = j /\ a.hint = Transcript /\ a.n = reserved[j]
  OBVIOUS
<1> HIDE DEF a
<1>5. table \subseteq table' /\ \A b \in table' : b \in table \/ b = a
  BY <1>3
<1>6. NoUpload'
  BY <1>1, <1>2, TitlesAssumption DEF KeptInv, NoUpload, TitlesAssumption
<1>7. TranscriptsReserved'
  BY <1>2, <1>4, <1>5 DEF KeptInv, TranscriptsReserved
<1>8. Distinct'
  BY <1>1, <1>2 DEF KeptInv, Distinct, Reserved
<1>9. ReservedTitleIsKept'
  <2> SUFFICES ASSUME clean', NEW i \in UiJobs, pc'[i] = "succeeded"
               PROVE  \E b \in table' : b.job = i /\ b.n = reserved'[i]
    BY DEF ReservedTitleIsKept
  <2>1. CASE i # j
    BY <1>1, <1>2, <1>5, <2>1 DEF KeptInv, ReservedTitleIsKept
  <2>2. CASE i = j /\ Title(Transcript, reserved[j]) \in Registered
    <3>1. PICK b \in table : b.hint = Transcript /\ b.n = reserved[j]
      BY <2>2 DEF Registered, Title
    <3>2. b.job \in UiJobs /\ b.n = reserved[b.job]
      BY <3>1 DEF KeptInv, TranscriptsReserved
    <3>3. b.job = j
      BY <1>1, <1>2, <3>1, <3>2 DEF KeptInv, Distinct
    <3>4. QED
      BY <1>2, <1>5, <2>2, <3>1, <3>3
  <2>3. CASE i = j /\ Title(Transcript, reserved[j]) \notin Registered
    BY <1>2, <1>3, <1>4, <2>3
  <2>4. QED
    BY <2>1, <2>2, <2>3
<1>10. QED
  BY <1>6, <1>7, <1>8, <1>9 DEF KeptInv

(* and a compose none of them.                                               *)
LEMMA KeptByDeliverable ==
    ASSUME TitlesAssumption, Typed, Placed, KeptInv,
           NEW j \in Jobs, NEW h \in Hints, RegisterDeliverable(j, h)
    PROVE  KeptInv'
<1>1. UiJobs \subseteq Jobs /\ ApiJobs \subseteq Jobs
  BY DEF Jobs, Transcriptions
<1>2. /\ j \notin Transcriptions /\ h # Transcript /\ pc[j] = "registering"
      /\ reserved' = reserved /\ (clean' => clean)
      /\ \A i \in Jobs \ {j} : pc'[i] = pc[i] /\ titles'[i] = titles[i]
      /\ pc'[j] \in {"registering", "aborted"}
  BY DEF RegisterDeliverable, TitlesAssumption, Typed, TypeOK
<1>3. j \notin UiJobs /\ j \notin ApiJobs
  BY <1>2 DEF Transcriptions
<1>4. table \subseteq table' /\ \A b \in table' : b \in table \/ b.hint = h
  BY DeliverableIs
<1>5. NoUpload'
  BY <1>1, <1>2, <1>3 DEF KeptInv, NoUpload
<1>6. TranscriptsReserved'
  BY <1>2, <1>4 DEF KeptInv, TranscriptsReserved
<1>7. Distinct'
  BY <1>1, <1>2, <1>3 DEF KeptInv, Distinct, Reserved
<1>8. ReservedTitleIsKept'
  BY <1>1, <1>2, <1>3, <1>4 DEF KeptInv, ReservedTitleIsKept
<1>9. QED
  BY <1>5, <1>6, <1>7, <1>8 DEF KeptInv

(* So every step keeps the reservations.                                     *)
LEMMA KeptStep ==
    ASSUME TitlesAssumption, Typed, Placed, KeptInv, [Next]_vars
    PROVE  KeptInv'
<1>1. CASE UNCHANGED vars
  BY <1>1 DEF vars, KeptInv, NoUpload, TranscriptsReserved, Distinct, Reserved,
              ReservedTitleIsKept
<1>2. ASSUME NEW j \in Jobs, ReadForName(j)
      PROVE  KeptInv'
  <2>1. /\ \A i \in UiJobs \ {j} : titles'[i] = titles[i]
        /\ Reserved \subseteq titles'[j]
    BY <1>2 DEF ReadForName, Typed, TypeOK, Jobs, Transcriptions
  <2>2. QED
    BY <1>2, <2>1, KeptByOthers DEF ReadForName
<1>3. ASSUME NEW j \in Jobs, ReadTitles(j)
      PROVE  KeptInv'
  <2>1. \A i \in UiJobs \ {j} : titles'[i] = titles[i]
    BY <1>3 DEF ReadTitles, Typed, TypeOK, Jobs, Transcriptions
  <2>2. QED
    BY <1>3, <2>1, KeptByOthers DEF ReadTitles
<1>4. ASSUME NEW j \in Jobs, ComposeSucceeds(j)
      PROVE  KeptInv'
  <2>1. /\ \A i \in UiJobs \ {j} : titles'[i] = titles[i]
        /\ j \notin UiJobs
    BY <1>4 DEF ComposeSucceeds, Typed, TypeOK, Jobs, Transcriptions, TitlesAssumption
  <2>2. QED
    BY <1>4, <2>1, KeptByOthers DEF ComposeSucceeds
<1>5. ASSUME NEW j \in Jobs, Crash(j)
      PROVE  KeptInv'
  <2>1. \A i \in UiJobs \ {j} : titles'[i] = titles[i]
    BY <1>5 DEF Crash, Typed, TypeOK, Jobs, Transcriptions
  <2>2. QED
    BY <1>5, <2>1, KeptByOthers DEF Crash
<1>6. ASSUME NEW j \in Jobs, Resume(j)
      PROVE  KeptInv'
  BY <1>6, KeptByOthers DEF Resume
<1>7. QED
  BY <1>1, <1>2, <1>3, <1>4, <1>5, <1>6, KeptByReserve, KeptByTranscript,
     KeptByDeliverable DEF Next

(* Without transcriptions of the page there is nothing to keep. *)
NoPage == \A j \in UiJobs : pc[j] = "absent"

(* Without pages nothing is ever reserved.                                   *)
LEMMA NoPageStep ==
    ASSUME TitlesAssumption, Typed, NoPage, [Next]_vars
    PROVE  NoPage'
<1>1. UiJobs \subseteq Jobs
  BY DEF Jobs, Transcriptions
<1>2. QED
  BY <1>1 DEF Next, vars, NoPage, ReadForName, Reserve, ReadTitles, RegisterTranscript,
              RegisterDeliverable, ComposeSucceeds, Crash, Resume, Typed, TypeOK

(* A page's title is kept, for any number of jobs and executions, in cases   *)
(* that do not mix transcriptions of the page with uploads through the API.  *)
THEOREM ReservationsCorrect ==
    ASSUME \A c \in Cases : c \cap ApiJobs = {} \/ c \cap UiJobs = {}
    PROVE  Spec => []ReservedTitleIsKept
<1>1. Init => KeptInv \/ NoPage
  <2> SUFFICES ASSUME Init PROVE KeptInv \/ NoPage
    OBVIOUS
  <2>1. NoUpload \/ NoPage
    BY TitlesAssumption DEF Init, NoUpload, NoPage, Jobs, Transcriptions, TitlesAssumption
  <2>2. TranscriptsReserved /\ Distinct /\ ReservedTitleIsKept
    BY DEF Init, TranscriptsReserved, Distinct, ReservedTitleIsKept, Jobs, Transcriptions
  <2>3. QED
    BY <2>1, <2>2 DEF KeptInv
<1>2. Typed /\ Placed /\ (KeptInv \/ NoPage) /\ [Next]_vars => (KeptInv \/ NoPage)'
  BY KeptStep, NoPageStep, TitlesAssumption
<1>3. KeptInv \/ NoPage => ReservedTitleIsKept
  BY DEF KeptInv, NoPage, ReservedTitleIsKept
<1>4. QED
  BY <1>1, <1>2, <1>3, PlacedCorrect, PTL DEF Spec
=============================================================================
