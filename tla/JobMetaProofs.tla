---------------------------- MODULE JobMetaProofs ----------------------------
(* Proofs about JobMeta, for any number of writers, any keys and any values, *)
(* with or without failures: no assumption but MetaAssumption.               *)
EXTENDS JobMeta, TLAPS

(* Merging updates into an object, and nothing at all, are objects. *)
LEMMA MergeType ==
    ASSUME NEW base \in Objects, NEW updates \in Objects
    PROVE  Merge(base, updates) \in Objects
BY DEF Merge, Objects

(* An empty file is read as an object,                                       *)
LEMMA NothingType == Nothing \in Objects
BY DEF Nothing, Objects

(* and so is every other.                                                    *)
LEMMA ReadType == ASSUME doc \in Objects PROVE Read \in Objects
BY NothingType DEF Read

(* A copied column is a text or was never set. *)
LEMMA PatchType ==
    ASSUME NEW columns \in [RowKeys -> Values \cup {Missing}], NEW object \in Objects
    PROVE  Patch(columns, object) \in [RowKeys -> Values \cup {Missing}]
BY DEF Patch, Objects

(* Every step keeps the types.                                               *)
LEMMA TypeStep == ASSUME MetaAssumption, TypeOK, [Next]_vars PROVE TypeOK'
<1> USE DEF TypeOK
<1>1. ASSUME NEW w \in Writers, NEW updates \in Updates, Begin(w, updates)
      PROVE  TypeOK'
  <2>1. updates \in Objects
    BY DEF Updates
  <2>2. Merge(Read, updates) \in Objects /\ Merge(asked, updates) \in Objects
    BY <2>1, MergeType, ReadType
  <2>3. QED
    BY <1>1, <2>2 DEF Begin, Idle
<1>2. ASSUME NEW w \in Writers, Truncate(w) PROVE TypeOK'
  BY <1>2, NothingType DEF Truncate
<1>3. ASSUME NEW w \in Writers, Write(w) PROVE TypeOK'
  BY <1>3, NothingType DEF Write
<1>4. ASSUME NEW w \in Writers, WriteFails(w) PROVE TypeOK'
  BY <1>4 DEF WriteFails
<1>5. ASSUME NEW w \in Writers, UpdateRow(w) PROVE TypeOK'
  <2>1. Patch(row, merged[w]) \in [RowKeys -> Values \cup {Missing}]
    BY PatchType
  <2>2. QED
    BY <1>5, <2>1, NothingType DEF UpdateRow
<1>6. ASSUME NEW w \in Writers, Crash(w) PROVE TypeOK'
  BY <1>6, NothingType DEF Crash
<1>7. CASE UNCHANGED vars
  BY <1>7 DEF vars
<1>8. QED
  BY <1>1, <1>2, <1>3, <1>4, <1>5, <1>6, <1>7 DEF Next

(* Every variable has its type. *)
THEOREM TypeCorrect == Spec => []TypeOK
<1>1. Init => TypeOK
  BY NothingType DEF Init, TypeOK
<1>2. TypeOK /\ [Next]_vars => TypeOK'
  BY TypeStep, MetaAssumption
<1>3. QED
  BY <1>1, <1>2, PTL DEF Spec

(* A copied column once set is never cleared, whatever became of the file.   *)
THEOREM RowNeverForgetsCorrect == Spec => RowNeverForgets
<1> DEFINE Kept == \A k \in RowKeys : row[k] # Missing => row'[k] # Missing
<1>1. ASSUME [Next]_vars PROVE [Kept]_vars
  <2>1. CASE UNCHANGED row
    BY <2>1
  <2>2. ASSUME NEW w \in Writers, row' = Patch(row, merged[w]) PROVE Kept
    BY <2>2, MetaAssumption DEF Patch, MetaAssumption
  <2>3. UNCHANGED row \/ \E w \in Writers : row' = Patch(row, merged[w])
    BY <1>1 DEF Next, Begin, Truncate, Write, WriteFails, UpdateRow, Crash, vars
  <2>4. QED
    BY <2>1, <2>2, <2>3
<1>2. QED
  BY <1>1, PTL DEF Spec, RowNeverForgets

(***************************************************************************)
(* Updates that follow one another                                         *)
(***************************************************************************)
(* While no update has overlapped another or failed: at most one is active, *)
OneWriter ==
    clean => \A v, w \in Writers : pc[v] # "idle" /\ pc[w] # "idle" => v = w

(* it will write everything that was ever asked for, *)
WritesAll ==
    clean => \A w \in Writers : pc[w] # "idle" => merged[w] = asked

(* to a file that is empty once truncated and complete once written, *)
FileFollows ==
    clean => \A w \in Writers :
        /\ pc[w] = "truncated" => text = "empty"
        /\ pc[w] = "row" => Read = asked

(* and between updates nothing is missing. *)
UpdateInv == NothingLost /\ OneWriter /\ WritesAll /\ FileFollows

(* Every step keeps UpdateInv.                                               *)
LEMMA UpdateStep ==
    ASSUME MetaAssumption, TypeOK, UpdateInv, [Next]_vars
    PROVE  UpdateInv'
<1> USE DEF TypeOK, UpdateInv, NothingLost, OneWriter, WritesAll, FileFollows, Idle
<1>1. ASSUME NEW w \in Writers, NEW updates \in Updates, Begin(w, updates)
      PROVE  UpdateInv'
  <2>1. CASE clean /\ Idle
    <3>1. Read = asked /\ Read' = Read
      BY <1>1, <2>1 DEF Begin, Read
    <3>2. /\ pc'[w] = IF Merge(asked, updates) = asked THEN "row" ELSE "merged"
          /\ \A v \in Writers \ {w} : pc'[v] = "idle"
          /\ merged'[w] = asked' /\ asked' = Merge(asked, updates)
      BY <1>1, <2>1, <3>1 DEF Begin
    <3>3. QED
      BY <3>1, <3>2
  <2>2. CASE ~(clean /\ Idle)
    BY <1>1, <2>2 DEF Begin
  <2>3. QED
    BY <2>1, <2>2
<1>2. ASSUME NEW w \in Writers, Truncate(w) PROVE UpdateInv'
  <2>1. /\ pc[w] = "merged" /\ pc'[w] = "truncated" /\ text' = "empty"
        /\ \A v \in Writers \ {w} : pc'[v] = pc[v]
        /\ UNCHANGED <<row, merged, clean, asked>>
    BY <1>2 DEF Truncate
  <2>2. QED
    BY <2>1
<1>3. ASSUME NEW w \in Writers, Write(w) PROVE UpdateInv'
  <2>1. /\ pc[w] = "truncated" /\ pc'[w] = "row"
        /\ \A v \in Writers \ {w} : pc'[v] = pc[v]
        /\ UNCHANGED <<row, merged, clean, asked>>
    BY <1>3 DEF Write
  <2>2. clean => text' = "whole" /\ doc' = merged[w]
    BY <1>3, <2>1 DEF Write
  <2>3. clean => Read' = asked
    BY <2>1, <2>2 DEF Read
  <2>4. QED
    BY <2>1, <2>3
<1>4. ASSUME NEW w \in Writers, WriteFails(w) \/ Crash(w) PROVE UpdateInv'
  BY <1>4 DEF WriteFails, Crash
<1>5. ASSUME NEW w \in Writers, UpdateRow(w) PROVE UpdateInv'
  <2>1. /\ pc[w] = "row" /\ pc'[w] = "idle" /\ Read' = Read
        /\ \A v \in Writers \ {w} : pc'[v] = pc[v] /\ merged'[v] = merged[v]
        /\ UNCHANGED <<text, asked>>
    BY <1>5 DEF UpdateRow, Read
  <2>2. CASE ~clean'
    BY <2>2
  <2>3. CASE clean'
    <3>1. clean /\ row' = Patch(row, merged[w])
      BY <1>5, <2>3 DEF UpdateRow
    <3>2. \A k \in RowKeys : asked[k] \in Values => row'[k] = asked[k]
      BY <2>1, <3>1 DEF Patch
    <3>3. QED
      BY <2>1, <3>1, <3>2
  <2>4. QED
    BY <2>2, <2>3
<1>6. CASE UNCHANGED vars
  BY <1>6 DEF vars, Read
<1>7. QED
  BY <1>1, <1>2, <1>3, <1>4, <1>5, <1>6 DEF Next

(* Updates that follow one another lose nothing.                             *)
THEOREM UpdatesCorrect == Spec => []NothingLost
<1>1. Init => UpdateInv
  BY MetaAssumption DEF Init, UpdateInv, NothingLost, OneWriter, WritesAll,
     FileFollows, Idle, Read, Nothing, MetaAssumption
<1>2. TypeOK /\ UpdateInv /\ [Next]_vars => UpdateInv'
  BY UpdateStep, MetaAssumption
<1>3. UpdateInv => NothingLost
  BY DEF UpdateInv
<1>4. QED
  BY <1>1, <1>2, <1>3, TypeCorrect, PTL DEF Spec
=============================================================================
