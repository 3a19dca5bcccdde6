--------------------------- MODULE JobReviewProofs ---------------------------
(* Proofs about JobReview, for any number of reviewers and of approvals,     *)
(* with or without failures: no assumption but ReviewAssumption.             *)
EXTENDS JobReview, TLAPS

USE DEF Artifacts, Metadata, Meta, NoMeta

(* Init and every step keep the types. *)
LEMMA TypeInit == ASSUME ReviewAssumption, Init PROVE TypeOK
BY DEF Init, TypeOK, ReviewAssumption

(* Every step keeps the types.                                               *)
LEMMA TypeStep == ASSUME ReviewAssumption, TypeOK, [Next]_vars PROVE TypeOK'
<1> USE DEF TypeOK
<1>1. ASSUME NEW u \in Users, Approve(u) PROVE TypeOK'
  BY <1>1 DEF Approve, SaveDecision, Quiet
<1>2. ASSUME NEW u \in Users, Reject(u) PROVE TypeOK'
  BY <1>2 DEF Reject, SaveDecision, Quiet
<1>3. ASSUME NEW u \in Users, EnsureArtifact(u) PROVE TypeOK'
  <2>1. meta' \in Metadata
    BY <1>3, ReviewAssumption DEF EnsureArtifact, ReviewAssumption
  <2>2. pk' \in Artifacts \cup {0} /\ created' \in Artifacts \cup {0}
    BY <1>3 DEF EnsureArtifact, ReviewAssumption
  <2>3. task' \in [Artifacts -> {"none", "queued", "read", "done"}]
    BY <1>3 DEF EnsureArtifact, ReviewAssumption
  <2>4. clean' \in BOOLEAN
    BY <1>3 DEF EnsureArtifact, UnderReview
  <2>5. QED
    BY <1>3, <2>1, <2>2, <2>3, <2>4 DEF EnsureArtifact
<1>4. ASSUME NEW u \in Users, DeleteArtifact(u) PROVE TypeOK'
  BY <1>4 DEF DeleteArtifact, ReviewAssumption
<1>5. ASSUME NEW u \in Users, RequestFails(u) PROVE TypeOK'
  BY <1>5 DEF RequestFails
<1>6. ASSUME NEW a \in Artifacts, GuardianRead(a) PROVE TypeOK'
  BY <1>6 DEF GuardianRead
<1>7. ASSUME NEW a \in Artifacts, GuardianStore(a) PROVE TypeOK'
  <2>1. copy' \in [Artifacts -> Metadata]
    BY <1>7 DEF GuardianStore, ReviewAssumption
  <2>2. meta' \in Metadata
    BY <1>7 DEF GuardianStore
  <2>3. QED
    BY <1>7, <2>1, <2>2 DEF GuardianStore
<1>8. ASSUME NEW a \in Artifacts, GuardianCrash(a) PROVE TypeOK'
  BY <1>8 DEF GuardianCrash, ReviewAssumption
<1>9. CASE UNCHANGED vars
  BY <1>9 DEF vars
<1>10. QED
  BY <1>1, <1>2, <1>3, <1>4, <1>5, <1>6, <1>7, <1>8, <1>9 DEF Next

(* Every variable has its type. *)
THEOREM TypeCorrect == Spec => []TypeOK
<1>1. Init => TypeOK
  BY TypeInit, ReviewAssumption
<1>2. TypeOK /\ [Next]_vars => TypeOK'
  BY TypeStep, ReviewAssumption
<1>3. QED
  BY <1>1, <1>2, PTL DEF Spec

(***************************************************************************)
(* Verdicts                                                                *)
(***************************************************************************)
LEMMA VerdictStep ==
    ASSUME ReviewAssumption, TypeOK, VerdictIsOwn, [Next]_vars
    PROVE  VerdictIsOwn'
<1> USE DEF VerdictIsOwn, TypeOK
<1>1. ASSUME NEW u \in Users, Approve(u) \/ Reject(u) \/ RequestFails(u)
      PROVE  VerdictIsOwn'
  BY <1>1 DEF Approve, Reject, SaveDecision, RequestFails
<1>2. ASSUME NEW u \in Users, EnsureArtifact(u) PROVE VerdictIsOwn'
  BY <1>2 DEF EnsureArtifact
<1>3. ASSUME NEW u \in Users, DeleteArtifact(u) PROVE VerdictIsOwn'
  BY <1>3 DEF DeleteArtifact
<1>4. ASSUME NEW a \in Artifacts, GuardianRead(a) PROVE VerdictIsOwn'
  BY <1>4 DEF GuardianRead
<1>5. ASSUME NEW a \in Artifacts, GuardianStore(a) PROVE VerdictIsOwn'
  BY <1>5 DEF GuardianStore
<1>6. ASSUME NEW a \in Artifacts, GuardianCrash(a) PROVE VerdictIsOwn'
  BY <1>6 DEF GuardianCrash
<1>7. CASE UNCHANGED vars
  BY <1>7 DEF vars
<1>8. QED
  BY <1>1, <1>2, <1>3, <1>4, <1>5, <1>6, <1>7 DEF Next

(* A verdict belongs to the artifact its Guardian task read, whatever order  *)
(* approvals, rejections, late reviews and failures come in.                 *)
THEOREM VerdictsCorrect == Spec => []VerdictIsOwn
<1>1. Init => VerdictIsOwn
  BY ReviewAssumption DEF Init, VerdictIsOwn
<1>2. TypeOK /\ VerdictIsOwn /\ [Next]_vars => VerdictIsOwn'
  BY VerdictStep, ReviewAssumption
<1>3. QED
  BY <1>1, <1>2, TypeCorrect, PTL DEF Spec

(***************************************************************************)
(* Decisions                                                               *)
(***************************************************************************)
(* While no request has overlapped another or failed: at most one is active, *)
InFlight ==
    clean => \A u, w \in Users : request[u] # "idle" /\ request[w] # "idle" => u = w

(* the row holds what the active one decided, *)
RowDecided ==
    clean => \A u \in Users : request[u] # "idle" =>
                 decision = request[u] /\ reviewer = u

(* a Guardian task on the current artifact holds its present approver, *)
CopyIsCurrent ==
    clean /\ UnderReview => copy[pk].by = meta.by

(* and artifacts yet to be created have no task. *)
FutureIsUntouched ==
    /\ pk <= created
    /\ \A a \in Artifacts : a > created => task[a] = "none"

DecisionInv ==
    DecisionInStep /\ InFlight /\ RowDecided /\ CopyIsCurrent /\ FutureIsUntouched

(* Every step keeps DecisionInv.                                             *)
LEMMA DecisionStep ==
    ASSUME ReviewAssumption, TypeOK, DecisionInv, [Next]_vars
    PROVE  DecisionInv'
<1> USE DEF TypeOK, DecisionInv, DecisionInStep, InFlight, RowDecided, CopyIsCurrent,
            FutureIsUntouched, Quiet, UnderReview
<1>1. ASSUME NEW u \in Users, NEW d \in {"APPROVED", "REJECTED"}, SaveDecision(u, d)
      PROVE  DecisionInv'
  <2>1. request'[u] = d /\ \A w \in Users \ {u} : request'[w] = request[w]
    BY <1>1 DEF SaveDecision
  <2>2. QED
    BY <1>1, <2>1 DEF SaveDecision
<1>2. ASSUME NEW u \in Users, EnsureArtifact(u) PROVE DecisionInv'
  <2>1. /\ request[u] = "APPROVED" /\ request'[u] = "idle"
        /\ \A w \in Users \ {u} : request'[w] = request[w]
    BY <1>2 DEF EnsureArtifact
  <2>2. FutureIsUntouched'
    BY <1>2 DEF EnsureArtifact, ReviewAssumption
  <2>3. clean' => clean /\ \A w \in Users : request'[w] = "idle"
    BY <1>2, <2>1 DEF EnsureArtifact
  <2>4. meta'.by = u /\ pk' # 0
    BY <1>2 DEF EnsureArtifact
  <2>5. CopyIsCurrent'
    <3>1. CASE pk # 0
      BY <1>2, <3>1 DEF EnsureArtifact
    <3>2. CASE pk = 0
      BY <1>2, <3>2 DEF EnsureArtifact
    <3>3. QED
      BY <3>1, <3>2
  <2>6. DecisionInStep'
    BY <1>2, <2>1, <2>3, <2>4 DEF EnsureArtifact
  <2>7. QED
    BY <2>2, <2>3, <2>5, <2>6
<1>3. ASSUME NEW u \in Users, DeleteArtifact(u) PROVE DecisionInv'
  <2>1. /\ request[u] = "REJECTED" /\ request'[u] = "idle"
        /\ \A w \in Users \ {u} : request'[w] = request[w]
    BY <1>3 DEF DeleteArtifact
  <2>2. QED
    BY <1>3, <2>1 DEF DeleteArtifact
<1>4. ASSUME NEW u \in Users, RequestFails(u) PROVE DecisionInv'
  BY <1>4 DEF RequestFails
<1>5. ASSUME NEW a \in Artifacts, GuardianRead(a) PROVE DecisionInv'
  BY <1>5 DEF GuardianRead
<1>6. ASSUME NEW a \in Artifacts, GuardianStore(a) PROVE DecisionInv'
  BY <1>6 DEF GuardianStore
<1>7. ASSUME NEW a \in Artifacts, GuardianCrash(a) PROVE DecisionInv'
  BY <1>7 DEF GuardianCrash
<1>8. CASE UNCHANGED vars
  BY <1>8 DEF vars
<1>9. QED
  BY <1>1, <1>2, <1>3, <1>4, <1>5, <1>6, <1>7, <1>8 DEF Next, Approve, Reject

(* Reviews that follow one another keep the row and the artifact in step.    *)
THEOREM DecisionsCorrect == Spec => []DecisionInStep
<1>1. Init => DecisionInv
  BY DEF Init, DecisionInv, DecisionInStep, InFlight, RowDecided, CopyIsCurrent,
         FutureIsUntouched, Quiet, UnderReview
<1>2. TypeOK /\ DecisionInv /\ [Next]_vars => DecisionInv'
  BY DecisionStep, ReviewAssumption
<1>3. DecisionInv => DecisionInStep
  BY DEF DecisionInv
<1>4. QED
  BY <1>1, <1>2, <1>3, TypeCorrect, PTL DEF Spec
=============================================================================
