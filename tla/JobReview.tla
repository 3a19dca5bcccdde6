----------------------------- MODULE JobReview -----------------------------
(* The review of a succeeded transcription: the approve and reject requests  *)
(* of its reviewers, the TRANSCRIPT_APPROVED artifact that records an        *)
(* approval, and the Guardian tasks that review each such artifact.  Every   *)
(* step is one read or one write; requests hold no lock between theirs.      *)
EXTENDS Naturals, FiniteSets

CONSTANTS
    Users,         \* reviewers of the case
    Nobody,
    NoVerdict,
    Verdicts,      \* the statuses of a Guardian review
    MaxArtifacts,  \* approval artifacts ever created (bound)
    Faults         \* TRUE if requests may fail between two of their writes

ASSUME ReviewAssumption ==
    /\ Nobody \notin Users
    /\ NoVerdict \notin Verdicts
    /\ MaxArtifacts \in Nat \ {0}
    /\ Faults \in BOOLEAN

VARIABLES
    decision,  \* Job.review_status
    reviewer,  \* Job.reviewed_by
    pk,        \* primary key of the approval artifact, 0 if there is none
    meta,      \* its metadata: who approved, and the Guardian's verdict
    created,   \* artifacts created so far
    request,   \* where each user's request is
    task,      \* where the Guardian task of each artifact is
    copy,      \* the metadata each Guardian task read
    clean      \* history: no request overlapped another, none failed, and no
               \* approval rewrote metadata a Guardian task was holding

vars == <<decision, reviewer, pk, meta, created, request, task, copy, clean>>

Artifacts  == 1..MaxArtifacts
Metadata   == [by : Users \cup {Nobody}, verdict : Verdicts \cup {NoVerdict}]
Meta(u, v) == [by |-> u, verdict |-> v]
NoMeta     == Meta(Nobody, NoVerdict)

Quiet == \A u \in Users : request[u] = "idle"

(* Whether a Guardian task holds a copy of the current artifact's metadata. *)
UnderReview == pk # 0 /\ task[pk] = "read"

Init ==
    /\ decision = "NONE" /\ reviewer = Nobody
    /\ pk = 0 /\ meta = NoMeta /\ created = 0
    /\ request = [u \in Users |-> "idle"]
    /\ task = [a \in Artifacts |-> "none"]
    /\ copy = [a \in Artifacts |-> NoMeta]
    /\ clean = TRUE

(* Both requests check the job and save the review columns of its row. *)
SaveDecision(u, d) ==
    /\ request[u] = "idle"
    /\ decision' = d /\ reviewer' = u
    /\ request' = [request EXCEPT ![u] = d]
    /\ clean' = (clean /\ Quiet)
    /\ UNCHANGED <<pk, meta, created, task, copy>>

Approve(u) == SaveDecision(u, "APPROVED")

(* Variant for mutation runs: the verdict's spelling is saved. *)
RejectLowerCase(u) == SaveDecision(u, "rejected")

Reject(u) == SaveDecision(u, "REJECTED")

(* update_or_create(): an existing artifact gets new metadata (the old is    *)
(* replaced, not merged); creating one enqueues its Guardian review, and a   *)
(* failure to enqueue is swallowed.                                          *)
EnsureArtifact(u) ==
    /\ request[u] = "APPROVED"
    /\ request' = [request EXCEPT ![u] = "idle"]
    /\ meta' = Meta(u, NoVerdict)
    /\ IF pk # 0
       THEN /\ clean' = (clean /\ ~UnderReview)
            /\ UNCHANGED <<pk, created, task>>
       ELSE /\ created < MaxArtifacts
            /\ created' = created + 1
            /\ pk' = created + 1
            /\ \/ task' = [task EXCEPT ![created + 1] = "queued"]
               \/ Faults /\ UNCHANGED task
            /\ UNCHANGED clean
    /\ UNCHANGED <<decision, reviewer, copy>>

(* Variant for mutation runs: only the reviewer's own artifact is deleted. *)
DeleteOwnArtifact(u) ==
    /\ request[u] = "REJECTED"
    /\ request' = [request EXCEPT ![u] = "idle"]
    /\ IF meta.by = u THEN pk' = 0 /\ meta' = NoMeta ELSE UNCHANGED <<pk, meta>>
    /\ UNCHANGED <<decision, reviewer, created, task, copy, clean>>

(* Every approval artifact of the job is deleted. *)
DeleteArtifact(u) ==
    /\ request[u] = "REJECTED"
    /\ request' = [request EXCEPT ![u] = "idle"]
    /\ pk' = 0 /\ meta' = NoMeta
    /\ UNCHANGED <<decision, reviewer, created, task, copy, clean>>

(* The artifact cannot be written (approve swallows it), or the process dies. *)
RequestFails(u) ==
    /\ Faults
    /\ request[u] # "idle"
    /\ request' = [request EXCEPT ![u] = "idle"]
    /\ clean' = FALSE
    /\ UNCHANGED <<decision, reviewer, pk, meta, created, task, copy>>

(* guardian_review_artifact(): the artifact is read by its primary key ...   *)
GuardianRead(a) ==
    /\ task[a] = "queued"
    /\ task' = [task EXCEPT ![a] = IF pk = a THEN "read" ELSE "done"]
    /\ copy' = IF pk = a THEN [copy EXCEPT ![a] = meta] ELSE copy
    /\ UNCHANGED <<decision, reviewer, pk, meta, created, request, clean>>

(* Variant for mutation runs: the artifact is looked up by its job. *)
GuardianStoreByJob(a) ==
    /\ task[a] = "read"
    /\ task' = [task EXCEPT ![a] = "done"]
    /\ copy' = [copy EXCEPT ![a] = NoMeta]
    /\ IF pk # 0
       THEN \E v \in Verdicts : meta' = Meta(copy[a].by, v)
       ELSE UNCHANGED meta
    /\ UNCHANGED <<decision, reviewer, pk, created, request, clean>>

(* ... and, a model call later, the metadata read then is written back with  *)
(* the verdict, by primary key: a deleted artifact is not written.           *)
GuardianStore(a) ==
    /\ task[a] = "read"
    /\ task' = [task EXCEPT ![a] = "done"]
    /\ copy' = [copy EXCEPT ![a] = NoMeta]
    /\ IF pk = a
       THEN \E v \in Verdicts : meta' = Meta(copy[a].by, v)
       ELSE UNCHANGED meta
    /\ UNCHANGED <<decision, reviewer, pk, created, request, clean>>

(* The worker of a Guardian task dies: the review is never done again. *)
GuardianCrash(a) ==
    /\ Faults
    /\ task[a] \in {"queued", "read"}
    /\ task' = [task EXCEPT ![a] = "done"]
    /\ copy' = [copy EXCEPT ![a] = NoMeta]
    /\ UNCHANGED <<decision, reviewer, pk, meta, created, request, clean>>

Next ==
    \/ \E u \in Users : \/ Approve(u) \/ Reject(u) \/ EnsureArtifact(u)
                        \/ DeleteArtifact(u) \/ RequestFails(u)
    \/ \E a \in Artifacts : GuardianRead(a) \/ GuardianStore(a) \/ GuardianCrash(a)

Spec == Init /\ [][Next]_vars

(***************************************************************************)
(* Properties                                                              *)
(***************************************************************************)
(* Every variable has its type. *)
TypeOK ==
    /\ decision \in {"NONE", "APPROVED", "REJECTED"}
    /\ reviewer \in Users \cup {Nobody}
    /\ pk \in Artifacts \cup {0}
    /\ meta \in Metadata
    /\ created \in Artifacts \cup {0}
    /\ request \in [Users -> {"idle", "APPROVED", "REJECTED"}]
    /\ task \in [Artifacts -> {"none", "queued", "read", "done"}]
    /\ copy \in [Artifacts -> Metadata]
    /\ clean \in BOOLEAN

(* Reviews that follow one another keep the row and the artifact in step: as *)
(* long as no two requests overlapped and none failed, between requests the  *)
(* artifact exists exactly when the job is approved, and names the reviewer  *)
(* of the row, whatever the Guardian tasks of earlier approvals still do.    *)
DecisionInStep ==
    clean /\ Quiet =>
        /\ pk # 0 <=> decision = "APPROVED"
        /\ pk # 0 => meta.by = reviewer

(* A verdict stands only on the artifact the Guardian read: an approval made *)
(* after a rejection never inherits the verdict of the deleted artifact,     *)
(* although the task that reviewed it may finish later, and a task that      *)
(* outlives its artifact does not bring it back.                             *)
VerdictIsOwn ==
    /\ meta.verdict # NoVerdict => pk # 0 /\ task[pk] = "done"
    /\ pk = 0 => meta = NoMeta

(* A rejected job keeps no approval artifact once the requests are over, as  *)
(* test_reviewer_can_reject_and_removes_artifact asserts.  Refuted by the    *)
(* run JobReviewRace, in which an approval and a rejection overlap.          *)
RejectedHasNoArtifact == Quiet /\ decision = "REJECTED" => pk = 0
=============================================================================
