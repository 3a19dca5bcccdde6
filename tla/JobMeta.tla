------------------------------ MODULE JobMeta ------------------------------
(* The metadata file of a job and the columns of the job row copied from it. *)
(* update_job_meta() reads the whole file, merges its updates, truncates and *)
(* rewrites the file and copies some keys to the row.  Workers, requests,    *)
(* guardian reviews and recovery all call it, and nothing orders the calls.  *)
EXTENDS Naturals, FiniteSets

CONSTANTS
    Writers,  \* callers of update_job_meta that may be active together
    Keys,     \* keys of the metadata
    RowKeys,  \* keys JobRecordPatch copies to the row (job_kind, agent_type, ...)
    Values,   \* texts a key may have
    Null,     \* JSON null
    Missing,  \* the key is not in the object
    Faults    \* TRUE if writers may die and files and saves may fail

ASSUME MetaAssumption ==
    /\ RowKeys \subseteq Keys
    /\ Null \notin Values
    /\ Missing \notin Values
    /\ Null # Missing
    /\ Faults \in BOOLEAN

VARIABLES
    text,    \* what the file holds: "whole" JSON, "empty" or "garbled" text
    doc,     \* the JSON object of a whole file
    row,     \* the copied columns of the job row
    pc,      \* where each writer is
    merged,  \* the object each writer has computed
    clean,   \* history: so far no two updates overlapped and none failed
    asked    \* history: the updates asked for, merged in the order they began

vars == <<text, doc, row, pc, merged, clean, asked>>

Objects == [Keys -> Values \cup {Null, Missing}]
Nothing == [k \in Keys |-> Missing]

(* Updates name some of the keys: Missing stands for the others. *)
Updates == Objects \ {Nothing}

Idle == \A w \in Writers : pc[w] = "idle"

(* read_json_object(): an unreadable file is an empty object. *)
Read == IF text = "whole" THEN doc ELSE Nothing

(* merge_job_meta(): a key is written when its value differs from what       *)
(* get() returns, and get() returns None for a missing key.                  *)
Merge(base, updates) ==
    [k \in Keys |-> IF updates[k] = Missing \/ (updates[k] = Null /\ base[k] = Missing)
                    THEN base[k] ELSE updates[k]]

(* Variants for mutation runs: nulls, or missing keys, reach the row. *)
PatchNulls(columns, object) ==
    [k \in RowKeys |-> IF object[k] # Missing THEN object[k] ELSE columns[k]]

PatchMissing(columns, object) ==
    [k \in RowKeys |-> IF object[k] # Null THEN object[k] ELSE columns[k]]

(* JobRecordPatch.as_model_kwargs(): only keys with a text reach the row. *)
Patch(columns, object) ==
    [k \in RowKeys |-> IF object[k] \in Values THEN object[k] ELSE columns[k]]

Init ==
    /\ text = "empty" /\ doc = Nothing
    /\ row = [k \in RowKeys |-> Missing]
    /\ pc = [w \in Writers |-> "idle"]
    /\ merged = [w \in Writers |-> Nothing]
    /\ clean = TRUE /\ asked = Nothing

(* Variant for mutation runs: the updates replace the object. *)
BeginReplaces(w, updates) ==
    /\ pc[w] = "idle"
    /\ merged' = [merged EXCEPT ![w] = updates]
    /\ pc' = [pc EXCEPT ![w] = "merged"]
    /\ clean' = (clean /\ Idle)
    /\ asked' = Merge(asked, updates)
    /\ UNCHANGED <<text, doc, row>>

(* The file is read and the updates are merged; without a change it is not   *)
(* written, but the row is still updated.                                    *)
Begin(w, updates) ==
    /\ pc[w] = "idle"
    /\ merged' = [merged EXCEPT ![w] = Merge(Read, updates)]
    /\ pc' = [pc EXCEPT ![w] = IF Merge(Read, updates) = Read THEN "row" ELSE "merged"]
    /\ clean' = (clean /\ Idle)
    /\ asked' = Merge(asked, updates)
    /\ UNCHANGED <<text, doc, row>>

(* write_text() opens the file, which empties it ... *)
Truncate(w) ==
    /\ pc[w] = "merged"
    /\ pc' = [pc EXCEPT ![w] = "truncated"]
    /\ text' = "empty" /\ doc' = Nothing
    /\ UNCHANGED <<row, merged, clean, asked>>

(* ... and writes from its start.  What another writer put there meanwhile   *)
(* is covered, except for its tail if that text was longer.                  *)
Write(w) ==
    /\ pc[w] = "truncated"
    /\ pc' = [pc EXCEPT ![w] = "row"]
    /\ \/ text' = "whole" /\ doc' = merged[w]
       \/ text # "empty" /\ text' = "garbled" /\ doc' = Nothing
    /\ UNCHANGED <<row, merged, clean, asked>>

(* The file cannot be opened or written; the exception is swallowed. *)
WriteFails(w) ==
    /\ Faults
    /\ pc[w] \in {"merged", "truncated"}
    /\ pc' = [pc EXCEPT ![w] = "row"]
    /\ clean' = FALSE
    /\ UNCHANGED <<text, doc, row, merged, asked>>

(* The row gets what this writer merged; a failure is swallowed. *)
UpdateRow(w) ==
    /\ pc[w] = "row"
    /\ pc' = [pc EXCEPT ![w] = "idle"]
    /\ merged' = [merged EXCEPT ![w] = Nothing]
    /\ \/ row' = Patch(row, merged[w]) /\ UNCHANGED clean
       \/ Faults /\ clean' = FALSE /\ UNCHANGED row
    /\ UNCHANGED <<text, doc, asked>>

(* The process of the writer dies. *)
Crash(w) ==
    /\ Faults
    /\ pc[w] # "idle"
    /\ pc' = [pc EXCEPT ![w] = "idle"]
    /\ merged' = [merged EXCEPT ![w] = Nothing]
    /\ clean' = FALSE
    /\ UNCHANGED <<text, doc, row, asked>>

Next == \E w \in Writers :
    \/ \E updates \in Updates : Begin(w, updates)
    \/ Truncate(w) \/ Write(w) \/ WriteFails(w) \/ UpdateRow(w) \/ Crash(w)

Spec == Init /\ [][Next]_vars

(***************************************************************************)
(* Properties                                                              *)
(***************************************************************************)
(* Every variable has its type. *)
TypeOK ==
    /\ text \in {"whole", "empty", "garbled"}
    /\ doc \in Objects
    /\ row \in [RowKeys -> Values \cup {Missing}]
    /\ pc \in [Writers -> {"idle", "merged", "truncated", "row"}]
    /\ merged \in [Writers -> Objects]
    /\ clean \in BOOLEAN
    /\ asked \in Objects

(* Updates that follow one another lose nothing: as long as none overlapped  *)
(* another and none failed, between two of them the file holds every key     *)
(* that was ever asked for, at its latest value, and each copied column of   *)
(* the row is the file's value unless that was nulled.                       *)
NothingLost ==
    clean /\ Idle =>
        /\ Read = asked
        /\ \A k \in RowKeys : asked[k] \in Values => row[k] = asked[k]

(* Recovery chooses how to resume a job by the kind in its row.  However the *)
(* file is truncated, torn or overwritten, a column once set is never        *)
(* cleared: the next update merges into what it could read and skips the     *)
(* keys it did not find.                                                     *)
RowNeverForgets ==
    [][\A k \in RowKeys : row[k] # Missing => row'[k] # Missing]_vars
=============================================================================
