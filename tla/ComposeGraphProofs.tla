------------------------- MODULE ComposeGraphProofs -------------------------
(* Proofs about ComposeGraph, for any number of lanes, of attempts, of       *)
(* supersteps and of crashes.                                                *)
EXTENDS ComposeGraph, Integers, FiniteSetTheorems, WellFoundedInduction, TLAPS

(***************************************************************************)
(* Types                                                                   *)
(***************************************************************************)
LEMMA ImageType == StateOK => Image \in States
BY DEF Image, States, StateOK

(* The state a snapshot takes is a state of the graph.                       *)
LEMMA NextImageType == StateOK' => Image' \in States
BY DEF Image, States, StateOK

(* So is the one a job begins with.                                          *)
LEMMA FreshType == Fresh \in States
BY DEF Fresh, NewLane, States, LaneStates

(* Outcomes have their type.                                                 *)
LEMMA OutcomeType == ASSUME StateOK, NEW l \in Lanes PROVE Outcome(l) \in Outcomes
BY DEF StateOK, Outcome, Outcomes, LaneStates

(* A node that returns leaves the schedule well formed. *)
LEMMA ReturnsType ==
    ASSUME ScheduleOK, NEW n, NEW nodes \in SUBSET Nodes, Returns(n, nodes)
    PROVE  todo' \subseteq Nodes /\ next' \subseteq Nodes
BY DEF ScheduleOK, Returns, Follow

(* A run that returns closes the job and keeps the types.                    *)
LEMMA ReturnsJob ==
    ASSUME JobOK, NEW n, NEW nodes, Returns(n, nodes), saved' \in States \cup {Absent}
    PROVE  JobOK'
BY DEF JobOK, Returns, config, run

(* A snapshot keeps the types.                                               *)
LEMMA SnapshotType ==
    ASSUME NEW s \in States, Snapshot(s) PROVE saved' \in States \cup {Absent}
BY DEF Snapshot

(* An exception keeps the types.                                             *)
LEMMA RaisesType ==
    ASSUME TypeOK, NEW n, NEW why \in Causes, Raises(n, why),
           lane' \in [Lanes -> LaneStates], asked' \subseteq Lanes
    PROVE  TypeOK'
BY DEF TypeOK, StateOK, ScheduleOK, JobOK, Raises, Follow, config

(* A node that returns changes the state to one of the right type, and may   *)
(* take a snapshot of it.                                                    *)
LEMMA NodeType ==
    ASSUME TypeOK, NEW n, NEW nodes \in SUBSET Nodes, Returns(n, nodes),
           StateOK', asked' \subseteq Lanes,
           update' \in [Lanes -> Outcomes \cup {Absent, Keep}],
           saved' \in States \cup {Absent}
    PROVE  TypeOK'
<1>1. ScheduleOK'
  BY ReturnsType DEF TypeOK, ScheduleOK
<1>2. QED
  BY <1>1, ReturnsJob DEF TypeOK

(* Types: the context and the composer,                                      *)
LEMMA DraftingType ==
    ASSUME TypeOK, NEW l \in Lanes,
           \/ ComposerAsks(l) \/ ComposerGivesUp(l) \/ ComposerAnswers(l)
           \/ ComposerRepeats(l) \/ ComposerFails(l)
    PROVE  TypeOK'
<1>1. CASE ComposerAsks(l)
  <2>1. lane[l].attempts + 1 \in Nat
    BY DEF TypeOK, StateOK, LaneStates
  <2>2. lane' = [lane EXCEPT ![l] = [lane[l] EXCEPT !.attempts = lane[l].attempts + 1]]
    BY <1>1 DEF ComposerAsks, TypeOK, StateOK, LaneStates
  <2>3. lane' \in [Lanes -> LaneStates]
    BY <2>1, <2>2 DEF TypeOK, StateOK, LaneStates
  <2>4. spent' \in [Lanes -> Nat]
    BY <1>1 DEF ComposerAsks, TypeOK, JobOK
  <2>5. asked' \subseteq Lanes
    BY <1>1 DEF ComposerAsks, TypeOK, ScheduleOK
  <2>6. QED
    BY <1>1, <2>3, <2>4, <2>5
    DEF ComposerAsks, TypeOK, StateOK, ScheduleOK, JobOK, config, run
<1>2. CASE ComposerGivesUp(l)
  BY <1>2, RaisesType DEF ComposerGivesUp, TypeOK, StateOK, ScheduleOK, Causes
<1>3. CASE ComposerAnswers(l)
  <2>0. 2 * spent[l] \in Nat
    BY DEF TypeOK, JobOK
  <2>1a. lane' = [lane EXCEPT ![l] = [lane[l] EXCEPT !.brief = FALSE, !.passed = {},
                                                  !.document = 2 * spent[l]]]
    BY <1>3 DEF ComposerAnswers
  <2>1b. lane' \in [Lanes -> LaneStates]
    BY <2>0, <2>1a DEF TypeOK, StateOK, LaneStates
  <2>1. StateOK'
    BY <1>3, <2>1b DEF ComposerAnswers, TypeOK, StateOK
  <2>2. {<<"structure", l>>} \in SUBSET Nodes
    BY DEF Nodes
  <2>3. asked' \subseteq Lanes /\ update' \in [Lanes -> Outcomes \cup {Absent, Keep}]
    BY <1>3 DEF ComposerAnswers, TypeOK, ScheduleOK
  <2>4. saved' \in States \cup {Absent}
    BY <1>3, <2>1, NextImageType, SnapshotType DEF ComposerAnswers
  <2>5. QED
    BY <1>3, <2>1, <2>2, <2>3, <2>4, NodeType DEF ComposerAnswers
<1>4. CASE ComposerRepeats(l)
  <2>0. 2 * (lane[l].document \div 2) \in Nat
    BY DEF TypeOK, StateOK, LaneStates
  <2>1a. lane' = [lane EXCEPT ![l] = [lane[l] EXCEPT !.brief = FALSE,
                                                  !.document = 2 * (lane[l].document \div 2)]]
    BY <1>4 DEF ComposerRepeats
  <2>1. lane' \in [Lanes -> LaneStates]
    BY <2>0, <2>1a DEF TypeOK, StateOK, LaneStates
  <2>2. QED
    BY <1>4, <2>1, RaisesType DEF ComposerRepeats, TypeOK, StateOK, ScheduleOK, Causes
<1>5. CASE ComposerFails(l)
  BY <1>5, RaisesType DEF ComposerFails, TypeOK, StateOK, ScheduleOK, Causes
<1>6. QED
  BY <1>1, <1>2, <1>3, <1>4, <1>5

(* the guards,                                                               *)
LEMMA GuardType ==
    ASSUME TypeOK, NEW l \in Lanes,
           StructureValidator(l) \/ ComplianceGuard(l) \/ FactualityGate(l) \/ Revision(l)
    PROVE  TypeOK'
<1>1. /\ lane' \in [Lanes -> LaneStates]
      /\ UNCHANGED <<result, outcome, qa, iterations, asked>>
      /\ Snapshot(Image')
  <2>1. ASSUME NEW g \in Guards, Judge(l, g) PROVE lane' \in [Lanes -> LaneStates]
    <3>1. PICK pass \in Verdicts(g) : lane' = [lane EXCEPT ![l].passed = @ \cup pass]
      BY <2>1 DEF Judge
    <3>2. lane[l].passed \cup pass \in SUBSET Guards
      BY <3>1 DEF Verdicts, TypeOK, StateOK, LaneStates
    <3>3. lane' = [lane EXCEPT ![l] = [lane[l] EXCEPT !.passed = lane[l].passed \cup pass]]
      BY <3>1
    <3>4. QED
      BY <3>2, <3>3 DEF TypeOK, StateOK, LaneStates
  <2>2. CASE StructureValidator(l)
    BY <2>1, <2>2 DEF StructureValidator, Guards
  <2>3. CASE ComplianceGuard(l)
    BY <2>1, <2>3 DEF ComplianceGuard, Guards
  <2>4. CASE FactualityGate(l)
    BY <2>1, <2>4 DEF FactualityGate, Guards
  <2>5. CASE Revision(l)
    <3>1. lane' = [lane EXCEPT ![l] = [lane[l] EXCEPT !.brief = TRUE]]
      BY <2>5 DEF Revision
    <3>2. QED
      BY <2>5, <3>1 DEF Revision, TypeOK, StateOK, LaneStates
  <2>6. QED
    BY <2>2, <2>3, <2>4, <2>5
<1>2. StateOK' /\ asked' \subseteq Lanes
  BY <1>1 DEF TypeOK, StateOK, ScheduleOK
<1>3. saved' \in States \cup {Absent}
  BY <1>1, <1>2, NextImageType, SnapshotType
<1>4. PICK n \in Nodes, nodes \in SUBSET Nodes : Returns(n, nodes)
  <2>1. \A x \in {"structure", "compliance", "factuality", "revision", "reviewer",
                    "composer"} : <<x, l>> \in Nodes
    BY DEF Nodes
  <2>2. \E x, y \in {"structure", "compliance", "factuality", "revision", "reviewer",
                       "composer"} : Returns(<<x, l>>, {<<y, l>>})
    BY DEF StructureValidator, ComplianceGuard, FactualityGate, Revision
  <2>3. QED
    BY <2>1, <2>2
<1>5. update' \in [Lanes -> Outcomes \cup {Absent, Keep}]
  <2>1. Outcome(l)' \in Outcomes
    BY <1>2 DEF StateOK, Outcome, Outcomes, LaneStates
  <2>2. QED
    BY <2>1 DEF StructureValidator, ComplianceGuard, FactualityGate, Revision,
                TypeOK, ScheduleOK
<1>6. QED
  BY <1>2, <1>3, <1>4, <1>5, NodeType

(* the reviewers, revision and editor,                                       *)
LEMMA ReviewType ==
    ASSUME TypeOK, NEW l \in Lanes,
           \/ ReviewerSkips(l) \/ ReviewerAnswers(l) \/ ReviewerFails(l)
           \/ QARevision(l) \/ QARevisionFails(l) \/ QAEditor(l) \/ QAEditorFails(l)
    PROVE  TypeOK'
<1>0. \A x \in {"wait", "composer", "reviewer", "qarevision", "qaeditor"} :
          {<<x, l>>} \in SUBSET Nodes
  BY DEF Nodes
<1>1. ASSUME NEW a \in Actions, Reviewed(l, a) PROVE StateOK'
  <2>1. [action |-> a, document |-> lane[l].document] \in Results
    BY DEF TypeOK, StateOK, LaneStates, Results
  <2>2. QED
    BY <1>1, <2>1 DEF Reviewed, TypeOK, StateOK
<1>2. CASE ReviewerSkips(l)
  <2>1. StateOK'
    BY <1>1, <1>2 DEF ReviewerSkips, Actions
  <2>2. saved' \in States \cup {Absent}
    BY <1>2, <2>1, NextImageType, SnapshotType DEF ReviewerSkips
  <2>3. update' \in [Lanes -> Outcomes \cup {Absent, Keep}] /\ asked' \subseteq Lanes
    BY <1>2, OutcomeType DEF ReviewerSkips, Reviewed, TypeOK, ScheduleOK
  <2>4. QED
    BY <1>0, <1>2, <2>1, <2>2, <2>3, NodeType DEF ReviewerSkips
<1>3. CASE ReviewerAnswers(l)
  <2>1. PICK a \in Actions :
            /\ Returns(<<"reviewer", l>>, {<<AfterReview(l, a), l>>})
            /\ Reviewed(l, a)
            /\ UNCHANGED update
            /\ Snapshot([Image' EXCEPT !.iterations = iterations + 1])
    BY <1>3 DEF ReviewerAnswers
  <2>2. StateOK'
    BY <1>1, <2>1
  <2>3. [Image' EXCEPT !.iterations = iterations + 1] \in States
    BY <2>2, NextImageType DEF TypeOK, StateOK, States
  <2>4. saved' \in States \cup {Absent}
    BY <2>1, <2>3 DEF Snapshot
  <2>5. {<<AfterReview(l, a), l>>} \in SUBSET Nodes
    BY <1>0 DEF AfterReview
  <2>6. update' \in [Lanes -> Outcomes \cup {Absent, Keep}] /\ asked' \subseteq Lanes
    BY <2>1 DEF Reviewed, TypeOK, ScheduleOK
  <2>7. QED
    BY <2>1, <2>2, <2>4, <2>5, <2>6, NodeType
<1>4. CASE ReviewerFails(l) \/ QARevisionFails(l) \/ QAEditorFails(l)
  <2>1. PICK n \in Nodes, why \in Causes : Raises(n, why)
    BY <1>4 DEF ReviewerFails, QARevisionFails, QAEditorFails, Causes, Nodes
  <2>2. lane' \in [Lanes -> LaneStates] /\ asked' \subseteq Lanes
    BY <1>4 DEF ReviewerFails, QARevisionFails, QAEditorFails, TypeOK, StateOK, ScheduleOK
  <2>3. QED
    BY <2>1, <2>2, RaisesType
<1>5. CASE QARevision(l)
  <2>1. lane' = [lane EXCEPT ![l] = [lane[l] EXCEPT !.brief = TRUE, !.passed = {},
                                                  !.edited = FALSE]]
    BY <1>5 DEF QARevision
  <2>2. lane' \in [Lanes -> LaneStates]
    BY <2>1 DEF TypeOK, StateOK, LaneStates
  <2>3. StateOK'
    BY <1>5, <2>2 DEF QARevision, TypeOK, StateOK
  <2>4. saved' \in States \cup {Absent}
    BY <1>5, <2>3, NextImageType, SnapshotType DEF QARevision
  <2>5. update' \in [Lanes -> Outcomes \cup {Absent, Keep}] /\ asked' \subseteq Lanes
    BY <1>5 DEF QARevision, TypeOK, ScheduleOK
  <2>6. QED
    BY <1>0, <1>5, <2>3, <2>4, <2>5, NodeType DEF QARevision
<1>6. CASE QAEditor(l)
  <2>1. lane' = [lane EXCEPT ![l] = [lane[l] EXCEPT !.document = lane[l].document + 1,
                                                  !.edited = TRUE]]
    BY <1>6 DEF QAEditor, Edit
  <2>2. lane[l].document + 1 \in Nat
    BY DEF TypeOK, StateOK, LaneStates
  <2>3. lane' \in [Lanes -> LaneStates]
    BY <2>1, <2>2 DEF TypeOK, StateOK, LaneStates
  <2>4. StateOK'
    BY <1>6, <2>3 DEF QAEditor, TypeOK, StateOK
  <2>5. [Image' EXCEPT !.result = result] \in States
    BY <2>4, NextImageType DEF TypeOK, StateOK, States
  <2>6. saved' \in States \cup {Absent}
    BY <1>6, <2>5 DEF QAEditor, Snapshot
  <2>7. update' \in [Lanes -> Outcomes \cup {Absent, Keep}] /\ asked' \subseteq Lanes
    BY <1>6 DEF QAEditor, TypeOK, ScheduleOK
  <2>8. QED
    BY <1>0, <1>6, <2>4, <2>6, <2>7, NodeType DEF QAEditor
<1>7. QED
  BY <1>2, <1>3, <1>4, <1>5, <1>6

(* the join and the release,                                                 *)
LEMMA JoinType ==
    ASSUME TypeOK,
           \/ ContextAssembler \/ ComposeJoin \/ ComposeJoinWait \/ QAJoin \/ QAJoinFails
           \/ ReleaseGate \/ ReleaseGateFails \/ \E l \in Lanes : WaitForLane(l)
    PROVE  TypeOK'
<1>0. {<<"composer", l>> : l \in Lanes} \in SUBSET Nodes /\
      \A x \in {"context", "join", "joinwait", "qajoin", "release"} : <<x, Both>> \in Nodes
  BY DEF Nodes
<1>1. CASE ContextAssembler
  BY <1>0, <1>1, NodeType, ImageType, SnapshotType
  DEF ContextAssembler, TypeOK, StateOK, ScheduleOK, state
<1>2. ASSUME NEW n, NEW nodes \in SUBSET Nodes, Passes(n, nodes) PROVE TypeOK'
  <2>1. StateOK' /\ asked' \subseteq Lanes /\ saved' \in States \cup {Absent}
        /\ update' \in [Lanes -> Outcomes \cup {Absent, Keep}]
    BY <1>2 DEF Passes, TypeOK, StateOK, ScheduleOK, JobOK, state
  <2>2. QED
    BY <1>2, <2>1, NodeType DEF Passes
<1>3. CASE ComposeJoin
  BY <1>0, <1>2, <1>3 DEF ComposeJoin, JoinRoute
<1>4. CASE ComposeJoinWait
  BY <1>2, <1>4 DEF ComposeJoinWait
<1>5. CASE \E l \in Lanes : WaitForLane(l)
  BY <1>0, <1>2, <1>5 DEF WaitForLane
<1>6. CASE QAJoin
  <2>1. StateOK'
    BY <1>6 DEF QAJoin, TypeOK, StateOK
  <2>2. saved' \in States \cup {Absent}
    BY <1>6, <2>1, NextImageType, SnapshotType DEF QAJoin
  <2>3. update' \in [Lanes -> Outcomes \cup {Absent, Keep}] /\ asked' \subseteq Lanes
    BY <1>6 DEF QAJoin, TypeOK, ScheduleOK
  <2>4. QED
    BY <1>0, <1>6, <2>1, <2>2, <2>3, NodeType DEF QAJoin
<1>7. CASE QAJoinFails \/ ReleaseGateFails
  BY <1>7, RaisesType DEF QAJoinFails, ReleaseGateFails, TypeOK, StateOK, ScheduleOK, Causes
<1>8. CASE ReleaseGate
  <2>1. StateOK' /\ asked' \subseteq Lanes
        /\ update' \in [Lanes -> Outcomes \cup {Absent, Keep}]
    BY <1>8 DEF ReleaseGate, TypeOK, StateOK, ScheduleOK, state
  <2>2. saved' \in States \cup {Absent}
    BY <1>8, ImageType, SnapshotType DEF ReleaseGate, TypeOK
  <2>3. {} \in SUBSET Nodes
    OBVIOUS
  <2>4. QED
    BY <1>8, <2>1, <2>2, <2>3, NodeType DEF ReleaseGate
<1>9. QED
  BY <1>1, <1>3, <1>4, <1>5, <1>6, <1>7, <1>8

(* the supersteps, crashes and resumption,                                   *)
LEMMA RunType ==
    ASSUME TypeOK, StepEnds \/ Release \/ FallsBack \/ Fails \/ Crash \/ Resume
    PROVE  TypeOK'
<1> USE ComposeAssumption DEF ComposeAssumption
<1>1. ASSUME Merge PROVE StateOK' /\ update' \in [Lanes -> Outcomes \cup {Absent, Keep}]
  BY <1>1 DEF Merge, MergedOutcome, Nothing, TypeOK, StateOK, ScheduleOK
<1>2. CASE StepEnds
  BY <1>1, <1>2 DEF StepEnds, Merge, TypeOK, ScheduleOK, JobOK, Causes, config
<1>3. CASE Release
  BY <1>1, <1>3 DEF Release, Merge, TypeOK, ScheduleOK, JobOK, config
<1>4. ASSUME StartsGraph PROVE ScheduleOK' /\ step' \in 1..RecursionLimit
                               /\ phase' = "running" /\ cause' \in Causes
  BY <1>4 DEF StartsGraph, Start, Nothing, ScheduleOK, Nodes, Causes
<1>5. CASE FallsBack
  <2>1. StateOK'
    BY <1>5 DEF FallsBack, RunsAgain, SameLanes, TakesMaps, TypeOK, StateOK, JobOK, States
  <2>2. JobOK'
    BY <1>4, <1>5 DEF FallsBack, RunsAgain, TypeOK, JobOK, config
  <2>3. QED
    BY <1>4, <1>5, <2>1, <2>2 DEF FallsBack, RunsAgain, TypeOK
<1>6. CASE Fails
  BY <1>6 DEF Fails, TypeOK, StateOK, ScheduleOK, JobOK, config, state, sched
<1>7. CASE Crash
  BY <1>7 DEF Crash, TypeOK, StateOK, ScheduleOK, JobOK, config, state, sched
<1>8. CASE Resume
  <2>1. Restored \in States
    BY FreshType DEF Restored, TypeOK, JobOK
  <2>2. StateOK'
    BY <1>8, <2>1 DEF Resume, TakesMaps, StateOK, States
  <2>3. saved' \in States \cup {Absent}
    BY <1>8, <2>1, SnapshotType DEF Resume
  <2>4. JobOK'
    BY <1>4, <1>8, <2>1, <2>3 DEF Resume, TypeOK, JobOK, config
  <2>5. QED
    BY <1>4, <1>8, <2>2, <2>4 DEF Resume, TypeOK
<1>9. QED
  BY <1>2, <1>3, <1>5, <1>6, <1>7, <1>8

(* the beginning,                                                            *)
LEMMA TypeInit == Init => TypeOK
<1>1. ASSUME Init PROVE StateOK /\ ScheduleOK
  BY <1>1, FreshType DEF Init, StateOK, ScheduleOK, States, Start, Nothing, Nodes
<1>2. ASSUME Init PROVE JobOK
  <2>1. enforced \in BOOLEAN /\ async \in BOOLEAN
    BY <1>2, ComposeAssumption DEF Init, ComposeAssumption
  <2>2. step \in 1..RecursionLimit /\ crashes \in 0..MaxCrashes /\ cause \in Causes
    BY <1>2, ComposeAssumption DEF Init, ComposeAssumption, Causes
  <2>3. spent \in [Lanes -> Nat]
    BY <1>2 DEF Init
  <2>4. QED
    BY <1>2, <2>1, <2>2, <2>3, FreshType DEF Init, JobOK
<1>3. QED
  BY <1>1, <1>2 DEF TypeOK

(* and so every step.                                                        *)
LEMMA TypeStep == TypeOK /\ [Next]_vars => TypeOK'
<1> SUFFICES ASSUME TypeOK, [Next]_vars PROVE TypeOK'
  OBVIOUS
<1>1. CASE UNCHANGED vars
  BY <1>1 DEF vars, config, state, sched, run, TypeOK, StateOK, ScheduleOK, JobOK
<1>2. ASSUME NEW l \in Lanes, Lane(l) PROVE TypeOK'
  BY <1>2, DraftingType, GuardType, ReviewType, JoinType DEF Lane
<1>3. CASE Shared \/ Crash \/ Resume
  BY <1>3, JoinType, RunType DEF Shared
<1>4. QED
  BY <1>1, <1>2, <1>3 DEF Next, Steps

(* Every variable keeps its type, for any number of lanes, attempts and      *)
(* crashes, with or without QA and asyncio.                                  *)
THEOREM TypeCorrect == Spec => []TypeOK
BY TypeInit, TypeStep, PTL DEF Spec

(***************************************************************************)
(* Released documents have passed the guards                               *)
(***************************************************************************)
(* A lane is at one node, and the context node runs alone. *)
OneNode ==
    /\ \A m, n \in todo \cup next : m[2] = n[2] /\ m[2] # Both => m = n
    /\ \A n \in todo \cap next : n[2] = Both
    /\ \A n \in next : n # <<"context", Both>>
    /\ <<"context", Both>> \in todo => todo = Start /\ next = {}

(* A draft under review has passed the guards, *)
ReviewedPassed ==
    \A l \in Lanes : \A x \in {"reviewer", "qaeditor"} :
        <<x, l>> \in todo \cup next => lane[l].passed = Guards

(* and so has every outcome a lane was given, now or before a crash. *)
OutcomesPassed ==
    \A l \in Lanes :
        /\ outcome[l] # Absent => outcome[l].passed = Guards
        /\ update[l] \notin {Absent, Keep} => update[l].passed = Guards
        /\ origin.outcome[l] # Absent => origin.outcome[l].passed = Guards
        /\ saved # Absent /\ saved.outcome[l] # Absent
              => saved.outcome[l].passed = Guards

GuardInv == OneNode /\ ReviewedPassed /\ OutcomesPassed /\ ReleasedIsGuarded

(* What remains of the schedule when lane l goes from node x to node y. *)
LEMMA LaneMoves ==
    ASSUME ComposeAssumption, OneNode, NEW l \in Lanes, NEW x, NEW y,
           Returns(<<x, l>>, {<<y, l>>})
    PROVE  /\ OneNode'
           /\ \A z : <<z, l>> \in todo' \cup next' => z = y
           /\ \A k \in Lanes \ {l} : \A z :
                  <<z, k>> \in todo' \cup next' => <<z, k>> \in todo \cup next
<1>1. l # Both /\ <<x, l>> \in todo /\ <<x, l>> \notin next
  BY DEF ComposeAssumption, OneNode, Returns, Ready
<1>2. todo' = todo \ {<<x, l>>} /\ next' = next \cup {<<y, l>>}
  BY DEF Returns, Follow
<1>3. \A n \in (todo \cup next) \ {<<x, l>>} : n[2] # l
  BY <1>1 DEF OneNode
<1>4. <<"context", Both>> \notin todo
  BY <1>1 DEF OneNode, Start
<1>5. OneNode'
  BY <1>1, <1>2, <1>3, <1>4 DEF OneNode
<1>6. QED
  BY <1>1, <1>2, <1>3, <1>5

(* What remains of it when the node of lane l raises. *)
LEMMA LaneStops ==
    ASSUME ComposeAssumption, OneNode, NEW n, NEW why, Raises(n, why)
    PROVE  OneNode' /\ todo' \cup next' \subseteq todo \cup next
<1>1. todo' = todo \ {n} /\ next' = next
  BY DEF Raises, Follow
<1>2. QED
  BY <1>1 DEF OneNode, Start

(* What the steps that concern all lanes do to the lanes.                    *)
LEMMA SharedMoves ==
    ASSUME ComposeAssumption, OneNode, NEW x, NEW nodes,
           \A n \in nodes : n[2] = Both /\ n # <<"context", Both>>,
           Returns(<<x, Both>>, nodes)
    PROVE  /\ OneNode'
           /\ \A k \in Lanes : \A z :
                  <<z, k>> \in todo' \cup next' => <<z, k>> \in todo \cup next
<1>1. todo' = todo \ {<<x, Both>>} /\ next' = next \cup nodes /\ <<x, Both>> \in todo
  BY DEF Returns, Follow, Ready
<1>2. <<"context", Both>> \in todo' => FALSE
  BY <1>1 DEF OneNode, Start
<1>3. OneNode'
  BY <1>1, <1>2 DEF OneNode
<1>4. QED
  BY <1>1, <1>3 DEF ComposeAssumption

(* A step of lane l keeps the invariant if what it writes does. *)
LEMMA LaneGuard ==
    ASSUME ComposeAssumption, TypeOK, GuardInv, NEW l \in Lanes, NEW x, NEW y,
           Returns(<<x, l>>, {<<y, l>>}),
           \A k \in Lanes \ {l} : lane'[k] = lane[k] /\ update'[k] = update[k],
           y \in {"reviewer", "qaeditor"} => lane'[l].passed = Guards,
           update'[l] \notin {Absent, Keep} => update'[l] = update[l] \/ update'[l].passed = Guards,
           UNCHANGED outcome,
           saved' # Absent => saved'.outcome = outcome
    PROVE  GuardInv'
<1>0. /\ OneNode'
      /\ \A z : <<z, l>> \in todo' \cup next' => z = y
      /\ \A k \in Lanes \ {l} : \A z :
            <<z, k>> \in todo' \cup next' => <<z, k>> \in todo \cup next
  BY LaneMoves DEF GuardInv
<1>1. ReviewedPassed'
  <2>1. ASSUME NEW k \in Lanes, NEW z \in {"reviewer", "qaeditor"},
               <<z, k>> \in todo' \cup next'
        PROVE  lane'[k].passed = Guards
    <3>1. CASE k = l
      BY <1>0, <2>1, <3>1
    <3>2. CASE k # l
      BY <1>0, <2>1, <3>2 DEF GuardInv, ReviewedPassed
    <3>3. QED
      BY <3>1, <3>2
  <2>2. QED
    BY <2>1 DEF ReviewedPassed
<1>2. origin' = origin /\ phase' = phase /\ phase # "released"
  BY DEF Returns, Ready, run
<1>3. OutcomesPassed'
  BY <1>2 DEF GuardInv, OutcomesPassed
<1>4. QED
  BY <1>0, <1>1, <1>2, <1>3 DEF GuardInv, ReleasedIsGuarded

(* A draft that is released passed the guards: an exception,                 *)
LEMMA RaisesGuard ==
    ASSUME ComposeAssumption, GuardInv, NEW n, NEW why, Raises(n, why),
           \A l \in Lanes : lane'[l].passed = lane[l].passed
    PROVE  GuardInv'
<1>1. OneNode' /\ ReviewedPassed'
  BY LaneStops DEF GuardInv, ReviewedPassed
<1>2. OutcomesPassed' /\ ReleasedIsGuarded'
  BY DEF GuardInv, OutcomesPassed, ReleasedIsGuarded, Raises
<1>3. QED
  BY <1>1, <1>2 DEF GuardInv

(* the context and the composer,                                             *)
LEMMA DraftingGuard ==
    ASSUME ComposeAssumption, TypeOK, GuardInv, NEW l \in Lanes,
           \/ ComposerAsks(l) \/ ComposerGivesUp(l) \/ ComposerAnswers(l)
           \/ ComposerRepeats(l) \/ ComposerFails(l)
    PROVE  GuardInv'
<1> USE DEF TypeOK, StateOK, LaneStates
<1>1. CASE ComposerAsks(l)
  <2>1. /\ \A k \in Lanes : lane'[k].passed = lane[k].passed
        /\ UNCHANGED <<todo, next, update, outcome, origin, saved, phase>>
    BY <1>1 DEF ComposerAsks, run
  <2>2. OneNode' /\ ReviewedPassed'
    BY <2>1 DEF GuardInv, OneNode, ReviewedPassed
  <2>3. OutcomesPassed' /\ ReleasedIsGuarded'
    BY <2>1 DEF GuardInv, OutcomesPassed, ReleasedIsGuarded
  <2>4. QED
    BY <2>2, <2>3 DEF GuardInv
<1>2. CASE ComposerGivesUp(l) \/ ComposerRepeats(l) \/ ComposerFails(l)
  <2>1. PICK why : Raises(<<"composer", l>>, why)
    BY <1>2 DEF ComposerGivesUp, ComposerRepeats, ComposerFails
  <2>2. \A k \in Lanes : lane'[k].passed = lane[k].passed
    BY <1>2 DEF ComposerGivesUp, ComposerRepeats, ComposerFails
  <2>3. QED
    BY <2>1, <2>2, RaisesGuard
<1>3. CASE ComposerAnswers(l)
  <2>1. saved' # Absent => saved'.outcome = outcome
    BY <1>3 DEF ComposerAnswers, Snapshot, Image
  <2>2. /\ \A k \in Lanes \ {l} : lane'[k] = lane[k]
        /\ UNCHANGED <<update, outcome>>
    BY <1>3 DEF ComposerAnswers
  <2>3. QED
    BY <1>3, <2>1, <2>2, LaneGuard DEF ComposerAnswers
<1>4. QED
  BY <1>1, <1>2, <1>3

(* the guards,                                                               *)
LEMMA GuardsGuard ==
    ASSUME ComposeAssumption, TypeOK, GuardInv, NEW l \in Lanes,
           StructureValidator(l) \/ ComplianceGuard(l) \/ FactualityGate(l) \/ Revision(l)
    PROVE  GuardInv'
<1>1. /\ saved' # Absent => saved'.outcome = outcome
      /\ UNCHANGED outcome
  BY DEF StructureValidator, ComplianceGuard, FactualityGate, Revision, Snapshot, Image
<1>2. \A k \in Lanes \ {l} : lane'[k] = lane[k] /\ update'[k] = update[k]
  <2>1. UNCHANGED lane \/ \E r : lane' = [lane EXCEPT ![l] = r]
    BY DEF StructureValidator, ComplianceGuard, FactualityGate, Revision, Judge
  <2>2. UNCHANGED update \/ \E r : update' = [update EXCEPT ![l] = r]
    BY DEF StructureValidator, ComplianceGuard, FactualityGate, Revision
  <2>3. QED
    BY <2>1, <2>2 DEF TypeOK, StateOK, ScheduleOK
<1>3. CASE StructureValidator(l)
  BY <1>1, <1>2, <1>3, LaneGuard DEF StructureValidator
<1>4. CASE ComplianceGuard(l)
  BY <1>1, <1>2, <1>4, LaneGuard DEF ComplianceGuard
<1>5. CASE Revision(l)
  BY <1>1, <1>2, <1>5, LaneGuard DEF Revision
<1>6. CASE FactualityGate(l)
  <2>1. CASE AllPass(lane'[l].passed)
    <3>1. Returns(<<"factuality", l>>, {<<"reviewer", l>>}) /\ update'[l] = Outcome(l)'
      BY <1>6, <2>1 DEF FactualityGate, TypeOK, ScheduleOK
    <3>2. lane'[l].passed = Guards /\ update'[l].passed = Guards
      BY <2>1, <3>1 DEF AllPass, Outcome
    <3>3. QED
      BY <1>1, <1>2, <3>1, <3>2, LaneGuard
  <2>2. CASE ~AllPass(lane'[l].passed)
    BY <1>1, <1>2, <1>6, <2>2, LaneGuard DEF FactualityGate
  <2>3. QED
    BY <2>1, <2>2
<1>7. QED
  BY <1>3, <1>4, <1>5, <1>6

(* reviewers, revision and editor,                                           *)
LEMMA ReviewGuard ==
    ASSUME ComposeAssumption, TypeOK, GuardInv, NEW l \in Lanes,
           \/ ReviewerSkips(l) \/ ReviewerAnswers(l) \/ ReviewerFails(l)
           \/ QARevision(l) \/ QARevisionFails(l) \/ QAEditor(l) \/ QAEditorFails(l)
    PROVE  GuardInv'
<1>1. \A x \in {"reviewer", "qaeditor"} : Ready(<<x, l>>) => lane[l].passed = Guards
  BY DEF GuardInv, ReviewedPassed, Ready
<1>2. CASE ReviewerSkips(l)
  <2>1. /\ UNCHANGED <<lane, outcome>> /\ update' = [update EXCEPT ![l] = Outcome(l)]
        /\ saved' # Absent => saved'.outcome = outcome
    BY <1>2 DEF ReviewerSkips, Reviewed, Snapshot, Image
  <2>2. update'[l].passed = Guards
    BY <1>1, <1>2, <2>1 DEF ReviewerSkips, Returns, Outcome, TypeOK, ScheduleOK
  <2>3. \A k \in Lanes \ {l} : lane'[k] = lane[k] /\ update'[k] = update[k]
    BY <2>1 DEF TypeOK, ScheduleOK
  <2>4. QED
    BY <1>2, <2>1, <2>2, <2>3, LaneGuard DEF ReviewerSkips
<1>3. CASE ReviewerAnswers(l)
  <2>1. PICK a \in Actions :
            /\ Returns(<<"reviewer", l>>, {<<AfterReview(l, a), l>>})
            /\ Reviewed(l, a)
            /\ UNCHANGED update
            /\ Snapshot([Image' EXCEPT !.iterations = iterations + 1])
    BY <1>3 DEF ReviewerAnswers
  <2>2. UNCHANGED <<lane, outcome, update>> /\ lane'[l].passed = Guards
    BY <1>1, <2>1 DEF Reviewed, Returns
  <2>3. saved' # Absent => saved'.outcome = outcome
    <3>1. [Image' EXCEPT !.iterations = iterations + 1].outcome = outcome
      BY <2>2 DEF Image
    <3>2. QED
      BY <2>1, <3>1 DEF Snapshot
  <2>4. QED
    BY <2>1, <2>2, <2>3, LaneGuard
<1>4. CASE ReviewerFails(l) \/ QARevisionFails(l) \/ QAEditorFails(l)
  <2>1. PICK n, why : Raises(n, why)
    BY <1>4 DEF ReviewerFails, QARevisionFails, QAEditorFails
  <2>2. UNCHANGED lane
    BY <1>4 DEF ReviewerFails, QARevisionFails, QAEditorFails
  <2>3. QED
    BY <2>1, <2>2, RaisesGuard
<1>5. CASE QARevision(l)
  <2>1. /\ UNCHANGED outcome /\ update' = [update EXCEPT ![l] = Absent]
        /\ saved' # Absent => saved'.outcome = outcome
        /\ \A k \in Lanes \ {l} : lane'[k] = lane[k]
    BY <1>5 DEF QARevision, Snapshot, Image, TypeOK, StateOK
  <2>2. update'[l] = Absent /\ \A k \in Lanes \ {l} : update'[k] = update[k]
    BY <2>1 DEF TypeOK, ScheduleOK
  <2>3. QED
    BY <1>5, <2>1, <2>2, LaneGuard DEF QARevision
<1>6. CASE QAEditor(l)
  <2>1. /\ UNCHANGED <<outcome, update>>
        /\ \A k \in Lanes \ {l} : lane'[k] = lane[k]
        /\ lane'[l].passed = lane[l].passed
    BY <1>6 DEF QAEditor, Edit, TypeOK, StateOK, LaneStates
  <2>2. lane'[l].passed = Guards
    BY <1>1, <1>6, <2>1 DEF QAEditor, Returns
  <2>3. saved' # Absent => saved'.outcome = outcome
    <3>1. [Image' EXCEPT !.result = result].outcome = outcome
      BY <2>1 DEF Image
    <3>2. QED
      BY <1>6, <3>1 DEF QAEditor, Snapshot
  <2>4. QED
    BY <1>6, <2>1, <2>2, <2>3, LaneGuard DEF QAEditor
<1>7. QED
  BY <1>2, <1>3, <1>4, <1>5, <1>6

(* the nodes of all lanes,                                                   *)
LEMMA SharedGuard ==
    ASSUME ComposeAssumption, TypeOK, GuardInv,
           \/ ContextAssembler \/ ComposeJoin \/ ComposeJoinWait \/ QAJoin \/ QAJoinFails
           \/ ReleaseGate \/ ReleaseGateFails \/ \E l \in Lanes : WaitForLane(l)
    PROVE  GuardInv'
<1>1. ASSUME NEW n, NEW nodes, Returns(n, nodes),
             UNCHANGED <<lane, update, outcome>>,
             saved' \in {saved, Absent} \/ saved'.outcome = outcome,
             OneNode',
             \A k \in Lanes : \A z \in {"reviewer", "qaeditor"} :
                 <<z, k>> \in todo' \cup next' => <<z, k>> \in todo \cup next
      PROVE  GuardInv'
  <2>1. UNCHANGED <<origin, phase>> /\ phase # "released"
    BY <1>1 DEF Returns, Ready, run
  <2>2. OutcomesPassed' /\ ReleasedIsGuarded'
    BY <1>1, <2>1 DEF GuardInv, OutcomesPassed, ReleasedIsGuarded
  <2>3. ReviewedPassed'
    BY <1>1 DEF GuardInv, ReviewedPassed
  <2>4. QED
    BY <1>1, <2>2, <2>3 DEF GuardInv
<1>2. CASE ContextAssembler
  <2>1. todo = Start /\ next = {}
    BY <1>2 DEF ContextAssembler, Returns, Ready, GuardInv, OneNode
  <2>2. todo' = {} /\ next' = {<<"composer", l>> : l \in Lanes}
    BY <1>2, <2>1 DEF ContextAssembler, Returns, Follow, Start
  <2>3. OneNode'
    BY <2>2 DEF OneNode
  <2>4. UNCHANGED <<lane, update, outcome>> /\ (saved' = Absent \/ saved'.outcome = outcome)
    BY <1>2 DEF ContextAssembler, state, Snapshot, Image
  <2>5. QED
    BY <1>1, <1>2, <2>2, <2>3, <2>4 DEF ContextAssembler
<1>3. ASSUME NEW x, NEW nodes, Returns(<<x, Both>>, nodes),
             \A n \in nodes : n[2] = Both /\ n # <<"context", Both>>,
             UNCHANGED <<lane, update, outcome>>,
             saved' \in {saved, Absent} \/ saved'.outcome = outcome
      PROVE  GuardInv'
  BY <1>1, <1>3, SharedMoves DEF GuardInv
<1>4. CASE ComposeJoin \/ ComposeJoinWait
  BY <1>3, <1>4 DEF ComposeJoin, ComposeJoinWait, Passes, state, JoinRoute
<1>5. CASE QAJoin
  BY <1>3, <1>5 DEF QAJoin, Snapshot, Image
<1>6. CASE ReleaseGate
  BY <1>3, <1>6 DEF ReleaseGate, Snapshot, Image, state
<1>7. CASE QAJoinFails \/ ReleaseGateFails
  BY <1>7, RaisesGuard DEF QAJoinFails, ReleaseGateFails
<1>8. ASSUME NEW l \in Lanes, WaitForLane(l) PROVE GuardInv'
  <2>1. /\ Returns(<<"wait", l>>, {<<"join", Both>>})
        /\ UNCHANGED <<lane, update, outcome, saved>>
    BY <1>8 DEF WaitForLane, Passes, state
  <2>2. todo' = todo \ {<<"wait", l>>} /\ next' = next \cup {<<"join", Both>>}
    BY <2>1 DEF Returns, Follow
  <2>3. <<"context", Both>> \notin todo
    BY <2>1 DEF Returns, Ready, GuardInv, OneNode, Start, ComposeAssumption
  <2>4. OneNode'
    BY <2>2, <2>3 DEF GuardInv, OneNode
  <2>5. QED
    BY <1>1, <2>1, <2>2, <2>4 DEF ComposeAssumption
<1>9. QED
  BY <1>2, <1>4, <1>5, <1>6, <1>7, <1>8

(* supersteps, crashes and resumption.                                       *)
LEMMA RunGuard ==
    ASSUME ComposeAssumption, TypeOK, GuardInv,
           StepEnds \/ Release \/ FallsBack \/ Fails \/ Crash \/ Resume
    PROVE  GuardInv'
<1>1. ASSUME Merge, UNCHANGED <<origin, saved>> PROVE OutcomesPassed'
  BY <1>1 DEF Merge, MergedOutcome, Nothing, GuardInv, OutcomesPassed
<1>2. CASE StepEnds
  <2>1. OneNode' /\ ReviewedPassed'
    BY <1>2 DEF StepEnds, Merge, GuardInv, OneNode, ReviewedPassed
  <2>2. QED
    BY <1>1, <1>2, <2>1 DEF StepEnds, GuardInv, ReleasedIsGuarded
<1>3. CASE Release
  <2>1. OneNode' /\ ReviewedPassed' /\ OutcomesPassed'
    BY <1>1, <1>3 DEF Release, Merge, GuardInv, OneNode, ReviewedPassed
  <2>2. ReleasedIsGuarded'
    BY <1>3, <2>1 DEF Release, AllDrafted, OutcomesPassed, ReleasedIsGuarded
  <2>3. QED
    BY <2>1, <2>2 DEF GuardInv
<1>4. ASSUME StartsGraph PROVE OneNode' /\ ReviewedPassed' /\ ReleasedIsGuarded'
  BY <1>4 DEF StartsGraph, Start, OneNode, ReviewedPassed, ReleasedIsGuarded,
              ComposeAssumption
<1>5. CASE FallsBack
  <2>1. OutcomesPassed'
    BY <1>5 DEF FallsBack, RunsAgain, StartsGraph, Nothing, TakesMaps, GuardInv, OutcomesPassed
  <2>2. QED
    BY <1>4, <1>5, <2>1 DEF FallsBack, RunsAgain, GuardInv
<1>6. CASE Fails
  BY <1>6 DEF Fails, state, sched, GuardInv, OneNode, ReviewedPassed, OutcomesPassed,
              ReleasedIsGuarded
<1>7. CASE Crash
  BY <1>7 DEF Crash, state, sched, GuardInv, OneNode, ReviewedPassed, OutcomesPassed,
              ReleasedIsGuarded
<1>8. CASE Resume
  <2>1. \A l \in Lanes : Restored.outcome[l] # Absent => Restored.outcome[l].passed = Guards
    BY DEF Restored, Fresh, GuardInv, OutcomesPassed
  <2>2. /\ outcome' = Restored.outcome /\ origin' = Restored /\ update' = Nothing
        /\ saved' \in {Restored, Absent}
    BY <1>8 DEF Resume, TakesMaps, StartsGraph, Snapshot
  <2>3. OutcomesPassed'
    BY <2>1, <2>2 DEF OutcomesPassed, Nothing
  <2>4. QED
    BY <1>4, <1>8, <2>3 DEF Resume, GuardInv
<1>9. QED
  BY <1>2, <1>3, <1>5, <1>6, <1>7, <1>8

(* So it holds in every behaviour.                                           *)
LEMMA GuardInvariant == Spec => []GuardInv
<1>1. Init => GuardInv
  BY ComposeAssumption
  DEF Init, Start, Fresh, Nothing, GuardInv, OneNode, ReviewedPassed, OutcomesPassed,
      ReleasedIsGuarded, ComposeAssumption
<1>2. TypeOK /\ GuardInv /\ [Next]_vars => GuardInv'
  <2> SUFFICES ASSUME TypeOK, GuardInv, [Next]_vars PROVE GuardInv'
    OBVIOUS
  <2>1. CASE UNCHANGED vars
    BY <2>1 DEF vars, config, state, sched, run, GuardInv, OneNode, ReviewedPassed,
                OutcomesPassed, ReleasedIsGuarded
  <2>2. ASSUME NEW l \in Lanes, Lane(l) PROVE GuardInv'
    BY <2>2, DraftingGuard, GuardsGuard, ReviewGuard, SharedGuard, ComposeAssumption DEF Lane
  <2>3. CASE Shared \/ Crash \/ Resume
    BY <2>3, SharedGuard, RunGuard, ComposeAssumption DEF Shared
  <2>4. QED
    BY <2>1, <2>2, <2>3 DEF Next, Steps
<1>3. QED
  BY <1>1, <1>2, TypeCorrect, PTL DEF Spec

(* Whatever the guards and reviewers say, in whatever order the lanes run,   *)
(* and however often the worker dies, only documents that passed the three   *)
(* guards are released.                                                      *)
THEOREM GuardsCorrect == Spec => []ReleasedIsGuarded
<1>1. GuardInv => ReleasedIsGuarded
  BY DEF GuardInv
<1>2. QED
  BY <1>1, GuardInvariant, PTL

(***************************************************************************)
(* Drafts are bounded                                                      *)
(***************************************************************************)
(* Every request of a life of the worker is counted in its lane, which a     *)
(* snapshot may forget only together with the life that counted it.          *)
BudgetInv ==
    enforced =>
        \A l \in Lanes :
            /\ lane[l].attempts <= MaxAttempts
            /\ saved # Absent => saved.lane[l].attempts <= MaxAttempts
            /\ spent[l] <= MaxAttempts * crashes
                             + (IF phase = "crashed" THEN 0 ELSE lane[l].attempts)

(* A node that asks for no draft. *)
LEMMA BudgetKept ==
    ASSUME TypeOK, BudgetInv, UNCHANGED <<enforced, spent, crashes>>,
           \A l \in Lanes : lane'[l].attempts = lane[l].attempts,
           saved' = saved \/ saved' = Absent \/ saved'.lane = lane',
           (phase' = "crashed") <=> (phase = "crashed")
    PROVE  BudgetInv'
<1>1. ASSUME enforced, NEW l \in Lanes
      PROVE  /\ lane'[l].attempts <= MaxAttempts
             /\ saved' # Absent => saved'.lane[l].attempts <= MaxAttempts
             /\ spent'[l] <= MaxAttempts * crashes'
                              + (IF phase' = "crashed" THEN 0 ELSE lane'[l].attempts)
  BY <1>1 DEF BudgetInv
<1>2. QED
  BY <1>1 DEF BudgetInv

(* A lane asks for drafts within its budget: its own nodes,                  *)
LEMMA LaneBudget ==
    ASSUME ComposeAssumption, TypeOK, BudgetInv, NEW l \in Lanes, Lane(l)
    PROVE  BudgetInv'
<1> USE DEF TypeOK, StateOK, LaneStates
<1>1. CASE ComposerAsks(l)
  <2>1. /\ enforced => lane[l].attempts < MaxAttempts
        /\ UNCHANGED <<enforced, saved, crashes, phase>>
        /\ phase # "crashed"
    BY <1>1 DEF ComposerAsks, HasAttempt, config, run, Ready
  <2>2. /\ lane'[l].attempts = lane[l].attempts + 1 /\ spent'[l] = spent[l] + 1
        /\ \A k \in Lanes \ {l} : lane'[k] = lane[k] /\ spent'[k] = spent[k]
    BY <1>1 DEF ComposerAsks, JobOK
  <2>3. /\ MaxAttempts * crashes \in Nat /\ MaxAttempts \in Nat
        /\ \A k \in Lanes : lane[k].attempts \in Nat /\ spent[k] \in Nat
    BY DEF ComposeAssumption, JobOK
  <2>4. ASSUME enforced, NEW k \in Lanes
        PROVE  /\ lane'[k].attempts <= MaxAttempts
               /\ spent'[k] <= MaxAttempts * crashes + lane'[k].attempts
    BY <2>1, <2>2, <2>3, <2>4 DEF BudgetInv
  <2>5. QED
    BY <2>1, <2>4 DEF BudgetInv
<1>2. CASE \/ ComposerGivesUp(l) \/ ComposerRepeats(l) \/ ComposerFails(l)
           \/ ReviewerFails(l) \/ QARevisionFails(l) \/ QAEditorFails(l)
  <2>1. PICK n, why : Raises(n, why)
    BY <1>2 DEF ComposerGivesUp, ComposerRepeats, ComposerFails, ReviewerFails,
                QARevisionFails, QAEditorFails
  <2>2. \A k \in Lanes : lane'[k].attempts = lane[k].attempts
    BY <1>2 DEF ComposerGivesUp, ComposerRepeats, ComposerFails, ReviewerFails,
                QARevisionFails, QAEditorFails
  <2>3. QED
    BY <2>1, <2>2, BudgetKept DEF Raises, Ready, config
<1>3. CASE \/ ComposerAnswers(l) \/ StructureValidator(l) \/ ComplianceGuard(l)
           \/ FactualityGate(l) \/ Revision(l) \/ ReviewerSkips(l) \/ ReviewerAnswers(l)
           \/ QARevision(l) \/ QAEditor(l) \/ WaitForLane(l)
  <2>1. PICK n, nodes : Returns(n, nodes)
    BY <1>3 DEF ComposerAnswers, StructureValidator, ComplianceGuard, FactualityGate,
                Revision, ReviewerSkips, ReviewerAnswers, QARevision, QAEditor,
                WaitForLane, Passes
  <2>2. \A k \in Lanes : lane'[k].attempts = lane[k].attempts
    <3>1. CASE ComposerAnswers(l) \/ Revision(l) \/ QARevision(l) \/ QAEditor(l)
      BY <3>1 DEF ComposerAnswers, Revision, QARevision, QAEditor, Edit
    <3>2. CASE StructureValidator(l) \/ ComplianceGuard(l) \/ FactualityGate(l)
      <4>1. PICK pass : lane' = [lane EXCEPT ![l].passed = @ \cup pass]
        BY <3>2 DEF StructureValidator, ComplianceGuard, FactualityGate, Judge
      <4>2. QED
        BY <4>1
    <3>3. CASE ReviewerSkips(l) \/ ReviewerAnswers(l) \/ WaitForLane(l)
      BY <3>3 DEF ReviewerSkips, ReviewerAnswers, Reviewed, WaitForLane, Passes, state
    <3>4. QED
      BY <1>3, <3>1, <3>2, <3>3
  <2>3. saved' = saved \/ saved' = Absent \/ saved'.lane = lane'
    <3>1. Image'.lane = lane' /\ [Image' EXCEPT !.iterations = iterations + 1].lane = lane'
          /\ [Image' EXCEPT !.result = result].lane = lane'
      BY DEF Image
    <3>2. QED
      BY <1>3, <3>1 DEF ComposerAnswers, StructureValidator, ComplianceGuard,
                FactualityGate, Revision, ReviewerSkips, ReviewerAnswers, QARevision,
                QAEditor, WaitForLane, Passes, Snapshot
  <2>4. QED
    BY <2>1, <2>2, <2>3, BudgetKept DEF Returns, Ready, config, run
<1>4. QED
  BY <1>1, <1>2, <1>3 DEF Lane

(* and the nodes of all lanes.                                               *)
LEMMA SharedBudget ==
    ASSUME ComposeAssumption, TypeOK, BudgetInv, Shared \/ Crash \/ Resume
    PROVE  BudgetInv'
<1>1. CASE ContextAssembler \/ ComposeJoin \/ ComposeJoinWait \/ QAJoin \/ ReleaseGate
  <2>1. PICK n, nodes : Returns(n, nodes)
    BY <1>1 DEF ContextAssembler, ComposeJoin, ComposeJoinWait, QAJoin, ReleaseGate, Passes
  <2>2. UNCHANGED lane /\ (saved' = saved \/ saved' = Absent \/ saved'.lane = lane')
    BY <1>1 DEF ContextAssembler, ComposeJoin, ComposeJoinWait, QAJoin, ReleaseGate, Passes,
                state, Snapshot, Image
  <2>3. QED
    BY <2>1, <2>2, BudgetKept DEF Returns, Ready, config, run
<1>2. CASE QAJoinFails \/ ReleaseGateFails
  <2>1. PICK n, why : Raises(n, why)
    BY <1>2 DEF QAJoinFails, ReleaseGateFails
  <2>2. UNCHANGED lane
    BY <1>2 DEF QAJoinFails, ReleaseGateFails
  <2>3. QED
    BY <2>1, <2>2, BudgetKept DEF Raises, Ready, config
<1>3. CASE StepEnds \/ Release \/ FallsBack \/ Fails
  <2>1. UNCHANGED <<lane, saved, enforced, spent, crashes>>
        /\ phase # "crashed" /\ phase' # "crashed"
    BY <1>3 DEF StepEnds, Release, Merge, FallsBack, RunsAgain, StartsGraph, SameLanes,
                Fails, config, state
  <2>2. QED
    BY <2>1, BudgetKept
<1>4. CASE Crash
  <2>1. /\ UNCHANGED <<enforced, lane, spent>> /\ saved' \in {saved, Absent}
        /\ crashes' = crashes + 1 /\ phase' = "crashed" /\ phase # "crashed"
    BY <1>4 DEF Crash, config, state
  <2>2. MaxAttempts * crashes' = MaxAttempts * crashes + MaxAttempts
    BY <2>1 DEF ComposeAssumption, TypeOK, JobOK
  <2>3. MaxAttempts * crashes \in Nat /\ MaxAttempts \in Nat
        /\ \A l \in Lanes : lane[l].attempts \in Nat /\ spent[l] \in Nat
    BY DEF ComposeAssumption, TypeOK, StateOK, LaneStates, JobOK
  <2>4. ASSUME enforced, NEW l \in Lanes
        PROVE  spent'[l] <= MaxAttempts * crashes'
    BY <2>1, <2>2, <2>3, <2>4 DEF BudgetInv
  <2>5. MaxAttempts * crashes' + 0 = MaxAttempts * crashes'
    BY <2>2, <2>3
  <2>6. QED
    BY <2>1, <2>4, <2>5 DEF BudgetInv
<1>5. CASE Resume
  <2>1. /\ UNCHANGED <<enforced, spent, crashes>> /\ phase = "crashed" /\ phase' = "running"
        /\ lane' = Restored.lane /\ saved' \in {Restored, Absent}
    BY <1>5 DEF Resume, StartsGraph, Snapshot, config
  <2>2. \A l \in Lanes : enforced => Restored.lane[l].attempts <= MaxAttempts
    BY DEF Restored, Fresh, NewLane, BudgetInv, ComposeAssumption
  <2>3. \A l \in Lanes : Restored.lane[l].attempts \in Nat
    BY FreshType DEF Restored, TypeOK, JobOK, States, LaneStates
  <2>4. MaxAttempts * crashes \in Nat /\ \A l \in Lanes : spent[l] \in Nat
    BY DEF ComposeAssumption, TypeOK, JobOK
  <2>5. ASSUME enforced, NEW l \in Lanes
        PROVE  spent[l] <= MaxAttempts * crashes + Restored.lane[l].attempts
    BY <2>1, <2>3, <2>4, <2>5 DEF BudgetInv
  <2>6. QED
    BY <2>1, <2>2, <2>5 DEF BudgetInv
<1>6. QED
  BY <1>1, <1>2, <1>3, <1>4, <1>5 DEF Shared

(* So the count holds in every behaviour. *)
LEMMA BudgetInvariant == Spec => []BudgetInv
<1>1. Init => BudgetInv
  <2> SUFFICES ASSUME Init, NEW l \in Lanes
               PROVE  /\ lane[l].attempts <= MaxAttempts
                      /\ saved.lane[l].attempts <= MaxAttempts
                      /\ phase # "crashed"
                      /\ spent[l] <= MaxAttempts * crashes + lane[l].attempts
    BY DEF BudgetInv
  <2>1. MaxAttempts \in Nat /\ MaxAttempts * crashes = 0
    BY ComposeAssumption DEF Init, ComposeAssumption
  <2>2. lane[l].attempts = 0 /\ saved.lane[l].attempts = 0 /\ spent[l] = 0
    BY DEF Init, Fresh, NewLane
  <2>3. QED
    BY <2>1, <2>2 DEF Init
<1>2. TypeOK /\ BudgetInv /\ [Next]_vars => BudgetInv'
  <2> SUFFICES ASSUME TypeOK, BudgetInv, [Next]_vars PROVE BudgetInv'
    OBVIOUS
  <2>1. CASE UNCHANGED vars
    BY <2>1, BudgetKept DEF vars, config, state, sched, run
  <2>2. QED
    BY <2>1, LaneBudget, SharedBudget, ComposeAssumption DEF Next, Steps
<1>3. QED
  BY <1>1, <1>2, TypeCorrect, PTL DEF Spec

(* Where QA is enforced, no lane asks for more drafts than its limit, once   *)
(* for each life of the worker, whichever of the loops asks for them.        *)
THEOREM BudgetCorrect == Spec => []BudgetHolds
<1>1. TypeOK /\ BudgetInv => BudgetHolds
  <2> SUFFICES ASSUME TypeOK, BudgetInv, enforced, NEW l \in Lanes
               PROVE  spent[l] <= MaxAttempts * (1 + crashes)
    BY DEF BudgetHolds
  <2>1. MaxAttempts * (1 + crashes) = MaxAttempts * crashes + MaxAttempts
    BY ComposeAssumption DEF ComposeAssumption, TypeOK, JobOK
  <2>2. MaxAttempts * crashes \in Nat /\ MaxAttempts \in Nat
        /\ lane[l].attempts \in Nat /\ spent[l] \in Nat
    BY ComposeAssumption DEF ComposeAssumption, TypeOK, StateOK, LaneStates, JobOK
  <2>3. QED
    BY <2>1, <2>2 DEF BudgetInv
<1>2. QED
  BY <1>1, BudgetInvariant, TypeCorrect, PTL

(***************************************************************************)
(* Released documents and the verdict are the last of their lane           *)
(***************************************************************************)
(* The node lane l is at; Both for the nodes shared by the lanes. *)
At(l) == {n \in todo \cup next : n[2] = l}
Begun == <<"context", Both>> \notin todo

(* The draft in lane l answers its last request, and is as it was answered   *)
(* unless it was edited.                                                     *)
DraftIsLast(l) ==
    /\ lane[l].document \div 2 = spent[l]
    /\ ~lane[l].edited => lane[l].document = 2 * spent[l]

OutcomeIsLast(l) == MergedOutcome(l).document \div 2 = spent[l]

(* A lane that has left the graph, while nothing has been raised, or is      *)
(* about to, has handed over the draft of its last request.                  *)
DraftInv ==
    \A l \in Lanes :
        /\ \A x \in {"structure", "compliance", "factuality", "reviewer", "qaeditor"} :
               <<x, l>> \in At(l) => DraftIsLast(l)
        /\ \A x \in {"reviewer", "qaeditor", "wait"} :
               <<x, l>> \in At(l) => OutcomeIsLast(l)
        /\ phase = "running" /\ Begun /\ At(l) = {} => OutcomeIsLast(l)

(* A node of a lane leaves the places of the other lanes alone.              *)
LEMMA LaneAt ==
    ASSUME ComposeAssumption, TypeOK, OneNode, NEW l \in Lanes, NEW x, NEW y,
           Returns(<<x, l>>, {<<y, l>>})
    PROVE  /\ Begun /\ Begun' /\ <<x, l>> \in At(l) /\ At(l)' = {<<y, l>>}
           /\ \A k \in (Lanes \cup {Both}) \ {l} : At(k)' = At(k)
<1>1. l # Both /\ <<x, l>> \in todo /\ <<x, l>> \notin next
  BY DEF ComposeAssumption, OneNode, Returns, Ready
<1>2. todo' = todo \ {<<x, l>>} /\ next' = next \cup {<<y, l>>}
  BY DEF Returns, Follow
<1>3. \A n \in (todo \cup next) \ {<<x, l>>} : n[2] # l
  BY <1>1 DEF OneNode
<1>4. Begun /\ Begun'
  BY <1>1, <1>2 DEF OneNode, Start, Begun
<1>5. At(l)' = {<<y, l>>}
  <2>1. \A n : n \in todo' \cup next' /\ n[2] = l => n = <<y, l>>
    BY <1>1, <1>2, <1>3
  <2>2. <<y, l>> \in todo' \cup next' /\ <<y, l>>[2] = l
    BY <1>2
  <2>3. QED
    BY <2>1, <2>2 DEF At
<1>6. ASSUME NEW k, k # l PROVE At(k)' = At(k)
  BY <1>1, <1>2, <1>6 DEF At
<1>7. QED
  BY <1>1, <1>4, <1>5, <1>6 DEF At

(* So does an exception.                                                     *)
LEMMA RaisesAt ==
    ASSUME OneNode, NEW x, NEW l, NEW why, Raises(<<x, l>>, why)
    PROVE  /\ phase' = "raised" /\ UNCHANGED <<result, outcome, qa, update, spent>>
           /\ \A k : At(k)' \subseteq At(k)
           /\ l # Both => At(l)' = {}
<1>1. todo' = todo \ {<<x, l>>} /\ next' = next /\ <<x, l>> \in todo
  BY DEF Raises, Follow, Ready
<1>2. l # Both => \A n \in (todo \cup next) \ {<<x, l>>} : n[2] # l
  BY <1>1 DEF OneNode
<1>3. l # Both => <<x, l>> \notin next
  BY <1>1 DEF OneNode
<1>4. QED
  BY <1>1, <1>2, <1>3 DEF Raises, At

(* A node of one lane keeps the drafts of the others.                        *)
LEMMA LaneDraft ==
    ASSUME ComposeAssumption, TypeOK, OneNode, DraftInv, NEW l \in Lanes, NEW x, NEW y,
           Returns(<<x, l>>, {<<y, l>>}), UNCHANGED outcome,
           \A k \in Lanes \ {l} : lane'[k] = lane[k] /\ update'[k] = update[k],
           y \in {"structure", "compliance", "factuality", "reviewer", "qaeditor"}
               => DraftIsLast(l)',
           y \in {"reviewer", "qaeditor", "wait"} => OutcomeIsLast(l)'
    PROVE  DraftInv'
<1>1. /\ Begun /\ Begun' /\ At(l)' = {<<y, l>>}
      /\ \A k \in Lanes \ {l} : At(k)' = At(k)
      /\ UNCHANGED <<spent, phase>>
  BY LaneAt DEF Returns, run
<1>2. ASSUME NEW k \in Lanes \ {l}
      PROVE  (DraftIsLast(k)' <=> DraftIsLast(k)) /\ (OutcomeIsLast(k)' <=> OutcomeIsLast(k))
  BY <1>1, <1>2 DEF DraftIsLast, OutcomeIsLast, MergedOutcome
<1>3. ASSUME NEW k \in Lanes
      PROVE  /\ \A z \in {"structure", "compliance", "factuality", "reviewer", "qaeditor"} :
                    <<z, k>> \in At(k)' => DraftIsLast(k)'
             /\ \A z \in {"reviewer", "qaeditor", "wait"} :
                    <<z, k>> \in At(k)' => OutcomeIsLast(k)'
             /\ phase' = "running" /\ Begun' /\ At(k)' = {} => OutcomeIsLast(k)'
  <2>1. CASE k = l
    BY <1>1, <2>1
  <2>2. CASE k # l
    BY <1>1, <1>2, <2>2 DEF DraftInv
  <2>3. QED
    BY <2>1, <2>2
<1>4. QED
  BY <1>3 DEF DraftInv

(* What is released is the last draft: an exception,                         *)
LEMMA RaisesDraft ==
    ASSUME OneNode, DraftInv, NEW x, NEW l, NEW why, Raises(<<x, l>>, why),
           UNCHANGED lane \/ (l # Both /\ \A k \in Lanes \ {l} : lane'[k] = lane[k])
    PROVE  DraftInv'
<1>1. /\ phase' = "raised" /\ UNCHANGED <<outcome, update, spent>>
      /\ \A k : At(k)' \subseteq At(k)
      /\ l # Both => At(l)' = {}
  BY RaisesAt
<1>2. ASSUME NEW k \in Lanes, lane'[k] = lane[k]
      PROVE  (DraftIsLast(k)' <=> DraftIsLast(k)) /\ (OutcomeIsLast(k)' <=> OutcomeIsLast(k))
  BY <1>1, <1>2 DEF DraftIsLast, OutcomeIsLast, MergedOutcome
<1>3. ASSUME NEW k \in Lanes
      PROVE  /\ \A z \in {"structure", "compliance", "factuality", "reviewer", "qaeditor"} :
                    <<z, k>> \in At(k)' => DraftIsLast(k)'
             /\ \A z \in {"reviewer", "qaeditor", "wait"} :
                    <<z, k>> \in At(k)' => OutcomeIsLast(k)'
  BY <1>1, <1>2 DEF DraftInv
<1>4. QED
  BY <1>1, <1>3 DEF DraftInv

(* the composer,                                                             *)
LEMMA DraftingDraft ==
    ASSUME ComposeAssumption, TypeOK, OneNode, DraftInv, NEW l \in Lanes,
           \/ ComposerAsks(l) \/ ComposerGivesUp(l) \/ ComposerAnswers(l)
           \/ ComposerRepeats(l) \/ ComposerFails(l)
    PROVE  DraftInv'
<1> USE DEF TypeOK, StateOK, JobOK
<1>1. CASE ComposerAsks(l)
  <2>1. /\ UNCHANGED <<todo, next, phase, update, outcome>> /\ <<"composer", l>> \in todo
        /\ \A k \in Lanes \ {l} : lane'[k] = lane[k] /\ spent'[k] = spent[k]
    BY <1>1 DEF ComposerAsks, run, Ready
  <2>2. /\ \A k \in Lanes : At(k)' = At(k)
        /\ \A n \in At(l) : n = <<"composer", l>>
        /\ At(l) # {}
    BY <2>1 DEF At, OneNode, ComposeAssumption
  <2>3. ASSUME NEW k \in Lanes \ {l}
        PROVE  /\ DraftIsLast(k)' <=> DraftIsLast(k)
               /\ OutcomeIsLast(k)' <=> OutcomeIsLast(k)
    BY <2>1, <2>3 DEF DraftIsLast, OutcomeIsLast, MergedOutcome
  <2>4. ASSUME NEW k \in Lanes
        PROVE  /\ \A z \in {"structure", "compliance", "factuality", "reviewer", "qaeditor"} :
                      <<z, k>> \in At(k)' => DraftIsLast(k)'
               /\ \A z \in {"reviewer", "qaeditor", "wait"} :
                      <<z, k>> \in At(k)' => OutcomeIsLast(k)'
               /\ phase' = "running" /\ Begun' /\ At(k)' = {} => OutcomeIsLast(k)'
    <3>1. CASE k = l
      BY <2>2, <3>1
    <3>2. CASE k # l
      BY <2>1, <2>2, <2>3, <3>2 DEF DraftInv, Begun
    <3>3. QED
      BY <3>1, <3>2
  <2>5. QED
    BY <2>4 DEF DraftInv
<1>2. CASE ComposerGivesUp(l) \/ ComposerRepeats(l) \/ ComposerFails(l)
  <2>1. PICK why : Raises(<<"composer", l>>, why)
    BY <1>2 DEF ComposerGivesUp, ComposerRepeats, ComposerFails
  <2>2. \A k \in Lanes \ {l} : lane'[k] = lane[k]
    BY <1>2 DEF ComposerGivesUp, ComposerRepeats, ComposerFails
  <2>3. QED
    BY <2>1, <2>2, RaisesDraft DEF ComposeAssumption
<1>3. CASE ComposerAnswers(l)
  <2>1. /\ \A k \in Lanes \ {l} : lane'[k] = lane[k]
        /\ UNCHANGED <<update, outcome, spent>>
        /\ Returns(<<"composer", l>>, {<<"structure", l>>})
    BY <1>3 DEF ComposerAnswers, Returns
  <2>2. lane'[l].document = 2 * spent[l]
    BY <1>3 DEF ComposerAnswers, LaneStates
  <2>3. spent[l] \in Nat
    OBVIOUS
  <2>4. DraftIsLast(l)'
    BY <2>1, <2>2, <2>3 DEF DraftIsLast
  <2>5. QED
    BY <2>1, <2>4, LaneDraft
<1>4. QED
  BY <1>1, <1>2, <1>3

(* the guards,                                                               *)
LEMMA GuardsDraft ==
    ASSUME ComposeAssumption, TypeOK, OneNode, DraftInv, NEW l \in Lanes,
           StructureValidator(l) \/ ComplianceGuard(l) \/ FactualityGate(l) \/ Revision(l)
    PROVE  DraftInv'
<1>1. /\ UNCHANGED <<outcome, spent>>
      /\ \A k \in Lanes \ {l} : lane'[k] = lane[k] /\ update'[k] = update[k]
  <2>1. UNCHANGED lane \/ \E r : lane' = [lane EXCEPT ![l] = r]
    BY DEF StructureValidator, ComplianceGuard, FactualityGate, Revision, Judge
  <2>2. UNCHANGED update \/ \E r : update' = [update EXCEPT ![l] = r]
    BY DEF StructureValidator, ComplianceGuard, FactualityGate, Revision
  <2>3. UNCHANGED <<outcome, spent>>
    BY DEF StructureValidator, ComplianceGuard, FactualityGate, Revision, Returns
  <2>4. QED
    BY <2>1, <2>2, <2>3 DEF TypeOK, StateOK, ScheduleOK
<1>2. ASSUME NEW x \in {"structure", "compliance", "factuality"}, NEW g,
             <<x, l>> \in At(l), Judge(l, g)
      PROVE  DraftIsLast(l)'
  <2>1. PICK pass : lane' = [lane EXCEPT ![l].passed = @ \cup pass]
    BY <1>2 DEF Judge
  <2>2. lane'[l].document = lane[l].document /\ lane'[l].edited = lane[l].edited
    BY <2>1 DEF TypeOK, StateOK, LaneStates
  <2>3. DraftIsLast(l)
    BY <1>2 DEF DraftInv
  <2>4. QED
    BY <1>1, <2>2, <2>3 DEF DraftIsLast
<1>3. CASE StructureValidator(l)
  <2>1. <<"structure", l>> \in At(l)
    BY <1>3, LaneAt DEF StructureValidator
  <2>2. QED
    BY <1>1, <1>2, <1>3, <2>1, LaneDraft DEF StructureValidator
<1>4. CASE ComplianceGuard(l)
  <2>1. <<"compliance", l>> \in At(l)
    BY <1>4, LaneAt DEF ComplianceGuard
  <2>2. QED
    BY <1>1, <1>2, <1>4, <2>1, LaneDraft DEF ComplianceGuard
<1>5. CASE Revision(l)
  BY <1>1, <1>5, LaneDraft DEF Revision
<1>6. CASE FactualityGate(l)
  <2>1. CASE AllPass(lane'[l].passed)
    <3>1. Returns(<<"factuality", l>>, {<<"reviewer", l>>}) /\ update'[l] = Outcome(l)'
      BY <1>6, <2>1 DEF FactualityGate, TypeOK, ScheduleOK
    <3>2. DraftIsLast(l)'
      BY <1>2, <1>6, <3>1, LaneAt DEF FactualityGate
    <3>3. Outcome(l)' \in Outcomes
      BY <1>6, GuardType DEF TypeOK, StateOK, Outcome, Outcomes, LaneStates
    <3>4. OutcomeIsLast(l)'
      BY <3>1, <3>2, <3>3 DEF OutcomeIsLast, MergedOutcome, Outcome, DraftIsLast,
                              ComposeAssumption
    <3>5. QED
      BY <1>1, <3>1, <3>2, <3>4, LaneDraft
  <2>2. CASE ~AllPass(lane'[l].passed)
    BY <1>1, <1>6, <2>2, LaneDraft DEF FactualityGate
  <2>3. QED
    BY <2>1, <2>2
<1>7. QED
  BY <1>3, <1>4, <1>5, <1>6

(* reviewers, revision and editor,                                           *)
LEMMA ReviewDraft ==
    ASSUME ComposeAssumption, TypeOK, OneNode, DraftInv, NEW l \in Lanes,
           \/ ReviewerSkips(l) \/ ReviewerAnswers(l) \/ ReviewerFails(l)
           \/ QARevision(l) \/ QARevisionFails(l) \/ QAEditor(l) \/ QAEditorFails(l)
           \/ WaitForLane(l)
    PROVE  DraftInv'
<1>1. CASE ReviewerSkips(l)
  <2>1. /\ UNCHANGED <<lane, outcome, spent>> /\ update' = [update EXCEPT ![l] = Outcome(l)]
        /\ Returns(<<"reviewer", l>>, {<<"wait", l>>})
    BY <1>1 DEF ReviewerSkips, Reviewed, Returns
  <2>2. DraftIsLast(l)
    BY <2>1, LaneAt DEF DraftInv
  <2>3. Outcome(l) # Keep /\ update'[l] = Outcome(l)
    BY <2>1, OutcomeType DEF ComposeAssumption, TypeOK, ScheduleOK
  <2>4. OutcomeIsLast(l)'
    BY <2>1, <2>2, <2>3 DEF OutcomeIsLast, MergedOutcome, Outcome, DraftIsLast
  <2>5. \A k \in Lanes \ {l} : lane'[k] = lane[k] /\ update'[k] = update[k]
    BY <2>1 DEF TypeOK, ScheduleOK
  <2>6. QED
    BY <2>1, <2>4, <2>5, LaneDraft
<1>2. CASE ReviewerAnswers(l)
  <2>1. PICK a \in Actions : /\ Returns(<<"reviewer", l>>, {<<AfterReview(l, a), l>>})
                             /\ Reviewed(l, a)
                             /\ UNCHANGED update
    BY <1>2 DEF ReviewerAnswers
  <2>2. UNCHANGED <<lane, outcome, spent, update>>
    BY <2>1 DEF Reviewed, Returns
  <2>3. DraftIsLast(l) /\ OutcomeIsLast(l)
    BY <2>1, LaneAt DEF DraftInv
  <2>4. DraftIsLast(l)' /\ OutcomeIsLast(l)'
    BY <2>2, <2>3 DEF DraftIsLast, OutcomeIsLast, MergedOutcome
  <2>5. QED
    BY <2>1, <2>2, <2>4, LaneDraft
<1>3. CASE ReviewerFails(l) \/ QARevisionFails(l) \/ QAEditorFails(l)
  <2>1. PICK x, why : Raises(<<x, l>>, why)
    BY <1>3 DEF ReviewerFails, QARevisionFails, QAEditorFails
  <2>2. UNCHANGED lane
    BY <1>3 DEF ReviewerFails, QARevisionFails, QAEditorFails
  <2>3. QED
    BY <2>1, <2>2, RaisesDraft
<1>4. CASE QARevision(l)
  <2>1. /\ UNCHANGED outcome
        /\ \A k \in Lanes \ {l} : lane'[k] = lane[k] /\ update'[k] = update[k]
    BY <1>4 DEF QARevision, TypeOK, StateOK, ScheduleOK
  <2>2. QED
    BY <1>4, <2>1, LaneDraft DEF QARevision
<1>5. CASE QAEditor(l)
  <2>1. /\ UNCHANGED <<outcome, update, spent>>
        /\ \A k \in Lanes \ {l} : lane'[k] = lane[k]
        /\ lane'[l].document = lane[l].document + 1 /\ lane'[l].edited
        /\ Returns(<<"qaeditor", l>>, {<<"reviewer", l>>})
    BY <1>5 DEF QAEditor, Edit, Returns, TypeOK, StateOK, LaneStates
  <2>2. DraftIsLast(l) /\ OutcomeIsLast(l)
    BY <2>1, LaneAt DEF DraftInv
  <2>3. lane[l].document = 2 * spent[l] /\ spent[l] \in Nat
    BY <1>5, <2>2 DEF QAEditor, DraftIsLast, TypeOK, JobOK
  <2>4. DraftIsLast(l)'
    BY <2>1, <2>3 DEF DraftIsLast
  <2>5. OutcomeIsLast(l)'
    BY <2>1, <2>2 DEF OutcomeIsLast, MergedOutcome
  <2>6. QED
    BY <2>1, <2>4, <2>5, LaneDraft
<1>6. CASE WaitForLane(l)
  <2>1. /\ Returns(<<"wait", l>>, {<<"join", Both>>})
        /\ UNCHANGED <<lane, update, outcome, spent, phase>>
    BY <1>6 DEF WaitForLane, Passes, state, Returns, run
  <2>2. <<"wait", l>> \in todo \cup next /\ <<"wait", l>> \in At(l) /\ Begun
    BY <2>1 DEF Returns, Ready, At, OneNode, Start, Begun, ComposeAssumption
  <2>3. OutcomeIsLast(l)
    BY <2>2 DEF DraftInv
  <2>4. \A k \in Lanes : At(k)' \subseteq At(k) /\ (k # l => At(k)' = At(k))
    BY <2>1 DEF Returns, Follow, At, ComposeAssumption
  <2>5. ASSUME NEW k \in Lanes
        PROVE  (DraftIsLast(k)' <=> DraftIsLast(k)) /\ (OutcomeIsLast(k)' <=> OutcomeIsLast(k))
    BY <2>1, <2>5 DEF DraftIsLast, OutcomeIsLast, MergedOutcome
  <2>6. QED
    BY <2>1, <2>2, <2>3, <2>4, <2>5 DEF DraftInv
<1>7. QED
  BY <1>1, <1>2, <1>3, <1>4, <1>5, <1>6

(* The nodes and steps that belong to no lane move no lane, *)
LEMMA SharedAt ==
    ASSUME ComposeAssumption, OneNode, NEW x, x # "context", NEW y,
           Returns(<<x, Both>>, {<<y, Both>>}) \/ Returns(<<x, Both>>, {})
    PROVE  /\ \A l \in Lanes : At(l)' = At(l)
           /\ Begun /\ Begun'
           /\ UNCHANGED <<phase, spent>>
<1>1. <<x, Both>> \in todo /\ todo' = todo \ {<<x, Both>>}
      /\ (next' = next \cup {<<y, Both>>} \/ next' = next)
  BY DEF Returns, Follow, Ready
<1>2. \A l \in Lanes : At(l)' = At(l)
  BY <1>1 DEF At, ComposeAssumption
<1>3. Begun /\ Begun'
  BY <1>1 DEF Begun, OneNode, Start
<1>4. QED
  BY <1>2, <1>3 DEF Returns, run

(* a step that ends keeps them where they are, *)
LEMMA StepAt ==
    ASSUME OneNode, StepEnds
    PROVE  (\A l : At(l)' = At(l)) /\ Begun /\ Begun'
BY DEF StepEnds, At, Begun, OneNode

(* and the context node has none of them. *)
LEMMA StartAt ==
    ASSUME ComposeAssumption, todo = Start, next = {}
    PROVE  (\A l \in Lanes : At(l) = {}) /\ ~Begun
BY DEF Start, At, Begun, ComposeAssumption

(* the context,                                                              *)
LEMMA ContextAt ==
    ASSUME ComposeAssumption, OneNode, ContextAssembler
    PROVE  \A l \in Lanes : /\ At(l)' # {}
                            /\ \A z : <<z, l>> \in At(l)' => z = "composer"
<1>1. todo' = {} /\ next' = {<<"composer", l>> : l \in Lanes}
  BY DEF ContextAssembler, Returns, Ready, Follow, OneNode, Start
<1>2. ASSUME NEW l \in Lanes PROVE <<"composer", l>> \in At(l)'
  BY <1>1 DEF At
<1>3. ASSUME NEW l \in Lanes, NEW z, <<z, l>> \in At(l)' PROVE z = "composer"
  <2>1. PICK k \in Lanes : <<z, l>> = <<"composer", k>>
    BY <1>1, <1>3 DEF At
  <2>2. QED
    BY <2>1
<1>4. QED
  BY <1>2, <1>3

(* and the nodes of all lanes.                                               *)
LEMMA SharedDraft ==
    ASSUME ComposeAssumption, TypeOK, OneNode, DraftInv, Shared \/ Crash \/ Resume
    PROVE  DraftInv'
<1>1. CASE ContextAssembler
  <2>1. \A l \in Lanes : At(l)' # {} /\ \A z : <<z, l>> \in At(l)' => z = "composer"
    BY <1>1, ContextAt
  <2>2. QED
    BY <2>1 DEF DraftInv
<1>2. CASE ComposeJoin \/ ComposeJoinWait \/ QAJoin \/ ReleaseGate
  <2>1. UNCHANGED <<lane, update, outcome>>
    BY <1>2 DEF ComposeJoin, ComposeJoinWait, QAJoin, ReleaseGate, Passes, state
  <2>2. /\ \A l \in Lanes : At(l)' = At(l)
        /\ Begun /\ Begun'
        /\ UNCHANGED <<phase, spent>>
    BY <1>2, SharedAt DEF ComposeJoin, ComposeJoinWait, QAJoin, ReleaseGate, Passes
  <2>3. ASSUME NEW k \in Lanes
        PROVE  (DraftIsLast(k)' <=> DraftIsLast(k)) /\ (OutcomeIsLast(k)' <=> OutcomeIsLast(k))
    BY <2>1, <2>2 DEF DraftIsLast, OutcomeIsLast, MergedOutcome
  <2>4. QED
    BY <2>2, <2>3 DEF DraftInv
<1>3. CASE QAJoinFails \/ ReleaseGateFails
  BY <1>3, RaisesDraft DEF QAJoinFails, ReleaseGateFails
<1>4. CASE StepEnds
  <2>1. /\ UNCHANGED <<lane, spent>> /\ phase = "running"
        /\ (\A l : At(l)' = At(l)) /\ Begun /\ Begun'
    BY <1>4, StepAt DEF StepEnds, Merge
  <2>2. \A k \in Lanes : MergedOutcome(k)' = MergedOutcome(k)
    BY <1>4 DEF StepEnds, Merge, MergedOutcome, Nothing
  <2>3. ASSUME NEW k \in Lanes
        PROVE  (DraftIsLast(k)' <=> DraftIsLast(k)) /\ (OutcomeIsLast(k)' <=> OutcomeIsLast(k))
    BY <2>1, <2>2 DEF DraftIsLast, OutcomeIsLast
  <2>4. QED
    BY <2>1, <2>3 DEF DraftInv
<1>5. CASE Release
  <2>1. (\A l \in Lanes : At(l)' = {}) /\ phase' # "running"
    BY <1>5 DEF Release, At
  <2>2. QED
    BY <2>1 DEF DraftInv
<1>6. CASE FallsBack \/ Resume
  <2>1. (\A l \in Lanes : At(l)' = {}) /\ ~Begun'
    BY <1>6 DEF FallsBack, RunsAgain, Resume, StartsGraph, Start, At, Begun, ComposeAssumption
  <2>2. QED
    BY <2>1 DEF DraftInv
<1>7. CASE Fails \/ Crash
  <2>1. UNCHANGED <<todo, next, lane, update, outcome, spent>> /\ phase' # "running"
    BY <1>7 DEF Fails, Crash, state, sched
  <2>2. QED
    BY <2>1 DEF DraftInv, At, DraftIsLast, OutcomeIsLast, MergedOutcome
<1>8. QED
  BY <1>1, <1>2, <1>3, <1>4, <1>5, <1>6, <1>7 DEF Shared

(* Nothing but Release releases, and nothing happens after it. *)
LEMMA OnlyRelease ==
    ASSUME [Next]_vars
    PROVE  /\ phase' = "released" /\ phase # "released" => Release
           /\ phase = "released" => UNCHANGED <<outcome, qa, result, spent, phase>>
<1>1. ASSUME NEW n, NEW nodes, Returns(n, nodes)
      PROVE  phase' # "released" /\ phase # "released"
  BY <1>1 DEF Returns, Ready, run
<1>2. ASSUME NEW n, NEW why, Raises(n, why)
      PROVE  phase' # "released" /\ phase # "released"
  BY <1>2 DEF Raises, Ready
<1>3. ASSUME NEW l \in Lanes, Lane(l) PROVE phase' # "released" /\ phase # "released"
  <2>1. CASE ComposerAsks(l)
    BY <2>1 DEF ComposerAsks, Ready, run
  <2>2. QED
    BY <1>1, <1>2, <1>3, <2>1
    DEF Lane, ComposerGivesUp, ComposerAnswers, ComposerRepeats, ComposerFails,
        StructureValidator, ComplianceGuard, FactualityGate, Revision, ReviewerSkips,
        ReviewerAnswers, ReviewerFails, QARevision, QARevisionFails, QAEditor,
        QAEditorFails, WaitForLane, Passes
<1>4. ASSUME Shared PROVE phase # "released" /\ (phase' = "released" => Release)
  BY <1>1, <1>2, <1>4
  DEF Shared, ContextAssembler, ComposeJoin, ComposeJoinWait, QAJoin, QAJoinFails,
      ReleaseGate, ReleaseGateFails, Passes, StepEnds, Release, FallsBack, RunsAgain,
      StartsGraph, Fails
<1>5. ASSUME Crash \/ Resume PROVE phase # "released" /\ phase' # "released"
  BY <1>5 DEF Crash, Resume, StartsGraph
<1>6. CASE UNCHANGED vars
  BY <1>6 DEF vars, state, run
<1>7. QED
  BY <1>3, <1>4, <1>5, <1>6 DEF Next, Steps

(* What is released answers the last request of its lane, although an editor *)
(* may have changed it, a snapshot may hold an older outcome, and a run that *)
(* was abandoned left its lanes to the next.                                 *)
THEOREM LastDraftsCorrect == Spec => []ReleasedIsLastDraft
<1>1. Init => DraftInv /\ ReleasedIsLastDraft
  BY StartAt, ComposeAssumption
  DEF Init, Start, OneNode, DraftInv, ReleasedIsLastDraft, ComposeAssumption
<1>2. TypeOK /\ GuardInv /\ DraftInv /\ [Next]_vars => DraftInv'
  <2> SUFFICES ASSUME TypeOK, OneNode, DraftInv, [Next]_vars PROVE DraftInv'
    BY DEF GuardInv
  <2>1. CASE UNCHANGED vars
    BY <2>1 DEF vars, state, sched, run, DraftInv, At, Begun, DraftIsLast, OutcomeIsLast,
                MergedOutcome
  <2>2. QED
    BY <2>1, DraftingDraft, GuardsDraft, ReviewDraft, SharedDraft, ComposeAssumption
    DEF Next, Steps, Lane
<1>3. TypeOK /\ DraftInv /\ ReleasedIsLastDraft /\ [Next]_vars => ReleasedIsLastDraft'
  <2> SUFFICES ASSUME TypeOK, DraftInv, ReleasedIsLastDraft, [Next]_vars,
                      phase' = "released", NEW l \in Lanes
               PROVE  outcome'[l].document \div 2 = spent'[l]
    BY DEF ReleasedIsLastDraft
  <2>1. CASE phase = "released"
    BY <2>1, OnlyRelease DEF ReleasedIsLastDraft
  <2>2. CASE Release
    <3>1. At(l) = {} /\ Begun /\ phase = "running"
      BY <2>2 DEF Release, At, Begun
    <3>2. outcome'[l] = MergedOutcome(l) /\ spent'[l] = spent[l]
      BY <2>2 DEF Release, Merge
    <3>3. QED
      BY <3>1, <3>2 DEF DraftInv, OutcomeIsLast
  <2>3. QED
    BY <2>1, <2>2, OnlyRelease
<1>4. QED
  BY <1>1, <1>2, <1>3, TypeCorrect, GuardInvariant, PTL DEF Spec

(* The joint verdict is that of the last reviews: *)
VerdictInv ==
    (* a lane that has left the graph has a review, *)
    /\ \A l \in Lanes :
          <<"wait", l>> \in At(l) \/ (phase = "running" /\ Begun /\ At(l) = {})
              => result[l] # Absent
    (* and once all have, they are joined or about to be. *)
    /\ phase = "running" /\ Begun /\ (\A l \in Lanes : At(l) = {})
          => \/ qa \in {Absent, result}
             \/ <<"join", Both>> \in At(Both) \/ <<"qajoin", Both>> \in At(Both)

(* Steps that keep document and outcome of a lane keep its verdict.          *)
LEMMA LaneVerdict ==
    ASSUME ComposeAssumption, TypeOK, OneNode, VerdictInv, NEW l \in Lanes, NEW x, NEW y,
           Returns(<<x, l>>, {<<y, l>>}),
           \A k \in Lanes \ {l} : result'[k] = result[k],
           y = "wait" => result'[l] # Absent
    PROVE  VerdictInv'
<1>1. /\ Begun /\ Begun' /\ At(l)' = {<<y, l>>}
      /\ \A k \in Lanes \ {l} : At(k)' = At(k)
      /\ UNCHANGED phase
  BY LaneAt DEF Returns, run
<1>2. ASSUME NEW k \in Lanes,
             <<"wait", k>> \in At(k)' \/ (phase' = "running" /\ Begun' /\ At(k)' = {})
      PROVE  result'[k] # Absent
  <2>1. CASE k = l
    BY <1>1, <1>2, <2>1
  <2>2. CASE k # l
    BY <1>1, <1>2, <2>2 DEF VerdictInv
  <2>3. QED
    BY <2>1, <2>2
<1>3. ~ \A k \in Lanes : At(k)' = {}
  BY <1>1
<1>4. QED
  BY <1>2, <1>3 DEF VerdictInv

(* The verdict is that of the last reviews: an exception,                    *)
LEMMA RaisesVerdict ==
    ASSUME OneNode, VerdictInv, NEW x, NEW l, NEW why, Raises(<<x, l>>, why)
    PROVE  VerdictInv'
BY RaisesAt DEF VerdictInv

(* the nodes of a lane,                                                      *)
LEMMA LanesVerdict ==
    ASSUME ComposeAssumption, TypeOK, OneNode, VerdictInv, NEW l \in Lanes, Lane(l)
    PROVE  VerdictInv'
<1>1. CASE ComposerAsks(l)
  BY <1>1 DEF ComposerAsks, run, VerdictInv, At, Begun
<1>2. CASE \/ ComposerGivesUp(l) \/ ComposerRepeats(l) \/ ComposerFails(l)
           \/ ReviewerFails(l) \/ QARevisionFails(l) \/ QAEditorFails(l)
  BY <1>2, RaisesVerdict
  DEF ComposerGivesUp, ComposerRepeats, ComposerFails, ReviewerFails, QARevisionFails,
      QAEditorFails
<1>3. CASE \/ ComposerAnswers(l) \/ StructureValidator(l) \/ ComplianceGuard(l)
           \/ FactualityGate(l) \/ Revision(l)
  <2>1. UNCHANGED result
    BY <1>3 DEF ComposerAnswers, StructureValidator, ComplianceGuard, FactualityGate, Revision
  <2>2. PICK x, y \in {"composer", "structure", "compliance", "factuality", "revision",
                       "reviewer"} : Returns(<<x, l>>, {<<y, l>>})
    BY <1>3 DEF ComposerAnswers, StructureValidator, ComplianceGuard, FactualityGate, Revision
  <2>3. QED
    BY <2>1, <2>2, LaneVerdict
<1>4. CASE ReviewerSkips(l) \/ ReviewerAnswers(l)
  <2>0. PICK a \in Actions :
            \E y \in {"wait", AfterReview(l, a)} : /\ Returns(<<"reviewer", l>>, {<<y, l>>})
                                                  /\ Reviewed(l, a)
    BY <1>4 DEF ReviewerSkips, ReviewerAnswers, Actions
  <2>1. PICK y \in {"wait", AfterReview(l, a)} : /\ Returns(<<"reviewer", l>>, {<<y, l>>})
                                                /\ Reviewed(l, a)
    BY <2>0
  <2>2. [action |-> a, document |-> lane[l].document] \in Results
    BY DEF TypeOK, StateOK, LaneStates, Results
  <2>3. /\ \A k \in Lanes \ {l} : result'[k] = result[k]
        /\ result'[l] # Absent
    BY <2>1, <2>2 DEF Reviewed, TypeOK, StateOK, ComposeAssumption
  <2>4. QED
    BY <2>1, <2>3, LaneVerdict
<1>5. CASE QARevision(l) \/ QAEditor(l)
  <2>1. PICK x, y \in {"qarevision", "qaeditor", "composer", "reviewer"} :
            Returns(<<x, l>>, {<<y, l>>})
    BY <1>5 DEF QARevision, QAEditor
  <2>2. \A k \in Lanes \ {l} : result'[k] = result[k]
    BY <1>5 DEF QARevision, QAEditor, TypeOK, StateOK
  <2>3. QED
    BY <2>1, <2>2, LaneVerdict
<1>6. CASE WaitForLane(l)
  <2>1. /\ Returns(<<"wait", l>>, {<<"join", Both>>})
        /\ UNCHANGED <<result, qa, phase>>
    BY <1>6 DEF WaitForLane, Passes, state, Returns, run
  <2>2. <<"wait", l>> \in todo \cup next /\ <<"wait", l>> \in At(l) /\ Begun
    BY <2>1 DEF Returns, Ready, At, OneNode, Start, Begun, ComposeAssumption
  <2>3. /\ \A k \in Lanes : At(k)' \subseteq At(k) /\ (k # l => At(k)' = At(k))
        /\ <<"join", Both>> \in At(Both)'
    BY <2>1 DEF Returns, Follow, At, ComposeAssumption
  <2>4. QED
    BY <2>1, <2>2, <2>3 DEF VerdictInv
<1>7. QED
  BY <1>1, <1>2, <1>3, <1>4, <1>5, <1>6 DEF Lane

(* and the nodes of all lanes.                                               *)
LEMMA SharedVerdict ==
    ASSUME ComposeAssumption, TypeOK, OneNode, VerdictInv, Shared \/ Crash \/ Resume
    PROVE  VerdictInv'
<1>1. CASE ContextAssembler
  <2>1. \A l \in Lanes : At(l)' # {} /\ \A z : <<z, l>> \in At(l)' => z = "composer"
    BY <1>1, ContextAt
  <2>2. QED
    BY <2>1 DEF VerdictInv, ComposeAssumption
<1>2. CASE ComposeJoin \/ ComposeJoinWait \/ QAJoin \/ ReleaseGate
  <2>1. PICK x \in {"join", "joinwait", "qajoin", "release"},
             y \in {"joinwait", "qajoin", "release"} :
            Returns(<<x, Both>>, {<<y, Both>>}) \/ Returns(<<x, Both>>, {})
    BY <1>2 DEF ComposeJoin, ComposeJoinWait, QAJoin, ReleaseGate, Passes, JoinRoute
  <2>2. /\ \A l \in Lanes : At(l)' = At(l)
        /\ Begun /\ Begun'
        /\ UNCHANGED <<phase, spent>>
    BY <2>1, SharedAt
  <2>3. UNCHANGED result
    BY <1>2 DEF ComposeJoin, ComposeJoinWait, QAJoin, ReleaseGate, Passes, state
  <2>4. CASE ComposeJoin
    <3>1. UNCHANGED qa /\ Follow(<<"join", Both>>, {<<JoinRoute, Both>>})
      BY <2>4 DEF ComposeJoin, Passes, Returns, state
    <3>2. phase = "running" /\ (\A l \in Lanes : At(l) = {}) => JoinRoute = "qajoin"
      BY <2>2 DEF VerdictInv, JoinRoute, AllReviewed
    <3>3. JoinRoute = "qajoin" => <<"qajoin", Both>> \in At(Both)'
      BY <3>1 DEF Follow, At
    <3>4. QED
      BY <2>2, <2>3, <3>1, <3>2, <3>3 DEF VerdictInv
  <2>5. CASE QAJoin
    BY <2>2, <2>3, <2>5 DEF QAJoin, VerdictInv
  <2>6. CASE ComposeJoinWait \/ ReleaseGate
    <3>1. UNCHANGED qa
      BY <2>6 DEF ComposeJoinWait, ReleaseGate, Passes, state
    <3>2. \A z \in {"join", "qajoin"} : <<z, Both>> \in At(Both) => <<z, Both>> \in At(Both)'
      BY <2>6 DEF ComposeJoinWait, ReleaseGate, Passes, Returns, Follow, At
    <3>3. QED
      BY <2>2, <2>3, <3>1, <3>2 DEF VerdictInv
  <2>7. QED
    BY <1>2, <2>4, <2>5, <2>6
<1>3. CASE QAJoinFails \/ ReleaseGateFails
  BY <1>3, RaisesVerdict DEF QAJoinFails, ReleaseGateFails
<1>4. CASE StepEnds
  <2>1. /\ UNCHANGED <<result, qa>> /\ phase = "running"
        /\ (\A l : At(l)' = At(l)) /\ Begun /\ Begun'
    BY <1>4, StepAt DEF StepEnds, Merge
  <2>2. QED
    BY <2>1 DEF VerdictInv
<1>5. CASE Release \/ Fails \/ Crash
  <2>1. UNCHANGED <<todo, next, result>> /\ phase' # "running"
    BY <1>5 DEF Release, Merge, Fails, Crash, state, sched
  <2>2. QED
    BY <2>1 DEF VerdictInv, At
<1>6. CASE FallsBack \/ Resume
  <2>1. (\A l \in Lanes : At(l)' = {}) /\ ~Begun'
    BY <1>6 DEF FallsBack, RunsAgain, Resume, StartsGraph, Start, At, Begun, ComposeAssumption
  <2>2. QED
    BY <2>1 DEF VerdictInv
<1>7. QED
  BY <1>1, <1>2, <1>3, <1>4, <1>5, <1>6 DEF Shared

(* The verdict written with the documents is that of the last reviews, in    *)
(* whatever order the lanes reach the join and however often they leave it.  *)
THEOREM VerdictsCorrect == Spec => []VerdictIsCurrent
<1>1. Init => VerdictInv /\ VerdictIsCurrent
  BY StartAt, ComposeAssumption DEF Init, VerdictInv, VerdictIsCurrent
<1>2. TypeOK /\ GuardInv /\ VerdictInv /\ [Next]_vars => VerdictInv'
  <2> SUFFICES ASSUME TypeOK, OneNode, VerdictInv, [Next]_vars PROVE VerdictInv'
    BY DEF GuardInv
  <2>1. CASE UNCHANGED vars
    BY <2>1 DEF vars, state, sched, run, VerdictInv, At, Begun
  <2>2. QED
    BY <2>1, LanesVerdict, SharedVerdict, ComposeAssumption DEF Next, Steps
<1>3. VerdictInv /\ VerdictIsCurrent /\ [Next]_vars => VerdictIsCurrent'
  <2> SUFFICES ASSUME VerdictInv, VerdictIsCurrent, [Next]_vars, phase' = "released"
               PROVE  qa' = result'
    BY DEF VerdictIsCurrent
  <2>1. CASE phase = "released"
    BY <2>1, OnlyRelease DEF VerdictIsCurrent
  <2>2. CASE Release
    <3>1. (\A l : At(l) = {}) /\ Begun /\ phase = "running"
      BY <2>2 DEF Release, At, Begun
    <3>2. qa # Absent /\ UNCHANGED <<qa, result>>
      BY <2>2 DEF Release, Merge
    <3>3. QED
      BY <3>1, <3>2 DEF VerdictInv
  <2>3. QED
    BY <2>1, <2>2, OnlyRelease
<1>4. QED
  BY <1>1, <1>2, <1>3, TypeCorrect, GuardInvariant, PTL DEF Spec

(***************************************************************************)
(* Where QA is enforced, supersteps are bounded                            *)
(***************************************************************************)
(* A run takes at most this many supersteps, *)
LastStep == 8 * MaxAttempts + 4

(* of which the drafts that lane l may still ask for take *)
Loops == [l \in Lanes |-> 8 * (MaxAttempts - lane[l].attempts)]

(* and this many may follow the one in which node n runs. *)
Ahead == [n \in Nodes |->
    CASE n[1] = "context"    -> 8 * MaxAttempts + 3
      [] n[1] = "composer"   -> Loops[n[2]] + (IF n[2] \in asked THEN 10 ELSE 2)
      [] n[1] = "structure"  -> Loops[n[2]] + 9
      [] n[1] = "compliance" -> Loops[n[2]] + 8
      [] n[1] = "factuality" -> Loops[n[2]] + 7
      [] n[1] = "reviewer"   -> Loops[n[2]] + (IF lane[n[2]].edited THEN 4 ELSE 6)
      [] n[1] = "qaeditor"   -> IF lane[n[2]].edited THEN 0 ELSE Loops[n[2]] + 5
      [] n[1] = "revision"   -> Loops[n[2]] + 3
      [] n[1] = "qarevision" -> Loops[n[2]] + 3
      [] n[1] = "wait"       -> 3
      [] n[1] = "join"       -> 2
      [] n[1] = "qajoin"     -> 1
      [] OTHER               -> 0]

(* The model is asked by composers of this superstep only. *)
AskedInv == \A l \in asked : <<"composer", l>> \in todo

(* What may follow any node of the schedule fits. *)
FitsInv ==
    enforced =>
        /\ step <= LastStep
        /\ \A n \in todo : step + Ahead[n] <= LastStep
        /\ \A n \in next : step + 1 + Ahead[n] <= LastStep

AheadOK == enforced => \A n \in Nodes : Ahead[n] \in Nat

(* The supersteps ahead are never fewer than none. *)
LEMMA AheadType == TypeOK /\ BudgetInv => AheadOK
<1> SUFFICES ASSUME TypeOK, BudgetInv, enforced, NEW n \in Nodes PROVE Ahead[n] \in Nat
  BY DEF AheadOK
<1>1. MaxAttempts \in Nat
  BY ComposeAssumption DEF ComposeAssumption
<1>2. \A l \in Lanes : Loops[l] \in Nat
  <2>1. ASSUME NEW l \in Lanes PROVE Loops[l] \in Nat
    <3>1. lane[l].attempts \in Nat /\ lane[l].attempts <= MaxAttempts
      BY DEF TypeOK, StateOK, LaneStates, BudgetInv
    <3>2. QED
      BY <1>1, <3>1 DEF Loops
  <2>2. QED
    BY <2>1
<1>3. CASE n \in {"context", "join", "joinwait", "qajoin", "release"} \X {Both}
  BY <1>1, <1>3 DEF Ahead, Nodes
<1>4. CASE n \in {"composer", "structure", "compliance", "factuality", "revision",
                  "reviewer", "qarevision", "qaeditor", "wait"} \X Lanes
  <2>1. Loops[n[2]] \in Nat
    BY <1>2, <1>4
  <2>2. QED
    BY <1>4, <2>1 DEF Ahead, Nodes
<1>5. QED
  BY <1>3, <1>4 DEF Nodes

(* They depend on nothing but the attempts, the edit and the request of the  *)
(* node's own lane.                                                          *)
LEMMA AheadKept ==
    ASSUME NEW n \in Nodes,
           n[2] \in Lanes => /\ lane'[n[2]].attempts = lane[n[2]].attempts
                             /\ lane'[n[2]].edited = lane[n[2]].edited
                             /\ n[2] \in asked' <=> n[2] \in asked
    PROVE  Ahead'[n] = Ahead[n]
<1>1. CASE n[2] \in Lanes
  BY <1>1 DEF Ahead, Loops
<1>2. CASE n \in {"context", "join", "joinwait", "qajoin", "release"} \X {Both}
  BY <1>2 DEF Ahead, Nodes
<1>3. QED
  BY <1>1, <1>2 DEF Nodes

(* A node of lane l leaves what the others have ahead. *)
LEMMA OthersAhead ==
    ASSUME TypeOK, OneNode, ComposeAssumption, NEW l \in Lanes, NEW x,
           <<x, l>> \in todo,
           \A k \in Lanes \ {l} : lane'[k] = lane[k],
           asked' \ {l} = asked \ {l}
    PROVE  /\ \A n \in todo \ {<<x, l>>} : Ahead'[n] = Ahead[n]
           /\ \A n \in next : Ahead'[n] = Ahead[n]
<1>1. l # Both /\ <<x, l>> \notin next
  BY DEF ComposeAssumption, OneNode
<1>2. ASSUME NEW n \in (todo \ {<<x, l>>}) \cup next PROVE Ahead'[n] = Ahead[n]
  <2>1. n[2] # l
    BY <1>1, <1>2 DEF OneNode
  <2>2. n \in Nodes
    BY <1>2 DEF TypeOK, ScheduleOK
  <2>3. n[2] \in Lanes => /\ lane'[n[2]] = lane[n[2]]
                          /\ n[2] \in asked' <=> n[2] \in asked
    BY <2>1
  <2>4. QED
    BY <2>2, <2>3, AheadKept
<1>3. QED
  BY <1>2

(* A node that returns, and has more supersteps ahead than those it asks for. *)
LEMMA ReturnsFits ==
    ASSUME ComposeAssumption, TypeOK, TypeOK', AheadOK, AheadOK', FitsInv,
           NEW n, NEW nodes, Returns(n, nodes),
           \A m \in todo \ {n} : Ahead'[m] = Ahead[m],
           \A m \in next : Ahead'[m] = Ahead[m],
           enforced => \A m \in nodes : Ahead'[m] + 1 <= Ahead[n]
    PROVE  FitsInv'
<1> SUFFICES ASSUME enforced'
             PROVE  /\ step' <= LastStep
                    /\ \A m \in todo' : step' + Ahead'[m] <= LastStep
                    /\ \A m \in next' : step' + 1 + Ahead'[m] <= LastStep
  BY DEF FitsInv, LastStep
<1>1. /\ enforced /\ UNCHANGED step
      /\ n \in todo /\ todo' = todo \ {n} /\ next' = next \cup nodes
  BY DEF Returns, Follow, Ready, config
<1>2. LastStep \in Nat /\ step \in Nat
  BY DEF LastStep, ComposeAssumption, TypeOK, JobOK
<1>3. Ahead[n] \in Nat /\ step + Ahead[n] <= LastStep
  BY <1>1 DEF AheadOK, TypeOK, ScheduleOK, FitsInv
<1>4. ASSUME NEW m \in nodes PROVE step' + 1 + Ahead'[m] <= LastStep
  <2>1. m \in Nodes
    BY <1>1, <1>4 DEF TypeOK, ScheduleOK
  <2>2. Ahead'[m] \in Nat
    BY <2>1 DEF AheadOK
  <2>3. QED
    BY <1>1, <1>2, <1>3, <1>4, <2>2
<1>5. QED
  BY <1>1, <1>4 DEF FitsInv

(* A node that raises leaves fewer of them. *)
LEMMA RaisesFits ==
    ASSUME FitsInv, NEW n, NEW why, Raises(n, why),
           \A m \in todo \ {n} : Ahead'[m] = Ahead[m],
           \A m \in next : Ahead'[m] = Ahead[m]
    PROVE  FitsInv'
BY DEF FitsInv, LastStep, Raises, Follow, config

(* So does a node of a lane, which leaves the other lanes alone. *)
LEMMA LaneFits ==
    ASSUME ComposeAssumption, TypeOK, TypeOK', AheadOK, AheadOK', OneNode, FitsInv,
           NEW l \in Lanes, NEW x, NEW n, Returns(<<x, l>>, {n}),
           \A k \in Lanes \ {l} : lane'[k] = lane[k], asked' \ {l} = asked \ {l},
           enforced => Ahead'[n] + 1 <= Ahead[<<x, l>>]
    PROVE  FitsInv'
<1>1. <<x, l>> \in todo
  BY DEF Returns, Ready
<1>2. /\ \A m \in todo \ {<<x, l>>} : Ahead'[m] = Ahead[m]
      /\ \A m \in next : Ahead'[m] = Ahead[m]
  BY <1>1, OthersAhead
<1>3. enforced => \A m \in {n} : Ahead'[m] + 1 <= Ahead[<<x, l>>]
  OBVIOUS
<1>4. QED
  BY <1>2, <1>3, ReturnsFits

(* What a node of lane l has ahead, before a step *)
LEMMA AheadOf ==
    ASSUME NEW l \in Lanes
    PROVE  /\ Ahead[<<"structure", l>>] = Loops[l] + 9
           /\ Ahead[<<"compliance", l>>] = Loops[l] + 8
           /\ Ahead[<<"factuality", l>>] = Loops[l] + 7
           /\ ~lane[l].edited => Ahead[<<"reviewer", l>>] = Loops[l] + 6
           /\ lane[l].edited => Ahead[<<"reviewer", l>>] = Loops[l] + 4
           /\ ~lane[l].edited => Ahead[<<"qaeditor", l>>] = Loops[l] + 5
           /\ lane[l].edited => Ahead[<<"qaeditor", l>>] = 0
           /\ Ahead[<<"revision", l>>] = Loops[l] + 3
           /\ Ahead[<<"qarevision", l>>] = Loops[l] + 3
           /\ l \in asked => Ahead[<<"composer", l>>] = Loops[l] + 10
           /\ l \notin asked => Ahead[<<"composer", l>>] = Loops[l] + 2
           /\ Ahead[<<"wait", l>>] = 3
<1>1. \A x \in {"composer", "structure", "compliance", "factuality", "revision",
                "reviewer", "qarevision", "qaeditor", "wait"} : <<x, l>> \in Nodes
  BY DEF Nodes
<1>2. QED
  BY <1>1 DEF Ahead

(* and after it. *)
LEMMA AheadOfNext ==
    ASSUME NEW l \in Lanes
    PROVE  /\ Ahead'[<<"structure", l>>] = Loops'[l] + 9
           /\ Ahead'[<<"compliance", l>>] = Loops'[l] + 8
           /\ Ahead'[<<"factuality", l>>] = Loops'[l] + 7
           /\ ~lane'[l].edited => Ahead'[<<"reviewer", l>>] = Loops'[l] + 6
           /\ lane'[l].edited => Ahead'[<<"reviewer", l>>] = Loops'[l] + 4
           /\ ~lane'[l].edited => Ahead'[<<"qaeditor", l>>] = Loops'[l] + 5
           /\ lane'[l].edited => Ahead'[<<"qaeditor", l>>] = 0
           /\ Ahead'[<<"revision", l>>] = Loops'[l] + 3
           /\ Ahead'[<<"qarevision", l>>] = Loops'[l] + 3
           /\ l \in asked' => Ahead'[<<"composer", l>>] = Loops'[l] + 10
           /\ l \notin asked' => Ahead'[<<"composer", l>>] = Loops'[l] + 2
           /\ Ahead'[<<"wait", l>>] = 3
<1>1. \A x \in {"composer", "structure", "compliance", "factuality", "revision",
                "reviewer", "qarevision", "qaeditor", "wait"} : <<x, l>> \in Nodes
  BY DEF Nodes
<1>2. QED
  BY <1>1 DEF Ahead

(* On every way of a lane but that into a new draft there is less ahead. *)
LEMMA LessAhead ==
    ASSUME NEW l \in Lanes, Loops'[l] = Loops[l], Loops[l] \in Int
    PROVE  /\ l \in asked => Ahead'[<<"structure", l>>] + 1 <= Ahead[<<"composer", l>>]
           /\ Ahead'[<<"compliance", l>>] + 1 <= Ahead[<<"structure", l>>]
           /\ Ahead'[<<"factuality", l>>] + 1 <= Ahead[<<"compliance", l>>]
           /\ Ahead'[<<"reviewer", l>>] + 1 <= Ahead[<<"factuality", l>>]
           /\ Ahead'[<<"revision", l>>] + 1 <= Ahead[<<"factuality", l>>]
           /\ l \notin asked' =>
                 /\ Ahead'[<<"composer", l>>] + 1 <= Ahead[<<"revision", l>>]
                 /\ Ahead'[<<"composer", l>>] + 1 <= Ahead[<<"qarevision", l>>]
           /\ Ahead'[<<"qarevision", l>>] + 1 <= Ahead[<<"reviewer", l>>]
           /\ ~lane[l].edited /\ lane'[l].edited =>
                 Ahead'[<<"reviewer", l>>] + 1 <= Ahead[<<"qaeditor", l>>]
           /\ Loops[l] >= 0 =>
                 /\ Ahead'[<<"wait", l>>] + 1 <= Ahead[<<"reviewer", l>>]
                 /\ lane'[l] = lane[l] =>
                       Ahead'[<<"qaeditor", l>>] + 1 <= Ahead[<<"reviewer", l>>]
<1> DEFINE L == Loops[l]
<1>1. /\ Ahead[<<"structure", l>>] = L + 9
      /\ Ahead[<<"compliance", l>>] = L + 8
      /\ Ahead[<<"factuality", l>>] = L + 7
      /\ Ahead[<<"revision", l>>] = L + 3
      /\ Ahead[<<"qarevision", l>>] = L + 3
      /\ l \in asked => Ahead[<<"composer", l>>] = L + 10
      /\ Ahead[<<"reviewer", l>>] = IF lane[l].edited THEN L + 4 ELSE L + 6
      /\ ~lane[l].edited => Ahead[<<"qaeditor", l>>] = L + 5
  BY AheadOf
<1>2. /\ Ahead'[<<"structure", l>>] = Loops'[l] + 9
      /\ Ahead'[<<"compliance", l>>] = Loops'[l] + 8
      /\ Ahead'[<<"factuality", l>>] = Loops'[l] + 7
      /\ Ahead'[<<"revision", l>>] = Loops'[l] + 3
      /\ Ahead'[<<"qarevision", l>>] = Loops'[l] + 3
      /\ Ahead'[<<"wait", l>>] = 3
      /\ l \notin asked' => Ahead'[<<"composer", l>>] = Loops'[l] + 2
      /\ Ahead'[<<"reviewer", l>>] = IF lane'[l].edited THEN Loops'[l] + 4 ELSE Loops'[l] + 6
      /\ Ahead'[<<"qaeditor", l>>] = IF lane'[l].edited THEN 0 ELSE Loops'[l] + 5
  BY AheadOfNext
<1>3. L \in Int /\ Loops'[l] = L
  OBVIOUS
<1> HIDE DEF L
<1>4. QED
  BY <1>1, <1>2, <1>3 DEF L

(* The next node of a lane has less ahead than the last: drafts and guards,  *)
LEMMA DraftingFits ==
    ASSUME ComposeAssumption, TypeOK, TypeOK', AheadOK, AheadOK', OneNode, AskedInv, FitsInv,
           NEW l \in Lanes,
           \/ ComposerAnswers(l) \/ StructureValidator(l) \/ ComplianceGuard(l)
           \/ FactualityGate(l) \/ Revision(l)
    PROVE  FitsInv'
<1>1. /\ \A k \in Lanes \ {l} : lane'[k] = lane[k]
      /\ lane'[l].attempts = lane[l].attempts /\ lane'[l].edited = lane[l].edited
      /\ asked' \ {l} = asked \ {l} /\ asked' \subseteq asked
  <2>1. CASE ComposerAnswers(l)
    BY <2>1 DEF ComposerAnswers, TypeOK, StateOK, LaneStates
  <2>2. CASE Revision(l)
    BY <2>2 DEF Revision, TypeOK, StateOK, LaneStates
  <2>3. CASE StructureValidator(l) \/ ComplianceGuard(l) \/ FactualityGate(l)
    <3>1. PICK pass : lane' = [lane EXCEPT ![l].passed = @ \cup pass]
      BY <2>3 DEF StructureValidator, ComplianceGuard, FactualityGate, Judge
    <3>2. UNCHANGED asked
      BY <2>3 DEF StructureValidator, ComplianceGuard, FactualityGate
    <3>3. QED
      BY <3>1, <3>2 DEF TypeOK, StateOK, LaneStates
  <2>4. QED
    BY <2>1, <2>2, <2>3
<1>2. Loops'[l] = Loops[l] /\ Loops[l] \in Int
  BY <1>1 DEF Loops, ComposeAssumption, TypeOK, StateOK, LaneStates
<1>3. CASE ComposerAnswers(l)
  <2>1. l \in asked /\ Returns(<<"composer", l>>, {<<"structure", l>>})
    BY <1>3 DEF ComposerAnswers
  <2>2. Ahead'[<<"structure", l>>] + 1 <= Ahead[<<"composer", l>>]
    BY <1>2, <2>1, LessAhead
  <2>3. QED
    BY <1>1, <2>1, <2>2, LaneFits
<1>4. CASE StructureValidator(l)
  <2>1. Returns(<<"structure", l>>, {<<"compliance", l>>})
    BY <1>4 DEF StructureValidator
  <2>2. Ahead'[<<"compliance", l>>] + 1 <= Ahead[<<"structure", l>>]
    BY <1>2, LessAhead
  <2>3. QED
    BY <1>1, <2>1, <2>2, LaneFits
<1>5. CASE ComplianceGuard(l)
  <2>1. Returns(<<"compliance", l>>, {<<"factuality", l>>})
    BY <1>5 DEF ComplianceGuard
  <2>2. Ahead'[<<"factuality", l>>] + 1 <= Ahead[<<"compliance", l>>]
    BY <1>2, LessAhead
  <2>3. QED
    BY <1>1, <2>1, <2>2, LaneFits
<1>6. CASE FactualityGate(l)
  <2>1. CASE Returns(<<"factuality", l>>, {<<"reviewer", l>>})
    <3>1. Ahead'[<<"reviewer", l>>] + 1 <= Ahead[<<"factuality", l>>]
      BY <1>2, LessAhead
    <3>2. QED
      BY <1>1, <2>1, <3>1, LaneFits
  <2>2. CASE Returns(<<"factuality", l>>, {<<"revision", l>>})
    <3>1. Ahead'[<<"revision", l>>] + 1 <= Ahead[<<"factuality", l>>]
      BY <1>2, LessAhead
    <3>2. QED
      BY <1>1, <2>2, <3>1, LaneFits
  <2>3. QED
    BY <1>6, <2>1, <2>2 DEF FactualityGate
<1>7. CASE Revision(l)
  <2>1. Returns(<<"revision", l>>, {<<"composer", l>>})
    BY <1>7 DEF Revision
  <2>2. l \notin asked'
    <3>1. <<"revision", l>> \in todo /\ l # Both
      BY <2>1 DEF Returns, Ready, ComposeAssumption
    <3>2. <<"composer", l>> \notin todo
      BY <3>1 DEF OneNode
    <3>3. QED
      BY <1>1, <3>2 DEF AskedInv
  <2>3. Ahead'[<<"composer", l>>] + 1 <= Ahead[<<"revision", l>>]
    BY <1>2, <2>2, LessAhead
  <2>4. QED
    BY <1>1, <2>1, <2>3, LaneFits
<1>8. QED
  BY <1>3, <1>4, <1>5, <1>6, <1>7

(* reviews, with at most one edit for each draft, and the way to the join.   *)
LEMMA ReviewFits ==
    ASSUME ComposeAssumption, TypeOK, TypeOK', AheadOK, AheadOK', OneNode, AskedInv, FitsInv,
           BudgetInv, NEW l \in Lanes,
           \/ ReviewerSkips(l) \/ ReviewerAnswers(l) \/ QARevision(l) \/ QAEditor(l)
           \/ WaitForLane(l)
    PROVE  FitsInv'
<1>1. /\ \A k \in Lanes \ {l} : lane'[k] = lane[k]
      /\ lane'[l].attempts = lane[l].attempts
      /\ UNCHANGED asked
  <2>1. CASE ReviewerSkips(l) \/ ReviewerAnswers(l) \/ WaitForLane(l)
    BY <2>1 DEF ReviewerSkips, ReviewerAnswers, Reviewed, WaitForLane, Passes, state
  <2>2. CASE QARevision(l)
    BY <2>2 DEF QARevision, TypeOK, StateOK, LaneStates
  <2>3. CASE QAEditor(l)
    BY <2>3 DEF QAEditor, Edit, TypeOK, StateOK, LaneStates
  <2>4. QED
    BY <2>1, <2>2, <2>3
<1>2. Loops'[l] = Loops[l] /\ Loops[l] \in Int /\ (enforced => Loops[l] >= 0)
  BY <1>1 DEF Loops, ComposeAssumption, TypeOK, StateOK, LaneStates, BudgetInv
<1>3. CASE ReviewerSkips(l)
  <2>1. Returns(<<"reviewer", l>>, {<<"wait", l>>})
    BY <1>3 DEF ReviewerSkips
  <2>2. enforced => Ahead'[<<"wait", l>>] + 1 <= Ahead[<<"reviewer", l>>]
    BY <1>2, LessAhead
  <2>3. QED
    BY <1>1, <2>1, <2>2, LaneFits
<1>4. CASE ReviewerAnswers(l)
  <2>1. PICK a \in Actions : /\ Returns(<<"reviewer", l>>, {<<AfterReview(l, a), l>>})
                             /\ UNCHANGED lane
    BY <1>4 DEF ReviewerAnswers, Reviewed
  <2>2. AfterReview(l, a) \in {"qarevision", "qaeditor", "wait"}
    BY DEF AfterReview
  <2>3. /\ enforced => Ahead'[<<"wait", l>>] + 1 <= Ahead[<<"reviewer", l>>]
        /\ Ahead'[<<"qarevision", l>>] + 1 <= Ahead[<<"reviewer", l>>]
    BY <1>2, LessAhead
  <2>4. enforced => Ahead'[<<"qaeditor", l>>] + 1 <= Ahead[<<"reviewer", l>>]
    BY <1>2, <2>1, LessAhead
  <2>5. QED
    BY <1>1, <2>1, <2>2, <2>3, <2>4, LaneFits
<1>5. CASE QARevision(l)
  <2>1. Returns(<<"qarevision", l>>, {<<"composer", l>>})
    BY <1>5 DEF QARevision
  <2>2. l \notin asked'
    <3>1. <<"qarevision", l>> \in todo /\ l # Both
      BY <2>1 DEF Returns, Ready, ComposeAssumption
    <3>2. <<"composer", l>> \notin todo
      BY <3>1 DEF OneNode
    <3>3. QED
      BY <1>1, <3>2 DEF AskedInv
  <2>3. Ahead'[<<"composer", l>>] + 1 <= Ahead[<<"qarevision", l>>]
    BY <1>2, <2>2, LessAhead
  <2>4. QED
    BY <1>1, <2>1, <2>3, LaneFits
<1>6. CASE QAEditor(l)
  <2>1. Returns(<<"qaeditor", l>>, {<<"reviewer", l>>})
    BY <1>6 DEF QAEditor
  <2>2. ~lane[l].edited /\ lane'[l].edited
    BY <1>6 DEF QAEditor, Edit, TypeOK, StateOK, LaneStates
  <2>3. Ahead'[<<"reviewer", l>>] + 1 <= Ahead[<<"qaeditor", l>>]
    BY <1>2, <2>2, LessAhead
  <2>4. QED
    BY <1>1, <2>1, <2>3, LaneFits
<1>7. CASE WaitForLane(l)
  <2>1. Returns(<<"wait", l>>, {<<"join", Both>>})
    BY <1>7 DEF WaitForLane, Passes
  <2>2. Ahead'[<<"join", Both>>] + 1 <= Ahead[<<"wait", l>>]
    <3>1. Ahead[<<"wait", l>>] = 3 /\ Ahead'[<<"join", Both>>] = 2
      BY AheadOf DEF Ahead, Nodes
    <3>2. QED
      BY <3>1
  <2>3. QED
    BY <1>1, <2>1, <2>2, LaneFits
<1>8. QED
  BY <1>3, <1>4, <1>5, <1>6, <1>7

(* A request for a draft takes one of the attempts that are left, *)
LEMMA AsksFits ==
    ASSUME ComposeAssumption, TypeOK, OneNode, FitsInv, NEW l \in Lanes, ComposerAsks(l)
    PROVE  FitsInv'
<1>1. /\ lane'[l].attempts = lane[l].attempts + 1
      /\ \A k \in Lanes \ {l} : lane'[k] = lane[k]
      /\ l \notin asked /\ asked' = asked \cup {l}
      /\ <<"composer", l>> \in todo
      /\ UNCHANGED <<todo, next, step, enforced>>
  BY DEF ComposerAsks, Ready, config, TypeOK, StateOK, LaneStates
<1>2. Loops'[l] + 10 = Loops[l] + 2
  <2>1. lane[l].attempts \in Nat /\ MaxAttempts \in Nat
    BY DEF ComposeAssumption, TypeOK, StateOK, LaneStates
  <2>2. /\ Loops[l] = 8 * (MaxAttempts - lane[l].attempts)
        /\ Loops'[l] = 8 * (MaxAttempts - (lane[l].attempts + 1))
    BY <1>1 DEF Loops
  <2>3. QED
    BY <2>1, <2>2
<1>3. Ahead'[<<"composer", l>>] = Ahead[<<"composer", l>>]
  <2>1. Ahead'[<<"composer", l>>] = Loops'[l] + 10
    BY <1>1, AheadOfNext
  <2>2. Ahead[<<"composer", l>>] = Loops[l] + 2
    BY <1>1, AheadOf
  <2>3. QED
    BY <1>2, <2>1, <2>2
<1>4. /\ \A m \in todo \ {<<"composer", l>>} : Ahead'[m] = Ahead[m]
      /\ \A m \in next : Ahead'[m] = Ahead[m]
  BY <1>1, OthersAhead
<1>5. QED
  BY <1>1, <1>3, <1>4 DEF FitsInv, LastStep

(* and an exception none. *)
LEMMA LaneRaisesFits ==
    ASSUME ComposeAssumption, TypeOK, OneNode, FitsInv, NEW l \in Lanes,
           \/ ComposerGivesUp(l) \/ ComposerRepeats(l) \/ ComposerFails(l)
           \/ ReviewerFails(l) \/ QARevisionFails(l) \/ QAEditorFails(l)
    PROVE  FitsInv'
<1>1. /\ \A k \in Lanes \ {l} : lane'[k] = lane[k]
      /\ asked' \ {l} = asked \ {l}
  BY DEF ComposerGivesUp, ComposerRepeats, ComposerFails, ReviewerFails, QARevisionFails,
         QAEditorFails, TypeOK, StateOK
<1>2. PICK x, why : Raises(<<x, l>>, why)
  BY DEF ComposerGivesUp, ComposerRepeats, ComposerFails, ReviewerFails, QARevisionFails,
         QAEditorFails
<1>3. <<x, l>> \in todo
  BY <1>2 DEF Raises, Ready
<1>4. /\ \A m \in todo \ {<<x, l>>} : Ahead'[m] = Ahead[m]
      /\ \A m \in next : Ahead'[m] = Ahead[m]
  BY <1>1, <1>3, OthersAhead
<1>5. QED
  BY <1>2, <1>4, RaisesFits

(* The nodes of all lanes, *)
LEMMA SharedFits ==
    ASSUME ComposeAssumption, TypeOK, TypeOK', AheadOK, AheadOK', OneNode, AskedInv, FitsInv,
           BudgetInv,
           \/ ContextAssembler \/ ComposeJoin \/ ComposeJoinWait \/ QAJoin \/ QAJoinFails
           \/ ReleaseGate \/ ReleaseGateFails
    PROVE  FitsInv'
<1>1. UNCHANGED <<lane, asked>>
  BY DEF ContextAssembler, ComposeJoin, ComposeJoinWait, QAJoin, QAJoinFails, ReleaseGate,
         ReleaseGateFails, Passes, state
<1>2. \A m \in todo \cup next : Ahead'[m] = Ahead[m]
  BY <1>1, AheadKept DEF TypeOK, ScheduleOK
<1>3. ASSUME NEW n, NEW nodes, Returns(n, nodes),
             enforced => \A m \in nodes : Ahead'[m] + 1 <= Ahead[n]
      PROVE  FitsInv'
  BY <1>2, <1>3, ReturnsFits
<1>4. /\ Ahead[<<"context", Both>>] = 8 * MaxAttempts + 3
      /\ Ahead[<<"join", Both>>] = 2 /\ Ahead[<<"qajoin", Both>>] = 1
      /\ Ahead'[<<"joinwait", Both>>] = 0 /\ Ahead'[<<"qajoin", Both>>] = 1
      /\ Ahead'[<<"release", Both>>] = 0
  BY DEF Ahead, Nodes
<1>5. CASE ContextAssembler
  <2>1. ASSUME NEW l \in Lanes, enforced
        PROVE  Ahead'[<<"composer", l>>] + 1 <= Ahead[<<"context", Both>>]
    <3>1. lane[l].attempts \in Nat /\ MaxAttempts \in Nat
      BY DEF TypeOK, StateOK, LaneStates, ComposeAssumption
    <3>2. Loops'[l] \in Int /\ Loops'[l] <= 8 * MaxAttempts
      BY <1>1, <3>1 DEF Loops
    <3>3. l \notin asked'
      <4>1. todo = Start
        BY <1>5 DEF ContextAssembler, Returns, Ready, OneNode
      <4>2. QED
        BY <1>1, <4>1 DEF AskedInv, Start
    <3>4. Ahead'[<<"composer", l>>] = Loops'[l] + 2
      BY <3>3, AheadOfNext
    <3>5. QED
      BY <1>4, <3>1, <3>2, <3>4
  <2>2. enforced => \A m \in {<<"composer", l>> : l \in Lanes} :
                        Ahead'[m] + 1 <= Ahead[<<"context", Both>>]
    BY <2>1
  <2>3. QED
    BY <1>3, <1>5, <2>2 DEF ContextAssembler
<1>6. CASE ComposeJoin
  <2>1. Returns(<<"join", Both>>, {<<JoinRoute, Both>>})
    BY <1>6 DEF ComposeJoin, Passes
  <2>2. \A m \in {<<JoinRoute, Both>>} : Ahead'[m] + 1 <= Ahead[<<"join", Both>>]
    BY <1>4 DEF JoinRoute
  <2>3. QED
    BY <1>3, <2>1, <2>2
<1>7. CASE ComposeJoinWait \/ ReleaseGate
  BY <1>3, <1>7 DEF ComposeJoinWait, ReleaseGate, Passes
<1>8. CASE QAJoin
  <2>1. \A m \in {<<"release", Both>>} : Ahead'[m] + 1 <= Ahead[<<"qajoin", Both>>]
    BY <1>4
  <2>2. QED
    BY <1>3, <1>8, <2>1 DEF QAJoin
<1>9. CASE QAJoinFails \/ ReleaseGateFails
  BY <1>2, <1>9, RaisesFits DEF QAJoinFails, ReleaseGateFails
<1>10. QED
  BY <1>5, <1>6, <1>7, <1>8, <1>9

(* supersteps, runs and lives of the worker. *)
LEMMA RunFits ==
    ASSUME ComposeAssumption, TypeOK, TypeOK', AheadOK, OneNode, FitsInv,
           StepEnds \/ Release \/ FallsBack \/ Fails \/ Crash \/ Resume
    PROVE  FitsInv'
<1>0. LastStep \in Nat /\ step \in Nat
  BY DEF LastStep, ComposeAssumption, TypeOK, JobOK
<1>1. ASSUME UNCHANGED <<lane, asked>>
      PROVE  \A m \in todo \cup next : Ahead'[m] = Ahead[m]
  BY <1>1, AheadKept DEF TypeOK, ScheduleOK
<1>2. CASE StepEnds
  <2>1. /\ todo' = next /\ next' = {} /\ next # {}
        /\ step' \in {step, step + 1} /\ UNCHANGED <<lane, asked, enforced>>
    BY <1>2 DEF StepEnds, Merge, config
  <2>2. enforced => \A m \in next : Ahead[m] \in Nat
    BY DEF AheadOK, TypeOK, ScheduleOK
  <2>3. enforced => step + 1 <= LastStep
    BY <1>0, <2>1, <2>2 DEF FitsInv
  <2>4. enforced => \A m \in next : step' + Ahead'[m] <= LastStep
    BY <1>0, <1>1, <2>1, <2>2 DEF FitsInv
  <2>5. QED
    BY <1>0, <2>1, <2>3, <2>4 DEF FitsInv, LastStep
<1>3. CASE Release \/ Fails \/ Crash
  <2>1. UNCHANGED <<lane, asked, todo, next, step, enforced>>
    BY <1>3 DEF Release, Fails, Crash, Merge, sched, state, config
  <2>2. QED
    BY <1>1, <2>1 DEF FitsInv, LastStep
<1>4. CASE FallsBack \/ Resume
  <2>1. StartsGraph
    BY <1>4 DEF FallsBack, RunsAgain, Resume
  <2>2. Ahead'[<<"context", Both>>] = 8 * MaxAttempts + 3
    BY DEF Ahead, Nodes
  <2>3. MaxAttempts \in Nat
    BY DEF ComposeAssumption
  <2>4. QED
    BY <2>1, <2>2, <2>3 DEF StartsGraph, Start, FitsInv, LastStep
<1>5. QED
  BY <1>2, <1>3, <1>4


(* Only composers of this superstep wait for the model. *)
LEMMA AskedStep ==
    ASSUME ComposeAssumption, TypeOK, OneNode, AskedInv, [Next]_vars PROVE AskedInv'
<1>1. ASSUME NEW l \in Lanes, ComposerAsks(l) PROVE AskedInv'
  BY <1>1 DEF ComposerAsks, Ready, AskedInv
<1>2. ASSUME NEW l \in Lanes,
             ComposerAnswers(l) \/ ComposerRepeats(l) \/ ComposerFails(l) \/ ComposerGivesUp(l)
      PROVE  AskedInv'
  <2>1. todo' = todo \ {<<"composer", l>>} /\ asked' = asked \ {l}
    BY <1>2 DEF ComposerAnswers, ComposerRepeats, ComposerFails, ComposerGivesUp, Returns,
                Raises, Follow
  <2>2. QED
    BY <2>1 DEF AskedInv
<1>3. ASSUME NEW x, NEW k, x # "composer", todo' = todo \ {<<x, k>>}, UNCHANGED asked
      PROVE  AskedInv'
  BY <1>3 DEF AskedInv
<1>4. ASSUME NEW l \in Lanes,
             \/ StructureValidator(l) \/ ComplianceGuard(l) \/ FactualityGate(l)
             \/ Revision(l) \/ ReviewerSkips(l) \/ ReviewerAnswers(l) \/ ReviewerFails(l)
             \/ QARevision(l) \/ QARevisionFails(l) \/ QAEditor(l) \/ QAEditorFails(l)
             \/ WaitForLane(l)
      PROVE  AskedInv'
  <2>1. UNCHANGED asked
    BY <1>4 DEF StructureValidator, ComplianceGuard, FactualityGate, Revision, ReviewerSkips,
         ReviewerAnswers, Reviewed, ReviewerFails, QARevision, QARevisionFails, QAEditor,
         QAEditorFails, WaitForLane, Passes
  <2>2. PICK x \in {"structure", "compliance", "factuality", "revision", "reviewer",
                    "qarevision", "qaeditor", "wait"} : todo' = todo \ {<<x, l>>}
    BY <1>4 DEF StructureValidator, ComplianceGuard, FactualityGate, Revision, ReviewerSkips,
         ReviewerAnswers, ReviewerFails, QARevision, QARevisionFails, QAEditor,
         QAEditorFails, WaitForLane, Passes, Returns, Raises, Follow
  <2>3. QED
    BY <1>3, <2>1, <2>2
<1>5. CASE \/ ContextAssembler \/ ComposeJoin \/ ComposeJoinWait \/ QAJoin \/ QAJoinFails
           \/ ReleaseGate \/ ReleaseGateFails
  <2>1. UNCHANGED asked
    BY <1>5 DEF ContextAssembler, ComposeJoin, ComposeJoinWait, QAJoin, QAJoinFails,
         ReleaseGate, ReleaseGateFails, Passes
  <2>2. PICK x \in {"context", "join", "joinwait", "qajoin", "release"} :
            todo' = todo \ {<<x, Both>>}
    BY <1>5 DEF ContextAssembler, ComposeJoin, ComposeJoinWait, QAJoin, QAJoinFails,
         ReleaseGate, ReleaseGateFails, Passes, Returns, Raises, Follow
  <2>3. QED
    BY <1>3, <2>1, <2>2
<1>6. CASE StepEnds
  BY <1>6 DEF StepEnds, AskedInv
<1>7. CASE FallsBack \/ Resume
  BY <1>7 DEF FallsBack, RunsAgain, Resume, StartsGraph, AskedInv
<1>8. CASE Release \/ Fails \/ Crash \/ UNCHANGED vars
  BY <1>8 DEF Release, Fails, Crash, vars, sched, AskedInv
<1>9. QED
  BY <1>1, <1>2, <1>4, <1>5, <1>6, <1>7, <1>8 DEF Next, Steps, Lane, Shared

(* The supersteps a run has taken, and those its nodes have ahead, together  *)
(* never exceed the bound.                                                   *)
LEMMA FitsInvariant == Spec => [](AskedInv /\ FitsInv)
<1>1. Init => AskedInv /\ FitsInv
  <2> SUFFICES ASSUME Init PROVE AskedInv /\ FitsInv
    OBVIOUS
  <2>1. Ahead[<<"context", Both>>] = 8 * MaxAttempts + 3 /\ MaxAttempts \in Nat
    BY ComposeAssumption DEF Ahead, Nodes, ComposeAssumption
  <2>2. QED
    BY <2>1 DEF Init, Start, AskedInv, FitsInv, LastStep
<1>2. /\ TypeOK /\ TypeOK' /\ BudgetInv /\ BudgetInv' /\ OneNode /\ AheadOK /\ AheadOK'
      /\ AskedInv /\ FitsInv /\ [Next]_vars
      => AskedInv' /\ FitsInv'
  <2> SUFFICES ASSUME TypeOK, TypeOK', BudgetInv, OneNode, AheadOK, AheadOK', AskedInv,
                      FitsInv, [Next]_vars
               PROVE  FitsInv'
    BY AskedStep, ComposeAssumption
  <2>1. ASSUME NEW l \in Lanes, Lane(l) PROVE FitsInv'
    <3>1. CASE ComposerAsks(l)
      BY <3>1, AsksFits, ComposeAssumption
    <3>2. CASE \/ ComposerAnswers(l) \/ StructureValidator(l) \/ ComplianceGuard(l)
               \/ FactualityGate(l) \/ Revision(l)
      BY <3>2, DraftingFits, ComposeAssumption
    <3>3. CASE \/ ReviewerSkips(l) \/ ReviewerAnswers(l) \/ QARevision(l) \/ QAEditor(l)
               \/ WaitForLane(l)
      BY <3>3, ReviewFits, ComposeAssumption
    <3>4. CASE \/ ComposerGivesUp(l) \/ ComposerRepeats(l) \/ ComposerFails(l)
               \/ ReviewerFails(l) \/ QARevisionFails(l) \/ QAEditorFails(l)
      BY <3>4, LaneRaisesFits, ComposeAssumption
    <3>5. QED
      BY <2>1, <3>1, <3>2, <3>3, <3>4 DEF Lane
  <2>2. CASE Shared \/ Crash \/ Resume
    BY <2>2, SharedFits, RunFits, ComposeAssumption DEF Shared
  <2>3. CASE UNCHANGED vars
    <3>1. UNCHANGED <<lane, asked, todo, next, step, enforced>>
      BY <2>3 DEF vars, state, sched, config
    <3>2. \A m \in todo \cup next : Ahead'[m] = Ahead[m]
      BY <3>1, AheadKept DEF TypeOK, ScheduleOK
    <3>3. QED
      BY <3>1, <3>2 DEF FitsInv, LastStep
  <2>4. QED
    BY <2>1, <2>2, <2>3 DEF Next, Steps
<1>3. GuardInv => OneNode
  BY DEF GuardInv
<1>4. QED
  BY <1>1, <1>2, <1>3, AheadType, TypeCorrect, BudgetInvariant, GuardInvariant, PTL DEF Spec

(* Where QA is enforced a run takes no more than 8 supersteps for each       *)
(* attempt a lane is allowed, and 4 more: whatever guards and reviewers say, *)
(* however many lanes there are, in the second run after asyncio and in one  *)
(* resumed from a snapshot as in the first.                                  *)
THEOREM SuperstepsBounded == Spec => [](enforced => step <= 8 * MaxAttempts + 4)
<1>1. FitsInv => (enforced => step <= 8 * MaxAttempts + 4)
  BY DEF FitsInv, LastStep
<1>2. QED
  BY <1>1, FitsInvariant, PTL

(* Only a superstep that ends beyond the limit is reported as such. *)
LEMMA LimitRaises ==
    ASSUME [Next]_vars, cause # "steps", cause' = "steps"
    PROVE  StepEnds /\ ~ (step < RecursionLimit)
<1>1. ASSUME NEW n, NEW nodes, Returns(n, nodes) PROVE cause' = cause
  BY <1>1 DEF Returns, run
<1>2. ASSUME NEW n, NEW why, why # "steps", Raises(n, why) PROVE cause' # "steps"
  BY <1>2 DEF Raises
<1>3. ASSUME NEW l \in Lanes, Lane(l) PROVE FALSE
  <2>1. CASE ComposerAsks(l)
    BY <2>1 DEF ComposerAsks, run
  <2>2. CASE \/ ComposerAnswers(l) \/ StructureValidator(l) \/ ComplianceGuard(l)
             \/ FactualityGate(l) \/ Revision(l) \/ ReviewerSkips(l) \/ ReviewerAnswers(l)
             \/ QARevision(l) \/ QAEditor(l) \/ WaitForLane(l)
    BY <1>1, <2>2 DEF ComposerAnswers, StructureValidator, ComplianceGuard, FactualityGate,
         Revision, ReviewerSkips, ReviewerAnswers, QARevision, QAEditor, WaitForLane, Passes
  <2>3. CASE \/ ComposerGivesUp(l) \/ ComposerRepeats(l) \/ ComposerFails(l)
             \/ ReviewerFails(l) \/ QARevisionFails(l) \/ QAEditorFails(l)
    BY <1>2, <2>3 DEF ComposerGivesUp, ComposerRepeats, ComposerFails, ReviewerFails,
         QARevisionFails, QAEditorFails
  <2>4. QED
    BY <1>3, <2>1, <2>2, <2>3 DEF Lane
<1>4. CASE \/ ContextAssembler \/ ComposeJoin \/ ComposeJoinWait \/ QAJoin \/ ReleaseGate
  BY <1>1, <1>4 DEF ContextAssembler, ComposeJoin, ComposeJoinWait, QAJoin, ReleaseGate, Passes
<1>5. CASE QAJoinFails \/ ReleaseGateFails
  BY <1>2, <1>5 DEF QAJoinFails, ReleaseGateFails
<1>6. CASE StepEnds
  BY <1>6 DEF StepEnds
<1>7. CASE Release \/ Fails \/ Crash \/ UNCHANGED vars
  BY <1>7 DEF Release, Fails, Crash, vars, run
<1>8. CASE FallsBack \/ Resume
  BY <1>8 DEF FallsBack, RunsAgain, Resume, StartsGraph
<1>9. QED
  BY <1>3, <1>4, <1>5, <1>6, <1>7, <1>8 DEF Next, Steps, Shared

(* The settings of a job do not change. *)
LEMMA EnforcedKept == ASSUME [Next]_vars PROVE UNCHANGED config
<1>1. ASSUME NEW l \in Lanes, Lane(l) PROVE UNCHANGED config
  BY <1>1 DEF Lane, ComposerAsks, ComposerGivesUp, ComposerAnswers, ComposerRepeats,
       ComposerFails, StructureValidator, ComplianceGuard, FactualityGate, Revision,
       ReviewerSkips, ReviewerAnswers, ReviewerFails, QARevision, QARevisionFails, QAEditor,
       QAEditorFails, WaitForLane, Passes, Returns, Raises
<1>2. CASE Shared \/ Crash \/ Resume
  BY <1>2 DEF Shared, ContextAssembler, ComposeJoin, ComposeJoinWait, QAJoin, QAJoinFails,
       ReleaseGate, ReleaseGateFails, Passes, Returns, Raises, StepEnds, Release, FallsBack,
       RunsAgain, Fails, Crash, Resume
<1>3. QED
  BY <1>1, <1>2 DEF Next, Steps, vars

(* So LangGraph's limit ends no run where QA is enforced, as long as it      *)
(* allows for the attempts that are configured.                              *)
THEOREM LimitsCorrect ==
    ASSUME 8 * MaxAttempts + 4 <= RecursionLimit
    PROVE  Spec => []EnforcedFitsLimit
<1>1. Init => EnforcedFitsLimit
  BY DEF Init, EnforcedFitsLimit
<1>2. /\ TypeOK /\ BudgetInv /\ AheadOK /\ FitsInv /\ EnforcedFitsLimit /\ [Next]_vars
      => EnforcedFitsLimit'
  <2> SUFFICES ASSUME TypeOK, AheadOK, FitsInv, EnforcedFitsLimit, [Next]_vars,
                      enforced', cause' = "steps"
               PROVE  FALSE
    BY DEF EnforcedFitsLimit
  <2>1. enforced
    BY EnforcedKept DEF config
  <2>2. StepEnds /\ ~ (step < RecursionLimit)
    BY <2>1, LimitRaises DEF EnforcedFitsLimit
  <2>3. PICK n \in next : TRUE
    BY <2>2 DEF StepEnds
  <2>4. step + 1 + Ahead[n] <= LastStep /\ Ahead[n] \in Nat
    BY <2>1 DEF FitsInv, AheadOK, TypeOK, ScheduleOK
  <2>5. step \in Nat /\ MaxAttempts \in Nat /\ RecursionLimit \in Nat
    BY ComposeAssumption DEF TypeOK, JobOK, ComposeAssumption
  <2>6. QED
    BY <2>2, <2>4, <2>5 DEF LastStep
<1>3. QED
  BY <1>1, <1>2, AheadType, TypeCorrect, BudgetInvariant, FitsInvariant, PTL DEF Spec

(***************************************************************************)
(* A job makes finitely many steps                                         *)
(***************************************************************************)
(* What is left to a job, the most significant part first: the lives of the  *)
(* worker, each to be resumed after a crash;                                 *)
LivesLeft == 2 * (MaxCrashes - crashes) + (IF phase = "crashed" THEN 1 ELSE 0)

(* the supersteps of this run, and of the one after asyncio;                 *)
StepsLeft ==
    (IF async /\ ~fell THEN RecursionLimit + 2 ELSE 0) +
    (IF phase = "running" THEN 2 + (RecursionLimit - step)
     ELSE IF phase = "raised" THEN 1 ELSE 0)

(* the nodes of this superstep; and the composers that have not asked yet.   *)
NodesLeft == Cardinality(todo)
DraftsLeft == Cardinality(Lanes \ asked)

LeftOK == /\ LivesLeft \in Nat /\ StepsLeft \in Nat
          /\ NodesLeft \in Nat /\ DraftsLeft \in Nat

(* There is less left, in the lexicographic order. *)
LessIsLeft ==
    \/ LivesLeft' < LivesLeft
    \/ /\ LivesLeft' = LivesLeft
       /\ \/ StepsLeft' < StepsLeft
          \/ /\ StepsLeft' = StepsLeft
             /\ \/ NodesLeft' < NodesLeft
                \/ NodesLeft' = NodesLeft /\ DraftsLeft' < DraftsLeft

(* There are finitely many nodes. *)
LEMMA NodesFinite == ASSUME IsFiniteSet(Lanes) PROVE IsFiniteSet(Nodes)
<1>1. ASSUME NEW a, NEW b, NEW c, NEW S, IsFiniteSet(S)
      PROVE  IsFiniteSet({a, b, c} \cup S)
  <2>1. IsFiniteSet({b} \cup ({c} \cup S))
    BY <1>1, FS_Singleton, FS_Union
  <2>2. IsFiniteSet({a} \cup ({b} \cup ({c} \cup S)))
    BY <2>1, FS_Singleton, FS_Union
  <2>3. {a} \cup ({b} \cup ({c} \cup S)) = {a, b, c} \cup S
    OBVIOUS
  <2>4. QED
    BY ONLY <2>2, <2>3, Zenon
<1>2. IsFiniteSet({"composer", "structure", "compliance", "factuality", "revision",
                   "reviewer", "qarevision", "qaeditor", "wait"})
  <2>1. IsFiniteSet({"factuality", "revision", "reviewer"} \cup
                    ({"qarevision", "qaeditor", "wait"} \cup {}))
    BY <1>1, FS_EmptySet
  <2>2. IsFiniteSet({"composer", "structure", "compliance"} \cup
                    ({"factuality", "revision", "reviewer"} \cup
                     ({"qarevision", "qaeditor", "wait"} \cup {})))
    BY <1>1, <2>1
  <2>3. {"composer", "structure", "compliance"} \cup
                    ({"factuality", "revision", "reviewer"} \cup
                     ({"qarevision", "qaeditor", "wait"} \cup {}))
        = {"composer", "structure", "compliance", "factuality", "revision",
                   "reviewer", "qarevision", "qaeditor", "wait"}
    OBVIOUS
  <2>4. QED
    BY ONLY <2>2, <2>3, Zenon
<1>3. IsFiniteSet({"context", "join", "joinwait", "qajoin", "release"})
  <2>1. IsFiniteSet({"context", "join", "joinwait"} \cup
                    ({"joinwait", "qajoin", "release"} \cup {}))
    BY <1>1, FS_EmptySet
  <2>2. {"context", "join", "joinwait"} \cup ({"joinwait", "qajoin", "release"} \cup {})
        = {"context", "join", "joinwait", "qajoin", "release"}
    OBVIOUS
  <2>3. QED
    BY ONLY <2>1, <2>2, Zenon
<1>4. QED
  BY <1>2, <1>3, FS_Singleton, FS_Product, FS_Union DEF Nodes

(* What is left is counted. *)
LEMMA LeftType == ASSUME IsFiniteSet(Lanes), TypeOK PROVE LeftOK
<1>1. LivesLeft \in Nat /\ StepsLeft \in Nat
  BY ComposeAssumption DEF LivesLeft, StepsLeft, TypeOK, JobOK, ComposeAssumption
<1>2. NodesLeft \in Nat /\ DraftsLeft \in Nat
  <2>1. IsFiniteSet(todo)
    BY NodesFinite, FS_Subset DEF TypeOK, ScheduleOK
  <2>2. IsFiniteSet(Lanes \ asked)
    BY FS_Subset
  <2>3. QED
    BY <2>1, <2>2, FS_CardinalityType DEF NodesLeft, DraftsLeft
<1>3. QED
  BY <1>1, <1>2 DEF LeftOK

(* A node that finishes leaves fewer to run, *)
LEMMA FinishesLess ==
    ASSUME IsFiniteSet(Lanes), TypeOK, NEW n, n \in todo, todo' = todo \ {n}
    PROVE  NodesLeft' < NodesLeft
<1>1. IsFiniteSet(todo)
  BY NodesFinite, FS_Subset DEF TypeOK, ScheduleOK
<1>2. Cardinality(todo \ {n}) <= Cardinality(todo)
      /\ Cardinality(todo \ {n}) # Cardinality(todo)
  BY <1>1, FS_Subset
<1>3. IsFiniteSet(todo \ {n})
  BY <1>1, FS_Subset
<1>4. Cardinality(todo) \in Nat /\ Cardinality(todo \ {n}) \in Nat
  BY <1>1, <1>3, FS_CardinalityType
<1>5. QED
  BY <1>2, <1>4 DEF NodesLeft

(* whether it returns *)
LEMMA ReturnsLess ==
    ASSUME IsFiniteSet(Lanes), TypeOK, NEW n, NEW nodes, Returns(n, nodes)
    PROVE  LessIsLeft
<1>1. LivesLeft' = LivesLeft /\ StepsLeft' = StepsLeft
  BY DEF Returns, config, run, LivesLeft, StepsLeft
<1>2. QED
  BY <1>1, FinishesLess DEF Returns, Follow, Ready, LessIsLeft

(* or raises. *)
LEMMA RaisesLess ==
    ASSUME IsFiniteSet(Lanes), TypeOK, NEW n, NEW why, Raises(n, why)
    PROVE  LessIsLeft
<1>1. /\ phase \in {"running", "raised"} /\ phase' = "raised"
      /\ UNCHANGED <<async, fell, step, crashes>>
      /\ n \in todo /\ todo' = todo \ {n}
  BY DEF Raises, Follow, Ready, config
<1>2. LivesLeft' = LivesLeft
  BY <1>1 DEF LivesLeft
<1>3. CASE phase = "running"
  <2>1. StepsLeft' < StepsLeft
    BY <1>1, <1>3, ComposeAssumption DEF StepsLeft, TypeOK, JobOK, ComposeAssumption
  <2>2. QED
    BY <1>2, <2>1 DEF LessIsLeft
<1>4. CASE phase = "raised"
  <2>1. StepsLeft' = StepsLeft
    BY <1>1, <1>4 DEF StepsLeft
  <2>2. QED
    BY <1>1, <1>2, <2>1, FinishesLess DEF LessIsLeft
<1>5. QED
  BY <1>1, <1>3, <1>4

(* A composer that asks leaves fewer to ask. *)
LEMMA AsksLess ==
    ASSUME IsFiniteSet(Lanes), TypeOK, NEW l \in Lanes, ComposerAsks(l)
    PROVE  LessIsLeft
<1>1. /\ UNCHANGED <<todo, async, fell, step, phase, crashes>>
      /\ l \notin asked /\ asked' = asked \cup {l}
  BY DEF ComposerAsks, config, run
<1>2. LivesLeft' = LivesLeft /\ StepsLeft' = StepsLeft /\ NodesLeft' = NodesLeft
  BY <1>1 DEF LivesLeft, StepsLeft, NodesLeft
<1>3. DraftsLeft' < DraftsLeft
  <2>1. /\ IsFiniteSet(Lanes \ asked) /\ IsFiniteSet(Lanes \ asked')
        /\ Lanes \ asked' \in SUBSET (Lanes \ asked)
    BY <1>1, FS_Subset
  <2>2. Lanes \ asked' # Lanes \ asked
    BY <1>1
  <2>3. /\ Cardinality(Lanes \ asked') <= Cardinality(Lanes \ asked)
        /\ Cardinality(Lanes \ asked') # Cardinality(Lanes \ asked)
    BY <2>1, <2>2, FS_Subset
  <2>4. QED
    BY <2>1, <2>3, FS_CardinalityType DEF DraftsLeft
<1>4. QED
  BY <1>2, <1>3 DEF LessIsLeft

(* A superstep, a run or a life of the worker that ends is one less. *)
LEMMA RunLess ==
    ASSUME TypeOK, StepEnds \/ Release \/ FallsBack \/ Fails \/ Crash \/ Resume
    PROVE  LessIsLeft
<1> USE ComposeAssumption DEF ComposeAssumption
<1>1. /\ MaxCrashes - crashes \in Nat /\ RecursionLimit - step \in Nat
      /\ RecursionLimit \in Nat /\ step \in Nat /\ crashes \in Nat /\ MaxCrashes \in Nat
  BY DEF TypeOK, JobOK
<1>2. CASE StepEnds
  <2>1. /\ phase = "running" /\ UNCHANGED <<async, fell, crashes>>
        /\ \/ phase' = "running" /\ step' = step + 1
           \/ phase' = "raised"
    BY <1>2 DEF StepEnds, config
  <2>2. LivesLeft' = LivesLeft
    BY <2>1 DEF LivesLeft
  <2>3. StepsLeft' < StepsLeft
    BY <1>1, <2>1 DEF StepsLeft
  <2>4. QED
    BY <2>2, <2>3 DEF LessIsLeft
<1>3. CASE Release \/ Fails
  <2>1. /\ phase \in {"running", "raised"} /\ phase' \in {"released", "failed"}
        /\ UNCHANGED <<async, fell, crashes, step>>
    BY <1>3 DEF Release, Fails, config, sched
  <2>2. LivesLeft' = LivesLeft
    BY <2>1 DEF LivesLeft
  <2>3. StepsLeft' < StepsLeft
    BY <1>1, <2>1 DEF StepsLeft
  <2>4. QED
    BY <2>2, <2>3 DEF LessIsLeft
<1>4. CASE FallsBack
  <2>1. /\ phase = "raised" /\ phase' = "running" /\ step' = 1 /\ UNCHANGED <<async, crashes>>
        /\ async /\ ~fell /\ fell'
    BY <1>4 DEF FallsBack, RunsAgain, StartsGraph, config
  <2>2. LivesLeft' = LivesLeft
    BY <2>1 DEF LivesLeft
  <2>3. StepsLeft' < StepsLeft
    BY <1>1, <2>1 DEF StepsLeft
  <2>4. QED
    BY <2>2, <2>3 DEF LessIsLeft
<1>5. CASE Crash
  <2>1. /\ phase # "crashed" /\ phase' = "crashed" /\ crashes' = crashes + 1
    BY <1>5 DEF Crash
  <2>2. LivesLeft' < LivesLeft
    BY <1>1, <2>1 DEF LivesLeft
  <2>3. QED
    BY <2>2 DEF LessIsLeft
<1>6. CASE Resume
  <2>1. phase = "crashed" /\ phase' = "running" /\ crashes' = crashes
    BY <1>6 DEF Resume, StartsGraph
  <2>2. LivesLeft' < LivesLeft
    BY <1>1, <2>1 DEF LivesLeft
  <2>3. QED
    BY <2>2 DEF LessIsLeft
<1>7. QED
  BY <1>2, <1>3, <1>4, <1>5, <1>6

(* The same as an order on quadruples of natural numbers.                    *)
Left    == <<LivesLeft, StepsLeft, NodesLeft, DraftsLeft>>
Below   == OpToRel(<, Nat)
Descent == LexProductOrdering(Below, Nat, 4)

(* Nothing descends in that order for ever.                                  *)
THEOREM DescentEnds == IsWellFoundedOn(Descent, [1..4 -> Nat])
BY NatLessThanWellFounded, WFLexProductOrdering, Zenon DEF Descent, Below

(* Less is left means lower in the order. *)
LEMMA LessIsBelow ==
    ASSUME LeftOK, LeftOK', LessIsLeft
    PROVE  <<Left', Left>> \in Descent
<1>1. \A a, b \in Nat : a < b => <<a, b>> \in Below
  BY DEF OpToRel, Below
<1>2. ASSUME NEW f \in [1..4 -> Nat], NEW g \in [1..4 -> Nat], NEW j \in 1..4,
             \A i \in 1..(j - 1) : f[i] = g[i], f[j] < g[j]
      PROVE  <<f, g>> \in Descent
  BY <1>1, <1>2 DEF Descent, LexProductOrdering
<1>3. Left \in [1..4 -> Nat] /\ Left' \in [1..4 -> Nat]
  BY DEF Left, LeftOK
<1>4. /\ Left[1] = LivesLeft /\ Left[2] = StepsLeft /\ Left[3] = NodesLeft /\ Left[4] = DraftsLeft
      /\ Left'[1] = LivesLeft' /\ Left'[2] = StepsLeft' /\ Left'[3] = NodesLeft'
      /\ Left'[4] = DraftsLeft'
  BY DEF Left
<1>5. PICK j \in 1..4 : (\A i \in 1..(j - 1) : Left'[i] = Left[i]) /\ Left'[j] < Left[j]
  <2>1. CASE LivesLeft' < LivesLeft
    <3>1. (\A i \in 1..(1 - 1) : Left'[i] = Left[i]) /\ Left'[1] < Left[1]
      BY <2>1, <1>4
    <3>2. QED
      BY <3>1
  <2>2. CASE LivesLeft' = LivesLeft /\ StepsLeft' < StepsLeft
    <3>1. (\A i \in 1..(2 - 1) : Left'[i] = Left[i]) /\ Left'[2] < Left[2]
      BY <2>2, <1>4
    <3>2. QED
      BY <3>1
  <2>3. CASE LivesLeft' = LivesLeft /\ StepsLeft' = StepsLeft /\ NodesLeft' < NodesLeft
    <3>1. (\A i \in 1..(3 - 1) : Left'[i] = Left[i]) /\ Left'[3] < Left[3]
      BY <2>3, <1>4
    <3>2. QED
      BY <3>1
  <2>4. CASE /\ LivesLeft' = LivesLeft /\ StepsLeft' = StepsLeft
             /\ NodesLeft' = NodesLeft /\ DraftsLeft' < DraftsLeft
    <3>1. (\A i \in 1..(4 - 1) : Left'[i] = Left[i]) /\ Left'[4] < Left[4]
      BY <2>4, <1>4
    <3>2. QED
      BY <3>1
  <2>5. QED
    BY <2>1, <2>2, <2>3, <2>4 DEF LessIsLeft
<1>6. QED
  BY <1>2, <1>3, <1>5

(* Every step of a job, a crash and a resumption included, leaves less of it *)
(* in a lexicographic order of four natural numbers: a job makes finitely    *)
(* many steps, whatever guards, reviewers and the model answer.              *)
THEOREM ComposeDescends ==
    ASSUME IsFiniteSet(Lanes)
    PROVE  Spec => []LeftOK /\ [][(<<Left', Left>> \in Descent)]_vars
<1>1. TypeOK => LeftOK
  BY LeftType
<1>2. TypeOK /\ [Next]_vars => [LessIsLeft]_vars
  <2> SUFFICES ASSUME TypeOK, Next PROVE LessIsLeft
    OBVIOUS
  <2>1. ASSUME NEW l \in Lanes, Lane(l) PROVE LessIsLeft
    <3>1. CASE ComposerAsks(l)
      BY <3>1, AsksLess
    <3>2. CASE \/ ComposerAnswers(l) \/ StructureValidator(l) \/ ComplianceGuard(l)
               \/ FactualityGate(l) \/ Revision(l) \/ ReviewerSkips(l) \/ ReviewerAnswers(l)
               \/ QARevision(l) \/ QAEditor(l) \/ WaitForLane(l)
      <4>1. PICK n, nodes : Returns(n, nodes)
        BY <3>2 DEF ComposerAnswers, StructureValidator, ComplianceGuard, FactualityGate,
           Revision, ReviewerSkips, ReviewerAnswers, QARevision, QAEditor, WaitForLane, Passes
      <4>2. QED
        BY <4>1, ReturnsLess
    <3>3. CASE \/ ComposerGivesUp(l) \/ ComposerRepeats(l) \/ ComposerFails(l)
               \/ ReviewerFails(l) \/ QARevisionFails(l) \/ QAEditorFails(l)
      <4>1. PICK n, why : Raises(n, why)
        BY <3>3 DEF ComposerGivesUp, ComposerRepeats, ComposerFails, ReviewerFails,
           QARevisionFails, QAEditorFails
      <4>2. QED
        BY <4>1, RaisesLess
    <3>4. QED
      BY <2>1, <3>1, <3>2, <3>3 DEF Lane
  <2>2. CASE ContextAssembler \/ ComposeJoin \/ ComposeJoinWait \/ QAJoin \/ ReleaseGate
    BY <2>2, ReturnsLess DEF ContextAssembler, ComposeJoin, ComposeJoinWait, QAJoin,
       ReleaseGate, Passes
  <2>3. CASE QAJoinFails \/ ReleaseGateFails
    BY <2>3, RaisesLess DEF QAJoinFails, ReleaseGateFails
  <2>4. QED
    BY <2>1, <2>2, <2>3, RunLess DEF Next, Steps, Shared
<1>3. LeftOK /\ LeftOK' /\ [LessIsLeft]_vars => [(<<Left', Left>> \in Descent)]_vars
  BY LessIsBelow
<1>4. QED
  BY <1>1, <1>2, <1>3, TypeCorrect, PTL DEF Spec
=============================================================================
