---------------------------- MODULE ComposeGraph ----------------------------
(* The compose agent: a graph that drafts one document per lane, passes it   *)
(* through three guards and a reviewer, and joins the lanes for release.     *)
(* The graph runs in supersteps: the nodes of a step run concurrently, share *)
(* the lane objects and the map of QA results by reference, and what they    *)
(* return to the "lanes" channel is merged when the step ends.  A worker may *)
(* die at any point; the job is then composed again from its last snapshot.  *)
EXTENDS Naturals, FiniteSets

CONSTANTS
    Lanes,           \* the client and the lawyer lane
    Both,            \* marks the nodes that belong to no lane
    Absent,          \* no entry in a map, no snapshot
    Keep,            \* a node returns nothing for a lane
    MaxAttempts,     \* max_client_attempts, max_lawyer_attempts
    QALimit,         \* qa_iteration_limit
    RecursionLimit,  \* supersteps LangGraph allows one run
    Modes,           \* settings to consider: pairs of enforced and async
    Refusing,        \* guards that may refuse a draft (bound)
    MaxCrashes       \* deaths of the worker (bound)

Guards  == {"structure", "compliance", "factuality"}
Actions == {"none", "revise", "editor"}
Causes  == {"none", "model", "attempts", "unchanged", "brief", "edited",
            "join", "lanes", "steps"}

(* What a lane hands over for release, and what its review says. *)
Outcomes == [document : Nat, passed : SUBSET Guards]
Results  == [action : Actions, document : Nat]

ASSUME ComposeAssumption ==
    /\ Lanes # {} /\ Both \notin Lanes
    /\ Keep # Absent /\ Keep \notin Outcomes /\ Absent \notin Results
    /\ MaxAttempts \in Nat \ {0}
    /\ QALimit \in Nat
    /\ RecursionLimit \in Nat \ {0}
    /\ Modes \subseteq BOOLEAN \X BOOLEAN
    /\ Refusing \subseteq Guards
    /\ MaxCrashes \in Nat

VARIABLES
    enforced,   \* COMPOSE_QA_ENFORCED
    async,      \* the graph is first run by asyncio
    lane,       \* ComposeState: the lane objects
    result,     \* ComposeState: qa_lane_results
    outcome,    \* ComposeState: lanes
    qa,         \* ComposeState: the joint verdict
    iterations, \* ComposeState: qa_iterations
    todo,       \* nodes of this superstep that have not finished
    next,       \* nodes of the next superstep
    asked,      \* lanes whose composer waits for the model
    update,     \* what the nodes of this step returned for the lanes channel
    step,       \* number of this superstep
    phase,      \* running, raised (a node raised), crashed, failed, released
    cause,      \* why the first node raised
    origin,     \* the ComposeState the graph was started with
    fell,       \* the asyncio run failed and the graph was started again
    saved,      \* the snapshot the manifest names
    crashes,    \* deaths of the worker so far
    spent       \* drafts asked of the model, in all runs of the job

config == <<enforced, async>>
state  == <<lane, result, outcome, qa, iterations>>
sched  == <<todo, next, asked, update, step>>
run    == <<phase, cause, origin, fell, crashes>>
vars   == <<config, state, sched, run, saved, spent>>

(* Documents are numbered: 2n is the draft of the n-th request, 2n + 1 what  *)
(* the editor made of it.                                                    *)
NewLane == [attempts |-> 0, brief |-> FALSE, document |-> 0, passed |-> {},
            edited |-> FALSE]

(* A ComposeState, as a snapshot holds it. *)
Fresh == [lane       |-> [l \in Lanes |-> NewLane],
          result     |-> [l \in Lanes |-> Absent],
          outcome    |-> [l \in Lanes |-> Absent],
          qa         |-> Absent,
          iterations |-> 0]

Image == [lane |-> lane, result |-> result, outcome |-> outcome, qa |-> qa,
          iterations |-> iterations]

Nothing == [l \in Lanes |-> Keep]
Start   == {<<"context", Both>>}

Init ==
    /\ \E m \in Modes : enforced = m[1] /\ async = m[2]
    /\ lane = Fresh.lane /\ result = Fresh.result /\ outcome = Fresh.outcome
    /\ qa = Fresh.qa /\ iterations = Fresh.iterations
    /\ origin = Fresh /\ saved = Fresh
    /\ todo = Start /\ next = {} /\ asked = {} /\ update = Nothing
    /\ step = 1 /\ phase = "running" /\ cause = "none"
    /\ fell = FALSE /\ crashes = 0
    /\ spent = [l \in Lanes |-> 0]

(***************************************************************************)
(* A node of the graph                                                     *)
(***************************************************************************)
(* Nodes already started finish even if another one of the step raised. *)
Ready(n) == n \in todo /\ phase \in {"running", "raised"}

Follow(n, nodes) == todo' = todo \ {n} /\ next' = next \cup nodes

(* The node returns, and asks that nodes run next. *)
Returns(n, nodes) ==
    /\ Ready(n)
    /\ Follow(n, nodes)
    /\ UNCHANGED <<config, step, run, spent>>

(* Every snapshot is written (assumption).  Bound: none is kept once no      *)
(* crash is left to read it.                                                 *)
Snapshot(s) == saved' = IF crashes < MaxCrashes THEN s ELSE Absent

(* The node raises; the first one to do so decides what is reported. *)
Raises(n, why) ==
    /\ Ready(n)
    /\ Follow(n, {})
    /\ phase' = "raised"
    /\ cause' = IF phase = "raised" THEN cause ELSE why
    /\ UNCHANGED <<config, result, outcome, qa, iterations, update, step, origin,
                   fell, crashes, saved, spent>>

Outcome(l) == [document |-> lane[l].document, passed |-> lane[l].passed]

ContextAssembler ==
    /\ Returns(<<"context", Both>>, {<<"composer", l>> : l \in Lanes})
    /\ UNCHANGED <<state, asked, update>>
    /\ Snapshot(Image)

(***************************************************************************)
(* Drafting: the attempt is counted, then the model is asked               *)
(***************************************************************************)
HasAttempt(l) == lane[l].attempts < MaxAttempts

ComposerAsks(l) ==
    /\ Ready(<<"composer", l>>)
    /\ l \notin asked
    /\ HasAttempt(l) \/ ~enforced
    /\ lane' = [lane EXCEPT ![l].attempts = @ + 1]
    /\ asked' = asked \cup {l}
    /\ spent' = [spent EXCEPT ![l] = @ + 1]
    /\ UNCHANGED <<config, result, outcome, qa, iterations, todo, next, update,
                   step, run, saved>>

ComposerGivesUp(l) ==
    /\ l \notin asked
    /\ enforced /\ ~HasAttempt(l)
    /\ Raises(<<"composer", l>>, "attempts")
    /\ UNCHANGED <<lane, asked>>

ComposerAnswers(l) ==
    /\ l \in asked
    /\ Returns(<<"composer", l>>, {<<"structure", l>>})
    /\ lane' = [lane EXCEPT ![l].brief = FALSE, ![l].passed = {},
                            ![l].document = 2 * spent[l]]
    /\ asked' = asked \ {l}
    /\ UNCHANGED <<result, outcome, qa, iterations, update>>
    /\ Snapshot(Image')

(* A revision that repeats the last draft: the document is set, then refused. *)
ComposerRepeats(l) ==
    /\ l \in asked
    /\ lane[l].brief
    /\ Raises(<<"composer", l>>, "unchanged")
    /\ lane' = [lane EXCEPT ![l].brief = FALSE, ![l].document = 2 * (@ \div 2)]
    /\ asked' = asked \ {l}

ComposerFails(l) ==
    /\ l \in asked
    /\ Raises(<<"composer", l>>, "model")
    /\ asked' = asked \ {l}
    /\ UNCHANGED lane

(***************************************************************************)
(* The guards, and the revision they ask for                               *)
(***************************************************************************)
Verdicts(guard) == {{guard}} \cup {{} : g \in {guard} \cap Refusing}

(* A guard judges the draft of lane l. *)
Judge(l, guard) ==
    \E pass \in Verdicts(guard) : lane' = [lane EXCEPT ![l].passed = @ \cup pass]

StructureValidator(l) ==
    /\ Returns(<<"structure", l>>, {<<"compliance", l>>})
    /\ Judge(l, "structure")
    /\ UNCHANGED <<result, outcome, qa, iterations, asked, update>>
    /\ Snapshot(Image')

ComplianceGuard(l) ==
    /\ Returns(<<"compliance", l>>, {<<"factuality", l>>})
    /\ Judge(l, "compliance")
    /\ UNCHANGED <<result, outcome, qa, iterations, asked, update>>
    /\ Snapshot(Image')

(* Variant for mutation runs: only the last report is looked at. *)
LooksGood(passed) == "factuality" \in passed

AllPass(passed) == passed = Guards

FactualityGate(l) ==
    /\ Judge(l, "factuality")
    /\ IF AllPass(lane'[l].passed)
       THEN /\ Returns(<<"factuality", l>>, {<<"reviewer", l>>})
            /\ update' = [update EXCEPT ![l] = Outcome(l)']
       ELSE /\ Returns(<<"factuality", l>>, {<<"revision", l>>})
            /\ UNCHANGED update
    /\ UNCHANGED <<result, outcome, qa, iterations, asked>>
    /\ Snapshot(Image')

Revision(l) ==
    /\ Returns(<<"revision", l>>, {<<"composer", l>>})
    /\ lane' = [lane EXCEPT ![l].brief = TRUE]
    /\ UNCHANGED <<result, outcome, qa, iterations, asked, update>>
    /\ Snapshot(Image')

(***************************************************************************)
(* Quality review of a lane                                                *)
(***************************************************************************)
AfterReview(l, action) ==
    CASE action = "revise" /\ HasAttempt(l) -> "qarevision"
      [] action = "editor"                  -> "qaeditor"
      [] OTHER                              -> "wait"

(* The review of lane l ends with the directive action. *)
Reviewed(l, action) ==
    /\ result' = [result EXCEPT ![l] = [action |-> action,
                                        document |-> lane[l].document]]
    /\ UNCHANGED <<lane, outcome, qa, iterations, asked>>

Skipped == ~enforced \/ iterations >= QALimit

ReviewerSkips(l) ==
    /\ Skipped
    /\ Returns(<<"reviewer", l>>, {<<"wait", l>>})
    /\ Reviewed(l, "none")
    /\ update' = [update EXCEPT ![l] = Outcome(l)]
    /\ Snapshot(Image')

(* qa_iterations is incremented in the node's own copy of the state: the     *)
(* snapshot records it, the graph does not.                                  *)
ReviewerAnswers(l) ==
    \E a \in Actions :
        /\ ~Skipped
        /\ Returns(<<"reviewer", l>>, {<<AfterReview(l, a), l>>})
        /\ Reviewed(l, a)
        /\ UNCHANGED update
        /\ Snapshot([Image' EXCEPT !.iterations = iterations + 1])

ReviewerFails(l) ==
    /\ ~Skipped
    /\ Raises(<<"reviewer", l>>, "model")
    /\ UNCHANGED <<lane, asked>>

QARevision(l) ==
    /\ Returns(<<"qarevision", l>>, {<<"composer", l>>})
    /\ lane' = [lane EXCEPT ![l].brief = TRUE, ![l].passed = {}, ![l].edited = FALSE]
    /\ result' = [result EXCEPT ![l] = Absent]
    /\ update' = [update EXCEPT ![l] = Absent]
    /\ UNCHANGED <<outcome, qa, iterations, asked>>
    /\ Snapshot(Image')

(* The reviewer asked for a revision and gave no brief. *)
QARevisionFails(l) ==
    /\ Raises(<<"qarevision", l>>, "brief")
    /\ UNCHANGED <<lane, asked>>

(* Variant for mutation runs: the edit is not remembered. *)
EditUnmarked(l) == lane' = [lane EXCEPT ![l].document = @ + 1]

Edit(l) == lane' = [lane EXCEPT ![l].document = @ + 1, ![l].edited = TRUE]

(* The snapshot is taken before the lane's result is dropped. *)
QAEditor(l) ==
    /\ ~lane[l].edited
    /\ Returns(<<"qaeditor", l>>, {<<"reviewer", l>>})
    /\ Edit(l)
    /\ result' = [result EXCEPT ![l] = Absent]
    /\ UNCHANGED <<outcome, qa, iterations, asked, update>>
    /\ Snapshot([Image' EXCEPT !.result = result])

QAEditorFails(l) ==
    /\ Raises(<<"qaeditor", l>>, IF lane[l].edited THEN "edited" ELSE "model")
    /\ UNCHANGED <<lane, asked>>

(***************************************************************************)
(* Joining the lanes                                                       *)
(***************************************************************************)
Passes(n, nodes) ==
    /\ Returns(n, nodes)
    /\ UNCHANGED <<state, asked, update, saved>>

AllReviewed == \A l \in Lanes : result[l] # Absent

WaitForLane(l) == Passes(<<"wait", l>>, {<<"join", Both>>})

(* Variant for mutation runs: a lane that ends after a first joint verdict *)
(* is not joined again.                                                    *)
JoinOnce == IF AllReviewed /\ qa = Absent THEN "qajoin" ELSE "joinwait"

JoinRoute == IF AllReviewed THEN "qajoin" ELSE "joinwait"

ComposeJoin == Passes(<<"join", Both>>, {<<JoinRoute, Both>>})

ComposeJoinWait == Passes(<<"joinwait", Both>>, {})

QAJoin ==
    /\ AllReviewed
    /\ Returns(<<"qajoin", Both>>, {<<"release", Both>>})
    /\ qa' = result
    /\ UNCHANGED <<lane, result, outcome, iterations, asked, update>>
    /\ Snapshot(Image')

QAJoinFails ==
    /\ ~AllReviewed
    /\ Raises(<<"qajoin", Both>>, "join")
    /\ UNCHANGED <<lane, asked>>

AllDrafted == \A l \in Lanes : outcome[l] # Absent

ReleaseGate ==
    /\ AllDrafted
    /\ Returns(<<"release", Both>>, {})
    /\ UNCHANGED <<state, asked, update>>
    /\ Snapshot(Image)

ReleaseGateFails ==
    /\ ~AllDrafted
    /\ Raises(<<"release", Both>>, "lanes")
    /\ UNCHANGED <<lane, asked>>

(***************************************************************************)
(* The superstep, the run and the job                                      *)
(***************************************************************************)
(* Variants for mutation runs: the update replaces the map; the reducer *)
(* keeps the outcome it has.                                            *)
RawOutcome(l) == update[l]

KeepOutcome(l) == IF update[l] = Keep \/ outcome[l] # Absent
                  THEN outcome[l] ELSE update[l]

MergedOutcome(l) == IF update[l] = Keep THEN outcome[l] ELSE update[l]

(* The reducers of the channels. *)
Merge ==
    /\ outcome' = [l \in Lanes |-> MergedOutcome(l)]
    /\ update' = Nothing
    /\ UNCHANGED <<lane, result, qa, iterations>>

StepEnds ==
    /\ phase = "running" /\ todo = {} /\ next # {}
    /\ todo' = next /\ next' = {}
    /\ Merge
    /\ IF step < RecursionLimit
       THEN step' = step + 1 /\ UNCHANGED <<phase, cause>>
       ELSE step' = step /\ phase' = "raised" /\ cause' = "steps"
    /\ UNCHANGED <<config, asked, origin, fell, crashes, saved, spent>>

(* The agent writes the documents of state.lanes; a combined status other    *)
(* than ok is logged and released all the same.                              *)
Release ==
    /\ phase = "running" /\ todo = {} /\ next = {}
    /\ Merge
    /\ phase' = IF qa # Absent /\ AllDrafted' THEN "released" ELSE "failed"
    /\ UNCHANGED <<config, todo, next, asked, step, cause, origin, fell, crashes,
                   saved, spent>>

StartsGraph ==
    /\ todo' = Start /\ next' = {} /\ asked' = {} /\ update' = Nothing
    /\ step' = 1 /\ phase' = "running" /\ cause' = "none"

TakesMaps(s) ==
    /\ result' = s.result /\ outcome' = s.outcome
    /\ qa' = s.qa /\ iterations' = s.iterations

(* Variant for mutation runs: the second run starts with new lanes. *)
NewLanes == lane' = origin.lane

SameLanes == UNCHANGED lane

(* Every failure of the graph is a RuntimeError, and so is taken for a sign  *)
(* that asyncio is not available: the graph runs again on the lane objects   *)
(* the first run left behind, and on the maps it was given.                  *)
RunsAgain ==
    /\ phase = "raised" /\ asked = {}
    /\ async
    /\ StartsGraph
    /\ SameLanes
    /\ TakesMaps(origin)
    /\ fell' = TRUE
    /\ UNCHANGED <<config, saved, origin, crashes, spent>>

FallsBack == ~fell /\ RunsAgain

Fails ==
    /\ phase = "raised" /\ asked = {}
    /\ ~async \/ fell
    /\ phase' = "failed"
    /\ UNCHANGED <<config, state, sched, cause, origin, fell, crashes, saved, spent>>

(* The worker dies; it may have been writing the manifest. *)
Crash ==
    /\ phase \in {"running", "raised"}
    /\ crashes < MaxCrashes
    /\ crashes' = crashes + 1
    /\ phase' = "crashed"
    /\ saved' \in {saved, Absent}
    /\ UNCHANGED <<config, state, sched, cause, origin, fell, spent>>

(* A recovery pass has queued the job again, with resume = True. *)
Restored == IF saved = Absent THEN Fresh ELSE saved

Resume ==
    /\ phase = "crashed"
    /\ StartsGraph
    /\ lane' = Restored.lane
    /\ TakesMaps(Restored)
    /\ origin' = Restored
    /\ Snapshot(Restored)
    /\ fell' = FALSE
    /\ UNCHANGED <<config, crashes, spent>>

Lane(l) ==
    \/ ComposerAsks(l) \/ ComposerGivesUp(l) \/ ComposerAnswers(l)
    \/ ComposerRepeats(l) \/ ComposerFails(l)
    \/ StructureValidator(l) \/ ComplianceGuard(l) \/ FactualityGate(l) \/ Revision(l)
    \/ ReviewerSkips(l) \/ ReviewerAnswers(l) \/ ReviewerFails(l)
    \/ QARevision(l) \/ QARevisionFails(l) \/ QAEditor(l) \/ QAEditorFails(l)
    \/ WaitForLane(l)

Shared ==
    \/ ContextAssembler \/ ComposeJoin \/ ComposeJoinWait \/ QAJoin \/ QAJoinFails
    \/ ReleaseGate \/ ReleaseGateFails
    \/ StepEnds \/ Release \/ FallsBack \/ Fails

Steps == (\E l \in Lanes : Lane(l)) \/ Shared

Next == Steps \/ Crash \/ Resume

Spec     == Init /\ [][Next]_vars
FairSpec == Spec /\ WF_vars(Steps) /\ WF_vars(Resume)

(***************************************************************************)
(* Properties                                                              *)
(***************************************************************************)
LaneStates == [attempts : Nat, brief : BOOLEAN, document : Nat,
               passed : SUBSET Guards, edited : BOOLEAN]
States     == [lane : [Lanes -> LaneStates],
               result : [Lanes -> Results \cup {Absent}],
               outcome : [Lanes -> Outcomes \cup {Absent}],
               qa : [Lanes -> Results \cup {Absent}] \cup {Absent},
               iterations : Nat]
Nodes      == ({"composer", "structure", "compliance", "factuality", "revision",
                "reviewer", "qarevision", "qaeditor", "wait"} \X Lanes) \cup
              ({"context", "join", "joinwait", "qajoin", "release"} \X {Both})

StateOK ==
    /\ lane \in [Lanes -> LaneStates]
    /\ result \in [Lanes -> Results \cup {Absent}]
    /\ outcome \in [Lanes -> Outcomes \cup {Absent}]
    /\ qa \in [Lanes -> Results \cup {Absent}] \cup {Absent}
    /\ iterations \in Nat

ScheduleOK ==
    /\ todo \subseteq Nodes /\ next \subseteq Nodes /\ asked \subseteq Lanes
    /\ update \in [Lanes -> Outcomes \cup {Absent, Keep}]

JobOK ==
    /\ enforced \in BOOLEAN /\ async \in BOOLEAN /\ fell \in BOOLEAN
    /\ origin \in States /\ saved \in States \cup {Absent}
    /\ step \in 1..RecursionLimit
    /\ phase \in {"running", "raised", "crashed", "failed", "released"}
    /\ cause \in Causes
    /\ crashes \in 0..MaxCrashes
    /\ spent \in [Lanes -> Nat]

(* Every variable keeps the kind of value the agent gives it. *)
TypeOK == StateOK /\ ScheduleOK /\ JobOK

(* What is released passed the three guards, in both lanes: neither an early *)
(* join, nor a resumed run that finds the outcomes of the dead one, nor the  *)
(* second run after asyncio lets a refused draft out.                        *)
ReleasedIsGuarded ==
    phase = "released" => \A l \in Lanes : outcome[l].passed = Guards

(* What is released was drafted in answer to the last request of its lane:   *)
(* an outcome restored from a snapshot, or set before the reviewer sent the  *)
(* lane back, is never the one that is written.                              *)
ReleasedIsLastDraft ==
    phase = "released" => \A l \in Lanes : outcome[l].document \div 2 = spent[l]

(* The joint verdict that is written with the documents is made of the last  *)
(* review of each lane, although the join may run before a lane is done.     *)
VerdictIsCurrent == phase = "released" => qa = result

(* Where QA is enforced, a lane asks for no more drafts than its limit, once *)
(* for every life of the worker: the second run after asyncio starts from    *)
(* the attempts the first one made.                                          *)
BudgetHolds == enforced => \A l \in Lanes : spent[l] <= MaxAttempts * (1 + crashes)

(* Where QA is enforced the loops are bounded by the attempts and by the one *)
(* edit per draft: no run is ended by LangGraph's limit on supersteps.       *)
EnforcedFitsLimit == enforced => cause # "steps"

(* The run of a job ends, released or failed, whatever the reviewers ask. *)
Terminates == <>[](phase \in {"failed", "released"})

(* What the plan of the agent says: "Revision/editor directives clear the    *)
(* lane outcome", so the document released is the one the lane's last review *)
(* approved.                                                                 *)
ReleasedIsReviewed ==
    (phase = "released" /\ enforced) =>
        \A l \in Lanes : outcome[l].document = result[l].document
=============================================================================
