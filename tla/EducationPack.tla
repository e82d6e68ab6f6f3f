---------------------------- MODULE EducationPack ----------------------------
(***************************************************************************)
(* An evaluation case of the education pack: one run of one of its         *)
(* workflows over the context the case seeds, scored at its end.  Module   *)
(* Runtime models how a run is scheduled, stopped and resumed; this one    *)
(* follows the data: what a node's selector merges, what the tools and     *)
(* agents of the pack make of it, and which branch the decision takes.     *)
(*                                                                         *)
(* A payload maps the fields it has to where the value came from and what  *)
(* it says.  Fields that one node alone writes and no other reads by name  *)
(* are left out; so are the texts, except a skill and a mastery signal.    *)
(***************************************************************************)
EXTENDS EducationWorkflows, FiniteSets

CONSTANTS
    Skill,      \* skills a learner or a model may name
    Volunteers  \* fields a model may add to the ones it was asked for

Field == {"goal", "target_skill", "score", "learner_response", "error_analysis",
          "mastery_signal"}

Value == Skill \cup {"weak", "strong", "text"}
Origin == {"learner", "learner_profiler", "curriculum_planner", "exercise_designer",
           "reviewer_grader", "tutor_coach", "answer_normalizer"}
Datum == [by : Origin, says : Value]

\* A tool answers None in the fields it did not find in its input.
None == [by |-> "nobody", says |-> "none"]

\* A payload has some of the fields.
IsPayload(p) == DOMAIN p \subseteq Field /\ p \in [DOMAIN p -> Datum \cup {None}]

NoPayload == [f \in {} |-> None]

ASSUME SkillAssumption == {"fraction addition", "fractions mastery"} \subseteq Skill
ASSUME VolunteersAssumption == Volunteers \subseteq Field

-----------------------------------------------------------------------------
(* The evaluation cases and what they seed.                                 *)

Seeded(says) == [f \in DOMAIN says |-> [by |-> "learner", says |-> says[f]]]

Aim == [f \in {"goal"} |-> "fractions mastery"]
LearnerWork ==
    [f \in {"goal", "target_skill", "learner_response", "score", "error_analysis"} |->
        CASE f = "goal"         -> "fractions mastery"
          [] f = "target_skill" -> "fraction addition"
          [] OTHER              -> "text"]

EvalCase(workflow, seed, required) ==
    [workflow |-> workflow, seed |-> seed, required |-> required]

CaseName == {"diagnostic_plan", "practice_review", "remediation_weak", "remediation_strong"}
EvaluationCase == [c \in CaseName |->
    CASE c = "diagnostic_plan" -> EvalCase("diagnostic_plan", Seeded(Aim), DiagnosticNode)
      [] c = "practice_review" -> EvalCase("practice_review", Seeded(LearnerWork), PracticeNode)
      [] c = "remediation_weak" ->
             EvalCase("remediation_loop", Seeded(LearnerWork),
                      RemediationNode \ {coach_progress_path})
      [] c = "remediation_strong" ->
             EvalCase("remediation_loop", Seeded(LearnerWork),
                      RemediationNode \ {lookup_remediation_template,
                          design_remediation_exercises, coach_remediation_path})]

VARIABLES
    case,      \* the case under evaluation
    status,    \* NodeState.status of every node of its workflow
    input,     \* NodeState.input_snapshot
    artifact,  \* payload of the node's output artifact
    matched,   \* the field "matched" of the decision's output; "none" before it
    run,       \* run status; "stuck": failed for want of progress; "raised": the
               \* driver gets an exception
    verdict    \* status of the case's result; "none" before it

vars == <<case, status, input, artifact, matched, run, verdict>>

Flow == EvaluationCase[case].workflow
NodeId == DOMAIN NodeSpecs[Flow]

-----------------------------------------------------------------------------
(* Selecting a node's input.                                                *)

HasSources(reads) ==
    \A i \in DOMAIN reads : reads[i] # Seed => status[reads[i]] = "succeeded"

Resolve(s) == IF s = Seed THEN EvaluationCase[case].seed ELSE artifact[s]

\* _deep_merge over the resolved sources: a field has the value of the last source
\* that has the field.
Having(reads, f) == {i \in DOMAIN reads : f \in DOMAIN Resolve(reads[i])}
LastHaving(reads, f) == CHOOSE i \in Having(reads, f) : \A j \in Having(reads, f) : j <= i
Merged(reads) == UNION {DOMAIN Resolve(reads[i]) : i \in DOMAIN reads}
Merge(reads) == [f \in Merged(reads) |-> Resolve(reads[LastHaving(reads, f)])[f]]

-----------------------------------------------------------------------------
(* Which nodes may run.                                                     *)

EdgesInto(n) == {e \in PlainEdges(Flow) : e[2] = n}
Decisions(n) == {e \in DecisionEdges : e.to = n /\ Flow = "remediation_loop"}

\* Mistaken variant: a decision counts as made either way.
EitherWay(n) == IF Decisions(n) = {} \/ matched = "none" THEN {} ELSE {decide_remediation_path}

\* The source of the conditional edge, when its condition holds.
DecidedFor(n) ==
    IF \E e \in Decisions(n) : e.matched = matched THEN {decide_remediation_path} ELSE {}

\* _dependencies_satisfied with the default join.
Ready(n) ==
    LET upstream == {e[1] : e \in EdgesInto(n)} \cup DecidedFor(n)
    IN  /\ status[n] = "pending"
        /\ IF EdgesInto(n) = {} /\ Decisions(n) = {}
           THEN n = EntryNode[Flow]
           ELSE upstream # {} /\ \A u \in upstream : status[u] = "succeeded"

-----------------------------------------------------------------------------
(* The tools of the pack: a set of outputs, empty when the tool fails.      *)

CurriculumReference == {"fraction addition", "fractions mastery"}
TemplateReference == {"fraction addition"}
RubricReference == {"fraction addition", "fractions mastery"}

Found(p, f) == IF f \in DOMAIN p THEN p[f] ELSE None
Kept(p, fields) == [f \in fields |-> Found(p, f)]

\* The skill looked up: the target skill or, for want of one, the goal.
CurriculumLookup(p) ==
    LET asked == IF Found(p, "target_skill") # None THEN "target_skill" ELSE "goal"
    IN  IF Found(p, asked).says \in CurriculumReference
        THEN {[f \in {"target_skill", "goal"} |->
                   Found(p, IF f = "target_skill" THEN asked ELSE f)]} ELSE {}

ExerciseTemplateLookup(p) ==
    IF Found(p, "target_skill").says \in TemplateReference
    THEN {Kept(p, {"target_skill", "mastery_signal"})} ELSE {}

RubricLookup(p) ==
    IF Found(p, "target_skill").says \in RubricReference
    THEN {Kept(p, {"target_skill"})} ELSE {}

AnswerNormalizer(p) == {Kept(p, {"target_skill"})}

ToolOutputs(ref, p) ==
    CASE ref = "curriculum_lookup"        -> CurriculumLookup(p)
      [] ref = "exercise_template_lookup" -> ExerciseTemplateLookup(p)
      [] ref = "rubric_lookup"            -> RubricLookup(p)
      [] ref = "answer_normalizer"        -> AnswerNormalizer(p)

-----------------------------------------------------------------------------
(* The agents: each asks the model once, for an object with the keys it    *)
(* requires, and keeps whatever the model answers beyond them.             *)

LearnerProfiler == {"goal"}
CurriculumPlanner == {"goal"}
ExerciseDesigner == {"target_skill"}
ReviewerGrader == {"target_skill", "mastery_signal", "error_analysis"}
TutorCoach == {}

RequiredKeys(ref) ==
    CASE ref = "learner_profiler"   -> LearnerProfiler
      [] ref = "curriculum_planner" -> CurriculumPlanner
      [] ref = "exercise_designer"  -> ExerciseDesigner
      [] ref = "reviewer_grader"    -> ReviewerGrader
      [] ref = "tutor_coach"        -> TutorCoach

\* What a model may say in a field.
Sayable(f) ==
    CASE f \in {"goal", "target_skill"} -> Skill
      [] f = "mastery_signal"           -> {"weak", "strong"}
      [] OTHER                          -> {"text"}

\* _maybe_invoke_llm_json: an object with any keys, or nothing.
ModelObjects(ref) ==
    UNION {{[f \in keys |-> [by |-> ref, says |-> says[f]]] :
                says \in {g \in [keys -> Value] : \A f \in keys : g[f] \in Sayable(f)}} :
           keys \in {RequiredKeys(ref), RequiredKeys(ref) \cup Volunteers, {}}}

\* _require_llm_output: the objects that have every key the agent asked for.
AgentOutputs(ref) == {o \in ModelObjects(ref) : RequiredKeys(ref) \subseteq DOMAIN o}

\* The outputs a node may have; with none of them it fails.
Outputs(n, p) ==
    LET spec == NodeSpecs[Flow][n]
    IN  CASE spec.kind = "agent" -> AgentOutputs(spec.ref)
          [] spec.kind = "tool"  -> ToolOutputs(spec.ref, p)
          [] OTHER               -> {p}

-----------------------------------------------------------------------------

Init ==
    /\ case \in CaseName
    /\ status = [n \in NodeId |-> "pending"]
    /\ input = [n \in NodeId |-> NoPayload]
    /\ artifact = [n \in NodeId |-> NoPayload]
    /\ matched = "none"
    /\ run = "running"
    /\ verdict = "none"

\* The condition node: mastery_signal eq "weak".
Decided(n, p) ==
    IF n # decide_remediation_path THEN matched
    ELSE IF p["mastery_signal"].says = "weak" THEN "true" ELSE "false"

Ended(newStatus) ==
    IF Flow = "remediation_loop"
    THEN \E n \in RemediationEnds : newStatus[n] = "succeeded"
    ELSE \A n \in NodeId : newStatus[n] = "succeeded"

\* The scheduler's answer once a node has succeeded: with nothing ready and no end
\* reached the run fails for want of progress (NO_PROGRESS).
Decide ==
    IF \E n \in NodeId : Ready(n) THEN "running"
    ELSE IF Ended(status) THEN "completed" ELSE "stuck"

NodeSucceeds(n) ==
    LET p == Merge(NodeSpecs[Flow][n].reads)
    IN  /\ HasSources(NodeSpecs[Flow][n].reads)
        /\ \E output \in Outputs(n, p) : artifact' = [artifact EXCEPT ![n] = output]
        /\ input' = [input EXCEPT ![n] = p]
        /\ status' = [status EXCEPT ![n] = "succeeded"]
        /\ matched' = Decided(n, p)
        /\ UNCHANGED <<case, verdict>>
        /\ run' = Decide'

(***************************************************************************)
(* A tool finds nothing, or a model fails or leaves a required key out.    *)
(* Without the artifact of a source the selector raises, before the node   *)
(* is marked, and the run is left as it is.                                *)
(***************************************************************************)
NodeFails(n) ==
    LET spec  == NodeSpecs[Flow][n]
        there == HasSources(spec.reads)
    IN  /\ there => \/ spec.kind = "agent"
                    \/ spec.kind = "tool" /\ ToolOutputs(spec.ref, Merge(spec.reads)) = {}
        /\ input' = IF there THEN [input EXCEPT ![n] = Merge(spec.reads)] ELSE input
        /\ status' = IF there THEN [status EXCEPT ![n] = "failed"] ELSE status
        /\ run' = IF there THEN "failed" ELSE "raised"
        /\ UNCHANGED <<case, artifact, matched, verdict>>

RunNode(n) ==
    /\ run = "running"
    /\ Ready(n)
    /\ NodeSucceeds(n) \/ NodeFails(n)

Completed == {n \in NodeId : status[n] = "succeeded"}

\* Mistaken variant: any required node will do.
ScoreAny ==
    IF run = "completed" /\ EvaluationCase[case].required \cap Completed # {}
    THEN "passed" ELSE "failed"

\* RunStatusScorer, CompletedNodesScorer and EventPresenceScorer; run.started and
\* node.succeeded are there whenever run.completed is.
Score ==
    IF run = "completed" /\ EvaluationCase[case].required \subseteq Completed
    THEN "passed" ELSE "failed"

\* run_case: an exception of the driver is the result "error".
JudgeCase ==
    /\ verdict = "none"
    /\ run # "running"
    /\ verdict' = IF run = "raised" THEN "error" ELSE Score
    /\ UNCHANGED <<case, status, input, artifact, matched, run>>

Next == JudgeCase \/ \E n \in NodeId : RunNode(n)

Spec == Init /\ [][Next]_vars

TypeOK ==
    /\ case \in CaseName
    /\ status \in [NodeId -> {"pending", "succeeded", "failed"}]
    /\ input = [n \in NodeId |-> input[n]] /\ \A n \in NodeId : IsPayload(input[n])
    /\ artifact = [n \in NodeId |-> artifact[n]] /\ \A n \in NodeId : IsPayload(artifact[n])
    /\ matched \in {"none", "true", "false"}
    /\ run \in {"running", "completed", "failed", "stuck", "raised"}
    /\ verdict \in {"none", "passed", "failed", "error"}

-----------------------------------------------------------------------------
(* Correctness                                                              *)

(***************************************************************************)
(* No node starts before every payload its selector names is there: the    *)
(* edges of each workflow cover its selectors, whatever the order in which *)
(* its branches finish (definitions.py; the selector raises otherwise and  *)
(* the run stays running for ever).                                        *)
(***************************************************************************)
InputsAreThere == run # "raised"

(***************************************************************************)
(* The reviewer grades what the learner handed in, against the rubric of   *)
(* the skill the exercises were designed for, although the designer and    *)
(* the lookups write the same fields: score and response are the learner's *)
(* and the skill is the one the designer named (order of the sources of    *)
(* review_submission and review_attempt, _deep_merge).                     *)
(***************************************************************************)
ReviewGradesTheLearner ==
    \A n \in NodeId : \A d \in NodeId :
        /\ NodeSpecs[Flow][n].ref = "reviewer_grader" /\ status[n] # "pending"
        /\ d \in {design_exercises, design_initial_exercises}
        => /\ input[n]["score"].by = "learner"
           /\ input[n]["learner_response"].by = "learner"
           /\ input[n]["target_skill"] = artifact[d]["target_skill"]

(***************************************************************************)
(* A case that passed took the path its scenario names: remediation was    *)
(* designed and coached only after a review that said weak, progress was   *)
(* coached only after one that did not, and never both (the decision, its  *)
(* two edges, and the scorers of the case).                                *)
(***************************************************************************)
PassedTookItsPath ==
    /\ verdict = "passed" =>
        /\ case = "remediation_weak" => artifact[review_attempt]["mastery_signal"].says = "weak"
        /\ case = "remediation_strong" => artifact[review_attempt]["mastery_signal"].says # "weak"
    /\ Flow = "remediation_loop" => Cardinality(RemediationEnds \cap Completed) <= 1

(***************************************************************************)
(* No case fails for want of progress: while no node has failed and no end *)
(* is reached, some node is ready.  Each decision opens one of the two     *)
(* branches whatever the review says, and no node waits for one of the     *)
(* branch not taken (the edges of definitions.py; NO_PROGRESS otherwise,   *)
(* although every node that ran succeeded).                                *)
(***************************************************************************)
CasesProgress == run # "stuck"
=============================================================================
