------------------------- MODULE EducationWorkflows -------------------------
(***************************************************************************)
(* The three workflows of the education pack, as its definitions declare   *)
(* them: what every node does and which payloads its selector merges, in   *)
(* the order it merges them; the edges; and the nodes that end the run.    *)
(* No node declares a join policy, so every join is all_success.           *)
(***************************************************************************)
EXTENDS Integers, Sequences

Workflow == {"diagnostic_plan", "practice_review", "remediation_loop"}

profile_learner == 1
lookup_curriculum_context == 2
plan_curriculum == 3
coach_learner == 4

design_exercises == 11
lookup_exercise_template == 12
capture_submission == 13
normalize_submission == 14
lookup_review_rubric == 15
review_submission == 16
coach_feedback == 17

design_initial_exercises == 21
capture_attempt == 22
normalize_attempt == 23
lookup_attempt_rubric == 24
review_attempt == 25
decide_remediation_path == 26
lookup_remediation_template == 27
design_remediation_exercises == 28
coach_remediation_path == 29
coach_progress_path == 30

\* The source of a selector that is no node: thread_state.global_context.
Seed == 0

Spec1(kind, ref, reads) == [kind |-> kind, ref |-> ref, reads |-> reads]
AgentNode(ref, reads) == Spec1("agent", ref, reads)
ToolNode(ref, reads) == Spec1("tool", ref, reads)

-----------------------------------------------------------------------------
(* education.diagnostic_plan                                                *)

DiagnosticNode ==
    {profile_learner, lookup_curriculum_context, plan_curriculum, coach_learner}

DiagnosticNodes == [n \in DiagnosticNode |->
    CASE n = profile_learner           -> AgentNode("learner_profiler", <<Seed>>)
      [] n = lookup_curriculum_context -> ToolNode("curriculum_lookup", <<profile_learner>>)
      [] n = plan_curriculum ->
             AgentNode("curriculum_planner", <<profile_learner, lookup_curriculum_context>>)
      [] n = coach_learner ->
             AgentNode("tutor_coach", <<profile_learner, plan_curriculum>>)]

DiagnosticEdges ==
    {<<profile_learner, lookup_curriculum_context>>, <<profile_learner, plan_curriculum>>,
     <<lookup_curriculum_context, plan_curriculum>>, <<plan_curriculum, coach_learner>>}

-----------------------------------------------------------------------------
(* education.practice_review                                                *)

PracticeNode ==
    {design_exercises, lookup_exercise_template, capture_submission, normalize_submission,
     lookup_review_rubric, review_submission, coach_feedback}

\* Mistaken variant: the submission is merged after what was looked up for it.
PracticeNodesCaptureFirst == [n \in PracticeNode |->
    CASE n = design_exercises         -> AgentNode("exercise_designer", <<Seed>>)
      [] n = lookup_exercise_template ->
             ToolNode("exercise_template_lookup", <<design_exercises>>)
      [] n = capture_submission       -> Spec1("noop", "noop", <<Seed>>)
      [] n = normalize_submission     -> ToolNode("answer_normalizer", <<capture_submission>>)
      [] n = lookup_review_rubric     -> ToolNode("rubric_lookup", <<design_exercises>>)
      [] n = review_submission ->
             AgentNode("reviewer_grader", <<capture_submission, design_exercises,
                                            lookup_exercise_template, normalize_submission,
                                            lookup_review_rubric>>)
      [] n = coach_feedback ->
             AgentNode("tutor_coach", <<review_submission, capture_submission>>)]

PracticeNodes == [n \in PracticeNode |->
    CASE n = design_exercises         -> AgentNode("exercise_designer", <<Seed>>)
      [] n = lookup_exercise_template ->
             ToolNode("exercise_template_lookup", <<design_exercises>>)
      [] n = capture_submission       -> Spec1("noop", "noop", <<Seed>>)
      [] n = normalize_submission     -> ToolNode("answer_normalizer", <<capture_submission>>)
      [] n = lookup_review_rubric     -> ToolNode("rubric_lookup", <<design_exercises>>)
      [] n = review_submission ->
             AgentNode("reviewer_grader", <<design_exercises, lookup_exercise_template,
                                            capture_submission, normalize_submission,
                                            lookup_review_rubric>>)
      [] n = coach_feedback ->
             AgentNode("tutor_coach", <<review_submission, capture_submission>>)]

\* Mistaken variant: the review does not wait for the rubric.
PracticeEdgesNoRubric ==
    {<<design_exercises, capture_submission>>, <<design_exercises, lookup_exercise_template>>,
     <<design_exercises, review_submission>>, <<capture_submission, normalize_submission>>,
     <<design_exercises, lookup_review_rubric>>, <<capture_submission, review_submission>>,
     <<normalize_submission, review_submission>>, <<lookup_exercise_template, review_submission>>,
     <<review_submission, coach_feedback>>, <<capture_submission, coach_feedback>>}

PracticeEdges ==
    {<<design_exercises, capture_submission>>, <<design_exercises, lookup_exercise_template>>,
     <<design_exercises, review_submission>>, <<capture_submission, normalize_submission>>,
     <<design_exercises, lookup_review_rubric>>, <<capture_submission, review_submission>>,
     <<normalize_submission, review_submission>>, <<lookup_review_rubric, review_submission>>,
     <<lookup_exercise_template, review_submission>>, <<review_submission, coach_feedback>>,
     <<capture_submission, coach_feedback>>}

-----------------------------------------------------------------------------
(* education.remediation_loop                                               *)

RemediationNode ==
    {design_initial_exercises, capture_attempt, normalize_attempt, lookup_attempt_rubric,
     review_attempt, decide_remediation_path, lookup_remediation_template,
     design_remediation_exercises, coach_remediation_path, coach_progress_path}

RemediationNodes == [n \in RemediationNode |->
    CASE n = design_initial_exercises     -> AgentNode("exercise_designer", <<Seed>>)
      [] n = capture_attempt              -> Spec1("noop", "noop", <<Seed>>)
      [] n = normalize_attempt ->
             ToolNode("answer_normalizer", <<capture_attempt>>)
      [] n = lookup_attempt_rubric ->
             ToolNode("rubric_lookup", <<design_initial_exercises>>)
      [] n = review_attempt ->
             AgentNode("reviewer_grader", <<design_initial_exercises, capture_attempt,
                                            normalize_attempt, lookup_attempt_rubric>>)
      [] n = decide_remediation_path ->
             Spec1("condition", "condition", <<review_attempt>>)
      [] n = lookup_remediation_template ->
             ToolNode("exercise_template_lookup", <<review_attempt>>)
      [] n = design_remediation_exercises ->
             AgentNode("exercise_designer", <<review_attempt, capture_attempt,
                                              lookup_remediation_template>>)
      [] n = coach_remediation_path ->
             AgentNode("tutor_coach", <<review_attempt, capture_attempt,
                                        design_remediation_exercises>>)
      [] n = coach_progress_path ->
             AgentNode("tutor_coach", <<review_attempt, capture_attempt>>)]

\* The edges without a condition.
RemediationEdges ==
    {<<design_initial_exercises, capture_attempt>>,
     <<design_initial_exercises, lookup_attempt_rubric>>,
     <<design_initial_exercises, review_attempt>>, <<capture_attempt, review_attempt>>,
     <<capture_attempt, normalize_attempt>>, <<normalize_attempt, review_attempt>>,
     <<lookup_attempt_rubric, review_attempt>>, <<review_attempt, decide_remediation_path>>,
     <<lookup_remediation_template, design_remediation_exercises>>,
     <<design_remediation_exercises, coach_remediation_path>>}

\* Mistaken variant: nothing follows a decision for progress.
RemediateOnly == {[to |-> lookup_remediation_template, matched |-> "true"]}

\* The edges whose condition tests the field "matched" of the decision.
DecisionEdges ==
    {[to |-> lookup_remediation_template, matched |-> "true"],
     [to |-> coach_progress_path, matched |-> "false"]}

\* EXPLICIT_NODE_COMPLETED; the other two workflows end when every node has.
RemediationEnds == {coach_remediation_path, coach_progress_path}

-----------------------------------------------------------------------------
(* get_education_workflow_definitions                                       *)

NodeSpecs == [w \in Workflow |->
    CASE w = "diagnostic_plan"  -> DiagnosticNodes
      [] w = "practice_review"  -> PracticeNodes
      [] w = "remediation_loop" -> RemediationNodes]

PlainEdges(w) ==
    CASE w = "diagnostic_plan"  -> DiagnosticEdges
      [] w = "practice_review"  -> PracticeEdges
      [] w = "remediation_loop" -> RemediationEdges

EntryNode == [diagnostic_plan |-> profile_learner, practice_review |-> design_exercises,
              remediation_loop |-> design_initial_exercises]
=============================================================================
