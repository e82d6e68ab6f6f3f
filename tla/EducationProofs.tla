--------------------------- MODULE EducationProofs ---------------------------
(***************************************************************************)
(* Why an evaluation case of the education pack keeps its promises,        *)
(* whatever the model answers and adds, and whatever skills there are: the *)
(* edges bring every source of a selector before its reader; the learner's *)
(* work is merged after whatever could overwrite it, and nothing merged    *)
(* later has its fields; and a branch starts only after the decision for   *)
(* it, which repeats what the review said.  Along the edges, nodes that    *)
(* neither fail nor wait lead to an end of the workflow.                   *)
(***************************************************************************)
EXTENDS EducationPack, FiniteSetTheorems, TLAPS

USE DEF profile_learner, lookup_curriculum_context, plan_curriculum, coach_learner,
        design_exercises, lookup_exercise_template, capture_submission, normalize_submission,
        lookup_review_rubric, review_submission, coach_feedback,
        design_initial_exercises, capture_attempt, normalize_attempt, lookup_attempt_rubric,
        review_attempt, decide_remediation_path, lookup_remediation_template,
        design_remediation_exercises, coach_remediation_path, coach_progress_path, Seed

-----------------------------------------------------------------------------
(* The inductive invariant                                                  *)

\* What an edge leads from is behind what it leads to.
Ordered ==
    \A e \in PlainEdges(Flow) : status[e[2]] # "pending" => status[e[1]] = "succeeded"

\* The decision says what the review said, and its branches follow it.
DecisionFollowed ==
    Flow = "remediation_loop" =>
        /\ status[decide_remediation_path] = "succeeded" <=> matched # "none"
        /\ \A e \in DecisionEdges : status[e.to] # "pending" => matched = e.matched
        /\ matched # "none" =>
              (matched = "true" <=> artifact[review_attempt]["mastery_signal"].says = "weak")

\* d designs the exercises, c captures the learner's work, m brings it to normal
\* form, r looks up the rubric and v reviews: what they have put out, and what
\* the reviewer was given.
Reviewed(d, c, m, r, v) ==
    /\ status[d] = "succeeded" => "target_skill" \in DOMAIN artifact[d]
    /\ status[c] = "succeeded" =>
          \A f \in {"score", "learner_response"} :
              f \in DOMAIN artifact[c] /\ artifact[c][f].by = "learner"
    /\ status[m] = "succeeded" => DOMAIN artifact[m] = {"target_skill"}
    /\ status[r] = "succeeded" =>
          /\ DOMAIN artifact[r] = {"target_skill"}
          /\ artifact[r]["target_skill"] = artifact[d]["target_skill"]
    /\ status[v] # "pending" =>
          /\ input[v]["score"].by = "learner"
          /\ input[v]["learner_response"].by = "learner"
          /\ input[v]["target_skill"] = artifact[d]["target_skill"]
    /\ status[v] = "succeeded" => "mastery_signal" \in DOMAIN artifact[v]

\* The two reviews of the pack.
ReviewsKept ==
    /\ Flow = "practice_review" =>
          Reviewed(design_exercises, capture_submission, normalize_submission,
                   lookup_review_rubric, review_submission)
    /\ Flow = "remediation_loop" =>
          Reviewed(design_initial_exercises, capture_attempt, normalize_attempt,
                   lookup_attempt_rubric, review_attempt)

\* A verdict is given once the run is over, and only for what was completed.
JudgedAtTheEnd ==
    /\ verdict # "none" => run # "running"
    /\ verdict = "passed" => EvaluationCase[case].required \subseteq Completed

\* A run with a failed node is over.
RunningIsWell == run = "running" => \A n \in NodeId : status[n] # "failed"

\* The inductive invariant of a case.
EducationInv ==
    /\ TypeOK
    /\ Ordered
    /\ DecisionFollowed
    /\ ReviewsKept
    /\ JudgedAtTheEnd
    /\ InputsAreThere
    /\ RunningIsWell
    /\ CasesProgress

-----------------------------------------------------------------------------
(* What the workflows say                                                   *)

\* Which workflow a case runs.
LEMMA CaseFacts ==
    ASSUME case \in CaseName
    PROVE  /\ Flow \in Workflow
           /\ Flow = "practice_review" => case = "practice_review"
           /\ Flow = "remediation_loop" <=> case \in {"remediation_weak", "remediation_strong"}
BY DEF CaseName, EvaluationCase, Flow, Workflow, EvalCase

\* The nodes of a workflow.
LEMMA NodesOf ==
    ASSUME case \in CaseName
    PROVE  /\ Flow = "diagnostic_plan" => NodeId = DiagnosticNode
           /\ Flow = "practice_review" => NodeId = PracticeNode
           /\ Flow = "remediation_loop" => NodeId = RemediationNode
BY CaseFacts DEF NodeId, NodeSpecs, DiagnosticNodes, PracticeNodes, RemediationNodes, Workflow

\* A node that is ready has every plain source behind it; a node that only the
\* decision leads to has a decision for it behind it.
LEMMA ReadyMeans ==
    ASSUME NEW n, Ready(n)
    PROVE  /\ status[n] = "pending"
           /\ \A e \in PlainEdges(Flow) : e[2] = n => status[e[1]] = "succeeded"
           /\ \A e \in DecisionEdges : e.to = n /\ Flow = "remediation_loop"
                 /\ (\A f \in PlainEdges(Flow) : f[2] # n)
                 => status[decide_remediation_path] = "succeeded"
                     /\ \E d \in DecisionEdges : d.to = n /\ d.matched = matched
<1>1. status[n] = "pending"
  BY DEF Ready
<1>2. ASSUME NEW e \in PlainEdges(Flow), e[2] = n PROVE status[e[1]] = "succeeded"
  <2>1. e \in EdgesInto(n)
    BY <1>2 DEF EdgesInto
  <2> QED
    BY <2>1 DEF Ready
<1>3. ASSUME NEW e \in DecisionEdges, e.to = n, Flow = "remediation_loop",
             \A f \in PlainEdges(Flow) : f[2] # n
      PROVE  status[decide_remediation_path] = "succeeded"
              /\ \E d \in DecisionEdges : d.to = n /\ d.matched = matched
  <2>1. EdgesInto(n) = {} /\ e \in Decisions(n)
    BY <1>3 DEF EdgesInto, Decisions
  <2>2. DecidedFor(n) # {}
    BY <2>1 DEF Ready
  <2>3. \E d \in Decisions(n) : d.matched = matched
    BY <2>2 DEF DecidedFor
  <2>4. status[decide_remediation_path] = "succeeded"
    BY <2>1, <2>2, <2>3 DEF Ready, DecidedFor
  <2> QED
    BY <2>3, <2>4 DEF Decisions
<1> QED
  BY <1>1, <1>2, <1>3

\* The edges of a workflow cover its selectors: one lemma for each workflow.  A
\* source that no edge joins to its reader lies behind one that an edge does.
LEMMA PracticeSources ==
    ASSUME case \in CaseName, Flow = "practice_review", Ordered, NEW n \in NodeId, Ready(n)
    PROVE  HasSources(NodeSpecs[Flow][n].reads)
<1>1. n \in PracticeNode
  BY NodesOf
<1>2. PlainEdges(Flow) = PracticeEdges /\ NodeSpecs[Flow] = PracticeNodes
  BY DEF PlainEdges, NodeSpecs, Workflow
<1>3. \A e \in PracticeEdges : e[2] = n => status[e[1]] = "succeeded"
  BY <1>2, ReadyMeans
<1>4. \A e \in PracticeEdges : status[e[2]] # "pending" => status[e[1]] = "succeeded"
  BY <1>2 DEF Ordered
<1>5. HasSources(PracticeNodes[n].reads)
  BY <1>1, <1>3, <1>4
     DEF HasSources, PracticeNodes, PracticeNode, PracticeEdges, AgentNode, ToolNode, Spec1
<1> QED
  BY <1>2, <1>5

LEMMA DiagnosticSources ==
    ASSUME case \in CaseName, Flow = "diagnostic_plan", Ordered, NEW n \in NodeId, Ready(n)
    PROVE  HasSources(NodeSpecs[Flow][n].reads)
<1>1. n \in DiagnosticNode
  BY NodesOf
<1>2. PlainEdges(Flow) = DiagnosticEdges /\ NodeSpecs[Flow] = DiagnosticNodes
  BY DEF PlainEdges, NodeSpecs, Workflow
<1>3. \A e \in DiagnosticEdges : e[2] = n => status[e[1]] = "succeeded"
  BY <1>2, ReadyMeans
<1>4. \A e \in DiagnosticEdges : status[e[2]] # "pending" => status[e[1]] = "succeeded"
  BY <1>2 DEF Ordered
<1>5. HasSources(DiagnosticNodes[n].reads)
  BY <1>1, <1>3, <1>4
     DEF HasSources, DiagnosticNodes, DiagnosticNode, DiagnosticEdges, AgentNode, ToolNode, Spec1
<1> QED
  BY <1>2, <1>5

LEMMA RemediationSources ==
    ASSUME case \in CaseName, Flow = "remediation_loop", Ordered, DecisionFollowed,
           NEW n \in NodeId, Ready(n)
    PROVE  HasSources(NodeSpecs[Flow][n].reads)
<1>1. n \in RemediationNode
  BY NodesOf
<1>2. PlainEdges(Flow) = RemediationEdges /\ NodeSpecs[Flow] = RemediationNodes
  BY DEF PlainEdges, NodeSpecs, Workflow
<1>3. \A e \in RemediationEdges : e[2] = n => status[e[1]] = "succeeded"
  BY <1>2, ReadyMeans
<1>4. \A e \in RemediationEdges : status[e[2]] # "pending" => status[e[1]] = "succeeded"
  BY <1>2 DEF Ordered
<1>5. status[lookup_remediation_template] # "pending" =>
         status[decide_remediation_path] = "succeeded"
  BY DEF DecisionFollowed, DecisionEdges
<1>6. ASSUME n \in {lookup_remediation_template, coach_progress_path}
      PROVE  status[decide_remediation_path] = "succeeded"
  <2>1. \E e \in DecisionEdges : e.to = n
    BY <1>6 DEF DecisionEdges
  <2>2. \A f \in PlainEdges(Flow) : f[2] # n
    BY <1>2, <1>6 DEF RemediationEdges
  <2> QED
    BY <2>1, <2>2, ReadyMeans
<1>7. HasSources(RemediationNodes[n].reads)
  BY <1>1, <1>3, <1>4, <1>5, <1>6
     DEF HasSources, RemediationNodes, RemediationNode, RemediationEdges, AgentNode, ToolNode,
         Spec1
<1> QED
  BY <1>2, <1>7

\* What a ready node reads is there.
LEMMA SourcesAreThere ==
    ASSUME case \in CaseName, Ordered, DecisionFollowed, NEW n \in NodeId, Ready(n)
    PROVE  HasSources(NodeSpecs[Flow][n].reads)
BY CaseFacts, DiagnosticSources, PracticeSources, RemediationSources DEF Workflow

\* The edges join nodes of the workflow.
LEMMA EdgesJoinNodes ==
    ASSUME case \in CaseName, NEW e \in PlainEdges(Flow)
    PROVE  e[1] \in NodeId /\ e[2] \in NodeId
<1>1. CASE Flow = "diagnostic_plan"
  BY <1>1, NodesOf DEF PlainEdges, DiagnosticEdges, DiagnosticNode
<1>2. CASE Flow = "practice_review"
  BY <1>2, NodesOf DEF PlainEdges, PracticeEdges, PracticeNode
<1>3. CASE Flow = "remediation_loop"
  BY <1>3, NodesOf DEF PlainEdges, RemediationEdges, RemediationNode
<1> QED
  BY <1>1, <1>2, <1>3, CaseFacts DEF Workflow

-----------------------------------------------------------------------------
(* What a step of a node does                                               *)

\* The sources of a node.
Reads(n) == NodeSpecs[Flow][n].reads

\* A step that runs a node n: what it changes, and what was behind it before.
Ran(n) ==
    /\ case' = case /\ Flow' = Flow /\ NodeId' = NodeId /\ verdict' = verdict
    /\ run = "running" /\ run' \in {"running", "completed", "failed", "stuck"}
    /\ status'[n] = "failed" => run' = "failed"
    /\ status'[n] = "succeeded" => run' = Decide'
    /\ status[n] = "pending" /\ status'[n] \in {"succeeded", "failed"}
    /\ status' = [x \in NodeId |-> status'[x]]
    /\ input' = [x \in NodeId |-> input'[x]]
    /\ artifact' = [x \in NodeId |-> artifact'[x]]
    /\ \A x \in NodeId \ {n} :
          status'[x] = status[x] /\ input'[x] = input[x] /\ artifact'[x] = artifact[x]
    /\ input'[n] = Merge(Reads(n))
    /\ status'[n] = "succeeded" =>
          artifact'[n] \in Outputs(n, Merge(Reads(n))) /\ matched' = Decided(n, Merge(Reads(n)))
    /\ status'[n] = "failed" =>
          /\ artifact'[n] = artifact[n] /\ matched' = matched
          /\ NodeSpecs[Flow][n].kind \in {"agent", "tool"}
    /\ \A e \in PlainEdges(Flow) : e[2] = n => status[e[1]] = "succeeded"
    /\ Flow = "remediation_loop" =>
          \A e \in DecisionEdges : e.to = n => matched = e.matched

\* The selector of a node that runs finds its sources, so it does not raise.
LEMMA NodeRuns ==
    ASSUME EducationInv, NEW n \in NodeId, RunNode(n)
    PROVE  Ran(n)
<1>1. /\ status \in [NodeId -> {"pending", "succeeded", "failed"}]
      /\ input = [x \in NodeId |-> input[x]] /\ artifact = [x \in NodeId |-> artifact[x]]
      /\ case \in CaseName
  BY DEF EducationInv, TypeOK
<1>2. /\ HasSources(Reads(n)) /\ status[n] = "pending" /\ run = "running"
      /\ \A e \in PlainEdges(Flow) : e[2] = n => status[e[1]] = "succeeded"
  BY <1>1, SourcesAreThere, ReadyMeans DEF EducationInv, RunNode, Reads
<1>7. ASSUME Flow = "remediation_loop", NEW e \in DecisionEdges, e.to = n
      PROVE  matched = e.matched
  <2>1. \A f \in PlainEdges(Flow) : f[2] # n
    BY <1>7 DEF PlainEdges, RemediationEdges, DecisionEdges
  <2>2. \E d \in DecisionEdges : d.to = n /\ d.matched = matched
    BY <1>7, <2>1, ReadyMeans DEF RunNode
  <2> QED
    BY <1>7, <2>2 DEF DecisionEdges
<1>3. case' = case /\ verdict' = verdict
  BY DEF RunNode, NodeSucceeds, NodeFails
<1>4. Flow' = Flow /\ NodeId' = NodeId
  BY <1>3 DEF Flow, NodeId
<1>5. CASE NodeSucceeds(n)
  <2>1. /\ \E output \in Outputs(n, Merge(Reads(n))) : artifact' = [artifact EXCEPT ![n] = output]
        /\ input' = [input EXCEPT ![n] = Merge(Reads(n))]
        /\ status' = [status EXCEPT ![n] = "succeeded"]
        /\ matched' = Decided(n, Merge(Reads(n)))
        /\ run' = Decide' /\ run' \in {"running", "completed", "stuck"}
    BY <1>5 DEF NodeSucceeds, Reads, Decide
  <2> QED
    BY <1>1, <1>2, <1>3, <1>4, <1>7, <2>1 DEF Ran
<1>6. CASE NodeFails(n)
  <2>1. /\ NodeSpecs[Flow][n].kind \in {"agent", "tool"}
        /\ input' = [input EXCEPT ![n] = Merge(Reads(n))]
        /\ status' = [status EXCEPT ![n] = "failed"]
        /\ run' = "failed" /\ UNCHANGED <<artifact, matched>>
    BY <1>2, <1>6 DEF NodeFails, Reads
  <2> QED
    BY <1>1, <1>2, <1>3, <1>4, <1>7, <2>1 DEF Ran
<1> QED
  BY <1>5, <1>6 DEF RunNode

\* Which node is ready, told from the nodes before it.
LEMMA ReadyWhen ==
    ASSUME NEW n, status[n] = "pending",
           \A e \in PlainEdges(Flow) : e[2] = n => status[e[1]] = "succeeded",
           \/ n = EntryNode[Flow] /\ Decisions(n) = {}
              /\ \A e \in PlainEdges(Flow) : e[2] # n
           \/ \E e \in PlainEdges(Flow) : e[2] = n /\ Decisions(n) = {}
           \/ /\ \A e \in PlainEdges(Flow) : e[2] # n
              /\ \E e \in Decisions(n) : e.matched = matched
              /\ status[decide_remediation_path] = "succeeded"
    PROVE  Ready(n)
<1>1. \A e \in EdgesInto(n) : status[e[1]] = "succeeded"
  BY DEF EdgesInto
<1>2. CASE n = EntryNode[Flow] /\ Decisions(n) = {} /\ \A e \in PlainEdges(Flow) : e[2] # n
  BY <1>2 DEF Ready, EdgesInto
<1>3. CASE \E e \in PlainEdges(Flow) : e[2] = n /\ Decisions(n) = {}
  <2>1. EdgesInto(n) # {} /\ DecidedFor(n) = {}
    BY <1>3 DEF EdgesInto, DecidedFor
  <2> QED
    BY <1>1, <2>1 DEF Ready
<1>4. CASE /\ \A e \in PlainEdges(Flow) : e[2] # n
           /\ \E e \in Decisions(n) : e.matched = matched
           /\ status[decide_remediation_path] = "succeeded"
  <2>1. /\ EdgesInto(n) = {} /\ Decisions(n) # {}
        /\ DecidedFor(n) = {decide_remediation_path}
    BY <1>4 DEF EdgesInto, DecidedFor
  <2> QED
    BY <1>4, <2>1 DEF Ready
<1> QED
  BY <1>2, <1>3, <1>4

\* A workflow whose nodes have not failed, and that no ready node could go on with,
\* is at its end: one lemma for each workflow, along its edges.
LEMMA DiagnosticEnds ==
    ASSUME case \in CaseName, Flow = "diagnostic_plan",
           status \in [NodeId -> {"pending", "succeeded", "failed"}],
           \A n \in NodeId : status[n] # "failed" /\ ~Ready(n)
    PROVE  Ended(status)
<1>1. NodeId = DiagnosticNode /\ PlainEdges(Flow) = DiagnosticEdges
  BY NodesOf DEF PlainEdges
<1>2. \A n : Decisions(n) = {}
  BY DEF Decisions
<1>3. \A n \in DiagnosticNode : status[n] \in {"pending", "succeeded"}
  BY <1>1
<1>4. \A n \in DiagnosticNode :
         /\ n = profile_learner \/ \E e \in DiagnosticEdges : e[2] = n
         /\ \A e \in DiagnosticEdges : e[2] = n => status[e[1]] = "succeeded"
         => status[n] = "succeeded"
  <2> SUFFICES ASSUME NEW n \in DiagnosticNode,
                      n = profile_learner \/ \E e \in DiagnosticEdges : e[2] = n,
                      \A e \in DiagnosticEdges : e[2] = n => status[e[1]] = "succeeded",
                      status[n] = "pending"
               PROVE  Ready(n)
    BY <1>1, <1>3
  <2>1. n = profile_learner => n = EntryNode[Flow] /\ \A e \in DiagnosticEdges : e[2] # n
    BY DEF EntryNode, DiagnosticEdges
  <2> QED
    BY <1>1, <1>2, <2>1, ReadyWhen
<1>5. \A n \in DiagnosticNode : status[n] = "succeeded"
  BY <1>4 DEF DiagnosticNode, DiagnosticEdges
<1> QED
  BY <1>1, <1>5 DEF Ended

LEMMA PracticeEnds ==
    ASSUME case \in CaseName, Flow = "practice_review",
           status \in [NodeId -> {"pending", "succeeded", "failed"}],
           \A n \in NodeId : status[n] # "failed" /\ ~Ready(n)
    PROVE  Ended(status)
<1>1. NodeId = PracticeNode /\ PlainEdges(Flow) = PracticeEdges
  BY NodesOf DEF PlainEdges
<1>2. \A n : Decisions(n) = {}
  BY DEF Decisions
<1>3. \A n \in PracticeNode : status[n] \in {"pending", "succeeded"}
  BY <1>1
<1>4. \A n \in PracticeNode :
         /\ n = design_exercises \/ \E e \in PracticeEdges : e[2] = n
         /\ \A e \in PracticeEdges : e[2] = n => status[e[1]] = "succeeded"
         => status[n] = "succeeded"
  <2> SUFFICES ASSUME NEW n \in PracticeNode,
                      n = design_exercises \/ \E e \in PracticeEdges : e[2] = n,
                      \A e \in PracticeEdges : e[2] = n => status[e[1]] = "succeeded",
                      status[n] = "pending"
               PROVE  Ready(n)
    BY <1>1, <1>3
  <2>1. n = design_exercises => n = EntryNode[Flow] /\ \A e \in PracticeEdges : e[2] # n
    BY DEF EntryNode, PracticeEdges
  <2> QED
    BY <1>1, <1>2, <2>1, ReadyWhen
<1>5. /\ status[design_exercises] = "succeeded"
      /\ status[capture_submission] = "succeeded"
      /\ status[normalize_submission] = "succeeded"
  BY <1>4 DEF PracticeNode, PracticeEdges
<1>6. \A n \in PracticeNode : status[n] = "succeeded"
  BY <1>4, <1>5 DEF PracticeNode, PracticeEdges
<1> QED
  BY <1>1, <1>6 DEF Ended

\* In the remediation workflow the decision opens a branch whichever way it goes.
LEMMA RemediationEnd ==
    ASSUME case \in CaseName, Flow = "remediation_loop", DecisionFollowed,
           status \in [NodeId -> {"pending", "succeeded", "failed"}],
           matched \in {"none", "true", "false"},
           \A n \in NodeId : status[n] # "failed" /\ ~Ready(n)
    PROVE  Ended(status)
<1>1. NodeId = RemediationNode /\ PlainEdges(Flow) = RemediationEdges
  BY NodesOf DEF PlainEdges
<1>2. \A n \in RemediationNode :
         n \notin {lookup_remediation_template, coach_progress_path} => Decisions(n) = {}
  BY DEF Decisions, DecisionEdges
<1>3. \A n \in RemediationNode : status[n] \in {"pending", "succeeded"}
  BY <1>1
<1>4. \A n \in RemediationNode \ {lookup_remediation_template, coach_progress_path} :
         /\ n = design_initial_exercises \/ \E e \in RemediationEdges : e[2] = n
         /\ \A e \in RemediationEdges : e[2] = n => status[e[1]] = "succeeded"
         => status[n] = "succeeded"
  <2> SUFFICES ASSUME NEW n \in RemediationNode,
                      n \notin {lookup_remediation_template, coach_progress_path},
                      n = design_initial_exercises \/ \E e \in RemediationEdges : e[2] = n,
                      \A e \in RemediationEdges : e[2] = n => status[e[1]] = "succeeded",
                      status[n] = "pending"
               PROVE  Ready(n)
    BY <1>1, <1>3
  <2>1. n = design_initial_exercises =>
           n = EntryNode[Flow] /\ \A e \in RemediationEdges : e[2] # n
    BY DEF EntryNode, RemediationEdges
  <2> QED
    BY <1>1, <1>2, <2>1, ReadyWhen
<1>5. status[decide_remediation_path] = "succeeded"
  <2>1. /\ status[design_initial_exercises] = "succeeded"
        /\ status[capture_attempt] = "succeeded"
        /\ status[normalize_attempt] = "succeeded"
        /\ status[lookup_attempt_rubric] = "succeeded"
    BY <1>4 DEF RemediationNode, RemediationEdges
  <2>2. status[review_attempt] = "succeeded"
    BY <1>4, <2>1 DEF RemediationNode, RemediationEdges
  <2> QED
    BY <1>4, <2>2 DEF RemediationNode, RemediationEdges
<1>6. ASSUME NEW e \in DecisionEdges, e.matched = matched PROVE status[e.to] = "succeeded"
  <2>1. e.to \in RemediationNode /\ \A f \in RemediationEdges : f[2] # e.to
    BY DEF DecisionEdges, RemediationNode, RemediationEdges
  <2>2. e \in Decisions(e.to)
    BY DEF Decisions
  <2>3. status[e.to] = "pending" => Ready(e.to)
    BY <1>1, <1>5, <1>6, <2>1, <2>2, ReadyWhen
  <2> QED
    BY <1>1, <1>3, <2>1, <2>3
<1>7. matched \in {"true", "false"}
  BY <1>5 DEF DecisionFollowed
<1>8. CASE matched = "false"
  <2>1. status[coach_progress_path] = "succeeded"
    BY <1>6, <1>8 DEF DecisionEdges
  <2> QED
    BY <2>1 DEF Ended, RemediationEnds
<1>9. CASE matched = "true"
  <2>1. status[lookup_remediation_template] = "succeeded"
    BY <1>6, <1>9 DEF DecisionEdges
  <2>2. status[design_remediation_exercises] = "succeeded"
    BY <1>4, <2>1 DEF RemediationNode, RemediationEdges
  <2>3. status[coach_remediation_path] = "succeeded"
    BY <1>4, <2>2 DEF RemediationNode, RemediationEdges
  <2> QED
    BY <2>3 DEF Ended, RemediationEnds
<1> QED
  BY <1>7, <1>8, <1>9

\* What the scheduler meets after a node has succeeded: something to run, or the end.
Sound ==
    /\ case \in CaseName
    /\ status \in [NodeId -> {"pending", "succeeded", "failed"}]
    /\ matched \in {"none", "true", "false"}
    /\ DecisionFollowed
    /\ \A n \in NodeId : status[n] # "failed"

LEMMA NeverStuck == Sound => Decide # "stuck"
<1> SUFFICES ASSUME Sound, \A n \in NodeId : ~Ready(n) PROVE Ended(status)
  BY DEF Decide
<1> QED
  BY CaseFacts, DiagnosticEnds, PracticeEnds, RemediationEnd DEF Sound, Workflow

\* What is behind a node stays behind it.
LEMMA OrderIsKept ==
    ASSUME EducationInv, NEW n \in NodeId, Ran(n)
    PROVE  Ordered'
<1>1. PlainEdges(Flow') = PlainEdges(Flow)
  BY DEF Ran
<1>2. SUFFICES ASSUME NEW e \in PlainEdges(Flow), status'[e[2]] # "pending"
               PROVE  status'[e[1]] = "succeeded"
  BY <1>1 DEF Ordered
<1>3. e[1] \in NodeId /\ e[2] \in NodeId
  BY EdgesJoinNodes DEF EducationInv, TypeOK
<1>4. status[e[1]] = "succeeded"
  BY <1>2, <1>3 DEF Ran, EducationInv, Ordered
<1> QED
  BY <1>3, <1>4 DEF Ran

-----------------------------------------------------------------------------
(* What a selector merges                                                   *)

\* The last source that has a field gives it its value.
LEMMA LastSourceWins ==
    ASSUME NEW reads, DOMAIN reads \subseteq Nat, NEW i \in DOMAIN reads,
           NEW f \in DOMAIN Resolve(reads[i]),
           \A j \in DOMAIN reads : j > i => f \notin DOMAIN Resolve(reads[j])
    PROVE  f \in DOMAIN Merge(reads) /\ Merge(reads)[f] = Resolve(reads[i])[f]
<1>1. i \in Having(reads, f) /\ \A j \in Having(reads, f) : j <= i
  BY DEF Having
<1>2. LastHaving(reads, f) = i
  <2>1. /\ LastHaving(reads, f) \in Having(reads, f)
        /\ \A j \in Having(reads, f) : j <= LastHaving(reads, f)
    BY <1>1 DEF LastHaving
  <2> QED
    BY <1>1, <2>1 DEF Having
<1>3. f \in Merged(reads)
  BY DEF Merged
<1> QED
  BY <1>2, <1>3 DEF Merge

\* What a selector of one source reads is that source.
LEMMA OneSource ==
    ASSUME NEW s, NEW f \in DOMAIN Resolve(s)
    PROVE  f \in DOMAIN Merge(<<s>>) /\ Merge(<<s>>)[f] = Resolve(s)[f]
BY LastSourceWins

-----------------------------------------------------------------------------
(* The nodes around a review                                                *)

\* What the workflow says of the nodes around a review: the reviewer reads the
\* learner's work, its normal form and the rubric last.
Reviewing(d, c, m, r, v) ==
    LET spec  == NodeSpecs[Flow]
        reads == spec[v].reads
    IN  /\ {d, c, m, r, v} \subseteq NodeId
        /\ Seed \notin NodeId
        /\ spec[d].kind = "agent" /\ spec[d].ref = "exercise_designer"
        /\ spec[c].kind = "noop" /\ spec[c].reads = <<Seed>>
        /\ spec[m].kind = "tool" /\ spec[m].ref = "answer_normalizer"
        /\ spec[r].kind = "tool" /\ spec[r].ref = "rubric_lookup" /\ spec[r].reads = <<d>>
        /\ spec[v].kind = "agent" /\ spec[v].ref = "reviewer_grader"
        /\ DOMAIN reads \subseteq Nat
        /\ \E i \in DOMAIN reads :
              /\ {i + 1, i + 2} \subseteq DOMAIN reads
              /\ \A j \in DOMAIN reads : j <= i + 2
              /\ reads[i] = c /\ reads[i + 1] = m /\ reads[i + 2] = r
        /\ {<<d, r>>, <<d, v>>, <<c, v>>, <<m, v>>, <<r, v>>} \subseteq PlainEdges(Flow)
        /\ \A f \in {"score", "learner_response"} :
              /\ f \in DOMAIN EvaluationCase[case].seed
              /\ EvaluationCase[case].seed[f].by = "learner"

\* The practice workflow sets its review up like that.
LEMMA PracticeReviewing ==
    ASSUME case \in CaseName, Flow = "practice_review"
    PROVE  Reviewing(design_exercises, capture_submission, normalize_submission,
                     lookup_review_rubric, review_submission)
<1>1. NodeSpecs[Flow] = PracticeNodes /\ PlainEdges(Flow) = PracticeEdges /\ NodeId = PracticeNode
  BY NodesOf DEF NodeSpecs, PlainEdges, Workflow
<1>2. EvaluationCase[case].seed = Seeded(LearnerWork)
  BY CaseFacts DEF EvaluationCase, EvalCase, CaseName
<1>3. \A f \in {"score", "learner_response"} :
          f \in DOMAIN Seeded(LearnerWork) /\ Seeded(LearnerWork)[f].by = "learner"
  BY DEF Seeded, LearnerWork
<1>4. PracticeNodes[review_submission].reads[3] = capture_submission
      /\ PracticeNodes[review_submission].reads[4] = normalize_submission
      /\ PracticeNodes[review_submission].reads[5] = lookup_review_rubric
      /\ DOMAIN PracticeNodes[review_submission].reads = 1 .. 5
  BY DEF PracticeNodes, PracticeNode, AgentNode, Spec1
<1>5. \E i \in DOMAIN PracticeNodes[review_submission].reads :
        LET reads == PracticeNodes[review_submission].reads
        IN  /\ {i + 1, i + 2} \subseteq DOMAIN reads
            /\ \A j \in DOMAIN reads : j <= i + 2
            /\ reads[i] = capture_submission /\ reads[i + 1] = normalize_submission
            /\ reads[i + 2] = lookup_review_rubric
  <2>1. 3 \in 1 .. 5 /\ 3 + 1 = 4 /\ 3 + 2 = 5
    OBVIOUS
  <2> QED
    BY <1>4, <2>1
<1>6. LET spec == PracticeNodes
      IN  /\ spec[design_exercises].kind = "agent"
          /\ spec[design_exercises].ref = "exercise_designer"
          /\ spec[capture_submission].kind = "noop" /\ spec[capture_submission].reads = <<Seed>>
          /\ spec[normalize_submission].kind = "tool"
          /\ spec[normalize_submission].ref = "answer_normalizer"
          /\ spec[lookup_review_rubric].kind = "tool"
          /\ spec[lookup_review_rubric].ref = "rubric_lookup"
          /\ spec[lookup_review_rubric].reads = <<design_exercises>>
          /\ spec[review_submission].kind = "agent"
          /\ spec[review_submission].ref = "reviewer_grader"
  BY DEF PracticeNodes, PracticeNode, AgentNode, ToolNode, Spec1
<1>7. /\ {design_exercises, capture_submission, normalize_submission,
         lookup_review_rubric, review_submission} \subseteq PracticeNode
      /\ Seed \notin PracticeNode
      /\ {<<design_exercises, lookup_review_rubric>>, <<design_exercises, review_submission>>,
         <<capture_submission, review_submission>>, <<normalize_submission, review_submission>>,
         <<lookup_review_rubric, review_submission>>} \subseteq PracticeEdges
  BY DEF PracticeNode, PracticeEdges
<1> QED
  BY <1>1, <1>2, <1>3, <1>4, <1>5, <1>6, <1>7 DEF Reviewing

\* So does the remediation workflow.
LEMMA RemediationReviewing ==
    ASSUME case \in CaseName, Flow = "remediation_loop"
    PROVE  Reviewing(design_initial_exercises, capture_attempt, normalize_attempt,
                     lookup_attempt_rubric, review_attempt)
<1>1. /\ NodeSpecs[Flow] = RemediationNodes /\ PlainEdges(Flow) = RemediationEdges
      /\ NodeId = RemediationNode
  BY NodesOf DEF NodeSpecs, PlainEdges, Workflow
<1>2. EvaluationCase[case].seed = Seeded(LearnerWork)
  BY CaseFacts DEF EvaluationCase, EvalCase, CaseName
<1>3. \A f \in {"score", "learner_response"} :
          f \in DOMAIN Seeded(LearnerWork) /\ Seeded(LearnerWork)[f].by = "learner"
  BY DEF Seeded, LearnerWork
<1>4. RemediationNodes[review_attempt].reads[2] = capture_attempt
      /\ RemediationNodes[review_attempt].reads[3] = normalize_attempt
      /\ RemediationNodes[review_attempt].reads[4] = lookup_attempt_rubric
      /\ DOMAIN RemediationNodes[review_attempt].reads = 1 .. 4
  BY DEF RemediationNodes, RemediationNode, AgentNode, Spec1
<1>5. \E i \in DOMAIN RemediationNodes[review_attempt].reads :
        LET reads == RemediationNodes[review_attempt].reads
        IN  /\ {i + 1, i + 2} \subseteq DOMAIN reads
            /\ \A j \in DOMAIN reads : j <= i + 2
            /\ reads[i] = capture_attempt /\ reads[i + 1] = normalize_attempt
            /\ reads[i + 2] = lookup_attempt_rubric
  <2>1. 2 \in 1 .. 4 /\ 2 + 1 = 3 /\ 2 + 2 = 4
    OBVIOUS
  <2> QED
    BY <1>4, <2>1
<1>6. LET spec == RemediationNodes
      IN  /\ spec[design_initial_exercises].kind = "agent"
          /\ spec[design_initial_exercises].ref = "exercise_designer"
          /\ spec[capture_attempt].kind = "noop" /\ spec[capture_attempt].reads = <<Seed>>
          /\ spec[normalize_attempt].kind = "tool"
          /\ spec[normalize_attempt].ref = "answer_normalizer"
          /\ spec[lookup_attempt_rubric].kind = "tool"
          /\ spec[lookup_attempt_rubric].ref = "rubric_lookup"
          /\ spec[lookup_attempt_rubric].reads = <<design_initial_exercises>>
          /\ spec[review_attempt].kind = "agent"
          /\ spec[review_attempt].ref = "reviewer_grader"
  BY DEF RemediationNodes, RemediationNode, AgentNode, ToolNode, Spec1
<1>7. /\ {design_initial_exercises, capture_attempt, normalize_attempt,
         lookup_attempt_rubric, review_attempt} \subseteq RemediationNode
      /\ Seed \notin RemediationNode
      /\ {<<design_initial_exercises, lookup_attempt_rubric>>,
         <<design_initial_exercises, review_attempt>>,
         <<capture_attempt, review_attempt>>, <<normalize_attempt, review_attempt>>,
         <<lookup_attempt_rubric, review_attempt>>} \subseteq RemediationEdges
  BY DEF RemediationNode, RemediationEdges
<1> QED
  BY <1>1, <1>2, <1>3, <1>4, <1>5, <1>6, <1>7 DEF Reviewing

\* A node whose output says something of its input.
LEMMA OutputsOf ==
    ASSUME NEW n, NEW p, NEW o \in Outputs(n, p)
    PROVE  LET spec == NodeSpecs[Flow][n]
           IN  /\ spec.kind = "agent" => RequiredKeys(spec.ref) \subseteq DOMAIN o
               /\ spec.kind \notin {"agent", "tool"} => o = p
               /\ spec.kind = "tool" /\ spec.ref \in {"answer_normalizer", "rubric_lookup"} =>
                     o = Kept(p, {"target_skill"})
<1> DEFINE spec == NodeSpecs[Flow][n]
<1>1. CASE spec.kind = "agent"
  <2>1. o \in AgentOutputs(spec.ref)
    BY <1>1 DEF Outputs
  <2> QED
    BY <1>1, <2>1 DEF AgentOutputs
<1>2. CASE spec.kind = "tool"
  <2>1. o \in ToolOutputs(spec.ref, p)
    BY <1>2 DEF Outputs
  <2>2. ASSUME spec.ref = "answer_normalizer" PROVE o = Kept(p, {"target_skill"})
    BY <2>1, <2>2 DEF ToolOutputs, AnswerNormalizer
  <2>3. ASSUME spec.ref = "rubric_lookup" PROVE o = Kept(p, {"target_skill"})
    BY <2>1, <2>3 DEF ToolOutputs, RubricLookup
  <2> QED
    BY <1>2, <2>2, <2>3
<1>3. CASE spec.kind \notin {"agent", "tool"}
  BY <1>3 DEF Outputs
<1> QED
  BY <1>1, <1>2, <1>3

\* Any step keeps the reviewer with the learner's work and the designer's skill:
\* the learner's score and response are merged after whatever the designer said,
\* and neither the normal form nor the rubric has those fields.
LEMMA ReviewStep ==
    ASSUME EducationInv, NEW d, NEW c, NEW m, NEW r, NEW v,
           Reviewing(d, c, m, r, v), Reviewed(d, c, m, r, v), NEW n \in NodeId, Ran(n)
    PROVE  Reviewed(d, c, m, r, v)'
<1> DEFINE spec == NodeSpecs[Flow]
           p == Merge(Reads(n))
<1>1. /\ d \in NodeId /\ c \in NodeId /\ m \in NodeId /\ r \in NodeId /\ v \in NodeId
      /\ d # Seed /\ c # Seed /\ m # Seed /\ r # Seed /\ v # Seed
  BY DEF Reviewing
<1>2. /\ d # c /\ d # m /\ d # r /\ d # v /\ c # m /\ c # r /\ c # v
      /\ m # r /\ m # v /\ r # v
  BY DEF Reviewing
<1>3. \A x \in NodeId \ {n} :
          status'[x] = status[x] /\ input'[x] = input[x] /\ artifact'[x] = artifact[x]
  BY DEF Ran
<1>4. /\ status[n] = "pending" /\ input'[n] = p
      /\ status'[n] = "succeeded" => artifact'[n] \in Outputs(n, p)
  BY DEF Ran
<1>5. /\ n = r => status[d] = "succeeded"
      /\ n = v => status[d] = "succeeded" /\ status[c] = "succeeded"
                  /\ status[m] = "succeeded" /\ status[r] = "succeeded"
      /\ status[r] # "pending" => status[d] = "succeeded"
      /\ status[v] # "pending" => status[d] = "succeeded"
  <2>1. \A e \in PlainEdges(Flow) : e[2] = n => status[e[1]] = "succeeded"
    BY DEF Ran
  <2>2. \A e \in PlainEdges(Flow) : status[e[2]] # "pending" => status[e[1]] = "succeeded"
    BY DEF EducationInv, Ordered
  <2>3. /\ <<d, r>> \in PlainEdges(Flow) /\ <<d, v>> \in PlainEdges(Flow)
        /\ <<c, v>> \in PlainEdges(Flow) /\ <<m, v>> \in PlainEdges(Flow)
        /\ <<r, v>> \in PlainEdges(Flow)
    BY DEF Reviewing
  <2> QED
    BY <2>1, <2>2, <2>3
<1>6. status'[d] = "succeeded" => "target_skill" \in DOMAIN artifact'[d]
  <2>1. CASE d = n
    BY <1>4, <2>1, OutputsOf DEF Reviewing, RequiredKeys, ExerciseDesigner
  <2> QED
    BY <1>1, <1>3, <2>1 DEF Reviewed
<1>7. status'[c] = "succeeded" =>
          \A f \in {"score", "learner_response"} :
              f \in DOMAIN artifact'[c] /\ artifact'[c][f].by = "learner"
  <2>1. ASSUME c = n, status'[c] = "succeeded", NEW f \in {"score", "learner_response"}
        PROVE  f \in DOMAIN artifact'[c] /\ artifact'[c][f].by = "learner"
    <3>1. artifact'[c] = Merge(<<Seed>>)
      BY <1>4, <2>1, OutputsOf DEF Reviewing, Reads
    <3>2. f \in DOMAIN Resolve(Seed) /\ Resolve(Seed)[f].by = "learner"
      BY DEF Reviewing, Resolve
    <3> QED
      BY <3>1, <3>2, OneSource
  <2> QED
    BY <1>1, <1>3, <2>1 DEF Reviewed
<1>8. status'[m] = "succeeded" => DOMAIN artifact'[m] = {"target_skill"}
  <2>1. CASE m = n
    BY <1>4, <2>1, OutputsOf DEF Reviewing, Kept
  <2> QED
    BY <1>1, <1>3, <2>1 DEF Reviewed
<1>9. status'[r] = "succeeded" =>
          /\ DOMAIN artifact'[r] = {"target_skill"}
          /\ artifact'[r]["target_skill"] = artifact'[d]["target_skill"]
  <2>1. ASSUME r = n, status'[r] = "succeeded"
        PROVE  /\ DOMAIN artifact'[r] = {"target_skill"}
               /\ artifact'[r]["target_skill"] = artifact'[d]["target_skill"]
    <3>1. artifact'[r] = Kept(p, {"target_skill"}) /\ p = Merge(<<d>>)
      BY <1>4, <2>1, OutputsOf DEF Reviewing, Reads
    <3>2. "target_skill" \in DOMAIN artifact[d] /\ Resolve(d) = artifact[d]
      BY <1>1, <1>5, <2>1 DEF Reviewed, Resolve
    <3>3. "target_skill" \in DOMAIN p /\ p["target_skill"] = artifact[d]["target_skill"]
      BY <3>1, <3>2, OneSource
    <3>4. artifact'[d] = artifact[d]
      BY <1>1, <1>2, <1>3, <2>1
    <3> QED
      BY <3>1, <3>3, <3>4 DEF Kept, Found
  <2>2. ASSUME r # n, status'[r] = "succeeded"
        PROVE  /\ DOMAIN artifact'[r] = {"target_skill"}
               /\ artifact'[r]["target_skill"] = artifact'[d]["target_skill"]
    <3>1. status[r] = "succeeded" /\ d # n
      BY <1>1, <1>3, <1>4, <1>5, <2>2
    <3> QED
      BY <1>1, <1>3, <2>2, <3>1 DEF Reviewed
  <2> QED
    BY <2>1, <2>2
<1>10. status'[v] # "pending" =>
          /\ input'[v]["score"].by = "learner"
          /\ input'[v]["learner_response"].by = "learner"
          /\ input'[v]["target_skill"] = artifact'[d]["target_skill"]
  <2>1. ASSUME v = n
        PROVE  /\ input'[v]["score"].by = "learner"
               /\ input'[v]["learner_response"].by = "learner"
               /\ input'[v]["target_skill"] = artifact'[d]["target_skill"]
    <3> DEFINE reads == Reads(v)
    <3>1. PICK i \in DOMAIN reads :
              /\ {i + 1, i + 2} \subseteq DOMAIN reads
              /\ \A j \in DOMAIN reads : j <= i + 2
              /\ reads[i] = c /\ reads[i + 1] = m /\ reads[i + 2] = r
      BY DEF Reviewing, Reads
    <3>2. DOMAIN reads \subseteq Nat /\ input'[v] = Merge(reads)
      BY <1>4, <2>1 DEF Reviewing, Reads
    <3>3. /\ Resolve(c) = artifact[c] /\ Resolve(m) = artifact[m] /\ Resolve(r) = artifact[r]
      BY <1>1 DEF Resolve
    <3>4. \A j \in DOMAIN reads : j > i => j = i + 1 \/ j = i + 2
      BY <3>1, <3>2
    <3>5. \A f \in {"score", "learner_response"} :
              /\ f \in DOMAIN artifact[c] /\ artifact[c][f].by = "learner"
              /\ f \notin DOMAIN artifact[m] /\ f \notin DOMAIN artifact[r]
      BY <1>5, <2>1 DEF Reviewed
    <3>6. ASSUME NEW f \in {"score", "learner_response"}
          PROVE  Merge(reads)[f].by = "learner"
      <4>1. \A j \in DOMAIN reads : j > i => f \notin DOMAIN Resolve(reads[j])
        BY <3>1, <3>3, <3>4, <3>5
      <4>2. f \in DOMAIN Resolve(reads[i])
        BY <3>1, <3>3, <3>5
      <4>3. Merge(reads)[f] = Resolve(reads[i])[f]
        BY <3>2, <4>1, <4>2, LastSourceWins
      <4> QED
        BY <3>1, <3>3, <3>5, <4>3
    <3>7. Merge(reads)["target_skill"] = artifact[d]["target_skill"]
      <4>1. /\ "target_skill" \in DOMAIN artifact[r]
            /\ artifact[r]["target_skill"] = artifact[d]["target_skill"]
        BY <1>5, <2>1 DEF Reviewed
      <4>2. i + 2 \in DOMAIN reads /\ Resolve(reads[i + 2]) = artifact[r]
        BY <3>1, <3>3
      <4>3. \A j \in DOMAIN reads : ~(j > i + 2)
        BY <3>1, <3>2
      <4>4. Merge(reads)["target_skill"] = Resolve(reads[i + 2])["target_skill"]
        BY <3>2, <4>1, <4>2, <4>3, LastSourceWins
      <4> QED
        BY <4>1, <4>2, <4>4
    <3>8. artifact'[d] = artifact[d]
      BY <1>1, <1>2, <1>3, <2>1
    <3> QED
      BY <3>2, <3>6, <3>7, <3>8
  <2>2. ASSUME v # n, status'[v] # "pending"
        PROVE  /\ input'[v]["score"].by = "learner"
               /\ input'[v]["learner_response"].by = "learner"
               /\ input'[v]["target_skill"] = artifact'[d]["target_skill"]
    <3>1. status[v] # "pending" /\ d # n
      BY <1>1, <1>3, <1>4, <1>5, <2>2
    <3> QED
      BY <1>1, <1>3, <2>2, <3>1 DEF Reviewed
  <2> QED
    BY <2>1, <2>2
<1>11. status'[v] = "succeeded" => "mastery_signal" \in DOMAIN artifact'[v]
  <2>1. CASE v = n
    BY <1>4, <2>1, OutputsOf DEF Reviewing, RequiredKeys, ReviewerGrader
  <2> QED
    BY <1>1, <1>3, <2>1 DEF Reviewed
<1> QED
  BY <1>6, <1>7, <1>8, <1>9, <1>10, <1>11 DEF Reviewed

\* Both reviews, in the workflow that has them.
LEMMA ReviewsStayKept ==
    ASSUME EducationInv, NEW n \in NodeId, Ran(n)
    PROVE  ReviewsKept'
<1>1. case \in CaseName /\ Flow' = Flow
  BY DEF EducationInv, TypeOK, Ran
<1>2. ASSUME Flow = "practice_review"
      PROVE  Reviewed(design_exercises, capture_submission, normalize_submission,
                      lookup_review_rubric, review_submission)'
  <2>1. Reviewing(design_exercises, capture_submission, normalize_submission,
                  lookup_review_rubric, review_submission)
    BY <1>1, <1>2, PracticeReviewing
  <2>2. Reviewed(design_exercises, capture_submission, normalize_submission,
                 lookup_review_rubric, review_submission)
    BY <1>2 DEF EducationInv, ReviewsKept
  <2> QED
    BY <2>1, <2>2, ReviewStep
<1>3. ASSUME Flow = "remediation_loop"
      PROVE  Reviewed(design_initial_exercises, capture_attempt, normalize_attempt,
                      lookup_attempt_rubric, review_attempt)'
  <2>1. Reviewing(design_initial_exercises, capture_attempt, normalize_attempt,
                  lookup_attempt_rubric, review_attempt)
    BY <1>1, <1>3, RemediationReviewing
  <2>2. Reviewed(design_initial_exercises, capture_attempt, normalize_attempt,
                 lookup_attempt_rubric, review_attempt)
    BY <1>3 DEF EducationInv, ReviewsKept
  <2> QED
    BY <2>1, <2>2, ReviewStep
<1> QED
  BY <1>1, <1>2, <1>3 DEF ReviewsKept

-----------------------------------------------------------------------------
(* The decision                                                             *)

\* The decision reads the review, is made once, and no branch starts before it or
\* against it.
LEMMA DecisionStep ==
    ASSUME EducationInv, NEW n \in NodeId, Ran(n)
    PROVE  DecisionFollowed'
<1> SUFFICES ASSUME Flow = "remediation_loop"
             PROVE  /\ status'[decide_remediation_path] = "succeeded" <=> matched' # "none"
                    /\ \A e \in DecisionEdges : status'[e.to] # "pending" => matched' = e.matched
                    /\ matched' # "none" =>
                          (matched' = "true"
                             <=> artifact'[review_attempt]["mastery_signal"].says = "weak")
  BY DEF Ran, DecisionFollowed
<1> DEFINE decide == decide_remediation_path
<1>1. /\ NodeId = RemediationNode /\ NodeSpecs[Flow] = RemediationNodes
      /\ PlainEdges(Flow) = RemediationEdges
  BY NodesOf DEF EducationInv, TypeOK, NodeSpecs, PlainEdges, Workflow
<1>2. /\ decide \in NodeId /\ review_attempt \in NodeId
      /\ \A e \in DecisionEdges : e.to \in NodeId /\ e.to # decide /\ e.matched # "none"
  BY <1>1 DEF RemediationNode, DecisionEdges
<1>3. /\ NodeSpecs[Flow][decide].kind = "condition"
      /\ NodeSpecs[Flow][decide].reads = <<review_attempt>>
      /\ <<review_attempt, decide>> \in PlainEdges(Flow)
  BY <1>1 DEF RemediationNodes, RemediationNode, RemediationEdges, Spec1
<1>4. /\ status[decide] = "succeeded" <=> matched # "none"
      /\ \A e \in DecisionEdges : status[e.to] # "pending" => matched = e.matched
      /\ matched # "none" =>
            (matched = "true" <=> artifact[review_attempt]["mastery_signal"].says = "weak")
  BY DEF EducationInv, DecisionFollowed
<1>5. \A x \in NodeId \ {n} : status'[x] = status[x] /\ artifact'[x] = artifact[x]
  BY DEF Ran
<1>6. CASE n = decide
  <2>1. status'[decide] = "succeeded" /\ matched' = Decided(decide, Merge(<<review_attempt>>))
    BY <1>3, <1>6 DEF Ran, Reads
  <2>2. status[review_attempt] = "succeeded" /\ status[decide] = "pending"
    BY <1>3, <1>6 DEF Ran
  <2>3. /\ "mastery_signal" \in DOMAIN Resolve(review_attempt)
        /\ Resolve(review_attempt) = artifact[review_attempt]
    BY <2>2 DEF EducationInv, ReviewsKept, Reviewed, Resolve
  <2>4. Merge(<<review_attempt>>)["mastery_signal"] = artifact[review_attempt]["mastery_signal"]
    BY <2>3, OneSource
  <2>5. matched' \in {"true", "false"} /\ artifact'[review_attempt] = artifact[review_attempt]
    BY <1>2, <1>5, <1>6, <2>1 DEF Decided
  <2>6. matched' = "true" <=> artifact[review_attempt]["mastery_signal"].says = "weak"
    BY <2>1, <2>4 DEF Decided
  <2>7. \A e \in DecisionEdges : status'[e.to] = "pending"
    <3>1. TAKE e \in DecisionEdges
    <3>2. matched = "none"
      BY <1>4, <2>2
    <3>3. status[e.to] = "pending"
      BY <1>2, <1>4, <3>2
    <3> QED
      BY <1>2, <1>5, <1>6, <3>3
  <2> QED
    BY <2>1, <2>5, <2>6, <2>7
<1>7. CASE n # decide
  <2>1. matched' = matched
    BY <1>7 DEF Ran, Decided
  <2>2. status'[decide] = status[decide]
    BY <1>2, <1>5, <1>7
  <2>3. ASSUME NEW e \in DecisionEdges, status'[e.to] # "pending" PROVE matched = e.matched
    <3>1. CASE e.to = n
      BY <3>1 DEF Ran
    <3>2. CASE e.to # n
      BY <1>2, <1>4, <1>5, <2>3, <3>2
    <3> QED
      BY <3>1, <3>2
  <2>4. ASSUME matched # "none" PROVE artifact'[review_attempt] = artifact[review_attempt]
    <3>1. status[review_attempt] = "succeeded"
      BY <1>3, <1>4, <2>4 DEF EducationInv, Ordered
    <3>2. review_attempt # n
      BY <3>1 DEF Ran
    <3> QED
      BY <1>2, <1>5, <3>2
  <2> QED
    BY <1>4, <2>1, <2>2, <2>3, <2>4
<1> QED
  BY <1>6, <1>7

-----------------------------------------------------------------------------
(* Types                                                                    *)

\* Of five sources or fewer that have a field, one is the last.
LEMMA LastOfFive ==
    ASSUME NEW H, H \subseteq 1 .. 5, H # {}
    PROVE  \E i \in H : \A j \in H : j <= i
<1>1. \A j \in H : j = 1 \/ j = 2 \/ j = 3 \/ j = 4 \/ j = 5
  OBVIOUS
<1>2. CASE 5 \in H
  <2>1. \A j \in H : j <= 5
    BY <1>1
  <2> QED
    BY <1>2, <2>1
<1>3. CASE 5 \notin H /\ 4 \in H
  <2>1. \A j \in H : j <= 4
    BY <1>1, <1>3
  <2> QED
    BY <1>3, <2>1
<1>4. CASE 5 \notin H /\ 4 \notin H /\ 3 \in H
  <2>1. \A j \in H : j <= 3
    BY <1>1, <1>4
  <2> QED
    BY <1>4, <2>1
<1>5. CASE 5 \notin H /\ 4 \notin H /\ 3 \notin H /\ 2 \in H
  <2>1. \A j \in H : j <= 2
    BY <1>1, <1>5
  <2> QED
    BY <1>5, <2>1
<1>6. CASE 5 \notin H /\ 4 \notin H /\ 3 \notin H /\ 2 \notin H
  <2>1. \A j \in H : j <= 1
    BY <1>1, <1>6
  <2>2. 1 \in H
    BY <1>1, <1>6
  <2> QED
    BY <2>1, <2>2
<1> QED
  BY <1>2, <1>3, <1>4, <1>5, <1>6

\* What a selector merges from payloads is a payload.
LEMMA MergeIsPayload ==
    ASSUME NEW reads, DOMAIN reads \subseteq 1 .. 5,
           \A i \in DOMAIN reads : IsPayload(Resolve(reads[i]))
    PROVE  IsPayload(Merge(reads))
<1>1. DOMAIN Merge(reads) = Merged(reads)
  BY DEF Merge
<1>2. ASSUME NEW f \in Merged(reads)
      PROVE  f \in Field /\ Merge(reads)[f] \in Datum \cup {None}
  <2>1. Having(reads, f) # {} /\ Having(reads, f) \subseteq 1 .. 5
    BY <1>2 DEF Merged, Having
  <2>2. LastHaving(reads, f) \in Having(reads, f)
    BY <2>1, LastOfFive DEF LastHaving
  <2>3. PICK i \in DOMAIN reads : i = LastHaving(reads, f) /\ f \in DOMAIN Resolve(reads[i])
    BY <2>2 DEF Having
  <2>4. IsPayload(Resolve(reads[i])) /\ Merge(reads)[f] = Resolve(reads[i])[f]
    BY <1>2, <2>3 DEF Merge
  <2> QED
    BY <2>3, <2>4 DEF IsPayload
<1>3. Merge(reads) = [f \in Merged(reads) |-> Merge(reads)[f]]
  BY DEF Merge
<1> QED
  BY <1>1, <1>2, <1>3 DEF IsPayload

\* A selector that reads nodes or the seed, five of them at most.
Selector(reads) ==
    DOMAIN reads \subseteq 1 .. 5 /\ \A i \in DOMAIN reads : reads[i] \in NodeId \cup {Seed}

\* What the selectors read, and who the agents and the tools are.
WellFormed(spec) ==
    /\ Selector(spec.reads)
    /\ spec.kind = "agent" =>
          spec.ref \in {"learner_profiler", "curriculum_planner", "exercise_designer",
                        "reviewer_grader", "tutor_coach"}
    /\ spec.kind = "tool" =>
          spec.ref \in {"curriculum_lookup", "exercise_template_lookup", "rubric_lookup",
                        "answer_normalizer"}

\* Every node of every workflow is declared well.
LEMMA SpecsAre ==
    ASSUME case \in CaseName, NEW n \in NodeId
    PROVE  WellFormed(NodeSpecs[Flow][n])
<1>1. CASE Flow = "diagnostic_plan"
  <2>1. NodeId = DiagnosticNode /\ NodeSpecs[Flow] = DiagnosticNodes
    BY <1>1, NodesOf DEF NodeSpecs, Workflow
  <2> QED
    BY <2>1 DEF WellFormed, Selector, DiagnosticNodes, DiagnosticNode, AgentNode, ToolNode, Spec1
<1>2. CASE Flow = "practice_review"
  <2>1. NodeId = PracticeNode /\ NodeSpecs[Flow] = PracticeNodes
    BY <1>2, NodesOf DEF NodeSpecs, Workflow
  <2> QED
    BY <2>1 DEF WellFormed, Selector, PracticeNodes, PracticeNode, AgentNode, ToolNode, Spec1
<1>3. CASE Flow = "remediation_loop"
  <2>1. NodeId = RemediationNode /\ NodeSpecs[Flow] = RemediationNodes
    BY <1>3, NodesOf DEF NodeSpecs, Workflow
  <2>2. WellFormed(RemediationNodes[design_initial_exercises])
    BY <2>1 DEF WellFormed, Selector, RemediationNodes, RemediationNode, AgentNode, ToolNode,
               Spec1
  <2>3. WellFormed(RemediationNodes[capture_attempt])
    BY <2>1 DEF WellFormed, Selector, RemediationNodes, RemediationNode, AgentNode, ToolNode,
               Spec1
  <2>4. WellFormed(RemediationNodes[normalize_attempt])
    BY <2>1 DEF WellFormed, Selector, RemediationNodes, RemediationNode, AgentNode, ToolNode,
               Spec1
  <2>5. WellFormed(RemediationNodes[lookup_attempt_rubric])
    BY <2>1 DEF WellFormed, Selector, RemediationNodes, RemediationNode, AgentNode, ToolNode,
               Spec1
  <2>6. WellFormed(RemediationNodes[review_attempt])
    BY <2>1 DEF WellFormed, Selector, RemediationNodes, RemediationNode, AgentNode, ToolNode,
               Spec1
  <2>7. WellFormed(RemediationNodes[decide_remediation_path])
    BY <2>1 DEF WellFormed, Selector, RemediationNodes, RemediationNode, AgentNode, ToolNode,
               Spec1
  <2>8. WellFormed(RemediationNodes[lookup_remediation_template])
    BY <2>1 DEF WellFormed, Selector, RemediationNodes, RemediationNode, AgentNode, ToolNode,
               Spec1
  <2>9. WellFormed(RemediationNodes[design_remediation_exercises])
    BY <2>1 DEF WellFormed, Selector, RemediationNodes, RemediationNode, AgentNode, ToolNode,
               Spec1
  <2>10. WellFormed(RemediationNodes[coach_remediation_path])
    BY <2>1 DEF WellFormed, Selector, RemediationNodes, RemediationNode, AgentNode, ToolNode,
               Spec1
  <2>11. WellFormed(RemediationNodes[coach_progress_path])
    BY <2>1 DEF WellFormed, Selector, RemediationNodes, RemediationNode, AgentNode, ToolNode,
               Spec1
  <2> QED
    BY <2>1, <2>2, <2>3, <2>4, <2>5, <2>6, <2>7, <2>8, <2>9, <2>10, <2>11 DEF RemediationNode
<1> QED
  BY <1>1, <1>2, <1>3, CaseFacts DEF Workflow

\* What a case seeds is a payload.
LEMMA SeedIsPayload ==
    ASSUME case \in CaseName
    PROVE  IsPayload(EvaluationCase[case].seed)
<1>1. EvaluationCase[case].seed \in {Seeded(Aim), Seeded(LearnerWork)}
  BY DEF EvaluationCase, EvalCase, CaseName
<1>2. IsPayload(Seeded(Aim))
  BY SkillAssumption DEF IsPayload, Seeded, Aim, Field, Datum, Value, Origin
<1>3. IsPayload(Seeded(LearnerWork))
  <2> DEFINE fields == {"goal", "target_skill", "learner_response", "score", "error_analysis"}
  <2>1. \A f \in fields : LearnerWork[f] \in Value
    BY SkillAssumption DEF LearnerWork, Value
  <2>2. DOMAIN LearnerWork = fields
    BY DEF LearnerWork
  <2>3. Seeded(LearnerWork) \in [fields -> Datum]
    BY <2>1, <2>2 DEF Seeded, Datum, Origin
  <2>4. fields \subseteq Field
    BY DEF Field
  <2> QED
    BY <2>3, <2>4 DEF IsPayload
<1> QED
  BY <1>1, <1>2, <1>3

\* What a tool keeps of a payload is a payload.
LEMMA KeptIsPayload ==
    ASSUME NEW p, IsPayload(p), NEW fields, fields \subseteq Field
    PROVE  IsPayload(Kept(p, fields))
BY DEF IsPayload, Kept, Found

\* What a node makes of a payload is a payload.
LEMMA OutputIsPayload ==
    ASSUME case \in CaseName, NEW n \in NodeId, NEW p, IsPayload(p), NEW o \in Outputs(n, p)
    PROVE  IsPayload(o)
<1> DEFINE spec == NodeSpecs[Flow][n]
<1>1. CASE spec.kind = "agent"
  <2>1. spec.ref \in Origin /\ RequiredKeys(spec.ref) \subseteq Field
    BY <1>1, SpecsAre DEF WellFormed, Origin, RequiredKeys, Field, LearnerProfiler,
       CurriculumPlanner, ExerciseDesigner, ReviewerGrader, TutorCoach
  <2>2. o \in ModelObjects(spec.ref)
    BY <1>1 DEF Outputs, AgentOutputs
  <2> HIDE DEF spec
  <2> DEFINE Asked == {RequiredKeys(spec.ref), RequiredKeys(spec.ref) \cup Volunteers, {}}
             Said(keys) == {g \in [keys -> Value] : \A f \in keys : g[f] \in Sayable(f)}
             Object(keys, says) == [f \in keys |-> [by |-> spec.ref, says |-> says[f]]]
  <2>3. o \in UNION {{Object(keys, says) : says \in Said(keys)} : keys \in Asked}
    BY <2>2, Zenon DEF ModelObjects
  <2> HIDE DEF Said, Object
  <2>4. PICK keys \in Asked : \E says \in Said(keys) : o = Object(keys, says)
    BY <2>3
  <2>5. PICK says \in Said(keys) : o = Object(keys, says)
    BY <2>4
  <2>6. keys \subseteq Field /\ says \in [keys -> Value]
    BY <2>1, <2>4, <2>5, VolunteersAssumption DEF Said
  <2> QED
    BY <2>1, <2>5, <2>6 DEF IsPayload, Datum, Object
<1>2. CASE spec.kind = "tool"
  <2>1. o \in ToolOutputs(spec.ref, p)
    BY <1>2 DEF Outputs
  <2>2. CASE spec.ref = "curriculum_lookup"
    <3> DEFINE asked == IF Found(p, "target_skill") # None THEN "target_skill" ELSE "goal"
    <3>1. o = [f \in {"target_skill", "goal"} |->
                   Found(p, IF f = "target_skill" THEN asked ELSE f)]
      BY <2>1, <2>2 DEF ToolOutputs, CurriculumLookup
    <3>2. \A f \in Field : Found(p, f) \in Datum \cup {None}
      BY DEF Found, IsPayload
    <3>3. asked \in Field /\ {"target_skill", "goal"} \subseteq Field
      BY DEF Field
    <3> HIDE DEF asked
    <3> QED
      BY <3>1, <3>2, <3>3 DEF IsPayload
  <2>3. CASE spec.ref = "exercise_template_lookup"
    BY <2>1, <2>3, KeptIsPayload DEF ToolOutputs, ExerciseTemplateLookup, Field
  <2>4. CASE spec.ref = "rubric_lookup"
    BY <2>1, <2>4, KeptIsPayload DEF ToolOutputs, RubricLookup, Field
  <2>5. CASE spec.ref = "answer_normalizer"
    BY <2>1, <2>5, KeptIsPayload DEF ToolOutputs, AnswerNormalizer, Field
  <2> QED
    BY <1>2, <2>2, <2>3, <2>4, <2>5, SpecsAre DEF WellFormed
<1>3. CASE spec.kind \notin {"agent", "tool"}
  BY <1>3 DEF Outputs
<1> QED
  BY <1>1, <1>2, <1>3

\* A step of a node keeps the types.
LEMMA TypesAreKept ==
    ASSUME EducationInv, NEW n \in NodeId, Ran(n)
    PROVE  TypeOK'
<1>1. TypeOK /\ case \in CaseName
  BY DEF EducationInv, TypeOK
<1>2. IsPayload(Merge(Reads(n)))
  <2>1. ASSUME NEW s \in NodeId \cup {Seed} PROVE IsPayload(Resolve(s))
    BY <1>1, SeedIsPayload DEF Resolve, TypeOK
  <2>2. /\ DOMAIN Reads(n) \subseteq 1 .. 5
        /\ \A i \in DOMAIN Reads(n) : Reads(n)[i] \in NodeId \cup {Seed}
    BY <1>1, SpecsAre DEF Reads, WellFormed, Selector
  <2> QED
    BY <2>1, <2>2, MergeIsPayload
<1>3. ASSUME NEW x \in NodeId PROVE IsPayload(input'[x]) /\ IsPayload(artifact'[x])
  <2>1. CASE x = n
    BY <1>1, <1>2, <2>1, OutputIsPayload DEF Ran, TypeOK
  <2>2. CASE x # n
    BY <1>1, <2>2 DEF Ran, TypeOK
  <2> QED
    BY <2>1, <2>2
<1>4. matched' \in {"none", "true", "false"}
  BY <1>1 DEF Ran, TypeOK, Decided
<1>5. status' \in [NodeId -> {"pending", "succeeded", "failed"}]
  BY <1>1 DEF Ran, TypeOK
<1> QED
  BY <1>1, <1>3, <1>4, <1>5 DEF Ran, TypeOK, IsPayload

-----------------------------------------------------------------------------
(* The invariant holds                                                      *)

\* A step of a node keeps every part of the invariant: no verdict was given.
LEMMA NodeStep ==
    ASSUME EducationInv, NEW n \in NodeId, RunNode(n)
    PROVE  EducationInv'
<1>1. Ran(n)
  BY NodeRuns
<1>2. JudgedAtTheEnd'
  <2>1. run = "running" /\ verdict' = verdict
    BY <1>1 DEF Ran
  <2>2. verdict = "none"
    BY <2>1 DEF EducationInv, JudgedAtTheEnd
  <2> QED
    BY <2>1, <2>2 DEF JudgedAtTheEnd
<1>3. InputsAreThere'
  BY <1>1 DEF Ran, InputsAreThere
<1>4. TypeOK' /\ Ordered' /\ DecisionFollowed' /\ ReviewsKept'
  BY <1>1, TypesAreKept, OrderIsKept, DecisionStep, ReviewsStayKept
<1>5. RunningIsWell'
  BY <1>1 DEF Ran, EducationInv, RunningIsWell
<1>6. CasesProgress'
  <2>1. CASE status'[n] = "failed"
    BY <1>1, <2>1 DEF Ran, CasesProgress
  <2>2. CASE status'[n] = "succeeded"
    <3>1. \A x \in NodeId' : status'[x] # "failed"
      BY <1>1, <2>2 DEF Ran, EducationInv, RunningIsWell
    <3>2. Sound'
      BY <1>4, <3>1 DEF Sound, TypeOK
    <3>3. (Sound => Decide # "stuck")'
      BY NeverStuck, PTL
    <3> QED
      BY <1>1, <2>2, <3>2, <3>3 DEF Ran, CasesProgress
  <2> QED
    BY <1>1, <2>1, <2>2 DEF Ran
<1> QED
  BY <1>2, <1>3, <1>4, <1>5, <1>6 DEF EducationInv

\* While the run stays as it is, so does what is said of it.
LEMMA RunKept ==
    ASSUME EducationInv, UNCHANGED <<case, status, input, artifact, matched, run>>,
           JudgedAtTheEnd', verdict' \in {"none", "passed", "failed", "error"}
    PROVE  EducationInv'
<1>1. Flow' = Flow /\ NodeId' = NodeId /\ PlainEdges(Flow') = PlainEdges(Flow)
  BY DEF Flow, NodeId
<1>2. TypeOK'
  BY <1>1 DEF EducationInv, TypeOK
<1>3. Ordered'
  BY <1>1 DEF EducationInv, Ordered
<1>4. DecisionFollowed'
  BY <1>1 DEF EducationInv, DecisionFollowed
<1>5. ReviewsKept'
  BY <1>1 DEF EducationInv, ReviewsKept, Reviewed
<1>6. InputsAreThere' /\ RunningIsWell' /\ CasesProgress'
  BY <1>1 DEF EducationInv, InputsAreThere, RunningIsWell, CasesProgress
<1> QED
  BY <1>2, <1>3, <1>4, <1>5, <1>6 DEF EducationInv

\* A verdict is only given after the end, and "passed" for what was completed.
LEMMA JudgeStep ==
    ASSUME EducationInv, JudgeCase
    PROVE  EducationInv'
<1>1. UNCHANGED <<case, status, input, artifact, matched, run>>
  BY DEF JudgeCase
<1>2. NodeId' = NodeId /\ Completed' = Completed
  BY <1>1 DEF Flow, NodeId, Completed
<1>3. /\ run # "running" /\ verdict' \in {"passed", "failed", "error"}
      /\ verdict' = "passed" => EvaluationCase[case].required \subseteq Completed
  BY DEF JudgeCase, Score
<1>4. JudgedAtTheEnd'
  BY <1>1, <1>2, <1>3 DEF JudgedAtTheEnd
<1> QED
  BY <1>1, <1>3, <1>4, RunKept

\* At first every node is pending, and nothing has been said of any.
LEMMA InitHolds == Init => EducationInv
<1> SUFFICES ASSUME Init PROVE EducationInv
  OBVIOUS
<1>1. case \in CaseName /\ \A n \in NodeId : status[n] = "pending"
  BY DEF Init
<1>2. TypeOK
  <2>1. IsPayload(NoPayload)
    BY DEF IsPayload, NoPayload
  <2> QED
    BY <2>1 DEF Init, TypeOK
<1>3. Ordered
  BY <1>1, EdgesJoinNodes DEF Ordered
<1>4. DecisionFollowed
  <2> SUFFICES ASSUME Flow = "remediation_loop" PROVE DecisionFollowed
    BY DEF DecisionFollowed
  <2>1. NodeId = RemediationNode
    BY <1>1, NodesOf
  <2>2. decide_remediation_path \in NodeId /\ \A e \in DecisionEdges : e.to \in NodeId
    BY <2>1 DEF RemediationNode, DecisionEdges
  <2>3. matched = "none"
    BY DEF Init
  <2> QED
    BY <1>1, <2>2, <2>3 DEF DecisionFollowed
<1>5. ReviewsKept
  <2>1. ASSUME Flow = "practice_review"
        PROVE  Reviewed(design_exercises, capture_submission, normalize_submission,
                        lookup_review_rubric, review_submission)
    <3>1. NodeId = PracticeNode
      BY <1>1, <2>1, NodesOf
    <3> QED
      BY <1>1, <3>1 DEF PracticeNode, Reviewed
  <2>2. ASSUME Flow = "remediation_loop"
        PROVE  Reviewed(design_initial_exercises, capture_attempt, normalize_attempt,
                        lookup_attempt_rubric, review_attempt)
    <3>1. NodeId = RemediationNode
      BY <1>1, <2>2, NodesOf
    <3> QED
      BY <1>1, <3>1 DEF RemediationNode, Reviewed
  <2> QED
    BY <2>1, <2>2 DEF ReviewsKept
<1>6. JudgedAtTheEnd /\ InputsAreThere /\ RunningIsWell /\ CasesProgress
  BY <1>1 DEF Init, JudgedAtTheEnd, InputsAreThere, RunningIsWell, CasesProgress
<1> QED
  BY <1>2, <1>3, <1>4, <1>5, <1>6 DEF EducationInv

\* Nothing but a node or the judge changes anything.
LEMMA StutterKeeps ==
    ASSUME EducationInv, UNCHANGED vars
    PROVE  EducationInv'
<1>1. UNCHANGED <<case, status, input, artifact, matched, run, verdict>>
  BY DEF vars
<1>2. Completed' = Completed
  BY <1>1 DEF Flow, NodeId, Completed
<1>3. JudgedAtTheEnd' /\ verdict' \in {"none", "passed", "failed", "error"}
  BY <1>1, <1>2 DEF EducationInv, JudgedAtTheEnd, TypeOK
<1> QED
  BY <1>1, <1>3, RunKept

\* The inductive invariant holds in every state of every case.
THEOREM EducationInvHolds == Spec => []EducationInv
<1>1. EducationInv /\ [Next]_vars => EducationInv'
  BY NodeStep, JudgeStep, StutterKeeps DEF Next
<1> QED
  BY <1>1, InitHolds, PTL DEF Spec

-----------------------------------------------------------------------------
(* What it shows                                                            *)

\* Every variable of a case keeps its type: no step makes an input or an output
\* that is not a payload.
THEOREM TypeCorrect == Spec => []TypeOK
<1>1. EducationInv => TypeOK
  BY DEF EducationInv
<1> QED
  BY <1>1, EducationInvHolds, PTL

\* No selector ever misses a source: the edges of the three workflows cover what
\* their selectors read (definitions.py, _resolve_input_source).
THEOREM SourcesAreReady == Spec => []InputsAreThere
<1>1. EducationInv => InputsAreThere
  BY DEF EducationInv
<1> QED
  BY <1>1, EducationInvHolds, PTL

\* No run fails for want of progress: whatever the review says, the edges leave a
\* node to run until an end is reached or a node fails (FrontierScheduler.decide).
THEOREM SomethingIsReady == Spec => []CasesProgress
<1>1. EducationInv => CasesProgress
  BY DEF EducationInv
<1> QED
  BY <1>1, EducationInvHolds, PTL

\* Who reviews.
LEMMA Reviewers ==
    ASSUME case \in CaseName, NEW n \in NodeId, NodeSpecs[Flow][n].ref = "reviewer_grader"
    PROVE  \/ Flow = "practice_review" /\ n = review_submission
           \/ Flow = "remediation_loop" /\ n = review_attempt
<1>1. CASE Flow = "diagnostic_plan"
  <2>1. n \in DiagnosticNode /\ DiagnosticNodes[n].ref = "reviewer_grader"
    BY <1>1, NodesOf DEF NodeSpecs, Workflow
  <2> QED
    BY <2>1 DEF DiagnosticNodes, DiagnosticNode, AgentNode, ToolNode, Spec1
<1>2. CASE Flow = "practice_review"
  <2>1. n \in PracticeNode /\ PracticeNodes[n].ref = "reviewer_grader"
    BY <1>2, NodesOf DEF NodeSpecs, Workflow
  <2> QED
    BY <1>2, <2>1 DEF PracticeNodes, PracticeNode, AgentNode, ToolNode, Spec1
<1>3. CASE Flow = "remediation_loop"
  <2>1. n \in RemediationNode /\ RemediationNodes[n].ref = "reviewer_grader"
    BY <1>3, NodesOf DEF NodeSpecs, Workflow
  <2> QED
    BY <1>3, <2>1 DEF RemediationNodes, RemediationNode, AgentNode, ToolNode, Spec1
<1> QED
  BY <1>1, <1>2, <1>3, CaseFacts DEF Workflow

\* The reviewer always grades the learner's score and response, against the skill
\* the exercises were designed for (select_node_input, _deep_merge).
THEOREM LearnersAreGraded == Spec => []ReviewGradesTheLearner
<1>1. EducationInv => ReviewGradesTheLearner
  <2> SUFFICES ASSUME EducationInv, NEW n \in NodeId, NEW d \in NodeId,
                      NodeSpecs[Flow][n].ref = "reviewer_grader", status[n] # "pending",
                      d \in {design_exercises, design_initial_exercises}
               PROVE  /\ input[n]["score"].by = "learner"
                      /\ input[n]["learner_response"].by = "learner"
                      /\ input[n]["target_skill"] = artifact[d]["target_skill"]
    BY DEF ReviewGradesTheLearner
  <2>1. case \in CaseName
    BY DEF EducationInv, TypeOK
  <2>2. CASE Flow = "practice_review" /\ n = review_submission
    <3>1. d = design_exercises
      BY <2>1, <2>2, NodesOf DEF PracticeNode
    <3> QED
      BY <2>2, <3>1 DEF EducationInv, ReviewsKept, Reviewed
  <2>3. CASE Flow = "remediation_loop" /\ n = review_attempt
    <3>1. d = design_initial_exercises
      BY <2>1, <2>3, NodesOf DEF RemediationNode
    <3> QED
      BY <2>3, <3>1 DEF EducationInv, ReviewsKept, Reviewed
  <2> QED
    BY <2>1, <2>2, <2>3, Reviewers
<1> QED
  BY <1>1, EducationInvHolds, PTL

\* An end of the remediation workflow is reached only along its branch.
LEMMA EndsSayWhichWay ==
    ASSUME EducationInv, Flow = "remediation_loop"
    PROVE  /\ status[coach_remediation_path] = "succeeded" => matched = "true"
           /\ status[coach_progress_path] = "succeeded" => matched = "false"
<1>1. PlainEdges(Flow) = RemediationEdges
  BY DEF PlainEdges
<1>2. /\ <<lookup_remediation_template, design_remediation_exercises>> \in PlainEdges(Flow)
      /\ <<design_remediation_exercises, coach_remediation_path>> \in PlainEdges(Flow)
  BY <1>1 DEF RemediationEdges
<1>3. \A e \in PlainEdges(Flow) : status[e[2]] # "pending" => status[e[1]] = "succeeded"
  BY DEF EducationInv, Ordered
<1>4. \A e \in DecisionEdges : status[e.to] # "pending" => matched = e.matched
  BY DEF EducationInv, DecisionFollowed
<1>5. ASSUME status[coach_remediation_path] = "succeeded" PROVE matched = "true"
  <2>1. status[design_remediation_exercises] = "succeeded"
    BY <1>2, <1>3, <1>5
  <2>2. status[lookup_remediation_template] = "succeeded"
    BY <1>2, <1>3, <2>1
  <2> QED
    BY <1>4, <2>2 DEF DecisionEdges
<1>6. ASSUME status[coach_progress_path] = "succeeded" PROVE matched = "false"
  BY <1>4, <1>6 DEF DecisionEdges
<1> QED
  BY <1>5, <1>6

\* A case passes only along the path its scenario names, and no run coaches both
\* remediation and progress (decide_remediation_path, CompletedNodesScorer).
THEOREM PathsAreTaken == Spec => []PassedTookItsPath
<1>1. EducationInv => PassedTookItsPath
  <2> SUFFICES ASSUME EducationInv PROVE PassedTookItsPath
    OBVIOUS
  <2>1. case \in CaseName
    BY DEF EducationInv, TypeOK
  <2>2. Flow = "remediation_loop" /\ matched # "none" =>
            (matched = "true" <=> artifact[review_attempt]["mastery_signal"].says = "weak")
    BY DEF EducationInv, DecisionFollowed
  <2>3. verdict = "passed" => EvaluationCase[case].required \subseteq Completed
    BY DEF EducationInv, JudgedAtTheEnd
  <2>4. ASSUME verdict = "passed", case = "remediation_weak"
        PROVE  artifact[review_attempt]["mastery_signal"].says = "weak"
    <3>1. coach_remediation_path \in EvaluationCase[case].required
      BY <2>4 DEF EvaluationCase, EvalCase, CaseName, RemediationNode
    <3>2. status[coach_remediation_path] = "succeeded" /\ Flow = "remediation_loop"
      BY <2>1, <2>3, <2>4, <3>1, CaseFacts DEF Completed
    <3> QED
      BY <2>2, <3>2, EndsSayWhichWay
  <2>5. ASSUME verdict = "passed", case = "remediation_strong"
        PROVE  artifact[review_attempt]["mastery_signal"].says # "weak"
    <3>1. coach_progress_path \in EvaluationCase[case].required
      BY <2>5 DEF EvaluationCase, EvalCase, CaseName, RemediationNode
    <3>2. status[coach_progress_path] = "succeeded" /\ Flow = "remediation_loop"
      BY <2>1, <2>3, <2>5, <3>1, CaseFacts DEF Completed
    <3> QED
      BY <2>2, <3>2, EndsSayWhichWay
  <2>6. ASSUME Flow = "remediation_loop" PROVE Cardinality(RemediationEnds \cap Completed) <= 1
    <3> DEFINE ends == RemediationEnds \cap Completed
    <3>1. ~(coach_remediation_path \in ends /\ coach_progress_path \in ends)
      BY <2>6, EndsSayWhichWay DEF Completed
    <3>2. ends = {} \/ ends = {coach_remediation_path} \/ ends = {coach_progress_path}
      BY <3>1 DEF RemediationEnds
    <3>3. Cardinality({}) = 0 /\ Cardinality({coach_remediation_path}) = 1
          /\ Cardinality({coach_progress_path}) = 1
      BY FS_EmptySet, FS_Singleton
    <3> HIDE DEF ends
    <3>4. Cardinality(ends) <= 1
      BY <3>2, <3>3
    <3> QED
      BY <3>4 DEF ends
  <2> QED
    BY <2>4, <2>5, <2>6 DEF PassedTookItsPath
<1> QED
  BY <1>1, EducationInvHolds, PTL
==============================================================================
