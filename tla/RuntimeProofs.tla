---------------------------- MODULE RuntimeProofs ----------------------------
(***************************************************************************)
(* Theorems about RuntimeService for every workflow, executor behaviour,   *)
(* number of runs and parallelism, and while other callers act: first what *)
(* a run and its interrupts look like, then what the scheduler reads of a  *)
(* run (its node lists, its frontier, its pending interrupts) and where a  *)
(* run stops because of them.                                              *)
(***************************************************************************)
EXTENDS RuntimeSafety, FiniteSetTheorems, TLAPS

-----------------------------------------------------------------------------
(* Lists                                                                    *)

\* A listing of nodes is a list of nodes, and lists members of the set only.
LEMMA ListingsType ==
    ASSUME NEW S \in SUBSET Node, NEW order, NEW list \in Listings(S, order)
    PROVE  list \in Seq(S) /\ list \in Seq(Node) /\ Elements(list) \subseteq S
<1>1. IsFiniteSet(S)
  BY FS_Subset, NodeAssumption
<1>2. Cardinality(S) \in Nat
  BY <1>1, FS_CardinalityType
<1>3. list \in [1 .. Cardinality(S) -> S]
  BY DEF Listings
<1>4. list \in Seq(S)
  BY <1>2, <1>3
<1>5. list \in Seq(Node)
  BY <1>2, <1>3
<1>6. Elements(list) \subseteq S
  BY <1>3 DEF Elements
<1> QED
  BY <1>4, <1>5, <1>6

\* The members of a list of nodes are nodes.
LEMMA ElementsType ==
    ASSUME NEW list \in Seq(Node)
    PROVE  Elements(list) \in SUBSET Node
BY DEF Elements

\* Taking a node off a list leaves a list.
LEMMA WithoutNodeType ==
    ASSUME NEW list \in Seq(Node), NEW n \in Node, NEW rest \in WithoutNode(list, n)
    PROVE  rest \in Seq(Node) /\ Elements(rest) \subseteq Elements(list) \ {n}
<1>1. Elements(list) \ {n} \in SUBSET Node
  BY ElementsType
<1> QED
  BY <1>1, ListingsType DEF WithoutNode

\* Merging two lists gives a list.
LEMMA MergeUniqueType ==
    ASSUME NEW base \in Seq(Node), NEW incoming \in Seq(Node),
           NEW list \in MergeUnique(base, incoming)
    PROVE  list \in Seq(Node)
<1>1. Elements(incoming) \ Elements(base) \in SUBSET Node
  BY ElementsType
<1>2. PICK rest \in Listings(Elements(incoming) \ Elements(base), ListOrder(incoming)) :
         list = base \o rest
  BY DEF MergeUnique
<1>3. rest \in Seq(Node)
  BY <1>1, ListingsType
<1> QED
  BY <1>2, <1>3

\* A batch is a list of ready nodes.
LEMMA BatchesType ==
    ASSUME NEW ready \in SUBSET Node, NEW frontier, NEW active \in SUBSET Node,
           NEW batch \in Batches(ready, frontier, active)
    PROVE  batch \in Seq(ready) /\ batch \in Seq(Node)
<1>1. PICK list \in Listings(ready, ReadyOrder(frontier)) :
         batch = SubSeq(list, 1, IF Len(list) < AvailableSlots(active)
                                 THEN Len(list) ELSE AvailableSlots(active))
  BY DEF Batches
<1>2. list \in Seq(ready) /\ list \in Seq(Node)
  BY ListingsType
<1>3. Cardinality(active) \in Nat
  BY FS_Subset, FS_CardinalityType, NodeAssumption
<1>4. AvailableSlots(active) \in Nat
  BY <1>3, SchedulerAssumption DEF AvailableSlots
<1> DEFINE k == IF Len(list) < AvailableSlots(active)
                THEN Len(list) ELSE AvailableSlots(active)
<1>5. k \in Nat /\ k <= Len(list)
  BY <1>2, <1>4
<1>6. batch = SubSeq(list, 1, k)
  BY <1>1
<1> HIDE DEF k
<1> QED
  BY <1>2, <1>5, <1>6

-----------------------------------------------------------------------------
(* Executors                                                                *)

\* Whatever an executor answers is a node result.
LEMMA ExecutorResultsType ==
    ASSUME NEW n \in Node, NEW answered \in BOOLEAN,
           NEW result \in ExecutorResults(n, answered)
    PROVE  result \in NodeResult
<1> USE PayloadAssumption, OutputAssumption
<1>1. ASSUME NEW payload \in Payload, NEW acts \in SUBSET PolicyAction
      PROVE  /\ Succeeded(n, payload, acts) \in NodeResult
             /\ ApprovalRequested(n, payload, acts) \in NodeResult
             /\ Failed(acts) \in NodeResult
  BY DEF Succeeded, ApprovalRequested, Failed, Bound, NodeResult
<1>2. ASSUME NEW p \in Output[n]
      PROVE  p \in Payload
  OBVIOUS
<1>3. Kind[n] \in NodeKind
  BY KindAssumption
<1>4. CASE Kind[n] \in {"noop", "condition", "merge"}
  <2>1. result \in BuiltinResults(n)
    BY <1>4 DEF ExecutorResults
  <2> QED
    BY <2>1, <1>1, <1>2 DEF BuiltinResults
<1>5. CASE Kind[n] = "human_gate"
  <2>1. result \in HumanGateResults(n, answered)
    BY <1>5 DEF ExecutorResults
  <2>2. "approved" \in Payload /\ "approval_required" \in Payload
    OBVIOUS
  <2> QED
    BY <2>1, <2>2, <1>1 DEF HumanGateResults
<1>6. CASE Kind[n] = "tool"
  <2>1. result \in ToolResults(n)
    BY <1>6 DEF ExecutorResults
  <2>2. PICK v \in Verdict[n] :
           result \in (CASE v = "none"             -> ToolRuns(n, {})
                         [] v = "allow"            -> ToolRuns(n, {v})
                         [] v = "redact"           -> ToolRuns(n, {v}) \cup {Failed({v})}
                         [] v = "require_approval" -> {ApprovalRequested(n, "empty", {v})}
                         [] v \in {"deny", "degrade", "retry_later"} -> {Failed({v})})
    BY <2>1 DEF ToolResults
  <2>3. v \in PolicyAction \cup {"none"}
    BY VerdictAssumption
  <2>4. ASSUME NEW acts \in SUBSET PolicyAction
        PROVE  ToolRuns(n, acts) \subseteq NodeResult
    BY <1>1, <1>2 DEF ToolRuns
  <2>5. CASE v = "none"
    <3>1. result \in ToolRuns(n, {})
      BY <2>2, <2>5
    <3> QED
      BY <3>1, <2>4
  <2>6. CASE v \in PolicyAction
    <3>1. {v} \in SUBSET PolicyAction
      BY <2>6
    <3>2. "empty" \in Payload
      OBVIOUS
    <3>3. \/ result \in ToolRuns(n, {v})
          \/ result = Failed({v})
          \/ result = ApprovalRequested(n, "empty", {v})
      BY <2>2, <2>6 DEF PolicyAction
    <3> QED
      BY <3>1, <3>2, <3>3, <2>4, <1>1
  <2> QED
    BY <2>3, <2>5, <2>6
<1>7. CASE Kind[n] = "agent"
  BY <1>7, AgentAssumption DEF ExecutorResults
<1> QED
  BY <1>3, <1>4, <1>5, <1>6, <1>7 DEF NodeKind

-----------------------------------------------------------------------------
(* Type correctness                                                         *)

LEMMA WithResultType ==
    ASSUME NEW state \in RunStateRecord, NEW n \in Node, NEW result \in NodeResult
    PROVE  WithResult(state, n, result) \in RunStateRecord
<1>1. result.asks \in BOOLEAN
  BY DEF NodeResult
<1>2. \A list \in SUBSET Node : \A status :
         Moved(list, n, result, status) \in SUBSET Node
  BY DEF Moved
<1>3. (IF result.asks THEN Append(state.pending, n) ELSE state.pending) \in Seq(Node)
  BY <1>1 DEF RunStateRecord
<1> QED
  BY <1>2, <1>3 DEF WithResult, RunStateRecord

LEMMA EmptyList == <<>> \in Seq(Node)
OBVIOUS

LEMMA EndedType ==
    ASSUME NEW state \in RunStateRecord, NEW status \in RunStatus
    PROVE  Ended(state, status) \in RunStateRecord
BY EmptyList DEF Ended, RunStateRecord

LEMMA ResumedType ==
    ASSUME NEW state \in RunStateRecord, NEW frontier \in Seq(Node), NEW answered \in BOOLEAN
    PROVE  Resumed(state, frontier, answered) \in RunStateRecord
<1> DEFINE asked == IF answered THEN Elements(state.pending) ELSE {}
<1>1. (IF answered THEN <<>> ELSE state.pending) \in Seq(Node)
  BY EmptyList DEF RunStateRecord
<1>2. Resumed(state, frontier, answered) =
         [state EXCEPT !.status   = "running",
                       !.frontier = frontier,
                       !.waiting  = @ \ asked,
                       !.blocked  = @ \ asked,
                       !.pending  = IF answered THEN <<>> ELSE @]
  BY DEF Resumed
<1> HIDE DEF asked
<1> QED
  BY <1>1, <1>2 DEF RunStateRecord, RunStatus

LEMMA EndRunType ==
    ASSUME TypeOK, NEW r \in Run, NEW status \in RunStatus, EndRun(r, status)
    PROVE  /\ thread' \in [status : ThreadStatus, current : Run \cup {NoRun}]
           /\ threadState' \in [status : ThreadStatus, active : Run \cup {NoRun}]
           /\ run' \in [Run -> RunStatus \cup {"absent"}]
           /\ runState' \in [Run -> RunStateRecord]
BY EndedType DEF TypeOK, EndRun, ReleaseThread, ThreadStatus

LEMMA SuspendRunType ==
    ASSUME TypeOK, NEW r \in Run, NEW status \in RunStatus, SuspendRun(r, status)
    PROVE  /\ thread' \in [status : ThreadStatus, current : Run \cup {NoRun}]
           /\ threadState' \in [status : ThreadStatus, active : Run \cup {NoRun}]
           /\ run' \in [Run -> RunStatus \cup {"absent"}]
           /\ runState' \in [Run -> RunStateRecord]
<1> DEFINE state == runState[r]
<1>1. [state EXCEPT !.status = status, !.frontier = <<>>] \in RunStateRecord
  <2>1. state \in RunStateRecord
    BY DEF TypeOK
  <2> HIDE DEF state
  <2> QED
    BY <2>1, EmptyList DEF RunStateRecord
<1>2. runState' \in [Run -> RunStateRecord]
  BY <1>1 DEF TypeOK, SuspendRun
<1> QED
  BY <1>2 DEF TypeOK, SuspendRun, ThreadStatus

LEMMA LoopAtType ==
    ASSUME TypeOK, NEW r \in Run, NEW batch \in Seq(Node),
           NEW at \in {"idle", "decide", "dispatch", "execute"}, LoopAt(r, at, batch),
           at = "execute" => batch # <<>>
    PROVE  /\ loop' \in [Run -> Loop]
           /\ \A q \in Run : loop'[q].at = "execute" => loop'[q].batch # <<>>
<1>1. [at |-> at, batch |-> batch] \in Loop
  BY DEF Loop
<1>2. loop' = [loop EXCEPT ![r] = [at |-> at, batch |-> batch]]
  BY DEF LoopAt
<1> QED
  BY <1>1, <1>2 DEF TypeOK

\* The batch of a loop is a list of nodes, and what is left of it is one.
LEMMA BatchType ==
    ASSUME TypeOK, NEW r \in Run
    PROVE  /\ loop[r].batch \in Seq(Node)
           /\ loop[r].batch # <<>> => Head(loop[r].batch) \in Node
                                      /\ Tail(loop[r].batch) \in Seq(Node)
BY DEF TypeOK, Loop

LEMMA TypeInit == Init => TypeOK
BY RunAssumption, NodeAssumption, EmptyList
   DEF Init, TypeOK, ThreadStatus, RunStateRecord, NewRunState, NodeStatus, Loop

LEMMA TypeNext == TypeOK /\ [Next]_vars => TypeOK'
<1> SUFFICES ASSUME TypeOK, [Next]_vars PROVE TypeOK'
  OBVIOUS
<1> USE DEF ThreadStatus, RunStatus, NodeStatus
<1>1. ASSUME NEW r \in Run, StartRun(r) PROVE TypeOK'
  <2>1. NewRunState("running", <<Entry>>) \in RunStateRecord
    BY NodeAssumption DEF NewRunState, RunStateRecord
  <2>2. <<>> \in Seq(Node)
    OBVIOUS
  <2> QED
    BY <1>1, <2>1, <2>2, LoopAtType DEF TypeOK, StartRun
<1>2. ASSUME NEW r \in Run, NEW answered \in BOOLEAN, ResumeRun(r, answered)
      PROVE  TypeOK'
  <2> DEFINE resolved == IF answered THEN runState[r].pending ELSE <<>>
             asked    == Elements(resolved)
  <2>1. /\ runState[r] \in RunStateRecord
        /\ runState[r].frontier \in Seq(Node) /\ runState[r].pending \in Seq(Node)
    BY DEF TypeOK, RunStateRecord
  <2>2. resolved \in Seq(Node)
    BY <2>1, EmptyList
  <2>3. PICK frontier \in MergeUnique(runState[r].frontier, resolved) :
           runState' = [runState EXCEPT ![r] = Resumed(@, frontier, answered)]
    BY <1>2 DEF ResumeRun
  <2>4. frontier \in Seq(Node)
    BY <2>1, <2>2, <2>3, MergeUniqueType
  <2>5. Resumed(runState[r], frontier, answered) \in RunStateRecord
    BY <2>1, <2>4, ResumedType
  <2>6. runState' \in [Run -> RunStateRecord]
    BY <2>3, <2>5 DEF TypeOK
  <2>7. /\ thread' = [thread EXCEPT !.status = "active"]
        /\ threadState' = [threadState EXCEPT !.status = "active"]
        /\ run' = [run EXCEPT ![r] = "running"]
        /\ node' = [node EXCEPT ![r] = [n \in Node |-> IF n \in asked THEN "ready" ELSE node[r][n]]]
        /\ interrupt' = [interrupt EXCEPT ![r] =
              [n \in Node |-> IF n \in asked THEN "resolved" ELSE interrupt[r][n]]]
        /\ UNCHANGED <<artifact, actions>>
        /\ (LoopAt(r, "decide", <<>>) \/ UNCHANGED loop)
    BY <1>2 DEF ResumeRun
  <2>8. /\ loop' \in [Run -> Loop]
        /\ \A q \in Run : loop'[q].at = "execute" => loop'[q].batch # <<>>
    BY <2>7, EmptyList, LoopAtType DEF TypeOK
  <2> HIDE DEF asked, resolved
  <2> QED
    BY <2>6, <2>7, <2>8 DEF TypeOK
<1>3. ASSUME NEW r \in Run, CancelRun(r) PROVE TypeOK'
  <2>1. [Ended(runState[r], "cancelled") EXCEPT !.waiting = {}, !.blocked = {}] \in RunStateRecord
    <3>1. Ended(runState[r], "cancelled") \in RunStateRecord
      BY EndedType DEF TypeOK
    <3> QED
      BY <3>1 DEF RunStateRecord
  <2> QED
    BY <1>3, <2>1 DEF TypeOK, CancelRun, ReleaseThread
<1>4. ASSUME NEW r \in Run, LoopExits(r) PROVE TypeOK'
  BY <1>4, EmptyList, LoopAtType DEF TypeOK, LoopExits
<1>5. ASSUME NEW r \in Run, Dispatch(r) PROVE TypeOK'
  <2>1. Ready(r) \in SUBSET Node
    BY DEF Ready, ReadyNodes
  <2>2. PICK batch \in Batches(Ready(r), runState[r].frontier, runState[r].active) :
           /\ runState' = [runState EXCEPT ![r] = [@ EXCEPT !.frontier = batch]]
           /\ LoopAt(r, "dispatch", batch)
    BY <1>5 DEF Dispatch
  <2>3. runState[r] \in RunStateRecord /\ runState[r].active \in SUBSET Node
    BY DEF TypeOK, RunStateRecord
  <2>4. batch \in Seq(Node)
    BY <2>1, <2>2, <2>3, BatchesType
  <2>5. [runState[r] EXCEPT !.frontier = batch] \in RunStateRecord
    BY <2>3, <2>4 DEF RunStateRecord
  <2>6. /\ loop' \in [Run -> Loop]
        /\ \A q \in Run : loop'[q].at = "execute" => loop'[q].batch # <<>>
    BY <2>2, <2>4, LoopAtType
  <2> QED
    BY <1>5, <2>2, <2>5, <2>6 DEF TypeOK, Dispatch
<1>6. ASSUME NEW r \in Run, Settle(r) PROVE TypeOK'
  <2>1. /\ loop' \in [Run -> Loop]
        /\ \A q \in Run : loop'[q].at = "execute" => loop'[q].batch # <<>>
    BY <1>6, EmptyList, LoopAtType DEF Settle
  <2>2. \/ EndRun(r, "completed") \/ EndRun(r, "failed")
        \/ SuspendRun(r, "interrupted") \/ SuspendRun(r, "waiting")
    BY <1>6 DEF Settle
  <2>3. UNCHANGED <<node, artifact, actions, interrupt>>
    BY <1>6 DEF Settle
  <2>4. CASE EndRun(r, "completed") \/ EndRun(r, "failed")
    BY <2>1, <2>3, <2>4, EndRunType DEF TypeOK
  <2>5. CASE SuspendRun(r, "interrupted") \/ SuspendRun(r, "waiting")
    BY <2>1, <2>3, <2>5, SuspendRunType DEF TypeOK
  <2> QED
    BY <2>2, <2>4, <2>5
<1>7. ASSUME NEW r \in Run, BatchDone(r) PROVE TypeOK'
  BY <1>7, EmptyList, LoopAtType DEF TypeOK, BatchDone
<1>8. ASSUME NEW r \in Run, NEW n \in Node, NoExecutor(r, n) PROVE TypeOK'
  <2>1. /\ loop' \in [Run -> Loop]
        /\ \A q \in Run : loop'[q].at = "execute" => loop'[q].batch # <<>>
    BY <1>8, BatchType, LoopAtType DEF NoExecutor, Taking
  <2> QED
    BY <1>8, <2>1, EndRunType DEF TypeOK, NoExecutor
<1>9. ASSUME NEW r \in Run, NEW n \in Node, NodeStarts(r, n) PROVE TypeOK'
  <2>1. PICK frontier \in WithoutNode(runState[r].frontier, n) :
           runState' = [runState EXCEPT ![r] = Started(@, n, frontier)]
    BY <1>9 DEF NodeStarts
  <2>2. runState[r] \in RunStateRecord /\ runState[r].frontier \in Seq(Node)
    BY DEF TypeOK, RunStateRecord
  <2>3. frontier \in Seq(Node)
    BY <2>1, <2>2, WithoutNodeType
  <2>4. Started(runState[r], n, frontier) \in RunStateRecord
    BY <2>2, <2>3 DEF RunStateRecord, Started
  <2>5. /\ loop' \in [Run -> Loop]
        /\ \A q \in Run : loop'[q].at = "execute" => loop'[q].batch # <<>>
    BY <1>9, BatchType, LoopAtType DEF NodeStarts, Taking
  <2>6. runState' \in [Run -> RunStateRecord]
    BY <2>1, <2>4 DEF TypeOK
  <2>7. node' \in [Run -> [Node -> NodeStatus]]
    BY <1>9 DEF TypeOK, NodeStarts
  <2>8. UNCHANGED <<thread, threadState, run, artifact, actions, interrupt>>
    BY <1>9 DEF NodeStarts
  <2> QED
    BY <2>5, <2>6, <2>7, <2>8 DEF TypeOK
<1>10. ASSUME NEW r \in Run, NEW n \in Node, NodeReturns(r, n) PROVE TypeOK'
  <2>1. (interrupt[r][n] = "resolved") \in BOOLEAN
    OBVIOUS
  <2>2. PICK result \in ExecutorResults(n, interrupt[r][n] = "resolved") :
          /\ node' = [node EXCEPT ![r][n] = result.status]
          /\ artifact' = [artifact EXCEPT ![r][n] = IF @ = NoArtifact THEN result.artifact ELSE @]
          /\ actions' = [actions EXCEPT ![r][n] = @ \cup result.actions]
          /\ interrupt' = [interrupt EXCEPT ![r][n] = IF result.asks THEN "open" ELSE @]
          /\ IF result.status = "failed"
             THEN /\ ReleaseThread
                  /\ run' = [run EXCEPT ![r] = "failed"]
                  /\ runState' = [runState EXCEPT ![r] =
                        Ended(WithResult(@, n, result), "failed")]
             ELSE /\ runState' = [runState EXCEPT ![r] = WithResult(@, n, result)]
                  /\ UNCHANGED <<thread, threadState, run>>
    BY <1>10 DEF NodeReturns
  <2>3. result \in NodeResult
    BY <2>1, <2>2, ExecutorResultsType
  <2>4. WithResult(runState[r], n, result) \in RunStateRecord
    BY <2>3, WithResultType DEF TypeOK
  <2>5. Ended(WithResult(runState[r], n, result), "failed") \in RunStateRecord
    BY <2>4, EndedType
  <2>6. runState' \in [Run -> RunStateRecord]
    BY <2>2, <2>4, <2>5 DEF TypeOK
  <2>7. /\ thread' \in [status : {"created", "active", "paused"}, current : Run \cup {NoRun}]
        /\ threadState' \in [status : {"created", "active", "paused"}, active : Run \cup {NoRun}]
        /\ run' \in [Run -> {"running", "waiting", "interrupted", "completed", "failed",
                             "cancelled"} \cup {"absent"}]
    <3>1. CASE result.status = "failed"
      <4>1. /\ ReleaseThread
            /\ run' = [run EXCEPT ![r] = "failed"]
        BY <2>2, <3>1
      <4> QED
        BY <4>1 DEF TypeOK, ReleaseThread
    <3>2. CASE result.status # "failed"
      BY <2>2, <3>2 DEF TypeOK
    <3> QED
      BY <3>1, <3>2
  <2>8. /\ node' \in [Run -> [Node -> NodeStatus]]
        /\ artifact' \in [Run -> [Node -> Payload \cup {NoArtifact}]]
        /\ actions' \in [Run -> [Node -> SUBSET PolicyAction]]
        /\ interrupt' \in [Run -> [Node -> {"none", "open", "resolved"}]]
    BY <2>2, <2>3 DEF TypeOK, NodeResult
  <2>9. /\ loop' \in [Run -> Loop]
        /\ \A q \in Run : loop'[q].at = "execute" => loop'[q].batch # <<>>
    <3>1. Tail(loop[r].batch) \in Seq(Node)
      BY <1>10, BatchType DEF NodeReturns, TypeOK
    <3> QED
      BY <1>10, <3>1, LoopAtType DEF NodeReturns
  <2> QED
    BY <2>6, <2>7, <2>8, <2>9 DEF TypeOK
<1>11. ASSUME NEW r \in Run, NEW n \in Node, NodeRaises(r, n) PROVE TypeOK'
  BY <1>11, EmptyList, LoopAtType DEF TypeOK, NodeRaises
<1>12. CASE UNCHANGED vars
  BY <1>12 DEF TypeOK, vars
<1> QED
  BY <1>1, <1>2, <1>3, <1>4, <1>5, <1>6, <1>7, <1>8, <1>9, <1>10, <1>11, <1>12
     DEF Next, Call, LoopStep

\* Every record of a thread and its runs keeps the type the code declares for
\* it: each list of nodes holds nodes of the workflow, each status is one of
\* its enumeration, and what the scheduler hands out is a list of nodes.
THEOREM TypeCorrect == Spec => []TypeOK
BY TypeInit, TypeNext, PTL DEF Spec

-----------------------------------------------------------------------------
(* The records of a run                                                     *)

\* Every step writes both records of a run's status, and both of the thread's
\* current run, or neither.
LEMMA RecordsNext == TypeOK /\ RecordsAgree /\ [Next]_vars => RecordsAgree'
<1> SUFFICES ASSUME TypeOK, RecordsAgree, [Next]_vars PROVE RecordsAgree'
  OBVIOUS
<1> USE DEF RecordsAgree
<1>a. /\ runState \in [Run -> RunStateRecord] /\ run \in [Run -> RunStatus \cup {"absent"}]
      /\ threadState \in [status : ThreadStatus, active : Run \cup {NoRun}]
      /\ thread \in [status : ThreadStatus, current : Run \cup {NoRun}]
  BY DEF TypeOK
<1>b. \A state \in RunStateRecord : \A status :
         Ended(state, status).status = status
  BY DEF Ended, RunStateRecord
<1>c. \A state \in RunStateRecord : \A n, result :
         /\ WithResult(state, n, result).status = state.status
         /\ Ended(WithResult(state, n, result), "failed").status = "failed"
  BY DEF Ended, WithResult, RunStateRecord
<1>d. ASSUME NEW r \in Run, NEW status, EndRun(r, status) PROVE RecordsAgree'
  BY <1>a, <1>b, <1>d DEF EndRun, ReleaseThread
<1>1. ASSUME NEW r \in Run, StartRun(r) PROVE RecordsAgree'
  BY <1>a, <1>1 DEF StartRun, NewRunState
<1>2. ASSUME NEW r \in Run, NEW answered \in BOOLEAN, ResumeRun(r, answered)
      PROVE  RecordsAgree'
  <2>1. PICK frontier : runState' = [runState EXCEPT ![r] = Resumed(@, frontier, answered)]
    BY <1>2 DEF ResumeRun
  <2>2. Resumed(runState[r], frontier, answered).status = "running"
    BY <1>a DEF Resumed, RunStateRecord
  <2>3. /\ run' = [run EXCEPT ![r] = "running"]
        /\ thread' = [thread EXCEPT !.status = "active"]
        /\ threadState' = [threadState EXCEPT !.status = "active"]
    BY <1>2 DEF ResumeRun
  <2> QED
    BY <1>a, <2>1, <2>2, <2>3
<1>3. ASSUME NEW r \in Run, CancelRun(r) PROVE RecordsAgree'
  <2>1. [Ended(runState[r], "cancelled") EXCEPT !.waiting = {}, !.blocked = {}].status = "cancelled"
    BY <1>a DEF Ended, RunStateRecord
  <2> QED
    BY <1>a, <1>3, <2>1 DEF CancelRun, ReleaseThread
<1>4. ASSUME NEW r \in Run, Settle(r) PROVE RecordsAgree'
  <2>1. \/ EndRun(r, "completed") \/ EndRun(r, "failed")
        \/ SuspendRun(r, "interrupted") \/ SuspendRun(r, "waiting")
    BY <1>4 DEF Settle
  <2>2. ASSUME NEW status, SuspendRun(r, status) PROVE RecordsAgree'
    <3>1. [runState[r] EXCEPT !.status = status, !.frontier = <<>>].status = status
      BY <1>a DEF RunStateRecord
    <3> QED
      BY <1>a, <2>2, <3>1 DEF SuspendRun
  <2> QED
    BY <2>1, <2>2, <1>d
<1>5. ASSUME NEW r \in Run, Dispatch(r) PROVE RecordsAgree'
  <2>1. PICK batch : runState' = [runState EXCEPT ![r] = [@ EXCEPT !.frontier = batch]]
    BY <1>5 DEF Dispatch
  <2>2. [runState[r] EXCEPT !.frontier = batch].status = runState[r].status
    BY <1>a DEF RunStateRecord
  <2> QED
    BY <1>a, <1>5, <2>1, <2>2 DEF Dispatch
<1>6. ASSUME NEW r \in Run, NEW n \in Node, NoExecutor(r, n) PROVE RecordsAgree'
  BY <1>6, <1>d DEF NoExecutor
<1>7. ASSUME NEW r \in Run, NEW n \in Node, NodeStarts(r, n) PROVE RecordsAgree'
  <2>1. PICK frontier : runState' = [runState EXCEPT ![r] = Started(@, n, frontier)]
    BY <1>7 DEF NodeStarts
  <2>2. Started(runState[r], n, frontier).status = runState[r].status
    BY <1>a DEF Started, RunStateRecord
  <2> QED
    BY <1>a, <1>7, <2>1, <2>2 DEF NodeStarts
<1>8. ASSUME NEW r \in Run, NEW n \in Node, NodeReturns(r, n) PROVE RecordsAgree'
  <2>1. PICK result :
          IF result.status = "failed"
          THEN /\ ReleaseThread
               /\ run' = [run EXCEPT ![r] = "failed"]
               /\ runState' = [runState EXCEPT ![r] = Ended(WithResult(@, n, result), "failed")]
          ELSE /\ runState' = [runState EXCEPT ![r] = WithResult(@, n, result)]
               /\ UNCHANGED <<thread, threadState, run>>
    BY <1>8 DEF NodeReturns
  <2>2. CASE result.status = "failed"
    BY <1>a, <1>c, <2>1, <2>2 DEF ReleaseThread
  <2>3. CASE result.status # "failed"
    BY <1>a, <1>c, <2>1, <2>3
  <2> QED
    BY <2>2, <2>3
<1>9. CASE UNCHANGED <<thread, threadState, run, runState>>
  BY <1>9
<1> QED
  BY <1>1, <1>2, <1>3, <1>4, <1>5, <1>6, <1>7, <1>8, <1>9
     DEF Next, Call, LoopStep, LoopExits, BatchDone, NodeRaises, vars

\* The run's status in RunRecord and RunState, and the current run in
\* ThreadRecord and ThreadState, never part, whatever other callers do.
THEOREM RecordsAlwaysAgree == Spec => []RecordsAgree
<1>1. Init => RecordsAgree
  BY DEF Init, RecordsAgree, NewRunState
<1> QED
  BY <1>1, RecordsNext, TypeCorrect, PTL DEF Spec

-----------------------------------------------------------------------------
(* One loop to a run                                                        *)

\* A suspended run, which alone can be resumed, has no loop.
LoopsRun ==
    \A r \in Run : loop[r].at # "idle" => run[r] \in {"running"} \cup TerminalRunStatus

LEMMA LoopsRunNext == TypeOK /\ LoopsRun /\ [Next]_vars => LoopsRun'
<1> SUFFICES ASSUME TypeOK, LoopsRun, [Next]_vars PROVE LoopsRun'
  OBVIOUS
<1> USE DEF LoopsRun, TerminalRunStatus
<1>a. /\ run \in [Run -> RunStatus \cup {"absent"}]
      /\ loop \in [Run -> Loop]
  BY DEF TypeOK
<1>1. ASSUME NEW r \in Run, StartRun(r) PROVE LoopsRun'
  BY <1>a, <1>1 DEF StartRun, LoopAt
<1>2. ASSUME NEW r \in Run, NEW answered \in BOOLEAN, ResumeRun(r, answered) PROVE LoopsRun'
  <2>1. run' = [run EXCEPT ![r] = "running"] /\ (LoopAt(r, "decide", <<>>) \/ UNCHANGED loop)
    BY <1>2 DEF ResumeRun
  <2> QED
    BY <1>a, <2>1 DEF LoopAt
<1>3. ASSUME NEW r \in Run, CancelRun(r) PROVE LoopsRun'
  BY <1>a, <1>3 DEF CancelRun
<1>4. ASSUME NEW r \in Run, Settle(r) PROVE LoopsRun'
  <2>1. LoopAt(r, "idle", <<>>) /\ \E status : run' = [run EXCEPT ![r] = status]
    BY <1>4 DEF Settle, EndRun, SuspendRun
  <2> QED
    BY <1>a, <2>1 DEF LoopAt
<1>5. ASSUME NEW r \in Run, NEW n \in Node, NoExecutor(r, n) PROVE LoopsRun'
  <2>1. run' = [run EXCEPT ![r] = "failed"] /\ LoopAt(r, "dispatch", Tail(loop[r].batch))
    BY <1>5 DEF NoExecutor, EndRun
  <2> QED
    BY <1>a, <2>1 DEF LoopAt
<1>6. ASSUME NEW r \in Run, LoopExits(r) \/ \E n \in Node : NodeRaises(r, n) PROVE LoopsRun'
  BY <1>a, <1>6 DEF LoopExits, NodeRaises, LoopAt
<1>7. ASSUME NEW r \in Run, NEW at, NEW batch,
             loop[r].at # "idle", LoopAt(r, at, batch), UNCHANGED run
      PROVE  LoopsRun'
  BY <1>a, <1>7 DEF LoopAt
<1>8. ASSUME NEW r \in Run, Dispatch(r) \/ BatchDone(r) PROVE LoopsRun'
  <2>1. /\ loop[r].at # "idle" /\ UNCHANGED run
        /\ \E batch : LoopAt(r, "dispatch", batch) \/ LoopAt(r, "decide", batch)
    BY <1>8 DEF Dispatch, BatchDone
  <2> QED
    BY <1>7, <2>1
<1>9. ASSUME NEW r \in Run, NEW n \in Node, NodeStarts(r, n) PROVE LoopsRun'
  BY <1>7, <1>9 DEF NodeStarts, Taking
<1>10. ASSUME NEW r \in Run, NEW n \in Node, NodeReturns(r, n) PROVE LoopsRun'
  <2>1. /\ loop[r].at # "idle" /\ LoopAt(r, "dispatch", Tail(loop[r].batch))
        /\ UNCHANGED run \/ run' = [run EXCEPT ![r] = "failed"]
    BY <1>10 DEF NodeReturns
  <2>2. CASE UNCHANGED run
    BY <1>7, <2>1, <2>2
  <2>3. CASE run' = [run EXCEPT ![r] = "failed"]
    BY <1>a, <2>1, <2>3 DEF LoopAt
  <2> QED
    BY <2>1, <2>2, <2>3
<1>11. CASE UNCHANGED vars
  BY <1>11 DEF vars
<1> QED
  BY <1>1, <1>2, <1>3, <1>4, <1>5, <1>6, <1>8, <1>9, <1>10, <1>11 DEF Next, Call, LoopStep

LEMMA LoopsRunAlways == Spec => []LoopsRun
<1>1. Init => LoopsRun
  BY DEF Init, LoopsRun
<1> QED
  BY <1>1, LoopsRunNext, TypeCorrect, PTL DEF Spec

-----------------------------------------------------------------------------
(* A service whose calls come one after the other                           *)

\* A thread belongs to the one run on it that is not over, and an executor works
\* for a run that is running: nobody could cancel it in the meantime.
AloneInv ==
    /\ OneLiveRunPerThread
    /\ \A r \in Run : loop[r].at = "execute" => run[r] = "running"

\* A live run that ends releases the thread it holds.
LEMMA ReleaseKeepsExclusive ==
    ASSUME TypeOK, OneLiveRunPerThread, NEW r \in Run, Live(r),
           NEW status \in TerminalRunStatus,
           ReleaseThread, run' = [run EXCEPT ![r] = status]
    PROVE  OneLiveRunPerThread'
BY RunAssumption
   DEF TypeOK, OneLiveRunPerThread, Live, ReleaseThread, RunStatus, TerminalRunStatus

LEMMA AloneNext ==
    ASSUME Concurrent = FALSE
    PROVE  TypeOK /\ LoopsRun /\ AloneInv /\ [Next]_vars => AloneInv'
<1> SUFFICES ASSUME TypeOK, LoopsRun, AloneInv, [Next]_vars PROVE AloneInv'
  OBVIOUS
<1>a. /\ run \in [Run -> RunStatus \cup {"absent"}]
      /\ thread \in [status : ThreadStatus, current : Run \cup {NoRun}]
      /\ loop \in [Run -> Loop]
      /\ OneLiveRunPerThread
      /\ \A r \in Run : loop[r].at = "execute" => run[r] = "running"
  BY DEF TypeOK, AloneInv
<1>b. CallersMayAct => \A r \in Run : loop[r].at = "idle"
  BY DEF CallersMayAct
<1>c. ASSUME NEW r \in Run, loop[r].at # "idle", ~Terminal(r)
      PROVE  Live(r) /\ run[r] = "running"
  BY <1>a, <1>c DEF LoopsRun, Terminal, Live, RunStatus, TerminalRunStatus
<1>d. ASSUME NEW r \in Run, Live(r), NEW status \in TerminalRunStatus, EndRun(r, status)
      PROVE  OneLiveRunPerThread' /\ run' = [run EXCEPT ![r] = status]
  BY <1>a, <1>d, ReleaseKeepsExclusive DEF EndRun
<1>1. ASSUME NEW r \in Run, StartRun(r) PROVE AloneInv'
  <2>1. OneLiveRunPerThread'
    BY <1>a, <1>1, RunAssumption
       DEF StartRun, OneLiveRunPerThread, Live, RunStatus, TerminalRunStatus
  <2>2. \A q \in Run : loop'[q].at # "execute"
    BY <1>a, <1>b, <1>1 DEF StartRun, LoopAt
  <2> QED
    BY <2>1, <2>2 DEF AloneInv
<1>2. ASSUME NEW r \in Run, NEW answered \in BOOLEAN, ResumeRun(r, answered) PROVE AloneInv'
  <2>1. /\ CallersMayAct /\ run[r] \in Suspended
        /\ run' = [run EXCEPT ![r] = "running"] /\ (LoopAt(r, "decide", <<>>) \/ UNCHANGED loop)
        /\ thread' = [thread EXCEPT !.status = "active"]
    BY <1>2 DEF ResumeRun
  <2>2. thread'.current = thread.current
    BY <1>a, <2>1
  <2>3. OneLiveRunPerThread'
    BY <1>a, <2>1, <2>2
       DEF OneLiveRunPerThread, Live, RunStatus, TerminalRunStatus, Suspended
  <2>4. \A q \in Run : loop'[q].at # "execute"
    BY <1>a, <1>b, <2>1 DEF LoopAt
  <2> QED
    BY <2>3, <2>4 DEF AloneInv
<1>3. ASSUME NEW r \in Run, CancelRun(r) PROVE AloneInv'
  <2>1. OneLiveRunPerThread'
    BY <1>a, <1>3, ReleaseKeepsExclusive DEF CancelRun, TerminalRunStatus
  <2>2. \A q \in Run : loop'[q].at # "execute"
    BY <1>b, <1>3 DEF CancelRun
  <2> QED
    BY <2>1, <2>2 DEF AloneInv
<1>4. ASSUME NEW r \in Run, Settle(r) PROVE AloneInv'
  <2>1. loop[r].at # "idle" /\ ~Terminal(r) /\ LoopAt(r, "idle", <<>>)
    BY <1>4 DEF Settle
  <2>2. \/ EndRun(r, "completed") \/ EndRun(r, "failed")
        \/ SuspendRun(r, "interrupted") \/ SuspendRun(r, "waiting")
    BY <1>4 DEF Settle
  <2>3. CASE EndRun(r, "completed") \/ EndRun(r, "failed")
    BY <1>a, <1>c, <1>d, <2>1, <2>3 DEF AloneInv, LoopAt, TerminalRunStatus
  <2>4. ASSUME NEW status \in Suspended, SuspendRun(r, status) PROVE AloneInv'
    <3>1. thread'.current = thread.current /\ run' = [run EXCEPT ![r] = status]
      BY <1>a, <2>4 DEF SuspendRun
    <3>2. OneLiveRunPerThread'
      BY <1>a, <1>c, <2>1, <3>1
         DEF OneLiveRunPerThread, Live, RunStatus, TerminalRunStatus, Suspended
    <3> QED
      BY <1>a, <2>1, <3>1, <3>2 DEF AloneInv, LoopAt
  <2> QED
    BY <2>2, <2>3, <2>4 DEF Suspended
<1>5. ASSUME NEW r \in Run, NEW n \in Node, NoExecutor(r, n) PROVE AloneInv'
  <2>1. /\ loop[r].at # "idle" /\ ~Terminal(r) /\ EndRun(r, "failed")
        /\ LoopAt(r, "dispatch", Tail(loop[r].batch))
    BY <1>5 DEF NoExecutor, Taking
  <2> QED
    BY <1>a, <1>c, <1>d, <2>1 DEF AloneInv, LoopAt, TerminalRunStatus
<1>6. ASSUME NEW r \in Run, NEW n \in Node, NodeStarts(r, n) PROVE AloneInv'
  <2>1. /\ loop[r].at # "idle" /\ ~Terminal(r) /\ UNCHANGED <<thread, run>>
        /\ LoopAt(r, "execute", loop[r].batch)
    BY <1>6 DEF NodeStarts, Taking
  <2> QED
    BY <1>a, <1>c, <2>1 DEF AloneInv, LoopAt, OneLiveRunPerThread, Live
<1>7. ASSUME NEW r \in Run, NEW n \in Node, NodeReturns(r, n) PROVE AloneInv'
  <2>1. /\ loop[r].at = "execute" /\ LoopAt(r, "dispatch", Tail(loop[r].batch))
        /\ \/ UNCHANGED <<thread, run>>
           \/ ReleaseThread /\ run' = [run EXCEPT ![r] = "failed"]
    BY <1>7 DEF NodeReturns
  <2>2. Live(r)
    BY <1>a, <2>1 DEF Live, RunStatus, TerminalRunStatus
  <2>3. CASE UNCHANGED <<thread, run>>
    BY <1>a, <2>1, <2>3 DEF AloneInv, LoopAt, OneLiveRunPerThread, Live
  <2>4. CASE ReleaseThread /\ run' = [run EXCEPT ![r] = "failed"]
    BY <1>a, <2>1, <2>2, <2>4, ReleaseKeepsExclusive DEF AloneInv, LoopAt, TerminalRunStatus
  <2> QED
    BY <2>1, <2>3, <2>4
<1>8. ASSUME NEW r \in Run, NEW at \in {"idle", "decide", "dispatch"}, NEW batch,
             LoopAt(r, at, batch), UNCHANGED <<thread, run>>
      PROVE  AloneInv'
  BY <1>a, <1>8 DEF AloneInv, LoopAt, OneLiveRunPerThread, Live
<1>9. ASSUME NEW r \in Run,
             LoopExits(r) \/ Dispatch(r) \/ BatchDone(r) \/ \E n \in Node : NodeRaises(r, n)
      PROVE  AloneInv'
  <2>1. /\ UNCHANGED <<thread, run>>
        /\ \E at \in {"idle", "decide", "dispatch"} : \E batch : LoopAt(r, at, batch)
    BY <1>9 DEF LoopExits, Dispatch, BatchDone, NodeRaises
  <2> QED
    BY <1>8, <2>1
<1>10. CASE UNCHANGED vars
  BY <1>10 DEF vars, AloneInv, OneLiveRunPerThread, Live
<1> QED
  BY <1>1, <1>2, <1>3, <1>4, <1>5, <1>6, <1>7, <1>9, <1>10 DEF Next, Call, LoopStep

LEMMA AloneAlways ==
    ASSUME Concurrent = FALSE
    PROVE  Spec => []AloneInv
<1>1. Init => AloneInv
  BY RunAssumption
     DEF Init, AloneInv, OneLiveRunPerThread, Live, RunStatus, TerminalRunStatus
<1> QED
  BY <1>1, AloneNext, TypeCorrect, LoopsRunAlways, PTL DEF Spec

\* When calls come one after the other, the thread is held by exactly the run
\* that is not over: never by two, and never by one that has ended.
THEOREM ThreadExclusive ==
    ASSUME Concurrent = FALSE
    PROVE  Spec => []OneLiveRunPerThread
BY AloneAlways, PTL DEF AloneInv

\* A step of the service touches the status and the nodes of a run only as long
\* as the run is not over.
LEMMA TerminalStep ==
    ASSUME TypeOK, LoopsRun, AloneInv, [Next]_vars, NEW r \in Run, Terminal(r)
    PROVE  run'[r] = run[r] /\ node'[r] = node[r]
<1>a. /\ run \in [Run -> RunStatus \cup {"absent"}]
      /\ node \in [Run -> [Node -> NodeStatus]]
      /\ \A q \in Run : loop[q].at = "execute" => run[q] = "running"
  BY DEF TypeOK, AloneInv
<1>1. ASSUME NEW q \in Run, q # r, NEW status, NEW states,
             run' = run \/ run' = [run EXCEPT ![q] = status],
             node' = node \/ node' = [node EXCEPT ![q] = states]
      PROVE  run'[r] = run[r] /\ node'[r] = node[r]
  BY <1>a, <1>1
<1>2. ASSUME NEW q \in Run, StartRun(q) PROVE run'[r] = run[r] /\ node'[r] = node[r]
  BY <1>a, <1>2 DEF StartRun, Terminal, TerminalRunStatus
<1>3. ASSUME NEW q \in Run, NEW answered \in BOOLEAN, ResumeRun(q, answered)
      PROVE  run'[r] = run[r] /\ node'[r] = node[r]
  <2>1. /\ run[q] \in Suspended /\ run' = [run EXCEPT ![q] = "running"]
        /\ \E states : node' = [node EXCEPT ![q] = states]
    BY <1>3 DEF ResumeRun
  <2> QED
    BY <1>a, <2>1 DEF Suspended, Terminal, TerminalRunStatus
<1>4. ASSUME NEW q \in Run, CancelRun(q) PROVE run'[r] = run[r] /\ node'[r] = node[r]
  BY <1>a, <1>4 DEF CancelRun, Live, Terminal, TerminalRunStatus
<1>5. ASSUME NEW q \in Run, Settle(q) PROVE run'[r] = run[r] /\ node'[r] = node[r]
  <2>1. ~Terminal(q) /\ node' = node /\ \E status : run' = [run EXCEPT ![q] = status]
    BY <1>5 DEF Settle, EndRun, SuspendRun
  <2> QED
    BY <1>a, <2>1
<1>6. ASSUME NEW q \in Run, NEW n \in Node, NoExecutor(q, n) \/ NodeStarts(q, n)
      PROVE  run'[r] = run[r] /\ node'[r] = node[r]
  BY <1>a, <1>6 DEF NoExecutor, NodeStarts, Taking, EndRun
<1>7. ASSUME NEW q \in Run, NEW n \in Node, NodeReturns(q, n)
      PROVE  run'[r] = run[r] /\ node'[r] = node[r]
  <2>1. /\ loop[q].at = "execute"
        /\ run' = run \/ run' = [run EXCEPT ![q] = "failed"]
        /\ \E status : node' = [node EXCEPT ![q][n] = status]
    BY <1>7 DEF NodeReturns
  <2>2. q # r
    BY <1>a, <2>1 DEF Terminal, TerminalRunStatus
  <2> QED
    BY <1>a, <2>1, <2>2
<1>8. ASSUME UNCHANGED <<run, node>> PROVE run'[r] = run[r] /\ node'[r] = node[r]
  BY <1>8
<1> QED
  BY <1>2, <1>3, <1>4, <1>5, <1>6, <1>7, <1>8
     DEF Next, Call, LoopStep, LoopExits, Dispatch, BatchDone, NodeRaises, vars

\* "A run that is over produces no more node updates": when calls come one after
\* the other, no step changes the status or a node of a run that has ended.
THEOREM TerminalFrozen ==
    ASSUME Concurrent = FALSE
    PROVE  Spec => TerminalRunFrozen
<1>1. TypeOK /\ LoopsRun /\ AloneInv /\ [Next]_vars =>
         [\A r \in Run : Terminal(r) => run'[r] = run[r] /\ node'[r] = node[r]]_vars
  BY TerminalStep
<1> QED
  BY <1>1, TypeCorrect, LoopsRunAlways, AloneAlways, PTL DEF Spec, TerminalRunFrozen

-----------------------------------------------------------------------------
(* The life cycle of a run                                                  *)

LEMMA LifecycleInit == Init => Lifecycle!Init
BY DEF Init, Lifecycle!Init, Phase, Suspended

\* Only the run of a step changes its phase.
LEMMA PhaseChange ==
    ASSUME TypeOK, NEW r \in Run, NEW status, run' = [run EXCEPT ![r] = status],
           NEW to, to = IF status \in Suspended THEN "suspended" ELSE status
    PROVE  [q \in Run |-> Phase(q)]' = [[q \in Run |-> Phase(q)] EXCEPT ![r] = to]
BY DEF TypeOK, Phase

LEMMA LifecycleStep ==
    TypeOK /\ LoopsRun /\ AloneInv /\ [Next]_vars => [Lifecycle!Next]_(Lifecycle!vars)
<1> SUFFICES ASSUME TypeOK, LoopsRun, AloneInv, [Next]_vars
             PROVE  [Lifecycle!Next]_(Lifecycle!vars)
  OBVIOUS
<1> DEFINE phase == [q \in Run |-> Phase(q)]
<1>a. /\ run \in [Run -> RunStatus \cup {"absent"}]
      /\ thread \in [status : ThreadStatus, current : Run \cup {NoRun}]
      /\ \A q \in Run : Live(q) <=> thread.current = q
      /\ \A q \in Run : loop[q].at = "execute" => run[q] = "running"
  BY DEF TypeOK, AloneInv, OneLiveRunPerThread
<1>b. ASSUME NEW r \in Run, loop[r].at # "idle", ~Terminal(r)
      PROVE  run[r] = "running"
  BY <1>a, <1>b DEF LoopsRun, Terminal, TerminalRunStatus
<1>c. ASSUME NEW r \in Run, run[r] = "running"
      PROVE  thread.current = r /\ phase[r] = "running"
  BY <1>a, <1>c DEF Live, RunStatus, TerminalRunStatus, Phase, Suspended
<1>d. ASSUME NEW r \in Run, run[r] = "running", NEW status \in TerminalRunStatus,
             ReleaseThread, run' = [run EXCEPT ![r] = status]
      PROVE  Lifecycle!Finish(r)
  <2>1. phase' = [phase EXCEPT ![r] = status]
    BY <1>d, PhaseChange DEF Suspended, TerminalRunStatus
  <2>2. thread'.current = NoRun
    BY <1>a, <1>d DEF ReleaseThread
  <2> QED
    BY <1>c, <1>d, <2>1, <2>2 DEF Lifecycle!Finish, Lifecycle!Outcome, TerminalRunStatus
<1>e. ASSUME run' = run, thread'.current = thread.current
      PROVE  UNCHANGED Lifecycle!vars
  BY <1>e DEF Lifecycle!vars, Phase
<1>1. ASSUME NEW r \in Run, StartRun(r) PROVE Lifecycle!Begin(r)
  <2>1. phase' = [phase EXCEPT ![r] = "running"]
    BY <1>1, PhaseChange DEF StartRun, Suspended
  <2> QED
    BY <1>a, <1>1, <2>1 DEF StartRun, Lifecycle!Begin, Phase, Suspended
<1>2. ASSUME NEW r \in Run, NEW answered \in BOOLEAN, ResumeRun(r, answered)
      PROVE  Lifecycle!Resume(r)
  <2>1. /\ run[r] \in Suspended /\ run' = [run EXCEPT ![r] = "running"]
        /\ thread' = [thread EXCEPT !.status = "active"]
    BY <1>2 DEF ResumeRun
  <2>2. phase' = [phase EXCEPT ![r] = "running"]
    BY <2>1, PhaseChange DEF Suspended
  <2>3. Live(r) /\ phase[r] = "suspended"
    BY <2>1 DEF Live, Suspended, RunStatus, TerminalRunStatus, Phase
  <2>4. thread.current = r /\ thread'.current = thread.current
    BY <1>a, <2>1, <2>3
  <2> QED
    BY <2>2, <2>3, <2>4 DEF Lifecycle!Resume
<1>3. ASSUME NEW r \in Run, CancelRun(r) PROVE Lifecycle!Finish(r)
  <2>1. Live(r) /\ ReleaseThread /\ run' = [run EXCEPT ![r] = "cancelled"]
    BY <1>3 DEF CancelRun
  <2>2. phase' = [phase EXCEPT ![r] = "cancelled"]
    BY <2>1, PhaseChange DEF Suspended
  <2>3. phase[r] \in {"running", "suspended"}
    BY <2>1 DEF Live, RunStatus, TerminalRunStatus, Suspended, Phase
  <2>4. thread.current = r /\ thread'.current = NoRun
    BY <1>a, <2>1 DEF ReleaseThread
  <2> QED
    BY <2>2, <2>3, <2>4 DEF Lifecycle!Finish, Lifecycle!Outcome
<1>4. ASSUME NEW r \in Run, Settle(r) PROVE Lifecycle!Finish(r) \/ Lifecycle!Suspend(r)
  <2>1. run[r] = "running"
    BY <1>4, <1>b DEF Settle
  <2>2. \/ EndRun(r, "completed") \/ EndRun(r, "failed")
        \/ SuspendRun(r, "interrupted") \/ SuspendRun(r, "waiting")
    BY <1>4 DEF Settle
  <2>3. CASE EndRun(r, "completed") \/ EndRun(r, "failed")
    BY <2>1, <2>3, <1>d DEF EndRun, TerminalRunStatus
  <2>4. ASSUME NEW status \in Suspended, SuspendRun(r, status)
        PROVE  Lifecycle!Suspend(r)
    <3>1. /\ run' = [run EXCEPT ![r] = status]
          /\ thread'.current = thread.current
      BY <1>a, <2>4 DEF SuspendRun
    <3>2. phase' = [phase EXCEPT ![r] = "suspended"]
      BY <2>4, <3>1, PhaseChange
    <3> QED
      BY <1>c, <2>1, <3>1, <3>2 DEF Lifecycle!Suspend
  <2> QED
    BY <2>2, <2>3, <2>4 DEF Suspended
<1>5. ASSUME NEW r \in Run, NEW n \in Node, NoExecutor(r, n) PROVE Lifecycle!Finish(r)
  <2>1. run[r] = "running"
    BY <1>5, <1>b DEF NoExecutor, Taking
  <2> QED
    BY <1>5, <2>1, <1>d DEF NoExecutor, EndRun, TerminalRunStatus
<1>6. ASSUME NEW r \in Run, NEW n \in Node, NodeReturns(r, n)
      PROVE  Lifecycle!Finish(r) \/ UNCHANGED Lifecycle!vars
  <2>1. /\ run[r] = "running"
        /\ \/ UNCHANGED <<thread, run>>
           \/ ReleaseThread /\ run' = [run EXCEPT ![r] = "failed"]
    BY <1>6, <1>a DEF NodeReturns
  <2> QED
    BY <2>1, <1>d, <1>e DEF TerminalRunStatus
<1>7. ASSUME UNCHANGED <<thread, run>> PROVE UNCHANGED Lifecycle!vars
  BY <1>7, <1>e
<1> QED
  BY <1>1, <1>2, <1>3, <1>4, <1>5, <1>6, <1>7
     DEF Next, Call, LoopStep, LoopExits, Dispatch, BatchDone, NodeStarts, NodeRaises, vars,
         Lifecycle!Next

\* When calls come one after the other, RuntimeService implements the life cycle
\* of RunLifecycle: a run begins on a free thread, keeps the thread while it
\* runs and is suspended, and gives it back when it ends, once.
THEOREM RuntimeImplementsLifecycle ==
    ASSUME Concurrent = FALSE
    PROVE  Spec => LifecycleKept
BY LifecycleInit, LifecycleStep, TypeCorrect, LoopsRunAlways, AloneAlways, PTL
   DEF Spec, LifecycleKept, Lifecycle!Spec

-----------------------------------------------------------------------------
(* Lists without duplicates                                                 *)

\* A list without duplicates has as many members as elements.
LEMMA LengthOfInjective ==
    ASSUME NEW list \in Seq(Node), IsInjective(list)
    PROVE  Cardinality(Elements(list)) = Len(list)
<1>1. list \in [1 .. Len(list) -> Elements(list)] /\ DOMAIN list = 1 .. Len(list)
  BY DEF Elements
<1>2. \A n \in Elements(list) : \E i \in 1 .. Len(list) : list[i] = n
  BY <1>1 DEF Elements
<1>3. list \in Bijection(1 .. Len(list), Elements(list))
  BY <1>1, <1>2 DEF Bijection, Injection, Surjection, IsInjective
<1>4. ExistsBijection(1 .. Len(list), Elements(list))
  BY <1>3 DEF ExistsBijection
<1>5. Len(list) \in Nat
  OBVIOUS
<1> QED
  BY <1>4, <1>5, FS_CountingElements

\* A listing by a strict order names every member of the set once.
LEMMA ListingIsOnce ==
    ASSUME NEW S \in SUBSET Node, NEW order, \A x \in S : <<x, x>> \notin order,
           NEW list \in Listings(S, order)
    PROVE  IsInjective(list) /\ Elements(list) = S
<1>1. IsFiniteSet(S) /\ Cardinality(S) \in Nat
  BY FS_Subset, FS_CardinalityType, NodeAssumption
<1>2. list \in [1 .. Cardinality(S) -> S]
  BY DEF Listings
<1>3. \A i, j \in 1 .. Cardinality(S) : i < j => <<list[i], list[j]>> \in order
  BY DEF Listings
<1>4. IsInjective(list)
  <2> SUFFICES ASSUME NEW i \in 1 .. Cardinality(S), NEW j \in 1 .. Cardinality(S),
                      list[i] = list[j], i < j
               PROVE  FALSE
    BY <1>1, <1>2 DEF IsInjective
  <2> QED
    BY <1>2, <1>3
<1>5. list \in Seq(Node) /\ Elements(list) \subseteq S /\ Len(list) = Cardinality(S)
  BY <1>1, <1>2, ListingsType
<1>6. Cardinality(Elements(list)) = Cardinality(S)
  BY <1>4, <1>5, LengthOfInjective
<1> QED
  BY <1>1, <1>4, <1>5, <1>6, FS_Subset

\* The order of a list without duplicates is strict.
LEMMA ListOrderStrict ==
    ASSUME NEW list, IsInjective(list), DOMAIN list \subseteq Nat
    PROVE  \A x : <<x, x>> \notin ListOrder(list)
<1> SUFFICES ASSUME NEW x, <<x, x>> \in ListOrder(list) PROVE FALSE
  OBVIOUS
<1>1. PICK q \in (DOMAIN list) \X (DOMAIN list) :
         q[1] < q[2] /\ <<x, x>> = <<list[q[1]], list[q[2]]>>
  BY DEF ListOrder
<1>2. q[1] \in DOMAIN list /\ q[2] \in DOMAIN list /\ list[q[1]] = list[q[2]]
  BY <1>1
<1>3. q[1] = q[2]
  BY <1>2 DEF IsInjective
<1> QED
  BY <1>1, <1>2, <1>3

\* The order of the scheduler is strict.
LEMMA ReadyOrderStrict ==
    ASSUME NEW frontier
    PROVE  \A x : <<x, x>> \notin ReadyOrder(frontier)
<1> SUFFICES ASSUME NEW x, <<x, x>> \in ReadyOrder(frontier) PROVE FALSE
  OBVIOUS
<1> DEFINE p == <<x, x>>
<1>1. p \in Node \X Node /\ p[1] = x /\ p[2] = x
  BY DEF ReadyOrder
<1>2. x \in Nat
  BY <1>1, NodeAssumption
<1>3. p[1] < p[2]
  BY <1>1 DEF ReadyOrder
<1> HIDE DEF p
<1> QED
  BY <1>1, <1>2, <1>3

\* Taking a node off a list without duplicates removes it and nothing else.
LEMMA WithoutNodeOnce ==
    ASSUME NEW list \in Seq(Node), IsInjective(list), NEW n \in Node,
           NEW rest \in WithoutNode(list, n)
    PROVE  IsInjective(rest) /\ Elements(rest) = Elements(list) \ {n}
<1>1. Elements(list) \ {n} \in SUBSET Node
  BY ElementsType
<1>0. DOMAIN list \subseteq Nat
  OBVIOUS
<1>2. \A x : <<x, x>> \notin ListOrder(list)
  BY <1>0, ListOrderStrict
<1> DEFINE S     == Elements(list) \ {n}
           order == ListOrder(list)
<1>3. rest \in Listings(S, order)
  BY DEF WithoutNode
<1>5. \A x \in S : <<x, x>> \notin order
  BY <1>2
<1>6. S \in SUBSET Node
  BY <1>1
<1> HIDE DEF S, order
<1>4. IsInjective(rest) /\ Elements(rest) = S
  BY <1>3, <1>5, <1>6, ListingIsOnce
<1> QED
  BY <1>4 DEF S

\* A batch holds ready nodes, each once.
LEMMA BatchesOnce ==
    ASSUME NEW ready \in SUBSET Node, NEW frontier, NEW active \in SUBSET Node,
           NEW batch \in Batches(ready, frontier, active)
    PROVE  IsInjective(batch) /\ Elements(batch) \subseteq ready
<1>1. PICK list \in Listings(ready, ReadyOrder(frontier)) :
         batch = SubSeq(list, 1, IF Len(list) < AvailableSlots(active)
                                 THEN Len(list) ELSE AvailableSlots(active))
  BY DEF Batches
<1>2. list \in Seq(Node) /\ IsInjective(list) /\ Elements(list) = ready
  BY ListingsType, ListingIsOnce, ReadyOrderStrict
<1>3. Cardinality(active) \in Nat
  BY FS_Subset, FS_CardinalityType, NodeAssumption
<1>4. AvailableSlots(active) \in Nat
  BY <1>3, SchedulerAssumption DEF AvailableSlots
<1> DEFINE k == IF Len(list) < AvailableSlots(active)
                THEN Len(list) ELSE AvailableSlots(active)
<1>5. k \in Nat /\ k <= Len(list) /\ batch = SubSeq(list, 1, k)
  BY <1>1, <1>2, <1>4
<1> HIDE DEF k
<1>6. DOMAIN batch = 1 .. k /\ \A i \in 1 .. k : i \in DOMAIN list /\ batch[i] = list[i]
  BY <1>2, <1>5
<1> QED
  BY <1>2, <1>6 DEF IsInjective, Elements

\* The head of a list without duplicates is not in its tail.
LEMMA TailOnce ==
    ASSUME NEW list \in Seq(Node), IsInjective(list), list # <<>>
    PROVE  /\ IsInjective(Tail(list)) /\ Head(list) \in Elements(list)
           /\ Elements(Tail(list)) = Elements(list) \ {Head(list)}
<1>1. /\ DOMAIN list = 1 .. Len(list) /\ Len(list) \in Nat \ {0}
      /\ DOMAIN Tail(list) = 1 .. Len(list) - 1
      /\ \A i \in 1 .. Len(list) - 1 : Tail(list)[i] = list[i + 1]
      /\ Head(list) = list[1]
  OBVIOUS
<1>2. IsInjective(Tail(list))
  BY <1>1 DEF IsInjective
<1>3. Head(list) \in Elements(list)
  BY <1>1 DEF Elements
<1>4. Elements(Tail(list)) \subseteq Elements(list) \ {Head(list)}
  BY <1>1 DEF Elements, IsInjective
<1>5. ASSUME NEW n \in Elements(list), n # Head(list) PROVE n \in Elements(Tail(list))
  <2>1. PICK i \in 1 .. Len(list) : list[i] = n
    BY <1>1, <1>5 DEF Elements
  <2>2. i - 1 \in 1 .. Len(list) - 1 /\ Tail(list)[i - 1] = n
    BY <1>1, <1>5, <2>1
  <2> QED
    BY <1>1, <2>2 DEF Elements
<1> QED
  BY <1>2, <1>3, <1>4, <1>5

\* A node appended to a list that has not got it leaves no duplicate.
LEMMA AppendOnce ==
    ASSUME NEW list \in Seq(Node), IsInjective(list), NEW n \in Node
    PROVE  /\ Elements(Append(list, n)) = Elements(list) \cup {n}
           /\ n \notin Elements(list) => IsInjective(Append(list, n))
<1>1. /\ DOMAIN list = 1 .. Len(list) /\ Len(list) \in Nat
      /\ DOMAIN Append(list, n) = 1 .. Len(list) + 1
      /\ \A i \in 1 .. Len(list) : Append(list, n)[i] = list[i]
      /\ Append(list, n)[Len(list) + 1] = n
  OBVIOUS
<1> DEFINE longer == Append(list, n)
<1>2. \A i \in DOMAIN longer : i = Len(list) + 1 \/ i \in DOMAIN list
  BY <1>1
<1> HIDE DEF longer
<1>3. Elements(longer) = Elements(list) \cup {n}
  BY <1>1, <1>2 DEF Elements, longer
<1>4. n \notin Elements(list) => IsInjective(longer)
  BY <1>1, <1>2 DEF Elements, IsInjective, longer
<1> QED
  BY <1>3, <1>4 DEF longer

\* The empty list holds nothing, not even twice.
LEMMA NothingOnce == IsInjective(<<>>) /\ Elements(<<>>) = {}
BY DEF IsInjective, Elements

\* Merging into an empty list leaves the incoming list's members, each once.
LEMMA MergeOnce ==
    ASSUME NEW incoming \in Seq(Node), IsInjective(incoming),
           NEW list \in MergeUnique(<<>>, incoming)
    PROVE  list \in Seq(Node) /\ IsInjective(list) /\ Elements(list) = Elements(incoming)
<1>1. Elements(incoming) \ Elements(<<>>) = Elements(incoming)
  BY NothingOnce
<1>2. PICK rest \in Listings(Elements(incoming), ListOrder(incoming)) : list = <<>> \o rest
  BY <1>1 DEF MergeUnique
<1>3. Elements(incoming) \in SUBSET Node
  BY ElementsType
<1>4. DOMAIN incoming \subseteq Nat
  OBVIOUS
<1>5. \A x : <<x, x>> \notin ListOrder(incoming)
  BY <1>4, ListOrderStrict
<1> DEFINE S     == Elements(incoming)
           order == ListOrder(incoming)
<1>6. S \in SUBSET Node /\ rest \in Listings(S, order) /\ \A x \in S : <<x, x>> \notin order
  BY <1>2, <1>3, <1>5
<1> HIDE DEF S, order
<1>7. IsInjective(rest) /\ Elements(rest) = S
  BY <1>6, ListingIsOnce
<1>8. rest \in Seq(Node)
  BY <1>6, ListingsType
<1>9. list = rest
  BY <1>2, <1>8
<1> QED
  BY <1>7, <1>8, <1>9 DEF S

-----------------------------------------------------------------------------
(* The invariant: one run, its records side by side                         *)

\* What a node may be that has not begun, or may begin again.
Fresh == {"pending", "ready", "blocked"}

\* The node lists of a run and the statuses of its nodes.
ListsSound(state, nodes) ==
    /\ state.completed = {n \in Node : nodes[n] = "succeeded"}
    /\ state.failed = {n \in Node : nodes[n] = "failed"}
    /\ state.active = {n \in Node : nodes[n] = "running"}
    /\ \A n \in state.waiting : nodes[n] = "waiting"
    /\ \A n \in state.blocked : nodes[n] \in {"blocked", "running"}

\* A node asks once at a time, and is not ready while it asks.
AsksSound(state, nodes, asks) ==
    /\ IsInjective(state.pending)
    /\ {n \in Node : asks[n] = "open"} = Elements(state.pending)
    /\ \A n \in Elements(state.pending) : nodes[n] # "ready"

\* A run that does not run has nothing active and nothing to dispatch, only a
\* failed run has failed nodes, and a run that is to begin asks nothing.
StatusSound(status, state) ==
    /\ status # "running" => state.active = {} /\ state.frontier = <<>>
    /\ status # "failed" => state.failed = {}
    /\ status = "absent" => state.pending = <<>>

FrontSound(state, nodes) ==
    /\ IsInjective(state.frontier)
    /\ \A n \in Elements(state.frontier) : nodes[n] \in Fresh

\* The nodes of a list may still begin.
Waits(list, state, nodes) ==
    \A n \in Elements(list) : nodes[n] \in Fresh /\ n \notin Elements(state.pending)

\* A loop has at most one node at work, the head of its batch, which has left
\* the frontier; the rest of the batch has not begun, unless the run is over.
LoopSound(status, state, nodes, lp) ==
    /\ IsInjective(lp.batch)
    /\ \E n \in Node : state.active \subseteq {n}
    /\ lp.at = "execute" =>
          /\ Head(lp.batch) \notin Elements(state.frontier) \cup Elements(state.pending)
          /\ state.active \subseteq {Head(lp.batch)}
    /\ lp.at \in {"decide", "dispatch"} => state.active = {}
    /\ status \notin TerminalRunStatus /\ lp.at = "dispatch" =>
          Waits(lp.batch, state, nodes)
    /\ status \notin TerminalRunStatus /\ lp.at = "execute" =>
          Waits(Tail(lp.batch), state, nodes)

Sound(status, state, nodes, asks, lp) ==
    /\ ListsSound(state, nodes)
    /\ AsksSound(state, nodes, asks)
    /\ StatusSound(status, state)
    /\ FrontSound(state, nodes)
    /\ LoopSound(status, state, nodes, lp)

RunsSound == \A r \in Run : Sound(run[r], runState[r], node[r], interrupt[r], loop[r])

-----------------------------------------------------------------------------
(* One lemma for every step of a run                                        *)

LEMMA SoundAtFirst ==
    ASSUME NEW at, at = "idle"
    PROVE  Sound("absent", NewRunState("absent", <<>>), [n \in Node |-> "pending"],
                 [n \in Node |-> "none"], [at |-> at, batch |-> <<>>])
BY NothingOnce, NodeAssumption
   DEF Sound, ListsSound, AsksSound, StatusSound, FrontSound, LoopSound, NewRunState

LEMMA SoundStart ==
    ASSUME NEW state, NEW nodes, NEW asks, NEW lp, Sound("absent", state, nodes, asks, lp)
    PROVE  Sound("running", NewRunState("running", <<Entry>>),
                 [n \in Node |-> IF n = Entry THEN "ready" ELSE "pending"],
                 asks, [at |-> "decide", batch |-> <<>>])
<1> DEFINE new == NewRunState("running", <<Entry>>)
           nodes2 == [n \in Node |-> IF n = Entry THEN "ready" ELSE "pending"]
<1>1. /\ new.completed = {} /\ new.failed = {} /\ new.active = {} /\ new.waiting = {}
      /\ new.blocked = {} /\ new.pending = <<>> /\ new.frontier = <<Entry>>
  BY DEF NewRunState
<1>2. /\ Entry \in Node /\ IsInjective(<<Entry>>) /\ Elements(<<Entry>>) = {Entry}
  BY NodeAssumption DEF IsInjective, Elements
<1>3. \A n \in Node : nodes2[n] \in {"ready", "pending"}
  OBVIOUS
<1>4. {n \in Node : asks[n] = "open"} = {}
  BY NothingOnce DEF Sound, AsksSound, StatusSound
<1> HIDE DEF new
<1>5. nodes2[Entry] = "ready"
  BY <1>2
<1> HIDE DEF nodes2
<1>6. ListsSound(new, nodes2)
  BY <1>1, <1>3 DEF ListsSound
<1>7. AsksSound(new, nodes2, asks)
  BY <1>1, <1>4, NothingOnce DEF AsksSound
<1>8. StatusSound("running", new) /\ FrontSound(new, nodes2)
  BY <1>1, <1>2, <1>5 DEF StatusSound, FrontSound, Fresh
<1>9. LoopSound("running", new, nodes2, [at |-> "decide", batch |-> <<>>])
  BY <1>1, <1>2, NothingOnce DEF LoopSound
<1> QED
  BY <1>6, <1>7, <1>8, <1>9 DEF Sound, new, nodes2

LEMMA SoundResume ==
    ASSUME NEW status \in Suspended, NEW state \in RunStateRecord,
           NEW nodes \in [Node -> NodeStatus], NEW asks, NEW lp, lp.at = "idle",
           Sound(status, state, nodes, asks, lp),
           NEW answered \in BOOLEAN, NEW resolved,
           resolved = IF answered THEN state.pending ELSE <<>>,
           NEW frontier \in MergeUnique(state.frontier, resolved),
           Elements(frontier) \cap state.completed = {},
           NEW lp2, lp2 = lp \/ lp2 = [at |-> "decide", batch |-> <<>>]
    PROVE  Sound("running", Resumed(state, frontier, answered),
                 [n \in Node |-> IF n \in Elements(resolved) THEN "ready" ELSE nodes[n]],
                 [n \in Node |-> IF n \in Elements(resolved) THEN "resolved" ELSE asks[n]],
                 lp2)
<1> DEFINE asked  == Elements(resolved)
           new    == Resumed(state, frontier, answered)
           nodes2 == [n \in Node |-> IF n \in asked THEN "ready" ELSE nodes[n]]
           asks2  == [n \in Node |-> IF n \in asked THEN "resolved" ELSE asks[n]]
<1>1. /\ state.frontier = <<>> /\ state.active = {} /\ state.failed = {}
  BY DEF Sound, StatusSound, Suspended
<1>2. /\ state.pending \in Seq(Node) /\ resolved \in Seq(Node) /\ IsInjective(resolved)
      /\ asked \in SUBSET Node
  BY EmptyList, NothingOnce, ElementsType DEF Sound, AsksSound, RunStateRecord
<1>3. IsInjective(frontier) /\ Elements(frontier) = asked
  BY <1>1, <1>2, MergeOnce
<1>4. /\ new.completed = state.completed /\ new.failed = {} /\ new.active = {}
      /\ new.waiting = state.waiting \ asked /\ new.blocked = state.blocked \ asked
      /\ new.frontier = frontier
      /\ new.pending = IF answered THEN <<>> ELSE state.pending
  <2>1. asked = IF answered THEN Elements(state.pending) ELSE {}
    BY NothingOnce
  <2> HIDE DEF asked
  <2> QED
    BY <1>1, <2>1 DEF Resumed, RunStateRecord
<1>5. /\ state.waiting \subseteq Node /\ state.blocked \subseteq Node
  BY DEF RunStateRecord
<1>a. /\ \A n \in Node : nodes2[n] = IF n \in asked THEN "ready" ELSE nodes[n]
      /\ \A n \in Node : asks2[n] = IF n \in asked THEN "resolved" ELSE asks[n]
  OBVIOUS
<1>b. asked = Elements(resolved)
  OBVIOUS
<1> HIDE DEF new, nodes2, asks2, asked
<1>6. ListsSound(new, nodes2)
  <2>1. /\ state.completed = {n \in Node : nodes[n] = "succeeded"}
        /\ {n \in Node : nodes[n] = "failed"} = {}
        /\ {n \in Node : nodes[n] = "running"} = {}
        /\ \A n \in state.waiting : nodes[n] = "waiting"
        /\ \A n \in state.blocked : nodes[n] \in {"blocked", "running"}
    BY <1>1 DEF Sound, ListsSound
  <2>2. asked \cap state.completed = {}
    BY <1>3
  <2>3. {n \in Node : nodes2[n] = "succeeded"} = state.completed
    BY <1>a, <2>1, <2>2
  <2> QED
    BY <1>2, <1>4, <1>5, <1>a, <2>1, <2>3 DEF ListsSound
<1>7. AsksSound(new, nodes2, asks2)
  <2>1. /\ {n \in Node : asks[n] = "open"} = Elements(state.pending)
        /\ IsInjective(state.pending)
        /\ \A n \in Elements(state.pending) : nodes[n] # "ready"
    BY DEF Sound, AsksSound
  <2>2. CASE answered
    <3>1. asked = Elements(state.pending) /\ new.pending = <<>>
      BY <1>4, <1>b, <2>2
    <3> QED
      BY <1>a, <2>1, <3>1, NothingOnce DEF AsksSound
  <2>3. CASE ~answered
    <3>1. asked = {} /\ new.pending = state.pending
      BY <1>4, <1>b, <2>3, NothingOnce
    <3>2. Elements(state.pending) \subseteq Node
      BY <1>2, ElementsType
    <3> QED
      BY <1>a, <2>1, <3>1, <3>2 DEF AsksSound
  <2> QED
    BY <2>2, <2>3
<1>8. StatusSound("running", new) /\ FrontSound(new, nodes2)
  BY <1>2, <1>3, <1>4, <1>a DEF StatusSound, FrontSound, Fresh
<1>9. LoopSound("running", new, nodes2, lp2)
  BY <1>4, NothingOnce, NodeAssumption DEF Sound, LoopSound
<1> QED
  BY <1>6, <1>7, <1>8, <1>9 DEF Sound, new, nodes2, asks2, asked

LEMMA SoundCancel ==
    ASSUME NEW status, status \notin TerminalRunStatus, NEW state \in RunStateRecord,
           NEW nodes \in [Node -> NodeStatus], NEW asks, NEW lp,
           Sound(status, state, nodes, asks, lp)
    PROVE  Sound("cancelled",
                 [Ended(state, "cancelled") EXCEPT !.waiting = {}, !.blocked = {}],
                 [n \in Node |-> IF nodes[n] \in TerminalNodeStatus THEN nodes[n]
                                                                   ELSE "cancelled"],
                 asks, lp)
<1> DEFINE new    == [Ended(state, "cancelled") EXCEPT !.waiting = {}, !.blocked = {}]
           nodes2 == [n \in Node |-> IF nodes[n] \in TerminalNodeStatus THEN nodes[n]
                                                                       ELSE "cancelled"]
<1>1. /\ new.completed = state.completed /\ new.failed = state.failed /\ new.active = {}
      /\ new.waiting = {} /\ new.blocked = {} /\ new.frontier = <<>>
      /\ new.pending = state.pending
  BY DEF Ended, RunStateRecord
<1>2. \A n \in Node : nodes2[n] = IF nodes[n] \in TerminalNodeStatus THEN nodes[n]
                                                                    ELSE "cancelled"
  OBVIOUS
<1>3. Elements(state.pending) \subseteq Node /\ "failed" \notin {status}
  BY ElementsType DEF RunStateRecord, TerminalRunStatus
<1> HIDE DEF new, nodes2
<1>4. ListsSound(new, nodes2)
  BY <1>1, <1>2 DEF Sound, ListsSound, TerminalNodeStatus
<1>5. AsksSound(new, nodes2, asks)
  BY <1>1, <1>2, <1>3 DEF Sound, AsksSound, TerminalNodeStatus
<1>6. StatusSound("cancelled", new) /\ FrontSound(new, nodes2)
  BY <1>1, <1>3, NothingOnce DEF Sound, StatusSound, FrontSound
<1>7. LoopSound("cancelled", new, nodes2, lp)
  BY <1>1, NothingOnce, NodeAssumption DEF Sound, LoopSound, TerminalRunStatus
<1> QED
  BY <1>4, <1>5, <1>6, <1>7 DEF Sound, new, nodes2

LEMMA SoundDispatch ==
    ASSUME NEW state \in RunStateRecord, NEW nodes \in [Node -> NodeStatus],
           NEW artifacts, NEW acts, NEW asks, NEW lp, lp.at = "decide",
           Sound("running", state, nodes, asks, lp),
           NEW batch \in Batches(ReadyNodes(nodes, artifacts, acts, Elements(state.pending)),
                                 state.frontier, state.active)
    PROVE  Sound("running", [state EXCEPT !.frontier = batch], nodes, asks,
                 [at |-> "dispatch", batch |-> batch])
<1> DEFINE new   == [state EXCEPT !.frontier = batch]
           ready == ReadyNodes(nodes, artifacts, acts, Elements(state.pending))
<1>1. /\ new.completed = state.completed /\ new.failed = state.failed
      /\ new.active = state.active /\ new.waiting = state.waiting
      /\ new.blocked = state.blocked /\ new.frontier = batch
      /\ new.pending = state.pending
  BY DEF RunStateRecord
<1>2. ready \in SUBSET Node /\ state.active \in SUBSET Node
  BY DEF ReadyNodes, RunStateRecord
<1>3. IsInjective(batch) /\ Elements(batch) \subseteq ready
  <2> HIDE DEF ready
  <2>1. batch \in Batches(ready, state.frontier, state.active)
    BY DEF ready
  <2> QED
    BY <1>2, <2>1, BatchesOnce
<1>4. \A n \in ready : nodes[n] \in Fresh /\ n \notin Elements(state.pending)
  BY DEF ReadyNodes, Fresh, Sound, AsksSound
<1> HIDE DEF new, ready
<1>5. ListsSound(new, nodes) /\ AsksSound(new, nodes, asks)
  BY <1>1 DEF Sound, ListsSound, AsksSound
<1>6. StatusSound("running", new) /\ FrontSound(new, nodes)
  BY <1>1, <1>3, <1>4 DEF Sound, StatusSound, FrontSound
<1>7. LoopSound("running", new, nodes, [at |-> "dispatch", batch |-> batch])
  BY <1>1, <1>3, <1>4 DEF Sound, LoopSound, Waits
<1> QED
  BY <1>5, <1>6, <1>7 DEF Sound, new

\* What SuspendRun makes of the run state.
SuspendedAs(state, status) == [state EXCEPT !.status = status, !.frontier = <<>>]

\* A run that runs and has nothing at work ends or is suspended.
LEMMA SoundStop ==
    ASSUME NEW state \in RunStateRecord, NEW nodes, NEW asks,
           NEW lp, lp.at \in {"decide", "dispatch"}, Sound("running", state, nodes, asks, lp),
           NEW status, status # "absent",
           NEW at \in {"idle", "dispatch"}, NEW batch, IsInjective(batch),
           at = "dispatch" => status \in TerminalRunStatus
    PROVE  /\ Sound(status, Ended(state, status), nodes, asks, [at |-> at, batch |-> batch])
           /\ Sound(status, SuspendedAs(state, status), nodes, asks,
                    [at |-> at, batch |-> batch])
<1> SUFFICES ASSUME NEW new,
                    \/ new = Ended(state, status)
                    \/ new = SuspendedAs(state, status)
             PROVE  Sound(status, new, nodes, asks, [at |-> at, batch |-> batch])
  OBVIOUS
<1>1. state.active = {}
  BY DEF Sound, LoopSound
<1>2. /\ new.completed = state.completed /\ new.failed = state.failed
      /\ new.active = {} /\ new.waiting = state.waiting
      /\ new.blocked = state.blocked /\ new.frontier = <<>>
      /\ new.pending = state.pending
  BY <1>1 DEF RunStateRecord, Ended, SuspendedAs
<1>3. ListsSound(new, nodes) /\ AsksSound(new, nodes, asks)
  BY <1>1, <1>2 DEF Sound, ListsSound, AsksSound
<1>4. StatusSound(status, new) /\ FrontSound(new, nodes)
  BY <1>2, NothingOnce DEF Sound, StatusSound, FrontSound
<1>5. LoopSound(status, new, nodes, [at |-> at, batch |-> batch])
  BY <1>2, NodeAssumption DEF Sound, LoopSound
<1> QED
  BY <1>3, <1>4, <1>5 DEF Sound

\* A loop lets go of its run, or takes up what there is for it to decide.
LEMMA SoundLoop ==
    ASSUME NEW status, NEW state, NEW nodes, NEW asks, NEW lp,
           Sound(status, state, nodes, asks, lp),
           NEW at \in {"idle", "decide"}, at = "decide" => lp.at = "dispatch"
    PROVE  Sound(status, state, nodes, asks, [at |-> at, batch |-> <<>>])
BY NothingOnce DEF Sound, LoopSound

LEMMA SoundStarts ==
    ASSUME NEW state \in RunStateRecord, NEW nodes \in [Node -> NodeStatus], NEW asks,
           NEW lp \in Loop, lp.at = "dispatch", lp.batch # <<>>,
           Sound("running", state, nodes, asks, lp), NEW n, n = Head(lp.batch),
           NEW frontier \in WithoutNode(state.frontier, n)
    PROVE  Sound("running", Started(state, n, frontier), [nodes EXCEPT ![n] = "running"],
                 asks, [at |-> "execute", batch |-> lp.batch])
<1> DEFINE new    == Started(state, n, frontier)
           nodes2 == [nodes EXCEPT ![n] = "running"]
           rest   == Tail(lp.batch)
<1>1. /\ lp.batch \in Seq(Node) /\ n \in Node /\ state.frontier \in Seq(Node)
      /\ state.waiting \subseteq Node /\ state.blocked \subseteq Node
  BY DEF Loop, RunStateRecord
<1>2. n \in Elements(lp.batch) /\ Elements(rest) = Elements(lp.batch) \ {n}
  BY <1>1, TailOnce DEF Sound, LoopSound
<1>3. nodes[n] \in Fresh /\ n \notin Elements(state.pending) /\ state.active = {}
  BY <1>2 DEF Sound, LoopSound, Waits, TerminalRunStatus
<1>4. IsInjective(frontier) /\ Elements(frontier) = Elements(state.frontier) \ {n}
  BY <1>1, WithoutNodeOnce DEF Sound, FrontSound
<1>5. /\ new.completed = state.completed /\ new.failed = state.failed
      /\ new.active = {n} /\ new.waiting = state.waiting
      /\ new.blocked = state.blocked /\ new.frontier = frontier
      /\ new.pending = state.pending
  BY <1>3 DEF RunStateRecord, Started
<1>6. \A m \in Node : nodes2[m] = IF m = n THEN "running" ELSE nodes[m]
  BY <1>1
<1>7. Elements(lp.batch) \subseteq Node /\ Elements(state.frontier) \subseteq Node
  BY <1>1, ElementsType
<1>8. /\ state.completed = {m \in Node : nodes[m] = "succeeded"}
      /\ state.failed = {m \in Node : nodes[m] = "failed"}
      /\ {m \in Node : nodes[m] = "running"} = {}
      /\ \A m \in state.waiting : nodes[m] = "waiting"
      /\ \A m \in state.blocked : nodes[m] \in {"blocked", "running"}
  BY <1>3 DEF Sound, ListsSound
<1>a. Elements(state.pending) \subseteq Node
  BY ElementsType DEF RunStateRecord
<1> HIDE DEF new, nodes2, rest
<1>9. ListsSound(new, nodes2)
  BY <1>1, <1>3, <1>5, <1>6, <1>8 DEF ListsSound, Fresh
<1>10. AsksSound(new, nodes2, asks)
  BY <1>5, <1>6, <1>a DEF Sound, AsksSound
<1>11. StatusSound("running", new) /\ FrontSound(new, nodes2)
  BY <1>4, <1>5, <1>6, <1>7 DEF Sound, StatusSound, FrontSound
<1>12. Waits(rest, new, nodes2)
  BY <1>2, <1>5, <1>6, <1>7 DEF Sound, LoopSound, Waits, TerminalRunStatus
<1>13. LoopSound("running", new, nodes2, [at |-> "execute", batch |-> lp.batch])
  <2> DEFINE lp2 == [at |-> "execute", batch |-> lp.batch]
  <2>1. lp2.at = "execute" /\ lp2.batch = lp.batch /\ Head(lp2.batch) = n
    OBVIOUS
  <2>2. Waits(Tail(lp2.batch), new, nodes2) /\ IsInjective(lp2.batch)
    BY <1>12, <2>1 DEF rest, Sound, LoopSound
  <2> HIDE DEF lp2
  <2>3. LoopSound("running", new, nodes2, lp2)
    BY <1>1, <1>3, <1>4, <1>5, <2>1, <2>2 DEF LoopSound
  <2> QED
    BY <2>3 DEF lp2
<1> QED
  BY <1>9, <1>10, <1>11, <1>13 DEF Sound, new, nodes2

\* What an executor's answer makes of the records of the run.
StatusAfter(status, result) == IF result.status = "failed" THEN "failed" ELSE status
StateAfter(state, n, result) ==
    IF result.status = "failed" THEN Ended(WithResult(state, n, result), "failed")
                                ELSE WithResult(state, n, result)
NodesAfter(nodes, n, result) == [nodes EXCEPT ![n] = result.status]
AsksAfter(asks, n, result) == [asks EXCEPT ![n] = IF result.asks THEN "open" ELSE @]

\* An answer that comes when the run is over is taken too: only its failure
\* writes the status of the run.
LEMMA SoundReturns ==
    ASSUME NEW status, status # "absent", NEW state \in RunStateRecord,
           NEW nodes \in [Node -> NodeStatus],
           NEW asks \in [Node -> {"none", "open", "resolved"}],
           NEW lp \in Loop, lp.at = "execute", lp.batch # <<>>,
           Sound(status, state, nodes, asks, lp), NEW n, n = Head(lp.batch),
           NEW result \in NodeResult
    PROVE  Sound(StatusAfter(status, result), StateAfter(state, n, result),
                 NodesAfter(nodes, n, result), AsksAfter(asks, n, result),
                 [at |-> "dispatch", batch |-> Tail(lp.batch)])
<1> DEFINE nodes2  == NodesAfter(nodes, n, result)
           asks2   == AsksAfter(asks, n, result)
           rest    == Tail(lp.batch)
           status2 == StatusAfter(status, result)
           new     == StateAfter(state, n, result)
<1>1. /\ lp.batch \in Seq(Node) /\ n \in Node /\ state.frontier \in Seq(Node)
      /\ state.pending \in Seq(Node)
      /\ state.waiting \subseteq Node /\ state.blocked \subseteq Node
      /\ result.asks \in BOOLEAN
      /\ result.status \in {"succeeded", "failed", "waiting", "blocked"}
  BY DEF Loop, RunStateRecord, NodeResult
<1>2. IsInjective(rest) /\ n \in Elements(lp.batch) /\ Elements(rest) = Elements(lp.batch) \ {n}
  BY <1>1, TailOnce DEF Sound, LoopSound
<1>3. /\ n \notin Elements(state.pending) /\ n \notin Elements(state.frontier)
      /\ state.active \subseteq {n}
  BY DEF Sound, LoopSound
<1>4. /\ new.completed = Moved(state.completed, n, result, "succeeded")
      /\ new.failed = Moved(state.failed, n, result, "failed")
      /\ new.waiting = Moved(state.waiting, n, result, "waiting")
      /\ new.blocked = Moved(state.blocked, n, result, "blocked")
      /\ new.active = {}
      /\ new.pending = IF result.asks THEN Append(state.pending, n) ELSE state.pending
      /\ new.frontier = IF result.status = "failed" THEN <<>> ELSE state.frontier
  <2>1. /\ WithResult(state, n, result).completed = Moved(state.completed, n, result, "succeeded")
        /\ WithResult(state, n, result).failed = Moved(state.failed, n, result, "failed")
        /\ WithResult(state, n, result).waiting = Moved(state.waiting, n, result, "waiting")
        /\ WithResult(state, n, result).blocked = Moved(state.blocked, n, result, "blocked")
        /\ WithResult(state, n, result).active = {}
        /\ WithResult(state, n, result).pending =
              IF result.asks THEN Append(state.pending, n) ELSE state.pending
        /\ WithResult(state, n, result).frontier = state.frontier
    BY <1>3 DEF WithResult, RunStateRecord
  <2>2. WithResult(state, n, result) \in RunStateRecord
    BY <1>1, WithResultType
  <2>3. \A s \in RunStateRecord :
           /\ Ended(s, "failed").completed = s.completed /\ Ended(s, "failed").failed = s.failed
           /\ Ended(s, "failed").waiting = s.waiting /\ Ended(s, "failed").blocked = s.blocked
           /\ Ended(s, "failed").active = {} /\ Ended(s, "failed").frontier = <<>>
           /\ Ended(s, "failed").pending = s.pending
    BY DEF Ended, RunStateRecord
  <2> QED
    BY <2>1, <2>2, <2>3 DEF StateAfter
<1>5. /\ \A m \in Node : nodes2[m] = IF m = n THEN result.status ELSE nodes[m]
      /\ \A m \in Node : asks2[m] = IF m = n /\ result.asks THEN "open" ELSE asks[m]
  BY <1>1 DEF NodesAfter, AsksAfter
<1>6. /\ Elements(lp.batch) \subseteq Node /\ Elements(state.frontier) \subseteq Node
      /\ Elements(state.pending) \subseteq Node
  BY <1>1, ElementsType
<1>7. /\ IsInjective(new.pending)
      /\ Elements(new.pending) = Elements(state.pending) \cup (IF result.asks THEN {n} ELSE {})
  BY <1>1, <1>3, <1>4, AppendOnce DEF Sound, AsksSound
<1>8. /\ state.completed = {m \in Node : nodes[m] = "succeeded"}
      /\ state.failed = {m \in Node : nodes[m] = "failed"}
      /\ {m \in Node : nodes[m] = "running"} \subseteq {n}
      /\ \A m \in state.waiting : nodes[m] = "waiting"
      /\ \A m \in state.blocked : nodes[m] \in {"blocked", "running"}
  BY <1>3 DEF Sound, ListsSound
<1>s. status2 = IF result.status = "failed" THEN "failed" ELSE status
  BY DEF StatusAfter
<1> HIDE DEF nodes2, asks2, rest, new, status2
<1>9. ListsSound(new, nodes2)
  <2>1. /\ new.completed = {m \in Node : nodes2[m] = "succeeded"}
        /\ new.failed = {m \in Node : nodes2[m] = "failed"}
        /\ {m \in Node : nodes2[m] = "running"} = {}
    BY <1>1, <1>4, <1>5, <1>8 DEF Moved
  <2>2. /\ \A m \in new.waiting : nodes2[m] = "waiting"
        /\ \A m \in new.blocked : nodes2[m] \in {"blocked", "running"}
    BY <1>1, <1>4, <1>5, <1>8 DEF Moved
  <2> QED
    BY <1>4, <2>1, <2>2 DEF ListsSound
<1>10. AsksSound(new, nodes2, asks2)
  <2>1. /\ {m \in Node : asks[m] = "open"} = Elements(state.pending)
        /\ \A m \in Elements(state.pending) : nodes[m] # "ready"
    BY DEF Sound, AsksSound
  <2>2. {m \in Node : asks2[m] = "open"} = Elements(new.pending)
    BY <1>1, <1>3, <1>5, <1>7, <2>1
  <2> QED
    BY <1>1, <1>5, <1>6, <1>7, <2>1, <2>2 DEF AsksSound
<1>11. StatusSound(status2, new) /\ FrontSound(new, nodes2)
  <2>1. FrontSound(new, nodes2)
    BY <1>3, <1>4, <1>5, <1>6, NothingOnce DEF Sound, FrontSound
  <2>2. CASE result.status = "failed"
    <3>1. status2 = "failed" /\ new.frontier = <<>> /\ new.active = {}
      BY <1>4, <1>s, <2>2
    <3> QED
      BY <2>1, <3>1 DEF StatusSound
  <2>3. CASE result.status # "failed"
    <3>1. status2 = status /\ new.frontier = state.frontier /\ new.active = {}
      BY <1>4, <1>s, <2>3
    <3>2. status # "failed" => new.failed = {}
      BY <1>4, <2>3 DEF Sound, StatusSound, Moved
    <3>3. status # "running" => new.frontier = <<>>
      BY <3>1 DEF Sound, StatusSound
    <3> QED
      BY <2>1, <3>1, <3>2, <3>3 DEF StatusSound
  <2> QED
    BY <2>1, <2>2, <2>3
<1>12. status2 \notin TerminalRunStatus => Waits(rest, new, nodes2)
  BY <1>2, <1>5, <1>6, <1>7, <1>s DEF Sound, LoopSound, Waits, TerminalRunStatus, rest
<1>13. LoopSound(status2, new, nodes2, [at |-> "dispatch", batch |-> rest])
  BY <1>1, <1>2, <1>4, <1>12 DEF LoopSound
<1> QED
  BY <1>9, <1>10, <1>11, <1>13 DEF Sound, nodes2, asks2, rest, new, status2

-----------------------------------------------------------------------------
(* Steps of the service                                                     *)

\* The records of a run are written by its own steps only.
LEMMA OneRunAtATime ==
    ASSUME TypeOK, NEW q \in Run,
           Call(q) \/ LoopStep(q) \/ \E n \in Node : NodeRaises(q, n)
    PROVE  \A r \in Run \ {q} :
              /\ run'[r] = run[r] /\ runState'[r] = runState[r] /\ node'[r] = node[r]
              /\ artifact'[r] = artifact[r] /\ actions'[r] = actions[r]
              /\ interrupt'[r] = interrupt[r] /\ loop'[r] = loop[r]
<1>a. /\ run \in [Run -> RunStatus \cup {"absent"}] /\ runState \in [Run -> RunStateRecord]
      /\ node \in [Run -> [Node -> NodeStatus]]
      /\ artifact \in [Run -> [Node -> Payload \cup {NoArtifact}]]
      /\ actions \in [Run -> [Node -> SUBSET PolicyAction]]
      /\ interrupt \in [Run -> [Node -> {"none", "open", "resolved"}]]
      /\ loop \in [Run -> Loop]
  BY DEF TypeOK
<1>1. run' = run \/ \E v : run' = [run EXCEPT ![q] = v]
  BY DEF Call, LoopStep, StartRun, ResumeRun, CancelRun, LoopExits, Dispatch, Settle,
         BatchDone, NoExecutor, NodeStarts, NodeReturns, NodeRaises, EndRun, SuspendRun
<1>2. runState' = runState \/ \E v : runState' = [runState EXCEPT ![q] = v]
  BY DEF Call, LoopStep, StartRun, ResumeRun, CancelRun, LoopExits, Dispatch, Settle,
         BatchDone, NoExecutor, NodeStarts, NodeReturns, NodeRaises, EndRun, SuspendRun
<1>3. node' = node \/ \E v : node' = [node EXCEPT ![q] = v]
  BY DEF Call, LoopStep, StartRun, ResumeRun, CancelRun, LoopExits, Dispatch, Settle,
         BatchDone, NoExecutor, NodeStarts, NodeReturns, NodeRaises
<1>4. artifact' = artifact \/ \E v : artifact' = [artifact EXCEPT ![q] = v]
  BY DEF Call, LoopStep, StartRun, ResumeRun, CancelRun, LoopExits, Dispatch, Settle,
         BatchDone, NoExecutor, NodeStarts, NodeReturns, NodeRaises
<1>5. actions' = actions \/ \E v : actions' = [actions EXCEPT ![q] = v]
  BY DEF Call, LoopStep, StartRun, ResumeRun, CancelRun, LoopExits, Dispatch, Settle,
         BatchDone, NoExecutor, NodeStarts, NodeReturns, NodeRaises
<1>6. interrupt' = interrupt \/ \E v : interrupt' = [interrupt EXCEPT ![q] = v]
  BY DEF Call, LoopStep, StartRun, ResumeRun, CancelRun, LoopExits, Dispatch, Settle,
         BatchDone, NoExecutor, NodeStarts, NodeReturns, NodeRaises
<1>7. loop' = loop \/ \E v : loop' = [loop EXCEPT ![q] = v]
  BY DEF Call, LoopStep, StartRun, ResumeRun, CancelRun, LoopExits, Dispatch, Settle,
         BatchDone, NoExecutor, NodeStarts, NodeReturns, NodeRaises, LoopAt
<1> SUFFICES ASSUME NEW r \in Run \ {q}
             PROVE  /\ run'[r] = run[r] /\ runState'[r] = runState[r] /\ node'[r] = node[r]
                    /\ artifact'[r] = artifact[r] /\ actions'[r] = actions[r]
                    /\ interrupt'[r] = interrupt[r] /\ loop'[r] = loop[r]
  OBVIOUS
<1>8. run'[r] = run[r] /\ runState'[r] = runState[r] /\ node'[r] = node[r]
  BY <1>a, <1>1, <1>2, <1>3
<1>9. artifact'[r] = artifact[r] /\ actions'[r] = actions[r]
  BY <1>a, <1>4, <1>5
<1>10. interrupt'[r] = interrupt[r] /\ loop'[r] = loop[r]
  BY <1>a, <1>6, <1>7
<1> QED
  BY <1>8, <1>9, <1>10

\* The records of one run, with the types the lemmas about its steps ask for.
LEMMA SliceType ==
    ASSUME TypeOK, LoopsRun, NEW r \in Run
    PROVE  /\ run[r] \in RunStatus \cup {"absent"} /\ runState[r] \in RunStateRecord
           /\ node[r] \in [Node -> NodeStatus]
           /\ interrupt[r] \in [Node -> {"none", "open", "resolved"}]
           /\ loop[r] \in Loop /\ (loop[r].at = "execute" => loop[r].batch # <<>>)
           /\ loop[r].at # "idle" => run[r] \in {"running"} \cup TerminalRunStatus
           /\ loop[r].batch \in Seq(Node)
BY DEF TypeOK, LoopsRun, Loop

LEMMA RunSoundStep ==
    ASSUME TypeOK, LoopsRun, RunsSound, NEW q \in Run,
           Call(q) \/ LoopStep(q) \/ \E n \in Node : NodeRaises(q, n)
    PROVE  Sound(run'[q], runState'[q], node'[q], interrupt'[q], loop'[q])
<1> DEFINE Goal == Sound(run'[q], runState'[q], node'[q], interrupt'[q], loop'[q])
<1>a. /\ Sound(run[q], runState[q], node[q], interrupt[q], loop[q])
      /\ run \in [Run -> RunStatus \cup {"absent"}] /\ runState \in [Run -> RunStateRecord]
      /\ node \in [Run -> [Node -> NodeStatus]]
      /\ interrupt \in [Run -> [Node -> {"none", "open", "resolved"}]]
      /\ loop \in [Run -> Loop]
  BY DEF RunsSound, TypeOK
<1>b. ~Terminal(q) /\ loop[q].at # "idle" => run[q] = "running"
  BY SliceType DEF Terminal
<1>c. ASSUME NEW at, NEW batch, LoopAt(q, at, batch)
      PROVE  loop'[q] = [at |-> at, batch |-> batch]
  BY <1>a, <1>c DEF LoopAt
<1>1. CASE StartRun(q)
  <2>1. /\ run'[q] = "running" /\ runState'[q] = NewRunState("running", <<Entry>>)
        /\ node'[q] = [n \in Node |-> IF n = Entry THEN "ready" ELSE "pending"]
        /\ interrupt'[q] = interrupt[q] /\ run[q] = "absent"
        /\ loop'[q] = [at |-> "decide", batch |-> <<>>]
    BY <1>a, <1>1, <1>c DEF StartRun
  <2>2. Sound("absent", runState[q], node[q], interrupt[q], loop[q])
    BY <1>a, <2>1
  <2> QED
    BY <2>1, <2>2, SoundStart
<1>2. ASSUME NEW answered \in BOOLEAN, ResumeRun(q, answered) PROVE Goal
  <2> DEFINE resolved == IF answered THEN runState[q].pending ELSE <<>>
  <2>1. PICK frontier \in MergeUnique(runState[q].frontier, resolved) :
           /\ Elements(frontier) \cap runState[q].completed = {}
           /\ runState' = [runState EXCEPT ![q] = Resumed(@, frontier, answered)]
    BY <1>2 DEF ResumeRun
  <2>2. /\ run[q] \in Suspended /\ run' = [run EXCEPT ![q] = "running"]
        /\ node' = [node EXCEPT ![q] =
              [n \in Node |-> IF n \in Elements(resolved) THEN "ready" ELSE node[q][n]]]
        /\ interrupt' = [interrupt EXCEPT ![q] =
              [n \in Node |-> IF n \in Elements(resolved) THEN "resolved" ELSE interrupt[q][n]]]
        /\ LoopAt(q, "decide", <<>>) \/ UNCHANGED loop
    BY <1>2 DEF ResumeRun
  <2>3. /\ run'[q] = "running" /\ runState'[q] = Resumed(runState[q], frontier, answered)
        /\ node'[q] = [n \in Node |-> IF n \in Elements(resolved) THEN "ready" ELSE node[q][n]]
        /\ interrupt'[q] =
              [n \in Node |-> IF n \in Elements(resolved) THEN "resolved" ELSE interrupt[q][n]]
    BY <1>a, <2>1, <2>2
  <2>4. loop'[q] = loop[q] \/ loop'[q] = [at |-> "decide", batch |-> <<>>]
    BY <1>c, <2>2
  <2>5. loop[q].at = "idle"
    BY <2>2, SliceType DEF Suspended, TerminalRunStatus
  <2>6. resolved = IF answered THEN runState[q].pending ELSE <<>>
    OBVIOUS
  <2>7. runState[q] \in RunStateRecord /\ node[q] \in [Node -> NodeStatus]
    BY <1>a
  <2>8. /\ Sound(run[q], runState[q], node[q], interrupt[q], loop[q])
        /\ Elements(frontier) \cap runState[q].completed = {} /\ run[q] \in Suspended
    BY <1>a, <2>1, <2>2
  <2> HIDE DEF resolved
  <2>9. Sound("running", Resumed(runState[q], frontier, answered),
              [n \in Node |-> IF n \in Elements(resolved) THEN "ready" ELSE node[q][n]],
              [n \in Node |-> IF n \in Elements(resolved) THEN "resolved" ELSE interrupt[q][n]],
              loop'[q])
    BY <2>4, <2>5, <2>6, <2>7, <2>8, SoundResume
  <2> QED
    BY <2>3, <2>9
<1>3. CASE CancelRun(q)
  <2>1. /\ run' = [run EXCEPT ![q] = "cancelled"] /\ UNCHANGED <<interrupt, loop>>
        /\ runState' = [runState EXCEPT ![q] =
              [Ended(@, "cancelled") EXCEPT !.waiting = {}, !.blocked = {}]]
        /\ node' = [node EXCEPT ![q] =
              [n \in Node |-> IF node[q][n] \in TerminalNodeStatus THEN node[q][n]
                                                                    ELSE "cancelled"]]
    BY <1>3 DEF CancelRun
  <2>2. /\ run'[q] = "cancelled" /\ interrupt'[q] = interrupt[q] /\ loop'[q] = loop[q]
        /\ runState'[q] =
              [Ended(runState[q], "cancelled") EXCEPT !.waiting = {}, !.blocked = {}]
        /\ node'[q] =
              [n \in Node |-> IF node[q][n] \in TerminalNodeStatus THEN node[q][n]
                                                                    ELSE "cancelled"]
    BY <1>a, <2>1
  <2>3. run[q] \notin TerminalRunStatus
    BY <1>3 DEF CancelRun, Live
  <2>4. runState[q] \in RunStateRecord /\ node[q] \in [Node -> NodeStatus]
    BY <1>a
  <2>5. Sound("cancelled",
              [Ended(runState[q], "cancelled") EXCEPT !.waiting = {}, !.blocked = {}],
              [n \in Node |-> IF node[q][n] \in TerminalNodeStatus THEN node[q][n]
                                                                    ELSE "cancelled"],
              interrupt[q], loop[q])
    BY <1>a, <2>3, <2>4, SoundCancel
  <2> QED
    BY <2>2, <2>5
<1>4. CASE Dispatch(q)
  <2>1. PICK batch \in Batches(Ready(q), runState[q].frontier, runState[q].active) :
          /\ runState' = [runState EXCEPT ![q] = [@ EXCEPT !.frontier = batch]]
          /\ LoopAt(q, "dispatch", batch)
    BY <1>4 DEF Dispatch
  <2>2. /\ loop[q].at = "decide" /\ ~Terminal(q) /\ UNCHANGED <<run, node, interrupt>>
    BY <1>4 DEF Dispatch
  <2>3. /\ runState'[q] = [runState[q] EXCEPT !.frontier = batch]
        /\ loop'[q] = [at |-> "dispatch", batch |-> batch]
        /\ run'[q] = "running" /\ run[q] = "running"
        /\ node'[q] = node[q] /\ interrupt'[q] = interrupt[q]
    BY <1>a, <1>b, <1>c, <2>1, <2>2
  <2>4. batch \in Batches(ReadyNodes(node[q], artifact[q], actions[q],
                                     Elements(runState[q].pending)),
                          runState[q].frontier, runState[q].active)
    BY <2>1 DEF Ready
  <2>5. Sound("running", runState[q], node[q], interrupt[q], loop[q])
    BY <1>a, <2>3
  <2>6. runState[q] \in RunStateRecord /\ node[q] \in [Node -> NodeStatus]
    BY <1>a
  <2>7. Sound("running", [runState[q] EXCEPT !.frontier = batch], node[q], interrupt[q],
              [at |-> "dispatch", batch |-> batch])
    BY <2>2, <2>4, <2>5, <2>6, SoundDispatch
  <2> QED
    BY <2>3, <2>7
<1>5. ASSUME loop[q].at \in {"decide", "dispatch"}, ~Terminal(q),
             NEW at \in {"idle", "dispatch"}, NEW batch, IsInjective(batch),
             LoopAt(q, at, batch), UNCHANGED <<node, interrupt>>,
             NEW status, status # "absent", at = "dispatch" => status \in TerminalRunStatus,
             EndRun(q, status) \/ SuspendRun(q, status)
      PROVE  Goal
  <2>1. /\ run'[q] = status
        /\ \/ runState'[q] = Ended(runState[q], status)
           \/ runState'[q] = SuspendedAs(runState[q], status)
    BY <1>a, <1>5 DEF EndRun, SuspendRun, SuspendedAs
  <2>2. /\ loop'[q] = [at |-> at, batch |-> batch] /\ node'[q] = node[q]
        /\ interrupt'[q] = interrupt[q]
    BY <1>5, <1>c
  <2>3. Sound("running", runState[q], node[q], interrupt[q], loop[q])
    BY <1>a, <1>b, <1>5
  <2>4. runState[q] \in RunStateRecord
    BY <1>a
  <2>5. /\ Sound(status, Ended(runState[q], status), node[q], interrupt[q],
                 [at |-> at, batch |-> batch])
        /\ Sound(status, SuspendedAs(runState[q], status), node[q], interrupt[q],
                 [at |-> at, batch |-> batch])
    BY <1>5, <2>3, <2>4, SoundStop
  <2> QED
    BY <2>1, <2>2, <2>5
<1>6. CASE Settle(q)
  <2>1. /\ loop[q].at \in {"decide", "dispatch"} /\ ~Terminal(q) /\ LoopAt(q, "idle", <<>>)
        /\ UNCHANGED <<node, interrupt>>
        /\ \/ EndRun(q, "completed") \/ EndRun(q, "failed")
           \/ SuspendRun(q, "interrupted") \/ SuspendRun(q, "waiting")
    BY <1>6 DEF Settle
  <2> QED
    BY <1>5, <2>1, NothingOnce
<1>7. ASSUME NEW n \in Node, NoExecutor(q, n) PROVE Goal
  <2>1. /\ loop[q].at \in {"decide", "dispatch"} /\ ~Terminal(q) /\ loop[q].batch # <<>>
        /\ LoopAt(q, "dispatch", Tail(loop[q].batch)) /\ EndRun(q, "failed")
        /\ UNCHANGED <<node, interrupt>>
    BY <1>7 DEF NoExecutor, Taking
  <2>2. IsInjective(Tail(loop[q].batch))
    BY <1>a, <2>1, SliceType, TailOnce DEF Sound, LoopSound
  <2> QED
    BY <1>5, <2>1, <2>2 DEF TerminalRunStatus
<1>8. ASSUME NEW n \in Node, NodeStarts(q, n) PROVE Goal
  <2>1. PICK frontier \in WithoutNode(runState[q].frontier, n) :
           runState' = [runState EXCEPT ![q] = Started(@, n, frontier)]
    BY <1>8 DEF NodeStarts
  <2>2. /\ loop[q].at = "dispatch" /\ loop[q].batch # <<>> /\ ~Terminal(q)
        /\ n = Head(loop[q].batch) /\ LoopAt(q, "execute", loop[q].batch)
        /\ node' = [node EXCEPT ![q][n] = "running"] /\ UNCHANGED <<run, interrupt>>
    BY <1>8 DEF NodeStarts, Taking
  <2>3. /\ run[q] = "running" /\ run'[q] = "running" /\ interrupt'[q] = interrupt[q]
        /\ runState'[q] = Started(runState[q], n, frontier)
        /\ node'[q] = [node[q] EXCEPT ![n] = "running"]
        /\ loop'[q] = [at |-> "execute", batch |-> loop[q].batch]
    BY <1>a, <1>b, <1>c, <2>1, <2>2
  <2>4. /\ runState[q] \in RunStateRecord /\ node[q] \in [Node -> NodeStatus]
        /\ loop[q] \in Loop /\ Sound("running", runState[q], node[q], interrupt[q], loop[q])
    BY <1>a, <2>3
  <2>5. Sound("running", Started(runState[q], n, frontier), [node[q] EXCEPT ![n] = "running"],
              interrupt[q], [at |-> "execute", batch |-> loop[q].batch])
    BY <2>1, <2>2, <2>4, SoundStarts
  <2> QED
    BY <2>3, <2>5
<1>9. ASSUME NEW n \in Node, NodeReturns(q, n) PROVE Goal
  <2>1. PICK result \in ExecutorResults(n, interrupt[q][n] = "resolved") :
          /\ node' = [node EXCEPT ![q][n] = result.status]
          /\ interrupt' = [interrupt EXCEPT ![q][n] = IF result.asks THEN "open" ELSE @]
          /\ IF result.status = "failed"
             THEN /\ run' = [run EXCEPT ![q] = "failed"]
                  /\ runState' = [runState EXCEPT ![q] =
                        Ended(WithResult(@, n, result), "failed")]
             ELSE /\ runState' = [runState EXCEPT ![q] = WithResult(@, n, result)]
                  /\ UNCHANGED run
    BY <1>9 DEF NodeReturns
  <2>2. result \in NodeResult
    BY ExecutorResultsType
  <2>3. /\ loop[q].at = "execute" /\ n = Head(loop[q].batch)
        /\ LoopAt(q, "dispatch", Tail(loop[q].batch))
    BY <1>9 DEF NodeReturns
  <2>a. loop'[q] = [at |-> "dispatch", batch |-> Tail(loop[q].batch)]
    BY <1>c, <2>3
  <2>4. /\ node'[q] = NodesAfter(node[q], n, result)
        /\ interrupt'[q] = AsksAfter(interrupt[q], n, result)
        /\ run'[q] = StatusAfter(run[q], result)
        /\ runState'[q] = StateAfter(runState[q], n, result)
    BY <1>a, <2>1 DEF NodesAfter, AsksAfter, StatusAfter, StateAfter
  <2>5. /\ runState[q] \in RunStateRecord /\ node[q] \in [Node -> NodeStatus]
        /\ interrupt[q] \in [Node -> {"none", "open", "resolved"}]
        /\ loop[q] \in Loop /\ loop[q].batch # <<>> /\ run[q] # "absent"
    BY <2>3, SliceType DEF TerminalRunStatus
  <2>6. Sound(StatusAfter(run[q], result), StateAfter(runState[q], n, result),
              NodesAfter(node[q], n, result), AsksAfter(interrupt[q], n, result),
              [at |-> "dispatch", batch |-> Tail(loop[q].batch)])
    BY <1>a, <2>2, <2>3, <2>5, SoundReturns
  <2> QED
    BY <2>a, <2>4, <2>6
<1>10. ASSUME NEW at \in {"idle", "decide"}, at = "decide" => loop[q].at = "dispatch",
              LoopAt(q, at, <<>>), UNCHANGED <<run, runState, node, interrupt>>
       PROVE  Goal
  BY <1>a, <1>c, <1>10, SoundLoop
<1>11. CASE LoopExits(q) \/ BatchDone(q) \/ \E n \in Node : NodeRaises(q, n)
  BY <1>10, <1>11 DEF LoopExits, BatchDone, NodeRaises
<1> QED
  BY <1>1, <1>2, <1>3, <1>4, <1>6, <1>7, <1>8, <1>9, <1>11 DEF Call, LoopStep

LEMMA RunsSoundNext == TypeOK /\ LoopsRun /\ RunsSound /\ [Next]_vars => RunsSound'
<1> SUFFICES ASSUME TypeOK, LoopsRun, RunsSound, [Next]_vars,
                    NEW r \in Run
             PROVE  Sound(run'[r], runState'[r], node'[r], interrupt'[r], loop'[r])
  BY DEF RunsSound
<1>a. Sound(run[r], runState[r], node[r], interrupt[r], loop[r])
  BY DEF RunsSound
<1>1. CASE UNCHANGED vars
  BY <1>a, <1>1 DEF vars
<1>2. ASSUME NEW q \in Run, Call(q) \/ LoopStep(q) \/ \E n \in Node : NodeRaises(q, n)
      PROVE  Sound(run'[r], runState'[r], node'[r], interrupt'[r], loop'[r])
  <2>1. CASE q = r
    BY <1>2, <2>1, RunSoundStep
  <2>2. CASE q # r
    BY <1>a, <1>2, <2>2, OneRunAtATime
  <2> QED
    BY <2>1, <2>2
<1> QED
  BY <1>1, <1>2 DEF Next

LEMMA RunsSoundAlways == Spec => []RunsSound
<1>1. Init => RunsSound
  <2> SUFFICES ASSUME Init, NEW r \in Run
               PROVE  Sound(run[r], runState[r], node[r], interrupt[r], loop[r])
    BY DEF RunsSound
  <2>1. /\ run[r] = "absent" /\ runState[r] = NewRunState("absent", <<>>)
        /\ node[r] = [n \in Node |-> "pending"] /\ interrupt[r] = [n \in Node |-> "none"]
        /\ loop[r] = [at |-> "idle", batch |-> <<>>]
    BY DEF Init
  <2> QED
    BY <2>1, SoundAtFirst
<1> QED
  BY <1>1, RunsSoundNext, TypeCorrect, LoopsRunAlways, PTL DEF Spec

\* What the scheduler reads of a run is sound, whatever other callers do while an
\* executor runs: the node lists agree with the nodes, the frontier holds nodes
\* that may still begin, each once, no more nodes are active than may be, and the
\* pending interrupts are the open ones.
THEOREM SchedulerListsSound == Spec => []NodeListsSound
<1>1. TypeOK /\ RunsSound => NodeListsSound
  <2> SUFFICES ASSUME TypeOK, RunsSound PROVE NodeListsSound
    OBVIOUS
  <2>1. ListsMatchNodes
    BY DEF ListsMatchNodes, RunsSound, Sound, ListsSound
  <2>2. PendingAreOpen
    BY DEF PendingAreOpen, RunsSound, Sound, AsksSound
  <2>3. ASSUME NEW r \in Run
        PROVE  LET list == runState[r].frontier
               IN  /\ \A n \in Elements(list) : node[r][n] \in {"pending", "ready", "blocked"}
                   /\ Cardinality(Elements(list)) = Len(list)
                   /\ Cardinality(runState[r].active) <= MaxParallel
                   /\ run[r] # "running" => list = <<>>
    <3>1. Sound(run[r], runState[r], node[r], interrupt[r], loop[r])
      BY DEF RunsSound
    <3>2. runState[r].frontier \in Seq(Node) /\ runState[r].active \in SUBSET Node
      BY DEF TypeOK, RunStateRecord
    <3>3. Cardinality(Elements(runState[r].frontier)) = Len(runState[r].frontier)
      BY <3>1, <3>2, LengthOfInjective DEF Sound, FrontSound
    <3>4. PICK n \in Node : runState[r].active \subseteq {n}
      BY <3>1 DEF Sound, LoopSound
    <3>5. Cardinality(runState[r].active) <= MaxParallel
      <4>1. runState[r].active = {} \/ runState[r].active = {n}
        BY <3>4
      <4>2. Cardinality({}) = 0 /\ Cardinality({n}) = 1
        BY FS_EmptySet, FS_Singleton
      <4> QED
        BY <4>1, <4>2, SchedulerAssumption
    <3> QED
      BY <3>1, <3>3, <3>5 DEF Sound, FrontSound, StatusSound, Fresh
  <2>4. FrontierSound
    BY <2>3 DEF FrontierSound
  <2> QED
    BY <2>1, <2>2, <2>4 DEF NodeListsSound
<1> QED
  BY <1>1, RunsSoundAlways, TypeCorrect, PTL

-----------------------------------------------------------------------------
(* What begins                                                              *)

\* Only _execute_node makes a node running.
LEMMA RunningStep ==
    ASSUME TypeOK, [Next]_vars, NEW r \in Run, NEW n \in Node,
           node[r][n] # "running", node'[r][n] = "running"
    PROVE  NodeStarts(r, n)
<1>a. node \in [Run -> [Node -> NodeStatus]]
  BY DEF TypeOK
<1>1. node' # node
  BY <1>a
<1>2. PICK q \in Run : Call(q) \/ LoopStep(q) \/ \E m \in Node : NodeRaises(q, m)
  BY <1>1 DEF Next, vars
<1>3. q = r
  BY <1>a, <1>2, OneRunAtATime
<1>4. ~StartRun(r) /\ ~CancelRun(r) /\ \A answered \in BOOLEAN : ~ResumeRun(r, answered)
  BY <1>a DEF StartRun, CancelRun, ResumeRun
<1>5. ASSUME NEW m \in Node, NodeReturns(r, m) PROVE FALSE
  <2>1. PICK result \in ExecutorResults(m, interrupt[r][m] = "resolved") :
           node' = [node EXCEPT ![r][m] = result.status]
    BY <1>5 DEF NodeReturns
  <2>2. result.status # "running"
    BY ExecutorResultsType DEF NodeResult
  <2> QED
    BY <1>a, <2>1, <2>2
<1>6. PICK m \in Node : NodeStarts(r, m)
  BY <1>1, <1>2, <1>3, <1>4, <1>5
     DEF Call, LoopStep, LoopExits, Dispatch, Settle, BatchDone, NoExecutor, NodeRaises
<1>7. m = n
  BY <1>a, <1>6 DEF NodeStarts
<1> QED
  BY <1>6, <1>7

\* A node begins only in a run that runs and has no failed node, and never again
\* once it is over: neither the rest of a batch that was put together before an
\* answer or a cancellation, nor a later pass of the scheduler, starts one.
THEOREM FreshNodesStart == Spec => OnlyFreshNodesStart
<1> DEFINE Step == \A r \in Run, n \in Node :
              node[r][n] # "running" /\ node'[r][n] = "running"
              => /\ node[r][n] \notin TerminalNodeStatus
                 /\ run[r] = "running" /\ runState[r].failed = {}
<1>1. TypeOK /\ LoopsRun /\ RunsSound /\ [Next]_vars => [Step]_vars
  <2> SUFFICES ASSUME TypeOK, LoopsRun, RunsSound, [Next]_vars, NEW r \in Run, NEW n \in Node,
                      node[r][n] # "running", node'[r][n] = "running"
               PROVE  /\ node[r][n] \notin TerminalNodeStatus
                      /\ run[r] = "running" /\ runState[r].failed = {}
    OBVIOUS
  <2>1. Taking(r, n)
    BY RunningStep DEF NodeStarts
  <2>2. Sound(run[r], runState[r], node[r], interrupt[r], loop[r])
    BY DEF RunsSound
  <2>3. /\ loop[r].at = "dispatch" /\ loop[r].batch # <<>> /\ n = Head(loop[r].batch)
        /\ run[r] = "running"
    BY <2>1, SliceType DEF Taking, Terminal
  <2>4. n \in Elements(loop[r].batch)
    BY <2>2, <2>3, SliceType, TailOnce DEF Sound, LoopSound
  <2>5. node[r][n] \in Fresh /\ runState[r].failed = {}
    BY <2>2, <2>3, <2>4 DEF Sound, LoopSound, Waits, StatusSound, TerminalRunStatus
  <2> QED
    BY <2>3, <2>5 DEF Fresh, TerminalNodeStatus
<1> QED
  BY <1>1, TypeCorrect, LoopsRunAlways, RunsSoundAlways, PTL DEF Spec, OnlyFreshNodesStart

-----------------------------------------------------------------------------
(* Where a run stops                                                        *)

\* A loop that decides has nothing at work, so a slot is free.
LEMMA NothingReady ==
    ASSUME TypeOK, RunsSound, NEW r \in Run, Settle(r)
    PROVE  Ready(r) = {} /\ runState[r].active = {}
<1>1. runState[r].active = {}
  BY DEF RunsSound, Sound, LoopSound, Settle
<1>2. AvailableSlots(runState[r].active) > 0
  BY <1>1, FS_EmptySet, SchedulerAssumption DEF AvailableSlots
<1> QED
  BY <1>1, <1>2 DEF Settle, CanDispatch

\* Where a run stopped nothing is ready, and no loop is at work on it.
DrainedInv ==
    \A r \in Run :
        run[r] \in Suspended \cup {"completed"} => loop[r].at = "idle" /\ Ready(r) = {}

LEMMA DrainedNext ==
    TypeOK /\ LoopsRun /\ RunsSound /\ DrainedInv /\ [Next]_vars => DrainedInv'
<1> SUFFICES ASSUME TypeOK, LoopsRun, RunsSound, DrainedInv, [Next]_vars, NEW r \in Run,
                    run'[r] \in Suspended \cup {"completed"}
             PROVE  loop'[r].at = "idle" /\ Ready(r)' = {}
  BY DEF DrainedInv
<1>a. /\ run \in [Run -> RunStatus \cup {"absent"}] /\ runState \in [Run -> RunStateRecord]
      /\ loop \in [Run -> Loop]
  BY DEF TypeOK
<1>b. ASSUME UNCHANGED <<node, artifact, actions>>, runState'[r].pending = runState[r].pending
      PROVE  Ready(r)' = Ready(r)
  BY <1>b DEF Ready
<1>1. CASE UNCHANGED vars
  BY <1>1 DEF vars, DrainedInv, Ready
<1>2. ASSUME NEW q \in Run, q # r,
             Call(q) \/ LoopStep(q) \/ \E n \in Node : NodeRaises(q, n)
      PROVE  loop'[r].at = "idle" /\ Ready(r)' = {}
  <2>1. /\ run'[r] = run[r] /\ runState'[r] = runState[r] /\ node'[r] = node[r]
        /\ artifact'[r] = artifact[r] /\ actions'[r] = actions[r] /\ loop'[r] = loop[r]
    BY <1>2, OneRunAtATime
  <2>2. Ready(r)' = Ready(r)
    BY <2>1 DEF Ready
  <2> QED
    BY <2>1, <2>2 DEF DrainedInv
<1>3. CASE Settle(r)
  <2>1. UNCHANGED <<node, artifact, actions>> /\ LoopAt(r, "idle", <<>>)
    BY <1>3 DEF Settle
  <2>2. PICK status : EndRun(r, status) \/ SuspendRun(r, status)
    BY <1>3 DEF Settle
  <2>3. \A state \in RunStateRecord :
           /\ Ended(state, status).pending = state.pending
           /\ SuspendedAs(state, status).pending = state.pending
    BY DEF Ended, SuspendedAs, RunStateRecord
  <2>4. runState'[r] = Ended(runState[r], status) \/ runState'[r] = SuspendedAs(runState[r], status)
    BY <1>a, <2>2 DEF EndRun, SuspendRun, SuspendedAs
  <2>5. runState'[r].pending = runState[r].pending
    BY <1>a, <2>3, <2>4
  <2>6. loop'[r].at = "idle"
    BY <1>a, <2>1 DEF LoopAt
  <2> QED
    BY <1>b, <1>3, <2>1, <2>5, <2>6, NothingReady
<1>4. ASSUME StartRun(r) \/ CancelRun(r) \/ \E answered \in BOOLEAN : ResumeRun(r, answered)
      PROVE  FALSE
  <2>1. run'[r] \in {"running", "cancelled"}
    BY <1>a, <1>4 DEF StartRun, CancelRun, ResumeRun
  <2> QED
    BY <2>1 DEF Suspended
<1>5. ASSUME LoopExits(r) \/ Dispatch(r) \/ BatchDone(r)
             \/ (\E n \in Node : NoExecutor(r, n) \/ NodeStarts(r, n) \/ NodeReturns(r, n))
      PROVE  FALSE
  <2>1. loop[r].at # "idle"
    BY <1>5 DEF LoopExits, Dispatch, BatchDone, NoExecutor, NodeStarts, NodeReturns, Taking
  <2>2. run'[r] = run[r] \/ run'[r] = "failed"
    BY <1>a, <1>5
       DEF LoopExits, Dispatch, BatchDone, NoExecutor, NodeStarts, NodeReturns, EndRun
  <2> QED
    BY <2>1, <2>2 DEF DrainedInv, Suspended
<1>6. CASE \E n \in Node : NodeRaises(r, n)
  <2>1. loop[r].at # "idle" /\ UNCHANGED run
    BY <1>6 DEF NodeRaises, Taking
  <2> QED
    BY <2>1 DEF DrainedInv
<1> QED
  BY <1>1, <1>2, <1>3, <1>4, <1>5, <1>6 DEF Next, Call, LoopStep

LEMMA DrainedAlways == Spec => []DrainedInv
<1>1. Init => DrainedInv
  BY DEF Init, DrainedInv, Suspended
<1> QED
  BY <1>1, DrainedNext, TypeCorrect, LoopsRunAlways, RunsSoundAlways, PTL DEF Spec

\* The scheduler stops no run while one of its nodes could run, and nothing that
\* happens while the run is stopped makes one ready behind its back.
THEOREM StopsAreDrained == Spec => []StoppedRunIsDrained
<1>1. DrainedInv => StoppedRunIsDrained
  BY DEF DrainedInv, StoppedRunIsDrained
<1> QED
  BY <1>1, DrainedAlways, PTL

\* An agent that asks the operator does not claim to have succeeded or failed.
AgentsWaitToAsk ==
    \A n \in Node : \A result \in AgentResult[n] :
        result.asks => result.status \in {"waiting", "blocked"}

\* Whoever asks waits or is blocked.
LEMMA AskersWait ==
    ASSUME AgentsWaitToAsk, NEW n \in Node, NEW answered \in BOOLEAN,
           NEW result \in ExecutorResults(n, answered), result.asks
    PROVE  result.status \in {"waiting", "blocked"}
<1>1. ASSUME NEW payload, NEW acts
      PROVE  /\ ~Succeeded(n, payload, acts).asks /\ ~Failed(acts).asks
             /\ ApprovalRequested(n, payload, acts).status = "waiting"
  BY DEF Succeeded, Failed, ApprovalRequested
<1>2. CASE Kind[n] \in {"noop", "condition", "merge"}
  <2>1. result \in BuiltinResults(n)
    BY <1>2 DEF ExecutorResults
  <2> QED
    BY <1>1, <2>1 DEF BuiltinResults
<1>3. CASE Kind[n] = "human_gate"
  <2>1. result \in HumanGateResults(n, answered)
    BY <1>3 DEF ExecutorResults
  <2> QED
    BY <1>1, <2>1 DEF HumanGateResults
<1>4. CASE Kind[n] = "tool"
  <2>1. result \in ToolResults(n)
    BY <1>4 DEF ExecutorResults
  <2>2. PICK v \in Verdict[n] :
           result \in (CASE v = "none"             -> ToolRuns(n, {})
                         [] v = "allow"            -> ToolRuns(n, {v})
                         [] v = "redact"           -> ToolRuns(n, {v}) \cup {Failed({v})}
                         [] v = "require_approval" -> {ApprovalRequested(n, "empty", {v})}
                         [] v \in {"deny", "degrade", "retry_later"} -> {Failed({v})})
    BY <2>1 DEF ToolResults
  <2>3. v \in PolicyAction \cup {"none"}
    BY VerdictAssumption
  <2>4. \/ result \in ToolRuns(n, {}) \/ result \in ToolRuns(n, {v})
        \/ result = Failed({v}) \/ result = ApprovalRequested(n, "empty", {v})
    BY <2>2, <2>3 DEF PolicyAction
  <2>5. \A acts : result \in ToolRuns(n, acts) => ~result.asks
    BY <1>1 DEF ToolRuns
  <2> QED
    BY <1>1, <2>4, <2>5
<1>5. CASE Kind[n] = "agent"
  BY <1>5 DEF ExecutorResults, AgentsWaitToAsk
<1> QED
  BY <1>2, <1>3, <1>4, <1>5, KindAssumption DEF NodeKind

\* Nodes that ask wait or are blocked as long as the run is not over, and a run
\* is suspended for the reason its status names.
Answerable(status, state, nodes) ==
    /\ status \notin TerminalRunStatus =>
          \A n \in Elements(state.pending) : nodes[n] \in {"waiting", "blocked"}
    /\ status = "interrupted" => state.pending # <<>>
    /\ status = "waiting" /\ DeadlockDetection =>
          state.pending = <<>> /\ state.waiting \cup state.blocked # {}

AnswerableInv == \A r \in Run : Answerable(run[r], runState[r], node[r])

LEMMA AnswerableStep ==
    ASSUME AgentsWaitToAsk, TypeOK, LoopsRun, RunsSound, AnswerableInv, NEW r \in Run,
           Call(r) \/ LoopStep(r) \/ \E n \in Node : NodeRaises(r, n)
    PROVE  Answerable(run'[r], runState'[r], node'[r])
<1> DEFINE Goal == Answerable(run'[r], runState'[r], node'[r])
<1>a. /\ Sound(run[r], runState[r], node[r], interrupt[r], loop[r])
      /\ Answerable(run[r], runState[r], node[r])
      /\ run \in [Run -> RunStatus \cup {"absent"}] /\ runState \in [Run -> RunStateRecord]
      /\ node \in [Run -> [Node -> NodeStatus]]
      /\ runState[r].pending \in Seq(Node)
  BY DEF RunsSound, AnswerableInv, TypeOK, RunStateRecord
<1>b. Elements(runState[r].pending) \subseteq Node
  BY <1>a, ElementsType
<1>c. ~Terminal(r) /\ loop[r].at # "idle" => run[r] = "running"
  BY SliceType DEF Terminal
<1>d. ASSUME run'[r] \in TerminalRunStatus PROVE Goal
  BY <1>d DEF Answerable, TerminalRunStatus
<1>e. ASSUME run'[r] = "running",
             \A n \in Elements(runState'[r].pending) : node'[r][n] \in {"waiting", "blocked"}
      PROVE  Goal
  BY <1>e DEF Answerable
<1>f. run[r] \notin TerminalRunStatus =>
         \A n \in Elements(runState[r].pending) : node[r][n] \in {"waiting", "blocked"}
  BY <1>a DEF Answerable
<1>1. CASE StartRun(r)
  <2>1. run'[r] = "running" /\ runState'[r].pending = <<>>
    BY <1>a, <1>1 DEF StartRun, NewRunState
  <2> QED
    BY <1>e, <2>1, NothingOnce
<1>2. ASSUME NEW answered \in BOOLEAN, ResumeRun(r, answered) PROVE Goal
  <2> DEFINE resolved == IF answered THEN runState[r].pending ELSE <<>>
  <2>1. PICK frontier : runState' = [runState EXCEPT ![r] = Resumed(@, frontier, answered)]
    BY <1>2 DEF ResumeRun
  <2>2. /\ run[r] \in Suspended /\ run'[r] = "running"
        /\ node'[r] = [n \in Node |-> IF n \in Elements(resolved) THEN "ready" ELSE node[r][n]]
    BY <1>a, <1>2 DEF ResumeRun
  <2>3. Resumed(runState[r], frontier, answered).pending =
           IF answered THEN <<>> ELSE runState[r].pending
    BY <1>a DEF Resumed, RunStateRecord
  <2>4. runState'[r].pending = IF answered THEN <<>> ELSE runState[r].pending
    BY <1>a, <2>1, <2>3
  <2>5. CASE answered
    BY <1>e, <2>2, <2>4, <2>5, NothingOnce
  <2>6. CASE ~answered
    <3>1. resolved = <<>> /\ runState'[r].pending = runState[r].pending
      BY <2>4, <2>6
    <3>2. \A n \in Node : node'[r][n] = node[r][n]
      BY <2>2, <3>1, NothingOnce
    <3>3. run[r] \notin TerminalRunStatus
      BY <2>2 DEF Suspended, TerminalRunStatus
    <3> QED
      BY <1>b, <1>e, <1>f, <2>2, <3>1, <3>2, <3>3
  <2> QED
    BY <2>5, <2>6
<1>3. CASE CancelRun(r)
  BY <1>a, <1>3, <1>d DEF CancelRun, TerminalRunStatus
<1>4. CASE Dispatch(r)
  <2>1. PICK batch : runState' = [runState EXCEPT ![r] = [@ EXCEPT !.frontier = batch]]
    BY <1>4 DEF Dispatch
  <2>2. [runState[r] EXCEPT !.frontier = batch].pending = runState[r].pending
    BY <1>a DEF RunStateRecord
  <2>3. runState'[r].pending = runState[r].pending
    BY <1>a, <2>1, <2>2
  <2>4. run[r] = "running" /\ run'[r] = "running" /\ node'[r] = node[r]
    BY <1>4, <1>c DEF Dispatch
  <2> QED
    BY <1>e, <1>f, <2>3, <2>4 DEF TerminalRunStatus
<1>5. CASE Settle(r)
  <2>1. run[r] = "running" /\ node' = node
    BY <1>5, <1>c DEF Settle
  <2>2. CASE EndRun(r, "completed") \/ EndRun(r, "failed")
    BY <1>a, <1>d, <2>2 DEF EndRun, TerminalRunStatus
  <2>3. ASSUME NEW status \in Suspended, SuspendRun(r, status),
               status = "interrupted" => runState[r].pending # <<>>,
               status = "waiting" /\ DeadlockDetection =>
                  runState[r].pending = <<>> /\ runState[r].waiting \cup runState[r].blocked # {}
        PROVE  Goal
    <3>1. run'[r] = status /\ runState'[r] = SuspendedAs(runState[r], status)
      BY <1>a, <2>3 DEF SuspendRun, SuspendedAs
    <3>2. \A state \in RunStateRecord :
             /\ SuspendedAs(state, status).pending = state.pending
             /\ SuspendedAs(state, status).waiting = state.waiting
             /\ SuspendedAs(state, status).blocked = state.blocked
      BY DEF SuspendedAs, RunStateRecord
    <3>3. /\ runState'[r].pending = runState[r].pending
          /\ runState'[r].waiting = runState[r].waiting
          /\ runState'[r].blocked = runState[r].blocked
      BY <1>a, <3>1, <3>2
    <3> QED
      BY <1>f, <2>1, <2>3, <3>1, <3>3 DEF Answerable, TerminalRunStatus
  <2>4. Ready(r) = {} /\ runState[r].active = {}
    BY <1>5, NothingReady
  <2>5. \/ EndRun(r, "completed") \/ EndRun(r, "failed")
        \/ SuspendRun(r, "interrupted") /\ runState[r].pending # <<>>
        \/ /\ SuspendRun(r, "waiting") /\ runState[r].pending = <<>>
           /\ \/ runState[r].active \cup runState[r].waiting \cup runState[r].blocked # {}
              \/ Ready(r) # {} \/ ~DeadlockDetection
    BY <1>5 DEF Settle
  <2> QED
    BY <2>2, <2>3, <2>4, <2>5 DEF Suspended
<1>6. ASSUME NEW n \in Node, NoExecutor(r, n) PROVE Goal
  BY <1>a, <1>6, <1>d DEF NoExecutor, EndRun, TerminalRunStatus
<1>7. ASSUME NEW n \in Node, NodeStarts(r, n) PROVE Goal
  <2>1. PICK frontier : runState' = [runState EXCEPT ![r] = Started(@, n, frontier)]
    BY <1>7 DEF NodeStarts
  <2>2. Started(runState[r], n, frontier).pending = runState[r].pending
    BY <1>a DEF Started, RunStateRecord
  <2>3. runState'[r].pending = runState[r].pending
    BY <1>a, <2>1, <2>2
  <2>4. /\ Taking(r, n) /\ run' = run /\ node' = [node EXCEPT ![r][n] = "running"]
    BY <1>7 DEF NodeStarts
  <2>5. /\ loop[r].at = "dispatch" /\ loop[r].batch # <<>> /\ n = Head(loop[r].batch)
        /\ run[r] = "running" /\ run'[r] = "running"
    BY <2>4, <1>c DEF Taking
  <2>6. n \in Elements(loop[r].batch)
    BY <1>a, <2>5, SliceType, TailOnce DEF Sound, LoopSound
  <2>7. n \notin Elements(runState[r].pending)
    BY <1>a, <2>5, <2>6 DEF Sound, LoopSound, Waits, TerminalRunStatus
  <2>8. \A m \in Node \ {n} : node'[r][m] = node[r][m]
    BY <1>a, <2>4
  <2> QED
    BY <1>b, <1>e, <1>f, <2>3, <2>5, <2>7, <2>8 DEF TerminalRunStatus
<1>8. ASSUME NEW n \in Node, NodeReturns(r, n) PROVE Goal
  <2>1. PICK result \in ExecutorResults(n, interrupt[r][n] = "resolved") :
          /\ node' = [node EXCEPT ![r][n] = result.status]
          /\ IF result.status = "failed"
             THEN run' = [run EXCEPT ![r] = "failed"]
             ELSE /\ runState' = [runState EXCEPT ![r] = WithResult(@, n, result)]
                  /\ UNCHANGED run
    BY <1>8 DEF NodeReturns
  <2>2. result \in NodeResult /\ (result.asks => result.status \in {"waiting", "blocked"})
    BY ExecutorResultsType, AskersWait
  <2>3. loop[r].at = "execute" /\ n = Head(loop[r].batch)
    BY <1>8 DEF NodeReturns
  <2>4. CASE run'[r] \in TerminalRunStatus
    BY <1>d, <2>4
  <2>5. CASE run'[r] \notin TerminalRunStatus
    <3>1. /\ result.status # "failed" /\ run' = run
          /\ runState' = [runState EXCEPT ![r] = WithResult(@, n, result)]
      BY <1>a, <2>1, <2>5 DEF TerminalRunStatus
    <3>2. run'[r] = "running" /\ run[r] = "running"
      BY <1>c, <2>3, <2>5, <3>1 DEF Terminal
    <3>3. WithResult(runState[r], n, result).pending =
             IF result.asks THEN Append(runState[r].pending, n) ELSE runState[r].pending
      BY <1>a DEF WithResult, RunStateRecord
    <3>4. runState'[r].pending =
             IF result.asks THEN Append(runState[r].pending, n) ELSE runState[r].pending
      BY <1>a, <3>1, <3>3
    <3>5. n \notin Elements(runState[r].pending)
      BY <1>a, <2>3 DEF Sound, LoopSound
    <3>6. Elements(runState'[r].pending) =
             Elements(runState[r].pending) \cup (IF result.asks THEN {n} ELSE {})
      BY <1>a, <2>2, <3>4, AppendOnce DEF Sound, AsksSound, NodeResult
    <3>7. \A m \in Node : node'[r][m] = IF m = n THEN result.status ELSE node[r][m]
      BY <1>a, <2>1
    <3> QED
      BY <1>b, <1>e, <1>f, <2>2, <3>2, <3>5, <3>6, <3>7 DEF TerminalRunStatus
  <2> QED
    BY <2>4, <2>5
<1>9. CASE LoopExits(r) \/ BatchDone(r) \/ \E n \in Node : NodeRaises(r, n)
  BY <1>a, <1>9 DEF LoopExits, BatchDone, NodeRaises
<1> QED
  BY <1>1, <1>2, <1>3, <1>4, <1>5, <1>6, <1>7, <1>8, <1>9 DEF Call, LoopStep

\* When agents ask only while they wait or are blocked, every stop of the
\* scheduler can be answered: an interrupted run names nodes that wait for an
\* answer, and a run that waits without a question has a node that waits.
THEOREM StopsCanBeAnswered ==
    ASSUME AgentsWaitToAsk
    PROVE  Spec => []StopsAreAnswerable
<1>1. Init => AnswerableInv
  BY NothingOnce DEF Init, AnswerableInv, Answerable, NewRunState
<1>2. TypeOK /\ LoopsRun /\ RunsSound /\ AnswerableInv /\ [Next]_vars => AnswerableInv'
  <2> SUFFICES ASSUME TypeOK, LoopsRun, RunsSound, AnswerableInv, [Next]_vars, NEW r \in Run
               PROVE  Answerable(run'[r], runState'[r], node'[r])
    BY DEF AnswerableInv
  <2>1. CASE UNCHANGED vars
    BY <2>1 DEF vars, AnswerableInv
  <2>2. ASSUME NEW q \in Run, Call(q) \/ LoopStep(q) \/ \E n \in Node : NodeRaises(q, n)
        PROVE  Answerable(run'[r], runState'[r], node'[r])
    <3>1. CASE q = r
      BY <2>2, <3>1, AnswerableStep
    <3>2. CASE q # r
      BY <2>2, <3>2, OneRunAtATime DEF AnswerableInv
    <3> QED
      BY <3>1, <3>2
  <2> QED
    BY <2>1, <2>2 DEF Next
<1>3. AnswerableInv => StopsAreAnswerable
  BY DEF AnswerableInv, Answerable, StopsAreAnswerable, TerminalRunStatus
<1> QED
  BY <1>1, <1>2, <1>3, TypeCorrect, LoopsRunAlways, RunsSoundAlways, PTL DEF Spec

-----------------------------------------------------------------------------
(* Gates                                                                    *)

\* The edges that make a node wait for a human gate, whatever else it waits for.
Gated(n) ==
    {e \in Edge : /\ e.to = n /\ e.cond.kind = "always"
                  /\ Kind[e.from] = "human_gate" /\ Join[n].kind = "all_success"}

\* Every gate a node waits for was answered.
Through(n, asks) == \A e \in Gated(n) : asks[e.from] = "resolved"

\* A gate has succeeded only after its answer; and what has begun, asks, or is
\* about to begin is through its gates.
GateSound(nodes, asks, state, lp) ==
    /\ \A n \in Node : Kind[n] = "human_gate" /\ nodes[n] = "succeeded" => asks[n] = "resolved"
    /\ \A n \in Node : nodes[n] \notin {"pending", "cancelled"} => Through(n, asks)
    /\ \A n \in Elements(state.pending) : Through(n, asks)
    /\ \A n \in Elements(lp.batch) : Through(n, asks)

GatesSound == \A r \in Run : GateSound(node[r], interrupt[r], runState[r], loop[r])

\* A gate succeeds when it was answered, and does not ask again then.
LEMMA GateAnswers ==
    ASSUME NEW n \in Node, Kind[n] = "human_gate", NEW answered \in BOOLEAN,
           NEW result \in ExecutorResults(n, answered)
    PROVE  /\ result.status = "succeeded" => answered /\ ~result.asks
           /\ answered => ~result.asks
<1>1. result \in HumanGateResults(n, answered)
  BY DEF ExecutorResults
<1> QED
  BY <1>1 DEF HumanGateResults, Succeeded, ApprovalRequested

\* A node is ready when its gates are behind it.
LEMMA ReadyIsThrough ==
    ASSUME NEW nodes \in [Node -> NodeStatus], NEW artifacts, NEW acts, NEW asks,
           NEW state, NEW lp, GateSound(nodes, asks, state, lp), NEW asking,
           NEW n \in ReadyNodes(nodes, artifacts, acts, asking)
    PROVE  Through(n, asks)
<1>1. n \in Node
  BY DEF ReadyNodes
<1>2. CASE nodes[n] \notin {"pending", "cancelled"}
  BY <1>1, <1>2 DEF GateSound
<1>3. CASE nodes[n] \in {"pending", "cancelled"}
  <2>1. DependenciesSatisfied(n, nodes, artifacts, acts)
    BY <1>3 DEF ReadyNodes
  <2> SUFFICES ASSUME NEW e \in Gated(n) PROVE asks[e.from] = "resolved"
    BY DEF Through
  <2>2. /\ e \in Edge /\ e.to = n /\ e.cond.kind = "always" /\ Kind[e.from] = "human_gate"
        /\ Join[n].kind = "all_success" /\ e.from \in Node
    BY EdgeAssumption DEF Gated
  <2>3. e \in Incoming(n) /\ EdgeConditionSatisfied(e, artifacts, acts)
    BY <2>2 DEF Incoming, EdgeConditionSatisfied
  <2>4. nodes[e.from] = "succeeded"
    BY <2>1, <2>2, <2>3 DEF DependenciesSatisfied
  <2> QED
    BY <2>2, <2>4 DEF GateSound
<1> QED
  BY <1>2, <1>3

\* Answers of gates stay; what may begin, ask or be taken next has passed.
LEMMA GateKept ==
    ASSUME NEW nodes, NEW asks, NEW state, NEW lp, GateSound(nodes, asks, state, lp),
           NEW nodes2, NEW asks2, NEW state2, NEW lp2,
           \A n \in Node : Kind[n] = "human_gate" /\ asks[n] = "resolved" =>
                             asks2[n] = "resolved",
           \A n \in Node : Kind[n] = "human_gate" /\ nodes2[n] = "succeeded" =>
                             nodes[n] = "succeeded" \/ asks2[n] = "resolved",
           \A n \in Node : nodes2[n] \in {"pending", "cancelled"}
                             \/ nodes[n] \notin {"pending", "cancelled"} \/ Through(n, asks),
           \A n \in Elements(state2.pending) \cup Elements(lp2.batch) : Through(n, asks)
    PROVE  GateSound(nodes2, asks2, state2, lp2)
<1>1. ASSUME NEW n, Through(n, asks) PROVE Through(n, asks2)
  BY <1>1, EdgeAssumption DEF Through, Gated
<1>2. \A n \in Node : Kind[n] = "human_gate" /\ nodes2[n] = "succeeded" => asks2[n] = "resolved"
  BY DEF GateSound
<1>3. \A n \in Node : nodes2[n] \notin {"pending", "cancelled"} => Through(n, asks2)
  BY <1>1 DEF GateSound
<1> QED
  BY <1>1, <1>2, <1>3 DEF GateSound

LEMMA GateStep ==
    ASSUME Gated(Entry) = {}, TypeOK, LoopsRun, RunsSound, GatesSound, NEW r \in Run,
           Call(r) \/ LoopStep(r) \/ \E n \in Node : NodeRaises(r, n)
    PROVE  GateSound(node'[r], interrupt'[r], runState'[r], loop'[r])
<1> DEFINE Goal == GateSound(node'[r], interrupt'[r], runState'[r], loop'[r])
<1>a. /\ Sound(run[r], runState[r], node[r], interrupt[r], loop[r])
      /\ GateSound(node[r], interrupt[r], runState[r], loop[r])
      /\ run \in [Run -> RunStatus \cup {"absent"}] /\ runState \in [Run -> RunStateRecord]
      /\ node \in [Run -> [Node -> NodeStatus]] /\ loop \in [Run -> Loop]
      /\ interrupt \in [Run -> [Node -> {"none", "open", "resolved"}]]
      /\ runState[r].pending \in Seq(Node)
  BY DEF RunsSound, GatesSound, TypeOK, RunStateRecord
<1>b. /\ \A n \in Elements(runState[r].pending) : Through(n, interrupt[r])
      /\ \A n \in Elements(loop[r].batch) : Through(n, interrupt[r])
  BY <1>a DEF GateSound
<1>c. ASSUME NEW at, NEW batch, LoopAt(r, at, batch)
      PROVE  loop'[r].batch = batch
  BY <1>a, <1>c DEF LoopAt
<1>d. Through(Entry, interrupt[r])
  BY DEF Through
<1>e. ASSUME node'[r] = node[r], interrupt'[r] = interrupt[r],
             \A n \in Elements(runState'[r].pending) \cup Elements(loop'[r].batch) :
                Through(n, interrupt[r])
      PROVE  Goal
  BY <1>a, <1>e, GateKept
<1>f. loop[r].batch # <<>> =>
         /\ Head(loop[r].batch) \in Elements(loop[r].batch)
         /\ Elements(Tail(loop[r].batch)) \subseteq Elements(loop[r].batch)
  BY <1>a, SliceType, TailOnce DEF Sound, LoopSound
<1>1. CASE StartRun(r)
  <2>1. /\ runState'[r].pending = <<>> /\ interrupt'[r] = interrupt[r]
        /\ node'[r] = [n \in Node |-> IF n = Entry THEN "ready" ELSE "pending"]
        /\ LoopAt(r, "decide", <<>>)
    BY <1>a, <1>1 DEF StartRun, NewRunState
  <2>2. \A n \in Node : node'[r][n] = IF n = Entry THEN "ready" ELSE "pending"
    BY <2>1
  <2>3. Elements(runState'[r].pending) \cup Elements(loop'[r].batch) = {}
    BY <1>c, <2>1, NothingOnce
  <2>4. /\ \A m \in Node : Kind[m] = "human_gate" /\ interrupt[r][m] = "resolved" =>
                              interrupt'[r][m] = "resolved"
        /\ \A m \in Node : Kind[m] = "human_gate" /\ node'[r][m] = "succeeded" =>
                              node[r][m] = "succeeded" \/ interrupt'[r][m] = "resolved"
        /\ \A m \in Node : node'[r][m] \in {"pending", "cancelled"}
                \/ node[r][m] \notin {"pending", "cancelled"} \/ Through(m, interrupt[r])
    BY <1>d, <2>1, <2>2
  <2>5. \A m \in Elements(runState'[r].pending) \cup Elements(loop'[r].batch) :
           Through(m, interrupt[r])
    BY <2>3
  <2> QED
    BY <1>a, <2>4, <2>5, GateKept
<1>2. ASSUME NEW answered \in BOOLEAN, ResumeRun(r, answered) PROVE Goal
  <2> DEFINE asked == Elements(IF answered THEN runState[r].pending ELSE <<>>)
  <2>1. PICK frontier : runState' = [runState EXCEPT ![r] = Resumed(@, frontier, answered)]
    BY <1>2 DEF ResumeRun
  <2>2. /\ node'[r] = [n \in Node |-> IF n \in asked THEN "ready" ELSE node[r][n]]
        /\ interrupt'[r] = [n \in Node |-> IF n \in asked THEN "resolved" ELSE interrupt[r][n]]
        /\ LoopAt(r, "decide", <<>>) \/ UNCHANGED loop
    BY <1>a, <1>2 DEF ResumeRun
  <2>3. Resumed(runState[r], frontier, answered).pending =
           IF answered THEN <<>> ELSE runState[r].pending
    BY <1>a DEF Resumed, RunStateRecord
  <2>4. runState'[r].pending = IF answered THEN <<>> ELSE runState[r].pending
    BY <1>a, <2>1, <2>3
  <2>5. \A n \in Elements(runState'[r].pending) : Through(n, interrupt[r])
    BY <1>b, <2>4, NothingOnce
  <2>6. \A n \in Elements(loop'[r].batch) : Through(n, interrupt[r])
    BY <1>b, <1>c, <2>2, NothingOnce
  <2>7. \A n \in asked : Through(n, interrupt[r])
    BY <1>b, NothingOnce
  <2>8. /\ \A n \in Node : node'[r][n] = IF n \in asked THEN "ready" ELSE node[r][n]
        /\ \A n \in Node : interrupt'[r][n] = IF n \in asked THEN "resolved" ELSE interrupt[r][n]
    BY <2>2
  <2> HIDE DEF asked
  <2>9. /\ \A n \in Node : interrupt[r][n] = "resolved" => interrupt'[r][n] = "resolved"
        /\ \A n \in Node : node'[r][n] = "succeeded" => node[r][n] = "succeeded"
        /\ \A n \in Node : node'[r][n] \in {"pending", "cancelled"}
              \/ node[r][n] \notin {"pending", "cancelled"} \/ Through(n, interrupt[r])
    BY <2>7, <2>8
  <2>10. /\ \A m \in Node : Kind[m] = "human_gate" /\ interrupt[r][m] = "resolved" =>
                               interrupt'[r][m] = "resolved"
         /\ \A m \in Node : Kind[m] = "human_gate" /\ node'[r][m] = "succeeded" =>
                               node[r][m] = "succeeded" \/ interrupt'[r][m] = "resolved"
         /\ \A m \in Node : node'[r][m] \in {"pending", "cancelled"}
                 \/ node[r][m] \notin {"pending", "cancelled"} \/ Through(m, interrupt[r])
    BY <2>9
  <2>11. \A m \in Elements(runState'[r].pending) \cup Elements(loop'[r].batch) :
            Through(m, interrupt[r])
    BY <2>5, <2>6
  <2>12. GateSound(node[r], interrupt[r], runState[r], loop[r])
    BY <1>a
  <2> QED
    BY <2>10, <2>11, <2>12, GateKept
<1>3. CASE CancelRun(r)
  <2>1. /\ runState' = [runState EXCEPT ![r] =
              [Ended(@, "cancelled") EXCEPT !.waiting = {}, !.blocked = {}]]
        /\ node'[r] = [n \in Node |-> IF node[r][n] \in TerminalNodeStatus THEN node[r][n]
                                                                         ELSE "cancelled"]
        /\ interrupt'[r] = interrupt[r] /\ loop'[r] = loop[r]
    BY <1>a, <1>3 DEF CancelRun
  <2>2. [Ended(runState[r], "cancelled") EXCEPT !.waiting = {}, !.blocked = {}].pending
           = runState[r].pending
    BY <1>a DEF Ended, RunStateRecord
  <2>3. runState'[r].pending = runState[r].pending
    BY <1>a, <2>1, <2>2
  <2>4. \A n \in Node : node'[r][n] = node[r][n] \/ node'[r][n] = "cancelled"
    BY <2>1
  <2>5. /\ \A m \in Node : Kind[m] = "human_gate" /\ interrupt[r][m] = "resolved" =>
                              interrupt'[r][m] = "resolved"
        /\ \A m \in Node : Kind[m] = "human_gate" /\ node'[r][m] = "succeeded" =>
                              node[r][m] = "succeeded" \/ interrupt'[r][m] = "resolved"
        /\ \A m \in Node : node'[r][m] \in {"pending", "cancelled"}
                \/ node[r][m] \notin {"pending", "cancelled"} \/ Through(m, interrupt[r])
    BY <2>1, <2>4
  <2>6. \A m \in Elements(runState'[r].pending) \cup Elements(loop'[r].batch) :
           Through(m, interrupt[r])
    BY <1>b, <2>1, <2>3
  <2> QED
    BY <1>a, <2>5, <2>6, GateKept
<1>4. CASE Dispatch(r)
  <2>1. PICK batch \in Batches(Ready(r), runState[r].frontier, runState[r].active) :
          /\ runState' = [runState EXCEPT ![r] = [@ EXCEPT !.frontier = batch]]
          /\ LoopAt(r, "dispatch", batch)
    BY <1>4 DEF Dispatch
  <2>2. [runState[r] EXCEPT !.frontier = batch].pending = runState[r].pending
    BY <1>a DEF RunStateRecord
  <2>3. runState'[r].pending = runState[r].pending
    BY <1>a, <2>1, <2>2
  <2>4. Ready(r) \in SUBSET Node /\ runState[r].active \in SUBSET Node
    BY <1>a DEF Ready, ReadyNodes, RunStateRecord
  <2>5. Elements(batch) \subseteq Ready(r)
    BY <2>1, <2>4, BatchesOnce
  <2>6. \A n \in Ready(r) : Through(n, interrupt[r])
    BY <1>a, ReadyIsThrough DEF Ready
  <2>7. node'[r] = node[r] /\ interrupt'[r] = interrupt[r] /\ loop'[r].batch = batch
    BY <1>4, <1>c, <2>1 DEF Dispatch
  <2> QED
    BY <1>b, <1>e, <2>3, <2>5, <2>6, <2>7
<1>5. CASE Settle(r)
  <2>1. PICK status : EndRun(r, status) \/ SuspendRun(r, status)
    BY <1>5 DEF Settle
  <2>2. \A state \in RunStateRecord :
           /\ Ended(state, status).pending = state.pending
           /\ SuspendedAs(state, status).pending = state.pending
    BY DEF Ended, SuspendedAs, RunStateRecord
  <2>3. runState'[r] = Ended(runState[r], status) \/ runState'[r] = SuspendedAs(runState[r], status)
    BY <1>a, <2>1 DEF EndRun, SuspendRun, SuspendedAs
  <2>4. runState'[r].pending = runState[r].pending
    BY <1>a, <2>2, <2>3
  <2>5. node'[r] = node[r] /\ interrupt'[r] = interrupt[r] /\ loop'[r].batch = <<>>
    BY <1>5, <1>c DEF Settle
  <2> QED
    BY <1>b, <1>e, <2>4, <2>5, NothingOnce
<1>6. ASSUME NEW n \in Node, NoExecutor(r, n) PROVE Goal
  <2>1. runState' = [runState EXCEPT ![r] = Ended(@, "failed")]
    BY <1>6 DEF NoExecutor, EndRun
  <2>2. Ended(runState[r], "failed").pending = runState[r].pending
    BY <1>a DEF Ended, RunStateRecord
  <2>3. runState'[r].pending = runState[r].pending
    BY <1>a, <2>1, <2>2
  <2>4. /\ node'[r] = node[r] /\ interrupt'[r] = interrupt[r] /\ loop[r].batch # <<>>
        /\ loop'[r].batch = Tail(loop[r].batch)
    BY <1>6, <1>c DEF NoExecutor, Taking
  <2> QED
    BY <1>b, <1>e, <1>f, <2>3, <2>4
<1>7. ASSUME NEW n \in Node, NodeStarts(r, n) PROVE Goal
  <2>1. PICK frontier : runState' = [runState EXCEPT ![r] = Started(@, n, frontier)]
    BY <1>7 DEF NodeStarts
  <2>2. Started(runState[r], n, frontier).pending = runState[r].pending
    BY <1>a DEF Started, RunStateRecord
  <2>3. runState'[r].pending = runState[r].pending
    BY <1>a, <2>1, <2>2
  <2>4. /\ interrupt'[r] = interrupt[r] /\ loop[r].batch # <<>> /\ n = Head(loop[r].batch)
        /\ loop'[r].batch = loop[r].batch
    BY <1>7, <1>c DEF NodeStarts, Taking
  <2>5. \A m \in Node : node'[r][m] = IF m = n THEN "running" ELSE node[r][m]
    BY <1>a, <1>7 DEF NodeStarts
  <2>6. Through(n, interrupt[r])
    BY <1>b, <1>f, <2>4
  <2>7. /\ \A m \in Node : Kind[m] = "human_gate" /\ interrupt[r][m] = "resolved" =>
                              interrupt'[r][m] = "resolved"
        /\ \A m \in Node : Kind[m] = "human_gate" /\ node'[r][m] = "succeeded" =>
                              node[r][m] = "succeeded" \/ interrupt'[r][m] = "resolved"
        /\ \A m \in Node : node'[r][m] \in {"pending", "cancelled"}
                \/ node[r][m] \notin {"pending", "cancelled"} \/ Through(m, interrupt[r])
    BY <2>4, <2>5, <2>6
  <2>8. \A m \in Elements(runState'[r].pending) \cup Elements(loop'[r].batch) :
           Through(m, interrupt[r])
    BY <1>b, <2>3, <2>4
  <2> QED
    BY <1>a, <2>7, <2>8, GateKept
<1>8. ASSUME NEW n \in Node, NodeReturns(r, n) PROVE Goal
  <2>1. PICK result \in ExecutorResults(n, interrupt[r][n] = "resolved") :
          /\ node' = [node EXCEPT ![r][n] = result.status]
          /\ interrupt' = [interrupt EXCEPT ![r][n] = IF result.asks THEN "open" ELSE @]
          /\ IF result.status = "failed"
             THEN runState' = [runState EXCEPT ![r] = Ended(WithResult(@, n, result), "failed")]
             ELSE runState' = [runState EXCEPT ![r] = WithResult(@, n, result)]
    BY <1>8 DEF NodeReturns
  <2>2. result \in NodeResult
    BY ExecutorResultsType
  <2>3. /\ loop[r].batch # <<>> /\ n = Head(loop[r].batch)
        /\ loop'[r].batch = Tail(loop[r].batch)
    BY <1>8, <1>c, SliceType DEF NodeReturns
  <2>4. /\ \A m \in Node : node'[r][m] = IF m = n THEN result.status ELSE node[r][m]
        /\ \A m \in Node : interrupt'[r][m] = IF m = n /\ result.asks THEN "open"
                                              ELSE interrupt[r][m]
    BY <1>a, <2>1
  <2>5. runState'[r] = StateAfter(runState[r], n, result)
    BY <1>a, <2>1 DEF StateAfter
  <2>6. StateAfter(runState[r], n, result).pending =
           IF result.asks THEN Append(runState[r].pending, n) ELSE runState[r].pending
    <3>1. WithResult(runState[r], n, result) \in RunStateRecord
      BY <1>a, <2>2, WithResultType
    <3>2. WithResult(runState[r], n, result).pending =
             IF result.asks THEN Append(runState[r].pending, n) ELSE runState[r].pending
      BY <1>a DEF WithResult, RunStateRecord
    <3>3. \A state \in RunStateRecord : Ended(state, "failed").pending = state.pending
      BY DEF Ended, RunStateRecord
    <3> QED
      BY <3>1, <3>2, <3>3 DEF StateAfter
  <2>7. Elements(runState'[r].pending) \subseteq Elements(runState[r].pending) \cup {n}
    BY <1>a, <2>5, <2>6, AppendOnce DEF Sound, AsksSound
  <2>8. Through(n, interrupt[r])
    BY <1>b, <1>f, <2>3
  <2>9. Kind[n] = "human_gate" =>
           /\ result.status = "succeeded" => interrupt[r][n] = "resolved" /\ ~result.asks
           /\ interrupt[r][n] = "resolved" => ~result.asks
    BY GateAnswers
  <2>10. /\ \A m \in Node : Kind[m] = "human_gate" /\ interrupt[r][m] = "resolved" =>
                               interrupt'[r][m] = "resolved"
         /\ \A m \in Node : Kind[m] = "human_gate" /\ node'[r][m] = "succeeded" =>
                               node[r][m] = "succeeded" \/ interrupt'[r][m] = "resolved"
         /\ \A m \in Node : node'[r][m] \in {"pending", "cancelled"}
                 \/ node[r][m] \notin {"pending", "cancelled"} \/ Through(m, interrupt[r])
    BY <2>4, <2>8, <2>9
  <2>11. \A m \in Elements(runState'[r].pending) \cup Elements(loop'[r].batch) :
            Through(m, interrupt[r])
    BY <1>b, <1>f, <2>3, <2>7, <2>8
  <2> QED
    BY <1>a, <2>10, <2>11, GateKept
<1>9. CASE LoopExits(r) \/ BatchDone(r) \/ \E n \in Node : NodeRaises(r, n)
  <2>1. /\ UNCHANGED <<runState, node, interrupt>>
        /\ \E at : LoopAt(r, at, <<>>)
    BY <1>9 DEF LoopExits, BatchDone, NodeRaises
  <2> QED
    BY <1>b, <1>c, <1>e, <2>1, NothingOnce
<1> QED
  BY <1>1, <1>2, <1>3, <1>4, <1>5, <1>6, <1>7, <1>8, <1>9 DEF Call, LoopStep

\* A node that waits for a human gate begins only after the gate was answered,
\* whatever branch ran meanwhile, in every workflow that does not lead a gate
\* back to its entry (the entry begins unasked).
THEOREM GatesAlwaysHold ==
    ASSUME Gated(Entry) = {}
    PROVE  Spec => []GatesHold
<1>1. Init => GatesSound
  <2> SUFFICES ASSUME Init, NEW r \in Run
               PROVE  GateSound(node[r], interrupt[r], runState[r], loop[r])
    BY DEF GatesSound
  <2>1. /\ node[r] = [n \in Node |-> "pending"]
        /\ runState[r].pending = <<>> /\ loop[r].batch = <<>>
    BY DEF Init, NewRunState
  <2> QED
    BY <2>1, NothingOnce DEF GateSound
<1>2. TypeOK /\ LoopsRun /\ RunsSound /\ GatesSound /\ [Next]_vars => GatesSound'
  <2> SUFFICES ASSUME TypeOK, LoopsRun, RunsSound, GatesSound, [Next]_vars, NEW r \in Run
               PROVE  GateSound(node'[r], interrupt'[r], runState'[r], loop'[r])
    BY DEF GatesSound
  <2>1. CASE UNCHANGED vars
    BY <2>1 DEF vars, GatesSound
  <2>2. ASSUME NEW q \in Run, Call(q) \/ LoopStep(q) \/ \E n \in Node : NodeRaises(q, n)
        PROVE  GateSound(node'[r], interrupt'[r], runState'[r], loop'[r])
    <3>1. CASE q = r
      BY <2>2, <3>1, GateStep
    <3>2. CASE q # r
      BY <2>2, <3>2, OneRunAtATime DEF GatesSound
    <3> QED
      BY <3>1, <3>2
  <2> QED
    BY <2>1, <2>2 DEF Next
<1>3. GatesSound => GatesHold
  BY EdgeAssumption DEF GatesSound, GateSound, GatesHold, Through, Gated
<1> QED
  BY <1>1, <1>2, <1>3, TypeCorrect, LoopsRunAlways, RunsSoundAlways, PTL DEF Spec
=============================================================================
