# Verification of agentRoles

agentRoles runs agents: workflows of nodes that a runtime executes, agents that answer chat messages by looping
over a language model and tools, a console with pages that submit messages and poll for answers, and a
registry of the resources agents may use. This directory models the parts of it that are hard to test, checks
them with TLC on small instances and proves the most important results with TLAPS for all instances.
All paths below are relative to the repository (`src/...` is its Python source, `frontend/...` its pages).

1. [Inventory](#1-inventory) – 2. [Modules](#2-modules) – 3. [Runtime](#3-the-runtime) – 4. [Commits](#4-commits) –
5. [Playground](#5-the-playground) – 6. [Agent loop](#6-the-agent-loop) – 7. [Education pack](#7-the-education-pack) –
8. [Resources](#8-resources-and-skills) – 9. [Servers](#9-servers-and-tools-of-a-session) – 10. [Runs](#10-runs) – 11. [Proofs](#11-proofs) –
12. [Disagreements](#12-where-code-and-documents-disagree) – 13. [Limits](#13-what-is-not-modelled) – 14. [Plan](#14-plan)

## 1. Inventory

| component | state it keeps | operations | talks to | what is hard | what makes it correct |
|---|---|---|---|---|---|
| **RuntimeService**, scheduler, selectors, reducer (`src/core/runtime`, `src/core/state`) | thread and run records, run state with node lists, node states, artifacts, interrupts | create a thread; start, resume, cancel a run; the scheduler loop inside start and resume | executors (it calls), stores, emitter | executors take long, fail, raise and may call back; several records are patched one by one; joins and conditions depend on order | one live run per thread; records and lists agree; nothing runs twice or after the end; a stop can be answered; a loop returns |
| **Node executors** and the policy gate of tools (`src/core/executors`, `src/core/tools/policy.py`) | none | execute a node | agents, tools, policy engine | approvals and gates are answered through interrupts and resumes | a gate holds until it is answered |
| **Agent playground** (`src/application/playground`), chat history, the page | tasks in memory behind a lock, sessions and messages in SQLite, the page's React state | submit, poll, list, create, rename, delete | request threads, one worker thread per message, browser | sections under a lock interleave with transactions, with responses in any order, with a restart | what a task says agrees with the tables and with the page; tasks end |
| **Agent loop** (`shared_impl`, and its near copy in `test_pro`) | the execution trace of a turn, memory snapshots | one turn: decide, adjust, call, answer, remember | model, tools, memory | the policy is a chain of rules that substitute calls for each other | edits only after a look and a preview; only bound tools; the turn ends |
| **File, git and shell tools** (`src/domain_packs/operations`) | the workspace | read, search, preview, edit, patch, delete, run | agents | the file changes between preview and edit | a preview predicts the edit |
| **Workflow compiler** and registry (`src/core/workflow`) | compiled workflows | compile, register, look up | runtime | none: sequential | rejects what the runtime cannot run |
| **Events, event store** (`src/core/events`, `src/core/stores`) | numbered events per run | emit, append, append a batch | runtime, tools, memory | number read, then event appended | numbers increase without gaps |
| **Checkpoints** (`src/core/checkpoint`) | copies of states | write, list | runtime | put together from three reads; nothing restores one | the state it saves is covered by the events it names |
| **State store** (`src/core/stores`) | every record | get, save, list | runtime | saves compare no version | (a save loses nothing: it does, section 12) |
| **Tool registry, adapters, observation** (`src/core/tools`) | tables, gateways | register, route, invoke, record | executors, agents, servers | names and references of several servers coincide; a declared effect is all the policy sees | a call reaches the server it was offered from; what changes is declared and recorded |
| **Static policy engine** (`src/core/policies`) | a table | look up | executors | none | the answer is the table's |
| Memory (`src/core/memory`) | memory records | retrieve, write | agent loop | errors are swallowed | a snapshot is found again |
| Agent registry and bindings, LLM adapters | tables | register, resolve, call | agents, services | none of their own | – |
| **Resource registry and manager** (`src/core/resource_registry`, `src/application/resource_manager`) | one JSON document: servers, skills, sources, workspaces, root | save, delete, import, discover, provision, distribute | console, servers, capabilities, directories | whole-document read, change, write from parallel requests | no update is lost; bindings name what exists |
| **Agent configuration and capability** (`src/application/agent_admin`) | a document per agent | get, save, preview | resource manager | two documents per operation | a capability's bindings are known |
| **Skills in prompts and policies, runtime context** (`src/application/runtime`) | none | build, decide | capability, registry, playground | a snapshot and a capability are read one after the other, and the session is made later still (prompt and policy ask one function which skills are active) | a skill nobody trusted is never given as trusted |
| **External servers and authentication** (`src/infrastructure/mcp`) | a token file, a callback queue | connect, list, call, authenticate | other processes, browser | parallel authentications, a callback that comes late or twice | each server keeps its token |
| Persistence (`src/infrastructure/persistence`) | documents in SQLite | load, save | everything above | as its callers | – |
| **Education pack and its evaluation** (`src/domain_packs/education`, `src/core/evaluation`) | three workflows, scores of cases | run a case | runtime, model | data reach a node through selectors; order of branches decides what is there | inputs are there, the right work is graded, no case ends for want of progress |
| Casework, observability | derived views | read | runtime, sessions | none | – |
| HTTP console, CLI | none | route requests, one thread each | every facade | source of all concurrency above | – |
| **Pages of skills, servers, capabilities** (`frontend/workspace/src`) | React state | load, edit, save | console | lists of a page that is out of date | as the resource manager |
| Other pages | React state | load, edit, save | console | late responses over edits | – |

Components in bold have a module. Which are modelled, partly modelled or not, with the reason, are in `PROJECT.json` ("components");
what is hard to test, each at its line, is there under "hazards".

## 2. Modules

| module | role |
|---|---|
| `WorkflowGraph` | a compiled workflow and the pure functions asked of it: joins, conditions, ready nodes, order, end |
| `NodeExecutors` | the possible answers of an executor, by node type; EXTENDS WorkflowGraph |
| `Runtime` | RuntimeService with its loop; EXTENDS NodeExecutors |
| `RuntimeSafety` | its properties, and the refinement of `RunLifecycle` |
| `RunLifecycle` | abstract specification: what a thread promises of its runs |
| `RuntimeProofs` | theorems about Runtime: types, records, loops, the thread, the refinement; what the scheduler reads and what its stops mean |
| `WorkflowCompiler` | which definitions become workflows (`Accepted`), and what is made of them (`Compiled`) |
| `Workflows` | the workflows of the runs, as definitions; EXTENDS WorkflowCompiler |
| `MCRuntime` | gives Runtime what the compiler makes of them |
| `Playground`, `PlaygroundSafety`, `PlaygroundProofs` | page, request and worker threads, chat tables; properties, theorems |
| `AgentLoop`, `AgentLoopSafety`, `MCAgentLoop` | a turn of an agent, the tools and the workspace |
| `AgentLoopProofs` | theorems about AgentLoop |
| `StateReducer` | a snapshot and a patch give the next snapshot: the reducer as pure operators |
| `RunCommits` | how the runtime writes: one run in shared stores, every call of a store a step; EXTENDS StateReducer |
| `CommitSafety`, `CommitProofs` | event log and checkpoints: properties, theorems |
| `EducationWorkflows` | the nodes, edges and selectors of the three workflows |
| `EducationPack` | an evaluation case: its data from node to node, and its score; EXTENDS EducationWorkflows |
| `EducationProofs` | theorems about EducationPack |
| `ResourceRegistry` | the registry document, the capabilities, and what each operation makes of them |
| `SkillRuntime` | what a session is given of its agent's resources; EXTENDS ResourceRegistry |
| `ResourceManager` | the requests: who reads and writes when; EXTENDS SkillRuntime |
| `ResourceSafety`, `ResourceProofs`, `MCResources` | its properties, theorems and instance |
| `ServerAuth`, `AuthSafety`, `AuthProofs`, `MCServers` | authentication at external servers: flows, token file, callback ports |
| `WorkspaceFiles` | the file tools of the workspace server |
| `SessionTools`, `SessionToolsSafety`, `SessionToolsProofs`, `MCSessionTools` | the tools of a session: building, routing, policy, calls; EXTENDS WorkspaceFiles |

A worker of `Playground` runs an agent whose turn is `AgentLoop`: there the turn is abstracted to the reports it
makes and how it ends, which `TurnEnds` of the agent loop justifies. An agent node of `Runtime` is likewise
any answer of its result type. `RunCommits` takes the one step in which `Runtime` commits apart, for a run small enough that every
interleaving of two threads can be searched; `EducationPack` follows the data that `Runtime` reduces to classes. `SessionTools` takes the tools
that `SkillRuntime` says a session is offered. Composing the modules outright would multiply their states without a step that
one of the abstractions hides: they share no state but files and messages.

Definitions keep the names of the code or of what it does. A variant of a definition that stands in
front of it (`WithRootOnly` before `WithRoot`) is not part of the specification: it is a mistake the code could plausibly
make, kept to show that a property notices it ("mutants" in `PROJECT.json`).

## 3. The runtime

**State.** `thread` and `threadState` are ThreadRecord and ThreadState (status and current run, kept twice),
`run` is RunRecord.status, `runState` the node lists, frontier and pending interrupts, `node` the node statuses,
`artifact` the class of payload a node's output has (conditions test nothing else), `actions` the policy
decisions, `interrupt` the latest interrupt of a node, and `loop` where a scheduler loop stands: deciding,
about to take the next node of a batch, or inside an executor.

**Actions.** `StartRun`, `ResumeRun`, `CancelRun` are the public calls. The loop (`_execute_scheduler_loop`)
is `LoopExits`, `Dispatch`, `Settle`, `BatchDone` and, for each node of a batch, `NoExecutor`, `NodeStarts`,
`NodeReturns` or `NodeRaises`. Between two calls of an executor the service calls nothing but its stores, so that
stretch is one step, and other callers act, in such stretches too, while an executor runs.
`Concurrent` says whether there are such callers: the executor's own code that calls back, or threads that take turns. The console
builds a service for each request and has none (`Concurrent = FALSE`); the service's own interface allows them, and some of its
disagreements with its documents only appear then (section 12).

**What the grain leaves out.** Stretches of two threads that overlap are not behaviours of this module, although the code has no lock: two threads in `resume_run`
may both find the run suspended (`runtime_service.py:249`) before either commits (310-320), and then two loops work on it. `RunCommits` takes the stretches
apart (section 4). So `OnlyFreshNodesStart` speaks of whole calls between an executor's start and its answer, and no property says that a run has one loop: in the code it may have two.
A commit saves its records one after the other (`_persist_snapshot`); `RecordsAgree` takes the store to save them all or none.

**Abstractions.** Threads share nothing but the identifier generator: one thread. Payloads are classes.
Interrupts are kept per node, the latest one: the code looks at no other. Order of ready nodes is kept only as
far as the code fixes it (`Listings`): a Python set has none. Events and checkpoints are written and never read back by the
scheduler: left out here. The state store is the variables, and a commit is one step; section 4 takes it apart.

**What an exception strands.** When an executor, or the selection of its input, raises (`NodeRaises`), the code writes
nothing: the run stays `running`, the node `running`, and the thread is held until somebody cancels. The model has this
behaviour and the properties hold with it. It is a weakness rather than a contradiction of a document, so it is stated here and
not as a run.

**Where workflows come from.** `WorkflowCompiler` is `compile`: `Compiles(d)` is what it lets through (the checks of the dataclasses, edges, terminal
conditions, joins, cycles) and `Compiled(d)` what it makes of it. The runs give `Runtime` compiled definitions of `Workflows`, whose `CompilerAssumption` says
that each of them is let through and that small mistakes in them are not. Its search for cycles is compared with the definition of a cycle over all graphs of three
nodes (`SearchAssumption`), its order of versions with that of tuples (`VersionAssumption`). `StaticVerdict` of `NodeExecutors` is the policy engine that answers from a table.

**Fairness.** A loop runs on the thread of its caller and blocks only in executors. `FairSpec` has weak fairness
of the loop's own steps, with the executor's answer or exception among them; nothing obliges a client to call.

## 4. Commits

`StateReducer` is `core/state/reducer.py` as operators: `Reduced(snapshot, patch)` merges a patch into a snapshot and raises the
version of every record it touches, `Refused` says when the reducer raises. `RunCommits` is what the runtime does with them.

**State.** `store` is what the state store has of one run and its thread, `events` the numbers of the run's events, `checkpoints` what
each checkpoint names, `caller` where a thread of the program stands in its call, with the snapshot it holds.

**Actions.** A commit is `SaveSnapshot`, `NumberEvents`, `CheckBatch`, `AppendEvent` (once per event), `NoteLastEvent`, `SaveSnapshot`, `ReadSnapshot`,
`ReadCursor`, `CreateCheckpoint`, `SaveSnapshot`: every call of a store a step, and between two of them any step of another thread. The
loop is `Decide`, `StartNode`, `ExecutorReturns`, `ExecutorRaises`, `MarkFailed`; the calls are `CancelRun` and `ResumeRun`. An exception ends the
call and leaves what was done: a batch of two events may be half appended.

**Who the threads are.** The console builds its own in-memory stores for each request, so that nothing is shared there. The threads here
are those of a program that embeds the service, as `RuntimeService` in its constructor allows: they share one store and one emitter and no lock.
Nothing in the stores holds the interpreter through a sequence of calls, and the executor that a loop waits for takes seconds.

**What breaks and what does not.** Two threads read one version of a snapshot and both save: the later overwrites the earlier. The model
reaches this (a node cancelled by one is `running` again by the other), and so it is stated as a disagreement in section 12 and as no property. What does
hold is that the log has no gap and no repetition, and that a checkpoint names no earlier event than the state in it.

`ResumeRun` checks the status when it begins and saves in a later step, so that two calls may both pass the check and two loops run; the run `commits` has a single call
besides the loop and does not reach that, the theorems of `CommitProofs` hold for any number of calls.

**Abstractions.** A snapshot is read and saved record by record in the code and in one step here, and so what a call interrupted among the records leaves is not
modelled: no property of this module relates two records of a snapshot. (`RecordsAgree` of `Runtime` does, under the assumption stated there.)
Payloads are left out. The workflow has unconditional edges, the default join, `MaxParallel` slots and no terminal condition of its own;
`Runtime` has the other edges, joins and conditions. `Decide` dispatches a batch of `Batches`, or settles the run as the scheduler does; a node
of a batch starts, or has no executor (`NoExecutor`), or its input cannot be selected, which ends the loop.

## 5. The playground

**State.** `session` and `message` are the rows of the chat tables, `task` is `_session_tasks`, `call` the request
thread of a submission, `worker` the position of a task's worker thread, `reports` the progress reports made,
`page` the React state of the page together with its effects (`armed` is the task the polling effect was
armed with, `due` whether a rendering is pending, `answers` the responses on their way), `restarts` a counter.

**Actions.** One action per section under the task lock (`Enqueue`, `Begin`, `LogBegin`, `LogEnd`, `Finish`,
`LogFailure`, `Fail`, and the two halves of a progress report), per database transaction (`ResolveSession`,
`CreateLatest`, `SaveUserMessage`, `SaveReply`, `Rename`, `DeleteSession`) and per reaction of the page (`Submit`,
`PageRenders`, `Poll`, `PollReturns`, `RefreshReturns`, the session handlers). `WorkerRaises` is any exception
on the way; `Restart` loses tasks and threads and keeps the tables.

Messages are told apart in two ways: those in `Blank` are empty or white space, which the keyboard shortcut of the composer sends although the button would
not; such a message is answered like any other and its text is not stored (`agent_playground_service.py:570`). Those in `PageTask` the page may send, those in `ClientTask` another client of the API.

**Abstractions.** Replies are not blank (a blank reply is stored as none); titles and the order of sessions are left
out, and which open session is the latest is a choice; the snapshot a poll reads and the response that carries
it are one step, delivery a later one, in any order; all sessions belong to the page's one agent. Two identifiers drawn
from clock and random bits do not collide.

**Fairness.** Threads run, a turn ends, the browser renders, its interval fires and responses come. Users and restarts
owe nothing.

## 6. The agent loop

**State.** `turn` is the request with what was parsed from it, `recalled` the memory loaded for it, `saved` the target files of all
snapshots, `step` and `at` the loop, `decision` the adjusted decision, `trace` the calls made in this
turn and what came of them, `files` the workspace, `turns` and `changes` counters for the bounds.

**Actions.** `BeginTurn` (up to the loop), `Decide` (a suggestion of the model through the policy), `DecisionFails`, `CallTool`,
`Finalize` (after the last step), `Conclude` (the memory snapshot) and `FileChanges` (somebody else; it is enough to let it happen before
a call, since only calls look at files).

The policy chain is one operator per rule, applied in the code's order:
`Normalized` → `Redirected` (by `Preferred`) → `Focused` → `Previewed` → `Gated` → `Unrepeated` → `Tired`, together `Adjusted`.

**Abstractions.** Of a file, the number of occurrences of each fragment that structured edits look for. A number a call expects is what the tools read of it; that it was
sent as text, which the tools convert and the policy takes for none, is its field `quoted`. What `EditsArePreviewed` says of numbers, and all of `PreviewPredicts`, is about numbers sent as such. A
turn carries what was parsed from the message: the call that the wording alone asks for (`direct`), the edits
it spells out, the path, the hint. Of several hints only the first counts in the rules modelled. New text is not told apart.
Tools that behave alike are one: directory and symbol tools are like `list_files` or `read_file`.
`move_file`, `write_file`, redacted inputs and the validation plan are left out. Retrieval finds any earlier snapshot or nothing.
With the full set of tools bound, quoted text is always taken as a search pattern, so directives are reached only by agents with fewer
tools: the instance has both.

**Fairness.** Invokers of models and tools return or report a failure: weak fairness of the loop.

## 7. The education pack

**State.** A case of `education/evaluation` fixes the workflow, what the learner hands in (`EvaluationCase[case].seed`) and which nodes must complete. `status`,
`input` and `artifact` are what a node's state keeps, `matched` the answer of the condition node, `run` the run's status (or `raised`,
when a selector finds no source), `verdict` the score. A payload maps the fields it has to who wrote them and what they say.

**Actions.** `RunNode` is a node from selecting its input to its artifact: `NodeSucceeds` with one of `Outputs`, or `NodeFails`; `JudgeCase` is
the scoring. The order of branches is free, as the scheduler leaves it. When a node has succeeded `Decide` says what the scheduler finds: something
ready, the end, or neither, and then the run fails for want of progress (`NO_PROGRESS`; the status `stuck` keeps that failure apart from the others). `Merge` is `_deep_merge` over the sources of the selector, in
their order: a field has the value of the last source that has it (`LastHaving`). `Ready` is the default join over the edges of `EducationWorkflows`.

**Abstractions.** Joins, stops and resumes are Runtime's. A model answers any object with the keys it was asked for and any of
`Volunteers`, or fails. The tools know the skills their tables know. Text is not told apart, except skills and the mastery signal.

No fairness is assumed: that a case does not get stuck is the invariant `CasesProgress`.

## 8. Resources and skills

**State.** `registry` is the registry document, `capability` the document of each agent, `disk` the directories made, `call` what a request
has read and where it is, `offer` what the last session of an agent was given. Two are history: `alone` says that no two requests overlapped and none was cut short,
`trusted` which skills were ever chosen for which agent in a mode that waits for no confirmation.

**Actions.** A request begins with its first read (`Begin`), goes on step by step and ends with its last write. Between two
steps any other request may step: `ThreadingHTTPServer` gives each a thread, and `ResourceRegistryService` has no lock. `Change` is root,
skill, source and server; `Scan` and `SaveScanned` a synchronization; `Place`, `CannotPlace`, `ReadToTell` and `Tell` workspaces and provisioning;
`Listed`, `ReadEntry`, `ReadForTools` a discovery; `ReadSnapshot`, `Submit`, `ReadToDistribute`, `Distribute` a page that shows a snapshot, a user that
changes one of its lists and the save; `SaveForm` the capability form. A session takes three readings: the snapshot of the page's request (`ReadSnapshot`), the capability once more (`ReadBindings`),
after which the code reads the other agents, and builds services and session; `Describe` is where they are there. `Dies` ends a request anywhere, `Restart` the process.
What each operation makes of a document is an operator of `ResourceRegistry`, and what a session is given one of `SkillRuntime`. Which skills a request activates is left
out: the prompt, the list of skills and the approval gate ask one function (`resolve_active_skill_packages`), and there is nothing between them that could differ.

**Abstractions.** A document is read and written in one transaction (SQLite). A server's address is an endpoint with the tools it lists; a
skill keeps what decides its activation; a source holds skills (`Holds`). Names do not collide. `MaxRequests` bounds the requests.

**Lost updates.** Two requests that read the registry at the same time lose the update of the first to write; the model reaches that. The properties
therefore say what holds in spite of it (`WorkspacesAreReady`, `UntrustedSkillsAsk`), or what holds of a request
whose reading nobody has outdated (`OnlyItsOwnPart`, `AccessSaveKeepsRest`), or of requests one at a time (`WorkspacesReachAgents`, whose premise excludes a provisioning that fails in between). How current a session is, no property says: a mode changed
after the second reading is not seen by it.

## 9. Servers and tools of a session

**`ServerAuth`.** `file` is the token file (missing, whole, or torn between opening it for writing and having written), `flow` the requests to
authenticate, `listener` and `queue` the callback servers and the one answer each holds, `redirected` the flows whose sign-in page can send the browser back. The
steps of a flow are those of `MCPAuthService`, `OAuthCallbackWaiter` and `FileMCPTokenStorage`; the OAuth client between them is a library and is modelled by how
it calls back: it asks with the token it has, registers, redirects, waits, exchanges the code, stores the token, asks again. A browser may answer
late, twice, never, or at a port that has another owner by now; a stranger may come to any port; the process may die anywhere.

*Fairness.* Weak fairness of `Serves(f)`: a flow runs on a thread of its own, its wait for the callback ends after 300 seconds, and the client
library's requests have timeouts. Browsers owe nothing.

**`SessionTools`.** `session` is what the agent was told (`shown`) and what was built for it (`built`), two readings of the registry; `tree` is the
workspace; `answer` what the last call gave. `Describes` is `runtime_descriptors`, `Builds` and `CannotBuild` are `MCPRuntimeFactory.build`; `Calls` is a call on its
way through observation, policy, routing and adapter, and ends at `Refused`, `Unhandled`, `CallsServer` or `CallsFile`. `WorkspaceFiles` is what
the file tools of the workspace server make of a tree. `DirectoryChanges` makes or removes the directory under a session.

## 10. Runs

| run | instance | what it shows |
|---|---|---|
| `review_alone` | agent (which may also wait without asking), human gate, tool behind a policy, merge; two runs; calls one after the other; executors may raise, workflows may vanish | every stop can be answered, gates hold, a finished run is frozen, the thread has exactly the live run, and Runtime implements RunLifecycle |
| `fan_concurrent` | seven nodes, conditional edges, quorum, any_success and all_done joins, an unavailable node; batches of two; callers while executors run | node lists, node states, frontier and pending interrupts agree; a stopped run has nothing ready; no node starts again when it is over, or after a failure |
| `review_liveness` | the review workflow, one run, executors that answer, callers any time | loops return, ready nodes are served |
| `playground` | a page and another client, two messages, one of them blank, both under way at once, one session, failing database | outcome, log and tables of a task agree; what is shown is stored |
| `playground_page` | one message of the page or of another client, two sessions, a progress report, two responses in any order, one restart, failing database | what is shown is stored; tasks and polling end |
| `late_failure` | three runs, one node, callers any time | expected to fail: a second live run (section 12) |
| `commits` | one run of one node (no edge, one slot), two threads, one call, no start after five events; 1.5 million states | the log is dense, checkpoints cover their state |
| `education` | the four evaluation cases; three skills, one of which no table knows; two fields a model may add | inputs are there, the learner is graded, a passed case took its path, no case ends for want of progress |
| `resources` | two callers (symmetric), three requests of any kind, a new and a used registry, restarts | workspaces exist and are told of, no session has a skill in a mode nobody chose, saves keep to their part |
| `servers` | two flows, two servers (one that knows clients by their port), two ports | tokens of a quiet file are the last ones got; flows end |
| `session_tools` | three registries (names of one reference, a disabled server, a name twice), three paths, two texts | calls go where offered; changes are declared, recorded and never unconfirmed |
| `agent_loop` | two turns out of seven kinds, one file under two names, another that is missing, four suggestions, one change by somebody else | edits are ready and previewed, previews predict, calls are bound, exploration is bounded, turns end |

**Bounds.** Runs: a second run is what a first can be confused with; a third only serves `late_failure`. Runs are
symmetric. Workflows: four to seven nodes hold every join, condition and node type the selectors tell apart, two
branches of different length, and a batch with a node left over. `MaxParallel` is 1 or 2: one slot and a
batch whose first node spoils the second. Playground: a second message is what the first interferes with, and the page may follow it while the
first is under way; the agent's last report alone gives every order of the two lock sections, and `playground_page` has one before it; two responses are the least that can be out of order;
one restart may hit every step; a page moves between two sessions in `playground_page`, and its one session comes and goes in `playground`. Agent loop: a second turn is the least that remembers; two occurrences are the least
that an edit which wants one refuses, and the model of the instance sends its one as text; one failure of an invoker (`MaxDenials`) besides those tools report themselves;
one change (`MaxChanges`) between preview and edit. `MaxSteps` = 4 is the code's. Commits: two threads are the
least that overwrite; one call besides the loop is a cancel or an answer at every step of it; `MaxEvents` holds no commit back, it only starts no further node,
and five reach a node that ran, asked, was answered and runs again. Resources: two requests overlap, and the third reads what they left. Servers: the second
flow overwrites or inherits the first one's token. Session tools: a registry of two servers is the least in which a name occurs twice. `CHECK_DEADLOCK FALSE` stands where the system
may stop: all runs over, all messages sent, all turns taken.

The instance of `agent_loop` suggests no deletion, command or diff (a patch changes and deletes files already); the theorems cover them.

## 11. Proofs

Theorems hold for every value of the constants that the named assumptions of the modules allow:
any finite workflow, any set of runs, any parallelism, any answers of executors, callers at any time or not (`WorkflowGraph`, `NodeExecutors`, `Runtime`), any messages,
sessions, page and bounds (`Playground`), any paths, tools, turns and suggestions (`AgentLoop`), any number of threads, nodes and calls (`RunCommits`), any agents, resources,
forms, stored documents and requests (`ResourceManager`, `StoredAssumption`: the store's first content gives no agent a workspace and calls no root provisioned), any flows,
servers and ports (`ServerAuth`), any registry of servers, references, paths and texts (`SessionTools`, `WorkspaceFiles`), any skills and any fields
that a model adds unasked (`EducationPack`, `SkillAssumption`: the skills the cases name are among them). What the assumptions say, the compiler, the schemas
or the parsers guarantee. Premises of single theorems are in the table.

| theorem | says | by |
|---|---|---|
| `RuntimeProofs!TypeCorrect` | Spec => []TypeOK | each action keeps the types; lists the scheduler hands out are lists of nodes |
| `RuntimeProofs!RecordsAlwaysAgree` | Spec => []RecordsAgree | every action patches both records or neither; holds with callers at any time |
| `RuntimeProofs!ThreadExclusive` | ~Concurrent /\ Spec => []OneLiveRunPerThread | `AloneInv` |
| `RuntimeProofs!TerminalFrozen` | ~Concurrent /\ Spec => TerminalRunFrozen | `AloneInv`: an executor works for a run that is running |
| `RuntimeProofs!RuntimeImplementsLifecycle` | ~Concurrent /\ Spec => Lifecycle!Spec | each action is a step of RunLifecycle or a stutter, under `AloneInv` |
| `RuntimeProofs!SchedulerListsSound` | Spec => []NodeListsSound | `RunsSound`, which holds of each run alone: one lemma per step of a run |
| `RuntimeProofs!FreshNodesStart` | Spec => OnlyFreshNodesStart | `RunsSound`: what is left of a batch is still in the frontier, or is not taken |
| `RuntimeProofs!StopsAreDrained` | Spec => []StoppedRunIsDrained | `DrainedInv`: a loop stops where nothing is ready, and no loop is at work there |
| `RuntimeProofs!StopsCanBeAnswered` | Spec => []StopsAreAnswerable, if agents ask only while they wait or are blocked | `AnswerableInv` |
| `RuntimeProofs!GatesAlwaysHold` | Spec => []GatesHold, if no gate leads back to the entry | `GatesSound`: what may be taken next has its gates behind it |
| `AgentLoopProofs!TypeCorrect` | Spec => []TypeOK | the step counts the calls; every tool answers with an entry |
| `AgentLoopProofs!CallsAreBound` | Spec => []OnlyBoundTools | rule by rule: a substituted call is bound or the rule does not apply |
| `AgentLoopProofs!EditsFollowLooks` | Spec => []EditsAreReady | `DecisionReady` |
| `AgentLoopProofs!EditsFollowPreviews` | Spec => []EditsArePreviewed | `DecisionPreviewed` |
| `AgentLoopProofs!ExplorationIsBounded` | Spec => []BroadIsBounded | `PolicyInv`: a broad call is decided on only while there is room for its answer |
| `AgentLoopProofs!PreviewsPredict` | Spec => []PreviewPredicts | `PolicyInv`: previews count right, and the one that let the edit through counted as many as the edit expects |
| `CommitProofs!LogIsDense` | Spec => []NumbersAreDense | `LogInv`: a caller's next number is at most one more than the log is long |
| `CommitProofs!CheckpointsCover` | Spec => []CheckpointsCoverTheirState | `CoverInv`: every snapshot stored or held names an event that is logged and a checkpoint that exists |
| `ResourceProofs!WorkspacesExist` | Spec => []WorkspacesAreReady | `RegistryInv`: what a request holds and may write is sound for the directories there are, and directories only grow |
| `ResourceProofs!WorkspacesAreTold` | Spec => []WorkspacesReachAgents | `AloneInv`: agents that are not told yet are on the list of the one request |
| `ResourceProofs!RequestsKeepTheRest` | Spec => OnlyItsOwnPart | what each operation makes of a registry, under the types that `RegistryInv` keeps |
| `ResourceProofs!AccessIsSavedAlone` | Spec => AccessSaveKeepsRest | `DocumentsInv`: which servers and skills there are when a list is saved |
| `ResourceProofs!UntrustedSkillsWait` | Spec => []UntrustedSkillsAsk | `ModesInv`: every capability and package stored, held by a request or given to a session has modes from `trusted` |
| `AuthProofs!TokensStay` | Spec => []TokensAreKept | `AuthInv`: what the one flow has read, got and not yet stored |
| `SessionToolsProofs!WritesAreDeclared` | Spec => ChangesAreDeclared | the handlers that leave another tree are those whose descriptor says that they write |
| `SessionToolsProofs!OfferedToolsAnswer` | Spec => []CallsGoWhereOffered | `RoutingInv`: one descriptor per reference, and the call is answered by the handler of its descriptor |
| `PlaygroundProofs!TypeCorrect` | Spec => []TypeOK | `PlaygroundInv` |
| `PlaygroundProofs!EndsGetTold` | Spec => []EndsAreTold | `PlaygroundInv`: where a worker stands says what its task's status, log and result can be |
| `PlaygroundProofs!ExchangesAreKept` | Spec => []ExchangesAreWhole | `PlaygroundInv`: a reply is saved only after its question, and a result set only after both |
| `PlaygroundProofs!ShownIsKept` | Spec => []ShownIsSaved | `PlaygroundInv`: every response under way and the page tell results that were stored when they were set |
| `EducationProofs!TypeCorrect` | Spec => []TypeOK | `EducationInv`: what is merged from payloads, and what agents and tools make of one, are payloads |
| `EducationProofs!SourcesAreReady` | Spec => []InputsAreThere | `EducationInv`: a node that left pending has the sources of its edges behind it |
| `EducationProofs!LearnersAreGraded` | Spec => []ReviewGradesTheLearner | `EducationInv`: who wrote what in the artifacts that a review merges, and which of them come last |
| `EducationProofs!PathsAreTaken` | Spec => []PassedTookItsPath | `EducationInv`: a branch of the decision is as the review said |
| `EducationProofs!SomethingIsReady` | Spec => []CasesProgress | `EducationInv`: whatever has succeeded so far and however it was decided, a node of the taken branch is ready or the end is reached |

**Why the invariants need strengthening.** `OneLiveRunPerThread` is not inductive: a step that ends a run must know that
the run it ends is not over already. `AloneInv` adds that an executor works for a run that is running: nobody could cancel it meanwhile.
That is true only while calls come one after the other, which is why the theorem has that premise, and `late_failure` shows it is
needed. `EditsAreReady` speaks of calls that were made, and nothing in it says why the
next one may be made: `DecisionReady` says that a decision to edit has passed `_edit_readiness_status`, and that nothing between the decision and the
call (a change of files by somebody else) can undo it, since readiness depends on the trace and the request alone.
`DecisionPreviewed` is the same for previews; its heart is that the first matching preview exists and that it is of the same
edit (`AdjustedIsPreviewed`). `CallsCounted` ties the step to the length of the trace.
`NumbersAreDense` is about the log and says nothing of the batch a thread is in the middle of: `CallersBound` says that the number it will append next is
a natural number no greater than the log's length plus one; others can only make the log longer, and then the store refuses the number. `CheckpointsCoverTheirState` is about checkpoints that were made; `CoverInv` says of every snapshot, stored, being
saved, kept for `MarkFailed` or read for a checkpoint, that its last event is in the log, and of a checkpoint about to be made that its cursor was taken after its state. `WorkspacesAreReady` is about the registry that
is stored, but the next one stored is what some request read long ago: `CallsHeld` says the same of every registry that a request holds and may
still write, against the directories of now, which is enough because no request removes a directory.

`NodeListsSound` (of the scheduler's lists) looks at the lists only; `RunsSound` adds what the loop still holds: that while the run is not over what is left of a batch
waits in the frontier, that at most one node is active, the one in the executor, and that this one is neither in the frontier nor asked about. It speaks of each run alone, so that a step
of one run leaves the others' parts untouched, and it needs no premise about callers. `StoppedRunIsDrained` needs that no loop is at work on a run that stopped (`DrainedInv`),
otherwise a late answer could make a node ready. `StopsAreAnswerable` needs the same of runs that are still running: an open question belongs to a node that waits (`AnswerableInv`).
Its premise `AgentsWaitToAsk` is one about agents: one that asks and claims to have succeeded would leave a question nobody can answer, because `resume_run` refuses the frontier
with a completed node in it. The result type allows such an agent, no agent of the repository asks anything, and the answers of `review_alone` satisfy it. `GatesHold` has the
premise `Gated(Entry) = {}`: `start_run` readies the entry unasked, so the gate of a workflow whose gate leads back to its entry cannot hold the entry's first run.

`BroadIsBounded` is kept by `DecisionHasRoom`: `Tired` looks at the adjusted call, and the one rule that puts another broad call in after it (the gate of edits, which asks for
a listing) does so only when nothing was listed yet. `PreviewPredicts` needs that each preview counted what it was asked to count (`PreviewsCountRight`) and that
the decision passed the comparison with the first preview that matches (`DecisionAllowed`).

`WorkspacesReachAgents` says something only when every request is done; `AloneInv` says of the one request there may be which agents it still has to tell (`Untold`), that the
registry it holds has the workspaces of the stored one, and that the capability it holds has the agent's workspace, so that saving it loses none. `DocumentsInv` gives the types of what
requests hold, which `AccessSaveKeepsRest` needs. `UntrustedSkillsAsk` is about sessions made; `ModesInv` says the same of what they are made from, the capabilities stored and
those that requests hold and may still save or give, however old. `TokensAreKept` says something only when no flow is busy; `AuthInv` follows the one that is:
the items it holds while it writes (the file is torn then), the step it goes on with, and the token it got and has not stored.
`CallsGoWhereOffered` speaks of a session that was built; `RoutingInv` keeps of it that the registry it was built from had no tool twice, which is what building checks.

`EndsAreTold` and `ExchangesAreWhole` compare a task with the tables; `PlaygroundInv` adds where the worker stands: before it saves the reply there is none, after that the exchange
is whole (but for a blank question), and its status says `completed` before it is done only if the log does (the agent's own last report). It also says that a call which has not started its worker has left no rows, so that no
other task's rows are its own, and that no session is born twice. `ShownIsSaved` is about the page, which shows what a response told: `Told` is what is true for ever once a result
was set, and holds of every response under way; a restart forgets the task and not the tables, so it is stated of the tables.

`InputsAreThere` says that no selector has missed a source; why none will is `Ordered` (what an edge leads from is behind what it leads to) and `DecisionFollowed` (no
branch has begun before the decision, or against it), since some selectors read nodes that no edge joins to them directly. `ReviewGradesTheLearner` speaks of what the reviewer was given;
`Reviewed` says what the five nodes around a review have put out: the designer's and the captured fields, and that the normal form and the rubric, which are merged last, have the skill alone.
`PassedTookItsPath` needs `JudgedAtTheEnd`, that a verdict is only given once nothing moves.

**Only model-checked.** Liveness under fairness (`LoopReturns`, `ReadyIsServed`, `TaskEnds`, `PollingStops`, `TurnEnds`, `FlowEnds`): tlapm 1.4.5 has no rule
for ENABLED. The search for cycles of `WorkflowCompiler`, the one module with RECURSIVE operators; no
module with a theorem reaches it. What the compiler guarantees enters the theorems about `Runtime` as the assumptions of `WorkflowGraph`.

## 12. Where code and documents disagree

`late_failure` is a run that must find its property violated; its quotation is in `PROJECT.json` ("findings").

| where | what happens |
|---|---|
| `late_failure`, AtMostOneLiveRun | a node fails after its run was cancelled; the failure releases the thread of the run started since, and a second live run can start |

Met while modelling, the models have the behaviour, and no run is spent on it:

| code | what happens | what says otherwise |
|---|---|---|
| `src/core/runtime/selectors.py:244` | an edge whose condition cannot hold yet is left out of an all_success join, which then runs before an upstream starts | the name of the join |
| `src/core/runtime/selectors.py:121` | a node that answers BLOCKED without an interrupt is ready at once; the caller's `start_run` never returns | – |
| `src/core/runtime/runtime_service.py:249` | the status is checked and the commit (310-320) made without a lock: of two threads that resume a run both may pass, and two loops execute it | – |
| `src/application/playground/agent_playground_service.py:570` | a blank message, which the shortcut at `ChatComposerBar.tsx:55` sends, is answered and shown, but only its reply is stored | – |
| `shared_impl/policy.py:298` | an expected number sent as text (`operations/descriptors.py:367` declares an integer) is none for the policy and a number for the tools (`operations/workspace.py:77`): a preview that expected another number lets the edit through | – |
| `frontend/workspace/src/pages/AgentPlaygroundPage.tsx:107` | an agent's own last report says completed before the result is published; the page stops polling and never shows it | – |
| `shared_impl/policy.py:384` | the guard against repetition compares the input the model suggested, not the call that a rule put in its place | the name of the guard |
| `shared_impl/state.py:345` | a turn that ends on a listing remembers the workspace as its target file | – |
| `src/core/stores/memory_state_store.py:62` | a save compares no version: of two threads that read one version the later wins | `docs/architecture/core-runtime-design-spec.md:1181` on versions of records |
| `src/core/stores/memory_event_store.py` (`append_batch`) | a batch refused in its middle is half appended | `core-runtime-design-spec.md:898`, all or nothing |
| `_build_runtime_services`, `build_mcp_server_catalog` | a session is offered every tool of a bound server | `docs/architecture/agent-capability-v1-design.md:96`, bound tools |
| `external_mcp_client_service.py:268` | a server that was authenticated is asked without its token by later sessions, which never read the token file | `McpManagerWorkspace.tsx:233` |
| `src/core/tools/mcp.py:49` | a server that lists one name twice makes every session fail, of whatever agent | – |
| `src/core/tools/mcp.py:101` | the failure of an external tool (`is_error`) counts as a success | – |

## 13. What is not modelled

Wording, formats and layout throughout. Descriptors of the domain packs (constant data). Services outside the repository: models, servers of
tools, the browser, the file system's own failures. The components marked not_modelled in `PROJECT.json` are sequential and keep no
state of their own (adapters, bindings, views, command line), or are planned below. Of the pages, the submission and polling of the playground and
the lists of what an agent may use are modelled, the forms of the others are not.

## 14. Plan

1. That what `WorkflowCompiler` lets through satisfies the assumptions of `WorkflowGraph`, for every definition.
2. The configuration and case pages: late responses over edits. Hand-offs between the workflows of the education pack.
3. An abstract specification of the token file and of the registry: a map in which an accepted save is found until the next, refined by requests one at a time.
4. Proofs: every invariant and action property of the passing runs is a theorem; what is left is the refinement of item 3, step by step.
