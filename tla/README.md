# TLA+ models of koboldcpp-sandbox

koboldcpp-sandbox is a local server around LLM and image back ends. Its Python
package (`src/kobold_sandbox/`) holds a FastAPI application, several small
workflow runtimes that drive KoboldCpp and ComfyUI, editable "behavior trees", a
file store with a git history, a chat workspace made of files, and solvers for
logic puzzles. This directory holds TLA+ modules of the parts where threads, HTTP
requests, callbacks and crashes meet, and of the algorithms whose order of steps
matters; TLC configurations that check them on small instances; and TLAPS proofs
that hold for every instance.

Paths below are relative to `src/kobold_sandbox/` of the repository unless they
start with `docs/`, `tests/`, `tools/` or `root/`.

| module | content | run |
|---|---|---|
| `GatewayRuntime` | the workflow-v3 job gateway: jobs, deques, dispatch threads, endpoint locks, events, all_done handlers | |
| `GatewayRuntime_proofs` | proofs about it | |
| `MCGatewayShared`, `MCGatewayFlow` | its instances | `race`, `cancel`; `solo`, `settle` |
| `BehaviorStore`, `MCBehavior` | the behavior tree under edits (revisions, If-Match, merge) and background runs | `behavior` |
| `DataStore`, `MCDataStore` | namespaces on disk, schemas, contracts, revisions, git, crash and restart | `store` |
| `DataStore_proofs` | proofs about it: a revision that was answered stays in the history | |
| `PChat` | the chat workspace: channels, numbered messages, logs, pages, restart | |
| `UiTree`, `UiLayout`, `UiProject`, `UiPanels` | the documents of the drawing prototypes and their operations | |
| `UiServer` | their routes: load, undo, save, crash | |
| `MCPages` | instance of both kinds of page | `pages` |
| `AsmMachine` | the instructions of the assembly DSL | |
| `AsmSync` | what a program means: every generation answered at once | |
| `AsmRun`, `MCAsm` | how it is run: a pool of threads, futures, endpoint locks; implements `AsmSync` | `assembly` |
| `AsmRun_proofs` | proofs about it: exclusion of an endpoint and the implementation of `AsmSync` | |
| `LlmCall` | one call of a model: what is retried, what is continued, what is asked again | |
| `AtomicScope`, `MCAtomic` | the steps of an atomic scope, its loop over messages, with `LlmCall` in every step | `atomic` |
| `AtomicScope_proofs` | proofs about it: which steps a pass runs | |
| `WorkflowRun`, `MCWorkflow` | the interpreter of workflow v2: blocks, parallel branches, child contexts, watchers, triggers, progress | `workflow` |
| `WorkflowRun_proofs` | proofs about it: what a polling client is shown | |
| `WorkflowMeaning` | what a workflow computes, read in order | |
| `ReactiveTask`, `MCReactive` | entities, event cascades, a run and its verifier, clients meanwhile | `reactive` |
| `Puzzle` | clues, placements, and which of them are solutions | |
| `StateGraph` | the state graph's domains, planner, expansion and three drivers | |
| `PuzzleEngines`, `MCPuzzle` | the sieve and the permutation engine; instance of both | `puzzle` |

`PROJECT.json` lists, for every definition that models code, the lines it
models; every run and what it checks; for every property of a passing run a faulty
variant of some definition (an operator announced by a comment `Faulty`), with which
TLC refutes the property; and the hazards with the properties that watch them.

## 1. Inventory

"Partly" means that the state and the operations named here are modelled and the
section of the module says what is left out.

### Gateway runtime (`gateway_runtime.py`, routes in `server.py`): partly
*State*: `_jobs` with status and `_retries_left`; one deque per worker role;
one lock per endpoint URL; one dispatch thread per role, started on demand;
`_all_done_subs`; results in `state` and `_wf_ctx`; the event log.
*Operations*: `from_yaml`, `enqueue`, `cancel`, `shutdown`, `_dispatch_loop`,
`_fire_event`, `_check_all_done`.
*Interaction*: the event-loop thread of the server enqueues and cancels; a
dispatch thread runs handlers, which enqueue jobs for other roles, whose threads
are running already. The three locks (`_jobs_lock`, `_queue_lock`, endpoint)
each guard one statement, and several decisions span two of them.
*Hard*: check-then-act between threads, order of "done" and "stored", handlers
that raise, retries, shutdown.
*Correct when*: an endpoint serves one call at a time; a job is in one place and
never lost; attempts stay within `retry + 1`; handlers run once, after all they
wait for, with its results; settled jobs stay settled; every job settles.

### Behavior trees (`behavior_orchestrator.py`, `server.py` 445-1119): partly
*State*: a tree and its nodes, each with a `revision`; per document the last 20
snapshots; per node its last saved form; `_run_status`.
*Operations*: GET, POST, PATCH of the tree and of a node with If-Match and
`merge_on_conflict`; `run_node` in a background thread.
*Interaction*: routes are plain functions in FastAPI's thread pool, a run is one
more thread; nothing is locked.
*Correct when*: an accepted edit is not undone by somebody else's edit of another
path; a stale edit is refused or merged; an ETag identifies the contents; a run
reloads what was last accepted.

### Data store (`data_store/`) and data revisions (`atomic_data_revision.py`): partly
*State*: one JSON file per namespace, `_meta.json`, a git repository around them.
*Operations*: create, put, remove, set_schema, drop; contracts, instances,
proposals; commit, rollback, checkout, branches; `commit_revision`.
*Interaction*: routes in the thread pool, each a list of load, change and
`write_text`; git commands are processes that share one index.
*Hard*: a crash between two files or inside `write_text`; a commit of somebody
else's half-done work; a request refused in the middle.
*Correct when*: what was answered is on disk and valid; meta and files agree; a
revision's commit holds it; a server comes up again from whatever a crash left.

### Chat workspace (`server.py` 4800-6760, `root/templates/`): partly
*State*: a directory per channel with numbered message directories and a log of
children; one selection and one page window shared by all users; console scopes.
*Hard*: numbers chosen before the directory is made; a message is a directory, two
files and a log line; pages cut by position while posts go on; crash; reset.
*Correct when*: no message takes another's place; a listed message is whole; a
client that pages back sees all.

### Assembly DSL (`assembly_dsl.py`) on the workflow context (`workflow_dsl.py`): partly
*State*: registers (values or futures), chats, loop and call stacks; a pool of eight
threads; endpoint locks. *Hard*: a generation is read long after it was given.
*Correct when*: the program computes what it would without a pool; an endpoint
serves one at a time; everything ends.

### LLM calls and atomic scopes (`llm_continue.py`, `server.py` 2411-2760): partly
*State*: the text so far, the messages with the prefill, counters of retries; the results of the
steps done, the context that grows. *Interaction*: every step of a scope is a call; the loop
route runs a scope once per message, or the passes of a loop. *Hard*: a broken connection in the
middle of an answer put together from pieces; steps given in any order.
*Correct when*: what is asked is the rest of what was begun; every step that can run runs, with the
results it waits for; every call comes to an end.

### Workflow v2 (`workflow_dsl.py`, `/api/workflow` routes): partly
*State*: variables, chats and entities (shared by reference), triggers, watchers; the thread of
reports, progress and status of a run. *Interaction*: a run has its thread and a pool for `parallel`;
clients poll. *Hard*: branches share everything; exceptions end some blocks and not others; a watcher's
result wakes another. *Correct when*: the values are those of a reading in order; a client that polls
sees every report once; watchers are all run when their inputs are there; a run ends.

### Reactive tasks (`reactive_entity.py`, `reactive_runner.py`, routes): partly
*State*: entities and properties, event depth, a run flag, constraint lists.
*Hard*: listeners that set each other off; copies written back; a flag read before
an `await` and set after it. *Correct when*: cascades end; each entity ends done or
failed; the list of values to avoid is complete.

### Drawing prototypes (`ui_proto/`, `ui_proto_reactive.py`, `ui_proto_panels.py`, routes): partly
*State*: a document in several files; an undo stack in memory. *Hard*: an edit is pushed, tried, popped or saved; the
order of a dictionary decides the order of children; a save is many files. *Correct when*: what is answered is what is
loaded next; an undo takes back one edit; the tree stays a tree.

### Puzzles (`core/state_graph.py`, `core/schema_engine.py`, `cases/einstein/`): partly
*State*: snapshots derived clue by clue; a grid that sieves strike values from.
*Hard*: every order of derivation must be sound. *Correct when*: no solution is
lost, the fixpoint does not depend on the order, and the engines find exactly the
placements that the validators accept.

### Not modelled
| component | why |
|---|---|
| Kobold client (`kobold_client.py`) | formats requests; its one decision is the autodetection of an API |
| Expression functions of workflow v2 (`workflow_dsl.py` 660-1480) | pure functions of their arguments, over text and tables |
| Sandbox storage, git backend (`storage.py`, `git_backend.py`) | a snapshot and then a commit, in one request; the same shape as `commit_revision`, which is modelled |
| Assertion engines (`logic_manifest.py`, `constraints.py`, `rule_*.py`) | evaluation of one manifest in one call, by Python expressions of the manifest |
| Event and macro DSLs | interpreters whose state is the data of one call |
| Annotations, wiki, pipeline store | CRUD: load, modify, save of one JSON file, without git or contracts |
| Jupyter layer | a wrapper around an external kernel |
| Chess and checkers solvers | move generators: what they promise is the rules of the game, a model would repeat them |
| CLI, MCP, proxies, browser UIs | argument parsing, pure I/O; clients of the API, whose requests are the inputs of the models |

## 2. GatewayRuntime

Every thread has a program counter `pc[t]`; one action is the code between two
points where another thread may see or change shared state.

| state | code |
|---|---|
| `status`, `retriesLeft` | `GatewayJob.status`, `_retries_left`; `"none"`: not in `_jobs` |
| `queue`, `lock`, `dispatch`, `running` | `_queues`, `_endpoint_locks`, `_dispatch_threads`, `_running` |
| `subs`, `pos`, `fired` | `_all_done_subs`, the place of a scan, its local list `fired` |
| `stored`, `emitted` | results in `state`/`_wf_ctx`, and the event log |
| `todo`, `cur`, `ev` | what the handler being run still enqueues; the job and event of a thread |
| `attempts`, `ran` | history only: executions of a job, runs of a handler |

`Register`, `Insert`, `EnsureAlive`, `StartThread` are `enqueue` in the order of
its statements; `SkipKnown` its early return; `InstantiateRaises` a template
that raises. `Fire` logs the event and selects the direct and wildcard handlers;
`ScanRunsHandler`, `ScanPasses`, `ScanRaises`, `ScanEnds`, `RemoveFired`,
`RemoveRaises`, `EventDone` are the all_done part of `_fire_event`. `Boot`
through `GiveUp` are `_dispatch_loop`: pop, the status change without a lock
(`Activate`), the endpoint lock, the call, DONE, the result, and the except
clause. `Catch` says where an exception lands: it leaves `from_yaml` or `cancel`,
is caught by the loop's try and sent through the *retry path of the finished
job*, or, from the handler of a "failed" event, ends the dispatch thread.

*Abstractions.* A job is a model value and a handler the sequence of jobs it
enqueues; assembly code, prompts, payloads and interpolation are left out, and an
unknown template is a job not enqueued. A call to a back end returns or raises;
its timeout is an exception. An endpoint is what a lock stands for, a worker's URL (or the name of the role
`comfyui` without one): a ComfyUI job that names a server of its own (`comfyui_server`) calls that one under
the lock of its role, so `EndpointExclusive` says nothing of two such jobs of different roles. Jobs made from a template have priority normal and
no retry, as `_instantiate_template` leaves them (`TemplateAssumption`).
`on_thread`/`on_event` callbacks are taken not to raise, and two jobs with one id
are told apart only as the code does (the second is skipped). There is one Api
thread because the run and cancel routes are `async` handlers of one event loop.
*Bounds.* `Slots` (dispatch threads of a role alive at once), `Cancellable`,
`MayShutdown`; no counter needs a bound, retries are finite.

*Fairness* (`FairSpec`). Weak fairness per thread: a started Python thread keeps
being scheduled, an HTTP call ends by the client's timeout, the ComfyUI poll is
bounded. `threading.Lock` is not fair; in the run `settle` weak fairness suffices
because each holder executes finitely many jobs. Nothing makes a client cancel
or shut down.

*Runs.*
- `race` (207,772 states): two roles on one URL, two dispatch threads each; `a`
  (low, one retry) enqueues `t2` (normal) while `from_yaml` enqueues `t1` (high)
  for the same role; a handler waits for `a` and `t.*`. Two threads per role are
  what `_ensure_dispatch_thread` can start; three jobs are the least with a
  high/normal/retried deque, a family, and a race of two enqueuers. Types,
  exclusive endpoints, sole custody, no lost job, attempts, exhausted failures,
  deque order and "reported implies stored" hold, also after a finished job went
  through the retry path. Slots are symmetric: they are only names of threads.
- `solo` (452 states): one role, hence one thread: a handler runs once, and does run when
  all it waits for is done. What the family's handler enqueues has the suffix of the entity done last (`SubThen`).
- `settle` (9,445 states): two roles on one URL, a role without URL, a template
  that raises, a cancel, a shutdown: every job of a role with a URL settles
  unless the runtime is shut down, and then every thread ends and frees its
  lock. Deadlock is not checked: the system rightly stops.
- `cancel` shows a claim that fails; see section 13.

The clean properties of `solo` are exactly those that several threads break.

## 3. BehaviorStore

| state | code |
|---|---|
| `rev`, `val` | `tree.revision`, `node.revision`; the keys of `node.data` and `tree.global_meta` in memory |
| `saved`, `history` | `meta["serialized_node"]`, `meta["_revision_history"]` |
| `view` | the last response a client holds: document, ETag (revision), body |
| `req` | a request in a pool thread; its locals |
| `run`, `running` | a `run_node` call in its thread; `_run_status["running"]` |
| `last` | history only: the last edit that took effect on a path |

A value is the number of the edit that wrote it, so a lost edit is a wrong
number. A request goes `Send`, (`TakeSnapshot` for a PATCH, which the route merges
*before* it compares revisions), `Accept` or `Reject`, `Update`, `SaveNode`,
`SaveTree`, `Respond`. `Refresh` is `refresh_from_serialized`: it takes revision
and values from the payload. `PersistNode` and `PersistTree` are the two persist
functions; the first moves the tree's revision but not its history.
`Mergeable` is the conflict branch. `StartRun`, `RefuseRun` are the run routes
with `_apply_settings`; `BeginRun` to `EndRun` are `_bg_run_node` and `run_node`,
where every element reloads the node, runs its handler, and persists twice; a
handler may raise.

*Abstractions.* A document is its revision, the values of its paths and, for the
tree, its nodes' revisions; a client edits one path of the document it was last
sent. Adding or removing nodes, elements, claims, the execution lock (it protects
an element's definition, never data), 404s, children run from inside a handler and
`sync=true` runs (they block the event loop) are left out. A GET reads header and
body in one step, and a POST that conflicts reads history and current document
with the comparison.
*Bounds.* `MaxEdits`, `MaxElements`, `MaxActive` (requests and runs in progress at
once), `HistoryCap` (20 in the code).

*Runs.*
- `behavior` (about 478,000 states): one node with two keys and a tree with a task
  and a setting, two clients with arbitrarily stale responses, polls at any moment,
  three edits, one run, histories of two, one activity at a time
  (`MaxActive = 1`). Then no edit is lost, an ETag that matches shows the contents,
  the saved node and its history are current, an accepted edit replaces what its
  client saw, and revisions grow. Three edits are one to make a response stale, one
  to be merged or refused, and one by a handler; two snapshots make the third edit
  drop one. Clients edit global keys through the tree and node keys through the
  node, as the editor in `tools/behavior_tree.html` does for its fields, and do not
  POST with `merge_on_conflict` (`MergePosts`); section 13 says why both
  restrictions are needed. Clients are symmetric.

All four properties are theorems for any number of clients, documents and edits (section 12), under
the hypotheses that the run has too: `Orderly` (the two restrictions) and `Alone` (nothing overlaps,
which `MaxActive = 1` entails). `MaxActive = 1` is the guarantee of the protocol, not of the server: requests are
served by a pool. With `MaxActive = 2` and two threads the guarantee is gone
(section 13).

`Versioned` leaves the run settings out of the properties: `_apply_settings`
writes them without a revision, and even when the run is then refused.

No liveness is stated: a request takes a fixed number of steps.

## 4. DataStore

| state | code |
|---|---|
| `disk` | the namespace files and `_meta.json`: contents, `Absent`, or `Torn` (truncated, not yet written) |
| `index`, `commits`, `head`, `at`, `tip` | git: the index, the commits with parent and tree, the branch checked out (or detached), where HEAD is, the branches |
| `thread` | the request a pool thread serves: its remaining calls, the file it has loaded, its locals; `Starter` is the thread that starts the server |
| `up` | the start-up code has run |
| `promised`, `revisions`, `met` | history only: entries answered with 200 and not touched since, revisions answered, the requests in progress that another one has met |

A route is a list of calls (`Routes`). A call is `Load`, a change in memory
(`Changed`; `Refused` is everything that raises), `Truncate`, `Write` and for a new or
dropped namespace `UpdateMeta`, because `Path.write_text` empties the file before it
fills it. `Bind`, `Propose` are the contract routes; `LogParent`, `AddAll`, `Commit`,
`RevParse`, `Rollback`, `Checkout`, `CreateBranch` the git commands, each a process of
its own; `Locked` is `index.lock`, which makes another command fail. `Crash` stops
everything where it is; `Start` and the `Starter`'s calls are what the server does on
start (create what is missing), after which it serves (`Serving`).

*Abstractions.* A value is a model value with a JSON type (`KindOf`); timestamps, listings,
exports and the HTTP error texts are left out. No client and no schema names a revision's key, which is a uuid, or
the key of the contract, which its route writes (`FreshAssumption`); the namespaces of the contract
routes are four, with `<contract>_data` none of the others (`DataStoreAssumption`).
A proposal's accepted keys are written in the order in which the client has sent them, any order (`Orders`).
Any requests overlap, as in the code, which has no lock. Two that write one namespace, or of which one moves the
tree, *meet* (`Conflict`): each loads, changes and writes the whole file, so the later save undoes the earlier (section
13). The answer of a request that has met another therefore promises nothing (`Respond`); that is a condition of the two
properties and not of the specification. A promise once made outlives whatever meets later.
A commit takes another request's torn file into its tree, and a rollback brings that back and keeps the files that are
newer than the commit. A commit that finds the index clean and a change not staged is git's error, and the route's.
*Bounds.* `MaxRequests` 3, `MaxCrashes` 1, and `LastKinds`: with a crash two requests are sent, without one a third that
writes, records a revision, commits or checks out; two pool threads, so at most two requests at a time.
*Fairness.* Weak, for the start only: the server is started and its thread runs.

*Run* `store` (1,035,216 states): one namespace with a table, a record or a checklist schema, a contract with an
automatic and a manual slot, an existing or a fresh workspace. Every answered entry is on disk until a request
names its key or git moves the tree, unless the file is torn by a crash (`AnsweredIsOnDisk`); one commit brings a revision's entry into
the history, after the parent the entry names, and the commit that was answered holds it (`RevisionLineage`);
and the server comes up from whatever was left (`ComesUp`). Two overlapping requests and a crash are the least
with a half-written file inside a commit; three requests without one are the least with a promise made first
and two after it that meet over it, on its namespace or by moving the tree.

## 5. PChat

| state | code |
|---|---|
| `channel`, `slot`, `children` | the channel directories, `msg_<n>` with `_meta.json` and `_data.json`, `_children.jsonl` |
| `selected`, `scope`, `window` | `channels_selector/state.json`, the cwd of each console scope, `current_channel_messages/state.json`: shared by all users |
| `thread` | a request in a pool thread and what it has read |
| `walk` | a client that pages back; `must` is what it has to see |
| `stamp` | history only: numbers messages, so that a message that took another's place shows |

Every step is one read or write of a file. `ReadName`, `ReadDir`, `EnterScope`,
`ChooseSlot`, `MakeSlot`, `WriteMeta`, `WriteData`, `AppendRef` are a post, by the chat
route or by a console command through the template `post.py`; `ReadData`, `ReadAgain`, `OpenData`,
`WriteBack` a patch or a reaction, which empties `_data.json` before it writes it; `MakeChannel`, `TypeChannel`, `Select`, `ScopeSelect`,
`Up`, `RemoveSlot`, `Reset` the other commands; `SetTableWindow` and `Materialize` with
`LoadChildLog` a page. `Restart` is a crash: the requests are gone, the files stay.

*Abstractions.* Contents are which message they belong to, and who reacted. "delete" has the
control of "patch" and is not sent. Audit logs nothing reads, the materialised-state cache and
the other templates are left out. A new message's two files are written in a step each: nobody reads them before
it is listed but a request that guesses its number. `/rm` and `/reset` free slot numbers and run `Alone`, which the
code does not see to.
*Bounds.* `MaxRequests` 3, `MaxActive` 2, `MaxSlots` 3, `MaxPages` 3, `MaxCrashes` 1
(only while a request is active: otherwise nothing is lost by it). While a client pages backwards
two requests are sent (`WalkBound`): a walk is disturbed by one, and a second can undo it.

*Run* `pages` (its size is with the drawing prototypes): two channels, one with two messages. No message takes
another's directory or contents; a listed message has its files (an edit cut off by a crash, or mixed with another,
leaves one that does not parse); and a client that pages by `before_ref` sees every
message that was there, once and in order. Three requests are two that race and one that changes the selection
under them; three slots give each of two posts a place beside the number both want. The run does not ask for
deadlocks: requests are used up.

## 6. AsmMachine, AsmSync, AsmRun

`AsmMachine` is the interpreter as a machine with a stack of bodies (`frames`: loop bodies and
functions), a stack of contexts (`env`: registers), the chats (`heap`) and what `execute()`
returned (`out`). `AsmSync` adds a `Generate` that answers at once; `AsmRun` has the pool: `Submit`
leaves a future in the register, `Take`, `Ask`, `Answered`, `Fails` are a pool thread from the queue
through the endpoint's lock to the end of its request, `Main` goes on when what it reads is
answered (`Ready`, `Awaited`), `Except` raises a failed generation where its register is read,
and `End` exports the registers and gives what is still pending a minute.

`ImplementsSync` is `AsmSync`'s specification with every future seen as the answer it will be
given (`Eventually`): whatever the order in which the pool takes, delays and answers, a program
computes what it would compute step by step; it may only end with an error, or with a register
that comes out empty, because the code gives up a generation.

*Abstractions.* A value is a tagged tuple, an answer is a function of what was asked, text functions are free
operators. Labels are resolved to offsets (no jump before the first instruction, the body of a loop follows it).
A literal is a text or a truth value, a function gives at most one output (`AsmMachineAssumption`; the code
makes several into a dict), and the last of two parameters of one name is bound. Outputs are `@` registers: a
`$` output is returned without waiting, as a future of the caller. A probe asks the endpoint from the program's
own thread without the lock, in one step. Inside a function no other is defined (`Callable`): a program has one that
calls a function of the table, and meets the missing answer. The
loop variables `_index` and `_each_idx` are left out. The bound of `len(code) * 100` steps per body ends a loop
silently (`StepsPerInstruction`, 2 in the run). *Fairness.* Weak, per pool thread and for the program: a request
ends, by its timeout at the latest.

*Runs.* `assembly` (91,590 states): every program of up to three instructions out of thirteen and
six longer ones with loops, a function and chats, a pool of two. The refinement holds, and
every run and generation ends. Programs do not change a chat that a GEN was given
(`Kept`); section 13 says why. Three instructions are the least that submit, do
something and read.

## 7. ReactiveTask

| state | code |
|---|---|
| `entities`, `value`, `status`, `wired` | the task's entities, their properties and status; those whose events reach the bus |
| `stack`, `depth` | per thread the events and write-backs in progress; `_propagation_depth` of the one bus |
| `used`, `got` | the constraint list the extractor fills; history: values ever extracted |
| `run`, `running`, `checked` | the runs, `_reactive_run_status["running"]`, requests between reading it and setting it |
| `died`, `overlapped` | history: a run died of an exception, two ran at a time |

`SetProp`, `Deliver`, `Sync` are a property's setter, the bus and `sync_back`: a listener's ops
work on a copy of the entity, which is then written back property by property, each a
possible event. `Run` is the pipeline: wire the entities, generate, ask the verifier, extract,
check the constraints, repair. `RequestRun`, `StartRun`, `EditEntity`, `AddEntity` are the routes on
the event loop's thread.

*Abstractions.* Any answer of the model, the verifier or an extractor is any value; any call may
raise. The depth is checked and counted in one step (one bytecode boundary lies between, which
CPython from 3.10 on does not switch at). A client's edit sets several properties in a row, as a
write-back does, in the order of the entity's properties and not of the request. Replacing or
resetting a task during a run, `_think` properties and several extractors are left out. An entity that is added while the
run walks the dict ends the run by a RuntimeError (`died`).
*Bounds.* Two entities, `MaxDepth` 2 (10 in the code), `MaxRounds` 2, `MaxRepairs` 1, `MaxRuns` 1,
`MaxEdits` 1
(a text and a field in one request). *Fairness.* Weak, per thread.

*Run* `reactive` (448,187 states): with a listener that sets itself off and one that copies into
another property, every generation but the first is told all values found before
(`BannedIsComplete`); a run leaves every entity done or failed (`NoneLeftHalfway`); runs and edits
come to an end (`Settles`). A depth of two is reached, cut, and counted by two threads at once.

## 8. Puzzle, StateGraph, PuzzleEngines

A puzzle is a list of clues over `N` houses; `Valid` is the conjunction of the validators.
`StateGraph` has `nodes`, each with its values (`by` house, `at` value) and, by category, the
node whose *bucket* of eliminations it has: `apply_result_to_snapshot` copies a snapshot one
level deep, so a bucket is shared by the node that made it and all it leads to, and `struck` is
kept beside the nodes. `View` is a node's snapshot as it reads now. `Propagate` derives
singletons to a fixpoint; `Materialize` is the planner's candidates for a relation, `Passes` the
entry's evaluation, `Apply` what its result adds to the view; `Run` writes the strikes back
where they are shared, and makes a node only when the result `Differs` from the parent it may
just have changed (`state_graph.py` 238); `PropagateStep`, `Fixpoint`, `Branch`, `BranchNone` are the
two-phase driver, which goes on with one branch, the one of the least hash, and never comes
back (a choice in the model); `Walk`, `WalkEnds` are the tick and search drivers.
`PuzzleEngines` has the grid with one `Sift` per rule, `EndPass` with the uniqueness rules, and
`Stage`, one category of the permutation engine.

*Abstractions.* Values are taken in index order where the code sorts names, houses count from
one, the literal 5 of the positional code is `N`, a stream is a set. Groups, repeated categories,
domain rules and slots, the decision tree and the breadth-first hypothesis tree are left out.
*Bounds.* `N` 3, two categories, `MaxBranch` 3, `MaxDepth` 4.

*Run* `puzzle` (36,918 states): every five of eleven clues, through each driver and both
engines. As long as no two branches strike in one bucket (`Mixed`), every solution agrees with an
open node, whatever later nodes struck in the buckets they share with it (`NoSolutionLost`; 3,194
states have several open nodes with eliminations and no mixing). With `Mixed` it fails, in 550 of
the 1,121 mixed states of a puzzle that has a solution: in tick mode, with color 1 in house 1,
color 1 with pet 2, color 2 with pet 1, pet 2 next to pet 3 and color 3 with pet 3, the guesses for
the third clue strike color 2 from all houses in each other's snapshots (section 13). When a
puzzle has a solution, every order of relations ends in one snapshot (`FixpointIsStable`); what the permutation engine
leaves are exactly the solutions, with the grid or without, in either order of categories
(`EnginesAgree`). Three houses have an end, a middle and a non-neighbour, which is what the clues
tell apart; five clues are enough to solve, to contradict and to leave puzzles open. These
modules use recursion and are for TLC only.

## 9. LlmCall, AtomicScope

| state | code |
|---|---|
| `call` | the locals of `llm_call_with_continue`: text so far, turn, `finish_reason`, empty polls; `how` is what it was called with |
| `request`, `pass`, `at` | the body of the request; setup (or scope) and the iterations of a loop; what the coroutine is doing |
| `todo`, `later`, `moved`, `rounds` | `pending`, `next_pending`, `progressed`, `iteration` of `_execute_steps` |
| `scope`, `context`, `gen` | `local_vars`, its `__contexts__`, the locals of `_atomic_generate` |
| `heard`, `ran`, `known` | history only: what the server has sent, the steps run in this pass, the names in scope when it began |

`Chunk`, `Empty`, `Breaks`, `Refused`, `Garbled` are one response each of the server to
`llm_call_with_continue`: a piece, no body (polled, at the cost of a turn), a broken connection
(tried once more), an HTTP error (ends the loop with what has come in), and a body that cannot be read.
`Asked` is what a request puts before the model. `Ask`, `AskAgain`, `Answered`, `CallRaises` are
`_atomic_generate` and the claims tool around it; `ContextAppend`, `PromptFactory`, `RunTool` the tools that ask
no model; `Defer`, `NextRound`, `Stuck` the order of the steps; `Iterate` and `Reply` the loop route. A scope is a loop
request without a loop.

*Abstractions.* A text is a sequence of pieces, and what a server sends is any of `Pieces`. Left out: the fields of a
result other than its text and items, append specifications, `capture` and `coerce`, the conditions
`min_chars` and regex, an unclosed thought, and the tools that only format (render, tag, join). The guard on
`rounds` never bites: a round without progress ends the pass before.
Two things the model shows and the code leaves so: a context grows twice when `context_append` or
`prompt_factory` uses the step's own context, and in the second iteration of a loop `on` is satisfied by the
results of the first. After an HTTP error in the middle the part that came is returned as the answer.
*Fairness.* Weak on every step: requests have a timeout.

*Run* `atomic` (20,053 states): seven requests with steps in reverse, two that wait for each other, loops
with a growing context, conditions with a prefill, one continuation or two. A pass runs exactly the steps that can
run, and reports a deadlock only when some cannot (`RunsWhatItCan`); every request to the model contains once and in
order all it was given and all it has said (`AsksForTheRest`); every request is answered (`Answers`). Two
pieces, a break and a poll in one call are the least in which a piece can be lost or repeated.

## 10. WorkflowRun, WorkflowMeaning

| state | code |
|---|---|
| `stack`, `pending` | per thread the calls of the interpreter in progress, and what the step it is at has still to write or report |
| `ctx`, `heap` | the variables of every `WorkflowContext`, and the entities and chats they refer to |
| `run`, `client` | an entry of `_workflow_runs`: status, thread of reports, variables; the client that polls: its cursor, what it got |
| `calls` | history only: how often each call was made, which also decides which of them the back end refuses |

A frame of the stack is one call of the interpreter: `steps` is `execute_steps` (with its handler of exceptions) or one
`execute_step`, `for`, `nested` an atomic block or a macro in a child context (`Bind`, `Enter`, `Export`), `dsl` and
`loop` an atomic DSL text with its watchers (`On`, `Flush`), `block` an `in_parallel` whose branches have threads of
their own (`Parallel`, `Join`), `asked` a request. `Raise` says where an exception lands: at the nearest
`execute_steps`, or in the block, or in the run. `Poll`, `Trigger`, `Finish` are the routes and the background thread;
`Sent` is the JSON round trip, after which every variable has objects of its own.

*Abstractions.* A call answers with a value that names it and its prompt, or is refused as `workflow.refused`
says. Expressions are a text or a reference; what the expression functions compute is left out, and so are
generation modes (mock, fixture, replay), probe capture, `@state` paths and the synchronous endpoint. A list has
at most two items. A block has threads enough: `Branches` bounds them, and a block waits until there is a seat
for each (`Seatings`). Branches of one block do not write one variable: nothing forbids it, and the last one
wins. The guard of `4n + 4` rounds of the watchers never bites, since each runs once. The code does three things
one may not expect, and so does `WorkflowMeaning`: a child context shares the objects bound to it (the docstring
at 324 says "isolated"), a step after a failed call reads what an earlier iteration left in the variable, and of
several failing branches only the first is reported. *Fairness.* Weak per thread (requests have timeouts), for
the end of the run, and for the client, which polls by a timer.

*Run* `workflow` (28,746 states): four workflows after the example and the tests, with each call refused once or
none, and a trigger of several steps or of one. The values a run leaves are those of `WorkflowMeaning`, which
takes the steps one after the other as functions of a state (`ComputesInOrder`); a client has every report once
and all of them when it sees that the run is over (`ProgressComplete`); a run ends for its client (`RunEnds`).
Two branches that contain blocks, child contexts and DSL texts interleave at every effect. The run does not ask
for deadlocks: the client is done at the end. `WorkflowMeaning` is recursive, for TLC only.

## 11. UiTree, UiLayout, UiProject, UiPanels, UiServer

Three drawing prototypes keep a document in files and edit it whole: the layout of `/api/ui-proto`
(`ui_proto/`), the boxes over text of `/api/ui-proto2` (`ui_proto_reactive.py`), and the panels of
`ui_proto_panels.py`, which has no route yet and is driven as the other two are. `UiTree` is what they share:
rectangles, and nodes in an ordered dictionary. `UiLayout`, `UiProject`, `UiPanels` are their operations as functions
from a document to the next one, to `Refused` (the error a route turns into a 400) or to `Raised` (any other), and what
they write and read. `UiServer` is the machine around them.

| state | code |
|---|---|
| `disk`, `queue` | the files; what `save_ui` or `save_project` has still to write or unlink |
| `undo` | `ui_proto_undo_stack`, `ui_proto2_undo_stack`, in memory only |
| `job` | the request in progress |
| `shown`, `past`, `handMade`, `whole` | history only: the last answer; what the client was shown before each of its edits; children given by hand; a save cut short |

An edit is `Push` (load, and the copy on the stack), then `Refuse` (400, popped), `Fail` (500, not popped) or `Apply`, up
to its save, and `Answer`, the save and the answer. `Ensure` and `Undo` are the other requests up to their save, `Crash`
the end of the process between any two steps, between two files or inside one. `past` is the client's: it changes at
answers only.

*Abstractions.* Of the metadata of a node remain a title and one mapping; labels, colours, aliases, actions, templates and
rendering are left out. A place on the screen is a cell. Walking a tree in a cycle, which in the code never returns, is
`Raised`: after a node's YAML has named itself as its parent, that is the answer of every request that walks. A request
is served at a time: nothing orders two that overlap in the pool (their saves mix, and the failing one pops the other's
undo). *Bounds.* A screen of 3 by 2 cells, up to four nodes, three edits of the panels and two of
the other two (`MCEdits`), `MaxDeaths` 1.

*Run* `pages` (522,128 states, the chat's among them): what was answered last is what the next request loads,
also the order of children after a rename, and no file of a removed node stays (`ShownIsSaved`); after the answer of
an undo the next request loads what the client was shown before its last edit that was not refused
(`UndoTakesBack`), an edit that raised counting as one; panels stay a tree as long as no YAML places one by hand
(`PanelsStayTree`); a box takes its text along wherever it lands (`MovesItsText`); a click picks what lies on
top (`PickIsInnermost`). Two edits are one to build on and one that is refused, raises or is taken back; the
panels, which are a tree, need a third. These modules are recursive, for TLC only.

## 12. Proofs

Every theorem is about every behaviour of a `Spec`, for every value of the constants, and rests
on the named assumptions of the module it is about and on nothing else: any jobs, roles, URLs,
priorities, retries, handlers and subscriptions, and any number of dispatch threads per role.
Every safety property of the runs `race` and `behavior`, the safety properties of
`reactive`, `store` and `atomic`, the refinement of `assembly`, the three properties of the chat in
`pages`, and one each of `solo` and `workflow` are proved; three invariants more
(`FailedIsExhausted`, the `EndpointExclusive` of `AsmRun`, the types of `ReactiveTask`) are proved
and not run.

| module | theorem | invariant |
|---|---|---|
| `GatewayRuntime_proofs` | `TypeCorrect` | `TypeOK` |
| | `EndpointsExclusive` | `EndpointExclusive` |
| | `CustodySole` | `SoleCustody` |
| | `AttemptsAreBounded` | `AttemptsBounded` |
| | `FailedExhausted` | `FailedIsExhausted` |
| | `NoJobIsLost` | `NoJobLost` |
| | `PriorityKept` | `HighFirst` |
| | `ReportedStored` | `ReportedIsStored` |
| | `HandlersRunOnce`, `SoloRunsOnce` | `FireOnce` |
| `AsmRun_proofs` | `PoolExclusive` | `EndpointExclusive` of `AsmRun` |
| | `BackgroundUnseen` | `ImplementsSync`, a refinement |
| `BehaviorStore_proofs` | `NoEditIsLost` | `NoLostUpdate` |
| | `EtagMeansCurrent` | `EtagIsFresh` |
| | `SavedStaysCurrent` | `SavedIsCurrent` |
| | `ReplacesOnlyWhatItSaw` | `ReplacesWhatItSaw`, of steps |
| | `OneAtATime` | `Alone` |
| `PChat_proofs` | `ListedWhole` | `ListedIsWhole` |
| | `NeverOverwritten` | `NothingOverwritten`, of steps |
| | `WalksSeeAll` | `WalkSeesAll` |
| `ReactiveTask_proofs` | `Typed` | `TypeOK` |
| | `AvoidsAllFound` | `BannedIsComplete` |
| | `AllLeftFinal` | `NoneLeftHalfway` |
| `DataStore_proofs` | `RevisionsStay` | `RevisionLineage` |
| | `AnswersStay` | `AnsweredIsOnDisk` |
| `AtomicScope_proofs` | `RunsAllItCan` | `RunsWhatItCan` |
| | `AsksForAll` | `AsksForTheRest`, with `PrefillsEnd` |
| `WorkflowRun_proofs` | `NoReportMissed` | `ProgressComplete` |
| | `OverMeansQuiet` | once the status is final, no thread is at work |

*Whose hands a job is in.* None of these but the types is inductive. `IInv` conjoins
`TypeOK`; `ThreadInv` (what each thread has at hand: a working thread holds a job of its own
role, a role that reached its loop has a URL); `LockInv` (the thread in a call is the owner of
its endpoint's lock, which gives exclusion even with two threads per role); `SoleCustody`; and
`StageInv` (by the place of its thread in the loop: the status and how many attempts and
retries add up to `Retry + 1`, which needs sole custody, or another thread could count the
same job). `InitInv` is the first step; `NextInv` rests on one lemma per conjunct (`TypeStep`,
`LockInvStep`, `SoleCustodyStep`, ...), each with a case per action that can disturb it;
`Inductive` combines them. The delicate case is a *finished* job whose handler raises and
that is retried or failed: `StageInv` admits it, and the bound on attempts survives.

*What becomes of a job.* `DInv` adds to `IInv` what delivery needs. `ReportedIsStored` rests on
`FireStored` (a thread about to fire "done" has stored the result) and on results never
being taken back. `HighFirst` rests on `BudgetInv` and `PutBackInv`: a job put back at the head
of its deque has been executed, so a high one may stand behind it. `NoJobLost` needs a witness at
every hand-over: the lemmas `QueuedStays`, `HoldsStays`, `InsertsStays`, `RegisterInserts` and
`HandlesStays` say that a job leaves a deque only into a thread's hands, a registration only
into a deque, and a thread only into a deque or settled. They use `StageInv` both ways: a
queued job is never active, and what the handlers of an event hold is settled.

*All_done handlers.* `FireOnce` fails when two threads scan the subscriptions at once, and when an exception
ends a scan after a handler has run (section 13). `HandlersRunOnce` says that nothing else can break it: it is
`Spec /\ []OneHandles /\ []NoneAbandoned => []FireOnce`, for any number of threads. Its invariant `HandlerInv`
says that a subscription that has run and is still there is in the list `fired` of some thread, and there behind
the place that thread's scan has come to. `SoloRunsOnce` derives both hypotheses from `Solo`, the constants of
the run `solo`: one dispatch thread, no cancellation, no template that raises, one job loaded at the start (a
second one could be registered during the scan of a `prefix.*` entry, which raises).

*The assembly refinement.* `BackgroundUnseen` is `Spec /\ [][NoLateChange]_vars =>
ImplementsSync`. `NoLateChange`, that no step changes a chat given to a generation not yet asked,
cannot be dropped: with `Programs <- LatePut` TLC refutes `AskedWhatWasGiven` (and `Kept`, in `MCAsm`, keeps it true
in the run `assembly`). The mapping is `Seen`: every future as the answer it will have. `RInv` says what
makes it work: a register's future was submitted, and no list holds one (`EnvInv`), so only
tokens need waiting for; every body being run is well formed and one entered by a call is over
that call (`FramesInv`); a function's return has a context to go back to (`ContextInv`); and a
generation that was asked was asked what its source is (`JobInv`: `Nothing` stands for "not asked
yet", so an empty source is the delicate case). `ReadSame` is the heart: what an
instruction reads has one value for both machines, because it was awaited. Then one lemma per
instruction (`ComputeStep` ... `ReturnStep`), `SubmitStep` against the reference's `Generate`,
`EndStep` against its `Finish`, and `PoolUnseen`: a pool thread's step is a stutter. The only
assumption on programs is `AsmMachineAssumption`, which the runs evaluate.

*Edits of a behavior tree.* The theorems are `Spec /\ []Alone => ...` for clients that are
`Orderly`: `Alone` says that no two requests or runs overlap, `Orderly` that clients change node
data through the node's route and do not POST merges. Neither can be dropped: TLC refutes
`NoLostUpdate` with `MergePosts = TRUE` and with two requests at a time, and `SavedIsCurrent` with
`TreeEdits <- WholeTree`; section 13 has what the code then does. `OneAtATime` shows that the bound of
the run entails `Alone`. Edits are numbered as they come, so the values of a path only grow, and that
orders what clients, histories and memory hold: a response's values lie between those its
revision was filed with and the present ones (`Past`), and are the present ones while its revision
is (`Current`). A path equal in the client's base and in the document has then not changed in
between, which is why a merge that finds no overlap takes nothing back. In the middle of a request
or a run this fails of what has changed and has no revision yet: `Unsaved` and `Dirty` say of which
documents, by the place of the one activity, and `SolidInv`, `ViewInv` hold of the others. `ReqInv` is
what a request knows on its way to the update: of its client's response, of the document as it read
it, and once accepted of the document as it is.

*Revisions in the history.* `RevisionsStay` holds for any namespaces, schemas, contracts, number of threads,
requests and crashes, and with requests overlapping in any way. It speaks of the revisions whose request has met
no other on its namespace and no move of the tree (`met`): of two `commit_revision` at once the later save drops the
earlier entry, in the code and in the model, and that answer is not among `revisions`. It rests on
`DataStoreAssumption` and on `FreshAssumption` (a uuid is new). `LogAt` says how
far a request has come that records a revision: its parent is read and its entry is nowhere (`Asking`,
`Writing`), the entry is on disk (`Staging`), HEAD's tree holds it (`Committed`), the answer is ready (`Done`). The
delicate stage is `Staging`: `git add -A` of any other request may stage the entry, and any other commit may
bring it in before the request's own does, which then finds nothing to commit. `Brought` is what all these
ways have in common: some commit holds the entry, its parent does not, and the parent that was named is
before that one. `BroughtIn` proves it of whichever commit comes first, `LogStays` that the steps
of others (`Quiet`: they stage what is on disk and commit what is staged) keep every stage, and `OthersSpare`
that others are quiet, from where a thread's calls come from (`OriginInv`) and from `ApartInv`: a request that has met none
conflicts with none that is in progress. `SeenInv`, that an
id still to be made up is in no file and no tree, gives `Asking` when a request begins.

*Answers on disk.* `AnswersStay` holds under the same assumptions. `AnsweredIsOnDisk` says nothing of a request
that is still at work, and its answer is what adds to `promised`; so the invariant, `Durable`, follows a value from
the call that puts it. `PledgeInv` is of requests: what a request is going to promise, one of its remaining calls
is going to put (`Coming`), or it has `Landed`, on disk or, while the file is torn by this very thread, in the buffer the thread
is about to write; and no remaining call puts another value for the key. `SafeInv` is of promises: the file holds
the value, so does the buffer of every thread about to write the file (`Held`), and no call of a request in progress names
the key. A contract request is the delicate one. Which keys it writes depends on the contract it reads half way, while
what it promises is by the contract the client has set; `ContractInv` (no file, buffer, index or commit holds another
contract, so a checkout brings back none) makes them agree, and `Expands` says that the calls
`Bind` and `Propose` go on with supply just what was promised. `FileCases` and `CallCases` sum up what a step makes
of its thread and of the files in a few shapes; `HeldKept` and `PledgeKept` are proved of those, once for the actions of all
routes. `OthersPledge` is where having met none comes in: a file a thread changes is one its calls reach
(`FilesWithin`), and no request that has met none has pledged anything in it. `SafeInv` needs no such condition:
once answered, a value survives requests that meet each other over it.

*Files of the chat.* `PChat` needs no hypothesis: requests overlap file by file, and crash. `HeldInv` is
what a request may rely on from an earlier step: the directory a post or an edit works on is there,
is its message's, and has the files that come before in the order of writing. Others keep this up
because a directory in use is never made again (`mkdir` without `exist_ok`) and because what removes
directories runs `Alone` (`AloneInv`). `ListedIsWhole` follows since a log's line is written last. `Grew`
states what every step but a removal does to the directories, and the action property is its
consequence.

*Paging back.* `WalksSeeAll` holds for any number of rows of a page and whatever is posted, edited, removed or
lost in a crash between two of them. `PageInv` says where the client is: what it has seen are refs of the log
at places that go down (`Paged`), and down to the last of them every message it is owed is among them. Others keep
that since a log only grows at its end (`LogStep`: what is new is not owed, for no path is listed
twice) and a message that is gone does not come back under its ref (`OwedLess`: a directory made again has a
new message). What `Materialize` does is in three lemmas. `OlderIs`: what stands behind the cursor in the reversed log
is the log below the place where the client is. `ShownPicks`: the filter keeps, in order, just what is
visible. `NextPage` and `LastPage`: a page goes on with the places of its rows, and one without rows leaves
nothing owed. `Shown` is counted up along the list, and what it computes is proved by induction
(`UpTo`, see *What the model is asked*); it is a recursive function for that reason.

*Runs of a reactive task.* `TypeOK` and `FitInv` give every place in the pipeline its locals. `LeftInv`:
every wired entity is final, or some run in progress has yet to leave it (`AheadOf`). It holds though
runs may overlap and share the entities, since a run leaves an entity only with a final status and
changes the status of none but the one it is at. `ListInv` does need `~overlapped`: the length that a
run looked up must still be that of the list when it appends.

*Steps of a scope.* `AtomicScopeAssumption` says what a request is: lists of steps whose names are
among `Names`, of which `NoName` is none. `SplitInv`: every step of the list has run, is to be looked at
in this round, or was found waiting in it, one of the three and once. `NamesInv`: the names in scope are
those known before the pass and those its steps made. `LeastInv` gives one half of the property: what has
run lies in every closed set of steps. The other half is the end of the pass: either all have run, or the
round that ends it ran nothing, and then (`RoundInv`) what it found waiting still waits, so what has run is closed.
`RoundInv` also counts the rounds: each but the last has run a step, so the limit of
`2 * Len + 10` rounds is never what stops a pass (`DistinctLength`, that a sequence without repetition is
as long as its set is large).

*What the model is asked.* `AsksForAll` has a hypothesis, `PrefillsEnd`: a step with a prefill is sent as one
prompt, or stops at its conditions, or may not be continued. Without it the theorem is false, and the code
loses the prefill (section 13); the requests of `MCAtomic` satisfy it, `PrefillRequests` do not.
`TextAssumption` says that what a request brings is made of words. `TextInv`: every context is a text and every
result has text, or pieces of text. `CallInv`: what was heard is what earlier calls left
followed by what this one has, and the call is the step's first or goes on from that (`Way`), so a call that goes on
from something has only one turn. `StripJoins`, that empty think blocks are taken out of two texts in a row just as
out of each, is why a block in front of an answer asks for nothing else (`StripSame`). The library's induction takes an operator;
in its place stands induction over sets of numbers (`UpTo`), from the least element of one (`LeastOf`, by
`WFMin` and the order of `Nat`). `Strip` is a recursive function for that reason.

*Reports of a workflow.* What can go wrong is a report after the client was shown the end. `StackInv` gives a
thread's frames one of four shapes: none, over, `Working`, and `Blocked` behind the branches of a parallel block.
`FamilyInv` says who waits for whom: every branch at work is waited for by one thread, and of any set of
branches at work one is waited for from outside of it. So no branches can wait for each other in a
circle, and when the main thread is over (`StatusInv`) all are: that is `OverIsQuiet`, the theorem
`OverMeansQuiet`. Nothing is then left to report, and `ClientInv` (the client has the thread up to its cursor; it
shows a result only after a poll that found the run over) gives `NoReportMissed`. The one
assumption is that the main thread is no branch (`WorkflowRunAssumption`).

Only model-checked: `Settles` and all other liveness (fairness and ENABLED are out of the prover's reach); and the puzzle,
workflow meaning and drawing modules, whose reference definitions or walks are recursive.

## 13. Where the code and its documentation differ

With a run, in which TLC finds the property violated:
- `cancel`: a cancel between a job's pop and its activation is overwritten, and
  the job runs (`gateway_runtime.py` 349, against "Cancel a pending job").

Found with these modules in other instances, whose definitions are kept:
- A POST found disjoint is merged whole, base values included, over the other client's edit
  (`server.py` 856, against `tests/test_behavior_api.py` 213): `NoLostUpdate` with `MergePosts = TRUE`.
- A chat changed by PUT after a GEN was given it changes what the pending generation asks
  (`assembly_dsl.py` 424, against the comment at 422): `AskedWhatWasGiven` with `Programs <- LatePut`.
- A caller's own assistant prefill without an until-condition is replaced by the generated text when the
  answer is continued (`llm_continue.py` 180, against `docs/API_REFERENCE.md` 371): `AsksForTheRest` with
  `Requests <- PrefillRequests`.
- Two threads run one all_done handler (`gateway_runtime.py` 557, "fire once, then
  remove"); the second removal raises and a finished job is retried: `FireOnce` in
  `MCGatewayShared`.
- A handler runs before the result it waits for is stored (362, against the comment at 364):
  `HandlerSeesResults` in `MCGatewayShared`.
- A `prefix.*` handler runs when the entities enqueued *so far* are done (569, against
  `docs/WORKFLOW_V3_SPEC_DRAFT.md` 175): `RunsAfterAll` in `MCGatewayShared`.
- A handler of a failed event that raises ends the dispatch thread; jobs already queued wait
  for the next enqueue (381, "Workers always busy"): `JobsSettle` with `BusyInitial`, `BusyThen`.
- A tree edit of node data does not move the node's revision, so a stale node ETag is
  accepted (`server.py` 952, against the 409 of `tests/test_behavior_api.py` 173), and a later run
  reloads the node as it was: `ReplacesWhatItSaw` with `TreeEdits <- WholeTree`.
- Guesses of one state-graph expansion, and later nodes of different branches, strike in one bucket
  (`state_graph.py` 205, 213), so that a solution can be in no node: `NoSolutionLost` without `~Mixed`.
- Two requests with one If-Match are both accepted (`server.py` 952, against the 409 of
  `tests/test_behavior_api.py` 108): `ReplacesWhatItSaw` with `MaxActive = 2`.

Read in the code:
- `sync_back` compares its copy with the entity as it is by then, so it writes back what a listener
  or a client changed meanwhile (`reactive_runner.py` 184, against the docstring at 178).
- Two run requests of a reactive task can both pass the flag (`server.py` 1410); the first run to
  end clears it for the other. The same of behavior runs (1091).
- A job is ACTIVE while it still waits for the endpoint (`docs/WORKFLOW_V3_SPEC_DRAFT.md` 40); low
  priority is appended like normal (`gateway_runtime.py` 237); templates ignore `priority` and `retry`;
  `drain()` is documented and absent; `job.timeout` is used for ComfyUI only.
- `from_yaml` that raises on a later job leaves the earlier ones running (`gateway_runtime.py` 1043);
  `vars["_event"]` is one slot for all threads (585); `get_status` walks `_jobs` while threads add to it (291).
- A run reloads a node between its elements and undoes an edit of the routes in between
  (`behavior_orchestrator.py` 416); a session's first two requests can build two trees (`server.py` 544); a
  refused run request has changed the settings (1063).
- Two requests that write one namespace undo each other (`data_store/store.py` 138).
- The fallback of `_pchat_build_state` sorts `msg_10` before `msg_2` and lists `_deleted` (`server.py` 6756);
  the projection's ids `<table>__msg_n` collide between channels; a child's ref goes to another channel's log
  when the scope moves during a post; after a removal a reused number lists a path twice; two reactions at a
  time lose one; after a reset the root commands are unknown until `cd ..`; a patch of a message that does not
  exist writes the channel's own `_data.json`; an edit cut off by a crash, or one that writes over another's
  longer text, leaves a `_data.json` that does not parse, and every later edit of the message and page that lists
  it fails (`server.py` 4525, 4529); slot numbers of a materialised table (6166) are counted likewise.
- Drawing prototypes: no lock orders requests that overlap (`server.py` 3499); a crash that tears `layout.yaml`
  leaves every later request with a 500 (`_ensure_ui_proto_files` looks whether it exists); a node may be made its own parent
  through its YAML, after which `is_descendant` never returns (`ui_proto_reactive.py` 335, 414); the meta panel merges, so a
  key goes only when all do, by `data: null` (`patch_engine.py` 195, 305); `/api/ui-proto2` saves a selection as an edit that an undo takes back.
- A candidate of a same-house clue with one side known is judged "contradicted" when it follows from the
  domains alone (`cases/einstein/entrypoints.py` 223-343).

## 14. Plan

Done: the gateway with its eight invariants proved; the behavior tree with its four properties proved;
the data store with its revisions and answers proved; the chat workspace with the properties of its files proved; the assembly DSL with its
refinement proved; reactive tasks with their invariants proved; the order of an atomic
scope and the progress of a workflow run proved; the puzzle solvers.
Next, in order of what matters:
1. `BehaviorRun`: `run_tree` with children run inside handlers, two runs, composed with `BehaviorStore`.
2. The decision tree and the breadth-first hypothesis tree on top of `StateGraph`; groups and
   repeated categories in `PuzzleEngines`.

Runs are few by design: one per question. When a new module brings one, an older
violation run of the same mechanism gives way; its finding moves to the second list of
section 13.

