# Hexagon in TLA+

Hexagon is a Go framework for language-model agents. This directory specifies the parts
of it whose correctness is hardest to see from the code: the durable execution of runs
and graphs, in which workers that share nothing but a MySQL table take calls that must
not be lost and must not be repeated; the session lane, which keeps the calls of one
session apart; and six components whose goroutines, locks and channels meet in orders
no test forces. The modules are checked with TLC, and the main theorems about the durable
core, the lane and five of these components are proved with TLAPS.

## The system

### Parts, their state and their operations

| Part | Code | State | Operations |
|---|---|---|---|
| run record | `runtime/commit.go`, `task.go`, `operation.go` | status, revision, owner, fence, lease, wake-up time, waiting set, snapshot, activations, task results, inputs, operations, artifacts, event numbers | `ApplyCommit`, `SealCommit`, guards of a commit |
| MySQL run store | `runtime/store/mysql/store.go`, `task.go`, `receipt.go` | tables of runs, commits, inputs, receipts | Submit, Signal, Cancel, Claim, Renew, Release, GetRun, Commit, LookupCommit, Runnable, ArchiveReceipt, ListReceipts |
| worker | `runtime/task_worker.go` | its authority and execution context | Run (poll), Process (claim, renew in the background, execute, release) |
| durable runner | `runtime/durable_runner.go`, `durable_calls.go`, `receipt_projection.go`, `tool_reconcile.go` | a session: the record last read, results to adopt, chosen inputs | Submit, ExecuteWithInputs, executeTask, Save, Emit, finish, reconcileTool |
| runner loop | `runtime/runner.go` | the State of a run: turn, messages, pending tool calls | execute, executeToolCalls, Resume |
| graph | `orchestration/graph/plan.go`, `durable.go` | frontier: ready, called, completed and waiting nodes, results; a session over the same store | Execute, Resume, run, runOne, persist, commit, finish |
| session lane | `runtime/session_lane*.go` | gates, request cache, lease of a session | Do, DoCtx, DoRun, Forget |
| workflow executor | `orchestration/workflow/executor.go`, `recovery.go`, `persistence.go`, `durable.go` | one execution: status, results of its steps, pause and resume tokens, the stored copy | RunAsync, Pause, Resume, Cancel, RecoverExecution, RecoverPending, saves and callbacks |
| plugins | `plugin/registry.go`, `lifecycle.go`, `generation.go`, `dependencies.go` | routes, generations with their references and bindings | Register, Init, Start, Stop, Acquire, Release, RestoreReferences, ReplaceCandidates, retirement |
| request batcher | `llm/batch/batch.go` | queue, collector, workers | Submit, Start, Stop, flush |
| agent-to-agent server | `agent/a2a/server.go`, `protocol_http.go`, `handler.go`, `store.go` | tasks, executions, subscribers | send, stream, cancel, resubscribe, Start, Stop |
| browser coordinator | `browserruntime/coordinator.go` | a profile's session, gate, leases, chooser, unknown outcomes | Acquire, Inspect, Execute, Reconcile, Release, FinishTask, CloseSession, replacement |
| agent network | `agent/network.go` | nodes with their inboxes, the router's queue, running and closed, pending responses | Register, Unregister, Start, Stop, Send, Request, Broadcast, heartbeats, the router's loop |
| turn controller | `runtime/turn_controller.go` | active turns and their stop boundary | Begin, RequestStop, ReachTurnBoundary, Finish |
| interrupt, checkpoint | `interrupt`, `checkpoint` | addresses and states of interrupts; saved states | signal, decode, resume, save, load |
| agents | `agent`, `agent/artifact` | team state, shared memory; versions of artifacts | run, hand off, save |
| core, llm, memory, observe, security | packages of these names | streams; routes, cost; memories; events; limits | compose, fall back; route; store, search; emit, follow; check |

The rest (retrieval, evaluation, tools, configuration, client, examples, deployment)
transforms data or talks to external services and keeps no state worth a protocol.

### How they interact

A host submits a run, signals it and cancels it through the store. Workers poll the
store for runnable runs, claim one under a lease with a new fence, and hand it to the
durable runner or the durable driver of a graph. Each model call, tool call or node is a
*task*, which is activated by a commit, executed outside the store, recorded by a second
commit, and adopted by the commit of the snapshot that contains it. (The runner archives
a receipt in between and adopts in a third commit; the graph records and adopts what it
can in one.) A background goroutine renews the lease and cancels the execution context
when it cannot. At the end the worker releases the run. Everything shared is a row of
the database, read without and written under a row lock.

The other modelled components share no state with these or with each other. A workflow
executor saves to a store of its own, or commits through the same run store under a
lease. Users of plugins hold leases on generations across calls of any length. The
agent-to-agent server runs handlers that lead into agents, the coordinator drives a
browser process and the agent network calls the handlers and agents registered with it; they
appear here through what they return.

### What is hard

- *Interleaving*: two workers may both believe they own a run; Signal and Cancel come
  between any two steps of a session, which decides on the copy of the record it last read.
- *Unknown outcomes*: a commit, a claim, an archived receipt or a browser action may have
  happened although its caller is told otherwise; frozen requests are delivered again.
- *Crashes* between the effect of a call and its record.
- *Status precedence*: the error that ends a session decides whether the run is handed
  over, parked, failed or cancelled, and the classes overlap.
- *References given back* once and only once, through every failed or aborted operation:
  plugin generations, the gate of a browser profile, the gates of the lane.
- *Stops* that cross work in progress: a batcher, a server, a network or a session is
  stopped while callers queue, handlers answer late and followers read slowly.

`PROJECT.json` lists each hazard at its line with the properties that cover it.

## Modules

| Module | Models |
|---|---|
| `RunRecord` | the record, and each transition of it as a guard `XOK` and a result `X`: `ApplyCommit` guard by guard, and the update closures of the store's scheduling operations |
| `RunStore` | the store under every caller: workers, frozen requests, the row lock, the commit ledger, crashes, lost replies, late and repeated delivery, the database clock |
| `RunLedger` | the abstract contract: a run is a ledger in which each revision settles facts for good; no worker, lease, revision check or transaction |
| `DurableRunner` | sessions of the durable runner on workers: one run of `Length` tasks from claim to release, on top of the record's transitions |
| `DurableGraph` | sessions of the graph's durable driver on workers: the scheduler's frontier, questions and answers, on top of the same transitions |
| `GraphRun` | the abstract contract of a graph: walked once, each node along one route |
| `SessionLane` | calls of `Do` and `DoRun` on several processes: gate, lease, request cache, cancellation, lost leases, crashes |
| `WorkflowExecutor` | one workflow execution: callers that start, recover or drive it, with a plain store in one process or with the durable driver on several workers |
| `PluginGenerations` | the registry: routes, generations, leases, dependencies, lifecycle operations, replacement of sets, retirement |
| `Batcher` | callers, collector and workers of the request batcher |
| `A2AServer` | requests, cancellations, subscribers and shutdown of the server |
| `BrowserCoordinator` | one browser profile: calls, leases, closers and the sessions that follow each other |
| `AgentNetwork` | the network of agents: callers, the router's goroutines, nodes, Stop |
| `MCRunStore`, `MCDurableRunner`, `MCDurableGraph`, `MCSessionLane`, `MCPluginDrain`, `MCWorkflowStale`, `MCAgentNetwork` | the instances TLC checks: symmetry sets, arguments of the calls and, in the cfgs, the constants |
| `Components` | a batcher, an agent server, a driven workflow, a browser profile and a network side by side, and what they promise |
| `MCComponents` | the same with two instances of the plugin registry and another network: their safety |
| `MCComponentsLive` | smaller instances: what has to happen in the end, and the safety of a workflow in one process |
| `RunRecordProofs` | lemmas about the record's transitions, and that each is a step of `RunLedger` or none; used by the store's, the runner's and the graph's theorems |
| `RunStoreProofs` | the theorems about `RunStore` |
| `DurableRunnerProofs` | the theorems about `DurableRunner` |
| `DurableGraphProofs` | the theorems about `DurableGraph`, and that it implements `GraphRun` |
| `SessionLaneProofs` | the theorems about `SessionLane` |
| `AgentNetworkProofs` | the theorems about `AgentNetwork` |
| `WorkflowProofs` | the theorems about `WorkflowExecutor` |
| `ComponentsProofs` | the theorems about `BrowserCoordinator`, `A2AServer` and `Batcher`, and about `Components`, which takes over those about the workflow and the network |

### Correspondence

`RunRecord` is Go's record with payloads abstracted to identities. Zero values are kept:
attempt 0, revision 0 and consumed 0 mean "not set". An activation's digest and input
revision are one number, `read`; a lease is the time left of it and a wake-up time the
time until it (0 none, 1 due), so that the clock does not grow without bound. Artifact
statuses are their order (`artifactStatusOrder`). The statuses `cancelled` and `skipped`
of a task are left out: the record treats every status other than success alike.

`RunStore` has one action per operation of the store. A commit is `BeginCommit` (the row
is locked and the guards of `ApplyCommit` hold) followed by `FinishCommit` or
`AbortCommit`, with other reads, crashes and clock ticks in between; its caller may have
been told anything. `LookupCommit` before the transaction and the digest comparison are
the guard `~Recorded(c)`: a recorded request is answered from the ledger and changes
nothing. Requests are drafted by `Freeze` in the shapes the callers form and stay
deliverable for ever, by whoever keeps them. `WakeAt` of a commit is set by hosts only.

`DurableRunner` numbers tasks in the order the strategy takes them; a snapshot is the
number of tasks it contains. `pc` names the point a worker has reached: `claimed` (Process
has its authority), `turn` (the loop's context check), `dispatch` (`executeTask`),
`execute`/`running` (the callback), `archive`, `record`, `save`, `reconcile`, `note`
(the failed call is saved as progress), `finish`, `stop` (on the way to Release).
`commitLocked` is two steps, `Commit` and `Reread`, because the record moves on between
them; `after` keeps what follows. `InContext` commits fail when the execution context is
cancelled, `Detached` ones run under `context.WithoutCancel`. The per-event commits
between two tasks are one commit per turn.

`DurableGraph` is a plan without cycles whose nodes wait for all their predecessors, so a
task is the one activation of a node and a result is the route it selects (`Routes`: the
fixed successors and one of the branches). The frontier `x` of a session is
`scheduler.frontier()`; it is also the run's snapshot, which every commit pins. `at` names
the point a session has reached: `claimed` (before the frontier is restored), `loop`
(`run`'s next node), `executing`, `save`, `failing`, `fail`, `park`, `reread` (between a
commit and the read of its record, with `next` for what follows), `stop`, and `unknown` or
`lost` for what is left without a word. `Persisting` is `persist`: results not on record,
adoptions, and the answers that are used up. A `Refused` adoption is the one `commit.go`
rejects. An interrupt gets a new identity each time it is raised (`Questions`).
`GraphRun!Complete` says when a node may run in terms of the whole plan; `DurableGraph`
computes it step by step, as `plan.go` does, by counting arrivals.

`SessionLane` has one process counter per call; its steps are the points at which `Do`,
`DoRun` and `doRequest` may block or be overtaken: `gate` (the channel of capacity one),
`lease` (the polling loop of `acquireSession`), `request` (the map, under its mutex),
`join` (the wait for another's entry), `run`/`running` (before and in the callback),
`release` and `leave` (the deferred calls, in their order). A process is a lane. An entry
is the call that made it, and is closed once that call has an answer. A panic with a
request id is kept as an error like any other. `epoch` counts how often a lane lost a
request to Forget or a crash, and `era` is the epoch a call saw: they, `started` and
`lapsed` are history that only properties read. The lease service (`toolkit/util/lease`)
is external: rising tokens, one valid at a time, release by token only.

`WorkflowExecutor` has a caller per goroutine that starts or recovers the execution; its
`run[c].at` follows `executeWorkflow`. A change of status or result and its save is one
step, as `state.mu` makes it; a failed save may have been applied. `pause` and `resume`
are the two channels of capacity one, and a `select` among several ready cases takes any.
`effects` counts what a step did outside, before or after its answer is lost. With
`Durable` each caller is a worker of its own: a save is a commit that the run's revision
and owner must accept, and `Take` gives the lease to another worker at any time.

`PluginGenerations` splits each operation where the code gives up a lock or calls a
plugin: `Acquire` pins generation by generation under the registry's read lock (so what
takes the write lock waits, `NoReader`), a replacement captures, prepares and starts each
candidate, publishes all routes in one step and drains afterwards. An instance is named by
its first generation. The retirement goroutine works off its list head first. Channels
`drained` and `done` are flags; closing one twice is a panic, after which nothing moves.

`Batcher` follows the collector's `select`: request, ticker, stop. `flush` and the drain
loop are separate places because they send to the workers in different ways; a worker's
batch is processed request by request and its callback comes before the answers.

`A2AServer` takes what runs under `s.mu` as one step (`Admit`, `Commit`, `CancelCommit`,
`Subscribe`, a broadcast, `CancelAll` at the end of Shutdown) and everything else apart; a subscriber's channel is a sequence
of bounded length, whose oldest event gives way to an error when it is full. `work` keeps
the handlers, workers and producers that outlive their request.

`BrowserCoordinator` takes each look at the profile under `c.mu` as one step and each
driver call as two, begun and returned: with an answer, an error, or an unknown outcome,
after which the action may still go on (`loose`). The gate is a channel of capacity one
whose token is with the channel, a call, a lease or a stranded Bind. A lease that
`FinishTask` makes for itself is `inner`: nobody was given it, so nobody works on it or
releases it but `FinishTask`; only an `Inspect` that found it active waits for it
(`looking`) and may look through it between the cleanup and the release. Such an `Inspect`
asks only about a chooser of its own owner (`coordinator.go:364`), while one that waits for
the gate asks about anybody's; that is the exception in `ChooserIsTheOwners`.

`AgentNetwork` names a message by the goroutine that sends it. `n.mu` is not a variable:
whoever has it for one look or one change does that in one step, and `Stop`, which has it
from its first line to its last, keeps everybody else out while `stop` is not `idle`
(`Free`). Nor is `r.mu`: callers at `queueing` are its readers, and a Stop that waits for it
(`locked`) keeps new readers out (`Readable`), as Go's `RWMutex` does. The place of a
caller follows `Route` and `deliver`: `entering`, `queueing`, `finding` (the target's
node), `putting` (into its inbox), `waiting` (for a response); a broadcast goes round
`finding` and `putting` once per agent that was there when it began. A router is a
goroutine of `Start`; there may be several, because Stop makes a second Start possible.
Whether a handler returns a response, an error or nothing is open (`Handle`). A response
to a request is a message of its own (`reply`), sent by whoever has seen the request.

Operators such as `UnfencedCommitOK` or `FaultyAdoptable`, placed before the operator they
resemble, are plausible bugs that no action uses; `PROJECT.json` ("mutants") says which
property each one breaks.

## What TLC checks

| Run | Instance | Question | Distinct states |
|---|---|---|---|
| StoreTasks | 2 workers, 1 task, 3 commits, fence <= 2, revision <= 3 | `LedgerIsOrdered`, `OneAuthority`, `RevisionNamesFacts`, `RunLedgerSpec` | 2.1 M |
| StoreInputs | 2 workers, 2 inputs, 1 target, 2 commits, 1 tick of sleep | `TypeOK`, `NoSleepingSignal`, `PollFindsClaimable` | 2.1 M |
| RunnerCrash | 2 workers; model, unsafe tool, replay-safe tool; 2 faults | `EffectAtMostOnce`, `SnapshotsAreBacked`, `ResultsAreEarned`, `SnapshotNeverRecedes` | 5.5 M |
| RunnerLiveness | 2 workers, model then unsafe tool, 1 fault, a waking signal | `Rests` under `FairSpec` | 1.0 M |
| RunnerShutdown | violation expected | `ShutdownHandsOver` | |
| GraphDurable | 2 workers, a diamond with a branch and a node that asks twice, 1 fault, fence <= 3 | `NodesRunOnce`, `FrontierIsBacked`, `LosersHaveLost`, `AnswersAreSettled`, `GraphIsWalkedOnce` | 1.5 M |
| LaneLease | across: 2 leased processes, 3 calls of a session, 1 crash each; waiting: a call in each, one of which may be cancelled; within: 1 process, 3 calls of a request without session; queued: 2 calls of a request in a session | `MutualExclusion`, `Once`, `SameAnswer`, `Returns` under fairness | 0.58 M |
| Components | eight instances, below | what plugins, batcher, agent server, driven workflow, browser and network promise at every moment | 1.9 M |
| ComponentsLive | five smaller instances | what they promise to do in the end; `StepsRunOnce`, `CompletedIsEarned`, `WaitersAreToldTheTruth`, `EndIsFinal` of a workflow | 0.15 M |
| PluginDrain | violation expected | `DrainedIsUnused` | |
| WorkflowStale | violation expected | `StepsRunOnce` | |
| NetworkStop | violation expected; 3 callers, 1 agent, a queue of 1 | `StopReturns` under `FairSpec` | |

*Components.* The components neither call each other nor share state, so
`Components` lets the initial state pick one instance, its *focus*, the only one that
moves: the states are the sum of the instances and not their product. An invariant of a
component is checked in its focus; a liveness property carries the fairness of its component
as antecedent, because the other foci need not meet it. The constants of the instances are
constants of `Components`, so that what TLC checks with their values in the cfg is what the
theorems state for all of them. The browser profile is not an instance but extended by
`Components`, and the workflow is by `MCComponentsLive`, for the same reason. `MCComponents`
adds the foci whose instances have fixed values; its `Bounded` keeps the profile's third
lease to a first session to which nothing has happened yet, and lets only the loss of the
connection end the second session. `MCSessionLane` does the same with four groups of calls,
of which one is ever made; it restates `Next` and `FairSpec` of `SessionLane` for the group.

| Focus | Instance | Properties |
|---|---|---|
| forced, restored | plugin a on b; one user, one host; replacement of either or both, operations on one or both, forced stops, restored references; up to 4 or 3 generations | `RefsAreHolders`, `ServedWhileReferred` |
| together (Live) | a and b replaced in one call, nothing forced | `RetiredIsStopped` |
| batches | 3 requests, 2 workers, queue and batch of 2; one worker in Live | `NothingIsLost`; `AnswersArrive` |
| agents | 2 senders, a canceller, a subscriber with a channel of 1, one task; one sender in Live | `EndsAreFinal`, `OneWorkerPerTask`; `AnswersArrive`, `StopComesToAnEnd` |
| workflow (Live) | unsafe step then replay-safe step; 2 callers in one process, 1 fault, 2 reads; the host recovers only what nobody runs | `StepsRunOnce`, `CompletedIsEarned`, `WaitersAreToldTheTruth`, `EndIsFinal`; `WorkflowSettles` |
| driven | the same steps, 2 workers that take the lease from each other, 1 fault, 3 reads | `DrivenIsSafe`, `EndsAreFinal` |
| profile | 2 tasks of 2 owners, 2 calls, 1 closer, 2 sessions, 2 leases, or 3 in one session while nobody closes it | `GateIsConserved`, `NothingBesideUnknown`, `ClosedIsQuiet`, `ChooserIsTheOwners` |
| network | 1 agent; a request and a caller that sends or responds; queue and inbox of 1, one node, two routers; in Live one router and a queue of 2 | `NothingIsLost`; `StopComesToAnEnd` |
| spread | 3 agents and a broadcast among them, 2 nodes | `TypesOK` |

*Bounds.* Two workers and fence 2 are an owner and its successor, the pair every fencing
argument is about; a third worker can only repeat the second's part. Three commits on three
revisions let a late request meet a committed successor with one more in flight. Three tasks
of the runner are the first, a middle and the last position, and one of each kind; two
faults are a crash in a recovery. The graph's diamond has a node with two predecessors, a
branch that skips one, and a second question, so an old answer can meet a new one; a larger
instance (two faults, one question, 7.2 M states) passes as well. One input besides the
ingress is enough, since it is an answer or a notice by choice. `MaxFence`, `MaxRevision`,
`MaxFaults`, `MaxAsks`, `MaxGens`, `MaxLeases` and `MaxReads` bound the models and not the
code. The store's own instances need no fault counter: crash, loss and late delivery are
always possible there. Symmetry is over workers, commit ids or calls, which nothing orders,
and is not used in the liveness runs.
In the lane, two calls in one process contend for its gate, a third in another process for
the lease, and the third token is the one that lets an early release do harm. Three calls
of one request are a first call, its retry while it runs and a retry after the entry was
dropped.
`Cancellable` and `Outcomes` say which calls may be cancelled and what callbacks return;
the errors in the instance are those of cancelled contexts, failed renewals and lost leases,
and an error of a callback would be cached like them.
Three requests overfill the batcher's queue; a channel of one makes every second event find
it full; three or four generations are a plugin, its replacement and what is bound to
either; two leases and two sessions are a holder and its successor, of the profile and
across a replacement, and a third lease is one that is made while a chooser of the first
task is still shown and the second has come and gone. Two nodes of the network are an agent and the same agent registered anew
while a broadcast has found the old node (spread); two callers are one that waits for the queue or
for a response and one that fills the former or sends the latter, and the deadlock of
NetworkStop needs three: one in the handler, one in the queue, one waiting.

*Deadlock* is checked for the store. The other components really come to rest: a run that
has ended, or is parked with nobody to signal it; a component whose callers are done and
whose bounds are used up; a registry whose process has panicked.

*Fairness.* The runner's `FairSpec` asks three things. A worker polls again and again
(`Worker.Run` loops until its context ends; the assumption includes a host that sets
`OnError` or restarts the worker, since without `OnError` the loop ends at the first
failure). A session goes on: the executor's callback returns, the database answers or
fails. A lease nobody renews runs out. Nothing is assumed of hosts: no Signal, no Cancel, no
choice between the outcomes of a call. Faults are finitely many, for a run whose workers are
crashed for ever ends never.
For the lane, `FairSpec` asks that a call at any step goes on when it can (callbacks return)
and that a lease nobody renews runs out, which is its TTL. It does not ask the lease service
to fail: a waiter that is not cancelled leaves the polling loop of `acquireSession`
(`session_lane_distributed.go:53-75`) by an error whenever there is one, but is owed only
the lease (`Advance`). So `Returns` depends on every lease being given up, by its holder or
by running out; without the fairness of `Expire` TLC refutes it. Weak fairness is enough
for the polls, since calls are finitely many and the lease stays free in the end; for an
endless stream of calls the loop promises nothing, as it keeps no order.
The agent server's fairness does not make `Shutdown` return. It returns when every
connection is idle (`Reclaim`) or when the context of Stop ends (`CutOff`), and only then
does Stop close channels and cancel executions (`server.go:227-243`). `StopComesToAnEnd`
therefore has two cases. If the context of Stop has an end, as in most of the repository's
tests, the server gets stopped whatever streams; if it has none, the server gets stopped
provided that no message stream goes on for ever, and subscribers, late or quiet, do not
hold it up. With neither, Stop waits for ever, which TLC shows when the condition is
dropped and which is what the code does.
The components' `Fairness` is that goroutines once begun keep running: callbacks, steps,
handlers and stores return, subscribers read, tickers tick. It is strong where the code
competes fairly for something that comes and goes: Go's `RWMutex` lets a waiting writer in
before the next reader (plugins, network), and `select` picks among ready cases at random, so the
collector does not overlook a closed stop channel for ever (batcher). Nobody has to start
an operation, to force or to cancel one, or to give up.

### Findings

- *RunnerShutdown.* A context cancelled by the host's shutdown, or by a renewal that failed
  once, makes the execution return `context.Canceled`, which `ExecuteWithInputs` commits as
  `RunCancelled` under a detached context and a lease that still holds
  (`runtime/durable_runner.go:253`). The comment on `Process` (`runtime/task_worker.go:100`)
  speaks of a handover at shutdown; there is nothing left to hand over.
- *PluginDrain.* `Acquire` is said to leave no window between reading a route and pinning
  it (`plugin/generation.go:79`). That holds for the roots of a lease. A dependency is
  reached through the bindings of a generation already pinned, and those are given back
  outside the registry's lock: with r bound to m and m to d, and m and d replaced together,
  a lease can pin d after its drained channel is closed. It then holds what is about to be
  stopped, and its release closes the channel a second time, which panics.
- *WorkflowStale.* An unconfirmed step is to be executed again only if it is declared
  `ReplaySafe` (`orchestration/workflow/recovery.go:109`). `RecoverPending` recovers from
  what it read before; if the execution was running then and has ended since,
  `startExecution` accepts the replacement (`executor.go:211-213`) without reading again,
  executes a step that was absent in the stale copy a second time, and overwrites the
  terminal status.
- *NetworkStop.* `Stop` of an agent network keeps `n.mu` (`agent/network.go:566`) while the
  router's Stop waits for `r.mu` (1028). A `Route` that waits for room in a full queue reads
  under `r.mu` all the while (875), and the goroutine that would make room waits for `n.mu`
  in `HandleMessage` (492). If the context of the waiting sender has no end, Stop never
  returns and every other call of the network waits for it. The comment on Stop (564) calls
  it safe beside concurrent sends, and the guide defers it
  (`docs/guides/multi-agent.en.md:191`), before the context of Start ends. With room in the
  queue for every caller Stop returns and the queue is drained (ComponentsLive).

Met while modelling, without a run of their own:

- A tool that reports `context.Canceled` by itself leaves a call that needs reconciliation;
  lines 250-255 of `durable_runner.go` first choose waiting and then overwrite it with
  cancelled, so the run ends with the call unreconciled, where `COMPATIBILITY.md:60` keeps
  the need and `runEmitter.emit` (`runner.go:931-939`) announces the run as waiting.
- `DoCtx` is said to return an error after losing its lease
  (`session_lane_distributed.go:80`). A loss is known from a failed renewal only; a callback
  that returns before that is answered without an error. Storage that compares tokens is
  unaffected.
- A graph's node that waited, was answered, and failed on record in a session that then
  lost the run before the run was failed is executed again by the next session; if it now
  succeeds, its adoption is refused by `commit.go:206-213` for ever, and the run can only be
  cancelled, where `durable.go:219` says that recovery adopts the original result and takes
  no conflict for a permission to execute. It is the exception stated in `LosersHaveLost`.
- `ReachTurnBoundary(StopAfterTools)` is not called on the resume path: `runner.go:324-349`
  executes an interrupted step's pending tools without it (its call sites are 475, 493 and
  517). And a second stop request replaces the boundary of the first
  (`turn_controller.go:97`), so the earlier one passes without stopping.
- `AgentNetwork.Request` waits for a routed response that names it, but the response of a
  handler or of the target agent goes to the inbox of the sender (`network.go:1063`): it
  answers nobody, and the request ends with its context. A response that comes after its
  request has ended is handed to the agent as a new query (1042-1054).
- `LastHeartbeat` is set by `Register` only (`network.go:359`), so every node of a running
  network is offline after three intervals (602) and refuses what is delivered to it.
- `AgentNetwork.Start` after `Stop` returns nil (`network.go:544`), and `Route` refuses every
  message since (864). When the context of Start ends the router stays `running`, and `Send`
  fills a queue that nobody empties.
- `Stream.Publish` is documented as non-blocking (`observe/eventstream/stream.go:150`); it
  takes the lock that a `PublishSync` waiting for a slow subscriber keeps for reading (187).
- `Batcher.Start` is accepted again during and after `Stop` (`llm/batch/batch.go:255`): the
  new collector finds `stopChan` closed, drains into a `batchChan` that may be closed already
  and closes it a second time (371, 401), which panics. `Batcher` models the first life only.
- `Race` and `Any` without futures (`core/async.go:258`, `274`) return one that never completes.

## What TLAPS proves

The theorems hold for every value of the constants that satisfies the assumptions of their
module: for `RunStore` `IdentityAssumption` (the null values are not members of their sets)
and `BoundAssumption` (bounds are numbers, a lease is at least one tick); for
`DurableRunner` `IdentityAssumption` and `PlanAssumption` (tasks are `1..Length`, a snapshot
is the number of tasks it contains, the first is a model call, replay-safe ones are tool
calls); for `SessionLane` `CallAssumption` (each call has a lane, a session or none, a
request or none, and the null values are none of them);
for `DurableGraph` `IdentityAssumption` and its own `PlanAssumption` (routes lead to nodes of
the plan, the order lists every node, bounds are numbers), and `Snapshots = Frontiers`, which
is a hypothesis of the theorems and not an assumption of the module, because TLC would have
to enumerate every frontier. The theorems about
`AgentNetwork` have `NetworkConstants` (homes, kinds and sizes are what their names say) as a
hypothesis, those about `BrowserCoordinator` `BrowserConstants` (calls and closers are
different, every task has an owner and `NoTask` is none of them, bounds are numbers), since
each is composed with others elsewhere. `Components` assumes what its five components do
(`ComponentsConstants`: these two, `WorkflowConstants`, and sizes of queues, batches and
channels that are not 0), and its theorems have no other hypothesis. That of
`WorkflowProofs` is `Kept`: `WorkflowConstants` (the steps are a sequence without
repetitions, each with its dependencies, which need not be steps) and `Durable \/ Serial`, a
durable driver or a host that recovers only what nobody runs. Without the latter
`StepsRunOnce` is false, which is the finding of WorkflowStale.

| Module | Theorem | Says |
|---|---|---|
| `RunStoreProofs` | `TypeCorrect` | `[]TypeOK` |
| | `AuthorityIsUnique` | `[]OneAuthority` |
| | `PollAgreesWithClaim` | `[]PollFindsClaimable` |
| | `SleepersAreUnanswered` | `[]NoSleepingSignal` |
| | `LedgerIsLinear` | `[]LedgerIsOrdered` |
| | `RevisionsNameFacts` | `RevisionNamesFacts` |
| | `StoreIsLedger` | `RunLedgerSpec`: the store implements the ledger |
| `DurableRunnerProofs` | `RunnerTypes` | `[]TypeOK` of the runner |
| | `EffectsHappenOnce` | `[]EffectAtMostOnce` |
| | `ResultsAreExecuted` | `[]ResultsAreEarned` |
| | `SnapshotsHaveResults` | `[]SnapshotsAreBacked` |
| | `SnapshotsAdvance` | `SnapshotNeverRecedes` |
| | `RunIsLedger` | the record of a run under workers and faults implements the ledger |
| `DurableGraphProofs` | `GraphTypes` | `[]TypeOK`, and a session that works on a node has one |
| | `NodesHappenOnce` | `[]NodesRunOnce` |
| | `FrontiersHaveResults` | `[]FrontierIsBacked` |
| | `OnlyLosersGiveUp` | `[]LosersHaveLost` |
| | `AnswersAreNotLost` | `[]AnswersAreSettled` |
| | `GraphIsOneWalk` | `GraphIsWalkedOnce`: the run implements `GraphRun` |
| `SessionLaneProofs` | `LaneTypes` | `[]TypeOK` of the lane |
| | `SessionsExclude` | `[]MutualExclusion` |
| | `RequestsRunOnce` | `[]Once` |
| | `RetriesAgree` | `[]SameAnswer` |
| `AgentNetworkProofs` | `NetworkTypes` | `[]TypeOK` of the network |
| | `SendersFindItOpen` | `[]NoSendOnClosed` |
| | `AcceptedMessagesStay` | `[]AcceptedIsKept` |
| `ComponentsProofs` | `ProfileIsSound` | `[]ProfileInv` of the profile |
| | `GateHasOnePlace` | `[]GateIsConserved` |
| | `UnknownKeepsOut` | `[]NothingBesideUnknown` |
| | `ReplacementsAreAlone` | `[]ClosedIsQuiet` |
| | `ChoosersKeepTheirOwners` | `[]ChooserIsTheOwners` |
| | `TasksHaveOneWorker` | `[]OneWorkerPerTask` of the agent server |
| | `StoredEndsStay` | `EndsAreFinal`: of its tasks, and of a driven execution |
| | `RequestsAndMessagesStay` | `[]NothingIsLost` of the batcher and the network |
| | `DrivenWorkflowsAreSafe` | `[]DrivenIsSafe` |
| `WorkflowProofs` | `WorkflowIsSound` | `[]WorkflowInv`, types among it |
| | `UnsafeStepsHappenOnce` | `[]StepsRunOnce` |
| | `CompletionIsEarned` | `[]CompletedIsEarned` |
| | `WaitersAreTold` | `[]WaitersAreToldTheTruth` |
| | `EndsStay` | `EndIsFinal`: what is stored as ended stays |

*The store.* None of its theorems is inductive alone. `AuthorityInv` adds to uniqueness that
an absent run has fence 0 and nobody holds it, and that an owner goes with a fence.
`CommitInv` is the heart: while a transaction has the row locked, the guards it
passed stay true of the record, because every other writer waits for the lock and the
clock only shortens leases, which the guards have already read; so what `FinishCommit`
writes is what `BeginCommit` checked. `ReceiptInv` bounds each receipt by the record: its
revision, fence and event numbers never exceed the record's, and two receipts are ordered;
a new receipt therefore comes after all of them. For the refinement, every action is one of
the record's `Transition`s, with what its guard says of facts. `Factual` keeps the facts
well-formed (only accepted inputs are consumed, only recorded results adopted), and
`RecordIsLedger` maps each transition to an opening, an acceptance, a settlement or a
stutter of `RunLedger`, whoever takes it.

*The runner.* `EffectAtMostOnce` needs to know where the permission to execute an unsafe
call is: `Permitted` says that the activation of a task is the one permission, held by the
session that made it until it executes, and that an executed task has no permission left.
That a session's activation is still the current one rests on `ViewsLag`: a session's copy
of the record is never ahead of it, and at the same revision has the same facts; so a
commit that passes the revision check was decided on the record as it is. `Archived` and
`Earned` tie receipts and results to executions. `SnapshotsAreBacked` needs that what a
session carries is backed already, and `InPlace`, that as long as the session has the run
its snapshot is the session's position; `SnapshotNeverRecedes` follows from both.
`RunIsLedger` is the argument of the store with other actors: what the sessions commit is a
well-formed request that passed its guards (`Stored`), so all that happens to the record are
its transitions. It is not stated for the graph, whose run has been submitted when the model
begins.

*The graph.* Two drifts have to be excluded: of a session from the record, and of the
frontier from the results it claims. `ViewsLag` excludes the first: a session's copy is
never ahead of the record and at the same revision has the same facts, so an applied commit
was decided on the current record. `Permitted` says that the activation of a node that
never waited is the one permission to execute it; `OwnWork`, that what a session activated
itself has a result, has asked, or is being executed, so that its scheduler redispatches
only nodes that asked. `Consistent` excludes the second: a session's frontier fits the
record it knows but for a result still to be saved, and after a commit of its own it fits
what it will read back (`Reads`, `Base`). `Witnessed` adds that results and failures come
from executions. The actions are sorted into kinds (quiet steps, stores, loads, rereads,
redispatches, endings of an execution), each part of `IInv` is proved once per kind, and a
lemma each says that the other sessions are not disturbed. `LeastNumber`, from the
well-foundedness of finite subsets, gives the scheduler's first ready node. TLC checked
`IInv` itself on the instance of the run (1,466,854 states) before it was proved.

*The walk.* `GraphInv` adds to `IInv` what a session owes to the run. `Authority`: who still
holds the run knows its last revision, or will when it has read its commit back. `Follows`:
its frontier is the pinned one, the results it has not saved, and later questions of the
nodes that wait. With these a commit is refused, or read back as another's, only for a lost
run or for a recorded failure, which is `Lost`. `Informed` and `Answering` follow an input
from the moment it is given to a session to the commit that uses it up, and `Numbered` keeps
the questions in order; `AnswersAreSettled` is carried along as a part of the invariant,
since whether an answer stays settled depends on what is pinned next. `Walked` says how far a
frontier has got: what is ready or waits is due, what is completed came after all that could
call it, and its route is one the plan allows. It is kept by the scheduler because the plan's
order is a rank: `UnsettledLeads` shows that nothing unsettled leads to a settled or ready
node, so that completing one never takes anything back (`CompletingMore`). Two
consequences are worth reading for themselves: `RoutesLeadOn`, that the error "reactivates
completed node" of `plan.go:443` is never returned, and `SkippedIsFixed`, that the skipped
nodes, a least set in the model, are closed under the rule that skips them. The steps are
sorted by `GraphKinds` into steps that leave the record's graph alone and commits, and
`GraphIsOneWalk` needs only the commits: `PlainStep` maps one that pins the frontier after a
node to `GraphRun`'s `Complete`, a declared success to `End`, and every other step to a
stutter. TLC checked every part of `GraphInv` on the run's instance before it was proved.

*The lane.* The argument is one inductive invariant, `LaneInv`, proved part by part.
`GateInv`: at most one call is inside a session of a process, and who waits for a lease
uses one. `TokenInv`: a valid token is the last one issued, tokens belong to one call, and
a holder whose lease has not run out has the valid one; so of two holders the one with the
smaller token has lost its lease. `MemoInv`: the maker of an entry finds itself in the
cache as long as the epoch is its own, hence is the only maker of its era. `EntryInv` and
`WaitInv`: who waits, waits for the maker of its own request and era, also after the entry
is gone from the cache. `AnswerInv`: an answer is given once, on the way out. A step that
makes nobody a maker or a waiter keeps the middle part (`Quiet`), so only taking, joining
and losing an entry need an argument of their own.

*The network.* `NoSendOnClosed` is not inductive: the queue is closed two steps after the
router. `Guarded` says that whoever is about to close the queue has closed the router
before, and that a caller waits for the queue of an open router only, because closing it
takes the lock those callers read under. Types need `Placed`: a caller or a router that is
about to use a node, and a router with a message in its hands, has one; nodes are never
taken out of `node`, so the number stays good when the agent is registered anew.
`AcceptedIsKept` counts the places a message is in. `Kept` says it without numbers: it is at
most once in the queue, with one router at most, never in two of queue, router and handled
at a time (`Single`), and somewhere exactly when its sender has queued it (`Accepted`). A
set with at most one element has a cardinality of at most one, which gives the count.

*The browser profile.* `ProfileInv` has a part per promise and what each of them leans on.
`Equipped` and `Apart` say what a call has at each place, `Locked` that a lease's lock is
with one call. `Token` puts the gate's token in exactly one place, which is
`GateIsConserved`; with it a lease that somebody works on is the only one not released, and
nobody else is past the gate. `Succession` orders the sessions: all but the last are
stopped, the live one is not; `Replacement` says that replacements exclude each other and
that what a closer has confirmed is stopped. Together they give `Quiet`, that who works,
works in the last session, hence `ClosedIsQuiet`. `Remembered`, that an action that may
still go on belongs to a session not yet stopped and is known to whoever keeps the gate
(an uncertain lease or a stranded Bind), and `Certain`, that who changes the page has a
certain lease, give `NothingBesideUnknown`. `Chosen` follows the file chooser: it is that of
the lease that was given out, and none is shown to whoever is about to be given one. The
actions are sorted into ten shapes (a wait, a way into the gate, a lease made, locked,
unlocked, freed, ...); each part is proved once per shape. The attempt corrected the model
twice before it succeeded: `ChooserIsTheOwners` had no exception, and the counterexample of
the induction was real for an `Inspect` that finds a lease `FinishTask` made, which TLC then
found with a third lease; and the model let a call work on such an inner lease,
which the code gives to nobody. TLC checked `ProfileInv` on 1,392,506 states before it was
proved.

*The workflow.* `WorkflowInv` compares each run with what is stored. `Copied`, `Starts` and
`Follows` say that what a run has in memory at each place is what is stored, as far as its
revision is the stored one (`Fresh`; in one process it always is): the copy that recovery
read, its reconciled image at the start, the very status and results at work. A save that
succeeds is one of a fresh run, by the revision check of a durable commit or because nobody
else is active (`Alone`), and so was decided on what is stored; since a run at work is
running or paused, nothing stored as ended is written again, which is `EndIsFinal`.
`Reported` adds that what was saved is what the waiters are told. The permission to execute
an unsafe step is followed as in the runner: `Unmarked`, a step that is not on record has had no
effect; `Marked`, who executes a step has put it on record; `Settled`, no other unsafe step
of a run is in doubt; `Sole`, nobody else is about to execute it. `Passed` gives the order for
`CompletedIsEarned`. TLC checked `WorkflowInv` on 81,435 states of the instance in one
process and on 121,889 of the driven one before it was proved; the induction also showed
that the position of a run at the places where it may pause has to be stated (`Marked`),
because the types allow one past the last step.

*The agent server.* `OneExecution` is what `OneWorkerPerTask` rests on: from its admission
until its execution is given up, a request is the one registered in `s.executions` for its
task, and whoever works has been accepted. Two workers of one task are then the same entry.
A request leaves the registry only when its work has ended, so a handler that outlives its
timeout keeps the next request out (`CompleteKeeps`). That a stored end is final (`Ended`)
needs that each step that stores a state looks, under the lock, whether the task is still open.

*The batcher.* `NothingIsLost` counts copies; `InOnePlace` says it without numbers, as `Kept`
does for the network: once in the queue, the buffer, one group under way or one worker's
hands, and never in two of them. `Submitted` follows the caller: a waiting one's request is
on its way. `Grouped` has what the collector must not forget: a flush without a way out is
begun with a buffer that is not empty, and the workers hold nothing before Start.
`CallbackFirst` extends the callback's promise to the group a worker delivers. The lemmas on
`Holds` and `Once` say what `Append`, `Head` and `Tail` do to them; `TrackedIsCounted` turns
the result into the count.

*The composition.* `Projections` says that a step of the whole is a step of each component or
leaves it alone, and `SpecsFit` that it therefore runs as `WorkflowExecutor` and
`AgentNetwork` specify: the theorems of `WorkflowProofs` and `AgentNetworkProofs` are used
through instances of these modules, `W` and `N`, with the constants of the composition.

*Only model-checked.* Liveness (`Rests`, `Returns`, everything of ComponentsLive that is not
the workflow's safety), which needs `ENABLED` and fairness and is outside the prover's reach;
and the properties of plugins. `RefsAreHolders` counts references with folds, whose operator
parameters none of the provers can instantiate; `ServedWhileReferred`, and that no count in
`TypesOK` goes below 0, depend on it.

One thing the mutants taught: in `DurableRunner` the authority check and the revision check
of a commit guard the same interleavings, for every claim that takes a run away from a live
session is followed by a commit before it matters; dropping either alone breaks nothing
there, dropping both does. In `RunStore`, where requests outlive their sessions, each one
is needed.

## Not modelled, and why

- In `DurableRunner`: interrupts, resume targets and waiting snapshots; provider fallback
  and the attempts inside a model call; the lookup's own task and receipt (a lookup is one
  commit with one of three answers); streaming events; budget and compaction middleware.
- In `DurableGraph`: a route that cannot be taken after the result is saved, which fails the
  run (`plan.go:441-449`, `durable.go:482-492`); cyclic plans (Pregel rounds), the any-predecessor trigger, commands,
  barriers, subgraphs, retries inside one execution, parallel execution of ready nodes (the
  durable driver takes them in order), the checkpoint runner and time travel.
- In `PluginGenerations`: the loader, hot reload, factories, health checks, event handlers;
  and the moment between the two halves of `Unregister`, which removes the route under the
  lock and gives the bindings back after it (`registry.go:93-95`).
- In `A2AServer`: push notifications, lists, history, artifacts, authentication, the client;
  and a client that keeps its connection but takes no bytes: a handler that writes to it has
  no deadline (`server.go:161`), and nothing Stop does ends it.
- In `WorkflowExecutor`: the builder, the kinds of steps, outputs and listings.
- In `BrowserCoordinator`: coordinates, screenshots, several pages of a task, a page that is
  named or current without a binding (`coordinator.go:425`, 503), the choice among profiles;
  the tool and the drivers around it. Sessions are registered by a replacement only, when its
  predecessor has been stopped: `RegisterSession` (203-229) is public and accepts a session
  whenever none is live, and `ClosedIsQuiet` rests on what 202 and 289 ask of the host, to
  stop the old session first and connect the new one after that. The ways out of `Release`
  (999), `lockOperation` (597) and `CloseSession` (316) when a context ends are not actions
  of their own: for safety they are a call that does not go on. The check of the session
  after an action and the setting of its chooser (750-760) are one step; a chooser set for a
  stopped session is cleared when the next one is registered.
- In `SessionLane`: a lease service that is replaced while calls are under way
  (`SetDistributedLease`), a callback that enters the lane again, and results that cannot
  be copied.
- In `AgentNetwork`: topologies and neighbours, `Multicast` (a broadcast to a list), handlers
  registered while messages are handled, statistics, contents.
- In `Batcher`: the rate limiter, retries and statistics, which only take time.
- Digests, encodings, codecs and payloads: identities stand for them, and a request whose
  digest differs from its receipt is refused by the code before anything changes.
- Clock skew: the store takes every time from the database. `Aged` counts down what is left
  of a lease or a delay where the code compares an absolute time with the database's
  (`mysql/task.go:238-249`).
- The parts marked `not_modelled` in `PROJECT.json`, each with its reason. Most of the
  143,000 lines are of this kind: adapters of vector stores, loaders, model providers and
  tools, prompts and scoring, policies over texts. Their state is a mutex around a map,
  and a model of them would restate assignments.

## Plan

1. `RunRecord`, `RunStore`, `RunLedger`, with proofs: done.
2. `DurableRunner` with crashes, liveness, findings and proofs: done, without interrupts.
3. `DurableGraph` and `GraphRun`: done for plans without cycles, with proofs and the refinement.
4. `SessionLane`, with proofs: done.
5. `WorkflowExecutor`, `PluginGenerations`, `Batcher`, `A2AServer`, `BrowserCoordinator`,
   `AgentNetwork`: done, all but `PluginGenerations` with proofs of their safety.
6. Interrupts and resume of the runner: waiting snapshots, targets, chosen inputs, late
   receipts; property: an accepted decision is consumed exactly once, by the snapshot that
   contains its effect. The graph's questions are the simpler half of it.
7. `TurnController`: a stop request that is honoured at its boundary and never reaches a
   later turn; the observation above is what it would have to state.
8. Pregel rounds and barriers of the graph; the joint failure of parallel branches.
9. Artifact store, event followers, shared memory of a team, cost accounting.
10. Proofs: the store, the runner, the graph with its refinement, the lane, the browser
    profile, the workflow, the network, the batcher and the agent server: done. Left: the
    plugins, whose counts need folds.
