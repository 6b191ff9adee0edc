------------------------------ MODULE Components ------------------------------
(***************************************************************************)
(* Components that neither share state nor call each other, side by side:  *)
(* the request batcher, the agent-to-agent server, a workflow under the    *)
(* durable driver, an agent network and a browser profile.  The initial    *)
(* state picks the component in focus, the only one that then moves, so    *)
(* that the states of a run are a sum and not a product.  The browser      *)
(* profile is the module's own, the others are instances.                  *)
(***************************************************************************)
EXTENDS BrowserCoordinator

CONSTANTS
  Foci,                        \* the instances a run looks at
  Submitters, BatchWorkers,    \* the batcher's requests and workers
  BatchQueue, BatchSize,       \* the sizes of its queue and of a batch
  Served,                      \* the agent server's tasks
  Senders, Cancellers,         \* connections that send to it and that cancel
  Followers, ChannelSize,      \* its subscribers and the size of their channels
  Drivers,                     \* the workers that drive a workflow
  FlowSteps, FlowNeeds,        \* its steps and what they depend on
  Repeatable,                  \* its steps that are safe to replay
  FlowFaults, FlowReads,       \* bounds of the model on its faults and reads
  NetAgents, NetCallers,       \* the agents of a network and those who send
  NetHome, NetKinds, NetTopical,  \* where they are, what they send, who may name a topic
  NetRouters,                  \* the network's router goroutines
  NetQueue, NetInbox,          \* the sizes of its queue and of an inbox
  NetNodes,                    \* bound of the model on registrations
  NetExpires, NetCancels,      \* the contexts given to it may end
  None                         \* nobody, no execution, no task

VARIABLES
  focus,
  caller, queue, batch, collector, batchChan, chanClosed, worker, stopping, called,
  task, exec, cancelled, req, work, canceller, subs, sub, server,
  stored, attached, owner, copy, run, effects, worked, faults, reads,
  nodes, node, up, running, closed, shut, channel, pending, reply, agent, router, stop, handled

batcher_vars  == <<caller, queue, batch, collector, batchChan, chanClosed, worker, stopping,
                   called>>
a2a_vars      == <<task, exec, cancelled, req, work, canceller, subs, sub, server>>
workflow_vars == <<stored, attached, owner, copy, run, effects, worked, faults, reads>>
net_vars      == <<nodes, node, up, running, closed, shut, channel, pending, reply, agent,
                   router, stop, handled>>

components_vars == <<focus, batcher_vars, a2a_vars, workflow_vars, net_vars, browser_vars>>

Batching == INSTANCE Batcher WITH
  Reqs <- Submitters, Workers <- BatchWorkers, QueueSize <- BatchQueue,
  MaxBatchSize <- BatchSize

A2A == INSTANCE A2AServer WITH
  Tasks <- Served, Reqs <- Senders, Subs <- Followers, NoReq <- None, Cap <- ChannelSize

\* Workers that take the run's lease from each other as they like.
Driven == INSTANCE WorkflowExecutor WITH
  Callers <- Drivers, Nobody <- None, Steps <- FlowSteps, Needs <- FlowNeeds,
  ReplaySafe <- Repeatable, Durable <- TRUE, Serial <- FALSE, MaxFaults <- FlowFaults,
  MaxReads <- FlowReads

Network == INSTANCE AgentNetwork WITH
  Agents <- NetAgents, Callers <- NetCallers, Home <- NetHome, Kinds <- NetKinds,
  Topical <- NetTopical, Routers <- NetRouters, Nobody <- None, QueueSize <- NetQueue,
  InboxSize <- NetInbox, MaxNodes <- NetNodes, MayExpire <- NetExpires,
  MayCancel <- NetCancels, queue <- channel, call <- agent

ASSUME ComponentsConstants ==
  /\ Batching!BatcherConstants /\ A2A!A2AConstants /\ Driven!WorkflowConstants
  /\ BrowserConstants /\ Network!NetworkConstants

OthersInit == Batching!Init /\ A2A!Init /\ Driven!Init /\ Init

ComponentsInit == focus \in Foci /\ OthersInit /\ Network!Init

BatcherStep ==
  /\ focus = "batches" /\ Batching!Next
  /\ UNCHANGED <<focus, a2a_vars, workflow_vars, net_vars, browser_vars>>

AgentStep ==
  /\ focus = "agents" /\ A2A!Next
  /\ UNCHANGED <<focus, batcher_vars, workflow_vars, net_vars, browser_vars>>

WorkflowStep ==
  /\ focus = "driven" /\ Driven!Next
  /\ UNCHANGED <<focus, batcher_vars, a2a_vars, net_vars, browser_vars>>

NetworkStep ==
  /\ focus = "network" /\ Network!Next
  /\ UNCHANGED <<focus, batcher_vars, a2a_vars, workflow_vars, browser_vars>>

ProfileStep ==
  /\ focus = "profile" /\ Next
  /\ UNCHANGED <<focus, batcher_vars, a2a_vars, workflow_vars, net_vars>>

ComponentsNext == BatcherStep \/ AgentStep \/ WorkflowStep \/ NetworkStep \/ ProfileStep

ComponentsSpec == ComponentsInit /\ [][ComponentsNext]_components_vars

----------------------------------------------------------------------------
(* The components' properties, each stated and explained in its module.    *)

\* A waiting caller's request is on its way once, an answered one's is done; a message
\* the network has accepted is queued or has been handled, once, and nobody sends on its
\* closed queue.
NothingIsLost ==
  /\ focus = "batches" => Batching!NothingIsLost
  /\ focus = "network" => Network!AcceptedIsKept /\ Network!NoSendOnClosed

\* A terminal task and an execution stored as ended stay as they are.
EndsAreFinal == A2A!TerminalIsFinal /\ Driven!EndIsFinal

\* One worker at most runs for a task.
OneWorkerPerTask == focus = "agents" => A2A!OneWorkerPerTask

\* A driven workflow executes an unsafe step once at most, completes in order what was
\* done, and tells its waiters what is stored.
DrivenIsSafe ==
  focus = "driven" =>
    Driven!StepsRunOnce /\ Driven!CompletedIsEarned /\ Driven!WaitersAreToldTheTruth
=============================================================================
