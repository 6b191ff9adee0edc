--------------------------- MODULE MCComponentsLive ---------------------------
(***************************************************************************)
(* What has to happen in the end, checked for the components side by side  *)
(* as in MCComponents: the initial state picks the one in focus.  The      *)
(* workflow, about whose safety there are theorems, is the module's own,   *)
(* so its safety is checked here as well; the others are instances.        *)
(***************************************************************************)
EXTENDS WorkflowExecutor

CONSTANTS
  Foci,                        \* the instances a run looks at
  Submitters, BatchWorkers,    \* the batcher's requests and workers
  Senders, Cancellers,         \* connections of the agent server
  t1, u1,                      \* its task and a subscriber
  n1, n2                       \* the callers of an agent network

VARIABLES
  focus,
  route, gens, made, leases, op, repl, draining, handed,
  caller, queue, batch, collector, batchChan, chanClosed, worker, stopping, called,
  task, exec, cancelled, req, work, canceller, subs, sub, server,
  nodes, node, up, running, closed, shut, channel, pending, reply, agent, router, stop, handled

plugin_vars  == <<route, gens, made, leases, op, repl, draining, handed>>
batcher_vars == <<caller, queue, batch, collector, batchChan, chanClosed, worker, stopping,
                  called>>
a2a_vars     == <<task, exec, cancelled, req, work, canceller, subs, sub, server>>
net_vars     == <<nodes, node, up, running, closed, shut, channel, pending, reply, agent,
                  router, stop, handled>>

vars == <<focus, plugin_vars, batcher_vars, a2a_vars, workflow_vars, net_vars>>

\* Two steps, the second of which depends on the first.
TwoSteps == <<"s1", "s2">>
InOrder  == [s \in {"s1", "s2"} |-> IF s = "s2" THEN {"s1"} ELSE {}]

\* Plugin a depends on b; both are replaced together.
Deps == [n \in {"a", "b"} |-> IF n = "a" THEN <<"b">> ELSE <<>>]

Together == INSTANCE PluginGenerations WITH
  Names <- {"a", "b"}, Users <- {"u1"}, Hosts <- {"h1"}, lease <- leases,
  Requests <- {<<"a">>, <<"b">>, <<"b", "a">>}, Batches <- {{"a", "b"}},
  Operated <- {"b"}, MaxGens <- 4, MayForce <- FALSE, MayRestore <- FALSE

\* More requests than the queue holds, batches of two.
Batches == INSTANCE Batcher WITH
  Reqs <- Submitters, Workers <- BatchWorkers, QueueSize <- 2, MaxBatchSize <- 2

\* A sender, a canceller and a slow subscriber of one task.
A2A == INSTANCE A2AServer WITH
  Tasks <- {t1}, Reqs <- Senders, Subs <- {u1}, NoReq <- Nobody, Cap <- 1

\* One agent and router, a request and a message or a response to it, room for both.
Network == INSTANCE AgentNetwork WITH
  Agents <- {"a"}, Callers <- {n1, n2}, Home <- [c \in {n1, n2} |-> "a"],
  Kinds <- [c \in {n1, n2} |-> IF c = n1 THEN {"request"} ELSE {"send", "reply"}],
  Topical <- {n2}, Routers <- {"v1"}, QueueSize <- 2, InboxSize <- 1, MaxNodes <- 1,
  MayExpire <- FALSE, MayCancel <- FALSE, queue <- channel, call <- agent

ASSUME /\ Together!AcyclicDeps /\ Batches!BatcherConstants /\ A2A!A2AConstants
       /\ WorkflowConstants /\ Network!NetworkConstants

LiveInit ==
  /\ focus \in Foci
  /\ Together!Init /\ Batches!Init /\ A2A!Init /\ Network!Init
  /\ Init

PluginStep ==
  /\ focus = "together" /\ Together!Next
  /\ UNCHANGED <<focus, batcher_vars, a2a_vars, workflow_vars, net_vars>>

BatcherStep ==
  /\ focus = "batches" /\ Batches!Next
  /\ UNCHANGED <<focus, plugin_vars, a2a_vars, workflow_vars, net_vars>>

AgentStep ==
  /\ focus = "agents" /\ A2A!Next
  /\ UNCHANGED <<focus, plugin_vars, batcher_vars, workflow_vars, net_vars>>

WorkflowStep ==
  /\ focus = "workflow" /\ Next
  /\ UNCHANGED <<focus, plugin_vars, batcher_vars, a2a_vars, net_vars>>

NetworkStep ==
  /\ focus = "network" /\ Network!Next
  /\ UNCHANGED <<focus, plugin_vars, batcher_vars, a2a_vars, workflow_vars>>

LiveNext == PluginStep \/ BatcherStep \/ AgentStep \/ WorkflowStep \/ NetworkStep

LiveSpec == LiveInit /\ [][LiveNext]_vars

----------------------------------------------------------------------------
(* The components' liveness, each stated and explained in its module.  It  *)
(* carries its component's fairness as an antecedent, which only the       *)
(* behaviours in its focus have to meet.                                   *)

\* A retired generation is stopped in the end.
RetiredIsStopped == focus = "together" /\ Together!Fairness => Together!RetiredIsStopped

\* What was queued is answered, or given up by its caller, and the followers of a task
\* that ended are told.
AnswersArrive ==
  /\ focus = "batches" /\ Batches!Fairness => Batches!QueuedIsAnswered
  /\ focus = "agents" /\ A2A!Fairness => A2A!FollowersAreTold

\* Stopping the agent server comes to an end, and so does stopping a network whose
\* queue has room for all who send.
StopComesToAnEnd ==
  /\ focus = "agents" /\ A2A!Fairness => A2A!StopComesToAnEnd
  /\ focus = "network" /\ Network!Fairness => Network!StopReturns /\ Network!StoppedIsDrained

\* A started workflow ends or waits in a pause it can leave.
WorkflowSettles == focus = "workflow" /\ Fairness => RunsSettle
=============================================================================
