----------------------------- MODULE AgentNetwork -----------------------------
(***************************************************************************)
(* The network of agents (src/agent/network.go): nodes with inboxes, a     *)
(* router that hands queued messages to handlers, requests that wait for   *)
(* their response, and the end of it all by Stop.                          *)
(*                                                                         *)
(* A caller is a goroutine in one call of the network, and names the       *)
(* message it sends.  n.mu makes every look at the nodes one step; Stop    *)
(* keeps it while it waits for r.mu, whose readers are the callers at      *)
(* "queueing".  node.mu is held only around selects that do not block.     *)
(* Topologies, priorities, statistics and contents are left out.           *)
(***************************************************************************)
EXTENDS Naturals, Sequences, FiniteSets

CONSTANTS
  Agents,      \* agent identities
  Callers,     \* goroutines that call the network
  Home,        \* caller -> the agent it sends for
  Kinds,       \* caller -> what it may call
  Topical,     \* callers whose topic has a handler of its own
  Routers,     \* goroutines of Start, one per call of it
  Nobody,      \* no caller
  QueueSize,   \* cap(r.queue)
  InboxSize,   \* cap(node.Inbox)
  MaxNodes,    \* nodes ever registered
  MayExpire,   \* the contexts of callers may end
  MayCancel    \* the contexts of Start may end

\* What the constants have to satisfy.
NetworkConstants ==
  /\ Home \in [Callers -> Agents] /\ Topical \subseteq Callers /\ Nobody \notin Callers
  /\ Kinds \in [Callers -> SUBSET {"send", "request", "broadcast", "reply"}]
  /\ {QueueSize, InboxSize, MaxNodes} \subseteq Nat \ {0}
  /\ {MayExpire, MayCancel} \subseteq BOOLEAN

VARIABLES
  nodes,            \* n.nodes: agent -> its node, or 0
  node,             \* the nodes made, in the order of their registration
  up,               \* n.running
  running, closed,  \* r.running, r.closed
  shut,             \* the queue channel is closed
  queue,            \* r.queue
  pending,          \* r.pendingResponses
  reply,            \* caller -> what its response channel holds, or Nobody
  call,             \* caller -> where it is and what it sends
  router,           \* goroutine of Start -> where it is and what it handles
  stop,             \* where Stop is
  handled           \* message -> how often it left the queue for a handler or a requester

network_vars == <<nodes, node, up, running, closed, shut, queue, pending, reply, call, router,
                  stop, handled>>

places == <<nodes, node>>
state  == <<up, running, closed, shut, stop>>

\* n.mu can be had; r.mu can be had for reading, which a waiting writer prevents.
Free     == stop = "idle"
Readable == stop # "locked"

Resting == [at |-> "idle", kind |-> "none", to |-> {}, node |-> 0, re |-> Nobody]
Idle    == [at |-> "none", msg |-> Nobody, node |-> 0]

Init ==
  /\ nodes = [a \in Agents |-> 0] /\ node = <<>>
  /\ up = FALSE /\ running = FALSE /\ closed = FALSE /\ shut = FALSE /\ stop = "idle"
  /\ queue = <<>> /\ pending = {} /\ reply = [c \in Callers |-> Nobody]
  /\ call = [c \in Callers |-> Resting] /\ router = [w \in Routers |-> Idle]
  /\ handled = [c \in Callers |-> 0]

-----------------------------------------------------------------------------
(* Nodes.                                                                  *)

Register(a) ==
  /\ Free /\ nodes[a] = 0 /\ Len(node) < MaxNodes
  /\ node' = Append(node, [agent |-> a, closed |-> FALSE, offline |-> FALSE, inbox |-> 0])
  /\ nodes' = [nodes EXCEPT ![a] = Len(node) + 1]
  /\ UNCHANGED <<state, queue, pending, reply, call, router, handled>>

Unregister(a) ==
  /\ Free /\ nodes[a] # 0
  /\ node' = [node EXCEPT ![nodes[a]].closed = TRUE]
  /\ nodes' = [nodes EXCEPT ![a] = 0]
  /\ UNCHANGED <<state, queue, pending, reply, call, router, handled>>

\* checkHeartbeats, of a loop some Start has begun: the nodes registered before a
\* certain time have been silent for too long.
Silence ==
  /\ Free /\ \E w \in Routers : router[w].at # "none"
  /\ \E k \in 1..Len(node) :
       node' = [i \in DOMAIN node |->
                  [node[i] EXCEPT !.offline = @ \/ (i <= k /\ \E a \in Agents : nodes[a] = i)]]
  /\ UNCHANGED <<nodes, state, queue, pending, reply, call, router, handled>>

\* The agent's host reads the inbox.
Consume(i) ==
  /\ node[i].inbox > 0
  /\ node' = [node EXCEPT ![i].inbox = @ - 1]
  /\ UNCHANGED <<nodes, state, queue, pending, reply, call, router, handled>>

\* deliver, with the node's lock: the message has a place in the inbox.
Takes(i)  == ~node[i].closed /\ ~node[i].offline /\ node[i].inbox < InboxSize
Filled(i) == [node EXCEPT ![i].inbox = @ + 1]

-----------------------------------------------------------------------------
(* Callers.                                                                *)

\* The call returns; RequestResponse forgets the request.
Returns(c, how) ==
  /\ call' = [call EXCEPT ![c].at = how]
  /\ pending' = pending \ {c}

Moves(c, place) == call' = [call EXCEPT ![c].at = place] /\ UNCHANGED pending

\* A handler has seen the message, so somebody may send a response to it.
Seen(m) == handled[m] > 0

Begin(c) ==
  /\ call[c].at = "idle"
  /\ \E kind \in Kinds[c], a \in Agents :
       \/ /\ kind \in {"send", "request"}
          /\ call' = [call EXCEPT ![c] = [Resting EXCEPT !.at = "entering", !.kind = kind,
                                                         !.to = {a}]]
       \/ /\ kind = "reply"
          /\ \E q \in Callers : /\ call[q].kind = "request" /\ Seen(q) /\ Home[q] = a
                                /\ call' = [call EXCEPT ![c] =
                                     [Resting EXCEPT !.at = "entering", !.kind = kind,
                                                     !.to = {a}, !.re = q]]
       \/ /\ kind = "broadcast" /\ Free
          /\ LET others == {b \in Agents \ {Home[c]} : nodes[b] # 0} IN
             call' = [call EXCEPT ![c] = [Resting EXCEPT
                        !.at = IF others = {} THEN "sent" ELSE "finding", !.kind = kind,
                        !.to = others]]
  /\ pending' = IF call'[c].kind = "request" THEN pending \cup {c} ELSE pending
  /\ UNCHANGED <<places, state, queue, reply, router, handled>>

\* Route looks at the router and keeps its read lock when it is to queue.
Enter(c) ==
  /\ call[c].at = "entering" /\ Readable
  /\ \/ closed /\ Returns(c, "failed")
     \/ ~closed /\ running /\ Moves(c, "queueing")
     \/ ~closed /\ ~running /\ Moves(c, "finding")
  /\ UNCHANGED <<places, state, queue, reply, router, handled>>

\* What a caller does when its message is on its way.
Sent(c) == IF call[c].kind = "request" THEN Moves(c, "waiting") ELSE Returns(c, "sent")

Enqueue(c) ==
  /\ call[c].at = "queueing" /\ Len(queue) < QueueSize
  /\ queue' = Append(queue, c)
  /\ Sent(c)
  /\ UNCHANGED <<places, state, reply, router, handled>>

\* The caller's context ends while it waits for the queue or for the response.
Expire(c) ==
  /\ MayExpire /\ call[c].at \in {"queueing", "waiting"}
  /\ Returns(c, "expired")
  /\ UNCHANGED <<places, state, queue, reply, router, handled>>

\* deliver for the caller has come to an end with agent a; a broadcast goes on.
Past(c, a, ok) ==
  IF call[c].to # {a}
  THEN /\ call' = [call EXCEPT ![c].at = "finding", ![c].to = @ \ {a}]
       /\ UNCHANGED pending
  ELSE IF ok THEN Sent(c) ELSE Returns(c, "failed")

\* deliver looks for the target's node.
Find(c) ==
  /\ call[c].at = "finding" /\ Free
  /\ \E a \in call[c].to :
       \/ nodes[a] = 0 /\ Past(c, a, FALSE)
       \/ /\ nodes[a] # 0
          /\ call' = [call EXCEPT ![c].at = "putting", ![c].node = nodes[a]]
          /\ UNCHANGED pending
  /\ UNCHANGED <<places, state, queue, reply, router, handled>>

\* deliver locks the node it has found, which may be another's or closed by now.
Put(c) ==
  /\ call[c].at = "putting"
  /\ LET i == call[c].node IN
       \/ Takes(i) /\ node' = Filled(i) /\ Past(c, node[i].agent, TRUE)
       \/ (~Takes(i) \/ MayExpire) /\ Past(c, node[i].agent, FALSE) /\ UNCHANGED node
  /\ UNCHANGED <<nodes, state, queue, reply, router, handled>>

\* RequestResponse is told.
Receive(c) ==
  /\ call[c].at = "waiting" /\ reply[c] # Nobody
  /\ Returns(c, "told")
  /\ UNCHANGED <<places, state, queue, reply, router, handled>>

-----------------------------------------------------------------------------
(* The router.                                                             *)

Goes(w, place) == router' = [router EXCEPT ![w].at = place]
Rests(w)       == router' = [router EXCEPT ![w] = [Idle EXCEPT !.at = "loop"]]

\* AgentNetwork.Start, also of a network that was stopped.
Start(w) ==
  /\ Free /\ ~up /\ router[w].at = "none"
  /\ up' = TRUE
  /\ Goes(w, "starting")
  /\ UNCHANGED <<places, running, closed, shut, stop, queue, pending, reply, call, handled>>

\* The goroutine begins.
Launch(w) ==
  /\ router[w].at = "starting" /\ Readable /\ \A c \in Callers : call[c].at # "queueing"
  /\ running' = TRUE
  /\ Goes(w, "loop")
  /\ UNCHANGED <<places, up, closed, shut, stop, queue, pending, reply, call, handled>>

Take(w) ==
  /\ router[w].at = "loop" /\ queue # <<>>
  /\ router' = [router EXCEPT ![w].at = "holding", ![w].msg = Head(queue)]
  /\ queue' = Tail(queue)
  /\ UNCHANGED <<places, state, pending, reply, call, handled>>

\* The loop ends with the context of Start, of which the router takes no note, or with
\* the closed queue when it is empty.
End(w) ==
  /\ router[w].at = "loop" /\ (MayCancel \/ (shut /\ queue = <<>>))
  /\ Goes(w, "ended")
  /\ UNCHANGED <<places, state, queue, pending, reply, call, handled>>

\* A response to a request that is pending.
Matches(m) == call[m].kind = "reply" /\ call[m].re \in pending

Handled(m) == handled' = [handled EXCEPT ![m] = @ + 1]

Match(w) ==
  LET m == router[w].msg
      q == call[m].re IN
  /\ router[w].at = "holding" /\ Matches(m)
  /\ reply' = [reply EXCEPT ![q] = IF @ = Nobody THEN m ELSE @]
  /\ Handled(m)
  /\ Rests(w)
  /\ UNCHANGED <<places, state, queue, pending, call>>

\* HandleMessage, also of a response nobody waits for any more.
Dispatch(w) ==
  /\ router[w].at = "holding" /\ ~Matches(router[w].msg) /\ Free
  /\ Handled(router[w].msg)
  /\ Goes(w, "handling")
  /\ UNCHANGED <<places, state, queue, pending, reply, call>>

\* The handler returns; the one of a topic may have no response, the default one asks
\* the target's agent, if it is there.
Handle(w) ==
  LET m == router[w].msg IN
  /\ router[w].at = "handling" /\ (m \in Topical \/ Free)
  /\ \/ Rests(w)
     \/ /\ m \in Topical \/ \A a \in call[m].to : nodes[a] # 0
        /\ Goes(w, "finding")
  /\ UNCHANGED <<places, state, queue, pending, reply, call, handled>>

\* The response is delivered to the inbox of the sender.
Locate(w) ==
  LET i == nodes[Home[router[w].msg]] IN
  /\ router[w].at = "finding" /\ Free
  /\ \/ i = 0 /\ Rests(w)
     \/ i # 0 /\ router' = [router EXCEPT ![w].at = "putting", ![w].node = i]
  /\ UNCHANGED <<places, state, queue, pending, reply, call, handled>>

Respond(w) ==
  LET i == router[w].node IN
  /\ router[w].at = "putting"
  /\ \/ Takes(i) /\ node' = Filled(i)
     \/ (~Takes(i) \/ MayCancel) /\ UNCHANGED node
  /\ Rests(w)
  /\ UNCHANGED <<nodes, state, queue, pending, reply, call, handled>>

-----------------------------------------------------------------------------
(* AgentNetwork.Stop keeps n.mu to its end.                                *)

Stop ==
  /\ Free
  /\ up' = FALSE
  /\ stop' = IF closed THEN "closing" ELSE "locked"
  /\ UNCHANGED <<places, running, closed, shut, queue, pending, reply, call, router, handled>>

\* MessageRouter.Stop, once: r.mu when no reader has it.
StopRouter ==
  /\ stop = "locked" /\ \A c \in Callers : call[c].at # "queueing"
  /\ running' = FALSE /\ closed' = TRUE
  /\ stop' = "closing"
  /\ UNCHANGED <<places, up, shut, queue, pending, reply, call, router, handled>>

\* close(r.queue), once, and the inboxes.
StopNodes ==
  /\ stop = "closing"
  /\ shut' = TRUE
  /\ node' = [i \in DOMAIN node |->
                [node[i] EXCEPT !.closed = @ \/ \E a \in Agents : nodes[a] = i]]
  /\ stop' = "idle"
  /\ UNCHANGED <<nodes, up, running, closed, queue, pending, reply, call, router, handled>>

-----------------------------------------------------------------------------
CallerStep(c) == Enter(c) \/ Enqueue(c) \/ Find(c) \/ Put(c) \/ Receive(c)
RouterStep(w) ==
  Launch(w) \/ Take(w) \/ Match(w) \/ Dispatch(w) \/ Handle(w) \/ Locate(w) \/ Respond(w)

Next ==
  \/ \E a \in Agents : Register(a) \/ Unregister(a)
  \/ Silence \/ \E i \in DOMAIN node : Consume(i)
  \/ \E c \in Callers : Begin(c) \/ Expire(c) \/ CallerStep(c)
  \/ \E w \in Routers : Start(w) \/ End(w) \/ RouterStep(w)
  \/ Stop \/ StopRouter \/ StopNodes

Spec == Init /\ [][Next]_network_vars

(* Goroutines go on and handlers return; nobody has to call the network,   *)
(* and no context has to end.  A sync.RWMutex lets who waits for it in     *)
(* after the others, so a step that needs n.mu or r.mu is not passed over  *)
(* for ever.                                                               *)
Fairness ==
  /\ \A c \in Callers : SF_network_vars(CallerStep(c))
  /\ \A w \in Routers : /\ SF_network_vars(RouterStep(w))
                        /\ WF_network_vars(shut /\ End(w))
  /\ WF_network_vars(StopRouter) /\ WF_network_vars(StopNodes)

FairSpec == Spec /\ Fairness

-----------------------------------------------------------------------------
NodeType == [agent : Agents, closed : BOOLEAN, offline : BOOLEAN, inbox : 0..InboxSize]
CallType ==
  [at : {"idle", "entering", "queueing", "finding", "putting", "waiting", "sent", "failed",
         "expired", "told"},
   kind : {"none", "send", "request", "broadcast", "reply"}, to : SUBSET Agents,
   node : 0..MaxNodes, re : Callers \cup {Nobody}]
RouterType ==
  [at : {"none", "starting", "loop", "holding", "handling", "finding", "putting", "ended"},
   msg : Callers \cup {Nobody}, node : 0..MaxNodes]

TypeOK ==
  /\ node \in Seq(NodeType) /\ Len(node) <= MaxNodes /\ nodes \in [Agents -> 0..Len(node)]
  /\ {up, running, closed, shut} \subseteq BOOLEAN /\ stop \in {"idle", "locked", "closing"}
  /\ queue \in Seq(Callers) /\ Len(queue) <= QueueSize
  /\ pending \subseteq Callers /\ reply \in [Callers -> Callers \cup {Nobody}]
  /\ call \in [Callers -> CallType] /\ router \in [Routers -> RouterType]
  /\ handled \in [Callers -> Nat]

\* Nobody is about to send on the queue when Stop closes it, which would panic
\* (network.go:875 keeps the lock for that).
NoSendOnClosed == shut => \A c \in Callers : call[c].at # "queueing"

\* A message that Send has taken is in one place, the queue, a router's hands or those
\* of who handled it: neither a Stop, a second Start nor an end of a router loses it.
AcceptedIsKept ==
  \A c \in Callers :
    LET held == Cardinality({i \in DOMAIN queue : queue[i] = c})
                + Cardinality({w \in Routers : router[w].at = "holding" /\ router[w].msg = c})
                + handled[c]
    IN  /\ held <= 1
        /\ call[c].at \in {"sent", "waiting", "told"} /\ call[c].node = 0
             /\ call[c].kind # "broadcast" => held = 1

\* Once the queue is closed, what it holds is handled and its routers come to an end.
StoppedIsDrained ==
  shut /\ (\E w \in Routers : router[w].at \notin {"none", "ended"})
    ~> queue = <<>> /\ \A w \in Routers : router[w].at \in {"none", "ended"}

\* Stop comes to its end.
StopReturns == stop = "locked" ~> Free
=============================================================================
