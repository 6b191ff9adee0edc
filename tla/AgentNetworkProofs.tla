------------------------- MODULE AgentNetworkProofs -------------------------
(***************************************************************************)
(* Theorems about AgentNetwork for any agents, callers, routers and sizes. *)
(***************************************************************************)
EXTENDS AgentNetwork, SequenceTheorems, FiniteSetTheorems, TLAPS

-----------------------------------------------------------------------------
(***************************************************************************)
(* The inductive invariant.                                                *)
(***************************************************************************)

\* Who is about to use a node or a message has one.
Placed ==
  /\ \A c \in Callers : call[c].at = "putting" => call[c].node \in 1..Len(node)
  /\ \A w \in Routers :
       /\ router[w].at \in {"holding", "handling", "finding", "putting"} =>
            router[w].msg \in Callers
       /\ router[w].at = "putting" => router[w].node \in 1..Len(node)

Typed == TypeOK /\ Placed

\* The queue is closed by who has closed the router, and the router is closed when no
\* caller has its lock.
Guarded ==
  /\ shut => closed
  /\ stop = "closing" => closed
  /\ \A c \in Callers : call[c].at = "queueing" => ~closed

-----------------------------------------------------------------------------
(***************************************************************************)
(* Types.                                                                  *)
(***************************************************************************)

\* A change of the nodes in their places leaves as many of them.
LEMMA NodesStay ==
  ASSUME node \in Seq(NodeType), NEW f \in [DOMAIN node -> NodeType]
  PROVE  f \in Seq(NodeType) /\ Len(f) = Len(node)
  <1>1. DOMAIN node = 1..Len(node) /\ Len(node) \in Nat
    BY LenProperties
  <1>2. f \in Seq(NodeType)
    BY <1>1
  <1> QED
    BY <1>1, <1>2, LenProperties

\* So does a message put into an inbox with room for it.
LEMMA FilledStays ==
  ASSUME NetworkConstants, node \in Seq(NodeType), NEW i \in 1..Len(node), Takes(i)
  PROVE  Filled(i) \in Seq(NodeType) /\ Len(Filled(i)) = Len(node)
  <1>1. DOMAIN node = 1..Len(node) /\ node[i] \in NodeType
    BY LenProperties, ElementOfSeq
  <1>2. [node[i] EXCEPT !.inbox = @ + 1] \in NodeType
    BY <1>1 DEF NodeType, Takes, NetworkConstants
  <1>3. Filled(i) \in [DOMAIN node -> NodeType]
    BY <1>1, <1>2, ElementOfSeq DEF Filled
  <1> QED
    BY <1>3, NodesStay

LEMMA StartTypes == NetworkConstants => Resting \in CallType /\ Idle \in RouterType
  BY DEF NetworkConstants, Resting, Idle, CallType, RouterType

LEMMA TypedInit == NetworkConstants /\ Init => Typed
  <1> SUFFICES ASSUME NetworkConstants, Init PROVE Typed
    OBVIOUS
  <1>1. node \in Seq(NodeType) /\ Len(node) = 0 /\ Len(queue) = 0 /\ queue \in Seq(Callers)
    BY DEF Init
  <1>2. Resting \in CallType /\ Idle \in RouterType
    BY StartTypes
  <1>3. call \in [Callers -> CallType] /\ router \in [Routers -> RouterType]
    BY <1>2 DEF Init
  <1>a. {up, running, closed, shut} \subseteq BOOLEAN /\ stop \in {"idle", "locked", "closing"}
    BY Zenon DEF Init
  <1>b. Len(node) <= MaxNodes /\ Len(queue) <= QueueSize /\ nodes \in [Agents -> 0..Len(node)]
    BY <1>1 DEF Init, NetworkConstants
  <1>c. /\ pending \subseteq Callers /\ reply \in [Callers -> Callers \cup {Nobody}]
        /\ handled \in [Callers -> Nat]
    BY DEF Init
  <1>4. TypeOK
    BY <1>1, <1>3, <1>a, <1>b, <1>c, Zenon DEF TypeOK
  <1>5. Placed
    BY DEF Init, Placed, Resting, Idle
  <1> QED
    BY <1>4, <1>5 DEF Typed

\* A step of the nodes.
LEMMA TypedNodes ==
  ASSUME NetworkConstants, Typed,
         \/ \E a \in Agents : Register(a) \/ Unregister(a)
         \/ Silence \/ \E i \in DOMAIN node : Consume(i)
         \/ StopNodes
  PROVE  Typed'
  <1> USE DEF NetworkConstants
  <1>0. DOMAIN node = 1..Len(node) /\ Len(node) \in Nat /\ \A i \in DOMAIN node : node[i] \in NodeType
    BY LenProperties, ElementOfSeq DEF Typed, TypeOK
  <1>1. /\ node' \in Seq(NodeType) /\ Len(node') <= MaxNodes /\ Len(node) <= Len(node')
        /\ nodes' \in [Agents -> 0..Len(node')]
    <2>1. CASE \E a \in Agents : Register(a)
      <3> PICK a \in Agents : Register(a)
        BY <2>1
      <3> DEFINE new == [agent |-> a, closed |-> FALSE, offline |-> FALSE, inbox |-> 0]
      <3>1. new \in NodeType
        BY DEF NodeType
      <3>2. node' = Append(node, new) /\ node' \in Seq(NodeType) /\ Len(node') = Len(node) + 1
        BY <3>1, AppendProperties DEF Register, Typed, TypeOK
      <3> QED
        BY <1>0, <3>2 DEF Register, Typed, TypeOK
    <2>2. CASE \E a \in Agents : Unregister(a)
      <3> PICK a \in Agents : Unregister(a)
        BY <2>2
      <3>1. nodes[a] \in DOMAIN node
        BY <1>0 DEF Unregister, Typed, TypeOK
      <3>2. node' \in [DOMAIN node -> NodeType]
        BY <1>0, <3>1 DEF Unregister, NodeType
      <3>3. node' \in Seq(NodeType) /\ Len(node') = Len(node)
        BY <3>2, NodesStay DEF Typed, TypeOK
      <3> QED
        BY <1>0, <3>3 DEF Unregister, Typed, TypeOK
    <2>3. CASE Silence
      <3>0. PICK k \in 1..Len(node) : node' = [i \in DOMAIN node |->
              [node[i] EXCEPT !.offline = @ \/ (i <= k /\ \E a \in Agents : nodes[a] = i)]]
        BY <2>3, Zenon DEF Silence
      <3> DEFINE silent(i) == node[i].offline \/ (i <= k /\ \E a \in Agents : nodes[a] = i)
                 changed(i) == [node[i] EXCEPT !.offline = silent(i)]
      <3>a. ASSUME NEW i \in DOMAIN node PROVE silent(i) \in BOOLEAN
        BY <1>0 DEF NodeType
      <3>b. node' = [i \in DOMAIN node |-> changed(i)]
        BY <3>0, Zenon
      <3> HIDE DEF silent
      <3>c. ASSUME NEW i \in DOMAIN node PROVE changed(i) \in NodeType
        BY <1>0, <3>a DEF NodeType
      <3> HIDE DEF changed
      <3>1. node' \in [DOMAIN node -> NodeType]
        BY <3>b, <3>c
      <3>2. node' \in Seq(NodeType) /\ Len(node') = Len(node)
        BY <3>1, NodesStay DEF Typed, TypeOK
      <3>3. UNCHANGED nodes
        BY <2>3, Zenon DEF Silence
      <3> QED
        BY <1>0, <3>2, <3>3 DEF Typed, TypeOK
    <2>4. CASE \E i \in DOMAIN node : Consume(i)
      <3> PICK i \in DOMAIN node : Consume(i)
        BY <2>4
      <3>0. node[i].inbox - 1 \in 0..InboxSize
        BY <1>0 DEF Consume, NodeType
      <3>1. node' \in [DOMAIN node -> NodeType]
        BY <1>0, <3>0 DEF Consume, NodeType
      <3>2. node' \in Seq(NodeType) /\ Len(node') = Len(node)
        BY <3>1, NodesStay DEF Typed, TypeOK
      <3> QED
        BY <1>0, <2>4, <3>2 DEF Consume, Typed, TypeOK
    <2>5. CASE StopNodes
      <3> DEFINE over(i) == node[i].closed \/ \E a \in Agents : nodes[a] = i
      <3>a. ASSUME NEW i \in DOMAIN node PROVE over(i) \in BOOLEAN
        BY <1>0 DEF NodeType
      <3>b. node' = [i \in DOMAIN node |-> [node[i] EXCEPT !.closed = over(i)]]
        BY <2>5, Zenon DEF StopNodes
      <3> HIDE DEF over
      <3>c. ASSUME NEW i \in DOMAIN node PROVE [node[i] EXCEPT !.closed = over(i)] \in NodeType
        BY <1>0, <3>a DEF NodeType
      <3>1. node' \in [DOMAIN node -> NodeType]
        BY <3>b, <3>c, Zenon
      <3>2. node' \in Seq(NodeType) /\ Len(node') = Len(node)
        BY <3>1, NodesStay DEF Typed, TypeOK
      <3>3. UNCHANGED nodes
        BY <2>5, Zenon DEF StopNodes
      <3> QED
        BY <1>0, <3>2, <3>3 DEF Typed, TypeOK
    <2> QED
      BY <2>1, <2>2, <2>3, <2>4, <2>5
  <1>2. /\ UNCHANGED <<queue, pending, reply, call, router, handled, up, running, closed>>
        /\ shut' \in BOOLEAN /\ stop' \in {"idle", "locked", "closing"}
    BY DEF Register, Unregister, Silence, Consume, StopNodes, state, Typed, TypeOK
  <1>3. Len(node') \in Nat
    BY <1>1, LenProperties
  <1>4. TypeOK'
    BY <1>1, <1>2 DEF Typed, TypeOK
  <1>5. Placed'
    BY <1>0, <1>1, <1>2, <1>3 DEF Typed, Placed
  <1> QED
    BY <1>4, <1>5 DEF Typed

\* What a step of a caller has to leave.
LEMMA TypedCall ==
  ASSUME NetworkConstants, Typed, NEW c \in Callers, NEW k \in CallType,
         call' = [call EXCEPT ![c] = k], k.at = "putting" => k.node \in 1..Len(node),
         pending' \in SUBSET Callers, queue' \in Seq(Callers), Len(queue') <= QueueSize,
         node' \in Seq(NodeType), Len(node') = Len(node),
         UNCHANGED <<nodes, state, reply, router, handled>>
  PROVE  Typed'
  <1>1. TypeOK'
    <2>1. {up', running', closed', shut'} \subseteq BOOLEAN
      BY Zenon DEF Typed, TypeOK, state
    <2>2. call' \in [Callers -> CallType]
      BY DEF Typed, TypeOK
    <2>3. stop' = stop /\ nodes' = nodes /\ reply' = reply /\ router' = router /\ handled' = handled
      BY DEF state
    <2> QED
      BY <2>1, <2>2, <2>3, Zenon DEF Typed, TypeOK
  <1>2. Placed'
    BY DEF Typed, TypeOK, Placed
  <1> QED
    BY <1>1, <1>2 DEF Typed

\* The places a caller can go to.
LEMMA CallPlaces ==
  ASSUME Typed, NEW c \in Callers, NEW p \in {"queueing", "finding", "waiting", "sent", "failed",
                                              "expired", "told"}
  PROVE  /\ [call[c] EXCEPT !.at = p] \in CallType
         /\ [call[c] EXCEPT !.at = p].at = p
         /\ [call EXCEPT ![c].at = p] = [call EXCEPT ![c] = [call[c] EXCEPT !.at = p]]
  BY DEF Typed, TypeOK, CallType

\* Returns and Moves are such steps.
LEMMA TypedMove ==
  ASSUME NetworkConstants, Typed, NEW c \in Callers,
         NEW p \in {"queueing", "finding", "waiting", "sent", "failed", "expired", "told"},
         Returns(c, p) \/ Moves(c, p),
         queue' \in Seq(Callers), Len(queue') <= QueueSize,
         node' \in Seq(NodeType), Len(node') = Len(node),
         UNCHANGED <<nodes, state, reply, router, handled>>
  PROVE  Typed'
  <1>1. pending' \in SUBSET Callers
    BY DEF Returns, Moves, Typed, TypeOK
  <1>2. call' = [call EXCEPT ![c] = [call[c] EXCEPT !.at = p]]
    BY CallPlaces DEF Returns, Moves
  <1>3. [call[c] EXCEPT !.at = p] \in CallType /\ [call[c] EXCEPT !.at = p].at # "putting"
    BY CallPlaces
  <1> DEFINE k == [call[c] EXCEPT !.at = p]
  <1> HIDE DEF k
  <1> QED
    BY <1>1, <1>2, <1>3, TypedCall DEF k

\* A message is on its way, or not.
LEMMA TypedSent ==
  ASSUME NetworkConstants, Typed, NEW c \in Callers, Sent(c),
         queue' \in Seq(Callers), Len(queue') <= QueueSize,
         node' \in Seq(NodeType), Len(node') = Len(node),
         UNCHANGED <<nodes, state, reply, router, handled>>
  PROVE  Typed'
  <1>1. Moves(c, "waiting") \/ Returns(c, "sent")
    BY DEF Sent
  <1>2. CASE Moves(c, "waiting")
    BY <1>2, TypedMove
  <1>3. CASE Returns(c, "sent")
    BY <1>3, TypedMove
  <1> QED
    BY <1>1, <1>2, <1>3

LEMMA TypedPast ==
  ASSUME NetworkConstants, Typed, NEW c \in Callers, NEW a, NEW ok \in BOOLEAN, Past(c, a, ok),
         node' \in Seq(NodeType), Len(node') = Len(node),
         UNCHANGED <<nodes, state, queue, reply, router, handled>>
  PROVE  Typed'
  <1>0. queue' \in Seq(Callers) /\ Len(queue') <= QueueSize
    BY DEF Typed, TypeOK
  <1>1. CASE call[c].to # {a}
    <2> DEFINE k == [call[c] EXCEPT !.at = "finding", !.to = @ \ {a}]
    <2>1. k \in CallType /\ k.at = "finding"
      BY DEF Typed, TypeOK, CallType
    <2>2. call' = [call EXCEPT ![c] = k] /\ pending' = pending
      BY <1>1 DEF Past, Typed, TypeOK
    <2>3. pending' \in SUBSET Callers
      BY <2>2 DEF Typed, TypeOK
    <2> HIDE DEF k
    <2> QED
      BY <1>0, <2>1, <2>2, <2>3, TypedCall
  <1>2. CASE call[c].to = {a} /\ ok
    BY <1>0, <1>2, TypedSent DEF Past
  <1>3. CASE call[c].to = {a} /\ ~ok
    BY <1>0, <1>3, TypedMove DEF Past
  <1> QED
    BY <1>1, <1>2, <1>3

LEMMA TypedBegin ==
  ASSUME NetworkConstants, Typed, NEW c \in Callers, Begin(c)
  PROVE  Typed'
  <1>0. /\ queue' \in Seq(Callers) /\ Len(queue') <= QueueSize
        /\ node' \in Seq(NodeType) /\ Len(node') = Len(node)
        /\ UNCHANGED <<nodes, state, reply, router, handled>>
    BY DEF Begin, places, Typed, TypeOK
  <1>1. pending' \in SUBSET Callers
    BY DEF Begin, Typed, TypeOK
  <1>2. \E k \in CallType : k.at # "putting" /\ call' = [call EXCEPT ![c] = k]
    <2> PICK kind \in Kinds[c], a \in Agents :
          \/ /\ kind \in {"send", "request"}
             /\ call' = [call EXCEPT ![c] = [Resting EXCEPT !.at = "entering", !.kind = kind,
                                                            !.to = {a}]]
          \/ /\ kind = "reply"
             /\ \E q \in Callers : /\ call[q].kind = "request" /\ Seen(q) /\ Home[q] = a
                                   /\ call' = [call EXCEPT ![c] =
                                        [Resting EXCEPT !.at = "entering", !.kind = kind,
                                                        !.to = {a}, !.re = q]]
          \/ /\ kind = "broadcast" /\ Free
             /\ LET others == {b \in Agents \ {Home[c]} : nodes[b] # 0} IN
                call' = [call EXCEPT ![c] = [Resting EXCEPT
                           !.at = IF others = {} THEN "sent" ELSE "finding", !.kind = kind,
                           !.to = others]]
      BY DEF Begin
    <2>a. kind \in {"send", "request", "broadcast", "reply"}
      <3>1. Kinds[c] \in SUBSET {"send", "request", "broadcast", "reply"}
        BY DEF NetworkConstants
      <3> QED
        BY <3>1, Zenon
    <2>b. Resting \in CallType
      BY StartTypes
    <2>1. kind \in {"send", "request", "broadcast", "reply"} /\ Resting \in CallType
      BY <2>a, <2>b
    <2>2. [Resting EXCEPT !.at = "entering", !.kind = kind, !.to = {a}] \in CallType
      BY <2>1 DEF CallType
    <2>3. \A q \in Callers :
            [Resting EXCEPT !.at = "entering", !.kind = kind, !.to = {a}, !.re = q] \in CallType
      BY <2>1 DEF CallType
    <2>4. \A others \in SUBSET Agents, p \in {"sent", "finding"} :
            [Resting EXCEPT !.at = p, !.kind = kind, !.to = others] \in CallType
      BY <2>1 DEF CallType
    <2> QED
      BY <2>2, <2>3, <2>4 DEF Resting
  <1> QED
    BY <1>0, <1>1, <1>2, TypedCall

LEMMA TypedCaller ==
  ASSUME NetworkConstants, Typed, NEW c \in Callers, Begin(c) \/ Expire(c) \/ CallerStep(c)
  PROVE  Typed'
  <1>0. node \in Seq(NodeType) /\ queue \in Seq(Callers) /\ Len(queue) <= QueueSize
    BY DEF Typed, TypeOK
  <1>1. CASE Begin(c)
    BY <1>1, TypedBegin
  <1>2. CASE Expire(c)
    BY <1>0, <1>2, TypedMove DEF Expire, places
  <1>3. CASE Enter(c)
    <2>1. UNCHANGED <<nodes, node, state, queue, reply, router, handled>>
      BY <1>3 DEF Enter, places
    <2>2. Returns(c, "failed") \/ Moves(c, "queueing") \/ Moves(c, "finding")
      BY <1>3 DEF Enter
    <2> QED
      BY <1>0, <2>1, <2>2, TypedMove
  <1>4. CASE Enqueue(c)
    <2>1. queue' = Append(queue, c) /\ Len(queue) < QueueSize
      BY <1>4 DEF Enqueue
    <2>2. queue' \in Seq(Callers) /\ Len(queue') <= QueueSize
      BY <1>0, <2>1, AppendProperties DEF NetworkConstants
    <2> QED
      BY <1>0, <1>4, <2>2, TypedSent DEF Enqueue, places
  <1>5. CASE Find(c)
    <2>1. UNCHANGED <<nodes, node, state, queue, reply, router, handled>>
      BY <1>5 DEF Find, places
    <2> PICK a \in call[c].to :
          \/ nodes[a] = 0 /\ Past(c, a, FALSE)
          \/ /\ nodes[a] # 0
             /\ call' = [call EXCEPT ![c].at = "putting", ![c].node = nodes[a]]
             /\ UNCHANGED pending
      BY <1>5 DEF Find
    <2>2. CASE Past(c, a, FALSE)
      BY <1>0, <2>1, <2>2, TypedPast
    <2>3. CASE /\ nodes[a] # 0
               /\ call' = [call EXCEPT ![c].at = "putting", ![c].node = nodes[a]]
               /\ UNCHANGED pending
      <3> DEFINE k == [call[c] EXCEPT !.at = "putting", !.node = nodes[a]]
      <3>1. nodes[a] \in 1..Len(node) /\ nodes[a] \in 0..MaxNodes
        <4>1. a \in Agents
          BY DEF Typed, TypeOK, CallType
        <4>2. nodes[a] \in 0..Len(node) /\ Len(node) <= MaxNodes /\ Len(node) \in Nat
          BY <4>1, LenProperties DEF Typed, TypeOK
        <4> QED
          BY <2>3, <4>2 DEF NetworkConstants
      <3>2. k \in CallType /\ k.node \in 1..Len(node)
        <4>1. call[c] \in CallType
          BY DEF Typed, TypeOK
        <4>2. ASSUME NEW x \in CallType, NEW n \in 0..MaxNodes
              PROVE  /\ [x EXCEPT !.at = "putting", !.node = n] \in CallType
                     /\ [x EXCEPT !.at = "putting", !.node = n].node = n
          BY DEF CallType
        <4> QED
          BY <3>1, <4>1, <4>2, Zenon
      <3>3. call' = [call EXCEPT ![c] = k]
        BY <2>3 DEF Typed, TypeOK
      <3>4. pending' \in SUBSET Callers
        BY <2>3 DEF Typed, TypeOK
      <3> HIDE DEF k
      <3> QED
        BY <1>0, <2>1, <3>2, <3>3, <3>4, TypedCall
    <2> QED
      BY <2>2, <2>3
  <1>6. CASE Put(c)
    <2> DEFINE i == call[c].node
    <2>0. i \in 1..Len(node)
      BY <1>6 DEF Put, Typed, Placed
    <2>1. CASE Takes(i) /\ node' = Filled(i) /\ Past(c, node[i].agent, TRUE)
      <3>1. node' \in Seq(NodeType) /\ Len(node') = Len(node)
        BY <1>0, <2>0, <2>1, FilledStays
      <3> QED
        BY <1>6, <2>1, <3>1, TypedPast DEF Put
    <2>2. CASE Past(c, node[i].agent, FALSE) /\ UNCHANGED node
      BY <1>0, <1>6, <2>2, TypedPast DEF Put
    <2> QED
      BY <1>6, <2>1, <2>2 DEF Put
  <1>7. CASE Receive(c)
    BY <1>0, <1>7, TypedMove DEF Receive, places
  <1> QED
    BY <1>1, <1>2, <1>3, <1>4, <1>5, <1>6, <1>7 DEF CallerStep

\* What a step of a router goroutine has to leave.
LEMMA TypedRoute ==
  ASSUME NetworkConstants, Typed, NEW w \in Routers, NEW k \in RouterType,
         router' = [router EXCEPT ![w] = k],
         k.at \in {"holding", "handling", "finding", "putting"} => k.msg \in Callers,
         k.at = "putting" => k.node \in 1..Len(node),
         node' \in Seq(NodeType), Len(node') = Len(node),
         queue' \in Seq(Callers), Len(queue') <= QueueSize,
         reply' \in [Callers -> Callers \cup {Nobody}], handled' \in [Callers -> Nat],
         {up', running', closed', shut'} \subseteq BOOLEAN,
         UNCHANGED <<nodes, stop, pending, call>>
  PROVE  Typed'
  <1>1. router' \in [Routers -> RouterType]
    BY DEF Typed, TypeOK
  <1>2. TypeOK'
    BY <1>1, Zenon DEF Typed, TypeOK
  <1>3. Placed'
    BY DEF Typed, TypeOK, Placed
  <1> QED
    BY <1>2, <1>3 DEF Typed

\* A goroutine that goes on with what it has, or rests.
LEMMA RouterPlaces ==
  ASSUME NetworkConstants, Typed, NEW w \in Routers,
         NEW p \in {"starting", "loop", "handling", "finding", "ended"}
  PROVE  /\ [router[w] EXCEPT !.at = p] \in RouterType
         /\ [router[w] EXCEPT !.at = p].at = p
         /\ [router[w] EXCEPT !.at = p].msg = router[w].msg
         /\ [router EXCEPT ![w].at = p] = [router EXCEPT ![w] = [router[w] EXCEPT !.at = p]]
         /\ [Idle EXCEPT !.at = "loop"] \in RouterType
         /\ [Idle EXCEPT !.at = "loop"].at = "loop"
  BY StartTypes DEF Typed, TypeOK, RouterType

LEMMA TypedGo ==
  ASSUME NetworkConstants, Typed, NEW w \in Routers,
         NEW p \in {"starting", "loop", "handling", "finding", "ended"},
         Rests(w) \/ Goes(w, p),
         p \in {"handling", "finding"} => router[w].msg \in Callers,
         node' \in Seq(NodeType), Len(node') = Len(node),
         reply' \in [Callers -> Callers \cup {Nobody}], handled' \in [Callers -> Nat],
         {up', running', closed', shut'} \subseteq BOOLEAN,
         UNCHANGED <<nodes, stop, queue, pending, call>>
  PROVE  Typed'
  <1>0. queue' \in Seq(Callers) /\ Len(queue') <= QueueSize
    BY DEF Typed, TypeOK
  <1>1. CASE Rests(w)
    <2> DEFINE k == [Idle EXCEPT !.at = "loop"]
    <2>1. router' = [router EXCEPT ![w] = k] /\ k \in RouterType /\ k.at = "loop"
      BY <1>1, RouterPlaces DEF Rests
    <2> HIDE DEF k
    <2> QED
      BY <1>0, <2>1, TypedRoute
  <1>2. CASE Goes(w, p)
    <2> DEFINE k == [router[w] EXCEPT !.at = p]
    <2>1. /\ router' = [router EXCEPT ![w] = k] /\ k \in RouterType /\ k.at = p
          /\ k.msg = router[w].msg
      BY <1>2, RouterPlaces DEF Goes
    <2> HIDE DEF k
    <2> QED
      BY <1>0, <2>1, TypedRoute
  <1> QED
    BY <1>1, <1>2

LEMMA TypedRouter ==
  ASSUME NetworkConstants, Typed, NEW w \in Routers, Start(w) \/ End(w) \/ RouterStep(w)
  PROVE  Typed'
  <1>0. /\ node \in Seq(NodeType) /\ queue \in Seq(Callers) /\ Len(queue) <= QueueSize
        /\ reply \in [Callers -> Callers \cup {Nobody}] /\ handled \in [Callers -> Nat]
    BY DEF Typed, TypeOK
  <1>a. {up, running, closed, shut} \subseteq BOOLEAN
    BY DEF Typed, TypeOK
  <1>b. router[w].at \in {"holding", "handling", "finding", "putting"} => router[w].msg \in Callers
    BY DEF Typed, Placed
  <1>c. UNCHANGED state => {up', running', closed', shut'} \subseteq BOOLEAN
    BY <1>a, Zenon DEF state
  <1>1. CASE Start(w)
    <2>1. {up', running', closed', shut'} \subseteq BOOLEAN
      BY <1>1, <1>a, Zenon DEF Start
    <2> QED
      BY <1>0, <1>1, <2>1, TypedGo DEF Start, places
  <1>2. CASE Launch(w)
    <2>1. {up', running', closed', shut'} \subseteq BOOLEAN
      BY <1>2, <1>a, Zenon DEF Launch
    <2> QED
      BY <1>0, <1>2, <2>1, TypedGo DEF Launch, places
  <1>3. CASE Take(w)
    <2> DEFINE k == [router[w] EXCEPT !.at = "holding", !.msg = Head(queue)]
    <2>1. Head(queue) \in Callers /\ queue' \in Seq(Callers) /\ Len(queue') <= QueueSize
      BY <1>0, <1>3, HeadTailProperties DEF Take, NetworkConstants
    <2>2. k \in RouterType /\ k.at = "holding" /\ k.msg \in Callers
      BY <2>1 DEF Typed, TypeOK, RouterType
    <2>3. router' = [router EXCEPT ![w] = k]
      BY <1>3 DEF Take, Typed, TypeOK
    <2>4. UNCHANGED <<nodes, node, state, pending, reply, call, handled>>
      BY <1>3 DEF Take, places
    <2> HIDE DEF k
    <2> QED
      BY <1>0, <1>c, <2>1, <2>2, <2>3, <2>4, TypedRoute DEF state
  <1>4. CASE End(w)
    <2>1. Goes(w, "ended") /\ UNCHANGED <<nodes, node, state, queue, pending, reply, call, handled>>
      BY <1>4 DEF End, places
    <2> QED
      BY <1>0, <1>c, <2>1, TypedGo DEF state
  <1>5. CASE Match(w)
    <2> DEFINE m == router[w].msg
               q == call[m].re
    <2>1. /\ Rests(w) /\ UNCHANGED <<nodes, node, state, queue, pending, call>>
          /\ reply' = [reply EXCEPT ![q] = IF @ = Nobody THEN m ELSE @]
          /\ handled' = [handled EXCEPT ![m] = @ + 1]
      BY <1>5 DEF Match, Handled, places
    <2>2. m \in Callers
      BY <1>5, <1>b DEF Match
    <2> HIDE DEF m, q
    <2>3. reply' \in [Callers -> Callers \cup {Nobody}]
      BY <1>0, <2>1, <2>2
    <2>4. handled' \in [Callers -> Nat]
      BY <1>0, <2>1, <2>2
    <2> QED
      BY <1>0, <1>c, <2>1, <2>3, <2>4, TypedGo DEF state
  <1>6. CASE Dispatch(w)
    <2> DEFINE m == router[w].msg
    <2>1. /\ Goes(w, "handling") /\ UNCHANGED <<nodes, node, state, queue, pending, reply, call>>
          /\ handled' = [handled EXCEPT ![m] = @ + 1]
      BY <1>6 DEF Dispatch, Handled, places
    <2>2. m \in Callers
      BY <1>6, <1>b DEF Dispatch
    <2>3. handled' \in [Callers -> Nat]
      BY <1>0, <2>1, <2>2
    <2> QED
      BY <1>0, <1>c, <2>1, <2>2, <2>3, TypedGo DEF state
  <1>7. CASE Handle(w)
    <2>1. /\ Rests(w) \/ Goes(w, "finding")
          /\ UNCHANGED <<nodes, node, state, queue, pending, reply, call, handled>>
      BY <1>7 DEF Handle, places
    <2>2. router[w].msg \in Callers
      BY <1>7, <1>b DEF Handle
    <2> QED
      BY <1>0, <1>c, <2>1, <2>2, TypedGo DEF state
  <1>8. CASE Locate(w)
    <2> DEFINE i == nodes[Home[router[w].msg]]
    <2>1. UNCHANGED <<nodes, node, state, queue, pending, reply, call, handled>>
      BY <1>8 DEF Locate, places
    <2>2. i \in 0..Len(node) /\ i \in 0..MaxNodes
      <3>1. Home[router[w].msg] \in Agents
        BY <1>8, <1>b DEF Locate, NetworkConstants
      <3>2. i \in 0..Len(node) /\ Len(node) <= MaxNodes /\ Len(node) \in Nat
        BY <3>1, LenProperties DEF Typed, TypeOK
      <3> QED
        BY <3>2 DEF NetworkConstants
    <2>3. CASE Rests(w)
      BY <1>0, <1>c, <2>1, <2>3, TypedGo DEF state
    <2>4. CASE i # 0 /\ router' = [router EXCEPT ![w].at = "putting", ![w].node = i]
      <3> DEFINE k == [router[w] EXCEPT !.at = "putting", !.node = i]
      <3>1. router[w] \in RouterType /\ router[w].msg \in Callers
        BY <1>8, <1>b DEF Locate, Typed, TypeOK
      <3>2. ASSUME NEW x \in RouterType, NEW n \in 0..MaxNodes
            PROVE  /\ [x EXCEPT !.at = "putting", !.node = n] \in RouterType
                   /\ [x EXCEPT !.at = "putting", !.node = n].node = n
                   /\ [x EXCEPT !.at = "putting", !.node = n].msg = x.msg
        BY DEF RouterType
      <3>3. k \in RouterType /\ k.node = i /\ k.msg \in Callers
        BY <2>2, <3>1, <3>2, Zenon
      <3>4. router' = [router EXCEPT ![w] = k]
        BY <2>4 DEF Typed, TypeOK
      <3>5. i \in 1..Len(node)
        BY <1>0, <2>2, <2>4, LenProperties
      <3> HIDE DEF k
      <3> QED
        BY <1>0, <1>c, <2>1, <3>3, <3>4, <3>5, TypedRoute DEF state
    <2> QED
      BY <1>8, <2>3, <2>4 DEF Locate
  <1>9. CASE Respond(w)
    <2> DEFINE i == router[w].node
    <2>1. Rests(w) /\ UNCHANGED <<nodes, state, queue, pending, reply, call, handled>>
      BY <1>9 DEF Respond
    <2>2. i \in 1..Len(node)
      BY <1>9 DEF Respond, Typed, Placed
    <2>3. node' \in Seq(NodeType) /\ Len(node') = Len(node)
      BY <1>0, <1>9, <2>2, FilledStays DEF Respond
    <2> QED
      BY <1>0, <1>c, <2>1, <2>3, TypedGo DEF state
  <1> QED
    BY <1>1, <1>2, <1>3, <1>4, <1>5, <1>6, <1>7, <1>8, <1>9 DEF RouterStep

LEMMA TypedStop ==
  ASSUME NetworkConstants, Typed, Stop \/ StopRouter
  PROVE  Typed'
  <1>1. /\ UNCHANGED <<nodes, node, queue, pending, reply, call, router, handled>>
        /\ stop' \in {"idle", "locked", "closing"}
    BY DEF Stop, StopRouter, places
  <1>2. {up', running', closed', shut'} \subseteq BOOLEAN
    BY Zenon DEF Stop, StopRouter, Typed, TypeOK
  <1>3. TypeOK'
    BY <1>1, <1>2, Zenon DEF Typed, TypeOK
  <1>4. Placed'
    BY <1>1 DEF Typed, Placed
  <1> QED
    BY <1>3, <1>4 DEF Typed

LEMMA TypedNext ==
  ASSUME NetworkConstants, Typed, [Next]_network_vars
  PROVE  Typed'
  <1>1. CASE UNCHANGED network_vars
    BY <1>1 DEF network_vars, Typed, TypeOK, Placed
  <1>2. CASE Next
    BY <1>2, TypedNodes, TypedCaller, TypedRouter, TypedStop DEF Next
  <1> QED
    BY <1>1, <1>2

\* The components keep their types, and a place in a node or a message in a router's
\* hands is a real one.
THEOREM NetworkTypes == NetworkConstants => (Spec => []TypeOK)
  <1> SUFFICES ASSUME NetworkConstants PROVE Spec => []TypeOK
    OBVIOUS
  <1>1. Init => Typed
    BY TypedInit
  <1>2. Typed /\ [Next]_network_vars => Typed'
    BY TypedNext
  <1>3. Typed => TypeOK
    BY DEF Typed
  <1> QED
    BY <1>1, <1>2, <1>3, PTL DEF Spec

-----------------------------------------------------------------------------
(***************************************************************************)
(* The closed queue.                                                       *)
(***************************************************************************)

LEMMA GuardedInit == Init => Guarded
  BY DEF Init, Guarded, Resting

\* A caller's step is its own.
LEMMA OthersStay ==
  ASSUME call \in [Callers -> CallType], NEW c \in Callers, Begin(c) \/ Expire(c) \/ CallerStep(c)
  PROVE  \A d \in Callers \ {c} : call'[d] = call[d]
  <1>1. CASE Begin(c)
    BY <1>1 DEF Begin
  <1>2. CASE Expire(c) \/ Enter(c) \/ Enqueue(c) \/ Receive(c)
    BY <1>2 DEF Expire, Enter, Enqueue, Receive, Returns, Moves, Sent
  <1>3. CASE Find(c)
    BY <1>3 DEF Find, Returns, Moves, Sent, Past
  <1>4. CASE Put(c)
    BY <1>4 DEF Put, Returns, Moves, Sent, Past
  <1> QED
    BY <1>1, <1>2, <1>3, <1>4 DEF CallerStep

\* A step of a caller takes it to the queue only when the router is open.
LEMMA GuardedCaller ==
  ASSUME Typed, Guarded, NEW c \in Callers, Begin(c) \/ Expire(c) \/ CallerStep(c)
  PROVE  Guarded'
  <1>1. UNCHANGED <<closed, shut, stop>>
    BY DEF Begin, Expire, CallerStep, Enter, Enqueue, Find, Put, Receive, state
  <1>2. \A d \in Callers \ {c} : call'[d] = call[d]
    BY OthersStay DEF Typed, TypeOK
  <1>3. call'[c].at = "queueing" => ~closed
    <2>0. call \in [Callers -> CallType]
      BY DEF Typed, TypeOK
    <2>1. CASE Begin(c)
      BY <2>0, <2>1 DEF Begin, Resting
    <2>2. CASE Enter(c)
      BY <2>0, <2>2 DEF Enter, Returns, Moves, CallType
    <2>3. CASE Expire(c) \/ Enqueue(c) \/ Find(c) \/ Put(c) \/ Receive(c)
      BY <2>0, <2>3 DEF Expire, Enqueue, Find, Put, Receive, Returns, Moves, Sent, Past, CallType
    <2> QED
      BY <2>1, <2>2, <2>3 DEF CallerStep
  <1> QED
    BY <1>1, <1>2, <1>3 DEF Guarded

LEMMA GuardedNext ==
  ASSUME Typed, Guarded, [Next]_network_vars
  PROVE  Guarded'
  <1>1. ASSUME NEW c \in Callers, Begin(c) \/ Expire(c) \/ CallerStep(c)
        PROVE  Guarded'
    BY <1>1, GuardedCaller
  <1>2. CASE Stop
    BY <1>2 DEF Stop, Guarded
  <1>3. CASE StopRouter
    BY <1>3 DEF StopRouter, Guarded
  <1>4. CASE StopNodes
    <2>1. shut' = TRUE /\ stop' = "idle" /\ stop = "closing" /\ UNCHANGED <<closed, call>>
      BY <1>4, Zenon DEF StopNodes
    <2> QED
      BY <2>1 DEF Guarded
  <1>5. CASE \/ \E a \in Agents : Register(a) \/ Unregister(a)
             \/ Silence \/ \E i \in DOMAIN node : Consume(i)
             \/ \E w \in Routers : Start(w) \/ End(w) \/ RouterStep(w)
             \/ UNCHANGED network_vars
    <2>1. UNCHANGED <<closed, shut, stop, call>>
      BY <1>5, Zenon DEF Register, Unregister, Silence, Consume, Start, End, RouterStep, Launch,
                  Take, Match, Dispatch, Handle, Locate, Respond, state, network_vars
    <2> QED
      BY <2>1 DEF Guarded
  <1> QED
    BY <1>1, <1>2, <1>3, <1>4, <1>5 DEF Next

\* Whatever callers, routers and stops there are, nobody sends on the closed queue
\* (network.go:875).
THEOREM SendersFindItOpen == NetworkConstants => (Spec => []NoSendOnClosed)
  <1> SUFFICES ASSUME NetworkConstants PROVE Spec => []NoSendOnClosed
    OBVIOUS
  <1>1. Init => Typed /\ Guarded
    BY TypedInit, GuardedInit
  <1>2. Typed /\ Guarded /\ [Next]_network_vars => Typed' /\ Guarded'
    BY TypedNext, GuardedNext
  <1>3. Guarded => NoSendOnClosed
    BY DEF Guarded, NoSendOnClosed
  <1> QED
    BY <1>1, <1>2, <1>3, PTL DEF Spec

-----------------------------------------------------------------------------
(***************************************************************************)
(* Accepted messages.                                                      *)
(***************************************************************************)

\* The places of a message that was queued: the queue, a router's hands, or past them.
Queued(c) == \E i \in DOMAIN queue : queue[i] = c
Has(w, c) == router[w].at = "holding" /\ router[w].msg = c
Carried(c) == \E w \in Routers : Has(w, c)
Taken(c)   == Queued(c) \/ Carried(c) \/ handled[c] = 1

\* It is in one of them once.
Single(c) ==
  /\ handled[c] <= 1
  /\ \A i, j \in DOMAIN queue : queue[i] = c /\ queue[j] = c => i = j
  /\ \A v, w \in Routers : Has(v, c) /\ Has(w, c) => v = w
  /\ ~(Queued(c) /\ Carried(c))
  /\ handled[c] = 1 => ~Queued(c) /\ ~Carried(c)

\* It gets there when its sender queues it, and a node's inbox is the other way.
Sending == {"idle", "entering", "queueing", "finding", "putting"}
Done    == {"sent", "waiting", "told"}

Accepted(c) ==
  /\ call[c].at \in Sending => ~Taken(c)
  /\ call[c].at \in Done /\ call[c].node = 0 /\ call[c].kind # "broadcast" => Taken(c)

Kept == \A c \in Callers : Single(c) /\ Accepted(c)

LEMMA KeptInit == NetworkConstants /\ Init => Kept
  BY DEF Init, Kept, Single, Accepted, Taken, Queued, Carried, Has, Sending, Done, Resting, Idle

\* Where a message is depends on three variables, what that means on its sender.
LEMMA KeptStays ==
  ASSUME Kept, UNCHANGED <<queue, handled, call>>,
         \A w \in Routers, c \in Callers : Has(w, c)' = Has(w, c)
  PROVE  Kept'
  BY DEF Kept, Single, Accepted, Taken, Queued, Carried

\* A caller's step that queues nothing.
LEMMA KeptSender ==
  ASSUME Kept, UNCHANGED <<queue, handled, router>>, NEW c \in Callers,
         \A d \in Callers \ {c} : call'[d] = call[d],
         \/ call[c].at \in Sending /\ call'[c].at \in Sending
         \/ call'[c].at \notin Sending \cup Done
         \/ call'[c].node # 0 /\ call'[c].at \notin Sending
         \/ call'[c].kind = "broadcast" /\ call'[c].at \notin Sending
         \/ /\ call[c].at \in Done /\ call'[c].at \in Done
            /\ call'[c].node = call[c].node /\ call'[c].kind = call[c].kind
  PROVE  Kept'
  <1>1. ASSUME NEW d \in Callers PROVE Single(d)'
    BY <1>1 DEF Kept, Single, Queued, Carried, Has
  <1>2. ASSUME NEW d \in Callers PROVE Taken(d)' = Taken(d)
    BY DEF Taken, Queued, Carried, Has
  <1>3. ASSUME NEW d \in Callers PROVE Accepted(d)'
    <2>1. CASE d = c
      BY <1>2, <2>1 DEF Kept, Accepted, Sending, Done
    <2>2. CASE d # c
      BY <1>2, <2>2 DEF Kept, Accepted
    <2> QED
      BY <2>1, <2>2
  <1> QED
    BY <1>1, <1>3 DEF Kept

LEMMA KeptCaller ==
  ASSUME Typed, Kept, NEW c \in Callers,
         Begin(c) \/ Expire(c) \/ Enter(c) \/ Find(c) \/ Put(c) \/ Receive(c)
  PROVE  Kept'
  <1>0. call \in [Callers -> CallType]
    BY DEF Typed, TypeOK
  <1>1. UNCHANGED <<queue, handled, router>>
    BY DEF Begin, Expire, Enter, Find, Put, Receive
  <1>2. \A d \in Callers \ {c} : call'[d] = call[d]
    BY <1>0, OthersStay DEF CallerStep
  <1>3. CASE Begin(c)
    <2>1. call[c].at \in Sending
      BY <1>3 DEF Begin, Sending
    <2>2. call'[c].at \in Sending \/ call'[c].kind = "broadcast"
      BY <1>0, <1>3 DEF Begin, Sending, Resting
    <2>3. call'[c].at \in Sending \/ call'[c].at \notin Sending
      OBVIOUS
    <2> QED
      BY <1>1, <1>2, <2>1, <2>2, <2>3, KeptSender
  <1>4. CASE Enter(c)
    <2>1. call[c].at \in Sending
      BY <1>4 DEF Enter, Sending
    <2>2. call'[c].at \in Sending \/ call'[c].at \notin Sending \cup Done
      BY <1>0, <1>4 DEF Enter, Returns, Moves, Sending, Done, CallType
    <2> QED
      BY <1>1, <1>2, <2>1, <2>2, KeptSender
  <1>5. CASE Expire(c)
    <2>1. call'[c].at \notin Sending \cup Done
      BY <1>0, <1>5 DEF Expire, Returns, Sending, Done, CallType
    <2> QED
      BY <1>1, <1>2, <2>1, KeptSender
  <1>6. CASE Find(c)
    <2>1. call[c].at \in Sending
      BY <1>6 DEF Find, Sending
    <2>2. call'[c].at \in Sending \/ call'[c].at \notin Sending \cup Done
      BY <1>0, <1>6 DEF Find, Past, Sent, Returns, Moves, Sending, Done, CallType
    <2> QED
      BY <1>1, <1>2, <2>1, <2>2, KeptSender
  <1>7. CASE Put(c)
    <2>1. call[c].at \in Sending /\ call[c].node # 0
      BY <1>7 DEF Put, Sending, Typed, Placed
    <2>2. call'[c].node = call[c].node
      BY <1>0, <1>7 DEF Put, Past, Sent, Returns, Moves, CallType
    <2>3. call'[c].at \in Sending \/ call'[c].at \notin Sending
      OBVIOUS
    <2> QED
      BY <1>1, <1>2, <2>1, <2>2, <2>3, KeptSender
  <1>8. CASE Receive(c)
    <2>1. /\ call[c].at \in Done /\ call'[c].at \in Done
          /\ call'[c].node = call[c].node /\ call'[c].kind = call[c].kind
      BY <1>0, <1>8 DEF Receive, Returns, Done, CallType
    <2> QED
      BY <1>1, <1>2, <2>1, KeptSender
  <1> QED
    BY <1>3, <1>4, <1>5, <1>6, <1>7, <1>8

LEMMA KeptEnqueue ==
  ASSUME Typed, Kept, NEW c \in Callers, Enqueue(c)
  PROVE  Kept'
  <1>0. /\ call \in [Callers -> CallType] /\ queue \in Seq(Callers)
        /\ DOMAIN queue = 1..Len(queue) /\ Len(queue) \in Nat
    BY LenProperties DEF Typed, TypeOK
  <1>1. /\ queue' = Append(queue, c) /\ UNCHANGED <<router, handled>>
        /\ call[c].at = "queueing"
    BY DEF Enqueue
  <1>2. /\ DOMAIN queue' = 1..(Len(queue) + 1)
        /\ \A i \in 1..Len(queue) : queue'[i] = queue[i]
        /\ queue'[Len(queue) + 1] = c
    BY <1>0, <1>1, AppendProperties
  <1>3. /\ \A d \in Callers \ {c} : call'[d] = call[d]
        /\ call'[c].at \in Done
    BY <1>0 DEF Enqueue, Sent, Returns, Moves, CallType, Done
  <1>4. ~Taken(c) /\ Single(c)
    BY <1>1 DEF Kept, Accepted, Sending
  <1>5. \A d \in Callers : /\ Carried(d)' = Carried(d) /\ handled'[d] = handled[d]
                           /\ \A w \in Routers : Has(w, d)' = Has(w, d)
    BY <1>1 DEF Carried, Has
  <1>6. ASSUME NEW d \in Callers, d # c PROVE Single(d)' /\ Accepted(d)'
    <2>1. Queued(d)' = Queued(d)
      BY <1>0, <1>2, <1>6 DEF Queued
    <2>2. \A i, j \in DOMAIN queue' : queue'[i] = d /\ queue'[j] = d => i = j
      BY <1>0, <1>2, <1>6 DEF Kept, Single
    <2>3. Single(d)'
      BY <1>5, <2>1, <2>2 DEF Kept, Single
    <2>4. Accepted(d)'
      BY <1>3, <1>5, <1>6, <2>1 DEF Kept, Accepted, Taken
    <2> QED
      BY <2>3, <2>4
  <1>7. Single(c)' /\ Accepted(c)'
    <2>1. Queued(c)' /\ \A i, j \in DOMAIN queue' : queue'[i] = c /\ queue'[j] = c => i = j
      BY <1>0, <1>2, <1>4 DEF Taken, Queued
    <2>2. ~Carried(c)' /\ handled'[c] # 1 /\ handled'[c] <= 1
      BY <1>4, <1>5 DEF Taken, Single
    <2>3. Single(c)'
      BY <2>1, <2>2 DEF Single, Carried
    <2>4. Accepted(c)'
      BY <1>3, <2>1 DEF Accepted, Taken, Sending, Done
    <2> QED
      BY <2>3, <2>4
  <1> QED
    BY <1>6, <1>7 DEF Kept

LEMMA KeptTake ==
  ASSUME Typed, Kept, NEW w \in Routers, Take(w)
  PROVE  Kept'
  <1>0. /\ queue \in Seq(Callers) /\ queue # <<>> /\ router[w].at = "loop"
        /\ router \in [Routers -> RouterType]
    BY DEF Take, Typed, TypeOK
  <1>1. /\ DOMAIN queue = 1..Len(queue) /\ Len(queue) \in Nat \ {0} /\ Head(queue) = queue[1]
        /\ queue' = Tail(queue)
        /\ Len(queue') = Len(queue) - 1 /\ \A i \in 1..Len(queue') : queue'[i] = queue[i + 1]
        /\ DOMAIN queue' = 1..(Len(queue) - 1)
    BY <1>0, HeadTailProperties, LenProperties, EmptySeq DEF Take
  <1>2. UNCHANGED <<call, handled>>
    BY DEF Take
  <1>3. PICK m \in Callers : m = queue[1]
    BY <1>0, <1>1, ElementOfSeq
  <1>4. /\ \A v \in Routers \ {w}, c \in Callers : Has(v, c)' = Has(v, c)
        /\ \A c \in Callers : ~Has(w, c) /\ (Has(w, c)' <=> c = m)
    BY <1>0, <1>1, <1>3 DEF Take, Has, RouterType
  <1>5. /\ \A c \in Callers \ {m} : Carried(c)' = Carried(c)
        /\ Carried(m)' /\ ~Carried(m)
    <2>1. Queued(m)
      BY <1>1, <1>3 DEF Queued
    <2>2. ~Carried(m)
      BY <1>3, <2>1 DEF Kept, Single
    <2> QED
      BY <1>3, <1>4, <2>2 DEF Carried
  <1>6. /\ \A c \in Callers \ {m} : Queued(c)' <=> Queued(c)
        /\ Queued(m) /\ ~Queued(m)'
    <2>1. ASSUME NEW c \in Callers, c # m, Queued(c) PROVE Queued(c)'
      <3> PICK i \in DOMAIN queue : queue[i] = c
        BY <2>1 DEF Queued
      <3>1. i - 1 \in DOMAIN queue' /\ queue'[i - 1] = c
        BY <1>1, <1>3, <2>1
      <3> QED
        BY <3>1 DEF Queued
    <2>2. ASSUME NEW c \in Callers, Queued(c)' PROVE Queued(c) /\ c # m
      <3> PICK i \in DOMAIN queue' : queue'[i] = c
        BY <2>2 DEF Queued
      <3>1. i + 1 \in DOMAIN queue /\ queue[i + 1] = c /\ 1 \in DOMAIN queue /\ i + 1 # 1
        BY <1>1
      <3>2. c # m
        BY <1>3, <3>1 DEF Kept, Single
      <3> QED
        BY <3>1, <3>2 DEF Queued
    <2>3. Queued(m)
      BY <1>1, <1>3 DEF Queued
    <2> QED
      BY <2>1, <2>2, <2>3
  <1>7. ASSUME NEW c \in Callers PROVE Single(c)' /\ Accepted(c)'
    <2>1. \A i, j \in DOMAIN queue' : queue'[i] = c /\ queue'[j] = c => i = j
      <3> SUFFICES ASSUME NEW i \in DOMAIN queue', NEW j \in DOMAIN queue',
                          queue'[i] = c, queue'[j] = c
                   PROVE  i = j
        OBVIOUS
      <3>1. i + 1 \in DOMAIN queue /\ j + 1 \in DOMAIN queue
            /\ queue[i + 1] = c /\ queue[j + 1] = c
        BY <1>1
      <3>2. i + 1 = j + 1
        BY <3>1 DEF Kept, Single
      <3> QED
        BY <1>1, <3>2
    <2>2. \A u, v \in Routers : Has(u, c)' /\ Has(v, c)' => u = v
      BY <1>3, <1>4, <1>5 DEF Kept, Single, Carried
    <2>3. handled'[c] = handled[c] /\ Single(c) /\ Accepted(c)
      BY <1>2 DEF Kept
    <2>4. Single(c)'
      BY <1>5, <1>6, <2>1, <2>2, <2>3 DEF Single
    <2>5. Taken(c)' = Taken(c)
      BY <1>5, <1>6, <2>3 DEF Taken
    <2>6. Accepted(c)'
      BY <1>2, <2>3, <2>5 DEF Accepted
    <2> QED
      BY <2>4, <2>6
  <1> QED
    BY <1>7 DEF Kept

\* A message leaves a router's hands for its handler, or for who waits for it.
LEMMA KeptHandled ==
  ASSUME Typed, Kept, NEW w \in Routers, Match(w) \/ Dispatch(w)
  PROVE  Kept'
  <1>a. PICK m \in Callers : m = router[w].msg
    BY DEF Match, Dispatch, Typed, Placed
  <1>0. /\ router[w].at = "holding" /\ router \in [Routers -> RouterType]
        /\ handled \in [Callers -> Nat]
    BY DEF Match, Dispatch, Typed, TypeOK
  <1>1. UNCHANGED <<call, queue>> /\ handled' = [handled EXCEPT ![m] = @ + 1]
    BY <1>a DEF Match, Dispatch, Handled
  <1>2. /\ \A v \in Routers \ {w} : router'[v] = router[v]
        /\ router'[w].at # "holding"
    BY <1>0 DEF Match, Dispatch, Rests, Goes, Idle, RouterType
  <1>3. Has(w, m) /\ \A c \in Callers : ~Has(w, c)' /\ (c # m => ~Has(w, c))
    BY <1>a, <1>0, <1>2 DEF Has
  <1>4. \A v \in Routers \ {w}, c \in Callers : Has(v, c)' = Has(v, c)
    BY <1>2 DEF Has
  <1>5. Carried(m) /\ ~Queued(m) /\ handled[m] = 0
    BY <1>0, <1>3 DEF Carried, Kept, Single
  <1>6. ~Carried(m)'
    <2>1. \A v \in Routers \ {w} : ~Has(v, m)
      BY <1>0, <1>3 DEF Kept, Single
    <2> QED
      BY <1>0, <1>3, <1>4, <2>1 DEF Carried
  <1>7. \A c \in Callers \ {m} : Carried(c)' = Carried(c)
    BY <1>3, <1>4 DEF Carried
  <1>8. \A c \in Callers : Queued(c)' = Queued(c)
    BY <1>1 DEF Queued
  <1>9. handled'[m] = 1 /\ \A c \in Callers \ {m} : handled'[c] = handled[c]
    BY <1>0, <1>1, <1>5
  <1>10. ASSUME NEW c \in Callers PROVE Single(c)' /\ Taken(c)' = Taken(c)
    <2>1. \A i, j \in DOMAIN queue' : queue'[i] = c /\ queue'[j] = c => i = j
      BY <1>1 DEF Kept, Single
    <2>2. \A u, v \in Routers : Has(u, c)' /\ Has(v, c)' => u = v
      BY <1>3, <1>4 DEF Kept, Single
    <2>3. Single(c)
      BY DEF Kept
    <2>4. CASE c = m
      BY <1>5, <1>6, <1>8, <1>9, <2>1, <2>2, <2>4 DEF Single, Taken
    <2>5. CASE c # m
      BY <1>7, <1>8, <1>9, <2>1, <2>2, <2>3, <2>5 DEF Single, Taken
    <2> QED
      BY <2>4, <2>5
  <1> QED
    BY <1>1, <1>10 DEF Kept, Accepted

LEMMA KeptNext ==
  ASSUME Typed, Kept, [Next]_network_vars
  PROVE  Kept'
  <1>1. ASSUME NEW c \in Callers, Begin(c) \/ Expire(c) \/ CallerStep(c)
        PROVE  Kept'
    BY <1>1, KeptCaller, KeptEnqueue DEF CallerStep
  <1>2. ASSUME NEW w \in Routers, Start(w) \/ End(w) \/ RouterStep(w)
        PROVE  Kept'
    <2>1. CASE Take(w) \/ Match(w) \/ Dispatch(w)
      BY <2>1, KeptTake, KeptHandled
    <2>2. CASE Start(w) \/ Launch(w) \/ End(w) \/ Handle(w) \/ Locate(w) \/ Respond(w)
      <3>1. UNCHANGED <<queue, handled, call>>
        BY <2>2 DEF Start, Launch, End, Handle, Locate, Respond
      <3>2. /\ \A v \in Routers \ {w} : router'[v] = router[v]
            /\ router[w].at # "holding" /\ router'[w].at # "holding"
        BY <2>2 DEF Start, Launch, End, Handle, Locate, Respond, Goes, Rests, Idle, Typed,
                    TypeOK, RouterType
      <3> QED
        BY <3>1, <3>2, KeptStays DEF Has
    <2> QED
      BY <1>2, <2>1, <2>2 DEF RouterStep
  <1>3. CASE \/ \E a \in Agents : Register(a) \/ Unregister(a)
             \/ Silence \/ \E i \in DOMAIN node : Consume(i)
             \/ Stop \/ StopRouter \/ StopNodes
             \/ UNCHANGED network_vars
    <2>1. UNCHANGED <<queue, handled, call, router>>
      BY <1>3, Zenon DEF Register, Unregister, Silence, Consume, Stop, StopRouter, StopNodes,
                         network_vars
    <2> QED
      BY <2>1, KeptStays DEF Has
  <1> QED
    BY <1>1, <1>2, <1>3 DEF Next

\* What has at most one member counts as one or none.
LEMMA CountOfOne ==
  ASSUME NEW S, \A x, y \in S : x = y
  PROVE  Cardinality(S) = IF S = {} THEN 0 ELSE 1
  <1>1. CASE S = {}
    BY <1>1, FS_EmptySet
  <1>2. CASE S # {}
    <2> PICK x : x \in S
      BY <1>2
    <2>1. S = {x}
      OBVIOUS
    <2> QED
      BY <1>2, <2>1, FS_Singleton
  <1> QED
    BY <1>1, <1>2

LEMMA KeptCounts == Typed /\ Kept => AcceptedIsKept
  <1> SUFFICES ASSUME Typed, Kept, NEW c \in Callers
               PROVE  LET held == Cardinality({i \in DOMAIN queue : queue[i] = c})
                            + Cardinality({w \in Routers : router[w].at = "holding"
                                                           /\ router[w].msg = c})
                            + handled[c]
                      IN  /\ held <= 1
                          /\ call[c].at \in {"sent", "waiting", "told"} /\ call[c].node = 0
                               /\ call[c].kind # "broadcast" => held = 1
    BY DEF AcceptedIsKept
  <1> DEFINE Q == {i \in DOMAIN queue : queue[i] = c}
             H == {w \in Routers : router[w].at = "holding" /\ router[w].msg = c}
  <1>1. Single(c) /\ Accepted(c) /\ handled[c] \in Nat
    BY DEF Typed, TypeOK, Kept
  <1>2. Cardinality(Q) = IF Queued(c) THEN 1 ELSE 0
    <2>1. \A i, j \in Q : i = j
      BY <1>1 DEF Single
    <2>2. Q = {} <=> ~Queued(c)
      BY DEF Queued
    <2> HIDE DEF Q
    <2> QED
      BY <2>1, <2>2, CountOfOne
  <1>3. Cardinality(H) = IF Carried(c) THEN 1 ELSE 0
    <2>1. \A v, w \in H : v = w
      BY <1>1 DEF Single, Has
    <2>2. H = {} <=> ~Carried(c)
      BY DEF Carried, Has
    <2> HIDE DEF H
    <2> QED
      BY <2>1, <2>2, CountOfOne
  <1> HIDE DEF Q, H
  <1>4. handled[c] \in {0, 1}
    BY <1>1 DEF Single
  <1> DEFINE held == Cardinality(Q) + Cardinality(H) + handled[c]
  <1>5. held <= 1 /\ (Taken(c) => held = 1)
    BY <1>1, <1>2, <1>3, <1>4 DEF Single, Taken
  <1>6. call[c].at \in {"sent", "waiting", "told"} /\ call[c].node = 0
          /\ call[c].kind # "broadcast" => Taken(c)
    BY <1>1 DEF Accepted, Done
  <1> HIDE DEF held
  <1>7. /\ held <= 1
        /\ call[c].at \in {"sent", "waiting", "told"} /\ call[c].node = 0
             /\ call[c].kind # "broadcast" => held = 1
    BY <1>5, <1>6
  <1> QED
    BY <1>7, Zenon DEF held, Q, H

\* A message that Send has taken is in one place (network.go:875-884, 1013-1020): whatever
\* routers, stops and new starts there are, none is lost and none is handled twice.
THEOREM AcceptedMessagesStay == NetworkConstants => (Spec => []AcceptedIsKept)
  <1> SUFFICES ASSUME NetworkConstants PROVE Spec => []AcceptedIsKept
    OBVIOUS
  <1>1. Init => Typed /\ Kept
    BY TypedInit, KeptInit
  <1>2. Typed /\ Kept /\ [Next]_network_vars => Typed' /\ Kept'
    BY TypedNext, KeptNext
  <1> QED
    BY <1>1, <1>2, KeptCounts, PTL DEF Spec
=============================================================================
