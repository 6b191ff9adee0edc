----------------------------- MODULE DurableGraph -----------------------------
(***************************************************************************)
(* The durable driver of a graph: src/orchestration/graph/durable.go on    *)
(* the scheduler of plan.go, for a plan without cycles whose nodes wait    *)
(* for all their predecessors.                                             *)
(*                                                                         *)
(* A task is the one activation of a node.  The frontier is what the       *)
(* scheduler works on and what every commit pins as the run's snapshot.    *)
(* A result is the route it leads to; the state it carries, commands,      *)
(* barriers and the retry policy inside one execution are left out.        *)
(*                                                                         *)
(* A session is one call of run on a worker that has claimed the run.  The *)
(* node it works on is the first ready one in the plan's order.            *)
(*                                                                         *)
(* A Faulty operator is a plausible bug; no action uses it.                *)
(***************************************************************************)
EXTENDS RunRecord, SequencesExt

CONSTANTS
  Order,      \* the nodes in the plan's topological order
  Entry,      \* EntryPoint
  Fixed,      \* node -> successors by ordinary edges
  Branches,   \* node -> targets of its conditional edge
  Asking,     \* nodes that may interrupt themselves with a question
  Ingress,    \* the input the run is submitted with
  MaxAsks,    \* questions a node may ask
  MaxFence,   \* claims and cancellations of a run
  MaxFaults   \* crashes, lost replies, lost leases, failed renewals

\* An interrupt gets an identity of its own each time it is raised.
Questions == Asking \X (1 .. MaxAsks)

Frontiers ==
  [ready : SUBSET Tasks, results : SUBSET Tasks, chosen : [Tasks -> SUBSET Tasks],
   completed : SUBSET Tasks, waiting : SUBSET Questions]

\* What the constants have to satisfy.
ASSUME PlanAssumption ==
  /\ Targets = Questions /\ Asking \subseteq Tasks /\ Ingress \in Inputs
  /\ {MaxAsks, MaxFence, MaxFaults} \subseteq Nat
  /\ Fixed \in [Tasks -> SUBSET Tasks] /\ Branches \in [Tasks -> SUBSET Tasks] /\ Entry \in Tasks
  /\ Order \in Seq(Tasks) /\ Len(Order) = Cardinality(Tasks) /\ ToSet(Order) = Tasks
  /\ \A i, j \in DOMAIN Order : Order[j] \in Fixed[Order[i]] \cup Branches[Order[i]] => i < j

VARIABLES
  run,      \* the record of the run in the store
  session,  \* worker -> its session
  asked,    \* node -> questions it has asked
  ran,      \* node -> how often it was executed
  faults

durable_graph_vars == <<run, session, asked, ran, faults>>

-----------------------------------------------------------------------------
(* The scheduler.                                                          *)

Begin ==
  [ready |-> {Entry}, results |-> {}, chosen |-> [n \in Tasks |-> {}],
   completed |-> {}, waiting |-> {}]

Deps(n) == {m \in Tasks : n \in Fixed[m] \cup Branches[m]}

Routes(n) == IF Branches[n] = {} THEN {Fixed[n]} ELSE {Fixed[n] \cup {m} : m \in Branches[n]}

Selected(x, n) == \E m \in x.completed : n \in x.chosen[m]

\* A node none of its predecessors selected is skipped, and so on below it: the
\* least set of nodes that have been arrived at by all and selected by none.
SkippedAfter(x, S) ==
  {n \in Tasks \ x.completed :
     ~Selected(x, n) /\ Deps(n) # {} /\ Deps(n) \subseteq x.completed \cup S}

Skipped(x) == {n \in Tasks : \A S \in SUBSET Tasks : SkippedAfter(x, S) \subseteq S => n \in S}

\* Faulty: the first predecessor that selects a node starts it.
FaultyDue(x) == {n \in Tasks \ x.completed : Selected(x, n)}

\* All predecessors have arrived, and one of them selected it.
Due(x) ==
  {n \in Tasks \ x.completed : Selected(x, n) /\ Deps(n) \subseteq x.completed \cup Skipped(x)}

Stalled(x) ==
  LET settled == x.completed \cup Skipped(x)
  IN \E n \in Tasks \ settled : Deps(n) \cap settled # {}

Completing(x, n) ==
  LET y == [x EXCEPT !.completed = @ \cup {n}, !.waiting = {q \in @ : q[1] # n}]
  IN [y EXCEPT !.ready = (@ \ {n}) \cup (Due(y) \ Due(x))]

Executed(x, n, route) == [x EXCEPT !.results = @ \cup {n}, !.chosen[n] = route]

Interrupting(x, n, q) ==
  [x EXCEPT !.ready = @ \ {n}, !.waiting = {p \in @ : p[1] # n} \cup {q}]

First(x) == Order[SelectInSeq(Order, LAMBDA n : n \in x.ready)]

Waits(x, n) == \E q \in x.waiting : q[1] = n

-----------------------------------------------------------------------------
(* Sessions and their commits.                                             *)

Idle ==
  [at |-> "idle", next |-> "none", view |-> AbsentRun, fence |-> 0, x |-> Begin,
   given |-> {}, restored |-> {}, failed |-> {}, stopped |-> FALSE]

Init ==
  /\ run = Submitted(Ingress)
  /\ session = [w \in Workers |-> Idle]
  /\ asked = [n \in Tasks |-> 0] /\ ran = [n \in Tasks |-> 0]
  /\ faults = 0

Fault == faults < MaxFaults /\ faults' = faults + 1

Becomes(w, s) == session' = [session EXCEPT ![w] = s]
Goes(w, place) == session' = [session EXCEPT ![w].at = place]
Leaves(w, place) == Becomes(w, [Idle EXCEPT !.at = place, !.fence = session[w].fence])

\* Every commit pins the frontier and says what is waited for.
Draft(w, x) ==
  LET s == session[w] IN
  [EmptyRequest EXCEPT !.owner = w, !.fence = s.fence, !.expected = s.view.revision,
     !.snapshot = x, !.waiting = [declared |-> TRUE, targets |-> x.waiting], !.events = 1]

\* The result of n as the record's activation identifies it.
ResultOf(w, n, status) ==
  LET a == session[w].view.activations[n]
  IN [status |-> status, attempt |-> a.attempt, read |-> a.read, adopted |-> 0]

\* Faulty: an input is used up again by every commit.
FaultyUnconsumed(w) == session[w].given

\* An answer is used up once its question is no longer waited for.
Unconsumed(w) == {i \in session[w].given : session[w].view.inputs[i].consumed = 0}
TargetOf(w, i) == session[w].view.inputs[i].target

\* Faulty: only what this session activated is adopted.
FaultyAdoptable(w, n) ==
  session[w].view.tasks[n].adopted = 0 /\ session[w].view.activations[n].attempt = session[w].fence

Adoptable(w, n) == session[w].view.tasks[n].adopted = 0

\* Faulty: an answer is used up as soon as it was delivered.
FaultyUsedUp(w, x, i) == TargetOf(w, i) # NoTarget

UsedUp(w, x, i) == TargetOf(w, i) \notin x.waiting \cup {NoTarget}

\* persist
Persisting(w, x) ==
  LET s == session[w]
      New(n) == s.view.tasks[n].status = "absent"
  IN [Draft(w, x) EXCEPT
        !.results = [n \in Tasks |->
           IF n \in x.results /\ New(n) THEN ResultOf(w, n, "succeeded")
           ELSE IF n \in s.failed /\ New(n) THEN ResultOf(w, n, "failed") ELSE NoResult],
        !.adopt = {n \in x.completed : Adoptable(w, n)},
        !.consume = {i \in Unconsumed(w) : UsedUp(w, x, i)}]

\* commit: what the context or an error ends is left without a word to the
\* store; a commit of unknown outcome is looked up.
Commit(w, q, next) ==
  \/ /\ session[w].stopped
     /\ Leaves(w, "stop") /\ UNCHANGED <<run, faults>>
  \/ /\ ~session[w].stopped /\ ~CommitOK(run, q)
     /\ Leaves(w, "lost") /\ UNCHANGED <<run, faults>>
  \/ /\ ~session[w].stopped /\ CommitOK(run, q)
     /\ \/ /\ run' = Committed(run, q)
           /\ Becomes(w, [session[w] EXCEPT !.at = "reread", !.next = next, !.x = q.snapshot])
           /\ UNCHANGED faults
        \/ Fault /\ Leaves(w, "stop") /\ UNCHANGED run

\* The record is read again after each commit; it has to be the committed revision.
Confirmed(w) == run.revision = session[w].view.revision + 1

Reread(w) ==
  /\ session[w].at = "reread"
  /\ \/ /\ ~session[w].stopped /\ Confirmed(w)
        /\ Becomes(w, [session[w] EXCEPT !.at = session[w].next, !.next = "none", !.view = run])
        /\ UNCHANGED faults
     \/ /\ ~session[w].stopped /\ ~Confirmed(w)
        /\ Leaves(w, "lost") /\ UNCHANGED faults
     \/ /\ Leaves(w, "stop")
        /\ IF session[w].stopped THEN UNCHANGED faults ELSE Fault
  /\ UNCHANGED <<run, asked, ran>>

\* The host chooses which of the accepted inputs it passes.
Load(w) ==
  /\ session[w].at = "claimed" /\ ~session[w].stopped
  /\ Live(run) /\ run.owner = w /\ run.fence = session[w].fence
  /\ \E given \in SUBSET {i \in Inputs : Pending(run.inputs[i])} :
       LET x == IF run.snapshot = NoSnapshot THEN Begin ELSE run.snapshot
           answered == {run.inputs[i].target : i \in given} \ {NoTarget}
       IN IF answered \subseteq x.waiting
          THEN Becomes(w, [session[w] EXCEPT
                 !.at = "loop", !.view = run, !.given = given,
                 !.restored = {n \in Tasks : run.activations[n].attempt # 0},
                 !.x = [x EXCEPT !.ready = @ \cup {q[1] : q \in answered}]])
          ELSE Leaves(w, "stop")
  /\ UNCHANGED <<run, asked, ran, faults>>

TurnedAway(w) ==
  /\ session[w].at = "claimed"
  /\ session[w].stopped \/ ~Live(run) \/ run.owner # w \/ run.fence # session[w].fence
  /\ Leaves(w, "stop")
  /\ UNCHANGED <<run, asked, ran, faults>>

-----------------------------------------------------------------------------
(* run and runOne, for the first ready node.                               *)

Node(w) == First(session[w].x)

Turn(w) == session[w].at = "loop" /\ session[w].x.ready # {} /\ ~session[w].stopped

Known(w) == Node(w) \in session[w].x.results
Dispatched(w) == session[w].view.activations[Node(w)].attempt # 0

\* A result on record is adopted, never obtained again.
Adopt(w) ==
  /\ Turn(w) /\ Known(w)
  /\ Commit(w, Persisting(w, Completing(session[w].x, Node(w))), "loop")
  /\ UNCHANGED <<asked, ran>>

\* Faulty: what an earlier session dispatched is dispatched again.
FaultyOpen(w) == FALSE

Open(w) == Node(w) \in session[w].restored /\ ~Waits(session[w].x, Node(w))

\* TaskOutcomeUnknownError
GiveUp(w) ==
  /\ Turn(w) /\ ~Known(w) /\ Dispatched(w) /\ Open(w)
  /\ Leaves(w, "unknown")
  /\ UNCHANGED <<run, asked, ran, faults>>

\* A node that waited is dispatched again under its first activation.
Redispatch(w) ==
  /\ Turn(w) /\ ~Known(w) /\ Dispatched(w) /\ ~Open(w)
  /\ Goes(w, "executing")
  /\ UNCHANGED <<run, asked, ran, faults>>

Activate(w) ==
  LET s == session[w] IN
  /\ Turn(w) /\ ~Known(w) /\ ~Dispatched(w)
  /\ Commit(w, [Draft(w, s.x) EXCEPT
       !.activate[Node(w)] = [attempt |-> s.fence, read |-> s.view.revision],
       !.consume = {i \in Unconsumed(w) : TargetOf(w, i) = NoTarget}], "executing")
  /\ UNCHANGED <<asked, ran>>

Runs(w) ==
  /\ session[w].at = "executing"
  /\ ran' = [ran EXCEPT ![Node(w)] = @ + 1]
  /\ UNCHANGED <<run, faults>>

Succeed(w) ==
  /\ Runs(w)
  /\ \E route \in Routes(Node(w)) :
       Becomes(w, [session[w] EXCEPT !.at = "save", !.x = Executed(@, Node(w), route)])
  /\ UNCHANGED asked

Ask(w) ==
  LET n == Node(w) IN
  /\ Runs(w)
  /\ n \in Asking /\ asked[n] < MaxAsks
  /\ asked' = [asked EXCEPT ![n] = @ + 1]
  /\ Becomes(w, [session[w] EXCEPT !.at = "loop", !.x = Interrupting(@, n, <<n, asked[n] + 1>>)])

\* An error under a cancelled context leaves no word of it: see Commit.
Fail(w) ==
  /\ Runs(w)
  /\ Becomes(w, [session[w] EXCEPT !.at = "failing", !.failed = {Node(w)}])
  /\ UNCHANGED asked

\* The result is saved before it is adopted.
Save(w) ==
  /\ session[w].at = "save"
  /\ Commit(w, Persisting(w, session[w].x), "loop")
  /\ UNCHANGED <<asked, ran>>

\* The context is looked at before each node.
Leave(w) ==
  /\ session[w].at = "loop" /\ session[w].x.ready # {} /\ session[w].stopped
  /\ Leaves(w, "stop")
  /\ UNCHANGED <<run, asked, ran, faults>>

-----------------------------------------------------------------------------
(* The end of a session.                                                   *)

Done(w) == session[w].at = "loop" /\ session[w].x.ready = {}

Finish(w) ==
  LET x == session[w].x IN
  /\ Done(w)
  /\ IF x.waiting # {} THEN Commit(w, Persisting(w, x), "park")
     ELSE IF Stalled(x) THEN Goes(w, "failing") /\ UNCHANGED <<run, faults>>
     ELSE Commit(w, [Draft(w, x) EXCEPT !.status = "succeeded"], "stop")
  /\ UNCHANGED <<asked, ran>>

Park(w) ==
  /\ session[w].at = "park"
  /\ Commit(w, [Draft(w, session[w].x) EXCEPT !.status = "waiting"], "stop")
  /\ UNCHANGED <<asked, ran>>

NoteFailure(w) ==
  /\ session[w].at = "failing"
  /\ Commit(w, Persisting(w, session[w].x), "fail")
  /\ UNCHANGED <<asked, ran>>

FailRun(w) ==
  /\ session[w].at = "fail"
  /\ Commit(w, [Draft(w, session[w].x) EXCEPT !.status = "failed"], "stop")
  /\ UNCHANGED <<asked, ran>>

Release(w) ==
  /\ session[w].at \in {"stop", "lost", "unknown"}
  /\ run' = IF ReleaseOK(run, w, session[w].fence) THEN Released(run) ELSE run
  /\ Becomes(w, Idle)
  /\ UNCHANGED <<asked, ran, faults>>

-----------------------------------------------------------------------------
(* The worker, the hosts and the clock.                                    *)

Claim(w) ==
  /\ session[w].at = "idle" /\ ClaimOK(run) /\ run.fence < MaxFence
  /\ run' = Claimed(run, w, 1)
  /\ Becomes(w, [Idle EXCEPT !.at = "claimed", !.fence = run.fence + 1])
  /\ UNCHANGED <<asked, ran, faults>>

\* A host answers a question, or just gives notice.
Signal(i, target) ==
  /\ SignalOK(run, i, target)
  /\ run' = Signalled(run, i, target)
  /\ UNCHANGED <<session, asked, ran, faults>>

Cancel ==
  /\ CancelOK(run)
  /\ run' = Cancelled(run)
  /\ UNCHANGED <<session, asked, ran, faults>>

Executes(w) == session[w].at \notin {"idle", "stop", "lost", "unknown"}
Tended == \E w \in Workers : Executes(w) /\ ~session[w].stopped /\ RenewOK(run, w, session[w].fence)

\* The lease of a dead worker runs out; that of a live one only by a fault.
Expire ==
  /\ run.lease > 0
  /\ run' = Aged(run)
  /\ IF Tended THEN Fault ELSE UNCHANGED faults
  /\ UNCHANGED <<session, asked, ran>>

\* A renewal that fails cancels the execution's context.
Interrupt(w) ==
  /\ Executes(w) /\ ~session[w].stopped
  /\ session' = [session EXCEPT ![w].stopped = TRUE]
  /\ IF RenewOK(run, w, session[w].fence) THEN Fault ELSE UNCHANGED faults
  /\ UNCHANGED <<run, asked, ran>>

Crash(w) ==
  /\ Executes(w) /\ Fault
  /\ Becomes(w, Idle)
  /\ UNCHANGED <<run, asked, ran>>

Next ==
  \/ \E i \in Inputs \ {Ingress}, target \in Targets \cup {NoTarget} : Signal(i, target)
  \/ Cancel \/ Expire
  \/ \E w \in Workers :
       \/ Claim(w) \/ Load(w) \/ TurnedAway(w) \/ Reread(w)
       \/ Adopt(w) \/ GiveUp(w) \/ Redispatch(w) \/ Activate(w) \/ Leave(w)
       \/ Succeed(w) \/ Ask(w) \/ Fail(w) \/ Save(w)
       \/ Finish(w) \/ Park(w) \/ NoteFailure(w) \/ FailRun(w)
       \/ Release(w) \/ Interrupt(w) \/ Crash(w)

Spec == Init /\ [][Next]_durable_graph_vars

-----------------------------------------------------------------------------
Pinned == IF run.snapshot = NoSnapshot THEN Begin ELSE run.snapshot

\* A node that never waited is executed once at most, over all workers, crashes and
\* lost replies (durable.go:372 refuses what an earlier session dispatched).
NodesRunOnce == \A n \in Tasks : asked[n] = 0 => ran[n] <= 1

\* The frontier a commit pins and the facts it records never drift apart, although
\* they are written by sessions that restored one and read the other: what is
\* completed is adopted and conversely, what succeeded on record is in the results,
\* and a result is on record unless its node has waited (durable.go:404-422).
FrontierIsBacked ==
  /\ Pinned \in Frontiers
  /\ \A n \in Tasks :
       /\ n \in Pinned.completed <=> run.tasks[n].adopted # 0
       /\ run.tasks[n].status = "succeeded" => n \in Pinned.results
       /\ n \in Pinned.results => run.tasks[n].status = "succeeded" \/ asked[n] > 0
       /\ run.tasks[n].status # "absent" => ran[n] > 0

\* A session that is refused, or reads back another revision than its own, has lost
\* the run by then: no host's signal or cancellation makes it drop a run it still
\* holds (durable.go:350).  The exception is a node that failed on record after it
\* waited and succeeded later, whose adoption every session is refused.
LosersHaveLost ==
  \A w \in Workers : session[w].at = "lost" =>
    \/ ~(Live(run) /\ Holds(run, w, session[w].fence))
    \/ \E n \in Tasks : n \in Pinned.results /\ run.tasks[n].status = "failed"

\* An answer is used up with what came of it, never before: its node is adopted no
\* earlier, or waits for the answer to a later question (durable.go:445).
AnswersAreSettled ==
  \A i \in Inputs : LET input == run.inputs[i] IN
    input.consumed # 0 /\ input.target # NoTarget =>
      LET n == input.target[1] IN
      \/ run.tasks[n].adopted >= input.consumed
      \/ \E q \in Pinned.waiting : q[1] = n /\ q[2] > input.target[2]

Plain == INSTANCE GraphRun WITH
  Nodes <- Tasks, completed <- Pinned.completed,
  calls <- [n \in Tasks |-> IF n \in Pinned.completed THEN Pinned.chosen[n] ELSE {}],
  ended <- run.status = "succeeded"

\* Whatever happens to its sessions, the run's snapshots walk the plan as one
\* uninterrupted execution would: each node once, after everything that may call it,
\* along the one route it chose first, and success only when nothing is left
\* (plan.go:343-366).
GraphIsWalkedOnce == Plain!Spec
=============================================================================
