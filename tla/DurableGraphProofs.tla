------------------------- MODULE DurableGraphProofs -------------------------
(***************************************************************************)
(* Theorems about DurableGraph for every plan, every set of workers and    *)
(* any number of questions, claims and faults.                             *)
(*                                                                         *)
(* A snapshot of the run is a frontier: TypeOK says so of the constants,   *)
(* and the theorems assume it.                                             *)
(***************************************************************************)
EXTENDS DurableGraph, RunRecordProofs, FiniteSetTheorems, WellFoundedInduction

-----------------------------------------------------------------------------
(***************************************************************************)
(* The inductive invariant.                                                *)
(***************************************************************************)

Underway == {"loop", "executing", "save", "failing", "fail", "park"}
Resting == {"idle", "claimed", "stop", "lost", "unknown"}
Places == Underway \cup Resting \cup {"reread"}

Sessions ==
  [at : Places, next : Places \cup {"none"}, view : RunRecords, fence : Nat, x : Frontiers,
   given : SUBSET Inputs, restored : SUBSET Tasks, failed : SUBSET Tasks, stopped : BOOLEAN]

TypeOK ==
  /\ Snapshots = Frontiers
  /\ run \in RunRecords
  /\ session \in [Workers -> Sessions]
  /\ asked \in [Tasks -> Nat] /\ ran \in [Tasks -> Nat] /\ faults \in Nat

\* The place a session is at, or goes to when its commit has been read back.
Aim(w) == IF session[w].at = "reread" THEN session[w].next ELSE session[w].at

\* Where a session is fits what it carries.
Position(w) ==
  /\ session[w].at = "reread" => session[w].next \in Underway \cup {"stop"}
  /\ Aim(w) \in {"executing", "save"} => session[w].x.ready # {}
  /\ session[w].at # "idle" => session[w].fence # 0
Positioned == \A w \in Workers : Position(w)

\* A copy of the record is never ahead of it, and at the same revision it is the same.
OnRecord(r, n) == r.tasks[n].status # "absent"
Lags(r, now) ==
  /\ r.revision <= now.revision
  /\ r.revision = now.revision => r.activations = now.activations /\ r.tasks = now.tasks
  /\ \A n \in Tasks : OnRecord(r, n) => OnRecord(now, n)
LagsBehind(w) ==
  /\ Lags(session[w].view, run)
  /\ session[w].at = "reread" => session[w].view.revision < run.revision
ViewsLag == Lags(AbsentRun, run) /\ \A w \in Workers : LagsBehind(w)

\* The activation of a node that never waited is the permission to execute it, and
\* there is one.
Heading(w, n) == Aim(w) = "executing" /\ Node(w) = n
Permission(n) ==
  asked[n] = 0 =>
    /\ ran[n] <= 1
    /\ run.activations[n].attempt = 0 => ran[n] = 0 /\ \A w \in Workers : ~Heading(w, n)
    /\ ran[n] = 1 => \A w \in Workers : ~Heading(w, n)
    /\ \A v, w \in Workers : Heading(v, n) /\ Heading(w, n) => v = w
Permitted == \A n \in Tasks : Permission(n)

\* What a session knows of the record; after a commit of its own, what it will read back.
Base(w) == IF session[w].at = "reread" THEN run ELSE session[w].view
Reads(w) == session[w].at = "reread" => Confirmed(w)

\* A frontier and a record fit together, but for the results still to be saved.
Unsaved(w) == IF session[w].at = "save" THEN {Node(w)} ELSE {}
FitsAt(x, tasks, unsaved, a, n) ==
  /\ n \in x.completed <=> tasks[n].adopted # 0
  /\ tasks[n].status = "succeeded" => n \in x.results
  /\ n \in x.results => \/ tasks[n].status = "succeeded" \/ a[n] > 0
                        \/ n \in unsaved /\ tasks[n].status = "absent"
Fits(x, tasks, unsaved, a) == \A n \in Tasks : FitsAt(x, tasks, unsaved, a, n)
Fitting(w) ==
  Aim(w) \in Underway /\ Reads(w) => Fits(session[w].x, Base(w).tasks, Unsaved(w), asked)
Consistent == Fits(Pinned, run.tasks, {}, asked) /\ \A w \in Workers : Fitting(w)

\* A result, or a failure, is of a node that was executed; what waits was asked.
Earned(x, r, a) ==
  /\ \A n \in Tasks : n \in x.results => r[n] > 0
  /\ \A q \in x.waiting : a[q[1]] > 0
Attests(w) ==
  Earned(session[w].x, ran, asked) /\ \A n \in Tasks : n \in session[w].failed => ran[n] > 0
Witnessed ==
  /\ Earned(Pinned, ran, asked)
  /\ \A n \in Tasks : /\ OnRecord(run, n) => ran[n] > 0
                      /\ run.tasks[n].adopted # 0 => OnRecord(run, n)
  /\ \A w \in Workers : Attests(w)

\* What a session has activated itself has a result, or has asked, or is being executed.
Owns(w) ==
  Aim(w) \in {"loop", "executing", "save"} /\ Reads(w) =>
    \A n \in Tasks : n \notin session[w].restored /\ Base(w).activations[n].attempt # 0 =>
      n \in session[w].x.results \/ asked[n] > 0 \/ Heading(w, n)
OwnWork == \A w \in Workers : Owns(w)

IInv == TypeOK /\ Positioned /\ ViewsLag /\ Permitted /\ Consistent /\ Witnessed /\ OwnWork

-----------------------------------------------------------------------------
\* The scheduler.

LEMMA PlanFacts ==
  /\ Targets = Questions /\ Asking \subseteq Tasks /\ Ingress \in Inputs
  /\ MaxAsks \in Nat /\ Entry \in Tasks
  /\ Fixed \in [Tasks -> SUBSET Tasks] /\ Branches \in [Tasks -> SUBSET Tasks]
  /\ Order \in Seq(Tasks) /\ \A n \in Tasks : \E i \in 1..Len(Order) : Order[i] = n
BY PlanAssumption DEF ToSet

\* A set of numbers has a least one: its intervals from 1 have one without a smaller.
LEMMA LeastNumber ==
  ASSUME NEW S, S \subseteq Nat, S # {}
  PROVE  Min(S) \in S
<1> DEFINE T == {1..i : i \in S}
           R == StrictSubsetOrdering(Nat)
<1>1. IsWellFoundedOn(R, FiniteSubsetsOf(Nat))
  BY FS_StrictSubsetOrderingWellFounded
<1>2. \A i \in S : 1..i \in FiniteSubsetsOf(Nat)
  BY FS_Interval DEF FiniteSubsetsOf
<1>3. T \subseteq FiniteSubsetsOf(Nat) /\ T # {}
  BY <1>2
<1>4. PICK X \in T : \A Y \in T : <<Y, X>> \notin R
  <2> HIDE DEF T, R
  <2> QED  BY <1>1, <1>3, WFMin
<1>5. PICK m \in S : X = 1..m
  BY <1>4
<1>6. ASSUME NEW k \in S, k < m PROVE FALSE
  <2>1. 1..k \in SUBSET Nat /\ 1..m \in SUBSET Nat /\ 1..k \subseteq 1..m
    BY <1>6
  <2>2. m \in 1..m /\ m \notin 1..k
    BY <1>6
  <2>3. <<1..k, 1..m>> \in R
    BY <2>1, <2>2 DEF StrictSubsetOrdering
  <2>4. QED
    BY <1>4, <1>5, <2>3
<1>7. \A k \in S : m <= k
  BY <1>6
<1>8. \E k \in S : \A j \in S : k <= j
  BY <1>7
<1>9. (CHOOSE k \in S : \A j \in S : k <= j) \in S
  BY <1>8
<1>10. QED
  BY <1>9 DEF Min

LEMMA FirstReady ==
  ASSUME NEW x \in Frontiers, x.ready # {}
  PROVE  First(x) \in x.ready /\ First(x) \in Tasks
<1> DEFINE I == {i \in 1..Len(Order) : Order[i] \in x.ready}
<1>0. x.ready \subseteq Tasks
  BY DEF Frontiers
<1>1. I \subseteq Nat /\ I # {} /\ x.ready \subseteq Tasks
  <2>1. PICK n \in x.ready : TRUE
    OBVIOUS
  <2>2. PICK i \in 1..Len(Order) : Order[i] = n
    BY <1>0, <2>1, PlanFacts
  <2>3. I \subseteq Nat
    OBVIOUS
  <2> QED  BY <1>0, <2>2, <2>3
<1>2. Min(I) \in I
  BY <1>1, LeastNumber
<1>3. SelectInSeq(Order, LAMBDA n : n \in x.ready) = Min(I)
  BY <1>1 DEF SelectInSeq
<1>4. QED
  BY <1>1, <1>2, <1>3 DEF First

LEMMA BeginFields ==
  /\ Begin \in Frontiers
  /\ Begin.completed = {} /\ Begin.results = {} /\ Begin.waiting = {}
BY PlanFacts DEF Begin, Frontiers

LEMMA CompletingFields ==
  ASSUME NEW x \in Frontiers, NEW n \in Tasks
  PROVE  LET y == Completing(x, n)
         IN /\ y \in Frontiers
            /\ y.completed = x.completed \cup {n} /\ y.results = x.results
            /\ y.waiting = {q \in x.waiting : q[1] # n}
<1> DEFINE y == [x EXCEPT !.completed = @ \cup {n}, !.waiting = {q \in @ : q[1] # n}]
<1>1. /\ y \in Frontiers /\ y.completed = x.completed \cup {n} /\ y.results = x.results
      /\ y.waiting = {q \in x.waiting : q[1] # n} /\ y.ready = x.ready
  BY DEF Frontiers
<1>2. (y.ready \ {n}) \cup (Due(y) \ Due(x)) \subseteq Tasks
  BY <1>1 DEF Frontiers, Due
<1>3. Completing(x, n) = [y EXCEPT !.ready = (y.ready \ {n}) \cup (Due(y) \ Due(x))]
  BY DEF Completing
<1>4. QED
  <2> HIDE DEF y
  <2> QED  BY <1>1, <1>2, <1>3 DEF Frontiers

LEMMA RouteTypes ==
  ASSUME NEW x \in Frontiers, NEW n \in Tasks, NEW route \in Routes(n)
  PROVE  route \in SUBSET Tasks
BY PlanFacts DEF Routes

LEMMA ExecutedFields ==
  ASSUME NEW x \in Frontiers, NEW n \in Tasks, NEW route \in SUBSET Tasks
  PROVE  LET y == Executed(x, n, route)
         IN /\ y \in Frontiers /\ y.ready = x.ready
            /\ y.completed = x.completed /\ y.results = x.results \cup {n}
            /\ y.waiting = x.waiting
BY DEF Executed, Frontiers

LEMMA InterruptingFields ==
  ASSUME NEW x \in Frontiers, NEW n \in Tasks, NEW q \in Questions
  PROVE  LET y == Interrupting(x, n, q)
         IN /\ y \in Frontiers
            /\ y.completed = x.completed /\ y.results = x.results
            /\ y.waiting = {p \in x.waiting : p[1] # n} \cup {q}
BY DEF Interrupting, Frontiers
-----------------------------------------------------------------------------
\* The requests of a session are well formed and carry its authority.

Sealed(w, q) ==
  /\ q \in Requests /\ q.owner = w /\ q.fence = session[w].fence
  /\ q.expected = session[w].view.revision

LEMMA SessionFields ==
  ASSUME TypeOK, NEW w \in Workers
  PROVE  /\ session[w] \in Sessions
         /\ session[w].at \in Places /\ session[w].next \in Places \cup {"none"}
         /\ session[w].view \in RunRecords /\ session[w].fence \in Nat
         /\ session[w].x \in Frontiers /\ session[w].given \in SUBSET Inputs
         /\ session[w].restored \in SUBSET Tasks /\ session[w].failed \in SUBSET Tasks
         /\ session[w].stopped \in BOOLEAN
BY DEF TypeOK, Sessions

LEMMA SameFirst ==
  ASSUME NEW x, NEW y, x.ready = y.ready
  PROVE  First(x) = First(y)
BY DEF First

LEMMA WorkingNode ==
  ASSUME TypeOK, Positioned, NEW w \in Workers,
         session[w].x.ready # {} \/ Aim(w) \in {"executing", "save"}
  PROVE  Node(w) \in session[w].x.ready /\ Node(w) \in Tasks
BY FirstReady, SessionFields DEF Node, Positioned, Position

LEMMA EmptyFields ==
  /\ EmptyRequest.activate = [n \in Tasks |-> NoActivation]
  /\ EmptyRequest.results = [n \in Tasks |-> NoResult]
  /\ EmptyRequest.adopt = {}
BY DEF EmptyRequest

LEMMA DraftFields ==
  ASSUME TypeOK, NEW w \in Workers, NEW x \in Frontiers
  PROVE  /\ Sealed(w, Draft(w, x))
         /\ Draft(w, x).activate = EmptyRequest.activate
         /\ Draft(w, x).results = EmptyRequest.results
         /\ Draft(w, x).adopt = {} /\ Draft(w, x).snapshot = x
<1> DEFINE f == session[w].fence
           e == session[w].view.revision
           W == [declared |-> TRUE, targets |-> x.waiting]
           a == [EmptyRequest EXCEPT !.owner = w, !.fence = f, !.expected = e]
           b == [a EXCEPT !.snapshot = x, !.waiting = W, !.events = 1]
<1>1. f \in Nat /\ e \in Nat
  BY SessionFields, RecordFields
<1>2. x \in Snapshots /\ W \in WaitingSets
  BY PlanFacts DEF TypeOK, WaitingSets, Frontiers
<1>3. /\ a \in Requests /\ a.owner = w /\ a.fence = f /\ a.expected = e
      /\ a.activate = EmptyRequest.activate /\ a.results = EmptyRequest.results
      /\ a.adopt = EmptyRequest.adopt
  <2> HIDE DEF f, e
  <2>1. EmptyRequest \in Requests
    BY AbsentRunType
  <2>2. QED
    BY <1>1, <2>1 DEF Requests
<1>4. /\ b \in Requests /\ b.owner = w /\ b.fence = f /\ b.expected = e
      /\ b.activate = a.activate /\ b.results = a.results /\ b.adopt = a.adopt
      /\ b.snapshot = x
  <2> HIDE DEF a, W, f, e
  <2> QED  BY <1>2, <1>3 DEF Requests
<1>5. Draft(w, x) = b
  BY DEF Draft
<1>6. QED
  <2> HIDE DEF a, b
  <2> QED  BY <1>3, <1>4, <1>5, EmptyFields DEF Sealed

Activating(w, x, n, a, C) == [Draft(w, x) EXCEPT !.activate[n] = a, !.consume = C]

LEMMA ActivateFields ==
  ASSUME TypeOK, NEW w \in Workers, NEW x \in Frontiers, NEW n \in Tasks,
         NEW a \in Activations, NEW C \in SUBSET Inputs
  PROVE  LET q == Activating(w, x, n, a, C)
         IN /\ Sealed(w, q)
            /\ q.activate = [EmptyRequest.activate EXCEPT ![n] = a]
            /\ q.results = EmptyRequest.results /\ q.adopt = {} /\ q.snapshot = x
<1> DEFINE d == Draft(w, x)
           q == [d EXCEPT !.activate[n] = a, !.consume = C]
<1>1. /\ Sealed(w, q) /\ q.activate = [d.activate EXCEPT ![n] = a]
      /\ q.results = d.results /\ q.adopt = d.adopt /\ q.snapshot = d.snapshot
  <2> Sealed(w, d)
    BY DraftFields
  <2> HIDE DEF d
  <2> QED  BY DEF Sealed, Requests
<1>2. QED
  BY <1>1, DraftFields DEF Activating

LEMMA StatusFields ==
  ASSUME TypeOK, NEW w \in Workers, NEW x \in Frontiers, NEW status \in Statuses
  PROVE  LET q == [Draft(w, x) EXCEPT !.status = status]
         IN /\ Sealed(w, q)
            /\ q.activate = EmptyRequest.activate
            /\ q.results = EmptyRequest.results /\ q.adopt = {} /\ q.snapshot = x
BY DraftFields DEF Sealed, Requests

\* What a Persisting request saves of a node, and whom it adopts.
Saves(w, x, n) ==
  IF n \in x.results /\ ~OnRecord(session[w].view, n) THEN ResultOf(w, n, "succeeded")
  ELSE IF n \in session[w].failed /\ ~OnRecord(session[w].view, n)
  THEN ResultOf(w, n, "failed") ELSE NoResult

LEMMA PersistFields ==
  ASSUME TypeOK, NEW w \in Workers, NEW x \in Frontiers
  PROVE  LET q == Persisting(w, x)
         IN /\ Sealed(w, q)
            /\ q.activate = EmptyRequest.activate
            /\ q.results = [n \in Tasks |-> Saves(w, x, n)]
            /\ q.adopt = {n \in x.completed : session[w].view.tasks[n].adopted = 0}
            /\ q.snapshot = x
<1> DEFINE d == Draft(w, x)
           R == [n \in Tasks |-> Saves(w, x, n)]
           A == {n \in x.completed : Adoptable(w, n)}
           C == {i \in Unconsumed(w) : UsedUp(w, x, i)}
           q == [d EXCEPT !.results = R, !.adopt = A, !.consume = C]
<1>1. R \in [Tasks -> Results] /\ A \subseteq Tasks /\ C \subseteq Inputs
  <2>1. session[w].view.activations \in [Tasks -> Activations]
    BY SessionFields, RecordFields
  <2>2. ASSUME NEW n \in Tasks PROVE Saves(w, x, n) \in Results
    BY <2>1 DEF Saves, ResultOf, Results, TaskStatuses, NoResult, Activations
  <2>3. QED
    BY <2>2, SessionFields DEF Frontiers, Unconsumed
<1>2. /\ Sealed(w, q) /\ q.activate = d.activate /\ q.results = R /\ q.adopt = A
      /\ q.snapshot = d.snapshot
  <2> Sealed(w, d)
    BY DraftFields
  <2> HIDE DEF d, R, A, C
  <2> QED  BY <1>1 DEF Sealed, Requests
<1>3. Persisting(w, x) = q
  BY DEF Persisting, Saves, OnRecord
<1>4. QED
  <2> HIDE DEF q
  <2> QED  BY <1>2, <1>3, DraftFields DEF Adoptable
-----------------------------------------------------------------------------
\* What a commit comes to, and what it leaves in the record.

\* A session that knows nothing of the run.
Blank(s) ==
  /\ s \in Sessions /\ s.at \in Resting
  /\ s.at # "idle" => s.fence # 0
  /\ s.next = "none" /\ s.view = AbsentRun /\ s.x = Begin /\ s.failed = {}

Others(w) == \A v \in Workers \ {w} : session'[v] = session[v]

LEMMA BlankFields ==
  ASSUME NEW place \in Resting, NEW f \in Nat, place # "idle" => f # 0
  PROVE  Blank([Idle EXCEPT !.at = place, !.fence = f])
<1>1. /\ "idle" \in Places /\ place \in Places /\ AbsentRun \in RunRecords
      /\ Begin \in Frontiers
  BY BeginFields, AbsentRunType DEF Places, Resting
<1>2. QED
  BY <1>1 DEF Blank, Idle, Sessions

\* A commit is applied or the session leaves, the record as it is.
Departs(w) ==
  Blank(session'[w]) /\ Others(w) /\ session' \in [Workers -> Sessions] /\ run' = run

LEMMA LeavesFields ==
  ASSUME TypeOK, Positioned, NEW w \in Workers, session[w].at # "idle",
         NEW place \in Resting, Leaves(w, place)
  PROVE  /\ Blank(session'[w]) /\ Others(w)
         /\ session' \in [Workers -> Sessions]
<1>1. session[w].fence \in Nat /\ session[w].fence # 0
  BY SessionFields DEF Positioned, Position
<1>2. Blank([Idle EXCEPT !.at = place, !.fence = session[w].fence])
  BY <1>1, BlankFields
<1>3. QED
  BY <1>2 DEF Leaves, Becomes, TypeOK, Blank, Others

Applies(w, q, next) ==
  /\ CommitOK(run, q) /\ run' = Committed(run, q)
  /\ session' = [session EXCEPT ![w] =
                   [session[w] EXCEPT !.at = "reread", !.next = next, !.x = q.snapshot]]

LEMMA CommitCases ==
  ASSUME TypeOK, Positioned, NEW w \in Workers, session[w].at # "idle", NEW q, NEW next,
         Commit(w, q, next)
  PROVE  faults' \in Nat /\ (Departs(w) \/ Applies(w, q, next))
<1>1. {"stop", "lost"} \subseteq Resting /\ faults \in Nat
  BY DEF Resting, TypeOK
<1>2. CASE run' = run /\ faults' = faults /\ (Leaves(w, "stop") \/ Leaves(w, "lost"))
  BY <1>1, <1>2, LeavesFields DEF Departs
<1>3. CASE run' = run /\ Fault /\ Leaves(w, "stop")
  BY <1>1, <1>3, LeavesFields DEF Departs, Fault
<1>4. CASE /\ CommitOK(run, q) /\ run' = Committed(run, q) /\ faults' = faults
           /\ Becomes(w, [session[w] EXCEPT !.at = "reread", !.next = next, !.x = q.snapshot])
  BY <1>1, <1>4 DEF Applies, Becomes
<1>5. QED
  BY <1>2, <1>3, <1>4 DEF Commit

\* What every applied commit of w does, whatever it is for.
Pins(w, x, next) ==
  /\ Holds(run, w, session[w].fence) /\ Live(run)
  /\ session[w].view.revision = run.revision
  /\ run' \in RunRecords /\ run'.revision = run.revision + 1
  /\ run'.owner = run.owner /\ run'.fence = run.fence
  /\ run'.snapshot = x /\ x \in Frontiers
  /\ Others(w) /\ session' \in [Workers -> Sessions]
  /\ session'[w] = [session[w] EXCEPT !.at = "reread", !.next = next, !.x = x]

LEMMA AppliedPins ==
  ASSUME TypeOK, NEW w \in Workers, NEW q, NEW next \in Places, NEW x \in Frontiers,
         Sealed(w, q), q.snapshot = x, Applies(w, q, next)
  PROVE  Pins(w, x, next)
<1>1. q \in Requests /\ run \in RunRecords /\ session[w] \in Sessions
  BY SessionFields DEF Sealed, TypeOK
<1>2. x # NoSnapshot
  BY IdentityAssumption DEF TypeOK
<1>3. /\ run' \in RunRecords /\ run'.revision = run.revision + 1
      /\ run'.owner = run.owner /\ run'.fence = run.fence /\ run'.snapshot = x
  BY <1>1, <1>2, CommittedType, CommittedFields DEF Applies
<1>4. /\ Holds(run, w, session[w].fence) /\ Live(run)
      /\ session[w].view.revision = run.revision
  BY DEF Applies, CommitOK, Sealed
<1>5. /\ [session[w] EXCEPT !.at = "reread", !.next = next, !.x = x] \in Sessions
  BY <1>1 DEF Sessions, Places
<1>6. /\ session' \in [Workers -> Sessions] /\ Others(w)
      /\ session'[w] = [session[w] EXCEPT !.at = "reread", !.next = next, !.x = x]
  BY <1>5 DEF TypeOK, Applies, Others
<1>7. QED
  BY <1>3, <1>4, <1>6 DEF Pins

\* A commit that activates a node for the first time.
Activates(w) ==
  /\ session[w].at = "loop" /\ session[w].x.ready # {}
  /\ Pins(w, session[w].x, "executing")
  /\ run.activations[Node(w)].attempt = 0
  /\ run'.activations[Node(w)].attempt # 0
  /\ \A n \in Tasks : n # Node(w) => run'.activations[n] = run.activations[n]
  /\ \A n \in Tasks : run'.tasks[n].status = run.tasks[n].status
  /\ \A n \in Tasks : run'.tasks[n].adopted = run.tasks[n].adopted

\* A commit that saves the results there are and adopts those of completed nodes.
Persists(w, x, next) ==
  /\ \/ /\ session[w].at = "loop" /\ session[w].x.ready # {} /\ Known(w) /\ next = "loop"
        /\ x = Completing(session[w].x, Node(w))
     \/ session[w].at = "save" /\ next = "loop" /\ x = session[w].x
     \/ session[w].at \in {"loop", "failing"} /\ next \in {"park", "fail"} /\ x = session[w].x
  /\ Pins(w, x, next)
  /\ \A n \in Tasks : run'.activations[n] = run.activations[n]
  /\ \A n \in Tasks :
       /\ run'.tasks[n].status =
            (IF OnRecord(run, n) THEN run.tasks[n].status
             ELSE IF n \in x.results THEN "succeeded"
             ELSE IF n \in session[w].failed THEN "failed" ELSE "absent")
       /\ run'.tasks[n].adopted =
            (IF n \in x.completed /\ run.tasks[n].adopted = 0 THEN run.revision + 1
             ELSE IF OnRecord(run, n) \/ n \notin x.results \cup session[w].failed
             THEN run.tasks[n].adopted ELSE 0)

\* A commit that sets the status.
Declares(w) ==
  /\ session[w].at \in {"loop", "park", "fail"}
  /\ Pins(w, session[w].x, "stop")
  /\ \A n \in Tasks : run'.activations[n] = run.activations[n]
  /\ \A n \in Tasks : run'.tasks[n].status = run.tasks[n].status
  /\ \A n \in Tasks : run'.tasks[n].adopted = run.tasks[n].adopted

Stores(w) ==
  \/ Activates(w) \/ Declares(w)
  \/ \E x \in Frontiers, next \in {"loop", "park", "fail"} : Persists(w, x, next)

\* A commit that is applied was decided on the record as it is.
LEMMA FreshView ==
  ASSUME TypeOK, ViewsLag, NEW w \in Workers, NEW x, NEW next, Pins(w, x, next)
  PROVE  /\ session[w].view.activations = run.activations
         /\ session[w].view.tasks = run.tasks
BY DEF Pins, ViewsLag, LagsBehind, Lags

LEMMA PersistApplied ==
  ASSUME TypeOK, ViewsLag, NEW w \in Workers, NEW x \in Frontiers,
         NEW next \in {"loop", "park", "fail"},
         \/ /\ session[w].at = "loop" /\ session[w].x.ready # {} /\ Known(w) /\ next = "loop"
            /\ x = Completing(session[w].x, Node(w))
         \/ session[w].at = "save" /\ next = "loop" /\ x = session[w].x
         \/ session[w].at \in {"loop", "failing"} /\ next \in {"park", "fail"} /\ x = session[w].x,
         Applies(w, Persisting(w, x), next)
  PROVE  Persists(w, x, next)
<1> DEFINE q == Persisting(w, x)
<1>0. Applies(w, q, next)
  OBVIOUS
<1>1. /\ Sealed(w, q) /\ q.activate = EmptyRequest.activate /\ q.snapshot = x
      /\ q.results = [n \in Tasks |-> Saves(w, x, n)]
      /\ q.adopt = {n \in x.completed : session[w].view.tasks[n].adopted = 0}
  BY PersistFields
<1>2. q \in Requests /\ run \in RunRecords /\ run' = Committed(run, q) /\ next \in Places
  BY <1>0, <1>1 DEF Sealed, TypeOK, Applies, Places, Underway
<1> HIDE DEF q
<1>3. Pins(w, x, next)
  BY <1>0, <1>1, <1>2, AppliedPins
<1>4. session[w].view.activations = run.activations /\ session[w].view.tasks = run.tasks
  BY <1>3, FreshView
<1>5. ASSUME NEW n \in Tasks PROVE run'.activations[n] = run.activations[n]
  BY <1>1, <1>2, CommittedFields, EmptyFields DEF NoActivation
<1>6. ASSUME NEW n \in Tasks
      PROVE  /\ run'.tasks[n].status =
                  (IF OnRecord(run, n) THEN run.tasks[n].status
                   ELSE IF n \in x.results THEN "succeeded"
                   ELSE IF n \in session[w].failed THEN "failed" ELSE "absent")
             /\ run'.tasks[n].adopted =
                  (IF n \in x.completed /\ run.tasks[n].adopted = 0 THEN run.revision + 1
                   ELSE IF OnRecord(run, n) \/ n \notin x.results \cup session[w].failed
                   THEN run.tasks[n].adopted ELSE 0)
  <2> DEFINE result == IF run.tasks[n].status = "absent" /\ q.results[n].status # "absent"
                       THEN q.results[n] ELSE run.tasks[n]
  <2>1. /\ run'.tasks[n].status = result.status
        /\ run'.tasks[n].adopted = IF n \in q.adopt THEN run.revision + 1 ELSE result.adopted
    BY <1>2, CommittedTasks
  <2>2. q.results[n] = Saves(w, x, n)
    BY <1>1
  <2>3. \A status : /\ ResultOf(w, n, status).status = status
                    /\ ResultOf(w, n, status).adopted = 0
    BY DEF ResultOf
  <2>4. OnRecord(session[w].view, n) <=> OnRecord(run, n)
    BY <1>4 DEF OnRecord
  <2>5. n \in q.adopt <=> n \in x.completed /\ run.tasks[n].adopted = 0
    BY <1>1, <1>4
  <2>6. /\ result.status =
              (IF OnRecord(run, n) THEN run.tasks[n].status
               ELSE IF n \in x.results THEN "succeeded"
               ELSE IF n \in session[w].failed THEN "failed" ELSE "absent")
        /\ result.adopted =
              (IF OnRecord(run, n) \/ n \notin x.results \cup session[w].failed
               THEN run.tasks[n].adopted ELSE 0)
    BY <2>2, <2>3, <2>4 DEF Saves, OnRecord, NoResult
  <2>7. QED
    <3> HIDE DEF result
    <3> QED  BY <2>1, <2>5, <2>6
<1>7. QED
  BY <1>3, <1>5, <1>6 DEF Persists

LEMMA PersistCommit ==
  ASSUME TypeOK, Positioned, ViewsLag, NEW w \in Workers, NEW x \in Frontiers,
         NEW next \in {"loop", "park", "fail"},
         \/ /\ session[w].at = "loop" /\ session[w].x.ready # {} /\ Known(w) /\ next = "loop"
            /\ x = Completing(session[w].x, Node(w))
         \/ session[w].at = "save" /\ next = "loop" /\ x = session[w].x
         \/ session[w].at \in {"loop", "failing"} /\ next \in {"park", "fail"} /\ x = session[w].x,
         Commit(w, Persisting(w, x), next)
  PROVE  faults' \in Nat /\ (Departs(w) \/ Stores(w))
<1>1. faults' \in Nat /\ (Departs(w) \/ Applies(w, Persisting(w, x), next))
  BY CommitCases
<1>2. QED
  BY <1>1, PersistApplied DEF Stores

LEMMA DeclareApplied ==
  ASSUME TypeOK, NEW w \in Workers, session[w].at \in {"loop", "park", "fail"},
         NEW status \in Statuses,
         Applies(w, [Draft(w, session[w].x) EXCEPT !.status = status], "stop")
  PROVE  Declares(w)
<1> DEFINE x == session[w].x
           q == [Draft(w, x) EXCEPT !.status = status]
<1>0. Applies(w, q, "stop")
  OBVIOUS
<1>1. /\ Sealed(w, q) /\ q.activate = EmptyRequest.activate
      /\ q.results = EmptyRequest.results /\ q.adopt = {} /\ q.snapshot = x /\ x \in Frontiers
  BY StatusFields, SessionFields
<1> HIDE DEF q, x
<1>2. q \in Requests /\ run \in RunRecords /\ run' = Committed(run, q) /\ "stop" \in Places
  BY <1>0, <1>1 DEF Sealed, TypeOK, Applies, Places, Resting
<1>3. Pins(w, x, "stop")
  BY <1>0, <1>1, <1>2, AppliedPins
<1>4. ASSUME NEW n \in Tasks PROVE run'.activations[n] = run.activations[n]
  BY <1>1, <1>2, CommittedFields, EmptyFields DEF NoActivation
<1>5. ASSUME NEW n \in Tasks
      PROVE  /\ run'.tasks[n].status = run.tasks[n].status
             /\ run'.tasks[n].adopted = run.tasks[n].adopted
  BY <1>1, <1>2, CommittedTasks, EmptyFields DEF NoResult
<1>6. QED
  BY <1>3, <1>4, <1>5 DEF Declares, x

LEMMA DeclareCommit ==
  ASSUME TypeOK, Positioned, NEW w \in Workers, session[w].at \in {"loop", "park", "fail"},
         NEW status \in Statuses,
         Commit(w, [Draft(w, session[w].x) EXCEPT !.status = status], "stop")
  PROVE  faults' \in Nat /\ (Departs(w) \/ Stores(w))
<1> DEFINE q == [Draft(w, session[w].x) EXCEPT !.status = status]
<1>1. faults' \in Nat /\ (Departs(w) \/ Applies(w, q, "stop"))
  BY CommitCases
<1>2. QED
  BY <1>1, DeclareApplied DEF Stores

\* The activation of the node a session works on.
Pinning(w) == [attempt |-> session[w].fence, read |-> session[w].view.revision]
Activation(w) ==
  Activating(w, session[w].x, Node(w), Pinning(w),
             {i \in Unconsumed(w) : TargetOf(w, i) = NoTarget})

LEMMA ActivationFields ==
  ASSUME TypeOK, Positioned, NEW w \in Workers, Activate(w)
  PROVE  /\ session[w].at = "loop" /\ session[w].x.ready # {} /\ ~Known(w)
         /\ session[w].view.activations[Node(w)].attempt = 0
         /\ Pinning(w) \in Activations /\ Pinning(w).attempt # 0
         /\ session[w].x \in Frontiers /\ Node(w) \in Tasks
         /\ Commit(w, Activation(w), "executing")
         /\ Sealed(w, Activation(w))
         /\ Activation(w).activate = [EmptyRequest.activate EXCEPT ![Node(w)] = Pinning(w)]
         /\ Activation(w).results = EmptyRequest.results /\ Activation(w).adopt = {}
         /\ Activation(w).snapshot = session[w].x
<1> DEFINE x == session[w].x
           n == Node(w)
           C == {i \in Unconsumed(w) : TargetOf(w, i) = NoTarget}
<1>1. /\ session[w].at = "loop" /\ x.ready # {} /\ ~Known(w)
      /\ session[w].view.activations[n].attempt = 0
      /\ session[w].fence # 0 /\ x \in Frontiers /\ n \in Tasks
      /\ Commit(w, Activation(w), "executing")
  BY SessionFields, WorkingNode
     DEF Activate, Turn, Dispatched, Positioned, Position, Activating, Activation, Pinning
<1>2. Pinning(w) \in Activations /\ Pinning(w).attempt # 0 /\ C \in SUBSET Inputs
  BY <1>1, SessionFields, RecordFields DEF Activations, Unconsumed, Pinning
<1>3. LET q == Activating(w, x, n, Pinning(w), C)
      IN  /\ Sealed(w, q) /\ q.activate = [EmptyRequest.activate EXCEPT ![n] = Pinning(w)]
          /\ q.results = EmptyRequest.results /\ q.adopt = {} /\ q.snapshot = x
  <2> HIDE DEF C, n, x
  <2> QED  BY <1>1, <1>2, ActivateFields
<1>4. QED
  BY <1>1, <1>2, <1>3 DEF Activation

LEMMA ActivateApplied ==
  ASSUME TypeOK, Positioned, ViewsLag, NEW w \in Workers, Activate(w),
         Applies(w, Activation(w), "executing")
  PROVE  Activates(w)
<1> DEFINE x == session[w].x
           n == Node(w)
           q == Activation(w)
<1>1. /\ Sealed(w, q) /\ q.activate = [EmptyRequest.activate EXCEPT ![n] = Pinning(w)]
      /\ q.results = EmptyRequest.results /\ q.adopt = {} /\ q.snapshot = x
      /\ x \in Frontiers /\ n \in Tasks /\ Pinning(w).attempt # 0
      /\ session[w].at = "loop" /\ x.ready # {} /\ session[w].view.activations[n].attempt = 0
      /\ Applies(w, q, "executing")
  BY ActivationFields
<1> HIDE DEF q, n, x
<1>2. q \in Requests /\ run \in RunRecords /\ run' = Committed(run, q) /\ "executing" \in Places
  BY <1>1 DEF Sealed, TypeOK, Applies, Places, Underway
<1>3. Pins(w, x, "executing")
  BY <1>1, <1>2, AppliedPins
<1>4. run.activations[n].attempt = 0
  BY <1>1, <1>3, FreshView
<1>5. ASSUME NEW m \in Tasks
      PROVE  run'.activations[m] = IF m = n THEN Pinning(w) ELSE run.activations[m]
  BY <1>1, <1>2, CommittedFields, EmptyFields DEF NoActivation
<1>6. ASSUME NEW m \in Tasks
      PROVE  /\ run'.tasks[m].status = run.tasks[m].status
             /\ run'.tasks[m].adopted = run.tasks[m].adopted
  BY <1>1, <1>2, CommittedTasks, EmptyFields DEF NoResult
<1>7. QED
  BY <1>1, <1>3, <1>4, <1>5, <1>6 DEF Activates, x, n

LEMMA ActivateCommit ==
  ASSUME TypeOK, Positioned, ViewsLag, NEW w \in Workers, Activate(w)
  PROVE  faults' \in Nat /\ (Departs(w) \/ Stores(w))
<1>1. session[w].at # "idle" /\ Commit(w, Activation(w), "executing")
  BY ActivationFields
<1>2. faults' \in Nat /\ (Departs(w) \/ Applies(w, Activation(w), "executing"))
  BY <1>1, CommitCases
<1>3. QED
  BY <1>2, ActivateApplied DEF Stores
-----------------------------------------------------------------------------
\* The kinds of steps.

\* Nothing happens but to leases, inputs and the worker's own standing.
Same(w) ==
  /\ session'[w].at = session[w].at /\ session'[w].next = session[w].next
  /\ session'[w].view = session[w].view /\ session'[w].fence = session[w].fence
  /\ session'[w].x = session[w].x /\ session'[w].given = session[w].given
  /\ session'[w].restored = session[w].restored /\ session'[w].failed = session[w].failed
Keeps(r, s) ==
  /\ s.activations = r.activations /\ s.tasks = r.tasks /\ s.snapshot = r.snapshot
  /\ s.revision = r.revision \/ s.revision = r.revision + 1
Quiet ==
  /\ Keeps(run, run') /\ asked' = asked /\ ran' = ran
  /\ \A w \in Workers : Same(w) \/ Blank(session'[w])

Moves(w, place) ==
  /\ run' = run /\ Others(w)
  /\ session'[w].at = place /\ session'[w].restored = session[w].restored
  /\ session'[w].fence = session[w].fence

Loads(w) ==
  /\ run' = run /\ Others(w) /\ asked' = asked /\ ran' = ran
  /\ session'[w].at = "loop" /\ session'[w].view = run
  /\ session'[w].fence # 0 /\ session'[w].failed = session[w].failed
  /\ session'[w].restored = {n \in Tasks : run.activations[n].attempt # 0}
  /\ session'[w].x.completed = Pinned.completed
  /\ session'[w].x.results = Pinned.results /\ session'[w].x.waiting = Pinned.waiting

Rereads(w) ==
  /\ session[w].at = "reread" /\ Confirmed(w)
  /\ Moves(w, session[w].next) /\ asked' = asked /\ ran' = ran
  /\ session'[w].view = run /\ session'[w].x = session[w].x
  /\ session'[w].failed = session[w].failed

\* A step between two places that leaves all else as it is.
Walks(w) ==
  /\ session'[w].view = session[w].view /\ session'[w].x = session[w].x
  /\ session'[w].failed = session[w].failed /\ asked' = asked /\ ran' = ran
Redispatches(w) ==
  /\ session[w].at = "loop" /\ session[w].x.ready # {}
  /\ ~Known(w) /\ Dispatched(w) /\ ~Open(w)
  /\ Moves(w, "executing") /\ Walks(w)
Stalls(w) ==
  session[w].at = "loop" /\ Moves(w, "failing") /\ Walks(w)

\* A node is executed.
Runs1(w) ==
  /\ session[w].at = "executing"
  /\ ran' = [ran EXCEPT ![Node(w)] = @ + 1]
  /\ session'[w].view = session[w].view
Succeeds(w) ==
  /\ Runs1(w) /\ Moves(w, "save") /\ asked' = asked
  /\ session'[w].x.ready = session[w].x.ready /\ session'[w].failed = session[w].failed
  /\ session'[w].x.completed = session[w].x.completed
  /\ session'[w].x.results = session[w].x.results \cup {Node(w)}
  /\ session'[w].x.waiting = session[w].x.waiting
Asks(w) ==
  /\ Runs1(w) /\ Moves(w, "loop") /\ asked' = [asked EXCEPT ![Node(w)] = @ + 1]
  /\ session'[w].failed = session[w].failed
  /\ session'[w].x.completed = session[w].x.completed
  /\ session'[w].x.results = session[w].x.results
  /\ session'[w].x.waiting = {p \in session[w].x.waiting : p[1] # Node(w)}
                               \cup {<<Node(w), asked[Node(w)] + 1>>}
Fails(w) ==
  /\ Runs1(w) /\ Moves(w, "failing") /\ asked' = asked
  /\ session'[w].x = session[w].x /\ session'[w].failed = {Node(w)}

Steps1 ==
  \/ Quiet
  \/ \E w \in Workers :
       \/ Stores(w) /\ asked' = asked /\ ran' = ran
       \/ Loads(w) \/ Rereads(w) \/ Redispatches(w) \/ Stalls(w)
       \/ Succeeds(w) \/ Asks(w) \/ Fails(w)

Typed ==
  /\ run' \in RunRecords /\ session' \in [Workers -> Sessions]
  /\ asked' \in [Tasks -> Nat] /\ ran' \in [Tasks -> Nat] /\ faults' \in Nat

\* Of the store: hosts, the clock, and the scheduling of workers.
LEMMA QuietRun ==
  ASSUME NEW r \in RunRecords
  PROVE  /\ Keeps(r, r) /\ Keeps(r, Released(r)) /\ Keeps(r, Cancelled(r)) /\ Keeps(r, Aged(r))
         /\ \A w, n : Keeps(r, Claimed(r, w, n))
         /\ \A i, x : Keeps(r, Signalled(r, i, x))
<1>1. Keeps(r, r)
  BY DEF Keeps
<1>2. Keeps(r, Released(r)) /\ Keeps(r, Cancelled(r)) /\ Keeps(r, Aged(r))
  BY SchedulingFields, SchedulingFacts DEF SameFacts, Keeps
<1>3. \A w, n : Keeps(r, Claimed(r, w, n))
  BY SchedulingFields, SchedulingFacts DEF SameFacts, Keeps
<1>4. \A i, x : Keeps(r, Signalled(r, i, x))
  BY SignalledFields DEF Keeps
<1>5. QED
  BY <1>1, <1>2, <1>3, <1>4

LEMMA FaultFields ==
  ASSUME TypeOK, Fault
  PROVE  faults' \in Nat
BY DEF TypeOK, Fault

LEMMA HostSteps ==
  ASSUME TypeOK,
         \/ \E i \in Inputs \ {Ingress}, target \in Targets \cup {NoTarget} : Signal(i, target)
         \/ Cancel \/ Expire
  PROVE  Typed /\ Quiet
<1>1. /\ run \in RunRecords /\ session' = session /\ asked' = asked /\ ran' = ran
      /\ faults' \in Nat
  BY FaultFields DEF TypeOK, Signal, Cancel, Expire
<1>2. run' \in RunRecords /\ Keeps(run, run')
  BY <1>1, QuietRun, SchedulingType DEF Signal, Cancel, Expire
<1>3. QED
  BY <1>1, <1>2 DEF TypeOK, Typed, Quiet, Same

\* A session that begins or ends, or learns that it has to.
LEMMA StandingSteps ==
  ASSUME TypeOK, Positioned, NEW w \in Workers,
         \/ Claim(w) \/ TurnedAway(w) \/ Leave(w) \/ GiveUp(w)
         \/ Release(w) \/ Interrupt(w) \/ Crash(w)
  PROVE  Typed /\ Quiet
<1>0. /\ asked' = asked /\ ran' = ran /\ faults' \in Nat /\ run \in RunRecords
      /\ session[w] \in Sessions
  BY FaultFields, SessionFields
     DEF TypeOK, Claim, TurnedAway, Leave, GiveUp, Release, Interrupt, Crash
<1>1. Keeps(run, run) /\ Blank(Idle)
  BY <1>0, QuietRun, BeginFields, AbsentRunType DEF Blank, Idle, Sessions, Places, Resting
<1>2. CASE Claim(w)
  <2> DEFINE f == run.fence + 1
             s == [Idle EXCEPT !.at = "claimed", !.fence = f]
  <2>1. f \in Nat /\ f # 0 /\ "claimed" \in Resting /\ run' = Claimed(run, w, 1)
    BY <1>0, <1>2, RecordFields DEF Claim, Resting
  <2>2. Blank(s)
    <3> HIDE DEF f
    <3> QED  BY <2>1, BlankFields
  <2>3. session' = [session EXCEPT ![w] = s]
    BY <1>2 DEF Claim, Becomes
  <2>4. run' \in RunRecords /\ Keeps(run, run')
    BY <1>0, <2>1, QuietRun, SchedulingType
  <2>5. QED
    <3> HIDE DEF s
    <3> QED  BY <1>0, <2>2, <2>3, <2>4 DEF TypeOK, Typed, Quiet, Same, Blank
<1>3. CASE TurnedAway(w) \/ Leave(w) \/ GiveUp(w)
  <2>1. /\ run' = run /\ session[w].at # "idle"
        /\ \E place \in Resting : Leaves(w, place)
    BY <1>3 DEF TurnedAway, Leave, GiveUp, Turn, Resting
  <2>2. QED
    BY <1>0, <1>1, <2>1, LeavesFields DEF Typed, Quiet, Others, Same, TypeOK
<1>4. CASE Release(w)
  <2>1. run' \in RunRecords /\ Keeps(run, run')
    BY <1>0, <1>4, QuietRun, SchedulingType DEF Release
  <2>2. QED
    BY <1>0, <1>1, <1>4, <2>1 DEF Release, Becomes, Typed, Quiet, Same, TypeOK, Blank
<1>5. CASE Crash(w)
  BY <1>0, <1>1, <1>5 DEF Crash, Becomes, Typed, Quiet, Same, TypeOK, Blank
<1>6. CASE Interrupt(w)
  BY <1>0, <1>1, <1>6 DEF Interrupt, Typed, Quiet, Same, TypeOK, Sessions
<1>7. QED
  BY <1>2, <1>3, <1>4, <1>5, <1>6

\* A session that leaves on its way makes a quiet step.
LEMMA DepartsQuietly ==
  ASSUME TypeOK, NEW w \in Workers, Departs(w), asked' = asked, ran' = ran, faults' \in Nat
  PROVE  Typed /\ Quiet
BY QuietRun DEF TypeOK, Typed, Quiet, Departs, Others, Same

LEMMA LoadSteps ==
  ASSUME TypeOK, Positioned, NEW w \in Workers, Load(w)
  PROVE  Typed /\ (Quiet \/ Loads(w))
<1> DEFINE Given == SUBSET {i \in Inputs : Pending(run.inputs[i])}
           x == Pinned
           answered(given) == {run.inputs[i].target : i \in given} \ {NoTarget}
           R == {n \in Tasks : run.activations[n].attempt # 0}
           y(given) == [x EXCEPT !.ready = @ \cup {q[1] : q \in answered(given)}]
           s(given) == [session[w] EXCEPT
              !.at = "loop", !.view = run, !.given = given, !.restored = R, !.x = y(given)]
<1>1. /\ session[w].at = "claimed" /\ run' = run /\ asked' = asked /\ ran' = ran
      /\ faults' \in Nat /\ run \in RunRecords /\ x \in Frontiers
      /\ session[w] \in Sessions /\ session[w].fence # 0
  <2>1. run \in RunRecords /\ Begin \in Frontiers /\ Snapshots = Frontiers
    BY BeginFields DEF TypeOK
  <2>2. Pinned \in Frontiers
    BY <2>1, RecordFields DEF Pinned
  <2>3. QED
    BY <2>1, <2>2, SessionFields DEF Load, TypeOK, Positioned, Position
<1>2. PICK given \in Given :
        IF answered(given) \subseteq x.waiting
        THEN Becomes(w, s(given)) ELSE Leaves(w, "stop")
  BY DEF Load, Pinned
<1>3. CASE ~(answered(given) \subseteq x.waiting)
  BY <1>1, <1>2, <1>3, LeavesFields, DepartsQuietly DEF Departs, Resting
<1>4. CASE answered(given) \subseteq x.waiting
  <2>1. given \in SUBSET Inputs /\ R \in SUBSET Tasks
    OBVIOUS
  <2>2. {q[1] : q \in answered(given)} \subseteq Tasks
    <3>1. x.waiting \subseteq Questions
      <4> HIDE DEF x
      <4> QED  BY <1>1 DEF Frontiers
    <3>2. \A q \in Questions : q[1] \in Tasks
      BY PlanFacts DEF Questions
    <3> DEFINE A == answered(given)
    <3>3. A \subseteq Questions
      BY <1>4, <3>1
    <3>4. QED
      <4> HIDE DEF A
      <4>1. {q[1] : q \in A} \subseteq Tasks
        BY <3>2, <3>3
      <4>2. QED
        BY <4>1 DEF A
  <2> DEFINE A == {q[1] : q \in answered(given)}
             z == [x EXCEPT !.ready = @ \cup A]
  <2>3. /\ z \in Frontiers /\ z.completed = x.completed /\ z.results = x.results
        /\ z.waiting = x.waiting
    <3> HIDE DEF x, A
    <3>1. A \subseteq Tasks
      BY <2>2 DEF A
    <3>2. QED
      BY <1>1, <3>1 DEF Frontiers
  <2> DEFINE t == [session[w] EXCEPT
              !.at = "loop", !.view = run, !.given = given, !.restored = R, !.x = z]
  <2>4. session' = [session EXCEPT ![w] = t]
    BY <1>2, <1>4 DEF Becomes
  <2>5. /\ t \in Sessions /\ t.at = "loop" /\ t.view = run /\ t.restored = R /\ t.x = z
        /\ t.fence = session[w].fence /\ t.failed = session[w].failed
    <3> HIDE DEF z, R, x
    <3> QED  BY <1>1, <2>1, <2>3 DEF Sessions, Places, Underway
  <2>6. QED
    <3> HIDE DEF t, z, x
    <3>1. Typed
      BY <1>1, <2>4, <2>5 DEF TypeOK, Typed
    <3>2. Loads(w)
      BY <1>1, <2>3, <2>4, <2>5 DEF TypeOK, Loads, Others, x
    <3>3. QED
      BY <3>1, <3>2
<1>5. QED
  BY <1>3, <1>4

LEMMA RereadSteps ==
  ASSUME TypeOK, Positioned, NEW w \in Workers, Reread(w)
  PROVE  Typed /\ (Quiet \/ Rereads(w))
<1>1. /\ session[w].at = "reread" /\ run' = run /\ asked' = asked /\ ran' = ran
      /\ faults' \in Nat /\ run \in RunRecords /\ session[w] \in Sessions
  BY FaultFields, SessionFields DEF Reread, TypeOK
<1>2. CASE Leaves(w, "stop") \/ Leaves(w, "lost")
  <2>1. "stop" \in Resting /\ "lost" \in Resting /\ session[w].at # "idle"
    BY <1>1 DEF Resting
  <2>2. QED
    BY <1>1, <1>2, <2>1, LeavesFields, DepartsQuietly DEF Departs
<1>3. CASE /\ Confirmed(w)
           /\ Becomes(w, [session[w] EXCEPT !.at = session[w].next, !.next = "none", !.view = run])
  <2> DEFINE s == [session[w] EXCEPT !.at = session[w].next, !.next = "none", !.view = run]
  <2>1. session[w].next \in Places
    BY <1>1 DEF Positioned, Position, Places, Resting
  <2>2. /\ s \in Sessions /\ s.at = session[w].next /\ s.view = run /\ s.x = session[w].x
        /\ s.failed = session[w].failed /\ s.restored = session[w].restored
        /\ s.fence = session[w].fence
    BY <1>1, <2>1 DEF Sessions
  <2>3. session' = [session EXCEPT ![w] = s]
    BY <1>3 DEF Becomes
  <2>4. QED
    <3> HIDE DEF s
    <3> QED  BY <1>1, <1>3, <2>2, <2>3 DEF TypeOK, Typed, Rereads, Moves, Others
<1>4. QED
  BY <1>2, <1>3 DEF Reread

LEMMA WalkSteps ==
  ASSUME TypeOK, Positioned, NEW w \in Workers,
         Redispatch(w) \/ (session[w].at = "loop" /\ Goes(w, "failing")
                           /\ UNCHANGED <<run, asked, ran, faults>>)
  PROVE  /\ Typed
         /\ Redispatch(w) => Redispatches(w)
         /\ session[w].at = "loop" /\ Goes(w, "failing") => Stalls(w)
<1>1. /\ run' = run /\ asked' = asked /\ ran' = ran /\ faults' = faults
      /\ session[w] \in Sessions
  BY SessionFields DEF Redispatch
<1>2. ASSUME NEW place \in {"executing", "failing"}, Goes(w, place)
      PROVE  Typed /\ Moves(w, place) /\ Walks(w)
  <2> DEFINE s == [session[w] EXCEPT !.at = place]
  <2>1. /\ s \in Sessions /\ s.at = place /\ s.view = session[w].view /\ s.x = session[w].x
        /\ s.failed = session[w].failed /\ s.restored = session[w].restored
        /\ s.fence = session[w].fence
    BY <1>1 DEF Sessions, Places, Underway
  <2>2. session' = [session EXCEPT ![w] = s]
    BY <1>2 DEF Goes
  <2>3. QED
    <3> HIDE DEF s
    <3> QED  BY <1>1, <2>1, <2>2 DEF TypeOK, Typed, Moves, Others, Walks
<1>3. QED
  BY <1>2 DEF Redispatch, Turn, Redispatches, Stalls

LEMMA ExecutionSteps ==
  ASSUME TypeOK, Positioned, NEW w \in Workers, Succeed(w) \/ Ask(w) \/ Fail(w)
  PROVE  Typed /\ (Succeeds(w) \/ Asks(w) \/ Fails(w))
<1> DEFINE n == Node(w)
           x == session[w].x
<1>0. /\ session[w].at = "executing" /\ run' = run /\ faults' = faults
      /\ ran' = [ran EXCEPT ![n] = @ + 1] /\ session[w] \in Sessions /\ x \in Frontiers
  <2>1. Runs(w)
    BY DEF Succeed, Ask, Fail
  <2>2. QED
    BY <2>1, SessionFields DEF Runs
<1>2. n \in Tasks
  BY <1>0, WorkingNode DEF Aim
<1>1. /\ session[w].at = "executing" /\ run' = run /\ faults' = faults
      /\ ran' = [ran EXCEPT ![n] = @ + 1] /\ ran' \in [Tasks -> Nat]
      /\ session[w] \in Sessions /\ x \in Frontiers
  <2> HIDE DEF n
  <2>1. ran[n] + 1 \in Nat
    BY <1>2 DEF TypeOK
  <2>2. QED
    BY <1>0, <2>1 DEF TypeOK
<1>3. CASE Succeed(w)
  <2>1. PICK route \in Routes(n) :
          Becomes(w, [session[w] EXCEPT !.at = "save", !.x = Executed(@, n, route)])
    BY <1>3 DEF Succeed
  <2> DEFINE y == Executed(x, n, route)
             s == [session[w] EXCEPT !.at = "save", !.x = y]
  <2>2. /\ y \in Frontiers /\ y.ready = x.ready /\ y.completed = x.completed
        /\ y.results = x.results \cup {n} /\ y.waiting = x.waiting
    BY <1>1, <1>2, RouteTypes, ExecutedFields
  <2>3. /\ s \in Sessions /\ s.at = "save" /\ s.view = session[w].view /\ s.x = y
        /\ s.failed = session[w].failed /\ s.restored = session[w].restored
        /\ s.fence = session[w].fence
    <3> HIDE DEF y
    <3> QED  BY <1>1, <2>2 DEF Sessions, Places, Underway
  <2>4. session' = [session EXCEPT ![w] = s] /\ asked' = asked
    BY <1>3, <2>1 DEF Becomes, Succeed
  <2>5. QED
    <3> HIDE DEF s, y, n
    <3> QED
      BY <1>1, <2>2, <2>3, <2>4 DEF TypeOK, Typed, Succeeds, Runs1, Moves, Others, n
<1>4. CASE Ask(w)
  <2> DEFINE q == <<n, asked[n] + 1>>
             y == Interrupting(x, n, q)
             s == [session[w] EXCEPT !.at = "loop", !.x = y]
  <2>1. /\ n \in Asking /\ asked[n] < MaxAsks /\ asked' = [asked EXCEPT ![n] = @ + 1]
        /\ session' = [session EXCEPT ![w] = s]
    BY <1>4 DEF Ask, Becomes
  <2>2. q \in Questions /\ asked' \in [Tasks -> Nat]
    <3> HIDE DEF n
    <3>1. asked[n] \in Nat /\ MaxAsks \in Nat
      BY <1>2, PlanFacts DEF TypeOK
    <3>2. asked[n] + 1 \in 1..MaxAsks
      BY <2>1, <3>1
    <3>3. QED
      BY <1>2, <2>1, <3>1, <3>2 DEF Questions, TypeOK
  <2>3. /\ y \in Frontiers /\ y.completed = x.completed /\ y.results = x.results
        /\ y.waiting = {p \in x.waiting : p[1] # n} \cup {q}
    <3> HIDE DEF q
    <3> QED  BY <1>1, <1>2, <2>2, InterruptingFields
  <2>4. /\ s \in Sessions /\ s.at = "loop" /\ s.view = session[w].view /\ s.x = y
        /\ s.failed = session[w].failed /\ s.restored = session[w].restored
        /\ s.fence = session[w].fence
    <3> HIDE DEF y
    <3> QED  BY <1>1, <2>3 DEF Sessions, Places, Underway
  <2>5. QED
    <3> HIDE DEF s, y, n
    <3> QED
      BY <1>1, <2>1, <2>2, <2>3, <2>4 DEF TypeOK, Typed, Asks, Runs1, Moves, Others, n
<1>5. CASE Fail(w)
  <2> DEFINE s == [session[w] EXCEPT !.at = "failing", !.failed = {n}]
  <2>1. session' = [session EXCEPT ![w] = s] /\ asked' = asked
    BY <1>5 DEF Fail, Becomes
  <2>2. /\ s \in Sessions /\ s.at = "failing" /\ s.view = session[w].view
        /\ s.x = session[w].x /\ s.failed = {n} /\ s.restored = session[w].restored
        /\ s.fence = session[w].fence
    <3> HIDE DEF n
    <3> QED  BY <1>1, <1>2 DEF Sessions, Places, Underway
  <2>3. QED
    <3> HIDE DEF s, n
    <3> QED  BY <1>1, <2>1, <2>2 DEF TypeOK, Typed, Fails, Runs1, Moves, Others, n
<1>6. QED
  BY <1>3, <1>4, <1>5

LEMMA StoresTyped ==
  ASSUME TypeOK, NEW w \in Workers, Stores(w), asked' = asked, ran' = ran, faults' \in Nat
  PROVE  Typed
BY DEF Stores, Activates, Declares, Persists, Pins, TypeOK, Typed

LEMMA CommitSteps ==
  ASSUME TypeOK, Positioned, ViewsLag, NEW w \in Workers,
         \/ Adopt(w) \/ Activate(w) \/ Save(w) \/ Finish(w)
         \/ Park(w) \/ NoteFailure(w) \/ FailRun(w)
  PROVE  Typed /\ (Quiet \/ Stalls(w) \/ (Stores(w) /\ asked' = asked /\ ran' = ran))
<1>1. asked' = asked /\ ran' = ran
  BY DEF Adopt, Activate, Save, Finish, Park, NoteFailure, FailRun
<1>2. ASSUME faults' \in Nat, Departs(w) \/ Stores(w)
      PROVE  Typed /\ (Quiet \/ Stores(w))
  BY <1>1, <1>2, DepartsQuietly, StoresTyped
<1>3. CASE Adopt(w)
  <2> DEFINE y == Completing(session[w].x, Node(w))
  <2>1. /\ session[w].at = "loop" /\ session[w].x.ready # {} /\ Known(w)
        /\ Commit(w, Persisting(w, y), "loop")
    BY <1>3 DEF Adopt, Turn
  <2>2. y \in Frontiers
    BY <2>1, SessionFields, WorkingNode, CompletingFields
  <2>3. QED
    BY <1>1, <1>2, <2>1, <2>2, PersistCommit
<1>4. CASE Activate(w)
  BY <1>1, <1>2, <1>4, ActivateCommit
<1>5. CASE Save(w) \/ NoteFailure(w)
  <2>1. session[w].x \in Frontiers
    BY SessionFields
  <2>2. CASE Save(w)
    BY <1>1, <1>2, <2>1, <2>2, PersistCommit DEF Save
  <2>3. CASE NoteFailure(w)
    BY <1>1, <1>2, <2>1, <2>3, PersistCommit DEF NoteFailure
  <2>4. QED
    BY <1>5, <2>2, <2>3
<1>6. CASE Park(w) \/ FailRun(w)
  <2>1. {"waiting", "failed"} \subseteq Statuses
    BY DEF Statuses, Terminal
  <2>2. QED
    BY <1>1, <1>2, <1>6, <2>1, DeclareCommit DEF Park, FailRun
<1>7. CASE Finish(w)
  <2>1. session[w].at = "loop" /\ session[w].x \in Frontiers
    BY <1>7, SessionFields DEF Finish, Done
  <2>2. CASE Commit(w, Persisting(w, session[w].x), "park")
    BY <1>1, <1>2, <2>1, <2>2, PersistCommit
  <2>3. CASE Goes(w, "failing") /\ UNCHANGED <<run, faults>>
    BY <1>1, <2>1, <2>3, WalkSteps
  <2>4. CASE Commit(w, [Draft(w, session[w].x) EXCEPT !.status = "succeeded"], "stop")
    <3>1. "succeeded" \in Statuses
      BY DEF Statuses, Terminal
    <3>2. QED
      BY <1>1, <1>2, <2>1, <2>4, <3>1, DeclareCommit
  <2>5. QED
    BY <1>7, <2>2, <2>3, <2>4 DEF Finish
<1>8. QED
  BY <1>3, <1>4, <1>5, <1>6, <1>7

LEMMA StepKinds ==
  ASSUME TypeOK, Positioned, ViewsLag, Next
  PROVE  Typed /\ Steps1
<1>1. CASE \/ \E i \in Inputs \ {Ingress}, target \in Targets \cup {NoTarget} : Signal(i, target)
           \/ Cancel \/ Expire
  BY <1>1, HostSteps DEF Steps1
<1>2. ASSUME NEW w \in Workers,
             \/ Claim(w) \/ TurnedAway(w) \/ Leave(w) \/ GiveUp(w)
             \/ Release(w) \/ Interrupt(w) \/ Crash(w)
      PROVE  Typed /\ Steps1
  BY <1>2, StandingSteps DEF Steps1
<1>3. ASSUME NEW w \in Workers, Load(w) \/ Reread(w) PROVE Typed /\ Steps1
  BY <1>3, LoadSteps, RereadSteps DEF Steps1
<1>4. ASSUME NEW w \in Workers, Redispatch(w) PROVE Typed /\ Steps1
  BY <1>4, WalkSteps DEF Steps1
<1>5. ASSUME NEW w \in Workers, Succeed(w) \/ Ask(w) \/ Fail(w) PROVE Typed /\ Steps1
  BY <1>5, ExecutionSteps DEF Steps1
<1>6. ASSUME NEW w \in Workers,
             \/ Adopt(w) \/ Activate(w) \/ Save(w) \/ Finish(w)
             \/ Park(w) \/ NoteFailure(w) \/ FailRun(w)
      PROVE  Typed /\ Steps1
  BY <1>6, CommitSteps DEF Steps1
<1>7. QED
  BY <1>1, <1>2, <1>3, <1>4, <1>5, <1>6 DEF Next
-----------------------------------------------------------------------------
\* What every step has in common.

Grown == \A n \in Tasks : asked'[n] >= asked[n] /\ ran'[n] >= ran[n]

LEMMA StepsGrow ==
  ASSUME TypeOK, Steps1
  PROVE  Grown
<1>1. asked \in [Tasks -> Nat] /\ ran \in [Tasks -> Nat]
  BY DEF TypeOK
<1>2. CASE asked' = asked /\ ran' = ran
  BY <1>1, <1>2 DEF Grown
<1>3. ASSUME NEW w \in Workers, Runs1(w), asked' = asked \/ Asks(w) PROVE Grown
  <2> DEFINE m == Node(w)
  <2>1. /\ ran' = [ran EXCEPT ![m] = @ + 1]
        /\ asked' = asked \/ asked' = [asked EXCEPT ![m] = @ + 1]
    BY <1>3 DEF Runs1, Asks
  <2> HIDE DEF m
  <2>2. QED
    BY <1>1, <2>1 DEF Grown
<1>4. QED
  BY <1>2, <1>3
     DEF Steps1, Quiet, Loads, Rereads, Redispatches, Stalls, Walks, Succeeds, Asks, Fails

\* How a step changes the record.
Advances == Keeps(run, run') \/ run'.revision = run.revision + 1

LEMMA StepsAdvance ==
  ASSUME TypeOK, Steps1
  PROVE  Advances
<1>1. ASSUME NEW w \in Workers, Stores(w) PROVE run'.revision = run.revision + 1
  BY <1>1 DEF Stores, Activates, Declares, Persists, Pins
<1>2. Keeps(run, run)
  BY DEF Keeps
<1>3. QED
  BY <1>1, <1>2
     DEF Advances, Steps1, Quiet, Loads, Rereads, Redispatches, Stalls, Succeeds, Asks, Fails,
         Moves

\* Each session is left as it is, ends, or makes the step.
Acts(w) ==
  \/ Stores(w) /\ asked' = asked /\ ran' = ran
  \/ Loads(w) \/ Rereads(w) \/ Redispatches(w) \/ Stalls(w)
  \/ Succeeds(w) \/ Asks(w) \/ Fails(w)

LEMMA Alone ==
  ASSUME NEW w \in Workers, Acts(w), NEW v \in Workers \ {w}
  PROVE  Same(v)
<1>1. Others(w)
  BY DEF Acts, Stores, Activates, Declares, Persists, Pins, Loads, Rereads,
         Redispatches, Stalls, Succeeds, Asks, Fails, Moves
<1>2. QED
  BY <1>1 DEF Others, Same

LEMMA Parts ==
  ASSUME Steps1, NEW v \in Workers
  PROVE  Same(v) \/ Blank(session'[v]) \/ Acts(v)
BY Alone DEF Steps1, Quiet, Acts

\* A session that does not take part sees the same, or will not read back its commit.
LEMMA Bystanders ==
  ASSUME TypeOK, ViewsLag, Advances, run' \in RunRecords, NEW v \in Workers, Same(v)
  PROVE  /\ Aim(v)' = Aim(v) /\ Node(v)' = Node(v) /\ Unsaved(v)' = Unsaved(v)
         /\ \A n : Heading(v, n)' <=> Heading(v, n)
         /\ Reads(v)' => /\ Reads(v)
                         /\ Base(v)'.activations = Base(v).activations
                         /\ Base(v)'.tasks = Base(v).tasks
<1>1. Aim(v)' = Aim(v) /\ Node(v)' = Node(v)
  BY DEF Aim, Node, Same
<1>2. Unsaved(v)' = Unsaved(v) /\ \A n : Heading(v, n)' <=> Heading(v, n)
  BY <1>1 DEF Unsaved, Heading, Same
<1>3. ASSUME Reads(v)'
      PROVE  /\ Reads(v) /\ Base(v)'.activations = Base(v).activations
             /\ Base(v)'.tasks = Base(v).tasks
  <2>1. CASE session[v].at # "reread"
    BY <2>1 DEF Reads, Base, Same
  <2>2. CASE session[v].at = "reread"
    <3>1. /\ run'.revision = session[v].view.revision + 1
          /\ session[v].view.revision < run.revision
          /\ run.revision \in Nat /\ session[v].view.revision \in Nat
      BY <1>3, <2>2, SessionFields, RecordFields
         DEF Reads, Confirmed, Same, ViewsLag, LagsBehind, TypeOK
    <3>2. run'.revision = run.revision /\ Keeps(run, run')
      BY <3>1 DEF Advances, Keeps
    <3>3. QED
      BY <2>2, <3>1, <3>2 DEF Reads, Confirmed, Base, Same, Keeps
  <2>3. QED
    BY <2>1, <2>2
<1>4. QED
  BY <1>1, <1>2, <1>3

LEMMA BlankFacts ==
  ASSUME NEW v \in Workers, Blank(session'[v])
  PROVE  /\ Aim(v)' \in Resting /\ Aim(v)' \notin Underway
         /\ session'[v].at # "reread" /\ \A n : ~Heading(v, n)'
BY DEF Blank, Aim, Resting, Underway, Heading

\* A session after its commit.
LEMMA PinnedSession ==
  ASSUME TypeOK, NEW w \in Workers, NEW x, NEW next, Pins(w, x, next)
  PROVE  /\ session'[w].at = "reread" /\ session'[w].next = next /\ session'[w].x = x
         /\ session'[w].view = session[w].view /\ session'[w].fence = session[w].fence
         /\ session'[w].restored = session[w].restored
         /\ session'[w].failed = session[w].failed /\ session'[w].given = session[w].given
BY SessionFields DEF Pins, Sessions

-----------------------------------------------------------------------------
\* Where sessions are.

LEMMA PositionedStep ==
  ASSUME IInv, Typed, Steps1
  PROVE  Positioned'
<1> SUFFICES ASSUME NEW v \in Workers PROVE Position(v)'
  BY DEF Positioned
<1>1. Position(v) /\ TypeOK /\ Positioned
  BY DEF IInv, Positioned
<1>2. CASE Same(v)
  BY <1>1, <1>2 DEF Position, Aim, Same
<1>3. CASE Blank(session'[v])
  BY <1>3 DEF Position, Aim, Blank, Resting
<1>4. CASE Stores(v)
  <2>1. PICK x \in Frontiers, next \in {"executing", "loop", "park", "fail", "stop"} :
          /\ Pins(v, x, next) /\ session[v].at # "idle"
          /\ next = "executing" => x = session[v].x /\ x.ready # {}
    BY <1>1, <1>4, SessionFields DEF Stores, Activates, Declares, Persists
  <2>2. /\ session'[v].at = "reread" /\ session'[v].next = next /\ session'[v].x = x
        /\ session'[v].fence = session[v].fence
    BY <1>1, <2>1, PinnedSession
  <2>3. QED
    BY <1>1, <2>1, <2>2 DEF Position, Aim, Underway
<1>5. CASE Loads(v)
  BY <1>5 DEF Loads, Position, Aim
<1>6. CASE Rereads(v)
  BY <1>1, <1>6 DEF Rereads, Moves, Position, Aim, Underway
<1>7. CASE Redispatches(v) \/ Stalls(v)
  BY <1>1, <1>7 DEF Redispatches, Stalls, Walks, Moves, Position, Aim
<1>8. CASE Succeeds(v) \/ Asks(v) \/ Fails(v)
  BY <1>1, <1>8 DEF Succeeds, Asks, Fails, Runs1, Moves, Position, Aim
<1>9. QED
  BY <1>2, <1>3, <1>4, <1>5, <1>6, <1>7, <1>8, Parts DEF Acts

-----------------------------------------------------------------------------
\* What sessions know.

\* What a step does to the record's results.
LEMMA RecordGrows ==
  ASSUME Steps1
  PROVE  /\ Keeps(run, run') \/ run'.revision = run.revision + 1
         /\ \A n \in Tasks : OnRecord(run, n) => OnRecord(run', n)
<1>1. ASSUME Keeps(run, run')
      PROVE  /\ Keeps(run, run') \/ run'.revision = run.revision + 1
             /\ \A n \in Tasks : OnRecord(run, n) => OnRecord(run', n)
  BY <1>1 DEF Keeps, OnRecord
<1>2. ASSUME NEW w \in Workers, Activates(w) \/ Declares(w)
      PROVE  /\ run'.revision = run.revision + 1
             /\ \A n \in Tasks : OnRecord(run, n) => OnRecord(run', n)
  BY <1>2 DEF Activates, Declares, Pins, OnRecord
<1>3. ASSUME NEW w \in Workers, NEW x, NEW next, Persists(w, x, next)
      PROVE  /\ run'.revision = run.revision + 1
             /\ \A n \in Tasks : OnRecord(run, n) => OnRecord(run', n)
  BY <1>3 DEF Persists, Pins, OnRecord
<1>4. run' = run => Keeps(run, run')
  BY DEF Keeps
<1>5. QED
  BY <1>1, <1>2, <1>3, <1>4
     DEF Steps1, Stores, Quiet, Loads, Rereads, Redispatches, Stalls, Succeeds, Asks, Fails,
         Moves

LEMMA LagsOn ==
  ASSUME TypeOK, run' \in RunRecords, Steps1, NEW r \in RunRecords, Lags(r, run)
  PROVE  Lags(r, run')
<1>1. r.revision \in Nat /\ run.revision \in Nat
  BY RecordFields DEF TypeOK
<1>2. CASE run'.revision = run.revision + 1
  BY <1>1, <1>2, RecordGrows DEF Lags
<1>3. CASE Keeps(run, run')
  BY <1>1, <1>3, RecordGrows DEF Lags, Keeps
<1>4. QED
  BY <1>2, <1>3, RecordGrows

LEMMA ViewsLagStep ==
  ASSUME IInv, Typed, Steps1
  PROVE  ViewsLag'
<1>0. TypeOK /\ ViewsLag /\ run' \in RunRecords /\ run \in RunRecords /\ Advances
  BY StepsAdvance DEF IInv, Typed, TypeOK
<1>1. Lags(AbsentRun, run')
  BY <1>0, LagsOn, AbsentRunType DEF ViewsLag
<1>2. run.revision \in Nat /\ run'.revision \in Nat /\ run.revision <= run'.revision
  BY <1>0, RecordFields DEF Advances, Keeps
<1>3. ASSUME NEW v \in Workers PROVE LagsBehind(v)'
  <2>1. /\ session[v].view \in RunRecords /\ session[v].view.revision \in Nat
        /\ Lags(session[v].view, run')
        /\ session[v].at = "reread" => session[v].view.revision < run.revision
    BY <1>0, SessionFields, RecordFields, LagsOn DEF ViewsLag, LagsBehind
  <2>2. CASE Same(v)
    BY <1>2, <2>1, <2>2 DEF LagsBehind, Same
  <2>3. CASE Blank(session'[v])
    BY <1>1, <2>3, BlankFacts DEF LagsBehind, Blank
  <2>4. CASE Stores(v)
    <3>1. PICK x, next : x \in Frontiers /\ Pins(v, x, next)
      BY <1>0, <2>4, SessionFields DEF Stores, Activates, Declares, Persists
    <3>2. session'[v].view = session[v].view
      BY <1>0, <3>1, PinnedSession
    <3>3. session[v].view.revision = run.revision /\ run'.revision = run.revision + 1
      BY <3>1 DEF Pins
    <3>4. session[v].view.revision < run'.revision
      BY <1>2, <3>3
    <3>5. QED
      BY <2>1, <3>2, <3>4 DEF LagsBehind
  <2>5. CASE Loads(v) \/ Rereads(v)
    <3>1. session'[v].view = run' /\ session'[v].at # "reread"
      BY <1>0, <2>5 DEF Loads, Rereads, Moves, IInv, Positioned, Position, Underway
    <3>2. QED
      BY <1>2, <3>1 DEF LagsBehind, Lags
  <2>6. CASE Redispatches(v) \/ Stalls(v) \/ Succeeds(v) \/ Asks(v) \/ Fails(v)
    <3>1. session'[v].view = session[v].view /\ session'[v].at # "reread"
      BY <2>6 DEF Redispatches, Stalls, Walks, Succeeds, Asks, Fails, Runs1, Moves
    <3>2. QED
      BY <2>1, <3>1 DEF LagsBehind
  <2>7. QED
    BY <2>2, <2>3, <2>4, <2>5, <2>6, Parts DEF Acts
<1>4. QED
  BY <1>1, <1>3 DEF ViewsLag

-----------------------------------------------------------------------------
\* What a frontier says was earned.

LEMMA EarnedGrows ==
  ASSUME TypeOK, Typed, Grown, NEW x \in Frontiers, Earned(x, ran, asked)
  PROVE  Earned(x, ran', asked')
<1>1. \A q \in x.waiting : q[1] \in Tasks
  BY PlanFacts DEF Frontiers, Questions
<1>2. \A n \in Tasks : /\ ran[n] \in Nat /\ asked[n] \in Nat
                       /\ ran'[n] \in Nat /\ asked'[n] \in Nat
  BY DEF TypeOK, Typed
<1>3. QED
  BY <1>1, <1>2 DEF Earned, Grown

\* A frontier a session commits is earned as its own is.
LEMMA StoredIsEarned ==
  ASSUME TypeOK, Positioned, NEW w \in Workers, NEW x, NEW next,
         Earned(session[w].x, ran, asked), Persists(w, x, next)
  PROVE  Earned(x, ran, asked) /\ x.results = session[w].x.results
<1>1. CASE x = session[w].x
  BY <1>1
<1>2. CASE /\ session[w].at = "loop" /\ session[w].x.ready # {}
           /\ x = Completing(session[w].x, Node(w))
  <2>1. session[w].x \in Frontiers /\ Node(w) \in Tasks
    BY <1>2, SessionFields, WorkingNode
  <2>2. x.results = session[w].x.results /\ x.waiting \subseteq session[w].x.waiting
    BY <1>2, <2>1, CompletingFields
  <2>3. QED
    BY <2>2 DEF Earned
<1>3. QED
  BY <1>1, <1>2 DEF Persists

\* What a session commits fits the record it is committed to.
LEMMA StoreFits ==
  ASSUME TypeOK, Positioned, ViewsLag, Consistent, NEW w \in Workers, Stores(w)
  PROVE  /\ Fits(session[w].x, run.tasks, Unsaved(w), asked)
         /\ \A next : \A x \in Frontiers : Persists(w, x, next) =>
              /\ x.results = session[w].x.results
              /\ session[w].x.completed \subseteq x.completed
              /\ \A n \in x.completed : n \in session[w].x.completed \/ n \in x.results
<1>1. PICK x, next : Pins(w, x, next)
  BY DEF Stores, Activates, Declares, Persists
<1>2. session[w].at \in Underway /\ session[w].at # "reread"
  BY DEF Stores, Activates, Declares, Persists, Underway
<1>3. Fits(session[w].x, run.tasks, Unsaved(w), asked)
  BY <1>1, <1>2, FreshView DEF Consistent, Fitting, Aim, Reads, Base
<1>4. ASSUME NEW y \in Frontiers, NEW p, Persists(w, y, p)
      PROVE  /\ y.results = session[w].x.results
             /\ session[w].x.completed \subseteq y.completed
             /\ \A n \in y.completed : n \in session[w].x.completed \/ n \in y.results
  <2>1. CASE y = session[w].x
    BY <2>1
  <2>2. CASE /\ session[w].x.ready # {} /\ Known(w)
             /\ y = Completing(session[w].x, Node(w))
    <3>1. session[w].x \in Frontiers /\ Node(w) \in Tasks
      BY <2>2, SessionFields, WorkingNode
    <3>2. /\ y.results = session[w].x.results
          /\ y.completed = session[w].x.completed \cup {Node(w)}
      BY <2>2, <3>1, CompletingFields
    <3>3. QED
      BY <2>2, <3>2 DEF Known
  <2>3. QED
    BY <1>4, <2>1, <2>2 DEF Persists
<1>5. QED
  BY <1>3, <1>4

LEMMA PinnedNow ==
  ASSUME TypeOK, NEW w \in Workers, NEW x, NEW next, Pins(w, x, next)
  PROVE  Pinned' = x
BY IdentityAssumption DEF Pins, Pinned, TypeOK

LEMMA WitnessedStep ==
  ASSUME IInv, Typed, Steps1
  PROVE  Witnessed'
<1>0. /\ TypeOK /\ Positioned /\ ViewsLag /\ Grown /\ Witnessed /\ Consistent
      /\ Earned(Pinned, ran, asked) /\ Pinned \in Frontiers
      /\ ran \in [Tasks -> Nat] /\ ran' \in [Tasks -> Nat]
      /\ asked \in [Tasks -> Nat] /\ asked' \in [Tasks -> Nat]
  <2>1. TypeOK /\ Begin \in Frontiers /\ run \in RunRecords
    BY BeginFields DEF IInv, TypeOK
  <2>2. Pinned \in Frontiers
    BY <2>1, RecordFields DEF Pinned, TypeOK
  <2>3. QED
    BY <2>1, <2>2, StepsGrow DEF IInv, Witnessed, TypeOK, Typed
<1>1. ASSUME NEW v \in Workers
      PROVE  /\ Earned(session[v].x, ran, asked) /\ Earned(session[v].x, ran', asked')
             /\ \A n \in Tasks : n \in session[v].failed => ran'[n] > 0 /\ ran[n] > 0
  BY <1>0, EarnedGrows, SessionFields DEF Witnessed, Attests, Grown
<1>2. /\ Earned(Pinned, ran', asked')
      /\ \A n \in Tasks : OnRecord(run, n) => ran'[n] > 0
  BY <1>0, EarnedGrows DEF Witnessed, Grown
<1>3. ASSUME NEW v \in Workers PROVE Attests(v)'
  <2>1. CASE Same(v)
    BY <1>1, <2>1 DEF Attests, Same
  <2>2. CASE Blank(session'[v])
    BY <2>2, BeginFields DEF Attests, Blank, Earned
  <2>3. CASE Stores(v) /\ asked' = asked /\ ran' = ran
    <3>1. PICK x, next : /\ Pins(v, x, next)
                         /\ x = session[v].x \/ Persists(v, x, next)
      BY <2>3 DEF Stores, Activates, Declares, Persists
    <3>2. Earned(x, ran, asked)
      BY <1>0, <1>1, <3>1, StoredIsEarned
    <3>3. session'[v].x = x /\ session'[v].failed = session[v].failed
      BY <1>0, <3>1, PinnedSession
    <3>4. QED
      BY <1>1, <2>3, <3>2, <3>3 DEF Attests
  <2>4. CASE Loads(v)
    BY <1>1, <1>2, <2>4 DEF Loads, Attests, Earned
  <2>5. CASE Rereads(v) \/ Redispatches(v) \/ Stalls(v)
    BY <1>1, <2>5 DEF Rereads, Redispatches, Stalls, Walks, Attests
  <2>6. ASSUME Runs1(v) PROVE Node(v) \in Tasks /\ ran'[Node(v)] > 0
    <3>1. Node(v) \in Tasks
      BY <1>0, <2>6, WorkingNode DEF Runs1, Aim
    <3> DEFINE m == Node(v)
    <3>2. ran' = [ran EXCEPT ![m] = @ + 1] /\ m \in Tasks
      BY <2>6, <3>1 DEF Runs1
    <3> HIDE DEF m
    <3>3. ran'[m] > 0
      BY <1>0, <3>2
    <3>4. QED
      BY <3>1, <3>3 DEF m
  <2>7. CASE Succeeds(v)
    BY <1>1, <2>6, <2>7 DEF Succeeds, Attests, Earned
  <2>8. CASE Asks(v)
    <3> DEFINE m == Node(v)
    <3>1. /\ m \in Tasks /\ asked' = [asked EXCEPT ![m] = @ + 1]
          /\ session'[v].failed = session[v].failed
          /\ session'[v].x.results = session[v].x.results
          /\ session'[v].x.waiting \subseteq session[v].x.waiting \cup {<<m, asked[m] + 1>>}
      BY <2>6, <2>8 DEF Asks
    <3> HIDE DEF m
    <3>2. asked'[m] > 0
      BY <1>0, <3>1
    <3>3. QED
      BY <1>1, <3>1, <3>2 DEF Attests, Earned
  <2>9. CASE Fails(v)
    BY <1>1, <2>6, <2>9 DEF Fails, Attests
  <2>10. QED
    BY <2>1, <2>2, <2>3, <2>4, <2>5, <2>7, <2>8, <2>9, Parts DEF Acts
<1>4. CASE run'.snapshot = run.snapshot /\ run'.tasks = run.tasks
  <2>1. Pinned' = Pinned
    BY <1>4 DEF Pinned
  <2>2. \A n \in Tasks : /\ OnRecord(run', n) => ran'[n] > 0
                         /\ run'.tasks[n].adopted # 0 => OnRecord(run', n)
    BY <1>0, <1>2, <1>4 DEF Witnessed, OnRecord
  <2>3. QED
    BY <1>2, <1>3, <2>1, <2>2 DEF Witnessed
<1>5. ASSUME NEW w \in Workers, Stores(w), asked' = asked, ran' = ran PROVE Witnessed'
  <2>1. CASE Activates(w) \/ Declares(w)
    <3>1. PICK next : Pins(w, session[w].x, next)
      BY <2>1 DEF Activates, Declares
    <3>2. Pinned' = session[w].x
      BY <1>0, <3>1, PinnedNow
    <3>3. \A n \in Tasks : /\ run'.tasks[n].status = run.tasks[n].status
                           /\ run'.tasks[n].adopted = run.tasks[n].adopted
      BY <2>1 DEF Activates, Declares
    <3>4. \A n \in Tasks : /\ OnRecord(run', n) => ran'[n] > 0
                           /\ run'.tasks[n].adopted # 0 => OnRecord(run', n)
      BY <1>0, <1>2, <3>3 DEF Witnessed, OnRecord
    <3>5. QED
      BY <1>1, <1>3, <3>2, <3>4 DEF Witnessed
  <2>2. ASSUME NEW x \in Frontiers, NEW next, Persists(w, x, next) PROVE Witnessed'
    <3>1. Earned(x, ran', asked') /\ x.results = session[w].x.results
      BY <1>0, <1>1, <1>5, <2>2, StoredIsEarned
    <3>2. Pinned' = x
      BY <1>0, <2>2, PinnedNow DEF Persists
    <3>3. ASSUME NEW n \in Tasks
          PROVE  /\ OnRecord(run', n) => ran'[n] > 0
                 /\ run'.tasks[n].adopted # 0 => OnRecord(run', n)
      <4>1. OnRecord(run', n) <=> OnRecord(run, n) \/ n \in x.results \/ n \in session[w].failed
        BY <2>2 DEF Persists, OnRecord
      <4>2. n \in x.completed => run.tasks[n].adopted # 0 \/ n \in x.results
        BY <1>0, <1>5, <2>2, StoreFits DEF FitsAt, Fits
      <4>3. run'.tasks[n].adopted # 0 =>
              (n \in x.completed /\ run.tasks[n].adopted = 0) \/ run.tasks[n].adopted # 0
        BY <2>2 DEF Persists
      <4>4. run.tasks[n].adopted # 0 => OnRecord(run, n)
        BY <1>0 DEF Witnessed
      <4>5. QED
        BY <1>1, <1>2, <3>1, <4>1, <4>2, <4>3, <4>4 DEF Earned
    <3>4. QED
      BY <1>3, <3>1, <3>2, <3>3 DEF Witnessed
  <2>3. QED
    BY <1>5, <2>1, <2>2 DEF Stores
<1>6. QED
  BY <1>4, <1>5
     DEF Steps1, Quiet, Keeps, Loads, Rereads, Redispatches, Stalls, Succeeds, Asks, Fails,
         Moves

-----------------------------------------------------------------------------
\* Who may execute a node.

\* What is dispatched again has asked.
LEMMA RedispatchedHasAsked ==
  ASSUME IInv, NEW w \in Workers, Redispatches(w)
  PROVE  asked[Node(w)] > 0
<1>1. /\ session[w].at = "loop" /\ Node(w) \in Tasks /\ Node(w) \notin session[w].x.results
      /\ session[w].view.activations[Node(w)].attempt # 0
      /\ Node(w) \notin session[w].restored \/ Waits(session[w].x, Node(w))
  BY WorkingNode DEF Redispatches, Known, Dispatched, Open, IInv
<1>2. CASE Waits(session[w].x, Node(w))
  BY <1>2 DEF Waits, IInv, Witnessed, Attests, Earned
<1>3. CASE Node(w) \notin session[w].restored
  BY <1>1, <1>3 DEF IInv, OwnWork, Owns, Aim, Reads, Base, Heading
<1>4. QED
  BY <1>1, <1>2, <1>3

\* Who is headed for a node that never asked is the first to execute it.
LEMMA HeadingIsFirst ==
  ASSUME IInv, NEW w \in Workers, Aim(w) = "executing", asked[Node(w)] = 0
  PROVE  /\ ran[Node(w)] = 0 /\ run.activations[Node(w)].attempt # 0
         /\ ~OnRecord(run, Node(w)) /\ \A v \in Workers : Heading(v, Node(w)) => v = w
<1>1. Node(w) \in Tasks /\ ran[Node(w)] \in Nat
  BY WorkingNode DEF IInv, TypeOK
<1>2. Permission(Node(w)) /\ Heading(w, Node(w))
  BY <1>1 DEF IInv, Permitted, Heading
<1>3. /\ ran[Node(w)] = 0 /\ run.activations[Node(w)].attempt # 0
      /\ \A v \in Workers : Heading(v, Node(w)) => v = w
  BY <1>1, <1>2 DEF Permission
<1>4. ~OnRecord(run, Node(w))
  BY <1>1, <1>3 DEF IInv, Witnessed
<1>5. QED
  BY <1>3, <1>4

LEMMA PermittedStep ==
  ASSUME IInv, Typed, Steps1
  PROVE  Permitted'
<1> SUFFICES ASSUME NEW n \in Tasks, asked'[n] = 0
             PROVE  Permission(n)'
  BY DEF Permitted, Permission
<1>0. /\ TypeOK /\ Positioned /\ ViewsLag /\ Advances /\ Grown /\ run' \in RunRecords
      /\ ran \in [Tasks -> Nat] /\ asked \in [Tasks -> Nat]
  BY StepsAdvance, StepsGrow DEF IInv, Typed, TypeOK
<1>1. asked[n] = 0 /\ Permission(n)
  BY <1>0 DEF Grown, IInv, Permitted
<1>2. ASSUME /\ ran'[n] = ran[n]
             /\ run'.activations[n].attempt = 0 => run.activations[n].attempt = 0,
             \A v \in Workers : Heading(v, n)' => Heading(v, n)
      PROVE  Permission(n)'
  BY <1>1, <1>2 DEF Permission
<1>3. CASE Quiet
  <2>1. \A v \in Workers : Heading(v, n)' => Heading(v, n)
    BY <1>0, <1>3, Bystanders, BlankFacts DEF Quiet
  <2>2. QED
    BY <1>2, <1>3, <2>1 DEF Quiet, Keeps
<1>4. ASSUME NEW w \in Workers, Acts(w), NEW v \in Workers \ {w}
      PROVE  Heading(v, n)' <=> Heading(v, n)
  BY <1>0, <1>4, Alone, Bystanders
<1>5. ASSUME NEW w \in Workers, Acts(w), Heading(w, n)' => Heading(w, n),
             ran'[n] = ran[n], run'.activations[n] = run.activations[n]
      PROVE  Permission(n)'
  BY <1>2, <1>4, <1>5
<1>6. ASSUME NEW w \in Workers, Activates(w), Acts(w), asked' = asked, ran' = ran
      PROVE  Permission(n)'
  <2>1. Node(w)' = Node(w) /\ Aim(w)' = "executing"
    BY <1>0, <1>6, PinnedSession DEF Activates, Node, Aim
  <2>2. CASE n = Node(w)
    <3>1. run.activations[n].attempt = 0 /\ run'.activations[n].attempt # 0
      BY <1>6, <2>2 DEF Activates
    <3>2. ran[n] = 0 /\ \A u \in Workers : ~Heading(u, n)
      BY <1>1, <3>1 DEF Permission
    <3>3. \A u \in Workers : Heading(u, n)' => u = w
      BY <1>4, <1>6, <3>2
    <3>4. QED
      BY <1>6, <3>1, <3>2, <3>3 DEF Permission
  <2>3. CASE n # Node(w)
    <3>1. ~Heading(w, n)' /\ run'.activations[n] = run.activations[n]
      BY <1>6, <2>1, <2>3 DEF Heading, Activates
    <3>2. QED
      BY <1>5, <1>6, <3>1
  <2>4. QED
    BY <2>2, <2>3
<1>7. ASSUME NEW w \in Workers, Declares(w) \/ \E x, next : Persists(w, x, next), Acts(w),
             asked' = asked, ran' = ran
      PROVE  Permission(n)'
  <2>1. PICK x, next : /\ Pins(w, x, next) /\ next # "executing"
                       /\ run'.activations[n] = run.activations[n]
    BY <1>7 DEF Declares, Persists
  <2>2. ~Heading(w, n)'
    BY <1>0, <2>1, PinnedSession DEF Heading, Aim
  <2>3. QED
    BY <1>5, <1>7, <2>1, <2>2
<1>8. ASSUME NEW w \in Workers, Loads(w) \/ Rereads(w) \/ Stalls(w) \/ Redispatches(w)
      PROVE  Permission(n)'
  <2>1. run' = run /\ ran' = ran
    BY <1>8 DEF Loads, Rereads, Stalls, Redispatches, Walks, Moves
  <2>2. Loads(w) \/ Stalls(w) => ~Heading(w, n)'
    BY DEF Loads, Stalls, Moves, Heading, Aim
  <2>3. Rereads(w) => (Heading(w, n)' => Heading(w, n))
    BY <1>0 DEF Rereads, Moves, Heading, Aim, Node, Positioned, Position, Underway
  <2>4. Redispatches(w) => ~Heading(w, n)'
    <3>1. ASSUME Redispatches(w) PROVE asked[Node(w)] > 0 /\ Node(w)' = Node(w)
      BY <3>1, RedispatchedHasAsked DEF Redispatches, Walks, Node
    <3>2. QED
      BY <1>1, <3>1 DEF Heading
  <2>5. QED
    BY <1>5, <1>8, <2>1, <2>2, <2>3, <2>4 DEF Acts
<1>9. ASSUME NEW w \in Workers, Succeeds(w) \/ Asks(w) \/ Fails(w)
      PROVE  Permission(n)'
  <2>1. /\ Aim(w) = "executing" /\ run' = run /\ ~Heading(w, n)' /\ Acts(w)
        /\ ran' = [ran EXCEPT ![Node(w)] = @ + 1]
    BY <1>9 DEF Succeeds, Asks, Fails, Runs1, Moves, Heading, Aim, Acts
  <2>2. CASE n # Node(w)
    BY <1>0, <1>5, <2>1, <2>2
  <2>3. CASE n = Node(w)
    <3>1. /\ ran[n] = 0 /\ run.activations[n].attempt # 0
          /\ \A v \in Workers : Heading(v, n) => v = w
      BY <1>1, <2>1, <2>3, HeadingIsFirst
    <3>2. ran'[n] = 1
      BY <1>0, <2>1, <2>3, <3>1
    <3>3. \A v \in Workers : ~Heading(v, n)'
      BY <1>4, <2>1, <3>1
    <3>4. QED
      BY <2>1, <3>1, <3>2, <3>3 DEF Permission
  <2>4. QED
    BY <2>2, <2>3
<1>10. QED
  BY <1>3, <1>6, <1>7, <1>8, <1>9 DEF Steps1, Stores, Acts

-----------------------------------------------------------------------------
\* Frontiers and records fit together.

LEMMA FitsAlike ==
  ASSUME NEW x, NEW y, NEW tasks, NEW new, NEW unsaved, NEW more, Grown, TypeOK, Typed,
         Fits(x, tasks, unsaved, asked),
         y.completed = x.completed, y.results = x.results, unsaved \subseteq more,
         \A n \in Tasks : new[n].status = tasks[n].status /\ new[n].adopted = tasks[n].adopted
  PROVE  Fits(y, new, more, asked')
<1> SUFFICES ASSUME NEW n \in Tasks PROVE FitsAt(y, new, more, asked', n)
  BY DEF Fits
<1>1. asked[n] \in Nat /\ asked'[n] \in Nat /\ asked'[n] >= asked[n]
  BY DEF TypeOK, Typed, Grown
<1>2. FitsAt(x, tasks, unsaved, asked, n)
  BY DEF Fits
<1>3. QED
  BY <1>1, <1>2 DEF FitsAt

\* A commit makes the record fit the frontier it pins.
LEMMA StoredFits ==
  ASSUME IInv, Typed, Grown, NEW w \in Workers, NEW x, NEW next,
         Stores(w), Pins(w, x, next), x = session[w].x \/ Persists(w, x, next)
  PROVE  Fits(x, run'.tasks, {}, asked')
<1>0. /\ TypeOK /\ Positioned /\ ViewsLag /\ Consistent /\ x \in Frontiers
      /\ Fits(session[w].x, run.tasks, Unsaved(w), asked)
  BY StoreFits DEF IInv, Pins
<1>1. CASE Activates(w) \/ Declares(w)
  <2>1. /\ session'[w].x = x /\ session'[w].next = next /\ Unsaved(w) = {}
        /\ \A n \in Tasks : /\ run'.tasks[n].status = run.tasks[n].status
                            /\ run'.tasks[n].adopted = run.tasks[n].adopted
    BY <1>0, <1>1, PinnedSession DEF Activates, Declares, Unsaved
  <2>2. x = session[w].x
    BY <1>0, <1>1, <2>1, PinnedSession DEF Activates, Declares
  <2>3. QED
    BY <1>0, <2>1, <2>2, FitsAlike
<1>2. ASSUME NEW y \in Frontiers, NEW p, Persists(w, y, p) PROVE Fits(x, run'.tasks, {}, asked')
  <2>1. x = y
    BY <1>0, <1>2, PinnedSession DEF Persists
  <2>2. /\ x.results = session[w].x.results /\ session[w].x.completed \subseteq x.completed
    BY <1>0, <1>2, <2>1, StoreFits
  <2>3. run.revision + 1 # 0
    BY <1>0, RecordFields DEF TypeOK
  <2>4. ASSUME NEW n \in Tasks PROVE FitsAt(x, run'.tasks, {}, asked', n)
    <3>1. FitsAt(session[w].x, run.tasks, Unsaved(w), asked, n)
      BY <1>0 DEF Fits
    <3>2. asked[n] \in Nat /\ asked'[n] \in Nat /\ asked'[n] >= asked[n]
      BY <1>0 DEF TypeOK, Typed, Grown
    <3>3. /\ run'.tasks[n].status =
               (IF OnRecord(run, n) THEN run.tasks[n].status
                ELSE IF n \in x.results THEN "succeeded"
                ELSE IF n \in session[w].failed THEN "failed" ELSE "absent")
          /\ run'.tasks[n].adopted =
               (IF n \in x.completed /\ run.tasks[n].adopted = 0 THEN run.revision + 1
                ELSE IF OnRecord(run, n) \/ n \notin x.results \cup session[w].failed
                THEN run.tasks[n].adopted ELSE 0)
      BY <1>2, <2>1 DEF Persists
    <3>4. run.tasks[n].adopted # 0 => OnRecord(run, n)
      BY DEF IInv, Witnessed
    <3>5. n \in x.completed <=> run'.tasks[n].adopted # 0
      BY <2>2, <2>3, <3>1, <3>3, <3>4 DEF FitsAt
    <3>6. run'.tasks[n].status = "succeeded" => n \in x.results
      BY <2>2, <3>1, <3>3 DEF FitsAt
    <3>7. n \in x.results => run'.tasks[n].status = "succeeded" \/ asked'[n] > 0
      BY <2>2, <3>1, <3>2, <3>3 DEF FitsAt, OnRecord
    <3>8. QED
      BY <3>5, <3>6, <3>7 DEF FitsAt
  <2>5. QED
    BY <2>4 DEF Fits
<1>3. QED
  BY <1>1, <1>2 DEF Stores

LEMMA ConsistentStep ==
  ASSUME IInv, Typed, Steps1
  PROVE  Consistent'
<1>0. /\ TypeOK /\ Positioned /\ ViewsLag /\ Advances /\ Grown /\ run' \in RunRecords
      /\ Fits(Pinned, run.tasks, {}, asked)
  BY StepsAdvance, StepsGrow DEF IInv, Typed, TypeOK, Consistent
<1>1. ASSUME NEW w \in Workers, Stores(w)
      PROVE  \E x, next : /\ Pins(w, x, next) /\ Fits(x, run'.tasks, {}, asked')
  <2>1. PICK x, next : /\ Pins(w, x, next)
                       /\ x = session[w].x \/ Persists(w, x, next)
    BY <1>1 DEF Stores, Activates, Declares, Persists
  <2>2. Fits(x, run'.tasks, {}, asked')
    BY <1>0, <1>1, <2>1, StoredFits
  <2>3. QED
    BY <2>1, <2>2
<1>2. Fits(Pinned, run.tasks, {}, asked)'
  <2>1. CASE Pinned' = Pinned /\ run'.tasks = run.tasks
    <3>1. Fits(Pinned, run'.tasks, {}, asked')
      BY <1>0, <2>1, FitsAlike
    <3>2. QED
      BY <2>1, <3>1
  <2>2. ASSUME NEW w \in Workers, Stores(w) PROVE Fits(Pinned, run.tasks, {}, asked)'
    BY <1>0, <1>1, <2>2, PinnedNow
  <2>3. QED
    BY <2>1, <2>2
       DEF Steps1, Quiet, Keeps, Pinned, Loads, Rereads, Redispatches, Stalls, Succeeds, Asks,
           Fails, Moves
<1>3. ASSUME NEW v \in Workers PROVE Fitting(v)'
  <2>0. Fitting(v) /\ session[v] \in Sessions
    BY <1>0, SessionFields DEF IInv, Consistent
  <2>1. CASE Same(v)
    <3> SUFFICES ASSUME Aim(v)' \in Underway, Reads(v)'
                 PROVE  Fits(session'[v].x, Base(v)'.tasks, Unsaved(v)', asked')
      BY DEF Fitting
    <3>1. /\ Aim(v) \in Underway /\ Reads(v) /\ Base(v)'.tasks = Base(v).tasks
          /\ Unsaved(v)' = Unsaved(v) /\ session'[v].x = session[v].x
      BY <1>0, <2>1, Bystanders DEF Same
    <3>2. QED
      BY <1>0, <2>0, <3>1, FitsAlike DEF Fitting
  <2>2. CASE Blank(session'[v])
    BY <2>2, BlankFacts DEF Fitting
  <2>3. CASE Stores(v)
    <3>1. PICK x, next : Pins(v, x, next) /\ Fits(x, run'.tasks, {}, asked')
      BY <1>1, <2>3
    <3>2. session'[v].x = x /\ session'[v].at = "reread"
      BY <1>0, <3>1, PinnedSession
    <3>3. QED
      BY <3>1, <3>2 DEF Fitting, Base, Unsaved
  <2>4. CASE Loads(v)
    <3>1. /\ run' = run /\ session'[v].at = "loop" /\ session'[v].view = run
          /\ session'[v].x.completed = Pinned.completed /\ session'[v].x.results = Pinned.results
      BY <2>4 DEF Loads
    <3>2. Fits(session'[v].x, run.tasks, {}, asked')
      BY <1>0, <3>1, FitsAlike
    <3>3. QED
      BY <3>1, <3>2 DEF Fitting, Base, Unsaved
  <2>5. CASE Rereads(v)
    <3> SUFFICES ASSUME Aim(v)' \in Underway
                 PROVE  Fits(session'[v].x, Base(v)'.tasks, Unsaved(v)', asked')
      BY DEF Fitting
    <3>1. /\ session[v].at = "reread" /\ Confirmed(v) /\ session'[v].at = session[v].next
          /\ session'[v].at # "reread" /\ session'[v].view = run
          /\ session'[v].x = session[v].x
      BY <1>0, <2>5 DEF Rereads, Moves, Positioned, Position, Underway
    <3>2. Fits(session[v].x, run.tasks, {}, asked)
      BY <2>0, <3>1 DEF Fitting, Aim, Reads, Base, Unsaved
    <3>3. Fits(session'[v].x, run.tasks, Unsaved(v)', asked')
      BY <1>0, <3>1, <3>2, FitsAlike
    <3>4. QED
      BY <3>1, <3>3 DEF Base
  <2>6. CASE Redispatches(v) \/ Stalls(v) \/ Asks(v) \/ Fails(v)
    <3>1. /\ session[v].at \in {"loop", "executing"}
          /\ session'[v].at \in {"executing", "failing", "loop"}
          /\ session'[v].view = session[v].view
          /\ session'[v].x.completed = session[v].x.completed
          /\ session'[v].x.results = session[v].x.results
      BY <2>6 DEF Redispatches, Stalls, Walks, Asks, Fails, Runs1, Moves
    <3>2. Fits(session[v].x, session[v].view.tasks, {}, asked)
      BY <2>0, <3>1 DEF Fitting, Aim, Reads, Base, Unsaved, Underway
    <3>3. Fits(session'[v].x, session[v].view.tasks, {}, asked')
      BY <1>0, <3>1, <3>2, FitsAlike
    <3>4. QED
      BY <3>1, <3>3 DEF Fitting, Base, Unsaved
  <2>7. CASE Succeeds(v)
    <3> DEFINE m == Node(v)
               y == session[v].x
               x == session'[v].x
               tasks == session[v].view.tasks
    <3>1. /\ session[v].at = "executing" /\ session'[v].at = "save" /\ asked' = asked
          /\ session'[v].view = session[v].view
          /\ x.ready = y.ready /\ x.completed = y.completed /\ x.results = y.results \cup {m}
      BY <2>7 DEF Succeeds, Runs1, Moves
    <3>2. Fits(y, tasks, {}, asked)
      BY <2>0, <3>1 DEF Fitting, Aim, Reads, Base, Unsaved, Underway
    <3>3. Unsaved(v)' = {m}
      BY <3>1, SameFirst DEF Unsaved, Node
    <3>4. asked[m] > 0 \/ tasks[m].status = "absent"
      <4>1. m \in Tasks /\ asked[m] \in Nat
        BY <1>0, <3>1, WorkingNode DEF Aim, TypeOK
      <4>2. asked[m] = 0 => ~OnRecord(run, m)
        BY <3>1, HeadingIsFirst DEF Aim
      <4>3. OnRecord(session[v].view, m) => OnRecord(run, m)
        BY <1>0, <4>1 DEF ViewsLag, LagsBehind, Lags
      <4>4. QED
        BY <4>1, <4>2, <4>3 DEF OnRecord
    <3>5. Fits(x, tasks, {m}, asked)
      <4> HIDE DEF m, x, y, tasks
      <4> QED  BY <3>1, <3>2, <3>4 DEF Fits, FitsAt
    <3>6. QED
      BY <3>1, <3>3, <3>5 DEF Fitting, Base
  <2>8. QED
    BY <2>1, <2>2, <2>3, <2>4, <2>5, <2>6, <2>7, Parts DEF Acts
<1>4. QED
  BY <1>2, <1>3 DEF Consistent

LEMMA OwnWorkStep ==
  ASSUME IInv, Typed, Steps1
  PROVE  OwnWork'
<1>0. /\ TypeOK /\ Positioned /\ ViewsLag /\ Advances /\ Grown /\ run' \in RunRecords
  BY StepsAdvance, StepsGrow DEF IInv, Typed, TypeOK
<1> SUFFICES ASSUME NEW v \in Workers PROVE Owns(v)'
  BY DEF OwnWork
<1>1. Owns(v)
  BY DEF IInv, OwnWork
<1>2. \A n \in Tasks : asked[n] > 0 => asked'[n] > 0
  BY <1>0 DEF Grown, TypeOK, Typed
<1>3. CASE Same(v)
  BY <1>0, <1>1, <1>2, <1>3, Bystanders DEF Owns, Same
<1>4. CASE Blank(session'[v])
  BY <1>4, BlankFacts DEF Owns, Underway
<1>5. CASE Activates(v)
  <2>1. Pins(v, session[v].x, "executing") /\ session[v].at = "loop"
    BY <1>5 DEF Activates
  <2>2. /\ session'[v].at = "reread" /\ session'[v].next = "executing"
        /\ session'[v].x = session[v].x /\ session'[v].restored = session[v].restored
    BY <1>0, <2>1, PinnedSession
  <2>3. session[v].view.activations = run.activations
    BY <1>0, <2>1, FreshView
  <2>4. ASSUME NEW n \in Tasks, n \notin session[v].restored, run'.activations[n].attempt # 0
        PROVE  n \in session[v].x.results \/ asked'[n] > 0 \/ Heading(v, n)'
    <3>1. CASE n = Node(v)
      BY <2>2, <3>1 DEF Heading, Aim, Node
    <3>2. CASE n # Node(v)
      <4>1. session[v].view.activations[n].attempt # 0
        BY <1>5, <2>3, <2>4, <3>2 DEF Activates
      <4>2. QED
        BY <1>1, <1>2, <2>1, <2>4, <4>1 DEF Owns, Aim, Reads, Base, Heading
    <3>3. QED
      BY <3>1, <3>2
  <2>5. QED
    BY <2>2, <2>4 DEF Owns, Base
<1>6. CASE Declares(v)
  <2>1. PICK x : Pins(v, x, "stop")
    BY <1>6 DEF Declares
  <2>2. Aim(v)' = "stop"
    BY <1>0, <2>1, PinnedSession DEF Aim
  <2>3. QED
    BY <2>2 DEF Owns
<1>7. ASSUME NEW x \in Frontiers, NEW next, Persists(v, x, next) PROVE Owns(v)'
  <2>1. /\ session'[v].at = "reread" /\ session'[v].next = next /\ session'[v].x = x
        /\ session'[v].restored = session[v].restored
        /\ session[v].view.activations = run.activations /\ Pins(v, x, next)
        /\ Aim(v)' = next
    BY <1>0, <1>7, PinnedSession, FreshView DEF Persists, Aim
  <2>2. CASE next = "loop"
    <3>1. session[v].at \in {"loop", "save"} /\ x.results = session[v].x.results
      <4>1. Earned(session[v].x, ran, asked)
        BY DEF IInv, Witnessed, Attests
      <4>2. QED
        BY <1>0, <1>7, <2>2, <4>1, StoredIsEarned DEF Persists
    <3>2. ASSUME NEW n \in Tasks, n \notin session[v].restored, run'.activations[n].attempt # 0
          PROVE  n \in x.results \/ asked'[n] > 0
      <4>1. session[v].view.activations[n].attempt # 0
        BY <1>7, <2>1, <3>2 DEF Persists
      <4>2. QED
        BY <1>1, <1>2, <3>1, <3>2, <4>1 DEF Owns, Aim, Reads, Base, Heading
    <3>3. QED
      BY <2>1, <3>2 DEF Owns, Base
  <2>3. CASE next # "loop"
    <3>1. next \in {"park", "fail"}
      BY <1>7, <2>3 DEF Persists
    <3>2. QED
      BY <2>1, <3>1 DEF Owns
  <2>4. QED
    BY <2>2, <2>3
<1>8. CASE Loads(v)
  BY <1>8 DEF Loads, Owns, Base
<1>9. CASE Rereads(v)
  <2>1. /\ session[v].at = "reread" /\ Confirmed(v) /\ session'[v].at = session[v].next
        /\ session'[v].at # "reread" /\ session'[v].view = run
        /\ session'[v].x = session[v].x /\ session'[v].restored = session[v].restored
    BY <1>0, <1>9 DEF Rereads, Moves, Positioned, Position, Underway
  <2>2. Aim(v)' = Aim(v) /\ \A n : Heading(v, n)' <=> Heading(v, n)
    BY <2>1 DEF Aim, Heading, Node
  <2>3. QED
    BY <1>1, <1>2, <2>1, <2>2 DEF Owns, Reads, Base
<1>10. CASE Redispatches(v) \/ Succeeds(v) \/ Asks(v)
  <2>1. /\ session[v].at \in {"loop", "executing"} /\ session'[v].at # "reread"
        /\ session'[v].view = session[v].view /\ session'[v].restored = session[v].restored
        /\ session[v].x.results \subseteq session'[v].x.results
    BY <1>10 DEF Redispatches, Walks, Succeeds, Asks, Runs1, Moves
  <2>2. \A n \in Tasks : Heading(v, n) => n \in session'[v].x.results \/ asked'[n] > 0
    <3>1. CASE Redispatches(v)
      BY <3>1 DEF Redispatches, Heading, Aim
    <3>2. CASE Succeeds(v)
      BY <3>2 DEF Succeeds, Heading
    <3>3. CASE Asks(v)
      <4> DEFINE m == Node(v)
      <4>1. asked' = [asked EXCEPT ![m] = @ + 1] /\ asked \in [Tasks -> Nat]
        BY <1>0, <3>3 DEF Asks, TypeOK
      <4> HIDE DEF m
      <4>2. m \in Tasks => asked'[m] > 0
        BY <4>1
      <4>3. QED
        BY <4>2 DEF m, Heading
    <3>4. QED
      BY <1>10, <3>1, <3>2, <3>3
  <2>3. QED
    BY <1>1, <1>2, <2>1, <2>2 DEF Owns, Aim, Reads, Base
<1>11. CASE Stalls(v) \/ Fails(v)
  BY <1>11 DEF Stalls, Fails, Moves, Owns, Aim
<1>12. QED
  BY <1>3, <1>4, <1>5, <1>6, <1>7, <1>8, <1>9, <1>10, <1>11, Parts DEF Acts, Stores

-----------------------------------------------------------------------------
\* The invariant holds.

LEMMA SubmittedFields ==
  LET r == Submitted(Ingress)
  IN /\ r \in RunRecords /\ r.revision = 0 /\ r.snapshot = NoSnapshot
     /\ r.activations = AbsentRun.activations /\ r.tasks = AbsentRun.tasks
BY PlanFacts, SchedulingType, AbsentRunType DEF Submitted, AbsentRun

LEMMA IInvInit ==
  ASSUME Snapshots = Frontiers, Init
  PROVE  IInv
<1>1. /\ run = Submitted(Ingress) /\ run \in RunRecords /\ run.revision = 0
      /\ run.activations = AbsentRun.activations /\ run.tasks = AbsentRun.tasks
      /\ run.snapshot = NoSnapshot
  BY SubmittedFields DEF Init
<1>2. Blank(Idle)
  BY BeginFields, AbsentRunType DEF Blank, Idle, Sessions, Places, Resting
<1>3. \A n \in Tasks : /\ AbsentRun.activations[n].attempt = 0
                       /\ AbsentRun.tasks[n].status = "absent" /\ AbsentRun.tasks[n].adopted = 0
  BY DEF AbsentRun, NoActivation, NoResult
<1>4. /\ \A w \in Workers : session[w] = Idle
      /\ \A n \in Tasks : asked[n] = 0 /\ ran[n] = 0
  BY DEF Init
<1>5. TypeOK
  BY <1>1, <1>2 DEF TypeOK, Init, Blank
<1>6. ASSUME NEW w \in Workers
      PROVE  /\ session[w].at \in Resting /\ session[w].at # "reread"
             /\ Aim(w) \notin Underway /\ Position(w) /\ Attests(w)
             /\ session[w].view = AbsentRun
  <2>1. Blank(session[w])
    BY <1>2, <1>4
  <2>2. QED
    BY <2>1, BeginFields DEF Blank, Position, Aim, Resting, Underway, Attests, Earned
<1>7. Lags(AbsentRun, run)
  BY <1>1 DEF Lags, OnRecord, AbsentRun
<1>8. Positioned /\ ViewsLag
  BY <1>6, <1>7 DEF Positioned, ViewsLag, LagsBehind
<1>9. Permitted
  BY <1>4, <1>6 DEF Permitted, Permission, Heading, Underway
<1>10. Pinned = Begin
  BY <1>1 DEF Pinned
<1>11. Consistent
  BY <1>1, <1>3, <1>6, <1>10, BeginFields DEF Consistent, Fits, FitsAt, Fitting
<1>12. Witnessed
  BY <1>1, <1>3, <1>6, <1>10, BeginFields DEF Witnessed, Earned, OnRecord
<1>13. OwnWork
  BY <1>6 DEF OwnWork, Owns, Underway
<1>14. QED
  BY <1>5, <1>8, <1>9, <1>11, <1>12, <1>13 DEF IInv

LEMMA Inductive ==
  ASSUME IInv, [Next]_durable_graph_vars
  PROVE  IInv'
<1>1. CASE Next
  <2>1. Typed /\ Steps1
    BY <1>1, StepKinds DEF IInv
  <2>2. TypeOK'
    BY <2>1 DEF IInv, TypeOK, Typed
  <2>3. QED
    BY <2>1, <2>2, PositionedStep, ViewsLagStep, PermittedStep, ConsistentStep, WitnessedStep,
       OwnWorkStep DEF IInv
<1>2. CASE UNCHANGED durable_graph_vars
  <2>1. Typed /\ Steps1
    BY <1>2, QuietRun DEF durable_graph_vars, IInv, TypeOK, Typed, Steps1, Quiet, Same
  <2>2. TypeOK'
    BY <2>1 DEF IInv, TypeOK, Typed
  <2>3. QED
    BY <2>1, <2>2, PositionedStep, ViewsLagStep, PermittedStep, ConsistentStep, WitnessedStep,
       OwnWorkStep DEF IInv
<1>3. QED
  BY <1>1, <1>2

\* Sessions, requests, snapshots and the record keep their types, and a session that
\* works on a node has one.
THEOREM GraphTypes ==
  ASSUME Snapshots = Frontiers
  PROVE  Spec => [](TypeOK /\ Positioned)
<1>1. Init => IInv
  BY IInvInit
<1>2. IInv /\ [Next]_durable_graph_vars => IInv'
  BY Inductive
<1>3. IInv => TypeOK /\ Positioned
  BY DEF IInv
<1>4. QED
  BY <1>1, <1>2, <1>3, PTL DEF Spec

\* A node that never waited is executed once at most, over all workers, crashes and lost
\* replies.
THEOREM NodesHappenOnce ==
  ASSUME Snapshots = Frontiers
  PROVE  Spec => []NodesRunOnce
<1>1. Init => IInv
  BY IInvInit
<1>2. IInv /\ [Next]_durable_graph_vars => IInv'
  BY Inductive
<1>3. IInv => NodesRunOnce
  BY DEF IInv, Permitted, Permission, NodesRunOnce
<1>4. QED
  BY <1>1, <1>2, <1>3, PTL DEF Spec

\* The frontier a commit pins and the facts it records never drift apart.
THEOREM FrontiersHaveResults ==
  ASSUME Snapshots = Frontiers
  PROVE  Spec => []FrontierIsBacked
<1>1. Init => IInv
  BY IInvInit
<1>2. IInv /\ [Next]_durable_graph_vars => IInv'
  BY Inductive
<1>3. IInv => FrontierIsBacked
  <2>1. ASSUME IInv PROVE Pinned \in Frontiers
    BY <2>1, BeginFields, RecordFields DEF IInv, TypeOK, Pinned
  <2>2. QED
    BY <2>1 DEF IInv, Consistent, Fits, FitsAt, Witnessed, OnRecord, FrontierIsBacked
<1>4. QED
  BY <1>1, <1>2, <1>3, PTL DEF Spec

-----------------------------------------------------------------------------
(***************************************************************************)
(* What a graph's run is worth to its caller, whatever happens to the      *)
(* sessions that drive it: only losers report a loss, an answer is used up *)
(* with the node it let finish, and the pinned snapshots implement         *)
(* GraphRun.  The argument is one inductive invariant, GraphInv: what a    *)
(* session that still owns the run holds is the pinned frontier and what   *)
(* it did since, and a frontier has walked the plan in order.              *)
(***************************************************************************)

-----------------------------------------------------------------------------
(***************************************************************************)
(* The inductive invariant.                                                *)
(***************************************************************************)

\* What a session holds is the last there is, or will be once it has read it back.
Fresh(w) ==
  IF session[w].at = "reread" THEN Confirmed(w) ELSE session[w].view.revision = run.revision

\* Who holds the run knows its last revision.
Authority(w) ==
  /\ session[w].fence <= run.fence
  /\ Live(run) /\ Holds(run, w, session[w].fence) /\ session[w].at \in Underway \cup {"reread"}
       => Fresh(w)

\* A session's frontier is the pinned one and what has happened since the commit.
Follows(w) ==
  /\ session[w].next # "save"
  /\ Aim(w) \in Underway /\ Fresh(w) =>
       /\ session[w].x.completed = Pinned.completed
       /\ session[w].x.results = Pinned.results \cup Unsaved(w)
       /\ \A n \in Tasks \ Unsaved(w) : session[w].x.chosen[n] = Pinned.chosen[n]
       /\ \A p \in Pinned.waiting : \E q \in session[w].x.waiting : q[1] = p[1] /\ q[2] >= p[2]

\* The inputs a session was given stay as it knows them, but for their being used up.
Informed(w) ==
  session[w].at \notin Resting =>
    /\ \A i \in session[w].given : /\ run.inputs[i].accepted
                                   /\ session[w].at # "reread" => session[w].view.inputs[i].accepted
    /\ session[w].view.revision = run.revision =>
         \A i \in Inputs : session[w].view.inputs[i].accepted =>
           session[w].view.inputs[i] = run.inputs[i]

\* The node an answer was given to still waits, for it or for a later one.
Answering(w) ==
  Aim(w) \in Underway /\ Fresh(w) =>
    \A i \in session[w].given :
      LET input == run.inputs[i]
      IN Pending(input) /\ input.target # NoTarget =>
           \E q \in session[w].x.waiting : q[1] = input.target[1] /\ q[2] >= input.target[2]

\* A session that dropped the run had to.
Lost(w) ==
  \/ ~(Live(run) /\ Holds(run, w, session[w].fence))
  \/ \E n \in Tasks : n \in Pinned.results /\ run.tasks[n].status = "failed"

\* What a session executes, or knows to be activated, is.
Entitled(w) ==
  \A n \in Tasks : Heading(w, n) \/ session[w].view.activations[n].attempt # 0
                     => run.activations[n].attempt # 0

\* Inputs are used up by commits; only ends of nodes are recorded.
Recorded ==
  /\ \A i \in Inputs : /\ run.inputs[i].consumed <= run.revision
                       /\ ~run.inputs[i].accepted => run.inputs[i].consumed = 0
  /\ \A n \in Tasks : /\ run.tasks[n].status \in {"absent", "succeeded", "failed"}
                      /\ ran[n] > 0 => run.activations[n].attempt # 0

\* Questions are numbered.
Numbered(x) == \A q \in x.waiting : q[2] <= asked[q[1]]

\* Places in the plan.
Leads(n) == Fixed[n] \cup Branches[n]
Place(n) == CHOOSE i \in DOMAIN Order : Order[i] = n

Settled(x) == x.completed \cup Skipped(x)
Waiters(x) == {q[1] : q \in x.waiting}

\* How far a frontier has walked the plan.
Walked(x) ==
  /\ x.completed = {} \/ Entry \in x.completed
  /\ Entry \in x.completed \cup x.ready \cup Waiters(x)
  /\ \A n \in x.ready \cup Waiters(x) :
       n \notin x.completed /\ (n = Entry \/ n \in Due(x))
  /\ \A n \in x.completed :
       /\ n = Entry \/ Deps(n) \subseteq Settled(x)
       /\ Place(Entry) <= Place(n)
       /\ n \in x.results
  /\ \A n \in x.results : x.chosen[n] \in Routes(n)

Faithful(w) ==
  /\ Authority(w) /\ Entitled(w) /\ Follows(w) /\ Informed(w) /\ Answering(w)
  /\ session[w].at = "lost" => Lost(w)
  /\ Numbered(session[w].x) /\ Walked(session[w].x)

GraphInv ==
  /\ IInv /\ Recorded
  /\ \A w \in Workers : Faithful(w)
  /\ Numbered(Pinned) /\ Walked(Pinned)
  /\ AnswersAreSettled
-----------------------------------------------------------------------------
\* The scheduler: what is skipped.

LEMMA SkippingGrows ==
  ASSUME NEW x, NEW S, NEW T, S \subseteq T
  PROVE  SkippedAfter(x, S) \subseteq SkippedAfter(x, T)
BY DEF SkippedAfter

LEMMA SkippedIsLeast ==
  ASSUME NEW x, NEW S \in SUBSET Tasks, SkippedAfter(x, S) \subseteq S
  PROVE  Skipped(x) \subseteq S
BY DEF Skipped

\* The least set the rule leads nowhere from is one that it leads to.
LEMMA SkippedIsFixed ==
  ASSUME NEW x
  PROVE  SkippedAfter(x, Skipped(x)) = Skipped(x)
<1> DEFINE T == Skipped(x)
           U == SkippedAfter(x, T)
<1>1. U \subseteq T
  <2>1. ASSUME NEW n \in U, NEW S \in SUBSET Tasks, SkippedAfter(x, S) \subseteq S
        PROVE  n \in S
    <3>1. T \subseteq S
      BY <2>1, SkippedIsLeast
    <3>2. U \subseteq SkippedAfter(x, S)
      BY <3>1, SkippingGrows
    <3>3. QED
      BY <2>1, <3>2
  <2>2. U \subseteq Tasks
    BY DEF SkippedAfter
  <2> HIDE DEF U
  <2>3. QED
    BY <2>1, <2>2 DEF Skipped
<1>2. T \subseteq U
  <2>1. U \subseteq Tasks
    BY DEF SkippedAfter
  <2>2. SkippedAfter(x, U) \subseteq U
    BY <1>1, SkippingGrows
  <2> HIDE DEF U
  <2>3. QED
    BY <2>1, <2>2, SkippedIsLeast
<1>3. QED
  BY <1>1, <1>2

LEMMA SkippedFacts ==
  ASSUME NEW x, NEW n \in Skipped(x)
  PROVE  /\ n \in Tasks /\ n \notin x.completed /\ ~Selected(x, n)
         /\ Deps(n) # {} /\ Deps(n) \subseteq Settled(x)
BY SkippedIsFixed DEF SkippedAfter, Settled

LEMMA NothingSkipped ==
  ASSUME NEW x, x.completed = {}
  PROVE  Skipped(x) = {}
<1>1. SkippedAfter(x, {}) \subseteq {}
  BY DEF SkippedAfter
<1>2. QED
  BY <1>1, SkippedIsLeast

-----------------------------------------------------------------------------
\* The plan is ordered.

LEMMA PlaceFacts ==
  /\ \A n \in Tasks : Place(n) \in Nat
  /\ \A n \in Tasks : \A m \in Leads(n) : m \in Tasks /\ n \in Deps(m) /\ Place(n) < Place(m)
<1>1. DOMAIN Order = 1..Len(Order) /\ Len(Order) \in Nat
  BY PlanFacts
<1>2. \A n \in Tasks : Place(n) \in DOMAIN Order /\ Order[Place(n)] = n
  BY <1>1, PlanFacts DEF Place
<1>3. ASSUME NEW n \in Tasks, NEW m \in Leads(n)
      PROVE  m \in Tasks /\ n \in Deps(m) /\ Place(n) < Place(m)
  <2>1. m \in Tasks /\ m \in Fixed[n] \cup Branches[n]
    BY <1>3, PlanFacts DEF Leads
  <2>2. Order[Place(m)] \in Fixed[Order[Place(n)]] \cup Branches[Order[Place(n)]]
    BY <1>2, <2>1
  <2>3. Place(n) < Place(m)
    BY <1>2, <2>1, <2>2, PlanAssumption
  <2>4. QED
    BY <2>1, <2>3 DEF Deps
<1>4. QED
  BY <1>1, <1>2, <1>3

LEMMA RoutesLead ==
  ASSUME NEW n \in Tasks, NEW route \in Routes(n)
  PROVE  route \subseteq Leads(n)
BY DEF Routes, Leads

\* Who is selected comes after the one who selected it.
LEMMA SelectedFacts ==
  ASSUME NEW x \in Frontiers, Walked(x), NEW n \in Tasks, Selected(x, n)
  PROVE  /\ Entry \in x.completed /\ Place(Entry) < Place(n)
         /\ \E m \in x.completed : m \in Deps(n)
<1>1. PICK m \in x.completed : n \in x.chosen[m]
  BY DEF Selected
<1>2. m \in Tasks /\ n \in Leads(m) /\ Place(Entry) <= Place(m)
  BY <1>1, RoutesLead DEF Walked, Frontiers
<1>3. m \in Deps(n) /\ Place(m) < Place(n)
  BY <1>2, PlaceFacts
<1>4. Place(Entry) \in Nat /\ Place(m) \in Nat /\ Place(n) \in Nat
  BY <1>2, PlaceFacts, PlanFacts
<1>5. Entry \in x.completed
  BY <1>1 DEF Walked
<1>6. QED
  BY <1>1, <1>2, <1>3, <1>4, <1>5

LEMMA FrontierFields ==
  ASSUME NEW x \in Frontiers
  PROVE  /\ x.ready \subseteq Tasks /\ x.results \subseteq Tasks /\ x.completed \subseteq Tasks
         /\ x.chosen \in [Tasks -> SUBSET Tasks] /\ x.waiting \subseteq Questions
         /\ Waiters(x) \subseteq Tasks
         /\ \A q \in x.waiting : q[1] \in Tasks /\ q[2] \in Nat /\ q[2] # 0
<1>1. /\ x.ready \subseteq Tasks /\ x.results \subseteq Tasks /\ x.completed \subseteq Tasks
      /\ x.chosen \in [Tasks -> SUBSET Tasks] /\ x.waiting \subseteq Questions
  BY DEF Frontiers
<1>2. ASSUME NEW q \in Questions PROVE q[1] \in Tasks /\ q[2] \in Nat /\ q[2] # 0
  <2>1. q[1] \in Asking /\ q[2] \in 1..MaxAsks
    BY DEF Questions
  <2>2. Asking \subseteq Tasks /\ MaxAsks \in Nat
    BY PlanFacts
  <2>3. QED
    BY <2>1, <2>2
<1>3. Waiters(x) \subseteq Tasks
  BY <1>1, <1>2 DEF Waiters
<1>4. \A q \in x.waiting : q[1] \in Tasks /\ q[2] \in Nat /\ q[2] # 0
  BY <1>1, <1>2
<1>5. QED
  BY <1>1, <1>3, <1>4

\* A node that is under way was selected, or is where the plan begins.
Started(x) == {n \in Tasks \ x.completed : n = Entry \/ Selected(x, n)}

LEMMA StartedFacts ==
  ASSUME NEW x \in Frontiers, Walked(x), NEW n \in Started(x)
  PROVE  n \notin Settled(x) /\ Place(Entry) <= Place(n)
<1>1. /\ n \in Tasks /\ n \notin x.completed /\ (n = Entry \/ Selected(x, n))
      /\ Place(Entry) \in Nat /\ Place(n) \in Nat
  BY PlaceFacts, PlanFacts DEF Started
<1>2. CASE Selected(x, n)
  <2>1. Place(Entry) < Place(n)
    BY <1>1, <1>2, SelectedFacts
  <2>2. n \notin Skipped(x)
    BY <1>2, SkippedFacts
  <2>3. QED
    BY <1>1, <2>1, <2>2 DEF Settled
<1>3. CASE n = Entry
  <2>1. x.completed = {}
    BY <1>1, <1>3 DEF Walked
  <2>2. QED
    BY <1>1, <1>3, <2>1, NothingSkipped DEF Settled
<1>4. QED
  BY <1>1, <1>2, <1>3

LEMMA ReadyIsStarted ==
  ASSUME NEW x \in Frontiers, Walked(x)
  PROVE  x.ready \cup Waiters(x) \subseteq Started(x)
BY FrontierFields DEF Walked, Started, Due

\* What an unsettled node leads to is neither settled nor due.
LEMMA UnsettledLeads ==
  ASSUME NEW x \in Frontiers, Walked(x), NEW k \in Tasks, k \notin Settled(x),
         Place(Entry) <= Place(k), NEW j \in Leads(k)
  PROVE  /\ j \in Tasks /\ j \notin Settled(x) /\ j \notin x.ready \cup Waiters(x)
         /\ Place(Entry) <= Place(j)
<1>1. j \in Tasks /\ k \in Deps(j) /\ Place(k) < Place(j) /\ Place(j) \in Nat
      /\ Place(k) \in Nat /\ Place(Entry) \in Nat
  BY PlaceFacts, PlanFacts
<1>2. j # Entry /\ Place(Entry) <= Place(j)
  BY <1>1
<1>3. j \notin x.completed
  BY <1>1, <1>2 DEF Walked
<1>4. j \notin Skipped(x)
  BY <1>1, SkippedFacts
<1>5. j \notin x.ready \cup Waiters(x)
  <2>1. ASSUME j \in x.ready \cup Waiters(x) PROVE FALSE
    <3>1. j \in Due(x)
      BY <1>2, <2>1 DEF Walked
    <3>2. QED
      BY <1>1, <3>1 DEF Due, Settled
  <2>2. QED
    BY <2>1
<1>6. QED
  BY <1>1, <1>2, <1>3, <1>4, <1>5 DEF Settled

\* The scheduler never selects a node that was completed: the error plan.go:443 returns
\* has no occasion.
LEMMA RoutesLeadOn ==
  ASSUME NEW x \in Frontiers, Walked(x), NEW n \in x.ready \cup Waiters(x), NEW route \in Routes(n)
  PROVE  route \cap x.completed = {}
<1>1. n \in Tasks /\ n \notin Settled(x) /\ Place(Entry) <= Place(n)
  BY ReadyIsStarted, StartedFacts, FrontierFields
<1>2. \A j \in route : j \notin Settled(x)
  BY <1>1, RoutesLead, UnsettledLeads
<1>3. QED
  BY <1>2 DEF Settled
-----------------------------------------------------------------------------
\* The scheduler's steps keep a frontier walked.

\* What is due depends on what was completed and chosen.
LEMMA DueAlike ==
  ASSUME NEW x, NEW y, y.completed = x.completed, y.chosen = x.chosen
  PROVE  /\ Skipped(y) = Skipped(x) /\ Due(y) = Due(x) /\ Settled(y) = Settled(x)
         /\ \A n : Selected(y, n) <=> Selected(x, n)
<1>1. \A n : Selected(y, n) <=> Selected(x, n)
  BY DEF Selected
<1>2. \A S : SkippedAfter(y, S) = SkippedAfter(x, S)
  BY <1>1 DEF SkippedAfter
<1>3. Skipped(y) = Skipped(x)
  BY <1>2 DEF Skipped
<1>4. QED
  BY <1>1, <1>3 DEF Due, Settled

LEMMA CompletingMore ==
  ASSUME NEW x \in Frontiers, NEW n \in Tasks
  PROVE  LET y == Completing(x, n)
         IN /\ y.chosen = x.chosen
            /\ y.ready = (x.ready \ {n}) \cup (Due(y) \ Due(x))
<1> DEFINE z == [x EXCEPT !.completed = @ \cup {n}, !.waiting = {q \in @ : q[1] # n}]
           y == [z EXCEPT !.ready = (z.ready \ {n}) \cup (Due(z) \ Due(x))]
<1>1. z \in Frontiers /\ z.ready = x.ready /\ z.chosen = x.chosen
  BY DEF Frontiers
<1>2. /\ y.completed = z.completed /\ y.chosen = z.chosen
      /\ y.ready = (z.ready \ {n}) \cup (Due(z) \ Due(x))
  <2> HIDE DEF z
  <2> QED  BY <1>1 DEF Frontiers
<1>3. Due(y) = Due(z)
  <2> HIDE DEF y, z
  <2> QED  BY <1>2, DueAlike
<1>4. Completing(x, n) = y
  BY DEF Completing
<1>5. QED
  <2> HIDE DEF y, z
  <2> QED  BY <1>1, <1>2, <1>3, <1>4

\* A frontier with n completed as well.
Completes(x, n, y) ==
  /\ x \in Frontiers /\ Walked(x) /\ n \in x.ready /\ n \in x.results
  /\ y \in Frontiers
  /\ y.completed = x.completed \cup {n} /\ y.results = x.results /\ y.chosen = x.chosen
  /\ y.waiting = {q \in x.waiting : q[1] # n}
  /\ y.ready = (x.ready \ {n}) \cup (Due(y) \ Due(x))

LEMMA CompletingCompletes ==
  ASSUME NEW x \in Frontiers, Walked(x), NEW n \in x.ready, n \in x.results
  PROVE  Completes(x, n, Completing(x, n))
BY FrontierFields, CompletingFields, CompletingMore DEF Completes

LEMMA CompletesSettles ==
  ASSUME NEW x, NEW n, NEW y, Completes(x, n, y)
  PROVE  /\ n \in Tasks /\ n \notin x.completed /\ Skipped(x) \subseteq Skipped(y)
         /\ Settled(x) \subseteq Settled(y)
         /\ \A k : Selected(x, k) => Selected(y, k)
<1>1. /\ n \in Tasks /\ n \notin x.completed /\ x \in Frontiers
      /\ n = Entry \/ Selected(x, n)
  BY ReadyIsStarted DEF Completes, Started
<1>2. \A k : Selected(x, k) => Selected(y, k)
  BY DEF Selected, Completes
<1>3. CASE x.completed = {}
  BY <1>1, <1>2, <1>3, NothingSkipped DEF Settled, Completes
<1>4. CASE x.completed # {}
  <2>1. Selected(x, n)
    BY <1>1, <1>4 DEF Completes, Walked
  <2> DEFINE T == Skipped(y)
  <2>2. ASSUME NEW k \in SkippedAfter(x, T) PROVE k \in T
    <3>1. /\ k \in Tasks /\ k \notin x.completed /\ ~Selected(x, k)
          /\ Deps(k) # {} /\ Deps(k) \subseteq x.completed \cup T
      BY <2>2 DEF SkippedAfter
    <3>2. k # n
      BY <2>1, <3>1
    <3>3. n \notin T
      BY SkippedFacts DEF Completes
    <3>4. k \notin x.chosen[n]
      <4>1. ASSUME k \in x.chosen[n] PROVE n \in Deps(k)
        BY <1>1, <4>1, RoutesLead, PlaceFacts DEF Completes, Walked
      <4>2. QED
        BY <1>1, <3>1, <3>3, <4>1
    <3>5. ~Selected(y, k)
      BY <3>1, <3>4 DEF Selected, Completes
    <3>6. k \in SkippedAfter(y, T)
      BY <3>1, <3>2, <3>5 DEF SkippedAfter, Completes
    <3>7. QED
      BY <3>6, SkippedIsFixed
  <2>3. T \in SUBSET Tasks
    BY DEF Skipped
  <2>4. Skipped(x) \subseteq T
    <3> HIDE DEF T
    <3> QED  BY <2>2, <2>3, SkippedIsLeast
  <2>5. QED
    BY <1>1, <1>2, <2>4 DEF Settled, Completes
<1>5. QED
  BY <1>3, <1>4

LEMMA CompletesWalks ==
  ASSUME NEW x, NEW n, NEW y, Completes(x, n, y)
  PROVE  Walked(y)
<1>1. /\ n \in Tasks /\ n \notin x.completed /\ Settled(x) \subseteq Settled(y)
      /\ \A k : Selected(x, k) => Selected(y, k)
      /\ Skipped(x) \subseteq Skipped(y)
  BY CompletesSettles
<1>2. /\ x \in Frontiers /\ Walked(x) /\ n \in x.ready /\ n \in x.results /\ y \in Frontiers
      /\ y.completed = x.completed \cup {n} /\ y.results = x.results /\ y.chosen = x.chosen
      /\ y.waiting = {q \in x.waiting : q[1] # n}
      /\ y.ready = (x.ready \ {n}) \cup (Due(y) \ Due(x))
  BY DEF Completes
<1>3. Waiters(y) = Waiters(x) \ {n}
  BY <1>2 DEF Waiters
<1>4. n \in Started(x)
  BY <1>2, ReadyIsStarted
<1>5. Entry \in y.completed
  <2>1. CASE x.completed = {}
    BY <1>2, <1>4, <2>1 DEF Started, Selected
  <2>2. CASE x.completed # {}
    BY <1>2, <2>2 DEF Walked
  <2>3. QED
    BY <2>1, <2>2
<1>6. ASSUME NEW k \in y.ready \cup Waiters(y)
      PROVE  k \notin y.completed /\ k \in Due(y)
  <2>1. CASE k \in Due(y)
    BY <2>1 DEF Due
  <2>2. CASE k \notin Due(y)
    <3>1. k \in (x.ready \cup Waiters(x)) \ {n}
      BY <1>2, <1>3, <1>6, <2>2
    <3>2. k \notin y.completed /\ (k = Entry \/ k \in Due(x))
      BY <1>2, <3>1 DEF Walked
    <3>3. k \in Due(x)
      BY <1>5, <3>2
    <3>4. k \in Due(y)
      BY <1>1, <1>2, <3>2, <3>3 DEF Due
    <3>5. QED
      BY <2>2, <3>4
  <2>3. QED
    BY <2>1, <2>2
<1>7. ASSUME NEW k \in y.completed
      PROVE  /\ k = Entry \/ Deps(k) \subseteq Settled(y)
             /\ Place(Entry) <= Place(k) /\ k \in y.results
  <2>1. CASE k \in x.completed
    BY <1>1, <1>2, <2>1 DEF Walked
  <2>2. CASE k = n
    <3>1. Place(Entry) <= Place(n)
      BY <1>2, <1>4, StartedFacts
    <3>2. n = Entry \/ Deps(n) \subseteq Settled(x)
      BY <1>2 DEF Walked, Due, Settled
    <3>3. QED
      BY <1>1, <1>2, <2>2, <3>1, <3>2
  <2>3. QED
    BY <1>2, <1>7, <2>1, <2>2
<1>8. \A k \in y.results : y.chosen[k] \in Routes(k)
  BY <1>2 DEF Walked
<1>9. QED
  BY <1>5, <1>6, <1>7, <1>8 DEF Walked

\* What has no part in the walk may change; who waits may become ready, and who is ready
\* may wait.
LEMMA WalkedAlike ==
  ASSUME NEW x, NEW y, Walked(x),
         y.completed = x.completed, y.results = x.results, y.chosen = x.chosen,
         y.ready \cup Waiters(y) = x.ready \cup Waiters(x)
  PROVE  Walked(y)
<1>1. Due(y) = Due(x) /\ Settled(y) = Settled(x)
  BY DueAlike
<1>2. Entry \in y.completed \cup (y.ready \cup Waiters(y))
  BY DEF Walked
<1>3. QED
  BY <1>1, <1>2 DEF Walked

LEMMA ExecutedWalks ==
  ASSUME NEW x \in Frontiers, Walked(x), NEW n \in x.ready, NEW route \in Routes(n)
  PROVE  Walked(Executed(x, n, route)) /\ Executed(x, n, route).chosen = [x.chosen EXCEPT ![n] = route]
<1> DEFINE y == Executed(x, n, route)
<1>1. n \in Tasks /\ n \notin x.completed /\ x.chosen \in [Tasks -> SUBSET Tasks]
  BY FrontierFields DEF Walked
<1>2. /\ y.ready = x.ready /\ y.completed = x.completed /\ y.results = x.results \cup {n}
      /\ y.waiting = x.waiting /\ y.chosen = [x.chosen EXCEPT ![n] = route]
  BY <1>1 DEF Executed, Frontiers
<1> HIDE DEF y
<1>3. \A k \in Tasks : y.chosen[k] = IF k = n THEN route ELSE x.chosen[k]
  BY <1>1, <1>2
<1>4. \A k : Selected(y, k) <=> Selected(x, k)
  BY <1>1, <1>2, <1>3, FrontierFields DEF Selected
<1>5. \A S : SkippedAfter(y, S) = SkippedAfter(x, S)
  BY <1>2, <1>4 DEF SkippedAfter
<1>6. Skipped(y) = Skipped(x)
  BY <1>5 DEF Skipped
<1>7. Due(y) = Due(x) /\ Settled(y) = Settled(x) /\ Waiters(y) = Waiters(x)
  BY <1>2, <1>4, <1>6 DEF Due, Settled, Waiters
<1>8. \A k \in y.results : y.chosen[k] \in Routes(k)
  BY <1>2, <1>3, FrontierFields DEF Walked
<1>9. Walked(y)
  BY <1>2, <1>7, <1>8 DEF Walked
<1>10. QED
  BY <1>2, <1>9 DEF y

LEMMA InterruptingWalks ==
  ASSUME NEW x \in Frontiers, Walked(x), NEW n \in x.ready, NEW q \in Questions, q[1] = n
  PROVE  Walked(Interrupting(x, n, q))
<1> DEFINE y == Interrupting(x, n, q)
<1>1. /\ y.completed = x.completed /\ y.results = x.results /\ y.chosen = x.chosen
      /\ y.ready = x.ready \ {n} /\ y.waiting = {p \in x.waiting : p[1] # n} \cup {q}
  BY DEF Interrupting, Frontiers
<1> HIDE DEF y
<1>2. y.ready \cup Waiters(y) = x.ready \cup Waiters(x)
  BY <1>1 DEF Waiters
<1>3. QED
  BY <1>1, <1>2, WalkedAlike DEF y

LEMMA BeginWalks == Walked(Begin)
<1>1. /\ Begin.completed = {} /\ Begin.results = {} /\ Begin.ready = {Entry}
      /\ Waiters(Begin) = {}
  BY DEF Begin, Waiters
<1>2. QED
  BY <1>1 DEF Walked
-----------------------------------------------------------------------------
\* What the record keeps when nothing is committed.

\* The facts stay; who holds the run has held it before; inputs may come.
Rests(r, s) ==
  /\ Keeps(r, s) /\ r.fence <= s.fence
  /\ Live(s) => Live(r)
  /\ s.status = "succeeded" <=> r.status = "succeeded"
  /\ \A w \in Workers, f \in Nat :
       f <= r.fence /\ Live(s) /\ Holds(s, w, f) => Holds(r, w, f) /\ s.revision = r.revision
  /\ \A i \in Inputs :
       /\ r.inputs[i].accepted => s.inputs[i] = r.inputs[i]
       /\ s.inputs[i].consumed = 0 \/ s.inputs[i] = r.inputs[i]

LEMMA RestsRun ==
  ASSUME NEW r \in RunRecords
  PROVE  /\ Rests(r, r) /\ Rests(r, Released(r)) /\ Rests(r, Aged(r))
         /\ CancelOK(r) => Rests(r, Cancelled(r))
         /\ \A w, n : ClaimOK(r) => Rests(r, Claimed(r, w, n))
         /\ \A i \in Inputs, x \in Targets \cup {NoTarget} :
              SignalOK(r, i, x) => Rests(r, Signalled(r, i, x))
<1>0. /\ r.fence \in Nat /\ r.lease \in Nat /\ r.revision \in Nat
      /\ r.inputs \in [Inputs -> InboundInputs]
  BY RecordFields
<1>1. Rests(r, r)
  BY <1>0, QuietRun DEF Rests
<1>2. Rests(r, Released(r))
  <2>1. Keeps(r, Released(r)) /\ Released(r).inputs = r.inputs
    BY QuietRun, SchedulingFacts DEF SameFacts
  <2>2. /\ Released(r).fence = r.fence /\ Released(r).lease = 0
        /\ Released(r).status = (IF r.status = "running" THEN "queued" ELSE r.status)
    BY SchedulingFields
  <2>3. QED
    BY <1>0, <2>1, <2>2 DEF Rests, Live, Terminal, Holds
<1>3. Rests(r, Aged(r))
  <2>1. Keeps(r, Aged(r)) /\ Aged(r).inputs = r.inputs
    BY QuietRun, SchedulingFacts DEF SameFacts
  <2>2. /\ Aged(r).fence = r.fence /\ Aged(r).owner = r.owner /\ Aged(r).status = r.status
        /\ Aged(r).lease = (IF r.lease > 0 THEN r.lease - 1 ELSE 0)
        /\ Aged(r).revision = r.revision
    BY SchedulingFields
  <2>3. QED
    BY <1>0, <2>1, <2>2 DEF Rests, Live, Holds
<1>4. ASSUME CancelOK(r) PROVE Rests(r, Cancelled(r))
  <2>1. Keeps(r, Cancelled(r)) /\ Cancelled(r).inputs = r.inputs
    BY QuietRun, SchedulingFacts DEF SameFacts
  <2>2. Cancelled(r).fence = r.fence + 1 /\ Cancelled(r).status = "cancelled"
    BY SchedulingFields
  <2>3. QED
    BY <1>0, <1>4, <2>1, <2>2 DEF Rests, Live, Terminal, CancelOK
<1>5. ASSUME NEW w, NEW n, ClaimOK(r) PROVE Rests(r, Claimed(r, w, n))
  <2>1. Keeps(r, Claimed(r, w, n)) /\ Claimed(r, w, n).inputs = r.inputs
    BY QuietRun, SchedulingFacts DEF SameFacts
  <2>2. Claimed(r, w, n).fence = r.fence + 1 /\ Claimed(r, w, n).status = "running"
    BY SchedulingFields
  <2>3. QED
    BY <1>0, <1>5, <2>1, <2>2 DEF Rests, Live, Terminal, Holds, ClaimOK
<1>6. ASSUME NEW i \in Inputs, NEW x \in Targets \cup {NoTarget}, SignalOK(r, i, x)
      PROVE  Rests(r, Signalled(r, i, x))
  <2> DEFINE s == Signalled(r, i, x)
  <2>1. /\ Keeps(r, s) /\ s.fence = r.fence /\ s.owner = r.owner /\ s.lease = r.lease
        /\ s.revision = r.revision
        /\ s.status = (IF r.status = "waiting" THEN "queued" ELSE r.status)
    BY QuietRun, SignalledFields
  <2>2. s.inputs = [r.inputs EXCEPT ![i] = [accepted |-> TRUE, target |-> x, consumed |-> 0]]
    BY SignalledInputs
  <2> HIDE DEF s
  <2>3. \A j \in Inputs : /\ r.inputs[j].accepted => s.inputs[j] = r.inputs[j]
                          /\ s.inputs[j].consumed = 0 \/ s.inputs[j] = r.inputs[j]
    BY <1>0, <1>6, <2>2 DEF SignalOK
  <2>4. QED
    BY <1>0, <1>6, <2>1, <2>3 DEF Rests, Live, Terminal, Holds, SignalOK, s
<1>7. QED
  BY <1>1, <1>2, <1>3, <1>4, <1>5, <1>6

-----------------------------------------------------------------------------
\* The requests of a session.

\* The parts of a request that no session of a graph fills, or only some do.
LEMMA DraftRest ==
  ASSUME NEW w \in Workers, NEW x
  PROVE  /\ Draft(w, x).consume = {} /\ Draft(w, x).status = "keep"
         /\ \A o \in Operations : Draft(w, x).operations[o] = "absent"
         /\ \A a \in Artifacts : Draft(w, x).artifacts[a] = 0
BY DEF Draft, EmptyRequest

\* What a request of a session does not use, and what it does.
Plainly(q, C, status) ==
  /\ q.consume = C /\ q.status = status
  /\ \A o \in Operations : q.operations[o] = "absent"
  /\ \A a \in Artifacts : q.artifacts[a] = 0

LEMMA StatusPlainly ==
  ASSUME TypeOK, NEW w \in Workers, NEW x \in Frontiers, NEW status \in Statuses
  PROVE  Plainly([Draft(w, x) EXCEPT !.status = status], {}, status)
<1>1. Draft(w, x) \in Requests
  BY DraftFields DEF Sealed
<1>2. QED
  BY <1>1, DraftRest DEF Plainly, Requests

LEMMA ActivationPlainly ==
  ASSUME TypeOK, NEW w \in Workers
  PROVE  Plainly(Activation(w), {i \in Unconsumed(w) : TargetOf(w, i) = NoTarget}, "keep")
<1> DEFINE d == Draft(w, session[w].x)
           C == {i \in Unconsumed(w) : TargetOf(w, i) = NoTarget}
<1>1. d \in Requests
  BY SessionFields, DraftFields DEF Sealed
<1>2. Plainly([d EXCEPT !.activate[Node(w)] = Pinning(w), !.consume = C], C, "keep")
  <2>1. /\ d.status = "keep" /\ \A o \in Operations : d.operations[o] = "absent"
        /\ \A a \in Artifacts : d.artifacts[a] = 0
    BY DraftRest
  <2> HIDE DEF d, C
  <2> QED  BY <1>1, <2>1 DEF Plainly, Requests
<1>3. QED
  BY <1>2 DEF Activation, Activating

Spent(w, x) == {i \in Unconsumed(w) : UsedUp(w, x, i)}

LEMMA PersistPlainly ==
  ASSUME TypeOK, NEW w \in Workers, NEW x \in Frontiers
  PROVE  Plainly(Persisting(w, x), Spent(w, x), "keep")
<1> DEFINE d == Draft(w, x)
           R == [n \in Tasks |-> Saves(w, x, n)]
           A == {n \in x.completed : Adoptable(w, n)}
           C == Spent(w, x)
<1>1. d \in Requests
  BY DraftFields DEF Sealed
<1>2. Plainly([d EXCEPT !.results = R, !.adopt = A, !.consume = C], C, "keep")
  <2>1. /\ d.status = "keep" /\ \A o \in Operations : d.operations[o] = "absent"
        /\ \A a \in Artifacts : d.artifacts[a] = 0
    BY DraftRest
  <2> HIDE DEF d, R, A, C
  <2> QED  BY <1>1, <2>1 DEF Plainly, Requests
<1>3. Persisting(w, x) = [d EXCEPT !.results = R, !.adopt = A, !.consume = C]
  BY DEF Persisting, Saves, OnRecord, Spent
<1>4. QED
  BY <1>2, <1>3

-----------------------------------------------------------------------------
\* When a commit is refused.

\* What a session at work knows that holds the last revision.
LEMMA FreshFacts ==
  ASSUME GraphInv, NEW w \in Workers, session[w].at \in Underway, Fresh(w)
  PROVE  /\ session[w].view.revision = run.revision
         /\ session[w].view.activations = run.activations
         /\ session[w].view.tasks = run.tasks
         /\ \A i \in session[w].given : session[w].view.inputs[i] = run.inputs[i]
         /\ \A i \in session[w].given : run.inputs[i].accepted
         /\ Fits(session[w].x, run.tasks, Unsaved(w), asked)
         /\ session[w].x.results = Pinned.results \cup Unsaved(w)
         /\ \A i \in Unconsumed(w) : Pending(run.inputs[i])
<1>1. /\ session[w].at \notin Resting /\ session[w].at # "reread" /\ Aim(w) = session[w].at
      /\ session[w].view.revision = run.revision /\ TypeOK
  BY DEF Underway, Resting, Aim, Fresh, GraphInv, IInv
<1>2. session[w].view.activations = run.activations /\ session[w].view.tasks = run.tasks
  BY <1>1 DEF GraphInv, IInv, ViewsLag, LagsBehind, Lags
<1>3. \A i \in session[w].given : /\ session[w].view.inputs[i] = run.inputs[i]
                                  /\ run.inputs[i].accepted
  <2>1. Informed(w) /\ session[w].given \subseteq Inputs
    BY <1>1, SessionFields DEF GraphInv, Faithful
  <2>2. QED
    BY <1>1, <2>1 DEF Informed
<1>4. Fits(session[w].x, run.tasks, Unsaved(w), asked)
  BY <1>1, <1>2 DEF GraphInv, IInv, Consistent, Fitting, Reads, Base
<1>5. session[w].x.results = Pinned.results \cup Unsaved(w)
  BY <1>1 DEF GraphInv, Faithful, Follows
<1>6. \A i \in Unconsumed(w) : Pending(run.inputs[i])
  BY <1>3 DEF Unconsumed, Pending
<1>7. QED
  BY <1>1, <1>2, <1>3, <1>4, <1>5, <1>6

\* What the record checks of a request that names no operations or artifacts.
LEMMA PlainFacts ==
  ASSUME NEW r, NEW q, NEW C, NEW status, Plainly(q, C, status),
         \A n \in Tasks : ActivationOK(r, q, n) /\ ResultOK(r, q, n),
         \A n \in q.adopt : AdoptOK(r, q, n), \A i \in C : Pending(r.inputs[i])
  PROVE  FactsOK(r, q)
BY DEF FactsOK, Plainly, ConsumeOK, OperationOK, ArtifactOK

LEMMA EmptyChecks ==
  ASSUME NEW n \in Tasks
  PROVE  EmptyRequest.activate[n].attempt = 0 /\ EmptyRequest.results[n].status = "absent"
BY EmptyFields DEF NoActivation, NoResult

LEMMA StatusChecks ==
  ASSUME TypeOK, NEW w \in Workers, NEW x \in Frontiers, NEW status \in Statuses
  PROVE  FactsOK(run, [Draft(w, x) EXCEPT !.status = status])
<1> DEFINE q == [Draft(w, x) EXCEPT !.status = status]
<1>1. /\ Plainly(q, {}, status) /\ q.activate = EmptyRequest.activate
      /\ q.results = EmptyRequest.results /\ q.adopt = {}
  BY StatusPlainly, StatusFields
<1> HIDE DEF q
<1>2. \A n \in Tasks : ActivationOK(run, q, n) /\ ResultOK(run, q, n)
  BY <1>1, EmptyChecks DEF ActivationOK, ResultOK
<1>3. FactsOK(run, q)
  BY <1>1, <1>2, PlainFacts
<1>4. QED
  BY <1>3 DEF q

LEMMA ActivationChecks ==
  ASSUME GraphInv, NEW w \in Workers, Activate(w), Fresh(w)
  PROVE  FactsOK(run, Activation(w))
<1> DEFINE C == {i \in Unconsumed(w) : TargetOf(w, i) = NoTarget}
           q == Activation(w)
           m == Node(w)
<1>0. TypeOK /\ Positioned /\ run \in RunRecords
  BY DEF GraphInv, IInv, TypeOK
<1>1. /\ q.activate = [EmptyRequest.activate EXCEPT ![m] = Pinning(w)]
      /\ q.results = EmptyRequest.results /\ q.adopt = {} /\ m \in Tasks
      /\ session[w].view.activations[m].attempt = 0
      /\ session[w].at \in Underway /\ Plainly(q, C, "keep")
  BY <1>0, ActivationFields, ActivationPlainly DEF Underway
<1>2. /\ run.activations[m].attempt = 0 /\ Pinning(w).read = run.revision
      /\ \A i \in C : Pending(run.inputs[i])
  BY <1>1, FreshFacts DEF Pinning
<1>3. run.revision \in Nat /\ EmptyRequest.activate \in [Tasks -> Activations]
  BY <1>0, RecordFields, EmptyFields DEF NoActivation, Activations
<1> HIDE DEF q, C, m
<1>4. \A n \in Tasks : n # m => q.activate[n].attempt = 0
  BY <1>1, <1>3, EmptyChecks
<1>5. \A n \in Tasks : ActivationOK(run, q, n)
  BY <1>1, <1>2, <1>3, <1>4 DEF ActivationOK
<1>6. \A n \in Tasks : ResultOK(run, q, n)
  BY <1>1, EmptyChecks DEF ResultOK
<1>7. FactsOK(run, q)
  BY <1>1, <1>2, <1>5, <1>6, PlainFacts
<1>8. QED
  BY <1>7 DEF q

\* The nodes a session saves, and the one it adopts.
Savers(w, x) ==
  \/ session[w].at = "loop" /\ session[w].x.ready # {} /\ Known(w) /\ x = Completing(session[w].x, Node(w))
  \/ session[w].at \in {"loop", "save", "failing"} /\ x = session[w].x

LEMMA SaversFacts ==
  ASSUME GraphInv, NEW w \in Workers, NEW x, Savers(w, x)
  PROVE  /\ x \in Frontiers /\ x.results = session[w].x.results /\ session[w].at \in Underway
         /\ x # session[w].x => /\ session[w].at = "loop" /\ Known(w)
                                /\ Node(w) \in session[w].x.ready
                                /\ Completes(session[w].x, Node(w), x)
         /\ \A n \in x.completed \ session[w].x.completed : n = Node(w) /\ x # session[w].x
<1>1. session[w].x \in Frontiers /\ Walked(session[w].x) /\ TypeOK /\ Positioned
  BY SessionFields DEF GraphInv, Faithful, IInv
<1>2. CASE x = session[w].x
  <2>1. session[w].at \in Underway
    BY DEF Savers, Underway
  <2>2. QED
    BY <1>1, <1>2, <2>1
<1>3. CASE x # session[w].x
  <2>1. /\ session[w].at = "loop" /\ session[w].x.ready # {} /\ Known(w)
        /\ x = Completing(session[w].x, Node(w))
    BY <1>3 DEF Savers
  <2>2. Node(w) \in session[w].x.ready
    BY <1>1, <2>1, WorkingNode
  <2>3. Completes(session[w].x, Node(w), x)
    BY <1>1, <2>1, <2>2, CompletingCompletes DEF Known
  <2>4. QED
    BY <1>3, <2>1, <2>2, <2>3 DEF Completes, Underway
<1>4. QED
  BY <1>2, <1>3

LEMMA PersistChecks ==
  ASSUME GraphInv, NEW w \in Workers, NEW x, Savers(w, x), Fresh(w)
  PROVE  \/ FactsOK(run, Persisting(w, x))
         \/ \E n \in Tasks : n \in Pinned.results /\ run.tasks[n].status = "failed"
<1> SUFFICES ASSUME \A n \in Tasks : ~(n \in Pinned.results /\ run.tasks[n].status = "failed")
             PROVE  FactsOK(run, Persisting(w, x))
  OBVIOUS
<1> DEFINE q == Persisting(w, x)
<1>0. /\ TypeOK /\ Positioned /\ x \in Frontiers /\ session[w].at \in Underway
      /\ x.results = session[w].x.results /\ run.tasks \in [Tasks -> Results]
  BY SaversFacts, RecordFields DEF GraphInv, IInv, TypeOK
<1>1. /\ q.activate = EmptyRequest.activate /\ q.results = [n \in Tasks |-> Saves(w, x, n)]
      /\ q.adopt = {n \in x.completed : session[w].view.tasks[n].adopted = 0}
      /\ Plainly(q, Spent(w, x), "keep")
  BY <1>0, PersistFields, PersistPlainly
<1>2. /\ session[w].view.activations = run.activations /\ session[w].view.tasks = run.tasks
      /\ session[w].x.results = Pinned.results \cup Unsaved(w)
      /\ Fits(session[w].x, run.tasks, Unsaved(w), asked)
      /\ \A i \in Spent(w, x) : Pending(run.inputs[i])
  BY <1>0, FreshFacts DEF Spent
<1> HIDE DEF q
<1>3. \A n \in Tasks : ActivationOK(run, q, n)
  BY <1>1, EmptyChecks DEF ActivationOK
<1>4. ASSUME NEW n \in Tasks, Saves(w, x, n).status # "absent"
      PROVE  /\ Saves(w, x, n) = ResultOf(w, n, Saves(w, x, n).status)
             /\ ~OnRecord(run, n) /\ run.activations[n].attempt # 0
  <2>1. /\ n \in x.results \/ n \in session[w].failed
        /\ ~OnRecord(run, n) /\ Saves(w, x, n) = ResultOf(w, n, Saves(w, x, n).status)
    BY <1>2, <1>4 DEF Saves, OnRecord, NoResult, ResultOf
  <2>2. ran[n] > 0
    BY <1>0, <2>1 DEF GraphInv, IInv, Witnessed, Attests, Earned
  <2>3. QED
    BY <2>1, <2>2 DEF GraphInv, Recorded
<1>5. ASSUME NEW n \in Tasks PROVE ResultOK(run, q, n)
  <2>1. SUFFICES ASSUME Saves(w, x, n).status # "absent" PROVE ResultOK(run, q, n)
    BY <1>1 DEF ResultOK
  <2>2. /\ q.results[n] = ResultOf(w, n, Saves(w, x, n).status)
        /\ ~OnRecord(run, n) /\ run.activations[n].attempt # 0
    BY <1>1, <1>4, <2>1
  <2>3. Activated(run, q)[n] = run.activations[n]
    BY <1>1, EmptyChecks DEF Activated
  <2>4. QED
    BY <1>2, <2>2, <2>3 DEF ResultOK, ResultOf, OnRecord
<1>6. ASSUME NEW n \in q.adopt PROVE AdoptOK(run, q, n)
  <2>1. n \in Tasks /\ n \in x.completed /\ run.tasks[n].adopted = 0
    BY <1>0, <1>1, <1>2, <1>6, FrontierFields
  <2>2. n \notin session[w].x.completed
    BY <1>2, <2>1 DEF Fits, FitsAt
  <2>3. n = Node(w) /\ session[w].at = "loop" /\ n \in session[w].x.results
    BY <2>1, <2>2, SaversFacts DEF Known
  <2>4. run.tasks[n].status # "failed"
    BY <1>2, <2>1, <2>3 DEF Unsaved
  <2>5. run.tasks[n].status \in {"absent", "succeeded"}
    BY <2>1, <2>4 DEF GraphInv, Recorded
  <2>6. ~OnRecord(run, n) => q.results[n].status = "succeeded" /\ q.results[n].adopted = 0
    BY <1>0, <1>1, <1>2, <2>1, <2>3 DEF Saves, OnRecord, ResultOf
  <2>7. QED
    BY <2>1, <2>5, <2>6 DEF AdoptOK, Saved, OnRecord
<1>7. FactsOK(run, q)
  BY <1>1, <1>2, <1>3, <1>5, <1>6, PlainFacts
<1>8. QED
  BY <1>7 DEF q

\* A request of a session that has not lost the run is refused for a fact alone.
LEMMA RefusedLost ==
  ASSUME GraphInv, NEW w \in Workers, session[w].at \in Underway, NEW q, Sealed(w, q),
         ~CommitOK(run, q),
         Fresh(w) => \/ FactsOK(run, q)
                     \/ \E n \in Tasks : n \in Pinned.results /\ run.tasks[n].status = "failed"
  PROVE  Lost(w)
<1> SUFFICES ASSUME Live(run), Holds(run, w, session[w].fence), FactsOK(run, q) \/ ~Fresh(w)
             PROVE  FALSE
  BY DEF Lost
<1>1. Fresh(w)
  BY DEF GraphInv, Faithful, Authority
<1>2. run.revision = q.expected
  BY <1>1 DEF Fresh, Sealed, Underway
<1>3. q.owner = w /\ w # NoOwner /\ q.fence = session[w].fence
  BY IdentityAssumption DEF Sealed
<1>4. QED
  BY <1>1, <1>2, <1>3 DEF CommitOK, Live

-----------------------------------------------------------------------------
(***************************************************************************)
(* The kinds of steps, with all they do to a frontier and to the inputs.   *)
(***************************************************************************)

\* A session that has ended, with reason if it gave the run up.
Gone(w) ==
  /\ Blank(session'[w]) /\ session'[w].fence <= run'.fence
  /\ session'[w].at = "lost" => Lost(w)'

Calm ==
  /\ Rests(run, run') /\ asked' = asked /\ ran' = ran
  /\ \A w \in Workers : Same(w) \/ Gone(w)

Turns(w) ==
  /\ run' = run /\ Others(w)
  /\ session'[w].fence = session[w].fence
  /\ session'[w].next \in {session[w].next, "none"}
Works(w) ==
  Turns(w) /\ session'[w].view = session[w].view /\ session'[w].given = session[w].given

Answered1(given) == {run.inputs[i].target : i \in given} \ {NoTarget}
Loading(w) ==
  /\ Turns(w) /\ asked' = asked /\ ran' = ran
  /\ session'[w].at = "loop" /\ session'[w].view = run
  /\ \A i \in session'[w].given : i \in Inputs /\ Pending(run.inputs[i])
  /\ Answered1(session'[w].given) \subseteq Pinned.waiting
  /\ session'[w].x =
       [Pinned EXCEPT !.ready = @ \cup {q[1] : q \in Answered1(session'[w].given)}]

Rereading(w) ==
  /\ session[w].at = "reread" /\ Confirmed(w)
  /\ Turns(w) /\ asked' = asked /\ ran' = ran
  /\ session'[w].at = session[w].next /\ session'[w].view = run
  /\ session'[w].x = session[w].x /\ session'[w].given = session[w].given

Walking(w) ==
  /\ Works(w) /\ asked' = asked /\ ran' = ran
  /\ session[w].at = "loop" /\ session'[w].x = session[w].x
  /\ \/ session'[w].at = "executing" /\ session[w].x.ready # {} /\ Dispatched(w)
     \/ session'[w].at = "failing"

Succeeding(w) ==
  /\ Works(w) /\ Runs1(w) /\ asked' = asked /\ session'[w].at = "save"
  /\ \E route \in Routes(Node(w)) : session'[w].x = Executed(session[w].x, Node(w), route)

Questioning(w) ==
  /\ Works(w) /\ Runs1(w) /\ asked' = [asked EXCEPT ![Node(w)] = @ + 1]
  /\ session'[w].at = "loop"
  /\ <<Node(w), asked[Node(w)] + 1>> \in Questions
  /\ session'[w].x = Interrupting(session[w].x, Node(w), <<Node(w), asked[Node(w)] + 1>>)

Failing(w) ==
  /\ Works(w) /\ Runs1(w) /\ asked' = asked
  /\ session'[w].at = "failing" /\ session'[w].x = session[w].x

\* What a commit uses up.
Spends(C) ==
  \A i \in Inputs : run'.inputs[i] =
    IF i \in C THEN [run.inputs[i] EXCEPT !.consumed = run.revision + 1] ELSE run.inputs[i]
Ending(w) ==
  /\ session[w].at = "loop" /\ session[w].x.ready = {} /\ session[w].x.waiting = {}
  /\ ~Stalled(session[w].x)

Notices(w) == {i \in Unconsumed(w) : TargetOf(w, i) = NoTarget}
Pinning1(w) == Activates(w) /\ Spends(Notices(w)) /\ run'.status # "succeeded"
Saving(w) ==
  /\ run'.status # "succeeded"
  /\ \E x, next : Savers(w, x) /\ Persists(w, x, next) /\ Spends(Spent(w, x))
Declaring(w) == Declares(w) /\ Spends({}) /\ (run'.status = "succeeded" => Ending(w))
Committing(w) ==
  asked' = asked /\ ran' = ran /\ (Pinning1(w) \/ Saving(w) \/ Declaring(w))

Doing(w) ==
  \/ Loading(w) \/ Rereading(w) \/ Walking(w)
  \/ Succeeding(w) \/ Questioning(w) \/ Failing(w) \/ Committing(w)

GraphSteps == Calm \/ \E w \in Workers : Doing(w)

LEMMA LeavesCalmly ==
  ASSUME GraphInv, NEW w \in Workers, session[w].at # "idle", run' = run,
         asked' = asked, ran' = ran,
         NEW place \in Resting, Leaves(w, place), place = "lost" => Lost(w)
  PROVE  Calm
<1>0. TypeOK /\ Positioned /\ run \in RunRecords /\ session \in [Workers -> Sessions]
  BY DEF GraphInv, IInv, TypeOK
<1>1. Blank(session'[w]) /\ Others(w)
  BY <1>0, LeavesFields
<1>2. session'[w] = [Idle EXCEPT !.at = place, !.fence = session[w].fence]
  BY <1>0 DEF Leaves, Becomes
<1>3. session'[w].at = place /\ session'[w].fence = session[w].fence
  BY <1>2 DEF Idle
<1>4. session[w].fence <= run.fence
  BY DEF GraphInv, Faithful, Authority
<1>5. Pinned' = Pinned
  BY DEF Pinned
<1>6. Gone(w)
  BY <1>1, <1>3, <1>4, <1>5 DEF Gone, Lost
<1>7. Rests(run, run')
  BY <1>0, RestsRun
<1>8. QED
  BY <1>1, <1>6, <1>7 DEF Calm, Others, Same

\* A commit is applied, or the session ends.
LEMMA CommitKinds ==
  ASSUME GraphInv, NEW w \in Workers, session[w].at \in Underway, NEW q, NEW next,
         Sealed(w, q), Commit(w, q, next), asked' = asked, ran' = ran,
         Fresh(w) => \/ FactsOK(run, q)
                     \/ \E n \in Tasks : n \in Pinned.results /\ run.tasks[n].status = "failed"
  PROVE  Calm \/ Applies(w, q, next)
<1>1. session[w].at # "idle" /\ "stop" \in Resting /\ "lost" \in Resting
  BY DEF Underway, Resting
<1>2. CASE run' = run /\ Leaves(w, "stop")
  BY <1>1, <1>2, LeavesCalmly
<1>3. CASE run' = run /\ Leaves(w, "lost") /\ ~CommitOK(run, q)
  BY <1>1, <1>3, LeavesCalmly, RefusedLost
<1>4. CASE /\ CommitOK(run, q) /\ run' = Committed(run, q)
           /\ Becomes(w, [session[w] EXCEPT !.at = "reread", !.next = next, !.x = q.snapshot])
  BY <1>4 DEF Applies, Becomes
<1>5. QED
  BY <1>2, <1>3, <1>4 DEF Commit

\* What a commit uses up, and when it declares success.
LEMMA AppliedSpends ==
  ASSUME TypeOK, NEW w \in Workers, NEW q, NEW next, Sealed(w, q), Applies(w, q, next),
         NEW C, NEW status, Plainly(q, C, status)
  PROVE  Spends(C) /\ (run'.status = "succeeded" => status = "succeeded")
<1>1. run'.inputs = Consumed(run, q) /\ run'.status = NextStatus(run, q)
  BY DEF Applies, Committed
<1>2. q.consume = C /\ q.status = status
  BY DEF Plainly
<1>3. Spends(C)
  BY <1>1, <1>2 DEF Consumed, Spends
<1>4. run.status # "succeeded"
  BY DEF Applies, CommitOK, Live, Terminal
<1>5. run'.status = "succeeded" => status = "succeeded"
  BY <1>1, <1>2, <1>4 DEF NextStatus, RequestedStatus
<1>6. QED
  BY <1>3, <1>5

LEMMA SavingKind ==
  ASSUME GraphInv, NEW w \in Workers, NEW x, NEW next \in {"loop", "park", "fail"},
         Savers(w, x),
         \/ /\ session[w].at = "loop" /\ session[w].x.ready # {} /\ Known(w) /\ next = "loop"
            /\ x = Completing(session[w].x, Node(w))
         \/ session[w].at = "save" /\ next = "loop" /\ x = session[w].x
         \/ session[w].at \in {"loop", "failing"} /\ next \in {"park", "fail"} /\ x = session[w].x,
         Commit(w, Persisting(w, x), next), asked' = asked, ran' = ran
  PROVE  Calm \/ Committing(w)
<1>1. /\ x \in Frontiers /\ session[w].at \in Underway /\ TypeOK /\ ViewsLag
      /\ Sealed(w, Persisting(w, x)) /\ Plainly(Persisting(w, x), Spent(w, x), "keep")
  BY SaversFacts, PersistFields, PersistPlainly DEF GraphInv, IInv
<1>2. Calm \/ Applies(w, Persisting(w, x), next)
  BY <1>1, PersistChecks, CommitKinds
<1>3. ASSUME Applies(w, Persisting(w, x), next) PROVE Committing(w)
  <2>1. Persists(w, x, next)
    BY <1>1, <1>3, PersistApplied
  <2>2. Spends(Spent(w, x)) /\ run'.status # "succeeded"
    BY <1>1, <1>3, AppliedSpends
  <2>3. QED
    BY <2>1, <2>2 DEF Committing, Saving
<1>4. QED
  BY <1>2, <1>3

LEMMA DeclaringKind ==
  ASSUME GraphInv, NEW w \in Workers, NEW status \in Statuses,
         session[w].at \in {"loop", "park", "fail"},
         Commit(w, [Draft(w, session[w].x) EXCEPT !.status = status], "stop"),
         asked' = asked, ran' = ran, status = "succeeded" => Ending(w)
  PROVE  Calm \/ Committing(w)
<1> DEFINE q == [Draft(w, session[w].x) EXCEPT !.status = status]
<1>1. /\ session[w].x \in Frontiers /\ session[w].at \in Underway /\ TypeOK
      /\ Sealed(w, q) /\ Plainly(q, {}, status) /\ FactsOK(run, q)
  BY SessionFields, StatusFields, StatusPlainly, StatusChecks DEF GraphInv, IInv, Underway
<1>2. Calm \/ Applies(w, q, "stop")
  <2> HIDE DEF q
  <2>1. Commit(w, q, "stop")
    BY DEF q
  <2>2. QED
    BY <1>1, <2>1, CommitKinds
<1>3. ASSUME Applies(w, q, "stop") PROVE Committing(w)
  <2>1. Declares(w)
    BY <1>1, <1>3, DeclareApplied
  <2>2. Spends({}) /\ (run'.status = "succeeded" => status = "succeeded")
    <3> HIDE DEF q
    <3> QED  BY <1>1, <1>3, AppliedSpends
  <2>3. QED
    BY <2>1, <2>2 DEF Committing, Declaring
<1>4. QED
  BY <1>2, <1>3

LEMMA PinningKind ==
  ASSUME GraphInv, NEW w \in Workers, Activate(w)
  PROVE  Calm \/ Committing(w)
<1>1. TypeOK /\ Positioned /\ ViewsLag /\ asked' = asked /\ ran' = ran
  BY DEF GraphInv, IInv, Activate
<1>2. /\ session[w].at \in Underway /\ Commit(w, Activation(w), "executing")
      /\ Sealed(w, Activation(w)) /\ Plainly(Activation(w), Notices(w), "keep")
  BY <1>1, ActivationFields, ActivationPlainly DEF Underway, Notices
<1>3. Calm \/ Applies(w, Activation(w), "executing")
  BY <1>1, <1>2, ActivationChecks, CommitKinds
<1>4. ASSUME Applies(w, Activation(w), "executing") PROVE Committing(w)
  <2>1. Activates(w)
    BY <1>1, <1>4, ActivateApplied
  <2>2. Spends(Notices(w)) /\ run'.status # "succeeded"
    BY <1>1, <1>2, <1>4, AppliedSpends
  <2>3. QED
    BY <1>1, <2>1, <2>2 DEF Committing, Pinning1
<1>5. QED
  BY <1>3, <1>4

LEMMA HostKinds ==
  ASSUME GraphInv,
         \/ \E i \in Inputs \ {Ingress}, target \in Targets \cup {NoTarget} : Signal(i, target)
         \/ Cancel \/ Expire
  PROVE  Calm
<1>1. /\ run \in RunRecords /\ session' = session /\ asked' = asked /\ ran' = ran
  BY DEF GraphInv, IInv, TypeOK, Signal, Cancel, Expire
<1>2. Rests(run, run')
  BY <1>1, RestsRun DEF Signal, Cancel, Expire
<1>3. QED
  BY <1>1, <1>2 DEF Calm, Same

LEMMA StandingKinds ==
  ASSUME GraphInv, NEW w \in Workers,
         \/ Claim(w) \/ TurnedAway(w) \/ Leave(w) \/ GiveUp(w)
         \/ Release(w) \/ Interrupt(w) \/ Crash(w)
  PROVE  Calm
<1>0. /\ TypeOK /\ Positioned /\ run \in RunRecords /\ asked' = asked /\ ran' = ran
      /\ session \in [Workers -> Sessions] /\ run.fence \in Nat
  BY RecordFields
     DEF GraphInv, IInv, TypeOK, Claim, TurnedAway, Leave, GiveUp, Release, Interrupt, Crash
<1>1. Rests(run, run) /\ Blank(Idle) /\ Idle.fence = 0 /\ Idle.at = "idle"
  BY <1>0, RestsRun, BeginFields, AbsentRunType
     DEF Blank, Idle, Sessions, Places, Resting
<1>2. CASE Claim(w)
  <2> DEFINE f == run.fence + 1
             s == [Idle EXCEPT !.at = "claimed", !.fence = f]
  <2>1. f \in Nat /\ f # 0 /\ "claimed" \in Resting /\ run' = Claimed(run, w, 1)
    BY <1>0, <1>2 DEF Claim, Resting
  <2>2. Blank(s) /\ s.at = "claimed" /\ s.fence = f
    <3> HIDE DEF f
    <3> QED  BY <2>1, BlankFields DEF Idle
  <2>3. session' = [session EXCEPT ![w] = s]
    BY <1>2 DEF Claim, Becomes
  <2>4. Rests(run, run') /\ run'.fence = f
    BY <1>0, <1>2, <2>1, RestsRun, SchedulingFields DEF Claim
  <2>5. Gone(w)
    <3> HIDE DEF s, f
    <3>1. session'[w] = s
      BY <1>0, <2>3
    <3>2. f <= run'.fence
      BY <2>1, <2>4
    <3>3. QED
      BY <2>2, <3>1, <3>2 DEF Gone
  <2>6. QED
    BY <1>0, <2>3, <2>4, <2>5 DEF Calm, Same
<1>3. CASE TurnedAway(w) \/ Leave(w) \/ GiveUp(w)
  <2>1. /\ run' = run /\ session[w].at # "idle"
        /\ \E place \in Resting \ {"lost"} : Leaves(w, place)
    BY <1>3 DEF TurnedAway, Leave, GiveUp, Turn, Resting
  <2>2. QED
    BY <1>0, <2>1, LeavesCalmly
<1>4. CASE Release(w) \/ Crash(w)
  <2>1. session' = [session EXCEPT ![w] = Idle]
    BY <1>4 DEF Release, Crash, Becomes
  <2>2. Rests(run, run')
    BY <1>0, <1>1, <1>4, RestsRun DEF Release, Crash
  <2>3. run'.fence \in Nat /\ 0 <= run'.fence
    BY <1>0, <1>4, SchedulingFields DEF Release, Crash
  <2>4. Gone(w)
    BY <1>0, <1>1, <2>1, <2>3 DEF Gone
  <2>5. QED
    BY <1>0, <2>1, <2>2, <2>4 DEF Calm, Same
<1>5. CASE Interrupt(w)
  <2>1. \A v \in Workers : Same(v)
    BY <1>0, <1>5 DEF Interrupt, Same, Sessions
  <2>2. QED
    BY <1>0, <1>1, <1>5, <2>1 DEF Calm, Interrupt
<1>6. QED
  BY <1>2, <1>3, <1>4, <1>5

LEMMA LoadKinds ==
  ASSUME GraphInv, NEW w \in Workers, Load(w)
  PROVE  Calm \/ Loading(w)
<1>0. /\ TypeOK /\ session \in [Workers -> Sessions] /\ session[w] \in Sessions
      /\ session[w].at = "claimed" /\ run' = run /\ asked' = asked /\ ran' = ran
  BY SessionFields DEF GraphInv, IInv, TypeOK, Load
<1> DEFINE y(given) == [Pinned EXCEPT !.ready = @ \cup {q[1] : q \in Answered1(given)}]
           R == {n \in Tasks : run.activations[n].attempt # 0}
           s(given) == [session[w] EXCEPT
              !.at = "loop", !.view = run, !.given = given, !.restored = R, !.x = y(given)]
<1>1. PICK given \in SUBSET {i \in Inputs : Pending(run.inputs[i])} :
        IF Answered1(given) \subseteq Pinned.waiting
        THEN Becomes(w, s(given)) ELSE Leaves(w, "stop")
  BY DEF Load, Pinned, Answered1
<1>2. CASE Leaves(w, "stop")
  BY <1>0, <1>2, LeavesCalmly DEF Resting
<1>3. CASE Answered1(given) \subseteq Pinned.waiting /\ Becomes(w, s(given))
  <2> DEFINE Y == y(given)
             t == [session[w] EXCEPT
                     !.at = "loop", !.view = run, !.given = given, !.restored = R, !.x = Y]
  <2>1. session' = [session EXCEPT ![w] = t]
    BY <1>3 DEF Becomes
  <2>2. /\ t.at = "loop" /\ t.view = run /\ t.given = given /\ t.x = Y
        /\ t.fence = session[w].fence /\ t.next = session[w].next
    <3> HIDE DEF Y, R
    <3> QED  BY <1>0 DEF Sessions
  <2> HIDE DEF t, Y
  <2>3. session'[w] = t /\ Others(w)
    BY <1>0, <2>1 DEF Others
  <2>4. QED
    BY <1>0, <1>1, <1>3, <2>2, <2>3 DEF Loading, Turns, Y
<1>4. QED
  BY <1>1, <1>2, <1>3

LEMMA RereadKinds ==
  ASSUME GraphInv, NEW w \in Workers, Reread(w)
  PROVE  Calm \/ Rereading(w)
<1>0. /\ TypeOK /\ session \in [Workers -> Sessions] /\ session[w] \in Sessions
      /\ session[w].at = "reread" /\ run' = run /\ asked' = asked /\ ran' = ran
  BY SessionFields DEF GraphInv, IInv, TypeOK, Reread
<1>1. "stop" \in Resting /\ "lost" \in Resting
  BY DEF Resting
<1>2. CASE Leaves(w, "stop")
  BY <1>0, <1>1, <1>2, LeavesCalmly
<1>3. CASE Leaves(w, "lost") /\ ~Confirmed(w)
  <2>1. Lost(w)
    BY <1>0, <1>3 DEF GraphInv, Faithful, Authority, Lost, Fresh
  <2>2. QED
    BY <1>0, <1>1, <1>3, <2>1, LeavesCalmly
<1>4. CASE /\ Confirmed(w)
           /\ Becomes(w, [session[w] EXCEPT !.at = session[w].next, !.next = "none", !.view = run])
  BY <1>0, <1>4 DEF Rereading, Turns, Others, Becomes, Sessions
<1>5. QED
  BY <1>2, <1>3, <1>4 DEF Reread

LEMMA WalkKinds ==
  ASSUME GraphInv, NEW w \in Workers,
         \/ Redispatch(w)
         \/ /\ session[w].at = "loop" /\ Goes(w, "failing")
            /\ UNCHANGED <<run, asked, ran, faults>>
  PROVE  Walking(w)
<1>1. /\ session \in [Workers -> Sessions] /\ session[w] \in Sessions
      /\ session[w].at = "loop" /\ run' = run /\ asked' = asked /\ ran' = ran
  BY DEF GraphInv, IInv, TypeOK, Redispatch, Turn
<1>2. ASSUME NEW place, Goes(w, place) PROVE Works(w) /\ session'[w].at = place /\ session'[w].x = session[w].x
  BY <1>1, <1>2 DEF Goes, Works, Turns, Others, Sessions
<1>3. CASE Redispatch(w)
  BY <1>1, <1>2, <1>3 DEF Redispatch, Turn, Walking
<1>4. CASE Goes(w, "failing")
  BY <1>1, <1>2, <1>4 DEF Walking
<1>5. QED
  BY <1>3, <1>4

LEMMA ExecutionKinds ==
  ASSUME GraphInv, NEW w \in Workers, Succeed(w) \/ Ask(w) \/ Fail(w)
  PROVE  Succeeding(w) \/ Questioning(w) \/ Failing(w)
<1> DEFINE n == Node(w)
<1>1. /\ session \in [Workers -> Sessions] /\ session[w] \in Sessions
      /\ session[w].at = "executing" /\ run' = run /\ ran' = [ran EXCEPT ![n] = @ + 1]
  BY DEF GraphInv, IInv, TypeOK, Succeed, Ask, Fail, Runs
<1>2. n \in Tasks /\ asked[n] \in Nat /\ MaxAsks \in Nat
  <2>1. TypeOK /\ Positioned
    BY DEF GraphInv, IInv
  <2>2. n \in Tasks
    BY <1>1, <2>1, WorkingNode DEF Aim
  <2>3. QED
    BY <2>1, <2>2, PlanFacts DEF TypeOK
<1> HIDE DEF n
<1>3. ASSUME NEW place, NEW y, Becomes(w, [session[w] EXCEPT !.at = place, !.x = y])
      PROVE  Works(w) /\ Runs1(w) /\ session'[w].at = place /\ session'[w].x = y
  BY <1>1, <1>3 DEF Becomes, Works, Turns, Others, Sessions, Runs1, n
<1>4. CASE Succeed(w)
  <2>1. PICK route \in Routes(n) :
          Becomes(w, [session[w] EXCEPT !.at = "save", !.x = Executed(session[w].x, n, route)])
    BY <1>1, <1>4 DEF Succeed, n
  <2>2. QED
    BY <1>3, <1>4, <2>1 DEF Succeed, Succeeding, n
<1>5. CASE Ask(w)
  <2> DEFINE q == <<n, asked[n] + 1>>
             y == Interrupting(session[w].x, n, q)
  <2>1. /\ Becomes(w, [session[w] EXCEPT !.at = "loop", !.x = y])
        /\ n \in Asking /\ asked[n] < MaxAsks /\ asked' = [asked EXCEPT ![n] = @ + 1]
    BY <1>1, <1>5 DEF Ask, n
  <2>2. q \in Questions
    BY <1>2, <2>1 DEF Questions
  <2>3. Works(w) /\ Runs1(w) /\ session'[w].at = "loop" /\ session'[w].x = y
    <3> HIDE DEF y, q
    <3> QED  BY <1>3, <2>1
  <2>4. QED
    BY <2>1, <2>2, <2>3 DEF Questioning, n
<1>6. CASE Fail(w)
  BY <1>1, <1>6 DEF Fail, Failing, Becomes, Works, Turns, Others, Sessions, Runs1, n
<1>7. QED
  BY <1>4, <1>5, <1>6

LEMMA CommitActions ==
  ASSUME GraphInv, NEW w \in Workers,
         Adopt(w) \/ Save(w) \/ Finish(w) \/ Park(w) \/ NoteFailure(w) \/ FailRun(w)
  PROVE  Calm \/ Walking(w) \/ Committing(w)
<1>0. asked' = asked /\ ran' = ran
  BY DEF Adopt, Save, Finish, Park, NoteFailure, FailRun
<1>1. CASE Adopt(w)
  BY <1>0, <1>1, SavingKind DEF Adopt, Turn, Savers
<1>2. CASE Save(w)
  BY <1>0, <1>2, SavingKind DEF Save, Savers
<1>3. CASE NoteFailure(w)
  BY <1>0, <1>3, SavingKind DEF NoteFailure, Savers
<1>4. {"waiting", "failed", "succeeded"} \subseteq Statuses
  BY DEF Statuses, Terminal
<1>5. CASE Park(w) \/ FailRun(w)
  BY <1>0, <1>4, <1>5, DeclaringKind DEF Park, FailRun
<1>6. CASE Finish(w)
  <2>1. session[w].at = "loop" /\ session[w].x.ready = {}
    BY <1>6 DEF Finish, Done
  <2>2. CASE Commit(w, Persisting(w, session[w].x), "park")
    BY <1>0, <2>1, <2>2, SavingKind DEF Savers
  <2>3. CASE Goes(w, "failing") /\ UNCHANGED <<run, faults>>
    BY <1>0, <2>1, <2>3, WalkKinds
  <2>4. CASE /\ session[w].x.waiting = {} /\ ~Stalled(session[w].x)
             /\ Commit(w, [Draft(w, session[w].x) EXCEPT !.status = "succeeded"], "stop")
    BY <1>0, <1>4, <2>1, <2>4, DeclaringKind DEF Ending
  <2>5. QED
    BY <1>6, <2>2, <2>3, <2>4 DEF Finish
<1>7. QED
  BY <1>1, <1>2, <1>3, <1>5, <1>6

LEMMA GraphKinds ==
  ASSUME GraphInv, Next
  PROVE  GraphSteps
<1>1. ASSUME NEW w \in Workers, Claim(w) \/ TurnedAway(w) \/ Leave(w) \/ GiveUp(w)
                                \/ Release(w) \/ Interrupt(w) \/ Crash(w)
      PROVE  Calm
  BY <1>1, StandingKinds
<1>2. ASSUME NEW w \in Workers,
             \/ Load(w) \/ Reread(w) \/ Redispatch(w) \/ Succeed(w) \/ Ask(w) \/ Fail(w)
             \/ Adopt(w) \/ Activate(w) \/ Save(w) \/ Finish(w) \/ Park(w) \/ NoteFailure(w)
             \/ FailRun(w)
      PROVE  Calm \/ Doing(w)
  BY <1>2, LoadKinds, RereadKinds, WalkKinds, ExecutionKinds, CommitActions, PinningKind
     DEF Doing
<1>3. QED
  BY <1>1, <1>2, HostKinds DEF Next, GraphSteps

-----------------------------------------------------------------------------
\* What the commits have in common.

Commits(w, x, next) ==
  /\ Pins(w, x, next) /\ asked' = asked /\ ran' = ran
  /\ session[w].at \in Underway /\ Fresh(w)
  /\ next \in {"executing", "loop", "park", "fail", "stop"}
  /\ \/ x = session[w].x
     \/ session[w].at = "loop" /\ Completes(session[w].x, Node(w), x)
  /\ \A n \in Tasks :
       /\ run.activations[n].attempt # 0 => run'.activations[n].attempt # 0
       /\ run'.tasks[n].status \in {"absent", "succeeded", "failed"}
       /\ OnRecord(run, n) => run'.tasks[n].status = run.tasks[n].status
       /\ run.tasks[n].adopted # 0 => run'.tasks[n].adopted = run.tasks[n].adopted
       /\ n \in x.completed \ session[w].x.completed => run'.tasks[n].adopted = run.revision + 1
  /\ next = "executing" => x = session[w].x /\ run'.activations[Node(w)].attempt # 0
  /\ run'.status = "succeeded" => x = session[w].x /\ Ending(w)
  /\ \E C \in SUBSET session[w].given :
       /\ Spends(C)
       /\ \A i \in C : Pending(run.inputs[i]) /\ run.inputs[i].target \notin x.waiting
       /\ \A i \in session[w].given \ C :
            Pending(run.inputs[i]) /\ x # session[w].x =>
              run.inputs[i].target \in x.waiting \cup {NoTarget}

LEMMA SpendsFields ==
  ASSUME run \in RunRecords, NEW C, Spends(C), NEW i \in Inputs
  PROVE  /\ run'.inputs[i].accepted = run.inputs[i].accepted
         /\ run'.inputs[i].target = run.inputs[i].target
         /\ run'.inputs[i].consumed = IF i \in C THEN run.revision + 1 ELSE run.inputs[i].consumed
         /\ i \notin C => run'.inputs[i] = run.inputs[i]
<1>1. run.inputs[i] \in InboundInputs
  BY RecordFields
<1>2. run'.inputs[i] = IF i \in C THEN [run.inputs[i] EXCEPT !.consumed = run.revision + 1]
                       ELSE run.inputs[i]
  BY DEF Spends
<1>3. QED
  BY <1>1, <1>2 DEF InboundInputs

LEMMA CommitView ==
  ASSUME GraphInv, NEW w \in Workers, NEW x, NEW next, Pins(w, x, next),
         session[w].at \in Underway
  PROVE  /\ Fresh(w) /\ session[w].x \in Frontiers /\ x \in Frontiers
         /\ Fits(session[w].x, run.tasks, Unsaved(w), asked)
         /\ \A i \in session[w].given : /\ session[w].view.inputs[i] = run.inputs[i]
                                        /\ i \in Inputs /\ run.inputs[i].accepted
<1>1. Fresh(w)
  BY DEF Pins, Fresh, Underway
<1>2. QED
  BY <1>1, FreshFacts, SessionFields DEF Pins, GraphInv, IInv

\* No commit but a declared end is of a target that is waited for.
LEMMA NoTargetWaits ==
  ASSUME NEW x \in Frontiers
  PROVE  NoTarget \notin x.waiting
BY IdentityAssumption, PlanFacts DEF Frontiers

LEMMA PinningCommits ==
  ASSUME GraphInv, NEW w \in Workers, Pinning1(w), asked' = asked, ran' = ran
  PROVE  Commits(w, session[w].x, "executing")
<1> DEFINE x == session[w].x
           C == Notices(w)
<1>1. /\ session[w].at = "loop" /\ session[w].at \in Underway /\ Pins(w, x, "executing")
  BY DEF Pinning1, Activates, Underway
<1>2. Fresh(w) /\ x \in Frontiers
      /\ \A i \in session[w].given : session[w].view.inputs[i] = run.inputs[i] /\ run.inputs[i].accepted
  BY <1>1, CommitView
<1>3. C \in SUBSET session[w].given /\ \A i \in C : Pending(run.inputs[i]) /\ run.inputs[i].target = NoTarget
  BY <1>2 DEF Notices, Unconsumed, TargetOf, Pending
<1>4. \A n \in Tasks : run.tasks[n].status \in {"absent", "succeeded", "failed"}
  BY DEF GraphInv, Recorded
<1>5. \A n \in Tasks : run.activations[n].attempt # 0 => run'.activations[n].attempt # 0
  BY DEF Pinning1, Activates
<1>6. \E D \in SUBSET session[w].given :
       /\ Spends(D)
       /\ \A i \in D : Pending(run.inputs[i]) /\ run.inputs[i].target \notin x.waiting
       /\ \A i \in session[w].given \ D :
            Pending(run.inputs[i]) /\ x # session[w].x =>
              run.inputs[i].target \in x.waiting \cup {NoTarget}
  <2> HIDE DEF C
  <2>1. \A i \in C : Pending(run.inputs[i]) /\ run.inputs[i].target \notin x.waiting
    BY <1>2, <1>3, NoTargetWaits
  <2>2. Spends(C)
    BY DEF Pinning1, C
  <2>3. QED
    BY <1>3, <2>1, <2>2
<1> HIDE DEF C
<1>7. QED
  BY <1>1, <1>2, <1>4, <1>5, <1>6 DEF Commits, Pinning1, Activates

LEMMA DeclaringCommits ==
  ASSUME GraphInv, NEW w \in Workers, Declaring(w), asked' = asked, ran' = ran
  PROVE  Commits(w, session[w].x, "stop")
<1>1. session[w].at \in Underway /\ Pins(w, session[w].x, "stop") /\ Declares(w)
  BY DEF Declaring, Declares, Underway
<1>2. Fresh(w)
  BY <1>1, CommitView
<1>3. \A n \in Tasks : run.tasks[n].status \in {"absent", "succeeded", "failed"}
  BY DEF GraphInv, Recorded
<1>4. /\ {} \in SUBSET session[w].given /\ Spends({})
      /\ run'.status = "succeeded" => Ending(w)
  BY DEF Declaring
<1>5. \E D \in SUBSET session[w].given :
       /\ Spends(D)
       /\ \A i \in D : Pending(run.inputs[i]) /\ run.inputs[i].target \notin session[w].x.waiting
       /\ \A i \in session[w].given \ D :
            Pending(run.inputs[i]) /\ session[w].x # session[w].x =>
              run.inputs[i].target \in session[w].x.waiting \cup {NoTarget}
  BY <1>4
<1>6. QED
  BY <1>1, <1>2, <1>3, <1>4, <1>5 DEF Commits, Declares

LEMMA SavingCommits ==
  ASSUME GraphInv, NEW w \in Workers, Saving(w), asked' = asked, ran' = ran
  PROVE  \E x, next : Commits(w, x, next)
<1>1. PICK x, next : Savers(w, x) /\ Persists(w, x, next) /\ Spends(Spent(w, x))
  BY DEF Saving
<1> DEFINE C == Spent(w, x)
<1>2. /\ x \in Frontiers /\ session[w].at \in Underway /\ Pins(w, x, next)
      /\ \/ x = session[w].x
         \/ session[w].at = "loop" /\ Completes(session[w].x, Node(w), x)
      /\ next \in {"loop", "park", "fail"} /\ run'.status # "succeeded"
  BY <1>1, SaversFacts DEF Persists, Saving
<1>3. /\ Fresh(w) /\ Fits(session[w].x, run.tasks, Unsaved(w), asked)
      /\ \A i \in session[w].given : session[w].view.inputs[i] = run.inputs[i] /\ run.inputs[i].accepted
  BY <1>2, CommitView
<1>4. /\ C \in SUBSET session[w].given
      /\ \A i \in C : Pending(run.inputs[i]) /\ run.inputs[i].target \notin x.waiting
      /\ \A i \in session[w].given \ C :
           Pending(run.inputs[i]) => run.inputs[i].target \in x.waiting \cup {NoTarget}
  BY <1>3 DEF Spent, Unconsumed, TargetOf, UsedUp, Pending
<1>5. ASSUME NEW n \in Tasks
      PROVE  /\ run'.activations[n] = run.activations[n]
             /\ run'.tasks[n].status \in {"absent", "succeeded", "failed"}
             /\ OnRecord(run, n) => run'.tasks[n].status = run.tasks[n].status
             /\ run.tasks[n].adopted # 0 => run'.tasks[n].adopted = run.tasks[n].adopted
             /\ n \in x.completed \ session[w].x.completed =>
                  run'.tasks[n].adopted = run.revision + 1
  <2>1. /\ run'.activations[n] = run.activations[n]
        /\ run'.tasks[n].status =
             (IF OnRecord(run, n) THEN run.tasks[n].status
              ELSE IF n \in x.results THEN "succeeded"
              ELSE IF n \in session[w].failed THEN "failed" ELSE "absent")
        /\ run'.tasks[n].adopted =
             (IF n \in x.completed /\ run.tasks[n].adopted = 0 THEN run.revision + 1
              ELSE IF OnRecord(run, n) \/ n \notin x.results \cup session[w].failed
              THEN run.tasks[n].adopted ELSE 0)
    BY <1>1 DEF Persists
  <2>2. /\ run.tasks[n].status \in {"absent", "succeeded", "failed"}
        /\ run.tasks[n].adopted # 0 => OnRecord(run, n)
    BY DEF GraphInv, Recorded, IInv, Witnessed
  <2>3. n \notin session[w].x.completed => run.tasks[n].adopted = 0
    BY <1>3 DEF Fits, FitsAt
  <2>4. QED
    BY <2>1, <2>2, <2>3
<1>6. Spends(C)
  BY <1>1
<1> HIDE DEF C
<1>7. Commits(w, x, next)
  BY <1>2, <1>3, <1>4, <1>5, <1>6 DEF Commits
<1>8. QED
  BY <1>7

LEMMA CommittingCommits ==
  ASSUME GraphInv, NEW w \in Workers, Committing(w)
  PROVE  \E x, next : Commits(w, x, next)
BY PinningCommits, DeclaringCommits, SavingCommits DEF Committing

\* What every commit pins has been walked to from what was pinned.
LEMMA CommitsWalked ==
  ASSUME GraphInv, NEW w \in Workers, NEW x, NEW next, Commits(w, x, next)
  PROVE  /\ x \in Frontiers /\ Walked(x) /\ Numbered(x) /\ Pinned' = x
         /\ x.results = session[w].x.results /\ x.chosen = session[w].x.chosen
         /\ session[w].x \in Frontiers
         /\ Pinned.results \subseteq x.results
<1>1. /\ session[w].x \in Frontiers /\ Walked(session[w].x) /\ Numbered(session[w].x)
      /\ Pins(w, x, next) /\ x \in Frontiers /\ Fresh(w) /\ session[w].at \in Underway
      /\ Snapshots = Frontiers
  BY SessionFields DEF GraphInv, Faithful, IInv, TypeOK, Commits, Pins
<1>2. Pinned' = x
  <2>1. run'.snapshot = x /\ x # NoSnapshot
    BY <1>1, IdentityAssumption DEF Pins
  <2>2. QED
    BY <2>1 DEF Pinned
<1>3. Pinned.results \subseteq session[w].x.results
  BY <1>1, FreshFacts
<1>4. CASE x = session[w].x
  BY <1>1, <1>2, <1>3, <1>4
<1>5. CASE Completes(session[w].x, Node(w), x)
  <2>1. /\ Walked(x) /\ x.results = session[w].x.results /\ x.chosen = session[w].x.chosen
        /\ x.waiting \subseteq session[w].x.waiting
    BY <1>5, CompletesWalks DEF Completes
  <2>2. Numbered(x)
    BY <1>1, <2>1 DEF Numbered
  <2>3. QED
    BY <1>1, <1>2, <1>3, <2>1, <2>2
<1>6. QED
  BY <1>4, <1>5 DEF Commits

-----------------------------------------------------------------------------
\* Sessions stay faithful: those that do not make the step.

\* A session that has seen a revision sees it again only if it is still the last.
LEMMA StaysFresh ==
  ASSUME TypeOK, ViewsLag, Typed, NEW v \in Workers, Same(v), run.revision <= run'.revision,
         Fresh(v)'
  PROVE  Fresh(v) /\ run'.revision = run.revision
<1>1. /\ session[v].view.revision \in Nat /\ run.revision \in Nat /\ run'.revision \in Nat
      /\ session[v].view.revision <= run.revision
      /\ session[v].at = "reread" => session[v].view.revision < run.revision
  BY SessionFields, RecordFields DEF TypeOK, Typed, ViewsLag, LagsBehind, Lags
<1>2. IF session[v].at = "reread" THEN run'.revision = session[v].view.revision + 1
      ELSE session[v].view.revision = run'.revision
  BY DEF Fresh, Confirmed, Same
<1>3. QED
  BY <1>1, <1>2 DEF Fresh, Confirmed

LEMMA SameAim ==
  ASSUME NEW v \in Workers, Same(v)
  PROVE  /\ Aim(v)' = Aim(v) /\ Unsaved(v)' = Unsaved(v)
         /\ \A n : Heading(v, n)' <=> Heading(v, n)
<1>1. Aim(v)' = Aim(v) /\ Node(v)' = Node(v)
  BY DEF Aim, Node, Same
<1>2. QED
  BY <1>1 DEF Unsaved, Heading, Same

LEMMA FaithfulRests ==
  ASSUME GraphInv, Rests(run, run'), Typed, Grown, NEW v \in Workers, Same(v)
  PROVE  Faithful(v)'
<1>0. /\ TypeOK /\ ViewsLag /\ run \in RunRecords /\ run' \in RunRecords /\ Keeps(run, run')
      /\ session[v] \in Sessions /\ run.revision \in Nat /\ run.fence \in Nat
      /\ session[v].fence \in Nat
  BY SessionFields, RecordFields DEF GraphInv, IInv, TypeOK, Typed, Rests
<1>1. /\ Aim(v)' = Aim(v) /\ Unsaved(v)' = Unsaved(v)
      /\ \A n : Heading(v, n)' <=> Heading(v, n)
      /\ Pinned' = Pinned /\ run'.activations = run.activations /\ run'.tasks = run.tasks
      /\ run.revision <= run'.revision
  BY <1>0, SameAim DEF Keeps, Pinned
<1>2. Fresh(v)' => Fresh(v) /\ run'.revision = run.revision
  BY <1>0, <1>1, StaysFresh
<1>3. Faithful(v)
  BY DEF GraphInv
<1>4. Authority(v)'
  <2>1. session[v].fence <= run'.fence
    BY <1>0, <1>3, RecordFields DEF Faithful, Authority, Rests
  <2>2. ASSUME Live(run'), Holds(run', v, session[v].fence), session[v].at \in Underway \cup {"reread"}
        PROVE  Fresh(v)'
    <3>1. Live(run) /\ Holds(run, v, session[v].fence) /\ run'.revision = run.revision
      BY <1>0, <1>3, <2>2 DEF Rests, Faithful, Authority
    <3>2. Fresh(v)
      BY <1>3, <2>2, <3>1 DEF Faithful, Authority
    <3>3. QED
      BY <3>1, <3>2 DEF Fresh, Confirmed, Same
  <2>3. QED
    BY <2>1, <2>2 DEF Authority, Same
<1>5. Entitled(v)'
  BY <1>1, <1>3 DEF Faithful, Entitled, Same
<1>6. Follows(v)'
  BY <1>1, <1>2, <1>3 DEF Faithful, Follows, Same
<1>7. Informed(v)'
  <2>1. session[v].at \notin Resting => \A i \in session[v].given : run'.inputs[i].accepted
    BY <1>0, <1>3 DEF Faithful, Informed, Rests, Sessions
  <2>2. ASSUME session[v].at \notin Resting, session[v].view.revision = run'.revision,
               NEW i \in Inputs, session[v].view.inputs[i].accepted
        PROVE  session[v].view.inputs[i] = run'.inputs[i]
    <3>1. session[v].view.revision <= run.revision /\ session[v].view.revision \in Nat
      BY <1>0, RecordFields DEF ViewsLag, LagsBehind, Lags, Sessions
    <3>2. run'.revision = run.revision
      BY <1>0, <1>1, <2>2, <3>1, RecordFields
    <3>3. session[v].view.inputs[i] = run.inputs[i]
      BY <1>3, <2>2, <3>2 DEF Faithful, Informed
    <3>4. QED
      BY <2>2, <3>3 DEF Rests
  <2>3. QED
    BY <1>3, <2>1, <2>2 DEF Faithful, Informed, Same
<1>8. Answering(v)'
  <2> SUFFICES ASSUME Aim(v)' \in Underway, Fresh(v)'
               PROVE  \A i \in session'[v].given : LET input == run'.inputs[i]
                        IN Pending(input) /\ input.target # NoTarget =>
                             \E q \in session'[v].x.waiting : q[1] = input.target[1] /\ q[2] >= input.target[2]
    BY DEF Answering
  <2>1. Aim(v) \in Underway /\ Fresh(v) /\ session[v].at \notin Resting
    <3>1. session[v].at = "reread" \/ session[v].at = Aim(v)
      BY DEF Aim
    <3>2. QED
      BY <1>1, <1>2, <3>1 DEF Underway, Resting
  <2>2. \A i \in session[v].given : run'.inputs[i] = run.inputs[i]
    BY <1>0, <1>3, <2>1 DEF Faithful, Informed, Rests, Sessions
  <2>3. QED
    BY <1>3, <2>1, <2>2 DEF Faithful, Answering, Same
<1>9. (session[v].at = "lost" => Lost(v))'
  <2> SUFFICES ASSUME session[v].at = "lost", Lost(v) PROVE Lost(v)'
    BY <1>3 DEF Same, Faithful
  <2>1. CASE ~(Live(run) /\ Holds(run, v, session[v].fence))
    BY <1>0, <1>3, <2>1 DEF Lost, Same, Rests, Faithful, Authority
  <2>2. CASE \E n \in Tasks : n \in Pinned.results /\ run.tasks[n].status = "failed"
    BY <1>1, <2>2 DEF Lost
  <2>3. QED
    BY <2>1, <2>2 DEF Lost
<1>10. Numbered(session[v].x)' /\ Walked(session[v].x)'
  <2>1. session'[v].x = session[v].x /\ session[v].x \in Frontiers
    BY <1>0 DEF Same, Sessions
  <2>2. \A q \in session[v].x.waiting : q[1] \in Tasks /\ q[2] \in Nat
    BY <2>1, FrontierFields
  <2>3. \A n \in Tasks : asked[n] \in Nat /\ asked'[n] \in Nat /\ asked[n] <= asked'[n]
    BY <1>0 DEF Grown, TypeOK, Typed
  <2>4. Numbered(session[v].x)'
    BY <1>3, <2>1, <2>2, <2>3 DEF Numbered, Faithful
  <2>5. QED
    BY <1>3, <2>1, <2>4 DEF Faithful
<1>11. QED
  BY <1>4, <1>5, <1>6, <1>7, <1>8, <1>9, <1>10 DEF Faithful

LEMMA FaithfulBeside ==
  ASSUME GraphInv, NEW w \in Workers, NEW x, NEW next, Commits(w, x, next), Typed,
         NEW v \in Workers \ {w}
  PROVE  Faithful(v)'
<1>0. /\ TypeOK /\ ViewsLag /\ run \in RunRecords /\ run' \in RunRecords
      /\ session[v] \in Sessions /\ run.revision \in Nat /\ session[v].view.revision \in Nat
      /\ session[v].view.revision <= run.revision /\ Faithful(v)
  BY SessionFields, RecordFields
     DEF GraphInv, IInv, TypeOK, Typed, ViewsLag, LagsBehind, Lags
<1>1. /\ session'[v] = session[v] /\ Same(v) /\ asked' = asked
      /\ run.owner = w /\ run'.owner = w /\ run'.fence = run.fence
      /\ run'.revision = run.revision + 1
  BY DEF Commits, Pins, Others, Same, Holds
<1>2. /\ Aim(v)' = Aim(v) /\ Unsaved(v)' = Unsaved(v)
      /\ \A n : Heading(v, n)' <=> Heading(v, n)
  BY <1>1, SameAim
<1>3. ~Fresh(v)' /\ session[v].view.revision # run'.revision
  <2>1. run.revision <= run'.revision /\ run'.revision # run.revision
    BY <1>0, <1>1
  <2>2. ~Fresh(v)'
    BY <1>0, <1>1, <2>1, StaysFresh
  <2>3. QED
    BY <1>0, <1>1, <2>2
<1>4. Authority(v)'
  BY <1>0, <1>1 DEF Authority, Faithful, Holds
<1>5. Entitled(v)'
  BY <1>0, <1>1, <1>2 DEF Entitled, Faithful, Commits
<1>6. Follows(v)' /\ Answering(v)'
  BY <1>0, <1>1, <1>3 DEF Follows, Answering, Faithful
<1>7. Informed(v)'
  <2>1. PICK C : Spends(C)
    BY DEF Commits
  <2>2. \A i \in Inputs : run'.inputs[i].accepted = run.inputs[i].accepted
    BY <1>0, <2>1, SpendsFields
  <2>3. QED
    BY <1>0, <1>1, <1>3, <2>2 DEF Informed, Faithful, Sessions
<1>8. (session[v].at = "lost" => Lost(v))'
  BY <1>1 DEF Lost, Holds
<1>9. QED
  BY <1>0, <1>1, <1>4, <1>5, <1>6, <1>7, <1>8 DEF Faithful, Numbered

LEMMA FaithfulGone ==
  ASSUME NEW v \in Workers, Gone(v)
  PROVE  Faithful(v)'
<1>1. /\ Aim(v)' \notin Underway /\ session'[v].at \in Resting /\ session'[v].at # "reread"
      /\ \A n : ~Heading(v, n)'
      /\ session'[v].x = Begin /\ session'[v].view = AbsentRun /\ session'[v].next = "none"
  BY BlankFacts DEF Gone, Blank
<1>2. \A n \in Tasks : AbsentRun.activations[n].attempt = 0
  BY DEF AbsentRun, NoActivation
<1>3. session'[v].at \notin Underway \cup {"reread"}
  BY <1>1 DEF Underway, Resting
<1>4. Authority(v)' /\ Entitled(v)' /\ Follows(v)' /\ Informed(v)' /\ Answering(v)'
  BY <1>1, <1>2, <1>3 DEF Authority, Entitled, Follows, Informed, Answering, Gone
<1>5. Numbered(session[v].x)' /\ Walked(session[v].x)'
  BY <1>1, BeginFields, BeginWalks DEF Numbered
<1>6. QED
  BY <1>4, <1>5 DEF Faithful, Gone

-----------------------------------------------------------------------------
\* Sessions stay faithful: the one that makes the step.

LEMMA FaithfulLoading ==
  ASSUME GraphInv, NEW w \in Workers, Loading(w)
  PROVE  Faithful(w)'
<1> DEFINE A == Answered1(session'[w].given)
           R == {q[1] : q \in A}
<1>0. /\ Pinned \in Frontiers /\ Walked(Pinned) /\ Numbered(Pinned) /\ run' = run /\ asked' = asked
      /\ Faithful(w) /\ session'[w].fence = session[w].fence /\ session'[w].next # "save"
      /\ Pinned' = Pinned
  <2>1. Pinned \in Frontiers
    BY BeginFields, RecordFields DEF GraphInv, IInv, TypeOK, Pinned
  <2>2. QED
    BY <2>1 DEF GraphInv, Faithful, Follows, Loading, Turns, Pinned
<1>1. /\ session'[w].at = "loop" /\ session'[w].view = run
      /\ session'[w].x = [Pinned EXCEPT !.ready = @ \cup R] /\ A \subseteq Pinned.waiting
      /\ \A i \in session'[w].given : Pending(run.inputs[i])
  BY DEF Loading
<1>2. R \subseteq Waiters(Pinned) /\ R \subseteq Tasks
  BY <1>0, <1>1, FrontierFields DEF Waiters
<1> HIDE DEF R
<1>3. /\ session'[w].x.completed = Pinned.completed /\ session'[w].x.results = Pinned.results
      /\ session'[w].x.chosen = Pinned.chosen /\ session'[w].x.waiting = Pinned.waiting
      /\ session'[w].x.ready = Pinned.ready \cup R
  BY <1>0, <1>1 DEF Frontiers
<1>4. Walked(session'[w].x)
  <2>1. /\ Waiters(session'[w].x) = Waiters(Pinned)
    BY <1>3 DEF Waiters
  <2>2. session'[w].x.ready \cup Waiters(session'[w].x) = Pinned.ready \cup Waiters(Pinned)
    BY <1>2, <1>3, <2>1
  <2>3. QED
    BY <1>0, <1>3, <2>2, WalkedAlike
<1>5. \A p \in Pinned.waiting : p[2] >= p[2]
  BY <1>0, FrontierFields
<1>6. Aim(w)' = "loop" /\ Unsaved(w)' = {} /\ Fresh(w)'
  BY <1>0, <1>1 DEF Aim, Unsaved, Fresh
<1>7. Authority(w)'
  BY <1>0, <1>6 DEF Faithful, Authority
<1>8. Entitled(w)'
  BY <1>0, <1>1, <1>6 DEF Entitled, Heading
<1>9. Follows(w)'
  BY <1>0, <1>3, <1>5, <1>6 DEF Follows
<1>10. Informed(w)'
  BY <1>0, <1>1 DEF Informed, Pending
<1>11. Answering(w)'
  <2>1. ASSUME NEW i \in session'[w].given, run.inputs[i].target # NoTarget
        PROVE  run.inputs[i].target \in Pinned.waiting
    BY <1>1, <2>1 DEF Answered1
  <2>2. QED
    BY <1>0, <1>3, <1>5, <2>1 DEF Answering
<1>12. Numbered(session[w].x)'
  BY <1>0, <1>3 DEF Numbered
<1>13. QED
  BY <1>1, <1>4, <1>7, <1>8, <1>9, <1>10, <1>11, <1>12 DEF Faithful

LEMMA FaithfulRereading ==
  ASSUME GraphInv, NEW w \in Workers, Rereading(w)
  PROVE  Faithful(w)'
<1>0. /\ Faithful(w) /\ Position(w) /\ run' = run /\ asked' = asked /\ Pinned' = Pinned
      /\ session[w].at = "reread" /\ Confirmed(w)
      /\ session'[w].at = session[w].next /\ session'[w].view = run
      /\ session'[w].x = session[w].x /\ session'[w].given = session[w].given
      /\ session'[w].fence = session[w].fence /\ session'[w].next \in {session[w].next, "none"}
  BY DEF GraphInv, IInv, Positioned, Rereading, Turns, Pinned
<1>1. session'[w].at \notin {"reread", "save", "lost"}
  BY <1>0 DEF Position, Underway, Faithful, Follows
<1>2. /\ Aim(w) = session[w].next /\ Aim(w)' = Aim(w) /\ Unsaved(w) = {} /\ Unsaved(w)' = {}
      /\ Fresh(w) /\ Fresh(w)' /\ \A n : Heading(w, n)' <=> Heading(w, n)
  BY <1>0, <1>1 DEF Aim, Unsaved, Fresh, Heading, Node
<1>3. session[w].at \notin Resting
  BY <1>0 DEF Resting
<1>4. Authority(w)' /\ Entitled(w)'
  BY <1>0, <1>2 DEF Faithful, Authority, Entitled
<1>5. Follows(w)'
  BY <1>0, <1>2 DEF Faithful, Follows
<1>6. Informed(w)' /\ Answering(w)'
  BY <1>0, <1>2, <1>3 DEF Faithful, Informed, Answering
<1>7. QED
  BY <1>0, <1>1, <1>4, <1>5, <1>6 DEF Faithful, Numbered

\* What the places a session works at have in common.
LEMMA FaithfulWork ==
  ASSUME GraphInv, NEW w \in Workers, Works(w),
         session[w].at \in {"loop", "executing"},
         session'[w].at \in {"loop", "executing", "save", "failing"}
  PROVE  /\ Authority(w)' /\ Informed(w)' /\ Faithful(w) /\ run' = run /\ Pinned' = Pinned
         /\ Aim(w) = session[w].at /\ Aim(w)' = session'[w].at
         /\ Aim(w) \in Underway /\ (Fresh(w)' <=> Fresh(w))
         /\ Unsaved(w) = {} /\ session'[w].next # "save"
         /\ session'[w].at # "executing" => Entitled(w)'
<1>1. /\ Faithful(w) /\ run' = run /\ Pinned' = Pinned
      /\ session'[w].view = session[w].view /\ session'[w].given = session[w].given
      /\ session'[w].fence = session[w].fence /\ session'[w].next \in {session[w].next, "none"}
  BY DEF GraphInv, Works, Turns, Pinned
<1>2. /\ session[w].at \in Underway /\ session'[w].at \in Underway
      /\ session[w].at \notin Resting /\ session'[w].at \notin Resting
      /\ session[w].at # "reread" /\ session'[w].at # "reread"
  BY DEF Underway, Resting
<1>3. /\ Aim(w) = session[w].at /\ Aim(w)' = session'[w].at /\ (Fresh(w)' <=> Fresh(w))
      /\ Unsaved(w) = {} /\ session'[w].next # "save"
  BY <1>1, <1>2 DEF Aim, Fresh, Unsaved, Faithful, Follows
<1>4. Authority(w)' /\ Informed(w)'
  BY <1>1, <1>2, <1>3 DEF Faithful, Authority, Informed
<1>5. session'[w].at # "executing" => Entitled(w)'
  BY <1>1, <1>3 DEF Faithful, Entitled, Heading
<1>6. QED
  BY <1>1, <1>2, <1>3, <1>4, <1>5

LEMMA FaithfulWalking ==
  ASSUME GraphInv, NEW w \in Workers, Walking(w) \/ Failing(w)
  PROVE  Faithful(w)'
<1>1. /\ Works(w) /\ session[w].at \in {"loop", "executing"}
      /\ session'[w].at \in {"executing", "failing"} /\ session'[w].x = session[w].x
      /\ asked' = asked
  BY DEF Walking, Failing, Runs1
<1>2. /\ Authority(w)' /\ Informed(w)' /\ Faithful(w) /\ run' = run /\ Pinned' = Pinned
      /\ Aim(w)' = session'[w].at /\ Aim(w) \in Underway /\ (Fresh(w)' <=> Fresh(w))
      /\ Unsaved(w) = {} /\ session'[w].next # "save"
      /\ session'[w].at # "executing" => Entitled(w)'
  BY <1>1, FaithfulWork
<1>3. session'[w].view = session[w].view /\ session'[w].given = session[w].given /\ Unsaved(w)' = {}
  BY <1>1 DEF Works, Unsaved
<1>4. Entitled(w)'
  <2>1. CASE session'[w].at = "executing"
    <3>1. Dispatched(w)
      BY <2>1 DEF Walking, Failing
    <3>2. Node(w)' = Node(w)
      BY <1>1 DEF Node
    <3>3. QED
      BY <1>2, <1>3, <3>1, <3>2 DEF Faithful, Entitled, Heading, Dispatched
  <2>2. QED
    BY <1>2, <2>1
<1>5. Follows(w)' /\ Answering(w)'
  BY <1>1, <1>2, <1>3 DEF Faithful, Follows, Answering
<1>6. Numbered(session[w].x)' /\ Walked(session[w].x)'
  BY <1>1, <1>2 DEF Faithful, Numbered
<1>7. QED
  BY <1>1, <1>2, <1>4, <1>5, <1>6 DEF Faithful

LEMMA FaithfulSucceeding ==
  ASSUME GraphInv, NEW w \in Workers, Succeeding(w)
  PROVE  Faithful(w)'
<1> DEFINE n == Node(w)
           x == session[w].x
           y == session'[w].x
<1>1. /\ Works(w) /\ session[w].at = "executing" /\ session'[w].at = "save" /\ asked' = asked
      /\ session'[w].view = session[w].view /\ session'[w].given = session[w].given
  BY DEF Succeeding, Runs1, Works
<1>2. /\ Authority(w)' /\ Informed(w)' /\ Faithful(w) /\ run' = run /\ Pinned' = Pinned
      /\ Aim(w)' = "save" /\ Aim(w) \in Underway /\ (Fresh(w)' <=> Fresh(w))
      /\ Unsaved(w) = {} /\ session'[w].next # "save" /\ Entitled(w)'
  BY <1>1, FaithfulWork
<1>3. x \in Frontiers /\ n \in x.ready /\ n \in Tasks
  BY <1>1, SessionFields, WorkingNode DEF GraphInv, IInv, Aim
<1>4. PICK route \in Routes(n) : y = Executed(x, n, route)
  BY DEF Succeeding
<1>5. /\ y.ready = x.ready /\ y.completed = x.completed /\ y.results = x.results \cup {n}
      /\ y.waiting = x.waiting
  BY <1>3, <1>4, RouteTypes, ExecutedFields
<1>6. Walked(y) /\ y.chosen = [x.chosen EXCEPT ![n] = route]
  BY <1>2, <1>3, <1>4, ExecutedWalks DEF Faithful
<1>7. Unsaved(w)' = {n}
  BY <1>1, <1>5, SameFirst DEF Unsaved, Node
<1> HIDE DEF y
<1>8. \A m \in Tasks \ {n} : y.chosen[m] = x.chosen[m]
  <2>1. x.chosen \in [Tasks -> SUBSET Tasks]
    BY <1>3, FrontierFields
  <2> HIDE DEF n, x
  <2>2. QED
    BY <1>6, <2>1
<1>9. Follows(w)'
  <2>1. Fresh(w)' => /\ y.completed = Pinned.completed /\ y.results = Pinned.results \cup {n}
                     /\ \A m \in Tasks \ {n} : y.chosen[m] = Pinned.chosen[m]
                     /\ \A p \in Pinned.waiting : \E q \in y.waiting : q[1] = p[1] /\ q[2] >= p[2]
    <3> HIDE DEF n
    <3> QED  BY <1>2, <1>5, <1>8 DEF Faithful, Follows
  <2>2. QED
    BY <1>2, <1>7, <2>1 DEF Follows, y
<1>10. Answering(w)'
  BY <1>1, <1>2, <1>5 DEF Faithful, Answering, y
<1>11. Numbered(session[w].x)' /\ Walked(session[w].x)'
  BY <1>1, <1>2, <1>5, <1>6 DEF Faithful, Numbered, y
<1>12. QED
  BY <1>1, <1>2, <1>9, <1>10, <1>11 DEF Faithful

LEMMA FaithfulQuestioning ==
  ASSUME GraphInv, NEW w \in Workers, Questioning(w)
  PROVE  Faithful(w)'
<1> DEFINE n == Node(w)
           x == session[w].x
           y == session'[w].x
           new == <<n, asked[n] + 1>>
<1>1. /\ Works(w) /\ session[w].at = "executing" /\ session'[w].at = "loop"
      /\ asked' = [asked EXCEPT ![n] = @ + 1] /\ new \in Questions
      /\ y = Interrupting(x, n, new)
      /\ session'[w].view = session[w].view /\ session'[w].given = session[w].given
  BY DEF Questioning, Runs1, Works
<1>2. /\ Authority(w)' /\ Informed(w)' /\ Faithful(w) /\ run' = run /\ Pinned' = Pinned
      /\ Aim(w)' = "loop" /\ Aim(w) \in Underway /\ (Fresh(w)' <=> Fresh(w))
      /\ Unsaved(w) = {} /\ session'[w].next # "save" /\ Entitled(w)'
  BY <1>1, FaithfulWork
<1>3. /\ x \in Frontiers /\ n \in x.ready /\ n \in Tasks /\ asked \in [Tasks -> Nat]
      /\ new[1] = n /\ new[2] = asked[n] + 1
  BY <1>1, SessionFields, WorkingNode DEF GraphInv, IInv, Aim, TypeOK
<1> HIDE DEF new
<1>4. Walked(y)
  BY <1>1, <1>2, <1>3, InterruptingWalks DEF Faithful
<1>5. /\ y.completed = x.completed /\ y.results = x.results /\ y.chosen = x.chosen
      /\ y.waiting = {p \in x.waiting : p[1] # n} \cup {new}
  <2> HIDE DEF y, n
  <2> QED  BY <1>1, <1>3 DEF Interrupting, Frontiers
<1>6. Unsaved(w)' = {}
  BY <1>1 DEF Unsaved
<1>7. \A q \in x.waiting : q[1] \in Tasks /\ q[2] \in Nat /\ q[2] <= asked[q[1]]
  BY <1>2, <1>3, FrontierFields DEF Faithful, Numbered
<1>71. \A q \in Pinned.waiting : q[1] \in Tasks /\ q[2] \in Nat /\ q[2] <= asked[q[1]]
  <2>1. Pinned \in Frontiers
    BY BeginFields, RecordFields DEF GraphInv, IInv, TypeOK, Pinned
  <2>2. QED
    BY <2>1, FrontierFields DEF GraphInv, Numbered
<1> HIDE DEF y, n
<1>8. \A a, b : (\E q \in x.waiting : q[1] = a /\ q[2] >= b) /\ (b \in Nat)
               => \E q \in y.waiting : q[1] = a /\ q[2] >= b
  <2>1. ASSUME NEW a, NEW b \in Nat, NEW q \in x.waiting, q[1] = a, q[2] >= b
        PROVE  \E p \in y.waiting : p[1] = a /\ p[2] >= b
    <3>1. CASE a # n
      BY <1>5, <2>1, <3>1
    <3>2. CASE a = n
      <4>1. new[2] >= b /\ new[1] = a
        BY <1>3, <1>7, <2>1, <3>2
      <4>2. QED
        BY <1>5, <4>1
    <3>3. QED
      BY <3>1, <3>2
  <2>2. QED
    BY <2>1
<1>9. Follows(w)'
  <2>1. Fresh(w)' => /\ y.completed = Pinned.completed /\ y.results = Pinned.results
                     /\ \A m \in Tasks : y.chosen[m] = Pinned.chosen[m]
                     /\ \A p \in Pinned.waiting : \E q \in x.waiting : q[1] = p[1] /\ q[2] >= p[2]
    BY <1>2, <1>5 DEF Faithful, Follows
  <2>2. Fresh(w)' => \A p \in Pinned.waiting : \E q \in y.waiting : q[1] = p[1] /\ q[2] >= p[2]
    BY <1>71, <1>8, <2>1
  <2>3. QED
    BY <1>2, <1>6, <2>1, <2>2 DEF Follows, y
<1>10. Answering(w)'
  <2> SUFFICES ASSUME Fresh(w), NEW i \in session[w].given,
                      Pending(run.inputs[i]), run.inputs[i].target # NoTarget
               PROVE  \E q \in y.waiting : q[1] = run.inputs[i].target[1] /\ q[2] >= run.inputs[i].target[2]
    BY <1>1, <1>2 DEF Answering, y
  <2>1. \E q \in x.waiting : q[1] = run.inputs[i].target[1] /\ q[2] >= run.inputs[i].target[2]
    BY <1>2 DEF Faithful, Answering
  <2>2. run.inputs[i].target[2] \in Nat
    <3>1. session[w].given \subseteq Inputs /\ run \in RunRecords
      BY SessionFields DEF GraphInv, IInv, TypeOK
    <3>2. run.inputs[i].target \in Questions
      BY <3>1, RecordFields, PlanFacts DEF InboundInputs
    <3>3. QED
      BY <3>2 DEF Questions
  <2>3. QED
    BY <1>8, <2>1, <2>2
<1>11. Numbered(session[w].x)'
  <2>1. ASSUME NEW q \in y.waiting PROVE q[2] <= asked'[q[1]]
    <3>1. CASE q \in x.waiting /\ q[1] # n
      BY <1>1, <1>3, <1>7, <3>1
    <3>2. CASE q = new
      BY <1>1, <1>3, <3>2
    <3>3. QED
      BY <1>5, <2>1, <3>1, <3>2
  <2>2. QED
    BY <2>1 DEF Numbered, y
<1>12. Walked(session[w].x)'
  BY <1>4 DEF y
<1>13. QED
  BY <1>1, <1>2, <1>9, <1>10, <1>11, <1>12 DEF Faithful

LEMMA FaithfulCommits ==
  ASSUME GraphInv, Typed, NEW w \in Workers, NEW x, NEW next, Commits(w, x, next)
  PROVE  Faithful(w)'
<1>0. /\ TypeOK /\ Faithful(w) /\ Pins(w, x, next) /\ session[w].at \in Underway /\ Fresh(w)
      /\ run \in RunRecords /\ session[w].given \subseteq Inputs
      /\ asked' = asked /\ run.revision \in Nat
      /\ next \in {"executing", "loop", "park", "fail", "stop"}
  BY SessionFields, RecordFields DEF GraphInv, IInv, TypeOK, Commits
<1>1. x \in Frontiers /\ Walked(x) /\ Numbered(x) /\ Pinned' = x
  BY CommitsWalked
<1>2. /\ session'[w].at = "reread" /\ session'[w].next = next /\ session'[w].x = x
      /\ session'[w].view = session[w].view /\ session'[w].fence = session[w].fence
      /\ session'[w].given = session[w].given
      /\ run'.revision = run.revision + 1 /\ session[w].view.revision = run.revision
      /\ run'.fence = run.fence
  <2>1. /\ run'.revision = run.revision + 1 /\ session[w].view.revision = run.revision
        /\ run'.fence = run.fence
    BY <1>0 DEF Pins
  <2>2. QED
    BY <1>0, <2>1, PinnedSession
<1>3. Aim(w)' = next /\ Unsaved(w)' = {} /\ Fresh(w)' /\ Aim(w) = session[w].at
      /\ session[w].at \notin Resting /\ session[w].at # "reread"
  BY <1>0, <1>2 DEF Aim, Unsaved, Fresh, Confirmed, Underway, Resting
<1>4. Authority(w)'
  BY <1>0, <1>2, <1>3 DEF Faithful, Authority
<1>5. Entitled(w)'
  <2>1. ASSUME NEW n \in Tasks, Heading(w, n)' PROVE run'.activations[n].attempt # 0
    <3>1. next = "executing" /\ Node(w)' = n
      BY <1>3, <2>1 DEF Heading
    <3>2. x = session[w].x /\ run'.activations[Node(w)].attempt # 0
      BY <3>1 DEF Commits
    <3>3. Node(w)' = Node(w)
      BY <1>2, <3>2 DEF Node
    <3>4. QED
      BY <3>1, <3>2, <3>3
  <2>2. ASSUME NEW n \in Tasks, session[w].view.activations[n].attempt # 0
        PROVE  run'.activations[n].attempt # 0
    BY <1>0, <2>2 DEF Faithful, Entitled, Commits
  <2>3. QED
    BY <1>2, <2>1, <2>2 DEF Entitled
<1>6. Follows(w)'
  <2>1. \A p \in x.waiting : p[2] >= p[2]
    BY <1>1, FrontierFields
  <2>2. QED
    BY <1>0, <1>1, <1>2, <1>3, <2>1 DEF Follows
<1>7. PICK C \in SUBSET session[w].given :
        /\ Spends(C)
        /\ \A i \in session[w].given \ C :
             Pending(run.inputs[i]) /\ x # session[w].x =>
               run.inputs[i].target \in x.waiting \cup {NoTarget}
  BY DEF Commits
<1>8. \A i \in session[w].given : /\ run'.inputs[i].accepted = run.inputs[i].accepted
                                  /\ i \notin C => run'.inputs[i] = run.inputs[i]
                                  /\ i \in C => run'.inputs[i].consumed = run.revision + 1
  BY <1>0, <1>7, SpendsFields
<1>9. Informed(w)'
  BY <1>0, <1>2, <1>3, <1>8 DEF Faithful, Informed
<1>10. Answering(w)'
  <2> SUFFICES ASSUME NEW i \in session[w].given,
                      Pending(run'.inputs[i]), run'.inputs[i].target # NoTarget
               PROVE  \E q \in x.waiting : q[1] = run'.inputs[i].target[1] /\ q[2] >= run'.inputs[i].target[2]
    BY <1>2 DEF Answering
  <2>1. i \notin C /\ run'.inputs[i] = run.inputs[i]
    BY <1>0, <1>8 DEF Pending
  <2>2. CASE x = session[w].x
    BY <1>0, <1>3, <2>1, <2>2 DEF Faithful, Answering
  <2>3. CASE x # session[w].x
    <3>1. run.inputs[i].target \in x.waiting
      BY <1>7, <2>1, <2>3
    <3>2. QED
      BY <1>1, <2>1, <3>1, FrontierFields
  <2>4. QED
    BY <2>2, <2>3
<1>11. Numbered(session[w].x)' /\ Walked(session[w].x)'
  BY <1>0, <1>1, <1>2 DEF Numbered
<1>12. QED
  BY <1>2, <1>4, <1>5, <1>6, <1>9, <1>10, <1>11 DEF Faithful

-----------------------------------------------------------------------------
\* The record stays in order.

LEMMA GraphShapes ==
  ASSUME GraphInv, GraphSteps
  PROVE  \/ Rests(run, run') /\ (asked' = asked \/ \E w \in Workers : Questioning(w))
         \/ \E w \in Workers : \E x, next : Commits(w, x, next)
<1>1. Rests(run, run)
  BY RestsRun DEF GraphInv, IInv, TypeOK
<1>2. ASSUME NEW w \in Workers,
             Loading(w) \/ Rereading(w) \/ Walking(w) \/ Succeeding(w) \/ Failing(w)
      PROVE  run' = run /\ asked' = asked
  BY <1>2 DEF Loading, Rereading, Walking, Succeeding, Failing, Works, Turns
<1>3. ASSUME NEW w \in Workers, Questioning(w) PROVE run' = run
  BY <1>3 DEF Questioning, Works, Turns
<1>4. QED
  BY <1>1, <1>2, <1>3, CommittingCommits DEF GraphSteps, Calm, Doing

LEMMA RanIsActivated ==
  ASSUME GraphInv, GraphSteps, Typed, NEW n \in Tasks, ran'[n] > 0
  PROVE  run.activations[n].attempt # 0
<1>1. CASE ran'[n] = ran[n]
  BY <1>1 DEF GraphInv, Recorded
<1>2. CASE ran'[n] # ran[n]
  <2>1. PICK w \in Workers : Runs1(w)
    BY <1>2 DEF GraphSteps, Calm, Doing, Loading, Rereading, Walking, Committing, Succeeding,
                Questioning, Failing
  <2> DEFINE m == Node(w)
  <2>2. ran' = [ran EXCEPT ![m] = @ + 1] /\ session[w].at = "executing"
    BY <2>1 DEF Runs1
  <2> HIDE DEF m
  <2>3. n = m
    BY <1>2, <2>2 DEF GraphInv, IInv, TypeOK
  <2>4. Heading(w, n)
    BY <2>2, <2>3 DEF Heading, Aim, m
  <2>5. QED
    BY <2>4 DEF GraphInv, Faithful, Entitled
<1>3. QED
  BY <1>1, <1>2

LEMMA RecordedStep ==
  ASSUME GraphInv, GraphSteps, Typed
  PROVE  Recorded'
<1>0. /\ run \in RunRecords /\ run' \in RunRecords /\ run.revision \in Nat /\ Recorded
      /\ \A i \in Inputs : run.inputs[i].consumed \in Nat /\ run'.inputs[i].consumed \in Nat
  BY RecordFields DEF GraphInv, IInv, TypeOK, Typed, InboundInputs
<1>1. CASE Rests(run, run')
  <2>1. /\ run'.revision >= run.revision /\ run'.tasks = run.tasks
        /\ run'.activations = run.activations /\ run'.revision \in Nat
    BY <1>0, <1>1 DEF Rests, Keeps
  <2>2. ASSUME NEW i \in Inputs
        PROVE  /\ run'.inputs[i].consumed <= run'.revision
               /\ ~run'.inputs[i].accepted => run'.inputs[i].consumed = 0
    <3>1. run'.inputs[i].consumed = 0 \/ run'.inputs[i] = run.inputs[i]
      BY <1>1 DEF Rests
    <3>2. QED
      BY <1>0, <2>1, <3>1 DEF Recorded
  <2>3. QED
    BY <1>0, <2>1, <2>2, RanIsActivated DEF Recorded
<1>2. ASSUME NEW w \in Workers, NEW x, NEW next, Commits(w, x, next) PROVE Recorded'
  <2>1. PICK C \in SUBSET session[w].given : Spends(C) /\ \A i \in C : Pending(run.inputs[i])
    BY <1>2 DEF Commits
  <2>2. run'.revision = run.revision + 1
    BY <1>2 DEF Commits, Pins
  <2>3. ASSUME NEW i \in Inputs
        PROVE  /\ run'.inputs[i].consumed <= run'.revision
               /\ ~run'.inputs[i].accepted => run'.inputs[i].consumed = 0
    <3>1. /\ run'.inputs[i].accepted = run.inputs[i].accepted
          /\ run'.inputs[i].consumed = IF i \in C THEN run.revision + 1 ELSE run.inputs[i].consumed
      BY <1>0, <2>1, SpendsFields
    <3>2. i \in C => run.inputs[i].accepted
      BY <2>1 DEF Pending
    <3>3. QED
      BY <1>0, <2>2, <3>1, <3>2 DEF Recorded
  <2>4. ASSUME NEW n \in Tasks
        PROVE  /\ run'.tasks[n].status \in {"absent", "succeeded", "failed"}
               /\ ran'[n] > 0 => run'.activations[n].attempt # 0
    BY <1>2, RanIsActivated DEF Commits
  <2>5. QED
    BY <2>3, <2>4 DEF Recorded
<1>3. QED
  BY <1>1, <1>2, GraphShapes

LEMMA PinnedFrontier ==
  ASSUME GraphInv
  PROVE  Pinned \in Frontiers
BY BeginFields, RecordFields DEF GraphInv, IInv, TypeOK, Pinned

LEMMA PinnedStep ==
  ASSUME GraphInv, GraphSteps, Typed, Grown
  PROVE  (Numbered(Pinned) /\ Walked(Pinned))'
<1>1. CASE Rests(run, run')
  <2>1. Pinned' = Pinned
    BY <1>1 DEF Rests, Keeps, Pinned
  <2>2. \A q \in Pinned.waiting : q[1] \in Tasks /\ q[2] \in Nat
    BY PinnedFrontier, FrontierFields
  <2>3. \A n \in Tasks : asked[n] \in Nat /\ asked'[n] \in Nat /\ asked[n] <= asked'[n]
    BY DEF Grown, GraphInv, IInv, TypeOK, Typed
  <2>4. QED
    BY <2>1, <2>2, <2>3 DEF GraphInv, Numbered
<1>2. ASSUME NEW w \in Workers, NEW x, NEW next, Commits(w, x, next)
      PROVE  (Numbered(Pinned) /\ Walked(Pinned))'
  <2>1. Pinned' = x /\ Walked(x) /\ Numbered(x) /\ asked' = asked
    BY <1>2, CommitsWalked DEF Commits
  <2>2. QED
    BY <2>1 DEF Numbered
<1>3. QED
  BY <1>1, <1>2, GraphShapes

\* An answer that a commit uses up, or that was used up, is settled.
LEMMA AnswersStep ==
  ASSUME GraphInv, GraphSteps, Typed
  PROVE  AnswersAreSettled'
<1>0. /\ run \in RunRecords /\ run' \in RunRecords /\ run.revision \in Nat
      /\ AnswersAreSettled /\ Recorded /\ TypeOK
      /\ \A i \in Inputs : /\ run.inputs[i] \in InboundInputs /\ run'.inputs[i] \in InboundInputs
                           /\ run.inputs[i].consumed \in Nat
      /\ \A n \in Tasks : run.tasks[n].adopted \in Nat
  BY RecordFields DEF GraphInv, IInv, TypeOK, Typed, InboundInputs, Results
<1>1. CASE Rests(run, run')
  <2>1. Pinned' = Pinned /\ run'.tasks = run.tasks
    BY <1>1 DEF Rests, Keeps, Pinned
  <2>2. \A i \in Inputs : run'.inputs[i].consumed # 0 => run'.inputs[i] = run.inputs[i]
    BY <1>1 DEF Rests
  <2>3. QED
    BY <1>0, <2>1, <2>2 DEF AnswersAreSettled
<1>2. ASSUME NEW w \in Workers, NEW x, NEW next, Commits(w, x, next) PROVE AnswersAreSettled'
  <2>1. PICK C \in SUBSET session[w].given :
          Spends(C) /\ \A i \in C : Pending(run.inputs[i]) /\ run.inputs[i].target \notin x.waiting
    BY <1>2 DEF Commits
  <2>2. /\ x \in Frontiers /\ session[w].x \in Frontiers /\ Pinned' = x
        /\ Faithful(w) /\ Aim(w) \in Underway /\ Fresh(w)
    BY <1>2, CommitsWalked DEF Commits, GraphInv, Aim, Underway
  <2>3. \/ x = session[w].x
        \/ Completes(session[w].x, Node(w), x)
    BY <1>2 DEF Commits
  \* A question still waits, or its node has been completed by this commit.
  <2>4. ASSUME NEW q \in session[w].x.waiting, q \notin x.waiting
        PROVE  run'.tasks[q[1]].adopted = run.revision + 1
    <3>1. Completes(session[w].x, Node(w), x) /\ q[1] = Node(w) /\ q[1] \in Tasks
      BY <2>2, <2>3, <2>4, FrontierFields DEF Completes
    <3>2. q[1] \in x.completed \ session[w].x.completed
      BY <3>1 DEF Completes, Walked
    <3>3. QED
      BY <1>2, <3>1, <3>2 DEF Commits
  <2> SUFFICES ASSUME NEW i \in Inputs, run'.inputs[i].consumed # 0, run'.inputs[i].target # NoTarget
               PROVE  LET t == run'.inputs[i].target
                      IN \/ run'.tasks[t[1]].adopted >= run'.inputs[i].consumed
                         \/ \E q \in x.waiting : q[1] = t[1] /\ q[2] > t[2]
    BY <2>2 DEF AnswersAreSettled
  <2> DEFINE t == run.inputs[i].target
  <2>5. /\ run'.inputs[i].target = t
        /\ run'.inputs[i].consumed = IF i \in C THEN run.revision + 1 ELSE run.inputs[i].consumed
    BY <1>0, <2>1, SpendsFields
  <2>6. t \in Questions /\ t = <<t[1], t[2]>> /\ t[2] \in Nat /\ t[1] \in Tasks
    <3>1. t \in Questions
      BY <1>0, <2>5, PlanFacts DEF InboundInputs
    <3>2. \A u \in Questions : u = <<u[1], u[2]>> /\ u[2] \in Nat /\ u[1] \in Tasks
      BY PlanFacts DEF Questions
    <3>3. QED
      BY <3>1, <3>2
  <2> HIDE DEF t
  <2>7. CASE i \in C
    <3>1. Pending(run.inputs[i]) /\ t \notin x.waiting
      BY <2>1, <2>7 DEF t
    <3>2. PICK q \in session[w].x.waiting : q[1] = t[1] /\ q[2] >= t[2]
      BY <2>1, <2>2, <2>5, <2>7, <3>1 DEF Faithful, Answering, t
    <3>3. CASE q \in x.waiting
      <4>1. q = <<q[1], q[2]>> /\ q[2] \in Nat
        <5>1. q \in Questions
          BY <2>2, <3>3, FrontierFields
        <5>2. QED
          BY <5>1 DEF Questions
      <4>2. q[2] # t[2]
        BY <2>6, <3>1, <3>2, <3>3, <4>1
      <4>3. QED
        BY <2>5, <2>6, <3>2, <3>3, <4>1, <4>2
    <3>4. CASE q \notin x.waiting
      BY <1>0, <2>4, <2>5, <2>7, <3>2, <3>4
    <3>5. QED
      BY <3>3, <3>4
  <2>8. CASE i \notin C
    <3>1. run.inputs[i].consumed # 0 /\ run.inputs[i].consumed <= run.revision
      BY <1>0, <2>5, <2>8 DEF Recorded
    <3>2. CASE run.tasks[t[1]].adopted >= run.inputs[i].consumed
      <4>1. run.tasks[t[1]].adopted # 0
        BY <1>0, <2>6, <3>1, <3>2
      <4>2. run'.tasks[t[1]].adopted = run.tasks[t[1]].adopted
        BY <1>2, <2>6, <4>1 DEF Commits
      <4>3. QED
        BY <2>5, <2>8, <3>2, <4>2
    <3>3. CASE \E p \in Pinned.waiting : p[1] = t[1] /\ p[2] > t[2]
      <4>1. PICK p \in Pinned.waiting : p[1] = t[1] /\ p[2] > t[2]
        BY <3>3
      <4>2. PICK q \in session[w].x.waiting : q[1] = p[1] /\ q[2] >= p[2]
        BY <2>2, <4>1 DEF Faithful, Follows
      <4>3. p[2] \in Nat /\ q[2] \in Nat
        BY <2>2, <4>1, <4>2, PinnedFrontier, FrontierFields
      <4>4. CASE q \in x.waiting
        BY <2>5, <2>6, <4>1, <4>2, <4>3, <4>4
      <4>5. CASE q \notin x.waiting
        <5>1. run'.tasks[t[1]].adopted = run.revision + 1
          BY <2>4, <4>1, <4>2, <4>5
        <5>2. QED
          BY <1>0, <2>5, <2>8, <3>1, <5>1
      <4>6. QED
        BY <4>4, <4>5
    <3>4. QED
      BY <1>0, <3>1, <3>2, <3>3, <2>5 DEF AnswersAreSettled, t
  <2>9. QED
    BY <2>7, <2>8
<1>3. QED
  BY <1>1, <1>2, GraphShapes

-----------------------------------------------------------------------------
\* The invariant holds.

LEMMA FaithfulStep ==
  ASSUME GraphInv, GraphSteps, Typed, Grown, NEW v \in Workers
  PROVE  Faithful(v)'
<1>1. CASE Calm
  BY <1>1, FaithfulRests, FaithfulGone DEF Calm
<1>2. ASSUME NEW w \in Workers, Doing(w), w # v PROVE Faithful(v)'
  <2>1. CASE Committing(w)
    BY <1>2, <2>1, CommittingCommits, FaithfulBeside
  <2>2. CASE ~Committing(w)
    <3>1. run' = run /\ Others(w)
      BY <1>2, <2>2
         DEF Doing, Loading, Rereading, Walking, Succeeding, Questioning, Failing, Works, Turns
    <3>2. Same(v) /\ Rests(run, run')
      BY <1>2, <3>1, RestsRun DEF Others, Same, GraphInv, IInv, TypeOK
    <3>3. QED
      BY <3>2, FaithfulRests
  <2>3. QED
    BY <2>1, <2>2
<1>3. CASE Doing(v)
  <2>1. CASE Committing(v)
    BY <2>1, CommittingCommits, FaithfulCommits
  <2>2. QED
    BY <1>3, <2>1, FaithfulLoading, FaithfulRereading, FaithfulWalking, FaithfulSucceeding,
       FaithfulQuestioning DEF Doing
<1>4. QED
  BY <1>1, <1>2, <1>3 DEF GraphSteps

LEMMA GraphInvStep ==
  ASSUME GraphInv, [Next]_durable_graph_vars
  PROVE  GraphInv'
<1>1. IInv'
  BY Inductive DEF GraphInv
<1>2. Typed /\ GraphSteps /\ Grown
  <2>1. CASE Next
    <3>1. Typed /\ Steps1
      BY <2>1, StepKinds DEF GraphInv, IInv
    <3>2. QED
      BY <2>1, <3>1, StepsGrow, GraphKinds DEF GraphInv, IInv
  <2>2. CASE UNCHANGED durable_graph_vars
    <3>1. Typed /\ Calm
      BY <2>2, RestsRun DEF durable_graph_vars, GraphInv, IInv, TypeOK, Typed, Calm, Same
    <3>2. Grown
      BY <2>2 DEF durable_graph_vars, GraphInv, IInv, TypeOK, Grown
    <3>3. QED
      BY <3>1, <3>2 DEF GraphSteps
  <2>3. QED
    BY <2>1, <2>2
<1>3. Recorded' /\ (Numbered(Pinned) /\ Walked(Pinned))' /\ AnswersAreSettled'
  BY <1>2, RecordedStep, PinnedStep, AnswersStep
<1>4. \A v \in Workers : Faithful(v)'
  BY <1>2, FaithfulStep
<1>5. QED
  BY <1>1, <1>3, <1>4 DEF GraphInv

LEMMA GraphInvInit ==
  ASSUME Snapshots = Frontiers, Init
  PROVE  GraphInv
<1>1. IInv
  BY IInvInit
<1>2. /\ run = Submitted(Ingress) /\ run \in RunRecords /\ run.revision = 0 /\ run.fence \in Nat
      /\ run.activations = AbsentRun.activations /\ run.tasks = AbsentRun.tasks
      /\ Pinned = Begin
  BY SubmittedFields, RecordFields DEF Init, Pinned
<1>3. /\ \A w \in Workers : session[w] = Idle
      /\ \A n \in Tasks : ran[n] = 0
  BY DEF Init
<1>4. \A i \in Inputs : run.inputs[i].consumed = 0
  BY <1>2, PlanFacts DEF Submitted, AbsentRun, NoInput
<1>5. \A n \in Tasks : /\ AbsentRun.activations[n].attempt = 0
                       /\ AbsentRun.tasks[n].status = "absent"
  BY DEF AbsentRun, NoActivation, NoResult
<1>6. Recorded
  BY <1>2, <1>3, <1>4, <1>5 DEF Recorded
<1>7. ASSUME NEW w \in Workers PROVE Faithful(w)
  <2>1. /\ session[w].at = "idle" /\ session[w].next = "none" /\ session[w].view = AbsentRun
        /\ session[w].fence = 0 /\ session[w].x = Begin
    BY <1>3 DEF Idle
  <2>2. /\ Aim(w) = "idle" /\ Aim(w) \notin Underway /\ session[w].at \in Resting
        /\ session[w].at \notin Underway \cup {"reread"}
    BY <2>1 DEF Aim, Underway, Resting
  <2>3. QED
    BY <1>2, <1>5, <2>1, <2>2, BeginFields, BeginWalks
       DEF Faithful, Authority, Entitled, Heading, Follows, Informed, Answering, Numbered
<1>8. Numbered(Pinned) /\ Walked(Pinned)
  BY <1>2, BeginFields, BeginWalks DEF Numbered
<1>9. AnswersAreSettled
  BY <1>4 DEF AnswersAreSettled
<1>10. QED
  BY <1>1, <1>6, <1>7, <1>8, <1>9 DEF GraphInv

LEMMA GraphInvHolds ==
  ASSUME Snapshots = Frontiers
  PROVE  Spec => []GraphInv
<1>1. Init => GraphInv
  BY GraphInvInit
<1>2. GraphInv /\ [Next]_durable_graph_vars => GraphInv'
  BY GraphInvStep
<1>3. QED
  BY <1>1, <1>2, PTL DEF Spec

\* A session that is refused, or reads back another revision than its own, has lost the
\* run by then, or wanted to adopt a node that failed on record before it succeeded.
THEOREM OnlyLosersGiveUp ==
  ASSUME Snapshots = Frontiers
  PROVE  Spec => []LosersHaveLost
<1>1. GraphInv => LosersHaveLost
  BY DEF GraphInv, Faithful, Lost, LosersHaveLost
<1>2. QED
  BY <1>1, GraphInvHolds, PTL

\* An answer is used up with what came of it: its node is adopted no earlier, or waits
\* for the answer to a later question.
THEOREM AnswersAreNotLost ==
  ASSUME Snapshots = Frontiers
  PROVE  Spec => []AnswersAreSettled
<1>1. GraphInv => AnswersAreSettled
  BY DEF GraphInv
<1>2. QED
  BY <1>1, GraphInvHolds, PTL

-----------------------------------------------------------------------------
(***************************************************************************)
(* The run implements GraphRun: its pinned snapshots walk the plan once.   *)
(***************************************************************************)

Calls == [n \in Tasks |-> IF n \in Pinned.completed THEN Pinned.chosen[n] ELSE {}]

LEMMA PlainUnderWay ==
  ASSUME \A m \in Pinned.completed : m \in Tasks
  PROVE  Plain!UnderWay = Started(Pinned)
<1>1. \A m \in Pinned.completed : Calls[m] = Pinned.chosen[m]
  BY DEF Calls
<1>2. Plain!UnderWay = {n \in Tasks \ Pinned.completed :
                          n = Entry \/ \E m \in Pinned.completed : n \in Calls[m]}
  BY DEF Plain!UnderWay, Calls
<1>3. QED
  BY <1>1, <1>2 DEF Started, Selected

\* A route the scheduler may choose is one the plan allows.
LEMMA PlainRoutes ==
  ASSUME NEW n \in Tasks, NEW route \in Routes(n)
  PROVE  route \in Plain!Routes(n)
<1>1. CASE Branches[n] = {}
  <2>1. route = Fixed[n] \cup {}
    BY <1>1 DEF Routes
  <2>2. {} \in (IF Branches[n] = {} THEN {{}} ELSE {{m} : m \in Branches[n]})
    BY <1>1
  <2>3. QED
    BY <2>1, <2>2 DEF Plain!Routes
<1>2. CASE Branches[n] # {}
  <2>1. PICK m \in Branches[n] : route = Fixed[n] \cup {m}
    BY <1>2 DEF Routes
  <2>2. {m} \in (IF Branches[n] = {} THEN {{}} ELSE {{k} : k \in Branches[n]})
    BY <1>2
  <2>3. QED
    BY <2>1, <2>2 DEF Plain!Routes
<1>3. QED
  BY <1>1, <1>2

\* Nothing under way may still lead to a node that is ready.
LEMMA NothingAbove ==
  ASSUME NEW x \in Frontiers, Walked(x), NEW n \in x.ready, NEW m \in Started(x)
  PROVE  n \notin Plain!Below[m]
<1> DEFINE S == {k \in Tasks : /\ k \notin Settled(x) /\ k \notin x.ready \cup Waiters(x)
                               /\ Place(Entry) <= Place(k)}
<1>1. \A k \in Tasks : Plain!Leads[k] = Leads(k)
  BY DEF Plain!Leads, Leads
<1>2. ASSUME NEW k \in Tasks, k \notin Settled(x), Place(Entry) <= Place(k)
      PROVE  Plain!Leads[k] \subseteq S
  BY <1>1, <1>2, UnsettledLeads
<1>3. m \in Tasks /\ Plain!Leads[m] \subseteq S
  BY <1>2, StartedFacts DEF Started
<1>4. \A k \in S : Plain!Leads[k] \subseteq S
  BY <1>2
<1>5. S \in SUBSET Tasks /\ n \notin S
  OBVIOUS
<1> HIDE DEF S
<1>6. Plain!Below[m] = {j \in Tasks : \A T \in SUBSET Tasks :
                         (Plain!Leads[m] \subseteq T /\ \A k \in T : Plain!Leads[k] \subseteq T) => j \in T}
  BY <1>3 DEF Plain!Below
<1>7. QED
  BY <1>3, <1>4, <1>5, <1>6

\* Where everything that was begun has been completed or skipped, nothing is under way.
LEMMA NothingUnderWay ==
  ASSUME NEW x \in Frontiers, Walked(x), x.ready = {}, x.waiting = {}, ~Stalled(x)
  PROVE  Started(x) = {}
<1> SUFFICES ASSUME NEW n \in Started(x) PROVE FALSE
  OBVIOUS
<1>1. Entry \in x.completed
  BY DEF Walked, Waiters
<1>2. n \in Tasks /\ n \notin Settled(x) /\ Selected(x, n)
  BY <1>1, StartedFacts DEF Started
<1>3. PICK m \in x.completed : m \in Deps(n)
  BY <1>2, SelectedFacts
<1>4. m \in Settled(x)
  BY DEF Settled
<1>5. QED
  BY <1>2, <1>3, <1>4 DEF Stalled, Settled

\* What a commit makes of the pinned snapshot.
LEMMA CommitsCall ==
  ASSUME GraphInv, NEW w \in Workers, NEW x, NEW next, Commits(w, x, next)
  PROVE  /\ session[w].x \in Frontiers /\ Walked(session[w].x)
         /\ session[w].x.completed = Pinned.completed /\ Pinned' = x
         /\ \A m \in Pinned.completed : m \in Tasks /\ session[w].x.chosen[m] = Pinned.chosen[m]
         /\ Started(session[w].x) = Started(Pinned)
<1>1. /\ session[w].x \in Frontiers /\ Walked(session[w].x) /\ Pinned' = x
      /\ Follows(w) /\ Aim(w) \in Underway /\ Fresh(w) /\ TypeOK /\ Positioned
      /\ Pinned \in Frontiers
  BY CommitsWalked, PinnedFrontier DEF Commits, GraphInv, Faithful, IInv, Aim, Underway
<1>2. /\ session[w].x.completed = Pinned.completed
      /\ \A m \in Tasks \ Unsaved(w) : session[w].x.chosen[m] = Pinned.chosen[m]
  BY <1>1 DEF Follows
<1>3. \A m \in Pinned.completed : m \in Tasks /\ m \notin Unsaved(w)
  <2>1. session[w].at = "save" => Node(w) \in session[w].x.ready
    BY <1>1, WorkingNode DEF Aim
  <2>2. QED
    BY <1>1, <1>2, <2>1, FrontierFields DEF Unsaved, Walked
<1>4. Started(session[w].x) = Started(Pinned)
  BY <1>2, <1>3 DEF Started, Selected
<1>5. QED
  BY <1>1, <1>2, <1>3, <1>4

LEMMA PlainCompletes ==
  ASSUME NEW n \in Tasks, NEW route \in Plain!Routes(n),
         run.status # "succeeded", run'.status # "succeeded",
         n \notin Pinned.completed, Pinned'.completed = Pinned.completed \cup {n},
         n \in Plain!UnderWay, \A m \in Plain!UnderWay : n \notin Plain!Below[m],
         Calls' = [Calls EXCEPT ![n] = route]
  PROVE  Plain!Next
<1>1. Plain!Complete(n)
  BY DEF Plain!Complete, Calls
<1>2. QED
  BY <1>1 DEF Plain!Next

LEMMA PlainStep ==
  ASSUME GraphInv, [Next]_durable_graph_vars
  PROVE  [Plain!Next]_(Plain!graph_vars)
<1>1. CASE UNCHANGED durable_graph_vars
  <2>1. run' = run /\ Pinned' = Pinned
    BY <1>1 DEF durable_graph_vars, Pinned
  <2>2. QED
    BY <2>1 DEF Plain!graph_vars
<1>2. CASE Rests(run, run')
  <2>1. Pinned' = Pinned /\ (run'.status = "succeeded" <=> run.status = "succeeded")
    BY <1>2 DEF Rests, Keeps, Pinned
  <2>2. QED
    BY <2>1 DEF Plain!graph_vars
<1>3. ASSUME NEW w \in Workers, NEW x, NEW next, Commits(w, x, next)
      PROVE  [Plain!Next]_(Plain!graph_vars)
  <2> DEFINE y == session[w].x
             n == Node(w)
  <2>1. /\ y \in Frontiers /\ Walked(y) /\ y.completed = Pinned.completed /\ Pinned' = x
        /\ \A m \in Pinned.completed : m \in Tasks /\ y.chosen[m] = Pinned.chosen[m]
        /\ Started(y) = Started(Pinned)
    BY <1>3, CommitsCall
  <2>2. run.status # "succeeded"
    BY <1>3 DEF Commits, Pins, Live, Terminal
  <2>3. CASE x = y
    <3>1. Pinned'.completed = Pinned.completed /\ Calls' = Calls
      BY <2>1, <2>3 DEF Calls
    <3>2. CASE run'.status = "succeeded"
      <4>1. Ending(w)
        BY <1>3, <3>2 DEF Commits
      <4>2. Plain!UnderWay = {}
        BY <2>1, <4>1, PlainUnderWay, NothingUnderWay DEF Ending
      <4>3. Plain!End
        BY <2>2, <3>1, <3>2, <4>2 DEF Plain!End, Calls
      <4>4. QED
        BY <4>3 DEF Plain!Next
    <3>3. CASE run'.status # "succeeded"
      BY <2>2, <3>1, <3>3 DEF Plain!graph_vars, Calls
    <3>4. QED
      BY <3>2, <3>3
  <2>4. CASE Completes(y, n, x)
    <3>1. /\ n \in Tasks /\ n \in y.ready /\ n \in y.results /\ n \notin y.completed
          /\ x.completed = y.completed \cup {n} /\ x.chosen = y.chosen
      BY <2>4, CompletesSettles DEF Completes
    <3>2. run'.status # "succeeded"
      BY <1>3, <3>1 DEF Commits
    <3>3. x.chosen[n] \in Plain!Routes(n)
      BY <2>1, <3>1, PlainRoutes DEF Walked
    <3>4. Calls' = [Calls EXCEPT ![n] = x.chosen[n]]
      <4>1. \A m \in Tasks : Calls'[m] = IF m = n THEN x.chosen[n] ELSE Calls[m]
        <5> HIDE DEF y, n
        <5> QED  BY <2>1, <3>1 DEF Calls
      <4>2. QED
        <5> HIDE DEF n
        <5> QED  BY <4>1, <3>1 DEF Calls
    <3>5. n \in Plain!UnderWay /\ \A m \in Plain!UnderWay : n \notin Plain!Below[m]
      <4>1. n \in Started(y) /\ \A m \in Started(y) : n \notin Plain!Below[m]
        BY <2>1, <3>1, ReadyIsStarted, NothingAbove
      <4>2. QED
        BY <2>1, <4>1, PlainUnderWay
    <3>6. n \notin Pinned.completed /\ Pinned'.completed = Pinned.completed \cup {n}
      BY <2>1, <3>1
    <3>7. Plain!Next
      <4> HIDE DEF y, n
      <4> QED  BY <2>2, <3>1, <3>2, <3>3, <3>4, <3>5, <3>6, PlainCompletes
    <3>8. QED
      BY <3>7
  <2>5. QED
    BY <1>3, <2>3, <2>4 DEF Commits
<1>4. CASE Next
  BY <1>2, <1>3, <1>4, GraphKinds, GraphShapes
<1>5. QED
  BY <1>1, <1>4

\* Whatever happens to its sessions, the run's snapshots walk the plan as one
\* uninterrupted execution would: each node once, after everything that may call it, along
\* the one route it chose first, and success only when nothing is left.
THEOREM GraphIsOneWalk ==
  ASSUME Snapshots = Frontiers
  PROVE  Spec => GraphIsWalkedOnce
<1>1. Init => Plain!Init
  <2> SUFFICES ASSUME Init PROVE Plain!Init
    OBVIOUS
  <2>1. Pinned = Begin /\ Begin.completed = {} /\ run.status = "queued"
    BY SubmittedFields, BeginFields DEF Init, Pinned, Submitted, AbsentRun
  <2>2. QED
    BY <2>1 DEF Plain!Init
<1>2. GraphInv /\ [Next]_durable_graph_vars => [Plain!Next]_(Plain!graph_vars)
  BY PlainStep
<1>3. QED
  BY <1>1, <1>2, GraphInvHolds, PTL DEF Spec, GraphIsWalkedOnce, Plain!Spec
=============================================================================
