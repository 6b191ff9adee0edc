------------------------ MODULE DurableRunnerProofs ------------------------
(***************************************************************************)
(* Theorems about DurableRunner for every set of workers, every number of  *)
(* tasks, every choice of model calls and replay-safe tools, and any       *)
(* number of faults.                                                       *)
(***************************************************************************)
EXTENDS DurableRunner, RunRecordProofs

-----------------------------------------------------------------------------
(***************************************************************************)
(* The inductive invariant.                                                *)
(***************************************************************************)

\* The step a session is at, or goes to when its commit has been read back.
Aim(w) == IF pc[w] = "reread" THEN after[w].step ELSE pc[w]
Working == {"turn", "dispatch", "execute", "running", "archive", "record",
            "save", "reconcile", "note", "finish"}
Resumable == {"turn", "dispatch", "execute", "save", "note", "finish", "stop"}

\* Where a session is fits what it carries: it has a task left to do, the status it
\* finishes with, and a fence.
Position(w) ==
  /\ pc[w] = "reread" => after[w].step \in Resumable
  /\ Aim(w) \in Working => at[w] < Length
  /\ Aim(w) \in {"note", "finish"} => exit[w] # "none"
  /\ pc[w] # "idle" => fence[w] # 0
Positioned == \A w \in Workers : Position(w)

\* A copy of the record is never ahead of it, and at the same revision it is the same.
Recorded(r, t) == r.tasks[t].status # "absent"
ViewsLag ==
  /\ run.revision = 0 => run.activations = AbsentRun.activations /\ run.tasks = AbsentRun.tasks
  /\ \A w \in Workers :
       /\ view[w].revision <= run.revision
       /\ view[w].revision = run.revision =>
            view[w].activations = run.activations /\ view[w].tasks = run.tasks
       /\ \A t \in Tasks : Recorded(view[w], t) => Recorded(run, t)

\* The activation of an unsafe task is the permission to execute it, and there is one.
Heading(w, t) == Aim(w) = "execute" /\ Task(w) = t
Permitted ==
  \A t \in Tasks : Unsafe(t) =>
    /\ effects[t] <= 1
    /\ run.activations[t].attempt = 0 => effects[t] = 0 /\ \A w \in Workers : ~Heading(w, t)
    /\ effects[t] = 1 => \A w \in Workers : ~Heading(w, t)
    /\ \A v, w \in Workers : Heading(v, t) /\ Heading(w, t) => v = w

\* A receipt is of something that was executed, and a result is archived before it is
\* recorded.
Archived ==
  /\ \A r \in receipts : effects[r.task] > 0
  /\ \A w \in Workers :
       /\ pc[w] \in {"running", "archive", "record"} => effects[Task(w)] > 0
       /\ pc[w] = "record" => Receipt(w) \in receipts

Earned ==
  \A t \in Tasks : Recorded(run, t) =>
    /\ run.tasks[t].attempt # 0 /\ run.tasks[t].attempt = run.activations[t].attempt
    /\ \E r \in receipts : r.task = t /\ ResultOf(r) = WithoutAdoption(run.tasks[t])

\* The tasks a session has behind it are in the record, and so is the result it is about
\* to save.
Backed(r, t) == Recorded(r, t) /\ (r.tasks[t].status = "succeeded" => r.tasks[t].adopted # 0)
Behind ==
  \A w \in Workers :
    /\ Aim(w) \in Working => \A t \in Tasks : t <= at[w] => Backed(run, t)
    /\ Aim(w) \in {"save", "reconcile"} => Recorded(run, Task(w))

\* While a session has the run, the run's snapshot is the session's position.
InPlace ==
  \A w \in Workers :
    /\ fence[w] <= run.fence
    /\ Aim(w) \in Working /\ run.owner = w /\ run.fence = fence[w] => run.snapshot = at[w]

-----------------------------------------------------------------------------
\* The requests of a session are well formed and carry its authority.

Sealed(w, q) ==
  /\ q \in Requests /\ q.owner = w /\ q.fence = fence[w] /\ q.expected = view[w].revision

LEMMA DraftFields ==
  ASSUME TypeOK, NEW w \in Workers
  PROVE  /\ Sealed(w, Draft(w))
         /\ Draft(w).activate = EmptyRequest.activate
         /\ Draft(w).results = EmptyRequest.results
         /\ Draft(w).adopt = {} /\ Draft(w).snapshot = NoSnapshot
<1>1. view[w].revision \in Nat
  BY RecordFields DEF TypeOK
<1>2. QED
  BY <1>1, AbsentRunType DEF Sealed, Draft, EmptyRequest, Requests, TypeOK

LEMMA EmptyFields ==
  /\ EmptyRequest.activate = [t \in Tasks |-> NoActivation]
  /\ EmptyRequest.results = [t \in Tasks |-> NoResult]
BY DEF EmptyRequest

LEMMA ActivateFields ==
  ASSUME TypeOK, NEW w \in Workers, Task(w) \in Tasks, NEW n \in Nat
  PROVE  LET q == [Draft(w) EXCEPT !.events = 0,
                     !.activate[Task(w)] = [attempt |-> fence[w], read |-> n]]
         IN /\ Sealed(w, q)
            /\ q.activate = [EmptyRequest.activate EXCEPT
                               ![Task(w)] = [attempt |-> fence[w], read |-> n]]
            /\ q.results = EmptyRequest.results
            /\ q.adopt = {} /\ q.snapshot = NoSnapshot
<1> DEFINE d == [Draft(w) EXCEPT !.events = 0]
           a == [attempt |-> fence[w], read |-> n]
           q == [d EXCEPT !.activate[Task(w)] = a]
<1>1. /\ Sealed(w, d) /\ d.activate = EmptyRequest.activate
      /\ d.results = EmptyRequest.results /\ d.adopt = {} /\ d.snapshot = NoSnapshot
  BY DraftFields DEF Sealed, Requests
<1>2. a \in Activations
  BY DEF Activations, TypeOK
<1>3. /\ Sealed(w, q) /\ q.activate = [d.activate EXCEPT ![Task(w)] = a]
      /\ q.results = d.results /\ q.adopt = d.adopt /\ q.snapshot = d.snapshot
  <2> HIDE DEF d, a
  <2> QED  BY <1>1, <1>2 DEF Sealed, Requests
<1>4. QED
  BY <1>1, <1>3

LEMMA ResultFields ==
  ASSUME TypeOK, NEW w \in Workers, NEW t \in Tasks, NEW result \in Results
  PROVE  LET q == [Draft(w) EXCEPT !.results[t] = result]
         IN /\ Sealed(w, q)
            /\ q.activate = EmptyRequest.activate
            /\ q.results = [EmptyRequest.results EXCEPT ![t] = result]
            /\ q.adopt = {} /\ q.snapshot = NoSnapshot
<1> DEFINE d == Draft(w)
           q == [d EXCEPT !.results[t] = result]
<1>1. /\ Sealed(w, q) /\ q.results = [d.results EXCEPT ![t] = result]
      /\ q.activate = d.activate /\ q.adopt = d.adopt /\ q.snapshot = d.snapshot
  <2> /\ Sealed(w, d)
    BY DraftFields
  <2> HIDE DEF d
  <2> QED  BY DEF Sealed, Requests
<1>2. QED
  BY <1>1, DraftFields

LEMMA PinnedFields ==
  ASSUME TypeOK, NEW w \in Workers, NEW n \in 0..Length
  PROVE  /\ Sealed(w, Pinned(w, n))
         /\ Pinned(w, n).activate = EmptyRequest.activate
         /\ Pinned(w, n).results = EmptyRequest.results
         /\ Pinned(w, n).adopt = {t \in Tasks : t = Task(w) /\ t <= n /\ Adoptable(w, t)}
         /\ Pinned(w, n).snapshot = n
<1> DEFINE d == Draft(w)
           A == {t \in Tasks : t = Task(w) /\ t <= n /\ Adoptable(w, t)}
           C == {i \in Inputs : i = Ingress /\ view[w].snapshot = NoSnapshot
                                 /\ view[w].inputs[i].consumed = 0}
           s == IF n = Length THEN "succeeded" ELSE "running"
           W == [declared |-> TRUE, targets |-> {}]
           a == [d EXCEPT !.snapshot = n, !.adopt = A, !.consume = C]
           b == [a EXCEPT !.status = s, !.waiting = W]
<1>1. Pinned(w, n) = b
  BY DEF Pinned
<1>2. /\ Sealed(w, a) /\ a.activate = d.activate /\ a.results = d.results
      /\ a.adopt = A /\ a.snapshot = n
  <2>1. n \in Snapshots \cup {NoSnapshot} /\ A \subseteq Tasks /\ C \subseteq Inputs
    BY PlanAssumption
  <2>2. Sealed(w, d)
    BY DraftFields
  <2> HIDE DEF d, A, C
  <2> QED  BY <2>1, <2>2 DEF Sealed, Requests
<1>3. /\ Sealed(w, b) /\ b.activate = a.activate /\ b.results = a.results
      /\ b.adopt = a.adopt /\ b.snapshot = a.snapshot
  <2>1. s \in Statuses \cup {"keep"} /\ W \in WaitingSets
    BY DEF Statuses, Terminal, WaitingSets
  <2> HIDE DEF a, s, W
  <2> QED  BY <1>2, <2>1 DEF Sealed, Requests
<1>4. QED
  BY <1>1, <1>2, <1>3, DraftFields

LEMMA StatusFields ==
  ASSUME TypeOK, NEW w \in Workers, exit[w] # "none"
  PROVE  LET q == [Draft(w) EXCEPT !.status = exit[w]]
         IN /\ Sealed(w, q)
            /\ q.activate = EmptyRequest.activate
            /\ q.results = EmptyRequest.results
            /\ q.adopt = {} /\ q.snapshot = NoSnapshot
<1>1. exit[w] \in Statuses
  BY DEF TypeOK, Exits, Statuses, Terminal
<1>2. QED
  BY <1>1, DraftFields DEF Sealed, Requests
-----------------------------------------------------------------------------
\* What a commit comes to, and what it leaves in the record.

LEMMA CommitCases ==
  ASSUME TypeOK, NEW w \in Workers, NEW q, NEW next, Commit(w, q, next)
  PROVE  /\ faults' \in 0..MaxFaults
         /\ \/ run' = run /\ after' = after /\ pc' = [pc EXCEPT ![w] = "stop"]
            \/ /\ CommitOK(run, q) /\ run' = Committed(run, q)
               /\ after' = [after EXCEPT ![w] = next] /\ pc' = [pc EXCEPT ![w] = "reread"]
<1>1. MaxFaults \in Nat /\ faults \in 0..MaxFaults
  BY PlanAssumption DEF TypeOK
<1>2. CASE UNCHANGED <<run, after, faults>> /\ Goto(w, "stop")
  BY <1>1, <1>2 DEF Goto
<1>3. CASE Applied(w, q, next)
  BY <1>1, <1>3 DEF Applied, Goto
<1>4. CASE NotApplied(w, q)
  BY <1>1, <1>4 DEF NotApplied, Goto, Fault
<1>5. QED
  BY <1>2, <1>3, <1>4 DEF Commit

\* The record grows: what is in it stays in it.
Grows(r, s) ==
  /\ s.revision >= r.revision /\ s.fence >= r.fence
  /\ s.revision = r.revision => s.activations = r.activations /\ s.tasks = r.tasks
  /\ \A t \in Tasks :
       /\ r.activations[t].attempt # 0 => s.activations[t].attempt # 0
       /\ Recorded(r, t) => Recorded(s, t)
       /\ Backed(r, t) => Backed(s, t)

LEMMA CommitGrows ==
  ASSUME NEW r \in RunRecords, NEW q \in Requests, CommitOK(r, q)
  PROVE  Grows(r, Committed(r, q))
<1> DEFINE s == Committed(r, q)
<1>1. r.revision \in Nat /\ r.fence \in Nat /\ s.revision = r.revision + 1 /\ s.fence = r.fence
  BY RecordFields, CommittedFields
<1>2. ASSUME NEW t \in Tasks, r.activations[t].attempt # 0
      PROVE  s.activations[t].attempt # 0
  BY <1>2, CommittedFields
<1>3. ASSUME NEW t \in Tasks, Recorded(r, t)
      PROVE  /\ Recorded(s, t) /\ s.tasks[t].status = r.tasks[t].status
             /\ r.tasks[t].adopted # 0 => s.tasks[t].adopted # 0
  <2>1. /\ s.tasks[t].status = r.tasks[t].status
        /\ s.tasks[t].adopted = IF t \in q.adopt THEN r.revision + 1 ELSE r.tasks[t].adopted
    BY <1>3, CommittedTasks DEF Recorded
  <2>2. QED
    <3> HIDE DEF s
    <3> QED  BY <1>1, <1>3, <2>1 DEF Recorded
<1>4. Grows(r, s)
  <2> HIDE DEF s
  <2> QED  BY <1>1, <1>2, <1>3 DEF Grows, Backed
<1>5. QED
  BY <1>4

LEMMA SchedulingGrows ==
  ASSUME NEW r \in RunRecords
  PROVE  /\ \A w, n : Grows(r, Claimed(r, w, n))
         /\ Grows(r, Released(r)) /\ Grows(r, Cancelled(r)) /\ Grows(r, Aged(r))
         /\ Grows(r, r)
         /\ \A i, x : Grows(r, Signalled(r, i, x))
<1>1. r.revision \in Nat /\ r.fence \in Nat
  BY RecordFields
<1>2. \A s : SameFacts(r, s) /\ s.revision >= r.revision /\ s.fence >= r.fence => Grows(r, s)
  BY DEF SameFacts, Grows, Backed, Recorded
<1>3. \A w, n : Grows(r, Claimed(r, w, n))
  BY <1>1, <1>2, SchedulingFields, SchedulingFacts
<1>4. Grows(r, Released(r)) /\ Grows(r, Cancelled(r)) /\ Grows(r, Aged(r))
  BY <1>1, <1>2, SchedulingFields, SchedulingFacts
<1>5. Grows(r, r)
  BY <1>1 DEF Grows
<1>6. \A i, x : Grows(r, Signalled(r, i, x))
  BY <1>1, SignalledFields DEF Grows, Backed, Recorded
<1>7. QED
  BY <1>3, <1>4, <1>5, <1>6

-----------------------------------------------------------------------------
\* What a step of one session does to the record, and that it leaves the others alone.

CommitAction(w) ==
  \/ Turn(w) \/ Recover(w) \/ Activate(w) \/ Record(w)
  \/ \E answer \in {"handled", "unhandled", "canceled"} : Reconcile(w, answer)
  \/ Save(w) \/ Note(w) \/ Finish(w)

LEMMA WorkingTask ==
  ASSUME TypeOK, Positioned, NEW w \in Workers
  PROVE  /\ at[w] \in 0..Length
         /\ pc[w] \in Working => Aim(w) = pc[w]
         /\ Aim(w) \in Working =>
              Task(w) \in Tasks /\ Task(w) \in 0..Length /\ Task(w) = at[w] + 1
         /\ pc[w] \in Working => Task(w) \in Tasks /\ Task(w) \in 0..Length
<1>1. at[w] \in 0..Length /\ Length \in Nat /\ Tasks = 1..Length
  BY PlanAssumption DEF TypeOK
<1>2. pc[w] \in Working => Aim(w) = pc[w]
  BY DEF Working, Aim
<1>3. Aim(w) \in Working => at[w] < Length
  BY DEF Positioned, Position
<1>4. Aim(w) \in Working => Task(w) \in Tasks /\ Task(w) \in 0..Length /\ Task(w) = at[w] + 1
  BY <1>1, <1>3 DEF Task
<1>5. QED
  BY <1>1, <1>2, <1>4

LEMMA OriginalFields ==
  ASSUME TypeOK, NEW w \in Workers, NEW r \in Original(w)
  PROVE  r \in receipts /\ r.task = Task(w) /\ r.task \in Tasks /\ ResultOf(r) \in Results
BY DEF Original, TypeOK, ResultOf, Results

LEMMA ReceiptFields ==
  ASSUME TypeOK, NEW w \in Workers, Task(w) \in Tasks
  PROVE  /\ Receipt(w) \in [task : Tasks, attempt : Nat, read : Nat,
                           status : TaskStatuses, doubt : BOOLEAN]
         /\ Receipt(w).task = Task(w) /\ ResultOf(Receipt(w)) \in Results
<1>1. Activation(w).read \in Nat /\ fence[w] \in Nat
  <2>1. view[w].activations \in [Tasks -> Activations]
    BY RecordFields DEF TypeOK
  <2>2. QED
    BY <2>1 DEF Activation, Activations, TypeOK
<1>2. QED
  BY <1>1 DEF Receipt, ResultOf, Results, TaskStatuses, NeedsReconciliation

\* What a session may ask of the store: to record what a receipt says, and to move its
\* snapshot to where it stands.
Purpose(w, q) ==
  /\ Sealed(w, q)
  /\ \A t \in Tasks : q.results[t].status # "absent" =>
       \/ \E r \in receipts : r.task = t /\ ResultOf(r) = q.results[t]
       \/ pc[w] = "record" /\ t = Task(w) /\ ResultOf(Receipt(w)) = q.results[t]
  /\ \/ q.snapshot = NoSnapshot
     \/ Save(w) /\ q = Pinned(w, Task(w))
     \/ Note(w) /\ q = Pinned(w, at[w])

Stored(w) == \E q : Purpose(w, q) /\ CommitOK(run, q) /\ run' = Committed(run, q)

LEMMA NoResults ==
  ASSUME NEW w, NEW q, Sealed(w, q), q.results = EmptyRequest.results, q.snapshot = NoSnapshot
  PROVE  Purpose(w, q)
<1>1. \A t \in Tasks : q.results[t].status = "absent"
  BY EmptyFields DEF NoResult
<1>2. QED
  BY <1>1 DEF Purpose

LEMMA SessionCommits ==
  ASSUME TypeOK, Positioned, NEW w \in Workers, CommitAction(w)
  PROVE  faults' \in 0..MaxFaults /\ (run' = run \/ Stored(w))
<1> DEFINE Goal == faults' \in 0..MaxFaults /\ (run' = run \/ Stored(w))
<1> faults \in 0..MaxFaults
  BY DEF TypeOK
<1>0. /\ pc[w] \in Working => Task(w) \in Tasks /\ Task(w) \in 0..Length
      /\ at[w] \in 0..Length
  BY WorkingTask
<1>1. ASSUME NEW q, NEW next, Commit(w, q, next), Purpose(w, q) PROVE Goal
  BY <1>1, CommitCases DEF Stored
<1>2. Purpose(w, Draft(w))
  BY DraftFields, NoResults
<1>3. CASE Turn(w)
  BY <1>1, <1>2, <1>3 DEF Turn
<1>4. CASE Recover(w)
  <2>1. PICK r \in Original(w) :
          Commit(w, [Draft(w) EXCEPT !.results[r.task] = ResultOf(r)], InContext("dispatch"))
    BY <1>4 DEF Recover
  <2> DEFINE q == [Draft(w) EXCEPT !.results[r.task] = ResultOf(r)]
  <2>2. r \in receipts /\ r.task \in Tasks /\ ResultOf(r) \in Results
    BY OriginalFields
  <2>3. /\ Sealed(w, q) /\ q.results = [EmptyRequest.results EXCEPT ![r.task] = ResultOf(r)]
        /\ q.snapshot = NoSnapshot
    BY <2>2, ResultFields
  <2> HIDE DEF q
  <2>4. \A t \in Tasks : q.results[t].status # "absent" => r.task = t /\ ResultOf(r) = q.results[t]
    BY <2>2, <2>3, EmptyFields DEF NoResult
  <2>5. Purpose(w, q)
    BY <2>2, <2>3, <2>4 DEF Purpose
  <2>6. QED
    BY <1>1, <2>1, <2>5 DEF q
<1>5. CASE Activate(w)
  <2> DEFINE read == IF Activation(w).attempt = 0 THEN view[w].revision ELSE Activation(w).read
             q == [Draft(w) EXCEPT !.events = 0,
                    !.activate[Task(w)] = [attempt |-> fence[w], read |-> read]]
  <2>1. Task(w) \in Tasks
    BY <1>0, <1>5 DEF Activate, Unrecorded, Working
  <2>2. read \in Nat
    <3>1. view[w].activations \in [Tasks -> Activations] /\ view[w].revision \in Nat
      BY RecordFields DEF TypeOK
    <3>2. QED
      BY <2>1, <3>1 DEF Activation, Activations
  <2>3. Commit(w, q, InContext("execute"))
    BY <1>5 DEF Activate
  <2>4. Purpose(w, q)
    <3>1. Sealed(w, q) /\ q.results = EmptyRequest.results /\ q.snapshot = NoSnapshot
      <4> HIDE DEF read
      <4> QED  BY <2>1, <2>2, ActivateFields
    <3>2. QED
      <4> HIDE DEF q
      <4> QED  BY <3>1, NoResults
  <2>5. QED
    <3> HIDE DEF q
    <3> QED  BY <1>1, <2>3, <2>4
<1>6. CASE Record(w)
  <2> DEFINE r == Receipt(w)
             n == AfterResult(r.task, r.status, r.doubt)
             q == [Draft(w) EXCEPT !.results[r.task] = ResultOf(r)]
  <2>1. Task(w) \in Tasks /\ pc[w] = "record"
    BY <1>0, <1>6 DEF Record, Working
  <2>2. Commit(w, q, Detached(IF n = "reconcile" THEN "note" ELSE n))
    BY <1>6 DEF Record
  <2>3. /\ Sealed(w, q) /\ q.results = [EmptyRequest.results EXCEPT ![r.task] = ResultOf(r)]
        /\ q.snapshot = NoSnapshot /\ r.task = Task(w) /\ ResultOf(r) \in Results
    BY <2>1, ReceiptFields, ResultFields
  <2> HIDE DEF q, r, n
  <2>4. \A t \in Tasks : q.results[t].status # "absent" => Task(w) = t /\ ResultOf(r) = q.results[t]
    BY <2>1, <2>3, EmptyFields DEF NoResult
  <2>5. Purpose(w, q)
    BY <2>1, <2>3, <2>4 DEF Purpose, r
  <2>6. QED
    BY <1>1, <2>2, <2>5
<1>7. ASSUME NEW answer, Reconcile(w, answer) PROVE Goal
  BY <1>1, <1>2, <1>7 DEF Reconcile
<1>8. ASSUME NEW n \in 0..Length PROVE
        \A t \in Tasks : Pinned(w, n).results[t].status = "absent"
  BY <1>8, PinnedFields, EmptyFields DEF NoResult
<1>9. CASE Save(w)
  <2>1. Task(w) \in 0..Length
    BY <1>0, <1>9 DEF Save, Working
  <2>2. Purpose(w, Pinned(w, Task(w)))
    BY <1>8, <1>9, <2>1, PinnedFields DEF Purpose
  <2>3. QED
    BY <1>1, <1>9, <2>2 DEF Save
<1>10. CASE Note(w)
  <2>1. Purpose(w, Pinned(w, at[w]))
    BY <1>0, <1>8, <1>10, PinnedFields DEF Purpose
  <2>2. QED
    BY <1>1, <1>10, <2>1 DEF Note
<1>11. CASE Finish(w)
  <2> DEFINE q == [Draft(w) EXCEPT !.status = exit[w]]
  <2>1. exit[w] # "none"
    BY <1>11 DEF Finish, Positioned, Position, Aim
  <2>2. CASE Live(view[w])
    <3>1. Commit(w, q, Detached("stop"))
      BY <1>11, <2>2 DEF Finish
    <3>2. Sealed(w, q) /\ q.results = EmptyRequest.results /\ q.snapshot = NoSnapshot
      BY <2>1, StatusFields
    <3>3. QED
      <4> HIDE DEF q
      <4> QED  BY <1>1, <3>1, <3>2, NoResults
  <2>3. CASE ~Live(view[w])
    BY <1>11, <2>3 DEF Finish
  <2>4. QED
    BY <2>2, <2>3
<1>12. QED
  BY <1>3, <1>4, <1>5, <1>6, <1>7, <1>9, <1>10, <1>11 DEF CommitAction

LEMMA SubmittedFields ==
  ASSUME NEW i \in Inputs
  PROVE  /\ Submitted(i).revision = 0 /\ Submitted(i).fence = 0
         /\ Submitted(i).activations = AbsentRun.activations
         /\ Submitted(i).tasks = AbsentRun.tasks
         /\ Submitted(i).snapshot = NoSnapshot
         /\ Grows(AbsentRun, Submitted(i))
<1>1. /\ Submitted(i).revision = AbsentRun.revision /\ Submitted(i).fence = AbsentRun.fence
      /\ Submitted(i).activations = AbsentRun.activations
      /\ Submitted(i).tasks = AbsentRun.tasks
      /\ Submitted(i).snapshot = AbsentRun.snapshot
  BY DEF Submitted, AbsentRun
<1>2. AbsentRun.revision = 0 /\ AbsentRun.fence = 0 /\ AbsentRun.snapshot = NoSnapshot
  BY DEF AbsentRun
<1>3. QED
  BY <1>1, <1>2 DEF Grows, Backed, Recorded

\* Each step does to the record one of the things RunRecord says can be done to it.
RunStep ==
  \/ run' = run
  \/ run = AbsentRun /\ run' = Submitted(Ingress)
  \/ \E i \in Inputs : SignalOK(run, i, NoTarget) /\ run' = Signalled(run, i, NoTarget)
  \/ CancelOK(run) /\ run' = Cancelled(run)
  \/ run' = Aged(run)
  \/ \E w \in Workers : ClaimOK(run) /\ run' = Claimed(run, w, 1) /\ pc[w] = "idle"
  \/ run' = Released(run)
  \/ \E w \in Workers : CommitAction(w) /\ Stored(w)

LEMMA RunSteps ==
  ASSUME TypeOK, Positioned, Next
  PROVE  RunStep /\ faults' \in 0..MaxFaults
<1> MaxFaults \in Nat /\ faults \in 0..MaxFaults
  BY PlanAssumption DEF TypeOK
<1>1. CASE Submit
  BY <1>1 DEF Submit, RunStep
<1>2. ASSUME NEW i \in Inputs, Signal(i) PROVE RunStep /\ faults' \in 0..MaxFaults
  BY <1>2 DEF Signal, RunStep
<1>3. CASE Cancel
  BY <1>3 DEF Cancel, RunStep
<1>4. CASE Expire
  BY <1>4 DEF Expire, RunStep, Fault
<1>5. ASSUME NEW w \in Workers, Interrupt(w) PROVE RunStep /\ faults' \in 0..MaxFaults
  BY <1>5 DEF Interrupt, RunStep, Fault
<1>6. ASSUME NEW w \in Workers, Crash(w) PROVE RunStep /\ faults' \in 0..MaxFaults
  BY <1>6 DEF Crash, RunStep, Fault
<1>7. ASSUME NEW w \in Workers, Claim(w) PROVE RunStep /\ faults' \in 0..MaxFaults
  BY <1>7 DEF Claim, RunStep, Fault
<1>8. ASSUME NEW w \in Workers, Proceed(w) PROVE RunStep /\ faults' \in 0..MaxFaults
  <2>1. CASE CommitAction(w)
    BY <2>1, SessionCommits DEF RunStep
  <2>2. CASE Load(w) \/ Reuse(w) \/ GiveUp(w) \/ Execute(w)
    BY <2>2 DEF Load, Reuse, GiveUp, Execute, RunStep
  <2>3. CASE Reread(w)
    BY <2>3 DEF Reread, RunStep, Fault
  <2>4. ASSUME NEW o, Return(w, o) PROVE RunStep /\ faults' \in 0..MaxFaults
    BY <2>4 DEF Return, Returned, RunStep
  <2>5. CASE Archive(w)
    BY <2>5 DEF Archive, RunStep, Fault
  <2>6. CASE Release(w)
    BY <2>6 DEF Release, RunStep
  <2>7. QED
    BY <1>8, <2>1, <2>2, <2>3, <2>4, <2>5, <2>6 DEF Proceed, CommitAction
<1>9. QED
  BY <1>1, <1>2, <1>3, <1>4, <1>5, <1>6, <1>7, <1>8 DEF Next

LEMMA RunGrows ==
  ASSUME TypeOK, RunStep
  PROVE  run' \in RunRecords /\ Grows(run, run')
<1>0. run \in RunRecords
  BY DEF TypeOK
<1>1. CASE run' = run \/ run' = Cancelled(run) \/ run' = Aged(run) \/ run' = Released(run)
  BY <1>0, <1>1, SchedulingGrows, SchedulingType
<1>2. CASE run = AbsentRun /\ run' = Submitted(Ingress)
  BY <1>0, <1>2, SubmittedFields, SchedulingType, PlanAssumption
<1>3. CASE \E i \in Inputs : run' = Signalled(run, i, NoTarget)
  BY <1>0, <1>3, SchedulingGrows, SchedulingType
<1>4. CASE \E w \in Workers : run' = Claimed(run, w, 1)
  BY <1>0, <1>4, SchedulingGrows, SchedulingType
<1>5. ASSUME NEW w \in Workers, Stored(w)
      PROVE  run' \in RunRecords /\ Grows(run, run')
  BY <1>0, <1>5, CommitGrows, CommittedType DEF Stored, Purpose, Sealed
<1>6. QED
  BY <1>1, <1>2, <1>3, <1>4, <1>5 DEF RunStep

\* A step of one session leaves what the others know alone.
SameSession(v) ==
  /\ pc'[v] = pc[v] /\ after'[v] = after[v] /\ view'[v] = view[v]
  /\ fence'[v] = fence[v] /\ at'[v] = at[v] /\ outcome'[v] = outcome[v] /\ exit'[v] = exit[v]

LocalTypeOK ==
  /\ pc' \in [Workers -> Steps] /\ after' \in [Workers -> Continuations]
  /\ view' \in [Workers -> RunRecords]
  /\ fence' \in [Workers -> Nat] /\ at' \in [Workers -> 0..Length]
  /\ stopped' \in [Workers -> BOOLEAN]
  /\ outcome' \in [Workers -> Outcomes] /\ exit' \in [Workers -> Exits]

LEMMA ResetFields ==
  ASSUME TypeOK, NEW w \in Workers, Reset(w)
  PROVE  /\ LocalTypeOK /\ \A v \in Workers \ {w} : SameSession(v)
         /\ pc'[w] = "idle" /\ after'[w] = Nothing /\ view'[w] = AbsentRun
         /\ fence'[w] = 0 /\ at'[w] = 0 /\ exit'[w] = "none"
<1>1. AbsentRun \in RunRecords /\ 0 \in 0..Length /\ Nothing \in Continuations
  BY AbsentRunType, PlanAssumption DEF Nothing, Continuations, Steps
<1>2. QED
  BY <1>1, Zenon DEF Reset, Goto, TypeOK, LocalTypeOK, SameSession, Steps, Outcomes, Exits

\* A commit moves the session that makes it, and no other, to reread it or to stop.
CommitMoves(w, next) ==
  /\ pc' \in [Workers -> Steps] /\ after' \in [Workers -> Continuations]
  /\ \A v \in Workers \ {w} : pc'[v] = pc[v] /\ after'[v] = after[v]
  /\ \/ pc'[w] = "stop" /\ after'[w] = after[w]
     \/ pc'[w] = "reread" /\ after'[w] = next

LEMMA CommitMove ==
  ASSUME TypeOK, NEW w \in Workers, NEW q, NEW next \in Continuations, Commit(w, q, next)
  PROVE  CommitMoves(w, next)
<1>1. \/ after' = after /\ pc' = [pc EXCEPT ![w] = "stop"]
      \/ after' = [after EXCEPT ![w] = next] /\ pc' = [pc EXCEPT ![w] = "reread"]
  BY CommitCases
<1>2. pc \in [Workers -> Steps] /\ after \in [Workers -> Continuations]
  BY DEF TypeOK
<1>3. {"stop", "reread"} \subseteq Steps
  BY DEF Steps
<1>4. QED
  BY <1>1, <1>2, <1>3 DEF CommitMoves

LEMMA ContinuationTypes ==
  /\ \A step \in Steps : InContext(step) \in Continuations /\ Detached(step) \in Continuations
  /\ \A step : InContext(step).step = step /\ Detached(step).step = step
  /\ Resumable \subseteq Steps /\ Working \subseteq Steps
BY DEF InContext, Detached, Continuations, Resumable, Working, Steps

LEMMA SessionSteps ==
  ASSUME TypeOK, Positioned, NEW w \in Workers,
         Claim(w) \/ Proceed(w) \/ Crash(w) \/ Interrupt(w)
  PROVE  LocalTypeOK /\ Position(w)' /\ \A v \in Workers \ {w} : SameSession(v)
<1> DEFINE Goal == LocalTypeOK /\ Position(w)' /\ \A v \in Workers \ {w} : SameSession(v)
<1>0. /\ pc \in [Workers -> Steps] /\ after \in [Workers -> Continuations]
      /\ view \in [Workers -> RunRecords]
      /\ fence \in [Workers -> Nat] /\ at \in [Workers -> 0..Length]
      /\ stopped \in [Workers -> BOOLEAN]
      /\ outcome \in [Workers -> Outcomes] /\ exit \in [Workers -> Exits]
  BY DEF TypeOK
<1>1. CASE Claim(w)
  <2>1. run.fence \in Nat
    BY RecordFields DEF TypeOK
  <2>2. QED
    BY <1>0, <1>1, <2>1 DEF Claim, Goto, LocalTypeOK, Position, Aim, Working, Positioned,
       SameSession, Steps
<1>2. CASE Crash(w)
  BY <1>2, ResetFields DEF Crash, Position, Aim, Working
<1>3. CASE Interrupt(w)
  BY <1>0, <1>3 DEF Interrupt, LocalTypeOK, Position, Aim, Positioned, SameSession
<1>4. CASE Load(w)
  <2>0. run \in RunRecords
    BY DEF TypeOK
  <2>a. run.snapshot \in Snapshots \cup {NoSnapshot}
    BY <2>0, RecordFields
  <2>1. run.snapshot \in 0..Length /\ run \in RunRecords /\ Length \in Nat
    BY <2>0, <2>a, PlanAssumption
  <2>2. LocalTypeOK /\ \A v \in Workers \ {w} : SameSession(v)
    BY <1>0, <1>4, <2>1 DEF Load, Goto, LocalTypeOK, SameSession, Steps
  <2>3. fence'[w] # 0
    BY <1>4 DEF Load, Position, Positioned
  <2>4. CASE pc' = [pc EXCEPT ![w] = "turn"] /\ at' = [at EXCEPT ![w] = run.snapshot]
             /\ run.snapshot # Length
    BY <1>0, <2>1, <2>2, <2>3, <2>4 DEF Position, Aim, Working
  <2>5. CASE pc' = [pc EXCEPT ![w] = "stop"]
    BY <1>0, <2>2, <2>3, <2>5 DEF Position, Aim, Working
  <2> QED
    BY <1>4, <2>4, <2>5 DEF Load, Goto
<1>5. CASE Reread(w)
  <2>1. run \in RunRecords /\ Nothing \in Continuations /\ after[w].step \in Resumable
    BY <1>5 DEF TypeOK, Reread, Nothing, Continuations, Steps, Positioned, Position
  <2>2. after[w].step \in Steps /\ after[w].step # "reread"
    BY <2>1 DEF Resumable, Steps
  <2>3. QED
    BY <1>0, <1>5, <2>1, <2>2 DEF Reread, Goto, LocalTypeOK, Position, Aim, Working,
       Positioned, SameSession, Steps, locals
<1>6. CASE Reuse(w)
  BY <1>0, <1>6 DEF Reuse, Goto, Leave, LocalTypeOK, Position, Aim, Working, Positioned,
     SameSession, Steps, Exits, AfterResult
<1>7. CASE GiveUp(w)
  BY <1>0, <1>7 DEF GiveUp, Unrecorded, Goto, Leave, LocalTypeOK, Position, Aim, Working,
     Positioned, SameSession, Steps, Exits
<1>8. CASE Execute(w)
  BY <1>0, <1>8 DEF Execute, Goto, LocalTypeOK, Position, Aim, Working, Positioned,
     SameSession, Steps, session, locals
<1>9. ASSUME NEW o \in Outcomes, Return(w, o) PROVE Goal
  BY <1>0, <1>9 DEF Return, Returned, Goto, LocalTypeOK, Position, Aim, Working, Positioned,
     SameSession, Steps
<1>10. CASE Archive(w)
  BY <1>0, <1>10 DEF Archive, Goto, LocalTypeOK, Position, Aim, Working, Positioned,
     SameSession, Steps, session, locals
<1>11. CASE Release(w)
  BY <1>11, ResetFields DEF Release, Position, Aim, Working
<1>12. CASE Turn(w)
  <2>1. CASE stopped[w] /\ Leave(w, "cancelled") /\ Goto(w, "finish") /\ UNCHANGED after
    BY <1>0, <1>12, <2>1 DEF Turn, Goto, Leave, LocalTypeOK, Position, Aim, Working,
       Positioned, SameSession, Steps, Exits
  <2>2. CASE Commit(w, Draft(w), InContext("dispatch")) /\ UNCHANGED exit
    <3>1. CommitMoves(w, InContext("dispatch"))
      BY <2>2, CommitMove, ContinuationTypes DEF Steps
    <3>2. QED
      BY <1>0, <1>12, <2>2, <3>1, ContinuationTypes DEF Turn, CommitMoves, LocalTypeOK,
         Position, Aim, Working, Resumable, Positioned, SameSession
  <2>3. QED
    BY <1>12, <2>1, <2>2 DEF Turn
<1>13. CASE Recover(w)
  <2>1. CommitMoves(w, InContext("dispatch"))
    BY <1>13, CommitMove, ContinuationTypes DEF Steps, Recover
  <2>2. QED
    BY <1>0, <1>13, <2>1, ContinuationTypes DEF Recover, Unrecorded, CommitMoves, LocalTypeOK,
       Position, Aim, Working, Resumable, Positioned, SameSession, locals
<1>14. CASE Activate(w)
  <2>1. CommitMoves(w, InContext("execute"))
    BY <1>14, CommitMove, ContinuationTypes DEF Steps, Activate
  <2>2. QED
    BY <1>0, <1>14, <2>1, ContinuationTypes DEF Activate, Unrecorded, CommitMoves, LocalTypeOK,
       Position, Aim, Working, Resumable, Positioned, SameSession, locals
<1>15. CASE Record(w)
  <2> DEFINE r == Receipt(w)
             n == AfterResult(r.task, r.status, r.doubt)
             m == IF n = "reconcile" THEN "note" ELSE n
  <2>1. m \in {"save", "note", "finish"} /\ n \in {"save", "reconcile", "finish"}
    BY DEF AfterResult
  <2>2. m \in Steps
    BY <2>1 DEF Steps
  <2>3. CommitMoves(w, Detached(m))
    <3>1. Commit(w, [Draft(w) EXCEPT !.results[r.task] = ResultOf(r)], Detached(m))
      BY <1>15 DEF Record
    <3>2. QED
      <4> HIDE DEF m
      <4> QED  BY <2>2, <3>1, CommitMove, ContinuationTypes
  <2>4. /\ exit' = [exit EXCEPT ![w] = ExitAfter(outcome[w], n)]
        /\ ExitAfter(outcome[w], n) \in Exits
        /\ m \in {"note", "finish"} => ExitAfter(outcome[w], n) # "none"
    BY <1>15, <2>1 DEF Record, Leave, ExitAfter, Exits
  <2>5. /\ outcome' = [outcome EXCEPT ![w] = "none"]
        /\ UNCHANGED <<view, fence, at, stopped>> /\ pc[w] = "record"
    BY <1>15 DEF Record
  <2>6. QED
    <3> HIDE DEF m, n
    <3> QED  BY <1>0, <2>1, <2>3, <2>4, <2>5, ContinuationTypes DEF CommitMoves, LocalTypeOK,
               Position, Aim, Working, Resumable, Positioned, SameSession, Outcomes
<1>16. ASSUME NEW answer, Reconcile(w, answer) PROVE Goal
  <2> DEFINE n == IF answer = "handled" THEN "save" ELSE "note"
             e == IF answer = "handled" THEN "none"
                  ELSE IF answer = "canceled" THEN "cancelled" ELSE "waiting"
  <2>1. /\ n \in {"save", "note"} /\ n \in Steps /\ e \in Exits
        /\ n = "note" => e # "none"
    BY DEF Steps, Exits
  <2>2. /\ Commit(w, Draft(w), InContext(n)) /\ exit' = [exit EXCEPT ![w] = e]
        /\ UNCHANGED <<view, fence, at, stopped, outcome>> /\ pc[w] = "reconcile"
    BY <1>16 DEF Reconcile, Leave
  <2>3. QED
    <3> HIDE DEF n, e
    <3>1. CommitMoves(w, InContext(n))
      BY <2>1, <2>2, CommitMove, ContinuationTypes
    <3>2. QED
      BY <1>0, <2>1, <2>2, <3>1, ContinuationTypes DEF CommitMoves, LocalTypeOK,
         Position, Aim, Working, Resumable, Positioned, SameSession
<1>17. CASE Save(w)
  <2> DEFINE n == IF Task(w) = Length THEN "stop" ELSE "turn"
  <2>1. Task(w) \in 0..Length /\ Task(w) = at[w] + 1 /\ Length \in Nat
    BY <1>17, WorkingTask, PlanAssumption DEF Save, Working
  <2>2. /\ n \in {"stop", "turn"} /\ n \in Steps
        /\ n = "turn" => at[w] + 1 < Length
    BY <2>1 DEF Steps
  <2>3. /\ Commit(w, Pinned(w, Task(w)), InContext(n)) /\ at' = [at EXCEPT ![w] = @ + 1]
        /\ UNCHANGED <<view, fence, stopped, outcome, exit>> /\ pc[w] = "save"
    BY <1>17 DEF Save
  <2>4. at' \in [Workers -> 0..Length] /\ at'[w] = at[w] + 1
    BY <1>0, <2>1, <2>3
  <2>5. QED
    <3> HIDE DEF n
    <3>1. CommitMoves(w, InContext(n))
      BY <2>2, <2>3, CommitMove, ContinuationTypes
    <3>2. QED
      BY <1>0, <2>2, <2>3, <2>4, <3>1, ContinuationTypes DEF CommitMoves, LocalTypeOK,
         Position, Aim, Working, Resumable, Positioned, SameSession
<1>18. CASE Note(w)
  <2>1. CommitMoves(w, InContext("finish"))
    BY <1>18, CommitMove, ContinuationTypes DEF Steps, Note
  <2>2. QED
    BY <1>0, <1>18, <2>1, ContinuationTypes DEF Note, CommitMoves, LocalTypeOK,
       Position, Aim, Working, Resumable, Positioned, SameSession, locals
<1>19. CASE Finish(w)
  <2>1. CASE UNCHANGED after /\ Goto(w, "stop")
    BY <1>0, <1>19, <2>1 DEF Finish, Goto, LocalTypeOK, Position, Aim, Working, Positioned,
       SameSession, Steps, locals
  <2>2. CASE Commit(w, [Draft(w) EXCEPT !.status = exit[w]], Detached("stop"))
    <3>1. CommitMoves(w, Detached("stop"))
      BY <2>2, CommitMove, ContinuationTypes DEF Steps
    <3>2. QED
      BY <1>0, <1>19, <3>1, ContinuationTypes DEF Finish, CommitMoves, LocalTypeOK,
         Position, Aim, Working, Resumable, Positioned, SameSession, locals
  <2>3. QED
    BY <1>19, <2>1, <2>2 DEF Finish
<1>20. QED
  BY <1>1, <1>2, <1>3, <1>4, <1>5, <1>6, <1>7, <1>8, <1>9, <1>10, <1>11, <1>12, <1>13, <1>14,
     <1>15, <1>16, <1>17, <1>18, <1>19 DEF Proceed

\* The host does not touch the sessions.
HostStep == Submit \/ (\E i \in Inputs \ {Ingress} : Signal(i)) \/ Cancel \/ Expire
SessionStep(w) == Claim(w) \/ Proceed(w) \/ Crash(w) \/ Interrupt(w)

LEMMA NextSteps ==
  ASSUME Next
  PROVE  HostStep \/ \E w \in Workers : SessionStep(w)
BY DEF Next, HostStep, SessionStep

LEMMA HostSteps ==
  ASSUME HostStep
  PROVE  UNCHANGED <<receipts, doubt, pc, after, view, fence, at, stopped, outcome, exit, effects>>
BY DEF HostStep, Submit, Signal, Cancel, Expire, session, locals, history

LEMMA StableSession ==
  ASSUME TypeOK, Positioned, Next, NEW v \in Workers
  PROVE  SameSession(v) \/ SessionStep(v)
<1>1. CASE HostStep
  BY <1>1, HostSteps DEF SameSession
<1>2. ASSUME NEW w \in Workers, SessionStep(w) PROVE SameSession(v) \/ SessionStep(v)
  BY <1>2, SessionSteps DEF SessionStep
<1>3. QED
  BY <1>1, <1>2, NextSteps

\* Who executes and who archives.
LEMMA HistorySteps ==
  ASSUME TypeOK, Positioned, Next
  PROVE  /\ \/ effects' = effects
            \/ \E w \in Workers : Execute(w) /\ receipts' = receipts
         /\ \/ receipts' = receipts
            \/ \E w \in Workers : Archive(w) /\ receipts' = receipts \cup {Receipt(w)}
         /\ doubt' \in SUBSET Tasks /\ asked' \in BOOLEAN
<1> DEFINE Same == effects' = effects /\ receipts' = receipts
           Typed == doubt' \in SUBSET Tasks /\ asked' \in BOOLEAN
<1> doubt \in SUBSET Tasks /\ asked \in BOOLEAN
  BY DEF TypeOK
<1>1. CASE HostStep
  <2>1. Same
    BY <1>1, HostSteps
  <2>2. Typed
    BY <1>1, HostSteps DEF HostStep, Submit, Signal, Cancel, Expire, history
  <2>3. QED
    BY <2>1, <2>2
<1>2. ASSUME NEW w \in Workers, Claim(w) \/ Crash(w) \/ Interrupt(w) PROVE Same /\ Typed
  BY <1>2 DEF Claim, Crash, Interrupt, history
<1>3. ASSUME NEW w \in Workers, Proceed(w)
      PROVE  /\ Same \/ Execute(w) \/ Archive(w)
             /\ Typed
  <2>1. CASE Load(w) \/ Turn(w) \/ Reread(w) \/ Reuse(w) \/ GiveUp(w) \/ Activate(w) \/ Note(w)
             \/ Finish(w) \/ Release(w)
    BY <2>1 DEF Load, Turn, Reread, Reuse, GiveUp, Activate, Note, Finish, Release, history
  <2>2. CASE Recover(w)
    <3>1. Same /\ asked' = asked /\ \E r \in Original(w) : RecordDoubt(r)
      BY <2>2 DEF Recover, history
    <3>2. QED
      BY <3>1, OriginalFields DEF RecordDoubt
  <2>3. CASE Execute(w) \/ Archive(w)
    BY <2>3 DEF Execute, Archive, history
  <2>4. ASSUME NEW o, Return(w, o) PROVE Same /\ Typed
    BY <2>4 DEF Return, Returned, history
  <2>5. CASE Record(w)
    <3>1. Same /\ asked' = asked /\ RecordDoubt(Receipt(w))
      BY <2>5 DEF Record, history
    <3>2. Receipt(w).task \in Tasks
      BY <2>5, WorkingTask, ReceiptFields DEF Record, Working
    <3>3. QED
      BY <3>1, <3>2 DEF RecordDoubt
  <2>6. ASSUME NEW a, Reconcile(w, a) PROVE Same /\ Typed
    BY <2>6 DEF Reconcile, history
  <2>7. CASE Save(w)
    BY <2>7 DEF Save, history
  <2>8. QED
    BY <1>3, <2>1, <2>2, <2>3, <2>4, <2>5, <2>6, <2>7 DEF Proceed
<1>4. ASSUME NEW w \in Workers, Execute(w) PROVE receipts' = receipts
  BY <1>4 DEF Execute
<1>5. ASSUME NEW w \in Workers, Archive(w)
      PROVE  /\ effects' = effects
             /\ receipts' = receipts \/ receipts' = receipts \cup {Receipt(w)}
  BY <1>5 DEF Archive, history
<1>6. QED
  BY <1>1, <1>2, <1>3, <1>4, <1>5, NextSteps DEF SessionStep

-----------------------------------------------------------------------------
\* Type correctness.

LEMMA TypeInit == Init => TypeOK /\ Positioned
<1>1. AbsentRun \in RunRecords /\ 0 \in 0..Length /\ 0 \in 0..MaxFaults /\ Nothing \in Continuations
  BY AbsentRunType, PlanAssumption DEF Nothing, Continuations, Steps
<1>2. ASSUME Init PROVE TypeOK
  <2>1. "idle" \in Steps /\ "none" \in Outcomes /\ "none" \in Exits /\ 0 \in Nat
    BY DEF Steps, Outcomes, Exits
  <2>2. run \in RunRecords /\ receipts = {} /\ doubt = {} /\ faults \in 0..MaxFaults
    BY <1>1, <1>2 DEF Init
  <2>3. /\ pc \in [Workers -> Steps] /\ after \in [Workers -> Continuations]
        /\ view \in [Workers -> RunRecords]
        /\ fence \in [Workers -> Nat] /\ at \in [Workers -> 0..Length]
        /\ stopped \in [Workers -> BOOLEAN]
        /\ outcome \in [Workers -> Outcomes] /\ exit \in [Workers -> Exits]
        /\ effects \in [Tasks -> Nat] /\ asked \in BOOLEAN
    BY <1>1, <1>2, <2>1, Zenon DEF Init
  <2>4. QED
    BY <2>2, <2>3 DEF TypeOK
<1>3. Init => Positioned
  BY DEF Init, Positioned, Position, Aim, Working
<1>4. QED
  BY <1>2, <1>3

LEMMA TypeStep ==
  ASSUME TypeOK, Positioned, [Next]_vars
  PROVE  TypeOK' /\ Positioned'
<1>1. CASE UNCHANGED vars
  BY <1>1 DEF vars, session, locals, history, TypeOK, Positioned, Position, Aim
<1>2. CASE Next
  <2>1. run' \in RunRecords /\ faults' \in 0..MaxFaults
    BY <1>2, RunSteps, RunGrows
  <2>2. LocalTypeOK /\ Positioned'
    <3>1. CASE HostStep
      BY <3>1, HostSteps DEF LocalTypeOK, TypeOK, Positioned, Position, Aim
    <3>2. ASSUME NEW w \in Workers, SessionStep(w) PROVE LocalTypeOK /\ Positioned'
      <4>1. LocalTypeOK /\ Position(w)' /\ \A v \in Workers \ {w} : SameSession(v)
        BY <3>2, SessionSteps DEF SessionStep
      <4>2. \A v \in Workers \ {w} : Position(v)'
        BY <4>1 DEF SameSession, Positioned, Position, Aim
      <4>3. QED
        BY <4>1, <4>2 DEF Positioned
    <3>3. QED
      BY <1>2, <3>1, <3>2, NextSteps
  <2>3. effects' \in [Tasks -> Nat]
    <3>1. ASSUME NEW w \in Workers, Execute(w) PROVE effects' \in [Tasks -> Nat]
      <4>1. Task(w) \in Tasks
        BY <3>1, WorkingTask DEF Execute, Working
      <4>2. QED
        BY <3>1, <4>1 DEF Execute, TypeOK
    <3>2. QED
      BY <1>2, <3>1, HistorySteps DEF TypeOK
  <2>4. receipts' \subseteq [task : Tasks, attempt : Nat, read : Nat,
                            status : TaskStatuses, doubt : BOOLEAN]
    <3>1. ASSUME NEW w \in Workers, Archive(w)
          PROVE  Receipt(w) \in [task : Tasks, attempt : Nat, read : Nat,
                                status : TaskStatuses, doubt : BOOLEAN]
      BY <3>1, WorkingTask, ReceiptFields DEF Archive, Working
    <3>2. QED
      BY <1>2, <3>1, HistorySteps DEF TypeOK
  <2>5. QED
    BY <1>2, <2>1, <2>2, <2>3, <2>4, HistorySteps DEF TypeOK, LocalTypeOK
<1>3. QED
  BY <1>1, <1>2

\* Every reachable state is well typed: a session that takes a task has one, a commit it
\* asks for is a request, and a status it finishes with is a status
\* (durable_runner.go:166-320, durable_calls.go).
THEOREM RunnerTypes == Spec => [](TypeOK /\ Positioned)
<1>1. TypeOK /\ Positioned /\ [Next]_vars => TypeOK' /\ Positioned'
  BY TypeStep
<1>2. QED
  BY TypeInit, <1>1, PTL DEF Spec

-----------------------------------------------------------------------------
\* A session decides on a copy, and the store compares revisions.

LEMMA ViewSteps ==
  ASSUME TypeOK, Positioned, Next, NEW w \in Workers
  PROVE  \/ view'[w] = view[w]
         \/ view'[w] = run /\ run' = run
         \/ view'[w] = AbsentRun
<1> DEFINE Goal == \/ view'[w] = view[w]
                   \/ view'[w] = run /\ run' = run
                   \/ view'[w] = AbsentRun
<1> view \in [Workers -> RunRecords]
  BY DEF TypeOK
<1>1. CASE SameSession(w)
  BY <1>1 DEF SameSession
<1>2. CASE Claim(w) \/ Interrupt(w)
  BY <1>2 DEF Claim, Interrupt
<1>3. CASE Crash(w) \/ Release(w)
  BY <1>3, ResetFields DEF Crash, Release
<1>4. CASE Load(w) \/ Reread(w)
  BY <1>4 DEF Load, Reread
<1>5. CASE Reuse(w) \/ GiveUp(w) \/ Execute(w) \/ Archive(w)
  BY <1>5 DEF Reuse, GiveUp, Execute, Archive, session
<1>6. ASSUME NEW o, Return(w, o) PROVE Goal
  BY <1>6 DEF Return, Returned
<1>7. ASSUME NEW answer, Reconcile(w, answer) PROVE Goal
  BY <1>7 DEF Reconcile
<1>8. CASE Turn(w) \/ Recover(w) \/ Activate(w) \/ Record(w) \/ Save(w) \/ Note(w) \/ Finish(w)
  BY <1>8 DEF Turn, Recover, Activate, Record, Save, Note, Finish
<1>9. QED
  BY <1>1, <1>2, <1>3, <1>4, <1>5, <1>6, <1>7, <1>8, StableSession DEF SessionStep, Proceed

LEMMA AbsentFields ==
  /\ AbsentRun.revision = 0 /\ AbsentRun.snapshot = NoSnapshot /\ AbsentRun.fence = 0
  /\ AbsentRun.activations = [t \in Tasks |-> NoActivation]
  /\ AbsentRun.tasks = [t \in Tasks |-> NoResult]
  /\ \A t \in Tasks : ~Recorded(AbsentRun, t) /\ AbsentRun.activations[t].attempt = 0
BY DEF AbsentRun, NoActivation, NoResult, Recorded

LEMMA ViewsLagStep ==
  ASSUME TypeOK, Positioned, ViewsLag, [Next]_vars
  PROVE  ViewsLag'
<1>1. CASE UNCHANGED vars
  BY <1>1 DEF vars, session, locals, ViewsLag, Recorded
<1>2. CASE Next
  <2>1. run' \in RunRecords /\ run \in RunRecords /\ Grows(run, run')
    BY <1>2, RunSteps, RunGrows DEF TypeOK
  <2>2. /\ run.revision \in Nat /\ run'.revision \in Nat /\ run'.revision >= run.revision
        /\ run'.revision = run.revision =>
             run'.activations = run.activations /\ run'.tasks = run.tasks
        /\ \A t \in Tasks : Recorded(run, t) => Recorded(run', t)
    <3>1. run.revision \in Nat /\ run'.revision \in Nat
      BY <2>1, RecordFields
    <3>2. QED
      BY <2>1, <3>1 DEF Grows
  <2>3. run'.revision = 0 =>
          run'.activations = AbsentRun.activations /\ run'.tasks = AbsentRun.tasks
    BY <2>2 DEF ViewsLag
  <2>4. ASSUME NEW w \in Workers
        PROVE  /\ view'[w].revision <= run'.revision
               /\ view'[w].revision = run'.revision =>
                    view'[w].activations = run'.activations /\ view'[w].tasks = run'.tasks
               /\ \A t \in Tasks : Recorded(view'[w], t) => Recorded(run', t)
    <3>1. CASE view'[w] = view[w]
      <4>1. view[w].revision \in Nat
        BY RecordFields DEF TypeOK
      <4>2. QED
        BY <2>2, <3>1, <4>1 DEF ViewsLag
    <3>2. CASE view'[w] = run /\ run' = run
      BY <2>2, <3>2
    <3>3. CASE view'[w] = AbsentRun
      BY <2>2, <2>3, <3>3, AbsentFields
    <3>4. QED
      BY <1>2, <3>1, <3>2, <3>3, ViewSteps
  <2>5. QED
    BY <2>3, <2>4 DEF ViewsLag
<1>3. QED
  BY <1>1, <1>2

\* A commit that is applied was decided on the record as it is.
LEMMA FreshView ==
  ASSUME TypeOK, ViewsLag, NEW w \in Workers, NEW q, Sealed(w, q), CommitOK(run, q)
  PROVE  /\ view[w].activations = run.activations /\ view[w].tasks = run.tasks
         /\ run.owner = w /\ run.fence = fence[w] /\ Live(run) /\ FactsOK(run, q)
BY DEF Sealed, CommitOK, Holds, ViewsLag

-----------------------------------------------------------------------------
\* The effects.

\* A session comes to execute a task only by activating it, and an unsafe task it
\* activates had no activation.
LEMMA Activates ==
  ASSUME TypeOK, Positioned, ViewsLag, NEW w \in Workers, Activate(w), Aim(w)' = "execute"
  PROVE  /\ Unsafe(Task(w)) => run.activations[Task(w)].attempt = 0
         /\ run'.activations[Task(w)].attempt # 0
<1> DEFINE read == IF Activation(w).attempt = 0 THEN view[w].revision ELSE Activation(w).read
           q == [Draft(w) EXCEPT !.events = 0,
                  !.activate[Task(w)] = [attempt |-> fence[w], read |-> read]]
<1>1. pc[w] = "dispatch" /\ Task(w) \in Tasks /\ fence[w] # 0 /\ MayActivate(w)
  BY WorkingTask DEF Activate, Unrecorded, Working, Positioned, Position
<1>2. read \in Nat
  <2>1. view[w].activations \in [Tasks -> Activations] /\ view[w].revision \in Nat
    BY RecordFields DEF TypeOK
  <2>2. QED
    BY <1>1, <2>1 DEF Activation, Activations
<1>3. Commit(w, q, InContext("execute"))
  BY DEF Activate
<1>4. /\ Sealed(w, q)
      /\ q.activate = [EmptyRequest.activate EXCEPT
                         ![Task(w)] = [attempt |-> fence[w], read |-> read]]
  <2> HIDE DEF read
  <2> QED  BY <1>1, <1>2, ActivateFields
<1>5. q.activate[Task(w)].attempt = fence[w]
  <2> HIDE DEF q, read
  <2> QED  BY <1>1, <1>4, EmptyFields
<1>6. CommitOK(run, q) /\ run' = Committed(run, q)
  <2> HIDE DEF q
  <2>1. pc \in [Workers -> Steps]
    BY DEF TypeOK
  <2>2. QED
    BY <1>3, <2>1, CommitCases DEF Aim
<1>7. Unsafe(Task(w)) => run.activations[Task(w)].attempt = 0
  <2> HIDE DEF q
  <2> QED  BY <1>1, <1>4, <1>6, FreshView DEF MayActivate, Activation
<1>8. run'.activations[Task(w)].attempt # 0
  <2> HIDE DEF q
  <2>1. run \in RunRecords /\ q \in Requests
    BY <1>4 DEF TypeOK, Sealed
  <2>2. QED
    BY <1>1, <1>5, <1>6, <2>1, CommittedFields
<1>9. QED
  BY <1>7, <1>8

LEMMA HeadingSteps ==
  ASSUME TypeOK, Positioned, Next, NEW w \in Workers, NEW t \in Tasks, Heading(w, t)'
  PROVE  \/ Heading(w, t) /\ ~Execute(w)
         \/ Activate(w) /\ Task(w) = t /\ Aim(w)' = "execute" /\ effects' = effects
<1> DEFINE Goal == \/ Heading(w, t) /\ ~Execute(w)
                   \/ Activate(w) /\ Task(w) = t /\ Aim(w)' = "execute" /\ effects' = effects
<1>0. /\ pc \in [Workers -> Steps] /\ after \in [Workers -> Continuations]
      /\ Aim(w)' = "execute" /\ at'[w] + 1 = t
  BY DEF TypeOK, Heading, Task, Aim
<1>1. CASE SameSession(w)
  BY <1>0, <1>1 DEF SameSession, Heading, Aim, Task, Execute, Goto
<1>2. CASE Claim(w)
  BY <1>0, <1>2 DEF Claim, Goto, Aim, Heading, Task, Execute
<1>3. CASE Crash(w) \/ Release(w)
  BY <1>0, <1>3, ResetFields DEF Crash, Release, Aim
<1>4. CASE Interrupt(w)
  BY <1>0, <1>4 DEF Interrupt, Aim, Heading, Task, Execute, Goto
<1>5. CASE Load(w)
  BY <1>0, <1>5 DEF Load, Goto, Aim
<1>6. CASE Reread(w)
  <2>1. /\ pc[w] = "reread" /\ after'[w] = Nothing /\ at' = at
        /\ pc'[w] = after[w].step \/ pc'[w] = "stop"
    BY <1>0, <1>6 DEF Reread, Goto, locals
  <2>2. after[w].step = "execute"
    BY <1>0, <2>1 DEF Aim, Nothing
  <2>3. QED
    BY <1>0, <2>1, <2>2 DEF Aim, Heading, Task, Execute
<1>7. CASE Reuse(w)
  BY <1>0, <1>7 DEF Reuse, Goto, Aim, AfterResult
<1>8. CASE GiveUp(w) \/ Execute(w) \/ Archive(w)
  BY <1>0, <1>8 DEF GiveUp, Execute, Archive, Goto, Aim
<1>9. ASSUME NEW o, Return(w, o) PROVE Goal
  BY <1>0, <1>9 DEF Return, Returned, Goto, Aim
<1>10. ASSUME NEW q, NEW next \in Continuations, Commit(w, q, next), next.step # "execute"
       PROVE  FALSE
  <2>1. CommitMoves(w, next)
    BY <1>10, CommitMove
  <2>2. QED
    BY <1>0, <1>10, <2>1 DEF CommitMoves, Aim
<1>11. CASE Turn(w)
  BY <1>0, <1>10, <1>11, ContinuationTypes DEF Turn, Goto, Aim, Steps
<1>12. CASE Recover(w)
  BY <1>10, <1>12, ContinuationTypes DEF Recover, Steps
<1>13. CASE Activate(w)
  BY <1>0, <1>13 DEF Activate, Task, locals, history
<1>14. CASE Record(w)
  <2> DEFINE n == AfterResult(Receipt(w).task, Receipt(w).status, Receipt(w).doubt)
             m == IF n = "reconcile" THEN "note" ELSE n
  <2>1. m \in {"save", "note", "finish"}
    BY DEF AfterResult
  <2>2. \E q : Commit(w, q, Detached(m))
    BY <1>14 DEF Record
  <2> HIDE DEF m
  <2>3. m \in Steps /\ m # "execute"
    BY <2>1 DEF Steps
  <2>4. QED
    BY <1>10, <2>2, <2>3, ContinuationTypes
<1>15. ASSUME NEW answer, Reconcile(w, answer) PROVE Goal
  <2>1. \E m \in {"save", "note"} : Commit(w, Draft(w), InContext(m))
    BY <1>15 DEF Reconcile
  <2>2. QED
    BY <1>10, <2>1, ContinuationTypes DEF Steps
<1>16. CASE Save(w)
  <2>1. \E m \in {"stop", "turn"} : Commit(w, Pinned(w, Task(w)), InContext(m))
    BY <1>16 DEF Save
  <2>2. QED
    BY <1>10, <2>1, ContinuationTypes DEF Steps
<1>17. CASE Note(w)
  BY <1>10, <1>17, ContinuationTypes DEF Note, Steps
<1>18. CASE Finish(w)
  BY <1>0, <1>10, <1>18, ContinuationTypes DEF Finish, Goto, Aim, Steps
<1>19. QED
  BY <1>1, <1>2, <1>3, <1>4, <1>5, <1>6, <1>7, <1>8, <1>9, <1>11, <1>12, <1>13, <1>14, <1>15,
     <1>16, <1>17, <1>18, StableSession DEF SessionStep, Proceed

LEMMA PermittedStep ==
  ASSUME TypeOK, Positioned, ViewsLag, Permitted, [Next]_vars
  PROVE  Permitted'
<1>1. CASE UNCHANGED vars
  BY <1>1 DEF vars, session, locals, history, Permitted, Heading, Aim, Task
<1>2. ASSUME Next, NEW t \in Tasks, Unsafe(t)
      PROVE  /\ effects'[t] <= 1
             /\ run'.activations[t].attempt = 0 =>
                  effects'[t] = 0 /\ \A w \in Workers : ~Heading(w, t)'
             /\ effects'[t] = 1 => \A w \in Workers : ~Heading(w, t)'
             /\ \A v, w \in Workers : Heading(v, t)' /\ Heading(w, t)' => v = w
  <2>1. /\ effects \in [Tasks -> Nat] /\ effects[t] <= 1
        /\ run.activations[t].attempt = 0 => effects[t] = 0 /\ \A w \in Workers : ~Heading(w, t)
        /\ effects[t] = 1 => \A w \in Workers : ~Heading(w, t)
        /\ \A v, w \in Workers : Heading(v, t) /\ Heading(w, t) => v = w
    BY <1>2 DEF Permitted, TypeOK
  <2>2. run'.activations[t].attempt = 0 => run.activations[t].attempt = 0
    BY <1>2, RunSteps, RunGrows DEF Grows
  \* Whoever newly heads for the task has just been given the permission.
  <2>3. ASSUME NEW w \in Workers, Heading(w, t)'
        PROVE  \/ Heading(w, t) /\ ~Execute(w)
               \/ /\ Activate(w) /\ effects' = effects
                  /\ run.activations[t].attempt = 0 /\ run'.activations[t].attempt # 0
    BY <1>2, <2>3, HeadingSteps, Activates
  <2>4. effects'[t] = effects[t] \/ \E w \in Workers : Execute(w) /\ Heading(w, t) /\ effects'[t] = effects[t] + 1
    <3>1. ASSUME NEW w \in Workers, Execute(w)
          PROVE  \/ effects'[t] = effects[t]
                 \/ Heading(w, t) /\ effects'[t] = effects[t] + 1
      <4>1. Task(w) \in Tasks /\ Aim(w) = "execute"
        BY <3>1, WorkingTask DEF Execute, Working
      <4>2. effects' = [effects EXCEPT ![Task(w)] = @ + 1]
        BY <3>1 DEF Execute
      <4>3. QED
        BY <2>1, <4>1, <4>2 DEF Heading
    <3>2. QED
      BY <1>2, <3>1, HistorySteps
  <2>5. effects'[t] <= 1
    BY <2>1, <2>4
  <2>6. run'.activations[t].attempt = 0 =>
          effects'[t] = 0 /\ \A w \in Workers : ~Heading(w, t)'
    BY <2>1, <2>2, <2>3, <2>4
  <2>7. ASSUME NEW v \in Workers, NEW w \in Workers, Heading(v, t)', Heading(w, t)' PROVE v = w
    <3>1. CASE Heading(v, t) /\ Heading(w, t)
      BY <2>1, <3>1
    <3>2. ASSUME NEW x \in Workers, NEW y \in Workers, x # y, Activate(x), Heading(y, t)'
          PROVE  Heading(y, t)
      <4>1. SameSession(y)
        BY <3>2, SessionSteps DEF Proceed
      <4>2. QED
        BY <3>2, <4>1 DEF SameSession, Heading, Aim, Task
    <3>3. QED
      BY <2>1, <2>3, <2>7, <3>1, <3>2
  <2>8. ASSUME effects'[t] = 1, NEW w \in Workers, Heading(w, t)' PROVE FALSE
    <3>1. CASE effects[t] = 1
      BY <2>1, <2>3, <2>8, <3>1
    <3>2. CASE effects[t] # 1
      <4>1. PICK v \in Workers : Execute(v) /\ Heading(v, t)
        BY <2>4, <2>8, <3>2
      <4>2. effects' # effects
        BY <2>8, <3>2
      <4>3. Heading(w, t) /\ ~Execute(w)
        BY <2>3, <2>8, <4>2
      <4>4. QED
        BY <2>1, <4>1, <4>3
    <3>3. QED
      BY <3>1, <3>2
  <2>9. QED
    BY <2>5, <2>6, <2>7, <2>8
<1>3. QED
  BY <1>1, <1>2 DEF Permitted, Unsafe

-----------------------------------------------------------------------------
\* The results.

\* Only a session's commit changes activations, results and snapshot.
LEMMA OnlyCommits ==
  ASSUME TypeOK, RunStep
  PROVE  \/ /\ run'.activations = run.activations /\ run'.tasks = run.tasks
            /\ run'.snapshot = run.snapshot
         \/ \E w \in Workers : CommitAction(w) /\ Stored(w)
<1>0. run \in RunRecords
  BY DEF TypeOK
<1>1. CASE run' = run \/ run' = Cancelled(run) \/ run' = Aged(run) \/ run' = Released(run)
  BY <1>0, <1>1, SchedulingFacts DEF SameFacts
<1>2. CASE run = AbsentRun /\ run' = Submitted(Ingress)
  BY <1>2, SubmittedFields, AbsentFields, PlanAssumption
<1>3. CASE \E i \in Inputs : run' = Signalled(run, i, NoTarget)
  BY <1>0, <1>3, SignalledFields
<1>4. CASE \E w \in Workers : run' = Claimed(run, w, 1)
  BY <1>0, <1>4, SchedulingFacts DEF SameFacts
<1>5. QED
  BY <1>1, <1>2, <1>3, <1>4 DEF RunStep

LEMMA ArchivedStep ==
  ASSUME TypeOK, Positioned, Archived, [Next]_vars
  PROVE  Archived'
<1>1. CASE UNCHANGED vars
  BY <1>1 DEF vars, session, locals, history, Archived, Receipt, Task, Activation
<1>2. CASE Next
  <2> DEFINE Late(w) == /\ pc[w] \in {"running", "archive", "record"} => effects[Task(w)] > 0
                        /\ pc[w] = "record" => Receipt(w) \in receipts
  <2>0. /\ effects \in [Tasks -> Nat] /\ effects' \in [Tasks -> Nat]
        /\ pc \in [Workers -> Steps] /\ after \in [Workers -> Continuations]
        /\ \A r \in receipts : r.task \in Tasks
    BY <1>2, TypeStep DEF TypeOK
  <2>1. \A t \in Tasks : effects[t] > 0 => effects'[t] > 0
    <3>1. ASSUME NEW w \in Workers, Execute(w), NEW t \in Tasks, effects[t] > 0
          PROVE  effects'[t] > 0
      BY <2>0, <3>1 DEF Execute
    <3>2. QED
      BY <1>2, <3>1, HistorySteps
  <2>2. receipts \subseteq receipts'
    BY <1>2, HistorySteps
  <2>3. ASSUME NEW r \in receipts' PROVE effects'[r.task] > 0
    <3>1. CASE r \in receipts
      BY <2>0, <2>1, <3>1 DEF Archived
    <3>2. ASSUME NEW w \in Workers, Archive(w), r = Receipt(w) PROVE effects'[r.task] > 0
      <4>1. effects[Task(w)] > 0 /\ Task(w) \in Tasks
        BY <3>2, WorkingTask DEF Archive, Archived, Working
      <4>2. r.task = Task(w)
        BY <3>2, <4>1, ReceiptFields
      <4>3. QED
        BY <2>1, <4>1, <4>2
    <3>3. QED
      BY <1>2, <2>3, <3>1, <3>2, HistorySteps
  <2>4. ASSUME NEW w \in Workers PROVE Late(w)'
    <3>0. pc[w] \in {"running", "archive", "record"} => Task(w) \in Tasks /\ effects'[Task(w)] > 0
      BY <2>1, WorkingTask DEF Archived, Working
    <3>1. CASE SameSession(w)
      BY <2>0, <2>2, <3>0, <3>1 DEF SameSession, Task, Receipt, Activation, Archived
    <3>2. CASE pc'[w] \notin {"running", "archive", "record"}
      BY <3>2
    <3>3. CASE Execute(w)
      <4>1. Task(w) \in Tasks /\ effects' = [effects EXCEPT ![Task(w)] = @ + 1]
        BY <3>3, WorkingTask DEF Execute, Working
      <4>2. at' = at /\ pc'[w] = "running"
        BY <2>0, <3>3 DEF Execute, Goto, session, locals
      <4>3. QED
        BY <2>0, <4>1, <4>2 DEF Task
    <3>4. ASSUME NEW o, Return(w, o) PROVE Late(w)'
      BY <2>0, <3>0, <3>4 DEF Return, Returned, Goto, Task
    <3>5. CASE Archive(w)
      <4>1. pc[w] = "archive" /\ UNCHANGED <<view, fence, at, outcome>>
        BY <3>5 DEF Archive, session, locals
      <4>2. pc'[w] \in {"running", "archive", "record"} =>
              pc'[w] = "record" /\ Receipt(w) \in receipts'
        BY <2>0, <3>5 DEF Archive, Goto
      <4>3. Receipt(w)' = Receipt(w) /\ Task(w)' = Task(w)
        BY <4>1 DEF Receipt, Task, Activation
      <4>4. QED
        BY <3>0, <4>1, <4>2, <4>3
    <3>6. CASE Claim(w) \/ Load(w) \/ Reuse(w) \/ GiveUp(w)
      BY <2>0, <3>2, <3>6 DEF Claim, Load, Reuse, GiveUp, Goto, AfterResult
    <3>7. CASE Crash(w) \/ Release(w)
      BY <3>2, <3>7, ResetFields DEF Crash, Release
    <3>8. CASE Interrupt(w)
      BY <2>0, <2>2, <3>0, <3>8 DEF Interrupt, Task, Receipt, Activation, Archived
    <3>9. CASE Reread(w)
      <4>1. after[w].step \in Resumable
        BY <3>9 DEF Reread, Positioned, Position
      <4>2. QED
        BY <2>0, <3>2, <3>9, <4>1 DEF Reread, Goto, Resumable
    <3>10. CASE CommitAction(w)
      <4>1. ASSUME NEW q, NEW next, Commit(w, q, next) PROVE Late(w)'
        BY <2>0, <3>2, <4>1, CommitCases
      <4>2. CASE Turn(w) \/ Finish(w)
        BY <2>0, <3>2, <4>1, <4>2 DEF Turn, Finish, Goto
      <4>3. QED
        BY <3>10, <4>1, <4>2 DEF CommitAction, Recover, Activate, Record, Reconcile, Save, Note
    <3>11. QED
      BY <1>2, <3>1, <3>3, <3>4, <3>5, <3>6, <3>7, <3>8, <3>9, <3>10, StableSession
      DEF SessionStep, Proceed, CommitAction
  <2>5. QED
    BY <2>3, <2>4 DEF Archived
<1>3. QED
  BY <1>1, <1>2

LEMMA AdoptionOnly ==
  ASSUME NEW a \in Results, NEW b \in Results,
         a.status = b.status, a.attempt = b.attempt, a.read = b.read
  PROVE  /\ WithoutAdoption(a) = WithoutAdoption(b)
         /\ a.adopted = 0 => WithoutAdoption(b) = a
BY DEF WithoutAdoption, Results

LEMMA EarnedStep ==
  ASSUME TypeOK, Positioned, ViewsLag, Archived, Earned, [Next]_vars
  PROVE  Earned'
<1>1. CASE UNCHANGED vars
  BY <1>1 DEF vars, Earned, Recorded
<1>2. ASSUME Next, NEW t \in Tasks, Recorded(run', t)
      PROVE  /\ run'.tasks[t].attempt # 0 /\ run'.tasks[t].attempt = run'.activations[t].attempt
             /\ \E r \in receipts' : r.task = t /\ ResultOf(r) = WithoutAdoption(run'.tasks[t])
  <2>1. receipts \subseteq receipts'
    BY <1>2, HistorySteps
  <2>2. CASE run'.activations = run.activations /\ run'.tasks = run.tasks
    BY <1>2, <2>1, <2>2 DEF Earned, Recorded
  <2>3. ASSUME NEW w \in Workers, Stored(w)
        PROVE  /\ run'.tasks[t].attempt # 0
               /\ run'.tasks[t].attempt = run'.activations[t].attempt
               /\ \E r \in receipts' : r.task = t /\ ResultOf(r) = WithoutAdoption(run'.tasks[t])
    <3>1. PICK q : Purpose(w, q) /\ CommitOK(run, q) /\ run' = Committed(run, q)
      BY <2>3 DEF Stored
    <3>2. run \in RunRecords /\ q \in Requests /\ run' \in RunRecords
      BY <3>1, CommittedType DEF Purpose, Sealed, TypeOK
    <3>3. /\ run.tasks[t] \in Results /\ q.results[t] \in Results /\ run'.tasks[t] \in Results
          /\ run.activations[t] \in Activations /\ q.activate[t] \in Activations
      BY <3>2, RecordFields DEF Requests
    <3>4. ActivationOK(run, q, t) /\ ResultOK(run, q, t)
      BY <3>1 DEF CommitOK, FactsOK
    <3>5. /\ run'.activations[t] = Activated(run, q)[t]
          /\ run'.activations[t] =
               IF q.activate[t].attempt = 0 THEN run.activations[t] ELSE q.activate[t]
      <4>1. run'.activations = Activated(run, q)
        BY <3>1 DEF Committed
      <4>2. QED
        BY <4>1 DEF Activated
    <3> DEFINE old == run.tasks[t]
               new == run'.tasks[t]
               result == q.results[t]
    <3>6. CASE Recorded(run, t)
      <4>1. new.status = old.status /\ new.attempt = old.attempt /\ new.read = old.read
        BY <3>1, <3>2, <3>6, CommittedTasks DEF Recorded
      <4>2. /\ old.attempt # 0 /\ old.attempt = run.activations[t].attempt
            /\ \E r \in receipts : r.task = t /\ ResultOf(r) = WithoutAdoption(old)
        BY <3>6 DEF Earned
      <4>3. run'.activations[t].attempt = run.activations[t].attempt
        BY <3>4, <3>5, <3>6, <4>2 DEF ActivationOK, Recorded
      <4>4. WithoutAdoption(new) = WithoutAdoption(old)
        <5> HIDE DEF new, old
        <5> QED  BY <3>3, <4>1, AdoptionOnly DEF new, old
      <4>5. QED
        BY <2>1, <4>1, <4>2, <4>3, <4>4
    <3>7. CASE ~Recorded(run, t)
      <4>1. /\ result.status # "absent"
            /\ new.status = result.status /\ new.attempt = result.attempt /\ new.read = result.read
        BY <1>2, <3>1, <3>2, <3>7, CommittedTasks DEF Recorded
      <4>2. /\ result.attempt # 0 /\ result.adopted = 0
            /\ run'.activations[t].attempt = result.attempt
        BY <3>4, <3>5, <4>1 DEF ResultOK
      <4>3. \E r \in receipts : r.task = t /\ ResultOf(r) = result
        <5>1. CASE pc[w] = "record" /\ t = Task(w) /\ ResultOf(Receipt(w)) = result
          <6>1. Receipt(w) \in receipts /\ Receipt(w).task = t
            BY <5>1, ReceiptFields DEF Archived
          <6>2. QED
            BY <5>1, <6>1
        <5>2. QED
          BY <3>1, <4>1, <5>1 DEF Purpose
      <4>4. WithoutAdoption(new) = result
        <5> HIDE DEF new, result
        <5> QED  BY <3>3, <4>1, <4>2, AdoptionOnly DEF new, result
      <4>5. QED
        BY <2>1, <4>1, <4>2, <4>3, <4>4
    <3>8. QED
      BY <3>6, <3>7
  <2>4. QED
    BY <1>2, <2>2, <2>3, RunSteps, OnlyCommits
<1>3. QED
  BY <1>1, <1>2 DEF Earned

-----------------------------------------------------------------------------
\* The snapshots.

\* A snapshot that is saved claims the task whose result it adopts.
LEMMA SaveBacks ==
  ASSUME TypeOK, Positioned, ViewsLag, Behind, NEW w \in Workers, Save(w),
         CommitOK(run, Pinned(w, Task(w))), run' = Committed(run, Pinned(w, Task(w)))
  PROVE  Backed(run', Task(w)) /\ run'.snapshot = Task(w)
<1> DEFINE t == Task(w)
           q == Pinned(w, t)
<1>1. /\ t \in Tasks /\ t \in 0..Length /\ Aim(w) = "save" /\ t \in Nat \ {0}
  BY WorkingTask, PlanAssumption DEF Save, Working
<1>2. /\ Sealed(w, q) /\ q.results = EmptyRequest.results /\ q.snapshot = t
      /\ q.adopt = {u \in Tasks : u = Task(w) /\ u <= t /\ Adoptable(w, u)}
  BY <1>1, PinnedFields
<1>3. Recorded(run, t)
  BY <1>1 DEF Behind
<1>4. run \in RunRecords /\ q \in Requests /\ run.revision \in Nat
  <2> HIDE DEF q
  <2> QED  BY <1>2, RecordFields DEF Sealed, TypeOK
<1>5. view[w].tasks = run.tasks
  <2> HIDE DEF q
  <2> QED  BY <1>2, FreshView DEF q
<1>6. /\ run'.tasks[t].status = run.tasks[t].status
      /\ run'.tasks[t].adopted = IF t \in q.adopt THEN run.revision + 1 ELSE run.tasks[t].adopted
  <2>1. run' = Committed(run, q)
    OBVIOUS
  <2> HIDE DEF q, t
  <2> QED  BY <1>1, <1>3, <1>4, <2>1, CommittedTasks DEF Recorded
<1>7. run.tasks[t].status = "succeeded" /\ run.tasks[t].adopted = 0 => t \in q.adopt
  BY <1>1, <1>2, <1>5 DEF Adoptable
<1>8. run'.snapshot = t
  <2>1. run' = Committed(run, q)
    OBVIOUS
  <2> HIDE DEF q
  <2> QED  BY <1>1, <1>2, <1>4, <2>1, CommittedFields, PlanAssumption
<1>9. QED
  <2> HIDE DEF q
  <2> QED  BY <1>3, <1>4, <1>6, <1>7, <1>8 DEF Backed, Recorded

\* What a commit makes of the snapshot.
LEMMA SnapshotSteps ==
  ASSUME TypeOK, Positioned, ViewsLag, Behind, Next
  PROVE  \/ run'.snapshot = run.snapshot
         \/ \E w \in Workers :
              /\ run.owner = w /\ run.fence = fence[w] /\ Live(run)
              /\ \/ Save(w) /\ run'.snapshot = Task(w) /\ Backed(run', Task(w))
                 \/ Note(w) /\ run'.snapshot = at[w]
<1>1. ASSUME NEW w \in Workers, Stored(w)
      PROVE  \/ run'.snapshot = run.snapshot
             \/ /\ run.owner = w /\ run.fence = fence[w] /\ Live(run)
                /\ \/ Save(w) /\ run'.snapshot = Task(w) /\ Backed(run', Task(w))
                   \/ Note(w) /\ run'.snapshot = at[w]
  <2>1. PICK q : Purpose(w, q) /\ CommitOK(run, q) /\ run' = Committed(run, q)
    BY <1>1 DEF Stored
  <2>2. run \in RunRecords /\ q \in Requests /\ Sealed(w, q)
    BY <2>1 DEF Purpose, Sealed, TypeOK
  <2>3. run.owner = w /\ run.fence = fence[w] /\ Live(run)
    BY <2>1, <2>2, FreshView
  <2>4. run'.snapshot = IF q.snapshot = NoSnapshot THEN run.snapshot ELSE q.snapshot
    BY <2>1, <2>2, CommittedFields
  <2>5. CASE q.snapshot = NoSnapshot
    BY <2>4, <2>5
  <2>6. CASE Save(w) /\ q = Pinned(w, Task(w))
    BY <2>1, <2>3, <2>6, SaveBacks
  <2>7. CASE Note(w) /\ q = Pinned(w, at[w]) /\ q.snapshot # NoSnapshot
    <3>1. q.snapshot = at[w]
      BY <2>7, PinnedFields, WorkingTask
    <3>2. QED
      BY <2>3, <2>4, <2>7, <3>1
  <2>8. QED
    BY <2>1, <2>5, <2>6, <2>7 DEF Purpose
<1>2. QED
  BY <1>1, RunSteps, OnlyCommits

LEMMA BackedStep ==
  ASSUME TypeOK, Positioned, ViewsLag, Behind, SnapshotsAreBacked, [Next]_vars
  PROVE  SnapshotsAreBacked'
<1>1. CASE UNCHANGED vars
  BY <1>1 DEF vars, SnapshotsAreBacked
<1>2. ASSUME Next, NEW t \in Tasks, t <= run'.snapshot PROVE Backed(run', t)
  <2>1. Backed(run, t) => Backed(run', t)
    BY <1>2, RunSteps, RunGrows DEF Grows
  <2>2. CASE run'.snapshot = run.snapshot
    BY <1>2, <2>1, <2>2 DEF SnapshotsAreBacked, Backed, Recorded
  <2>3. ASSUME NEW w \in Workers, Save(w), run'.snapshot = Task(w), Backed(run', Task(w))
        PROVE  Backed(run', t)
    <3>1. /\ Aim(w) \in Working /\ Task(w) = at[w] + 1 /\ at[w] \in Nat /\ t \in Nat
      BY <2>3, WorkingTask, PlanAssumption DEF Save, Working
    <3>2. t <= at[w] \/ t = Task(w)
      BY <1>2, <2>3, <3>1
    <3>3. QED
      BY <2>1, <2>3, <3>1, <3>2 DEF Behind
  <2>4. ASSUME NEW w \in Workers, Note(w), run'.snapshot = at[w] PROVE Backed(run', t)
    <3>1. Aim(w) \in Working
      BY <2>4, WorkingTask DEF Note, Working
    <3>2. QED
      BY <1>2, <2>1, <2>4, <3>1 DEF Behind
  <2>5. QED
    BY <1>2, <2>2, <2>3, <2>4, SnapshotSteps
<1>3. QED
  BY <1>1, <1>2 DEF SnapshotsAreBacked, Backed, Recorded

\* Where the session's aim leads to after a step: only a claim's load and a snapshot that
\* was saved move its position.
LEMMA AimSteps ==
  ASSUME TypeOK, Positioned, Next, NEW w \in Workers, Aim(w)' \in Working
  PROVE  \/ Aim(w) \in Working /\ at'[w] = at[w] /\ fence'[w] = fence[w]
         \/ /\ Load(w) /\ run' = run /\ run.owner = w /\ at'[w] = run.snapshot
            /\ Aim(w)' = "turn" /\ fence'[w] = fence[w]
         \/ /\ Save(w) /\ at'[w] = Task(w) /\ Aim(w)' = "turn" /\ fence'[w] = fence[w]
            /\ CommitOK(run, Pinned(w, Task(w))) /\ run' = Committed(run, Pinned(w, Task(w)))
<1> DEFINE Stay == Aim(w) \in Working /\ at'[w] = at[w] /\ fence'[w] = fence[w]
<1>0. /\ pc \in [Workers -> Steps] /\ after \in [Workers -> Continuations]
      /\ at \in [Workers -> 0..Length] /\ Aim(w)' \in Working
      /\ pc[w] \in Working => Aim(w) \in Working
  BY WorkingTask DEF TypeOK
<1>1. CASE SameSession(w)
  BY <1>0, <1>1 DEF SameSession, Aim
<1>2. CASE Claim(w)
  BY <1>0, <1>2 DEF Claim, Goto, Aim, Working
<1>3. CASE Crash(w) \/ Release(w)
  BY <1>0, <1>3, ResetFields DEF Crash, Release, Aim, Working
<1>4. CASE Interrupt(w)
  BY <1>0, <1>4 DEF Interrupt, Aim
<1>5. CASE Load(w)
  BY <1>0, <1>5 DEF Load, Goto, Aim, Working
<1>6. CASE Reread(w)
  <2>1. /\ pc[w] = "reread" /\ at' = at /\ fence' = fence
        /\ after[w].step \in Resumable /\ after'[w] = Nothing
        /\ pc'[w] = after[w].step \/ pc'[w] = "stop"
    BY <1>0, <1>6 DEF Reread, Goto, locals, Positioned, Position
  <2>2. QED
    BY <1>0, <2>1 DEF Aim, Working, Resumable
<1>7. CASE Reuse(w) \/ GiveUp(w) \/ Execute(w) \/ Archive(w)
  BY <1>0, <1>7 DEF Reuse, GiveUp, Unrecorded, Execute, Archive, session, locals, Working
<1>8. ASSUME NEW o, Return(w, o) PROVE Stay
  BY <1>0, <1>8 DEF Return, Returned, Working
<1>9. CASE Turn(w) \/ Recover(w) \/ Activate(w) \/ Record(w)
  BY <1>0, <1>9 DEF Turn, Recover, Activate, Unrecorded, Record, locals, Working
<1>10. ASSUME NEW answer, Reconcile(w, answer) PROVE Stay
  BY <1>0, <1>10 DEF Reconcile, Working
<1>11. CASE Note(w) \/ Finish(w)
  BY <1>0, <1>11 DEF Note, Finish, locals, Working
<1>12. CASE Save(w)
  <2> DEFINE n == IF Task(w) = Length THEN "stop" ELSE "turn"
  <2>1. /\ Commit(w, Pinned(w, Task(w)), InContext(n)) /\ at'[w] = at[w] + 1 /\ fence' = fence
    BY <1>0, <1>12 DEF Save
  <2>2. /\ n \in {"stop", "turn"} /\ n \in Steps /\ InContext(n).step = n
    BY ContinuationTypes DEF Steps
  <2> HIDE DEF n
  <2>3. \/ pc'[w] = "stop"
        \/ /\ pc'[w] = "reread" /\ after'[w] = InContext(n)
           /\ CommitOK(run, Pinned(w, Task(w))) /\ run' = Committed(run, Pinned(w, Task(w)))
    BY <1>0, <2>1, CommitCases
  <2>4. QED
    BY <1>0, <1>12, <2>1, <2>2, <2>3 DEF Aim, Working, Task
<1>13. QED
  BY <1>1, <1>2, <1>3, <1>4, <1>5, <1>6, <1>7, <1>8, <1>9, <1>10, <1>11, <1>12, StableSession
  DEF SessionStep, Proceed

\* A session comes to save a task, or to ask what became of it, when its result is on
\* record.
LEMMA SavesRecorded ==
  ASSUME TypeOK, Positioned, ViewsLag, Next, NEW w \in Workers,
         Aim(w)' \in {"save", "reconcile"}
  PROVE  at'[w] = at[w] /\ (Aim(w) \in {"save", "reconcile"} \/ Recorded(run', Task(w)))
<1> DEFINE Goal == at'[w] = at[w] /\ (Aim(w) \in {"save", "reconcile"} \/ Recorded(run', Task(w)))
<1>0. /\ pc \in [Workers -> Steps] /\ after \in [Workers -> Continuations]
      /\ Aim(w)' \in {"save", "reconcile"} /\ run \in RunRecords
  BY DEF TypeOK
<1>1. CASE SameSession(w)
  BY <1>0, <1>1 DEF SameSession, Aim
<1>2. CASE Claim(w) \/ Load(w) \/ GiveUp(w) \/ Execute(w) \/ Archive(w)
  BY <1>0, <1>2 DEF Claim, Load, GiveUp, Execute, Archive, Goto, Aim
<1>3. CASE Crash(w) \/ Release(w)
  BY <1>0, <1>3, ResetFields DEF Crash, Release, Aim
<1>4. CASE Interrupt(w)
  BY <1>0, <1>4 DEF Interrupt, Aim
<1>5. CASE Reread(w)
  <2>1. /\ pc[w] = "reread" /\ at' = at /\ after[w].step \in Resumable /\ after'[w] = Nothing
        /\ pc'[w] = after[w].step \/ pc'[w] = "stop"
    BY <1>0, <1>5 DEF Reread, Goto, locals, Positioned, Position
  <2>2. QED
    BY <1>0, <2>1 DEF Aim, Resumable
<1>6. CASE Reuse(w)
  <2>1. Recorded(view[w], Task(w)) /\ run' = run /\ at' = at /\ Task(w) \in Tasks
    BY <1>6, WorkingTask DEF Reuse, Recorded, Working
  <2>2. QED
    BY <2>1 DEF ViewsLag
<1>7. ASSUME NEW o, Return(w, o) PROVE Goal
  BY <1>0, <1>7 DEF Return, Returned, Goto, Aim
<1>8. ASSUME NEW q, NEW next \in Continuations, Commit(w, q, next),
             next.step \notin {"save", "reconcile"}
      PROVE  FALSE
  <2>1. CommitMoves(w, next)
    BY <1>8, CommitMove
  <2>2. QED
    BY <1>0, <1>8, <2>1 DEF CommitMoves, Aim
<1>9. CASE Turn(w)
  BY <1>0, <1>8, <1>9, ContinuationTypes DEF Turn, Goto, Aim, Steps
<1>10. CASE Recover(w) \/ Activate(w) \/ Note(w)
  BY <1>8, <1>10, ContinuationTypes DEF Recover, Activate, Note, Steps
<1>11. CASE Record(w)
  <2> DEFINE r == Receipt(w)
             n == AfterResult(r.task, r.status, r.doubt)
             q == [Draft(w) EXCEPT !.results[r.task] = ResultOf(r)]
             next == Detached(IF n = "reconcile" THEN "note" ELSE n)
  <2>1. Task(w) \in Tasks /\ at' = at
    BY <1>11, WorkingTask DEF Record, Working
  <2>2. Commit(w, q, next)
    BY <1>11 DEF Record
  <2>3. /\ Sealed(w, q) /\ q.results = [EmptyRequest.results EXCEPT ![r.task] = ResultOf(r)]
        /\ r.task = Task(w) /\ r.status # "absent" /\ ResultOf(r).status = r.status
    <3>1. r.status # "absent" /\ ResultOf(r).status = r.status
      BY DEF Receipt, ResultOf
    <3>2. QED
      BY <2>1, <3>1, ReceiptFields, ResultFields
  <2> HIDE DEF q, r, n, next
  <2>4. q.results[Task(w)].status # "absent" /\ q \in Requests
    BY <2>1, <2>3, EmptyFields DEF Sealed
  <2>5. run' = Committed(run, q) \/ pc'[w] = "stop"
    BY <1>0, <2>2, CommitCases
  <2>6. run' = Committed(run, q) => Recorded(run', Task(w))
    BY <1>0, <2>1, <2>4, CommittedTasks DEF Recorded
  <2>7. QED
    BY <1>0, <2>1, <2>5, <2>6 DEF Aim
<1>12. ASSUME NEW answer, Reconcile(w, answer) PROVE Goal
  BY <1>12 DEF Reconcile, Aim
<1>13. CASE Save(w)
  <2>1. \E m \in {"stop", "turn"} : Commit(w, Pinned(w, Task(w)), InContext(m))
    BY <1>13 DEF Save
  <2>2. QED
    BY <1>8, <2>1, ContinuationTypes DEF Steps
<1>14. CASE Finish(w)
  BY <1>0, <1>8, <1>14, ContinuationTypes DEF Finish, Goto, Aim, Steps
<1>15. QED
  BY <1>1, <1>2, <1>3, <1>4, <1>5, <1>6, <1>7, <1>9, <1>10, <1>11, <1>12, <1>13, <1>14,
     StableSession DEF SessionStep, Proceed

LEMMA BehindStep ==
  ASSUME TypeOK, Positioned, ViewsLag, Behind, SnapshotsAreBacked, [Next]_vars
  PROVE  Behind'
<1>1. CASE UNCHANGED vars
  BY <1>1 DEF vars, session, locals, Behind, Aim, Task
<1>2. ASSUME Next, NEW w \in Workers, Aim(w)' \in Working, NEW t \in Tasks, t <= at'[w]
      PROVE  Backed(run', t)
  <2>1. Backed(run, t) => Backed(run', t)
    BY <1>2, RunSteps, RunGrows DEF Grows
  <2>2. CASE Aim(w) \in Working /\ at'[w] = at[w]
    BY <1>2, <2>1, <2>2 DEF Behind
  <2>3. CASE at'[w] = run.snapshot
    BY <1>2, <2>1, <2>3 DEF SnapshotsAreBacked, Backed, Recorded
  <2>4. CASE /\ Save(w) /\ at'[w] = Task(w)
             /\ CommitOK(run, Pinned(w, Task(w))) /\ run' = Committed(run, Pinned(w, Task(w)))
    <3>1. /\ Aim(w) \in Working /\ Task(w) = at[w] + 1 /\ at[w] \in Nat /\ t \in Nat
      BY <2>4, WorkingTask, PlanAssumption DEF Save, Working
    <3>2. t <= at[w] \/ t = Task(w)
      BY <1>2, <2>4, <3>1
    <3>3. Backed(run', Task(w))
      BY <2>4, SaveBacks
    <3>4. QED
      BY <2>1, <3>1, <3>2, <3>3 DEF Behind
  <2>5. QED
    BY <1>2, <2>2, <2>3, <2>4, AimSteps
<1>3. ASSUME Next, NEW w \in Workers, Aim(w)' \in {"save", "reconcile"}
      PROVE  Recorded(run, Task(w))'
  <2>1. Task(w)' = Task(w)
    BY <1>3, SavesRecorded DEF Task
  <2>2. Aim(w)' \in Working
    BY <1>3 DEF Working
  <2>3. Task(w) \in Tasks
    <3>1. TypeOK' /\ Positioned'
      BY <1>3, TypeStep
    <3>2. at'[w] < Length /\ at'[w] \in 0..Length
      BY <2>2, <3>1 DEF TypeOK, Positioned, Position
    <3>3. QED
      BY <1>3, <3>2, SavesRecorded, PlanAssumption DEF Task
  <2>4. Recorded(run, Task(w)) => Recorded(run', Task(w))
    BY <1>3, <2>3, RunSteps, RunGrows DEF Grows
  <2>5. Recorded(run', Task(w))
    BY <1>3, <2>4, SavesRecorded DEF Behind
  <2>6. QED
    BY <2>1, <2>5 DEF Recorded
<1>4. QED
  BY <1>1, <1>2, <1>3 DEF Behind, Backed, Recorded

-----------------------------------------------------------------------------
\* The position.

LEMMA AuthoritySteps ==
  ASSUME TypeOK, RunStep
  PROVE  /\ run'.fence >= run.fence
         /\ \/ run'.owner = run.owner /\ run'.fence = run.fence
            \/ run'.fence > run.fence
            \/ run = AbsentRun /\ run'.fence = 0
         /\ \/ run'.snapshot = run.snapshot
            \/ run'.owner = run.owner /\ run'.fence = run.fence
<1>0. run \in RunRecords /\ run.fence \in Nat
  BY RecordFields DEF TypeOK
<1>1. CASE run' = run \/ run' = Cancelled(run) \/ run' = Aged(run) \/ run' = Released(run)
  BY <1>0, <1>1, SchedulingFacts, SchedulingFields DEF SameFacts
<1>2. CASE run = AbsentRun /\ run' = Submitted(Ingress)
  BY <1>2, SubmittedFields, AbsentFields, PlanAssumption
<1>3. CASE \E i \in Inputs : run' = Signalled(run, i, NoTarget)
  BY <1>0, <1>3, SignalledFields
<1>4. CASE \E w \in Workers : run' = Claimed(run, w, 1)
  BY <1>0, <1>4, SchedulingFacts, SchedulingFields DEF SameFacts
<1>5. ASSUME NEW w \in Workers, Stored(w)
      PROVE  run'.owner = run.owner /\ run'.fence = run.fence
  BY <1>0, <1>5, CommittedFields DEF Stored, Purpose, Sealed
<1>6. QED
  BY <1>0, <1>1, <1>2, <1>3, <1>4, <1>5 DEF RunStep

\* A session's fence is one the record has given out.
LEMMA FenceSteps ==
  ASSUME TypeOK, Positioned, Next, NEW w \in Workers
  PROVE  \/ fence'[w] = fence[w] \/ fence'[w] = 0
         \/ fence'[w] = run.fence + 1 /\ run'.fence = run.fence + 1
<1> DEFINE Goal == \/ fence'[w] = fence[w] \/ fence'[w] = 0
                   \/ fence'[w] = run.fence + 1 /\ run'.fence = run.fence + 1
<1>0. fence \in [Workers -> Nat] /\ run \in RunRecords
  BY DEF TypeOK
<1>1. CASE SameSession(w)
  BY <1>1 DEF SameSession
<1>2. CASE Claim(w)
  BY <1>0, <1>2, SchedulingFields DEF Claim
<1>3. CASE Crash(w) \/ Release(w)
  BY <1>3, ResetFields DEF Crash, Release
<1>4. CASE Interrupt(w) \/ Load(w)
  BY <1>4 DEF Interrupt, Load
<1>5. CASE Reread(w) \/ Reuse(w) \/ GiveUp(w) \/ Execute(w) \/ Archive(w)
  BY <1>5 DEF Reread, Reuse, GiveUp, Execute, Archive, session, locals
<1>6. ASSUME NEW o, Return(w, o) PROVE Goal
  BY <1>6 DEF Return, Returned
<1>7. ASSUME NEW answer, Reconcile(w, answer) PROVE Goal
  BY <1>7 DEF Reconcile
<1>8. CASE Turn(w) \/ Recover(w) \/ Activate(w) \/ Record(w) \/ Save(w) \/ Note(w) \/ Finish(w)
  BY <1>8 DEF Turn, Recover, Activate, Record, Save, Note, Finish, locals
<1>9. QED
  BY <1>1, <1>2, <1>3, <1>4, <1>5, <1>6, <1>7, <1>8, StableSession DEF SessionStep, Proceed

LEMMA InPlaceStep ==
  ASSUME TypeOK, Positioned, ViewsLag, Behind, InPlace, [Next]_vars
  PROVE  InPlace'
<1>1. CASE UNCHANGED vars
  BY <1>1 DEF vars, session, locals, InPlace, Aim
<1>2. CASE Next
  <2>0. /\ run.fence \in Nat /\ run'.fence \in Nat /\ run'.fence >= run.fence
        /\ fence \in [Workers -> Nat] /\ fence' \in [Workers -> Nat]
    <3>1. run \in RunRecords /\ run' \in RunRecords /\ fence' \in [Workers -> Nat]
      BY <1>2, TypeStep DEF TypeOK
    <3>2. QED
      BY <1>2, <3>1, RecordFields, RunSteps, AuthoritySteps DEF TypeOK
  <2>1. ASSUME NEW w \in Workers PROVE fence'[w] <= run'.fence
    BY <1>2, <2>0, FenceSteps DEF InPlace
  <2>2. ASSUME NEW w \in Workers, Aim(w)' \in Working, run'.owner = w, run'.fence = fence'[w]
        PROVE  run'.snapshot = at'[w]
    <3>1. CASE /\ Load(w) /\ run' = run /\ at'[w] = run.snapshot
      BY <3>1
    <3>2. CASE /\ Save(w) /\ at'[w] = Task(w)
               /\ CommitOK(run, Pinned(w, Task(w))) /\ run' = Committed(run, Pinned(w, Task(w)))
      BY <3>2, SaveBacks
    <3>3. CASE Aim(w) \in Working /\ at'[w] = at[w] /\ fence'[w] = fence[w]
      <4>1. fence[w] # 0 /\ fence[w] <= run.fence
        BY <3>3 DEF InPlace, Positioned, Position, Aim, Working
      <4>2. run'.owner = run.owner /\ run'.fence = run.fence
        BY <1>2, <2>0, <2>2, <3>3, <4>1, RunSteps, AuthoritySteps
      <4>3. run.snapshot = at[w]
        BY <2>2, <3>3, <4>2 DEF InPlace
      <4>4. CASE run'.snapshot = run.snapshot
        BY <3>3, <4>3, <4>4
      <4>5. ASSUME NEW v \in Workers, run.owner = v, Save(v), run'.snapshot = Task(v)
            PROVE  run'.snapshot = at'[w]
        <5>1. v = w
          BY <2>2, <4>2, <4>5
        <5>2. at'[w] = Task(w)
          BY <4>5, <5>1 DEF Save, Task, TypeOK
        <5>3. QED
          BY <4>5, <5>1, <5>2
      <4>6. ASSUME NEW v \in Workers, run.owner = v, Note(v), run'.snapshot = at[v]
            PROVE  run'.snapshot = at'[w]
        BY <2>2, <3>3, <4>2, <4>6
      <4>7. QED
        BY <1>2, <4>4, <4>5, <4>6, SnapshotSteps
    <3>4. QED
      BY <1>2, <2>2, <3>1, <3>2, <3>3, AimSteps
  <2>3. QED
    BY <2>1, <2>2 DEF InPlace
<1>3. QED
  BY <1>1, <1>2

LEMMA PositionStep ==
  ASSUME TypeOK, Positioned, ViewsLag, Behind, InPlace, [Next]_vars
  PROVE  /\ run'.snapshot >= run.snapshot
         /\ run.status \in Terminal => run'.snapshot = run.snapshot
<1>0. run.snapshot \in 0..Length
  BY RecordFields, PlanAssumption DEF TypeOK
<1>1. CASE run'.snapshot = run.snapshot
  BY <1>0, <1>1, PlanAssumption
<1>2. ASSUME NEW w \in Workers, run.owner = w, run.fence = fence[w], Live(run),
             \/ Save(w) /\ run'.snapshot = Task(w)
             \/ Note(w) /\ run'.snapshot = at[w]
      PROVE  run'.snapshot >= run.snapshot /\ run.status \notin Terminal
  <2>1. Aim(w) \in Working /\ at[w] \in 0..Length
    BY <1>2, WorkingTask DEF Save, Note, Working
  <2>2. run.snapshot = at[w]
    BY <1>2, <2>1 DEF InPlace
  <2>3. run.status \notin Terminal
    BY <1>2 DEF Live
  <2>4. QED
    BY <1>0, <1>2, <2>1, <2>2, <2>3, PlanAssumption DEF Task
<1>3. CASE UNCHANGED vars
  BY <1>1, <1>3 DEF vars
<1>4. QED
  BY <1>1, <1>2, <1>3, SnapshotSteps

-----------------------------------------------------------------------------
\* The inductive invariant, and what follows from it.

IInv ==
  /\ TypeOK /\ Positioned /\ ViewsLag /\ Permitted /\ Archived /\ Earned
  /\ Behind /\ SnapshotsAreBacked /\ InPlace

LEMMA IInvInit == Init => IInv
<1> SUFFICES ASSUME Init PROVE IInv
  OBVIOUS
<1>1. /\ run = AbsentRun /\ receipts = {} /\ effects = [t \in Tasks |-> 0]
      /\ \A w \in Workers : pc[w] = "idle" /\ view[w] = AbsentRun /\ fence[w] = 0
  BY DEF Init
<1>2. TypeOK /\ Positioned
  BY TypeInit
<1>3. ViewsLag
  BY <1>1, AbsentFields DEF ViewsLag
<1>4. \A w \in Workers : Aim(w) = "idle"
  BY <1>1 DEF Aim
<1>5. Permitted /\ Archived /\ Earned
  BY <1>1, <1>4, AbsentFields DEF Permitted, Heading, Archived, Earned
<1>6. SnapshotsAreBacked
  BY <1>1, AbsentFields, PlanAssumption DEF SnapshotsAreBacked
<1>7. Behind /\ InPlace
  BY <1>1, <1>4, AbsentFields DEF Behind, InPlace, Working
<1>8. QED
  BY <1>2, <1>3, <1>5, <1>6, <1>7 DEF IInv

LEMMA IInvStep == IInv /\ [Next]_vars => IInv'
BY TypeStep, ViewsLagStep, PermittedStep, ArchivedStep, EarnedStep, BehindStep, BackedStep,
   InPlaceStep DEF IInv

LEMMA Inductive == Spec => []IInv
BY IInvInit, IInvStep, PTL DEF Spec

\* The physical action of a task that must not be repeated starts at most once, whatever
\* workers crash, lose their leases or the replies of their commits: its activation is
\* committed at the revision the session read, once, and executed by the session that
\* committed it (durable_runner.go:578-581, task_execution.go:55).
THEOREM EffectsHappenOnce == Spec => []EffectAtMostOnce
<1>1. IInv => EffectAtMostOnce
  BY DEF IInv, Permitted, EffectAtMostOnce
<1>2. QED
  BY <1>1, Inductive, PTL

\* Every result on record is the archived outcome of an execution of the attempt on
\* record (receipt_projection.go:38-61).
THEOREM ResultsAreExecuted == Spec => []ResultsAreEarned
<1>1. IInv => ResultsAreEarned
  BY DEF IInv, Earned, Archived, ResultsAreEarned, Recorded
<1>2. QED
  BY <1>1, Inductive, PTL

\* A snapshot claims no task whose result is not on record and adopted
\* (durable_runner.go:357-361,566).
THEOREM SnapshotsHaveResults == Spec => []SnapshotsAreBacked
<1>1. IInv => SnapshotsAreBacked
  BY DEF IInv
<1>2. QED
  BY <1>1, Inductive, PTL

\* No session puts an earlier snapshot over a later one, or any over that of a run that
\* has ended (durable_runner.go:357-447).
THEOREM SnapshotsAdvance == Spec => SnapshotNeverRecedes
<1>1. IInv /\ [Next]_vars =>
        [/\ run'.snapshot >= run.snapshot
         /\ run.status \in Terminal => run'.snapshot = run.snapshot]_vars
  BY PositionStep DEF IInv
<1>2. QED
  BY <1>1, Inductive, PTL DEF Spec, SnapshotNeverRecedes

-----------------------------------------------------------------------------
\* The refinement: the record of the run, read as the ledger that RunStore implements.

Ledger == INSTANCE RunLedger WITH
  phase <- Phase(run), revision <- run.revision,
  accepted <- Accepts(run), consumed <- Consumes(run),
  outcome <- Recordings(run), adopted <- Adopts(run),
  confirmed <- Confirms(run), stage <- run.artifacts

\* What the host, the clock and the sessions do to the record are its transitions.
LEMMA RunnerTransitions ==
  ASSUME TypeOK, RunStep
  PROVE  Transition(run, run')
<1>1. CASE \/ run' = run \/ run' = Aged(run) \/ run' = Released(run)
           \/ CancelOK(run) /\ run' = Cancelled(run)
  BY <1>1 DEF Transition
<1>2. CASE run = AbsentRun /\ run' = Submitted(Ingress)
  BY <1>2, PlanAssumption DEF Transition
<1>3. CASE \E i \in Inputs : SignalOK(run, i, NoTarget) /\ run' = Signalled(run, i, NoTarget)
  BY <1>3 DEF Transition
<1>4. CASE \E w \in Workers : ClaimOK(run) /\ run' = Claimed(run, w, 1)
  BY <1>4 DEF Transition
<1>5. ASSUME NEW w \in Workers, Stored(w) PROVE Transition(run, run')
  <2>1. PICK q : Purpose(w, q) /\ CommitOK(run, q) /\ run' = Committed(run, q)
    BY <1>5 DEF Stored
  <2>2. q \in Requests /\ Live(run) /\ FactsOK(run, q)
    BY <2>1 DEF Purpose, Sealed, CommitOK
  <2>3. QED
    BY <2>1, <2>2 DEF Transition
<1>6. QED
  BY <1>1, <1>2, <1>3, <1>4, <1>5 DEF RunStep

LEMMA RunnerLedgerStep ==
  ASSUME LedgerMove(run, run')
  PROVE  [Ledger!Next]_(Ledger!ledger)
<1> USE DEF SameSettled
<1>1. CASE Stutters(run, run')
  BY <1>1 DEF Stutters, Ledger!ledger, Phase, Accepts, Consumes, Recordings, Adopts, Confirms
<1>2. CASE Opens(run, run')
  <2>1. PICK i \in Inputs : /\ Phase(run) = "none" /\ Phase(run') = "open"
                            /\ Accepts(run') = {i} /\ SameSettled(run, run')
    BY <1>2 DEF Opens
  <2>2. Ledger!Open(i)
    BY <2>1 DEF Ledger!Open, Phase, Accepts, Consumes, Recordings, Adopts, Confirms
  <2>3. QED
    BY <2>2 DEF Ledger!Next
<1>3. CASE AcceptsOne(run, run')
  <2>1. PICK i \in Inputs :
          /\ Phase(run) = "open" /\ Phase(run') = Phase(run) /\ i \notin Accepts(run)
          /\ Accepts(run') = Accepts(run) \cup {i} /\ SameSettled(run, run')
    BY <1>3 DEF AcceptsOne
  <2>2. Ledger!Accept(i)
    BY <2>1 DEF Ledger!Accept, Phase, Accepts, Consumes, Recordings, Adopts, Confirms
  <2>3. QED
    BY <2>2 DEF Ledger!Next
<1>4. CASE Settles(run, run')
  <2>1. TaskStatuses = Ledger!Outcomes
    BY DEF TaskStatuses, Ledger!Outcomes
  <2>2. Ledger!Settle
    BY <1>4, <2>1 DEF Settles, Ledger!Settle, Phase, Accepts, Consumes, Recordings, Adopts,
                      Confirms
  <2>3. QED
    BY <2>2 DEF Ledger!Next
<1>5. QED
  BY <1>1, <1>2, <1>3, <1>4 DEF LedgerMove

\* Workers that crash, lose leases and replies, and decide on copies of the record, still
\* move it only as the ledger allows: what one of them settled, no other unsettles, and
\* nothing is settled after the run has ended (commit.go:139-304, durable_runner.go:357-447).
THEOREM RunIsLedger == Spec => Ledger!Spec
<1>1. Init => Ledger!Init /\ Factual(run)
  BY DEF Init, AbsentRun, NoInput, NoResult, Ledger!Init, Factual, Phase, Accepts, Consumes,
         Recordings, Adopts, Confirms
<1>2. IInv /\ Factual(run) /\ [Next]_vars
        => Factual(run)' /\ [Ledger!Next]_(Ledger!ledger)
  <2>1. ASSUME IInv, Next PROVE Transition(run, run')
    BY <2>1, RunSteps, RunnerTransitions DEF IInv
  <2>2. UNCHANGED vars => Transition(run, run')
    BY DEF vars, Transition
  <2>3. QED
    BY <2>1, <2>2, RecordIsLedger, RunnerLedgerStep DEF IInv, TypeOK
<1>3. QED
  BY <1>1, <1>2, Inductive, PTL DEF Spec, Ledger!Spec
=============================================================================
