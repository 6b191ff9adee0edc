---------------------------- MODULE DurableRunner ----------------------------
(***************************************************************************)
(* Workers executing one durable run (runtime/task_worker.go,              *)
(* durable_runner.go, durable_calls.go, receipt_projection.go,             *)
(* tool_reconcile.go).  A worker claims the run, restores the position its *)
(* snapshot names and takes the remaining tasks in order: a task is        *)
(* activated, executed outside the store, its receipt archived, its result *)
(* recorded, and the snapshot that adopts it saved.  A session can lose    *)
(* its lease, its context, a reply or its process between any two of these *)
(* steps, and it decides on the copy of the record it last read.           *)
(*                                                                         *)
(* Tasks are numbered in the order the strategy takes them; a snapshot is  *)
(* the number of tasks it contains, and the one with all is final.  A      *)
(* lease is one tick long, so a renewal in time changes nothing; one that  *)
(* comes too late, or fails, is Interrupt.                                 *)
(*                                                                         *)
(* An operator named Faulty... or the like, before the one it resembles,   *)
(* is that operator with a plausible bug; no action uses it.               *)
(***************************************************************************)
EXTENDS RunRecord

CONSTANTS
  Length,        \* the number of tasks of the run
  Models,        \* tasks that are model calls; the others are tool calls
  ReplaySafe,    \* tool calls that may be executed again
  Ingress,       \* the input the run was submitted with
  MaxFaults      \* bound of the model on faults of workers, database and host

ASSUME PlanAssumption ==
  /\ Length \in Nat \ {0} /\ MaxFaults \in Nat
  /\ Tasks = 1..Length /\ Snapshots = 1..Length /\ NoSnapshot = 0
  /\ Models \subseteq Tasks /\ 1 \in Models /\ ReplaySafe \subseteq Tasks \ Models
  /\ Ingress \in Inputs /\ Targets = {}

VARIABLES
  run,        \* hexagon_runs
  receipts,   \* hexagon_receipts: task receipts, whoever archived them
  doubt,      \* tasks whose recorded result says that it needs reconciliation
  pc,         \* [Workers -> step of Worker.Process]
  after,      \* [Workers -> Continuations]: what follows the commit being read back
  view,       \* [Workers -> RunRecords]: runSession.record
  fence,      \* [Workers -> Nat]: the fence of its authority
  at,         \* [Workers -> 0..Length]: tasks its state contains
  stopped,    \* [Workers -> BOOLEAN]: its execution context is cancelled
  outcome,    \* [Workers -> Outcomes]: of the task it executes
  exit,       \* [Workers -> status it finishes with]
  effects,    \* [Tasks -> Nat]: physical executions started (history)
  asked,      \* the host called Cancel (history)
  faults

locals == <<fence, at, stopped, outcome, exit>>
session == <<after, view, locals>>
history == <<effects, asked>>
vars == <<run, receipts, doubt, pc, session, history, faults>>

Outcomes == {"none", "succeeded", "failed", "canceled", "timeout"}
Steps == {"idle", "claimed", "turn", "dispatch", "execute", "running", "archive", "record",
          "save", "reconcile", "note", "finish", "reread", "stop"}
Continuations == [step : Steps, detached : BOOLEAN]
Nothing == [step |-> "idle", detached |-> FALSE]
Exits == {"none", "failed", "cancelled", "waiting"}

Task(w) == at[w] + 1
Unsafe(t) == t \notin ReplaySafe
NeedsReconciliation(t, o) == t \notin Models /\ Unsafe(t) /\ o \in {"canceled", "timeout"}

TypeOK ==
  /\ run \in RunRecords
  /\ receipts \subseteq [task : Tasks, attempt : Nat, read : Nat,
                         status : TaskStatuses, doubt : BOOLEAN]
  /\ doubt \in SUBSET Tasks
  /\ pc \in [Workers -> Steps] /\ after \in [Workers -> Continuations]
  /\ view \in [Workers -> RunRecords]
  /\ fence \in [Workers -> Nat] /\ at \in [Workers -> 0..Length]
  /\ stopped \in [Workers -> BOOLEAN]
  /\ outcome \in [Workers -> Outcomes] /\ exit \in [Workers -> Exits]
  /\ effects \in [Tasks -> Nat] /\ asked \in BOOLEAN /\ faults \in 0..MaxFaults

Init ==
  /\ run = AbsentRun /\ receipts = {} /\ doubt = {}
  /\ pc = [w \in Workers |-> "idle"] /\ after = [w \in Workers |-> Nothing]
  /\ view = [w \in Workers |-> AbsentRun]
  /\ fence = [w \in Workers |-> 0] /\ at = [w \in Workers |-> 0]
  /\ stopped = [w \in Workers |-> FALSE]
  /\ outcome = [w \in Workers |-> "none"] /\ exit = [w \in Workers |-> "none"]
  /\ effects = [t \in Tasks |-> 0] /\ asked = FALSE /\ faults = 0

Fault == faults < MaxFaults /\ faults' = faults + 1
Goto(w, step) == pc' = [pc EXCEPT ![w] = step]

-----------------------------------------------------------------------------
\* The host, and the database clock.

Submit ==
  /\ run = AbsentRun
  /\ run' = Submitted(Ingress)
  /\ UNCHANGED <<receipts, doubt, pc, session, history, faults>>

\* An untargeted signal: the host's way to have a parked run looked at again.
Signal(i) ==
  /\ SignalOK(run, i, NoTarget)
  /\ run' = Signalled(run, i, NoTarget)
  /\ UNCHANGED <<receipts, doubt, pc, session, history, faults>>

Cancel ==
  /\ CancelOK(run)
  /\ run' = Cancelled(run) /\ asked' = TRUE
  /\ UNCHANGED <<receipts, doubt, pc, session, effects, faults>>

Executes(w) == pc[w] # "idle"
Tended == \E w \in Workers : Executes(w) /\ ~stopped[w] /\ RenewOK(run, w, fence[w])

\* The lease of a worker that died runs out; that of a live one only by a fault.
Expire ==
  /\ run.lease > 0
  /\ run' = Aged(run)
  /\ IF Tended THEN Fault ELSE UNCHANGED faults
  /\ UNCHANGED <<receipts, doubt, pc, session, history>>

\* A renewal that fails, or the host shutting down, cancels the execution context.
Interrupt(w) ==
  /\ Executes(w) /\ ~stopped[w]
  /\ stopped' = [stopped EXCEPT ![w] = TRUE]
  /\ IF RenewOK(run, w, fence[w]) THEN Fault ELSE UNCHANGED faults
  /\ UNCHANGED <<run, receipts, doubt, pc, after, view, fence, at, outcome, exit, history>>

Reset(w) ==
  /\ Goto(w, "idle") /\ after' = [after EXCEPT ![w] = Nothing]
  /\ view' = [view EXCEPT ![w] = AbsentRun]
  /\ fence' = [fence EXCEPT ![w] = 0] /\ at' = [at EXCEPT ![w] = 0]
  /\ stopped' = [stopped EXCEPT ![w] = FALSE]
  /\ outcome' = [outcome EXCEPT ![w] = "none"] /\ exit' = [exit EXCEPT ![w] = "none"]

Crash(w) ==
  /\ Executes(w) /\ Fault
  /\ Reset(w)
  /\ UNCHANGED <<run, receipts, doubt, history>>

-----------------------------------------------------------------------------
\* commitLocked: a commit, then a read of the record it was applied to.  The reply may
\* be lost, and between the two the record moves on.  A commit that is not known to be
\* applied, or cannot be read back, ends the session without a word to the store, for
\* nobody may overwrite a commit whose outcome is open.  The context is cancelled for
\* both, unless they are detached from it.

Draft(w) ==
  [EmptyRequest EXCEPT !.owner = w, !.fence = fence[w], !.expected = view[w].revision,
                       !.events = 1]

Applied(w, q, next) ==
  /\ CommitOK(run, q)
  /\ run' = Committed(run, q)
  /\ after' = [after EXCEPT ![w] = next]
  /\ Goto(w, "reread") /\ UNCHANGED faults

NotApplied(w, q) ==
  /\ IF CommitOK(run, q) THEN Fault ELSE UNCHANGED faults
  /\ UNCHANGED <<run, after>> /\ Goto(w, "stop")

Commit(w, q, next) ==
  IF stopped[w] /\ ~next.detached THEN UNCHANGED <<run, after, faults>> /\ Goto(w, "stop")
  ELSE Applied(w, q, next) \/ NotApplied(w, q)

InContext(step) == [step |-> step, detached |-> FALSE]
Detached(step) == [step |-> step, detached |-> TRUE]

Reread(w) ==
  LET next == after[w] IN
  /\ pc[w] = "reread"
  /\ after' = [after EXCEPT ![w] = Nothing]
  /\ \/ /\ stopped[w] => next.detached
        /\ view' = [view EXCEPT ![w] = run] /\ Goto(w, next.step) /\ UNCHANGED faults
     \/ /\ IF stopped[w] /\ ~next.detached THEN UNCHANGED faults ELSE Fault
        /\ Goto(w, "stop") /\ UNCHANGED view
  /\ UNCHANGED <<run, receipts, doubt, locals, history>>

-----------------------------------------------------------------------------
\* A session.

\* The reply of a claim may be lost: the lease then runs with nobody behind it.
Claim(w) ==
  /\ pc[w] = "idle" /\ ClaimOK(run)
  /\ run' = Claimed(run, w, 1)
  /\ \/ /\ fence' = [fence EXCEPT ![w] = run.fence + 1]
        /\ Goto(w, "claimed") /\ UNCHANGED faults
     \/ Fault /\ UNCHANGED <<fence, pc>>
  /\ UNCHANGED <<receipts, doubt, after, view, at, stopped, outcome, exit, history>>

\* ExecuteWithInputs up to the runner: the record is read again.
Load(w) ==
  /\ pc[w] = "claimed"
  /\ IF ~stopped[w] /\ run.owner = w /\ run.fence = fence[w] /\ Live(run) /\ run.snapshot # Length
     THEN /\ view' = [view EXCEPT ![w] = run] /\ at' = [at EXCEPT ![w] = run.snapshot]
          /\ Goto(w, "turn")
     ELSE Goto(w, "stop") /\ UNCHANGED <<view, at>>
  /\ UNCHANGED <<run, receipts, doubt, after, fence, stopped, outcome, exit, history, faults>>

Leave(w, status) == exit' = [exit EXCEPT ![w] = status]

\* Between two tasks the context is looked at, and an event is committed.
Turn(w) ==
  /\ pc[w] = "turn"
  /\ \/ /\ stopped[w] /\ Leave(w, "cancelled") /\ Goto(w, "finish")
        /\ UNCHANGED <<run, after, faults>>
     \/ ~stopped[w] /\ Commit(w, Draft(w), InContext("dispatch")) /\ UNCHANGED exit
  /\ UNCHANGED <<receipts, doubt, view, fence, at, stopped, outcome, history>>

\* What a recorded result leads to, whether it was just recorded or is reused.
AfterResult(t, status, doubtful) ==
  IF status = "succeeded" THEN "save"
  ELSE IF t \in Models THEN "finish" ELSE IF doubtful THEN "reconcile" ELSE "save"

\* executeTask, a result is on record: it is reused, never executed again.
Reuse(w) ==
  LET t == Task(w)
      next == AfterResult(t, view[w].tasks[t].status, t \in doubt)
  IN
  /\ pc[w] = "dispatch" /\ view[w].tasks[t].status # "absent"
  /\ Goto(w, next)
  /\ Leave(w, IF next = "finish" THEN "failed" ELSE "none")
  /\ UNCHANGED <<run, receipts, doubt, after, view, fence, at, stopped, outcome, history, faults>>

Activation(w) == view[w].activations[Task(w)]
Unrecorded(w) == pc[w] = "dispatch" /\ view[w].tasks[Task(w)].status = "absent"

\* Nothing is known of an activation on record that has no result, and only a call
\* that is safe to repeat is made again.
FaultyMayActivate(w) == TRUE
MayActivate(w) == Activation(w).attempt = 0 \/ ~Unsafe(Task(w))

\* The receipt of the activation on record, which another worker may have archived.
Original(w) ==
  {r \in receipts : /\ r.task = Task(w) /\ Activation(w).attempt # 0
                    /\ r.attempt = Activation(w).attempt /\ r.read = Activation(w).read}

ResultOf(r) == [status |-> r.status, attempt |-> r.attempt, read |-> r.read, adopted |-> 0]

\* The result enters the record with its doubt, which is part of its payload.
RecordDoubt(r) == doubt' = IF run'.tasks # run.tasks /\ r.doubt THEN doubt \cup {r.task} ELSE doubt

Recover(w) ==
  /\ Unrecorded(w)
  /\ \E r \in Original(w) :
       /\ Commit(w, [Draft(w) EXCEPT !.results[r.task] = ResultOf(r)], InContext("dispatch"))
       /\ RecordDoubt(r)
  /\ UNCHANGED <<receipts, view, locals, history>>

\* TaskOutcomeUnknownError: the run is parked for its host.
GiveUp(w) ==
  /\ Unrecorded(w) /\ Original(w) = {} /\ ~MayActivate(w)
  /\ Leave(w, "waiting") /\ Goto(w, "finish")
  /\ UNCHANGED <<run, receipts, doubt, after, view, fence, at, stopped, outcome, history, faults>>

\* A session takes a task at most once, so its fence names the attempt.
Activate(w) ==
  LET read == IF Activation(w).attempt = 0 THEN view[w].revision ELSE Activation(w).read IN
  /\ Unrecorded(w) /\ Original(w) = {} /\ MayActivate(w)
  /\ Commit(w, [Draft(w) EXCEPT !.events = 0,
       !.activate[Task(w)] = [attempt |-> fence[w], read |-> read]], InContext("execute"))
  /\ UNCHANGED <<receipts, doubt, view, locals, history>>

\* The effect: a model or tool is called, outside the store and outside its locks.
Execute(w) ==
  /\ pc[w] = "execute"
  /\ effects' = [effects EXCEPT ![Task(w)] = @ + 1]
  /\ Goto(w, "running")
  /\ UNCHANGED <<run, receipts, doubt, session, asked, faults>>

\* A tool may be cancelled or time out on its own; a model call only by the context.
Possible(w, o) ==
  /\ o = "canceled" => stopped[w] \/ Task(w) \notin Models
  /\ o = "timeout" => Task(w) \notin Models

Returned(w, o, step) ==
  /\ pc[w] = "running" /\ Possible(w, o)
  /\ outcome' = [outcome EXCEPT ![w] = o]
  /\ Goto(w, step)
  /\ UNCHANGED <<run, receipts, doubt, after, view, fence, at, stopped, exit, history, faults>>

FaultyReturn(w, o) == Returned(w, o, "record")
Return(w, o) == Returned(w, o, "archive")

Receipt(w) ==
  [task |-> Task(w), attempt |-> fence[w], read |-> Activation(w).read,
   status |-> IF outcome[w] = "succeeded" THEN "succeeded" ELSE "failed",
   doubt |-> NeedsReconciliation(Task(w), outcome[w])]

\* No authority is needed to archive what happened.
Archive(w) ==
  /\ pc[w] = "archive"
  /\ \/ receipts' = receipts \cup {Receipt(w)} /\ Goto(w, "record") /\ UNCHANGED faults
     \/ Fault /\ Goto(w, "stop") /\ UNCHANGED receipts
  /\ UNCHANGED <<run, doubt, session, history>>

\* Every failure parks the run.
ParkingExitAfter(o, next) ==
  IF next = "save" THEN "none" ELSE IF o = "canceled" THEN "cancelled" ELSE "waiting"
\* How a session ends that stops after the task it executed.
ExitAfter(o, next) ==
  IF next = "save" THEN "none"
  ELSE IF o = "canceled" THEN "cancelled" ELSE IF o = "timeout" THEN "waiting" ELSE "failed"

\* The lookup is for results found on record; the session that executed the call has
\* nothing new to ask.
Record(w) ==
  LET r == Receipt(w)
      next == AfterResult(r.task, r.status, r.doubt)
  IN
  /\ pc[w] = "record"
  /\ Commit(w, [Draft(w) EXCEPT !.results[r.task] = ResultOf(r)],
            Detached(IF next = "reconcile" THEN "note" ELSE next))
  /\ RecordDoubt(r)
  /\ Leave(w, ExitAfter(outcome[w], next))
  /\ outcome' = [outcome EXCEPT ![w] = "none"]
  /\ UNCHANGED <<receipts, view, fence, at, stopped, history>>

\* The tool's own lookup of what its original call did; it never repeats the call.
Reconcile(w, answer) ==
  /\ pc[w] = "reconcile"
  /\ Commit(w, Draft(w), InContext(IF answer = "handled" THEN "save" ELSE "note"))
  /\ Leave(w, IF answer = "handled" THEN "none"
              ELSE IF answer = "canceled" THEN "cancelled" ELSE "waiting")
  /\ UNCHANGED <<receipts, doubt, view, fence, at, stopped, outcome, history>>

\* The results to adopt: the session marked its task whether it executed it or found
\* its result on record.
FaultyAdoptable(w, t) ==
  view[w].tasks[t].status = "succeeded" /\ view[w].tasks[t].attempt = fence[w]
Adoptable(w, t) == view[w].tasks[t].status = "succeeded" /\ view[w].tasks[t].adopted = 0

Pinned(w, n) ==
  LET adopt == {t \in Tasks : t = Task(w) /\ t <= n /\ Adoptable(w, t)}
      consume == {i \in Inputs : i = Ingress /\ view[w].snapshot = NoSnapshot
                                 /\ view[w].inputs[i].consumed = 0}
  IN [Draft(w) EXCEPT !.snapshot = n, !.adopt = adopt, !.consume = consume,
        !.status = IF n = Length THEN "succeeded" ELSE "running",
        !.waiting = [declared |-> TRUE, targets |-> {}]]

\* A snapshot with the task's result in it settles its doubt: only a handled lookup
\* leads here with one.
Save(w) ==
  /\ pc[w] = "save"
  /\ Commit(w, Pinned(w, Task(w)), InContext(IF Task(w) = Length THEN "stop" ELSE "turn"))
  /\ at' = [at EXCEPT ![w] = @ + 1]
  /\ doubt' = IF run' # run THEN doubt \ {Task(w)} ELSE doubt
  /\ UNCHANGED <<receipts, view, fence, stopped, outcome, exit, history>>

\* The failed call is noted in the snapshot, its task stays to be done.
Note(w) ==
  /\ pc[w] = "note"
  /\ Commit(w, Pinned(w, at[w]), InContext("finish"))
  /\ UNCHANGED <<receipts, doubt, view, locals, history>>

Finish(w) ==
  /\ pc[w] = "finish"
  /\ IF Live(view[w])
     THEN Commit(w, [Draft(w) EXCEPT !.status = exit[w]], Detached("stop"))
     ELSE UNCHANGED <<run, after, faults>> /\ Goto(w, "stop")
  /\ UNCHANGED <<receipts, doubt, view, locals, history>>

Release(w) ==
  /\ pc[w] = "stop"
  /\ run' = IF ReleaseOK(run, w, fence[w]) THEN Released(run) ELSE run
  /\ Reset(w)
  /\ UNCHANGED <<receipts, doubt, history, faults>>

Proceed(w) ==
  \/ Load(w) \/ Turn(w) \/ Reread(w)
  \/ Reuse(w) \/ Recover(w) \/ GiveUp(w) \/ Activate(w)
  \/ Execute(w)
  \/ \E o \in Outcomes \ {"none"} : Return(w, o)
  \/ Archive(w) \/ Record(w)
  \/ \E answer \in {"handled", "unhandled", "canceled"} : Reconcile(w, answer)
  \/ Save(w) \/ Note(w) \/ Finish(w) \/ Release(w)

Next ==
  \/ Submit
  \/ \E i \in Inputs \ {Ingress} : Signal(i)
  \/ Cancel
  \/ Expire
  \/ \E w \in Workers : Interrupt(w)
  \/ \E w \in Workers : Crash(w)
  \/ \E w \in Workers : Claim(w)
  \/ \E w \in Workers : Proceed(w)

Spec == Init /\ [][Next]_vars

\* Workers poll for ever and return from what they execute; a lease nobody renews
\* runs out.
FairSpec ==
  /\ Spec
  /\ WF_vars(\E w \in Workers : Claim(w))
  /\ WF_vars(Expire)
  /\ \A w \in Workers : WF_vars(Proceed(w))

-----------------------------------------------------------------------------
\* The physical action of a task that must not be repeated is started at most once,
\* over all workers, attempts, crashes and lost replies (durable_runner.go:578-581,
\* task_execution.go:55).
EffectAtMostOnce == \A t \in Tasks : Unsafe(t) => effects[t] <= 1

\* A recorded result is the archived outcome of the attempt on record, executed for
\* real: a receipt of a superseded attempt never stands in for the current one, and
\* no result is taken from an activation that never ran (receipt_projection.go:38-61).
ResultsAreEarned ==
  \A t \in Tasks : run.tasks[t].status # "absent" =>
    /\ run.tasks[t].attempt = run.activations[t].attempt
    /\ \E r \in receipts : r.task = t /\ ResultOf(r) = WithoutAdoption(run.tasks[t])
    /\ effects[t] > 0

\* A snapshot never claims more than the record holds: each task it contains has a
\* result, and a successful one is adopted, although the session that recorded the
\* result and the one that saved the snapshot may be different workers
\* (durable_runner.go:357-361,566).
SnapshotsAreBacked ==
  \A t \in Tasks : t <= run.snapshot =>
    /\ run.tasks[t].status # "absent"
    /\ run.tasks[t].status = "succeeded" => run.tasks[t].adopted # 0

\* The position of a run never recedes: a session that has lost the run, or decides on
\* an old copy of it, cannot put an earlier snapshot over a later one, and a run that
\* has ended keeps the snapshot it ended with (durable_runner.go:357-447).
SnapshotNeverRecedes ==
  [][/\ run'.snapshot >= run.snapshot
     /\ run.status \in Terminal => run'.snapshot = run.snapshot]_vars

\* A call whose outcome is open: what a host can act on (durable_runner.go:237-252).
OutcomeIsOpen ==
  \E t \in Tasks :
    /\ Unsafe(t) /\ run.activations[t].attempt # 0
    /\ run.tasks[t].status = "absent" \/ t \in doubt

\* Every submitted run comes to rest: it ends, or it is parked over an open outcome. No
\* order of claims, expiries, lost replies and crashes leaves it without a worker, or
\* asleep without a reason.
Rests ==
  run.status # "absent" ~>
    (run.status \in Terminal \/ (run.status = "waiting" /\ OutcomeIsOpen))

\* The handover at shutdown: a host that stops, or a renewal that fails, leaves the
\* run to another worker; a run is cancelled when a host cancels it
\* (task_worker.go:100).
ShutdownHandsOver == run.status = "cancelled" => asked
=============================================================================
