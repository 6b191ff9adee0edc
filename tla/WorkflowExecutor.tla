--------------------------- MODULE WorkflowExecutor ---------------------------
(***************************************************************************)
(* One workflow execution of src/orchestration/workflow: the loop of       *)
(* executor.go with Pause, Resume and Cancel, recovery.go, RecoverPending  *)
(* of persistence.go, the callbacks of callback.go, and the durable driver *)
(* of durable.go.                                                          *)
(*                                                                         *)
(* A caller is a goroutine that starts the execution or recovers it from   *)
(* the store.  Without Durable all callers share one process and one       *)
(* Executor, whose registry attaches one run to the execution; with it     *)
(* every caller is a worker with an Executor of its own, and a save is a   *)
(* commit that the run's revision and owner must accept.                   *)
(*                                                                         *)
(* Variables and outputs are left out; a step is known by its result and   *)
(* by what it did outside.  state.mu makes a status or result and its save *)
(* one step.                                                               *)
(***************************************************************************)
EXTENDS Naturals, FiniteSets, Sequences

CONSTANTS
  Callers,     \* goroutines that start, recover or drive the execution
  Nobody,      \* no caller
  Steps,       \* the workflow's steps, in order
  Needs,       \* step -> the steps it declares as dependencies
  ReplaySafe,  \* steps declared safe to execute again
  Durable,     \* the durable driver, or the executor with a plain store
  Serial,      \* the host recovers only what nobody runs or recovers
  MaxFaults,   \* failed saves, failed callbacks and crashes
  MaxReads     \* reads of the stored execution

\* What the constants have to satisfy.
WorkflowConstants ==
  /\ Nobody \notin Callers
  /\ Steps \in Seq(DOMAIN Needs)
  /\ {Durable, Serial} \subseteq BOOLEAN
  /\ MaxFaults \in Nat /\ MaxReads \in Nat

VARIABLES
  stored,    \* the stored execution: status, step results, revision
  attached,  \* the caller whose run e.executions holds, without Durable
  owner,     \* the caller that holds the run's lease, with Durable
  copy,      \* caller -> the stored execution it read
  run,       \* caller -> its execution state and where its goroutine is
  effects,   \* step -> how often it took effect outside
  worked,    \* steps whose effect succeeded
  faults, reads

workflow_vars == <<stored, attached, owner, copy, run, effects, worked, faults, reads>>

StepNames == {Steps[i] : i \in 1..Len(Steps)}
Terminal  == {"completed", "failed", "cancelled"}
NoResults == [s \in StepNames |-> "none"]

Idle == [at |-> "idle", i |-> 1, status |-> "none", res |-> NoResults, rev |-> 0,
         pause |-> FALSE, resume |-> FALSE, cancelled |-> FALSE, lost |-> FALSE, ok |-> FALSE]

\* Without Durable nothing is stored before RunAsync; with it the run was
\* submitted and its first worker builds the execution.
NotStored == [status |-> IF Durable THEN "running" ELSE "none", res |-> NoResults, rev |-> 0]

Init ==
  /\ stored = NotStored
  /\ attached = Nobody /\ owner = Nobody
  /\ copy = [c \in Callers |-> NotStored]
  /\ run = [c \in Callers |-> Idle]
  /\ effects = [s \in StepNames |-> 0] /\ worked = {}
  /\ faults = 0 /\ reads = 0

----------------------------------------------------------------------------
(* Saving.                                                                 *)

\* The driver saves as a plain store does.
FaultyAccepts(c) == c \in Callers

\* A plain store overwrites; a commit needs the lease and the revision.
Accepts(c) == Durable => owner = c /\ run[c].rev = stored.rev

Image(r) == [status |-> r.status, res |-> r.res, rev |-> IF Durable THEN stored.rev + 1 ELSE 0]

\* A failed save is not reported.
FaultyPersist(c, r, next, failed) ==
  \/ /\ Accepts(c)
     /\ stored' = Image(r)
     /\ run' = [run EXCEPT ![c] = [r EXCEPT !.at = next, !.rev = Image(r).rev]]
     /\ UNCHANGED faults
  \/ /\ IF Accepts(c) THEN faults < MaxFaults /\ faults' = faults + 1 ELSE UNCHANGED faults
     /\ stored' \in {stored} \cup (IF Accepts(c) THEN {Image(r)} ELSE {})
     /\ run' = [run EXCEPT ![c] = [r EXCEPT !.at = failed]]

\* persistExecution with r as the new state: saved, and c goes on to next; or
\* failed, applied or not, and c goes on to failed.
Persist(c, r, next, failed) ==
  \/ /\ Accepts(c)
     /\ stored' = Image(r)
     /\ run' = [run EXCEPT ![c] = [r EXCEPT !.at = next, !.rev = Image(r).rev]]
     /\ UNCHANGED faults
  \/ /\ IF Accepts(c) THEN faults < MaxFaults /\ faults' = faults + 1 ELSE UNCHANGED faults
     /\ stored' \in {stored} \cup (IF Accepts(c) THEN {Image(r)} ELSE {})
     /\ run' = [run EXCEPT ![c] = [r EXCEPT !.at = failed, !.lost = TRUE]]

\* setExecutionStatus
SetStatus(c, r, status, next) ==
  /\ Persist(c, [r EXCEPT !.status = status], next, "closing")
  /\ UNCHANGED <<attached, owner, copy, effects, worked, reads>>

\* failExecution: what was running is failed, and the status says so.
FailExecution(c) ==
  LET r == [run[c] EXCEPT !.res = [s \in StepNames |-> IF run[c].res[s] = "running"
                                                      THEN "failed" ELSE run[c].res[s]]]
  IN  SetStatus(c, r, IF r.cancelled THEN "cancelled" ELSE "failed", "closing")

\* emitEvent and the hooks: nobody objects and c goes on, or one fails, which
\* fails the execution.
CallBack(c, next) ==
  \/ /\ run' = [run EXCEPT ![c].at = next]
     /\ UNCHANGED <<stored, attached, owner, copy, effects, worked, faults, reads>>
  \/ /\ faults < MaxFaults
     /\ run' = [run EXCEPT ![c].at = "failing"]
     /\ faults' = faults + 1
     /\ UNCHANGED <<stored, attached, owner, copy, effects, worked, reads>>

----------------------------------------------------------------------------
(* Starting and recovering.                                                *)

Active(c) == run[c].at \notin {"idle", "closing", "closed"}

\* LoadOrStore and CompareAndSwap: only over a run whose doneCh is closed.
Free == Durable \/ \A d \in Callers : d = attached => run[d].at = "closed"

Attach(c, r) ==
  /\ attached' = IF Durable THEN attached ELSE c
  /\ run' = [d \in Callers |-> IF d = c THEN r ELSE IF d = attached THEN Idle ELSE run[d]]

\* RunAsync
RunAsync(c) ==
  /\ ~Durable /\ stored.status = "none" /\ attached = Nobody
  /\ run[c].at = "idle"
  /\ Attach(c, [Idle EXCEPT !.at = "start", !.status = "running"])
  /\ UNCHANGED <<stored, owner, copy, effects, worked, faults, reads>>

\* A worker takes the run's lease, which its last owner had lost.
Claim(c) ==
  /\ Durable /\ run[c].at = "idle"
  /\ owner # c
  /\ owner' = c
  /\ UNCHANGED <<stored, attached, copy, run, effects, worked, faults, reads>>

\* GetPendingExecutions, or the durable driver's GetRun.
Read(c) ==
  /\ run[c].at \in {"idle", "closed"} /\ reads < MaxReads
  /\ stored.status \in {"running", "paused"}
  /\ Durable => owner = c
  /\ Serial => Free /\ \A d \in Callers : ~Active(d)
  /\ copy' = [copy EXCEPT ![c] = stored]
  /\ run' = [run EXCEPT ![c].at = "read"]
  /\ reads' = reads + 1
  /\ attached' = IF attached = c THEN Nobody ELSE attached
  /\ UNCHANGED <<stored, owner, effects, worked, faults>>

\* A step that was running when the process died is taken for not begun.
FaultyDoubtful(r) == {s \in StepNames \ ReplaySafe : r[s] = "failed"}

\* Steps of which only an external record can say how they ended.
Doubtful(r) == {s \in StepNames \ ReplaySafe : r[s] \notin {"none", "completed"}}

\* A doubtful step is taken for done, whatever its record says.
FaultyRecover(c) ==
  /\ run[c].at = "read" /\ Free
  /\ Attach(c, [Idle EXCEPT
       !.at = "start", !.status = copy[c].status, !.rev = copy[c].rev,
       !.res = [s \in StepNames |-> IF s \in Doubtful(copy[c].res) THEN "completed"
                                    ELSE copy[c].res[s]]])
  /\ UNCHANGED <<stored, owner, copy, effects, worked, faults, reads>>

\* RecoverExecution: every doubtful step reconciled, and startExecution.
Recover(c) ==
  /\ run[c].at = "read" /\ Free
  /\ Doubtful(copy[c].res) \subseteq worked
  /\ Attach(c, [Idle EXCEPT
       !.at = "start", !.status = copy[c].status, !.rev = copy[c].rev,
       !.res = [s \in StepNames |-> IF s \in Doubtful(copy[c].res) THEN "completed"
                                    ELSE copy[c].res[s]]])
  /\ UNCHANGED <<stored, owner, copy, effects, worked, faults, reads>>

\* RecoverExecution refuses: already attached, or the outcome is unknown.
Refuse(c) ==
  /\ run[c].at = "read"
  /\ ~Free \/ Doubtful(copy[c].res) # {}
  /\ run' = [run EXCEPT ![c] = Idle]
  /\ UNCHANGED <<stored, attached, owner, copy, effects, worked, faults, reads>>

\* startExecution: the first save; a recovered paused run gets a pause token.
SaveStart(c) ==
  /\ run[c].at = "start"
  /\ Persist(c, [run[c] EXCEPT !.pause = @ \/ run[c].status = "paused"], "announce", "detach")
  /\ UNCHANGED <<attached, owner, copy, effects, worked, reads>>

\* startExecution after the failed save: executions.Delete.
Detach(c) ==
  /\ run[c].at = "detach"
  /\ attached' = IF attached = c THEN Nobody ELSE attached
  /\ run' = [run EXCEPT ![c] = Idle]
  /\ UNCHANGED <<stored, owner, copy, effects, worked, faults, reads>>

----------------------------------------------------------------------------
(* executeWorkflow.                                                        *)

Announce(c) == run[c].at = "announce" /\ CallBack(c, "boundary")

\* A done context still cancels a run that has saved its end.
LateCancelled(c) ==
  /\ run[c].at \in {"boundary", "paused", "closing"} /\ run[c].cancelled
  /\ run[c].at = "boundary" => run[c].i <= Len(Steps)
  /\ SetStatus(c, run[c], "cancelled", "closing")

\* A paused run listens to Resume only.
FaultyCancelled(c) ==
  /\ run[c].at = "boundary" /\ run[c].cancelled
  /\ run[c].i <= Len(Steps)
  /\ SetStatus(c, run[c], "cancelled", "closing")

\* The select before a step: among a done context and a pause token either may
\* be taken, and with neither the step is next.
Cancelled(c) ==
  /\ run[c].at \in {"boundary", "paused"} /\ run[c].cancelled
  /\ run[c].at = "boundary" => run[c].i <= Len(Steps)
  /\ SetStatus(c, run[c], "cancelled", "closing")

TakePause(c) ==
  /\ run[c].at = "boundary" /\ run[c].i <= Len(Steps) /\ run[c].pause
  /\ run' = [run EXCEPT ![c].at = "pausing", ![c].pause = FALSE]
  /\ UNCHANGED <<stored, attached, owner, copy, effects, worked, faults, reads>>

Pausing(c) == run[c].at = "pausing" /\ SetStatus(c, run[c], "paused", "told")

Told(c) == run[c].at = "told" /\ CallBack(c, "paused")

TakeResume(c) ==
  /\ run[c].at = "paused" /\ run[c].resume
  /\ run' = [run EXCEPT ![c].at = "resuming", ![c].resume = FALSE]
  /\ UNCHANGED <<stored, attached, owner, copy, effects, worked, faults, reads>>

Resuming(c) == run[c].at = "resuming" /\ SetStatus(c, run[c], "running", "retold")

Retold(c) == run[c].at = "retold" /\ CallBack(c, "next")

Proceed(c) ==
  /\ run[c].at = "boundary" /\ run[c].i <= Len(Steps)
  /\ ~run[c].cancelled /\ ~run[c].pause
  /\ run' = [run EXCEPT ![c].at = "next"]
  /\ UNCHANGED <<stored, attached, owner, copy, effects, worked, faults, reads>>

Next1(c) == Steps[run[c].i]

Skip(c) ==
  /\ run[c].at = "next" /\ run[c].res[Next1(c)] = "completed"
  /\ run' = [run EXCEPT ![c].at = "boundary", ![c].i = @ + 1]
  /\ UNCHANGED <<stored, attached, owner, copy, effects, worked, faults, reads>>

\* Dependencies, one that is no step being never completed, then the step as
\* running, saved before it runs.
Dispatch(c) ==
  /\ run[c].at = "next" /\ run[c].res[Next1(c)] # "completed"
  /\ IF \A d \in Needs[Next1(c)] : d \in StepNames /\ run[c].res[d] = "completed"
     THEN /\ Persist(c, [run[c] EXCEPT !.res[Next1(c)] = "running"], "started", "closing")
          /\ UNCHANGED <<attached, owner, copy, effects, worked, reads>>
     ELSE SetStatus(c, run[c], "failed", "closing")

Started(c) == run[c].at = "started" /\ CallBack(c, "executing")

\* step.Execute: an answer, an error before or after the effect, or a success
\* that a done context turns into an error.
Execute(c) ==
  /\ run[c].at = "executing"
  /\ \E effect \in BOOLEAN, ok \in BOOLEAN :
       /\ ok => effect /\ ~run[c].cancelled
       /\ run' = [run EXCEPT ![c].at = "returned", ![c].ok = ok]
       /\ effects' = [effects EXCEPT ![Next1(c)] = IF effect /\ @ < 2 THEN @ + 1 ELSE @]
       /\ worked' = IF effect THEN worked \cup {Next1(c)} ELSE worked
  /\ UNCHANGED <<stored, attached, owner, copy, faults, reads>>

Completed(c) ==
  /\ run[c].at = "returned" /\ run[c].ok
  /\ Persist(c, [run[c] EXCEPT !.res[Next1(c)] = "completed"], "finished", "closing")
  /\ UNCHANGED <<attached, owner, copy, effects, worked, reads>>

\* The step's error: its result, the callbacks, then the status.
StepFailed(c) ==
  /\ run[c].at = "returned" /\ ~run[c].ok
  /\ SetStatus(c, [run[c] EXCEPT !.res[Next1(c)] = "failed"],
               IF run[c].cancelled THEN "cancelled" ELSE "failed", "closing")

Finished(c) ==
  /\ run[c].at = "finished"
  /\ \/ /\ run' = [run EXCEPT ![c].at = "boundary", ![c].i = @ + 1]
        /\ UNCHANGED faults
     \/ /\ faults < MaxFaults /\ faults' = faults + 1
        /\ run' = [run EXCEPT ![c].at = "failing"]
  /\ UNCHANGED <<stored, attached, owner, copy, effects, worked, reads>>

Failing(c) == run[c].at = "failing" /\ FailExecution(c)

\* After the last step: cancelled, or OnComplete and completed.
End(c) ==
  /\ run[c].at = "boundary" /\ run[c].i > Len(Steps)
  /\ IF run[c].cancelled
     THEN SetStatus(c, run[c], "cancelled", "closing")
     ELSE CallBack(c, "ending")

Ending(c) == run[c].at = "ending" /\ SetStatus(c, run[c], "completed", "closing")

\* close(doneCh)
Close(c) ==
  /\ run[c].at = "closing"
  /\ run' = [run EXCEPT ![c].at = "closed"]
  /\ UNCHANGED <<stored, attached, owner, copy, effects, worked, faults, reads>>

----------------------------------------------------------------------------
(* Requests on the attached run, and faults.                               *)

Pause(c) ==
  /\ attached = c /\ run[c].at # "closed"
  /\ run[c].status = "running" /\ ~run[c].pause
  /\ run' = [run EXCEPT ![c].pause = TRUE]
  /\ UNCHANGED <<stored, attached, owner, copy, effects, worked, faults, reads>>

Resume(c) ==
  /\ attached = c /\ run[c].at # "closed"
  /\ run[c].status = "paused" /\ ~run[c].resume
  /\ run' = [run EXCEPT ![c].resume = TRUE]
  /\ UNCHANGED <<stored, attached, owner, copy, effects, worked, faults, reads>>

\* Cancel; with Durable, the worker's context ends.
Cancel(c) ==
  /\ Durable \/ attached = c
  /\ Active(c) /\ run[c].at # "read" /\ ~run[c].cancelled
  /\ run' = [run EXCEPT ![c].cancelled = TRUE]
  /\ UNCHANGED <<stored, attached, owner, copy, effects, worked, faults, reads>>

\* CleanupCompleted, as soon as the status is terminal.
CleanupCompleted(c) ==
  /\ attached = c /\ run[c].status \in Terminal
  /\ attached' = Nobody
  /\ UNCHANGED <<stored, owner, copy, run, effects, worked, faults, reads>>

\* The process of c ends, with every caller in it.
Crash(c) ==
  /\ run[c].at # "idle" /\ faults < MaxFaults
  /\ run' = IF Durable THEN [run EXCEPT ![c] = Idle] ELSE [d \in Callers |-> Idle]
  /\ attached' = Nobody
  /\ faults' = faults + 1
  /\ UNCHANGED <<stored, owner, copy, effects, worked, reads>>

----------------------------------------------------------------------------
Loop(c) ==
  \/ SaveStart(c) \/ Detach(c) \/ Announce(c) \/ Cancelled(c) \/ TakePause(c)
  \/ Pausing(c) \/ Told(c) \/ TakeResume(c) \/ Resuming(c) \/ Retold(c) \/ Proceed(c)
  \/ Skip(c) \/ Dispatch(c) \/ Started(c) \/ Execute(c) \/ Completed(c) \/ StepFailed(c)
  \/ Finished(c) \/ Failing(c) \/ End(c) \/ Ending(c) \/ Close(c)

Next == \E c \in Callers :
  \/ Loop(c) \/ RunAsync(c) \/ Claim(c) \/ Read(c) \/ Recover(c) \/ Refuse(c)
  \/ Pause(c) \/ Resume(c) \/ Cancel(c) \/ CleanupCompleted(c) \/ Crash(c)

Spec == Init /\ [][Next]_workflow_vars

\* The goroutine of executeWorkflow keeps going: its steps and callbacks
\* return, and a store answers.
Fairness == \A c \in Callers : WF_workflow_vars(Loop(c))

FairSpec == Spec /\ Fairness

----------------------------------------------------------------------------
(* Properties.                                                             *)

Places == {"idle", "read", "start", "detach", "announce", "boundary", "pausing", "told", "paused",
           "resuming", "retold", "next", "started", "executing", "returned", "finished",
           "failing", "ending", "closing", "closed"}
Statuses == Terminal \cup {"none", "running", "paused"}
Results  == [StepNames -> {"none", "running", "completed", "failed"}]
Stored   == [status : Statuses, res : Results, rev : Nat]
Runs     == [at : Places, i : 1..(Len(Steps) + 1), status : Statuses, res : Results, rev : Nat,
             pause : BOOLEAN, resume : BOOLEAN, cancelled : BOOLEAN, lost : BOOLEAN,
             ok : BOOLEAN]

\* Every variable holds a value of its kind.
TypeOK ==
  /\ stored \in Stored
  /\ attached \in Callers \cup {Nobody} /\ owner \in Callers \cup {Nobody}
  /\ copy \in [Callers -> Stored]
  /\ run \in [Callers -> Runs]
  /\ effects \in [StepNames -> 0..2] /\ worked \subseteq StepNames
  /\ faults \in 0..MaxFaults /\ reads \in 0..MaxReads

\* A step that was not declared safe to replay takes effect at most once,
\* whatever fails and whoever recovers the execution: it is saved as running
\* before it runs, and recovery does not execute it again.
StepsRunOnce == \A s \in StepNames \ ReplaySafe : effects[s] <= 1

\* An execution stored as completed has done every step, in the order of the
\* dependencies, and every effect it relies on did succeed.
CompletedIsEarned ==
  /\ stored.status = "completed" => \A s \in StepNames : stored.res[s] = "completed"
  /\ \A s \in StepNames : stored.res[s] = "completed" => s \in worked
  /\ \A s \in StepNames : stored.res[s] # "none" =>
       \A d \in Needs[s] : d \in StepNames /\ stored.res[d] = "completed"

\* When a run has closed doneCh and reports no lost save, the status its
\* waiters are given is terminal and is the one stored.
WaitersAreToldTheTruth ==
  \A c \in Callers : run[c].at = "closed" /\ ~run[c].lost =>
    run[c].status \in Terminal /\ stored.status = run[c].status /\ stored.res = run[c].res

\* What is stored as ended stays as it ended.
EndIsFinal == [][stored.status \in Terminal => UNCHANGED stored]_workflow_vars

\* A run that was started ends or waits in a pause, and neither a cancellation
\* nor a resumption leaves it waiting there.
RunsSettle ==
  \A c \in Callers :
    /\ run[c].at = "start" ~> run[c].at \in {"idle", "closed", "paused"}
    /\ run[c].at = "paused" /\ (run[c].resume \/ run[c].cancelled) ~> run[c].at # "paused"
=============================================================================
