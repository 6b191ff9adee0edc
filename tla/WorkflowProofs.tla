--------------------------- MODULE WorkflowProofs ---------------------------
(***************************************************************************)
(* Theorems about WorkflowExecutor for any steps, dependencies, callers    *)
(* and faults: an unsafe step takes effect once, what is stored as         *)
(* completed was done, and what is stored as ended stays and is what the   *)
(* waiters are told.  They are about the durable driver, however its       *)
(* workers take the lease from each other, and about the plain executor    *)
(* whose host recovers only what nobody runs (Kept): without that they do  *)
(* not hold.                                                               *)
(*                                                                         *)
(* The argument is one inductive invariant, WorkflowInv: a run the store   *)
(* would still let save is the stored execution and what its goroutine has *)
(* done since, and whoever executes a step has left its mark in the store. *)
(***************************************************************************)
EXTENDS WorkflowExecutor, TLAPS

-----------------------------------------------------------------------------
(***************************************************************************)
(* The inductive invariant.                                                *)
(***************************************************************************)

\* What the theorems assume of the host.
Kept == WorkflowConstants /\ (Durable \/ Serial)

Unsafe == StepNames \ ReplaySafe

Doing    == {"started", "executing", "returned"}
Deciding == {"announce", "boundary", "pausing", "told", "paused", "resuming", "retold", "next",
             "ending"}
Working  == Deciding \cup Doing \cup {"finished", "failing"}
Facing   == Doing \cup {"pausing", "told", "paused", "resuming", "retold", "next", "finished"}
Going    == {"running", "paused"}

\* The store would accept the run's next save, as far as the revision goes.
Fresh(c) == Durable => run[c].rev = stored.rev

\* What RecoverExecution makes of stored results.
Reconciled(r) == [s \in StepNames |-> IF s \in Doubtful(r) THEN "completed" ELSE r[s]]

\* Revisions only grow, and mean nothing to a plain store.
Lag(c) ==
  /\ run[c].rev <= stored.rev /\ copy[c].rev <= stored.rev
  /\ ~Durable => stored.rev = 0

\* In one process whoever is active is the attached run or about to recover, alone.
Alone(c) ==
  /\ Durable => attached = Nobody
  /\ ~Durable /\ Active(c) =>
       /\ \A d \in Callers : Active(d) => d = c
       /\ run[c].at = "read" <=> attached # c

\* Before RunAsync's first save nothing is stored, and nobody got any further.
Begun(c) ==
  /\ stored.status = "none" => ~Durable /\ stored.res = NoResults
  /\ run[c].at \notin {"idle", "start", "detach"} => stored.status # "none"

\* A copy that is not out of date is what is stored.
Copied(c) ==
  run[c].at = "read" =>
    /\ copy[c].status \in Going
    /\ (Durable => copy[c].rev = stored.rev) => copy[c] = stored

\* A run about to start is the reconciled image of what is stored, or the first.
Starts(c) ==
  /\ run[c].at \in {"start", "detach"} => run[c].status \in Going
  /\ run[c].at = "start" =>
       /\ run[c].i = 1
       /\ Fresh(c) => /\ stored.status \in {"none", run[c].status}
                      /\ Doubtful(stored.res) \subseteq worked
                      /\ run[c].res = Reconciled(stored.res)

\* A run at work has the stored status and results.
Follows(c) ==
  run[c].at \in Working =>
    /\ run[c].status \in Going
    /\ Fresh(c) => stored.status = run[c].status /\ stored.res = run[c].res

\* A run that is over and lost no save has an end, the stored one.
Reported(c) ==
  run[c].at \in {"closing", "closed"} /\ ~run[c].lost =>
    run[c].status \in Terminal /\ stored.status = run[c].status /\ stored.res = run[c].res

\* Whoever executes a step said so before.
Marked(c) ==
  /\ run[c].at \in Facing => run[c].i \in 1..Len(Steps)
  /\ run[c].at \in Doing =>
       run[c].res[Next1(c)] = "running" /\ stored.res[Next1(c)] # "none"
  /\ run[c].at = "returned" /\ run[c].ok => Next1(c) \in worked

\* Only the step at hand is in doubt.
Settled(c) ==
  \A s \in Unsafe :
    run[c].at \in Deciding \cup Doing \cup {"start", "finished"} =>
      \/ run[c].res[s] \in {"none", "completed"}
      \/ run[c].at \in Doing /\ s = Next1(c)

\* The steps before the one at hand are completed.
Passed(c) ==
  /\ run[c].at \in Working \ {"failing"} =>
       \A j \in 1..(run[c].i - 1) : run[c].res[Steps[j]] = "completed"
  /\ run[c].at = "finished" => run[c].res[Next1(c)] = "completed"
  /\ run[c].at = "ending" => run[c].i > Len(Steps)

\* Nobody else executes the unsafe step c is about to execute, nor has anybody.
Sole(c) ==
  run[c].at \in {"started", "executing"} /\ Next1(c) \in Unsafe =>
    /\ effects[Next1(c)] = 0
    /\ \A d \in Callers \ {c} : run[d].at \in {"started", "executing"} => Next1(d) # Next1(c)

\* A step the store knows nothing of had no effect.
Unmarked == \A s \in Unsafe : stored.res[s] = "none" => effects[s] = 0

\* What a caller's place and state say of the store.
Matches(c) == Lag(c) /\ Begun(c) /\ Copied(c) /\ Starts(c) /\ Follows(c) /\ Reported(c)

\* What they say of the steps.
Earns(c) == Marked(c) /\ Settled(c) /\ Passed(c) /\ Sole(c)

CallerInv(c) == Alone(c) /\ Matches(c) /\ Earns(c)

\* The steps' facts.
StepsInv == Unmarked /\ StepsRunOnce /\ CompletedIsEarned

WorkflowInv == TypeOK /\ StepsInv /\ \A c \in Callers : CallerInv(c)

-----------------------------------------------------------------------------
(***************************************************************************)
(* Types.                                                                  *)
(***************************************************************************)

\* What the constants give: the steps have names, and the first states are of their kinds.
LEMMA StepsTyped ==
  ASSUME WorkflowConstants
  PROVE  /\ Len(Steps) \in Nat
         /\ \A i \in 1..Len(Steps) : Steps[i] \in StepNames
         /\ NoResults \in Results /\ NotStored \in Stored
         /\ Idle \in Runs
<1>1. Len(Steps) \in Nat
  BY DEF WorkflowConstants
<1>2. NoResults \in Results
  BY DEF NoResults, Results
<1>3. NotStored \in Stored
  BY <1>2 DEF NotStored, Stored, Statuses
<1>4. Idle \in Runs
  BY <1>1, <1>2 DEF Idle, Runs, Places, Statuses
<1> QED
  BY <1>1, <1>2, <1>3, <1>4 DEF StepNames

\* The step at hand is a step.
LEMMA NextTyped ==
  ASSUME WorkflowConstants, NEW c, run[c].i \in 1..Len(Steps)
  PROVE  Next1(c) \in StepNames
  BY DEF Next1, StepNames

LEMMA ReconciledTyped ==
  ASSUME NEW r \in Results
  PROVE  Reconciled(r) \in Results
  BY DEF Reconciled, Results

\* A save keeps the types of what it changes.
LEMMA PersistTypes ==
  ASSUME WorkflowConstants, TypeOK, NEW c \in Callers, NEW r \in Runs, NEW next \in Places,
         NEW failed \in Places, Persist(c, r, next, failed)
  PROVE  stored' \in Stored /\ run' \in [Callers -> Runs] /\ faults' \in 0..MaxFaults
<1>1. Image(r) \in Stored
  BY DEF TypeOK, Image, Stored, Runs
<1>2. [r EXCEPT !.at = next, !.rev = Image(r).rev] \in Runs
  BY <1>1 DEF Runs, Stored
<1>3. [r EXCEPT !.at = failed, !.lost = TRUE] \in Runs
  BY DEF Runs
<1> QED
  BY <1>1, <1>2, <1>3 DEF TypeOK, Persist, WorkflowConstants

LEMMA SetStatusTypes ==
  ASSUME WorkflowConstants, TypeOK, NEW c \in Callers, NEW r \in Runs, NEW status \in Statuses,
         NEW next \in Places, SetStatus(c, r, status, next)
  PROVE  TypeOK'
<1>1. [r EXCEPT !.status = status] \in Runs
  BY DEF Runs
<1>2. "closing" \in Places
  BY DEF Places
<1> QED
  BY <1>1, <1>2, PersistTypes DEF SetStatus, TypeOK

LEMMA CallBackTypes ==
  ASSUME WorkflowConstants, TypeOK, NEW c \in Callers, NEW next \in Places, CallBack(c, next)
  PROVE  TypeOK'
<1>1. "failing" \in Places
  BY DEF Places
<1>2. \A p \in Places : [run EXCEPT ![c].at = p] \in [Callers -> Runs]
  BY DEF TypeOK, Runs
<1>3. faults' \in 0..MaxFaults
  BY DEF CallBack, TypeOK, WorkflowConstants
<1> QED
  BY <1>1, <1>2, <1>3 DEF CallBack, TypeOK

LEMMA AttachTypes ==
  ASSUME WorkflowConstants, TypeOK, NEW c \in Callers, NEW r \in Runs, Attach(c, r)
  PROVE  attached' \in Callers \cup {Nobody} /\ run' \in [Callers -> Runs]
  BY StepsTyped DEF Attach, TypeOK

LEMMA LoopTypes ==
  ASSUME WorkflowConstants, TypeOK, NEW c \in Callers, Marked(c), Loop(c)
  PROVE  TypeOK'
<1> USE DEF Places, Statuses, Terminal
<1>r. run[c] \in Runs
  BY DEF TypeOK
<1>1. CASE SaveStart(c)
  <2>1. [run[c] EXCEPT !.pause = @ \/ run[c].status = "paused"] \in Runs
    BY <1>r DEF Runs
  <2> QED
    BY <1>1, <2>1, PersistTypes DEF SaveStart, TypeOK
<1>2. CASE Detach(c)
  BY <1>2, StepsTyped DEF Detach, TypeOK
<1>3. CASE Announce(c)
  BY <1>3, CallBackTypes DEF Announce
<1>4. CASE Cancelled(c)
  BY <1>4, <1>r, SetStatusTypes DEF Cancelled
<1>5. CASE TakePause(c)
  <2>1. [run[c] EXCEPT !.at = "pausing", !.pause = FALSE] \in Runs
    BY <1>r DEF Runs
  <2> QED
    BY <1>5, <2>1 DEF TakePause, TypeOK
<1>6. CASE Pausing(c)
  BY <1>6, <1>r, SetStatusTypes DEF Pausing
<1>7. CASE Told(c)
  BY <1>7, CallBackTypes DEF Told
<1>8. CASE TakeResume(c)
  <2>1. [run[c] EXCEPT !.at = "resuming", !.resume = FALSE] \in Runs
    BY <1>r DEF Runs
  <2> QED
    BY <1>8, <2>1 DEF TakeResume, TypeOK
<1>9. CASE Resuming(c)
  BY <1>9, <1>r, SetStatusTypes DEF Resuming
<1>10. CASE Retold(c)
  BY <1>10, CallBackTypes DEF Retold
<1>11. CASE Proceed(c)
  <2>1. [run[c] EXCEPT !.at = "next"] \in Runs
    BY <1>r DEF Runs
  <2> QED
    BY <1>11, <2>1 DEF Proceed, TypeOK
<1>12. CASE Skip(c)
  <2>1. run[c].i + 1 \in 1..(Len(Steps) + 1)
    BY <1>12, StepsTyped DEF Skip, Marked, Facing
  <2>2. [run[c] EXCEPT !.at = "boundary", !.i = @ + 1] \in Runs
    BY <1>r, <2>1 DEF Runs
  <2> QED
    BY <1>12, <2>2 DEF Skip, TypeOK
<1>13. CASE Dispatch(c)
  <2>1. [run[c] EXCEPT !.res[Next1(c)] = "running"] \in Runs
    BY <1>r DEF Runs, Results
  <2> QED
    BY <1>13, <1>r, <2>1, PersistTypes, SetStatusTypes DEF Dispatch, TypeOK
<1>14. CASE Started(c)
  BY <1>14, CallBackTypes DEF Started
<1>15. CASE Execute(c)
  <2>1. PICK effect \in BOOLEAN, ok \in BOOLEAN :
          /\ run' = [run EXCEPT ![c].at = "returned", ![c].ok = ok]
          /\ effects' = [effects EXCEPT ![Next1(c)] = IF effect /\ @ < 2 THEN @ + 1 ELSE @]
          /\ worked' = IF effect THEN worked \cup {Next1(c)} ELSE worked
    BY <1>15 DEF Execute
  <2>2. Next1(c) \in StepNames
    BY <1>15, NextTyped DEF Execute, Marked, Doing, Facing
  <2>3. run' \in [Callers -> Runs]
    BY <2>1, <1>r DEF TypeOK, Runs
  <2>4. effects' \in [StepNames -> 0..2]
    BY <2>1, <2>2 DEF TypeOK
  <2>5. worked' \subseteq StepNames
    BY <2>1, <2>2 DEF TypeOK
  <2> QED
    BY <1>15, <2>3, <2>4, <2>5 DEF Execute, TypeOK
<1>16. CASE Completed(c)
  <2>1. [run[c] EXCEPT !.res[Next1(c)] = "completed"] \in Runs
    BY <1>r DEF Runs, Results
  <2> QED
    BY <1>16, <2>1, PersistTypes DEF Completed, TypeOK
<1>17. CASE StepFailed(c)
  <2>1. [run[c] EXCEPT !.res[Next1(c)] = "failed"] \in Runs
    BY <1>r DEF Runs, Results
  <2> QED
    BY <1>17, <2>1, SetStatusTypes DEF StepFailed
<1>18. CASE Finished(c)
  <2>1. run[c].i \in 1..Len(Steps)
    BY <1>18 DEF Finished, Marked, Facing
  <2>2. [run[c] EXCEPT !.at = "boundary", !.i = @ + 1] \in Runs
    <3>1. run[c].i + 1 \in 1..(Len(Steps) + 1)
      BY <2>1, StepsTyped
    <3>2. "boundary" \in Places
      OBVIOUS
    <3> HIDE DEF Places, Statuses
    <3> QED
      BY <3>1, <3>2, <1>r DEF Runs
  <2>3. [run[c] EXCEPT !.at = "failing"] \in Runs
    BY <1>r DEF Runs
  <2>4. faults' \in 0..MaxFaults
    BY <1>18 DEF Finished, TypeOK, WorkflowConstants
  <2>5. run' \in [Callers -> Runs]
    <3>1. \/ run' = [run EXCEPT ![c] = [run[c] EXCEPT !.at = "boundary", !.i = @ + 1]]
          \/ run' = [run EXCEPT ![c] = [run[c] EXCEPT !.at = "failing"]]
      BY <1>18 DEF Finished, TypeOK
    <3> QED
      BY <2>2, <2>3, <3>1 DEF TypeOK
  <2> QED
    BY <1>18, <2>4, <2>5 DEF Finished, TypeOK
<1>19. CASE Failing(c)
  <2>1. [run[c] EXCEPT !.res = [s \in StepNames |-> IF run[c].res[s] = "running" THEN "failed"
                                                    ELSE run[c].res[s]]] \in Runs
    BY <1>r DEF Runs, Results
  <2> QED
    BY <1>19, <2>1, SetStatusTypes DEF Failing, FailExecution
<1>20. CASE End(c)
  BY <1>20, <1>r, SetStatusTypes, CallBackTypes DEF End
<1>21. CASE Ending(c)
  BY <1>21, <1>r, SetStatusTypes DEF Ending
<1>22. CASE Close(c)
  <2>1. [run[c] EXCEPT !.at = "closed"] \in Runs
    BY <1>r DEF Runs
  <2> QED
    BY <1>22, <2>1 DEF Close, TypeOK
<1> QED
  BY <1>1, <1>2, <1>3, <1>4, <1>5, <1>6, <1>7, <1>8, <1>9, <1>10, <1>11, <1>12, <1>13, <1>14,
     <1>15, <1>16, <1>17, <1>18, <1>19, <1>20, <1>21, <1>22 DEF Loop

\* A step keeps the types of a state in which the step at hand is one.
LEMMA NextTypes ==
  ASSUME WorkflowConstants, TypeOK, \A c \in Callers : Marked(c), [Next]_workflow_vars
  PROVE  TypeOK'
<1>1. CASE UNCHANGED workflow_vars
  BY <1>1 DEF workflow_vars, TypeOK
<1>2. CASE Next
  <2> PICK c \in Callers :
        \/ Loop(c) \/ RunAsync(c) \/ Claim(c) \/ Read(c) \/ Recover(c) \/ Refuse(c)
        \/ Pause(c) \/ Resume(c) \/ Cancel(c) \/ CleanupCompleted(c) \/ Crash(c)
    BY <1>2 DEF Next
  <2>r. run[c] \in Runs
    BY DEF TypeOK
  <2>i. Idle \in Runs
    BY StepsTyped
  <2>1. CASE Loop(c)
    BY <2>1, LoopTypes
  <2>2. CASE RunAsync(c)
    <3>1. [Idle EXCEPT !.at = "start", !.status = "running"] \in Runs
      BY <2>i DEF Runs, Places, Statuses
    <3> QED
      BY <2>2, <3>1, AttachTypes DEF RunAsync, TypeOK
  <2>3. CASE Claim(c)
    BY <2>3 DEF Claim, TypeOK
  <2>4. CASE Read(c)
    <3>1. run' \in [Callers -> Runs]
      BY <2>4, <2>r DEF Read, TypeOK, Runs, Places
    <3>2. reads' \in 0..MaxReads
      BY <2>4 DEF Read, TypeOK, WorkflowConstants
    <3> QED
      BY <2>4, <3>1, <3>2 DEF Read, TypeOK
  <2>5. CASE Recover(c)
    <3> DEFINE r == [Idle EXCEPT !.at = "start", !.status = copy[c].status, !.rev = copy[c].rev,
                                 !.res = Reconciled(copy[c].res)]
    <3>1. copy[c] \in Stored
      BY DEF TypeOK
    <3>2. Reconciled(copy[c].res) \in Results
      BY <3>1, ReconciledTyped DEF Stored
    <3>3. r \in Runs
      BY <2>i, <3>1, <3>2 DEF Runs, Stored, Places
    <3>4. Attach(c, r)
      BY <2>5 DEF Recover, Reconciled
    <3> QED
      BY <2>5, <3>3, <3>4, AttachTypes DEF Recover, TypeOK
  <2>6. CASE Refuse(c)
    BY <2>6, <2>i DEF Refuse, TypeOK
  <2>7. CASE Pause(c)
    BY <2>7, <2>r DEF Pause, TypeOK, Runs
  <2>8. CASE Resume(c)
    BY <2>8, <2>r DEF Resume, TypeOK, Runs
  <2>9. CASE Cancel(c)
    BY <2>9, <2>r DEF Cancel, TypeOK, Runs
  <2>10. CASE CleanupCompleted(c)
    BY <2>10 DEF CleanupCompleted, TypeOK
  <2>11. CASE Crash(c)
    <3>1. faults' \in 0..MaxFaults
      BY <2>11 DEF Crash, TypeOK, WorkflowConstants
    <3> QED
      BY <2>11, <3>1, <2>i DEF Crash, TypeOK
  <2> QED
    BY <2>1, <2>2, <2>3, <2>4, <2>5, <2>6, <2>7, <2>8, <2>9, <2>10, <2>11
<1> QED
  BY <1>1, <1>2

-----------------------------------------------------------------------------
(***************************************************************************)
(* Moves: what a caller does without saving.                               *)
(***************************************************************************)

\* Nothing is stored, and besides c a caller may only be detached or crash.
Moves(c) ==
  /\ UNCHANGED stored
  /\ worked \subseteq worked'
  /\ \A s \in StepNames : effects'[s] # effects[s] => run[c].at = "executing" /\ s = Next1(c)
  /\ \A d \in Callers \ {c} : /\ run'[d] \in {run[d], Idle}
                              /\ copy'[d] = copy[d]
  /\ run'[c].at \in {"started", "executing"} =>
       run[c].at \in {"started", "executing"} /\ run'[c].i = run[c].i

\* A caller that is idle is accounted for.
LEMMA IdleMatches ==
  ASSUME WorkflowConstants, TypeOK, TypeOK', NEW c \in Callers, Matches(c), UNCHANGED stored,
         copy'[c] = copy[c], run'[c] = Idle
  PROVE  Matches(c)' /\ Earns(c)'
<1> USE DEF Idle, Doing, Deciding, Working, Facing
<1>1. Lag(c)'
  BY DEF Matches, Lag, TypeOK, Stored
<1>2. Matches(c)'
  BY <1>1 DEF Matches, Begun, Copied, Starts, Follows, Reported
<1>3. Earns(c)'
  BY DEF Earns, Marked, Settled, Passed, Sole
<1> QED
  BY <1>2, <1>3

\* A caller that does nothing is accounted for after the move of another.
LEMMA MoveLeavesOthers ==
  ASSUME WorkflowConstants, TypeOK, TypeOK', NEW c \in Callers, Moves(c),
         NEW d \in Callers \ {c}, Matches(d), Earns(d)
  PROVE  Matches(d)' /\ Earns(d)'
<1>1. CASE run'[d] = Idle
  BY <1>1, IdleMatches DEF Moves
<1>2. CASE run'[d] = run[d]
  <2>1. stored' = stored /\ copy'[d] = copy[d] /\ worked \subseteq worked'
    BY DEF Moves
  <2>2. Lag(d)' /\ Begun(d)' /\ Copied(d)' /\ Reported(d)'
    BY <1>2, <2>1 DEF Matches, Lag, Begun, Copied, Reported
  <2>3. Starts(d)' /\ Follows(d)'
    BY <1>2, <2>1 DEF Matches, Starts, Follows, Fresh, Reconciled
  <2>4. Marked(d)' /\ Settled(d)' /\ Passed(d)'
    BY <1>2, <2>1 DEF Earns, Marked, Settled, Passed, Next1
  <2>5. Sole(d)'
    <3> SUFFICES ASSUME run'[d].at \in {"started", "executing"}, Next1(d)' \in Unsafe
                 PROVE  /\ effects'[Next1(d)'] = 0
                        /\ \A e \in Callers \ {d} :
                             run'[e].at \in {"started", "executing"} => Next1(e)' # Next1(d)'
      BY DEF Sole
    <3>1. Next1(d)' = Next1(d)
      BY <1>2 DEF Next1
    <3>2. /\ effects[Next1(d)] = 0
          /\ \A e \in Callers \ {d} :
               run[e].at \in {"started", "executing"} => Next1(e) # Next1(d)
      BY <1>2, <3>1 DEF Earns, Sole
    <3>3. effects'[Next1(d)] = 0
      BY <1>2, <3>1, <3>2 DEF Moves, Unsafe
    <3>4. ASSUME NEW e \in Callers \ {d}, run'[e].at \in {"started", "executing"}
          PROVE  Next1(e)' # Next1(d)'
      <4>1. run[e].at \in {"started", "executing"} /\ run'[e].i = run[e].i
        BY <3>4 DEF Moves, Idle
      <4> QED
        BY <3>1, <3>2, <4>1 DEF Next1
    <3> QED
      BY <3>1, <3>3, <3>4
  <2> QED
    BY <2>2, <2>3, <2>4, <2>5 DEF Matches, Earns
<1> QED
  BY <1>1, <1>2 DEF Moves

\* A run at work that goes on without saving still matches the store.
LEMMA WorkMatches ==
  ASSUME TypeOK, TypeOK', NEW c \in Callers, Matches(c), UNCHANGED <<stored, copy>>,
         run[c].at \in Working, run'[c].at \in Working,
         run'[c].status = run[c].status, run'[c].res = run[c].res, run'[c].rev = run[c].rev
  PROVE  Matches(c)'
<1> USE DEF Doing, Deciding, Working
<1>1. Lag(c)'
  BY DEF Matches, Lag
<1>2. Begun(c)' /\ Copied(c)' /\ Starts(c)' /\ Reported(c)'
  BY DEF Matches, Begun, Copied, Starts, Reported
<1>3. Follows(c)'
  BY DEF Matches, Follows, Fresh
<1> QED
  BY <1>1, <1>2, <1>3 DEF Matches

\* The steps' facts depend on a move only if it executes.
LEMMA StepsStay ==
  ASSUME StepsInv, UNCHANGED <<stored, effects>>, worked \subseteq worked'
  PROVE  StepsInv'
  BY DEF StepsInv, Unmarked, StepsRunOnce, CompletedIsEarned

\* Who is active does not change when c keeps its place among the active, or leaves.
LEMMA SameAlone ==
  ASSUME \A d \in Callers : Alone(d), NEW c \in Callers, UNCHANGED attached,
         \A d \in Callers \ {c} : run'[d] = run[d],
         Active(c)' => Active(c) /\ (run'[c].at = "read" <=> run[c].at = "read")
  PROVE  \A d \in Callers : Alone(d)'
  BY DEF Alone, Active

\* A move of c keeps the invariant if c stays accounted for.
LEMMA MoveKeeps ==
  ASSUME WorkflowConstants, WorkflowInv, TypeOK', NEW c \in Callers, Moves(c), StepsInv',
         \A d \in Callers : Alone(d)', Matches(c)', Earns(c)'
  PROVE  WorkflowInv'
<1>1. ASSUME NEW d \in Callers PROVE CallerInv(d)'
  <2>1. Matches(d) /\ Earns(d)
    BY <1>1 DEF WorkflowInv, CallerInv
  <2> QED
    BY <1>1, <2>1, MoveLeavesOthers DEF WorkflowInv, CallerInv
<1> QED
  BY <1>1 DEF WorkflowInv

\* So does a run at work that goes on without executing.
LEMMA GoOn ==
  ASSUME WorkflowConstants, WorkflowInv, TypeOK', NEW c \in Callers,
         UNCHANGED <<stored, attached, copy, effects, worked>>,
         NEW r \in Runs, run' = [run EXCEPT ![c] = r],
         run[c].at \in Working, r.at \in Working,
         r.status = run[c].status, r.res = run[c].res, r.rev = run[c].rev,
         r.at \in {"started", "executing"} =>
           run[c].at \in {"started", "executing"} /\ r.i = run[c].i,
         Earns(c)'
  PROVE  WorkflowInv'
<1>1. run'[c] = r /\ \A d \in Callers \ {c} : run'[d] = run[d]
  BY DEF WorkflowInv, TypeOK
<1>2. Moves(c)
  BY <1>1 DEF Moves
<1>3. StepsInv'
  BY StepsStay DEF WorkflowInv
<1>4. \A d \in Callers : Alone(d)'
  BY <1>1, SameAlone DEF WorkflowInv, CallerInv, Active, Working, Deciding, Doing
<1>5. Matches(c)'
  <2>1. Matches(c)
    BY DEF WorkflowInv, CallerInv
  <2> QED
    BY <1>1, <2>1, WorkMatches DEF WorkflowInv
<1> QED
  BY <1>2, <1>3, <1>4, <1>5, MoveKeeps

\* A step whose callback fails fails the execution; otherwise the run goes to next.
LEMMA CallBackKeeps ==
  ASSUME WorkflowConstants, WorkflowInv, TypeOK', NEW c \in Callers, NEW next \in Working,
         CallBack(c, next), run[c].at \in Working,
         next = "executing" => run[c].at = "started",
         next # "executing" => run[c].at \in Deciding /\ next \in Deciding,
         next = "ending" => run[c].i > Len(Steps),
         next \in Facing => run[c].at \in Facing
  PROVE  WorkflowInv'
<1> USE DEF Doing, Deciding, Working, Facing
<1>1. \E p \in {next, "failing"} : run' = [run EXCEPT ![c] = [run[c] EXCEPT !.at = p]]
  BY DEF CallBack, WorkflowInv, TypeOK
<1> PICK p \in {next, "failing"} : run' = [run EXCEPT ![c] = [run[c] EXCEPT !.at = p]]
  BY <1>1
<1> DEFINE r == [run[c] EXCEPT !.at = p]
<1>2. run[c] \in Runs /\ Earns(c) /\ run'[c] = r /\ \A d \in Callers \ {c} : run'[d] = run[d]
  BY DEF WorkflowInv, CallerInv, TypeOK
<1>3. UNCHANGED <<stored, attached, copy, effects, worked>>
  BY DEF CallBack
<1>4. r \in Runs
  BY <1>2 DEF Runs, Places
<1>5. r.at = p /\ r.i = run[c].i /\ r.status = run[c].status /\ r.res = run[c].res
      /\ r.rev = run[c].rev /\ Next1(c)' = Next1(c)
  BY <1>2 DEF Runs, Next1
<1>6. Marked(c)' /\ Settled(c)' /\ Passed(c)'
  BY <1>2, <1>3, <1>5 DEF Earns, Marked, Settled, Passed
<1>7. Sole(c)'
  BY <1>2, <1>3, <1>5 DEF Earns, Sole, Next1
<1> QED
  BY <1>3, <1>4, <1>5, <1>6, <1>7, GoOn DEF Earns

\* The moves of the loop that neither call back nor execute.
LEMMA WalkKeeps ==
  ASSUME WorkflowConstants, WorkflowInv, TypeOK', NEW c \in Callers,
         TakePause(c) \/ TakeResume(c) \/ Proceed(c) \/ Skip(c) \/ Finished(c)
  PROVE  WorkflowInv'
<1> USE DEF Doing, Deciding, Working, Facing
<1>c. /\ run[c] \in Runs /\ Earns(c)
      /\ Len(Steps) \in Nat /\ \A i \in 1..Len(Steps) : Steps[i] \in StepNames
  BY StepsTyped DEF WorkflowInv, CallerInv, TypeOK
<1>e. \A r \in Runs : run' = [run EXCEPT ![c] = r] =>
        run'[c] = r /\ \A d \in Callers \ {c} : run'[d] = run[d]
  BY DEF WorkflowInv, TypeOK
<1>f. /\ run[c].pause \in BOOLEAN /\ run[c].resume \in BOOLEAN
      /\ [run[c] EXCEPT !.at = "pausing", !.pause = FALSE]
           = [run[c] EXCEPT !.at = "pausing", !.pause = FALSE, !.resume = run[c].resume]
      /\ [run[c] EXCEPT !.at = "resuming", !.resume = FALSE]
           = [run[c] EXCEPT !.at = "resuming", !.pause = run[c].pause, !.resume = FALSE]
      /\ [run[c] EXCEPT !.at = "next"]
           = [run[c] EXCEPT !.at = "next", !.pause = run[c].pause, !.resume = run[c].resume]
  <2>1. run[c] \in Runs
    BY <1>c
  <2> QED
    BY <2>1 DEF Runs
<1>1. CASE TakePause(c) \/ TakeResume(c) \/ Proceed(c)
  <2>1. \E p \in {"pausing", "resuming", "next"}, u \in BOOLEAN, v \in BOOLEAN :
          /\ run' = [run EXCEPT ![c] = [run[c] EXCEPT !.at = p, !.pause = u, !.resume = v]]
          /\ run[c].at \in {"boundary", "paused"}
          /\ run[c].at = "boundary" => run[c].i <= Len(Steps)
    <3>1. CASE TakePause(c)
      <4>1. run' = [run EXCEPT ![c] = [run[c] EXCEPT !.at = "pausing", !.pause = FALSE,
                                                     !.resume = run[c].resume]]
        BY <3>1, <1>f DEF TakePause, WorkflowInv, TypeOK
      <4> QED
        BY <3>1, <4>1, <1>f DEF TakePause
    <3>2. CASE TakeResume(c)
      <4>1. run' = [run EXCEPT ![c] = [run[c] EXCEPT !.at = "resuming", !.pause = run[c].pause,
                                                     !.resume = FALSE]]
        BY <3>2, <1>f DEF TakeResume, WorkflowInv, TypeOK
      <4> QED
        BY <3>2, <4>1, <1>f DEF TakeResume
    <3>3. CASE Proceed(c)
      <4>1. run' = [run EXCEPT ![c] = [run[c] EXCEPT !.at = "next", !.pause = run[c].pause,
                                                     !.resume = run[c].resume]]
        BY <3>3, <1>f DEF Proceed, WorkflowInv, TypeOK
      <4> QED
        BY <3>3, <4>1, <1>f DEF Proceed
    <3> QED
      BY <1>1, <3>1, <3>2, <3>3
  <2> PICK p \in {"pausing", "resuming", "next"}, u \in BOOLEAN, v \in BOOLEAN :
          /\ run' = [run EXCEPT ![c] = [run[c] EXCEPT !.at = p, !.pause = u, !.resume = v]]
          /\ run[c].at \in {"boundary", "paused"}
          /\ run[c].at = "boundary" => run[c].i <= Len(Steps)
    BY <2>1
  <2> DEFINE r == [run[c] EXCEPT !.at = p, !.pause = u, !.resume = v]
  <2>2. UNCHANGED <<stored, attached, copy, effects, worked>>
    BY <1>1 DEF TakePause, TakeResume, Proceed
  <2>3. r \in Runs
    BY <1>c DEF Runs, Places
  <2>4. r.at = p /\ r.i = run[c].i /\ r.status = run[c].status /\ r.res = run[c].res
        /\ r.rev = run[c].rev
    BY <1>c DEF Runs
  <2>5. run'[c] = r /\ Next1(c)' = Next1(c)
    BY <1>e, <2>3, <2>4 DEF Next1
  <2>6. run[c].i \in 1..Len(Steps)
    BY <1>c DEF Earns, Marked, Runs
  <2>7. Marked(c)' /\ Settled(c)' /\ Passed(c)' /\ Sole(c)'
    BY <1>c, <2>2, <2>4, <2>5, <2>6 DEF Earns, Marked, Settled, Passed, Sole
  <2> QED
    BY <2>2, <2>3, <2>4, <2>7, GoOn DEF Earns
<1>2. CASE Skip(c) \/ Finished(c)
  <2>1. \E p \in {"boundary", "failing"} :
          /\ run' = [run EXCEPT ![c] = [run[c] EXCEPT !.at = p, !.i = IF p = "boundary" THEN @ + 1
                                                                      ELSE @]]
          /\ run[c].at \in {"next", "finished"}
          /\ run[c].res[Next1(c)] = "completed"
    <3>1. CASE Skip(c)
      <4>1. run' = [run EXCEPT ![c] = [run[c] EXCEPT !.at = "boundary", !.i = @ + 1]]
        BY <3>1 DEF Skip, WorkflowInv, TypeOK
      <4> QED
        BY <3>1, <4>1 DEF Skip
    <3>2. CASE Finished(c)
      <4>1. \/ run' = [run EXCEPT ![c] = [run[c] EXCEPT !.at = "boundary", !.i = @ + 1]]
            \/ run' = [run EXCEPT ![c] = [run[c] EXCEPT !.at = "failing", !.i = @]]
        BY <3>2, <1>c DEF Finished, WorkflowInv, TypeOK, Runs
      <4>2. run[c].at = "finished" /\ run[c].res[Next1(c)] = "completed"
        BY <3>2, <1>c DEF Finished, Earns, Passed
      <4> QED
        BY <4>1, <4>2
    <3> QED
      BY <1>2, <3>1, <3>2
  <2> PICK p \in {"boundary", "failing"} :
          /\ run' = [run EXCEPT ![c] = [run[c] EXCEPT !.at = p, !.i = IF p = "boundary" THEN @ + 1
                                                                      ELSE @]]
          /\ run[c].at \in {"next", "finished"}
          /\ run[c].res[Next1(c)] = "completed"
    BY <2>1
  <2> DEFINE r == [run[c] EXCEPT !.at = p, !.i = IF p = "boundary" THEN @ + 1 ELSE @]
  <2>2. UNCHANGED <<stored, attached, copy, effects, worked>>
    BY <1>2 DEF Skip, Finished
  <2>3. run[c].i \in 1..Len(Steps)
    BY <1>c DEF Earns, Marked
  <2>4. r.at = p /\ r.status = run[c].status /\ r.res = run[c].res /\ r.rev = run[c].rev
        /\ (p = "boundary" => r.i = run[c].i + 1)
    BY <1>c DEF Runs
  <2>5. r \in Runs
    <3>1. (IF p = "boundary" THEN run[c].i + 1 ELSE run[c].i) \in 1..(Len(Steps) + 1)
      BY <2>3, <1>c
    <3>2. p \in Places
      BY DEF Places
    <3> QED
      BY <1>c, <3>1, <3>2 DEF Runs
  <2>6. run'[c] = r
    BY <1>e, <2>5
  <2>7. Marked(c)' /\ Settled(c)' /\ Sole(c)'
    BY <1>c, <2>2, <2>4, <2>6 DEF Earns, Marked, Settled, Sole
  <2>8. Passed(c)'
    <3>1. ASSUME p = "boundary", NEW j \in 1..(r.i - 1) PROVE r.res[Steps[j]] = "completed"
      <4>1. j \in 1..(run[c].i - 1) \/ j = run[c].i
        BY <3>1, <2>3, <2>4, <1>c
      <4> QED
        BY <4>1, <2>4, <1>c DEF Earns, Passed, Next1
    <3> QED
      BY <3>1, <2>4, <2>6 DEF Passed
  <2> QED
    BY <2>2, <2>4, <2>5, <2>7, <2>8, GoOn DEF Earns
<1> QED
  BY <1>1, <1>2

LEMMA CloseKeeps ==
  ASSUME WorkflowConstants, WorkflowInv, TypeOK', NEW c \in Callers, Close(c)
  PROVE  WorkflowInv'
<1> USE DEF Doing, Deciding, Working, Facing
<1>1. /\ run[c] \in Runs /\ run'[c] = [run[c] EXCEPT !.at = "closed"]
      /\ \A d \in Callers \ {c} : run'[d] = run[d]
  BY DEF Close, WorkflowInv, TypeOK
<1>2. Moves(c)
  BY <1>1 DEF Close, Moves, Runs
<1>3. StepsInv'
  BY StepsStay DEF Close, WorkflowInv
<1>4. \A d \in Callers : Alone(d)'
  BY <1>1, SameAlone DEF Close, WorkflowInv, CallerInv, Active, Runs
<1>5. Matches(c)'
  BY <1>1 DEF Close, WorkflowInv, CallerInv, Matches, Lag, Begun, Copied, Starts, Follows, Reported,
              Runs
<1>6. Earns(c)'
  BY <1>1 DEF Close, Earns, Marked, Settled, Passed, Sole, Runs
<1> QED
  BY <1>2, <1>3, <1>4, <1>5, <1>6, MoveKeeps

LEMMA DetachKeeps ==
  ASSUME WorkflowConstants, WorkflowInv, TypeOK', NEW c \in Callers, Detach(c)
  PROVE  WorkflowInv'
<1>1. run'[c] = Idle /\ \A d \in Callers \ {c} : run'[d] = run[d]
  BY DEF Detach, WorkflowInv, TypeOK
<1>2. Moves(c)
  BY <1>1 DEF Detach, Moves, Idle
<1>3. StepsInv'
  BY StepsStay DEF Detach, WorkflowInv
<1>4. \A d \in Callers : Alone(d)'
  <2>1. run[c].at = "detach" /\ attached' = IF attached = c THEN Nobody ELSE attached
    BY DEF Detach
  <2>2. \A d \in Callers : Alone(d)
    BY DEF WorkflowInv, CallerInv
  <2>3. ~Durable => \A d \in Callers : ~Active(d)'
    BY <1>1, <2>1, <2>2 DEF Alone, Active, Idle
  <2>4. Durable => attached' = Nobody
    BY <2>1, <2>2 DEF Alone
  <2> QED
    <3> SUFFICES ASSUME NEW d \in Callers PROVE Alone(d)'
      OBVIOUS
    <3> QED
      BY <2>3, <2>4 DEF Alone, Active
<1>5. Matches(c)' /\ Earns(c)'
  BY <1>1, IdleMatches DEF Detach, WorkflowInv, CallerInv
<1> QED
  BY <1>2, <1>3, <1>4, <1>5, MoveKeeps

\* Who executes an unsafe step is the only one, and the first.
LEMMA ExecuteKeeps ==
  ASSUME WorkflowConstants, WorkflowInv, TypeOK', NEW c \in Callers, Execute(c)
  PROVE  WorkflowInv'
<1> PICK effect \in BOOLEAN, ok \in BOOLEAN :
      /\ ok => effect /\ ~run[c].cancelled
      /\ run' = [run EXCEPT ![c].at = "returned", ![c].ok = ok]
      /\ effects' = [effects EXCEPT ![Next1(c)] = IF effect /\ @ < 2 THEN @ + 1 ELSE @]
      /\ worked' = IF effect THEN worked \cup {Next1(c)} ELSE worked
  BY DEF Execute
<1>1. /\ run[c] \in Runs /\ run[c].at = "executing" /\ Matches(c) /\ Earns(c)
      /\ run'[c] = [run[c] EXCEPT !.at = "returned", !.ok = ok]
      /\ \A d \in Callers \ {c} : run'[d] = run[d]
      /\ UNCHANGED <<stored, attached, copy>>
  BY DEF Execute, WorkflowInv, CallerInv, TypeOK
<1>2. /\ run'[c].at = "returned" /\ run'[c].ok = ok /\ run'[c].i = run[c].i
      /\ run'[c].status = run[c].status /\ run'[c].res = run[c].res /\ run'[c].rev = run[c].rev
      /\ Next1(c)' = Next1(c)
  <2>1. ASSUME NEW r \in Runs
        PROVE  LET q == [r EXCEPT !.at = "returned", !.ok = ok]
               IN  q.at = "returned" /\ q.ok = ok /\ q.i = r.i /\ q.status = r.status
                   /\ q.res = r.res /\ q.rev = r.rev
    BY DEF Runs
  <2> QED
    BY <1>1, <2>1 DEF Next1
<1> USE DEF Doing, Deciding, Working, Facing
<1>3. Next1(c) \in StepNames
  BY <1>1, NextTyped DEF Earns, Marked
<1>4. worked \subseteq worked' /\ \A s \in StepNames \ {Next1(c)} : effects'[s] = effects[s]
  BY <1>3 DEF WorkflowInv, TypeOK
<1>5. Moves(c)
  BY <1>1, <1>2, <1>4 DEF Moves
<1>6. StepsInv'
  <2>1. ASSUME Next1(c) \in Unsafe
        PROVE  stored.res[Next1(c)] # "none" /\ effects'[Next1(c)] <= 1
    <3>1. effects[Next1(c)] = 0 /\ stored.res[Next1(c)] # "none"
      BY <1>1, <2>1 DEF Earns, Sole, Marked
    <3> QED
      BY <1>3, <3>1 DEF WorkflowInv, TypeOK
  <2>2. Unmarked' /\ StepsRunOnce'
    BY <1>1, <1>4, <2>1 DEF WorkflowInv, StepsInv, Unmarked, StepsRunOnce, Unsafe
  <2>3. CompletedIsEarned'
    BY <1>1, <1>4 DEF WorkflowInv, StepsInv, CompletedIsEarned
  <2> QED
    BY <2>2, <2>3 DEF StepsInv
<1>7. \A d \in Callers : Alone(d)'
  BY <1>1, <1>2, SameAlone DEF WorkflowInv, CallerInv, Active
<1>8. Matches(c)'
  BY <1>1, <1>2, WorkMatches DEF WorkflowInv
<1>9. Earns(c)'
  BY <1>1, <1>2 DEF Earns, Marked, Settled, Passed, Sole
<1> QED
  BY <1>5, <1>6, <1>7, <1>8, <1>9, MoveKeeps

-----------------------------------------------------------------------------
(***************************************************************************)
(* Starting, recovering, requests and faults.                              *)
(***************************************************************************)

\* The requests change only flags of the run.
LEMMA RequestKeeps ==
  ASSUME WorkflowConstants, WorkflowInv, TypeOK', NEW c \in Callers,
         Pause(c) \/ Resume(c) \/ Cancel(c)
  PROVE  WorkflowInv'
<1>1. /\ run[c] \in Runs /\ Matches(c) /\ Earns(c)
      /\ \A d \in Callers \ {c} : run'[d] = run[d]
      /\ UNCHANGED <<stored, attached, copy, effects, worked>>
  BY DEF Pause, Resume, Cancel, WorkflowInv, CallerInv, TypeOK
<1>2. /\ run'[c].at = run[c].at /\ run'[c].i = run[c].i /\ run'[c].status = run[c].status
      /\ run'[c].res = run[c].res /\ run'[c].rev = run[c].rev /\ run'[c].lost = run[c].lost
      /\ run'[c].ok = run[c].ok /\ Next1(c)' = Next1(c)
  BY <1>1 DEF Pause, Resume, Cancel, WorkflowInv, TypeOK, Runs, Next1
<1>3. Moves(c)
  BY <1>1, <1>2 DEF Moves
<1>4. StepsInv'
  BY <1>1, StepsStay DEF WorkflowInv
<1>5. \A d \in Callers : Alone(d)'
  BY <1>1, <1>2, SameAlone DEF WorkflowInv, CallerInv, Active
<1>6. Matches(c)'
  <2>1. Lag(c)' /\ Begun(c)' /\ Copied(c)' /\ Reported(c)'
    BY <1>1, <1>2 DEF Matches, Lag, Begun, Copied, Reported
  <2>2. Starts(c)' /\ Follows(c)'
    BY <1>1, <1>2 DEF Matches, Starts, Follows, Fresh, Reconciled
  <2> QED
    BY <2>1, <2>2 DEF Matches
<1>7. Earns(c)'
  <2>1. Marked(c)' /\ Settled(c)' /\ Passed(c)'
    BY <1>1, <1>2 DEF Earns, Marked, Settled, Passed
  <2>2. Sole(c)'
    BY <1>1, <1>2 DEF Earns, Sole, Next1
  <2> QED
    BY <2>1, <2>2 DEF Earns
<1> QED
  BY <1>3, <1>4, <1>5, <1>6, <1>7, MoveKeeps

\* What the caller does not change keeps the invariant.
LEMMA LeaseKeeps ==
  ASSUME WorkflowConstants, WorkflowInv, TypeOK', NEW c \in Callers,
         Claim(c) \/ CleanupCompleted(c)
  PROVE  WorkflowInv'
<1>1. UNCHANGED <<stored, copy, run, effects, worked>>
  BY DEF Claim, CleanupCompleted
<1>2. StepsInv'
  BY <1>1, StepsStay DEF WorkflowInv
<1>3. ASSUME NEW d \in Callers PROVE Alone(d)'
  <2>1. Alone(d) /\ Alone(c) /\ run[c] \in Runs
    BY <1>3 DEF WorkflowInv, CallerInv, TypeOK
  <2>2. CASE attached' = attached
    BY <1>1, <2>1, <2>2 DEF Alone, Active
  <2>3. CASE CleanupCompleted(c)
    <3>1. attached = c /\ attached' = Nobody /\ run[c].status \in Terminal /\ ~Durable
      BY <2>1, <2>3 DEF CleanupCompleted, Alone, WorkflowConstants
    <3>2. run[c].at \notin Working \cup {"start", "detach"}
      BY <3>1 DEF WorkflowInv, CallerInv, Matches, Starts, Follows, Terminal, Going
    <3> QED
      BY <1>1, <2>1, <3>1, <3>2
      DEF Alone, Active, WorkflowConstants, Runs, Places, Working, Deciding, Doing
  <2> QED
    BY <2>2, <2>3 DEF Claim
<1>4. ASSUME NEW d \in Callers PROVE Matches(d)' /\ Earns(d)'
  <2>1. Matches(d) /\ Earns(d)
    BY <1>4 DEF WorkflowInv, CallerInv
  <2>2. Matches(d)'
    BY <1>1, <2>1 DEF Matches, Lag, Begun, Copied, Starts, Follows, Reported, Fresh, Reconciled
  <2>3. Earns(d)'
    BY <1>1, <2>1 DEF Earns, Marked, Settled, Passed, Sole, Next1
  <2> QED
    BY <2>2, <2>3
<1> QED
  BY <1>2, <1>3, <1>4 DEF WorkflowInv, CallerInv

\* An idle caller shows nothing.
LEMMA IdleKeeps ==
  ASSUME WorkflowConstants, WorkflowInv, TypeOK', NEW c \in Callers, Refuse(c) \/ Crash(c)
  PROVE  WorkflowInv'
<1>1. /\ run'[c] = Idle /\ \A d \in Callers \ {c} : run'[d] \in {run[d], Idle}
      /\ UNCHANGED <<stored, copy, effects, worked>>
  BY DEF Refuse, Crash, WorkflowInv, TypeOK
<1>2. Moves(c)
  BY <1>1 DEF Moves, Idle
<1>3. StepsInv'
  BY <1>1, StepsStay DEF WorkflowInv
<1>4. \A d \in Callers : Alone(d)'
  <2>1. \A d \in Callers : Alone(d)
    BY DEF WorkflowInv, CallerInv
  <2>2. CASE Refuse(c)
    <3>1. UNCHANGED attached /\ \A d \in Callers \ {c} : run'[d] = run[d]
      BY <2>2 DEF Refuse, WorkflowInv, TypeOK
    <3> QED
      BY <1>1, <2>1, <3>1, SameAlone DEF Active, Idle
  <2>3. CASE Crash(c)
    BY <2>1, <2>3 DEF Crash, Alone, Active, Idle
  <2> QED
    BY <2>2, <2>3
<1>5. Matches(c)' /\ Earns(c)'
  BY <1>1, IdleMatches DEF WorkflowInv, CallerInv
<1> QED
  BY <1>2, <1>3, <1>4, <1>5, MoveKeeps

\* What a caller reads is what is stored, and with a plain store it reads alone.
LEMMA ReadKeeps ==
  ASSUME Kept, WorkflowInv, TypeOK', NEW c \in Callers, Read(c)
  PROVE  WorkflowInv'
<1>1. /\ run[c] \in Runs /\ run'[c] = [run[c] EXCEPT !.at = "read"]
      /\ \A d \in Callers \ {c} : run'[d] = run[d] /\ copy'[d] = copy[d]
      /\ copy'[c] = stored /\ stored.status \in Going /\ stored \in Stored
      /\ UNCHANGED <<stored, effects, worked>>
  BY DEF Read, WorkflowInv, TypeOK, Going
<1>2. /\ run'[c].at = "read" /\ run'[c].rev = run[c].rev
  BY <1>1 DEF Runs
<1>3. Moves(c)
  BY <1>1, <1>2 DEF Moves
<1>4. StepsInv'
  BY <1>1, StepsStay DEF WorkflowInv
<1>5. ASSUME NEW d \in Callers PROVE Alone(d)'
  <2>1. Alone(d) /\ Nobody # c
    BY DEF WorkflowInv, CallerInv, Kept, WorkflowConstants
  <2>2. attached' = IF attached = c THEN Nobody ELSE attached
    BY DEF Read
  <2>3. CASE Durable
    BY <2>1, <2>2, <2>3 DEF Alone
  <2>4. CASE ~Durable
    <3>1. \A e \in Callers : ~Active(e)
      BY <2>4 DEF Read, Kept
    <3> QED
      <4>1. \A e \in Callers \ {c} : ~Active(e)'
        BY <1>1, <3>1 DEF Active
      <4>2. attached' # c
        BY <2>1, <2>2
      <4> QED
        BY <1>2, <2>4, <4>1, <4>2 DEF Alone, Active
  <2> QED
    BY <2>3, <2>4
<1>6. Matches(c)'
  <2>1. Lag(c)'
    BY <1>1, <1>2 DEF WorkflowInv, CallerInv, Matches, Lag, Stored
  <2> QED
    BY <1>1, <1>2, <2>1 DEF Matches, Begun, Copied, Starts, Follows, Reported, Going, Working,
                            Deciding, Doing
<1>7. Earns(c)'
  BY <1>2 DEF Earns, Marked, Settled, Passed, Sole, Working, Deciding, Doing, Facing
<1> QED
  BY <1>3, <1>4, <1>5, <1>6, <1>7, MoveKeeps DEF Kept

\* A run that is attached starts from what is stored, if the store is to accept it.
LEMMA AttachKeeps ==
  ASSUME WorkflowConstants, WorkflowInv, TypeOK', NEW c \in Callers,
         RunAsync(c) \/ Recover(c)
  PROVE  WorkflowInv'
<1> USE DEF Idle
<1> DEFINE r == IF RunAsync(c) THEN [Idle EXCEPT !.at = "start", !.status = "running"]
                ELSE [Idle EXCEPT !.at = "start", !.status = copy[c].status,
                                  !.rev = copy[c].rev, !.res = Reconciled(copy[c].res)]
<1>1. /\ Attach(c, r) /\ UNCHANGED <<stored, copy, effects, worked>>
      /\ RunAsync(c) => /\ ~Durable /\ stored.status = "none" /\ attached = Nobody
      /\ ~RunAsync(c) => /\ run[c].at = "read" /\ Free /\ Doubtful(copy[c].res) \subseteq worked
  BY DEF RunAsync, Recover, Reconciled
<1>2. /\ run'[c] = r /\ attached' = IF Durable THEN attached ELSE c
      /\ \A d \in Callers \ {c} : run'[d] = IF d = attached THEN Idle ELSE run[d]
  BY <1>1 DEF Attach
<1>3. /\ r.at = "start" /\ r.i = 1
      /\ RunAsync(c) => r.status = "running" /\ r.res = NoResults /\ r.rev = 0
      /\ ~RunAsync(c) => r.status = copy[c].status /\ r.rev = copy[c].rev
                         /\ r.res = Reconciled(copy[c].res)
  OBVIOUS
<1>4. /\ CallerInv(c) /\ copy[c] \in Stored /\ stored \in Stored
      /\ \A d \in Callers : Alone(d) /\ Begun(d)
  BY DEF WorkflowInv, CallerInv, Matches, TypeOK
<1> HIDE DEF r, Idle
<1>5. Moves(c)
  BY <1>1, <1>2, <1>3 DEF Moves
<1>6. StepsInv'
  BY <1>1, StepsStay DEF WorkflowInv
<1>7. ASSUME NEW d \in Callers PROVE Alone(d)'
  <2>1. ~Durable => \A e \in Callers \ {c} : ~Active(e)'
    <3> SUFFICES ASSUME ~Durable, NEW e \in Callers \ {c}, Active(e)' PROVE FALSE
      OBVIOUS
    <3>1. Active(e) /\ run'[e] = run[e]
      BY <1>2 DEF Active, Idle
    <3>2. CASE RunAsync(c)
      BY <1>1, <1>4, <3>1, <3>2 DEF Alone, Begun, Active, WorkflowConstants
    <3>3. CASE ~RunAsync(c)
      BY <1>1, <1>4, <3>1, <3>3 DEF Alone, Active
    <3> QED
      BY <3>2, <3>3
  <2> QED
    BY <1>2, <1>3, <1>4, <2>1 DEF Alone, Active
<1>8. Matches(c)'
  <2>1. Lag(c)'
    BY <1>1, <1>2, <1>3, <1>4 DEF CallerInv, Matches, Lag, Stored
  <2>2. Begun(c)'
    BY <1>1, <1>2, <1>3, <1>4 DEF Begun
  <2>3. Starts(c)'
    <3>1. r.status \in Going
      BY <1>1, <1>3, <1>4 DEF CallerInv, Matches, Copied, Going
    <3>2. CASE RunAsync(c)
      <4>1. stored.status = "none" /\ stored.res = NoResults
        BY <1>1, <1>4, <3>2 DEF Begun
      <4>2. Doubtful(NoResults) = {} /\ Reconciled(NoResults) = NoResults
        BY DEF Doubtful, Reconciled, NoResults
      <4> QED
        BY <1>1, <1>2, <1>3, <3>1, <3>2, <4>1, <4>2 DEF Starts, Reconciled, Doubtful
    <3>3. CASE ~RunAsync(c)
      <4>1. Fresh(c)' => copy[c] = stored
        BY <1>1, <1>2, <1>3, <1>4, <3>3 DEF Fresh, CallerInv, Matches, Copied
      <4> QED
        BY <1>1, <1>2, <1>3, <3>1, <3>3, <4>1 DEF Starts, Reconciled, Doubtful
    <3> QED
      BY <3>2, <3>3
  <2> QED
    BY <1>2, <1>3, <2>1, <2>2, <2>3 DEF Matches, Copied, Follows, Reported, Working, Deciding,
                                        Doing
<1>9. Earns(c)'
  <2>1. \A s \in Unsafe : r.res[s] \in {"none", "completed"}
    <3>1. \A s \in Unsafe : s \in StepNames /\ s \notin ReplaySafe
      BY DEF Unsafe
    <3>2. \A s \in Unsafe : NoResults[s] = "none"
      BY <3>1 DEF NoResults
    <3>3. \A s \in Unsafe : Reconciled(copy[c].res)[s] \in {"none", "completed"}
      BY <3>1 DEF Reconciled, Doubtful
    <3> QED
      BY <1>3, <3>2, <3>3
  <2> QED
    BY <1>2, <1>3, <2>1 DEF Earns, Marked, Settled, Passed, Sole, Working, Deciding, Doing,
                            Facing
<1> QED
  BY <1>5, <1>6, <1>7, <1>8, <1>9, MoveKeeps

-----------------------------------------------------------------------------
(***************************************************************************)
(* Saves.                                                                  *)
(***************************************************************************)

\* r says no more than what was done, and takes nothing back that is stored.
Earned(r) ==
  /\ r.status # "none"
  /\ r.status = "completed" => \A s \in StepNames : r.res[s] = "completed"
  /\ \A s \in StepNames : r.res[s] = "completed" => s \in worked
  /\ \A s \in StepNames : r.res[s] # "none" =>
       \A d \in Needs[s] : d \in StepNames /\ r.res[d] = "completed"
  /\ \A s \in StepNames : stored.res[s] # "none" => r.res[s] # "none"

\* What c may save as r on its way to next.
Savable(c, r, next) ==
  /\ next \in {"announce", "told", "retold", "started", "finished", "closing"}
  /\ run[c].at \in Working \cup {"start"}
  /\ r.i = run[c].i /\ r.rev = run[c].rev
  /\ Fresh(c) => Earned(r)
  /\ IF next = "closing" THEN r.status \in Terminal
     ELSE /\ r.status \in Going
          /\ \A s \in Unsafe : r.res[s] \in {"none", "completed"}
                               \/ (next = "started" /\ s = Next1(c))
          /\ \A j \in 1..(r.i - 1) : r.res[Steps[j]] = "completed"
  /\ next \in Facing => r.i \in 1..Len(Steps)
  /\ next = "started" => /\ r.res[Next1(c)] = "running"
                         /\ Fresh(c) /\ Next1(c) \in Unsafe => stored.res[Next1(c)] = "none"
  /\ next = "finished" => r.res[Next1(c)] = "completed"

\* What c leaves behind: r, or nothing.
Saves(c, r) == stored' = stored \/ (Fresh(c) /\ stored' = Image(r))

\* While the store would accept a run at work or about to start, nothing has ended.
LEMMA NotEnded ==
  ASSUME NEW c \in Callers, Matches(c), run[c].at \in Working \cup {"start"}, Fresh(c)
  PROVE  stored.status \notin Terminal
  BY DEF Matches, Starts, Follows, Going, Terminal

\* The revisions of others fall behind; whoever could save is alone with a plain store.
LEMMA SaveLeavesOthers ==
  ASSUME WorkflowConstants, WorkflowInv, TypeOK', NEW c \in Callers, NEW r \in Runs,
         NEW next, Savable(c, r, next), Saves(c, r), UNCHANGED <<copy, effects, worked>>,
         \A d \in Callers \ {c} : run'[d] = run[d],
         run'[c].at \in {"started", "executing"} =>
           next = "started" /\ Fresh(c) /\ run'[c].i = run[c].i,
         NEW d \in Callers \ {c}
  PROVE  Matches(d)' /\ Earns(d)'
<1>1. /\ CallerInv(c) /\ CallerInv(d) /\ run'[d] = run[d] /\ copy'[d] = copy[d]
      /\ run[d] \in Runs /\ stored \in Stored /\ stored' \in Stored /\ copy[d] \in Stored
  BY DEF WorkflowInv, TypeOK
<1>2. /\ stored'.rev \in Nat /\ stored.rev \in Nat /\ run[d].rev \in Nat /\ copy[d].rev \in Nat
  BY <1>1 DEF Stored, Runs
<1>s. Sole(d)'
  <2> SUFFICES ASSUME run'[d].at \in {"started", "executing"}, Next1(d)' \in Unsafe
               PROVE  /\ effects'[Next1(d)'] = 0
                      /\ \A e \in Callers \ {d} :
                           run'[e].at \in {"started", "executing"} => Next1(e)' # Next1(d)'
    BY DEF Sole
  <2>1. /\ Next1(d)' = Next1(d) /\ effects[Next1(d)] = 0 /\ stored.res[Next1(d)] # "none"
        /\ \A e \in Callers \ {d} :
             run[e].at \in {"started", "executing"} => Next1(e) # Next1(d)
    BY <1>1 DEF CallerInv, Earns, Sole, Marked, Next1, Doing
  <2>2. ASSUME NEW e \in Callers \ {d}, run'[e].at \in {"started", "executing"}
        PROVE  Next1(e)' # Next1(d)'
    <3>1. CASE e = c
      <4>1. Next1(c)' = Next1(c)
        BY <2>2, <3>1 DEF Next1
      <4>2. Next1(c) \in Unsafe => stored.res[Next1(c)] = "none"
        BY <2>2, <3>1 DEF Savable
      <4> QED
        BY <2>1, <3>1, <4>1, <4>2
    <3>2. CASE e # c
      BY <2>1, <2>2, <3>2 DEF Next1
    <3> QED
      BY <3>1, <3>2
  <2> QED
    BY <2>1, <2>2
<1>3. CASE stored' = stored
  <2>1. Matches(d)'
    BY <1>1, <1>3
    DEF CallerInv, Matches, Lag, Begun, Copied, Starts, Follows, Reported, Fresh, Reconciled
  <2>2. Marked(d)' /\ Settled(d)' /\ Passed(d)'
    BY <1>1, <1>3 DEF CallerInv, Earns, Marked, Settled, Passed, Next1
  <2> QED
    BY <1>s, <2>1, <2>2 DEF Earns
<1>4. CASE Fresh(c) /\ stored' = Image(r)
  <2>1. /\ stored'.status = r.status /\ stored'.res = r.res
        /\ stored'.rev = IF Durable THEN stored.rev + 1 ELSE 0
    BY <1>4 DEF Image
  <2>2. Earned(r) /\ stored.status \notin Terminal
    BY <1>1, <1>4, NotEnded DEF Savable, CallerInv
  <2>3. Lag(d)'
    BY <1>1, <1>2, <2>1 DEF CallerInv, Matches, Lag
  <2>4. Begun(d)'
    BY <1>1, <2>1, <2>2 DEF Begun, Earned
  <2>5. /\ Durable => run'[d].rev # stored'.rev /\ copy'[d].rev # stored'.rev
        /\ ~Durable => run[d].at \notin Working \cup {"start", "read"}
    <3>1. Active(c) /\ (~Durable => ~Active(d))
      BY <1>1 DEF Savable, CallerInv, Alone, Active, Working, Deciding, Doing
    <3> QED
      BY <1>1, <1>2, <2>1, <3>1
      DEF CallerInv, Matches, Lag, Active, Working, Deciding, Doing
  <2>6. Copied(d)' /\ Starts(d)' /\ Follows(d)'
    BY <1>1, <2>5 DEF CallerInv, Matches, Copied, Starts, Follows, Fresh
  <2>7. Reported(d)'
    BY <1>1, <2>2 DEF CallerInv, Matches, Reported
  <2>8. Marked(d)' /\ Settled(d)' /\ Passed(d)'
    <3>1. Marked(d)'
      <4>1. run[d].at \in Doing => Next1(d) \in StepNames
        BY <1>1, NextTyped DEF CallerInv, Earns, Marked, Facing
      <4> QED
        BY <1>1, <2>1, <2>2, <4>1 DEF CallerInv, Earns, Marked, Earned, Next1
    <3> QED
      BY <1>1, <3>1 DEF CallerInv, Earns, Settled, Passed, Next1
  <2> QED
    BY <1>s, <2>3, <2>4, <2>6, <2>7, <2>8 DEF Matches, Earns
<1> QED
  BY <1>3, <1>4 DEF Saves

\* A save keeps the invariant: c goes on with what it stored, or is over without knowing.
LEMMA PersistKeeps ==
  ASSUME WorkflowConstants, WorkflowInv, TypeOK', NEW c \in Callers, NEW r \in Runs,
         NEW next, Savable(c, r, next), NEW failed \in {"closing", "detach"},
         failed = "detach" => r.status \in Going, run[c].at = "start" => failed = "detach",
         Persist(c, r, next, failed),
         UNCHANGED <<attached, copy, effects, worked>>
  PROVE  WorkflowInv'
<1> DEFINE stay == [r EXCEPT !.at = next, !.rev = Image(r).rev]
           leave == [r EXCEPT !.at = failed, !.lost = TRUE]
<1>1. /\ Saves(c, r) /\ \A d \in Callers \ {c} : run'[d] = run[d]
      /\ \/ Fresh(c) /\ stored' = Image(r) /\ run'[c] = stay
         \/ run'[c] = leave
  <2>1. Accepts(c) => Fresh(c)
    BY DEF Accepts, Fresh
  <2> QED
    BY <2>1 DEF Persist, Saves, WorkflowInv, TypeOK
<1>2. /\ stay.at = next /\ stay.i = r.i /\ stay.status = r.status /\ stay.res = r.res
      /\ stay.rev = Image(r).rev /\ stay.ok = r.ok
      /\ leave.at = failed /\ leave.i = r.i /\ leave.status = r.status /\ leave.res = r.res
      /\ leave.rev = r.rev /\ leave.lost = TRUE
  BY DEF Runs
<1> HIDE DEF stay, leave
<1>3. /\ CallerInv(c) /\ stored \in Stored /\ stored' \in Stored /\ run[c] \in Runs
      /\ copy[c] \in Stored
  BY DEF WorkflowInv, TypeOK
<1>4. Image(r).status = r.status /\ Image(r).res = r.res
      /\ Image(r).rev = IF Durable THEN stored.rev + 1 ELSE 0
  BY DEF Image
<1>5. run'[c].at \in {"started", "executing"} =>
        /\ run'[c] = stay /\ next = "started" /\ Fresh(c) /\ run'[c].i = run[c].i
  BY <1>1, <1>2 DEF Savable
<1>6. ASSUME NEW d \in Callers \ {c} PROVE Matches(d)' /\ Earns(d)'
  BY <1>1, <1>5, SaveLeavesOthers
<1>7. StepsInv'
  <2>1. CASE stored' = stored
    BY <2>1, StepsStay DEF WorkflowInv
  <2>2. CASE Fresh(c) /\ stored' = Image(r)
    <3>1. Earned(r)
      BY <2>2 DEF Savable
    <3>2. CompletedIsEarned'
      BY <1>4, <2>2, <3>1 DEF Earned, CompletedIsEarned
    <3>3. Unmarked' /\ StepsRunOnce'
      BY <1>4, <2>2, <3>1 DEF Earned, WorkflowInv, StepsInv, Unmarked, StepsRunOnce, Unsafe
    <3> QED
      BY <3>2, <3>3 DEF StepsInv
  <2> QED
    BY <1>1, <2>1, <2>2 DEF Saves
<1>8. \A d \in Callers : Alone(d)'
  <2>1. run[c].at # "read" /\ Active(c) /\ run'[c].at # "read"
    BY <1>1, <1>2 DEF Savable, Active, Working, Deciding, Doing
  <2> QED
    BY <1>1, <2>1, SameAlone DEF WorkflowInv, CallerInv
<1>9. Matches(c)'
  <2>1. Lag(c)'
    <3>1. /\ stored'.rev \in Nat /\ stored.rev \in Nat /\ run[c].rev \in Nat /\ copy[c].rev \in Nat
      BY <1>3 DEF Stored, Runs
    <3>2. stored.rev <= stored'.rev
      BY <1>1, <1>3, <1>4, <3>1 DEF Saves, CallerInv, Matches, Lag
    <3> QED
      BY <1>1, <1>2, <1>3, <1>4, <3>1, <3>2 DEF Saves, Savable, CallerInv, Matches, Lag
  <2>2. Begun(c)'
    <3>1. stored'.status = "none" =>
            /\ ~Durable /\ stored'.res = NoResults /\ stored' = stored
      BY <1>1, <1>3, <1>4 DEF Saves, Savable, Earned, CallerInv, Matches, Begun
    <3>2. run[c].at \notin {"start"} => stored.status # "none"
      BY <1>3 DEF Savable, CallerInv, Matches, Begun, Working, Deciding, Doing
    <3> QED
      BY <1>1, <1>2, <1>4, <3>1, <3>2 DEF Begun, Savable, Earned
  <2>3. Copied(c)' /\ Starts(c)' /\ Follows(c)' /\ Reported(c)'
    BY <1>1, <1>2, <1>4
    DEF Savable, Copied, Starts, Follows, Reported, Working, Deciding, Doing
  <2> QED
    BY <2>1, <2>2, <2>3 DEF Matches
<1>10. Earns(c)'
  <2>1. CASE run'[c] = leave
    BY <1>2, <2>1 DEF Earns, Marked, Settled, Passed, Sole, Working, Deciding, Doing, Facing
  <2>2. CASE Fresh(c) /\ stored' = Image(r) /\ run'[c] = stay
    <3>1. Next1(c)' = Next1(c)
      BY <1>2, <2>2 DEF Next1, Savable
    <3>2. Marked(c)'
      BY <1>2, <1>4, <2>2, <3>1 DEF Marked, Savable, Working, Deciding, Doing, Facing
    <3>3. Settled(c)' /\ Passed(c)'
      BY <1>2, <2>2, <3>1 DEF Settled, Passed, Savable, Working, Deciding, Doing
    <3>4. Sole(c)'
      <4> SUFFICES ASSUME run'[c].at \in {"started", "executing"}, Next1(c)' \in Unsafe
                   PROVE  /\ effects'[Next1(c)'] = 0
                          /\ \A e \in Callers \ {c} :
                               run'[e].at \in {"started", "executing"} => Next1(e)' # Next1(c)'
        BY DEF Sole
      <4>1. stored.res[Next1(c)] = "none"
        BY <1>5, <3>1 DEF Savable
      <4>2. effects[Next1(c)] = 0
        BY <3>1, <4>1 DEF WorkflowInv, StepsInv, Unmarked
      <4>3. ASSUME NEW e \in Callers \ {c}, run'[e].at \in {"started", "executing"}
            PROVE  Next1(e)' # Next1(c)'
        <5>1. run'[e] = run[e]
          BY <1>1
        <5>2. stored.res[Next1(e)] # "none"
          BY <4>3, <5>1 DEF WorkflowInv, CallerInv, Earns, Marked, Doing
        <5> QED
          BY <3>1, <4>1, <5>1, <5>2 DEF Next1
      <4> QED
        BY <3>1, <4>2, <4>3
    <3> QED
      BY <3>2, <3>3, <3>4 DEF Earns
  <2> QED
    BY <1>1, <2>1, <2>2
<1> QED
  BY <1>6, <1>7, <1>8, <1>9, <1>10 DEF WorkflowInv, CallerInv

\* What a run at work that is not out of date has in mind was done.
LEMMA WorkEarned ==
  ASSUME WorkflowInv, NEW c \in Callers, run[c].at \in Working
  PROVE  /\ Fresh(c) => /\ stored.res = run[c].res /\ stored.status = run[c].status
                        /\ \A s \in StepNames : run[c].res[s] = "completed" => s \in worked
                        /\ \A s \in StepNames : run[c].res[s] # "none" =>
                             \A d \in Needs[s] : d \in StepNames /\ run[c].res[d] = "completed"
         /\ run[c].status \in Going
  BY DEF WorkflowInv, CallerInv, Matches, Follows, StepsInv, CompletedIsEarned

\* A status that ends the run may be saved when what it says was done, and so may one
\* that keeps it going.
LEMMA StatusKeeps ==
  ASSUME WorkflowConstants, WorkflowInv, TypeOK', NEW c \in Callers, NEW r \in Runs,
         NEW status \in Statuses \ {"none"}, NEW next, run[c].at \in Working,
         SetStatus(c, r, status, next), r.i = run[c].i, r.rev = run[c].rev,
         \/ next = "closing" /\ status \in Terminal
         \/ /\ next \in {"told", "retold"} /\ status \in Going
            /\ r.res = run[c].res /\ run[c].at \in Deciding \cap Facing,
         status = "completed" => \A s \in StepNames : r.res[s] = "completed",
         \A s \in StepNames : r.res[s] = "completed" <=> run[c].res[s] = "completed",
         \A s \in StepNames : r.res[s] = "none" <=> run[c].res[s] = "none"
  PROVE  WorkflowInv'
<1> DEFINE q == [r EXCEPT !.status = status]
<1>1. /\ q \in Runs /\ q.status = status /\ q.res = r.res /\ q.i = r.i /\ q.rev = r.rev
  BY DEF Runs
<1>2. /\ Persist(c, q, next, "closing") /\ UNCHANGED <<attached, copy, effects, worked>>
  BY DEF SetStatus
<1> HIDE DEF q
<1>3. Fresh(c) => Earned(q)
  BY <1>1, WorkEarned DEF Earned
<1>4. CallerInv(c)
  BY DEF WorkflowInv
<1>5. Savable(c, q, next)
  <2>1. next = "closing" => q.status \in Terminal
    BY <1>1 DEF Going, Terminal
  <2>2. next # "closing" =>
          /\ q.status \in Going /\ next \in {"told", "retold"} /\ run[c].i \in 1..Len(Steps)
          /\ \A s \in Unsafe : q.res[s] \in {"none", "completed"}
          /\ \A j \in 1..(q.i - 1) : q.res[Steps[j]] = "completed"
    BY <1>1, <1>4
    DEF CallerInv, Earns, Marked, Settled, Passed, Working, Deciding, Doing, Facing
  <2> QED
    BY <1>1, <1>3, <2>1, <2>2 DEF Savable, Facing, Doing
<1>6. run[c].at # "start"
  BY DEF Working, Deciding, Doing
<1> QED
  BY <1>1, <1>2, <1>5, <1>6, PersistKeeps

\* The first save stores the reconciled results.
LEMMA SaveStartKeeps ==
  ASSUME WorkflowConstants, WorkflowInv, TypeOK', NEW c \in Callers, SaveStart(c)
  PROVE  WorkflowInv'
<1> DEFINE r == [run[c] EXCEPT !.pause = @ \/ run[c].status = "paused"]
<1>1. /\ run[c] \in Runs /\ CallerInv(c) /\ run[c].at = "start"
      /\ Persist(c, r, "announce", "detach") /\ UNCHANGED <<attached, copy, effects, worked>>
  BY DEF SaveStart, WorkflowInv, TypeOK
<1>2. /\ r \in Runs /\ r.i = run[c].i /\ r.rev = run[c].rev /\ r.status = run[c].status
      /\ r.res = run[c].res
  BY <1>1 DEF Runs
<1> HIDE DEF r
<1>3. run[c].status \in Going /\ run[c].i = 1
  BY <1>1 DEF CallerInv, Matches, Starts
<1>4. ASSUME Fresh(c) PROVE Earned(r)
  <2>1. r.res = Reconciled(stored.res) /\ Doubtful(stored.res) \subseteq worked
    BY <1>1, <1>2, <1>4 DEF CallerInv, Matches, Starts
  <2>2. CompletedIsEarned
    BY DEF WorkflowInv, StepsInv
  <2>3. ASSUME NEW s \in StepNames
        PROVE  /\ r.res[s] = "completed" => s \in worked
               /\ stored.res[s] = "none" <=> r.res[s] = "none"
               /\ stored.res[s] = "completed" => r.res[s] = "completed"
    BY <2>1, <2>2, <2>3 DEF Reconciled, Doubtful, CompletedIsEarned
  <2> QED
    BY <1>2, <1>3, <2>2, <2>3 DEF Earned, CompletedIsEarned, Going
<1>5. Savable(c, r, "announce")
  BY <1>1, <1>2, <1>3, <1>4 DEF Savable, CallerInv, Earns, Settled, Facing, Doing, Working
<1> QED
  BY <1>1, <1>2, <1>3, <1>5, PersistKeeps

\* A step is stored as running before it runs, for the first time if it is unsafe.
LEMMA DispatchKeeps ==
  ASSUME WorkflowConstants, WorkflowInv, TypeOK', NEW c \in Callers, Dispatch(c)
  PROVE  WorkflowInv'
<1> DEFINE r == [run[c] EXCEPT !.res[Next1(c)] = "running"]
<1>1. /\ run[c] \in Runs /\ CallerInv(c) /\ run[c].at = "next"
      /\ run[c].res[Next1(c)] # "completed" /\ run[c].res \in Results
  BY DEF Dispatch, WorkflowInv, TypeOK, Runs
<1>2. run[c].i \in 1..Len(Steps) /\ Next1(c) \in StepNames
  BY <1>1, NextTyped DEF CallerInv, Earns, Marked, Facing
<1>3. CASE ~\A d \in Needs[Next1(c)] : d \in StepNames /\ run[c].res[d] = "completed"
  <2>1. SetStatus(c, run[c], "failed", "closing")
    BY <1>3 DEF Dispatch
  <2> QED
    BY <1>1, <2>1, StatusKeeps DEF Statuses, Terminal, Working, Deciding
<1>4. CASE \A d \in Needs[Next1(c)] : d \in StepNames /\ run[c].res[d] = "completed"
  <2>1. Persist(c, r, "started", "closing") /\ UNCHANGED <<attached, copy, effects, worked>>
    BY <1>4 DEF Dispatch
  <2>2. /\ r \in Runs /\ r.i = run[c].i /\ r.rev = run[c].rev /\ r.status = run[c].status
        /\ r.res = [run[c].res EXCEPT ![Next1(c)] = "running"]
    BY <1>1 DEF Runs, Results
  <2> HIDE DEF r
  <2>3. /\ r.res[Next1(c)] = "running"
        /\ \A s \in StepNames \ {Next1(c)} : r.res[s] = run[c].res[s]
    BY <1>1, <1>2, <2>2 DEF Results
  <2>w. run[c].at \in Working
    BY <1>1 DEF Working, Deciding
  <2>4. ASSUME Fresh(c) PROVE Earned(r)
    <3>1. ASSUME NEW s \in StepNames, r.res[s] # "none", NEW d \in Needs[s]
          PROVE  d \in StepNames /\ r.res[d] = "completed"
      <4>1. d \in StepNames /\ run[c].res[d] = "completed"
        BY <1>4, <2>w, <2>3, <2>4, <3>1, WorkEarned
      <4> QED
        BY <1>1, <2>3, <4>1
    <3>2. r.status \in Going
      BY <2>2, <2>w, WorkEarned
    <3>3. \A s \in StepNames : r.res[s] = "completed" => s \in worked
      BY <2>3, <2>4, <2>w, WorkEarned
    <3>4. \A s \in StepNames : stored.res[s] # "none" => r.res[s] # "none"
      BY <2>3, <2>4, <2>w, WorkEarned
    <3> QED
      BY <3>1, <3>2, <3>3, <3>4 DEF Earned, Going
  <2>5. \A j \in 1..(r.i - 1) : r.res[Steps[j]] = "completed"
    <3>1. ASSUME NEW j \in 1..(r.i - 1) PROVE r.res[Steps[j]] = "completed"
      <4>1. run[c].res[Steps[j]] = "completed"
        BY <1>1, <2>2 DEF CallerInv, Earns, Passed, Working, Deciding
      <4>2. Steps[j] \in StepNames
        BY <1>2, <2>2, StepsTyped
      <4> QED
        BY <1>1, <2>3, <4>1, <4>2
    <3> QED
      BY <3>1
  <2>6. \A s \in Unsafe : run[c].res[s] \in {"none", "completed"}
    BY <1>1 DEF CallerInv, Earns, Settled, Deciding, Doing
  <2>7. Fresh(c) /\ Next1(c) \in Unsafe => stored.res[Next1(c)] = "none"
    BY <1>1, <1>2, <2>6, <2>w, WorkEarned
  <2>8. Savable(c, r, "started")
    BY <1>1, <1>2, <2>2, <2>3, <2>4, <2>5, <2>6, <2>7, <2>w, WorkEarned DEF Savable, Unsafe
  <2> QED
    BY <1>1, <2>1, <2>2, <2>8, PersistKeeps
<1> QED
  BY <1>3, <1>4

\* A step that succeeded is stored as completed.
LEMMA CompletedKeeps ==
  ASSUME WorkflowConstants, WorkflowInv, TypeOK', NEW c \in Callers, Completed(c)
  PROVE  WorkflowInv'
<1> DEFINE r == [run[c] EXCEPT !.res[Next1(c)] = "completed"]
<1>1. /\ run[c] \in Runs /\ CallerInv(c) /\ run[c].at = "returned" /\ run[c].ok
      /\ Persist(c, r, "finished", "closing") /\ UNCHANGED <<attached, copy, effects, worked>>
  BY DEF Completed, WorkflowInv, TypeOK
<1>2. /\ run[c].i \in 1..Len(Steps) /\ Next1(c) \in StepNames /\ Next1(c) \in worked
      /\ run[c].res[Next1(c)] = "running" /\ run[c].at \in Working /\ run[c].res \in Results
  BY <1>1, NextTyped DEF CallerInv, Earns, Marked, Facing, Doing, Working, Runs
<1>3. /\ r \in Runs /\ r.i = run[c].i /\ r.rev = run[c].rev /\ r.status = run[c].status
      /\ r.res = [run[c].res EXCEPT ![Next1(c)] = "completed"]
  BY <1>1 DEF Runs, Results
<1> HIDE DEF r
<1>4. /\ r.res[Next1(c)] = "completed"
      /\ \A s \in StepNames \ {Next1(c)} : r.res[s] = run[c].res[s]
  BY <1>2, <1>3 DEF Results
<1>5. ASSUME Fresh(c) PROVE Earned(r)
  <2>1. ASSUME NEW s \in StepNames, r.res[s] # "none", NEW d \in Needs[s]
        PROVE  d \in StepNames /\ r.res[d] = "completed"
    <3>1. d \in StepNames /\ run[c].res[d] = "completed"
      BY <1>2, <1>4, <1>5, <2>1, WorkEarned
    <3> QED
      BY <1>4, <3>1
  <2>2. r.status \in Going
    BY <1>2, <1>3, WorkEarned
  <2>3. \A s \in StepNames : r.res[s] = "completed" => s \in worked
    BY <1>2, <1>4, <1>5, WorkEarned
  <2>4. \A s \in StepNames : stored.res[s] # "none" => r.res[s] # "none"
    BY <1>2, <1>4, <1>5, WorkEarned
  <2> QED
    BY <2>1, <2>2, <2>3, <2>4 DEF Earned, Going
<1>6. \A j \in 1..(r.i - 1) : r.res[Steps[j]] = "completed"
  <2>1. ASSUME NEW j \in 1..(r.i - 1) PROVE r.res[Steps[j]] = "completed"
    <3>1. run[c].res[Steps[j]] = "completed"
      BY <1>1, <1>3 DEF CallerInv, Earns, Passed, Working, Doing
    <3>2. Steps[j] \in StepNames
      BY <1>2, <1>3, StepsTyped
    <3> QED
      BY <1>4, <3>1, <3>2
  <2> QED
    BY <2>1
<1>7. \A s \in Unsafe : r.res[s] \in {"none", "completed"}
  BY <1>1, <1>4 DEF CallerInv, Earns, Settled, Doing, Unsafe
<1>8. Savable(c, r, "finished")
  BY <1>1, <1>2, <1>3, <1>4, <1>5, <1>6, <1>7, WorkEarned DEF Savable
<1> QED
  BY <1>1, <1>2, <1>3, <1>8, PersistKeeps

\* In particular one that says it failed or was cancelled.
LEMMA FailureKeeps ==
  ASSUME WorkflowConstants, WorkflowInv, TypeOK', NEW c \in Callers, NEW r \in Runs,
         NEW status \in {"failed", "cancelled"}, run[c].at \in Working,
         SetStatus(c, r, status, "closing"), r.i = run[c].i, r.rev = run[c].rev,
         \A s \in StepNames : /\ r.res[s] = "completed" <=> run[c].res[s] = "completed"
                              /\ r.res[s] = "none" <=> run[c].res[s] = "none"
  PROVE  WorkflowInv'
<1>1. status \in Statuses \ {"none"} /\ status \in Terminal /\ status # "completed"
  BY DEF Statuses, Terminal
<1> QED
  BY <1>1, StatusKeeps

\* The ends of a run, and its pauses.
LEMMA EndsKeep ==
  ASSUME WorkflowConstants, WorkflowInv, TypeOK', NEW c \in Callers,
         \/ Cancelled(c) \/ Pausing(c) \/ Resuming(c) \/ StepFailed(c) \/ Failing(c)
         \/ End(c) \/ Ending(c)
  PROVE  WorkflowInv'
<1> USE DEF Statuses, Terminal, Going, Working, Deciding, Doing, Facing
<1>1. run[c] \in Runs /\ CallerInv(c) /\ run[c].res \in Results
  BY DEF WorkflowInv, TypeOK, Runs
<1>2. CASE Cancelled(c)
  BY <1>1, <1>2, StatusKeeps DEF Cancelled
<1>3. CASE Pausing(c)
  BY <1>1, <1>3, StatusKeeps DEF Pausing
<1>4. CASE Resuming(c)
  BY <1>1, <1>4, StatusKeeps DEF Resuming
<1>5. CASE StepFailed(c)
  <2> DEFINE r == [run[c] EXCEPT !.res[Next1(c)] = "failed"]
  <2>1. /\ run[c].res[Next1(c)] = "running" /\ run[c].at = "returned"
        /\ SetStatus(c, r, IF run[c].cancelled THEN "cancelled" ELSE "failed", "closing")
    BY <1>1, <1>5 DEF StepFailed, CallerInv, Earns, Marked
  <2>2. /\ r \in Runs /\ r.i = run[c].i /\ r.rev = run[c].rev
        /\ r.res = [run[c].res EXCEPT ![Next1(c)] = "failed"]
    BY <1>1 DEF Runs, Results
  <2> HIDE DEF r
  <2>3. \A s \in StepNames : /\ r.res[s] = "completed" <=> run[c].res[s] = "completed"
                             /\ r.res[s] = "none" <=> run[c].res[s] = "none"
    <3>1. \A s \in StepNames : r.res[s] = IF s = Next1(c) THEN "failed" ELSE run[c].res[s]
      BY <1>1, <2>2 DEF Results
    <3> QED
      BY <2>1, <3>1
  <2> DEFINE status == IF run[c].cancelled THEN "cancelled" ELSE "failed"
  <2>4. /\ SetStatus(c, r, status, "closing") /\ status \in {"failed", "cancelled"}
        /\ run[c].at \in Working
    BY <2>1
  <2> HIDE DEF status, Working
  <2> QED
    BY <2>2, <2>3, <2>4, FailureKeeps
<1>6. CASE Failing(c)
  <2> DEFINE r == [run[c] EXCEPT !.res = [s \in StepNames |-> IF run[c].res[s] = "running"
                                                             THEN "failed" ELSE run[c].res[s]]]
  <2>1. /\ run[c].at = "failing" /\ r.cancelled = run[c].cancelled
        /\ SetStatus(c, r, IF r.cancelled THEN "cancelled" ELSE "failed", "closing")
    BY <1>1, <1>6 DEF Failing, FailExecution, Runs
  <2>2. /\ r \in Runs /\ r.i = run[c].i /\ r.rev = run[c].rev
        /\ r.res = [s \in StepNames |-> IF run[c].res[s] = "running" THEN "failed"
                                        ELSE run[c].res[s]]
    BY <1>1 DEF Runs, Results
  <2> HIDE DEF r
  <2>3. \A s \in StepNames : /\ r.res[s] = "completed" <=> run[c].res[s] = "completed"
                             /\ r.res[s] = "none" <=> run[c].res[s] = "none"
    BY <2>2
  <2> DEFINE status == IF r.cancelled THEN "cancelled" ELSE "failed"
  <2>4. /\ SetStatus(c, r, status, "closing") /\ status \in {"failed", "cancelled"}
        /\ run[c].at \in Working
    BY <2>1
  <2> HIDE DEF status, Working
  <2> QED
    BY <2>2, <2>3, <2>4, FailureKeeps
<1>7. CASE End(c)
  <2>1. CASE run[c].cancelled
    BY <1>1, <1>7, <2>1, StatusKeeps DEF End
  <2>2. CASE ~run[c].cancelled
    <3>1. run[c].at = "boundary" /\ run[c].i > Len(Steps) /\ CallBack(c, "ending")
      BY <1>7, <2>2 DEF End
    <3> QED
      BY <3>1, CallBackKeeps
  <2> QED
    BY <2>1, <2>2
<1>8. CASE Ending(c)
  <2>1. run[c].at = "ending" /\ SetStatus(c, run[c], "completed", "closing")
    BY <1>8 DEF Ending
  <2>2. \A s \in StepNames : run[c].res[s] = "completed"
    <3>1. ASSUME NEW i \in 1..Len(Steps) PROVE run[c].res[Steps[i]] = "completed"
      <4>1. run[c].i > Len(Steps) /\ run[c].i \in Nat /\ Len(Steps) \in Nat
        BY <1>1, <2>1, StepsTyped DEF CallerInv, Earns, Passed, Runs
      <4>2. i \in 1..(run[c].i - 1)
        BY <4>1
      <4> QED
        BY <1>1, <2>1, <4>2 DEF CallerInv, Earns, Passed
    <3> QED
      BY <3>1 DEF StepNames
  <2> QED
    BY <1>1, <2>1, <2>2, StatusKeeps
<1> QED
  BY <1>2, <1>3, <1>4, <1>5, <1>6, <1>7, <1>8

LEMMA LoopKeeps ==
  ASSUME WorkflowConstants, WorkflowInv, TypeOK', NEW c \in Callers, Loop(c)
  PROVE  WorkflowInv'
<1>1. CASE Announce(c)
  BY <1>1, CallBackKeeps DEF Announce, Working, Deciding, Facing, Doing
<1>2. CASE Told(c)
  BY <1>2, CallBackKeeps DEF Told, Working, Deciding, Facing, Doing
<1>3. CASE Retold(c)
  BY <1>3, CallBackKeeps DEF Retold, Working, Deciding, Facing, Doing
<1>4. CASE Started(c)
  BY <1>4, CallBackKeeps DEF Started, Working, Deciding, Facing, Doing
<1> QED
  BY <1>1, <1>2, <1>3, <1>4, SaveStartKeeps, DetachKeeps, WalkKeeps, DispatchKeeps, ExecuteKeeps,
     CompletedKeeps, EndsKeep, CloseKeeps DEF Loop

-----------------------------------------------------------------------------
(***************************************************************************)
(* The theorems.                                                           *)
(***************************************************************************)

LEMMA WorkflowStarts ==
  ASSUME WorkflowConstants, Init
  PROVE  WorkflowInv
<1> USE DEF Init, Idle, NotStored
<1>1. TypeOK
  <2>1. /\ NoResults \in Results /\ NotStored \in Stored /\ Idle \in Runs
    BY StepsTyped
  <2> QED
    BY <2>1 DEF TypeOK, WorkflowConstants
<1>2. \A s \in StepNames : NoResults[s] = "none"
  BY DEF NoResults
<1>3. StepsInv
  BY <1>2 DEF StepsInv, Unmarked, StepsRunOnce, CompletedIsEarned, Unsafe
<1>4. ASSUME NEW c \in Callers PROVE CallerInv(c)
  <2>1. Lag(c) /\ Alone(c) /\ Begun(c)
    BY DEF Lag, Alone, Begun, Active
  <2>2. Copied(c) /\ Starts(c) /\ Follows(c) /\ Reported(c)
    BY DEF Copied, Starts, Follows, Reported, Working, Deciding, Doing
  <2>3. Earns(c)
    BY DEF Earns, Marked, Settled, Passed, Sole, Working, Deciding, Doing, Facing
  <2> QED
    BY <2>1, <2>2, <2>3 DEF CallerInv, Matches
<1> QED
  BY <1>1, <1>3, <1>4 DEF WorkflowInv

LEMMA WorkflowSteps ==
  ASSUME Kept, WorkflowInv, [Next]_workflow_vars
  PROVE  WorkflowInv'
<1>1. WorkflowConstants
  BY DEF Kept
<1>2. TypeOK'
  BY <1>1, NextTypes DEF WorkflowInv, CallerInv, Earns
<1>3. CASE UNCHANGED workflow_vars
  <2>1. TypeOK' /\ StepsInv'
    BY <1>2, <1>3, StepsStay DEF WorkflowInv, workflow_vars
  <2>2. ASSUME NEW c \in Callers PROVE CallerInv(c)'
    <3>1. CallerInv(c)
      BY <2>2 DEF WorkflowInv
    <3>2. Alone(c)'
      BY <1>3, <3>1 DEF workflow_vars, CallerInv, Alone, Active
    <3>3. Matches(c)'
      BY <1>3, <3>1
      DEF workflow_vars, CallerInv, Matches, Lag, Begun, Copied, Starts, Follows, Reported, Fresh,
          Reconciled
    <3>4. Earns(c)'
      BY <1>3, <3>1
      DEF workflow_vars, CallerInv, Earns, Marked, Settled, Passed, Sole, Next1
    <3> QED
      BY <3>2, <3>3, <3>4 DEF CallerInv
  <2> QED
    BY <2>1, <2>2 DEF WorkflowInv
<1>4. CASE Next
  BY <1>1, <1>2, <1>4, LoopKeeps, AttachKeeps, LeaseKeeps, ReadKeeps, IdleKeeps, RequestKeeps
  DEF Next
<1> QED
  BY <1>3, <1>4

\* Every state is one of the invariant's: what a caller holds, what is stored and what was
\* done fit together, whatever fails, crashes or is read twice.
THEOREM WorkflowIsSound == Kept => (Spec => []WorkflowInv)
<1> SUFFICES ASSUME Kept PROVE Spec => []WorkflowInv
  OBVIOUS
<1>1. Init => WorkflowInv
  BY WorkflowStarts DEF Kept
<1>2. WorkflowInv /\ [Next]_workflow_vars => WorkflowInv'
  BY WorkflowSteps
<1> QED
  BY <1>1, <1>2, PTL DEF Spec

\* A step that was not declared safe to replay takes effect at most once: it is stored as
\* running before it runs, and no recovery executes it again.
THEOREM UnsafeStepsHappenOnce == Kept => (Spec => []StepsRunOnce)
<1>1. WorkflowInv => StepsRunOnce
  BY DEF WorkflowInv, StepsInv
<1> QED
  BY <1>1, WorkflowIsSound, PTL

\* An execution stored as completed did every step, none before what it depends on.
THEOREM CompletionIsEarned == Kept => (Spec => []CompletedIsEarned)
<1>1. WorkflowInv => CompletedIsEarned
  BY DEF WorkflowInv, StepsInv
<1> QED
  BY <1>1, WorkflowIsSound, PTL

\* The status and results a run's waiters are given are the stored ones, and final.
THEOREM WaitersAreTold == Kept => (Spec => []WaitersAreToldTheTruth)
<1>1. WorkflowInv => WaitersAreToldTheTruth
  BY DEF WorkflowInv, CallerInv, Matches, Reported, WaitersAreToldTheTruth
<1> QED
  BY <1>1, WorkflowIsSound, PTL

\* What is stored changes by a save the run's place and revision allow, or not at all.
LEMMA WhoStores ==
  ASSUME NEW c \in Callers, Loop(c)
  PROVE  \/ stored' = stored
         \/ Fresh(c) /\ run[c].at \in Working \cup {"start"}
<1> USE DEF SetStatus, Persist, Accepts, Fresh, CallBack, Working, Deciding, Doing
<1>1. CASE \/ SaveStart(c) \/ Cancelled(c) \/ Pausing(c) \/ Resuming(c) \/ Dispatch(c)
           \/ Completed(c) \/ StepFailed(c) \/ Failing(c) \/ End(c) \/ Ending(c)
  <2>1. \A r, next, failed : Persist(c, r, next, failed) => stored' = stored \/ Fresh(c)
    OBVIOUS
  <2>2. run[c].at \in Working \cup {"start"}
    BY <1>1 DEF SaveStart, Cancelled, Pausing, Resuming, Dispatch, Completed, StepFailed, Failing,
                End, Ending
  <2>3. stored' = stored \/ Fresh(c)
    <3> HIDE DEF Persist, Fresh
    <3> QED
      BY <1>1, <2>1 DEF SaveStart, Cancelled, Pausing, Resuming, Dispatch, Completed, StepFailed,
                        Failing, FailExecution, End, Ending
  <2> QED
    BY <2>2, <2>3
<1>2. CASE \/ Detach(c) \/ Announce(c) \/ TakePause(c) \/ Told(c) \/ TakeResume(c) \/ Retold(c)
           \/ Proceed(c) \/ Skip(c) \/ Started(c) \/ Execute(c) \/ Finished(c) \/ Close(c)
  BY <1>2 DEF Detach, Announce, TakePause, Told, TakeResume, Retold, Proceed, Skip, Started,
              Execute, Finished, Close
<1> QED
  BY <1>1, <1>2 DEF Loop

\* What is stored as ended stays as it ended: neither a run that goes on nor a recovery
\* writes over it.
THEOREM EndsStay == Kept => (Spec => EndIsFinal)
<1> SUFFICES ASSUME Kept PROVE Spec => EndIsFinal
  OBVIOUS
<1>1. ASSUME WorkflowInv, [Next]_workflow_vars, stored.status \in Terminal
      PROVE  UNCHANGED stored
  <2>1. ASSUME NEW c \in Callers, Loop(c) PROVE UNCHANGED stored
    <3>1. Matches(c)
      BY <1>1, <2>1 DEF WorkflowInv, CallerInv
    <3> QED
      BY <1>1, <2>1, <3>1, WhoStores, NotEnded
  <2> QED
    BY <1>1, <2>1
    DEF Next, workflow_vars, RunAsync, Claim, Read, Recover, Refuse, Pause, Resume, Cancel,
        CleanupCompleted, Crash
<1>2. Kept => (Spec => []WorkflowInv)
  BY WorkflowIsSound
<1> QED
  BY <1>1, <1>2, PTL DEF Spec, EndIsFinal
=============================================================================
