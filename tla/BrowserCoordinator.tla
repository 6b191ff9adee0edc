-------------------------- MODULE BrowserCoordinator --------------------------
(***************************************************************************)
(* The coordinator of one browser profile (src/browserruntime/             *)
(* coordinator.go): tasks queue for the profile's gate, work under a       *)
(* lease, and finish; sessions are closed and replaced under them.         *)
(*                                                                         *)
(* A call is a goroutine in one method of the coordinator or of a lease.   *)
(* c.mu makes every look at the profile's state one step; a driver call is *)
(* under way while its caller is at a place of Driving and then returns an *)
(* answer, an error, or an UnknownCallError, after which the action may    *)
(* still go on in the browser until Quiesce or the end of the session.     *)
(* A task has at most one page of its own; coordinates, screenshots and    *)
(* which page is shown are left out.                                       *)
(***************************************************************************)
EXTENDS Naturals, FiniteSets

CONSTANTS
  Tasks,      \* task identities
  Owner,      \* task -> the user it belongs to
  Calls,      \* goroutines that call on behalf of tasks
  Closers,    \* goroutines that close or replace the session
  NoTask,     \* no task
  MaxGen,     \* sessions ever registered
  MaxLeases   \* leases ever made

\* What the constants have to satisfy.
BrowserConstants ==
  /\ Calls \cap Closers = {} /\ NoTask \notin Tasks /\ DOMAIN Owner = Tasks
  /\ MaxGen \in Nat \ {0} /\ MaxLeases \in Nat

VARIABLES
  gen, live,   \* state.ref.Generation, state.live
  gate,        \* the token is in state.gate
  transition,  \* the token is in state.transition
  stopped,     \* generations confirmed stopped
  stranded,    \* the generation whose stranded Bind keeps the gate, or 0
  active,      \* the active lease, or 0
  chooser,     \* the task whose page shows a file chooser, or NoTask
  unknown,     \* c.unknownTasks
  bound,       \* task -> the generation its binding names, or 0
  owned,       \* task -> the generation its own page belongs to, or 0
  lease,       \* the leases made
  call,        \* call -> where it is and what for
  loose        \* generations in which an unknown action may still go on

browser_vars == <<gen, live, gate, transition, stopped, stranded, active, chooser, unknown,
                  bound, owned, lease, call, loose>>

profile == <<gen, live, transition, stopped, stranded>>
tasks   == <<unknown, bound, owned>>

Gens   == 1 .. MaxGen
Leases == 1 .. MaxLeases

NoLease == [task |-> NoTask, gen |-> 0, inner |-> FALSE, free |-> FALSE, released |-> TRUE,
            uncertain |-> FALSE]
Rest    == [at |-> "idle", kind |-> "none", task |-> NoTask, gen |-> 0, lease |-> 0, new |-> FALSE]

Init ==
  /\ gen = 1 /\ live = TRUE /\ gate = TRUE /\ transition = TRUE
  /\ stopped = {} /\ stranded = 0 /\ active = 0 /\ chooser = NoTask
  /\ unknown = {} /\ loose = {}
  /\ bound = [t \in Tasks |-> 0] /\ owned = [t \in Tasks |-> 0]
  /\ lease = [l \in Leases |-> NoLease]
  /\ call = [k \in Calls \cup Closers |-> Rest]

Made == {l \in Leases : lease[l].task # NoTask}

Current(g) == live /\ g = gen

Goes(k, place) == call' = [call EXCEPT ![k].at = place]
Returns(k)     == call' = [call EXCEPT ![k] = Rest]

\* A chooser and a lease belong together when their owner and session do.
Pending(t) == chooser # NoTask /\ Owner[chooser] = Owner[t]

----------------------------------------------------------------------------
(* Acquire and Inspect.                                                    *)

\* Acquire selects the live session; a binding of an earlier one is stale.
Acquire(k) ==
  /\ call[k].at = "idle" /\ live
  /\ \E t \in Tasks, reuse \in BOOLEAN :
       /\ reuse => bound[t] = gen
       /\ call' = [call EXCEPT ![k] = [Rest EXCEPT !.at = "queued", !.kind = "acquire",
                                                   !.task = t, !.gen = gen, !.new = ~reuse]]
  /\ UNCHANGED <<profile, gate, active, chooser, tasks, lease, loose>>

\* Inspect waits for the active lease, if it is its task's, or for the gate.
Inspect(k) ==
  /\ call[k].at = "idle" /\ live
  /\ \E place \in {"queued"} \cup (IF active # 0 THEN {"looking"} ELSE {}) :
       call' = [call EXCEPT ![k] = IF place = "queued"
                THEN [Rest EXCEPT !.at = place, !.kind = "inspect", !.gen = gen]
                ELSE [Rest EXCEPT !.at = place, !.kind = "inspect", !.lease = active]]
  /\ UNCHANGED <<profile, gate, active, chooser, tasks, lease, loose>>

TakeGate(k) ==
  /\ call[k].at = "queued" /\ gate
  /\ gate' = FALSE
  /\ call' = [call EXCEPT ![k].at = IF call[k].kind = "finish" THEN "entering" ELSE "gated"]
  /\ UNCHANGED <<profile, active, chooser, tasks, lease, loose>>

\* The waiter's context ends.
Leave(k) ==
  /\ call[k].at \in {"queued", "looking"}
  /\ Returns(k)
  /\ UNCHANGED <<profile, gate, active, chooser, tasks, lease, loose>>

\* The chooser is asked about before the wait for the gate only.
FaultyAdmit(k) ==
  /\ call[k].at = "gated"
  /\ \/ /\ Current(call[k].gen)
        /\ Goes(k, IF call[k].kind = "inspect" THEN "inspecting" ELSE "binding")
        /\ UNCHANGED gate
     \/ gate' = TRUE /\ Returns(k)
  /\ UNCHANGED <<profile, active, chooser, tasks, lease, loose>>

\* With the gate: gone on in the same session, past nobody else's chooser, or
\* returned.  The owner of a pending chooser goes on without a new Bind.
Admit(k) ==
  /\ call[k].at = "gated"
  /\ \/ /\ Current(call[k].gen) /\ chooser = NoTask
        /\ Goes(k, IF call[k].kind = "inspect" THEN "inspecting" ELSE "binding")
        /\ UNCHANGED gate
     \/ /\ Current(call[k].gen) /\ call[k].kind = "acquire" /\ Pending(call[k].task)
        /\ call' = [call EXCEPT ![k].at = "publishing", ![k].new = FALSE]
        /\ UNCHANGED gate
     \/ /\ gate' = TRUE /\ Returns(k)
  /\ UNCHANGED <<profile, active, chooser, tasks, lease, loose>>

Inspected(k) ==
  /\ call[k].at = "inspecting"
  /\ gate' = TRUE /\ Returns(k)
  /\ UNCHANGED <<profile, active, chooser, tasks, lease, loose>>

\* Bind answers or fails.
Bound(k) ==
  /\ call[k].at = "binding"
  /\ \/ Goes(k, "publishing") /\ UNCHANGED gate
     \/ gate' = TRUE /\ Returns(k)
  /\ UNCHANGED <<profile, active, chooser, tasks, lease, loose>>

\* Bind's outcome is unknown: the gate stays taken until the session stops.
Strand(k) ==
  /\ call[k].at = "binding"
  /\ IF call[k].gen \in stopped
     THEN gate' = TRUE /\ UNCHANGED <<stranded, loose>>
     ELSE stranded' = call[k].gen /\ loose' = loose \cup {call[k].gen} /\ UNCHANGED gate
  /\ Returns(k)
  /\ UNCHANGED <<gen, live, transition, stopped, active, chooser, tasks, lease>>

NewLease(t, g, inner) ==
  \E l \in Leases \ Made :
    /\ \A m \in Leases \ Made : l <= m
    /\ lease' = [lease EXCEPT ![l] = [task |-> t, gen |-> g, inner |-> inner, free |-> TRUE,
                                      released |-> FALSE, uncertain |-> t \in unknown]]
    /\ active' = l

\* The lease is published if the session is still the one that was bound.
Publish(k) ==
  /\ call[k].at = "publishing"
  /\ LET t == call[k].task
     IN  IF Current(call[k].gen)
         THEN /\ NewLease(t, gen, FALSE)
              /\ bound' = [bound EXCEPT ![t] = gen]
              /\ owned' = [owned EXCEPT ![t] = IF call[k].new THEN gen ELSE @]
              /\ UNCHANGED gate
         ELSE gate' = TRUE /\ UNCHANGED <<lease, active, bound, owned>>
  /\ Returns(k)
  /\ UNCHANGED <<profile, chooser, unknown, loose>>

----------------------------------------------------------------------------
(* Working under a lease.  lockOperation lets one call at a time work.     *)

Lock(k, l, place) ==
  /\ lease[l].free
  /\ lease' = [lease EXCEPT ![l].free = FALSE]
  /\ call' = [call EXCEPT ![k].at = place, ![k].lease = l, ![k].gen = lease[l].gen,
                          ![k].task = lease[l].task]

Unlock(k) == lease' = [lease EXCEPT ![call[k].lease].free = TRUE]

\* A lease somebody was given; the one FinishTask makes for itself is not.
Given(l) == l \in Made /\ ~lease[l].released /\ ~lease[l].inner

\* Execute, Observe and Reconcile begin.
Work(k) ==
  /\ call[k].at = "idle"
  /\ \E l \in Leases : Given(l) /\ Lock(k, l, "locked")
  /\ UNCHANGED <<profile, gate, active, chooser, tasks, loose>>

MyLease(k) == lease[call[k].lease]

\* Inspect on the lease that was active.
Look(k) ==
  /\ call[k].at = "looking" /\ MyLease(k).free
  /\ IF MyLease(k).released THEN Returns(k) /\ UNCHANGED lease
                            ELSE Lock(k, call[k].lease, "locked")
  /\ UNCHANGED <<profile, gate, active, chooser, tasks, loose>>

Looks(k) == call[k].kind = "inspect"

\* The session a call works in.
Session(k) == IF call[k].lease = 0 THEN call[k].gen ELSE MyLease(k).gen

Upload(k) == Pending(call[k].task)

\* Execute: in the lease's session, with nothing uncertain; with a chooser
\* pending only the upload.  Observe is not for a pending chooser.
Begin(k) ==
  /\ call[k].at = "locked"
  /\ \/ /\ Current(MyLease(k).gen) /\ ~MyLease(k).uncertain /\ ~Looks(k)
        /\ Goes(k, IF Upload(k) THEN "uploading" ELSE "acting") /\ UNCHANGED lease
     \/ /\ Current(MyLease(k).gen) /\ ~Pending(call[k].task)
        /\ Goes(k, "observing") /\ UNCHANGED lease
     \/ /\ Current(MyLease(k).gen) /\ MyLease(k).uncertain /\ ~Looks(k)
        /\ Goes(k, "quiescing") /\ UNCHANGED lease
     \/ Unlock(k) /\ Returns(k)
  /\ UNCHANGED <<profile, gate, active, chooser, tasks, loose>>

\* The action answers: a chooser opens, or the one there was is done with.
Acted(k) ==
  /\ call[k].at \in {"acting", "uploading"}
  /\ \/ /\ Current(MyLease(k).gen)
        /\ chooser' \in {call[k].task, IF Pending(call[k].task) THEN NoTask ELSE chooser}
     \/ UNCHANGED chooser      \* an error, or the session is not the same
  /\ Unlock(k) /\ Returns(k)
  /\ UNCHANGED <<profile, gate, active, tasks, loose>>

\* ConfirmSessionStopped: a stranded Bind gives the gate back.
Confirm(g) ==
  /\ stopped' = stopped \cup {g}
  /\ loose' = loose \ {g}
  /\ chooser' = IF g = gen THEN NoTask ELSE chooser
  /\ live' = (live /\ g # gen)
  /\ stranded' = IF stranded = g THEN 0 ELSE stranded
  /\ gate' = (gate \/ stranded = g)

\* The action was browser_close.
BrowserClosed(k) ==
  /\ call[k].at = "acting" /\ Current(MyLease(k).gen)
  /\ Confirm(MyLease(k).gen)
  /\ Unlock(k) /\ Returns(k)
  /\ UNCHANGED <<gen, transition, active, tasks>>

Observed(k) ==
  /\ call[k].at = "observing"
  /\ Unlock(k) /\ Returns(k)
  /\ UNCHANGED <<profile, gate, active, chooser, tasks, loose>>

\* markUnknown: what was asked of the browser may still go on.
MarkUnknown(k) ==
  /\ unknown' = unknown \cup {call[k].task}
  /\ loose' = loose \cup ({MyLease(k).gen} \ stopped)

Unknown(k) ==
  /\ call[k].at \in {"acting", "uploading", "observing"} /\ ~Looks(k)
  /\ MarkUnknown(k)
  /\ lease' = [lease EXCEPT ![call[k].lease].uncertain = TRUE, ![call[k].lease].free = TRUE]
  /\ Returns(k)
  /\ UNCHANGED <<profile, gate, active, chooser, bound, owned>>

\* Reconcile: Quiesce succeeds, and the host verifies what the page shows;
\* or one of them fails.
Reconciled(k) ==
  /\ call[k].at = "quiescing"
  /\ \/ /\ loose' = loose \ {MyLease(k).gen}
        /\ unknown' = unknown \ {call[k].task}
        /\ lease' = [lease EXCEPT ![call[k].lease].uncertain = FALSE, ![call[k].lease].free = TRUE]
     \/ /\ loose' \in {loose, loose \ {MyLease(k).gen}}
        /\ Unlock(k) /\ UNCHANGED unknown
  /\ Returns(k)
  /\ UNCHANGED <<profile, gate, active, chooser, bound, owned>>

----------------------------------------------------------------------------
(* Release.  It waits for the operation under way, and an uncertain lease  *)
(* whose session runs for Quiesce.                                         *)

Release(k) ==
  /\ call[k].at = "idle"
  /\ \E l \in Leases : Given(l) /\
       call' = [call EXCEPT ![k] = [Rest EXCEPT !.at = "releasing", !.kind = "release", !.lease = l]]
  /\ UNCHANGED <<profile, gate, active, chooser, tasks, lease, loose>>

\* Where the caller of lease.Release goes on.
After(k) == IF call[k].kind = "close" THEN [call[k] EXCEPT !.at = "draining"] ELSE Rest

Freed(k) ==
  /\ lease' = [lease EXCEPT ![call[k].lease].released = TRUE, ![call[k].lease].free = TRUE]
  /\ active' = IF active = call[k].lease THEN 0 ELSE active
  /\ gate' = TRUE
  /\ call' = [call EXCEPT ![k] = After(k)]

\* A lease that a closer released while its task waited is released again.
FaultyDoRelease(k) ==
  /\ call[k].at = "releasing" /\ MyLease(k).free
  /\ Freed(k)
  /\ UNCHANGED <<profile, chooser, tasks, loose>>

\* An uncertain lease is given back without Quiesce.
UnsettledDoRelease(k) ==
  /\ call[k].at = "releasing" /\ MyLease(k).free
  /\ IF MyLease(k).released
     THEN call' = [call EXCEPT ![k] = After(k)] /\ UNCHANGED <<lease, active, gate>>
     ELSE Freed(k)
  /\ UNCHANGED <<profile, chooser, tasks, loose>>

DoRelease(k) ==
  /\ call[k].at = "releasing" /\ MyLease(k).free
  /\ CASE MyLease(k).released ->
            call' = [call EXCEPT ![k] = After(k)] /\ UNCHANGED <<lease, active, gate>>
       [] ~MyLease(k).released /\ MyLease(k).uncertain /\ MyLease(k).gen \notin stopped ->
            /\ lease' = [lease EXCEPT ![call[k].lease].free = FALSE]
            /\ Goes(k, "settling") /\ UNCHANGED <<active, gate>>
       [] OTHER -> Freed(k)
  /\ UNCHANGED <<profile, chooser, tasks, loose>>

\* Quiesce in Release: quiet, and the lease ends; or not, and it stays.
Settled(k) ==
  /\ call[k].at = "settling"
  /\ \/ Freed(k) /\ loose' = loose \ {MyLease(k).gen}
     \/ Unlock(k) /\ Returns(k) /\ UNCHANGED <<active, gate, loose>>
  /\ UNCHANGED <<profile, chooser, tasks>>

----------------------------------------------------------------------------
(* FinishTask, on the active lease of the task or on one made for it.      *)

Forget(t) ==
  /\ bound' = [bound EXCEPT ![t] = 0] /\ owned' = [owned EXCEPT ![t] = 0]
  /\ unknown' = unknown \ {t}

Finish(k) ==
  /\ call[k].at = "idle"
  /\ \E t \in Tasks :
       /\ bound[t] # 0
       /\ call' = [call EXCEPT ![k] =
            IF active # 0 /\ lease[active].task = t
            THEN [Rest EXCEPT !.at = "finishing", !.kind = "finish", !.task = t, !.lease = active]
            ELSE [Rest EXCEPT !.at = "queued", !.kind = "finish", !.task = t, !.gen = bound[t]]]
  /\ UNCHANGED <<profile, gate, active, chooser, tasks, lease, loose>>

\* With the gate, a lease of the session the task was bound to.
Enter(k) ==
  /\ call[k].at = "entering"
  /\ NewLease(call[k].task, call[k].gen, TRUE)
  /\ call' = [call EXCEPT ![k].at = "finishing", ![k].lease = active']
  /\ UNCHANGED <<profile, gate, chooser, tasks, loose>>

\* Lease.FinishTask up to its first driver call: nothing to close, a chooser
\* of its own page to cancel first, or the page to close.
ToRelease(k) ==
  call' = [call EXCEPT ![k] = [Rest EXCEPT !.at = "releasing", !.kind = "release",
                                           !.lease = call[k].lease]]

\* The lease has ended, or it is uncertain.
Refused(k) == MyLease(k).released \/ (MyLease(k).uncertain /\ MyLease(k).gen \notin stopped)

NeedsClose(k) == owned[call[k].task] = MyLease(k).gen /\ MyLease(k).gen \notin stopped

Cleanup(k) ==
  /\ call[k].at = "finishing" /\ MyLease(k).free
  /\ LET t == call[k].task
     IN  IF Refused(k)
         THEN ToRelease(k) /\ UNCHANGED <<lease, tasks>>
         ELSE \/ ToRelease(k) /\ Forget(t) /\ UNCHANGED lease  \* nothing to close, or retained
              \/ /\ NeedsClose(k)
                 /\ IF Current(MyLease(k).gen) /\ chooser \in {NoTask, t}
                    THEN /\ lease' = [lease EXCEPT ![call[k].lease].free = FALSE]
                         /\ Goes(k, IF chooser = t THEN "cancelling" ELSE "closing")
                    ELSE ToRelease(k) /\ UNCHANGED lease
                 /\ UNCHANGED tasks
  /\ UNCHANGED <<profile, gate, active, chooser, loose>>

\* The chooser is cancelled, and the page closed if the session is the same.
ChooserCancelled(k) ==
  /\ call[k].at = "cancelling"
  /\ \/ /\ chooser' = IF chooser = call[k].task THEN NoTask ELSE chooser
        /\ IF Current(MyLease(k).gen) THEN Goes(k, "closing") /\ UNCHANGED lease
                                      ELSE ToRelease(k) /\ Unlock(k)
     \/ ToRelease(k) /\ Unlock(k) /\ UNCHANGED chooser
  /\ UNCHANGED <<profile, gate, active, tasks, loose>>

PageClosed(k) ==
  /\ call[k].at = "closing"
  /\ \/ Forget(call[k].task)
     \/ UNCHANGED tasks
  /\ ToRelease(k) /\ Unlock(k)
  /\ UNCHANGED <<profile, gate, active, chooser, loose>>

CleanupUnknown(k) ==
  /\ call[k].at \in {"cancelling", "closing"}
  /\ MarkUnknown(k)
  /\ lease' = [lease EXCEPT ![call[k].lease].uncertain = TRUE, ![call[k].lease].free = TRUE]
  /\ ToRelease(k)
  /\ UNCHANGED <<profile, gate, active, chooser, bound, owned>>

----------------------------------------------------------------------------
(* Closing and replacing the session.                                      *)

\* By the manager that saw the connection end.
ConfirmSessionStopped ==
  /\ gen \notin stopped
  /\ Confirm(gen)
  /\ UNCHANGED <<gen, transition, active, tasks, lease, call>>

\* CloseSession alone, or in BeginReplacement with the transition's token:
\* nobody gets a lease any more, and the active one is noted.
Close(z) ==
  /\ call[z].at = "idle"
  /\ \E replace \in BOOLEAN :
       /\ replace => transition /\ gen < MaxGen
       /\ transition' = (transition /\ ~replace)
       /\ call' = [call EXCEPT ![z] = [Rest EXCEPT !.at = "stopping", !.kind = "close",
                                         !.gen = gen, !.lease = active, !.new = replace]]
  /\ live' = FALSE
  /\ UNCHANGED <<gen, stopped, stranded, gate, active, chooser, tasks, lease, loose>>

StopSession(z) ==
  /\ call[z].at = "stopping"
  /\ Goes(z, "confirming")
  /\ UNCHANGED <<profile, gate, active, chooser, tasks, lease, loose>>

\* stop fails: the session is no longer live, and not confirmed stopped.
StopFails(z) ==
  /\ call[z].at = "stopping"
  /\ transition' = (transition \/ call[z].new)
  /\ Returns(z)
  /\ UNCHANGED <<gen, live, stopped, stranded, gate, active, chooser, tasks, lease, loose>>

CloseConfirms(z) ==
  /\ call[z].at = "confirming"
  /\ Confirm(call[z].gen)
  /\ Goes(z, IF call[z].lease = 0 THEN "draining" ELSE "releasing")
  /\ UNCHANGED <<gen, transition, active, tasks, lease>>

\* A closer that found no active lease does not wait for the gate.
FaultyDrained(z) ==
  /\ call[z].at = "draining"
  /\ IF call[z].new THEN Goes(z, "connecting") ELSE Returns(z)
  /\ UNCHANGED <<profile, gate, active, chooser, tasks, lease, loose>>

\* The gate is taken and given back: no call of the old session is left.
Drained(z) ==
  /\ call[z].at = "draining" /\ gate
  /\ IF call[z].new THEN Goes(z, "connecting") ELSE Returns(z)
  /\ UNCHANGED <<profile, gate, active, chooser, tasks, lease, loose>>

\* finish: RegisterSession of the next generation, or no connection.
Finished(z) ==
  /\ call[z].at = "connecting"
  /\ \/ gen' = gen + 1 /\ live' = TRUE /\ chooser' = NoTask
     \/ UNCHANGED <<gen, live, chooser>>
  /\ transition' = TRUE
  /\ Returns(z)
  /\ UNCHANGED <<stopped, stranded, gate, active, tasks, lease, loose>>

----------------------------------------------------------------------------
\* What a call does on its own once it has begun.
Go(k) ==
  \/ TakeGate(k) \/ Admit(k) \/ Inspected(k) \/ Bound(k) \/ Strand(k) \/ Publish(k)
  \/ Look(k) \/ Begin(k) \/ Acted(k) \/ BrowserClosed(k) \/ Observed(k) \/ Unknown(k) \/ Reconciled(k)
  \/ DoRelease(k) \/ Settled(k) \/ Enter(k) \/ Cleanup(k) \/ ChooserCancelled(k)
  \/ PageClosed(k) \/ CleanupUnknown(k)

CloserGo(z) ==
  StopSession(z) \/ StopFails(z) \/ CloseConfirms(z) \/ DoRelease(z) \/ Settled(z)
  \/ Drained(z) \/ Finished(z)

Next ==
  \/ \E k \in Calls : \/ Acquire(k) \/ Inspect(k) \/ Leave(k) \/ Work(k) \/ Release(k)
                      \/ Finish(k) \/ Go(k)
  \/ \E z \in Closers : Close(z) \/ CloserGo(z)
  \/ ConfirmSessionStopped

Spec == Init /\ [][Next]_browser_vars

----------------------------------------------------------------------------
Holding  == {"gated", "inspecting", "binding", "publishing", "entering"}
Places   == Holding \cup {"idle", "queued", "looking", "locked", "acting", "uploading", "observing",
              "quiescing", "releasing", "settling", "finishing", "cancelling", "closing",
              "stopping", "confirming", "draining", "connecting"}

TypeOK ==
  /\ gen \in Gens /\ stopped \subseteq Gens /\ loose \subseteq Gens /\ stranded \in 0 .. MaxGen
  /\ {live, gate, transition} \subseteq BOOLEAN
  /\ active \in {0} \cup Made /\ chooser \in Tasks \cup {NoTask} /\ unknown \subseteq Tasks
  /\ bound \in [Tasks -> 0 .. MaxGen] /\ owned \in [Tasks -> 0 .. MaxGen]
  /\ \A k \in Calls \cup Closers : call[k].at \in Places /\ call[k].lease \in {0} \cup Made

(* The profile's gate is never lost and never doubled: its token is in the *)
(* channel, or exactly one call, lease or stranded Bind keeps it, whatever *)
(* is cancelled, closed, stopped or finished in between.  A second token   *)
(* would block ConfirmSessionStopped with the coordinator's lock held.     *)
GateIsConserved ==
  Cardinality({k \in Calls : call[k].at \in Holding})
    + Cardinality({l \in Made : ~lease[l].released})
    + (IF stranded # 0 THEN 1 ELSE 0) = (IF gate THEN 0 ELSE 1)

(* No action, upload or page cleanup is sent to a session in which an      *)
(* action of unknown outcome may still be going on, whichever task left it *)
(* there and however often leases changed hands.                           *)
NothingBesideUnknown == \A k \in Calls :
  call[k].at \in {"acting", "uploading", "cancelling", "closing", "binding"}
    => Session(k) \notin loose

(* Once a replacement may connect, no call of an older session is under    *)
(* way: old and new never work on the profile at once.                     *)
ClosedIsQuiet == \A k \in Calls :
  call[k].at \in {"acting", "uploading", "observing", "binding", "inspecting", "cancelling",
                  "closing", "quiescing", "settling"}
    => /\ Session(k) = gen
       /\ \A z \in Closers : call[z].at = "connecting" => call[z].gen # gen

(* A file chooser is left to its owner: while it is shown, nobody of       *)
(* another owner acts on the profile, binds a page or, but for an Inspect  *)
(* on a lease that FinishTask made for itself, looks at one.               *)
ChooserIsTheOwners == \A k \in Calls :
  call[k].at \in {"acting", "uploading", "observing", "cancelling", "closing", "binding",
                  "inspecting"}
    => \/ chooser = NoTask
       \/ call[k].task # NoTask /\ Owner[chooser] = Owner[call[k].task]
       \/ call[k].at = "observing" /\ Looks(k) /\ MyLease(k).inner
=============================================================================
