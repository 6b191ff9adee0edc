------------------------------ MODULE A2AServer ------------------------------
(***************************************************************************)
(* The agent-to-agent server of src/agent/a2a: server.go, with the         *)
(* execution registry and commitTask of protocol_http.go, the timeout      *)
(* middleware of handler.go and the in-memory store of store.go.           *)
(*                                                                         *)
(* Requests run tasks, blocking or streaming; cancellations end them;      *)
(* subscribers follow them through bounded channels; Stop ends the server  *)
(* while all of these are under way.  A task is its state: messages,       *)
(* history and artifacts are left out.  s.mu makes each of Admit, Commit,  *)
(* CancelCommit, Subscribe, Leave, a broadcast and CancelAll one step; the *)
(* broadcast of a change comes after the unlock, as a step of its own.     *)
(***************************************************************************)
EXTENDS Naturals, FiniteSets, SequencesExt

CONSTANTS
  Tasks,       \* task ids, each created at most once
  Reqs,        \* connections that send messages, one request at a time
  Cancellers,  \* connections that cancel tasks
  Subs,        \* connections that subscribe to tasks
  NoReq,       \* no execution
  Cap          \* capacity of a subscriber's channel (100 in the code)

\* What the constants have to satisfy.
A2AConstants == NoReq \notin Reqs /\ Cap \in Nat \ {0}

VARIABLES
  task,       \* task -> its state in the store
  exec,       \* task -> the request registered as its execution
  cancelled,  \* requests whose context is cancelled
  req,        \* connection -> its message request
  work,       \* requests whose handler, worker or producer still runs
  canceller,  \* connection -> its cancel request
  subs,       \* task -> the subscribers notifySubscribers reaches, in order
  sub,        \* connection -> its subscription
  server      \* where Start and Stop have brought the server

a2a_vars == <<task, exec, cancelled, req, work, canceller, subs, sub, server>>

Terminal == {"completed", "failed", "canceled"}
Open     == {"submitted", "working", "input"}

\* Events after which a stream ends.
Final(e) == e \in Terminal \cup {"input", "error"}

Idle    == [at |-> "idle", task |-> CHOOSE t \in Tasks : TRUE, stream |-> FALSE, local |-> "none"]
NoSub   == [at |-> "idle", task |-> CHOOSE t \in Tasks : TRUE, chan |-> <<>>, closed |-> FALSE]

Init ==
  /\ task = [t \in Tasks |-> "none"]
  /\ exec = [t \in Tasks |-> NoReq]
  /\ cancelled = {} /\ work = {}
  /\ req = [q \in Reqs |-> Idle]
  /\ canceller = [c \in Cancellers |-> Idle]
  /\ subs = [t \in Tasks |-> <<>>]
  /\ sub = [u \in Subs |-> NoSub]
  /\ server = "serving"

----------------------------------------------------------------------------
(* Sending a message.                                                      *)

\* getOrCreateTask
Send(q) ==
  /\ server = "serving"
  /\ req[q].at = "idle"
  /\ \E t \in Tasks, stream \in BOOLEAN :
       /\ task[t] \in Open \cup {"none"}
       /\ task' = [task EXCEPT ![t] = IF @ = "none" THEN "submitted" ELSE @]
       /\ req' = [req EXCEPT ![q] = [at |-> "arrived", task |-> t, stream |-> stream,
                                     local |-> "none"]]
  /\ UNCHANGED <<exec, cancelled, work, canceller, subs, sub, server>>

\* beginExecution: one execution for a task, none for a terminal one or once
\* the server stops, none for a caller that is gone.
Admit(q) ==
  /\ req[q].at = "arrived"
  /\ LET t == req[q].task
     IN  IF exec[t] = NoReq /\ task[t] \in Open /\ q \notin cancelled /\ server = "serving"
         THEN /\ exec' = [exec EXCEPT ![t] = q]
              /\ req' = [req EXCEPT ![q].at = "accepting"]
              /\ UNCHANGED cancelled
         ELSE /\ req' = [req EXCEPT ![q] = Idle]
              /\ cancelled' = cancelled \ {q}
              /\ UNCHANGED exec
  /\ UNCHANGED <<task, work, canceller, subs, sub, server>>

\* commitTask: a terminal task is not overwritten, it replaces the caller's view.
Committed(q, s) ==
  LET t == req[q].task IN task' = IF task[t] \in Terminal THEN task ELSE [task EXCEPT ![t] = s]

View(q, s) == IF task[req[q].task] \in Terminal THEN task[req[q].task] ELSE s

Accept(q) ==
  /\ req[q].at = "accepting"
  /\ \/ /\ task[req[q].task] \in Open
        /\ Committed(q, "working")
        /\ req' = [req EXCEPT ![q].at = "handling"]
        /\ work' = work \cup {q}
     \/ /\ task[req[q].task] \in Terminal \cup {"gone"}
        /\ req' = [req EXCEPT ![q].at = "releasing"]
        /\ UNCHANGED <<task, work>>
  /\ UNCHANGED <<exec, cancelled, canceller, subs, sub, server>>

(* The handler answers.  A blocking handler that returns neither an end    *)
(* nor an interruption has failed; under the timeout middleware the answer *)
(* is a failure while the worker goes on.  A stream delivers updates, and  *)
(* has failed when it ends before a final one.                             *)
Answer(q) ==
  /\ req[q].at = "handling"
  /\ \E s \in {"working", "input", "completed", "failed"} :
       /\ req' = [req EXCEPT ![q].at = "committing", ![q].local = s]
       /\ \/ /\ ~req[q].stream /\ s # "working"
             /\ work' = work \ {q}
          \/ /\ ~req[q].stream /\ s = "failed"
             /\ UNCHANGED work
          \/ /\ req[q].stream /\ q \in work
             /\ UNCHANGED work
          \/ /\ req[q].stream /\ q \notin work /\ s = "failed"
             /\ UNCHANGED work
  /\ UNCHANGED <<task, exec, cancelled, canceller, subs, sub, server>>

\* A blocking handler panics, or the stream's context ends.
Break(q) ==
  /\ req[q].at = "handling"
  /\ \/ ~req[q].stream /\ work' = work \ {q}
     \/ req[q].stream /\ q \in cancelled /\ UNCHANGED work
  /\ req' = [req EXCEPT ![q].at = "releasing"]
  /\ UNCHANGED <<task, exec, cancelled, canceller, subs, sub, server>>

Commit(q) ==
  /\ req[q].at = "committing"
  /\ IF task[req[q].task] = "gone"
     THEN req' = [req EXCEPT ![q].at = "releasing"] /\ UNCHANGED task
     ELSE /\ Committed(q, req[q].local)
          /\ req' = [req EXCEPT ![q].at = "notifying", ![q].local = View(q, req[q].local)]
  /\ UNCHANGED <<exec, cancelled, work, canceller, subs, sub, server>>

(* notifySubscribers: a full channel loses its oldest event to an error    *)
(* and its subscriber is dropped.                                          *)
Room(u) == Len(sub[u].chan) < Cap

Broadcast(t, e) ==
  /\ sub' = [u \in Subs |->
       IF u \notin ToSet(subs[t]) THEN sub[u]
       ELSE [sub[u] EXCEPT !.chan = IF Room(u) THEN Append(@, e) ELSE Append(Tail(@), "error")]]
  /\ subs' = [subs EXCEPT ![t] = SelectSeq(@, Room)]

Notify(q) ==
  /\ req[q].at = "notifying"
  /\ Broadcast(req[q].task, req[q].local)
  /\ req' = [req EXCEPT ![q].at = IF req[q].stream /\ ~Final(req[q].local)
                                  THEN "handling" ELSE "releasing"]
  /\ UNCHANGED <<task, exec, cancelled, work, canceller, server>>

\* The request returns; its execution stays registered while work goes on.
Release(q) ==
  /\ req[q].at = "releasing"
  /\ req' = [req EXCEPT ![q].at = "released"]
  /\ cancelled' = cancelled \cup {q}
  /\ UNCHANGED <<task, exec, work, canceller, subs, sub, server>>

WorkEnds(q) ==
  /\ q \in work
  /\ req[q].stream \/ req[q].at # "handling"
  /\ work' = work \ {q}
  /\ UNCHANGED <<task, exec, cancelled, req, canceller, subs, sub, server>>

\* The execution is given up with the request, whatever still works.
FaultyComplete(q) ==
  /\ req[q].at = "released"
  /\ exec' = [exec EXCEPT ![req[q].task] = NoReq]
  /\ req' = [req EXCEPT ![q] = Idle]
  /\ cancelled' = cancelled \ {q}
  /\ UNCHANGED <<task, work, canceller, subs, sub, server>>

Complete(q) ==
  /\ req[q].at = "released"
  /\ q \notin work
  /\ exec' = [exec EXCEPT ![req[q].task] = NoReq]
  /\ req' = [req EXCEPT ![q] = Idle]
  /\ cancelled' = cancelled \ {q}
  /\ UNCHANGED <<task, work, canceller, subs, sub, server>>

\* The caller of a request disconnects.
Disconnect(q) ==
  /\ req[q].at \in {"arrived", "accepting", "handling"}
  /\ cancelled' = cancelled \cup {q}
  /\ UNCHANGED <<task, exec, req, work, canceller, subs, sub, server>>

----------------------------------------------------------------------------
(* Cancelling a task, and the store's removal of old terminal tasks.       *)

Cancel(c) ==
  /\ server = "serving"
  /\ canceller[c].at = "idle"
  /\ \E t \in Tasks : canceller' = [canceller EXCEPT ![c] = [@ EXCEPT !.at = "arrived", !.task = t]]
  /\ UNCHANGED <<task, exec, cancelled, req, work, subs, sub, server>>

CancelCommit(c) ==
  /\ canceller[c].at = "arrived"
  /\ LET t == canceller[c].task
     IN  IF task[t] \in Open
         THEN /\ task' = [task EXCEPT ![t] = "canceled"]
              /\ cancelled' = cancelled \cup ({exec[t]} \ {NoReq})
              /\ canceller' = [canceller EXCEPT ![c].at = "notifying"]
         ELSE /\ canceller' = [canceller EXCEPT ![c] = Idle]
              /\ UNCHANGED <<task, cancelled>>
  /\ UNCHANGED <<exec, req, work, subs, sub, server>>

CancelNotify(c) ==
  /\ canceller[c].at = "notifying"
  /\ Broadcast(canceller[c].task, "canceled")
  /\ canceller' = [canceller EXCEPT ![c] = Idle]
  /\ UNCHANGED <<task, exec, cancelled, req, work, server>>

\* cleanupExpiredTasks, or the room Create makes
Evict(t) ==
  /\ task[t] \in Terminal
  /\ task' = [task EXCEPT ![t] = "gone"]
  /\ UNCHANGED <<exec, cancelled, req, work, canceller, subs, sub, server>>

----------------------------------------------------------------------------
(* Following a task: handleResubscribe.                                    *)

Arrive(u) ==
  /\ server = "serving"
  /\ sub[u].at = "idle"
  /\ \E t \in Tasks : sub' = [sub EXCEPT ![u] = [NoSub EXCEPT !.at = "arrived", !.task = t]]
  /\ UNCHANGED <<task, exec, cancelled, req, work, canceller, subs, server>>

Subscribe(u) ==
  /\ sub[u].at = "arrived"
  /\ sub' = [sub EXCEPT ![u].at = "subscribed"]
  /\ subs' = [subs EXCEPT ![sub[u].task] = Append(@, u)]
  /\ UNCHANGED <<task, exec, cancelled, req, work, canceller, server>>

\* The task is read after the channel is registered.
Look(u) ==
  /\ sub[u].at = "subscribed"
  /\ sub' = [sub EXCEPT ![u].at = IF task[sub[u].task] \in Open THEN "streaming" ELSE "leaving"]
  /\ UNCHANGED <<task, exec, cancelled, req, work, canceller, subs, server>>

Read(u) ==
  /\ sub[u].at = "streaming"
  /\ sub[u].chan # <<>>
  /\ sub' = [sub EXCEPT ![u].chan = Tail(@),
                        ![u].at = IF Final(Head(sub[u].chan)) THEN "leaving" ELSE @]
  /\ UNCHANGED <<task, exec, cancelled, req, work, canceller, subs, server>>

\* The subscription does not watch the server.
FaultyEnded(u) ==
  /\ sub[u].at = "streaming"
  /\ sub[u].closed /\ sub[u].chan = <<>>
  /\ sub' = [sub EXCEPT ![u].at = "leaving"]
  /\ UNCHANGED <<task, exec, cancelled, req, work, canceller, subs, server>>

\* The channel is closed, or the server's subscription context has ended.
Ended(u) ==
  /\ sub[u].at = "streaming"
  /\ (sub[u].closed /\ sub[u].chan = <<>>) \/ server # "serving"
  /\ sub' = [sub EXCEPT ![u].at = "leaving"]
  /\ UNCHANGED <<task, exec, cancelled, req, work, canceller, subs, server>>

Leave(u) ==
  /\ sub[u].at = "leaving"
  /\ subs' = [subs EXCEPT ![sub[u].task] = SelectSeq(@, LAMBDA v : v # u)]
  /\ sub' = [sub EXCEPT ![u] = NoSub]
  /\ UNCHANGED <<task, exec, cancelled, req, work, canceller, server>>

----------------------------------------------------------------------------
(* Stopping the server, and starting it again.                             *)

\* stopping is set and the subscription context is cancelled.
Stop ==
  /\ server = "serving"
  /\ server' = "stopping"
  /\ UNCHANGED <<task, exec, cancelled, req, work, canceller, subs, sub>>

Registered(u) == \E t \in Tasks : u \in ToSet(subs[t])

\* What Shutdown waits for: every connection is idle, though workers may go on.
Answered == /\ \A q \in Reqs : req[q].at \in {"idle", "released"}
            /\ \A c \in Cancellers : canceller[c].at = "idle"
            /\ \A u \in Subs : sub[u].at = "idle"

\* Shutdown has returned: subscriber channels are closed and executions cancelled.
CancelAll ==
  /\ server' = "reclaiming"
  /\ sub' = [u \in Subs |-> IF Registered(u) THEN [sub[u] EXCEPT !.closed = TRUE] ELSE sub[u]]
  /\ subs' = [t \in Tasks |-> <<>>]
  /\ cancelled' = cancelled \cup {q \in Reqs : req[q].at # "idle"}
  /\ UNCHANGED <<task, exec, req, work, canceller>>

Reclaim == server = "stopping" /\ Answered /\ CancelAll

\* The context of Stop ends before Shutdown is through: the server's is cancelled too.
CutOff == server = "stopping" /\ CancelAll

\* wg: the requests of this server and the executions they registered.
Quiet == /\ \A q \in Reqs : req[q].at = "idle"
         /\ \A c \in Cancellers : canceller[c].at = "idle"
         /\ \A u \in Subs : sub[u].at = "idle"

StopDone ==
  /\ server = "reclaiming" /\ Quiet
  /\ server' = "stopped"
  /\ UNCHANGED <<task, exec, cancelled, req, work, canceller, subs, sub>>

Start ==
  /\ server = "stopped"
  /\ server' = "serving"
  /\ UNCHANGED <<task, exec, cancelled, req, work, canceller, subs, sub>>

----------------------------------------------------------------------------
Request(q) == Admit(q) \/ Accept(q) \/ Answer(q) \/ Commit(q) \/ Notify(q)
              \/ Release(q) \/ WorkEnds(q) \/ Complete(q)

Follow(u) == Subscribe(u) \/ Look(u) \/ Read(u) \/ Ended(u) \/ Leave(u)

Next ==
  \/ \E q \in Reqs : Send(q) \/ Request(q) \/ Break(q) \/ Disconnect(q)
  \/ \E c \in Cancellers : Cancel(c) \/ CancelCommit(c) \/ CancelNotify(c)
  \/ \E t \in Tasks : Evict(t)
  \/ \E u \in Subs : Arrive(u) \/ Follow(u)
  \/ Stop \/ Reclaim \/ CutOff \/ StopDone \/ Start

Spec == Init /\ [][Next]_a2a_vars

(* Requests that arrived proceed; a stream's producer is cancelled and     *)
(* returns, and so does a worker left behind by its timeout; subscribers   *)
(* read.  Nobody has to send, cancel, subscribe, disconnect or stop, and   *)
(* the context of a Stop need not end.                                     *)
Fairness ==
  /\ \A q \in Reqs : /\ WF_a2a_vars(Request(q) \/ Break(q))
                     /\ WF_a2a_vars(req[q].at \in {"releasing", "released"} /\ WorkEnds(q))
                     /\ SF_a2a_vars(q \in cancelled /\ Break(q))
  /\ \A c \in Cancellers : WF_a2a_vars(CancelCommit(c) \/ CancelNotify(c))
  /\ \A u \in Subs : WF_a2a_vars(Follow(u))
  /\ WF_a2a_vars(Reclaim \/ StopDone)

FairSpec == Spec /\ Fairness

----------------------------------------------------------------------------
TypeOK ==
  /\ task \in [Tasks -> Open \cup Terminal \cup {"none", "gone"}]
  /\ exec \in [Tasks -> Reqs \cup {NoReq}]
  /\ cancelled \subseteq Reqs /\ work \subseteq Reqs
  /\ \A q \in Reqs : /\ req[q].at \in {"idle", "arrived", "accepting", "handling", "committing",
                                       "notifying", "releasing", "released"}
                     /\ req[q].task \in Tasks
  /\ \A c \in Cancellers : canceller[c].at \in {"idle", "arrived", "notifying"}
  /\ \A u \in Subs : /\ sub[u].at \in {"idle", "arrived", "subscribed", "streaming", "leaving"}
                     /\ Len(sub[u].chan) <= Cap
  /\ \A t \in Tasks : ToSet(subs[t]) \subseteq Subs
  /\ server \in {"serving", "stopping", "reclaiming", "stopped"}

(* A terminal task is immutable: a late answer of its handler, another     *)
(* request or a second cancellation does not change it; it can only be     *)
(* removed.                                                                *)
TerminalIsFinal ==
  [][\A t \in Tasks : task[t] \in Terminal => task'[t] \in {task[t], "gone"}]_a2a_vars

(* At most one handler, worker or producer runs for a task, also when a    *)
(* request has timed out, lost its caller or stopped streaming while what  *)
(* it started goes on.                                                     *)
OneWorkerPerTask == \A q, r \in work : req[q].task = req[r].task => q = r

(* A subscriber of a task that has ended, or is gone, is told: its stream  *)
(* ends, whatever the order of its subscription, the commits and their     *)
(* notifications, and however full its channel was.                        *)
FollowersAreTold == \A u \in Subs :
  (sub[u].at = "streaming" /\ task[sub[u].task] \notin Open) ~> sub[u].at # "streaming"

Streaming == \E q \in Reqs :
  req[q].stream /\ req[q].at \in {"handling", "committing", "notifying"}

(* The server gets stopped if the context of its Stop ends, and without    *)
(* that if no message stream goes on for ever: subscribers, however late   *)
(* or quiet, and handlers that outlive their request never hold Shutdown   *)
(* or the final wait up (server.go:222-259).                               *)
StopComesToAnEnd ==
  WF_a2a_vars(CutOff) \/ []<>~Streaming
    => (server = "stopping" ~> server = "stopped")
=============================================================================
