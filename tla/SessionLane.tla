----------------------------- MODULE SessionLane -----------------------------
(***************************************************************************)
(* Session lanes (runtime/session_lane.go, session_lane_distributed.go):   *)
(* calls that execute a callback once per request and one at a time per    *)
(* session, within a process by a gate, and between processes by a lease.  *)
(*                                                                         *)
(* A lane is a process with its gates and its request cache.  Callers are  *)
(* calls of Do (Plain) or DoRun; DoCtx is DoRun.  The lease service is     *)
(* external: it hands out rising tokens, one valid token per session at a  *)
(* time, and forgets a token that is released or has expired.              *)
(***************************************************************************)
EXTENDS Naturals

CONSTANTS
  Calls, NoCall,           \* calls of Do and DoRun
  Lanes,                   \* processes
  Sessions, NoSession,     \* NoSession is the empty session key
  Requests, NoRequest,     \* NoRequest is the empty request id
  LaneOf, SessionOf, RequestOf,   \* [Calls -> ...]: the arguments of each call
  Plain,                   \* calls of Do, which knows neither context nor lease
  Leased,                  \* lanes with a lease service
  Cancellable,             \* calls whose caller may cancel the context
  Outcomes,                \* what a callback may return: "none" for a result, "failed"
  MaxEpoch                 \* bound of the model: how often a lane loses a request

ASSUME CallAssumption ==
  /\ NoCall \notin Calls /\ NoSession \notin Sessions /\ NoRequest \notin Requests
  /\ LaneOf \in [Calls -> Lanes]
  /\ SessionOf \in [Calls -> Sessions \cup {NoSession}]
  /\ RequestOf \in [Calls -> Requests \cup {NoRequest}]
  /\ Plain \subseteq Calls /\ Leased \subseteq Lanes
  /\ Cancellable \subseteq Calls \ Plain /\ Outcomes \subseteq {"none", "failed"}
  /\ MaxEpoch \in Nat

VARIABLES
  pc,        \* [Calls -> Steps]
  cause,     \* [Calls -> Errors]: why the call's context is cancelled
  gate,      \* [Lanes \X Sessions -> BOOLEAN]: the channel of capacity one is full
  entries,   \* [Lanes \X (Sessions \cup {NoSession}) \X Requests -> Calls \cup {NoCall}]
  joined,    \* [Calls -> Calls \cup {NoCall}]: the entry a call waits for
  answer,    \* [Calls -> Answers]: the answer of the entry a call made, or of its run
  token,     \* [Calls -> Nat]: its fencing token
  lease,     \* [Sessions -> Nat]: the valid token, 0 for none
  issued,    \* [Sessions -> Nat]: the last token issued
  epoch,     \* [Lanes \X Requests -> Nat]: how often the request was lost (history)
  era,       \* [Calls -> Nat]: the epoch in which the call took its entry (history)
  started,   \* calls that have started their callback (history)
  lapsed     \* calls whose lease ran out before they released it (history)

service == <<token, lease, issued, lapsed>>
cache == <<entries, joined, epoch, era>>
vars == <<pc, cause, gate, cache, answer, service, started>>

Steps == {"idle", "gate", "lease", "request", "join", "run", "running",
          "release", "leave", "done", "gone"}
Errors == {"none", "cancelled", "lost", "failed"}
Answers == [given : BOOLEAN, by : Calls \cup {NoCall}, error : Errors]
NoAnswer == [given |-> FALSE, by |-> NoCall, error |-> "none"]

Cell(c) == <<LaneOf[c], SessionOf[c]>>
Key(c) == <<LaneOf[c], SessionOf[c], RequestOf[c]>>
Slot(c) == <<LaneOf[c], RequestOf[c]>>
Gated(c) == SessionOf[c] \in Sessions
UsesLease(c) == Gated(c) /\ c \notin Plain /\ LaneOf[c] \in Leased
Cached(c) == RequestOf[c] \in Requests

Holding == {"request", "join", "run", "running", "release"}   \* between Acquire and Release
Inside == Holding \cup {"lease", "leave"}

Typed ==
  /\ pc \in [Calls -> Steps] /\ cause \in [Calls -> Errors]
  /\ gate \in [Lanes \X Sessions -> BOOLEAN]
  /\ entries \in [Lanes \X (Sessions \cup {NoSession}) \X Requests -> Calls \cup {NoCall}]
  /\ joined \in [Calls -> Calls \cup {NoCall}]
  /\ answer \in [Calls -> Answers] /\ token \in [Calls -> Nat]
  /\ lease \in [Sessions -> Nat] /\ issued \in [Sessions -> Nat]
  /\ epoch \in [Lanes \X Requests -> Nat] /\ era \in [Calls -> Nat]
  /\ started \in SUBSET Calls /\ lapsed \in SUBSET Calls

GateIsFull == \A c \in Calls : Gated(c) /\ pc[c] \in Inside => gate[Cell(c)]

\* The state keeps its types, and whoever is inside a session has its gate: nobody
\* empties a gate that somebody else filled (session_lane.go:60-61,
\* session_lane_distributed.go:105-113).
TypeOK == Typed /\ GateIsFull

Init ==
  /\ pc = [c \in Calls |-> "idle"] /\ cause = [c \in Calls |-> "none"]
  /\ gate = [x \in Lanes \X Sessions |-> FALSE]
  /\ entries = [k \in Lanes \X (Sessions \cup {NoSession}) \X Requests |-> NoCall]
  /\ joined = [c \in Calls |-> NoCall] /\ answer = [c \in Calls |-> NoAnswer]
  /\ token = [c \in Calls |-> 0]
  /\ lease = [s \in Sessions |-> 0] /\ issued = [s \in Sessions |-> 0]
  /\ epoch = [x \in Lanes \X Requests |-> 0] /\ era = [c \in Calls |-> 0]
  /\ started = {} /\ lapsed = {}

Goto(c, step) == pc' = [pc EXCEPT ![c] = step]
Step(c, from, to) == pc[c] = from /\ Goto(c, to)
Answer(c, by, error) ==
  answer' = [answer EXCEPT ![c] = [given |-> TRUE, by |-> by, error |-> error]]

-----------------------------------------------------------------------------
\* Admission: the gate of the session, then its lease.

Enter(c) ==
  /\ \/ cause[c] # "none" /\ Step(c, "idle", "done") /\ Answer(c, NoCall, "cancelled")
     \/ /\ cause[c] = "none" /\ Step(c, "idle", IF Gated(c) THEN "gate" ELSE "request")
        /\ UNCHANGED answer
  /\ UNCHANGED <<cause, gate, cache, service, started>>

\* A cancelled call may still win the gate: select takes either ready case.
PassGate(c) ==
  /\ Step(c, "gate", IF UsesLease(c) THEN "lease" ELSE "request")
  /\ ~gate[Cell(c)] /\ gate' = [gate EXCEPT ![Cell(c)] = TRUE]
  /\ UNCHANGED <<cause, cache, answer, service, started>>

AbandonGate(c) ==
  /\ Step(c, "gate", "done") /\ cause[c] # "none"
  /\ Answer(c, NoCall, "cancelled")
  /\ UNCHANGED <<cause, gate, cache, service, started>>

Acquire(c) ==
  LET s == SessionOf[c] IN
  /\ Step(c, "lease", "request") /\ lease[s] = 0
  /\ issued' = [issued EXCEPT ![s] = @ + 1]
  /\ lease' = [lease EXCEPT ![s] = issued[s] + 1]
  /\ token' = [token EXCEPT ![c] = issued[s] + 1]
  /\ UNCHANGED <<cause, gate, cache, answer, lapsed, started>>

\* The wait is cancelled, or the service fails: the lease may have been granted.
FaultyAbandonLease(c) ==
  /\ Step(c, "lease", "done")
  /\ Answer(c, NoCall, IF cause[c] = "none" THEN "failed" ELSE "cancelled")
  /\ UNCHANGED <<cause, gate, cache, service, started>>
AbandonLease(c) ==
  LET s == SessionOf[c] IN
  /\ Step(c, "lease", "leave")
  /\ Answer(c, NoCall, IF cause[c] = "none" THEN "failed" ELSE "cancelled")
  /\ \/ UNCHANGED service
     \/ /\ lease[s] = 0
        /\ issued' = [issued EXCEPT ![s] = @ + 1]
        /\ lease' = [lease EXCEPT ![s] = issued[s] + 1]
        /\ UNCHANGED <<token, lapsed>>
  /\ UNCHANGED <<cause, gate, cache, started>>

-----------------------------------------------------------------------------
\* doRequest: the first call of a request makes the entry and runs, the others wait.

FaultyTakeEntry(c) ==
  /\ Step(c, "request", "run") /\ Cached(c)
  /\ entries' = [entries EXCEPT ![Key(c)] = c]
  /\ era' = [era EXCEPT ![c] = epoch[Slot(c)]]
  /\ UNCHANGED <<cause, gate, joined, epoch, answer, service, started>>
TakeEntry(c) ==
  /\ Step(c, "request", "run") /\ Cached(c) /\ entries[Key(c)] = NoCall
  /\ entries' = [entries EXCEPT ![Key(c)] = c]
  /\ era' = [era EXCEPT ![c] = epoch[Slot(c)]]
  /\ UNCHANGED <<cause, gate, joined, epoch, answer, service, started>>

JoinEntry(c) ==
  /\ Step(c, "request", "join") /\ Cached(c) /\ entries[Key(c)] # NoCall
  /\ joined' = [joined EXCEPT ![c] = entries[Key(c)]]
  /\ era' = [era EXCEPT ![c] = epoch[Slot(c)]]
  /\ UNCHANGED <<cause, gate, entries, epoch, answer, service, started>>

SkipCache(c) ==
  /\ Step(c, "request", "run") /\ ~Cached(c)
  /\ UNCHANGED <<cause, gate, cache, answer, service, started>>

\* An entry is closed once its call has an answer; the copy never differs from it.
FaultyJoin(c) ==
  /\ Step(c, "join", "release")
  /\ answer' = [answer EXCEPT ![c] = answer[joined[c]]]
  /\ UNCHANGED <<cause, gate, cache, service, started>>
Join(c) ==
  /\ Step(c, "join", "release") /\ answer[joined[c]].given
  /\ answer' = [answer EXCEPT ![c] = answer[joined[c]]]
  /\ UNCHANGED <<cause, gate, cache, service, started>>

AbandonJoin(c) ==
  /\ Step(c, "join", "release") /\ cause[c] # "none"
  /\ Answer(c, NoCall, "cancelled")
  /\ UNCHANGED <<cause, gate, cache, service, started>>

\* The callback is not started under a cancelled context, and the entry keeps that.
Refuse(c) ==
  /\ Step(c, "run", "release") /\ cause[c] # "none"
  /\ Answer(c, NoCall, cause[c])
  /\ UNCHANGED <<cause, gate, cache, service, started>>

Start(c) ==
  /\ Step(c, "run", "running") /\ cause[c] = "none"
  /\ started' = started \cup {c}
  /\ UNCHANGED <<cause, gate, cache, answer, service>>

\* The callback returns a result, an error, or panics, which is kept as an error.  A
\* cancelled context is an error whatever the callback made of it.
Settle(c, error) ==
  /\ pc[c] = "running" /\ Goto(c, "release")
  /\ Answer(c, c, IF cause[c] # "none" THEN cause[c] ELSE error)
  /\ UNCHANGED <<cause, gate, cache, service, started>>

-----------------------------------------------------------------------------
\* The way out: the renewal stops, the lease is given back, then the gate.

\* A release that fails leaves the lease to run out.
FaultyRelease(c) ==
  LET s == SessionOf[c] IN
  /\ Step(c, "release", "leave")
  /\ \/ UNCHANGED lease
     \/ UsesLease(c) /\ lease' = [lease EXCEPT ![s] = 0]
  /\ UNCHANGED <<cause, gate, cache, answer, token, issued, lapsed, started>>
Release(c) ==
  LET s == SessionOf[c] IN
  /\ Step(c, "release", "leave")
  /\ \/ UNCHANGED lease
     \/ /\ UsesLease(c) /\ lease[s] = token[c]
        /\ lease' = [lease EXCEPT ![s] = 0]
  /\ UNCHANGED <<cause, gate, cache, answer, token, issued, lapsed, started>>

Leave(c) ==
  /\ Step(c, "leave", "done")
  /\ gate' = IF Gated(c) THEN [gate EXCEPT ![Cell(c)] = FALSE] ELSE gate
  /\ UNCHANGED <<cause, cache, answer, service, started>>

-----------------------------------------------------------------------------
\* Around the calls.

Cancel(c) ==
  /\ c \in Cancellable /\ cause[c] = "none"
  /\ pc[c] \notin {"release", "leave", "done", "gone"}
  /\ cause' = [cause EXCEPT ![c] = "cancelled"]
  /\ UNCHANGED <<pc, gate, cache, answer, service, started>>

\* The renewal goroutine finds that the token is not valid any more, or cannot tell.
RefreshFails(c) ==
  /\ UsesLease(c) /\ pc[c] \in Holding \ {"release"} /\ cause[c] = "none"
  /\ cause' = [cause EXCEPT ![c] = "lost"]
  /\ UNCHANGED <<pc, gate, cache, answer, service, started>>

Expire(s) ==
  /\ lease[s] # 0
  /\ lease' = [lease EXCEPT ![s] = 0]
  /\ lapsed' = lapsed \cup {c \in Calls : SessionOf[c] = s /\ token[c] = lease[s]}
  /\ UNCHANGED <<pc, cause, gate, cache, answer, token, issued, started>>

Lose(lane, R) ==
  /\ \A r \in R : epoch[<<lane, r>>] < MaxEpoch
  /\ epoch' = [x \in Lanes \X Requests |->
                 IF x[1] = lane /\ x[2] \in R THEN epoch[x] + 1 ELSE epoch[x]]
  /\ entries' = [k \in DOMAIN entries |->
                   IF k[1] = lane /\ k[3] \in R THEN NoCall ELSE entries[k]]

\* Forget drops the request in every session of the lane, finished or not, if any has it.
Forget(lane, r) ==
  /\ \E k \in DOMAIN entries : k[1] = lane /\ k[3] = r /\ entries[k] # NoCall
  /\ Lose(lane, {r})
  /\ UNCHANGED <<pc, cause, gate, joined, era, answer, service, started>>

\* A process ends with its gates and its cache; its leases run out.
Crash(lane) ==
  /\ Lose(lane, Requests)
  /\ pc' = [c \in Calls |-> IF LaneOf[c] = lane /\ pc[c] \notin {"idle", "done"}
                            THEN "gone" ELSE pc[c]]
  /\ gate' = [x \in DOMAIN gate |-> IF x[1] = lane THEN FALSE ELSE gate[x]]
  /\ UNCHANGED <<cause, joined, era, answer, service, started>>

Go(c) ==
  \/ PassGate(c) \/ AbandonGate(c) \/ Acquire(c) \/ AbandonLease(c)
  \/ TakeEntry(c) \/ JoinEntry(c) \/ SkipCache(c) \/ Join(c) \/ AbandonJoin(c)
  \/ Refuse(c) \/ Start(c) \/ (\E e \in Outcomes : Settle(c, e))
  \/ Release(c) \/ Leave(c)

Next ==
  \/ \E c \in Calls : Enter(c)
  \/ \E c \in Calls : Go(c)
  \/ \E c \in Calls : Cancel(c)
  \/ \E c \in Calls : RefreshFails(c)
  \/ \E s \in Sessions : Expire(s)
  \/ \E lane \in Lanes, r \in Requests : Forget(lane, r)
  \/ \E lane \in Lanes : Crash(lane)

Spec == Init /\ [][Next]_vars

-----------------------------------------------------------------------------
\* Properties.

Running == {c \in Calls : pc[c] = "running"}

\* Two callbacks of one session never run in one process, and run in two only if one
\* of them went round the lease or the lease of the older token has run out; their
\* tokens then tell them apart, which is what protected storage compares
\* (session_lane.go:58-62, session_lane_distributed.go:105-151).
MutualExclusion ==
  \A c, d \in Running : c # d /\ Gated(c) /\ SessionOf[c] = SessionOf[d] =>
    /\ LaneOf[c] # LaneOf[d]
    /\ UsesLease(c) /\ UsesLease(d) =>
         /\ token[c] # token[d]
         /\ token[c] < token[d] => c \in lapsed

\* As long as a lane does not forget a request, its callback is started by one call
\* only, however many calls retry it, with or without a session, cancelled, refused or
\* after a panic (session_lane.go:96-135).
Once ==
  \A c, d \in started :
    Cached(c) /\ Key(c) = Key(d) /\ era[c] = era[d] => c = d

Back == {"release", "leave", "done"}
Waited(c) == joined[c] # NoCall /\ pc[c] \in Back /\ cause[c] = "none"

\* Calls that wait for one entry and are not cancelled are told the same as each other
\* and as the call that ran the callback, and not before it has returned
\* (session_lane.go:101-109, 126-131).
SameAnswer ==
  \A c, d \in Calls :
    /\ Key(c) = Key(d) /\ era[c] = era[d]
    /\ Waited(c) /\ (Waited(d) \/ d \in started)
    => answer[c] = answer[d] /\ answer[c].given

\* A call that enters comes back or dies with its process, whoever else crashes, is
\* cancelled, loses its lease or leaves one behind (every defer of Do and DoRun).  A call is
\* made once, so all being at rest again and again is the end of each.
Returns == []<>(\A c \in Calls : pc[c] \in {"idle", "done", "gone"})

Stranded(s) ==
  ~ \E c \in Calls : SessionOf[c] = s /\ pc[c] \in Holding /\ token[c] = lease[s]

\* What a call does by itself.  That the lease service fails under a waiter that is not
\* cancelled may happen, but nothing counts on it: such a waiter polls until it has the
\* lease (session_lane_distributed.go:53-75).
Polling(c) == pc[c] = "lease" /\ cause[c] = "none"
Advance(c) == Acquire(c) \/ (~Polling(c) /\ Go(c))

\* Callbacks return, and a lease that nobody renews runs out.  Weak fairness is enough
\* for the polls: calls are finitely many, so a lease that is always given up stays free.
FairSpec ==
  /\ Spec
  /\ \A c \in Calls : WF_vars(Advance(c))
  /\ \A s \in Sessions : WF_vars(Stranded(s) /\ Expire(s))
=============================================================================
