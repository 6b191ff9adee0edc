--------------------------- MODULE MCSessionLane ---------------------------
(***************************************************************************)
(* Instances of SessionLane side by side.  Of the calls only those of      *)
(* one group are ever made, so the states are a sum and not a product:     *)
(*   across   two calls of one session in process l1 and one in l2, both   *)
(*            with the lease service;                                      *)
(*   waiting  a call in l1 and one in l2, which may be cancelled;          *)
(*   within   three calls of one request in process l3, without a session  *)
(*            and without leases, two of them cancellable;                 *)
(*   queued   two calls of one request and one session in l3.              *)
(***************************************************************************)
EXTENDS SessionLane, TLC

CONSTANTS a1, a2, b1, b2, f1, f2, p1, g1, g2, chat, note, req, l1, l2, l3

VARIABLE group  \* the calls that may be made

Across == {a1, a2, b1}
Waiting == {a1, b2}
Within == {f1, f2, p1}
Queued == {g1, g2}

MCCalls     == Across \cup Waiting \cup Within \cup Queued
MCLaneOf    == [c \in MCCalls |-> CASE c \in {a1, a2} -> l1 [] c \in {b1, b2} -> l2
                                    [] OTHER -> l3]
MCSessionOf == [c \in MCCalls |-> CASE c \in Across \cup Waiting -> chat
                                    [] c \in Within -> NoSession [] OTHER -> note]
MCRequestOf == [c \in MCCalls |-> IF c \in Across \cup Waiting THEN NoRequest ELSE req]

group_vars == <<vars, group>>

\* The processes the group's calls are made in.
Used == {LaneOf[c] : c \in group}

MCInit == Init /\ group \in {Across, Waiting, Within, Queued}

MCNext ==
  \/ \E c \in group : Enter(c) /\ UNCHANGED group
  \/ \E c \in group : Go(c) /\ UNCHANGED group
  \/ \E c \in group : Cancel(c) /\ UNCHANGED group
  \/ \E c \in group : RefreshFails(c) /\ UNCHANGED group
  \/ \E s \in Sessions : Expire(s) /\ UNCHANGED group
  \/ \E lane \in Used, r \in {RequestOf[c] : c \in group} \ {NoRequest} :
       Forget(lane, r) /\ UNCHANGED group
  \/ \E lane \in Used : Crash(lane) /\ UNCHANGED group

MCFairSpec ==
  /\ MCInit /\ [][MCNext]_group_vars
  /\ \A c \in Calls : WF_group_vars(Advance(c) /\ UNCHANGED group)
  /\ \A s \in Sessions : WF_group_vars(Stranded(s) /\ Expire(s) /\ UNCHANGED group)
=============================================================================
