-------------------------- MODULE SessionLaneProofs --------------------------
(***************************************************************************)
(* Theorems about SessionLane for every set of calls, lanes, sessions and  *)
(* requests, whatever each call asks for.                                  *)
(***************************************************************************)
EXTENDS SessionLane, TLAPS

USE CallAssumption

-----------------------------------------------------------------------------
\* Who is at a step has what the step needs, and nobody shares a gate.

GateInv ==
  /\ \A c \in Calls : pc[c] = "gate" => Gated(c)
  /\ \A c \in Calls : pc[c] = "lease" => UsesLease(c)
  /\ \A c \in Calls : pc[c] = "join" => joined[c] # NoCall
  /\ \A c, d \in Calls :
       Gated(c) /\ Cell(c) = Cell(d) /\ pc[c] \in Inside /\ pc[d] \in Inside => c = d

\* The lease: tokens rise, belong to one call each, and are valid until they lapse.
TokenInv ==
  /\ \A s \in Sessions : lease[s] \in {0, issued[s]}
  /\ \A c \in Calls : Gated(c) => token[c] <= issued[SessionOf[c]]
  /\ \A c \in Calls : pc[c] \in {"idle", "gate", "lease"} => token[c] = 0 /\ c \notin lapsed
  /\ \A c, d \in Calls :
       Gated(c) /\ SessionOf[c] = SessionOf[d] /\ token[c] = token[d] /\ token[c] # 0 => c = d
  /\ \A c \in Calls : UsesLease(c) /\ pc[c] \in Holding =>
       token[c] # 0 /\ (c \notin lapsed => lease[SessionOf[c]] = token[c])

\* The cache: c has made the entry of its request.
Maker(c) == Cached(c) /\ (pc[c] \in {"run", "running"} \/ c \in started)
Epoch(c) == epoch[Slot(c)]
Ended == {"release", "leave", "done", "gone"}

MemoInv ==
  /\ \A c \in started : pc[c] \in Ended \cup {"running"}
  /\ \A c \in Calls : Maker(c) =>
       era[c] <= Epoch(c) /\ (era[c] = Epoch(c) => entries[Key(c)] = c)
  /\ \A c, d \in Calls : Maker(c) /\ Maker(d) /\ Key(c) = Key(d) /\ era[c] = era[d] => c = d

\* Who waits, waits for the one entry of its request and era.
EntryInv ==
  \A k \in DOMAIN entries : entries[k] # NoCall =>
    /\ Cached(entries[k]) /\ Key(entries[k]) = k /\ era[entries[k]] = Epoch(entries[k])
    /\ joined[entries[k]] = NoCall /\ pc[entries[k]] \in Ended \cup {"run", "running"}
Waiter(c) ==
  /\ Cached(c) /\ Cached(joined[c]) /\ Key(joined[c]) = Key(c) /\ era[joined[c]] = era[c]
  /\ joined[joined[c]] = NoCall /\ era[c] <= Epoch(c)
  /\ (era[c] = Epoch(c) => entries[Key(c)] = joined[c])
  /\ pc[c] \in Ended \cup {"join"} /\ c \notin started
  /\ pc[joined[c]] \in Ended \cup {"run", "running"}
ShareEntry(c, d) ==
  Key(c) = Key(d) /\ era[c] = era[d] =>
    (joined[d] # NoCall => joined[d] = joined[c]) /\ (Maker(d) => joined[c] = d)
WaitInv ==
  \A c \in Calls : joined[c] # NoCall => Waiter(c) /\ \A d \in Calls : ShareEntry(c, d)

\* An answer is given once, and to those who wait as it was given.
AnswerInv ==
  /\ \A c \in Calls : pc[c] \notin Ended => ~answer[c].given
  /\ \A c \in Calls : Waited(c) => answer[joined[c]].given /\ answer[c] = answer[joined[c]]

-----------------------------------------------------------------------------
\* Type correctness.

\* Where the gate, the entry and the epoch of a call are kept.
LEMMA Places ==
  ASSUME NEW c \in Calls
  PROVE  /\ Gated(c) => Cell(c) \in Lanes \X Sessions
         /\ Cached(c) => /\ Key(c) \in Lanes \X (Sessions \cup {NoSession}) \X Requests
                         /\ Slot(c) \in Lanes \X Requests
<1>1. /\ LaneOf[c] \in Lanes /\ SessionOf[c] \in Sessions \cup {NoSession}
    /\ RequestOf[c] \in Requests \cup {NoRequest}
  BY DEF CallAssumption
<1>2. Gated(c) => Cell(c) \in Lanes \X Sessions
  BY <1>1 DEF Gated, Cell
<1>3. Cached(c) => Slot(c) \in Lanes \X Requests
  BY <1>1 DEF Cached, Slot
<1>4. Cached(c) => Key(c) \in Lanes \X (Sessions \cup {NoSession}) \X Requests
  BY <1>1 DEF Cached, Key
<1> QED BY <1>2, <1>3, <1>4

LEMMA TypedInit == Init => Typed
BY DEF Init, Typed, Steps, Errors, Answers, NoAnswer

LEMMA CallTyped ==
  ASSUME Typed, GateInv, NEW c \in Calls, Enter(c) \/ Go(c) \/ Cancel(c) \/ RefreshFails(c)
  PROVE  Typed'
<1> USE DEF Goto, Step, Answer, service, cache
<1>1. ASSUME Enter(c) PROVE Typed'
  <2>1. /\ pc' \in [Calls -> Steps] /\ answer' \in [Calls -> Answers]
    <3>1. CASE Step(c, "idle", "done") /\ Answer(c, NoCall, "cancelled")
      <4>1. pc' \in [Calls -> Steps]
        BY <3>1 DEF Typed, Steps
      <4>2. answer' \in [Calls -> Answers]
        BY <3>1 DEF Typed, Answers, Errors
      <4> QED BY <4>1, <4>2
    <3>2. CASE /\ Step(c, "idle", IF Gated(c) THEN "gate" ELSE "request")
               /\ UNCHANGED answer
      BY <3>2 DEF Typed, Steps, Gated
    <3> QED BY <1>1, <3>1, <3>2 DEF Enter
  <2> QED BY <1>1, <2>1 DEF Typed, Enter
<1>2. ASSUME PassGate(c) PROVE Typed'
  BY <1>2, Places DEF Typed, PassGate, GateInv, Steps, Gated, UsesLease
<1>3. ASSUME AbandonGate(c) PROVE Typed'
  BY <1>3 DEF Typed, AbandonGate, Steps, Errors, Answers
<1>4. ASSUME Acquire(c) PROVE Typed'
  BY <1>4 DEF Typed, Acquire, GateInv, UsesLease, Gated, Steps
<1>5. ASSUME AbandonLease(c) PROVE Typed'
  <2>1. SessionOf[c] \in Sessions
    BY <1>5 DEF AbandonLease, GateInv, UsesLease, Gated
  <2>2. pc' \in [Calls -> Steps]
    BY <1>5 DEF Typed, AbandonLease, Steps
  <2>3. answer' \in [Calls -> Answers]
    <3>1. PICK error \in Errors : Answer(c, NoCall, error)
      BY <1>5 DEF AbandonLease, Errors
    <3> QED BY <3>1 DEF Typed, Answers
  <2>4. issued' \in [Sessions -> Nat] /\ lease' \in [Sessions -> Nat]
    <3>1. CASE issued' = issued /\ lease' = lease
      BY <3>1 DEF Typed
    <3>2. CASE /\ issued' = [issued EXCEPT ![SessionOf[c]] = @ + 1]
               /\ lease' = [lease EXCEPT ![SessionOf[c]] = issued[SessionOf[c]] + 1]
      BY <2>1, <3>2 DEF Typed
    <3> QED BY <1>5, <3>1, <3>2 DEF AbandonLease
  <2> QED BY <1>5, <2>2, <2>3, <2>4 DEF Typed, AbandonLease
<1>6. ASSUME TakeEntry(c) PROVE Typed'
  BY <1>6, Places DEF Typed, TakeEntry, Steps
<1>7. ASSUME JoinEntry(c) PROVE Typed'
  BY <1>7, Places DEF Typed, JoinEntry, Steps
<1>8. ASSUME SkipCache(c) PROVE Typed'
  BY <1>8 DEF Typed, SkipCache, Steps
<1>9. ASSUME Join(c) PROVE Typed'
  BY <1>9 DEF Typed, Join, GateInv, Steps
<1>10. ASSUME AbandonJoin(c) PROVE Typed'
  BY <1>10 DEF Typed, AbandonJoin, Steps, Errors, Answers
<1>11. ASSUME Refuse(c) PROVE Typed'
  BY <1>11 DEF Typed, Refuse, Steps, Errors, Answers
<1>12. ASSUME Start(c) PROVE Typed'
  BY <1>12 DEF Typed, Start, Steps
<1>13. ASSUME NEW e \in Outcomes, Settle(c, e) PROVE Typed'
  BY <1>13 DEF Typed, Settle, Steps, Errors, Answers, CallAssumption
<1>14. ASSUME Release(c) PROVE Typed'
  BY <1>14 DEF Typed, Release, Steps, UsesLease, Gated
<1>15. ASSUME Leave(c) PROVE Typed'
  BY <1>15, Places DEF Typed, Leave, Steps
<1>16. ASSUME Cancel(c) PROVE Typed'
  BY <1>16 DEF Typed, Cancel, Errors
<1>17. ASSUME RefreshFails(c) PROVE Typed'
  BY <1>17 DEF Typed, RefreshFails, Errors
<1> QED BY <1>1, <1>2, <1>3, <1>4, <1>5, <1>6, <1>7, <1>8, <1>9, <1>10, <1>11, <1>12, <1>13, <1>14, <1>15, <1>16, <1>17 DEF Go

LEMMA TypedStep ==
  ASSUME Typed, GateInv, [Next]_vars
  PROVE  Typed'
<1> USE DEF service, cache
<1>1. ASSUME NEW c \in Calls, Enter(c) \/ Go(c) \/ Cancel(c) \/ RefreshFails(c) PROVE Typed'
  BY <1>1, CallTyped
<1>2. ASSUME NEW s \in Sessions, Expire(s) PROVE Typed'
  BY <1>2 DEF Typed, Expire
<1>3. ASSUME NEW l \in Lanes, NEW R \in SUBSET Requests, Lose(l, R)
      PROVE  /\ entries' \in [Lanes \X (Sessions \cup {NoSession}) \X Requests -> Calls \cup {NoCall}]
             /\ epoch' \in [Lanes \X Requests -> Nat]
  <2>1. entries' \in [Lanes \X (Sessions \cup {NoSession}) \X Requests -> Calls \cup {NoCall}]
    BY <1>3 DEF Typed, Lose
  <2>2. epoch' \in [Lanes \X Requests -> Nat]
    BY <1>3 DEF Typed, Lose
  <2> QED BY <2>1, <2>2
<1>4. ASSUME NEW l \in Lanes, NEW r \in Requests, Forget(l, r) PROVE Typed'
  BY <1>3, <1>4 DEF Typed, Forget
<1>5. ASSUME NEW l \in Lanes, Crash(l) PROVE Typed'
  <2>1. pc' \in [Calls -> Steps]
    BY <1>5 DEF Typed, Crash, Steps
  <2>2. gate' \in [Lanes \X Sessions -> BOOLEAN]
    BY <1>5 DEF Typed, Crash
  <2> QED BY <1>3, <1>5, <2>1, <2>2 DEF Typed, Crash
<1>6. CASE UNCHANGED vars
  BY <1>6 DEF Typed, vars
<1> QED BY <1>1, <1>2, <1>4, <1>5, <1>6 DEF Next

-----------------------------------------------------------------------------
\* The gate.

LEMMA CallKeepsGate ==
  ASSUME Typed, GateIsFull, GateInv, NEW c \in Calls,
         Enter(c) \/ Go(c) \/ Cancel(c) \/ RefreshFails(c)
  PROVE  GateIsFull' /\ GateInv'
<1> USE DEF Goto, Step, Answer, service, cache, Inside, Holding, Gated
<1>1. ASSUME Enter(c) PROVE GateIsFull' /\ GateInv'
  <2>1. CASE Step(c, "idle", "done")
    BY <1>1, <2>1 DEF Typed, GateIsFull, GateInv, Enter
  <2>2. CASE Step(c, "idle", IF Gated(c) THEN "gate" ELSE "request")
    BY <1>1, <2>2 DEF Typed, GateIsFull, GateInv, Enter, Cell
  <2> QED BY <1>1, <2>1, <2>2 DEF Enter
<1>2. ASSUME PassGate(c) PROVE GateIsFull' /\ GateInv'
  <2>1. /\ pc' = [pc EXCEPT ![c] = pc'[c]] /\ pc'[c] \in {"lease", "request"}
        /\ pc \in [Calls -> Steps] /\ pc[c] = "gate" /\ ~gate[Cell(c)]
        /\ gate' = [gate EXCEPT ![Cell(c)] = TRUE] /\ gate \in [Lanes \X Sessions -> BOOLEAN]
        /\ UsesLease(c) = (pc'[c] = "lease")
    BY <1>2 DEF Typed, PassGate, UsesLease
  <2>2. GateIsFull'
    BY <1>2, <2>1, Places DEF GateIsFull, Cell, UsesLease
  <2>3. ASSUME NEW d \in Calls
        PROVE  /\ pc'[d] = "gate" => Gated(d)
               /\ pc'[d] = "lease" => UsesLease(d)
               /\ pc'[d] = "join" => joined[d] # NoCall
    BY <2>1, <2>3 DEF GateInv
  <2>4. ASSUME NEW d \in Calls, d # c, pc[d] \in Inside, Cell(d) = Cell(c) PROVE FALSE
    BY <1>2, <2>1, <2>4 DEF GateIsFull, GateInv, Cell
  <2>5. ASSUME NEW d \in Calls, NEW e \in Calls, Gated(d), Cell(d) = Cell(e),
               pc'[d] \in Inside, pc'[e] \in Inside
        PROVE  d = e
    BY <2>1, <2>4, <2>5 DEF GateInv
  <2>6. joined' = joined
    BY <1>2 DEF PassGate
  <2>7. GateInv'
    BY <2>3, <2>5, <2>6 DEF GateInv, Cell, UsesLease
  <2> QED  BY <2>2, <2>7
<1>3. ASSUME AbandonGate(c) PROVE GateIsFull' /\ GateInv'
  BY <1>3 DEF Typed, GateIsFull, GateInv, AbandonGate
<1>4. ASSUME Acquire(c) PROVE GateIsFull' /\ GateInv'
  BY <1>4 DEF Typed, GateIsFull, GateInv, Acquire
<1>5. ASSUME AbandonLease(c) PROVE GateIsFull' /\ GateInv'
  BY <1>5 DEF Typed, GateIsFull, GateInv, AbandonLease
<1>6. ASSUME TakeEntry(c) PROVE GateIsFull' /\ GateInv'
  BY <1>6 DEF Typed, GateIsFull, GateInv, TakeEntry
<1>7. ASSUME JoinEntry(c) PROVE GateIsFull' /\ GateInv'
  BY <1>7 DEF Typed, GateIsFull, GateInv, JoinEntry
<1>8. ASSUME SkipCache(c) PROVE GateIsFull' /\ GateInv'
  BY <1>8 DEF Typed, GateIsFull, GateInv, SkipCache
<1>9. ASSUME Join(c) PROVE GateIsFull' /\ GateInv'
  BY <1>9 DEF Typed, GateIsFull, GateInv, Join
<1>10. ASSUME AbandonJoin(c) PROVE GateIsFull' /\ GateInv'
  BY <1>10 DEF Typed, GateIsFull, GateInv, AbandonJoin
<1>11. ASSUME Refuse(c) PROVE GateIsFull' /\ GateInv'
  BY <1>11 DEF Typed, GateIsFull, GateInv, Refuse
<1>12. ASSUME Start(c) PROVE GateIsFull' /\ GateInv'
  BY <1>12 DEF Typed, GateIsFull, GateInv, Start
<1>13. ASSUME NEW e \in Outcomes, Settle(c, e) PROVE GateIsFull' /\ GateInv'
  BY <1>13 DEF Typed, GateIsFull, GateInv, Settle
<1>14. ASSUME Release(c) PROVE GateIsFull' /\ GateInv'
  BY <1>14 DEF Typed, GateIsFull, GateInv, Release
<1>15. ASSUME Leave(c) PROVE GateIsFull' /\ GateInv'
  BY <1>15, Places DEF Typed, GateIsFull, GateInv, Leave, Cell
<1>16. ASSUME Cancel(c) PROVE GateIsFull' /\ GateInv'
  BY <1>16 DEF Typed, GateIsFull, GateInv, Cancel
<1>17. ASSUME RefreshFails(c) PROVE GateIsFull' /\ GateInv'
  BY <1>17 DEF Typed, GateIsFull, GateInv, RefreshFails
<1> QED BY <1>1, <1>2, <1>3, <1>4, <1>5, <1>6, <1>7, <1>8, <1>9, <1>10, <1>11, <1>12, <1>13, <1>14, <1>15, <1>16, <1>17 DEF Go

LEMMA GateStep ==
  ASSUME Typed, GateIsFull, GateInv, [Next]_vars
  PROVE  GateIsFull' /\ GateInv'
<1>1. ASSUME NEW c \in Calls, Enter(c) \/ Go(c) \/ Cancel(c) \/ RefreshFails(c)
      PROVE  GateIsFull' /\ GateInv'
  BY <1>1, CallKeepsGate
<1>2. CASE UNCHANGED <<pc, gate, joined>>
  BY <1>2 DEF GateIsFull, GateInv
<1>3. ASSUME NEW l \in Lanes, Crash(l) PROVE GateIsFull' /\ GateInv'
  <2>1. GateInv'
    BY <1>3 DEF Typed, Crash, GateInv, Inside, Holding
  <2>2. GateIsFull'
    BY <1>3, Places DEF Typed, Crash, GateIsFull, Inside, Holding, Cell
  <2> QED BY <2>1, <2>2
<1> QED BY <1>1, <1>2, <1>3 DEF Next, Expire, Forget, vars, cache

-----------------------------------------------------------------------------
\* The lease.

LEMMA CallKeepsTokens ==
  ASSUME Typed, GateInv, TokenInv, NEW c \in Calls,
         Enter(c) \/ Go(c) \/ Cancel(c) \/ RefreshFails(c)
  PROVE  TokenInv'
<1> USE DEF Goto, Step, service, cache, Holding
<1>1. ASSUME Enter(c) PROVE TokenInv'
  <2>1. CASE Step(c, "idle", "done")
    BY <1>1, <2>1 DEF Typed, TokenInv, Enter
  <2>2. CASE Step(c, "idle", IF Gated(c) THEN "gate" ELSE "request")
    BY <1>1, <2>2 DEF Typed, TokenInv, Enter, UsesLease, Gated
  <2> QED BY <1>1, <2>1, <2>2 DEF Enter
<1>2. ASSUME PassGate(c) PROVE TokenInv'
  BY <1>2 DEF Typed, GateInv, TokenInv, UsesLease, Gated, PassGate
<1>3. ASSUME AbandonGate(c) PROVE TokenInv'
  BY <1>3 DEF Typed, GateInv, TokenInv, UsesLease, Gated, AbandonGate
<1>4. ASSUME Acquire(c) PROVE TokenInv'
  BY <1>4 DEF Typed, GateInv, TokenInv, UsesLease, Gated, Acquire
<1>5. ASSUME AbandonLease(c) PROVE TokenInv'
  <2>1. pc' = [pc EXCEPT ![c] = "leave"] /\ UNCHANGED <<token, lapsed>>
    BY <1>5 DEF AbandonLease
  <2>2. CASE UNCHANGED <<lease, issued>>
    BY <2>1, <2>2 DEF Typed, TokenInv
  <2>3. CASE /\ lease[SessionOf[c]] = 0
             /\ issued' = [issued EXCEPT ![SessionOf[c]] = @ + 1]
             /\ lease' = [lease EXCEPT ![SessionOf[c]] = issued[SessionOf[c]] + 1]
    BY <2>1, <2>3 DEF Typed, TokenInv, UsesLease, Gated
  <2> QED BY <1>5, <2>2, <2>3 DEF AbandonLease
<1>6. ASSUME TakeEntry(c) PROVE TokenInv'
  BY <1>6 DEF Typed, GateInv, TokenInv, UsesLease, Gated, TakeEntry
<1>7. ASSUME JoinEntry(c) PROVE TokenInv'
  BY <1>7 DEF Typed, GateInv, TokenInv, UsesLease, Gated, JoinEntry
<1>8. ASSUME SkipCache(c) PROVE TokenInv'
  BY <1>8 DEF Typed, GateInv, TokenInv, UsesLease, Gated, SkipCache
<1>9. ASSUME Join(c) PROVE TokenInv'
  BY <1>9 DEF Typed, GateInv, TokenInv, UsesLease, Gated, Join
<1>10. ASSUME AbandonJoin(c) PROVE TokenInv'
  BY <1>10 DEF Typed, GateInv, TokenInv, UsesLease, Gated, AbandonJoin
<1>11. ASSUME Refuse(c) PROVE TokenInv'
  BY <1>11 DEF Typed, GateInv, TokenInv, UsesLease, Gated, Refuse
<1>12. ASSUME Start(c) PROVE TokenInv'
  BY <1>12 DEF Typed, GateInv, TokenInv, UsesLease, Gated, Start
<1>13. ASSUME NEW e \in Outcomes, Settle(c, e) PROVE TokenInv'
  BY <1>13 DEF Typed, GateInv, TokenInv, UsesLease, Gated, Settle
<1>14. ASSUME Release(c) PROVE TokenInv'
  BY <1>14 DEF Typed, GateInv, TokenInv, UsesLease, Gated, Release
<1>15. ASSUME Leave(c) PROVE TokenInv'
  BY <1>15 DEF Typed, GateInv, TokenInv, UsesLease, Gated, Leave
<1>16. ASSUME Cancel(c) PROVE TokenInv'
  BY <1>16 DEF Typed, GateInv, TokenInv, UsesLease, Gated, Cancel
<1>17. ASSUME RefreshFails(c) PROVE TokenInv'
  BY <1>17 DEF Typed, GateInv, TokenInv, UsesLease, Gated, RefreshFails
<1> QED BY <1>1, <1>2, <1>3, <1>4, <1>5, <1>6, <1>7, <1>8, <1>9, <1>10, <1>11, <1>12, <1>13, <1>14, <1>15, <1>16, <1>17 DEF Go

LEMMA TokenStep ==
  ASSUME Typed, GateInv, TokenInv, [Next]_vars
  PROVE  TokenInv'
<1>1. ASSUME NEW c \in Calls, Enter(c) \/ Go(c) \/ Cancel(c) \/ RefreshFails(c)
      PROVE  TokenInv'
  BY <1>1, CallKeepsTokens
<1>2. CASE UNCHANGED <<pc, service>>
  BY <1>2 DEF TokenInv, service
<1>3. ASSUME NEW l \in Lanes, Crash(l) PROVE TokenInv'
  BY <1>3 DEF Typed, Crash, TokenInv, Holding, service
<1>4. ASSUME NEW s \in Sessions, Expire(s) PROVE TokenInv'
  BY <1>4 DEF Typed, Expire, TokenInv, Holding, UsesLease, Gated
<1> QED BY <1>1, <1>2, <1>3, <1>4 DEF Next, Forget, vars

-----------------------------------------------------------------------------
\* The request cache.

LEMMA CallKeepsMemo ==
  ASSUME Typed, MemoInv, NEW c \in Calls,
         Enter(c) \/ Go(c) \/ Cancel(c) \/ RefreshFails(c)
  PROVE  MemoInv'
<1> USE DEF Goto, Step, service, cache, Maker, Epoch, Ended
<1>1. ASSUME Enter(c) PROVE MemoInv'
  <2>1. CASE Step(c, "idle", "done")
    BY <1>1, <2>1 DEF Typed, MemoInv, Enter
  <2>2. CASE Step(c, "idle", IF Gated(c) THEN "gate" ELSE "request")
    BY <1>1, <2>2 DEF Typed, MemoInv, Enter, Gated
  <2> QED BY <1>1, <2>1, <2>2 DEF Enter
<1>2. ASSUME PassGate(c) PROVE MemoInv'
  BY <1>2 DEF Typed, MemoInv, PassGate, UsesLease
<1>3. ASSUME AbandonGate(c) PROVE MemoInv'
  BY <1>3 DEF Typed, MemoInv, AbandonGate
<1>4. ASSUME Acquire(c) PROVE MemoInv'
  BY <1>4 DEF Typed, MemoInv, Acquire
<1>5. ASSUME AbandonLease(c) PROVE MemoInv'
  BY <1>5 DEF Typed, MemoInv, AbandonLease
<1>6. ASSUME TakeEntry(c) PROVE MemoInv'
  <2>1. /\ pc[c] = "request" /\ pc' = [pc EXCEPT ![c] = "run"] /\ Cached(c)
        /\ entries[Key(c)] = NoCall /\ entries' = [entries EXCEPT ![Key(c)] = c]
        /\ era' = [era EXCEPT ![c] = Epoch(c)]
        /\ UNCHANGED <<epoch, started>>
    BY <1>6 DEF TakeEntry
  <2>2. /\ Key(c) \in DOMAIN entries /\ Epoch(c) \in Nat
        /\ \A d \in Calls : Cached(d) => Key(d) \in DOMAIN entries
    BY <2>1, Places DEF Typed
  <2>3. /\ c \notin started /\ entries'[Key(c)] = c /\ era'[c] = Epoch(c)
        /\ \A d \in Calls : d # c => era'[d] = era[d]
        /\ \A k \in DOMAIN entries : k # Key(c) => entries'[k] = entries[k]
    BY <2>1, <2>2 DEF Typed, MemoInv
  <2>4. \A d \in Calls : Maker(d)' => d = c \/ (d # c /\ Maker(d))
    BY <2>1 DEF Typed, Cached
  <2>5. ASSUME NEW d \in Calls, d # c, Maker(d), Key(d) = Key(c) PROVE era[d] < Epoch(c)
    <3>1. Epoch(d) = Epoch(c)
      BY <2>5 DEF Key, Slot
    <3>2. era[d] # Epoch(c)
      BY <2>1, <2>5, <3>1 DEF MemoInv
    <3> HIDE DEF Maker, Epoch
    <3>3. era[d] <= Epoch(d) /\ era[d] \in Nat
      BY <2>5 DEF MemoInv, Typed
    <3> QED BY <2>2, <3>1, <3>2, <3>3
  <2>6. \A d \in started' : pc'[d] \in Ended \cup {"running"}
    BY <2>1, <2>3 DEF Typed, MemoInv
  <2>7. ASSUME NEW d \in Calls, Maker(d)'
        PROVE  era'[d] <= Epoch(d) /\ (era'[d] = Epoch(d) => entries'[Key(d)] = d)
    <3>1. CASE d = c
      BY <2>2, <2>3, <3>1
    <3>2. CASE d # c
      <4>1. Maker(d) /\ era'[d] = era[d] /\ Key(d) \in DOMAIN entries
        BY <2>2, <2>3, <2>4, <2>7, <3>2
      <4>2. CASE Key(d) = Key(c)
        <5>1. Epoch(d) = Epoch(c) /\ era[d] \in Nat
          BY <4>2 DEF Key, Slot, Typed
        <5> HIDE DEF Maker, Epoch
        <5> QED BY <2>2, <2>5, <3>2, <4>1, <4>2, <5>1
      <4>3. CASE Key(d) # Key(c)
        <5> HIDE DEF Maker
        <5> QED BY <2>3, <4>1, <4>3 DEF MemoInv
      <4> QED BY <4>2, <4>3
    <3> QED BY <3>1, <3>2
  <2>8. ASSUME NEW d \in Calls, NEW x \in Calls, Maker(d)', Maker(x)',
               Key(d) = Key(x), era'[d] = era'[x]
        PROVE  d = x
    <3> HIDE DEF Maker, Epoch
    <3>1. CASE d = c \/ x = c
      BY <2>2, <2>3, <2>4, <2>5, <2>8, <3>1 DEF Typed
    <3>2. CASE d # c /\ x # c
      BY <2>3, <2>4, <2>8, <3>2 DEF MemoInv
    <3> QED BY <3>1, <3>2
  <2> HIDE DEF Maker
  <2> QED BY <2>1, <2>6, <2>7, <2>8 DEF MemoInv, Key
<1>7. ASSUME JoinEntry(c) PROVE MemoInv'
  <2>1. /\ pc[c] = "request" /\ pc' = [pc EXCEPT ![c] = "join"]
        /\ era' = [era EXCEPT ![c] = Epoch(c)] /\ UNCHANGED <<entries, epoch, started>>
    BY <1>7 DEF JoinEntry
  <2>2. \A d \in Calls : Maker(d)' => Maker(d) /\ d # c /\ era'[d] = era[d]
    BY <2>1 DEF Typed, MemoInv, Cached
  <2>3. \A d \in started' : pc'[d] \in Ended \cup {"running"}
    BY <2>1 DEF Typed, MemoInv
  <2> HIDE DEF Maker
  <2> QED BY <2>1, <2>2, <2>3 DEF MemoInv, Key, Slot
<1>8. ASSUME SkipCache(c) PROVE MemoInv'
  BY <1>8 DEF Typed, MemoInv, SkipCache
<1>9. ASSUME Join(c) PROVE MemoInv'
  BY <1>9 DEF Typed, MemoInv, Join
<1>10. ASSUME AbandonJoin(c) PROVE MemoInv'
  BY <1>10 DEF Typed, MemoInv, AbandonJoin
<1>11. ASSUME Refuse(c) PROVE MemoInv'
  BY <1>11 DEF Typed, MemoInv, Refuse
<1>12. ASSUME Start(c) PROVE MemoInv'
  BY <1>12 DEF Typed, MemoInv, Start
<1>13. ASSUME NEW e \in Outcomes, Settle(c, e) PROVE MemoInv'
  BY <1>13 DEF Typed, MemoInv, Settle
<1>14. ASSUME Release(c) PROVE MemoInv'
  BY <1>14 DEF Typed, MemoInv, Release
<1>15. ASSUME Leave(c) PROVE MemoInv'
  BY <1>15 DEF Typed, MemoInv, Leave
<1>16. ASSUME Cancel(c) PROVE MemoInv'
  BY <1>16 DEF Typed, MemoInv, Cancel
<1>17. ASSUME RefreshFails(c) PROVE MemoInv'
  BY <1>17 DEF Typed, MemoInv, RefreshFails
<1> QED BY <1>1, <1>2, <1>3, <1>4, <1>5, <1>6, <1>7, <1>8, <1>9, <1>10, <1>11, <1>12, <1>13, <1>14, <1>15, <1>16, <1>17 DEF Go

\* What becomes of the entries and epochs of a lane that loses the requests R.
LEMMA Losing ==
  ASSUME Typed, NEW l \in Lanes, NEW R \in SUBSET Requests, Lose(l, R),
         NEW c \in Calls, Cached(c)
  PROVE  IF LaneOf[c] = l /\ RequestOf[c] \in R
         THEN Epoch(c)' = Epoch(c) + 1 /\ entries'[Key(c)] = NoCall
         ELSE Epoch(c)' = Epoch(c) /\ entries'[Key(c)] = entries[Key(c)]
BY Places DEF Typed, Lose, Epoch, Key, Slot

LEMMA MemoStep ==
  ASSUME Typed, MemoInv, [Next]_vars
  PROVE  MemoInv'
<1>1. ASSUME NEW c \in Calls, Enter(c) \/ Go(c) \/ Cancel(c) \/ RefreshFails(c)
      PROVE  MemoInv'
  BY <1>1, CallKeepsMemo
<1>2. CASE UNCHANGED <<pc, started, entries, epoch, era>>
  BY <1>2 DEF MemoInv, Maker, Epoch
<1>3. ASSUME NEW l \in Lanes, NEW R \in SUBSET Requests, Lose(l, R),
             UNCHANGED <<era, started>>,
             \A c \in Calls : pc'[c] \in {pc[c], "gone"} /\ (c \in started => pc'[c] \in Ended \cup {"running"})
      PROVE  MemoInv'
  <2>1. \A c \in Calls : Maker(c)' => Maker(c)
    BY <1>3 DEF Maker, Cached
  <2>2. ASSUME NEW c \in Calls, Maker(c)
        PROVE  era[c] <= Epoch(c)' /\ (era[c] = Epoch(c)' => entries'[Key(c)] = c)
    <3>1. /\ Cached(c) /\ Epoch(c) \in Nat /\ era[c] \in Nat
          /\ era[c] <= Epoch(c) /\ (era[c] = Epoch(c) => entries[Key(c)] = c)
      BY <2>2, Places DEF Typed, MemoInv, Maker, Epoch
    <3> QED BY <1>3, <3>1, Losing
  <2> QED BY <1>3, <2>1, <2>2 DEF MemoInv, Key, Typed
<1>4. ASSUME NEW l \in Lanes, NEW r \in Requests, Forget(l, r) PROVE MemoInv'
  BY <1>3, <1>4 DEF Forget, MemoInv
<1>5. ASSUME NEW l \in Lanes, Crash(l) PROVE MemoInv'
  BY <1>3, <1>5 DEF Typed, Crash, MemoInv, Ended
<1> QED BY <1>1, <1>2, <1>4, <1>5 DEF Next, Expire, vars, cache

-----------------------------------------------------------------------------
\* The entries and those who wait for them.

Made == Ended \cup {"run", "running"}
Waits == Ended \cup {"join"}

\* Makers and waiters stay what they are: every step but TakeEntry, JoinEntry and a loss.
Quiet ==
  /\ UNCHANGED <<entries, joined, epoch, era>>
  /\ \A d \in Calls :
       /\ pc[d] \in Made => pc'[d] \in Made
       /\ pc[d] \in Waits => pc'[d] \in Waits /\ (d \in started' => d \in started)
       /\ Maker(d)' => Maker(d)

LEMMA QuietKeepsEntries ==
  ASSUME Typed, EntryInv, WaitInv, Quiet
  PROVE  EntryInv' /\ WaitInv'
<1>1. EntryInv'
  BY DEF Typed, EntryInv, Quiet, Made, Epoch, Key, Slot, Cached
<1>2. WaitInv'
  <2>1. ASSUME NEW c \in Calls, joined[c] # NoCall PROVE Waiter(c)'
    <3>1. Waiter(c) /\ joined[c] \in Calls
      BY <2>1 DEF WaitInv, Typed
    <3>2. pc'[c] \in Waits /\ c \notin started' /\ pc'[joined[c]] \in Made
      BY <2>1, <3>1 DEF Waiter, Quiet, Made, Waits
    <3> QED BY <3>1, <3>2 DEF Waiter, Quiet, Made, Waits, Epoch, Key, Slot, Cached
  <2>2. ASSUME NEW c \in Calls, NEW d \in Calls, joined[c] # NoCall PROVE ShareEntry(c, d)'
    BY <2>2 DEF WaitInv, ShareEntry, Quiet, Key
  <2> QED BY <2>1, <2>2 DEF WaitInv, Quiet
<1> QED BY <1>1, <1>2

LEMMA CallIsQuiet ==
  ASSUME Typed, MemoInv, NEW c \in Calls, ~TakeEntry(c), ~JoinEntry(c),
         Enter(c) \/ Go(c) \/ Cancel(c) \/ RefreshFails(c)
  PROVE  Quiet
<1> USE DEF Goto, Step, service, cache, Maker, Ended, Made, Waits, Cached
<1>1. ASSUME Enter(c) PROVE Quiet
  <2>1. CASE Step(c, "idle", "done")
    BY <1>1, <2>1 DEF Typed, MemoInv, Quiet, Enter
  <2>2. CASE Step(c, "idle", IF Gated(c) THEN "gate" ELSE "request")
    BY <1>1, <2>2 DEF Typed, MemoInv, Quiet, Enter, Gated
  <2> QED BY <1>1, <2>1, <2>2 DEF Enter
<1>2. ASSUME PassGate(c) PROVE Quiet
  BY <1>2 DEF Typed, MemoInv, Quiet, PassGate, UsesLease
<1>3. ASSUME AbandonGate(c) PROVE Quiet
  BY <1>3 DEF Typed, MemoInv, Quiet, AbandonGate
<1>4. ASSUME Acquire(c) PROVE Quiet
  BY <1>4 DEF Typed, MemoInv, Quiet, Acquire
<1>5. ASSUME AbandonLease(c) PROVE Quiet
  BY <1>5 DEF Typed, MemoInv, Quiet, AbandonLease
<1>6. ASSUME SkipCache(c) PROVE Quiet
  BY <1>6 DEF Typed, MemoInv, Quiet, SkipCache
<1>7. ASSUME Join(c) PROVE Quiet
  BY <1>7 DEF Typed, MemoInv, Quiet, Join
<1>8. ASSUME AbandonJoin(c) PROVE Quiet
  BY <1>8 DEF Typed, MemoInv, Quiet, AbandonJoin
<1>9. ASSUME Refuse(c) PROVE Quiet
  BY <1>9 DEF Typed, MemoInv, Quiet, Refuse
<1>10. ASSUME Start(c) PROVE Quiet
  BY <1>10 DEF Typed, MemoInv, Quiet, Start
<1>11. ASSUME Release(c) PROVE Quiet
  BY <1>11 DEF Typed, MemoInv, Quiet, Release
<1>12. ASSUME Leave(c) PROVE Quiet
  BY <1>12 DEF Typed, MemoInv, Quiet, Leave
<1>13. ASSUME Cancel(c) PROVE Quiet
  BY <1>13 DEF Typed, MemoInv, Quiet, Cancel
<1>14. ASSUME RefreshFails(c) PROVE Quiet
  BY <1>14 DEF Typed, MemoInv, Quiet, RefreshFails
<1>15. ASSUME NEW e \in Outcomes, Settle(c, e) PROVE Quiet
  BY <1>15 DEF Typed, MemoInv, Quiet, Settle
<1> QED BY <1>1, <1>2, <1>3, <1>4, <1>5, <1>6, <1>7, <1>8, <1>9, <1>10, <1>11, <1>12, <1>13, <1>14, <1>15 DEF Go

LEMMA TakeEntryKeepsEntries ==
  ASSUME Typed, MemoInv, EntryInv, WaitInv, NEW c \in Calls, TakeEntry(c)
  PROVE  EntryInv' /\ WaitInv'
<1>1. /\ pc[c] = "request" /\ pc' = [pc EXCEPT ![c] = "run"] /\ Cached(c)
      /\ entries[Key(c)] = NoCall /\ entries' = [entries EXCEPT ![Key(c)] = c]
      /\ era' = [era EXCEPT ![c] = Epoch(c)] /\ UNCHANGED <<epoch, joined, started>>
  BY DEF TakeEntry, Step, Goto, Epoch
<1>2. /\ Key(c) \in DOMAIN entries /\ Epoch(c) \in Nat
      /\ entries \in [DOMAIN entries -> Calls \cup {NoCall}]
  BY <1>1, Places DEF Typed, Epoch
<1>3. /\ joined[c] = NoCall /\ \A d \in Calls : joined[d] # c
      /\ \A k \in DOMAIN entries : entries[k] # c
  <2>1. joined[c] = NoCall
    BY <1>1 DEF WaitInv, Waiter, Ended
  <2>2. ASSUME NEW d \in Calls, joined[d] = c PROVE FALSE
    BY <1>1, <2>2 DEF WaitInv, Waiter, Ended, CallAssumption
  <2>3. ASSUME NEW k \in DOMAIN entries, entries[k] = c PROVE FALSE
    BY <1>1, <2>3 DEF EntryInv, Ended, CallAssumption
  <2> QED BY <2>1, <2>2, <2>3
<1>4. /\ \A d \in Calls : d # c => era'[d] = era[d] /\ pc'[d] = pc[d]
      /\ era'[c] = Epoch(c) /\ pc'[c] = "run" /\ entries'[Key(c)] = c
      /\ \A k \in DOMAIN entries : k # Key(c) => entries'[k] = entries[k]
      /\ DOMAIN entries' = DOMAIN entries
      /\ \A d \in Calls : Maker(d)' => d = c \/ Maker(d)
  BY <1>1, <1>2 DEF Typed, Maker, Cached
\* Nobody waits in the era of the entry that c makes.
<1>5. ASSUME NEW d \in Calls, joined[d] # NoCall, Key(d) = Key(c) PROVE era[d] # Epoch(c)
  <2>1. Epoch(d) = Epoch(c)
    BY <1>5 DEF Epoch, Key, Slot
  <2> QED BY <1>1, <1>5, <2>1 DEF WaitInv, Waiter, Typed
<1>6. EntryInv'
  <2>1. ASSUME NEW k \in DOMAIN entries, entries'[k] # NoCall
        PROVE  /\ Cached(entries'[k]) /\ Key(entries'[k]) = k
               /\ era'[entries'[k]] = epoch[Slot(entries'[k])]
               /\ joined[entries'[k]] = NoCall /\ pc'[entries'[k]] \in Made
    <3>1. CASE k = Key(c)
      BY <1>1, <1>3, <1>4, <3>1 DEF Made, Epoch
    <3>2. CASE k # Key(c)
      <4>1. entries'[k] = entries[k] /\ entries[k] \in Calls \ {c}
        BY <1>2, <1>3, <1>4, <2>1, <3>2
      <4> QED BY <1>4, <2>1, <4>1 DEF EntryInv, Made, Epoch
    <3> QED BY <3>1, <3>2
  <2>2. joined' = joined /\ epoch' = epoch /\ DOMAIN entries' = DOMAIN entries
    BY <1>1, <1>4
  <2> QED BY <2>1, <2>2 DEF EntryInv, Made, Epoch, Key, Slot, Cached
<1>7. WaitInv'
  <2>1. ASSUME NEW d \in Calls, joined[d] # NoCall
        PROVE  /\ joined[d] \in Calls \ {c} /\ d # c
               /\ (era[d] = Epoch(d) => entries'[Key(d)] = joined[d])
    <3>1. joined[d] \in Calls \ {c} /\ d # c
      BY <1>3, <2>1 DEF Typed
    <3>2. ASSUME era[d] = Epoch(d) PROVE Key(d) # Key(c)
      BY <1>5, <2>1, <3>2 DEF Key, Slot, Epoch
    <3>3. Key(d) \in DOMAIN entries
      BY <2>1, Places DEF WaitInv, Waiter, Typed
    <3> QED BY <1>4, <2>1, <3>1, <3>2, <3>3 DEF WaitInv, Waiter
  <2>2. ASSUME NEW d \in Calls, joined[d] # NoCall PROVE Waiter(d)'
    <3>1. Waiter(d)
      BY <2>2 DEF WaitInv
    <3> QED BY <1>1, <1>4, <2>1, <2>2, <3>1 DEF Waiter, Ended, Epoch, Key, Slot, Cached
  <2>3. ASSUME NEW x \in Calls, NEW y \in Calls, joined[x] # NoCall PROVE ShareEntry(x, y)'
    <3>1. SUFFICES ASSUME Key(x) = Key(y), era'[x] = era'[y]
          PROVE  /\ joined[y] # NoCall => joined[y] = joined[x]
                 /\ Maker(y)' => joined[x] = y
      BY <1>1 DEF ShareEntry, Key
    <3>2. x # c /\ y # c
      BY <1>4, <1>5, <2>1, <2>3, <3>1
    <3> QED BY <1>4, <2>3, <3>1, <3>2 DEF WaitInv, ShareEntry
  <2> QED BY <1>1, <2>2, <2>3 DEF WaitInv
<1> QED BY <1>6, <1>7

LEMMA JoinEntryKeepsEntries ==
  ASSUME Typed, MemoInv, EntryInv, WaitInv, NEW c \in Calls, JoinEntry(c)
  PROVE  EntryInv' /\ WaitInv'
<1> DEFINE e == entries[Key(c)]
<1>1. /\ pc[c] = "request" /\ pc' = [pc EXCEPT ![c] = "join"] /\ Cached(c) /\ e # NoCall
      /\ joined' = [joined EXCEPT ![c] = e] /\ era' = [era EXCEPT ![c] = Epoch(c)]
      /\ UNCHANGED <<entries, epoch, started>>
  BY DEF JoinEntry, Step, Goto, Epoch
<1>2. /\ Key(c) \in DOMAIN entries /\ e \in Calls /\ Epoch(c) \in Nat
  BY <1>1, Places DEF Typed, Epoch
<1>3. /\ Cached(e) /\ Key(e) = Key(c) /\ era[e] = Epoch(c) /\ joined[e] = NoCall
      /\ pc[e] \in Ended \cup {"run", "running"} /\ e # c
  BY <1>1, <1>2 DEF EntryInv, Ended, Epoch, Key, Slot
<1>4. /\ \A d \in Calls : d # c => era'[d] = era[d] /\ pc'[d] = pc[d] /\ joined'[d] = joined[d]
      /\ era'[c] = Epoch(c) /\ pc'[c] = "join" /\ joined'[c] = e
      /\ \A d \in Calls : Maker(d)' => d # c /\ Maker(d)
  BY <1>1, <1>2 DEF Typed, Maker, Cached, MemoInv, Ended
<1>5. \A d \in Calls : joined[d] # NoCall => d # c /\ joined[d] # c /\ joined[d] \in Calls
  BY <1>1 DEF Typed, WaitInv, Waiter, Ended
<1>6. EntryInv'
  <2>1. ASSUME NEW k \in DOMAIN entries, entries[k] # NoCall
        PROVE  entries[k] \in Calls \ {c}
    BY <1>1, <2>1 DEF Typed, EntryInv, Ended
  <2> QED BY <1>1, <1>4, <2>1 DEF EntryInv, Epoch, Key, Slot, Cached
<1>7. ASSUME NEW d \in Calls, joined'[d] # NoCall PROVE Waiter(d)'
  <2>1. CASE d = c
    <3>1. /\ era'[e] = Epoch(c) /\ joined'[e] = NoCall /\ c \notin started
          /\ pc'[e] \in Ended \cup {"run", "running"}
      BY <1>1, <1>2, <1>3, <1>4 DEF MemoInv, Ended
    <3>2. entries[Key(c)] = e /\ UNCHANGED <<entries, epoch, started>>
      BY <1>1
    <3> HIDE DEF e
    <3>3. Epoch(c) <= Epoch(c)
      BY <1>2
    <3> QED BY <1>1, <1>2, <1>3, <1>4, <2>1, <3>1, <3>2, <3>3
            DEF Waiter, Ended, Epoch, Key, Slot, Cached
  <2>2. CASE d # c
    <3>1. Waiter(d) /\ joined[d] \in Calls \ {c} /\ joined'[d] = joined[d]
      BY <1>4, <1>5, <1>7, <2>2 DEF WaitInv
    <3> QED BY <1>1, <1>4, <2>2, <3>1 DEF Waiter, Epoch, Key, Slot, Cached
  <2> QED BY <2>1, <2>2
\* Whoever shares request and era with c finds the entry that c joins.
<1>8. ASSUME NEW d \in Calls, d # c, Key(d) = Key(c), era[d] = Epoch(c)
      PROVE  (joined[d] # NoCall => joined[d] = e) /\ (Maker(d) => e = d)
  <2>1. Epoch(d) = Epoch(c) /\ entries[Key(d)] = e
    BY <1>8 DEF Epoch, Key, Slot
  <2> HIDE DEF e
  <2> QED BY <1>8, <2>1 DEF WaitInv, Waiter, MemoInv
<1>9. ASSUME NEW x \in Calls, NEW y \in Calls, joined'[x] # NoCall PROVE ShareEntry(x, y)'
  <2>1. SUFFICES ASSUME Key(x) = Key(y), era'[x] = era'[y]
        PROVE  /\ joined'[y] # NoCall => joined'[y] = joined'[x]
               /\ Maker(y)' => joined'[x] = y
    BY DEF ShareEntry, Key
  <2> HIDE DEF e
  <2>2. CASE x = c
    BY <1>4, <1>8, <2>1, <2>2
  <2>3. CASE x # c /\ y = c
    BY <1>4, <1>8, <1>9, <2>1, <2>3
  <2>4. CASE x # c /\ y # c
    BY <1>4, <1>9, <2>1, <2>4 DEF WaitInv, ShareEntry
  <2> QED BY <2>2, <2>3, <2>4
<1> QED BY <1>6, <1>7, <1>9 DEF WaitInv

LEMMA LossKeepsEntries ==
  ASSUME Typed, EntryInv, WaitInv, NEW l \in Lanes, NEW R \in SUBSET Requests, Lose(l, R),
         UNCHANGED <<joined, era, started>>, \A c \in Calls : pc'[c] \in {pc[c], "gone"}
  PROVE  EntryInv' /\ WaitInv'
<1>1. /\ DOMAIN entries' = DOMAIN entries
      /\ \A k \in DOMAIN entries : entries'[k] # NoCall => entries'[k] = entries[k]
      /\ \A k \in DOMAIN entries : entries[k] \in Calls \cup {NoCall}
  BY DEF Lose, Typed
<1>2. ASSUME NEW c \in Calls
      PROVE  /\ pc[c] \in Made => pc'[c] \in Made
             /\ pc[c] \in Waits => pc'[c] \in Waits
             /\ Maker(c)' => Maker(c)
  BY <1>2 DEF Made, Waits, Ended, Maker, Cached
<1>3. EntryInv'
  <2>1. ASSUME NEW k \in DOMAIN entries, entries'[k] # NoCall
        PROVE  /\ entries'[k] = entries[k] /\ entries[k] \in Calls
               /\ Cached(entries[k]) /\ Key(entries[k]) = k
               /\ era[entries[k]] = Epoch(entries[k]) /\ joined[entries[k]] = NoCall
               /\ pc'[entries[k]] \in Made
    BY <1>1, <1>2, <2>1 DEF EntryInv, Made
  <2>2. ASSUME NEW k \in DOMAIN entries, entries'[k] # NoCall
        PROVE  Epoch(entries[k])' = Epoch(entries[k])
    BY <2>1, <2>2, Losing
  <2> QED BY <1>1, <2>1, <2>2 DEF EntryInv, Made, Epoch, Key, Slot, Cached
<1>4. ASSUME NEW c \in Calls, joined[c] # NoCall PROVE Waiter(c)'
  <2>1. Waiter(c) /\ joined[c] \in Calls /\ Epoch(c) \in Nat /\ era[c] \in Nat
    BY <1>4, Places DEF WaitInv, Waiter, Typed, Epoch
  <2>2. era[c] <= Epoch(c)' /\ (era[c] = Epoch(c)' => entries'[Key(c)] = entries[Key(c)])
    BY <2>1, Losing DEF Waiter
  <2>3. era[c] = Epoch(c)' => era[c] = Epoch(c)
    BY <2>1, Losing DEF Waiter
  <2>4. pc'[c] \in Waits /\ pc'[joined[c]] \in Made
    BY <1>2, <2>1 DEF Waiter, Made, Waits
  <2> QED BY <2>1, <2>2, <2>3, <2>4 DEF Waiter, Made, Waits, Key, Slot, Cached, Epoch
<1>5. ASSUME NEW c \in Calls, NEW d \in Calls, joined[c] # NoCall PROVE ShareEntry(c, d)'
  BY <1>2, <1>5 DEF WaitInv, ShareEntry, Key
<1> QED BY <1>3, <1>4, <1>5 DEF WaitInv

LEMMA EntryStep ==
  ASSUME Typed, MemoInv, EntryInv, WaitInv, [Next]_vars
  PROVE  EntryInv' /\ WaitInv'
<1>1. ASSUME NEW c \in Calls, Enter(c) \/ Go(c) \/ Cancel(c) \/ RefreshFails(c)
      PROVE  EntryInv' /\ WaitInv'
  BY <1>1, CallIsQuiet, QuietKeepsEntries, TakeEntryKeepsEntries, JoinEntryKeepsEntries
<1>2. CASE UNCHANGED <<pc, cache, started>>
  <2>1. Quiet
    BY <1>2 DEF Quiet, cache, Maker, Cached
  <2> QED BY <2>1, QuietKeepsEntries
<1>3. ASSUME NEW l \in Lanes, NEW r \in Requests, Forget(l, r) PROVE EntryInv' /\ WaitInv'
  BY <1>3, LossKeepsEntries DEF Forget
<1>4. ASSUME NEW l \in Lanes, Crash(l) PROVE EntryInv' /\ WaitInv'
  <2>1. \A c \in Calls : pc'[c] \in {pc[c], "gone"}
    BY <1>4 DEF Crash, Typed
  <2> QED BY <1>4, <2>1, LossKeepsEntries DEF Crash
<1> QED BY <1>1, <1>2, <1>3, <1>4 DEF Next, Expire, vars

-----------------------------------------------------------------------------
\* The answers.

\* Steps of c that tell nobody anything.
LEMMA SilentKeepsAnswers ==
  ASSUME Typed, AnswerInv, UNCHANGED <<answer, joined>>,
         \A d \in Calls : /\ pc'[d] \notin Ended => pc[d] \notin Ended
                          /\ pc'[d] \in Back => pc[d] \in Back
                          /\ cause'[d] = "none" => cause[d] = "none"
  PROVE  AnswerInv'
BY DEF AnswerInv, Waited

\* Steps that tell c, which nobody has told before, something other than an entry's answer.
LEMMA TellingKeepsAnswers ==
  ASSUME Typed, WaitInv, AnswerInv, NEW c \in Calls, pc[c] \notin Ended,
         NEW a, answer' = [answer EXCEPT ![c] = a], UNCHANGED <<cause, joined>>,
         NEW x \in Ended, pc' = [pc EXCEPT ![c] = x],
         joined[c] = NoCall \/ cause[c] # "none"
  PROVE  AnswerInv'
<1>1. \A d \in Calls : /\ d # c => answer'[d] = answer[d] /\ pc'[d] = pc[d]
                       /\ pc'[c] \in Ended
  BY DEF Typed
<1>2. \A d \in Calls : joined[d] # NoCall => joined[d] \in Calls
  BY DEF Typed
<1> QED BY <1>1, <1>2 DEF AnswerInv, Waited

LEMMA CallKeepsAnswers ==
  ASSUME Typed, GateInv, WaitInv, AnswerInv, NEW c \in Calls,
         Enter(c) \/ Go(c) \/ Cancel(c) \/ RefreshFails(c)
  PROVE  AnswerInv'
<1> USE DEF Goto, Step, Answer, service, cache, Ended, Back
<1>1. ASSUME joined[c] # NoCall
      PROVE  pc[c] \notin {"idle", "gate", "lease", "request", "run", "running"}
  BY <1>1 DEF WaitInv, Waiter
<1>2. ASSUME Enter(c) PROVE AnswerInv'
  <2>1. CASE /\ Step(c, "idle", "done") /\ Answer(c, NoCall, "cancelled")
             /\ UNCHANGED <<cause, joined>>
    BY <1>1, <2>1, TellingKeepsAnswers
  <2>2. CASE Step(c, "idle", IF Gated(c) THEN "gate" ELSE "request") /\ UNCHANGED answer
    BY <1>2, <2>2, SilentKeepsAnswers DEF Typed, Enter, Gated
  <2> QED BY <1>2, <2>1, <2>2 DEF Enter
<1>3. ASSUME AbandonGate(c) PROVE AnswerInv'
  BY <1>1, <1>3, TellingKeepsAnswers DEF AbandonGate
<1>4. ASSUME AbandonLease(c) PROVE AnswerInv'
  BY <1>1, <1>4, TellingKeepsAnswers DEF AbandonLease
<1>5. ASSUME AbandonJoin(c) PROVE AnswerInv'
  BY <1>5, TellingKeepsAnswers DEF AbandonJoin
<1>6. ASSUME Refuse(c) PROVE AnswerInv'
  BY <1>1, <1>6, TellingKeepsAnswers DEF Refuse
<1>7. ASSUME NEW e \in Outcomes, Settle(c, e) PROVE AnswerInv'
  BY <1>1, <1>7, TellingKeepsAnswers DEF Settle
<1>8. ASSUME JoinEntry(c) PROVE AnswerInv'
  BY <1>8 DEF Typed, JoinEntry, AnswerInv, Waited
<1>9. ASSUME Join(c) PROVE AnswerInv'
  <2>1. /\ joined[c] \in Calls \ {c} /\ pc[c] = "join" /\ joined[c] # NoCall
    BY <1>9 DEF Typed, Join, GateInv, WaitInv, Waiter
  <2> QED BY <1>9, <2>1 DEF Typed, Join, AnswerInv, Waited
<1>10. ASSUME Cancel(c) \/ RefreshFails(c) PROVE AnswerInv'
  BY <1>10, SilentKeepsAnswers DEF Typed, Cancel, RefreshFails
<1>11. ASSUME PassGate(c) PROVE AnswerInv'
  BY <1>11, SilentKeepsAnswers DEF Typed, PassGate, UsesLease
<1>12. ASSUME Acquire(c) PROVE AnswerInv'
  BY <1>12, SilentKeepsAnswers DEF Typed, Acquire
<1>13. ASSUME TakeEntry(c) PROVE AnswerInv'
  BY <1>13, SilentKeepsAnswers DEF Typed, TakeEntry
<1>14. ASSUME SkipCache(c) PROVE AnswerInv'
  BY <1>14, SilentKeepsAnswers DEF Typed, SkipCache
<1>15. ASSUME Start(c) PROVE AnswerInv'
  BY <1>15, SilentKeepsAnswers DEF Typed, Start
<1>16. ASSUME Release(c) PROVE AnswerInv'
  BY <1>16, SilentKeepsAnswers DEF Typed, Release
<1>17. ASSUME Leave(c) PROVE AnswerInv'
  BY <1>17, SilentKeepsAnswers DEF Typed, Leave
<1> QED BY <1>2, <1>3, <1>4, <1>5, <1>6, <1>7, <1>8, <1>9, <1>10, <1>11, <1>12, <1>13, <1>14, <1>15, <1>16, <1>17 DEF Go

LEMMA AnswerStep ==
  ASSUME Typed, GateInv, WaitInv, AnswerInv, [Next]_vars
  PROVE  AnswerInv'
<1>1. ASSUME NEW c \in Calls, Enter(c) \/ Go(c) \/ Cancel(c) \/ RefreshFails(c)
      PROVE  AnswerInv'
  BY <1>1, CallKeepsAnswers
<1>2. CASE UNCHANGED <<pc, cause, answer, joined>>
  BY <1>2, SilentKeepsAnswers
<1>3. ASSUME NEW l \in Lanes, Crash(l) PROVE AnswerInv'
  BY <1>3, SilentKeepsAnswers DEF Typed, Crash, Ended, Back
<1> QED BY <1>1, <1>2, <1>3 DEF Next, Expire, Forget, vars, cache

-----------------------------------------------------------------------------
\* The theorems.

LaneInv ==
  /\ Typed /\ GateIsFull /\ GateInv /\ TokenInv /\ MemoInv /\ EntryInv /\ WaitInv /\ AnswerInv

LEMMA LaneInvariant == Spec => []LaneInv
<1>1. Init => LaneInv
  <2> SUFFICES ASSUME Init PROVE LaneInv
    OBVIOUS
  <2>1. Typed
    BY TypedInit
  <2>2. GateIsFull /\ GateInv /\ TokenInv
    BY DEF Init, GateIsFull, GateInv, TokenInv, Inside, Holding, Gated
  <2>3. MemoInv /\ EntryInv /\ WaitInv
    BY DEF Init, MemoInv, Maker, EntryInv, WaitInv
  <2>4. AnswerInv
    BY DEF Init, AnswerInv, Waited, NoAnswer
  <2> QED BY <2>1, <2>2, <2>3, <2>4 DEF LaneInv
<1>2. LaneInv /\ [Next]_vars => LaneInv'
  BY TypedStep, GateStep, TokenStep, MemoStep, EntryStep, AnswerStep DEF LaneInv
<1> QED BY <1>1, <1>2, PTL DEF Spec

\* The session lane keeps its types, and nobody empties a gate another call filled, for
\* any number of calls, lanes and sessions (session_lane.go:57-62).
THEOREM LaneTypes == Spec => []TypeOK
<1>1. LaneInv => TypeOK
  BY DEF LaneInv, TypeOK
<1> QED BY <1>1, LaneInvariant, PTL

\* Callbacks of one session exclude each other within a process, and between processes
\* as long as the older lease has not run out; tokens tell them apart
\* (session_lane_distributed.go:105-151).
THEOREM SessionsExclude == Spec => []MutualExclusion
<1>1. LaneInv => MutualExclusion
  <2> SUFFICES ASSUME LaneInv, NEW c \in Running, NEW d \in Running, c # d, Gated(c),
                      SessionOf[c] = SessionOf[d]
      PROVE  /\ LaneOf[c] # LaneOf[d]
             /\ UsesLease(c) /\ UsesLease(d) =>
                  token[c] # token[d] /\ (token[c] < token[d] => c \in lapsed)
    BY DEF MutualExclusion
  <2> c \in Calls /\ d \in Calls /\ pc[c] = "running" /\ pc[d] = "running"
    BY DEF Running
  <2>1. LaneOf[c] # LaneOf[d]
    BY DEF LaneInv, GateInv, Cell, Inside, Holding
  <2>2. ASSUME UsesLease(c), UsesLease(d), token[c] = token[d] PROVE FALSE
    BY <2>2 DEF LaneInv, TokenInv, Holding
  <2>3. ASSUME UsesLease(c), UsesLease(d), token[c] < token[d], c \notin lapsed PROVE FALSE
    <3>1. /\ token[c] # 0 /\ lease[SessionOf[c]] = token[c]
          /\ token[d] <= issued[SessionOf[c]]
      BY <2>3 DEF LaneInv, TokenInv, Holding, Gated
    <3>2. issued[SessionOf[c]] = token[c]
      BY <3>1 DEF LaneInv, TokenInv, Gated
    <3> QED BY <2>3, <3>1, <3>2 DEF LaneInv, Typed
  <2> QED BY <2>1, <2>2, <2>3
<1> QED BY <1>1, LaneInvariant, PTL

\* A callback is started by one call of its request only, until the lane forgets the
\* request, for any number of retries (session_lane.go:96-135).
THEOREM RequestsRunOnce == Spec => []Once
<1>1. LaneInv => Once
  <2> SUFFICES ASSUME LaneInv, NEW c \in started, NEW d \in started, Cached(c),
                      Key(c) = Key(d), era[c] = era[d]
      PROVE  c = d
    BY DEF Once
  <2>1. c \in Calls /\ d \in Calls
    BY DEF LaneInv, Typed
  <2>2. Maker(c) /\ Maker(d)
    BY DEF Maker, Cached, Key
  <2> QED BY <2>1, <2>2 DEF LaneInv, MemoInv
<1> QED BY <1>1, LaneInvariant, PTL

\* Whoever waits for an entry is told what its callback returned
\* (session_lane.go:101-109, 126-131).
THEOREM RetriesAgree == Spec => []SameAnswer
<1>1. LaneInv => SameAnswer
  <2> SUFFICES ASSUME LaneInv, NEW c \in Calls, NEW d \in Calls, Key(c) = Key(d),
                      era[c] = era[d], Waited(c), Waited(d) \/ d \in started
      PROVE  answer[c] = answer[d] /\ answer[c].given
    BY DEF SameAnswer
  <2>1. joined[c] # NoCall /\ answer[c] = answer[joined[c]] /\ answer[c].given /\ Cached(c) /\ ShareEntry(c, d)
    BY DEF LaneInv, AnswerInv, WaitInv, Waiter, Waited
  <2>2. CASE Waited(d)
    BY <2>1, <2>2 DEF LaneInv, AnswerInv, ShareEntry, Waited
  <2>3. CASE d \in started
    <3>1. Maker(d)
      BY <2>1, <2>3 DEF Maker, Cached, Key
    <3> QED BY <2>1, <3>1 DEF ShareEntry
  <2> QED BY <2>2, <2>3
<1> QED BY <1>1, LaneInvariant, PTL
=============================================================================
