-------------------------- MODULE PluginGenerations --------------------------
(***************************************************************************)
(* The plugin registry and its generations (src/plugin: registry.go,       *)
(* lifecycle.go, dependencies.go, generation.go).                          *)
(*                                                                         *)
(* A route maps a plugin name to an instance, and an instance to the       *)
(* generation that serves it.  Leases, dependent generations and           *)
(* operations in progress hold references to generations; a generation     *)
(* that is replaced or stopped is retired, and its owner stops it once no  *)
(* reference is left.                                                      *)
(*                                                                         *)
(* Acquire holds the registry's read lock from its first step to its last, *)
(* so the steps that take the write lock have NoReader as a guard; the     *)
(* counters and flags of one generation are under that generation's lock   *)
(* and change in one step.  An instance is named by its first generation.  *)
(***************************************************************************)
EXTENDS Naturals, FiniteSets, SequencesExt

CONSTANTS
  Names,      \* plugin names
  Deps,       \* Deps[n]: the names plugin n declares it depends on, in order
  Users,      \* callers of Acquire and RestoreReferences
  Hosts,      \* callers of ReplaceCandidates
  Requests,   \* the sequences of names users acquire
  Batches,    \* the sets of names hosts replace together
  Operated,   \* the names whose lifecycle operations are called
  MaxGens,    \* bound on the generations ever made
  MayForce,   \* whether hosts call ForceStop
  MayRestore  \* whether users call RestoreReferences

Gen == 1 .. MaxGens

DependsOn(n) == ToSet(Deps[n])

Closed(S) == \A m \in S : DependsOn(m) \subseteq S

\* n and everything it depends on, directly or not.
Closure(n) == {m \in Names : \A S \in SUBSET Names : n \in S /\ Closed(S) => m \in S}

\* The orders of S in which a dependency comes before its dependents.
DepsFirst(S) == {s \in SetToSeqs(S) :
                   \A i, j \in 1 .. Len(s) : i < j => s[j] \notin DependsOn(s[i])}

\* What the constants have to satisfy.
AcyclicDeps == \A n \in Names : \A d \in DependsOn(n) : n \notin Closure(d)

VARIABLES
  route,      \* name -> [inst, gen, state], or Absent
  gens,       \* generation -> its record
  made,       \* how many generations exist
  lease,      \* user -> its lease
  op,         \* name -> the lifecycle operation that holds its operation lock
  repl,       \* host -> its ReplaceCandidates call
  draining,   \* the goroutines of startRetirement: generations still to stop
  handed      \* the retirements hosts may still force, what is left of each

plugin_vars == <<route, gens, made, lease, op, repl, draining, handed>>

Absent == [inst |-> 0, gen |-> 0, state |-> "absent"]

NewGen(n) ==
  [name |-> n, binds |-> <<>>, raw |-> {}, owe |-> <<>>, started |-> FALSE,
   refs |-> 0, retired |-> FALSE, forced |-> FALSE, drained |-> 0,
   stop |-> "no", failed |-> FALSE]

NoLease == [at |-> "idle", gens |-> <<>>, todo |-> <<>>]
NoOp    == [at |-> "idle", inst |-> 0, gen |-> 0, view |-> <<>>, used |-> {}, owe |-> <<>>]
NoRepl  == [at |-> "idle", order |-> <<>>, k |-> 1, old |-> <<>>, gen |-> <<>>,
            view |-> <<>>, pref |-> <<>>, owe |-> <<>>]

(* The host has enabled its plugins in dependency order: each runs in its  *)
(* first generation, bound to the first generations of what it needs.      *)
InitGen(n) == LET s == CHOOSE s \in DepsFirst(Names) : TRUE
              IN  CHOOSE i \in 1 .. Len(s) : s[i] = n

Init ==
  /\ route = [n \in Names |-> [inst |-> InitGen(n), gen |-> InitGen(n), state |-> "running"]]
  /\ gens = [g \in Gen |->
       IF \E n \in Names : InitGen(n) = g
       THEN LET n == CHOOSE n \in Names : InitGen(n) = g
            IN  [NewGen(n) EXCEPT !.started = TRUE,
                   !.binds = [i \in DOMAIN Deps[n] |-> InitGen(Deps[n][i])],
                   !.refs = Cardinality({m \in Names : n \in DependsOn(m)})]
       ELSE NewGen(CHOOSE n \in Names : TRUE)]
  /\ made = Cardinality(Names)
  /\ lease = [u \in Users |-> NoLease]
  /\ op = [n \in Names |-> NoOp]
  /\ repl = [h \in Hosts |-> NoRepl]
  /\ draining = {}
  /\ handed = {}

----------------------------------------------------------------------------
(* References.                                                             *)

\* refs++ on every generation of S.
Pinned(G, S) == [g \in Gen |-> IF g \in S THEN [G[g] EXCEPT !.refs = @ + 1] ELSE G[g]]

\* Only retiring closes drained: a generation retired in use never drains.
FaultyDropped(G, S) == [g \in Gen |-> IF g \in S THEN [G[g] EXCEPT !.refs = @ - 1] ELSE G[g]]

\* releaseGeneration on every generation of S: the last reference of a
\* retired generation closes drained.
Dropped(G, S) == [g \in Gen |->
  IF g \in S
  THEN [G[g] EXCEPT !.refs = @ - 1,
                    !.drained = IF G[g].retired /\ G[g].refs = 1 THEN @ + 1 ELSE @]
  ELSE G[g]]

\* retireGeneration on every generation of S.
Retired(G, S) == [g \in Gen |->
  IF g \in S /\ ~G[g].retired
  THEN [G[g] EXCEPT !.retired = TRUE, !.drained = IF G[g].refs = 0 THEN @ + 1 ELSE @]
  ELSE G[g]]

\* The registry's read lock is free for a writer.
NoReader == \A u \in Users : lease[u].at \notin {"acquiring", "failed"}

Routed(n, inst) == route[n].inst = inst /\ inst # 0

SetState(n, inst, s) == IF Routed(n, inst) THEN [route EXCEPT ![n].state = s] ELSE route

\* captureDependencies: every declared dependency is there, not retired, not forced.
Visible(n) == [i \in DOMAIN Deps[n] |-> route[Deps[n][i]].gen]

\* A generation that is about to be stopped is captured.
FaultyCanCapture(n) == \A d \in DependsOn(n) : route[d] # Absent /\ ~gens[route[d].gen].forced

CanCapture(n) == \A d \in DependsOn(n) :
  route[d] # Absent /\ ~gens[route[d].gen].retired /\ ~gens[route[d].gen].forced

\* legacyBindingsCurrent: what was not taken from the context is still routed.
LegacyCurrent(view, used) == \A g \in ToSet(view) :
  gens[g].name \in used \/ route[gens[g].name].gen = g

----------------------------------------------------------------------------
(* Leases: Acquire, its include walk, Release, RestoreReferences.          *)

AcquireBegin(u) ==
  /\ lease[u].at = "idle"
  /\ \E ns \in Requests :
       /\ \A n \in ToSet(ns) : route[n].state = "running"
       /\ lease' = [lease EXCEPT ![u] =
            [at |-> "acquiring", gens |-> <<>>,
             todo |-> [i \in DOMAIN ns |-> [gen |-> route[ns[i]].gen, root |-> TRUE]]]]
  /\ UNCHANGED <<route, gens, made, op, repl, draining, handed>>

\* What a lease may still begin on.
Available(g, root) ==
  /\ ~gens[g].forced
  /\ root => ~gens[g].retired
  /\ root \/ gens[g].started
  /\ gens[g].stop # "done"

(* One call of include: the generation is pinned and its bindings copied   *)
(* under its lock; the dependencies are visited after the unlock.          *)
AcquireInclude(u) ==
  /\ lease[u].at = "acquiring"
  /\ lease[u].todo # <<>>
  /\ LET g    == Head(lease[u].todo).gen
         root == Head(lease[u].todo).root
         rest == Tail(lease[u].todo)
         deps == [i \in DOMAIN gens[g].binds |-> [gen |-> gens[g].binds[i], root |-> FALSE]]
         At(todo) == IF todo = <<>> THEN "held" ELSE "acquiring"
     IN  \/ /\ g \in ToSet(lease[u].gens)
            /\ lease' = [lease EXCEPT ![u].todo = rest, ![u].at = At(rest)]
            /\ UNCHANGED gens
         \/ /\ g \notin ToSet(lease[u].gens)
            /\ Available(g, root)
            /\ gens' = Pinned(gens, {g})
            /\ lease' = [lease EXCEPT ![u].gens = Append(@, g), ![u].todo = deps \o rest,
                                      ![u].at = At(deps \o rest)]
         \/ /\ g \notin ToSet(lease[u].gens)
            /\ ~Available(g, root)
            /\ lease' = [lease EXCEPT ![u] = IF lease[u].gens = <<>> THEN NoLease
                                             ELSE [@ EXCEPT !.at = "failed", !.todo = <<>>]]
            /\ UNCHANGED gens
  /\ UNCHANGED <<route, made, op, repl, draining, handed>>

\* Lease.Release, one generation after the other; also what Acquire does
\* with what it pinned when it fails.
ReleaseStep(u) ==
  /\ lease[u].at \in {"held", "releasing", "failed"}
  /\ gens' = Dropped(gens, {Head(lease[u].gens)})
  /\ lease' = [lease EXCEPT ![u] =
       IF Len(lease[u].gens) = 1 THEN NoLease
       ELSE [@ EXCEPT !.gens = Tail(@), !.at = IF @ = "failed" THEN @ ELSE "releasing"]]
  /\ UNCHANGED <<route, made, op, repl, draining, handed>>

(* RestoreReferences builds private generations for n and all it depends   *)
(* on, dependencies first; nobody sees them before the call returns, so    *)
(* the call is one step.  When it succeeds the lease pins all of them and  *)
(* their owner retires them; when building fails after `built` of them,    *)
(* those are retired without a lease.                                      *)
Restore(u, n) ==
  /\ MayRestore
  /\ lease[u].at = "idle"
  /\ \E order \in DepsFirst(Closure(n)), built \in 1 .. Cardinality(Closure(n)) :
       LET whole   == built = Len(order)
           fresh   == made + 1 .. made + built
           GenOf(m) == made + CHOOSE i \in 1 .. Len(order) : order[i] = m
           at(g)   == order[g - made]
           users(g) == {h \in fresh : at(g) \in DependsOn(at(h))}
           raw(held) == [g \in Gen |->
             IF g \in fresh
             THEN [NewGen(at(g)) EXCEPT !.started = TRUE,
                     !.binds = [i \in DOMAIN Deps[at(g)] |-> GenOf(Deps[at(g)][i])],
                     !.refs = Cardinality(users(g)) + held]
             ELSE gens[g]]
           created == [i \in 1 .. built |-> made + built + 1 - i]
       IN  /\ made + built <= MaxGens
           /\ made' = made + built
           /\ draining' = draining \cup {created}
           /\ \/ /\ whole
                 /\ gens' = Retired(raw(1), fresh)
                 /\ lease' = [lease EXCEPT ![u] = [at |-> "held", gens |-> created, todo |-> <<>>]]
              \/ /\ gens' = Retired(raw(0), fresh)
                 /\ UNCHANGED lease
  /\ UNCHANGED <<route, op, repl, handed>>

----------------------------------------------------------------------------
(* Stopping a generation: stop(ctx, force), its goroutine, startRetirement. *)

StopCalled(G, g) == [G EXCEPT ![g].stop = IF @ = "no" THEN "stopping" ELSE @]

ForceStop(r) ==
  /\ MayForce
  /\ gens' = [StopCalled(gens, Head(r)) EXCEPT ![Head(r)].forced = TRUE]
  /\ handed' = (handed \ {r}) \cup (IF Len(r) = 1 THEN {} ELSE {Tail(r)})
  /\ UNCHANGED <<route, made, lease, op, repl, draining>>

\* The retirement goroutine has seen drained (or done) closed and stops it.
DrainStop(r) ==
  /\ gens[Head(r)].stop = "no"
  /\ gens[Head(r)].drained > 0
  /\ gens' = StopCalled(gens, Head(r))
  /\ UNCHANGED <<route, made, lease, op, repl, draining, handed>>

DrainNext(r) ==
  /\ gens[Head(r)].stop = "done"
  /\ draining' = (draining \ {r}) \cup (IF Len(r) = 1 THEN {} ELSE {Tail(r)})
  /\ UNCHANGED <<route, gens, made, lease, op, repl, handed>>

\* The plugin's Stop returns: its error is recorded and
\* releaseDependencyBindings takes the bindings to give back.
PluginStopped(g) ==
  /\ gens[g].stop = "stopping"
  /\ \E err \in BOOLEAN :
       gens' = [gens EXCEPT ![g].stop = "releasing", ![g].failed = err \/ gens[g].forced,
                            ![g].owe = gens[g].binds, ![g].binds = <<>>, ![g].raw = {}]
  /\ UNCHANGED <<route, made, lease, op, repl, draining, handed>>

StopReleases(g) ==
  /\ gens[g].stop = "releasing"
  /\ IF gens[g].owe = <<>>
     THEN gens' = [gens EXCEPT ![g].stop = "done"]
     ELSE gens' = [Dropped(gens, {Head(gens[g].owe)}) EXCEPT ![g].owe = Tail(@)]
  /\ UNCHANGED <<route, made, lease, op, repl, draining, handed>>

----------------------------------------------------------------------------
(* Lifecycle operations of one name, serialised by its operation lock.     *)

Register(n) ==
  /\ route[n] = Absent /\ made < MaxGens /\ NoReader
  /\ made' = made + 1
  /\ gens' = [gens EXCEPT ![made + 1] = NewGen(n)]
  /\ route' = [route EXCEPT ![n] = [inst |-> made + 1, gen |-> made + 1, state |-> "loaded"]]
  /\ UNCHANGED <<lease, op, repl, draining, handed>>

\* The bindings given back, and the generation without them.
Unbound(G, g) == [G EXCEPT ![g].binds = <<>>, ![g].raw = {}]

Unregister(n) ==
  /\ route[n] # Absent /\ route[n].state # "running" /\ NoReader
  /\ route' = [route EXCEPT ![n] = Absent]
  /\ gens' = Dropped(Unbound(gens, route[n].gen), ToSet(gens[route[n].gen].binds))
  /\ UNCHANGED <<made, lease, op, repl, draining, handed>>

InitBegin(n) ==
  /\ op[n].at = "idle"
  /\ route[n].state = "loaded"
  /\ CanCapture(n)
  /\ gens' = Pinned(gens, ToSet(Visible(n)))
  /\ op' = [op EXCEPT ![n] = [NoOp EXCEPT !.at = "initializing", !.inst = route[n].inst,
                                          !.gen = route[n].gen, !.view = Visible(n)]]
  /\ UNCHANGED <<route, made, lease, repl, draining, handed>>

\* The callback fails, or what it read from the registry is no longer there.
InitReturns(n) ==
  /\ op[n].at = "initializing"
  /\ \/ op' = [op EXCEPT ![n].at = "failing", ![n].owe = op[n].view]
     \/ \E used \in SUBSET DependsOn(n) :
          op' = [op EXCEPT ![n] =
                   IF LegacyCurrent(op[n].view, used)
                   THEN [@ EXCEPT !.at = "initialized", !.used = used]
                   ELSE [@ EXCEPT !.at = "leaving", !.owe = op[n].view]]
  /\ UNCHANGED <<route, gens, made, lease, repl, draining, handed>>

InitPublish(n) ==
  /\ op[n].at = "initialized" /\ NoReader
  /\ IF Routed(n, op[n].inst)
     THEN /\ route' = [route EXCEPT ![n].state = "initialized"]
          /\ gens' = [gens EXCEPT ![route[n].gen].binds = op[n].view,
                                  ![route[n].gen].raw = DependsOn(n) \ op[n].used]
          /\ op' = [op EXCEPT ![n] = NoOp]
     ELSE /\ op' = [op EXCEPT ![n].at = "leaving", ![n].owe = op[n].view]
          /\ UNCHANGED <<route, gens>>
  /\ UNCHANGED <<made, lease, repl, draining, handed>>

\* A stopped plugin restarts in a generation of its own, bound afresh; an
\* initialized one starts in the generation Init bound.
StartBegin(n) ==
  /\ op[n].at = "idle"
  /\ \/ /\ route[n].state = "initialized"
        /\ \A d \in ToSet(gens[route[n].gen].binds) : gens[d].started /\ ~gens[d].forced
        /\ op' = [op EXCEPT ![n] =
             [NoOp EXCEPT !.at = "starting", !.inst = route[n].inst, !.gen = route[n].gen,
                !.view = gens[route[n].gen].binds, !.used = DependsOn(n) \ gens[route[n].gen].raw]]
        /\ UNCHANGED <<gens, made>>
     \/ /\ route[n].state = "stopped"
        /\ made < MaxGens
        /\ CanCapture(n)
        /\ \A d \in ToSet(Visible(n)) : gens[d].started
        /\ made' = made + 1
        /\ gens' = [Pinned(gens, ToSet(Visible(n))) EXCEPT ![made + 1] =
                      [NewGen(n) EXCEPT !.binds = Visible(n), !.raw = DependsOn(n)]]
        /\ op' = [op EXCEPT ![n] = [NoOp EXCEPT !.at = "starting", !.inst = route[n].inst,
                                      !.gen = made + 1, !.view = Visible(n)]]
  /\ UNCHANGED <<route, lease, repl, draining, handed>>

StartGivesUp(n, at) ==
  /\ op' = [op EXCEPT ![n].at = at, ![n].owe = gens[op[n].gen].binds]
  /\ gens' = Unbound(gens, op[n].gen)

StartReturns(n) ==
  /\ op[n].at = "starting"
  /\ \/ StartGivesUp(n, "failing")
     \/ \E used \in SUBSET DependsOn(n) :
          IF LegacyCurrent(op[n].view, used \cup op[n].used)
          THEN op' = [op EXCEPT ![n].at = "started"] /\ UNCHANGED gens
          ELSE StartGivesUp(n, "failing")
  /\ UNCHANGED <<route, made, lease, repl, draining, handed>>

StartPublish(n) ==
  /\ op[n].at = "started" /\ NoReader
  /\ IF Routed(n, op[n].inst)
     THEN /\ route' = [route EXCEPT ![n].gen = op[n].gen, ![n].state = "running"]
          /\ gens' = [gens EXCEPT ![op[n].gen].started = TRUE]
          /\ op' = [op EXCEPT ![n] = NoOp]
     ELSE StartGivesUp(n, "leaving") /\ UNCHANGED route
  /\ UNCHANGED <<made, lease, repl, draining, handed>>

\* A failed operation gives back what it held, then marks its instance.
GiveUpStep(n) ==
  /\ op[n].at \in {"failing", "leaving"}
  /\ IF op[n].owe # <<>>
     THEN /\ gens' = Dropped(gens, {Head(op[n].owe)})
          /\ op' = [op EXCEPT ![n].owe = Tail(@)]
          /\ UNCHANGED route
     ELSE /\ op[n].at = "failing" => NoReader
          /\ route' = IF op[n].at = "failing" THEN SetState(n, op[n].inst, "error") ELSE route
          /\ op' = [op EXCEPT ![n] = NoOp]
          /\ UNCHANGED gens
  /\ UNCHANGED <<made, lease, repl, draining, handed>>

\* Stop refuses while a running plugin is bound to this very generation.
StopScan(n) ==
  /\ op[n].at = "idle"
  /\ route[n].state = "running"
  /\ \A m \in Names \ {n} : route[m].state = "running" =>
       route[n].gen \notin ToSet(gens[route[m].gen].binds)
  /\ op' = [op EXCEPT ![n] = [NoOp EXCEPT !.at = "scanned", !.inst = route[n].inst,
                                          !.gen = route[n].gen]]
  /\ UNCHANGED <<route, gens, made, lease, repl, draining, handed>>

StopRetire(n) ==
  /\ op[n].at = "scanned" /\ NoReader
  /\ gens' = Retired(gens, {op[n].gen})
  /\ draining' = draining \cup {<<op[n].gen>>}
  /\ op' = [op EXCEPT ![n].at = "waiting"]
  /\ UNCHANGED <<route, made, lease, repl, handed>>

\* The wait ends because the generation is done, or because its context is:
\* then the plugin still counts as running.
StopReturns(n) ==
  /\ op[n].at = "waiting"
  /\ \/ /\ gens[op[n].gen].stop = "done" /\ NoReader
        /\ route' = SetState(n, op[n].inst, IF gens[op[n].gen].failed THEN "error" ELSE "stopped")
     \/ UNCHANGED route
  /\ op' = [op EXCEPT ![n] = NoOp]
  /\ UNCHANGED <<gens, made, lease, repl, draining, handed>>

----------------------------------------------------------------------------
(* ReplaceCandidates.                                                      *)

ReplaceBegin(h) ==
  /\ repl[h].at = "idle"
  /\ \E S \in Batches : \E order \in DepsFirst(S) :
       /\ \A n \in S : route[n] # Absent
       /\ made + Cardinality(S) <= MaxGens
       /\ made' = made + Cardinality(S)
       /\ gens' = [g \in Gen |-> IF g \in made + 1 .. made + Cardinality(S)
                                 THEN NewGen(order[g - made]) ELSE gens[g]]
       /\ repl' = [repl EXCEPT ![h] =
            [NoRepl EXCEPT !.at = "capture", !.order = order,
               !.old = [i \in DOMAIN order |-> route[order[i]].inst],
               !.gen = [i \in DOMAIN order |-> made + i]]]
  /\ UNCHANGED <<route, lease, op, draining, handed>>

Current(h) == repl[h].order[repl[h].k]

\* The candidate generation of name d, when d is replaced by the same call.
Among(h, d) == \E i \in DOMAIN repl[h].order : repl[h].order[i] = d
CandidateOf(h, d) == repl[h].gen[CHOOSE i \in DOMAIN repl[h].order : repl[h].order[i] = d]

\* What the current candidate holds: what it captured and the candidates it prefers.
Held(h) == ToSet(repl[h].view) \cup ToSet(repl[h].pref)

\* The bindings of the candidates already finished are forgotten, not released.
FaultyCleanup(h, held) ==
  LET finished == {repl[h].gen[i] : i \in 1 .. (repl[h].k - 1)}
  IN  /\ repl' = [repl EXCEPT ![h].at = "cleanup", ![h].view = <<>>, ![h].pref = <<>>,
                    ![h].owe = SetToSeq(held)]
      /\ gens' = [g \in Gen |-> IF g \in finished THEN [gens[g] EXCEPT !.binds = <<>>] ELSE gens[g]]

\* cleanup: the candidate in hand gives back what it holds, the finished ones
\* their bindings.
Cleanup(h, held) ==
  LET finished == {repl[h].gen[i] : i \in 1 .. (repl[h].k - 1)}
      bound    == UNION {ToSet(gens[g].binds) : g \in finished}
  IN  /\ repl' = [repl EXCEPT ![h].at = "cleanup", ![h].view = <<>>, ![h].pref = <<>>,
                    ![h].owe = SetToSeq(held) \o
                               FlattenSeq([i \in 1 .. (repl[h].k - 1) |-> gens[repl[h].gen[i]].binds])]
      /\ gens' = [g \in Gen |-> IF g \in finished THEN [gens[g] EXCEPT !.binds = <<>>] ELSE gens[g]]

ReplaceCapture(h) ==
  /\ repl[h].at = "capture" /\ repl[h].owe = <<>>
  /\ LET n    == Current(h)
         view == Visible(n)
         pref == [i \in DOMAIN view |-> IF Among(h, gens[view[i]].name)
                                        THEN CandidateOf(h, gens[view[i]].name) ELSE view[i]]
     IN  IF CanCapture(n)
         THEN /\ gens' = Pinned(gens, ToSet(view) \cup ToSet(pref))
              /\ repl' = [repl EXCEPT ![h].at = "init", ![h].view = view, ![h].pref = pref]
         ELSE Cleanup(h, {})
  /\ UNCHANGED <<route, made, lease, op, draining, handed>>

\* Init has returned; the dependencies that are not candidates must be running.
ReplaceInit(h) ==
  /\ repl[h].at = "init"
  /\ IF \A d \in DependsOn(Current(h)) : Among(h, d) \/ route[d].state = "running"
     THEN repl' = [repl EXCEPT ![h].at = "start"] /\ UNCHANGED gens
     ELSE Cleanup(h, Held(h))
  /\ UNCHANGED <<route, made, lease, op, draining, handed>>

\* Start has returned: each dependency is bound as it was used.
ReplaceStart(h) ==
  /\ repl[h].at = "start"
  /\ \E used \in SUBSET DependsOn(Current(h)) :
       IF ~LegacyCurrent(repl[h].view, used)
       THEN Cleanup(h, Held(h))
       ELSE LET view   == repl[h].view
                chosen == [i \in DOMAIN view |->
                             IF gens[view[i]].name \in used THEN repl[h].pref[i] ELSE view[i]]
                last   == repl[h].k = Len(repl[h].order)
            IN  /\ gens' = [gens EXCEPT ![repl[h].gen[repl[h].k]].binds = chosen,
                                        ![repl[h].gen[repl[h].k]].started = TRUE]
                /\ repl' = [repl EXCEPT ![h].at = IF last THEN "publish" ELSE "capture",
                              ![h].k = @ + 1,
                              ![h].view = <<>>, ![h].pref = <<>>,
                              ![h].owe = SetToSeq(Held(h) \ ToSet(chosen))]
  /\ UNCHANGED <<route, made, lease, op, draining, handed>>

\* A callback fails or the context is cancelled.
ReplaceAbort(h) ==
  /\ \/ repl[h].at \in {"init", "start"}
     \/ repl[h].at = "publish" /\ repl[h].owe = <<>>
  /\ Cleanup(h, Held(h))
  /\ UNCHANGED <<route, made, lease, op, draining, handed>>

\* All routes change at once, and the old generations retire, dependents first.
ReplacePublish(h) ==
  /\ repl[h].at = "publish" /\ repl[h].owe = <<>> /\ NoReader
  /\ LET order == repl[h].order
         olds  == [i \in DOMAIN order |-> route[order[i]].gen]
     IN  IF \A i \in DOMAIN order : Routed(order[i], repl[h].old[i]) /\ ~gens[olds[i]].retired
         THEN /\ route' = [n \in Names |->
                   IF Among(h, n)
                   THEN [inst |-> CandidateOf(h, n), gen |-> CandidateOf(h, n), state |-> "running"]
                   ELSE route[n]]
              /\ gens' = Retired(gens, ToSet(olds))
              /\ draining' = draining \cup {Reverse(olds)}
              /\ handed' = IF MayForce THEN handed \cup {Reverse(olds)} ELSE handed
              /\ repl' = [repl EXCEPT ![h] = NoRepl]
         ELSE Cleanup(h, {}) /\ UNCHANGED <<route, draining, handed>>
  /\ UNCHANGED <<made, lease, op>>

ReplaceReleases(h) ==
  /\ \/ /\ repl[h].owe # <<>>
        /\ gens' = Dropped(gens, {Head(repl[h].owe)})
        /\ repl' = [repl EXCEPT ![h].owe = Tail(@)]
     \/ /\ repl[h].at = "cleanup" /\ repl[h].owe = <<>>
        /\ repl' = [repl EXCEPT ![h] = NoRepl]
        /\ UNCHANGED gens
  /\ UNCHANGED <<route, made, lease, op, draining, handed>>

----------------------------------------------------------------------------
LeaseStep(u) ==
  \/ AcquireBegin(u) \/ AcquireInclude(u) \/ ReleaseStep(u)
  \/ \E n \in Names : Restore(u, n)

LifecycleStep(n) ==
  \/ Register(n) \/ Unregister(n)
  \/ InitBegin(n) \/ InitReturns(n) \/ InitPublish(n)
  \/ StartBegin(n) \/ StartReturns(n) \/ StartPublish(n) \/ GiveUpStep(n)
  \/ StopScan(n) \/ StopRetire(n) \/ StopReturns(n)

ReplaceStep(h) ==
  \/ ReplaceBegin(h) \/ ReplaceCapture(h) \/ ReplaceInit(h) \/ ReplaceStart(h)
  \/ ReplaceAbort(h) \/ ReplacePublish(h) \/ ReplaceReleases(h)

StopStep ==
  \/ \E r \in handed : ForceStop(r)
  \/ \E r \in draining : DrainStop(r) \/ DrainNext(r)
  \/ \E g \in Gen : PluginStopped(g) \/ StopReleases(g)

\* Closing a closed channel panics and ends the process.
Alive == \A g \in Gen : gens[g].drained <= 1

Next ==
  /\ Alive
  /\ \/ \E u \in Users : LeaseStep(u)
     \/ \E n \in Operated : LifecycleStep(n)
     \/ \E h \in Hosts : ReplaceStep(h)
     \/ StopStep

Spec == Init /\ [][Next]_plugin_vars

\* A step of the retirement goroutine that has k generations left, g first.
DrainAt(g, k) == \E r \in draining :
  Head(r) = g /\ Len(r) = k /\ (DrainStop(r) \/ DrainNext(r))

(* Callbacks return, leases are released and goroutines run.  The registry *)
(* lock lets a waiting writer in before the next reader, so the steps that *)
(* wait for it are strongly fair.  Nobody has to begin an operation, to    *)
(* force a stop, to give up a call, or to cancel a wait.                   *)
Fairness ==
  /\ \A u \in Users : WF_plugin_vars(Alive /\ (AcquireInclude(u) \/ ReleaseStep(u)))
  /\ \A n \in Operated :
       /\ WF_plugin_vars(Alive /\ (InitReturns(n) \/ StartReturns(n)))
       /\ SF_plugin_vars(Alive /\ (InitPublish(n) \/ StartPublish(n)))
       /\ SF_plugin_vars(Alive /\ (GiveUpStep(n) \/ StopRetire(n)))
  /\ \A h \in Hosts :
       /\ WF_plugin_vars(Alive /\ (ReplaceCapture(h) \/ ReplaceInit(h) \/ ReplaceStart(h)))
       /\ SF_plugin_vars(Alive /\ (ReplacePublish(h) \/ ReplaceReleases(h)))
  /\ \A g \in Gen :
       /\ WF_plugin_vars(Alive /\ (PluginStopped(g) \/ StopReleases(g)))
       /\ \A k \in 1 .. Cardinality(Names) : WF_plugin_vars(Alive /\ DrainAt(g, k))

FairSpec == Spec /\ Fairness

----------------------------------------------------------------------------
TypeOK ==
  /\ made \in 0 .. MaxGens
  /\ \A n \in Names : /\ route[n].inst \in 0 .. made /\ route[n].gen \in 0 .. made
                       /\ route[n].state \in {"absent", "loaded", "initialized", "running",
                                               "stopped", "error"}
                       /\ op[n].at \in {"idle", "initializing", "initialized", "starting",
                            "started", "failing", "leaving", "scanned", "waiting"}
  /\ \A g \in Gen : /\ gens[g].refs \in Nat /\ gens[g].drained \in 0 .. 2
                     /\ gens[g].stop \in {"no", "stopping", "releasing", "done"}
                     /\ ToSet(gens[g].binds) \cup ToSet(gens[g].owe) \subseteq 1 .. made
  /\ \A u \in Users : /\ lease[u].at \in {"idle", "acquiring", "held", "releasing", "failed"}
                       /\ lease[u].at \in {"held", "releasing", "failed"} => lease[u].gens # <<>>
  /\ \A h \in Hosts : repl[h].at \in {"idle", "capture", "init", "start", "publish", "cleanup"}
  /\ \A r \in draining \cup handed : r # <<>> /\ ToSet(r) \subseteq 1 .. made

\* How often g occurs in s.
Count(s, g) == Cardinality({i \in DOMAIN s : s[i] = g})

\* The sum of F(x) over S.
Total(F(_), S) == FoldSet(LAMBDA x, n : n + F(x), 0, S)

(* Every reference counted on a generation has exactly one holder that     *)
(* will give it back: a lease, a generation bound to it (or stopping and   *)
(* about to release it), a lifecycle operation or a replacement.  Lost, it *)
(* keeps a retired plugin alive forever; given back twice, it stops one in *)
(* use.                                                                    *)
RefsAreHolders == \A g \in Gen :
  gens[g].refs =
      Total(LAMBDA u : Count(lease[u].gens, g), Users)
    + Total(LAMBDA h : Count(gens[h].binds, g) + Count(gens[h].owe, g), Gen)
    + Total(LAMBDA n : Count(op[n].owe, g) + (IF op[n].at \in {"initializing", "initialized"}
                                              THEN Count(op[n].view, g) ELSE 0), Names)
    + Total(LAMBDA h : Count(repl[h].owe, g) + (IF g \in Held(h) THEN 1 ELSE 0), Hosts)

(* A lease that no forced stop has touched is served: none of its          *)
(* generations has begun to stop, however often their names were replaced, *)
(* stopped or registered anew since it was acquired.                       *)
HeldIsServed == \A u \in Users :
  lease[u].at = "held" /\ (\A g \in ToSet(lease[u].gens) : ~gens[g].forced)
    => \A g \in ToSet(lease[u].gens) : gens[g].stop = "no"

(* What a serving generation is bound to is not stopped under it, except   *)
(* by force: replacing or stopping a dependency waits for its dependents.  *)
BoundIsServed == \A h \in Gen :
  gens[h].started /\ gens[h].stop = "no" =>
     \A d \in ToSet(gens[h].binds) : gens[d].stop = "no" \/ gens[d].forced

\* Some generation that is not retired is bound to g, directly or not.
Needed(g) == \A S \in SUBSET (1 .. made) :
  (/\ \A h \in 1 .. made : ~gens[h].retired => h \in S
   /\ \A h \in S : ToSet(gens[h].binds) \subseteq S) => g \in S

(* A retired generation is stopped in the end, unless something that is    *)
(* not retired stays bound to it: in a set replaced together no generation *)
(* waits for one that is to be stopped after it.                           *)
RetiredIsStopped == \A g \in Gen :
  []<>(~gens[g].retired \/ Needed(g) \/ gens[g].stop = "done")

(* A generation whose drained channel is closed has no user left and never *)
(* gets one: Acquire is to leave no window between reading a route and     *)
(* pinning what it leads to.                                               *)
DrainedIsUnused == \A g \in Gen : gens[g].drained > 0 => gens[g].refs = 0
=============================================================================
