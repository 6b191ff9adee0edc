----------------------------- MODULE MCComponents -----------------------------
(***************************************************************************)
(* The components of Components and two instances of the plugin registry,  *)
(* their safety checked side by side, with the arguments of the calls and  *)
(* the bounds of the run.                                                  *)
(***************************************************************************)
EXTENDS Components, Sequences, TLC

VARIABLES route, gens, made, leases, op, repl, draining, handed

plugin_vars == <<route, gens, made, leases, op, repl, draining, handed>>
vars == <<components_vars, plugin_vars>>

\* Each user of the profile has one task.
OwnTask == [t \in Tasks |-> t]

\* Two steps, the second of which depends on the first.
TwoSteps == <<"s1", "s2">>
InOrder  == [s \in {"s1", "s2"} |-> IF s = "s2" THEN {"s1"} ELSE {}]

\* One agent, a request and a message or a response to it.
OneHome  == [c \in {"n1", "n2"} |-> "a"]
TwoKinds == [c \in {"n1", "n2"} |-> IF c = "n1" THEN {"request"} ELSE {"send", "reply"}]

\* Plugin a depends on b.
Deps == [n \in {"a", "b"} |-> IF n = "a" THEN <<"b">> ELSE <<>>]

\* Replacements of either and of both, acquisitions in both orders, forced
\* stops and operations on the dependency.
Forced == INSTANCE PluginGenerations WITH
  Names <- {"a", "b"}, Users <- {"u1"}, Hosts <- {"h1"}, lease <- leases,
  Requests <- {<<"a">>, <<"b">>, <<"b", "a">>}, Batches <- {{"a"}, {"b"}, {"a", "b"}},
  Operated <- {"b"}, MaxGens <- 4, MayForce <- TRUE, MayRestore <- FALSE

\* Operations on both names, references restored to a route's generation.
Restored == INSTANCE PluginGenerations WITH
  Names <- {"a", "b"}, Users <- {"u1"}, Hosts <- {"h1"}, lease <- leases,
  Requests <- {<<"a">>, <<"b">>, <<"b", "a">>}, Batches <- {{"a"}, {"b"}, {"a", "b"}},
  Operated <- {"a", "b"}, MaxGens <- 3, MayForce <- TRUE, MayRestore <- TRUE

\* Three agents, one of which sends to the others, and two nodes for them.
Spread == INSTANCE AgentNetwork WITH
  Agents <- {"a", "b", "c"}, Callers <- {"n1"}, Home <- [c \in {"n1"} |-> "a"],
  Kinds <- [c \in {"n1"} |-> {"broadcast"}],
  Topical <- {}, Routers <- {"r"}, Nobody <- None, QueueSize <- 1,
  InboxSize <- 1, MaxNodes <- 2, MayExpire <- FALSE, MayCancel <- FALSE,
  queue <- channel, call <- agent

ASSUME Forced!AcyclicDeps /\ Spread!NetworkConstants

\* The profile's third lease is made in its first session, before anything happens to
\* that; its second session is the last, and only the loss of the connection ends it.
Bounded ==
  /\ Cardinality(Made) = 3 =>
       gen = 1 /\ live /\ loose = {} /\ stopped = {} /\ \A z \in Closers : call[z].at = "idle"
  /\ gen = 2 => \A z \in Closers : call[z].at = "idle" \/ call[z].gen = 1

MCInit ==
  /\ focus \in Foci /\ OthersInit
  /\ IF focus = "restored" THEN Restored!Init ELSE Forced!Init
  /\ IF focus = "spread" THEN Spread!Init ELSE Network!Init

PluginStep ==
  /\ \/ focus = "forced" /\ Forced!Next
     \/ focus = "restored" /\ Restored!Next
  /\ UNCHANGED components_vars

SpreadStep ==
  /\ focus = "spread" /\ Spread!Next
  /\ UNCHANGED <<focus, plugin_vars, batcher_vars, a2a_vars, workflow_vars, browser_vars>>

MCNext ==
  \/ PluginStep \/ SpreadStep
  \/ ComponentsNext /\ Bounded' /\ UNCHANGED plugin_vars

MCSpec == MCInit /\ [][MCNext]_vars

\* The goroutines at a browser profile are interchangeable.
Symmetry == Permutations(Calls)

----------------------------------------------------------------------------
\* Every component's variables hold values of their kinds.
TypesOK ==
  CASE focus = "forced"   -> Forced!TypeOK
    [] focus = "restored" -> Restored!TypeOK
    [] focus = "batches"  -> Batching!TypeOK
    [] focus = "agents"   -> A2A!TypeOK
    [] focus = "driven"   -> Driven!TypeOK
    [] focus = "profile"  -> TypeOK
    [] focus = "network"  -> Network!TypeOK
    [] focus = "spread"   -> Spread!TypeOK

\* The references counted on a plugin's generation are the ones somebody holds.
RefsAreHolders ==
  /\ focus = "forced" => Forced!RefsAreHolders
  /\ focus = "restored" => Restored!RefsAreHolders

\* Neither a lease's plugins nor those a serving plugin is bound to are stopped
\* under them, except by force.
ServedWhileReferred ==
  /\ focus = "forced" => Forced!HeldIsServed /\ Forced!BoundIsServed
  /\ focus = "restored" => Restored!HeldIsServed /\ Restored!BoundIsServed
=============================================================================
