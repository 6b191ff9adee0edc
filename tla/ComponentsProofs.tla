--------------------------- MODULE ComponentsProofs ---------------------------
(***************************************************************************)
(* Theorems about the side-by-side components for any values of their      *)
(* constants.  The browser profile's are about BrowserCoordinator's own    *)
(* specification and rest on one inductive invariant, ProfileInv.  The     *)
(* agent server's and the batcher's rest on AgentInv and BatchInv, and are *)
(* about the composition, as are those that a workflow under the durable   *)
(* driver and a network inherit from their own modules' theorems.          *)
(***************************************************************************)
EXTENDS Components, Sequences, FiniteSetTheorems, TLAPS

-----------------------------------------------------------------------------
(* The browser profile.                                                    *)

Doers == Calls \cup Closers

\* Where a call has the lock of its lease, and where it uses it.
Locking == {"locked", "acting", "uploading", "observing", "quiescing", "settling",
            "cancelling", "closing"}

Kinds == {"none", "acquire", "inspect", "release", "finish", "close"}

CallRecords ==
  [at : Places, kind : Kinds, task : Tasks \cup {NoTask}, gen : 0 .. MaxGen,
   lease : {0} \cup Leases, new : BOOLEAN]

LeaseRecords ==
  [task : Tasks \cup {NoTask}, gen : 0 .. MaxGen, inner : BOOLEAN, free : BOOLEAN,
   released : BOOLEAN, uncertain : BOOLEAN]

Typed ==
  /\ gen \in Gens /\ stopped \subseteq Gens /\ loose \subseteq Gens /\ stranded \in 0 .. MaxGen
  /\ live \in BOOLEAN /\ gate \in BOOLEAN /\ transition \in BOOLEAN
  /\ active \in {0} \cup Made /\ chooser \in Tasks \cup {NoTask} /\ unknown \subseteq Tasks
  /\ bound \in [Tasks -> 0 .. MaxGen] /\ owned \in [Tasks -> 0 .. MaxGen]
  /\ lease \in [Leases -> LeaseRecords] /\ call \in [Doers -> CallRecords]

\* Places of calls that wait for the gate or have it, and of closers.
Unleased == {"queued", "gated", "inspecting", "binding", "publishing", "entering"}
Closing  == {"idle", "stopping", "confirming", "releasing", "settling", "draining", "connecting"}

\* What a call has at its place.
Equipped(k) ==
  LET c == call[k]
  IN /\ c.lease \in {0} \cup Made
     /\ c.at \in Locking \cup {"looking", "releasing", "finishing"} => c.lease # 0
     /\ c.at \in Unleased =>
          /\ c.lease = 0 /\ c.gen \in 1 .. gen
          /\ c.kind \in {"acquire", "inspect", "finish"}
          /\ c.kind # "inspect" => c.task \in Tasks
     /\ c.at = "gated" => c.kind # "finish"
     /\ c.at = "looking" => c.kind = "inspect"
     /\ c.at = "inspecting" => c.kind = "inspect"
     /\ c.at \in {"binding", "publishing"} => c.kind = "acquire"
     /\ c.at = "entering" => c.kind = "finish"
     /\ c.at \in (Locking \ {"settling"}) \cup {"finishing"} => c.task = lease[c.lease].task
     /\ \/ c.at \in {"acting", "uploading"}
        \/ c.at \in {"locked", "observing"} /\ c.kind # "inspect"
        => ~lease[c.lease].inner

\* Callers and closers keep to their own places.
Apart(k) ==
  IF k \in Calls
  THEN call[k].at \notin {"stopping", "confirming", "draining", "connecting"} /\ call[k].kind # "close"
  ELSE call[k].at \in Closing /\ (call[k].at # "idle" => call[k].kind = "close")

\* Sessions follow each other: earlier ones are stopped, the live one is not.
Succession ==
  /\ stopped \subseteq 1 .. gen /\ \A g \in 1 .. gen : g < gen => g \in stopped
  /\ live => gen \notin stopped
  /\ stranded \in 0 .. gen /\ stranded \notin stopped
  /\ \A t \in Tasks : bound[t] \in 0 .. gen
  /\ \A l \in Made : lease[l].gen \in 1 .. gen

\* Replacements exclude each other, and what a closer has confirmed is stopped.
Replacing(z) == call[z].at # "idle" /\ call[z].new
Confirmed(z) ==
  /\ call[z].at # "idle" => call[z].gen \in 1 .. gen
  /\ call[z].at \notin {"idle", "stopping", "confirming"} => call[z].gen \in stopped
  /\ call[z].at = "connecting" => call[z].new
  /\ Replacing(z) => ~transition /\ ~live /\ call[z].gen = gen /\ gen < MaxGen

Replacement ==
  /\ \A z \in Closers : Confirmed(z)
  /\ \A y, z \in Closers : Replacing(y) /\ Replacing(z) => y = z

\* The lock of a lease is with one call.
Locked ==
  /\ \A k \in Doers : call[k].at \in Locking =>
       ~lease[call[k].lease].free /\ ~lease[call[k].lease].released
  /\ \A j, k \in Doers :
       call[j].at \in Locking /\ call[k].at \in Locking /\ call[j].lease = call[k].lease => j = k

\* The gate's token is in one place.
Keepers == {k \in Calls : call[k].at \in Holding}
Open    == {l \in Made : ~lease[l].released}

Token ==
  /\ gate => Keepers = {} /\ Open = {} /\ stranded = 0
  /\ ~gate => Keepers # {} \/ Open # {} \/ stranded # 0
  /\ \A j, k \in Keepers : j = k
  /\ \A l, m \in Open : l = m
  /\ Keepers # {} => Open = {} /\ stranded = 0
  /\ Open # {} => stranded = 0

\* Who works, works in the last session, and no replacement is about to connect.
Busy == (Locking \ {"locked"}) \cup {"binding", "inspecting"}

Quiet == \A k \in Calls : call[k].at \in Busy =>
  Session(k) = gen /\ \A z \in Closers : call[z].at # "connecting"

\* An action that may still go on is remembered by who keeps the gate.
Remembered ==
  \A g \in loose :
    /\ g \in 1 .. gen /\ g \notin stopped
    /\ stranded = g \/ \E l \in Open : lease[l].uncertain /\ lease[l].gen = g

Certain == \A k \in Calls :
  call[k].at \in {"acting", "uploading", "cancelling", "closing"} => ~lease[call[k].lease].uncertain

\* A chooser is that of the lease that was given, and of nobody who gets one.
Chosen ==
  /\ chooser # NoTask => \A l \in Made : Given(l) => Owner[lease[l].task] = Owner[chooser]
  /\ \A k \in Calls :
       /\ call[k].at \in {"cancelling", "closing"} => chooser \in {NoTask, call[k].task}
       /\ call[k].at \in {"inspecting", "binding"} => chooser = NoTask
       /\ call[k].at = "publishing" => chooser = NoTask \/ Owner[chooser] = Owner[call[k].task]

ProfileInv ==
  /\ Typed /\ (\A k \in Doers : Equipped(k) /\ Apart(k)) /\ Succession /\ Replacement
  /\ Locked /\ Token /\ Quiet /\ Remembered /\ Certain /\ Chosen

-----------------------------------------------------------------------------
\* What the steps have in common: the step of a call changes its own place, and keeps what
\* a lease is for.

Others(k) ==
  /\ call' \in [Doers -> CallRecords] /\ \A j \in Doers \ {k} : call'[j] = call[j]
  /\ Equipped(k)' /\ Apart(k)'

\* The same leases, but for what happens to the lock and the outcome of one.
Touches(l) ==
  /\ lease' \in [Leases -> LeaseRecords]
  /\ \A m \in Leases \ {l} : lease'[m] = lease[m]
  /\ l \in Made /\ lease'[l].task = lease[l].task /\ lease'[l].gen = lease[l].gen
  /\ lease'[l].inner = lease[l].inner

\* Nothing new begins; some sessions may be confirmed stopped.
Fades ==
  /\ gen' = gen /\ live' \in {live, FALSE} /\ chooser' \in {chooser, NoTask}
  /\ \E G \in SUBSET (1 .. gen) :
       /\ stopped' = stopped \cup G /\ (live' => gen \notin G)
       /\ stranded' = IF stranded \in G THEN 0 ELSE stranded
       /\ gate' = (gate \/ stranded \in G)
       /\ \A g \in loose' : g \in loose /\ g \notin G

Still == UNCHANGED <<gen, live, stopped, chooser>>

\* What tasks own and are bound to stays within the sessions there have been.
Belongings ==
  /\ unknown' \subseteq Tasks /\ bound' \in [Tasks -> 0 .. gen] /\ owned' \in [Tasks -> 0 .. MaxGen]
  /\ active' \in {0} \cup Made' /\ transition' \in BOOLEAN

Idling == Places \ (Holding \cup Locking)

\* What only a closer does to the replacement.
Replaces(k) ==
  IF k \in Calls THEN transition' = transition
  ELSE /\ Confirmed(k)'
       /\ Replacing(k)' => Replacing(k) \/ transition
       /\ transition' => transition \/ (Replacing(k) /\ ~Replacing(k)')
       /\ call'[k].at = "connecting" => gate

Walks(k) ==
  /\ lease' = lease /\ Fades
  /\ call[k].at \in Idling /\ call'[k].at \in Idling

Takes(k) ==
  /\ lease' = lease /\ Still /\ UNCHANGED <<stranded, loose>>
  /\ gate /\ gate' = FALSE /\ k \in Calls
  /\ call[k].at = "queued" /\ call'[k].at \in {"gated", "entering"}

Keeps(k) ==
  /\ lease' = lease /\ Still /\ UNCHANGED <<gate, stranded, loose>>
  /\ k \in Calls /\ call'[k].task = call[k].task /\ call'[k].gen = call[k].gen
  /\ \/ /\ call[k].at = "gated" /\ Current(call[k].gen)
        /\ \/ chooser = NoTask /\ call'[k].at \in {"inspecting", "binding"}
           \/ Pending(call[k].task) /\ call'[k].at = "publishing"
     \/ call[k].at = "binding" /\ call'[k].at = "publishing"

Gives(k) ==
  /\ lease' = lease /\ Still /\ UNCHANGED <<stranded, loose>>
  /\ k \in Calls /\ gate' = TRUE
  /\ call[k].at \in Holding /\ call'[k].at = "idle"

Strands(k) ==
  /\ lease' = lease /\ Still /\ UNCHANGED gate
  /\ k \in Calls /\ call[k].at = "binding" /\ call'[k].at = "idle"
  /\ call[k].gen \notin stopped
  /\ stranded' = call[k].gen /\ loose' = loose \cup {call[k].gen}

Opens(k) ==
  /\ Still /\ UNCHANGED <<gate, stranded, loose>>
  /\ k \in Calls /\ call[k].at \in {"publishing", "entering"} /\ call'[k].at \in {"idle", "finishing"}
  /\ lease' \in [Leases -> LeaseRecords]
  /\ \E l \in Leases \ Made :
       /\ \A m \in Leases \ {l} : lease'[m] = lease[m]
       /\ lease'[l].task = call[k].task /\ lease'[l].gen = call[k].gen
       /\ lease'[l].inner = (call[k].at = "entering")
       /\ lease'[l].free /\ ~lease'[l].released

Locks(k) ==
  /\ Still /\ UNCHANGED <<gate, stranded, loose>>
  /\ call[k].at \in Idling /\ call'[k].at \in {"locked", "settling", "cancelling", "closing"}
  /\ LET l == call'[k].lease
     IN /\ Touches(l) /\ lease'[l].uncertain = lease[l].uncertain
        /\ lease[l].free /\ ~lease[l].released /\ ~lease'[l].free /\ ~lease'[l].released
        /\ call'[k].at = "settling" => lease[l].gen \notin stopped
        /\ call'[k].at \in {"cancelling", "closing"} =>
             Current(lease[l].gen) /\ ~lease[l].uncertain /\ chooser \in {NoTask, call'[k].task}

Shifts(k) ==
  /\ lease' = lease /\ UNCHANGED <<gen, live, stopped, gate, stranded, loose>>
  /\ chooser' \in {chooser, NoTask}
  /\ k \in Calls /\ call[k].at \in Locking \ {"settling"} /\ call'[k].lease = call[k].lease
  /\ call'[k].at \in {"acting", "uploading", "observing", "quiescing", "closing"}
  /\ Current(lease[call[k].lease].gen)
  /\ call'[k].at \in {"acting", "uploading", "closing"} => ~lease[call[k].lease].uncertain
  /\ call'[k].at = "closing" => chooser' \in {NoTask, call'[k].task}

Unlocks(k) ==
  /\ call[k].at \in Locking /\ call'[k].at \in Idling
  /\ LET l == call[k].lease
     IN /\ Touches(l) /\ lease'[l].free /\ ~lease'[l].released
        /\ \/ Fades /\ lease'[l].uncertain = lease[l].uncertain
           \/ /\ UNCHANGED <<gen, live, stopped, gate, stranded>>
              /\ \/ chooser' \in {chooser, NoTask}
                 \/ call[k].at \in {"acting", "uploading"} /\ chooser' = call[k].task
              /\ \/ loose' = loose /\ lease'[l].uncertain = lease[l].uncertain
                 \/ loose' = loose \cup ({lease[l].gen} \ stopped) /\ lease'[l].uncertain
                 \/ loose' = loose \ {lease[l].gen}

Frees(k) ==
  /\ Still /\ UNCHANGED stranded
  /\ gate' = TRUE
  /\ call[k].at \in {"releasing", "settling"} /\ call'[k].at \in Idling
  /\ LET l == call[k].lease
     IN /\ Touches(l) /\ ~lease[l].released /\ lease'[l].released
        /\ call[k].at = "releasing" => lease[l].free
        /\ \/ loose' = loose \ {lease[l].gen}
           \/ loose' = loose /\ (~lease[l].uncertain \/ lease[l].gen \in stopped)

Shapes(k) ==
  Walks(k) \/ Takes(k) \/ Keeps(k) \/ Gives(k) \/ Strands(k) \/ Opens(k) \/ Locks(k)
  \/ Shifts(k) \/ Unlocks(k) \/ Frees(k)

-----------------------------------------------------------------------------
\* The steps take one of these shapes.

CallsTyped  == call \in [Doers -> CallRecords]
LeasesTyped == lease \in [Leases -> LeaseRecords]

LEMMA CallFields ==
  ASSUME CallsTyped, NEW k \in Doers
  PROVE  /\ call[k] \in CallRecords /\ call[k].at \in Places /\ call[k].kind \in Kinds
         /\ call[k].task \in Tasks \cup {NoTask} /\ call[k].gen \in 0 .. MaxGen
         /\ call[k].lease \in {0} \cup Leases /\ call[k].new \in BOOLEAN
BY DEF CallsTyped, CallRecords

LEMMA LeaseFields ==
  ASSUME LeasesTyped, NEW l \in Leases
  PROVE  /\ lease[l] \in LeaseRecords /\ lease[l].task \in Tasks \cup {NoTask}
         /\ lease[l].gen \in 0 .. MaxGen /\ lease[l].inner \in BOOLEAN
         /\ lease[l].free \in BOOLEAN /\ lease[l].released \in BOOLEAN
         /\ lease[l].uncertain \in BOOLEAN
BY DEF LeasesTyped, LeaseRecords

\* Only the place of k changes.
Alone(k) ==
  /\ CallsTyped' /\ \A j \in Doers \ {k} : call'[j] = call[j]

LEMMA BecomesFacts ==
  ASSUME CallsTyped, NEW k \in Doers, NEW c \in CallRecords, call' = [call EXCEPT ![k] = c]
  PROVE  Alone(k) /\ call'[k] = c
BY DEF CallsTyped, Alone

LEMMA GoesFacts ==
  ASSUME CallsTyped, NEW k \in Doers, NEW place \in Places, Goes(k, place)
  PROVE  /\ Alone(k) /\ call'[k].at = place
         /\ call'[k].kind = call[k].kind /\ call'[k].task = call[k].task
         /\ call'[k].gen = call[k].gen /\ call'[k].lease = call[k].lease
         /\ call'[k].new = call[k].new
<1>1. [call[k] EXCEPT !.at = place] \in CallRecords
  BY CallFields DEF CallRecords
<1>2. call' = [call EXCEPT ![k] = [call[k] EXCEPT !.at = place]]
  BY DEF Goes
<1>3. Alone(k) /\ call'[k] = [call[k] EXCEPT !.at = place]
  BY <1>1, <1>2, BecomesFacts
<1>4. QED
  BY <1>3, CallFields DEF CallRecords

LEMMA RestTyped == ASSUME BrowserConstants PROVE Rest \in CallRecords
<1>1. 0 \in 0 .. MaxGen
  BY DEF BrowserConstants
<1>2. QED
  BY <1>1 DEF Rest, CallRecords, Places, Kinds

LEMMA ReturnsFacts ==
  ASSUME BrowserConstants, CallsTyped, NEW k \in Doers, Returns(k)
  PROVE  Alone(k) /\ call'[k] = Rest
BY RestTyped, BecomesFacts DEF Returns

\* The lock of a lease is taken or given back.
LEMMA FreeFacts ==
  ASSUME LeasesTyped, NEW l \in Made, NEW free \in BOOLEAN,
         lease' = [lease EXCEPT ![l].free = free]
  PROVE  /\ Touches(l) /\ lease'[l].free = free
         /\ lease'[l].released = lease[l].released /\ lease'[l].uncertain = lease[l].uncertain
<1>1. l \in Leases
  BY DEF Made
<1>2. [lease[l] EXCEPT !.free = free] \in LeaseRecords
  BY <1>1, LeaseFields DEF LeaseRecords
<1>3. lease' = [lease EXCEPT ![l] = [lease[l] EXCEPT !.free = free]]
  OBVIOUS
<1>4. /\ lease' \in [Leases -> LeaseRecords] /\ \A m \in Leases \ {l} : lease'[m] = lease[m]
      /\ lease'[l] = [lease[l] EXCEPT !.free = free]
  BY <1>1, <1>2, <1>3 DEF LeasesTyped
<1>5. QED
  BY <1>1, <1>4, LeaseFields DEF Touches, LeaseRecords

LEMMA OutcomeFacts ==
  ASSUME LeasesTyped, NEW l \in Made, NEW uncertain \in BOOLEAN,
         lease' = [lease EXCEPT ![l].uncertain = uncertain, ![l].free = TRUE]
  PROVE  /\ Touches(l) /\ lease'[l].free
         /\ lease'[l].released = lease[l].released /\ lease'[l].uncertain = uncertain
<1>1. l \in Leases
  BY DEF Made
<1> DEFINE r == [lease[l] EXCEPT !.uncertain = uncertain, !.free = TRUE]
<1>2. r \in LeaseRecords
  BY <1>1, LeaseFields DEF LeaseRecords
<1>3. lease' = [lease EXCEPT ![l] = r]
  BY <1>1 DEF LeasesTyped
<1>4. /\ lease' \in [Leases -> LeaseRecords] /\ \A m \in Leases \ {l} : lease'[m] = lease[m]
      /\ lease'[l] = r
  BY <1>1, <1>2, <1>3 DEF LeasesTyped
<1>5. QED
  BY <1>1, <1>4, LeaseFields DEF Touches, LeaseRecords

LEMMA ReleasedFacts ==
  ASSUME LeasesTyped, NEW l \in Made,
         lease' = [lease EXCEPT ![l].released = TRUE, ![l].free = TRUE]
  PROVE  Touches(l) /\ lease'[l].released /\ lease'[l].free
<1>1. l \in Leases
  BY DEF Made
<1> DEFINE r == [lease[l] EXCEPT !.released = TRUE, !.free = TRUE]
<1>2. r \in LeaseRecords
  BY <1>1, LeaseFields DEF LeaseRecords
<1>3. lease' = [lease EXCEPT ![l] = r]
  BY <1>1 DEF LeasesTyped
<1>4. /\ lease' \in [Leases -> LeaseRecords] /\ \A m \in Leases \ {l} : lease'[m] = lease[m]
      /\ lease'[l] = r
  BY <1>1, <1>2, <1>3 DEF LeasesTyped
<1>5. QED
  BY <1>1, <1>4, LeaseFields DEF Touches, LeaseRecords

LEMMA TouchesMade ==
  ASSUME NEW l, Touches(l)
  PROVE  Made' = Made
BY DEF Touches, Made

LEMMA LockFacts ==
  ASSUME CallsTyped, LeasesTyped, NEW k \in Doers, NEW l \in Made, NEW place \in Places,
         Lock(k, l, place)
  PROVE  /\ Alone(k) /\ call'[k].at = place /\ call'[k].lease = l
         /\ call'[k].task = lease[l].task /\ call'[k].kind = call[k].kind
         /\ Touches(l) /\ lease[l].free /\ ~lease'[l].free
         /\ lease'[l].released = lease[l].released /\ lease'[l].uncertain = lease[l].uncertain
<1>1. l \in Leases
  BY DEF Made
<1> DEFINE c == [call[k] EXCEPT !.at = place, !.lease = l, !.gen = lease[l].gen,
                                !.task = lease[l].task]
<1>2. c \in CallRecords
  BY <1>1, CallFields, LeaseFields DEF CallRecords
<1>3. call' = [call EXCEPT ![k] = c]
  BY DEF Lock, CallsTyped
<1>4. Alone(k) /\ call'[k] = c
  BY <1>2, <1>3, BecomesFacts
<1>5. call'[k].at = place /\ call'[k].lease = l /\ call'[k].task = lease[l].task
      /\ call'[k].kind = call[k].kind
  BY <1>4, CallFields DEF CallRecords
<1>6. QED
  BY <1>4, <1>5, FreeFacts DEF Lock

Stepping(k) == Others(k) /\ Replaces(k) /\ Shapes(k) /\ Belongings

LEMMA InvFacts ==
  ASSUME ProfileInv
  PROVE  CallsTyped /\ LeasesTyped /\ Typed /\ \A k \in Doers : Equipped(k) /\ Apart(k)
BY DEF ProfileInv, Typed, CallsTyped, LeasesTyped

\* What no step but the few that name them changes.
LEMMA SameBelongings ==
  ASSUME ProfileInv, Made' = Made, active' \in {0, active}, unknown' \subseteq Tasks,
         bound' = bound, owned' = owned, transition' \in BOOLEAN
  PROVE  Belongings
<1>1. bound \in [Tasks -> 0 .. gen]
  BY DEF ProfileInv, Typed, Succession
<1>2. QED
  BY <1>1 DEF ProfileInv, Typed, Belongings

LEMMA StillFades ==
  ASSUME Typed, UNCHANGED <<gen, live, stopped, stranded, gate>>, chooser' \in {chooser, NoTask},
         loose' \subseteq loose
  PROVE  Fades
<1>1. {} \in SUBSET (1 .. gen)
  OBVIOUS
<1>2. QED
  BY <1>1 DEF Fades, Typed

LEMMA FadesFacts ==
  ASSUME Typed, Fades
  PROVE  /\ gen' = gen /\ stopped \subseteq stopped' /\ (live' => live)
         /\ live' \in BOOLEAN /\ gate' \in BOOLEAN
<1>1. gen' = gen /\ stopped \subseteq stopped'
  BY DEF Fades
<1>2. live' = live \/ live' = FALSE
  BY DEF Fades
<1>3. \E b \in BOOLEAN : gate' = (gate \/ b)
  BY DEF Fades
<1>4. gate' \in BOOLEAN
  BY <1>3 DEF Typed
<1>5. live \in BOOLEAN
  BY DEF Typed
<1>6. live' \in BOOLEAN /\ (live' => live)
  <2>1. CASE live' = live
    BY <1>5, <2>1
  <2>2. CASE live' = FALSE
    BY <2>2
  <2>3. QED
    BY <1>2, <2>1, <2>2
<1>7. QED
  BY <1>1, <1>4, <1>6

LEMMA ConfirmFades ==
  ASSUME Typed, NEW g \in 1 .. gen, Confirm(g), gen' = gen
  PROVE  Fades
<1>1. {g} \in SUBSET (1 .. gen)
  OBVIOUS
<1>2. live' \in {live, FALSE} /\ (live' => gen # g)
  BY DEF Confirm, Typed
<1>3. QED
  BY <1>1, <1>2 DEF Confirm, Fades

LEMMA RestFacts ==
  ASSUME NEW k \in Doers, call'[k] = Rest
  PROVE  call'[k].at = "idle" /\ Equipped(k)' /\ Apart(k)'
<1>1. /\ call'[k].at = "idle" /\ call'[k].lease = 0 /\ call'[k].kind = "none"
  BY DEF Rest
<1>2. QED
  BY <1>1 DEF Equipped, Apart, Locking, Unleased, Closing

\* A call's step, from what it does to the call and to the rest.
LEMMA CallSteps ==
  ASSUME NEW k \in Calls, Alone(k), Equipped(k)', Apart(k)', transition' = transition,
         Shapes(k), Belongings
  PROVE  Stepping(k)
BY DEF Stepping, Others, Replaces, Alone, CallsTyped

\* The same for one that leaves leases, tasks and bindings alone.
LEMMA QuietSteps ==
  ASSUME ProfileInv, NEW k \in Calls, Alone(k), Equipped(k)', Apart(k)',
         UNCHANGED <<transition, lease, active, unknown, bound, owned>>, Shapes(k)
  PROVE  Stepping(k)
<1>1. Made' = Made
  BY DEF Made
<1>2. unknown' \subseteq Tasks /\ transition' \in BOOLEAN
  BY DEF ProfileInv, Typed
<1>3. Belongings
  BY <1>1, <1>2, SameBelongings
<1>4. QED
  BY <1>3, CallSteps

-----------------------------------------------------------------------------
\* Waiting for the gate, and what is done with it.

LEMMA GateSteps ==
  ASSUME BrowserConstants, ProfileInv, NEW k \in Calls,
         TakeGate(k) \/ Admit(k) \/ Inspected(k) \/ Bound(k)
  PROVE  Stepping(k)
<1>1. /\ lease' = lease /\ Still /\ UNCHANGED <<transition, stranded, loose>>
      /\ UNCHANGED <<active, unknown, bound, owned>>
  BY DEF TakeGate, Admit, Inspected, Bound, Still, profile, tasks
<1>2. k \in Doers /\ CallsTyped /\ Equipped(k) /\ Apart(k)
  BY InvFacts DEF Doers
<1>3. ASSUME NEW place \in Places, Goes(k, place)
      PROVE  /\ Alone(k) /\ call'[k].at = place
             /\ call'[k].kind = call[k].kind /\ call'[k].task = call[k].task
             /\ call'[k].gen = call[k].gen /\ call'[k].lease = call[k].lease
  BY <1>2, <1>3, GoesFacts
<1>4. ASSUME Returns(k), call[k].at \in Holding, gate' = TRUE
      PROVE  Stepping(k)
  <2>1. Alone(k) /\ call'[k] = Rest
    BY <1>2, <1>4, ReturnsFacts
  <2>2. call'[k].at = "idle" /\ Equipped(k)' /\ Apart(k)'
    BY <1>2, <2>1, RestFacts
  <2>3. Gives(k)
    BY <1>1, <1>4, <2>2 DEF Gives
  <2>4. QED
    BY <1>1, <2>1, <2>2, <2>3, QuietSteps DEF Shapes
<1>5. ASSUME TakeGate(k) PROVE Stepping(k)
  <2> DEFINE place == IF call[k].kind = "finish" THEN "entering" ELSE "gated"
  <2>1. place \in {"gated", "entering"} /\ place \in Places /\ Goes(k, place)
    BY <1>5 DEF TakeGate, Goes, Places, Holding
  <2>2. call[k].at = "queued" /\ call'[k].at = place
    BY <1>3, <1>5, <2>1 DEF TakeGate
  <2>3. Equipped(k)' /\ Apart(k)'
    BY <1>1, <1>2, <1>3, <2>1, <2>2 DEF Equipped, Unleased, Locking, Still, Apart
  <2>4. Takes(k)
    BY <1>1, <1>5, <2>1, <2>2 DEF TakeGate, Takes
  <2>5. QED
    BY <1>1, <1>3, <2>1, <2>3, <2>4, QuietSteps DEF Shapes
<1>6. ASSUME NEW place \in {"inspecting", "binding", "publishing"}, Goes(k, place), gate' = gate,
             \/ call[k].at = "gated" /\ Current(call[k].gen) /\ chooser = NoTask
                /\ place = (IF call[k].kind = "inspect" THEN "inspecting" ELSE "binding")
             \/ call[k].at = "binding" /\ place = "publishing"
      PROVE  Stepping(k)
  <2>1. place \in Places
    BY DEF Places, Holding
  <2>2. Equipped(k)' /\ Apart(k)'
    BY <1>1, <1>2, <1>3, <1>6, <2>1 DEF Equipped, Unleased, Locking, Still, Apart
  <2>3. Keeps(k)
    BY <1>1, <1>3, <1>6, <2>1 DEF Keeps
  <2>4. QED
    BY <1>1, <1>3, <1>6, <2>1, <2>2, <2>3, QuietSteps DEF Shapes
<1>7. ASSUME call[k].at = "gated", Current(call[k].gen), call[k].kind = "acquire",
             Pending(call[k].task), gate' = gate,
             call' = [call EXCEPT ![k].at = "publishing", ![k].new = FALSE]
      PROVE  Stepping(k)
  <2> DEFINE c == [call[k] EXCEPT !.at = "publishing", !.new = FALSE]
  <2>1. c \in CallRecords /\ c.at = "publishing" /\ c.kind = call[k].kind
        /\ c.task = call[k].task /\ c.gen = call[k].gen /\ c.lease = call[k].lease
    BY <1>2, CallFields DEF CallRecords, Places, Holding
  <2>2. call' = [call EXCEPT ![k] = c]
    BY <1>2, <1>7 DEF CallsTyped
  <2>3. Alone(k) /\ call'[k] = c
    BY <1>2, <2>1, <2>2, BecomesFacts
  <2> HIDE DEF c
  <2>4. Equipped(k)' /\ Apart(k)'
    BY <1>1, <1>2, <1>7, <2>1, <2>3 DEF Equipped, Unleased, Locking, Still, Apart
  <2>5. Keeps(k)
    BY <1>1, <1>7, <2>1, <2>3 DEF Keeps
  <2>6. QED
    BY <1>1, <2>3, <2>4, <2>5, QuietSteps DEF Shapes
<1>8. ASSUME Admit(k) PROVE Stepping(k)
  BY <1>4, <1>6, <1>7, <1>8 DEF Admit, Holding
<1>9. ASSUME Inspected(k) PROVE Stepping(k)
  BY <1>4, <1>9 DEF Inspected, Holding
<1>10. ASSUME Bound(k) PROVE Stepping(k)
  BY <1>4, <1>6, <1>10 DEF Bound, Holding
<1>11. QED
  BY <1>5, <1>8, <1>9, <1>10

LEMMA StrandSteps ==
  ASSUME BrowserConstants, ProfileInv, NEW k \in Calls, Strand(k)
  PROVE  Stepping(k)
<1>1. k \in Doers /\ CallsTyped
  BY InvFacts DEF Doers
<1>2. Alone(k) /\ call'[k] = Rest
  BY <1>1, ReturnsFacts DEF Strand
<1>3. call'[k].at = "idle" /\ Equipped(k)' /\ Apart(k)'
  BY <1>1, <1>2, RestFacts
<1>4. Gives(k) \/ Strands(k)
  BY <1>3 DEF Strand, Gives, Strands, Still, tasks, Holding
<1>5. QED
  BY <1>2, <1>3, <1>4, QuietSteps DEF Strand, Shapes, tasks

\* A new lease is the next number.
LEMMA NewLeaseFacts ==
  ASSUME BrowserConstants, LeasesTyped, NEW t \in Tasks, NEW g \in 0 .. MaxGen,
         NEW inner \in BOOLEAN, NewLease(t, g, inner)
  PROVE  /\ active' \in Leases \ Made /\ lease' \in [Leases -> LeaseRecords]
         /\ \A m \in Leases \ {active'} : lease'[m] = lease[m]
         /\ lease'[active'].task = t /\ lease'[active'].gen = g /\ lease'[active'].inner = inner
         /\ lease'[active'].free /\ ~lease'[active'].released
         /\ Made' = Made \cup {active'}
<1> DEFINE r == [task |-> t, gen |-> g, inner |-> inner, free |-> TRUE, released |-> FALSE,
                 uncertain |-> t \in unknown]
<1>1. r \in LeaseRecords
  BY DEF LeaseRecords
<1>2. active' \in Leases \ Made /\ lease' = [lease EXCEPT ![active'] = r]
  BY DEF NewLease
<1>3. /\ lease' \in [Leases -> LeaseRecords] /\ \A m \in Leases \ {active'} : lease'[m] = lease[m]
      /\ lease'[active'] = r
  BY <1>1, <1>2 DEF LeasesTyped
<1>4. t # NoTask
  BY DEF BrowserConstants
<1>5. QED
  BY <1>2, <1>3, <1>4 DEF Made

LEMMA PublishSteps ==
  ASSUME BrowserConstants, ProfileInv, NEW k \in Calls, Publish(k)
  PROVE  Stepping(k)
<1>1. k \in Doers /\ CallsTyped /\ LeasesTyped /\ Equipped(k)
  BY InvFacts DEF Doers
<1>2. Alone(k) /\ call'[k] = Rest
  BY <1>1, ReturnsFacts DEF Publish
<1>3. call'[k].at = "idle" /\ Equipped(k)' /\ Apart(k)'
  BY <1>1, <1>2, RestFacts
<1>4. CASE Current(call[k].gen)
  <2> DEFINE t == call[k].task
  <2>1. t \in Tasks /\ call[k].gen = gen /\ gen \in 1 .. MaxGen /\ gen \in 0 .. MaxGen
    BY <1>1, <1>4 DEF Publish, Equipped, Unleased, Current, ProfileInv, Typed, Gens
  <2>2. NewLease(t, gen, FALSE) /\ bound' = [bound EXCEPT ![t] = gen] /\ gate' = gate
        /\ owned' = [owned EXCEPT ![t] = IF call[k].new THEN gen ELSE @]
    BY <1>4 DEF Publish
  <2>3. /\ active' \in Leases \ Made /\ lease' \in [Leases -> LeaseRecords]
        /\ \A m \in Leases \ {active'} : lease'[m] = lease[m]
        /\ lease'[active'].task = t /\ lease'[active'].gen = gen /\ ~lease'[active'].inner
        /\ lease'[active'].free /\ ~lease'[active'].released
        /\ Made' = Made \cup {active'}
    BY <1>1, <2>1, <2>2, NewLeaseFacts
  <2>4. Opens(k)
    BY <1>3, <2>1, <2>2, <2>3 DEF Publish, Opens, Still, profile, LeaseRecords
  <2>5. bound' \in [Tasks -> 0 .. gen] /\ owned' \in [Tasks -> 0 .. MaxGen]
    <3>1. bound \in [Tasks -> 0 .. gen] /\ owned \in [Tasks -> 0 .. MaxGen] /\ gen \in 0 .. gen
      BY <2>1 DEF ProfileInv, Typed, Succession
    <3>2. QED
      BY <2>1, <2>2, <3>1
  <2>6. Belongings
    BY <2>3, <2>5 DEF Publish, Belongings, ProfileInv, Typed, profile
  <2>7. QED
    BY <1>2, <1>3, <2>4, <2>6, CallSteps DEF Publish, Shapes, profile
<1>5. CASE ~Current(call[k].gen)
  <2>1. Gives(k)
    BY <1>3, <1>5 DEF Publish, Gives, Still, profile, Holding
  <2>2. QED
    BY <1>2, <1>3, <1>5, <2>1, QuietSteps DEF Publish, Shapes, profile
<1>6. QED
  BY <1>4, <1>5

LEMMA EnterSteps ==
  ASSUME BrowserConstants, ProfileInv, NEW k \in Calls, Enter(k)
  PROVE  Stepping(k)
<1>1. k \in Doers /\ CallsTyped /\ LeasesTyped /\ Equipped(k) /\ Apart(k)
  BY InvFacts DEF Doers
<1> DEFINE t == call[k].task
           g == call[k].gen
<1>2. t \in Tasks /\ g \in 0 .. MaxGen /\ call[k].kind = "finish"
  BY <1>1, CallFields DEF Enter, Equipped, Unleased
<1>3. /\ active' \in Leases \ Made /\ lease' \in [Leases -> LeaseRecords]
      /\ \A m \in Leases \ {active'} : lease'[m] = lease[m]
      /\ lease'[active'].task = t /\ lease'[active'].gen = g /\ lease'[active'].inner
      /\ lease'[active'].free /\ ~lease'[active'].released
      /\ Made' = Made \cup {active'}
  BY <1>1, <1>2, NewLeaseFacts DEF Enter
<1> DEFINE c == [call[k] EXCEPT !.at = "finishing", !.lease = active']
<1>4. c \in CallRecords /\ c.at = "finishing" /\ c.lease = active' /\ c.task = t
      /\ c.kind = "finish"
  BY <1>1, <1>2, <1>3, CallFields DEF CallRecords, Places
<1>5. call' = [call EXCEPT ![k] = c]
  BY <1>1 DEF Enter, CallsTyped
<1>6. Alone(k) /\ call'[k] = c
  BY <1>1, <1>4, <1>5, BecomesFacts
<1>7. active' # 0
  BY <1>3 DEF Leases
<1> HIDE DEF c
<1>8. Equipped(k)' /\ Apart(k)'
  BY <1>3, <1>4, <1>6, <1>7 DEF Equipped, Unleased, Locking, Apart
<1>9. Opens(k)
  BY <1>2, <1>3, <1>4, <1>6 DEF Enter, Opens, Still, profile, LeaseRecords
<1>10. Belongings
  BY <1>3 DEF Enter, Belongings, ProfileInv, Typed, Succession, profile, tasks
<1>11. QED
  BY <1>6, <1>8, <1>9, <1>10, CallSteps DEF Enter, Shapes, profile

-----------------------------------------------------------------------------
\* Working under a lease.

\* A call that waits, or goes from a place without lock or gate to another.
LEMMA WaitSteps ==
  ASSUME ProfileInv, NEW k \in Calls, Alone(k), Equipped(k)', Apart(k)',
         UNCHANGED <<profile, gate, active, chooser, tasks, lease, loose>>,
         call[k].at \in Idling, call'[k].at \in Idling
  PROVE  Stepping(k)
<1>1. Fades
  BY StillFades DEF ProfileInv, profile
<1>2. Walks(k)
  BY <1>1 DEF Walks
<1>3. QED
  BY <1>2, QuietSteps DEF Shapes, profile, tasks

\* A call that has taken the lock of a lease.
LEMMA LockSteps ==
  ASSUME ProfileInv, NEW k \in Calls, NEW l \in Made, NEW place \in {"locked"},
         Lock(k, l, place), ~lease[l].released,
         UNCHANGED <<profile, gate, active, chooser, tasks, loose>>,
         call[k].at \in Idling, call[k].kind # "inspect" => ~lease[l].inner
  PROVE  Stepping(k)
<1>1. k \in Doers /\ CallsTyped /\ LeasesTyped /\ Equipped(k) /\ Apart(k) /\ place \in Places
  BY InvFacts DEF Doers, Places
<1>2. /\ Alone(k) /\ call'[k].at = place /\ call'[k].lease = l
      /\ call'[k].task = lease[l].task /\ call'[k].kind = call[k].kind
      /\ Touches(l) /\ lease[l].free /\ ~lease'[l].free
      /\ lease'[l].released = lease[l].released /\ lease'[l].uncertain = lease[l].uncertain
  BY <1>1, LockFacts
<1>3. Made' = Made /\ l # 0
  BY <1>2, TouchesMade DEF Made, Leases
<1>4. Equipped(k)' /\ Apart(k)'
  BY <1>1, <1>2, <1>3 DEF Equipped, Unleased, Locking, Apart, Touches
<1>5. Locks(k)
  BY <1>1, <1>2 DEF Locks, Still, profile
<1>6. Belongings
  BY <1>3, SameBelongings DEF ProfileInv, Typed, tasks, profile
<1>7. QED
  BY <1>2, <1>4, <1>5, <1>6, CallSteps DEF Shapes, profile

LEMMA StartSteps ==
  ASSUME BrowserConstants, ProfileInv, NEW k \in Calls,
         Acquire(k) \/ Inspect(k) \/ Leave(k) \/ Work(k) \/ Look(k) \/ Release(k) \/ Finish(k)
  PROVE  Stepping(k)
<1>1. k \in Doers /\ CallsTyped /\ LeasesTyped /\ Equipped(k) /\ Apart(k) /\ Typed
      /\ gen \in 1 .. gen /\ gen \in 0 .. MaxGen /\ Rest \in CallRecords /\ 0 \notin Made
  BY InvFacts, RestTyped DEF Doers, Typed, Gens, BrowserConstants, Made, Leases
<1>2. ASSUME NEW c \in CallRecords, call' = [call EXCEPT ![k] = c], call[k].at \in Idling,
             c.at \in {"queued", "looking", "releasing", "finishing"},
             UNCHANGED <<profile, gate, active, chooser, tasks, lease, loose>>,
             c.kind \in {"acquire", "inspect", "release", "finish"},
             \/ /\ c.at = "queued" /\ c.lease = 0 /\ c.gen \in 1 .. gen /\ c.kind # "release"
                /\ c.kind # "inspect" => c.task \in Tasks
             \/ c.at = "looking" /\ c.kind = "inspect" /\ c.lease \in Made
             \/ c.at = "releasing" /\ c.lease \in Made
             \/ c.at = "finishing" /\ c.lease \in Made /\ c.task = lease[c.lease].task
      PROVE  Stepping(k)
  <2>1. Alone(k) /\ call'[k] = c
    BY <1>1, <1>2, BecomesFacts
  <2>2. Made' = Made /\ gen' = gen
    BY <1>2 DEF Made, profile
  <2>3. Equipped(k)' /\ Apart(k)'
    BY <1>1, <1>2, <2>1, <2>2 DEF Equipped, Unleased, Locking, Apart
  <2>4. call'[k].at \in Idling
    BY <1>2, <2>1 DEF Idling, Places, Holding, Locking
  <2>5. QED
    BY <1>2, <2>1, <2>3, <2>4, WaitSteps
<1>3. ASSUME Returns(k), call[k].at \in Idling,
             UNCHANGED <<profile, gate, active, chooser, tasks, lease, loose>>
      PROVE  Stepping(k)
  <2>1. Alone(k) /\ call'[k] = Rest
    BY <1>1, <1>3, ReturnsFacts
  <2>2. call'[k].at = "idle" /\ Equipped(k)' /\ Apart(k)'
    BY <1>1, <2>1, RestFacts
  <2>3. call'[k].at \in Idling
    BY <2>2 DEF Idling, Places, Holding, Locking
  <2>4. QED
    BY <1>3, <2>1, <2>2, <2>3, WaitSteps
<1>4. "idle" \in Idling /\ "queued" \in Idling /\ "looking" \in Idling
  BY DEF Idling, Places, Holding, Locking
<1>5. ASSUME Acquire(k) PROVE Stepping(k)
  <2>1. PICK t \in Tasks, reuse \in BOOLEAN :
          call' = [call EXCEPT ![k] = [Rest EXCEPT !.at = "queued", !.kind = "acquire",
                                         !.task = t, !.gen = gen, !.new = ~reuse]]
    BY <1>5 DEF Acquire
  <2> DEFINE c == [Rest EXCEPT !.at = "queued", !.kind = "acquire", !.task = t, !.gen = gen,
                               !.new = ~reuse]
  <2>2. c \in CallRecords /\ c.at = "queued" /\ c.kind = "acquire" /\ c.task = t /\ c.gen = gen
        /\ c.lease = 0
    BY <1>1 DEF Rest, CallRecords, Places, Kinds
  <2> HIDE DEF c
  <2>3. QED
    BY <1>1, <1>2, <1>4, <1>5, <2>1, <2>2 DEF Acquire, c
<1>6. ASSUME Inspect(k) PROVE Stepping(k)
  <2>1. PICK c : call' = [call EXCEPT ![k] = c]
                 /\ \/ c = [Rest EXCEPT !.at = "queued", !.kind = "inspect", !.gen = gen]
                    \/ active # 0
                       /\ c = [Rest EXCEPT !.at = "looking", !.kind = "inspect", !.lease = active]
    BY <1>6 DEF Inspect
  <2>2. active \in {0} \cup Made /\ Made \subseteq Leases
    BY <1>1 DEF Typed, Made
  <2>3. c \in CallRecords /\ c.kind = "inspect"
        /\ \/ c.at = "queued" /\ c.lease = 0 /\ c.gen = gen
           \/ c.at = "looking" /\ c.lease \in Made
    BY <1>1, <2>1, <2>2 DEF Rest, CallRecords, Places, Kinds
  <2>4. QED
    BY <1>1, <1>2, <1>4, <1>6, <2>1, <2>3 DEF Inspect
<1>7. ASSUME Leave(k) PROVE Stepping(k)
  BY <1>3, <1>4, <1>7 DEF Leave
<1>8. ASSUME Work(k) PROVE Stepping(k)
  <2>1. PICK l \in Leases : Given(l) /\ Lock(k, l, "locked")
    BY <1>8 DEF Work
  <2>2. QED
    BY <1>4, <1>8, <2>1, LockSteps DEF Work, Given
<1>9. ASSUME Look(k) PROVE Stepping(k)
  <2>1. call[k].lease \in Made /\ call[k].kind = "inspect"
    BY <1>1, <1>9 DEF Look, Equipped
  <2>2. QED
    BY <1>3, <1>4, <1>9, <2>1, LockSteps DEF Look, MyLease
<1>10. ASSUME Release(k) PROVE Stepping(k)
  <2>1. PICK l \in Leases : Given(l) /\ call' = [call EXCEPT ![k] =
             [Rest EXCEPT !.at = "releasing", !.kind = "release", !.lease = l]]
    BY <1>10 DEF Release
  <2> DEFINE c == [Rest EXCEPT !.at = "releasing", !.kind = "release", !.lease = l]
  <2>2. c \in CallRecords /\ c.at = "releasing" /\ c.kind = "release" /\ c.lease = l
    BY <1>1 DEF Rest, CallRecords, Places, Kinds
  <2> HIDE DEF c
  <2>3. QED
    BY <1>2, <1>4, <1>10, <2>1, <2>2 DEF Release, Given, c
<1>11. ASSUME Finish(k) PROVE Stepping(k)
  <2>0. PICK t \in Tasks : bound[t] # 0 /\ \E c : call' = [call EXCEPT ![k] = c]
          /\ \/ /\ active # 0 /\ lease[active].task = t
                /\ c = [Rest EXCEPT !.at = "finishing", !.kind = "finish", !.task = t,
                                    !.lease = active]
             \/ c = [Rest EXCEPT !.at = "queued", !.kind = "finish", !.task = t, !.gen = bound[t]]
    BY <1>11 DEF Finish
  <2>1. PICK c : call' = [call EXCEPT ![k] = c]
          /\ \/ /\ active # 0 /\ lease[active].task = t
                /\ c = [Rest EXCEPT !.at = "finishing", !.kind = "finish", !.task = t,
                                    !.lease = active]
             \/ c = [Rest EXCEPT !.at = "queued", !.kind = "finish", !.task = t, !.gen = bound[t]]
    BY <2>0
  <2>2. active \in {0} \cup Made /\ Made \subseteq Leases
    BY <1>1 DEF Typed, Made
  <2>3. bound[t] \in 1 .. gen /\ bound[t] \in 0 .. MaxGen
    BY <1>1, <2>0 DEF ProfileInv, Succession, Typed, Gens
  <2>4. c \in CallRecords /\ c.kind = "finish" /\ c.task = t
        /\ \/ c.at = "queued" /\ c.lease = 0 /\ c.gen \in 1 .. gen
           \/ c.at = "finishing" /\ c.lease \in Made /\ lease[c.lease].task = t
    <3>1. CASE c = [Rest EXCEPT !.at = "queued", !.kind = "finish", !.task = t, !.gen = bound[t]]
      BY <1>1, <2>3, <3>1 DEF Rest, CallRecords, Places, Kinds
    <3>2. CASE /\ active # 0 /\ lease[active].task = t
               /\ c = [Rest EXCEPT !.at = "finishing", !.kind = "finish", !.task = t,
                                   !.lease = active]
      BY <1>1, <2>2, <3>2 DEF Rest, CallRecords, Places, Kinds
    <3>3. QED
      BY <2>1, <3>1, <3>2
  <2>5. call[k].at \in Idling /\ UNCHANGED <<profile, gate, active, chooser, tasks, lease, loose>>
    BY <1>4, <1>11 DEF Finish
  <2>6. c.at \in {"queued", "finishing"} /\ c.kind \in {"acquire", "inspect", "release", "finish"}
    BY <2>4
  <2>7. c.at = "queued" => c.lease = 0 /\ c.gen \in 1 .. gen /\ c.kind # "release" /\ c.task \in Tasks
    BY <2>0, <2>4
  <2>8. c.at = "finishing" => c.lease \in Made /\ c.task = lease[c.lease].task
    BY <2>4
  <2>9. c \in CallRecords /\ call' = [call EXCEPT ![k] = c]
    BY <2>1, <2>4
  <2> HIDE <2>0, <2>1
  <2>10. QED
    BY <1>2, <2>5, <2>6, <2>7, <2>8, <2>9
<1>12. QED
  BY <1>5, <1>6, <1>7, <1>8, <1>9, <1>10, <1>11

LEMMA HeldFacts ==
  ASSUME ProfileInv, NEW k \in Doers, call[k].at \in Locking
  PROVE  /\ call[k].lease \in Made /\ call[k].lease \in Leases
         /\ ~lease[call[k].lease].free /\ ~lease[call[k].lease].released
         /\ CallsTyped /\ LeasesTyped /\ Equipped(k) /\ Apart(k) /\ Typed
BY InvFacts DEF ProfileInv, Equipped, Locked, Made

\* The call returns, or goes on to release the lease.
LEMMA BackFacts ==
  ASSUME BrowserConstants, ProfileInv, NEW k \in Calls, Returns(k) \/ ToRelease(k),
         call[k].lease \in Made, Made' = Made
  PROVE  Alone(k) /\ call'[k].at \in Idling /\ Equipped(k)' /\ Apart(k)'
<1>1. k \in Doers /\ CallsTyped /\ Rest \in CallRecords /\ call[k].lease \in Leases
  BY InvFacts, RestTyped DEF Doers, Made
<1>2. CASE Returns(k)
  <2>1. Alone(k) /\ call'[k] = Rest
    BY <1>1, <1>2, ReturnsFacts
  <2>2. QED
    BY <1>1, <2>1, RestFacts DEF Idling, Places, Holding, Locking
<1>3. CASE ToRelease(k)
  <2> DEFINE c == [Rest EXCEPT !.at = "releasing", !.kind = "release", !.lease = call[k].lease]
  <2>1. c \in CallRecords /\ c.at = "releasing" /\ c.kind = "release" /\ c.lease = call[k].lease
    BY <1>1 DEF Rest, CallRecords, Places, Kinds
  <2>2. Alone(k) /\ call'[k] = c
    BY <1>1, <1>3, <2>1, BecomesFacts DEF ToRelease
  <2>3. call[k].lease # 0
    BY <1>1 DEF Leases
  <2> HIDE DEF c
  <2>4. QED
    BY <2>1, <2>2, <2>3 DEF Idling, Places, Holding, Locking, Equipped, Unleased, Apart
<1>4. QED
  BY <1>2, <1>3

LEMMA UnlockSteps ==
  ASSUME BrowserConstants, ProfileInv, NEW k \in Calls, call[k].at \in Locking,
         Returns(k) \/ ToRelease(k), Touches(call[k].lease), lease'[call[k].lease].free,
         lease'[call[k].lease].released = lease[call[k].lease].released,
         UNCHANGED <<profile, gate, active>>,
         \/ chooser' \in {chooser, NoTask}
         \/ call[k].at \in {"acting", "uploading"} /\ chooser' = call[k].task,
         \/ loose' = loose /\ lease'[call[k].lease].uncertain = lease[call[k].lease].uncertain
         \/ /\ loose' = loose \cup ({lease[call[k].lease].gen} \ stopped)
            /\ lease'[call[k].lease].uncertain
         \/ loose' = loose \ {lease[call[k].lease].gen},
         unknown' \subseteq Tasks, bound' \in [Tasks -> 0 .. gen],
         owned' \in [Tasks -> 0 .. MaxGen]
  PROVE  Stepping(k)
<1>1. k \in Doers /\ call[k].lease \in Made /\ ~lease[call[k].lease].released /\ Typed
  BY HeldFacts DEF Doers
<1>2. Made' = Made
  BY TouchesMade
<1>3. Alone(k) /\ call'[k].at \in Idling /\ Equipped(k)' /\ Apart(k)'
  BY <1>1, <1>2, BackFacts
<1>4. Unlocks(k)
  BY <1>1, <1>3 DEF Unlocks, profile
<1>5. Belongings
  BY <1>1, <1>2 DEF Belongings, Typed, profile
<1>6. QED
  BY <1>3, <1>4, <1>5, CallSteps DEF Shapes, profile

LEMMA TaskFacts ==
  ASSUME ProfileInv
  PROVE  /\ unknown \subseteq Tasks /\ bound \in [Tasks -> 0 .. gen]
         /\ owned \in [Tasks -> 0 .. MaxGen]
BY DEF ProfileInv, Typed, Succession

LEMMA ForgetFacts ==
  ASSUME BrowserConstants, ProfileInv, NEW t, Forget(t)
  PROVE  /\ unknown' \subseteq Tasks /\ bound' \in [Tasks -> 0 .. gen]
         /\ owned' \in [Tasks -> 0 .. MaxGen]
<1>1. 0 \in 0 .. gen /\ 0 \in 0 .. MaxGen
  BY DEF BrowserConstants, ProfileInv, Typed, Gens
<1>2. QED
  BY <1>1, TaskFacts DEF Forget

LEMMA BeginSteps ==
  ASSUME BrowserConstants, ProfileInv, NEW k \in Calls, Begin(k)
  PROVE  Stepping(k)
<1>1. k \in Doers /\ call[k].at = "locked" /\ call[k].at \in Locking
  BY DEF Begin, Doers, Locking
<1>2. /\ call[k].lease \in Made /\ ~lease[call[k].lease].released
      /\ CallsTyped /\ LeasesTyped /\ Equipped(k) /\ Apart(k)
  BY <1>1, HeldFacts
<1>3. ASSUME NEW place \in {"acting", "uploading", "observing", "quiescing"}, Goes(k, place),
             lease' = lease, Current(MyLease(k).gen),
             place \in {"acting", "uploading"} => ~MyLease(k).uncertain,
             place # "observing" => ~Looks(k)
      PROVE  Stepping(k)
  <2>1. place \in Places /\ Made' = Made
    BY <1>3 DEF Places, Made
  <2>2. /\ Alone(k) /\ call'[k].at = place
        /\ call'[k].kind = call[k].kind /\ call'[k].task = call[k].task
        /\ call'[k].gen = call[k].gen /\ call'[k].lease = call[k].lease
    BY <1>1, <1>2, <1>3, <2>1, GoesFacts
  <2>3. Equipped(k)' /\ Apart(k)'
    BY <1>1, <1>2, <1>3, <2>1, <2>2 DEF Equipped, Unleased, Locking, Apart, Looks
  <2>4. Shifts(k)
    BY <1>1, <1>2, <1>3, <2>2 DEF Begin, Shifts, profile, MyLease
  <2>5. QED
    BY <1>3, <2>2, <2>3, <2>4, QuietSteps DEF Begin, Shapes, profile, tasks
<1>4. ASSUME Unlock(k), Returns(k) PROVE Stepping(k)
  <2>1. /\ Touches(call[k].lease) /\ lease'[call[k].lease].free
        /\ lease'[call[k].lease].released = lease[call[k].lease].released
        /\ lease'[call[k].lease].uncertain = lease[call[k].lease].uncertain
    BY <1>2, <1>4, FreeFacts DEF Unlock
  <2>2. QED
    BY <1>1, <1>4, <2>1, TaskFacts, UnlockSteps DEF Begin, tasks
<1>5. QED
  BY <1>3, <1>4 DEF Begin

LEMMA DoneSteps ==
  ASSUME BrowserConstants, ProfileInv, NEW k \in Calls,
         Acted(k) \/ Observed(k) \/ Unknown(k) \/ Reconciled(k)
  PROVE  Stepping(k)
<1>1. k \in Doers /\ call[k].at \in Locking
  BY DEF Acted, Observed, Unknown, Reconciled, Doers, Locking
<1> DEFINE l == call[k].lease
<1>2. l \in Made /\ CallsTyped /\ LeasesTyped /\ call[k].task \in Tasks
  BY <1>1, HeldFacts DEF Made, Equipped, LeasesTyped, LeaseRecords, Acted, Observed, Unknown,
                         Reconciled, Locking
<1>3. ASSUME Unlock(k)
      PROVE  /\ Touches(l) /\ lease'[l].free /\ lease'[l].released = lease[l].released
             /\ lease'[l].uncertain = lease[l].uncertain
  BY <1>2, <1>3, FreeFacts DEF Unlock
<1>4. ASSUME NEW u \in BOOLEAN, lease' = [lease EXCEPT ![l].uncertain = u, ![l].free = TRUE]
      PROVE  /\ Touches(l) /\ lease'[l].free /\ lease'[l].released = lease[l].released
             /\ lease'[l].uncertain = u
  BY <1>2, <1>4, OutcomeFacts
<1>5. ASSUME Acted(k) PROVE Stepping(k)
  BY <1>1, <1>3, <1>5, TaskFacts, UnlockSteps DEF Acted, tasks
<1>6. ASSUME Observed(k) PROVE Stepping(k)
  BY <1>1, <1>3, <1>6, TaskFacts, UnlockSteps DEF Observed, tasks
<1>7. ASSUME Unknown(k) PROVE Stepping(k)
  BY <1>1, <1>2, <1>4, <1>7, TaskFacts, UnlockSteps DEF Unknown, MarkUnknown, MyLease
<1>8. ASSUME Reconciled(k) PROVE Stepping(k)
  <2>1. unknown' \subseteq Tasks
    BY <1>8, TaskFacts DEF Reconciled
  <2>2. CASE loose' = loose \ {MyLease(k).gen}
             /\ lease' = [lease EXCEPT ![l].uncertain = FALSE, ![l].free = TRUE]
    BY <1>1, <1>4, <1>8, <2>1, <2>2, TaskFacts, UnlockSteps DEF Reconciled, MyLease
  <2>3. CASE loose' \in {loose, loose \ {MyLease(k).gen}} /\ Unlock(k)
    BY <1>1, <1>3, <1>8, <2>1, <2>3, TaskFacts, UnlockSteps DEF Reconciled, MyLease
  <2>4. QED
    BY <1>8, <2>2, <2>3 DEF Reconciled
<1>9. QED
  BY <1>5, <1>6, <1>7, <1>8

LEMMA BrowserClosedSteps ==
  ASSUME BrowserConstants, ProfileInv, NEW k \in Calls, BrowserClosed(k)
  PROVE  Stepping(k)
<1>1. k \in Doers /\ call[k].at \in Locking
  BY DEF BrowserClosed, Doers, Locking
<1> DEFINE l == call[k].lease
<1>2. l \in Made /\ l \in Leases /\ CallsTyped /\ LeasesTyped /\ ~lease[l].released /\ Typed
  BY <1>1, HeldFacts
<1>3. /\ Touches(l) /\ lease'[l].free /\ lease'[l].released = lease[l].released
      /\ lease'[l].uncertain = lease[l].uncertain
  BY <1>2, FreeFacts DEF BrowserClosed, Unlock
<1>4. Made' = Made
  BY <1>3, TouchesMade
<1>5. Alone(k) /\ call'[k].at \in Idling /\ Equipped(k)' /\ Apart(k)'
  BY <1>2, <1>4, BackFacts DEF BrowserClosed
<1>6. Fades
  <2>1. lease[l].gen \in 1 .. gen
    BY <1>2 DEF BrowserClosed, Current, MyLease, Typed, Gens
  <2>2. QED
    BY <1>2, <2>1, ConfirmFades DEF BrowserClosed, MyLease
<1>7. Unlocks(k)
  BY <1>1, <1>2, <1>3, <1>5, <1>6 DEF Unlocks
<1>8. Belongings
  BY <1>2, <1>4, SameBelongings DEF BrowserClosed, tasks, Typed
<1>9. QED
  BY <1>5, <1>7, <1>8, CallSteps DEF BrowserClosed, Shapes

-----------------------------------------------------------------------------
\* Releasing a lease, for a task or a closer.

LEMMA AfterFacts ==
  ASSUME BrowserConstants, ProfileInv, NEW k \in Doers,
         call' = [call EXCEPT ![k] = After(k)], call[k].at \in {"releasing", "settling"},
         Made' = Made, UNCHANGED <<gen, live, transition, stopped>>
  PROVE  /\ Alone(k) /\ call'[k].at \in Idling /\ Equipped(k)' /\ Apart(k)'
         /\ Replaces(k)
<1>1. CallsTyped /\ Rest \in CallRecords /\ call[k] \in CallRecords /\ Equipped(k) /\ Apart(k)
  BY InvFacts, RestTyped, CallFields
<1>2. CASE call[k].kind # "close"
  <2>1. Alone(k) /\ call'[k] = Rest /\ k \in Calls
    BY <1>1, <1>2, BecomesFacts DEF After, Apart, Doers
  <2>2. QED
    BY <2>1, RestFacts DEF Idling, Places, Holding, Locking, Replaces
<1>3. CASE call[k].kind = "close"
  <2> DEFINE c == [call[k] EXCEPT !.at = "draining"]
  <2>1. c \in CallRecords /\ c.at = "draining" /\ c.kind = "close" /\ c.lease = call[k].lease
        /\ c.gen = call[k].gen /\ c.new = call[k].new
    BY <1>1, <1>3 DEF CallRecords, Places
  <2>2. Alone(k) /\ call'[k] = c /\ k \in Closers /\ k \notin Calls
    BY <1>1, <1>3, <2>1, BecomesFacts DEF After, Apart, Doers
  <2> HIDE DEF c
  <2>3. call'[k].at \in Idling /\ Equipped(k)' /\ Apart(k)'
    BY <1>1, <2>1, <2>2 DEF Idling, Places, Holding, Locking, Equipped, Unleased, Apart, Closing
  <2>4. Replaces(k)
    BY <2>1, <2>2 DEF Replaces, Replacing, Confirmed, ProfileInv, Replacement
  <2>5. QED
    BY <2>2, <2>3, <2>4
<1>4. QED
  BY <1>2, <1>3

\* The step of a call or a closer.
LEMMA DoerSteps ==
  ASSUME NEW k \in Doers, Alone(k), Equipped(k)', Apart(k)', Replaces(k), Shapes(k), Belongings
  PROVE  Stepping(k)
BY DEF Stepping, Others, Alone, CallsTyped

LEMMA FreedSteps ==
  ASSUME BrowserConstants, ProfileInv, NEW k \in Doers, call[k].at \in {"releasing", "settling"},
         Freed(k), ~MyLease(k).released, call[k].at = "releasing" => MyLease(k).free,
         \/ loose' = loose \ {MyLease(k).gen}
         \/ loose' = loose /\ (~MyLease(k).uncertain \/ MyLease(k).gen \in stopped),
         UNCHANGED <<profile, chooser, tasks>>
  PROVE  Stepping(k)
<1> DEFINE l == call[k].lease
<1>1. l \in Made /\ LeasesTyped /\ Typed /\ Equipped(k)
  BY InvFacts DEF Equipped, Locking
<1>2. Touches(l) /\ lease'[l].released
  BY <1>1, ReleasedFacts DEF Freed
<1>3. Made' = Made
  BY <1>2, TouchesMade
<1>4. /\ Alone(k) /\ call'[k].at \in Idling /\ Equipped(k)' /\ Apart(k)' /\ Replaces(k)
  BY <1>3, AfterFacts DEF Freed, profile
<1>5. Frees(k)
  BY <1>2, <1>4 DEF Frees, Freed, MyLease, Still, profile
<1>6. Belongings
  <2>1. active' \in {0, active}
    BY DEF Freed
  <2>2. QED
    BY <1>1, <1>3, <2>1, SameBelongings DEF tasks, profile, Typed
<1>7. QED
  BY <1>4, <1>5, <1>6, DoerSteps DEF Shapes

LEMMA ReleaseSteps ==
  ASSUME BrowserConstants, ProfileInv, NEW k \in Doers, DoRelease(k)
  PROVE  Stepping(k)
<1> DEFINE l == call[k].lease
<1>1. /\ l \in Made /\ CallsTyped /\ LeasesTyped /\ Typed /\ Equipped(k) /\ Apart(k)
      /\ call[k].at = "releasing"
  BY InvFacts DEF Equipped, Locking, DoRelease
<1>2. UNCHANGED <<profile, chooser, tasks, loose>> /\ MyLease(k).free
  BY DEF DoRelease
<1>3. ASSUME call' = [call EXCEPT ![k] = After(k)], UNCHANGED <<lease, active, gate>>
      PROVE  Stepping(k)
  <2>1. Made' = Made
    BY <1>3 DEF Made
  <2>2. /\ Alone(k) /\ call'[k].at \in Idling /\ Equipped(k)' /\ Apart(k)' /\ Replaces(k)
    BY <1>1, <1>2, <1>3, <2>1, AfterFacts DEF profile
  <2>3. Walks(k)
    BY <1>1, <1>2, <1>3, <2>2, StillFades DEF Walks, profile, Idling, Places, Holding, Locking
  <2>4. Belongings
    BY <1>1, <1>2, <1>3, <2>1, SameBelongings DEF tasks, profile, Typed
  <2>5. QED
    BY <2>2, <2>3, <2>4, DoerSteps DEF Shapes
<1>4. ASSUME ~MyLease(k).released, MyLease(k).gen \notin stopped,
             lease' = [lease EXCEPT ![l].free = FALSE], Goes(k, "settling"),
             UNCHANGED <<active, gate>>
      PROVE  Stepping(k)
  <2>1. /\ Alone(k) /\ call'[k].at = "settling"
        /\ call'[k].kind = call[k].kind /\ call'[k].task = call[k].task
        /\ call'[k].gen = call[k].gen /\ call'[k].lease = l /\ call'[k].new = call[k].new
    BY <1>1, <1>4, GoesFacts DEF Places
  <2>2. /\ Touches(l) /\ ~lease'[l].free
        /\ lease'[l].released = lease[l].released /\ lease'[l].uncertain = lease[l].uncertain
    BY <1>1, <1>4, FreeFacts
  <2>3. Made' = Made /\ l # 0
    BY <1>1, <2>2, TouchesMade DEF Made, Leases
  <2>4. Equipped(k)' /\ Apart(k)'
    BY <1>1, <2>1, <2>3 DEF Equipped, Unleased, Locking, Apart, Closing
  <2>5. Locks(k)
    BY <1>1, <1>2, <1>4, <2>1, <2>2 DEF Locks, Still, MyLease, profile, Idling, Places, Holding,
                                        Locking
  <2>6. Belongings
    BY <1>1, <1>2, <1>4, <2>3, SameBelongings DEF tasks, profile, Typed
  <2>7. Replaces(k)
    BY <1>1, <1>2, <2>1 DEF Replaces, Replacing, Confirmed, ProfileInv, Replacement, profile, Doers
  <2>8. QED
    BY <2>1, <2>4, <2>5, <2>6, <2>7, DoerSteps DEF Shapes
<1>5. ASSUME Freed(k), ~MyLease(k).released, ~MyLease(k).uncertain \/ MyLease(k).gen \in stopped
      PROVE  Stepping(k)
  BY <1>1, <1>2, <1>5, FreedSteps
<1>6. QED
  BY <1>3, <1>4, <1>5 DEF DoRelease

LEMMA SettledSteps ==
  ASSUME BrowserConstants, ProfileInv, NEW k \in Doers, Settled(k)
  PROVE  Stepping(k)
<1> DEFINE l == call[k].lease
<1>1. call[k].at = "settling" /\ call[k].at \in Locking
  BY DEF Settled, Locking
<1>2. /\ l \in Made /\ ~lease[l].released /\ CallsTyped /\ LeasesTyped /\ Typed
      /\ Equipped(k) /\ Apart(k)
  BY <1>1, HeldFacts
<1>3. CASE Freed(k) /\ loose' = loose \ {MyLease(k).gen}
  BY <1>1, <1>2, <1>3, FreedSteps DEF Settled, MyLease
<1>4. CASE Unlock(k) /\ Returns(k) /\ UNCHANGED <<active, gate, loose>>
  <2>1. /\ Touches(l) /\ lease'[l].free
        /\ lease'[l].released = lease[l].released /\ lease'[l].uncertain = lease[l].uncertain
    BY <1>2, <1>4, FreeFacts DEF Unlock
  <2>2. Made' = Made
    BY <2>1, TouchesMade
  <2>3. Alone(k) /\ call'[k] = Rest
    BY <1>2, <1>4, ReturnsFacts
  <2>4. call'[k].at = "idle" /\ Equipped(k)' /\ Apart(k)'
    BY <2>3, RestFacts
  <2>5. Unlocks(k)
    BY <1>1, <1>2, <1>4, <2>1, <2>4, StillFades DEF Settled, Unlocks, profile, Idling, Places,
                                                    Holding, Locking
  <2>6. Belongings
    BY <1>2, <1>4, <2>2, SameBelongings DEF Settled, tasks, profile, Typed
  <2>7. Replaces(k)
    BY <2>4 DEF Settled, Replaces, Replacing, Confirmed, profile
  <2>8. QED
    BY <2>3, <2>4, <2>5, <2>6, <2>7, DoerSteps DEF Shapes
<1>5. QED
  BY <1>3, <1>4 DEF Settled

-----------------------------------------------------------------------------
\* Finishing a task.

LEMMA CleanupSteps ==
  ASSUME BrowserConstants, ProfileInv, NEW k \in Calls, Cleanup(k)
  PROVE  Stepping(k)
<1> DEFINE l == call[k].lease
           t == call[k].task
<1>1. /\ k \in Doers /\ l \in Made /\ l \in Leases /\ CallsTyped /\ LeasesTyped /\ Typed
      /\ Equipped(k) /\ Apart(k) /\ call[k].at = "finishing" /\ call[k].at \in Idling
  BY InvFacts DEF Equipped, Locking, Cleanup, Doers, Made, Idling, Places, Holding
<1>2. UNCHANGED <<profile, gate, active, chooser, loose>> /\ MyLease(k).free
  BY DEF Cleanup
<1>3. ASSUME ToRelease(k), lease' = lease, UNCHANGED tasks \/ Forget(t)
      PROVE  Stepping(k)
  <2>1. Made' = Made
    BY <1>3 DEF Made
  <2>2. Alone(k) /\ call'[k].at \in Idling /\ Equipped(k)' /\ Apart(k)'
    BY <1>1, <1>3, <2>1, BackFacts
  <2>3. Walks(k)
    BY <1>1, <1>2, <1>3, <2>2, StillFades DEF Walks, profile
  <2>4. Belongings
    BY <1>1, <1>2, <1>3, <2>1, TaskFacts, ForgetFacts DEF Belongings, tasks, profile, Typed
  <2>5. QED
    BY <1>2, <2>2, <2>3, <2>4, CallSteps DEF Shapes, profile
<1>4. ASSUME ~Refused(k), Current(MyLease(k).gen), chooser \in {NoTask, t},
             lease' = [lease EXCEPT ![l].free = FALSE], UNCHANGED tasks,
             NEW place \in {"cancelling", "closing"}, Goes(k, place)
      PROVE  Stepping(k)
  <2>1. /\ Alone(k) /\ call'[k].at = place
        /\ call'[k].kind = call[k].kind /\ call'[k].task = call[k].task
        /\ call'[k].gen = call[k].gen /\ call'[k].lease = l /\ call'[k].new = call[k].new
    BY <1>1, <1>4, GoesFacts DEF Places
  <2>2. /\ Touches(l) /\ ~lease'[l].free
        /\ lease'[l].released = lease[l].released /\ lease'[l].uncertain = lease[l].uncertain
    BY <1>1, <1>4, FreeFacts
  <2>3. Made' = Made /\ l # 0
    BY <1>1, <2>2, TouchesMade DEF Made, Leases
  <2>4. Equipped(k)' /\ Apart(k)'
    BY <1>1, <1>4, <2>1, <2>2, <2>3 DEF Equipped, Unleased, Locking, Apart, Closing, Touches
  <2>5. ~lease[l].released /\ ~lease[l].uncertain
    BY <1>4 DEF Refused, MyLease, Current, ProfileInv, Succession
  <2>6. Locks(k)
    BY <1>1, <1>2, <1>4, <2>1, <2>2, <2>5 DEF Locks, Still, MyLease, profile
  <2>7. Belongings
    BY <1>1, <1>2, <1>4, <2>3, SameBelongings DEF tasks, profile, Typed
  <2>8. QED
    BY <1>2, <2>1, <2>4, <2>6, <2>7, CallSteps DEF Shapes, profile
<1>5. QED
  BY <1>3, <1>4 DEF Cleanup

LEMMA ClosingSteps ==
  ASSUME BrowserConstants, ProfileInv, NEW k \in Calls,
         ChooserCancelled(k) \/ PageClosed(k) \/ CleanupUnknown(k)
  PROVE  Stepping(k)
<1>1. k \in Doers /\ call[k].at \in {"cancelling", "closing"} /\ call[k].at \in Locking
  BY DEF ChooserCancelled, PageClosed, CleanupUnknown, Doers, Locking
<1> DEFINE l == call[k].lease
<1>2. /\ l \in Made /\ CallsTyped /\ LeasesTyped /\ call[k].task \in Tasks
      /\ Equipped(k) /\ Apart(k)
  BY <1>1, HeldFacts DEF Made, Equipped, LeasesTyped, LeaseRecords, Locking
<1>3. ASSUME Unlock(k)
      PROVE  /\ Touches(l) /\ lease'[l].free /\ lease'[l].released = lease[l].released
             /\ lease'[l].uncertain = lease[l].uncertain
  BY <1>2, <1>3, FreeFacts DEF Unlock
<1>4. ASSUME ChooserCancelled(k) PROVE Stepping(k)
  <2>1. ASSUME chooser' \in {NoTask, call[k].task}, chooser' \in {chooser, NoTask},
               Current(MyLease(k).gen), Goes(k, "closing"), lease' = lease
        PROVE  Stepping(k)
    <3>1. /\ Alone(k) /\ call'[k].at = "closing"
          /\ call'[k].kind = call[k].kind /\ call'[k].task = call[k].task
          /\ call'[k].gen = call[k].gen /\ call'[k].lease = l /\ call'[k].new = call[k].new
      BY <1>1, <1>2, <2>1, GoesFacts DEF Places
    <3>2. Made' = Made
      BY <2>1 DEF Made
    <3>3. Equipped(k)' /\ Apart(k)'
      BY <1>1, <1>2, <2>1, <3>1, <3>2 DEF Equipped, Unleased, Locking, Apart, Closing
    <3>4. ~lease[l].uncertain
      BY <1>1 DEF ProfileInv, Certain
    <3>5. Shifts(k)
      BY <1>1, <1>4, <2>1, <3>1, <3>4 DEF ChooserCancelled, Shifts, MyLease, profile, Locking
    <3>6. QED
      BY <1>4, <2>1, <3>1, <3>3, <3>5, QuietSteps DEF ChooserCancelled, Shapes, profile, tasks
  <2>2. ASSUME ToRelease(k), Unlock(k), chooser' \in {chooser, NoTask}
        PROVE  Stepping(k)
    BY <1>1, <1>3, <1>4, <2>2, TaskFacts, UnlockSteps DEF ChooserCancelled, tasks
  <2>3. chooser \in {NoTask, call[k].task}
    BY <1>1 DEF ProfileInv, Chosen
  <2>4. QED
    BY <1>4, <2>1, <2>2, <2>3 DEF ChooserCancelled
<1>5. ASSUME PageClosed(k) PROVE Stepping(k)
  <2>1. /\ unknown' \subseteq Tasks /\ bound' \in [Tasks -> 0 .. gen]
        /\ owned' \in [Tasks -> 0 .. MaxGen]
    BY <1>5, TaskFacts, ForgetFacts DEF PageClosed, tasks
  <2>2. QED
    BY <1>1, <1>3, <1>5, <2>1, UnlockSteps DEF PageClosed
<1>6. ASSUME CleanupUnknown(k) PROVE Stepping(k)
  <2>1. /\ Touches(l) /\ lease'[l].free /\ lease'[l].released = lease[l].released
        /\ lease'[l].uncertain = TRUE
    BY <1>2, <1>6, OutcomeFacts DEF CleanupUnknown
  <2>2. /\ ToRelease(k) /\ UNCHANGED <<profile, gate, active>> /\ chooser' = chooser
        /\ loose' = loose \cup ({lease[l].gen} \ stopped)
        /\ unknown' = unknown \cup {call[k].task} /\ bound' = bound /\ owned' = owned
    BY <1>6 DEF CleanupUnknown, MarkUnknown, MyLease
  <2>3. /\ unknown' \subseteq Tasks /\ bound' \in [Tasks -> 0 .. gen]
        /\ owned' \in [Tasks -> 0 .. MaxGen]
    BY <1>2, <2>2, TaskFacts
  <2>4. QED
    BY <1>1, <2>1, <2>2, <2>3, UnlockSteps
<1>7. QED
  BY <1>4, <1>5, <1>6

-----------------------------------------------------------------------------
\* Closers.

LEMMA CloserSteps ==
  ASSUME BrowserConstants, ProfileInv, NEW z \in Closers,
         Close(z) \/ StopSession(z) \/ StopFails(z) \/ CloseConfirms(z) \/ Drained(z)
  PROVE  Stepping(z)
<1>1. /\ z \in Doers /\ z \notin Calls /\ CallsTyped /\ LeasesTyped /\ Typed
      /\ Equipped(z) /\ Apart(z) /\ Confirmed(z) /\ Rest \in CallRecords
      /\ gen \in 1 .. gen /\ gen \in 0 .. MaxGen /\ Made \subseteq Leases /\ 0 \notin Made
  BY InvFacts, RestTyped DEF Doers, BrowserConstants, ProfileInv, Replacement, Typed, Gens, Made,
                             Leases
<1>2. lease' = lease /\ Made' = Made /\ UNCHANGED <<gen, active, tasks>>
      /\ transition' \in BOOLEAN
  <2>1. call[z].new \in BOOLEAN
    BY <1>1, CallFields
  <2>2. QED
    BY <1>1, <2>1 DEF Close, StopSession, StopFails, CloseConfirms, Drained, Made, profile, Typed
<1>3. Belongings
  BY <1>1, <1>2, SameBelongings DEF tasks, Typed
<1>4. ASSUME NEW c \in CallRecords, Alone(z), call'[z] = c,
             c.at \in {"stopping", "confirming", "releasing", "draining", "connecting"},
             c.kind = "close", c.lease \in {0} \cup Made, c.at = "releasing" => c.lease # 0,
             Fades, Replaces(z)
      PROVE  Stepping(z)
  <2>1. Equipped(z)' /\ Apart(z)'
    BY <1>1, <1>2, <1>4 DEF Equipped, Unleased, Locking, Apart, Closing
  <2>2. call'[z].at \in Idling /\ call[z].at \in Idling
    <3>1. call[z].at \in Idling
      BY <1>1 DEF Close, StopSession, StopFails, CloseConfirms, Drained, Idling, Places, Holding,
                  Locking
    <3>2. QED
      BY <1>4, <3>1 DEF Idling, Places, Holding, Locking
  <2>3. Walks(z)
    BY <1>2, <1>4, <2>2 DEF Walks
  <2>4. QED
    BY <1>1, <1>3, <1>4, <2>1, <2>3, DoerSteps DEF Shapes
<1>5. ASSUME Returns(z), Fades, transition' = transition \/ (Replacing(z) /\ transition' = TRUE)
      PROVE  Stepping(z)
  <2>1. Alone(z) /\ call'[z] = Rest
    BY <1>1, <1>5, ReturnsFacts
  <2>2. call'[z].at = "idle" /\ Equipped(z)' /\ Apart(z)'
    BY <1>1, <2>1, RestFacts
  <2>3. Walks(z)
    BY <1>1, <1>2, <1>5, <2>2 DEF Walks, Close, StopSession, StopFails, CloseConfirms, Drained,
                                  Idling, Places, Holding, Locking
  <2>4. Replaces(z)
    BY <1>1, <1>5, <2>2 DEF Replaces, Replacing, Confirmed
  <2>5. QED
    BY <1>1, <1>3, <2>1, <2>2, <2>3, <2>4, DoerSteps DEF Shapes
<1>6. ASSUME NEW place \in {"confirming", "releasing", "draining", "connecting"}, Goes(z, place),
             call[z].at \notin {"idle"}, place = "releasing" => call[z].lease # 0,
             place # "confirming" => call[z].gen \in stopped',
             place = "connecting" => call[z].new /\ gate,
             Fades, transition' = transition
      PROVE  Stepping(z)
  <2>1. /\ Alone(z) /\ call'[z].at = place
        /\ call'[z].kind = call[z].kind /\ call'[z].task = call[z].task
        /\ call'[z].gen = call[z].gen /\ call'[z].lease = call[z].lease
        /\ call'[z].new = call[z].new
    BY <1>1, <1>6, GoesFacts DEF Places
  <2>2. call[z].kind = "close" /\ call'[z] \in CallRecords /\ call[z].lease \in {0} \cup Made
    BY <1>1, <1>6, <2>1 DEF Apart, Equipped, Alone, CallsTyped
  <2>3. Replaces(z)
    <3>1. gen' = gen /\ (live' => live)
      BY <1>1, <1>6, FadesFacts
    <3>2. Replacing(z)' = Replacing(z)
      BY <1>6, <2>1 DEF Replacing
    <3>3. Confirmed(z)'
      BY <1>1, <1>6, <2>1, <3>1, <3>2 DEF Confirmed
    <3>4. QED
      BY <1>1, <1>6, <2>1, <3>2, <3>3 DEF Replaces
  <2>4. QED
    BY <1>4, <1>6, <2>1, <2>2, <2>3
<1>7. ASSUME Close(z) PROVE Stepping(z)
  <2>1. PICK replace \in BOOLEAN :
          /\ replace => transition /\ gen < MaxGen
          /\ transition' = (transition /\ ~replace)
          /\ call' = [call EXCEPT ![z] = [Rest EXCEPT !.at = "stopping", !.kind = "close",
                                            !.gen = gen, !.lease = active, !.new = replace]]
    BY <1>7 DEF Close
  <2> DEFINE c == [Rest EXCEPT !.at = "stopping", !.kind = "close",
                               !.gen = gen, !.lease = active, !.new = replace]
  <2>2. active \in {0} \cup Made
    BY <1>1 DEF Typed
  <2>3. c \in CallRecords /\ c.at = "stopping" /\ c.kind = "close" /\ c.gen = gen
        /\ c.lease = active /\ c.new = replace
    BY <1>1, <2>2 DEF Rest, CallRecords, Places, Kinds
  <2>4. Alone(z) /\ call'[z] = c
    BY <1>1, <2>1, <2>3, BecomesFacts
  <2> HIDE DEF c
  <2>5. Fades
    <3>1. {} \in SUBSET (1 .. gen)
      OBVIOUS
    <3>2. QED
      BY <1>1, <1>7, <3>1 DEF Close, Fades, Typed
  <2>6. Replaces(z)
    BY <1>1, <1>2, <1>7, <2>1, <2>3, <2>4 DEF Close, Replaces, Replacing, Confirmed
  <2>7. QED
    BY <1>4, <2>2, <2>3, <2>4, <2>5, <2>6
<1>8. ASSUME UNCHANGED <<gen, live, stopped, stranded, gate, chooser, loose>> PROVE Fades
  BY <1>1, <1>8, StillFades
<1>9. ASSUME StopSession(z) PROVE Stepping(z)
  BY <1>6, <1>8, <1>9 DEF StopSession, profile
<1>10. ASSUME StopFails(z) PROVE Stepping(z)
  <2>1. call[z].new \in BOOLEAN /\ transition \in BOOLEAN
    BY <1>1, CallFields DEF Typed
  <2>2. transition' = transition \/ (Replacing(z) /\ transition' = TRUE)
    BY <1>10, <2>1 DEF StopFails, Replacing
  <2>3. Returns(z) /\ Fades
    BY <1>8, <1>10 DEF StopFails
  <2>4. QED
    BY <1>5, <2>2, <2>3
<1>11. ASSUME CloseConfirms(z) PROVE Stepping(z)
  <2>1. Fades /\ call[z].gen \in stopped'
    BY <1>1, <1>11, ConfirmFades DEF CloseConfirms, Confirm, Confirmed
  <2>2. QED
    BY <1>1, <1>6, <1>11, <2>1 DEF CloseConfirms
<1>12. ASSUME Drained(z) PROVE Stepping(z)
  <2>1. Fades /\ call[z].gen \in stopped'
    BY <1>1, <1>8, <1>12 DEF Drained, Confirmed, profile
  <2>2. QED
    BY <1>1, <1>5, <1>6, <1>12, <2>1 DEF Drained, profile
<1>13. QED
  BY <1>7, <1>9, <1>10, <1>11, <1>12

LEMMA StepKinds ==
  ASSUME BrowserConstants, ProfileInv, Next
  PROVE  \/ \E k \in Doers : Stepping(k)
         \/ \E z \in Closers : Finished(z)
         \/ ConfirmSessionStopped
<1>1. ASSUME NEW k \in Calls, Go(k) PROVE Stepping(k)
  <2>1. k \in Doers
    BY DEF Doers
  <2>2. QED
    BY <1>1, <2>1, GateSteps, StrandSteps, PublishSteps, EnterSteps, StartSteps, BeginSteps,
       DoneSteps, BrowserClosedSteps, ReleaseSteps, SettledSteps, CleanupSteps, ClosingSteps
       DEF Go
<1>2. ASSUME NEW k \in Calls,
             Acquire(k) \/ Inspect(k) \/ Leave(k) \/ Work(k) \/ Release(k) \/ Finish(k)
      PROVE  Stepping(k)
  BY <1>2, StartSteps
<1>3. ASSUME NEW z \in Closers, Close(z) \/ CloserGo(z) PROVE Stepping(z) \/ Finished(z)
  <2>1. z \in Doers
    BY DEF Doers
  <2>2. QED
    BY <1>3, <2>1, CloserSteps, ReleaseSteps, SettledSteps DEF CloserGo
<1>4. QED
  BY <1>1, <1>2, <1>3 DEF Next, Doers

-----------------------------------------------------------------------------
\* Each part of the invariant, shape by shape.

\* What no step takes back.
Lasting(k) ==
  /\ gen' = gen /\ stopped \subseteq stopped' /\ (live' => live)
  /\ lease' \in [Leases -> LeaseRecords] /\ Made \subseteq Made'
  /\ \A l \in Made : /\ lease'[l].task = lease[l].task /\ lease'[l].gen = lease[l].gen
                     /\ lease'[l].inner = lease[l].inner
  /\ \A j \in Doers \ {k} :
       call[j].at \in Locking => lease'[call[j].lease] = lease[call[j].lease]

LEMMA StepsLast ==
  ASSUME ProfileInv, NEW k \in Doers, Stepping(k)
  PROVE  Lasting(k)
<1>1. LeasesTyped /\ Typed /\ Made \subseteq Leases
      /\ \A j \in Doers : Equipped(j)
  BY InvFacts DEF Made
<1>2. gen' = gen /\ stopped \subseteq stopped' /\ (live' => live)
  <2>1. CASE Fades
    BY <1>1, <2>1, FadesFacts
  <2>2. CASE UNCHANGED <<gen, live, stopped>>
    BY <2>2
  <2>3. QED
    BY <2>1, <2>2 DEF Stepping, Shapes, Walks, Takes, Keeps, Gives, Strands, Opens, Locks, Shifts,
                      Unlocks, Frees, Still
<1>3. ASSUME lease' = lease PROVE Lasting(k)
  BY <1>1, <1>2, <1>3 DEF Lasting, Made, LeasesTyped
<1>4. ASSUME NEW l, Touches(l),
             \A j \in Doers \ {k} : call[j].at \in Locking => call[j].lease # l
      PROVE  Lasting(k)
  <2>1. Made' = Made
    BY <1>4, TouchesMade
  <2>2. \A j \in Doers : call[j].at \in Locking => call[j].lease \in Leases
    BY <1>1, HeldFacts
  <2>3. QED
    BY <1>1, <1>2, <1>4, <2>1, <2>2 DEF Lasting, Touches
<1>5. ASSUME Opens(k) PROVE Lasting(k)
  <2>1. PICK l \in Leases \ Made : \A m \in Leases \ {l} : lease'[m] = lease[m]
    BY <1>5 DEF Opens
  <2>2. \A m \in Made : lease'[m] = lease[m]
    BY <1>1, <2>1
  <2>3. \A j \in Doers : call[j].at \in Locking => call[j].lease \in Made
    BY HeldFacts
  <2>4. QED
    BY <1>1, <1>2, <1>5, <2>2, <2>3 DEF Opens, Lasting, Made
<1>6. ASSUME NEW l \in Leases, lease[l].free
      PROVE  \A j \in Doers \ {k} : call[j].at \in Locking => call[j].lease # l
  BY <1>6, HeldFacts
<1>7. ASSUME call[k].at \in Locking
      PROVE  \A j \in Doers \ {k} : call[j].at \in Locking => call[j].lease # call[k].lease
  BY <1>7 DEF ProfileInv, Locked
<1>8. ASSUME Locks(k) PROVE Lasting(k)
  <2>1. call'[k].lease \in Leases /\ Touches(call'[k].lease) /\ lease[call'[k].lease].free
    BY <1>1, <1>8 DEF Locks, Touches
  <2>2. QED
    BY <1>4, <1>6, <2>1
<1>9. ASSUME Unlocks(k) PROVE Lasting(k)
  BY <1>4, <1>7, <1>9 DEF Unlocks
<1>10. ASSUME Frees(k) PROVE Lasting(k)
  <2>1. call[k].lease \in Leases /\ Touches(call[k].lease)
    BY <1>1, <1>10 DEF Frees, Touches
  <2>2. call[k].at \in Locking \/ lease[call[k].lease].free
    BY <1>10 DEF Frees, Locking
  <2>3. QED
    BY <1>4, <1>6, <1>7, <2>1, <2>2
<1>11. QED
  BY <1>3, <1>5, <1>8, <1>9, <1>10 DEF Stepping, Shapes, Walks, Takes, Keeps, Gives, Strands, Shifts

LEMMA TypedStep ==
  ASSUME BrowserConstants, ProfileInv, NEW k \in Doers, Stepping(k)
  PROVE  Typed'
<1>1. Typed /\ Lasting(k) /\ CallsTyped /\ LeasesTyped /\ Others(k) /\ Belongings /\ gen \in Nat
      /\ Succession
  BY StepsLast, InvFacts DEF Stepping, Typed, Gens, ProfileInv
<1>2. call[k].gen \in 0 .. MaxGen /\ call[k].task \in Tasks \cup {NoTask}
  BY <1>1, CallFields
<1>3. gen' \in Gens /\ live' \in BOOLEAN /\ transition' \in BOOLEAN /\ active' \in {0} \cup Made'
      /\ unknown' \subseteq Tasks /\ owned' \in [Tasks -> 0 .. MaxGen]
      /\ lease' \in [Leases -> LeaseRecords] /\ call' \in [Doers -> CallRecords]
  <2>1. live' \in BOOLEAN
    BY <1>1 DEF Stepping, Shapes, Walks, Takes, Keeps, Gives, Strands, Opens, Locks, Shifts,
                Unlocks, Frees, Fades, Still, Typed
  <2>2. QED
    BY <1>1, <2>1 DEF Typed, Lasting, Others, Belongings
<1>4. bound' \in [Tasks -> 0 .. MaxGen]
  <2>1. 0 .. gen \subseteq 0 .. MaxGen
    BY <1>1 DEF Typed, Gens, BrowserConstants
  <2>2. QED
    BY <1>1, <2>1 DEF Belongings
<1>5. chooser' \in Tasks \cup {NoTask}
  BY <1>1, <1>2 DEF Stepping, Shapes, Walks, Takes, Keeps, Gives, Strands, Opens, Locks, Shifts,
                    Unlocks, Frees, Fades, Still, Typed
<1>6. gate' \in BOOLEAN
  <2>1. CASE Fades
    BY <1>1, <2>1, FadesFacts
  <2>2. CASE gate' = gate \/ gate' = TRUE
    BY <1>1, <2>2 DEF Typed
  <2>3. CASE Takes(k)
    BY <2>3 DEF Takes
  <2>4. QED
    BY <2>1, <2>2, <2>3 DEF Stepping, Shapes, Walks, Keeps, Gives, Strands, Opens, Locks, Shifts,
                            Unlocks, Frees, Still
<1>7. ASSUME Fades PROVE stopped' \subseteq Gens /\ stranded' \in 0 .. MaxGen /\ loose' \subseteq Gens
  <2>1. 1 .. gen \subseteq Gens
    BY <1>1 DEF Typed, Gens, BrowserConstants
  <2>2. 0 \in 0 .. MaxGen
    BY DEF BrowserConstants
  <2>3. QED
    BY <1>1, <1>7, <2>1, <2>2 DEF Fades, Typed
<1>8. stopped' \subseteq Gens /\ stranded' \in 0 .. MaxGen /\ loose' \subseteq Gens
  <2>1. CASE Strands(k)
    <3>1. call[k].gen \in Gens
      BY <1>1, <2>1 DEF Strands, Equipped, Unleased, Gens, Typed, BrowserConstants, ProfileInv
    <3>2. QED
      BY <1>1, <1>2, <2>1, <3>1 DEF Strands, Still, Typed
  <2>2. CASE Unlocks(k) /\ ~Fades
    <3>1. lease[call[k].lease].gen \in Gens
      BY <1>1, <2>2 DEF Unlocks, Touches, Succession, Gens, Typed, BrowserConstants
    <3>2. QED
      BY <1>1, <2>2, <3>1 DEF Unlocks, Typed
  <2>3. QED
    BY <1>1, <1>7, <2>1, <2>2 DEF Stepping, Shapes, Walks, Takes, Keeps, Gives, Opens, Locks,
                                  Shifts, Unlocks, Frees, Still, Typed
<1>9. QED
  BY <1>3, <1>4, <1>5, <1>6, <1>8 DEF Typed

LEMMA EquippedStep ==
  ASSUME ProfileInv, NEW k \in Doers, Stepping(k)
  PROVE  \A j \in Doers : Equipped(j)' /\ Apart(j)'
<1>1. Lasting(k) /\ Others(k)
  BY StepsLast DEF Stepping
<1>2. ASSUME NEW j \in Doers \ {k} PROVE Equipped(j)' /\ Apart(j)'
  <2>1. call'[j] = call[j] /\ Equipped(j) /\ Apart(j)
    BY <1>1, InvFacts DEF Others
  <2>2. 0 \notin Made
    BY DEF Made, Leases
  <2>3. QED
    BY <1>1, <2>1, <2>2 DEF Lasting, Equipped, Apart, Unleased, Locking, Closing
<1>3. QED
  BY <1>1, <1>2 DEF Others

LEMMA SuccessionStep ==
  ASSUME BrowserConstants, ProfileInv, NEW k \in Doers, Stepping(k)
  PROVE  Succession'
<1>1. /\ Typed /\ Lasting(k) /\ Succession /\ Equipped(k) /\ gen' = gen /\ gen \in Nat
      /\ Made \subseteq Leases
  BY StepsLast, InvFacts DEF ProfileInv, Lasting, Typed, Gens, Made
<1>2. \A l \in Made' : lease'[l].gen \in 1 .. gen
  <2>1. ASSUME NEW l \in Made PROVE lease'[l].gen \in 1 .. gen
    BY <1>1 DEF Lasting, Succession
  <2>2. CASE Opens(k)
    <3>1. PICK l \in Leases \ Made : /\ \A m \in Leases \ {l} : lease'[m] = lease[m]
                                     /\ lease'[l].gen = call[k].gen
      BY <2>2 DEF Opens
    <3>2. call[k].gen \in 1 .. gen
      BY <1>1, <2>2 DEF Opens, Equipped, Unleased
    <3>3. Made' \subseteq Made \cup {l}
      BY <3>1 DEF Made
    <3>4. QED
      BY <2>1, <3>1, <3>2, <3>3
  <2>3. CASE ~Opens(k)
    <3>1. Made' = Made
      BY <2>3, TouchesMade DEF Stepping, Shapes, Walks, Takes, Keeps, Gives, Strands, Locks, Shifts,
                               Unlocks, Frees, Made
    <3>2. QED
      BY <2>1, <3>1
  <2>4. QED
    BY <2>2, <2>3
<1>3. \A t \in Tasks : bound'[t] \in 0 .. gen
  BY DEF Stepping, Belongings
<1>4. CASE Fades
  <2>1. PICK G \in SUBSET (1 .. gen) :
          /\ stopped' = stopped \cup G /\ (live' => gen \notin G)
          /\ stranded' = IF stranded \in G THEN 0 ELSE stranded
    BY <1>4 DEF Fades
  <2>2. live' => live
    BY <1>1 DEF Lasting
  <2>3. /\ stopped' \subseteq 1 .. gen /\ \A g \in 1 .. gen : g < gen => g \in stopped'
        /\ live' => gen \notin stopped'
    BY <1>1, <2>1, <2>2 DEF Succession
  <2>4. stranded' \in 0 .. gen /\ stranded' \notin stopped'
    BY <1>1, <2>1 DEF Succession
  <2>5. QED
    BY <1>1, <1>2, <1>3, <2>3, <2>4 DEF Succession
<1>5. CASE Strands(k)
  <2>1. call[k].gen \in 1 .. gen
    BY <1>1, <1>5 DEF Strands, Equipped, Unleased
  <2>2. QED
    BY <1>1, <1>2, <1>3, <1>5, <2>1 DEF Strands, Still, Succession
<1>6. CASE UNCHANGED <<stopped, stranded>>
  BY <1>1, <1>2, <1>3, <1>6 DEF Succession, Lasting
<1>7. QED
  BY <1>4, <1>5, <1>6 DEF Stepping, Shapes, Walks, Takes, Keeps, Gives, Opens, Locks, Shifts,
                          Unlocks, Frees, Still

LEMMA ReplacementStep ==
  ASSUME BrowserConstants, ProfileInv, NEW k \in Doers, Stepping(k)
  PROVE  Replacement'
<1>1. Lasting(k) /\ Others(k) /\ Replaces(k) /\ Replacement
  BY StepsLast DEF Stepping, ProfileInv
<1>2. ASSUME NEW z \in Closers \ {k}
      PROVE  /\ Replacing(z)' = Replacing(z) /\ call'[z] = call[z]
             /\ Replacing(z) => transition' = FALSE
  <2>1. call'[z] = call[z]
    BY <1>1 DEF Others, Doers
  <2>2. Replacing(z) => ~transition /\ transition' \in BOOLEAN
    BY <1>1 DEF Replacement, Confirmed, Stepping, Belongings
  <2>3. ASSUME Replacing(z), transition' PROVE FALSE
    BY <1>1, <2>2, <2>3 DEF Replaces, Replacement, Doers
  <2>4. QED
    BY <2>1, <2>2, <2>3 DEF Replacing
<1>3. ASSUME NEW z \in Closers PROVE Confirmed(z)'
  <2>1. CASE z = k
    BY <1>1, <2>1 DEF Replaces, BrowserConstants
  <2>2. CASE z # k
    <3>1. gen' = gen /\ stopped \subseteq stopped' /\ (live' => live)
      BY <1>1 DEF Lasting
    <3>2. call'[z] = call[z] /\ Replacing(z)' = Replacing(z) /\ Confirmed(z)
          /\ (Replacing(z) => ~transition')
      BY <1>1, <1>2, <2>2 DEF Replacement
    <3>3. QED
      BY <3>1, <3>2 DEF Confirmed
  <2>3. QED
    BY <2>1, <2>2
<1>4. ASSUME NEW y \in Closers, NEW z \in Closers, Replacing(y)', Replacing(z)'
      PROVE  y = z
  <2>1. ASSUME NEW x \in Closers \ {k}, Replacing(x)', k \in Closers, Replacing(k)'
        PROVE  FALSE
    <3>1. Replacing(x) /\ ~transition
      BY <1>1, <1>2, <2>1 DEF Replacement, Confirmed
    <3>2. Replacing(k)
      BY <1>1, <2>1, <3>1 DEF Replaces, BrowserConstants
    <3>3. QED
      BY <1>1, <2>1, <3>1, <3>2 DEF Replacement
  <2>2. QED
    BY <1>1, <1>2, <1>4, <2>1 DEF Replacement
<1>5. QED
  BY <1>3, <1>4 DEF Replacement

LEMMA LockedStep ==
  ASSUME ProfileInv, NEW k \in Doers, Stepping(k)
  PROVE  Locked'
<1>1. Lasting(k) /\ Others(k) /\ Locked /\ k \in Doers
  BY StepsLast DEF Stepping, ProfileInv
<1>2. ASSUME NEW j \in Doers \ {k}, call'[j].at \in Locking
      PROVE  /\ call[j].at \in Locking /\ call'[j].lease = call[j].lease
             /\ call[j].lease \in Made
             /\ ~lease'[call[j].lease].free /\ ~lease'[call[j].lease].released
             /\ ~lease[call[j].lease].free
  BY <1>1, <1>2, HeldFacts DEF Others, Lasting
<1>3. ASSUME call'[k].at \in Locking
      PROVE  /\ ~lease'[call'[k].lease].free /\ ~lease'[call'[k].lease].released
             /\ \A j \in Doers \ {k} : call'[j].at \in Locking => call'[j].lease # call'[k].lease
  <2>1. CASE Locks(k)
    BY <1>2, <2>1 DEF Locks
  <2>2. CASE Shifts(k)
    BY <1>1, <1>2, <2>2 DEF Shifts, Locked
  <2>3. QED
    BY <1>3, <2>1, <2>2 DEF Stepping, Shapes, Walks, Takes, Keeps, Gives, Strands, Opens, Unlocks,
                            Frees, Idling, Locking
<1>4. QED
  BY <1>1, <1>2, <1>3 DEF Locked

LEMMA OpenStep ==
  ASSUME BrowserConstants, ProfileInv, NEW k \in Doers, Stepping(k)
  PROVE  /\ Opens(k) => \E l \in Made' \ Made : Open' = Open \cup {l}
         /\ Frees(k) => call[k].lease \in Open /\ Open' = Open \ {call[k].lease}
         /\ ~Opens(k) /\ ~Frees(k) => Open' = Open
<1>1. LeasesTyped /\ (call[k].at \in Locking => ~lease[call[k].lease].released)
  BY InvFacts, HeldFacts
<1>2. CASE Opens(k)
  <2>1. PICK l \in Leases \ Made : /\ \A m \in Leases \ {l} : lease'[m] = lease[m]
                                   /\ lease'[l].task = call[k].task /\ ~lease'[l].released
    BY <1>2 DEF Opens
  <2>2. l \in Made'
    <3>1. call[k].task \in Tasks
      BY <1>2, InvFacts DEF Opens, Equipped, Unleased
    <3>2. QED
      BY <2>1, <3>1 DEF Made, BrowserConstants
  <2>3. ~Frees(k)
    BY <1>2 DEF Opens, Frees
  <2>4. Open' = Open \cup {l}
    BY <2>1, <2>2 DEF Open, Made
  <2>5. QED
    BY <1>2, <2>2, <2>3, <2>4
<1>3. ASSUME NEW l, Touches(l)
      PROVE  Made' = Made /\ l \in Made /\ \A m \in Made \ {l} : lease'[m] = lease[m]
  <2>1. Made' = Made
    BY <1>3, TouchesMade
  <2>2. QED
    BY <1>3, <2>1 DEF Touches, Made
<1>4. CASE Frees(k)
  <2>1. ~Opens(k)
    BY <1>4 DEF Frees, Opens
  <2>2. /\ Touches(call[k].lease) /\ ~lease[call[k].lease].released
        /\ lease'[call[k].lease].released
    BY <1>4 DEF Frees
  <2>3. Made' = Made /\ call[k].lease \in Made
        /\ \A m \in Made \ {call[k].lease} : lease'[m] = lease[m]
    BY <1>3, <2>2
  <2>4. call[k].lease \in Open /\ Open' = Open \ {call[k].lease}
    BY <2>2, <2>3 DEF Open
  <2>5. QED
    BY <1>4, <2>1, <2>4
<1>5. CASE ~Opens(k) /\ ~Frees(k)
  <2>1. ASSUME NEW l, Touches(l), ~lease[l].released, ~lease'[l].released PROVE Open' = Open
    BY <1>3, <2>1 DEF Open
  <2>2. CASE lease' = lease
    BY <1>5, <2>2 DEF Open, Made
  <2>3. QED
    BY <1>1, <1>5, <2>1, <2>2 DEF Stepping, Shapes, Walks, Takes, Keeps, Gives, Strands, Locks,
                                  Shifts, Unlocks
<1>6. QED
  BY <1>2, <1>4, <1>5

\* Who keeps the gate: only the call of the step comes or goes.
LEMMA KeepersStep ==
  ASSUME BrowserConstants, ProfileInv, NEW k \in Doers, Stepping(k)
  PROVE  /\ Takes(k) => Keepers = {} /\ Keepers' = {k}
         /\ Keeps(k) => Keepers' = Keepers
         /\ Gives(k) \/ Strands(k) \/ Opens(k) => Keepers = {k} /\ Keepers' = {}
         /\ Walks(k) \/ Locks(k) \/ Shifts(k) \/ Unlocks(k) \/ Frees(k) => Keepers' = Keepers
<1>1. Others(k) /\ Token
  BY DEF Stepping, ProfileInv
<1>2. \A j \in Calls : j # k => (j \in Keepers' <=> j \in Keepers)
  BY <1>1 DEF Others, Keepers, Doers
<1>3. Keepers \subseteq Calls /\ Keepers' \subseteq Calls
  BY DEF Keepers
<1>4. ASSUME Takes(k) PROVE k \in Keepers' /\ Keepers = {} /\ k \in Calls
  BY <1>1, <1>4 DEF Takes, Token, Keepers, Holding
<1>5. ASSUME Keeps(k) PROVE k \in Keepers' /\ k \in Keepers
  BY <1>5 DEF Keeps, Keepers, Holding
<1>6. ASSUME Gives(k) \/ Strands(k) \/ Opens(k) PROVE k \notin Keepers' /\ k \in Keepers
  BY <1>6 DEF Gives, Strands, Opens, Keepers, Holding
<1>7. ASSUME Walks(k) \/ Locks(k) \/ Shifts(k) \/ Unlocks(k) \/ Frees(k)
      PROVE  k \notin Keepers' /\ k \notin Keepers
  BY <1>7 DEF Walks, Locks, Shifts, Unlocks, Frees, Keepers, Idling, Places, Holding, Locking
<1>8. Keepers = {k} \/ k \notin Keepers
  BY <1>1 DEF Token
<1>9. QED
  BY <1>2, <1>3, <1>4, <1>5, <1>6, <1>7, <1>8

LEMMA TokenStep ==
  ASSUME BrowserConstants, ProfileInv, NEW k \in Doers, Stepping(k)
  PROVE  Token'
<1>1. Token /\ Typed /\ Succession /\ gen \in Nat
  BY DEF ProfileInv, Typed, Gens
<1>2. CASE Takes(k)
  <2>1. Keepers' = {k} /\ Open' = Open /\ gate /\ gate' = FALSE /\ stranded' = stranded
    BY <1>2, KeepersStep, OpenStep DEF Takes, Opens, Frees
  <2>2. QED
    BY <1>1, <2>1 DEF Token
<1>3. CASE Keeps(k) \/ Locks(k) \/ Shifts(k)
  <2>1. Open' = Open
    BY <1>3, OpenStep DEF Keeps, Locks, Shifts, Opens, Frees, Idling, Locking, Places, Holding
  <2>2. Keepers' = Keepers /\ gate' = gate /\ stranded' = stranded
    BY <1>3, KeepersStep DEF Keeps, Locks, Shifts
  <2>3. QED
    BY <1>1, <2>1, <2>2 DEF Token
<1>4. CASE Gives(k)
  <2>1. Keepers = {k} /\ Keepers' = {} /\ Open' = Open /\ gate' = TRUE /\ stranded' = stranded
    BY <1>4, KeepersStep DEF Gives, Open, Made
  <2>2. QED
    BY <1>1, <2>1 DEF Token
<1>5. CASE Strands(k)
  <2>1. Keepers = {k} /\ Keepers' = {} /\ Open' = Open /\ gate' = gate /\ stranded' = call[k].gen
    BY <1>5, KeepersStep, OpenStep DEF Strands, Opens, Frees
  <2>2. call[k].gen \in 1 .. gen
    BY <1>5, InvFacts DEF Strands, Equipped, Unleased
  <2>3. QED
    BY <1>1, <2>1, <2>2 DEF Token
<1>6. CASE Opens(k)
  <2>1. Keepers = {k} /\ Keepers' = {} /\ gate' = gate /\ stranded' = stranded
    BY <1>6, KeepersStep DEF Opens
  <2>2. PICK l \in Made' : Open' = Open \cup {l}
    BY <1>6, OpenStep
  <2>3. QED
    BY <1>1, <2>1, <2>2 DEF Token
<1>7. CASE Frees(k)
  <2>1. Keepers' = Keepers /\ gate' = TRUE /\ stranded' = stranded
    BY <1>7, KeepersStep DEF Frees
  <2>2. call[k].lease \in Open /\ Open' = Open \ {call[k].lease}
    BY <1>7, OpenStep
  <2>3. QED
    BY <1>1, <2>1, <2>2 DEF Token
<1>8. ASSUME Keepers' = Keepers, Open' = Open, Fades PROVE Token'
  <2>1. PICK G \in SUBSET (1 .. gen) :
          /\ stranded' = IF stranded \in G THEN 0 ELSE stranded
          /\ gate' = (gate \/ stranded \in G)
    BY <1>8 DEF Fades
  <2>2. CASE stranded \in G
    <3>1. stranded # 0
      BY <1>1, <2>2
    <3>2. Keepers = {} /\ Open = {}
      BY <1>1, <3>1 DEF Token
    <3>3. stranded' = 0 /\ gate' = TRUE
      BY <2>1, <2>2
    <3>4. QED
      BY <1>8, <3>2, <3>3 DEF Token
  <2>3. CASE stranded \notin G
    <3>1. stranded' = stranded /\ (gate' <=> gate)
      BY <1>1, <2>1, <2>3 DEF Typed
    <3>2. QED
      BY <1>1, <1>8, <3>1 DEF Token
  <2>4. QED
    BY <2>2, <2>3
<1>9. CASE Walks(k) \/ Unlocks(k)
  <2>1. Keepers' = Keepers
    BY <1>9, KeepersStep
  <2>2. Open' = Open
    <3>1. ~Opens(k) /\ ~Frees(k)
      <4>1. ASSUME Unlocks(k) PROVE ~Frees(k)
        BY <4>1 DEF Unlocks, Frees
      <4>2. ASSUME Walks(k) PROVE ~Frees(k)
        BY <4>2 DEF Walks, Frees, Touches, Idling, Made
      <4>3. ~Opens(k)
        BY <1>9 DEF Walks, Unlocks, Opens, Idling, Places, Holding, Locking
      <4>4. QED
        BY <1>9, <4>1, <4>2, <4>3
    <3>2. QED
      BY <3>1, OpenStep
  <2>3. CASE Fades
    BY <1>8, <2>1, <2>2, <2>3
  <2>4. CASE UNCHANGED <<gate, stranded>>
    BY <1>1, <2>1, <2>2, <2>4 DEF Token
  <2>5. QED
    BY <1>9, <2>3, <2>4 DEF Walks, Unlocks
<1>10. QED
  BY <1>2, <1>3, <1>4, <1>5, <1>6, <1>7, <1>9 DEF Stepping, Shapes

LEMMA QuietStep ==
  ASSUME BrowserConstants, ProfileInv, NEW k \in Doers, Stepping(k)
  PROVE  Quiet'
<1>1. /\ Lasting(k) /\ Others(k) /\ Replaces(k) /\ Quiet /\ Token /\ Succession /\ Replacement
      /\ gen' = gen
  BY StepsLast DEF Stepping, ProfileInv, Lasting
<1>2. ASSUME NEW j \in Calls, call[j].at \in Busy
      PROVE  /\ j \in Doers /\ call[j].lease \in {0} \cup Made /\ 0 \notin Made
             /\ call[j].at \in Locking \/ j \in Keepers
             /\ call[j].at \in Locking => call[j].lease \in Open
             /\ ~gate
  <2>1. j \in Doers /\ call[j].lease \in {0} \cup Made /\ 0 \notin Made
    BY InvFacts DEF Equipped, Doers, Made, Leases
  <2>2. call[j].at \in Locking \/ j \in Keepers
    BY <1>2 DEF Busy, Keepers, Holding
  <2>3. call[j].at \in Locking => call[j].lease \in Open
    BY <2>1, HeldFacts DEF Open
  <2>4. QED
    BY <1>1, <2>1, <2>2, <2>3 DEF Token
<1>3. ASSUME NEW j \in Calls \ {k}, call'[j].at \in Busy
      PROVE  Session(j)' = gen' /\ \A z \in Closers : call'[z].at # "connecting"
  <2>1. call'[j] = call[j] /\ call[j].at \in Busy
    BY <1>1, <1>3 DEF Others, Doers
  <2>2. Session(j) = gen /\ \A z \in Closers : call[z].at # "connecting"
    BY <1>1, <2>1 DEF Quiet
  <2>3. Session(j)' = Session(j)
    BY <1>1, <1>2, <2>1 DEF Lasting, Session, MyLease
  <2>4. ASSUME NEW z \in Closers, call'[z].at = "connecting" PROVE FALSE
    <3>1. z = k
      BY <1>1, <2>2, <2>4 DEF Others, Doers
    <3>2. gate
      BY <1>1, <2>4, <3>1 DEF Replaces, BrowserConstants
    <3>3. QED
      BY <1>2, <2>1, <3>2
  <2>5. QED
    BY <1>1, <2>2, <2>3, <2>4
<1>4. ASSUME k \in Calls, call'[k].at \in Busy
      PROVE  Session(k)' = gen' /\ \A z \in Closers : call'[z].at # "connecting"
  <2>1. \A z \in Closers : call'[z] = call[z]
    BY <1>1, <1>4 DEF Others, Doers, BrowserConstants
  <2>2. ASSUME gen \notin stopped PROVE \A z \in Closers : call'[z].at # "connecting"
    BY <1>1, <2>1, <2>2 DEF Replacement, Confirmed, Replacing
  <2>3. ASSUME Current(gen) PROVE gen \notin stopped
    BY <1>1, <2>3 DEF Current, Succession
  <2>4. CASE Keeps(k)
    <3>1. call[k].at = "gated" /\ Current(call[k].gen) /\ call'[k].gen = call[k].gen
      BY <1>4, <2>4 DEF Keeps, Busy, Locking
    <3>2. call'[k].lease = 0
      BY <1>1, <1>4, <2>4 DEF Keeps, Others, Equipped, Busy, Locking, Unleased
    <3>3. QED
      BY <1>1, <2>2, <2>3, <3>1, <3>2 DEF Session, Current
  <2>5. ASSUME NEW l \in Made, call'[k].lease = l, lease[l].gen = gen, gen \notin stopped
        PROVE  Session(k)' = gen' /\ \A z \in Closers : call'[z].at # "connecting"
    <3>1. l # 0 /\ lease'[l].gen = lease[l].gen
      BY <1>1 DEF Lasting, Made, Leases
    <3>2. QED
      BY <1>1, <2>2, <2>5, <3>1 DEF Session, MyLease
  <2>6. CASE Locks(k)
    <3>1. call'[k].lease \in Made
      BY <2>6 DEF Locks, Touches
    <3>2. lease[call'[k].lease].gen = gen /\ gen \notin stopped
      <4>1. CASE call'[k].at = "settling"
        <5>1. lease[call'[k].lease].gen \notin stopped
          BY <2>6, <4>1 DEF Locks
        <5>2. lease[call'[k].lease].gen \in 1 .. gen /\ gen \in Nat
          BY <1>1, <3>1 DEF Succession, ProfileInv, Typed, Gens
        <5>3. QED
          BY <1>1, <5>1, <5>2 DEF Succession
      <4>2. CASE call'[k].at \in {"cancelling", "closing"}
        BY <2>3, <2>6, <4>2 DEF Locks, Current
      <4>3. QED
        BY <1>4, <2>6, <4>1, <4>2 DEF Locks, Busy
    <3>3. QED
      BY <2>5, <3>1, <3>2
  <2>7. CASE Shifts(k)
    <3>1. call'[k].lease = call[k].lease /\ call[k].lease \in Made
      BY <2>7, HeldFacts DEF Shifts
    <3>2. Current(lease[call[k].lease].gen)
      BY <2>7 DEF Shifts
    <3>3. QED
      BY <2>3, <2>5, <3>1, <3>2 DEF Current
  <2>8. QED
    BY <1>4, <2>4, <2>6, <2>7 DEF Stepping, Shapes, Walks, Takes, Gives, Strands, Opens, Unlocks,
                                  Frees, Busy, Idling, Places, Holding, Locking
<1>5. QED
  BY <1>3, <1>4 DEF Quiet

LEMMA RememberedStep ==
  ASSUME BrowserConstants, ProfileInv, NEW k \in Doers, Stepping(k)
  PROVE  Remembered'
<1>1. /\ Lasting(k) /\ Token /\ Succession /\ Remembered /\ gen' = gen
      /\ Open \subseteq Made /\ Made \subseteq Leases
  BY StepsLast DEF Lasting, ProfileInv, Open, Made
<1>2. ASSUME gate \/ Keepers # {}
      PROVE  loose = {}
  <2>1. ASSUME NEW g \in loose PROVE FALSE
    <3>1. stranded = 0 /\ Open = {}
      BY <1>1, <1>2 DEF Token
    <3>2. g \in 1 .. gen /\ (stranded = g \/ Open # {})
      BY <1>1 DEF Remembered
    <3>3. QED
      BY <3>1, <3>2
  <2>2. QED
    BY <2>1
<1>3. ASSUME NEW g \in loose, g \in loose', g \notin stopped',
             \/ stranded = g /\ stranded' = g
             \/ stranded # g
                /\ \A l \in Open : lease[l].uncertain /\ lease[l].gen = g =>
                     l \in Open' /\ lease'[l].uncertain /\ lease'[l].gen = g
      PROVE  /\ g \in 1 .. gen' /\ g \notin stopped'
             /\ stranded' = g \/ \E l \in Open' : lease'[l].uncertain /\ lease'[l].gen = g
  BY <1>1, <1>3 DEF Remembered
<1>4. ASSUME Fades, NEW g \in loose'
      PROVE  g \in loose /\ g \notin stopped' /\ (stranded = g => stranded' = g)
  <2>1. PICK G \in SUBSET (1 .. gen) :
          /\ stopped' = stopped \cup G /\ stranded' = (IF stranded \in G THEN 0 ELSE stranded)
          /\ \A h \in loose' : h \in loose /\ h \notin G
    BY <1>4 DEF Fades
  <2>2. g \in loose /\ g \notin G /\ g \notin stopped
    BY <1>1, <1>4, <2>1 DEF Remembered
  <2>3. QED
    BY <2>1, <2>2
<1>5. ASSUME lease' = lease, \A g \in loose' : g \in loose /\ g \notin stopped' /\ (stranded = g => stranded' = g)
      PROVE  Remembered'
  <2>1. Open' = Open
    BY <1>5 DEF Open, Made
  <2>2. QED
    BY <1>3, <1>5, <2>1 DEF Remembered
<1>6. ASSUME NEW l, Touches(l), ~lease'[l].released, l \in Open,
             \A g \in loose' :
               \/ g \in loose /\ g \notin stopped' /\ (stranded = g => stranded' = g)
                  /\ (lease[l].gen = g => lease'[l].uncertain = lease[l].uncertain \/ lease'[l].uncertain)
               \/ g = lease[l].gen /\ g \notin stopped' /\ lease'[l].uncertain
      PROVE  Remembered'
  <2>1. Made' = Made /\ Open' = Open /\ lease'[l].gen = lease[l].gen
        /\ \A m \in Made \ {l} : lease'[m] = lease[m]
    <3>1. Made' = Made
      BY <1>6, TouchesMade
    <3>2. QED
      BY <1>6, <3>1 DEF Open, Touches, Made
  <2>2. ASSUME NEW g \in loose'
        PROVE  /\ g \in 1 .. gen' /\ g \notin stopped'
               /\ stranded' = g \/ \E m \in Open' : lease'[m].uncertain /\ lease'[m].gen = g
    <3>1. CASE g = lease[l].gen /\ g \notin stopped' /\ lease'[l].uncertain
      BY <1>1, <1>6, <2>1, <3>1 DEF Succession
    <3>2. CASE g \in loose /\ g \notin stopped' /\ (stranded = g => stranded' = g)
               /\ (lease[l].gen = g => lease'[l].uncertain = lease[l].uncertain \/ lease'[l].uncertain)
      BY <1>1, <1>3, <2>1, <3>2
    <3>3. QED
      BY <1>6, <3>1, <3>2
  <2>3. QED
    BY <2>2 DEF Remembered
<1>7. \A g \in loose : g \notin stopped
  BY <1>1 DEF Remembered
<1>8. CASE Walks(k)
  BY <1>4, <1>5, <1>8 DEF Walks
<1>9. CASE Takes(k) \/ Keeps(k) \/ Gives(k) \/ Shifts(k)
  BY <1>5, <1>7, <1>9 DEF Takes, Keeps, Gives, Shifts, Still
<1>10. CASE Strands(k)
  <2>1. loose = {}
    BY <1>2, <1>10, KeepersStep
  <2>2. call[k].gen \in 1 .. gen
    BY <1>10, InvFacts DEF Strands, Equipped, Unleased
  <2>3. QED
    BY <1>1, <1>10, <2>1, <2>2 DEF Strands, Remembered, Still
<1>11. CASE Opens(k)
  <2>1. loose' = {}
    BY <1>2, <1>11, KeepersStep DEF Opens
  <2>2. QED
    BY <2>1 DEF Remembered
<1>12. CASE Locks(k)
  <2>1. Touches(call'[k].lease) /\ call'[k].lease \in Open
    BY <1>12 DEF Locks, Touches, Open
  <2>2. QED
    BY <1>6, <1>7, <1>12, <2>1 DEF Locks, Still
<1>13. CASE Unlocks(k)
  <2> DEFINE l == call[k].lease
  <2>1. Touches(l) /\ l \in Open /\ ~lease'[l].released
    BY <1>13, HeldFacts DEF Unlocks, Open
  <2>2. CASE Fades /\ lease'[l].uncertain = lease[l].uncertain
    BY <1>4, <1>6, <2>1, <2>2
  <2>3. CASE UNCHANGED <<gen, live, stopped, gate, stranded>>
             /\ loose' = loose /\ lease'[l].uncertain = lease[l].uncertain
    BY <1>6, <1>7, <2>1, <2>3
  <2>4. CASE UNCHANGED <<gen, live, stopped, gate, stranded>>
             /\ loose' = loose \cup ({lease[l].gen} \ stopped) /\ lease'[l].uncertain
    BY <1>6, <1>7, <2>1, <2>4
  <2>5. CASE UNCHANGED <<gen, live, stopped, gate, stranded>> /\ loose' = loose \ {lease[l].gen}
    BY <1>6, <1>7, <2>1, <2>5
  <2>6. QED
    BY <1>13, <2>2, <2>3, <2>4, <2>5 DEF Unlocks
<1>14. CASE Frees(k)
  <2> DEFINE l == call[k].lease
  <2>1. l \in Open /\ stranded = 0 /\ \A m \in Open : m = l
    BY <1>1, <1>14, OpenStep DEF Token
  <2>2. \A g \in loose : g = lease[l].gen /\ lease[l].uncertain /\ g \notin stopped
    BY <1>1, <2>1 DEF Remembered
  <2>3. loose' = {}
    BY <1>14, <2>2 DEF Frees
  <2>4. QED
    BY <2>3 DEF Remembered
<1>15. QED
  BY <1>8, <1>9, <1>10, <1>11, <1>12, <1>13, <1>14 DEF Stepping, Shapes

LEMMA CertainStep ==
  ASSUME ProfileInv, NEW k \in Doers, Stepping(k)
  PROVE  Certain'
<1>1. Lasting(k) /\ Others(k) /\ Certain
  BY StepsLast DEF Stepping, ProfileInv
<1>2. ASSUME NEW j \in Calls \ {k}, call'[j].at \in {"acting", "uploading", "cancelling", "closing"}
      PROVE  ~lease'[call'[j].lease].uncertain
  <2>1. j \in Doers /\ call'[j] = call[j] /\ call[j].at \in Locking
    BY <1>1, <1>2 DEF Others, Doers, Locking
  <2>2. lease'[call[j].lease] = lease[call[j].lease]
    BY <1>1, <2>1 DEF Lasting
  <2>3. QED
    BY <1>1, <1>2, <2>1, <2>2 DEF Certain
<1>3. ASSUME k \in Calls, call'[k].at \in {"acting", "uploading", "cancelling", "closing"}
      PROVE  ~lease'[call'[k].lease].uncertain
  <2>1. CASE Locks(k)
    BY <1>3, <2>1 DEF Locks
  <2>2. CASE Shifts(k)
    BY <1>1, <1>3, <2>2 DEF Shifts, Certain
  <2>3. QED
    BY <1>3, <2>1, <2>2 DEF Stepping, Shapes, Walks, Takes, Keeps, Gives, Strands, Opens, Unlocks,
                            Frees, Idling, Places, Holding, Locking
<1>4. QED
  BY <1>2, <1>3 DEF Certain

\* Only a Publish gives a lease away.
LEMMA GivenStep ==
  ASSUME ProfileInv, NEW k \in Doers, Stepping(k), NEW m \in Made', Given(m)'
  PROVE  \/ m \in Made /\ Given(m)
         \/ call[k].at = "publishing" /\ Opens(k) /\ lease'[m].task = call[k].task
<1>1. Lasting(k) /\ LeasesTyped /\ Made \subseteq Leases
  BY StepsLast, InvFacts DEF Made
<1>2. CASE m \in Made
  <2>1. ~lease'[m].released /\ ~lease[m].inner
    BY <1>1, <1>2 DEF Given, Lasting
  <2>2. CASE lease'[m] = lease[m]
    BY <1>2, <2>1, <2>2 DEF Given
  <2>3. CASE lease'[m] # lease[m]
    <3>1. ~lease[m].released
      BY <1>1, <1>2, <2>1, <2>3 DEF Stepping, Shapes, Walks, Takes, Keeps, Gives, Strands, Opens,
                            Locks, Shifts, Unlocks, Frees, Touches, Locked, ProfileInv
    <3>2. QED
      BY <1>2, <2>1, <3>1 DEF Given
  <2>4. QED
    BY <2>2, <2>3
<1>3. CASE m \notin Made
  <2>1. m \in Leases /\ lease'[m].task # NoTask /\ ~lease'[m].inner
    BY DEF Made, Given
  <2>2. lease'[m] # lease[m]
    BY <1>3, <2>1 DEF Made
  <2>3. Opens(k)
    <3>1. ASSUME NEW l, Touches(l) PROVE FALSE
      BY <1>3, <3>1, TouchesMade
    <3>2. QED
      BY <2>2, <3>1 DEF Stepping, Shapes, Walks, Takes, Keeps, Gives, Strands, Locks, Shifts,
                        Unlocks, Frees
  <2>4. PICK l \in Leases \ Made : /\ \A n \in Leases \ {l} : lease'[n] = lease[n]
                                   /\ lease'[l].task = call[k].task
                                   /\ lease'[l].inner = (call[k].at = "entering")
    BY <2>3 DEF Opens
  <2>5. m = l
    BY <2>1, <2>2, <2>4
  <2>6. QED
    BY <2>1, <2>3, <2>4, <2>5 DEF Opens
<1>4. QED
  BY <1>2, <1>3

LEMMA ChosenStep ==
  ASSUME BrowserConstants, ProfileInv, NEW k \in Doers, Stepping(k)
  PROVE  Chosen'
<1>1. Lasting(k) /\ Others(k) /\ Chosen /\ Token /\ k \in Doers /\ Calls \subseteq Doers
  BY StepsLast DEF Stepping, ProfileInv, Doers
<1> DEFINE Acts == call[k].at \in {"acting", "uploading"} /\ Unlocks(k) /\ chooser' = call[k].task
<1>2. chooser' \in {chooser, NoTask} \/ Acts
  <2>1. CASE Fades
    BY <2>1 DEF Fades
  <2>2. CASE ~Fades
    BY <2>2 DEF Stepping, Shapes, Walks, Takes, Keeps, Gives, Strands, Opens, Locks, Shifts,
                Unlocks, Frees, Still
  <2>3. QED
    BY <2>1, <2>2
<1>3. ASSUME Acts
      PROVE  /\ call[k].lease \in Open /\ Keepers = {} /\ Open = {call[k].lease}
             /\ call[k].task = lease[call[k].lease].task
  <2>1. call[k].at \in Locking
    BY <1>3 DEF Locking
  <2>2. call[k].lease \in Open /\ Equipped(k)
    BY <2>1, HeldFacts DEF Open
  <2>3. QED
    BY <1>1, <1>3, <2>2 DEF Token, Equipped, Locking
<1>4. ASSUME NEW m \in Made', Given(m)', chooser' # NoTask
      PROVE  Owner[lease'[m].task] = Owner[chooser']
  <2>1. CASE m \in Made /\ Given(m)
    <3>1. lease'[m].task = lease[m].task /\ m \in Open
      BY <1>1, <2>1 DEF Lasting, Given, Open
    <3>2. CASE chooser' = chooser
      BY <1>1, <1>4, <2>1, <3>1, <3>2 DEF Chosen
    <3>3. CASE Acts
      BY <1>3, <3>1, <3>3
    <3>4. QED
      BY <1>2, <1>4, <3>2, <3>3
  <2>2. CASE call[k].at = "publishing" /\ Opens(k) /\ lease'[m].task = call[k].task
    <3>1. chooser' = chooser /\ k \in Calls
      BY <2>2 DEF Opens, Still
    <3>2. QED
      BY <1>1, <1>4, <2>2, <3>1 DEF Chosen
  <2>3. QED
    BY <1>4, <2>1, <2>2, GivenStep
<1>5. ASSUME NEW j \in Calls \ {k}
      PROVE  /\ call'[j].at \in {"cancelling", "closing"} => chooser' \in {NoTask, call'[j].task}
             /\ call'[j].at \in {"inspecting", "binding"} => chooser' = NoTask
             /\ call'[j].at = "publishing" => chooser' = NoTask \/ Owner[chooser'] = Owner[call'[j].task]
  <2>1. call'[j] = call[j]
    BY <1>1 DEF Others
  <2>2. CASE chooser' \in {chooser, NoTask}
    BY <1>1, <2>1, <2>2 DEF Chosen
  <2>3. CASE Acts
    <3>1. j \notin Keepers
      BY <1>3, <2>3
    <3>2. call[j].at \notin Locking
      <4>1. ASSUME call[j].at \in Locking PROVE FALSE
        <5>1. call[j].lease \in Open /\ call[k].at \in Locking
          BY <1>1, <2>3, <4>1, HeldFacts DEF Open, Locking
        <5>2. call[j].lease = call[k].lease
          BY <1>3, <2>3, <5>1
        <5>3. QED
          BY <1>1, <4>1, <5>1, <5>2 DEF ProfileInv, Locked
      <4>2. QED
        BY <4>1
    <3>3. QED
      BY <2>1, <3>1, <3>2 DEF Keepers, Holding, Locking
  <2>4. QED
    BY <1>2, <2>2, <2>3
<1>6. ASSUME k \in Calls
      PROVE  /\ call'[k].at \in {"cancelling", "closing"} => chooser' \in {NoTask, call'[k].task}
             /\ call'[k].at \in {"inspecting", "binding"} => chooser' = NoTask
             /\ call'[k].at = "publishing" => chooser' = NoTask \/ Owner[chooser'] = Owner[call'[k].task]
  <2>1. CASE Keeps(k)
    BY <1>1, <1>6, <2>1 DEF Keeps, Still, Chosen, Pending
  <2>2. CASE Locks(k)
    BY <2>2 DEF Locks, Still
  <2>3. CASE Shifts(k)
    BY <2>3 DEF Shifts
  <2>4. QED
    BY <2>1, <2>2, <2>3 DEF Stepping, Shapes, Walks, Takes, Gives, Strands, Opens, Unlocks, Frees,
                            Idling, Places, Holding, Locking
<1>7. QED
  BY <1>4, <1>5, <1>6 DEF Chosen

LEMMA SteppingInv ==
  ASSUME BrowserConstants, ProfileInv, NEW k \in Doers, Stepping(k)
  PROVE  ProfileInv'
BY TypedStep, EquippedStep, SuccessionStep, ReplacementStep, LockedStep, TokenStep, QuietStep,
   RememberedStep, CertainStep, ChosenStep DEF ProfileInv

-----------------------------------------------------------------------------
\* The session ends by itself, or a replacement connects.

LEMMA ConfirmInv ==
  ASSUME BrowserConstants, ProfileInv, ConfirmSessionStopped
  PROVE  ProfileInv'
<1>1. /\ UNCHANGED <<gen, transition, active, unknown, bound, owned, lease, call>>
      /\ Confirm(gen) /\ Typed /\ Succession /\ Token /\ Remembered /\ Replacement
      /\ gen \in Nat /\ gen \in 1 .. gen /\ Made' = Made
  BY DEF ConfirmSessionStopped, ProfileInv, Typed, Gens, tasks, Made
<1>2. Fades
  BY <1>1, ConfirmFades
<1>3. gen' = gen /\ stopped \subseteq stopped' /\ (live' => live) /\ live' \in BOOLEAN
      /\ gate' \in BOOLEAN
  BY <1>1, <1>2, FadesFacts
<1>4. /\ stopped' = stopped \cup {gen} /\ loose' = loose \ {gen} /\ chooser' = NoTask
      /\ stranded' = IF stranded = gen THEN 0 ELSE stranded
      /\ gate' = (gate \/ stranded = gen) /\ ~live'
  BY <1>1 DEF Confirm
<1>5. Typed'
  <2>1. active' \in {0} \cup Made' /\ gen' \in Gens /\ stopped' \subseteq Gens
        /\ loose' \subseteq Gens /\ stranded' \in 0 .. MaxGen /\ chooser' \in Tasks \cup {NoTask}
    BY <1>1, <1>4 DEF Typed, BrowserConstants
  <2>2. QED
    BY <1>1, <1>3, <2>1 DEF Typed
<1>6. \A k \in Doers : Equipped(k)' /\ Apart(k)'
  BY <1>1 DEF ProfileInv, Equipped, Apart
<1>7. Succession'
  <2>1. stopped' \subseteq 1 .. gen /\ \A g \in 1 .. gen : g < gen => g \in stopped'
    BY <1>1, <1>4 DEF Succession
  <2>2. stranded' \in 0 .. gen /\ stranded' \notin stopped'
    BY <1>1, <1>4 DEF Succession
  <2>3. (\A t \in Tasks : bound[t] \in 0 .. gen) /\ \A l \in Made : lease[l].gen \in 1 .. gen
    BY <1>1 DEF Succession
  <2>4. QED
    BY <1>1, <1>4, <2>1, <2>2, <2>3 DEF Succession
<1>8. Replacement'
  <2>1. \A z \in Closers : Replacing(z)' = Replacing(z)
    BY <1>1 DEF Replacing
  <2>2. \A z \in Closers : Confirmed(z)'
    BY <1>1, <1>3, <2>1 DEF Confirmed, Replacement
  <2>3. QED
    BY <1>1, <2>1, <2>2 DEF Replacement
<1>9. Locked' /\ Quiet' /\ Certain'
  BY <1>1 DEF ProfileInv, Locked, Quiet, Session, MyLease, Certain
<1>10. Keepers' = Keepers /\ Open' = Open
  BY <1>1 DEF Keepers, Open
<1>11. Token'
  <2>1. CASE stranded = gen
    <3>1. Keepers = {} /\ Open = {}
      BY <1>1, <2>1 DEF Token
    <3>2. QED
      BY <1>4, <1>10, <2>1, <3>1 DEF Token
  <2>2. CASE stranded # gen
    BY <1>1, <1>4, <1>10, <2>2 DEF Token, Typed
  <2>3. QED
    BY <2>1, <2>2
<1>12. Remembered'
  BY <1>1, <1>4, <1>10 DEF Remembered
<1>13. Chosen'
  BY <1>1, <1>4 DEF ProfileInv, Chosen
<1>14. QED
  BY <1>5, <1>6, <1>7, <1>8, <1>9, <1>11, <1>12, <1>13 DEF ProfileInv

LEMMA FinishedInv ==
  ASSUME BrowserConstants, ProfileInv, NEW z \in Closers, Finished(z)
  PROVE  ProfileInv'
<1>1. /\ UNCHANGED <<stopped, stranded, gate, active, unknown, bound, owned, lease, loose>>
      /\ transition' = TRUE /\ call[z].at = "connecting" /\ Returns(z)
      /\ Typed /\ Succession /\ Token /\ Remembered /\ Replacement /\ CallsTyped
      /\ gen \in Nat /\ gen \in 1 .. gen /\ Made' = Made /\ z \in Doers /\ z \notin Calls
  BY InvFacts DEF Finished, ProfileInv, Typed, Gens, tasks, Made, Doers, BrowserConstants
<1>2. Alone(z) /\ call'[z] = Rest /\ call'[z].at = "idle" /\ Equipped(z)' /\ Apart(z)'
  <2>1. Alone(z) /\ call'[z] = Rest
    BY <1>1, ReturnsFacts
  <2>2. QED
    BY <1>1, <2>1, RestFacts
<1>3. gen \in stopped /\ gen < MaxGen /\ ~live /\ Replacing(z)
  BY <1>1 DEF Replacement, Confirmed, Replacing
<1>4. \/ gen' = gen + 1 /\ live' = TRUE /\ chooser' = NoTask
      \/ gen' = gen /\ live' = live /\ chooser' = chooser
  BY DEF Finished
<1>5. /\ gen' \in Gens /\ gen' >= gen /\ gen' \in Nat /\ (live' => gen' = gen + 1)
      /\ 1 .. gen \subseteq 1 .. gen' /\ 0 .. gen \subseteq 0 .. gen'
  BY <1>1, <1>3, <1>4 DEF Gens, BrowserConstants
<1>6. Typed'
  <2>1. live' \in BOOLEAN /\ chooser' \in Tasks \cup {NoTask}
    BY <1>1, <1>4 DEF Typed
  <2>2. call' \in [Doers -> CallRecords]
    BY <1>2 DEF Alone, CallsTyped
  <2>3. QED
    BY <1>1, <1>5, <2>1, <2>2 DEF Typed
<1>7. \A k \in Doers : Equipped(k)' /\ Apart(k)'
  <2>1. ASSUME NEW k \in Doers \ {z} PROVE Equipped(k)' /\ Apart(k)'
    <3>1. call'[k] = call[k] /\ Equipped(k) /\ Apart(k)
      BY <1>2, InvFacts DEF Alone
    <3>2. QED
      BY <1>1, <1>5, <3>1 DEF Equipped, Apart
  <2>2. QED
    BY <1>2, <2>1
<1>8. Succession'
  <2>1. stopped' \subseteq 1 .. gen'
    BY <1>1, <1>5 DEF Succession
  <2>2. \A g \in 1 .. gen' : g < gen' => g \in stopped'
    BY <1>1, <1>3, <1>4 DEF Succession
  <2>3. live' => gen' \notin stopped'
    BY <1>1, <1>5 DEF Succession
  <2>4. /\ stranded' \in 0 .. gen' /\ stranded' \notin stopped'
        /\ \A t \in Tasks : bound'[t] \in 0 .. gen'
        /\ \A l \in Made' : lease'[l].gen \in 1 .. gen'
    BY <1>1, <1>5 DEF Succession
  <2>5. QED
    BY <2>1, <2>2, <2>3, <2>4 DEF Succession
<1>9. Replacement'
  <2>1. ASSUME NEW y \in Closers \ {z}
        PROVE  call'[y] = call[y] /\ ~Replacing(y) /\ Confirmed(y)
    BY <1>1, <1>2, <1>3 DEF Replacement, Alone, Doers
  <2>2. \A y \in Closers : ~Replacing(y)'
    BY <1>2, <2>1 DEF Replacing
  <2>3. ASSUME NEW y \in Closers PROVE Confirmed(y)'
    <3>1. CASE y = z
      BY <1>2, <2>2, <3>1 DEF Confirmed
    <3>2. CASE y # z
      BY <1>1, <1>5, <2>1, <2>2, <3>2 DEF Confirmed
    <3>3. QED
      BY <3>1, <3>2
  <2>4. QED
    BY <2>2, <2>3 DEF Replacement
<1>10. \A k \in Calls : k \in Doers /\ call'[k] = call[k]
  BY <1>1, <1>2 DEF Alone, Doers
<1>11. Locked'
  <2>1. \A k \in Doers : call'[k].at \in Locking => call'[k] = call[k]
    BY <1>2 DEF Alone, Locking
  <2>2. QED
    BY <1>1, <2>1 DEF ProfileInv, Locked
<1>12. Token'
  <2>1. Keepers' = Keepers /\ Open' = Open
    BY <1>1, <1>10 DEF Keepers, Open
  <2>2. QED
    BY <1>1, <2>1 DEF Token
<1>13. Quiet'
  <2>1. \A k \in Calls : call[k].at \notin Busy
    BY <1>1 DEF ProfileInv, Quiet
  <2>2. QED
    BY <1>10, <2>1 DEF Quiet
<1>14. Remembered'
  <2>1. Open' = Open
    BY <1>1 DEF Open
  <2>2. QED
    BY <1>1, <1>5, <2>1 DEF Remembered
<1>15. Certain'
  BY <1>1, <1>10 DEF ProfileInv, Certain
<1>16. Chosen'
  <2>1. \A l \in Made : Given(l)' = Given(l)
    BY <1>1 DEF Given
  <2>2. chooser' \in {NoTask, chooser}
    BY <1>4
  <2>3. QED
    BY <1>1, <1>10, <2>1, <2>2 DEF ProfileInv, Chosen
<1>17. QED
  BY <1>6, <1>7, <1>8, <1>9, <1>11, <1>12, <1>13, <1>14, <1>15, <1>16 DEF ProfileInv

-----------------------------------------------------------------------------
\* The theorems.

LEMMA InitInv == ASSUME BrowserConstants, Init PROVE ProfileInv
<1>1. /\ gen = 1 /\ live = TRUE /\ gate = TRUE /\ transition = TRUE /\ stopped = {}
      /\ stranded = 0 /\ active = 0 /\ chooser = NoTask /\ unknown = {} /\ loose = {}
      /\ bound = [t \in Tasks |-> 0] /\ owned = [t \in Tasks |-> 0]
  BY DEF Init
<1>2. 1 \in 1 .. MaxGen /\ 0 \in 0 .. MaxGen /\ MaxGen \in Nat
  BY DEF BrowserConstants
<1>3. \A k \in Doers : call[k] = Rest /\ call[k].at = "idle" /\ call[k].lease = 0
                       /\ call[k].kind = "none"
  BY DEF Init, Rest, Doers
<1>4. call \in [Doers -> CallRecords]
  BY RestTyped DEF Init, Doers
<1>5. NoLease \in LeaseRecords
  BY <1>2 DEF NoLease, LeaseRecords
<1>6. lease \in [Leases -> LeaseRecords] /\ Made = {} /\ Open = {}
  BY <1>5 DEF Init, Made, Open, NoLease
<1>7. Typed
  BY <1>1, <1>2, <1>4, <1>6 DEF Typed, Gens
<1>8. \A k \in Doers : Equipped(k) /\ Apart(k)
  BY <1>3 DEF Equipped, Apart, Locking, Unleased, Closing
<1>9. Succession
  BY <1>1, <1>2, <1>6 DEF Succession
<1>10. Calls \subseteq Doers /\ Closers \subseteq Doers
  BY DEF Doers
<1>11. Replacement
  BY <1>3, <1>10 DEF Replacement, Confirmed, Replacing
<1>12. Locked /\ Quiet /\ Certain
  BY <1>3, <1>10 DEF Locked, Quiet, Certain, Locking, Busy
<1>13. Keepers = {}
  BY <1>3, <1>10 DEF Keepers, Holding
<1>14. Token /\ Remembered
  BY <1>1, <1>6, <1>13 DEF Token, Remembered
<1>15. Chosen
  BY <1>1, <1>3, <1>10 DEF Chosen
<1>16. QED
  BY <1>7, <1>8, <1>9, <1>11, <1>12, <1>14, <1>15 DEF ProfileInv

LEMMA StutterInv ==
  ASSUME ProfileInv, UNCHANGED browser_vars
  PROVE  ProfileInv'
BY DEF ProfileInv, browser_vars, Typed, Equipped, Apart, Succession, Replacement, Confirmed,
       Replacing, Locked, Token, Keepers, Open, Quiet, Session, MyLease, Remembered, Certain,
       Chosen, Given, Made

\* ProfileInv is inductive.
THEOREM ProfileIsSound == BrowserConstants => (Spec => []ProfileInv)
<1> SUFFICES ASSUME BrowserConstants PROVE Spec => []ProfileInv
  OBVIOUS
<1>1. Init => ProfileInv
  BY InitInv
<1>2. ProfileInv /\ [Next]_browser_vars => ProfileInv'
  BY StepKinds, SteppingInv, ConfirmInv, FinishedInv, StutterInv
<1>3. QED
  BY <1>1, <1>2, PTL DEF Spec

\* A token of the gate is in the channel, or with exactly one of a call, a lease that was
\* given out and a stranded Bind (coordinator.go, state.gate).
THEOREM GateHasOnePlace == BrowserConstants => (Spec => []GateIsConserved)
<1>1. ASSUME ProfileInv PROVE GateIsConserved
  <2>1. Token
    BY <1>1 DEF ProfileInv
  <2>2. Keepers = {} \/ \E k \in Keepers : Keepers = {k}
    BY <2>1 DEF Token
  <2>3. Open = {} \/ \E l \in Open : Open = {l}
    BY <2>1 DEF Token
  <2>4. (Keepers = {} => Cardinality(Keepers) = 0) /\ (Keepers # {} => Cardinality(Keepers) = 1)
    BY <2>2, FS_EmptySet, FS_Singleton
  <2>5. (Open = {} => Cardinality(Open) = 0) /\ (Open # {} => Cardinality(Open) = 1)
    BY <2>3, FS_EmptySet, FS_Singleton
  <2>6. Cardinality(Keepers) + Cardinality(Open) + (IF stranded # 0 THEN 1 ELSE 0)
          = (IF gate THEN 0 ELSE 1)
    BY <2>1, <2>4, <2>5 DEF Token
  <2>7. QED
    BY <2>6 DEF GateIsConserved, Keepers, Open
<1>2. QED
  BY <1>1, ProfileIsSound, PTL

\* No call acts, uploads, binds or cleans up in a session in which an action of unknown
\* outcome may still go on (coordinator.go, markUnknown and Release).
THEOREM UnknownKeepsOut == BrowserConstants => (Spec => []NothingBesideUnknown)
<1>1. ASSUME ProfileInv PROVE NothingBesideUnknown
  <2>1. Token /\ Remembered /\ Certain
    BY <1>1 DEF ProfileInv
  <2>2. SUFFICES ASSUME NEW k \in Calls,
                        call[k].at \in {"acting", "uploading", "cancelling", "closing", "binding"},
                        Session(k) \in loose
                 PROVE  FALSE
    BY DEF NothingBesideUnknown
  <2>3. k \in Doers /\ Equipped(k)
    BY <1>1, InvFacts DEF Doers
  <2>4. CASE call[k].at = "binding"
    <3>1. k \in Keepers
      BY <2>4 DEF Keepers, Holding
    <3>2. stranded = 0 /\ Open = {}
      BY <2>1, <3>1 DEF Token
    <3>3. Session(k) \in 1 .. gen
      BY <2>1, <2>2 DEF Remembered
    <3>4. QED
      BY <2>1, <2>2, <3>2, <3>3 DEF Remembered
  <2>5. CASE call[k].at # "binding"
    <3>1. call[k].at \in Locking /\ call[k].lease \in Open
      BY <1>1, <2>2, <2>3, <2>5, HeldFacts DEF Locking, Open
    <3>2. stranded = 0 /\ \A m \in Open : m = call[k].lease
      BY <2>1, <3>1 DEF Token
    <3>3. ~lease[call[k].lease].uncertain
      BY <2>1, <2>2, <2>5 DEF Certain
    <3>4. Session(k) \in 1 .. gen
      BY <2>1, <2>2 DEF Remembered
    <3>5. QED
      BY <2>1, <2>2, <3>2, <3>3, <3>4 DEF Remembered
  <2>6. QED
    BY <2>4, <2>5
<1>2. QED
  BY <1>1, ProfileIsSound, PTL

\* Whoever works, works in the last session, and a replacement that may connect finds
\* nobody at work in the one it replaces (coordinator.go, CloseSession, BeginReplacement).
THEOREM ReplacementsAreAlone == BrowserConstants => (Spec => []ClosedIsQuiet)
<1>1. ASSUME ProfileInv PROVE ClosedIsQuiet
  BY <1>1 DEF ProfileInv, Quiet, ClosedIsQuiet, Busy, Locking
<1>2. QED
  BY <1>1, ProfileIsSound, PTL

\* While a file chooser is shown only its owner acts, uploads, binds or looks, but for an
\* Inspect on a lease that FinishTask made (coordinator.go, fileChooserMatches).
THEOREM ChoosersKeepTheirOwners == BrowserConstants => (Spec => []ChooserIsTheOwners)
<1>1. ASSUME ProfileInv PROVE ChooserIsTheOwners
  <2>1. SUFFICES ASSUME NEW k \in Calls, chooser # NoTask,
                        call[k].at \in {"acting", "uploading", "observing", "cancelling", "closing",
                                        "binding", "inspecting"}
                 PROVE  \/ call[k].task # NoTask /\ Owner[chooser] = Owner[call[k].task]
                        \/ call[k].at = "observing" /\ Looks(k) /\ MyLease(k).inner
    BY DEF ChooserIsTheOwners
  <2>2. k \in Doers /\ Equipped(k) /\ Chosen
    BY <1>1, InvFacts DEF Doers, ProfileInv
  <2>3. call[k].at \notin {"binding", "inspecting"}
    BY <2>1, <2>2 DEF Chosen
  <2>4. call[k].at \in Locking
    BY <2>1, <2>3 DEF Locking
  <2>5. /\ call[k].lease \in Made /\ ~lease[call[k].lease].released
        /\ lease[call[k].lease].inner \in BOOLEAN
    BY <1>1, <2>2, <2>4, HeldFacts, LeaseFields
  <2>6. call[k].task = lease[call[k].lease].task /\ call[k].task # NoTask
    BY <2>1, <2>2, <2>3, <2>5 DEF Equipped, Locking, Made
  <2>7. CASE call[k].at \in {"cancelling", "closing"}
    BY <2>1, <2>2, <2>6, <2>7 DEF Chosen
  <2>8. CASE call[k].at \in {"acting", "uploading", "observing"}
    <3>1. CASE lease[call[k].lease].inner
      BY <2>2, <2>8, <3>1 DEF Equipped, Looks, MyLease
    <3>2. CASE ~lease[call[k].lease].inner
      BY <2>1, <2>2, <2>5, <2>6, <3>2 DEF Chosen, Given
    <3>3. QED
      BY <3>1, <3>2
  <2>9. QED
    BY <2>1, <2>3, <2>7, <2>8
<1>2. QED
  BY <1>1, ProfileIsSound, PTL

-----------------------------------------------------------------------------
(* The agent-to-agent server.                                              *)

\* From its admission until its execution is given up, a request is its task's execution.
Admitted == {"accepting", "handling", "committing", "notifying", "releasing", "released"}
TaskStates == A2A!Open \cup A2A!Terminal \cup {"none", "gone"}

\* A connection that sends nothing names some task or other.
Connections ==
  [at : {"idle", "arrived"} \cup Admitted, task : Served \cup {A2A!Idle.task},
   stream : BOOLEAN, local : TaskStates]

AgentTyped ==
  /\ task \in [Served -> TaskStates]
  /\ exec \in [Served -> Senders \cup {None}]
  /\ req \in [Senders -> Connections]
  /\ \A q \in Senders : req[q].at # "idle" => req[q].task \in Served

\* The execution of a task is one request, and only an accepted one works.
OneExecution ==
  /\ \A q \in Senders : req[q].at \in Admitted => exec[req[q].task] = q
  /\ work \subseteq {q \in Senders : req[q].at \in Admitted \ {"accepting"}}

AgentInv == AgentTyped /\ OneExecution

Moved(q, c) == req' = [req EXCEPT ![q] = c]

LEMMA AgentInit == A2A!Init => AgentInv
<1> SUFFICES ASSUME A2A!Init PROVE AgentInv
  OBVIOUS
<1>1. /\ task = [t \in Served |-> "none"] /\ exec = [t \in Served |-> None]
      /\ req = [q \in Senders |-> A2A!Idle] /\ work = {}
  BY DEF A2A!Init
<1>2. A2A!Idle \in Connections /\ A2A!Idle.at = "idle"
  BY DEF A2A!Idle, Connections, TaskStates, Admitted
<1>3. QED
  BY <1>1, <1>2 DEF AgentInv, AgentTyped, OneExecution, TaskStates, Admitted

\* A step of a request that is admitted already, or is not yet.
LEMMA RequestMoves ==
  ASSUME AgentInv, NEW q \in Senders, NEW c \in Connections, Moved(q, c),
         c.at # "idle" => c.task \in Served,
         task' \in [Served -> TaskStates], UNCHANGED exec,
         work' \subseteq work \cup {q},
         c.at \in Admitted => req[q].at \in Admitted /\ c.task = req[q].task,
         q \in work' => c.at \in Admitted \ {"accepting"}
  PROVE  AgentInv'
<1>1. /\ req \in [Senders -> Connections] /\ exec \in [Served -> Senders \cup {None}]
      /\ \A p \in Senders : req[p].at # "idle" => req[p].task \in Served
      /\ \A p \in Senders : req[p].at \in Admitted => exec[req[p].task] = p
      /\ work \subseteq {p \in Senders : req[p].at \in Admitted \ {"accepting"}}
  BY DEF AgentInv, AgentTyped, OneExecution
<1>2. req' = [req EXCEPT ![q] = c]
  BY DEF Moved
<1>3. \A p \in Senders : req'[p] = IF p = q THEN c ELSE req[p]
  BY <1>1, <1>2
<1>4. req' \in [Senders -> Connections]
  BY <1>1, <1>2
<1>5. AgentTyped'
  BY <1>1, <1>3, <1>4 DEF AgentTyped
<1>6. \A p \in Senders : req'[p].at \in Admitted => exec'[req'[p].task] = p
  BY <1>1, <1>3
<1>7. work' \subseteq {p \in Senders : req'[p].at \in Admitted \ {"accepting"}}
  BY <1>1, <1>3
<1>8. QED
  BY <1>5, <1>6, <1>7 DEF AgentInv, OneExecution

LEMMA RequestsStay ==
  ASSUME AgentInv, UNCHANGED <<exec, req, work>>, task' \in [Served -> TaskStates]
  PROVE  AgentInv'
BY DEF AgentInv, AgentTyped, OneExecution

LEMMA AgentStates ==
  ASSUME AgentInv, NEW t \in Served, NEW s \in TaskStates
  PROVE  /\ [task EXCEPT ![t] = s] \in [Served -> TaskStates]
         /\ task[t] \in TaskStates /\ task \in [Served -> TaskStates]
BY DEF AgentInv, AgentTyped

\* What is stored as ended is removed at most.
Ended == \A t \in Served : task[t] \in A2A!Terminal => task'[t] \in {task[t], "gone"}

\* A request that is admitted goes on to its next place, with an answer or without.
LEMMA PlaceMoves ==
  ASSUME AgentInv, NEW q \in Senders, NEW a \in Admitted, NEW l \in TaskStates,
         req[q].at \in Admitted,
         \/ req' = [req EXCEPT ![q].at = a]
         \/ req' = [req EXCEPT ![q].at = a, ![q].local = l],
         task' \in [Served -> TaskStates], UNCHANGED exec, work' \subseteq work \cup {q},
         q \in work' => a # "accepting"
  PROVE  AgentInv'
<1> DEFINE c == IF req' = [req EXCEPT ![q].at = a] THEN [req[q] EXCEPT !.at = a]
                ELSE [req[q] EXCEPT !.at = a, !.local = l]
<1>1. /\ req[q] \in Connections /\ req[q].task \in Served
      /\ req \in [Senders -> Connections]
  BY DEF AgentInv, AgentTyped, Admitted
<1>2. c \in Connections /\ c.at = a /\ c.task = req[q].task
  BY <1>1 DEF Connections
<1>3. Moved(q, c)
  BY <1>1 DEF Moved, Connections
<1> HIDE DEF c
<1>4. QED
  BY <1>1, <1>2, <1>3, RequestMoves

LEMMA SendKeeps ==
  ASSUME AgentInv, NEW q \in Senders, A2A!Send(q)
  PROVE  AgentInv' /\ Ended
<1>1. PICK t \in Served, stream \in BOOLEAN :
        /\ task[t] \in A2A!Open \cup {"none"}
        /\ task' = [task EXCEPT ![t] = IF @ = "none" THEN "submitted" ELSE @]
        /\ req' = [req EXCEPT ![q] = [at |-> "arrived", task |-> t, stream |-> stream,
                                      local |-> "none"]]
  BY DEF A2A!Send
<1>2. req[q].at = "idle" /\ UNCHANGED <<exec, work>>
  BY DEF A2A!Send
<1> DEFINE c == [at |-> "arrived", task |-> t, stream |-> stream, local |-> "none"]
           s == IF task[t] = "none" THEN "submitted" ELSE task[t]
<1>3. c \in Connections /\ c.at = "arrived" /\ c.task = t
  BY DEF Connections, TaskStates
<1>4. s \in TaskStates /\ task' = [task EXCEPT ![t] = s]
  BY <1>1, AgentStates DEF TaskStates, A2A!Open
<1>5. task' \in [Served -> TaskStates] /\ Ended
  BY <1>1, <1>4, AgentStates DEF Ended, A2A!Open, A2A!Terminal
<1>6. Moved(q, c)
  BY <1>1 DEF Moved
<1>7. q \notin work
  BY <1>2 DEF AgentInv, OneExecution, Admitted
<1> HIDE DEF c, s
<1>8. QED
  BY <1>2, <1>3, <1>5, <1>6, <1>7, RequestMoves DEF Admitted

\* Nobody else is admitted for a task that has no execution.
LEMMA AdmitKeeps ==
  ASSUME AgentInv, NEW q \in Senders, A2A!Admit(q)
  PROVE  AgentInv' /\ Ended
<1>0. /\ req[q].at = "arrived" /\ UNCHANGED <<task, work>> /\ Ended
  BY DEF A2A!Admit, Ended
<1> DEFINE t == req[q].task
<1>1. /\ t \in Served /\ req[q] \in Connections /\ task \in [Served -> TaskStates]
      /\ req \in [Senders -> Connections] /\ exec \in [Served -> Senders \cup {None}]
      /\ \A p \in Senders : req[p].at # "idle" => req[p].task \in Served
      /\ \A p \in Senders : req[p].at \in Admitted => exec[req[p].task] = p
      /\ work \subseteq {p \in Senders : req[p].at \in Admitted \ {"accepting"}}
  BY <1>0 DEF AgentInv, AgentTyped, OneExecution
<1>2. None \notin Senders
  BY ComponentsConstants DEF A2A!A2AConstants
<1>3. CASE exec[t] = None /\ exec' = [exec EXCEPT ![t] = q]
           /\ req' = [req EXCEPT ![q].at = "accepting"]
  <2>1. /\ \A p \in Senders : req'[p] = IF p = q THEN [req[q] EXCEPT !.at = "accepting"]
                                      ELSE req[p]
        /\ req' \in [Senders -> Connections]
    BY <1>1, <1>3 DEF Connections, Admitted
  <2>2. req'[q].at = "accepting" /\ req'[q].task = t
    BY <1>1, <2>1 DEF Connections
  <2>3. /\ \A u \in Served : exec'[u] = IF u = t THEN q ELSE exec[u]
        /\ exec' \in [Served -> Senders \cup {None}]
    BY <1>1, <1>3
  <2>4. AgentTyped'
    <3>1. task' \in [Served -> TaskStates]
      BY <1>0, <1>1
    <3>2. ASSUME NEW p \in Senders, req'[p].at # "idle" PROVE req'[p].task \in Served
      BY <1>1, <2>1, <2>2, <3>2
    <3>3. QED
      BY <2>1, <2>3, <3>1, <3>2 DEF AgentTyped
  <2>5. ASSUME NEW p \in Senders, req'[p].at \in Admitted PROVE exec'[req'[p].task] = p
    <3>1. CASE p = q
      BY <1>1, <2>2, <2>3, <3>1
    <3>2. CASE p # q
      <4>1. req'[p] = req[p] /\ req[p].at \in Admitted /\ exec[req[p].task] = p
        BY <1>1, <2>1, <2>5, <3>2
      <4>2. req[p].task \in Served /\ req[p].task # t
        BY <1>1, <1>2, <1>3, <4>1 DEF Admitted
      <4>3. QED
        BY <2>3, <4>1, <4>2
    <3>3. QED
      BY <3>1, <3>2
  <2>6. q \notin work
    BY <1>0, <1>1 DEF Admitted
  <2>7. work' \subseteq {p \in Senders : req'[p].at \in Admitted \ {"accepting"}}
    BY <1>0, <1>1, <2>1, <2>6
  <2>8. QED
    BY <1>0, <2>4, <2>5, <2>7 DEF AgentInv, OneExecution
<1>4. CASE req' = [req EXCEPT ![q] = A2A!Idle] /\ exec' = exec
  <2>1. A2A!Idle \in Connections /\ A2A!Idle.at = "idle"
    BY DEF A2A!Idle, Connections, TaskStates, Admitted
  <2>2. Moved(q, A2A!Idle)
    BY <1>4 DEF Moved
  <2>3. q \notin work
    BY <1>0, <1>1 DEF Admitted
  <2>4. QED
    BY <1>0, <1>1, <1>4, <2>1, <2>2, <2>3, RequestMoves DEF Admitted
<1>5. QED
  BY <1>3, <1>4 DEF A2A!Admit

\* What commitTask writes.
LEMMA CommittedTask ==
  ASSUME AgentInv, NEW q \in Senders, NEW s \in TaskStates, A2A!Committed(q, s),
         req[q].at \in Admitted
  PROVE  Ended /\ task' \in [Served -> TaskStates]
<1>1. req[q].task \in Served /\ task \in [Served -> TaskStates]
  BY DEF AgentInv, AgentTyped, Admitted
<1>2. CASE task[req[q].task] \in A2A!Terminal
  BY <1>1, <1>2 DEF A2A!Committed, Ended
<1>3. CASE task[req[q].task] \notin A2A!Terminal
  <2>1. task' = [task EXCEPT ![req[q].task] = s]
    BY <1>3 DEF A2A!Committed
  <2>2. QED
    BY <1>1, <1>3, <2>1 DEF Ended
<1>4. QED
  BY <1>2, <1>3

LEMMA TaskStays ==
  ASSUME AgentInv, UNCHANGED task
  PROVE  Ended /\ task' \in [Served -> TaskStates]
BY DEF AgentInv, AgentTyped, Ended

LEMMA AcceptKeeps ==
  ASSUME AgentInv, NEW q \in Senders, A2A!Accept(q)
  PROVE  AgentInv' /\ Ended
<1>1. req[q].at \in Admitted /\ UNCHANGED exec
  BY DEF A2A!Accept, Admitted
<1>2. CASE A2A!Committed(q, "working") /\ req' = [req EXCEPT ![q].at = "handling"]
           /\ work' = work \cup {q}
  BY <1>1, <1>2, CommittedTask, PlaceMoves DEF Admitted, TaskStates, A2A!Open
<1>3. CASE req' = [req EXCEPT ![q].at = "releasing"] /\ UNCHANGED <<task, work>>
  BY <1>1, <1>3, TaskStays, PlaceMoves DEF Admitted, TaskStates
<1>4. QED
  BY <1>2, <1>3 DEF A2A!Accept

LEMMA AnswerKeeps ==
  ASSUME AgentInv, NEW q \in Senders, A2A!Answer(q) \/ A2A!Break(q)
  PROVE  AgentInv' /\ Ended
<1>1. req[q].at \in Admitted /\ UNCHANGED exec /\ UNCHANGED task /\ work' \subseteq work
  BY DEF A2A!Answer, A2A!Break, Admitted
<1>2. CASE A2A!Answer(q)
  <2>1. PICK s \in TaskStates : req' = [req EXCEPT ![q].at = "committing", ![q].local = s]
    BY <1>2 DEF A2A!Answer, TaskStates, A2A!Open, A2A!Terminal
  <2>2. QED
    BY <1>1, <2>1, TaskStays, PlaceMoves DEF Admitted
<1>3. CASE A2A!Break(q)
  <2>1. req' = [req EXCEPT ![q].at = "releasing"]
    BY <1>3 DEF A2A!Break
  <2>2. QED
    BY <1>1, <2>1, TaskStays, PlaceMoves DEF Admitted, TaskStates
<1>4. QED
  BY <1>2, <1>3

LEMMA CommitKeeps ==
  ASSUME AgentInv, NEW q \in Senders, A2A!Commit(q)
  PROVE  AgentInv' /\ Ended
<1>1. /\ req[q].at = "committing" /\ req[q].at \in Admitted /\ UNCHANGED exec
      /\ work' = work /\ "notifying" \in Admitted /\ "releasing" \in Admitted
  BY DEF A2A!Commit, Admitted
<1>2. req[q].local \in TaskStates /\ task[req[q].task] \in TaskStates
  BY <1>1 DEF AgentInv, AgentTyped, Connections, Admitted
<1>3. CASE req' = [req EXCEPT ![q].at = "releasing"] /\ UNCHANGED task
  BY <1>1, <1>2, <1>3, TaskStays, PlaceMoves
<1>4. CASE /\ A2A!Committed(q, req[q].local)
           /\ req' = [req EXCEPT ![q].at = "notifying",
                                 ![q].local = A2A!View(q, req[q].local)]
  <2>1. A2A!View(q, req[q].local) \in TaskStates
    BY <1>2 DEF A2A!View
  <2>2. Ended /\ task' \in [Served -> TaskStates]
    BY <1>1, <1>2, <1>4, CommittedTask
  <2>3. QED
    BY <1>1, <1>4, <2>1, <2>2, PlaceMoves
<1>5. QED
  BY <1>3, <1>4 DEF A2A!Commit

LEMMA NotifyKeeps ==
  ASSUME AgentInv, NEW q \in Senders, A2A!Notify(q) \/ A2A!Release(q)
  PROVE  AgentInv' /\ Ended
<1>1. /\ req[q].at \in Admitted /\ UNCHANGED exec /\ UNCHANGED task /\ work' = work
      /\ \E a \in Admitted \ {"accepting"} : req' = [req EXCEPT ![q].at = a]
  BY DEF A2A!Notify, A2A!Release, Admitted
<1>2. QED
  BY <1>1, TaskStays, PlaceMoves DEF TaskStates

LEMMA CompleteKeeps ==
  ASSUME AgentInv, NEW q \in Senders, A2A!Complete(q)
  PROVE  AgentInv' /\ Ended
<1>1. /\ req[q].at = "released" /\ q \notin work /\ UNCHANGED <<task, work>>
      /\ exec' = [exec EXCEPT ![req[q].task] = None]
      /\ req' = [req EXCEPT ![q] = A2A!Idle]
  BY DEF A2A!Complete
<1> DEFINE t == req[q].task
<1>2. /\ t \in Served /\ task \in [Served -> TaskStates]
      /\ req \in [Senders -> Connections] /\ exec \in [Served -> Senders \cup {None}]
      /\ \A p \in Senders : req[p].at # "idle" => req[p].task \in Served
      /\ \A p \in Senders : req[p].at \in Admitted => exec[req[p].task] = p
      /\ work \subseteq {p \in Senders : req[p].at \in Admitted \ {"accepting"}}
  BY <1>1 DEF AgentInv, AgentTyped, OneExecution
<1>3. A2A!Idle \in Connections /\ A2A!Idle.at = "idle"
  BY DEF A2A!Idle, Connections, TaskStates, Admitted
<1>4. /\ \A p \in Senders : req'[p] = IF p = q THEN A2A!Idle ELSE req[p]
      /\ req' \in [Senders -> Connections]
      /\ \A u \in Served : exec'[u] = IF u = t THEN None ELSE exec[u]
      /\ exec' \in [Served -> Senders \cup {None}]
  BY <1>1, <1>2, <1>3
<1>5. AgentTyped'
  BY <1>1, <1>2, <1>3, <1>4 DEF AgentTyped
<1>6. ASSUME NEW p \in Senders, req'[p].at \in Admitted PROVE exec'[req'[p].task] = p
  <2>1. p # q /\ req'[p] = req[p]
    BY <1>3, <1>4, <1>6 DEF Admitted
  <2>2. exec[req[p].task] = p /\ req[p].task \in Served /\ exec[t] = q
    BY <1>1, <1>2, <1>6, <2>1 DEF Admitted
  <2>3. QED
    BY <1>4, <2>1, <2>2
<1>7. work' \subseteq {p \in Senders : req'[p].at \in Admitted \ {"accepting"}}
  BY <1>1, <1>2, <1>4
<1>8. QED
  BY <1>1, <1>5, <1>6, <1>7, TaskStays DEF AgentInv, OneExecution

\* Steps that no request takes, or that only cancel one.
LEMMA BystandersKeep ==
  ASSUME AgentInv,
         \/ \E q \in Senders : A2A!WorkEnds(q) \/ A2A!Disconnect(q)
         \/ \E c \in Cancellers : A2A!Cancel(c) \/ A2A!CancelCommit(c) \/ A2A!CancelNotify(c)
         \/ \E t \in Served : A2A!Evict(t)
         \/ \E u \in Followers : A2A!Arrive(u) \/ A2A!Follow(u)
         \/ A2A!Stop \/ A2A!Reclaim \/ A2A!CutOff \/ A2A!StopDone \/ A2A!Start
  PROVE  AgentInv' /\ Ended
<1>1. ASSUME NEW q \in Senders, A2A!WorkEnds(q)
      PROVE  UNCHANGED <<task, exec, req>> /\ work' \subseteq work
  BY <1>1 DEF A2A!WorkEnds
<1>2. ASSUME NEW q \in Senders, A2A!Disconnect(q) PROVE UNCHANGED <<task, exec, req, work>>
  BY <1>2 DEF A2A!Disconnect
<1>3. ASSUME NEW c \in Cancellers, A2A!Cancel(c) \/ A2A!CancelNotify(c)
      PROVE  UNCHANGED <<task, exec, req, work>>
  BY <1>3 DEF A2A!Cancel, A2A!CancelNotify
<1>4. ASSUME NEW u \in Followers, A2A!Arrive(u) \/ A2A!Follow(u)
      PROVE  UNCHANGED <<task, exec, req, work>>
  BY <1>4 DEF A2A!Arrive, A2A!Follow, A2A!Subscribe, A2A!Look, A2A!Read, A2A!Ended, A2A!Leave
<1>5. ASSUME A2A!Stop \/ A2A!Reclaim \/ A2A!CutOff \/ A2A!StopDone \/ A2A!Start
      PROVE  UNCHANGED <<task, exec, req, work>>
  BY <1>5 DEF A2A!Stop, A2A!Reclaim, A2A!CutOff, A2A!CancelAll, A2A!StopDone, A2A!Start
<1>6. task \in [Served -> TaskStates]
  BY DEF AgentInv, AgentTyped
<1>7. ASSUME \/ \E c \in Cancellers : A2A!CancelCommit(c)
             \/ \E t \in Served : A2A!Evict(t)
      PROVE  UNCHANGED <<exec, req, work>> /\ Ended /\ task' \in [Served -> TaskStates]
  <2>1. UNCHANGED <<exec, req, work>>
    BY <1>7 DEF A2A!CancelCommit, A2A!Evict
  <2>2. \/ UNCHANGED task
        \/ \E t : task[t] \in A2A!Open /\ task' = [task EXCEPT ![t] = "canceled"]
        \/ \E t : task' = [task EXCEPT ![t] = "gone"]
    BY <1>7 DEF A2A!CancelCommit, A2A!Evict
  <2>3. Ended /\ task' \in [Served -> TaskStates]
    BY <1>6, <2>2 DEF Ended, TaskStates, A2A!Open, A2A!Terminal
  <2>4. QED
    BY <2>1, <2>3
<1>8. ASSUME UNCHANGED <<exec, req>>, work' \subseteq work, task' \in [Served -> TaskStates]
      PROVE  AgentInv'
  BY <1>8 DEF AgentInv, AgentTyped, OneExecution
<1>9. ASSUME UNCHANGED <<task, exec, req>>, work' \subseteq work PROVE AgentInv' /\ Ended
  BY <1>8, <1>9, TaskStays
<1>10. QED
  BY <1>1, <1>2, <1>3, <1>4, <1>5, <1>7, <1>8, <1>9

LEMMA AgentNext ==
  ASSUME AgentInv, A2A!Next
  PROVE  AgentInv' /\ Ended
<1>1. ASSUME NEW q \in Senders, A2A!Send(q) \/ A2A!Request(q) \/ A2A!Break(q)
      PROVE  AgentInv' /\ Ended
  BY <1>1, SendKeeps, AdmitKeeps, AcceptKeeps, AnswerKeeps, CommitKeeps, NotifyKeeps,
     CompleteKeeps, BystandersKeep DEF A2A!Request
<1>2. QED
  BY <1>1, BystandersKeep DEF A2A!Next

-----------------------------------------------------------------------------
(* The batcher.                                                            *)

Holds(s, r) == \E i \in DOMAIN s : s[i] = r
Once(s, r)  == \A i, j \in DOMAIN s : s[i] = r /\ s[j] = r => i = j

\* The same of a sequence of batches.
HoldsOne(c, r) == \E i \in DOMAIN c : Holds(c[i], r)
OnceInAll(c, r) ==
  /\ \A i \in DOMAIN c : Once(c[i], r)
  /\ \A i, k \in DOMAIN c : Holds(c[i], r) /\ Holds(c[k], r) => i = k

LEMMA AppendHolds ==
  ASSUME NEW S, NEW s \in Seq(S), NEW x \in S, NEW r
  PROVE  /\ Holds(Append(s, x), r) <=> Holds(s, r) \/ r = x
         /\ Once(s, r) /\ ~(Holds(s, r) /\ r = x) => Once(Append(s, x), r)
         /\ Append(s, x) \in Seq(S) /\ Append(s, x) # <<>>
<1> DEFINE e == Append(s, x)
<1>1. /\ e \in Seq(S) /\ Len(e) = Len(s) + 1 /\ DOMAIN e = 1 .. Len(s) + 1
      /\ DOMAIN s = 1 .. Len(s) /\ Len(s) \in Nat
      /\ \A i \in 1 .. Len(s) + 1 : e[i] = IF i <= Len(s) THEN s[i] ELSE x
  OBVIOUS
<1>2. e # <<>>
  BY <1>1
<1> HIDE DEF e
<1>3. Holds(e, r) <=> Holds(s, r) \/ r = x
  <2>1. ASSUME Holds(e, r) PROVE Holds(s, r) \/ r = x
    BY <1>1, <2>1 DEF Holds
  <2>2. ASSUME Holds(s, r) PROVE Holds(e, r)
    BY <1>1, <2>2 DEF Holds
  <2>3. ASSUME r = x PROVE Holds(e, r)
    <3>1. Len(s) + 1 \in DOMAIN e /\ e[Len(s) + 1] = x
      BY <1>1
    <3>2. QED
      BY <2>3, <3>1 DEF Holds
  <2>4. QED
    BY <2>1, <2>2, <2>3
<1>4. ASSUME Once(s, r), ~(Holds(s, r) /\ r = x) PROVE Once(e, r)
  BY <1>1, <1>4 DEF Once, Holds
<1>5. QED
  BY <1>1, <1>2, <1>3, <1>4 DEF e

LEMMA TailHolds ==
  ASSUME NEW S, NEW s \in Seq(S), s # <<>>, NEW r
  PROVE  /\ Holds(s, r) <=> Head(s) = r \/ Holds(Tail(s), r)
         /\ Once(s, r) => Once(Tail(s), r) /\ ~(Head(s) = r /\ Holds(Tail(s), r))
         /\ Tail(s) \in Seq(S) /\ Head(s) \in S
<1> DEFINE e == Tail(s)
<1>1. /\ e \in Seq(S) /\ DOMAIN e = 1 .. Len(s) - 1 /\ DOMAIN s = 1 .. Len(s)
      /\ Len(s) \in Nat \ {0} /\ Head(s) = s[1] /\ Head(s) \in S
      /\ \A i \in 1 .. Len(s) - 1 : e[i] = s[i + 1]
  OBVIOUS
<1> HIDE DEF e
<1>2. Holds(s, r) <=> Head(s) = r \/ Holds(e, r)
  <2>1. ASSUME NEW i \in DOMAIN s, s[i] = r, Head(s) # r PROVE Holds(e, r)
    <3>1. i - 1 \in DOMAIN e /\ e[i - 1] = r
      BY <1>1, <2>1
    <3>2. QED
      BY <3>1 DEF Holds
  <2>2. ASSUME Holds(e, r) PROVE Holds(s, r)
    <3>1. PICK i \in DOMAIN e : e[i] = r
      BY <2>2 DEF Holds
    <3>2. i + 1 \in DOMAIN s /\ s[i + 1] = r
      BY <1>1, <3>1
    <3>3. QED
      BY <3>2 DEF Holds
  <2>3. ASSUME Head(s) = r PROVE Holds(s, r)
    <3>1. 1 \in DOMAIN s /\ s[1] = r
      BY <1>1, <2>3
    <3>2. QED
      BY <3>1 DEF Holds
  <2>4. QED
    BY <2>1, <2>2, <2>3 DEF Holds
<1>3. ASSUME Once(s, r) PROVE Once(e, r) /\ ~(Head(s) = r /\ Holds(e, r))
  <2>1. \A i \in DOMAIN e : i \in Nat /\ i + 1 \in DOMAIN s /\ e[i] = s[i + 1] /\ i + 1 # 1
    BY <1>1
  <2>2. ASSUME NEW i \in DOMAIN e, NEW j \in DOMAIN e, e[i] = r, e[j] = r PROVE i = j
    <3>1. i + 1 = j + 1
      BY <1>3, <2>1, <2>2 DEF Once
    <3>2. QED
      BY <2>1, <3>1
  <2>3. ASSUME NEW i \in DOMAIN e, e[i] = r, Head(s) = r PROVE FALSE
    <3>1. 1 \in DOMAIN s /\ s[1] = r
      BY <1>1, <2>3
    <3>2. QED
      BY <1>3, <2>1, <2>3, <3>1 DEF Once
  <2>4. QED
    BY <2>2, <2>3 DEF Once, Holds
<1>4. QED
  BY <1>1, <1>2, <1>3 DEF e

LEMMA AppendBatch ==
  ASSUME NEW S, NEW c \in Seq(S), NEW b \in S, NEW r
  PROVE  /\ HoldsOne(Append(c, b), r) <=> HoldsOne(c, r) \/ Holds(b, r)
         /\ OnceInAll(c, r) /\ Once(b, r) /\ ~(HoldsOne(c, r) /\ Holds(b, r))
              => OnceInAll(Append(c, b), r)
         /\ Append(c, b) \in Seq(S)
         /\ \A i \in DOMAIN Append(c, b) : Append(c, b)[i] = b \/ \E k \in DOMAIN c : Append(c, b)[i] = c[k]
<1> DEFINE e == Append(c, b)
<1>1. /\ e \in Seq(S) /\ DOMAIN e = 1 .. Len(c) + 1
      /\ DOMAIN c = 1 .. Len(c) /\ Len(c) \in Nat
      /\ \A i \in 1 .. Len(c) + 1 : e[i] = IF i <= Len(c) THEN c[i] ELSE b
  OBVIOUS
<1> HIDE DEF e
<1>2. HoldsOne(e, r) <=> HoldsOne(c, r) \/ Holds(b, r)
  <2>1. ASSUME HoldsOne(e, r) PROVE HoldsOne(c, r) \/ Holds(b, r)
    BY <1>1, <2>1 DEF HoldsOne
  <2>2. ASSUME HoldsOne(c, r) PROVE HoldsOne(e, r)
    BY <1>1, <2>2 DEF HoldsOne
  <2>3. ASSUME Holds(b, r) PROVE HoldsOne(e, r)
    <3>1. Len(c) + 1 \in DOMAIN e /\ e[Len(c) + 1] = b
      BY <1>1
    <3>2. QED
      BY <2>3, <3>1 DEF HoldsOne
  <2>4. QED
    BY <2>1, <2>2, <2>3
<1>3. ASSUME OnceInAll(c, r), Once(b, r), ~(HoldsOne(c, r) /\ Holds(b, r))
      PROVE  OnceInAll(e, r)
  BY <1>1, <1>3 DEF OnceInAll, HoldsOne
<1>4. \A i \in DOMAIN e : e[i] = b \/ \E k \in DOMAIN c : e[i] = c[k]
  BY <1>1
<1>5. QED
  BY <1>1, <1>2, <1>3, <1>4 DEF e

\* The groups that are left when one is received.
LEMMA TailBatches ==
  ASSUME NEW S, NEW c \in Seq(S), c # <<>>
  PROVE  /\ Head(c) \in S /\ Tail(c) \in Seq(S)
         /\ \E k \in DOMAIN c : Head(c) = c[k]
         /\ \A i \in DOMAIN Tail(c) : \E k \in DOMAIN c : Tail(c)[i] = c[k]
<1>1. /\ Head(c) = c[1] /\ 1 \in DOMAIN c
      /\ \A i \in DOMAIN Tail(c) : i + 1 \in DOMAIN c /\ Tail(c)[i] = c[i + 1]
  OBVIOUS
<1>2. QED
  BY <1>1

LEMMA TailBatch ==
  ASSUME NEW S, NEW c \in Seq(S), c # <<>>, NEW r
  PROVE  /\ HoldsOne(c, r) <=> Holds(Head(c), r) \/ HoldsOne(Tail(c), r)
         /\ OnceInAll(c, r) => /\ OnceInAll(Tail(c), r)
                               /\ ~(Holds(Head(c), r) /\ HoldsOne(Tail(c), r))
<1> DEFINE e == Tail(c)
<1>1. /\ e \in Seq(S) /\ DOMAIN e = 1 .. Len(c) - 1 /\ DOMAIN c = 1 .. Len(c)
      /\ Len(c) \in Nat \ {0} /\ Head(c) = c[1] /\ Head(c) \in S
      /\ \A i \in 1 .. Len(c) - 1 : e[i] = c[i + 1]
  OBVIOUS
<1> HIDE DEF e
<1>2. /\ 1 \in DOMAIN c
      /\ \A i \in DOMAIN e : i \in Nat /\ i + 1 \in DOMAIN c /\ e[i] = c[i + 1] /\ i + 1 # 1
  BY <1>1
<1>3. HoldsOne(c, r) <=> Holds(Head(c), r) \/ HoldsOne(e, r)
  <2>1. ASSUME NEW i \in DOMAIN c, Holds(c[i], r), ~Holds(Head(c), r) PROVE HoldsOne(e, r)
    <3>1. i - 1 \in DOMAIN e /\ e[i - 1] = c[i]
      <4>1. i # 1
        BY <1>1, <2>1
      <4>2. QED
        BY <1>1, <4>1
    <3>2. QED
      BY <2>1, <3>1 DEF HoldsOne
  <2>2. ASSUME HoldsOne(e, r) PROVE HoldsOne(c, r)
    BY <1>2, <2>2 DEF HoldsOne
  <2>3. ASSUME Holds(Head(c), r) PROVE HoldsOne(c, r)
    BY <1>1, <1>2, <2>3 DEF HoldsOne
  <2>4. QED
    BY <2>1, <2>2, <2>3 DEF HoldsOne
<1>4. ASSUME OnceInAll(c, r)
      PROVE  OnceInAll(e, r) /\ ~(Holds(Head(c), r) /\ HoldsOne(e, r))
  <2>1. \A i \in DOMAIN e : Once(e[i], r)
    BY <1>2, <1>4 DEF OnceInAll
  <2>2. ASSUME NEW i \in DOMAIN e, NEW k \in DOMAIN e, Holds(e[i], r), Holds(e[k], r)
        PROVE  i = k
    <3>1. i + 1 = k + 1
      BY <1>2, <1>4, <2>2 DEF OnceInAll
    <3>2. QED
      BY <1>2, <3>1
  <2>3. ASSUME NEW i \in DOMAIN e, Holds(e[i], r), Holds(Head(c), r) PROVE FALSE
    <3>1. i + 1 = 1
      BY <1>1, <1>2, <1>4, <2>3 DEF OnceInAll
    <3>2. QED
      BY <1>2, <3>1
  <2>4. QED
    BY <2>1, <2>2, <2>3 DEF OnceInAll, HoldsOne
<1>5. QED
  BY <1>3, <1>4 DEF e

\* The worker's group, or one of the worker's.
Held(w, r)  == Holds(worker[w].batch, r)
InHands(r)  == \E w \in BatchWorkers : Held(w, r)
OnTheWay(r) == Holds(queue, r) \/ Holds(batch, r) \/ HoldsOne(batchChan, r) \/ InHands(r)

Groups == [at : {"unborn", "receiving", "processing", "delivering", "returned"},
           batch : Seq(Submitters), finished : SUBSET Submitters]

BatchTyped ==
  /\ caller \in [Submitters -> {"new", "waiting", "refused", "gone", "answered"}]
  /\ queue \in Seq(Submitters) /\ batch \in Seq(Submitters)
  /\ batchChan \in Seq(Seq(Submitters))
  /\ worker \in [BatchWorkers -> Groups]

\* No empty group is sent or worked on, and workers start with the collector.
Grouped ==
  /\ collector \in {"flushing", "drainFlushing"} => batch # <<>>
  /\ \A i \in DOMAIN batchChan : batchChan[i] # <<>>
  /\ \A w \in BatchWorkers :
       /\ worker[w].batch # <<>> <=> worker[w].at \in {"processing", "delivering"}
       /\ collector = "unborn" => worker[w].at = "unborn"

\* A request is in one place at most, once.
InOnePlace(r) ==
  /\ Once(queue, r) /\ Once(batch, r) /\ OnceInAll(batchChan, r)
  /\ \A w, v \in BatchWorkers : Held(w, r) /\ Held(v, r) => w = v
  /\ Holds(queue, r) => ~Holds(batch, r) /\ ~HoldsOne(batchChan, r) /\ ~InHands(r)
  /\ Holds(batch, r) => ~HoldsOne(batchChan, r) /\ ~InHands(r)
  /\ HoldsOne(batchChan, r) => ~InHands(r)

\* Only a submitted request is on its way, and until its caller is told it is.
Submitted(r) ==
  /\ caller[r] = "new" => ~OnTheWay(r)
  /\ caller[r] = "waiting" => OnTheWay(r)

\* Whoever is answered, or is about to be, has had the completion callback.
CallbackFirst(r) ==
  /\ caller[r] = "answered" => r \in called
  /\ \A w \in BatchWorkers : worker[w].at = "delivering" /\ Held(w, r) => r \in called

Tracked == \A r \in Submitters : InOnePlace(r) /\ Submitted(r) /\ CallbackFirst(r)

BatchInv == BatchTyped /\ Grouped /\ Tracked

LEMMA EmptyHolds ==
  ASSUME NEW r
  PROVE  /\ ~Holds(<<>>, r) /\ Once(<<>>, r) /\ ~HoldsOne(<<>>, r) /\ OnceInAll(<<>>, r)
BY DEF Holds, Once, HoldsOne, OnceInAll

LEMMA ToSetHolds == ASSUME NEW s, NEW r PROVE r \in Batching!ToSet(s) <=> Holds(s, r)
BY DEF Batching!ToSet, Holds

LEMMA BatchInit == Batching!Init => BatchInv
<1> SUFFICES ASSUME Batching!Init PROVE BatchInv
  OBVIOUS
<1> DEFINE unborn == [Batching!IdleWorker EXCEPT !.at = "unborn"]
<1>a. Batching!IdleWorker \in Groups /\ Batching!IdleWorker.batch = <<>>
  BY DEF Batching!IdleWorker, Groups
<1>b. unborn \in Groups /\ unborn.at = "unborn" /\ unborn.batch = <<>>
  BY <1>a DEF Groups
<1> HIDE DEF unborn
<1>1. /\ caller = [r \in Submitters |-> "new"]
      /\ queue = <<>> /\ batch = <<>> /\ batchChan = <<>> /\ collector = "unborn"
      /\ worker = [w \in BatchWorkers |-> unborn]
      /\ \A w \in BatchWorkers : worker[w].at = "unborn" /\ worker[w].batch = <<>>
      /\ worker \in [BatchWorkers -> Groups]
  BY <1>b DEF Batching!Init, unborn
<1>2. BatchTyped /\ Grouped
  BY <1>1 DEF BatchTyped, Grouped
<1>3. ASSUME NEW r \in Submitters PROVE InOnePlace(r) /\ Submitted(r) /\ CallbackFirst(r)
  <2>1. /\ ~Holds(queue, r) /\ ~Holds(batch, r) /\ ~HoldsOne(batchChan, r)
        /\ Once(queue, r) /\ Once(batch, r) /\ OnceInAll(batchChan, r)
        /\ \A w \in BatchWorkers : ~Held(w, r)
    BY <1>1, EmptyHolds DEF Held
  <2>2. QED
    BY <1>1, <2>1 DEF InOnePlace, Submitted, CallbackFirst, OnTheWay, InHands
<1>4. QED
  BY <1>2, <1>3 DEF BatchInv, Tracked

LEMMA SubmitKeeps ==
  ASSUME BatchInv, NEW q \in Submitters, Batching!Submit(q)
  PROVE  BatchInv'
<1>1. /\ caller[q] = "new"
      /\ \/ queue' = Append(queue, q) /\ caller' = [caller EXCEPT ![q] = "waiting"]
         \/ caller' = [caller EXCEPT ![q] = "refused"] /\ queue' = queue
      /\ UNCHANGED <<batch, collector, batchChan, worker, called>>
  BY DEF Batching!Submit
<1>2. BatchTyped /\ Grouped /\ Tracked
  BY DEF BatchInv
<1>3. BatchTyped'
  <2>1. Append(queue, q) \in Seq(Submitters)
    BY <1>2, AppendHolds DEF BatchTyped
  <2>2. QED
    BY <1>1, <1>2, <2>1 DEF BatchTyped
<1>4. Grouped'
  BY <1>1, <1>2 DEF Grouped
<1>5. ASSUME NEW r \in Submitters PROVE (InOnePlace(r) /\ Submitted(r) /\ CallbackFirst(r))'
  <2>1. InOnePlace(r) /\ Submitted(r) /\ CallbackFirst(r)
    BY <1>2 DEF Tracked
  <2>2. CASE queue' = queue /\ caller' = [caller EXCEPT ![q] = "refused"]
    BY <1>1, <1>2, <2>1, <2>2
       DEF BatchTyped, InOnePlace, Submitted, CallbackFirst, OnTheWay, InHands, Held
  <2>3. CASE queue' = Append(queue, q) /\ caller' = [caller EXCEPT ![q] = "waiting"]
    <3>1. /\ Holds(queue', r) <=> Holds(queue, r) \/ r = q
          /\ Once(queue, r) /\ ~(Holds(queue, r) /\ r = q) => Once(queue', r)
      BY <1>2, <2>3, AppendHolds DEF BatchTyped
    <3>2. caller'[r] = IF r = q THEN "waiting" ELSE caller[r]
      BY <1>2, <2>3 DEF BatchTyped
    <3>3. QED
      BY <1>1, <2>1, <3>1, <3>2
         DEF InOnePlace, Submitted, CallbackFirst, OnTheWay, InHands, Held
  <2>4. QED
    BY <1>1, <2>2, <2>3
<1>6. QED
  BY <1>3, <1>4, <1>5 DEF BatchInv, Tracked

\* What is queued, buffered, sent and worked on stays, and so do the callers.
LEMMA CollectorMoves ==
  ASSUME BatchInv, UNCHANGED <<caller, queue, batch, batchChan, worker, called>>,
         collector' \in {"flushing", "drainFlushing"} => batch # <<>>,
         collector' = "unborn" => collector = "unborn"
  PROVE  BatchInv'
<1>1. BatchTyped'
  BY DEF BatchInv, BatchTyped
<1>2. Grouped'
  BY DEF BatchInv, Grouped
<1>3. Tracked'
  BY DEF BatchInv, Tracked, InOnePlace, Submitted, CallbackFirst, OnTheWay, InHands, Held
<1>4. QED
  BY <1>1, <1>2, <1>3 DEF BatchInv

LEMMA GiveUpKeeps ==
  ASSUME BatchInv, NEW q \in Submitters, Batching!GiveUp(q)
  PROVE  BatchInv'
<1>1. /\ caller' = [caller EXCEPT ![q] = "gone"]
      /\ UNCHANGED <<queue, batch, collector, batchChan, worker, called>>
  BY DEF Batching!GiveUp
<1>2. BatchTyped /\ Grouped /\ Tracked
  BY DEF BatchInv
<1>3. BatchTyped'
  BY <1>1, <1>2 DEF BatchTyped
<1>4. Grouped'
  BY <1>1, <1>2 DEF Grouped
<1>5. \A r \in Submitters : caller'[r] = IF r = q THEN "gone" ELSE caller[r]
  BY <1>1, <1>2 DEF BatchTyped
<1>6. Tracked'
  BY <1>1, <1>2, <1>5
     DEF Tracked, InOnePlace, Submitted, CallbackFirst, OnTheWay, InHands, Held
<1>7. QED
  BY <1>3, <1>4, <1>6 DEF BatchInv

LEMMA StartKeeps == ASSUME BatchInv, Batching!Start PROVE BatchInv'
<1>1. /\ collector = "unborn" /\ collector' = "collecting"
      /\ worker' = [w \in BatchWorkers |-> Batching!IdleWorker]
      /\ UNCHANGED <<caller, queue, batch, batchChan, called>>
  BY DEF Batching!Start
<1>2. BatchTyped /\ Grouped /\ Tracked
  BY DEF BatchInv
<1>3. /\ Batching!IdleWorker \in Groups /\ Batching!IdleWorker.batch = <<>>
      /\ Batching!IdleWorker.at = "receiving"
  BY DEF Batching!IdleWorker, Groups
<1>4. BatchTyped'
  BY <1>1, <1>2, <1>3 DEF BatchTyped
<1>5. \A w \in BatchWorkers : worker[w].batch = <<>> /\ worker'[w].batch = <<>>
                              /\ worker'[w].at = "receiving"
  BY <1>1, <1>2, <1>3 DEF Grouped
<1>6. Grouped'
  BY <1>1, <1>2, <1>5 DEF Grouped
<1>7. \A r \in Submitters : \A w \in BatchWorkers : ~Held(w, r) /\ ~Held(w, r)'
  BY <1>5, EmptyHolds DEF Held
<1>8. Tracked'
  <2>1. ASSUME NEW r \in Submitters
        PROVE  /\ InHands(r) <=> FALSE
               /\ InHands(r)' <=> FALSE
    BY <1>7 DEF InHands
  <2>2. QED
    BY <1>1, <1>2, <1>7, <2>1 DEF Tracked, InOnePlace, Submitted, CallbackFirst, OnTheWay
<1>9. QED
  BY <1>4, <1>6, <1>8 DEF BatchInv

\* The collector takes a request from the queue into its buffer.
LEMMA TakeKeeps ==
  ASSUME BatchInv, Batching!Take, UNCHANGED <<caller, batchChan, worker, called>>,
         collector' # "unborn"
  PROVE  BatchInv' /\ batch' # <<>>
<1>1. queue # <<>> /\ queue' = Tail(queue) /\ batch' = Append(batch, Head(queue))
  BY DEF Batching!Take
<1>2. BatchTyped /\ Grouped /\ Tracked /\ queue \in Seq(Submitters) /\ batch \in Seq(Submitters)
  BY DEF BatchInv, BatchTyped
<1>3. Head(queue) \in Submitters /\ Tail(queue) \in Seq(Submitters)
  BY <1>1, <1>2, TailHolds
<1>4. /\ queue' \in Seq(Submitters) /\ batch' \in Seq(Submitters) /\ batch' # <<>>
  BY <1>1, <1>2, <1>3, AppendHolds
<1>5. BatchTyped'
  BY <1>2, <1>4 DEF BatchTyped
<1>6. Grouped'
  BY <1>2, <1>4 DEF Grouped
<1>7. ASSUME NEW r \in Submitters PROVE (InOnePlace(r) /\ Submitted(r) /\ CallbackFirst(r))'
  <2>1. InOnePlace(r) /\ Submitted(r) /\ CallbackFirst(r)
    BY <1>2 DEF Tracked
  <2>2. /\ Holds(queue, r) <=> Head(queue) = r \/ Holds(queue', r)
        /\ Once(queue, r) => Once(queue', r) /\ ~(Head(queue) = r /\ Holds(queue', r))
    BY <1>1, <1>2, TailHolds
  <2>3. /\ Holds(batch', r) <=> Holds(batch, r) \/ r = Head(queue)
        /\ Once(batch, r) /\ ~(Holds(batch, r) /\ r = Head(queue)) => Once(batch', r)
    BY <1>1, <1>2, <1>3, AppendHolds
  <2>4. QED
    BY <2>1, <2>2, <2>3 DEF InOnePlace, Submitted, CallbackFirst, OnTheWay, InHands, Held
<1>8. QED
  BY <1>4, <1>5, <1>6, <1>7 DEF BatchInv, Tracked

\* The collector sends its buffer, which is not empty, to the workers.
LEMMA GroupSends ==
  ASSUME BatchInv, Batching!Send, batch # <<>>, UNCHANGED <<caller, queue, worker, called>>,
         collector' \notin {"unborn", "flushing", "drainFlushing"}
  PROVE  BatchInv'
<1>1. batchChan' = Append(batchChan, batch) /\ batch' = <<>>
  BY DEF Batching!Send
<1>2. /\ BatchTyped /\ Grouped /\ Tracked
      /\ batch \in Seq(Submitters) /\ batchChan \in Seq(Seq(Submitters))
  BY DEF BatchInv, BatchTyped
<1>3. /\ batchChan' \in Seq(Seq(Submitters))
      /\ \A i \in DOMAIN batchChan' : batchChan'[i] = batch
                                      \/ \E k \in DOMAIN batchChan : batchChan'[i] = batchChan[k]
  BY <1>1, <1>2, AppendBatch
<1>4. batch' \in Seq(Submitters)
  BY <1>1
<1>5. BatchTyped'
  BY <1>2, <1>3, <1>4 DEF BatchTyped
<1>6. Grouped'
  BY <1>2, <1>3 DEF Grouped
<1>7. ASSUME NEW r \in Submitters PROVE (InOnePlace(r) /\ Submitted(r) /\ CallbackFirst(r))'
  <2>1. InOnePlace(r) /\ Submitted(r) /\ CallbackFirst(r)
    BY <1>2 DEF Tracked
  <2>2. /\ HoldsOne(batchChan', r) <=> HoldsOne(batchChan, r) \/ Holds(batch, r)
        /\ OnceInAll(batchChan, r) /\ Once(batch, r)
             /\ ~(HoldsOne(batchChan, r) /\ Holds(batch, r)) => OnceInAll(batchChan', r)
    BY <1>1, <1>2, AppendBatch
  <2>3. ~Holds(batch', r) /\ Once(batch', r)
    BY <1>1, EmptyHolds
  <2>4. QED
    BY <2>1, <2>2, <2>3 DEF InOnePlace, Submitted, CallbackFirst, OnTheWay, InHands, Held
<1>8. QED
  BY <1>5, <1>6, <1>7 DEF BatchInv, Tracked

LEMMA CollectorKeeps == ASSUME BatchInv, Batching!CollectorStep PROVE BatchInv'
<1>0. collector \in {"flushing", "drainFlushing"} => batch # <<>>
  BY DEF BatchInv, Grouped
<1>1. CASE Batching!Collect
  <2>1. Batching!Take /\ UNCHANGED <<caller, batchChan, worker, called>> /\ collector' # "unborn"
    BY <1>1 DEF Batching!Collect
  <2>2. QED
    BY <2>1, TakeKeeps
<1>2. CASE Batching!Tick
  BY <1>2, CollectorMoves DEF Batching!Tick
<1>3. CASE Batching!Flush
  <2>1. collector = "flushing" /\ collector' = "collecting"
        /\ UNCHANGED <<caller, queue, worker, called>>
        /\ (Batching!Send \/ UNCHANGED <<batch, batchChan>>)
    BY <1>3 DEF Batching!Flush
  <2>2. CASE Batching!Send
    BY <1>0, <2>1, <2>2, GroupSends
  <2>3. CASE UNCHANGED <<batch, batchChan>>
    BY <2>1, <2>3, CollectorMoves
  <2>4. QED
    BY <2>1, <2>2, <2>3
<1>4. CASE Batching!BeginDrain
  BY <1>4, CollectorMoves DEF Batching!BeginDrain
<1>5. CASE Batching!Drain
  <2>1. collector = "draining" /\ UNCHANGED <<caller, batchChan, worker, called>>
        /\ \/ Batching!Take /\ collector' # "unborn"
           \/ collector' = "lastFlushing" /\ UNCHANGED <<queue, batch>>
    BY <1>5 DEF Batching!Drain
  <2>2. QED
    BY <2>1, TakeKeeps, CollectorMoves
<1>6. CASE Batching!DrainFlush
  <2>1. collector = "drainFlushing" /\ collector' = "draining" /\ Batching!Send
        /\ UNCHANGED <<caller, queue, worker, called>>
    BY <1>6 DEF Batching!DrainFlush
  <2>2. QED
    BY <1>0, <2>1, GroupSends
<1>7. CASE Batching!LastFlush
  <2>1. collector = "lastFlushing" /\ collector' = "returned"
        /\ UNCHANGED <<caller, queue, worker, called>>
        /\ \/ batch # <<>> /\ Batching!Send
           \/ UNCHANGED <<batch, batchChan>>
    BY <1>7 DEF Batching!LastFlush
  <2>2. QED
    BY <2>1, GroupSends, CollectorMoves
<1>8. QED
  BY <1>1, <1>2, <1>3, <1>4, <1>5, <1>6, <1>7 DEF Batching!CollectorStep

\* A worker's step changes its own record: which groups the workers have then.
LEMMA WorkerMoves ==
  ASSUME BatchInv, NEW w \in BatchWorkers, NEW g \in Groups,
         worker' = [worker EXCEPT ![w] = g], UNCHANGED collector,
         g.batch # <<>> <=> g.at \in {"processing", "delivering"},
         collector # "unborn" \/ g.at = "unborn",
         UNCHANGED <<queue, batch>>, batchChan' \in Seq(Seq(Submitters)),
         caller' \in [Submitters -> {"new", "waiting", "refused", "gone", "answered"}],
         \A i \in DOMAIN batchChan' : batchChan'[i] # <<>>
  PROVE  /\ BatchTyped' /\ Grouped'
         /\ \A v \in BatchWorkers : worker'[v] = IF v = w THEN g ELSE worker[v]
         /\ \A r \in Submitters : \A v \in BatchWorkers :
              Held(v, r)' <=> IF v = w THEN Holds(g.batch, r) ELSE Held(v, r)
<1>1. BatchTyped /\ Grouped
  BY DEF BatchInv
<1>2. /\ worker' \in [BatchWorkers -> Groups]
      /\ \A v \in BatchWorkers : worker'[v] = IF v = w THEN g ELSE worker[v]
  BY <1>1 DEF BatchTyped
<1>3. BatchTyped'
  BY <1>1, <1>2 DEF BatchTyped
<1>4. Grouped'
  BY <1>1, <1>2 DEF Grouped
<1>5. QED
  BY <1>2, <1>3, <1>4 DEF Held

\* A step of a worker that keeps its group: only callbacks are added.
LEMMA GroupStays ==
  ASSUME BatchInv, NEW w \in BatchWorkers, NEW g \in Groups,
         worker' = [worker EXCEPT ![w] = g], g.batch = worker[w].batch,
         g.batch # <<>> <=> g.at \in {"processing", "delivering"}, g.at # "unborn",
         worker[w].at # "unborn", called \subseteq called',
         g.at = "delivering" => \A r \in Submitters : Held(w, r) => r \in called',
         UNCHANGED <<caller, queue, batch, collector, batchChan>>
  PROVE  BatchInv'
<1>1. /\ BatchTyped /\ Grouped /\ Tracked /\ collector # "unborn"
      /\ batchChan \in Seq(Seq(Submitters))
      /\ caller \in [Submitters -> {"new", "waiting", "refused", "gone", "answered"}]
      /\ \A i \in DOMAIN batchChan : batchChan[i] # <<>>
  BY DEF BatchInv, BatchTyped, Grouped
<1>2. /\ BatchTyped' /\ Grouped'
      /\ \A v \in BatchWorkers : worker'[v] = IF v = w THEN g ELSE worker[v]
      /\ \A r \in Submitters : \A v \in BatchWorkers :
           Held(v, r)' <=> IF v = w THEN Holds(g.batch, r) ELSE Held(v, r)
  BY <1>1, WorkerMoves
<1>3. ASSUME NEW r \in Submitters PROVE (InOnePlace(r) /\ Submitted(r) /\ CallbackFirst(r))'
  <2>1. InOnePlace(r) /\ Submitted(r) /\ CallbackFirst(r)
    BY <1>1 DEF Tracked
  <2>2. \A v \in BatchWorkers : Held(v, r)' <=> Held(v, r)
    BY <1>2 DEF Held
  <2>3. InHands(r)' <=> InHands(r)
    BY <2>2 DEF InHands
  <2>4. InOnePlace(r)' /\ Submitted(r)'
    BY <2>1, <2>2, <2>3 DEF InOnePlace, Submitted, OnTheWay
  <2>5. CallbackFirst(r)'
    BY <1>2, <2>1, <2>2 DEF CallbackFirst
  <2>6. QED
    BY <2>4, <2>5
<1>4. QED
  BY <1>2, <1>3 DEF BatchInv, Tracked

LEMMA ReceiveKeeps ==
  ASSUME BatchInv, NEW w \in BatchWorkers, Batching!Receive(w)
  PROVE  BatchInv'
<1>1. /\ worker[w].at = "receiving" /\ UNCHANGED <<caller, queue, batch, collector, called>>
      /\ BatchTyped /\ Grouped /\ Tracked /\ worker[w] \in Groups /\ worker[w].batch = <<>>
      /\ batchChan \in Seq(Seq(Submitters)) /\ collector # "unborn"
      /\ caller \in [Submitters -> {"new", "waiting", "refused", "gone", "answered"}]
      /\ worker \in [BatchWorkers -> Groups]
  BY DEF BatchInv, BatchTyped, Grouped, Batching!Receive
<1>2. CASE /\ batchChan # <<>> /\ batchChan' = Tail(batchChan)
           /\ worker' = [worker EXCEPT ![w].at = "processing", ![w].batch = Head(batchChan)]
  <2> DEFINE g == [worker[w] EXCEPT !.at = "processing", !.batch = Head(batchChan)]
  <2>1. /\ Head(batchChan) \in Seq(Submitters) /\ Tail(batchChan) \in Seq(Seq(Submitters))
        /\ \E k \in DOMAIN batchChan : Head(batchChan) = batchChan[k]
        /\ \A i \in DOMAIN Tail(batchChan) :
             \E k \in DOMAIN batchChan : Tail(batchChan)[i] = batchChan[k]
    BY <1>1, <1>2, TailBatches
  <2>2. Head(batchChan) # <<>> /\ \A i \in DOMAIN batchChan' : batchChan'[i] # <<>>
    BY <1>1, <1>2, <2>1 DEF Grouped
  <2>3. g \in Groups /\ g.at = "processing" /\ g.batch = Head(batchChan)
    BY <1>1, <2>1 DEF Groups
  <2>4. worker' = [worker EXCEPT ![w] = g]
    BY <1>1, <1>2
  <2> HIDE DEF g
  <2>5. /\ BatchTyped' /\ Grouped'
        /\ \A v \in BatchWorkers : worker'[v] = IF v = w THEN g ELSE worker[v]
        /\ \A r \in Submitters : \A v \in BatchWorkers :
             Held(v, r)' <=> IF v = w THEN Holds(g.batch, r) ELSE Held(v, r)
    BY <1>1, <1>2, <2>1, <2>2, <2>3, <2>4, WorkerMoves
  <2>6. ASSUME NEW r \in Submitters PROVE (InOnePlace(r) /\ Submitted(r) /\ CallbackFirst(r))'
    <3>1. InOnePlace(r) /\ Submitted(r) /\ CallbackFirst(r) /\ ~Held(w, r)
      BY <1>1, EmptyHolds DEF Tracked, Held
    <3>2. \A v \in BatchWorkers :
            Held(v, r)' <=> IF v = w THEN Holds(Head(batchChan), r) ELSE Held(v, r)
      BY <2>3, <2>5
    <3>3. InHands(r)' <=> InHands(r) \/ Holds(Head(batchChan), r)
      BY <3>1, <3>2 DEF InHands
    <3>4. /\ HoldsOne(batchChan, r) <=> Holds(Head(batchChan), r) \/ HoldsOne(batchChan', r)
          /\ OnceInAll(batchChan, r) =>
               OnceInAll(batchChan', r) /\ ~(Holds(Head(batchChan), r) /\ HoldsOne(batchChan', r))
      BY <1>1, <1>2, TailBatch
    <3>5. \A v, u \in BatchWorkers : Held(v, r)' /\ Held(u, r)' => v = u
      BY <3>1, <3>2, <3>4 DEF InOnePlace, InHands
    <3>6. InOnePlace(r)'
      BY <1>1, <3>1, <3>3, <3>4, <3>5 DEF InOnePlace
    <3>7. Submitted(r)'
      BY <1>1, <3>1, <3>3, <3>4 DEF Submitted, OnTheWay
    <3>8. CallbackFirst(r)'
      BY <1>1, <2>3, <2>5, <3>1, <3>2 DEF CallbackFirst
    <3>9. QED
      BY <3>6, <3>7, <3>8
  <2>7. QED
    BY <2>5, <2>6 DEF BatchInv, Tracked
<1>3. CASE worker' = [worker EXCEPT ![w].at = "returned"] /\ UNCHANGED batchChan
  <2> DEFINE g == [worker[w] EXCEPT !.at = "returned"]
  <2>1. g \in Groups /\ g.at = "returned" /\ g.batch = <<>> /\ worker' = [worker EXCEPT ![w] = g]
    BY <1>1, <1>3 DEF Groups
  <2> HIDE DEF g
  <2>2. QED
    BY <1>1, <1>3, <2>1, GroupStays
<1>4. QED
  BY <1>2, <1>3 DEF Batching!Receive

LEMMA ProcessKeeps ==
  ASSUME BatchInv, NEW w \in BatchWorkers, NEW q \in Submitters, Batching!Process(w, q)
  PROVE  BatchInv'
<1> DEFINE g == [worker[w] EXCEPT !.finished = @ \cup {q}]
<1>1. /\ worker[w].at = "processing" /\ worker' = [worker EXCEPT ![w] = g]
      /\ UNCHANGED <<caller, queue, batch, collector, batchChan, called>>
      /\ worker[w] \in Groups
  BY DEF BatchInv, BatchTyped, Batching!Process
<1>2. g \in Groups /\ g.at = "processing" /\ g.batch = worker[w].batch
  BY <1>1 DEF Groups
<1> HIDE DEF g
<1>3. worker[w].batch # <<>>
  BY <1>1 DEF BatchInv, Grouped
<1>4. QED
  BY <1>1, <1>2, <1>3, GroupStays

LEMMA CompleteKeepsGroup ==
  ASSUME BatchInv, NEW w \in BatchWorkers, Batching!Complete(w)
  PROVE  BatchInv'
<1> DEFINE g == [worker[w] EXCEPT !.at = "delivering"]
<1>1. /\ worker[w].at = "processing" /\ worker' = [worker EXCEPT ![w] = g]
      /\ called' = called \cup Batching!ToSet(worker[w].batch)
      /\ UNCHANGED <<caller, queue, batch, collector, batchChan>>
      /\ worker[w] \in Groups
  BY DEF BatchInv, BatchTyped, Batching!Complete
<1>2. g \in Groups /\ g.at = "delivering" /\ g.batch = worker[w].batch
  BY <1>1 DEF Groups
<1> HIDE DEF g
<1>3. worker[w].batch # <<>>
  BY <1>1 DEF BatchInv, Grouped
<1>4. \A r \in Submitters : Held(w, r) => r \in called'
  BY <1>1, ToSetHolds DEF Held
<1>5. QED
  BY <1>1, <1>2, <1>3, <1>4, GroupStays

LEMMA DeliverKeeps ==
  ASSUME BatchInv, NEW w \in BatchWorkers, Batching!Deliver(w)
  PROVE  BatchInv'
<1> DEFINE q == Head(worker[w].batch)
           s == IF caller[q] = "waiting" THEN "answered" ELSE caller[q]
           g == IF Tail(worker[w].batch) = <<>> THEN Batching!IdleWorker
                ELSE [worker[w] EXCEPT !.batch = Tail(worker[w].batch)]
<1>1. /\ worker[w].at = "delivering" /\ BatchTyped /\ Grouped /\ Tracked
      /\ UNCHANGED <<queue, batch, collector, batchChan, called>>
      /\ caller' = [caller EXCEPT ![q] = s] /\ worker' = [worker EXCEPT ![w] = g]
  BY DEF BatchInv, Batching!Deliver
<1>2. /\ worker[w] \in Groups /\ worker[w].batch # <<>> /\ worker[w].batch \in Seq(Submitters)
      /\ collector # "unborn" /\ batchChan \in Seq(Seq(Submitters))
      /\ caller \in [Submitters -> {"new", "waiting", "refused", "gone", "answered"}]
      /\ \A i \in DOMAIN batchChan : batchChan[i] # <<>>
  BY <1>1 DEF BatchTyped, Grouped, Groups
<1>3. q \in Submitters /\ Tail(worker[w].batch) \in Seq(Submitters)
  BY <1>2, TailHolds
<1>4. /\ Batching!IdleWorker \in Groups /\ Batching!IdleWorker.batch = <<>>
      /\ Batching!IdleWorker.at = "receiving"
  BY DEF Batching!IdleWorker, Groups
<1>5. /\ g \in Groups /\ g.batch = Tail(worker[w].batch) /\ g.at \in {"receiving", "delivering"}
      /\ g.batch # <<>> <=> g.at \in {"processing", "delivering"}
  <2>1. CASE Tail(worker[w].batch) = <<>>
    BY <1>4, <2>1
  <2>2. CASE Tail(worker[w].batch) # <<>>
    <3>1. g = [worker[w] EXCEPT !.batch = Tail(worker[w].batch)]
      BY <2>2
    <3>2. QED
      BY <1>1, <1>2, <1>3, <2>2, <3>1 DEF Groups
  <2>3. QED
    BY <2>1, <2>2
<1>6. /\ caller' \in [Submitters -> {"new", "waiting", "refused", "gone", "answered"}]
      /\ \A r \in Submitters : caller'[r] = IF r = q THEN s ELSE caller[r]
  BY <1>1, <1>2, <1>3
<1>7. s # "waiting" /\ (s = "new" => caller[q] = "new") /\ (s = "answered" => caller[q] \in {"waiting", "answered"})
  OBVIOUS
<1> HIDE DEF g, s
<1>8. /\ BatchTyped' /\ Grouped'
      /\ \A v \in BatchWorkers : worker'[v] = IF v = w THEN g ELSE worker[v]
      /\ \A r \in Submitters : \A v \in BatchWorkers :
           Held(v, r)' <=> IF v = w THEN Holds(g.batch, r) ELSE Held(v, r)
  BY <1>1, <1>2, <1>5, <1>6, WorkerMoves
<1>9. ASSUME NEW r \in Submitters PROVE (InOnePlace(r) /\ Submitted(r) /\ CallbackFirst(r))'
  <2>1. InOnePlace(r) /\ Submitted(r) /\ CallbackFirst(r)
    BY <1>1 DEF Tracked
  <2>2. Held(w, r) <=> q = r \/ Holds(g.batch, r)
    BY <1>2, <1>5, TailHolds DEF Held
  <2> HIDE DEF q
  <2>3. \A v \in BatchWorkers : Held(v, r)' => Held(v, r)
    BY <1>8, <2>2
  <2>4. InHands(r)' => InHands(r)
    BY <2>3 DEF InHands
  <2>5. InHands(r) => InHands(r)' \/ r = q
    BY <1>8, <2>2 DEF InHands
  <2>6. InOnePlace(r)'
    BY <1>1, <2>1, <2>3, <2>4 DEF InOnePlace
  <2>7. Submitted(r)'
    BY <1>1, <1>6, <1>7, <2>1, <2>4, <2>5 DEF Submitted, OnTheWay
  <2>8. CallbackFirst(r)'
    <3>1. r = q => r \in called
      BY <1>1, <2>1, <2>2 DEF CallbackFirst
    <3>2. \A v \in BatchWorkers : worker'[v].at = "delivering" => worker[v].at = "delivering"
      BY <1>1, <1>8
    <3>3. QED
      BY <1>1, <1>6, <2>1, <2>3, <3>1, <3>2 DEF CallbackFirst
  <2>9. QED
    BY <2>6, <2>7, <2>8
<1>10. QED
  BY <1>8, <1>9 DEF BatchInv, Tracked

LEMMA BatchNext == ASSUME BatchInv, Batching!Next PROVE BatchInv'
<1>1. CASE \E q \in Submitters : Batching!Submit(q) \/ Batching!GiveUp(q)
  BY <1>1, SubmitKeeps, GiveUpKeeps
<1>2. CASE Batching!Start
  BY <1>2, StartKeeps
<1>3. CASE Batching!Stop
  <2>1. UNCHANGED <<caller, queue, batch, collector, batchChan, worker, called>>
    BY <1>3 DEF Batching!Stop
  <2>2. collector' \in {"flushing", "drainFlushing"} => batch # <<>>
    BY <2>1 DEF BatchInv, Grouped
  <2>3. QED
    BY <2>1, <2>2, CollectorMoves
<1>4. CASE Batching!CollectorStep
  BY <1>4, CollectorKeeps
<1>5. CASE \E w \in BatchWorkers : Batching!WorkerStep(w)
  BY <1>5, ReceiveKeeps, ProcessKeeps, CompleteKeepsGroup, DeliverKeeps DEF Batching!WorkerStep
<1>6. QED
  BY <1>1, <1>2, <1>3, <1>4, <1>5 DEF Batching!Next

LEMMA OneOfThem ==
  ASSUME NEW S, \A x, y \in S : x = y
  PROVE  Cardinality(S) = IF S = {} THEN 0 ELSE 1
<1>1. CASE S = {}
  BY <1>1, FS_EmptySet
<1>2. ASSUME NEW x \in S PROVE Cardinality(S) = 1
  <2>1. S = {x}
    BY <1>2
  <2>2. QED
    BY <2>1, FS_Singleton
<1>3. QED
  BY <1>1, <1>2

\* The batcher's module counts the way this one does.
LEMMA SameCount == ASSUME NEW S PROVE Batching!Cardinality(S) = Cardinality(S)
BY DEF Batching!Cardinality, Cardinality

LEMMA TrackedIsCounted == BatchInv => Batching!NothingIsLost
<1> SUFFICES ASSUME BatchInv, NEW r \in Submitters
             PROVE  /\ caller[r] = "waiting" => Batching!Copies(r) = 1
                    /\ caller[r] = "answered" => r \in called
  BY DEF Batching!NothingIsLost
<1>1. InOnePlace(r) /\ Submitted(r) /\ CallbackFirst(r)
  BY DEF BatchInv, Tracked
<1> DEFINE At(s) == {i \in DOMAIN s : s[i] = r}
           Sent  == UNION {{i} \X At(batchChan[i]) : i \in DOMAIN batchChan}
           Hands == {w \in BatchWorkers : r \in Batching!ToSet(worker[w].batch)}
<1>2. ASSUME NEW s, Once(s, r) PROVE Cardinality(At(s)) = IF Holds(s, r) THEN 1 ELSE 0
  <2> DEFINE A == At(s)
  <2>1. \A x, y \in A : x = y
    BY <1>2 DEF Once
  <2>2. A = {} <=> ~Holds(s, r)
    BY DEF Holds
  <2> HIDE DEF A
  <2>3. Cardinality(A) = IF Holds(s, r) THEN 1 ELSE 0
    BY <2>1, <2>2, OneOfThem
  <2>4. QED
    BY <2>3 DEF A
<1>3. Cardinality(Sent) = IF HoldsOne(batchChan, r) THEN 1 ELSE 0
  <2>1. ASSUME NEW x \in Sent
        PROVE  \E i \in DOMAIN batchChan : \E k \in DOMAIN batchChan[i] :
                 x = <<i, k>> /\ batchChan[i][k] = r
    OBVIOUS
  <2>2. ASSUME NEW i \in DOMAIN batchChan, NEW k \in DOMAIN batchChan[i], batchChan[i][k] = r
        PROVE  <<i, k>> \in Sent
    BY <2>2
  <2> HIDE DEF Sent
  <2>3. ASSUME NEW x \in Sent, NEW y \in Sent PROVE x = y
    <3>1. PICK i \in DOMAIN batchChan : \E k \in DOMAIN batchChan[i] :
                 x = <<i, k>> /\ batchChan[i][k] = r
      BY <2>1
    <3>2. PICK k \in DOMAIN batchChan[i] : x = <<i, k>> /\ batchChan[i][k] = r
      BY <3>1
    <3>3. PICK j \in DOMAIN batchChan : \E l \in DOMAIN batchChan[j] :
                 y = <<j, l>> /\ batchChan[j][l] = r
      BY <2>1
    <3>4. PICK l \in DOMAIN batchChan[j] : y = <<j, l>> /\ batchChan[j][l] = r
      BY <3>3
    <3>5. i = j
      BY <1>1, <3>2, <3>4 DEF InOnePlace, OnceInAll, Holds
    <3>6. k = l
      BY <1>1, <3>2, <3>4, <3>5 DEF InOnePlace, OnceInAll, Once
    <3>7. QED
      BY <3>2, <3>4, <3>5, <3>6
  <2>4. Sent = {} <=> ~HoldsOne(batchChan, r)
    BY <2>1, <2>2 DEF HoldsOne, Holds
  <2>5. QED
    BY <2>3, <2>4, OneOfThem
<1>4. Cardinality(Hands) = IF InHands(r) THEN 1 ELSE 0
  <2>1. \A v, w \in Hands : v = w
    BY <1>1, ToSetHolds DEF InOnePlace, Held
  <2>2. Hands = {} <=> ~InHands(r)
    BY ToSetHolds DEF InHands, Held
  <2> HIDE DEF Hands
  <2>3. QED
    BY <2>1, <2>2, OneOfThem
<1>5. /\ Cardinality(At(queue)) = IF Holds(queue, r) THEN 1 ELSE 0
      /\ Cardinality(At(batch)) = IF Holds(batch, r) THEN 1 ELSE 0
  BY <1>1, <1>2 DEF InOnePlace
<1> DEFINE copies == Cardinality(At(queue)) + Cardinality(At(batch)) + Cardinality(Sent)
                     + Cardinality(Hands)
<1>6. OnTheWay(r) => copies = 1
  <2> HIDE DEF At, Sent, Hands
  <2>1. QED
    BY <1>1, <1>3, <1>4, <1>5 DEF OnTheWay, InOnePlace
<1>7. Batching!Copies(r) = copies
  BY SameCount DEF Batching!Copies
<1> HIDE DEF copies
<1>8. QED
  BY <1>1, <1>6, <1>7 DEF Submitted, CallbackFirst

-----------------------------------------------------------------------------
(***************************************************************************)
(* The composition: what is proved of a workflow and of a network in their *)
(* own modules holds of theirs.                                            *)
(***************************************************************************)

W == INSTANCE WorkflowProofs WITH
  Callers <- Drivers, Nobody <- None, Steps <- FlowSteps, Needs <- FlowNeeds,
  ReplaySafe <- Repeatable, Durable <- TRUE, Serial <- FALSE, MaxFaults <- FlowFaults,
  MaxReads <- FlowReads

N == INSTANCE AgentNetworkProofs WITH
  Agents <- NetAgents, Callers <- NetCallers, Home <- NetHome, Kinds <- NetKinds,
  Topical <- NetTopical, Routers <- NetRouters, Nobody <- None, QueueSize <- NetQueue,
  InboxSize <- NetInbox, MaxNodes <- NetNodes, MayExpire <- NetExpires,
  MayCancel <- NetCancels, queue <- channel, call <- agent

\* A step of the whole is a step of each component or leaves it alone.
LEMMA Projections ==
  ASSUME [ComponentsNext]_components_vars
  PROVE  /\ UNCHANGED focus
         /\ [Batching!Next]_batcher_vars /\ [A2A!Next]_a2a_vars
         /\ [Driven!Next]_workflow_vars /\ [Network!Next]_net_vars
<1>1. CASE UNCHANGED components_vars
  BY <1>1 DEF components_vars
<1>2. CASE ComponentsNext
  BY <1>2 DEF ComponentsNext, BatcherStep, AgentStep, WorkflowStep, NetworkStep, ProfileStep
<1>3. QED
  BY <1>1, <1>2

LEMMA WorkflowStarts == Driven!Init => W!Init
BY DEF Driven!Init, W!Init, Driven!NotStored, W!NotStored, Driven!Idle, W!Idle, Driven!StepNames,
       W!StepNames, Driven!NoResults, W!NoResults

LEMMA WorkflowSteps == [Driven!Next]_workflow_vars => [W!Next]_(W!workflow_vars)
<1>1. W!workflow_vars = workflow_vars
  BY DEF W!workflow_vars, workflow_vars
<1>2. Driven!Next => W!Next
  BY DEF Driven!Next, W!Next, Driven!Loop, W!Loop, Driven!RunAsync, W!RunAsync, Driven!Claim,
         W!Claim, Driven!Read, W!Read, Driven!Recover, W!Recover, Driven!Refuse, W!Refuse,
         Driven!Pause, W!Pause, Driven!Resume, W!Resume, Driven!Cancel, W!Cancel,
         Driven!CleanupCompleted, W!CleanupCompleted, Driven!Crash, W!Crash, Driven!SaveStart,
         W!SaveStart, Driven!Detach, W!Detach, Driven!Announce, W!Announce, Driven!Cancelled,
         W!Cancelled, Driven!TakePause, W!TakePause, Driven!Pausing, W!Pausing, Driven!Told,
         W!Told, Driven!TakeResume, W!TakeResume, Driven!Resuming, W!Resuming, Driven!Retold,
         W!Retold, Driven!Proceed, W!Proceed, Driven!Skip, W!Skip, Driven!Dispatch, W!Dispatch,
         Driven!Started, W!Started, Driven!Execute, W!Execute, Driven!Completed, W!Completed,
         Driven!StepFailed, W!StepFailed, Driven!Finished, W!Finished, Driven!Failing, W!Failing,
         Driven!End, W!End, Driven!Ending, W!Ending, Driven!Close, W!Close, Driven!Attach,
         W!Attach, Driven!Idle, W!Idle, Driven!Free, W!Free, Driven!Active, W!Active,
         Driven!Doubtful, W!Doubtful, Driven!StepNames, W!StepNames, Driven!Terminal, W!Terminal,
         Driven!Persist, W!Persist, Driven!CallBack, W!CallBack, Driven!SetStatus, W!SetStatus,
         Driven!Next1, W!Next1, Driven!FailExecution, W!FailExecution, Driven!NoResults,
         W!NoResults, Driven!Accepts, W!Accepts, Driven!Image, W!Image
<1>3. QED
  BY <1>1, <1>2 DEF W!workflow_vars, workflow_vars

LEMMA NetworkStarts == Network!Init => N!Init
BY DEF Network!Init, N!Init, Network!Resting, N!Resting, Network!Idle, N!Idle

LEMMA NetworkSteps == [Network!Next]_net_vars => [N!Next]_(N!network_vars)
<1>1. N!network_vars = net_vars
  BY DEF N!network_vars, net_vars
<1>2. Network!Next => N!Next
  BY DEF Network!Next, N!Next, Network!Register, N!Register, Network!Unregister, N!Unregister,
         Network!Silence, N!Silence, Network!Consume, N!Consume, Network!Begin, N!Begin,
         Network!Expire, N!Expire, Network!CallerStep, N!CallerStep, Network!Start, N!Start,
         Network!End, N!End, Network!RouterStep, N!RouterStep, Network!Stop, N!Stop,
         Network!StopRouter, N!StopRouter, Network!StopNodes, N!StopNodes, Network!Free, N!Free,
         Network!state, N!state, Network!Resting, N!Resting, Network!Seen, N!Seen, Network!places,
         N!places, Network!Returns, N!Returns, Network!Enter, N!Enter, Network!Enqueue, N!Enqueue,
         Network!Find, N!Find, Network!Put, N!Put, Network!Receive, N!Receive, Network!Goes,
         N!Goes, Network!Launch, N!Launch, Network!Take, N!Take, Network!Match, N!Match,
         Network!Dispatch, N!Dispatch, Network!Handle, N!Handle, Network!Locate, N!Locate,
         Network!Respond, N!Respond, Network!Readable, N!Readable, Network!Moves, N!Moves,
         Network!Sent, N!Sent, Network!Past, N!Past, Network!Takes, N!Takes, Network!Filled,
         N!Filled, Network!Matches, N!Matches, Network!Handled, N!Handled, Network!Rests, N!Rests,
         Network!Idle, N!Idle
<1>3. QED
  BY <1>1, <1>2 DEF N!network_vars, net_vars

\* The constants are as the components' own modules want them.
LEMMA ConstantsFit == W!Kept /\ N!NetworkConstants
BY ComponentsConstants
   DEF W!Kept, W!WorkflowConstants, Driven!WorkflowConstants, N!NetworkConstants,
       Network!NetworkConstants

\* What runs here is a workflow and a network as their modules specify them.
LEMMA SpecsFit == ComponentsSpec => W!Spec /\ N!Spec
<1>1. ComponentsInit => W!Init /\ N!Init
  BY WorkflowStarts, NetworkStarts DEF ComponentsInit, OthersInit
<1>2. [ComponentsNext]_components_vars =>
        [W!Next]_(W!workflow_vars) /\ [N!Next]_(N!network_vars)
  BY Projections, WorkflowSteps, NetworkSteps
<1>3. QED
  BY <1>1, <1>2, PTL DEF ComponentsSpec, W!Spec, N!Spec

\* The batcher's and the agent server's invariants hold of every run.
LEMMA OwnInvariants == ComponentsSpec => [](BatchInv /\ AgentInv)
<1>1. ComponentsInit => BatchInv /\ AgentInv
  BY BatchInit, AgentInit DEF ComponentsInit, OthersInit
<1>2. ASSUME BatchInv, AgentInv, [ComponentsNext]_components_vars
      PROVE  BatchInv' /\ AgentInv'
  <2>1. [Batching!Next]_batcher_vars /\ [A2A!Next]_a2a_vars
    BY <1>2, Projections
  <2>2. ASSUME UNCHANGED batcher_vars PROVE BatchInv'
    <3>1. /\ UNCHANGED <<caller, queue, batch, batchChan, worker, called>>
          /\ collector' = collector
      BY <2>2 DEF batcher_vars
    <3>2. collector \in {"flushing", "drainFlushing"} => batch # <<>>
      BY <1>2 DEF BatchInv, Grouped
    <3>3. QED
      BY <1>2, <3>1, <3>2, CollectorMoves
  <2>3. ASSUME UNCHANGED a2a_vars PROVE AgentInv'
    <3>1. UNCHANGED <<task, exec, req, work>>
      BY <2>3 DEF a2a_vars
    <3>2. QED
      BY <1>2, <3>1, TaskStays, RequestsStay
  <2>4. BatchInv'
    BY <1>2, <2>1, <2>2, BatchNext
  <2>5. AgentInv'
    BY <1>2, <2>1, <2>3, AgentNext
  <2>6. QED
    BY <2>4, <2>5
<1>3. QED
  BY <1>1, <1>2, PTL DEF ComponentsSpec

\* One worker at most runs for a task, whatever its request has timed out of, lost or
\* stopped streaming.
THEOREM TasksHaveOneWorker == ComponentsSpec => []OneWorkerPerTask
<1>1. AgentInv => OneWorkerPerTask
  <2>1. SUFFICES ASSUME AgentInv, NEW q \in work, NEW r \in work, req[q].task = req[r].task
                 PROVE  q = r
    BY DEF OneWorkerPerTask, A2A!OneWorkerPerTask
  <2>2. \A p \in work : exec[req[p].task] = p
    BY <2>1 DEF AgentInv, OneExecution
  <2>3. QED
    BY <2>1, <2>2
<1>2. QED
  BY <1>1, OwnInvariants, PTL

\* A stored end is final: of a task, under every interleaving of its requests, their
\* cancellation and eviction, and of an execution, under its drivers and recoveries.
THEOREM StoredEndsStay == ComponentsSpec => EndsAreFinal
<1>1. AgentInv /\ [ComponentsNext]_components_vars =>
        [\A t \in Served : task[t] \in A2A!Terminal => task'[t] \in {task[t], "gone"}]_a2a_vars
  <2>1. ASSUME AgentInv, A2A!Next
        PROVE  \A t \in Served : task[t] \in A2A!Terminal => task'[t] \in {task[t], "gone"}
    BY <2>1, AgentNext DEF Ended
  <2>2. QED
    BY <2>1, Projections
<1>2. ComponentsSpec => A2A!TerminalIsFinal
  <2>1. A2A!a2a_vars = a2a_vars
    BY DEF A2A!a2a_vars, a2a_vars
  <2>2. AgentInv /\ [ComponentsNext]_components_vars =>
          [\A t \in Served : task[t] \in A2A!Terminal => task'[t] \in {task[t], "gone"}]_(A2A!a2a_vars)
    BY <1>1 DEF A2A!a2a_vars, a2a_vars
  <2>3. QED
    BY <2>2, OwnInvariants, PTL DEF ComponentsSpec, A2A!TerminalIsFinal
<1>3. ComponentsSpec => Driven!EndIsFinal
  <2>1. [stored.status \in W!Terminal => UNCHANGED stored]_(W!workflow_vars)
          => [stored.status \in Driven!Terminal => UNCHANGED stored]_(Driven!workflow_vars)
    BY DEF W!Terminal, Driven!Terminal, W!workflow_vars, Driven!workflow_vars
  <2>2. ComponentsSpec => W!EndIsFinal
    BY SpecsFit, ConstantsFit, W!EndsStay
  <2>3. QED
    BY <2>1, <2>2, PTL DEF W!EndIsFinal, Driven!EndIsFinal
<1>4. QED
  BY <1>2, <1>3, PTL DEF EndsAreFinal

\* Whoever waits for the batcher is on its way to an answer once, whoever has one had the
\* callback before it; what the network has accepted is in one place, and nobody sends on
\* its closed queue.
THEOREM RequestsAndMessagesStay == ComponentsSpec => []NothingIsLost
<1>1. BatchInv => Batching!NothingIsLost
  BY TrackedIsCounted
<1>2. N!AcceptedIsKept /\ N!NoSendOnClosed => Network!AcceptedIsKept /\ Network!NoSendOnClosed
  BY DEF N!AcceptedIsKept, Network!AcceptedIsKept, N!NoSendOnClosed, Network!NoSendOnClosed,
         N!Cardinality, Network!Cardinality
<1>3. ComponentsSpec => []N!AcceptedIsKept /\ []N!NoSendOnClosed
  BY SpecsFit, ConstantsFit, N!AcceptedMessagesStay, N!SendersFindItOpen
<1>4. Batching!NothingIsLost /\ Network!AcceptedIsKept /\ Network!NoSendOnClosed
        => NothingIsLost
  BY DEF NothingIsLost
<1>5. QED
  BY <1>1, <1>2, <1>3, <1>4, OwnInvariants, PTL

\* Under the durable driver an unsafe step takes effect once, completion is earned and
\* waiters are told what is stored, for any workflow and any workers.
THEOREM DrivenWorkflowsAreSafe == ComponentsSpec => []DrivenIsSafe
<1>1. W!StepsRunOnce /\ W!CompletedIsEarned /\ W!WaitersAreToldTheTruth => DrivenIsSafe
  BY DEF W!StepsRunOnce, Driven!StepsRunOnce, W!CompletedIsEarned, Driven!CompletedIsEarned,
         W!WaitersAreToldTheTruth, Driven!WaitersAreToldTheTruth, W!StepNames, Driven!StepNames,
         W!Terminal, Driven!Terminal, DrivenIsSafe
<1>2. ComponentsSpec => []W!StepsRunOnce /\ []W!CompletedIsEarned /\ []W!WaitersAreToldTheTruth
  BY SpecsFit, ConstantsFit, W!UnsafeStepsHappenOnce, W!CompletionIsEarned, W!WaitersAreTold
<1>3. QED
  BY <1>1, <1>2, PTL
=============================================================================
