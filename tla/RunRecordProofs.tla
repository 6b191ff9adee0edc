-------------------------- MODULE RunRecordProofs --------------------------
(***************************************************************************)
(* Lemmas about the transitions of RunRecord, for whoever owns a run: what *)
(* they make of a record and which of its fields they leave alone.         *)
(***************************************************************************)
EXTENDS RunRecord, TLAPS

-----------------------------------------------------------------------------
\* Every transition of RunRecord maps records to records.

LEMMA AbsentRunType == AbsentRun \in RunRecords /\ EmptyRequest \in Requests
BY DEF AbsentRun, EmptyRequest, RunRecords, Requests, Activations, Results, InboundInputs,
       WaitingSets, NoActivation, NoResult, NoInput, Undeclared, Statuses, Terminal,
       TaskStatuses, OperationStatuses

\* The fields of a record, for the steps that rebuild one.
LEMMA RecordFields ==
  ASSUME NEW r \in RunRecords
  PROVE  /\ r.status \in Statuses \cup {"absent"} /\ r.revision \in Nat
         /\ r.owner \in Workers \cup {NoOwner} /\ r.fence \in Nat /\ r.lease \in Nat
         /\ r.wake \in Nat /\ r.waiting \in WaitingSets
         /\ r.snapshot \in Snapshots \cup {NoSnapshot} /\ r.sequence \in Nat
         /\ r.activations \in [Tasks -> Activations] /\ r.tasks \in [Tasks -> Results]
         /\ r.inputs \in [Inputs -> InboundInputs]
         /\ r.operations \in [Operations -> OperationStatuses \cup {"absent"}]
         /\ r.artifacts \in [Artifacts -> 0..3]
         /\ r = [status |-> r.status, revision |-> r.revision, owner |-> r.owner,
                 fence |-> r.fence, lease |-> r.lease, wake |-> r.wake,
                 waiting |-> r.waiting, snapshot |-> r.snapshot, sequence |-> r.sequence,
                 activations |-> r.activations, tasks |-> r.tasks, inputs |-> r.inputs,
                 operations |-> r.operations, artifacts |-> r.artifacts]
BY DEF RunRecords

LEMMA CommittedType ==
  ASSUME NEW r \in RunRecords, NEW q \in Requests
  PROVE  Committed(r, q) \in RunRecords
<1>1. Activated(r, q) \in [Tasks -> Activations]
  BY DEF Activated, RunRecords, Requests
<1>2. Saved(r, q) \in [Tasks -> Results]
  BY DEF Saved, RunRecords, Requests
<1>3. Adopted(r, q) \in [Tasks -> Results]
  BY <1>2 DEF Adopted, Results, RunRecords
<1>4. Consumed(r, q) \in [Inputs -> InboundInputs]
  BY DEF Consumed, InboundInputs, RunRecords
<1>5. NextStatus(r, q) \in Statuses \cup {"absent"}
  BY DEF NextStatus, RequestedStatus, RunRecords, Requests, Statuses
<1>6. NextWaiting(r, q) \in WaitingSets
  BY DEF NextWaiting, RunRecords, Requests
<1> DEFINE ops == [o \in Operations |->
               IF q.operations[o] = "absent" THEN r.operations[o] ELSE q.operations[o]]
           arts == [a \in Artifacts |->
               IF q.artifacts[a] = 0 THEN r.artifacts[a] ELSE q.artifacts[a]]
           snap == IF q.snapshot = NoSnapshot THEN r.snapshot ELSE q.snapshot
           wake == IF q.rewake THEN q.wake ELSE r.wake
<1>7. /\ ops \in [Operations -> OperationStatuses \cup {"absent"}]
      /\ arts \in [Artifacts -> 0..3]
      /\ snap \in Snapshots \cup {NoSnapshot} /\ wake \in Nat
      /\ r.revision + 1 \in Nat /\ r.sequence + q.events \in Nat
  BY RecordFields DEF Requests
<1>8. Committed(r, q) =
        [status |-> NextStatus(r, q), revision |-> r.revision + 1, owner |-> r.owner,
         fence |-> r.fence, lease |-> r.lease, wake |-> wake,
         waiting |-> NextWaiting(r, q), snapshot |-> snap,
         sequence |-> r.sequence + q.events, activations |-> Activated(r, q),
         tasks |-> Adopted(r, q), inputs |-> Consumed(r, q), operations |-> ops,
         artifacts |-> arts]
  BY DEF Committed
<1>9. QED
  <2> HIDE DEF ops, arts, snap, wake
  <2> QED
    BY <1>1, <1>3, <1>4, <1>5, <1>6, <1>7, <1>8, RecordFields DEF RunRecords

\* Updating one field of a record with a value of its type.
LEMMA FieldUpdate ==
  ASSUME NEW r \in RunRecords
  PROVE  /\ \A x \in Statuses \cup {"absent"} : [r EXCEPT !.status = x] \in RunRecords
         /\ \A x \in Nat : [r EXCEPT !.revision = x] \in RunRecords
         /\ \A x \in Workers : [r EXCEPT !.owner = x] \in RunRecords
         /\ \A x \in Nat : [r EXCEPT !.fence = x] \in RunRecords
         /\ \A x \in Nat : [r EXCEPT !.lease = x] \in RunRecords
         /\ \A x \in Nat : [r EXCEPT !.wake = x] \in RunRecords
         /\ \A x \in Nat : [r EXCEPT !.sequence = x] \in RunRecords
         /\ \A x \in [Inputs -> InboundInputs] : [r EXCEPT !.inputs = x] \in RunRecords
<1>1. \A x \in Statuses \cup {"absent"} : [r EXCEPT !.status = x] \in RunRecords
  BY DEF RunRecords
<1>2. \A x \in Nat : [r EXCEPT !.revision = x] \in RunRecords
  BY DEF RunRecords
<1>3. \A x \in Workers : [r EXCEPT !.owner = x] \in RunRecords
  BY DEF RunRecords
<1>4. \A x \in Nat : [r EXCEPT !.fence = x] \in RunRecords
  BY DEF RunRecords
<1>5. \A x \in Nat : [r EXCEPT !.lease = x] \in RunRecords
  BY DEF RunRecords
<1>6. \A x \in Nat : [r EXCEPT !.wake = x] \in RunRecords
  BY DEF RunRecords
<1>7. \A x \in Nat : [r EXCEPT !.sequence = x] \in RunRecords
  BY DEF RunRecords
<1>8. \A x \in [Inputs -> InboundInputs] : [r EXCEPT !.inputs = x] \in RunRecords
  BY DEF RunRecords
<1>9. QED
  BY <1>1, <1>2, <1>3, <1>4, <1>5, <1>6, <1>7, <1>8

LEMMA SchedulingType ==
  ASSUME NEW r \in RunRecords
  PROVE  /\ \A i \in Inputs : Submitted(i) \in RunRecords
         /\ \A i \in Inputs, x \in Targets \cup {NoTarget} : Signalled(r, i, x) \in RunRecords
         /\ \A w \in Workers, ttl \in Nat : Claimed(r, w, ttl) \in RunRecords
         /\ \A ttl \in Nat : Renewed(r, ttl) \in RunRecords
         /\ Released(r) \in RunRecords
         /\ Cancelled(r) \in RunRecords
         /\ Aged(r) \in RunRecords
<1> Statuses = {"queued", "running", "waiting", "succeeded", "failed", "cancelled"}
  BY DEF Statuses, Terminal
<1>1. ASSUME NEW i \in Inputs PROVE Submitted(i) \in RunRecords
  <2> DEFINE a == [AbsentRun EXCEPT !.status = "queued"]
  <2>1. a \in RunRecords
    BY AbsentRunType, FieldUpdate
  <2>2. [a.inputs EXCEPT ![i].accepted = TRUE] \in [Inputs -> InboundInputs]
    <3>1. a.inputs \in [Inputs -> InboundInputs]
      BY <2>1, RecordFields
    <3>2. QED
      BY <3>1 DEF InboundInputs
  <2>3. Submitted(i) = [a EXCEPT !.inputs = [a.inputs EXCEPT ![i].accepted = TRUE]]
    BY DEF Submitted
  <2>4. QED
    <3> DEFINE inputs == [a.inputs EXCEPT ![i].accepted = TRUE]
    <3>1. inputs \in [Inputs -> InboundInputs] /\ Submitted(i) = [a EXCEPT !.inputs = inputs]
      BY <2>2, <2>3
    <3> HIDE DEF a, inputs
    <3> QED  BY <2>1, <3>1, FieldUpdate
<1>2. ASSUME NEW i \in Inputs, NEW x \in Targets \cup {NoTarget}
      PROVE  Signalled(r, i, x) \in RunRecords
  <2> DEFINE input == [accepted |-> TRUE, target |-> x, consumed |-> 0]
             status == IF r.status = "waiting" THEN "queued" ELSE r.status
             wake == IF r.status = "waiting" THEN 0 ELSE r.wake
             inputs == [r.inputs EXCEPT ![i] = input]
  <2>1. input \in InboundInputs
    BY DEF InboundInputs
  <2>2. inputs \in [Inputs -> InboundInputs]
    <3> HIDE DEF input
    <3> QED  BY <2>1, RecordFields
  <2>3. status \in Statuses \cup {"absent"} /\ wake \in Nat
    BY RecordFields
  <2>4. Signalled(r, i, x) = [[[r EXCEPT !.inputs = inputs] EXCEPT !.status = status]
                                EXCEPT !.wake = wake]
    BY DEF Signalled
  <2>5. [r EXCEPT !.inputs = inputs] \in RunRecords
    <3> HIDE DEF inputs
    <3> QED  BY <2>2, FieldUpdate
  <2> DEFINE a == [r EXCEPT !.inputs = inputs]
             b == [a EXCEPT !.status = status]
  <2>6. b \in RunRecords
    <3>1. a \in RunRecords
      BY <2>5
    <3> HIDE DEF a, status
    <3>2. QED
      BY <2>3, <3>1, FieldUpdate
  <2>7. [b EXCEPT !.wake = wake] \in RunRecords
    <3> HIDE DEF b, wake
    <3> QED  BY <2>3, <2>6, FieldUpdate
  <2> QED
    BY <2>4, <2>7
<1>3. ASSUME NEW w \in Workers, NEW ttl \in Nat PROVE Claimed(r, w, ttl) \in RunRecords
  <2> DEFINE a == [r EXCEPT !.owner = w]
             b == [a EXCEPT !.fence = r.fence + 1]
             c == [b EXCEPT !.lease = ttl]
             d == [c EXCEPT !.status = "running"]
             e == [d EXCEPT !.wake = 0]
  <2>1. Claimed(r, w, ttl) = e
    BY DEF Claimed
  <2>2. a \in RunRecords
    BY FieldUpdate
  <2>3. b \in RunRecords
    <3> HIDE DEF a
    <3>1. r.fence + 1 \in Nat
      BY RecordFields
    <3>2. QED  BY <2>2, <3>1, FieldUpdate
  <2>4. c \in RunRecords
    <3> HIDE DEF b
    <3> QED  BY <2>3, FieldUpdate
  <2>5. d \in RunRecords
    <3> HIDE DEF c
    <3> QED  BY <2>4, FieldUpdate
  <2>6. e \in RunRecords
    <3> HIDE DEF d
    <3> QED  BY <2>5, FieldUpdate
  <2>7. QED
    BY <2>1, <2>6
<1>4. ASSUME NEW ttl \in Nat PROVE Renewed(r, ttl) \in RunRecords
  BY FieldUpdate DEF Renewed
<1>5. Released(r) \in RunRecords
  <2> DEFINE status == IF r.status = "running" THEN "queued" ELSE r.status
             a == [r EXCEPT !.lease = 0]
  <2>1. Released(r) = [a EXCEPT !.status = status]
    BY DEF Released
  <2>2. a \in RunRecords
    BY FieldUpdate
  <2>3. status \in Statuses \cup {"absent"}
    BY RecordFields
  <2> QED
    <3> HIDE DEF a, status
    <3> QED  BY <2>1, <2>2, <2>3, FieldUpdate
<1>6. Cancelled(r) \in RunRecords
  <2> DEFINE a == [r EXCEPT !.status = "cancelled"]
             b == [a EXCEPT !.lease = 0]
             c == [b EXCEPT !.fence = r.fence + 1]
             d == [c EXCEPT !.revision = r.revision + 1]
             e == [d EXCEPT !.sequence = r.sequence + 1]
  <2>1. Cancelled(r) = e
    BY DEF Cancelled
  <2>2. a \in RunRecords
    BY FieldUpdate
  <2>3. b \in RunRecords
    <3> HIDE DEF a
    <3> QED  BY <2>2, FieldUpdate
  <2>4. c \in RunRecords
    <3> HIDE DEF b
    <3>1. r.fence + 1 \in Nat
      BY RecordFields
    <3>2. QED  BY <2>3, <3>1, FieldUpdate
  <2>5. d \in RunRecords
    <3> HIDE DEF c
    <3>1. r.revision + 1 \in Nat
      BY RecordFields
    <3>2. QED  BY <2>4, <3>1, FieldUpdate
  <2>6. e \in RunRecords
    <3> HIDE DEF d
    <3>1. r.sequence + 1 \in Nat
      BY RecordFields
    <3>2. QED  BY <2>5, <3>1, FieldUpdate
  <2>7. QED
    BY <2>1, <2>6
<1>7. Aged(r) \in RunRecords
  <2> DEFINE l == IF r.lease > 0 THEN r.lease - 1 ELSE 0
             k == IF r.wake > 1 THEN r.wake - 1 ELSE r.wake
             a == [r EXCEPT !.lease = l]
  <2>1. Aged(r) = [a EXCEPT !.wake = k]
    BY DEF Aged
  <2>2. r.lease \in Nat /\ r.wake \in Nat
    BY RecordFields
  <2>3. l \in Nat /\ k \in Nat
    BY <2>2
  <2>4. a \in RunRecords
    <3> HIDE DEF l
    <3> QED  BY <2>3, FieldUpdate
  <2>5. QED
    <3> HIDE DEF a, k
    <3> QED  BY <2>1, <2>3, <2>4, FieldUpdate
<1>8. QED
  BY <1>1, <1>2, <1>3, <1>4, <1>5, <1>6, <1>7
-----------------------------------------------------------------------------
\* What each transition does to the fields the invariants speak of.

LEMMA SchedulingFields ==
  ASSUME NEW r \in RunRecords
  PROVE  /\ \A w, n : /\ Claimed(r, w, n).status = "running"
                      /\ Claimed(r, w, n).owner = w
                      /\ Claimed(r, w, n).fence = r.fence + 1
                      /\ Claimed(r, w, n).lease = n
                      /\ Claimed(r, w, n).revision = r.revision
                      /\ Claimed(r, w, n).sequence = r.sequence
         /\ \A n : /\ Renewed(r, n).status = r.status
                   /\ Renewed(r, n).owner = r.owner
                   /\ Renewed(r, n).fence = r.fence
                   /\ Renewed(r, n).lease = n
                   /\ Renewed(r, n).revision = r.revision
                   /\ Renewed(r, n).sequence = r.sequence
         /\ Released(r).status = (IF r.status = "running" THEN "queued" ELSE r.status)
         /\ Released(r).owner = r.owner /\ Released(r).fence = r.fence
         /\ Released(r).lease = 0 /\ Released(r).revision = r.revision
         /\ Released(r).sequence = r.sequence
         /\ Cancelled(r).status = "cancelled" /\ Cancelled(r).fence = r.fence + 1
         /\ Cancelled(r).owner = r.owner /\ Cancelled(r).lease = 0
         /\ Cancelled(r).revision = r.revision + 1
         /\ Cancelled(r).sequence = r.sequence + 1
         /\ Aged(r).status = r.status /\ Aged(r).owner = r.owner
         /\ Aged(r).fence = r.fence /\ Aged(r).revision = r.revision
         /\ Aged(r).sequence = r.sequence
         /\ Aged(r).lease = (IF r.lease > 0 THEN r.lease - 1 ELSE 0)
<1>1. ASSUME NEW w, NEW n
      PROVE  /\ Claimed(r, w, n).status = "running" /\ Claimed(r, w, n).owner = w
             /\ Claimed(r, w, n).fence = r.fence + 1 /\ Claimed(r, w, n).lease = n
             /\ Claimed(r, w, n).revision = r.revision
             /\ Claimed(r, w, n).sequence = r.sequence
  BY DEF Claimed, RunRecords
<1>2. ASSUME NEW n
      PROVE  /\ Renewed(r, n).status = r.status /\ Renewed(r, n).owner = r.owner
             /\ Renewed(r, n).fence = r.fence /\ Renewed(r, n).lease = n
             /\ Renewed(r, n).revision = r.revision
             /\ Renewed(r, n).sequence = r.sequence
  BY DEF Renewed, RunRecords
<1>3. /\ Released(r).status = (IF r.status = "running" THEN "queued" ELSE r.status)
      /\ Released(r).owner = r.owner /\ Released(r).fence = r.fence
      /\ Released(r).lease = 0 /\ Released(r).revision = r.revision
      /\ Released(r).sequence = r.sequence
  BY DEF Released, RunRecords
<1>4. /\ Cancelled(r).status = "cancelled" /\ Cancelled(r).fence = r.fence + 1
      /\ Cancelled(r).owner = r.owner /\ Cancelled(r).lease = 0
      /\ Cancelled(r).revision = r.revision + 1
      /\ Cancelled(r).sequence = r.sequence + 1
  BY DEF Cancelled, RunRecords
<1>5. /\ Aged(r).status = r.status /\ Aged(r).owner = r.owner
      /\ Aged(r).fence = r.fence /\ Aged(r).revision = r.revision
      /\ Aged(r).sequence = r.sequence
      /\ Aged(r).lease = (IF r.lease > 0 THEN r.lease - 1 ELSE 0)
  BY DEF Aged, RunRecords
<1>6. QED
  BY <1>1, <1>2, <1>3, <1>4, <1>5

\* The facts that only a commit may change.
SameFacts(r, s) ==
  /\ s.waiting = r.waiting /\ s.snapshot = r.snapshot
  /\ s.activations = r.activations /\ s.tasks = r.tasks /\ s.inputs = r.inputs
  /\ s.operations = r.operations /\ s.artifacts = r.artifacts

LEMMA SchedulingFacts ==
  ASSUME NEW r \in RunRecords
  PROVE  /\ \A w, n : SameFacts(r, Claimed(r, w, n))
         /\ \A n : SameFacts(r, Renewed(r, n))
         /\ SameFacts(r, Released(r))
         /\ SameFacts(r, Cancelled(r))
         /\ SameFacts(r, Aged(r))
<1>1. \A w, n : SameFacts(r, Claimed(r, w, n))
  BY DEF SameFacts, Claimed, RunRecords
<1>2. \A n : SameFacts(r, Renewed(r, n))
  BY DEF SameFacts, Renewed, RunRecords
<1>3. SameFacts(r, Released(r))
  BY DEF SameFacts, Released, RunRecords
<1>4. SameFacts(r, Cancelled(r))
  BY DEF SameFacts, Cancelled, RunRecords
<1>5. SameFacts(r, Aged(r))
  BY DEF SameFacts, Aged, RunRecords
<1>6. QED
  BY <1>1, <1>2, <1>3, <1>4, <1>5

LEMMA SignalledFields ==
  ASSUME NEW r \in RunRecords
  PROVE  \A i, x :
           /\ Signalled(r, i, x).status =
                (IF r.status = "waiting" THEN "queued" ELSE r.status)
           /\ Signalled(r, i, x).owner = r.owner
           /\ Signalled(r, i, x).fence = r.fence
           /\ Signalled(r, i, x).lease = r.lease
           /\ Signalled(r, i, x).revision = r.revision
           /\ Signalled(r, i, x).sequence = r.sequence
           /\ Signalled(r, i, x).waiting = r.waiting
           /\ Signalled(r, i, x).snapshot = r.snapshot
           /\ Signalled(r, i, x).activations = r.activations
           /\ Signalled(r, i, x).tasks = r.tasks
           /\ Signalled(r, i, x).operations = r.operations
           /\ Signalled(r, i, x).artifacts = r.artifacts
BY DEF Signalled, RunRecords

LEMMA SignalledInputs ==
  ASSUME NEW r \in RunRecords, NEW i \in Inputs, NEW x \in Targets \cup {NoTarget}
  PROVE  Signalled(r, i, x).inputs =
           [r.inputs EXCEPT ![i] = [accepted |-> TRUE, target |-> x, consumed |-> 0]]
BY DEF Signalled, RunRecords

-----------------------------------------------------------------------------
\* What a commit leaves in the record.

LEMMA CommittedFields ==
  ASSUME NEW r \in RunRecords, NEW q \in Requests
  PROVE  /\ Committed(r, q).revision = r.revision + 1
         /\ Committed(r, q).owner = r.owner /\ Committed(r, q).fence = r.fence
         /\ Committed(r, q).snapshot =
              (IF q.snapshot = NoSnapshot THEN r.snapshot ELSE q.snapshot)
         /\ \A t \in Tasks : Committed(r, q).activations[t] =
              (IF q.activate[t].attempt = 0 THEN r.activations[t] ELSE q.activate[t])
<1>1. /\ Committed(r, q).revision = r.revision + 1
      /\ Committed(r, q).owner = r.owner /\ Committed(r, q).fence = r.fence
      /\ Committed(r, q).snapshot =
           (IF q.snapshot = NoSnapshot THEN r.snapshot ELSE q.snapshot)
      /\ Committed(r, q).activations = Activated(r, q)
  BY DEF Committed
<1>2. QED
  BY <1>1 DEF Activated

LEMMA CommittedTasks ==
  ASSUME NEW r \in RunRecords, NEW q \in Requests, NEW t \in Tasks
  PROVE  LET result == IF r.tasks[t].status = "absent" /\ q.results[t].status # "absent"
                       THEN q.results[t] ELSE r.tasks[t]
             task == Committed(r, q).tasks[t]
         IN /\ task.status = result.status /\ task.attempt = result.attempt
            /\ task.read = result.read
            /\ task.adopted = IF t \in q.adopt THEN r.revision + 1 ELSE result.adopted
<1> DEFINE result == IF r.tasks[t].status = "absent" /\ q.results[t].status # "absent"
                     THEN q.results[t] ELSE r.tasks[t]
<1>1. result \in Results
  BY RecordFields DEF Requests
<1>2. Saved(r, q)[t] = result
  BY DEF Saved
<1>3. Committed(r, q).tasks = Adopted(r, q)
  BY DEF Committed
<1>4. Committed(r, q).tasks[t] =
        IF t \in q.adopt THEN [result EXCEPT !.adopted = r.revision + 1] ELSE result
  BY <1>2, <1>3, Zenon DEF Adopted
<1>5. QED
  <2> HIDE DEF result
  <2>1. CASE t \in q.adopt
    <3>1. Committed(r, q).tasks[t] = [result EXCEPT !.adopted = r.revision + 1]
      BY <1>4, <2>1, Zenon
    <3>2. QED
      BY <1>1, <2>1, <3>1 DEF Results, result
  <2>2. CASE t \notin q.adopt
    BY <1>4, <2>2 DEF result
  <2>3. QED
    BY <2>1, <2>2
-----------------------------------------------------------------------------
(* The record as a ledger: what any of its transitions, whoever takes it,  *)
(* settles.  RunStore and DurableRunner refine RunLedger by it.            *)

\* Only what was accepted is consumed, and only what was recorded is adopted.
Factual(r) ==
  /\ \A i \in Inputs : r.inputs[i].consumed # 0 => r.inputs[i].accepted
  /\ \A t \in Tasks : r.tasks[t].adopted # 0 => r.tasks[t].status # "absent"

\* What the ledger sees of a record.
Phase(r)      == IF r.status = "absent" THEN "none" ELSE IF Live(r) THEN "open" ELSE "closed"
Accepts(r)    == {i \in Inputs : r.inputs[i].accepted}
Consumes(r)   == {i \in Inputs : r.inputs[i].consumed # 0}
Recordings(r) == [t \in Tasks |-> r.tasks[t].status]
Adopts(r)     == {t \in Tasks : r.tasks[t].adopted # 0}
Confirms(r)   == {o \in Operations : r.operations[o] = "succeeded"}

SameSettled(r, s) ==
  /\ s.revision = r.revision /\ Consumes(s) = Consumes(r)
  /\ Recordings(s) = Recordings(r) /\ Adopts(s) = Adopts(r)
  /\ Confirms(s) = Confirms(r) /\ s.artifacts = r.artifacts

\* The steps of RunLedger, and the one that is none.
Stutters(r, s) == Phase(s) = Phase(r) /\ Accepts(s) = Accepts(r) /\ SameSettled(r, s)

Opens(r, s) ==
  \E i \in Inputs : /\ Phase(r) = "none" /\ Phase(s) = "open"
                    /\ Accepts(s) = {i} /\ SameSettled(r, s)

AcceptsOne(r, s) ==
  \E i \in Inputs : /\ Phase(r) = "open" /\ Phase(s) = Phase(r) /\ i \notin Accepts(r)
                    /\ Accepts(s) = Accepts(r) \cup {i} /\ SameSettled(r, s)

Settles(r, s) ==
  /\ Phase(r) = "open" /\ Phase(s) \in {"open", "closed"}
  /\ s.revision = r.revision + 1 /\ Accepts(s) = Accepts(r)
  /\ \E C \in SUBSET (Accepts(r) \ Consumes(r)) : Consumes(s) = Consumes(r) \cup C
  /\ \A t \in Tasks : Recordings(r)[t] # "absent" => Recordings(s)[t] = Recordings(r)[t]
  /\ Recordings(s) \in [Tasks -> TaskStatuses \cup {"absent"}]
  /\ \E A \in SUBSET (Tasks \ Adopts(r)) :
       /\ \A t \in A : Recordings(s)[t] = "succeeded"
       /\ Adopts(s) = Adopts(r) \cup A
  /\ Confirms(r) \subseteq Confirms(s) /\ Confirms(s) \in SUBSET Operations
  /\ s.artifacts \in [Artifacts -> 0..3]
  /\ \A a \in Artifacts : s.artifacts[a] >= r.artifacts[a]

LedgerMove(r, s) == Stutters(r, s) \/ Opens(r, s) \/ AcceptsOne(r, s) \/ Settles(r, s)

\* The transitions, with what their guards say of facts.
Transition(r, s) ==
  \/ s = r \/ s = Aged(r) \/ s = Released(r)
  \/ \E n : s = Renewed(r, n)
  \/ \E w, n : ClaimOK(r) /\ s = Claimed(r, w, n)
  \/ CancelOK(r) /\ s = Cancelled(r)
  \/ \E i \in Inputs : r = AbsentRun /\ s = Submitted(i)
  \/ \E i \in Inputs, x \in Targets \cup {NoTarget} : SignalOK(r, i, x) /\ s = Signalled(r, i, x)
  \/ \E q \in Requests : Live(r) /\ FactsOK(r, q) /\ s = Committed(r, q)

\* What the guards of a commit say of its request is what the ledger demands of its result.
LEMMA CommittedFacts ==
  ASSUME NEW r \in RunRecords, NEW q \in Requests, FactsOK(r, q), Live(r),
         Factual(r)
  PROVE  /\ \A i \in Inputs :
              /\ Consumed(r, q)[i].accepted = r.inputs[i].accepted
              /\ i \in q.consume => r.inputs[i].consumed = 0 /\ r.inputs[i].accepted
              /\ Consumed(r, q)[i].consumed # 0 <=>
                   r.inputs[i].consumed # 0 \/ i \in q.consume
         /\ \A t \in Tasks :
              /\ r.tasks[t].status # "absent" =>
                   Adopted(r, q)[t].status = r.tasks[t].status
              /\ t \in q.adopt => /\ r.tasks[t].adopted = 0
                                  /\ Adopted(r, q)[t].status = "succeeded"
              /\ Adopted(r, q)[t].adopted # 0 <=> r.tasks[t].adopted # 0 \/ t \in q.adopt
              /\ Adopted(r, q)[t].adopted # 0 => Adopted(r, q)[t].status # "absent"
<1> r.revision \in Nat /\ r.revision + 1 # 0
  BY RecordFields
<1>1. ASSUME NEW i \in Inputs
      PROVE  /\ Consumed(r, q)[i].accepted = r.inputs[i].accepted
             /\ i \in q.consume => r.inputs[i].consumed = 0 /\ r.inputs[i].accepted
             /\ Consumed(r, q)[i].consumed # 0 <=>
                  r.inputs[i].consumed # 0 \/ i \in q.consume
  <2>1. r.inputs[i] \in InboundInputs
    BY RecordFields
  <2>2. i \in q.consume => Pending(r.inputs[i])
    BY DEF FactsOK, ConsumeOK
  <2>3. QED
    BY <2>1, <2>2 DEF Consumed, Pending, InboundInputs
<1>2. ASSUME NEW t \in Tasks
      PROVE  /\ r.tasks[t].status # "absent" =>
                  Adopted(r, q)[t].status = r.tasks[t].status
             /\ t \in q.adopt => /\ r.tasks[t].adopted = 0
                                 /\ Adopted(r, q)[t].status = "succeeded"
             /\ Adopted(r, q)[t].adopted # 0 <=> r.tasks[t].adopted # 0 \/ t \in q.adopt
             /\ Adopted(r, q)[t].adopted # 0 => Adopted(r, q)[t].status # "absent"
  <2>1. r.tasks[t] \in Results /\ q.results[t] \in Results
    BY RecordFields DEF Requests
  <2> DEFINE saved == Saved(r, q)[t]
  <2>2. saved = IF r.tasks[t].status = "absent" /\ q.results[t].status # "absent"
                THEN q.results[t] ELSE r.tasks[t]
    BY DEF Saved
  <2>3. saved \in Results
    BY <2>1, <2>2
  <2>4. q.results[t].status # "absent" => q.results[t].adopted = 0
    BY DEF FactsOK, ResultOK
  <2>5. t \in q.adopt => saved.status = "succeeded" /\ saved.adopted = 0
    BY DEF FactsOK, AdoptOK
  <2>6. Adopted(r, q)[t] = IF t \in q.adopt THEN [saved EXCEPT !.adopted = r.revision + 1]
                           ELSE saved
    BY DEF Adopted
  <2>7. /\ Adopted(r, q)[t].status = saved.status
        /\ Adopted(r, q)[t].adopted = IF t \in q.adopt THEN r.revision + 1 ELSE saved.adopted
    <3> HIDE DEF saved
    <3> QED  BY <2>3, <2>6 DEF Results
  <2>8. saved.adopted # 0 <=> r.tasks[t].adopted # 0
    BY <2>2, <2>4 DEF Factual
  <2>9. saved.adopted # 0 => saved.status # "absent"
    BY <2>2, <2>4 DEF Factual
  <2>10. r.tasks[t].status # "absent" => saved = r.tasks[t]
    BY <2>2
  <2> HIDE DEF saved
  <2>11. QED
    BY <2>5, <2>7, <2>8, <2>9, <2>10
<1>3. QED
  BY <1>1, <1>2

LEMMA FactualStays ==
  ASSUME NEW r, NEW s, Factual(r), SameFacts(r, s)
  PROVE  Factual(s)
BY DEF Factual, SameFacts

LEMMA SchedulingStutters ==
  ASSUME NEW r \in RunRecords, NEW s, Factual(r),
         \/ s = r \/ s = Aged(r) \/ s = Released(r)
         \/ \E n : s = Renewed(r, n)
         \/ \E w, n : ClaimOK(r) /\ s = Claimed(r, w, n)
  PROVE  Factual(s) /\ Stutters(r, s)
<1>1. SameFacts(r, s)
  BY SchedulingFacts DEF SameFacts
<1>2. s.revision = r.revision /\ Phase(s) = Phase(r)
  <2>1. CASE s = r \/ s = Aged(r) \/ \E n : s = Renewed(r, n)
    <3>1. s.revision = r.revision /\ s.status = r.status
      BY <2>1, SchedulingFields
    <3>2. QED
      BY <3>1 DEF Phase, Live
  <2>2. CASE s = Released(r)
    BY <2>2, SchedulingFields DEF Phase, Live, Terminal
  <2>3. CASE \E w, n : ClaimOK(r) /\ s = Claimed(r, w, n)
    BY <2>3, SchedulingFields DEF ClaimOK, Phase, Live, Terminal
  <2>4. QED
    BY <2>1, <2>2, <2>3
<1>3. Stutters(r, s)
  BY <1>1, <1>2 DEF Stutters, SameSettled, SameFacts, Accepts, Consumes, Recordings, Adopts,
                    Confirms
<1>4. QED
  BY <1>1, <1>3, FactualStays

LEMMA CancelSettles ==
  ASSUME NEW r \in RunRecords, Factual(r), CancelOK(r)
  PROVE  Factual(Cancelled(r)) /\ Settles(r, Cancelled(r))
<1> DEFINE s == Cancelled(r)
<1>1. /\ Live(r) /\ s.status = "cancelled" /\ s.revision = r.revision + 1 /\ SameFacts(r, s)
  BY SchedulingFields, SchedulingFacts DEF CancelOK
<1> HIDE DEF s
<1>2. Phase(r) = "open" /\ Phase(s) = "closed"
  BY <1>1 DEF Phase, Live, Terminal
<1>3. /\ r.tasks \in [Tasks -> Results] /\ r.artifacts \in [Artifacts -> 0..3]
  BY RecordFields
<1>4. /\ Recordings(s) = Recordings(r)
      /\ Recordings(s) \in [Tasks -> TaskStatuses \cup {"absent"}]
  BY <1>1, <1>3 DEF SameFacts, Recordings, Results
<1>5. /\ Accepts(s) = Accepts(r) /\ Consumes(s) = Consumes(r) \cup {}
      /\ Adopts(s) = Adopts(r) \cup {} /\ Confirms(s) = Confirms(r)
      /\ Confirms(s) \in SUBSET Operations /\ s.artifacts = r.artifacts
  BY <1>1 DEF SameFacts, Accepts, Consumes, Adopts, Confirms
<1>6. \A a \in Artifacts : s.artifacts[a] >= r.artifacts[a]
  BY <1>3, <1>5
<1>7. Settles(r, s)
  BY <1>1, <1>2, <1>3, <1>4, <1>5, <1>6 DEF Settles
<1>8. QED
  BY <1>1, <1>7, FactualStays DEF s

LEMMA SubmitOpens ==
  ASSUME NEW i \in Inputs
  PROVE  Factual(Submitted(i)) /\ Opens(AbsentRun, Submitted(i))
<1> DEFINE s == Submitted(i)
<1>1. /\ s.status = "queued" /\ s.revision = AbsentRun.revision /\ s.tasks = AbsentRun.tasks
      /\ s.operations = AbsentRun.operations /\ s.artifacts = AbsentRun.artifacts
      /\ s.inputs = [AbsentRun.inputs EXCEPT ![i].accepted = TRUE]
  BY DEF Submitted, AbsentRun
<1>2. /\ AbsentRun.status = "absent" /\ AbsentRun.inputs = [j \in Inputs |-> NoInput]
      /\ AbsentRun.tasks = [t \in Tasks |-> NoResult]
  BY DEF AbsentRun
<1> HIDE DEF s
<1>3. \A j \in Inputs : /\ s.inputs[j].consumed = 0 /\ AbsentRun.inputs[j].consumed = 0
                        /\ s.inputs[j].accepted <=> j = i
  BY <1>1, <1>2 DEF NoInput
<1>4. Phase(AbsentRun) = "none" /\ Phase(s) = "open"
  BY <1>1, <1>2 DEF Phase, Live, Terminal
<1>5. Accepts(s) = {i} /\ Consumes(s) = Consumes(AbsentRun)
  BY <1>3 DEF Accepts, Consumes
<1>6. SameSettled(AbsentRun, s)
  BY <1>1, <1>5 DEF SameSettled, Recordings, Adopts, Confirms
<1>7. Factual(s)
  BY <1>1, <1>2, <1>3 DEF Factual, NoResult
<1>8. QED
  BY <1>4, <1>5, <1>6, <1>7 DEF Opens, s

LEMMA SignalAccepts ==
  ASSUME NEW r \in RunRecords, Factual(r), NEW i \in Inputs, NEW x \in Targets \cup {NoTarget},
         SignalOK(r, i, x)
  PROVE  Factual(Signalled(r, i, x)) /\ AcceptsOne(r, Signalled(r, i, x))
<1> DEFINE s == Signalled(r, i, x)
<1>1. /\ Live(r) /\ ~r.inputs[i].accepted
      /\ s.status = (IF r.status = "waiting" THEN "queued" ELSE r.status)
      /\ s.revision = r.revision /\ s.tasks = r.tasks
      /\ s.operations = r.operations /\ s.artifacts = r.artifacts
  BY SignalledFields DEF SignalOK
<1>2. s.inputs = [r.inputs EXCEPT ![i] = [accepted |-> TRUE, target |-> x, consumed |-> 0]]
  BY SignalledInputs
<1> HIDE DEF s
<1>3. r.inputs \in [Inputs -> InboundInputs] /\ r.inputs[i].consumed = 0
  BY <1>1, RecordFields DEF Factual
<1>4. \A j \in Inputs : /\ s.inputs[j].consumed = r.inputs[j].consumed
                        /\ s.inputs[j].accepted <=> r.inputs[j].accepted \/ j = i
  BY <1>2, <1>3
<1>5. /\ Accepts(s) = Accepts(r) \cup {i} /\ i \notin Accepts(r) /\ Consumes(s) = Consumes(r)
  BY <1>1, <1>4 DEF Accepts, Consumes
<1>6. Phase(r) = "open" /\ Phase(s) = "open"
  BY <1>1 DEF Phase, Live, Terminal
<1>7. SameSettled(r, s)
  BY <1>1, <1>5 DEF SameSettled, Recordings, Adopts, Confirms
<1>8. Factual(s)
  BY <1>1, <1>4 DEF Factual
<1>9. QED
  BY <1>5, <1>6, <1>7, <1>8 DEF AcceptsOne, s

LEMMA CommitSettles ==
  ASSUME NEW r \in RunRecords, Factual(r), NEW q \in Requests, Live(r), FactsOK(r, q)
  PROVE  Factual(Committed(r, q)) /\ Settles(r, Committed(r, q))
<1> DEFINE s == Committed(r, q)
<1>1. s \in RunRecords
  BY CommittedType
<1>2. /\ s.status = NextStatus(r, q) /\ s.revision = r.revision + 1
      /\ s.tasks = Adopted(r, q) /\ s.inputs = Consumed(r, q)
      /\ s.operations = [o \in Operations |->
           IF q.operations[o] = "absent" THEN r.operations[o] ELSE q.operations[o]]
      /\ s.artifacts = [a \in Artifacts |->
           IF q.artifacts[a] = 0 THEN r.artifacts[a] ELSE q.artifacts[a]]
  BY DEF Committed
<1> HIDE DEF s
<1>3. Phase(r) = "open" /\ Phase(s) \in {"open", "closed"}
  <2>1. r.status # "absent" /\ s.status # "absent"
    BY <1>2 DEF NextStatus, RequestedStatus, Live, Requests, Statuses, Terminal
  <2>2. QED
    BY <2>1 DEF Phase
<1>4. /\ \A i \in Inputs :
           /\ s.inputs[i].accepted = r.inputs[i].accepted
           /\ i \in q.consume => r.inputs[i].consumed = 0 /\ r.inputs[i].accepted
           /\ s.inputs[i].consumed # 0 <=> r.inputs[i].consumed # 0 \/ i \in q.consume
      /\ \A t \in Tasks :
           /\ r.tasks[t].status # "absent" => s.tasks[t].status = r.tasks[t].status
           /\ t \in q.adopt => r.tasks[t].adopted = 0 /\ s.tasks[t].status = "succeeded"
           /\ s.tasks[t].adopted # 0 <=> r.tasks[t].adopted # 0 \/ t \in q.adopt
           /\ s.tasks[t].adopted # 0 => s.tasks[t].status # "absent"
  BY <1>2, CommittedFacts
<1>5. q.consume \subseteq Inputs /\ q.adopt \subseteq Tasks
  BY DEF Requests
<1>6. /\ Accepts(s) = Accepts(r)
      /\ q.consume \in SUBSET (Accepts(r) \ Consumes(r))
      /\ Consumes(s) = Consumes(r) \cup q.consume
  BY <1>4, <1>5 DEF Accepts, Consumes
<1>7. /\ Recordings(s) \in [Tasks -> TaskStatuses \cup {"absent"}]
      /\ \A t \in Tasks : Recordings(r)[t] # "absent" => Recordings(s)[t] = Recordings(r)[t]
  <2>1. \A t \in Tasks : s.tasks[t].status \in TaskStatuses \cup {"absent"}
    BY <1>1 DEF RunRecords, Results
  <2>2. QED
    BY <1>4, <2>1 DEF Recordings
<1>8. /\ q.adopt \in SUBSET (Tasks \ Adopts(r))
      /\ \A t \in q.adopt : Recordings(s)[t] = "succeeded"
      /\ Adopts(s) = Adopts(r) \cup q.adopt
  BY <1>4, <1>5 DEF Adopts, Recordings
<1>9. Confirms(r) \subseteq Confirms(s) /\ Confirms(s) \in SUBSET Operations
  BY <1>2 DEF FactsOK, OperationOK, Confirms
<1>10. /\ s.artifacts \in [Artifacts -> 0..3]
       /\ \A a \in Artifacts : s.artifacts[a] >= r.artifacts[a]
  <2>1. s.artifacts \in [Artifacts -> 0..3] /\ r.artifacts \in [Artifacts -> 0..3]
    BY <1>1, RecordFields
  <2>2. QED
    BY <1>2, <2>1 DEF FactsOK, ArtifactOK
<1>11. Settles(r, s)
  BY <1>2, <1>3, <1>6, <1>7, <1>8, <1>9, <1>10 DEF Settles
<1>12. Factual(s)
  <2>1. \A i \in Inputs : s.inputs[i].consumed # 0 => s.inputs[i].accepted
    BY <1>4 DEF Factual
  <2>2. QED
    BY <1>4, <2>1 DEF Factual
<1>13. QED
  BY <1>11, <1>12 DEF s

\* Whoever takes a transition, the record moves as the ledger allows.
LEMMA RecordIsLedger ==
  ASSUME NEW r \in RunRecords, NEW s, Factual(r), Transition(r, s)
  PROVE  Factual(s) /\ LedgerMove(r, s)
<1>1. CASE \/ s = r \/ s = Aged(r) \/ s = Released(r)
           \/ \E n : s = Renewed(r, n)
           \/ \E w, n : ClaimOK(r) /\ s = Claimed(r, w, n)
  BY <1>1, SchedulingStutters DEF LedgerMove
<1>2. CASE CancelOK(r) /\ s = Cancelled(r)
  BY <1>2, CancelSettles DEF LedgerMove
<1>3. CASE \E i \in Inputs : r = AbsentRun /\ s = Submitted(i)
  BY <1>3, SubmitOpens DEF LedgerMove
<1>4. CASE \E i \in Inputs, x \in Targets \cup {NoTarget} :
             SignalOK(r, i, x) /\ s = Signalled(r, i, x)
  BY <1>4, SignalAccepts DEF LedgerMove
<1>5. CASE \E q \in Requests : Live(r) /\ FactsOK(r, q) /\ s = Committed(r, q)
  BY <1>5, CommitSettles DEF LedgerMove
<1>6. QED
  BY <1>1, <1>2, <1>3, <1>4, <1>5 DEF Transition
=============================================================================
