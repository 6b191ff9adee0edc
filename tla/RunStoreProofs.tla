--------------------------- MODULE RunStoreProofs ---------------------------
(***************************************************************************)
(* Theorems about RunStore for every set of workers, tasks, inputs,        *)
(* targets and commit identities, and every lease.                         *)
(***************************************************************************)
EXTENDS RunStore, RunRecordProofs

-----------------------------------------------------------------------------
\* Whatever a worker believes, the requests it freezes are well formed.
LEMMA FreezeType ==
  ASSUME TypeOK, BoundAssumption, NEW w \in Workers, NEW c \in CommitIds, Freeze(w, c)
  PROVE  \E q \in Requests : Seal(c, q)
<1> Statuses = {"queued", "running", "waiting", "succeeded", "failed", "cancelled"}
  BY DEF Statuses, Terminal
<1> DEFINE d == Draft(w)
<1>1. d \in Requests
  BY AbsentRunType DEF Draft, Requests, TypeOK
<1>2. ASSUME NEW t \in Tasks, NEW n \in 0..known[w] PROVE ActivateDraft(w, t, n) \in Requests
  <2>1. [attempt |-> held[w], read |-> n] \in Activations
    BY DEF Activations, TypeOK
  <2>2. QED
    BY <1>1, <2>1 DEF ActivateDraft, Requests
<1>3. ASSUME NEW t \in Tasks, NEW s \in TaskStatuses PROVE ResultDraft(w, t, s) \in Requests
  <2> DEFINE result == [status |-> s, attempt |-> run.activations[t].attempt,
                        read |-> run.activations[t].read, adopted |-> 0]
  <2>1. run.activations[t] \in Activations
    BY RecordFields DEF TypeOK
  <2>2. result \in Results
    BY <2>1 DEF Results, Activations
  <2> DEFINE e == [d EXCEPT !.events = 1]
  <2>3. ResultDraft(w, t, s) = [e EXCEPT !.results[t] = result]
    BY DEF ResultDraft
  <2>4. e \in Requests
    BY <1>1 DEF Requests
  <2>5. QED
    <3> HIDE DEF result, e
    <3> QED  BY <2>2, <2>3, <2>4 DEF Requests
<1>4. ASSUME NEW A \in SUBSET Tasks, NEW C \in SUBSET Inputs, NEW x \in Snapshots,
             NEW s \in Statuses, NEW T \in SUBSET Targets
      PROVE  SaveDraft(w, A, C, x, s, T) \in Requests
  <2> DEFINE a == [d EXCEPT !.events = 1, !.adopt = A, !.consume = C]
             b == [a EXCEPT !.snapshot = x, !.status = s]
             ws == [declared |-> TRUE, targets |-> T]
  <2>1. SaveDraft(w, A, C, x, s, T) = [b EXCEPT !.waiting = ws]
    BY DEF SaveDraft
  <2>2. a \in Requests
    <3> HIDE DEF d
    <3> QED  BY <1>1 DEF Requests
  <2>3. b \in Requests
    <3> HIDE DEF a
    <3> QED  BY <2>2 DEF Requests
  <2>4. ws \in WaitingSets
    BY DEF WaitingSets
  <2>5. QED
    <3> HIDE DEF b, ws
    <3> QED  BY <2>1, <2>3, <2>4 DEF Requests
<1>5. ASSUME NEW s \in Statuses PROVE FinishDraft(w, s) \in Requests
  BY <1>1 DEF FinishDraft, Requests
<1>6. ASSUME NEW n \in 1..MaxWake PROVE SleepDraft(w, n) \in Requests
  <2>1. n \in Nat
    BY BoundAssumption
  <2> DEFINE a == [d EXCEPT !.events = 1, !.status = "waiting"]
  <2>2. a \in Requests
    BY <1>1 DEF Requests
  <2>3. SleepDraft(w, n) = [a EXCEPT !.rewake = TRUE, !.wake = n]
    BY DEF SleepDraft
  <2>4. QED
    <3> HIDE DEF a
    <3> QED  BY <2>1, <2>2, <2>3 DEF Requests
<1>7. ASSUME NEW o \in Operations, NEW s \in OperationStatuses
      PROVE  OperationDraft(w, o, s) \in Requests
  BY <1>1 DEF OperationDraft, Requests
<1>8. ASSUME NEW a \in Artifacts, NEW n \in 1..3 PROVE ArtifactDraft(w, a, n) \in Requests
  BY <1>1 DEF ArtifactDraft, Requests
<1>9. \A T : SaveStatuses(T) \subseteq Statuses
  BY DEF SaveStatuses
<1>10. {"waiting", "failed", "cancelled"} \subseteq Statuses
  OBVIOUS
<1>11. QED
  BY <1>2, <1>3, <1>4, <1>5, <1>6, <1>7, <1>8, <1>9, <1>10 DEF Freeze

-----------------------------------------------------------------------------
LEMMA TypeStep ==
  ASSUME TypeOK, [Next]_vars
  PROVE  TypeOK'
<1>1. ASSUME NEW i \in Inputs, Submit(i) PROVE TypeOK'
  BY <1>1, SchedulingType, BoundAssumption DEF Submit, TypeOK
<1>2. ASSUME NEW i \in Inputs, NEW x \in Targets \cup {NoTarget}, Signal(i, x) PROVE TypeOK'
  BY <1>2, SchedulingType, BoundAssumption DEF Signal, TypeOK
<1>3. CASE Cancel
  BY <1>3, SchedulingType, BoundAssumption DEF Cancel, TypeOK
<1>4. ASSUME NEW w \in Workers, NEW b \in BOOLEAN, Claim(w, b) PROVE TypeOK'
  <2>1. run' \in RunRecords
    BY <1>4, SchedulingType, BoundAssumption DEF Claim, TypeOK
  <2>2. run.fence + 1 \in Nat /\ run.revision \in Nat
    BY DEF TypeOK, RunRecords
  <2>3. QED
    BY <1>4, <2>1, <2>2 DEF Claim, TypeOK
<1>5. ASSUME NEW w \in Workers, Renew(w) PROVE TypeOK'
  BY <1>5, SchedulingType, BoundAssumption DEF Renew, TypeOK
<1>6. ASSUME NEW w \in Workers, Release(w) PROVE TypeOK'
  <2>1. run' \in RunRecords
    BY <1>6, SchedulingType, BoundAssumption DEF Release, TypeOK
  <2>2. QED
    BY <1>6, <2>1 DEF Release, TypeOK
<1>7. ASSUME NEW w \in Workers, Crash(w) PROVE TypeOK'
  BY <1>7 DEF Crash, TypeOK
<1>8. ASSUME NEW w \in Workers, Read(w) PROVE TypeOK'
  <2>1. run.revision \in Nat
    BY DEF TypeOK, RunRecords
  <2>2. QED
    BY <1>8, <2>1 DEF Read, TypeOK
<1>9. ASSUME NEW w \in Workers, NEW c \in CommitIds, Freeze(w, c) PROVE TypeOK'
  <2>1. PICK q \in Requests : Seal(c, q)
    BY <1>9, FreezeType, BoundAssumption
  <2>2. QED
    BY <1>9, <2>1 DEF Freeze, Seal, TypeOK
<1>10. ASSUME NEW c \in CommitIds, BeginCommit(c) PROVE TypeOK'
  BY <1>10 DEF BeginCommit, TypeOK
<1>11. ASSUME NEW c \in CommitIds, FinishCommit(c) PROVE TypeOK'
  <2>1. run' \in RunRecords
    BY <1>11, CommittedType DEF FinishCommit, TypeOK
  <2>2. CommitReceipt(run, request[c]) \in Receipts
    BY DEF CommitReceipt, Receipts, TypeOK, RunRecords, Requests
  <2>3. QED
    BY <1>11, <2>1, <2>2, AbsentRunType DEF FinishCommit, TypeOK
<1>12. ASSUME NEW c \in CommitIds, AbortCommit(c) PROVE TypeOK'
  BY <1>12 DEF AbortCommit, TypeOK
<1>13. CASE Tick
  BY <1>13, SchedulingType, BoundAssumption DEF Tick, TypeOK
<1>14. CASE UNCHANGED vars
  BY <1>14 DEF vars, TypeOK
<1>15. QED
  BY <1>1, <1>2, <1>3, <1>4, <1>5, <1>6, <1>7, <1>8, <1>9, <1>10, <1>11, <1>12, <1>13,
     <1>14 DEF Next

\* Type correctness: every schedule of hosts, workers, transactions and the clock
\* keeps the record, the ledger and the sessions well formed.
THEOREM TypeCorrect == Spec => []TypeOK
<1>1. Init => TypeOK
  BY AbsentRunType DEF Init, TypeOK, NoReceipt, Receipts
<1>2. TypeOK /\ [Next]_vars => TypeOK'
  BY TypeStep
<1>3. QED
  BY <1>1, <1>2, PTL DEF Spec

-----------------------------------------------------------------------------
\* Authority.  A fence that is still running has an owner, which is what makes the
\* poll's lease test and Claim's owner test the same test.
AuthorityInv ==
  /\ OneAuthority
  /\ run.lease > 0 => run.owner # NoOwner

LEMMA AuthorityStep ==
  ASSUME TypeOK, AuthorityInv, [Next]_vars
  PROVE  AuthorityInv'
<1> USE DEF AuthorityInv, OneAuthority
<1> /\ run \in RunRecords /\ held \in [Workers -> Nat]
    /\ run.fence \in Nat /\ run.lease \in Nat
  BY RecordFields DEF TypeOK
<1> NoOwner \notin Workers
  BY IdentityAssumption
<1>1. ASSUME NEW i \in Inputs, Submit(i) PROVE AuthorityInv'
  <2>1. run.fence = 0 /\ run'.lease = 0 /\ run'.fence = 0
    BY <1>1 DEF Submit, Submitted, AbsentRun
  <2>2. QED
    BY <1>1, <2>1 DEF Submit
<1>2. ASSUME NEW i \in Inputs, NEW x \in Targets \cup {NoTarget}, Signal(i, x)
      PROVE  AuthorityInv'
  <2>1. /\ run'.owner = run.owner /\ run'.fence = run.fence /\ run'.lease = run.lease
        /\ held' = held
    BY <1>2, SignalledFields DEF Signal
  <2>2. QED
    BY <2>1
<1>3. CASE Cancel
  BY <1>3, SchedulingFields DEF Cancel
<1>4. ASSUME NEW w \in Workers, NEW b \in BOOLEAN, Claim(w, b) PROVE AuthorityInv'
  <2>1. run'.fence = run.fence + 1 /\ run'.owner = w
    BY <1>4, SchedulingFields DEF Claim
  <2>2. held' = held \/ held' = [held EXCEPT ![w] = run.fence + 1]
    BY <1>4 DEF Claim
  <2>3. QED
    BY <2>1, <2>2
<1>5. ASSUME NEW w \in Workers, Renew(w) PROVE AuthorityInv'
  <2>1. run.lease > 0
    BY <1>5 DEF Renew, RenewOK, Holds
  <2>2. QED
    BY <1>5, <2>1, SchedulingFields DEF Renew
<1>6. ASSUME NEW w \in Workers, Release(w) PROVE AuthorityInv'
  <2>1. run'.fence = run.fence /\ run'.owner = run.owner /\ (run' = run \/ run'.lease = 0)
    BY <1>6, SchedulingFields DEF Release
  <2>2. held' = [held EXCEPT ![w] = 0]
    BY <1>6 DEF Release
  <2>3. QED
    BY <2>1, <2>2
<1>7. ASSUME NEW w \in Workers, Crash(w) PROVE AuthorityInv'
  BY <1>7 DEF Crash
<1>8. ASSUME NEW c \in CommitIds, FinishCommit(c) PROVE AuthorityInv'
  BY <1>8 DEF FinishCommit, Committed
<1>9. CASE Tick
  BY <1>9, SchedulingFields DEF Tick
<1>10. CASE UNCHANGED <<run, held>>
  BY <1>10
<1>11. QED
  <2>1. ASSUME NEW w \in Workers, Read(w) PROVE UNCHANGED <<run, held>>
    BY <2>1 DEF Read
  <2>2. ASSUME NEW w \in Workers, NEW c \in CommitIds, Freeze(w, c)
        PROVE  UNCHANGED <<run, held>>
    BY <2>2 DEF Freeze
  <2>3. ASSUME NEW c \in CommitIds, BeginCommit(c) \/ AbortCommit(c)
        PROVE  UNCHANGED <<run, held>>
    BY <2>3 DEF BeginCommit, AbortCommit
  <2>4. UNCHANGED vars => UNCHANGED <<run, held>>
    BY DEF vars
  <2>5. QED
    BY <1>1, <1>2, <1>3, <1>4, <1>5, <1>6, <1>7, <1>8, <1>9, <1>10, <2>1, <2>2, <2>3, <2>4
       DEF Next

LEMMA AuthorityInvariant == Spec => []AuthorityInv
<1>1. Init => AuthorityInv
  BY DEF Init, AuthorityInv, OneAuthority, AbsentRun
<1>2. TypeOK /\ AuthorityInv /\ [Next]_vars => AuthorityInv'
  BY AuthorityStep
<1>3. QED
  BY <1>1, <1>2, TypeCorrect, PTL DEF Spec

\* No two workers hold the record's fence, whatever claims, crashes, cancels and lost
\* replies came before (task.go:234-295).
THEOREM AuthorityIsUnique == Spec => []OneAuthority
<1>1. AuthorityInv => OneAuthority
  BY DEF AuthorityInv
<1>2. QED
  BY <1>1, AuthorityInvariant, PTL

\* The poll and Claim take the same decision in every reachable state
\* (task.go:240-246,298-316).
THEOREM PollAgreesWithClaim == Spec => []PollFindsClaimable
<1>1. TypeOK /\ AuthorityInv => PollFindsClaimable
  <2> SUFFICES ASSUME TypeOK, AuthorityInv PROVE Runnable(run) <=> ClaimOK(run)
    BY DEF PollFindsClaimable
  <2>1. /\ run.status \in Statuses \cup {"absent"} /\ run.lease \in Nat /\ run.wake \in Nat
    BY RecordFields DEF TypeOK
  <2>2. QED
    BY <2>1 DEF AuthorityInv, Runnable, ClaimOK, Live, Statuses, Terminal
<1>2. QED
  BY <1>1, TypeCorrect, AuthorityInvariant, PTL

-----------------------------------------------------------------------------
\* Once Signal and the commits agree that a waiting run has no answer, no other step
\* can make them disagree (commit.go:271-280, task.go:161-176).
THEOREM SleepersAreUnanswered == Spec => []NoSleepingSignal
<1>1. Init => NoSleepingSignal
  BY DEF Init, NoSleepingSignal, AbsentRun
<1>2. TypeOK /\ NoSleepingSignal /\ [Next]_vars => NoSleepingSignal'
  <2> SUFFICES ASSUME TypeOK, NoSleepingSignal, [Next]_vars PROVE NoSleepingSignal'
    OBVIOUS
  <2> run \in RunRecords
    BY DEF TypeOK
  <2> USE DEF NoSleepingSignal
  <2>1. ASSUME NEW i \in Inputs, Submit(i) PROVE NoSleepingSignal'
    <3>1. run'.status = "queued"
      BY <2>1 DEF Submit, Submitted, AbsentRun
    <3>2. QED
      BY <3>1
  <2>2. ASSUME NEW i \in Inputs, NEW x \in Targets \cup {NoTarget}, Signal(i, x)
        PROVE  NoSleepingSignal'
    <3>1. run'.status # "waiting"
      BY <2>2, SignalledFields DEF Signal
    <3>2. QED
      BY <3>1
  <2>3. CASE Cancel
    BY <2>3, SchedulingFields DEF Cancel
  <2>4. ASSUME NEW w \in Workers, NEW b \in BOOLEAN, Claim(w, b) PROVE NoSleepingSignal'
    BY <2>4, SchedulingFields DEF Claim
  <2>5. ASSUME NEW w \in Workers, Renew(w) \/ Release(w) PROVE NoSleepingSignal'
    <3>1. SameFacts(run, run') /\ (run'.status = "waiting" => run.status = "waiting")
      BY <2>5, SchedulingFields, SchedulingFacts DEF Renew, Release, SameFacts
    <3>2. QED
      BY <3>1 DEF SameFacts
  <2>6. CASE Tick
    <3>1. SameFacts(run, run') /\ run'.status = run.status
      BY <2>6, SchedulingFields, SchedulingFacts DEF Tick
    <3>2. QED
      BY <3>1 DEF SameFacts
  <2>7. ASSUME NEW c \in CommitIds, FinishCommit(c) PROVE NoSleepingSignal'
    <3> DEFINE q == request[c]
    <3>1. /\ run'.status = NextStatus(run, q) /\ run'.inputs = Consumed(run, q)
          /\ run'.waiting = NextWaiting(run, q)
      BY <2>7 DEF FinishCommit, Committed
    <3>2. SUFFICES ASSUME NextStatus(run, q) = "waiting" PROVE ~Answered(run, q)
      BY <3>1 DEF Answered
    <3>3. QED
      BY <3>2 DEF NextStatus
  <2>8. CASE UNCHANGED run
    BY <2>8
  <2>9. QED
    <3>1. ASSUME NEW w \in Workers, Read(w) \/ Crash(w) PROVE UNCHANGED run
      BY <3>1 DEF Read, Crash
    <3>2. ASSUME NEW w \in Workers, NEW c \in CommitIds, Freeze(w, c) PROVE UNCHANGED run
      BY <3>2 DEF Freeze
    <3>3. ASSUME NEW c \in CommitIds, BeginCommit(c) \/ AbortCommit(c) PROVE UNCHANGED run
      BY <3>3 DEF BeginCommit, AbortCommit
    <3>4. UNCHANGED vars => UNCHANGED run
      BY DEF vars
    <3>5. QED
      BY <2>1, <2>2, <2>3, <2>4, <2>5, <2>6, <2>7, <2>8, <3>1, <3>2, <3>3, <3>4 DEF Next
<1>3. QED
  BY <1>1, <1>2, TypeCorrect, PTL DEF Spec

-----------------------------------------------------------------------------
(* What an open commit transaction may rely on, and the theorems that rest *)
(* on it: the ledger is a linear history, a revision names its facts, and  *)
(* RunStore implements RunLedger.                                          *)

\* The guards that BeginCommit tested hold until the transaction ends: every step that
\* could disturb them waits for the row lock.
CommitInv ==
  \A c \in locked :
    /\ c \in CommitIds /\ Frozen(c) /\ Live(run)
    /\ request[c].fence = run.fence
    /\ FactsOK(run, request[c])

\* What the ledger records is behind the record.
ReceiptInv ==
  \A c \in CommitIds : Recorded(c) =>
    /\ receipts[c].revision <= run.revision
    /\ receipts[c].fence <= run.fence
    /\ receipts[c].last <= run.sequence

\* The guards on facts read nothing but facts and the revision.
LEMMA FactsStay ==
  ASSUME NEW r \in RunRecords, NEW s \in RunRecords, NEW q \in Requests,
         SameFacts(r, s), s.revision = r.revision, FactsOK(r, q)
  PROVE  FactsOK(s, q)
<1>1. Activated(s, q) = Activated(r, q) /\ Saved(s, q) = Saved(r, q)
  BY DEF SameFacts, Activated, Saved
<1>2. \A t \in Tasks : ActivationOK(s, q, t) <=> ActivationOK(r, q, t)
  BY DEF SameFacts, ActivationOK
<1>3. \A t \in Tasks : ResultOK(s, q, t) <=> ResultOK(r, q, t)
  BY <1>1 DEF SameFacts, ResultOK
<1>4. \A t \in Tasks : AdoptOK(s, q, t) <=> AdoptOK(r, q, t)
  BY <1>1 DEF AdoptOK
<1>5. \A i \in Inputs : ConsumeOK(s, q, i) <=> ConsumeOK(r, q, i)
  BY DEF SameFacts, ConsumeOK
<1>6. \A o \in Operations : OperationOK(s, q, o) <=> OperationOK(r, q, o)
  BY DEF SameFacts, OperationOK
<1>7. \A a \in Artifacts : ArtifactOK(s, q, a) <=> ArtifactOK(r, q, a)
  BY DEF SameFacts, ArtifactOK
<1>8. q.adopt \subseteq Tasks /\ q.consume \subseteq Inputs
  BY DEF Requests
<1>9. QED
  BY <1>2, <1>3, <1>4, <1>5, <1>6, <1>7, <1>8 DEF FactsOK

-----------------------------------------------------------------------------
LEMMA CommitStep ==
  ASSUME TypeOK, CommitInv, [Next]_vars
  PROVE  CommitInv'
<1> USE DEF CommitInv
<1> /\ run \in RunRecords /\ request \in [CommitIds -> Requests] /\ locked \subseteq CommitIds
  BY DEF TypeOK
<1>1. TypeOK'
  BY TypeStep
<1>2. ASSUME NEW i \in Inputs, Submit(i) PROVE CommitInv'
  <2>1. locked = {} /\ locked' = {}
    BY <1>2 DEF Submit, AbsentRun, Live
  <2>2. QED
    BY <2>1
<1>3. ASSUME locked = {}, locked' = {} PROVE CommitInv'
  BY <1>3
<1>4. ASSUME NEW w \in Workers, NEW c \in CommitIds, Freeze(w, c) PROVE CommitInv'
  <2>1. /\ ~Frozen(c) /\ locked' = locked /\ run' = run
        /\ \E q : request' = [request EXCEPT ![c] = q]
    BY <1>4 DEF Freeze, Seal
  <2>2. \A d \in locked : d # c /\ request'[d] = request[d]
    BY <2>1
  <2>3. QED
    BY <2>1, <2>2 DEF Frozen
<1>5. ASSUME NEW c \in CommitIds, BeginCommit(c) PROVE CommitInv'
  BY <1>5 DEF BeginCommit, CommitOK, Holds, Frozen, Live
<1>6. ASSUME NEW c \in CommitIds, FinishCommit(c) \/ AbortCommit(c) PROVE CommitInv'
  BY <1>6 DEF FinishCommit, AbortCommit
<1>7. CASE Tick
  <2>1. /\ request' = request /\ locked' = locked /\ run' = Aged(run)
    BY <1>7 DEF Tick
  <2>2. /\ run'.status = run.status /\ run'.fence = run.fence
        /\ run'.revision = run.revision /\ SameFacts(run, run')
    BY <2>1, SchedulingFields, SchedulingFacts
  <2>3. run' \in RunRecords
    BY <1>1 DEF TypeOK
  <2>4. ASSUME NEW c \in locked PROVE FactsOK(run', request[c])
    BY <2>2, <2>3, FactsStay
  <2>5. QED
    BY <2>1, <2>2, <2>4 DEF Live, Frozen
<1>8. CASE UNCHANGED <<run, request, locked>>
  BY <1>8 DEF Frozen
<1>9. QED
  <2>1. ASSUME NEW i \in Inputs, NEW x \in Targets \cup {NoTarget}, Signal(i, x)
        PROVE  locked = {} /\ locked' = {}
    BY <2>1 DEF Signal, Unlocked
  <2>2. Cancel => locked = {} /\ locked' = {}
    BY DEF Cancel, Unlocked
  <2>3. ASSUME NEW w \in Workers, NEW b \in BOOLEAN, Claim(w, b)
        PROVE  locked = {} /\ locked' = {}
    BY <2>3 DEF Claim, Unlocked
  <2>4. ASSUME NEW w \in Workers, Renew(w) \/ Release(w) PROVE locked = {} /\ locked' = {}
    BY <2>4 DEF Renew, Release, Unlocked
  <2>5. ASSUME NEW w \in Workers, Crash(w) \/ Read(w)
        PROVE  UNCHANGED <<run, request, locked>>
    BY <2>5 DEF Crash, Read
  <2>6. UNCHANGED vars => UNCHANGED <<run, request, locked>>
    BY DEF vars
  <2>7. QED
    BY <1>2, <1>3, <1>4, <1>5, <1>6, <1>7, <1>8, <2>1, <2>2, <2>3, <2>4, <2>5, <2>6 DEF Next

LEMMA ReceiptStep ==
  ASSUME TypeOK, TypeOK', CommitInv, ReceiptInv, [Next]_vars
  PROVE  ReceiptInv'
<1> USE DEF ReceiptInv
<1> /\ run \in RunRecords /\ request \in [CommitIds -> Requests]
    /\ receipts \in [CommitIds -> Receipts]
    /\ run.revision \in Nat /\ run.fence \in Nat /\ run.sequence \in Nat
    /\ run'.revision \in Nat /\ run'.fence \in Nat /\ run'.sequence \in Nat
  BY RecordFields DEF TypeOK
<1>1. ASSUME run'.revision >= run.revision, run'.fence >= run.fence,
             run'.sequence >= run.sequence, receipts' = receipts
      PROVE  ReceiptInv'
  BY <1>1 DEF Receipts, Recorded
<1>2. ASSUME NEW c \in CommitIds, FinishCommit(c) PROVE ReceiptInv'
  <2> DEFINE q == request[c]
  <2>1. q \in Requests /\ q.fence \in Nat /\ q.events \in Nat /\ q.fence = run.fence
    BY <1>2 DEF FinishCommit, CommitInv, Requests
  <2>2. /\ run'.revision = run.revision + 1 /\ run'.fence = run.fence
        /\ run'.sequence = run.sequence + q.events
    BY <1>2 DEF FinishCommit, Committed
  <2>3. /\ receipts'[c].revision = run.revision + 1 /\ receipts'[c].fence = q.fence
        /\ receipts'[c].last = (IF q.events = 0 THEN 0 ELSE run.sequence + q.events)
        /\ \A d \in CommitIds : d # c => receipts'[d] = receipts[d]
    BY <1>2 DEF FinishCommit, CommitReceipt
  <2>4. \A d \in CommitIds : receipts[d].revision \in Nat /\ receipts[d].fence \in Nat
                             /\ receipts[d].last \in Nat
    BY DEF Receipts
  <2> HIDE DEF q
  <2>5. QED
    BY <2>1, <2>2, <2>3, <2>4 DEF Recorded
<1>3. QED
  <2>1. ASSUME NEW i \in Inputs, Submit(i)
        PROVE  /\ receipts' = receipts /\ run.revision = 0 /\ run.fence = 0
               /\ run.sequence = 0
    BY <2>1 DEF Submit, AbsentRun
  <2>2. ASSUME NEW i \in Inputs, NEW x \in Targets \cup {NoTarget}, Signal(i, x)
        PROVE  /\ receipts' = receipts /\ run'.revision = run.revision
               /\ run'.fence = run.fence /\ run'.sequence = run.sequence
    BY <2>2, SignalledFields DEF Signal
  <2>3. ASSUME Cancel
        PROVE  /\ receipts' = receipts /\ run'.revision = run.revision + 1
               /\ run'.fence = run.fence + 1 /\ run'.sequence = run.sequence + 1
    BY <2>3, SchedulingFields DEF Cancel
  <2>4. ASSUME NEW w \in Workers, NEW b \in BOOLEAN, Claim(w, b)
        PROVE  /\ receipts' = receipts /\ run'.revision = run.revision
               /\ run'.fence = run.fence + 1 /\ run'.sequence = run.sequence
    BY <2>4, SchedulingFields DEF Claim
  <2>5. ASSUME NEW w \in Workers, Renew(w) \/ Release(w)
        PROVE  /\ receipts' = receipts /\ run'.revision = run.revision
               /\ run'.fence = run.fence /\ run'.sequence = run.sequence
    BY <2>5, SchedulingFields DEF Renew, Release
  <2>6. ASSUME Tick
        PROVE  /\ receipts' = receipts /\ run'.revision = run.revision
               /\ run'.fence = run.fence /\ run'.sequence = run.sequence
    BY <2>6, SchedulingFields DEF Tick
  <2>7. ASSUME NEW w \in Workers, Crash(w) \/ Read(w) PROVE UNCHANGED <<run, receipts>>
    BY <2>7 DEF Crash, Read
  <2>8. ASSUME NEW w \in Workers, NEW c \in CommitIds, Freeze(w, c)
        PROVE  UNCHANGED <<run, receipts>>
    BY <2>8 DEF Freeze
  <2>9. ASSUME NEW c \in CommitIds, BeginCommit(c) \/ AbortCommit(c)
        PROVE  UNCHANGED <<run, receipts>>
    BY <2>9 DEF BeginCommit, AbortCommit
  <2>10. UNCHANGED vars => UNCHANGED <<run, receipts>>
    BY DEF vars
  <2>11. UNCHANGED <<run, receipts>> => ReceiptInv'
    BY <1>1
  <2>12. QED
    BY <1>1, <1>2, <2>1, <2>2, <2>3, <2>4, <2>5, <2>6, <2>7, <2>8, <2>9, <2>10, <2>11 DEF Next

LEMMA OrderStep ==
  ASSUME TypeOK, CommitInv, ReceiptInv, LedgerIsOrdered, [Next]_vars
  PROVE  LedgerIsOrdered'
<1> /\ run \in RunRecords /\ request \in [CommitIds -> Requests]
    /\ receipts \in [CommitIds -> Receipts]
    /\ run.revision \in Nat /\ run.fence \in Nat /\ run.sequence \in Nat
  BY RecordFields DEF TypeOK
<1>1. ASSUME receipts' = receipts PROVE LedgerIsOrdered'
  BY <1>1 DEF LedgerIsOrdered, Recorded
<1>2. ASSUME NEW c \in CommitIds, FinishCommit(c) PROVE LedgerIsOrdered'
  <2> DEFINE q == request[c]
  <2>1. q.fence = run.fence
    BY <1>2 DEF FinishCommit, CommitInv
  <2>2. /\ receipts'[c].revision = run.revision + 1 /\ receipts'[c].fence = q.fence
        /\ receipts'[c].first = (IF q.events = 0 THEN 0 ELSE run.sequence + 1)
        /\ \A d \in CommitIds : d # c => receipts'[d] = receipts[d]
    BY <1>2 DEF FinishCommit, CommitReceipt
  <2>3. \A d \in CommitIds : receipts[d].revision \in Nat /\ receipts[d].fence \in Nat
                             /\ receipts[d].first \in Nat /\ receipts[d].last \in Nat
    BY DEF Receipts
  <2> HIDE DEF q
  <2>4. ASSUME NEW d \in CommitIds, d # c, Recorded(d)
        PROVE  /\ receipts'[d].revision < receipts'[c].revision
               /\ receipts'[d].fence <= receipts'[c].fence
               /\ receipts'[c].first # 0 => receipts'[d].last < receipts'[c].first
    BY <2>1, <2>2, <2>3, <2>4 DEF ReceiptInv
  <2>5. SUFFICES ASSUME NEW d \in CommitIds, NEW e \in CommitIds, d # e,
                        Recorded(d)', Recorded(e)'
                 PROVE  /\ receipts'[d].revision # receipts'[e].revision
                        /\ receipts'[d].revision < receipts'[e].revision =>
                             /\ receipts'[d].fence <= receipts'[e].fence
                             /\ receipts'[d].last # 0 /\ receipts'[e].first # 0 =>
                                  receipts'[d].last < receipts'[e].first
    BY DEF LedgerIsOrdered
  <2>6. /\ d # c => Recorded(d) /\ receipts'[d] = receipts[d]
        /\ e # c => Recorded(e) /\ receipts'[e] = receipts[e]
    BY <2>2, <2>5 DEF Recorded
  <2>7. receipts'[c].revision \in Nat
    BY <2>2
  <2>8. CASE d = c
    BY <2>3, <2>4, <2>5, <2>6, <2>7, <2>8
  <2>9. CASE e = c
    BY <2>3, <2>4, <2>5, <2>6, <2>7, <2>9
  <2>10. CASE d # c /\ e # c
    BY <2>5, <2>6, <2>10 DEF LedgerIsOrdered
  <2>11. QED
    BY <2>8, <2>9, <2>10
<1>3. QED
  <2>1. ASSUME NEW c \in CommitIds, BeginCommit(c) \/ AbortCommit(c) PROVE receipts' = receipts
    BY <2>1 DEF BeginCommit, AbortCommit
  <2>2. QED
    BY <1>1, <1>2, <2>1
       DEF Next, Submit, Signal, Cancel, Claim, Renew, Release, Crash, Read, Freeze, Tick, vars

LEMMA CommitInvariant == Spec => [](TypeOK /\ CommitInv /\ ReceiptInv)
<1>1. Init => CommitInv /\ ReceiptInv
  BY DEF Init, CommitInv, ReceiptInv, Recorded, NoReceipt
<1>2. TypeOK /\ CommitInv /\ [Next]_vars => CommitInv'
  BY CommitStep
<1>3. TypeOK /\ TypeOK' /\ CommitInv /\ ReceiptInv /\ [Next]_vars => ReceiptInv'
  BY ReceiptStep
<1>4. QED
  BY <1>1, <1>2, <1>3, TypeCorrect, PTL DEF Spec

\* The ledger is one linear history: later revisions were written under later or equal
\* fences and allocated later event numbers, whenever their requests were frozen and
\* however late they were delivered (commit.go:146-154, store.go:80-134).
THEOREM LedgerIsLinear == Spec => []LedgerIsOrdered
<1>1. Init => LedgerIsOrdered
  BY DEF Init, LedgerIsOrdered, Recorded, NoReceipt
<1>2. TypeOK /\ CommitInv /\ ReceiptInv /\ LedgerIsOrdered /\ [Next]_vars => LedgerIsOrdered'
  BY OrderStep
<1>3. QED
  BY <1>1, <1>2, CommitInvariant, PTL DEF Spec

-----------------------------------------------------------------------------
\* What the store does to the record is one of the record's transitions.
LEMMA StoreTransitions ==
  ASSUME TypeOK, CommitInv, [Next]_vars
  PROVE  Transition(run, run')
<1> run \in RunRecords /\ request \in [CommitIds -> Requests]
  BY DEF TypeOK
<1>1. ASSUME NEW i \in Inputs, Submit(i) PROVE Transition(run, run')
  BY <1>1 DEF Submit, Transition
<1>2. ASSUME NEW i \in Inputs, NEW x \in Targets \cup {NoTarget}, Signal(i, x)
      PROVE  Transition(run, run')
  BY <1>2 DEF Signal, Transition
<1>3. Cancel => Transition(run, run')
  BY DEF Cancel, Transition
<1>4. ASSUME NEW w \in Workers, NEW b \in BOOLEAN, Claim(w, b) PROVE Transition(run, run')
  BY <1>4 DEF Claim, Transition
<1>5. ASSUME NEW w \in Workers, Renew(w) \/ Release(w) PROVE Transition(run, run')
  BY <1>5 DEF Renew, Release, Transition
<1>6. Tick => Transition(run, run')
  BY DEF Tick, Transition
<1>7. ASSUME NEW c \in CommitIds, FinishCommit(c) PROVE Transition(run, run')
  <2>1. Live(run) /\ FactsOK(run, request[c]) /\ run' = Committed(run, request[c])
    BY <1>7 DEF FinishCommit, CommitInv
  <2>2. QED
    BY <2>1 DEF Transition
<1>8. UNCHANGED run => Transition(run, run')
  BY DEF Transition
<1>9. QED
  <2>1. ASSUME NEW w \in Workers, Crash(w) \/ Read(w) PROVE UNCHANGED run
    BY <2>1 DEF Crash, Read
  <2>2. ASSUME NEW w \in Workers, NEW c \in CommitIds, Freeze(w, c) PROVE UNCHANGED run
    BY <2>2 DEF Freeze
  <2>3. ASSUME NEW c \in CommitIds, BeginCommit(c) \/ AbortCommit(c) PROVE UNCHANGED run
    BY <2>3 DEF BeginCommit, AbortCommit
  <2>4. UNCHANGED vars => UNCHANGED run
    BY DEF vars
  <2>5. QED
    BY <1>1, <1>2, <1>3, <1>4, <1>5, <1>6, <1>7, <1>8, <2>1, <2>2, <2>3, <2>4 DEF Next

LEMMA FactInvariant == Spec => [](TypeOK /\ CommitInv /\ Factual(run))
<1>1. Init => Factual(run)
  BY DEF Init, Factual, AbsentRun, NoInput, NoResult
<1>2. TypeOK /\ CommitInv /\ Factual(run) /\ [Next]_vars => Factual(run)'
  BY StoreTransitions, RecordIsLedger DEF TypeOK
<1>3. QED
  BY <1>1, <1>2, CommitInvariant, PTL DEF Spec

\* A step that is not a commit or a cancel leaves every settled fact alone, so a session
\* whose expected revision still matches decided on the current ones
\* (commit.go:146, task.go:193-232).
THEOREM RevisionsNameFacts == Spec => RevisionNamesFacts
<1>1. TypeOK /\ Factual(run) /\ [Next]_vars
        => [Facts(run') # Facts(run) => run.revision' = run.revision + 1]_vars
  <2> SUFFICES ASSUME TypeOK, Factual(run), [Next]_vars, run'.revision # run.revision + 1
               PROVE  Facts(run') = Facts(run)
    OBVIOUS
  <2> run \in RunRecords
    BY DEF TypeOK
  <2>1. ASSUME SameFacts(run, run') PROVE Facts(run') = Facts(run)
    BY <2>1 DEF SameFacts, Facts
  <2>2. ASSUME NEW i \in Inputs, Submit(i) PROVE Facts(run') = Facts(run)
    <3>1. /\ run = AbsentRun
          /\ run' = [AbsentRun EXCEPT !.status = "queued", !.inputs[i].accepted = TRUE]
      BY <2>2 DEF Submit, Submitted
    <3>2. /\ run'.waiting = run.waiting /\ run'.snapshot = run.snapshot
          /\ run'.activations = run.activations /\ run'.tasks = run.tasks
          /\ run'.operations = run.operations /\ run'.artifacts = run.artifacts
          /\ run'.inputs = [run.inputs EXCEPT ![i].accepted = TRUE]
      BY <3>1 DEF AbsentRun
    <3>3. run.inputs = [j \in Inputs |-> NoInput]
      BY <3>1 DEF AbsentRun
    <3>4. \A j \in Inputs : run'.inputs[j].consumed = run.inputs[j].consumed
      BY <3>2, <3>3 DEF NoInput
    <3>5. QED
      BY <3>2, <3>4 DEF Facts
  <2>3. ASSUME NEW i \in Inputs, NEW x \in Targets \cup {NoTarget}, Signal(i, x)
        PROVE  Facts(run') = Facts(run)
    <3>1. run' = Signalled(run, i, x) /\ ~run.inputs[i].accepted
      BY <2>3 DEF Signal, SignalOK
    <3>2. /\ run'.waiting = run.waiting /\ run'.snapshot = run.snapshot
          /\ run'.activations = run.activations /\ run'.tasks = run.tasks
          /\ run'.operations = run.operations /\ run'.artifacts = run.artifacts
      BY <3>1, SignalledFields
    <3>3. run'.inputs =
            [run.inputs EXCEPT ![i] = [accepted |-> TRUE, target |-> x, consumed |-> 0]]
      BY <3>1, SignalledInputs
    <3>4. run.inputs \in [Inputs -> InboundInputs] /\ run.inputs[i].consumed = 0
      BY <3>1, RecordFields DEF Factual
    <3>5. \A j \in Inputs : run'.inputs[j].consumed = run.inputs[j].consumed
      BY <3>3, <3>4
    <3>6. QED
      BY <3>2, <3>5 DEF Facts
  <2>4. Cancel => FALSE
    BY SchedulingFields DEF Cancel
  <2>5. ASSUME NEW c \in CommitIds, FinishCommit(c) PROVE FALSE
    BY <2>5 DEF FinishCommit, Committed
  <2>6. ASSUME NEW w \in Workers, NEW b \in BOOLEAN, Claim(w, b) PROVE SameFacts(run, run')
    BY <2>6, SchedulingFacts DEF Claim
  <2>7. ASSUME NEW w \in Workers, Renew(w) \/ Release(w) PROVE SameFacts(run, run')
    BY <2>7, SchedulingFacts DEF Renew, Release, SameFacts
  <2>8. Tick => SameFacts(run, run')
    BY SchedulingFacts DEF Tick
  <2>9. ASSUME NEW w \in Workers, Crash(w) \/ Read(w) PROVE SameFacts(run, run')
    BY <2>9 DEF Crash, Read, SameFacts
  <2>10. ASSUME NEW w \in Workers, NEW c \in CommitIds, Freeze(w, c)
         PROVE  SameFacts(run, run')
    BY <2>10 DEF Freeze, SameFacts
  <2>11. ASSUME NEW c \in CommitIds, BeginCommit(c) \/ AbortCommit(c)
         PROVE  SameFacts(run, run')
    BY <2>11 DEF BeginCommit, AbortCommit, SameFacts
  <2>12. UNCHANGED vars => SameFacts(run, run')
    BY DEF vars, SameFacts
  <2>13. QED
    BY <2>1, <2>2, <2>3, <2>4, <2>5, <2>6, <2>7, <2>8, <2>9, <2>10, <2>11, <2>12 DEF Next
<1>2. QED
  BY <1>1, FactInvariant, PTL DEF Spec, RevisionNamesFacts

-----------------------------------------------------------------------------
\* The refinement: a move of the record is one of the ledger that reads it.
LEMMA LedgerStep ==
  ASSUME LedgerMove(run, run')
  PROVE  [Ledger!Next]_(Ledger!ledger)
<1> USE DEF SameSettled, Phase, Accepts, Consumes, Recordings, Adopts, Confirms
<1>1. CASE Stutters(run, run')
  BY <1>1 DEF Stutters, Ledger!ledger
<1>2. CASE Opens(run, run')
  <2>1. PICK i \in Inputs : /\ Phase(run) = "none" /\ Phase(run') = "open"
                            /\ Accepts(run') = {i} /\ SameSettled(run, run')
    BY <1>2 DEF Opens
  <2>2. Ledger!Open(i)
    BY <2>1 DEF Ledger!Open
  <2>3. QED
    BY <2>2 DEF Ledger!Next
<1>3. CASE AcceptsOne(run, run')
  <2>1. PICK i \in Inputs :
          /\ Phase(run) = "open" /\ Phase(run') = Phase(run) /\ i \notin Accepts(run)
          /\ Accepts(run') = Accepts(run) \cup {i} /\ SameSettled(run, run')
    BY <1>3 DEF AcceptsOne
  <2>2. Ledger!Accept(i)
    BY <2>1 DEF Ledger!Accept
  <2>3. QED
    BY <2>2 DEF Ledger!Next
<1>4. CASE Settles(run, run')
  <2>1. TaskStatuses = Ledger!Outcomes
    BY DEF TaskStatuses, Ledger!Outcomes
  <2>2. Ledger!Settle
    BY <1>4, <2>1 DEF Settles, Ledger!Settle
  <2>3. QED
    BY <2>2 DEF Ledger!Next
<1>5. QED
  BY <1>1, <1>2, <1>3, <1>4 DEF LedgerMove

\* The store implements the ledger: under every schedule of workers, crashes, redelivered
\* commits, signals and cancels the record only moves as RunLedger allows
\* (commit.go:139-304, task.go:100-295).
THEOREM StoreIsLedger == Spec => RunLedgerSpec
<1>1. Init => Ledger!Init
  BY DEF Init, AbsentRun, NoInput, NoResult, Ledger!Init
<1>2. TypeOK /\ CommitInv /\ Factual(run) /\ [Next]_vars => [Ledger!Next]_(Ledger!ledger)
  BY StoreTransitions, RecordIsLedger, LedgerStep DEF TypeOK
<1>3. QED
  BY <1>1, <1>2, FactInvariant, PTL DEF Spec, RunLedgerSpec, Ledger!Spec
=============================================================================
