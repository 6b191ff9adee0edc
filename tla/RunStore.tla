------------------------------ MODULE RunStore ------------------------------
(***************************************************************************)
(* The MySQL run store (runtime/store/mysql/{store,task}.go) under every   *)
(* caller: one run, the workers that claim it, the frozen commit requests  *)
(* they send, and the commit ledger that makes a request idempotent.       *)
(*                                                                         *)
(* A commit is two steps: the transaction locks the row and passes the     *)
(* guards (BeginCommit), and the database later makes it durable           *)
(* (FinishCommit) or loses it (AbortCommit).  In between the row is        *)
(* locked, readers see the old record, and the caller may already have     *)
(* been told that the outcome is unknown.  A frozen request may be         *)
(* delivered again at any time, by its session or by a host that           *)
(* reconciles it, even after its worker crashed.                           *)
(***************************************************************************)
EXTENDS RunRecord

CONSTANTS
  CommitIds,                          \* identities of commit requests
  LeaseTTL, MaxWake,                  \* ticks of a lease, of a wake-up delay
  MaxFence, MaxRevision               \* bounds of the model, not of the code

ASSUME BoundAssumption ==
  LeaseTTL \in Nat \ {0} /\ MaxWake \in Nat /\ MaxFence \in Nat /\ MaxRevision \in Nat

VARIABLES
  run,        \* hexagon_runs: the record, AbsentRun before Submit
  request,    \* [CommitIds -> Requests]: the frozen requests, EmptyRequest if unused
  receipts,   \* hexagon_commits: [CommitIds -> receipt], revision 0 if absent
  locked,     \* the commit ids of open transactions holding the row lock
  held,       \* [Workers -> Nat]: the fence a worker believes it holds, 0 for none
  known       \* [Workers -> Nat]: the revision its session last read

vars == <<run, request, receipts, locked, held, known>>

\* A receipt keeps the digest of its request; of what the digest covers, the fence.
Receipts == [revision : Nat, fence : Nat, first : Nat, last : Nat]
NoReceipt == [revision |-> 0, fence |-> 0, first |-> 0, last |-> 0]

Unlocked == locked = {}
Recorded(c) == receipts[c].revision # 0
Frozen(c) == request[c].owner # NoOwner
CommitReceipt(r, q) ==
  [revision |-> r.revision + 1, fence |-> q.fence,
   first |-> IF q.events = 0 THEN 0 ELSE r.sequence + 1,
   last |-> IF q.events = 0 THEN 0 ELSE r.sequence + q.events]

TypeOK ==
  /\ run \in RunRecords
  /\ request \in [CommitIds -> Requests]
  /\ receipts \in [CommitIds -> Receipts]
  /\ locked \in SUBSET CommitIds
  /\ held \in [Workers -> Nat]
  /\ known \in [Workers -> Nat]

Init ==
  /\ run = AbsentRun
  /\ request = [c \in CommitIds |-> EmptyRequest]
  /\ receipts = [c \in CommitIds |-> NoReceipt]
  /\ locked = {}
  /\ held = [w \in Workers |-> 0]
  /\ known = [w \in Workers |-> 0]

-----------------------------------------------------------------------------
\* Hosts submit, signal and cancel.

Submit(i) ==
  /\ run = AbsentRun
  /\ run' = Submitted(i)
  /\ UNCHANGED <<request, receipts, locked, held, known>>

Signal(i, target) ==
  /\ Unlocked /\ SignalOK(run, i, target)
  /\ run' = Signalled(run, i, target)
  /\ UNCHANGED <<request, receipts, locked, held, known>>

Cancel ==
  /\ Unlocked /\ CancelOK(run) /\ run.revision < MaxRevision
  /\ run' = Cancelled(run)
  /\ UNCHANGED <<request, receipts, locked, held, known>>

-----------------------------------------------------------------------------
\* Workers take, extend and give back the execution authority.

\* The reply of a claim may be lost: the lease then runs with nobody behind it.
Claim(w, delivered) ==
  /\ Unlocked /\ ClaimOK(run) /\ run.fence < MaxFence
  /\ run' = Claimed(run, w, LeaseTTL)
  /\ held' = IF delivered THEN [held EXCEPT ![w] = run.fence + 1] ELSE held
  /\ known' = IF delivered THEN [known EXCEPT ![w] = run.revision] ELSE known
  /\ UNCHANGED <<request, receipts, locked>>

Renew(w) ==
  /\ Unlocked /\ held[w] # 0 /\ RenewOK(run, w, held[w])
  /\ run' = Renewed(run, LeaseTTL)
  /\ UNCHANGED <<request, receipts, locked, held, known>>

\* Release by a worker that lost the run changes nothing but the worker.
Release(w) ==
  /\ Unlocked /\ held[w] # 0
  /\ run' = IF ReleaseOK(run, w, held[w]) THEN Released(run) ELSE run
  /\ held' = [held EXCEPT ![w] = 0]
  /\ UNCHANGED <<request, receipts, locked, known>>

Crash(w) ==
  /\ held[w] # 0
  /\ held' = [held EXCEPT ![w] = 0]
  /\ UNCHANGED <<run, request, receipts, locked, known>>

\* GetRun: a plain read, it neither takes nor waits for the row lock.
Read(w) ==
  /\ held[w] # 0
  /\ known' = [known EXCEPT ![w] = run.revision]
  /\ UNCHANGED <<run, request, receipts, locked, held>>

-----------------------------------------------------------------------------
\* The requests the callers form: an activation, a result, a snapshot with the
\* results and inputs it adopts, a scheduling decision, an external fact
\* (runSession, durable graphs and workflows, hosts).

Draft(w) == [EmptyRequest EXCEPT !.owner = w, !.fence = held[w], !.expected = known[w]]

ActivateDraft(w, t, n) ==
  [Draft(w) EXCEPT !.activate[t] = [attempt |-> held[w], read |-> n]]

ResultDraft(w, t, s) ==
  LET activation == run.activations[t]
  IN  [Draft(w) EXCEPT !.events = 1,
         !.results[t] = [status |-> s, attempt |-> activation.attempt,
                         read |-> activation.read, adopted |-> 0]]

SaveDraft(w, A, C, x, s, T) ==
  [Draft(w) EXCEPT !.events = 1, !.adopt = A, !.consume = C, !.snapshot = x,
     !.status = s, !.waiting = [declared |-> TRUE, targets |-> T]]

\* The status of a saved snapshot follows from the targets it waits for.
SaveStatuses(T) == IF T = {} THEN {"running", "succeeded"} ELSE {"queued", "waiting"}

FinishDraft(w, s) == [Draft(w) EXCEPT !.events = 1, !.status = s]
SleepDraft(w, n) ==
  [Draft(w) EXCEPT !.events = 1, !.status = "waiting", !.rewake = TRUE, !.wake = n]

OperationDraft(w, o, s) == [Draft(w) EXCEPT !.operations[o] = s]
ArtifactDraft(w, a, n) == [Draft(w) EXCEPT !.artifacts[a] = n]

\* SealCommit: the content and the execution conditions are frozen with the id.
Seal(c, q) == request' = [request EXCEPT ![c] = q]

Freeze(w, c) ==
  /\ held[w] # 0 /\ ~Frozen(c) /\ ~Recorded(c)
  /\ \/ \E t \in Tasks, n \in 0..known[w] : Seal(c, ActivateDraft(w, t, n))
     \/ \E t \in Tasks, s \in TaskStatuses : Seal(c, ResultDraft(w, t, s))
     \/ \E A \in SUBSET Tasks, C \in SUBSET Inputs, x \in Snapshots, T \in SUBSET Targets :
          \E s \in SaveStatuses(T) : Seal(c, SaveDraft(w, A, C, x, s, T))
     \/ \E s \in {"waiting", "failed", "cancelled"} : Seal(c, FinishDraft(w, s))
     \/ \E n \in 1..MaxWake : Seal(c, SleepDraft(w, n))
     \/ \E o \in Operations, s \in OperationStatuses : Seal(c, OperationDraft(w, o, s))
     \/ \E a \in Artifacts, n \in 1..3 : Seal(c, ArtifactDraft(w, a, n))
  /\ UNCHANGED <<run, receipts, locked, held, known>>

\* A recorded request is answered from the ledger and touches nothing, so its content
\* is dropped when it is recorded.
BeginCommit(c) ==
  /\ Unlocked /\ ~Recorded(c) /\ CommitOK(run, request[c])
  /\ run.revision < MaxRevision
  /\ locked' = {c}
  /\ UNCHANGED <<run, request, receipts, held, known>>

FinishCommit(c) ==
  /\ c \in locked
  /\ run' = Committed(run, request[c])
  /\ receipts' = [receipts EXCEPT ![c] = CommitReceipt(run, request[c])]
  /\ request' = [request EXCEPT ![c] = EmptyRequest]
  /\ locked' = {}
  /\ UNCHANGED <<held, known>>

AbortCommit(c) ==
  /\ c \in locked
  /\ locked' = {}
  /\ UNCHANGED <<run, request, receipts, held, known>>

\* The database clock does not wait for transactions.
Tick ==
  /\ run' = Aged(run)
  /\ UNCHANGED <<request, receipts, locked, held, known>>

Next ==
  \/ \E i \in Inputs : Submit(i)
  \/ \E i \in Inputs, x \in Targets \cup {NoTarget} : Signal(i, x)
  \/ Cancel
  \/ \E w \in Workers, d \in BOOLEAN : Claim(w, d)
  \/ \E w \in Workers : Renew(w)
  \/ \E w \in Workers : Release(w)
  \/ \E w \in Workers : Crash(w)
  \/ \E w \in Workers : Read(w)
  \/ \E w \in Workers, c \in CommitIds : Freeze(w, c)
  \/ \E c \in CommitIds : BeginCommit(c)
  \/ \E c \in CommitIds : FinishCommit(c)
  \/ \E c \in CommitIds : AbortCommit(c)
  \/ Tick

Spec == Init /\ [][Next]_vars

-----------------------------------------------------------------------------
\* A run that sleeps without a wake-up time has nothing to answer: whatever the
\* order of Signal and of the commit that puts the run to sleep, an accepted input
\* for a target the run waits for leaves it schedulable (commit.go:271-280).
NoSleepingSignal ==
  run.status = "waiting" =>
    \A i \in Inputs : Pending(run.inputs[i]) /\ run.inputs[i].target # NoTarget
      => ~IsWaitingTarget(run.waiting, run.inputs[i].target)

\* The ledger is a linear history: two receipts never share a revision, and a later
\* revision was written under a fence at least as high and allocated later event
\* numbers.  A request frozen by a superseded worker thus never lands after one of
\* its successor, however late it is delivered (commit.go:146-154, store.go:80-134).
LedgerIsOrdered ==
  \A c, d \in CommitIds : c # d /\ Recorded(c) /\ Recorded(d) =>
    /\ receipts[c].revision # receipts[d].revision
    /\ receipts[c].revision < receipts[d].revision =>
         /\ receipts[c].fence <= receipts[d].fence
         /\ receipts[c].last # 0 /\ receipts[d].first # 0 =>
              receipts[c].last < receipts[d].first

\* At most one worker believes it holds the fence of the record, and no worker holds
\* a later one: a crash, a lost claim reply or a cancel never leaves two owners
\* whose commits the store would both accept (task.go:234-295).
OneAuthority ==
  /\ \A w \in Workers : held[w] <= run.fence
  /\ \A w, v \in Workers : held[w] = held[v] /\ held[w] # 0 => w = v

\* What the poll lists is exactly what Claim would take: no listed run is refused
\* for good, and no claimable run is invisible to every worker (task.go:240-246,298).
PollFindsClaimable == Runnable(run) <=> ClaimOK(run)

\* Every fact that a recovery reads as settled is settled under a fresh revision,
\* so a session whose revision still matches decided on the current facts: steps
\* that keep the revision keep activations, results, adoption, consumption, the
\* snapshot and the waiting set (task.go:193, commit.go:146).
Facts(r) ==
  [activations |-> r.activations, tasks |-> r.tasks, snapshot |-> r.snapshot,
   waiting |-> r.waiting, consumed |-> {i \in Inputs : r.inputs[i].consumed # 0},
   operations |-> r.operations, artifacts |-> r.artifacts]

RevisionNamesFacts ==
  [][Facts(run') # Facts(run) => run.revision' = run.revision + 1]_vars

\* The record, read as a ledger.  A later revision never revises an earlier one: see
\* RunLedger for the contract, and RunLedgerSpec for the claim that every schedule of
\* workers, crashes, redelivered commits, signals and cancels keeps it.
Ledger == INSTANCE RunLedger WITH
  phase <- IF run.status = "absent" THEN "none" ELSE IF Live(run) THEN "open" ELSE "closed",
  revision <- run.revision,
  accepted <- {i \in Inputs : run.inputs[i].accepted},
  consumed <- {i \in Inputs : run.inputs[i].consumed # 0},
  outcome <- [t \in Tasks |-> run.tasks[t].status],
  adopted <- {t \in Tasks : run.tasks[t].adopted # 0},
  confirmed <- {o \in Operations : run.operations[o] = "succeeded"},
  stage <- run.artifacts

RunLedgerSpec == Ledger!Spec
=============================================================================
