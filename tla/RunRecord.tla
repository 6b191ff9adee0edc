------------------------------ MODULE RunRecord ------------------------------
(***************************************************************************)
(* The authoritative record of one durable run and every pure transition   *)
(* the store applies to it: runtime/commit.go (ApplyCommit) and the update *)
(* closures of runtime/store/mysql/task.go.  Each transition X is a guard  *)
(* XOK(r, ...) and a result X(r, ...); the modules that own a run decide   *)
(* when they are taken.                                                    *)
(*                                                                         *)
(* Zero values are Go's: attempt 0, revision 0, consumed 0 mean "not set". *)
(* Instants are relative to the database clock: lease is the time left     *)
(* (0: none or expired), wake is 0 for the zero time, 1 for an instant     *)
(* that has come, n + 1 for one that is n ticks away.                      *)
(*                                                                         *)
(* An operator with one of its rules changed, such as UnfencedCommitOK     *)
(* before CommitOK, is a plausible bug to try the properties on; no action *)
(* uses it.                                                                *)
(***************************************************************************)
EXTENDS Naturals

CONSTANTS
  Workers, NoOwner,        \* owners of an execution authority
  Tasks,                   \* stable task identities
  Inputs,                  \* identities of inbound inputs
  Targets, NoTarget,       \* interrupt targets; NoTarget is the empty string
  Operations, Artifacts,   \* external operations, registered artifacts
  Snapshots, NoSnapshot    \* opaque snapshot payloads; NoSnapshot is nil

ASSUME IdentityAssumption ==
  NoOwner \notin Workers /\ NoTarget \notin Targets /\ NoSnapshot \notin Snapshots

Terminal == {"succeeded", "failed", "cancelled"}
Statuses == {"queued", "running", "waiting"} \cup Terminal
TaskStatuses == {"succeeded", "failed", "waiting"}
OperationStatuses == {"intent", "dispatched", "unknown", "succeeded", "failed"}

\* An activation pins the attempt and the input (content and revision) it read.
Activations == [attempt : Nat, read : Nat]
Results == [status : TaskStatuses \cup {"absent"}, attempt : Nat, read : Nat,
            adopted : Nat]
InboundInputs == [accepted : BOOLEAN, target : Targets \cup {NoTarget},
                  consumed : Nat]
WaitingSets == [declared : BOOLEAN, targets : SUBSET Targets]

RunRecords ==
  [status : Statuses \cup {"absent"}, revision : Nat, owner : Workers \cup {NoOwner},
   fence : Nat, lease : Nat, wake : Nat, waiting : WaitingSets,
   snapshot : Snapshots \cup {NoSnapshot}, sequence : Nat,
   activations : [Tasks -> Activations], tasks : [Tasks -> Results],
   inputs : [Inputs -> InboundInputs],
   operations : [Operations -> OperationStatuses \cup {"absent"}],
   artifacts : [Artifacts -> 0..3]]

NoActivation == [attempt |-> 0, read |-> 0]
NoResult == [status |-> "absent", attempt |-> 0, read |-> 0, adopted |-> 0]
NoInput == [accepted |-> FALSE, target |-> NoTarget, consumed |-> 0]
Undeclared == [declared |-> FALSE, targets |-> {}]

AbsentRun ==
  [status |-> "absent", revision |-> 0, owner |-> NoOwner, fence |-> 0, lease |-> 0,
   wake |-> 0, waiting |-> Undeclared, snapshot |-> NoSnapshot, sequence |-> 0,
   activations |-> [t \in Tasks |-> NoActivation], tasks |-> [t \in Tasks |-> NoResult],
   inputs |-> [i \in Inputs |-> NoInput],
   operations |-> [o \in Operations |-> "absent"], artifacts |-> [a \in Artifacts |-> 0]]

(***************************************************************************)
(* A frozen commit request.  "keep", NoSnapshot, Undeclared and            *)
(* rewake = FALSE stand for the fields a caller leaves nil.                *)
(***************************************************************************)
Requests ==
  [owner : Workers \cup {NoOwner}, fence : Nat, expected : Nat,
   activate : [Tasks -> Activations], results : [Tasks -> Results],
   adopt : SUBSET Tasks, consume : SUBSET Inputs,
   operations : [Operations -> OperationStatuses \cup {"absent"}],
   artifacts : [Artifacts -> 0..3],
   snapshot : Snapshots \cup {NoSnapshot}, status : Statuses \cup {"keep"},
   waiting : WaitingSets, rewake : BOOLEAN, wake : Nat, events : Nat]

EmptyRequest ==
  [owner |-> NoOwner, fence |-> 0, expected |-> 0,
   activate |-> [t \in Tasks |-> NoActivation], results |-> [t \in Tasks |-> NoResult],
   adopt |-> {}, consume |-> {}, operations |-> [o \in Operations |-> "absent"],
   artifacts |-> [a \in Artifacts |-> 0],
   snapshot |-> NoSnapshot, status |-> "keep", waiting |-> Undeclared,
   rewake |-> FALSE, wake |-> 0, events |-> 0]

(***************************************************************************)
(* Commit: the guards of ApplyCommit in their order, then its result.      *)
(***************************************************************************)
Live(r) == r.status \notin Terminal \cup {"absent"}
Holds(r, w, f) == r.owner = w /\ r.fence = f /\ r.lease > 0

Pending(input) == input.accepted /\ input.consumed = 0
IsWaitingTarget(waiting, target) == waiting.declared /\ target \in waiting.targets

Activated(r, q) ==
  [t \in Tasks |-> IF q.activate[t].attempt = 0 THEN r.activations[t] ELSE q.activate[t]]

ActivationOK(r, q, t) ==
  q.activate[t].attempt # 0 =>
    /\ q.activate[t].read <= r.revision
    /\ r.activations[t].attempt # 0 =>
         /\ r.activations[t].read = q.activate[t].read
         /\ r.tasks[t].status # "absent" =>
              r.activations[t].attempt = q.activate[t].attempt

WithoutAdoption(result) == [result EXCEPT !.adopted = 0]

ResultOK(r, q, t) ==
  q.results[t].status # "absent" =>
    /\ q.results[t].attempt # 0 /\ q.results[t].adopted = 0
    /\ Activated(r, q)[t].attempt = q.results[t].attempt
    /\ Activated(r, q)[t].read = q.results[t].read
    /\ r.tasks[t].status # "absent" => WithoutAdoption(r.tasks[t]) = q.results[t]

Saved(r, q) ==
  [t \in Tasks |-> IF r.tasks[t].status = "absent" /\ q.results[t].status # "absent"
                   THEN q.results[t] ELSE r.tasks[t]]

Adopted(r, q) ==
  [t \in Tasks |-> IF t \in q.adopt
                   THEN [Saved(r, q)[t] EXCEPT !.adopted = r.revision + 1]
                   ELSE Saved(r, q)[t]]

Consumed(r, q) ==
  [i \in Inputs |-> IF i \in q.consume
                    THEN [r.inputs[i] EXCEPT !.consumed = r.revision + 1]
                    ELSE r.inputs[i]]

AdoptOK(r, q, t) == Saved(r, q)[t].status = "succeeded" /\ Saved(r, q)[t].adopted = 0
ConsumeOK(r, q, i) == Pending(r.inputs[i])
OperationOK(r, q, o) ==
  q.operations[o] # "absent" /\ r.operations[o] = "succeeded"
    => q.operations[o] = "succeeded"
ArtifactOK(r, q, a) == q.artifacts[a] # 0 => q.artifacts[a] >= r.artifacts[a]

FactsOK(r, q) ==
  /\ \A t \in Tasks : ActivationOK(r, q, t) /\ ResultOK(r, q, t)
  /\ \A t \in q.adopt : AdoptOK(r, q, t)
  /\ \A i \in q.consume : ConsumeOK(r, q, i)
  /\ \A o \in Operations : OperationOK(r, q, o)
  /\ \A a \in Artifacts : ArtifactOK(r, q, a)

UnfencedCommitOK(r, q) ==
  r.status # "absent" /\ r.revision = q.expected /\ Live(r) /\ FactsOK(r, q)
PosthumousCommitOK(r, q) ==
  r.revision = q.expected /\ q.owner # NoOwner /\ Holds(r, q.owner, q.fence) /\ FactsOK(r, q)
UnguardedCommitOK(r, q) == Live(r) /\ FactsOK(r, q)
CommitOK(r, q) ==
  /\ r.status # "absent" /\ r.revision = q.expected
  /\ Live(r)
  /\ q.owner # NoOwner /\ Holds(r, q.owner, q.fence)
  /\ FactsOK(r, q)

NextWaiting(r, q) == IF q.waiting.declared THEN q.waiting ELSE r.waiting

\* Some pending input answers a target the run will be waiting for.
Answered(r, q) ==
  \E i \in Inputs : LET input == Consumed(r, q)[i] IN
    /\ Pending(input) /\ input.target # NoTarget
    /\ IsWaitingTarget(NextWaiting(r, q), input.target)

FaultyRequestedStatus(r, q) == q.status
RequestedStatus(r, q) == IF q.status = "keep" THEN r.status ELSE q.status

FaultyNextStatus(r, q) == RequestedStatus(r, q)
NextStatus(r, q) ==
  IF RequestedStatus(r, q) = "waiting" /\ Answered(r, q)
  THEN "queued" ELSE RequestedStatus(r, q)

Committed(r, q) ==
  [status |-> NextStatus(r, q), revision |-> r.revision + 1,
   owner |-> r.owner, fence |-> r.fence, lease |-> r.lease,
   wake |-> IF q.rewake THEN q.wake ELSE r.wake, waiting |-> NextWaiting(r, q),
   snapshot |-> IF q.snapshot = NoSnapshot THEN r.snapshot ELSE q.snapshot,
   sequence |-> r.sequence + q.events,
   activations |-> Activated(r, q), tasks |-> Adopted(r, q), inputs |-> Consumed(r, q),
   operations |-> [o \in Operations |->
     IF q.operations[o] = "absent" THEN r.operations[o] ELSE q.operations[o]],
   artifacts |-> [a \in Artifacts |->
     IF q.artifacts[a] = 0 THEN r.artifacts[a] ELSE q.artifacts[a]]]

(***************************************************************************)
(* Scheduling transitions: they change the record without a new revision,  *)
(* except Cancel.                                                          *)
(***************************************************************************)
Submitted(i) ==
  [AbsentRun EXCEPT !.status = "queued", !.inputs[i].accepted = TRUE]

SignalOK(r, i, target) ==
  /\ Live(r) /\ ~r.inputs[i].accepted
  /\ target # NoTarget /\ r.waiting.declared => IsWaitingTarget(r.waiting, target)
Signalled(r, i, target) ==
  [r EXCEPT !.inputs[i] = [accepted |-> TRUE, target |-> target, consumed |-> 0],
            !.status = IF r.status = "waiting" THEN "queued" ELSE r.status,
            !.wake = IF r.status = "waiting" THEN 0 ELSE r.wake]

ClaimOK(r) ==
  /\ Live(r)
  /\ r.status = "waiting" => r.wake # 0
  /\ r.wake <= 1
  /\ ~(r.owner # NoOwner /\ r.lease > 0)
UnfencedClaimed(r, w, ttl) ==
  [r EXCEPT !.owner = w, !.lease = ttl, !.status = "running", !.wake = 0]
ForgetfulClaimed(r, w, ttl) ==
  [r EXCEPT !.owner = w, !.fence = r.fence + 1, !.lease = ttl, !.status = "running",
            !.wake = 0, !.waiting = Undeclared]
Claimed(r, w, ttl) ==
  [r EXCEPT !.owner = w, !.fence = r.fence + 1, !.lease = ttl,
            !.status = "running", !.wake = 0]

RenewOK(r, w, f) == Live(r) /\ Holds(r, w, f)
Renewed(r, ttl) == [r EXCEPT !.lease = ttl]

ReleaseOK(r, w, f) == r.status # "absent" /\ r.owner = w /\ r.fence = f
Released(r) ==
  [r EXCEPT !.lease = 0, !.status = IF r.status = "running" THEN "queued" ELSE r.status]

CancelOK(r) == Live(r)
Cancelled(r) ==
  [r EXCEPT !.status = "cancelled", !.lease = 0, !.fence = r.fence + 1,
            !.revision = r.revision + 1, !.sequence = r.sequence + 1]

\* The WHERE clause of the workers' poll; Claim repeats the decision under the lock.
FaultyRunnable(r) == Live(r) /\ r.lease = 0 /\ r.wake <= 1
Runnable(r) ==
  /\ r.status \in {"queued", "running"} \/ (r.status = "waiting" /\ r.wake # 0)
  /\ r.lease = 0
  /\ r.wake <= 1

\* One tick of the database clock, to which lease_until and wake_at are compared.
Aged(r) == [r EXCEPT !.lease = IF r.lease > 0 THEN r.lease - 1 ELSE 0,
                     !.wake = IF r.wake > 1 THEN r.wake - 1 ELSE r.wake]
=============================================================================
