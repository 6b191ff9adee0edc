------------------------------ MODULE RunLedger ------------------------------
(***************************************************************************)
(* What the durable store promises about one run, with no worker, lease,   *)
(* revision check or transaction in sight: a ledger of settled facts.  A   *)
(* run is opened once with its first input, accepts further inputs while   *)
(* it is open, and moves from revision to revision.  One revision settles  *)
(* facts atomically and for good: a task outcome is recorded once, only a  *)
(* successful outcome is adopted, an accepted input is consumed, an        *)
(* operation confirmed, an artifact advanced.  The revision that closes    *)
(* the run is the last one.  (The contract commented in runtime/commit.go, *)
(* task.go and operation.go; RunStore implements it.)                      *)
(***************************************************************************)
EXTENDS Naturals

CONSTANTS Tasks, Inputs, Operations, Artifacts

VARIABLES
  phase,      \* "none", "open" or "closed"
  revision,   \* the number of settled revisions
  accepted,   \* inputs accepted
  consumed,   \* inputs a revision consumed
  outcome,    \* [Tasks -> outcome], "absent" until it is recorded
  adopted,    \* tasks whose success entered the run's state
  confirmed,  \* operations known to have succeeded
  stage       \* [Artifacts -> 0..3]: none, stored, registered, delivered

ledger == <<phase, revision, accepted, consumed, outcome, adopted, confirmed, stage>>

Outcomes == {"succeeded", "failed", "waiting"}

Init ==
  /\ phase = "none" /\ revision = 0
  /\ accepted = {} /\ consumed = {}
  /\ outcome = [t \in Tasks |-> "absent"] /\ adopted = {}
  /\ confirmed = {} /\ stage = [a \in Artifacts |-> 0]

Open(i) ==
  /\ phase = "none" /\ phase' = "open"
  /\ accepted' = {i}
  /\ UNCHANGED <<revision, consumed, outcome, adopted, confirmed, stage>>

Accept(i) ==
  /\ phase = "open" /\ i \notin accepted
  /\ accepted' = accepted \cup {i}
  /\ UNCHANGED <<phase, revision, consumed, outcome, adopted, confirmed, stage>>

Settle ==
  /\ phase = "open" /\ phase' \in {"open", "closed"}
  /\ revision' = revision + 1
  /\ \E C \in SUBSET (accepted \ consumed) : consumed' = consumed \cup C
  /\ \A t \in Tasks : outcome[t] # "absent" => outcome'[t] = outcome[t]
  /\ outcome' \in [Tasks -> Outcomes \cup {"absent"}]
  /\ \E A \in SUBSET (Tasks \ adopted) :
       /\ \A t \in A : outcome'[t] = "succeeded"
       /\ adopted' = adopted \cup A
  /\ confirmed \subseteq confirmed' /\ confirmed' \in SUBSET Operations
  /\ stage' \in [Artifacts -> 0..3]
  /\ \A a \in Artifacts : stage'[a] >= stage[a]
  /\ UNCHANGED accepted

Next ==
  \/ \E i \in Inputs : Open(i)
  \/ \E i \in Inputs : Accept(i)
  \/ Settle

Spec == Init /\ [][Next]_ledger
=============================================================================
