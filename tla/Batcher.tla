------------------------------- MODULE Batcher -------------------------------
(***************************************************************************)
(* The request batcher of src/llm/batch/batch.go: callers put requests in  *)
(* a bounded queue, a collector groups them, workers process the groups    *)
(* and answer the callers, and Stop lets what was queued go through.       *)
(*                                                                         *)
(* A request is its identity; what the provider returns, its retries and   *)
(* the rate limiter only decide how long processing takes.  A select with  *)
(* several ready cases takes any of them.                                  *)
(***************************************************************************)
EXTENDS Naturals, FiniteSets, SequencesExt

CONSTANTS
  Reqs,          \* requests, each submitted at most once
  Workers,       \* the MaxConcurrent worker goroutines
  QueueSize,     \* capacity of the queue
  MaxBatchSize   \* size at which a batch is flushed

\* What the constants have to satisfy.
BatcherConstants == QueueSize \in Nat \ {0} /\ MaxBatchSize \in Nat \ {0}

VARIABLES
  caller,     \* request -> where its Submit call stands
  queue,      \* the channel of pending requests
  batch,      \* the collector's buffer
  collector,  \* where the collector goroutine stands
  batchChan,  \* the channel of batches to the workers
  chanClosed, \* batchChan is closed
  worker,     \* worker -> the batch it processes and how far it is
  stopping,   \* stopChan is closed
  called      \* the requests of batches whose OnBatchComplete has returned

batcher_vars == <<caller, queue, batch, collector, batchChan, chanClosed, worker,
                  stopping, called>>

IdleWorker == [at |-> "receiving", batch |-> <<>>, finished |-> {}]

Init ==
  /\ caller = [r \in Reqs |-> "new"]
  /\ queue = <<>> /\ batch = <<>> /\ batchChan = <<>>
  /\ collector = "unborn" /\ chanClosed = FALSE /\ stopping = FALSE
  /\ worker = [w \in Workers |-> [IdleWorker EXCEPT !.at = "unborn"]]
  /\ called = {}

----------------------------------------------------------------------------
(* Callers.  Submit does not look at whether the batcher runs.             *)

Submit(r) ==
  /\ caller[r] = "new"
  /\ IF Len(queue) < QueueSize
     THEN queue' = Append(queue, r) /\ caller' = [caller EXCEPT ![r] = "waiting"]
     ELSE caller' = [caller EXCEPT ![r] = "refused"] /\ UNCHANGED queue
  /\ UNCHANGED <<batch, collector, batchChan, chanClosed, worker, stopping, called>>

\* The caller's context ends; its request stays where it is.
GiveUp(r) ==
  /\ caller[r] = "waiting"
  /\ caller' = [caller EXCEPT ![r] = "gone"]
  /\ UNCHANGED <<queue, batch, collector, batchChan, chanClosed, worker, stopping, called>>

Start ==
  /\ collector = "unborn"
  /\ collector' = "collecting"
  /\ worker' = [w \in Workers |-> IdleWorker]
  /\ UNCHANGED <<caller, queue, batch, batchChan, chanClosed, stopping, called>>

Stop ==
  /\ collector # "unborn" /\ ~stopping
  /\ stopping' = TRUE
  /\ UNCHANGED <<caller, queue, batch, collector, batchChan, chanClosed, worker, called>>

----------------------------------------------------------------------------
(* The collector.                                                          *)

Take ==
  /\ queue # <<>>
  /\ queue' = Tail(queue)
  /\ batch' = Append(batch, Head(queue))

\* case req := <-b.queue
Collect ==
  /\ collector = "collecting"
  /\ Take
  /\ collector' = IF Len(batch') >= MaxBatchSize THEN "flushing" ELSE "collecting"
  /\ UNCHANGED <<caller, batchChan, chanClosed, worker, stopping, called>>

\* The ticker flushes an empty buffer too.
FaultyTick ==
  /\ collector = "collecting"
  /\ collector' = "flushing"
  /\ UNCHANGED <<caller, queue, batch, batchChan, chanClosed, worker, stopping, called>>

\* case <-ticker.C
Tick ==
  /\ collector = "collecting" /\ batch # <<>>
  /\ collector' = "flushing"
  /\ UNCHANGED <<caller, queue, batch, batchChan, chanClosed, worker, stopping, called>>

Send == /\ Len(batchChan) < Cardinality(Workers)
        /\ batchChan' = Append(batchChan, batch)
        /\ batch' = <<>>

\* The way out forgets the batch.
FaultyFlush ==
  /\ collector = "flushing"
  /\ collector' = "collecting"
  /\ \/ Send
     \/ stopping /\ batch' = <<>> /\ UNCHANGED batchChan
  /\ UNCHANGED <<caller, queue, chanClosed, worker, stopping, called>>

\* flush(false): the send, or the way out when stopChan is closed, which
\* keeps the batch.
Flush ==
  /\ collector = "flushing"
  /\ collector' = "collecting"
  /\ \/ Send
     \/ stopping /\ UNCHANGED <<batch, batchChan>>
  /\ UNCHANGED <<caller, queue, chanClosed, worker, stopping, called>>

\* case <-b.stopChan
BeginDrain ==
  /\ collector = "collecting" /\ stopping
  /\ collector' = "draining"
  /\ UNCHANGED <<caller, queue, batch, batchChan, chanClosed, worker, stopping, called>>

\* What is still queued when Stop comes is left there.
FaultyDrain ==
  /\ collector = "draining"
  /\ collector' = "lastFlushing"
  /\ UNCHANGED <<caller, queue, batch, batchChan, chanClosed, worker, stopping, called>>

Drain ==
  /\ collector = "draining"
  /\ \/ Take /\ collector' = IF Len(batch') >= MaxBatchSize THEN "drainFlushing" ELSE "draining"
     \/ queue = <<>> /\ collector' = "lastFlushing" /\ UNCHANGED <<queue, batch>>
  /\ UNCHANGED <<caller, batchChan, chanClosed, worker, stopping, called>>

\* flush(true) inside the drain loop: a plain blocking send.
DrainFlush ==
  /\ collector = "drainFlushing"
  /\ Send
  /\ collector' = "draining"
  /\ UNCHANGED <<caller, queue, chanClosed, worker, stopping, called>>

\* The last flush(true), close(batchChan) and the return.
LastFlush ==
  /\ collector = "lastFlushing"
  /\ \/ batch # <<>> /\ Send
     \/ batch = <<>> /\ UNCHANGED <<batch, batchChan>>
  /\ collector' = "returned"
  /\ chanClosed' = TRUE
  /\ UNCHANGED <<caller, queue, worker, stopping, called>>

----------------------------------------------------------------------------
(* The workers.                                                            *)

Receive(w) ==
  /\ worker[w].at = "receiving"
  /\ \/ /\ batchChan # <<>>
        /\ worker' = [worker EXCEPT ![w].at = "processing", ![w].batch = Head(batchChan)]
        /\ batchChan' = Tail(batchChan)
     \/ /\ batchChan = <<>> /\ chanClosed
        /\ worker' = [worker EXCEPT ![w].at = "returned"]
        /\ UNCHANGED batchChan
  /\ UNCHANGED <<caller, queue, batch, collector, chanClosed, stopping, called>>

\* processRequest of one request of the batch returns; they run concurrently.
Process(w, r) ==
  /\ worker[w].at = "processing"
  /\ r \in ToSet(worker[w].batch) \ worker[w].finished
  /\ worker' = [worker EXCEPT ![w].finished = @ \cup {r}]
  /\ UNCHANGED <<caller, queue, batch, collector, batchChan, chanClosed, stopping, called>>

AllProcessed(w) == worker[w].finished = ToSet(worker[w].batch)

\* wg.Wait has returned and OnBatchComplete is called.
Complete(w) ==
  /\ worker[w].at = "processing"
  /\ AllProcessed(w)
  /\ called' = called \cup ToSet(worker[w].batch)
  /\ worker' = [worker EXCEPT ![w].at = "delivering"]
  /\ UNCHANGED <<caller, queue, batch, collector, batchChan, chanClosed, stopping>>

\* pending.response <- pending.result wakes the caller that still waits.
Deliver(w) ==
  /\ worker[w].at = "delivering"
  /\ LET r    == Head(worker[w].batch)
         rest == Tail(worker[w].batch)
     IN  /\ caller' = [caller EXCEPT ![r] = IF @ = "waiting" THEN "answered" ELSE @]
         /\ worker' = [worker EXCEPT ![w] =
                         IF rest = <<>> THEN IdleWorker ELSE [@ EXCEPT !.batch = rest]]
  /\ UNCHANGED <<queue, batch, collector, batchChan, chanClosed, stopping, called>>

----------------------------------------------------------------------------
CollectorStep == Collect \/ Tick \/ Flush \/ BeginDrain \/ Drain \/ DrainFlush \/ LastFlush

WorkerStep(w) ==
  \/ Receive(w)
  \/ \E r \in Reqs : Process(w, r)
  \/ Complete(w)
  \/ Deliver(w)

Next ==
  \/ \E r \in Reqs : Submit(r) \/ GiveUp(r)
  \/ Start \/ Stop
  \/ CollectorStep
  \/ \E w \in Workers : WorkerStep(w)

Spec == Init /\ [][Next]_batcher_vars

(* The goroutines of a started batcher run, its ticker ticks and the       *)
(* provider answers; nobody has to submit, start, stop or give up.  select *)
(* picks among its ready cases at random, so the collector does not pass   *)
(* over a closed stopChan for ever.                                        *)
Fairness ==
  /\ WF_batcher_vars(CollectorStep)
  /\ WF_batcher_vars(Tick)
  /\ SF_batcher_vars(BeginDrain)
  /\ \A w \in Workers : WF_batcher_vars(WorkerStep(w))

FairSpec == Spec /\ Fairness

----------------------------------------------------------------------------
TypeOK ==
  /\ caller \in [Reqs -> {"new", "waiting", "refused", "gone", "answered"}]
  /\ queue \in Seq(Reqs) /\ Len(queue) <= QueueSize
  /\ batch \in Seq(Reqs)
  /\ collector \in {"unborn", "collecting", "flushing", "draining", "drainFlushing",
                    "lastFlushing", "returned"}
  /\ \A i \in DOMAIN batchChan : batchChan[i] \in Seq(Reqs) /\ batchChan[i] # <<>>
  /\ Len(batchChan) <= Cardinality(Workers)
  /\ \A w \in Workers : /\ worker[w].at \in {"unborn", "receiving", "processing",
                                             "delivering", "returned"}
                        /\ worker[w].batch \in Seq(Reqs)
                        /\ worker[w].finished \subseteq Reqs
  /\ chanClosed \in BOOLEAN /\ stopping \in BOOLEAN /\ called \subseteq Reqs

\* How many copies of r are on their way, in the queue, the buffer, the
\* channel of batches or the hands of a worker.
Copies(r) ==
  LET At(s) == {i \in DOMAIN s : s[i] = r}
  IN  Cardinality(At(queue)) + Cardinality(At(batch))
      + Cardinality(UNION {{i} \X At(batchChan[i]) : i \in DOMAIN batchChan})
      + Cardinality({w \in Workers : r \in ToSet(worker[w].batch)})

(* A waiting caller's request is in exactly one place on its way to an     *)
(* answer: no race of a flush with Stop drops it or sends it twice.  And   *)
(* an answered caller's batch has had its completion callback.             *)
NothingIsLost == \A r \in Reqs :
  /\ caller[r] = "waiting" => Copies(r) = 1
  /\ caller[r] = "answered" => r \in called

(* Whatever was queued before Stop is answered, unless its caller gave up, *)
(* through the collector's ordinary, draining and last flushes.            *)
QueuedIsAnswered == \A r \in Reqs :
  (caller[r] = "waiting" /\ collector # "unborn" /\ ~stopping)
     ~> caller[r] \in {"answered", "gone"}
=============================================================================
