------------------------------ MODULE Reporter ------------------------------
(***************************************************************************)
(* reporting::Reporter (src/reporting/reporter.cpp): a queue that monitor  *)
(* threads append to, flushed batch by batch by a PeriodicRunner thread    *)
(* and once more by the thread that calls stop().  A batch is taken under  *)
(* the queue's lock, sent without it, and put back at the front when the   *)
(* send fails.                                                             *)
(*                                                                         *)
(* The runner thread is the one of module Runner: stop() asks it to leave, *)
(* lets a tick in progress finish, and joins it.                           *)
(***************************************************************************)
EXTENDS Integers, Sequences

CONSTANTS
  Event,       \* the events monitors enqueue
  BatchSize    \* batch_size_: an int, taken from the configuration as it is

ASSUME BatchSizeAssumption == BatchSize \in Int

VARIABLES
  enabled,    \* enabled_
  endpoint,   \* is endpoint_ non-empty?
  rRunning,   \* running_
  rArmed,     \* the runner's own running_ flag
  rThread,    \* the runner thread: none, idle, tick, send, exited
  rStop,      \* the thread inside stop(): idle (not there), join, flush, send
  queue,      \* queue_
  batch,      \* the local `batch` of flush_batch, per thread executing it
  accepted,   \* history: the events enqueued
  posted      \* history: the events posted to the endpoint

rVars == <<enabled, endpoint, rRunning, rArmed, rThread, rStop, queue, batch,
           accepted, posted>>

Flusher == {"runner", "stop"}

TypeOK ==
  /\ enabled \in BOOLEAN
  /\ endpoint \in BOOLEAN
  /\ rRunning \in BOOLEAN
  /\ rArmed \in BOOLEAN
  /\ rThread \in {"none", "idle", "tick", "send", "exited"}
  /\ rStop \in {"idle", "join", "flush", "send"}
  /\ queue \in Seq(Event)
  /\ batch \in [Flusher -> Seq(Event)]
  /\ accepted \in Seq(Event)
  /\ posted \in Seq(Event)

\* A new Reporter, configured and enabled as the configuration says.
Init ==
  /\ enabled \in BOOLEAN
  /\ endpoint \in BOOLEAN
  /\ rRunning = FALSE
  /\ rArmed = FALSE
  /\ rThread = "none"
  /\ rStop = "idle"
  /\ queue = <<>>
  /\ batch = [f \in Flusher |-> <<>>]
  /\ accepted = <<>>
  /\ posted = <<>>

\* The engine replaces its Reporter by a new one and configures it; what the
\* old one still had queued goes with it.
Configure ==
  /\ rThread = "none"
  /\ rStop = "idle"
  /\ enabled' \in BOOLEAN
  /\ endpoint' \in BOOLEAN
  /\ rRunning' = FALSE
  /\ rArmed' = FALSE
  /\ queue' = <<>>
  /\ batch' = [f \in Flusher |-> <<>>]
  /\ accepted' = <<>>
  /\ posted' = <<>>
  /\ UNCHANGED <<rThread, rStop>>

-----------------------------------------------------------------------------
(* flush_batch() in two steps, for the thread f.                           *)

\* How many events a flush takes.  The comparison casts batch_size_ to an
\* unsigned type, so a negative size takes the whole queue; a size of zero
\* takes nothing.
BatchLen ==
  IF BatchSize >= 0 /\ Len(queue) > BatchSize THEN BatchSize ELSE Len(queue)

\* Under queue_mutex_: move the first events of the queue to the batch.
TakeBatch(f) ==
  /\ batch' = [batch EXCEPT ![f] = SubSeq(queue, 1, BatchLen)]
  /\ queue' = SubSeq(queue, BatchLen + 1, Len(queue))

\* (The Mutant definitions are deliberately wrong variants of the definition
\* that follows them; the README says what they are for.)
MutantSendBatch(f) ==
  /\ IF endpoint
     THEN posted' = posted \o batch[f] /\ UNCHANGED queue
     ELSE queue' = queue \o batch[f] /\ UNCHANGED posted
  /\ batch' = [batch EXCEPT ![f] = <<>>]

\* Without the lock: post the batch.  send_http_post fails exactly when no
\* endpoint is configured; a failed batch goes back to the front.
SendBatch(f) ==
  /\ IF endpoint
     THEN posted' = posted \o batch[f] /\ UNCHANGED queue
     ELSE queue' = batch[f] \o queue /\ UNCHANGED posted
  /\ batch' = [batch EXCEPT ![f] = <<>>]

-----------------------------------------------------------------------------
(* Producers.                                                              *)

\* enqueue(event)
Enqueue(e) ==
  /\ enabled
  /\ queue' = Append(queue, e)
  /\ accepted' = Append(accepted, e)
  /\ UNCHANGED <<enabled, endpoint, rRunning, rArmed, rThread, rStop, batch, posted>>

\* enqueue_batch(events), here with two of them
EnqueueBatch(e, f) ==
  /\ enabled
  /\ queue' = queue \o <<e, f>>
  /\ accepted' = accepted \o <<e, f>>
  /\ UNCHANGED <<enabled, endpoint, rRunning, rArmed, rThread, rStop, batch, posted>>

-----------------------------------------------------------------------------
(* start(), stop() and the runner thread.                                  *)

Start ==
  /\ rStop = "idle"
  /\ ~rRunning
  /\ rRunning' = TRUE
  /\ rArmed' = TRUE
  /\ rThread' = "idle"
  /\ UNCHANGED <<enabled, endpoint, rStop, queue, batch, accepted, posted>>

\* The runner sees its flag set and enters tick().
BeginTick ==
  /\ rThread = "idle"
  /\ rArmed
  /\ rThread' = "tick"
  /\ UNCHANGED <<enabled, endpoint, rRunning, rArmed, rStop, queue, batch,
                 accepted, posted>>

MutantTickTake ==
  /\ rThread = "tick"
  /\ IF Len(queue) >= BatchSize
     THEN TakeBatch("runner") ELSE UNCHANGED <<queue, batch>>
  /\ rThread' = IF batch'["runner"] = <<>> THEN "idle" ELSE "send"
  /\ UNCHANGED <<enabled, endpoint, rRunning, rArmed, rStop, accepted, posted>>

\* tick() calls flush_batch(): nothing to send, or a batch to send.
TickTake ==
  /\ rThread = "tick"
  /\ TakeBatch("runner")
  /\ rThread' = IF batch'["runner"] = <<>> THEN "idle" ELSE "send"
  /\ UNCHANGED <<enabled, endpoint, rRunning, rArmed, rStop, accepted, posted>>

TickSend ==
  /\ rThread = "send"
  /\ SendBatch("runner")
  /\ rThread' = "idle"
  /\ UNCHANGED <<enabled, endpoint, rRunning, rArmed, rStop, accepted>>

\* The runner sees its flag cleared and leaves its loop.
RunnerExit ==
  /\ rThread = "idle"
  /\ ~rArmed
  /\ rThread' = "exited"
  /\ UNCHANGED <<enabled, endpoint, rRunning, rArmed, rStop, queue, batch,
                 accepted, posted>>

\* stop(): clear running_, ask the runner to leave.
StopRequest ==
  /\ rStop = "idle"
  /\ rRunning
  /\ rRunning' = FALSE
  /\ rArmed' = FALSE
  /\ rStop' = "join"
  /\ UNCHANGED <<enabled, endpoint, rThread, queue, batch, accepted, posted>>

MutantStopJoin ==
  /\ rStop = "join"
  /\ rStop' = "flush"
  /\ UNCHANGED <<enabled, endpoint, rRunning, rArmed, rThread, queue, batch,
                 accepted, posted>>

\* ... join its thread ...
StopJoin ==
  /\ rStop = "join"
  /\ rThread = "exited"
  /\ rThread' = "none"
  /\ rStop' = "flush"
  /\ UNCHANGED <<enabled, endpoint, rRunning, rArmed, queue, batch, accepted,
                 posted>>

\* ... and flush one last batch.
StopTake ==
  /\ rStop = "flush"
  /\ TakeBatch("stop")
  /\ rStop' = IF batch'["stop"] = <<>> THEN "idle" ELSE "send"
  /\ UNCHANGED <<enabled, endpoint, rRunning, rArmed, rThread, accepted, posted>>

StopSend ==
  /\ rStop = "send"
  /\ SendBatch("stop")
  /\ rStop' = "idle"
  /\ UNCHANGED <<enabled, endpoint, rRunning, rArmed, rThread, accepted>>

RunnerStep == BeginTick \/ TickTake \/ TickSend \/ RunnerExit
StopStep == StopJoin \/ StopTake \/ StopSend

Next ==
  \/ \E e \in Event : Enqueue(e)
  \/ \E e, f \in Event : EnqueueBatch(e, f)
  \/ Start \/ StopRequest
  \/ RunnerStep
  \/ StopStep

\* The runner thread and a thread inside stop() are scheduled.
Spec ==
  /\ Init
  /\ [][Next]_rVars
  /\ WF_rVars(RunnerStep)
  /\ WF_rVars(StopStep)

-----------------------------------------------------------------------------
(* Properties.                                                             *)

(***************************************************************************)
(* Nothing is lost, duplicated or reordered between enqueue() and the      *)
(* endpoint, whatever fails: what was posted, then the batch in flight,    *)
(* then the queue, is exactly what was enqueued (flush_batch re-queues a   *)
(* failed batch at the front, and only one thread flushes at a time).      *)
(***************************************************************************)
NothingLostOrReordered ==
  posted \o batch["stop"] \o batch["runner"] \o queue = accepted

(***************************************************************************)
(* What makes it inductive: stop() flushes only after it has joined the    *)
(* runner, so at most one thread has a batch in flight, a thread has one   *)
(* only between its two steps, and a runner thread exists exactly from     *)
(* start() to the join of stop().                                          *)
(***************************************************************************)
OneFlusher ==
  /\ rStop \in {"flush", "send"} => rThread = "none"
  /\ rThread # "send" => batch["runner"] = <<>>
  /\ rStop # "send" => batch["stop"] = <<>>
  /\ rThread = "none" <=> ~rRunning /\ rStop # "join"
  /\ rRunning => rStop = "idle"

\* The posted events form the abstract feed.
Feed == INSTANCE ReportFeed

(***************************************************************************)
(* The endpoint sees a prefix of the accepted events, in order             *)
(* (reporter.cpp, flush_batch and stop).                                   *)
(***************************************************************************)
ImplementsFeed == Feed!Spec

(***************************************************************************)
(* With an endpoint, a positive batch size and a reporter that keeps       *)
(* running, every accepted event is eventually posted (reporter.cpp, tick  *)
(* and flush_batch).                                                       *)
(***************************************************************************)
EventuallyPosted ==
  \A n \in 1..4 :
    (Len(accepted) >= n /\ endpoint /\ BatchSize > 0 /\ rRunning)
      ~> (Len(posted) >= n \/ ~rRunning)

=============================================================================
