--------------------------- MODULE PeriodicRunner ---------------------------
(***************************************************************************)
(* utils::PeriodicRunner (src/utils/periodic_runner.h): a worker thread    *)
(* that runs a task, then waits on a condition variable for the poll       *)
(* interval or until running_ is cleared, and an owner that starts and     *)
(* stops it.                                                               *)
(*                                                                         *)
(* stop() clears running_ and notifies WITHOUT holding mutex_, so the      *)
(* notification can fall between the worker's evaluation of the wait       *)
(* predicate and its wait: it is then lost, and only the time-out of       *)
(* wait_for lets the worker see the cleared flag.  The model keeps the     *)
(* predicate and the wait as two steps to have that window.                *)
(*                                                                         *)
(* mutex_ is only ever taken by the worker itself and is not modelled.     *)
(***************************************************************************)
EXTENDS Naturals

CONSTANT Interval   \* interval_, in clock ticks

ASSUME IntervalAssumption == Interval \in Nat

VARIABLES
  running,    \* running_ (atomic)
  worker,     \* where the worker thread is in run_loop
  owner,      \* where the owner is in start() / stop()
  left,       \* clock ticks until the deadline of the current wait_for
  lateTicks   \* history: ticks spent in wait_for since the stop request

vars == <<running, worker, owner, left, lateTicks>>

\* "none"     no thread              "head"     at the while condition
\* "task"     inside task_()         "pred"     evaluating the predicate
\* "block"    predicate was false, not yet on the condition's wait queue
\* "waiting"  on the wait queue      "exited"   run_loop has returned
WorkerStates ==
  {"none", "head", "task", "pred", "block", "waiting", "exited"}

\* "idle"     no thread: never started, or stop() has returned
\* "started"  start() has returned
\* "notify"   in stop(), running_ exchanged   "join"  in stop(), joining
OwnerStates == {"idle", "started", "notify", "join"}

TypeOK ==
  /\ running \in BOOLEAN
  /\ worker \in WorkerStates
  /\ owner \in OwnerStates
  /\ left \in 0..Interval
  /\ lateTicks \in Nat

Init ==
  /\ running = FALSE
  /\ worker = "none"
  /\ owner = "idle"
  /\ left = 0
  /\ lateTicks = 0

-----------------------------------------------------------------------------
(* The owner.                                                              *)

\* (The Mutant definitions are deliberately wrong variants of the definition
\* that follows them; the README says what they are for.)
MutantStart ==
  /\ owner = "idle"
  /\ running' = FALSE
  /\ worker' = "head"
  /\ owner' = "started"
  /\ lateTicks' = 0
  /\ UNCHANGED left

\* start(): set running_, then create the thread.
Start ==
  /\ owner = "idle"
  /\ running' = TRUE
  /\ worker' = "head"
  /\ owner' = "started"
  /\ lateTicks' = 0
  /\ UNCHANGED left

\* stop(), running_.exchange(false).  On a runner that does not run the
\* exchange returns false and stop() returns at once, changing nothing.
RequestStop ==
  /\ owner = "started"
  /\ running
  /\ running' = FALSE
  /\ owner' = "notify"
  /\ UNCHANGED <<worker, left, lateTicks>>

\* stop(), cv_.notify_all(): only a thread already on the wait queue hears it.
NotifyAll ==
  /\ owner = "notify"
  /\ worker' = IF worker = "waiting" THEN "pred" ELSE worker
  /\ owner' = "join"
  /\ UNCHANGED <<running, left, lateTicks>>

\* stop(), thread_.join().
Join ==
  /\ owner = "join"
  /\ worker = "exited"
  /\ worker' = "none"
  /\ owner' = "idle"
  /\ UNCHANGED <<running, left, lateTicks>>

-----------------------------------------------------------------------------
(* The worker, run_loop().                                                 *)

MutantLoopHead ==
  /\ worker = "head"
  /\ worker' = "task"
  /\ UNCHANGED <<running, owner, left, lateTicks>>

\* while (running_.load()): enter the task, or leave the loop.
LoopHead ==
  /\ worker = "head"
  /\ worker' = IF running THEN "task" ELSE "exited"
  /\ UNCHANGED <<running, owner, left, lateTicks>>

\* task_() returns, or throws and the exception is swallowed; wait_for then
\* fixes its deadline.
EndTask ==
  /\ worker = "task"
  /\ worker' = "pred"
  /\ left' = Interval
  /\ UNCHANGED <<running, owner, lateTicks>>

\* wait_for evaluates its predicate !running_.
Predicate ==
  /\ worker = "pred"
  /\ worker' = IF running THEN "block" ELSE "head"
  /\ UNCHANGED <<running, owner, left, lateTicks>>

\* ... and then puts the thread on the wait queue.
Block ==
  /\ worker = "block"
  /\ worker' = "waiting"
  /\ UNCHANGED <<running, owner, left, lateTicks>>

\* A spurious wake-up before the deadline evaluates the predicate again.
SpuriousWake ==
  /\ worker = "waiting"
  /\ left > 0
  /\ worker' = "pred"
  /\ UNCHANGED <<running, owner, left, lateTicks>>

MutantNoTimeout ==
  /\ FALSE
  /\ UNCHANGED vars

MutantTimeoutRewaits ==
  /\ worker = "waiting"
  /\ left = 0
  /\ worker' = "waiting"
  /\ left' = Interval
  /\ UNCHANGED <<running, owner, lateTicks>>

\* The deadline has passed: wait_for returns whatever the predicate says.
Timeout ==
  /\ worker = "waiting"
  /\ left = 0
  /\ worker' = "head"
  /\ UNCHANGED <<running, owner, left, lateTicks>>

\* Time passes towards the deadline of the wait_for in progress.
ClockTick ==
  /\ worker \in {"pred", "block", "waiting"}
  /\ left > 0
  /\ left' = left - 1
  /\ lateTicks' = IF running THEN lateTicks ELSE lateTicks + 1
  /\ UNCHANGED <<running, worker, owner>>

-----------------------------------------------------------------------------
Worker == LoopHead \/ EndTask \/ Predicate \/ Block \/ Timeout

Next ==
  \/ Start \/ RequestStop \/ NotifyAll \/ Join
  \/ Worker
  \/ SpuriousWake
  \/ ClockTick

(***************************************************************************)
(* The worker thread is scheduled, its task terminates, time passes, and   *)
(* the thread inside stop() is scheduled.  Whether and when the owner      *)
(* starts or stops the runner is its own affair.                           *)
(***************************************************************************)
Spec ==
  /\ Init
  /\ [][Next]_vars
  /\ WF_vars(Worker)
  /\ WF_vars(ClockTick)
  /\ WF_vars(NotifyAll)
  /\ WF_vars(Join)

-----------------------------------------------------------------------------
(* Properties.                                                             *)

(***************************************************************************)
(* A stop() waits for at most one poll interval: once running_ is cleared  *)
(* the worker sleeps no longer than the interval, although the             *)
(* notification may be lost and wake-ups may be spurious                   *)
(* (periodic_runner.h, stop and run_loop).                                 *)
(***************************************************************************)
StopWaitsAtMostOneInterval == lateTicks <= Interval

(***************************************************************************)
(* stop() returns: the join in stop() ends even when the notification is   *)
(* lost, because wait_for times out (periodic_runner.h, stop).             *)
(***************************************************************************)
StopReturns == owner = "notify" ~> owner = "idle"

(***************************************************************************)
(* The thread protocol implements what owners of a poller rely on: no      *)
(* task begins after the stop request, none is executing when stop() has   *)
(* returned, a running poller keeps ticking and a stop completes.          *)
(***************************************************************************)
Abstract == INSTANCE Runner WITH
  phase <- IF owner = "idle" THEN "stopped"
           ELSE IF owner = "started" THEN "running" ELSE "stopping",
  busy <- worker = "task"

ImplementsRunner == Abstract!Spec

\* The safety part of ImplementsRunner.
ImplementsRunnerSafely == Abstract!SafeSpec

(***************************************************************************)
(* The inductive invariant behind the refinement and the bound: running_   *)
(* says exactly whether a stop has been requested; a thread exists exactly *)
(* when the owner is not idle and leaves its loop only after the request;  *)
(* the time slept since the request and the time to the deadline never     *)
(* exceed the interval together, and a worker that has slept since the     *)
(* request is past its last task.                                          *)
(***************************************************************************)
ThreadInv ==
  /\ running <=> owner = "started"
  /\ worker = "none" <=> owner = "idle"
  /\ worker = "exited" => ~running
  /\ running => lateTicks = 0
  /\ worker = "task" => lateTicks = 0
  /\ worker \in {"pred", "block", "waiting"} => lateTicks + left <= Interval
  /\ lateTicks <= Interval

=============================================================================
