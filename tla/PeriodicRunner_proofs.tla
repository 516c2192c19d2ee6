----------------------- MODULE PeriodicRunner_proofs ------------------------
(***************************************************************************)
(* Proofs about PeriodicRunner for every poll interval: the inductive      *)
(* invariant, the bound on how long a stop can be delayed, and the safety  *)
(* part of the refinement of Runner.                                       *)
(***************************************************************************)
EXTENDS PeriodicRunner, TLAPS

USE IntervalAssumption

(***************************************************************************)
(* TypeOK and ThreadInv are inductive for start/stop and run_loop.         *)
(***************************************************************************)
LEMMA InductiveStep == TypeOK /\ ThreadInv /\ [Next]_vars => (TypeOK /\ ThreadInv)'
<1> SUFFICES ASSUME TypeOK, ThreadInv, [Next]_vars
             PROVE  (TypeOK /\ ThreadInv)'
  OBVIOUS
<1> USE DEF TypeOK, ThreadInv, WorkerStates, OwnerStates
<1>1. CASE Start
  BY <1>1 DEF Start
<1>2. CASE RequestStop
  BY <1>2 DEF RequestStop
<1>3. CASE NotifyAll
  BY <1>3 DEF NotifyAll
<1>4. CASE Join
  BY <1>4 DEF Join
<1>5. CASE LoopHead
  BY <1>5 DEF LoopHead
<1>6. CASE EndTask
  BY <1>6 DEF EndTask
<1>7. CASE Predicate
  BY <1>7 DEF Predicate
<1>8. CASE Block
  BY <1>8 DEF Block
<1>9. CASE Timeout
  BY <1>9 DEF Timeout
<1>10. CASE SpuriousWake
  BY <1>10 DEF SpuriousWake
<1>11. CASE ClockTick
  BY <1>11 DEF ClockTick
<1>12. CASE UNCHANGED vars
  BY <1>12 DEF vars
<1>13. QED
  BY <1>1, <1>2, <1>3, <1>4, <1>5, <1>6, <1>7, <1>8, <1>9, <1>10, <1>11,
     <1>12 DEF Next, Worker

(***************************************************************************)
(* The flag, the thread and the owner always agree as ThreadInv says.      *)
(***************************************************************************)
THEOREM ThreadInvariant == Spec => [](TypeOK /\ ThreadInv)
<1>1. Init => TypeOK /\ ThreadInv
  <2> SUFFICES ASSUME Init PROVE TypeOK /\ ThreadInv
    OBVIOUS
  <2>1. TypeOK
    <3>1. running \in BOOLEAN
      BY DEF Init
    <3>2. worker \in WorkerStates /\ owner \in OwnerStates
      BY DEF Init, WorkerStates, OwnerStates
    <3>3. left \in 0..Interval /\ lateTicks \in Nat
      BY DEF Init
    <3>4. QED
      BY <3>1, <3>2, <3>3 DEF TypeOK
  <2>2. ThreadInv
    BY DEF Init, ThreadInv
  <2>3. QED
    BY <2>1, <2>2
<1>2. QED
  BY <1>1, InductiveStep, PTL DEF Spec

(***************************************************************************)
(* For every poll interval, stop() is delayed by at most that interval     *)
(* although its notification can be lost.                                  *)
(***************************************************************************)
THEOREM StopDelayBounded == Spec => []StopWaitsAtMostOneInterval
<1>1. TypeOK /\ ThreadInv => StopWaitsAtMostOneInterval
  BY DEF ThreadInv, StopWaitsAtMostOneInterval
<1>2. QED
  BY <1>1, ThreadInvariant, PTL

(***************************************************************************)
(* Every step of the thread protocol is a step of Runner or leaves it      *)
(* unchanged: in particular no task begins once a stop was requested and   *)
(* none is in progress when stop() returns.                                *)
(***************************************************************************)
THEOREM RefinesRunner == Spec => ImplementsRunnerSafely
<1>1. Init => Abstract!Init
  BY DEF Init, Abstract!Init
<1>2. TypeOK /\ ThreadInv /\ [Next]_vars => [Abstract!Next]_(Abstract!vars)
  <2> SUFFICES ASSUME TypeOK, ThreadInv, [Next]_vars
               PROVE  [Abstract!Next]_(Abstract!vars)
    OBVIOUS
  <2> USE DEF TypeOK, ThreadInv, WorkerStates, OwnerStates, Abstract!vars
  <2>1. CASE Start
    BY <2>1 DEF Start, Abstract!Next, Abstract!Start
  <2>2. CASE RequestStop
    BY <2>2 DEF RequestStop, Abstract!Next, Abstract!RequestStop
  <2>3. CASE NotifyAll
    BY <2>3 DEF NotifyAll
  <2>4. CASE Join
    BY <2>4 DEF Join, Abstract!Next, Abstract!Stopped
  <2>5. CASE LoopHead
    BY <2>5 DEF LoopHead, Abstract!Next, Abstract!BeginTask
  <2>6. CASE EndTask
    BY <2>6 DEF EndTask, Abstract!Next, Abstract!EndTask
  <2>7. CASE Predicate \/ Block \/ Timeout \/ SpuriousWake \/ ClockTick
    BY <2>7 DEF Predicate, Block, Timeout, SpuriousWake, ClockTick
  <2>8. CASE UNCHANGED vars
    BY <2>8 DEF vars
  <2>9. QED
    BY <2>1, <2>2, <2>3, <2>4, <2>5, <2>6, <2>7, <2>8 DEF Next, Worker
<1>3. QED
  BY <1>1, <1>2, ThreadInvariant, PTL DEF Spec, ImplementsRunnerSafely, Abstract!SafeSpec

=============================================================================
