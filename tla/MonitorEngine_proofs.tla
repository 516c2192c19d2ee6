------------------------ MODULE MonitorEngine_proofs ------------------------
(***************************************************************************)
(* Proofs about MonitorEngine for every number of monitors: the life cycle *)
(* of the polling threads agrees with how far start_all and stop_all have  *)
(* got, and so the storage is never closed under a thread that is routing; *)
(* and each sink receives the events of a monitor in emission order.       *)
(***************************************************************************)
EXTENDS MonitorEngine, TLAPS

USE EngineAssumption

\* The parts of TypeOK the life cycle depends on.
LifeType ==
  /\ main \in MainStates
  /\ k \in 1..N + 1
  /\ active \in [Monitor -> BOOLEAN]
  /\ thread \in [Monitor -> ThreadStates]
  /\ logOpen \in BOOLEAN
  /\ openFailed \in BOOLEAN

\* Monitors that stop_all has passed, or start_all not reached, have no thread.
NotRunning(m) ==
  \/ main \in {"new", "ready", "down", "stopReporter"}
  \/ main = "starting" /\ m >= k
  \/ main \in {"stopping", "joining"} /\ m < k

ThreadsFollowMain ==
  \A m \in Monitor :
    /\ NotRunning(m) => thread[m] = "none" /\ ~active[m]
    /\ thread[m] # "none" => active[m] \/ (main = "joining" /\ m = k)

\* stop_all waits for a monitor of the list, whose running_ it has cleared.
JoiningReached == main = "joining" => k <= N /\ ~active[k]

\* Between initialize and stop_all the storage is open if it ever opened.
OpenUntilClosed ==
  main \in {"ready", "starting", "up", "stopping", "joining", "stopReporter"}
    /\ ~openFailed => logOpen

LifeInv ==
  /\ LifeType
  /\ ThreadsFollowMain
  /\ JoiningReached
  /\ OpenUntilClosed
  /\ NothingDroppedByShutdown

-----------------------------------------------------------------------------
\* The actions of a polling thread but Store change nothing of the life cycle
\* except the thread's own position, and only while it exists.
PositionOnly(m) ==
  /\ thread[m] # "none"
  /\ \E stage \in ThreadStates \ {"none"} : thread' = [thread EXCEPT ![m] = stage]
  /\ UNCHANGED <<main, k, active, logOpen, openFailed>>

LEMMA PollerPosition ==
  ASSUME NEW m \in Monitor, PollerStep(m)
  PROVE  PositionOnly(m) /\ (dropped' = dropped \/ Store(m))
<1> USE DEF PositionOnly, GoTo, ThreadStates, RouteStages, mainVars, sinkVars
<1>1. CASE BeginTick(m)
  BY <1>1 DEF BeginTick
<1>2. CASE EndTick(m)
  BY <1>2 DEF EndTick
<1>3. CASE LeaveLoop(m)
  BY <1>3 DEF LeaveLoop
<1>4. CASE Emit(m)
  BY <1>4 DEF Emit
<1>5. CASE Filter(m)
  BY <1>5 DEF Filter
<1>6. CASE Analyse(m)
  BY <1>6 DEF Analyse
<1>7. CASE Store(m)
  BY <1>7 DEF Store
<1>8. CASE Report(m)
  BY <1>8 DEF Report
<1>9. CASE Publish(m)
  BY <1>9 DEF Publish
<1>10. CASE Notify(m)
  BY <1>10 DEF Notify
<1>11. QED
  BY <1>1, <1>2, <1>3, <1>4, <1>5, <1>6, <1>7, <1>8, <1>9, <1>10 DEF PollerStep

(***************************************************************************)
(* Every step of the main thread, the pollers and the reporter keeps the   *)
(* life cycle invariant (initialize, start_all, stop_all, route_event).    *)
(***************************************************************************)
LEMMA LifeStep == LifeInv /\ [Next]_vars => LifeInv'
<1> SUFFICES ASSUME LifeInv, [Next]_vars PROVE LifeInv'
  OBVIOUS
<1> USE DEF LifeInv, LifeType, ThreadsFollowMain, NotRunning, JoiningReached,
            OpenUntilClosed, NothingDroppedByShutdown, Monitor
<1>1. CASE Initialize
  BY <1>1 DEF Initialize, MainStates, ThreadStates
<1>2. CASE StartAll
  BY <1>2 DEF StartAll, monVars, sinkVars, MainStates
<1>3. CASE StartMonitor
  <2>1. /\ main = "starting" /\ main' = main /\ k \in 1..N /\ k' = k + 1
        /\ UNCHANGED <<logOpen, openFailed, dropped>>
    BY <1>3 DEF StartMonitor, sinkVars
  <2>2. \/ UNCHANGED <<active, thread>>
        \/ active' = [active EXCEPT ![k] = TRUE] /\ UNCHANGED thread
        \/ /\ active' = [active EXCEPT ![k] = TRUE]
           /\ thread' = [thread EXCEPT ![k] = "idle"]
    BY <1>3 DEF StartMonitor
  <2>3. LifeType'
    <3>1. active' \in [Monitor -> BOOLEAN]
      BY <2>1, <2>2
    <3>2. thread' \in [Monitor -> ThreadStates]
      BY <2>1, <2>2 DEF ThreadStates
    <3>3. QED
      BY <2>1, <3>1, <3>2
  <2>4. ThreadsFollowMain'
    BY <2>1, <2>2
  <2>5. QED
    BY <2>1, <2>3, <2>4
<1>4. CASE StartReporter
  BY <1>4 DEF StartReporter, monVars, sinkVars, MainStates
<1>5. CASE StopAll
  BY <1>5 DEF StopAll, monVars, sinkVars, MainStates
<1>6. CASE StopMonitor
  BY <1>6 DEF StopMonitor, sinkVars, MainStates
<1>7. CASE JoinMonitor
  <2>1. /\ main = "joining" /\ main' = "stopping" /\ k \in 1..N /\ k' = k + 1
        /\ thread' = [thread EXCEPT ![k] = "none"]
        /\ UNCHANGED <<active, logOpen, openFailed, dropped>>
    BY <1>7 DEF JoinMonitor, sinkVars
  <2>2. LifeType'
    BY <2>1 DEF MainStates, ThreadStates
  <2>3. ThreadsFollowMain'
    BY <2>1
  <2>4. QED
    BY <2>1, <2>2, <2>3
<1>8. CASE StopReporter
  BY <1>8 DEF StopReporter, monVars, sinkVars, MainStates
<1>9. CASE ReporterStopStep
  BY <1>9 DEF ReporterStopStep, mainVars, monVars, sinkVars
<1>10. CASE CloseStorage
  BY <1>10 DEF CloseStorage, monVars, MainStates
<1>11. ASSUME NEW m \in Monitor, PollerStep(m)
       PROVE  LifeInv'
  <2>1. PositionOnly(m) /\ (dropped' = dropped \/ Store(m))
    BY <1>11, PollerPosition
  <2>2. (LifeType /\ ThreadsFollowMain /\ JoiningReached /\ OpenUntilClosed)'
    BY <2>1 DEF PositionOnly
  <2>3. NothingDroppedByShutdown'
    <3>1. CASE dropped' = dropped
      BY <2>1, <3>1 DEF PositionOnly
    <3>2. CASE Store(m)
      <4>1. main \in {"starting", "up", "stopping", "joining"}
        BY <3>2 DEF Store, MainStates
      <4>2. QED
        BY <2>1, <3>2, <4>1 DEF Store, PositionOnly
    <3>3. QED
      BY <2>1, <3>1, <3>2
  <2>4. QED
    BY <2>2, <2>3
<1>12. CASE ReporterRunnerStep
  BY <1>12 DEF ReporterRunnerStep, mainVars, monVars, sinkVars
<1>13. CASE Terminated \/ UNCHANGED vars
  BY <1>13 DEF Terminated, vars, mainVars, monVars, sinkVars
<1>14. QED
  BY <1>1, <1>2, <1>3, <1>4, <1>5, <1>6, <1>7, <1>8, <1>9, <1>10, <1>11, <1>12,
     <1>13 DEF Next, MainStep

LEMMA LifeInit == Init => LifeInv
<1> SUFFICES ASSUME Init PROVE LifeInv
  OBVIOUS
<1>1. main \in MainStates /\ k \in 1..N + 1
  BY DEF Init, MainStates
<1>2. active \in [Monitor -> BOOLEAN]
  BY DEF Init
<1>3. thread \in [Monitor -> ThreadStates]
  BY DEF Init, ThreadStates
<1>4. logOpen \in BOOLEAN /\ openFailed \in BOOLEAN
  BY DEF Init
<1>5. ThreadsFollowMain
  BY DEF Init, ThreadsFollowMain
<1>6. JoiningReached /\ OpenUntilClosed /\ NothingDroppedByShutdown
  BY DEF Init, JoiningReached, OpenUntilClosed, NothingDroppedByShutdown
<1>7. QED
  BY <1>1, <1>2, <1>3, <1>4, <1>5, <1>6 DEF LifeInv, LifeType

(***************************************************************************)
(* For every number of monitors: the polling threads follow start_all and  *)
(* stop_all as LifeInv says; in particular no thread is left when stop_all *)
(* has returned.                                                           *)
(***************************************************************************)
THEOREM EngineLifeCycle == Spec => []LifeInv
BY LifeInit, LifeStep, PTL DEF Spec

(***************************************************************************)
(* For every number of monitors: stop_all closes the storage only when no  *)
(* poller can still route an event, so an event is refused only if opening *)
(* the storage had failed.                                                 *)
(***************************************************************************)
THEOREM ShutdownDropsNothing == Spec => []NothingDroppedByShutdown
<1>1. LifeInv => NothingDroppedByShutdown
  BY DEF LifeInv
<1>2. QED
  BY <1>1, EngineLifeCycle, PTL


-----------------------------------------------------------------------------
(* The sinks of route_event.                                               *)

\* The stages of route_event before each sink has the event.
BeforeLog == {"filter", "analyse", "store"}
BeforeReporter == BeforeLog \union {"report"}
BeforeRecent == BeforeReporter \union {"publish"}
BeforeListeners == BeforeRecent \union {"notify"}

\* A sink s has, in emission order, events that were emitted, and not yet the one
\* a thread is routing towards it; em counts the events emitted, th is where the
\* threads are.
SinkOK(s, em, th, before) ==
  /\ InEmissionOrder(s)
  /\ \A i \in DOMAIN s :
       /\ s[i].seq <= em[s[i].mon]
       /\ th[s[i].mon] \in before => s[i].seq < em[s[i].mon]

SinkType ==
  /\ emitted \in [Monitor -> Nat]
  /\ thread \in [Monitor -> ThreadStates]
  /\ log \in Seq(EventId) /\ accepted \in Seq(EventId)
  /\ recent \in Seq(EventId) /\ delivered \in Seq(EventId)

SinkInv ==
  /\ SinkType
  /\ SinkOK(log, emitted, thread, BeforeLog)
  /\ SinkOK(accepted, emitted, thread, BeforeReporter)
  /\ SinkOK(recent, emitted, thread, BeforeRecent)
  /\ SinkOK(delivered, emitted, thread, BeforeListeners)

LEMMA SinkFields ==
  ASSUME NEW s \in Seq(EventId)
  PROVE  /\ DOMAIN s = 1..Len(s)
         /\ \A i \in 1..Len(s) : s[i].mon \in Monitor /\ s[i].seq \in Nat
<1>1. DOMAIN s = 1..Len(s) /\ \A i \in 1..Len(s) : s[i] \in EventId
  OBVIOUS
<1>2. \A e \in EventId : e.mon \in Monitor /\ e.seq \in Nat
  BY DEF EventId
<1>3. QED
  BY <1>1, <1>2

\* A thread that moves on elsewhere does not concern a sink.
LEMMA SinkMoves ==
  ASSUME NEW s \in Seq(EventId), NEW em \in [Monitor -> Nat], NEW th \in [Monitor -> ThreadStates],
         NEW before, SinkOK(s, em, th, before),
         NEW m \in Monitor, NEW stage, stage \notin before \/ th[m] \in before
  PROVE  SinkOK(s, em, [th EXCEPT ![m] = stage], before)
<1>1. \A i \in DOMAIN s : s[i].mon \in Monitor
  BY SinkFields
<1>2. QED
  BY <1>1 DEF SinkOK

\* A new event is later than all that a sink has of its monitor.
LEMMA SinkEmits ==
  ASSUME NEW s \in Seq(EventId), NEW em \in [Monitor -> Nat], NEW th \in [Monitor -> ThreadStates],
         NEW before, SinkOK(s, em, th, before), NEW m \in Monitor, NEW stage
  PROVE  SinkOK(s, [em EXCEPT ![m] = @ + 1], [th EXCEPT ![m] = stage], before)
<1>1. \A i \in DOMAIN s : s[i].mon \in Monitor /\ s[i].seq \in Nat
  BY SinkFields
<1>2. \A n \in Monitor : em[n] \in Nat
  OBVIOUS
<1>3. QED
  BY <1>1, <1>2 DEF SinkOK

\* The thread hands its event to the sink.
LEMMA SinkAppends ==
  ASSUME NEW s \in Seq(EventId), NEW em \in [Monitor -> Nat], NEW th \in [Monitor -> ThreadStates],
         NEW before, SinkOK(s, em, th, before),
         NEW m \in Monitor, NEW stage, stage \notin before, th[m] \in before
  PROVE  /\ Append(s, [mon |-> m, seq |-> em[m]]) \in Seq(EventId)
         /\ SinkOK(Append(s, [mon |-> m, seq |-> em[m]]), em, [th EXCEPT ![m] = stage], before)
<1> DEFINE e == [mon |-> m, seq |-> em[m]]
           t == Append(s, e)
<1>1. e \in EventId /\ e.mon = m /\ e.seq = em[m]
  BY DEF EventId
<1> HIDE DEF e
<1>2. /\ t \in Seq(EventId) /\ Len(t) = Len(s) + 1 /\ DOMAIN t = 1..Len(s) + 1
      /\ \A i \in 1..Len(s) : t[i] = s[i]
      /\ t[Len(s) + 1] = e
  BY <1>1
<1> HIDE DEF t
<1>3. DOMAIN s = 1..Len(s) /\ \A i \in 1..Len(s) : s[i].mon \in Monitor /\ s[i].seq \in Nat
  BY SinkFields
<1>4. \A i \in 1..Len(s) : /\ s[i].seq <= em[s[i].mon]
                           /\ s[i].mon = m => s[i].seq < em[m]
                           /\ th[s[i].mon] \in before => s[i].seq < em[s[i].mon]
  BY DEF SinkOK
<1>5. InEmissionOrder(t)
  <2> SUFFICES ASSUME NEW i \in 1..Len(s) + 1, NEW j \in 1..Len(s) + 1, i < j, t[i].mon = t[j].mon
               PROVE  t[i].seq < t[j].seq
    BY <1>2 DEF InEmissionOrder
  <2>1. i \in 1..Len(s)
    OBVIOUS
  <2>2. CASE j \in 1..Len(s)
    BY <1>2, <1>3, <2>1, <2>2 DEF SinkOK, InEmissionOrder
  <2>3. CASE j = Len(s) + 1
    BY <1>1, <1>2, <1>4, <2>1, <2>3
  <2>4. QED
    BY <2>2, <2>3
<1>6. \A i \in 1..Len(s) + 1 : i \in 1..Len(s) \/ i = Len(s) + 1
  OBVIOUS
<1>7. em[m] <= em[m]
  OBVIOUS
<1>8. SinkOK(t, em, [th EXCEPT ![m] = stage], before)
  <2> SUFFICES ASSUME NEW i \in 1..Len(s) + 1
               PROVE  /\ t[i].seq <= em[t[i].mon]
                      /\ [th EXCEPT ![m] = stage][t[i].mon] \in before => t[i].seq < em[t[i].mon]
    BY <1>2, <1>5 DEF SinkOK
  <2>1. CASE i \in 1..Len(s)
    BY <1>2, <1>3, <1>4, <2>1
  <2>2. CASE i = Len(s) + 1
    BY <1>1, <1>2, <1>7, <2>2
  <2>3. QED
    BY <2>1, <2>2
<1>9. QED
  BY <1>2, <1>8 DEF e, t

\* Dropping from the front keeps the order.
LEMMA SinkTrims ==
  ASSUME NEW s \in Seq(EventId), NEW em, NEW th, NEW before, SinkOK(s, em, th, before)
  PROVE  Trim(s) \in Seq(EventId) /\ SinkOK(Trim(s), em, th, before)
<1>1. CASE Len(s) > MaxRecent
  <2> DEFINE d == Len(s) - MaxRecent
  <2>1. Trim(s) = SubSeq(s, d + 1, Len(s)) /\ d \in Nat /\ Len(s) \in Nat /\ d + MaxRecent = Len(s)
    BY <1>1 DEF Trim
  <2> HIDE DEF d
  <2>2. /\ Trim(s) \in Seq(EventId) /\ DOMAIN Trim(s) = 1..MaxRecent
        /\ \A i \in 1..MaxRecent : Trim(s)[i] = s[i + d]
        /\ \A i \in 1..MaxRecent : i + d \in DOMAIN s
    <3>1. MaxRecent \in Nat /\ d + 1 \in 1..Len(s) /\ DOMAIN s = 1..Len(s)
      BY <2>1
    <3>2. \A i \in d + 1..Len(s) : s[i] \in EventId
      BY <2>1
    <3>3. Trim(s) \in Seq(EventId)
      BY <2>1, <3>1, <3>2
    <3>4. Len(Trim(s)) = MaxRecent
      BY <2>1, <3>1
    <3>5. \A i \in 1..MaxRecent : Trim(s)[i] = s[i + d]
      BY <2>1, <3>1
    <3>6. QED
      BY <2>1, <3>1, <3>3, <3>4, <3>5
  <2>3. \A i, j \in 1..MaxRecent : i < j => i + d < j + d
    BY <2>1
  <2>4. QED
    BY <2>2, <2>3, SMTT(30) DEF SinkOK, InEmissionOrder
<1>2. CASE ~(Len(s) > MaxRecent)
  BY <1>2 DEF Trim
<1>3. QED
  BY <1>1, <1>2

LEMMA SinkInit == Init => SinkInv
<1> SUFFICES ASSUME Init PROVE SinkInv
  OBVIOUS
<1>1. SinkType
  <2>1. emitted \in [Monitor -> Nat]
    BY DEF Init
  <2>2. thread \in [Monitor -> ThreadStates]
    BY DEF Init, ThreadStates
  <2>3. QED
    BY <2>1, <2>2 DEF Init, SinkType
<1>2. \A em, th, before : SinkOK(<<>>, em, th, before)
  BY DEF SinkOK, InEmissionOrder
<1>3. QED
  BY <1>1, <1>2 DEF Init, SinkInv

\* A thread that moves between two stages with no sink between them.
LEMMA MoveKeepsSinks ==
  ASSUME SinkInv, NEW m \in Monitor, NEW stage \in ThreadStates,
         \/ stage \notin BeforeListeners
         \/ thread[m] \in BeforeLog /\ stage \in BeforeLog,
         thread' = [thread EXCEPT ![m] = stage],
         UNCHANGED <<emitted, log, accepted, recent, delivered>>
  PROVE  SinkInv'
<1>1. SinkType'
  BY DEF SinkInv, SinkType
<1>2. ASSUME NEW b \in {BeforeLog, BeforeReporter, BeforeRecent, BeforeListeners}
      PROVE  stage \notin b \/ thread[m] \in b
  BY DEF BeforeLog, BeforeReporter, BeforeRecent, BeforeListeners
<1>3. SinkOK(log, emitted, thread', BeforeLog)
  BY <1>2, SinkMoves DEF SinkInv, SinkType
<1>4. SinkOK(accepted, emitted, thread', BeforeReporter)
  BY <1>2, SinkMoves DEF SinkInv, SinkType
<1>5. SinkOK(recent, emitted, thread', BeforeRecent)
  BY <1>2, SinkMoves DEF SinkInv, SinkType
<1>6. SinkOK(delivered, emitted, thread', BeforeListeners)
  BY <1>2, SinkMoves DEF SinkInv, SinkType
<1>7. QED
  BY <1>1, <1>3, <1>4, <1>5, <1>6 DEF SinkInv

\* The steps of one polling thread.
LEMMA PollerKeepsSinks ==
  ASSUME SinkInv, NEW m \in Monitor, PollerStep(m)
  PROVE  SinkInv'
<1> USE DEF GoTo, mainVars, sinkVars, rVars, monVars
<1>0. SinkType
  BY DEF SinkInv
<1>1. CASE BeginTick(m) \/ EndTick(m) \/ LeaveLoop(m) \/ Filter(m) \/ Analyse(m)
  <2>1. UNCHANGED <<emitted, log, accepted, recent, delivered>>
    BY <1>1 DEF BeginTick, EndTick, LeaveLoop, Filter, Analyse
  <2>2. PICK stage \in ThreadStates :
          /\ \/ stage \notin BeforeListeners
             \/ thread[m] \in BeforeLog /\ stage \in BeforeLog
          /\ thread' = [thread EXCEPT ![m] = stage]
    BY <1>1 DEF BeginTick, EndTick, LeaveLoop, Filter, Analyse, ThreadStates, RouteStages,
                BeforeLog, BeforeReporter, BeforeRecent, BeforeListeners
  <2>3. QED
    BY <2>1, <2>2, MoveKeepsSinks
<1>2. CASE Emit(m)
  <2>1. /\ emitted' = [emitted EXCEPT ![m] = @ + 1] /\ thread' = [thread EXCEPT ![m] = "filter"]
        /\ UNCHANGED <<log, accepted, recent, delivered>>
    BY <1>2 DEF Emit
  <2>2. emitted \in [Monitor -> Nat] /\ thread \in [Monitor -> ThreadStates]
    BY <1>0 DEF SinkType
  <2>3. SinkType'
    <3>1. emitted' \in [Monitor -> Nat]
      BY <2>1, <2>2
    <3>2. thread' \in [Monitor -> ThreadStates]
      BY <2>1, <2>2 DEF ThreadStates, RouteStages
    <3>3. QED
      BY <1>0, <2>1, <3>1, <3>2 DEF SinkType
  <2>4. SinkOK(log, emitted', thread', BeforeLog) /\ SinkOK(accepted, emitted', thread', BeforeReporter)
    BY <1>0, <2>1, <2>2, SinkEmits DEF SinkInv, SinkType
  <2>5. SinkOK(recent, emitted', thread', BeforeRecent)
        /\ SinkOK(delivered, emitted', thread', BeforeListeners)
    BY <1>0, <2>1, <2>2, SinkEmits DEF SinkInv, SinkType
  <2>6. QED
    BY <2>1, <2>3, <2>4, <2>5 DEF SinkInv
<1>3. CASE Store(m)
  <2>1. /\ thread[m] = "store" /\ thread' = [thread EXCEPT ![m] = "report"]
        /\ log' = log \/ log' = Append(log, [mon |-> m, seq |-> emitted[m]])
        /\ UNCHANGED <<emitted, accepted, recent, delivered>>
    BY <1>3 DEF Store, Current
  <2>2. thread[m] \in BeforeLog /\ "report" \notin BeforeLog
        /\ thread[m] \in BeforeReporter /\ thread[m] \in BeforeRecent /\ thread[m] \in BeforeListeners
    BY <2>1 DEF BeforeLog, BeforeReporter, BeforeRecent, BeforeListeners
  <2>3. log' \in Seq(EventId) /\ SinkOK(log', emitted, thread', BeforeLog)
    <3>1. CASE log' = log
      BY <1>0, <2>1, <2>2, <3>1, SinkMoves DEF SinkInv, SinkType
    <3>2. CASE log' = Append(log, [mon |-> m, seq |-> emitted[m]])
      BY <1>0, <2>1, <2>2, <3>2, SinkAppends DEF SinkInv, SinkType
    <3>3. QED
      BY <2>1, <3>1, <3>2
  <2>4. SinkOK(accepted, emitted, thread', BeforeReporter)
    BY <1>0, <2>1, <2>2, SinkMoves DEF SinkInv, SinkType
  <2>5. SinkOK(recent, emitted, thread', BeforeRecent)
    BY <1>0, <2>1, <2>2, SinkMoves DEF SinkInv, SinkType
  <2>6. SinkOK(delivered, emitted, thread', BeforeListeners)
    BY <1>0, <2>1, <2>2, SinkMoves DEF SinkInv, SinkType
  <2>7. SinkType'
    BY <1>0, <2>1, <2>3 DEF SinkType, ThreadStates, RouteStages
  <2>8. QED
    BY <2>1, <2>3, <2>4, <2>5, <2>6, <2>7 DEF SinkInv
<1>4. CASE Report(m)
  <2>1. /\ thread[m] = "report" /\ thread' = [thread EXCEPT ![m] = "publish"]
        /\ accepted' = accepted \/ accepted' = Append(accepted, [mon |-> m, seq |-> emitted[m]])
        /\ UNCHANGED <<emitted, log, recent, delivered>>
    BY <1>4 DEF Report, Current, Rep!Enqueue
  <2>2. /\ thread[m] \in BeforeReporter /\ "publish" \notin BeforeReporter
        /\ "publish" \notin BeforeLog
        /\ thread[m] \in BeforeRecent /\ thread[m] \in BeforeListeners
    BY <2>1 DEF BeforeLog, BeforeReporter, BeforeRecent, BeforeListeners
  <2>3. accepted' \in Seq(EventId) /\ SinkOK(accepted', emitted, thread', BeforeReporter)
    <3>1. CASE accepted' = accepted
      BY <1>0, <2>1, <2>2, <3>1, SinkMoves DEF SinkInv, SinkType
    <3>2. CASE accepted' = Append(accepted, [mon |-> m, seq |-> emitted[m]])
      BY <1>0, <2>1, <2>2, <3>2, SinkAppends DEF SinkInv, SinkType
    <3>3. QED
      BY <2>1, <3>1, <3>2
  <2>4. SinkOK(log, emitted, thread', BeforeLog)
    BY <1>0, <2>1, <2>2, SinkMoves DEF SinkInv, SinkType
  <2>5. SinkOK(recent, emitted, thread', BeforeRecent)
    BY <1>0, <2>1, <2>2, SinkMoves DEF SinkInv, SinkType
  <2>6. SinkOK(delivered, emitted, thread', BeforeListeners)
    BY <1>0, <2>1, <2>2, SinkMoves DEF SinkInv, SinkType
  <2>7. SinkType'
    BY <1>0, <2>1, <2>3 DEF SinkType, ThreadStates, RouteStages
  <2>8. QED
    BY <2>1, <2>3, <2>4, <2>5, <2>6, <2>7 DEF SinkInv
<1>5. CASE Publish(m)
  <2> DEFINE r == Append(recent, [mon |-> m, seq |-> emitted[m]])
  <2>1. /\ thread[m] = "publish" /\ thread' = [thread EXCEPT ![m] = "notify"]
        /\ recent' = Trim(r)
        /\ UNCHANGED <<emitted, log, accepted, delivered>>
    BY <1>5 DEF Publish, Current
  <2>2. /\ thread[m] \in BeforeRecent /\ "notify" \notin BeforeRecent
        /\ "notify" \notin BeforeLog /\ "notify" \notin BeforeReporter
        /\ thread[m] \in BeforeListeners
    BY <2>1 DEF BeforeLog, BeforeReporter, BeforeRecent, BeforeListeners
  <2>3. r \in Seq(EventId) /\ SinkOK(r, emitted, thread', BeforeRecent)
    BY <1>0, <2>1, <2>2, SinkAppends DEF SinkInv, SinkType
  <2> HIDE DEF r
  <2>4. recent' \in Seq(EventId) /\ SinkOK(recent', emitted, thread', BeforeRecent)
    BY <2>1, <2>3, SinkTrims
  <2>5. SinkOK(log, emitted, thread', BeforeLog)
    BY <1>0, <2>1, <2>2, SinkMoves DEF SinkInv, SinkType
  <2>6. SinkOK(accepted, emitted, thread', BeforeReporter)
    BY <1>0, <2>1, <2>2, SinkMoves DEF SinkInv, SinkType
  <2>7. SinkOK(delivered, emitted, thread', BeforeListeners)
    BY <1>0, <2>1, <2>2, SinkMoves DEF SinkInv, SinkType
  <2>8. SinkType'
    BY <1>0, <2>1, <2>4 DEF SinkType, ThreadStates, RouteStages
  <2>9. QED
    BY <2>1, <2>4, <2>5, <2>6, <2>7, <2>8 DEF SinkInv
<1>6. CASE Notify(m)
  <2>1. /\ thread[m] = "notify" /\ thread' = [thread EXCEPT ![m] = "tick"]
        /\ delivered' = Append(delivered, [mon |-> m, seq |-> emitted[m]])
        /\ UNCHANGED <<emitted, log, accepted, recent>>
    BY <1>6 DEF Notify, Current
  <2>2. /\ thread[m] \in BeforeListeners /\ "tick" \notin BeforeListeners
        /\ "tick" \notin BeforeLog /\ "tick" \notin BeforeReporter /\ "tick" \notin BeforeRecent
    BY <2>1 DEF BeforeLog, BeforeReporter, BeforeRecent, BeforeListeners
  <2>3. delivered' \in Seq(EventId) /\ SinkOK(delivered', emitted, thread', BeforeListeners)
    BY <1>0, <2>1, <2>2, SinkAppends DEF SinkInv, SinkType
  <2>4. SinkOK(log, emitted, thread', BeforeLog)
    BY <1>0, <2>1, <2>2, SinkMoves DEF SinkInv, SinkType
  <2>5. SinkOK(accepted, emitted, thread', BeforeReporter)
    BY <1>0, <2>1, <2>2, SinkMoves DEF SinkInv, SinkType
  <2>6. SinkOK(recent, emitted, thread', BeforeRecent)
    BY <1>0, <2>1, <2>2, SinkMoves DEF SinkInv, SinkType
  <2>7. SinkType'
    BY <1>0, <2>1, <2>3 DEF SinkType, ThreadStates, RouteStages
  <2>8. QED
    BY <2>1, <2>3, <2>4, <2>5, <2>6, <2>7 DEF SinkInv
<1>7. QED
  BY <1>1, <1>2, <1>3, <1>4, <1>5, <1>6 DEF PollerStep

LEMMA SinkStep == SinkInv /\ [Next]_vars => SinkInv'
<1> SUFFICES ASSUME SinkInv, [Next]_vars PROVE SinkInv'
  OBVIOUS
<1>1. CASE Initialize
  <2>1. /\ thread' = [m \in Monitor |-> "none"] /\ accepted' = <<>>
        /\ UNCHANGED <<emitted, log, recent, delivered>>
    BY <1>1 DEF Initialize, Rep!Configure
  <2>2. \A m \in Monitor : thread'[m] \notin BeforeListeners
    BY <2>1 DEF BeforeLog, BeforeReporter, BeforeRecent, BeforeListeners
  <2>3. SinkType'
    BY <2>1 DEF SinkInv, SinkType, ThreadStates
  <2>4. ASSUME NEW s \in Seq(EventId),
               NEW b \in {BeforeLog, BeforeReporter, BeforeRecent, BeforeListeners},
               SinkOK(s, emitted, thread, b)
        PROVE  SinkOK(s, emitted, thread', b)
    <3>1. \A m \in Monitor : thread'[m] \notin b
      BY <2>2 DEF BeforeLog, BeforeReporter, BeforeRecent, BeforeListeners
    <3>2. \A i \in DOMAIN s : s[i].mon \in Monitor
      BY SinkFields
    <3>3. QED
      BY <2>4, <3>1, <3>2 DEF SinkOK
  <2>5. SinkOK(<<>>, emitted, thread', BeforeReporter)
    BY DEF SinkOK, InEmissionOrder
  <2>6. SinkOK(log, emitted, thread', BeforeLog) /\ SinkOK(recent, emitted, thread', BeforeRecent)
        /\ SinkOK(delivered, emitted, thread', BeforeListeners)
    BY <2>4 DEF SinkInv, SinkType
  <2>7. QED
    BY <2>1, <2>3, <2>5, <2>6 DEF SinkInv
<1>2. CASE StartMonitor
  <2>1. UNCHANGED <<emitted, log, accepted, recent, delivered>>
    BY <1>2 DEF StartMonitor, sinkVars, rVars
  <2>2. \/ UNCHANGED thread
        \/ k \in Monitor /\ thread' = [thread EXCEPT ![k] = "idle"]
        \/ k \notin Monitor /\ thread' = thread
    BY <1>2 DEF StartMonitor, SinkInv, SinkType
  <2>3. "idle" \notin BeforeListeners /\ "idle" \in ThreadStates
    BY DEF BeforeLog, BeforeReporter, BeforeRecent, BeforeListeners, ThreadStates
  <2>4. UNCHANGED thread => SinkInv'
    BY <2>1 DEF SinkInv, SinkType
  <2>5. QED
    BY <2>1, <2>2, <2>3, <2>4, MoveKeepsSinks
<1>3. CASE JoinMonitor
  <2>1. UNCHANGED <<emitted, log, accepted, recent, delivered>>
    BY <1>3 DEF JoinMonitor, sinkVars, rVars
  <2>2. thread' = [thread EXCEPT ![k] = "none"]
    BY <1>3 DEF JoinMonitor
  <2>3. "none" \notin BeforeListeners /\ "none" \in ThreadStates
    BY DEF BeforeLog, BeforeReporter, BeforeRecent, BeforeListeners, ThreadStates
  <2>4. k \notin Monitor => thread' = thread
    BY <2>2 DEF SinkInv, SinkType
  <2>5. thread' = thread => SinkInv'
    BY <2>1 DEF SinkInv, SinkType
  <2>6. QED
    BY <2>1, <2>2, <2>3, <2>4, <2>5, MoveKeepsSinks
<1>4. CASE \/ StartAll \/ StartReporter \/ StopAll \/ StopMonitor \/ StopReporter
           \/ ReporterStopStep \/ CloseStorage \/ ReporterRunnerStep
           \/ Terminated \/ UNCHANGED vars
  <2>1. UNCHANGED <<emitted, thread, log, accepted, recent, delivered>>
    <3> USE DEF vars, mainVars, monVars, sinkVars, rVars
    <3>1. CASE StartAll \/ StopAll \/ StopMonitor \/ CloseStorage \/ Terminated \/ UNCHANGED vars
      BY <3>1 DEF StartAll, StopAll, StopMonitor, CloseStorage, Terminated
    <3>2. CASE StartReporter \/ StopReporter
      BY <3>2 DEF StartReporter, StopReporter, Rep!Start, Rep!StopRequest
    <3>3. CASE ReporterStopStep
      BY <3>3 DEF ReporterStopStep, Rep!StopStep, Rep!StopJoin, Rep!StopTake, Rep!StopSend
    <3>4. CASE ReporterRunnerStep
      BY <3>4 DEF ReporterRunnerStep, Rep!RunnerStep, Rep!BeginTick, Rep!TickTake, Rep!TickSend,
                  Rep!RunnerExit
    <3>5. QED
      BY <1>4, <3>1, <3>2, <3>3, <3>4
  <2>2. QED
    BY <2>1 DEF SinkInv, SinkType
<1>5. ASSUME NEW m \in Monitor, PollerStep(m)
      PROVE  SinkInv'
  BY <1>5, PollerKeepsSinks
<1>6. QED
  BY <1>1, <1>2, <1>3, <1>4, <1>5 DEF Next, MainStep

(***************************************************************************)
(* For every number of monitors, every cache limit and any number of       *)
(* sessions: the storage file, the reporter, recent_ and the listeners     *)
(* each get the events of one monitor in the order it emitted them, and    *)
(* none twice (route_event).                                               *)
(***************************************************************************)
THEOREM EmissionOrderKept == Spec => []SinksKeepEmissionOrder
<1>1. SinkInv => SinksKeepEmissionOrder
  BY DEF SinkInv, SinkOK, SinksKeepEmissionOrder
<1>2. QED
  BY <1>1, SinkInit, SinkStep, PTL DEF Spec

=============================================================================
