-------------------------- MODULE Reporter_proofs ---------------------------
(***************************************************************************)
(* Proofs about Reporter for every set of events and every batch size,     *)
(* the meaningless ones included: no event is lost, duplicated or          *)
(* reordered on its way to the endpoint, and the endpoint sees the         *)
(* abstract feed.                                                          *)
(***************************************************************************)
EXTENDS Reporter, SequenceTheorems, TLAPS

USE BatchSizeAssumption

(***************************************************************************)
(* The queue is cut in two at any length between 0 and its own.            *)
(***************************************************************************)
LEMMA CutSequence ==
  ASSUME NEW S, NEW q \in Seq(S), NEW n \in 0..Len(q)
  PROVE  /\ SubSeq(q, 1, n) \in Seq(S)
         /\ SubSeq(q, n + 1, Len(q)) \in Seq(S)
         /\ SubSeq(q, 1, n) \o SubSeq(q, n + 1, Len(q)) = q
<1>0. Len(q) \in Nat /\ \A i \in 1..Len(q) : q[i] \in S
  BY ElementOfSeq, LenProperties
<1>1. SubSeq(q, 1, n) \in Seq(S)
  BY <1>0, SubSeqProperties
<1>2. SubSeq(q, n + 1, Len(q)) \in Seq(S)
  BY <1>0, SubSeqProperties
<1>3. SubSeq(q, 1, n) \o SubSeq(q, n + 1, Len(q)) = SubSeq(q, 1, Len(q))
  <2>1. 1 \in 1..Len(q) + 1 /\ n \in 1 - 1..Len(q) /\ Len(q) \in n..Len(q)
    BY <1>0
  <2>2. QED
    BY <2>1, ConcatAdjacentSubSeq, Zenon
<1>4. SubSeq(q, 1, Len(q)) = q
  BY SubSeqFull
<1>5. QED
  BY <1>1, <1>2, <1>3, <1>4

(***************************************************************************)
(* Concatenation of sequences of events is closed and associative.         *)
(***************************************************************************)
LEMMA ConcatClosed == \A s, t \in Seq(Event) : s \o t \in Seq(Event)
<1> TAKE s, t \in Seq(Event)
<1> QED BY ConcatProperties

LEMMA ConcatAssoc ==
  \A s, t, u \in Seq(Event) : s \o (t \o u) = (s \o t) \o u
<1> TAKE s, t, u \in Seq(Event)
<1> QED BY ConcatAssociative, SMTT(30)

LEMMA ConcatEmpty == \A s \in Seq(Event) : s \o <<>> = s
<1> TAKE s \in Seq(Event)
<1> QED BY ConcatEmptySeq

(***************************************************************************)
(* Moving a sequence between its neighbours does not change the whole.     *)
(***************************************************************************)
LEMMA MoveLeft ==
  \A w, b, q \in Seq(Event) : w \o <<>> \o (b \o q) = w \o b \o q
<1> TAKE w, b, q \in Seq(Event)
<1>1. w \o (b \o q) = w \o b \o q
  BY ConcatAssoc
<1>2. w \o <<>> = w
  BY ConcatEmpty
<1>3. QED
  BY <1>1, <1>2, Zenon

-----------------------------------------------------------------------------
ReporterInv == TypeOK /\ OneFlusher /\ NothingLostOrReordered

\* A flush takes a batch that the queue has.
LEMMA BatchLenInQueue == TypeOK => BatchLen \in 0..Len(queue)
<1> SUFFICES ASSUME TypeOK PROVE BatchLen \in 0..Len(queue)
  OBVIOUS
<1>1. Len(queue) \in Nat
  BY LenProperties DEF TypeOK
<1>2. QED
  BY <1>1 DEF BatchLen

(***************************************************************************)
(* Every step of producers, runner and stop() keeps the invariant.         *)
(***************************************************************************)
LEMMA ReporterStep == ReporterInv /\ [Next]_rVars => ReporterInv'
<1> SUFFICES ASSUME TypeOK, OneFlusher, NothingLostOrReordered, [Next]_rVars
             PROVE  TypeOK' /\ OneFlusher' /\ NothingLostOrReordered'
  BY DEF ReporterInv
<1>t. /\ queue \in Seq(Event) /\ accepted \in Seq(Event) /\ posted \in Seq(Event)
      /\ batch["runner"] \in Seq(Event) /\ batch["stop"] \in Seq(Event)
      /\ <<>> \in Seq(Event)
  BY EmptySeq DEF TypeOK, Flusher
<1>v. posted \o batch["stop"] \in Seq(Event) /\ posted \o batch["runner"] \in Seq(Event)
  BY <1>t, ConcatClosed
<1>w. posted \o batch["stop"] \o batch["runner"] \in Seq(Event)
  BY <1>t, <1>v, ConcatClosed
<1>1. ASSUME NEW e \in Event, Enqueue(e)
      PROVE  TypeOK' /\ OneFlusher' /\ NothingLostOrReordered'
  <2>1. /\ queue' = queue \o <<e>> /\ accepted' = accepted \o <<e>>
        /\ <<e>> \in Seq(Event)
        /\ queue' \in Seq(Event) /\ accepted' \in Seq(Event)
    BY <1>1, <1>t, AppendIsConcat, AppendProperties DEF Enqueue
  <2>2. TypeOK' /\ OneFlusher'
    BY <1>1, <2>1 DEF Enqueue, TypeOK, OneFlusher
  <2>3. NothingLostOrReordered'
    <3>1. <<e>> \in Seq(Event) /\ queue \in Seq(Event)
      BY <1>t, <2>1
    <3>2. posted \o batch["stop"] \o batch["runner"] \o (queue \o <<e>>) =
          posted \o batch["stop"] \o batch["runner"] \o queue \o <<e>>
      BY <1>w, <3>1, ConcatAssoc
    <3>3. QED
      BY <1>1, <2>1, <3>2, Zenon DEF Enqueue, NothingLostOrReordered
  <2>4. QED
    BY <2>2, <2>3
<1>2. ASSUME NEW e \in Event, NEW f \in Event, EnqueueBatch(e, f)
      PROVE  TypeOK' /\ OneFlusher' /\ NothingLostOrReordered'
  <2>1. <<e, f>> \in Seq(Event)
    OBVIOUS
  <2>2. queue' \in Seq(Event) /\ accepted' \in Seq(Event)
    BY <1>2, <1>t, <2>1, ConcatProperties DEF EnqueueBatch
  <2>3. TypeOK' /\ OneFlusher'
    BY <1>2, <2>2 DEF EnqueueBatch, TypeOK, OneFlusher
  <2>4. NothingLostOrReordered'
    <3>1. <<e, f>> \in Seq(Event) /\ queue \in Seq(Event)
      BY <1>t, <2>1
    <3>2. posted \o batch["stop"] \o batch["runner"] \o (queue \o <<e, f>>) =
          posted \o batch["stop"] \o batch["runner"] \o queue \o <<e, f>>
      BY <1>w, <3>1, ConcatAssoc
    <3>3. QED
      BY <1>2, <3>2, Zenon DEF EnqueueBatch, NothingLostOrReordered
  <2>5. QED
    BY <2>3, <2>4
<1>3. CASE Start \/ BeginTick \/ RunnerExit \/ StopRequest \/ StopJoin
  <2>1. NothingLostOrReordered'
    BY <1>3, Zenon DEF Start, BeginTick, RunnerExit, StopRequest, StopJoin,
                       NothingLostOrReordered
  <2>2. CASE Start
    <3>1. TypeOK'
      BY <2>2 DEF Start, TypeOK
    <3>2. OneFlusher'
      BY <2>2 DEF Start, OneFlusher
    <3>3. QED
      BY <2>1, <3>1, <3>2
  <2>3. CASE BeginTick
    BY <2>1, <2>3 DEF BeginTick, TypeOK, OneFlusher
  <2>4. CASE RunnerExit
    BY <2>1, <2>4 DEF RunnerExit, TypeOK, OneFlusher
  <2>5. CASE StopRequest
    BY <2>1, <2>5 DEF StopRequest, TypeOK, OneFlusher
  <2>6. CASE StopJoin
    BY <2>1, <2>6 DEF StopJoin, TypeOK, OneFlusher
  <2>7. QED
    BY <1>3, <2>2, <2>3, <2>4, <2>5, <2>6
<1>4. ASSUME NEW f \in Flusher, TakeBatch(f), batch[f] = <<>>
      PROVE  /\ batch' \in [Flusher -> Seq(Event)]
             /\ queue' \in Seq(Event)
             /\ batch'[f] \o queue' = queue
             /\ \A g \in Flusher \ {f} : batch'[g] = batch[g]
  <2>1. BatchLen \in 0..Len(queue)
    BY BatchLenInQueue
  <2> DEFINE n == BatchLen
  <2>2. /\ SubSeq(queue, 1, n) \in Seq(Event)
        /\ SubSeq(queue, n + 1, Len(queue)) \in Seq(Event)
        /\ SubSeq(queue, 1, n) \o SubSeq(queue, n + 1, Len(queue)) = queue
    BY <1>t, <2>1, CutSequence
  <2>3. QED
    BY <1>4, <2>2 DEF TakeBatch, TypeOK
<1>5. CASE TickTake
  <2>1. batch["runner"] = <<>> /\ TakeBatch("runner") /\ rStop \notin {"flush", "send"}
    BY <1>5 DEF TickTake, OneFlusher, TypeOK
  <2>2. /\ batch' \in [Flusher -> Seq(Event)] /\ queue' \in Seq(Event)
        /\ batch'["runner"] \o queue' = queue
        /\ batch'["stop"] = batch["stop"]
    BY <1>4, <2>1 DEF Flusher
  <2>3. TypeOK' /\ OneFlusher'
    BY <1>5, <2>1, <2>2 DEF TickTake, TypeOK, OneFlusher
  <2>4. NothingLostOrReordered'
    <3>1. batch'["runner"] \in Seq(Event)
      BY <2>2 DEF Flusher
    <3>2. posted \o batch["stop"] \o batch'["runner"] \o queue' =
          posted \o batch["stop"] \o <<>> \o (batch'["runner"] \o queue')
      BY <1>v, <2>2, <3>1, MoveLeft, ZenonT(30)
    <3>3. QED
      BY <1>5, <2>1, <2>2, <3>2, Zenon DEF TickTake, NothingLostOrReordered
  <2>5. QED
    BY <2>3, <2>4
<1>6. CASE StopTake
  <2>1. /\ batch["runner"] = <<>> /\ batch["stop"] = <<>>
        /\ TakeBatch("stop") /\ rThread = "none"
    BY <1>6 DEF StopTake, OneFlusher, TypeOK
  <2>2. /\ batch' \in [Flusher -> Seq(Event)] /\ queue' \in Seq(Event)
        /\ batch'["stop"] \o queue' = queue
        /\ batch'["runner"] = <<>>
    BY <1>4, <2>1 DEF Flusher
  <2>3. TypeOK' /\ OneFlusher'
    BY <1>6, <2>1, <2>2 DEF StopTake, TypeOK, OneFlusher
  <2>4. NothingLostOrReordered'
    <3>1. batch'["stop"] \in Seq(Event)
      BY <2>2 DEF Flusher
    <3>2. posted \o <<>> = posted /\ posted \o batch'["stop"] \o <<>> = posted \o batch'["stop"]
      BY <1>t, <3>1, ConcatClosed, ConcatEmpty
    <3>3. posted \o (batch'["stop"] \o queue') = posted \o batch'["stop"] \o queue'
      <4>1. posted \in Seq(Event) /\ queue' \in Seq(Event)
        BY <1>t, <2>2
      <4>2. QED
        BY <3>1, <4>1, ConcatAssoc
    <3>4. posted \o queue = accepted
      BY <2>1, <3>2, Zenon DEF NothingLostOrReordered
    <3>5. posted \o batch'["stop"] \o <<>> \o queue' = accepted
      BY <2>2, <3>2, <3>3, <3>4, Zenon
    <3>6. QED
      BY <1>6, <2>2, <3>5, Zenon DEF StopTake, NothingLostOrReordered
  <2>5. QED
    BY <2>3, <2>4
<1>7. CASE TickSend
  <2>1. rStop \notin {"flush", "send"} /\ batch["stop"] = <<>>
    BY <1>7 DEF TickSend, OneFlusher, TypeOK
  <2>2. /\ batch' \in [Flusher -> Seq(Event)]
        /\ batch'["runner"] = <<>> /\ batch'["stop"] = <<>>
    BY <1>7, <1>t, <2>1 DEF TickSend, SendBatch, TypeOK, Flusher
  <2>3. queue' \in Seq(Event) /\ posted' \in Seq(Event)
    BY <1>7, <1>t, ConcatProperties, ZenonT(30) DEF TickSend, SendBatch
  <2>4. TypeOK' /\ OneFlusher'
    BY <1>7, <2>1, <2>2, <2>3 DEF TickSend, TypeOK, OneFlusher
  <2>5. NothingLostOrReordered'
    <3>1. /\ posted \o <<>> = posted
          /\ posted \o batch["runner"] \o <<>> = posted \o batch["runner"]
      BY <1>t, <1>v, ConcatEmpty
    <3>2. posted \o batch["runner"] \o queue = accepted /\ accepted' = accepted
      BY <1>7, <2>1, <3>1, Zenon DEF TickSend, NothingLostOrReordered
    <3>3. CASE endpoint
      <4>1. posted' = posted \o batch["runner"] /\ queue' = queue
        BY <1>7, <3>3, Zenon DEF TickSend, SendBatch
      <4>2. posted' \o <<>> \o <<>> \o queue' = accepted'
        BY <3>1, <3>2, <4>1, Zenon
      <4>3. QED
        BY <2>2, <4>2, Zenon DEF NothingLostOrReordered
    <3>4. CASE ~endpoint
      <4>1. posted' = posted /\ queue' = batch["runner"] \o queue
        BY <1>7, <3>4, Zenon DEF TickSend, SendBatch
      <4>2. posted \o (batch["runner"] \o queue) = posted \o batch["runner"] \o queue
        BY <1>t, ConcatAssoc, ZenonT(30)
      <4>3. posted' \o <<>> \o <<>> \o queue' = accepted'
        BY <3>1, <3>2, <4>1, <4>2, Zenon
      <4>4. QED
        BY <2>2, <4>3, Zenon DEF NothingLostOrReordered
    <3>5. QED
      BY <3>3, <3>4
  <2>6. QED
    BY <2>4, <2>5
<1>8. CASE StopSend
  <2>1. rThread = "none" /\ batch["runner"] = <<>>
    BY <1>8 DEF StopSend, OneFlusher, TypeOK
  <2>2. /\ batch' \in [Flusher -> Seq(Event)]
        /\ batch'["runner"] = <<>> /\ batch'["stop"] = <<>>
    BY <1>8, <1>t, <2>1 DEF StopSend, SendBatch, TypeOK, Flusher
  <2>3. queue' \in Seq(Event) /\ posted' \in Seq(Event)
    BY <1>8, <1>t, ConcatProperties, ZenonT(30) DEF StopSend, SendBatch
  <2>4. TypeOK' /\ OneFlusher'
    BY <1>8, <2>1, <2>2, <2>3 DEF StopSend, TypeOK, OneFlusher
  <2>5. NothingLostOrReordered'
    <3>1. /\ posted \o <<>> = posted
          /\ posted \o batch["stop"] \o <<>> = posted \o batch["stop"]
      BY <1>t, <1>v, ConcatEmpty
    <3>2. posted \o batch["stop"] \o queue = accepted /\ accepted' = accepted
      BY <1>8, <2>1, <3>1, Zenon DEF StopSend, NothingLostOrReordered
    <3>3. CASE endpoint
      <4>1. posted' = posted \o batch["stop"] /\ queue' = queue
        BY <1>8, <3>3, Zenon DEF StopSend, SendBatch
      <4>2. posted' \o <<>> \o <<>> \o queue' = accepted'
        BY <3>1, <3>2, <4>1, Zenon
      <4>3. QED
        BY <2>2, <4>2, Zenon DEF NothingLostOrReordered
    <3>4. CASE ~endpoint
      <4>1. posted' = posted /\ queue' = batch["stop"] \o queue
        BY <1>8, <3>4, Zenon DEF StopSend, SendBatch
      <4>2. posted \o (batch["stop"] \o queue) = posted \o batch["stop"] \o queue
        BY <1>t, ConcatAssoc, ZenonT(30)
      <4>3. posted' \o <<>> \o <<>> \o queue' = accepted'
        BY <3>1, <3>2, <4>1, <4>2, Zenon
      <4>4. QED
        BY <2>2, <4>3, Zenon DEF NothingLostOrReordered
    <3>5. QED
      BY <3>3, <3>4
  <2>6. QED
    BY <2>4, <2>5
<1>9. CASE UNCHANGED rVars
  BY <1>9 DEF rVars, TypeOK, OneFlusher, NothingLostOrReordered
<1>10. QED
  BY <1>1, <1>2, <1>3, <1>5, <1>6, <1>7, <1>8, <1>9
     DEF Next, RunnerStep, StopStep

LEMMA ReporterInit == Init => ReporterInv
<1> SUFFICES ASSUME Init PROVE ReporterInv
  OBVIOUS
<1>1. TypeOK
  BY EmptySeq DEF Init, TypeOK, Flusher
<1>2. OneFlusher
  BY DEF Init, OneFlusher, Flusher
<1>3. NothingLostOrReordered
  <2>1. <<>> \o <<>> = <<>>
    BY EmptySeq, ConcatEmptySeq
  <2>2. QED
    BY <2>1 DEF Init, NothingLostOrReordered, Flusher
<1>4. QED
  BY <1>1, <1>2, <1>3 DEF ReporterInv

(***************************************************************************)
(* For every batch size, an event handed to enqueue() is posted once and   *)
(* in order, or is still in the batch in flight or in the queue.           *)
(***************************************************************************)
THEOREM ReporterKeepsEvents == Spec => []NothingLostOrReordered
<1>1. ReporterInv => NothingLostOrReordered
  BY DEF ReporterInv
<1>2. QED
  BY <1>1, ReporterInit, ReporterStep, PTL DEF Spec

-----------------------------------------------------------------------------
(* The refinement of the abstract feed.                                    *)

\* A sequence is the beginning of what it is extended to.
LEMMA FirstPart ==
  ASSUME NEW s \in Seq(Event), NEW t \in Seq(Event)
  PROVE  /\ SubSeq(s \o t, 1, Len(s)) = s
         /\ Len(s) <= Len(s \o t)
         /\ Len(s) \in Nat /\ Len(s \o t) \in Nat
<1>1. /\ s \o t \in Seq(Event)
      /\ Len(s \o t) = Len(s) + Len(t)
      /\ \A i \in 1..Len(s) : (s \o t)[i] = s[i]
      /\ Len(s) \in Nat /\ Len(t) \in Nat
  BY ConcatProperties, LenProperties
<1> DEFINE u == s \o t
<1> HIDE DEF u
<1>2. u \in Seq(Event) /\ Len(u) = Len(s) + Len(t) /\ \A i \in 1..Len(s) : u[i] = s[i]
  BY <1>1 DEF u
<1>3. SubSeq(u, 1, Len(s)) = s
  BY <1>1, <1>2
<1> QED
  BY <1>1, <1>3 DEF u

\* The endpoint had p and has r, when a was accepted: the step of the feed.
FeedGrows(p, r, a) ==
  r = p \/ \E n \in Len(p) + 1 .. Len(a) : r = SubSeq(a, 1, n)

\* Sending a batch that was taken posts the next events of the feed.
LEMMA SendPosts ==
  \A p, b, q \in Seq(Event) : FeedGrows(p, p \o b, p \o b \o q)
<1> SUFFICES ASSUME NEW p \in Seq(Event), NEW b \in Seq(Event), NEW q \in Seq(Event)
             PROVE  FeedGrows(p, p \o b, p \o b \o q)
  OBVIOUS
<1> DEFINE a == p \o b \o q
<1>1. p \o b \in Seq(Event) /\ Len(p \o b) = Len(p) + Len(b) /\ Len(p) \in Nat /\ Len(b) \in Nat
  BY ConcatProperties, LenProperties
<1>2. CASE Len(b) = 0
  <2>1. b = <<>>
    BY <1>2, EmptySeq
  <2>2. p \o b = p
    BY <2>1, ConcatEmpty
  <2> QED
    BY <2>2 DEF FeedGrows
<1>3. CASE Len(b) # 0
  <2> DEFINE r == p \o b
  <2>1. r \in Seq(Event) /\ Len(r) >= Len(p) + 1
    BY <1>1, <1>3
  <2> HIDE DEF r
  <2>2. SubSeq(r \o q, 1, Len(r)) = r /\ Len(r) <= Len(r \o q)
        /\ Len(r) \in Nat /\ Len(r \o q) \in Nat
    BY <2>1, FirstPart
  <2>3. a = r \o q
    BY DEF r
  <2> HIDE DEF a
  <2>4. Len(r) \in Len(p) + 1 .. Len(a)
    BY <1>1, <2>1, <2>2, <2>3
  <2>5. \E n \in Len(p) + 1 .. Len(a) : r = SubSeq(a, 1, n)
    BY <2>2, <2>3, <2>4
  <2> QED
    BY <2>5 DEF r, a, FeedGrows
<1> QED
  BY <1>2, <1>3

\* Every step of the reporter is a step of the feed, or leaves it alone.
LEMMA FeedStep == ReporterInv /\ [Next]_rVars => [Feed!Next]_(Feed!vars)
<1> SUFFICES ASSUME TypeOK, OneFlusher, NothingLostOrReordered, [Next]_rVars
             PROVE  Feed!Next \/ UNCHANGED <<accepted, posted>>
  BY DEF ReporterInv, Feed!vars
<1>0. /\ queue \in Seq(Event) /\ posted \in Seq(Event)
      /\ batch["runner"] \in Seq(Event) /\ batch["stop"] \in Seq(Event)
  BY DEF TypeOK, Flusher
<1>1. ASSUME NEW e \in Event, Enqueue(e)
      PROVE  Feed!Next
  BY <1>1 DEF Enqueue, Feed!Next, Feed!Accept
<1>2. ASSUME NEW e \in Event, NEW f \in Event, EnqueueBatch(e, f)
      PROVE  Feed!Next
  BY <1>2 DEF EnqueueBatch, Feed!Next, Feed!Accept
<1>3. ASSUME NEW b \in Seq(Event), accepted = posted \o b \o queue,
             posted' = posted \o b, accepted' = accepted
      PROVE  Feed!Next \/ UNCHANGED <<accepted, posted>>
  <2>1. FeedGrows(posted, posted \o b, posted \o b \o queue)
    BY <1>0, SendPosts, Zenon
  <2>2. FeedGrows(posted, posted', accepted)
    BY <1>3, <2>1, Zenon
  <2> QED
    BY <1>3, <2>2 DEF FeedGrows, Feed!Next, Feed!Post
<1>4. posted \o <<>> = posted
  BY <1>0, ConcatEmpty
<1>5. CASE TickSend
  <2>1. batch["stop"] = <<>> /\ accepted' = accepted
    BY <1>5 DEF TickSend, OneFlusher, TypeOK
  <2>2. accepted = posted \o batch["runner"] \o queue
    BY <1>4, <2>1, Zenon DEF NothingLostOrReordered
  <2>3. posted' = posted \o batch["runner"] \/ posted' = posted
    BY <1>5, Zenon DEF TickSend, SendBatch
  <2> QED
    BY <1>0, <1>3, <2>1, <2>2, <2>3
<1>6. CASE StopSend
  <2>1. batch["runner"] = <<>> /\ accepted' = accepted
    BY <1>6 DEF StopSend, OneFlusher, TypeOK
  <2>2. posted \o batch["stop"] \o <<>> = posted \o batch["stop"]
    <3>1. posted \o batch["stop"] \in Seq(Event)
      BY <1>0, ConcatClosed
    <3> QED
      BY <3>1, ConcatEmpty
  <2>3. accepted = posted \o batch["stop"] \o queue
    BY <2>1, <2>2, Zenon DEF NothingLostOrReordered
  <2>4. posted' = posted \o batch["stop"] \/ posted' = posted
    BY <1>6, Zenon DEF StopSend, SendBatch
  <2> QED
    BY <1>0, <1>3, <2>1, <2>3, <2>4
<1>7. CASE Start \/ StopRequest \/ BeginTick \/ TickTake \/ RunnerExit \/ StopJoin \/ StopTake
  BY <1>7 DEF Start, StopRequest, BeginTick, TickTake, RunnerExit, StopJoin, StopTake
<1>8. CASE UNCHANGED rVars
  BY <1>8 DEF rVars
<1> QED
  BY <1>1, <1>2, <1>5, <1>6, <1>7, <1>8 DEF Next, RunnerStep, StopStep

(***************************************************************************)
(* The reporter implements the abstract feed: whatever the batch size, at  *)
(* every step the endpoint has a prefix of what was accepted, and only     *)
(* ever receives the events that follow it (flush_batch, stop).            *)
(***************************************************************************)
THEOREM ReporterRefinesFeed == Spec => ImplementsFeed
<1>1. Init => Feed!Init
  BY DEF Init, Feed!Init
<1>2. Spec => []ReporterInv
  BY ReporterInit, ReporterStep, PTL DEF Spec
<1> QED
  BY <1>1, <1>2, FeedStep, PTL DEF Spec, ImplementsFeed, Feed!Spec
=============================================================================
