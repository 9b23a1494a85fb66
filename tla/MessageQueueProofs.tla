------------------------ MODULE MessageQueueProofs ------------------------
(***************************************************************************)
(* Proofs about MessageQueue for every number of producers, every queue    *)
(* limit and every pipe capacity.                                          *)
(***************************************************************************)
EXTENDS MessageQueue, SequenceTheorems, TLAPS

\* Every step of push(), yield() and pipeReadCallback() preserves the types.
LEMMA TypeStep == TypeOK /\ [Next]_vars => TypeOK'
<1> SUFFICES ASSUME TypeOK, [Next]_vars PROVE TypeOK'
  OBVIOUS
<1> USE CapacityAssumption
<1>1. CASE UNCHANGED vars
  BY <1>1 DEF TypeOK, vars
<1>2. ASSUME NEW p \in Producers, QueuePush(p) PROVE TypeOK'
  <2>1. sent[p] + 1 \in 0..MessageBound /\ <<p, sent[p] + 1>> \in Messages
    BY <1>2 DEF TypeOK, QueuePush, Messages
  <2>2. queue' \in Seq(Messages)
    BY <1>2, <2>1, AppendProperties DEF TypeOK, QueuePush
  <2> QED
    BY <1>2, <2>1, <2>2 DEF TypeOK, QueuePush
<1>3. ASSUME NEW p \in Producers, PipeWrite(p) PROVE TypeOK'
  BY <1>3 DEF TypeOK, PipeWrite, WritePipe
<1>4. CASE PollReturns
  BY <1>4 DEF TypeOK, PollReturns
<1>5. CASE DrainRead
  BY <1>5 DEF TypeOK, DrainRead
<1>6. CASE DrainDone
  BY <1>6 DEF TypeOK, DrainDone
<1>7. CASE PopMessage
  <2>1. Head(queue) \in Messages /\ queue' \in Seq(Messages)
    BY <1>7, HeadTailProperties DEF TypeOK, PopMessage
  <2>2. delivered' \in Seq(Messages)
    BY <1>7, <2>1, AppendProperties DEF TypeOK, PopMessage
  <2> QED
    BY <1>7, <2>1, <2>2 DEF TypeOK, PopMessage
<1>8. CASE PopNothing
  BY <1>8 DEF TypeOK, PopNothing
<1>9. CASE StopEarly
  BY <1>9 DEF TypeOK, StopEarly
<1>10. CASE YieldWrite
  BY <1>10 DEF TypeOK, YieldWrite, WritePipe
<1> QED
  BY <1>1, <1>2, <1>3, <1>4, <1>5, <1>6, <1>7, <1>8, <1>9, <1>10
  DEF Next, Produce, IOThread

\* The members of MessageQueue keep their types; in particular the pipe never
\* holds more than its capacity because a write to a full pipe is dropped.
THEOREM TypeCorrect == Spec => []TypeOK
<1>1. Init => TypeOK
  BY CapacityAssumption, EmptySeq DEF Init, TypeOK
<1> QED
  BY <1>1, TypeStep, PTL DEF Spec

\* The I/O thread never goes to sleep on a message: the byte dropped by a full
\* pipe, the message pushed while the callback runs and the callback that stops
\* early all leave a byte in the pipe or a producer about to write one.
THEOREM NoLostWakeup == Spec => []WakeupPending
<1>1. Init => WakeupPending
  BY DEF Init, WakeupPending
<1>2. TypeOK /\ WakeupPending /\ [Next]_vars => WakeupPending'
  <2> SUFFICES ASSUME TypeOK, WakeupPending, [Next]_vars PROVE WakeupPending'
    OBVIOUS
  <2> USE CapacityAssumption
  <2>1. CASE UNCHANGED vars
    BY <2>1 DEF WakeupPending, vars
  <2>2. ASSUME NEW p \in Producers, QueuePush(p) PROVE WakeupPending'
    <3>1. pc'[p] = "pushed"
      BY <2>2 DEF QueuePush, TypeOK
    <3> QED
      BY <3>1 DEF WakeupPending
  <2>3. ASSUME NEW p \in Producers, PipeWrite(p) PROVE WakeupPending'
    <3>1. pipe' > 0
      BY <2>3 DEF PipeWrite, WritePipe, TypeOK
    <3> QED
      BY <3>1 DEF WakeupPending
  <2>4. CASE PollReturns \/ DrainRead \/ DrainDone \/ PopMessage \/ StopEarly
    BY <2>4 DEF WakeupPending, PollReturns, DrainRead, DrainDone, PopMessage,
                StopEarly
  <2>5. CASE PopNothing
    BY <2>5 DEF WakeupPending, PopNothing
  <2>6. CASE YieldWrite
    <3>1. pipe' > 0
      BY <2>6 DEF YieldWrite, WritePipe, TypeOK
    <3> QED
      BY <3>1 DEF WakeupPending
  <2> QED
    BY <2>1, <2>2, <2>3, <2>4, <2>5, <2>6 DEF Next, Produce, IOThread
<1> QED
  BY <1>1, <1>2, TypeCorrect, PTL DEF Spec

\* A pop moves the head of the queue to the end of what is delivered.
LEMMA PopKeepsStream ==
  ASSUME TypeOK, PopMessage
  PROVE  Stream' = Stream
<1>1. /\ queue \in Seq(Messages) /\ queue # <<>> /\ delivered \in Seq(Messages)
      /\ delivered' = Append(delivered, Head(queue)) /\ queue' = Tail(queue)
  BY DEF TypeOK, PopMessage
<1>2. /\ Head(queue) \in Messages /\ Tail(queue) \in Seq(Messages)
      /\ queue = <<Head(queue)>> \o Tail(queue) /\ <<Head(queue)>> \in Seq(Messages)
  <2>1. Head(queue) \in Messages /\ Tail(queue) \in Seq(Messages)
    BY <1>1, HeadTailProperties
  <2>2. <<Head(queue)>> \in Seq(Messages)
    BY <2>1
  <2>3. queue = <<Head(queue)>> \o Tail(queue)
    BY <1>1
  <2> QED
    BY <2>1, <2>2, <2>3
<1>3. delivered' = delivered \o <<Head(queue)>>
  BY <1>1, <1>2, AppendIsConcat
<1>4. delivered' \o queue' = delivered \o (<<Head(queue)>> \o Tail(queue))
  BY <1>1, <1>2, <1>3, ConcatAssociative
<1> QED
  BY <1>2, <1>4 DEF Stream

\* A push adds its message to the end of the stream.
LEMMA PushExtendsStream ==
  ASSUME TypeOK, NEW p \in Producers, QueuePush(p)
  PROVE  /\ Stream \in Seq(Messages) /\ <<p, sent[p] + 1>> \in Messages
         /\ Stream' = Append(Stream, <<p, sent[p] + 1>>)
<1> DEFINE m == <<p, sent[p] + 1>>
<1>1. /\ m \in Messages /\ queue \in Seq(Messages) /\ delivered \in Seq(Messages)
      /\ queue' = Append(queue, m) /\ delivered' = delivered
  BY DEF TypeOK, QueuePush, Messages
<1> HIDE DEF m
<1>2. Stream \in Seq(Messages) /\ <<m>> \in Seq(Messages)
  BY <1>1, ConcatProperties DEF Stream
<1>3. queue' = queue \o <<m>> /\ Append(Stream, m) = Stream \o <<m>>
  BY <1>1, <1>2, AppendIsConcat
<1>4. delivered \o (queue \o <<m>>) = (delivered \o queue) \o <<m>>
  BY <1>1, <1>2, ConcatAssociative
<1> QED
  BY <1>1, <1>2, <1>3, <1>4 DEF Stream, m

\* However producers and the client interleave, and whatever happens to the bytes of
\* the pipe, the stream of messages has no gap, no duplicate and no reordering.
THEOREM DeliveryExact == Spec => []ExactlyOnceInOrder
<1>1. Init => ExactlyOnceInOrder
  <2> SUFFICES ASSUME Init PROVE ExactlyOnceInOrder
    OBVIOUS
  <2>1. Stream = <<>> /\ \A p \in Producers : sent[p] = 0
    BY DEF Init, Stream
  <2> QED
    BY <2>1 DEF ExactlyOnceInOrder, NothingInvented, NothingLost, OncePerMessage
<1>2. TypeOK /\ ExactlyOnceInOrder /\ [Next]_vars => ExactlyOnceInOrder'
  <2> SUFFICES ASSUME TypeOK, ExactlyOnceInOrder, [Next]_vars PROVE ExactlyOnceInOrder'
    OBVIOUS
  <2> USE DEF ExactlyOnceInOrder, NothingInvented, NothingLost, OncePerMessage
  <2>1. CASE Stream' = Stream /\ sent' = sent
    BY <2>1
  <2>2. ASSUME NEW p \in Producers, QueuePush(p) PROVE ExactlyOnceInOrder'
    <3> DEFINE m == <<p, sent[p] + 1>>
    <3>1. /\ Stream \in Seq(Messages) /\ m \in Messages /\ Stream' = Append(Stream, m)
          /\ sent' = [sent EXCEPT ![p] = @ + 1]
      BY <2>2, PushExtendsStream DEF QueuePush
    <3>2. /\ Len(Stream) \in Nat /\ DOMAIN Stream = 1..Len(Stream)
          /\ DOMAIN Stream' = 1..Len(Stream) + 1
          /\ \A i \in 1..Len(Stream) : Stream'[i] = Stream[i] /\ Stream[i] \in Messages
          /\ Stream'[Len(Stream) + 1] = m
      BY <3>1, LenProperties, AppendProperties, ElementOfSeq
    <3>3. sent \in [Producers -> Nat] /\ sent'[p] = sent[p] + 1
      BY <3>1, CapacityAssumption DEF TypeOK
    <3>4. \A q \in Producers \ {p} : sent'[q] = sent[q]
      BY <3>1, <3>3
    <3>5. \A x \in Messages : x[1] \in Producers /\ x[2] \in Nat
      BY DEF Messages
    <3>6. m[1] = p /\ m[2] = sent[p] + 1
      OBVIOUS
    <3> HIDE DEF m
    <3>7. NothingInvented'
      <4> SUFFICES ASSUME NEW i \in DOMAIN Stream'
                   PROVE  Stream'[i][2] \in 1..sent'[Stream'[i][1]]
        OBVIOUS
      <4>1. CASE i = Len(Stream) + 1
        BY <4>1, <3>2, <3>3, <3>6
      <4>2. CASE i \in 1..Len(Stream)
        <5> DEFINE q == Stream[i][1]
        <5>1. Stream'[i] = Stream[i] /\ q \in Producers /\ Stream[i][2] \in 1..sent[q]
          BY <4>2, <3>2, <3>5
        <5>2. sent[q] \in Nat /\ sent'[q] \in Nat /\ sent[q] <= sent'[q]
          BY <5>1, <3>3, <3>4
        <5> QED
          BY <5>1, <5>2
      <4> QED
        BY <4>1, <4>2, <3>2
    <3>8. NothingLost'
      <4> SUFFICES ASSUME NEW q \in Producers, NEW n \in 1..sent'[q]
                   PROVE  \E i \in DOMAIN Stream' : Stream'[i] = <<q, n>>
        OBVIOUS
      <4>1. CASE q = p /\ n = sent[p] + 1
        BY <4>1, <3>2 DEF m
      <4>2. CASE n \in 1..sent[q]
        <5>1. PICK i \in DOMAIN Stream : Stream[i] = <<q, n>>
          BY <4>2
        <5> QED
          BY <5>1, <3>2
      <4> QED
        BY <4>1, <4>2, <3>3, <3>4
    <3>9. OncePerMessage'
      <4> SUFFICES ASSUME NEW i \in DOMAIN Stream', NEW j \in DOMAIN Stream',
                          i < j, Stream'[i][1] = Stream'[j][1]
                   PROVE  Stream'[i][2] < Stream'[j][2]
        OBVIOUS
      <4>1. i \in 1..Len(Stream)
        BY <3>2
      <4>2. CASE j \in 1..Len(Stream)
        BY <4>1, <4>2, <3>2
      <4>3. CASE j = Len(Stream) + 1
        BY <4>1, <4>3, <3>2, <3>3, <3>5, <3>6
      <4> QED
        BY <4>2, <4>3, <3>2
    <3> QED
      BY <3>7, <3>8, <3>9
  <2>3. CASE PopMessage
    BY <2>1, <2>3, PopKeepsStream DEF PopMessage
  <2>4. CASE UNCHANGED <<queue, delivered, sent>>
    BY <2>1, <2>4 DEF Stream
  <2> QED
    BY <2>2, <2>3, <2>4
    DEF Next, Produce, IOThread, vars, PipeWrite, PollReturns, DrainRead, DrainDone,
        PopNothing, StopEarly, YieldWrite
<1> QED
  BY <1>1, <1>2, TypeCorrect, PTL DEF Spec
=============================================================================
