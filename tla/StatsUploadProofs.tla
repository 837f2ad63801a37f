-------------------------- MODULE StatsUploadProofs --------------------------
(***************************************************************************)
(* Proofs about StatsUpload: types, that no signal is slept through, what  *)
(* is left behind when the program quits, and that each record is posted   *)
(* once, unless its message was queued behind another one.                 *)
(***************************************************************************)
EXTENDS StatsUpload, SequenceTheorems, TLAPS

\* The exit flag is set by flush_and_quit and never taken back; the thread
\* ends only after it.
ExitFlag ==
  /\ main = "running" => ~send_stats_should_exit
  /\ main \in {"quitting", "joining", "over"} => send_stats_should_exit
  /\ thread = "exited" => send_stats_should_exit

\* A thread that ended had taken every message: what is queued now is the last.
LeftBehind ==
  thread = "exited" =>
    /\ main = "quitting" => upload_queue = <<>>
    /\ \A m \in Range(upload_queue) : m.flush = flushes

\* The local queue of the thread is gone when its loop is over.
BatchWhileSending == batch # <<>> => thread = "sending"

\* Only the flush of flush_and_quit goes beyond the bound on flushes.
WithinBound ==
  (main \in {"running", "quitting"} \/ ~send_stats_should_exit) => flushes <= MaxFlushes

Control == NoLostWakeup /\ ExitFlag /\ LeftBehind /\ BatchWhileSending /\ WithinBound

\* The first message of the queue is the only one that need not be behind
\* another; in the batch it is the first, until that one is done.
BehindFirst ==
  /\ \A i \in 2..Len(upload_queue) : upload_queue[i] \in behind
  /\ \A i \in 1..Len(batch) : (i > 1 \/ done) => batch[i] \in behind

Ordered(queue) ==
  \A i, j \in 1..Len(queue) : i < j => queue[i].flush < queue[j].flush

\* Messages are queued, taken and posted in the order of their flushes.
InOrder ==
  /\ \A m \in answered \union Waiting : m.flush <= flushes
  /\ Ordered(upload_queue) /\ Ordered(batch)
  /\ \A m \in Range(batch), n \in Range(upload_queue) : m.flush < n.flush
  /\ \A m \in answered, n \in Waiting : m.flush < n.flush

\* What messages carry has been recorded, and is not in write_queue any more.
Carried ==
  /\ \A m \in Messages : m.records \subseteq 1..recorded
  /\ \A r \in 1..recorded : IF r \in write_queue THEN Carrying(r) = {}
                            ELSE \E m \in Messages : Carrying(r) = {m}

Content == BehindFirst /\ InOrder /\ Carried

IInv == TypeOK /\ Control /\ Content

-----------------------------------------------------------------------------

\* Appending adds one element to the range, and taking the head takes one off.
LEMMA RangeAppend ==
  ASSUME NEW T, NEW queue \in Seq(T), NEW x \in T
  PROVE  Range(Append(queue, x)) = Range(queue) \union {x}
  <1>1. Len(queue) \in Nat /\ Len(Append(queue, x)) = Len(queue) + 1
    BY AppendProperties
  <1>2. Range(queue) = {queue[i] : i \in 1 .. Len(queue)}
    BY DEF Range
  <1>3. Range(Append(queue, x)) = {Append(queue, x)[i] : i \in 1 .. Len(queue) + 1}
    BY <1>1, AppendProperties DEF Range
  <1>4. 1 .. Len(queue) + 1 = (1 .. Len(queue)) \union {Len(queue) + 1}
    BY <1>1
  <1> QED
    BY <1>1, <1>2, <1>3, <1>4, AppendProperties

LEMMA RangeTail ==
  ASSUME NEW T, NEW queue \in Seq(T), queue # <<>>
  PROVE  Range(queue) = {Head(queue)} \union Range(Tail(queue))
  <1>1. /\ Len(queue) \in Nat \ {0}
        /\ Tail(queue) \in Seq(T) /\ Len(Tail(queue)) = Len(queue) - 1
        /\ \A i \in 1 .. Len(queue) - 1 : Tail(queue)[i] = queue[i + 1]
        /\ Head(queue) = queue[1]
    BY HeadTailProperties, EmptySeq
  <1>2. Range(queue) = {queue[i] : i \in 1 .. Len(queue)}
    BY DEF Range
  <1>3. Range(Tail(queue)) = {queue[i + 1] : i \in 1 .. Len(queue) - 1}
    <2>1. Range(Tail(queue)) = {Tail(queue)[i] : i \in 1 .. Len(Tail(queue))}
      BY <1>1, RangeEquality
    <2> QED
      BY <1>1, <2>1
  <1>4. ASSUME NEW i \in 1 .. Len(queue)
        PROVE  queue[i] \in {Head(queue)} \union Range(Tail(queue))
    <2>1. CASE i = 1
      BY <1>1, <2>1
    <2>2. CASE i # 1
      <3>1. i - 1 \in 1 .. Len(queue) - 1 /\ queue[(i - 1) + 1] = queue[i]
        BY <1>1, <2>2
      <3> QED
        BY <1>3, <3>1
    <2> QED
      BY <2>1, <2>2
  <1>5. \A i \in 1 .. Len(queue) - 1 : i + 1 \in 1 .. Len(queue)
    BY <1>1
  <1>6. 1 \in 1 .. Len(queue)
    BY <1>1
  <1> QED
    BY <1>1, <1>2, <1>3, <1>4, <1>5, <1>6

\* Nothing moves: the queues, the batch and what they carry stay as they are.
LEMMA ContentStays ==
  ASSUME Content,
         UNCHANGED <<recorded, write_queue, upload_queue, flushes, behind, batch, done, answered>>
  PROVE  Content'
  BY DEF Content, BehindFirst, InOrder, Ordered, Carried, Carrying, Messages, Waiting

LEMMA InitInv == Init => IInv
  <1> SUFFICES ASSUME Init PROVE IInv
    OBVIOUS
  <1>1. <<>> \in Seq(Message) /\ Len(<<>>) = 0 /\ Range(<<>>) = {}
    BY DEF Range
  <1>2. TypeOK
    <2>1. recorded \in 0 .. MaxRecords /\ flushes \in 0 .. MaxFlushes + 1
      BY BoundsAssumption DEF Init
    <2>2. write_queue \subseteq 1 .. recorded /\ answered \subseteq Message /\ behind \subseteq Message
      BY DEF Init
    <2>3. upload_queue \in Seq(Message) /\ batch \in Seq(Message)
      BY <1>1 DEF Init
    <2> QED
      BY <2>1, <2>2, <2>3 DEF Init, TypeOK
  <1>3. Control
    BY BoundsAssumption DEF Init, Control, NoLostWakeup, ExitFlag, LeftBehind, BatchWhileSending,
           WithinBound
  <1>4. Messages = {} /\ Waiting = {} /\ answered = {}
    BY <1>1 DEF Init, Messages, Waiting
  <1>5. BehindFirst /\ InOrder
    BY <1>1, <1>4 DEF Init, BehindFirst, InOrder, Ordered
  <1>6. Carried
    BY <1>4 DEF Init, Carried
  <1> QED
    BY <1>2, <1>3, <1>5, <1>6 DEF IInv, Content

LEMMA RecordStep == IInv /\ Record => IInv'
  <1> SUFFICES ASSUME IInv, Record PROVE IInv'
    OBVIOUS
  <1>1. /\ recorded < MaxRecords /\ recorded' = recorded + 1 /\ recorded \in Nat
        /\ write_queue' = write_queue \union {recorded + 1}
        /\ UNCHANGED <<upload_queue, send_stats_should_exit, main, flushes, behind,
                       thread, batch, done, answered>>
    BY DEF Record, threadVars, IInv, TypeOK
  <1>2. 1 .. recorded' = (1 .. recorded) \union {recorded + 1}
    BY <1>1
  <1>3. TypeOK'
    BY <1>1, <1>2, BoundsAssumption DEF IInv, TypeOK
  <1>4. Control'
    BY <1>1 DEF IInv, Control, NoLostWakeup, ExitFlag, LeftBehind, BatchWhileSending,
           WithinBound
  <1>5. BehindFirst' /\ InOrder'
    BY <1>1 DEF IInv, Content, BehindFirst, InOrder, Ordered, Waiting
  <1>6. Carried'
    <2>1. Messages' = Messages /\ \A r : Carrying(r)' = Carrying(r)
      BY <1>1 DEF Messages, Waiting, Carrying
    <2>2. \A m \in Messages : m.records \subseteq 1 .. recorded
      BY DEF IInv, Content, Carried
    <2>3. Carrying(recorded + 1) = {}
      BY <1>1, <2>2 DEF Carrying
    <2>4. \A m \in Messages' : m.records \subseteq 1 .. recorded'
      BY <1>2, <2>1, <2>2
    <2>5. ASSUME NEW r \in 1 .. recorded'
          PROVE  IF r \in write_queue' THEN Carrying(r)' = {}
                 ELSE \E m \in Messages' : Carrying(r)' = {m}
      <3>1. CASE r = recorded + 1
        BY <1>1, <2>1, <2>3, <3>1
      <3>2. CASE r # recorded + 1
        BY <1>1, <1>2, <2>1, <3>2 DEF IInv, Content, Carried
      <3> QED
        BY <3>1, <3>2
    <2> QED
      BY <2>4, <2>5 DEF Carried
  <1> QED
    BY <1>3, <1>4, <1>5, <1>6 DEF IInv, Content

\* Flush and FinalFlush: the queue is as it was, with at most the new message,
\* which carries what was in write_queue and is younger than all others.
LEMMA SendStatsContent ==
  ASSUME IInv, SendStats, flushes < MaxFlushes + 1,
         UNCHANGED <<recorded, batch, done, answered>>
  PROVE  /\ Content'
         /\ upload_queue' \in Seq(Message) /\ behind' \subseteq Message
         /\ write_queue' \subseteq 1 .. recorded
         /\ flushes' \in 0 .. MaxFlushes + 1
         /\ upload_queue = <<>> => \A m \in Range(upload_queue') : m.flush = flushes'
  <1> DEFINE message == [flush |-> flushes + 1, records |-> write_queue]
  <1>1. /\ flushes' = flushes + 1 /\ flushes \in Nat /\ flushes' \in 1 .. MaxFlushes + 1
        /\ recorded \in 0 .. MaxRecords /\ write_queue \subseteq 1 .. recorded
        /\ upload_queue \in Seq(Message) /\ batch \in Seq(Message)
        /\ answered \subseteq Message /\ behind \subseteq Message
    BY BoundsAssumption DEF SendStats, IInv, TypeOK
  <1>2. /\ Range(upload_queue) \subseteq Message /\ Range(batch) \subseteq Message
        /\ \A m \in Message : m.flush \in Nat
    <2>1. \A m \in Message : m.flush \in 1 .. MaxFlushes + 1
      BY DEF Message
    <2>2. Range(upload_queue) \subseteq Message /\ Range(batch) \subseteq Message
      BY <1>1, RangeOfSeq
    <2> QED
      BY <2>1, <2>2, BoundsAssumption
  <1>3. Len(upload_queue) \in Nat
    BY <1>1
  <1>4. CASE recorded = 0
    <2>1. UNCHANGED <<upload_queue, write_queue, behind>>
      BY <1>4 DEF SendStats
    <2>2. \A m \in answered \union Waiting : m.flush <= flushes'
      BY <1>1, <1>2 DEF IInv, Content, InOrder, Waiting
    <2>3. BehindFirst' /\ InOrder'
      BY <2>1, <2>2 DEF IInv, Content, BehindFirst, InOrder, Ordered, Waiting
    <2>4. Carried'
      BY <2>1 DEF IInv, Content, Carried, Carrying, Messages, Waiting
    <2>5. upload_queue = <<>> => Range(upload_queue') = {}
      BY <2>1 DEF Range
    <2> QED
      BY <1>1, <2>1, <2>3, <2>4, <2>5 DEF Content
  <1>5. CASE recorded # 0
    <2>1. /\ upload_queue' = Append(upload_queue, message) /\ write_queue' = {}
          /\ behind' = IF upload_queue = <<>> THEN behind ELSE behind \union {message}
      BY <1>1, <1>5 DEF SendStats
    <2>2. /\ message \in Message /\ message.flush = flushes + 1
          /\ message.records = write_queue
      BY <1>1, BoundsAssumption DEF Message
    <2> HIDE DEF message
    <2>3. /\ upload_queue' \in Seq(Message) /\ Len(upload_queue') = Len(upload_queue) + 1
          /\ \A i \in 1 .. Len(upload_queue) : upload_queue'[i] = upload_queue[i]
          /\ upload_queue'[Len(upload_queue) + 1] = message
      BY <1>1, <2>1, <2>2, AppendProperties
    <2>4. Range(upload_queue') = Range(upload_queue) \union {message}
      BY <1>1, <2>1, <2>2, RangeAppend
    <2>5. upload_queue # <<>> => message \in behind'
      BY <2>1
    <2>6. BehindFirst'
      <3>1. ASSUME NEW i \in 2 .. Len(upload_queue')
            PROVE  upload_queue'[i] \in behind'
        <4>1. CASE i \in 2 .. Len(upload_queue)
          BY <1>3, <2>1, <2>3, <4>1 DEF IInv, Content, BehindFirst
        <4>2. CASE i = Len(upload_queue) + 1
          <5>1. upload_queue # <<>>
            BY <1>3, <4>2
          <5> QED
            BY <2>3, <2>5, <4>2, <5>1
        <4> QED
          BY <1>3, <2>3, <4>1, <4>2
      <3>2. \A i \in 1 .. Len(batch) : (i > 1 \/ done) => batch[i] \in behind'
        BY <2>1 DEF IInv, Content, BehindFirst
      <3> QED
        BY <3>1, <3>2 DEF BehindFirst
    <2>7. InOrder'
      <3>1. \A m \in answered \union Waiting : m \in Message /\ m.flush \in Nat /\ m.flush < flushes + 1
        BY <1>1, <1>2 DEF IInv, Content, InOrder, Waiting
      <3>2. Waiting' = Waiting \union {message}
        BY <2>4 DEF Waiting
      <3>3. \A m \in (answered \union Waiting)' : m.flush <= flushes'
        BY <1>1, <2>2, <3>1, <3>2
      <3>4. Ordered(upload_queue')
        <4>1. ASSUME NEW i \in 1 .. Len(upload_queue'), NEW j \in 1 .. Len(upload_queue'), i < j
              PROVE  upload_queue'[i].flush < upload_queue'[j].flush
          <5>1. i \in 1 .. Len(upload_queue) /\ upload_queue'[i] = upload_queue[i]
            BY <1>3, <2>3, <4>1
          <5>2. CASE j \in 1 .. Len(upload_queue)
            BY <2>3, <4>1, <5>1, <5>2 DEF IInv, Content, InOrder, Ordered
          <5>3. CASE j = Len(upload_queue) + 1
            <6>1. upload_queue[i] \in Waiting
              BY <5>1 DEF Waiting, Range
            <6> QED
              BY <2>2, <2>3, <3>1, <5>1, <5>3, <6>1
          <5> QED
            BY <1>3, <2>3, <5>2, <5>3
        <4> QED
          BY <4>1 DEF Ordered
      <3>5. Ordered(batch') /\ \A m \in Range(batch'), n \in Range(upload_queue') : m.flush < n.flush
        BY <2>2, <2>4, <3>1 DEF IInv, Content, InOrder, Waiting
      <3>6. \A m \in answered', n \in Waiting' : m.flush < n.flush
        BY <2>2, <3>1, <3>2 DEF IInv, Content, InOrder
      <3> QED
        BY <3>3, <3>4, <3>5, <3>6 DEF InOrder
    <2>8. Carried'
      <3>1. Messages' = Messages \union {message}
        BY <2>1, <2>4 DEF Messages, Waiting
      <3>2. \A r : Carrying(r)' = IF r \in write_queue THEN Carrying(r) \union {message} ELSE Carrying(r)
        BY <2>2, <3>1 DEF Carrying
      <3> QED
        BY <1>1, <2>1, <2>2, <3>1, <3>2 DEF IInv, Content, Carried
    <2>9. upload_queue = <<>> => Range(upload_queue') = {message}
      <3>1. Range(<<>>) = {}
        BY DEF Range
      <3> QED
        BY <2>4, <3>1
    <2>10. behind' \subseteq Message
      BY <1>1, <2>1, <2>2
    <2> QED
      BY <1>1, <2>1, <2>2, <2>3, <2>6, <2>7, <2>8, <2>9, <2>10 DEF Content
  <1> QED
    BY <1>4, <1>5

LEMMA FlushStep == IInv /\ Flush => IInv'
  <1> SUFFICES ASSUME IInv, Flush PROVE IInv'
    OBVIOUS
  <1>1. /\ SendStats /\ main = "running" /\ main' = "notifying" /\ flushes < MaxFlushes
        /\ UNCHANGED <<recorded, send_stats_should_exit, thread, batch, done, answered>>
    BY DEF Flush, SendStats, threadVars
  <1>2. flushes < MaxFlushes + 1
    BY <1>1, BoundsAssumption DEF IInv, TypeOK
  <1>3. ~send_stats_should_exit /\ thread # "exited"
    BY <1>1 DEF IInv, Control, ExitFlag
  <1>4. TypeOK'
    BY <1>1, <1>2, SendStatsContent DEF IInv, TypeOK
  <1>5. flushes' <= MaxFlushes
    BY <1>1, BoundsAssumption DEF SendStats, IInv, TypeOK
  <1>6. Control'
    BY <1>1, <1>3, <1>5 DEF IInv, Control, NoLostWakeup, ExitFlag, LeftBehind, BatchWhileSending,
           WithinBound
  <1> QED
    BY <1>1, <1>2, <1>4, <1>6, SendStatsContent DEF IInv

LEMMA FlushAndQuitStep == IInv /\ FlushAndQuit => IInv'
  <1> SUFFICES ASSUME IInv, FlushAndQuit PROVE IInv'
    OBVIOUS
  <1>1. /\ main = "running" /\ main' = "quitting" /\ send_stats_should_exit' = TRUE
        /\ UNCHANGED <<recorded, write_queue, upload_queue, flushes, behind,
                       thread, batch, done, answered>>
    BY DEF FlushAndQuit, threadVars
  <1>2. thread # "exited"
    BY <1>1 DEF IInv, Control, ExitFlag
  <1>3. TypeOK'
    BY <1>1 DEF IInv, TypeOK
  <1>4. Control'
    BY <1>1, <1>2 DEF IInv, Control, NoLostWakeup, ExitFlag, LeftBehind, BatchWhileSending,
           WithinBound
  <1> QED
    BY <1>1, <1>3, <1>4, ContentStays DEF IInv

LEMMA FinalFlushStep == IInv /\ FinalFlush => IInv'
  <1> SUFFICES ASSUME IInv, FinalFlush PROVE IInv'
    OBVIOUS
  <1>1. /\ SendStats /\ main = "quitting" /\ main' = "notifying"
        /\ UNCHANGED <<recorded, send_stats_should_exit, thread, batch, done, answered>>
    BY DEF FinalFlush, SendStats, threadVars
  <1>2. flushes < MaxFlushes + 1 /\ send_stats_should_exit
    BY <1>1, BoundsAssumption DEF IInv, TypeOK, Control, WithinBound, ExitFlag
  <1>3. TypeOK'
    BY <1>1, <1>2, SendStatsContent DEF IInv, TypeOK
  <1>4. LeftBehind'
    BY <1>1, <1>2, SendStatsContent DEF IInv, Control, LeftBehind
  <1>5. Control'
    BY <1>1, <1>2, <1>4 DEF IInv, Control, NoLostWakeup, ExitFlag, BatchWhileSending, WithinBound
  <1> QED
    BY <1>1, <1>2, <1>3, <1>5, SendStatsContent DEF IInv

LEMMA NotifyStep == IInv /\ Notify => IInv'
  <1> SUFFICES ASSUME IInv, Notify PROVE IInv'
    OBVIOUS
  <1>1. TypeOK'
    BY DEF IInv, TypeOK, Notify
  <1>2. Control'
    BY DEF IInv, Control, NoLostWakeup, ExitFlag, LeftBehind, BatchWhileSending,
           WithinBound, Notify
  <1> QED
    BY <1>1, <1>2, ContentStays DEF IInv, Notify

LEMMA JoinStep == IInv /\ Join => IInv'
  <1> SUFFICES ASSUME IInv, Join PROVE IInv'
    OBVIOUS
  <1>1. TypeOK'
    BY DEF IInv, TypeOK, Join, threadVars
  <1>2. Control'
    BY DEF IInv, Control, NoLostWakeup, ExitFlag, LeftBehind, BatchWhileSending,
           WithinBound, Join, threadVars
  <1> QED
    BY <1>1, <1>2, ContentStays DEF IInv, Join, threadVars

-----------------------------------------------------------------------------

\* The thread, which has no batch, exits or takes all messages.
LEMMA TakeOrExitStep ==
  ASSUME IInv, TakeOrExit, thread \in {"checking", "woken"}, UNCHANGED <<gameVars, answered>>
  PROVE  IInv'
  <1>1. UNCHANGED <<recorded, write_queue, send_stats_should_exit, main, flushes, behind, answered>>
    BY DEF gameVars
  <1>2. CASE send_stats_should_exit /\ upload_queue = <<>>
    <2>1. thread' = "exited" /\ UNCHANGED <<upload_queue, batch, done>>
      BY <1>2 DEF TakeOrExit
    <2>2. TypeOK'
      BY <1>1, <2>1 DEF IInv, TypeOK
    <2>3. batch = <<>> /\ Range(upload_queue) = {}
      BY <1>2 DEF IInv, Control, BatchWhileSending, Range
    <2>4. Control'
      BY <1>1, <1>2, <2>1, <2>3
         DEF IInv, Control, NoLostWakeup, ExitFlag, LeftBehind, BatchWhileSending, WithinBound
    <2> QED
      BY <1>1, <2>1, <2>2, <2>4, ContentStays DEF IInv
  <1>3. CASE ~(send_stats_should_exit /\ upload_queue = <<>>)
    <2>1. thread' = "sending" /\ done' = FALSE /\ batch' = upload_queue /\ upload_queue' = <<>>
      BY <1>3 DEF TakeOrExit
    <2>2. <<>> \in Seq(Message) /\ Len(<<>>) = 0 /\ Range(<<>>) = {}
      BY DEF Range
    <2>3. TypeOK'
      BY <1>1, <2>1, <2>2 DEF IInv, TypeOK
    <2>4. Control'
      BY <1>1, <2>1
         DEF IInv, Control, NoLostWakeup, ExitFlag, LeftBehind, BatchWhileSending, WithinBound
    <2>5. batch = <<>>
      BY DEF IInv, Control, BatchWhileSending
    <2>6. Waiting' = Waiting /\ Messages' = Messages
      BY <1>1, <2>1, <2>2, <2>5 DEF Waiting, Messages
    <2>7. BehindFirst'
      <3>1. \A i \in 1 .. Len(upload_queue) : i > 1 => i \in 2 .. Len(upload_queue)
        OBVIOUS
      <3>2. \A i \in 1 .. Len(batch') : (i > 1 \/ done') => batch'[i] \in behind'
        BY <1>1, <2>1, <3>1 DEF IInv, Content, BehindFirst
      <3>3. \A i \in 2 .. Len(upload_queue') : upload_queue'[i] \in behind'
        BY <2>1, <2>2
      <3> QED
        BY <3>2, <3>3 DEF BehindFirst
    <2>8. InOrder'
      <3>1. Ordered(upload_queue') /\ Ordered(batch')
        BY <2>1, <2>2 DEF IInv, Content, InOrder, Ordered
      <3> QED
        BY <1>1, <2>1, <2>2, <2>6, <3>1 DEF IInv, Content, InOrder
    <2>9. Carried'
      BY <1>1, <2>6 DEF IInv, Content, Carried, Carrying
    <2> QED
      BY <2>3, <2>4, <2>7, <2>8, <2>9 DEF IInv, Content
  <1> QED
    BY <1>2, <1>3

LEMMA CheckQueueStep == IInv /\ CheckQueue => IInv'
  <1> SUFFICES ASSUME IInv, CheckQueue PROVE IInv'
    OBVIOUS
  <1>1. CASE MustWait
    <2>1. /\ ~send_stats_should_exit /\ upload_queue = <<>>
          /\ thread = "checking" /\ thread' = "waiting"
          /\ UNCHANGED <<recorded, upload_queue, batch, done, write_queue, send_stats_should_exit,
                         main, flushes, behind, answered>>
      BY <1>1 DEF CheckQueue, MustWait, gameVars
    <2>2. TypeOK'
      BY <2>1 DEF IInv, TypeOK
    <2>3. Control'
      BY <2>1 DEF IInv, Control, NoLostWakeup, ExitFlag, LeftBehind, BatchWhileSending, WithinBound
    <2> QED
      BY <2>1, <2>2, <2>3, ContentStays DEF IInv
  <1>2. CASE ~MustWait
    BY <1>2, TakeOrExitStep DEF CheckQueue
  <1> QED
    BY <1>1, <1>2

LEMMA ResumeStep == IInv /\ Resume => IInv'
  BY TakeOrExitStep DEF Resume

LEMMA TimeOutStep == IInv /\ TimeOut => IInv'
  <1> SUFFICES ASSUME IInv, TimeOut PROVE IInv'
    OBVIOUS
  <1>1. TypeOK'
    BY DEF IInv, TypeOK, TimeOut, gameVars
  <1>2. Control'
    BY DEF IInv, Control, NoLostWakeup, ExitFlag, LeftBehind, BatchWhileSending,
           WithinBound, TimeOut, gameVars
  <1> QED
    BY <1>1, <1>2, ContentStays DEF IInv, TimeOut, gameVars

\* The head of the batch is posted, or it was behind another message.
LEMMA UploadStep == IInv /\ Upload => IInv'
  <1> SUFFICES ASSUME IInv, Upload PROVE IInv'
    OBVIOUS
  <1>1. /\ thread = "sending" /\ batch # <<>> /\ batch' = Tail(batch) /\ done' = TRUE
        /\ answered' = IF done THEN answered ELSE answered \union {Head(batch)}
        /\ UNCHANGED <<recorded, upload_queue, write_queue, send_stats_should_exit, main, flushes,
                       behind, thread>>
    BY DEF Upload, gameVars
  <1>2. batch \in Seq(Message) /\ Len(batch) \in Nat \ {0}
    BY <1>1, EmptySeq DEF IInv, TypeOK
  <1>3. /\ Head(batch) \in Message /\ Head(batch) = batch[1]
        /\ Tail(batch) \in Seq(Message) /\ Len(Tail(batch)) = Len(batch) - 1
        /\ \A i \in 1 .. Len(batch) - 1 : Tail(batch)[i] = batch[i + 1]
    BY <1>1, <1>2, HeadTailProperties
  <1>4. Range(batch) = {Head(batch)} \union Range(batch')
    BY <1>1, <1>2, RangeTail
  <1>5. \A i \in 1 .. Len(batch') : i + 1 \in 1 .. Len(batch) /\ i + 1 > 1 /\ batch'[i] = batch[i + 1]
    BY <1>1, <1>2, <1>3
  <1>6. TypeOK'
    BY <1>1, <1>3 DEF IInv, TypeOK
  <1>7. Control'
    BY <1>1 DEF IInv, Control, NoLostWakeup, ExitFlag, LeftBehind, BatchWhileSending, WithinBound
  <1>8. BehindFirst'
    BY <1>1, <1>5 DEF IInv, Content, BehindFirst
  <1>9. InOrder'
    <2>1. Waiting' \subseteq Waiting /\ Head(batch) \in Waiting
      BY <1>1, <1>4 DEF Waiting
    <2>2. \A m \in (answered \union Waiting)' : m.flush <= flushes'
      BY <1>1, <2>1 DEF IInv, Content, InOrder
    <2>3. Ordered(upload_queue')
      BY <1>1 DEF IInv, Content, InOrder
    <2>4. Ordered(batch')
      <3>1. ASSUME NEW i \in 1 .. Len(batch'), NEW j \in 1 .. Len(batch'), i < j
            PROVE  batch'[i].flush < batch'[j].flush
        <4>1. i + 1 < j + 1
          BY <3>1
        <4> QED
          BY <1>5, <3>1, <4>1 DEF IInv, Content, InOrder, Ordered
      <3> QED
        BY <3>1 DEF Ordered
    <2>5. \A m \in Range(batch'), n \in Range(upload_queue') : m.flush < n.flush
      BY <1>1, <1>4 DEF IInv, Content, InOrder
    <2>6. \A n \in Waiting' : Head(batch).flush < n.flush
      <3>1. ASSUME NEW n \in Range(batch') PROVE Head(batch).flush < n.flush
        <4>1. PICK i \in 1 .. Len(batch') : n = batch'[i]
          BY <1>1, <1>3 DEF Range
        <4>2. /\ i + 1 \in 1 .. Len(batch) /\ 1 \in 1 .. Len(batch) /\ 1 < i + 1
              /\ n = batch[i + 1]
          BY <1>2, <1>5, <4>1
        <4> QED
          BY <1>3, <4>2 DEF IInv, Content, InOrder, Ordered
      <3>2. \A n \in Range(upload_queue') : Head(batch).flush < n.flush
        BY <1>1, <1>4 DEF IInv, Content, InOrder
      <3> QED
        BY <3>1, <3>2 DEF Waiting
    <2>7. \A m \in answered', n \in Waiting' : m.flush < n.flush
      BY <1>1, <2>1, <2>6 DEF IInv, Content, InOrder
    <2> QED
      BY <2>2, <2>3, <2>4, <2>5, <2>7 DEF InOrder
  <1>10. Carried'
    <2>1. Head(batch) \in answered' \union behind
      <3>1. done => batch[1] \in behind
        BY <1>2 DEF IInv, Content, BehindFirst
      <3> QED
        BY <1>1, <1>3, <3>1
    <2>2. answered \subseteq answered' /\ answered' \subseteq answered \union {Head(batch)}
      BY <1>1
    <2>3. Messages' = Messages
      BY <1>1, <1>4, <2>1, <2>2 DEF Messages, Waiting
    <2> QED
      BY <1>1, <2>3 DEF IInv, Content, Carried, Carrying
  <1> QED
    BY <1>6, <1>7, <1>8, <1>9, <1>10 DEF IInv, Content

LEMMA BatchEndsStep == IInv /\ BatchEnds => IInv'
  <1> SUFFICES ASSUME IInv, BatchEnds PROVE IInv'
    OBVIOUS
  <1>1. TypeOK'
    BY DEF IInv, TypeOK, BatchEnds, gameVars
  <1>2. Control'
    BY DEF IInv, Control, NoLostWakeup, ExitFlag, LeftBehind, BatchWhileSending,
           WithinBound, BatchEnds, gameVars
  <1> QED
    BY <1>1, <1>2, ContentStays DEF IInv, BatchEnds, gameVars

LEMMA NextInv == IInv /\ [Next]_vars => IInv'
  <1> SUFFICES ASSUME IInv, [Next]_vars PROVE IInv'
    OBVIOUS
  <1>1. CASE UNCHANGED vars
    <2>1. TypeOK' /\ Control'
      BY <1>1 DEF IInv, TypeOK, Control, NoLostWakeup, ExitFlag, LeftBehind, BatchWhileSending,
                  WithinBound, vars, gameVars, threadVars
    <2> QED
      BY <1>1, <2>1, ContentStays DEF IInv, vars, gameVars, threadVars
  <1>2. CASE Background
    BY <1>2, CheckQueueStep, ResumeStep, UploadStep, BatchEndsStep DEF Background
  <1> QED
    BY <1>1, <1>2, RecordStep, FlushStep, FlushAndQuitStep, FinalFlushStep, NotifyStep, JoinStep,
       TimeOutStep DEF Next

-----------------------------------------------------------------------------

\* The inductive invariant of the upload holds for any number of records and
\* flushes.
THEOREM StatsInvariant == Spec => []IInv
  BY InitInv, NextInv, PTL DEF Spec

\* The variables of stats.cpp keep their shape.
THEOREM StatsTypes == Spec => []TypeOK
  <1>1. IInv => TypeOK
    BY DEF IInv
  <1> QED
    BY <1>1, StatsInvariant, PTL

\* The background thread never waits for its ten minutes with a message or the
\* exit flag before it, except until the notification that is on its way.
THEOREM SignalsAreNotLost == Spec => []NoLostWakeup
  <1>1. IInv => NoLostWakeup
    BY DEF IInv, Control
  <1> QED
    BY <1>1, StatsInvariant, PTL

\* After flush_and_quit nothing but the message of its flush is left in the queue.
THEOREM OnlyLastLeft == Spec => []OnlyLastFlushLeftBehind
  <1>1. IInv => OnlyLastFlushLeftBehind
    BY DEF IInv, Control, LeftBehind, OnlyLastFlushLeftBehind
  <1> QED
    BY <1>1, StatsInvariant, PTL

\* However flushes and the thread's batches interleave, each record that was
\* flushed is in one message, which waits or was posted, and is not posted
\* again, unless it was queued behind another one.
THEOREM RecordsArePostedOnce == Spec => []EachRecordOnce
  <1>1. IInv => EachRecordOnce
    <2> SUFFICES ASSUME IInv PROVE EachRecordOnce
      OBVIOUS
    <2>1. \A m \in answered : m.flush \in Nat
      BY BoundsAssumption DEF IInv, TypeOK, Message
    <2>2. \A m \in answered, n \in Waiting : m.flush < n.flush
      BY DEF IInv, Content, InOrder
    <2>3. answered \intersect Waiting = {}
      BY <2>1, <2>2
    <2> QED
      BY <2>3 DEF IInv, Content, Carried, EachRecordOnce
  <1> QED
    BY <1>1, StatsInvariant, PTL

=============================================================================
