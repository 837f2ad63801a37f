---------------------------- MODULE StatsUpload ----------------------------
(***************************************************************************)
(* The statistics uploader, src/src/stats.cpp: the game thread records     *)
(* statistics and now and then flushes them; a background thread posts     *)
(* them to the statistics server.                                          *)
(*                                                                         *)
(* A flush moves the records into its message and leaves only the keys of  *)
(* write_queue, the levels: from the first record on there is always a     *)
(* message to send, with what was recorded since the flush before.         *)
(* What the code does while it holds upload_queue_mutex is one step.       *)
(***************************************************************************)
EXTENDS Naturals, Sequences, Functions

CONSTANTS
  MaxRecords,   \* bound: records
  MaxFlushes    \* bound: flushes, the one of flush_and_quit not counted

ASSUME BoundsAssumption == MaxRecords \in Nat \ {0} /\ MaxFlushes \in Nat

Message == [flush : 1..(MaxFlushes + 1), records : SUBSET (1..MaxRecords)]

VARIABLES
  recorded,                \* records so far, which are 1 .. recorded
  write_queue,             \* the records that no flush has taken yet
  upload_queue,            \* messages that wait for the background thread
  send_stats_should_exit,
  main,                    \* where the game thread is
  thread,                  \* where the background thread is
  batch,                   \* the thread's local queue
  done,                    \* the flag finish_upload sets
  answered,                \* messages the server answered, or failed to
  flushes,                 \* history: flushes so far
  behind                   \* history: messages queued behind another one

gameVars == <<recorded, write_queue, send_stats_should_exit, main, flushes, behind>>
threadVars == <<thread, batch, done, answered>>
vars == <<upload_queue, gameVars, threadVars>>

\* preferences::send_stats() is read once, when the thread starts.
Init ==
  /\ recorded = 0 /\ write_queue = {} /\ upload_queue = <<>>
  /\ send_stats_should_exit = FALSE
  /\ main = "running" /\ thread \in {"checking", "disabled"}
  /\ batch = <<>> /\ done = FALSE /\ answered = {}
  /\ flushes = 0 /\ behind = {}

-----------------------------------------------------------------------------

\* Some operators come with a mistaken variant just before them, which is not
\* part of the model: it shows that the properties notice such a mistake.

Record ==
  /\ main = "running"
  /\ recorded < MaxRecords
  /\ recorded' = recorded + 1
  /\ write_queue' = write_queue \union {recorded'}
  /\ UNCHANGED <<upload_queue, send_stats_should_exit, main, flushes, behind,
                 threadVars>>

\* send_stats: one more message in the queue, unless nothing was ever recorded.
\* The constructor that makes the list of a level's records swaps them out.
SendStatsCopying ==
  /\ flushes' = flushes + 1
  /\ main' = "notifying"
  /\ UNCHANGED write_queue
  /\ LET message == [flush |-> flushes', records |-> write_queue]
     IN IF recorded = 0
        THEN UNCHANGED <<upload_queue, behind>>
        ELSE /\ upload_queue' = Append(upload_queue, message)
             /\ behind' = IF upload_queue = <<>> THEN behind
                          ELSE behind \union {message}
SendStats ==
  /\ flushes' = flushes + 1
  /\ main' = "notifying"
  /\ LET message == [flush |-> flushes', records |-> write_queue]
     IN IF recorded = 0
        THEN UNCHANGED <<upload_queue, write_queue, behind>>
        ELSE /\ upload_queue' = Append(upload_queue, message)
             /\ write_queue' = {}
             /\ behind' = IF upload_queue = <<>> THEN behind
                          ELSE behind \union {message}

\* flush, up to the notification.
Flush ==
  /\ main = "running"
  /\ flushes < MaxFlushes
  /\ SendStats
  /\ UNCHANGED <<recorded, send_stats_should_exit, threadVars>>

\* flush_and_quit sets the flag without taking the mutex, flushes, and waits
\* for the thread to end.
FlushAndQuit ==
  /\ main = "running"
  /\ send_stats_should_exit' = TRUE
  /\ main' = "quitting"
  /\ UNCHANGED <<recorded, write_queue, upload_queue, flushes, behind, threadVars>>

FinalFlush ==
  /\ main = "quitting"
  /\ SendStats
  /\ UNCHANGED <<recorded, send_stats_should_exit, threadVars>>

\* flush's notify_one.
NotifyForgotten ==
  /\ main = "notifying"
  /\ main' = IF send_stats_should_exit THEN "joining" ELSE "running"
  /\ UNCHANGED <<recorded, upload_queue, write_queue, send_stats_should_exit, flushes,
                 behind, threadVars>>
Notify ==
  /\ main = "notifying"
  /\ main' = IF send_stats_should_exit THEN "joining" ELSE "running"
  /\ thread' = IF thread = "waiting" THEN "woken" ELSE thread
  /\ UNCHANGED <<recorded, upload_queue, write_queue, send_stats_should_exit, flushes,
                 behind, batch, done, answered>>

\* Deleting background_thread joins it.
Join ==
  /\ main = "joining"
  /\ thread \in {"exited", "disabled"}
  /\ main' = "over"
  /\ UNCHANGED <<recorded, upload_queue, write_queue, send_stats_should_exit, flushes,
                 behind, threadVars>>

-----------------------------------------------------------------------------

\* The end of the locked part of send_stats_thread: exit, or take all messages.
TakeOrExitAtOnce ==
  IF send_stats_should_exit
  THEN thread' = "exited" /\ UNCHANGED <<upload_queue, batch, done>>
  ELSE /\ thread' = "sending" /\ done' = FALSE
       /\ batch' = upload_queue /\ upload_queue' = <<>>
TakeOrExitStillDone ==
  IF send_stats_should_exit /\ upload_queue = <<>>
  THEN thread' = "exited" /\ UNCHANGED <<upload_queue, batch, done>>
  ELSE /\ thread' = "sending" /\ done' = done
       /\ batch' = upload_queue /\ upload_queue' = <<>>
TakeOrExit ==
  IF send_stats_should_exit /\ upload_queue = <<>>
  THEN thread' = "exited" /\ UNCHANGED <<upload_queue, batch, done>>
  ELSE /\ thread' = "sending" /\ done' = FALSE
       /\ batch' = upload_queue /\ upload_queue' = <<>>

MustWait == ~send_stats_should_exit /\ upload_queue = <<>>

CheckQueue ==
  /\ thread = "checking"
  /\ IF MustWait
     THEN thread' = "waiting" /\ UNCHANGED <<upload_queue, batch, done>>
     ELSE TakeOrExit
  /\ UNCHANGED <<gameVars, answered>>

\* wait_timeout returns; why it returned is not looked at.
Resume ==
  /\ thread = "woken"
  /\ TakeOrExit
  /\ UNCHANGED <<gameVars, answered>>

\* Ten minutes pass, or the wait returns for no reason.
TimeOut ==
  /\ thread = "waiting"
  /\ thread' = "woken"
  /\ UNCHANGED <<upload_queue, gameVars, batch, done, answered>>

\* One turn of the loop over the batch: a client posts the message and is
\* processed until done.  done is not reset, so behind the first message of a
\* batch the client is destroyed before it did anything.
Upload ==
  /\ thread = "sending" /\ batch # <<>>
  /\ answered' = IF done THEN answered ELSE answered \union {Head(batch)}
  /\ done' = TRUE
  /\ batch' = Tail(batch)
  /\ UNCHANGED <<upload_queue, gameVars, thread>>

BatchEnds ==
  /\ thread = "sending" /\ batch = <<>>
  /\ thread' = "checking"
  /\ UNCHANGED <<upload_queue, gameVars, batch, done, answered>>

Background == CheckQueue \/ Resume \/ Upload \/ BatchEnds

Next ==
  \/ Record \/ Flush \/ FlushAndQuit \/ FinalFlush \/ Notify \/ Join
  \/ Background \/ TimeOut

Spec == Init /\ [][Next]_vars

\* Both threads run and every post is answered or fails; the ten minutes need
\* not pass.
FairSpec ==
  /\ Spec
  /\ WF_vars(FinalFlush) /\ WF_vars(Notify) /\ WF_vars(Join)
  /\ WF_vars(Background)

-----------------------------------------------------------------------------
(* Properties.                                                             *)

\* Every variable keeps its shape.
TypeOK ==
  /\ recorded \in 0..MaxRecords /\ write_queue \subseteq 1..recorded
  /\ flushes \in 0..(MaxFlushes + 1)
  /\ upload_queue \in Seq(Message) /\ batch \in Seq(Message)
  /\ answered \subseteq Message /\ behind \subseteq Message
  /\ send_stats_should_exit \in BOOLEAN /\ done \in BOOLEAN
  /\ main \in {"running", "notifying", "quitting", "joining", "over"}
  /\ thread \in {"checking", "waiting", "woken", "sending", "exited", "disabled"}

\* The thread does not sleep through a signal: when it waits although there is
\* a message, or although it should exit, the notification is still to come.
NoLostWakeup ==
  (thread = "waiting" /\ (upload_queue # <<>> \/ send_stats_should_exit)) =>
    main \in {"quitting", "notifying"}

\* When the program has quit, no message but the one of the last flush was left
\* behind: the thread exits only when it found the queue empty.
OnlyLastFlushLeftBehind ==
  (main = "over" /\ thread = "exited") =>
    \A message \in Range(upload_queue) : message.flush = flushes

\* Messages that wait, and all there are; those that carry record r.
Waiting == Range(upload_queue) \union Range(batch)
Messages == Waiting \union answered \union behind
Carrying(r) == {m \in Messages : r \in m.records}

\* A record is in write_queue or in one message, and in no second one.  That
\* message waits, or it has been posted and does not wait any more, unless it
\* was queued behind another one: those behind the first of a batch are the only
\* ones lost between the two threads.
EachRecordOnce ==
  /\ \A r \in 1..recorded : IF r \in write_queue THEN Carrying(r) = {}
                            ELSE \E m \in Messages : Carrying(r) = {m}
  /\ answered \intersect Waiting = {}

\* flush_and_quit returns, and does not sit out the ten minutes of the wait.
QuitReturns == [](send_stats_should_exit => <>(main = "over"))
=============================================================================
