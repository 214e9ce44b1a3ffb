------------------------------ MODULE Channel -------------------------------
(***************************************************************************)
(* The i32 channels of std.channel                                         *)
(* (src/compiler/seeds/runtime_channel_glue.from_x.c): a ring buffer, a    *)
(* mutex and two condition variables, used by any number of threads.       *)
(*                                                                         *)
(* What a thread does between taking the mutex and releasing it, or going  *)
(* to sleep on a condition variable, is one action.  A condition variable  *)
(* is the set of the threads asleep on it; a thread that was woken leaves  *)
(* that set and takes the mutex again in a later action, so others may run *)
(* in between.  A thread may also wake without a signal.                   *)
(***************************************************************************)
EXTENDS Integers, Sequences, FiniteSets

CONSTANTS
  Threads, Chans, Vals,
  Junk,       \* what malloc leaves in a cell
  NoRes,      \* no answer yet
  InitCap,    \* per channel, the capacity it is created with
  Unbounded,  \* the channels made by channel_i32_unbounded_c
  MaxCap      \* bound: the capacity no realloc exceeds

ASSUME ChannelConstants ==
  /\ IsFiniteSet(Threads)
  /\ InitCap \in [Chans -> Nat \ {0}]
  /\ Unbounded \subseteq Chans
  /\ MaxCap \in Nat
  /\ Junk \notin Vals

VARIABLES
  buf, cap, length, head,  \* the ring of each channel
  closed,                  \* the channels that are closed
  recvWait, recvWoken,     \* threads asleep on cond_not_empty; those it woke
  sendWait, sendWoken,     \* threads asleep on cond_not_full; those it woke
  sending,                 \* the value a blocked sender wants to send
  res                      \* the answer to each thread's last call

ring == <<buf, cap, length, head>>
vars == <<buf, cap, length, head, closed, recvWait, recvWoken, sendWait,
          sendWoken, sending, res>>

Cell == Vals \cup {Junk}
Answers == Cell \cup {NoRes, "ok", "closed", "busy", "pending"}

\* channel_i32_bounded_c, channel_i32_unbounded_c.
Init ==
  /\ cap = InitCap
  /\ buf = [c \in Chans |-> [i \in 0 .. InitCap[c] - 1 |-> Junk]]
  /\ length = [c \in Chans |-> 0]
  /\ head = [c \in Chans |-> 0]
  /\ closed = {}
  /\ recvWait = [c \in Chans |-> {}] /\ recvWoken = [c \in Chans |-> {}]
  /\ sendWait = [c \in Chans |-> {}] /\ sendWoken = [c \in Chans |-> {}]
  /\ sending = [t \in Threads |-> Junk]
  /\ res = [t \in Threads |-> NoRes]

-----------------------------------------------------------------------------
(* Condition variables. *)

\* The threads inside a call on c.
Inside(c) == recvWait[c] \cup recvWoken[c] \cup sendWait[c] \cup sendWoken[c]

Idle(t) == \A c \in Chans : t \notin Inside(c)

\* Mutant: a signal only when the channel stops being empty.
SignalWhenEmpty(c) ==
  IF recvWait[c] = {} \/ length[c] > 0 THEN UNCHANGED <<recvWait, recvWoken>>
  ELSE \E w \in recvWait[c] :
         /\ recvWait' = [recvWait EXCEPT ![c] = @ \ {w}]
         /\ recvWoken' = [recvWoken EXCEPT ![c] = @ \cup {w}]

\* channel_signal_not_empty: wakes one receiver, if one is asleep.
SignalNotEmpty(c) ==
  IF recvWait[c] = {} THEN UNCHANGED <<recvWait, recvWoken>>
  ELSE \E w \in recvWait[c] :
         /\ recvWait' = [recvWait EXCEPT ![c] = @ \ {w}]
         /\ recvWoken' = [recvWoken EXCEPT ![c] = @ \cup {w}]

\* channel_signal_not_full.
SignalNotFull(c) ==
  IF sendWait[c] = {} THEN UNCHANGED <<sendWait, sendWoken>>
  ELSE \E w \in sendWait[c] :
         /\ sendWait' = [sendWait EXCEPT ![c] = @ \ {w}]
         /\ sendWoken' = [sendWoken EXCEPT ![c] = @ \cup {w}]

Answer(t, r) == res' = [res EXCEPT ![t] = r]

-----------------------------------------------------------------------------
(* Sending. *)

\* Stores v in the first free cell of the ring (b, k, h), which becomes c's.
Store(c, v, b, k, h) ==
  /\ buf' = [buf EXCEPT ![c] = [b EXCEPT ![(h + length[c]) % k] = v]]
  /\ cap' = [cap EXCEPT ![c] = k]
  /\ head' = [head EXCEPT ![c] = h]
  /\ length' = [length EXCEPT ![c] = @ + 1]

\* A sender that has room: the end of channel_i32_send_c.
Put(t, c, v) ==
  /\ Store(c, v, buf[c], cap[c], head[c])
  /\ SignalNotEmpty(c)
  /\ sendWoken' = [sendWoken EXCEPT ![c] = @ \ {t}]
  /\ Answer(t, "ok")
  /\ UNCHANGED <<closed, sendWait, sending>>

SendRefused(t, c) ==
  /\ sendWoken' = [sendWoken EXCEPT ![c] = @ \ {t}]
  /\ Answer(t, "closed")
  /\ UNCHANGED <<ring, closed, recvWait, recvWoken, sendWait, sending>>

\* channel_wait_not_full.
WaitNotFull(t, c, v) ==
  /\ sendWait' = [sendWait EXCEPT ![c] = @ \cup {t}]
  /\ sendWoken' = [sendWoken EXCEPT ![c] = @ \ {t}]
  /\ sending' = [sending EXCEPT ![t] = v]
  /\ Answer(t, NoRes)
  /\ UNCHANGED <<ring, closed, recvWait, recvWoken>>

Full(c) == length[c] = cap[c]

\* Mutant: a sender that was woken does not look whether there is room.
SendLoopOnce(t, c, v) ==
  \/ (t \in sendWoken[c] \/ ~Full(c)) /\ Put(t, c, v)
  \/ Full(c) /\ c \in closed /\ SendRefused(t, c)
  \/ Full(c) /\ c \notin closed /\ WaitNotFull(t, c, v)

\* The loop of channel_i32_send_c on a bounded channel, and what follows it.
\* Whether the channel is closed is looked at only while it is full.
SendLoop(t, c, v) ==
  \/ ~Full(c) /\ Put(t, c, v)
  \/ Full(c) /\ c \in closed /\ SendRefused(t, c)
  \/ Full(c) /\ c \notin closed /\ WaitNotFull(t, c, v)

\* Mutant: the cells are moved from one place too far.
MovedOffByOne(c) ==
  LET wide == [i \in 0 .. 2 * cap[c] - 1 |-> IF i < cap[c] THEN buf[c][i] ELSE Junk]
      moved[n \in 0 .. length[c]] ==
        IF n = 0 THEN wide
        ELSE [moved[n - 1] EXCEPT ![n - 1] = moved[n - 1][(head[c] + n) % cap[c]]]
  IN  moved

\* channel_unbounded_grow moves cell by cell within the one block realloc
\* returned: MovedCells(c)[n] is that block after n moves.
MovedCells(c) ==
  LET wide == [i \in 0 .. 2 * cap[c] - 1 |-> IF i < cap[c] THEN buf[c][i] ELSE Junk]
      moved[n \in 0 .. length[c]] ==
        IF n = 0 THEN wide
        ELSE [moved[n - 1] EXCEPT
                ![n - 1] = moved[n - 1][(head[c] + n - 1) % cap[c]]]
  IN  moved

\* channel_i32_send_c and channel_i32_try_send_c on an unbounded channel that
\* is full: it grows and takes v; or realloc fails.
GrowAndPut(t, c, v) ==
  /\ 2 * cap[c] <= MaxCap
  /\ Store(c, v, MovedCells(c)[length[c]], 2 * cap[c], 0)
  /\ SignalNotEmpty(c)
  /\ Answer(t, "ok")
  /\ UNCHANGED <<closed, sendWait, sendWoken, sending>>

SendUnbounded(t, c, v) ==
  \/ ~Full(c) /\ Put(t, c, v)
  \/ Full(c) /\ (GrowAndPut(t, c, v) \/ SendRefused(t, c))

\* channel_i32_send_c.
Send(t, c, v) ==
  /\ Idle(t)
  /\ \/ c \in closed /\ SendRefused(t, c)
     \/ c \notin closed /\ c \in Unbounded /\ SendUnbounded(t, c, v)
     \/ c \notin closed /\ c \notin Unbounded /\ SendLoop(t, c, v)

SendResume(t, c) == t \in sendWoken[c] /\ SendLoop(t, c, sending[t])

\* channel_i32_try_send_c on a bounded channel.  (On an unbounded one it does
\* what send does.)
TrySend(t, c, v) ==
  /\ Idle(t) /\ c \notin Unbounded
  /\ \/ c \in closed /\ SendRefused(t, c)
     \/ c \notin closed /\ ~Full(c) /\ Put(t, c, v)
     \/ c \notin closed /\ Full(c) /\ Answer(t, "busy")
        /\ UNCHANGED <<ring, closed, recvWait, recvWoken, sendWait, sendWoken, sending>>

-----------------------------------------------------------------------------
(* Receiving. *)

\* Mutant: takes the value that was stored last.
TakeLast(t, c) ==
  /\ Answer(t, buf[c][(head[c] + length[c] - 1) % cap[c]])
  /\ length' = [length EXCEPT ![c] = @ - 1]
  /\ SignalNotFull(c)
  /\ recvWoken' = [recvWoken EXCEPT ![c] = @ \ {t}]
  /\ UNCHANGED <<buf, cap, head, closed, recvWait, sending>>

\* A receiver that finds a value: the end of channel_i32_recv_c.
Take(t, c) ==
  /\ Answer(t, buf[c][head[c]])
  /\ head' = [head EXCEPT ![c] = (@ + 1) % cap[c]]
  /\ length' = [length EXCEPT ![c] = @ - 1]
  /\ SignalNotFull(c)
  /\ recvWoken' = [recvWoken EXCEPT ![c] = @ \ {t}]
  /\ UNCHANGED <<buf, cap, closed, recvWait, sending>>

RecvEnd(t, c) ==
  /\ recvWoken' = [recvWoken EXCEPT ![c] = @ \ {t}]
  /\ Answer(t, "closed")
  /\ UNCHANGED <<ring, closed, recvWait, sendWait, sendWoken, sending>>

\* channel_wait_not_empty.
WaitNotEmpty(t, c) ==
  /\ recvWait' = [recvWait EXCEPT ![c] = @ \cup {t}]
  /\ recvWoken' = [recvWoken EXCEPT ![c] = @ \ {t}]
  /\ Answer(t, NoRes)
  /\ UNCHANGED <<ring, closed, sendWait, sendWoken, sending>>

\* The loop of channel_i32_recv_c.
RecvLoop(t, c) ==
  \/ length[c] > 0 /\ Take(t, c)
  \/ length[c] = 0 /\ c \in closed /\ RecvEnd(t, c)
  \/ length[c] = 0 /\ c \notin closed /\ WaitNotEmpty(t, c)

Recv(t, c) == Idle(t) /\ RecvLoop(t, c)

RecvResume(t, c) == t \in recvWoken[c] /\ RecvLoop(t, c)

\* channel_i32_try_recv_c.
TryRecv(t, c) ==
  /\ Idle(t)
  /\ \/ length[c] > 0 /\ Take(t, c)
     \/ length[c] = 0 /\ c \in closed /\ RecvEnd(t, c)
     \/ length[c] = 0 /\ c \notin closed /\ Answer(t, "busy")
        /\ UNCHANGED <<ring, closed, recvWait, recvWoken, sendWait, sendWoken, sending>>

-----------------------------------------------------------------------------
(* Closing, and waking without a signal. *)

\* Mutant: only the receivers are woken.
CloseWakesReceivers(c) ==
  /\ closed' = closed \cup {c}
  /\ recvWoken' = [recvWoken EXCEPT ![c] = @ \cup recvWait[c]]
  /\ recvWait' = [recvWait EXCEPT ![c] = {}]
  /\ UNCHANGED <<ring, sendWait, sendWoken, sending, res>>

\* channel_i32_close_c.
Close(c) ==
  /\ closed' = closed \cup {c}
  /\ recvWoken' = [recvWoken EXCEPT ![c] = @ \cup recvWait[c]]
  /\ recvWait' = [recvWait EXCEPT ![c] = {}]
  /\ sendWoken' = [sendWoken EXCEPT ![c] = @ \cup sendWait[c]]
  /\ sendWait' = [sendWait EXCEPT ![c] = {}]
  /\ UNCHANGED <<ring, sending, res>>

Spurious(t, c) ==
  \/ /\ t \in recvWait[c]
     /\ recvWait' = [recvWait EXCEPT ![c] = @ \ {t}]
     /\ recvWoken' = [recvWoken EXCEPT ![c] = @ \cup {t}]
     /\ UNCHANGED <<ring, closed, sendWait, sendWoken, sending, res>>
  \/ /\ t \in sendWait[c]
     /\ sendWait' = [sendWait EXCEPT ![c] = @ \ {t}]
     /\ sendWoken' = [sendWoken EXCEPT ![c] = @ \cup {t}]
     /\ UNCHANGED <<ring, closed, recvWait, recvWoken, sending, res>>

Next ==
  \/ \E t \in Threads, c \in Chans :
       \/ \E v \in Vals : Send(t, c, v) \/ TrySend(t, c, v)
       \/ SendResume(t, c) \/ Recv(t, c) \/ RecvResume(t, c) \/ TryRecv(t, c)
       \/ Spurious(t, c)
  \/ \E c \in Chans : Close(c)

Spec == Init /\ [][Next]_vars

\* A thread that was woken gets the mutex in the end: it is free between any
\* two actions.
FairSpec ==
  /\ Spec
  /\ \A t \in Threads, c \in Chans :
       WF_vars(SendResume(t, c)) /\ WF_vars(RecvResume(t, c))

-----------------------------------------------------------------------------
(* Properties. *)

\* Type invariant of the rings, the condition variables and the answers.
TypeOK ==
  /\ cap \in [Chans -> Nat \ {0}]
  /\ \A c \in Chans : c \notin Unbounded => cap[c] = InitCap[c]
  /\ DOMAIN buf = Chans /\ \A c \in Chans : buf[c] \in [0 .. cap[c] - 1 -> Cell]
  /\ length \in [Chans -> Nat] /\ \A c \in Chans : length[c] <= cap[c]
  /\ head \in [Chans -> Nat] /\ \A c \in Chans : head[c] < cap[c]
  /\ closed \subseteq Chans
  /\ recvWait \in [Chans -> SUBSET Threads]
  /\ recvWoken \in [Chans -> SUBSET Threads]
  /\ sendWait \in [Chans -> SUBSET Threads]
  /\ sendWoken \in [Chans -> SUBSET Threads]
  /\ sending \in [Threads -> Cell] /\ res \in [Threads -> Answers]

\* A receiver sleeps only while every value in the channel has a woken receiver
\* on its way to it, and a sender only while every free cell has a woken sender:
\* no signal of send or recv is lost, whoever takes the mutex first.
NoLostWakeup ==
  \A c \in Chans :
    /\ recvWait[c] # {} => length[c] <= Cardinality(recvWoken[c])
    /\ sendWait[c] # {} => cap[c] - length[c] <= Cardinality(sendWoken[c])

\* Nobody sleeps on a closed channel: close wakes all, and neither loop waits
\* once the channel is closed.
NoneAsleepOnClosed ==
  \A c \in closed : recvWait[c] = {} /\ sendWait[c] = {}

\* Every call blocked on a channel that gets closed returns.
CloseReleases ==
  \A t \in Threads, c \in Chans :
    (c \in closed /\ t \in Inside(c)) ~> t \notin Inside(c)

\* A value does not stay in the channel while receivers sleep, nor a free cell
\* while senders do.
SleepersServed ==
  \A c \in Chans :
    /\ (recvWait[c] # {} /\ length[c] > 0) ~> (recvWait[c] = {} \/ length[c] = 0)
    /\ (sendWait[c] # {} /\ ~Full(c)) ~> (sendWait[c] = {} \/ Full(c))

\* The values of a channel, the next to leave first.
Contents(c) == [i \in 1 .. length[c] |-> buf[c][(head[c] + i - 1) % cap[c]]]

\* What the moves in place leave of a full ring: the values up to the end of the
\* buffer are kept, in their order.  Those that had wrapped around to its start
\* are overwritten before they are moved, by copies of the first.
Front(c) == cap[c] - head[c]
Grown(c) == [i \in 1 .. length[c] |-> Contents(c)[((i - 1) % Front(c)) + 1]]

\* Growing a ring (channel_unbounded_grow) keeps the values that have not
\* wrapped around, before the value that is sent, and replaces all others.
GrowKeepsFront ==
  [][\A c \in Chans :
       cap'[c] # cap[c] => \E v \in Vals : Contents(c)' = Append(Grown(c), v)]_vars

Queue == INSTANCE ChannelQueue
           WITH q <- [c \in Chans |-> Contents(c)], shut <- closed, ret <- res,
                Bound <- [c \in Chans |-> IF c \in Unbounded THEN MaxCap ELSE InitCap[c]]

\* A channel is a first-in first-out queue.
QueueRefined == Queue!QSpec
=============================================================================
