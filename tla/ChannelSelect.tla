--------------------------- MODULE ChannelSelect ----------------------------
(***************************************************************************)
(* select over several channels, beside threads that call send and recv    *)
(* (channel_select_* of src/compiler/seeds/runtime_channel_glue.from_x.c). *)
(*                                                                         *)
(* A select takes the mutex of one channel at a time: it tries its cases   *)
(* in order, then asks in order which of them can still become ready, and  *)
(* then sleeps on one channel after the other, at most five milliseconds   *)
(* on each, before it tries again.  It sleeps on the condition variables   *)
(* that send and recv sleep on.                                            *)
(***************************************************************************)
EXTENDS Channel

CONSTANTS
  Selectors,  \* the threads that call select
  Pollers,    \* those of them that call the try variants
  Cases,      \* per selector, its cases in order
  SelVal      \* per selector, the value its send cases send

Callers == Threads \ Selectors
Dirs == {"recv", "send"}

ASSUME SelectConstants ==
  /\ Selectors \subseteq Threads /\ Pollers \subseteq Selectors
  /\ Cases \in [Selectors -> Seq([ch : Chans, dir : Dirs])]
  /\ \A s \in Selectors : Len(Cases[s]) \in 1 .. 8  \* CHANNEL_SELECT_MAX
  /\ SelVal \in [Selectors -> Vals]
  /\ "closed" \notin Cell \cup {NoRes}  \* answers are told from values

VARIABLE sel  \* per selector, where its call is

svars == <<vars, sel>>

NotSelecting == [pc |-> "idle", i |-> 1, live |-> FALSE]

SInit == Init /\ sel = [s \in Selectors |-> NotSelecting]

Case(s) == Cases[s][sel[s].i]

Goto(s, pc, i, live) ==
  sel' = [sel EXCEPT ![s] = [pc |-> pc, i |-> i, live |-> live]]

\* The next case in the same phase, or the start of phase pc.
NextCase(s, live, pc) ==
  IF sel[s].i < Len(Cases[s]) THEN Goto(s, sel[s].pc, sel[s].i + 1, live)
  ELSE Goto(s, pc, 1, FALSE)

SelCall(s) ==
  /\ sel[s].pc = "idle"
  /\ Goto(s, "try", 1, FALSE)
  /\ Answer(s, NoRes)
  /\ UNCHANGED <<ring, closed, recvWait, recvWoken, sendWait, sendWoken, sending>>

Done(s) == sel' = [sel EXCEPT ![s] = NotSelecting]

\* Mutant: a send case does not look whether there is room.
SelTryFull(s) ==
  /\ sel[s].pc = "try"
  /\ LET c == Case(s).ch IN
     \/ /\ Case(s).dir = "recv" /\ length[c] > 0
        /\ Take(s, c) /\ Done(s)
     \/ /\ Case(s).dir = "send" /\ c \notin closed
        /\ Put(s, c, SelVal[s]) /\ Done(s)
     \/ /\ \/ Case(s).dir = "recv" /\ length[c] = 0
           \/ Case(s).dir = "send" /\ c \in closed
        /\ NextCase(s, FALSE, "live")
        /\ UNCHANGED vars

\* channel_i32_try_recv_c or channel_i32_try_send_c on the case's channel: the
\* select is over, or tries the next case.
SelTry(s) ==
  /\ sel[s].pc = "try"
  /\ LET c == Case(s).ch IN
     \/ /\ Case(s).dir = "recv" /\ length[c] > 0
        /\ Take(s, c) /\ Done(s)
     \/ /\ Case(s).dir = "send" /\ c \notin closed
        /\ \/ ~Full(c) /\ Put(s, c, SelVal[s])
           \/ Full(c) /\ c \in Unbounded /\ GrowAndPut(s, c, SelVal[s])
        /\ Done(s)
     \/ /\ \/ Case(s).dir = "recv" /\ length[c] = 0
           \/ Case(s).dir = "send" /\ (c \in closed \/ Full(c))
        /\ NextCase(s, FALSE, "live")
        /\ UNCHANGED vars

\* Mutant: a receive case is live however closed and empty its channel is.
CaseLiveAlways(s) ==
  Case(s).dir = "recv" \/ Case(s).ch \notin closed

\* channel_select_recv_case_live, channel_select_send_case_live.
CaseLive(s) ==
  IF Case(s).dir = "recv" THEN ~(Case(s).ch \in closed /\ length[Case(s).ch] = 0)
  ELSE Case(s).ch \notin closed

\* Mutant: a select gives up when its last case is dead.
SelLiveLast(s) ==
  /\ sel[s].pc = "live"
  /\ IF sel[s].i < Len(Cases[s])
     THEN NextCase(s, FALSE, "wait") /\ UNCHANGED vars
     ELSE \/ /\ ~CaseLive(s)
             /\ Done(s) /\ Answer(s, "closed")
             /\ UNCHANGED <<ring, closed, recvWait, recvWoken, sendWait, sendWoken, sending>>
          \/ /\ CaseLive(s) /\ s \in Pollers
             /\ Done(s) /\ Answer(s, "pending")
             /\ UNCHANGED <<ring, closed, recvWait, recvWoken, sendWait, sendWoken, sending>>
          \/ /\ CaseLive(s) /\ s \notin Pollers
             /\ Goto(s, "wait", 1, FALSE) /\ UNCHANGED vars

\* One look of the second phase; after the last, SELECT_ERR_ALL_CLOSED,
\* SELECT_ERR_PENDING or the third phase.
SelLive(s) ==
  LET live == sel[s].live \/ CaseLive(s) IN
  /\ sel[s].pc = "live"
  /\ IF sel[s].i < Len(Cases[s])
     THEN NextCase(s, live, "wait") /\ UNCHANGED vars
     ELSE \/ /\ ~live
             /\ Done(s) /\ Answer(s, "closed")
             /\ UNCHANGED <<ring, closed, recvWait, recvWoken, sendWait, sendWoken, sending>>
          \/ /\ live /\ s \in Pollers
             /\ Done(s) /\ Answer(s, "pending")
             /\ UNCHANGED <<ring, closed, recvWait, recvWoken, sendWait, sendWoken, sending>>
          \/ /\ live /\ s \notin Pollers
             /\ Goto(s, "wait", 1, FALSE) /\ UNCHANGED vars

\* channel_select_wait_recv_one and channel_select_wait_send_one, up to the
\* timed wait.
Sleeps(s) ==
  LET c == Case(s).ch
  IN  IF Case(s).dir = "recv" THEN length[c] = 0 /\ c \notin closed
      ELSE c \notin closed /\ c \notin Unbounded /\ Full(c)

\* Mutant: a receive case goes to sleep on what the second phase saw.
SelWaitBlind(s) ==
  /\ sel[s].pc = "wait"
  /\ LET c == Case(s).ch IN
     IF Case(s).dir = "recv"
     THEN /\ Goto(s, "asleep", sel[s].i, FALSE)
          /\ recvWait' = [recvWait EXCEPT ![c] = @ \cup {s}]
          /\ UNCHANGED <<ring, closed, recvWoken, sendWait, sendWoken, sending, res>>
     ELSE NextCase(s, FALSE, "try") /\ UNCHANGED vars

\* One case of the third phase: it is passed over, or slept on.
SelWait(s) ==
  /\ sel[s].pc = "wait"
  /\ IF ~Sleeps(s) THEN NextCase(s, FALSE, "try") /\ UNCHANGED vars
     ELSE LET c == Case(s).ch IN
          /\ Goto(s, "asleep", sel[s].i, FALSE)
          /\ IF Case(s).dir = "recv"
             THEN recvWait' = [recvWait EXCEPT ![c] = @ \cup {s}] /\ UNCHANGED sendWait
             ELSE sendWait' = [sendWait EXCEPT ![c] = @ \cup {s}] /\ UNCHANGED recvWait
          /\ UNCHANGED <<ring, closed, recvWoken, sendWoken, sending, res>>

\* Mutant: the wait is a loop that stays with one case until it is ready.
SelWakeStays(s) ==
  /\ sel[s].pc = "asleep"
  /\ \E c \in Chans :
       /\ s \in recvWoken[c] \cup sendWoken[c]
       /\ recvWoken' = [recvWoken EXCEPT ![c] = @ \ {s}]
       /\ sendWoken' = [sendWoken EXCEPT ![c] = @ \ {s}]
  /\ Goto(s, "wait", sel[s].i, FALSE)
  /\ UNCHANGED <<ring, closed, recvWait, sendWait, sending, res>>

\* The timed wait returns, signalled or not, and the next case follows.
SelWake(s) ==
  /\ sel[s].pc = "asleep"
  /\ \E c \in Chans :
       /\ s \in recvWoken[c] \cup sendWoken[c]
       /\ recvWoken' = [recvWoken EXCEPT ![c] = @ \ {s}]
       /\ sendWoken' = [sendWoken EXCEPT ![c] = @ \ {s}]
  /\ IF sel[s].i < Len(Cases[s]) THEN Goto(s, "wait", sel[s].i + 1, FALSE)
     ELSE Goto(s, "try", 1, FALSE)
  /\ UNCHANGED <<ring, closed, recvWait, sendWait, sending, res>>

\* The five milliseconds are over; or a wakeup without a signal.
Timeout(t, c) == Spurious(t, c) /\ UNCHANGED sel

CallerStep(t, c) ==
  /\ \/ \E v \in Vals : Send(t, c, v) \/ TrySend(t, c, v)
     \/ SendResume(t, c) \/ Recv(t, c) \/ RecvResume(t, c) \/ TryRecv(t, c)
  /\ UNCHANGED sel

SelStep(s) == SelTry(s) \/ SelLive(s) \/ SelWait(s) \/ SelWake(s)

SNext ==
  \/ \E t \in Callers, c \in Chans : CallerStep(t, c)
  \/ \E s \in Selectors : SelCall(s) \/ SelStep(s)
  \/ \E t \in Threads, c \in Chans : Timeout(t, c)
  \/ \E c \in Chans : Close(c) /\ UNCHANGED sel

SSpec == SInit /\ [][SNext]_svars

\* Threads get the mutex they ask for, and a timed wait ends.
SFairSpec ==
  /\ SSpec
  /\ \A t \in Callers, c \in Chans :
       /\ WF_svars(SendResume(t, c) /\ UNCHANGED sel)
       /\ WF_svars(RecvResume(t, c) /\ UNCHANGED sel)
  /\ \A s \in Selectors :
       WF_svars(SelStep(s)) /\ \A c \in Chans : WF_svars(Timeout(s, c))

-----------------------------------------------------------------------------
(* Properties. *)

Selecting(s) == sel[s].pc # "idle"

\* SELECT_ERR_ALL_CLOSED is answered only when all the channels are closed,
\* though they were looked at one by one.
AllClosedIsTrue ==
  \A s \in Selectors :
    ~Selecting(s) /\ res[s] = "closed" =>
      \A i \in DOMAIN Cases[s] : Cases[s][i].ch \in closed

\* A blocking select returns once all its channels are closed.
SelectReleased ==
  \A s \in Selectors :
    (Selecting(s) /\ \A i \in DOMAIN Cases[s] : Cases[s][i].ch \in closed)
      ~> ~Selecting(s)

\* A blocking select does not stay while one of its receive cases always has a
\* value, or one of its send cases always has room: the timed waits make it
\* look again even when another thread takes every signal.
SelectNotStuck ==
  \A s \in Selectors : \A i \in DOMAIN Cases[s] :
    LET c == Cases[s][i].ch
        ready == IF Cases[s][i].dir = "recv" THEN length[c] > 0
                 ELSE c \notin closed /\ ~Full(c)
    IN  []<>(~Selecting(s)) \/ []<>(~ready)
=============================================================================
