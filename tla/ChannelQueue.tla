---------------------------- MODULE ChannelQueue ----------------------------
(***************************************************************************)
(* What a set of channels promises: each is a first-in first-out queue of  *)
(* values, every value that was accepted comes out once, and a caller is   *)
(* told "closed" or "full"/"empty" only when that is so.                   *)
(***************************************************************************)
EXTENDS Naturals, Sequences

CONSTANTS Threads, Chans, Vals, NoRes, Bound

VARIABLES
  q,     \* the values in each channel
  shut,  \* the channels that are closed
  ret    \* per thread, the answer of its last call; NoRes during a call

qvars == <<q, shut, ret>>

Answer(t, r) == ret' = [ret EXCEPT ![t] = r]

QInit ==
  /\ q = [c \in Chans |-> <<>>]
  /\ shut = {}
  /\ ret = [t \in Threads |-> NoRes]

QPut(t, c, v) ==
  /\ Len(q[c]) < Bound[c]
  /\ q' = [q EXCEPT ![c] = Append(@, v)]
  /\ Answer(t, "ok")
  /\ UNCHANGED shut

QTake(t, c) ==
  /\ q[c] # <<>>
  /\ q' = [q EXCEPT ![c] = Tail(@)]
  /\ Answer(t, Head(q[c]))
  /\ UNCHANGED shut

\* A sender is refused when the channel is closed.
QRefuse(t, c) == c \in shut /\ Answer(t, "closed") /\ UNCHANGED <<q, shut>>

\* A receiver learns of the end when the channel is closed and empty.
QEnd(t, c) ==
  c \in shut /\ q[c] = <<>> /\ Answer(t, "closed") /\ UNCHANGED <<q, shut>>

\* The calls that do not block: full, or empty.
QBusy(t, c) ==
  /\ Len(q[c]) = Bound[c] \/ q[c] = <<>>
  /\ Answer(t, "busy")
  /\ UNCHANGED <<q, shut>>

\* A select that found none of its cases ready, one after the other; by the
\* time it answers one may be.
QPending(t) == Answer(t, "pending") /\ UNCHANGED <<q, shut>>

\* A call that has to wait.
QWait(t) == Answer(t, NoRes) /\ UNCHANGED <<q, shut>>

QClose(c) == shut' = shut \cup {c} /\ UNCHANGED <<q, ret>>

QNext ==
  \/ \E t \in Threads, c \in Chans :
       \/ \E v \in Vals : QPut(t, c, v)
       \/ QTake(t, c) \/ QRefuse(t, c) \/ QEnd(t, c) \/ QBusy(t, c)
  \/ \E t \in Threads : QWait(t) \/ QPending(t)
  \/ \E c \in Chans : QClose(c)

QSpec == QInit /\ [][QNext]_qvars
=============================================================================
