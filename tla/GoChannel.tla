----------------------------- MODULE GoChannel -----------------------------
(***************************************************************************)
(* What a Go channel promises, without goroutines, promises, event loop or *)
(* separate waiting lists: a first-in first-out line of values per         *)
(* channel.  A value in the line is buffered if it is among the first      *)
(* Capacity[c], otherwise its sender is still blocked.  BufferedChannel    *)
(* and selectStatement (modules Channel and Select) are shown to implement *)
(* this specification.                                                     *)
(***************************************************************************)
EXTENDS Naturals, Sequences, SequencesExt

CONSTANTS Chans, Capacity

VARIABLES line,    \* values buffered or offered by blocked senders, in order
          closed,  \* whether the channel is closed
          taken,   \* values that left for a receiver, in order
          next     \* the next value to be sent; values identify their send

vars == <<line, closed, taken, next>>

Init ==
  /\ line = [c \in Chans |-> <<>>]
  /\ closed = [c \in Chans |-> FALSE]
  /\ taken = [c \in Chans |-> <<>>]
  /\ next = 1

\* A send joins the line ...
Offer(c) ==
  /\ ~closed[c]
  /\ line' = [line EXCEPT ![c] = Append(@, next)]
  /\ next' = next + 1
  /\ UNCHANGED <<closed, taken>>

\* ... or, when nobody is in line, passes its value straight to a receiver.
Pass(c) ==
  /\ ~closed[c]
  /\ line[c] = <<>>
  /\ taken' = [taken EXCEPT ![c] = Append(@, next)]
  /\ next' = next + 1
  /\ UNCHANGED <<line, closed>>

\* A send on a closed channel panics; its value goes nowhere.
Refuse(c) ==
  /\ closed[c]
  /\ next' = next + 1
  /\ UNCHANGED <<line, closed, taken>>

\* A receive takes the oldest value in line, closed or not.
Take(c) ==
  /\ line[c] # <<>>
  /\ taken' = [taken EXCEPT ![c] = Append(@, Head(line[c]))]
  /\ line' = [line EXCEPT ![c] = Tail(@)]
  /\ UNCHANGED <<closed, next>>

Buffered(c) == SubSeq(line[c], 1, IF Len(line[c]) < Capacity[c]
                                  THEN Len(line[c]) ELSE Capacity[c])

\* Closing sends the blocked senders away and keeps the buffered values.
Close(c) ==
  /\ ~closed[c]
  /\ closed' = [closed EXCEPT ![c] = TRUE]
  /\ line' = [line EXCEPT ![c] = Buffered(c)]
  /\ UNCHANGED <<taken, next>>

\* s is what remains of t when some of its values leave.
Subsequence(s, t) ==
  \E e \in [1..Len(s) -> 1..Len(t)] :
    /\ \A j, k \in 1..Len(s) : j < k => e[j] < e[k]
    /\ \A k \in 1..Len(s) : s[k] = t[e[k]]

\* Blocked senders (the cases of a select that lost) leave the line; the
\* others keep their order, and a buffered value stays.
Withdraw ==
  /\ line' # line
  /\ line' \in [Chans -> Seq(Nat)]
  /\ \A c \in Chans : IsPrefix(Buffered(c), line'[c]) /\ Subsequence(line'[c], line[c])
  /\ UNCHANGED <<closed, taken, next>>

Next ==
  \/ \E c \in Chans : Offer(c) \/ Pass(c) \/ Refuse(c) \/ Take(c) \/ Close(c)
  \/ Withdraw

Spec == Init /\ [][Next]_vars
=============================================================================
