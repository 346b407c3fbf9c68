------------------------------ MODULE Channels ------------------------------
(***************************************************************************)
(* What a family of pipes promises: each is a bounded first-in first-out   *)
(* channel that, once closed, delivers what it holds and accepts no more.  *)
(***************************************************************************)
EXTENDS Integers, Sequences

CONSTANTS Chans, Values, Capacity

VARIABLES
    queue,      \* queue[c]: the values sent and not yet received
    closed      \* closed[c]: the sender has gone

chanVars == <<queue, closed>>

ChannelsTypeOK ==
    /\ queue \in [Chans -> Seq(Values)]
    /\ closed \in [Chans -> BOOLEAN]
    /\ \A c \in Chans : Len(queue[c]) <= Capacity

Init ==
    /\ queue = [c \in Chans |-> <<>>]
    /\ closed = [c \in Chans |-> FALSE]

Send(c, v) ==
    /\ ~ closed[c] /\ Len(queue[c]) < Capacity
    /\ queue' = [queue EXCEPT ![c] = Append(@, v)]
    /\ UNCHANGED closed

Receive(c) ==
    /\ queue[c] # <<>>
    /\ queue' = [queue EXCEPT ![c] = Tail(@)]
    /\ UNCHANGED closed

Close(c) ==
    /\ closed' = [closed EXCEPT ![c] = TRUE]
    /\ UNCHANGED queue

\* The channels of S are opened anew, for the next pipeline.
Reopen(S) ==
    /\ queue' = [c \in Chans |-> IF c \in S THEN <<>> ELSE queue[c]]
    /\ closed' = [c \in Chans |-> closed[c] /\ c \notin S]

Next ==
    \/ \E c \in Chans : (\E v \in Values : Send(c, v)) \/ Receive(c) \/ Close(c)
    \/ \E S \in SUBSET Chans : Reopen(S)

Spec == Init /\ [][Next]_chanVars
=============================================================================
