---------------------------- MODULE SampleLogAbs ----------------------------
(***************************************************************************)
(* What the sample log promises: a bounded queue that delivers each sample *)
(* at least once and in order.  A sample is lost in two ways only: it is   *)
(* refused at the door when ChannelCap samples wait, or it is among the    *)
(* oldest when more than Capacity samples wait.                            *)
(*                                                                         *)
(* Samples are numbered in the order they are logged.  The database keeps  *)
(* whatever it is sent, more than once if it is sent more than once; only  *)
(* which samples it holds is told apart here.                              *)
(***************************************************************************)
EXTENDS Naturals, Sequences

CONSTANTS ChannelCap, Capacity

VARIABLES
    next,     \* the number of the next sample
    pending,  \* samples logged and neither confirmed nor lost, oldest first
    posted,   \* samples that have been sent to the database
    stored,   \* samples the database holds
    lost      \* samples given up

vars == <<next, pending, posted, stored, lost>>

First(k) == {pending[i] : i \in 1 .. k}
Rest(k) == SubSeq(pending, k + 1, Len(pending))

Init == next = 0 /\ pending = <<>> /\ posted = {} /\ stored = {} /\ lost = {}

Accept ==
    /\ next' = next + 1
    /\ pending' = Append(pending, next)
    /\ UNCHANGED <<posted, stored, lost>>

Refuse ==
    /\ Len(pending) >= ChannelCap
    /\ next' = next + 1
    /\ lost' = lost \cup {next}
    /\ UNCHANGED <<pending, posted, stored>>

\* Only the oldest samples are ever sent.
Post(k) ==
    /\ posted' = posted \cup First(k)
    /\ UNCHANGED <<next, pending, stored, lost>>

\* What was sent may be stored at any later time.
Store ==
    /\ \E s \in SUBSET posted : stored' = stored \cup s
    /\ UNCHANGED <<next, pending, posted, lost>>

\* Samples leave the queue once they are stored ...
Confirm(k) ==
    /\ First(k) \subseteq stored
    /\ pending' = Rest(k)
    /\ UNCHANGED <<next, posted, stored, lost>>

\* ... or when too many wait.
GiveUp(k) ==
    /\ Len(pending) > Capacity
    /\ pending' = Rest(k)
    /\ lost' = lost \cup First(k)
    /\ UNCHANGED <<next, posted, stored>>

Next ==
    \/ Accept \/ Refuse \/ Store
    \/ \E k \in 1 .. Len(pending) : Post(k) \/ Confirm(k) \/ GiveUp(k)

Spec == Init /\ [][Next]_vars
=============================================================================
