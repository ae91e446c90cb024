----------------------------- MODULE SampleLog -----------------------------
(***************************************************************************)
(* The sample log (src/sample_log.rs) and the endpoint it posts to         *)
(* (ingest_handler).                                                       *)
(*                                                                         *)
(* Check tasks on every provider's thread put samples on a bounded channel *)
(* and never wait.  One task, flush_loop, moves them to a buffer and posts *)
(* the buffer in chunks, when it holds enough rows and on a timer.  While  *)
(* a post is under way it receives nothing.  A chunk whose post fails goes *)
(* back to the head of the buffer, unless the buffer is full.  A post that *)
(* timed out may still arrive, and a reply may be lost.                    *)
(***************************************************************************)
EXTENDS Naturals, Sequences, FiniteSets

CONSTANTS
    ChannelCap,   \* BUFFER
    FlushRows,    \* FLUSH_ROWS
    MaxBuffered,  \* MAX_BUFFERED
    Refused,      \* samples the endpoint has no valid labels for
    MaxSamples    \* bound: samples that are logged

ASSUME SampleLogAssumption ==
    /\ ChannelCap \in Nat \ {0}
    /\ FlushRows \in Nat \ {0} /\ MaxBuffered \in Nat
    /\ FlushRows <= MaxBuffered
    /\ MaxSamples \in Nat

VARIABLES
    next,    \* the number of the next sample
    open,    \* some SampleLogger is left
    chan,    \* the channel
    buffer,  \* flush_loop's buffer
    pc,      \* where flush_loop stands
    last,    \* this flush is the last
    batch,   \* rows: the chunk under way
    wire,    \* the request for it
    late,    \* chunks of requests that timed out and may still arrive
    posted,  \* samples that have been in a request
    stored,  \* samples the database holds
    lost     \* samples given up

loop == <<buffer, pc, last, batch>>
database == <<late, stored>>
vars == <<next, open, chan, loop, wire, database, posted, lost>>

Rows(s) == {s[i] : i \in DOMAIN s}
Held == Rows(batch) \cup Rows(buffer) \cup Rows(chan)

Init ==
    /\ next = 0 /\ open = TRUE
    /\ chan = <<>> /\ buffer = <<>> /\ batch = <<>>
    /\ pc = "select" /\ last = FALSE /\ wire = "none"
    /\ late = {} /\ posted = {} /\ stored = {} /\ lost = {}

-----------------------------------------------------------------------------
(* SampleLogger. *)

\* log: try_send; a full channel drops the sample without a trace.
Log ==
    /\ open
    /\ next < MaxSamples
    /\ next' = next + 1
    /\ IF Len(chan) < ChannelCap
       THEN chan' = Append(chan, next) /\ UNCHANGED lost
       ELSE lost' = lost \cup {next} /\ UNCHANGED chan
    /\ UNCHANGED <<open, loop, wire, database, posted>>

\* Every check task is gone, and with them the senders.
CloseChannel ==
    /\ open
    /\ open' = FALSE
    /\ UNCHANGED <<next, chan, loop, wire, database, posted, lost>>

-----------------------------------------------------------------------------
(* flush_loop. *)

Receive ==
    /\ pc = "select"
    /\ chan # <<>>
    /\ chan' = Tail(chan)
    /\ buffer' = Append(buffer, Head(chan))
    /\ pc' = IF Len(buffer') >= FlushRows THEN "flush" ELSE pc
    /\ UNCHANGED <<next, open, last, batch, wire, database, posted, lost>>

ReceiveClosed ==
    /\ pc = "select"
    /\ chan = <<>>
    /\ ~open
    /\ pc' = "flush"
    /\ last' = TRUE
    /\ UNCHANGED <<next, open, chan, buffer, batch, wire, database, posted, lost>>

\* Slip: the timer waits for a full chunk as well.
TickFlushFull ==
    /\ pc = "select"
    /\ Len(buffer) >= FlushRows
    /\ pc' = "flush"
    /\ UNCHANGED <<next, open, chan, buffer, last, batch, wire, database, posted, lost>>

TickFlush ==
    /\ pc = "select"
    /\ buffer # <<>>
    /\ pc' = "flush"
    /\ UNCHANGED <<next, open, chan, buffer, last, batch, wire, database, posted, lost>>

Chunk(b) ==
    LET n == IF Len(b) < FlushRows THEN Len(b) ELSE FlushRows IN
    [taken |-> SubSeq(b, 1, n), left |-> SubSeq(b, n + 1, Len(b))]

\* flush_chunk: the rows leave the buffer before the request is sent.
Post ==
    /\ pc = "flush"
    /\ buffer # <<>>
    /\ batch' = Chunk(buffer).taken
    /\ buffer' = Chunk(buffer).left
    /\ wire' = "sent"
    /\ posted' = posted \cup Rows(batch')
    /\ pc' = "post"
    /\ UNCHANGED <<next, open, chan, last, database, lost>>

AfterFlush == IF last THEN "stopped" ELSE "select"

FlushDone ==
    /\ pc = "flush"
    /\ buffer = <<>>
    /\ pc' = AfterFlush
    /\ UNCHANGED <<next, open, chan, buffer, last, batch, wire, database, posted, lost>>

\* A 2xx reply: the chunk is done with, the flush goes on.
PostOk ==
    /\ pc = "post"
    /\ wire = "ok"
    /\ batch' = <<>>
    /\ wire' = "none"
    /\ pc' = "flush"
    /\ UNCHANGED <<next, open, chan, buffer, last, database, posted, lost>>

\* Slip: the failed chunk goes back behind what was received meanwhile.
PutBackLast ==
    IF Len(batch) + Len(buffer) <= MaxBuffered
    THEN buffer' = buffer \o batch /\ UNCHANGED lost
    ELSE lost' = lost \cup Rows(batch) /\ UNCHANGED buffer

\* Slip: the rows of the chunk itself are not counted.
PutBackUncounted ==
    IF Len(buffer) <= MaxBuffered
    THEN buffer' = batch \o buffer /\ UNCHANGED lost
    ELSE lost' = lost \cup Rows(batch) /\ UNCHANGED buffer

\* Slip: a failed chunk is forgotten.
PutBackNothing == UNCHANGED <<buffer, lost>>

PutBack ==
    IF Len(batch) + Len(buffer) <= MaxBuffered
    THEN buffer' = batch \o buffer /\ UNCHANGED lost
    ELSE lost' = lost \cup Rows(batch) /\ UNCHANGED buffer

\* Any other reply, a lost one, or none within the client's timeout: the flush
\* ends here.
PostFailed ==
    /\ pc = "post"
    /\ PutBack
    /\ batch' = <<>>
    /\ late' = IF wire = "sent" THEN late \cup {batch} ELSE late
    /\ wire' = "none"
    /\ pc' = AfterFlush
    /\ UNCHANGED <<next, open, chan, last, posted, stored>>

-----------------------------------------------------------------------------
(* The endpoint.  One statement inserts a whole batch; a batch with a row   *)
(* that has no valid labels is refused.  A request that never arrives is one *)
(* that stays "sent", or stays in late.                                     *)

Insertable(b) == Rows(b) \cap Refused = {}

\* The insert commits, and is reported, unless the connection broke on it.
Ingest ==
    /\ wire = "sent"
    /\ Insertable(batch)
    /\ stored' = stored \cup Rows(batch)
    /\ wire' \in {"ok", "error"}
    /\ UNCHANGED <<next, open, chan, loop, late, posted, lost>>

\* Refused rows, a token that expired, a database that is down.
IngestRefused ==
    /\ wire = "sent"
    /\ wire' = "error"
    /\ UNCHANGED <<next, open, chan, loop, database, posted, lost>>

\* flush_loop no longer waits for this one.
IngestLate ==
    /\ \E b \in late :
         /\ Insertable(b)
         /\ stored' = stored \cup Rows(b)
         /\ late' = late \ {b}
    /\ UNCHANGED <<next, open, chan, loop, wire, posted, lost>>

-----------------------------------------------------------------------------
Next ==
    \/ Log \/ CloseChannel
    \/ Receive \/ ReceiveClosed \/ TickFlush \/ Post \/ FlushDone \/ PostOk \/ PostFailed
    \/ Ingest \/ IngestRefused \/ IngestLate

Spec == Init /\ [][Next]_vars

\* select! takes a ready branch at random, the client times out, and the
\* endpoint accepts a post again and again if it is tried again and again.
Fairness ==
    /\ SF_vars(Receive) /\ WF_vars(ReceiveClosed) /\ WF_vars(TickFlush)
    /\ WF_vars(Post) /\ WF_vars(FlushDone) /\ WF_vars(PostFailed)
    /\ SF_vars(Ingest /\ wire' = "ok") /\ SF_vars(PostOk)

FairSpec == Spec /\ Fairness

-----------------------------------------------------------------------------
(* Properties. *)

\* Every variable has its type, and the channel its limit.
TypeOK ==
    /\ next \in Nat /\ open \in BOOLEAN
    /\ chan \in Seq(Nat) /\ buffer \in Seq(Nat) /\ batch \in Seq(Nat)
    /\ Len(chan) <= ChannelCap
    /\ pc \in {"select", "flush", "post", "stopped"} /\ last \in BOOLEAN
    /\ wire \in {"none", "sent", "ok", "error"}
    /\ late \in SUBSET Seq(Nat)
    /\ posted \in SUBSET Nat /\ stored \in SUBSET Nat /\ lost \in SUBSET Nat

\* However long posts fail and rows are put back, the buffer and the chunk under
\* way together hold at most one row more than MaxBuffered, and no more than
\* MaxBuffered once the flush is over.
MemoryBounded ==
    /\ Len(batch) + Len(buffer) <= MaxBuffered + 1
    /\ pc = "select" => Len(buffer) <= MaxBuffered

\* Retries, late arrivals and evictions do not reorder: when a sample is stored,
\* every older one is stored or given up.
NoOvertaking ==
    \A t \in stored : \A s \in 0 .. t : s \in stored \cup lost

\* The sample log is a bounded queue that delivers at least once and in order.
Abs == INSTANCE SampleLogAbs WITH
           pending <- batch \o buffer \o chan, Capacity <- MaxBuffered
ImplementsQueue == Abs!Spec

\* With an endpoint that recovers, every sample on the channel is stored or
\* given up, unless the loop was told to stop.
SamplesSettle ==
    \A s \in 0 .. MaxSamples - 1 :
        s \in Held ~> (s \in stored \cup lost \/ pc = "stopped")
=============================================================================
