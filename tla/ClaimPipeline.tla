--------------------------- MODULE ClaimPipeline ---------------------------
(***************************************************************************)
(* The life of a claim: a provider's answer is gated against the fleet tip *)
(* (CheckTask::record), becomes a claim in the sink (ClaimSink::submit),   *)
(* raises the fleet tip (ReferenceSlot::observe), settles, and is judged   *)
(* by the verifier task against the reference node (run_verify_tick).      *)
(*                                                                         *)
(* Threads.  Every provider has an OS thread of its own that runs its      *)
(* check tasks on a single-threaded runtime, so two tasks of one provider  *)
(* interleave at an await only, while tasks of different providers and the *)
(* verifier interleave between any two accesses of the shared tip, of the  *)
(* node tip and of the queue.  Each action below is one such access.       *)
(*                                                                         *)
(* Time passes in SLOT_MS units.  No absolute clock is kept: what the code *)
(* derives from an Instant is an age, and a tick makes everything one unit *)
(* older.  Code that runs without an await takes far less than one unit,   *)
(* so time passes only while every thread waits for an answer or sleeps.   *)
(***************************************************************************)
EXTENDS ReferenceSlot, FiniteSets

CONSTANTS
    Task,          \* one per (provider, check)
    Owner,         \* [Task -> provider]: whose OS thread runs the task
    Kind,          \* [Task -> Kinds]: what the method's answer carries
    Honest,        \* tasks whose provider answers from the chain it sees
    Delay,         \* claim_delay_slots
    Margin,        \* claim_margin
    StaleAfter,    \* node_stale_slots
    MaxSlotLag,    \* max_slot_lag
    BlockDepth,    \* BLOCK_CONFIRMATION_DEPTH
    Cap,           \* CLAIM_BUFFER_CAP
    Endpoint,      \* reference_slot.source = endpoint: the tip also polls the node
    \* The environment.
    FirstSlot,     \* the chain's slot when the monitor starts
    Trail,         \* how far an honest provider may trail the chain
    Flight,        \* how long an answer may travel, in SLOT_MS units
    NodeLag,       \* how far the reference node may trail the chain
    ConfirmLag,    \* how far the node's confirmed state trails its processed slot
    PollMayFail,   \* whether the node's getSlot may fail
    \* Bounds of the model.
    MaxSlot,       \* the chain stops here
    MaxTip,        \* no time passes once the projected node tip is here
    MaxReport,     \* the highest slot an answer can name
    MaxClaims      \* claims the tasks may submit

Kinds == {"slot", "hash", "tx", "accounts", "clock", "block", "txRecent"}

\* Methods whose success carries an observed slot: it gates, and raises the tip.
Observing == {"slot", "hash", "tx", "accounts", "clock"}

\* Payloads that are judged against the node once they have settled.
Verifiable == {"hash", "tx", "accounts", "block", "txRecent"}

ASSUME ConfigAssumption ==
    /\ Owner \in [Task -> STRING]
    /\ Kind \in [Task -> Kinds]
    /\ Honest \subseteq Task
    /\ {Delay, Margin, StaleAfter, MaxSlotLag, BlockDepth} \subseteq Nat
    /\ Cap \in Nat \ {0}
    /\ {Endpoint, PollMayFail} \subseteq BOOLEAN

ASSUME EnvironmentAssumption ==
    /\ FirstSlot \in Nat \ {0}
    /\ {Trail, Flight, NodeLag, ConfirmLag} \subseteq Nat
    /\ {MaxSlot, MaxTip, MaxReport, MaxClaims} \subseteq Nat
    /\ FirstSlot <= MaxSlot

VARIABLES
    chain,     \* the highest slot of the cluster
    node,      \* the reference node's processed slot
    fleet,     \* ReferenceSlot.tip: 0 when nothing was observed
    nodeTip,   \* ClaimSink.node_tip as node_tip() reads it: slot plus its age
    queue,     \* ClaimSink.queue, each claim numbered in order of arrival
    nextId,    \* the number of the next claim
    pc,        \* [Task -> where the task stands]
    ask,       \* [Task -> slot a getBlock probe asks for]
    ans,       \* [Task -> slot the answer names]
    clockOff,  \* [Task -> the answer's clock is off by more than CLOCK_DRIFT_SECS]
    age,       \* [Task -> time since the provider formed the answer]
    seen,      \* [Task -> node_tip as read by node_lag]
    caughtUp,  \* [Task -> node_caught_up]
    flagged,   \* [Task -> implausible]
    vpc,       \* where the verifier's tick stands
    polled,    \* the node's answer to the verifier's getSlot
    vage,      \* time since the node formed it
    vtip,      \* the effective tip of this tick
    due,       \* the claims drained by this tick and not judged yet
    nodeStale, \* node_stale, read once per tick
    recorded   \* the (task, result) series the metrics have counted: claim verdicts
               \* and answers scored stale

tip      == <<fleet, nodeTip>>
sink     == <<queue, nextId>>
world    == <<chain, node>>
answer   == <<ask, ans, clockOff, age>>
scratch  == <<seen, caughtUp, flagged>>
verifier == <<vpc, polled, vage, vtip, due, nodeStale>>

vars == <<world, tip, sink, pc, answer, scratch, verifier, recorded>>

Claim == [id : Nat, task : Task, slot : Slot, implausible : BOOLEAN]

Verdicts == {"match", "drift", "mismatch", "missing", "skipped", "implausible"}

-----------------------------------------------------------------------------
(* The sink's arithmetic. *)

\* node_lag of a node tip n and a fleet tip f, None when either is unknown.
LagOf(n, f) ==
    IF n = NoSlot \/ Current(f) = NoSlot THEN NoSlot ELSE SatSub(f, n)

\* Slip: a lag equal to the limit already counts as stale.
StaleAtLimit(n, f) == LagOf(n, f) # NoSlot /\ LagOf(n, f) >= StaleAfter

IsNodeStale(n, f) == LagOf(n, f) # NoSlot /\ LagOf(n, f) > StaleAfter

\* node_caught_up: the node trails the fleet by at most the margin.
IsCaughtUp(n, f) == LagOf(n, f) # NoSlot /\ LagOf(n, f) <= Margin

\* Slip: only the fleet's view settles a claim.
FleetTipOnly(n, f) == Current(f)

\* effective_tip; NoSlot is below every slot, so None never wins.
EffectiveTip(n, f) == Higher(n, Current(f))

\* Slip: no margin for a node that is a little behind.
SlotAheadOfNode(caught, n, slot) == caught /\ n # NoSlot /\ slot # NoSlot /\ slot > n

SlotImplausible(caught, n, slot) ==
    /\ caught
    /\ n # NoSlot
    /\ slot # NoSlot
    /\ slot > n + Margin

\* Slip: a claim is due as soon as the tip reaches its slot.
DueAtOnce(c, t) == c.implausible \/ c.slot <= t

IsDue(c, t) == c.implausible \/ c.slot + Delay <= t

\* Slip: a claim that is due to the slot is both taken and left.
KeptAtDelay(q, t) == {c \in q : ~c.implausible /\ c.slot + Delay >= t}

\* What drain_due leaves in the queue.
Kept(q, t) == {c \in q : ~IsDue(c, t)}

\* A full queue gives up its oldest claim for the new one.
Push(q, c) ==
    {d \in q : Cardinality(q) >= Cap => \E e \in q : e.id < d.id} \cup {c}

-----------------------------------------------------------------------------
(* The answer under record. *)

ObservedSlot(t) == IF Kind[t] \in Observing THEN ans[t] ELSE NoSlot

ClaimSlot(t) == IF Kind[t] = "block" THEN ask[t] ELSE ans[t]

\* Tasks of one provider share a thread: a record, once begun, is finished
\* before another task of that provider starts one.
Recording == {"readNode", "readFleet", "reread", "push", "observe"}
ThreadFree(t) == \A u \in Task : Owner[u] = Owner[t] => pc[u] \notin Recording

Count(t, r) == recorded' = recorded \cup {<<t, r>>}
Goto(t, l) == pc' = [pc EXCEPT ![t] = l]

\* Back to the sleep between two calls; what the call left behind is dropped.
Finish(t) ==
    /\ Goto(t, "idle")
    /\ ask' = [ask EXCEPT ![t] = NoSlot]
    /\ ans' = [ans EXCEPT ![t] = NoSlot]
    /\ clockOff' = [clockOff EXCEPT ![t] = FALSE]
    /\ age' = [age EXCEPT ![t] = 0]
    /\ seen' = [seen EXCEPT ![t] = NoSlot]
    /\ caughtUp' = [caughtUp EXCEPT ![t] = FALSE]
    /\ flagged' = [flagged EXCEPT ![t] = FALSE]

Init ==
    /\ chain = FirstSlot
    /\ node \in {n \in 0 .. FirstSlot : FirstSlot - n <= NodeLag}
    /\ fleet = 0
    /\ nodeTip = NoSlot
    /\ queue = {}
    /\ nextId = 0
    /\ pc = [t \in Task |-> "idle"]
    /\ ask = [t \in Task |-> NoSlot]
    /\ ans = [t \in Task |-> NoSlot]
    /\ clockOff = [t \in Task |-> FALSE]
    /\ age = [t \in Task |-> 0]
    /\ seen = [t \in Task |-> NoSlot]
    /\ caughtUp = [t \in Task |-> FALSE]
    /\ flagged = [t \in Task |-> FALSE]
    /\ vpc = "sleep"
    /\ polled = NoSlot
    /\ vage = 0
    /\ vtip = NoSlot
    /\ due = {}
    /\ nodeStale = FALSE
    /\ recorded = {}

-----------------------------------------------------------------------------
(* The environment: the chain grows at most one slot per SLOT_MS, the node *)
(* follows it within NodeLag, and no answer travels longer than Flight.    *)

AtRest ==
    /\ \A t \in Task : pc[t] \in {"idle", "sent", "answered"}
    /\ vpc \in {"sleep", "answered", "judge"}

Timely ==
    /\ \A t \in Task : pc[t] = "answered" => age[t] < Flight
    /\ vpc = "answered" => vage < Flight

Tick ==
    /\ AtRest
    /\ Timely
    /\ nodeTip < MaxTip
    /\ nodeTip' = IF nodeTip = NoSlot THEN NoSlot ELSE nodeTip + 1
    /\ age' = [t \in Task |-> IF pc[t] = "answered" THEN age[t] + 1 ELSE age[t]]
    /\ vage' = IF vpc = "answered" THEN vage + 1 ELSE vage
    /\ chain' \in {c \in {chain, chain + 1} : c <= MaxSlot}
    /\ node' \in {n \in node .. chain' : chain' - n <= NodeLag}
    /\ UNCHANGED <<fleet, sink, pc, ask, ans, clockOff, scratch, vpc, polled, vtip, due,
                   nodeStale, recorded>>

\* poll_reference_endpoint: one getSlot of the node, observed like any other.
PollReference ==
    /\ Endpoint
    /\ fleet' = Observe(fleet, node)
    /\ UNCHANGED <<world, nodeTip, sink, pc, answer, scratch, verifier, recorded>>

-----------------------------------------------------------------------------
(* One cycle of a check task: call, answer, record. *)

\* The request is built.  A getBlock probe asks for a slot below the tip read
\* here, and is not sent while there is no tip.
Call(t) ==
    /\ pc[t] = "idle"
    /\ nextId + Cardinality({u \in Task : pc[u] # "idle"}) < MaxClaims
    /\ Kind[t] = "block" => Current(fleet) # NoSlot
    /\ ask' = [ask EXCEPT ![t] =
                 IF Kind[t] = "block" THEN SatSub(fleet, BlockDepth) ELSE NoSlot]
    /\ Goto(t, "sent")
    /\ UNCHANGED <<world, tip, sink, ans, clockOff, age, scratch, verifier, recorded>>

\* What a successful answer may name.  An honest provider answers from a chain
\* it trails by at most Trail and serves only blocks that exist; an older
\* transaction may be any.  Any other provider may name any slot, or none.
Reports(t) ==
    IF t \notin Honest
    THEN (FirstSlot .. MaxReport) \cup (IF Kind[t] = "accounts" THEN {NoSlot} ELSE {})
    ELSE IF Kind[t] = "txRecent" THEN FirstSlot .. chain
         ELSE {s \in FirstSlot .. chain : chain - s <= Trail}

AnswerSuccess(t) ==
    /\ pc[t] = "sent"
    /\ Kind[t] = "block" /\ t \in Honest => ask[t] <= chain
    /\ \E s \in (IF Kind[t] = "block" THEN {NoSlot} ELSE Reports(t)) :
         ans' = [ans EXCEPT ![t] = s]
    /\ \E off \in {b \in BOOLEAN : b => Kind[t] = "clock" /\ t \notin Honest} :
         clockOff' = [clockOff EXCEPT ![t] = off]
    /\ Goto(t, "answered")
    /\ UNCHANGED <<world, tip, sink, ask, age, scratch, verifier, recorded>>

\* Any failure: record counts the call and touches nothing else.
AnswerFailure(t) ==
    /\ pc[t] = "sent"
    /\ Finish(t)
    /\ UNCHANGED <<world, tip, sink, verifier, recorded>>

\* record: the freshness gate reads the tip as it is when the answer arrives.
Gate(t) ==
    /\ pc[t] = "answered"
    /\ ThreadFree(t)
    /\ IF StaleByLag(fleet, ObservedSlot(t), MaxSlotLag)
       THEN Finish(t) /\ Count(t, "stale")
       ELSE /\ Goto(t, "readNode")
            /\ age' = [age EXCEPT ![t] = 0]
            /\ UNCHANGED <<ask, ans, clockOff, scratch, recorded>>
    /\ UNCHANGED <<world, tip, sink, verifier>>

\* submit, node_lag: first the node tip ...
SubmitReadNode(t) ==
    /\ pc[t] = "readNode"
    /\ seen' = [seen EXCEPT ![t] = nodeTip]
    /\ Goto(t, "readFleet")
    /\ UNCHANGED <<world, tip, sink, answer, caughtUp, flagged, verifier, recorded>>

\* ... then the fleet tip: node_caught_up.
SubmitReadFleet(t) ==
    /\ pc[t] = "readFleet"
    /\ caughtUp' = [caughtUp EXCEPT ![t] = IsCaughtUp(seen[t], fleet)]
    /\ Goto(t, "reread")
    /\ UNCHANGED <<world, tip, sink, answer, seen, flagged, verifier, recorded>>

\* submit reads the node tip a second time to compare the claimed slot; only a
\* payload to verify later, or an implausible answer, is queued.
SubmitCompare(t) ==
    LET bad == SlotImplausible(caughtUp[t], nodeTip, ClaimSlot(t)) \/ clockOff[t] IN
    /\ pc[t] = "reread"
    /\ flagged' = [flagged EXCEPT ![t] = bad]
    /\ Goto(t, IF bad \/ Kind[t] \in Verifiable THEN "push" ELSE "observe")
    /\ UNCHANGED <<world, tip, sink, answer, seen, caughtUp, verifier, recorded>>

\* A claim without a slot settles at the effective tip, or not at all.
SubmitPush(t) ==
    LET slot == IF ClaimSlot(t) # NoSlot THEN ClaimSlot(t)
                ELSE EffectiveTip(nodeTip, fleet) IN
    /\ pc[t] = "push"
    /\ IF slot = NoSlot
       THEN UNCHANGED sink
       ELSE /\ queue' = Push(queue, [id |-> nextId, task |-> t, slot |-> slot,
                                     implausible |-> flagged[t]])
            /\ nextId' = nextId + 1
    /\ Goto(t, "observe")
    /\ UNCHANGED <<world, tip, answer, scratch, verifier, recorded>>

\* The successful answer raises the fleet tip, after its claim was submitted.
ObserveTip(t) ==
    /\ pc[t] = "observe"
    /\ fleet' = IF ObservedSlot(t) = NoSlot THEN fleet
                ELSE Observe(fleet, ObservedSlot(t))
    /\ Finish(t)
    /\ UNCHANGED <<world, nodeTip, sink, verifier, recorded>>

TaskStep(t) ==
    \/ Call(t) \/ AnswerSuccess(t) \/ AnswerFailure(t) \/ Gate(t)
    \/ SubmitReadNode(t) \/ SubmitReadFleet(t) \/ SubmitCompare(t)
    \/ SubmitPush(t) \/ ObserveTip(t)

-----------------------------------------------------------------------------
(* One tick of the verifier: run_verify_tick. *)

\* The node answers the getSlot of this tick, or the call fails.
PollNode ==
    /\ vpc = "sleep"
    /\ polled' \in {node} \cup (IF PollMayFail THEN {NoSlot} ELSE {})
    /\ vpc' = "answered"
    /\ UNCHANGED <<world, tip, sink, pc, answer, scratch, vage, vtip, due, nodeStale, recorded>>

\* set_node_tip: the last poll wins, and ages from the time it arrived.
SetNodeTip ==
    /\ vpc = "answered"
    /\ nodeTip' = IF polled = NoSlot THEN nodeTip
                  ELSE polled
    /\ vpc' = "readTip"
    /\ vage' = 0
    /\ UNCHANGED <<world, fleet, sink, pc, answer, scratch, polled, vtip, due,
                   nodeStale, recorded>>

\* The tick is over: its locals go.
SleepAgain ==
    /\ vpc' = "sleep"
    /\ polled' = NoSlot
    /\ vage' = 0
    /\ vtip' = NoSlot
    /\ nodeStale' = FALSE

ReadTip ==
    /\ vpc = "readTip"
    /\ IF EffectiveTip(nodeTip, fleet) = NoSlot
       THEN SleepAgain
       ELSE /\ vtip' = EffectiveTip(nodeTip, fleet)
            /\ vpc' = "drain"
            /\ UNCHANGED <<polled, vage, nodeStale>>
    /\ UNCHANGED <<world, tip, sink, pc, answer, scratch, due, recorded>>

DrainDue ==
    /\ vpc = "drain"
    /\ due' = {c \in queue : IsDue(c, vtip)}
    /\ queue' = Kept(queue, vtip)
    /\ IF due' = {}
       THEN SleepAgain
       ELSE vpc' = "readStale" /\ UNCHANGED <<polled, vage, vtip, nodeStale>>
    /\ UNCHANGED <<world, tip, nextId, pc, answer, scratch, recorded>>

\* Slip: due claims are judged however far the node is behind.
JudgeRegardless ==
    /\ vpc = "readStale"
    /\ nodeStale' = FALSE
    /\ vpc' = "judge"
    /\ UNCHANGED <<world, tip, sink, pc, answer, scratch, polled, vage, vtip, due, recorded>>

\* node_stale is decided once, after the drain and before the first verdict.
ReadStale ==
    /\ vpc = "readStale"
    /\ nodeStale' = IsNodeStale(nodeTip, fleet)
    /\ vpc' = "judge"
    /\ UNCHANGED <<world, tip, sink, pc, answer, scratch, polled, vage, vtip, due, recorded>>

\* The node's confirmed state: nothing above it is known to judge_claim.
NodeKnows(slot) == slot <= node - ConfirmLag

\* What judge_claim may answer.  The node can always fail to answer.  What it
\* does not know makes a block unavailable and a transaction missing; what it
\* knows confirms an honest answer, except that accounts move and close between
\* the answer and the check.
Judged(c) ==
    {"skipped"} \cup
    CASE Kind[c.task] \notin Verifiable -> {}
      [] Kind[c.task] \in {"tx", "txRecent"} ->
           IF ~NodeKnows(c.slot)
           THEN {"missing"} \cup (IF c.task \in Honest THEN {} ELSE {"mismatch"})
           ELSE IF c.task \in Honest THEN {"match"} ELSE {"match", "mismatch", "missing"}
      [] Kind[c.task] = "hash" ->
           IF ~NodeKnows(c.slot) \/ c.task \in Honest
           THEN {"match"} ELSE {"match", "mismatch", "missing"}
      [] Kind[c.task] = "block" ->
           IF ~NodeKnows(c.slot) THEN {}
           ELSE IF c.task \in Honest THEN {"match"} ELSE {"match", "mismatch"}
      [] Kind[c.task] = "accounts" -> {"match", "drift", "mismatch"}

Verdict(c) ==
    IF c.implausible THEN {"implausible"}
    ELSE IF nodeStale THEN {"skipped"}
    ELSE Judged(c)

\* Claims are judged in order of arrival, each over an await of its own.
Judge ==
    /\ vpc = "judge"
    /\ \E c \in due :
         /\ \A d \in due : c.id <= d.id
         /\ \E r \in Verdict(c) : Count(c.task, r)
         /\ due' = due \ {c}
    /\ IF due' = {} THEN SleepAgain
       ELSE UNCHANGED <<vpc, polled, vage, vtip, nodeStale>>
    /\ UNCHANGED <<world, tip, sink, pc, answer, scratch>>

VerifierStep ==
    PollNode \/ SetNodeTip \/ ReadTip \/ DrainDue \/ ReadStale \/ Judge

-----------------------------------------------------------------------------
Next ==
    \/ Tick
    \/ PollReference
    \/ \E t \in Task : TaskStep(t)
    \/ VerifierStep

Spec == Init /\ [][Next]_vars

\* Liveness: an await ends (AnswerFailure is the request timeout), a thread
\* whose task is ready runs it, time passes, and the node answers infinitely
\* often if it is asked infinitely often.
Fairness ==
    /\ WF_vars(Tick)
    /\ \A t \in Task :
         /\ WF_vars(TaskStep(t) /\ pc[t] # "idle")
         /\ SF_vars(Gate(t))
    /\ WF_vars(VerifierStep)
    /\ SF_vars(PollNode /\ polled' # NoSlot)

FairSpec == Spec /\ Fairness

-----------------------------------------------------------------------------
(* Properties. *)

\* Every variable has its type.
TypeOK ==
    /\ chain \in Slot /\ node \in Slot
    /\ fleet \in Nat
    /\ nodeTip \in MaybeSlot
    /\ queue \in SUBSET Claim /\ nextId \in Nat
    /\ pc \in [Task -> {"idle", "sent", "answered"} \cup Recording]
    /\ ask \in [Task -> MaybeSlot]
    /\ ans \in [Task -> MaybeSlot]
    /\ clockOff \in [Task -> BOOLEAN]
    /\ age \in [Task -> Nat]
    /\ seen \in [Task -> MaybeSlot]
    /\ caughtUp \in [Task -> BOOLEAN]
    /\ flagged \in [Task -> BOOLEAN]
    /\ vpc \in {"sleep", "answered", "readTip", "drain", "readStale", "judge"}
    /\ polled \in MaybeSlot /\ vage \in Nat /\ vtip \in MaybeSlot
    /\ due \in SUBSET Claim
    /\ nodeStale \in BOOLEAN
    /\ recorded \in SUBSET (Task \X (Verdicts \cup {"stale"}))

\* Four reads of two shared tips by four threads decide what is judged (the
\* effective tip before the drain, node_stale after it), yet a claim that is
\* neither implausible nor skipped is never judged before the node's projected
\* tip is within StaleAfter of the claim's slot plus its settling delay.
JudgedIsSettled ==
    vpc = "judge" /\ ~nodeStale /\ nodeTip # NoSlot =>
        \A c \in due : ~c.implausible => c.slot + Delay <= nodeTip + StaleAfter

\* submit flags a slot ahead of the node's projected tip while answers, polls
\* and the projection race: with a node that keeps up, what an honest provider
\* saw on the chain is never recorded as implausible.
HonestNeverImplausible ==
    \A t \in Honest : <<t, "implausible">> \notin recorded

\* A claim drained against the fleet's tip is looked up on a node that may be
\* behind that tip: an honest transaction is never recorded as missing.
HonestNeverMissing ==
    \A t \in Honest : <<t, "missing">> \notin recorded

\* The freshness gate reads the tip when the answer arrives, after other
\* threads raised it: an answer that was fresh when it was formed and took no
\* longer than Flight is never scored stale.
HonestNeverStale ==
    \A t \in Honest : <<t, "stale">> \notin recorded

\* node_stale turns every due verdict into "skipped": it is concluded only when
\* the slot the node reported to this tick trails the chain by more than
\* StaleAfter.
NodeStaleIsTrue ==
    vpc = "judge" /\ nodeStale /\ polled # NoSlot => chain > polled + StaleAfter

\* Between the queue, the drained batch and the counters no claim is lost or
\* judged twice: a claim leaves the sink with a verdict of its own, or as the
\* oldest of a full queue that takes a new one, and never comes back.
ClaimsLeaveOnce ==
    [][ \A c \in queue \cup due :
          /\ c \notin queue' \cup due' =>
               \/ c \in due /\ \E r \in Verdicts : <<c.task, r>> \in recorded'
               \/ /\ c \in queue /\ Cardinality(queue) = Cap
                  /\ \A d \in queue : c.id <= d.id
                  /\ nextId' = nextId + 1
          /\ c \in due => c \notin queue' ]_vars

\* A claim the node is Delay slots past is judged or evicted eventually.
SettledClaimsLeave ==
    \A i \in 0 .. MaxClaims - 1 :
        (\E c \in queue : c.id = i /\ (c.implausible \/ c.slot + Delay <= node))
            ~> (\A c \in queue \cup due : c.id # i)
=============================================================================
