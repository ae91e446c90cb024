------------------------------- MODULE Judge -------------------------------
(***************************************************************************)
(* How the verifier reaches a verdict about a settled claim (judge_claim): *)
(* one request to the reference node after another, each an await, while   *)
(* the chain grows, accounts move and the node fails now and then.         *)
(*                                                                         *)
(* Two caches outlive a request.  The node's answers about blocks are kept *)
(* for the claims of one tick, its failures included; its account count of *)
(* a target is kept for GPA_COUNT_TTL, over many ticks.                    *)
(*                                                                         *)
(* A blockhash is named by the slot of its block and a signature by the    *)
(* slot of its transaction, NoSlot when the provider made it up.  The      *)
(* claims come from the sink; how they get there and settle is the         *)
(* business of ClaimPipeline, and which claims a tick has drained is       *)
(* decided here as they come up.                                           *)
(***************************************************************************)
EXTENDS ReferenceSlot, FiniteSets

CONSTANTS
    Window,     \* LATEST_BLOCKHASH_WINDOW
    Tolerance,  \* claim_count_tolerance
    CountTTL,   \* GPA_COUNT_TTL, in the time a target's set gains or loses one
    Settling,   \* the same time at most passes between an answer and its verdict
    Configs,    \* which kinds of checks may be configured together
    \* Bounds of the model.
    TopSlot,    \* the highest slot
    MaxLive,    \* accounts a target may have
    MaxDue      \* claims a tick may drain

BlockKinds == {"exact", "window"}
Kinds == BlockKinds \cup {"tx", "accounts"}

ASSUME JudgeAssumption ==
    /\ {Window, Tolerance, CountTTL, Settling, TopSlot, MaxLive} \subseteq Nat
    /\ MaxDue \in Nat \ {0}
    /\ Configs \subseteq SUBSET Kinds

Slots == 0 .. TopSlot

\* What a provider claims lies in a slot, and where it really lies.
Claim == [kind : Kinds, slot : Slots, of : Slots \cup {NoSlot}]

NoJob == [kind |-> "tx", slot |-> 0, of |-> NoSlot]

\* A claim about the accounts of a target: the number of them, and what became
\* of the sampled ones by now ("empty": the claim carries no sample).
Fates == {"same", "moved", "closed", "empty"}
Scan == [count : 0 .. MaxLive, honest : BOOLEAN, fate : Fates, age : Nat]
NoScan == [count |-> 0, honest |-> FALSE, fate |-> "empty", age |-> 0]

\* NodeBlock, and "unknown" for a slot that is not in the cache.
Blocks == {"unknown", "hash", "skipped", "unavailable"}

Results == {"none", "match", "drift", "mismatch", "missing", "skipped"}

NoCount == -1

VARIABLES
    enabled,    \* the kinds of checks that are configured
    produced,   \* the slots that have a block
    confirmed,  \* how far the node's confirmed state has come
    live,       \* the accounts of the target
    scan,       \* an accounts claim between its answer and its verdict
    pc,         \* where the verifier stands
    left,       \* how many more claims this tick may judge
    job,        \* the claim being judged
    verdict,    \* its result, "none" while it is being judged
    cursor,     \* judge_window_block: the slot to ask for
    sawBlock, sawUnavailable,
    blocks,     \* the tick's cache: [Slots -> Blocks]
    cached,     \* gpa_counts: the node's count, NoCount when there is none
    countAge    \* the time since it was fetched, CountTTL once that long

chainVars == <<enabled, produced, confirmed, live>>
walk == <<cursor, sawBlock, sawUnavailable>>
counts == <<cached, countAge>>
vars == <<chainVars, scan, pc, left, job, verdict, walk, blocks, counts>>

NothingAsked == [s \in Slots |-> "unknown"]

-----------------------------------------------------------------------------
(* The chain and the providers. *)

\* The block a node at slot s calls the latest.
IsLatest(h, s) ==
    h \in produced /\ h <= s /\ \A g \in produced : g <= s => g <= h

\* What an honest provider claims: the block of the slot, the latest block
\* (unless the chain skipped more than Window slots in a row), the transaction
\* where it is.
IsHonest(c) ==
    CASE c.kind = "exact"  -> c.of = c.slot /\ c.slot \in produced
      [] c.kind = "window" -> IsLatest(c.of, c.slot) /\ c.of + Window >= c.slot
      [] c.kind = "tx"     -> c.of = c.slot
      [] OTHER -> FALSE

\* A scan is answered: an honest one counts the accounts there are and samples
\* some of them.
ScanAnswered ==
    /\ "accounts" \in enabled
    /\ scan = NoScan
    /\ \E n \in 0 .. MaxLive, h \in BOOLEAN, f \in Fates :
         /\ h => n = live /\ n > 0 /\ f = "same"
         /\ scan' = [count |-> n, honest |-> h, fate |-> f, age |-> 0]
    /\ UNCHANGED <<chainVars, pc, left, job, verdict, walk, blocks, counts>>

\* A sampled account may move, or be closed for good.
Fate(f) ==
    IF f = "same" THEN {"same", "moved", "closed"}
    ELSE IF f = "moved" THEN {"moved", "closed"} ELSE {f}

\* Time passes while the verifier waits for the node or sleeps.
Tick ==
    /\ scan = NoScan \/ scan.age < Settling
    /\ confirmed' \in {confirmed, confirmed + 1} \cap Slots
    /\ live' \in (IF "accounts" \in enabled THEN {live - 1, live, live + 1} ELSE {live})
    /\ live' \in 0 .. MaxLive
    /\ countAge' = IF cached # NoCount /\ countAge < CountTTL THEN countAge + 1 ELSE countAge
    /\ IF scan = NoScan THEN UNCHANGED scan
       ELSE \E f \in Fate(scan.fate) :
              scan' = [scan EXCEPT !.fate = f, !.age = @ + 1]
    /\ UNCHANGED <<enabled, produced, pc, left, job, verdict, walk, blocks, cached>>

-----------------------------------------------------------------------------
(* One tick of the verifier, from the drained claims on. *)

BeginTick ==
    /\ pc = "sleep"
    /\ left' = MaxDue
    /\ blocks' = NothingAsked
    /\ pc' = "next"
    /\ UNCHANGED <<chainVars, scan, job, verdict, walk, counts>>

\* What the claim judged last has left behind.
Forgotten == IF job.kind = "accounts" THEN NoScan ELSE scan

\* judge_claim: the next claim of the tick, and the judge of its kind.
TakeClaim ==
    /\ pc = "next"
    /\ left > 0
    /\ \E c \in Claim :
         /\ c.kind \in enabled
         /\ c.kind = "accounts" => Forgotten # NoScan /\ c.slot = 0 /\ c.of = NoSlot
         /\ job' = c
         /\ cursor' = IF c.kind \in BlockKinds THEN c.slot ELSE 0
         /\ pc' = c.kind
    /\ scan' = Forgotten
    /\ left' = left - 1
    /\ verdict' = "none"
    /\ UNCHANGED <<chainVars, sawBlock, sawUnavailable, blocks, counts>>

\* No claim of the tick is left: it may have drained fewer than MaxDue.
EndTick ==
    /\ pc = "next"
    /\ pc' = "sleep"
    /\ left' = 0
    /\ scan' = Forgotten
    /\ job' = NoJob /\ verdict' = "none"
    /\ UNCHANGED <<chainVars, walk, blocks, counts>>

\* The verdict is counted, and the judge's locals go.
Conclude(r) ==
    /\ verdict' = r
    /\ pc' = "next"
    /\ cursor' = 0
    /\ sawBlock' = FALSE
    /\ sawUnavailable' = FALSE

-----------------------------------------------------------------------------
(* Blocks. *)

\* The node knows its confirmed state, and can always fail to answer.
NodeAnswers(s) ==
    {"unavailable"} \cup
    (IF s > confirmed THEN {} ELSE IF s \in produced THEN {"hash"} ELSE {"skipped"})

\* node_block: whatever was answered once holds for the tick, a failure too.
NodeBlock(s, b) ==
    /\ b \in (IF blocks[s] = "unknown" THEN NodeAnswers(s) ELSE {blocks[s]})
    /\ blocks' = [blocks EXCEPT ![s] = b]

\* Slip: a block the node cannot give speaks against the provider.
UnavailableAccuses(b, s, h) == IF b = "hash" /\ s = h THEN "match" ELSE "mismatch"

ExactVerdict(b, s, h) ==
    IF b = "hash" /\ s = h THEN "match"
    ELSE IF b = "unavailable" THEN "skipped" ELSE "mismatch"

\* Slip: the node is asked until it answers.
JudgeExactRetrying ==
    /\ pc = "exact"
    /\ \E b \in Blocks :
         /\ NodeBlock(job.slot, b)
         /\ b # "unavailable"
         /\ Conclude(ExactVerdict(b, job.slot, job.of))
    /\ UNCHANGED <<chainVars, scan, left, job, counts>>

JudgeExact ==
    /\ pc = "exact"
    /\ \E b \in Blocks :
         /\ NodeBlock(job.slot, b)
         /\ Conclude(ExactVerdict(b, job.slot, job.of))
    /\ UNCHANGED <<chainVars, scan, left, job, counts>>

WindowFloor(s) == SatSub(s, Window)

\* Slip: a block that was seen settles it, unavailable ones or not.
SeenBlockDecides(saw, gap) ==
    IF saw THEN "mismatch" ELSE IF gap THEN "skipped" ELSE "missing"

WindowVerdict(saw, gap) ==
    IF gap THEN "skipped" ELSE IF saw THEN "mismatch" ELSE "missing"

\* judge_window_block, one turn of its loop: the cursor goes down from the
\* claimed slot until the hash is found or the floor has been asked for.
JudgeWindow ==
    /\ pc = "window"
    /\ \E b \in Blocks :
         LET saw == sawBlock \/ b = "hash"
             gap == sawUnavailable \/ b = "unavailable"
         IN  /\ NodeBlock(cursor, b)
             /\ IF b = "hash" /\ cursor = job.of THEN Conclude("match")
                ELSE IF cursor = WindowFloor(job.slot)
                THEN Conclude(WindowVerdict(saw, gap))
                ELSE /\ cursor' = cursor - 1
                     /\ sawBlock' = saw
                     /\ sawUnavailable' = gap
                     /\ UNCHANGED <<verdict, pc>>
    /\ UNCHANGED <<chainVars, scan, left, job, counts>>

-----------------------------------------------------------------------------
(* Transactions. *)

\* What the node may say of the signature: no answer, unknown, or its slot.
TxAnswers(c) ==
    {"skipped"} \cup
    (IF c.of = NoSlot \/ c.of > confirmed THEN {"missing"}
     ELSE IF c.of = c.slot THEN {"match"} ELSE {"mismatch"})

JudgeTx ==
    /\ pc = "tx"
    /\ \E r \in TxAnswers(job) : Conclude(r)
    /\ UNCHANGED <<chainVars, scan, left, job, blocks, counts>>

-----------------------------------------------------------------------------
(* Accounts. *)

\* Slip: a count, once fetched, is never fetched again.
CountKept == cached # NoCount

CountFresh == cached # NoCount /\ countAge < CountTTL

\* cached_gpa_count: the cached count, or a fetched one, or none; an expired
\* count stays in the cache until a fetch succeeds.
NodeCount(n) ==
    \/ CountFresh /\ n = cached /\ UNCHANGED counts
    \/ ~CountFresh /\ n = live /\ cached' = live /\ countAge' = 0
    \/ ~CountFresh /\ n = NoCount /\ UNCHANGED counts

TooFar(a, b) == SatSub(a, b) > Tolerance \/ SatSub(b, a) > Tolerance

\* judge_accounts, up to its request for the sampled accounts.
JudgeCount ==
    /\ pc = "accounts"
    /\ \E n \in {NoCount} \cup (0 .. MaxLive) :
         /\ NodeCount(n)
         /\ IF n # NoCount /\ TooFar(scan.count, n) THEN Conclude("mismatch")
            ELSE IF scan.fate = "empty" THEN Conclude("skipped")
            ELSE pc' = "sample" /\ UNCHANGED <<verdict, walk>>
    /\ UNCHANGED <<chainVars, scan, left, job, blocks>>

\* A sampled account that is gone, or does not match the target, is a mismatch;
\* one with other data is drift.
SampleVerdict(f) ==
    IF f = "closed" THEN "mismatch" ELSE IF f = "moved" THEN "drift" ELSE "match"

JudgeSample ==
    /\ pc = "sample"
    /\ Conclude("skipped") \/ Conclude(SampleVerdict(scan.fate))
    /\ UNCHANGED <<chainVars, scan, left, job, blocks, counts>>

-----------------------------------------------------------------------------
Init ==
    /\ enabled \in Configs
    /\ produced \in SUBSET Slots
    /\ confirmed \in Slots
    /\ live \in 0 .. MaxLive
    /\ scan = NoScan
    /\ pc = "sleep" /\ left = 0
    /\ job = NoJob /\ verdict = "none"
    /\ cursor = 0 /\ sawBlock = FALSE /\ sawUnavailable = FALSE
    /\ blocks = NothingAsked
    /\ cached = NoCount /\ countAge = 0

VerifierStep ==
    \/ BeginTick \/ TakeClaim \/ EndTick
    \/ JudgeExact \/ JudgeWindow \/ JudgeTx \/ JudgeCount \/ JudgeSample

Next == ScanAnswered \/ Tick \/ VerifierStep

Spec == Init /\ [][Next]_vars

\* Every request ends, in a timeout if need be.
FairSpec == Spec /\ WF_vars(VerifierStep)

-----------------------------------------------------------------------------
(* Properties. *)

\* Every variable has its type; the cursor does not underflow at slot 0.
TypeOK ==
    /\ enabled \in Configs
    /\ produced \in SUBSET Slots /\ confirmed \in Slots /\ live \in 0 .. MaxLive
    /\ scan \in Scan
    /\ pc \in {"sleep", "next", "sample"} \cup Kinds
    /\ left \in 0 .. MaxDue
    /\ job \in Claim /\ verdict \in Results
    /\ cursor \in Slots /\ {sawBlock, sawUnavailable} \subseteq BOOLEAN
    /\ blocks \in [Slots -> Blocks]
    /\ cached \in {NoCount} \cup (0 .. MaxLive) /\ countAge \in 0 .. CountTTL

\* The content of a block claim lies where the claim says.
Supported(c) ==
    /\ c.of \in produced
    /\ c.of <= c.slot
    /\ c.of >= IF c.kind = "exact" THEN c.slot ELSE SatSub(c.slot, Window)

\* Over several requests, some of them failed and some answered from the cache
\* of an earlier claim, a block claim is accused only if no block of its window
\* has the hash, and is confirmed only if one has.
BlockVerdictsTrue ==
    job.kind \in BlockKinds =>
        /\ verdict \in {"mismatch", "missing"} => ~Supported(job)
        /\ verdict = "match" => Supported(job)

\* The verdicts ClaimPipeline takes judge_claim to give in one step, as the
\* node is when the last of its answers arrives.
Promised(c) ==
    {"skipped"} \cup
    CASE c.kind = "tx" ->
           IF c.slot > confirmed
           THEN {"missing"} \cup (IF IsHonest(c) THEN {} ELSE {"mismatch"})
           ELSE IF IsHonest(c) THEN {"match"} ELSE {"match", "mismatch", "missing"}
      [] c.kind = "window" ->
           IF c.slot > confirmed \/ IsHonest(c)
           THEN {"match"} ELSE {"match", "mismatch", "missing"}
      [] c.kind = "exact" ->
           IF c.slot > confirmed THEN {}
           ELSE IF IsHonest(c) THEN {"match"} ELSE {"match", "mismatch"}
      [] c.kind = "accounts" -> {"match", "drift", "mismatch"}

\* A judgement that takes many requests against a moving node gives no verdict
\* that ClaimPipeline's one-step judge_claim does not.
JudgesAsPromised ==
    [][verdict' # verdict /\ verdict' # "none" => verdict' \in Promised(job)]_vars

\* A count of another moment, fetched now or up to CountTTL ago, is held
\* against the claim: as long as the set changes by no more than the tolerance
\* in that time, an honest claim is a mismatch only if a sampled account is gone.
HonestCountsTolerated ==
    job.kind = "accounts" /\ scan.honest /\ verdict = "mismatch" =>
        scan.fate = "closed"

\* However the node fails, every judgement ends, and with it the tick.
TickEnds == pc # "sleep" ~> pc = "sleep"
=============================================================================
