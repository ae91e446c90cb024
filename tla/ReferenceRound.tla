--------------------------- MODULE ReferenceRound ---------------------------
(***************************************************************************)
(* The reference round (spawn_reference_check, run_round): one task asks   *)
(* the reference node how far the chain is final, takes the block that     *)
(* lies a number of slots below as the truth, and then asks one provider   *)
(* after another for that block, each request an await, while the chain    *)
(* goes on and providers fall behind and catch up.                         *)
(*                                                                         *)
(* A blockhash is named by the slot of its block.  The reference node is   *)
(* trusted: it may fail, but what it says is so.                           *)
(***************************************************************************)
EXTENDS ReferenceSlot, FiniteSets, Sequences

CONSTANTS
    Endpoint,  \* the providers, in the order of the configuration
    Excluded,  \* exclude_provider
    Honest,    \* providers that answer from the final chain, or not at all
    Depth,     \* ReferenceCheckConfig.depth
    \* The environment and bounds of the model.
    Skipped,   \* slots without a block
    MaxLag,    \* how far an honest provider falls behind the reference node
    Top        \* the last slot

Provider == {Endpoint[i] : i \in DOMAIN Endpoint}

ASSUME ReferenceRoundAssumption ==
    /\ Endpoint \in Seq(Provider)
    /\ Honest \subseteq Provider
    /\ {Depth, MaxLag, Top} \subseteq Nat
    /\ Skipped \subseteq 0 .. Top

RoundSlots == 0 .. Top
Produced == RoundSlots \ Skipped

VARIABLES
    tip,      \* the reference node's final slot
    height,   \* [Provider -> its final slot]
    serving,  \* whether the reference node answers every request
    phase,    \* where the round stands
    slot,     \* the slot this round is about
    at,       \* the position of the provider that is asked, 0 for none
    recorded, \* [Provider -> what was recorded of it in this round]
    failed    \* providers whose request failed in this round

chain == <<tip, height, serving>>
round == <<phase, slot, at, recorded, failed>>
roundVars == <<chain, round>>

RoundResults == {"none", "match", "mismatch", "missing"}
NoVerdict == [p \in Provider |-> "none"]

\* The positions of the providers to judge: all but the one to leave out.
Judged == {i \in DOMAIN Endpoint : Endpoint[i] # Excluded}

After(i) == {j \in Judged : j > i}

IsFirst(j, positions) == j \in positions /\ \A k \in positions : j <= k

-----------------------------------------------------------------------------
(* The chain. *)

\* The reference node goes on, but no honest provider is left far behind.
Advance ==
    /\ tip < Top
    /\ \A p \in Honest : tip < height[p] + MaxLag
    /\ tip' = tip + 1
    /\ UNCHANGED <<height, serving, round>>

CatchUp(p) ==
    /\ height[p] < Top
    /\ height' = [height EXCEPT ![p] = @ + 1]
    /\ UNCHANGED <<tip, serving, round>>

NodeComesAndGoes ==
    /\ serving' = ~serving
    /\ UNCHANGED <<tip, height, round>>

-----------------------------------------------------------------------------
(* The round. *)

\* The interval is over; the first request is on its way.
Begin ==
    /\ phase = "sleep"
    /\ Judged # {}
    /\ phase' = "slot"
    /\ recorded' = NoVerdict
    /\ failed' = {}
    /\ UNCHANGED <<chain, slot, at>>

\* A request to the node fails, or has no result of use: the round is left.
Abandon ==
    /\ phase' = "sleep"
    /\ at' = 0
    /\ UNCHANGED <<chain, slot, recorded, failed>>

NodeFails ==
    /\ phase \in {"slot", "truth"}
    /\ ~serving
    /\ Abandon

\* Slip: the slot does not run below 0.
BelowSaturated(t) == IF t < Depth THEN 0 ELSE t - Depth

\* tip.checked_sub(depth)
Below(t) == IF t < Depth THEN NoSlot ELSE t - Depth

\* finalized_slot answers.
FinalizedSlot ==
    /\ phase = "slot"
    /\ Below(tip) # NoSlot
    /\ slot' = Below(tip)
    /\ phase' = "truth"
    /\ UNCHANGED <<chain, at, recorded, failed>>

TooShallow ==
    /\ phase = "slot"
    /\ Below(tip) = NoSlot
    /\ Abandon

\* block_hash of the reference node.
Truth ==
    /\ phase = "truth"
    /\ slot \in Produced
    /\ phase' = "ask"
    /\ \E first \in Judged : IsFirst(first, Judged) /\ at' = first
    /\ UNCHANGED <<chain, slot, recorded, failed>>

NoTruth ==
    /\ phase = "truth"
    /\ slot \notin Produced
    /\ Abandon

\* classify: the truth is the hash of the round's slot.
Classify(hash) ==
    IF hash = NoSlot THEN "missing" ELSE IF hash = slot THEN "match" ELSE "mismatch"

\* Slip: without maxSupportedTransactionVersion a block that holds versioned
\* transactions is refused.
AnswersUnversioned(p) ==
    IF p \in Honest THEN {NoSlot} ELSE RoundSlots \cup {NoSlot}

\* What a provider's getBlock may return.
Answers(p) ==
    IF p \in Honest
    THEN {IF slot \in Produced /\ slot <= height[p] THEN slot ELSE NoSlot}
    ELSE RoundSlots \cup {NoSlot}

\* One provider after the other; after the last the task sleeps.
Judge(p, result) ==
    /\ recorded' = [recorded EXCEPT ![p] = result]
    /\ IF After(at) = {} THEN phase' = "sleep" /\ at' = 0
       ELSE /\ phase' = "ask"
            /\ \E next \in After(at) : IsFirst(next, After(at)) /\ at' = next
    /\ UNCHANGED <<chain, slot>>

Answered ==
    /\ phase = "ask"
    /\ \E hash \in Answers(Endpoint[at]) : Judge(Endpoint[at], Classify(hash))
    /\ UNCHANGED failed

\* Slip: a request that fails ends the round.
UnansweredEnds ==
    /\ phase = "ask"
    /\ Abandon

\* Slip: no answer is taken for a wrong one.
UnansweredIsMismatch ==
    /\ phase = "ask"
    /\ Judge(Endpoint[at], "mismatch")
    /\ failed' = failed \cup {Endpoint[at]}

\* A timeout, an HTTP status, an error: raw_call does not tell them apart.
Unanswered ==
    /\ phase = "ask"
    /\ Judge(Endpoint[at], Classify(NoSlot))
    /\ failed' = failed \cup {Endpoint[at]}

-----------------------------------------------------------------------------
RoundInit ==
    /\ tip = 0
    /\ height \in [Provider -> RoundSlots]
    /\ serving \in BOOLEAN
    /\ phase = "sleep" /\ slot = 0 /\ at = 0
    /\ recorded = NoVerdict /\ failed = {}

RoundStep ==
    \/ Begin \/ NodeFails \/ FinalizedSlot \/ TooShallow \/ Truth \/ NoTruth
    \/ Answered \/ Unanswered

RoundNext ==
    \/ RoundStep
    \/ Advance \/ NodeComesAndGoes
    \/ \E p \in Provider : CatchUp(p)

RoundSpec == RoundInit /\ [][RoundNext]_roundVars

\* Every request is answered or times out, the task sleeps for a while only, and
\* the chain goes on.
RoundFairness ==
    /\ WF_roundVars(RoundStep) /\ WF_roundVars(Advance)
    /\ \A p \in Honest : WF_roundVars(CatchUp(p))

RoundFairSpec == RoundSpec /\ RoundFairness

-----------------------------------------------------------------------------
(* Properties. *)

\* Every variable has its type; an honest provider is not far behind.
RoundTypeOK ==
    /\ tip \in RoundSlots
    /\ height \in [Provider -> RoundSlots]
    /\ \A p \in Honest : tip <= height[p] + MaxLag
    /\ serving \in BOOLEAN
    /\ phase \in {"sleep", "slot", "truth", "ask"}
    /\ slot \in RoundSlots
    /\ at \in Judged \cup {0}
    /\ recorded \in [Provider -> RoundResults]
    /\ failed \subseteq Provider

\* However far the chain has gone since the round began and however late an
\* honest provider is asked, it is never accused.
HonestNeverMismatch ==
    \A p \in Honest : recorded[p] # "mismatch"

\* If no honest provider falls further behind than the round looks back, it lacks
\* the block only if its request failed: a skipped slot, a chain younger than the
\* depth or a provider that lags is no fault.
HonestNeverMissing ==
    MaxLag <= Depth =>
        \A p \in Honest : recorded[p] = "missing" => p \in failed

\* Verdicts are about a slot that has a block and lies Depth below what is final.
JudgedIsFinal ==
    \A p \in Provider :
        recorded[p] # "none" => slot \in Produced /\ slot + Depth <= tip

\* While the node serves, every provider but the excluded one is judged again and
\* again, whatever the ones asked before it do.
EachIsJudged ==
    \A p \in Provider \ {Excluded} :
        <>[]serving => []<>(recorded[p] # "none")

\* Whatever a provider is recorded to be, it deserves: an honest one is not accused,
\* and what everyone is asked for is final.
VerdictsDeserved == HonestNeverMismatch /\ HonestNeverMissing /\ JudgedIsFinal
=============================================================================
