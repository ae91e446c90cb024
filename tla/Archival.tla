------------------------------ MODULE Archival ------------------------------
(***************************************************************************)
(* The archival round (run_archival_round) and the anchored               *)
(* getSignaturesForAddress probe that uses its result.                     *)
(*                                                                         *)
(* One task runs the rounds.  It picks an unused deep slot, asks every     *)
(* provider for that block, takes the most voted blockhash as the truth,   *)
(* asks every provider for a transaction of that block, and publishes the  *)
(* (slot, signature) pair as the anchor when enough providers place the    *)
(* signature in that slot.  Answers join in any order.  Meanwhile the      *)
(* providers' own check tasks read the anchor and page history before it.  *)
(*                                                                         *)
(* A blockhash is named by the slot of its block, and a signature by its   *)
(* slot and its place among the block's non-vote transactions: what the    *)
(* round tells apart is whether two answers name the same thing.           *)
(***************************************************************************)
EXTENDS ReferenceSlot, FiniteSets, Sequences

CONSTANTS
    Provider,
    Honest,      \* providers that answer from the chain, or not at all
    Skipped,     \* slots without a block
    VotesOnly,   \* slots whose block holds vote transactions only
    Floor,       \* ARCHIVAL_FLOOR
    MinDepth,    \* ARCHIVAL_MIN_DEPTH
    Quorum,      \* ARCHIVAL_MIN_QUORUM
    UsedCap,     \* ARCHIVAL_USED_CAP
    AnchorMin,   \* GSFA_ANCHOR_MIN_SLOT
    MaxTip,      \* bound: the tip stops here
    MaxRounds    \* bound: rounds that are run

ASSUME ArchivalAssumption ==
    /\ Honest \subseteq Provider /\ IsFiniteSet(Provider)
    /\ Skipped \subseteq Slot /\ VotesOnly \subseteq Slot
    /\ {Floor, MinDepth, AnchorMin, MaxTip, MaxRounds} \subseteq Nat
    /\ Floor > 0
    /\ Quorum \in Nat /\ Quorum >= 2
    /\ UsedCap \in Nat \ {0}

Sig == [slot : Slot, nth : {1, 2}]
NoSig == [slot |-> 0, nth |-> 0]

Anchor == [slot : Slot, sig : Sig]
NoAnchor == [slot |-> 0, sig |-> NoSig]

\* A provider's block answer; hash is NoSlot when it returned no block.
Observation == [provider : Provider, hash : MaybeSlot, sig : Sig \cup {NoSig}]

VARIABLES
    tip,          \* the fleet tip, as reference.current() reads it
    phase,        \* where the round stands
    slot,         \* the slot of this round
    waiting,      \* providers whose answer has not joined yet
    observed,     \* block answers in the order they joined
    sig,          \* truth_sig
    blockVerdict, \* [Provider -> the round's getBlock_archival verdict]
    txVerdict,    \* [Provider -> the round's getTransaction_archival verdict]
    used, order,  \* UsedSlots: the set and the queue that ages it
    asked,        \* every slot asked so far, in order
    anchor,       \* ArchivalAnchor
    rotation,     \* [Provider -> parity of its getSignaturesForAddress cycle]
    usedAnchor,   \* [Provider -> signature it last paged before]
    page,         \* [Provider -> anchor of the page it is asked for]
    rejected      \* providers with an anchored page scored empty

round  == <<phase, slot, waiting, observed, sig, blockVerdict, txVerdict>>
slots  == <<used, order, asked>>
paging == <<rotation, usedAnchor, page, rejected>>
vars   == <<tip, round, slots, anchor, paging>>

\* "none" stands for: this round recorded no verdict for the provider.
Verdicts == {"none", "match", "mismatch", "skipped"}
NoVerdict == [p \in Provider |-> "none"]

-----------------------------------------------------------------------------
(* Picking a slot. *)

\* Slip: the queue forgets a slot but it is the newest.
InsertForgetNewest(s) ==
    IF Len(order) + 1 > UsedCap
    THEN order' = order /\ used' = used
    ELSE order' = Append(order, s) /\ used' = used \cup {s}

\* UsedSlots::insert of a slot that is not in the set: the oldest is forgotten
\* once the queue holds more than UsedCap.
Insert(s) ==
    LET grown == Append(order, s) IN
    IF Len(grown) > UsedCap
    THEN order' = Tail(grown) /\ used' = (used \cup {s}) \ {Head(grown)}
    ELSE order' = grown /\ used' = used \cup {s}

\* The chain is not MinDepth deep past the floor: the round is not run.
Deep == Current(tip) # NoSlot /\ tip >= MinDepth /\ tip - MinDepth > Floor

\* pick_unused_slot draws at random and gives up after a number of tries, which
\* leaves the round out; what it does return was not in the set.
PickSlot ==
    /\ phase = "idle"
    /\ Deep
    /\ Len(asked) < MaxRounds
    /\ \E s \in Floor .. (tip - MinDepth) :
         /\ s \notin used
         /\ Insert(s)
         /\ slot' = s
         /\ asked' = Append(asked, s)
    /\ phase' = "blocks"
    /\ waiting' = Provider
    /\ observed' = <<>>
    /\ sig' = NoSig
    /\ blockVerdict' = NoVerdict
    /\ txVerdict' = NoVerdict
    /\ UNCHANGED <<tip, anchor, paging>>

-----------------------------------------------------------------------------
(* The truth of a round. *)

Votes(h) == {i \in DOMAIN observed : observed[i].hash = h}

Hashes == {observed[i].hash : i \in DOMAIN observed} \ {NoSlot}

\* max_by_key over a HashMap: of the most voted hashes any can come last.
MostVoted ==
    {h \in Hashes : \A g \in Hashes : Cardinality(Votes(g)) <= Cardinality(Votes(h))}

\* Slip: the quorum is not required, the most voted hash is the truth.
PluralityTruths == MostVoted

\* majority_block: empty when no hash has a quorum.
Truths == {h \in MostVoted : Cardinality(Votes(h)) >= Quorum}

\* The signature comes from the first answer that carries the winning hash,
\* and from that answer alone.
First(h) == {i \in Votes(h) : \A j \in Votes(h) : i <= j}

BlockVerdict(h, truth) ==
    IF h = NoSlot THEN "skipped" ELSE IF h = truth THEN "match" ELSE "mismatch"

-----------------------------------------------------------------------------
(* What providers answer.  Any of them may have no answer: it does not      *)
(* retain the slot, or the call fails.                                      *)

HonestSig(s) == IF s \in VotesOnly THEN NoSig ELSE [slot |-> s, nth |-> 1]

BlockAnswers(p) ==
    [hash : {NoSlot}, sig : {NoSig}] \cup
    (IF p \notin Honest THEN [hash : 1 .. MaxTip, sig : [slot : 1 .. MaxTip, nth : {1, 2}]]
     ELSE IF slot \in Skipped THEN {}
     ELSE {[hash |-> slot, sig |-> HonestSig(slot)]})

\* The slot a provider places a signature in; an honest provider knows only
\* signatures that are on the chain.
OnChain(g) == g.slot \notin Skipped /\ g.slot \notin VotesOnly

TxAnswers(p, g) ==
    {NoSlot} \cup
    (IF p \notin Honest THEN 1 .. MaxTip ELSE IF OnChain(g) THEN {g.slot} ELSE {})

\* block_set.join_next: one more answer; a task that died joins without one.
JoinBlock(p) ==
    /\ phase = "blocks"
    /\ p \in waiting
    /\ waiting' = waiting \ {p}
    /\ \/ \E a \in BlockAnswers(p) :
            observed' = Append(observed, [provider |-> p, hash |-> a.hash, sig |-> a.sig])
       \/ UNCHANGED observed
    /\ UNCHANGED <<tip, phase, slot, sig, blockVerdict, txVerdict, slots, anchor, paging>>

\* Slip: the round waits until every provider has answered.
AllAnswered == Len(observed) = Cardinality(Provider)

BlocksJoined == waiting = {}

\* Every task joined: without a majority the round ends and records nothing.
JudgeBlocks ==
    /\ phase = "blocks"
    /\ BlocksJoined
    /\ \/ /\ Truths = {}
          /\ phase' = "idle"
          /\ UNCHANGED <<waiting, sig, blockVerdict>>
       \/ \E truth \in Truths :
            /\ blockVerdict' =
                 [p \in Provider |->
                    IF \E i \in DOMAIN observed : observed[i].provider = p
                    THEN LET i == CHOOSE j \in DOMAIN observed : observed[j].provider = p
                         IN  BlockVerdict(observed[i].hash, truth)
                    ELSE "none"]
            /\ \E i \in First(truth) : sig' = observed[i].sig
            /\ IF sig' = NoSig
               THEN phase' = "idle" /\ UNCHANGED waiting
               ELSE phase' = "txs" /\ waiting' = Provider
    /\ UNCHANGED <<tip, slot, observed, txVerdict, slots, anchor, paging>>

\* tx_set.join_next: the answer is judged as it joins.
JoinTx(p) ==
    /\ phase = "txs"
    /\ p \in waiting
    /\ waiting' = waiting \ {p}
    /\ \/ \E s \in TxAnswers(p, sig) :
            txVerdict' = [txVerdict EXCEPT ![p] = BlockVerdict(s, slot)]
       \/ UNCHANGED txVerdict
    /\ UNCHANGED <<tip, phase, slot, observed, sig, blockVerdict, slots, anchor, paging>>

Confirmations == {p \in Provider : txVerdict[p] = "match"}

\* Slip: one confirmation, perhaps of the provider the signature came from,
\* makes it the anchor.
PublishUnconfirmed ==
    /\ phase = "txs"
    /\ waiting = {}
    /\ anchor' = IF Confirmations # {} THEN [slot |-> slot, sig |-> sig] ELSE anchor
    /\ phase' = "idle"
    /\ UNCHANGED <<tip, slot, waiting, observed, sig, blockVerdict, txVerdict, slots, paging>>

PublishAnchor ==
    /\ phase = "txs"
    /\ waiting = {}
    /\ anchor' = IF Cardinality(Confirmations) >= Quorum
                 THEN [slot |-> slot, sig |-> sig] ELSE anchor
    /\ phase' = "idle"
    /\ UNCHANGED <<tip, slot, waiting, observed, sig, blockVerdict, txVerdict, slots, paging>>

-----------------------------------------------------------------------------
(* getSignaturesForAddress: every other cycle pages before the anchor,      *)
(* unless it is the anchor the task paged before last.                      *)

UsableAnchor(p) ==
    /\ rotation[p] = 1
    /\ anchor # NoAnchor
    /\ anchor.slot >= AnchorMin
    /\ usedAnchor[p] # anchor.sig

\* The request is built: the anchor is remembered as used, answered or not.
AskPage(p) ==
    /\ page[p] = NoAnchor
    /\ rotation' = [rotation EXCEPT ![p] = 1 - @]
    /\ IF UsableAnchor(p)
       THEN /\ page' = [page EXCEPT ![p] = anchor]
            /\ usedAnchor' = [usedAnchor EXCEPT ![p] = anchor.sig]
       ELSE UNCHANGED <<page, usedAnchor>>
    /\ UNCHANGED <<tip, round, slots, anchor, rejected>>

\* The newest slot an honest page before g can hold: transactions of g's own
\* block come before g unless g is the first.
NewestBefore(g) == IF g.nth = 1 THEN g.slot - 1 ELSE g.slot

\* The newest slot in a page that p may answer with.
NewestOfPage(p) ==
    IF p \in Honest /\ OnChain(page[p].sig) THEN {NewestBefore(page[p].sig)} ELSE 0 .. MaxTip

\* Slip: the page is held against the anchor there is when it arrives.
PageAgainstCurrent(p) ==
    /\ page[p] # NoAnchor
    /\ page' = [page EXCEPT ![p] = NoAnchor]
    /\ \E newest \in NewestOfPage(p) :
         rejected' = IF newest < anchor.slot THEN rejected ELSE rejected \cup {p}
    /\ UNCHANGED <<tip, round, slots, anchor, rotation, usedAnchor>>

\* is_valid_result: every slot of the page is below the anchor's.
PageAnswered(p) ==
    /\ page[p] # NoAnchor
    /\ page' = [page EXCEPT ![p] = NoAnchor]
    /\ \E newest \in NewestOfPage(p) :
         rejected' = IF newest < page[p].slot THEN rejected ELSE rejected \cup {p}
    /\ UNCHANGED <<tip, round, slots, anchor, rotation, usedAnchor>>

\* The call failed for a reason of its own: the page is gone.
PageLost(p) ==
    /\ page[p] # NoAnchor
    /\ page' = [page EXCEPT ![p] = NoAnchor]
    /\ UNCHANGED <<tip, round, slots, anchor, rotation, usedAnchor, rejected>>

\* The fleet tip rises.
TipRises ==
    /\ tip < MaxTip
    /\ tip' = tip + 1
    /\ UNCHANGED <<round, slots, anchor, paging>>

Init ==
    /\ tip = 0
    /\ phase = "idle" /\ slot = 0 /\ waiting = {} /\ observed = <<>> /\ sig = NoSig
    /\ blockVerdict = NoVerdict /\ txVerdict = NoVerdict
    /\ used = {} /\ order = <<>> /\ asked = <<>>
    /\ anchor = NoAnchor
    /\ rotation = [p \in Provider |-> 0]
    /\ usedAnchor = [p \in Provider |-> NoSig]
    /\ page = [p \in Provider |-> NoAnchor]
    /\ rejected = {}

Next ==
    \/ TipRises
    \/ PickSlot \/ JudgeBlocks \/ PublishAnchor
    \/ \E p \in Provider :
         JoinBlock(p) \/ JoinTx(p) \/ AskPage(p) \/ PageAnswered(p) \/ PageLost(p)

Spec == Init /\ [][Next]_vars

\* Every task joins: the archival client's timeout bounds each call.
Fairness ==
    /\ WF_vars(JudgeBlocks) /\ WF_vars(PublishAnchor)
    /\ \A p \in Provider : WF_vars(JoinBlock(p)) /\ WF_vars(JoinTx(p))

FairSpec == Spec /\ Fairness

-----------------------------------------------------------------------------
(* Properties. *)

\* Every variable has its type, and the queue of used slots its limit.
TypeOK ==
    /\ tip \in Nat
    /\ phase \in {"idle", "blocks", "txs"}
    /\ slot \in Slot
    /\ waiting \in SUBSET Provider
    /\ observed \in Seq(Observation)
    /\ sig \in Sig \cup {NoSig}
    /\ blockVerdict \in [Provider -> Verdicts]
    /\ txVerdict \in [Provider -> Verdicts]
    /\ used \in SUBSET Slot /\ order \in Seq(Slot) /\ asked \in Seq(Slot)
    /\ Len(order) <= UsedCap
    /\ anchor \in Anchor \cup {NoAnchor}
    /\ rotation \in [Provider -> {0, 1}]
    /\ usedAnchor \in [Provider -> Sig \cup {NoSig}]
    /\ page \in [Provider -> Anchor \cup {NoAnchor}]
    /\ rejected \in SUBSET Provider

\* The vote among the graded providers defines the truth they are graded
\* against: an honest provider is never a mismatch on a block.
HonestBlockNeverMismatch ==
    \A p \in Honest : blockVerdict[p] # "mismatch"

\* The signature one provider supplied and a quorum placed is the anchor of
\* everyone's pages, long after its round: it lies in the anchor's slot.
AnchorSound ==
    anchor # NoAnchor => anchor.slot \notin Skipped /\ anchor.sig.slot = anchor.slot

\* Eviction forgets the oldest slot only: a slot is asked again after no fewer
\* than UsedCap other rounds.
RepeatOnlyAfterCap ==
    \A i, j \in DOMAIN asked : i < j /\ asked[i] = asked[j] => j - i > UsedCap

\* A round that was started ends, whatever the providers answer.
RoundEnds == phase # "idle" ~> phase = "idle"

\* The anchor is replaced while a page before it is under way, by one further
\* up or further down: where every provider is honest no page is scored empty.
HonestPageAccepted == Honest = Provider => rejected = {}
=============================================================================
