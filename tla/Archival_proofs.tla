-------------------------- MODULE Archival_proofs --------------------------
(***************************************************************************)
(* Theorems about Archival, for every number of providers and rounds.      *)
(*                                                                         *)
(* Two facts carry them.  A quorum of two holds two different providers,   *)
(* so with at most one that does not answer from the chain an honest one   *)
(* is in every quorum; and the queue of used slots is the tail of the list *)
(* of slots that were asked.                                               *)
(***************************************************************************)
EXTENDS Archival, TLAPS, FiniteSetTheorems, SequenceTheorems

-----------------------------------------------------------------------------
(* Types. *)

\* The types, and: transactions are asked for with a signature in hand.
TypeInv == TypeOK /\ (phase = "txs" => sig \in Sig)

\* Init gives every variable its type.
LEMMA TypeInit == Init => TypeInv
  BY ArchivalAssumption DEF Init, TypeInv, TypeOK, NoVerdict, Verdicts, Slot

\* A block answer has the type of one.
LEMMA AnswerType ==
    ASSUME TypeOK, NEW p \in Provider, NEW a \in BlockAnswers(p)
    PROVE  [provider |-> p, hash |-> a.hash, sig |-> a.sig] \in Observation
<1>1. a.hash \in MaybeSlot /\ a.sig \in Sig \cup {NoSig}
  <2>1. CASE a \in [hash : {NoSlot}, sig : {NoSig}]
    BY <2>1 DEF MaybeSlot
  <2>2. CASE a \in [hash : 1 .. MaxTip, sig : [slot : 1 .. MaxTip, nth : {1, 2}]]
    BY <2>2, ArchivalAssumption DEF MaybeSlot, Slot, Sig
  <2>3. CASE a = [hash |-> slot, sig |-> HonestSig(slot)]
    BY <2>3 DEF TypeOK, MaybeSlot, HonestSig, Sig
  <2> QED
    BY <2>1, <2>2, <2>3 DEF BlockAnswers
<1> QED
  BY <1>1 DEF Observation

\* A verdict is a verdict.
LEMMA VerdictType ==
    ASSUME NEW h, NEW truth PROVE BlockVerdict(h, truth) \in Verdicts
  BY DEF BlockVerdict, Verdicts

\* Every step keeps the types.
LEMMA TypeNext == TypeInv /\ [Next]_vars => TypeInv'
<1> SUFFICES ASSUME TypeInv, [Next]_vars PROVE TypeInv'
  OBVIOUS
<1> USE DEF TypeInv
<1>1. CASE UNCHANGED vars
  BY <1>1 DEF TypeOK, vars, round, slots, paging
<1>2. CASE TipRises
  BY <1>2 DEF TypeOK, TipRises, round, slots, paging
<1>3. CASE PickSlot
  <2>1. PICK s \in Floor .. (tip - MinDepth) :
          s \notin used /\ Insert(s) /\ slot' = s /\ asked' = Append(asked, s)
    BY <1>3 DEF PickSlot
  <2>2. s \in Slot
    BY <2>1, ArchivalAssumption DEF TypeOK, Slot
  <2>3. used' \in SUBSET Slot /\ order' \in Seq(Slot) /\ Len(order') <= UsedCap
    <3> DEFINE grown == Append(order, s)
    <3>1. /\ grown \in Seq(Slot) /\ grown # <<>> /\ Len(grown) = Len(order) + 1
          /\ Len(order) \in Nat /\ Len(order) <= UsedCap /\ UsedCap \in Nat
      BY <2>2, AppendProperties, ArchivalAssumption DEF TypeOK
    <3>2. Tail(grown) \in Seq(Slot) /\ Len(Tail(grown)) = Len(order)
      BY <3>1, HeadTailProperties
    <3>3. CASE Len(grown) > UsedCap
      BY <2>1, <2>2, <3>1, <3>2, <3>3 DEF Insert, TypeOK
    <3>4. CASE ~(Len(grown) > UsedCap)
      <4>1. order' = grown /\ used' = used \cup {s}
        BY <2>1, <3>4 DEF Insert
      <4>2. Len(grown) <= UsedCap
        BY <3>1, <3>4
      <4> QED BY <2>2, <3>1, <4>1, <4>2 DEF TypeOK
    <3> QED BY <3>3, <3>4
  <2>4. asked' \in Seq(Slot)
    BY <2>1, <2>2, AppendProperties DEF TypeOK
  <2> QED
    BY <1>3, <2>1, <2>2, <2>3, <2>4 DEF TypeOK, PickSlot, paging, NoVerdict, Verdicts
<1>4. CASE JudgeBlocks
  <2>1. CASE Truths = {} /\ phase' = "idle" /\ UNCHANGED <<waiting, sig, blockVerdict>>
    BY <1>4, <2>1 DEF TypeOK, JudgeBlocks, slots, paging
  <2>2. ASSUME NEW truth \in Truths,
               blockVerdict' =
                 [p \in Provider |->
                    IF \E i \in DOMAIN observed : observed[i].provider = p
                    THEN LET i == CHOOSE j \in DOMAIN observed : observed[j].provider = p
                         IN  BlockVerdict(observed[i].hash, truth)
                    ELSE "none"],
               \E i \in First(truth) : sig' = observed[i].sig,
               IF sig' = NoSig
               THEN phase' = "idle" /\ UNCHANGED waiting
               ELSE phase' = "txs" /\ waiting' = Provider
        PROVE  TypeInv'
    <3>1. sig' \in Sig \cup {NoSig}
      <4>1. PICK i \in DOMAIN observed : sig' = observed[i].sig
        BY <2>2 DEF First, Votes
      <4>2. observed[i] \in Observation
        BY <4>1 DEF TypeOK
      <4> QED BY <4>1, <4>2 DEF Observation
    <3>2. blockVerdict' \in [Provider -> Verdicts]
      BY <2>2, VerdictType DEF Verdicts
    <3>3. /\ waiting' \in SUBSET Provider /\ phase' \in {"idle", "txs"}
          /\ phase' = "txs" => sig' \in Sig
      BY <2>2, <3>1 DEF TypeOK
    <3> QED
      BY <1>4, <3>1, <3>2, <3>3 DEF TypeOK, JudgeBlocks, slots, paging
  <2> QED
    BY <1>4, <2>1, <2>2 DEF JudgeBlocks
<1>5. CASE PublishAnchor
  <2>1. anchor' \in Anchor \cup {NoAnchor}
    <3>1. [slot |-> slot, sig |-> sig] \in Anchor
      BY <1>5 DEF TypeOK, PublishAnchor, Anchor
    <3> QED
      BY <1>5, <3>1 DEF TypeOK, PublishAnchor
  <2> QED
    BY <1>5, <2>1 DEF TypeOK, PublishAnchor, slots, paging
<1>6. ASSUME NEW p \in Provider,
             JoinBlock(p) \/ JoinTx(p) \/ AskPage(p) \/ PageAnswered(p) \/ PageLost(p)
      PROVE  TypeInv'
  <2>1. CASE JoinBlock(p)
    <3>1. observed' \in Seq(Observation)
      <4>1. CASE \E a \in BlockAnswers(p) :
              observed' = Append(observed, [provider |-> p, hash |-> a.hash, sig |-> a.sig])
        BY <4>1, AnswerType, AppendProperties DEF TypeOK
      <4> QED BY <2>1, <4>1 DEF JoinBlock, TypeOK
    <3> QED
      BY <2>1, <3>1 DEF TypeOK, JoinBlock, slots, paging
  <2>2. CASE JoinTx(p)
    <3>1. txVerdict' \in [Provider -> Verdicts]
      BY <2>2, VerdictType DEF JoinTx, TypeOK
    <3> QED
      BY <2>2, <3>1 DEF TypeOK, JoinTx, slots, paging
  <2>3. CASE AskPage(p)
    <3>1. rotation' \in [Provider -> {0, 1}]
      BY <2>3 DEF AskPage, TypeOK
    <3>2. usedAnchor' \in [Provider -> Sig \cup {NoSig}] /\ page' \in [Provider -> Anchor \cup {NoAnchor}]
      BY <2>3 DEF AskPage, UsableAnchor, TypeOK, Anchor
    <3> QED
      BY <2>3, <3>1, <3>2 DEF TypeOK, AskPage, round, slots
  <2>4. CASE PageAnswered(p)
    <3>1. rejected' \in SUBSET Provider
      BY <2>4 DEF PageAnswered, TypeOK
    <3>2. page' \in [Provider -> Anchor \cup {NoAnchor}]
      BY <2>4 DEF PageAnswered, TypeOK
    <3> QED
      BY <2>4, <3>1, <3>2 DEF TypeOK, PageAnswered, round, slots
  <2>5. CASE PageLost(p)
    BY <2>5 DEF TypeOK, PageLost, round, slots
  <2> QED
    BY <1>6, <2>1, <2>2, <2>3, <2>4, <2>5
<1> QED
  BY <1>1, <1>2, <1>3, <1>4, <1>5, <1>6 DEF Next

\* Every variable of the archival round has its type.
THEOREM TypeCorrect == Spec => []TypeOK
<1>1. Spec => []TypeInv
  BY TypeInit, TypeNext, PTL DEF Spec
<1>2. TypeInv => TypeOK
  BY DEF TypeInv
<1> QED
  BY <1>1, <1>2, PTL

-----------------------------------------------------------------------------
(* Quorums. *)

\* Two votes are cast by two.
LEMMA TwoOf ==
    ASSUME NEW S, Cardinality(S) >= 2
    PROVE  \E x, y \in S : x # y
<1>1. S # {}
  BY FS_EmptySet
<1>2. PICK x \in S : TRUE
  BY <1>1
<1>3. S # {x}
  BY FS_Singleton
<1> QED
  BY <1>2, <1>3

\* At most one provider does not answer from the chain.
OneFaulty == \A p, q \in Provider \ Honest : p = q

\* What the round knows about the honest providers, in every phase of it.
HonestObserved ==
    \A i \in DOMAIN observed :
        observed[i].provider \in Honest => observed[i].hash \in {NoSlot, slot}

\* Every provider answers once a phase.
OneAnswerEach ==
    /\ \A i, j \in DOMAIN observed : i # j => observed[i].provider # observed[j].provider
    /\ phase = "blocks" => \A i \in DOMAIN observed : observed[i].provider \notin waiting

\* An honest confirmation is true of the chain.
HonestConfirmed ==
    /\ phase = "blocks" => txVerdict = NoVerdict
    /\ \A p \in Honest : txVerdict[p] = "match" => (OnChain(sig) /\ sig.slot = slot)

RoundInv ==
    /\ TypeInv
    /\ OneAnswerEach
    /\ HonestObserved
    /\ HonestConfirmed
    /\ HonestBlockNeverMismatch
    /\ AnchorSound

\* With one faulty provider a hash with a quorum is the hash of the slot.
LEMMA TruthIsTrue ==
    ASSUME RoundInv, OneFaulty, NEW truth \in Truths
    PROVE  truth = slot
<1>1. truth # NoSlot /\ Cardinality(Votes(truth)) >= 2
  <2>1. Cardinality(Votes(truth)) >= Quorum
    BY DEF Truths
  <2>2. CASE Cardinality(Votes(truth)) \in Int
    BY <2>1, <2>2, ArchivalAssumption DEF Truths, MostVoted, Hashes
  <2>3. Cardinality(Votes(truth)) \in Int
    <3>1. DOMAIN observed = 1 .. Len(observed) /\ Len(observed) \in Nat
      BY DEF RoundInv, TypeInv, TypeOK
    <3>2. IsFiniteSet(1 .. Len(observed))
      BY <3>1, FS_Interval
    <3>3. Votes(truth) \subseteq 1 .. Len(observed)
      BY <3>1 DEF Votes
    <3>4. IsFiniteSet(Votes(truth))
      BY <3>2, <3>3, FS_Subset
    <3> QED BY <3>4, FS_CardinalityType
  <2> QED BY <2>2, <2>3
<1>2. PICK i, j \in Votes(truth) : i # j
  BY <1>1, TwoOf
<1>3. /\ i \in DOMAIN observed /\ j \in DOMAIN observed
      /\ observed[i].hash = truth /\ observed[j].hash = truth
  BY <1>2 DEF Votes
<1>4. observed[i].provider \in Provider /\ observed[j].provider \in Provider
  <2>1. observed[i] \in Observation /\ observed[j] \in Observation
    BY <1>3 DEF RoundInv, TypeInv, TypeOK
  <2> QED BY <2>1 DEF Observation
<1>5. observed[i].provider \in Honest \/ observed[j].provider \in Honest
  BY <1>2, <1>3, <1>4 DEF RoundInv, OneAnswerEach, OneFaulty
<1> QED
  BY <1>1, <1>3, <1>5 DEF RoundInv, HonestObserved

\* With one faulty provider a quorum of confirmations holds an honest one.
LEMMA QuorumHasHonest ==
    ASSUME RoundInv, OneFaulty, Cardinality(Confirmations) >= Quorum
    PROVE  \E p \in Honest : txVerdict[p] = "match"
<1>1. IsFiniteSet(Confirmations)
  BY ArchivalAssumption, FS_Subset DEF Confirmations
<1>2. Cardinality(Confirmations) >= 2
  BY <1>1, FS_CardinalityType, ArchivalAssumption
<1>3. PICK p, q \in Confirmations : p # q
  BY <1>2, TwoOf
<1> QED
  BY <1>3 DEF Confirmations, OneFaulty

\* The first round is preceded by nothing.
LEMMA RoundInit == Init => RoundInv
<1> SUFFICES ASSUME Init PROVE RoundInv
  OBVIOUS
<1>1. TypeInv
  BY TypeInit
<1>2. DOMAIN observed = {}
  BY DEF Init
<1>3. \A p \in Honest : blockVerdict[p] = "none" /\ txVerdict[p] = "none"
  BY ArchivalAssumption DEF Init, NoVerdict
<1> QED
  BY <1>1, <1>2, <1>3 DEF Init, RoundInv, OneAnswerEach, HonestObserved,
     HonestConfirmed, HonestBlockNeverMismatch, AnchorSound

\* Every step keeps what the round knows, as long as one provider is faulty.
LEMMA RoundNext == OneFaulty /\ RoundInv /\ [Next]_vars => RoundInv'
<1> SUFFICES ASSUME OneFaulty, RoundInv, [Next]_vars PROVE RoundInv'
  OBVIOUS
<1> USE DEF OneAnswerEach, HonestObserved, HonestConfirmed, HonestBlockNeverMismatch, AnchorSound
<1>0. TypeInv'
  BY TypeNext DEF RoundInv
<1>1. CASE UNCHANGED <<round, anchor>>
  BY <1>0, <1>1 DEF RoundInv, round, OnChain
<1>2. CASE PickSlot
  <2>1. DOMAIN observed' = {} /\ UNCHANGED anchor
    BY <1>2 DEF PickSlot
  <2>2. \A p \in Honest : blockVerdict'[p] = "none" /\ txVerdict'[p] = "none"
    BY <1>2, ArchivalAssumption DEF PickSlot, NoVerdict
  <2> QED
    BY <1>0, <1>2, <2>1, <2>2 DEF RoundInv, PickSlot, NoVerdict
<1>3. CASE JudgeBlocks
  <2>1. /\ UNCHANGED <<observed, slot, anchor, txVerdict>>
        /\ phase = "blocks" /\ phase' # "blocks"
    BY <1>3 DEF JudgeBlocks
  <2>2. \A p \in Honest : txVerdict[p] = "none"
    BY <2>1, ArchivalAssumption DEF RoundInv, NoVerdict
  <2>3. HonestBlockNeverMismatch'
    <3>1. CASE UNCHANGED blockVerdict
      BY <3>1 DEF RoundInv
    <3>2. ASSUME NEW truth \in Truths,
                 blockVerdict' =
                   [p \in Provider |->
                      IF \E i \in DOMAIN observed : observed[i].provider = p
                      THEN LET i == CHOOSE j \in DOMAIN observed : observed[j].provider = p
                           IN  BlockVerdict(observed[i].hash, truth)
                      ELSE "none"]
          PROVE  HonestBlockNeverMismatch'
      <4> SUFFICES ASSUME NEW p \in Honest PROVE blockVerdict'[p] # "mismatch"
        OBVIOUS
      <4> DEFINE i == CHOOSE j \in DOMAIN observed : observed[j].provider = p
      <4>1. truth = slot
        BY TruthIsTrue
      <4>2. CASE \E j \in DOMAIN observed : observed[j].provider = p
        <5>1. i \in DOMAIN observed /\ observed[i].provider = p
          BY <4>2
        <5>2. observed[i].hash \in {NoSlot, slot}
          BY <5>1 DEF RoundInv
        <5>3. blockVerdict'[p] = BlockVerdict(observed[i].hash, truth)
          BY <3>2, <4>2, ArchivalAssumption
        <5> QED
          BY <4>1, <5>2, <5>3 DEF BlockVerdict
      <4>3. CASE ~\E j \in DOMAIN observed : observed[j].provider = p
        BY <3>2, <4>3, ArchivalAssumption
      <4> QED BY <4>2, <4>3
    <3> QED
      BY <1>3, <3>1, <3>2 DEF JudgeBlocks
  <2> QED
    BY <1>0, <2>1, <2>2, <2>3 DEF RoundInv
<1>4. CASE PublishAnchor
  <2>1. AnchorSound'
    <3>1. CASE Cardinality(Confirmations) >= Quorum
      BY <1>4, <3>1, QuorumHasHonest DEF RoundInv, PublishAnchor, OnChain
    <3>2. CASE ~(Cardinality(Confirmations) >= Quorum)
      BY <1>4, <3>2 DEF RoundInv, PublishAnchor
    <3> QED BY <3>1, <3>2
  <2> QED
    BY <1>0, <1>4, <2>1 DEF RoundInv, PublishAnchor, OnChain
<1>5. ASSUME NEW p \in Provider, JoinBlock(p) PROVE RoundInv'
  <2>1. CASE UNCHANGED observed
    BY <1>0, <1>5, <2>1 DEF RoundInv, JoinBlock, OnChain
  <2>2. ASSUME NEW a \in BlockAnswers(p),
               observed' = Append(observed, [provider |-> p, hash |-> a.hash, sig |-> a.sig])
        PROVE  RoundInv'
    <3> DEFINE n == Len(observed) + 1
    <3>1. /\ DOMAIN observed = 1 .. Len(observed) /\ Len(observed) \in Nat
          /\ DOMAIN observed' = 1 .. n
          /\ \A i \in DOMAIN observed : observed'[i] = observed[i]
          /\ observed'[n].provider = p /\ observed'[n].hash = a.hash
      BY <2>2, AnswerType, AppendProperties DEF RoundInv, TypeInv, TypeOK
    <3>2. \A i \in DOMAIN observed' : i \in DOMAIN observed \/ i = n
      BY <3>1
    <3>3. p \in Honest => a.hash \in {NoSlot, slot}
      BY <2>2 DEF BlockAnswers
    <3>4. HonestObserved'
      BY <1>5, <3>1, <3>2, <3>3 DEF RoundInv, JoinBlock
    <3>5. OneAnswerEach'
      BY <1>5, <3>1, <3>2 DEF RoundInv, JoinBlock
    <3> QED
      BY <1>0, <1>5, <3>4, <3>5 DEF RoundInv, JoinBlock, OnChain
  <2> QED
    BY <1>5, <2>1, <2>2 DEF JoinBlock
<1>6. ASSUME NEW p \in Provider, JoinTx(p) PROVE RoundInv'
  <2>1. UNCHANGED <<phase, slot, observed, sig, blockVerdict, anchor>> /\ phase = "txs"
    BY <1>6 DEF JoinTx
  <2>2. CASE UNCHANGED txVerdict
    BY <1>0, <2>1, <2>2 DEF RoundInv, OnChain
  <2>3. ASSUME NEW s \in TxAnswers(p, sig),
               txVerdict' = [txVerdict EXCEPT ![p] = BlockVerdict(s, slot)]
        PROVE  RoundInv'
    <3>1. ASSUME p \in Honest, BlockVerdict(s, slot) = "match"
          PROVE  OnChain(sig) /\ sig.slot = slot
      BY <2>3, <3>1 DEF TxAnswers, BlockVerdict
    <3>2. \A q \in Honest : txVerdict'[q] = "match" => (OnChain(sig) /\ sig.slot = slot)
      BY <2>3, <3>1, ArchivalAssumption DEF RoundInv, TypeInv, TypeOK
    <3> QED
      BY <1>0, <2>1, <3>2 DEF RoundInv, OnChain
  <2> QED
    BY <1>6, <2>2, <2>3 DEF JoinTx
<1>7. CASE UNCHANGED vars
  BY <1>1, <1>7 DEF vars
<1>8. CASE TipRises
  BY <1>1, <1>8 DEF TipRises
<1>9. ASSUME NEW p \in Provider, AskPage(p) \/ PageAnswered(p) \/ PageLost(p)
      PROVE  RoundInv'
  BY <1>1, <1>9 DEF AskPage, PageAnswered, PageLost
<1> QED
  BY <1>2, <1>3, <1>4, <1>5, <1>6, <1>7, <1>8, <1>9 DEF Next

\* What the round knows is invariant.
LEMMA RoundInvariant == ASSUME OneFaulty PROVE Spec => []RoundInv
<1>1. RoundInv /\ [Next]_vars => RoundInv'
  BY RoundNext
<1> QED
  BY <1>1, RoundInit, PTL DEF Spec

\* With at most one provider that does not answer from the chain, no honest
\* provider is recorded as a mismatch on an archival block: the vote that
\* run_archival_round takes among the graded providers themselves is right.
THEOREM HonestBlocksMatch ==
    ASSUME OneFaulty PROVE Spec => []HonestBlockNeverMismatch
  BY RoundInvariant, PTL DEF RoundInv

\* Under the same assumption the anchor every provider is later asked to page
\* before is a transaction of the chain in the slot it is published with.
THEOREM AnchorsSound ==
    ASSUME OneFaulty PROVE Spec => []AnchorSound
  BY RoundInvariant, PTL DEF RoundInv

-----------------------------------------------------------------------------
(* Pages before an anchor. *)

\* An anchor whose signature is the first transaction of its slot's block.
FirstOfItsSlot(a) == OnChain(a.sig) /\ a.sig.nth = 1 /\ a.sig.slot = a.slot

\* Where every provider is honest, what the round hears is the block of its
\* slot, and whatever anchors a page, now or when it was asked for, is the first
\* transaction of its slot.
PageInv ==
    /\ TypeInv
    /\ \A i \in DOMAIN observed :
         observed[i].hash # NoSlot =>
             slot \notin Skipped /\ observed[i].sig = HonestSig(slot)
    /\ phase = "txs" => FirstOfItsSlot([slot |-> slot, sig |-> sig])
    /\ anchor # NoAnchor => FirstOfItsSlot(anchor)
    /\ \A p \in Provider : page[p] # NoAnchor => FirstOfItsSlot(page[p])
    /\ rejected = {}

\* There is no page at first.
LEMMA PageInit == Init => PageInv
<1> SUFFICES ASSUME Init PROVE PageInv
  OBVIOUS
<1>1. TypeInv /\ DOMAIN observed = {}
  BY TypeInit DEF Init
<1> QED
  BY <1>1 DEF Init, PageInv

\* Every step keeps it, as long as every provider is honest.
LEMMA PageNext == Honest = Provider /\ PageInv /\ [Next]_vars => PageInv'
<1> SUFFICES ASSUME Honest = Provider, PageInv, [Next]_vars PROVE PageInv'
  OBVIOUS
<1> USE DEF FirstOfItsSlot, OnChain
<1>0. TypeInv'
  BY TypeNext DEF PageInv
<1>1. CASE UNCHANGED <<round, anchor, page, rejected>>
  BY <1>0, <1>1 DEF PageInv, round
<1>2. CASE PickSlot
  <2>1. DOMAIN observed' = {} /\ phase' = "blocks" /\ UNCHANGED <<anchor, page, rejected>>
    BY <1>2 DEF PickSlot, paging
  <2> QED
    BY <1>0, <2>1 DEF PageInv
<1>3. CASE JudgeBlocks
  <2>1. UNCHANGED <<observed, slot, anchor, page, rejected>>
    BY <1>3 DEF JudgeBlocks, paging
  <2>2. phase' = "txs" => FirstOfItsSlot([slot |-> slot, sig |-> sig'])
    <3> SUFFICES ASSUME phase' = "txs" PROVE FirstOfItsSlot([slot |-> slot, sig |-> sig'])
      OBVIOUS
    <3>1. PICK truth \in Truths : \E i \in First(truth) : sig' = observed[i].sig
      BY <1>3 DEF JudgeBlocks
    <3>2. PICK i \in First(truth) : sig' = observed[i].sig
      BY <3>1
    <3>3. i \in DOMAIN observed /\ observed[i].hash # NoSlot
      BY <3>2 DEF First, Votes, Truths, MostVoted, Hashes
    <3>4. slot \notin Skipped /\ sig' = HonestSig(slot)
      BY <3>2, <3>3 DEF PageInv
    <3>5. sig' # NoSig
      BY <1>3 DEF JudgeBlocks
    <3> QED
      BY <3>4, <3>5 DEF HonestSig
  <2> QED
    BY <1>0, <2>1, <2>2 DEF PageInv
<1>4. CASE PublishAnchor
  <2>1. UNCHANGED <<observed, slot, sig, page, rejected>> /\ phase = "txs" /\ phase' = "idle"
    BY <1>4 DEF PublishAnchor, paging
  <2>2. anchor' \in {anchor, [slot |-> slot, sig |-> sig]}
    BY <1>4 DEF PublishAnchor
  <2> QED
    BY <1>0, <2>1, <2>2 DEF PageInv
<1>5. ASSUME NEW p \in Provider, JoinBlock(p) PROVE PageInv'
  <2>1. UNCHANGED <<phase, slot, sig, anchor, page, rejected>> /\ phase = "blocks"
    BY <1>5 DEF JoinBlock, paging
  <2>2. CASE UNCHANGED observed
    BY <1>0, <2>1, <2>2 DEF PageInv
  <2>3. ASSUME NEW a \in BlockAnswers(p),
               observed' = Append(observed, [provider |-> p, hash |-> a.hash, sig |-> a.sig])
        PROVE  PageInv'
    <3> DEFINE n == Len(observed) + 1
    <3>1. /\ DOMAIN observed = 1 .. Len(observed) /\ Len(observed) \in Nat
          /\ DOMAIN observed' = 1 .. n
          /\ \A i \in DOMAIN observed : observed'[i] = observed[i]
          /\ observed'[n].sig = a.sig /\ observed'[n].hash = a.hash
      BY <2>3, AnswerType, AppendProperties DEF PageInv, TypeInv, TypeOK
    <3>2. \A i \in DOMAIN observed' : i \in DOMAIN observed \/ i = n
      BY <3>1
    <3>3. a.hash # NoSlot => slot \notin Skipped /\ a.sig = HonestSig(slot)
      BY <2>3 DEF BlockAnswers
    <3>4. \A i \in DOMAIN observed' :
            observed'[i].hash # NoSlot => slot \notin Skipped /\ observed'[i].sig = HonestSig(slot)
      BY <3>1, <3>2, <3>3 DEF PageInv
    <3> QED
      BY <1>0, <2>1, <3>4 DEF PageInv, HonestSig
  <2> QED
    BY <1>5, <2>2, <2>3 DEF JoinBlock
<1>6. ASSUME NEW p \in Provider, JoinTx(p) PROVE PageInv'
  BY <1>0, <1>6 DEF PageInv, JoinTx, paging, HonestSig
<1>7. ASSUME NEW p \in Provider, AskPage(p) PROVE PageInv'
  <2>1. UNCHANGED <<phase, slot, observed, sig, anchor, rejected>>
    BY <1>7 DEF AskPage, round
  <2>2. CASE UNCHANGED page
    BY <1>0, <2>1, <2>2 DEF PageInv, HonestSig
  <2>3. CASE UsableAnchor(p) /\ page' = [page EXCEPT ![p] = anchor]
    <3>1. \A q \in Provider : page'[q] \in {page[q], anchor}
      BY <2>3 DEF PageInv, TypeInv, TypeOK
    <3> QED
      BY <1>0, <2>1, <2>3, <3>1 DEF PageInv, HonestSig, UsableAnchor
  <2> QED
    BY <1>7, <2>2, <2>3 DEF AskPage
<1>8. ASSUME NEW p \in Provider, PageAnswered(p) PROVE PageInv'
  <2>1. UNCHANGED <<phase, slot, observed, sig, anchor>> /\ page[p] # NoAnchor
    BY <1>8 DEF PageAnswered, round
  <2>2. \A q \in Provider : page'[q] \in {page[q], NoAnchor}
    BY <1>8 DEF PageAnswered, PageInv, TypeInv, TypeOK
  <2>3. page[p] \in Anchor /\ FirstOfItsSlot(page[p])
    BY <2>1 DEF PageInv, TypeInv, TypeOK
  <2>4. NewestOfPage(p) = {page[p].slot - 1}
    BY <2>3 DEF NewestOfPage, NewestBefore
  <2>5. page[p].slot - 1 < page[p].slot
    BY <2>3 DEF Anchor, Slot
  <2>6. UNCHANGED rejected
    BY <1>8, <2>4, <2>5 DEF PageAnswered
  <2> QED
    BY <1>0, <2>1, <2>2, <2>6 DEF PageInv, HonestSig
<1>9. ASSUME NEW p \in Provider, PageLost(p) PROVE PageInv'
  <2>1. UNCHANGED <<phase, slot, observed, sig, anchor, rejected>>
    BY <1>9 DEF PageLost, round
  <2>2. \A q \in Provider : page'[q] \in {page[q], NoAnchor}
    BY <1>9 DEF PageLost, PageInv, TypeInv, TypeOK
  <2> QED
    BY <1>0, <2>1, <2>2 DEF PageInv, HonestSig
<1>10. CASE UNCHANGED vars
  BY <1>1, <1>10 DEF vars, paging
<1>11. CASE TipRises
  BY <1>1, <1>11 DEF TipRises, paging
<1> QED
  BY <1>2, <1>3, <1>4, <1>5, <1>6, <1>7, <1>8, <1>9, <1>10, <1>11 DEF Next

\* Where every provider is honest, no page before an anchor is scored empty,
\* however often the anchor is replaced while the page is under way.
THEOREM PagesAccepted == Spec => []HonestPageAccepted
<1>1. CASE Honest = Provider
  <2>1. PageInv /\ [Next]_vars => PageInv'
    BY <1>1, PageNext
  <2>2. PageInv => HonestPageAccepted
    BY DEF PageInv, HonestPageAccepted
  <2> QED
    BY <2>1, <2>2, PageInit, PTL DEF Spec
<1>2. CASE Honest # Provider
  <2>1. HonestPageAccepted
    BY <1>2 DEF HonestPageAccepted
  <2> QED
    BY <2>1, PTL
<1> QED
  BY <1>1, <1>2

-----------------------------------------------------------------------------
(* The used set. *)

\* The queue is the tail of the slots that were asked, all of them while there
\* are no more than UsedCap, and the set holds what the queue holds.
UsedInv ==
    /\ order \in Seq(Slot) /\ asked \in Seq(Slot)
    /\ Len(order) <= Len(asked)
    /\ Len(order) <= UsedCap
    /\ Len(order) = Len(asked) \/ Len(order) = UsedCap
    /\ \A k \in 1 .. Len(order) : order[k] = asked[Len(asked) - Len(order) + k]
    /\ used = {order[k] : k \in 1 .. Len(order)}
    /\ \A k, l \in 1 .. Len(order) : order[k] = order[l] => k = l
    /\ RepeatOnlyAfterCap

\* The set is empty at first.
LEMMA UsedInit == Init => UsedInv
<1> SUFFICES ASSUME Init PROVE UsedInv
  OBVIOUS
<1>1. order = <<>> /\ asked = <<>> /\ used = {} /\ DOMAIN asked = {}
  BY DEF Init
<1>2. Len(order) = 0 /\ Len(asked) = 0 /\ 1 .. Len(order) = {}
  BY <1>1
<1>3. order \in Seq(Slot) /\ asked \in Seq(Slot)
  BY <1>1
<1>4. used = {order[k] : k \in 1 .. Len(order)}
  BY <1>1, <1>2
<1>5. Len(order) <= UsedCap
  BY <1>2, ArchivalAssumption
<1> QED
  BY <1>1, <1>2, <1>3, <1>4, <1>5 DEF UsedInv, RepeatOnlyAfterCap

\* What Insert and the record of asked slots make of the used set.
LEMMA UsedPick ==
    ASSUME UsedInv, NEW s \in Slot, s \notin used, Insert(s), asked' = Append(asked, s)
    PROVE  UsedInv'
<1> DEFINE m == Len(asked)
           n == Len(order)
           grown == Append(order, s)
<1>1. /\ m \in Nat /\ n \in Nat /\ UsedCap \in Nat /\ UsedCap > 0
      /\ n <= m /\ n <= UsedCap /\ (n = m \/ n = UsedCap)
  BY ArchivalAssumption DEF UsedInv
<1>2. /\ asked' \in Seq(Slot) /\ Len(asked') = m + 1
      /\ \A i \in 1 .. m : asked'[i] = asked[i]
      /\ asked'[m + 1] = s
  BY AppendProperties DEF UsedInv
<1>3. /\ grown \in Seq(Slot) /\ grown # <<>> /\ Len(grown) = n + 1
      /\ \A k \in 1 .. n : grown[k] = order[k]
      /\ grown[n + 1] = s
  BY AppendProperties DEF UsedInv
<1>4. /\ \A k \in 1 .. n : order[k] \in used /\ order[k] # s
      /\ \A k, l \in 1 .. n : order[k] = order[l] => k = l
  BY DEF UsedInv
<1>5. \A k \in 1 .. n + 1 : grown[k] = asked'[m - n + k]
  <2> SUFFICES ASSUME NEW k \in 1 .. n + 1 PROVE grown[k] = asked'[m - n + k]
    OBVIOUS
  <2>1. CASE k = n + 1
    BY <1>1, <1>2, <1>3, <2>1
  <2>2. CASE k \in 1 .. n
    <3>1. m - n + k \in 1 .. m
      BY <1>1, <2>2
    <3> QED
      BY <1>2, <1>3, <2>2, <3>1 DEF UsedInv
  <2> QED BY <1>1, <2>1, <2>2
<1>6. \A k, l \in 1 .. n + 1 : grown[k] = grown[l] => k = l
  <2> HIDE DEF grown, n, m
  <2>1. \A k \in 1 .. n + 1 : k \in 1 .. n \/ k = n + 1
    BY <1>1
  <2> QED BY <1>3, <1>4, <2>1
<1>7. RepeatOnlyAfterCap'
  <2> SUFFICES ASSUME NEW i \in DOMAIN asked', NEW j \in DOMAIN asked',
                      i < j, asked'[i] = asked'[j]
               PROVE  j - i > UsedCap
    BY DEF RepeatOnlyAfterCap
  <2>1. i \in 1 .. m /\ j \in 1 .. m + 1 /\ DOMAIN asked = 1 .. m
    BY <1>1, <1>2 DEF UsedInv
  <2>2. CASE j \in 1 .. m
    BY <1>2, <2>1, <2>2 DEF UsedInv, RepeatOnlyAfterCap
  <2>3. CASE j = m + 1
    <3>1. asked[i] = s
      BY <1>2, <2>1, <2>3
    <3>2. ~(i > m - n)
      <4>1. SUFFICES ASSUME i > m - n PROVE FALSE
        OBVIOUS
      <4>2. i - (m - n) \in 1 .. n /\ m - n + (i - (m - n)) = i
        BY <1>1, <2>1, <4>1
      <4>3. order[i - (m - n)] = asked[i]
        BY <4>2 DEF UsedInv
      <4> QED BY <1>4, <3>1, <4>2, <4>3
    <3>3. n = UsedCap
      BY <1>1, <2>1, <3>2
    <3> QED BY <1>1, <2>1, <2>3, <3>2, <3>3
  <2> QED BY <1>1, <2>1, <2>2, <2>3
<1>8. CASE ~(n + 1 > UsedCap)
  <2>1. order' = grown /\ used' = used \cup {s} /\ n = m
    BY <1>1, <1>3, <1>8 DEF Insert
  <2>2. used' = {order'[k] : k \in 1 .. Len(order')}
    <3>1. used = {grown[k] : k \in 1 .. n}
      BY <1>3 DEF UsedInv
    <3>2. {grown[k] : k \in 1 .. n + 1} = {grown[k] : k \in 1 .. n} \cup {grown[n + 1]}
      BY <1>1
    <3> QED BY <1>3, <2>1, <3>1, <3>2
  <2>3. \A k \in 1 .. Len(order') : order'[k] = asked'[Len(asked') - Len(order') + k]
    <3> HIDE DEF grown, n, m
    <3>1. Len(order') = n + 1 /\ Len(asked') - Len(order') = m - n
      BY <1>1, <1>2, <1>3, <2>1
    <3>2. \A k \in 1 .. n + 1 : order'[k] = asked'[m - n + k]
      BY <1>5, <2>1
    <3> QED BY <3>1, <3>2
  <2>4. \A k, l \in 1 .. Len(order') : order'[k] = order'[l] => k = l
    BY <1>3, <1>6, <2>1
  <2>5. /\ Len(order') <= Len(asked') /\ Len(order') <= UsedCap
        /\ Len(order') = Len(asked')
    <3> HIDE DEF grown, n, m
    <3> QED BY <1>1, <1>2, <1>3, <1>8, <2>1
  <2> HIDE DEF grown, n, m
  <2> QED
    BY <1>2, <1>3, <1>7, <2>1, <2>2, <2>3, <2>4, <2>5 DEF UsedInv
<1>9. CASE n + 1 > UsedCap
  <2>1. n = UsedCap
    BY <1>1, <1>9
  <2>2. order' = Tail(grown) /\ used' = (used \cup {s}) \ {Head(grown)}
    BY <1>3, <1>9 DEF Insert
  <2>3. /\ order' \in Seq(Slot) /\ Len(order') = n
        /\ \A k \in 1 .. n : order'[k] = grown[k + 1]
        /\ Head(grown) = grown[1]
    BY <1>1, <1>3, <2>2, HeadTailProperties
  <2>4. used' = {order'[k] : k \in 1 .. n}
    <3>1. used \cup {s} = {grown[k] : k \in 1 .. n + 1}
      <4>1. used = {grown[k] : k \in 1 .. n}
        BY <1>3 DEF UsedInv
      <4>2. {grown[k] : k \in 1 .. n + 1} = {grown[k] : k \in 1 .. n} \cup {grown[n + 1]}
        BY <1>1
      <4> QED BY <1>3, <4>1, <4>2
    <3>2. {grown[k] : k \in 1 .. n + 1} \ {grown[1]} = {grown[k + 1] : k \in 1 .. n}
      <4>1. ASSUME NEW x \in {grown[k] : k \in 1 .. n + 1} \ {grown[1]}
            PROVE  x \in {grown[k + 1] : k \in 1 .. n}
        <5>1. PICK k \in 1 .. n + 1 : x = grown[k]
          BY <4>1
        <5>2. k - 1 \in 1 .. n /\ k = (k - 1) + 1
          BY <1>1, <4>1, <5>1
        <5> QED BY <5>1, <5>2
      <4>2. ASSUME NEW k \in 1 .. n
            PROVE  grown[k + 1] \in {grown[l] : l \in 1 .. n + 1} \ {grown[1]}
        <5>1. k + 1 \in 1 .. n + 1 /\ 1 \in 1 .. n + 1 /\ k + 1 # 1
          BY <1>1, <4>2
        <5> QED BY <1>6, <5>1
      <4> QED BY <4>1, <4>2
    <3>3. {grown[k + 1] : k \in 1 .. n} = {order'[k] : k \in 1 .. n}
      BY <2>3
    <3> QED BY <2>2, <2>3, <3>1, <3>2, <3>3
  <2>5. \A k \in 1 .. n : order'[k] = asked'[(m + 1) - n + k]
    <3> SUFFICES ASSUME NEW k \in 1 .. n PROVE order'[k] = asked'[(m + 1) - n + k]
      OBVIOUS
    <3>1. k + 1 \in 1 .. n + 1 /\ m - n + (k + 1) = (m + 1) - n + k
      BY <1>1
    <3> QED BY <1>5, <2>3, <3>1
  <2>6. \A k, l \in 1 .. n : order'[k] = order'[l] => k = l
    <3> HIDE DEF grown, n, m
    <3> SUFFICES ASSUME NEW k \in 1 .. n, NEW l \in 1 .. n, order'[k] = order'[l]
                 PROVE  k = l
      OBVIOUS
    <3>1. k + 1 \in 1 .. n + 1 /\ l + 1 \in 1 .. n + 1 /\ (k + 1 = l + 1 => k = l)
      BY <1>1
    <3> QED BY <1>6, <2>3, <3>1
  <2> HIDE DEF grown, n, m
  <2>7. /\ Len(order') <= Len(asked') /\ Len(order') <= UsedCap
        /\ Len(order') = UsedCap
    BY <1>1, <1>2, <2>1, <2>3
  <2> QED
    BY <1>2, <1>7, <2>3, <2>4, <2>5, <2>6, <2>7 DEF UsedInv
<1> QED
  BY <1>1, <1>8, <1>9

\* Every step keeps it; only PickSlot touches it.
LEMMA UsedNext == UsedInv /\ [Next]_vars => UsedInv'
<1> SUFFICES ASSUME UsedInv, [Next]_vars PROVE UsedInv'
  OBVIOUS
<1>1. CASE UNCHANGED slots
  BY <1>1 DEF UsedInv, slots, RepeatOnlyAfterCap
<1>2. CASE PickSlot
  <2>1. PICK s \in Floor .. (tip - MinDepth) :
          s \notin used /\ Insert(s) /\ asked' = Append(asked, s)
    BY <1>2 DEF PickSlot
  <2>2. s \in Slot
    BY <2>1, ArchivalAssumption DEF Slot
  <2> QED
    BY <2>1, <2>2, UsedPick
<1>3. CASE JudgeBlocks
  BY <1>1, <1>3 DEF JudgeBlocks
<1>4. CASE PublishAnchor
  BY <1>1, <1>4 DEF PublishAnchor
<1>5. ASSUME NEW p \in Provider,
             JoinBlock(p) \/ JoinTx(p) \/ AskPage(p) \/ PageAnswered(p) \/ PageLost(p)
      PROVE  UsedInv'
  BY <1>1, <1>5 DEF JoinBlock, JoinTx, AskPage, PageAnswered, PageLost
<1>6. CASE TipRises
  BY <1>1, <1>6 DEF TipRises
<1>7. CASE UNCHANGED vars
  BY <1>1, <1>7 DEF vars
<1> QED
  BY <1>2, <1>3, <1>4, <1>5, <1>6, <1>7 DEF Next

\* UsedSlots never lets a slot be asked again before UsedCap other rounds were
\* run: eviction forgets the oldest slot and no other.
THEOREM SlotsRepeatLate == Spec => []RepeatOnlyAfterCap
<1>1. UsedInv => RepeatOnlyAfterCap
  BY DEF UsedInv
<1> QED
  BY <1>1, UsedInit, UsedNext, PTL DEF Spec
=============================================================================
