------------------------ MODULE ClaimPipeline_proofs ------------------------
(***************************************************************************)
(* Theorems about ClaimPipeline, for every set of tasks and every value of *)
(* the thresholds.                                                         *)
(***************************************************************************)
EXTENDS ClaimPipeline, TLAPS, FiniteSetTheorems, WellFoundedInduction

-----------------------------------------------------------------------------
(* Facts about the operators. *)

\* What the slot arithmetic returns.
LEMMA SlotArithmetic ==
    /\ \A a, b \in Int : Higher(a, b) \in {a, b} /\ Higher(a, b) >= a /\ Higher(a, b) >= b
    /\ \A a, b \in MaybeSlot : Higher(a, b) \in MaybeSlot
    /\ \A a, b \in Nat : SatSub(a, b) \in Nat /\ SatSub(a, b) <= a /\ SatSub(a, b) >= a - b
    /\ \A a, b \in Nat : Observe(a, b) \in Nat
    /\ \A f \in Nat : Current(f) \in MaybeSlot /\ Current(f) <= f
    /\ \A f \in Nat : f # 0 => Current(f) = f
    /\ \A f \in Nat : Current(f) # NoSlot => f # 0
  BY DEF Higher, SatSub, Observe, Current, MaybeSlot, NoSlot, Slot

\* The effective tip of two possible tips is a possible tip.
LEMMA EffectiveTipType ==
    \A n \in MaybeSlot, f \in Nat : EffectiveTip(n, f) \in MaybeSlot
  BY SlotArithmetic DEF EffectiveTip

\* A verdict is one of the labels of the claim counter.
LEMMA VerdictType ==
    \A c : Verdict(c) \subseteq Verdicts
  <1> SUFFICES ASSUME NEW c PROVE Verdict(c) \subseteq Verdicts
    OBVIOUS
  <1>1. CASE Kind[c.task] \notin Verifiable
    BY <1>1 DEF Verdict, Judged, Verdicts
  <1>2. CASE Kind[c.task] \in Verifiable
    BY <1>2 DEF Verdict, Judged, Verdicts, Verifiable
  <1> QED BY <1>1, <1>2

-----------------------------------------------------------------------------
(* Type correctness. *)

\* Init gives every variable its type.
LEMMA InitType == Init => TypeOK
  <1> SUFFICES ASSUME Init PROVE TypeOK
    OBVIOUS
  <1>1. chain \in Slot /\ node \in Slot
    BY EnvironmentAssumption DEF Init, Slot
  <1>2. NoSlot \in MaybeSlot
    BY DEF MaybeSlot
  <1> QED
    BY <1>1, <1>2 DEF Init, TypeOK

\* Finish leaves every task variable in its type.
LEMMA FinishType ==
    ASSUME TypeOK, NEW t \in Task, Finish(t)
    PROVE  /\ pc' \in [Task -> {"idle", "sent", "answered"} \cup Recording]
           /\ ask' \in [Task -> MaybeSlot] /\ ans' \in [Task -> MaybeSlot]
           /\ clockOff' \in [Task -> BOOLEAN] /\ age' \in [Task -> Nat]
           /\ seen' \in [Task -> MaybeSlot]
           /\ caughtUp' \in [Task -> BOOLEAN] /\ flagged' \in [Task -> BOOLEAN]
  BY DEF Finish, Goto, TypeOK, MaybeSlot

\* A step of the environment keeps the types.
LEMMA EnvironmentType ==
    ASSUME TypeOK, Tick \/ PollReference PROVE TypeOK'
  <1>1. CASE Tick
    <2>1. chain' \in Slot /\ node' \in Slot /\ nodeTip' \in MaybeSlot /\ vage' \in Nat
      BY <1>1 DEF Tick, TypeOK, Slot, MaybeSlot, NoSlot
    <2>2. age' \in [Task -> Nat]
      BY <1>1 DEF Tick, TypeOK
    <2> QED
      BY <1>1, <2>1, <2>2 DEF Tick, TypeOK, sink, scratch
  <1>2. CASE PollReference
    <2>1. fleet' \in Nat
      BY <1>2, SlotArithmetic DEF PollReference, TypeOK, Slot
    <2> QED
      BY <1>2, <2>1 DEF PollReference, TypeOK, world, sink, answer, scratch, verifier
  <1> QED BY <1>1, <1>2

\* A step of a check task keeps the types.
LEMMA TaskType ==
    ASSUME TypeOK, NEW t \in Task, TaskStep(t) PROVE TypeOK'
  <1> USE DEF Goto
  <1>1. CASE Call(t)
    <2>1. SatSub(fleet, BlockDepth) \in MaybeSlot
      BY SlotArithmetic, ConfigAssumption DEF TypeOK, MaybeSlot, Slot
    <2> QED
      BY <1>1, <2>1 DEF Call, TypeOK, MaybeSlot, world, tip, sink, scratch, verifier
  <1>2. CASE AnswerSuccess(t)
    <2>1. Reports(t) \subseteq MaybeSlot
      BY EnvironmentAssumption DEF Reports, TypeOK, MaybeSlot, Slot, NoSlot
    <2>2. ans' \in [Task -> MaybeSlot]
      BY <1>2, <2>1 DEF AnswerSuccess, TypeOK, MaybeSlot
    <2>3. clockOff' \in [Task -> BOOLEAN]
      BY <1>2 DEF AnswerSuccess, TypeOK
    <2> QED
      BY <1>2, <2>2, <2>3 DEF AnswerSuccess, TypeOK, world, tip, sink, scratch, verifier
  <1>3. CASE AnswerFailure(t)
    BY <1>3, FinishType DEF AnswerFailure, TypeOK, world, tip, sink, verifier
  <1>4. CASE Gate(t)
    <2>1. CASE StaleByLag(fleet, ObservedSlot(t), MaxSlotLag)
      BY <1>4, <2>1, FinishType DEF Gate, Count, TypeOK, world, tip, sink, verifier
    <2>2. CASE ~StaleByLag(fleet, ObservedSlot(t), MaxSlotLag)
      BY <1>4, <2>2 DEF Gate, TypeOK, Recording, world, tip, sink, scratch, verifier
    <2> QED BY <2>1, <2>2
  <1>5. CASE SubmitReadNode(t)
    BY <1>5 DEF SubmitReadNode, TypeOK, Recording, world, tip, sink, answer, verifier
  <1>6. CASE SubmitReadFleet(t)
    <2>1. IsCaughtUp(seen[t], fleet) \in BOOLEAN
      BY DEF IsCaughtUp
    <2> QED
      BY <1>6, <2>1 DEF SubmitReadFleet, TypeOK, Recording, world, tip, sink, answer,
                        verifier
  <1>7. CASE SubmitCompare(t)
    <2>1. flagged' \in [Task -> BOOLEAN]
      BY <1>7 DEF SubmitCompare, SlotImplausible, TypeOK
    <2> QED
      BY <1>7, <2>1 DEF SubmitCompare, TypeOK, Recording, world, tip, sink, answer, verifier
  <1>8. CASE SubmitPush(t)
    <2> DEFINE slot == IF ClaimSlot(t) # NoSlot THEN ClaimSlot(t)
                       ELSE EffectiveTip(nodeTip, fleet)
    <2>1. slot \in MaybeSlot
      BY EffectiveTipType DEF ClaimSlot, TypeOK
    <2>2. CASE slot = NoSlot
      BY <1>8, <2>2 DEF SubmitPush, TypeOK, Recording, world, tip, sink, answer, scratch,
                        verifier
    <2>3. CASE slot # NoSlot
      <3>1. [id |-> nextId, task |-> t, slot |-> slot, implausible |-> flagged[t]] \in Claim
        BY <2>1, <2>3 DEF Claim, TypeOK, MaybeSlot
      <3>2. queue' \in SUBSET Claim /\ nextId' \in Nat
        BY <1>8, <2>3, <3>1 DEF SubmitPush, Push, TypeOK
      <3> QED
        BY <1>8, <3>2 DEF SubmitPush, TypeOK, Recording, world, tip, answer, scratch,
                          verifier
    <2> QED BY <2>2, <2>3
  <1>9. CASE ObserveTip(t)
    <2>1. fleet' \in Nat
      BY <1>9, SlotArithmetic DEF ObserveTip, ObservedSlot, TypeOK, MaybeSlot, Slot
    <2> QED
      BY <1>9, <2>1, FinishType DEF ObserveTip, TypeOK, world, sink, verifier
  <1> QED BY <1>1, <1>2, <1>3, <1>4, <1>5, <1>6, <1>7, <1>8, <1>9 DEF TaskStep

\* The end of a tick leaves the verifier's locals in their types.
LEMMA SleepType ==
    ASSUME SleepAgain
    PROVE  /\ vpc' \in {"sleep", "answered", "readTip", "drain", "readStale", "judge"}
           /\ polled' \in MaybeSlot /\ vage' \in Nat /\ vtip' \in MaybeSlot
           /\ nodeStale' \in BOOLEAN
  BY DEF SleepAgain, MaybeSlot

\* A step of the verifier keeps the types.
LEMMA VerifierType ==
    ASSUME TypeOK, VerifierStep PROVE TypeOK'
  <1> USE DEF world, tip, sink, answer, scratch
  <1>1. CASE PollNode
    BY <1>1 DEF PollNode, TypeOK, MaybeSlot
  <1>2. CASE SetNodeTip
    BY <1>2 DEF SetNodeTip, TypeOK
  <1>3. CASE ReadTip
    <2>1. CASE EffectiveTip(nodeTip, fleet) = NoSlot
      BY <1>3, <2>1, SleepType DEF ReadTip, TypeOK
    <2>2. CASE EffectiveTip(nodeTip, fleet) # NoSlot
      BY <1>3, <2>2, EffectiveTipType DEF ReadTip, TypeOK
    <2> QED BY <2>1, <2>2
  <1>4. CASE DrainDue
    <2>1. queue' \in SUBSET Claim /\ due' \in SUBSET Claim
      BY <1>4 DEF DrainDue, Kept, TypeOK
    <2>2. CASE due' = {}
      BY <1>4, <2>1, <2>2, SleepType DEF DrainDue, TypeOK
    <2>3. CASE due' # {}
      BY <1>4, <2>1, <2>3 DEF DrainDue, TypeOK
    <2> QED BY <2>2, <2>3
  <1>5. CASE ReadStale
    BY <1>5 DEF ReadStale, IsNodeStale, TypeOK
  <1>6. CASE Judge
    <2>1. recorded' \in SUBSET (Task \X (Verdicts \cup {"stale"})) /\ due' \in SUBSET Claim
      BY <1>6, VerdictType DEF Judge, Count, Claim, TypeOK
    <2>2. CASE due' = {}
      BY <1>6, <2>1, <2>2, SleepType DEF Judge, TypeOK
    <2>3. CASE due' # {}
      BY <1>6, <2>1, <2>3 DEF Judge, TypeOK
    <2> QED BY <2>2, <2>3
  <1> QED BY <1>1, <1>2, <1>3, <1>4, <1>5, <1>6 DEF VerifierStep

\* Every step keeps the types.
LEMMA NextType == TypeOK /\ [Next]_vars => TypeOK'
  <1> SUFFICES ASSUME TypeOK, [Next]_vars PROVE TypeOK'
    OBVIOUS
  <1>1. CASE UNCHANGED vars
    BY <1>1 DEF vars, world, tip, sink, answer, scratch, verifier, TypeOK
  <1>2. CASE Next
    BY <1>2, EnvironmentType, TaskType, VerifierType DEF Next
  <1> QED BY <1>1, <1>2

\* Every variable keeps its type whatever the tasks, the verifier, the node and
\* the providers do.
THEOREM TypeCorrect == Spec => []TypeOK
  BY InitType, NextType, PTL DEF Spec

-----------------------------------------------------------------------------
(* What the verifier's reads of the two tips mean for the batch it judges. *)

\* The effective tip of the tick was one of the two tips, and both only grow
\* until node_stale is read; what is due is due at that effective tip; a node
\* that is not stale is within StaleAfter of it.  A poll that succeeded is the
\* node tip until the tick is judged, and the node itself is no lower.
BatchInv ==
    /\ vpc \in {"drain", "readStale"} => vtip <= nodeTip \/ vtip <= fleet
    /\ vpc \in {"readStale", "judge"} => \A c \in due : IsDue(c, vtip)
    /\ vpc = "judge" /\ ~nodeStale /\ nodeTip # NoSlot => vtip <= nodeTip + StaleAfter
    /\ vpc # "sleep" => polled <= node
    /\ vpc \in {"readTip", "drain", "readStale"} /\ polled # NoSlot => nodeTip = polled
    /\ vpc = "judge" /\ ~nodeStale /\ polled # NoSlot => vtip <= polled + StaleAfter

\* A step that leaves the verifier and the node tip alone, and can only raise
\* the fleet tip, keeps it.
LEMMA BatchFrame ==
    ASSUME TypeOK, BatchInv, fleet' \in Nat, fleet' >= fleet,
           UNCHANGED <<world, nodeTip, verifier>>
    PROVE  BatchInv'
  BY ConfigAssumption
  DEF BatchInv, IsDue, TypeOK, world, verifier, MaybeSlot, Slot, NoSlot

\* No step of a check task lowers a tip the verifier has read.
LEMMA BatchTask ==
    ASSUME TypeOK, BatchInv, NEW t \in Task, TaskStep(t) PROVE BatchInv'
  <1>1. CASE ObserveTip(t)
    <2>1. fleet' \in Nat /\ fleet' >= fleet
      BY <1>1, SlotArithmetic
      DEF ObserveTip, ObservedSlot, Observe, TypeOK, MaybeSlot, Slot
    <2> QED BY <1>1, <2>1, BatchFrame DEF ObserveTip
  <1>2. CASE ~ObserveTip(t)
    <2>1. fleet' = fleet /\ UNCHANGED <<world, nodeTip, verifier>>
      BY <1>2 DEF TaskStep, Call, AnswerSuccess, AnswerFailure, Gate, SubmitReadNode,
                  SubmitReadFleet, SubmitCompare, SubmitPush, tip
    <2> QED BY <2>1, BatchFrame DEF TypeOK
  <1> QED BY <1>1, <1>2

\* Time passes and the node is polled only where the batch does not mind.
LEMMA BatchEnvironment ==
    ASSUME TypeOK, BatchInv, Tick \/ PollReference PROVE BatchInv'
  <1>1. CASE Tick
    <2>1. vpc \in {"sleep", "answered", "judge"}
      BY <1>1 DEF Tick, AtRest
    <2>2. nodeTip' # NoSlot => nodeTip # NoSlot /\ nodeTip' = nodeTip + 1
      BY <1>1 DEF Tick
    <2>3. node' >= node
      BY <1>1 DEF Tick, TypeOK, Slot
    <2>4. UNCHANGED <<vpc, vtip, due, nodeStale, polled>>
      BY <1>1 DEF Tick
    <2> QED
      BY <2>1, <2>2, <2>3, <2>4, <1>1, ConfigAssumption
      DEF BatchInv, IsDue, TypeOK, Tick, MaybeSlot, Slot, NoSlot
  <1>2. CASE PollReference
    <2>1. fleet' \in Nat /\ fleet' >= fleet
      BY <1>2, SlotArithmetic DEF PollReference, Observe, TypeOK, Slot
    <2> QED BY <1>2, <2>1, BatchFrame DEF PollReference
  <1> QED BY <1>1, <1>2

\* The verifier's own steps, from one read to the next, establish it.
LEMMA BatchVerifier ==
    ASSUME TypeOK, BatchInv, VerifierStep PROVE BatchInv'
  <1> USE DEF world, tip, sink
  <1>1. CASE PollNode
    <2>1. vpc' = "answered" /\ polled' <= node' /\ UNCHANGED <<node, nodeTip>>
      BY <1>1 DEF PollNode, TypeOK, Slot, NoSlot
    <2> QED BY <2>1 DEF BatchInv
  <1>2. CASE SetNodeTip
    <2>1. vpc = "answered" /\ vpc' = "readTip" /\ UNCHANGED <<node, polled>>
      BY <1>2 DEF SetNodeTip
    <2>2. polled' # NoSlot => nodeTip' = polled'
      BY <1>2 DEF SetNodeTip
    <2> QED BY <2>1, <2>2 DEF BatchInv
  <1>3. CASE ReadTip
    <2>1. CASE EffectiveTip(nodeTip, fleet) = NoSlot
      BY <1>3, <2>1 DEF ReadTip, SleepAgain, BatchInv
    <2>2. CASE EffectiveTip(nodeTip, fleet) # NoSlot
      <3>1. /\ vtip' = EffectiveTip(nodeTip, fleet) /\ vpc = "readTip" /\ vpc' = "drain"
            /\ UNCHANGED <<node, fleet, nodeTip, polled>>
        BY <1>3, <2>2 DEF ReadTip
      <3>2. vtip' <= nodeTip \/ vtip' <= fleet
        BY <3>1 DEF EffectiveTip, Higher, Current, TypeOK, MaybeSlot, Slot, NoSlot
      <3> QED BY <3>1, <3>2 DEF BatchInv
    <2> QED BY <2>1, <2>2
  <1>4. CASE DrainDue
    <2>1. CASE due' = {}
      BY <1>4, <2>1 DEF DrainDue, SleepAgain, BatchInv
    <2>2. CASE due' # {}
      <3>1. /\ vpc = "drain" /\ vpc' = "readStale"
            /\ UNCHANGED <<node, fleet, nodeTip, polled, vtip>>
        BY <1>4, <2>2 DEF DrainDue
      <3>2. \A c \in due' : IsDue(c, vtip)
        BY <1>4 DEF DrainDue
      <3> QED BY <3>1, <3>2 DEF BatchInv, IsDue
    <2> QED BY <2>1, <2>2
  <1>5. CASE ReadStale
    <2>1. /\ vpc = "readStale" /\ vpc' = "judge"
          /\ UNCHANGED <<node, fleet, nodeTip, polled, vtip, due>>
          /\ nodeStale' = IsNodeStale(nodeTip, fleet)
      BY <1>5 DEF ReadStale
    <2>2. ASSUME ~nodeStale', nodeTip # NoSlot PROVE vtip <= nodeTip + StaleAfter
      <3>1. ~IsNodeStale(nodeTip, fleet)
        BY <2>1, <2>2, Zenon
      <3> QED
        BY <3>1, <2>1, <2>2, ConfigAssumption
        DEF BatchInv, IsNodeStale, LagOf, SatSub, Current, TypeOK, MaybeSlot, Slot, NoSlot
    <2>3. polled # NoSlot => nodeTip = polled
      BY <2>1 DEF BatchInv
    <2> QED BY <2>1, <2>2, <2>3 DEF BatchInv, IsDue
  <1>6. CASE Judge
    <2>1. vpc = "judge" /\ due' \subseteq due /\ UNCHANGED <<node, fleet, nodeTip>>
      BY <1>6 DEF Judge
    <2>2. CASE due' = {}
      BY <1>6, <2>2 DEF Judge, SleepAgain, BatchInv
    <2>3. CASE due' # {}
      BY <1>6, <2>1, <2>3 DEF Judge, BatchInv, IsDue
    <2> QED BY <2>2, <2>3
  <1> QED BY <1>1, <1>2, <1>3, <1>4, <1>5, <1>6 DEF VerifierStep

\* Every step keeps BatchInv.
LEMMA BatchInductive ==
    /\ Init => BatchInv
    /\ TypeOK /\ BatchInv /\ [Next]_vars => BatchInv'
  <1>1. Init => BatchInv
    BY DEF Init, BatchInv
  <1>2. ASSUME TypeOK, BatchInv, [Next]_vars PROVE BatchInv'
    <2>1. CASE UNCHANGED vars
      <3>1. fleet' = fleet /\ UNCHANGED <<world, nodeTip, verifier>>
        BY <2>1 DEF vars, tip
      <3> QED BY <1>2, <3>1, BatchFrame DEF TypeOK
    <2>2. CASE Next
      BY <1>2, <2>2, BatchTask, BatchEnvironment, BatchVerifier DEF Next
    <2> QED BY <1>2, <2>1, <2>2
  <1> QED BY <1>1, <1>2

\* What run_verify_tick knows of the batch it judges: every claim in it is due at
\* an effective tip that a node found current cannot be far behind.
THEOREM BatchInvariant == Spec => []BatchInv
  BY BatchInductive, TypeCorrect, PTL DEF Spec

\* However the reads of the two tips interleave with the threads that raise
\* them, nothing is judged before the node is within StaleAfter of the slot
\* plus the settling delay.
THEOREM JudgedSettled == Spec => []JudgedIsSettled
  <1>1. TypeOK /\ BatchInv => JudgedIsSettled
    BY ConfigAssumption
    DEF BatchInv, JudgedIsSettled, IsDue, TypeOK, Claim, MaybeSlot, Slot, NoSlot
  <1> QED BY <1>1, TypeCorrect, BatchInvariant, PTL

\* The node knows every slot it was judged fit for: with a settling delay that
\* covers the staleness limit, and a node that answers its getSlot, an honest
\* transaction is never reported missing.
THEOREM HonestTransactionsFound ==
    ASSUME StaleAfter + ConfirmLag <= Delay, ~PollMayFail
    PROVE  Spec => []HonestNeverMissing
  <1> DEFINE Inv == HonestNeverMissing /\ (vpc # "sleep" => polled # NoSlot)
  <1>1. Init => Inv
    BY DEF Init, HonestNeverMissing
  <1>2. ASSUME TypeOK, BatchInv, Inv, [Next]_vars PROVE Inv'
    <2>1. CASE PollNode
      BY <2>1, <1>2 DEF PollNode, HonestNeverMissing, TypeOK, Slot, NoSlot
    <2>2. CASE Judge
      <3>0. PICK c \in due : \E r \in Verdict(c) : recorded' = recorded \cup {<<c.task, r>>}
        BY <2>2 DEF Judge, Count
      <3>1. PICK r \in Verdict(c) : recorded' = recorded \cup {<<c.task, r>>}
        BY <3>0
      <3>2. ASSUME c.task \in Honest, r = "missing" PROVE FALSE
        <4>1. ~c.implausible /\ ~nodeStale /\ r \in Judged(c)
          BY <3>1, <3>2 DEF Verdict
        <4>2. vpc = "judge" /\ polled # NoSlot
          BY <2>2, <1>2 DEF Judge
        <4>3. c.slot + Delay <= vtip
          BY <4>1, <4>2, <1>2 DEF BatchInv, IsDue
        <4>4. vtip <= polled + StaleAfter /\ polled <= node
          BY <4>1, <4>2, <1>2 DEF BatchInv
        <4>5. c.slot <= node - ConfirmLag
          BY <4>3, <4>4, <1>2, ConfigAssumption, EnvironmentAssumption
          DEF TypeOK, Claim, MaybeSlot, Slot, NoSlot
        <4>6. NodeKnows(c.slot)
          BY <4>5 DEF NodeKnows
        <4> QED BY <4>1, <4>6, <3>2 DEF Judged, Verifiable
      <3>3. HonestNeverMissing'
        BY <3>1, <3>2, <1>2 DEF HonestNeverMissing
      <3> QED BY <2>2, <3>3, <1>2 DEF Judge, SleepAgain
    <2>3. CASE VerifierStep /\ ~PollNode /\ ~Judge
      BY <2>3, <1>2 DEF VerifierStep, SetNodeTip, ReadTip, DrainDue, ReadStale, SleepAgain,
                        HonestNeverMissing
    <2>4. CASE \E t \in Task : TaskStep(t)
      <3>1. PICK t \in Task : TaskStep(t)
        BY <2>4
      <3>2. recorded' \subseteq recorded \cup {<<t, "stale">>} /\ UNCHANGED <<vpc, polled>>
        BY <3>1 DEF TaskStep, Call, AnswerSuccess, AnswerFailure, Gate, Count,
                    SubmitReadNode, SubmitReadFleet, SubmitCompare, SubmitPush, ObserveTip,
                    verifier
      <3> QED BY <3>2, <1>2 DEF HonestNeverMissing
    <2>5. CASE Tick \/ PollReference \/ UNCHANGED vars
      BY <2>5, <1>2 DEF Tick, PollReference, vars, verifier, HonestNeverMissing
    <2> QED BY <1>2, <2>1, <2>2, <2>3, <2>4, <2>5 DEF Next
  <1>3. Inv => HonestNeverMissing
    OBVIOUS
  <1> QED BY <1>1, <1>2, <1>3, TypeCorrect, BatchInvariant, PTL DEF Spec

-----------------------------------------------------------------------------
(* What honest answers name, and how far the node tip can be off. *)

\* An honest provider names no slot above the chain, and no answer is older
\* than Flight; the node and its projected tip trail the chain by a bounded
\* distance.
WorldInv ==
    /\ node <= chain /\ chain - node <= NodeLag
    /\ vage <= Flight /\ \A t \in Task : age[t] <= Flight
    /\ \A t \in Honest : ans[t] <= chain /\ ~clockOff[t]
    /\ \A t \in Honest : Kind[t] = "block" /\ pc[t] \notin {"idle", "sent"} => ask[t] <= chain
    /\ vpc = "answered" /\ polled # NoSlot => chain <= polled + NodeLag + vage
    /\ nodeTip # NoSlot => chain <= nodeTip + NodeLag + Flight

\* Nothing was reported yet.
LEMMA WorldInit == Init => WorldInv
  BY EnvironmentAssumption, ConfigAssumption DEF Init, WorldInv, NoSlot

\* As the chain grows so do the ages and the projected node tip.
LEMMA WorldEnvironment ==
    ASSUME TypeOK, WorldInv, Tick \/ PollReference PROVE WorldInv'
  <1>1. CASE Tick
    <2>1. node' <= chain' /\ chain' - node' <= NodeLag /\ chain' >= chain /\ chain' <= chain + 1
      BY <1>1 DEF Tick, TypeOK, Slot
    <2>2. vage' <= Flight /\ \A t \in Task : age'[t] <= Flight
      BY <1>1, EnvironmentAssumption DEF Tick, Timely, WorldInv, TypeOK
    <2>3. \A t \in Honest : ans'[t] <= chain' /\ ~clockOff'[t]
      BY <1>1, <2>1, ConfigAssumption DEF Tick, WorldInv, TypeOK, MaybeSlot, Slot, NoSlot
    <2>4. \A t \in Honest : Kind[t] = "block" /\ pc'[t] \notin {"idle", "sent"} => ask'[t] <= chain'
      BY <1>1, <2>1, ConfigAssumption DEF Tick, WorldInv, TypeOK, MaybeSlot, Slot, NoSlot
    <2>5. vpc' = "answered" /\ polled' # NoSlot => chain' <= polled' + NodeLag + vage'
      BY <1>1, <2>1, EnvironmentAssumption
      DEF Tick, WorldInv, TypeOK, MaybeSlot, Slot, NoSlot
    <2>6. nodeTip' # NoSlot => chain' <= nodeTip' + NodeLag + Flight
      BY <1>1, <2>1, EnvironmentAssumption
      DEF Tick, WorldInv, TypeOK, MaybeSlot, Slot, NoSlot
    <2> QED BY <2>1, <2>2, <2>3, <2>4, <2>5, <2>6 DEF WorldInv
  <1>2. CASE PollReference
    BY <1>2 DEF PollReference, WorldInv, world, answer, verifier
  <1> QED BY <1>1, <1>2

\* An honest answer names what was on the chain when it was formed.
LEMMA WorldTask ==
    ASSUME TypeOK, WorldInv, NEW t \in Task, TaskStep(t) PROVE WorldInv'
  <1> USE DEF Goto
  <1>0. UNCHANGED <<chain, node, nodeTip, vpc, polled, vage>>
    BY DEF TaskStep, Call, AnswerSuccess, AnswerFailure, Gate, SubmitReadNode,
           SubmitReadFleet, SubmitCompare, SubmitPush, ObserveTip, world, tip, verifier
  <1>1. CASE Call(t)
    BY <1>0, <1>1, ConfigAssumption DEF Call, WorldInv, TypeOK
  <1>2. CASE AnswerSuccess(t)
    <2>1. PICK s \in (IF Kind[t] = "block" THEN {NoSlot} ELSE Reports(t)) :
              ans' = [ans EXCEPT ![t] = s]
      BY <1>2 DEF AnswerSuccess
    <2>2. t \in Honest => s <= chain
      BY <2>1, EnvironmentAssumption DEF Reports, TypeOK, Slot, NoSlot
    <2>3. \A u \in Honest : ans'[u] <= chain' /\ ~clockOff'[u]
      BY <1>0, <1>2, <2>1, <2>2, ConfigAssumption DEF AnswerSuccess, WorldInv, TypeOK
    <2>4. \A u \in Honest : Kind[u] = "block" /\ pc'[u] \notin {"idle", "sent"} => ask'[u] <= chain'
      BY <1>0, <1>2, ConfigAssumption DEF AnswerSuccess, WorldInv, TypeOK
    <2>5. age' = age
      BY <1>2 DEF AnswerSuccess
    <2> QED BY <1>0, <2>3, <2>4, <2>5 DEF WorldInv
  <1>3. ASSUME Finish(t) PROVE WorldInv'
    <2>1. \A u \in Task : age'[u] <= Flight
      BY <1>3, EnvironmentAssumption DEF Finish, WorldInv, TypeOK
    <2>2. \A u \in Honest : ans'[u] <= chain' /\ ~clockOff'[u]
      BY <1>0, <1>3, ConfigAssumption DEF Finish, WorldInv, TypeOK, Slot, NoSlot
    <2>3. \A u \in Honest : Kind[u] = "block" /\ pc'[u] \notin {"idle", "sent"} => ask'[u] <= chain'
      BY <1>0, <1>3, ConfigAssumption DEF Finish, WorldInv, TypeOK
    <2> QED BY <1>0, <2>1, <2>2, <2>3 DEF WorldInv
  <1>4. CASE Gate(t) /\ ~Finish(t)
    <2>1. /\ UNCHANGED <<ask, ans, clockOff>> /\ age' = [age EXCEPT ![t] = 0]
          /\ pc[t] = "answered" /\ pc' = [pc EXCEPT ![t] = "readNode"]
      BY <1>4 DEF Gate
    <2>2. \A u \in Task : age'[u] <= Flight
      BY <2>1, EnvironmentAssumption DEF WorldInv, TypeOK
    <2> QED BY <1>0, <2>1, <2>2, ConfigAssumption DEF WorldInv, TypeOK
  <1>5. CASE SubmitReadNode(t) \/ SubmitReadFleet(t) \/ SubmitCompare(t) \/ SubmitPush(t)
    <2>1. UNCHANGED <<ask, ans, clockOff, age>> /\ pc[t] \notin {"idle", "sent"}
      BY <1>5 DEF SubmitReadNode, SubmitReadFleet, SubmitCompare, SubmitPush, answer
    <2>2. \A u \in Task : pc'[u] \notin {"idle", "sent"} => pc[u] \notin {"idle", "sent"}
      BY <1>5, <2>1 DEF SubmitReadNode, SubmitReadFleet, SubmitCompare, SubmitPush, TypeOK
    <2> QED BY <1>0, <2>1, <2>2, ConfigAssumption DEF WorldInv
  <1> QED
    BY <1>1, <1>2, <1>3, <1>4, <1>5 DEF TaskStep, AnswerFailure, ObserveTip

\* The node tip is as old as the poll that set it.
LEMMA WorldVerifier ==
    ASSUME TypeOK, WorldInv, VerifierStep PROVE WorldInv'
  <1> USE DEF world, tip, sink, answer
  <1>0. UNCHANGED <<chain, node, age, ans, clockOff, ask, pc>>
    BY DEF VerifierStep, PollNode, SetNodeTip, ReadTip, DrainDue, ReadStale, Judge
  <1>1. CASE PollNode
    <2>1. UNCHANGED <<nodeTip, vage>> /\ (polled' # NoSlot => polled' = node)
      BY <1>1 DEF PollNode
    <2> QED BY <1>0, <2>1, EnvironmentAssumption DEF WorldInv, TypeOK, Slot
  <1>2. CASE SetNodeTip
    <2>1. nodeTip' # NoSlot => chain <= nodeTip' + NodeLag + Flight
      BY <1>2, EnvironmentAssumption
      DEF SetNodeTip, WorldInv, TypeOK, MaybeSlot, Slot, NoSlot
    <2>2. vpc' = "readTip" /\ vage' = 0
      BY <1>2 DEF SetNodeTip
    <2> QED BY <1>0, <2>1, <2>2, EnvironmentAssumption DEF WorldInv
  <1>3. CASE ReadTip \/ DrainDue \/ ReadStale \/ Judge
    <2>1. nodeTip' = nodeTip /\ vpc' # "answered" /\ vage' \in {vage, 0}
      BY <1>3 DEF ReadTip, DrainDue, ReadStale, Judge, SleepAgain
    <2> QED BY <1>0, <2>1, EnvironmentAssumption DEF WorldInv
  <1> QED BY <1>1, <1>2, <1>3 DEF VerifierStep

\* What set_node_tip stores and node_tip projects stays within NodeLag + Flight of
\* the chain, and no honest answer that record sees is ahead of the chain.
THEOREM WorldInvariant == Spec => []WorldInv
  <1>1. ASSUME TypeOK, WorldInv, [Next]_vars PROVE WorldInv'
    <2>1. CASE UNCHANGED vars
      BY <2>1, <1>1 DEF vars, world, tip, answer, verifier, WorldInv
    <2> QED BY <1>1, <2>1, WorldEnvironment, WorldTask, WorldVerifier DEF Next
  <1> QED BY <1>1, WorldInit, TypeCorrect, PTL DEF Spec

\* No honest answer is flagged, queued, drained or counted as implausible.
UnflaggedInv ==
    /\ \A t \in Honest : ~flagged[t]
    /\ \A c \in queue \cup due : c.task \in Honest => ~c.implausible
    /\ HonestNeverImplausible

\* submit flags no honest answer while the margin covers the node's lag.
LEMMA UnflaggedTask ==
    ASSUME NodeLag + Flight <= Margin, TypeOK, WorldInv, UnflaggedInv,
           NEW t \in Task, TaskStep(t)
    PROVE  UnflaggedInv'
  <1>0. due' = due /\ recorded' \subseteq recorded \cup {<<t, "stale">>}
    BY DEF TaskStep, Call, AnswerSuccess, AnswerFailure, Gate, Count, SubmitReadNode,
           SubmitReadFleet, SubmitCompare, SubmitPush, ObserveTip, verifier
  <1>1. HonestNeverImplausible'
    BY <1>0 DEF UnflaggedInv, HonestNeverImplausible
  <1>2. CASE SubmitCompare(t)
    <2>1. queue' = queue
      BY <1>2 DEF SubmitCompare, sink
    <2>2. ASSUME t \in Honest PROVE ~flagged'[t]
      <3>1. ClaimSlot(t) # NoSlot => ClaimSlot(t) <= chain
        BY <1>2, <2>2 DEF SubmitCompare, ClaimSlot, WorldInv
      <3>2. nodeTip # NoSlot => chain <= nodeTip + Margin
        BY EnvironmentAssumption, ConfigAssumption
        DEF WorldInv, TypeOK, MaybeSlot, Slot, NoSlot
      <3>3. ~SlotImplausible(caughtUp[t], nodeTip, ClaimSlot(t))
        BY <3>1, <3>2, ConfigAssumption
        DEF SlotImplausible, ClaimSlot, TypeOK, MaybeSlot, Slot, NoSlot
      <3>4. ~clockOff[t]
        BY <2>2 DEF WorldInv
      <3> QED
        BY <1>2, <3>3, <3>4, Zenon DEF SubmitCompare, TypeOK
    <2>3. \A u \in Honest : ~flagged'[u]
      BY <1>2, <2>2, ConfigAssumption DEF SubmitCompare, UnflaggedInv, TypeOK
    <2> QED BY <1>0, <1>1, <2>1, <2>3 DEF UnflaggedInv
  <1>3. CASE SubmitPush(t)
    <2>1. flagged' = flagged
      BY <1>3 DEF SubmitPush, scratch
    <2>2. \A c \in queue' : c \in queue \/ (c.task = t /\ c.implausible = flagged[t])
      <3> DEFINE slot == IF ClaimSlot(t) # NoSlot THEN ClaimSlot(t)
                         ELSE EffectiveTip(nodeTip, fleet)
      <3>1. CASE slot = NoSlot
        <4>1. UNCHANGED sink
          BY <1>3, <3>1 DEF SubmitPush
        <4> QED BY <4>1 DEF sink
      <3>2. CASE slot # NoSlot
        <4> DEFINE claim == [id |-> nextId, task |-> t, slot |-> slot,
                             implausible |-> flagged[t]]
        <4>1. queue' = Push(queue, claim)
          BY <1>3, <3>2 DEF SubmitPush
        <4>2. claim.task = t /\ claim.implausible = flagged[t]
          OBVIOUS
        <4>3. \A c \in Push(queue, claim) : c \in queue \/ c = claim
          <5> HIDE DEF claim
          <5> QED BY DEF Push
        <4> HIDE DEF claim
        <4> QED BY <4>1, <4>2, <4>3
      <3> QED BY <3>1, <3>2
    <2> QED BY <1>0, <1>1, <2>1, <2>2 DEF UnflaggedInv
  <1>4. CASE ~SubmitCompare(t) /\ ~SubmitPush(t)
    <2>1. queue' = queue
      BY <1>4 DEF TaskStep, Call, AnswerSuccess, AnswerFailure, Gate, SubmitReadNode,
                  SubmitReadFleet, ObserveTip, sink
    <2>2. \A u \in Honest : flagged'[u] => flagged[u]
      BY <1>4, ConfigAssumption
      DEF TaskStep, Call, AnswerSuccess, AnswerFailure, Gate, SubmitReadNode,
          SubmitReadFleet, ObserveTip, Finish, scratch, TypeOK
    <2> QED BY <1>0, <1>1, <2>1, <2>2 DEF UnflaggedInv
  <1> QED BY <1>2, <1>3, <1>4

\* The verifier counts as implausible what submit flagged and nothing else.
LEMMA UnflaggedVerifier ==
    ASSUME UnflaggedInv, VerifierStep PROVE UnflaggedInv'
  <1>1. flagged' = flagged
    BY DEF VerifierStep, PollNode, SetNodeTip, ReadTip, DrainDue, ReadStale, Judge, scratch
  <1>2. queue' \cup due' \subseteq queue \cup due
    BY DEF VerifierStep, PollNode, SetNodeTip, ReadTip, DrainDue, Kept, ReadStale, Judge,
           sink
  <1>3. CASE Judge
    <2>0. PICK c \in due : \E r \in Verdict(c) : recorded' = recorded \cup {<<c.task, r>>}
      BY <1>3 DEF Judge, Count
    <2>1. PICK r \in Verdict(c) : recorded' = recorded \cup {<<c.task, r>>}
      BY <2>0
    <2>2. ASSUME c.task \in Honest, r = "implausible" PROVE FALSE
      <3>1. ~c.implausible
        BY <2>2 DEF UnflaggedInv
      <3>2. "implausible" \notin Judged(c)
        <4>1. CASE Kind[c.task] \notin Verifiable
          BY <4>1 DEF Judged
        <4>2. CASE Kind[c.task] \in Verifiable
          BY <4>2 DEF Judged, Verifiable
        <4> QED BY <4>1, <4>2
      <3> QED BY <2>1, <2>2, <3>1, <3>2 DEF Verdict
    <2>3. HonestNeverImplausible'
      BY <2>1, <2>2 DEF UnflaggedInv, HonestNeverImplausible
    <2> QED BY <1>1, <1>2, <2>3 DEF UnflaggedInv
  <1>4. CASE ~Judge
    <2>1. recorded' = recorded
      BY <1>4 DEF VerifierStep, PollNode, SetNodeTip, ReadTip, DrainDue, ReadStale
    <2> QED BY <1>1, <1>2, <2>1 DEF UnflaggedInv, HonestNeverImplausible
  <1> QED BY <1>3, <1>4

\* With a node whose lag, seen through the delay of one answer, stays within
\* the margin, no honest answer is ever called implausible, whatever the other
\* providers report.
THEOREM HonestPlausible ==
    ASSUME NodeLag + Flight <= Margin
    PROVE  Spec => []HonestNeverImplausible
  <1>1. Init => UnflaggedInv
    BY ConfigAssumption DEF Init, UnflaggedInv, HonestNeverImplausible
  <1>2. ASSUME TypeOK, WorldInv, UnflaggedInv, [Next]_vars PROVE UnflaggedInv'
    <2>1. CASE Tick \/ PollReference \/ UNCHANGED vars
      BY <2>1, <1>2 DEF Tick, PollReference, vars, sink, scratch, verifier, UnflaggedInv,
                        HonestNeverImplausible
    <2> QED BY <1>2, <2>1, UnflaggedTask, UnflaggedVerifier DEF Next
  <1>3. UnflaggedInv => HonestNeverImplausible
    BY DEF UnflaggedInv
  <1> QED BY <1>1, <1>2, <1>3, TypeCorrect, WorldInvariant, PTL DEF Spec

-----------------------------------------------------------------------------
(* When every provider is honest, the tip is a slot of the chain. *)

\* An answer that waits for its record trails the chain by no more than it did
\* when it was formed, plus its age.
FreshInv ==
    /\ fleet <= chain
    /\ \A t \in Task : pc[t] = "answered" /\ ObservedSlot(t) # NoSlot
                         => chain <= ans[t] + Trail + age[t]
    /\ vpc = "judge" /\ nodeStale /\ polled # NoSlot => chain > polled + StaleAfter
    /\ HonestNeverStale

\* While everyone is honest, time passing makes no answer too old.
LEMMA FreshEnvironment ==
    ASSUME TypeOK, WorldInv, FreshInv, Tick \/ PollReference PROVE FreshInv'
  <1>1. CASE Tick
    <2>1. /\ chain \in Nat /\ chain' \in Nat /\ chain' >= chain /\ chain' <= chain + 1
          /\ fleet' = fleet
      BY <1>1 DEF Tick, TypeOK, Slot
    <2>2. UNCHANGED <<pc, ans, vpc, nodeStale, polled, recorded>>
      BY <1>1 DEF Tick
    <2>3. ASSUME NEW t \in Task, pc'[t] = "answered", ObservedSlot(t)' # NoSlot
          PROVE  chain' <= ans'[t] + Trail + age'[t]
      <3>1. chain <= ans[t] + Trail + age[t]
        BY <2>2, <2>3 DEF FreshInv, ObservedSlot
      <3>2. age'[t] = age[t] + 1
        BY <1>1, <2>2, <2>3 DEF Tick
      <3> QED
        BY <2>1, <2>2, <3>1, <3>2, EnvironmentAssumption DEF TypeOK, MaybeSlot, Slot, NoSlot
    <2>4. vpc' = "judge" /\ nodeStale' /\ polled' # NoSlot => chain' > polled' + StaleAfter
      BY <2>1, <2>2, ConfigAssumption DEF FreshInv, TypeOK, MaybeSlot, Slot, NoSlot
    <2>5. fleet' <= chain'
      BY <2>1 DEF FreshInv, TypeOK, Slot
    <2> QED BY <2>2, <2>3, <2>4, <2>5 DEF FreshInv, HonestNeverStale
  <1>2. CASE PollReference
    <2>1. fleet' <= chain'
      BY <1>2 DEF PollReference, Observe, Higher, FreshInv, WorldInv, TypeOK, world
    <2> QED
      BY <1>2, <2>1 DEF PollReference, FreshInv, ObservedSlot, HonestNeverStale, world,
                        answer, verifier
  <1> QED BY <1>1, <1>2

\* While everyone is honest, the tip an answer is gated against is on the chain.
LEMMA FreshTask ==
    ASSUME Honest = Task, Trail + Flight <= MaxSlotLag, TypeOK, WorldInv, FreshInv,
           NEW t \in Task, TaskStep(t)
    PROVE  FreshInv'
  <1> USE DEF Goto
  <1>0. UNCHANGED <<chain, vpc, nodeStale, polled>>
    BY DEF TaskStep, Call, AnswerSuccess, AnswerFailure, Gate, SubmitReadNode,
           SubmitReadFleet, SubmitCompare, SubmitPush, ObserveTip, world, verifier
  <1>1. CASE AnswerSuccess(t)
    <2>1. PICK s \in (IF Kind[t] = "block" THEN {NoSlot} ELSE Reports(t)) :
              ans' = [ans EXCEPT ![t] = s]
      BY <1>1 DEF AnswerSuccess
    <2>2. Kind[t] \in Observing => chain <= s + Trail
      BY <2>1, EnvironmentAssumption DEF Reports, Observing, TypeOK, Slot
    <2>3. UNCHANGED <<age, fleet, recorded>> /\ pc' = [pc EXCEPT ![t] = "answered"]
      BY <1>1 DEF AnswerSuccess, tip
    <2>3a. s \in Int
      BY <2>1, EnvironmentAssumption DEF Reports, TypeOK, Slot, NoSlot
    <2>4. ASSUME NEW u \in Task, pc'[u] = "answered", ObservedSlot(u)' # NoSlot
          PROVE  chain' <= ans'[u] + Trail + age'[u]
      <3>1. CASE u = t
        BY <1>0, <2>1, <2>2, <2>3, <2>3a, <2>4, <3>1, EnvironmentAssumption
        DEF ObservedSlot, TypeOK, Slot
      <3>2. CASE u # t
        BY <1>0, <2>1, <2>3, <2>4, <3>2 DEF FreshInv, ObservedSlot, TypeOK
      <3> QED BY <3>1, <3>2
    <2> QED BY <1>0, <2>3, <2>4 DEF FreshInv, HonestNeverStale
  <1>2. CASE Gate(t)
    <2>1. ~StaleByLag(fleet, ObservedSlot(t), MaxSlotLag)
      <3>1. SUFFICES ASSUME ObservedSlot(t) # NoSlot
                     PROVE  SatSub(Current(fleet), ObservedSlot(t)) <= MaxSlotLag
        BY ConfigAssumption
        DEF StaleByLag, SatSub, Current, ObservedSlot, TypeOK, MaybeSlot, Slot, NoSlot
      <3>2. ObservedSlot(t) = ans[t] /\ ans[t] \in Nat
        BY <3>1 DEF ObservedSlot, TypeOK, MaybeSlot, Slot
      <3>3. chain <= ans[t] + Trail + age[t] /\ age[t] <= Flight /\ fleet <= chain
        BY <1>2, <3>1 DEF Gate, FreshInv, WorldInv
      <3>4. Current(fleet) <= fleet /\ Current(fleet) \in Int
        BY DEF Current, TypeOK, NoSlot
      <3> QED
        BY <3>2, <3>3, <3>4, EnvironmentAssumption, ConfigAssumption
        DEF SatSub, TypeOK, Slot
    <2>2. UNCHANGED <<fleet, ans, recorded>> /\ pc' = [pc EXCEPT ![t] = "readNode"]
          /\ age' = [age EXCEPT ![t] = 0]
      BY <1>2, <2>1 DEF Gate, tip
    <2>3. \A u \in Task : pc'[u] = "answered" => u # t /\ pc[u] = "answered" /\ age'[u] = age[u]
      BY <2>2 DEF TypeOK
    <2> QED BY <1>0, <2>2, <2>3 DEF FreshInv, ObservedSlot, HonestNeverStale
  <1>3. CASE ObserveTip(t)
    <2>1. fleet' <= chain
      BY <1>3 DEF ObserveTip, ObservedSlot, Observe, Higher, FreshInv, WorldInv
    <2>2. \A u \in Task : pc'[u] = "answered"
                           => pc[u] = "answered" /\ ans'[u] = ans[u] /\ age'[u] = age[u]
      BY <1>3 DEF ObserveTip, Finish, TypeOK
    <2>3. recorded' = recorded
      BY <1>3 DEF ObserveTip
    <2> QED BY <1>0, <2>1, <2>2, <2>3 DEF FreshInv, ObservedSlot, HonestNeverStale
  <1>4. CASE ~AnswerSuccess(t) /\ ~Gate(t) /\ ~ObserveTip(t)
    <2>1. UNCHANGED <<fleet, recorded>>
      BY <1>4 DEF TaskStep, Call, AnswerFailure, SubmitReadNode, SubmitReadFleet,
                  SubmitCompare, SubmitPush, tip
    <2>2. \A u \in Task : pc'[u] = "answered"
                           => pc[u] = "answered" /\ ans'[u] = ans[u] /\ age'[u] = age[u]
      BY <1>4 DEF TaskStep, Call, AnswerFailure, SubmitReadNode, SubmitReadFleet,
                  SubmitCompare, SubmitPush, Finish, answer, TypeOK
    <2> QED BY <1>0, <2>1, <2>2 DEF FreshInv, ObservedSlot, HonestNeverStale
  <1> QED BY <1>1, <1>2, <1>3, <1>4

\* While everyone is honest, a stale node is one the chain has left behind.
LEMMA FreshVerifier ==
    ASSUME TypeOK, BatchInv, FreshInv, VerifierStep PROVE FreshInv'
  <1>0. UNCHANGED <<chain, fleet, pc, ans, age>>
    BY DEF VerifierStep, PollNode, SetNodeTip, ReadTip, DrainDue, ReadStale, Judge, world,
           tip, answer
  <1>1. HonestNeverStale'
    <2>1. recorded' \subseteq recorded \cup (Task \X Verdicts) \/ Judge
      BY DEF VerifierStep, PollNode, SetNodeTip, ReadTip, DrainDue, ReadStale
    <2>2. CASE Judge
      <3>0. PICK c \in due : \E r \in Verdict(c) : recorded' = recorded \cup {<<c.task, r>>}
        BY <2>2 DEF Judge, Count
      <3>1. PICK r \in Verdict(c) : recorded' = recorded \cup {<<c.task, r>>}
        BY <3>0
      <3>2. r # "stale"
        BY <3>1, VerdictType DEF Verdicts
      <3> QED BY <3>1, <3>2 DEF FreshInv, HonestNeverStale
    <2> QED BY <2>1, <2>2 DEF FreshInv, HonestNeverStale, Verdicts
  <1>2. CASE ReadStale
    <2>1. vpc = "readStale" /\ nodeStale' = IsNodeStale(nodeTip, fleet) /\ polled' = polled
      BY <1>2 DEF ReadStale
    <2>2. ASSUME nodeStale', polled # NoSlot PROVE chain > polled + StaleAfter
      <3>1. IsNodeStale(nodeTip, fleet)
        BY <2>1, <2>2, Zenon
      <3>2. nodeTip = polled
        BY <2>1, <2>2 DEF BatchInv
      <3> QED
        BY <3>1, <3>2, <2>2, ConfigAssumption
        DEF IsNodeStale, LagOf, SatSub, Current, FreshInv, TypeOK, MaybeSlot, Slot, NoSlot
    <2> QED BY <1>0, <1>1, <2>1, <2>2 DEF FreshInv, ObservedSlot
  <1>3. CASE Judge
    <2>1. CASE due' = {}
      BY <1>0, <1>1, <1>3, <2>1 DEF Judge, SleepAgain, FreshInv, ObservedSlot
    <2>2. CASE due' # {}
      BY <1>0, <1>1, <1>3, <2>2 DEF Judge, FreshInv, ObservedSlot
    <2> QED BY <2>1, <2>2
  <1>4. CASE PollNode \/ SetNodeTip \/ ReadTip \/ DrainDue
    <2>1. vpc' # "judge"
      BY <1>4 DEF PollNode, SetNodeTip, ReadTip, DrainDue, SleepAgain
    <2> QED BY <1>0, <1>1, <2>1 DEF FreshInv, ObservedSlot
  <1> QED BY <1>2, <1>3, <1>4 DEF VerifierStep

\* What an honest fleet keeps up, step by step.
LEMMA FreshInvariant ==
    ASSUME Honest = Task, Trail + Flight <= MaxSlotLag
    PROVE  Spec => []FreshInv
  <1>1. Init => FreshInv
    BY EnvironmentAssumption DEF Init, FreshInv, HonestNeverStale
  <1>2. ASSUME TypeOK, WorldInv, BatchInv, FreshInv, [Next]_vars PROVE FreshInv'
    <2>1. CASE UNCHANGED vars
      BY <2>1, <1>2 DEF vars, world, tip, answer, verifier, FreshInv, ObservedSlot,
                        HonestNeverStale
    <2> QED BY <1>2, <2>1, FreshEnvironment, FreshTask, FreshVerifier DEF Next
  <1> QED
    BY <1>1, <1>2, TypeCorrect, WorldInvariant, BatchInvariant, PTL DEF Spec

\* Honest providers only, none of them too far behind and no answer too slow: no
\* answer is scored stale, whatever the other threads made of the tip meanwhile.
THEOREM HonestFresh ==
    ASSUME Honest = Task, Trail + Flight <= MaxSlotLag
    PROVE  Spec => []HonestNeverStale
  <1>1. FreshInv => HonestNeverStale
    BY DEF FreshInv
  <1> QED BY <1>1, FreshInvariant, PTL

\* Among such providers the node is called stale only when it is.
THEOREM StaleNodeBehind ==
    ASSUME Honest = Task, Trail + Flight <= MaxSlotLag
    PROVE  Spec => []NodeStaleIsTrue
  <1>1. FreshInv => NodeStaleIsTrue
    BY DEF FreshInv, NodeStaleIsTrue
  <1> QED BY <1>1, FreshInvariant, PTL
-----------------------------------------------------------------------------
(* Where a claim is between its submission and its verdict. *)

\* A claim is in the queue, which keeps to its cap, or in the batch under
\* judgement, never in both; whatever is in either was numbered before the next
\* claim.  Outside the part of a tick that judges there is no batch.
SinkInv ==
    /\ IsFiniteSet(queue) /\ Cardinality(queue) <= Cap
    /\ queue \cap due = {}
    /\ \A c \in queue \cup due : c.id < nextId
    /\ vpc \notin {"readStale", "judge"} => due = {}

\* A set of claims that is not empty has an oldest one.
LEMMA OldestClaim ==
    ASSUME NEW q \in SUBSET Claim, q # {}
    PROVE  \E c \in q : \A d \in q : c.id <= d.id
  <1> DEFINE Ids == {c.id : c \in q}
  <1>1. Ids \subseteq Nat /\ Ids # {}
    BY DEF Claim
  <1>2. \E x \in Ids : \A y \in Ids : ~(<<y, x>> \in OpToRel(<, Nat))
    <2> HIDE DEF Ids
    <2> QED BY <1>1, NatLessThanWellFounded, WFMin
  <1>3. PICK x \in Ids : \A y \in Ids : ~(<<y, x>> \in OpToRel(<, Nat))
    BY <1>2
  <1>4. PICK c \in q : c.id = x
    OBVIOUS
  <1>5. ASSUME NEW d \in q PROVE c.id <= d.id
    <2>1. d.id \in Ids /\ d.id \in Nat /\ x \in Nat
      BY <1>1
    <2>2. ~(<<d.id, x>> \in OpToRel(<, Nat))
      BY <1>3, <2>1
    <2>3. ~(d.id < x)
      BY <2>1, <2>2 DEF OpToRel
    <2> QED BY <1>4, <2>1, <2>3
  <1> QED BY <1>4, <1>5

\* A full queue makes room before it takes a claim: it never exceeds its cap.
LEMMA PushBounded ==
    ASSUME NEW q \in SUBSET Claim, NEW c, IsFiniteSet(q), Cardinality(q) <= Cap
    PROVE  IsFiniteSet(Push(q, c)) /\ Cardinality(Push(q, c)) <= Cap
  <1> DEFINE rest == {d \in q : Cardinality(q) >= Cap => \E e \in q : e.id < d.id}
  <1>1. Cap \in Nat \ {0} /\ Cardinality(q) \in Nat
    BY ConfigAssumption, FS_CardinalityType
  <1>2. IsFiniteSet(rest) /\ Cardinality(rest) \in Nat /\ Cardinality(rest) <= Cap - 1
    <2>0. rest \in SUBSET q /\ IsFiniteSet(rest) /\ Cardinality(rest) <= Cardinality(q)
      <3>1. rest \in SUBSET q
        OBVIOUS
      <3> HIDE DEF rest
      <3> QED BY <3>1, FS_Subset
    <2>1. Cardinality(rest) \in Nat
      <3> HIDE DEF rest
      <3> QED BY <2>0, FS_CardinalityType
    <2>2. CASE Cardinality(q) < Cap
      <3> HIDE DEF rest
      <3> QED BY <1>1, <2>0, <2>1, <2>2
    <2>3. CASE Cardinality(q) >= Cap
      <3>1. q # {}
        BY <1>1, <2>3, FS_EmptySet
      <3>2. PICK o \in q : \A d \in q : o.id <= d.id
        BY <3>1, OldestClaim
      <3>3. \A d \in q : d.id \in Nat
        BY DEF Claim
      <3>4. o \notin rest
        BY <2>3, <3>2, <3>3
      <3> HIDE DEF rest
      <3>5. Cardinality(rest) # Cardinality(q)
        BY <2>0, <3>2, <3>4, FS_Subset
      <3> QED BY <1>1, <2>0, <2>1, <3>5
    <2> QED BY <1>1, <2>2, <2>3
  <1>3. Push(q, c) = rest \cup {c}
    BY DEF Push
  <1> HIDE DEF rest
  <1>4. IsFiniteSet(rest \cup {c}) /\ Cardinality(rest \cup {c}) <= Cap
    <2>1. /\ IsFiniteSet(rest \cup {c})
          /\ Cardinality(rest \cup {c}) =
               IF c \in rest THEN Cardinality(rest) ELSE Cardinality(rest) + 1
      BY ONLY <1>2, FS_AddElement
    <2> QED BY <1>1, <1>2, <2>1
  <1> QED BY <1>3, <1>4

\* A claim that is submitted leaves everything as it was, or takes the next number,
\* and with a full queue the place of the oldest.
LEMMA PushStep ==
    ASSUME TypeOK, SinkInv, NEW t \in Task, SubmitPush(t)
    PROVE  /\ SinkInv'
           /\ due' = due
           /\ \A c \in due : c \notin queue'
           /\ \A c \in queue \ queue' :
                /\ Cardinality(queue) = Cap
                /\ \A d \in queue : c.id <= d.id
                /\ nextId' = nextId + 1
  <1> DEFINE slot == IF ClaimSlot(t) # NoSlot THEN ClaimSlot(t)
                     ELSE EffectiveTip(nodeTip, fleet)
             new == [id |-> nextId, task |-> t, slot |-> slot, implausible |-> flagged[t]]
  <1>1. due' = due /\ vpc' = vpc
    BY DEF SubmitPush, verifier
  <1>2. CASE slot = NoSlot
    <2>1. queue' = queue /\ nextId' = nextId
      BY <1>2 DEF SubmitPush, sink
    <2> QED BY <1>1, <2>1 DEF SinkInv
  <1>3. CASE slot # NoSlot
    <2>1. queue' = Push(queue, new) /\ nextId' = nextId + 1
      BY <1>3 DEF SubmitPush
    <2>2. new.id = nextId
      OBVIOUS
    <2> HIDE DEF new, slot
    <2>3. queue \in SUBSET Claim /\ due \in SUBSET Claim /\ nextId \in Nat
      BY DEF TypeOK
    <2>4. IsFiniteSet(queue') /\ Cardinality(queue') <= Cap
      BY <2>1, <2>3, PushBounded DEF SinkInv
    <2>5. queue' \subseteq queue \cup {new}
      BY <2>1 DEF Push
    <2>6. \A c \in queue \cup due : c.id \in Nat /\ c.id < nextId
      BY <2>3 DEF SinkInv, Claim
    <2>7. new \notin due
      BY <2>2, <2>3, <2>6
    <2>8. \A c \in due : c \notin queue'
      BY <2>5, <2>7 DEF SinkInv
    <2>9. \A c \in queue' \cup due' : c.id < nextId'
      BY <1>1, <2>1, <2>2, <2>3, <2>5, <2>6
    <2>10. SinkInv'
      BY <1>1, <2>4, <2>8, <2>9 DEF SinkInv
    <2>11. ASSUME NEW c \in queue, c \notin queue'
           PROVE  Cardinality(queue) = Cap /\ \A d \in queue : c.id <= d.id
      <3>1. Cardinality(queue) >= Cap /\ ~ \E e \in queue : e.id < c.id
        BY <2>1, <2>11 DEF Push
      <3>2. Cardinality(queue) \in Nat /\ Cap \in Nat /\ Cardinality(queue) <= Cap
        BY FS_CardinalityType, ConfigAssumption DEF SinkInv
      <3> QED BY <2>6, <3>1, <3>2
    <2> QED BY <1>1, <2>1, <2>8, <2>10, <2>11
  <1> QED BY <1>2, <1>3

\* The drain moves what is due from the queue to the empty batch and leaves the rest.
LEMMA DrainStep ==
    ASSUME TypeOK, SinkInv, DrainDue
    PROVE  SinkInv' /\ due = {} /\ queue \subseteq queue' \cup due'
  <1>1. due = {} /\ nextId' = nextId
    BY DEF DrainDue, SinkInv
  <1>2. /\ queue' \subseteq queue /\ due' \subseteq queue /\ queue' \cap due' = {}
        /\ queue \subseteq queue' \cup due'
    BY DEF DrainDue, Kept
  <1>3. IsFiniteSet(queue') /\ Cardinality(queue') <= Cap
    <2>1. queue' \in SUBSET queue /\ IsFiniteSet(queue) /\ Cardinality(queue) <= Cap
      BY <1>2 DEF SinkInv
    <2>2. IsFiniteSet(queue') /\ Cardinality(queue') <= Cardinality(queue)
      BY <2>1, FS_Subset
    <2>3. Cardinality(queue') \in Nat /\ Cardinality(queue) \in Nat /\ Cap \in Nat
      BY <2>1, <2>2, FS_CardinalityType, ConfigAssumption
    <2> QED BY <2>1, <2>2, <2>3
  <1>4. vpc' \notin {"readStale", "judge"} => due' = {}
    BY DEF DrainDue
  <1> QED BY <1>1, <1>2, <1>3, <1>4 DEF SinkInv

\* A claim leaves the batch with a verdict.
LEMMA JudgeStep ==
    ASSUME TypeOK, SinkInv, Judge
    PROVE  /\ SinkInv'
           /\ queue' = queue
           /\ \A c \in due \ due' : \E r \in Verdicts : <<c.task, r>> \in recorded'
  <1>1. queue' = queue /\ nextId' = nextId
    BY DEF Judge, sink
  <1>2. PICK c \in due : /\ \E r \in Verdict(c) : Count(c.task, r)
                         /\ due' = due \ {c}
    BY DEF Judge
  <1>3. \E r \in Verdicts : <<c.task, r>> \in recorded'
    BY <1>2, VerdictType DEF Count
  <1>4. vpc' \notin {"readStale", "judge"} => due' = {}
    BY DEF Judge
  <1> QED BY <1>1, <1>2, <1>3, <1>4 DEF SinkInv

\* No other step touches the queue or the batch.
LEMMA OtherStep ==
    ASSUME TypeOK, SinkInv, [Next]_vars,
           \A t \in Task : ~SubmitPush(t), ~DrainDue, ~Judge
    PROVE  SinkInv' /\ queue' = queue /\ due' = due
  <1> USE DEF sink
  <1>1. CASE UNCHANGED vars
    BY <1>1 DEF vars, verifier, SinkInv
  <1>2. CASE Tick \/ PollReference
    BY <1>2 DEF Tick, PollReference, verifier, SinkInv
  <1>3. ASSUME NEW t \in Task, TaskStep(t)
        PROVE  UNCHANGED <<queue, nextId, due, vpc>>
    BY <1>3 DEF TaskStep, Call, AnswerSuccess, AnswerFailure, Gate, SubmitReadNode,
                SubmitReadFleet, SubmitCompare, ObserveTip, verifier
  <1>4. CASE VerifierStep
    BY <1>4 DEF VerifierStep, PollNode, SetNodeTip, ReadTip, ReadStale, SleepAgain, SinkInv
  <1> QED BY <1>1, <1>2, <1>3, <1>4 DEF Next, SinkInv

\* Every step keeps SinkInv, and no step of the process loses a claim.
LEMMA SinkInductive ==
    /\ Init => SinkInv
    /\ TypeOK /\ SinkInv /\ [Next]_vars => SinkInv'
  <1>1. Init => SinkInv
    BY FS_EmptySet, ConfigAssumption DEF Init, SinkInv
  <1>2. ASSUME TypeOK, SinkInv, [Next]_vars PROVE SinkInv'
    BY <1>2, PushStep, DrainStep, JudgeStep, OtherStep
  <1> QED BY <1>1, <1>2

\* However the threads that push and the verifier that drains and judges
\* interleave, and however full the queue is: a claim leaves with a verdict, or as
\* the oldest of a full queue, and what was taken to be judged is never queued again.
THEOREM ClaimsLeaveOnlyOnce == Spec => ClaimsLeaveOnce
  <1> DEFINE Leaves == \A c \in queue \cup due :
               /\ c \notin queue' \cup due' =>
                    \/ c \in due /\ \E r \in Verdicts : <<c.task, r>> \in recorded'
                    \/ /\ c \in queue /\ Cardinality(queue) = Cap
                       /\ \A d \in queue : c.id <= d.id
                       /\ nextId' = nextId + 1
               /\ c \in due => c \notin queue'
  <1>1. ASSUME TypeOK, SinkInv, [Next]_vars PROVE Leaves
    <2>1. ASSUME NEW t \in Task, SubmitPush(t) PROVE Leaves
      BY <1>1, <2>1, PushStep
    <2>2. CASE DrainDue
      BY <1>1, <2>2, DrainStep
    <2>3. CASE Judge
      BY <1>1, <2>3, JudgeStep DEF SinkInv
    <2>4. CASE ~DrainDue /\ ~Judge /\ \A t \in Task : ~SubmitPush(t)
      BY <1>1, <2>4, OtherStep DEF SinkInv
    <2> QED BY <2>1, <2>2, <2>3, <2>4
  <1>2. TypeOK /\ SinkInv /\ [Next]_vars => [Leaves]_vars
    BY <1>1
  <1> QED BY <1>2, SinkInductive, TypeCorrect, PTL DEF Spec, ClaimsLeaveOnce
=============================================================================
