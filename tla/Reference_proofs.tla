-------------------------- MODULE Reference_proofs --------------------------
(***************************************************************************)
(* Theorems about the two parts that ask the reference node: Judge, for    *)
(* every chain, window, tolerance and time to live, and ReferenceRound,    *)
(* for every list of providers, depth and chain.                           *)
(*                                                                         *)
(* Two arguments carry those about Judge.  The window search remembers     *)
(* enough: as long as no answer has failed, every slot above the cursor    *)
(* has been ruled out, whichever claim of the tick it was asked for.  And  *)
(* a count and a claim are no further apart than the time between them.    *)
(*                                                                         *)
(* What the round records of a provider is deserved, however the awaits    *)
(* interleave with the chain: the invariant adds to the properties what    *)
(* each phase has established, and that nothing is recorded before the     *)
(* slot of the round is fixed.                                             *)
(***************************************************************************)
EXTENDS Judge, ReferenceRound, TLAPS

-----------------------------------------------------------------------------
(* Types. *)

\* A judge runs for a claim of its kind, and has not reached a verdict.
Running ==
    /\ pc \in Kinds => job.kind = pc /\ verdict = "none"
    /\ pc = "sample" => job.kind = "accounts" /\ verdict = "none"
    /\ pc = "window" => cursor \in WindowFloor(job.slot) .. job.slot
    /\ pc = "exact" => cursor = job.slot

TypeInv == TypeOK /\ Running

\* Slots are numbers.
LEMMA SlotsAreNumbers == Slots \subseteq Int
  BY JudgeAssumption DEF Slots

\* The floor of a window is a slot, and no higher than its top.
LEMMA FloorBounds ==
    ASSUME NEW s \in Slots
    PROVE  WindowFloor(s) \in Slots /\ WindowFloor(s) <= s
  BY JudgeAssumption DEF Slots, WindowFloor, SatSub

\* Init gives every variable its type.
LEMMA TypeInit == Init => TypeInv
<1> SUFFICES ASSUME Init PROVE TypeInv
  OBVIOUS
<1>1. /\ 0 \in Slots /\ 0 \in 0 .. MaxLive /\ 0 \in 0 .. MaxDue /\ 0 \in 0 .. CountTTL
  BY JudgeAssumption DEF Slots
<1>2. NoScan \in Scan
  BY <1>1 DEF NoScan, Scan, Fates
<1>3. NoJob \in Claim
  BY <1>1 DEF NoJob, Claim, Kinds
<1>4. "sleep" \notin Kinds
  BY DEF Kinds, BlockKinds
<1>5. NothingAsked \in [Slots -> Blocks]
  BY DEF NothingAsked, Blocks
<1> QED
  BY <1>1, <1>2, <1>3, <1>4, <1>5 DEF Init, TypeInv, TypeOK, Running, Results

\* Every step keeps the types.
LEMMA TypeNext == TypeInv /\ [Next]_vars => TypeInv'
<1> SUFFICES ASSUME TypeInv, [Next]_vars PROVE TypeInv'
  OBVIOUS
<1>0. /\ Window \in Nat /\ CountTTL \in Nat /\ TopSlot \in Nat /\ MaxLive \in Nat
      /\ MaxDue \in Nat \ {0}
  BY JudgeAssumption
<1> USE DEF TypeInv, TypeOK, Running
<1>1. CASE UNCHANGED vars
  BY <1>1 DEF vars, chainVars, walk, counts
<1>2. CASE ScanAnswered
  <2>1. scan' \in Scan
    BY <1>2 DEF ScanAnswered, Scan, Fates
  <2> QED
    BY <1>2, <2>1 DEF ScanAnswered, chainVars, walk, counts
<1>3. CASE Tick
  <2>1. scan' \in Scan
    <3>1. ASSUME NEW f \in Fate(scan.fate), scan' = [scan EXCEPT !.fate = f, !.age = @ + 1]
          PROVE  scan' \in Scan
      <4>1. f \in Fates
        BY <3>1 DEF Fate, Scan, Fates
      <4>2. scan \in [count : 0 .. MaxLive, honest : BOOLEAN, fate : Fates, age : Nat]
        BY DEF Scan
      <4>3. scan.age + 1 \in Nat
        BY <4>2
      <4> QED BY <3>1, <4>1, <4>2, <4>3 DEF Scan
    <3> QED BY <1>3, <3>1 DEF Tick
  <2>2. confirmed' \in Slots /\ live' \in 0 .. MaxLive
    BY <1>3 DEF Tick
  <2>3. countAge' \in 0 .. CountTTL
    <3>1. countAge \in Nat /\ countAge <= CountTTL
      BY <1>0
    <3>2. countAge' = countAge \/ (countAge' = countAge + 1 /\ countAge < CountTTL)
      BY <1>3 DEF Tick
    <3> QED BY <1>0, <3>1, <3>2
  <2> QED
    BY <1>3, <2>1, <2>2, <2>3 DEF Tick, walk
<1>4. CASE BeginTick
  <2>1. blocks' \in [Slots -> Blocks]
    BY <1>4 DEF BeginTick, NothingAsked, Blocks
  <2>2. pc' = "next" /\ pc' \notin Kinds
    BY <1>4 DEF BeginTick, Kinds, BlockKinds
  <2> QED
    BY <1>0, <1>4, <2>1, <2>2 DEF BeginTick, chainVars, walk, counts
<1>5. CASE TakeClaim
  <2>1. PICK c \in Claim :
          /\ job' = c /\ pc' = c.kind
          /\ cursor' = IF c.kind \in BlockKinds THEN c.slot ELSE 0
    BY <1>5 DEF TakeClaim
  <2>2. c.kind \in Kinds /\ c.slot \in Slots
    BY <2>1 DEF Claim
  <2>3. cursor' \in Slots /\ (pc' \in {"exact", "window"} => cursor' = job'.slot)
    BY <1>0, <2>1, <2>2 DEF BlockKinds, Slots
  <2>4. pc' = "window" => cursor' \in WindowFloor(job'.slot) .. job'.slot
    BY <2>1, <2>2, <2>3, FloorBounds DEF Slots
  <2>5. left' \in 0 .. MaxDue
    BY <1>0, <1>5 DEF TakeClaim
  <2>6. scan' \in Scan
    BY <1>0, <1>5 DEF TakeClaim, Forgotten, NoScan, Scan, Fates
  <2>7. verdict' = "none" /\ verdict' \in Results
    BY <1>5 DEF TakeClaim, Results
  <2>8. pc' # "sample"
    BY <2>1, <2>2 DEF Kinds, BlockKinds
  <2> QED
    BY <1>5, <2>1, <2>2, <2>3, <2>4, <2>5, <2>6, <2>7, <2>8 DEF TakeClaim, chainVars, counts
<1>6. CASE EndTick
  <2>1. scan' \in Scan
    BY <1>0, <1>6 DEF EndTick, Forgotten, NoScan, Scan, Fates
  <2>2. job' \in Claim /\ verdict' \in Results /\ left' \in 0 .. MaxDue
    BY <1>0, <1>6 DEF EndTick, NoJob, Claim, Kinds, Slots, Results
  <2>3. pc' = "sleep" /\ pc' \notin Kinds
    BY <1>6 DEF EndTick, Kinds, BlockKinds
  <2> QED
    BY <1>6, <2>1, <2>2, <2>3 DEF EndTick, chainVars, walk, counts
<1>7. ASSUME NEW r \in Results, Conclude(r),
             UNCHANGED <<chainVars, scan, left, job>>,
             blocks' \in [Slots -> Blocks],
             cached' \in {NoCount} \cup (0 .. MaxLive), countAge' \in 0 .. CountTTL
      PROVE  TypeInv'
  <2>1. pc' = "next" /\ pc' \notin Kinds /\ cursor' \in Slots
    BY <1>0, <1>7 DEF Conclude, Kinds, BlockKinds, Slots
  <2> QED
    BY <1>7, <2>1 DEF Conclude, chainVars
<1>8. \A s \in Slots, b \in Blocks : NodeBlock(s, b) => blocks' \in [Slots -> Blocks]
  BY DEF NodeBlock
<1>9. CASE JudgeExact
  <2>1. PICK b \in Blocks :
          NodeBlock(job.slot, b) /\ Conclude(ExactVerdict(b, job.slot, job.of))
    BY <1>9 DEF JudgeExact
  <2>2. ExactVerdict(b, job.slot, job.of) \in Results
    BY DEF ExactVerdict, Results
  <2>3. job.slot \in Slots
    BY DEF Claim
  <2> QED
    BY <1>7, <1>8, <1>9, <2>1, <2>2, <2>3 DEF JudgeExact, counts
<1>10. CASE JudgeWindow
  <2> DEFINE Saw(b) == sawBlock \/ b = "hash"
             Gap(b) == sawUnavailable \/ b = "unavailable"
  <2>1. PICK b \in Blocks :
          /\ NodeBlock(cursor, b)
          /\ IF b = "hash" /\ cursor = job.of THEN Conclude("match")
             ELSE IF cursor = WindowFloor(job.slot)
             THEN Conclude(WindowVerdict(Saw(b), Gap(b)))
             ELSE /\ cursor' = cursor - 1
                  /\ sawBlock' = Saw(b)
                  /\ sawUnavailable' = Gap(b)
                  /\ UNCHANGED <<verdict, pc>>
    BY <1>10 DEF JudgeWindow
  <2>2. WindowVerdict(Saw(b), Gap(b)) \in Results /\ "match" \in Results
    BY DEF WindowVerdict, Results
  <2>3. /\ blocks' \in [Slots -> Blocks] /\ UNCHANGED <<chainVars, scan, left, job, counts>>
        /\ cached' \in {NoCount} \cup (0 .. MaxLive) /\ countAge' \in 0 .. CountTTL
    BY <1>8, <1>10, <2>1 DEF JudgeWindow, counts
  <2>4. CASE \E r \in Results : Conclude(r)
    BY <1>7, <2>3, <2>4
  <2>5. CASE /\ cursor # WindowFloor(job.slot) /\ cursor' = cursor - 1
             /\ sawBlock' = Saw(b) /\ sawUnavailable' = Gap(b)
             /\ UNCHANGED <<verdict, pc>>
    <3>1. pc = "window" /\ pc' = "window" /\ job.slot \in Slots
      BY <1>10, <2>5 DEF JudgeWindow, Claim
    <3>2. cursor' \in WindowFloor(job.slot) .. job.slot /\ cursor' \in Slots
      BY <1>0, <2>5, <3>1, FloorBounds DEF Slots
    <3>3. sawBlock' \in BOOLEAN /\ sawUnavailable' \in BOOLEAN
      BY <2>5
    <3> QED
      BY <2>3, <2>5, <3>1, <3>2, <3>3 DEF chainVars, counts
  <2> QED
    BY <2>1, <2>2, <2>4, <2>5
<1>11. CASE JudgeTx
  <2>1. \A r \in TxAnswers(job) : r \in Results
    BY DEF TxAnswers, Results
  <2> QED
    BY <1>7, <1>11, <2>1 DEF JudgeTx, counts
<1>12. CASE JudgeCount
  <2>1. /\ cached' \in {NoCount} \cup (0 .. MaxLive) /\ countAge' \in 0 .. CountTTL
    BY <1>0, <1>12 DEF JudgeCount, NodeCount, counts
  <2>2. CASE \E r \in {"mismatch", "skipped"} : Conclude(r)
    BY <1>7, <1>12, <2>1, <2>2 DEF JudgeCount, Results
  <2>3. CASE pc' = "sample" /\ UNCHANGED <<verdict, walk>>
    <3>1. "sample" \notin Kinds /\ pc = "accounts" /\ pc \in Kinds
      BY <1>12 DEF JudgeCount, Kinds, BlockKinds
    <3> QED
      BY <1>12, <2>1, <2>3, <3>1 DEF JudgeCount, chainVars, walk
  <2> QED
    BY <1>12, <2>2, <2>3 DEF JudgeCount
<1>13. CASE JudgeSample
  <2>1. SampleVerdict(scan.fate) \in Results /\ "skipped" \in Results
    BY DEF SampleVerdict, Results
  <2> QED
    BY <1>7, <1>13, <2>1 DEF JudgeSample, counts
<1> QED
  BY <1>1, <1>2, <1>3, <1>4, <1>5, <1>6, <1>9, <1>10, <1>11, <1>12, <1>13
     DEF Next, VerifierStep

\* Every variable of the verifier has its type; the search for a window's floor
\* does not run below slot 0.
THEOREM TypeCorrect == Spec => []TypeOK
<1>1. TypeInv => TypeOK
  BY DEF TypeInv
<1> QED
  BY <1>1, TypeInit, TypeNext, PTL DEF Spec

-----------------------------------------------------------------------------
(* Blocks. *)

\* What the cache holds of a slot is true, and was confirmed already.
CacheTrue ==
    \A s \in Slots :
        /\ blocks[s] = "hash" => s \in produced /\ s <= confirmed
        /\ blocks[s] = "skipped" => s \notin produced /\ s <= confirmed

\* What a window search knows of the slots it has passed: none of them has the
\* hash unless an answer failed, and one has failed if the top of the window is
\* not confirmed yet.
PassedSlots ==
    pc = "window" /\ ~sawUnavailable =>
        /\ \A s \in Slots : cursor < s /\ s <= job.slot => s # job.of \/ s \notin produced
        /\ cursor < job.slot => job.slot <= confirmed

BlockInv == TypeInv /\ CacheTrue /\ PassedSlots /\ BlockVerdictsTrue

\* An answer, new or from the cache, is true and of a confirmed slot.
LEMMA AnswerTrue ==
    ASSUME BlockInv, NEW s \in Slots, NEW b \in Blocks, NodeBlock(s, b)
    PROVE  /\ b \in {"hash", "skipped", "unavailable"}
           /\ b = "hash" => s \in produced /\ s <= confirmed
           /\ b = "skipped" => s \notin produced /\ s <= confirmed
           /\ UNCHANGED <<produced, confirmed>> => CacheTrue'
<1>0. s \in Int /\ confirmed \in Int /\ blocks \in [Slots -> Blocks]
  BY JudgeAssumption DEF BlockInv, TypeInv, TypeOK, Slots
<1>1. /\ b \in {"hash", "skipped", "unavailable"}
      /\ b = "hash" => s \in produced /\ s <= confirmed
      /\ b = "skipped" => s \notin produced /\ s <= confirmed
  <2>1. CASE blocks[s] = "unknown"
    <3>1. b \in NodeAnswers(s)
      BY <2>1 DEF NodeBlock
    <3> QED BY <1>0, <3>1 DEF NodeAnswers
  <2>2. CASE blocks[s] # "unknown"
    BY <2>2 DEF NodeBlock, BlockInv, CacheTrue, Blocks
  <2> QED BY <2>1, <2>2
<1>2. ASSUME UNCHANGED <<produced, confirmed>> PROVE CacheTrue'
  <2>1. \A r \in Slots : blocks'[r] = IF r = s THEN b ELSE blocks[r]
    BY <1>0 DEF NodeBlock
  <2> QED
    BY <1>1, <1>2, <2>1 DEF BlockInv, CacheTrue
<1> QED
  BY <1>1, <1>2

\* The slots a block claim may come from.
LEMMA SupportedBlocks ==
    ASSUME NEW c \in Claim, c.kind \in BlockKinds, c.of \in produced, produced \subseteq Slots
    PROVE  /\ c.kind = "exact" => (Supported(c) <=> c.of = c.slot)
           /\ c.kind = "window" =>
                (Supported(c) <=> c.of <= c.slot /\ WindowFloor(c.slot) <= c.of)
<1>1. c.slot \in Int /\ c.of \in Int /\ WindowFloor(c.slot) \in Int
  <2>1. c.slot \in Slots /\ c.of \in Slots
    BY DEF Claim
  <2> QED BY <2>1, SlotsAreNumbers, FloorBounds
<1> QED
  BY <1>1 DEF Supported, WindowFloor

\* What a turn of the window search concludes is true, and what it passes is
\* ruled out.
LEMMA WindowTurn ==
    ASSUME BlockInv, JudgeWindow PROVE BlockInv'
<1> DEFINE Gap(b) == sawUnavailable \/ b = "unavailable"
           Saw(b) == sawBlock \/ b = "hash"
           floor == WindowFloor(job.slot)
<1>0. TypeInv'
  BY TypeNext DEF BlockInv, Next, VerifierStep
<1>1. PICK b \in Blocks :
        /\ NodeBlock(cursor, b)
        /\ IF b = "hash" /\ cursor = job.of THEN Conclude("match")
           ELSE IF cursor = floor
           THEN Conclude(WindowVerdict(Saw(b), Gap(b)))
           ELSE /\ cursor' = cursor - 1
                /\ sawBlock' = Saw(b)
                /\ sawUnavailable' = Gap(b)
                /\ UNCHANGED <<verdict, pc>>
  BY DEF JudgeWindow
<1>2. /\ pc = "window" /\ job.kind = "window" /\ verdict = "none" /\ job \in Claim
      /\ job.slot \in Slots /\ cursor \in Slots /\ cursor \in floor .. job.slot
      /\ produced \subseteq Slots /\ UNCHANGED <<produced, confirmed, job>>
  BY DEF JudgeWindow, chainVars, BlockInv, TypeInv, TypeOK, Running, Kinds, BlockKinds, Claim
<1>3. floor \in Slots /\ floor <= job.slot /\ Slots \subseteq Int
  BY <1>2, FloorBounds, JudgeAssumption DEF Slots
<1>4. /\ b \in {"hash", "skipped", "unavailable"} /\ CacheTrue'
      /\ b = "hash" => cursor \in produced /\ cursor <= confirmed
      /\ b = "skipped" => cursor \notin produced /\ cursor <= confirmed
  BY <1>1, <1>2, AnswerTrue
<1> HIDE DEF floor
<1>5. CASE b = "hash" /\ cursor = job.of
  <2>1. verdict' = "match" /\ pc' = "next"
    BY <1>1, <1>5 DEF Conclude
  <2>2. job.of \in produced /\ job.of <= job.slot /\ floor <= job.of
    BY <1>2, <1>3, <1>4, <1>5
  <2>3. Supported(job)
    BY <1>2, <2>2, SupportedBlocks DEF BlockKinds, floor
  <2>4. BlockVerdictsTrue'
    BY <1>2, <2>1, <2>3 DEF BlockVerdictsTrue, Supported
  <2> QED
    BY <1>0, <1>4, <2>1, <2>4 DEF BlockInv, PassedSlots
<1>6. ASSUME ~(b = "hash" /\ cursor = job.of), ~Gap(b)
      PROVE  /\ \A s \in Slots : cursor <= s /\ s <= job.slot => s # job.of \/ s \notin produced
             /\ job.slot <= confirmed
  <2>1. cursor # job.of \/ cursor \notin produced
    BY <1>4, <1>6
  <2>2. cursor <= confirmed /\ ~sawUnavailable
    BY <1>4, <1>6
  <2>3. \A s \in Slots : cursor < s /\ s <= job.slot => s # job.of \/ s \notin produced
    BY <1>2, <2>2 DEF BlockInv, PassedSlots
  <2>4. cursor < job.slot => job.slot <= confirmed
    BY <1>2, <2>2 DEF BlockInv, PassedSlots
  <2>5. \A s \in Int : cursor <= s => cursor < s \/ s = cursor
    <3>1. cursor \in Int
      BY <1>2, <1>3
    <3> QED BY <3>1
  <2>6. cursor < job.slot \/ cursor = job.slot
    <3>1. cursor \in Int /\ job.slot \in Int /\ floor \in Int
      BY <1>2, <1>3
    <3>2. cursor <= job.slot
      BY <1>2, <3>1
    <3>3. \A x, y \in Int : x <= y => x < y \/ x = y
      OBVIOUS
    <3> QED BY <3>1, <3>2, <3>3
  <2> QED
    BY <1>3, <2>1, <2>2, <2>3, <2>4, <2>5, <2>6
<1>7. CASE ~(b = "hash" /\ cursor = job.of) /\ cursor = floor
  <2>1. verdict' = WindowVerdict(Saw(b), Gap(b)) /\ pc' = "next"
    BY <1>1, <1>7 DEF Conclude
  <2>2. CASE Gap(b)
    <3>1. verdict' = "skipped"
      BY <2>1, <2>2 DEF WindowVerdict
    <3> QED
      BY <1>0, <1>4, <2>1, <3>1 DEF BlockInv, PassedSlots, BlockVerdictsTrue
  <2>3. CASE ~Gap(b)
    <3>1. verdict' \in {"mismatch", "missing"}
      BY <2>1, <2>3 DEF WindowVerdict
    <3>2. ~Supported(job)
      <4>1. SUFFICES ASSUME Supported(job) PROVE FALSE
        OBVIOUS
      <4>2. job.of \in produced
        BY <4>1 DEF Supported
      <4>3. job.of <= job.slot /\ floor <= job.of /\ job.of \in Slots
        BY <1>2, <4>1, <4>2, SupportedBlocks DEF BlockKinds, floor
      <4> QED
        BY <1>6, <1>7, <2>3, <4>2, <4>3
    <3>3. BlockVerdictsTrue'
      BY <1>2, <3>1, <3>2 DEF BlockVerdictsTrue, Supported
    <3> QED
      BY <1>0, <1>4, <2>1, <3>3 DEF BlockInv, PassedSlots
  <2> QED BY <2>2, <2>3
<1>8. CASE ~(b = "hash" /\ cursor = job.of) /\ cursor # floor
  <2>1. cursor' = cursor - 1 /\ sawUnavailable' = Gap(b) /\ UNCHANGED <<verdict, pc>>
    BY <1>1, <1>8
  <2>2. \A s \in Slots : cursor' < s => cursor <= s
    BY <1>2, <1>3, <2>1
  <2>3. PassedSlots'
    BY <1>2, <1>6, <1>8, <2>1, <2>2 DEF PassedSlots
  <2> QED
    BY <1>0, <1>2, <1>4, <2>1, <2>3 DEF BlockInv, BlockVerdictsTrue
<1> QED
  BY <1>5, <1>7, <1>8

\* The cache is empty at first.
LEMMA BlockInit == Init => BlockInv
  BY TypeInit DEF Init, BlockInv, CacheTrue, PassedSlots, BlockVerdictsTrue, NothingAsked,
     NoJob, BlockKinds

\* Every step keeps what is known of blocks.
LEMMA BlockNext == BlockInv /\ [Next]_vars => BlockInv'
<1> SUFFICES ASSUME BlockInv, [Next]_vars PROVE BlockInv'
  OBVIOUS
<1>0. TypeInv' /\ TypeInv
  BY TypeNext DEF BlockInv
<1>1. CASE UNCHANGED <<produced, confirmed, pc, job, verdict, walk, blocks>>
  BY <1>0, <1>1 DEF BlockInv, CacheTrue, PassedSlots, BlockVerdictsTrue, Supported, walk
<1>2. CASE Tick
  <2>1. /\ UNCHANGED <<produced, pc, job, verdict, walk, blocks>>
        /\ confirmed \in Int /\ confirmed' \in Int /\ confirmed <= confirmed'
        /\ job.slot \in Int /\ Slots \subseteq Int
    <3>1. /\ UNCHANGED <<produced, pc, job, verdict, walk, blocks>>
          /\ confirmed \in Slots /\ job.slot \in Slots
          /\ confirmed' = confirmed \/ confirmed' = confirmed + 1
      BY <1>0, <1>2 DEF Tick, TypeInv, TypeOK, Claim
    <3>2. confirmed \in Int /\ job.slot \in Int
      BY <3>1, SlotsAreNumbers
    <3> QED BY <3>1, <3>2, SlotsAreNumbers
  <2>2. CacheTrue'
    BY <2>1 DEF BlockInv, CacheTrue
  <2>3. PassedSlots'
    BY <2>1 DEF BlockInv, PassedSlots, walk
  <2> QED
    BY <1>0, <2>1, <2>2, <2>3 DEF BlockInv, BlockVerdictsTrue, Supported
<1>3. CASE BeginTick
  <2>1. /\ blocks' = NothingAsked /\ pc' = "next"
        /\ UNCHANGED <<produced, confirmed, job, verdict>>
    BY <1>3 DEF BeginTick, chainVars
  <2> QED
    BY <1>0, <2>1 DEF BlockInv, CacheTrue, PassedSlots, BlockVerdictsTrue, Supported, NothingAsked
<1>4. CASE TakeClaim
  <2>1. /\ UNCHANGED <<produced, confirmed, blocks>> /\ verdict' = "none"
        /\ pc' = "window" => cursor' = job'.slot
    BY <1>4 DEF TakeClaim, chainVars, BlockKinds
  <2>2. job'.slot \in Int
    <3>1. job' \in Claim
      BY <1>0 DEF TypeInv, TypeOK
    <3> QED BY <3>1, SlotsAreNumbers DEF Claim
  <2>3. \A s \in Slots : ~(job'.slot < s /\ s <= job'.slot) /\ ~(job'.slot < job'.slot)
    BY <2>2, SlotsAreNumbers
  <2>4. PassedSlots'
    BY <2>1, <2>2, <2>3 DEF PassedSlots
  <2> QED
    BY <1>0, <2>1, <2>4 DEF BlockInv, CacheTrue, BlockVerdictsTrue
<1>5. CASE EndTick
  BY <1>0, <1>5 DEF EndTick, chainVars, BlockInv, CacheTrue, PassedSlots, BlockVerdictsTrue
<1>6. CASE JudgeExact
  <2>1. PICK b \in Blocks :
          NodeBlock(job.slot, b) /\ Conclude(ExactVerdict(b, job.slot, job.of))
    BY <1>6 DEF JudgeExact
  <2>2. /\ job.kind = "exact" /\ job.slot \in Slots /\ job \in Claim /\ produced \subseteq Slots
        /\ UNCHANGED <<produced, confirmed, job>>
    BY <1>0, <1>6 DEF JudgeExact, TypeInv, TypeOK, Running, Kinds, BlockKinds, Claim, chainVars
  <2>3. /\ b \in {"hash", "skipped", "unavailable"} /\ CacheTrue'
        /\ b = "hash" => job.slot \in produced
        /\ b = "skipped" => job.slot \notin produced
    BY <2>1, <2>2, AnswerTrue
  <2>4. verdict' = ExactVerdict(b, job.slot, job.of) /\ pc' = "next"
    BY <2>1 DEF Conclude
  <2>5. Supported(job) => job.of \in produced /\ job.of = job.slot
    BY <2>2, SupportedBlocks DEF Supported, BlockKinds
  <2>6. job.of \in produced /\ job.of = job.slot => Supported(job)
    BY <2>2, SupportedBlocks DEF BlockKinds
  <2>7. BlockVerdictsTrue'
    BY <2>2, <2>3, <2>4, <2>5, <2>6 DEF BlockVerdictsTrue, Supported, ExactVerdict
  <2> QED
    BY <1>0, <2>3, <2>4, <2>7 DEF BlockInv, PassedSlots
<1>7. CASE JudgeWindow
  BY <1>7, WindowTurn
<1>8. CASE JudgeTx \/ JudgeCount \/ JudgeSample
  <2>1. /\ job.kind \notin BlockKinds /\ UNCHANGED <<produced, confirmed, job, blocks>>
        /\ pc' # "window"
    BY <1>0, <1>8 DEF JudgeTx, JudgeCount, JudgeSample, Conclude, TypeInv, Running, Kinds,
       BlockKinds, chainVars
  <2> QED
    BY <1>0, <2>1 DEF BlockInv, CacheTrue, PassedSlots, BlockVerdictsTrue
<1>9. CASE ScanAnswered \/ UNCHANGED vars
  BY <1>1, <1>9 DEF ScanAnswered, vars, chainVars
<1> QED
  BY <1>2, <1>3, <1>4, <1>5, <1>6, <1>7, <1>8, <1>9 DEF Next, VerifierStep

\* What is known of blocks is invariant.
LEMMA BlockInvariant == Spec => []BlockInv
  BY BlockInit, BlockNext, PTL DEF Spec

\* A block claim is accused only if no block of its window has the hash, and
\* confirmed only if one has, whatever requests fail and whatever answers of
\* earlier claims the search builds on.
THEOREM BlocksJudgedTruly == Spec => []BlockVerdictsTrue
<1>1. BlockInv => BlockVerdictsTrue
  BY DEF BlockInv
<1> QED
  BY <1>1, BlockInvariant, PTL

-----------------------------------------------------------------------------
(* The promise to ClaimPipeline. *)

\* An honest claim about a block is supported.
LEMMA HonestSupported ==
    ASSUME NEW c \in Claim, c.kind \in BlockKinds, IsHonest(c), produced \subseteq Slots
    PROVE  Supported(c)
<1>1. CASE c.kind = "exact"
  <2>1. c.of \in produced /\ c.of = c.slot
    BY <1>1 DEF IsHonest
  <2> QED
    BY <1>1, <2>1, SupportedBlocks
<1>2. CASE c.kind = "window"
  <2>1. c.of \in produced /\ c.of <= c.slot /\ c.of + Window >= c.slot
    BY <1>2 DEF IsHonest, IsLatest
  <2>2. c.of \in Nat /\ c.slot \in Nat /\ Window \in Nat
    <3>1. c.of \in Slots /\ c.slot \in Slots
      BY <2>1 DEF Claim
    <3> QED BY <3>1, JudgeAssumption DEF Slots
  <2>3. WindowFloor(c.slot) <= c.of
    BY <2>1, <2>2 DEF WindowFloor, SatSub
  <2> QED
    BY <1>2, <2>1, <2>3, SupportedBlocks
<1> QED
  BY <1>1, <1>2 DEF BlockKinds

\* A verdict about a block that is confirmed by now: what the chain bears out,
\* and no drift.
LEMMA BlockPromise ==
    ASSUME BlockInv, JudgeWindow \/ JudgeExact, verdict' # verdict, verdict' # "none",
           BlockInv'
    PROVE  verdict' \in Promised(job)
<1>1. /\ UNCHANGED <<job, produced, confirmed>> /\ job \in Claim /\ produced \subseteq Slots
      /\ job.slot \in Int /\ confirmed \in Int /\ job.slot \in Slots
  BY SlotsAreNumbers DEF JudgeWindow, JudgeExact, chainVars, BlockInv, TypeInv, TypeOK, Claim
<1>2. ASSUME job.kind \in BlockKinds, IsHonest(job) PROVE verdict' \notin {"mismatch", "missing"}
  <2>1. Supported(job)
    BY <1>1, <1>2, HonestSupported
  <2>2. Supported(job)'
    BY <1>1, <2>1 DEF Supported
  <2> QED
    BY <1>1, <1>2, <2>2 DEF BlockInv, BlockVerdictsTrue
<1>3. CASE JudgeExact
  <2>1. PICK b \in Blocks :
          NodeBlock(job.slot, b) /\ Conclude(ExactVerdict(b, job.slot, job.of))
    BY <1>3 DEF JudgeExact
  <2>2. /\ b \in {"hash", "skipped", "unavailable"}
        /\ b \in {"hash", "skipped"} => job.slot <= confirmed
    BY <1>1, <2>1, AnswerTrue
  <2>3. verdict' = ExactVerdict(b, job.slot, job.of) /\ job.kind = "exact"
    BY <1>3, <2>1 DEF Conclude, JudgeExact, BlockInv, TypeInv, Running, Kinds, BlockKinds
  <2>4. verdict' \in {"match", "mismatch", "skipped"}
    BY <2>3 DEF ExactVerdict
  <2>5. job.slot > confirmed => verdict' = "skipped"
    BY <1>1, <2>2, <2>3 DEF ExactVerdict
  <2> QED
    BY <1>2, <2>3, <2>4, <2>5 DEF Promised, BlockKinds
<1>4. CASE JudgeWindow
  <2> DEFINE Gap(b) == sawUnavailable \/ b = "unavailable"
             Saw(b) == sawBlock \/ b = "hash"
  <2>1. PICK b \in Blocks :
          /\ NodeBlock(cursor, b)
          /\ \/ b = "hash" /\ cursor = job.of /\ Conclude("match")
             \/ Conclude(WindowVerdict(Saw(b), Gap(b)))
    BY <1>4 DEF JudgeWindow
  <2>2. /\ pc = "window" /\ job.kind = "window" /\ cursor \in Slots
        /\ cursor \in WindowFloor(job.slot) .. job.slot
    BY <1>4 DEF JudgeWindow, BlockInv, TypeInv, TypeOK, Running, Kinds, BlockKinds
  <2>3. /\ b \in {"hash", "skipped", "unavailable"}
        /\ b \in {"hash", "skipped"} => cursor <= confirmed
    BY <2>1, <2>2, AnswerTrue
  <2>4. verdict' \in {"match", "mismatch", "missing", "skipped"}
    BY <2>1 DEF Conclude, WindowVerdict
  <2>5. ASSUME job.slot > confirmed PROVE verdict' \in {"match", "skipped"}
    <3>1. cursor \in Int /\ cursor <= job.slot
      <4>1. cursor \in Int /\ WindowFloor(job.slot) \in Int
        BY <1>1, <2>2, SlotsAreNumbers, FloorBounds
      <4> QED BY <1>1, <2>2, <4>1
    <3>2. ~sawUnavailable => ~(cursor < job.slot)
      BY <1>1, <2>2, <2>5 DEF BlockInv, PassedSlots
    <3>3. cursor = job.slot => b = "unavailable"
      BY <1>1, <2>3, <2>5, <3>1
    <3>4. cursor < job.slot \/ cursor = job.slot
      BY <1>1, <3>1
    <3>5. Gap(b)
      BY <3>2, <3>3, <3>4
    <3> QED
      BY <2>1, <3>5 DEF Conclude, WindowVerdict
  <2> QED
    BY <1>2, <2>2, <2>4, <2>5 DEF Promised, BlockKinds
<1> QED
  BY <1>3, <1>4

\* The verdicts the verifier reaches in many requests are those ClaimPipeline
\* takes judge_claim to reach in one step.
THEOREM JudgesInOneStep == Spec => JudgesAsPromised
<1> DEFINE Promise == verdict' # verdict /\ verdict' # "none" => verdict' \in Promised(job)
<1>1. ASSUME BlockInv, [Next]_vars, BlockInv' PROVE [Promise]_vars
  <2> SUFFICES ASSUME verdict' # verdict, verdict' # "none" PROVE verdict' \in Promised(job)
    OBVIOUS
  <2>1. JudgeExact \/ JudgeWindow \/ JudgeTx \/ JudgeCount \/ JudgeSample
    BY <1>1 DEF Next, VerifierStep, ScanAnswered, Tick, BeginTick, TakeClaim, EndTick, vars
  <2>2. CASE JudgeExact \/ JudgeWindow
    BY <1>1, <2>2, BlockPromise
  <2>3. CASE JudgeTx
    <3>1. verdict' \in TxAnswers(job) /\ job.kind = "tx"
      BY <1>1, <2>3 DEF JudgeTx, Conclude, BlockInv, TypeInv, Running, Kinds
    <3>2. /\ job.slot \in Int /\ job.of \in Int /\ confirmed \in Int
          /\ job.slot \in Slots /\ (job.of \in Slots \/ job.of = NoSlot)
      <4>1. NoSlot \in Int
        BY DEF NoSlot
      <4> QED
        BY <1>1, <4>1, SlotsAreNumbers DEF BlockInv, TypeInv, TypeOK, Claim
    <3>3. IsHonest(job) <=> job.of = job.slot
      BY <3>1 DEF IsHonest
    <3>4. NoSlot \notin Slots
      BY JudgeAssumption DEF NoSlot, Slots
    <3> HIDE DEF Promise
    <3> QED
      BY <3>1, <3>2, <3>3, <3>4 DEF Promised, TxAnswers
  <2>4. CASE JudgeCount \/ JudgeSample
    <3>1. verdict' \in {"match", "drift", "mismatch", "skipped"}
      BY <2>4 DEF JudgeCount, JudgeSample, Conclude, SampleVerdict
    <3>2. job.kind = "accounts"
      BY <1>1, <2>4 DEF JudgeCount, JudgeSample, BlockInv, TypeInv, Running, Kinds
    <3> QED
      BY <3>1, <3>2 DEF Promised
  <2> QED
    BY <2>1, <2>2, <2>3, <2>4
<1> QED
  BY <1>1, BlockInvariant, PTL DEF Spec, JudgesAsPromised

-----------------------------------------------------------------------------
(* Accounts. *)

\* Numbers that are no further apart than d.
Near(a, b, d) == a - b <= d /\ b - a <= d

\* A fresh count and the claim are no further apart than the time between them,
\* and neither is further from the accounts there are than its own age.
CountInv ==
    /\ TypeInv
    /\ scan.age <= Settling
    /\ scan.honest => Near(scan.count, live, scan.age)
    /\ CountFresh => Near(cached, live, countAge)
    /\ scan.honest /\ CountFresh =>
         Near(scan.count, cached, countAge) \/ Near(scan.count, cached, scan.age)
    /\ job.kind = "accounts" => scan # NoScan
    /\ HonestCountsTolerated

\* The set changes by no more than the tolerance while a claim settles, nor while
\* a cached count may be used.
ToleranceCovers == Settling <= Tolerance /\ CountTTL <= Tolerance + 1

\* There is neither a count nor a claim at first.
LEMMA CountInit == Init => CountInv
<1> SUFFICES ASSUME Init PROVE CountInv
  OBVIOUS
<1>1. Settling \in Nat
  BY JudgeAssumption
<1>2. scan.age = 0 /\ ~scan.honest /\ job.kind # "accounts"
  BY DEF Init, NoScan, NoJob
<1>3. ~CountFresh
  BY DEF Init, CountFresh
<1> QED
  BY <1>1, <1>2, <1>3, TypeInit DEF CountInv, HonestCountsTolerated

\* The numbers at hand.
LEMMA CountTypes ==
    ASSUME TypeInv
    PROVE  /\ scan.age \in Nat /\ scan.count \in Int /\ live \in Int
           /\ scan.honest \in BOOLEAN
           /\ cached \in Int /\ countAge \in Nat
           /\ CountTTL \in Nat /\ Tolerance \in Nat /\ Settling \in Nat
<1>1. MaxLive \in Nat /\ CountTTL \in Nat /\ Tolerance \in Nat /\ Settling \in Nat
  BY JudgeAssumption
<1>2. scan \in [count : 0 .. MaxLive, honest : BOOLEAN, fate : Fates, age : Nat]
  BY DEF TypeInv, TypeOK, Scan
<1>3. cached \in {NoCount} \cup (0 .. MaxLive) /\ countAge \in 0 .. CountTTL /\ live \in 0 .. MaxLive
  BY DEF TypeInv, TypeOK
<1>4. cached \in Int
  BY <1>1, <1>3 DEF NoCount
<1> QED
  BY <1>1, <1>2, <1>3, <1>4

\* One step of time moves the set by one, and ages the count and the claim.
LEMMA CountTick ==
    ASSUME CountInv, TypeInv', Tick PROVE CountInv'
<1>1. TypeInv
  BY DEF CountInv
<1>2. live' = live \/ live' = live - 1 \/ live' = live + 1
  BY DEF Tick
<1>3. /\ CountFresh' => (CountFresh /\ countAge' = countAge + 1)
      /\ UNCHANGED <<cached, job, verdict>>
  BY DEF Tick, CountFresh
<1>4. \A a, b, d \in Int :
        /\ Near(a, b, d) => Near(a, b, d + 1)
        /\ Near(a, b, d) /\ live' = b - 1 => Near(a, live', d + 1)
        /\ Near(a, b, d) /\ live' = b + 1 => Near(a, live', d + 1)
  BY DEF Near
<1>5. CountFresh' => Near(cached', live', countAge')
  BY <1>1, <1>2, <1>3, <1>4, CountTypes DEF CountInv
<1>6. CASE scan = NoScan
  <2>1. scan' = scan /\ ~scan.honest /\ job.kind # "accounts"
    BY <1>6 DEF Tick, NoScan, CountInv
  <2> QED
    BY <1>3, <1>5, <2>1 DEF CountInv, HonestCountsTolerated
<1>7. CASE scan # NoScan
  <2>1. PICK f \in Fate(scan.fate) : scan' = [scan EXCEPT !.fate = f, !.age = @ + 1]
    BY <1>7 DEF Tick
  <2>2. scan \in [count : 0 .. MaxLive, honest : BOOLEAN, fate : Fates, age : Nat]
    BY <1>1 DEF TypeInv, TypeOK, Scan
  <2>3. /\ scan'.count = scan.count /\ scan'.honest = scan.honest
        /\ scan'.age = scan.age + 1 /\ scan'.fate = f
    BY <2>1, <2>2
  <2>4. scan'.age <= Settling
    <3>1. scan.age < Settling
      BY <1>7 DEF Tick
    <3> QED BY <1>1, <2>3, <3>1, CountTypes
  <2>5. scan'.honest => Near(scan'.count, live', scan'.age)
    <3>1. scan.honest => Near(scan.count, live, scan.age)
      BY DEF CountInv
    <3> QED BY <1>1, <1>2, <1>4, <2>3, <3>1, CountTypes
  <2>6. scan'.honest /\ CountFresh' =>
          Near(scan'.count, cached', countAge') \/ Near(scan'.count, cached', scan'.age)
    <3>1. scan.honest /\ CountFresh =>
            Near(scan.count, cached, countAge) \/ Near(scan.count, cached, scan.age)
      BY DEF CountInv
    <3> QED BY <1>1, <1>3, <1>4, <2>3, <3>1, CountTypes
  <2>7. HonestCountsTolerated'
    BY <1>3, <2>3 DEF CountInv, HonestCountsTolerated, Fate
  <2>8. scan' # NoScan
    BY <1>1, <2>3, CountTypes DEF NoScan
  <2> QED
    BY <2>4, <1>5, <2>5, <2>6, <2>7, <2>8 DEF CountInv
<1> QED
  BY <1>6, <1>7

\* A count is not held against an honest claim.
LEMMA CountJudged ==
    ASSUME CountInv, TypeInv', ToleranceCovers, JudgeCount PROVE CountInv'
<1>1. TypeInv /\ UNCHANGED <<scan, job, live>> /\ job.kind = "accounts"
  BY DEF CountInv, JudgeCount, TypeInv, Running, Kinds, chainVars
<1>2. PICK n \in {NoCount} \cup (0 .. MaxLive) :
        /\ NodeCount(n)
        /\ \/ n # NoCount /\ TooFar(scan.count, n) /\ Conclude("mismatch")
           \/ Conclude("skipped")
           \/ UNCHANGED verdict
  BY DEF JudgeCount
<1>3. /\ CountFresh' => Near(cached', live, countAge')
      /\ scan.honest /\ CountFresh' =>
           Near(scan.count, cached', countAge') \/ Near(scan.count, cached', scan.age)
  <2>1. CASE UNCHANGED counts
    BY <2>1 DEF CountInv, CountFresh, counts
  <2>2. CASE cached' = live /\ countAge' = 0
    <3>1. Near(live, live, 0)
      BY <1>1, CountTypes DEF Near
    <3> QED BY <2>2, <3>1 DEF CountInv
  <2> QED BY <1>2, <2>1, <2>2 DEF NodeCount
<1>4. ASSUME scan.honest, n # NoCount PROVE ~TooFar(scan.count, n)
  <2>1. (Near(scan.count, n, countAge) /\ CountFresh) \/ Near(scan.count, n, scan.age)
    BY <1>2, <1>4 DEF NodeCount, CountInv
  <2>2. CountFresh => countAge <= Tolerance
    BY <1>1, CountTypes DEF CountFresh, ToleranceCovers
  <2>3. scan.age <= Tolerance
    BY <1>1, CountTypes DEF CountInv, ToleranceCovers
  <2>4. n \in Int
    BY JudgeAssumption DEF NoCount
  <2>5. \A a, b, d \in Int : Near(a, b, d) /\ d <= Tolerance => ~TooFar(a, b)
    BY <1>1, CountTypes DEF Near, TooFar, SatSub
  <2> QED
    BY <1>1, <2>1, <2>2, <2>3, <2>4, <2>5, CountTypes
<1>5. HonestCountsTolerated'
  <2>1. CASE UNCHANGED verdict
    BY <1>1, <2>1 DEF CountInv, HonestCountsTolerated
  <2>2. CASE Conclude("skipped")
    BY <2>2 DEF Conclude, HonestCountsTolerated
  <2>3. CASE n # NoCount /\ TooFar(scan.count, n)
    BY <1>1, <1>4, <2>3 DEF HonestCountsTolerated
  <2> QED BY <1>2, <2>1, <2>2, <2>3
<1> QED
  BY <1>1, <1>3, <1>5 DEF CountInv

\* Every step keeps counts and claims near.
LEMMA CountNext == ToleranceCovers /\ CountInv /\ [Next]_vars => CountInv'
<1> SUFFICES ASSUME ToleranceCovers, CountInv, [Next]_vars PROVE CountInv'
  OBVIOUS
<1>0. TypeInv' /\ TypeInv /\ Settling \in Nat
  BY TypeNext, JudgeAssumption DEF CountInv
<1>1. CASE UNCHANGED <<scan, live, counts, job, verdict>>
  BY <1>0, <1>1 DEF CountInv, counts, CountFresh, HonestCountsTolerated
<1>2. CASE ScanAnswered
  <2>1. scan = NoScan /\ UNCHANGED <<live, counts, job, verdict>>
    BY <1>2 DEF ScanAnswered, chainVars
  <2>2. scan'.age = 0 /\ (scan'.honest => scan'.count = live)
    BY <1>2 DEF ScanAnswered
  <2>3. job.kind # "accounts"
    BY <2>1 DEF CountInv
  <2>4. Near(live, live, 0) /\ 0 <= Settling
    BY <1>0, CountTypes DEF Near
  <2>5. CountFresh => Near(live, cached, countAge)
    BY <1>0, CountTypes DEF CountInv, Near
  <2> QED
    BY <1>0, <2>1, <2>2, <2>3, <2>4, <2>5
       DEF CountInv, counts, CountFresh, HonestCountsTolerated
<1>3. CASE Tick
  BY <1>0, <1>3, CountTick
<1>4. CASE TakeClaim \/ EndTick
  <2>1. /\ UNCHANGED <<live, counts>> /\ verdict' = "none"
        /\ scan' = Forgotten
        /\ job'.kind = "accounts" => Forgotten # NoScan
    BY <1>4 DEF TakeClaim, EndTick, chainVars, NoJob
  <2>2. scan' = NoScan \/ scan' = scan
    BY <2>1 DEF Forgotten
  <2>3. NoScan.age = 0 /\ NoScan.honest = FALSE
    BY DEF NoScan
  <2> QED
    BY <1>0, <2>1, <2>2, <2>3 DEF CountInv, counts, CountFresh, HonestCountsTolerated
<1>5. CASE JudgeExact \/ JudgeWindow \/ JudgeTx
  <2>1. UNCHANGED <<scan, live, counts, job>> /\ job.kind # "accounts"
    BY <1>0, <1>5 DEF JudgeExact, JudgeWindow, JudgeTx, chainVars, TypeInv, Running, Kinds, BlockKinds
  <2> QED
    BY <1>0, <2>1 DEF CountInv, counts, CountFresh, HonestCountsTolerated
<1>6. CASE JudgeCount
  BY <1>0, <1>6, CountJudged
<1>7. CASE JudgeSample
  <2>1. UNCHANGED <<scan, live, counts, job>> /\ verdict' \in {"skipped", SampleVerdict(scan.fate)}
    BY <1>7 DEF JudgeSample, chainVars, Conclude
  <2>2. verdict' = "mismatch" => scan.fate = "closed"
    BY <2>1 DEF SampleVerdict
  <2> QED
    BY <1>0, <2>1, <2>2 DEF CountInv, counts, CountFresh, HonestCountsTolerated
<1>8. CASE BeginTick \/ UNCHANGED vars
  BY <1>1, <1>8 DEF BeginTick, vars, chainVars
<1> QED
  BY <1>2, <1>3, <1>4, <1>5, <1>6, <1>7, <1>8 DEF Next, VerifierStep

\* If the set changes by no more than claim_count_tolerance while a claim
\* settles, nor within GPA_COUNT_TTL, an honest accounts claim is a mismatch only
\* if a sampled account is gone, whenever the node's count was fetched.
THEOREM CountsTolerated ==
    ASSUME ToleranceCovers PROVE Spec => []HonestCountsTolerated
<1>1. CountInv /\ [Next]_vars => CountInv'
  BY CountNext
<1>2. CountInv => HonestCountsTolerated
  BY DEF CountInv
<1> QED
  BY <1>1, <1>2, CountInit, PTL DEF Spec

-----------------------------------------------------------------------------
\* What the round knows in each phase.
PhaseKnows ==
    /\ phase \in {"slot", "truth"} => recorded = NoVerdict
    /\ phase \in {"truth", "ask"} => slot + Depth <= tip
    /\ phase = "ask" => slot \in Produced
    /\ phase = "ask" => at \in Judged

IInv ==
    /\ RoundTypeOK
    /\ PhaseKnows
    /\ HonestNeverMismatch
    /\ HonestNeverMissing
    /\ JudgedIsFinal

USE ReferenceRoundAssumption

\* A position holds a provider.
LEMMA PositionType == \A i \in Judged : Endpoint[i] \in Provider
BY DEF Judged, Provider

\* What Below gives is a slot that lies Depth below.
LEMMA BelowType ==
    ASSUME NEW t \in RoundSlots, Below(t) # NoSlot
    PROVE  Below(t) \in RoundSlots /\ Below(t) + Depth <= t
BY DEF Below, RoundSlots

LEMMA InitInv == RoundInit => IInv
<1> SUFFICES ASSUME RoundInit PROVE IInv
    OBVIOUS
<1>1. \A p \in Provider : recorded[p] = "none"
    BY DEF RoundInit, NoVerdict
<1>2. RoundTypeOK
    <2>2. recorded \in [Provider -> RoundResults]
        BY DEF RoundInit, NoVerdict, RoundResults
    <2>3. \A p \in Honest : tip <= height[p] + MaxLag
        BY DEF RoundInit, RoundSlots
    <2> QED
        BY <2>2, <2>3 DEF RoundInit, RoundTypeOK, RoundSlots
<1>3. PhaseKnows
    BY DEF RoundInit, PhaseKnows
<1> QED
    BY <1>1, <1>2, <1>3 DEF IInv, HonestNeverMismatch, HonestNeverMissing, JudgedIsFinal

-----------------------------------------------------------------------------
(* Steps of the chain. *)

LEMMA AdvanceInv == IInv /\ Advance => IInv'
<1> SUFFICES ASSUME IInv, Advance PROVE IInv'
    OBVIOUS
<1> USE DEF IInv, Advance, round
<1>1. tip \in Int /\ tip' = tip + 1 /\ tip' \in RoundSlots
    BY DEF RoundTypeOK, RoundSlots
<1>2. \A p \in Honest : tip' <= height[p] + MaxLag
    <2> TAKE p \in Honest
    <2>1. height[p] \in Int
        BY DEF RoundTypeOK, RoundSlots
    <2> QED
        BY <1>1, <2>1
<1>3. RoundTypeOK'
    BY <1>1, <1>2 DEF RoundTypeOK
<1>4. slot \in Int
    BY DEF RoundTypeOK, RoundSlots
<1>5. PhaseKnows'
    BY <1>1, <1>4 DEF PhaseKnows
<1>6. JudgedIsFinal'
    BY <1>1, <1>4 DEF JudgedIsFinal
<1> QED
    BY <1>3, <1>5, <1>6 DEF HonestNeverMismatch, HonestNeverMissing

LEMMA CatchUpInv ==
    ASSUME IInv, NEW q \in Provider, CatchUp(q) PROVE IInv'
<1> USE DEF IInv, CatchUp, round
<1>1. height' \in [Provider -> RoundSlots]
    BY DEF RoundTypeOK, RoundSlots
<1>2. \A p \in Honest : tip <= height'[p] + MaxLag
    <2> TAKE p \in Honest
    <2>1. height[p] \in Int /\ tip \in Int /\ tip <= height[p] + MaxLag
        BY DEF RoundTypeOK, RoundSlots
    <2>2. height'[p] \in {height[p], height[p] + 1}
        BY DEF RoundTypeOK
    <2> QED
        BY <2>1, <2>2
<1>3. RoundTypeOK'
    BY <1>1, <1>2 DEF RoundTypeOK
<1> QED
    BY <1>3 DEF PhaseKnows, JudgedIsFinal, HonestNeverMismatch, HonestNeverMissing

-----------------------------------------------------------------------------
(* Steps of the round. *)

LEMMA BeginInv == IInv /\ Begin => IInv'
<1> SUFFICES ASSUME IInv, Begin PROVE IInv'
    OBVIOUS
<1> USE DEF IInv, Begin, chain
<1>1. \A p \in Provider : recorded'[p] = "none"
    BY DEF NoVerdict
<1>2. recorded' \in [Provider -> RoundResults]
    BY DEF NoVerdict, RoundResults
<1>3. RoundTypeOK'
    BY <1>2 DEF RoundTypeOK
<1>4. PhaseKnows'
    BY DEF PhaseKnows
<1> QED
    BY <1>1, <1>3, <1>4 DEF JudgedIsFinal, HonestNeverMismatch, HonestNeverMissing

\* What is recorded stays as it is when a round is left.
LEMMA AbandonInv == IInv /\ Abandon => IInv'
<1> SUFFICES ASSUME IInv, Abandon PROVE IInv'
    OBVIOUS
<1> USE DEF IInv, Abandon, chain
<1>1. RoundTypeOK'
    BY DEF RoundTypeOK
<1> QED
    BY <1>1 DEF PhaseKnows, JudgedIsFinal, HonestNeverMismatch, HonestNeverMissing

LEMMA FinalizedSlotInv == IInv /\ FinalizedSlot => IInv'
<1> SUFFICES ASSUME IInv, FinalizedSlot PROVE IInv'
    OBVIOUS
<1> USE DEF IInv, FinalizedSlot, chain
<1>1. slot' \in RoundSlots /\ slot' + Depth <= tip
    BY BelowType DEF RoundTypeOK
<1>2. RoundTypeOK'
    BY <1>1 DEF RoundTypeOK
<1>3. PhaseKnows'
    BY <1>1 DEF PhaseKnows
<1>4. \A p \in Provider : recorded'[p] = "none"
    BY DEF PhaseKnows, NoVerdict
<1> QED
    BY <1>2, <1>3, <1>4 DEF JudgedIsFinal, HonestNeverMismatch, HonestNeverMissing

LEMMA TruthInv == IInv /\ Truth => IInv'
<1> SUFFICES ASSUME IInv, Truth PROVE IInv'
    OBVIOUS
<1> USE DEF IInv, Truth, chain
<1>1. RoundTypeOK'
    BY DEF RoundTypeOK
<1> QED
    BY <1>1 DEF PhaseKnows, JudgedIsFinal, HonestNeverMismatch, HonestNeverMissing

\* Only the result recorded now has to be looked at.
LEMMA JudgeInv ==
    ASSUME IInv, phase = "ask", NEW q \in Provider, NEW result \in RoundResults,
           Judge(q, result), failed' \subseteq Provider, failed \subseteq failed',
           q \in Honest => result # "mismatch",
           q \in Honest /\ result = "missing" /\ MaxLag <= Depth => q \in failed'
    PROVE  IInv'
<1> USE DEF IInv, Judge, chain
<1>1. \A p \in Provider : recorded'[p] = IF p = q THEN result ELSE recorded[p]
    BY DEF RoundTypeOK
<1>2. at' \in Judged \/ (at' = 0 /\ phase' = "sleep")
    BY DEF After
<1>3. RoundTypeOK'
    BY <1>2 DEF RoundTypeOK
<1>7. PhaseKnows'
    BY <1>2 DEF PhaseKnows
<1>4. JudgedIsFinal'
    BY <1>1 DEF JudgedIsFinal, PhaseKnows
<1>5. HonestNeverMismatch'
    BY <1>1 DEF HonestNeverMismatch
<1>6. HonestNeverMissing'
    BY <1>1 DEF HonestNeverMissing
<1> QED
    BY <1>3, <1>4, <1>5, <1>6, <1>7

\* What an honest provider answers does it no harm.
LEMMA AnsweredInv == IInv /\ Answered => IInv'
<1> SUFFICES ASSUME IInv, Answered PROVE IInv'
    OBVIOUS
<1>1. PICK q \in Provider : q = Endpoint[at]
    BY PositionType DEF IInv, PhaseKnows, Answered
<1>2. PICK hash \in Answers(q) : Judge(q, Classify(hash))
    BY <1>1 DEF Answered
<1>3. ASSUME q \in Honest PROVE hash = slot \/ (hash = NoSlot /\ MaxLag > Depth)
    <2>1. slot \in Produced /\ slot + Depth <= tip /\ tip <= height[q] + MaxLag
        BY <1>3 DEF IInv, RoundTypeOK, PhaseKnows, Answered
    <2>2. slot \in Int /\ tip \in Int /\ height[q] \in Int
        BY <1>1 DEF IInv, RoundTypeOK, RoundSlots
    <2>3. MaxLag <= Depth => slot <= height[q]
        BY <2>1, <2>2
    <2>4. hash = IF slot <= height[q] THEN slot ELSE NoSlot
        BY <1>2, <1>3, <2>1 DEF Answers
    <2> QED
        BY <2>3, <2>4
<1>4. slot # NoSlot
    BY DEF IInv, RoundTypeOK, RoundSlots, NoSlot
<1>5. q \in Honest => Classify(hash) = "match" \/ (Classify(hash) = "missing" /\ MaxLag > Depth)
    BY <1>3, <1>4 DEF Classify
<1>6. Classify(hash) \in RoundResults
    BY DEF Classify, RoundResults
<1>7. q \in Honest => Classify(hash) # "mismatch"
    BY <1>5
<1>8. q \in Honest /\ Classify(hash) = "missing" /\ MaxLag <= Depth => q \in failed'
    BY <1>5
<1>9. failed' = failed /\ failed \subseteq Provider /\ phase = "ask"
    BY DEF Answered, IInv, RoundTypeOK
<1> QED
    BY <1>1, <1>2, <1>6, <1>7, <1>8, <1>9, JudgeInv

LEMMA UnansweredInv == IInv /\ Unanswered => IInv'
<1> SUFFICES ASSUME IInv, Unanswered PROVE IInv'
    OBVIOUS
<1>1. PICK q \in Provider : q = Endpoint[at]
    BY PositionType DEF IInv, PhaseKnows, Unanswered
<1>2. Classify(NoSlot) = "missing" /\ "missing" \in RoundResults
    BY DEF Classify, RoundResults
<1>3. Judge(q, "missing")
    BY <1>1, <1>2 DEF Unanswered
<1>4. failed' = failed \cup {q} /\ failed \subseteq Provider /\ phase = "ask"
    BY <1>1 DEF Unanswered, IInv, RoundTypeOK
<1> QED
    BY <1>1, <1>2, <1>3, <1>4, JudgeInv

LEMMA NextInv == IInv /\ [RoundNext]_roundVars => IInv'
<1> SUFFICES ASSUME IInv, [RoundNext]_roundVars PROVE IInv'
    OBVIOUS
<1>1. CASE Begin
    BY <1>1, BeginInv
<1>2. CASE NodeFails
    BY <1>2, AbandonInv DEF NodeFails
<1>3. CASE FinalizedSlot
    BY <1>3, FinalizedSlotInv
<1>4. CASE TooShallow
    BY <1>4, AbandonInv DEF TooShallow
<1>5. CASE Truth
    BY <1>5, TruthInv
<1>6. CASE NoTruth
    BY <1>6, AbandonInv DEF NoTruth
<1>7. CASE Answered
    BY <1>7, AnsweredInv
<1>8. CASE Unanswered
    BY <1>8, UnansweredInv
<1>9. CASE Advance
    BY <1>9, AdvanceInv
<1>10. CASE NodeComesAndGoes
    <2>1. RoundTypeOK'
        BY <1>10 DEF IInv, RoundTypeOK, NodeComesAndGoes, round
    <2> QED
        BY <1>10, <2>1 DEF IInv, NodeComesAndGoes, round, PhaseKnows, JudgedIsFinal,
            HonestNeverMismatch, HonestNeverMissing
<1>11. CASE \E p \in Provider : CatchUp(p)
    BY <1>11, CatchUpInv
<1>12. CASE UNCHANGED roundVars
    <2>1. RoundTypeOK'
        BY <1>12 DEF IInv, RoundTypeOK, roundVars, chain, round
    <2> QED
        BY <1>12, <2>1 DEF IInv, roundVars, chain, round, PhaseKnows, JudgedIsFinal,
            HonestNeverMismatch, HonestNeverMissing
<1> QED
    BY <1>1, <1>2, <1>3, <1>4, <1>5, <1>6, <1>7, <1>8, <1>9, <1>10, <1>11, <1>12
    DEF RoundNext, RoundStep

-----------------------------------------------------------------------------
LEMMA Invariance == RoundSpec => []IInv
BY InitInv, NextInv, PTL DEF RoundSpec

\* Every variable of the round has its type, and honest providers stay in reach.
THEOREM RoundTypeCorrect == RoundSpec => []RoundTypeOK
BY Invariance, PTL DEF IInv

\* An honest provider is never accused of another block than the final one.
THEOREM NeverAccused == RoundSpec => []HonestNeverMismatch
BY Invariance, PTL DEF IInv

\* Where no honest provider falls further behind than the round looks back, only
\* a request that failed is recorded as missing.
THEOREM MissingExplained == RoundSpec => []HonestNeverMissing
BY Invariance, PTL DEF IInv

\* What is recorded is about a block that lies Depth below the final slot.
THEOREM VerdictsAreFinal == RoundSpec => []JudgedIsFinal
BY Invariance, PTL DEF IInv

\* The three together: what is recorded is deserved.
THEOREM Deserved == RoundSpec => []VerdictsDeserved
BY Invariance, PTL DEF IInv, VerdictsDeserved
=============================================================================
