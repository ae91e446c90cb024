---------------------------- MODULE Probe_proofs ----------------------------
(***************************************************************************)
(* Theorems about Probe and Targets, for every set of checks, every list   *)
(* of targets and every content of the accounts.                           *)
(*                                                                         *)
(* The argument for Probe: a derived target was counted within bounds, and *)
(* an anchor cannot lose as many accounts as the least count; a batch      *)
(* holds a permanent account; only program and owner requests have a       *)
(* target of their own.  For Targets: the three readers of an account, the *)
(* node's filters, the monitor's matcher and the deriver, agree on every   *)
(* account, so what a node lists is what the monitor takes.                *)
(***************************************************************************)
EXTENDS Probe, Targets, FiniteSetTheorems, TLAPS

-----------------------------------------------------------------------------
(* Probe: what questions are made of. *)

\* Its anchor had enough accounts to be picked.
Sound(tg) == tg.anchor # Fixed => tg.anchor \in Anchors /\ Sizes[tg.anchor] >= MinAccounts

\* Whatever others answer: a question of an honest provider has an answer.
Questions ==
    /\ \A a \in Anchors : Sizes[a] - MaxClosed <= size[a] /\ size[a] <= Sizes[a]
    /\ \A i \in DOMAIN derived : Sound(derived[i])
    /\ \A f \in picked : Sound(f)
    /\ \A t \in Task :
         /\ Sound(target[t])
         /\ Method(t) \notin {"gpa", "tokenOwner"} => target[t] \in {NoTarget, ArchivalPage}
         /\ asked[t] # {"gone"}

ProbeInv == TypeOK /\ Questions /\ HonestNeverEmpty /\ NothingLeaks

-----------------------------------------------------------------------------
(* Probe: types. *)

\* What a task is configured to check.
LEMMA CheckTypes ==
    ASSUME TypeOK, NEW t \in Task
    PROVE  Method(t) \in Methods /\ Honest(t) \in BOOLEAN
<1>1. check \in [Task -> Check]
  BY ProbeAssumption DEF TypeOK
<1>2. check[t] \in Check
  BY <1>1
<1> QED BY <1>2 DEF Check, Method, Honest

\* Targets by name, of every kind.
LEMMA TargetKinds ==
    /\ NoTarget \in Target /\ ArchivalPage \in Target
    /\ CuratedTargets \in Seq(Target) /\ Len(CuratedTargets) = Len(Curated)
    /\ \A i \in DOMAIN CuratedTargets : CuratedTargets[i].anchor = Fixed
    /\ \A n \in DerivedNames, a \in Anchors : [name |-> n, anchor |-> a] \in Target
    /\ \A tg \in Target : tg.name \in {x.name : x \in Target}
<1>1. NoTarget \in Target /\ ArchivalPage \in Target
  BY DEF NoTarget, ArchivalPage, Target
<1>2. Curated \in Seq(STRING)
  BY ProbeAssumption
<1>3. \A i \in DOMAIN Curated : Curated[i] \in ToSet(Curated)
  BY DEF ToSet
<1>4. \A i \in DOMAIN Curated : [name |-> Curated[i], anchor |-> Fixed] \in Target
  BY <1>3 DEF Target
<1>5. CuratedTargets \in Seq(Target) /\ Len(CuratedTargets) = Len(Curated)
  BY <1>2, <1>4 DEF CuratedTargets
<1>6. \A i \in DOMAIN CuratedTargets : CuratedTargets[i].anchor = Fixed
  BY DEF CuratedTargets
<1>7. \A n \in DerivedNames, a \in Anchors : [name |-> n, anchor |-> a] \in Target
  BY DEF Target
<1> QED BY <1>1, <1>5, <1>6, <1>7

\* The rotation takes one of all targets.
LEMMA RotateAllTakes ==
    ASSUME TypeOK, NEW r \in Nat, CuratedTargets \o derived # <<>>
    PROVE  \/ \E i \in DOMAIN CuratedTargets : RotateAll(r) = CuratedTargets[i]
           \/ \E i \in DOMAIN derived : RotateAll(r) = derived[i]
<1> DEFINE all == CuratedTargets \o derived
           n == Len(CuratedTargets)
<1>1. CuratedTargets \in Seq(Target) /\ derived \in Seq(Target)
  BY TargetKinds DEF TypeOK
<1>2. /\ all \in Seq(Target) /\ Len(all) = n + Len(derived) /\ n \in Nat /\ Len(derived) \in Nat
      /\ \A i \in 1 .. Len(all) : all[i] = IF i <= n THEN CuratedTargets[i] ELSE derived[i - n]
  BY <1>1
<1>3. Len(all) \in Nat /\ Len(all) > 0
  BY <1>2
<1>4. r % Len(all) \in 0 .. Len(all) - 1
  <2> HIDE DEF all
  <2> QED BY <1>3
<1>5. PICK i \in 1 .. Len(all) : RotateAll(r) = all[i]
  <2>1. (r % Len(all)) + 1 \in 1 .. Len(all)
    <3> HIDE DEF all
    <3> QED BY <1>3, <1>4
  <2> QED BY <2>1 DEF RotateAll
<1>6. CASE i <= n
  <2>1. i \in DOMAIN CuratedTargets /\ all[i] = CuratedTargets[i]
    BY <1>1, <1>2, <1>6
  <2> QED BY <1>5, <2>1
<1>7. CASE i > n
  <2>1. i - n \in DOMAIN derived /\ all[i] = derived[i - n]
    BY <1>1, <1>2, <1>7
  <2> QED BY <1>5, <2>1
<1> QED BY <1>2, <1>6, <1>7

\* The target of a request that is made is none, an archival page, a curated one
\* or a derived one; the method tells which it can be.
LEMMA RotatedTakes ==
    ASSUME TypeOK, NEW t \in Task, Asks(Method(t)) # {},
           NEW tg \in RotatedTargets(Method(t), rotation[t])
    PROVE  \/ tg \in {NoTarget, ArchivalPage}
           \/ /\ Method(t) \in {"gpa", "tokenOwner"}
              /\ \/ \E i \in DOMAIN CuratedTargets : tg = CuratedTargets[i]
                 \/ \E i \in DOMAIN derived : tg = derived[i]
<1>1. CASE Method(t) = "gpa"
  <2>1. CuratedTargets \o derived # <<>>
    BY <1>1 DEF Asks
  <2>2. rotation[t] \in Nat
    BY DEF TypeOK
  <2>3. tg = RotateAll(rotation[t])
    BY <1>1 DEF RotatedTargets
  <2> QED BY <1>1, <2>1, <2>2, <2>3, RotateAllTakes
<1>2. CASE Method(t) = "tokenOwner"
  BY <1>2 DEF RotatedTargets
<1>3. CASE Method(t) \notin {"gpa", "tokenOwner"}
  BY <1>3 DEF RotatedTargets
<1> QED BY <1>1, <1>2, <1>3

\* What is asked for besides: a batch names a permanent account.
LEMMA AsksTypes ==
    ASSUME TypeOK, NEW t \in Task, NEW a \in Asks(Method(t))
    PROVE  /\ a \in SUBSET {"permanent", "open", "gone", "seen", "invented"}
           /\ a # {"gone"}
<1>1. CASE Method(t) = "batch"
  <2>1. a \in Batches
    BY <1>1 DEF Asks
  <2>2. CASE Len(accounts) >= 3
    <3>1. PICK i \in 0 .. Len(accounts) - 1 :
            a = {"permanent"} \cup {accounts[((i + k) % Len(accounts)) + 1] : k \in 0 .. 2}
      BY <2>1, <2>2 DEF Batches
    <3>2. accounts \in Seq({"open", "gone"}) /\ Len(accounts) \in Nat /\ Len(accounts) > 0
      BY <2>2 DEF TypeOK
    <3>3. ASSUME NEW k \in 0 .. 2
          PROVE  accounts[((i + k) % Len(accounts)) + 1] \in {"open", "gone"}
      <4> DEFINE n == Len(accounts)
      <4>1. n \in Nat /\ n > 0 /\ i + k \in Nat
        BY <3>2
      <4>2. (i + k) % n \in 0 .. n - 1
        <5> HIDE DEF n
        <5> QED BY <4>1
      <4>3. ((i + k) % n) + 1 \in 1 .. n
        <5> HIDE DEF n
        <5> QED BY <4>1, <4>2
      <4> QED BY <3>2, <4>3
    <3> DEFINE three == {accounts[((i + k) % Len(accounts)) + 1] : k \in 0 .. 2}
    <3>4. three \subseteq {"open", "gone"}
      BY <3>3
    <3>5. a = {"permanent"} \cup three
      BY <3>1
    <3> HIDE DEF three
    <3> QED BY <3>4, <3>5
  <2>3. CASE ~(Len(accounts) >= 3)
    BY <2>1, <2>3 DEF Batches
  <2> QED BY <2>2, <2>3
<1>2. CASE Method(t) = "transaction"
  BY <1>2 DEF Asks, TypeOK
<1>3. CASE Method(t) \notin {"batch", "transaction"}
  <2>1. a = {}
    BY <1>3 DEF Asks
  <2> QED BY <2>1
<1> QED BY <1>1, <1>2, <1>3

\* What is kept is of four kinds.
LEMMA KeepsTypes ==
    ASSUME NEW k, NEW tg
    PROVE  Keeps(k, tg) \subseteq {"slot", "signature", "accounts", "claim"}
  BY DEF Keeps

\* The call counted last.
Counted == [task : Task, outcome : Outcomes, label : {tg.name : tg \in Target},
            kept : SUBSET {"slot", "signature", "accounts", "claim"}]

LEMMA CallType == ASSUME TypeOK, NEW t \in Task, Call(t) PROVE TypeOK'
<1>1. rotation' \in [Task -> 0 .. Turns - 1]
  <2>1. rotation[t] + 1 \in Nat /\ Turns \in Nat /\ Turns > 0
    BY ProbeAssumption DEF TypeOK
  <2>2. (rotation[t] + 1) % Turns \in 0 .. Turns - 1
    BY <2>1
  <2> QED BY <2>2 DEF Call, TypeOK
<1>2. /\ pc' \in [Task -> {"idle", "sent", "gate", "parse"}]
      /\ target' \in [Task -> Target]
      /\ asked' \in [Task -> SUBSET {"permanent", "open", "gone", "seen", "invented"}]
  <2>1. CASE Asks(Method(t)) = {}
    BY <2>1 DEF Call, TypeOK
  <2>2. CASE Asks(Method(t)) # {}
    <3>1. PICK tg \in RotatedTargets(Method(t), rotation[t]) : target' = [target EXCEPT ![t] = tg]
      BY <2>2 DEF Call
    <3>2. tg \in Target
      <4>1. /\ \A i \in DOMAIN CuratedTargets : CuratedTargets[i] \in Target
            /\ \A i \in DOMAIN derived : derived[i] \in Target
        BY TargetKinds DEF TypeOK
      <4> QED BY <2>2, <4>1, RotatedTakes, TargetKinds
    <3>3. PICK a \in Asks(Method(t)) : asked' = [asked EXCEPT ![t] = a]
      BY <2>2 DEF Call
    <3>4. a \in SUBSET {"permanent", "open", "gone", "seen", "invented"}
      BY AsksTypes
    <3>5. pc' = [pc EXCEPT ![t] = "sent"]
      BY <2>2 DEF Call
    <3> QED BY <3>1, <3>2, <3>3, <3>4, <3>5 DEF TypeOK
  <2> QED BY <2>1, <2>2
<1>3. counted' \in Counted
  BY TargetKinds DEF Call, NothingCounted, Counted, Outcomes, NoTarget
<1>4. UNCHANGED <<check, accounts, recent, derived, size, dpc, picked>>
  BY DEF Call, shared, deriver
<1> QED BY <1>1, <1>2, <1>3, <1>4 DEF TypeOK, Counted, Named, Names

\* How a call ends.
LEMMA OverType ==
    ASSUME TypeOK, NEW t \in Task, Over(t)
    PROVE  /\ pc' \in [Task -> {"idle", "sent", "gate", "parse"}]
           /\ rotation' \in [Task -> 0 .. Turns - 1]
           /\ target' \in [Task -> Target]
           /\ asked' \in [Task -> SUBSET {"permanent", "open", "gone", "seen", "invented"}]
  BY TargetKinds DEF Over, TypeOK

LEMMA CountType ==
    ASSUME TypeOK, NEW t \in Task, NEW o \in Outcomes,
           NEW kept \in SUBSET {"slot", "signature", "accounts", "claim"}, Count(t, o, kept)
    PROVE  counted' \in Counted
<1>1. target[t].name \in {tg.name : tg \in Target}
  BY TargetKinds DEF TypeOK
<1> QED BY <1>1 DEF Count, Counted

\* What a recorded answer leaves behind.
LEMMA RecordType ==
    ASSUME TypeOK, NEW t \in Task, Record(t)
    PROVE  /\ counted' \in Counted
           /\ accounts' \in Seq({"open", "gone"}) /\ Len(accounts') <= MaxPool
           /\ recent' \in {"none", "seen", "invented"}
<1> DEFINE kept == Keeps(Method(t), target[t])
<1>1. CASE /\ Count(t, "success", kept)
           /\ IF "accounts" \in kept
              THEN \E p \in Pools(t) : accounts' = IF p = <<>> THEN accounts ELSE p
              ELSE UNCHANGED accounts
           /\ IF "signature" \in kept
              THEN recent' \in (IF Honest(t) THEN {"seen"} ELSE {"seen", "invented"})
              ELSE UNCHANGED recent
  <2>1. kept \in SUBSET {"slot", "signature", "accounts", "claim"}
    BY KeepsTypes
  <2>2. counted' \in Counted
    BY <1>1, <2>1, CountType DEF Outcomes
  <2>3. accounts' \in Seq({"open", "gone"}) /\ Len(accounts') <= MaxPool
    <3>1. ASSUME NEW p \in Pools(t)
          PROVE  p \in Seq({"open", "gone"}) /\ Len(p) <= MaxPool
      <4>1. PICK n \in {0, MaxPool} :
              p \in [1 .. n -> IF Honest(t) THEN {"open"} ELSE {"open", "gone"}]
        BY DEF Pools
      <4>2. n \in Nat /\ n <= MaxPool
        BY ProbeAssumption
      <4> QED BY <4>1, <4>2
    <3> QED BY <1>1, <3>1 DEF TypeOK
  <2>4. recent' \in {"none", "seen", "invented"}
    BY <1>1 DEF TypeOK
  <2> QED BY <2>2, <2>3, <2>4
<1>2. CASE Count(t, "empty", {}) /\ UNCHANGED <<accounts, recent>>
  BY <1>2, CountType DEF TypeOK, Outcomes
<1>3. CASE Count(t, "stale", {}) /\ UNCHANGED <<accounts, recent>>
  BY <1>3, CountType DEF TypeOK, Outcomes
<1> QED BY <1>1, <1>2, <1>3 DEF Record

LEMMA RecordedType ==
    ASSUME TypeOK, NEW t \in Task, Record(t), Over(t),
           UNCHANGED <<check, derived, size, deriver>>
    PROVE  TypeOK'
<1>1. UNCHANGED <<check, derived, size, dpc, picked>>
  BY DEF deriver
<1> QED BY <1>1, RecordType, OverType DEF TypeOK, Counted, Names, Named

\* An update keeps names apart, and takes targets from those that were picked.
LEMMA MergeKeeps ==
    ASSUME TypeOK, NEW new \in Merge(derived, picked)
    PROVE  /\ new \in Seq(Target) /\ Names(new) \subseteq DerivedNames
           /\ \A i, j \in DOMAIN new : new[i].name = new[j].name => i = j
           /\ \A i \in DOMAIN new : new[i] \in picked \/ \E j \in DOMAIN derived : new[i] = derived[j]
<1> DEFINE current(tg) == IF tg.name \in Named(picked)
                          THEN CHOOSE f \in picked : f.name = tg.name ELSE tg
           old == [i \in DOMAIN derived |-> current(derived[i])]
           fresh == {f \in picked : f.name \notin Names(derived)}
<1>1. PICK more \in SetToSeqs(fresh) : new = old \o more
  BY DEF Merge
<1>2. /\ derived \in Seq(Target) /\ Names(derived) \subseteq DerivedNames
      /\ picked \subseteq Target /\ Named(picked) \subseteq DerivedNames
      /\ \A f, g \in picked : f.name = g.name => f = g
      /\ \A i, j \in DOMAIN derived : derived[i].name = derived[j].name => i = j
  BY DEF TypeOK
<1>3. \A i \in DOMAIN derived :
        /\ current(derived[i]).name = derived[i].name
        /\ current(derived[i]) \in picked \/ current(derived[i]) = derived[i]
  BY DEF Named
<1>4. IsFiniteSet(fresh)
  <2>1. IsFiniteSet(DerivedNames)
    <3>1. DerivedNames = {"derived_token_by_mint"} \cup {"derived_token_by_owner"}
      BY DEF DerivedNames
    <3> QED BY <3>1, FS_Singleton, FS_Union
  <2>2. IsFiniteSet(Named(fresh))
    <3>1. Named(fresh) \subseteq DerivedNames
      BY <1>2 DEF Named
    <3> QED BY <2>1, <3>1, FS_Subset
  <2> DEFINE name == [f \in fresh |-> f.name]
  <2>3. name \in Injection(fresh, Named(fresh))
    BY <1>2 DEF Named, Injection, IsInjective
  <2> QED BY <2>2, <2>3, FS_Injection
<1>5. /\ more \in Seq(fresh)
      /\ \A i, j \in DOMAIN more : more[i] = more[j] => i = j
  <2>1. Cardinality(fresh) \in Nat
    BY <1>4, FS_CardinalityType
  <2> HIDE DEF fresh
  <2> QED BY <2>1 DEF SetToSeqs
<1> HIDE DEF current
<1>6. old \in Seq(Target) /\ DOMAIN old = DOMAIN derived /\ Len(old) = Len(derived)
  <2>1. \A i \in DOMAIN derived : current(derived[i]) \in Target
    <3>1. \A i \in DOMAIN derived : derived[i] \in Target
      BY <1>2
    <3> QED BY <1>2, <1>3, <3>1
  <2> QED BY <1>2, <2>1
<1>7. more \in Seq(Target)
  <2>1. fresh \subseteq Target
    BY <1>2
  <2> HIDE DEF fresh
  <2> QED BY <1>5, <2>1
<1>8. \A i \in DOMAIN new :
        \/ i \in DOMAIN derived /\ new[i] = current(derived[i])
        \/ i - Len(derived) \in DOMAIN more /\ new[i] = more[i - Len(derived)]
  <2>1. \A i \in DOMAIN derived : old[i] = current(derived[i])
    OBVIOUS
  <2> HIDE DEF old, fresh
  <2>2. ASSUME NEW i \in DOMAIN (old \o more)
        PROVE  \/ i \in DOMAIN old /\ (old \o more)[i] = old[i]
               \/ i - Len(old) \in DOMAIN more /\ (old \o more)[i] = more[i - Len(old)]
    BY <1>6, <1>7
  <2> QED BY <1>1, <1>6, <2>1, <2>2
<1>9. new \in Seq(Target) /\ DOMAIN new \subseteq Nat
  <2> HIDE DEF old, fresh
  <2>1. old \o more \in Seq(Target)
    BY <1>6, <1>7
  <2>2. new \in Seq(Target)
    BY <1>1, <2>1
  <2> QED BY <2>2
<1>10. \A k \in DOMAIN more : more[k] \in picked /\ more[k].name \notin Names(derived)
  BY <1>5
<1>11. \A i \in DOMAIN derived : derived[i].name \in Names(derived)
  BY DEF Names
<1> HIDE DEF old, fresh
<1>12. Names(new) \subseteq DerivedNames
  <2>1. ASSUME NEW i \in DOMAIN new PROVE new[i].name \in DerivedNames
    <3>1. CASE i \in DOMAIN derived /\ new[i] = current(derived[i])
      BY <1>2, <1>3, <1>11, <3>1
    <3>2. CASE i - Len(derived) \in DOMAIN more /\ new[i] = more[i - Len(derived)]
      BY <1>2, <1>10, <3>2 DEF Named
    <3> QED BY <1>8, <3>1, <3>2
  <2> QED BY <2>1 DEF Names
<1>13. ASSUME NEW i \in DOMAIN new, NEW j \in DOMAIN new, new[i].name = new[j].name
       PROVE  i = j
  <2>1. i \in Int /\ j \in Int /\ Len(derived) \in Int
    BY <1>2, <1>9
  <2>2. CASE i \in DOMAIN derived /\ new[i] = current(derived[i])
    <3>1. new[i].name = derived[i].name /\ new[i].name \in Names(derived)
      BY <1>3, <1>11, <2>2
    <3>2. CASE j \in DOMAIN derived /\ new[j] = current(derived[j])
      BY <1>2, <1>3, <1>13, <2>2, <3>1, <3>2
    <3>3. CASE j - Len(derived) \in DOMAIN more /\ new[j] = more[j - Len(derived)]
      BY <1>10, <1>13, <3>1, <3>3
    <3> QED BY <1>8, <3>2, <3>3
  <2>3. CASE i - Len(derived) \in DOMAIN more /\ new[i] = more[i - Len(derived)]
    <3>1. new[i] \in picked /\ new[i].name \notin Names(derived)
      BY <1>10, <2>3
    <3>2. CASE j \in DOMAIN derived /\ new[j] = current(derived[j])
      BY <1>3, <1>11, <1>13, <3>1, <3>2
    <3>3. CASE j - Len(derived) \in DOMAIN more /\ new[j] = more[j - Len(derived)]
      <4>1. new[j] \in picked
        BY <1>10, <3>3
      <4>2. new[i] = new[j]
        BY <1>2, <1>13, <3>1, <4>1
      <4>3. i - Len(derived) = j - Len(derived)
        BY <1>5, <2>3, <3>3, <4>2
      <4> QED BY <2>1, <4>3
    <3> QED BY <1>8, <3>2, <3>3
  <2> QED BY <1>8, <2>2, <2>3
<1>14. ASSUME NEW i \in DOMAIN new
       PROVE  new[i] \in picked \/ \E j \in DOMAIN derived : new[i] = derived[j]
  BY <1>3, <1>8, <1>10
<1> QED BY <1>9, <1>12, <1>13, <1>14

LEMMA PreflightType == ASSUME TypeOK, Preflight PROVE TypeOK'
<1>1. PICK n \in DerivedNames, a \in Anchors :
         n \notin Named(picked) /\ picked' = picked \cup {[name |-> n, anchor |-> a]}
  BY DEF Preflight
<1>2. [name |-> n, anchor |-> a] \in Target
  BY TargetKinds
<1>3. picked' \subseteq Target /\ Named(picked') \subseteq DerivedNames
  BY <1>1, <1>2 DEF TypeOK, Named
<1>4. \A f, g \in picked' : f.name = g.name => f = g
  BY <1>1 DEF TypeOK, Named
<1>5. UNCHANGED <<check, accounts, recent, derived, size, pc, rotation, target, asked, counted, dpc>>
  BY DEF Preflight, shared, cycle
<1> QED BY <1>3, <1>4, <1>5 DEF TypeOK, Names, Named

LEMMA DeriveEndType == ASSUME TypeOK, DeriveEnd PROVE TypeOK'
<1>1. derived' \in Merge(derived, picked) /\ picked' = {} /\ dpc' = "sleep"
  BY DEF DeriveEnd
<1>2. /\ derived' \in Seq(Target) /\ Names(derived') \subseteq DerivedNames
      /\ \A i, j \in DOMAIN derived' : derived'[i].name = derived'[j].name => i = j
  BY <1>1, MergeKeeps
<1>3. UNCHANGED <<check, accounts, recent, size, pc, rotation, target, asked, counted>>
  BY DEF DeriveEnd, cycle
<1> QED BY <1>1, <1>2, <1>3 DEF TypeOK, Names, Named

LEMMA ProbeTypes == TypeOK /\ [Next]_vars => TypeOK'
<1> SUFFICES ASSUME TypeOK, [Next]_vars PROVE TypeOK'
  OBVIOUS
<1>1. ASSUME NEW t \in Task, TaskStep(t) PROVE TypeOK'
  <2>1. CASE Call(t)
    BY <2>1, CallType
  <2>2. CASE AnswerSmall(t)
    BY <2>2, RecordedType DEF AnswerSmall
  <2>3. CASE AnswerLarge(t)
    BY <2>3 DEF AnswerLarge, TypeOK, shared, deriver, Names, Named
  <2>4. CASE Acquire(t)
    BY <2>4 DEF Acquire, TypeOK, shared, deriver, Names, Named
  <2>5. CASE Parsed(t)
    BY <2>5, RecordedType DEF Parsed
  <2>6. CASE Fails(t)
    <3>1. Over(t) /\ UNCHANGED <<check, accounts, recent, derived, size, dpc, picked>>
      BY <2>6 DEF Fails, shared, deriver
    <3>2. counted' \in Counted
      BY <2>6, CountType DEF Fails, Outcomes
    <3> QED BY <3>1, <3>2, OverType DEF TypeOK, Counted, Names, Named
  <2> QED BY <1>1, <2>1, <2>2, <2>3, <2>4, <2>5, <2>6 DEF TaskStep
<1>2. CASE DeriveStart
  BY <1>2 DEF DeriveStart, TypeOK, shared, cycle, Names, Named
<1>3. CASE AccountCloses
  <2>1. size' \in [Anchors -> Nat]
    BY <1>3 DEF AccountCloses, TypeOK
  <2>2. UNCHANGED <<check, accounts, recent, derived, pc, rotation, target, asked, counted, dpc, picked>>
    BY <1>3 DEF AccountCloses, shared, cycle, deriver
  <2> QED BY <2>1, <2>2 DEF TypeOK, Names, Named
<1>4. CASE UNCHANGED vars
  BY <1>4 DEF vars, shared, cycle, deriver, TypeOK, Names, Named
<1> QED BY <1>1, <1>2, <1>3, <1>4, PreflightType, DeriveEndType DEF Next

-----------------------------------------------------------------------------
(* Probe: questions and answers. *)

\* An anchor that was picked has accounts left.
LEMMA SoundHasAccounts ==
    ASSUME TypeOK, Questions, NEW tg, Sound(tg), tg.anchor # Fixed
    PROVE  size[tg.anchor] > 0
<1>1. tg.anchor \in Anchors /\ Sizes[tg.anchor] >= MinAccounts
  BY DEF Sound
<1>2. /\ MinAccounts \in Nat /\ MaxClosed \in Nat /\ MaxClosed < MinAccounts
      /\ Sizes[tg.anchor] \in Nat /\ size[tg.anchor] \in Nat
  BY <1>1, ProbeAssumption DEF TypeOK
<1>3. Sizes[tg.anchor] - MaxClosed <= size[tg.anchor]
  BY <1>1 DEF Questions
<1> QED BY <1>1, <1>2, <1>3

\* An honest answer to anything but a question for a transaction has something in it.
LEMMA HonestHasAnswer ==
    ASSUME TypeOK, Questions, NEW t \in Task, Honest(t), FALSE \in IsValid(t)
    PROVE  Method(t) = "transaction"
<1> SUFFICES ASSUME Method(t) # "transaction" PROVE FALSE
  OBVIOUS
<1>1. FALSE \in HonestValid(t)
  BY DEF IsValid
<1>2. CASE Method(t) = "batch"
  <2>1. HonestValid(t) = {asked[t] # {"gone"}}
    BY <1>2 DEF HonestValid
  <2>2. asked[t] # {"gone"}
    BY DEF Questions
  <2> QED BY <1>1, <2>1, <2>2
<1>3. CASE Method(t) \in {"gpa", "tokenOwner"}
  <2>1. HonestValid(t) = {target[t].anchor # Fixed => size[target[t].anchor] > 0}
    BY <1>3 DEF HonestValid
  <2>2. target[t].anchor # Fixed => size[target[t].anchor] > 0
    BY SoundHasAccounts DEF Questions
  <2> QED BY <1>1, <2>1, <2>2
<1>4. CASE Method(t) \notin {"batch", "gpa", "tokenOwner"}
  <2>1. HonestValid(t) = {TRUE}
    BY <1>4 DEF HonestValid
  <2> QED BY <1>1, <2>1
<1> QED BY <1>2, <1>3, <1>4

\* A probe without a target, and an anchored page.
LEMMA PlainTargets ==
    /\ NoTarget.anchor = Fixed /\ NoTarget.name = ""
    /\ ArchivalPage.anchor = Fixed /\ ArchivalPage.name = "archival"
    /\ Sound(NoTarget) /\ Sound(ArchivalPage)
<1>1. /\ NoTarget.anchor = Fixed /\ NoTarget.name = ""
      /\ ArchivalPage.anchor = Fixed /\ ArchivalPage.name = "archival"
  BY DEF NoTarget, ArchivalPage
<1> QED BY <1>1 DEF Sound

\* What is counted of a recorded answer.
LEMMA RecordIsRight ==
    ASSUME TypeOK, Questions, NEW t \in Task, Record(t), UNCHANGED check
    PROVE  HonestNeverEmpty' /\ NothingLeaks'
<1> DEFINE kept == Keeps(Method(t), target[t])
<1>1. \/ Count(t, "success", kept)
      \/ Count(t, "empty", {}) /\ FALSE \in IsValid(t)
      \/ Count(t, "stale", {})
  BY DEF Record
<1>2. \A u : Method(u)' = Method(u) /\ Honest(u)' = Honest(u)
  BY DEF Method, Honest
<1> HIDE DEF kept
<1>3. /\ counted'.task = t /\ counted'.label = target[t].name
      /\ counted'.kept \in {kept, {}}
  <2>1. \A o, k : Count(t, o, k) => /\ counted'.task = t /\ counted'.label = target[t].name
                                   /\ counted'.kept = k
    BY DEF Count
  <2> QED BY <1>1, <2>1
<1>4. HonestNeverEmpty'
  <2>1. SUFFICES ASSUME Honest(t), counted'.outcome = "empty" PROVE Method(t) = "transaction"
    BY <1>2, <1>3 DEF HonestNeverEmpty
  <2>2. FALSE \in IsValid(t)
    <3>1. CASE Count(t, "success", kept)
      BY <2>1, <3>1 DEF Count
    <3>2. CASE Count(t, "stale", {})
      BY <2>1, <3>2 DEF Count
    <3> QED BY <1>1, <3>1, <3>2
  <2> QED BY <2>1, <2>2, HonestHasAnswer
<1>5. NothingLeaks'
  <2>1. CASE counted'.kept = {}
    BY <2>1 DEF NothingLeaks
  <2>2. CASE counted'.kept = kept
    <3>1. Method(t) \notin {"gpa", "tokenOwner"} => target[t] \in {NoTarget, ArchivalPage}
      BY DEF Questions
    <3>2. Method(t) = "signatures" /\ target[t].name = "archival" => kept = {}
      <4>1. Method(t) = "signatures" /\ target[t].name = "archival" => target[t] = ArchivalPage
        BY <3>1, PlainTargets
      <4> QED BY <4>1 DEF kept, Keeps
    <3>3. "claim" \in kept => target[t].name \notin DerivedNames
      <4>1. CASE Method(t) \in {"gpa", "tokenOwner"}
        BY <4>1 DEF kept, Keeps, ClaimsOf
      <4>2. CASE Method(t) \notin {"gpa", "tokenOwner"}
        BY <3>1, <4>2, PlainTargets DEF DerivedNames
      <4> QED BY <4>1, <4>2
    <3> QED BY <1>2, <1>3, <2>2, <3>2, <3>3 DEF NothingLeaks
  <2> QED BY <1>3, <2>1, <2>2
<1> QED BY <1>4, <1>5

\* What is over is asked no more.
LEMMA OverKeeps ==
    ASSUME TypeOK, Questions, NEW t \in Task, Over(t), UNCHANGED <<check, size, derived, picked>>
    PROVE  Questions'
<1>1. /\ target' = [target EXCEPT ![t] = NoTarget]
      /\ asked' = [asked EXCEPT ![t] = {}]
      /\ target \in [Task -> Target] /\ DOMAIN asked = Task
  BY DEF Over, TypeOK
<1>2. ASSUME NEW u \in Task
      PROVE  /\ Sound(target'[u])
             /\ Method(u)' \notin {"gpa", "tokenOwner"} => target'[u] \in {NoTarget, ArchivalPage}
             /\ asked'[u] # {"gone"}
  <2>1. Method(u)' = Method(u)
    BY DEF Method
  <2>2. CASE u = t
    <3>1. target'[u] = NoTarget /\ asked'[u] = {}
      BY <1>1, <2>2
    <3> QED BY <3>1, PlainTargets
  <2>3. CASE u # t
    <3>1. target'[u] = target[u] /\ asked'[u] = asked[u]
      BY <1>1, <2>3
    <3> QED BY <2>1, <3>1 DEF Questions
  <2> QED BY <2>2, <2>3
<1> QED BY <1>2 DEF Questions, Sound

LEMMA CallKeeps ==
    ASSUME ProbeInv, NEW t \in Task, Call(t)
    PROVE  Questions' /\ HonestNeverEmpty' /\ NothingLeaks'
<1> USE DEF ProbeInv
<1>1. UNCHANGED <<check, size, derived, picked>> /\ counted' = NothingCounted(t)
  BY DEF Call, shared, deriver
<1>2. HonestNeverEmpty' /\ NothingLeaks'
  BY <1>1 DEF NothingCounted, HonestNeverEmpty, NothingLeaks
<1>3. Questions'
  <2>1. CASE Asks(Method(t)) = {}
    <3>1. UNCHANGED <<target, asked>>
      BY <2>1 DEF Call
    <3> QED BY <1>1, <3>1 DEF Questions, Method, Sound
  <2>2. CASE Asks(Method(t)) # {}
    <3>1. PICK tg \in RotatedTargets(Method(t), rotation[t]) : target' = [target EXCEPT ![t] = tg]
      BY <2>2 DEF Call
    <3>2. PICK a \in Asks(Method(t)) : asked' = [asked EXCEPT ![t] = a]
      BY <2>2 DEF Call
    <3>3. Sound(tg) /\ (Method(t) \notin {"gpa", "tokenOwner"} => tg \in {NoTarget, ArchivalPage})
      <4>1. CASE tg \in {NoTarget, ArchivalPage}
        BY <4>1, PlainTargets
      <4>2. CASE \E i \in DOMAIN CuratedTargets : tg = CuratedTargets[i]
        BY <2>2, <4>2, RotatedTakes, TargetKinds DEF Sound
      <4>3. CASE \E i \in DOMAIN derived : tg = derived[i]
        BY <2>2, <4>3, RotatedTakes DEF Questions
      <4> QED BY <2>2, <4>1, <4>2, <4>3, RotatedTakes
    <3>4. a # {"gone"}
      BY AsksTypes
    <3>5. DOMAIN target = Task /\ DOMAIN asked = Task
      BY DEF TypeOK
    <3>6. ASSUME NEW u \in Task
          PROVE  /\ Sound(target'[u])
                 /\ Method(u)' \notin {"gpa", "tokenOwner"} => target'[u] \in {NoTarget, ArchivalPage}
                 /\ asked'[u] # {"gone"}
      <4>1. Method(u)' = Method(u)
        BY <1>1 DEF Method
      <4>2. CASE u = t
        <5>1. target'[u] = tg /\ asked'[u] = a
          BY <3>1, <3>2, <3>5, <4>2
        <5> QED BY <3>3, <3>4, <4>1, <4>2, <5>1
      <4>3. CASE u # t
        <5>1. target'[u] = target[u] /\ asked'[u] = asked[u]
          BY <3>1, <3>2, <3>5, <4>3
        <5> QED BY <4>1, <5>1 DEF Questions
      <4> QED BY <4>2, <4>3
    <3> QED BY <1>1, <3>6 DEF Questions, Sound
  <2> QED BY <2>1, <2>2
<1> QED BY <1>2, <1>3

\* A target is picked while its anchor has accounts enough.
LEMMA PreflightKeeps == ASSUME TypeOK, Questions, Preflight PROVE Questions'
<1>1. PICK n \in DerivedNames, a \in Anchors :
         CountInBounds(a) /\ picked' = picked \cup {[name |-> n, anchor |-> a]}
  BY DEF Preflight
<1>2. Sizes[a] >= MinAccounts
  <2>1. size[a] \in MinAccounts .. MaxAccounts /\ size[a] <= Sizes[a]
    BY <1>1 DEF CountInBounds, Questions
  <2>2. {MinAccounts, MaxAccounts} \subseteq Nat /\ Sizes[a] \in Nat
    BY ProbeAssumption
  <2> QED BY <2>1, <2>2
<1>3. \A f \in picked' : Sound(f)
  BY <1>1, <1>2 DEF Questions, Sound
<1>4. UNCHANGED <<check, size, derived, target, asked>>
  BY DEF Preflight, shared, cycle
<1> QED BY <1>3, <1>4 DEF Questions, Method, Sound

LEMMA DeriveEndKeeps == ASSUME TypeOK, Questions, DeriveEnd PROVE Questions'
<1>1. derived' \in Merge(derived, picked) /\ picked' = {}
  BY DEF DeriveEnd
<1>2. \A i \in DOMAIN derived' : Sound(derived'[i])
  <2>1. \A i \in DOMAIN derived' : derived'[i] \in picked \/ \E j \in DOMAIN derived : derived'[i] = derived[j]
    BY <1>1, MergeKeeps
  <2> QED BY <2>1 DEF Questions
<1>3. UNCHANGED <<check, size, target, asked>>
  BY DEF DeriveEnd, cycle
<1> QED BY <1>1, <1>2, <1>3 DEF Questions, Method, Sound

LEMMA ClosesKeeps == ASSUME TypeOK, Questions, AccountCloses PROVE Questions'
<1>1. PICK a \in Anchors :
         size[a] > Sizes[a] - MaxClosed /\ size[a] > 0 /\ size' = [size EXCEPT ![a] = @ - 1]
  BY DEF AccountCloses
<1>2. size \in [Anchors -> Nat] /\ Sizes \in [Anchors -> Nat] /\ MaxClosed \in Nat
  BY ProbeAssumption DEF TypeOK
<1>3. \A b \in Anchors : Sizes[b] - MaxClosed <= size'[b] /\ size'[b] <= Sizes[b]
  BY <1>1, <1>2 DEF Questions
<1>4. UNCHANGED <<check, derived, picked, target, asked>>
  BY DEF AccountCloses, shared, cycle, deriver
<1> QED BY <1>3, <1>4 DEF Questions, Method, Sound

LEMMA ProbeInductive == ProbeInv /\ [Next]_vars => ProbeInv'
<1> SUFFICES ASSUME ProbeInv, [Next]_vars PROVE ProbeInv'
  OBVIOUS
<1> DEFINE Goal == Questions' /\ HonestNeverEmpty' /\ NothingLeaks'
<1>0. TypeOK' /\ TypeOK /\ Questions
  BY ProbeTypes DEF ProbeInv
<1>1. ASSUME UNCHANGED <<check, counted>> PROVE HonestNeverEmpty' /\ NothingLeaks'
  BY <1>1 DEF ProbeInv, HonestNeverEmpty, NothingLeaks, Method, Honest
<1>2. ASSUME UNCHANGED <<check, size, derived, picked, target, asked>> PROVE Questions'
  BY <1>2 DEF ProbeInv, Questions, Method, Sound
<1>3. ASSUME NEW t \in Task, TaskStep(t) PROVE Goal
  <2>1. CASE Call(t)
    BY <2>1, CallKeeps
  <2>2. CASE AnswerSmall(t)
    <3>1. Record(t) /\ Over(t) /\ UNCHANGED <<check, size, derived, picked>>
      BY <2>2 DEF AnswerSmall, deriver
    <3> QED BY <1>0, <3>1, RecordIsRight, OverKeeps
  <2>3. CASE AnswerLarge(t) \/ Acquire(t)
    <3>1. UNCHANGED <<check, counted, size, derived, picked, target, asked>>
      BY <2>3 DEF AnswerLarge, Acquire, deriver, shared
    <3> QED BY <1>1, <1>2, <3>1
  <2>4. CASE Parsed(t)
    <3>1. Record(t) /\ Over(t) /\ UNCHANGED <<check, size, derived, picked>>
      BY <2>4 DEF Parsed, deriver
    <3> QED BY <1>0, <3>1, RecordIsRight, OverKeeps
  <2>5. CASE Fails(t)
    <3>1. Count(t, "failed", {}) /\ Over(t) /\ UNCHANGED <<check, size, derived, picked>>
      BY <2>5 DEF Fails, deriver, shared
    <3>2. HonestNeverEmpty' /\ NothingLeaks'
      BY <3>1 DEF Count, HonestNeverEmpty, NothingLeaks
    <3> QED BY <1>0, <3>1, <3>2, OverKeeps
  <2> QED BY <1>3, <2>1, <2>2, <2>3, <2>4, <2>5 DEF TaskStep
<1>4. CASE DeriveStart
  <2>1. UNCHANGED <<check, counted, size, derived, picked, target, asked>>
    BY <1>4 DEF DeriveStart, shared, cycle
  <2> QED BY <1>0, <1>1, <1>2, <2>1 DEF ProbeInv
<1>5. CASE Preflight
  <2>1. UNCHANGED <<check, counted>>
    BY <1>5 DEF Preflight
  <2> QED BY <1>0, <1>1, <1>5, <2>1, PreflightKeeps DEF ProbeInv
<1>6. CASE DeriveEnd
  <2>1. UNCHANGED <<check, counted>>
    BY <1>6 DEF DeriveEnd
  <2> QED BY <1>0, <1>1, <1>6, <2>1, DeriveEndKeeps DEF ProbeInv
<1>7. CASE AccountCloses
  <2>1. UNCHANGED <<check, counted>>
    BY <1>7 DEF AccountCloses
  <2> QED BY <1>0, <1>1, <1>7, <2>1, ClosesKeeps DEF ProbeInv
<1>8. CASE UNCHANGED vars
  <2>1. UNCHANGED <<check, counted, size, derived, picked, target, asked>>
    BY <1>8 DEF vars, shared, cycle, deriver
  <2> QED BY <1>0, <1>1, <1>2, <2>1 DEF ProbeInv
<1>9. CASE \E t \in Task : TaskStep(t)
  BY <1>0, <1>3, <1>9 DEF ProbeInv
<1> QED BY <1>4, <1>5, <1>6, <1>7, <1>8, <1>9 DEF Next

LEMMA ProbeInit == Init => ProbeInv
<1> SUFFICES ASSUME Init PROVE ProbeInv
  OBVIOUS
<1>1. PICK t \in Task : counted = NothingCounted(t)
  BY DEF Init
<1>2. TypeOK
  <2>1. counted \in Counted
    BY <1>1, TargetKinds DEF NothingCounted, Counted, Outcomes, NoTarget
  <2>2. 0 \in 0 .. Turns - 1
    BY ProbeAssumption
  <2>3. accounts \in Seq({"open", "gone"}) /\ Len(accounts) <= MaxPool
    BY ProbeAssumption DEF Init
  <2>4. target \in [Task -> Target] /\ size \in [Anchors -> Nat]
    BY ProbeAssumption, TargetKinds DEF Init
  <2>5. derived \in Seq(Target) /\ derived = <<>> /\ picked = {}
    BY DEF Init
  <2> QED BY <2>1, <2>2, <2>3, <2>4, <2>5 DEF Init, TypeOK, Counted, Names, Named
<1>3. Questions
  <2>1. \A a \in Anchors : Sizes[a] - MaxClosed <= Sizes[a] /\ Sizes[a] <= Sizes[a]
    BY ProbeAssumption
  <2>2. \A u \in Task : target[u] = NoTarget /\ asked[u] = {}
    BY DEF Init
  <2>3. size = Sizes /\ derived = <<>> /\ picked = {}
    BY DEF Init
  <2>4. \A u \in Task : Sound(target[u]) /\ target[u] \in {NoTarget, ArchivalPage} /\ asked[u] # {"gone"}
    BY <2>2, PlainTargets
  <2>5. \A i \in DOMAIN derived : Sound(derived[i])
    BY <2>3
  <2> QED BY <2>1, <2>3, <2>4, <2>5 DEF Questions
<1>4. HonestNeverEmpty /\ NothingLeaks
  BY <1>1 DEF NothingCounted, HonestNeverEmpty, NothingLeaks
<1> QED BY <1>2, <1>3, <1>4 DEF ProbeInv

LEMMA ProbeAlways == Spec => []ProbeInv
BY ProbeInit, ProbeInductive, PTL DEF Spec

\* Every variable has its type; however rounds of the deriver merge, there is one
\* derived target of a name.
THEOREM TypeCorrect == Spec => []TypeOK
<1>1. ProbeInv => TypeOK
  BY DEF ProbeInv
<1> QED BY <1>1, ProbeAlways, PTL

\* Whatever the pools hold, whichever targets are derived meanwhile, and while
\* accounts close: an honest answer is scored empty for a transaction only.
THEOREM HonestAnswersCount == Spec => []HonestNeverEmpty
<1>1. ProbeInv => HonestNeverEmpty
  BY DEF ProbeInv
<1> QED BY <1>1, ProbeAlways, PTL

\* Nothing is kept of an anchored page, and no claim is made of a derived target.
THEOREM PagesLeaveNothing == Spec => []NothingLeaks
<1>1. ProbeInv => NothingLeaks
  BY DEF ProbeInv
<1> QED BY <1>1, ProbeAlways, PTL

-----------------------------------------------------------------------------
(* Targets: three readers of an account. *)

Key == {key \in Seq(Nat) : Len(key) = KeyLen}

\* A target whose filters are filters.
Proper(t) == t.size \in Nat /\ t.memcmp \in Seq(Filter)

\* A key inside of the data.
LEMMA KeyInside ==
    ASSUME NEW data \in Seq(Nat), NEW from \in Nat, from + KeyLen <= Len(data)
    PROVE  KeyAt(data, from) \in Key
<1>1. KeyLen \in Nat
  BY TargetsAssumption
<1> QED BY <1>1 DEF KeyAt, Key

\* One filter: comparing a part of the data is comparing its bytes.
LEMMA FilterAlike ==
    ASSUME NEW data \in Seq(Nat), NEW offset \in Nat, NEW bytes \in Seq(Nat), bytes # <<>>
    PROVE  /\ offset + Len(bytes) <= Len(data)
           /\ SubSeq(data, offset + 1, offset + Len(bytes)) = bytes
           <=> \A j \in DOMAIN bytes : offset + j \in DOMAIN data /\ data[offset + j] = bytes[j]
<1> DEFINE end == offset + Len(bytes)
           part == SubSeq(data, offset + 1, end)
<1>1. Len(bytes) \in Nat /\ Len(bytes) > 0 /\ Len(data) \in Nat /\ end \in Nat
      /\ DOMAIN bytes = 1 .. Len(bytes) /\ DOMAIN data = 1 .. Len(data)
  OBVIOUS
<1>2. ASSUME end <= Len(data)
      PROVE  part \in Seq(Nat) /\ Len(part) = Len(bytes) /\ \A j \in 1 .. Len(bytes) : part[j] = data[offset + j]
  BY <1>1, <1>2
<1>3. ASSUME end <= Len(data), part = bytes, NEW j \in DOMAIN bytes
      PROVE  offset + j \in DOMAIN data /\ data[offset + j] = bytes[j]
  <2>1. j \in 1 .. Len(bytes) /\ part[j] = data[offset + j]
    <3> HIDE DEF part, end
    <3> QED BY <1>1, <1>2, <1>3
  <2>2. part[j] = bytes[j]
    BY <1>3
  <2>3. offset + j \in 1 .. Len(data)
    <3>1. end <= Len(data) /\ j \in 1 .. Len(bytes)
      BY <1>3, <2>1
    <3> HIDE DEF part
    <3> QED BY ONLY <1>1, <3>1, offset \in Nat
  <2> HIDE DEF part, end
  <2> QED BY <1>1, <2>1, <2>2, <2>3
<1>4. ASSUME \A j \in DOMAIN bytes : offset + j \in DOMAIN data /\ data[offset + j] = bytes[j]
      PROVE  end <= Len(data) /\ part = bytes
  <2>1. Len(bytes) \in DOMAIN bytes
    BY <1>1
  <2>2. end \in DOMAIN data
    BY <1>4, <2>1
  <2>3. end <= Len(data)
    BY <1>1, <2>2
  <2>4. \A j \in 1 .. Len(bytes) : part[j] = bytes[j]
    BY <1>1, <1>2, <1>4, <2>3
  <2>5. part = bytes
    <3> HIDE DEF part
    <3> QED BY <1>1, <1>2, <2>3, <2>4
  <2> QED BY <2>3, <2>5
<1> QED BY <1>3, <1>4

\* The monitor's matcher takes what the node's filters let through.
LEMMA MatchesIsSelects ==
    ASSUME NEW t, Proper(t), NEW a \in AccountType
    PROVE  Matches(t, a) <=> Selects(t, a)
<1>1. a.data \in Seq(Nat)
  BY DEF AccountType
<1>2. ASSUME NEW i \in DOMAIN t.memcmp
      PROVE  LET f == t.memcmp[i]
                 end == f.offset + Len(f.bytes) IN
             (end <= Len(a.data) /\ SubSeq(a.data, f.offset + 1, end) = f.bytes)
             <=> \A j \in DOMAIN f.bytes :
                   f.offset + j \in DOMAIN a.data /\ a.data[f.offset + j] = f.bytes[j]
  <2>1. t.memcmp[i] \in Filter
    BY DEF Proper
  <2>2. t.memcmp[i].offset \in Nat /\ t.memcmp[i].bytes \in Seq(Nat) /\ t.memcmp[i].bytes # <<>>
    BY <2>1 DEF Filter
  <2> QED BY <1>1, <2>2, FilterAlike
<1> QED BY <1>2 DEF Matches, Selects

\* A token target selects token accounts with its key in its place.
LEMMA TokenSelects ==
    ASSUME NEW n, NEW offset \in {MintOffset, OwnerOffset}, NEW key \in Key, NEW a \in AccountType
    PROVE  /\ Proper(TokenTarget(n, offset, key))
           /\ Selects(TokenTarget(n, offset, key), a)
              <=> a.program = "token" /\ Len(a.data) = TokenLen /\ KeyAt(a.data, offset) = key
<1> DEFINE t == TokenTarget(n, offset, key)
<1>1. /\ KeyLen \in Nat \ {0} /\ TokenLen \in Nat /\ TokenLen >= 2 * KeyLen
      /\ offset \in Nat /\ offset + KeyLen <= TokenLen
  BY TargetsAssumption
<1>2. key \in Seq(Nat) /\ Len(key) = KeyLen /\ key # <<>>
  BY <1>1 DEF Key
<1>3. /\ t.program = "token" /\ t.size = TokenLen /\ t.size # AnySize
      /\ t.memcmp = <<[offset |-> offset, bytes |-> key]>>
  BY <1>1 DEF TokenTarget, AnySize
<1>4. [offset |-> offset, bytes |-> key] \in Filter
  BY <1>1, <1>2 DEF Filter
<1> HIDE DEF t
<1>5. Proper(t)
  BY <1>1, <1>3, <1>4 DEF Proper
<1>6. DOMAIN t.memcmp = {1} /\ t.memcmp[1].offset = offset /\ t.memcmp[1].bytes = key
  BY <1>3
<1>7. Matches(t, a) <=> a.program = "token" /\ Len(a.data) = TokenLen /\ KeyAt(a.data, offset) = key
  <2>1. Matches(t, a) <=> /\ a.program = "token" /\ Len(a.data) = TokenLen
                          /\ offset + Len(key) <= Len(a.data)
                          /\ SubSeq(a.data, offset + 1, offset + Len(key)) = key
    BY <1>3, <1>6 DEF Matches
  <2> QED BY <1>1, <1>2, <2>1 DEF KeyAt
<1>8. Selects(t, a) <=> Matches(t, a)
  BY <1>5, MatchesIsSelects
<1> QED BY <1>5, <1>7, <1>8 DEF t

\* An owner's accounts are those that the filter by owner selects.
LEMMA OwnedIsSelected ==
    ASSUME chain \in [Pubkey -> Account], NEW n, NEW key \in Key
    PROVE  OwnedBy(key) = ProgramAccounts(TokenTarget(n, OwnerOffset, key))
<1>1. \A p \in Pubkey : chain[p] \in AccountType
  BY TargetsAssumption
<1>2. OwnerOffset = KeyLen
  BY TargetsAssumption
<1>3. \A p \in Pubkey :
        Selects(TokenTarget(n, OwnerOffset, key), chain[p])
        <=> /\ chain[p].program = "token" /\ Len(chain[p].data) = TokenLen
            /\ KeyAt(chain[p].data, KeyLen) = key
  BY <1>1, <1>2, TokenSelects
<1> QED BY <1>3 DEF OwnedBy, ProgramAccounts

\* The owner that is asked for is the key of the filter by owner.
LEMMA AnchorOfOwner ==
    ASSUME NEW n, NEW key
    PROVE  OwnerAnchor(TokenTarget(n, OwnerOffset, key)) = key
<1> DEFINE t == TokenTarget(n, OwnerOffset, key)
<1>1. DOMAIN t.memcmp = {1} /\ t.memcmp[1].offset = OwnerOffset /\ t.memcmp[1].bytes = key
  BY DEF TokenTarget
<1> HIDE DEF t
<1>2. {i \in DOMAIN t.memcmp : t.memcmp[i].offset = OwnerOffset} = {1}
  BY <1>1
<1>3. (CHOOSE i \in {1} : \A j \in {1} : i <= j) = 1
  OBVIOUS
<1>4. OwnerAnchor(t) = key
  BY <1>1, <1>2, <1>3 DEF OwnerAnchor
<1> QED BY <1>4 DEF t

-----------------------------------------------------------------------------
(* Targets: answers and samples. *)

Entry == [pubkey : Pubkey, account : Account]

\* No account is listed twice.
Apart(es) == \A i, j \in DOMAIN es : es[i].pubkey = es[j].pubkey => i = j

\* What a node lists.
LEMMA ListedIs ==
    ASSUME chain \in [Pubkey -> Account], NEW ps \in SUBSET Pubkey, NEW es \in Listed(ps)
    PROVE  /\ es \in Seq(Entry) /\ Apart(es) /\ Len(es) = Cardinality(ps)
           /\ \A i \in DOMAIN es : \E p \in ps : es[i].account = chain[p]
<1>1. Cardinality(ps) \in Nat
  BY TargetsAssumption, FS_Subset, FS_CardinalityType
<1>2. PICK s \in SetToSeqs(ps) : es = [i \in DOMAIN s |-> [pubkey |-> s[i], account |-> chain[s[i]]]]
  BY DEF Listed
<1>3. /\ s \in [1 .. Cardinality(ps) -> ps]
      /\ \A i, j \in 1 .. Cardinality(ps) : i # j => s[i] # s[j]
  BY <1>2 DEF SetToSeqs
<1>4. DOMAIN es = 1 .. Cardinality(ps)
  BY <1>2, <1>3
<1>5. ASSUME NEW i \in 1 .. Cardinality(ps)
      PROVE  /\ s[i] \in ps /\ es[i].pubkey = s[i] /\ es[i].account = chain[s[i]]
             /\ es[i] \in Entry
  BY <1>2, <1>3 DEF Entry
<1>6. es \in Seq(Entry) /\ Len(es) = Cardinality(ps)
  <2>1. es = [i \in 1 .. Cardinality(ps) |-> es[i]]
    BY <1>2, <1>3
  <2> QED BY <1>1, <1>5, <2>1
<1>7. Apart(es)
  BY <1>3, <1>4, <1>5 DEF Apart
<1> QED BY <1>4, <1>5, <1>6, <1>7

\* One, two and three of a kind.
LEMMA OneTwoThree ==
    /\ \A x : Cardinality({x}) = 1
    /\ \A x, y : x # y => Cardinality({x, y}) = 2
    /\ \A x, y, z : x # y /\ x # z /\ y # z => Cardinality({x, y, z}) = 3
<1>1. \A x : IsFiniteSet({x}) /\ Cardinality({x}) = 1
  BY FS_Singleton
<1>2. ASSUME NEW x, NEW y, x # y PROVE IsFiniteSet({x, y}) /\ Cardinality({x, y}) = 2
  <2>1. {x, y} = {x} \cup {y} /\ y \notin {x}
    BY <1>2
  <2>2. IsFiniteSet({x} \cup {y}) /\ Cardinality({x} \cup {y}) = Cardinality({x}) + 1
    BY <1>1, <2>1, FS_AddElement
  <2> QED BY <1>1, <2>1, <2>2
<1>3. ASSUME NEW x, NEW y, NEW z, x # y, x # z, y # z PROVE Cardinality({x, y, z}) = 3
  <2>1. {x, y, z} = {x, y} \cup {z} /\ z \notin {x, y}
    BY <1>3
  <2>2. Cardinality({x, y} \cup {z}) = Cardinality({x, y}) + 1
    BY <1>2, <1>3, <2>1, FS_AddElement
  <2> QED BY <1>2, <1>3, <2>1, <2>2
<1>4. \A x : Cardinality({x}) = 1
  BY <1>1
<1>5. \A x, y : x # y => Cardinality({x, y}) = 2
  BY <1>2
<1>6. \A x, y, z : x # y /\ x # z /\ y # z => Cardinality({x, y, z}) = 3
  BY <1>3
<1> QED BY <1>4, <1>5, <1>6

\* The first, the middle and the last are one, two or three.
LEMMA SampleOf ==
    ASSUME NEW es \in Seq(Entry), es # <<>>, Apart(es)
    PROVE  /\ Cardinality(SampleAccounts(es)) = IF Len(es) < 3 THEN Len(es) ELSE 3
           /\ {Sampled(es[1]), Sampled(es[Len(es)])} \subseteq SampleAccounts(es)
           /\ SampleAccounts(es) \subseteq {Sampled(es[i]) : i \in DOMAIN es}
           /\ SampleAccounts(es) \subseteq [pubkey : Pubkey, data : Seq(Nat)]
<1> DEFINE n == Len(es)
           m == n \div 2 + 1
           S(i) == Sampled(es[i])
<1>1. n \in Nat /\ n > 0 /\ DOMAIN es = 1 .. n
  OBVIOUS
<1>2. m \in 1 .. n /\ (n < 3 => m = n) /\ (n >= 3 => 1 < m /\ m < n)
  <2> HIDE DEF n
  <2> QED BY <1>1
<1>3. SampleAccounts(es) = {S(i) : i \in {1, m, n}}
  BY DEF SampleAccounts, Picks
<1>4. SampleAccounts(es) = {S(1), S(m), S(n)}
  <2> HIDE DEF S, m, n
  <2> QED BY <1>3
<1>5. \A i, j \in 1 .. n : S(i) = S(j) => i = j
  BY <1>1 DEF Sampled, Apart
<1>6. \A i \in 1 .. n : S(i) \in [pubkey : Pubkey, data : Seq(Nat)]
  <2>1. \A i \in 1 .. n : es[i] \in Entry
    BY <1>1
  <2>2. \A e \in Entry : Sampled(e) \in [pubkey : Pubkey, data : Seq(Nat)]
    BY TargetsAssumption DEF Entry, Sampled, AccountType
  <2> QED BY <2>1, <2>2
<1>7. {S(1), S(m), S(n)} \subseteq {S(i) : i \in DOMAIN es}
  <2>1. 1 \in DOMAIN es /\ m \in DOMAIN es /\ n \in DOMAIN es
    <3> HIDE DEF m, n
    <3> QED BY <1>1, <1>2
  <2> HIDE DEF S, m, n
  <2> QED BY <2>1
<1>8. Cardinality({S(1), S(m), S(n)}) = IF n < 3 THEN n ELSE 3
  <2> DEFINE x == S(1)
             y == S(m)
             z == S(n)
  <2>1. CASE n = 1
    <3>1. x = z /\ y = z
      BY <1>2, <2>1
    <3> HIDE DEF S, m, n, x, y, z
    <3>2. Cardinality({x, y, z}) = 1
      <4>1. {x, y, z} = {z}
        BY <3>1
      <4> QED BY <4>1, OneTwoThree
    <3> QED BY <2>1, <3>2 DEF x, y, z
  <2>2. CASE n = 2
    <3>1. y = z /\ x # z
      <4> HIDE DEF S, m, n
      <4> QED BY <1>2, <1>5, <2>2
    <3> HIDE DEF S, m, n, x, y, z
    <3>2. Cardinality({x, y, z}) = 2
      <4>1. {x, y, z} = {x, z}
        BY <3>1
      <4>2. Cardinality({x, z}) = 2
        BY <3>1, OneTwoThree
      <4> QED BY <4>1, <4>2
    <3> QED BY <2>2, <3>2 DEF x, y, z
  <2>3. CASE n >= 3
    <3>1. x # y /\ x # z /\ y # z
      <4> HIDE DEF S, m, n
      <4> QED BY <1>1, <1>2, <1>5, <2>3
    <3> HIDE DEF S, m, n, x, y, z
    <3>2. Cardinality({x, y, z}) = 3
      BY <3>1, OneTwoThree
    <3> QED BY <1>1, <2>3, <3>2 DEF x, y, z
  <2> HIDE DEF S, m, n
  <2> QED BY <1>1, <2>1, <2>2, <2>3
<1>9. SampleAccounts(es) \subseteq [pubkey : Pubkey, data : Seq(Nat)]
  <2> HIDE DEF S, m, n
  <2>1. S(1) \in [pubkey : Pubkey, data : Seq(Nat)] /\ S(m) \in [pubkey : Pubkey, data : Seq(Nat)]
        /\ S(n) \in [pubkey : Pubkey, data : Seq(Nat)]
    BY <1>1, <1>2, <1>6
  <2> QED BY <1>4, <2>1
<1> QED BY <1>4, <1>7, <1>8, <1>9

-----------------------------------------------------------------------------
(* Targets: derived, asked for and answered. *)

\* What candidates are, and what their counts are worth until an account changes.
Derivations ==
    /\ \A t \in candidates : \E key \in Key : t = ByMint(key) \/ t = ByOwner(key)
    /\ moved = {} => \A t \in candidates :
         counts[t] = Cardinality(ProgramAccounts(t)) /\ ProgramAccounts(t) # {}

\* Before the request there is no answer.
Unanswered == wanted = Nothing => ~honest /\ ~valid /\ sample = {}

TargetsInv == TargetsTypeOK /\ Derivations /\ Unanswered /\ ReadAlike

LEMMA UnansweredIsAlike ==
    ASSUME wanted = Nothing, ~honest, ~valid, sample = {}
    PROVE  ReadAlike
  BY DEF ReadAlike, ValidIsSelected, HonestPasses, DerivedFinds, SampleSpans

\* Every target that is asked for has filters, and is not the one of no request.
LEMMA AskedIsProper ==
    ASSUME TargetsInv, NEW t \in Configured \cup candidates \cup {Builtin}
    PROVE  Proper(t) /\ t # Nothing
<1>1. CASE t \in Configured
  <2>1. t.size \in Nat /\ t.memcmp \in Seq(Filter)
    BY <1>1, TargetsAssumption
  <2>2. Proper(t)
    BY <2>1 DEF Proper
  <2>3. t # Nothing
    <3>1. Nothing.memcmp[1].bytes = <<>> /\ DOMAIN Nothing.memcmp = {1}
      BY DEF Nothing, TokenTarget
    <3>2. \A i \in DOMAIN t.memcmp : t.memcmp[i].bytes # <<>>
      <4>1. \A i \in DOMAIN t.memcmp : t.memcmp[i] \in Filter
        BY <2>1
      <4> QED BY <4>1 DEF Filter
    <3> QED BY <3>1, <3>2
  <2> QED BY <2>2, <2>3
<1>2. ASSUME NEW n, NEW offset \in {MintOffset, OwnerOffset}, NEW key \in Key,
             t = TokenTarget(n, offset, key), n # "nothing"
      PROVE  Proper(t) /\ t # Nothing
  <2>1. TokenTarget(n, offset, key).name = n /\ Nothing.name = "nothing"
    BY DEF TokenTarget, Nothing
  <2>2. \E a : a \in AccountType
    <3>1. [program |-> "token", data |-> <<>>] \in AccountType
      BY DEF AccountType
    <3> QED BY <3>1
  <2> QED BY <1>2, <2>1, <2>2, TokenSelects
<1>3. CASE t \in candidates
  <2>1. PICK key \in Key : t = ByMint(key) \/ t = ByOwner(key)
    BY <1>3 DEF TargetsInv, Derivations
  <2> QED BY <1>2, <2>1 DEF ByMint, ByOwner
<1>4. CASE t = Builtin
  <2>1. BuiltinOwner \in Key
    BY TargetsAssumption DEF Key
  <2> QED BY <1>2, <1>4, <2>1 DEF Builtin
<1> QED BY <1>1, <1>3, <1>4

\* The derivation reads keys out of token accounts, each of which its own target
\* finds.
LEMMA DeriveKeeps == ASSUME TargetsInv, Derive PROVE TargetsInv'
<1>1. /\ wanted = Nothing
      /\ candidates' = Candidates(TokenAnchors({chain[p] : p \in Pubkey}))
      /\ counts' = [t \in candidates' |-> Cardinality(ProgramAccounts(t))]
      /\ moved' = {}
      /\ UNCHANGED <<chain, wanted, honest, entries, valid, sample>>
  BY DEF Derive
<1>2. chain \in [Pubkey -> Account] /\ \A p \in Pubkey : chain[p] \in AccountType
  BY TargetsAssumption DEF TargetsInv, TargetsTypeOK
<1>3. ASSUME NEW t \in candidates'
      PROVE  /\ t.name \in Derived
             /\ \E key \in Key : t = ByMint(key) \/ t = ByOwner(key)
             /\ ProgramAccounts(t) # {}
  <2>1. PICK x \in TokenAnchors({chain[p] : p \in Pubkey}) : t = ByMint(x.mint) \/ t = ByOwner(x.owner)
    BY <1>1, <1>3 DEF Candidates
  <2>2. PICK p \in Pubkey :
          /\ chain[p].program = "token" /\ Len(chain[p].data) = TokenLen
          /\ x = [mint |-> KeyAt(chain[p].data, 0), owner |-> KeyAt(chain[p].data, KeyLen)]
    BY <2>1 DEF TokenAnchors
  <2>3. x.mint = KeyAt(chain[p].data, MintOffset) /\ x.owner = KeyAt(chain[p].data, OwnerOffset)
    BY <2>2, TargetsAssumption
  <2>4. /\ chain[p].data \in Seq(Nat)
        /\ MintOffset \in Nat /\ MintOffset + KeyLen <= Len(chain[p].data)
        /\ OwnerOffset \in Nat /\ OwnerOffset + KeyLen <= Len(chain[p].data)
    BY <1>2, <2>2, TargetsAssumption DEF AccountType
  <2>5. x.mint \in Key /\ x.owner \in Key
    BY <2>3, <2>4, KeyInside
  <2>6. p \in ProgramAccounts(t)
    <3>1. CASE t = ByMint(x.mint)
      BY <1>2, <2>2, <2>3, <2>5, <3>1, TokenSelects DEF ByMint, ProgramAccounts
    <3>2. CASE t = ByOwner(x.owner)
      BY <1>2, <2>2, <2>3, <2>5, <3>2, TokenSelects DEF ByOwner, ProgramAccounts
    <3> QED BY <2>1, <3>1, <3>2
  <2>7. t.name \in Derived
    BY <2>1 DEF ByMint, ByOwner, TokenTarget, Derived
  <2> QED BY <2>1, <2>5, <2>6, <2>7
<1>4. \A t : ProgramAccounts(t)' = ProgramAccounts(t)
  BY <1>1 DEF ProgramAccounts
<1>5. Derivations'
  BY <1>1, <1>3, <1>4 DEF Derivations
<1>6. TargetsTypeOK'
  BY <1>1, <1>3 DEF TargetsInv, TargetsTypeOK
<1>7. ~honest /\ ~valid /\ sample = {}
  BY <1>1 DEF TargetsInv, Unanswered
<1>8. Unanswered' /\ ReadAlike'
  <2>1. wanted' = Nothing /\ ~honest' /\ ~valid' /\ sample' = {}
    BY <1>1, <1>7
  <2> QED BY <2>1 DEF Unanswered, ReadAlike, ValidIsSelected, HonestPasses, DerivedFinds, SampleSpans
<1> QED BY <1>5, <1>6, <1>8 DEF TargetsInv

LEMMA ChangeKeeps == ASSUME TargetsInv, NEW p \in Pubkey, Change(p) PROVE TargetsInv'
<1>1. PICK a \in Account : chain' = [chain EXCEPT ![p] = a]
  BY DEF Change
<1>2. /\ wanted = Nothing /\ moved' = moved \cup {p}
      /\ UNCHANGED <<candidates, counts, wanted, honest, entries, valid, sample>>
  BY DEF Change
<1>3. TargetsTypeOK'
  BY <1>1, <1>2 DEF TargetsInv, TargetsTypeOK
<1>4. Derivations'
  <2>1. moved' # {}
    BY <1>2
  <2> QED BY <1>2, <2>1 DEF TargetsInv, Derivations
<1>5. wanted' = Nothing /\ ~honest' /\ ~valid' /\ sample' = {}
  BY <1>2 DEF TargetsInv, Unanswered
<1>6. Unanswered' /\ ReadAlike'
  BY <1>5 DEF Unanswered, ReadAlike, ValidIsSelected, HonestPasses, DerivedFinds, SampleSpans
<1> QED BY <1>3, <1>4, <1>6 DEF TargetsInv

\* What an answer has to be for all to read it alike.
LEMMA AnswerKeeps ==
    ASSUME TargetsInv, NEW t, NEW es \in Seq(Entry), NEW by, Answer(t, es, by),
           Proper(t), t # Nothing, Apart(es),
           by = "node" => \A i \in DOMAIN es : Selects(t, es[i].account),
           by = "node" /\ moved = {} /\ t \in candidates => Len(es) = counts[t] /\ es # <<>>
    PROVE  TargetsInv'
<1>1. /\ wanted' = t /\ entries' = es
      /\ UNCHANGED <<chain, candidates, counts, moved>>
  BY DEF Answer
<1>2. (honest' <=> by = "node") /\ honest' \in BOOLEAN
  BY DEF Answer
<1>3. (valid' <=> EntriesMatch(es, t)) /\ valid' \in BOOLEAN
  BY DEF Answer, EntriesMatch
<1>4. sample' = IF valid' /\ t.name \notin Derived THEN SampleAccounts(es) ELSE {}
  BY DEF Answer
<1>5. \A i \in DOMAIN es : Matches(t, es[i].account) <=> Selects(t, es[i].account)
  <2>1. ASSUME NEW i \in DOMAIN es PROVE es[i].account \in AccountType
    <3>1. es[i] \in Entry
      OBVIOUS
    <3> QED BY <3>1, TargetsAssumption DEF Entry
  <2> QED BY <2>1, MatchesIsSelects
<1>6. valid' <=> es # <<>> /\ \A i \in DOMAIN es : Selects(t, es[i].account)
  BY <1>3, <1>5 DEF EntriesMatch
<1>7. ValidIsSelected'
  <2>1. \A u, a : Selects(u, a)' <=> Selects(u, a)
    BY DEF Selects
  <2> QED BY <1>1, <1>6 DEF ValidIsSelected, Selects
<1>8. HonestPasses'
  BY <1>1, <1>2, <1>6 DEF HonestPasses
<1>9. DerivedFinds'
  BY <1>1, <1>2, <1>6 DEF DerivedFinds
<1>10. valid' => es # <<>>
  BY <1>6
<1>11. SampleSpans'
  <2>1. CASE valid' /\ t.name \notin Derived
    <3>1. sample' = SampleAccounts(es)
      BY <1>4, <2>1
    <3>2. /\ Cardinality(sample') = IF Len(es) < 3 THEN Len(es) ELSE 3
          /\ {Sampled(es[1]), Sampled(es[Len(es)])} \subseteq sample'
          /\ sample' \subseteq {Sampled(es[i]) : i \in DOMAIN es}
      BY <1>10, <2>1, <3>1, SampleOf
    <3> QED BY <1>1, <2>1, <3>2 DEF SampleSpans, Sampled
  <2>2. CASE ~(valid' /\ t.name \notin Derived)
    BY <1>1, <1>4, <2>2 DEF SampleSpans
  <2> QED BY <2>1, <2>2
<1>12. TargetsTypeOK'
  <2>1. sample' \subseteq [pubkey : Pubkey, data : Seq(Nat)]
    BY <1>4, <1>10, SampleOf
  <2> QED BY <1>1, <1>2, <1>3, <2>1 DEF TargetsInv, TargetsTypeOK, Entry
<1>13. Derivations' /\ Unanswered'
  <2>1. \A u : ProgramAccounts(u)' = ProgramAccounts(u)
    BY <1>1 DEF ProgramAccounts
  <2>2. Derivations'
    BY <1>1, <2>1 DEF TargetsInv, Derivations
  <2>3. Unanswered'
    BY <1>1 DEF Unanswered, Nothing, TokenTarget
  <2> QED BY <2>2, <2>3
<1> QED BY <1>7, <1>8, <1>9, <1>11, <1>12, <1>13 DEF TargetsInv, ReadAlike

\* What the filters select is all that is listed, by whichever method.
LEMMA NodeAnswers ==
    ASSUME TargetsInv, NEW t \in Configured \cup candidates \cup {Builtin},
           NEW es \in Listed(ProgramAccounts(t)), Answer(t, es, "node")
    PROVE  TargetsInv'
<1>1. chain \in [Pubkey -> Account]
  BY DEF TargetsInv, TargetsTypeOK
<1>2. ProgramAccounts(t) \in SUBSET Pubkey
  BY DEF ProgramAccounts
<1>3. /\ es \in Seq(Entry) /\ Apart(es) /\ Len(es) = Cardinality(ProgramAccounts(t))
      /\ \A i \in DOMAIN es : \E p \in ProgramAccounts(t) : es[i].account = chain[p]
  BY <1>1, <1>2, ListedIs
<1>4. \A i \in DOMAIN es : Selects(t, es[i].account)
  BY <1>3 DEF ProgramAccounts
<1>5. moved = {} /\ t \in candidates => Len(es) = counts[t] /\ es # <<>>
  <2>1. SUFFICES ASSUME moved = {}, t \in candidates PROVE Len(es) = counts[t] /\ es # <<>>
    OBVIOUS
  <2>2. counts[t] = Cardinality(ProgramAccounts(t)) /\ ProgramAccounts(t) # {}
    BY <2>1 DEF TargetsInv, Derivations
  <2>3. Cardinality(ProgramAccounts(t)) # 0
    BY <1>2, <2>2, TargetsAssumption, FS_Subset, FS_EmptySet
  <2> QED BY <1>3, <2>2, <2>3
<1>6. Proper(t) /\ t # Nothing
  BY AskedIsProper
<1> QED BY <1>3, <1>4, <1>5, <1>6, AnswerKeeps

LEMMA AskOwnerKeeps ==
    ASSUME TargetsInv, NEW t \in candidates \cup {Builtin},
           t.name # "derived_token_by_mint", AskOwner(t)
    PROVE  TargetsInv'
<1>1. PICK es \in Listed(OwnedBy(OwnerAnchor(t))) : Answer(t, es, "node")
  BY DEF AskOwner
<1>2. \E n, key : key \in Key /\ t = TokenTarget(n, OwnerOffset, key)
  <2>1. CASE t = Builtin
    <3>1. BuiltinOwner \in Key
      BY TargetsAssumption DEF Key
    <3> QED BY <2>1, <3>1 DEF Builtin
  <2>2. CASE t \in candidates
    <3>1. PICK key \in Key : t = ByMint(key) \/ t = ByOwner(key)
      BY <2>2 DEF TargetsInv, Derivations
    <3>2. ByMint(key).name = "derived_token_by_mint"
      BY DEF ByMint, TokenTarget
    <3> QED BY <3>1, <3>2 DEF ByOwner
  <2> QED BY <2>1, <2>2
<1>3. PICK n, key : key \in Key /\ t = TokenTarget(n, OwnerOffset, key)
  BY <1>2
<1>4. OwnerAnchor(t) = key
  BY <1>3, AnchorOfOwner
<1>5. OwnedBy(OwnerAnchor(t)) = ProgramAccounts(t)
  BY <1>3, <1>4, OwnedIsSelected DEF TargetsInv, TargetsTypeOK
<1> QED BY <1>1, <1>5, NodeAnswers

LEMMA AnswerWrongKeeps ==
    ASSUME TargetsInv, NEW t \in Configured \cup candidates, AnswerWrong(t)
    PROVE  TargetsInv'
<1>1. PICK a \in Account : Answer(t, <<[pubkey |-> CHOOSE p \in Pubkey : TRUE, account |-> a]>>, "nobody")
  BY DEF AnswerWrong
<1> DEFINE e == [pubkey |-> CHOOSE p \in Pubkey : TRUE, account |-> a]
<1>2. e \in Entry
  <2>1. (CHOOSE p \in Pubkey : TRUE) \in Pubkey
    BY TargetsAssumption
  <2> QED BY <2>1 DEF Entry
<1> HIDE DEF e
<1>3. <<e>> \in Seq(Entry) /\ Apart(<<e>>)
  BY <1>2 DEF Apart
<1>4. Answer(t, <<e>>, "nobody")
  BY <1>1 DEF e
<1>5. Proper(t) /\ t # Nothing
  BY AskedIsProper
<1> QED BY <1>3, <1>4, <1>5, AnswerKeeps

LEMMA TargetsInductive == TargetsInv /\ [TargetsNext]_targetsVars => TargetsInv'
<1> SUFFICES ASSUME TargetsInv, [TargetsNext]_targetsVars PROVE TargetsInv'
  OBVIOUS
<1>1. ASSUME NEW t \in Configured \cup candidates, AskProgram(t)
      PROVE  TargetsInv'
  BY <1>1, NodeAnswers DEF AskProgram
<1>2. CASE UNCHANGED targetsVars
  BY <1>2 DEF targetsVars, TargetsInv, TargetsTypeOK, Derivations, Unanswered, ProgramAccounts,
     ReadAlike, ValidIsSelected, HonestPasses, DerivedFinds, SampleSpans
<1> QED BY <1>1, <1>2, DeriveKeeps, ChangeKeeps, AnswerWrongKeeps, AskOwnerKeeps DEF TargetsNext

LEMMA TargetsStart == TargetsInit => TargetsInv
<1> SUFFICES ASSUME TargetsInit PROVE TargetsInv
  OBVIOUS
<1>1. ReadAlike /\ Unanswered
  BY UnansweredIsAlike DEF TargetsInit, Unanswered
<1>2. TargetsTypeOK
  <2>1. entries \in Seq([pubkey : Pubkey, account : Account])
    BY DEF TargetsInit
  <2> QED BY <2>1 DEF TargetsInit, TargetsTypeOK
<1>3. Derivations
  BY DEF TargetsInit, Derivations
<1> QED BY <1>1, <1>2, <1>3 DEF TargetsInv

LEMMA TargetsAlways == TargetsSpec => []TargetsInv
BY TargetsStart, TargetsInductive, PTL DEF TargetsSpec

\* Every variable has its type; a sample is of addresses with their data.
THEOREM TargetsTypeCorrect == TargetsSpec => []TargetsTypeOK
<1>1. TargetsInv => TargetsTypeOK
  BY DEF TargetsInv
<1> QED BY <1>1, TargetsAlways, PTL

\* Whatever accounts hold and whichever targets are configured or derived: an
\* answer is taken exactly when a node's filters would have given it, a derived
\* target finds what its preflight counted, and a sample spans the answer.
THEOREM AllReadAlike == TargetsSpec => []ReadAlike
<1>1. TargetsInv => ReadAlike
  BY DEF TargetsInv
<1> QED BY <1>1, TargetsAlways, PTL
=============================================================================
