------------------------------- MODULE Probe -------------------------------
(***************************************************************************)
(* What a check task asks, and what its answer leaves behind.              *)
(*                                                                         *)
(* A cycle takes its target from the curated and the derived ones by       *)
(* rotation, takes the rest of its context from pools that the answers of  *)
(* all providers overwrite (CheckTask::run), sends one request, waits for  *)
(* a permit when the body is large (RpcClient::call), classifies the       *)
(* answer against the context of the request, and feeds the pools again    *)
(* (CheckTask::record).  Meanwhile the deriver turns pooled accounts into  *)
(* new targets (gpa_derive), and accounts are closed on the chain.         *)
(*                                                                         *)
(* The freshness gate, the claims' further way and the anchor's soundness  *)
(* are ClaimPipeline's and Archival's business: here an answer may be      *)
(* stale, a claim is only noted with the label of its probe, and there may *)
(* always be an anchor to page before.                                     *)
(***************************************************************************)
EXTENDS Integers, FiniteSets, Sequences, SequencesExt

CONSTANTS
    Task,         \* one per (provider, check)
    Checks,       \* what the tasks may be configured to check, and whether their
                  \* provider answers what it is asked: a set of [Task -> Check]
    Curated,      \* gpa_targets: a sequence of names
    Anchors,      \* mints and owners that targets are derived from
    MinAccounts, MaxAccounts,  \* the bounds of a preflight
    Permits,      \* LARGE_PARSE_GATE
    \* The environment and bounds of the model.
    MaxClosed,    \* accounts an anchor loses at most
    Sizes,        \* [Anchors -> accounts it has at first]
    MaxPool,      \* accounts in the pool
    Turns         \* the rotation is counted modulo Turns

\* getSlot and the like need no context and are left out.
Methods == {"signatures", "transaction", "batch", "block", "gpa", "tokenOwner"}

\* Methods whose question depends on the cycle.
Rotating == {"signatures", "gpa", "tokenOwner"}

DerivedNames == {"derived_token_by_mint", "derived_token_by_owner"}

Check == [method : Methods, honest : BOOLEAN]

ASSUME ProbeAssumption ==
    /\ Checks \subseteq [Task -> Check]
    /\ Curated \in Seq(STRING) /\ ToSet(Curated) \cap DerivedNames = {}
    /\ {MinAccounts, MaxAccounts, MaxClosed, MaxPool} \subseteq Nat
    /\ MaxClosed < MinAccounts
    /\ Permits \in Nat \ {0} /\ Turns \in Nat \ {0}
    /\ Sizes \in [Anchors -> Nat]

Fixed == "fixed"
Target == [name : ToSet(Curated) \cup DerivedNames \cup {"", "archival"},
           anchor : Anchors \cup {Fixed}]

\* A probe without a target.
NoTarget == [name |-> "", anchor |-> Fixed]

\* An anchored getSignaturesForAddress; its label is that of a target.
ArchivalPage == [name |-> "archival", anchor |-> Fixed]

CuratedTargets == [i \in DOMAIN Curated |-> [name |-> Curated[i], anchor |-> Fixed]]

VARIABLES
    check,        \* the checks that are configured
    accounts,     \* SharedState.recent_accounts, of each whether it exists
    recent,       \* SharedState.recent_signature
    derived,      \* DerivedTargets
    size,         \* [Anchors -> accounts that match it]
    pc,           \* [Task -> where its cycle stands]
    rotation,     \* [Task -> cycles so far]
    target,       \* [Task -> the target of its request]
    asked,        \* [Task -> what else its request asks for]
    counted,      \* the call counted last, until the next begins: whose it was, what
                  \* it came to, under which label, what was kept of its answer
    dpc, picked   \* the deriver: where it stands; targets past their preflight, one
                  \* of a name (they come in any order)

shared == <<accounts, recent, derived>>
deriver == <<dpc, picked>>
cycle == <<pc, rotation, target, asked>>
vars == <<check, shared, size, cycle, counted, deriver>>

Method(t) == check[t].method
Honest(t) == check[t].honest

Outcomes == {"none", "success", "empty", "stale", "failed"}

NothingCounted(t) == [task |-> t, outcome |-> "none", label |-> "", kept |-> {}]

Count(t, outcome, kept) ==
    counted' = [task |-> t, outcome |-> outcome, label |-> target[t].name, kept |-> kept]

-----------------------------------------------------------------------------
(* The request. *)

Named(ts) == {tg.name : tg \in ts}
Names(ts) == {ts[i].name : i \in DOMAIN ts}

\* Slip: the index runs over the curated targets only.
RotateCurated(r) == CuratedTargets[(r % Len(CuratedTargets)) + 1]

RotateAll(r) ==
    LET all == CuratedTargets \o derived IN all[(r % Len(all)) + 1]

\* rotated_target; and whether this is the turn of an anchored page, which needs
\* an anchor other than the one paged before last.
RotatedTargets(m, r) ==
    CASE m = "gpa" -> {RotateAll(r)}
      [] m = "tokenOwner" ->
           IF r % 2 = 1 /\ "derived_token_by_owner" \in Names(derived)
           THEN {derived[i] : i \in {j \in DOMAIN derived :
                                       derived[j].name = "derived_token_by_owner"}}
           ELSE {NoTarget}
      [] m = "signatures" /\ r % 2 = 1 -> {ArchivalPage, NoTarget}
      [] OTHER -> {NoTarget}

\* Slip: all of the batch is drawn from the pool.
BatchFromPool ==
    IF Len(accounts) >= 3
    THEN {{accounts[((i + k) % Len(accounts)) + 1] : k \in 0 .. 2} :
              i \in 0 .. Len(accounts) - 1}
    ELSE {{"permanent"}}

\* pick_batch: a permanent account and three in a row of the pool, from where
\* the tip points, or permanent ones only.
Batches ==
    IF Len(accounts) >= 3
    THEN {{"permanent"} \cup {accounts[((i + k) % Len(accounts)) + 1] : k \in 0 .. 2} :
              i \in 0 .. Len(accounts) - 1}
    ELSE {{"permanent"}}

\* build_params: what is asked for besides the target.  Empty: no request.
Asks(m) ==
    CASE m = "batch" -> Batches
      [] m = "transaction" -> IF recent = "none" THEN {} ELSE {{recent}}
      [] m = "gpa" -> IF CuratedTargets \o derived = <<>> THEN {} ELSE {{}}
      [] OTHER -> {{}}

\* A cycle without parameters ends at once, but it counts.
Call(t) ==
    /\ pc[t] = "idle"
    /\ rotation' = IF Method(t) \in Rotating
                   THEN [rotation EXCEPT ![t] = (@ + 1) % Turns] ELSE rotation
    /\ IF Asks(Method(t)) = {} THEN UNCHANGED <<pc, target, asked>>
       ELSE /\ pc' = [pc EXCEPT ![t] = "sent"]
            /\ \E tg \in RotatedTargets(Method(t), rotation[t]) :
                 target' = [target EXCEPT ![t] = tg]
            /\ \E a \in Asks(Method(t)) : asked' = [asked EXCEPT ![t] = a]
    /\ counted' = NothingCounted(t)
    /\ UNCHANGED <<check, shared, size, deriver>>

-----------------------------------------------------------------------------
(* The answer. *)

\* The call is over; its context goes.
Over(t) ==
    /\ pc' = [pc EXCEPT ![t] = "idle"]
    /\ target' = [target EXCEPT ![t] = NoTarget]
    /\ asked' = [asked EXCEPT ![t] = {}]
    /\ UNCHANGED rotation

\* is_valid_result of an honest answer: there is something to answer with.  A
\* signature seen on one provider may not have reached another.
HonestValid(t) ==
    CASE Method(t) = "batch" -> {asked[t] # {"gone"}}
      [] Method(t) = "transaction" ->
           IF asked[t] = {"seen"} THEN BOOLEAN ELSE {FALSE}
      [] Method(t) \in {"gpa", "tokenOwner"} ->
           {target[t].anchor # Fixed => size[target[t].anchor] > 0}
      [] OTHER -> {TRUE}

IsValid(t) == IF Honest(t) THEN HonestValid(t) ELSE BOOLEAN

\* Slip: claims are drawn from derived targets as well.
ClaimsOfAll(tg) == TRUE

\* claim_payload: none for a derived target.
ClaimsOf(tg) == tg.name \notin DerivedNames

\* What classify keeps of a success; nothing of an anchored page.
Keeps(m, tg) ==
    IF m = "signatures" /\ tg = ArchivalPage THEN {}
    ELSE (IF m \in {"signatures", "gpa", "tokenOwner", "batch"} THEN {"slot"} ELSE {}) \cup
         (IF m = "signatures" THEN {"signature"} ELSE {}) \cup
         (IF m = "block" THEN {"accounts"} ELSE {}) \cup
         (IF m \in {"signatures", "transaction", "block"} \/
             (m \in {"gpa", "tokenOwner"} /\ ClaimsOf(tg)) THEN {"claim"} ELSE {})

\* A block names no account or fills the pool; those of an honest one existed,
\* any other list may be invented.
Pools(t) ==
    UNION {[1 .. n -> IF Honest(t) THEN {"open"} ELSE {"open", "gone"}] :
              n \in {0, MaxPool}}

\* record: only a success that is not stale leaves anything behind.
Record(t) ==
    \/ /\ TRUE \in IsValid(t)
       /\ LET kept == Keeps(Method(t), target[t]) IN
            /\ Count(t, "success", kept)
            /\ IF "accounts" \in kept
               THEN \E p \in Pools(t) : accounts' = IF p = <<>> THEN accounts ELSE p
               ELSE UNCHANGED accounts
            /\ IF "signature" \in kept
               THEN recent' \in (IF Honest(t) THEN {"seen"} ELSE {"seen", "invented"})
               ELSE UNCHANGED recent
    \/ /\ FALSE \in IsValid(t)
       /\ Count(t, "empty", {})
       /\ UNCHANGED <<accounts, recent>>
    \/ /\ TRUE \in IsValid(t)
       /\ "slot" \in Keeps(Method(t), target[t])
       /\ Count(t, "stale", {})
       /\ UNCHANGED <<accounts, recent>>

\* A small body is classified on the spot.
AnswerSmall(t) ==
    /\ pc[t] = "sent"
    /\ Record(t)
    /\ Over(t)
    /\ UNCHANGED <<check, derived, size, deriver>>

\* A large one is parsed elsewhere, by no more than Permits at a time; the
\* request's timeout no longer applies.
AnswerLarge(t) ==
    /\ pc[t] = "sent"
    /\ pc' = [pc EXCEPT ![t] = "gate"]
    /\ UNCHANGED <<check, shared, size, rotation, target, asked, counted, deriver>>

Acquire(t) ==
    /\ pc[t] = "gate"
    /\ Cardinality({u \in Task : pc[u] = "parse"}) < Permits
    /\ pc' = [pc EXCEPT ![t] = "parse"]
    /\ UNCHANGED <<check, shared, size, rotation, target, asked, counted, deriver>>

Parsed(t) ==
    /\ pc[t] = "parse"
    /\ Record(t)
    /\ Over(t)
    /\ UNCHANGED <<check, derived, size, deriver>>

\* Slip: a parser that panics keeps its permit.
KeepsPermit(t) ==
    /\ pc[t] \in {"sent", "parse"}
    /\ Count(t, "failed", {})
    /\ IF pc[t] = "sent" THEN Over(t) ELSE UNCHANGED cycle
    /\ UNCHANGED <<check, shared, size, deriver>>

\* Any failure: timeout, transport, HTTP status, JSON-RPC error (a skipped slot,
\* which counts neither way, among them), or a parser that panicked.
Fails(t) ==
    /\ pc[t] \in {"sent", "parse"}
    /\ Count(t, "failed", {})
    /\ Over(t)
    /\ UNCHANGED <<check, shared, size, deriver>>

-----------------------------------------------------------------------------
(* The deriver. *)

\* It takes the pool as it is now; an empty one ends the round.
DeriveStart ==
    /\ dpc = "sleep"
    /\ accounts # <<>>
    /\ dpc' = "derive"
    /\ UNCHANGED <<check, shared, size, cycle, counted, picked>>

CountInBounds(a) == size[a] \in MinAccounts .. MaxAccounts

\* One preflight; a candidate whose name is already picked is passed over.
Preflight ==
    /\ dpc = "derive"
    /\ \E n \in DerivedNames, a \in Anchors :
         /\ n \notin Named(picked)
         /\ CountInBounds(a)
         /\ picked' = picked \cup {[name |-> n, anchor |-> a]}
    /\ UNCHANGED <<check, shared, size, cycle, counted, dpc>>

\* Slip: fresh targets are appended although their names are there already.
AppendFresh(old, fresh) == {old \o new : new \in SetToSeqs(fresh)}

\* DerivedTargets::update: a fresh target replaces the one of its name, or is new.
Merge(old, fresh) ==
    LET current(tg) == IF tg.name \in Named(fresh)
                       THEN CHOOSE f \in fresh : f.name = tg.name ELSE tg IN
    {[i \in DOMAIN old |-> current(old[i])] \o new :
        new \in SetToSeqs({f \in fresh : f.name \notin Names(old)})}

\* The candidates are through, or the endpoint failed: what was picked counts.
DeriveEnd ==
    /\ dpc = "derive"
    /\ derived' \in Merge(derived, picked)
    /\ picked' = {}
    /\ dpc' = "sleep"
    /\ UNCHANGED <<check, accounts, recent, size, cycle, counted>>

\* An account of an anchor is closed.
AccountCloses ==
    /\ \E a \in Anchors :
         /\ size[a] > Sizes[a] - MaxClosed /\ size[a] > 0
         /\ size' = [size EXCEPT ![a] = @ - 1]
    /\ UNCHANGED <<check, shared, cycle, counted, deriver>>

-----------------------------------------------------------------------------
Init ==
    /\ check \in Checks
    /\ accounts = <<>> /\ recent = "none" /\ derived = <<>>
    /\ size = Sizes
    /\ pc = [t \in Task |-> "idle"]
    /\ rotation = [t \in Task |-> 0]
    /\ target = [t \in Task |-> NoTarget]
    /\ asked = [t \in Task |-> {}]
    /\ \E t \in Task : counted = NothingCounted(t)
    /\ dpc = "sleep" /\ picked = {}

TaskStep(t) ==
    \/ Call(t) \/ AnswerSmall(t) \/ AnswerLarge(t) \/ Acquire(t) \/ Parsed(t) \/ Fails(t)

Next ==
    \/ \E t \in Task : TaskStep(t)
    \/ DeriveStart \/ Preflight \/ DeriveEnd \/ AccountCloses

Spec == Init /\ [][Next]_vars

\* A task sleeps for a while only; a request that is not answered times out, and
\* a parser ends; the semaphore serves its waiters in order, so none that waits
\* is passed over for ever.
Fairness ==
    \A t \in Task :
        /\ WF_vars(Call(t))
        /\ WF_vars(Fails(t))
        /\ SF_vars(Acquire(t))

FairSpec == Spec /\ Fairness

-----------------------------------------------------------------------------
(* Properties. *)

\* Every variable has its type, and no two derived targets share a name, nor do two
\* that have been picked.
TypeOK ==
    /\ check \in Checks
    /\ accounts \in Seq({"open", "gone"}) /\ Len(accounts) <= MaxPool
    /\ recent \in {"none", "seen", "invented"}
    /\ derived \in Seq(Target) /\ Names(derived) \subseteq DerivedNames
    /\ \A i, j \in DOMAIN derived : derived[i].name = derived[j].name => i = j
    /\ size \in [Anchors -> Nat]
    /\ pc \in [Task -> {"idle", "sent", "gate", "parse"}]
    /\ rotation \in [Task -> 0 .. Turns - 1]
    /\ target \in [Task -> Target]
    /\ asked \in [Task -> SUBSET {"permanent", "open", "gone", "seen", "invented"}]
    /\ counted \in [task : Task, outcome : Outcomes, label : {tg.name : tg \in Target},
                   kept : SUBSET {"slot", "signature", "accounts", "claim"}]
    /\ dpc \in {"sleep", "derive"}
    /\ picked \subseteq Target /\ Named(picked) \subseteq DerivedNames
    /\ \A f, g \in picked : f.name = g.name => f = g

\* The questions are made from what other providers answered, targets change
\* while they are asked, and accounts close: an honest answer to any question
\* but that for a transaction is never scored empty.
HonestNeverEmpty ==
    Honest(counted.task) /\ counted.outcome = "empty" =>
        Method(counted.task) = "transaction"

\* Nothing of an anchored page reaches a pool, the tip or the claims, and no
\* claim is drawn from a derived target.
NothingLeaks ==
    /\ Method(counted.task) = "signatures" /\ counted.label = "archival" => counted.kept = {}
    /\ "claim" \in counted.kept => counted.label \notin DerivedNames

\* While targets are added, the rotation leaves none of them out: every curated
\* target is asked for again and again, and so is a derived one once it is there.
TargetsTakeTurns ==
    \A t \in {u \in Task : \E c \in Checks : c[u].method = "gpa"} :
        \A n \in ToSet(Curated) \cup DerivedNames :
            Method(t) = "gpa" /\ n \in ToSet(Curated) \cup Names(derived)
                ~> target[t].name = n

\* Nobody waits for a permit for ever: every call is recorded.
CallsEnd == \A t \in Task : pc[t] # "idle" ~> pc[t] = "idle"
=============================================================================
