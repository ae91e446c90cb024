--------------------------- MODULE Startup_proofs ---------------------------
(***************************************************************************)
(* Theorems about Startup, for every set of configurations.                *)
(*                                                                         *)
(* The argument: a task is there only if the configuration asks for it,    *)
(* and whatever a task has found, some task was there that finds it.  So   *)
(* by the time a request can go out, everything that it needs, and         *)
(* whatever that needed in turn, has its reason in the configuration.      *)
(***************************************************************************)
EXTENDS Startup, TLAPS

\* The endpoints that resolve leaves, by the configuration alone.
Eps(c) == {p.name : p \in Measured(c)}

\* Tasks that need no provider, by the configuration alone.
OwnTasks(c) ==
    (IF c.source = "endpoint" THEN {Own("poll")} ELSE {})
    \cup (IF Verifies(c) THEN {Own("verify"), Own("reference")} ELSE {})
    \cup (IF c.derive # "off" THEN {Own("derive")} ELSE {})
    \cup (IF Cardinality(Eps(c)) >= 2 THEN {Own("archival")} ELSE {})

\* The check tasks, by the configuration alone.
CheckTasks(c) ==
    {Of(p, m) : p \in Eps(c), m \in c.checks \ {"blockArchival", "transactionArchival"}}

Derives(c) == Eps(c) # {} /\ c.derive # "off" /\ "block" \in Fed(c)

\* Every task, everything found and the latest request has its reason in the
\* configuration.
HasReason ==
    /\ phase \notin {"load", "resolve", "stopped"} => endpoints = Eps(config)
    /\ endpoints \in {{}, Eps(config)}
    /\ tasks \subseteq OwnTasks(config) \cup CheckTasks(config)
    /\ tip => HasTip(config)
    /\ signature => "signatures" \in config.checks
    /\ accounts => Eps(config) # {} /\ "block" \in Fed(config)
    /\ derived => Derives(config)
    /\ anchor # {} => Cardinality(Eps(config)) >= 2 /\ HasTip(config)
    /\ claimed # {} => Verifies(config) /\ Fed(config) \cap Claiming # {}
    /\ OnlyPromised

StartInv == TypeOK /\ HasReason

-----------------------------------------------------------------------------
(* Facts about configurations. *)

\* What a configuration that is asked for consists of.
LEMMA ConfigTypes ==
    ASSUME NEW c \in Configs
    PROVE  /\ c.checks \subseteq Methods
           /\ Eps(c) \subseteq Name
           /\ Eps(c) # {} <=> Measured(c) # {}
<1>1. c \in Config
  BY StartupAssumption
<1>2. c.checks \subseteq Methods /\ c.providers \in Seq(Provider)
  BY <1>1 DEF Config
<1>3. ASSUME NEW i \in DOMAIN c.providers PROVE c.providers[i].name \in Name
  <2>1. c.providers[i] \in Provider
    BY <1>2
  <2> QED BY <2>1 DEF Provider
<1>4. Eps(c) \subseteq Name
  BY <1>3 DEF Eps, Measured
<1>5. Eps(c) # {} <=> Measured(c) # {}
  BY DEF Eps
<1> QED BY <1>2, <1>4, <1>5

\* What a task of its own does is no method; so who does a method is a check task.
LEMMA WhoAsks ==
    ASSUME StartInv, NEW t \in tasks, t.does \in Methods
    PROVE  /\ t.of \in Eps(config) /\ t.does \in config.checks
           /\ t.does \notin {"blockArchival", "transactionArchival"}
           /\ t = Of(t.of, t.does)
<1>1. t \in OwnTasks(config) \cup CheckTasks(config)
  BY DEF StartInv, HasReason
<1>2. CASE t \in OwnTasks(config)
  <2>1. t.does \in {"poll", "verify", "reference", "derive", "archival"}
    BY <1>2 DEF OwnTasks, Own, Of
  <2> QED BY <2>1 DEF Methods
<1>3. CASE t \in CheckTasks(config)
  BY <1>3 DEF CheckTasks, Of
<1> QED BY <1>1, <1>2, <1>3

\* A task of its own is there only for what it does.
LEMMA WhoIsThere ==
    ASSUME StartInv
    PROVE  /\ Own("poll") \in tasks => config.source = "endpoint"
           /\ Own("verify") \in tasks => Verifies(config)
           /\ Own("reference") \in tasks => Verifies(config)
           /\ Own("derive") \in tasks => config.derive # "off"
           /\ Own("archival") \in tasks => Cardinality(Eps(config)) >= 2
           /\ tasks # {} => endpoints = Eps(config)
<1>1. tasks \subseteq OwnTasks(config) \cup CheckTasks(config)
  BY DEF StartInv, HasReason
<1>2. \A x \in {"poll", "verify", "reference", "derive", "archival"} :
         Own(x) \notin CheckTasks(config)
  <2>1. config.checks \subseteq Methods
    BY ConfigTypes DEF StartInv, TypeOK
  <2>2. ASSUME NEW p \in Eps(config), NEW m \in config.checks,
               NEW x \in {"poll", "verify", "reference", "derive", "archival"}
        PROVE  Own(x) # Of(p, m)
    <3>1. Own(x).does = x /\ Of(p, m).does = m
      BY DEF Own, Of
    <3>2. m \in Methods
      BY <2>1
    <3> QED BY <3>1, <3>2 DEF Methods
  <2> QED BY <2>2 DEF CheckTasks
<1>3. \A x \in {"poll", "verify", "reference", "derive", "archival"} :
         Own(x) \in tasks => Own(x) \in OwnTasks(config)
  BY <1>1, <1>2
<1>4. tasks # {} => endpoints = Eps(config)
  BY DEF StartInv, TypeOK, HasReason
<1> QED BY <1>3, <1>4 DEF OwnTasks, Own, Of

\* What is promised, one kind of request at a time.
LEMMA PromisedKinds ==
    ASSUME NEW c
    PROVE  /\ \A p \in Eps(c), m \in Fed(c) : Of(p, m) \in Promised(c)
           /\ \A p \in Eps(c) : Derives(c) /\ Fed(c) \cap {"gpa", "tokenOwner"} # {}
                                => Of(p, "derived") \in Promised(c)
           /\ \A p \in Eps(c) : Cardinality(Eps(c)) >= 2 /\ HasTip(c) /\ "signatures" \in Fed(c)
                                => Of(p, "anchored") \in Promised(c)
           /\ \A p \in Eps(c) : Verifies(c) /\ Fed(c) \cap Claiming # {}
                                => Of(p, "verify") \in Promised(c)
           /\ \A p \in Judged(c, Eps(c)) : Verifies(c) => Of(p, "reference") \in Promised(c)
           /\ c.source = "endpoint" => Own("poll") \in Promised(c)
           /\ Derives(c) => Own("derive") \in Promised(c)
           /\ Cardinality(Eps(c)) >= 2 /\ HasTip(c) => Own("archival") \in Promised(c)
<1>1. \A p \in Eps(c), m \in Fed(c) : Of(p, m) \in Promised(c)
  BY DEF Promised, Eps
<1>2. \A p \in Eps(c) : Derives(c) /\ Fed(c) \cap {"gpa", "tokenOwner"} # {}
                         => Of(p, "derived") \in Promised(c)
  BY DEF Promised, Eps, Derives
<1>3. \A p \in Eps(c) : Cardinality(Eps(c)) >= 2 /\ HasTip(c) /\ "signatures" \in Fed(c)
                         => Of(p, "anchored") \in Promised(c)
  <2>1. SUFFICES ASSUME NEW p \in Eps(c), Cardinality(Eps(c)) >= 2 /\ HasTip(c),
                        "signatures" \in Fed(c)
                 PROVE  Of(p, "anchored") \in Promised(c)
    OBVIOUS
  <2> DEFINE round == Cardinality({q.name : q \in Measured(c)}) >= 2 /\ HasTip(c)
             anchored == {Of(q, "anchored") :
                            q \in {e \in {x.name : x \in Measured(c)} : round /\ "signatures" \in Fed(c)}}
  <2>2. round
    BY <2>1 DEF Eps
  <2>3. anchored \subseteq Promised(c)
    BY DEF Promised
  <2> HIDE DEF round
  <2>4. Of(p, "anchored") \in anchored
    BY <2>1, <2>2 DEF Eps
  <2> QED BY <2>3, <2>4
<1>4. \A p \in Eps(c) : Verifies(c) /\ Fed(c) \cap Claiming # {}
                         => Of(p, "verify") \in Promised(c)
  BY DEF Promised, Eps
<1>5. \A p \in Judged(c, Eps(c)) : Verifies(c) => Of(p, "reference") \in Promised(c)
  BY DEF Promised, Eps, Judged
<1>6. c.source = "endpoint" => Own("poll") \in Promised(c)
  BY DEF Promised
<1>7. Derives(c) => Own("derive") \in Promised(c)
  BY DEF Promised, Eps, Derives
<1>8. Cardinality(Eps(c)) >= 2 /\ HasTip(c) => Own("archival") \in Promised(c)
  BY DEF Promised, Eps
<1> QED BY <1>1, <1>2, <1>3, <1>4, <1>5, <1>6, <1>7, <1>8

\* The tasks a configuration can ask for are errands.
LEMMA TasksAreErrands ==
    ASSUME NEW c \in Configs
    PROVE  OwnTasks(c) \cup CheckTasks(c) \subseteq Errand
<1>1. c.checks \subseteq Methods /\ Eps(c) \subseteq Name
  BY ConfigTypes
<1>2. OwnTasks(c) \subseteq {Own(x) : x \in {"poll", "verify", "reference", "derive", "archival"}}
  BY DEF OwnTasks
<1>3. {Own(x) : x \in {"poll", "verify", "reference", "derive", "archival"}} \subseteq Errand
  BY DEF Own, Of, Errand
<1>4. CheckTasks(c) \subseteq Errand
  BY <1>1 DEF CheckTasks, Of, Errand
<1> QED BY <1>2, <1>3, <1>4

-----------------------------------------------------------------------------
(* main preserves the invariant. *)

Phases == {"load", "resolve", "poller", "claims", "checks", "reference", "archival",
           "bind", "serving", "stopped"}

\* What a step of main has to leave in order.
LEMMA MainFrame ==
    ASSUME StartInv, UNCHANGED <<config, pools, last>>,
           phase' \in Phases,
           endpoints' \in {endpoints, Eps(config)},
           tasks' \subseteq OwnTasks(config) \cup CheckTasks(config),
           phase' \in {"load", "resolve", "stopped"} => tasks' = {},
           phase' \notin {"load", "resolve", "stopped"} => endpoints' = Eps(config)
    PROVE  StartInv'
<1>1. config \in Configs /\ config' = config
  BY DEF StartInv, TypeOK
<1>2. tasks' \subseteq Errand
  BY <1>1, TasksAreErrands
<1>3. endpoints \in {{}, Eps(config)} /\ Eps(config) \subseteq Name
  BY <1>1, ConfigTypes DEF StartInv, HasReason
<1>4. endpoints' \subseteq Name /\ endpoints \subseteq endpoints'
  BY <1>3
<1>5. /\ tip' = tip /\ signature' = signature /\ accounts' = accounts
      /\ derived' = derived /\ anchor' = anchor /\ claimed' = claimed /\ last' = last
  BY DEF pools, found
<1>6. TypeOK'
  BY <1>1, <1>2, <1>4, <1>5 DEF StartInv, TypeOK, Phases
<1>7. HasReason'
  <2>1. endpoints' \in {{}, Eps(config)}
    BY <1>3
  <2> QED BY <1>1, <1>5, <2>1 DEF StartInv, HasReason, OnlyPromised
<1> QED BY <1>6, <1>7 DEF StartInv

\* Each step of main.
LEMMA MainStep == ASSUME StartInv, Main \/ Shutdown PROVE StartInv'
<1> USE DEF Phases
<1>1. /\ config \in Configs
      /\ phase \in {"load", "resolve", "stopped"} => tasks = {}
      /\ phase \notin {"load", "resolve", "stopped"} => endpoints = Eps(config)
      /\ tasks \subseteq OwnTasks(config) \cup CheckTasks(config)
  BY DEF StartInv, TypeOK, HasReason
<1>2. CASE Load
  BY <1>1, <1>2, MainFrame DEF Load, Enter, Stop
<1>3. CASE Resolve
  <2>1. Eps(config) = {p.name : p \in Measured(config)}
    BY DEF Eps
  <2> QED BY <1>1, <1>3, <2>1, MainFrame DEF Resolve, Enter, Stop
<1>4. CASE SpawnPoller
  <2>1. tasks' \subseteq OwnTasks(config) \cup CheckTasks(config)
    BY <1>1, <1>4 DEF SpawnPoller, Spawn, OwnTasks
  <2> QED BY <1>1, <1>4, <2>1, MainFrame DEF SpawnPoller, Spawn, Enter
<1>5. CASE SpawnClaims
  <2>1. tasks' \subseteq OwnTasks(config) \cup CheckTasks(config)
    BY <1>1, <1>5 DEF SpawnClaims, Spawn, OwnTasks
  <2> QED BY <1>1, <1>5, <2>1, MainFrame DEF SpawnClaims, Spawn, Enter
<1>6. CASE SpawnChecks
  <2>1. tasks' \subseteq OwnTasks(config) \cup CheckTasks(config)
    BY <1>1, <1>6 DEF SpawnChecks, Spawn, OwnTasks, CheckTasks
  <2> QED BY <1>1, <1>6, <2>1, MainFrame DEF SpawnChecks, Spawn, Enter
<1>7. CASE SpawnReference
  <2>1. tasks' \subseteq OwnTasks(config) \cup CheckTasks(config)
    BY <1>1, <1>7 DEF SpawnReference, Spawn, OwnTasks
  <2> QED BY <1>1, <1>7, <2>1, MainFrame DEF SpawnReference, Spawn, Enter
<1>8. CASE SpawnArchival
  <2>1. tasks' \subseteq OwnTasks(config) \cup CheckTasks(config)
    BY <1>1, <1>8 DEF SpawnArchival, Spawn, OwnTasks
  <2> QED BY <1>1, <1>8, <2>1, MainFrame DEF SpawnArchival, Spawn, Enter
<1>9. CASE Serve
  BY <1>1, <1>9, MainFrame DEF Serve, Enter, Stop
<1>10. CASE Shutdown
  BY <1>1, <1>10, MainFrame DEF Shutdown, Enter, Stop
<1> QED BY <1>2, <1>3, <1>4, <1>5, <1>6, <1>7, <1>8, <1>9, <1>10 DEF Main

-----------------------------------------------------------------------------
(* The tasks preserve the invariant. *)

\* What a step of a task has to leave in order.
LEMMA TaskFrame ==
    ASSUME StartInv, UNCHANGED main,
           {tip', signature', accounts', derived'} \subseteq BOOLEAN,
           anchor' \cup claimed' \subseteq endpoints,
           last' \in Errand, last' \in Promised(config),
           tip' => HasTip(config),
           signature' => "signatures" \in config.checks,
           accounts' => Eps(config) # {} /\ "block" \in Fed(config),
           derived' => Derives(config),
           anchor' # {} => Cardinality(Eps(config)) >= 2 /\ HasTip(config),
           claimed' # {} => Verifies(config) /\ Fed(config) \cap Claiming # {}
    PROVE  StartInv'
<1>1. config' = config /\ phase' = phase /\ endpoints' = endpoints /\ tasks' = tasks
  BY DEF main
<1>2. TypeOK'
  BY <1>1 DEF StartInv, TypeOK
<1>3. HasReason'
  BY <1>1 DEF StartInv, HasReason, OnlyPromised
<1> QED BY <1>2, <1>3 DEF StartInv

\* The parts of the invariant that the steps of tasks build on.
LEMMA Reasons ==
    ASSUME StartInv
    PROVE  /\ config \in Configs
           /\ {tip, signature, accounts, derived} \subseteq BOOLEAN
           /\ anchor \cup claimed \subseteq endpoints
           /\ endpoints \subseteq Eps(config) /\ endpoints \subseteq Name
           /\ tip => HasTip(config)
           /\ signature => "signatures" \in config.checks
           /\ accounts => Eps(config) # {} /\ "block" \in Fed(config)
           /\ derived => Derives(config)
           /\ anchor # {} => Cardinality(Eps(config)) >= 2 /\ HasTip(config)
           /\ claimed # {} => Verifies(config) /\ Fed(config) \cap Claiming # {}
  BY DEF StartInv, TypeOK, HasReason

\* A check task that is ready is fed by the configuration.
LEMMA ReadyIsFed ==
    ASSUME StartInv, NEW t \in tasks, t.does \in Methods, Ready(t.does)
    PROVE  /\ t.of \in Eps(config) /\ t.does \in Fed(config)
           /\ t \in Errand /\ t \in Promised(config)
           /\ t.of \in endpoints
<1>1. /\ t.of \in Eps(config) /\ t.does \in config.checks
      /\ t.does \notin {"blockArchival", "transactionArchival"}
      /\ t = Of(t.of, t.does)
  BY WhoAsks
<1>2. t.does \in Fed(config)
  BY <1>1, Reasons DEF Ready, Fed
<1>3. t \in Promised(config)
  <2>1. Of(t.of, t.does) \in Promised(config)
    BY <1>1, <1>2, PromisedKinds
  <2> QED BY <1>1, <2>1
<1>4. t \in Errand /\ t.of \in endpoints
  BY <1>1, WhoIsThere DEF StartInv, TypeOK
<1> QED BY <1>1, <1>2, <1>3, <1>4

\* What its answer feeds has a reason of its own.
LEMMA AskStep == ASSUME StartInv, NEW t \in tasks, Ask(t) PROVE StartInv'
<1>1. t.does \in Methods /\ Ready(t.does) /\ last' = t /\ Feed(t) /\ UNCHANGED main
  BY DEF Ask
<1>2. /\ t.of \in Eps(config) /\ t.does \in Fed(config)
      /\ t \in Errand /\ t \in Promised(config) /\ t.of \in endpoints
  BY <1>1, ReadyIsFed
<1>3. t.does \in config.checks
  BY <1>2 DEF Fed
<1>4. Measured(config) # {} /\ config \in Configs
  BY <1>2, ConfigTypes, Reasons
<1>5. tip' => HasTip(config)
  BY <1>1, <1>3, <1>4, Reasons, Zenon DEF Feed, HasTip
<1>6. signature' => "signatures" \in config.checks
  BY <1>1, <1>3, Reasons, Zenon DEF Feed
<1>7. accounts' => Eps(config) # {} /\ "block" \in Fed(config)
  BY <1>1, <1>2, Reasons, Zenon DEF Feed
<1>8. derived' = derived /\ anchor' = anchor
  BY <1>1 DEF Feed
<1>9. claimed' # {} => Verifies(config) /\ Fed(config) \cap Claiming # {}
  <2>1. CASE Own("verify") \in tasks /\ t.does \in Claiming
    BY <1>2, <2>1, WhoIsThere
  <2>2. CASE ~(Own("verify") \in tasks /\ t.does \in Claiming)
    <3>1. claimed' = claimed
      BY <1>1, <2>2 DEF Feed
    <3> QED BY <3>1, Reasons
  <2> QED BY <2>1, <2>2
<1>10. claimed' \subseteq claimed \cup {t.of}
  BY <1>1 DEF Feed
<1>11. {tip', signature', accounts'} \subseteq BOOLEAN
  BY <1>1 DEF Feed
<1> QED
  BY <1>1, <1>2, <1>5, <1>6, <1>7, <1>8, <1>9, <1>10, <1>11, Reasons, TaskFrame

\* A request that is not answered well feeds nobody.
LEMMA AskInVainStep == ASSUME StartInv, NEW t \in tasks, AskInVain(t) PROVE StartInv'
<1>1. /\ t.does \in Methods /\ Ready(t.does) /\ last' = t
      /\ UNCHANGED main /\ UNCHANGED <<found, anchor, claimed>>
  BY DEF AskInVain, pools
<1>2. t \in Errand /\ t \in Promised(config)
  BY <1>1, ReadyIsFed
<1> QED BY <1>1, <1>2, Reasons, TaskFrame DEF found

\* A derived target is asked for where something was derived.
LEMMA AskDerivedStep == ASSUME StartInv, NEW t \in tasks, AskDerived(t) PROVE StartInv'
<1>1. /\ t.does \in {"gpa", "tokenOwner"} /\ derived /\ last' = Of(t.of, "derived")
      /\ tip' \in {tip, TRUE}
      /\ UNCHANGED main /\ UNCHANGED <<signature, accounts, derived, anchor, claimed>>
  BY DEF AskDerived
<1>2. Ready(t.does) /\ t.does \in Methods
  BY <1>1 DEF Ready, Methods
<1>3. t.of \in Eps(config) /\ t.does \in Fed(config) /\ t.of \in endpoints
  BY <1>2, ReadyIsFed
<1>4. Of(t.of, "derived") \in Promised(config)
  <2>1. Derives(config)
    BY <1>1, Reasons
  <2>2. Fed(config) \cap {"gpa", "tokenOwner"} # {}
    BY <1>1, <1>3
  <2> QED BY <1>3, <2>1, <2>2, PromisedKinds
<1>5. Of(t.of, "derived") \in Errand
  <2>1. t.of \in Name
    BY <1>3, Reasons
  <2> QED BY <2>1 DEF Of, Errand
<1>6. HasTip(config)
  <2>1. t.does \in config.checks /\ t.does \in Observing
    BY <1>1, <1>3 DEF Fed, Observing
  <2>2. Measured(config) # {}
    BY <1>3, ConfigTypes, Reasons
  <2> QED BY <2>1, <2>2 DEF HasTip
<1>7. tip' \in BOOLEAN
  BY <1>1, Reasons
<1> QED BY <1>1, <1>4, <1>5, <1>6, <1>7, Reasons, TaskFrame

\* A page is anchored where a round has found an anchor.
LEMMA AskAnchoredStep == ASSUME StartInv, NEW t \in tasks, AskAnchored(t) PROVE StartInv'
<1>1. /\ t.does = "signatures" /\ t.of \in anchor /\ last' = Of(t.of, "anchored")
      /\ anchor' = anchor \ {t.of}
      /\ UNCHANGED main /\ UNCHANGED <<found, claimed>>
  BY DEF AskAnchored
<1>2. Ready(t.does) /\ t.does \in Methods
  BY <1>1 DEF Ready, Methods
<1>3. t.of \in Eps(config) /\ t.does \in Fed(config) /\ t.of \in endpoints
  BY <1>2, ReadyIsFed
<1>4. Of(t.of, "anchored") \in Promised(config)
  <2>1. Cardinality(Eps(config)) >= 2 /\ HasTip(config)
    BY <1>1, Reasons
  <2> QED BY <1>1, <1>3, <2>1, PromisedKinds
<1>5. Of(t.of, "anchored") \in Errand
  <2>1. t.of \in Name
    BY <1>3, Reasons
  <2> QED BY <2>1 DEF Of, Errand
<1> QED BY <1>1, <1>4, <1>5, Reasons, TaskFrame DEF found

\* The poller finds a tip where it is configured.
LEMMA PollStep == ASSUME StartInv, Poll PROVE StartInv'
<1>1. /\ Own("poll") \in tasks /\ last' = Own("poll") /\ tip' \in {tip, TRUE}
      /\ UNCHANGED main /\ UNCHANGED <<signature, accounts, derived, anchor, claimed>>
  BY DEF Poll
<1>2. config.source = "endpoint"
  BY <1>1, WhoIsThere
<1>3. HasTip(config) /\ Own("poll") \in Promised(config)
  BY <1>2, PromisedKinds DEF HasTip
<1>4. Own("poll") \in Errand
  BY DEF Own, Of, Errand
<1>5. tip' \in BOOLEAN
  BY <1>1, Reasons
<1> QED BY <1>1, <1>3, <1>4, <1>5, Reasons, TaskFrame

\* The deriver finds targets where blocks are asked for.
LEMMA DeriveStep == ASSUME StartInv, Derive PROVE StartInv'
<1>1. /\ Own("derive") \in tasks /\ accounts /\ last' = Own("derive")
      /\ derived' \in {derived, TRUE}
      /\ UNCHANGED main /\ UNCHANGED <<tip, signature, accounts, anchor, claimed>>
  BY DEF Derive
<1>2. Derives(config)
  <2>1. config.derive # "off"
    BY <1>1, WhoIsThere
  <2> QED BY <1>1, <2>1, Reasons DEF Derives
<1>3. Own("derive") \in Promised(config)
  BY <1>2, PromisedKinds
<1>4. Own("derive") \in Errand
  BY DEF Own, Of, Errand
<1>5. derived' \in BOOLEAN
  BY <1>1, Reasons
<1> QED BY <1>1, <1>2, <1>3, <1>4, <1>5, Reasons, TaskFrame

\* A round finds an anchor where there are two providers and a tip.
LEMMA RoundStep == ASSUME StartInv, Round PROVE StartInv'
<1>1. /\ Own("archival") \in tasks /\ tip /\ last' = Own("archival")
      /\ anchor' \in {anchor, endpoints}
      /\ UNCHANGED main /\ UNCHANGED <<tip, signature, accounts, derived, claimed>>
  BY DEF Round
<1>2. Cardinality(Eps(config)) >= 2 /\ HasTip(config)
  BY <1>1, WhoIsThere, Reasons
<1>3. Own("archival") \in Promised(config)
  BY <1>2, PromisedKinds
<1>4. Own("archival") \in Errand
  BY DEF Own, Of, Errand
<1>5. anchor' \cup claimed' \subseteq endpoints
  BY <1>1, Reasons
<1> QED BY <1>1, <1>2, <1>3, <1>4, <1>5, Reasons, TaskFrame

\* The reference round compares those it judges.
LEMMA CompareStep == ASSUME StartInv, NEW p \in Name, Compare(p) PROVE StartInv'
<1>1. /\ Own("reference") \in tasks /\ p \in Judged(config, endpoints)
      /\ last' = Of(p, "reference")
      /\ UNCHANGED main /\ UNCHANGED <<found, anchor, claimed>>
  BY DEF Compare, pools
<1>2. Verifies(config) /\ endpoints = Eps(config)
  BY <1>1, WhoIsThere
<1>3. Of(p, "reference") \in Promised(config)
  BY <1>1, <1>2, PromisedKinds
<1>4. Of(p, "reference") \in Errand
  BY DEF Of, Errand
<1> QED BY <1>1, <1>3, <1>4, Reasons, TaskFrame DEF found

\* The verifier settles claims of those that have made some.
LEMMA VerifyStep == ASSUME StartInv, NEW p \in Name, Verify(p) PROVE StartInv'
<1>1. /\ p \in claimed /\ last' = Of(p, "verify") /\ claimed' = claimed \ {p}
      /\ UNCHANGED main /\ UNCHANGED <<tip, signature, accounts, derived, anchor>>
  BY DEF Verify
<1>2. Verifies(config) /\ Fed(config) \cap Claiming # {} /\ p \in Eps(config)
  BY <1>1, Reasons
<1>3. Of(p, "verify") \in Promised(config)
  BY <1>2, PromisedKinds
<1>4. Of(p, "verify") \in Errand
  BY DEF Of, Errand
<1> QED BY <1>1, <1>3, <1>4, Reasons, TaskFrame

-----------------------------------------------------------------------------
(* The theorems. *)

LEMMA StartInit == Init => StartInv
<1> SUFFICES ASSUME Init PROVE StartInv
  OBVIOUS
<1>1. TypeOK
  <2>1. Nothing \in Errand
    BY DEF Nothing, Errand
  <2> QED BY <2>1 DEF Init, TypeOK
<1>2. HasReason
  BY DEF Init, HasReason, OnlyPromised
<1> QED BY <1>1, <1>2 DEF StartInv

LEMMA StartInductive == StartInv /\ [Next]_vars => StartInv'
<1> SUFFICES ASSUME StartInv, [Next]_vars PROVE StartInv'
  OBVIOUS
<1>1. CASE Main \/ Shutdown
  BY <1>1, MainStep
<1>2. CASE Tasks
  <2>1. ASSUME NEW t \in tasks, Ask(t) \/ AskInVain(t) \/ AskDerived(t) \/ AskAnchored(t)
        PROVE  StartInv'
    BY <2>1, AskStep, AskInVainStep, AskDerivedStep, AskAnchoredStep
  <2>2. ASSUME NEW p \in Name, Compare(p) \/ Verify(p)
        PROVE  StartInv'
    BY <2>2, CompareStep, VerifyStep
  <2> QED BY <1>2, <2>1, <2>2, PollStep, DeriveStep, RoundStep DEF Tasks
<1>3. CASE UNCHANGED vars
  BY <1>3 DEF vars, pools, found, StartInv, TypeOK, HasReason, OnlyPromised
<1> QED BY <1>1, <1>2, <1>3 DEF Next

LEMMA StartAlways == Spec => []StartInv
BY StartInit, StartInductive, PTL DEF Spec

\* Every variable has its type; no task runs before the configuration is found
\* good, nor after the end; only who is measured is owed an anchored page, or has
\* claims that wait.
THEOREM TypeCorrect == Spec => []TypeOK
<1>1. StartInv => TypeOK
  BY DEF StartInv
<1> QED BY <1>1, StartAlways, PTL

\* Whatever feeds what, in whichever order tasks start and answers come: no
\* request goes out that the configuration does not promise.
THEOREM OnlyWhatIsPromised == Spec => []OnlyPromised
<1>1. StartInv => OnlyPromised
  BY DEF StartInv, HasReason
<1> QED BY <1>1, StartAlways, PTL
=============================================================================
