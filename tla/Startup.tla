------------------------------ MODULE Startup ------------------------------
(***************************************************************************)
(* What a configuration makes of the process: src/main.rs, Config::validate, *)
(* the resolution of endpoints, and the tasks that are started.            *)
(*                                                                         *)
(* Tasks run from the moment they are spawned.  Most of them live on what  *)
(* others find: a block is asked for behind the fleet's tip, a transaction  *)
(* by a signature another check has seen, derived targets need accounts of *)
(* blocks, the archival round needs a tip, anchored pages need its result, *)
(* and the verifier needs claims.  A task whose food never comes stays     *)
(* silent, and nothing reports it.                                         *)
(*                                                                         *)
(* A provider's url is the one it has for the region, and a check is its   *)
(* method: two of the same make two tasks that do the same.                *)
(*                                                                         *)
(* What a request is answered with, and how it is counted, is the business *)
(* of Probe and Outcomes: here it feeds the others or it does not.         *)
(***************************************************************************)
EXTENDS Naturals, FiniteSets, Sequences

CONSTANTS
    Configs,  \* what the file and the environment may say: a set of Config
    Name,     \* names of providers
    Region,
    GeoFor,   \* geo_for, as a function of the region
    Target    \* names of gpa_targets

Methods ==
    {"health", "slot", "blockhash", "accountInfo", "multiple", "gpa", "tokenOwner",
     "signatures", "block", "transaction", "blockArchival", "transactionArchival"}

KnownGeos == {"us-east", "us-west", "eu-central", "eu-west", "ap-northeast", "ap-southeast"}

DerivedNames == {"derived_token_by_mint", "derived_token_by_owner"}

\* An endpoint: not given, a url, or one with a variable that is not set.
Urls == {"none", "good", "unset"}

Provider == [name : Name, geos : SUBSET (KnownGeos \cup {"atlantis"}), url : Urls \ {"none"}]

\* A target that has a filter, and whose program and filters decode, is sound.
GpaTarget == [name : Target, sound : BOOLEAN]

Config ==
    [region : Region, providers : Seq(Provider), checks : SUBSET Methods,
     source : {"maxObserved", "endpoint"}, pollUrl : Urls,
     targets : Seq(GpaTarget),
     derive : {"off", "malformed"} \cup (Urls \ {"none"}),
     claims : BOOLEAN, reference : Urls, exclude : Name \cup {"nobody"},
     bindable : BOOLEAN]

ASSUME StartupAssumption ==
    /\ Configs \subseteq Config
    /\ GeoFor \in [Region -> KnownGeos \cup {"unknown"}]
    /\ "nobody" \notin Name

VARIABLES
    config,
    phase,      \* how far main is
    endpoints,  \* names of the providers it measures
    tasks,      \* what has been spawned
    tip,        \* ReferenceSlot is set
    signature,  \* SharedState has a recent signature
    accounts,   \* and recent accounts
    derived,    \* DerivedTargets has targets
    anchor,     \* providers that have not used the ArchivalAnchor as it is
    claimed,    \* providers whose claims wait for the verifier
    last        \* the latest request that went out

found == <<tip, signature, accounts, derived>>  \* never unset
pools == <<found, anchor, claimed>>
vars == <<config, phase, endpoints, tasks, pools, last>>

\* A task, or a request: of which provider, if of one, and what it does.
Errand ==
    [of : Name, does : Methods \cup {"derived", "anchored", "reference", "verify"}]
    \cup [of : {"nobody"}, does : {"poll", "derive", "archival", "reference", "verify", "health"}]
Of(p, does) == [of |-> p, does |-> does]
Own(does) == Of("nobody", does)
Nothing == [of |-> "nobody", does |-> "health"]

-----------------------------------------------------------------------------
(* The configuration. *)

Distinct(s) == \A i, j \in DOMAIN s : s[i].name = s[j].name => i = j

\* validate.
Valid(c) ==
    /\ c.providers # <<>> /\ c.checks # {}
    /\ Distinct(c.providers)
    /\ c.source = "endpoint" => c.pollUrl # "none"
    /\ "gpa" \in c.checks => c.targets # <<>>
    /\ c.derive # "malformed"
    /\ Distinct(c.targets)
    /\ \A i \in DOMAIN c.targets :
         c.targets[i].name \notin DerivedNames /\ c.targets[i].sound

\* serves_region.
Serves(p, region) == p.geos = {} \/ GeoFor[region] \in p.geos

\* The providers that are measured here.
Measured(c) == {p \in {c.providers[i] : i \in DOMAIN c.providers} : Serves(p, c.region)}

\* validate_geos, resolve_endpoints, and resolve_url of the three other endpoints.
Resolves(c) ==
    /\ \A i \in DOMAIN c.providers : c.providers[i].geos \subseteq KnownGeos
    /\ \A p \in Measured(c) : p.url = "good"
    /\ "unset" \notin {c.derive, c.pollUrl, c.reference}

Verifies(c) == c.claims /\ c.reference # "none"

-----------------------------------------------------------------------------
(* main. *)

Enter(p) == phase' = p /\ UNCHANGED <<config, pools, last>>

\* Slip: the threads of the providers outlive main.
StopAlone == Enter("stopped") /\ UNCHANGED <<endpoints, tasks>>

Stop == Enter("stopped") /\ tasks' = {} /\ UNCHANGED endpoints

Load ==
    /\ phase = "load"
    /\ IF Valid(config) THEN Enter("resolve") /\ UNCHANGED <<endpoints, tasks>> ELSE Stop

\* Slip: the region is not looked at.
ResolveEverywhere ==
    /\ phase = "resolve"
    /\ IF Resolves(config)
       THEN /\ Enter("poller")
            /\ endpoints' = {config.providers[i].name : i \in DOMAIN config.providers}
            /\ UNCHANGED tasks
       ELSE Stop

Resolve ==
    /\ phase = "resolve"
    /\ IF Resolves(config)
       THEN /\ Enter("poller")
            /\ endpoints' = {p.name : p \in Measured(config)}
            /\ UNCHANGED tasks
       ELSE Stop

Spawn(new, next) ==
    /\ Enter(next)
    /\ tasks' = tasks \cup new
    /\ UNCHANGED endpoints

\* spawn_reference_poller.
SpawnPoller ==
    /\ phase = "poller"
    /\ Spawn(IF config.source = "endpoint" THEN {Own("poll")} ELSE {}, "claims")

\* spawn_claim_checker.
SpawnClaims ==
    /\ phase = "claims"
    /\ Spawn(IF Verifies(config) THEN {Own("verify")} ELSE {}, "checks")

\* spawn_checks: the deriver, and for each endpoint a thread with a task per check
\* but for those the archival round owns.
SpawnChecks ==
    /\ phase = "checks"
    /\ Spawn((IF config.derive # "off" THEN {Own("derive")} ELSE {})
             \cup {Of(p, m) : p \in endpoints,
                              m \in config.checks \ {"blockArchival", "transactionArchival"}},
             "reference")

Judged(c, eps) == eps \ {c.exclude}

\* spawn_reference_check.
SpawnReference ==
    /\ phase = "reference"
    /\ Spawn(IF Verifies(config) /\ Judged(config, endpoints) # {}
             THEN {Own("reference")} ELSE {}, "archival")

\* spawn_archival_check: there is nothing to compare one provider with.
SpawnArchival ==
    /\ phase = "archival"
    /\ Spawn(IF Cardinality(endpoints) >= 2 THEN {Own("archival")} ELSE {}, "bind")

\* serve: the socket is bound last, and everything is running by then.
Serve ==
    /\ phase = "bind"
    /\ IF config.bindable THEN Enter("serving") /\ UNCHANGED <<endpoints, tasks>> ELSE Stop

Shutdown == phase = "serving" /\ Stop

Main ==
    \/ Load \/ Resolve \/ SpawnPoller \/ SpawnClaims \/ SpawnChecks
    \/ SpawnReference \/ SpawnArchival \/ Serve

-----------------------------------------------------------------------------
(* The tasks. *)

main == <<config, phase, endpoints, tasks>>

\* observed_slot, and the claims of submit that a request can settle, of each
\* method's result.
Observing ==
    {"slot", "blockhash", "accountInfo", "multiple", "gpa", "tokenOwner", "signatures"}
Claiming == {"blockhash", "gpa", "tokenOwner", "signatures", "block", "transaction"}

\* build_params finds what it needs.
Ready(m) ==
    /\ m = "block" => tip
    /\ m = "transaction" => signature

\* The request is answered well, and the answer passes the gates.
Feed(t) ==
    /\ tip' = (tip \/ t.does \in Observing)
    /\ signature' = (signature \/ t.does = "signatures")
    /\ accounts' = (accounts \/ t.does = "block")
    /\ claimed' = IF Own("verify") \in tasks /\ t.does \in Claiming
                  THEN claimed \cup {t.of} ELSE claimed
    /\ UNCHANGED <<derived, anchor>>

\* A check task asks what its method always asks.
Ask(t) ==
    /\ t \in tasks /\ t.does \in Methods
    /\ Ready(t.does)
    /\ last' = t
    /\ Feed(t)
    /\ UNCHANGED main

\* Any failure, or a stale answer.
AskInVain(t) ==
    /\ t \in tasks /\ t.does \in Methods
    /\ Ready(t.does)
    /\ last' = t
    /\ UNCHANGED <<main, pools>>

\* A turn of a derived target: the claims of others only.
AskDerived(t) ==
    /\ t \in tasks /\ t.does \in {"gpa", "tokenOwner"}
    /\ derived
    /\ last' = Of(t.of, "derived")
    /\ tip' \in {tip, TRUE}
    /\ UNCHANGED <<main, signature, accounts, derived, anchor, claimed>>

\* A turn of an anchored page, one for each anchor: it feeds nobody.
AskAnchored(t) ==
    /\ t \in tasks /\ t.does = "signatures"
    /\ t.of \in anchor
    /\ last' = Of(t.of, "anchored")
    /\ anchor' = anchor \ {t.of}
    /\ UNCHANGED <<main, found, claimed>>

\* Slip: the poller remembers the slot and tells nobody.
PollSilently ==
    /\ Own("poll") \in tasks
    /\ last' = Own("poll")
    /\ UNCHANGED <<main, pools>>

\* poll_reference_endpoint.
Poll ==
    /\ Own("poll") \in tasks
    /\ last' = Own("poll")
    /\ tip' \in {tip, TRUE}
    /\ UNCHANGED <<main, signature, accounts, derived, anchor, claimed>>

\* derive_once: an empty pool ends the round before anything is sent.
Derive ==
    /\ Own("derive") \in tasks
    /\ accounts
    /\ last' = Own("derive")
    /\ derived' \in {derived, TRUE}
    /\ UNCHANGED <<main, tip, signature, accounts, anchor, claimed>>

\* run_archival_round; two providers may not agree, and then there is no new
\* anchor.
Round ==
    /\ Own("archival") \in tasks
    /\ tip
    /\ last' = Own("archival")
    /\ anchor' \in {anchor, endpoints}
    /\ UNCHANGED <<main, tip, signature, accounts, derived, claimed>>

\* run_round; the node may not answer.
Compare(p) ==
    /\ Own("reference") \in tasks
    /\ p \in Judged(config, endpoints)
    /\ last' = Of(p, "reference")
    /\ UNCHANGED <<main, pools>>

\* run_verify_tick.
Verify(p) ==
    /\ Own("verify") \in tasks
    /\ p \in claimed
    /\ last' = Of(p, "verify")
    /\ claimed' = claimed \ {p}
    /\ UNCHANGED <<main, tip, signature, accounts, derived, anchor>>

-----------------------------------------------------------------------------
Init ==
    /\ config \in Configs
    /\ phase = "load"
    /\ endpoints = {} /\ tasks = {}
    /\ tip = FALSE /\ signature = FALSE /\ accounts = FALSE
    /\ derived = FALSE /\ anchor = {} /\ claimed = {}
    /\ last = Nothing

Tasks ==
    \/ \E t \in tasks : Ask(t) \/ AskInVain(t) \/ AskDerived(t) \/ AskAnchored(t)
    \/ Poll \/ Derive \/ Round
    \/ \E p \in Name : Compare(p) \/ Verify(p)

Next == Main \/ Shutdown \/ Tasks

Spec == Init /\ [][Next]_vars

\* main does not stop half way; what can be found is found some time; and
\* providers agree on an old block, and each has something to claim, again and again.
Fairness ==
    /\ WF_vars(Main)
    /\ WF_vars(Tasks /\ found' # found)
    /\ SF_vars(Round /\ anchor' # anchor)
    /\ \A p \in Name : SF_vars(Tasks /\ claimed' # claimed /\ claimed' = claimed \cup {p})

FairSpec == Spec /\ Fairness

-----------------------------------------------------------------------------
(* Properties. *)

\* Every variable has its type; nothing runs before the configuration is found
\* good, nor after the end.
TypeOK ==
    /\ config \in Configs
    /\ phase \in {"load", "resolve", "poller", "claims", "checks", "reference", "archival",
                  "bind", "serving", "stopped"}
    /\ endpoints \subseteq Name
    /\ tasks \subseteq Errand
    /\ phase \in {"load", "resolve", "stopped"} => tasks = {}
    /\ {tip, signature, accounts, derived} \subseteq BOOLEAN
    /\ anchor \cup claimed \subseteq endpoints
    /\ last \in Errand

\* Who has a tip, by the configuration alone.
HasTip(c) == c.source = "endpoint" \/ (Measured(c) # {} /\ c.checks \cap Observing # {})

\* Which methods are asked, by the configuration alone.
Fed(c) ==
    {m \in c.checks \ {"blockArchival", "transactionArchival"} :
        /\ m = "block" => HasTip(c)
        /\ m = "transaction" => "signatures" \in c.checks}

\* What a configuration promises: the requests it makes the process send, again
\* and again.
Promised(c) ==
    LET eps == {p.name : p \in Measured(c)}
        round == Cardinality(eps) >= 2 /\ HasTip(c)
        derives == eps # {} /\ c.derive # "off" /\ "block" \in Fed(c) IN
    {Of(p, m) : p \in eps, m \in Fed(c)}
    \cup {Of(p, "derived") : p \in {q \in eps : derives /\ Fed(c) \cap {"gpa", "tokenOwner"} # {}}}
    \cup {Of(p, "anchored") : p \in {q \in eps : round /\ "signatures" \in Fed(c)}}
    \cup {Of(p, "verify") : p \in {q \in eps : Verifies(c) /\ Fed(c) \cap Claiming # {}}}
    \cup {Of(p, "reference") : p \in {q \in Judged(c, eps) : Verifies(c)}}
    \cup (IF c.source = "endpoint" THEN {Own("poll")} ELSE {})
    \cup (IF derives THEN {Own("derive")} ELSE {})
    \cup (IF round THEN {Own("archival")} ELSE {})

\* Whatever feeds what, in whichever order tasks start and answers come: the
\* process sends no request that its configuration does not promise.
OnlyPromised == last # Nothing => last \in Promised(config)

\* What the configuration promises happens again and again, until the process
\* is stopped: a task whose turn comes, and that could be fed, does not starve.
PromisedHappens ==
    \A x \in Errand :
        SF_vars(Tasks /\ last' = x) =>
            (phase = "serving" /\ x \in Promised(config) ~> last = x \/ phase = "stopped")
=============================================================================
