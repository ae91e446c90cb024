----------------------------- MODULE MCStartup -----------------------------
(* Instances of Startup: two providers, two regions of which one has no geo, *)
(* and configurations that combine what starts, feeds and starves tasks.   *)
EXTENDS Startup

Regions == {"fra", "mars"}
Geos == [fra |-> "eu-central", mars |-> "unknown"]

P(n, geos, url) == [name |-> n, geos |-> geos, url |-> url]
T(n, sound) == [name |-> n, sound |-> sound]

\* Everywhere, Europe only, every geo there is, America only.
Lists ==
    {<<P("a", {}, "good")>>,
     <<P("a", {}, "good"), P("b", {}, "good")>>,
     <<P("a", {}, "good"), P("b", {"us-east"}, "unset")>>,
     <<P("a", {"eu-central"}, "good"), P("b", KnownGeos, "good")>>,
     <<P("a", {"us-east"}, "good")>>}

BadLists ==
    {<<>>, <<P("a", {}, "good"), P("a", {}, "good")>>, <<P("a", {}, "unset")>>,
     <<P("a", {"atlantis"}, "good")>>}

CheckSets ==
    {{"health"}, {"block"}, {"block", "gpa"}, {"block", "slot"}, {"block", "tokenOwner"},
     {"transaction", "blockArchival"}, {"transaction", "signatures"}}

Base ==
    [region |-> "fra", providers |-> <<P("a", {}, "good"), P("b", {}, "good")>>,
     checks |-> {"slot"},
     source |-> "maxObserved", pollUrl |-> "none", targets |-> <<T("t", TRUE)>>,
     derive |-> "good", claims |-> TRUE, reference |-> "good", exclude |-> "a",
     bindable |-> TRUE]

\* Everything that may go wrong before the first task.
Faulty ==
    {[Base EXCEPT !.providers = l] : l \in BadLists}
    \cup {[Base EXCEPT !.checks = {}], [Base EXCEPT !.source = "endpoint"],
          [Base EXCEPT !.targets = <<>>], [Base EXCEPT !.targets = <<T("t", FALSE)>>],
          [Base EXCEPT !.targets = <<T("derived_token_by_mint", TRUE)>>],
          [Base EXCEPT !.derive = "malformed"], [Base EXCEPT !.derive = "unset"],
          [Base EXCEPT !.pollUrl = "unset"], [Base EXCEPT !.reference = "unset"],
          [Base EXCEPT !.bindable = FALSE], Base}

Slots == {<<"maxObserved", "none">>, <<"endpoint", "good">>}

\* Each list in each region, and each set of checks with either source of the tip,
\* with and without what costs more: derived targets and claims.
Single ==
    {[Base EXCEPT !.region = r, !.providers = l, !.checks = {"block"}, !.derive = "off",
                  !.exclude = x] :
        r \in Regions, l \in Lists, x \in {"nobody", "a"}}
    \cup {[Base EXCEPT !.providers = <<P("a", {}, "good")>>, !.checks = k, !.derive = d,
                       !.source = s[1], !.pollUrl = s[2], !.claims = FALSE] :
             k \in CheckSets, d \in {"off", "good"}, s \in Slots}
    \cup {[Base EXCEPT !.providers = l, !.checks = k, !.derive = "off", !.claims = FALSE] :
             l \in Lists, k \in CheckSets}

\* All that is found, and one thing missing, or found elsewhere; with claims where
\* there is less else.
Feeding ==
    {[Base EXCEPT !.checks = {"block", "tokenOwner", "signatures"}, !.claims = FALSE],
     [Base EXCEPT !.checks = {"block", "transaction"}],
     [Base EXCEPT !.checks = {"block"}, !.source = "endpoint", !.pollUrl = "good"],
     [Base EXCEPT !.providers = <<P("a", {}, "good"), P("b", {"us-east"}, "unset")>>,
                  !.checks = {"signatures", "transaction"}],
     [Base EXCEPT !.providers = <<P("a", {}, "good")>>,
                  !.checks = {"block", "gpa", "signatures", "transaction"}]}

Every == Faulty \cup Single \cup Feeding
=============================================================================
