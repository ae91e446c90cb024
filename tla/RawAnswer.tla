----------------------------- MODULE RawAnswer -----------------------------
(***************************************************************************)
(* How the Raw API answers a query for series (run_query, to_series and    *)
(* compute_win_rates, src/raw_api.rs): it asks Prometheus once, or once    *)
(* per quantile for latencies, keeps the finite points of the series that  *)
(* carry their labels, and for win rates counts who was fastest how often. *)
(*                                                                         *)
(* A series' points are a function from timestamps to values: Prometheus   *)
(* evaluates each timestamp once, and aggregates by provider, so that a    *)
(* reply holds at most one series per provider.                            *)
(***************************************************************************)
EXTENDS Integers, Sequences, FiniteSets

CONSTANTS
    Providers,      \* providers that Prometheus may know
    Instants,       \* [template -> timestamps of the range]
    Readings,       \* finite values
    Asked,          \* templates that are asked for
    AskedQuantiles  \* the quantiles of a latency query, in order

ASSUME RawAnswerAssumption ==
    /\ IsFiniteSet(Providers) /\ \A t \in Asked : IsFiniteSet(Instants[t])
    /\ "none" \notin Providers
    /\ Readings \subseteq Nat
    /\ Asked \subseteq {"latency", "win_rate"}
    \* parse_query names one quantile at least, and none twice (QueryFits).
    /\ AskedQuantiles \in Seq(STRING) /\ AskedQuantiles # <<>>
    /\ \A i, j \in DOMAIN AskedQuantiles : i # j => AskedQuantiles[i] # AskedQuantiles[j]

VARIABLES
    template,  \* what is asked for
    replies,   \* what Prometheus replied so far, one reply or failure per query
    got,       \* the series made of it
    outcome    \* none yet, an error, or what run_query returns

seriesVars == <<template, replies, got, outcome>>

NotFinite == -1  \* NaN and the infinities, which to_series drops
Pending == [is |-> "pending"]

\* Queries of a template, and the label that its series get.
Queries == IF template = "latency" THEN AskedQuantiles ELSE <<"mean">>

SeriesInit ==
    /\ template \in Asked
    /\ replies = <<>> /\ got = <<>> /\ outcome = Pending

-----------------------------------------------------------------------------
(* query_range and to_series. *)

RawPoints == UNION {[T -> Readings \cup {NotFinite}] : T \in SUBSET Instants[template]}

OnePerProvider(reply) ==
    \A i, j \in DOMAIN reply : i # j => reply[i].provider # reply[j].provider

\* A reply: series in any order, each with a provider; a series whose labels are gone
\* has none, and is left out of what to_series makes of it.
Replies ==
    {reply \in UNION {[1 .. n -> [provider : Providers \cup {"none"}, points : RawPoints]] :
                      n \in 0 .. Cardinality(Providers)} : OnePerProvider(reply)}

\* Slip: what is not a number becomes 0.
FiniteAsZero(points) ==
    [t \in DOMAIN points |-> IF points[t] = NotFinite THEN 0 ELSE points[t]]

Finite(points) ==
    [t \in {u \in DOMAIN points : points[u] # NotFinite} |-> points[t]]

Series(s, label) ==
    [provider |-> s.provider, label |-> label, points |-> Finite(s.points)]

\* What is made of the first series of a reply, for each number of them.
SeriesAfter(reply, label) ==
    LET made[n \in 0 .. Len(reply)] ==
            IF n = 0 THEN <<>>
            ELSE IF reply[n].provider = "none" THEN made[n - 1]
            ELSE Append(made[n - 1], Series(reply[n], label)) IN
    made

ToSeries(reply, label) == SeriesAfter(reply, label)[Len(reply)]

-----------------------------------------------------------------------------
(* compute_win_rates. *)

\* The winners so far, after the points of one more series.
Merge(winners, series) ==
    [t \in DOMAIN winners \cup DOMAIN series.points |->
        IF t \in DOMAIN series.points
           /\ (t \in DOMAIN winners => series.points[t] < winners[t].value)
        THEN [provider |-> series.provider, value |-> series.points[t]]
        ELSE winners[t]]

\* The winners after the first series, for each number of them.
WinnersAfter(all) ==
    LET winners[n \in 0 .. Len(all)] ==
            IF n = 0 THEN [t \in {} |-> 0] ELSE Merge(winners[n - 1], all[n]) IN
    winners

Winners(all) == WinnersAfter(all)[Len(all)]

\* Slip: whoever is as fast as the fastest has won as well.
WinsOfTied(series, winners) ==
    Cardinality({t \in DOMAIN series.points : series.points[t] = winners[t].value})

WinsOf(series, winners) ==
    Cardinality({t \in DOMAIN series.points : winners[t].provider = series.provider})

WinRates(all) ==
    LET winners == Winners(all) IN
    [i \in DOMAIN all |->
        [provider |-> all[i].provider,
         wins |-> WinsOf(all[i], winners),
         samples |-> Cardinality(DOMAIN all[i].points),
         total |-> Cardinality(DOMAIN winners)]]

-----------------------------------------------------------------------------
(* run_query. *)

Returned(all) == IF template = "win_rate" THEN [is |-> "ok", rows |-> WinRates(all)]
                                          ELSE [is |-> "ok", rows |-> all]

\* One query is answered; the answer is made of all of them.
Reply(reply) ==
    /\ outcome = Pending
    /\ replies' = Append(replies, [ok |-> TRUE, series |-> reply])
    /\ got' = got \o ToSeries(reply, Queries[Len(replies')])
    /\ outcome' = IF Len(replies') < Len(Queries) THEN Pending ELSE Returned(got')
    /\ UNCHANGED template

\* Slip: a query that fails is taken for one without series.
FailSkipped ==
    /\ outcome = Pending
    /\ replies' = Append(replies, [ok |-> FALSE, series |-> <<>>])
    /\ outcome' = IF Len(replies') < Len(Queries) THEN Pending ELSE Returned(got)
    /\ UNCHANGED <<template, got>>

\* An HTTP error, a status that is not "success", a body that cannot be read.
Fail ==
    /\ outcome = Pending
    /\ replies' = Append(replies, [ok |-> FALSE, series |-> <<>>])
    /\ outcome' = [is |-> "error"]
    /\ UNCHANGED <<template, got>>

SeriesNext == outcome = Pending /\ (Fail \/ \E reply \in Replies : Reply(reply))

SeriesSpec == SeriesInit /\ [][SeriesNext]_seriesVars

-----------------------------------------------------------------------------
(* Properties. *)

Rates == outcome.is = "ok" /\ template = "win_rate"

\* The points of a provider in a reply, as Prometheus meant them.
Meant(reply, p) ==
    {tv \in Instants[template] \X Readings :
        \E i \in DOMAIN reply :
            /\ reply[i].provider = p
            /\ tv[1] \in DOMAIN reply[i].points /\ reply[i].points[tv[1]] = tv[2]}

\* A provider's wins are counted against all others' points: it is credited with every
\* timestamp where it alone was fastest, and with none where another was faster.
WinsAreEarned ==
    Rates =>
        \A i \in DOMAIN outcome.rows :
            LET p == outcome.rows[i].provider
                mine == Meant(replies[1].series, p)
                others == UNION {Meant(replies[1].series, o) : o \in Providers \ {p}}
                beaten(tv) == \E o \in others : o[1] = tv[1] /\ o[2] < tv[2]
                tied(tv) == \E o \in others : o[1] = tv[1] /\ o[2] = tv[2]
                tops == {tv \in mine : ~beaten(tv)} IN
            /\ outcome.rows[i].wins <= Cardinality(tops)
            /\ outcome.rows[i].wins >= Cardinality({tv \in tops : ~tied(tv)})

\* The wins of the first rows, for each number of them.
WinsAfter(rows) ==
    LET wins[n \in 0 .. Len(rows)] == IF n = 0 THEN 0 ELSE wins[n - 1] + rows[n].wins IN
    wins

\* Every timestamp with a point is won exactly once, ties included, so that the shares
\* of all providers add up to the whole; what is not a number wins nothing.
WinsAddUp ==
    Rates =>
        LET rows == outcome.rows
            points == UNION {Meant(replies[1].series, p) : p \in Providers} IN
        /\ \A i \in DOMAIN rows : rows[i].total = Cardinality({tv[1] : tv \in points})
        /\ rows # <<>> => rows[1].total = WinsAfter(rows)[Len(rows)]

\* Series are returned for all quantiles or for none: an answer is never made of some
\* of the queries only, and holds exactly the finite points of each.
AllOrNothing ==
    outcome.is = "ok" /\ template = "latency" =>
        \A k \in 1 .. Len(AskedQuantiles), p \in Providers :
            /\ replies[k].ok
            /\ Meant(replies[k].series, p) =
                UNION {{<<t, outcome.rows[i].points[t]>> : t \in DOMAIN outcome.rows[i].points} :
                       i \in {j \in DOMAIN outcome.rows :
                                outcome.rows[j].provider = p /\ outcome.rows[j].label = AskedQuantiles[k]}}

\* What a client is answered is what Prometheus meant, whichever of several queries
\* failed and however replies are put together.
AnswersMeant == WinsAreEarned /\ WinsAddUp /\ AllOrNothing
=============================================================================
