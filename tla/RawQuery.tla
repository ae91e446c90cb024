----------------------------- MODULE RawQuery -----------------------------
(***************************************************************************)
(* What the Raw API makes of the parameters of a query (parse_query,       *)
(* src/raw_api.rs): which it accepts, with which range, step, quantiles    *)
(* and limit, and why it refuses the others.                               *)
(*                                                                         *)
(* Times are seconds.  A parameter is absent, unreadable or a value; names *)
(* of templates, labels and quantiles stand for themselves.                *)
(***************************************************************************)
EXTENDS Integers, Sequences, FiniteSets

CONSTANTS
    Keys,          \* the labels a query may filter by, among them infra and region
    Quantiles,     \* ALLOWED_QUANTILES
    DefaultQuantiles, \* DEFAULT_QUANTILES
    MaxPoints,     \* MAX_POINTS
    MaxRange,      \* MAX_RANGE_SECONDS
    MinStep,       \* MIN_STEP_SECONDS
    DefaultRange,  \* DEFAULT_RANGE_SECONDS
    TargetPoints,  \* DEFAULT_TARGET_POINTS
    DefaultLimit,  \* DEFAULT_SAMPLE_LIMIT
    MaxLimit,      \* MAX_SAMPLE_LIMIT
    Times, Steps, Limits, QuantileLists, \* bounds: what is asked for
    MaxGiven       \* bound: how many parameters a client gives

Absent == -1
Unreadable == -2

ASSUME RawQueryAssumption ==
    /\ {"infra", "region"} \subseteq Keys
    /\ MaxPoints \in Nat /\ MaxRange \in Nat /\ DefaultRange \in Nat
    /\ MinStep \in Nat \ {0} /\ TargetPoints \in Nat \ {0}
    /\ TargetPoints + 1 <= MaxPoints
    /\ DefaultLimit \in Nat /\ MaxLimit \in Nat
    /\ Times \subseteq Nat /\ Steps \subseteq Nat /\ Limits \subseteq Nat
    /\ DefaultQuantiles \in Seq(Quantiles) /\ IsFiniteSet(Quantiles)
    /\ QuantileLists \subseteq Seq(Quantiles \cup {"unreadable"})
    /\ MaxGiven \in Nat

VARIABLES
    asOf,    \* the clock
    params,  \* the template and the parameters of a query
    parsed   \* what parse_query made of them

queryVars == <<asOf, params, parsed>>

Templates == {"latency", "latency_buckets", "requests", "win_rate", "claim_checks", "samples"}

\* What a client may give for each parameter; q=<<>> stands for none.
Values ==
    [labels |-> [Keys -> {"absent", "valid", "invalid"}],
     start |-> Times \cup {Absent, Unreadable}, end |-> Times \cup {Absent, Unreadable},
     step |-> Steps \cup {Absent, Unreadable},
     q |-> QuantileLists \cup {<<>>},
     by |-> {"absent", "status", "error_kind", "other"},
     format |-> {"absent", "json", "csv", "other"},
     limit |-> Limits \cup {Absent, Unreadable}]

\* /raw/{template}, without parameters
Bare(template) ==
    [template |-> template, labels |-> [k \in Keys |-> "absent"],
     start |-> Absent, end |-> Absent, step |-> Absent, q |-> <<>>,
     by |-> "absent", format |-> "absent", limit |-> Absent]

-----------------------------------------------------------------------------
(* parse_query. *)

\* parse_time
TimeOf(value, fallback) == IF value = Absent THEN fallback ELSE value

\* saturating_sub
SatSub(a, b) == IF a > b THEN a - b ELSE 0

End(p) == TimeOf(p.end, asOf)
Start(p) == TimeOf(p.start, SatSub(End(p), DefaultRange))
RangeOf(p) == End(p) - Start(p)

DivCeil(a, b) == (a + b - 1) \div b

\* Slip: the step is rounded down to whole minutes.
DefaultStepFloor(range) ==
    LET steps == (range \div TargetPoints) \div MinStep IN
    IF steps * MinStep > MinStep THEN steps * MinStep ELSE MinStep

DefaultStep(range) ==
    LET steps == DivCeil(DivCeil(range, TargetPoints), MinStep) IN
    IF steps * MinStep > MinStep THEN steps * MinStep ELSE MinStep

Step(p) == IF p.step = Absent THEN DefaultStep(RangeOf(p)) ELSE p.step

\* Slip: both ends of the range are points, and one is forgotten.
PointsExclusive(p) == RangeOf(p) \div Step(p)

Points(p) == RangeOf(p) \div Step(p) + 1

\* Slip: a quantile that is named twice is asked for twice.
QuantilesTwice(p) == IF p.q = <<>> THEN DefaultQuantiles ELSE p.q

\* q: the default, or what is named, each once, in the order it is named.
QuantilesOf(p) ==
    IF p.q = <<>> THEN DefaultQuantiles
    ELSE LET first == {i \in DOMAIN p.q : \A j \in 1 .. i - 1 : p.q[j] # p.q[i]}
             place(i) == Cardinality({j \in first : j <= i}) IN
         [n \in 1 .. Cardinality(first) |-> p.q[CHOOSE i \in first : place(i) = n]]

LimitOf(p) == IF p.limit = Absent THEN DefaultLimit ELSE p.limit

\* The checks of parse_query, in its order: the first that fails is the answer.
Refusal(p) ==
    IF p.template \notin Templates THEN "template"
    ELSE IF \E k \in Keys : p.labels[k] = "invalid" THEN "label"
    ELSE IF p.labels["region"] # "absent" /\ p.labels["infra"] = "absent" THEN "region"
    ELSE IF /\ p.template = "claim_checks"
            /\ \E k \in {"infra", "region"} : p.labels[k] # "absent" THEN "dimension"
    ELSE IF p.end = Unreadable \/ p.start = Unreadable THEN "time"
    ELSE IF Start(p) >= End(p) THEN "order"
    ELSE IF RangeOf(p) > MaxRange THEN "range"
    ELSE IF p.step = Unreadable \/ p.step \in 0 .. MinStep - 1 THEN "step"
    ELSE IF Points(p) > MaxPoints THEN "points"
    ELSE IF \E i \in DOMAIN p.q : p.q[i] \notin Quantiles THEN "quantile"
    ELSE IF p.by = "other" THEN "by"
    ELSE IF p.format = "other" THEN "format"
    ELSE IF p.limit = Unreadable \/ p.limit = 0 \/ p.limit > MaxLimit THEN "limit"
    ELSE "none"

\* RawQuery, as far as numbers go.
Query(p) ==
    [start |-> Start(p), end |-> End(p), step |-> Step(p),
     quantiles |-> QuantilesOf(p), limit |-> LimitOf(p)]

Nothing == [refusal |-> "nothing yet"]

QueryInit ==
    /\ asOf \in Times
    /\ \E t \in Templates \cup {"unknown"} : params = Bare(t)
    /\ parsed = Nothing

Given == {f \in DOMAIN Values : params[f] # Bare(params.template)[f]}

\* The client adds a parameter.
Give(f) ==
    /\ parsed = Nothing
    /\ f \notin Given
    /\ Cardinality(Given) < MaxGiven
    /\ \E v \in Values[f] : params' = [params EXCEPT ![f] = v]
    /\ UNCHANGED <<asOf, parsed>>

Parse ==
    /\ parsed = Nothing
    /\ parsed' = IF Refusal(params) = "none"
                 THEN [refusal |-> "none", query |-> Query(params)]
                 ELSE [refusal |-> Refusal(params)]
    /\ UNCHANGED <<asOf, params>>

QueryNext == Parse \/ \E f \in DOMAIN Values : Give(f)

QuerySpec == QueryInit /\ [][QueryNext]_queryVars

-----------------------------------------------------------------------------
(* Properties. *)

Accepted == parsed # Nothing /\ parsed.refusal = "none"

\* The timestamps that Prometheus evaluates a range query at: the first is start, and
\* end belongs to the range.
Timestamps(q) == {t \in q.start .. q.end : (t - q.start) % q.step = 0}

\* An accepted query costs at most MAX_POINTS points per series and reaches no further
\* than what is kept, whatever range and step it names or leaves out.
CostBounded ==
    Accepted => /\ Cardinality(Timestamps(parsed.query)) <= MaxPoints
                /\ parsed.query.end - parsed.query.start <= MaxRange

\* The step that is chosen for a client that names none always fits: about
\* DEFAULT_TARGET_POINTS points, and never a refusal for too many.
DefaultStepFits ==
    (parsed # Nothing /\ params.step = Absent) =>
        /\ parsed.refusal # "points"
        /\ Accepted => Cardinality(Timestamps(parsed.query)) <= TargetPoints + 1

\* A latency query asks Prometheus once per quantile, so no more often than there are
\* quantiles, and for each that the client named.
EachQuantileOnce ==
    (Accepted /\ params.q # <<>>) =>
        LET q == parsed.query.quantiles IN
        /\ {q[i] : i \in DOMAIN q} = {params.q[i] : i \in DOMAIN params.q}
        /\ Len(q) <= Cardinality(Quantiles)

\* What is accepted stays within the limits, and the defaults do so too: points, range
\* and the number of queries it makes upstream.
QueryFits == CostBounded /\ DefaultStepFits /\ EachQuantileOnce
=============================================================================
