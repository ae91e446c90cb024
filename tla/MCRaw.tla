------------------------------- MODULE MCRaw -------------------------------
(* Instances of RawApi, RawQuery and RawAnswer for TLC: who is let in, what *)
(* is made of a query, and how it is answered.  Each is about requests of   *)
(* its own, so a behaviour moves one and leaves the others as they began.   *)
EXTENDS RawApi, RawQuery, RawAnswer

\* Ranges around every limit: none, one second, the longest and one more.
SomeTimes == {0, 1, 7, 12, 13}

SomeLists == {<<"p50">>, <<"p99", "p50", "p99">>, <<"p50", "p50">>, <<"unreadable">>}
TwoQuantiles == <<"p50", "p99">>

\* Two timestamps to win, one in each reply of a latency query.
SomeInstants == [win_rate |-> {1, 2}, latency |-> {1}]

VARIABLE part

allVars == <<part, vars, queryVars, seriesVars>>

OneOf(a, q, s) ==
    \/ part = "api" /\ a /\ UNCHANGED <<part, queryVars, seriesVars>>
    \/ part = "query" /\ q /\ UNCHANGED <<part, vars, seriesVars>>
    \/ part = "series" /\ s /\ UNCHANGED <<part, vars, queryVars>>

\* What does not move has one initial state.
AllInit ==
    /\ part \in {"api", "query", "series"}
    /\ part # "query" => asOf = 0 /\ params = Bare("unknown")
    /\ part # "series" => template = "latency"
    /\ Init /\ QueryInit /\ SeriesInit

\* A query that is parsed and a reply that is put together are the end.
Over ==
    /\ \/ part = "query" /\ parsed # Nothing
       \/ part = "series" /\ outcome # Pending
    /\ UNCHANGED allVars

AllNext == OneOf(Next, QueryNext, SeriesNext) \/ Over

AllSpec ==
    /\ AllInit /\ [][AllNext]_allVars
    /\ \A r \in Requests :
        /\ WF_vars(part = "api" /\ Handle(r))
        /\ WF_vars(part = "api" /\ Answer(r) /\ reqs[r].plan = "series")
=============================================================================
