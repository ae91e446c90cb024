----------------------------- MODULE MCOutcomes -----------------------------
(* Instances of Outcomes for TLC. *)
EXTENDS Outcomes

\* Up, down in three ways, neutral; bodies that break off, never end, or are read
\* in different ways by different callers.
MCBehaviours ==
    {[head |-> "refused", body |-> "endless"], [head |-> "silent", body |-> "endless"],
     [head |-> "5xx", body |-> "garbled"], [head |-> "4xx", body |-> "garbled"]}
    \cup [head : {"ok"}, body : {"cut", "endless", "skipped", "null", "valid"}]

\* Two paths side by side: every path.
MCEveryPair ==
    {[a |-> "task", b |-> "archivalBlock"], [a |-> "fixedSlot", b |-> "archivalTx"]}
=============================================================================
