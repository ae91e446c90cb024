---------------------------- MODULE MCReference ----------------------------
(* Instances of Judge and ReferenceRound for TLC: the two tasks that hold   *)
(* providers against the reference node.  They share no state, so a         *)
(* behaviour moves one of them and leaves the other as it began.            *)
EXTENDS Judge, ReferenceRound

CONSTANTS f, own, h

\* A provider that answers anything or nothing comes first; the one that runs the
\* reference node is not judged.
MCEndpoint == <<f, own, h>>

VARIABLE part

allVars == <<part, vars, roundVars>>

\* The one that does not move has one initial state.
JudgeMoves ==
    /\ part = "judge"
    /\ height = [p \in Provider |-> 0] /\ serving = FALSE
    /\ Init /\ RoundInit

RoundMoves ==
    /\ part = "round"
    /\ enabled = {"accounts"} /\ produced = {} /\ confirmed = 0 /\ live = 0
    /\ Init /\ RoundInit

OneOf(j, r) ==
    \/ part = "judge" /\ j /\ UNCHANGED <<part, roundVars>>
    \/ part = "round" /\ r /\ UNCHANGED <<part, vars>>

AllNext == OneOf(Next, RoundNext)

\* Fairness of the one and RoundFairness of the other: a behaviour moves one part
\* only, so that a conjunct may speak of an action of each.
AllFairness ==
    /\ WF_allVars(OneOf(VerifierStep, RoundStep))
    /\ WF_allVars(OneOf(FALSE, Advance))
    /\ \A p \in Honest : WF_allVars(OneOf(FALSE, CatchUp(p)))

AllSpec == (JudgeMoves \/ RoundMoves) /\ [][AllNext]_allVars /\ AllFairness

\* Neither task that asks the reference node gets stuck: ticks end, and each provider is
\* compared again and again.
AllAreJudged == TickEnds /\ EachIsJudged
=============================================================================
