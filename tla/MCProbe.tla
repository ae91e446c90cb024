------------------------------ MODULE MCProbe ------------------------------
(* Instances of Probe and Targets for TLC: the checks with their pools, and *)
(* what a gpa target means to whoever reads it.  They share no state, so a  *)
(* behaviour moves one of them and leaves the other as it began.            *)
EXTENDS Probe, Targets

MCCheck(m, h) == [method |-> m, honest |-> h]

\* Every check of an honest provider, with the check that feeds its questions.
MCChecks ==
    {[a |-> MCCheck("gpa", TRUE), b |-> MCCheck("block", TRUE)],
     [a |-> MCCheck("tokenOwner", TRUE), b |-> MCCheck("block", TRUE)],
     [a |-> MCCheck("batch", TRUE), b |-> MCCheck("block", FALSE)],
     [a |-> MCCheck("transaction", TRUE), b |-> MCCheck("signatures", FALSE)]}

MCCurated == <<"curated">>
MCSizes == [a \in Anchors |-> 2]

-----------------------------------------------------------------------------
\* Keys of two bytes, token accounts of six, and targets at every place of one.
K1 == <<0, 1>>
K2 == <<1, 0>>

A(program, data) == [program |-> program, data |-> data]

\* Token accounts of two mints and two owners, one of them in both places; one
\* that ends with a key; a mint (shorter), another program's, and a closed one.
Kinds ==
    <<A("token", K1 \o K2 \o <<0, 0>>), A("token", K2 \o K1 \o <<0, 0>>),
      A("token", K1 \o K1 \o <<1, 0>>), A("token", K2 \o <<0>>),
      A("other", K1 \o K2 \o <<0, 0>>), A("none", <<>>)>>
Accounts == {Kinds[i] : i \in DOMAIN Kinds}

F(offset, bytes) == [offset |-> offset, bytes |-> bytes]
Gpa(program, length, memcmp) ==
    [name |-> "t", program |-> program, size |-> length, memcmp |-> memcmp]

\* By size, by a key at the end or across the keys, by both, and past the data.
GpaTargets ==
    {Gpa("token", 6, <<>>), Gpa("token", AnySize, <<F(4, K2)>>), Gpa("token", AnySize, <<F(1, K1)>>),
     Gpa("token", AnySize, <<F(2, K2), F(0, K1)>>), Gpa("token", 3, <<F(2, <<0>>)>>),
     Gpa("other", 6, <<F(6, <<0>>)>>)}

Busy == {K2}

-----------------------------------------------------------------------------
VARIABLE part

allVars == <<part, vars, targetsVars>>

OneOf(p, t) ==
    \/ part = "probe" /\ p /\ UNCHANGED <<part, targetsVars>>
    \/ part = "targets" /\ t /\ UNCHANGED <<part, vars>>

\* The one that does not move has one initial state.
ProbeMoves ==
    /\ part = "probe"
    /\ chain = [k \in Pubkey |-> Kinds[1]]
    /\ Init /\ TargetsInit

\* Answers list accounts in any order: one arrangement of them on the chain will do.
TargetsMove ==
    /\ part = "targets"
    /\ \E kind \in [Pubkey -> DOMAIN Kinds] :
          /\ \A k, l \in Pubkey : k < l => kind[k] <= kind[l]
          /\ chain = [k \in Pubkey |-> Kinds[kind[k]]]
    /\ check = CHOOSE c \in Checks : TRUE
    /\ counted = NothingCounted("a")
    /\ Init /\ TargetsInit

\* Nothing comes after the one request.
TargetsOver == part = "targets" /\ wanted # Nothing /\ UNCHANGED allVars

AllNext == OneOf(Next, TargetsNext) \/ TargetsOver

AllSpec ==
    /\ ProbeMoves \/ TargetsMove
    /\ [][AllNext]_allVars
    /\ \A t \in Task :
        /\ WF_vars(part = "probe" /\ Call(t))
        /\ WF_vars(part = "probe" /\ Fails(t))
        /\ SF_vars(part = "probe" /\ Acquire(t))
=============================================================================
