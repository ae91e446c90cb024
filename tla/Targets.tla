------------------------------ MODULE Targets ------------------------------
(***************************************************************************)
(* What a gpa target asks for, and what an answer to it is taken for:      *)
(* src/rpc/methods.rs (gpa_filters, GpaMatcher, entries_match, owner_anchor, *)
(* sample_accounts) and src/gpa_derive.rs (token_anchors,                  *)
(* candidate_targets, gpa_count).                                          *)
(*                                                                         *)
(* A node filters accounts by what the request says; the monitor filters   *)
(* the answer again by code of its own, and derives targets from accounts  *)
(* by offsets of its own.  All of them have to read an account the same    *)
(* way, or an honest answer is an empty one, and a claim about it false.   *)
(*                                                                         *)
(* A key is a sequence of KeyLen bytes.  Which candidates a round of the   *)
(* deriver asks for, and in which order, is the business of Probe.         *)
(***************************************************************************)
EXTENDS Naturals, FiniteSets, SequencesExt

CONSTANTS
    Pubkey,
    Account,      \* what an address may hold: see AccountType
    KeyLen,       \* 32
    TokenLen,     \* TOKEN_ACCOUNT_LEN: 165
    MintOffset,   \* TOKEN_ACCOUNT_MINT_OFFSET: 0
    OwnerOffset,  \* TOKEN_ACCOUNT_OWNER_OFFSET: 32
    BusyMint,     \* HIGH_VOLUME_MINTS
    BuiltinOwner, \* GPA_TOKEN_OWNER
    Configured,   \* gpa_targets that passed validation
    MaxMoved      \* bound: addresses that change between derivation and request

\* The program that owns an account, and its data; "none" owns what is closed, and
\* what cannot be decoded: it matches nothing and is no token account.
AccountType == [program : {"token", "other", "none"}, data : Seq(Nat)]

AnySize == 0  \* data_size is not given (nobody asks for empty accounts)

Derived == {"derived_token_by_mint", "derived_token_by_owner"}

\* A memcmp of a target, its bytes decoded.
Filter == [offset : Nat, bytes : Seq(Nat) \ {<<>>}]

ASSUME TargetsAssumption ==
    /\ Pubkey # {} /\ IsFiniteSet(Pubkey)
    /\ Account \subseteq AccountType
    /\ KeyLen \in Nat \ {0} /\ TokenLen \in Nat /\ TokenLen >= 2 * KeyLen
    /\ MintOffset = 0 /\ OwnerOffset = KeyLen
    /\ BuiltinOwner \in Seq(Nat) /\ Len(BuiltinOwner) = KeyLen
    /\ \A t \in Configured :
         /\ t.name \notin Derived
         /\ t.size \in Nat /\ t.memcmp \in Seq(Filter)
         /\ t.size # AnySize \/ t.memcmp # <<>>

VARIABLES
    chain,       \* Pubkey -> Account
    candidates,  \* what the last derivation could ask for
    counts,      \* and what their preflights counted
    moved,       \* addresses that changed since then
    wanted,      \* the target of the request
    honest,      \* a node answered it by its filters
    entries,     \* the answer
    valid,       \* is_valid_result
    sample       \* the sample of the claim

targetsVars == <<chain, candidates, counts, moved, wanted, honest, entries, valid, sample>>

KeyAt(data, from) == SubSeq(data, from + 1, from + KeyLen)

TokenTarget(name, offset, key) ==
    [name |-> name, program |-> "token", size |-> TokenLen,
     memcmp |-> <<[offset |-> offset, bytes |-> key]>>]

ByMint(key) == TokenTarget("derived_token_by_mint", MintOffset, key)
ByOwner(key) == TokenTarget("derived_token_by_owner", OwnerOffset, key)

\* Slip: the answer is checked at the offset of the mint.
BuiltinAtMint == TokenTarget("token_owner", MintOffset, BuiltinOwner)

Builtin == TokenTarget("token_owner", OwnerOffset, BuiltinOwner)

-----------------------------------------------------------------------------
(* A node. *)

\* gpa_filters, as a node reads them.
Selects(t, a) ==
    /\ a.program = t.program
    /\ t.size # AnySize => Len(a.data) = t.size
    /\ \A i \in DOMAIN t.memcmp :
         LET f == t.memcmp[i] IN
         \A j \in DOMAIN f.bytes :
            f.offset + j \in DOMAIN a.data /\ a.data[f.offset + j] = f.bytes[j]

ProgramAccounts(t) == {p \in Pubkey : Selects(t, chain[p])}

\* The token program keeps the mint first and the owner next.
OwnedBy(key) ==
    {p \in Pubkey : /\ chain[p].program = "token" /\ Len(chain[p].data) = TokenLen
                    /\ KeyAt(chain[p].data, KeyLen) = key}

\* An answer lists its accounts in any order.
Listed(ps) == {[i \in DOMAIN s |-> [pubkey |-> s[i], account |-> chain[s[i]]]] : s \in SetToSeqs(ps)}

-----------------------------------------------------------------------------
(* The monitor. *)

\* Slip: whose account it is does not matter.
MatchesForeign(t, a) ==
    /\ t.size # AnySize => Len(a.data) = t.size
    /\ \A i \in DOMAIN t.memcmp :
         LET f == t.memcmp[i]
             end == f.offset + Len(f.bytes) IN
         end <= Len(a.data) /\ SubSeq(a.data, f.offset + 1, end) = f.bytes

\* GpaMatcher::matches.
Matches(t, a) ==
    /\ a.program = t.program
    /\ t.size # AnySize => Len(a.data) = t.size
    /\ \A i \in DOMAIN t.memcmp :
         LET f == t.memcmp[i]
             end == f.offset + Len(f.bytes) IN
         end <= Len(a.data) /\ SubSeq(a.data, f.offset + 1, end) = f.bytes

\* entries_match.
EntriesMatch(es, t) == es # <<>> /\ \A i \in DOMAIN es : Matches(t, es[i].account)

\* Slip: the middle is the first again.
PicksTwice(n) == {1, n}

\* The picks of sample_accounts: the first, the middle and the last, once each.
Picks(n) == {1, n \div 2 + 1, n}

Sampled(entry) == [pubkey |-> entry.pubkey, data |-> entry.account.data]

SampleAccounts(es) == IF es = <<>> THEN {} ELSE {Sampled(es[i]) : i \in Picks(Len(es))}

\* Slip: any program's account of that length will do.
AnchorsOfAny(accounts) ==
    {[mint |-> KeyAt(a.data, 0), owner |-> KeyAt(a.data, KeyLen)] :
        a \in {b \in accounts : Len(b.data) = TokenLen}}

\* token_anchors.
TokenAnchors(accounts) ==
    {[mint |-> KeyAt(a.data, 0), owner |-> KeyAt(a.data, KeyLen)] :
        a \in {b \in accounts : b.program = "token" /\ Len(b.data) = TokenLen}}

\* candidate_targets.
Candidates(anchors) ==
    {ByMint(x.mint) : x \in {y \in anchors : y.mint \notin BusyMint}}
    \cup {ByOwner(x.owner) : x \in anchors}

\* owner_anchor.
OwnerAnchor(t) ==
    LET at == {i \in DOMAIN t.memcmp : t.memcmp[i].offset = OwnerOffset} IN
    IF at = {} THEN BuiltinOwner ELSE t.memcmp[CHOOSE i \in at : \A j \in at : i <= j].bytes

-----------------------------------------------------------------------------
Nothing == TokenTarget("nothing", 0, <<>>)

TargetsInit ==
    /\ chain \in [Pubkey -> Account]
    /\ candidates = {} /\ counts = <<>> /\ moved = {}
    /\ wanted = Nothing /\ honest = FALSE /\ entries = <<>> /\ valid = FALSE /\ sample = {}

\* derive_once, on one state of the chain: the accounts, and every preflight.
Derive ==
    /\ candidates = {} /\ wanted = Nothing
    /\ candidates' = Candidates(TokenAnchors({chain[p] : p \in Pubkey}))
    /\ counts' = [t \in candidates' |-> Cardinality(ProgramAccounts(t))]
    /\ moved' = {}
    /\ UNCHANGED <<chain, wanted, honest, entries, valid, sample>>

\* An account changes, closes or opens before it is asked for.
Change(p) ==
    /\ candidates # {} /\ wanted = Nothing
    /\ p \notin moved /\ Cardinality(moved) < MaxMoved
    /\ \E a \in Account : chain' = [chain EXCEPT ![p] = a]
    /\ moved' = moved \cup {p}
    /\ UNCHANGED <<candidates, counts, wanted, honest, entries, valid, sample>>

\* Slip: a claim is made of whatever came.
AnswerUnchecked(t, es, by) ==
    /\ wanted = Nothing
    /\ wanted' = t
    /\ honest' = (by = "node")
    /\ entries' = es
    /\ valid' = EntriesMatch(es, t)
    /\ sample' = IF t.name \notin Derived THEN SampleAccounts(es) ELSE {}
    /\ UNCHANGED <<chain, candidates, counts, moved>>

\* The answer is checked, and a claim is made of a good one, unless it is of a
\* derived target.
Answer(t, es, by) ==
    /\ wanted = Nothing
    /\ wanted' = t
    /\ honest' = (by = "node")
    /\ entries' = es
    /\ valid' = EntriesMatch(es, t)
    /\ sample' = IF valid' /\ t.name \notin Derived THEN SampleAccounts(es) ELSE {}
    /\ UNCHANGED <<chain, candidates, counts, moved>>

\* getProgramAccounts.
AskProgram(t) == \E es \in Listed(ProgramAccounts(t)) : Answer(t, es, "node")

\* getTokenAccountsByOwner, of a derived owner or of the built-in one.
AskOwner(t) == \E es \in Listed(OwnedBy(OwnerAnchor(t))) : Answer(t, es, "node")

\* An answer that has nothing to do with the request.
AnswerWrong(t) ==
    \E a \in Account :
        Answer(t, <<[pubkey |-> CHOOSE p \in Pubkey : TRUE, account |-> a]>>, "nobody")

TargetsNext ==
    \/ Derive
    \/ \E p \in Pubkey : Change(p)
    \/ \E t \in Configured \cup candidates : AskProgram(t) \/ AnswerWrong(t)
    \/ \E t \in candidates \cup {Builtin} : t.name # "derived_token_by_mint" /\ AskOwner(t)

TargetsSpec == TargetsInit /\ [][TargetsNext]_targetsVars

-----------------------------------------------------------------------------
(* Properties. *)

\* Every variable has its type; the counts are of the candidates.
TargetsTypeOK ==
    /\ chain \in [Pubkey -> Account]
    /\ \A t \in candidates : t.name \in Derived
    /\ candidates # {} => DOMAIN counts = candidates
    /\ moved \subseteq Pubkey
    /\ entries \in Seq([pubkey : Pubkey, account : Account])
    /\ {honest, valid} \subseteq BOOLEAN
    /\ sample \subseteq [pubkey : Pubkey, data : Seq(Nat)]

\* The monitor takes an answer for what was asked exactly when a node would have
\* given it: every account passes the filters of the request, and there is one.
ValidIsSelected ==
    wanted # Nothing =>
        (valid <=> entries # <<>> /\ \A i \in DOMAIN entries : Selects(wanted, entries[i].account))

\* An honest answer is good unless nothing is left to list, by whichever method
\* and of whichever target it was asked for.
HonestPasses == honest => (valid <=> entries # <<>>)

\* While no account changes, a derived target finds the accounts its preflight
\* counted, the one it was derived from among them: by the filters of its
\* preflight, and by its owner alone.
DerivedFinds ==
    honest /\ wanted \in candidates /\ moved = {} => valid /\ Len(entries) = counts[wanted]

\* A claim is judged by the ends and the middle of a good answer: as many of its
\* accounts as there are, three at most, no account twice.
SampleSpans ==
    IF valid /\ wanted.name \notin Derived
    THEN /\ Cardinality(sample) = IF Len(entries) < 3 THEN Len(entries) ELSE 3
         /\ {Sampled(entries[1]), Sampled(entries[Len(entries)])} \subseteq sample
         /\ sample \subseteq {Sampled(entries[i]) : i \in DOMAIN entries}
    ELSE sample = {}

\* What is asked for, what an answer is checked against, what targets are derived from
\* and what a claim samples are read from accounts in the same way.
ReadAlike == ValidIsSelected /\ HonestPasses /\ DerivedFinds /\ SampleSpans
=============================================================================
