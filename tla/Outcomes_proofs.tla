-------------------------- MODULE Outcomes_proofs --------------------------
(***************************************************************************)
(* Theorems about Outcomes, for any callers, permits, deadline and any     *)
(* repertoire of the provider.                                             *)
(*                                                                         *)
(* The argument: what has come of an answer tells how far its call is.     *)
(* Only a complete body under a head that came is ever judged, and the     *)
(* archival path judges none but that of a success; an exchange is never   *)
(* older than the deadline.  What the two paths make of such an answer is  *)
(* then a matter of cases.                                                 *)
(***************************************************************************)
EXTENDS Outcomes, TLAPS, FiniteSetTheorems

-----------------------------------------------------------------------------
(* What an answer counts as. *)

Whole(a) == a.body \notin {"cut", "endless"}
Came(a) == a.head \notin {"refused", "silent"}

\* What AsDocumented and SuccessIsServed ask of one call.
Fits(path, a, o) ==
    /\ path \in {"task", "fixedSlot"} /\ (~Came(a) \/ Whole(a)) =>
         /\ o.kind \in Documented(path, a)
         /\ o.status = "skipped" <=> Neutral(path, a)
    /\ o.status = "success" =>
         /\ a.head = "ok"
         /\ a.body = "valid" \/ (a.body = "old" /\ path \notin {"task", "fixedSlot"})

\* The labels a call may be counted with are labels.
LEMMA OutcomeType ==
    /\ Success \in Outcome /\ Skipped \in Outcome
    /\ \A k \in ErrorKinds : Error(k) \in Outcome
    /\ [status |-> "skipped", kind |-> "http_429"] \in Outcome
    /\ [status |-> "skipped", kind |-> "http_4xx"] \in Outcome
  BY DEF Success, Skipped, Error, Outcome, Statuses, ErrorKinds

\* The two paths' judgement of a complete answer.
LEMMA JudgedFits ==
    ASSUME NEW path \in Paths, NEW a \in Answer, Whole(a), Came(a)
    PROVE  /\ path \in {"task", "fixedSlot"} =>
                Classify(path, a) \in Outcome /\ Fits(path, a, Classify(path, a))
           /\ path \notin {"task", "fixedSlot"} =>
                Timed(path, a) \in Outcome /\ Fits(path, a, Timed(path, a))
<1>1. /\ a.head \in {"ok", "429", "4xx", "5xx", "other"}
      /\ a.body \in {"garbled", "skipped", "error", "null", "hollow", "old", "valid"}
  BY DEF Answer, Heads, Bodies, Whole, Came
<1>2. ASSUME path \in {"task", "fixedSlot"}
      PROVE  Classify(path, a) \in Outcome /\ Fits(path, a, Classify(path, a))
  <2>1. CASE a.head # "ok"
    <3>1. Classify(path, a) = Http(a.head)
      BY <2>1 DEF Classify
    <3>2. CASE a.head = "429"
      <4>1. Http(a.head) = [status |-> "skipped", kind |-> "http_429"]
        BY <3>2 DEF Http
      <4> QED BY <3>1, <3>2, <4>1, OutcomeType DEF Fits, Documented, Neutral
    <3>3. CASE a.head = "4xx"
      <4>1. Http(a.head) = [status |-> "skipped", kind |-> "http_4xx"]
        BY <3>3 DEF Http
      <4> QED BY <3>1, <3>3, <4>1, OutcomeType DEF Fits, Documented, Neutral
    <3>4. CASE a.head = "5xx"
      <4>1. Http(a.head) = Error("http_5xx")
        BY <3>4 DEF Http
      <4> QED
        BY <3>1, <3>4, <4>1, OutcomeType DEF Fits, Documented, Neutral, Error, ErrorKinds
    <3>5. CASE a.head = "other"
      <4>1. Http(a.head) = Error("http_status")
        BY <3>5 DEF Http
      <4> QED
        BY <3>1, <3>5, <4>1, OutcomeType DEF Fits, Documented, Neutral, Error, ErrorKinds
    <3> QED BY <1>1, <2>1, <3>2, <3>3, <3>4, <3>5
  <2>2. CASE a.head = "ok"
    <3>1. CASE a.body = "garbled"
      <4>1. Classify(path, a) = Error("decode")
        BY <2>2, <3>1 DEF Classify
      <4> QED
        BY <2>2, <3>1, <4>1, OutcomeType DEF Fits, Documented, Neutral, Error, ErrorKinds
    <3>2. CASE a.body = "skipped"
      <4>1. Classify(path, a) = IF path = "fixedSlot" THEN Skipped ELSE Error("rpc_slot_skipped")
        BY <2>2, <3>2 DEF Classify
      <4>2. CASE path = "fixedSlot"
        BY <2>2, <3>2, <4>1, <4>2, OutcomeType DEF Fits, Documented, Neutral, Skipped
      <4>3. CASE path # "fixedSlot"
        BY <1>2, <2>2, <3>2, <4>1, <4>3, OutcomeType
           DEF Fits, Documented, Neutral, Error, ErrorKinds
      <4> QED BY <4>2, <4>3
    <3>3. CASE a.body = "error"
      <4>1. Classify(path, a) = Error("rpc_error")
        BY <2>2, <3>3 DEF Classify
      <4> QED
        BY <2>2, <3>3, <4>1, OutcomeType DEF Fits, Documented, Neutral, Error, ErrorKinds
    <3>4. CASE a.body \in {"null", "hollow"}
      <4>1. Classify(path, a) = Error("empty")
        BY <2>2, <3>4 DEF Classify
      <4> QED
        BY <2>2, <3>4, <4>1, OutcomeType DEF Fits, Documented, Neutral, Error, ErrorKinds
    <3>5. CASE a.body = "old"
      <4>1. Classify(path, a) = Error("stale")
        BY <2>2, <3>5 DEF Classify
      <4> QED
        BY <2>2, <3>5, <4>1, OutcomeType DEF Fits, Documented, Neutral, Error, ErrorKinds
    <3>6. CASE a.body = "valid"
      <4>1. Classify(path, a) = Success
        BY <2>2, <3>6 DEF Classify
      <4> QED
        BY <2>2, <3>6, <4>1, OutcomeType DEF Fits, Documented, Neutral, Success
    <3> QED BY <1>1, <3>1, <3>2, <3>3, <3>4, <3>5, <3>6
  <2> QED BY <2>1, <2>2
<1>3. ASSUME path \notin {"task", "fixedSlot"}
      PROVE  Timed(path, a) \in Outcome /\ Fits(path, a, Timed(path, a))
  <2>1. \/ \E k \in ErrorKinds : Timed(path, a) = Error(k)
        \/ Timed(path, a) = Skipped
        \/ Timed(path, a) = Success /\ a.head = "ok" /\ a.body \in {"old", "valid"}
    <3>1. CASE a.head # "ok" \/ a.body = "garbled"
      <4>1. Timed(path, a) = Error("transport")
        BY <3>1 DEF Timed
      <4> QED BY <4>1 DEF ErrorKinds
    <3>2. CASE a.head = "ok" /\ a.body = "skipped"
      <4>1. Timed(path, a) =
              IF path = "archivalBlock" THEN Skipped ELSE Error("rpc_slot_skipped")
        BY <3>2 DEF Timed
      <4> QED BY <4>1 DEF ErrorKinds
    <3>3. CASE a.head = "ok" /\ a.body = "error"
      <4>1. Timed(path, a) = Error("rpc_error")
        BY <3>3 DEF Timed
      <4> QED BY <4>1 DEF ErrorKinds
    <3>4. CASE a.head = "ok" /\ a.body = "null" /\ path = "archivalTx"
      <4>1. Timed(path, a) = Skipped
        BY <3>4 DEF Timed
      <4> QED BY <4>1
    <3>5. CASE a.head = "ok" /\ (a.body = "hollow" \/ (a.body = "null" /\ path # "archivalTx"))
      <4>1. Timed(path, a) = Error("empty")
        BY <3>5 DEF Timed
      <4> QED BY <4>1 DEF ErrorKinds
    <3>6. CASE a.head = "ok" /\ a.body \in {"old", "valid"}
      <4>1. Timed(path, a) = Success
        BY <3>6 DEF Timed
      <4> QED BY <3>6, <4>1
    <3> QED BY <1>1, <3>1, <3>2, <3>3, <3>4, <3>5, <3>6
  <2> QED
    BY <1>3, <2>1, OutcomeType DEF Fits, Success, Skipped, Error
<1> QED
  BY <1>2, <1>3

\* An exchange that failed: a timeout, a refused connection, a head or a body that
\* leads nowhere.
LEMMA FailureFits ==
    ASSUME NEW path \in Paths, NEW a \in Answer
    PROVE  /\ Error("transport") \in Outcome /\ Error("timeout") \in Outcome
           /\ a.head = "silent" /\ path \in {"task", "fixedSlot"} =>
                Fits(path, a, Error("timeout"))
           /\ a.head = "refused" => Fits(path, a, Error("transport"))
           /\ path \notin {"task", "fixedSlot"} => Fits(path, a, Error("transport"))
           /\ Came(a) /\ ~Whole(a) => Fits(path, a, Error("transport"))
<1>1. Error("transport") \in Outcome /\ Error("timeout") \in Outcome
  BY OutcomeType DEF ErrorKinds
<1>2. ASSUME a.head = "silent", path \in {"task", "fixedSlot"}
      PROVE  Fits(path, a, Error("timeout"))
  BY <1>2 DEF Fits, Documented, Neutral, Error
<1>3. ASSUME a.head = "refused" PROVE Fits(path, a, Error("transport"))
  BY <1>3 DEF Fits, Documented, Neutral, Error
<1>4. ASSUME path \notin {"task", "fixedSlot"} PROVE Fits(path, a, Error("transport"))
  BY <1>4 DEF Fits, Error
<1>5. ASSUME Came(a), ~Whole(a) PROVE Fits(path, a, Error("transport"))
  BY <1>5 DEF Fits, Error
<1> QED
  BY <1>1, <1>2, <1>3, <1>4, <1>5

-----------------------------------------------------------------------------
(* The invariant. *)

CallInv(c) ==
    /\ pc[c] \in {"idle", "sent", "body"} => age[c] <= Deadline
    /\ pc[c] \in {"idle", "sent"} => got[c] = Nothing
    /\ pc[c] = "body" => got[c].body = "endless"
    /\ pc[c] \in {"body", "gate", "parse"} =>
         Came(got[c]) /\ (got[c].head = "ok" \/ IsTask(c))
    /\ pc[c] \in {"gate", "parse"} => Whole(got[c])
    /\ Counting(c) => Fits(cast[c], got[c], outcome[c])

IInv == TypeOK /\ \A c \in Caller : CallInv(c)

\* An answer keeps its type as its parts come in.
LEMMA AnswerType ==
    /\ Nothing \in Answer
    /\ \A h \in Heads : [Nothing EXCEPT !.head = h] \in Answer
    /\ \A a \in Answer, b \in Bodies : [a EXCEPT !.body = b] \in Answer
  BY DEF Nothing, Answer, Heads, Bodies

\* The parsers, as a set.
Parsers == {c \in Caller : pc[c] = "parse"}

\* Nobody new parses: no more than before do.
LEMMA ParsersShrink ==
    ASSUME Cardinality(Parsers) <= Permits, Parsers' \subseteq Parsers
    PROVE  Cardinality(Parsers') <= Permits
<1>1. IsFiniteSet(Parsers) /\ IsFiniteSet(Parsers')
  BY FS_Subset, OutcomesAssumption DEF Parsers
<1>2. /\ Cardinality(Parsers') <= Cardinality(Parsers)
      /\ Cardinality(Parsers) \in Nat /\ Cardinality(Parsers') \in Nat
  BY <1>1, FS_Subset, FS_CardinalityType
<1> QED
  BY <1>2, OutcomesAssumption

\* At first no call is under way.
LEMMA InitInv == Init => IInv
<1> SUFFICES ASSUME Init PROVE IInv
  OBVIOUS
<1>1. Deadline \in Nat /\ MaxAge \in Nat /\ 0 \in 0 .. MaxAge /\ 0 \in 0 .. Deadline
  BY OutcomesAssumption
<1>2. {c \in Caller : pc[c] = "parse"} = {}
  BY DEF Init
<1>3. Cardinality({c \in Caller : pc[c] = "parse"}) <= Permits
  BY <1>2, FS_EmptySet, OutcomesAssumption
<1>4. TypeOK
  BY <1>1, <1>3, AnswerType, OutcomeType DEF Init, TypeOK
<1>5. \A c \in Caller : CallInv(c)
  BY <1>1 DEF Init, CallInv, Counting
<1> QED
  BY <1>4, <1>5 DEF IInv

\* A step of one caller: it is enough to look at that caller, at who parses and
\* at the types.
LEMMA OneCaller ==
    ASSUME IInv, NEW c \in Caller, UNCHANGED <<cast, provider>>,
           NEW l \in {"idle", "sent", "body", "gate", "parse", "count", "gauge"},
           NEW g \in 0 .. MaxAge, NEW a \in Answer, NEW r \in 0 .. Deadline,
           NEW y \in 0 .. MaxAge, NEW o \in Outcome,
           pc' = [pc EXCEPT ![c] = l], age' = [age EXCEPT ![c] = g],
           got' = [got EXCEPT ![c] = a], arrived' = [arrived EXCEPT ![c] = r],
           latency' = [latency EXCEPT ![c] = y], outcome' = [outcome EXCEPT ![c] = o],
           up' \in BOOLEAN,
           l = "parse" => Cardinality(Parsers') <= Permits,
           CallInv(c)'
    PROVE  IInv'
<1>1. Cardinality(Parsers') <= Permits
  <2>1. CASE l # "parse"
    <3>1. Parsers' \subseteq Parsers
      BY <2>1 DEF IInv, TypeOK, Parsers
    <3> QED BY <3>1, ParsersShrink DEF IInv, TypeOK, Parsers
  <2> QED BY <2>1
<1>2. TypeOK'
  BY <1>1 DEF IInv, TypeOK, Parsers
<1>3. ASSUME NEW d \in Caller, d # c PROVE CallInv(d)'
  BY <1>3 DEF IInv, TypeOK, CallInv, Counting, IsTask
<1> QED
  BY <1>2, <1>3 DEF IInv

\* What a step of one caller leaves alone is what it was for that caller.
LEMMA Unchanged ==
    ASSUME IInv, NEW c \in Caller
    PROVE  /\ age[c] \in 0 .. MaxAge /\ got[c] \in Answer /\ arrived[c] \in 0 .. Deadline
           /\ latency[c] \in 0 .. MaxAge /\ outcome[c] \in Outcome /\ cast[c] \in Paths
           /\ pc \in [Caller -> {"idle", "sent", "body", "gate", "parse", "count", "gauge"}]
           /\ provider \in Answer /\ up \in BOOLEAN
           /\ age = [age EXCEPT ![c] = age[c]] /\ got = [got EXCEPT ![c] = got[c]]
           /\ arrived = [arrived EXCEPT ![c] = arrived[c]]
           /\ latency = [latency EXCEPT ![c] = latency[c]]
           /\ outcome = [outcome EXCEPT ![c] = outcome[c]]
  BY OutcomesAssumption DEF IInv, TypeOK

\* An exchange that ends within the deadline with an outcome that fits.
LEMMA EndsInv ==
    ASSUME IInv, NEW c \in Caller, pc[c] \in {"sent", "body"},
           NEW a \in Answer, NEW o \in Outcome, Ends(c, a, o), Fits(cast[c], a, o)
    PROVE  IInv'
<1>1. age[c] \in 0 .. MaxAge /\ age[c] <= Deadline /\ age[c] \in 0 .. Deadline
  BY Unchanged, OutcomesAssumption DEF IInv, CallInv
<1>2. /\ pc' = [pc EXCEPT ![c] = "count"] /\ got' = [got EXCEPT ![c] = a]
      /\ arrived' = [arrived EXCEPT ![c] = age[c]] /\ latency' = [latency EXCEPT ![c] = age[c]]
      /\ outcome' = [outcome EXCEPT ![c] = o] /\ age' = [age EXCEPT ![c] = age[c]]
      /\ UNCHANGED <<cast, provider>> /\ up' \in BOOLEAN
  BY Unchanged DEF Ends, Goto
<1>3. pc'[c] = "count" /\ got'[c] = a /\ outcome'[c] = o /\ cast' = cast
  BY <1>2 DEF IInv, TypeOK
<1>4. CallInv(c)'
  BY <1>3 DEF CallInv, Counting
<1> QED
  BY <1>1, <1>2, <1>4, OneCaller

\* Time passes for all; no exchange outgrows its deadline.
LEMMA TickInv == ASSUME IInv, Tick PROVE IInv'
<1>0. /\ Deadline \in Nat /\ MaxAge \in Nat /\ Deadline <= MaxAge
      /\ UNCHANGED <<cast, provider, pc, got, arrived, latency, outcome, up>>
      /\ \A c \in Caller : age[c] \in 0 .. MaxAge
  BY OutcomesAssumption, Unchanged DEF Tick
<1>1. ASSUME NEW c \in Caller
      PROVE  /\ age'[c] \in 0 .. MaxAge
             /\ pc[c] \in {"idle", "sent", "body"} => age'[c] <= Deadline
  <2>1. age'[c] = IF Running(c) /\ age[c] < MaxAge THEN age[c] + 1 ELSE age[c]
    BY DEF Tick
  <2>2. pc[c] \in {"sent", "body"} => age[c] < Deadline
    BY DEF Tick
  <2>3. pc[c] = "idle" => age'[c] = age[c] /\ age[c] <= Deadline
    BY <2>1 DEF Running, IInv, CallInv
  <2>4. age[c] \in 0 .. MaxAge
    BY <1>0
  <2>5. age'[c] \in 0 .. MaxAge
    BY <1>0, <2>1, <2>4
  <2>6. pc[c] \in {"sent", "body"} => age'[c] <= Deadline
    BY <1>0, <2>1, <2>2, <2>4
  <2> QED BY <2>3, <2>5, <2>6
<1>2. age' \in [Caller -> 0 .. MaxAge]
  BY <1>1 DEF Tick
<1>3. TypeOK'
  BY <1>0, <1>2 DEF IInv, TypeOK
<1>4. ASSUME NEW c \in Caller PROVE CallInv(c)'
  BY <1>0, <1>1 DEF IInv, CallInv, Counting, IsTask
<1> QED
  BY <1>3, <1>4 DEF IInv

\* Every step of one caller keeps the invariant.
LEMMA StepInv == ASSUME IInv, NEW c \in Caller, Step(c) \/ Acquire(c) PROVE IInv'
<1>0. /\ CallInv(c) /\ cast[c] \in Paths /\ provider \in Answer
      /\ Deadline \in Nat /\ MaxAge \in Nat /\ Deadline <= MaxAge
  BY Unchanged, OutcomesAssumption DEF IInv
<1> USE DEF Goto, call
<1>1. ASSUME NEW l \in {"sent", "body", "gate", "parse", "gauge"}, NEW a \in Answer,
             pc' = [pc EXCEPT ![c] = l], got' = [got EXCEPT ![c] = a],
             UNCHANGED <<cast, provider, age, arrived, latency, outcome, up>>,
             l = "sent" => age[c] <= Deadline /\ a = Nothing,
             l = "body" => age[c] <= Deadline /\ a.body = "endless",
             l \in {"body", "parse"} => Came(a) /\ (a.head = "ok" \/ IsTask(c)),
             l = "parse" => Whole(a) /\ Cardinality(Parsers') <= Permits,
             l = "gauge" => Fits(cast[c], a, outcome[c]),
             l # "gate"
      PROVE  IInv'
  <2>1. pc'[c] = l /\ got'[c] = a
    BY <1>1, Unchanged DEF IInv, TypeOK
  <2>2. CallInv(c)'
    BY <1>1, <2>1 DEF CallInv, Counting, IsTask
  <2>3. /\ age' = [age EXCEPT ![c] = age[c]] /\ arrived' = [arrived EXCEPT ![c] = arrived[c]]
        /\ latency' = [latency EXCEPT ![c] = latency[c]]
        /\ outcome' = [outcome EXCEPT ![c] = outcome[c]]
        /\ age[c] \in 0 .. MaxAge /\ arrived[c] \in 0 .. Deadline
        /\ latency[c] \in 0 .. MaxAge /\ outcome[c] \in Outcome /\ up' \in BOOLEAN
    BY <1>1, Unchanged
  <2> HIDE DEF Goto, call
  <2>4. l = "parse" => Cardinality(Parsers') <= Permits
    BY <1>1
  <2>5. /\ UNCHANGED <<cast, provider>> /\ pc' = [pc EXCEPT ![c] = l]
        /\ got' = [got EXCEPT ![c] = a]
        /\ l \in {"idle", "sent", "body", "gate", "parse", "count", "gauge"}
    BY <1>1
  <2> QED BY <2>2, <2>3, <2>4, <2>5, OneCaller
<1>2. CASE Send(c)
  <2>1. /\ pc[c] = "idle" /\ pc' = [pc EXCEPT ![c] = "sent"]
        /\ UNCHANGED <<cast, provider, age, got, arrived, latency, outcome, up>>
    BY <1>2 DEF Send
  <2>2. got' = [got EXCEPT ![c] = Nothing] /\ age[c] <= Deadline
    BY <1>0, <2>1, Unchanged DEF CallInv
  <2> QED BY <1>1, <2>1, <2>2, AnswerType
<1>3. CASE Timeout(c)
  <2>1. CASE IsTask(c)
    <3>1. Ends(c, Nothing, Error("timeout")) /\ pc[c] = "sent"
      BY <1>3, <2>1 DEF Timeout
    <3>2. Fits(cast[c], Nothing, Error("timeout")) /\ Error("timeout") \in Outcome
      BY <1>0, <2>1, AnswerType, FailureFits DEF IsTask, Nothing
    <3> QED BY <3>1, <3>2, EndsInv, AnswerType
  <2>2. CASE ~IsTask(c)
    <3>1. Ends(c, Nothing, Error("transport")) /\ pc[c] = "sent"
      BY <1>3, <2>2 DEF Timeout
    <3>2. Fits(cast[c], Nothing, Error("transport")) /\ Error("transport") \in Outcome
      BY <1>0, <2>2, AnswerType, FailureFits DEF IsTask
    <3> QED BY <3>1, <3>2, EndsInv, AnswerType
  <2> QED BY <2>1, <2>2
<1>4. CASE Refused(c)
  <2> DEFINE a == [Nothing EXCEPT !.head = "refused"]
  <2>1. a \in Answer /\ a.head = "refused"
    BY AnswerType DEF Heads, Nothing
  <2>2. Ends(c, a, Error("transport")) /\ pc[c] = "sent"
    BY <1>4 DEF Refused
  <2> HIDE DEF a
  <2>3. Fits(cast[c], a, Error("transport")) /\ Error("transport") \in Outcome
    BY <1>0, <2>1, FailureFits
  <2> QED BY <2>1, <2>2, <2>3, EndsInv
<1>5. CASE Head(c)
  <2> DEFINE a == [Nothing EXCEPT !.head = provider.head]
  <2>1. /\ a \in Answer /\ a.head = provider.head /\ a.body = "endless" /\ Came(a)
        /\ ~Whole(a) /\ pc[c] = "sent"
    BY <1>0, <1>5, AnswerType DEF Head, Nothing, Came, Whole, Answer
  <2>2. \/ Ends(c, a, Error("transport"))
        \/ /\ pc' = [pc EXCEPT ![c] = "body"] /\ got' = [got EXCEPT ![c] = a]
           /\ UNCHANGED <<cast, provider, age, arrived, latency, outcome, up>>
           /\ provider.head = "ok" \/ IsTask(c)
    BY <1>5 DEF Head
  <2> HIDE DEF a
  <2>3. Fits(cast[c], a, Error("transport")) /\ Error("transport") \in Outcome
    BY <1>0, <2>1, FailureFits
  <2>4. age[c] <= Deadline
    BY <1>0, <2>1 DEF CallInv
  <2> QED BY <1>1, <2>1, <2>2, <2>3, <2>4, EndsInv
<1>6. ASSUME pc[c] = "body", NEW b \in Bodies
      PROVE  /\ [got[c] EXCEPT !.body = b] \in Answer
             /\ [got[c] EXCEPT !.body = b].head = got[c].head
             /\ [got[c] EXCEPT !.body = b].body = b
             /\ Came([got[c] EXCEPT !.body = b])
  BY <1>0, <1>6, AnswerType, Unchanged DEF CallInv, Came, Answer
<1>7. CASE BodyFails(c)
  <2> DEFINE a == [got[c] EXCEPT !.body = provider.body]
  <2>1. /\ pc[c] = "body" /\ provider.body \in {"cut", "endless"}
        /\ Ends(c, a, Error("transport"))
    BY <1>7 DEF BodyFails
  <2>2. a \in Answer /\ Came(a) /\ ~Whole(a)
    BY <1>0, <1>6, <2>1 DEF Answer, Whole
  <2> HIDE DEF a
  <2>3. Fits(cast[c], a, Error("transport")) /\ Error("transport") \in Outcome
    BY <1>0, <2>2, FailureFits
  <2> QED BY <2>1, <2>2, <2>3, EndsInv
<1>8. ASSUME NEW a \in Answer, Whole(a), Came(a)
      PROVE  Judged(c, a) \in Outcome /\ Fits(cast[c], a, Judged(c, a))
  BY <1>0, <1>8, JudgedFits DEF Judged, IsTask
<1>9. CASE BodySmall(c)
  <2> DEFINE a == [got[c] EXCEPT !.body = provider.body]
  <2>1. /\ pc[c] = "body" /\ provider.body \notin {"cut", "endless"}
        /\ Ends(c, a, Judged(c, a))
    BY <1>9 DEF BodySmall, Arrives
  <2>2. a \in Answer /\ Came(a) /\ Whole(a)
    BY <1>0, <1>6, <2>1 DEF Answer, Whole
  <2> HIDE DEF a
  <2> QED BY <1>8, <2>1, <2>2, EndsInv
<1>10. CASE BodyLarge(c)
  <2> DEFINE a == [got[c] EXCEPT !.body = provider.body]
  <2>1. /\ pc[c] = "body" /\ provider.body \notin {"cut", "endless"}
        /\ pc' = [pc EXCEPT ![c] = "gate"] /\ got' = [got EXCEPT ![c].body = provider.body]
        /\ arrived' = [arrived EXCEPT ![c] = age[c]]
        /\ UNCHANGED <<cast, provider, age, latency, outcome, up>>
    BY <1>10 DEF BodyLarge, Arrives
  <2>2. /\ a \in Answer /\ Came(a) /\ Whole(a) /\ a.head = got[c].head
        /\ got' = [got EXCEPT ![c] = a]
    BY <1>0, <1>6, <2>1 DEF Answer, Whole
  <2> HIDE DEF a
  <2>3. age[c] \in 0 .. Deadline
    BY <1>0, <2>1, Unchanged DEF CallInv
  <2>4. pc'[c] = "gate" /\ got'[c] = a
    BY <2>1, <2>2, Unchanged DEF IInv, TypeOK
  <2>5. CallInv(c)'
    BY <1>0, <2>1, <2>2, <2>4 DEF CallInv, Counting, IsTask
  <2>6. /\ age' = [age EXCEPT ![c] = age[c]]
        /\ latency' = [latency EXCEPT ![c] = latency[c]]
        /\ outcome' = [outcome EXCEPT ![c] = outcome[c]]
        /\ age[c] \in 0 .. MaxAge /\ latency[c] \in 0 .. MaxAge
        /\ outcome[c] \in Outcome /\ up' \in BOOLEAN
    BY <2>1, Unchanged
  <2> HIDE DEF Goto, call
  <2>7. /\ UNCHANGED <<cast, provider>> /\ pc' = [pc EXCEPT ![c] = "gate"]
        /\ got' = [got EXCEPT ![c] = a] /\ arrived' = [arrived EXCEPT ![c] = age[c]]
        /\ a \in Answer
    BY <2>1, <2>2
  <2> QED BY <2>3, <2>5, <2>6, <2>7, OneCaller
<1>11. CASE Acquire(c)
  <2>1. /\ pc[c] = "gate" /\ Cardinality(Parsers) < Permits
        /\ pc' = [pc EXCEPT ![c] = "parse"]
        /\ UNCHANGED <<cast, provider, age, got, arrived, latency, outcome, up>>
    BY <1>11 DEF Acquire, Parsers
  <2>2. Parsers' = Parsers \cup {c} /\ c \notin Parsers
    BY <2>1, Unchanged DEF Parsers
  <2>3. IsFiniteSet(Parsers)
    BY FS_Subset, OutcomesAssumption DEF Parsers
  <2>4. Cardinality(Parsers \cup {c}) = Cardinality(Parsers) + 1
        /\ Cardinality(Parsers) \in Nat
    BY <2>2, <2>3, FS_AddElement, FS_CardinalityType
  <2>5. Cardinality(Parsers') <= Permits
    BY <2>1, <2>2, <2>4, OutcomesAssumption
  <2>6. got' = [got EXCEPT ![c] = got[c]] /\ got[c] \in Answer
    BY <2>1, Unchanged
  <2> QED BY <1>0, <1>1, <2>1, <2>5, <2>6 DEF CallInv
<1>12. CASE Parsed(c)
  <2>1. /\ pc[c] = "parse" /\ pc' = [pc EXCEPT ![c] = "count"]
        /\ latency' = [latency EXCEPT ![c] = Latency(c)]
        /\ outcome' = [outcome EXCEPT ![c] = Judged(c, got[c])]
        /\ UNCHANGED <<cast, provider, age, got, arrived, up>>
    BY <1>12 DEF Parsed
  <2>2. Came(got[c]) /\ Whole(got[c]) /\ got[c] \in Answer
    BY <1>0, <2>1, Unchanged DEF CallInv
  <2>3. Judged(c, got[c]) \in Outcome /\ Fits(cast[c], got[c], Judged(c, got[c]))
    BY <1>8, <2>2
  <2>4. Latency(c) \in 0 .. MaxAge
    BY <1>0, Unchanged DEF Latency
  <2>5. pc'[c] = "count" /\ outcome'[c] = Judged(c, got[c])
    BY <2>1, Unchanged DEF IInv, TypeOK
  <2>6. CallInv(c)'
    BY <2>1, <2>3, <2>5 DEF CallInv, Counting
  <2>7. /\ age' = [age EXCEPT ![c] = age[c]] /\ got' = [got EXCEPT ![c] = got[c]]
        /\ arrived' = [arrived EXCEPT ![c] = arrived[c]]
        /\ age[c] \in 0 .. MaxAge /\ arrived[c] \in 0 .. Deadline /\ up' \in BOOLEAN
    BY <2>1, Unchanged
  <2> HIDE DEF Goto, call
  <2> QED BY <2>1, <2>2, <2>3, <2>4, <2>6, <2>7, OneCaller
<1>13. CASE Count(c)
  <2>1. /\ pc[c] = "count" /\ pc' = [pc EXCEPT ![c] = "gauge"]
        /\ UNCHANGED <<cast, provider, age, got, arrived, latency, outcome, up>>
    BY <1>13 DEF Count
  <2>2. got' = [got EXCEPT ![c] = got[c]] /\ got[c] \in Answer
    BY <2>1, Unchanged
  <2>3. Fits(cast[c], got[c], outcome[c])
    BY <1>0, <2>1 DEF CallInv, Counting
  <2> QED BY <1>1, <2>1, <2>2, <2>3
<1>14. CASE SetUp(c)
  <2>1. /\ pc' = [pc EXCEPT ![c] = "idle"] /\ age' = [age EXCEPT ![c] = 0]
        /\ got' = [got EXCEPT ![c] = Nothing] /\ arrived' = [arrived EXCEPT ![c] = 0]
        /\ latency' = [latency EXCEPT ![c] = 0] /\ outcome' = [outcome EXCEPT ![c] = Skipped]
        /\ up' \in BOOLEAN /\ UNCHANGED <<cast, provider>>
    BY <1>14 DEF SetUp
  <2>2. pc'[c] = "idle" /\ age'[c] = 0 /\ got'[c] = Nothing
    BY <2>1, Unchanged DEF IInv, TypeOK
  <2>3. CallInv(c)'
    BY <1>0, <2>2 DEF CallInv, Counting
  <2>4. 0 \in 0 .. MaxAge /\ 0 \in 0 .. Deadline
    BY <1>0
  <2> QED BY <2>1, <2>3, <2>4, OneCaller, AnswerType, OutcomeType
<1> QED
  BY <1>2, <1>3, <1>4, <1>5, <1>7, <1>9, <1>10, <1>11, <1>12, <1>13, <1>14 DEF Step

\* Every step keeps the invariant.
LEMMA NextInv == IInv /\ [Next]_vars => IInv'
<1> SUFFICES ASSUME IInv, [Next]_vars PROVE IInv'
  OBVIOUS
<1>1. CASE Change
  BY <1>1 DEF Change, call, IInv, TypeOK, CallInv, Counting, IsTask
<1>2. CASE UNCHANGED vars
  BY <1>2 DEF vars, call, IInv, TypeOK, CallInv, Counting, IsTask
<1> QED
  BY <1>1, <1>2, StepInv, TickInv DEF Next

\* The invariant holds throughout.
LEMMA Invariant == Spec => []IInv
  BY InitInv, NextInv, PTL DEF Spec

-----------------------------------------------------------------------------
\* Every variable has its type, and no more bodies are parsed at once than there
\* are permits, whatever the number of callers.
THEOREM TypeCorrect == Spec => []TypeOK
<1>1. IInv => TypeOK
  BY DEF IInv
<1> QED BY <1>1, Invariant, PTL

\* A call counts as a success only if a complete, valid answer came within the
\* deadline, on either path.
THEOREM OnlyServedSucceeds == Spec => []SuccessIsServed
<1>1. IInv => SuccessIsServed
  <2> SUFFICES ASSUME IInv, NEW c \in Caller, Counting(c), outcome[c].status = "success"
               PROVE  /\ got[c].head = "ok"
                      /\ got[c].body = "valid" \/ (got[c].body = "old" /\ ~IsTask(c))
                      /\ arrived[c] <= Deadline
    BY DEF SuccessIsServed
  <2>1. Fits(cast[c], got[c], outcome[c])
    BY DEF IInv, CallInv
  <2>2. arrived[c] <= Deadline
    BY Unchanged, OutcomesAssumption
  <2> QED BY <2>1, <2>2 DEF Fits, IsTask
<1> QED BY <1>1, Invariant, PTL

\* A check task's call is counted with the kind docs/error-kinds.md gives its
\* answer, and as neutral exactly if that is, however the provider changes.
THEOREM CountedAsDocumented == Spec => []AsDocumented
<1>1. IInv => AsDocumented
  <2> SUFFICES ASSUME IInv, NEW c \in Caller, IsTask(c), Counting(c),
                      got[c].head \in {"refused", "silent"}
                        \/ got[c].body \notin {"cut", "endless"}
               PROVE  /\ outcome[c].kind \in Documented(cast[c], got[c])
                      /\ outcome[c].status = "skipped" <=> Neutral(cast[c], got[c])
    BY DEF AsDocumented
  <2>1. Fits(cast[c], got[c], outcome[c])
    BY DEF IInv, CallInv
  <2> QED BY <2>1 DEF Fits, IsTask, Came, Whole
<1> QED BY <1>1, Invariant, PTL

\* Both together, for calls of either path.
THEOREM CountsAreTrue == Spec => []CountedTruly
<1>1. AsDocumented /\ SuccessIsServed => CountedTruly
  BY DEF CountedTruly
<1> QED BY <1>1, CountedAsDocumented, OnlyServedSucceeds, PTL
=============================================================================
