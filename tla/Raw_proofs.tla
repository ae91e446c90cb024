----------------------------- MODULE Raw_proofs -----------------------------
(***************************************************************************)
(* Theorems about RawApi, for any number of requests and holders, every    *)
(* limit, window and granularity of the clock; about RawQuery, for any     *)
(* calendar and any limits; and about RawAnswer, for any number of series, *)
(* quantiles and timestamps and whatever their values.                     *)
(*                                                                         *)
(* The argument: the requests let in are logged with the window that they  *)
(* were counted in.  The last count entries are those of the open window,  *)
(* earlier ones belong to windows that ended before it opened; so entries  *)
(* a limit apart lie in different windows, and windows do not overlap.     *)
(* All else about time is one fact on division: whole seconds are below    *)
(* the window exactly as long as ticks are below the window's ticks.       *)
(*                                                                         *)
(* The timestamps of a query are numbered by whole steps from its start,   *)
(* so there are no more of them than RangeOf \div Step + 1; and the step    *)
(* that is chosen, times the target, covers the range.  The places where a *)
(* list names a quantile first are numbered one to one.                    *)
(*                                                                         *)
(* The loops that make an answer are functions of how far they have come:  *)
(* LoopRuns gives them a value at every length, and AtEveryLength what is   *)
(* so at each.  After n series someone leads wherever one of them has a    *)
(* point, and no lower point is there; a provider has one row at most, so  *)
(* the sets of timestamps that are won are disjoint and make up the whole. *)
(***************************************************************************)
EXTENDS RawApi, RawQuery, RawAnswer, TLAPS, FiniteSetTheorems, WellFoundedInduction

-----------------------------------------------------------------------------
(* Arithmetic. *)

\* What Euclidean division by a positive number means.
LEMMA DivBounds ==
    ASSUME NEW x \in Nat, NEW d \in Nat \ {0}
    PROVE  /\ x \div d \in Nat
           /\ d * (x \div d) <= x
           /\ x < d * (x \div d) + d
OBVIOUS

\* Multiples of a positive number lie at least that number apart.
LEMMA MultiplesApart ==
    ASSUME NEW a \in Nat, NEW b \in Nat, NEW d \in Nat \ {0}
    PROVE  /\ d * a \in Nat /\ d * b \in Nat
           /\ a + 1 <= b => d * a + d <= d * b
           /\ a <= b => d * a <= d * b
OBVIOUS

\* Rounding down keeps a comparison with a multiple.
LEMMA FloorBelow ==
    ASSUME NEW x \in Nat, NEW y \in Nat, NEW d \in Nat \ {0}
    PROVE  x \div d < y <=> x < y * d
<1> DEFINE q == x \div d
<1>1. q \in Nat /\ d * q <= x /\ x < d * q + d
  BY DivBounds
<1>2. y * d = d * y
  OBVIOUS
<1> HIDE DEF q
<1>3. CASE q < y
  <2>1. d * q + d <= d * y /\ d * q \in Nat /\ d * y \in Nat
    BY <1>1, <1>3, MultiplesApart
  <2> QED BY <1>1, <1>2, <1>3, <2>1 DEF q
<1>4. CASE ~(q < y)
  <2>1. d * y <= d * q /\ d * q \in Nat /\ d * y \in Nat
    BY <1>1, <1>4, MultiplesApart
  <2> QED BY <1>1, <1>2, <1>4, <2>1 DEF q
<1> QED BY <1>3, <1>4

LEMMA SpanPositive == Span \in Nat /\ Span > 0
<1>1. \A x, y \in Nat \ {0} : x * y \in Nat /\ x * y > 0
  OBVIOUS
<1> QED BY <1>1, RawApiAssumption DEF Span

\* A holder's window is open until Span ticks after it opened.
LEMMA WindowLength ==
    ASSUME TypeOK, NEW s \in DOMAIN windows
    PROVE  InWindow(s) <=> now < windows[s].start + Span
<1> DEFINE a == windows[s].start
<1>1. a \in Nat /\ a <= now /\ now \in Nat
  BY DEF TypeOK
<1>2. now - a \in Nat
  BY <1>1
<1>3. (now - a) \div Second < Window <=> now - a < Window * Second
  BY <1>2, FloorBelow, RawApiAssumption
<1> QED BY <1>1, <1>3, SpanPositive DEF InWindow, Elapsed, Span

\* Retry-After never ends before the window does.
LEMMA RetryLongEnough ==
    ASSUME TypeOK, NEW s \in DOMAIN windows, InWindow(s)
    PROVE  /\ now + RetryAfter(s) * Second \in Nat
           /\ windows[s].start + Span <= now + RetryAfter(s) * Second
<1> DEFINE a == windows[s].start
           q == (now - a) \div Second
<1>1. a \in Nat /\ a <= now /\ now \in Nat
  BY DEF TypeOK
<1>2. now - a \in Nat
  BY <1>1
<1>3. q \in Nat /\ Second * q <= now - a
  BY <1>2, DivBounds, RawApiAssumption
<1>4. q < Window
  BY DEF InWindow, Elapsed
<1>5. RetryAfter(s) = Window - q
  BY DEF RetryAfter, Elapsed
<1> HIDE DEF q, a
<1>6. (Window - q) * Second = Window * Second - Second * q
  <2>1. \A x, y, z \in Int : (x - y) * z = x * z - z * y
    OBVIOUS
  <2> QED BY <1>3, <2>1, RawApiAssumption
<1>7. Second * q \in Nat
  <2>1. \A x, y \in Nat : x * y \in Nat
    OBVIOUS
  <2> QED BY <1>3, <2>1, RawApiAssumption
<1>8. now + RetryAfter(s) * Second = now + (Span - Second * q)
  BY <1>5, <1>6 DEF Span
<1>9. Second * q <= Span
  BY <1>3, <1>4, <1>6, MultiplesApart, RawApiAssumption DEF Span
<1>10. windows[s].start = a
  BY DEF a
<1> QED BY <1>1, <1>3, <1>7, <1>8, <1>9, <1>10, SpanPositive

\* What appending does to a sequence.
LEMMA Appended ==
    ASSUME NEW S, NEW q \in Seq(S), NEW e \in S
    PROVE  /\ Append(q, e) \in Seq(S)
           /\ Len(Append(q, e)) = Len(q) + 1
           /\ \A i \in 1 .. Len(q) : Append(q, e)[i] = q[i]
           /\ Append(q, e)[Len(q) + 1] = e
OBVIOUS

-----------------------------------------------------------------------------
(* Types. *)

Request == [pc : {"verify", "limit", "acquire", "query"},
            tok : [sub : Subs, signed : BOOLEAN],
            plan : Plans, left : 1 .. MaxQueries]

Entry == [at : Nat, start : Nat, own : BOOLEAN]

\* A request that is under way has a token.
LEMMA UnderWay ==
    ASSUME TypeOK, NEW r \in Requests, reqs[r] # Idle
    PROVE  reqs[r] \in Request
BY DEF TypeOK, Request

\* A slot is taken, or refused, for the holder that the token names.
Sub(r) == reqs[r].tok.sub

Opened(s) == IF InWindow(s) THEN [windows[s] EXCEPT !.count = @ + 1]
                            ELSE [start |-> now, count |-> 1]

LEMMA SlotTaken ==
    ASSUME TypeOK, NEW r \in Requests, TakeSlot(r), ~(InWindow(Sub(r)) /\ Full(Sub(r)))
    PROVE  LET s == Sub(r)  w == Opened(s) IN
           /\ s \in Subs
           /\ w.start \in 0 .. now /\ w.count \in 1 .. Limit
           /\ w = [start |-> w.start, count |-> w.count]
           /\ DOMAIN windows' = DOMAIN windows \cup {s}
           /\ windows'[s] = w
           /\ \A t \in DOMAIN windows \ {s} : windows'[t] = windows[t]
           /\ log' = LetIn(r, w)
           /\ reqs' = [reqs EXCEPT ![r].pc = "acquire"]
           /\ UNCHANGED <<now, permits, told>>
<1> DEFINE s == Sub(r)
           w == Opened(s)
<1>1. s \in Subs
  BY UnderWay DEF TakeSlot, Idle, Request, Sub
<1>2. now \in Nat
  BY DEF TypeOK
<1>3. /\ w.start \in 0 .. now /\ w.count \in 1 .. Limit
      /\ w = [start |-> w.start, count |-> w.count]
  <2>1. CASE InWindow(s)
    <3>1. s \in DOMAIN windows /\ windows[s] \in [start : 0 .. now, count : 1 .. Limit]
      BY <2>1 DEF InWindow, TypeOK
    <3>2. ~(windows[s].count >= Limit)
      BY <2>1 DEF Full
    <3>3. w = [windows[s] EXCEPT !.count = @ + 1]
      BY <2>1 DEF Opened
    <3> QED BY <3>1, <3>2, <3>3, RawApiAssumption
  <2>2. CASE ~InWindow(s)
    <3>1. w = [start |-> now, count |-> 1]
      BY <2>2 DEF Opened
    <3> QED BY <3>1, <1>2, RawApiAssumption
  <2> QED BY <2>1, <2>2
<1>4. /\ windows' = [t \in DOMAIN windows \cup {s} |-> IF t = s THEN w ELSE windows[t]]
      /\ log' = LetIn(r, w)
      /\ reqs' = [reqs EXCEPT ![r].pc = "acquire"]
      /\ UNCHANGED <<now, permits, told>>
  BY DEF TakeSlot, Sub, Opened
<1> HIDE DEF w
<1>5. /\ DOMAIN windows' = DOMAIN windows \cup {s}
      /\ windows'[s] = w
      /\ \A t \in DOMAIN windows \ {s} : windows'[t] = windows[t]
  BY <1>4
<1> QED BY <1>1, <1>3, <1>4, <1>5 DEF w

LEMMA SlotRefused ==
    ASSUME TypeOK, NEW r \in Requests, TakeSlot(r), InWindow(Sub(r)), Full(Sub(r))
    PROVE  LET s == Sub(r) IN
           /\ s \in Subs /\ s \in DOMAIN windows
           /\ DOMAIN told' = DOMAIN told \cup {s}
           /\ told'[s] = [at |-> now, until |-> now + RetryAfter(s) * Second]
           /\ \A t \in DOMAIN told \ {s} : told'[t] = told[t]
           /\ reqs' = [reqs EXCEPT ![r] = Idle]
           /\ UNCHANGED <<now, permits, windows, log>>
<1> DEFINE s == Sub(r)
<1>1. s \in Subs
  BY UnderWay DEF TakeSlot, Idle, Request, Sub
<1>2. /\ told' = [t \in DOMAIN told \cup {s} |->
                    IF t = s THEN [at |-> now, until |-> now + RetryAfter(s) * Second]
                             ELSE told[t]]
      /\ reqs' = [reqs EXCEPT ![r] = Idle]
      /\ UNCHANGED <<now, permits, windows, log>>
  BY DEF TakeSlot, Sub
<1> QED BY <1>1, <1>2 DEF InWindow

LEMMA ReqsType ==
    ASSUME TypeOK, [Next]_vars
    PROVE  reqs' \in [Requests -> {Idle} \cup Request]
<1>1. reqs \in [Requests -> {Idle} \cup Request]
  BY DEF TypeOK, Request
<1>2. CASE UNCHANGED vars
  BY <1>1, <1>2 DEF vars
<1>3. CASE Tick
  BY <1>1, <1>3 DEF Tick
<1>4. CASE Restart
  BY <1>4 DEF Restart
<1>5. ASSUME NEW r \in Requests, Arrive(r) PROVE reqs' \in [Requests -> {Idle} \cup Request]
  <2>1. PICK s \in Subs, signed \in BOOLEAN, plan \in Plans, n \in 1 .. MaxQueries :
           reqs' = [reqs EXCEPT ![r] = [pc |-> "verify", tok |-> [sub |-> s, signed |-> signed],
                                        plan |-> plan, left |-> n]]
    BY <1>5 DEF Arrive
  <2>2. [pc |-> "verify", tok |-> [sub |-> s, signed |-> signed],
         plan |-> plan, left |-> n] \in Request
    BY DEF Request
  <2> QED BY <1>1, <2>1, <2>2
<1>6. ASSUME NEW r \in Requests,
             \/ Handle(r) \/ Answer(r) \/ ClientGone(r)
      PROVE  reqs' \in [Requests -> {Idle} \cup Request]
  <2>1. reqs[r] \in Request
    <3>1. reqs[r] # Idle
      BY <1>6 DEF Handle, Verify, TakeSlot, Reject, Acquire, Busy, Answer, QueryOk,
                  QueryFails, ClientGone, Querying, Idle
    <3> QED BY <3>1, UnderWay
  <2>2. \E x \in {Idle} \cup Request : reqs' = [reqs EXCEPT ![r] = x]
    <3>1. ASSUME NEW pc \in {"verify", "limit", "acquire", "query"}
          PROVE  [reqs[r] EXCEPT !.pc = pc] \in Request
      BY <2>1 DEF Request
    <3>2. CASE Verify(r)
      <4>1. \/ reqs' = [reqs EXCEPT ![r] = [reqs[r] EXCEPT !.pc = "limit"]]
            \/ reqs' = [reqs EXCEPT ![r] = Idle]
        BY <1>1, <3>2 DEF Verify
      <4> QED BY <3>1, <4>1
    <3>3. CASE TakeSlot(r)
      <4>1. \/ reqs' = [reqs EXCEPT ![r] = [reqs[r] EXCEPT !.pc = "acquire"]]
            \/ reqs' = [reqs EXCEPT ![r] = Idle]
        BY <1>1, <3>3 DEF TakeSlot
      <4> QED BY <3>1, <4>1
    <3>4. CASE Acquire(r)
      <4>1. reqs' = [reqs EXCEPT ![r] = [reqs[r] EXCEPT !.pc = "query"]]
        BY <1>1, <3>4 DEF Acquire
      <4> QED BY <3>1, <4>1
    <3>5. CASE Reject(r) \/ Busy(r) \/ QueryFails(r) \/ ClientGone(r)
      BY <3>5 DEF Reject, Busy, QueryFails, ClientGone, Release
    <3>6. CASE QueryOk(r)
      <4>1. CASE reqs[r].left > 1
        <5>1. reqs' = [reqs EXCEPT ![r] = [reqs[r] EXCEPT !.left = reqs[r].left - 1]]
          BY <1>1, <3>6, <4>1 DEF QueryOk
        <5>2. reqs[r].left - 1 \in 1 .. MaxQueries
          <6>1. reqs[r].left \in 1 .. MaxQueries
            BY <2>1 DEF Request
          <6> QED BY <4>1, <6>1, RawApiAssumption
        <5>3. [reqs[r] EXCEPT !.left = reqs[r].left - 1] \in Request
          BY <2>1, <5>2 DEF Request
        <5> QED BY <5>1, <5>3
      <4>2. CASE ~(reqs[r].left > 1)
        BY <3>6, <4>2 DEF QueryOk, Release
      <4> QED BY <4>1, <4>2
    <3> QED BY <1>6, <3>2, <3>3, <3>4, <3>5, <3>6 DEF Handle, Answer
  <2> QED BY <1>1, <2>2
<1> QED BY <1>2, <1>3, <1>4, <1>5, <1>6 DEF Next

-----------------------------------------------------------------------------
(* Permits. *)

Upstream == {r \in Requests : Querying(r)}

\* A step starts a query with a permit, or ends one and returns it, or does neither.
LEMMA UpstreamChange ==
    ASSUME TypeOK, [Next]_vars
    PROVE  \/ Upstream' = Upstream /\ permits' = permits
           \/ Upstream' = {} /\ permits' = Permits
           \/ \E r \in Requests \ Upstream :
                 Upstream' = Upstream \cup {r} /\ permits > 0 /\ permits' = permits - 1
           \/ \E r \in Upstream : Upstream' = Upstream \ {r} /\ permits' = permits + 1
<1>1. reqs \in [Requests -> {Idle} \cup Request]
  BY DEF TypeOK, Request
<1>2. ASSUME NEW r \in Requests, \A q \in Requests \ {r} : reqs'[q] = reqs[q]
      PROVE  /\ reqs'[r].pc = "query" => Upstream' = Upstream \cup {r}
             /\ reqs'[r].pc # "query" => Upstream' = Upstream \ {r}
  BY <1>2 DEF Upstream, Querying
<1>3. CASE UNCHANGED vars
  BY <1>3 DEF vars, Upstream, Querying
<1>4. CASE Tick
  BY <1>4 DEF Tick, Upstream, Querying
<1>5. CASE Restart
  BY <1>5 DEF Restart, Upstream, Querying, Idle
<1>6. ASSUME NEW r \in Requests, Arrive(r)
      PROVE  Upstream' = Upstream /\ permits' = permits
  <2>1. /\ \A q \in Requests \ {r} : reqs'[q] = reqs[q]
        /\ reqs'[r].pc # "query" /\ permits' = permits
    BY <1>1, <1>6 DEF Arrive
  <2>2. r \notin Upstream
    BY <1>6 DEF Arrive, Upstream, Querying, Idle
  <2> QED BY <1>2, <2>1, <2>2
<1>7. ASSUME NEW r \in Requests, Verify(r) \/ TakeSlot(r)
      PROVE  Upstream' = Upstream /\ permits' = permits
  <2>1. r \notin Upstream /\ reqs[r] \in Request /\ permits' = permits
    BY <1>7, UnderWay DEF Verify, TakeSlot, Upstream, Querying, Idle
  <2>2. \/ reqs' = [reqs EXCEPT ![r] = Idle]
        \/ reqs' = [reqs EXCEPT ![r] = [reqs[r] EXCEPT !.pc = "limit"]]
        \/ reqs' = [reqs EXCEPT ![r] = [reqs[r] EXCEPT !.pc = "acquire"]]
    BY <1>1, <1>7 DEF Verify, TakeSlot
  <2>3. /\ [reqs[r] EXCEPT !.pc = "limit"].pc = "limit"
        /\ [reqs[r] EXCEPT !.pc = "acquire"].pc = "acquire"
    BY <2>1 DEF Request
  <2>4. reqs'[r].pc # "query" /\ \A q \in Requests \ {r} : reqs'[q] = reqs[q]
    <3>1. CASE reqs' = [reqs EXCEPT ![r] = Idle]
      BY <1>1, <3>1 DEF Idle
    <3>2. CASE reqs' = [reqs EXCEPT ![r] = [reqs[r] EXCEPT !.pc = "limit"]]
      BY <1>1, <2>3, <3>2
    <3>3. CASE reqs' = [reqs EXCEPT ![r] = [reqs[r] EXCEPT !.pc = "acquire"]]
      BY <1>1, <2>3, <3>3
    <3> QED BY <2>2, <3>1, <3>2, <3>3
  <2>5. Upstream' = Upstream \ {r}
    BY <1>2, <2>4
  <2> QED BY <2>1, <2>5
<1>8. ASSUME NEW r \in Requests, Reject(r) \/ Busy(r)
      PROVE  Upstream' = Upstream /\ permits' = permits
  <2>1. r \notin Upstream /\ reqs' = [reqs EXCEPT ![r] = Idle] /\ permits' = permits
    BY <1>8 DEF Reject, Busy, Upstream, Querying
  <2>2. reqs'[r].pc # "query" /\ \A q \in Requests \ {r} : reqs'[q] = reqs[q]
    BY <1>1, <2>1 DEF Idle
  <2>3. Upstream' = Upstream \ {r}
    BY <1>2, <2>2
  <2> QED BY <2>1, <2>3
<1>9. ASSUME NEW r \in Requests, Acquire(r)
      PROVE  /\ r \in Requests \ Upstream /\ Upstream' = Upstream \cup {r}
             /\ permits > 0 /\ permits' = permits - 1
  <2>1. reqs[r] \in Request /\ r \notin Upstream
    BY <1>9, UnderWay DEF Acquire, Idle, Upstream, Querying
  <2>2. reqs' = [reqs EXCEPT ![r] = [reqs[r] EXCEPT !.pc = "query"]]
    BY <1>1, <1>9 DEF Acquire
  <2>3. [reqs[r] EXCEPT !.pc = "query"].pc = "query"
    BY <2>1 DEF Request
  <2>4. reqs'[r].pc = "query" /\ \A q \in Requests \ {r} : reqs'[q] = reqs[q]
    BY <1>1, <2>2, <2>3
  <2> QED BY <1>2, <1>9, <2>1, <2>4 DEF Acquire
<1>10. ASSUME NEW r \in Requests, Querying(r), Release(r)
       PROVE  r \in Upstream /\ Upstream' = Upstream \ {r} /\ permits' = permits + 1
  <2>1. reqs'[r].pc # "query" /\ \A q \in Requests \ {r} : reqs'[q] = reqs[q]
    BY <1>1, <1>10 DEF Release, Idle
  <2>2. Upstream' = Upstream \ {r}
    BY <1>2, <2>1
  <2> QED BY <1>10, <2>2 DEF Release, Upstream
<1>11. ASSUME NEW r \in Requests, QueryOk(r), reqs[r].left > 1
       PROVE  Upstream' = Upstream /\ permits' = permits
  <2>1. reqs[r] \in Request /\ r \in Upstream
    BY <1>11, UnderWay DEF QueryOk, Idle, Upstream, Querying
  <2>2. reqs' = [reqs EXCEPT ![r] = [reqs[r] EXCEPT !.left = reqs[r].left - 1]]
    BY <1>1, <1>11 DEF QueryOk
  <2>3. [reqs[r] EXCEPT !.left = reqs[r].left - 1].pc = "query"
    BY <1>11, <2>1 DEF Request, QueryOk, Querying
  <2>4. reqs'[r].pc = "query" /\ \A q \in Requests \ {r} : reqs'[q] = reqs[q]
    BY <1>1, <2>2, <2>3
  <2>5. Upstream' = Upstream \cup {r}
    BY <1>2, <2>4
  <2> QED BY <1>11, <2>1, <2>5 DEF QueryOk
<1>12. CASE \E r \in Requests : Arrive(r) \/ Verify(r) \/ TakeSlot(r) \/ Reject(r) \/ Busy(r)
  BY <1>6, <1>7, <1>8, <1>12
<1>13. CASE \E r \in Requests : Acquire(r)
  BY <1>9, <1>13
<1>14. CASE \E r \in Requests : QueryOk(r) \/ QueryFails(r) \/ ClientGone(r)
  BY <1>10, <1>11, <1>14 DEF QueryOk, QueryFails, ClientGone
<1> QED BY <1>3, <1>4, <1>5, <1>12, <1>13, <1>14 DEF Next, Handle, Answer

LEMMA BalanceStep ==
    ASSUME TypeOK, PermitsBalance, [Next]_vars
    PROVE  PermitsBalance' /\ permits' \in 0 .. Permits
<1>1. /\ IsFiniteSet(Upstream) /\ IsFiniteSet(Upstream') /\ Cardinality(Upstream) \in Nat
      /\ Cardinality(Upstream') \in Nat
  BY RawApiAssumption, FS_Subset, FS_CardinalityType DEF Upstream
<1>2. permits \in 0 .. Permits /\ Permits \in Nat
  BY RawApiAssumption DEF TypeOK
<1>3. permits + Cardinality(Upstream) = Permits
  BY DEF PermitsBalance, Upstream
<1>4. permits' + Cardinality(Upstream') = Permits /\ permits' \in Int /\ permits' >= 0
  <2>1. CASE Upstream' = Upstream /\ permits' = permits
    BY <1>2, <1>3, <2>1
  <2>2. CASE Upstream' = {} /\ permits' = Permits
    <3>1. Cardinality(Upstream') = 0
      BY <2>2, FS_EmptySet
    <3> QED BY <1>2, <2>2, <3>1
  <2>3. ASSUME NEW r \in Requests \ Upstream,
               Upstream' = Upstream \cup {r}, permits > 0, permits' = permits - 1
        PROVE  permits' + Cardinality(Upstream') = Permits /\ permits' \in Int /\ permits' >= 0
    <3>1. Cardinality(Upstream') = Cardinality(Upstream) + 1
      BY <1>1, <2>3, FS_AddElement
    <3> QED BY <1>1, <1>2, <1>3, <2>3, <3>1
  <2>4. ASSUME NEW r \in Upstream, Upstream' = Upstream \ {r}, permits' = permits + 1
        PROVE  permits' + Cardinality(Upstream') = Permits /\ permits' \in Int /\ permits' >= 0
    <3>1. Cardinality(Upstream') = Cardinality(Upstream) - 1
      BY <1>1, <2>4, FS_RemoveElement
    <3> QED BY <1>1, <1>2, <1>3, <2>4, <3>1
  <2> QED BY <2>1, <2>2, <2>3, <2>4, UpstreamChange
<1>5. PermitsBalance'
  BY <1>4 DEF PermitsBalance, Upstream
<1> QED BY <1>1, <1>2, <1>4, <1>5

-----------------------------------------------------------------------------
(* Types, continued. *)

\* A step takes one slot, refuses one, forgets everything, or leaves the limit alone.
LEMMA LimitChange ==
    ASSUME TypeOK, [Next]_vars
    PROVE  \/ /\ UNCHANGED <<windows, log, told>>
              /\ now' \in Nat /\ now <= now'
           \/ Restart
           \/ \E r \in Requests : TakeSlot(r)
<1>1. now \in Nat
  BY DEF TypeOK
<1>2. CASE UNCHANGED vars
  BY <1>1, <1>2 DEF vars
<1>3. CASE Tick
  BY <1>1, <1>3 DEF Tick
<1>4. ASSUME NEW r \in Requests, Arrive(r) \/ Handle(r) \/ Answer(r) \/ ClientGone(r), ~TakeSlot(r)
      PROVE  UNCHANGED <<windows, log, told, now>>
  BY <1>4 DEF Arrive, Handle, Verify, Reject, Acquire, Busy, Answer, QueryOk, QueryFails,
              ClientGone, Release
<1> QED BY <1>1, <1>2, <1>3, <1>4 DEF Next

\* Every variable keeps its type, and windows count no more than the limit.
LEMMA TypeStep ==
    ASSUME TypeOK, PermitsBalance, [Next]_vars
    PROVE  TypeOK'
<1>1. reqs' \in [Requests -> {Idle} \cup Request] /\ permits' \in 0 .. Permits
  BY ReqsType, BalanceStep
<1> DEFINE Types ==
             /\ now' \in Nat
             /\ DOMAIN windows' \subseteq Subs
             /\ \A s \in DOMAIN windows' : windows'[s] \in [start : 0 .. now', count : 1 .. Limit]
             /\ log' \in [Subs -> Seq(Entry)]
             /\ DOMAIN told' \subseteq Subs
             /\ \A s \in DOMAIN told' : told'[s] \in [at : Nat, until : Nat]
<1>2. Types
  <2>1. /\ now \in Nat
        /\ DOMAIN windows \subseteq Subs
        /\ \A s \in DOMAIN windows : windows[s] \in [start : 0 .. now, count : 1 .. Limit]
        /\ log \in [Subs -> Seq(Entry)]
        /\ DOMAIN told \subseteq Subs
        /\ \A s \in DOMAIN told : told[s] \in [at : Nat, until : Nat]
    BY DEF TypeOK, Entry
  <2>2. CASE UNCHANGED <<windows, log, told>> /\ now' \in Nat /\ now <= now'
    <3>1. \A x \in 0 .. now : x \in 0 .. now'
      BY <2>1, <2>2
    <3>2. \A s \in DOMAIN windows : windows[s] \in [start : 0 .. now', count : 1 .. Limit]
      BY <2>1, <3>1
    <3> QED BY <2>1, <2>2, <3>2
  <2>3. CASE Restart
    <3>1. <<>> \in Seq(Entry)
      OBVIOUS
    <3> QED BY <2>1, <2>3, <3>1 DEF Restart
  <2>4. ASSUME NEW r \in Requests, TakeSlot(r), ~(InWindow(Sub(r)) /\ Full(Sub(r)))
        PROVE  Types
    <3> DEFINE s == Sub(r)
               w == Opened(s)
               e == [at |-> now, start |-> w.start, own |-> reqs[r].tok.signed]
    <3>1. /\ s \in Subs
          /\ w.start \in 0 .. now /\ w.count \in 1 .. Limit
          /\ w = [start |-> w.start, count |-> w.count]
          /\ DOMAIN windows' = DOMAIN windows \cup {s}
          /\ windows'[s] = w
          /\ \A t \in DOMAIN windows \ {s} : windows'[t] = windows[t]
          /\ log' = LetIn(r, w)
          /\ UNCHANGED <<now, permits, told>>
      BY <2>4, SlotTaken
    <3>2. e \in Entry
      <4>1. reqs[r].tok.signed \in BOOLEAN
        BY <2>4, UnderWay DEF TakeSlot, Idle, Request
      <4> HIDE DEF w
      <4>2. now \in Nat /\ w.start \in Nat
        BY <2>1, <3>1
      <4> QED BY <4>1, <4>2 DEF Entry
    <3>3. log' = [log EXCEPT ![s] = Append(log[s], e)]
      BY <2>1, <3>1 DEF LetIn, Sub
    <3> HIDE DEF e, w, s
    <3>4. Append(log[s], e) \in Seq(Entry)
      BY <2>1, <3>1, <3>2
    <3>5. windows'[s] \in [start : 0 .. now, count : 1 .. Limit]
      BY <3>1
    <3> QED BY <2>1, <3>1, <3>3, <3>4, <3>5
  <2>5. ASSUME NEW r \in Requests, TakeSlot(r), InWindow(Sub(r)), Full(Sub(r))
        PROVE  Types
    <3> DEFINE s == Sub(r)
    <3>1. /\ s \in Subs /\ s \in DOMAIN windows
          /\ DOMAIN told' = DOMAIN told \cup {s}
          /\ told'[s] = [at |-> now, until |-> now + RetryAfter(s) * Second]
          /\ \A t \in DOMAIN told \ {s} : told'[t] = told[t]
          /\ UNCHANGED <<now, permits, windows, log>>
      BY <2>5, SlotRefused
    <3>2. now + RetryAfter(s) * Second \in Nat
      BY <2>5, <3>1, RetryLongEnough
    <3> HIDE DEF s
    <3>3. told'[s] \in [at : Nat, until : Nat]
      BY <2>1, <3>1, <3>2
    <3> QED BY <2>1, <3>1, <3>3
  <2> HIDE DEF Types
  <2> QED BY <2>2, <2>3, <2>4, <2>5, LimitChange
<1> QED BY <1>1, <1>2 DEF TypeOK, Request, Entry

LEMMA InitBalanced == Init => TypeOK /\ PermitsBalance
<1> SUFFICES ASSUME Init PROVE TypeOK /\ PermitsBalance
  OBVIOUS
<1>1. <<>> \in Seq([at : Nat, start : Nat, own : BOOLEAN])
  OBVIOUS
<1>2. TypeOK
  BY <1>1, RawApiAssumption DEF Init, TypeOK
<1>3. {r \in Requests : Querying(r)} = {}
  BY DEF Init, Querying, Idle
<1>4. Cardinality({r \in Requests : Querying(r)}) = 0
  BY <1>3, FS_EmptySet
<1>5. permits = Permits /\ Permits \in Nat
  BY RawApiAssumption DEF Init
<1>6. PermitsBalance
  BY <1>4, <1>5 DEF PermitsBalance
<1> QED BY <1>2, <1>6

\* The variables of the Raw API always have their types: no window counts more than
\* the limit, no permit appears or is owed.
THEOREM TypeCorrect == Spec => []TypeOK
<1>1. TypeOK /\ PermitsBalance /\ [Next]_vars => (TypeOK /\ PermitsBalance)'
  BY TypeStep, BalanceStep
<1> QED BY <1>1, InitBalanced, PTL DEF Spec

\* Permits and queries under way always add up to MAX_UPSTREAM_CONCURRENCY, whatever
\* ends a request: an answer, an error, a client that leaves, a restart.
THEOREM PermitsKept == Spec => []PermitsBalance
<1>1. TypeOK /\ PermitsBalance /\ [Next]_vars => (TypeOK /\ PermitsBalance)'
  BY TypeStep, BalanceStep
<1> QED BY <1>1, InitBalanced, PTL DEF Spec

-----------------------------------------------------------------------------
(* Windows. *)

\* Only requests whose token was accepted get as far as the limit.
Verified ==
    \A r \in Requests : reqs[r].pc \in {"limit", "acquire", "query"} => reqs[r].tok.signed

\* An entry of the log lies in the window that it was counted in.
Within(e, t) ==
    /\ e.own
    /\ e.start <= e.at /\ e.at <= t /\ e.at < e.start + Span

\* The last count entries are those of the open window; the others had ended before.
Counted(s) ==
    IF s \in DOMAIN windows
    THEN /\ windows[s].count <= Len(log[s])
         /\ \A i \in 1 .. Len(log[s]) :
               IF i > Len(log[s]) - windows[s].count
               THEN log[s][i].start = windows[s].start
               ELSE log[s][i].start + Span <= windows[s].start
    ELSE Len(log[s]) = 0

\* Entries a limit apart lie in windows of their own.
Apart(s) ==
    \A i \in 1 .. Len(log[s]) :
        i + Limit <= Len(log[s]) => log[s][i].start + Span <= log[s][i + Limit].start

\* Whoever was told to wait was told of a window that ends by then.
Fair(s) ==
    s \in DOMAIN told =>
        /\ s \in DOMAIN windows
        /\ told[s].at <= now
        /\ windows[s].start <= told[s].at =>
              /\ told[s].at < windows[s].start + Span
              /\ windows[s].start + Span <= told[s].until

LEMMA VerifiedStep ==
    ASSUME TypeOK, Verified, [Next]_vars
    PROVE  Verified'
<1>1. reqs \in [Requests -> {Idle} \cup Request]
  BY DEF TypeOK, Request
<1> DEFINE Good(x) == x.pc \in {"limit", "acquire", "query"} => x.tok.signed
<1>2. ASSUME NEW r \in Requests, Good(reqs'[r]), \A q \in Requests \ {r} : reqs'[q] = reqs[q]
      PROVE  Verified'
  BY <1>2 DEF Verified
<1>3. CASE UNCHANGED vars
  BY <1>3 DEF vars, Verified
<1>4. CASE Tick
  BY <1>4 DEF Tick, Verified
<1>5. CASE Restart
  BY <1>5 DEF Restart, Verified, Idle
<1>6. ASSUME NEW r \in Requests, Arrive(r) PROVE Verified'
  <2>1. reqs'[r].pc = "verify" /\ \A q \in Requests \ {r} : reqs'[q] = reqs[q]
    BY <1>1, <1>6 DEF Arrive
  <2> QED BY <1>2, <2>1
<1>7. ASSUME NEW r \in Requests, Verify(r) PROVE Verified'
  <2>1. reqs[r] \in Request
    BY <1>7, UnderWay DEF Verify, Idle
  <2>2. \A q \in Requests \ {r} : reqs'[q] = reqs[q]
    BY <1>1, <1>7 DEF Verify
  <2>3. CASE Accepts(reqs[r].tok)
    <3>1. reqs'[r] = [reqs[r] EXCEPT !.pc = "limit"]
      BY <1>1, <1>7, <2>3 DEF Verify
    <3>2. reqs'[r].tok = reqs[r].tok
      BY <2>1, <3>1 DEF Request
    <3>3. reqs'[r].tok.signed
      BY <2>3, <3>2 DEF Accepts
    <3> QED BY <1>2, <2>2, <3>3
  <2>4. CASE ~Accepts(reqs[r].tok)
    <3>1. reqs'[r] = Idle
      BY <1>1, <1>7, <2>4 DEF Verify
    <3> QED BY <1>2, <2>2, <3>1 DEF Idle
  <2> QED BY <2>3, <2>4
<1>8. ASSUME NEW r \in Requests, TakeSlot(r) \/ Acquire(r) PROVE Verified'
  <2>1. reqs[r] \in Request /\ reqs[r].tok.signed
    BY <1>8, UnderWay DEF TakeSlot, Acquire, Idle, Verified
  <2>2. \A q \in Requests \ {r} : reqs'[q] = reqs[q]
    BY <1>1, <1>8 DEF TakeSlot, Acquire
  <2>3. \/ reqs'[r] = Idle
        \/ reqs'[r] = [reqs[r] EXCEPT !.pc = "acquire"]
        \/ reqs'[r] = [reqs[r] EXCEPT !.pc = "query"]
    BY <1>1, <1>8 DEF TakeSlot, Acquire
  <2>4. reqs'[r] = Idle \/ reqs'[r].tok = reqs[r].tok
    BY <2>1, <2>3 DEF Request
  <2> QED BY <1>2, <2>1, <2>2, <2>4 DEF Idle
<1>9. ASSUME NEW r \in Requests, Reject(r) \/ Busy(r) \/ Answer(r) \/ ClientGone(r)
      PROVE  Verified'
  <2>1. \A q \in Requests \ {r} : reqs'[q] = reqs[q]
    BY <1>1, <1>9 DEF Reject, Busy, Answer, QueryOk, QueryFails, ClientGone, Release
  <2>2. CASE reqs'[r] = Idle
    BY <1>2, <2>1, <2>2 DEF Idle
  <2>3. CASE reqs'[r] # Idle
    <3>1. QueryOk(r) /\ reqs[r].left > 1
      BY <1>1, <1>9, <2>3 DEF Reject, Busy, Answer, QueryOk, QueryFails, ClientGone, Release
    <3>2. reqs[r] \in Request /\ reqs[r].tok.signed
      BY <3>1, UnderWay DEF QueryOk, Querying, Idle, Verified
    <3>3. reqs'[r] = [reqs[r] EXCEPT !.left = reqs[r].left - 1]
      BY <1>1, <3>1 DEF QueryOk
    <3>4. reqs'[r].tok = reqs[r].tok
      BY <3>2, <3>3 DEF Request
    <3> QED BY <1>2, <2>1, <3>2, <3>4
  <2> QED BY <2>2, <2>3
<1> QED BY <1>3, <1>4, <1>5, <1>6, <1>7, <1>8, <1>9 DEF Next, Handle

Windowed ==
    /\ \A s \in Subs : \A i \in 1 .. Len(log[s]) : Within(log[s][i], now)
    /\ \A s \in Subs : Counted(s) /\ Apart(s) /\ Fair(s)

\* A refusal leaves the log and the windows alone, and promises the end of the window.
LEMMA RefusalWindowed ==
    ASSUME TypeOK, Windowed, NEW r \in Requests, TakeSlot(r), InWindow(Sub(r)), Full(Sub(r))
    PROVE  Windowed'
<1> DEFINE s == Sub(r)
<1>1. /\ s \in Subs /\ s \in DOMAIN windows
      /\ DOMAIN told' = DOMAIN told \cup {s}
      /\ told'[s] = [at |-> now, until |-> now + RetryAfter(s) * Second]
      /\ \A t \in DOMAIN told \ {s} : told'[t] = told[t]
      /\ UNCHANGED <<now, permits, windows, log>>
  BY SlotRefused
<1>2. /\ now < windows[s].start + Span
      /\ windows[s].start + Span <= now + RetryAfter(s) * Second
  BY <1>1, WindowLength, RetryLongEnough
<1> HIDE DEF s
<1>3. ASSUME NEW t \in Subs PROVE Fair(t)'
  <2>1. CASE t = s
    <3>1. told'[s].at = now /\ told'[s].until = now + RetryAfter(s) * Second
      BY <1>1
    <3>2. now <= now
      BY DEF TypeOK
    <3> QED BY <1>1, <1>2, <2>1, <3>1, <3>2 DEF Fair, Span
  <2>2. CASE t # s
    <3>1. Fair(t)
      BY DEF Windowed
    <3>2. t \in DOMAIN told' => t \in DOMAIN told /\ told'[t] = told[t]
      BY <1>1, <2>2
    <3> QED BY <1>1, <3>1, <3>2 DEF Fair, Span
  <2> QED BY <2>1, <2>2
<1>4. ASSUME NEW t \in Subs PROVE Counted(t)' /\ Apart(t)'
  BY <1>1 DEF Windowed, Counted, Apart, Span
<1>5. \A t \in Subs : \A i \in 1 .. Len(log'[t]) : Within(log'[t][i], now')
  BY <1>1 DEF Windowed, Within, Span
<1> QED BY <1>3, <1>4, <1>5 DEF Windowed

\* The entry of a request that is let in, in an open window or in a new one.
LEMMA SlotWindowed ==
    ASSUME TypeOK, Verified, Windowed, NEW r \in Requests, TakeSlot(r),
           NEW s \in Subs, s = Sub(r), ~(InWindow(s) /\ Full(s))
    PROVE  Windowed'
<1> DEFINE w == Opened(s)
           e == [at |-> now, start |-> w.start, own |-> reqs[r].tok.signed]
           n == Len(log[s])
<1>1. /\ s \in Subs
      /\ w.start \in 0 .. now /\ w.count \in 1 .. Limit
      /\ DOMAIN windows' = DOMAIN windows \cup {s}
      /\ windows'[s] = w
      /\ \A t \in DOMAIN windows \ {s} : windows'[t] = windows[t]
      /\ log' = LetIn(r, w)
      /\ UNCHANGED <<now, permits, told>>
  BY SlotTaken
<1>2. /\ now \in Nat /\ log \in [Subs -> Seq(Entry)] /\ Limit \in Nat \ {0}
      /\ \A t \in DOMAIN windows :
            windows[t].start \in Nat /\ windows[t].start <= now /\ windows[t].count \in 1 .. Limit
  BY RawApiAssumption DEF TypeOK, Entry
<1>3. e \in Entry /\ e.own /\ e.at = now /\ e.start = w.start
  <2>1. reqs[r].tok.signed \in BOOLEAN /\ reqs[r].tok.signed
    BY UnderWay DEF TakeSlot, Idle, Request, Verified
  <2>2. now \in Nat /\ w.start \in Nat
    BY <1>1, <1>2
  <2> HIDE DEF w
  <2> QED BY <2>1, <2>2 DEF Entry
<1>4. log' = [log EXCEPT ![s] = Append(log[s], e)]
  BY <1>1, <1>2 DEF LetIn, Sub
<1>5. \/ InWindow(s) /\ s \in DOMAIN windows /\ now < windows[s].start + Span
         /\ w.start = windows[s].start /\ w.count = windows[s].count + 1
      \/ ~InWindow(s) /\ w.start = now /\ w.count = 1
         /\ (s \in DOMAIN windows => windows[s].start + Span <= now)
  <2>1. CASE InWindow(s)
    <3>1. s \in DOMAIN windows
      BY <2>1 DEF InWindow
    <3>2. w = [windows[s] EXCEPT !.count = @ + 1]
      BY <2>1 DEF Opened
    <3>3. windows[s] \in [start : 0 .. now, count : 1 .. Limit]
      BY <3>1 DEF TypeOK
    <3> QED BY <2>1, <3>1, <3>2, <3>3, WindowLength
  <2>2. CASE ~InWindow(s)
    <3>1. w = [start |-> now, count |-> 1]
      BY <2>2 DEF Opened
    <3>2. s \in DOMAIN windows => ~(now < windows[s].start + Span)
      BY <2>2, WindowLength
    <3> QED BY <1>2, <2>2, <3>1, <3>2, SpanPositive
  <2> QED BY <2>1, <2>2
<1> HIDE DEF w, e
<1>6. /\ n \in Nat /\ Len(log'[s]) = n + 1
      /\ \A i \in 1 .. n : log'[s][i] = log[s][i]
      /\ log'[s][n + 1] = e
      /\ log'[s] \in Seq(Entry)
      /\ \A i \in 1 .. n : log[s][i] \in Entry
  <2>1. log'[s] = Append(log[s], e) /\ log[s] \in Seq(Entry)
    BY <1>1, <1>2, <1>4
  <2>2. Len(log[s]) \in Nat /\ \A i \in 1 .. Len(log[s]) : log[s][i] \in Entry
    BY <2>1
  <2> QED BY <1>3, <2>1, <2>2, Appended
<1>7. \A t \in Subs \ {s} : log'[t] = log[t]
  BY <1>2, <1>4
<1>8. Span \in Nat /\ Span > 0 /\ Span' = Span
  BY SpanPositive DEF Span
<1>9. \A i \in 1 .. n : log[s][i].start \in Nat /\ log[s][i].at \in Nat
  BY <1>6 DEF Entry
<1> HIDE DEF n
<1>10. ASSUME NEW t \in Subs, t # s PROVE Counted(t)' /\ Apart(t)' /\ Fair(t)'
  <2>1. Counted(t) /\ Apart(t) /\ Fair(t) /\ log'[t] = log[t]
    BY <1>7, <1>10 DEF Windowed
  <2>2. /\ t \in DOMAIN windows' <=> t \in DOMAIN windows
        /\ t \in DOMAIN windows => windows'[t] = windows[t]
    BY <1>1, <1>10
  <2>3. Counted(t)'
    BY <2>1, <2>2, <1>8 DEF Counted
  <2>4. Apart(t)'
    BY <2>1, <1>8 DEF Apart
  <2>5. Fair(t)'
    BY <1>1, <1>8, <2>1, <2>2 DEF Fair
  <2> QED BY <2>3, <2>4, <2>5
<1>11. ASSUME NEW t \in Subs, NEW i \in 1 .. Len(log'[t]) PROVE Within(log'[t][i], now')
  <2>1. CASE t # s
    BY <1>1, <1>7, <1>8, <1>11, <2>1 DEF Windowed, Within
  <2>2. CASE t = s /\ i \in 1 .. n
    <3>1. log'[t][i] = log[t][i] /\ i \in 1 .. Len(log[t])
      BY <1>6, <2>2 DEF n
    <3> QED BY <1>1, <1>8, <3>1 DEF Windowed, Within
  <2>3. CASE t = s /\ i \notin 1 .. n
    <3>1. i = n + 1
      BY <1>6, <1>11, <2>3
    <3>2. log'[t][i] = e
      BY <1>6, <2>3, <3>1
    <3>3. e.own /\ e.at = now /\ e.start <= now /\ now < e.start + Span
      <4>1. e.start = w.start /\ w.start <= now
        BY <1>1, <1>3
      <4>2. now < w.start + Span
        BY <1>1, <1>2, <1>5, <1>8
      <4> QED BY <1>3, <4>1, <4>2
    <3>4. Within(e, now')
      BY <1>1, <1>2, <1>8, <3>3 DEF Within
    <3> QED BY <3>2, <3>4
  <2> QED BY <2>1, <2>2, <2>3
<1>12. /\ Counted(s) /\ Apart(s) /\ Fair(s)
  BY <1>1 DEF Windowed
<1>13. Counted(s)'
  <2>1. ASSUME NEW i \in 1 .. n, s \in DOMAIN windows
        PROVE  IF i > n - windows[s].count THEN log[s][i].start = windows[s].start
                                           ELSE log[s][i].start + Span <= windows[s].start
    BY <1>12, <2>1 DEF Counted, n
  <2>2. s \in DOMAIN windows => windows[s].count <= n
    BY <1>12 DEF Counted, n
  <2>3. s \notin DOMAIN windows => n = 0
    BY <1>12 DEF Counted, n
  <2>4. w.count <= n + 1
    BY <1>1, <1>2, <1>5, <1>6, <2>2
  <2>5. ASSUME NEW i \in 1 .. n + 1
        PROVE  IF i > (n + 1) - w.count THEN log'[s][i].start = w.start
                                        ELSE log'[s][i].start + Span <= w.start
    <3>1. CASE i = n + 1
      <4>1. i > (n + 1) - w.count
        BY <1>1, <1>6, <3>1
      <4> QED BY <1>3, <1>6, <3>1, <4>1
    <3>2. CASE i # n + 1
      <4>1. i \in 1 .. n /\ log'[s][i] = log[s][i]
        BY <1>6, <3>2
      <4>2. CASE InWindow(s)
        <5>1. s \in DOMAIN windows /\ w.start = windows[s].start /\ w.count = windows[s].count + 1
          BY <1>5, <4>2
        <5>2. (n + 1) - w.count = n - windows[s].count
          <6>1. n \in Int /\ windows[s].count \in Int
            BY <1>1, <1>2, <1>6, <5>1 DEF TypeOK
          <6>2. \A x, y \in Int : (x + 1) - (y + 1) = x - y
            OBVIOUS
          <6> QED BY ONLY <6>1, <6>2, <5>1
        <5>3. IF i > n - windows[s].count THEN log[s][i].start = windows[s].start
                                          ELSE log[s][i].start + Span <= windows[s].start
          BY ONLY <2>1, <4>1, <5>1
        <5> QED BY ONLY <4>1, <5>1, <5>2, <5>3
      <4>3. CASE ~InWindow(s)
        <5>1. w.start = now /\ w.count = 1 /\ s \in DOMAIN windows
          BY <1>5, <2>3, <4>1, <4>3
        <5>2. windows[s].start + Span <= now /\ windows[s].start \in Nat
          BY <1>2, <1>5, <4>3, <5>1
        <5>3. ~(i > (n + 1) - w.count)
          BY <1>6, <4>1, <5>1
        <5>4. log[s][i].start <= windows[s].start
          <6>1. CASE i > n - windows[s].count
            BY <1>9, <2>1, <4>1, <5>1, <5>2, <6>1
          <6>2. CASE ~(i > n - windows[s].count)
            BY <1>8, <1>9, <2>1, <4>1, <5>1, <5>2, <6>2
          <6> QED BY <6>1, <6>2
        <5>5. log[s][i].start + Span <= now
          BY <1>2, <1>8, <1>9, <4>1, <5>2, <5>4
        <5> QED BY <4>1, <5>1, <5>3, <5>5
      <4> QED BY <4>2, <4>3
    <3> QED BY <3>1, <3>2
  <2> QED BY <1>1, <1>6, <1>8, <2>4, <2>5 DEF Counted
<1>14. Apart(s)'
  <2> SUFFICES ASSUME NEW i \in 1 .. n + 1, i + Limit <= n + 1
               PROVE  log'[s][i].start + Span <= log'[s][i + Limit].start
    BY <1>6, <1>8 DEF Apart
  <2>1. i \in 1 .. n /\ log'[s][i] = log[s][i]
    BY <1>2, <1>6
  <2>2. CASE i + Limit <= n
    <3>1. i + Limit \in 1 .. n /\ log'[s][i + Limit] = log[s][i + Limit]
      BY <1>2, <1>6, <2>1, <2>2
    <3>2. log[s][i].start + Span <= log[s][i + Limit].start
      BY <1>12, <2>1, <2>2 DEF Apart, n
    <3> QED BY <2>1, <3>1, <3>2
  <2>3. CASE ~(i + Limit <= n)
    <3>1. i + Limit = n + 1
      BY <1>2, <1>6, <2>1, <2>3
    <3>2. log'[s][i + Limit].start = w.start
      BY <1>3, <1>6, <3>1
    <3>3. ~(i > (n + 1) - w.count)
      BY <1>1, <1>2, <1>6, <2>1, <3>1
    <3>4. log'[s][i].start + Span <= w.start
      <4>1. windows'[s] = w /\ s \in DOMAIN windows' /\ i \in 1 .. Len(log'[s]) /\ Len(log'[s]) = n + 1
        BY <1>1, <1>6, <2>1
      <4>2. ~(i > Len(log'[s]) - windows'[s].count)
        BY <3>3, <4>1
      <4> QED BY <1>8, <1>13, <4>1, <4>2 DEF Counted
    <3> QED BY <3>2, <3>4
  <2> QED BY <2>2, <2>3
<1>15. Fair(s)'
  <2> SUFFICES ASSUME s \in DOMAIN told
               PROVE  /\ s \in DOMAIN windows' /\ told[s].at <= now
                      /\ w.start <= told[s].at =>
                            /\ told[s].at < w.start + Span /\ w.start + Span <= told[s].until
    BY <1>1, <1>8 DEF Fair
  <2>1. /\ s \in DOMAIN windows /\ told[s].at <= now
        /\ windows[s].start <= told[s].at =>
              /\ told[s].at < windows[s].start + Span
              /\ windows[s].start + Span <= told[s].until
    BY <1>12 DEF Fair
  <2>2. told[s].at \in Nat /\ windows[s].start \in Nat
    BY <1>2, <2>1 DEF TypeOK
  <2>3. CASE InWindow(s)
    BY <1>1, <1>5, <2>1, <2>3
  <2>4. CASE ~InWindow(s)
    <3>1. w.start = now /\ windows[s].start + Span <= now
      BY <1>5, <2>1, <2>4
    <3>2. ~(w.start <= told[s].at)
      BY <1>2, <1>8, <2>1, <2>2, <3>1
    <3> QED BY <1>1, <2>1, <3>2
  <2> QED BY <2>3, <2>4
<1> QED BY <1>10, <1>11, <1>13, <1>14, <1>15 DEF Windowed

LEMMA WindowedStep ==
    ASSUME TypeOK, Verified, Windowed, [Next]_vars
    PROVE  Windowed'
<1>1. CASE UNCHANGED <<windows, log, told>> /\ now' \in Nat /\ now <= now'
  <2>1. now \in Nat /\ Span \in Nat /\ Span' = Span
    BY SpanPositive DEF TypeOK, Span
  <2>2. ASSUME NEW s \in Subs, NEW i \in 1 .. Len(log[s]) PROVE Within(log[s][i], now')
    <3>1. log[s] \in Seq(Entry)
      BY DEF TypeOK, Entry
    <3>2. log[s][i] \in Entry
      BY <3>1
    <3>3. log[s][i].at \in Nat
      BY <3>2 DEF Entry
    <3> QED BY <1>1, <2>1, <3>3 DEF Windowed, Within
  <2>3. ASSUME NEW s \in Subs PROVE Fair(s)'
    <3>1. Fair(s) /\ (s \in DOMAIN told => told[s].at \in Nat)
      BY DEF Windowed, TypeOK
    <3> QED BY <1>1, <2>1, <3>1 DEF Fair
  <2>4. ASSUME NEW s \in Subs PROVE Counted(s)' /\ Apart(s)'
    BY <1>1, <2>1 DEF Windowed, Counted, Apart
  <2> QED BY <1>1, <2>2, <2>3, <2>4 DEF Windowed
<1>2. CASE Restart
  <2>1. /\ \A s \in Subs : log'[s] = <<>>
        /\ DOMAIN windows' = {} /\ DOMAIN told' = {}
    BY <1>2 DEF Restart
  <2>2. \A s \in Subs : Len(log'[s]) = 0
    BY <2>1
  <2> QED BY <2>1, <2>2 DEF Windowed, Counted, Apart, Fair
<1>3. ASSUME NEW r \in Requests, TakeSlot(r) PROVE Windowed'
  <2>1. CASE InWindow(Sub(r)) /\ Full(Sub(r))
    BY <1>3, <2>1, RefusalWindowed
  <2>2. CASE ~(InWindow(Sub(r)) /\ Full(Sub(r)))
    <3>1. Sub(r) \in Subs
      BY <1>3, <2>2, SlotTaken
    <3>2. PICK s \in Subs : s = Sub(r)
      BY <3>1
    <3> QED BY <1>3, <2>2, <3>2, SlotWindowed
  <2> QED BY <2>1, <2>2
<1> QED BY <1>1, <1>2, <1>3, LimitChange

-----------------------------------------------------------------------------
(* The limit. *)

LimitsKept == TypeOK /\ PermitsBalance /\ Verified /\ Windowed

LEMMA LimitsInductive ==
    /\ Init => LimitsKept
    /\ LimitsKept /\ [Next]_vars => LimitsKept'
<1>1. ASSUME Init PROVE Verified /\ Windowed
  <2>1. /\ \A s \in Subs : log[s] = <<>>
        /\ DOMAIN windows = {} /\ DOMAIN told = {}
    BY <1>1 DEF Init
  <2>2. \A s \in Subs : Len(log[s]) = 0
    BY <2>1
  <2>3. Verified
    BY <1>1 DEF Init, Verified, Idle
  <2> QED BY <2>1, <2>2, <2>3 DEF Windowed, Counted, Apart, Fair
<1>2. ASSUME LimitsKept, [Next]_vars PROVE LimitsKept'
  BY <1>2, TypeStep, BalanceStep, VerifiedStep, WindowedStep DEF LimitsKept
<1> QED BY <1>1, <1>2, InitBalanced DEF LimitsKept

LEMMA LimitsBoundMinutes == LimitsKept => MinuteBound
<1> SUFFICES ASSUME LimitsKept, NEW s \in Subs, NEW i \in 1 .. Len(log[s]),
                    i + 2 * Limit <= Len(log[s])
             PROVE  log[s][i + 2 * Limit].at - log[s][i].at > Span
  BY DEF MinuteBound
<1>1. /\ log[s] \in Seq(Entry) /\ Len(log[s]) \in Nat /\ Limit \in Nat \ {0}
      /\ Span \in Nat /\ Span > 0
  BY RawApiAssumption, SpanPositive DEF LimitsKept, TypeOK, Entry
<1> DEFINE j == i + Limit
           k == i + 2 * Limit
<1>2. i \in 1 .. Len(log[s]) /\ j \in 1 .. Len(log[s]) /\ k \in 1 .. Len(log[s]) /\ k = j + Limit
  BY <1>1
<1>3. /\ Within(log[s][i], now) /\ Within(log[s][k], now) /\ Apart(s)
  BY <1>2 DEF LimitsKept, Windowed
<1> HIDE DEF j, k
<1>4. log[s][i].start + Span <= log[s][j].start
  BY <1>2, <1>3 DEF Apart, j
<1>5. log[s][j].start + Span <= log[s][k].start
  BY <1>2, <1>3 DEF Apart
<1>6. log[s][i] \in Entry /\ log[s][j] \in Entry /\ log[s][k] \in Entry
  BY <1>1, <1>2
<1>7. /\ log[s][i].at \in Nat /\ log[s][i].start \in Nat /\ log[s][j].start \in Nat
      /\ log[s][k].start \in Nat /\ log[s][k].at \in Nat
  BY <1>6 DEF Entry
<1>8. log[s][i].at < log[s][i].start + Span /\ log[s][k].start <= log[s][k].at
  BY <1>3 DEF Within
<1>9. \A a, b, c, d, e, l \in Nat :
         a < b + l /\ b + l <= c /\ c + l <= d /\ d <= e => e - a > l
  OBVIOUS
<1>10. log[s][k].at - log[s][i].at > Span
  BY <1>1, <1>4, <1>5, <1>7, <1>8, <1>9
<1> QED BY <1>10 DEF k

\* No holder is let in more than twice the limit within a window's length, wherever
\* that begins, for as long as the process lives.
THEOREM MinuteBounded == Spec => []MinuteBound
BY LimitsInductive, LimitsBoundMinutes, PTL DEF Spec

\* Only a refusal changes what a holder was told.
LEMMA NewsIsRefusal ==
    ASSUME LimitsKept, [Next]_vars, NEW s \in DOMAIN told',
           s \in DOMAIN told => told'[s] # told[s]
    PROVE  InWindow(s) /\ Full(s) /\ s \in DOMAIN windows /\ s \in Subs
<1>1. CASE UNCHANGED <<windows, log, told>> /\ now' \in Nat /\ now <= now'
  BY <1>1
<1>2. CASE Restart
  BY <1>2 DEF Restart
<1>3. ASSUME NEW r \in Requests, TakeSlot(r)
      PROVE  InWindow(s) /\ Full(s) /\ s \in DOMAIN windows /\ s \in Subs
  <2>1. CASE ~(InWindow(Sub(r)) /\ Full(Sub(r)))
    BY <1>3, <2>1, SlotTaken DEF LimitsKept
  <2>2. CASE InWindow(Sub(r)) /\ Full(Sub(r))
    BY <1>3, <2>2, SlotRefused DEF LimitsKept
  <2> QED BY <2>1, <2>2
<1> QED BY <1>1, <1>2, <1>3, LimitChange DEF LimitsKept

\* A client that waits as long as Retry-After said is refused again only in a window
\* that was opened since.
THEOREM RetryAlwaysHonoured == Spec => RetryHonoured
<1>1. ASSUME LimitsKept, [Next]_vars,
             NEW s \in DOMAIN told \cap DOMAIN told', told'[s] # told[s], told[s].until <= now
      PROVE  windows[s].start > told[s].at
  <2>1. InWindow(s) /\ s \in DOMAIN windows /\ s \in Subs
    BY <1>1, NewsIsRefusal
  <2>2. now < windows[s].start + Span
    BY <1>1, <2>1, WindowLength DEF LimitsKept
  <2>3. windows[s].start <= told[s].at => windows[s].start + Span <= told[s].until
    BY <1>1, <2>1 DEF LimitsKept, Windowed, Fair
  <2>4. /\ now \in Nat /\ windows[s].start \in Nat /\ Span \in Nat
        /\ told[s].at \in Nat /\ told[s].until \in Nat
    BY <1>1, <2>1, SpanPositive DEF LimitsKept, TypeOK
  <2> QED BY <1>1, <2>2, <2>3, <2>4
<1>2. LimitsKept /\ [Next]_vars =>
        [\A s \in DOMAIN told \cap DOMAIN told' :
           (told'[s] # told[s] /\ told[s].until <= now) => windows[s].start > told[s].at]_vars
  BY <1>1
<1> QED BY <1>2, LimitsInductive, PTL DEF Spec, RetryHonoured

\* A holder is refused only after having been let in Limit times, with tokens of its
\* own, within the last window's length.
THEOREM RefusalsEarned == Spec => RefusalEarned
<1>1. ASSUME LimitsKept, [Next]_vars, NEW s \in Subs, s \in DOMAIN told',
             s \in DOMAIN told => told'[s] # told[s]
      PROVE  LET first == Len(log[s]) - Limit + 1 IN
             /\ first >= 1
             /\ \A i \in first .. Len(log[s]) : log[s][i].own /\ log[s][i].at > now - Span
  <2> DEFINE first == Len(log[s]) - Limit + 1
  <2>1. InWindow(s) /\ Full(s) /\ s \in DOMAIN windows
    BY <1>1, NewsIsRefusal
  <2>2. now < windows[s].start + Span
    BY <1>1, <2>1, WindowLength DEF LimitsKept
  <2>3. /\ now \in Nat /\ windows[s].start \in Nat /\ Span \in Nat /\ Limit \in Nat
        /\ windows[s].count \in 1 .. Limit /\ Len(log[s]) \in Nat
        /\ log[s] \in Seq(Entry)
    BY <1>1, <2>1, SpanPositive, RawApiAssumption DEF LimitsKept, TypeOK, Entry
  <2>4. windows[s].count = Limit
    BY <2>1, <2>3 DEF Full
  <2>5. Counted(s) /\ windows[s].count <= Len(log[s])
    BY <1>1, <2>1 DEF LimitsKept, Windowed, Counted
  <2>6. first >= 1
    BY <2>3, <2>4, <2>5
  <2>7. ASSUME NEW i \in first .. Len(log[s]) PROVE log[s][i].own /\ log[s][i].at > now - Span
    <3>1. i \in 1 .. Len(log[s]) /\ i > Len(log[s]) - windows[s].count
      BY <2>3, <2>4, <2>6, <2>7
    <3>2. log[s][i].start = windows[s].start
      BY <2>1, <2>5, <3>1 DEF Counted
    <3>3. Within(log[s][i], now) /\ log[s][i] \in Entry
      BY <1>1, <2>3, <3>1 DEF LimitsKept, Windowed
    <3>4. log[s][i].own /\ windows[s].start <= log[s][i].at /\ log[s][i].at \in Nat
      BY <3>2, <3>3 DEF Within, Entry
    <3>5. now \in Nat /\ windows[s].start \in Nat /\ Span \in Nat
      BY <2>3
    <3>6. \A t, a, w, l \in Nat : t < w + l /\ w <= a => a > t - l
      OBVIOUS
    <3>7. log[s][i].at > now - Span
      BY ONLY <2>2, <3>4, <3>5, <3>6
    <3> QED BY ONLY <3>4, <3>7
  <2> QED BY <2>6, <2>7
<1>2. LimitsKept /\ [Next]_vars =>
        [\A s \in Subs :
           (s \in DOMAIN told' /\ (s \in DOMAIN told => told'[s] # told[s])) =>
              LET first == Len(log[s]) - Limit + 1 IN
              /\ first >= 1
              /\ \A i \in first .. Len(log[s]) : log[s][i].own /\ log[s][i].at > now - Span]_vars
  BY <1>1
<1> QED BY <1>2, LimitsInductive, PTL DEF Spec, RefusalEarned

\* Whatever is let in stays within the limits of a minute and of the permits.
THEOREM WithinLimits == Spec => []LimitsHold
<1>1. MinuteBound /\ PermitsBalance => LimitsHold
  BY DEF LimitsHold
<1> QED BY <1>1, MinuteBounded, PermitsKept, PTL

-----------------------------------------------------------------------------
(* Arithmetic. *)

LEMMA DivMod ==
    ASSUME NEW x \in Nat, NEW d \in Nat \ {0}
    PROVE  /\ x \div d \in Nat /\ d * (x \div d) <= x /\ x < d * (x \div d) + d
           /\ x % d = 0 => x = d * (x \div d)
OBVIOUS

LEMMA Multiples ==
    ASSUME NEW a \in Nat, NEW b \in Nat, NEW d \in Nat \ {0}
    PROVE  /\ d * a \in Nat /\ d * b \in Nat
           /\ a + 1 <= b => d * a + d <= d * b
           /\ a <= b => d * a <= d * b
OBVIOUS

\* Dividing keeps the order.
LEMMA DivMonotone ==
    ASSUME NEW x \in Nat, NEW y \in Nat, x <= y, NEW d \in Nat \ {0}
    PROVE  x \div d <= y \div d
<1> DEFINE a == x \div d
           b == y \div d
<1>1. a \in Nat /\ b \in Nat /\ d * a <= x /\ y < d * b + d
  BY DivMod
<1> HIDE DEF a, b
<1>2. CASE b + 1 <= a
  <2>1. d * b + d <= d * a /\ d * a \in Nat /\ d * b \in Nat
    BY <1>1, <1>2, Multiples
  <2> QED BY <1>1, <2>1
<1>3. CASE ~(b + 1 <= a)
  BY <1>1, <1>3 DEF a, b
<1> QED BY <1>2, <1>3

\* Dividing by b and rounding up, and then multiplying by b, loses nothing.
LEMMA DivCeilCovers ==
    ASSUME NEW a \in Nat, NEW b \in Nat \ {0}
    PROVE  DivCeil(a, b) \in Nat /\ a <= b * DivCeil(a, b)
<1> DEFINE x == a + b - 1
<1>1. x \in Nat /\ x + 1 = a + b
  OBVIOUS
<1>2. x \div b \in Nat /\ x < b * (x \div b) + b
  BY <1>1, DivMod
<1>3. b * (x \div b) \in Nat
  BY <1>2, Multiples
<1>4. a <= b * (x \div b)
  BY <1>1, <1>2, <1>3
<1> QED BY <1>2, <1>4 DEF DivCeil

\* A quotient is at most t when t times the divisor covers the dividend.
LEMMA QuotientBound ==
    ASSUME NEW x \in Nat, NEW d \in Nat \ {0}, NEW t \in Nat, x <= d * t
    PROVE  x \div d <= t
<1> DEFINE q == x \div d
<1>1. q \in Nat /\ d * q <= x
  BY DivMod
<1> HIDE DEF q
<1>2. CASE t + 1 <= q
  <2>1. d * t + d <= d * q /\ d * t \in Nat /\ d * q \in Nat
    BY <1>1, <1>2, Multiples
  <2> QED BY <1>1, <2>1
<1>3. CASE ~(t + 1 <= q)
  BY <1>1, <1>3 DEF q
<1> QED BY <1>2, <1>3

\* The chosen step keeps the minimum, and the target number of steps spans the range.
LEMMA DefaultStepCovers ==
    ASSUME NEW range \in Nat
    PROVE  /\ DefaultStep(range) \in Nat \ {0}
           /\ MinStep <= DefaultStep(range)
           /\ range \div DefaultStep(range) <= TargetPoints
<1> DEFINE c == DivCeil(range, TargetPoints)
           n == DivCeil(c, MinStep)
           step == DefaultStep(range)
<1>1. TargetPoints \in Nat \ {0} /\ MinStep \in Nat \ {0}
  BY RawQueryAssumption
<1>2. c \in Nat /\ range <= TargetPoints * c
  BY <1>1, DivCeilCovers
<1>3. n \in Nat /\ c <= MinStep * n
  BY <1>1, <1>2, DivCeilCovers
<1>4. step = IF n * MinStep > MinStep THEN n * MinStep ELSE MinStep
  BY DEF DefaultStep
<1> HIDE DEF c, n, step
<1>5. n * MinStep = MinStep * n /\ MinStep * n \in Nat
  BY <1>1, <1>3
<1>6. step \in Nat \ {0} /\ MinStep <= step /\ c <= step
  BY <1>1, <1>2, <1>3, <1>4, <1>5
<1>7. TargetPoints * c <= TargetPoints * step
  BY <1>1, <1>2, <1>6, Multiples
<1>8. TargetPoints * step = step * TargetPoints /\ TargetPoints * c \in Nat /\ TargetPoints * step \in Nat
  BY <1>1, <1>2, <1>6
<1>9. range <= step * TargetPoints
  BY <1>2, <1>7, <1>8
<1>10. range \div step <= TargetPoints
  BY <1>1, <1>6, <1>9, QuotientBound
<1> QED BY <1>6, <1>10 DEF step

-----------------------------------------------------------------------------
(* Timestamps. *)

\* The timestamps of a range are no more than its whole steps and its start.
LEMMA TimestampsCounted ==
    ASSUME NEW q, q.start \in Nat, q.end \in Nat, q.start <= q.end, q.step \in Nat \ {0}
    PROVE  Cardinality(Timestamps(q)) <= (q.end - q.start) \div q.step + 1
<1> DEFINE a == q.start
           d == q.step
           n == (q.end - a) \div d
           T == Timestamps(q)
           f == [t \in T |-> (t - a) \div d]
<1>1. q.end - a \in Nat
  OBVIOUS
<1>2. n \in Nat
  BY <1>1, DivMod
<1>3. ASSUME NEW t \in T
      PROVE  /\ t - a \in Nat /\ t \in Nat
             /\ (t - a) \div d \in 0 .. n
             /\ t - a = d * ((t - a) \div d)
  <2>1. t \in a .. q.end /\ (t - a) % d = 0
    BY <1>3 DEF Timestamps
  <2>2. t - a \in Nat /\ t \in Nat /\ t - a <= q.end - a
    BY <2>1
  <2>3. (t - a) \div d \in Nat /\ t - a = d * ((t - a) \div d)
    BY <2>1, <2>2, DivMod
  <2>4. (t - a) \div d <= n
    BY <1>1, <2>2, DivMonotone
  <2> QED BY <1>2, <2>2, <2>3, <2>4
<1>4. f \in [T -> 0 .. n]
  BY <1>3
<1>5. ASSUME NEW t \in T, NEW u \in T, f[t] = f[u] PROVE t = u
  <2>1. t - a = u - a /\ t \in Nat /\ u \in Nat
    BY <1>3, <1>5
  <2> QED BY <2>1
<1>6. f \in Injection(T, 0 .. n)
  BY <1>4, <1>5 DEF Injection, IsInjective
<1> HIDE DEF f, n, T
<1>7. IsFiniteSet(0 .. n) /\ Cardinality(0 .. n) = n + 1
  <2>1. n - 0 + 1 = n + 1 /\ ~(0 > n) /\ n \in Int /\ 0 \in Int
    BY <1>2
  <2>2. IsFiniteSet(0 .. n) /\ Cardinality(0 .. n) = IF 0 > n THEN 0 ELSE n - 0 + 1
    BY ONLY <2>1, FS_Interval
  <2> QED BY <2>1, <2>2
<1>8. Cardinality(T) <= n + 1
  BY <1>6, <1>7, FS_Injection
<1> QED BY <1>8 DEF T, n

-----------------------------------------------------------------------------
(* Quantiles: what a list names, each once. *)

\* A set of naturals that is not empty has a least element.
LEMMA Least ==
    ASSUME NEW S, S \subseteq Nat, S # {}
    PROVE  \E x \in S : \A y \in S : x <= y
<1>1. \E x \in S : \A y \in S : ~(<<y, x>> \in OpToRel(<, Nat))
  BY NatLessThanWellFounded, WFMin
<1>2. PICK x \in S : \A y \in S : ~(<<y, x>> \in OpToRel(<, Nat))
  BY <1>1
<1>3. ASSUME NEW y \in S PROVE x <= y
  <2>1. x \in Nat /\ y \in Nat
    OBVIOUS
  <2>2. ~(<<y, x>> \in OpToRel(<, Nat))
    BY <1>2
  <2>3. ~(y < x)
    BY <2>1, <2>2 DEF OpToRel
  <2> QED BY <2>1, <2>3
<1> QED BY <1>3

\* The places where a list names something for the first time.
FirstNamed(s) == {i \in DOMAIN s : \A j \in 1 .. i - 1 : s[j] # s[i]}

\* There are no more first places than quantiles, and they name all that is named.
LEMMA FirstNamedOnce ==
    ASSUME NEW s \in Seq(Quantiles)
    PROVE  /\ FirstNamed(s) \subseteq 1 .. Len(s) /\ IsFiniteSet(FirstNamed(s))
           /\ Cardinality(FirstNamed(s)) \in Nat
           /\ Cardinality(FirstNamed(s)) <= Cardinality(Quantiles)
           /\ \A k \in DOMAIN s : \E i \in FirstNamed(s) : s[i] = s[k]
<1>1. DOMAIN s = 1 .. Len(s) /\ Len(s) \in Nat /\ \A i \in 1 .. Len(s) : s[i] \in Quantiles
  OBVIOUS
<1>2. FirstNamed(s) \subseteq 1 .. Len(s)
  BY <1>1 DEF FirstNamed
<1>3. IsFiniteSet(FirstNamed(s)) /\ Cardinality(FirstNamed(s)) \in Nat
  <2>1. IsFiniteSet(1 .. Len(s))
    BY <1>1, FS_Interval
  <2> QED BY <1>2, <2>1, FS_Subset, FS_CardinalityType
<1>4. Cardinality(FirstNamed(s)) <= Cardinality(Quantiles)
  <2> DEFINE g == [i \in FirstNamed(s) |-> s[i]]
  <2>1. ASSUME NEW i \in FirstNamed(s), NEW j \in FirstNamed(s), s[i] = s[j] PROVE i = j
    <3>1. i \in Nat /\ j \in Nat /\ 1 <= i /\ 1 <= j
      BY <1>1, <1>2
    <3>2. ~(i < j) /\ ~(j < i)
      BY <2>1, <3>1 DEF FirstNamed
    <3> QED BY <3>1, <3>2
  <2>2. g \in [FirstNamed(s) -> Quantiles]
    BY <1>1, <1>2
  <2>3. g \in Injection(FirstNamed(s), Quantiles)
    BY <2>1, <2>2 DEF Injection, IsInjective
  <2> QED BY <2>3, FS_Injection, RawQueryAssumption
<1>5. ASSUME NEW k \in DOMAIN s PROVE \E i \in FirstNamed(s) : s[i] = s[k]
  <2> DEFINE same == {i \in 1 .. Len(s) : s[i] = s[k]}
  <2>1. PICK i \in same : \A j \in same : i <= j
    <3>1. same \subseteq Nat /\ k \in same
      BY <1>1
    <3> QED BY <3>1, Least
  <2>2. ASSUME NEW j \in 1 .. i - 1 PROVE s[j] # s[i]
    <3>1. j \in 1 .. Len(s) /\ ~(i <= j)
      BY <1>1
    <3> QED BY <2>1, <3>1
  <2> QED BY <1>1, <2>2 DEF FirstNamed
<1> QED BY <1>2, <1>3, <1>4, <1>5

\* How many first places there are up to one.
Place(s, i) == Cardinality({j \in FirstNamed(s) : j <= i})

\* First places are numbered one after the other.
LEMMA PlacesNumbered ==
    ASSUME NEW s \in Seq(Quantiles)
    PROVE  LET N == Cardinality(FirstNamed(s)) IN
           /\ \A i \in FirstNamed(s) : Place(s, i) \in 1 .. N
           /\ \A i, j \in FirstNamed(s) : Place(s, i) = Place(s, j) => i = j
           /\ \A n \in 1 .. N : \E i \in FirstNamed(s) : Place(s, i) = n
<1> DEFINE F == FirstNamed(s)
           N == Cardinality(F)
           UpTo(i) == {j \in F : j <= i}
<1>1. F \subseteq Nat /\ IsFiniteSet(F) /\ N \in Nat
  BY FirstNamedOnce
<1> HIDE DEF F
<1>2. ASSUME NEW i \in F
      PROVE  /\ IsFiniteSet(UpTo(i)) /\ Cardinality(UpTo(i)) \in 1 .. N
  <2>1. UpTo(i) \subseteq F /\ i \in UpTo(i)
    BY <1>1
  <2>2. IsFiniteSet(UpTo(i)) /\ Cardinality(UpTo(i)) <= N /\ Cardinality(UpTo(i)) \in Nat
    BY <1>1, <2>1, FS_Subset, FS_CardinalityType
  <2>3. Cardinality(UpTo(i)) # 0
    BY <2>1, <2>2, FS_EmptySet
  <2> QED BY <1>1, <2>2, <2>3
<1>3. ASSUME NEW i \in F, NEW j \in F, Cardinality(UpTo(i)) = Cardinality(UpTo(j)), i < j
      PROVE  FALSE
  <2>1. i \in Nat /\ j \in Nat /\ j <= j /\ ~(j <= i)
    BY <1>1, <1>3
  <2>2. j \in UpTo(j) /\ j \notin UpTo(i)
    BY <2>1
  <2>3. ASSUME NEW k \in UpTo(i) PROVE k \in UpTo(j)
    <3>1. k \in F /\ k \in Nat /\ k <= i
      BY <1>1
    <3> QED BY <1>3, <2>1, <3>1
  <2>4. UpTo(i) = UpTo(j)
    <3> HIDE DEF UpTo
    <3> QED BY <1>2, <1>3, <2>3, FS_Subset
  <2> QED BY <2>2, <2>4
<1>4. ASSUME NEW i \in F, NEW j \in F, Cardinality(UpTo(i)) = Cardinality(UpTo(j)) PROVE i = j
  <2>1. ~(i < j) /\ ~(j < i)
    BY <1>3, <1>4
  <2> QED BY <1>1, <2>1
<1> DEFINE place == [i \in F |-> Cardinality(UpTo(i))]
<1>5. place \in [F -> 1 .. N]
  BY <1>2
<1>6. place \in Injection(F, 1 .. N)
  <2> HIDE DEF UpTo
  <2> QED BY <1>4, <1>5 DEF Injection, IsInjective
<1>7. IsFiniteSet(1 .. N) /\ Cardinality(1 .. N) = N
  <2> HIDE DEF N
  <2>1. IsFiniteSet(1 .. N) /\ Cardinality(1 .. N) = IF 1 > N THEN 0 ELSE N - 1 + 1
    BY <1>1, FS_Interval
  <2> QED BY <1>1, <2>1
<1>8. place \in Surjection(F, 1 .. N)
  <2> HIDE DEF place
  <2> QED BY <1>6, <1>7, FS_Injection
<1>9. \A n \in 1 .. N : \E i \in F : Cardinality(UpTo(i)) = n
  <2> TAKE n \in 1 .. N
  <2>1. PICK i \in F : place[i] = n
    BY <1>8 DEF Surjection
  <2> QED BY <2>1
<1> QED BY <1>2, <1>4, <1>9 DEF F, Place

\* What a list names is kept, each once.
LEMMA NamedOnce ==
    ASSUME NEW p, p.q \in Seq(Quantiles), p.q # <<>>
    PROVE  /\ DOMAIN QuantilesOf(p) = 1 .. Cardinality(FirstNamed(p.q))
           /\ Len(QuantilesOf(p)) = Cardinality(FirstNamed(p.q))
           /\ {QuantilesOf(p)[i] : i \in DOMAIN QuantilesOf(p)} = {p.q[i] : i \in DOMAIN p.q}
<1> DEFINE s == p.q
           F == FirstNamed(s)
           N == Cardinality(F)
           first(n) == CHOOSE i \in F : Place(s, i) = n
           once == [n \in 1 .. N |-> s[first(n)]]
<1>1. QuantilesOf(p) = once
  BY DEF QuantilesOf, FirstNamed, Place
<1>2. /\ F \subseteq DOMAIN s /\ N \in Nat
      /\ \A k \in DOMAIN s : \E i \in F : s[i] = s[k]
  BY FirstNamedOnce DEF FirstNamed
<1>3. /\ \A i \in F : Place(s, i) \in 1 .. N
      /\ \A i, j \in F : Place(s, i) = Place(s, j) => i = j
      /\ \A n \in 1 .. N : \E i \in F : Place(s, i) = n
  BY PlacesNumbered
<1>4. \A i \in DOMAIN s : s[i] \in Quantiles
  OBVIOUS
<1> HIDE DEF s, F, N
<1>5. ASSUME NEW n \in 1 .. N PROVE first(n) \in F /\ Place(s, first(n)) = n
  BY <1>3
<1>6. \A i \in F : first(Place(s, i)) = i
  <2> TAKE i \in F
  <2>1. Place(s, i) \in 1 .. N
    BY <1>3
  <2>2. first(Place(s, i)) \in F /\ Place(s, first(Place(s, i))) = Place(s, i)
    BY <1>5, <2>1
  <2> HIDE DEF first
  <2> QED BY <1>3, <2>2
<1> HIDE DEF first
<1>7. DOMAIN once = 1 .. N /\ once \in Seq(Quantiles) /\ Len(once) = N
  BY <1>2, <1>4, <1>5
<1>8. {once[n] : n \in DOMAIN once} = {s[i] : i \in DOMAIN s}
  <2>1. ASSUME NEW n \in DOMAIN once PROVE \E i \in DOMAIN s : once[n] = s[i]
    BY <1>2, <1>5, <1>7, <2>1
  <2>2. ASSUME NEW k \in DOMAIN s PROVE \E n \in DOMAIN once : once[n] = s[k]
    <3>1. PICK i \in F : s[i] = s[k]
      BY <1>2
    <3>2. Place(s, i) \in DOMAIN once /\ once[Place(s, i)] = s[i]
      BY <1>3, <1>6, <1>7
    <3> QED BY <3>1, <3>2
  <2> HIDE DEF once
  <2> QED BY <2>1, <2>2
<1> HIDE DEF once
<1> QED BY <1>1, <1>7, <1>8 DEF s, F, N

-----------------------------------------------------------------------------
(* What is parsed. *)

\* Numbers are what Times and Steps say, lists what QuantileLists says, and the answer
\* is parse_query's.
Parsed ==
    /\ asOf \in Nat
    /\ params.start \in Nat \cup {Absent, Unreadable}
    /\ params.end \in Nat \cup {Absent, Unreadable}
    /\ params.step \in Nat \cup {Absent, Unreadable}
    /\ params = [f \in DOMAIN params |-> params[f]]
    /\ {"start", "end", "step", "q"} \subseteq DOMAIN params
    /\ params.q \in Seq(Quantiles \cup {"unreadable"})
    /\ parsed # Nothing =>
          parsed = IF Refusal(params) = "none"
                   THEN [refusal |-> "none", query |-> Query(params)]
                   ELSE [refusal |-> Refusal(params)]

\* What parse_query says depends on the parameters and the clock alone.
LEMMA SameAnswer ==
    ASSUME UNCHANGED <<asOf, params>>
    PROVE  Refusal(params)' = Refusal(params) /\ Query(params)' = Query(params)
<1>1. End(params)' = End(params)
  BY DEF End, TimeOf
<1>2. Start(params)' = Start(params)
  BY <1>1 DEF Start, TimeOf
<1>3. RangeOf(params)' = RangeOf(params)
  BY <1>1, <1>2 DEF RangeOf
<1>4. Step(params)' = Step(params)
  BY <1>3 DEF Step
<1>5. Points(params)' = Points(params)
  BY <1>3, <1>4 DEF Points
<1> QED BY <1>1, <1>2, <1>3, <1>4, <1>5 DEF Refusal, Query

LEMMA ParsedInductive ==
    /\ QueryInit => Parsed
    /\ Parsed /\ [QueryNext]_queryVars => Parsed'
<1>1. ASSUME QueryInit PROVE Parsed
  <2>1. PICK t \in Templates \cup {"unknown"} : params = Bare(t)
    BY <1>1 DEF QueryInit
  <2>2. asOf \in Nat /\ parsed = Nothing
    BY <1>1, RawQueryAssumption DEF QueryInit
  <2>3. params.q = <<>> /\ <<>> \in Seq(Quantiles \cup {"unreadable"})
    BY <2>1 DEF Bare
  <2> QED BY <2>1, <2>2, <2>3 DEF Parsed, Bare
<1>2. ASSUME Parsed, Parse PROVE Parsed'
  BY <1>2, SameAnswer DEF Parsed, Parse
<1>3. ASSUME Parsed, NEW f \in DOMAIN Values, Give(f) PROVE Parsed'
  <2>1. PICK v \in Values[f] : params' = [params EXCEPT ![f] = v]
    BY <1>3 DEF Give
  <2>2. /\ DOMAIN params' = DOMAIN params
        /\ params' = [g \in DOMAIN params' |-> params'[g]]
        /\ \A g \in DOMAIN params : params'[g] = IF g = f THEN v ELSE params[g]
    BY <1>3, <2>1 DEF Parsed
  <2>3. f = "start" \/ f = "end" => v \in Nat \cup {Absent, Unreadable}
    <3>1. /\ Values["start"] = Times \cup {Absent, Unreadable}
          /\ Values["end"] = Times \cup {Absent, Unreadable}
      BY DEF Values
    <3> QED BY <2>1, <3>1, RawQueryAssumption
  <2>4. f = "step" => v \in Nat \cup {Absent, Unreadable}
    <3>1. Values["step"] = Steps \cup {Absent, Unreadable}
      BY DEF Values
    <3> QED BY <2>1, <3>1, RawQueryAssumption
  <2>5. /\ params'.start \in Nat \cup {Absent, Unreadable}
        /\ params'.end \in Nat \cup {Absent, Unreadable}
        /\ params'.step \in Nat \cup {Absent, Unreadable}
    BY <1>3, <2>2, <2>3, <2>4 DEF Parsed
  <2>6. parsed' = Nothing /\ asOf' = asOf
    BY <1>3 DEF Give
  <2>7. f = "q" => v \in Seq(Quantiles \cup {"unreadable"})
    <3>1. Values["q"] = QuantileLists \cup {<<>>}
      BY DEF Values
    <3>2. <<>> \in Seq(Quantiles \cup {"unreadable"})
      OBVIOUS
    <3>3. ASSUME f = "q" PROVE v \in QuantileLists \cup {<<>>}
      BY <2>1, <3>1, <3>3
    <3>4. QuantileLists \subseteq Seq(Quantiles \cup {"unreadable"})
      BY RawQueryAssumption
    <3> QED BY ONLY <3>2, <3>3, <3>4
  <2>8. params'.q \in Seq(Quantiles \cup {"unreadable"})
    BY <1>3, <2>2, <2>7 DEF Parsed
  <2> QED BY <1>3, <2>2, <2>5, <2>6, <2>8 DEF Parsed
<1>4. ASSUME Parsed, UNCHANGED queryVars PROVE Parsed'
  BY <1>4, SameAnswer DEF Parsed, queryVars
<1> QED BY <1>1, <1>2, <1>3, <1>4 DEF QueryNext

\* A query that is not refused for its times has a range that can be divided.
LEMMA RangeRead ==
    ASSUME Parsed, Refusal(params) \in {"step", "points", "quantile", "by", "format", "limit", "none"}
    PROVE  /\ Start(params) \in Nat /\ End(params) \in Nat /\ Start(params) <= End(params)
           /\ RangeOf(params) \in Nat /\ RangeOf(params) <= MaxRange
<1>1. /\ params.end # Unreadable /\ params.start # Unreadable
      /\ ~(Start(params) >= End(params)) /\ ~(RangeOf(params) > MaxRange)
  BY DEF Refusal
<1>2. End(params) \in Nat
  BY <1>1 DEF Parsed, End, TimeOf
<1>3. SatSub(End(params), DefaultRange) \in Nat
  BY <1>2, RawQueryAssumption DEF SatSub
<1>4. Start(params) \in Nat
  BY <1>1, <1>3 DEF Parsed, Start, TimeOf
<1> QED BY <1>1, <1>2, <1>4, RawQueryAssumption DEF RangeOf

LEMMA Answered ==
    ASSUME Parsed, parsed # Nothing
    PROVE  /\ parsed.refusal = Refusal(params)
           /\ Accepted => parsed.query = Query(params) /\ Refusal(params) = "none"
<1>1. CASE Refusal(params) = "none"
  <2>1. parsed = [refusal |-> "none", query |-> Query(params)]
    BY <1>1 DEF Parsed
  <2> QED BY <1>1, <2>1
<1>2. CASE Refusal(params) # "none"
  <2>1. parsed = [refusal |-> Refusal(params)]
    BY <1>2 DEF Parsed
  <2> QED BY <1>2, <2>1 DEF Accepted
<1> QED BY <1>1, <1>2

\* The timestamps of an accepted query are no more than parse_query counts.
LEMMA AcceptedCounted ==
    ASSUME Parsed, Accepted, Step(params) \in Nat \ {0}
    PROVE  /\ Cardinality(Timestamps(parsed.query)) <= RangeOf(params) \div Step(params) + 1
           /\ parsed.query.end - parsed.query.start <= MaxRange
           /\ Points(params) <= MaxPoints
           /\ Points(params) = RangeOf(params) \div Step(params) + 1
           /\ RangeOf(params) \div Step(params) \in Nat
<1>1. parsed.query = Query(params) /\ Refusal(params) = "none"
  BY Answered DEF Accepted
<1>2. /\ Start(params) \in Nat /\ End(params) \in Nat /\ Start(params) <= End(params)
      /\ RangeOf(params) \in Nat /\ RangeOf(params) <= MaxRange
  BY <1>1, RangeRead
<1>3. /\ parsed.query.start = Start(params) /\ parsed.query.end = End(params)
      /\ parsed.query.step = Step(params)
  BY <1>1 DEF Query
<1>4. Cardinality(Timestamps(parsed.query)) <= RangeOf(params) \div Step(params) + 1
  BY <1>2, <1>3, TimestampsCounted DEF RangeOf
<1>5. ~(Points(params) > MaxPoints)
  BY <1>1 DEF Refusal
<1>6. RangeOf(params) \div Step(params) \in Nat
  BY <1>2, DivMod
<1>7. Points(params) = RangeOf(params) \div Step(params) + 1
  BY DEF Points
<1>8. Points(params) <= MaxPoints
  BY <1>5, <1>6, <1>7, RawQueryAssumption
<1> QED BY <1>2, <1>3, <1>4, <1>6, <1>7, <1>8 DEF RangeOf

LEMMA CostFollows == Parsed => CostBounded
<1> SUFFICES ASSUME Parsed, Accepted PROVE CostBounded
  BY DEF CostBounded
<1>1. Refusal(params) = "none" /\ parsed # Nothing
  BY Answered DEF Accepted
<1>2. params.step # Unreadable /\ params.step \notin 0 .. MinStep - 1
  BY <1>1 DEF Refusal
<1>3. Step(params) \in Nat \ {0}
  <2>1. CASE params.step = Absent
    BY <1>1, <2>1, RangeRead, DefaultStepCovers DEF Step
  <2>2. CASE params.step # Absent
    <3>1. params.step \in Nat /\ MinStep \in Nat \ {0}
      BY <1>2, <2>2, RawQueryAssumption DEF Parsed
    <3>2. params.step # 0
      BY <1>2, <3>1
    <3> QED BY <2>2, <3>1, <3>2 DEF Step
  <2> QED BY <2>1, <2>2
<1>4. IsFiniteSet(Timestamps(parsed.query)) /\ Cardinality(Timestamps(parsed.query)) \in Nat
  <2>1. parsed.query.start \in Int /\ parsed.query.end \in Int
    BY <1>1, Answered, RangeRead DEF Query
  <2>2. IsFiniteSet(parsed.query.start .. parsed.query.end)
    BY ONLY <2>1, FS_Interval
  <2> QED BY <2>2, FS_Subset, FS_CardinalityType DEF Timestamps
<1>5. /\ Cardinality(Timestamps(parsed.query)) <= RangeOf(params) \div Step(params) + 1
      /\ parsed.query.end - parsed.query.start <= MaxRange
      /\ Points(params) <= MaxPoints
      /\ Points(params) = RangeOf(params) \div Step(params) + 1
      /\ RangeOf(params) \div Step(params) \in Nat
  BY <1>3, AcceptedCounted
<1>6. Cardinality(Timestamps(parsed.query)) <= MaxPoints
  BY <1>4, <1>5, RawQueryAssumption
<1> QED BY <1>5, <1>6 DEF CostBounded

LEMMA DefaultFollows == Parsed => DefaultStepFits
<1> SUFFICES ASSUME Parsed, parsed # Nothing, params.step = Absent
             PROVE  /\ parsed.refusal # "points"
                    /\ Accepted => Cardinality(Timestamps(parsed.query)) <= TargetPoints + 1
  BY DEF DefaultStepFits
<1>1. Step(params) = DefaultStep(RangeOf(params))
  BY DEF Step
<1>2. ASSUME RangeOf(params) \in Nat
      PROVE  /\ Step(params) \in Nat \ {0} /\ RangeOf(params) \div Step(params) <= TargetPoints
             /\ RangeOf(params) \div Step(params) \in Nat
  <2>1. Step(params) \in Nat \ {0} /\ RangeOf(params) \div Step(params) <= TargetPoints
    BY <1>1, <1>2, DefaultStepCovers
  <2> QED BY <1>2, <2>1, DivMod
<1>3. ASSUME parsed.refusal = "points" PROVE FALSE
  <2>1. Refusal(params) = "points"
    BY <1>3, Answered
  <2>2. RangeOf(params) \in Nat
    BY <2>1, RangeRead
  <2>3. Points(params) > MaxPoints
    BY <2>1 DEF Refusal
  <2>4. Points(params) = RangeOf(params) \div Step(params) + 1
    BY DEF Points
  <2> QED BY <1>2, <2>2, <2>3, <2>4, RawQueryAssumption
<1>4. ASSUME Accepted
      PROVE  Cardinality(Timestamps(parsed.query)) <= TargetPoints + 1
  <2>1. Refusal(params) = "none"
    BY <1>4, Answered
  <2>2. RangeOf(params) \in Nat /\ Start(params) \in Nat /\ End(params) \in Nat
    BY <2>1, RangeRead
  <2>3. Cardinality(Timestamps(parsed.query)) <= RangeOf(params) \div Step(params) + 1
    BY <1>2, <1>4, <2>2, AcceptedCounted
  <2>4. Cardinality(Timestamps(parsed.query)) \in Nat
    <3>1. parsed.query.start \in Int /\ parsed.query.end \in Int
      BY <1>4, <2>2, Answered DEF Query
    <3>2. IsFiniteSet(parsed.query.start .. parsed.query.end)
      BY ONLY <3>1, FS_Interval
    <3> QED BY <3>2, FS_Subset, FS_CardinalityType DEF Timestamps
  <2> QED BY <1>2, <2>2, <2>3, <2>4, RawQueryAssumption
<1> QED BY <1>3, <1>4

\* An accepted list is one of quantiles, so that NamedOnce speaks of it.
LEMMA OnceFollows == Parsed => EachQuantileOnce
<1> SUFFICES ASSUME Parsed, Accepted, params.q # <<>>
             PROVE  LET q == parsed.query.quantiles IN
                    /\ {q[i] : i \in DOMAIN q} = {params.q[i] : i \in DOMAIN params.q}
                    /\ Len(q) <= Cardinality(Quantiles)
  BY DEF EachQuantileOnce
<1>1. Refusal(params) = "none" /\ parsed.query = Query(params) /\ parsed # Nothing
  BY Answered DEF Accepted
<1>2. parsed.query.quantiles = QuantilesOf(params)
  BY <1>1 DEF Query
<1>3. params.q \in Seq(Quantiles)
  <2>1. \A i \in DOMAIN params.q : params.q[i] \in Quantiles
    BY <1>1 DEF Refusal
  <2>2. params.q \in Seq(Quantiles \cup {"unreadable"})
    BY DEF Parsed
  <2> QED BY ONLY <2>1, <2>2
<1>4. /\ Len(QuantilesOf(params)) = Cardinality(FirstNamed(params.q))
      /\ {QuantilesOf(params)[i] : i \in DOMAIN QuantilesOf(params)}
           = {params.q[i] : i \in DOMAIN params.q}
  BY <1>3, NamedOnce
<1>5. Cardinality(FirstNamed(params.q)) <= Cardinality(Quantiles)
  BY <1>3, FirstNamedOnce
<1> QED BY ONLY <1>2, <1>4, <1>5

\* An accepted query has at most MAX_POINTS timestamps and at most the longest range.
THEOREM CostAlwaysBounded == QuerySpec => []CostBounded
BY ParsedInductive, CostFollows, PTL DEF QuerySpec

\* A query that names no step is never refused for too many points, and has about the
\* targeted number of them, for any target below the limit.
THEOREM DefaultStepAlwaysFits == QuerySpec => []DefaultStepFits
BY ParsedInductive, DefaultFollows, PTL DEF QuerySpec

\* Whatever is accepted fits: in points and range, by default too, and in the queries
\* it makes upstream.
THEOREM QueriesFit == QuerySpec => []QueryFits
<1>1. Parsed => QueryFits
  BY CostFollows, DefaultFollows, OnceFollows DEF QueryFits
<1> QED BY <1>1, ParsedInductive, PTL DEF QuerySpec

-----------------------------------------------------------------------------
(* Answers: what a loop over a list computes. *)

\* Induction along a list: what holds before its first element, and after each if it
\* held before, holds at every length.  What holds is given as a set of lengths.
LEMMA AtEveryLength ==
    ASSUME NEW n \in Nat, NEW A, 0 \in A, \A k \in 1 .. n : k - 1 \in A => k \in A
    PROVE  \A k \in 0 .. n : k \in A
<1> DEFINE missed == {k \in 0 .. n : k \notin A}
<1> SUFFICES ASSUME missed # {} PROVE FALSE
  OBVIOUS
<1>1. missed \subseteq Nat
  OBVIOUS
<1>2. PICK k \in missed : \A m \in missed : k <= m
  <2> HIDE DEF missed
  <2> QED BY <1>1, Least
<1>3. k \in 1 .. n
  OBVIOUS
<1>4. k - 1 \notin missed
  BY <1>2, <1>3
<1> QED BY <1>2, <1>3, <1>4

\* A loop over n elements: what each does to a state, and the states it goes through.
Turns(n, X) == [1 .. n -> [X -> X]]

IsRun(f, n, X, start, step) ==
    /\ f \in [0 .. n -> X]
    /\ f[0] = start
    /\ \A k \in 1 .. n : f[k] = step[k][f[k - 1]]

LEMMA LoopRuns ==
    ASSUME NEW n \in Nat, NEW X, NEW start \in X, NEW step \in Turns(n, X)
    PROVE  \E f : IsRun(f, n, X, start, step)
<1> USE DEF Turns
<1> DEFINE Follows(f, m) ==
             \A k \in 0 .. m : f[k] = IF k = 0 THEN start ELSE step[k][f[k - 1]]
           A == {m \in 0 .. n : \E f \in [0 .. m -> X] : Follows(f, m)}
<1>1. 0 \in A
  <2> DEFINE g == [k \in 0 .. 0 |-> start]
  <2>1. g \in [0 .. 0 -> X] /\ g[0] = start
    OBVIOUS
  <2>2. Follows(g, 0)
    BY <2>1
  <2> HIDE DEF g
  <2> QED BY <2>1, <2>2
<1>2. ASSUME NEW m \in 1 .. n, m - 1 \in A PROVE m \in A
  <2>1. PICK f \in [0 .. m - 1 -> X] : Follows(f, m - 1)
    BY <1>2
  <2> DEFINE g == [k \in 0 .. m |-> IF k = m THEN step[m][f[m - 1]] ELSE f[k]]
  <2>2. f[m - 1] \in X
    OBVIOUS
  <2>3. step[m][f[m - 1]] \in X
    BY <2>2
  <2>4. g \in [0 .. m -> X]
    BY <2>3
  <2>5. ASSUME NEW k \in 0 .. m
        PROVE  g[k] = IF k = 0 THEN start ELSE step[k][g[k - 1]]
    <3>1. CASE k = m
      BY <3>1
    <3>2. CASE k # m
      <4>1. k \in 0 .. m - 1 /\ g[k] = f[k]
        BY <3>2
      <4>2. k # 0 => g[k - 1] = f[k - 1]
        BY <4>1
      <4> QED BY <2>1, <4>1, <4>2
    <3> QED BY <3>1, <3>2
  <2>6. Follows(g, m)
    BY <2>5
  <2> HIDE DEF g
  <2> QED BY <2>4, <2>6
<1>3. n \in A
  <2> HIDE DEF A
  <2>1. \A k \in 0 .. n : k \in A
    BY <1>1, <1>2, AtEveryLength
  <2> QED BY <2>1
<1>4. PICK f \in [0 .. n -> X] : Follows(f, n)
  BY <1>3
<1>5. f[0] = start /\ \A k \in 1 .. n : f[k] = step[k][f[k - 1]]
  BY <1>4
<1> QED BY <1>5 DEF IsRun

-----------------------------------------------------------------------------
(* Answers: the loops of to_series and of compute_win_rates. *)

\* Finite points of some of the timestamps, a series made of them, what a reply holds.
FinitePoints == UNION {[D -> Readings] : D \in SUBSET Instants[template]}
Labels == {"mean"} \cup {AskedQuantiles[i] : i \in DOMAIN AskedQuantiles}
Row == [provider : Providers, label : Labels, points : FinitePoints]
Raw == [provider : Providers \cup {"none"}, points : RawPoints]

\* Who leads at some of the timestamps.
Standings == UNION {[D -> [provider : Providers, value : Readings]] :
                    D \in SUBSET Instants[template]}

LEMMA PointsTyped ==
    /\ \A points \in FinitePoints : DOMAIN points \subseteq Instants[template]
                              /\ \A t \in DOMAIN points : points[t] \in Readings
    /\ \A points \in RawPoints : Finite(points) \in FinitePoints
    /\ \A s \in Standings : DOMAIN s \subseteq Instants[template]
                            /\ \A t \in DOMAIN s : s[t] \in [provider : Providers, value : Readings]
<1>1. ASSUME NEW points \in FinitePoints
      PROVE  DOMAIN points \subseteq Instants[template] /\ \A t \in DOMAIN points : points[t] \in Readings
  BY DEF FinitePoints
<1>2. ASSUME NEW points \in RawPoints PROVE Finite(points) \in FinitePoints
  <2>1. PICK T \in SUBSET Instants[template] : points \in [T -> Readings \cup {NotFinite}]
    BY DEF RawPoints
  <2> DEFINE D == {u \in DOMAIN points : points[u] # NotFinite}
  <2>2. D \in SUBSET Instants[template] /\ Finite(points) \in [D -> Readings]
    BY <2>1 DEF Finite
  <2> QED BY <2>2 DEF FinitePoints
<1>3. ASSUME NEW s \in Standings
      PROVE  DOMAIN s \subseteq Instants[template]
             /\ \A t \in DOMAIN s : s[t] \in [provider : Providers, value : Readings]
  BY DEF Standings
<1> QED BY <1>1, <1>2, <1>3

\* One more series keeps the standings what they are.
LEMMA MergeTyped ==
    ASSUME NEW s \in Standings, NEW row \in Row
    PROVE  Merge(s, row) \in Standings
<1> DEFINE D == DOMAIN s \cup DOMAIN row.points
<1>1. row.points \in FinitePoints /\ row.provider \in Providers
  BY DEF Row
<1>2. D \in SUBSET Instants[template]
  BY <1>1, PointsTyped
<1>3. \A t \in DOMAIN row.points :
         [provider |-> row.provider, value |-> row.points[t]] \in [provider : Providers, value : Readings]
  BY <1>1, PointsTyped
<1>4. \A t \in DOMAIN s : s[t] \in [provider : Providers, value : Readings]
  BY PointsTyped
<1>5. ASSUME NEW t \in D PROVE Merge(s, row)[t] \in [provider : Providers, value : Readings]
  BY <1>3, <1>4 DEF Merge
<1>6. Merge(s, row) \in [D -> [provider : Providers, value : Readings]]
  <2>1. Merge(s, row) = [t \in D |-> Merge(s, row)[t]]
    BY DEF Merge
  <2> QED BY <1>5, <2>1
<1> QED BY <1>2, <1>6 DEF Standings

\* The loop over the series does what it says.
LEMMA WinnersLoop ==
    ASSUME NEW all \in Seq(Row)
    PROVE  LET w == WinnersAfter(all) IN
           /\ w \in [0 .. Len(all) -> Standings]
           /\ w[0] = [t \in {} |-> 0]
           /\ \A n \in 1 .. Len(all) : w[n] = Merge(w[n - 1], all[n])
<1> DEFINE none == [t \in {} |-> 0]
           step == [k \in 1 .. Len(all) |-> [s \in Standings |-> Merge(s, all[k])]]
           Loops(w) == w = [n \in 0 .. Len(all) |-> IF n = 0 THEN none ELSE Merge(w[n - 1], all[n])]
<1>1. none \in Standings
  <2>1. {} \in SUBSET Instants[template] /\ none \in [{} -> [provider : Providers, value : Readings]]
    OBVIOUS
  <2> QED BY <2>1 DEF Standings
<1>2. step \in [1 .. Len(all) -> [Standings -> Standings]]
  <2>1. \A k \in 1 .. Len(all) : all[k] \in Row
    OBVIOUS
  <2> QED BY <2>1, MergeTyped
<1>3. Len(all) \in Nat
  OBVIOUS
<1>4. PICK f : IsRun(f, Len(all), Standings, none, step)
  <2> HIDE DEF none, step
  <2>1. step \in Turns(Len(all), Standings)
    BY <1>2 DEF Turns
  <2> QED BY <1>1, <1>3, <2>1, LoopRuns
<1>5. ASSUME NEW n \in 1 .. Len(all) PROVE f[n] = Merge(f[n - 1], all[n])
  <2> HIDE DEF none
  <2>1. f[n - 1] \in Standings
    BY <1>4 DEF IsRun
  <2>2. f[n] = step[n][f[n - 1]]
    BY <1>4 DEF IsRun
  <2> QED BY <2>1, <2>2
<1>6. f[0] = none
  BY <1>4 DEF IsRun
<1>7. Loops(f)
  <2>1. f = [k \in 0 .. Len(all) |-> f[k]]
    BY <1>4 DEF IsRun
  <2>2. \A k \in 0 .. Len(all) : f[k] = IF k = 0 THEN none ELSE Merge(f[k - 1], all[k])
    <3> HIDE DEF none
    <3> QED BY <1>5, <1>6
  <2> HIDE DEF none
  <2> QED BY <2>1, <2>2
<1>8. WinnersAfter(all) = CHOOSE w : Loops(w)
  BY DEF WinnersAfter
<1> DEFINE w == WinnersAfter(all)
<1>9. Loops(w)
  <2> HIDE DEF Loops
  <2> QED BY <1>7, <1>8
<1>10. w[0] = none /\ \A n \in 1 .. Len(all) : w[n] = Merge(w[n - 1], all[n])
  <2> HIDE DEF none, w
  <2> QED BY <1>9
<1>11. \A k \in 0 .. Len(all) : w[k] \in Standings
  <2> DEFINE A == {k \in 0 .. Len(all) : w[k] \in Standings}
  <2> HIDE DEF none, w
  <2>1. 0 \in A
    BY <1>1, <1>10
  <2>2. ASSUME NEW k \in 1 .. Len(all), k - 1 \in A PROVE k \in A
    <3>1. w[k - 1] \in Standings /\ all[k] \in Row
      BY <2>2
    <3> QED BY <1>10, <3>1, MergeTyped
  <2> HIDE DEF A
  <2>3. \A k \in 0 .. Len(all) : k \in A
    BY <2>1, <2>2, <1>3, AtEveryLength
  <2> QED BY <2>3 DEF A
<1>12. w \in [0 .. Len(all) -> Standings]
  <2>1. w = [k \in 0 .. Len(all) |-> w[k]]
    <3> HIDE DEF none, w
    <3>1. DOMAIN w = 0 .. Len(all) /\ w = [k \in DOMAIN w |-> w[k]]
      BY <1>9
    <3> QED BY <3>1
  <2> HIDE DEF w
  <2> QED BY <1>11, <2>1
<1> QED BY <1>10, <1>12

\* Row i of a list leads at a timestamp among the first n: it has a point there, and
\* none of them a lower one.
Leads(all, i, n, t) ==
    /\ i \in 1 .. n /\ t \in DOMAIN all[i].points
    /\ \A j \in 1 .. n : t \in DOMAIN all[j].points => all[i].points[t] <= all[j].points[t]

\* Who leads after n series: someone at every timestamp that has a point.
Lead(all, n, s) ==
    /\ \A t : t \in DOMAIN s <=> \E i \in 1 .. n : t \in DOMAIN all[i].points
    /\ \A t \in DOMAIN s : \E i \in 1 .. n :
         /\ Leads(all, i, n, t)
         /\ s[t] = [provider |-> all[i].provider, value |-> all[i].points[t]]

LEMMA WinnersLead ==
    ASSUME NEW all \in Seq(Row)
    PROVE  Winners(all) \in Standings /\ Lead(all, Len(all), Winners(all))
<1> DEFINE w == WinnersAfter(all)
           A == {k \in 0 .. Len(all) : Lead(all, k, w[k])}
<1>1. /\ w \in [0 .. Len(all) -> Standings]
      /\ w[0] = [t \in {} |-> 0]
      /\ \A n \in 1 .. Len(all) : w[n] = Merge(w[n - 1], all[n])
  BY WinnersLoop
<1> HIDE DEF w
<1>2. Len(all) \in Nat /\ \A k \in 1 .. Len(all) : all[k] \in Row
  OBVIOUS
<1>3. 0 \in A
  <2>1. DOMAIN w[0] = {}
    BY <1>1
  <2> QED BY <2>1 DEF Lead
<1>4. ASSUME NEW n \in 1 .. Len(all), n - 1 \in A PROVE n \in A
  <2>1. Lead(all, n - 1, w[n - 1]) /\ w[n - 1] \in Standings /\ n \in Nat /\ n - 1 \in 0 .. Len(all)
    BY <1>1, <1>4
  <2>2. w[n] = Merge(w[n - 1], all[n]) /\ all[n] \in Row
    BY <1>1, <1>2
  <2>3. DOMAIN w[n] = DOMAIN w[n - 1] \cup DOMAIN all[n].points
    BY <2>2 DEF Merge
  <2>4. \A i : i \in 1 .. n <=> i \in 1 .. n - 1 \/ i = n
    OBVIOUS
  <2>5. \A t : t \in DOMAIN w[n] <=> \E i \in 1 .. n : t \in DOMAIN all[i].points
    BY <2>1, <2>3, <2>4 DEF Lead
  <2>6. \A i \in 1 .. n : \A t \in DOMAIN all[i].points : all[i].points[t] \in Nat
    <3>1. ASSUME NEW i \in 1 .. n, NEW t \in DOMAIN all[i].points PROVE all[i].points[t] \in Nat
      <4>1. all[i] \in Row
        BY <1>2
      <4>2. all[i].points \in FinitePoints
        BY <4>1 DEF Row
      <4> QED BY <4>2, PointsTyped, RawAnswerAssumption
    <3> QED BY <3>1
  <2>7. ASSUME NEW t \in DOMAIN w[n]
        PROVE  \E i \in 1 .. n :
                  /\ Leads(all, i, n, t)
                  /\ w[n][t] = [provider |-> all[i].provider, value |-> all[i].points[t]]
    <3> DEFINE takes == t \in DOMAIN all[n].points
                        /\ (t \in DOMAIN w[n - 1] => all[n].points[t] < w[n - 1][t].value)
    <3>1. w[n][t] = IF takes THEN [provider |-> all[n].provider, value |-> all[n].points[t]]
                             ELSE w[n - 1][t]
      BY <2>2, <2>3 DEF Merge
    <3>2. CASE t \notin DOMAIN w[n - 1]
      <4>1. t \in DOMAIN all[n].points /\ takes
        BY <2>3, <3>2
      <4>2. \A j \in 1 .. n - 1 : t \notin DOMAIN all[j].points
        BY <2>1, <3>2 DEF Lead
      <4>3. Leads(all, n, n, t)
        BY <2>4, <2>6, <4>1, <4>2 DEF Leads
      <4> QED BY <3>1, <4>1, <4>3 DEF Leads
    <3>3. CASE t \in DOMAIN w[n - 1]
      <4>1. PICK i \in 1 .. n - 1 :
               /\ Leads(all, i, n - 1, t)
               /\ w[n - 1][t] = [provider |-> all[i].provider, value |-> all[i].points[t]]
        BY <2>1, <3>3 DEF Lead
      <4>2. w[n - 1][t].value = all[i].points[t] /\ i \in 1 .. n
        BY <4>1
      <4>3. t \in DOMAIN all[i].points /\ all[i].points[t] \in Nat
        BY <2>6, <4>1, <4>2 DEF Leads
      <4>4. CASE takes
        <5>1. all[n].points[t] < all[i].points[t]
          BY <3>3, <4>2, <4>4
        <5>2. \A j \in 1 .. n - 1 : t \in DOMAIN all[j].points => all[i].points[t] <= all[j].points[t]
          BY <4>1 DEF Leads
        <5>3. Leads(all, n, n, t)
          BY <2>4, <2>6, <4>3, <4>4, <5>1, <5>2 DEF Leads
        <5> QED BY <3>1, <4>4, <5>3 DEF Leads
      <4>5. CASE ~takes
        <5>1. t \in DOMAIN all[n].points => all[i].points[t] <= all[n].points[t]
          BY <2>6, <3>3, <4>2, <4>3, <4>5
        <5>2. Leads(all, i, n, t)
          BY <2>4, <4>1, <4>2, <5>1 DEF Leads
        <5> QED BY <3>1, <4>1, <4>2, <4>5, <5>2
      <4> QED BY <4>4, <4>5
    <3> QED BY <3>2, <3>3
  <2> QED BY <2>5, <2>7 DEF Lead
<1>5. \A k \in 0 .. Len(all) : k \in A
  <2> HIDE DEF A
  <2> QED BY <1>2, <1>3, <1>4, AtEveryLength
<1>6. Winners(all) = w[Len(all)]
  BY DEF Winners, w
<1> QED BY <1>1, <1>2, <1>5, <1>6

\* The loop over a reply's series keeps those with a provider.
Listed(reply, n, label) ==
    {Series(reply[i], label) : i \in {j \in 1 .. n : reply[j].provider # "none"}}

LEMMA SeriesLoop ==
    ASSUME NEW reply \in Seq(Raw), NEW label \in Labels
    PROVE  LET made == SeriesAfter(reply, label) IN
           /\ made \in [0 .. Len(reply) -> Seq(Row)]
           /\ made[0] = <<>>
           /\ \A n \in 1 .. Len(reply) :
                made[n] = IF reply[n].provider = "none" THEN made[n - 1]
                          ELSE Append(made[n - 1], Series(reply[n], label))
<1> DEFINE Turn(m, n) == IF reply[n].provider = "none" THEN m ELSE Append(m, Series(reply[n], label))
           X == Seq(Row)
           step == [k \in 1 .. Len(reply) |-> [m \in X |-> Turn(m, k)]]
           Loops(f) == f = [n \in 0 .. Len(reply) |-> IF n = 0 THEN <<>> ELSE Turn(f[n - 1], n)]
<1>1. ASSUME NEW k \in 1 .. Len(reply), NEW m \in X PROVE Turn(m, k) \in X
  <2>1. reply[k] \in Raw
    OBVIOUS
  <2>2. CASE reply[k].provider # "none"
    <3>1. reply[k].provider \in Providers /\ Finite(reply[k].points) \in FinitePoints
      BY <2>1, <2>2, PointsTyped DEF Raw
    <3>2. Series(reply[k], label) \in Row
      BY <3>1 DEF Series, Row
    <3> QED BY <2>2, <3>2
  <2> QED BY <2>2
<1>2. step \in Turns(Len(reply), X) /\ <<>> \in X /\ Len(reply) \in Nat
  <2>1. step \in [1 .. Len(reply) -> [X -> X]]
    <3> HIDE DEF Turn, X
    <3> QED BY <1>1
  <2>2. <<>> \in X /\ Len(reply) \in Nat
    OBVIOUS
  <2> HIDE DEF step, X
  <2> QED BY <2>1, <2>2 DEF Turns
<1>3. PICK f : IsRun(f, Len(reply), X, <<>>, step)
  <2> HIDE DEF step, X
  <2> QED BY <1>2, LoopRuns
<1>4. ASSUME NEW n \in 1 .. Len(reply) PROVE f[n] = Turn(f[n - 1], n)
  <2> HIDE DEF Turn, X
  <2>1. f[n - 1] \in X /\ f[n] = step[n][f[n - 1]]
    BY <1>3 DEF IsRun
  <2> QED BY <2>1
<1>5. f[0] = <<>> /\ f = [k \in 0 .. Len(reply) |-> f[k]]
  <2> HIDE DEF step, X
  <2> QED BY <1>3 DEF IsRun
<1>6. Loops(f)
  <2> HIDE DEF Turn
  <2>1. \A n \in 0 .. Len(reply) : f[n] = IF n = 0 THEN <<>> ELSE Turn(f[n - 1], n)
    BY <1>4, <1>5
  <2> QED BY <1>5, <2>1
<1> DEFINE made == SeriesAfter(reply, label)
<1>7. Loops(made)
  <2>1. made = CHOOSE g : Loops(g)
    BY DEF SeriesAfter
  <2> HIDE DEF Loops
  <2> QED BY <1>6, <2>1
<1> HIDE DEF made
<1>8. made[0] = <<>> /\ \A n \in 1 .. Len(reply) : made[n] = Turn(made[n - 1], n)
  <2> HIDE DEF Turn
  <2> QED BY <1>7
<1>9. \A k \in 0 .. Len(reply) : made[k] \in X
  <2> DEFINE A == {k \in 0 .. Len(reply) : made[k] \in X}
  <2>1. 0 \in A
    <3> HIDE DEF Turn, X
    <3> QED BY <1>2, <1>8
  <2>2. ASSUME NEW k \in 1 .. Len(reply), k - 1 \in A PROVE k \in A
    <3> HIDE DEF Turn
    <3>1. made[k] = Turn(made[k - 1], k) /\ made[k - 1] \in X
      BY <1>8, <2>2
    <3> QED BY <1>1, <3>1
  <2> HIDE DEF A
  <2>3. \A k \in 0 .. Len(reply) : k \in A
    BY <1>2, <2>1, <2>2, AtEveryLength
  <2> QED BY <2>3 DEF A
<1>10. made = [k \in 0 .. Len(reply) |-> made[k]]
  <2>1. DOMAIN made = 0 .. Len(reply) /\ made = [k \in DOMAIN made |-> made[k]]
    <3> HIDE DEF Turn
    <3> QED BY <1>7
  <2> QED BY <2>1
<1>11. made \in [0 .. Len(reply) -> X]
  <2> HIDE DEF X
  <2> QED BY <1>9, <1>10
<1> QED BY <1>8, <1>11 DEF made

\* What a list holds, and that no provider is in it twice under one label.
Rows(s) == {s[j] : j \in DOMAIN s}

Differ(x, y) == x.provider # y.provider \/ x.label # y.label

Distinct(s) == \A i, j \in DOMAIN s : i # j => Differ(s[i], s[j])

LEMMA AppendRow ==
    ASSUME NEW s \in Seq(Row), NEW x \in Row
    PROVE  /\ Rows(Append(s, x)) = Rows(s) \cup {x}
           /\ Distinct(s) /\ (\A y \in Rows(s) : Differ(x, y)) => Distinct(Append(s, x))
<1> DEFINE a == Append(s, x)
<1>1. /\ Len(s) \in Nat /\ DOMAIN s = 1 .. Len(s) /\ DOMAIN a = 1 .. Len(s) + 1
      /\ \A i \in 1 .. Len(s) : a[i] = s[i]
      /\ a[Len(s) + 1] = x
  OBVIOUS
<1> HIDE DEF a
<1>2. \A i : i \in DOMAIN a <=> i \in DOMAIN s \/ i = Len(s) + 1
  BY <1>1
<1>3. Rows(a) = Rows(s) \cup {x}
  BY <1>1, <1>2 DEF Rows
<1>4. ASSUME Distinct(s), \A y \in Rows(s) : Differ(x, y) PROVE Distinct(a)
  <2>1. ASSUME NEW i \in DOMAIN a, NEW j \in DOMAIN a, i # j PROVE Differ(a[i], a[j])
    <3>1. CASE i \in DOMAIN s /\ j \in DOMAIN s
      BY <1>1, <1>4, <2>1, <3>1 DEF Distinct
    <3>2. CASE i = Len(s) + 1 /\ j \in DOMAIN s
      BY <1>1, <1>4, <3>2 DEF Rows
    <3>3. CASE i \in DOMAIN s /\ j = Len(s) + 1
      <4>1. Differ(x, s[i])
        BY <1>4, <3>3 DEF Rows
      <4> QED BY <1>1, <3>3, <4>1 DEF Differ
    <3> QED BY <1>2, <2>1, <3>1, <3>2, <3>3
  <2> QED BY <2>1 DEF Distinct
<1> QED BY <1>3, <1>4 DEF a

LEMMA JoinRows ==
    ASSUME NEW s \in Seq(Row), NEW t \in Seq(Row)
    PROVE  /\ s \o t \in Seq(Row) /\ Rows(s \o t) = Rows(s) \cup Rows(t)
           /\ Distinct(s) /\ Distinct(t) /\ (\A x \in Rows(s), y \in Rows(t) : Differ(x, y))
                => Distinct(s \o t)
<1> DEFINE a == s \o t
<1>1. /\ Len(s) \in Nat /\ Len(t) \in Nat /\ DOMAIN s = 1 .. Len(s) /\ DOMAIN t = 1 .. Len(t)
      /\ a \in Seq(Row) /\ DOMAIN a = 1 .. Len(s) + Len(t)
      /\ \A i \in 1 .. Len(s) : a[i] = s[i]
      /\ \A i \in 1 .. Len(t) : a[Len(s) + i] = t[i]
  OBVIOUS
<1> HIDE DEF a
<1>2. ASSUME NEW i \in DOMAIN a
      PROVE  \/ i \in DOMAIN s /\ a[i] = s[i]
             \/ i - Len(s) \in DOMAIN t /\ a[i] = t[i - Len(s)]
  <2>1. CASE i <= Len(s)
    BY <1>1, <2>1
  <2>2. CASE i > Len(s)
    <3>1. i - Len(s) \in 1 .. Len(t) /\ Len(s) + (i - Len(s)) = i
      BY <1>1, <2>2
    <3>2. a[Len(s) + (i - Len(s))] = t[i - Len(s)]
      BY <1>1, <3>1
    <3> QED BY <1>1, <3>1, <3>2
  <2> QED BY <1>1, <2>1, <2>2
<1>3. Rows(a) \subseteq Rows(s) \cup Rows(t)
  BY <1>2 DEF Rows
<1>4. Rows(s) \subseteq Rows(a) /\ Rows(t) \subseteq Rows(a)
  <2>1. ASSUME NEW i \in DOMAIN s PROVE s[i] \in Rows(a)
    <3>1. i \in DOMAIN a /\ a[i] = s[i]
      BY <1>1
    <3> QED BY <3>1 DEF Rows
  <2>2. ASSUME NEW i \in DOMAIN t PROVE t[i] \in Rows(a)
    <3>1. Len(s) + i \in DOMAIN a /\ a[Len(s) + i] = t[i]
      BY <1>1
    <3> QED BY <3>1 DEF Rows
  <2> QED BY <2>1, <2>2 DEF Rows
<1>5. ASSUME Distinct(s), Distinct(t), \A x \in Rows(s), y \in Rows(t) : Differ(x, y)
      PROVE  Distinct(a)
  <2>1. ASSUME NEW i \in DOMAIN a, NEW j \in DOMAIN a, i # j PROVE Differ(a[i], a[j])
    <3>1. CASE i \in DOMAIN s /\ a[i] = s[i]
      <4>1. CASE j \in DOMAIN s /\ a[j] = s[j]
        BY <1>5, <2>1, <3>1, <4>1 DEF Distinct
      <4>2. CASE j - Len(s) \in DOMAIN t /\ a[j] = t[j - Len(s)]
        <5>1. a[i] \in Rows(s) /\ a[j] \in Rows(t)
          BY <3>1, <4>2 DEF Rows
        <5> QED BY <1>5, <5>1
      <4> QED BY <1>2, <4>1, <4>2
    <3>2. CASE i - Len(s) \in DOMAIN t /\ a[i] = t[i - Len(s)]
      <4>1. CASE j \in DOMAIN s /\ a[j] = s[j]
        <5>1. a[j] \in Rows(s) /\ a[i] \in Rows(t)
          BY <3>2, <4>1 DEF Rows
        <5> QED BY <1>5, <5>1 DEF Differ
      <4>2. CASE j - Len(s) \in DOMAIN t /\ a[j] = t[j - Len(s)]
        <5>1. i - Len(s) # j - Len(s)
          BY <1>1, <2>1
        <5> QED BY <1>5, <3>2, <4>2, <5>1 DEF Distinct
      <4> QED BY <1>2, <4>1, <4>2
    <3> QED BY <1>2, <3>1, <3>2
  <2> QED BY <2>1 DEF Distinct
<1> QED BY <1>1, <1>3, <1>4, <1>5 DEF a

\* What to_series returns of a reply: a row of each series that has its label, and of
\* no other.
LEMMA ToSeriesMakes ==
    ASSUME NEW reply \in Seq(Raw), OnePerProvider(reply), NEW label \in Labels
    PROVE  /\ ToSeries(reply, label) \in Seq(Row)
           /\ Rows(ToSeries(reply, label)) = Listed(reply, Len(reply), label)
           /\ Distinct(ToSeries(reply, label))
<1> DEFINE made == SeriesAfter(reply, label)
           Right(k) == Rows(made[k]) = Listed(reply, k, label) /\ Distinct(made[k])
           A == {k \in 0 .. Len(reply) : Right(k)}
<1>1. /\ made \in [0 .. Len(reply) -> Seq(Row)]
      /\ made[0] = <<>>
      /\ \A n \in 1 .. Len(reply) :
           made[n] = IF reply[n].provider = "none" THEN made[n - 1]
                     ELSE Append(made[n - 1], Series(reply[n], label))
  BY SeriesLoop
<1> HIDE DEF made
<1>2. Len(reply) \in Nat /\ \A k \in 1 .. Len(reply) : reply[k] \in Raw
  OBVIOUS
<1>3. 0 \in A
  <2>1. Rows(made[0]) = {} /\ Distinct(made[0])
    BY <1>1 DEF Rows, Distinct
  <2>2. Listed(reply, 0, label) = {}
    BY DEF Listed
  <2>3. Right(0)
    BY <2>1, <2>2
  <2> HIDE DEF Right
  <2> QED BY <1>2, <2>3
<1>4. ASSUME NEW n \in 1 .. Len(reply), n - 1 \in A PROVE n \in A
  <2> SUFFICES Right(n)
    <3> HIDE DEF Right
    <3> QED OBVIOUS
  <2>1. /\ Rows(made[n - 1]) = Listed(reply, n - 1, label) /\ Distinct(made[n - 1])
        /\ made[n - 1] \in Seq(Row)
    BY <1>1, <1>4
  <2>2. \A i : i \in 1 .. n <=> i \in 1 .. n - 1 \/ i = n
    OBVIOUS
  <2>3. CASE reply[n].provider = "none"
    <3>1. made[n] = made[n - 1]
      BY <1>1, <2>3
    <3>2. Listed(reply, n, label) = Listed(reply, n - 1, label)
      BY <2>2, <2>3 DEF Listed
    <3> QED BY <2>1, <3>1, <3>2
  <2>4. CASE reply[n].provider # "none"
    <3> DEFINE x == Series(reply[n], label)
    <3>1. made[n] = Append(made[n - 1], x)
      BY <1>1, <2>4
    <3>2. x \in Row
      <4>1. reply[n] \in Raw
        BY <1>2
      <4>2. reply[n].provider \in Providers /\ Finite(reply[n].points) \in FinitePoints
        BY <2>4, <4>1, PointsTyped DEF Raw
      <4> QED BY <4>2 DEF Series, Row
    <3>3. Listed(reply, n, label) = Listed(reply, n - 1, label) \cup {x}
      BY <2>2, <2>4 DEF Listed
    <3>4. ASSUME NEW y \in Listed(reply, n - 1, label) PROVE Differ(x, y)
      <4>1. PICK i \in 1 .. n - 1 : y = Series(reply[i], label)
        BY DEF Listed
      <4>2. i \in DOMAIN reply /\ n \in DOMAIN reply /\ i # n
        BY <1>2
      <4>3. reply[i].provider # reply[n].provider
        BY <4>2 DEF OnePerProvider
      <4> QED BY <4>1, <4>3 DEF Series, Differ
    <3> HIDE DEF x
    <3>5. Rows(made[n]) = Rows(made[n - 1]) \cup {x} /\ Distinct(made[n])
      <4>1. \A y \in Rows(made[n - 1]) : Differ(x, y)
        BY <2>1, <3>4
      <4>2. /\ Rows(Append(made[n - 1], x)) = Rows(made[n - 1]) \cup {x}
            /\ Distinct(made[n - 1]) /\ (\A y \in Rows(made[n - 1]) : Differ(x, y))
                 => Distinct(Append(made[n - 1], x))
        BY <2>1, <3>2, AppendRow
      <4> QED BY <2>1, <3>1, <4>1, <4>2
    <3> QED BY <2>1, <3>3, <3>5
  <2> QED BY <2>3, <2>4
<1>5. \A k \in 0 .. Len(reply) : k \in A
  <2> HIDE DEF A
  <2> QED BY <1>2, <1>3, <1>4, AtEveryLength
<1>6. ToSeries(reply, label) = made[Len(reply)]
  BY DEF ToSeries, made
<1>7. Len(reply) \in A
  <2> HIDE DEF A
  <2> QED BY <1>2, <1>5
<1> QED BY <1>1, <1>2, <1>6, <1>7

-----------------------------------------------------------------------------
(* Answers: what is put together of the replies so far. *)

\* All queries so far have succeeded, and what was made of them is each of their
\* series once, under the label of its query.
Gathered(rs, g) ==
    /\ \A k \in DOMAIN rs : rs[k].ok
    /\ g \in Seq(Row)
    /\ Rows(g) = UNION {Listed(rs[k].series, Len(rs[k].series), Queries[k]) : k \in DOMAIN rs}
    /\ Distinct(g)

\* An answer is made when the last query is answered, and of all of them.
SeriesInv ==
    /\ template \in Asked
    /\ replies \in Seq([ok : BOOLEAN, series : Seq(Raw)])
    /\ \A k \in DOMAIN replies : OnePerProvider(replies[k].series)
    /\ outcome = Pending => Len(replies) < Len(Queries) /\ Gathered(replies, got)
    /\ outcome.is = "ok" =>
         /\ Len(replies) = Len(Queries) /\ Gathered(replies, got)
         /\ outcome = Returned(got)

\* Each query has a label of its own.
LEMMA QueriesApart ==
    /\ Len(Queries) \in Nat \ {0} /\ DOMAIN Queries = 1 .. Len(Queries)
    /\ \A i \in DOMAIN Queries : Queries[i] \in Labels
    /\ \A i, j \in DOMAIN Queries : i # j => Queries[i] # Queries[j]
<1>1. CASE template = "latency"
  BY <1>1, RawAnswerAssumption DEF Queries, Labels
<1>2. CASE template # "latency"
  <2>1. Queries = <<"mean">>
    BY <1>2 DEF Queries
  <2>2. Len(<<"mean">>) = 1 /\ <<"mean">>[1] = "mean"
    OBVIOUS
  <2>3. DOMAIN <<"mean">> = {1} /\ 1 .. 1 = {1}
    OBVIOUS
  <2>4. Len(Queries) = 1 /\ DOMAIN Queries = {1} /\ Queries[1] = "mean"
    BY ONLY <2>1, <2>2, <2>3
  <2> QED BY ONLY <2>3, <2>4 DEF Labels
<1> QED BY <1>1, <1>2

LEMMA ReplyTyped ==
    ASSUME NEW reply \in Replies
    PROVE  reply \in Seq(Raw) /\ OnePerProvider(reply)
<1>1. PICK n \in 0 .. Cardinality(Providers) :
         reply \in [1 .. n -> [provider : Providers \cup {"none"}, points : RawPoints]]
  BY DEF Replies
<1>2. Cardinality(Providers) \in Nat
  BY RawAnswerAssumption, FS_CardinalityType
<1>3. n \in Nat /\ reply \in [1 .. n -> Raw]
  BY <1>1, <1>2 DEF Raw
<1>4. reply \in Seq(Raw)
  BY <1>3
<1>5. OnePerProvider(reply)
  BY DEF Replies
<1> QED BY <1>4, <1>5

\* One more reply is gathered.
LEMMA GatherOne ==
    ASSUME NEW rs \in Seq([ok : BOOLEAN, series : Seq(Raw)]), NEW g,
           NEW reply \in Seq(Raw), OnePerProvider(reply),
           Gathered(rs, g), Len(rs) < Len(Queries)
    PROVE  LET n == Len(rs) + 1 IN
           Gathered(Append(rs, [ok |-> TRUE, series |-> reply]), g \o ToSeries(reply, Queries[n]))
<1> DEFINE n == Len(rs) + 1
           one == [ok |-> TRUE, series |-> reply]
           a == Append(rs, one)
           label == Queries[n]
           t == ToSeries(reply, label)
           From(r, k) == Listed(r.series, Len(r.series), Queries[k])
<1>1. /\ Len(rs) \in Nat /\ DOMAIN rs = 1 .. Len(rs) /\ DOMAIN a = 1 .. n
      /\ \A k \in 1 .. Len(rs) : a[k] = rs[k]
      /\ a[n] = one
  OBVIOUS
<1>2. /\ Len(Queries) \in Nat /\ n \in DOMAIN Queries /\ \A k \in 1 .. Len(rs) : k \in DOMAIN Queries /\ k # n
      /\ label \in Labels
  BY <1>1, QueriesApart
<1>3. one.ok /\ one.series = reply
  OBVIOUS
<1> HIDE DEF a, one, n
<1>4. \A k : k \in 1 .. n <=> k \in 1 .. Len(rs) \/ k = n
  BY <1>1 DEF n
<1>5. /\ t \in Seq(Row) /\ Rows(t) = Listed(reply, Len(reply), label) /\ Distinct(t)
  BY <1>2, ToSeriesMakes
<1> HIDE DEF t
<1>6. g \in Seq(Row) /\ Distinct(g) /\ Rows(g) = UNION {From(rs[k], k) : k \in DOMAIN rs}
  BY DEF Gathered
<1>7. \A k \in DOMAIN a : a[k].ok
  BY <1>1, <1>3, <1>4 DEF Gathered
<1>8. ASSUME NEW x \in Rows(g), NEW y \in Rows(t) PROVE Differ(x, y)
  <2>1. PICK k \in DOMAIN rs : x \in From(rs[k], k)
    BY <1>6
  <2>2. x.label = Queries[k] /\ y.label = label
    BY <1>5, <2>1 DEF Listed, Series
  <2>3. Queries[k] # label
    BY <1>1, <1>2, <2>1, QueriesApart
  <2> QED BY <2>2, <2>3 DEF Differ
<1>9. /\ g \o t \in Seq(Row) /\ Rows(g \o t) = Rows(g) \cup Rows(t) /\ Distinct(g \o t)
  <2>1. /\ g \o t \in Seq(Row) /\ Rows(g \o t) = Rows(g) \cup Rows(t)
        /\ Distinct(g) /\ Distinct(t) /\ (\A x \in Rows(g), y \in Rows(t) : Differ(x, y))
             => Distinct(g \o t)
    BY <1>5, <1>6, JoinRows
  <2> QED BY <1>5, <1>6, <1>8, <2>1
<1>10. UNION {From(a[k], k) : k \in DOMAIN a}
         = (UNION {From(rs[k], k) : k \in DOMAIN rs}) \cup From(one, n)
  <2> HIDE DEF From
  <2> QED BY <1>1, <1>4
<1>11. Rows(g \o t) = UNION {From(a[k], k) : k \in DOMAIN a}
  <2>1. From(one, n) = Rows(t)
    BY <1>3, <1>5
  <2> HIDE DEF From
  <2> QED BY <1>6, <1>9, <1>10, <2>1
<1>12. Gathered(a, g \o t)
  BY <1>7, <1>9, <1>11 DEF Gathered
<1> QED BY <1>12 DEF a, one, n, t

LEMMA SeriesInductive ==
    /\ SeriesInit => SeriesInv
    /\ SeriesInv /\ [SeriesNext]_seriesVars => SeriesInv'
<1>1. ASSUME SeriesInit PROVE SeriesInv
  <2>1. template \in Asked /\ replies = <<>> /\ got = <<>> /\ outcome = Pending
    BY <1>1 DEF SeriesInit
  <2>2. Rows(got) = {} /\ Distinct(got) /\ got \in Seq(Row)
    BY <2>1 DEF Rows, Distinct
  <2>3. DOMAIN replies = {} /\ replies \in Seq([ok : BOOLEAN, series : Seq(Raw)]) /\ Len(replies) = 0
    BY <2>1
  <2>4. Gathered(replies, got)
    BY <2>2, <2>3 DEF Gathered
  <2>5. Pending.is # "ok"
    BY DEF Pending
  <2> QED BY <2>1, <2>3, <2>4, <2>5, QueriesApart DEF SeriesInv
<1>2. ASSUME UNCHANGED template
      PROVE  /\ Row' = Row /\ Raw' = Raw /\ Queries' = Queries
             /\ \A rs, g : Gathered(rs, g)' = Gathered(rs, g)
             /\ \A g : Returned(g)' = Returned(g)
  <2>1. Row' = Row /\ Raw' = Raw /\ Queries' = Queries
    BY <1>2 DEF Row, Raw, FinitePoints, RawPoints, Queries
  <2> QED BY <1>2, <2>1 DEF Gathered, Returned
<1>3. ASSUME SeriesInv, Fail PROVE SeriesInv'
  <2>1. /\ UNCHANGED template /\ replies' = Append(replies, [ok |-> FALSE, series |-> <<>>])
        /\ outcome' = [is |-> "error"]
    BY <1>3 DEF Fail
  <2>2. outcome' # Pending /\ outcome'.is # "ok"
    BY <2>1 DEF Pending
  <2>3. template \in Asked /\ replies \in Seq([ok : BOOLEAN, series : Seq(Raw)])
        /\ \A k \in DOMAIN replies : OnePerProvider(replies[k].series)
    BY <1>3 DEF SeriesInv
  <2>4. <<>> \in Seq(Raw) /\ OnePerProvider(<<>>)
    BY DEF OnePerProvider
  <2>5. replies' \in Seq([ok : BOOLEAN, series : Seq(Raw)])
        /\ \A k \in DOMAIN replies' : OnePerProvider(replies'[k].series)
    BY <2>1, <2>3, <2>4
  <2> QED BY <1>2, <2>1, <2>2, <2>3, <2>5 DEF SeriesInv
<1>4. ASSUME SeriesInv, NEW reply \in Replies, Reply(reply) PROVE SeriesInv'
  <2> DEFINE one == [ok |-> TRUE, series |-> reply]
  <2>1. /\ outcome = Pending /\ UNCHANGED template /\ replies' = Append(replies, one)
        /\ got' = got \o ToSeries(reply, Queries[Len(replies')])
        /\ outcome' = IF Len(replies') < Len(Queries) THEN Pending ELSE Returned(got')
    BY <1>4 DEF Reply
  <2>2. /\ template \in Asked /\ replies \in Seq([ok : BOOLEAN, series : Seq(Raw)])
        /\ \A k \in DOMAIN replies : OnePerProvider(replies[k].series)
        /\ Len(replies) < Len(Queries) /\ Gathered(replies, got)
    BY <1>4, <2>1 DEF SeriesInv
  <2>3. reply \in Seq(Raw) /\ OnePerProvider(reply)
    BY ReplyTyped
  <2>4. one \in [ok : BOOLEAN, series : Seq(Raw)] /\ one.series = reply
    BY <2>3
  <2> HIDE DEF one
  <2>5. /\ replies' \in Seq([ok : BOOLEAN, series : Seq(Raw)]) /\ Len(replies') = Len(replies) + 1
        /\ \A k \in DOMAIN replies' : OnePerProvider(replies'[k].series)
    <3>1. /\ DOMAIN replies' = 1 .. Len(replies) + 1 /\ Len(replies) \in Nat
          /\ DOMAIN replies = 1 .. Len(replies)
          /\ \A k \in 1 .. Len(replies) : replies'[k] = replies[k]
          /\ replies'[Len(replies) + 1] = one
      BY <2>1, <2>2
    <3>2. replies' \in Seq([ok : BOOLEAN, series : Seq(Raw)]) /\ Len(replies') = Len(replies) + 1
      BY <2>1, <2>2, <2>4
    <3>3. ASSUME NEW k \in DOMAIN replies' PROVE OnePerProvider(replies'[k].series)
      <4>1. CASE k = Len(replies) + 1
        BY <2>3, <2>4, <3>1, <4>1
      <4>2. CASE k # Len(replies) + 1
        BY <2>2, <3>1, <4>2
      <4> QED BY <4>1, <4>2
    <3> QED BY <3>2, <3>3
  <2>6. Gathered(replies', got')
    <3>1. Gathered(Append(replies, one), got \o ToSeries(reply, Queries[Len(replies) + 1]))
      BY <2>2, <2>3, GatherOne DEF one
    <3> QED BY <2>1, <2>5, <3>1
  <2>7. outcome' = Pending => Len(replies') < Len(Queries)
    BY <2>1 DEF Returned, Pending
  <2>8. outcome'.is = "ok" => Len(replies') = Len(Queries) /\ outcome' = Returned(got')
    <3>1. Len(replies) \in Nat /\ Len(Queries) \in Nat /\ Pending.is # "ok"
      BY <2>2, QueriesApart DEF Pending
    <3> QED BY <2>1, <2>2, <2>5, <3>1
  <2> QED BY <1>2, <2>1, <2>2, <2>5, <2>6, <2>7, <2>8 DEF SeriesInv
<1>5. ASSUME SeriesInv, UNCHANGED seriesVars PROVE SeriesInv'
  <2>1. /\ UNCHANGED template /\ UNCHANGED replies /\ UNCHANGED got /\ UNCHANGED outcome
    BY <1>5 DEF seriesVars
  <2> QED BY <1>2, <1>5, <2>1 DEF SeriesInv
<1> QED BY <1>1, <1>3, <1>4, <1>5 DEF SeriesNext

-----------------------------------------------------------------------------
(* Answers: what they mean. *)

\* What Prometheus meant for a provider is what the rows made of its reply hold.
LEMMA MeantIsListed ==
    ASSUME NEW reply \in Seq(Raw), NEW label, NEW p \in Providers, NEW x
    PROVE  x \in Meant(reply, p) <=>
              \E r \in Listed(reply, Len(reply), label) :
                 r.provider = p /\ \E t \in DOMAIN r.points : x = <<t, r.points[t]>>
<1>1. ASSUME x \in Meant(reply, p)
      PROVE  \E r \in Listed(reply, Len(reply), label) :
                 r.provider = p /\ \E t \in DOMAIN r.points : x = <<t, r.points[t]>>
  <2>1. x \in Instants[template] \X Readings
    BY <1>1 DEF Meant
  <2>2. PICK i \in DOMAIN reply :
           /\ reply[i].provider = p
           /\ x[1] \in DOMAIN reply[i].points /\ reply[i].points[x[1]] = x[2]
    BY <1>1 DEF Meant
  <2>3. x[2] # NotFinite /\ x = <<x[1], x[2]>>
    BY <2>1, RawAnswerAssumption DEF NotFinite
  <2> DEFINE r == Series(reply[i], label)
  <2>4. r.provider = p /\ r.points = Finite(reply[i].points)
    BY <2>2 DEF Series
  <2>5. i \in 1 .. Len(reply) /\ p # "none"
    BY RawAnswerAssumption
  <2>6. r \in Listed(reply, Len(reply), label)
    BY <2>2, <2>5 DEF Listed
  <2>7. x[1] \in DOMAIN Finite(reply[i].points) /\ Finite(reply[i].points)[x[1]] = x[2]
    BY <2>2, <2>3 DEF Finite
  <2> HIDE DEF r
  <2> QED BY <2>3, <2>4, <2>6, <2>7
<1>2. ASSUME NEW r \in Listed(reply, Len(reply), label), r.provider = p,
             NEW t \in DOMAIN r.points, x = <<t, r.points[t]>>
      PROVE  x \in Meant(reply, p)
  <2>1. PICK i \in 1 .. Len(reply) : reply[i].provider # "none" /\ r = Series(reply[i], label)
    BY DEF Listed
  <2>2. r.provider = reply[i].provider /\ r.points = Finite(reply[i].points)
    BY <2>1 DEF Series
  <2>3. reply[i] \in Raw /\ i \in DOMAIN reply
    OBVIOUS
  <2>4. reply[i].points \in RawPoints
    BY <2>3 DEF Raw
  <2>5. Finite(reply[i].points) \in FinitePoints
    BY <2>4, PointsTyped
  <2>6. t \in Instants[template] /\ r.points[t] \in Readings
    BY <2>2, <2>5, PointsTyped
  <2>7. t \in DOMAIN reply[i].points /\ reply[i].points[t] = r.points[t]
    BY <2>2 DEF Finite
  <2>8. x[1] = t /\ x[2] = r.points[t] /\ x \in Instants[template] \X Readings
    BY <1>2, <2>6
  <2>9. /\ reply[i].provider = p
        /\ x[1] \in DOMAIN reply[i].points /\ reply[i].points[x[1]] = x[2]
    BY <1>2, <2>2, <2>7, <2>8
  <2> QED BY <2>3, <2>8, <2>9 DEF Meant
<1> QED BY <1>1, <1>2

LEMMA SeriesTyped ==
    ASSUME NEW rs \in Seq([ok : BOOLEAN, series : Seq(Raw)]), NEW k \in DOMAIN rs
    PROVE  rs[k].series \in Seq(Raw)
<1> DEFINE S == Seq(Raw)
           T == [ok : BOOLEAN, series : S]
<1>1. rs[k] \in T
  <2>1. rs \in Seq(T) /\ k \in DOMAIN rs
    OBVIOUS
  <2> HIDE DEF T
  <2> QED BY <2>1
<1>2. rs[k].series \in S
  <2> HIDE DEF S
  <2> QED BY <1>1
<1> QED BY <1>2

LEMMA AllFollows == SeriesInv => AllOrNothing
<1> SUFFICES ASSUME SeriesInv, outcome.is = "ok", template = "latency",
                    NEW k \in 1 .. Len(AskedQuantiles), NEW p \in Providers
             PROVE  /\ replies[k].ok
                    /\ Meant(replies[k].series, p) =
                        UNION {{<<t, outcome.rows[i].points[t]>> : t \in DOMAIN outcome.rows[i].points} :
                               i \in {j \in DOMAIN outcome.rows :
                                  outcome.rows[j].provider = p /\ outcome.rows[j].label = AskedQuantiles[k]}}
  BY DEF AllOrNothing
<1>1. /\ replies \in Seq([ok : BOOLEAN, series : Seq(Raw)]) /\ Len(replies) = Len(Queries)
      /\ Gathered(replies, got) /\ outcome = Returned(got)
  BY DEF SeriesInv
<1>2. outcome.rows = got /\ Queries = AskedQuantiles
  BY <1>1 DEF Returned, Queries
<1>3. k \in DOMAIN replies /\ DOMAIN replies = DOMAIN AskedQuantiles
  BY <1>1, <1>2, RawAnswerAssumption
<1>4. replies[k].ok
  BY <1>1, <1>3 DEF Gathered
<1>5. Rows(got) = UNION {Listed(replies[m].series, Len(replies[m].series), AskedQuantiles[m]) :
                         m \in DOMAIN replies}
  BY <1>1, <1>2 DEF Gathered
<1>7. replies[k].series \in Seq(Raw)
  BY <1>1, <1>3, SeriesTyped
<1> DEFINE rows == Listed(replies[k].series, Len(replies[k].series), AskedQuantiles[k])
<1>8. ASSUME NEW r PROVE r \in rows <=> r \in Rows(got) /\ r.label = AskedQuantiles[k]
  <2>1. ASSUME NEW m \in DOMAIN replies,
               r \in Listed(replies[m].series, Len(replies[m].series), AskedQuantiles[m])
        PROVE  r.label = AskedQuantiles[m]
    BY <2>1 DEF Listed, Series
  <2>2. ASSUME r \in Rows(got), r.label = AskedQuantiles[k] PROVE r \in rows
    <3>1. PICK m \in DOMAIN replies :
             r \in Listed(replies[m].series, Len(replies[m].series), AskedQuantiles[m])
      BY <1>5, <2>2
    <3>2. AskedQuantiles[m] = AskedQuantiles[k]
      BY <2>1, <2>2, <3>1
    <3>3. m = k
      BY <1>3, <3>1, <3>2, RawAnswerAssumption
    <3> QED BY <3>1, <3>3
  <2>3. ASSUME r \in rows PROVE r \in Rows(got) /\ r.label = AskedQuantiles[k]
    BY <1>3, <1>5, <2>1, <2>3
  <2> QED BY <2>2, <2>3
<1>9. ASSUME NEW x
      PROVE  x \in Meant(replies[k].series, p) <=>
                \E r \in rows : r.provider = p /\ \E t \in DOMAIN r.points : x = <<t, r.points[t]>>
  <2> DEFINE reply == replies[k].series
  <2>1. reply \in Seq(Raw)
    BY <1>7
  <2> HIDE DEF reply
  <2>2. \A label, y :
           y \in Meant(reply, p) <=>
              \E r \in Listed(reply, Len(reply), label) :
                 r.provider = p /\ \E t \in DOMAIN r.points : y = <<t, r.points[t]>>
    BY <2>1, MeantIsListed
  <2> QED BY <2>2 DEF reply
<1> HIDE DEF rows
<1>10. ASSUME NEW x
       PROVE  x \in Meant(replies[k].series, p) <=>
                \E i \in DOMAIN got :
                   /\ got[i].provider = p /\ got[i].label = AskedQuantiles[k]
                   /\ \E t \in DOMAIN got[i].points : x = <<t, got[i].points[t]>>
  <2>1. \A r : r \in Rows(got) <=> \E i \in DOMAIN got : r = got[i]
    BY DEF Rows
  <2> QED BY <1>8, <1>9, <2>1
<1>11. Meant(replies[k].series, p) =
          UNION {{<<t, got[i].points[t]>> : t \in DOMAIN got[i].points} :
                 i \in {j \in DOMAIN got : got[j].provider = p /\ got[j].label = AskedQuantiles[k]}}
  BY <1>10
<1> QED BY <1>2, <1>4, <1>11

-----------------------------------------------------------------------------
(* Answers: win rates. *)

LEMMA RatesAre ==
    ASSUME SeriesInv, Rates
    PROVE  /\ got \in Seq(Row) /\ outcome.rows = WinRates(got)
           /\ \A i, j \in DOMAIN got : got[i].provider = got[j].provider => i = j
           /\ \A p \in Providers : \A x :
                x \in Meant(replies[1].series, p) <=>
                   \E i \in DOMAIN got :
                      got[i].provider = p /\ \E t \in DOMAIN got[i].points : x = <<t, got[i].points[t]>>
<1>1. /\ replies \in Seq([ok : BOOLEAN, series : Seq(Raw)]) /\ Len(replies) = Len(Queries)
      /\ Gathered(replies, got) /\ outcome = Returned(got) /\ template = "win_rate"
  BY DEF SeriesInv, Rates
<1>2. outcome.rows = WinRates(got) /\ Queries = <<"mean">>
  BY <1>1 DEF Returned, Queries
<1>3. Len(replies) = 1 /\ Queries[1] = "mean"
  BY <1>1, <1>2
<1>4. DOMAIN replies = {1}
  BY <1>1, <1>3
<1>5. got \in Seq(Row) /\ Distinct(got)
      /\ Rows(got) = Listed(replies[1].series, Len(replies[1].series), "mean")
  BY <1>1, <1>3, <1>4 DEF Gathered
<1>6. replies[1].series \in Seq(Raw)
  BY <1>1, <1>4, SeriesTyped
<1>7. \A i \in DOMAIN got : got[i].label = "mean"
  <2>1. \A i \in DOMAIN got : got[i] \in Rows(got)
    BY DEF Rows
  <2> QED BY <1>5, <2>1 DEF Listed, Series
<1>8. \A i, j \in DOMAIN got : got[i].provider = got[j].provider => i = j
  BY <1>5, <1>7 DEF Distinct, Differ
<1>9. ASSUME NEW p \in Providers, NEW x
      PROVE  x \in Meant(replies[1].series, p) <=>
                \E i \in DOMAIN got :
                   got[i].provider = p /\ \E t \in DOMAIN got[i].points : x = <<t, got[i].points[t]>>
  <2>1. x \in Meant(replies[1].series, p) <=>
           \E r \in Rows(got) : r.provider = p /\ \E t \in DOMAIN r.points : x = <<t, r.points[t]>>
    BY <1>5, <1>6, MeantIsListed
  <2>2. \A r : r \in Rows(got) <=> \E i \in DOMAIN got : r = got[i]
    BY DEF Rows
  <2> QED BY <2>1, <2>2
<1> QED BY <1>2, <1>5, <1>8, <1>9

\* Where a row of the answer has won.
Won(i, s) == {t \in DOMAIN got[i].points : s[t].provider = got[i].provider}

\* Every timestamp with a point is won by one provider, and by a point of its that no
\* other is below.
LEMMA WonByTheFastest ==
    ASSUME template \in Asked, got \in Seq(Row),
           \A i, j \in DOMAIN got : got[i].provider = got[j].provider => i = j
    PROVE  LET w == Winners(got) IN
           /\ IsFiniteSet(DOMAIN w)
           /\ \A t : t \in DOMAIN w <=> \E i \in DOMAIN got : t \in DOMAIN got[i].points
           /\ \A t \in DOMAIN w : \E i \in DOMAIN got : t \in Won(i, w)
           /\ \A i, j \in DOMAIN got : i # j => Won(i, w) \cap Won(j, w) = {}
           /\ \A i, j \in DOMAIN got : \A t \in Won(i, w) :
                t \in DOMAIN got[j].points => got[i].points[t] <= got[j].points[t]
<1> DEFINE w == Winners(got)
<1>1. w \in Standings /\ Lead(got, Len(got), w) /\ DOMAIN got = 1 .. Len(got)
  BY WinnersLead
<1> HIDE DEF w
<1>2. IsFiniteSet(DOMAIN w)
  <2>1. DOMAIN w \subseteq Instants[template] /\ IsFiniteSet(Instants[template])
    BY <1>1, PointsTyped, RawAnswerAssumption
  <2> QED BY <2>1, FS_Subset
<1>3. \A t : t \in DOMAIN w <=> \E i \in DOMAIN got : t \in DOMAIN got[i].points
  BY <1>1 DEF Lead
<1>4. ASSUME NEW t \in DOMAIN w
      PROVE  \E i \in DOMAIN got : /\ t \in DOMAIN got[i].points /\ w[t].provider = got[i].provider
                                   /\ \A j \in DOMAIN got : t \in DOMAIN got[j].points =>
                                        got[i].points[t] <= got[j].points[t]
  <2>1. PICK i \in 1 .. Len(got) :
           /\ Leads(got, i, Len(got), t)
           /\ w[t] = [provider |-> got[i].provider, value |-> got[i].points[t]]
    BY <1>1 DEF Lead
  <2>2. w[t].provider = got[i].provider
    BY <2>1
  <2> QED BY <1>1, <2>1, <2>2 DEF Leads
<1>5. \A t \in DOMAIN w : \E i \in DOMAIN got : t \in Won(i, w)
  BY <1>4 DEF Won
<1>6. \A i, j \in DOMAIN got : i # j => Won(i, w) \cap Won(j, w) = {}
  BY DEF Won
<1>7. ASSUME NEW i \in DOMAIN got, NEW j \in DOMAIN got, NEW t \in Won(i, w),
             t \in DOMAIN got[j].points
      PROVE  got[i].points[t] <= got[j].points[t]
  <2>1. t \in DOMAIN w /\ w[t].provider = got[i].provider
    BY <1>3 DEF Won
  <2>2. PICK l \in DOMAIN got : /\ w[t].provider = got[l].provider
                                /\ \A m \in DOMAIN got : t \in DOMAIN got[m].points =>
                                     got[l].points[t] <= got[m].points[t]
    BY <1>4, <2>1
  <2>3. l = i
    BY <2>1, <2>2
  <2> QED BY <1>7, <2>2, <2>3
<1> QED BY <1>2, <1>3, <1>5, <1>6, <1>7 DEF w

\* The values of rows can be compared.
LEMMA RowTyped ==
    ASSUME got \in Seq(Row), NEW i \in DOMAIN got
    PROVE  /\ got[i].provider \in Providers
           /\ DOMAIN got[i].points \subseteq Instants[template]
           /\ \A t \in DOMAIN got[i].points : got[i].points[t] \in Nat
<1>1. got[i] \in Row
  <2> HIDE DEF Row
  <2> QED OBVIOUS
<1>2. got[i].provider \in Providers /\ got[i].points \in FinitePoints
  BY <1>1 DEF Row
<1> QED BY <1>2, PointsTyped, RawAnswerAssumption

LEMMA EarnedFollows == SeriesInv => WinsAreEarned
<1> SUFFICES ASSUME SeriesInv, Rates, NEW i \in DOMAIN outcome.rows
             PROVE  LET p == outcome.rows[i].provider
                        mine == Meant(replies[1].series, p)
                        others == UNION {Meant(replies[1].series, o) : o \in Providers \ {p}}
                        beaten(tv) == \E o \in others : o[1] = tv[1] /\ o[2] < tv[2]
                        tied(tv) == \E o \in others : o[1] = tv[1] /\ o[2] = tv[2]
                        tops == {tv \in mine : ~beaten(tv)} IN
                    /\ outcome.rows[i].wins <= Cardinality(tops)
                    /\ outcome.rows[i].wins >= Cardinality({tv \in tops : ~tied(tv)})
  BY DEF WinsAreEarned
<1> DEFINE p == outcome.rows[i].provider
           mine == Meant(replies[1].series, p)
           others == UNION {Meant(replies[1].series, o) : o \in Providers \ {p}}
           beaten(tv) == \E o \in others : o[1] = tv[1] /\ o[2] < tv[2]
           tied(tv) == \E o \in others : o[1] = tv[1] /\ o[2] = tv[2]
           tops == {tv \in mine : ~beaten(tv)}
           alone == {tv \in tops : ~tied(tv)}
           w == Winners(got)
           pts == got[i].points
<1>1. /\ got \in Seq(Row) /\ outcome.rows = WinRates(got)
      /\ \A k, j \in DOMAIN got : got[k].provider = got[j].provider => k = j
      /\ \A o \in Providers : \A x :
           x \in Meant(replies[1].series, o) <=>
              \E j \in DOMAIN got :
                 got[j].provider = o /\ \E t \in DOMAIN got[j].points : x = <<t, got[j].points[t]>>
  BY RatesAre
<1>2. i \in DOMAIN got /\ p = got[i].provider /\ template \in Asked
      /\ outcome.rows[i].wins = Cardinality(Won(i, w))
  <2>1. template \in Asked
    BY DEF SeriesInv
  <2>2. i \in DOMAIN got
    BY <1>1 DEF WinRates
  <2>3. outcome.rows[i] = [provider |-> got[i].provider, wins |-> WinsOf(got[i], Winners(got)),
                           samples |-> Cardinality(DOMAIN got[i].points),
                           total |-> Cardinality(DOMAIN Winners(got))]
    BY <1>1, <2>2 DEF WinRates
  <2> QED BY <2>1, <2>2, <2>3 DEF WinsOf, Won
<1>3. /\ IsFiniteSet(DOMAIN w)
      /\ \A t : t \in DOMAIN w <=> \E j \in DOMAIN got : t \in DOMAIN got[j].points
      /\ \A t \in DOMAIN w : \E j \in DOMAIN got : t \in Won(j, w)
      /\ \A k, j \in DOMAIN got : \A t \in Won(k, w) :
           t \in DOMAIN got[j].points => got[k].points[t] <= got[j].points[t]
  BY <1>1, <1>2, WonByTheFastest
<1>4. \A j \in DOMAIN got : /\ got[j].provider \in Providers
                            /\ \A t \in DOMAIN got[j].points : got[j].points[t] \in Nat
  BY <1>1, RowTyped
<1>5. \A x : x \in mine <=> \E t \in DOMAIN pts : x = <<t, pts[t]>>
  BY <1>1, <1>2, <1>4
<1>6. \A x : x \in others <=>
         \E j \in DOMAIN got : j # i /\ \E t \in DOMAIN got[j].points : x = <<t, got[j].points[t]>>
  <2>1. \A x : x \in others <=> \E o \in Providers \ {p} : x \in Meant(replies[1].series, o)
    OBVIOUS
  <2>2. \A j \in DOMAIN got : j # i <=> got[j].provider \in Providers \ {p}
    BY <1>1, <1>2, <1>4
  <2> HIDE DEF p, others
  <2> QED BY <1>1, <2>1, <2>2
<1> HIDE DEF p, mine, others, w
<1>7. Won(i, w) \subseteq DOMAIN pts /\ DOMAIN pts \subseteq DOMAIN w
  BY <1>2, <1>3 DEF Won
<1>8. IsFiniteSet(Won(i, w)) /\ IsFiniteSet(DOMAIN pts)
  <2>1. IsFiniteSet(DOMAIN pts)
    BY <1>3, <1>7, FS_Subset
  <2> QED BY <1>7, <2>1, FS_Subset
<1>9. IsFiniteSet(tops)
  <2> DEFINE f == [t \in DOMAIN pts |-> <<t, pts[t]>>]
  <2>1. f \in Surjection(DOMAIN pts, mine)
    BY <1>5 DEF Surjection
  <2>2. IsFiniteSet(mine)
    BY <1>8, <2>1, FS_Surjection
  <2> QED BY <2>2, FS_Subset
<1>10. Cardinality(Won(i, w)) <= Cardinality(tops)
  <2> DEFINE f == [t \in Won(i, w) |-> <<t, pts[t]>>]
  <2>1. ASSUME NEW t \in Won(i, w) PROVE <<t, pts[t]>> \in tops
    <3>1. <<t, pts[t]>> \in mine
      BY <1>5, <1>7
    <3>2. ASSUME NEW o \in others, o[1] = t, o[2] < pts[t] PROVE FALSE
      <4>1. PICK j \in DOMAIN got : t \in DOMAIN got[j].points /\ o[2] = got[j].points[t]
        BY <1>6, <3>2
      <4>2. pts[t] <= got[j].points[t] /\ pts[t] \in Nat /\ got[j].points[t] \in Nat
        BY <1>2, <1>3, <1>4, <1>7, <4>1
      <4> QED BY <3>2, <4>1, <4>2
    <3> QED BY <3>1, <3>2
  <2>2. f \in [Won(i, w) -> tops]
    <3> HIDE DEF tops
    <3> QED BY <2>1
  <2>3. f \in Injection(Won(i, w), tops)
    <3> HIDE DEF tops
    <3> QED BY <2>2 DEF Injection, IsInjective
  <2> HIDE DEF tops, f
  <2> QED BY <1>9, <2>3, FS_Injection
<1>11. Cardinality(alone) <= Cardinality(Won(i, w))
  <2> DEFINE f == [tv \in alone |-> tv[1]]
  <2>1. ASSUME NEW tv \in alone PROVE tv[1] \in Won(i, w) /\ tv = <<tv[1], pts[tv[1]]>>
    <3>1. PICK t \in DOMAIN pts : tv = <<t, pts[t]>>
      BY <1>5
    <3>2. tv[1] = t /\ tv[2] = pts[t] /\ t \in DOMAIN w
      BY <1>7, <3>1
    <3>3. PICK j \in DOMAIN got : t \in Won(j, w)
      BY <1>3, <3>2
    <3>4. CASE j = i
      BY <3>1, <3>2, <3>3, <3>4
    <3>5. CASE j # i
      <4>1. t \in DOMAIN got[j].points /\ got[j].points[t] <= pts[t]
            /\ got[j].points[t] \in Nat /\ pts[t] \in Nat
        BY <1>2, <1>3, <1>4, <3>1, <3>3 DEF Won
      <4> DEFINE o == <<t, got[j].points[t]>>
      <4>2. o \in others /\ o[1] = t /\ o[2] = got[j].points[t]
        BY <1>6, <3>5, <4>1
      <4>3. ~beaten(tv) /\ ~tied(tv)
        OBVIOUS
      <4>4. ~(o[2] < tv[2]) /\ o[2] # tv[2]
        <5> HIDE DEF o
        <5> QED BY <3>2, <4>2, <4>3
      <4> QED BY <3>2, <4>1, <4>2, <4>4
    <3> QED BY <3>4, <3>5
  <2>2. f \in [alone -> Won(i, w)]
    <3> HIDE DEF alone
    <3> QED BY <2>1
  <2>3. ASSUME NEW a \in alone, NEW b \in alone, f[a] = f[b] PROVE a = b
    <3>1. a[1] = b[1]
      BY <2>3
    <3>2. a = <<a[1], pts[a[1]]>> /\ b = <<b[1], pts[b[1]]>>
      BY <2>1
    <3> QED BY ONLY <3>1, <3>2
  <2>4. f \in Injection(alone, Won(i, w))
    <3> HIDE DEF alone, f
    <3> QED BY <2>2, <2>3 DEF Injection, IsInjective
  <2> HIDE DEF alone, f
  <2> QED BY <1>8, <2>4, FS_Injection
<1>12. /\ Cardinality(Won(i, w)) \in Nat /\ Cardinality(alone) \in Nat
  <2>1. alone \in SUBSET tops
    OBVIOUS
  <2>2. IsFiniteSet(alone)
    <3> HIDE DEF alone, tops
    <3> QED BY <1>9, <2>1, FS_Subset
  <2> QED BY <1>8, <2>2, FS_CardinalityType
<1>13. /\ outcome.rows[i].wins <= Cardinality(tops)
       /\ outcome.rows[i].wins >= Cardinality(alone)
  <2> HIDE DEF alone, tops
  <2> QED BY <1>2, <1>10, <1>11, <1>12
<1> QED BY <1>13 DEF p, mine, others

\* The loop that adds wins up.
LEMMA WinsLoop ==
    ASSUME NEW rows, Len(rows) \in Nat, \A k \in 1 .. Len(rows) : rows[k].wins \in Nat
    PROVE  LET sum == WinsAfter(rows) IN
           sum[0] = 0 /\ \A n \in 1 .. Len(rows) : sum[n] = sum[n - 1] + rows[n].wins
<1> DEFINE step == [k \in 1 .. Len(rows) |-> [m \in Nat |-> m + rows[k].wins]]
           Loops(f) == f = [n \in 0 .. Len(rows) |-> IF n = 0 THEN 0 ELSE f[n - 1] + rows[n].wins]
           sum == WinsAfter(rows)
<1>1. step \in Turns(Len(rows), Nat)
  <2>1. step \in [1 .. Len(rows) -> [Nat -> Nat]]
    OBVIOUS
  <2> QED BY <2>1 DEF Turns
<1>2. PICK f : IsRun(f, Len(rows), Nat, 0, step)
  <2> HIDE DEF step
  <2> QED BY <1>1, LoopRuns
<1>3. f[0] = 0 /\ \A n \in 1 .. Len(rows) : f[n] = f[n - 1] + rows[n].wins
  <2>1. ASSUME NEW n \in 1 .. Len(rows) PROVE f[n] = f[n - 1] + rows[n].wins
    <3>1. f[n - 1] \in Nat /\ f[n] = step[n][f[n - 1]]
      <4> HIDE DEF step
      <4>1. n - 1 \in 0 .. Len(rows)
        OBVIOUS
      <4> QED BY <1>2, <4>1 DEF IsRun
    <3> QED BY <3>1
  <2> QED BY <1>2, <2>1 DEF IsRun
<1>4. Loops(f)
  <2>1. f = [k \in 0 .. Len(rows) |-> f[k]]
    BY <1>2 DEF IsRun
  <2>2. \A n \in 0 .. Len(rows) : f[n] = IF n = 0 THEN 0 ELSE f[n - 1] + rows[n].wins
    BY <1>3
  <2> QED BY <2>1, <2>2
<1>5. Loops(sum)
  <2>1. sum = CHOOSE g : Loops(g)
    BY DEF WinsAfter
  <2> HIDE DEF Loops
  <2> QED BY <1>4, <2>1
<1> HIDE DEF sum
<1>6. sum[0] = 0 /\ \A n \in 1 .. Len(rows) : sum[n] = sum[n - 1] + rows[n].wins
  BY <1>5
<1> QED BY <1>6 DEF sum

LEMMA AddUpFollows == SeriesInv => WinsAddUp
<1> SUFFICES ASSUME SeriesInv, Rates
             PROVE  LET rows == outcome.rows
                        points == UNION {Meant(replies[1].series, p) : p \in Providers} IN
                    /\ \A i \in DOMAIN rows : rows[i].total = Cardinality({tv[1] : tv \in points})
                    /\ rows # <<>> => rows[1].total = WinsAfter(rows)[Len(rows)]
  BY DEF WinsAddUp
<1> DEFINE rows == outcome.rows
           points == UNION {Meant(replies[1].series, p) : p \in Providers}
           w == Winners(got)
           sum == WinsAfter(rows)
           n == Len(got)
<1>1. /\ got \in Seq(Row) /\ rows = WinRates(got)
      /\ \A i, j \in DOMAIN got : got[i].provider = got[j].provider => i = j
      /\ \A p \in Providers : \A x :
           x \in Meant(replies[1].series, p) <=>
              \E i \in DOMAIN got :
                 got[i].provider = p /\ \E t \in DOMAIN got[i].points : x = <<t, got[i].points[t]>>
  BY RatesAre
<1>2. /\ IsFiniteSet(DOMAIN w)
      /\ \A t : t \in DOMAIN w <=> \E i \in DOMAIN got : t \in DOMAIN got[i].points
      /\ \A t \in DOMAIN w : \E i \in DOMAIN got : t \in Won(i, w)
      /\ \A i, j \in DOMAIN got : i # j => Won(i, w) \cap Won(j, w) = {}
  <2>1. template \in Asked
    BY DEF SeriesInv
  <2> QED BY <1>1, <2>1, WonByTheFastest
<1>3. n \in Nat /\ DOMAIN got = 1 .. n
  BY <1>1
<1>4. /\ DOMAIN rows = 1 .. n
      /\ \A i \in 1 .. n : rows[i].wins = Cardinality(Won(i, w)) /\ rows[i].total = Cardinality(DOMAIN w)
  <2>1. DOMAIN rows = 1 .. n
    BY <1>1, <1>3 DEF WinRates
  <2>2. ASSUME NEW i \in 1 .. n
        PROVE  rows[i] = [provider |-> got[i].provider, wins |-> WinsOf(got[i], w),
                          samples |-> Cardinality(DOMAIN got[i].points),
                          total |-> Cardinality(DOMAIN w)]
    BY <1>1, <1>3 DEF WinRates
  <2>3. ASSUME NEW i \in 1 .. n PROVE WinsOf(got[i], w) = Cardinality(Won(i, w))
    BY DEF WinsOf, Won
  <2> HIDE DEF w, rows, n
  <2> QED BY <2>1, <2>2, <2>3
<1>5. Len(rows) = n
  <2> HIDE DEF rows, n
  <2> QED BY <1>3, <1>4
<1>6. {tv[1] : tv \in points} = DOMAIN w
  <2>1. \A x : x \in points <=> \E p \in Providers : x \in Meant(replies[1].series, p)
    OBVIOUS
  <2>2. \A i \in DOMAIN got : got[i].provider \in Providers
    BY <1>1, RowTyped
  <2>3. \A x : x \in points <=>
           \E i \in DOMAIN got : \E t \in DOMAIN got[i].points : x = <<t, got[i].points[t]>>
    <3> HIDE DEF points
    <3> QED BY <1>1, <2>1, <2>2
  <2>4. ASSUME NEW x \in points PROVE x[1] \in DOMAIN w
    BY <1>2, <2>3
  <2>5. ASSUME NEW t \in DOMAIN w PROVE \E x \in points : t = x[1]
    <3>1. PICK i \in DOMAIN got : t \in DOMAIN got[i].points
      BY <1>2
    <3>2. <<t, got[i].points[t]>> \in points
      BY <2>3, <3>1
    <3> HIDE DEF points
    <3> QED BY <3>2
  <2> HIDE DEF points, w
  <2> QED BY <2>4, <2>5
<1> DEFINE WonBy(k) == {t \in DOMAIN w : \E i \in 1 .. k : t \in Won(i, w)}
           Adds(k) == sum[k] = Cardinality(WonBy(k))
           A == {k \in 0 .. n : Adds(k)}
<1> HIDE DEF w, rows, points
<1>7. \A i \in 1 .. n : /\ Won(i, w) \subseteq DOMAIN w
                        /\ IsFiniteSet(Won(i, w)) /\ Cardinality(Won(i, w)) \in Nat
  <2>1. ASSUME NEW i \in 1 .. n PROVE Won(i, w) \subseteq DOMAIN w
    BY <1>2, <1>3 DEF Won
  <2> QED BY <1>2, <2>1, FS_Subset, FS_CardinalityType
<1>8. sum[0] = 0 /\ \A k \in 1 .. n : sum[k] = sum[k - 1] + Cardinality(Won(k, w))
  <2>1. Len(rows) \in Nat /\ \A k \in 1 .. Len(rows) : rows[k].wins \in Nat
    <3> HIDE DEF n
    <3> QED BY <1>3, <1>4, <1>5, <1>7
  <2>2. sum[0] = 0 /\ \A k \in 1 .. Len(rows) : sum[k] = sum[k - 1] + rows[k].wins
    BY <2>1, WinsLoop
  <2> HIDE DEF n, sum
  <2> QED BY <1>4, <1>5, <2>2
<1> HIDE DEF sum
<1>9. 0 \in A
  <2>1. WonBy(0) = {}
    OBVIOUS
  <2>2. Adds(0)
    <3> HIDE DEF WonBy
    <3> QED BY <1>8, <2>1, FS_EmptySet
  <2> HIDE DEF Adds, n
  <2> QED BY <1>3, <2>2
<1>10. ASSUME NEW k \in 1 .. n, k - 1 \in A PROVE k \in A
  <2>1. Adds(k - 1)
    <3> HIDE DEF Adds
    <3> QED BY <1>10
  <2>2. \A i : i \in 1 .. k <=> i \in 1 .. k - 1 \/ i = k
    OBVIOUS
  <2>3. WonBy(k) = WonBy(k - 1) \cup Won(k, w)
    <3>1. Won(k, w) \subseteq DOMAIN w
      BY <1>7
    <3> QED BY <2>2, <3>1
  <2>4. WonBy(k - 1) \cap Won(k, w) = {}
    <3>1. ASSUME NEW i \in 1 .. k - 1 PROVE Won(i, w) \cap Won(k, w) = {}
      <4>1. i \in DOMAIN got /\ k \in DOMAIN got /\ i # k
        BY <1>3
      <4> QED BY <1>2, <4>1
    <3> QED BY <3>1
  <2>5. IsFiniteSet(WonBy(k - 1)) /\ Cardinality(WonBy(k - 1)) \in Nat
    <3>1. WonBy(k - 1) \in SUBSET DOMAIN w
      OBVIOUS
    <3> HIDE DEF WonBy
    <3> QED BY <1>2, <3>1, FS_Subset, FS_CardinalityType
  <2>6. Cardinality(WonBy(k)) = Cardinality(WonBy(k - 1)) + Cardinality(Won(k, w))
    <3> HIDE DEF WonBy
    <3>1. IsFiniteSet(Won(k, w)) /\ Cardinality(Won(k, w)) \in Nat
      BY <1>7
    <3>2. Cardinality(WonBy(k - 1) \cup Won(k, w))
            = Cardinality(WonBy(k - 1)) + Cardinality(Won(k, w)) - Cardinality(WonBy(k - 1) \cap Won(k, w))
      BY ONLY <2>5, <3>1, FS_Union
    <3>3. Cardinality(WonBy(k - 1) \cap Won(k, w)) = 0
      BY <2>4, FS_EmptySet
    <3> QED BY <2>3, <2>5, <3>1, <3>2, <3>3
  <2>7. Adds(k)
    <3> HIDE DEF WonBy
    <3> QED BY <1>8, <2>1, <2>6
  <2> HIDE DEF Adds, n
  <2> QED BY <1>3, <2>7
<1>11. Adds(n)
  <2>1. \A k \in 0 .. n : k \in A
    <3> HIDE DEF A, n
    <3> QED BY <1>3, <1>9, <1>10, AtEveryLength
  <2> HIDE DEF Adds, n
  <2> QED BY <1>3, <2>1
<1>12. WonBy(n) = DOMAIN w
  BY <1>2, <1>3
<1>13. \A i \in DOMAIN rows : rows[i].total = Cardinality({tv[1] : tv \in points})
  <2> HIDE DEF n
  <2> QED BY <1>4, <1>6
<1>14. rows # <<>> => rows[1].total = sum[Len(rows)]
  <2> HIDE DEF WonBy, n
  <2>1. ASSUME rows # <<>> PROVE 1 \in 1 .. n
    <3>1. n # 0
      <4>1. ASSUME n = 0 PROVE rows = <<>>
        <5>1. rows = [i \in 1 .. n |-> rows[i]]
          <6>1. rows = [i \in DOMAIN rows |-> rows[i]]
            BY <1>1 DEF WinRates
          <6> QED BY <1>4, <6>1
        <5> QED BY <1>3, <4>1, <5>1
      <4> QED BY <2>1, <4>1
    <3> QED BY <1>3, <3>1
  <2> QED BY <1>4, <1>5, <1>11, <1>12, <2>1
<1> QED BY <1>13, <1>14 DEF rows, points, sum

\* However replies come, fail and are put together: each timestamp is won once, by one
\* who was fastest there, and series are what Prometheus meant, all of them or none.
THEOREM AnswersAreMeant == SeriesSpec => []AnswersMeant
<1>1. SeriesInv => AnswersMeant
  BY EarnedFollows, AddUpFollows, AllFollows DEF AnswersMeant
<1> QED BY <1>1, SeriesInductive, PTL DEF SeriesSpec
=============================================================================
