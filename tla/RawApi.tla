------------------------------ MODULE RawApi ------------------------------
(***************************************************************************)
(* The query side of the Raw API (raw_handler, src/raw_api.rs): who is let *)
(* in, how often, and how many queries run upstream at once.               *)
(*                                                                         *)
(* Requests run concurrently.  Each checks its token, takes a slot of its  *)
(* holder's rate limit under a lock, is parsed, takes an upstream permit   *)
(* or is turned away, and holds the permit for all its queries, until it   *)
(* is answered or the client goes away.  The limit is a fixed window that  *)
(* opens at the first request and is told to clients in whole seconds,     *)
(* while the clock is finer.  Windows live in memory.                      *)
(***************************************************************************)
EXTENDS Integers, Sequences, FiniteSets

CONSTANTS
    Requests,   \* requests that can be under way at the same time
    Subs,       \* holders of tokens: verify_token's sub
    Second,     \* ticks of the clock in a second
    Window,     \* RATE_WINDOW_SECONDS
    Limit,      \* RATE_LIMIT_PER_MINUTE
    Permits,    \* MAX_UPSTREAM_CONCURRENCY
    MaxQueries, \* DEFAULT_QUANTILES, bound: the queries one request needs
    Expiry,     \* when the tokens expire
    MaxTime     \* bound: the clock

ASSUME RawApiAssumption ==
    /\ IsFiniteSet(Requests)
    /\ Second \in Nat \ {0} /\ Window \in Nat \ {0} /\ Limit \in Nat \ {0}
    /\ Permits \in Nat /\ MaxQueries \in Nat \ {0}
    /\ Expiry \in Nat /\ MaxTime \in Nat

VARIABLES
    now,      \* the clock, in ticks
    windows,  \* AppState.windows: per holder, when its window opened, and its count
    permits,  \* AppState.upstream: the permits that are left
    reqs,     \* the requests: where each stands, and what it asks
    log,      \* per holder, the requests let in since the process started
    told      \* per holder, the latest refusal: when, and until when

vars == <<now, windows, permits, reqs, log, told>>

\* What a request asks for, as far as its handling differs.
Plans == {"invalid", "samples", "series"}

Idle == [pc |-> "idle"]
Querying(r) == reqs[r].pc = "query"

Init ==
    /\ now = 0
    /\ windows = [s \in {} |-> 0]
    /\ permits = Permits
    /\ reqs = [r \in Requests |-> Idle]
    /\ log = [s \in Subs |-> <<>>]
    /\ told = [s \in {} |-> 0]

Tick ==
    /\ now < MaxTime
    /\ now' = now + 1
    /\ UNCHANGED <<windows, permits, reqs, log, told>>

-----------------------------------------------------------------------------
(* verify_token: a signed HS256 token with a holder that has not expired.   *)

Accepts(tok) == tok.signed /\ now < Expiry

\* A request arrives, with a token of its holder's or with a made-up one.
Arrive(r) ==
    /\ reqs[r] = Idle
    /\ \E s \in Subs, signed \in BOOLEAN, plan \in Plans, n \in 1..MaxQueries :
          /\ plan # "series" => n = 1
          /\ reqs' = [reqs EXCEPT ![r] =
                        [pc |-> "verify", tok |-> [sub |-> s, signed |-> signed],
                         plan |-> plan, left |-> n]]
    /\ UNCHANGED <<now, windows, permits, log, told>>

\* Slip: the limit is counted per claimed holder, and the token checked later.
VerifyLater(r) ==
    /\ reqs[r].pc = "verify"
    /\ reqs' = [reqs EXCEPT ![r].pc = "limit"]
    /\ UNCHANGED <<now, windows, permits, log, told>>

\* 401, or on to the rate limit.
Verify(r) ==
    /\ reqs[r].pc = "verify"
    /\ reqs' = [reqs EXCEPT ![r] = IF Accepts(@.tok) THEN [@ EXCEPT !.pc = "limit"]
                                                     ELSE Idle]
    /\ UNCHANGED <<now, windows, permits, log, told>>

-----------------------------------------------------------------------------
(* take_rate_limit_slot. *)

\* Duration::as_secs
Elapsed(start) == (now - start) \div Second

\* Slip: the last second of the window does not count.
InWindowShort(s) == s \in DOMAIN windows /\ Elapsed(windows[s].start) < Window - 1

InWindow(s) == s \in DOMAIN windows /\ Elapsed(windows[s].start) < Window

\* Slip: what is left of the window, rounded down.
RetryAfterFloor(s) == (windows[s].start + Window * Second - now) \div Second

RetryAfter(s) == Window - Elapsed(windows[s].start)

Full(s) == windows[s].count >= Limit

LetIn(r, w) ==
    [log EXCEPT ![reqs[r].tok.sub] =
        Append(@, [at |-> now, start |-> w.start, own |-> reqs[r].tok.signed])]

\* One critical section: read the clock, look the window up, count or open.
TakeSlot(r) ==
    /\ reqs[r].pc = "limit"
    /\ LET s == reqs[r].tok.sub IN
       IF InWindow(s) /\ Full(s)
       THEN \* 429 with Retry-After
            /\ told' = [t \in DOMAIN told \cup {s} |->
                          IF t = s THEN [at |-> now, until |-> now + RetryAfter(s) * Second]
                                   ELSE told[t]]
            /\ reqs' = [reqs EXCEPT ![r] = Idle]
            /\ UNCHANGED <<windows, log>>
       ELSE LET w == IF InWindow(s) THEN [windows[s] EXCEPT !.count = @ + 1]
                                    ELSE [start |-> now, count |-> 1] IN
            /\ windows' = [t \in DOMAIN windows \cup {s} |->
                             IF t = s THEN w ELSE windows[t]]
            /\ log' = LetIn(r, w)
            /\ reqs' = [reqs EXCEPT ![r].pc = "acquire"]
            /\ UNCHANGED told
    /\ UNCHANGED <<now, permits>>

-----------------------------------------------------------------------------
(* Parsing, the permit and the queries. *)

\* parse_query says 400, whatever the load; the slot is spent.
Reject(r) ==
    /\ reqs[r].pc = "acquire"
    /\ reqs[r].plan = "invalid"
    /\ reqs' = [reqs EXCEPT ![r] = Idle]
    /\ UNCHANGED <<now, windows, permits, log, told>>

\* Slip: the permit is bound to _ and given back at once.
AcquireUnbound(r) ==
    /\ reqs[r].pc = "acquire"
    /\ reqs[r].plan # "invalid"
    /\ permits > 0
    /\ reqs' = [reqs EXCEPT ![r].pc = "query"]
    /\ UNCHANGED <<now, windows, permits, log, told>>

\* try_acquire: never waits.
Acquire(r) ==
    /\ reqs[r].pc = "acquire"
    /\ reqs[r].plan # "invalid"
    /\ permits > 0
    /\ permits' = permits - 1
    /\ reqs' = [reqs EXCEPT ![r].pc = "query"]
    /\ UNCHANGED <<now, windows, log, told>>

\* Slip: acquire, which waits for a permit.
BusyWaits(r) == FALSE /\ UNCHANGED vars

\* 503 with Retry-After: 5.
Busy(r) ==
    /\ reqs[r].pc = "acquire"
    /\ reqs[r].plan # "invalid"
    /\ permits = 0
    /\ reqs' = [reqs EXCEPT ![r] = Idle]
    /\ UNCHANGED <<now, windows, permits, log, told>>

\* The request ends and _permit is dropped.
Release(r) ==
    /\ permits' = permits + 1
    /\ reqs' = [reqs EXCEPT ![r] = Idle]
    /\ UNCHANGED <<now, windows, log, told>>

\* One query is answered; a latency request goes on to its next quantile.
QueryOk(r) ==
    /\ Querying(r)
    /\ IF reqs[r].left > 1
       THEN /\ reqs' = [reqs EXCEPT ![r].left = @ - 1]
            /\ UNCHANGED <<now, windows, permits, log, told>>
       ELSE Release(r)

\* A query fails, or runs into UPSTREAM_TIMEOUT_SECONDS: 502.
QueryFails(r) == Querying(r) /\ Release(r)

\* The client closes the connection, and the handler is dropped where it waits.
ClientGone(r) == Querying(r) /\ Release(r)

\* The process is replaced; what it kept in memory is gone.
Restart ==
    /\ windows' = [s \in {} |-> 0]
    /\ permits' = Permits
    /\ reqs' = [r \in Requests |-> Idle]
    /\ log' = [s \in Subs |-> <<>>]
    /\ told' = [s \in {} |-> 0]
    /\ UNCHANGED now

-----------------------------------------------------------------------------
\* What the handler does on its own.
Handle(r) == Verify(r) \/ TakeSlot(r) \/ Reject(r) \/ Acquire(r) \/ Busy(r)

Answer(r) == QueryOk(r) \/ QueryFails(r)

Next ==
    \/ Tick \/ Restart
    \/ \E r \in Requests : Arrive(r) \/ Handle(r) \/ Answer(r) \/ ClientGone(r)

Spec == Init /\ [][Next]_vars

\* The handler runs; Prometheus is given up after UPSTREAM_TIMEOUT_SECONDS.
\* Nothing limits how long the database takes.
Fairness ==
    \A r \in Requests :
        /\ WF_vars(Handle(r))
        /\ WF_vars(Answer(r) /\ reqs[r].plan = "series")

FairSpec == Spec /\ Fairness

-----------------------------------------------------------------------------
(* Properties. *)

Span == Window * Second

TypeOK ==
    /\ now \in Nat
    /\ permits \in 0..Permits
    /\ DOMAIN windows \subseteq Subs
    /\ \A s \in DOMAIN windows : windows[s] \in [start : 0..now, count : 1..Limit]
    /\ reqs \in [Requests -> {Idle} \cup
                   [pc : {"verify", "limit", "acquire", "query"},
                    tok : [sub : Subs, signed : BOOLEAN],
                    plan : Plans, left : 1..MaxQueries]]
    /\ log \in [Subs -> Seq([at : Nat, start : Nat, own : BOOLEAN])]
    /\ DOMAIN told \subseteq Subs
    /\ \A s \in DOMAIN told : told[s] \in [at : Nat, until : Nat]

\* Permits and running requests balance: never more than MAX_UPSTREAM_CONCURRENCY
\* upstream, and none is lost, however a request ends.
PermitsBalance ==
    permits + Cardinality({r \in Requests : Querying(r)}) = Permits

\* The fixed window bounds any minute: no holder gets more than twice the limit
\* within a window's length, wherever it begins.
MinuteBound ==
    \A s \in Subs : \A i \in 1..Len(log[s]) :
        i + 2 * Limit <= Len(log[s]) =>
            log[s][i + 2 * Limit].at - log[s][i].at > Span

\* What the API lets in and keeps up stays within its limits.
LimitsHold == MinuteBound /\ PermitsBalance

\* Only its holder spends a holder's budget: who is refused has really been let in
\* Limit times within the last window's length, with tokens that were accepted.
RefusalEarned ==
    [][\A s \in Subs :
         (s \in DOMAIN told' /\ (s \in DOMAIN told => told'[s] # told[s])) =>
            LET first == Len(log[s]) - Limit + 1 IN
            /\ first >= 1
            /\ \A i \in first..Len(log[s]) : log[s][i].own /\ log[s][i].at > now - Span]_vars

\* A client that waits as long as Retry-After says is not refused again, unless a new
\* window was opened since.
RetryHonoured ==
    [][\A s \in DOMAIN told \cap DOMAIN told' :
         (told'[s] # told[s] /\ told[s].until <= now) => windows[s].start > told[s].at]_vars

\* Every request for series is answered, however the others fare.
SeriesAnswered ==
    \A r \in Requests :
        (reqs[r] # Idle /\ reqs[r].plan = "series") ~> (reqs[r] = Idle)
=============================================================================
