------------------------------ MODULE Outcomes ------------------------------
(***************************************************************************)
(* What a call to a provider is counted as, how long it is said to have    *)
(* taken, and what rpc_up makes of it.                                     *)
(*                                                                         *)
(* Two paths lead to Metrics::record_call.  The check tasks go through     *)
(* RpcClient::call, classify and the freshness gate; the archival round    *)
(* goes through raw_call_checked, which folds failures into three cases,   *)
(* and timed_archival_block or timed_archival_tx.  Both wait for the same  *)
(* permits when a body is large, and all callers of a provider write its   *)
(* one gauge.                                                              *)
(*                                                                         *)
(* The provider may change what it does at any moment: between two calls,  *)
(* within one, between the head of an answer and its body.                 *)
(***************************************************************************)
EXTENDS Integers, FiniteSets

CONSTANTS
    Caller,      \* who calls the provider
    Casts,       \* who may take which path: a set of [Caller -> Paths]
    Permits,     \* LARGE_PARSE_GATE
    Deadline,    \* request_timeout, in ticks
    \* The environment and bounds of the model.
    Behaviours,  \* what the provider may do with a request
    MaxAge       \* a call that has taken longer is not told from one this old

\* A check task, one of them of a method that asks for a fixed slot, and the two
\* requests of an archival round.
Paths == {"task", "fixedSlot", "archivalBlock", "archivalTx"}

\* No connection, no answer, or a status: success, 429, other 4xx, 5xx, other.
Heads == {"refused", "silent", "ok", "429", "4xx", "5xx", "other"}

\* Breaks off, never ends, is no JSON-RPC answer, is the error of a skipped slot or
\* another one, the result null, a result that is not valid, one that is valid
\* but trails the tip too far, or valid and fresh.
Bodies == {"cut", "endless", "garbled", "skipped", "error", "null", "hollow", "old", "valid"}

Answer == [head : Heads, body : Bodies]

ASSUME OutcomesAssumption ==
    /\ IsFiniteSet(Caller) /\ Casts \subseteq [Caller -> Paths]
    /\ Permits \in Nat \ {0}
    /\ Deadline \in Nat \ {0}
    /\ Behaviours \subseteq Answer
    /\ MaxAge \in Nat /\ MaxAge >= Deadline

VARIABLES
    cast,      \* [Caller -> the path its calls take]
    provider,  \* what the provider does now
    pc,        \* [Caller -> where its call stands]
    age,       \* [Caller -> time since it was sent]
    got,       \* [Caller -> what has come of the answer]
    arrived,   \* [Caller -> how old the call was when its exchange ended]
    latency,   \* [Caller -> CallResult.latency]
    outcome,   \* [Caller -> the labels its call is counted with]
    up         \* the provider's rpc_up

call == <<age, got, arrived, latency, outcome>>
vars == <<cast, provider, pc, call, up>>

Statuses == {"success", "skipped", "error"}
ErrorKinds == {"none", "timeout", "transport", "http_429", "http_4xx", "http_5xx", "http_status",
               "rpc_slot_skipped", "rpc_error", "decode", "empty", "stale"}
Outcome == [status : Statuses, kind : ErrorKinds]

Nothing == [head |-> "silent", body |-> "endless"]
Success == [status |-> "success", kind |-> "none"]
Skipped == [status |-> "skipped", kind |-> "none"]
Error(kind) == [status |-> "error", kind |-> kind]

IsTask(c) == cast[c] \in {"task", "fixedSlot"}

-----------------------------------------------------------------------------
(* What an answer counts as. *)

\* Slip: only 429 is the monitor's own doing.
HttpOnly429(head) ==
    CASE head = "429" -> [status |-> "skipped", kind |-> "http_429"]
      [] head = "4xx" -> Error("http_4xx")
      [] head = "5xx" -> Error("http_5xx")
      [] OTHER -> Error("http_status")

\* CallStatus::label and ErrorKind::as_str of an HTTP status.
Http(head) ==
    CASE head = "429" -> [status |-> "skipped", kind |-> "http_429"]
      [] head = "4xx" -> [status |-> "skipped", kind |-> "http_4xx"]
      [] head = "5xx" -> Error("http_5xx")
      [] OTHER -> Error("http_status")

\* classify, and the gate of CheckTask::record.
Classify(path, a) ==
    IF a.head # "ok" THEN Http(a.head) ELSE
    CASE a.body = "garbled" -> Error("decode")
      [] a.body = "skipped" ->
           IF path = "fixedSlot" THEN Skipped ELSE Error("rpc_slot_skipped")
      [] a.body = "error" -> Error("rpc_error")
      [] a.body \in {"null", "hollow"} -> Error("empty")
      [] a.body = "old" -> Error("stale")
      [] a.body = "valid" -> Success

\* Slip: a result counts whatever is in it.
TimedUnchecked(path, a) ==
    IF a.head # "ok" \/ a.body = "garbled" THEN Error("transport") ELSE
    CASE a.body = "skipped" ->
           IF path = "archivalBlock" THEN Skipped ELSE Error("rpc_slot_skipped")
      [] a.body = "error" -> Error("rpc_error")
      [] OTHER -> Success

\* raw_call_checked and timed_archival_block or timed_archival_tx.
Timed(path, a) ==
    IF a.head # "ok" \/ a.body = "garbled" THEN Error("transport") ELSE
    CASE a.body = "skipped" ->
           IF path = "archivalBlock" THEN Skipped ELSE Error("rpc_slot_skipped")
      [] a.body = "error" -> Error("rpc_error")
      [] a.body = "null" -> IF path = "archivalTx" THEN Skipped ELSE Error("empty")
      [] a.body = "hollow" -> Error("empty")
      [] a.body \in {"old", "valid"} -> Success

Judged(c, a) == IF IsTask(c) THEN Classify(cast[c], a) ELSE Timed(cast[c], a)

-----------------------------------------------------------------------------
(* The provider and the clock. *)

Change ==
    /\ provider' \in Behaviours
    /\ UNCHANGED <<cast, pc, call, up>>

\* Whether a call's clock runs.
Running(c) == pc[c] \in {"sent", "body", "gate", "parse"}

\* A request is not older than the deadline; waiting for a permit has no limit.
Tick ==
    /\ \A c \in Caller : pc[c] \in {"sent", "body"} => age[c] < Deadline
    /\ \E c \in Caller : Running(c)
    /\ age' = [c \in Caller |-> IF Running(c) /\ age[c] < MaxAge THEN age[c] + 1 ELSE age[c]]
    /\ UNCHANGED <<cast, provider, pc, got, arrived, latency, outcome, up>>

-----------------------------------------------------------------------------
(* One call. *)

Goto(c, l) == pc' = [pc EXCEPT ![c] = l]

Send(c) ==
    /\ pc[c] = "idle"
    /\ Goto(c, "sent")
    /\ UNCHANGED <<cast, provider, call, up>>

\* The exchange ends here and its outcome is known.
Ends(c, a, o) ==
    /\ Goto(c, "count")
    /\ got' = [got EXCEPT ![c] = a]
    /\ arrived' = [arrived EXCEPT ![c] = age[c]]
    /\ latency' = [latency EXCEPT ![c] = age[c]]
    /\ outcome' = [outcome EXCEPT ![c] = o]
    /\ UNCHANGED <<cast, provider, age, up>>

\* Slip: a request that times out is left to its next turn.
TimeoutUncounted(c) ==
    /\ pc[c] = "sent" /\ provider.head = "silent" /\ age[c] = Deadline
    /\ Goto(c, "idle")
    /\ age' = [age EXCEPT ![c] = 0]
    /\ UNCHANGED <<cast, provider, got, arrived, latency, outcome, up>>

\* send().await fails: only a task tells a timeout from the rest.
Timeout(c) ==
    /\ pc[c] = "sent" /\ provider.head = "silent" /\ age[c] = Deadline
    /\ Ends(c, Nothing, IF IsTask(c) THEN Error("timeout") ELSE Error("transport"))

Refused(c) ==
    /\ pc[c] = "sent" /\ provider.head = "refused"
    /\ Ends(c, [Nothing EXCEPT !.head = "refused"], Error("transport"))

\* The archival path leaves at a status that is none of success; a task reads on.
Head(c) ==
    /\ pc[c] = "sent" /\ provider.head \notin {"silent", "refused"}
    /\ LET a == [Nothing EXCEPT !.head = provider.head] IN
         IF provider.head # "ok" /\ ~IsTask(c)
         THEN Ends(c, a, Error("transport"))
         ELSE /\ Goto(c, "body")
              /\ got' = [got EXCEPT ![c] = a]
              /\ UNCHANGED <<cast, provider, age, arrived, latency, outcome, up>>

\* bytes().await fails: the deadline passed or the connection broke.
BodyFails(c) ==
    /\ pc[c] = "body"
    /\ provider.body = "cut" \/ (provider.body = "endless" /\ age[c] = Deadline)
    /\ Ends(c, [got[c] EXCEPT !.body = provider.body], Error("transport"))

Arrives(c) == pc[c] = "body" /\ provider.body \notin {"cut", "endless"}

\* A small body is classified on the spot.
BodySmall(c) ==
    /\ Arrives(c)
    /\ LET a == [got[c] EXCEPT !.body = provider.body] IN Ends(c, a, Judged(c, a))

\* A large one waits for a permit; a task has read the clock before.
BodyLarge(c) ==
    /\ Arrives(c)
    /\ Goto(c, "gate")
    /\ got' = [got EXCEPT ![c].body = provider.body]
    /\ arrived' = [arrived EXCEPT ![c] = age[c]]
    /\ UNCHANGED <<cast, provider, age, latency, outcome, up>>

\* Slip: the last permit is never given.
AcquireLess(c) ==
    /\ pc[c] = "gate"
    /\ Cardinality({d \in Caller : pc[d] = "parse"}) < Permits - 1
    /\ Goto(c, "parse")
    /\ UNCHANGED <<cast, provider, call, up>>

Acquire(c) ==
    /\ pc[c] = "gate"
    /\ Cardinality({d \in Caller : pc[d] = "parse"}) < Permits
    /\ Goto(c, "parse")
    /\ UNCHANGED <<cast, provider, call, up>>

\* start.elapsed(): a task's clock stopped at the end of the body, an archival
\* request's goes on until raw_call_checked returns.
Latency(c) == IF IsTask(c) THEN arrived[c] ELSE age[c]

Parsed(c) ==
    /\ pc[c] = "parse"
    /\ Goto(c, "count")
    /\ latency' = [latency EXCEPT ![c] = Latency(c)]
    /\ outcome' = [outcome EXCEPT ![c] = Judged(c, got[c])]
    /\ UNCHANGED <<cast, provider, age, got, arrived, up>>

-----------------------------------------------------------------------------
(* record_call: a histogram and a counter, then the gauge. *)

Count(c) ==
    /\ pc[c] = "count"
    /\ Goto(c, "gauge")
    /\ UNCHANGED <<cast, provider, call, up>>

\* The gauge goes down for an error only; then the call is forgotten.
SetUp(c) ==
    /\ pc[c] = "gauge"
    /\ up' = (outcome[c].status # "error")
    /\ Goto(c, "idle")
    /\ age' = [age EXCEPT ![c] = 0]
    /\ got' = [got EXCEPT ![c] = Nothing]
    /\ arrived' = [arrived EXCEPT ![c] = 0]
    /\ latency' = [latency EXCEPT ![c] = 0]
    /\ outcome' = [outcome EXCEPT ![c] = Skipped]
    /\ UNCHANGED <<cast, provider>>

-----------------------------------------------------------------------------
Init ==
    /\ cast \in Casts
    /\ provider \in Behaviours
    /\ pc = [c \in Caller |-> "idle"]
    /\ age = [c \in Caller |-> 0]
    /\ got = [c \in Caller |-> Nothing]
    /\ arrived = [c \in Caller |-> 0]
    /\ latency = [c \in Caller |-> 0]
    /\ outcome = [c \in Caller |-> Skipped]
    /\ up = FALSE

Step(c) ==
    \/ Send(c) \/ Timeout(c) \/ Refused(c) \/ Head(c) \/ BodyFails(c)
    \/ BodySmall(c) \/ BodyLarge(c) \/ Parsed(c) \/ Count(c) \/ SetUp(c)

Next ==
    \/ \E c \in Caller : Step(c) \/ Acquire(c)
    \/ Tick \/ Change

Spec == Init /\ [][Next]_vars

\* Time passes, every caller goes on (a check task calls again after its interval,
\* a round after its own), and the semaphore serves its waiters in order.
Fairness ==
    /\ WF_vars(Tick)
    /\ \A c \in Caller : WF_vars(Step(c)) /\ SF_vars(Acquire(c))

FairSpec == Spec /\ Fairness

-----------------------------------------------------------------------------
(* Properties. *)

\* Every variable has its type, and no more bodies are parsed than there are
\* permits.
TypeOK ==
    /\ cast \in Casts
    /\ provider \in Behaviours
    /\ pc \in [Caller -> {"idle", "sent", "body", "gate", "parse", "count", "gauge"}]
    /\ age \in [Caller -> 0 .. MaxAge]
    /\ got \in [Caller -> Answer]
    /\ arrived \in [Caller -> 0 .. Deadline]
    /\ latency \in [Caller -> 0 .. MaxAge]
    /\ outcome \in [Caller -> Outcome]
    /\ up \in BOOLEAN
    /\ Cardinality({c \in Caller : pc[c] = "parse"}) <= Permits

Counting(c) == pc[c] \in {"count", "gauge"}

\* The table of docs/error-kinds.md, for an answer whose body came whole or whose
\* head never came; it does not speak of a status other than success, 4xx and 5xx.
Documented(path, a) ==
    IF a.head = "refused" THEN {"transport"}
    ELSE IF a.head = "silent" THEN {"timeout"}
    ELSE IF a.head = "ok" THEN
        CASE a.body = "garbled" -> {"decode"}
          [] a.body = "skipped" -> IF path = "fixedSlot" THEN {"none"} ELSE {"rpc_slot_skipped"}
          [] a.body = "error" -> {"rpc_error"}
          [] a.body \in {"null", "hollow"} -> {"empty"}
          [] a.body = "old" -> {"stale"}
          [] a.body = "valid" -> {"none"}
    ELSE CASE a.head = "429" -> {"http_429"}
           [] a.head = "4xx" -> {"http_4xx"}
           [] a.head = "5xx" -> {"http_5xx"}
           [] OTHER -> {"http_status"}

\* What speaks neither for nor against a provider: a 4xx, a slot without a block
\* where one slot is asked for.
Neutral(path, a) ==
    \/ a.head \in {"429", "4xx"}
    \/ a.head = "ok" /\ a.body = "skipped" /\ path \in {"fixedSlot", "archivalBlock"}

\* However the provider changes while a check task's call is under way, the call
\* is counted with the kind its answer has in docs/error-kinds.md, and as neutral
\* exactly if that is neutral.  Not so when the body is cut short: then the head
\* is forgotten.
AsDocumented ==
    \A c \in Caller :
        IsTask(c) /\ Counting(c)
        /\ (got[c].head \in {"refused", "silent"} \/ got[c].body \notin {"cut", "endless"})
        => /\ outcome[c].kind \in Documented(cast[c], got[c])
           /\ outcome[c].status = "skipped" <=> Neutral(cast[c], got[c])

\* A call counts as a success only if a complete, valid answer came before the
\* deadline: on the archival path too, which sorts failures into three cases.
SuccessIsServed ==
    \A c \in Caller :
        Counting(c) /\ outcome[c].status = "success" =>
            /\ got[c].head = "ok"
            /\ got[c].body = "valid" \/ (got[c].body = "old" /\ ~IsTask(c))
            /\ arrived[c] <= Deadline

\* While a provider fails whatever it is asked, rpc_up goes down and stays down,
\* although calls answered earlier are still being parsed and recorded.
BrokenShows ==
    <>[](provider.head \in {"refused", "silent", "5xx"}) => <>[](~up)

\* While it serves, rpc_up comes up and stays up.
HealthyShows ==
    <>[](provider.head = "ok" /\ provider.body = "valid") => <>[]up

\* Calls are counted as what happened to them, by the check tasks and by the archival
\* round, however many run side by side.
CountedTruly == AsDocumented /\ SuccessIsServed

\* rpc_up follows the provider.
UpFollows == BrokenShows /\ HealthyShows
=============================================================================
