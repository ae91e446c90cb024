# A TLA+ model of rpc-latency-monitor

`rpc-latency-monitor` probes Solana RPC providers and publishes how fast, how
fresh and how truthful they are. What makes it hard is not any one probe: many
threads move one shared idea of "the tip", answers are judged minutes later
against a node that lags, fails and forgets, and the monitor must never call an
honest provider a liar. Around that core lie the samples it ships, the API that
answers questions about them, and the configuration that decides what runs at
all. This directory models these parts, checks
it with TLC on small instances and proves the main results with TLAPS for all of
them. Paths below are relative to the repository; line numbers refer to the
modelled commit and are listed per definition in `PROJECT.json` ("map").

## 1. Inventory

| Component | State it keeps | Operations | Talks to | What is hard, what must hold |
|---|---|---|---|---|
| Fleet tip (`src/reference_slot.rs`) | one `AtomicU64`, 0 = none | `observe` (fetch_max), `current`, `lag_for`, the endpoint poller | every check task, the sink, the archival round | raised from many threads between any two reads; an answer that was fresh when formed must not become stale by the raise |
| Check tasks (`src/scheduler.rs`) | `rotation`, `used_anchor` per task; shared pools of signatures and accounts | call, classify, `record`: gate, count, log, submit, observe, feed the pools | RPC client, sink, tip, sample log, metrics | the context is read before an await and used after it; pools are filled by other, perhaps dishonest, providers |
| RPC client and methods (`src/rpc/`) | `LARGE_PARSE_GATE`, two permits | `call`, `raw_call_checked`, `build_params`, `is_valid_result`, `claim_payload`, filters and `GpaMatcher` | providers, the reference node | a large answer waits for a permit without a timeout; a call can end in many ways, each with a kind of its own; nothing of an anchored page may leak |
| GPA derivation (`src/gpa_derive.rs`) | derived targets | `token_anchors`, `candidate_targets`, preflight, `update` | the accounts pool, the rotation | targets change while they are being asked for; what a target was derived from, what it asks and what its answer is checked against must be read alike |
| Claim sink and verifier (`src/reference_check.rs` 387-568) | queue of claims, node tip with its age | `submit`, `set_node_tip`, `drain_due`, `run_verify_tick` | check tasks, reference node, metrics | two tips read at four moments; the node may be behind, or silent; the queue overflows |
| judge_claim (`src/reference_check.rs` 570-784) | block cache of a tick, account counts with a TTL | one judge per kind of claim, request by request | reference node | failures are cached; counts are of another moment; partial answers must not accuse |
| Archival round (`src/reference_check.rs` 100-330) | used slots, the anchor | pick a slot, vote on its block, look up its transaction, publish the anchor | all providers; `getSignaturesForAddress` checks | the providers that are graded define the truth; answers join in any order |
| Reference round (`src/reference_check.rs` 57-84) | none between rounds | fetch one blockhash each, compare | all providers, reference node | one await after another while the chain goes on; a silent provider must not keep the others from being judged |
| Sample log (`src/sample_log.rs`) | channel, buffer, the chunk under way | `log`, `flush_loop`, `flush_chunk` | ingest endpoint | lost replies, late arrivals, retries, a bound under outage |
| Raw API (`src/raw_api.rs`) | rate-limit windows, upstream permits; the Postgres table of samples | token check, `parse_query`, Prometheus queries, `compute_win_rates`, sample queries, ingest, schema and retention | sample log, clients, Prometheus, Postgres | limits under concurrent requests and restarts; what comes back when one of several queries fails; migrations, purge, posts and answers of two processes at a time |
| Metrics (`src/metrics.rs`) | counters, `rpc_up` | `record_call`, `record_claim_check`, `record_reference_check` | everything above | one gauge written from two threads |
| Configuration and start (`src/config.rs`, `src/providers.rs`, `src/main.rs`, `src/server.rs`) | the configuration, what was spawned | load, validate, resolve, spawn, bind, shut down | starts all of the above | tasks feed one another, which is written nowhere: a task may starve in silence |

Shared state and messages: every provider's tasks run on an OS thread of their
own (single-threaded tokio runtime); the verifier, the archival round, the
deriver, the poller and the flush loop run on the main runtime. They meet at the
tip (atomic), the queue, the node tip, the pools, the derived targets and the
anchor (each behind its own mutex), and at the sample channel.

The hazards this gives rise to are listed in `PROJECT.json` ("hazards"), each at
its line with the properties that would catch it.

## 2. Modules

| Module | Models | Extends / uses |
|---|---|---|
| `ReferenceSlot` | the arithmetic of the tip and of the freshness gate | - |
| `ClaimPipeline` | an answer from its call to its verdict: gate, `submit`, `observe`, queue, verifier tick; chain, node and time | `ReferenceSlot` |
| `Judge` | `judge_claim`, request by request, with its two caches | `ReferenceSlot` |
| `Archival` | the archival round, the used slots and the anchored paging | `ReferenceSlot` |
| `Probe` | how a check's question is made and what its answer leaves behind; parse gate; deriver | - |
| `Targets` | what a gpa target asks for, what its answer is taken for, what targets are derived from accounts | - |
| `Outcomes` | the two ways a call is made, how each way to end is counted, the latency, `rpc_up` | - |
| `ReferenceRound` | the reference round, request by request | `ReferenceSlot` |
| `Startup` | what a configuration starts, and which task feeds which | - |
| `RawApi` | tokens, rate limit, permits, requests that end in every way | - |
| `RawQuery` | `parse_query` | - |
| `RawAnswer` | the queries behind an answer, `to_series`, win rates | - |
| `SampleStore` | schema, retention, ingest and sample queries of several processes over one table | - |
| `SampleLogAbs` | what the sample log promises: a bounded at-least-once queue in order | - |
| `SampleLog` | channel, buffer, chunks, retries and the endpoint | `SampleLogAbs` (refinement) |
| `MCClaimPipeline`, `MCArchival`, `MCOutcomes`, `MCStartup` | instances for TLC | the module they are named after |
| `MCSamples`, `MCReference`, `MCProbe`, `MCRaw` | instances of two or three neighbours, side by side | `SampleLog` and `SampleStore`; `Judge` and `ReferenceRound`; `Probe` and `Targets`; `RawApi`, `RawQuery` and `RawAnswer` |
| `ClaimPipeline_proofs`, `Archival_proofs`, `Outcomes_proofs`, `Startup_proofs` | theorems | the module they are named after, TLAPS |
| `Reference_proofs`, `Samples_proofs`, `Probe_proofs`, `Raw_proofs` | theorems about the same neighbours as in the `MC` modules | `Judge` and `ReferenceRound`; `SampleLog` and `SampleStore`; `Probe` and `Targets`; `RawApi`, `RawQuery` and `RawAnswer`; TLAPS |

In every module a definition commented as a **slip** is a plausible mistake in the
definition below it. No behaviour uses it; put in that definition's place, it
makes the property violated for which it was written.

The four `MC` modules of the second kind put parts side by side that share no
state: what lies between them in the code (the endpoint, the reference node,
an account, a request) is the environment of each. A behaviour moves one part and
leaves the others in one fixed initial state, so a run costs the sum of its parts,
not their product, and every property of a part is checked on all of its
behaviours. To have them side by side, `SampleStore` (`StoreInit`, `StoreNext`...),
`ReferenceRound` (`RoundInit`...), `Targets` (`TargetsInit`...), `RawQuery` (`QueryInit`...) and
`RawAnswer` (`SeriesInit`...) carry a prefix.

### ClaimPipeline

Each action is one access to shared state, because that is the granularity at
which the threads interleave. `CheckTask::record` is `Gate`, then `submit`'s reads
(`SubmitReadNode`, `SubmitReadFleet`: `node_caught_up`; `SubmitCompare`: the second
read of the node tip), `SubmitPush`, and only then `ObserveTip`. Tasks of one
provider share a thread, so a `record` once begun is finished before the next one
of that provider (`ThreadFree`). `run_verify_tick` is `PollNode`, `SetNodeTip`,
`ReadTip`, `DrainDue`, `ReadStale`, `Judge`, in the code's order with its early
returns.

Time is counted in `SLOT_MS`. The projected node tip (`node_tip()`: slot plus
elapsed time / `SLOT_MS`) is kept as the number it would return; a `Tick` ages it.
Code without an await runs in far less than a slot, so time passes only while all
threads wait. `EffectiveTip` reads its two tips in one step: both only matter
through their maximum, and the second cannot fall in between. Relaxed atomics are
taken as coherent for the single location they protect. `judge_claim` is one step
here, a relation from what the node knows (its confirmed state) to the verdicts
it may give; `Judge` opens it up.

The environment constants name what is assumed of the world: an honest provider
trails the chain by at most `Trail`, an answer travels at most `Flight`, the node
trails by at most `NodeLag`, its confirmed state by `ConfirmLag` more.

### Judge

One action per request and its answer. A block is named by its slot and a
transaction by the slot it lies in, since the judges only compare. `NodeBlock` is
`node_block`: whatever was answered for a slot holds for the rest of the tick, a
failure included. `JudgeWindow` is one turn of the window loop. `NodeCount` is
`cached_gpa_count`: an expired count stays until a fetch succeeds, but is not used.
`Tick` moves the node's confirmed state and the accounts between any two requests.
Blocks and accounts never share state in the code, so a configuration has one or
the other (`Configs`); within a kind all interleavings are there.

### Archival

`PickSlot` with `UsedSlots::insert` and its eviction, one `JoinBlock` per provider
in any order (or a task that died), `JudgeBlocks` with `majority_block` and its
tie-break by hash-map order, `JoinTx`, `PublishAnchor`. `AskPage` and `PageAnswered` are
the anchored `getSignaturesForAddress` cycle of a check task. A provider outside
`Honest` may answer anything of the right shape. The random draw of a slot is a
choice among all unused ones; giving up after many draws leaves the round out.

### Probe

`Call` reads the context (rotation, pools, derived targets, anchor) before the
await; `AnswerSmall`, or `AnswerLarge` / `Acquire` / `Parsed` through the gate,
classify against that context, count and feed the pools. `DeriveStart`, `Preflight`,
`DeriveEnd` are the deriver. The tip is taken to be known; the gate's verdict is a
choice ("stale" for methods that name a slot), since `ClaimPipeline` decides it.
Account names are reduced to whether the account exists, signatures to "seen on
some honest provider" or "invented". The rotation counter is kept modulo `Turns`,
a multiple of every length the list of targets takes here and of two, so
each index and parity is exact. The preflight's candidates come out of a hash map: what
passed is a set, and `Merge` adds its new names to the derived targets in any order.

### SampleLog

`Log` is `try_send`; `Receive`, `ReceiveClosed`, `TickFlush` are the branches of
`select!`, `Post` takes a chunk out of the buffer, `PostOk` / `PostFailed` end it,
`PutBack` is lines 160-166. A post that timed out stays in `late` and may be stored
at any later time, or never. The database is the set of samples it holds: a chunk
whose reply was lost is inserted twice, and nothing in the repository promises
otherwise. `SampleLogAbs` is implemented under
`pending <- batch \o buffer \o chan`, `Capacity <- MaxBuffered`.

### Targets

Accounts are sequences of bytes, keys two of them, a token account six. `Selects`
is how a node reads `gpa_filters`, `Matches` is `GpaMatcher`, `TokenAnchors` reads keys out
of token accounts at the literal offsets of `token_anchors`, `Candidates` writes them
into filters at the constants of `methods.rs`; `OwnedBy` is `getTokenAccountsByOwner`.
`Derive` preflights every candidate on one state of the chain: which of them a
round reaches before its limit, and the order, are in `Probe`. A claim's sample is the set of
its keys: `Picks` are the places that are read, `Sampled` what an entry becomes.

### Outcomes

A caller is a check task (with or without a fixed slot), or one of the two requests
of an archival round. `Send`, the head and the body of an answer, `Acquire` and the
parse, and the record are steps of their own; the provider may change what it does
between any two. A call has an age, which stops growing at `MaxAge`. A parser that
panics is left to `Probe`. `up` is the one gauge of the provider.

### ReferenceRound

`Begin` or `Abandon`, then `Judge` one provider at a time in the order of the
configuration; the chain advances, skips slots and providers lag and catch up
between any two. A block is named by its slot. The reference node is trusted: it
may fail, but what it answers is so.

### Startup

`Load` is `Config::load` with every condition of `validate`, `Resolve` the checks of
geos and urls, then one action per `spawn_*` call of `main`, in its order, `Serve` and
`Shutdown`. Tasks run from the moment they are spawned, also before the socket is
bound. The pools that tasks fill for one another are flags, the archival anchor is the set of
providers that have not used it yet. An action per request: `Ask`, `AskInVain`,
`AskDerived`, `AskAnchored`, `Poll`, `Derive`, `Round`, `Compare`, `Verify`. `last` is the
latest request.

### RawApi, RawQuery, RawAnswer, SampleStore

In `RawApi` a request passes its token check, `take_rate_limit_slot`, the parser and
`try_acquire`; it holds the permit for all its queries until it is answered, fails,
hangs in the database, or the client leaves, which drops it. Time has a finer unit
than the second that the window is measured in. A restart forgets the windows.
`RawQuery` is `parse_query` as a function of the parameters, absent and unreadable
ones among them. `RawAnswer` has one action per Prometheus query and the fold of the
replies; series come in any order. `SampleStore` has a task per process
(migration, migration, purge each day), posts that are repeated until told "ok",
statements that fail or whose reply is lost, and queries in two steps, between
which a day may pass.

## 3. Runs

All runs finish within two and a half minutes on two workers.

| Run | Asks | Answer |
|---|---|---|
| `honest` | honest providers on two threads, a node within its margin whose poll may fail: is any answer implausible or stale, is the node called stale wrongly? | never |
| `overreport` | one provider stamps slots ahead of the chain: is the other's claim judged too early? | no; a due claim that is judged has settled up to `node_stale_slots`, and no honest transaction is missing |
| `settles` | block and account claims, a queue of one, the tip polled from the node too | each claim leaves once, and each settled one leaves in the end |
| `one_faulty` | three providers, one of which answers anything, one slot skipped | no honest mismatch; the anchor is a transaction of its slot |
| `reuse` | five rounds over three slots, the used set past its cap, pages under way while the anchor is replaced | repeats only after the cap; honest pages are accepted; rounds end |
| `verdicts`, `Judge` | ticks of two claims over every chain of three slots with failing requests; accounts that come, go and move | verdicts about blocks are true of the chain; stale counts are tolerated; `ClaimPipeline`'s one-step `judge_claim` covers them; ticks end |
| `verdicts`, `ReferenceRound` | a provider that answers anything, the excluded one, an honest one that lags | no honest mismatch, missing only for a failed request, verdicts about final slots only, each judged again and again |
| `turns`, `Probe` | an honest check asked what another provider's answers suggest, one permit | never empty for that reason; nothing leaks; every target gets its turn; every call ends |
| `turns`, `Targets` | chains of four accounts, configured and derived targets, both methods, a wrong answer: do all read accounts alike? | an honest answer is good unless empty, a foreign account never is; a derived target finds what its preflight counted; a claim samples both ends and the middle |
| `outage`, `SampleLog` | an endpoint that fails, loses replies and answers late | bounded, in order, implements the abstract queue, everything settles |
| `outage`, `SampleStore` | two processes, one replaced; migrations, purges and posts that fail; queries of the whole range | no confirmed sample of the range is missing; posted samples get in, old ones go |
| `counted` | a provider that changes what it does, called on two paths at a time with one permit | only what was served in time is a success; a check is counted as docs/error-kinds.md says; `rpc_up` follows the provider in the end |
| `promised` | about a hundred configurations, the broken ones too, with and without feeders | no request that the configuration does not promise: broken ones never start, regions and exclusions are kept, no feeder is missing from `Promised`; whatever can be fed is asked again and again |
| `requests`, `RawApi` | genuine and forged requests of one holder over one and a half windows and one permit; hung queries, clients that leave, restarts | at most twice the limit within a window's length; who is refused has used the limit itself; Retry-After is enough; permits add up; a request for series is answered |
| `requests`, `RawQuery` | every query of up to three parameters around every limit | accepted queries keep to points and range; an omitted step fits; a quantile is asked for once |
| `requests`, `RawAnswer` | every reply of Prometheus, ties, gaps and failures | each timestamp is won once, by a value that is there; all quantiles or an error |

Some properties are conjunctions of what a run asks of one part, each conjunct
with a name and a mutant of its own:

| Property | Says together |
|---|---|
| `VerdictsDeserved` (`ReferenceRound`) | `HonestNeverMismatch`, `HonestNeverMissing`, `JudgedIsFinal` |
| `AllAreJudged` (`MCReference`) | ticks of `Judge` end; every provider is judged again and again |
| `ReadAlike` (`Targets`) | provider, node and monitor read an account alike, and samples reach both ends |
| `CountedTruly` (`Outcomes`) | `SuccessIsServed`, `AsDocumented` |
| `UpFollows` (`Outcomes`) | `rpc_up` ends at 0 for a provider that stays broken, at 1 for one that stays well |
| `LimitsHold` (`RawApi`) | `MinuteBound`, `PermitsBalance` |
| `QueryFits` (`RawQuery`) | cost, the default step, each quantile once |
| `AnswersMeant` (`RawAnswer`) | each timestamp is won once; what is answered was replied; all or an error |
| `StoreCatchesUp` (`SampleStore`) | posted rows get in, old ones go |

The types of all modules that state one are proved for all constants (`TypeCorrect` and
its kin, section 4); the runs `turns` and `promised` check those of `Probe` and
`Startup` as well, where a target without an anchor or a task too early is what a
mistake would show as.

One run shows a disagreement between the code and its documentation:

| Run | Says | The code |
|---|---|---|
| `stale_tip` | docs/anti-gaming.md:77-78 "no provider can lower the bar for others or manufacture staleness" | the tip has no upper bound: one answer that names a slot ahead of the chain makes the honest answers of others stale |

Further disagreements were met while translating; the modules model what the code
does, and no run is spent on them:

* docs/anti-gaming.md:6-7 "an honest-but-slow answer must never be misclassified as a
  lie": with the default `node_stale_slots` (64) above `claim_delay_slots` (32) a claim due
  by the fleet's tip is looked up on a node that need not have its slot. The
  assumption of `HonestTransactionsFound` excludes it; with `Delay = 1`,
  `StaleAfter = NodeLag = 2`, `ConfirmLag = 0` and the other values of
  `ClaimPipeline_honest.cfg`, TLC finds an honest transaction `missing`.
* docs/anti-gaming.md:271-273 "a split records `skipped`, not a verdict": of two votes
  against two, one hash wins by hash-map order (`Truths`), the others are `mismatch`.
* docs/anti-gaming.md:235-238 "the sampled pubkeys still exist ... Mild delay never
  produces a false accusation": an account closed before the claim has settled makes
  it `mismatch` (`SampleVerdict`), which `HonestCountsTolerated` leaves out.
* README.md:345-347 "HTTP 4xx (including 429) is neutral": an archival request that is
  answered 4xx counts as a transport error and clears `rpc_up` (`Timed`).
* README.md:32 "Wall-clock round-trip latency": an archival latency contains the wait
  for a parser that other answers hold (`Latency`).
* docs/error-kinds.md:13 timeout is "No response within the per-check deadline": a
  deadline that ends the body counts as transport (`BodyFails`).
* README.md:171-174 a new region needs "no code changes": where geo.rs does not list the
  region, every provider that states its coverage is left out (`Serves`).
* config.example.yaml:70 `exclude_provider` "don't judge the reference against itself":
  only the reference round looks at it; the provider's claims are judged by its
  own node (`Verifies`).

Smaller observations that no run is spent on: the `status` filter of the Raw API is
accepted and ignored by every template but `samples`; the rate limit forgets its
windows with the process; queries to Postgres have no timeout, so eight that hang
answer everyone else 503; an empty `win_rate` answer in CSV has the header of a time
series; a query over the full range whose statement runs after midnight may miss
rows that were purged; an answer whose `error` is `null` counts as `rpc_error`; a
provider that answers 401 for ever has `rpc_up` 1; `raw_call` does not tell a
timeout or a 429 from absence, so the reference round records them as `missing`;
docs say that `get_account_info` rotates accounts, but it always asks for the clock;
the archival round, which config.example.yaml:62 says "runs always", needs two
measured providers and a tip; a port that is taken is noticed after every task has
started, and probed providers; rows that wait in memory are lost when main ends, since the
providers' threads keep the channel open. `UsedSlots` forgets after
`ARCHIVAL_USED_CAP` slots, so "never-repeated" (docs/anti-gaming.md:130) holds
up to that many rounds; a quorum confirms that the published signature lies in its
slot, not that it is the first of its block, so after a dishonest first answer an
honest page may contain the anchor's own slot and be scored empty; a signature
one provider invented is asked of all others, whose honest answer counts as
empty; rows whose reply was lost are stored twice.

### Bounds, and why they are enough

* `ClaimPipeline`: two tasks, of two providers where threads matter, of the kinds
  that differ in the path they take (`tx` and `hash` observe and claim, `slot` only
  observes, `block` only claims, `accounts` may lack a slot); budgets of one or two
  slots around which the answers vary on both sides, so every comparison is met at
  its boundary; two claims, one more than the queue of `settles` holds. The chain
  grows by up to three slots (`MaxSlot`), the projection of a silent node runs up to
  `MaxTip`. At the bounds the chain stops but the verifier goes on, so a bounded
  chain does not hide an unsettled claim; the liveness property speaks of claims
  the node has passed.
* `Archival`: three providers are the fewest with a faulty one and a quorum of two
  honest ones, four the fewest for a tie. `reuse` has two honest providers and more
  rounds than twice the cap, so that the set evicts and slots repeat.
* `Judge`: a window of one slot plus its top, three slots, so that windows of two
  claims overlap in the cache and slot 0 is reached; two claims a tick. Tolerance,
  TTL and settling time are as small as they can be while stale counts are in use;
  with a tolerance below them honest claims would be accused, which is the
  assumption the theorem names.
* `Probe`: two tasks and one permit (the code has two and many tasks) so that one
  waits for the other; a pool of three is the least that rotates; one anchor, whose
  accounts are at the lower bound of the preflight; two shapes of derived targets
  next to one curated one, so the rotation's list grows from one to three.
* `Targets`: four addresses, so that an answer of four has a middle that is not an
  end; accounts with one key in both places, with a key at the end, too short, of
  another program, and closed; targets at every place of an account, across its
  keys and past its end. One account may change between preflight and request.
* `Outcomes`: a deadline of one tick, and an age up to which callers are told apart:
  every call can be in time, just late and later. Two callers and one permit make
  one wait for the other; the four paths are there, two at a time.
* `ReferenceRound`: a chain of six slots, a depth of two and lags up to it, so that
  rounds start on a chain too young, on a skipped slot and on a final one.
* `Startup`: two providers, which the archival round needs; checks that starve for
  want of each feeder and that do not; one region that geo.rs knows and one that it
  does not; everything at once, and one thing missing or found elsewhere.
* `RawApi`: two requests at a time for a limit of two; a window of two seconds of two
  ticks each, so that half seconds are rounded; one and a half windows, so that slots of two are let in within the length of one;
  one more request than permits and up to two queries each.
* `RawQuery`: a calendar of twelve seconds with all limits scaled; values one below,
  at and above each limit. The theorems hold for all values.
* `RawAnswer`: two providers and two timestamps are the least with a tie at one and a
  winner at the other; a latency query has one timestamp, since it only gathers.
* `SampleStore`: a retention and range of one day over three days, two processes and
  a replacement, fewer rows per answer (`Limit`) than samples.
* `SampleLog`: chunks of two, a buffer of three, a channel of two and five samples:
  enough for an odd rest, an eviction, a retry with rows behind it and a full
  channel at the same time.

`SYMMETRY` is used in `one_faulty` over honest providers, which no constant tells
apart and where no liveness is checked. Deadlock is checked everywhere but where
the model really stops: in `outage` every sender is gone and all is flushed, and in
`promised` the process is shut down. Parts that follow one request to its end
(`Targets`, `RawQuery`, `RawAnswer`) stutter there, and only there, by a disjunct of
their `MC` module, so that a deadlock before the end still counts.

### Fairness

* `ClaimPipeline`: an await ends (the request timeout is an answer), a ready thread
  runs, time passes. `SF` of `Gate`: a task that is ready again and again gets its
  thread. `SF` of a successful poll: the node answers sometimes if asked forever;
  without it the sink rightly waits for ever.
* `Archival`: every joined task ends, by answer, timeout or panic.
* `Judge`: every request ends.
* `Probe`: `WF` of `Call` (the sleep between cycles is bounded) and `Fails` (a request
  times out, a parser ends one way or the other). `SF` of `Acquire`: tokio's
  semaphore is first-come-first-served, so a waiter is not passed over.
* `Outcomes`: a caller's own steps happen, time passes, and the parse gate is
  first-come-first-served.
* `ReferenceRound`: the round's task runs and its requests end; the chain grows, and
  honest providers catch up.
* `Startup`: `main` goes on. What tasks find is never unset, so that each finding takes
  place once if its task's turn keeps coming: `WF` of a step that finds something.
  `SF` of an archival round that ends in agreement, and of a claim by each provider:
  they happen now and then. `PromisedHappens` then says of each task whose turn
  keeps coming that it asks: a task that starved would never be able to.
* `RawApi`: a request is handled, Prometheus answers (its client has a timeout).
  Postgres may hang: nothing is promised for samples.
* `SampleStore`: `SF` of each statement of the migrations and of a post of all that
  waits, by whichever process: the database is there now and then. `WF` of a restart and
  of the purge.
* `SampleLog`: `SF` of `Receive`, because `select!` picks a ready branch at random;
  `WF` of the loop's other steps; `SF` of an accepted insert and of its reply: the
  endpoint recovers. Without a recovering endpoint nothing is promised.

## 4. Theorems

Proved for every value of the constants under the modules' own assumptions; extra
assumptions are in the theorem.

**ClaimPipeline_proofs.** `TypeCorrect`. `JudgedSettled`: `JudgedIsSettled` is not
inductive, because nothing is known of a claim once it left the queue. `BatchInv`
adds what each read left behind: the tick's tip is no higher than one of the two
tips, which only grow until the batch is judged; every drained claim was due by it;
`node_stale` false bounds it by the node tip plus `StaleAfter`. `HonestTransactionsFound` (assumes `StaleAfter + ConfirmLag <= Delay` and a
node that answers) follows: the node knows what is judged. `HonestPlausible` (assumes
`NodeLag + Flight <= Margin`) rests on `WorldInv`, which relates every answer and
every projection to the chain: an answer names no slot the chain has not reached,
and the projected tip is no further behind than lag plus travel time.
`HonestFresh` and `StaleNodeBehind` (assume that all are honest and `Trail + Flight <= MaxSlotLag`): the tip is
a slot of the chain, so no fresh answer is stale and a stale node is stale.
That the first assumption is needed, TLC shows on an instance without it (section
3); that honesty of all is, the run `stale_tip`.

`ClaimsLeaveOnlyOnce`: `SinkInv` keeps queue and batch apart, numbers
both below the next claim, and bounds the queue by its cap: a finite queue that
is full has an oldest claim, and that is the one that leaves.

**Reference_proofs**, about `Judge`. `TypeCorrect`. `BlocksJudgedTruly`: `CacheTrue` (what the cache
holds of a slot is so) and `PassedSlots` (as long as no answer failed, no slot above
the cursor has the hash) are the strengthening. `JudgesInOneStep` uses the same
invariant: the first request of a window asks for its top, so a claim whose slot is
not confirmed by the end has a failed answer in its window. `CountsTolerated`
(assumes that the set changes by no more than the tolerance while a claim settles
and within the TTL): `CountInv` keeps count, claim and set within the distance of
their ages.

**Archival_proofs.** `TypeCorrect`. `HonestBlocksMatch` and `AnchorsSound` assume
`OneFaulty`, at most one provider that does not answer from the chain: two votes
are of two providers, one of them honest, so `RoundInv` knows the truth of the round
to be the block of its slot. `PagesAccepted`: where all are honest, `PageInv` carries
"first transaction of its slot" from the block answers to the signature, the
anchor and each page under way. `SlotsRepeatLate`: `UsedInv` says that the queue is
the tail of the list of slots asked.

**Samples_proofs**, about `SampleLog`. `TypeCorrect` and `BufferBounded` from `MemoryInv` (a chunk is
under way exactly while a post is). `NothingOvertakes` from `OrderInv`: what is held is
sorted, chunk before buffer before channel; every number given out is held, stored
or lost; and every chunk that may still be stored, the late ones included, is
complete: what is older than one of its rows is in it, stored or lost.
`RefinesQueue`: every step of the log is a step of `SampleLogAbs` or a stutter, under
`pending <- batch \o buffer \o chan`. `SentInv` adds to
`OrderInv` that what may still be stored has been posted, as the abstract delivery
asks; that the rows of a chunk stand in front of what is pending is in `OrderInv`.

About `SampleStore`: `AnswersAreComplete`. `StoreInv` says that what was confirmed and is
not old enough to be purged is in the table, through every migration, purge, restart and
repeated post. What lies in a range that starts within `MaxRange` of the day of the
answer is not old on that day (`RangeIsKept`), so the select finds it, or as many newer
rows as the limit allows.

**Outcomes_proofs.** `TypeCorrect`, `OnlyServedSucceeds`, `CountedAsDocumented`, together
`CountsAreTrue`. Neither property is inductive: `IInv` says for every stage of a call what is known of its
answer and its age by then, up to the labels that are counted.

**Reference_proofs**, about `ReferenceRound`. `RoundTypeCorrect`; `NeverAccused`, `MissingExplained` and
`VerdictsAreFinal`, together `Deserved`, from one invariant: the slot of a round is a produced one,
`Depth` below a tip that only grows, and every verdict given so far follows from it.

**Raw_proofs**, about `RawApi`. `TypeCorrect` and `PermitsKept` (the permits that are left and the
requests that query add up). `LimitsKept` ties a holder's window to the list of
its requests: the count is the number of requests let in since the window opened,
and windows of one holder do not overlap. From it `MinuteBounded`, `RefusalsEarned`
and `RetryAlwaysHonoured`. `WithinLimits` joins the first two.

About `RawQuery`: `CostAlwaysBounded` and `DefaultStepAlwaysFits`: the timestamps of an
accepted query are mapped one to one to `0 .. range \div step`; rounding the step up
twice keeps that below the target. `QueriesFit` adds that a quantile is asked for
once: the list without repetitions is numbered by the first place of each member,
and two equal entries would share it.

About `RawAnswer`: `AnswersAreMeant`, for any number of series, quantiles and timestamps.
`SeriesInv` says that what is put together is each labelled series of each reply once,
under the label of its query. What the loops compute is shown by induction over the list. The
library's induction theorems take an operator, which the provers cannot instantiate, so
`AtEveryLength` states induction with a set of lengths, from the least element of a set
of naturals (`Least`), and `LoopRuns` shows that a recursive function with the given steps
exists. `WinnersLead`: after `n` series, whoever is noted at a timestamp has a point there and
no lower one is among the `n`. Since a reply names a provider once, the sets of
timestamps that rows have won are disjoint, and their sizes add up to the total. A row's
wins map one to one into its unbeaten points, and its points without an equal into its
wins. The assumptions are that a label is never `"none"`, which stands for a series without one,
and that a query has quantiles, none of them twice; the latter is `QueriesFit`.

**Probe_proofs**, about `Probe`. `TypeCorrect`, `HonestAnswersCount` and `PagesLeaveNothing`. That an
honest answer is never scored empty rests on what questions are made of, which
`Questions` states of every place a question passes through (what passed the
preflight, the derived targets, the target under way): an anchor was counted within bounds when it was picked, and an
account set loses no more than `MaxClosed`, so it is not empty when it is asked for; a batch
of accounts holds one that is permanent; and only requests about programs and owners
have a target of their own.

About `Targets`: `AllReadAlike` and `TargetsTypeCorrect`. The node's filters, the monitor's matcher and
the deriver cut keys out of an account at offsets from different places in
the code; the assumption fixes those of a token account (mint at 0, owner after one
key), and the proof shows for every content and length that the three agree.
`Derivations` says of what may be asked for that it was written from a key, and that its
count is that of the chain for as long as no account has changed.

**Startup_proofs.** `TypeCorrect` and `OnlyWhatIsPromised`. The property looks at one request; `HasReason` says
why each task, pool and flag that a request needs is there: a tip only with
something that raises it, signatures only with a check that sees them, an anchor only with two
providers and a tip. Each is found by a task, which was spawned for a configuration that
was found good. Assumed is that no provider is called `"nobody"`, the name that the
model gives to the monitor itself in `last`.

### Model-checked only

Every invariant and every action property of the runs is stated by a theorem. What is
left to TLC is liveness (`SettledClaimsLeave`, `RoundEnds`, `AllAreJudged`, `TargetsTakeTurns`,
`CallsEnd`, `UpFollows`, `SamplesSettle`, `StoreCatchesUp`, `PromisedHappens`,
`SeriesAnswered`), because the proof system has none under fairness, and freedom from
deadlock, which is a matter of `ENABLED`.

## 5. What is not modelled, and why

* The text of selectors, CSV, headers and JSON, base64 and base58: conversions that
  unit tests reach. What is decoded is modelled where it decides something.
* The signature of a token: it is genuine or not (`Accepts`).
* Forks: the chain of slots is final. An honest `getLatestBlockhash` at processed
  commitment from an abandoned fork is outside the model.
* Mutex poisoning: a panic while one of the small locks is held.
* The end of the process amid a flush: what is in memory is lost, and nothing in the
  repository says otherwise.
* Metrics exposition, the histogram's buckets, deployment and dashboards: output.
* `client_for`'s cache of one HTTP client per url: without effect on what is observed.

## 6. Order of work, and what is left

Done, in this order: `ClaimPipeline` (the core: who is called stale, implausible or
missing), `Archival`, `SampleLog` with its abstraction, `Judge` with the link to
`ClaimPipeline`, `Probe`; then `RawApi`, `SampleStore`, `RawQuery`, `RawAnswer`, `Outcomes`,
`ReferenceRound`, `Startup`, `Targets`, and the proofs of `RawApi`, `RawQuery`,
`ReferenceRound`, `Outcomes` and of the refinement of the sample log.

Then the proofs of `Probe`, `Targets`, `Startup`, `SampleStore` and `RawAnswer`. For them,
`Merge` of `Probe` was restated as the set of its results, and the folds of `RawAnswer` as
recursive functions.

Left: a fork in `Judge`'s chain; the rows of an ingest batch one by one; lemmas that
carry the arguments of the liveness properties up to fairness.

## 7. Running it

    tlc -workers 2 -config ClaimPipeline_honest.cfg MCClaimPipeline
    tlapm Reference_proofs.tla

`PROJECT.json` lists every run with its module and configuration, the properties
with a mutant each, and the theorems.
