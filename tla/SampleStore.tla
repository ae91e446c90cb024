---------------------------- MODULE SampleStore ----------------------------
(***************************************************************************)
(* The table of samples and the processes that share it (src/raw_api.rs):  *)
(* each creates the schema and then purges old rows once a day, in one     *)
(* task, while it accepts batches and answers queries from the start.      *)
(* When a process is replaced, the old and the new one run side by side.   *)
(* Any statement may fail, or be carried out and its reply be lost.        *)
(* A poster that was not told "ok" posts again (flush_loop).               *)
(***************************************************************************)
EXTENDS Integers, FiniteSets

CONSTANTS
    Procs,      \* processes of the Raw API
    Samples,    \* samples that are taken
    Retention,  \* days: the interval of retention_loop's DELETE
    MaxRange,   \* days: MAX_RANGE_SECONDS
    Limit,      \* MAX_SAMPLE_LIMIT
    MaxDay,     \* bound: the clock
    MaxStops    \* bound: how often a process is stopped

ASSUME SampleStoreAssumption ==
    /\ IsFiniteSet(Samples)
    /\ Retention \in Nat /\ MaxRange \in Nat /\ MaxRange <= Retention
    /\ Limit \in Nat \ {0}
    /\ MaxDay \in Nat /\ MaxStops \in Nat

VARIABLES
    day,      \* the clock, in days
    schema,   \* how many migrations the database holds
    table,    \* the samples in probe_samples
    taken,    \* when each sample was taken, as far as there are samples
    waiting,  \* samples whose poster was not told "ok"
    task,     \* where each process stands in schema_then_retention
    stops,    \* how often a process was stopped
    query     \* a query for samples

storeVars == <<day, schema, table, taken, waiting, task, stops, query>>

Migrations == 2
NoQuery == [pc |-> "none"]
Running(p) == task[p].pc # "off"

\* A process starts with the first migration.
Started == [pc |-> "schema", next |-> 1]

StoreInit ==
    /\ day = 0 /\ schema = 0 /\ table = {} /\ waiting = {}
    /\ taken = [s \in {} |-> 0]
    /\ task = [p \in Procs |-> [pc |-> "off"]]
    /\ stops = 0
    /\ query = NoQuery

NextDay ==
    /\ day < MaxDay
    /\ day' = day + 1
    /\ UNCHANGED <<schema, table, taken, waiting, task, stops, query>>

Take(s) ==
    /\ s \notin DOMAIN taken
    /\ taken' = [t \in DOMAIN taken \cup {s} |-> IF t = s THEN day ELSE taken[t]]
    /\ waiting' = waiting \cup {s}
    /\ UNCHANGED <<day, schema, table, task, stops, query>>

-----------------------------------------------------------------------------
(* serve and schema_then_retention. *)

Start(p) ==
    /\ ~Running(p)
    /\ task' = [task EXCEPT ![p] = Started]
    /\ UNCHANGED <<day, schema, table, taken, waiting, stops, query>>

\* Its task, and the query it was answering, are gone.
Stop(p) ==
    /\ Running(p)
    /\ stops < MaxStops
    /\ stops' = stops + 1
    /\ task' = [task EXCEPT ![p] = [pc |-> "off"]]
    /\ query' = IF query.pc = "asked" /\ query.proc = p THEN NoQuery ELSE query
    /\ UNCHANGED <<day, schema, table, taken, waiting>>

\* IF NOT EXISTS: a migration that was applied before changes nothing.
Applied(n) == /\ schema' = IF schema < n THEN n ELSE schema
              /\ UNCHANGED table

\* ensure_schema applies one migration after the other.
Migrate(p) ==
    /\ task[p].pc = "schema"
    /\ LET n == task[p].next IN
       /\ Applied(n)
       /\ task' = [task EXCEPT ![p] = IF n < Migrations THEN [@ EXCEPT !.next = n + 1]
                                                        ELSE [pc |-> "purge"]]
    /\ UNCHANGED <<day, taken, waiting, stops, query>>

\* Slip: a migration that fails ends the task.
MigrateFailsForGood(p) ==
    /\ task[p].pc = "schema"
    /\ task' = [task EXCEPT ![p] = [pc |-> "ended"]]
    /\ UNCHANGED <<day, schema, table, taken, waiting, stops, query>>

\* The database is not there, or says no, even if it did what was asked: all over
\* again, 30 s later.
MigrateFails(p) ==
    /\ task[p].pc = "schema"
    /\ \/ UNCHANGED <<schema, table>>
       \/ Applied(task[p].next)
    /\ task' = [task EXCEPT ![p] = Started]
    /\ UNCHANGED <<day, taken, waiting, stops, query>>

\* Slip: the day that fills the range is purged too.
OldEarly(s) == taken[s] <= day - Retention

Old(s) == taken[s] < day - Retention

\* Slip: the first purge is a day away.
PurgeNever(p) == FALSE /\ UNCHANGED storeVars

\* retention_loop: at once, and then once a day for ever.
Purge(p) ==
    /\ task[p].pc = "purge"
    /\ table' = {s \in table : ~Old(s)}
    /\ UNCHANGED <<day, schema, taken, waiting, task, stops, query>>

-----------------------------------------------------------------------------
(* ingest_handler: one statement for the batch, which needs the whole schema. *)

CanInsert == schema = Migrations /\ \E p \in Procs : Running(p)

Insert(b) ==
    /\ CanInsert
    /\ table' = table \cup b
    /\ waiting' = waiting \ b
    /\ UNCHANGED <<day, schema, taken, task, stops, query>>

\* The poster waits in vain for a reply, or gets an error after the commit.
InsertUnheard(b) ==
    /\ CanInsert
    /\ table' = table \cup b
    /\ UNCHANGED <<day, schema, taken, waiting, task, stops, query>>

-----------------------------------------------------------------------------
(* raw_handler, template "samples". *)

\* parse_query lets a range through; pg_connect comes next, without a timeout.
Ask(p) ==
    /\ Running(p)
    /\ query.pc # "asked"
    /\ \E start, end \in 0 .. MaxDay + 1 :
          /\ start < end
          /\ end - start <= MaxRange
          /\ query' = [pc |-> "asked", proc |-> p, start |-> start, end |-> end]
    /\ UNCHANGED <<day, schema, table, taken, waiting, task, stops>>

InRange(s) == query.start <= taken[s] /\ taken[s] < query.end

\* ORDER BY ts DESC LIMIT
Cut(all, rows) == \A s \in rows, t \in all \ rows : taken[t] <= taken[s]

\* query_samples
Select ==
    /\ query.pc = "asked"
    /\ schema = Migrations
    /\ LET all == {s \in table : InRange(s)} IN
       \E rows \in SUBSET all :
          /\ Cardinality(rows) = IF Cardinality(all) < Limit THEN Cardinality(all) ELSE Limit
          /\ Cut(all, rows)
          /\ query' = [pc |-> "answered", rows |-> rows]
    /\ UNCHANGED <<day, schema, table, taken, waiting, task, stops>>

\* 502
SelectFails ==
    /\ query.pc = "asked"
    /\ query' = NoQuery
    /\ UNCHANGED <<day, schema, table, taken, waiting, task, stops>>

-----------------------------------------------------------------------------
SomeInsert == \E b \in SUBSET waiting \ {{}} : Insert(b) \/ InsertUnheard(b)

StoreNext ==
    \/ NextDay
    \/ \E s \in Samples : Take(s)
    \/ \E p \in Procs : \/ Start(p) \/ Stop(p) \/ Migrate(p) \/ MigrateFails(p) \/ Purge(p)
                        \/ Ask(p)
    \/ SomeInsert
    \/ Select \/ SelectFails

StoreSpec == StoreInit /\ [][StoreNext]_storeVars

SomeMigrate(n) == \E p \in Procs : task[p] = [pc |-> "schema", next |-> n] /\ Migrate(p)
InsertAll == waiting # {} /\ Insert(waiting)

\* Stopped processes are started again; a statement that the database is asked to carry
\* out again and again succeeds at last; what waits is posted again and again.
StoreFairness ==
    /\ WF_storeVars(\E p \in Procs : Start(p))
    /\ WF_storeVars(\E p \in Procs : Purge(p))
    /\ \A n \in 1 .. Migrations : SF_storeVars(SomeMigrate(n))
    /\ SF_storeVars(InsertAll)

StoreFairSpec == StoreSpec /\ StoreFairness

-----------------------------------------------------------------------------
(* Properties. *)

\* Stored and confirmed samples are there for as long as a query may ask for them,
\* whatever other processes purge and migrate meanwhile: an answer holds every
\* sample of its range, or as many as the limit allows, and those the newest.
AnswersComplete ==
    [][(query.pc = "asked" /\ query'.pc = "answered" /\ query.start >= day - MaxRange) =>
         \A s \in DOMAIN taken \ waiting :
            InRange(s) => \/ s \in query'.rows
                          \/ /\ Cardinality(query'.rows) = Limit
                             /\ \A t \in query'.rows : taken[t] >= taken[s]]_storeVars

\* Requests are served before the schema is there; they fail, but a poster that keeps
\* trying gets its samples in, whatever fails or is restarted on the way.
PostedIsStored ==
    \A s \in Samples : s \in waiting ~> s \notin waiting

\* Samples past retention are purged, although the task starts over with its process.
OldRowsGo ==
    \A s \in Samples :
        (s \in table /\ Old(s)) ~> (s \notin table)

\* The store catches up, whatever fails or is restarted: what was posted gets in, and
\* what is too old goes.
StoreCatchesUp == PostedIsStored /\ OldRowsGo
=============================================================================
