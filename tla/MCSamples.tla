----------------------------- MODULE MCSamples -----------------------------
(* Instances of SampleLog and SampleStore for TLC.  The two share no state  *)
(* (what lies between them is the endpoint that each of them assumes), so   *)
(* a behaviour moves one of them and leaves the other as it began.          *)
EXTENDS SampleLog, SampleStore

VARIABLE part

allVars == <<part, vars, storeVars>>

AllInit == part \in {"log", "store"} /\ Init /\ StoreInit

OneOf(l, s) ==
    \/ part = "log" /\ l /\ UNCHANGED <<part, storeVars>>
    \/ part = "store" /\ s /\ UNCHANGED <<part, vars>>

AllNext == OneOf(Next, StoreNext)

\* Fairness for the one, StoreFairness for the other: a behaviour moves one part only,
\* so that a conjunct may speak of an action of each.
AllFairness ==
    /\ SF_allVars(OneOf(Receive, SomeMigrate(1)))
    /\ SF_allVars(OneOf(Ingest /\ wire' = "ok", SomeMigrate(2)))
    /\ SF_allVars(OneOf(PostOk, InsertAll))
    /\ WF_allVars(OneOf(ReceiveClosed, \E p \in Procs : Start(p)))
    /\ WF_allVars(OneOf(TickFlush, \E p \in Procs : Purge(p)))
    /\ WF_allVars(OneOf(Post, FALSE)) /\ WF_allVars(OneOf(FlushDone, FALSE))
    /\ WF_allVars(OneOf(PostFailed, FALSE))

AllSpec == AllInit /\ [][AllNext]_allVars /\ AllFairness
=============================================================================
