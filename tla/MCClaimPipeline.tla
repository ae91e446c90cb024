-------------------------- MODULE MCClaimPipeline --------------------------
(* Instances of ClaimPipeline for TLC. *)
EXTENDS ClaimPipeline

\* A task is named provider.kind.
MCKind ==
    [t \in Task |->
        CASE t \in {"a.tx", "b.tx"} -> "tx"
          [] t \in {"a.slot", "b.slot"} -> "slot"
          [] t \in {"a.block", "b.block"} -> "block"
          [] t \in {"a.hash", "b.hash"} -> "hash"
          [] t \in {"a.clock", "b.clock"} -> "clock"
          [] t \in {"a.accounts", "b.accounts"} -> "accounts"
          [] t \in {"a.txRecent", "b.txRecent"} -> "txRecent"]

MCOwner ==
    [t \in Task |-> IF t \in {"a.tx", "a.slot", "a.block", "a.hash", "a.clock",
                              "a.accounts", "a.txRecent"} THEN "a" ELSE "b"]
=============================================================================
