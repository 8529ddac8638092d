---------------------------- MODULE MCRunControl ----------------------------
(* RunControl with the checkpoints a fresh database and a running one hold. *)
EXTENDS RunControl

\* A backfill starts from nothing; a tail finds the curve stream further behind than the
\* slack, or not.
FreshOrBehind ==
  [m \in {"backfill", "tail"} |->
    IF m = "backfill" THEN {[factory |-> 0, curves |-> 0]}
    ELSE {[factory |-> 3, curves |-> 0], [factory |-> 3, curves |-> 3]}]

\* HyperSync is there for backfills, the RPC pool for the tail.
AsIntended == 
  {[mode |-> "backfill", source |-> "hypersync"], [mode |-> "tail", source |-> "rpc"]}
=============================================================================
