------------------------------- MODULE MCIndex ------------------------------
(***************************************************************************)
(* Small instances of the indexer for TLC.                                 *)
(***************************************************************************)
EXTENDS IndexSafety

CONSTANTS t1, t2,   \* tasks
          w1, w2    \* worker agents
=============================================================================
