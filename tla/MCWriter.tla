------------------------------ MODULE MCWriter ------------------------------
(***************************************************************************)
(* Instances of Writer for TLC.  Table 1 stands for the tables with a      *)
(* token, table 2 for log_templates.  The consumer writes b1, which has    *)
(* rows for both and may be redelivered (f1, f2); the sweeper writes b2    *)
(* into the first table (f3) and an empty flush (f4).                      *)
(***************************************************************************)
EXTENDS Writer, TLC

CONSTANTS f1, f2, f3, f4, b1, b2, b3, consumer, sweeper

Owners == [f \in Flush |-> IF f \in {f1, f2} THEN consumer ELSE sweeper]
Batches == f1 :> b1 @@ f2 :> b1 @@ f3 :> b2 @@ f4 :> b3
TablesOf == f1 :> {1, 2} @@ f2 :> {1, 2} @@ f3 :> {1} @@ f4 :> {}
=============================================================================
