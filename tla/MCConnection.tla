------------------------------ MODULE MCConnection ------------------------------
(* Connection with one operation that runs SQL, or cancels the query of the    *)
(* other, and one that may be any of the rest.                                 *)
EXTENDS Connection

CONSTANTS o1, o2

MCMayCall ==
  [o \in {o1, o2} |->
     IF o = o1 THEN {"execute", "streamQuery", "cancelQuery"}
     ELSE {"query", "cancelQuery", "control", "catalog", "metrics"}]
=============================================================================
