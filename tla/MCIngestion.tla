------------------------------ MODULE MCIngestion ------------------------------
(* Ingestion with streams of none, one and three batches.                      *)
EXTENDS Ingestion

MCPayloads == {<<>>, <<1>>, <<1, 2, 1>>}
=============================================================================
