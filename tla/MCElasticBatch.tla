--------------------------- MODULE MCElasticBatch ---------------------------
(* Small instances of ElasticBatch for TLC.                                *)
EXTENDS ElasticBatch

MCSizes == {0, 1, 2}
=============================================================================
