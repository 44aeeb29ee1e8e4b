---------------------------- MODULE MC_ClusterUp ----------------------------
(* The three-node topology of aes_encryption/regression.py.                 *)
EXTENDS ClusterUp

MCNodeSeq == <<"clickhouse1", "clickhouse2", "clickhouse3">>
=============================================================================
