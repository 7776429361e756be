------------------------------- MODULE MCParRP -------------------------------
EXTENDS ParRP, TLC

\* Two partitions sharing a 3-way set: quotas 1 and 2.
MCParConfig == (0 :> 1) @@ (1 :> 2)
====
