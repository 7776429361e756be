------------------------------ MODULE MCTDMBus ------------------------------
EXTENDS TDMBus
====
