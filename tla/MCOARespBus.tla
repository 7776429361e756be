----------------------------- MODULE MCOARespBus -----------------------------
EXTENDS OARespBus
====
