----------------------------- MODULE MCSwitchVnet -----------------------------
EXTENDS SwitchVnet
====
