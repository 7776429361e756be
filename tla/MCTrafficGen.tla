---------------------------- MODULE MCTrafficGen ----------------------------
EXTENDS TrafficGen
====
