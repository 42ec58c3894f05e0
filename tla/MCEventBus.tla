------------------------------ MODULE MCEventBus ------------------------------
EXTENDS EventBus

CONSTANTS s1, s2, s3, s4, git, fs

\* Three changes come from one source, one from another.
Origin == [s \in Changes |-> IF s = s4 THEN fs ELSE git]
===============================================================================
