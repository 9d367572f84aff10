------------------------------ MODULE MCThreadLib ------------------------------
EXTENDS ThreadLib

\* the root thread 1 may join both children, and child 2 may join child 3,
\* so two joiners can meet on thread 3
MCJoins == (1 :> {2, 3}) @@ (2 :> {3}) @@ (3 :> {})
================================================================================
