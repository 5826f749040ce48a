----------------------------- MODULE MCLiveView -----------------------------
EXTENDS LiveView

\* A vote takes two steps: an option is selected, and sent.
TwoOnVoters == [k \in Kinds |-> IF k = "dashboard" THEN 1 ELSE 2]
OneStep == [k \in Kinds |-> 1]
TwoSteps == [k \in Kinds |-> 2]
=============================================================================
