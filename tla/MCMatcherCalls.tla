--------------------------- MODULE MCMatcherCalls ---------------------------
EXTENDS MatcherCalls

MCMaxCalls == [c \in Callers |-> IF c = "a" THEN 2 ELSE 1]

MCRequests ==
    [Callers -> {"New"}]
    \cup {[c \in Callers |-> IF c = "a" THEN request ELSE "New"] :
             request \in {"NewFromReader", "nil option", "nil reader"}}
=============================================================================
