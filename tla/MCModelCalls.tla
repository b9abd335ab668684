---------------------------- MODULE MCModelCalls ----------------------------
(* Two runs over one cache, the second of a mirror of the first's endpoint. *)
EXTENDS ModelCalls

CONSTANTS r1, r2, f1, f2, c

MCWorklist == [r \in Run |-> IF r = r1 THEN <<f1, c, f2>> ELSE <<f1, f2>>]
MCName == [r \in Run |-> "openai:m"]
MCEndpoint == [r \in Run |-> IF r = r1 THEN "api" ELSE "mirror"]
MCEstimate == [f \in Finding |-> 1]
MCMaxTokens == [r \in Run |-> IF r = r1 THEN 2 ELSE 0]
MCMaxCalls == [r \in Run |-> IF r = r1 THEN 0 ELSE 1]
=============================================================================
