--------------------------- MODULE MCGenerateLoop ---------------------------
EXTENDS GenerateLoop

CONSTANTS m, n, p, q

(* Versions that parse, with nothing or everything silenced, and one of each kind *)
(* that is refused.                                                               *)
MCReply ==
  {a \in App : a.shape = "plain" /\ a.spelling = "variant" /\ a.silenced \in {{}, a.problems}}
    \cup {a \in App : /\ a.declares = {m} /\ a.problems = {p} /\ a.spelling = "literal"
                     /\ IF a.shape = "plain" THEN a.silenced = {p} ELSE a.silenced = {}}

MCCrashes == {{}, {p}}
=============================================================================
