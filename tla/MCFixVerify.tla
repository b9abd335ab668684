---------------------------- MODULE MCFixVerify ----------------------------
(* Three fixes, two of them in one file and one of those to confirm first.  A world *)
(* says which sets of fixes bring a new finding, and which fixes do not take.       *)
EXTENDS FixVerify, TLC

CONSTANTS settings, base_settings, provoked, edited

MCFix == 1..3
MCOther == {provoked, edited}
MCFile == {settings, base_settings}
MCFileOf == (1 :> settings) @@ (2 :> settings) @@ (3 :> base_settings)
MCConditional == {2}
MCCrashes == {{}, {1}}

MCWorlds == [provoke : SUBSET {{1}, {2}, {1, 2}, {1, 3}, {1, 2, 3}}, stubborn : {{}, {3}}]

MCEngine(w, tree) ==
  LET applied == UNION {tree[file].applied : file \in File}
  IN  (Fix \ (applied \ w.stubborn))
      \cup (IF applied \in w.provoke THEN {provoked} ELSE {})
      \cup (IF tree[base_settings].version > 0 THEN {edited} ELSE {})
=============================================================================
