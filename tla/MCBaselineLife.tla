--------------------------- MODULE MCBaselineLife ---------------------------
(* Two problems with one snippet and one, of a linter, with none. *)
EXTENDS BaselineLife

CONSTANTS p1, p2, q1

MCSnippetOf == [p \in Problem |-> IF p \in {p1, p2} THEN "md5(x)" ELSE ""]
=============================================================================
