--------------------------- MODULE MCSettingsChain ---------------------------
(* Two settings, alike; one variable; two files. *)
EXTENDS SettingsChain, TLC

TheWritten == {<<>>, <<"a">>}
TheForeign == {<<"a">>}
Symmetric == Permutations(Names)

=============================================================================
