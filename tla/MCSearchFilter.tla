--------------------------- MODULE MCSearchFilter ---------------------------
(* Model-checking instance of SearchFilter: every criteria of up to six    *)
(* tokens, so that OR over a parenthesised list, NOT over a list and three *)
(* nested operators occur; the nesting cap of 10 is scaled down to 2 so    *)
(* that criteria one level past it fit within the token bound.             *)
EXTENDS SearchFilter

MCMaxTokens == 6
MCNestingCap == 2
=============================================================================
