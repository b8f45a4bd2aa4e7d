--------------------------- MODULE MCSavedSearch ---------------------------
(* Model-checking instance of SavedSearch: three SEARCH commands on one    *)
(* connection, enough for a SAVE search, a second SAVE search and a $      *)
(* reference to overlap in every order.                                    *)
EXTENDS SavedSearch

MCMaxCmds == 3
=============================================================================
