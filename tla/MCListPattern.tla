---------------------------- MODULE MCListPattern ----------------------------
(* Model-checking instance of ListPattern: names of up to four bytes over  *)
(* "a", "b" and the delimiter, single patterns of up to four bytes and    *)
(* pairs of patterns of up to two bytes, so that a wildcard is followed by *)
(* a two-byte run, a run occurs twice in a name, and "%" meets "/".        *)
EXTENDS ListPattern

MCNameChars == {"a", "b", "/"}
MCMaxName == 4
MCMaxPattern == 4
MCMaxPair == 2
=============================================================================
