---------------------------- MODULE MCSequenceSet ----------------------------
(* Ids 1..3 with "*" able to stand for 0..3: every order of ranges, "*" on  *)
(* either side, reversed ranges and lists of two items with "$"; id lists   *)
(* of up to three ids hold runs, gaps, repeats and descending steps.       *)
EXTENDS SequenceSet

MCIds == 1..3
MCMaxList == 3
MCMaxItems == 2
MCMaxText == 3
=============================================================================
