---------------------------- MODULE MCListCommand ----------------------------
(* The own account holds "a", its child "a/b" (Sent) and "c" (Inbox role); *)
(* one shared account holds "s" under its prefix.  Each match set is what  *)
(* a pattern list matches: "*", "a*", "a/%", "%" and the shared branch.    *)
EXTENDS ListCommand

MCPrefix == "Shared Folders/u"
MCAccounts ==
    << [prefix |-> "None", names |-> <<"a", "a/b", "c">>],
       [prefix |-> MCPrefix, names |-> <<"Shared Folders/u/s">>] >>
MCParent ==
    [m \in {"a", "a/b", "c", "Shared Folders/u/s"} |->
        IF m = "a/b" THEN "a" ELSE "none"]
MCRole ==
    [m \in {"a", "a/b", "c", "Shared Folders/u/s"} |->
        CASE m = "a/b" -> "Sent" [] m = "c" -> "Inbox" [] OTHER -> "None"]
MCMatchSets ==
    { {"a", "a/b", "c", "Shared Folders/u/s", MCPrefix, "All Mail", "Shared Folders"},
      {"a", "a/b"}, {"a/b"}, {"a", "c", "All Mail", "Shared Folders"},
      {"Shared Folders", MCPrefix, "Shared Folders/u/s"} }
=============================================================================
