------------------------------ MODULE AclRights ------------------------------
(***************************************************************************)
(* RFC 4314 rights and their mapping to and from the Store's ACL values    *)
(* (src/src/protocol/acl.rs): Rights, Rights::from_acl, Rights::into_acl,  *)
(* Rights::to_char and MailboxRights::as_imap_rights, and the rights       *)
(* strings GETACL and MYRIGHTS print with to_char.                         *)
(***************************************************************************)
EXTENDS Sequences

\* enum Rights.
Rights == {"Lookup", "Read", "Seen", "Write", "Insert", "Post", "CreateMailbox",
           "DeleteMailbox", "DeleteMessages", "Expunge", "Administer"}

\* Mutant: DeleteMailbox printed as the RFC 2086 delete right "d".
ToCharRfc2086(r) ==
    CASE r = "Lookup" -> "l"        [] r = "Read" -> "r"
      [] r = "Seen" -> "s"          [] r = "Write" -> "w"
      [] r = "Insert" -> "i"        [] r = "Post" -> "p"
      [] r = "CreateMailbox" -> "k" [] r = "DeleteMailbox" -> "d"
      [] r = "DeleteMessages" -> "t" [] r = "Expunge" -> "e"
      [] r = "Administer" -> "a"

\* Rights::to_char: the RFC 4314 letter of a right.
ToChar(r) ==
    CASE r = "Lookup" -> "l"        [] r = "Read" -> "r"
      [] r = "Seen" -> "s"          [] r = "Write" -> "w"
      [] r = "Insert" -> "i"        [] r = "Post" -> "p"
      [] r = "CreateMailbox" -> "k" [] r = "DeleteMailbox" -> "x"
      [] r = "DeleteMessages" -> "t" [] r = "Expunge" -> "e"
      [] r = "Administer" -> "a"

\* The letters RFC 4314 section 2.1 defines for a rights string.
RightChars == {"l", "r", "s", "w", "i", "p", "k", "x", "t", "e", "a"}

\* The Store's ACL values (jmap_client::principal::ACL).
ACLs == {"Read", "Modify", "Delete", "ReadItems", "AddItems", "ModifyItems",
         "RemoveItems", "CreateChild", "Administer", "Submit"}

\* The Store's MailboxRights flags that as_imap_rights reads.
MayFlags == {"mayReadItems", "mayAddItems", "mayRemoveItems", "maySetSeen",
             "maySetKeywords", "mayCreateChild", "mayRename", "mayDelete",
             "maySubmit"}

\* Rights::from_acl: one right, or two for ModifyItems and RemoveItems.
FromAcl(acl) ==
    CASE acl = "Read"        -> {"Lookup"}
      [] acl = "Modify"      -> {"CreateMailbox"}
      [] acl = "Delete"      -> {"DeleteMailbox"}
      [] acl = "ReadItems"   -> {"Read"}
      [] acl = "AddItems"    -> {"Insert"}
      [] acl = "ModifyItems" -> {"Write", "Seen"}
      [] acl = "RemoveItems" -> {"DeleteMessages", "Expunge"}
      [] acl = "CreateChild" -> {"CreateMailbox"}
      [] acl = "Administer"  -> {"Administer"}
      [] acl = "Submit"      -> {"Post"}

\* Mutant: Seen is taken for the right to read items.
IntoAclSeenAsRead(right) ==
    CASE right = "Lookup" -> "Read"
      [] right \in {"Read", "Seen"} -> "ReadItems"
      [] right = "Write" -> "ModifyItems"
      [] right = "Insert" -> "AddItems"
      [] right = "Post" -> "Submit"
      [] right = "CreateMailbox" -> "CreateChild"
      [] right = "DeleteMailbox" -> "Delete"
      [] right \in {"DeleteMessages", "Expunge"} -> "RemoveItems"
      [] right = "Administer" -> "Administer"

\* Rights::into_acl: Seen and Write share ModifyItems, DeleteMessages and
\* Expunge share RemoveItems.
IntoAcl(right) ==
    CASE right = "Lookup" -> "Read"
      [] right = "Read" -> "ReadItems"
      [] right \in {"Seen", "Write"} -> "ModifyItems"
      [] right = "Insert" -> "AddItems"
      [] right = "Post" -> "Submit"
      [] right = "CreateMailbox" -> "CreateChild"
      [] right = "DeleteMailbox" -> "Delete"
      [] right \in {"DeleteMessages", "Expunge"} -> "RemoveItems"
      [] right = "Administer" -> "Administer"

\* The rights a set of Store ACL values is reported as.
FromAcls(acls) == UNION {FromAcl(a) : a \in acls}

\* The Store ACL values a set of rights is stored as.
IntoAcls(rights) == {IntoAcl(r) : r \in rights}

\* MailboxRights::as_imap_rights: the rights in the order they are pushed,
\* one flag at a time; mayRename and mayDelete both push DeleteMailbox.
AsImapRights(may) ==
    LET Push(flag, rs) == IF flag \in may THEN rs ELSE <<>>
    IN  Push("mayReadItems", <<"Read", "Lookup">>) \o Push("mayAddItems", <<"Insert">>)
        \o Push("mayRemoveItems", <<"DeleteMessages", "Expunge">>)
        \o Push("maySetSeen", <<"Seen">>) \o Push("maySetKeywords", <<"Write">>)
        \o Push("mayCreateChild", <<"CreateMailbox">>)
        \o Push("mayRename", <<"DeleteMailbox">>) \o Push("mayDelete", <<"DeleteMailbox">>)
        \o Push("maySubmit", <<"Post">>)

\* GetAclResponse::into_bytes and MyRightsResponse::into_bytes print a list
\* of rights as one to_char letter per right, in list order.
RightsString(rs) == [i \in DOMAIN rs |-> ToChar(rs[i])]

\* The letters GETACL prints for an identifier whose Store ACL values are
\* acls: each value read back with from_acl.
GetAclLetters(acls) == {ToChar(r) : r \in FromAcls(acls)}
-----------------------------------------------------------------------------
(* Reference: the LISTRIGHTS groups the server advertises ("r l ws i et k  *)
(* x p a", specification section 4.9), by right.  RFC 4314 section 2.1 ties the      *)
(* rights of one group: they are granted and revoked together.             *)

RightGroups == {{"Read"}, {"Lookup"}, {"Write", "Seen"}, {"Insert"},
                {"Expunge", "DeleteMessages"}, {"CreateMailbox"}, {"DeleteMailbox"},
                {"Post"}, {"Administer"}}

\* A set of rights with every right tied to one of them added.
Tied(rights) == UNION {g \in RightGroups : g \cap rights # {}}
====
