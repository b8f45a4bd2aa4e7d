----------------------------- MODULE ListCommand -----------------------------
(***************************************************************************)
(* The LIST handler (src/src/commands/list.rs): Session::handle_list and   *)
(* the detached SessionData::list, which refreshes the account cache,      *)
(* folds the RFC 5258 selection and return options into flags, rejects a   *)
(* lone RECURSIVEMATCH, builds the list items (the "All Mail" folder, the  *)
(* shared-folders root, each shared account's prefix, then every matching  *)
(* mailbox with its attributes), looks up STATUS per item and writes the   *)
(* response.                                                               *)
(*                                                                         *)
(* The item building runs under the account-list mutex with no await, so   *)
(* it is one step; the refresh, each STATUS lookup and the write are the   *)
(* steps between awaits.  A pattern list is abstracted to the set of names *)
(* it matches (matches_pattern is the subject of ListPattern); prefixing   *)
(* the reference name only changes the patterns.                           *)
(***************************************************************************)
EXTENDS Naturals, Sequences, FiniteSets

CONSTANTS
    Accounts,     \* the cached accounts, in order: [prefix, names]
    Parent,       \* Parent[m]: the mailbox m is directly under, or NoParent
    NoParent,
    Role,         \* Role[m]: "None" or a special-use role
    FolderAll,    \* core.folder_all
    FolderShared, \* core.folder_shared
    MatchSets     \* the sets of names some pattern list matches

None == "None"
Real == UNION {{a.names[i] : i \in DOMAIN a.names} : a \in {Accounts[k] : k \in DOMAIN Accounts}}
Prefixes == {Accounts[k].prefix : k \in DOMAIN Accounts} \ {None}
Names == Real \cup Prefixes \cup {FolderAll, FolderShared}

SelOpts == {"SUBSCRIBED", "REMOTE", "SPECIAL-USE", "RECURSIVEMATCH"}
RetOpts == {"SUBSCRIBED", "CHILDREN", "STATUS", "SPECIAL-USE"}
\* The roles LIST reports as special-use attributes, and \All.
RoleAttrs == {"Archive", "Drafts", "Junk", "Sent", "Trash", "Important"}
SpecialUse == RoleAttrs \cup {"All"}

RECURSIVE Ancestors(_)
Ancestors(m) == IF Parent[m] = NoParent THEN {} ELSE {Parent[m]} \cup Ancestors(Parent[m])
HasChildren(m) == \E c \in Real : Parent[c] = m

VARIABLES
    sel, ret,     \* the selection and return options, as parsed
    rev2,         \* ProtocolVersion::Rev2
    valid,        \* the arguments parse
    sepQuery,     \* LIST "" "": Arguments::is_separator_query
    matching,     \* the names the patterns match
    subscribed,   \* subscribed[m]: the cached is_subscribed
    pc,           \* "handle", "refresh", "build", "status", "write", "done"
    items,        \* list_items: [name, attrs, childinfo]
    st,           \* the index of the next item to look up STATUS for
    statusItems,  \* the names STATUS was obtained for
    resp          \* the tagged response: "none", "OK", "NO", "BAD"

vars == <<sel, ret, rev2, valid, sepQuery, matching, subscribed, pc, items, st,
          statusItems, resp>>

Item == [name : Names \cup {""}, attrs : SUBSET (SpecialUse \cup {"NoSelect",
         "NoInferiors", "HasChildren", "HasNoChildren", "Subscribed"}),
         childinfo : BOOLEAN]

TypeOK ==
    /\ sel \subseteq SelOpts /\ ret \subseteq RetOpts /\ rev2 \in BOOLEAN
    /\ valid \in BOOLEAN /\ sepQuery \in BOOLEAN /\ matching \in MatchSets
    /\ subscribed \in [Real -> BOOLEAN]
    /\ pc \in {"handle", "refresh", "build", "status", "write", "done"}
    /\ items \in Seq(Item) /\ Len(items) <= Cardinality(Names)
    /\ st \in 1..(Cardinality(Names) + 1)
    /\ statusItems \in Seq(Names)
    /\ resp \in {"none", "OK", "NO", "BAD"}
-----------------------------------------------------------------------------
(* Option processing: the two loops over the options                      *)

FilterSubscribed == "SUBSCRIBED" \in sel
FilterSpecialUse == "SPECIAL-USE" \in sel
RecursiveMatch == "RECURSIVEMATCH" \in sel
IncludeSpecialUse == rev2 \/ FilterSpecialUse \/ "SPECIAL-USE" \in ret
IncludeSubscribed == FilterSubscribed \/ "SUBSCRIBED" \in ret
IncludeChildren == "CHILDREN" \in ret
IncludeStatus == "STATUS" \in ret
-----------------------------------------------------------------------------
(* The items                                                               *)

NoSelectItem(n) ==
    [name |-> n, childinfo |-> FALSE,
     attrs |-> IF IncludeChildren THEN {"HasChildren", "NoSelect"} ELSE {"NoSelect"}]

\* The "All Mail" folder, unless SUBSCRIBED filters.
AllMailItems ==
    IF ~FilterSubscribed /\ FolderAll \in matching
    THEN <<[name |-> FolderAll, attrs |-> {"All", "NoInferiors"}, childinfo |-> FALSE]>>
    ELSE <<>>

\* Mutant: any mailbox below m counts, subscribed or not.
HasRecursiveMatchAnyChild(m) ==
    RecursiveMatch /\ \E d \in Real : m \in Ancestors(d)

\* RECURSIVEMATCH: a subscribed mailbox below m.
HasRecursiveMatch(m) ==
    RecursiveMatch /\ \E d \in Real : m \in Ancestors(d) /\ subscribed[d]

\* Mutant: every role is reported, not only the special-use ones.
RoleAttrAny(m) == IF IncludeSpecialUse /\ Role[m] # None THEN {Role[m]} ELSE {}

\* The special-use attribute of a mailbox's role, when requested.
RoleAttr(m) == IF IncludeSpecialUse /\ Role[m] \in RoleAttrs THEN {Role[m]} ELSE {}

\* The item of a matching mailbox, or none when a filter drops it.
MailboxItems(m) ==
    LET rm == HasRecursiveMatch(m)
        attrs == (IF IncludeChildren
                  THEN {IF HasChildren(m) THEN "HasChildren" ELSE "HasNoChildren"}
                  ELSE {})
                 \cup (IF IncludeSubscribed /\ subscribed[m] THEN {"Subscribed"} ELSE {})
                 \cup RoleAttr(m)
    IN  IF /\ m \in matching
           /\ ~FilterSubscribed \/ subscribed[m] \/ rm
           /\ ~(IncludeSpecialUse /\ Role[m] \notin RoleAttrs /\ FilterSpecialUse)
        THEN <<[name |-> m, attrs |-> attrs, childinfo |-> rm]>>
        ELSE <<>>

RECURSIVE MailboxesFrom(_, _)
MailboxesFrom(ns, i) ==
    IF i > Len(ns) THEN <<>> ELSE MailboxItems(ns[i]) \o MailboxesFrom(ns, i + 1)

\* The accounts from the k-th on; added: the shared root is already listed.
RECURSIVE AccountItems(_, _)
AccountItems(k, added) ==
    IF k > Len(Accounts) THEN <<>>
    ELSE LET a == Accounts[k]
             shared == a.prefix # None
             root == IF shared /\ ~added /\ ~FilterSubscribed /\ FolderShared \in matching
                     THEN <<NoSelectItem(FolderShared)>> ELSE <<>>
             pre == IF shared /\ ~FilterSubscribed /\ a.prefix \in matching
                    THEN <<NoSelectItem(a.prefix)>> ELSE <<>>
         IN  root \o pre \o MailboxesFrom(a.names, 1) \o AccountItems(k + 1, added \/ shared)

ListItems == AllMailItems \o AccountItems(1, FALSE)
-----------------------------------------------------------------------------
(* The handler                                                             *)

Init ==
    /\ sel \in SUBSET SelOpts /\ ret \in SUBSET RetOpts /\ rev2 \in BOOLEAN
    /\ valid \in BOOLEAN /\ sepQuery \in BOOLEAN
    /\ sepQuery => (sel = {} /\ ret = {})
    /\ matching \in MatchSets
    /\ subscribed \in [Real -> BOOLEAN]
    /\ pc = "handle" /\ items = <<>> /\ st = 1 /\ statusItems = <<>>
    /\ resp = "none"

\* handle_list: a parse error is answered at once; LIST "" "" is answered
\* inline with one \NoSelect item of empty name; anything else is spawned.
HandleList ==
    /\ pc = "handle"
    /\ \/ ~valid /\ resp' = "BAD" /\ pc' = "done" /\ UNCHANGED items
       \/ /\ valid /\ sepQuery
          /\ items' = <<[name |-> "", attrs |-> {"NoSelect"}, childinfo |-> FALSE]>>
          /\ resp' = "OK" /\ pc' = "done"
       \/ valid /\ ~sepQuery /\ pc' = "refresh" /\ UNCHANGED <<items, resp>>
    /\ UNCHANGED <<sel, ret, rev2, valid, sepQuery, matching, subscribed, st, statusItems>>

\* synchronize_mailboxes: on failure the error is the tagged response.
Refresh ==
    /\ pc = "refresh"
    /\ \/ pc' = "build" /\ UNCHANGED resp
       \/ pc' = "done" /\ resp' = "NO"
    /\ UNCHANGED <<sel, ret, rev2, valid, sepQuery, matching, subscribed, items, st, statusItems>>

\* RECURSIVEMATCH without SUBSCRIBED: BAD.
RejectRecursiveMatch ==
    /\ pc = "build" /\ RecursiveMatch /\ ~FilterSubscribed
    /\ resp' = "BAD" /\ pc' = "done"
    /\ UNCHANGED <<sel, ret, rev2, valid, sepQuery, matching, subscribed, items, st, statusItems>>

\* Build the items under the account-list mutex.
Build ==
    /\ pc = "build" /\ ~(RecursiveMatch /\ ~FilterSubscribed)
    /\ items' = ListItems
    /\ pc' = IF IncludeStatus THEN "status" ELSE "write"
    /\ UNCHANGED <<sel, ret, rev2, valid, sepQuery, matching, subscribed, st, statusItems, resp>>

\* self.status(name) for the next item: a failure is logged and skipped.
StatusLookup ==
    /\ pc = "status" /\ st <= Len(items)
    /\ \/ statusItems' = Append(statusItems, items[st].name)
       \/ UNCHANGED statusItems
    /\ st' = st + 1
    /\ UNCHANGED <<sel, ret, rev2, valid, sepQuery, matching, subscribed, pc, items, resp>>

\* The tagged OK with the items and the STATUS responses.
WriteResponse ==
    /\ pc = "write" \/ (pc = "status" /\ st > Len(items))
    /\ resp' = "OK" /\ pc' = "done"
    /\ UNCHANGED <<sel, ret, rev2, valid, sepQuery, matching, subscribed, items, st, statusItems>>

Next ==
    \/ HandleList \/ Refresh \/ RejectRecursiveMatch \/ Build
    \/ StatusLookup \/ WriteResponse

Spec == Init /\ [][Next]_vars
-----------------------------------------------------------------------------
(* Properties, on the response of a LIST with options (RFC 5258, 6154)     *)

Listed == {items[i].name : i \in DOMAIN items}
ItemOf(m) == CHOOSE i \in DOMAIN items : items[i].name = m
Answered == pc = "done" /\ resp = "OK" /\ ~sepQuery

\* A mailbox meets the selection criteria (RFC 5258 3).
MeetsCriteria(m) ==
    /\ FilterSubscribed => subscribed[m]
    /\ FilterSpecialUse => Role[m] \in RoleAttrs

\* A descendant of m meets them (RECURSIVEMATCH, CHILDINFO).
ChildMeetsCriteria(m) == \E d \in Real : m \in Ancestors(d) /\ MeetsCriteria(d)

\* Without SPECIAL-USE combined with RECURSIVEMATCH, LIST returns exactly
\* the matching mailboxes that meet the selection criteria or, under
\* RECURSIVEMATCH, have a descendant that does; each once, with CHILDINFO
\* exactly when a descendant meets them, \Subscribed exactly for the
\* subscribed ones when asked, and \HasChildren exactly for parents.
ListSelectionPerRfc5258 ==
    Answered /\ ~(FilterSpecialUse /\ RecursiveMatch) =>
      /\ \A i, j \in DOMAIN items : i # j => items[i].name # items[j].name
      /\ Listed \cap Real =
           {m \in matching \cap Real :
              MeetsCriteria(m) \/ (RecursiveMatch /\ ChildMeetsCriteria(m))}
      /\ \A m \in Listed \cap Real :
           LET it == items[ItemOf(m)] IN
           /\ it.childinfo <=> RecursiveMatch /\ ChildMeetsCriteria(m)
           /\ ("Subscribed" \in it.attrs <=> IncludeSubscribed /\ subscribed[m])
           /\ IncludeChildren => ("HasChildren" \in it.attrs <=> HasChildren(m))

\* With SUBSCRIBED, SPECIAL-USE and RECURSIVEMATCH together, a matching
\* mailbox is listed exactly when it, or a descendant, is subscribed and
\* has a special use: RECURSIVEMATCH returns parents that fail the
\* criteria themselves (RFC 5258 3.1).
RecursiveMatchWithSpecialUse ==
    Answered /\ FilterSpecialUse /\ RecursiveMatch =>
      Listed \cap Real =
        {m \in matching \cap Real : MeetsCriteria(m) \/ ChildMeetsCriteria(m)}

\* With the SPECIAL-USE selection option, every listed mailbox has a
\* special-use attribute (RFC 6154 3; spec 4.6 "drop non-role mailboxes").
SpecialUseListsOnlySpecialUse ==
    Answered /\ FilterSpecialUse => \A i \in DOMAIN items : items[i].attrs \cap SpecialUse # {}
====
