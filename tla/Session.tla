------------------------------- MODULE Session -------------------------------
(***************************************************************************)
(* One client connection's session handlers that change its negotiated    *)
(* state or the Store's ACLs:                                              *)
(*   - handle_enable (src/src/commands/enable.rs), which walks the listed  *)
(*     capabilities and sets the protocol version and the CONDSTORE and    *)
(*     QRESYNC flags;                                                      *)
(*   - parse_select (src/src/parser/select.rs), which reads the mailbox    *)
(*     name and the CONDSTORE / QRESYNC select parameters token by token;  *)
(*   - SETACL and MYRIGHTS (specification section 4.9), which map IMAP     *)
(*     rights to the Store's ACL values and back with the operators of     *)
(*     AclRights.                                                          *)
(* The connection runs one command at a time.  A SELECT's tokens are drawn *)
(* one at a time as the parser consumes them, so every token list up to    *)
(* MaxTokens long is explored; the lookahead `look` is drawn when the      *)
(* previous token is consumed, which is what tokens.peek() sees.           *)
(***************************************************************************)
EXTENDS Integers, Sequences, AclRights

CONSTANTS
    Capabilities,  \* capability names ENABLE may list
    MaxCaps,       \* the most capabilities one ENABLE lists
    MaxTokens,     \* the most tokens one SELECT carries, mailbox name included
    Idents,        \* ACL identifiers
    BackendAcls,   \* ACL value sets an identifier may hold in the Store
    RightsArgs,    \* rights strings SETACL is given, as sets of rights
    MayArgs        \* MailboxRights the Store may report for the user

\* Tokens of a SELECT after the mailbox name: parentheses, the two
\* parameter names, a number (also a valid sequence set), a sequence set
\* that is not a number ("1:5") and any other argument.
Tokens == {"(", ")", "CONDSTORE", "QRESYNC", "n", "s", "x"}
End == "end"          \* tokens.next() returns None
None == [none |-> TRUE]  \* Option::None for the QRESYNC parameter

VARIABLES
    version,      \* self.version: "Rev1" or "Rev2"
    isCondstore,  \* self.is_condstore
    isQresync,    \* self.is_qresync
    cmd,          \* the command being handled: "idle", "enable" or "select"
    caps,         \* ENABLE: the capabilities not yet walked
    listed,       \* ENABLE: the capabilities the command listed
    spc,          \* parse_select: where the parser is
    look,         \* parse_select: the next token, End when there is none
    input,        \* parse_select: the tokens consumed so far
    condstore,    \* parse_select: the condstore argument being built
    qresync,      \* parse_select: the qresync argument being built
    qcur,         \* parse_select: known_uids / seq_match of the QRESYNC read
    acl,          \* the Store's ACL values of each identifier on the mailbox
    want,         \* the rights each identifier holds per RFC 4314 (ghost)
    resp,         \* the last response written
    selected      \* a mailbox is selected (the Selected state)

vars == <<version, isCondstore, isQresync, cmd, caps, listed, spc, look,
          input, condstore, qresync, qcur, acl, want, resp, selected>>

Nothing == [kind |-> "none"]
QArgs == [known : BOOLEAN, seqMatch : BOOLEAN]
\* The untagged lines of a SELECT response, named by their keyword.
SelectLines == {"CLOSED", "EXISTS", "FLAGS", "LIST", "RECENT", "UNSEEN",
                "PERMANENTFLAGS", "UIDVALIDITY", "UIDNEXT", "HIGHESTMODSEQ",
                "MAILBOXID"}
Responses ==
    {Nothing}
    \cup [kind : {"enable"}, text : {"successful", "cannot", "bad"}]
    \cup [kind : {"select"}, ok : {FALSE}]
    \cup [kind : {"select"}, ok : {TRUE}, condstore : BOOLEAN,
          qresync : {None} \cup QArgs, lines : Seq(SelectLines)]
    \cup [kind : {"selectNo", "unselect"}]
    \cup [kind : {"setacl"}]
    \cup [kind : {"getacl"}, rights : [Idents -> SUBSET RightChars]]
    \cup [kind : {"myrights"}, rights : Seq(RightChars)]

CapLists == UNION {[1..k -> Capabilities] : k \in 1..MaxCaps}

TypeOK ==
    /\ version \in {"Rev1", "Rev2"}
    /\ isCondstore \in BOOLEAN /\ isQresync \in BOOLEAN
    /\ cmd \in {"idle", "enable", "select"}
    /\ caps \in Seq(Capabilities) /\ listed \in Seq(Capabilities)
    /\ spc \in {"name", "params", "loop", "qopen", "uidv", "modseq", "known",
                "afterKnown", "sm1", "sm2", "smClose", "close", "done"}
    /\ look \in Tokens \cup {"mailbox", End}
    /\ input \in Seq(Tokens \cup {"mailbox"}) /\ Len(input) <= MaxTokens
    /\ condstore \in BOOLEAN /\ qresync \in {None} \cup QArgs
    /\ qcur \in QArgs
    /\ acl \in [Idents -> SUBSET ACLs] /\ want \in [Idents -> SUBSET Rights]
    /\ resp \in Responses
    /\ selected \in BOOLEAN

Init ==
    /\ version = "Rev1" /\ isCondstore = FALSE /\ isQresync = FALSE
    /\ cmd = "idle" /\ caps = <<>> /\ listed = <<>>
    /\ spc = "done" /\ look = End /\ input = <<>>
    /\ condstore = FALSE /\ qresync = None
    /\ qcur = [known |-> FALSE, seqMatch |-> FALSE]
    /\ acl \in [Idents -> BackendAcls]
    /\ want = [id \in Idents |-> FromAcls(acl[id])]
    /\ resp = Nothing
    /\ selected = FALSE

SelectVars == <<spc, look, input, condstore, qresync, qcur>>
EnableVars == <<caps, listed>>
Flags == <<version, isCondstore, isQresync>>

\* What a finished ENABLE or SELECT leaves behind is dropped when the next
\* command starts: it only serves the properties about that command.
ClearEnable == caps' = <<>> /\ listed' = <<>>
ClearSelect ==
    /\ spc' = "done" /\ look' = End /\ input' = <<>>
    /\ condstore' = FALSE /\ qresync' = None
    /\ qcur' = [known |-> FALSE, seqMatch |-> FALSE]
-----------------------------------------------------------------------------
(* handle_enable                                                           *)

\* request.parse_enable() succeeds: the capabilities are walked in order.
StartEnable ==
    /\ cmd = "idle"
    /\ \E l \in CapLists : caps' = l /\ listed' = l
    /\ cmd' = "enable" /\ ClearSelect /\ resp' = Nothing
    /\ UNCHANGED <<Flags, acl, want, selected>>

\* Err(response): the parse error is written and nothing is enabled.
EnableParseError ==
    /\ cmd = "idle"
    /\ resp' = [kind |-> "enable", text |-> "bad"]
    /\ ClearEnable /\ ClearSelect
    /\ UNCHANGED <<Flags, cmd, acl, want, selected>>

\* Mutant: the QRESYNC arm sets is_condstore.
EnableCapabilityQresyncTypo ==
    /\ cmd = "enable" /\ caps # <<>>
    /\ LET c == Head(caps) IN
       IF c \in {"IMAP4rev2", "IMAP4rev1", "CONDSTORE", "QRESYNC", "UTF8=ACCEPT"}
       THEN /\ version' = CASE c = "IMAP4rev2" -> "Rev2"
                            [] c = "IMAP4rev1" -> "Rev1"
                            [] OTHER -> version
            /\ isCondstore' = (isCondstore \/ c \in {"CONDSTORE", "QRESYNC"})
            /\ isQresync' = isQresync
            /\ caps' = Tail(caps)
            /\ UNCHANGED <<cmd, resp>>
       ELSE /\ resp' = [kind |-> "enable", text |-> "cannot"]
            /\ cmd' = "idle" /\ caps' = <<>>
            /\ UNCHANGED Flags
    /\ UNCHANGED <<listed, SelectVars, acl, want, selected>>

\* One capability of the loop.  IMAP4rev2 / IMAP4rev1 set the version,
\* CONDSTORE and QRESYNC their flags, UTF8=ACCEPT nothing; any other
\* writes "<cap> cannot be enabled." and returns from the handler.
EnableCapability ==
    /\ cmd = "enable" /\ caps # <<>>
    /\ LET c == Head(caps) IN
       IF c \in {"IMAP4rev2", "IMAP4rev1", "CONDSTORE", "QRESYNC", "UTF8=ACCEPT"}
       THEN /\ version' = CASE c = "IMAP4rev2" -> "Rev2"
                            [] c = "IMAP4rev1" -> "Rev1"
                            [] OTHER -> version
            /\ isCondstore' = (isCondstore \/ c = "CONDSTORE")
            /\ isQresync' = (isQresync \/ c = "QRESYNC")
            /\ caps' = Tail(caps)
            /\ UNCHANGED <<cmd, resp>>
       ELSE /\ resp' = [kind |-> "enable", text |-> "cannot"]
            /\ cmd' = "idle" /\ caps' = <<>>
            /\ UNCHANGED Flags
    /\ UNCHANGED <<listed, SelectVars, acl, want, selected>>

\* The loop ends: "ENABLE successful."
EnableDone ==
    /\ cmd = "enable" /\ caps = <<>>
    /\ resp' = [kind |-> "enable", text |-> "successful"]
    /\ cmd' = "idle"
    /\ UNCHANGED <<Flags, EnableVars, SelectVars, acl, want, selected>>
-----------------------------------------------------------------------------
(* parse_select                                                            *)

\* The lookahead after one more token is consumed: any token while the
\* command has room for one, else the end of the command.
Draw(consumed) == IF Len(consumed) < MaxTokens THEN Tokens \cup {End} ELSE {End}

\* tokens.next(): the lookahead is consumed and the next one drawn.
Consume ==
    /\ input' = Append(input, look)
    /\ look' \in Draw(input')

\* Mutant: the HIGHESTMODSEQ code is written after MAILBOXID.
SerializeSelectModseqLast(r) ==
    (IF r.closedPrevious THEN <<"CLOSED">> ELSE <<>>)
    \o <<"EXISTS", "FLAGS">>
    \o (IF r.isRev2 THEN <<"LIST">>
        ELSE <<"RECENT">> \o (IF r.unseen THEN <<"UNSEEN">> ELSE <<>>))
    \o <<"PERMANENTFLAGS", "UIDVALIDITY", "UIDNEXT", "MAILBOXID">>
    \o (IF r.modseq THEN <<"HIGHESTMODSEQ">> ELSE <<>>)

\* select::Response::serialize: the untagged lines it writes, in order.
\* The OK [CLOSED] line when closed_previous, EXISTS and FLAGS; for
\* IMAP4rev2 the mailbox's LIST item, for IMAP4rev1 RECENT and, when
\* unseen_seq > 0, OK [UNSEEN]; then PERMANENTFLAGS, UIDVALIDITY, UIDNEXT,
\* OK [HIGHESTMODSEQ] when highest_modseq is Some, and MAILBOXID.
SerializeSelect(r) ==
    (IF r.closedPrevious THEN <<"CLOSED">> ELSE <<>>)
    \o <<"EXISTS", "FLAGS">>
    \o (IF r.isRev2 THEN <<"LIST">>
        ELSE <<"RECENT">> \o (IF r.unseen THEN <<"UNSEEN">> ELSE <<>>))
    \o <<"PERMANENTFLAGS", "UIDVALIDITY", "UIDNEXT">>
    \o (IF r.modseq THEN <<"HIGHESTMODSEQ">> ELSE <<>>)
    \o <<"MAILBOXID">>

\* The SELECT handler (specification sections 4.4 and 4.5): a mailbox that
\* is selected is closed first, so a SELECT of a mailbox that does not
\* exist leaves none selected (RFC 3501 section 6.3.1).  On success the
\* Response has closed_previous set when a mailbox was selected, is_rev2
\* from the negotiated version, and a HIGHESTMODSEQ when CONDSTORE or
\* QRESYNC is enabled or requested by this SELECT; unseen_seq is 0 when
\* the mailbox has no unseen message.
Accept ==
    /\ spc' = "done" /\ cmd' = "idle"
    /\ \/ /\ \E unseen \in BOOLEAN :
               resp' = [kind |-> "select", ok |-> TRUE, condstore |-> condstore,
                        qresync |-> qresync,
                        lines |-> SerializeSelect(
                          [closedPrevious |-> selected,
                           isRev2 |-> version = "Rev2",
                           unseen |-> unseen,
                           modseq |-> isCondstore \/ isQresync \/ condstore
                                      \/ qresync # None])]
          /\ selected' = TRUE
       \/ resp' = [kind |-> "selectNo"] /\ selected' = FALSE

\* An error return: the offending token is not consumed.
Reject ==
    /\ spc' = "done" /\ cmd' = "idle"
    /\ resp' = [kind |-> "select", ok |-> FALSE]
    /\ UNCHANGED <<look, input, selected>>

\* A SELECT arrives; its first token is the mailbox name, or it has none.
StartSelect ==
    /\ cmd = "idle"
    /\ cmd' = "select" /\ spc' = "name" /\ input' = <<>>
    /\ look' \in {"mailbox", End}
    /\ condstore' = FALSE /\ qresync' = None
    /\ qcur' = [known |-> FALSE, seqMatch |-> FALSE]
    /\ ClearEnable /\ resp' = Nothing
    /\ UNCHANGED <<Flags, acl, want, selected>>

\* "Missing mailbox name." when there are no tokens, else the name.
SelectName ==
    /\ cmd = "select" /\ spc = "name"
    /\ IF look = End
       THEN Reject
       ELSE Consume /\ spc' = "params" /\ UNCHANGED <<cmd, resp>>
    /\ UNCHANGED <<Flags, EnableVars, condstore, qresync, qcur, acl, want, selected>>

\* match tokens.next(): None gives the arguments, "(" opens the
\* parameter list, anything else is "Unexpected value".
SelectParams ==
    /\ cmd = "select" /\ spc = "params"
    /\ CASE look = End -> Accept /\ UNCHANGED <<look, input>>
         [] look = "(" -> Consume /\ spc' = "loop" /\ UNCHANGED <<cmd, resp, selected>>
         [] OTHER -> Reject
    /\ UNCHANGED <<Flags, EnableVars, condstore, qresync, qcur, acl, want>>

\* while let Some(token) = tokens.next(): CONDSTORE sets the flag, QRESYNC
\* starts its parameters, ")" breaks out of the loop, anything else is
\* "Unexpected value"; when the tokens run out the loop ends.
SelectParam ==
    /\ cmd = "select" /\ spc = "loop"
    /\ CASE look = End -> Accept /\ UNCHANGED <<look, input, condstore, qcur>>
         [] look = ")" -> Consume /\ Accept /\ UNCHANGED <<condstore, qcur>>
         [] look = "CONDSTORE" ->
              /\ Consume /\ condstore' = TRUE
              /\ UNCHANGED <<spc, cmd, resp, qcur, selected>>
         [] look = "QRESYNC" ->
              /\ Consume /\ spc' = "qopen"
              /\ qcur' = [known |-> FALSE, seqMatch |-> FALSE]
              /\ UNCHANGED <<cmd, resp, condstore, selected>>
         [] OTHER -> Reject /\ UNCHANGED <<condstore, qcur>>
    /\ UNCHANGED <<Flags, EnableVars, qresync, acl, want>>

\* QRESYNC must be followed by "(".
SelectQresyncOpen ==
    /\ cmd = "select" /\ spc = "qopen"
    /\ IF look = "("
       THEN Consume /\ spc' = "uidv" /\ UNCHANGED <<cmd, resp>>
       ELSE Reject
    /\ UNCHANGED <<Flags, EnableVars, condstore, qresync, qcur, acl, want, selected>>

\* parse_number::<u32> of the uidvalidity, then parse_number::<u64> of
\* the modseq; a missing token or one that is not a number is an error.
SelectQresyncNumber ==
    /\ cmd = "select" /\ spc \in {"uidv", "modseq"}
    /\ IF look = "n"
       THEN /\ Consume /\ UNCHANGED <<cmd, resp>>
            /\ spc' = IF spc = "uidv" THEN "modseq" ELSE "known"
       ELSE Reject
    /\ UNCHANGED <<Flags, EnableVars, condstore, qresync, qcur, acl, want, selected>>

\* Mutant: match data is only looked for after known UIDs.
SelectQresyncKnownFirst ==
    /\ cmd = "select" /\ spc = "known"
    /\ CASE look \in {"n", "s"} ->
              /\ Consume /\ spc' = "afterKnown"
              /\ qcur' = [qcur EXCEPT !.known = TRUE]
              /\ UNCHANGED <<cmd, resp>>
         [] look \in {"x", "CONDSTORE", "QRESYNC"} ->
              Reject /\ UNCHANGED qcur
         [] OTHER ->
              /\ spc' = "close"
              /\ UNCHANGED <<cmd, resp, look, input, qcur>>
    /\ UNCHANGED <<Flags, EnableVars, condstore, qresync, acl, want, selected>>

\* match tokens.peek(): an argument is parsed as the known UIDs and
\* consumed, "(" is consumed and opens the sequence match data; anything
\* else is left for the closing ")".
SelectQresyncKnown ==
    /\ cmd = "select" /\ spc = "known"
    /\ CASE look \in {"n", "s"} ->
              /\ Consume /\ spc' = "afterKnown"
              /\ qcur' = [qcur EXCEPT !.known = TRUE]
              /\ UNCHANGED <<cmd, resp>>
         [] look \in {"x", "CONDSTORE", "QRESYNC"} ->
              Reject /\ UNCHANGED qcur
         [] look = "(" ->
              /\ Consume /\ spc' = "sm1"
              /\ qcur' = [qcur EXCEPT !.seqMatch = TRUE]
              /\ UNCHANGED <<cmd, resp>>
         [] OTHER ->
              /\ spc' = "close"
              /\ UNCHANGED <<cmd, resp, look, input, qcur>>
    /\ UNCHANGED <<Flags, EnableVars, condstore, qresync, acl, want, selected>>

\* After the known UIDs, a peeked "(" is consumed and opens the sequence
\* match data.
SelectQresyncAfterKnown ==
    /\ cmd = "select" /\ spc = "afterKnown"
    /\ IF look = "("
       THEN /\ Consume /\ spc' = "sm1"
            /\ qcur' = [qcur EXCEPT !.seqMatch = TRUE]
       ELSE /\ spc' = "close"
            /\ UNCHANGED <<look, input, qcur>>
    /\ UNCHANGED <<Flags, EnableVars, cmd, resp, condstore, qresync, acl, want, selected>>

\* The known sequence set and the known UID set of the match data, each
\* parsed by parse_sequence_set.
SelectQresyncSeqMatch ==
    /\ cmd = "select" /\ spc \in {"sm1", "sm2"}
    /\ IF look \in {"n", "s"}
       THEN /\ Consume /\ UNCHANGED <<cmd, resp>>
            /\ spc' = IF spc = "sm1" THEN "sm2" ELSE "smClose"
       ELSE Reject
    /\ UNCHANGED <<Flags, EnableVars, condstore, qresync, qcur, acl, want, selected>>

\* "Missing ')' for 'QRESYNC'." unless the next token closes the match data
\* or the parameter; closing the parameter stores the QResync argument.
SelectQresyncClose ==
    /\ cmd = "select" /\ spc \in {"smClose", "close"}
    /\ IF look = ")"
       THEN /\ Consume /\ UNCHANGED <<cmd, resp>>
            /\ spc' = IF spc = "smClose" THEN "close" ELSE "loop"
            /\ qresync' = IF spc = "close" THEN qcur ELSE qresync
       ELSE Reject /\ UNCHANGED qresync
    /\ UNCHANGED <<Flags, EnableVars, condstore, qcur, acl, want, selected>>
-----------------------------------------------------------------------------
(* SETACL, GETACL and MYRIGHTS                                             *)

\* SETACL mailbox identifier [+|-]rights: the rights are mapped to the
\* Store's ACL values with into_acl, which are added, removed or put in
\* place of the identifier's (ModRightsOp Add, Remove, Replace).  The
\* ghost `want` applies the same request to the rights RFC 4314 says the
\* identifier then holds, a right tied to a named one included.
SetAcl ==
    /\ cmd = "idle"
    /\ \E id \in Idents, op \in {"Add", "Remove", "Replace"}, r \in RightsArgs :
         /\ acl' = [acl EXCEPT ![id] =
                      CASE op = "Add"    -> @ \cup IntoAcls(r)
                        [] op = "Remove" -> @ \ IntoAcls(r)
                        [] OTHER         -> IntoAcls(r)]
         /\ want' = [want EXCEPT ![id] =
                      CASE op = "Add"    -> @ \cup Tied(r)
                        [] op = "Remove" -> @ \ Tied(r)
                        [] OTHER         -> Tied(r)]
    /\ resp' = [kind |-> "setacl"]
    /\ ClearEnable /\ ClearSelect
    /\ UNCHANGED <<Flags, cmd, selected>>

\* GETACL mailbox: each identifier's Store ACL values read back with
\* from_acl and printed with to_char.
GetAcl ==
    /\ cmd = "idle"
    /\ resp' = [kind |-> "getacl", rights |-> [id \in Idents |-> GetAclLetters(acl[id])]]
    /\ ClearEnable /\ ClearSelect
    /\ UNCHANGED <<Flags, cmd, acl, want, selected>>

\* MYRIGHTS mailbox: the user's MailboxRights mapped by as_imap_rights and
\* printed with to_char.
MyRights ==
    /\ cmd = "idle"
    /\ \E may \in MayArgs :
         resp' = [kind |-> "myrights", rights |-> RightsString(AsImapRights(may))]
    /\ ClearEnable /\ ClearSelect
    /\ UNCHANGED <<Flags, cmd, acl, want, selected>>
-----------------------------------------------------------------------------
(* CLOSE / UNSELECT                                                        *)

\* The selected mailbox is closed and the session returns to the
\* Authenticated state (specification section 4.4).
Unselect ==
    /\ cmd = "idle" /\ selected
    /\ selected' = FALSE /\ resp' = [kind |-> "unselect"]
    /\ ClearEnable /\ ClearSelect
    /\ UNCHANGED <<Flags, cmd, acl, want>>
-----------------------------------------------------------------------------
Next ==
    \/ StartEnable \/ EnableParseError \/ EnableCapability \/ EnableDone
    \/ StartSelect \/ SelectName \/ SelectParams \/ SelectParam
    \/ SelectQresyncOpen \/ SelectQresyncNumber \/ SelectQresyncKnown
    \/ SelectQresyncAfterKnown \/ SelectQresyncSeqMatch \/ SelectQresyncClose
    \/ SetAcl \/ GetAcl \/ MyRights \/ Unselect

Spec == Init /\ [][Next]_vars
-----------------------------------------------------------------------------
(* Reference: RFC 4466 select-params with the RFC 7162 parameters          *)
(*   select-params = "(" select-param *(SP select-param) ")"              *)
(*   select-param  = "CONDSTORE" / "QRESYNC" SP "(" uidvalidity SP        *)
(*                   mod-sequence-value [SP known-uids]                    *)
(*                   [SP seq-match-data] ")"                               *)
(*   seq-match-data = "(" known-sequence-set SP known-uid-set ")"          *)

NzNumber == {"n"}
SeqSetTok == {"n", "s"}

QresyncTails ==
    {<<>>} \cup {<<k>> : k \in SeqSetTok}
    \cup {<<"(", a, b, ")">> : a, b \in SeqSetTok}
    \cup {<<k, "(", a, b, ")">> : k, a, b \in SeqSetTok}

SelectParamsRfc ==
    {<<"CONDSTORE">>}
    \cup {<<"QRESYNC", "(", u, m>> \o t \o <<")">> :
            u \in NzNumber, m \in NzNumber, t \in QresyncTails}

\* Non-empty parameter lists of at most n tokens.
RECURSIVE ParamListsRfc(_)
ParamListsRfc(n) ==
    {p \in SelectParamsRfc : Len(p) <= n}
    \cup UNION {{p \o r : r \in ParamListsRfc(n - Len(p))} :
                  p \in {q \in SelectParamsRfc : Len(q) < n}}

\* Every parameter part of a SELECT that fits after the mailbox name.
RfcSelectArgs ==
    {<<>>} \cup {<<"(">> \o l \o <<")">> : l \in ParamListsRfc(MaxTokens - 3)}

\* The token lists some RFC parameter part starts with.
RfcSelectPrefixes ==
    UNION {{SubSeq(t, 1, k) : k \in 0..Len(t)} : t \in RfcSelectArgs}

\* The arguments a grammatical parameter list stands for: CONDSTORE if it
\* is listed, and the known UIDs / match data of the last QRESYNC.
HasParam(t, name) == \E i \in DOMAIN t : t[i] = name
LastQresyncArgs(t) ==
    LET i == CHOOSE j \in DOMAIN t : t[j] = "QRESYNC" /\ \A k \in DOMAIN t : t[k] = "QRESYNC" => k <= j
    IN  [known    |-> t[i + 4] \in SeqSetTok,
         seqMatch |-> t[i + 4] = "(" \/ (t[i + 4] \in SeqSetTok /\ t[i + 5] = "(")]
-----------------------------------------------------------------------------
(* Properties                                                              *)

\* The parameter tokens parse_select has read, and the lookahead it
\* stopped at when that is a token.
SelectArgsRead == Tail(input)
SelectArgsSeen == SelectArgsRead \o (IF look \in Tokens THEN <<look>> ELSE <<>>)

\* parse_select accepts every SELECT whose parameters follow RFC 4466 and
\* RFC 7162 with the CONDSTORE flag and the QRESYNC known UIDs and match
\* data the client wrote, and it rejects a command only at a token no RFC
\* parameter list continues with (or at an end no list stops at), across
\* the peek() and next() orders of the QRESYNC branch.
SelectParseComplete ==
    (cmd = "idle" /\ spc = "done" /\ resp.kind = "select" /\ input # <<>>)
    => IF resp.ok
       THEN (look = End /\ SelectArgsRead \in RfcSelectArgs)
            => /\ resp.condstore = HasParam(SelectArgsRead, "CONDSTORE")
               /\ resp.qresync = IF HasParam(SelectArgsRead, "QRESYNC")
                                 THEN LastQresyncArgs(SelectArgsRead) ELSE None
       ELSE IF look = End THEN SelectArgsRead \notin RfcSelectArgs
            ELSE SelectArgsSeen \notin RfcSelectPrefixes

\* The letters of a set of rights.
Letters(rights) == {ToChar(r) : r \in rights}

\* Every right a client was granted through SETACL, or that the Store
\* granted before, is printed by GETACL, whatever sequence of adds,
\* removes and replaces came before: into_acl never stores a right as an
\* ACL value that from_acl reads back as something else.
GetAclShowsEveryGrant ==
    resp.kind = "getacl" => \A id \in Idents : Letters(want[id]) \subseteq resp.rights[id]

\* After "ENABLE successful." every capability the command listed is in
\* effect, the version being the one of the last IMAP4revN listed.
EnableSuccessfulAppliedAll ==
    (cmd = "idle" /\ resp = [kind |-> "enable", text |-> "successful"])
    => /\ HasParam(listed, "CONDSTORE") => isCondstore
       /\ HasParam(listed, "QRESYNC") => isQresync
       /\ \A i \in DOMAIN listed :
            (listed[i] \in {"IMAP4rev1", "IMAP4rev2"}
             /\ \A j \in (i + 1)..Len(listed) : listed[j] \notin {"IMAP4rev1", "IMAP4rev2"})
            => version = IF listed[i] = "IMAP4rev2" THEN "Rev2" ELSE "Rev1"
\* The keywords of SELECT response lines, and the order specification
\* section 4.5 writes them in (RECENT, UNSEEN and the IMAP4rev2 LIST item
\* are listed there without a place).
Keywords(l) == {l[i] : i \in DOMAIN l}
SpecSelectOrder == <<"CLOSED", "EXISTS", "FLAGS", "PERMANENTFLAGS", "UIDVALIDITY",
                     "UIDNEXT", "HIGHESTMODSEQ", "MAILBOXID">>
Rank(k) == CHOOSE i \in DOMAIN SpecSelectOrder : SpecSelectOrder[i] = k
InSpecOrder(l) ==
    /\ \A i, j \in DOMAIN l : i # j => l[i] # l[j]
    /\ \A i, j \in DOMAIN l :
         (i < j /\ {l[i], l[j]} \subseteq Keywords(SpecSelectOrder))
         => Rank(l[i]) < Rank(l[j])

\* A successful SELECT answers with the lines of specification section 4.5
\* in its order, each once: OK [CLOSED] first exactly when a mailbox was
\* selected before the command (whatever SELECTs, failed SELECTs and
\* UNSELECTs came before), EXISTS, FLAGS, PERMANENTFLAGS, UIDVALIDITY,
\* UIDNEXT and MAILBOXID always, HIGHESTMODSEQ before MAILBOXID; RECENT for
\* an IMAP4rev1 session and the mailbox LIST item (RFC 9051 section 6.3.2)
\* for one that ENABLEd IMAP4rev2, UNSEEN never in IMAP4rev2.
SelectResponseFollowsSession ==
    [][(cmd = "select" /\ resp'.kind = "select" /\ resp'.ok)
       => LET l == resp'.lines IN
          /\ InSpecOrder(l)
          /\ (l[1] = "CLOSED") <=> selected
          /\ {"EXISTS", "FLAGS", "PERMANENTFLAGS", "UIDVALIDITY", "UIDNEXT",
              "MAILBOXID"} \subseteq Keywords(l)
          /\ ("LIST" \in Keywords(l)) <=> version = "Rev2"
          /\ ("RECENT" \in Keywords(l)) <=> version = "Rev1"
          /\ "UNSEEN" \in Keywords(l) => version = "Rev1"]_vars

-----------------------------------------------------------------------------
(* Properties the code does not have (see README, Findings)                *)

\* parse_select accepts only what RFC 4466 / RFC 7162 allow: not "()",
\* not a parameter list the command ends inside, not tokens after ")".
SelectParseSound ==
    (cmd = "idle" /\ spc = "done" /\ resp.kind = "select" /\ resp.ok)
    => SelectArgsSeen \in RfcSelectArgs

\* RFC 5161 section 3.1: ENABLE enables every listed extension the server
\* supports; handle_enable stops at the first one it does not.
EnableAppliesEverySupported ==
    (cmd = "idle" /\ resp.kind = "enable" /\ resp.text \in {"successful", "cannot"})
    => /\ HasParam(listed, "CONDSTORE") => isCondstore
       /\ HasParam(listed, "QRESYNC") => isQresync

\* RFC 4314 section 3.1: after SETACL removes a right GETACL no longer
\* reports it.  from_acl reads both Modify and CreateChild as "k", and
\* into_acl removes only CreateChild.
GetAclShowsNoRevoked ==
    resp.kind = "getacl" => \A id \in Idents : resp.rights[id] \subseteq Letters(want[id])

\* MYRIGHTS names each right once; as_imap_rights pushes DeleteMailbox for
\* mayRename and again for mayDelete.
MyRightsNoDuplicates ==
    resp.kind = "myrights" =>
      \A i, j \in DOMAIN resp.rights : i # j => resp.rights[i] # resp.rights[j]

\* RFC 4314 section 2.1: rights the server ties are held together, and the
\* LISTRIGHTS groups tie Write to Seen and Expunge to DeleteMessages;
\* as_imap_rights pushes Seen and Write from two independent flags.
MyRightsRespectsTies ==
    resp.kind = "myrights" =>
      \A g \in RightGroups :
        Letters(g) \cap {resp.rights[i] : i \in DOMAIN resp.rights} \in {{}, Letters(g)}
====
