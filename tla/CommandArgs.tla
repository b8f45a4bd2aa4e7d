----------------------------- MODULE CommandArgs -----------------------------
(***************************************************************************)
(* The argument parsers of SORT, CREATE, LIST and STATUS, one token at a  *)
(* time:                                                                   *)
(*   - Request::parse_sort (src/src/parser/sort.rs) with Sort::parse and   *)
(*     parse_result_options / ResultOption::parse (src/src/parser/         *)
(*     search.rs): the RETURN options, the parenthesised sort program with *)
(*     its REVERSE prefixes, the charset and the search criteria;          *)
(*   - Request::parse_create (src/src/parser/create.rs): the mailbox name  *)
(*     and the RFC 6154 (USE (attr)) parameter;                            *)
(*   - Request::parse_list (src/src/parser/list.rs): the RFC 3501 two-     *)
(*     token form and the RFC 5258 form with selection options, pattern    *)
(*     lists and RETURN options, STATUS (RFC 5819) among them;             *)
(*   - Request::parse_status (src/src/parser/status.rs).                   *)
(* As in Session's parse_select, each lookahead is drawn when the token    *)
(* before it is consumed, so every token list up to MaxArgTokens long is   *)
(* explored.  parse_list and parse_status first branch on the number of   *)
(* tokens; a command on the token-by-token path cannot end before the      *)
(* count that path needs.  The criteria after SORT's charset are           *)
(* parse_filters' input, modelled in SearchFilter; here they are search    *)
(* keys "k", so that only their presence matters ("No filters found in    *)
(* command.").  Mailbox names are not decoded (utf7_maybe_decode): no      *)
(* property here is about the name.                                        *)
(***************************************************************************)
EXTENDS Integers, Sequences
LOCAL SX == INSTANCE SequencesExt

CONSTANT MaxArgTokens   \* the most tokens one command carries

End == "end"  \* tokens.next() returns None

\* SORT tokens: parentheses, RETURN and the result option COUNT, REVERSE
\* and the sort key DATE, and a search key "k" (any other atom: not a sort
\* key, not a result option).  The criteria are search keys or nothing.
SortTokens == {"(", ")", "RETURN", "COUNT", "REVERSE", "DATE", "k"}
CriteriaTokens == {"k"}

\* SEARCH tokens where parse_search's prelude reads them: the result
\* options, the charset, and the prelude loop (RETURN, CHARSET or the
\* first search key).
SearchAlphabet(pc) ==
    CASE pc = "ropen"    -> {"(", "k"}
      [] pc = "ropt"     -> {"(", ")", "COUNT", "k"}
      [] pc = "scharset" -> {"(", "k"}
      [] OTHER           -> {"RETURN", "CHARSET", "k"}

\* CREATE tokens after the mailbox name: two use attributes the Store has a
\* role for, \All (refused by name) and \Flagged (RFC 6154, no role).
CreateTokens == {"(", ")", "USE", "\\Sent", "\\Trash", "\\All", "\\Flagged"}

\* LIST and STATUS tokens: parentheses, the selection and return option
\* SUBSCRIBED, the return option STATUS, the status item MESSAGES and
\* RETURN.  Any of the four arguments may also be a reference name, a
\* mailbox name or a pattern.
ListTokens == {"(", ")", "SUBSCRIBED", "STATUS", "MESSAGES", "RETURN"}
StatusTokens == {"(", ")", "SUBSCRIBED", "MESSAGES"}

\* Token::unwrap_string: an argument is a string, a parenthesis is not.
IsString(t) == t \notin {"(", ")"}

ArgCmds == {"search", "sort", "create", "list", "status", "subscribe"}
NoResult == [cmd |-> "none"]
Comparators == [key : {"DATE"}, asc : BOOLEAN]
ReturnOptions == [opt : {"SUBSCRIBED"}, items : {<<>>}]
                 \cup [opt : {"STATUS"}, items : Seq({"MESSAGES"})]
AllTokens == SortTokens \cup {"CHARSET"} \cup CreateTokens \cup ListTokens \cup {"mailbox"}

VARIABLES
    acmd,     \* the parser running, or "none"
    apc,      \* where it is
    alook,    \* the next token, End when there is none
    aread,    \* the tokens consumed so far
    comps,    \* parse_sort: the sort comparators pushed
    asc,      \* parse_sort: is_ascending
    ropts,    \* parse_sort: the result options
    esearch,  \* parse_sort: is_esearch
    sel,      \* parse_list: the selection options
    pats,     \* parse_list: the number of mailbox patterns
    rets,     \* parse_list: the return options
    items,    \* parse_list / parse_status: the status items being read
    rev2,     \* parse_search: version.is_rev2()
    ares      \* the Arguments returned, or the error

argVars == <<acmd, apc, alook, aread, comps, asc, ropts, esearch, sel, pats,
             rets, items, rev2, ares>>

ArgResults ==
    {NoResult}
    \cup [cmd : ArgCmds, ok : {FALSE}]
    \cup [cmd : {"search"}, ok : {TRUE}, ropts : Seq({"COUNT"}), esearch : BOOLEAN]
    \cup [cmd : {"sort"}, ok : {TRUE}, comps : Seq(Comparators),
          ropts : Seq({"COUNT"}), esearch : BOOLEAN]
    \cup [cmd : {"create"}, ok : {TRUE}, role : {"None", "Sent", "Trash"}]
    \cup [cmd : {"list"}, ok : {TRUE}, sel : Seq({"SUBSCRIBED"}),
          pats : 0..MaxArgTokens, rets : Seq(ReturnOptions)]
    \cup [cmd : {"status"}, ok : {TRUE}, items : Seq({"MESSAGES"})]
    \cup [cmd : {"subscribe"}, ok : {TRUE}]

TypeOK ==
    /\ acmd \in {"none"} \cup ArgCmds
    /\ apc \in {"done", "start", "ropen", "ropt", "open", "crit", "charset",
                "filters", "keys", "name", "params", "use", "uopen", "attr",
                "lfew", "ltwo", "lref", "lsel", "lrefname", "lmbox", "lpats",
                "lret", "lropen", "lropt", "lstopen", "lstat",
                "sfew", "sname", "sopen", "sitem", "sub",
                "sstart", "sprelude", "scharset"}
    /\ alook \in AllTokens \cup {End}
    /\ aread \in Seq(AllTokens)
    /\ Len(aread) <= MaxArgTokens
    /\ comps \in Seq(Comparators) /\ asc \in BOOLEAN
    /\ ropts \in Seq({"COUNT"}) /\ esearch \in BOOLEAN
    /\ sel \in Seq({"SUBSCRIBED"}) /\ pats \in 0..MaxArgTokens
    /\ rets \in Seq(ReturnOptions) /\ items \in Seq({"MESSAGES"})
    /\ rev2 \in BOOLEAN
    /\ ares \in ArgResults

Init ==
    /\ acmd = "none" /\ apc = "done" /\ alook = End /\ aread = <<>>
    /\ comps = <<>> /\ asc = TRUE /\ ropts = <<>> /\ esearch = FALSE
    /\ sel = <<>> /\ pats = 0 /\ rets = <<>> /\ items = <<>>
    /\ rev2 = FALSE /\ ares = NoResult

\* The fewest tokens a command reaching the token-by-token parse has:
\* parse_list reads them one by one from three on, parse_status from four.
MinTokens == CASE acmd = "list" -> 3 [] acmd = "status" -> 4 [] OTHER -> 0

\* The lookahead after one more token: any token of the command while it
\* has room for one, else the end; the end not before MinTokens.
ADraw(consumed, alphabet) ==
    IF Len(consumed) < MaxArgTokens
    THEN alphabet \cup (IF Len(consumed) >= MinTokens THEN {End} ELSE {})
    ELSE {End}

\* tokens.next(): the lookahead is consumed and the next one drawn.
AConsume(alphabet) ==
    /\ aread' = Append(aread, alook)
    /\ alook' \in ADraw(aread', alphabet)

\* Ok(Arguments): the parser returns; the parse state is kept for the
\* properties until the next command.
ArgsOk(res) == ares' = res /\ acmd' = "none" /\ apc' = "done"

\* Err: the offending token is not consumed.
ArgsErr ==
    /\ ares' = [cmd |-> acmd, ok |-> FALSE] /\ acmd' = "none" /\ apc' = "done"
    /\ UNCHANGED <<alook, aread>>

SortVars == <<comps, asc, ropts, esearch>>
ListVars == <<sel, pats, rets, items>>

\* A command starts with nothing of the previous one.
ClearArgs ==
    /\ comps' = <<>> /\ asc' = TRUE /\ ropts' = <<>>
    /\ sel' = <<>> /\ pats' = 0 /\ rets' = <<>> /\ items' = <<>>
    /\ ares' = NoResult

ClearParse == ClearArgs /\ esearch' = FALSE /\ rev2' = FALSE
-----------------------------------------------------------------------------
(* parse_sort                                                              *)

\* A SORT arrives: an empty token list, or its first token.
StartSort ==
    /\ acmd = "none"
    /\ acmd' = "sort" /\ apc' = "start" /\ aread' = <<>>
    /\ alook' \in SortTokens \cup {End}
    /\ ClearParse

\* "Missing sort criteria." for no tokens; a peeked RETURN is consumed and
\* makes the search an ESEARCH.
SortStart ==
    /\ acmd = "sort" /\ apc = "start"
    /\ CASE alook = End -> ArgsErr /\ UNCHANGED esearch
         [] alook = "RETURN" ->
              AConsume(SortTokens) /\ apc' = "ropen" /\ esearch' = TRUE
              /\ UNCHANGED <<acmd, ares>>
         [] OTHER -> apc' = "open" /\ UNCHANGED <<acmd, alook, aread, esearch, ares>>
    /\ UNCHANGED <<comps, asc, ropts>>

\* The tokens that may follow where a parser is about to read.
ArgAlphabet(pc) == IF acmd = "sort" THEN SortTokens ELSE SearchAlphabet(pc)

\* Where the caller of parse_result_options goes on: the sort program, or
\* parse_search's prelude loop.
AfterOptions == IF acmd = "sort" THEN "open" ELSE "sprelude"

\* parse_result_options: "Invalid result option, expected parenthesis."
\* unless "(" follows RETURN.
SortResultOpen ==
    /\ acmd \in {"search", "sort"} /\ apc = "ropen"
    /\ IF alook = "("
       THEN AConsume(ArgAlphabet("ropt")) /\ apc' = "ropt" /\ UNCHANGED <<acmd, ares>>
       ELSE ArgsErr
    /\ UNCHANGED SortVars

\* for token in tokens: ")" ends the options, an argument is parsed with
\* ResultOption::parse, "(" is "Invalid result option argument."; the
\* options also end when the tokens run out.
SortResultOption ==
    /\ acmd \in {"search", "sort"} /\ apc = "ropt"
    /\ CASE alook = End -> apc' = AfterOptions /\ UNCHANGED <<acmd, alook, aread, ropts, ares>>
         [] alook = ")" -> AConsume(ArgAlphabet(AfterOptions)) /\ apc' = AfterOptions
                           /\ UNCHANGED <<acmd, ropts, ares>>
         [] alook = "COUNT" -> AConsume(ArgAlphabet("ropt")) /\ ropts' = Append(ropts, "COUNT")
                               /\ UNCHANGED <<acmd, apc, ares>>
         [] OTHER -> ArgsErr /\ UNCHANGED ropts
    /\ UNCHANGED <<comps, asc, esearch>>

\* "Expected sort criteria between parentheses."
SortOpen ==
    /\ acmd = "sort" /\ apc = "open"
    /\ IF alook = "("
       THEN AConsume(SortTokens) /\ apc' = "crit" /\ UNCHANGED <<acmd, ares>>
       ELSE ArgsErr
    /\ UNCHANGED SortVars

\* Mutant: is_ascending is not reset after a key is pushed.
SortCriterionNoReset ==
    /\ acmd = "sort" /\ apc = "crit"
    /\ CASE alook \in {End, ")"} /\ comps = <<>> -> ArgsErr /\ UNCHANGED <<comps, asc>>
         [] alook = End -> apc' = "charset" /\ UNCHANGED <<acmd, alook, aread, comps, asc, ares>>
         [] alook = ")" -> AConsume(SortTokens) /\ apc' = "charset"
                           /\ UNCHANGED <<acmd, comps, asc, ares>>
         [] alook = "REVERSE" -> AConsume(SortTokens) /\ asc' = FALSE
                                 /\ UNCHANGED <<acmd, apc, comps, ares>>
         [] alook = "DATE" ->
              /\ AConsume(SortTokens)
              /\ comps' = Append(comps, [key |-> "DATE", asc |-> asc])
              /\ UNCHANGED <<acmd, apc, asc, ares>>
         [] OTHER -> ArgsErr /\ UNCHANGED <<comps, asc>>
    /\ UNCHANGED <<ropts, esearch>>

\* while let Some(token) = tokens.next(): ")" breaks, REVERSE clears
\* is_ascending, a sort key is pushed with it and sets it again, "(" and
\* any other argument (Sort::parse) are errors.  The loop also ends when
\* the tokens run out; "Missing sort criteria." if nothing was pushed.
SortCriterion ==
    /\ acmd = "sort" /\ apc = "crit"
    /\ CASE alook \in {End, ")"} /\ comps = <<>> -> ArgsErr /\ UNCHANGED <<comps, asc>>
         [] alook = End -> apc' = "charset" /\ UNCHANGED <<acmd, alook, aread, comps, asc, ares>>
         [] alook = ")" -> AConsume(SortTokens) /\ apc' = "charset"
                           /\ UNCHANGED <<acmd, comps, asc, ares>>
         [] alook = "REVERSE" -> AConsume(SortTokens) /\ asc' = FALSE
                                 /\ UNCHANGED <<acmd, apc, comps, ares>>
         [] alook = "DATE" ->
              /\ AConsume(SortTokens)
              /\ comps' = Append(comps, [key |-> "DATE", asc |-> asc])
              /\ asc' = TRUE
              /\ UNCHANGED <<acmd, apc, ares>>
         [] OTHER -> ArgsErr /\ UNCHANGED <<comps, asc>>
    /\ UNCHANGED <<ropts, esearch>>

\* The charset: "Missing charset." if there is no token; any token is
\* taken (get_charset_decoder yields no decoder for an unknown one).
SortCharset ==
    /\ acmd = "sort" /\ apc = "charset"
    /\ IF alook = End
       THEN ArgsErr
       ELSE AConsume(CriteriaTokens) /\ apc' = "filters" /\ UNCHANGED <<acmd, ares>>
    /\ UNCHANGED SortVars

\* parse_filters over the rest: each search key is a filter; "No filters
\* found in command." if there is none, else the Arguments of the SEARCH
\* or SORT.
ParseFilters ==
    /\ acmd \in {"search", "sort"} /\ apc \in {"filters", "keys"}
    /\ CASE alook = "k" -> AConsume(CriteriaTokens) /\ apc' = "keys" /\ UNCHANGED <<acmd, ares>>
         [] apc = "filters" -> ArgsErr
         [] OTHER -> /\ ArgsOk(IF acmd = "sort"
                                THEN [cmd |-> "sort", ok |-> TRUE, comps |-> comps,
                                      ropts |-> ropts, esearch |-> esearch]
                                ELSE [cmd |-> "search", ok |-> TRUE, ropts |-> ropts,
                                      esearch |-> esearch])
                     /\ UNCHANGED <<alook, aread>>
    /\ UNCHANGED SortVars
-----------------------------------------------------------------------------
(* parse_search                                                            *)

\* Mutant: is_esearch starts false whatever the protocol version.
StartSearchRev1 ==
    /\ acmd = "none"
    /\ acmd' = "search" /\ apc' = "sstart" /\ aread' = <<>>
    /\ alook' \in SearchAlphabet("sprelude") \cup {End}
    /\ ClearArgs /\ rev2' \in BOOLEAN /\ esearch' = FALSE

\* A SEARCH arrives under IMAP4rev1 or IMAP4rev2; is_esearch starts as
\* version.is_rev2().
StartSearch ==
    /\ acmd = "none"
    /\ acmd' = "search" /\ apc' = "sstart" /\ aread' = <<>>
    /\ alook' \in SearchAlphabet("sprelude") \cup {End}
    /\ ClearArgs /\ rev2' \in BOOLEAN /\ esearch' = rev2'

\* "Missing search criteria." for no tokens; then loop on the peeked
\* token: RETURN is consumed, makes the search an ESEARCH and replaces the
\* result options with parse_result_options'; CHARSET is consumed with the
\* charset after it; anything else ends the loop.
SearchPrelude ==
    /\ acmd = "search" /\ apc \in {"sstart", "sprelude"}
    /\ CASE apc = "sstart" /\ alook = End -> ArgsErr /\ UNCHANGED <<ropts, esearch>>
         [] alook = "RETURN" ->
              /\ AConsume(SearchAlphabet("ropen")) /\ apc' = "ropen"
              /\ esearch' = TRUE /\ ropts' = <<>> /\ UNCHANGED <<acmd, ares>>
         [] alook = "CHARSET" ->
              /\ AConsume(SearchAlphabet("scharset")) /\ apc' = "scharset"
              /\ UNCHANGED <<acmd, ropts, esearch, ares>>
         [] OTHER -> apc' = "filters" /\ UNCHANGED <<acmd, alook, aread, ropts, esearch, ares>>
    /\ UNCHANGED <<comps, asc>>

\* "Missing charset." if no token follows CHARSET; any token is taken.
SearchCharset ==
    /\ acmd = "search" /\ apc = "scharset"
    /\ IF alook = End
       THEN ArgsErr
       ELSE AConsume(SearchAlphabet("sprelude")) /\ apc' = "sprelude" /\ UNCHANGED <<acmd, ares>>
    /\ UNCHANGED SortVars
-----------------------------------------------------------------------------
(* parse_create                                                            *)

\* A CREATE arrives: its first token is the mailbox name, or it has none.
StartCreate ==
    /\ acmd = "none"
    /\ acmd' = "create" /\ apc' = "name" /\ aread' = <<>>
    /\ alook' \in {"mailbox", End}
    /\ ClearParse

\* No tokens is an error ("Too many arguments."); else the first one is
\* the name.
CreateName ==
    /\ acmd = "create" /\ apc = "name"
    /\ IF alook = End
       THEN ArgsErr
       ELSE AConsume(CreateTokens) /\ apc' = "params" /\ UNCHANGED <<acmd, ares>>
    /\ UNCHANGED SortVars

\* Ok with Role::None.
CreateNoRole == ArgsOk([cmd |-> "create", ok |-> TRUE, role |-> "None"])

\* if let Some(Token::ParenthesisOpen) = tokens.next(): a parameter list
\* follows; otherwise the mailbox has no role, and the token taken, with
\* all after it, is ignored.
CreateParams ==
    /\ acmd = "create" /\ apc = "params"
    /\ CASE alook = "(" -> AConsume(CreateTokens) /\ apc' = "use" /\ UNCHANGED <<acmd, ares>>
         [] alook = End -> CreateNoRole /\ UNCHANGED <<alook, aread>>
         [] OTHER -> AConsume(CreateTokens) /\ CreateNoRole
    /\ UNCHANGED SortVars

\* "Failed to parse, expected 'USE'." and "Expected '(' after 'USE'."
CreateUse ==
    /\ acmd = "create" /\ apc \in {"use", "uopen"}
    /\ IF alook = IF apc = "use" THEN "USE" ELSE "("
       THEN AConsume(CreateTokens) /\ UNCHANGED <<acmd, ares>>
            /\ apc' = IF apc = "use" THEN "uopen" ELSE "attr"
       ELSE ArgsErr
    /\ UNCHANGED SortVars

\* Mutant: the \Trash branch returns the role of the branch above it.
RoleOfJunk(attr) == CASE attr = "\\Sent" -> "Sent" [] attr = "\\Trash" -> "Junk"

\* The role of a use attribute the Store supports (\Archive, \Drafts,
\* \Junk, \Sent, \Trash, \Important).
RoleOf(attr) == CASE attr = "\\Sent" -> "Sent" [] attr = "\\Trash" -> "Trash"

\* The first use attribute gives the role and the arguments are returned:
\* \All is refused ("already exists"), another attribute is "not
\* supported", a parenthesis or no token is "Invalid SPECIAL-USE
\* attribute."  Nothing after the attribute is read.
CreateAttr ==
    /\ acmd = "create" /\ apc = "attr"
    /\ IF alook \in {"\\Sent", "\\Trash"}
       THEN /\ AConsume(CreateTokens)
            /\ ArgsOk([cmd |-> "create", ok |-> TRUE, role |-> RoleOf(alook)])
       ELSE ArgsErr
    /\ UNCHANGED SortVars

-----------------------------------------------------------------------------
(* parse_list                                                              *)

\* A LIST arrives.  parse_list first looks at how many tokens it has: none
\* or one, exactly two (the RFC 3501 form), or three and more, which it
\* then reads one at a time.
StartList ==
    /\ acmd = "none"
    /\ acmd' = "list" /\ aread' = <<>>
    /\ \/ apc' \in {"lfew", "ltwo"} /\ alook' = End
       \/ apc' = "lref" /\ alook' \in ListTokens
    /\ ClearParse

\* "Missing arguments."
ListFew ==
    /\ acmd = "list" /\ apc = "lfew"
    /\ \E toks \in {<<>>} \cup {<<t>> : t \in ListTokens} : aread' = toks
    /\ ares' = [cmd |-> "list", ok |-> FALSE] /\ acmd' = "none" /\ apc' = "done"
    /\ UNCHANGED <<alook, ListVars>>

\* Two tokens: the reference and the mailbox name, both strings.
ListBasic ==
    /\ acmd = "list" /\ apc = "ltwo"
    /\ \E t1, t2 \in ListTokens :
         /\ aread' = <<t1, t2>>
         /\ ares' = IF IsString(t1) /\ IsString(t2)
                    THEN [cmd |-> "list", ok |-> TRUE, sel |-> <<>>, pats |-> 1, rets |-> <<>>]
                    ELSE [cmd |-> "list", ok |-> FALSE]
    /\ acmd' = "none" /\ apc' = "done"
    /\ UNCHANGED <<alook, ListVars>>

ListOk ==
    ArgsOk([cmd |-> "list", ok |-> TRUE, sel |-> sel, pats |-> pats, rets |-> rets])

\* Three tokens or more: "(" opens the selection options; any other
\* token is the reference name.
ListReference ==
    /\ acmd = "list" /\ apc = "lref"
    /\ CASE alook = "(" -> AConsume(ListTokens) /\ apc' = "lsel" /\ UNCHANGED <<acmd, ares>>
         [] IsString(alook) -> AConsume(ListTokens) /\ apc' = "lmbox" /\ UNCHANGED <<acmd, ares>>
         [] OTHER -> ArgsErr
    /\ UNCHANGED ListVars

\* while let Some(token) = tokens.next(): ")" breaks, an argument is a
\* SelectionOption::parse, "(" is "Invalid selection option argument.";
\* then the reference name: "Missing reference name." or a string.
ListSelection ==
    /\ acmd = "list" /\ apc \in {"lsel", "lrefname"}
    /\ CASE apc = "lsel" /\ alook = ")" ->
              AConsume(ListTokens) /\ apc' = "lrefname" /\ UNCHANGED <<acmd, sel, ares>>
         [] apc = "lsel" /\ alook = End ->
              apc' = "lrefname" /\ UNCHANGED <<acmd, alook, aread, sel, ares>>
         [] apc = "lsel" /\ alook = "SUBSCRIBED" ->
              AConsume(ListTokens) /\ sel' = Append(sel, alook) /\ UNCHANGED <<acmd, apc, ares>>
         [] apc = "lrefname" /\ IsString(alook) /\ alook # End ->
              AConsume(ListTokens) /\ apc' = "lmbox" /\ UNCHANGED <<acmd, sel, ares>>
         [] OTHER -> ArgsErr /\ UNCHANGED sel
    /\ UNCHANGED <<pats, rets, items>>

\* The mailbox name: "Missing mailbox name.", "(" opening a list of
\* patterns, or one pattern.
ListMailbox ==
    /\ acmd = "list" /\ apc = "lmbox"
    /\ CASE alook = "(" -> AConsume(ListTokens) /\ apc' = "lpats" /\ UNCHANGED <<acmd, pats, ares>>
         [] alook # End /\ IsString(alook) ->
              AConsume(ListTokens) /\ pats' = 1 /\ apc' = "lret" /\ UNCHANGED <<acmd, ares>>
         [] OTHER -> ArgsErr /\ UNCHANGED pats
    /\ UNCHANGED <<sel, rets, items>>

\* while let Some(token) = tokens.next(): ")" breaks, any other token is
\* a pattern (unwrap_string); the list also ends with the tokens.
ListPatterns ==
    /\ acmd = "list" /\ apc = "lpats"
    /\ CASE alook = End -> apc' = "lret" /\ UNCHANGED <<acmd, alook, aread, pats, ares>>
         [] alook = ")" -> AConsume(ListTokens) /\ apc' = "lret" /\ UNCHANGED <<acmd, pats, ares>>
         [] IsString(alook) -> AConsume(ListTokens) /\ pats' = pats + 1 /\ UNCHANGED <<acmd, apc, ares>>
         [] OTHER -> ArgsErr /\ UNCHANGED pats
    /\ UNCHANGED <<sel, rets, items>>

\* if tokens.next() is RETURN, "(" must follow ("Invalid return option,
\* expected parenthesis."); the end, or any other token, which is consumed
\* and ignored with all after it, returns the arguments.
ListReturn ==
    /\ acmd = "list" /\ apc \in {"lret", "lropen"}
    /\ CASE apc = "lret" /\ alook = "RETURN" ->
              AConsume(ListTokens) /\ apc' = "lropen" /\ UNCHANGED <<acmd, ares>>
         [] apc = "lret" /\ alook = End -> ListOk /\ UNCHANGED <<alook, aread>>
         [] apc = "lret" -> AConsume(ListTokens) /\ ListOk
         [] alook = "(" -> AConsume(ListTokens) /\ apc' = "lropt" /\ UNCHANGED <<acmd, ares>>
         [] OTHER -> ArgsErr
    /\ UNCHANGED ListVars

\* while let Some(token) = tokens.next(): ")" ends the options and the
\* arguments are returned, as when the tokens run out; an argument is a
\* ReturnOption::parse, STATUS going on to its items; "(" is "Invalid
\* return option argument.".
ListReturnOption ==
    /\ acmd = "list" /\ apc = "lropt"
    /\ CASE alook \in {End, ")"} ->
              \/ alook = End /\ ListOk /\ UNCHANGED <<alook, aread>>
              \/ alook = ")" /\ AConsume(ListTokens) /\ ListOk
              /\ UNCHANGED rets
         [] alook = "SUBSCRIBED" ->
              AConsume(ListTokens) /\ rets' = Append(rets, [opt |-> "SUBSCRIBED", items |-> <<>>])
              /\ UNCHANGED <<acmd, apc, ares>>
         [] alook = "STATUS" ->
              AConsume(ListTokens) /\ apc' = "lstopen" /\ UNCHANGED <<acmd, rets, ares>>
         [] OTHER -> ArgsErr /\ UNCHANGED rets
    /\ UNCHANGED <<sel, pats, items>>

\* Mutant: STATUS (...) is read but the option is not pushed.
ListStatusItemsDropStatus ==
    /\ acmd = "list" /\ apc \in {"lstopen", "lstat"}
    /\ CASE apc = "lstopen" /\ alook = "(" ->
              AConsume(ListTokens) /\ apc' = "lstat" /\ items' = <<>> /\ UNCHANGED <<acmd, rets, ares>>
         [] apc = "lstat" /\ alook \in {End, ")"} ->
              /\ IF alook = ")" THEN AConsume(ListTokens) ELSE UNCHANGED <<alook, aread>>
              /\ apc' = "lropt" /\ UNCHANGED <<acmd, rets, items, ares>>
         [] apc = "lstat" /\ alook = "MESSAGES" ->
              AConsume(ListTokens) /\ items' = Append(items, alook) /\ UNCHANGED <<acmd, apc, rets, ares>>
         [] OTHER -> ArgsErr /\ UNCHANGED <<rets, items>>
    /\ UNCHANGED <<sel, pats>>
\* "Invalid return option, expected parenthesis after STATUS." unless
\* "(" follows; then each item is a Status::parse up to ")" or the end,
\* "(" is "Invalid status return option argument.", and the STATUS
\* option is pushed with its items.
ListStatusItems ==
    /\ acmd = "list" /\ apc \in {"lstopen", "lstat"}
    /\ CASE apc = "lstopen" /\ alook = "(" ->
              AConsume(ListTokens) /\ apc' = "lstat" /\ items' = <<>> /\ UNCHANGED <<acmd, rets, ares>>
         [] apc = "lstat" /\ alook \in {End, ")"} ->
              /\ IF alook = ")" THEN AConsume(ListTokens) ELSE UNCHANGED <<alook, aread>>
              /\ rets' = Append(rets, [opt |-> "STATUS", items |-> items])
              /\ apc' = "lropt" /\ UNCHANGED <<acmd, items, ares>>
         [] apc = "lstat" /\ alook = "MESSAGES" ->
              AConsume(ListTokens) /\ items' = Append(items, alook) /\ UNCHANGED <<acmd, apc, rets, ares>>
         [] OTHER -> ArgsErr /\ UNCHANGED <<rets, items>>
    /\ UNCHANGED <<sel, pats>>
-----------------------------------------------------------------------------
(* parse_status                                                            *)

\* A STATUS arrives: three tokens or fewer, or four and more read one at
\* a time.
StartStatus ==
    /\ acmd = "none"
    /\ acmd' = "status" /\ aread' = <<>>
    /\ \/ apc' = "sfew" /\ alook' = End
       \/ apc' = "sname" /\ alook' \in StatusTokens
    /\ ClearParse

\* Mutant: "Missing arguments." up to four tokens, not three.
StatusFewUpToFour ==
    /\ acmd = "status" /\ apc = "sfew"
    /\ \E toks \in UNION {[1..k -> StatusTokens] : k \in 0..4} : aread' = toks
    /\ ares' = [cmd |-> "status", ok |-> FALSE] /\ acmd' = "none" /\ apc' = "done"
    /\ UNCHANGED <<alook, ListVars>>

\* "Missing arguments."
StatusFew ==
    /\ acmd = "status" /\ apc = "sfew"
    /\ \E toks \in UNION {[1..k -> StatusTokens] : k \in 0..3} : aread' = toks
    /\ ares' = [cmd |-> "status", ok |-> FALSE] /\ acmd' = "none" /\ apc' = "done"
    /\ UNCHANGED <<alook, ListVars>>

\* The mailbox name (unwrap_string), then "Expected parenthesis after
\* mailbox name." unless "(" follows.
StatusName ==
    /\ acmd = "status" /\ apc \in {"sname", "sopen"}
    /\ IF IF apc = "sname" THEN IsString(alook) ELSE alook = "("
       THEN AConsume(StatusTokens) /\ UNCHANGED <<acmd, ares>>
            /\ apc' = IF apc = "sname" THEN "sopen" ELSE "sitem"
       ELSE ArgsErr
    /\ UNCHANGED ListVars

\* while let Some(token) = tokens.next(): ")" breaks, an argument is a
\* Status::parse, "(" is an error; then "At least one status item is
\* required." or the arguments.
StatusItem ==
    /\ acmd = "status" /\ apc = "sitem"
    /\ CASE alook \in {End, ")"} /\ items = <<>> -> ArgsErr /\ UNCHANGED items
         [] alook = End ->
              /\ ArgsOk([cmd |-> "status", ok |-> TRUE, items |-> items])
              /\ UNCHANGED <<alook, aread, items>>
         [] alook = ")" ->
              /\ AConsume(StatusTokens) /\ UNCHANGED items
              /\ ArgsOk([cmd |-> "status", ok |-> TRUE, items |-> items])
         [] alook = "MESSAGES" ->
              AConsume(StatusTokens) /\ items' = Append(items, alook) /\ UNCHANGED <<acmd, apc, ares>>
         [] OTHER -> ArgsErr /\ UNCHANGED items
    /\ UNCHANGED <<sel, pats, rets>>

-----------------------------------------------------------------------------
(* parse_subscribe (SUBSCRIBE and UNSUBSCRIBE)                             *)

\* A SUBSCRIBE arrives.
StartSubscribe ==
    /\ acmd = "none"
    /\ acmd' = "subscribe" /\ apc' = "sub" /\ aread' = <<>> /\ alook' = End
    /\ ClearParse

\* match self.tokens.len(): one token is the mailbox name
\* (unwrap_string), none is "Missing mailbox name.", more are "Too many
\* arguments.".
SubscribeArgs ==
    /\ acmd = "subscribe" /\ apc = "sub"
    /\ \E toks \in UNION {[1..k -> StatusTokens] : k \in 0..2} :
         /\ aread' = toks
         /\ ares' = [cmd |-> "subscribe", ok |-> Len(toks) = 1 /\ IsString(toks[1])]
    /\ acmd' = "none" /\ apc' = "done"
    /\ UNCHANGED <<alook, ListVars>>

\* One step: a command arrives once the previous one has returned, or the
\* running parser reads on.
Next ==
    \/ StartSearch \/ StartSort \/ StartCreate \/ StartList \/ StartStatus \/ StartSubscribe
    \/ /\ \/ SearchPrelude \/ SearchCharset \/ ParseFilters
          \/ SortStart \/ SortResultOpen \/ SortResultOption \/ SortOpen
          \/ SortCriterion \/ SortCharset
          \/ CreateName \/ CreateParams \/ CreateUse \/ CreateAttr
       /\ UNCHANGED <<ListVars, rev2>>
    \/ /\ \/ ListFew \/ ListBasic \/ ListReference \/ ListSelection \/ ListMailbox
          \/ ListPatterns \/ ListReturn \/ ListReturnOption \/ ListStatusItems
          \/ StatusFew \/ StatusName \/ StatusItem \/ SubscribeArgs
       /\ UNCHANGED <<SortVars, rev2>>

Spec == Init /\ [][Next]_argVars
-----------------------------------------------------------------------------
(* Reference: RFC 5256 SORT with the RFC 5267 RETURN options               *)
(*   sort = "SORT" [SP "RETURN" SP "(" [ret-opt *(SP ret-opt)] ")"]       *)
(*          SP "(" sort-criterion *(SP sort-criterion) ")"                  *)
(*          SP charset 1*(SP search-key)                                    *)
(*   sort-criterion = ["REVERSE" SP] sort-key                               *)
(* built with the comparators each sentence stands for.  The grammar is    *)
(* unambiguous: a sentence has one meaning.                                *)

\* A sort criterion and the comparator it means: REVERSE applies to the
\* key it prefixes.
SortCriteriaRfc == {<<"DATE">>, <<"REVERSE", "DATE">>}
ComparatorOf(c) == [key |-> "DATE", asc |-> Len(c) = 1]

\* Non-empty criteria lists of at most n tokens.
RECURSIVE CritListsRfc(_)
CritListsRfc(n) ==
    {[t |-> c, comps |-> <<ComparatorOf(c)>>] : c \in {d \in SortCriteriaRfc : Len(d) <= n}}
    \cup UNION {{[t |-> c \o r.t, comps |-> <<ComparatorOf(c)>> \o r.comps]
                  : r \in CritListsRfc(n - Len(c))}
                : c \in {d \in SortCriteriaRfc : Len(d) < n}}

\* The RETURN part, absent or with up to n tokens.
ReturnRfc(n) ==
    {[t |-> <<>>, ropts |-> <<>>, esearch |-> FALSE]}
    \cup {[t |-> <<"RETURN", "(">> \o o \o <<")">>, ropts |-> o, esearch |-> TRUE]
           : o \in SX!BoundedSeq({"COUNT"}, n - 3)}

\* charset = atom / quoted: any token but a parenthesis.
Charsets == SortTokens \ {"(", ")"}

RfcSort ==
    LET n == MaxArgTokens IN
    {g \in {[t |-> r.t \o <<"(">> \o c.t \o <<")", cs>> \o ks,
             comps |-> c.comps, ropts |-> r.ropts, esearch |-> r.esearch]
             : r \in ReturnRfc(n - 5), c \in CritListsRfc(n - 4),
               cs \in Charsets, ks \in SX!BoundedSeq(CriteriaTokens, n - 4) \ {<<>>}}
       : Len(g.t) <= n}

RfcSortSentences == {g.t : g \in RfcSort}
RfcSortPrefixes == UNION {SX!Prefixes(t) : t \in RfcSortSentences}

\* RFC 3501 / RFC 4731 SEARCH:
\*   search = "SEARCH" [SP "RETURN" SP "(" [ret-opt *(SP ret-opt)] ")"]
\*            [SP "CHARSET" SP astring] 1*(SP search-key)
\* with the options it names and whether it names RETURN.
RfcSearch ==
    LET n == MaxArgTokens IN
    {g \in {[t |-> r.t \o c \o ks, ropts |-> r.ropts, ret |-> r.esearch]
             : r \in ReturnRfc(n - 1), c \in {<<>>, <<"CHARSET", "k">>},
               ks \in SX!BoundedSeq(CriteriaTokens, n) \ {<<>>}}
       : Len(g.t) <= n}

RfcSearchSentences == {g.t : g \in RfcSearch}
RfcSearchPrefixes == UNION {SX!Prefixes(t) : t \in RfcSearchSentences}
-----------------------------------------------------------------------------
(* Reference: RFC 5258 LIST with the RFC 5819 STATUS return option         *)
(*   list = "LIST" [SP list-select-opts] SP mailbox SP mbox-or-pat          *)
(*          [SP list-return-opts]                                           *)
(*   list-select-opts = "(" [list-select-option *(SP list-select-option)] ")" *)
(*   mbox-or-pat = list-mailbox / "(" list-mailbox *(SP list-mailbox) ")"   *)
(*   list-return-opts = "RETURN" SP "(" [return-option *(SP return-option)] ")" *)
(*   return-option =/ "STATUS" SP "(" status-att *(SP status-att) ")"       *)
(* and RFC 3501 STATUS                                                     *)
(*   status = "STATUS" SP mailbox SP "(" status-att *(SP status-att) ")"    *)
(* built with the options, pattern count and items each sentence means.   *)

\* A mailbox name, reference or pattern: any token but a parenthesis.
ListNames == ListTokens \ {"(", ")"}

\* The selection options, absent or with up to n tokens.
SelRfc(n) ==
    {[t |-> <<>>, sel |-> <<>>]}
    \cup {[t |-> <<"(">> \o o \o <<")">>, sel |-> o] : o \in SX!BoundedSeq({"SUBSCRIBED"}, n - 2)}

\* The mailbox argument, one pattern or a list of them, in n tokens.
MboxRfc(n) ==
    {[t |-> <<m>>, pats |-> 1] : m \in IF n >= 1 THEN ListNames ELSE {}}
    \cup {[t |-> <<"(">> \o ps \o <<")">>, pats |-> Len(ps)]
           : ps \in SX!BoundedSeq(ListNames, n - 2) \ {<<>>}}

\* One return option of at most n tokens.
RetOptRfc(n) ==
    {[t |-> <<"SUBSCRIBED">>, opt |-> [opt |-> "SUBSCRIBED", items |-> <<>>]] : x \in IF n >= 1 THEN {1} ELSE {}}
    \cup {[t |-> <<"STATUS", "(">> \o is \o <<")">>, opt |-> [opt |-> "STATUS", items |-> is]]
           : is \in SX!BoundedSeq({"MESSAGES"}, n - 3) \ {<<>>}}

\* Lists of return options in at most n tokens.
RECURSIVE RetOptsRfc(_)
RetOptsRfc(n) ==
    {[t |-> <<>>, rets |-> <<>>]}
    \cup UNION {{[t |-> o.t \o r.t, rets |-> <<o.opt>> \o r.rets] : r \in RetOptsRfc(n - Len(o.t))}
                : o \in RetOptRfc(n)}

\* The RETURN part, absent or with up to n tokens.
RetRfc(n) ==
    {[t |-> <<>>, rets |-> <<>>]}
    \cup {[t |-> <<"RETURN", "(">> \o o.t \o <<")">>, rets |-> o.rets]
           : o \in IF n >= 3 THEN RetOptsRfc(n - 3) ELSE {}}

RfcList ==
    LET n == MaxArgTokens IN
    UNION {UNION {{[t |-> s.t \o <<r>> \o m.t \o x.t, sel |-> s.sel, pats |-> m.pats, rets |-> x.rets]
                   : x \in RetRfc(n - Len(s.t) - 1 - Len(m.t))}
                 : m \in MboxRfc(n - Len(s.t) - 1)}
           : s \in SelRfc(n), r \in ListNames}

RfcListSentences == {g.t : g \in RfcList}
RfcListPrefixes == UNION {SX!Prefixes(t) : t \in RfcListSentences}

RfcStatus ==
    {[t |-> <<m, "(">> \o is \o <<")">>, items |-> is]
      : m \in StatusTokens \ {"(", ")"}, is \in SX!BoundedSeq({"MESSAGES"}, MaxArgTokens - 3) \ {<<>>}}

RfcStatusSentences == {g.t : g \in RfcStatus}
RfcStatusPrefixes == UNION {SX!Prefixes(t) : t \in RfcStatusSentences}
-----------------------------------------------------------------------------
(* Properties                                                              *)

\* The tokens parse_sort read, and the one it stopped at.
ArgsSeen == aread \o (IF alook = End THEN <<>> ELSE <<alook>>)

\* parse_sort accepts every SORT that RFC 5256 / RFC 5267 allow, with the
\* comparators the sort program means (REVERSE reverses the one key it
\* prefixes, is_ascending being reset after each key), the RETURN options
\* listed and ESEARCH exactly when RETURN is given; and it rejects a
\* command only at a token no SORT command continues with, or at an end
\* no SORT command stops at.
SortParseComplete ==
    (acmd = "none" /\ ares.cmd = "sort")
    => IF ares.ok
       THEN aread \in RfcSortSentences
            => [t |-> aread, comps |-> ares.comps, ropts |-> ares.ropts,
                esearch |-> ares.esearch] \in RfcSort
       ELSE IF alook = End THEN aread \notin RfcSortSentences
            ELSE ArgsSeen \notin RfcSortPrefixes

\* parse_search accepts every RFC 3501 / RFC 4731 SEARCH with the result
\* options it names, and answers with ESEARCH exactly when RETURN is given
\* or the session is IMAP4rev2; it rejects a SEARCH only at a token or an
\* end no SEARCH has there.
SearchParseComplete ==
    (acmd = "none" /\ ares.cmd = "search")
    => IF ares.ok
       THEN aread \in RfcSearchSentences
            => \E g \in RfcSearch : /\ g.t = aread /\ g.ropts = ares.ropts
                                   /\ ares.esearch = (rev2 \/ g.ret)
       ELSE IF alook = End THEN aread \notin RfcSearchSentences
            ELSE ArgsSeen \notin RfcSearchPrefixes

\* parse_list accepts every LIST that RFC 5258 and RFC 5819 allow, with the
\* selection options, the number of patterns and the return options (a
\* STATUS option with its items) the command names, both in the two-token
\* RFC 3501 form and in the form read token by token; it rejects a LIST
\* only at a token no LIST continues with, or at an end no LIST stops at.
ListParseComplete ==
    (acmd = "none" /\ ares.cmd = "list")
    => IF ares.ok
       THEN aread \in RfcListSentences
            => [t |-> aread, sel |-> ares.sel, pats |-> ares.pats, rets |-> ares.rets] \in RfcList
       ELSE IF alook = End THEN aread \notin RfcListSentences
            ELSE ArgsSeen \notin RfcListPrefixes

\* parse_status accepts every RFC 3501 STATUS, the four-token one with a
\* single item included, with the items it names, and rejects one only at
\* a token or an end no STATUS command has there.
StatusParseComplete ==
    (acmd = "none" /\ ares.cmd = "status")
    => IF ares.ok
       THEN aread \in RfcStatusSentences
            => [t |-> aread, items |-> ares.items] \in RfcStatus
       ELSE IF alook = End THEN aread \notin RfcStatusSentences
            ELSE ArgsSeen \notin RfcStatusPrefixes
-----------------------------------------------------------------------------
(* Properties the code does not have (see README)                          *)

\* parse_sort accepts only RFC 5256 sort programs: a REVERSE with no key
\* after it ("(DATE REVERSE)") is not one.
SortParseSound ==
    (acmd = "none" /\ ares.cmd = "sort" /\ ares.ok) => aread \in RfcSortSentences

\* RFC 5258 patterns = "(" list-mailbox *(SP list-mailbox) ")": a LIST
\* names at least one pattern.  parse_list accepts "()" with none, and
\* matches_pattern (src/src/commands/list.rs) returns true for every
\* mailbox when there are no patterns, so such a LIST lists them all.
ListNamesAPattern ==
    (acmd = "none" /\ ares.cmd = "list" /\ ares.ok) => ares.pats >= 1

\* The attribute a created role stands for.
RoleAttrs(role) == CASE role = "Sent" -> {"\\Sent"} [] role = "Trash" -> {"\\Trash"}
                     [] OTHER -> {}
UseAttrs == {"\\Sent", "\\Trash", "\\All", "\\Flagged"}

\* RFC 6154 section 3: a server that cannot create a mailbox with every
\* special use the CREATE names must not create it.  parse_create takes
\* the first attribute of (USE (...)) and never reads the others, so
\* "(USE (\Sent \Trash))" or "(USE (\Sent \All))" creates a \Sent mailbox.
CreateHonoursEveryUse ==
    (acmd = "none" /\ ares.cmd = "create" /\ ares.ok)
    => LET named == IF SX!IsPrefix(<<"mailbox", "(", "USE", "(">>, ArgsSeen)
                    THEN {ArgsSeen[i] : i \in 5..Len(ArgsSeen)} \cap UseAttrs
                    ELSE {}
       IN  named \subseteq RoleAttrs(ares.role)
====
