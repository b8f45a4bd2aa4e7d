---------------------------- MODULE SearchFilter ----------------------------
(***************************************************************************)
(* The SEARCH criteria pipeline: parse_filters turns the command's tokens  *)
(* into a tree of search::Filter, and imap_filter_to_jmap turns that tree  *)
(* into the Store's Email/query filter (RFC 8620 FilterOperator), scoped   *)
(* to the selected mailbox.                                                *)
(*                                                                         *)
(* Sources: src/src/parser/search.rs (parse_search, parse_filters) and     *)
(* src/src/commands/search.rs (imap_filter_to_jmap).  The parser is a     *)
(* state machine, one step per token; the translation is an operator.     *)
(*                                                                         *)
(* Data abstraction: a search key without operands (ANSWERED, a sequence  *)
(* set, FROM x, ...) is one of the atoms "A", "B"; ALL keeps its own token *)
(* because the translation treats it apart.  A message is a valuation of  *)
(* the atoms plus whether it lies in the selected mailbox, so a filter     *)
(* means the set of valuations it selects.                                 *)
(***************************************************************************)
EXTENDS Naturals, Sequences, SequencesExt, FiniteSets

CONSTANTS
    MaxTokens,   \* the longest criteria sent
    NestingCap   \* the literal of "filters_stack.len() > 10"

ASSUME MaxTokens \in Nat /\ NestingCap \in Nat

Atoms == {"A", "B"}
KeyTokens == Atoms \cup {"ALL"}
OpenTokens == {"OR", "NOT", "("}
Tokens == KeyTokens \cup OpenTokens \cup {")"}

\* search::Operator of the frame an opening token starts.
OperatorOf(t) == CASE t = "OR" -> "Or" [] t = "NOT" -> "Not" [] t = "(" -> "And"

\* A search::Filter: a key (op is the key, no kids) or Operator(op, kids).
Node(o, fs) == [op |-> o, kids |-> fs]
Leaf(t) == Node(t, <<>>)
IsOperator(f) == f.op \in {"And", "Or", "Not"}

\* A message: its atoms and whether it is in the selected mailbox.
Vals == [Atoms \cup {"inbox"} -> BOOLEAN]
Inter(S) == {v \in Vals : \A X \in S : v \in X}
-----------------------------------------------------------------------------
(* Reference: the IMAP search-key grammar (RFC 3501 6.4.4, RFC 9051)       *)
(*   search-key = atom / "ALL" / "OR" key key / "NOT" key / "(" key+ ")"   *)
(* as the sentences of each length, with the messages each selects and    *)
(* its nesting depth.                                                       *)

RECURSIVE KeysOfLen(_), ListsOfLen(_)
KeysOfLen(m) ==
  IF m = 1
    THEN {[t |-> <<a>>, sat |-> {v \in Vals : v[a]}, d |-> 0] : a \in Atoms}
         \cup {[t |-> <<"ALL">>, sat |-> Vals, d |-> 0]}
    ELSE {[t |-> <<"NOT">> \o k.t, sat |-> Vals \ k.sat, d |-> k.d + 1]
           : k \in KeysOfLen(m - 1)}
         \cup UNION {{[t |-> <<"OR">> \o k1.t \o k2.t,
                       sat |-> k1.sat \cup k2.sat,
                       d |-> 1 + IF k1.d > k2.d THEN k1.d ELSE k2.d]
                      : k1 \in KeysOfLen(j), k2 \in KeysOfLen(m - 1 - j)}
                     : j \in 1..(m - 2)}
         \cup {[t |-> <<"(">> \o l.t \o <<")">>, sat |-> l.sat, d |-> l.d + 1]
                : l \in ListsOfLen(m - 2)}
ListsOfLen(m) ==
  IF m < 1 THEN {}
  ELSE KeysOfLen(m)
       \cup UNION {{[t |-> k.t \o l.t, sat |-> k.sat \cap l.sat,
                     d |-> IF k.d > l.d THEN k.d ELSE l.d]
                    : k \in KeysOfLen(j), l \in ListsOfLen(m - j)}
                   : j \in 1..(m - 1)}

Grammar == UNION {ListsOfLen(m) : m \in 1..MaxTokens}
Sentences == {g.t : g \in Grammar}
Reference == [s \in Sentences |-> CHOOSE g \in Grammar : g.t = s]

\* What the code's filter tree means to IMAP: a list is a conjunction, OR
\* a disjunction, NOT the negation of its (parenthesised) conjunction.
RECURSIVE ImapSat(_)
ImapSat(f) ==
  CASE f.op = "ALL"  -> Vals
    [] f.op \in Atoms -> {v \in Vals : v[f.op]}
    [] f.op = "And"  -> Inter({ImapSat(f.kids[i]) : i \in DOMAIN f.kids})
    [] f.op = "Or"   -> UNION {ImapSat(f.kids[i]) : i \in DOMAIN f.kids}
    [] f.op = "Not"  -> Vals \ Inter({ImapSat(f.kids[i]) : i \in DOMAIN f.kids})

\* What a Store filter means (RFC 8620 5.5): AND all, OR any, NOT none of
\* its conditions; inMailbox holds for messages of the selected mailbox.
RECURSIVE JmapSat(_)
JmapSat(j) ==
  CASE j.op = "inMailbox" -> {v \in Vals : v["inbox"]}
    [] j.op \in Atoms -> {v \in Vals : v[j.op]}
    [] j.op = "And" -> Inter({JmapSat(j.kids[i]) : i \in DOMAIN j.kids})
    [] j.op = "Or"  -> UNION {JmapSat(j.kids[i]) : i \in DOMAIN j.kids}
    [] j.op = "Not" -> Vals \ UNION {JmapSat(j.kids[i]) : i \in DOMAIN j.kids}
-----------------------------------------------------------------------------
(* parse_filters                                                           *)

\* The stack unwinding after a token: once a parenthesis closes, an OR
\* holds two filters or a NOT one, the frame is folded into its parent;
\* an AND frame is spliced into a parent that is not an OR (or when it
\* holds a single filter); unwinding stops at an AND parent or an OR
\* parent that still lacks its second operand.
RECURSIVE Unwind(_, _, _)
Unwind(fs, o, stack) ==
  IF stack = <<>> THEN [filters |-> fs, op |-> o, stack |-> stack]
  ELSE LET top == Last(stack)
           nfs == IF o = "And" /\ (top.op # "Or" \/ Len(fs) = 1)
                    THEN top.filters \o fs
                    ELSE Append(top.filters, Node(o, fs))
       IN IF top.op = "And" \/ (top.op = "Or" /\ Len(nfs) < 2)
            THEN [filters |-> nfs, op |-> top.op, stack |-> Front(stack)]
            ELSE Unwind(nfs, top.op, Front(stack))

\* Mutant: a NOT is not folded once it holds its operand.
AfterTokenNoNot(fs, o, stack, foundParen) ==
  IF stack # <<>> /\ (foundParen \/ (o = "Or" /\ Len(fs) = 2))
    THEN Unwind(fs, o, stack)
    ELSE [filters |-> fs, op |-> o, stack |-> stack]

AfterToken(fs, o, stack, foundParen) ==
  IF /\ stack # <<>>
     /\ \/ foundParen
        \/ o = "Or" /\ Len(fs) = 2
        \/ o = "Not" /\ Len(fs) = 1
    THEN Unwind(fs, o, stack)
    ELSE [filters |-> fs, op |-> o, stack |-> stack]

VARIABLES
    toks,      \* the criteria tokens of the command
    pos,       \* the next token to read
    ps,        \* parser state: [filters, op, stack]
    outcome,   \* "run", "ok" or "err"
    depth,     \* deepest filters_stack reached (history)
    scoped     \* mailbox.id.mailbox_id is Some

vars == <<toks, pos, ps, outcome, depth, scoped>>

Parsing == outcome = "run" /\ pos <= Len(toks)
Tok == toks[pos]

TypeOK ==
    /\ toks \in Seq(Tokens) /\ Len(toks) <= MaxTokens
    /\ pos \in 1..(MaxTokens + 1)
    /\ ps.op \in {"And", "Or", "Not"}
    /\ Len(ps.stack) <= NestingCap + 1
    /\ outcome \in {"run", "ok", "err"}
    /\ depth \in 0..(NestingCap + 1)
    /\ scoped \in BOOLEAN

Init ==
    /\ toks \in UNION {[1..m -> Tokens] : m \in 0..MaxTokens}
    /\ pos = 1
    /\ ps = [filters |-> <<>>, op |-> "And", stack |-> <<>>]
    /\ outcome = "run"
    /\ depth = 0
    /\ scoped \in BOOLEAN

\* A search key is pushed onto the current frame, then the stack unwinds.
ReadKey ==
    /\ Parsing /\ Tok \in KeyTokens
    /\ ps' = AfterToken(Append(ps.filters, Leaf(Tok)), ps.op, ps.stack, FALSE)
    /\ pos' = pos + 1
    /\ UNCHANGED <<toks, outcome, depth, scoped>>

\* Mutant: the depth check is left out.
OpenNoDepthCheck ==
    /\ Parsing /\ Tok \in OpenTokens
    /\ ps' = [filters |-> <<>>, op |-> OperatorOf(Tok),
              stack |-> Append(ps.stack, [filters |-> ps.filters, op |-> ps.op])]
    /\ depth' = IF Len(ps.stack) + 1 > depth THEN Len(ps.stack) + 1 ELSE depth
    /\ pos' = pos + 1
    /\ UNCHANGED <<toks, outcome, scoped>>

\* OR, NOT and "(" push the current frame and start an empty one.
Open ==
    /\ Parsing /\ Tok \in OpenTokens
    /\ ~(Len(ps.stack) > NestingCap)
    /\ ps' = [filters |-> <<>>, op |-> OperatorOf(Tok),
              stack |-> Append(ps.stack, [filters |-> ps.filters, op |-> ps.op])]
    /\ depth' = IF Len(ps.stack) + 1 > depth THEN Len(ps.stack) + 1 ELSE depth
    /\ pos' = pos + 1
    /\ UNCHANGED <<toks, outcome, scoped>>

\* "Too many nested filters"
OpenTooDeep ==
    /\ Parsing /\ Tok \in OpenTokens
    /\ Len(ps.stack) > NestingCap
    /\ outcome' = "err"
    /\ UNCHANGED <<toks, pos, ps, depth, scoped>>

\* ")" closes the innermost frame.
Close ==
    /\ Parsing /\ Tok = ")"
    /\ ps.stack # <<>>
    /\ ps' = AfterToken(ps.filters, ps.op, ps.stack, TRUE)
    /\ pos' = pos + 1
    /\ UNCHANGED <<toks, outcome, depth, scoped>>

\* "Unexpected parenthesis."
CloseUnmatched ==
    /\ Parsing /\ Tok = ")"
    /\ ps.stack = <<>>
    /\ outcome' = "err"
    /\ UNCHANGED <<toks, pos, ps, depth, scoped>>

\* The tokens run out: parse_filters returns the current frame whatever
\* is still on the stack; parse_search fails on no criteria or no filter.
Finish ==
    /\ outcome = "run" /\ pos > Len(toks)
    /\ outcome' = IF ps.filters = <<>> THEN "err" ELSE "ok"
    /\ UNCHANGED <<toks, pos, ps, depth, scoped>>

Next == ReadKey \/ Open \/ OpenTooDeep \/ Close \/ CloseUnmatched \/ Finish

Spec == Init /\ [][Next]_vars

\* The filter parse_search hands to the handler.
Root == IF Len(ps.filters) = 1 THEN ps.filters[1] ELSE Node("And", ps.filters)
-----------------------------------------------------------------------------
(* imap_filter_to_jmap                                                     *)

\* Each key becomes a Store condition, ALL becomes nothing, a nested
\* Operator becomes a Store operator over its translated filters.
RECURSIVE ToJmap(_), TranslateList(_)
ToJmap(f) == IF IsOperator(f) THEN Node(f.op, TranslateList(f.kids)) ELSE Leaf(f.op)
TranslateList(fs) ==
  LET kept == SelectSeq(fs, LAMBDA g : g.op # "ALL")
  IN [i \in 1..Len(kept) |-> ToJmap(kept[i])]

InMailbox == Leaf("inMailbox")

\* Mutant: the mailbox condition is added to the root's list whatever its
\* operator.
StoreFilterInOperator(root, isScoped) ==
  LET fs == IF IsOperator(root) THEN root.kids ELSE <<root>>
      o  == IF IsOperator(root) THEN root.op ELSE "And"
      js == TranslateList(fs)
  IN IF isScoped THEN Node(o, Append(js, InMailbox))
     ELSE IF Len(js) = 1 THEN js[1] ELSE Node(o, js)

\* The root's list and operator, translated, and scoped to the mailbox.
StoreFilter(root, isScoped) ==
  LET fs == IF IsOperator(root) THEN root.kids ELSE <<root>>
      o  == IF IsOperator(root) THEN root.op ELSE "And"
      js == TranslateList(fs)
  IN IF isScoped
       THEN IF o = "And"
              THEN IF js # <<>> THEN Node("And", Append(js, InMailbox)) ELSE InMailbox
              ELSE Node("And", <<InMailbox, Node(o, js)>>)
       ELSE IF Len(js) = 1 THEN js[1] ELSE Node(o, js)
-----------------------------------------------------------------------------
(* Properties, checked once parse_search has returned                       *)

Done == outcome # "run"
Ref == Reference[toks]
Expected == IF scoped THEN {v \in Ref.sat : v["inbox"]} ELSE Ref.sat

\* parse_filters: every grammatical criteria whose nesting is within the
\* cap is accepted, and the filter tree selects exactly the messages the
\* IMAP search key selects (OR binary, NOT unary, lists conjunctive).
ParseMatchesGrammar ==
    Done /\ toks \in Sentences /\ Ref.d <= NestingCap
      => outcome = "ok" /\ ImapSat(Root) = Ref.sat

\* Every NOT of the tree is over a single filter.
RECURSIVE UnaryNots(_)
UnaryNots(f) ==
  IsOperator(f) =>
    /\ f.op = "Not" => Len(f.kids) <= 1
    /\ \A i \in DOMAIN f.kids : UnaryNots(f.kids[i])

\* No ALL is an operand of OR or NOT.
RECURSIVE AllOnlyInLists(_)
AllOnlyInLists(f) ==
  IsOperator(f) =>
    /\ f.op \in {"Or", "Not"} => \A i \in DOMAIN f.kids : f.kids[i].op # "ALL"
    /\ \A i \in DOMAIN f.kids : AllOnlyInLists(f.kids[i])

StoreFilterMatches == JmapSat(StoreFilter(Root, scoped)) = Expected
Translated == Done /\ outcome = "ok" /\ toks \in Sentences

\* imap_filter_to_jmap in a mailbox with an id, for trees whose NOTs are
\* unary and whose ALLs are list members: the Store filter selects
\* exactly the messages of the mailbox that the IMAP search key selects
\* (nested operators, the operator stack, the mailbox scoping).
StoreFilterMatchesOrdinarySearch ==
    Translated /\ scoped /\ UnaryNots(Root) /\ AllOnlyInLists(Root)
      => StoreFilterMatches

\* The same with ALL anywhere: ALL as an operand of OR or NOT keeps its
\* meaning in the Store filter.
StoreFilterKeepsAll ==
    Translated /\ scoped /\ UnaryNots(Root) => StoreFilterMatches

\* The same with NOT over a parenthesised list: NOT (k1 k2) selects the
\* messages that do not match both keys.
StoreFilterNotOfList ==
    Translated /\ scoped /\ AllOnlyInLists(Root) => StoreFilterMatches

\* The same in a mailbox without an id (mailbox_id None), where the
\* filter is not scoped.
StoreFilterUnscoped ==
    Translated /\ ~scoped /\ UnaryNots(Root) /\ AllOnlyInLists(Root)
      => StoreFilterMatches

\* parse_filters accepts only grammatical criteria: truncated input (an
\* OR without its second key, an unclosed parenthesis) is rejected.
AcceptsOnlyGrammar ==
    outcome = "ok" => toks \in Sentences

\* parse_filters rejects grammatical criteria nested deeper than its cap
\* (spec: "enforces a max nesting depth of 10").
NestingWithinCap ==
    outcome = "ok" /\ toks \in Sentences => depth <= NestingCap
====
