----------------------------- MODULE SequenceSet -----------------------------
(***************************************************************************)
(* IMAP sequence sets (src/src/protocol/mod.rs): the Sequence type, its    *)
(* membership test Sequence::contains and its expansion Sequence::expand,  *)
(* both against the RFC 3501 meaning of a sequence set, and                *)
(* serialize_sequence, which prints a list of ids as a sequence set by     *)
(* folding runs of consecutive ids into ranges (APPENDUID, COPYUID,        *)
(* MODIFIED response codes).                                               *)
(*                                                                         *)
(* contains and expand are operators; serialize_sequence is a state        *)
(* machine, one step per iteration of its loops.  Decimal formatting and   *)
(* the "," and ":" separators are abstracted: the output is the sequence   *)
(* of the ranges printed, [lo, hi], with lo = hi for a single id.          *)
(***************************************************************************)
EXTENDS Integers, Sequences

SX == INSTANCE SequencesExt

CONSTANTS
    Ids,        \* the message numbers or UIDs written in sets and lists
    MaxList,    \* the longest id list serialized
    MaxItems,   \* the most items of a parenthesis-free sequence set
    MaxText     \* the longest text written as a quoted string

\* Option<u32>::None; ids are non-zero numbers (RFC 3501 nz-number).
None == -1
Opt == {None} \cup Ids

Number(v) == [kind |-> "Number", value |-> v]
SeqRange(s, e) == [kind |-> "Range", start |-> s, end |-> e]
SavedSearch == [kind |-> "SavedSearch"]
List(items) == [kind |-> "List", items |-> items]

Items == {Number(v) : v \in Ids} \cup {SeqRange(s, e) : s, e \in Opt}
\* The sets a client may write: one item, "$", or a comma-separated list.
SequenceSets == Items \cup {SavedSearch}
              \cup {List(is) : is \in UNION {[1..k -> Items \cup {SavedSearch}] :
                                                k \in 2..MaxItems}}
-----------------------------------------------------------------------------
(* quoted_string                                                           *)

\* Bytes of a text: an ordinary character, the quoted-specials '"' and
\* '\', a space, and CR (a mailbox name or an ACL identifier is any
\* string the JMAP server or the client supplied).
Bytes == {"a", "DQ", "BS", "SP", "CR"}
Texts == UNION {[1..k -> Bytes] : k \in 0..MaxText}

-----------------------------------------------------------------------------
(* Sequence::contains                                                      *)

\* A range end point, "*" standing for the largest number in use.
Bound(x, max) == IF x = None THEN max ELSE x

\* Mutant: a reversed range ("5:2") contains nothing.
BetweenOneWay(v, a, b) == v >= a /\ v <= b

\* Between a and b, in either order.
Between(v, a, b) == (v >= a /\ v <= b) \/ (v >= b /\ v <= a)

RECURSIVE Contains(_, _, _)
Contains(s, v, max) ==
    CASE s.kind = "Number" -> s.value = v
      [] s.kind = "Range"  ->
           IF s.start = None /\ s.end = None THEN v = max
           ELSE Between(v, Bound(s.start, max), Bound(s.end, max))
      [] s.kind = "List"   -> \E i \in DOMAIN s.items : Contains(s.items[i], v, max)
      [] OTHER -> FALSE

\* Sequence::is_saved_search: "$" alone or among the items of a list.
IsSavedSearch(s) ==
    \/ s.kind = "SavedSearch"
    \/ s.kind = "List" /\ \E i \in DOMAIN s.items : s.items[i].kind = "SavedSearch"
-----------------------------------------------------------------------------
(* Sequence::expand                                                        *)

\* A range with its "*" replaced: start..=end or end..=start.
ExpandRange(r, max) ==
    LET a == Bound(r.start, max)
        b == Bound(r.end, max)
    IN  IF a <= b THEN a..b ELSE b..a

ExpandItem(it, max) ==
    CASE it.kind = "Number" -> {it.value}
      [] it.kind = "Range"  -> ExpandRange(it, max)
      [] OTHER -> {}

Expand(s, max) ==
    IF s.kind = "List"
    THEN UNION {ExpandItem(s.items[i], max) : i \in DOMAIN s.items}
    ELSE ExpandItem(s, max)
-----------------------------------------------------------------------------
(* Reference: RFC 3501 section 9, seq-number and seq-range                 *)

RfcItem(it, max) ==
    CASE it.kind = "Number" -> {it.value}
      [] it.kind = "Range"  ->
           LET ends == {Bound(it.start, max), Bound(it.end, max)}
           IN  {v \in 0..max \cup Ids : \E x, y \in ends : x <= v /\ v <= y}
      [] OTHER -> {}

RfcSet(s, max) ==
    IF s.kind = "List"
    THEN UNION {RfcItem(s.items[i], max) : i \in DOMAIN s.items}
    ELSE RfcItem(s, max)
-----------------------------------------------------------------------------
(* serialize_sequence                                                      *)

VARIABLES
    list,     \* the ids to print
    pos,      \* the index of the next id of the peekable iterator
    id,       \* the first id of the current run
    rangeId,  \* range_id: the last id of the current run
    out,      \* the ranges printed so far
    pc,       \* "next": while let Some(&id) = ids.next(); "run": the loop
    set,      \* a sequence set a command was given
    max,      \* the largest number in use when it is evaluated
    text,     \* quoted_string: the text to write
    qpos,     \* quoted_string: the index of the next byte of text
    qbuf      \* quoted_string: the bytes written to buf

vars == <<list, pos, id, rangeId, out, pc, set, max, text, qpos, qbuf>>

IdLists == UNION {[1..k -> Ids] : k \in 0..MaxList}
Peek == IF pos <= Len(list) THEN list[pos] ELSE None

TypeOK ==
    /\ list \in IdLists
    /\ pos \in 1..(MaxList + 1)
    /\ id \in Opt /\ rangeId \in Opt
    /\ out \in Seq([lo : Ids, hi : Ids])
    /\ pc \in {"next", "run", "quote", "done"}
    /\ set \in SequenceSets /\ max \in {0} \cup Ids
    /\ text \in Texts /\ qpos \in 1..(MaxText + 1) /\ qbuf \in Seq(Bytes)

\* Each behaviour is one call: serialize_sequence of an id list, with a
\* sequence set to evaluate, or quoted_string of a text, which starts by
\* pushing the opening '"'.
Init ==
    /\ pos = 1 /\ id = None /\ rangeId = None /\ out = <<>> /\ qpos = 1
    /\ \/ /\ list \in IdLists /\ pc = "next"
          /\ set \in SequenceSets /\ max \in {0} \cup Ids
          /\ text = <<>> /\ qbuf = <<>>
       \/ /\ list = <<>> /\ pc = "quote" /\ set = SavedSearch /\ max = 0
          /\ text \in Texts /\ qbuf = <<"DQ">>

SerializeVars == <<list, pos, id, rangeId, out, set, max>>
QuoteVars == <<text, qpos, qbuf>>

\* while let Some(&id) = ids.next(): print id and start a run; the
\* function returns when the list is exhausted.
NextId ==
    /\ pc = "next"
    /\ IF pos > Len(list)
         THEN pc' = "done" /\ UNCHANGED <<pos, id, rangeId>>
         ELSE /\ id' = list[pos] /\ rangeId' = list[pos]
              /\ pos' = pos + 1 /\ pc' = "run"
    /\ UNCHANGED <<list, out, set, max, QuoteVars>>

\* Mutant: any larger id extends the run.
ExtendAnyLarger ==
    /\ pc = "run" /\ Peek # None /\ Peek > rangeId
    /\ rangeId' = Peek /\ pos' = pos + 1
    /\ UNCHANGED <<list, id, out, pc, set, max, QuoteVars>>

\* Some(&&next_id) if next_id == range_id + 1: the run grows.
Extend ==
    /\ pc = "run" /\ Peek # None /\ Peek = rangeId + 1
    /\ rangeId' = Peek /\ pos' = pos + 1
    /\ UNCHANGED <<list, id, out, pc, set, max, QuoteVars>>

\* Mutant: the range printed ends one past the run.
EmitRunPastEnd ==
    /\ pc = "run" /\ ~(Peek # None /\ Peek = rangeId + 1)
    /\ out' = Append(out, [lo |-> id, hi |-> rangeId + 1])
    /\ pc' = "next"
    /\ UNCHANGED <<list, pos, id, rangeId, set, max, QuoteVars>>

\* Any other peek: print ":range_id" if the run is longer than one id,
\* and "," if more ids follow.
EmitRun ==
    /\ pc = "run" /\ ~(Peek # None /\ Peek = rangeId + 1)
    /\ out' = Append(out, [lo |-> id, hi |-> rangeId])
    /\ pc' = "next"
    /\ UNCHANGED <<list, pos, id, rangeId, set, max, QuoteVars>>

\* Mutant: only '"' is escaped.
QuoteByteDqOnly ==
    /\ pc = "quote" /\ qpos <= Len(text)
    /\ qbuf' = qbuf \o (IF text[qpos] = "DQ" THEN <<"BS">> ELSE <<>>) \o <<text[qpos]>>
    /\ qpos' = qpos + 1
    /\ UNCHANGED <<SerializeVars, pc, text>>

\* for &c in text.as_bytes(): '\' and '"' are preceded by '\', every
\* other byte is pushed as it is.
QuoteByte ==
    /\ pc = "quote" /\ qpos <= Len(text)
    /\ qbuf' = qbuf \o (IF text[qpos] \in {"BS", "DQ"} THEN <<"BS">> ELSE <<>>)
                    \o <<text[qpos]>>
    /\ qpos' = qpos + 1
    /\ UNCHANGED <<SerializeVars, pc, text>>

\* The closing '"' once the text is written.
QuoteClose ==
    /\ pc = "quote" /\ qpos > Len(text)
    /\ qbuf' = Append(qbuf, "DQ") /\ pc' = "done"
    /\ UNCHANGED <<SerializeVars, text, qpos>>

Next == NextId \/ Extend \/ EmitRun \/ QuoteByte \/ QuoteClose

Spec == Init /\ [][Next]_vars
-----------------------------------------------------------------------------
(* Properties                                                              *)

\* The ids a printed range stands for, in the order a reader expands it.
RangeIds(r) == [i \in 1..(r.hi - r.lo + 1) |-> r.lo + i - 1]
Printed == SX!FlattenSeq([i \in DOMAIN out |-> RangeIds(out[i])])

\* serialize_sequence prints exactly the list it is given, in its order
\* (COPYUID pairs the n-th source UID with the n-th destination UID), and
\* no range it prints could have been merged with the next one.
SerializeIsExact ==
    pc = "done" =>
      /\ Printed = list
      /\ \A i \in 1..(Len(out) - 1) : out[i].hi + 1 # out[i + 1].lo

\* Sequence::contains and Sequence::expand agree with each other and with
\* RFC 3501 on every set a client can write, "*" and reversed ranges
\* ("5:2") included.
SequenceSemantics ==
    /\ Expand(set, max) = RfcSet(set, max)
    /\ \A v \in Ids \cup {0, max} : Contains(set, v, max) <=> v \in RfcSet(set, max)

\* RFC 3501 section 9, as a client reads it:
\*   quoted = DQUOTE *QUOTED-CHAR DQUOTE
\*   QUOTED-CHAR = <any TEXT-CHAR except quoted-specials> /
\*                 "\" quoted-specials
\* TEXT-CHAR excludes CR and LF.  The reader returns the text and the
\* bytes after the closing DQUOTE, or fails.
Fail == [ok |-> FALSE]
RECURSIVE ReadQuotedChars(_, _)
ReadQuotedChars(s, acc) ==
    CASE s = <<>> -> Fail
      [] Head(s) = "DQ" -> [ok |-> TRUE, text |-> acc, rest |-> Tail(s)]
      [] Head(s) = "BS" ->
           IF Len(s) >= 2 /\ s[2] \in {"DQ", "BS"}
           THEN ReadQuotedChars(Tail(Tail(s)), Append(acc, s[2])) ELSE Fail
      [] Head(s) = "CR" -> Fail
      [] OTHER -> ReadQuotedChars(Tail(s), Append(acc, Head(s)))
ReadQuoted(s) ==
    IF s # <<>> /\ Head(s) = "DQ" THEN ReadQuotedChars(Tail(s), <<>>) ELSE Fail

\* A quoted_string call has returned.
Quoted == pc = "done" /\ qbuf # <<>>

\* What follows a quoted string in a response line (" rights" of an ACL
\* line, the rest of a LIST or STATUS line).
After == <<"SP", "a">>

\* A client reads back from quoted_string exactly the text the server
\* wrote, and the rest of the response line is left where it was: every
\* '"' and '\' of a mailbox name or identifier is escaped, for texts
\* without CR.
QuotedStringRoundTrip ==
    (Quoted /\ \A i \in DOMAIN text : text[i] # "CR")
    => ReadQuoted(qbuf \o After) = [ok |-> TRUE, text |-> text, rest |-> After]

\* The same for every text: quoted_string writes a CR of a mailbox name or
\* identifier as it is, which no quoted string may hold and which ends the
\* response line early (RFC 3501 section 4.3); a literal is needed.
QuotedStringFramesEveryText ==
    Quoted => ReadQuoted(qbuf \o After) = [ok |-> TRUE, text |-> text, rest |-> After]
====
