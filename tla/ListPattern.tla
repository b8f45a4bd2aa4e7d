----------------------------- MODULE ListPattern -----------------------------
(***************************************************************************)
(* matches_pattern of the LIST/LSUB handler (src/src/commands/list.rs):    *)
(* does a mailbox name match one of the LIST patterns, where "*" matches   *)
(* any run of characters and "%" any run without the hierarchy delimiter  *)
(* "/" (RFC 3501 6.3.8, RFC 5258).                                         *)
(*                                                                         *)
(* The function is a scan over the pattern's bytes ('inner) inside a loop  *)
(* over the patterns ('outer).  A wildcard followed by literal bytes scans *)
(* the name for those bytes with a match counter; a wildcard at the end of *)
(* the pattern (or before another wildcard) decides at once.  Each step of *)
(* this module is one iteration of one of those loops.                     *)
(***************************************************************************)
EXTENDS Naturals, Sequences, SequencesExt

CONSTANTS
    NameChars,    \* the bytes mailbox names are made of, "/" among them
    MaxName,      \* the longest mailbox name
    MaxPattern,   \* the longest pattern when one pattern is given
    MaxPair       \* the longest pattern when two patterns are given

Wild == {"%", "*"}
PatternChars == NameChars \cup Wild

ASSUME "/" \in NameChars /\ Wild \cap NameChars = {}

Strings(A, m) == UNION {[1..k -> A] : k \in 0..m}

\* The pattern lists of a LIST command: none (LIST "" ""), one, or two
\* (the RFC 5258 parenthesised form).
PatternLists ==
    {<<>>} \cup {<<p>> : p \in Strings(PatternChars, MaxPattern)}
           \cup {<<p, q>> : p, q \in Strings(PatternChars, MaxPair)}

\* The index that ends the literal run after the wildcard at i (i itself
\* when a wildcard or the end of the pattern follows): end_pos.
RunEnd(p, i) ==
    Min({k \in i..Len(p) : k = Len(p) \/ p[k + 1] \in Wild})
-----------------------------------------------------------------------------
(* Reference: RFC 3501 wildcard matching                                   *)

RECURSIVE Matches(_, _)
Matches(p, s) ==
  IF p = <<>> THEN s = <<>>
  ELSE CASE Head(p) = "*" ->
              \E k \in 0..Len(s) : Matches(Tail(p), SubSeq(s, k + 1, Len(s)))
         [] Head(p) = "%" ->
              \E k \in 0..Len(s) :
                 /\ \A j \in 1..k : s[j] # "/"
                 /\ Matches(Tail(p), SubSeq(s, k + 1, Len(s)))
         [] OTHER -> s # <<>> /\ Head(s) = Head(p) /\ Matches(Tail(p), Tail(s))
-----------------------------------------------------------------------------
VARIABLES
    pats,     \* patterns
    name,     \* mailbox_name
    pi,       \* the pattern of the 'outer loop
    pp,       \* the next byte of the pattern (pattern_bytes)
    np,       \* the next byte of the name (mailbox_name iterator)
    mode,     \* "read": 'inner loop; "scan": the literal-run loop
    mb,       \* match_bytes
    mc,       \* match_count
    eof,      \* pattern_eof
    result    \* "run", "match" or "nomatch"

vars == <<pats, name, pi, pp, np, mode, mb, mc, eof, result>>

P == pats[pi]
Running == result = "run" /\ pi <= Len(pats)

TypeOK ==
    /\ pats \in PatternLists
    /\ name \in Strings(NameChars, MaxName)
    /\ pi \in 1..3
    /\ pp \in 1..(MaxPattern + 1)
    /\ np \in 1..(MaxName + 1)
    /\ mode \in {"read", "scan"}
    /\ mb \in Strings(NameChars, MaxPattern)
    /\ mc \in 0..MaxPattern
    /\ eof \in BOOLEAN
    /\ result \in {"run", "match", "nomatch"}

Init ==
    /\ pats \in PatternLists
    /\ name \in Strings(NameChars, MaxName)
    /\ pi = 1 /\ pp = 1 /\ np = 1
    /\ mode = "read" /\ mb = <<>> /\ mc = 0 /\ eof = FALSE
    /\ result = "run"

\* continue 'outer: the next pattern, with fresh iterators; after the
\* last one the function returns false.
NextPattern ==
    /\ pi' = pi + 1 /\ pp' = 1 /\ np' = 1
    /\ mode' = "read" /\ mb' = <<>> /\ mc' = 0 /\ eof' = FALSE
    /\ result' = IF pi = Len(pats) THEN "nomatch" ELSE "run"
    /\ UNCHANGED <<pats, name>>

Accept ==
    /\ result' = "match"
    /\ UNCHANGED <<pats, name, pi, pp, np, mode, mb, mc, eof>>

\* An empty pattern list matches every name.
NoPatterns ==
    /\ result = "run" /\ pats = <<>>
    /\ Accept

\* The pattern is exhausted: a match iff the name is exhausted too.
PatternEnd ==
    /\ Running /\ mode = "read" /\ pp > Len(P)
    /\ IF np > Len(name) THEN Accept ELSE NextPattern

\* A literal byte must equal the next byte of the name.
Literal ==
    /\ Running /\ mode = "read" /\ pp <= Len(P) /\ P[pp] \notin Wild
    /\ IF np <= Len(name) /\ name[np] = P[pp]
         THEN /\ pp' = pp + 1 /\ np' = np + 1
              /\ UNCHANGED <<pats, name, pi, mode, mb, mc, eof, result>>
         ELSE NextPattern

\* Mutant: the pattern iterator skips one byte past the literal run.
WildcardRunSkip ==
    /\ Running /\ mode = "read" /\ pp <= Len(P) /\ P[pp] \in Wild
    /\ RunEnd(P, pp) > pp
    /\ mb' = SubSeq(P, pp + 1, RunEnd(P, pp))
    /\ mc' = 0
    /\ eof' = (RunEnd(P, pp) = Len(P))
    /\ pp' = RunEnd(P, pp) + 2
    /\ mode' = "scan"
    /\ UNCHANGED <<pats, name, pi, np, result>>

\* A wildcard followed by literal bytes: take the run as match_bytes and
\* scan the name for it.
WildcardRun ==
    /\ Running /\ mode = "read" /\ pp <= Len(P) /\ P[pp] \in Wild
    /\ RunEnd(P, pp) > pp
    /\ mb' = SubSeq(P, pp + 1, RunEnd(P, pp))
    /\ mc' = 0
    /\ eof' = (RunEnd(P, pp) = Len(P))
    /\ pp' = RunEnd(P, pp) + 1
    /\ mode' = "scan"
    /\ UNCHANGED <<pats, name, pi, np, result>>

\* Mutant: "%" at the end of the run matches whatever follows.
WildcardTailNoDelimiter ==
    /\ Running /\ mode = "read" /\ pp <= Len(P) /\ P[pp] \in Wild
    /\ RunEnd(P, pp) = pp
    /\ Accept

\* A wildcard with no literal run after it: "*" matches the rest, "%"
\* matches it unless it holds a "/".
WildcardTail ==
    /\ Running /\ mode = "read" /\ pp <= Len(P) /\ P[pp] \in Wild
    /\ RunEnd(P, pp) = pp
    /\ IF P[pp] = "*" \/ \A k \in np..Len(name) : name[k] # "/"
         THEN Accept ELSE NextPattern

\* The name ends during the scan: continue 'outer.
ScanEnd ==
    /\ Running /\ mode = "scan" /\ np > Len(name)
    /\ NextPattern

ScanStep == Running /\ mode = "scan" /\ np <= Len(name)
Hit == mb[mc + 1] = name[np]

\* The next name byte extends the partial match.
ScanAdvance ==
    /\ ScanStep /\ Hit /\ mc + 1 < Len(mb)
    /\ np' = np + 1 /\ mc' = mc + 1
    /\ UNCHANGED <<pats, name, pi, pp, mode, mb, eof, result>>

\* Mutant: a mismatch leaves the counter as it was.
ScanMissNoReset ==
    /\ ScanStep /\ ~Hit
    /\ np' = np + 1
    /\ UNCHANGED <<pats, name, pi, pp, mode, mb, mc, eof, result>>

\* A mismatch resets the counter; the byte is not compared again.
ScanMiss ==
    /\ ScanStep /\ ~Hit
    /\ np' = np + 1 /\ mc' = 0
    /\ UNCHANGED <<pats, name, pi, pp, mode, mb, eof, result>>

\* Mutant: a run matched before the end of the name keeps its count.
ScanCompleteNoReset ==
    /\ ScanStep /\ Hit /\ mc + 1 = Len(mb)
    /\ np' = np + 1
    /\ IF ~eof
         THEN /\ mode' = "read" /\ mc' = mc + 1
              /\ UNCHANGED <<pats, name, pi, pp, mb, eof, result>>
         ELSE IF np + 1 > Len(name)
           THEN /\ result' = "match"
                /\ UNCHANGED <<pats, name, pi, pp, mode, mb, mc, eof>>
           ELSE /\ mc' = mc + 1
                /\ UNCHANGED <<pats, name, pi, pp, mode, mb, eof, result>>

\* The whole run matched: go on with the pattern, or, at the end of the
\* pattern, match iff the name ends here, else reset the counter.
ScanComplete ==
    /\ ScanStep /\ Hit /\ mc + 1 = Len(mb)
    /\ np' = np + 1
    /\ IF ~eof
         THEN /\ mode' = "read" /\ mc' = mc + 1
              /\ UNCHANGED <<pats, name, pi, pp, mb, eof, result>>
         ELSE IF np + 1 > Len(name)
           THEN /\ result' = "match"
                /\ UNCHANGED <<pats, name, pi, pp, mode, mb, mc, eof>>
           ELSE /\ mc' = 0
                /\ UNCHANGED <<pats, name, pi, pp, mode, mb, eof, result>>

Next ==
    \/ NoPatterns \/ PatternEnd \/ Literal \/ WildcardRun \/ WildcardTail
    \/ ScanEnd \/ ScanAdvance \/ ScanMiss \/ ScanComplete

Spec == Init /\ [][Next]_vars
-----------------------------------------------------------------------------
(* Properties, checked once matches_pattern has returned                    *)

Done == result # "run"
Matched == result = "match"
RefMatched == pats = <<>> \/ \E i \in DOMAIN pats : Matches(pats[i], name)

NoPercent == \A i \in DOMAIN pats : \A k \in DOMAIN pats[i] : pats[i][k] # "%"

\* No wildcard is directly followed by another one.
Separated(p) == \A k \in 1..(Len(p) - 1) : p[k] \in Wild => p[k + 1] \notin Wild
AllSeparated == \A i \in DOMAIN pats : Separated(pats[i])

\* A literal prefix followed by at most one wildcard, at the end.
PrefixForm(p) == \A k \in DOMAIN p : p[k] \in Wild => k = Len(p)

\* The literal-run scan indexes match_bytes[match_count] only below the
\* run's length (an index past it would panic).
MatchIndexInBounds ==
    Running /\ mode = "scan" => mc < Len(mb)

\* Without "%" and without adjacent wildcards, matches_pattern never
\* reports a name that no pattern matches: each literal run it accepts is
\* really in the name, in order, and the last one really ends it.
NoFalseMatchWithoutPercent ==
    Done /\ NoPercent /\ AllSeparated /\ Matched => RefMatched

\* Without "%", a pattern with adjacent wildcards ("**a") matches only
\* names that it matches under RFC 3501.
AdjacentWildcardsChecked ==
    Done /\ NoPercent /\ Matched => RefMatched

\* For patterns of the form literal prefix plus an optional final
\* wildcard ("INBOX", "INBOX/%", "*"), matches_pattern agrees with
\* RFC 3501 matching on every name.
PrefixPatternsMatch ==
    Done /\ (\A i \in DOMAIN pats : PrefixForm(pats[i]))
      => (Matched <=> RefMatched)

\* With wildcards apart, every name matches_pattern reports matches a
\* pattern: "%" followed by literal bytes stays within one level.
PercentStaysInLevel ==
    Done /\ AllSeparated /\ Matched => RefMatched

\* With wildcards apart, every name a pattern matches is reported: the
\* scan for a literal run finds it wherever it starts.
NoMissedMatch ==
    Done /\ AllSeparated /\ RefMatched => Matched
====
