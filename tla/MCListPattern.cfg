\* Passing run: matches_pattern against RFC 3501 wildcard matching.
CONSTANTS
    NameChars <- MCNameChars
    MaxName <- MCMaxName
    MaxPattern <- MCMaxPattern
    MaxPair <- MCMaxPair
SPECIFICATION Spec
INVARIANT TypeOK
INVARIANT MatchIndexInBounds
INVARIANT NoFalseMatchWithoutPercent
INVARIANT PrefixPatternsMatch
\* matches_pattern returns; the final state has no successor.
CHECK_DEADLOCK FALSE
