\* Violation run: PercentStaysInLevel.
CONSTANTS
    NameChars <- MCNameChars
    MaxName <- MCMaxName
    MaxPattern <- MCMaxPattern
    MaxPair <- MCMaxPair
SPECIFICATION Spec
INVARIANT PercentStaysInLevel
\* matches_pattern returns; the final state has no successor.
CHECK_DEADLOCK FALSE
