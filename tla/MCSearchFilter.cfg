\* Passing run: parse_filters and imap_filter_to_jmap against the grammar.
CONSTANTS
    MaxTokens <- MCMaxTokens
    NestingCap <- MCNestingCap
SPECIFICATION Spec
INVARIANT TypeOK
INVARIANT ParseMatchesGrammar
INVARIANT StoreFilterMatchesOrdinarySearch
\* Each command's parse ends; the final state has no successor.
CHECK_DEADLOCK FALSE
