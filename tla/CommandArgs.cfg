CONSTANT MaxArgTokens = 9
SPECIFICATION Spec
INVARIANTS
    TypeOK
    SearchParseComplete
    SortParseComplete
    ListParseComplete
    StatusParseComplete
