\* Passing run: contains, expand and serialize_sequence against RFC 3501.
CONSTANTS
    Ids <- MCIds
    MaxList <- MCMaxList
    MaxItems <- MCMaxItems
    MaxText <- MCMaxText
SPECIFICATION Spec
INVARIANT TypeOK
INVARIANT SerializeIsExact
INVARIANT SequenceSemantics
INVARIANT QuotedStringRoundTrip
\* serialize_sequence returns once the list is exhausted.
CHECK_DEADLOCK FALSE
