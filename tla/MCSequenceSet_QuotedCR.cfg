\* Reproduction: quoted_string writes a CR of a name unescaped.
CONSTANTS
    Ids <- MCIds
    MaxList <- MCMaxList
    MaxItems <- MCMaxItems
    MaxText <- MCMaxText
SPECIFICATION Spec
INVARIANT QuotedStringFramesEveryText
\* serialize_sequence returns once the list is exhausted.
CHECK_DEADLOCK FALSE
