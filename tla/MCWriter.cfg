\* Passing run: the writer task and its producers refine OrderedOutput,
\* STARTTLS in either authentication state and UNAUTHENTICATE included.
CONSTANTS
    Tasks <- MCTasks
    MaxMsgs <- MCMaxMsgs
    QueueCap <- MCQueueCap
SPECIFICATION Spec
INVARIANT TypeOK
PROPERTY OrderedSpec
\* A behaviour enqueues at most MaxMsgs responses; the client then stays
\* idle and the session waits for its next command.
CHECK_DEADLOCK FALSE
