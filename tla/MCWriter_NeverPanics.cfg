\* Violation run: a detached task's response lands between STARTTLS's
\* Upgrade and its StreamTls, and the writer reaches unreachable!().
CONSTANTS
    Tasks <- MCTasks
    MaxMsgs <- MCMaxMsgs
    QueueCap <- MCQueueCap
SPECIFICATION Spec
INVARIANT WriterNeverPanics
CHECK_DEADLOCK FALSE
