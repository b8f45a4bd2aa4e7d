------------------------------- MODULE MCWriter -------------------------------
(* Model-checking instance of Writer: two detached tasks, five responses   *)
(* and a channel of two slots (IPC_CHANNEL_BUFFER is 128), so that senders *)
(* block on a full channel, tasks race the driver, and STARTTLS, a write   *)
(* failure, LOGIN and UNAUTHENTICATE happen in every order.               *)
EXTENDS Writer

MCTasks == {"t1", "t2"}
MCMaxMsgs == 5
MCQueueCap == 2
=============================================================================
