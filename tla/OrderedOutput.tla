---------------------------- MODULE OrderedOutput ----------------------------
(***************************************************************************)
(* What the writer of a connection promises (spec 4.10): the responses    *)
(* its producers enqueue reach the client in the order they were enqueued, *)
(* each on the transport in force when it was enqueued (cleartext before   *)
(* STARTTLS completed, TLS after it), until the connection fails; a       *)
(* response that was enqueued is eventually written unless it fails.      *)
(***************************************************************************)
EXTENDS Naturals, Sequences

CONSTANT Entries   \* the responses: [id, tls]

VARIABLES
    sent,     \* the responses enqueued, in order
    wire,     \* the responses written to the socket, in order
    closed    \* the connection has failed

vars == <<sent, wire, closed>>

Init == sent = <<>> /\ wire = <<>> /\ closed = FALSE

Enqueue(e) ==
    /\ ~closed
    /\ sent' = Append(sent, e)
    /\ UNCHANGED <<wire, closed>>

Deliver ==
    /\ ~closed
    /\ Len(wire) < Len(sent)
    /\ wire' = Append(wire, sent[Len(wire) + 1])
    /\ UNCHANGED <<sent, closed>>

Close ==
    /\ ~closed
    /\ closed' = TRUE
    /\ UNCHANGED <<sent, wire>>

Next == (\E e \in Entries : Enqueue(e)) \/ Deliver \/ Close

Spec == Init /\ [][Next]_vars /\ WF_vars(Deliver)
====
