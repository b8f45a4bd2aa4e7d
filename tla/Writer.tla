------------------------------- MODULE Writer -------------------------------
(***************************************************************************)
(* The writer task of one connection (src/src/core/writer.rs) and the     *)
(* producers that feed its bounded mpsc channel: the session driver        *)
(* (Session::write_bytes), the detached command tasks                      *)
(* (SessionData::write_bytes) and the STARTTLS handshake, which sends      *)
(* Upgrade, takes the cleartext write half back over a oneshot channel and *)
(* installs StreamTls.                                                     *)
(*                                                                         *)
(* The writer is modelled from the source.  The driver's side (connection  *)
(* setup, STARTTLS, LOGIN, which commands spawn tasks) is in               *)
(* core/client.rs, which is not in the source tree; it follows spec 4.2,   *)
(* 4.4, 4.10 and 6 ("Writer upgrade"): STARTTLS is in the command set of  *)
(* every state (section 4.4: Authenticated is "above +" NotAuthenticated)  *)
(* and needs the raw cleartext socket; UNAUTHENTICATE returns to           *)
(* NotAuthenticated; detached tasks are spawned only by commands of the    *)
(* authenticated states.                                                   *)
(***************************************************************************)
EXTENDS Naturals, Sequences, FiniteSets

CONSTANTS
    Tasks,      \* detached command tasks the session may spawn
    MaxMsgs,    \* responses enqueued in a behaviour
    QueueCap    \* IPC_CHANNEL_BUFFER

ASSUME QueueCap \in Nat \ {0} /\ MaxMsgs \in Nat

\* An Event: Bytes carry the response's id, the others nothing.
Bytes(i) == [kind |-> "Bytes", id |-> i]
Ctl(k) == [kind |-> k, id |-> 0]
Events == {Bytes(i) : i \in 1..MaxMsgs} \cup
          {Ctl(k) : k \in {"Stream", "StreamTls", "Upgrade"}}

VARIABLES
    q,        \* the mpsc channel's queue
    ws,       \* writer: "start", "plain", "tls", "handover", "exited", "panic"
    wire,     \* what reached the socket: [id, tls]
    sent,     \* history: the responses enqueued, [id, tls], in order
    pc,       \* driver: "idle", "st_upgrade", "st_wait", "st_install", "done"
    authed,   \* the session is in an authenticated state
    secured,  \* the driver has installed TLS
    task      \* task[t]: "idle", "pending" (will write), "done"

vars == <<q, ws, wire, sent, pc, authed, secured, task>>

Dead == ws \in {"exited", "panic"}
Pending == {t \in Tasks : task[t] = "pending"}
\* Responses still allowed: the bound, less those pending tasks will write.
Budget == MaxMsgs - Len(sent) - Cardinality(Pending)
CanSend == Len(q) < QueueCap

TypeOK ==
    /\ q \in Seq(Events) /\ Len(q) <= QueueCap
    /\ ws \in {"start", "plain", "tls", "handover", "exited", "panic"}
    /\ wire \in Seq([id : 1..MaxMsgs, tls : BOOLEAN])
    /\ sent \in Seq([id : 1..MaxMsgs, tls : BOOLEAN]) /\ Len(sent) <= MaxMsgs
    /\ pc \in {"idle", "st_upgrade", "st_wait", "st_install", "done"}
    /\ authed \in BOOLEAN
    /\ secured \in BOOLEAN
    /\ task \in [Tasks -> {"idle", "pending", "done"}]

\* The session hands the writer its transport first: a cleartext stream,
\* or a TLS stream on an implicit-TLS port.
Init ==
    /\ secured \in BOOLEAN
    /\ q = <<Ctl(IF secured THEN "StreamTls" ELSE "Stream")>>
    /\ ws = "start"
    /\ wire = <<>> /\ sent = <<>>
    /\ pc = "idle" /\ authed = FALSE
    /\ task = [t \in Tasks |-> "idle"]

\* Enqueue Bytes for the next response (writer.send(Event::Bytes)).
EnqueueBytes ==
    /\ q' = Append(q, Bytes(Len(sent) + 1))
    /\ sent' = Append(sent, [id |-> Len(sent) + 1, tls |-> secured])
-----------------------------------------------------------------------------
(* The writer task: spawn_writer                                           *)

\* Install the transport the channel delivers: a Stream or StreamTls, any
\* other event reaches unreachable!().
Install(e) ==
    ws' = CASE e.kind = "Stream"    -> "plain"
            [] e.kind = "StreamTls" -> "tls"
            [] OTHER                -> "panic"

\* let mut stream = rx.recv().await.unwrap(), matched by 'outer.
WriterStart ==
    /\ ws = "start" /\ q # <<>>
    /\ Install(Head(q))
    /\ q' = Tail(q)
    /\ UNCHANGED <<wire, sent, pc, authed, secured, task>>

\* Event::Bytes: write_all on the current transport.
WriteBytes ==
    /\ ws \in {"plain", "tls"} /\ q # <<>> /\ Head(q).kind = "Bytes"
    /\ wire' = Append(wire, [id |-> Head(q).id, tls |-> ws = "tls"])
    /\ q' = Tail(q)
    /\ UNCHANGED <<ws, sent, pc, authed, secured, task>>

\* Mutant: a failed write is logged and the writer goes on.
WriteFailContinue ==
    /\ ws \in {"plain", "tls"} /\ q # <<>> /\ Head(q).kind = "Bytes"
    /\ q' = Tail(q)
    /\ UNCHANGED <<ws, wire, sent, pc, authed, secured, task>>

\* write_all fails: break 'outer; the task ends and drops the receiver
\* with whatever is still queued.
WriteFail ==
    /\ ws \in {"plain", "tls"} /\ q # <<>> /\ Head(q).kind = "Bytes"
    /\ ws' = "exited"
    /\ q' = <<>>
    /\ UNCHANGED <<wire, sent, pc, authed, secured, task>>

\* Event::Upgrade on the cleartext stream: send the write half back, then
\* take the next event as the new stream.
Upgrade ==
    /\ ws = "plain" /\ q # <<>> /\ Head(q).kind = "Upgrade"
    /\ ws' = "handover"
    /\ q' = Tail(q)
    /\ UNCHANGED <<wire, sent, pc, authed, secured, task>>

\* The event taken as the new stream: the next one after an Upgrade
\* (if let Some(stream_) = rx.recv().await { stream = stream_ }), or one
\* that is neither Bytes nor, on the cleartext stream, Upgrade
\* (_ => { stream = event; continue 'outer }).
NewStream ==
    /\ q # <<>>
    /\ \/ ws = "handover"
       \/ ws = "plain" /\ Head(q).kind \in {"Stream", "StreamTls"}
       \/ ws = "tls" /\ Head(q).kind \in {"Stream", "StreamTls", "Upgrade"}
    /\ Install(Head(q))
    /\ q' = Tail(q)
    /\ UNCHANGED <<wire, sent, pc, authed, secured, task>>
-----------------------------------------------------------------------------
(* Producers                                                               *)

\* Mutant: the channel is treated as unbounded.
DriverWriteUnbounded ==
    /\ pc = "idle" /\ Budget > 0 /\ ~Dead
    /\ EnqueueBytes
    /\ UNCHANGED <<ws, wire, pc, authed, secured, task>>

\* Session::write_bytes: the driver answers a command; send awaits a free
\* slot in the channel.
DriverWrite ==
    /\ pc = "idle" /\ Budget > 0 /\ ~Dead /\ CanSend
    /\ EnqueueBytes
    /\ UNCHANGED <<ws, wire, pc, authed, secured, task>>

\* The send fails because the writer has gone: the driver ends.
DriverWriteFails ==
    /\ pc \in {"idle", "st_upgrade", "st_install"} /\ Dead
    /\ pc' = "done"
    /\ UNCHANGED <<q, ws, wire, sent, authed, secured, task>>

\* STARTTLS, in any state of a cleartext connection (only a raw socket can
\* be wrapped): the tagged OK goes out on the cleartext stream.
StartTlsOk ==
    /\ pc = "idle" /\ ~secured /\ Budget > 0 /\ ~Dead /\ CanSend
    /\ EnqueueBytes
    /\ pc' = "st_upgrade"
    /\ UNCHANGED <<ws, wire, authed, secured, task>>

\* Then Event::Upgrade with the sending half of a oneshot channel.
StartTlsUpgrade ==
    /\ pc = "st_upgrade" /\ ~Dead /\ CanSend
    /\ q' = Append(q, Ctl("Upgrade"))
    /\ pc' = "st_wait"
    /\ UNCHANGED <<ws, wire, sent, authed, secured, task>>

\* The oneshot delivers the cleartext write half (or is dropped with the
\* writer); the handshake completes.
StartTlsAwait ==
    /\ pc = "st_wait"
    /\ \/ ws = "handover" /\ pc' = "st_install"
       \/ Dead /\ pc' = "done"
    /\ UNCHANGED <<q, ws, wire, sent, authed, secured, task>>

\* Event::StreamTls with the TLS write half.
StartTlsInstall ==
    /\ pc = "st_install" /\ ~Dead /\ CanSend
    /\ q' = Append(q, Ctl("StreamTls"))
    /\ secured' = TRUE
    /\ pc' = "idle"
    /\ UNCHANGED <<ws, wire, sent, authed, task>>

\* LOGIN / AUTHENTICATE succeeds.
Login ==
    /\ pc = "idle" /\ ~authed
    /\ authed' = TRUE
    /\ UNCHANGED <<q, ws, wire, sent, pc, secured, task>>

\* UNAUTHENTICATE: back to NotAuthenticated; tasks already spawned run on.
Unauthenticate ==
    /\ pc = "idle" /\ authed
    /\ authed' = FALSE
    /\ UNCHANGED <<q, ws, wire, sent, pc, secured, task>>

\* SEARCH, SORT or LIST in an authenticated state: spawn a detached task
\* that will write its response.
Spawn(t) ==
    /\ pc = "idle" /\ authed /\ task[t] = "idle" /\ Budget > 0
    /\ task' = [task EXCEPT ![t] = "pending"]
    /\ UNCHANGED <<q, ws, wire, sent, pc, authed, secured>>

\* SessionData::write_bytes from the task.
TaskWrite(t) ==
    /\ task[t] = "pending" /\ ~Dead /\ CanSend
    /\ EnqueueBytes
    /\ task' = [task EXCEPT ![t] = "done"]
    /\ UNCHANGED <<ws, wire, pc, authed, secured>>

\* The send fails: the task ends.
TaskWriteFails(t) ==
    /\ task[t] = "pending" /\ Dead
    /\ task' = [task EXCEPT ![t] = "done"]
    /\ UNCHANGED <<q, ws, wire, sent, pc, authed, secured>>
-----------------------------------------------------------------------------
WriterStep == WriterStart \/ WriteBytes \/ Upgrade \/ NewStream

Next ==
    \/ WriterStep \/ WriteFail
    \/ DriverWrite \/ DriverWriteFails \/ Login \/ Unauthenticate
    \/ StartTlsOk \/ StartTlsUpgrade \/ StartTlsAwait \/ StartTlsInstall
    \/ \E t \in Tasks : Spawn(t) \/ TaskWrite(t) \/ TaskWriteFails(t)

\* The writer task runs whenever its channel holds an event; the STARTTLS
\* handler and the detached tasks run to their next send once started.
\* Failures, client commands and spawning are not forced.
Fairness ==
    /\ WF_vars(WriterStep)
    /\ WF_vars(StartTlsUpgrade \/ StartTlsAwait \/ StartTlsInstall)
    /\ \A t \in Tasks : WF_vars(TaskWrite(t) \/ TaskWriteFails(t))

Spec == Init /\ [][Next]_vars /\ Fairness
-----------------------------------------------------------------------------
(* Properties                                                              *)

\* The writer never takes an event that is not a stream for its transport
\* (unreachable!() in spawn_writer): no Bytes or Upgrade reaches the
\* channel between STARTTLS's Upgrade and its StreamTls.  Spec section 6
\* says the Upgrade pattern preserves response ordering across the
\* upgrade; a detached SEARCH/LIST task spawned before a STARTTLS issued
\* in the Authenticated state can send its Bytes there.
WriterNeverPanics == ws # "panic"

\* The writer implements OrderedOutput: responses are written in the
\* order the driver and the tasks enqueued them, each on the transport in
\* force when it was enqueued, and every one is written unless the
\* connection fails.
OO == INSTANCE OrderedOutput
        WITH sent <- sent, wire <- wire, closed <- Dead,
             Entries <- [id : 1..MaxMsgs, tls : BOOLEAN]

OrderedSpec == OO!Spec
====
