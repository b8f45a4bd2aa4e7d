---------------------------- MODULE SavedSearch ----------------------------
(***************************************************************************)
(* The saved-search slot ("$", RFC 5182) of one selected mailbox and the   *)
(* SEARCH commands of one connection that publish it (RETURN (SAVE)) or    *)
(* reference it ($).                                                       *)
(*                                                                         *)
(* Source: src/src/commands/search.rs.  The session driver runs            *)
(* Session::handle_search for each command in the order the client sent   *)
(* them.  A SAVE search first awaits the previous value of the slot        *)
(* (SelectedMailbox::get_saved_search), installs SavedSearch::InFlight     *)
(* with the receiver of a fresh watch channel, and spawns a detached task. *)
(* The task either publishes SavedSearch::Results and sends on the channel *)
(* or, on any error, drops the sender and restores the previous value.     *)
(* A search without SAVE resolves "$" inside its own detached task         *)
(* (imap_filter_to_jmap -> sequence_to_jmap -> SavedSearch::unwrap),       *)
(* waiting on the channel of an in-flight search.                          *)
(*                                                                         *)
(* Data is abstracted to identities: the result set of the SAVE search     *)
(* issued as command i is the value i; the slot's value before the first   *)
(* command is 0; EmptyInit is the empty vector a watch channel is created  *)
(* with (watch::channel(Arc::new(Vec::new()))), which no search produced.  *)
(***************************************************************************)
EXTENDS Naturals, FiniteSets, FiniteSetsExt

CONSTANTS
    MaxCmds,    \* number of SEARCH commands the client sends
    NoSaved,    \* Option::None: no saved search exists
    EmptyInit,  \* the initial value of every watch channel
    NoValue     \* a channel on which nothing was sent / a $ not resolved

ASSUME MaxCmds \in Nat \ {0}

Cmds == 1..MaxCmds

\* A command is a SEARCH that saves its result, references $, or both.
Kinds == {[save |-> TRUE, dollar |-> FALSE],
          [save |-> TRUE, dollar |-> TRUE],
          [save |-> FALSE, dollar |-> TRUE]}

\* The values a $ reference can resolve to.
Values == {0} \cup Cmds \cup {EmptyInit}

VARIABLES
    slot,      \* SelectedMailbox.saved_search: [kind, val, chan]
    chan,      \* chan[i]: the watch channel created for SAVE command i
    n,         \* number of commands the driver has received
    cmd,       \* cmd[i]: the kind of command i
    dpc,       \* driver: "idle", "read", "wait" or "install"
    dprev,     \* driver: the previous value get_saved_search returned
    tpc,       \* tpc[i]: where command i (or its task) is
    waitOn,    \* waitOn[i]: the channel awaited while resolving $ for i
    prev,      \* prev[i]: prev_saved_search of SAVE command i
    used,      \* used[i]: the value $ resolved to for command i
    status,    \* status[i]: "pending", "ok" or "no"
    initial    \* the slot's value before the first command

vars == <<slot, chan, n, cmd, dpc, dprev, tpc, waitOn, prev, used, status,
          initial>>

NoneSlot == [kind |-> "None", val |-> 0, chan |-> 0]
ResultsSlot(v) == [kind |-> "Results", val |-> v, chan |-> 0]
InFlightSlot(c) == [kind |-> "InFlight", val |-> 0, chan |-> c]

\* prev_saved_search.map_or(SavedSearch::None, |s| SavedSearch::Results{..})
SlotOf(v) == IF v = NoSaved THEN NoneSlot ELSE ResultsSlot(v)

\* What rx.changed().await.ok(); rx.borrow() yields once it returns: the
\* sent value, or the initial value when the sender was dropped unsent.
Settled(c) == chan[c].sent # NoValue \/ ~chan[c].open
Borrowed(c) == IF chan[c].sent # NoValue THEN chan[c].sent ELSE EmptyInit

TypeOK ==
    /\ slot \in {NoneSlot} \cup {ResultsSlot(v) : v \in Values}
                \cup {InFlightSlot(c) : c \in Cmds}
    /\ chan \in [Cmds -> [sent : Values \cup {NoValue}, open : BOOLEAN]]
    /\ n \in 0..MaxCmds
    /\ cmd \in [Cmds -> Kinds \cup {NoValue}]
    /\ dpc \in {"idle", "read", "wait", "install"}
    /\ dprev \in Values \cup {NoSaved, NoValue}
    /\ tpc \in [Cmds -> {"unissued", "resolve", "wait", "query", "failed",
                         "done"}]
    /\ waitOn \in [Cmds -> 0..MaxCmds]
    /\ prev \in [Cmds -> Values \cup {NoSaved, NoValue}]
    /\ used \in [Cmds -> Values \cup {NoSaved, NoValue}]
    /\ status \in [Cmds -> {"pending", "ok", "no"}]
    /\ initial \in {NoSaved, 0}

Init ==
    /\ initial \in {NoSaved, 0}
    /\ slot = SlotOf(initial)
    /\ chan = [c \in Cmds |-> [sent |-> NoValue, open |-> FALSE]]
    /\ n = 0
    /\ cmd = [i \in Cmds |-> NoValue]
    /\ dpc = "idle"
    /\ dprev = NoValue
    /\ tpc = [i \in Cmds |-> "unissued"]
    /\ waitOn = [i \in Cmds |-> 0]
    /\ prev = [i \in Cmds |-> NoValue]
    /\ used = [i \in Cmds |-> NoValue]
    /\ status = [i \in Cmds |-> "pending"]
-----------------------------------------------------------------------------
(* Session driver: Session::handle_search                                  *)

\* The driver takes the next command.  A SAVE search goes on to await the
\* previous saved search; any other search is spawned at once.
Receive(k) ==
    /\ dpc = "idle"
    /\ n < MaxCmds
    /\ n' = n + 1
    /\ cmd' = [cmd EXCEPT ![n + 1] = k]
    /\ IF k.save
         THEN /\ dpc' = "read"
              /\ UNCHANGED tpc
         ELSE /\ tpc' = [tpc EXCEPT ![n + 1] = "resolve"]
              /\ UNCHANGED dpc
    /\ UNCHANGED <<slot, chan, dprev, waitOn, prev, used, status, initial>>

\* Mutant: the driver does not await an in-flight search and takes the
\* slot for empty.
GetSavedSearchNoWait ==
    /\ dpc = "read"
    /\ dpc' = "install"
    /\ dprev' = IF slot.kind = "Results" THEN slot.val ELSE NoSaved
    /\ UNCHANGED <<slot, chan, n, cmd, tpc, waitOn, prev, used, status,
                   initial>>

\* get_saved_search: read the slot under its lock; an InFlight slot makes
\* the driver clone the receiver and await it.
GetSavedSearch ==
    /\ dpc = "read"
    /\ CASE slot.kind = "None"    -> dpc' = "install" /\ dprev' = NoSaved
                                     /\ UNCHANGED waitOn
         [] slot.kind = "Results" -> dpc' = "install" /\ dprev' = slot.val
                                     /\ UNCHANGED waitOn
         [] slot.kind = "InFlight" ->
              /\ dpc' = "wait"
              /\ waitOn' = [waitOn EXCEPT ![n] = slot.chan]
              /\ UNCHANGED dprev
    /\ UNCHANGED <<slot, chan, n, cmd, tpc, prev, used, status, initial>>

\* Mutant: a closed channel is not treated as settled.
GetSavedSearchWakeOnSend ==
    /\ dpc = "wait"
    /\ chan[waitOn[n]].sent # NoValue
    /\ dpc' = "install"
    /\ dprev' = Borrowed(waitOn[n])
    /\ UNCHANGED <<slot, chan, n, cmd, tpc, waitOn, prev, used, status,
                   initial>>

\* rx.changed().await returns, with a new value or because the sender
\* was dropped; rx.borrow() is the previous saved search.
GetSavedSearchWake ==
    /\ dpc = "wait"
    /\ Settled(waitOn[n])
    /\ dpc' = "install"
    /\ dprev' = Borrowed(waitOn[n])
    /\ UNCHANGED <<slot, chan, n, cmd, tpc, waitOn, prev, used, status,
                   initial>>

\* Create the watch channel, install InFlight under the lock, spawn.
InstallInFlight ==
    /\ dpc = "install"
    /\ slot' = InFlightSlot(n)
    /\ chan' = [chan EXCEPT ![n] = [sent |-> NoValue, open |-> TRUE]]
    /\ prev' = [prev EXCEPT ![n] = dprev]
    /\ tpc' = [tpc EXCEPT ![n] = "query"]
    /\ dpc' = "idle"
    /\ dprev' = NoValue
    /\ UNCHANGED <<n, cmd, waitOn, used, status, initial>>
-----------------------------------------------------------------------------
(* Detached task of a SAVE search: SessionData::search                     *)

\* Mutant: the task sends its result but never stores Results.
SavePublishNoStore(i) ==
    /\ tpc[i] = "query"
    /\ cmd[i].dollar => prev[i] # NoSaved
    /\ chan' = [chan EXCEPT ![i] = [sent |-> i, open |-> FALSE]]
    /\ used' = [used EXCEPT ![i] = IF cmd[i].dollar THEN prev[i] ELSE NoValue]
    /\ status' = [status EXCEPT ![i] = "ok"]
    /\ tpc' = [tpc EXCEPT ![i] = "done"]
    /\ UNCHANGED <<slot, n, cmd, dpc, dprev, waitOn, prev, initial>>

\* $ in a SAVE search is its prev_saved_search (Some(None) fails with
\* "No saved search found."); the query and result mapping succeed; the
\* task stores Results, sends them on the channel and drops the sender.
SavePublish(i) ==
    /\ tpc[i] = "query"
    /\ cmd[i].dollar => prev[i] # NoSaved
    /\ slot' = ResultsSlot(i)
    /\ chan' = [chan EXCEPT ![i] = [sent |-> i, open |-> FALSE]]
    /\ used' = [used EXCEPT ![i] = IF cmd[i].dollar THEN prev[i] ELSE NoValue]
    /\ status' = [status EXCEPT ![i] = "ok"]
    /\ tpc' = [tpc EXCEPT ![i] = "done"]
    /\ UNCHANGED <<n, cmd, dpc, dprev, waitOn, prev, initial>>

\* Any error (no saved search, MODSEQ, Store query, resynchronisation)
\* returns from search(), which drops the channel's sender.
SaveFail(i) ==
    /\ tpc[i] = "query"
    /\ chan' = [chan EXCEPT ![i].open = FALSE]
    /\ used' = [used EXCEPT ![i] = IF cmd[i].dollar THEN prev[i] ELSE NoValue]
    /\ status' = [status EXCEPT ![i] = "no"]
    /\ tpc' = [tpc EXCEPT ![i] = "failed"]
    /\ UNCHANGED <<slot, n, cmd, dpc, dprev, waitOn, prev, initial>>

\* Mutant: the previous value is restored as Results without the
\* map_or that turns None into SavedSearch::None.
SaveRestoreUnmapped(i) ==
    /\ tpc[i] = "failed"
    /\ slot' = ResultsSlot(prev[i])
    /\ tpc' = [tpc EXCEPT ![i] = "done"]
    /\ UNCHANGED <<chan, n, cmd, dpc, dprev, waitOn, prev, used, status,
                   initial>>

\* The spawned closure then restores the previous value under the lock.
SaveRestore(i) ==
    /\ tpc[i] = "failed"
    /\ slot' = SlotOf(prev[i])
    /\ tpc' = [tpc EXCEPT ![i] = "done"]
    /\ UNCHANGED <<chan, n, cmd, dpc, dprev, waitOn, prev, used, status,
                   initial>>
-----------------------------------------------------------------------------
(* Detached task of a search without SAVE that references $                 *)

\* sequence_to_jmap reads the slot: no saved search fails the command,
\* Results resolve at once, InFlight makes SavedSearch::unwrap await.
ResolveDollar(i) ==
    /\ tpc[i] = "resolve"
    /\ CASE slot.kind = "None" ->
              /\ status' = [status EXCEPT ![i] = "no"]
              /\ used' = [used EXCEPT ![i] = NoSaved]
              /\ tpc' = [tpc EXCEPT ![i] = "done"]
              /\ UNCHANGED waitOn
         [] slot.kind = "Results" ->
              /\ status' = [status EXCEPT ![i] = "ok"]
              /\ used' = [used EXCEPT ![i] = slot.val]
              /\ tpc' = [tpc EXCEPT ![i] = "done"]
              /\ UNCHANGED waitOn
         [] slot.kind = "InFlight" ->
              /\ waitOn' = [waitOn EXCEPT ![i] = slot.chan]
              /\ tpc' = [tpc EXCEPT ![i] = "wait"]
              /\ UNCHANGED <<status, used>>
    /\ UNCHANGED <<slot, chan, n, cmd, dpc, dprev, prev, initial>>

ResolveDollarWake(i) ==
    /\ tpc[i] = "wait"
    /\ Settled(waitOn[i])
    /\ used' = [used EXCEPT ![i] = Borrowed(waitOn[i])]
    /\ status' = [status EXCEPT ![i] = "ok"]
    /\ tpc' = [tpc EXCEPT ![i] = "done"]
    /\ UNCHANGED <<slot, chan, n, cmd, dpc, dprev, waitOn, prev, initial>>
-----------------------------------------------------------------------------
Next ==
    \/ \E k \in Kinds : Receive(k)
    \/ GetSavedSearch
    \/ GetSavedSearchWake
    \/ InstallInFlight
    \/ \E i \in Cmds : SavePublish(i) \/ SaveFail(i) \/ SaveRestore(i)
    \/ \E i \in Cmds : ResolveDollar(i) \/ ResolveDollarWake(i)

\* The tokio scheduler eventually runs every ready task and the driver;
\* the Store eventually answers each query (with a result or an error).
Fairness ==
    /\ WF_vars(GetSavedSearch \/ GetSavedSearchWake \/ InstallInFlight)
    /\ \A i \in Cmds :
         /\ WF_vars(SavePublish(i) \/ SaveFail(i))
         /\ WF_vars(SaveRestore(i))
         /\ WF_vars(ResolveDollar(i) \/ ResolveDollarWake(i))

Spec == Init /\ [][Next]_vars /\ Fairness
-----------------------------------------------------------------------------
(* Properties                                                              *)

\* The value $ must denote for command i when commands run in the order the
\* client sent them (RFC 5182; spec 4.7: a failed SAVE restores the previous
\* value): the result of the last successful SAVE search sent before i.
LastSaveBefore(i) ==
    LET ok == {k \in 1..(i - 1) : cmd[k] # NoValue /\ cmd[k].save
                                  /\ status[k] = "ok"}
    IN IF ok = {} THEN initial ELSE Max(ok)

NoSaveFailedBefore(i) ==
    \A k \in 1..(i - 1) : cmd[k] # NoValue /\ cmd[k].save => status[k] = "ok"

\* A SAVE search that references $ (handle_search's awaited
\* get_saved_search) sees the result of the SAVE search sent just before
\* it, as long as no SAVE search before it failed: the driver must wait for
\* an in-flight search and the InFlight slot must be in place before the
\* next command is read.
SaveOperandIsLastSave ==
    \A i \in Cmds :
        /\ cmd[i] # NoValue /\ cmd[i].save /\ prev[i] # NoValue
        /\ NoSaveFailedBefore(i)
        => prev[i] = LastSaveBefore(i)

\* Once every command has completed, and no SAVE search failed, the slot
\* holds the result of the last SAVE search sent (publish writes Results
\* before the task ends).
QuiescentSlotIsLastSave ==
    /\ dpc = "idle"
    /\ \A i \in 1..n : tpc[i] = "done"
    /\ NoSaveFailedBefore(n + 1)
    => slot = SlotOf(LastSaveBefore(n + 1))

\* Every command the client sends is eventually answered: no task or
\* driver waits forever on a watch channel, whether its search succeeds
\* or fails.
EveryCommandAnswered ==
    \A i \in Cmds : (cmd[i] # NoValue) ~> (tpc[i] = "done")

\* A search that references $ without SAVE sees the result of the last
\* successful SAVE search sent before it (RFC 5182 ordering).
DollarSeesIssueOrder ==
    \A i \in Cmds :
        /\ cmd[i] # NoValue /\ ~cmd[i].save /\ used[i] \notin {NoValue, NoSaved}
        => used[i] = LastSaveBefore(i)

\* A $ reference that waited on an in-flight SAVE search resolves to the
\* value the slot holds once that search has settled: its result, or the
\* previous value that SaveRestore puts back (spec 4.7).
WaiterSeesSettledValue ==
    \A i \in Cmds :
        LET c == waitOn[i]
        IN /\ c # 0 /\ tpc[c] = "done"
           /\ IF cmd[i].save THEN prev[i] # NoValue ELSE tpc[i] = "done"
           => (IF cmd[i].save THEN prev[i] ELSE used[i])
                = (IF status[c] = "ok" THEN c ELSE prev[c])

\* While the most recently installed SAVE search is still running, the slot
\* designates its channel, so every later $ waits for it.
SlotTracksLatestSave ==
    \A i \in Cmds :
        /\ tpc[i] = "query"
        /\ \A k \in Cmds : k > i /\ cmd[k] # NoValue => ~cmd[k].save
        => slot = InFlightSlot(i)
=============================================================================
