------------------------------- MODULE WsHub -------------------------------
(***************************************************************************)
(* WsState and handle_socket (api/ws.rs): the broadcast channel all        *)
(* clients share, the map of per-user channels, and the two tasks of each  *)
(* connection -- the one that reads the socket and the send task it        *)
(* spawns.  Senders are the monitors, the alerter and the executor, on     *)
(* their own tasks.                                                        *)
(*                                                                         *)
(* A channel is tokio's broadcast channel: every receiver reads what was   *)
(* sent since it subscribed; one that is more than the capacity behind     *)
(* loses the oldest messages and is told so.                               *)
(***************************************************************************)
EXTENDS Naturals

CONSTANTS
    Conns,       \* WebSocket connections
    Users,
    Anonymous,   \* user_id = None
    Channels,    \* the user channels that are ever created
    NoChannel,
    Capacity,    \* of the broadcast channel (1024 in the code)
    MaxSent,     \* bound: messages broadcast
    MaxDirect    \* bound: messages sent to a user's channel

ASSUME HubAssumption ==
    /\ Anonymous \notin Users
    /\ NoChannel \notin Channels
    /\ Capacity \in Nat \ {0} /\ MaxSent \in Nat /\ MaxDirect \in Nat

VARIABLES
    channel,   \* user_channels: user -> sender, NoChannel when absent
    user,      \* who a connection is authenticated as
    reader,    \* the task of handle_socket
    sendTask,  \* the task it spawns
    aborted,   \* send_task.abort() was called
    open,      \* the client is still there
    rx,        \* the channel _user_rx receives from, NoChannel when dropped
    sent,      \* messages broadcast so far
    pos,       \* messages of the broadcast channel a connection is past
    direct,    \* messages sent to a channel so far
    read       \* where in its user channel a receiver stands: _user_rx is never read

vars == <<channel, user, reader, sendTask, aborted, open, rx, sent, pos, direct, read>>

ReaderSteps == {"new", "authenticated", "subscribed", "serving", "closing", "gone"}
SendSteps == {"none", "waiting", "cleanup", "done"}

TypeOK ==
    /\ channel \in [Users -> Channels \union {NoChannel}]
    /\ user \in [Conns -> Users \union {Anonymous}]
    /\ reader \in [Conns -> ReaderSteps]
    /\ sendTask \in [Conns -> SendSteps]
    /\ aborted \in [Conns -> BOOLEAN]
    /\ open \in [Conns -> BOOLEAN]
    /\ rx \in [Conns -> Channels \union {NoChannel}]
    /\ sent \in 0 .. MaxSent
    /\ pos \in [Conns -> 0 .. MaxSent]
    /\ direct \in [Channels -> 0 .. MaxDirect]
    /\ read \in [Conns -> 0 .. MaxDirect]

Init ==
    /\ channel = [u \in Users |-> NoChannel]
    /\ user = [c \in Conns |-> Anonymous]
    /\ reader = [c \in Conns |-> "new"]
    /\ sendTask = [c \in Conns |-> "none"]
    /\ aborted = [c \in Conns |-> FALSE]
    /\ open = [c \in Conns |-> TRUE]
    /\ rx = [c \in Conns |-> NoChannel]
    /\ sent = 0
    /\ pos = [c \in Conns |-> 0]
    /\ direct = [ch \in Channels |-> 0]
    /\ read = [c \in Conns |-> 0]

Receives(ch) == \E c \in Conns : rx[c] = ch

\* A sender that was created and not yet dropped; creation takes a new one.
Fresh == {ch \in Channels : /\ ~Receives(ch) /\ direct[ch] = 0
                            /\ \A u \in Users : channel[u] # ch}

----------------------------------------------------------------------------
(* handle_socket *)

\* get_session: a missing, unknown or expired token leaves the client anonymous.
Authenticate(c) ==
    /\ reader[c] = "new"
    /\ \E u \in Users \union {Anonymous} : user' = [user EXCEPT ![c] = u]
    /\ reader' = [reader EXCEPT ![c] = "authenticated"]
    /\ UNCHANGED <<channel, sendTask, aborted, open, rx, sent, pos, direct, read>>

Subscribe(c) ==
    /\ reader[c] = "authenticated"
    /\ pos' = [pos EXCEPT ![c] = sent]
    /\ reader' = [reader EXCEPT ![c] = "subscribed"]
    /\ UNCHANGED <<channel, user, sendTask, aborted, open, rx, sent, direct, read>>

\* register_user finds or creates the entry and subscribes to it under one write
\* lock; then the send task is spawned.
Register(c) ==
    /\ reader[c] = "subscribed"
    /\ \/ /\ user[c] = Anonymous
          /\ UNCHANGED <<channel, rx, read>>
       \/ /\ user[c] \in Users
          /\ \E ch \in IF channel[user[c]] = NoChannel THEN Fresh ELSE {channel[user[c]]} :
                /\ channel' = [channel EXCEPT ![user[c]] = ch]
                /\ rx' = [rx EXCEPT ![c] = ch]
                /\ read' = [read EXCEPT ![c] = direct[ch]]
    /\ reader' = [reader EXCEPT ![c] = "serving"]
    /\ sendTask' = [sendTask EXCEPT ![c] = "waiting"]
    /\ UNCHANGED <<user, aborted, open, sent, pos, direct>>

\* Mutant: the send task is left to itself.
AbortForgotten(c) ==
    /\ reader[c] = "serving"
    /\ ~open[c]
    /\ reader' = [reader EXCEPT ![c] = "closing"]
    /\ UNCHANGED <<channel, user, sendTask, aborted, open, rx, sent, pos, direct, read>>

\* The receive loop ends when the client closes or the socket fails; then the send
\* task is aborted ...
Abort(c) ==
    /\ reader[c] = "serving"
    /\ ~open[c]
    /\ reader' = [reader EXCEPT ![c] = "closing"]
    /\ aborted' = [aborted EXCEPT ![c] = TRUE]
    /\ UNCHANGED <<channel, user, sendTask, open, rx, sent, pos, direct, read>>

\* ... and _user_rx is dropped as handle_socket returns.
Leave(c) ==
    /\ reader[c] = "closing"
    /\ reader' = [reader EXCEPT ![c] = "gone"]
    /\ rx' = [rx EXCEPT ![c] = NoChannel]
    /\ UNCHANGED <<channel, user, sendTask, aborted, open, sent, pos, direct, read>>

----------------------------------------------------------------------------
(* The send task *)

\* Mutant: a lagging receiver ends the task without a word.
ForwardOrQuit(c) ==
    /\ sendTask[c] = "waiting" /\ pos[c] < sent
    /\ IF sent - pos[c] > Capacity \/ ~open[c]
       THEN sendTask' = [sendTask EXCEPT ![c] = "cleanup"] /\ UNCHANGED pos
       ELSE pos' = [pos EXCEPT ![c] = @ + 1] /\ UNCHANGED sendTask
    /\ UNCHANGED <<channel, user, reader, aborted, open, rx, sent, direct, read>>

\* One turn of its loop: what was lost is skipped, else the next message is sent;
\* a send that fails ends the loop.
Forward(c) ==
    /\ sendTask[c] = "waiting" /\ pos[c] < sent
    /\ \/ /\ sent - pos[c] > Capacity
          /\ pos' = [pos EXCEPT ![c] = sent - Capacity]
          /\ UNCHANGED sendTask
       \/ /\ sent - pos[c] <= Capacity
          /\ pos' = [pos EXCEPT ![c] = @ + 1]
          /\ IF open[c] THEN UNCHANGED sendTask
                        ELSE sendTask' = [sendTask EXCEPT ![c] = "cleanup"]
    /\ UNCHANGED <<channel, user, reader, aborted, open, rx, sent, direct, read>>

\* Mutant: the entry is removed whoever still receives from it.
UnregisterAlways(c) ==
    /\ sendTask[c] = "cleanup"
    /\ sendTask' = [sendTask EXCEPT ![c] = "done"]
    /\ channel' = IF user[c] \in Users THEN [channel EXCEPT ![user[c]] = NoChannel] ELSE channel
    /\ UNCHANGED <<user, reader, aborted, open, rx, sent, pos, direct, read>>

\* unregister_user after the loop, under the write lock.
Unregister(c) ==
    /\ sendTask[c] = "cleanup"
    /\ sendTask' = [sendTask EXCEPT ![c] = "done"]
    /\ channel' = IF user[c] \in Users /\ ~Receives(channel[user[c]])
                  THEN [channel EXCEPT ![user[c]] = NoChannel] ELSE channel
    /\ UNCHANGED <<user, reader, aborted, open, rx, sent, pos, direct, read>>

\* An aborted task is dropped where it next awaits; on another thread it may get
\* through its cleanup first.
Cancel(c) ==
    /\ aborted[c]
    /\ sendTask[c] \in {"waiting", "cleanup"}
    /\ sendTask' = [sendTask EXCEPT ![c] = "done"]
    /\ UNCHANGED <<channel, user, reader, aborted, open, rx, sent, pos, direct, read>>

----------------------------------------------------------------------------
(* Clients and senders *)

Disconnect(c) ==
    /\ open[c]
    /\ open' = [open EXCEPT ![c] = FALSE]
    /\ UNCHANGED <<channel, user, reader, sendTask, aborted, rx, sent, pos, direct, read>>

Broadcast ==
    /\ sent < MaxSent
    /\ sent' = sent + 1
    /\ UNCHANGED <<channel, user, reader, sendTask, aborted, open, rx, pos, direct, read>>

\* send_to_user: nothing happens without an entry.
SendToUser(u) ==
    /\ channel[u] # NoChannel
    /\ direct[channel[u]] < MaxDirect
    /\ direct' = [direct EXCEPT ![channel[u]] = @ + 1]
    /\ UNCHANGED <<channel, user, reader, sendTask, aborted, open, rx, sent, pos, read>>

Handle(c) == Authenticate(c) \/ Subscribe(c) \/ Register(c) \/ Abort(c) \/ Leave(c)
Send(c) == Forward(c) \/ Unregister(c)

Next ==
    \/ \E c \in Conns : Handle(c) \/ Send(c) \/ Cancel(c) \/ Disconnect(c)
    \/ Broadcast
    \/ \E u \in Users : SendToUser(u)

Spec == Init /\ [][Next]_vars

\* Both tasks are polled as long as they can run, and an abort takes effect.
FairSpec == Spec /\ \A c \in Conns : WF_vars(Handle(c)) /\ WF_vars(Send(c)) /\ WF_vars(Cancel(c))

----------------------------------------------------------------------------
(* Properties *)

\* The channel a live connection of a user has subscribed to is the very one the map
\* holds for that user, whichever of the user's connections came and went
\* (register_user and unregister_user): no entry is dropped under a receiver or put in
\* its place.  It is about the identity of channels only: what send_to_user puts there
\* is read by nobody.
ReceiverIsRegistered ==
    \A c \in Conns : rx[c] # NoChannel => user[c] \in Users /\ channel[user[c]] = rx[c]

\* A connection that stays catches up with the broadcasts, also after it lagged.
CatchesUp ==
    \A c \in Conns : reader[c] = "serving" ~> pos[c] = sent \/ ~open[c]

\* A client that leaves leaves neither of its two tasks behind.
ConnectionEnds ==
    \A c \in Conns : ~open[c] ~> reader[c] = "gone" /\ sendTask[c] = "done"
=============================================================================
