----------------------------- MODULE GuildLogs -----------------------------
(***************************************************************************)
(* The log of a guild on its way to those who watch it: the logger task of *)
(* the scheduler process (guild-logger), the subscriber backend with a     *)
(* broadcast channel per guild, and the streams that botrpc serves from    *)
(* them (scheduler rpc_server.rs).                                         *)
(***************************************************************************)
EXTENDS Naturals, Sequences, Functions

CONSTANTS Guilds,
          Capacity,    \* entries a broadcast channel keeps (1000)
          MaxEntries   \* bound: entries logged

VARIABLES
    rx,         \* queue of the logger task: the guilds of the entries
    slow,       \* the task found no receiver and waits for the write lock
    handled,    \* how many entries the backend has handled while it had a channel
    sender,     \* GuildSubscriberBackend.subscriptions: channel number, or 0
    streams     \* the served log streams and their receivers

logVars == <<rx, slow, handled, sender, streams>>

StreamIds == 1..(MaxEntries + 4)
Unused(S) == CHOOSE n \in StreamIds : n \notin S /\ \A m \in 1..n - 1 : m \in S
Put(f, i, v) == [j \in DOMAIN f \cup {i} |-> IF j = i THEN v ELSE f[j]]
Drop(f, S) == [j \in DOMAIN f \ S |-> f[j]]
Receivers(g) == {i \in DOMAIN streams : streams[i].guild = g /\ streams[i].sender = sender[g]}

LogsInit ==
    /\ rx = <<>> /\ slow = FALSE
    /\ handled = [g \in Guilds |-> 0] /\ sender = [g \in Guilds |-> 0]
    /\ streams = <<>>

\* GuildLogger::log, by a guild's session or script.
log(g) ==
    /\ Len(rx) + FoldFunction(+, 0, handled) < MaxEntries
    /\ rx' = Append(rx, g)
    /\ UNCHANGED <<slow, handled, sender, streams>>

\* broadcast::Sender::send: a receiver that is Capacity entries behind loses the
\* oldest and is told so by its next recv.
send(r, n) ==
    IF Len(r.buf) < Capacity THEN [r EXCEPT !.buf = Append(@, n)]
    ELSE [r EXCEPT !.buf = Append(Tail(@), n), !.lagged = TRUE]

SendAll(g) ==
    streams' = [i \in DOMAIN streams |->
        IF i \in Receivers(g) THEN send(streams[i], handled[g] + 1) ELSE streams[i]]

\* handle_entry, under the read lock.  Without a receiver the entry is kept for
\* the second try.
handle_entry(g) ==
    /\ rx # <<>> /\ ~slow /\ g = Head(rx)
    /\ IF sender[g] # 0 /\ Receivers(g) = {}
       THEN slow' = TRUE /\ UNCHANGED <<rx, handled, streams>>
       ELSE /\ rx' = Tail(rx)
            /\ handled' = [handled EXCEPT ![g] = IF sender[g] = 0 THEN @ ELSE @ + 1]
            /\ SendAll(g)
            /\ UNCHANGED slow
    /\ UNCHANGED sender

\* Slip: the channel is removed without sending again.
RemoveUnchecked(g) ==
    /\ slow /\ g = Head(rx)
    /\ slow' = FALSE /\ rx' = Tail(rx) /\ handled' = [handled EXCEPT ![g] = @ + 1]
    /\ sender' = [sender EXCEPT ![g] = 0]
    /\ UNCHANGED streams

\* handle_entry, under the write lock: sent again, and the channel is removed
\* only if it still has no receiver.
handle_entry_slow(g) ==
    /\ slow /\ g = Head(rx)
    /\ slow' = FALSE /\ rx' = Tail(rx) /\ handled' = [handled EXCEPT ![g] = @ + 1]
    /\ sender' = [sender EXCEPT ![g] = IF Receivers(g) = {} THEN 0 ELSE @]
    /\ SendAll(g)

\* subscribe, called by stream_guild_logs: a receiver of the guild's channel,
\* which is made if there is none.  i is the number of the new stream.
subscribe(g, i) ==
    LET new == Unused({streams[j].sender : j \in DOMAIN streams} \cup {sender[h] : h \in Guilds})
        c == IF sender[g] # 0 THEN sender[g] ELSE new
    IN /\ i = Unused(DOMAIN streams)
       /\ sender' = [sender EXCEPT ![g] = c]
       /\ streams' = Put(streams, i, [guild |-> g, sender |-> c, buf |-> <<>>,
                                      next |-> handled[g] + 1, lagged |-> FALSE])
       /\ UNCHANGED <<rx, slow, handled>>

\* recv: the next entry, or the end of the stream when the receiver lagged behind.
\* (The other end, a removed channel, is never met: one with a receiver stays.)
recv(i) ==
    /\ \/ /\ streams[i].lagged
          /\ streams' = Drop(streams, {i})
       \/ /\ ~streams[i].lagged /\ streams[i].buf # <<>>
          /\ streams' = [streams EXCEPT ![i].buf = Tail(@), ![i].next = Head(streams[i].buf) + 1]
    /\ UNCHANGED <<rx, slow, handled, sender>>

\* The server notices that the client of a stream is gone.
drop(i) ==
    /\ streams' = Drop(streams, {i})
    /\ UNCHANGED <<rx, slow, handled, sender>>

LoggerStep == \E g \in Guilds : handle_entry(g) \/ handle_entry_slow(g)
-----------------------------------------------------------------------------
\* A stream that did not fall Capacity entries behind has every entry handled
\* since its last one, in order and once, wherever its subscription fell
\* between the two tries of handle_entry and whatever channel was removed.
NoLogLost ==
    \A i \in DOMAIN streams : LET r == streams[i] IN
        ~r.lagged => r.buf = [k \in 1..(handled[r.guild] + 1 - r.next) |-> r.next + k - 1]
=============================================================================
