------------------------------- MODULE WebApi -------------------------------
(***************************************************************************)
(* The web api of one user: their sessions (WebSessions) and the websocket *)
(* connections (webapi routes/ws.rs) that log in with one of them and      *)
(* watch the logs of guilds (GuildLogs).  A connection does one thing at a *)
(* time; its state is its entry of pc, "ws" while it waits for a command,  *)
(* a log entry or the ping, and "idle" before Authorize.                   *)
(***************************************************************************)
EXTENDS WebSessions, GuildLogs

VARIABLE active_log_streams    \* the log streams a connection reads

vars == <<webVars, logVars, active_log_streams>>

Init ==
    /\ SessionsInit /\ LogsInit
    /\ active_log_streams = [w \in Conns |-> {}]

\* Back in the select loop of run.
Wait(w) == pc' = [pc EXCEPT ![w] = [Idle EXCEPT !.at = "ws", !.op = "ws", !.client = pc[w].client]]

\* do_login, whose client comes from the same cache as that of the requests.
do_login(w) ==
    /\ get_session(w, "ws", 0)
    /\ UNCHANGED <<logVars, active_log_streams>>

\* check_guild_acces fetches the user's guilds.
check_guild_acces(w, g) == pc' = [pc EXCEPT ![w].at = "api", ![w].target = g]

\* subscribe_logs: the user's guilds are fetched first.  Nothing happens for a
\* guild that is already watched.
subscribe_logs(w, g) ==
    /\ At(w, "ws") /\ Spend
    /\ \A i \in active_log_streams[w] : streams[i].guild # g
    /\ check_guild_acces(w, g)
    /\ UNCHANGED <<sessions, oauth, access, refresh, issued, clients, cached, rough, fails,
                   logVars, active_log_streams>>

\* .. then, if the user may see the guild, its log stream is opened.
Subscribed(w) ==
    /\ At(w, "finish")
    /\ \E i \in StreamIds :
        /\ subscribe(pc[w].target, i)
        /\ active_log_streams' = [active_log_streams EXCEPT ![w] = @ \cup {i}]
    /\ Wait(w)
    /\ UNCHANGED <<sessions, oauth, access, refresh, issued, clients, cached, rough, ops, fails>>

\* unsubscribe_logs: the filter keeps the streams of the named guild.
unsubscribe_logs(w, g) ==
    /\ At(w, "ws") /\ Spend
    /\ active_log_streams' =
        [active_log_streams EXCEPT ![w] = {i \in @ : streams[i].guild = g}]
    /\ UNCHANGED <<sessions, oauth, access, refresh, issued, clients, cached, pc, rough, fails, logVars>>

\* handle_log_stream_item: the next entry is sent to the browser; a stream that
\* ends is taken out without a word.
handle_log_stream_item(w) ==
    /\ At(w, "ws")
    /\ \E i \in active_log_streams[w] :
        /\ recv(i)
        /\ active_log_streams' = [active_log_streams EXCEPT ![w] = @ \cap DOMAIN streams']
    /\ UNCHANGED webVars

\* close, or the browser is gone: on an error of the call, missing access, a
\* bot rpc error, a refused command.
close(w) ==
    /\ \/ At(w, "ws") /\ Spend
       \/ pc[w].at \in {"finish", "close"} /\ UNCHANGED ops
    /\ Done(w)
    /\ active_log_streams' = [active_log_streams EXCEPT ![w] = {}]
    /\ UNCHANGED <<sessions, oauth, access, refresh, issued, clients, cached, rough, fails, logVars>>

WsStep(w) ==
    \/ do_login(w)
    \/ ClientStep(w) /\ UNCHANGED <<logVars, active_log_streams>>
    \/ \E g \in Guilds : subscribe_logs(w, g) \/ unsubscribe_logs(w, g)
    \/ Subscribed(w) \/ handle_log_stream_item(w) \/ close(w)

Log == (\E g \in Guilds : log(g)) /\ UNCHANGED <<webVars, active_log_streams>>

Logger == LoggerStep /\ UNCHANGED <<webVars, active_log_streams>>

StreamDropped ==
    /\ \E i \in DOMAIN streams \ UNION Range(active_log_streams) : drop(i)
    /\ UNCHANGED <<webVars, active_log_streams>>

Next ==
    \/ SessionsNext /\ UNCHANGED <<logVars, active_log_streams>>
    \/ \E w \in Conns : WsStep(w)
    \/ Log \/ Logger \/ StreamDropped

Spec == Init /\ [][Next]_vars
-----------------------------------------------------------------------------
\* Rows, tokens, clients and streams refer to what exists: a session to the
\* oauth row its foreign key names, the cache and the tasks to clients that were
\* made, a connection to open streams, and an unauthorized one to none.
TypeOK ==
    /\ sessions \subseteq [id : 0..MaxOps + 1, kind : {"User", "ApiKey"}]
    /\ sessions # {} => oauth # 0
    /\ {oauth} \cup access \cup refresh \subseteq 0..issued
    /\ cached \in 0..Len(clients) /\ \A t \in Tasks : pc[t].client \in 0..Len(clients)
    /\ \A w \in Conns : /\ active_log_streams[w] \subseteq DOMAIN streams
                        /\ active_log_streams[w] # {} => pc[w].op = "ws"
    /\ \A i \in DOMAIN streams : Len(streams[i].buf) <= Capacity
=============================================================================
