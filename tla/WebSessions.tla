---------------------------- MODULE WebSessions ----------------------------
(***************************************************************************)
(* The sessions of one user of the web api: the session and oauth token    *)
(* rows of the store (stores/postgres/web.rs), the cached Discord client   *)
(* of the user (discordoauthwrapper) and the requests that use them        *)
(* concurrently (webapi mw_session.rs, routes/auth.rs, routes/sessions.rs).*)
(* A token pair is its number: access and refresh token n were issued      *)
(* together, and 0 stands for no row.  Discord itself is external.         *)
(***************************************************************************)
EXTENDS Naturals, Sequences, FiniteSets

CONSTANTS
    Callers,             \* http requests that can be in flight at once
    Conns,               \* websocket connections (WebApi)
    USER_API_KEY_LIMIT,  \* stores/postgres/web.rs
    MaxOps,              \* bound: requests, commands and outside events
    MaxFails             \* bound: failing calls to Discord or the database

ASSUME WebAssumption ==
    /\ USER_API_KEY_LIMIT \in Nat /\ MaxOps \in Nat /\ MaxFails \in Nat
    /\ IsFiniteSet(Callers) /\ Callers \cap Conns = {}

VARIABLES
    sessions,   \* rows of web_sessions
    oauth,      \* the user's row of discord_oauth_tokens: its pair, or 0
    access,     \* external: the access tokens Discord accepts
    refresh,    \* external: the refresh tokens Discord accepts
    issued,     \* external: how many pairs Discord has issued
    clients,    \* the DiscordOauthApiClients made so far
    cached,     \* ClientCache: index of the user's client, or 0
    pc,         \* the requests and connections in flight
    rough,      \* history: a refresh failed, or overlapped with another
    ops,
    fails

webVars == <<sessions, oauth, access, refresh, issued, clients, cached, pc, rough, ops, fails>>

Tasks == Callers \cup Conns
Idle == [at |-> "idle", op |-> "none", target |-> 0, client |-> 0, token |-> 0, updated |-> FALSE]
Ids(kinds) == {s.id : s \in {x \in sessions : x.kind \in kinds}}

\* gen_token: a session token that nobody holds.
NewId == CHOOSE n \in 1..MaxOps + 1 :
    LET taken(m) == m \in Ids({"User", "ApiKey"}) \/ \E t \in Tasks : pc[t].target = m
    IN ~taken(n) /\ \A m \in 1..n - 1 : taken(m)

At(t, at) == pc[t].at = at
Goto(t, at) == pc' = [pc EXCEPT ![t].at = at]
Done(t) == pc' = [pc EXCEPT ![t] = Idle]
Spend == ops < MaxOps /\ ops' = ops + 1
Fail == fails < MaxFails /\ fails' = fails + 1

SessionsInit ==
    /\ sessions = {[id |-> 0, kind |-> "User"]} /\ oauth = 1
    /\ access = {1} /\ refresh = {1} /\ issued = 1
    /\ clients = <<>> /\ cached = 0
    /\ pc = [t \in Tasks |-> Idle]
    /\ rough = FALSE /\ ops = 0 /\ fails = 0

\* get_session, first query: the row of the session token exists.  Without
\* it the request is answered NoSession and changes nothing.
get_session(t, op, target) ==
    /\ At(t, "idle") /\ Spend
    /\ sessions # {}
    /\ pc' = [pc EXCEPT ![t] = [Idle EXCEPT !.at = "session", !.op = op, !.target = target]]
    /\ UNCHANGED <<sessions, oauth, access, refresh, issued, clients, cached, rough, fails>>

Request(c) ==
    \/ \E op \in {"api", "create", "delall"} : get_session(c, op, NewId)
    \/ \E op \in {"logout", "del"}, s \in Ids({"User", "ApiKey"}) : get_session(c, op, s)

\* get_session, second query, then ClientCache::fetch.
fetch(t) ==
    /\ At(t, "session")
    /\ IF oauth = 0
       THEN Done(t) /\ UNCHANGED <<clients, cached>>
       ELSE LET i == IF cached # 0 THEN cached ELSE Len(clients) + 1 IN
            /\ cached' = i
            /\ clients' = IF cached # 0 THEN clients
                          ELSE Append(clients, [access |-> oauth, broken |-> FALSE])
            /\ pc' = [pc EXCEPT ![t].at = pc[t].op, ![t].client = i]
    /\ UNCHANGED <<sessions, oauth, access, refresh, issued, rough, ops, fails>>

\* The error paths of run_api_check_err that mark the client.  A websocket
\* connection closes on the error, a request goes on to the middleware.
Break(t) ==
    /\ clients' = [clients EXCEPT ![pc[t].client].broken = TRUE]
    /\ Goto(t, IF t \in Conns THEN "close" ELSE "finish")

\* get_user_guilds and get_current_user answer from Discord or from the 10 second
\* cache, or fail in a way that says nothing of the token.
get_user_guilds(t) == Goto(t, "finish") /\ UNCHANGED clients

\* ApiProviderError::InvalidToken: Discord refuses the client's access token.
InvalidToken(t) == clients[pc[t].client].access \notin access

\* run_api_check_err.  A rate limited call is made again, which is no step here.
run_api_check_err(t) ==
    /\ At(t, "api")
    /\ \/ get_user_guilds(t)
       \/ /\ InvalidToken(t)
          /\ IF pc[t].updated THEN Break(t)
             ELSE Goto(t, "get_token") /\ UNCHANGED clients
    /\ UNCHANGED <<sessions, oauth, access, refresh, issued, cached, rough, ops, fails>>

\* Another task of the user is refreshing, or has refreshed and not yet
\* repeated its call.
Refreshing(t) ==
    \E u \in Tasks \ {t} : pc[u].at \in {"refresh", "store", "swap"} \/ pc[u].updated

\* update_token reads the stored pair.
get_oauth_token(t) ==
    /\ At(t, "get_token")
    /\ IF oauth = 0
       THEN Break(t) /\ rough' = TRUE
       ELSE /\ pc' = [pc EXCEPT ![t].at = "refresh", ![t].token = oauth]
            /\ rough' = (rough \/ Refreshing(t))
            /\ UNCHANGED clients
    /\ UNCHANGED <<sessions, oauth, access, refresh, issued, cached, ops, fails>>

\* TokenRefresher::update_token: Discord exchanges the refresh token for a new
\* pair and drops the old one; the answer may be lost on its way back.
exchange_refresh_token(t) ==
    /\ At(t, "refresh")
    /\ LET old == pc[t].token new == issued + 1 IN
       \/ /\ old \in refresh
          /\ issued' = new
          /\ access' = (access \ {old}) \cup {new}
          /\ refresh' = (refresh \ {old}) \cup {new}
          /\ \/ /\ pc' = [pc EXCEPT ![t].at = "store", ![t].token = new]
                /\ UNCHANGED <<clients, rough, fails>>
             \/ Fail /\ Break(t) /\ rough' = TRUE
       \/ /\ old \notin refresh
          /\ Break(t)
          /\ UNCHANGED <<access, refresh, issued, rough, fails>>
       \/ /\ Fail /\ Break(t) /\ rough' = TRUE
          /\ UNCHANGED <<access, refresh, issued>>
    /\ UNCHANGED <<sessions, oauth, cached, ops>>

\* Slip: the refreshed pair is only used, not saved.
NotSaved(t) ==
    /\ At(t, "store")
    /\ Goto(t, "swap")
    /\ UNCHANGED <<sessions, oauth, access, refresh, issued, clients, cached, rough, ops, fails>>

\* set_user_oatuh_token: the row is inserted or overwritten.
set_user_oatuh_token(t) ==
    /\ At(t, "store")
    /\ \/ oauth' = pc[t].token /\ Goto(t, "swap") /\ UNCHANGED <<clients, rough, fails>>
       \/ Fail /\ Break(t) /\ rough' = TRUE /\ UNCHANGED oauth
    /\ UNCHANGED <<sessions, access, refresh, issued, cached, ops>>

\* TwilightApiProvider::update_token, after which the call is repeated.
update_token(t) ==
    /\ At(t, "swap")
    /\ clients' = [clients EXCEPT ![pc[t].client].access = pc[t].token]
    /\ pc' = [pc EXCEPT ![t].at = "api", ![t].updated = TRUE]
    /\ UNCHANGED <<sessions, oauth, access, refresh, issued, cached, rough, ops, fails>>
-----------------------------------------------------------------------------
\* Slip: the limit is not looked at.
NoKeyLimit(c) ==
    /\ At(c, "create")
    /\ Goto(c, "insert")
    /\ UNCHANGED <<sessions, oauth, access, refresh, issued, clients, cached, rough, ops, fails>>

\* create_session for an api key: the keys are counted first.
get_api_key_count(c) ==
    /\ At(c, "create")
    /\ Goto(c, IF Cardinality(Ids({"ApiKey"})) > USER_API_KEY_LIMIT THEN "finish" ELSE "insert")
    /\ UNCHANGED <<sessions, oauth, access, refresh, issued, clients, cached, rough, ops, fails>>

\* create_session: the new row refers to the oauth row, without which it fails.
create_session(c) ==
    /\ At(c, "insert")
    /\ LET kind == IF pc[c].op = "create" THEN "ApiKey" ELSE "User" IN
       sessions' = IF oauth = 0 THEN sessions
                   ELSE sessions \cup {[id |-> pc[c].target, kind |-> kind]}
    /\ IF pc[c].op = "create" THEN Goto(c, "finish") ELSE Done(c)
    /\ UNCHANGED <<oauth, access, refresh, issued, clients, cached, rough, ops, fails>>

\* The session route checks that the session is there before it deletes it.
del_session_get(c) ==
    /\ At(c, "del")
    /\ Goto(c, IF pc[c].target \in Ids({"User", "ApiKey"}) /\ oauth # 0 THEN "logout" ELSE "finish")
    /\ UNCHANGED <<sessions, oauth, access, refresh, issued, clients, cached, rough, ops, fails>>

\* del_session, for that route and for handle_logout.
del_session(c) ==
    /\ At(c, "logout")
    /\ sessions' = {s \in sessions : s.id # pc[c].target}
    /\ Goto(c, "finish")
    /\ UNCHANGED <<oauth, access, refresh, issued, clients, cached, rough, ops, fails>>

\* The store's del_all_sessions deletes the oauth row, and the sessions with it
\* by the foreign key.
DeleteOauthRow == sessions' = {} /\ oauth' = 0

\* del_all_sessions, the route.
del_all_sessions(c) ==
    /\ At(c, "delall")
    /\ DeleteOauthRow
    /\ Goto(c, "finish")
    /\ UNCHANGED <<access, refresh, issued, clients, cached, rough, ops, fails>>

\* The session middleware after the handler: a broken client ends all sessions.
Finish(c) ==
    /\ At(c, "finish")
    /\ IF clients[pc[c].client].broken THEN Goto(c, "wipe") ELSE Done(c)
    /\ UNCHANGED <<sessions, oauth, access, refresh, issued, clients, cached, rough, ops, fails>>

Wipe(c) ==
    /\ At(c, "wipe")
    /\ \/ DeleteOauthRow /\ UNCHANGED fails
       \/ Fail /\ UNCHANGED <<sessions, oauth>>
    /\ Done(c)
    /\ UNCHANGED <<access, refresh, issued, clients, cached, rough, ops>>

\* handle_confirm_login: Discord issues a pair for the code; the row is written
\* and then the session made, in two statements without a transaction.
ConfirmLogin(c) ==
    /\ At(c, "idle") /\ Spend
    /\ issued' = issued + 1
    /\ access' = access \cup {issued'} /\ refresh' = refresh \cup {issued'}
    /\ pc' = [pc EXCEPT ![c] = [Idle EXCEPT !.at = "login", !.op = "login",
                                             !.target = NewId, !.token = issued']]
    /\ UNCHANGED <<sessions, oauth, clients, cached, rough, fails>>

set_oauth_create_session(c) ==
    /\ At(c, "login")
    /\ oauth' = pc[c].token
    /\ Goto(c, "insert")
    /\ UNCHANGED <<sessions, access, refresh, issued, clients, cached, rough, ops, fails>>
-----------------------------------------------------------------------------
\* An access token expires.  It lasts a week, so not the one a request has just
\* been given.
Expire(n) ==
    /\ Spend
    /\ n \in access /\ \A t \in Tasks : pc[t].token # n
    /\ access' = access \ {n}
    /\ UNCHANGED <<sessions, oauth, refresh, issued, clients, cached, pc, rough, fails>>

\* The user takes the application's access away.
Revoke ==
    /\ Spend
    /\ access' = {} /\ refresh' = {} /\ rough' = TRUE
    /\ UNCHANGED <<sessions, oauth, issued, clients, cached, pc, fails>>

\* The cache holds 10000 clients and drops the one used longest ago.
Evict ==
    /\ Spend
    /\ cached # 0 /\ cached' = 0
    /\ UNCHANGED <<sessions, oauth, access, refresh, issued, clients, pc, rough, fails>>

ClientStep(t) ==
    \/ fetch(t) \/ run_api_check_err(t) \/ get_oauth_token(t) \/ exchange_refresh_token(t)
    \/ set_user_oatuh_token(t) \/ update_token(t)

CallerStep(c) ==
    \/ Request(c) \/ ClientStep(c) \/ get_api_key_count(c) \/ create_session(c)
    \/ del_session_get(c) \/ del_session(c) \/ del_all_sessions(c)
    \/ Finish(c) \/ Wipe(c) \/ ConfirmLogin(c) \/ set_oauth_create_session(c)

SessionsNext ==
    \/ \E c \in Callers : CallerStep(c)
    \/ \E n \in 1..issued : Expire(n)
    \/ Revoke \/ Evict

SessionsSpec == SessionsInit /\ [][SessionsNext]_webVars
-----------------------------------------------------------------------------
\* However counts and inserts interleave, a user has at most one key beyond
\* the limit for every request served at a time.
KeyLimit == Cardinality(Ids({"ApiKey"})) <= USER_API_KEY_LIMIT + Cardinality(Callers)

\* As long as the user does not revoke the grant, no call to Discord or to the
\* store fails while a token is refreshed, and no two refreshes overlap, no
\* client is marked broken and nobody is logged out by the middleware: every
\* refresh leaves the store with the refresh token Discord accepts.
NoSpuriousLogout ==
    ~rough => /\ \A i \in 1..Len(clients) : ~clients[i].broken
              /\ oauth \in refresh \cup {0} \/ \E t \in Tasks : At(t, "store")
=============================================================================
