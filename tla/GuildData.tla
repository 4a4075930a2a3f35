------------------------------- MODULE GuildData -------------------------------
(***************************************************************************)
(* What the database keeps of a guild after the bot has left it.  The      *)
(* broker records joins and leaves (cmd/discordbroker/src/broker.rs), one  *)
(* job looks for guilds left while the broker was away, another deletes    *)
(* what guilds that left long ago have stored (cmd/jobs/src/main.rs).  The *)
(* bot may be invited again at any moment.                                 *)
(***************************************************************************)
EXTENDS Integers, SequencesExt

CONSTANTS Guilds,
          MinAge,        \* --min-age-days
          MaxMoves,      \* bound: joins and leaves
          MaxFails,      \* bound: failed calls of the store or of Discord
          MaxReconnects, \* bound: restarts of the broker
          MaxNow         \* bound: days

ASSUME GuildDataAssumption == MinAge \in Nat \ {0}

VARIABLES member,      \* Discord: the guilds the bot is in
          gateway,     \* the events the broker has not handled yet
          up,          \* the broker is connected to Discord
          connected,   \* discord_state: the guilds the broker knows
          running,     \* the guilds whose scripts the scheduler runs
          joined,      \* joined_guilds: NoRow, Joined (left_at is null) or left_at
          data,        \* which tables hold rows of the guild
          scan,        \* scan_for_left_guilds: the guilds still to look at, and the one to mark
          del,         \* delete_left_guilds: the guilds still to delete, and where it is
          now,
          raced,       \* history: since the row was last written by a join, a job had the
                       \* guild in hand when it joined or stored something, or a join or
                       \* something it stored has no row
          moves, fails, reconnects
vars == <<member, gateway, up, connected, running, joined, data, scan, del, now, raced, moves, fails, reconnects>>

NoRow == -2
Joined == -1
Tables == {"bucket", "tasks", "timers"}
Idle == [todo |-> {}, at |-> "idle", g |-> {}]

Init ==
  /\ member = {} /\ gateway = <<>> /\ up = TRUE /\ connected = {} /\ running = {}
  /\ joined = [g \in Guilds |-> NoRow] /\ data = [g \in Guilds |-> {}]
  /\ scan = Idle /\ del = Idle /\ now = 0
  /\ raced = [g \in Guilds |-> FALSE]
  /\ moves = 0 /\ fails = 0 /\ reconnects = 0

\* Guilds a job has in hand: it has read their rows, and acts on them later.
InHand(g) == g \in scan.g \cup del.g \cup del.todo

counts == <<moves, fails, reconnects>>
Fail == fails < MaxFails /\ fails' = fails + 1

-----------------------------------------------------------------------------

\* Someone invites the bot, or removes it.  Discord tells a broker that is connected.
Tell(what, g) == gateway' = IF up THEN Append(gateway, <<what, g>>) ELSE gateway

Invite(g) ==
  /\ moves < MaxMoves /\ moves' = moves + 1
  /\ g \notin member /\ member' = member \cup {g}
  /\ Tell("GuildCreate", g)
  /\ UNCHANGED <<up, connected, running, joined, data, scan, del, now, raced, fails, reconnects>>

Kick(g) ==
  /\ moves < MaxMoves /\ moves' = moves + 1
  /\ g \in member /\ member' = member \ {g}
  /\ Tell("GuildDelete", g)
  /\ UNCHANGED <<up, connected, running, joined, data, scan, del, now, raced, fails, reconnects>>

\* Discord has an outage, and the guild is out of reach; or the outage is over.
Outage(g) ==
  /\ moves < MaxMoves /\ moves' = moves + 1
  /\ up /\ g \in member
  /\ \/ g \in running /\ Tell("Unavailable", g)
     \/ g \notin running /\ Tell("GuildCreate", g)
  /\ UNCHANGED <<member, up, connected, running, joined, data, scan, del, now, raced, fails, reconnects>>

\* The broker stops: what it had not handled is lost.  The scheduler goes on.
BrokerStops ==
  /\ up /\ up' = FALSE /\ gateway' = <<>> /\ connected' = {}
  /\ reconnects < MaxReconnects /\ reconnects' = reconnects + 1
  /\ UNCHANGED <<member, running, joined, data, scan, del, now, raced, moves, fails>>

\* It starts again and is ready: Discord sends a GuildCreate for every guild the bot is in.
BrokerStarts ==
  /\ ~up /\ up' = TRUE
  /\ gateway' \in {[i \in DOMAIN order |-> <<"GuildCreate", order[i]>>] : order \in SetToSeqs(member)}
  /\ UNCHANGED <<member, connected, running, joined, data, scan, del, now, raced, moves, fails, reconnects>>

\* add_update_joined_guild
add_update_joined_guild(g) == joined' = [joined EXCEPT ![g] = Joined]

\* set_guild_left_status(g, true): a guild that has left already keeps its time.
set_guild_left_status(g) == joined' = [joined EXCEPT ![g] = IF @ = Joined THEN now ELSE @]

\* handle_event: GuildCreate.  The broker goes on when the store fails.
GuildCreate ==
  LET g == gateway[1][2]
  IN /\ gateway # <<>> /\ gateway[1][1] = "GuildCreate" /\ gateway' = Tail(gateway)
     /\ connected' = connected \cup {g} /\ running' = running \cup {g}
     /\ \/ add_update_joined_guild(g) /\ raced' = [raced EXCEPT ![g] = InHand(g)] /\ UNCHANGED fails
        \/ Fail /\ raced' = [raced EXCEPT ![g] = TRUE] /\ UNCHANGED joined
     /\ UNCHANGED <<member, up, data, scan, del, now, moves, reconnects>>

\* handle_event: GuildDelete.  A guild that is just unavailable has not left; whether the
\* cache still lists it is the library's affair.
GuildDelete ==
  LET g == gateway[1][2]
      unavailable == gateway[1][1] = "Unavailable"
  IN /\ gateway # <<>> /\ gateway[1][1] # "GuildCreate" /\ gateway' = Tail(gateway)
     /\ connected' \in {connected \ {g}} \cup (IF unavailable THEN {connected} ELSE {})
     /\ running' = running \ {g}
     /\ \/ unavailable /\ UNCHANGED <<joined, fails>>
        \/ ~unavailable /\ set_guild_left_status(g) /\ UNCHANGED fails
        \/ ~unavailable /\ Fail /\ UNCHANGED joined
     /\ UNCHANGED <<member, up, data, scan, del, now, raced, moves, reconnects>>

\* A script of a guild that runs stores something.
ScriptWrites(g) ==
  /\ g \in running /\ data[g] # Tables
  /\ data' = [data EXCEPT ![g] = Tables]
  /\ raced' = [raced EXCEPT ![g] = @ \/ InHand(g) \/ joined[g] = NoRow]
  /\ UNCHANGED <<member, gateway, up, connected, running, joined, scan, del, now, counts>>

-----------------------------------------------------------------------------

scanOnly == UNCHANGED <<member, gateway, up, connected, running, data, del, now, raced, moves, reconnects>>

\* get_joined_guilds_not_in
get_joined_guilds_not_in(ids) == {g \in Guilds \ ids : joined[g] = Joined}

\* scan_for_left_guilds, of a broker that answers: the guilds with a row that it is not
\* connected to.
ScanStart ==
  /\ scan.at = "idle" /\ up
  /\ LET left == get_joined_guilds_not_in(connected)
     IN left # {} /\ scan' = [todo |-> left, at |-> "check", g |-> {}]
  /\ UNCHANGED <<joined, fails>> /\ scanOnly

\* Slip: a guild the broker does not know is taken to be left.
ScanTrustsBroker ==
  /\ scan.at = "check" /\ scan.todo # {}
  /\ \E g \in scan.todo : scan' = [todo |-> scan.todo \ {g}, at |-> "mark", g |-> {g}]
  /\ UNCHANGED <<joined, fails>> /\ scanOnly

\* The next guild is asked for at Discord: it answers (skip), refuses with 403 (left), or
\* the job ends with an error.
ScanCheck ==
  /\ scan.at = "check" /\ scan.todo # {}
  /\ \E g \in scan.todo :
       \/ g \in member /\ scan' = [scan EXCEPT !.todo = @ \ {g}] /\ UNCHANGED fails
       \/ g \notin member /\ scan' = [todo |-> scan.todo \ {g}, at |-> "mark", g |-> {g}] /\ UNCHANGED fails
       \/ Fail /\ scan' = Idle
  /\ UNCHANGED joined /\ scanOnly

\* The guild is marked.  The row may be gone, which ends the job.
ScanMark ==
  /\ scan.at = "mark"
  /\ \E g \in scan.g :
       \/ /\ joined[g] # NoRow /\ set_guild_left_status(g)
          /\ scan' = [scan EXCEPT !.at = "check", !.g = {}] /\ UNCHANGED fails
       \/ joined[g] = NoRow /\ scan' = Idle /\ UNCHANGED <<joined, fails>>
       \/ Fail /\ scan' = Idle /\ UNCHANGED joined
  /\ scanOnly

ScanDone ==
  /\ scan.at = "check" /\ scan.todo = {} /\ scan' = Idle
  /\ UNCHANGED <<joined, fails>> /\ scanOnly

-----------------------------------------------------------------------------

delOnly == UNCHANGED <<member, gateway, up, connected, running, scan, now, raced, moves, reconnects>>

\* get_left_guilds
get_left_guilds == {g \in Guilds : joined[g] >= 0 /\ joined[g] < now - MinAge}

DeleteStart ==
  /\ del.at = "idle" /\ get_left_guilds # {}
  /\ del' = [todo |-> get_left_guilds, at |-> "next", g |-> {}]
  /\ UNCHANGED <<joined, data, fails>> /\ delOnly

DeleteNext ==
  /\ del.at = "next"
  /\ \/ \E g \in del.todo : del' = [todo |-> del.todo \ {g}, at |-> "bucket", g |-> {g}]
     \/ del.todo = {} /\ del' = Idle
  /\ UNCHANGED <<joined, data, fails>> /\ delOnly

\* Slip: the row of the guild goes first.
ConfigFirst(at) == CASE at = "bucket" -> "config" [] at = "config" -> "tasks"
                     [] at = "tasks" -> "timers" [] at = "timers" -> "next"

\* The order of the statements for one guild.
After(at) == CASE at = "bucket" -> "tasks" [] at = "tasks" -> "timers"
               [] at = "timers" -> "config" [] at = "config" -> "next"

\* delete_guild_config_data: the row goes, the scripts stay.
delete_guild_config_data(g) == joined' = [joined EXCEPT ![g] = NoRow]

\* delete_guild_bucket_store_data, the two statements of delete_guild_timer_data, and
\* delete_guild_config_data.  The first that fails ends the job.
DeleteStep ==
  /\ del.at \in Tables \cup {"config"}
  /\ \/ /\ \E g \in del.g :
             /\ data' = [data EXCEPT ![g] = @ \ {del.at}]
             /\ IF del.at = "config" THEN delete_guild_config_data(g) ELSE UNCHANGED joined
        /\ del' = [del EXCEPT !.at = After(@), !.g = IF After(del.at) = "next" THEN {} ELSE @]
        /\ UNCHANGED fails
     \/ Fail /\ del' = Idle /\ UNCHANGED <<joined, data>>
  /\ delOnly

\* The broker is never a day behind with its events.
Day ==
  /\ gateway = <<>>
  /\ now < MaxNow /\ now' = now + 1
  /\ UNCHANGED <<member, gateway, up, connected, running, joined, data, scan, del, raced, counts>>

Next ==
  \/ \E g \in Guilds : Invite(g) \/ Kick(g) \/ Outage(g) \/ ScriptWrites(g)
  \/ BrokerStops \/ BrokerStarts \/ GuildCreate \/ GuildDelete
  \/ ScanStart \/ ScanCheck \/ ScanMark \/ ScanDone
  \/ DeleteStart \/ DeleteNext \/ DeleteStep
  \/ Day

Spec == Init /\ [][Next]_vars

-----------------------------------------------------------------------------

\* Every variable stays in its range, and a job holds at most one guild at a time.
TypeOK ==
  /\ member \cup connected \cup running \subseteq Guilds /\ up \in BOOLEAN
  /\ joined \in [Guilds -> {NoRow, Joined} \cup 0 .. MaxNow]
  /\ data \in [Guilds -> SUBSET Tables] /\ raced \in [Guilds -> BOOLEAN]
  /\ scan.todo \subseteq Guilds /\ Cardinality(scan.g) <= 1
  /\ del.todo \subseteq Guilds /\ Cardinality(del.g) <= 1
  /\ scan.at \in {"idle", "check", "mark"}
  /\ del.at \in {"idle", "next", "config"} \cup Tables

\* The broker has handled all that Discord has told it about the guild.
UpToDate(g) == \A i \in 1 .. Len(gateway) : gateway[i][2] # g

\* Nothing is deleted of a guild the bot is in and the broker knows of, unless the broker
\* could not record the join, or handled it while a job had the guild in hand.
MembersKeepData ==
  [][\A g \in member \cap connected :
       UpToDate(g) /\ ~(data[g] \subseteq data'[g]) => raced[g]]_vars

\* Whatever statement the deletion fails at, data of a guild is never left behind without
\* the row that lets a later run find it, with the same exceptions.
NoOrphans == \A g \in Guilds : joined[g] = NoRow /\ data[g] # {} => raced[g]
===============================================================================
