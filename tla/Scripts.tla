-------------------------------- MODULE Scripts --------------------------------
(***************************************************************************)
(* The scripts and plugins of one guild, from the routes of the web api    *)
(* (cmd/webapi/src/routes/scripts.rs, plugins.rs) and the config store     *)
(* (components/stores/src/postgres/config.rs) through the session that     *)
(* loads them to the command manager that tells Discord of their commands. *)
(***************************************************************************)
EXTENDS CommandMerge

CONSTANTS Callers,      \* requests the api serves at the same time
          Authors,      \* those of the plugin's author
          Names,        \* names of scripts
          Meta,         \* what running a source declares (its ScriptMeta), by source
          LIMIT,        \* GUILD_SCRIPT_COUNT_LIMIT
          PluginLimit,  \* the 50 of create_plugin
          MaxReqs,      \* bound: requests
          MaxReloads,   \* bound: reloads asked for
          MaxFails      \* bound: failed calls of the store or of Discord

ASSUME ScriptsAssumption == {LIMIT, PluginLimit} \subseteq Nat

VARIABLES rows,      \* guild_scripts of the guild
          next_id,   \* the sequence of its ids
          req,       \* what each caller has read and not yet acted on
          plugins,   \* how many plugins the user has
          plugin,    \* one of them: whether it is public, its dev and its published source
          reload,    \* a ReloadScripts waits at the guild handler
          session,   \* VmSession::scripts
          starts,    \* ScriptStarted messages on their way to the session
          loaded,    \* LoadedScript events on their way to the manager
          manager,   \* the command manager: its pending group, and what it has listed
          cached,    \* cached_commands
          discord,   \* the commands Discord has
          lost,      \* history: a write that is not retried has failed
          dirty,     \* history: the rows were changed after the session last read them
          reqs, reloads, fails
api == <<req, plugins, plugin, reqs>>
mgr == <<manager, cached, discord>>
vars == <<rows, next_id, api, reload, session, starts, loaded, mgr, lost, dirty, reloads, fails>>

Idle == [op |-> "idle"]
Sources == DOMAIN Meta
\* The contributions of a row: none yet, or those of the source that ran last.
Nothing == "nothing"
MetaOf(src) == IF src = Nothing THEN [commands |-> <<>>, groups |-> <<>>] ELSE Meta[src]

\* Every list of contributions a guild may have, what it is merged to, and whether all
\* commands are there.
Lists == UNION {[1 .. n -> Sources \cup {Nothing}] : n \in 0 .. LIMIT + Cardinality(Callers)}
MergeTable ==
  LET metas(list) == [i \in DOMAIN list |-> MetaOf(list[i])]
      cmds(list) == merge_script_commands([i \in DOMAIN list |-> to_twilight_commands(MetaOf(list[i]))])
  IN {[list |-> list, cmds |-> cmds(list), all |-> MergesAll(metas(list), cmds(list))] : list \in Lists}
Entry(list) == CHOOSE e \in MergeTable : e.list = list
Merged(list) == Entry(list).cmds

Init ==
  /\ rows = {} /\ next_id = 1
  /\ req = [c \in Callers |-> Idle] /\ plugins = 1 /\ plugin = [public |-> FALSE, dev |-> {}, published |-> {}]
  /\ reload = FALSE /\ session = {} /\ starts = <<>> /\ loaded = FALSE
  /\ manager = [group |-> "none", at |-> "idle", listed |-> <<>>]
  /\ cached = {} /\ discord = <<>> /\ lost = FALSE /\ dirty = FALSE
  /\ reqs = 0 /\ reloads = 0 /\ fails = 0

Fail == fails < MaxFails /\ fails' = fails + 1

\* get_guild_script_count
get_guild_script_count == Cardinality(rows)

\* list_scripts has no order of its own.
list_scripts == {[i \in DOMAIN order |-> order[i].contrib] : order \in SetToSeqs(rows)}

-----------------------------------------------------------------------------

pipeline == <<reload, session, starts, loaded, mgr, lost, reloads, fails>>

\* A request arrives at an idle caller.
Arrive(c) == req[c] = Idle /\ reqs < MaxReqs /\ reqs' = reqs + 1
\* A request is answered.
Answer(c) == req' = [req EXCEPT ![c] = Idle]

\* Slip: the limit is not looked at.
CountUnchecked(c) ==
  /\ Arrive(c)
  /\ \E name \in Names, src \in Sources, enabled \in BOOLEAN :
       req' = [req EXCEPT ![c] = [op |-> "insert", name |-> name, src |-> src, enabled |-> enabled]]
  /\ UNCHANGED <<rows, next_id, plugins, plugin, dirty, pipeline>>

\* create_guild_script, inner_create_script: the scripts are counted ..
CreateCount(c) ==
  /\ Arrive(c) /\ ~(get_guild_script_count > LIMIT)
  /\ \E name \in Names, src \in Sources, enabled \in BOOLEAN :
       req' = [req EXCEPT ![c] = [op |-> "insert", name |-> name, src |-> src, enabled |-> enabled]]
  /\ UNCHANGED <<rows, next_id, plugins, plugin, dirty, pipeline>>

\* inner_create_script, the insert.  A name may be taken: the unique index holds plugin_id,
\* which is null here.
inner_create_script(name, src, enabled) ==
  /\ rows' = rows \cup {[id |-> next_id, name |-> name, src |-> src, enabled |-> enabled,
                         plugin |-> FALSE, contrib |-> Nothing]}
  /\ next_id' = next_id + 1

\* .. and the row is inserted.
CreateInsert(c) ==
  /\ req[c].op = "insert" /\ Answer(c)
  /\ inner_create_script(req[c].name, req[c].src, req[c].enabled)
  /\ dirty' = TRUE
  /\ UNCHANGED <<plugins, plugin, reqs, pipeline>>

\* update_script: the source or the switch of one row.
update_script(r, src, enabled) ==
  rows' = (rows \ {r}) \cup {[r EXCEPT !.src = src, !.enabled = enabled]}

\* update_guild_script
Update(c) ==
  /\ Arrive(c)
  /\ \E r \in rows, src \in Sources, enabled \in BOOLEAN :
       /\ <<src, enabled>> # <<r.src, r.enabled>>
       /\ update_script(r, src, enabled)
  /\ dirty' = TRUE
  /\ UNCHANGED <<next_id, req, plugins, plugin, pipeline>>

\* delete_guild_script: the row is read by its id ..
DeleteGet(c) ==
  /\ Arrive(c)
  /\ \E r \in rows : req' = [req EXCEPT ![c] = [op |-> "delete", id |-> r.id, name |-> r.name]]
  /\ UNCHANGED <<rows, next_id, plugins, plugin, dirty, pipeline>>

\* del_script
del_script(name) == rows' = {r \in rows : r.name # name}

\* .. and deleted by its name.
DeleteByName(c) ==
  /\ req[c].op = "delete" /\ Answer(c)
  /\ del_script(req[c].name)
  /\ dirty' = (dirty \/ rows' # rows)
  /\ UNCHANGED <<next_id, plugins, plugin, reqs, pipeline>>

-----------------------------------------------------------------------------

scriptsOnly == <<rows, next_id, dirty>>

\* Slip: one more than the limit is let through.
CreatePluginTooMany(c) ==
  /\ Arrive(c) /\ ~(plugins > PluginLimit + 1)
  /\ req' = [req EXCEPT ![c] = [op |-> "plugin"]]
  /\ UNCHANGED <<scriptsOnly, plugins, plugin, pipeline>>

\* create_plugin: the plugins of the user are listed ..
CreatePluginList(c) ==
  /\ Arrive(c) /\ ~(plugins > PluginLimit)
  /\ req' = [req EXCEPT ![c] = [op |-> "plugin"]]
  /\ UNCHANGED <<scriptsOnly, plugins, plugin, pipeline>>

\* .. and the new one is stored.
CreatePlugin(c) ==
  /\ req[c].op = "plugin" /\ Answer(c) /\ plugins' = plugins + 1
  /\ UNCHANGED <<scriptsOnly, plugin, reqs, pipeline>>

\* plugin_middleware, fetch_plugin: the plugin is read.  The routes behind it that change
\* it are for its author.
FetchPlugin(c) ==
  /\ Arrive(c) /\ c \in Authors
  /\ \E op \in {"meta", "dev", "publish"} : req' = [req EXCEPT ![c] = [op |-> op]]
  /\ UNCHANGED <<scriptsOnly, plugins, plugin, pipeline>>

\* update_plugin_meta
UpdatePluginMeta(c) ==
  /\ req[c].op = "meta" /\ Answer(c)
  /\ plugin' = [plugin EXCEPT !.public = ~@]
  /\ UNCHANGED <<scriptsOnly, plugins, reqs, pipeline>>

\* update_script_plugin_dev_version
update_script_plugin_dev_version(src) == plugin' = [plugin EXCEPT !.dev = {src}]

\* update_plugin_dev_source
UpdatePluginDevSource(c) ==
  /\ req[c].op = "dev" /\ Answer(c)
  /\ \E src \in Sources : update_script_plugin_dev_version(src)
  /\ UNCHANGED <<scriptsOnly, plugins, reqs, pipeline>>

\* publish_script_plugin_version: the plugin gets its new source, ..
Publish(c) ==
  /\ req[c].op = "publish"
  /\ \E src \in Sources :
       /\ plugin' = [plugin EXCEPT !.published = {src}]
       /\ req' = [req EXCEPT ![c] = [op |-> "spread", src |-> src]]
  /\ UNCHANGED <<scriptsOnly, plugins, reqs, pipeline>>

\* .. then every script made from it, whose guilds are returned.
publish_script_plugin_version(src) ==
  rows' = {IF r.plugin THEN [r EXCEPT !.src = src] ELSE r : r \in rows}

\* publish_plugin_version, after the first statement: the vms of those guilds restart.
PublishSpread(c) ==
  LET hit == \E r \in rows : r.plugin
  IN /\ req[c].op = "spread" /\ Answer(c)
     /\ publish_script_plugin_version(req[c].src)
     /\ reload' = (reload \/ hit) /\ dirty' = (dirty \/ hit)
     /\ UNCHANGED <<next_id, plugins, plugin, reqs, session, starts, loaded, mgr, lost, reloads, fails>>

\* guild_add_plugin: a user who may see the plugin adds it ..
AddPluginFetch(c) ==
  /\ Arrive(c) /\ (plugin.public \/ c \in Authors)
  /\ req' = [req EXCEPT ![c] = [op |-> "add"]]
  /\ UNCHANGED <<scriptsOnly, plugins, plugin, pipeline>>

\* The plugin is not there yet, and there is room for one more script.
CanAddPlugin == (\A r \in rows : ~r.plugin) /\ ~(get_guild_script_count > LIMIT)

\* try_guild_add_script_plugin looks for a script with the plugin and inserts one.  The
\* transaction is dropped without a commit: the row goes, the sequence stays.
try_guild_add_script_plugin ==
  CanAddPlugin /\ next_id' = next_id + 1 /\ UNCHANGED rows

\* .. and the vm restarts, or an error is answered.
AddPlugin(c) ==
  /\ req[c].op = "add" /\ Answer(c)
  /\ \/ try_guild_add_script_plugin /\ reload' = TRUE
     \/ ~CanAddPlugin /\ UNCHANGED <<rows, next_id, reload>>
  /\ UNCHANGED <<dirty, plugins, plugin, reqs, session, starts, loaded, mgr, lost, reloads, fails>>

-----------------------------------------------------------------------------

\* reload_guild_vm: the guild handler is told.
Reload ==
  /\ reloads < MaxReloads /\ reloads' = reloads + 1 /\ reload' = TRUE
  /\ UNCHANGED <<rows, next_id, api, session, starts, loaded, mgr, lost, dirty, fails>>

\* reload_guild_scripts: the session lists the scripts, again after 10 s when that fails,
\* and loads the enabled ones into a new vm, which reports each of them.
LoadScripts ==
  LET on == {r \in rows : r.enabled}
  IN /\ reload /\ reload' = FALSE
     /\ session' = {r.id : r \in on} /\ dirty' = FALSE
     /\ \E order \in SetToSeqs({[id |-> r.id, src |-> r.src] : r \in on}) : starts' = starts \o order
     /\ UNCHANGED <<rows, next_id, api, loaded, mgr, lost, reloads, fails>>

\* script_loaded: what the script contributes is stored, if its row is still there, and the
\* manager is told in any case.
ScriptLoaded ==
  LET s == Head(starts)
      hit == {r \in rows : r.id = s.id}
  IN /\ starts # <<>> /\ starts' = Tail(starts) /\ loaded' = TRUE
     /\ \/ /\ rows' = (rows \ hit) \cup
                        {[r EXCEPT !.contrib = s.src] : r \in hit}
           /\ UNCHANGED <<lost, fails>>
        \/ Fail /\ lost' = TRUE /\ UNCHANGED rows
     /\ UNCHANGED <<next_id, api, reload, session, mgr, dirty, reloads>>

-----------------------------------------------------------------------------

mgrOnly == <<rows, next_id, api, reload, session, starts, dirty, reloads>>

\* handle_evt: the first event of a guild starts its group.
HandleEvt ==
  /\ loaded /\ loaded' = FALSE /\ manager.at = "idle"
  /\ manager' = [manager EXCEPT !.group = IF @ = "none" THEN "young" ELSE @]
  /\ UNCHANGED <<mgrOnly, cached, discord, lost, fails>>

\* The group is 10 s old.
Ripen ==
  /\ manager.group = "young" /\ manager' = [manager EXCEPT !.group = "old"]
  /\ UNCHANGED <<mgrOnly, loaded, cached, discord, lost, fails>>

\* Slip: a group whose scripts could not be listed is dropped.
DropOnError ==
  /\ manager.at = "idle" /\ manager.group = "old"
  /\ \/ /\ \E order \in list_scripts : manager' = [group |-> "none", at |-> "listed", listed |-> order]
        /\ UNCHANGED fails
     \/ Fail /\ manager' = [manager EXCEPT !.group = "none"]
  /\ UNCHANGED <<mgrOnly, loaded, cached, discord, lost>>

\* handle_tick, of a group that is old enough: all scripts are listed, or the group stays.
HandleTick ==
  /\ manager.at = "idle" /\ manager.group = "old"
  /\ \/ /\ \E order \in list_scripts : manager' = [group |-> "none", at |-> "listed", listed |-> order]
        /\ UNCHANGED fails
     \/ Fail /\ UNCHANGED manager
  /\ UNCHANGED <<mgrOnly, loaded, cached, discord, lost>>

\* update_guild_commands: what has not changed is not sent.  A failure is not retried, and
\* cached like a success.
UpdateCommands ==
  LET merged == Merged(manager.listed)
  IN /\ manager.at = "listed" /\ manager' = [manager EXCEPT !.at = "idle", !.listed = <<>>]
     /\ cached' = {merged}
     /\ \/ merged \in cached /\ UNCHANGED <<discord, lost, fails>>
        \/ merged \notin cached /\ discord' = merged /\ UNCHANGED <<lost, fails>>
        \/ merged \notin cached /\ Fail /\ lost' = TRUE /\ UNCHANGED discord
     /\ UNCHANGED <<mgrOnly, loaded>>

Manager == HandleEvt \/ HandleTick \/ UpdateCommands

Request(c) ==
  \/ CreateCount(c) \/ Update(c) \/ DeleteGet(c)
  \/ CreatePluginList(c) \/ FetchPlugin(c) \/ AddPluginFetch(c)
Proceed(c) ==
  \/ CreateInsert(c) \/ DeleteByName(c)
  \/ CreatePlugin(c) \/ UpdatePluginMeta(c) \/ UpdatePluginDevSource(c) \/ Publish(c) \/ PublishSpread(c) \/ AddPlugin(c)

Next ==
  \/ \E c \in Callers : Request(c) \/ Proceed(c)
  \/ Reload \/ LoadScripts \/ ScriptLoaded
  \/ Manager \/ Ripen

\* The tasks of the session and of the manager go on, and so does the clock.
Spec ==
  Init /\ [][Next]_vars
       /\ WF_vars(LoadScripts) /\ WF_vars(ScriptLoaded)
       /\ WF_vars(Manager) /\ WF_vars(HandleEvt) /\ WF_vars(Ripen)

-----------------------------------------------------------------------------

\* Every variable stays in its range, and ids are never given out twice.
TypeOK ==
  /\ \A r, s \in rows : r.id = s.id => r = s
  /\ \A r \in rows : r.id < next_id /\ r.src \in Sources /\ r.contrib \in Sources \cup {Nothing}
  /\ session \subseteq 1 .. next_id
  /\ manager.group \in {"none", "young", "old"} /\ manager.at \in {"idle", "listed"}
  /\ Cardinality(cached) <= 1 /\ {reload, loaded, lost, dirty} \subseteq BOOLEAN

\* However the count of one request and the insert of another interleave, a guild has at
\* most one script beyond the limit for every request served at a time.
ScriptLimit == Cardinality(rows) <= LIMIT + Cardinality(Callers)

\* The same for the plugins of a user.
UserPluginLimit == plugins <= PluginLimit + Cardinality(Callers)

\* In whatever order the store lists the scripts, the merge has the commands all of them
\* declared when they last ran, each once.
CommandsComplete ==
  \A list \in list_scripts : Entry(list).all

\* Once the rows stay as they were when the session last read them, every enabled script's
\* row says what that script contributes, and Discord has the commands of all rows, unless
\* a write that is not retried failed, or there was no script to run.
CommandsConverge ==
  <>[](\/ dirty \/ lost \/ session = {}
       \/ /\ discord \in {Merged(list) : list \in list_scripts}
          /\ \A r \in rows : r.enabled => r.contrib = r.src)
=============================================================================
