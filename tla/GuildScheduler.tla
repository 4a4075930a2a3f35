---------------------------- MODULE GuildScheduler ----------------------------
(***************************************************************************)
(* The scheduler's main loop (cmd/scheduler/src/scheduler.rs) and the      *)
(* life of the guild handler tasks it starts (guild_handler.rs).  The      *)
(* scheduler owns a map of guild handles; a handler task reads commands    *)
(* from its inbox and tells the scheduler when its vm was forcibly shut    *)
(* down, and that it has ended by dropping its channel.                    *)
(*                                                                         *)
(* queued_events is one Vec in the code; only its restriction to a guild   *)
(* is ever looked at, so it is a sequence per guild here.  pending_starts  *)
(* is a Vec in which a guild occurs at most once and whose order is never  *)
(* used: a set.                                                            *)
(***************************************************************************)
EXTENDS Integers, Sequences

CONSTANTS
  Guilds,
  MaxCommands,  \* bound on the events and reloads the scheduler handles
  Busy,         \* the guilds that get events and are told to reload their scripts
  Faulty        \* the guilds whose handler is stopped by force or panics

ASSUME SchedulerAssumption == MaxCommands \in Nat

VARIABLES
  phase,           \* running, draining (wait_all_shutdown), done
  turn,            \* poll: the handles are polled next; cmd: then the commands
  link,            \* the broker connection, as the commands so far tell it
  members,         \* the guilds the broker has said the bot is in
  guilds,          \* per guild: its handle and the task behind it
  queued_events,   \* per guild: events that wait for a handler
  pending_starts,  \* guilds to start when their old handler is gone
  suspended,       \* per guild: no, active, expired (the time is over)
  seen,            \* per guild: the last event a handler dispatched
  commands         \* number of events and reloads handled; numbers the events

vars == <<phase, turn, link, members, guilds, queued_events, pending_starts,
          suspended, seen, commands>>

Event(n) == [cmd |-> "event", n |-> n]
ReloadScripts == [cmd |-> "reload", n |-> 0]
Shutdown == [cmd |-> "shutdown", n |-> 0]
GuildCommand == [cmd : {"event", "reload", "shutdown"}, n : Nat]

\* tx: the sender in the handle (taken: None).  task: the handler task; once it
\* has finished its event channel is dropped, once closed its inbox too.  end: why
\* it left its loop.  evt: a VmSessionEvent is in the channel.
GuildHandle == [tx : {"some", "taken"},
                task : {"running", "stopping", "finished", "closed"},
                end : {"no", "shutdown", "forced", "panic"},
                evt : BOOLEAN,
                inbox : Seq(GuildCommand)]

\* A guild that has no entry in the map, and a fresh entry.
NoHandle == [tx |-> "none", task |-> "none", end |-> "no", evt |-> FALSE, inbox |-> <<>>]
NewHandle == [tx |-> "some", task |-> "running", end |-> "no", evt |-> FALSE, inbox |-> <<>>]

Gone(h) == h.task \in {"finished", "closed"}
Ready(h) == h.evt \/ Gone(h)

Init ==
  /\ phase = "running" /\ turn = "poll" /\ link = "down"
  /\ members = {}
  /\ guilds = [g \in Guilds |-> NoHandle]
  /\ queued_events = [g \in Guilds |-> <<>>]
  /\ pending_starts = {}
  /\ suspended = [g \in Guilds |-> "no"]
  /\ seen = [g \in Guilds |-> 0]
  /\ commands = 0

-----------------------------------------------------------------------------
(* Helpers of the scheduler *)

GetOrStart(h) == IF h = NoHandle THEN NewHandle ELSE h

\* tx.send: fails when the receiver is gone.
Receives(h) == h.tx = "some" /\ h.task # "closed"
Sent(h, cmds) == IF Receives(h) THEN [h EXCEPT !.inbox = @ \o cmds] ELSE h

\* Slip: the sender stays in the handle.
ShutDownKeepingTx(h) == Sent(h, <<Shutdown>>)

\* shutdown_all on one handle, also what a GuildDelete does: take tx, send Shutdown.
ShutDown(h) == IF h.tx = "some" THEN [Sent(h, <<Shutdown>>) EXCEPT !.tx = "taken"] ELSE h

\* try_unsuspend_guild: the guild may run, and what becomes of its suspension.
MayRun(g) == suspended[g] # "active"
Unsuspend(g) == [suspended EXCEPT ![g] = IF @ = "expired" THEN "no" ELSE @]

\* send_or_queue_broker_evt
SendOrQueue(g, evt) ==
  LET h == GetOrStart(guilds[g])
  IN /\ guilds' = [guilds EXCEPT ![g] = Sent(h, <<evt>>)]
     /\ queued_events' = IF Receives(h) THEN queued_events
                         ELSE [queued_events EXCEPT ![g] = Append(@, evt)]

\* Slip: the queue is taken from its end and not turned back.
RemoveAndRestartReversed(g) ==
  LET q == queued_events[g]
  IN /\ guilds' = [guilds EXCEPT ![g] =
          IF g \in pending_starts \/ q # <<>>
            THEN Sent(NewHandle, [k \in 1..Len(q) |-> q[Len(q) + 1 - k]])
            ELSE NoHandle]
     /\ pending_starts' = pending_starts \ {g}
     /\ queued_events' = [queued_events EXCEPT ![g] = <<>>]

\* guilds.remove and check_queue_start_worker: the events and the start that
\* waited for the old handler go to a new one.
RemoveAndRestart(g) ==
  /\ guilds' = [guilds EXCEPT ![g] =
       IF g \in pending_starts \/ queued_events[g] # <<>>
         THEN Sent(NewHandle, queued_events[g])
         ELSE NoHandle]
  /\ pending_starts' = pending_starts \ {g}
  /\ queued_events' = [queued_events EXCEPT ![g] = <<>>]

-----------------------------------------------------------------------------
(* The loop: guild handles are polled before the command channel *)

NothingReady ==
  /\ phase = "running" /\ turn = "poll"
  /\ \A g \in Guilds : ~Ready(guilds[g])
  /\ turn' = "cmd"
  /\ UNCHANGED <<phase, link, members, guilds, queued_events, pending_starts,
                 suspended, seen, commands>>

\* Slip: only an event of a handler wakes the scheduler, not its end.
WokenByEvent ==
  /\ turn = "cmd" /\ \E g \in Guilds : guilds[g].evt
  /\ turn' = "poll"
  /\ UNCHANGED <<phase, link, members, guilds, queued_events, pending_starts,
                 suspended, seen, commands>>

\* No command came: woken by a handle, the future polls from the start again.
WokenByHandle ==
  /\ turn = "cmd" /\ \E g \in Guilds : Ready(guilds[g])
  /\ turn' = "poll"
  /\ UNCHANGED <<phase, link, members, guilds, queued_events, pending_starts,
                 suspended, seen, commands>>

\* handle_guild_handler_event and mark_guild_as_suspended; wait_all_shutdown
\* ignores the event.
HandleGuildHandlerEvent(g) ==
  /\ phase \in {"running", "draining"} /\ turn = "poll"
  /\ guilds[g].evt
  /\ guilds' = [guilds EXCEPT ![g].evt = FALSE]
  /\ \/ /\ phase = "running"
        /\ suspended' = [suspended EXCEPT ![g] = "active"]
        /\ pending_starts' = pending_starts \ {g}
        /\ queued_events' = [queued_events EXCEPT ![g] = <<>>]
     \/ /\ phase = "draining"
        /\ UNCHANGED <<suspended, pending_starts, queued_events>>
  /\ UNCHANGED <<phase, turn, link, members, seen, commands>>

\* The handler's channel is empty and dropped: run removes the handle.
HandlerGone(g) ==
  /\ phase = "running" /\ turn = "poll"
  /\ ~guilds[g].evt /\ Gone(guilds[g])
  /\ \/ MayRun(g) /\ RemoveAndRestart(g)
     \/ /\ ~MayRun(g)
        /\ guilds' = [guilds EXCEPT ![g] = NoHandle]
        /\ UNCHANGED <<pending_starts, queued_events>>
  /\ suspended' = Unsuspend(g)
  /\ UNCHANGED <<phase, turn, link, members, seen, commands>>

\* ... and so does wait_all_shutdown, until the map is empty.
HandlerGoneDraining(g) ==
  /\ phase = "draining"
  /\ ~guilds[g].evt /\ Gone(guilds[g])
  /\ RemoveAndRestart(g)
  /\ phase' = IF \A x \in Guilds : guilds'[x] = NoHandle THEN "done" ELSE phase
  /\ UNCHANGED <<turn, link, members, suspended, seen, commands>>

-----------------------------------------------------------------------------
(* handle_scheduler_command *)

TakeCommand == phase = "running" /\ turn = "cmd" /\ turn' = "poll"

BrokerConnected ==
  /\ TakeCommand
  /\ link = "down" /\ link' = "connected"
  /\ UNCHANGED <<phase, members, guilds, queued_events, pending_starts, suspended,
                 seen, commands>>

\* All handlers are shut down, then every connected guild that is not suspended
\* is started, or scheduled to start when its old handler is gone.
BrokerHello(connected_guilds) ==
  LET started == {g \in connected_guilds : MayRun(g)}
      down == [g \in Guilds |-> ShutDown(guilds[g])]
  IN /\ TakeCommand
     /\ link = "connected" /\ link' = "up"
     /\ members' = connected_guilds
     /\ guilds' = [g \in Guilds |-> IF g \in started THEN GetOrStart(down[g]) ELSE down[g]]
     /\ pending_starts' = {g \in started : guilds'[g].tx = "taken"}
     /\ suspended' = [g \in Guilds |-> IF g \in started THEN "no" ELSE suspended[g]]
     /\ UNCHANGED <<phase, queued_events, seen, commands>>

BrokerDisconnected ==
  /\ TakeCommand
  /\ link # "down" /\ link' = "down"
  /\ guilds' = [g \in Guilds |-> ShutDown(guilds[g])]
  /\ UNCHANGED <<phase, members, queued_events, pending_starts, suspended, seen, commands>>

\* A DiscordEvent other than GuildDelete.
DiscordEvent(g) ==
  /\ TakeCommand
  /\ link = "up" /\ g \in Busy
  /\ commands < MaxCommands /\ commands' = commands + 1
  /\ members' = members \cup {g}
  /\ suspended' = Unsuspend(g)
  /\ \/ MayRun(g) /\ SendOrQueue(g, Event(commands'))
     \/ ~MayRun(g) /\ UNCHANGED <<guilds, queued_events>>
  /\ UNCHANGED <<phase, link, pending_starts, seen>>

GuildDelete(g) ==
  /\ TakeCommand
  /\ link = "up" /\ g \in members
  /\ members' = members \ {g}
  /\ suspended' = Unsuspend(g)
  /\ guilds' = IF MayRun(g) THEN [guilds EXCEPT ![g] = ShutDown(@)] ELSE guilds
  /\ UNCHANGED <<phase, link, queued_events, pending_starts, seen, commands>>

\* Slip: a reload does not look at the suspension.
ReloadAlways(g) ==
  /\ TakeCommand
  /\ g \in Busy
  /\ commands < MaxCommands /\ commands' = commands + 1
  /\ guilds' = [guilds EXCEPT ![g] = Sent(GetOrStart(@), <<ReloadScripts>>)]
  /\ UNCHANGED <<phase, link, members, queued_events, pending_starts, suspended, seen>>

\* ReloadGuildScripts.  (PurgeGuildCache sends a command handlers ignore.)
ReloadGuildScripts(g) ==
  /\ TakeCommand
  /\ g \in Busy
  /\ commands < MaxCommands /\ commands' = commands + 1
  /\ suspended' = Unsuspend(g)
  /\ guilds' = IF MayRun(g)
                 THEN [guilds EXCEPT ![g] = Sent(GetOrStart(@), <<ReloadScripts>>)]
                 ELSE guilds
  /\ UNCHANGED <<phase, link, members, queued_events, pending_starts, seen>>

\* The Shutdown command, or the last command sender dropped.
Stop ==
  /\ phase = "running" /\ turn = "cmd"
  /\ guilds' = [g \in Guilds |-> ShutDown(guilds[g])]
  /\ phase' = IF \A g \in Guilds : guilds[g] = NoHandle THEN "done" ELSE "draining"
  /\ turn' = "poll"
  /\ UNCHANGED <<link, members, queued_events, pending_starts, suspended, seen, commands>>

\* The suspension's duration is over.
SuspensionExpires(g) ==
  /\ suspended[g] = "active"
  /\ suspended' = [suspended EXCEPT ![g] = "expired"]
  /\ UNCHANGED <<phase, turn, link, members, guilds, queued_events, pending_starts,
                 seen, commands>>

-----------------------------------------------------------------------------
(* The guild handler task *)

handlerUnchanged == UNCHANGED <<phase, turn, link, members, queued_events,
                                pending_starts, suspended, commands>>

\* GuildHandler::run takes the next command; an event goes to the vm session.
HandleGuildCommand(g) ==
  LET c == Head(guilds[g].inbox)
  IN /\ guilds[g].task = "running" /\ guilds[g].inbox # <<>>
     /\ guilds' = [guilds EXCEPT ![g].inbox = Tail(@),
                                 ![g].task = IF c = Shutdown THEN "stopping" ELSE @,
                                 ![g].end = IF c = Shutdown THEN "shutdown" ELSE @]
     /\ seen' = IF c.cmd = "event" THEN [seen EXCEPT ![g] = c.n] ELSE seen
     /\ handlerUnchanged

\* The vm session reports ForciblyShutdown or TooManyInvalidRequests.
ForciblyShutdown(g) ==
  /\ g \in Faulty
  /\ guilds[g].task = "running"
  /\ guilds' = [guilds EXCEPT ![g].task = "stopping", ![g].end = "forced", ![g].evt = TRUE]
  /\ UNCHANGED seen /\ handlerUnchanged

\* The task panics in its session.
HandlerPanics(g) ==
  /\ g \in Faulty
  /\ guilds[g].task = "running"
  /\ guilds' = [guilds EXCEPT ![g].task = "finished", ![g].end = "panic"]
  /\ UNCHANGED seen /\ handlerUnchanged

\* scripts_session.shutdown() returns; scheduler_tx is dropped, then guild_rx.
HandlerFinishes(g) ==
  /\ guilds[g].task = "stopping"
  /\ guilds' = [guilds EXCEPT ![g].task = "finished"]
  /\ UNCHANGED seen /\ handlerUnchanged

InboxDropped(g) ==
  /\ guilds[g].task = "finished"
  /\ guilds' = [guilds EXCEPT ![g].task = "closed", ![g].inbox = <<>>]
  /\ UNCHANGED seen /\ handlerUnchanged

-----------------------------------------------------------------------------

Command ==
  \/ BrokerConnected
  \/ \E c \in SUBSET Guilds : BrokerHello(c)
  \/ BrokerDisconnected
  \/ \E g \in Guilds : DiscordEvent(g) \/ GuildDelete(g) \/ ReloadGuildScripts(g)
  \/ Stop

SchedulerTurn ==
  \/ NothingReady
  \/ WokenByHandle
  \/ \E g \in Guilds : HandleGuildHandlerEvent(g) \/ HandlerGone(g) \/ HandlerGoneDraining(g)

HandlerStep(g) ==
  \/ HandleGuildCommand(g)
  \/ HandlerFinishes(g)
  \/ InboxDropped(g)

Next ==
  \/ SchedulerTurn
  \/ Command
  \/ \E g \in Guilds : HandlerStep(g) \/ ForciblyShutdown(g) \/ HandlerPanics(g)
                         \/ SuspensionExpires(g)

Spec == Init /\ [][Next]_vars

\* The scheduler task and every handler task are polled while they can move.
Fairness == WF_vars(SchedulerTurn) /\ \A g \in Guilds : WF_vars(HandlerStep(g))
FairSpec == Spec /\ Fairness

-----------------------------------------------------------------------------
(* Properties *)

TypeOK ==
  /\ phase \in {"running", "draining", "done"}
  /\ turn \in {"poll", "cmd"}
  /\ link \in {"down", "connected", "up"}
  /\ members \subseteq Guilds
  /\ guilds \in [Guilds -> GuildHandle \cup {NoHandle}]
  /\ queued_events \in [Guilds -> Seq(GuildCommand)]
  /\ pending_starts \subseteq Guilds
  /\ suspended \in [Guilds -> {"no", "active", "expired"}]
  /\ seen \in [Guilds -> Nat]
  /\ commands \in Nat

Backlog(g) == g \in pending_starts \/ queued_events[g] # <<>>

\* Work is held back for a guild only while an old handler of it, which can take
\* no more commands, is still in the map: check_queue_start_worker, called when
\* the handler is removed, leaves no queued event and no start behind.
BacklogHasHandler ==
  \A g \in Guilds : Backlog(g) => guilds[g].tx = "taken" \/ guilds[g].task = "closed"

\* mark_guild_as_suspended drops what waited for the guild and nothing is added
\* while the suspension lasts.
SuspendedNoBacklog ==
  \A g \in Guilds : suspended[g] = "active" => ~Backlog(g)

\* A suspended guild does not run: no command, no finished handler and no broker
\* hello starts it again before its time is over.
SuspendedNotRunning ==
  \A g \in Guilds : suspended[g] = "active" => guilds[g].task # "running"

IsEvent(c) == c.cmd = "event"
Waiting(g) == guilds[g].inbox \o queued_events[g]

\* What a guild's vm still gets is in the order the events came in, after those
\* it has seen: also across shutdowns, restarts and the queue between them, which
\* check_queue_start_worker takes apart from its end and turns back.
EventsInOrder ==
  \A g \in Guilds : \A i \in 1..Len(Waiting(g)) :
    IsEvent(Waiting(g)[i]) =>
      /\ seen[g] < Waiting(g)[i].n
      /\ \A j \in (i + 1)..Len(Waiting(g)) :
           IsEvent(Waiting(g)[j]) => Waiting(g)[i].n < Waiting(g)[j].n

\* A handler that ends on a Shutdown command has handled every command sent to
\* it: tx is taken with the Shutdown, so nothing follows it.
ShutdownDrainsInbox ==
  \A g \in Guilds : guilds[g].end = "shutdown" => guilds[g].inbox = <<>>

\* A guild waiting for its old handler to end does not wait forever, when handlers
\* that were told to stop do.
BacklogServed == \A g \in Guilds : Backlog(g) ~> ~Backlog(g)
=============================================================================
