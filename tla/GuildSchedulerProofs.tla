------------------------- MODULE GuildSchedulerProofs -------------------------
(***************************************************************************)
(* Proofs about the scheduler's loop for any set of guilds and any number  *)
(* of commands.                                                            *)
(***************************************************************************)
EXTENDS GuildScheduler, SequenceTheorems, TLAPS

Handle == GuildHandle \cup {NoHandle}

-----------------------------------------------------------------------------
(* What the helpers do to a handle *)

LEMMA HandleTypes ==
  /\ NoHandle \in Handle /\ NewHandle \in GuildHandle
  /\ Shutdown \in GuildCommand /\ ReloadScripts \in GuildCommand
  /\ <<Shutdown>> \in Seq(GuildCommand) /\ <<ReloadScripts>> \in Seq(GuildCommand)
  /\ \A n \in Nat : Event(n) \in GuildCommand /\ <<Event(n)>> \in Seq(GuildCommand)
  /\ <<>> \in Seq(GuildCommand)
<1>1. /\ Shutdown \in GuildCommand /\ ReloadScripts \in GuildCommand
      /\ \A n \in Nat : Event(n) \in GuildCommand
  BY DEF GuildCommand, Shutdown, ReloadScripts, Event
<1>2. \A c \in GuildCommand : <<c>> \in Seq(GuildCommand)
  OBVIOUS
<1>3. NoHandle \in Handle /\ NewHandle \in GuildHandle
  BY DEF Handle, NoHandle, NewHandle, GuildHandle
<1> QED BY <1>1, <1>2, <1>3

\* Setting and clearing the event of a handle.
LEMMA EvtType ==
  ASSUME NEW h \in GuildHandle, NEW b \in BOOLEAN
  PROVE  [h EXCEPT !.evt = b] \in GuildHandle
BY DEF GuildHandle

LEMMA GetOrStartType ==
  ASSUME NEW h \in Handle
  PROVE  GetOrStart(h) \in GuildHandle
BY HandleTypes DEF GetOrStart, Handle

LEMMA SentType ==
  ASSUME NEW h \in Handle, NEW cmds \in Seq(GuildCommand)
  PROVE  /\ Sent(h, cmds) \in Handle
         /\ h \in GuildHandle => Sent(h, cmds) \in GuildHandle
<1>1. CASE Receives(h)
  <2>1. h \in GuildHandle
    BY <1>1 DEF Receives, Handle, NoHandle
  <2>2. h.inbox \o cmds \in Seq(GuildCommand)
    BY <2>1 DEF GuildHandle
  <2> QED BY <1>1, <2>1, <2>2 DEF Sent, GuildHandle, Handle
<1>2. CASE ~Receives(h)
  BY <1>2 DEF Sent
<1> QED BY <1>1, <1>2

LEMMA ShutDownType ==
  ASSUME NEW h \in Handle
  PROVE  ShutDown(h) \in Handle
<1>1. CASE h.tx = "some"
  <2>1. h \in GuildHandle
    BY <1>1 DEF Handle, NoHandle
  <2>2. Sent(h, <<Shutdown>>) \in GuildHandle
    BY <2>1, HandleTypes, SentType DEF Handle
  <2> QED BY <1>1, <2>2 DEF ShutDown, GuildHandle, Handle
<1>2. CASE h.tx # "some"
  BY <1>2 DEF ShutDown
<1> QED BY <1>1, <1>2

LEMMA RestartType ==
  ASSUME TypeOK, NEW g \in Guilds, RemoveAndRestart(g)
  PROVE  /\ guilds' \in [Guilds -> Handle]
         /\ queued_events' \in [Guilds -> Seq(GuildCommand)]
         /\ pending_starts' \subseteq Guilds
<1>1. Sent(NewHandle, queued_events[g]) \in Handle
  BY HandleTypes, SentType DEF TypeOK, Handle
<1>2. guilds' \in [Guilds -> Handle]
  BY <1>1, HandleTypes DEF RemoveAndRestart, TypeOK, Handle
<1>3. /\ queued_events' \in [Guilds -> Seq(GuildCommand)]
      /\ pending_starts' \subseteq Guilds
  BY DEF RemoveAndRestart, TypeOK
<1> QED BY <1>2, <1>3

LEMMA UnsuspendType ==
  ASSUME TypeOK, NEW g \in Guilds
  PROVE  Unsuspend(g) \in [Guilds -> {"no", "active", "expired"}]
BY DEF TypeOK, Unsuspend

-----------------------------------------------------------------------------
(* Type correctness *)

LEMMA TypeStep == TypeOK /\ [Next]_vars => TypeOK'
<1> SUFFICES ASSUME TypeOK, [Next]_vars PROVE TypeOK'
  OBVIOUS
<1> USE DEF Handle
<1>1. CASE NothingReady
  BY <1>1 DEF NothingReady, TypeOK
<1>2. CASE WokenByHandle
  BY <1>2 DEF WokenByHandle, TypeOK
<1>3. ASSUME NEW g \in Guilds, HandleGuildHandlerEvent(g) PROVE TypeOK'
  <2>0. guilds[g] \in GuildHandle
    BY <1>3 DEF HandleGuildHandlerEvent, TypeOK, NoHandle
  <2>1. guilds' \in [Guilds -> Handle]
    BY <1>3, <2>0, EvtType DEF HandleGuildHandlerEvent, TypeOK
  <2>2. /\ suspended' \in [Guilds -> {"no", "active", "expired"}]
        /\ queued_events' \in [Guilds -> Seq(GuildCommand)]
        /\ pending_starts' \subseteq Guilds
    <3>1. CASE phase = "running"
      <4>1. /\ suspended' = [suspended EXCEPT ![g] = "active"]
            /\ pending_starts' = pending_starts \ {g}
            /\ queued_events' = [queued_events EXCEPT ![g] = <<>>]
        BY <1>3, <3>1 DEF HandleGuildHandlerEvent
      <4> QED BY <4>1, HandleTypes DEF TypeOK
    <3>2. CASE phase = "draining"
      BY <1>3, <3>2 DEF HandleGuildHandlerEvent, TypeOK
    <3> QED BY <1>3, <3>1, <3>2 DEF HandleGuildHandlerEvent
  <2> QED BY <1>3, <2>1, <2>2 DEF HandleGuildHandlerEvent, TypeOK
<1>4. ASSUME NEW g \in Guilds, HandlerGone(g) PROVE TypeOK'
  <2>1. /\ guilds' \in [Guilds -> Handle]
        /\ queued_events' \in [Guilds -> Seq(GuildCommand)]
        /\ pending_starts' \subseteq Guilds
    BY <1>4, RestartType, HandleTypes DEF HandlerGone, TypeOK
  <2> QED BY <1>4, <2>1, UnsuspendType DEF HandlerGone, TypeOK
<1>5. ASSUME NEW g \in Guilds, HandlerGoneDraining(g) PROVE TypeOK'
  <2>1. /\ guilds' \in [Guilds -> Handle]
        /\ queued_events' \in [Guilds -> Seq(GuildCommand)]
        /\ pending_starts' \subseteq Guilds
    BY <1>5, RestartType DEF HandlerGoneDraining
  <2> QED BY <1>5, <2>1 DEF HandlerGoneDraining, TypeOK
<1>6. CASE BrokerConnected
  BY <1>6 DEF BrokerConnected, TakeCommand, TypeOK
<1>7. ASSUME NEW c \in SUBSET Guilds, BrokerHello(c) PROVE TypeOK'
  <2>1. \A g \in Guilds : ShutDown(guilds[g]) \in Handle /\ GetOrStart(ShutDown(guilds[g])) \in Handle
    BY ShutDownType, GetOrStartType DEF TypeOK
  <2>2. guilds' \in [Guilds -> Handle]
    BY <1>7, <2>1 DEF BrokerHello
  <2>3. /\ pending_starts' \subseteq Guilds
        /\ suspended' \in [Guilds -> {"no", "active", "expired"}]
    BY <1>7 DEF BrokerHello, TypeOK
  <2> QED BY <1>7, <2>2, <2>3 DEF BrokerHello, TakeCommand, TypeOK
<1>8. CASE BrokerDisconnected
  <2>1. guilds' \in [Guilds -> Handle]
    BY <1>8, ShutDownType DEF BrokerDisconnected, TypeOK
  <2> QED BY <1>8, <2>1 DEF BrokerDisconnected, TakeCommand, TypeOK
<1>9. ASSUME NEW g \in Guilds, DiscordEvent(g) PROVE TypeOK'
  <2>1. Event(commands') \in GuildCommand /\ commands' \in Nat
    BY <1>9, HandleTypes DEF DiscordEvent, TypeOK
  <2>2. Sent(GetOrStart(guilds[g]), <<Event(commands')>>) \in Handle
    <3>1. GetOrStart(guilds[g]) \in Handle
      BY GetOrStartType DEF TypeOK
    <3>2. <<Event(commands')>> \in Seq(GuildCommand)
      BY <2>1, HandleTypes
    <3> QED BY <3>1, <3>2, SentType
  <2>3. Append(queued_events[g], Event(commands')) \in Seq(GuildCommand)
    BY <2>1 DEF TypeOK
  <2>4. /\ guilds' \in [Guilds -> Handle]
        /\ queued_events' \in [Guilds -> Seq(GuildCommand)]
    BY <1>9, <2>2, <2>3, ZenonT(30) DEF DiscordEvent, SendOrQueue, TypeOK
  <2> QED BY <1>9, <2>1, <2>4, UnsuspendType DEF DiscordEvent, TakeCommand, TypeOK
<1>10. ASSUME NEW g \in Guilds, GuildDelete(g) PROVE TypeOK'
  <2>1. guilds' \in [Guilds -> Handle]
    BY <1>10, ShutDownType DEF GuildDelete, TypeOK
  <2> QED BY <1>10, <2>1, UnsuspendType DEF GuildDelete, TakeCommand, TypeOK
<1>11. ASSUME NEW g \in Guilds, ReloadGuildScripts(g) PROVE TypeOK'
  <2>1. Sent(GetOrStart(guilds[g]), <<ReloadScripts>>) \in Handle
    <3>1. GetOrStart(guilds[g]) \in Handle
      BY GetOrStartType DEF TypeOK
    <3> QED BY <3>1, HandleTypes, SentType
  <2>2. guilds' \in [Guilds -> Handle] /\ commands' \in Nat
    BY <1>11, <2>1 DEF ReloadGuildScripts, TypeOK
  <2> QED BY <1>11, <2>2, UnsuspendType DEF ReloadGuildScripts, TakeCommand, TypeOK
<1>12. CASE Stop
  <2>1. guilds' \in [Guilds -> Handle]
    BY <1>12, ShutDownType DEF Stop, TypeOK
  <2> QED BY <1>12, <2>1 DEF Stop, TypeOK
<1>13. ASSUME NEW g \in Guilds, SuspensionExpires(g) PROVE TypeOK'
  BY <1>13 DEF SuspensionExpires, TypeOK
<1>14. ASSUME NEW g \in Guilds, HandleGuildCommand(g) PROVE TypeOK'
  <2>1. guilds[g] \in GuildHandle
    BY <1>14 DEF HandleGuildCommand, TypeOK, NoHandle
  <2>2. Tail(guilds[g].inbox) \in Seq(GuildCommand) /\ Head(guilds[g].inbox) \in GuildCommand
    BY <1>14, <2>1 DEF HandleGuildCommand, GuildHandle
  <2>3. guilds' \in [Guilds -> Handle]
    BY <1>14, <2>1, <2>2 DEF HandleGuildCommand, TypeOK, GuildHandle
  <2>4. seen' \in [Guilds -> Nat]
    BY <1>14, <2>2 DEF HandleGuildCommand, TypeOK, GuildCommand
  <2> QED BY <1>14, <2>3, <2>4 DEF HandleGuildCommand, handlerUnchanged, TypeOK
<1>15. ASSUME NEW g \in Guilds, ForciblyShutdown(g) \/ HandlerPanics(g) \/ HandlerFinishes(g) \/ InboxDropped(g)
       PROVE  TypeOK'
  <2>1. guilds[g] \in GuildHandle
    BY <1>15 DEF ForciblyShutdown, HandlerPanics, HandlerFinishes, InboxDropped, TypeOK, NoHandle
  <2>2. guilds' \in [Guilds -> Handle]
    <3>1. CASE ForciblyShutdown(g)
      <4>1. [guilds[g] EXCEPT !.task = "stopping", !.end = "forced", !.evt = TRUE] \in GuildHandle
        BY <2>1 DEF GuildHandle
      <4> QED BY <3>1, <4>1 DEF ForciblyShutdown, TypeOK
    <3>2. CASE HandlerPanics(g)
      BY <3>2, <2>1 DEF HandlerPanics, TypeOK, GuildHandle
    <3>3. CASE HandlerFinishes(g)
      BY <3>3, <2>1 DEF HandlerFinishes, TypeOK, GuildHandle
    <3>4. CASE InboxDropped(g)
      <4>1. [guilds[g] EXCEPT !.task = "closed", !.inbox = <<>>] \in GuildHandle
        BY <2>1, HandleTypes DEF GuildHandle
      <4> QED BY <3>4, <4>1 DEF InboxDropped, TypeOK
    <3> QED BY <1>15, <3>1, <3>2, <3>3, <3>4
  <2> QED BY <1>15, <2>2
       DEF ForciblyShutdown, HandlerPanics, HandlerFinishes, InboxDropped, handlerUnchanged, TypeOK
<1>16. CASE UNCHANGED vars
  BY <1>16 DEF vars, TypeOK
<1> QED
  BY <1>1, <1>2, <1>3, <1>4, <1>5, <1>6, <1>7, <1>8, <1>9, <1>10, <1>11, <1>12, <1>13, <1>14, <1>15, <1>16
  DEF Next, SchedulerTurn, Command, HandlerStep

\* In every reachable state of the scheduler every guild either has no entry in
\* the map or a well-formed handle, and the queues hold guild commands.
THEOREM TypeCorrect == Spec => []TypeOK
<1>1. Init => TypeOK
  BY DEF Init, TypeOK
<1> QED BY <1>1, TypeStep, PTL DEF Spec

-----------------------------------------------------------------------------
(* Suspensions and held back work *)

\* A handler that has reported a forced stop has left its loop.
EventFromStopped == \A g \in Guilds : guilds[g].evt => guilds[g].task \notin {"none", "running"}

HeldBack == BacklogHasHandler /\ SuspendedNoBacklog /\ SuspendedNotRunning /\ EventFromStopped

\* HeldBack for one guild with handle h, backlog b and suspension s.
HeldBackFor(h, b, s) ==
  /\ b => h.tx = "taken" \/ h.task = "closed"
  /\ s = "active" => ~b /\ h.task # "running"
  /\ h.evt => h.task \notin {"none", "running"}

LEMMA HeldBackPerGuild ==
  HeldBack <=> \A g \in Guilds : HeldBackFor(guilds[g], Backlog(g), suspended[g])
BY DEF HeldBack, HeldBackFor, BacklogHasHandler, SuspendedNoBacklog, SuspendedNotRunning, EventFromStopped

LEMMA SentFacts ==
  ASSUME NEW h \in Handle, NEW cmds
  PROVE  /\ Sent(h, cmds).tx = h.tx
         /\ Sent(h, cmds).task = h.task
         /\ Sent(h, cmds).end = h.end
         /\ Sent(h, cmds).evt = h.evt
         /\ Sent(h, cmds).inbox = IF Receives(h) THEN h.inbox \o cmds ELSE h.inbox
BY DEF Sent, Handle, GuildHandle, NoHandle

LEMMA ShutDownFacts ==
  ASSUME NEW h \in Handle
  PROVE  /\ ShutDown(h).tx = IF h.tx = "some" THEN "taken" ELSE h.tx
         /\ ShutDown(h).task = h.task
         /\ ShutDown(h).end = h.end
         /\ ShutDown(h).evt = h.evt
         /\ ShutDown(h).inbox = IF Receives(h) THEN h.inbox \o <<Shutdown>> ELSE h.inbox
<1>1. CASE h.tx = "some"
  <2>1. Sent(h, <<Shutdown>>) \in Handle
    BY HandleTypes, SentType
  <2>2. h # NoHandle
    BY <1>1 DEF NoHandle
  <2>3. Sent(h, <<Shutdown>>) \in GuildHandle
    BY <2>2, HandleTypes, SentType DEF Handle
  <2> QED BY <1>1, <2>3, SentFacts DEF ShutDown, GuildHandle
<1>2. CASE h.tx # "some"
  BY <1>2 DEF ShutDown, Receives
<1> QED BY <1>1, <1>2

LEMMA GetOrStartFacts ==
  ASSUME NEW h \in Handle
  PROVE  /\ h # NoHandle => GetOrStart(h) = h
         /\ h = NoHandle => GetOrStart(h) = NewHandle
         /\ h # NoHandle <=> h.tx # "none"
         /\ h # NoHandle <=> h.task # "none"
         /\ GetOrStart(h).tx \in {"some", "taken"}
         /\ ~GetOrStart(h).evt \/ GetOrStart(h) = h
BY DEF GetOrStart, Handle, GuildHandle, NoHandle, NewHandle

LEMMA HeldBackStep == TypeOK /\ HeldBack /\ [Next]_vars => HeldBack'
<1> SUFFICES ASSUME TypeOK, HeldBack, [Next]_vars
             PROVE  \A x \in Guilds : HeldBackFor(guilds[x], Backlog(x), suspended[x])'
  BY DEF HeldBack, HeldBackFor, BacklogHasHandler, SuspendedNoBacklog, SuspendedNotRunning, EventFromStopped
<1> SUFFICES ASSUME NEW x \in Guilds
             PROVE  HeldBackFor(guilds[x], Backlog(x), suspended[x])'
  OBVIOUS
<1>0. /\ HeldBackFor(guilds[x], Backlog(x), suspended[x])
      /\ \A g \in Guilds : guilds[g] \in Handle
  BY HeldBackPerGuild DEF TypeOK, Handle
<1>1. CASE UNCHANGED <<guilds, queued_events, pending_starts, suspended>>
  BY <1>0, <1>1 DEF Backlog
<1>2. ASSUME NEW g \in Guilds, HandleGuildHandlerEvent(g)
      PROVE  HeldBackFor(guilds[x], Backlog(x), suspended[x])'
  BY <1>0, <1>2 DEF HandleGuildHandlerEvent, HeldBackFor, Backlog, TypeOK, Handle, GuildHandle, NoHandle
<1>3. ASSUME NEW g \in Guilds, RemoveAndRestart(g), ~MayRun(g) => UNCHANGED suspended,
             suspended' \in {suspended, Unsuspend(g)}
      PROVE  HeldBackFor(guilds[x], Backlog(x), suspended[x])'
  <2>1. CASE x # g
    BY <1>0, <1>3, <2>1 DEF RemoveAndRestart, HeldBackFor, Backlog, TypeOK, Unsuspend
  <2>2. CASE x = g
    BY <1>0, <1>3, <2>2, HandleTypes, SentFacts
       DEF RemoveAndRestart, HeldBackFor, Backlog, TypeOK, Unsuspend, MayRun, NoHandle, NewHandle, Handle
  <2> QED BY <2>1, <2>2
<1>4. ASSUME NEW g \in Guilds, HandlerGone(g)
      PROVE  HeldBackFor(guilds[x], Backlog(x), suspended[x])'
  <2>1. CASE MayRun(g)
    BY <1>3, <1>4, <2>1 DEF HandlerGone
  <2>2. CASE ~MayRun(g)
    BY <1>0, <1>4, <2>2 DEF HandlerGone, HeldBackFor, Backlog, TypeOK, Unsuspend, MayRun, NoHandle
  <2> QED BY <2>1, <2>2
<1>5. ASSUME NEW g \in Guilds, HandlerGoneDraining(g)
      PROVE  HeldBackFor(guilds[x], Backlog(x), suspended[x])'
  BY <1>3, <1>5 DEF HandlerGoneDraining
<1>6. ASSUME NEW c \in SUBSET Guilds, BrokerHello(c)
      PROVE  HeldBackFor(guilds[x], Backlog(x), suspended[x])'
  <2>1. ShutDown(guilds[x]) \in Handle
    BY <1>0, ShutDownType
  <2>2. CASE x \in c /\ MayRun(x)
    <3>1. /\ guilds'[x] = GetOrStart(ShutDown(guilds[x]))
          /\ suspended'[x] = "no"
          /\ queued_events'[x] = queued_events[x]
          /\ x \in pending_starts' => guilds'[x].tx = "taken"
      BY <1>6, <2>2 DEF BrokerHello
    <3> QED BY <1>0, <2>1, <3>1, ShutDownFacts, GetOrStartFacts
         DEF HeldBackFor, Backlog, NewHandle, NoHandle
  <2>3. CASE ~(x \in c /\ MayRun(x))
    <3>1. /\ guilds'[x] = ShutDown(guilds[x])
          /\ suspended'[x] = suspended[x]
          /\ queued_events'[x] = queued_events[x]
          /\ x \notin pending_starts'
      BY <1>6, <2>3 DEF BrokerHello
    <3> QED BY <1>0, <2>1, <3>1, ShutDownFacts DEF HeldBackFor, Backlog
  <2> QED BY <2>2, <2>3
<1>7. CASE BrokerDisconnected \/ Stop
  <2>1. /\ guilds'[x] = ShutDown(guilds[x])
        /\ UNCHANGED <<queued_events, pending_starts, suspended>>
    BY <1>7 DEF BrokerDisconnected, Stop
  <2> QED BY <1>0, <2>1, ShutDownFacts DEF HeldBackFor, Backlog
<1>8. ASSUME NEW g \in Guilds, DiscordEvent(g)
      PROVE  HeldBackFor(guilds[x], Backlog(x), suspended[x])'
  <2>1. CASE x # g
    BY <1>0, <1>8, <2>1 DEF DiscordEvent, SendOrQueue, HeldBackFor, Backlog, TypeOK, Unsuspend
  <2>2. CASE x = g /\ ~MayRun(g)
    BY <1>0, <1>8, <2>2 DEF DiscordEvent, HeldBackFor, Backlog, TypeOK, Unsuspend, MayRun
  <2>3. CASE x = g /\ MayRun(g)
    <3>1. GetOrStart(guilds[x]) \in Handle
      BY <1>0, GetOrStartType DEF Handle
    <3>2. /\ guilds'[x] = Sent(GetOrStart(guilds[x]), <<Event(commands')>>)
          /\ suspended'[x] # "active"
          /\ UNCHANGED pending_starts
          /\ Receives(GetOrStart(guilds[x])) => UNCHANGED queued_events
      BY <1>8, <2>3 DEF DiscordEvent, SendOrQueue, TypeOK, Unsuspend, MayRun
    <3> QED BY <1>0, <3>1, <3>2, SentFacts, GetOrStartFacts
         DEF HeldBackFor, Backlog, Receives, NewHandle, NoHandle
  <2> QED BY <2>1, <2>2, <2>3
<1>9. ASSUME NEW g \in Guilds, GuildDelete(g)
      PROVE  HeldBackFor(guilds[x], Backlog(x), suspended[x])'
  <2>1. /\ guilds'[x] \in {guilds[x], ShutDown(guilds[x])}
        /\ suspended'[x] = "active" => suspended[x] = "active"
        /\ UNCHANGED <<queued_events, pending_starts>>
    BY <1>9 DEF GuildDelete, TypeOK, Unsuspend
  <2> QED BY <1>0, <2>1, ShutDownFacts DEF HeldBackFor, Backlog
<1>10. ASSUME NEW g \in Guilds, ReloadGuildScripts(g)
       PROVE  HeldBackFor(guilds[x], Backlog(x), suspended[x])'
  <2>1. CASE x # g \/ ~MayRun(g)
    BY <1>0, <1>10, <2>1 DEF ReloadGuildScripts, HeldBackFor, Backlog, TypeOK, Unsuspend, MayRun
  <2>2. CASE x = g /\ MayRun(g)
    <3>1. GetOrStart(guilds[x]) \in Handle
      BY <1>0, GetOrStartType DEF Handle
    <3>2. /\ guilds'[x] = Sent(GetOrStart(guilds[x]), <<ReloadScripts>>)
          /\ suspended'[x] # "active"
          /\ UNCHANGED <<queued_events, pending_starts>>
      BY <1>10, <2>2 DEF ReloadGuildScripts, TypeOK, Unsuspend, MayRun
    <3> QED BY <1>0, <3>1, <3>2, SentFacts, GetOrStartFacts
         DEF HeldBackFor, Backlog, NewHandle, NoHandle
  <2> QED BY <2>1, <2>2
<1>11. ASSUME NEW g \in Guilds, SuspensionExpires(g)
       PROVE  HeldBackFor(guilds[x], Backlog(x), suspended[x])'
  BY <1>0, <1>11 DEF SuspensionExpires, HeldBackFor, Backlog, TypeOK
<1>12. ASSUME NEW g \in Guilds,
              HandleGuildCommand(g) \/ ForciblyShutdown(g) \/ HandlerPanics(g)
                \/ HandlerFinishes(g) \/ InboxDropped(g)
       PROVE  HeldBackFor(guilds[x], Backlog(x), suspended[x])'
  <2>1. UNCHANGED <<queued_events, pending_starts, suspended>>
    BY <1>12 DEF HandleGuildCommand, ForciblyShutdown, HandlerPanics, HandlerFinishes, InboxDropped,
                 handlerUnchanged
  <2>2. CASE x # g
    <3>1. guilds'[x] = guilds[x]
      BY <1>12, <2>2 DEF HandleGuildCommand, ForciblyShutdown, HandlerPanics, HandlerFinishes,
                         InboxDropped, TypeOK
    <3> QED BY <1>0, <2>1, <3>1 DEF HeldBackFor, Backlog
  <2>3. CASE x = g
    <3>1. guilds[x] \in GuildHandle
      BY <1>0, <1>12, <2>3 DEF HandleGuildCommand, ForciblyShutdown, HandlerPanics, HandlerFinishes,
                               InboxDropped, Handle, NoHandle
    <3>2. /\ guilds'[x].tx = guilds[x].tx
          /\ guilds[x].task # "closed"
          /\ guilds'[x].task # "none"
          /\ guilds'[x].task = "running" => guilds[x].task = "running"
          /\ guilds'[x].task = "running" => guilds'[x].evt = guilds[x].evt
      BY <1>12, <2>3, <3>1 DEF HandleGuildCommand, ForciblyShutdown, HandlerPanics, HandlerFinishes,
                               InboxDropped, TypeOK, GuildHandle
    <3> QED BY <1>0, <2>1, <3>1, <3>2 DEF HeldBackFor, Backlog
  <2> QED BY <2>2, <2>3
<1>13. CASE NothingReady \/ WokenByHandle \/ BrokerConnected \/ UNCHANGED vars
  BY <1>1, <1>13 DEF NothingReady, WokenByHandle, BrokerConnected, vars
<1> QED
  BY <1>2, <1>4, <1>5, <1>6, <1>7, <1>8, <1>9, <1>10, <1>11, <1>12, <1>13
  DEF Next, SchedulerTurn, Command, HandlerStep

LEMMA HeldBackAlways == Spec => [](TypeOK /\ HeldBack)
<1>1. Init => HeldBack
  BY DEF Init, HeldBack, BacklogHasHandler, SuspendedNoBacklog, SuspendedNotRunning, EventFromStopped,
         Backlog, NoHandle
<1> QED BY <1>1, TypeCorrect, HeldBackStep, PTL DEF Spec

\* Events and starts are held back only for a guild whose old handler is still
\* in the map and takes no more commands, for any number of guilds and commands.
THEOREM SchedulerBacklogHasHandler == Spec => []BacklogHasHandler
BY HeldBackAlways, PTL DEF HeldBack

\* While a suspension lasts nothing is held back for the guild.
THEOREM SchedulerSuspendedNoBacklog == Spec => []SuspendedNoBacklog
BY HeldBackAlways, PTL DEF HeldBack

\* While a suspension lasts the guild has no running handler.
THEOREM SchedulerSuspendedNotRunning == Spec => []SuspendedNotRunning
BY HeldBackAlways, PTL DEF HeldBack

-----------------------------------------------------------------------------
(* The order of events, and shutdowns that lose no command *)

\* The events of s are increasing, after a and up to m.
InOrder(s, a, m) ==
  \A i \in 1..Len(s) : IsEvent(s[i]) =>
    /\ a < s[i].n /\ s[i].n <= m
    /\ \A j \in (i + 1)..Len(s) : IsEvent(s[j]) => s[i].n < s[j].n

LEMMA CommandNumbers ==
  ASSUME NEW s \in Seq(GuildCommand), NEW i \in 1..Len(s)
  PROVE  s[i] \in GuildCommand /\ s[i].n \in Nat
<1>1. s[i] \in GuildCommand
  OBVIOUS
<1> QED BY <1>1 DEF GuildCommand

LEMMA InOrderAppend ==
  ASSUME NEW s \in Seq(GuildCommand), NEW a \in Nat, NEW m \in Nat, NEW c \in GuildCommand,
         InOrder(s, a, m), a <= m, IsEvent(c) => c.n = m + 1
  PROVE  /\ InOrder(s, a, m + 1)
         /\ InOrder(Append(s, c), a, m + 1)
         /\ ~IsEvent(c) => InOrder(Append(s, c), a, m)
<1>1. \A i \in 1..Len(s) : s[i].n \in Nat
  BY CommandNumbers
<1>2. c.n \in Nat
  BY DEF GuildCommand
<1>3. /\ Len(Append(s, c)) = Len(s) + 1
      /\ Append(s, c)[Len(s) + 1] = c
      /\ \A i \in 1..Len(s) : Append(s, c)[i] = s[i]
  OBVIOUS
<1>4. InOrder(s, a, m + 1)
  BY <1>1 DEF InOrder
<1>5. InOrder(Append(s, c), a, m + 1)
  BY <1>1, <1>2, <1>3 DEF InOrder
<1>6. ~IsEvent(c) => InOrder(Append(s, c), a, m)
  BY <1>1, <1>2, <1>3 DEF InOrder
<1> QED BY <1>4, <1>5, <1>6

LEMMA InOrderSuffix ==
  ASSUME NEW s \in Seq(GuildCommand), NEW t \in Seq(GuildCommand), NEW a \in Nat, NEW m \in Nat,
         InOrder(s \o t, a, m)
  PROVE  InOrder(t, a, m)
<1>1. /\ Len(s \o t) = Len(s) + Len(t)
      /\ Len(s) \in Nat /\ Len(t) \in Nat
      /\ \A i \in 1..Len(t) : (s \o t)[Len(s) + i] = t[i]
  OBVIOUS
<1>2. ASSUME NEW i \in 1..Len(t), IsEvent(t[i])
      PROVE  /\ a < t[i].n /\ t[i].n <= m
             /\ \A j \in (i + 1)..Len(t) : IsEvent(t[j]) => t[i].n < t[j].n
  <2>1. Len(s) + i \in 1..Len(s \o t) /\ (s \o t)[Len(s) + i] = t[i]
    BY <1>1
  <2>2. /\ a < t[i].n /\ t[i].n <= m
        /\ \A k \in (Len(s) + i + 1)..Len(s \o t) : IsEvent((s \o t)[k]) => t[i].n < (s \o t)[k].n
    BY <1>2, <2>1 DEF InOrder
  <2>3. ASSUME NEW j \in (i + 1)..Len(t), IsEvent(t[j]) PROVE t[i].n < t[j].n
    <3>1. Len(s) + j \in (Len(s) + i + 1)..Len(s \o t) /\ (s \o t)[Len(s) + j] = t[j]
      BY <1>1
    <3> QED BY <2>2, <2>3, <3>1
  <2> QED BY <2>2, <2>3
<1> QED BY <1>2 DEF InOrder

LEMMA InOrderPrefix ==
  ASSUME NEW s \in Seq(GuildCommand), NEW t \in Seq(GuildCommand), NEW a \in Nat, NEW m \in Nat,
         InOrder(s \o t, a, m)
  PROVE  InOrder(s, a, m)
<1>1. /\ Len(s \o t) = Len(s) + Len(t)
      /\ Len(s) \in Nat /\ Len(t) \in Nat
      /\ \A i \in 1..Len(s) : (s \o t)[i] = s[i]
  OBVIOUS
<1> QED BY <1>1, SMTT(30) DEF InOrder

LEMMA InOrderTail ==
  ASSUME NEW s \in Seq(GuildCommand), NEW t \in Seq(GuildCommand), NEW a \in Nat, NEW m \in Nat,
         InOrder(s \o t, a, m), s # <<>>
  PROVE  LET b == IF IsEvent(Head(s)) THEN Head(s).n ELSE a
         IN InOrder(Tail(s) \o t, b, m) /\ (a <= m => b <= m)
<1> DEFINE u == s \o t
<1>1. /\ u \in Seq(GuildCommand) /\ Len(u) \in Nat /\ Len(u) > 0
      /\ u[1] = Head(s)
      /\ Len(Tail(s) \o t) = Len(u) - 1
      /\ \A i \in 1..(Len(u) - 1) : (Tail(s) \o t)[i] = u[i + 1]
  OBVIOUS
<1>2. \A i \in 1..Len(u) : u[i].n \in Nat
  BY <1>1, CommandNumbers
<1>3. InOrder(u, a, m)
  OBVIOUS
<1> HIDE DEF u
<1> DEFINE v == Tail(s) \o t
           b == IF IsEvent(Head(s)) THEN Head(s).n ELSE a
<1>4. Len(v) = Len(u) - 1 /\ \A i \in 1..Len(v) : v[i] = u[i + 1]
  BY <1>1
<1>5. /\ IsEvent(u[1]) => a < u[1].n /\ u[1].n <= m
      /\ \A k \in 2..Len(u) : IsEvent(u[1]) /\ IsEvent(u[k]) => u[1].n < u[k].n
  BY <1>1, <1>3 DEF InOrder
<1>6. b = IF IsEvent(u[1]) THEN u[1].n ELSE a
  BY <1>1
<1> HIDE DEF v, b
<1>7. ASSUME NEW i \in 1..Len(v), IsEvent(v[i])
      PROVE  /\ b < v[i].n /\ v[i].n <= m
             /\ \A j \in (i + 1)..Len(v) : IsEvent(v[j]) => v[i].n < v[j].n
  <2>1. i + 1 \in 2..Len(u) /\ i + 1 \in 1..Len(u) /\ v[i] = u[i + 1]
    BY <1>1, <1>4, SMTT(30)
  <2>2. /\ a < v[i].n /\ v[i].n <= m
        /\ \A k \in (i + 1 + 1)..Len(u) : IsEvent(u[k]) => v[i].n < u[k].n
    BY <1>3, <1>7, <2>1 DEF InOrder
  <2>3. b < v[i].n
    BY <1>5, <1>6, <1>7, <2>1, <2>2
  <2>4. ASSUME NEW j \in (i + 1)..Len(v), IsEvent(v[j]) PROVE v[i].n < v[j].n
    <3>1. j + 1 \in (i + 1 + 1)..Len(u) /\ v[j] = u[j + 1]
      BY <1>1, <1>4
    <3> QED BY <2>2, <2>4, <3>1
  <2> QED BY <2>2, <2>3, <2>4
<1>8. InOrder(v, b, m)
  BY <1>7 DEF InOrder
<1>9. a <= m => b <= m
  BY <1>5, <1>6
<1> QED BY <1>8, <1>9 DEF v, b

\* A Shutdown is the last command of an inbox whose sender is gone, and a handler
\* that has taken it has an empty inbox.
DrainFor(h) ==
  /\ h.end = "shutdown" => h.inbox = <<>> /\ h.tx # "some"
  /\ \A i \in 1..Len(h.inbox) : h.inbox[i] = Shutdown => i = Len(h.inbox) /\ h.tx # "some"

\* A guild with handle h and queue q, whose last seen event is s, after m commands.
QueueFor(h, q, s, m) ==
  /\ InOrder(h.inbox \o q, s, m) /\ s <= m
  /\ \A i \in 1..Len(q) : IsEvent(q[i])
  /\ DrainFor(h)

Queues == \A g \in Guilds : QueueFor(guilds[g], queued_events[g], seen[g], commands)

LEMMA InboxType ==
  ASSUME NEW h \in Handle
  PROVE  h.inbox \in Seq(GuildCommand)
<1>1. CASE h \in GuildHandle
  BY <1>1 DEF GuildHandle
<1>2. CASE h = NoHandle
  BY <1>2, HandleTypes DEF NoHandle
<1> QED BY <1>1, <1>2 DEF Handle

LEMMA CommandSequences ==
  ASSUME NEW s \in Seq(GuildCommand), NEW q \in Seq(GuildCommand), NEW c \in GuildCommand
  PROVE  /\ s \o <<>> = s /\ <<>> \o s = s
         /\ s \o <<c>> = Append(s, c)
         /\ Append(s, c) \in Seq(GuildCommand) /\ Append(s, c) \o <<>> = Append(s, c)
         /\ s \o q \in Seq(GuildCommand)
         /\ s \o Append(q, c) = Append(s \o q, c)
<1>1. /\ s \o <<>> = s /\ <<>> \o s = s
      /\ s \o <<c>> = Append(s, c)
  BY ConcatEmptySeq, AppendIsConcat
<1>2. Append(s, c) \in Seq(GuildCommand) /\ s \o q \in Seq(GuildCommand)
  OBVIOUS
<1>3. Append(s, c) \o <<>> = Append(s, c)
  BY <1>2, ConcatEmptySeq
<1>4. <<c>> \in Seq(GuildCommand)
  OBVIOUS
<1>5. (s \o q) \o <<c>> = s \o (q \o <<c>>)
  BY <1>4, ConcatAssociative
<1>6. s \o Append(q, c) = Append(s \o q, c)
  BY <1>2, <1>5, AppendIsConcat
<1> QED BY <1>1, <1>2, <1>3, <1>6

LEMMA QueueAfterStart ==
  ASSUME NEW h \in Handle, NEW q, NEW s, NEW m, QueueFor(h, q, s, m)
  PROVE  QueueFor(GetOrStart(h), q, s, m)
BY DEF QueueFor, DrainFor, GetOrStart, NoHandle, NewHandle

LEMMA QueueLater ==
  ASSUME NEW h \in Handle, NEW q \in Seq(GuildCommand), NEW s \in Nat, NEW m \in Nat, QueueFor(h, q, s, m)
  PROVE  QueueFor(h, q, s, m + 1)
<1>1. h.inbox \o q \in Seq(GuildCommand)
  BY InboxType
<1>2. InOrder(h.inbox \o q, s, m) /\ s <= m
  BY DEF QueueFor
<1>3. InOrder(h.inbox \o q, s, m + 1)
  BY <1>1, <1>2, InOrderAppend, HandleTypes DEF IsEvent, Shutdown
<1>4. s <= m + 1
  BY <1>2
<1> QED BY <1>3, <1>4 DEF QueueFor

LEMMA QueueAfterSend ==
  ASSUME NEW h \in Handle, NEW q \in Seq(GuildCommand), NEW s \in Nat, NEW m \in Nat,
         NEW c \in GuildCommand, c # Shutdown, IsEvent(c) => c.n = m + 1,
         QueueFor(h, q, s, m), Receives(h) => q = <<>>
  PROVE  QueueFor(Sent(h, <<c>>), q, s, m + 1)
<1>1. h.inbox \in Seq(GuildCommand)
  BY InboxType
<1>2. CASE Receives(h)
  <2>1. /\ h.inbox \o q = h.inbox
        /\ Sent(h, <<c>>).inbox = Append(h.inbox, c)
        /\ Append(h.inbox, c) \o q = Append(h.inbox, c)
    <3>1. q = <<>> /\ Sent(h, <<c>>).inbox = h.inbox \o <<c>>
      BY <1>2, SentFacts
    <3> QED BY <1>1, <3>1, CommandSequences
  <2>2. InOrder(Sent(h, <<c>>).inbox \o q, s, m + 1) /\ s <= m + 1
    <3>1. InOrder(h.inbox, s, m) /\ s <= m
      BY <2>1 DEF QueueFor
    <3>2. InOrder(Append(h.inbox, c), s, m + 1)
      BY <1>1, <3>1, InOrderAppend
    <3>3. s <= m + 1
      BY <3>1
    <3> QED BY <2>1, <3>2, <3>3
  <2>3. h.end # "shutdown" /\ \A i \in 1..Len(h.inbox) : h.inbox[i] # Shutdown
    BY <1>2 DEF QueueFor, DrainFor, Receives
  <2>4. /\ Len(Append(h.inbox, c)) = Len(h.inbox) + 1
        /\ Append(h.inbox, c)[Len(h.inbox) + 1] = c
        /\ \A i \in 1..Len(h.inbox) : Append(h.inbox, c)[i] = h.inbox[i]
        /\ Len(h.inbox) \in Nat
    BY <1>1
  <2>5. \A i \in 1..Len(Append(h.inbox, c)) : Append(h.inbox, c)[i] # Shutdown
    BY <2>3, <2>4
  <2>6. DrainFor(Sent(h, <<c>>))
    BY <2>1, <2>3, <2>5, SentFacts DEF DrainFor
  <2> QED BY <2>2, <2>6 DEF QueueFor
<1>3. CASE ~Receives(h)
  <2>1. Sent(h, <<c>>) = h
    BY <1>3 DEF Sent
  <2>2. h.inbox \o q \in Seq(GuildCommand)
    BY <1>1
  <2>3. InOrder(h.inbox \o q, s, m + 1) /\ s <= m + 1
    <3>1. InOrder(h.inbox \o q, s, m) /\ s <= m
      BY DEF QueueFor
    <3>2. s <= m + 1
      BY <3>1
    <3>3. InOrder(h.inbox \o q, s, m + 1)
      BY <2>2, <3>1, InOrderAppend
    <3> QED BY <3>2, <3>3
  <2> QED BY <2>1, <2>3 DEF QueueFor
<1> QED BY <1>2, <1>3

LEMMA QueueAfterQueue ==
  ASSUME NEW h \in Handle, NEW q \in Seq(GuildCommand), NEW s \in Nat, NEW m \in Nat,
         NEW c \in GuildCommand, IsEvent(c), c.n = m + 1,
         QueueFor(h, q, s, m)
  PROVE  QueueFor(h, Append(q, c), s, m + 1)
<1>1. h.inbox \in Seq(GuildCommand)
  BY InboxType
<1>2. h.inbox \o q \in Seq(GuildCommand) /\ h.inbox \o Append(q, c) = Append(h.inbox \o q, c)
  BY <1>1, CommandSequences
<1>3. InOrder(h.inbox \o Append(q, c), s, m + 1) /\ s <= m + 1
  <2>1. InOrder(h.inbox \o q, s, m) /\ s <= m
    BY DEF QueueFor
  <2>2. s <= m + 1
    BY <2>1
  <2>3. InOrder(Append(h.inbox \o q, c), s, m + 1)
    BY <1>2, <2>1, InOrderAppend
  <2> QED BY <1>2, <2>2, <2>3
<1>4. \A i \in 1..Len(Append(q, c)) : IsEvent(Append(q, c)[i])
  BY DEF QueueFor
<1> QED BY <1>3, <1>4 DEF QueueFor

LEMMA QueueAfterShutDown ==
  ASSUME NEW h \in Handle, NEW q \in Seq(GuildCommand), NEW s \in Nat, NEW m \in Nat,
         QueueFor(h, q, s, m), Receives(h) => q = <<>>
  PROVE  QueueFor(ShutDown(h), q, s, m)
<1>1. h.inbox \in Seq(GuildCommand)
  BY InboxType
<1>2. CASE Receives(h)
  <2>1. /\ h.inbox \o q = h.inbox
        /\ ShutDown(h).inbox = Append(h.inbox, Shutdown)
        /\ Append(h.inbox, Shutdown) \o q = Append(h.inbox, Shutdown)
    <3>1. q = <<>>
      BY <1>2
    <3>2. Append(h.inbox, Shutdown) \in Seq(GuildCommand)
      BY <1>1, HandleTypes
    <3>3. h.inbox \o q = h.inbox
      BY <1>1, <3>1, ConcatEmptySeq
    <3>4. Append(h.inbox, Shutdown) \o q = Append(h.inbox, Shutdown)
      BY <3>1, <3>2, ConcatEmptySeq
    <3>5. ShutDown(h).inbox = Append(h.inbox, Shutdown)
      <4>1. ShutDown(h).inbox = h.inbox \o <<Shutdown>>
        BY <1>2, ShutDownFacts
      <4>2. h.inbox \o <<Shutdown>> = Append(h.inbox, Shutdown)
        BY <1>1, HandleTypes, AppendIsConcat
      <4> QED BY <4>1, <4>2
    <3> QED BY <3>3, <3>4, <3>5
  <2>2. ~IsEvent(Shutdown)
    BY DEF IsEvent, Shutdown
  <2>3. InOrder(ShutDown(h).inbox \o q, s, m)
    <3>1. InOrder(h.inbox, s, m) /\ s <= m
      BY <2>1 DEF QueueFor
    <3>2. InOrder(Append(h.inbox, Shutdown), s, m)
      BY <1>1, <2>2, <3>1, InOrderAppend, HandleTypes
    <3> QED BY <2>1, <3>2
  <2>4. h.end # "shutdown" /\ \A i \in 1..Len(h.inbox) : h.inbox[i] # Shutdown
    BY <1>2 DEF QueueFor, DrainFor, Receives
  <2>5. /\ Len(Append(h.inbox, Shutdown)) = Len(h.inbox) + 1
        /\ \A i \in 1..Len(h.inbox) : Append(h.inbox, Shutdown)[i] = h.inbox[i]
        /\ Len(h.inbox) \in Nat
    BY <1>1, HandleTypes
  <2>6. DrainFor(ShutDown(h))
    BY <1>2, <2>1, <2>4, <2>5, ShutDownFacts DEF DrainFor, Receives
  <2> QED BY <2>3, <2>6 DEF QueueFor
<1>3. CASE ~Receives(h)
  BY <1>3, ShutDownFacts DEF QueueFor, DrainFor
<1> QED BY <1>2, <1>3

LEMMA QueueAfterRestart ==
  ASSUME NEW h \in Handle, NEW q \in Seq(GuildCommand), NEW s \in Nat, NEW m \in Nat,
         QueueFor(h, q, s, m)
  PROVE  QueueFor(Sent(NewHandle, q), <<>>, s, m) /\ QueueFor(NoHandle, <<>>, s, m)
<1>1. h.inbox \in Seq(GuildCommand)
  BY InboxType
<1>2. /\ Receives(NewHandle) /\ NewHandle.inbox = <<>> /\ NewHandle.end = "no" /\ NewHandle.tx = "some"
      /\ NoHandle.inbox = <<>> /\ NoHandle.end = "no"
  BY DEF Receives, NewHandle, NoHandle
<1>3. Sent(NewHandle, q).inbox = q /\ Sent(NewHandle, q).end = "no"
  <2>1. NewHandle \in Handle
    BY HandleTypes DEF Handle
  <2>2. Sent(NewHandle, q).inbox = <<>> \o q /\ Sent(NewHandle, q).end = "no"
    BY <1>2, <2>1, SentFacts
  <2> QED BY <2>2, ConcatEmptySeq
<1>4. InOrder(q, s, m) /\ q \o <<>> = q
  BY <1>1, InOrderSuffix DEF QueueFor
<1>5. \A i \in 1..Len(q) : q[i] # Shutdown
  BY DEF QueueFor, IsEvent, Shutdown
<1>6. QueueFor(Sent(NewHandle, q), <<>>, s, m)
  BY <1>3, <1>4, <1>5, SMTT(30) DEF QueueFor, DrainFor
<1>7. QueueFor(NoHandle, <<>>, s, m)
  BY <1>2 DEF QueueFor, DrainFor, InOrder
<1> QED BY <1>6, <1>7

LEMMA QueueAfterTake ==
  ASSUME NEW h \in GuildHandle, NEW q \in Seq(GuildCommand), NEW s \in Nat, NEW m \in Nat,
         QueueFor(h, q, s, m), h.inbox # <<>>, NEW k \in GuildHandle,
         k.inbox = Tail(h.inbox), k.tx = h.tx,
         k.end = IF Head(h.inbox) = Shutdown THEN "shutdown" ELSE h.end
  PROVE  QueueFor(k, q, IF IsEvent(Head(h.inbox)) THEN Head(h.inbox).n ELSE s, m)
<1>1. h.inbox \in Seq(GuildCommand) /\ Head(h.inbox) = h.inbox[1] /\ Len(h.inbox) \in Nat /\ Len(h.inbox) >= 1
  BY DEF GuildHandle
<1>2. /\ Len(k.inbox) = Len(h.inbox) - 1
      /\ \A i \in 1..Len(k.inbox) : k.inbox[i] = h.inbox[i + 1]
  BY <1>1
<1>3. h.end # "shutdown"
  BY DEF QueueFor, DrainFor
<1>4. \A i \in 1..Len(h.inbox) : h.inbox[i] = Shutdown => i = Len(h.inbox) /\ h.tx # "some"
  BY DEF QueueFor, DrainFor
<1>5. CASE h.inbox[1] = Shutdown
  <2>1. Len(h.inbox) = 1 /\ h.tx # "some"
    <3>1. 1 \in 1..Len(h.inbox)
      BY <1>1
    <3> QED BY <1>4, <1>5, <3>1
  <2>2. k.inbox = <<>>
    <3>1. k.inbox \in Seq(GuildCommand) /\ Len(k.inbox) = 0
      BY <1>2, <2>1 DEF GuildHandle
    <3> QED BY <3>1, EmptySeq
  <2>3. DrainFor(k)
    <3>1. k.tx # "some"
      BY <2>1
    <3>2. ASSUME NEW i \in 1..Len(k.inbox) PROVE FALSE
      BY <1>2, <2>1, <3>2
    <3>3. k.end = "shutdown" => k.inbox = <<>>
      BY <2>2
    <3> QED BY <2>2, <3>1, <3>2, <3>3 DEF DrainFor
  <2> QED BY <1>1, <2>3, InOrderTail DEF QueueFor
<1>6. CASE h.inbox[1] # Shutdown
  <2>1. DrainFor(k)
    BY <1>1, <1>2, <1>3, <1>4, <1>6 DEF DrainFor
  <2> QED BY <1>1, <2>1, InOrderTail DEF QueueFor
<1> QED BY <1>5, <1>6

LEMMA QueuesStep == TypeOK /\ TypeOK' /\ HeldBack /\ Queues /\ [Next]_vars => Queues'
<1> SUFFICES ASSUME TypeOK, TypeOK', HeldBack, Queues, [Next]_vars, NEW x \in Guilds
             PROVE  QueueFor(guilds'[x], queued_events'[x], seen'[x], commands')
  BY DEF Queues
<1>0. /\ QueueFor(guilds[x], queued_events[x], seen[x], commands)
      /\ guilds[x] \in Handle /\ queued_events[x] \in Seq(GuildCommand)
      /\ seen[x] \in Nat /\ commands \in Nat
  BY DEF Queues, TypeOK, Handle
<1>a. Receives(guilds[x]) => queued_events[x] = <<>>
  BY DEF HeldBack, BacklogHasHandler, Backlog, Receives
<1>b. /\ QueueFor(ShutDown(guilds[x]), queued_events[x], seen[x], commands)
      /\ QueueFor(GetOrStart(ShutDown(guilds[x])), queued_events[x], seen[x], commands)
  BY <1>0, <1>a, QueueAfterShutDown, QueueAfterStart, ShutDownType
<1>c. /\ GetOrStart(guilds[x]) \in Handle
      /\ QueueFor(GetOrStart(guilds[x]), queued_events[x], seen[x], commands)
      /\ Receives(GetOrStart(guilds[x])) => queued_events[x] = <<>>
  <2>1. CASE guilds[x] = NoHandle
    <3>1. queued_events[x] = <<>>
      BY <2>1 DEF HeldBack, BacklogHasHandler, Backlog, NoHandle
    <3> QED BY <1>0, <3>1, GetOrStartType, QueueAfterStart DEF Handle
  <2>2. CASE guilds[x] # NoHandle
    BY <1>0, <1>a, <2>2 DEF GetOrStart
  <2> QED BY <2>1, <2>2
<1>1. CASE UNCHANGED <<guilds, queued_events, seen, commands>>
  BY <1>0, <1>1
<1>2. ASSUME NEW g \in Guilds, HandleGuildHandlerEvent(g)
      PROVE  QueueFor(guilds'[x], queued_events'[x], seen'[x], commands')
  <2>1. /\ guilds'[x].inbox = guilds[x].inbox /\ guilds'[x].tx = guilds[x].tx
        /\ guilds'[x].end = guilds[x].end
    BY <1>0, <1>2 DEF HandleGuildHandlerEvent, TypeOK, Handle, GuildHandle, NoHandle
  <2>2. UNCHANGED <<seen, commands>>
    BY <1>2 DEF HandleGuildHandlerEvent
  <2>3. CASE queued_events'[x] = queued_events[x]
    BY <1>0, <2>1, <2>2, <2>3 DEF QueueFor, DrainFor
  <2>4. CASE queued_events'[x] = <<>>
    <3>1. guilds[x].inbox \in Seq(GuildCommand) /\ guilds[x].inbox \o <<>> = guilds[x].inbox
      BY <1>0, InboxType, ConcatEmptySeq
    <3>2. InOrder(guilds[x].inbox, seen[x], commands)
      BY <1>0, <3>1, InOrderPrefix DEF QueueFor
    <3> QED BY <1>0, <2>1, <2>2, <2>4, <3>1, <3>2 DEF QueueFor, DrainFor
  <2> QED BY <1>2, <2>3, <2>4 DEF HandleGuildHandlerEvent, TypeOK
<1>3. ASSUME NEW g \in Guilds, RemoveAndRestart(g), UNCHANGED <<seen, commands>>
      PROVE  QueueFor(guilds'[x], queued_events'[x], seen'[x], commands')
  <2>1. CASE x # g
    BY <1>0, <1>3, <2>1 DEF RemoveAndRestart, TypeOK
  <2>2. CASE x = g
    <3>1. /\ guilds'[x] \in {Sent(NewHandle, queued_events[x]), NoHandle}
          /\ queued_events'[x] = <<>>
      BY <1>3, <2>2 DEF RemoveAndRestart, TypeOK
    <3> QED BY <1>0, <1>3, <3>1, QueueAfterRestart, SMTT(30)
  <2> QED BY <2>1, <2>2
<1>4. ASSUME NEW g \in Guilds, HandlerGone(g)
      PROVE  QueueFor(guilds'[x], queued_events'[x], seen'[x], commands')
  <2>1. CASE MayRun(g)
    BY <1>3, <1>4, <2>1 DEF HandlerGone
  <2>2. CASE ~MayRun(g) /\ x = g
    <3>1. guilds'[x] = NoHandle /\ UNCHANGED <<queued_events, seen, commands>>
      BY <1>4, <2>2 DEF HandlerGone, TypeOK
    <3>2. queued_events[x] = <<>>
      BY <2>2 DEF HeldBack, SuspendedNoBacklog, Backlog, MayRun
    <3>3. QueueFor(NoHandle, <<>>, seen[x], commands)
      BY <1>0, QueueAfterRestart
    <3> QED BY <3>1, <3>2, <3>3
  <2>3. CASE ~MayRun(g) /\ x # g
    BY <1>0, <1>4, <2>3 DEF HandlerGone, TypeOK
  <2> QED BY <2>1, <2>2, <2>3
<1>5. ASSUME NEW g \in Guilds, HandlerGoneDraining(g)
      PROVE  QueueFor(guilds'[x], queued_events'[x], seen'[x], commands')
  BY <1>3, <1>5 DEF HandlerGoneDraining
<1>6. ASSUME NEW c \in SUBSET Guilds, BrokerHello(c)
      PROVE  QueueFor(guilds'[x], queued_events'[x], seen'[x], commands')
  <2>1. /\ guilds'[x] \in {ShutDown(guilds[x]), GetOrStart(ShutDown(guilds[x]))}
        /\ UNCHANGED <<queued_events, seen, commands>>
    BY <1>6 DEF BrokerHello
  <2> QED BY <1>b, <2>1
<1>7. CASE BrokerDisconnected \/ Stop
  <2>1. guilds'[x] = ShutDown(guilds[x]) /\ UNCHANGED <<queued_events, seen, commands>>
    BY <1>7 DEF BrokerDisconnected, Stop
  <2> QED BY <1>b, <2>1
<1>8. ASSUME NEW g \in Guilds, DiscordEvent(g)
      PROVE  QueueFor(guilds'[x], queued_events'[x], seen'[x], commands')
  <2>1. /\ commands' = commands + 1 /\ UNCHANGED seen
        /\ Event(commands') \in GuildCommand /\ Event(commands') # Shutdown
        /\ IsEvent(Event(commands')) /\ Event(commands').n = commands + 1
    BY <1>0, <1>8 DEF DiscordEvent, Event, Shutdown, IsEvent, GuildCommand
  <2>2. CASE x # g \/ ~MayRun(g)
    <3>1. guilds'[x] = guilds[x] /\ queued_events'[x] = queued_events[x]
      BY <1>8, <2>2 DEF DiscordEvent, SendOrQueue, TypeOK
    <3> QED BY <1>0, <2>1, <3>1, QueueLater
  <2>3. CASE x = g /\ MayRun(g)
    <3>1. guilds'[x] = Sent(GetOrStart(guilds[x]), <<Event(commands')>>)
      BY <1>8, <2>3 DEF DiscordEvent, SendOrQueue, TypeOK
    <3>2. CASE Receives(GetOrStart(guilds[x]))
      <4>1. queued_events'[x] = queued_events[x]
        BY <1>8, <2>3, <3>2 DEF DiscordEvent, SendOrQueue
      <4> QED BY <1>0, <1>c, <2>1, <3>1, <4>1, QueueAfterSend
    <3>3. CASE ~Receives(GetOrStart(guilds[x]))
      <4>1. /\ queued_events'[x] = Append(queued_events[x], Event(commands'))
            /\ guilds'[x] = GetOrStart(guilds[x])
        BY <1>8, <2>3, <3>1, <3>3 DEF DiscordEvent, SendOrQueue, Sent, TypeOK
      <4> QED BY <1>0, <1>c, <2>1, <4>1, QueueAfterQueue
    <3> QED BY <3>2, <3>3
  <2> QED BY <2>2, <2>3
<1>9. ASSUME NEW g \in Guilds, GuildDelete(g)
      PROVE  QueueFor(guilds'[x], queued_events'[x], seen'[x], commands')
  <2>1. /\ guilds'[x] \in {guilds[x], ShutDown(guilds[x])}
        /\ UNCHANGED <<queued_events, seen, commands>>
    BY <1>9 DEF GuildDelete, TypeOK
  <2> QED BY <1>0, <1>b, <2>1
<1>10. ASSUME NEW g \in Guilds, ReloadGuildScripts(g)
       PROVE  QueueFor(guilds'[x], queued_events'[x], seen'[x], commands')
  <2>1. commands' = commands + 1 /\ UNCHANGED <<seen, queued_events>>
    BY <1>10 DEF ReloadGuildScripts
  <2>2. guilds'[x] \in {guilds[x], Sent(GetOrStart(guilds[x]), <<ReloadScripts>>)}
    BY <1>10 DEF ReloadGuildScripts, TypeOK
  <2>3. ReloadScripts # Shutdown /\ ~IsEvent(ReloadScripts) /\ ReloadScripts \in GuildCommand
    BY HandleTypes DEF ReloadScripts, Shutdown, IsEvent
  <2>4. QueueFor(Sent(GetOrStart(guilds[x]), <<ReloadScripts>>), queued_events[x], seen[x], commands + 1)
    BY <1>0, <1>c, <2>3, QueueAfterSend
  <2> QED BY <1>0, <2>1, <2>2, <2>4, QueueLater
<1>11. ASSUME NEW g \in Guilds, HandleGuildCommand(g)
       PROVE  QueueFor(guilds'[x], queued_events'[x], seen'[x], commands')
  <2>1. UNCHANGED <<queued_events, commands>>
    BY <1>11 DEF HandleGuildCommand, handlerUnchanged
  <2>2. CASE x # g
    <3>1. guilds'[x] = guilds[x] /\ seen'[x] = seen[x]
      BY <1>11, <2>2 DEF HandleGuildCommand, TypeOK
    <3> QED BY <1>0, <2>1, <3>1
  <2>3. CASE x = g
    <3>1. guilds[x] \in GuildHandle /\ guilds[x].inbox # <<>>
      BY <1>0, <1>11, <2>3 DEF HandleGuildCommand, Handle, NoHandle
    <3>2. /\ guilds'[x].inbox = Tail(guilds[x].inbox) /\ guilds'[x].tx = guilds[x].tx
          /\ guilds'[x].end = IF Head(guilds[x].inbox) = Shutdown THEN "shutdown" ELSE guilds[x].end
          /\ guilds'[x].task # "none"
      BY <1>11, <2>3, <3>1 DEF HandleGuildCommand, TypeOK, GuildHandle
    <3>3. guilds'[x] \in GuildHandle
      BY <3>2 DEF TypeOK, NoHandle
    <3>4. seen'[x] = IF IsEvent(Head(guilds[x].inbox)) THEN Head(guilds[x].inbox).n ELSE seen[x]
      BY <1>11, <2>3 DEF HandleGuildCommand, IsEvent, TypeOK
    <3> QED BY <1>0, <2>1, <3>1, <3>2, <3>3, <3>4, QueueAfterTake
  <2> QED BY <2>2, <2>3
<1>12. ASSUME NEW g \in Guilds, ForciblyShutdown(g) \/ HandlerPanics(g) \/ HandlerFinishes(g)
       PROVE  QueueFor(guilds'[x], queued_events'[x], seen'[x], commands')
  <2>1. UNCHANGED <<queued_events, seen, commands>>
    BY <1>12 DEF ForciblyShutdown, HandlerPanics, HandlerFinishes, handlerUnchanged
  <2>2. /\ guilds'[x].inbox = guilds[x].inbox /\ guilds'[x].tx = guilds[x].tx
        /\ guilds'[x].end = "shutdown" => guilds[x].end = "shutdown"
    <3>1. CASE x # g
      BY <1>12, <3>1 DEF ForciblyShutdown, HandlerPanics, HandlerFinishes, TypeOK
    <3>2. CASE x = g
      <4>1. guilds[x] \in GuildHandle
        BY <1>0, <1>12, <3>2 DEF ForciblyShutdown, HandlerPanics, HandlerFinishes, Handle, NoHandle
      <4> QED BY <1>12, <3>2, <4>1 DEF ForciblyShutdown, HandlerPanics, HandlerFinishes, TypeOK, GuildHandle
    <3> QED BY <3>1, <3>2
  <2> QED BY <1>0, <2>1, <2>2 DEF QueueFor, DrainFor
<1>13. ASSUME NEW g \in Guilds, InboxDropped(g)
       PROVE  QueueFor(guilds'[x], queued_events'[x], seen'[x], commands')
  <2>1. UNCHANGED <<queued_events, seen, commands>>
    BY <1>13 DEF InboxDropped, handlerUnchanged
  <2>2. CASE x # g
    BY <1>0, <1>13, <2>1, <2>2 DEF InboxDropped, TypeOK
  <2>3. CASE x = g
    <3>1. guilds'[x].inbox = <<>> /\ guilds'[x].tx = guilds[x].tx /\ guilds'[x].end = guilds[x].end
      BY <1>0, <1>13, <2>3 DEF InboxDropped, TypeOK, Handle, GuildHandle, NoHandle
    <3>2. InOrder(queued_events[x], seen[x], commands) /\ <<>> \o queued_events[x] = queued_events[x]
      BY <1>0, InboxType, InOrderSuffix, ConcatEmptySeq DEF QueueFor
    <3> QED BY <1>0, <2>1, <3>1, <3>2, SMTT(30) DEF QueueFor, DrainFor
  <2> QED BY <2>2, <2>3
<1>14. CASE NothingReady \/ WokenByHandle \/ BrokerConnected \/ UNCHANGED vars
            \/ \E g \in Guilds : SuspensionExpires(g)
  BY <1>1, <1>14 DEF NothingReady, WokenByHandle, BrokerConnected, SuspensionExpires, vars
<1> QED
  BY <1>2, <1>4, <1>5, <1>6, <1>7, <1>8, <1>9, <1>10, <1>11, <1>12, <1>13, <1>14
  DEF Next, SchedulerTurn, Command, HandlerStep

LEMMA QueuesAlways == Spec => []Queues
<1>1. Init => Queues
  <2> SUFFICES ASSUME Init, NEW g \in Guilds
               PROVE  QueueFor(guilds[g], queued_events[g], seen[g], commands)
    BY DEF Queues
  <2>1. guilds[g] = NoHandle /\ queued_events[g] = <<>> /\ seen[g] = 0 /\ commands = 0
    BY DEF Init
  <2>2. NoHandle.inbox = <<>> /\ NoHandle.end = "no" /\ <<>> \o <<>> = <<>>
    BY HandleTypes, ConcatEmptySeq DEF NoHandle
  <2>3. \A i \in 1..Len(<<>>) : FALSE
    OBVIOUS
  <2> QED BY <2>1, <2>2, <2>3, SMTT(30) DEF QueueFor, DrainFor, InOrder
<1> QED BY <1>1, TypeCorrect, HeldBackAlways, QueuesStep, PTL DEF Spec

\* A guild's events reach its handlers in the order they came in, across every
\* shutdown, forced stop, panic and restart, for any number of guilds and commands.
THEOREM SchedulerEventsInOrder == Spec => []EventsInOrder
<1>1. Queues => EventsInOrder
  BY DEF Queues, QueueFor, InOrder, EventsInOrder, Waiting
<1> QED BY <1>1, QueuesAlways, PTL

\* A handler that ends on a Shutdown command leaves no command in its inbox.
THEOREM SchedulerShutdownDrains == Spec => []ShutdownDrainsInbox
<1>1. Queues => ShutdownDrainsInbox
  BY DEF Queues, QueueFor, DrainFor, ShutdownDrainsInbox
<1> QED BY <1>1, QueuesAlways, PTL
=============================================================================
