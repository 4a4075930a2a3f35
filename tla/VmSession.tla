------------------------------- MODULE VmSession -------------------------------
(***************************************************************************)
(* The vm session of a guild (cmd/scheduler/src/vm_session.rs), driven by  *)
(* the guild handler: it claims a worker when it has something to run,     *)
(* gives it back when the worker reports that nothing is pending, and      *)
(* replaces it when the connection breaks.                                 *)
(***************************************************************************)
EXTENDS WorkerRpc

sessionOnly == UNCHANGED <<vm, panics>>

\* worker.tx.send.  With the process gone the send still works until the writer
\* task notices, and the message is lost.
Sent(w, msgs) ==
  toWorker' = IF worker[w].up THEN [toWorker EXCEPT ![w] = @ \o msgs] ELSE toWorker

GivenBack(w, g) == [worker EXCEPT ![w].owner = None, ![w].last_active_guild = g]

Create(g, s) == Msg("create", g, s.id_gen, s.scripts)

\* return_worker(worker, true): the pool starts another process in its place.
ReturnBroken(w) ==
  /\ worker' = [worker EXCEPT ![w] = FreshWorker]
  /\ vm' = [vm EXCEPT ![w] = NoVm]
  /\ toWorker' = [toWorker EXCEPT ![w] = <<>>]
  /\ toSession' = [toSession EXCEPT ![w] = <<>>]

\* handle_worker_msg reaches unreachable!(): the task ends, and its worker handle
\* is dropped with it.  The process sees its connection end and exits.
Panic(g) ==
  LET w == session[g].worker
  IN /\ panics' = panics \cup {g}
     /\ session' = [session EXCEPT ![g] = NewSession]
     /\ worker' = [worker EXCEPT ![w] = [FreshWorker EXCEPT !.lost = TRUE, !.up = FALSE]]
     /\ vm' = [vm EXCEPT ![w] = NoVm]
     /\ toWorker' = [toWorker EXCEPT ![w] = <<>>]
     /\ toSession' = [toSession EXCEPT ![w] = <<>>]

\* broken_worker with left still in rx, after which the session is s.  What is left
\* goes through handle_worker_msg first, of which only a Shutdown still matters.
BrokenWorker(g, s, left) ==
  LET shutdown == \E i \in DOMAIN left : left[i].t = "shutdown"
  IN \/ shutdown /\ Panic(g)
     \/ /\ ~shutdown
        /\ ReturnBroken(session[g].worker)
        /\ session' = [session EXCEPT ![g] =
             [s EXCEPT !.worker = None, !.pending_acks = {}, !.loaded = {}]]
        /\ UNCHANGED panics

-----------------------------------------------------------------------------

\* try_retry_load_guild_scripts: what list_scripts may return, the scripts it returned
\* last or, where they have been edited since, the next version.
ListScripts(g) == {v \in {stored[g], stored[g] + 1} : v = stored[g] \/ v <= MaxScripts}

\* GuildHandler::new_run and VmSession::start.
Start(g, v) ==
  LET s == [NewSession EXCEPT !.scripts = v, !.id_gen = 2]
  IN /\ session[g].at = "off"
     /\ session' = [session EXCEPT ![g] =
          IF s.scripts = 0 THEN [s EXCEPT !.at = "ready"]
          ELSE [s EXCEPT !.at = "claiming", !.force_load_scripts_next = TRUE]]
     /\ UNCHANGED <<worker, toWorker, toSession>> /\ sessionOnly

\* Idle workers the pool may hand out: one that ran the guild last, if there is one.
Idle == {w \in Workers : worker[w].owner = None /\ ~worker[w].lost}
Offered(g) ==
  LET warm == {w \in Idle : worker[w].last_active_guild = g}
  IN IF warm # {} THEN warm ELSE Idle

\* Slip: a reload does not force the next load.
SendWhenOtherGuild(g, w) == worker[w].last_active_guild # g

ShouldSendScripts(g, w) ==
  session[g].force_load_scripts_next \/ worker[w].last_active_guild # g

\* ensure_claim_worker, and the dispatch it was called for.
Claim(g, w) ==
  LET s == session[g]
      send == ShouldSendScripts(g, w)
      loading == IF send THEN [s EXCEPT !.id_gen = @ + 1, !.pending_acks = {}, !.loaded = {}] ELSE s
      id == loading.id_gen + 1
      claimed == [loading EXCEPT !.at = "ready", !.then = "load", !.worker = w, !.force_load_scripts_next = FALSE]
  IN /\ s.at = "claiming" /\ w \in Offered(g)
     /\ session' = [session EXCEPT ![g] =
          IF s.then = "dispatch"
            THEN [claimed EXCEPT !.id_gen = id, !.pending_acks = @ \cup {id}]
            ELSE claimed]
     /\ Sent(w, (IF send THEN <<Create(g, loading)>> ELSE <<>>) \o
                (IF s.then = "dispatch" THEN <<Msg("dispatch", g, id, s.scripts)>> ELSE <<>>))
     /\ worker' = [worker EXCEPT ![w].owner = g]
     /\ UNCHANGED toSession /\ sessionOnly

\* ... where a send fails: the worker is given back as broken, and the loop claims
\* another one.
ClaimBroken(g, w) ==
  LET s == session[g]
  IN /\ s.at = "claiming" /\ w \in Offered(g) /\ ~worker[w].up
     /\ ShouldSendScripts(g, w) \/ s.then = "dispatch"
     /\ ReturnBroken(w)
     /\ session' = [session EXCEPT ![g] =
          [s EXCEPT !.id_gen = @ + 1, !.pending_acks = {}, !.loaded = {}]]
     /\ UNCHANGED panics

\* dispatch_worker_evt: a discord event, a scheduled task or an interval timer.
Dispatch(g) ==
  LET s == session[g]
      id == s.id_gen + 1
      claim == [s EXCEPT !.at = "claiming", !.then = "dispatch"]
  IN /\ s.at = "ready" /\ s.scripts # 0
     /\ \/ /\ s.worker = None
           /\ session' = [session EXCEPT ![g] = claim]
           /\ UNCHANGED <<worker, toWorker, toSession>> /\ sessionOnly
        \/ /\ s.worker # None
           /\ session' = [session EXCEPT ![g] = [s EXCEPT !.id_gen = id, !.pending_acks = @ \cup {id}]]
           /\ Sent(s.worker, <<Msg("dispatch", g, id, s.scripts)>>)
           /\ UNCHANGED <<worker, toSession>> /\ sessionOnly
        \/ /\ s.worker # None /\ ~worker[s.worker].up
           /\ BrokenWorker(g, [claim EXCEPT !.id_gen = id], toSession[s.worker])

\* reload_guild_scripts and load_contribs.
ReloadGuildScripts(g, v) ==
  LET s == [session[g] EXCEPT !.scripts = v, !.id_gen = @ + 1]
  IN /\ Reloads
     /\ s.at = "ready"
     /\ \/ /\ s.worker # None
           /\ session' = [session EXCEPT ![g] = s]
           /\ Sent(s.worker, <<Create(g, s)>>)
           /\ UNCHANGED <<worker, toSession>> /\ sessionOnly
        \/ /\ s.worker # None /\ ~worker[s.worker].up
           /\ BrokenWorker(g, s, toSession[s.worker])
        \/ /\ s.worker = None
           /\ session' = [session EXCEPT ![g] =
                IF s.scripts = 0 THEN [s EXCEPT !.loaded = {}]
                ELSE [s EXCEPT !.loaded = {}, !.at = "claiming", !.then = "load",
                               !.force_load_scripts_next = TRUE]]
           /\ UNCHANGED <<worker, toWorker, toSession>> /\ sessionOnly

-----------------------------------------------------------------------------

\* VmSession::shutdown up to its loop, for the session s with left in rx.
Shutdown(g, s, left) ==
  \/ /\ s.worker # None
     /\ session' = [session EXCEPT ![g] = [s EXCEPT !.at = "stopping"]]
     /\ Sent(s.worker, <<Msg("complete", g, 0, 0)>>)
     /\ toSession' = [toSession EXCEPT ![s.worker] = left]
     /\ UNCHANGED <<worker, vm, panics>>
  \/ /\ s.worker # None /\ ~worker[s.worker].up
     /\ BrokenWorker(g, NewSession, left)

\* The guild handler takes a Shutdown command.
ShutdownCommand(g) ==
  LET s == session[g]
  IN /\ Stops /\ s.at = "ready"
     /\ \/ /\ s.worker = None
           /\ session' = [session EXCEPT ![g] = NewSession]
           /\ UNCHANGED <<worker, vm, toWorker, toSession, panics>>
        \/ s.worker # None /\ Shutdown(g, s, toSession[s.worker])

\* script_loaded, update_db_contribs.
ScriptLoaded(s, m) == [s EXCEPT !.loaded = @ \cup {m.g}]

\* Slip: any NonePending gives the worker back.
ReturnOnNonePending(g, m) ==
  LET s == session[g]
      return == m.t = "none"
  IN /\ session' = [session EXCEPT ![g] =
          CASE m.t = "ack" -> [s EXCEPT !.pending_acks = @ \ {m.n}]
            [] m.t = "started" -> ScriptLoaded(s, m)
            [] OTHER -> [s EXCEPT !.worker = None]]
     /\ worker' = IF return THEN GivenBack(s.worker, g) ELSE worker
     /\ toSession' = [toSession EXCEPT ![s.worker] = Tail(@)]
     /\ UNCHANGED toWorker /\ sessionOnly

\* handle_worker_msg of a message other than Shutdown.
HandleWorkerMsg(g, m) ==
  LET s == session[g]
      w == s.worker
      return == m.t = "none" /\ s.pending_acks = {}
  IN /\ session' = [session EXCEPT ![g] =
          CASE m.t = "ack" -> [s EXCEPT !.pending_acks = @ \ {m.n}]
            [] m.t = "started" -> ScriptLoaded(s, m)
            [] return -> IF s.at = "stopping" THEN NewSession ELSE [s EXCEPT !.worker = None]
            [] OTHER -> s]
     /\ worker' = IF return THEN GivenBack(w, g) ELSE worker
     /\ toSession' = [toSession EXCEPT ![w] = Tail(@)]
     /\ UNCHANGED toWorker /\ sessionOnly

\* next_action yields a message.  A Shutdown ends the guild handler's loop, which then
\* shuts the session down; within shutdown it reaches handle_worker_msg.
WorkerMessage(g) ==
  LET s == session[g]
      m == Head(toSession[s.worker])
  IN /\ s.at \in {"ready", "stopping"} /\ s.worker # None /\ toSession[s.worker] # <<>>
     /\ \/ m.t # "shutdown" /\ HandleWorkerMsg(g, m)
        \/ /\ m.t = "shutdown" /\ s.at = "ready"
           /\ Shutdown(g, [s EXCEPT !.loaded = {}, !.pending_acks = {}], Tail(toSession[s.worker]))
        \/ m.t = "shutdown" /\ s.at = "stopping" /\ Panic(g)

\* Slip: a session that is shutting down drops the handle of a worker that is gone.
DropGoneWorker(g) ==
  LET s == session[g]
  IN /\ s.at \in {"ready", "stopping"} /\ s.worker # None
     /\ ~worker[s.worker].up /\ toSession[s.worker] = <<>>
     /\ session' = [session EXCEPT ![g] =
          IF s.at = "stopping" THEN NewSession ELSE [s EXCEPT !.worker = None, !.pending_acks = {}]]
     /\ UNCHANGED <<worker, toWorker, toSession>> /\ sessionOnly

\* rx.recv returns None.
WorkerGone(g) ==
  LET s == session[g]
  IN /\ s.at \in {"ready", "stopping"} /\ s.worker # None
     /\ ~worker[s.worker].up /\ toSession[s.worker] = <<>>
     /\ BrokenWorker(g, IF s.at = "stopping" THEN NewSession ELSE s, <<>>)

SessionStep(g) ==
  /\ \/ \E w \in Workers : Claim(g, w) \/ ClaimBroken(g, w)
     \/ WorkerMessage(g)
     \/ WorkerGone(g)
  /\ UNCHANGED <<stored, inputs, faults, rough>>

SessionInput(g) ==
  /\ \/ \E v \in ListScripts(g) :
          /\ \/ Start(g, v) /\ UNCHANGED rough
             \/ ReloadGuildScripts(g, v) /\ rough' = TRUE
          /\ stored' = [stored EXCEPT ![g] = v]
     \/ Dispatch(g) /\ UNCHANGED <<stored, rough>>
     \/ ShutdownCommand(g) /\ rough' = TRUE /\ UNCHANGED stored
  /\ inputs < (IF rough' THEN MaxRough ELSE MaxInputs)
  /\ inputs' = inputs + 1
  /\ UNCHANGED faults
=============================================================================
