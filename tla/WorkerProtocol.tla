----------------------------- MODULE WorkerProtocol ----------------------------
(***************************************************************************)
(* The sessions of several guilds and the worker processes they share.     *)
(***************************************************************************)
EXTENDS VmSession, VmWorker

Next ==
  \/ \E g \in Guilds : SessionStep(g) \/ SessionInput(g)
  \/ \E w \in Workers : WorkerStep(w) \/ VmStep(w) \/ Fault(w)

Spec == Init /\ [][Next]_vars

Fairness ==
  /\ \A g \in Guilds : WF_vars(SessionStep(g))
  /\ \A w \in Workers : WF_vars(WorkerStep(w)) /\ WF_vars(VmStep(w))

FairSpec == Spec /\ Fairness

-----------------------------------------------------------------------------

\* As long as no scripts are reloaded, no vm is shut down and no handler is told to
\* stop, an ack that would take an entry out of pending_acks is
\* for an event of the guild that waits for it: a worker goes back to the pool only when
\* nothing is on its way, and no message of it names a guild.  Every session counts its events from
\* the same number, so an ack for another guild's event would pass for one of its own.
AcksOwn ==
  ~rough => \A g \in Guilds : session[g].worker # None =>
    \A i \in DOMAIN toSession[session[g].worker] :
      LET m == toSession[session[g].worker][i]
      IN m.t = "ack" /\ m.n \in session[g].pending_acks => m.g = g

\* Under the same conditions, script_loaded takes commands and interval timers from the
\* scripts of its own guild only, although a worker's runtime events are not tied to a vm.
ContribsOwn == ~rough => \A g \in Guilds : session[g].loaded \subseteq {g}

\* Through reloads, faults and restarts, a vm only gets commands of the guild it was
\* made for, and runs an event with the scripts the session had loaded when it sent the event: sending no
\* scripts to a worker that ran the guild last (should_send_scripts) is safe.
ScriptsFresh ==
  \A w \in Workers : HasVm(w) /\ vm[w].cmds # <<>> =>
    LET m == Head(vm[w].cmds)
    IN /\ m.g = vm[w].guild
       /\ m.t = "dispatch" => m.v = vm[w].scripts

\* Whatever breaks, on every way out of a session its worker goes back to the pool: a
\* worker that is neither idle nor lost to a panic is the one its owner's session has.
WorkersAccountedFor ==
  \A w \in Workers : \A g \in Guilds : worker[w].owner = g <=> session[g].worker = w

\* Every event a session has sent is acknowledged in the end, or given up with the
\* worker: no session waits for ever on pending_acks, which would keep the worker.
AcksSettled ==
  \A g \in Guilds : session[g].pending_acks # {} ~> session[g].pending_acks = {}
=============================================================================
