------------------------------- MODULE WorkerRpc -------------------------------
(***************************************************************************)
(* What a vm session of the scheduler (cmd/scheduler/src/vm_session.rs)    *)
(* and a vm worker process (cmd/vmworker/src/main.rs) share: the messages  *)
(* of scheduler-worker-rpc, the two directions of the unix socket between  *)
(* them, and the state of both ends and of the vm thread in the worker.    *)
(*                                                                         *)
(* VmSession has the session's actions, VmWorker those of the process and  *)
(* of its vm; WorkerProtocol composes them.  The pool the sessions share   *)
(* is reduced to what WorkerPool shows of one tier: a worker has one       *)
(* owner, and an idle worker that ran the guild last is preferred.         *)
(***************************************************************************)
EXTENDS Integers, Sequences, SequencesExt

CONSTANTS
  Guilds,
  Workers,
  None,        \* no guild, no worker
  MaxInputs,   \* bound on what the sessions are asked to do
  MaxRough,    \* the same, once scripts were reloaded, a handler stopped or a vm lost
  MaxScripts,  \* bound on the edits of a guild's scripts
  MaxFaults,   \* bound on what goes wrong
  Reloads,     \* TRUE: guilds reload their scripts
  Stops,       \* TRUE: guild handlers are told to shut down
  Faults       \* what may go wrong: a vm's kill, panic or invalid requests, a crash of its process

ASSUME RpcAssumption ==
  /\ None \notin Guilds \cup Workers
  /\ MaxInputs \in Nat /\ MaxRough \in Nat /\ MaxScripts \in Nat /\ MaxFaults \in Nat
  /\ Reloads \in BOOLEAN /\ Stops \in BOOLEAN
  /\ Faults \subseteq {"kill", "panic", "invalid", "crash"}

VARIABLES
  session,    \* per guild: its VmSession
  stored,     \* per guild: the version of its scripts read last, 0: none
  worker,     \* per worker: its pool entry and its process
  vm,         \* per worker: current_state, the vm and its thread
  toWorker,   \* per worker: SchedulerMessages in the socket
  toSession,  \* per worker: WorkerMessages in the socket and the handle's rx
  panics,     \* the guilds whose handler has panicked
  inputs,     \* number of things the sessions have been asked to do
  faults,     \* number of things that have gone wrong
  rough       \* history: scripts were reloaded, a handler told to stop or a vm lost

vars == <<session, stored, worker, vm, toWorker, toSession, panics, inputs, faults, rough>>

\* A message has a kind, the guild it is from or about, a sequence number and a
\* version of the scripts.  Of a WorkerMessage only ScriptStarted names its guild in
\* the code, and only by the script: the others have it here for the properties.
Msg(t, g, n, v) == [t |-> t, g |-> g, n |-> n, v |-> v]
Message == [t : {"create", "dispatch", "complete", "ack", "started", "none", "shutdown"},
            g : Guilds, n : Nat, v : Nat]

\* scripts: the version it has loaded.  then: what it claims a worker for.
\* loaded: the guilds whose ScriptStarted it has taken contributions from.
Session == [at : {"off", "claiming", "ready", "stopping"},
            then : {"load", "dispatch"},
            worker : Workers \cup {None},
            pending_acks : SUBSET Nat,
            force_load_scripts_next : BOOLEAN,
            scripts : Nat,
            id_gen : Nat,
            loaded : SUBSET Guilds]

\* The fields of VmSession::new.
NewSession == [at |-> "off", then |-> "load", worker |-> None, pending_acks |-> {},
               force_load_scripts_next |-> FALSE, scripts |-> 0, id_gen |-> 1, loaded |-> {}]

\* owner: the session that has the handle, None in the pool; lost: a handle that
\* was dropped and not given back.  create: the request it waits with until
\* the thread of the old vm is closed.  runtime_evt: the RuntimeEvents queued.
Worker == [owner : Guilds \cup {None}, lost : BOOLEAN, up : BOOLEAN,
           last_active_guild : Guilds \cup {None},
           create : Seq(Message), runtime_evt : Seq(Message)]

FreshWorker == [owner |-> None, lost |-> FALSE, up |-> TRUE, last_active_guild |-> None,
                create |-> <<>>, runtime_evt |-> <<>>]

\* st: new (the thread has not polled it yet), busy, finished (the event loop is
\* done), ended (its future has completed), panicked.  stop: the Shutdown
\* command of the thread: sent, or lost (taken before there was an isolate).
Vm == [guild : Guilds, scripts : Nat,
       st : {"new", "busy", "finished", "ended", "panicked"},
       stop : {"no", "sent", "lost"},
       cmds : Seq(Message), evts : Seq(Message)]

NoVm == [guild |-> None]
NewVm(g, v) == [guild |-> g, scripts |-> v, st |-> "new", stop |-> "no", cmds |-> <<>>, evts |-> <<>>]

Init ==
  /\ session = [g \in Guilds |-> NewSession]
  /\ stored \in [Guilds -> {0, 1}]
  /\ worker = [w \in Workers |-> FreshWorker]
  /\ vm = [w \in Workers |-> NoVm]
  /\ toWorker = [w \in Workers |-> <<>>]
  /\ toSession = [w \in Workers |-> <<>>]
  /\ panics = {}
  /\ inputs = 0 /\ faults = 0 /\ rough = FALSE

-----------------------------------------------------------------------------

TypeOK ==
  /\ session \in [Guilds -> Session]
  /\ stored \in [Guilds -> Nat]
  /\ worker \in [Workers -> Worker]
  /\ vm \in [Workers -> Vm \cup {NoVm}]
  /\ toWorker \in [Workers -> Seq(Message)]
  /\ toSession \in [Workers -> Seq(Message)]
  /\ panics \subseteq Guilds
  /\ inputs \in Nat /\ faults \in Nat /\ rough \in BOOLEAN
=============================================================================
