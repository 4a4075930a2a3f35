------------------------------- MODULE VmWorker --------------------------------
(***************************************************************************)
(* A vm worker process (cmd/vmworker/src/main.rs), and the vm it runs on a *)
(* thread of its own (components/vmthread, components/vm).  The process    *)
(* selects over three queues: the scheduler's messages, the events of the  *)
(* runtime, which are shared by the vms it runs one after the other, and   *)
(* the events of the current vm.                                           *)
(***************************************************************************)
EXTENDS WorkerRpc

workerOnly == UNCHANGED <<session, stored, panics, inputs, faults, rough>>

\* The select loop can take another step: it is not in wait_shutdown_current_vm.
Looping(w) == worker[w].up /\ worker[w].create = <<>>
HasVm(w) == vm[w] # NoVm

\* The Shutdown command of the vm thread.
StopThread(v) == [v EXCEPT !.stop = IF @ = "no" THEN "sent" ELSE @]

Ack(m) == Msg("ack", m.g, m.n, 0)

\* handle_create_scripts_vm.
CreateScriptsVm(w, m) ==
  \/ /\ HasVm(w) /\ vm[w].guild # m.g
     /\ vm' = [vm EXCEPT ![w] = StopThread(@)]
     /\ worker' = [worker EXCEPT ![w].create = <<m>>]
     /\ UNCHANGED toSession
  \/ /\ HasVm(w) /\ vm[w].guild = m.g
     /\ vm' = [vm EXCEPT ![w].cmds = Append(@, m)]
     /\ toSession' = [toSession EXCEPT ![w] = Append(@, Ack(m))]
     /\ UNCHANGED worker
  \/ /\ ~HasVm(w)
     /\ vm' = [vm EXCEPT ![w] = NewVm(m.g, m.v)]
     /\ toSession' = [toSession EXCEPT ![w] = Append(@, Ack(m))]
     /\ UNCHANGED worker

\* handle_scheduler_cmd.
SchedulerCmd(w) ==
  LET m == Head(toWorker[w])
  IN /\ Looping(w) /\ toWorker[w] # <<>>
     /\ toWorker' = [toWorker EXCEPT ![w] = Tail(@)]
     /\ \/ m.t = "create" /\ CreateScriptsVm(w, m)
        \/ /\ m.t = "dispatch"
           /\ vm' = IF HasVm(w) THEN [vm EXCEPT ![w].cmds = Append(@, m)] ELSE vm
           /\ UNCHANGED <<worker, toSession>>
        \/ /\ m.t = "complete"
           /\ vm' = IF HasVm(w) THEN [vm EXCEPT ![w] = StopThread(@)] ELSE vm
           /\ UNCHANGED <<worker, toSession>>
     /\ workerOnly

\* The rest of handle_create_scripts_vm, once the thread of the other guild's vm is
\* closed.  The events of that vm that were not read yet go with it.
ThreadClosed(w) ==
  LET m == Head(worker[w].create)
  IN /\ worker[w].create # <<>> /\ vm[w].st \in {"ended", "panicked"}
     /\ worker' = [worker EXCEPT ![w].create = <<>>]
     /\ vm' = [vm EXCEPT ![w] = NewVm(m.g, m.v)]
     /\ toSession' = [toSession EXCEPT ![w] = Append(@, Ack(m))]
     /\ UNCHANGED toWorker /\ workerOnly

\* handle_runtime_evt.
HandleRuntimeEvt(w) ==
  /\ Looping(w) /\ worker[w].runtime_evt # <<>>
  /\ worker' = [worker EXCEPT ![w].runtime_evt = Tail(@)]
  /\ toSession' = [toSession EXCEPT ![w] = Append(@, Head(worker[w].runtime_evt))]
  /\ UNCHANGED <<vm, toWorker>> /\ workerOnly

\* Slip: NonePending does not wait for what the runtime has queued.
FinishWithoutDraining(w) ==
  LET e == Head(vm[w].evts)
  IN /\ Looping(w) /\ HasVm(w) /\ vm[w].evts # <<>>
     /\ vm' = IF e.t = "shutdown" THEN [vm EXCEPT ![w] = NoVm] ELSE [vm EXCEPT ![w].evts = Tail(@)]
     /\ toSession' = [toSession EXCEPT ![w] = Append(@, e)]
     /\ UNCHANGED <<worker, toWorker>> /\ workerOnly

\* handle_vm_evt.  VmFinished and Shutdown drain the queue of the runtime first; on
\* Shutdown the vm is gone already, and its thread closes at once.
HandleVmEvt(w) ==
  LET e == Head(vm[w].evts)
      drained == worker[w].runtime_evt
      none == Msg("none", vm[w].guild, 0, 0)
  IN /\ Looping(w) /\ HasVm(w) /\ vm[w].evts # <<>>
     /\ \/ /\ e.t = "ack"
           /\ vm' = [vm EXCEPT ![w].evts = Tail(@)]
           /\ toSession' = [toSession EXCEPT ![w] = Append(@, e)]
           /\ UNCHANGED worker
        \/ /\ e.t = "none"
           /\ vm' = [vm EXCEPT ![w].evts = Tail(@)]
           /\ toSession' = [toSession EXCEPT ![w] = @ \o Append(drained, none)]
           /\ worker' = [worker EXCEPT ![w].runtime_evt = <<>>]
        \/ /\ e.t = "shutdown"
           /\ vm' = [vm EXCEPT ![w] = NoVm]
           /\ toSession' = [toSession EXCEPT ![w] = @ \o drained \o <<e, none>>]
           /\ worker' = [worker EXCEPT ![w].runtime_evt = <<>>]
     /\ UNCHANGED toWorker /\ workerOnly

\* evt_rx is closed: the vm thread has panicked.
VmChannelClosed(w) ==
  /\ Looping(w) /\ HasVm(w) /\ vm[w].st = "panicked" /\ vm[w].evts = <<>>
  /\ vm' = [vm EXCEPT ![w] = NoVm]
  /\ toSession' = [toSession EXCEPT ![w] = Append(@, Msg("shutdown", vm[w].guild, 0, 0))]
  /\ UNCHANGED <<worker, toWorker>> /\ workerOnly

-----------------------------------------------------------------------------

vmOnly == UNCHANGED <<session, stored, toWorker, toSession, panics, inputs, faults, rough>>

Live(w) == worker[w].up /\ HasVm(w)

\* run_script of every script: each reports that it has started.
Started(w, v) ==
  worker' = IF v = 0 THEN worker
            ELSE [worker EXCEPT ![w].runtime_evt = Append(@, Msg("started", vm[w].guild, 0, v))]

\* shutdown_vm: what the thread does with its Shutdown command.  Before the vm has
\* handed out its isolate the reason is reset and nothing is terminated.
ShutdownVm(v) ==
  IF v.st = "new" THEN [v EXCEPT !.stop = "lost"]
  ELSE [v EXCEPT !.st = "ended", !.evts = Append(@, Msg("shutdown", v.guild, 0, 0))]

\* The first poll of the thread: it takes its commands, then polls the new vm.
VmStart(w) ==
  /\ Live(w) /\ vm[w].st = "new"
  /\ vm' = [vm EXCEPT ![w] =
       [(IF @.stop = "sent" THEN ShutdownVm(@) ELSE @) EXCEPT !.st = "busy"]]
  /\ Started(w, vm[w].scripts)
  /\ vmOnly

\* dispatch_event: the event is acknowledged before its handlers run.
DispatchEvent(w, m) ==
  /\ vm' = [vm EXCEPT ![w].st = "busy", ![w].cmds = Tail(@), ![w].evts = Append(@, Ack(m))]
  /\ UNCHANGED worker

\* Slip: a restart drops the commands that are queued behind it.
RestartDropsCmds(w, m) ==
  /\ vm' = [vm EXCEPT ![w].st = "busy", ![w].cmds = <<>>, ![w].scripts = m.v]
  /\ Started(w, m.v)

\* restart: a new isolate that evaluates the new scripts.
Restart(w, m) ==
  /\ vm' = [vm EXCEPT ![w].st = "busy", ![w].cmds = Tail(@), ![w].scripts = m.v]
  /\ Started(w, m.v)

\* handle_cmd.
VmCmd(w) ==
  LET m == Head(vm[w].cmds)
  IN /\ Live(w) /\ vm[w].st \in {"busy", "finished"} /\ vm[w].cmds # <<>>
     /\ \/ m.t = "dispatch" /\ DispatchEvent(w, m)
        \/ m.t = "create" /\ Restart(w, m)
     /\ vmOnly

\* The event loop has nothing left to do, and there is no command.
VmFinished(w) ==
  /\ Live(w) /\ vm[w].st = "busy" /\ vm[w].cmds = <<>>
  /\ vm' = [vm EXCEPT ![w].st = "finished", ![w].evts = Append(@, Msg("none", vm[w].guild, 0, 0))]
  /\ UNCHANGED worker /\ vmOnly

\* The thread takes the Shutdown command: the run loop of the vm ends.
VmStop(w) ==
  /\ Live(w) /\ vm[w].st \in {"busy", "finished"} /\ vm[w].stop = "sent"
  /\ vm' = [vm EXCEPT ![w] = ShutdownVm(@)]
  /\ UNCHANGED worker /\ vmOnly

GoesWrong(fault) ==
  /\ fault \in Faults /\ faults < MaxFaults /\ faults' = faults + 1
  /\ rough' = (rough \/ fault # "crash")
  /\ rough' => inputs <= MaxRough

vmFault == UNCHANGED <<session, stored, toWorker, toSession, panics, inputs>>

\* The vm runs away or is out of memory.  The event loop may just have finished when
\* the termination comes.
VmKilled(w) ==
  LET shutdown == Msg("shutdown", vm[w].guild, 0, 0)
      none == Msg("none", vm[w].guild, 0, 0)
  IN /\ GoesWrong("kill")
     /\ Live(w) /\ vm[w].st = "busy"
     /\ \E evts \in {<<shutdown>>} \cup (IF vm[w].cmds = <<>> THEN {<<none, shutdown>>} ELSE {}) :
          vm' = [vm EXCEPT ![w].st = "ended", ![w].evts = @ \o evts]
     /\ UNCHANGED worker /\ vmFault

VmPanics(w) ==
  /\ GoesWrong("panic")
  /\ Live(w) /\ vm[w].st = "busy"
  /\ vm' = [vm EXCEPT ![w].st = "panicked"]
  /\ UNCHANGED worker /\ vmFault

\* RuntimeEvent::InvalidRequestsExceeded.
InvalidRequests(w) ==
  /\ GoesWrong("invalid")
  /\ Live(w) /\ vm[w].st = "busy"
  /\ worker' = [worker EXCEPT ![w].runtime_evt = Append(@, Msg("shutdown", vm[w].guild, 0, 0))]
  /\ UNCHANGED vm /\ vmFault

\* The process dies.  A suffix of what it has written is lost with it.
Crash(w) ==
  /\ GoesWrong("crash")
  /\ worker[w].up
  /\ worker' = [worker EXCEPT ![w].up = FALSE, ![w].create = <<>>, ![w].runtime_evt = <<>>]
  /\ vm' = [vm EXCEPT ![w] = NoVm]
  /\ toWorker' = [toWorker EXCEPT ![w] = <<>>]
  /\ \E k \in 0 .. Len(toSession[w]) : toSession' = [toSession EXCEPT ![w] = SubSeq(@, 1, k)]
  /\ UNCHANGED <<session, stored, panics, inputs>>

WorkerStep(w) ==
  \/ SchedulerCmd(w)
  \/ ThreadClosed(w)
  \/ HandleRuntimeEvt(w)
  \/ HandleVmEvt(w)
  \/ VmChannelClosed(w)

VmStep(w) ==
  \/ VmStart(w)
  \/ VmCmd(w)
  \/ VmFinished(w)
  \/ VmStop(w)

Fault(w) ==
  \/ VmKilled(w)
  \/ VmPanics(w)
  \/ InvalidRequests(w)
  \/ Crash(w)
=============================================================================
