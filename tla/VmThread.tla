------------------------------- MODULE VmThread --------------------------------
(***************************************************************************)
(* The thread a vm runs on (components/vmthread), the future of the vm     *)
(* (components/vm) as that thread polls it, and the task that looks for    *)
(* runaway scripts.  A poll of the thread takes its commands, then polls   *)
(* the vm, which runs javascript until it yields.  The other task pings    *)
(* the thread and terminates the vm that keeps it from answering.          *)
(***************************************************************************)
EXTENDS Naturals, Sequences

CONSTANTS MaxWakes,      \* bound: how often an op or a timer of a script wakes the vm
          MaxCmds,       \* bound: commands for the vm
          MaxBlocks      \* bound: how often a script blocks the thread or fills its heap

VARIABLES cmds,            \* rcv_cmd: the commands the thread has not taken.  It takes all at
                           \* once, and only the answer to the last ping is waited for: a set
          thread,          \* "idle", "poll" (the vm is polled) or "done"
          shutting_down,   \* VmThreadFuture::shutting_down
          vm,              \* where the future of the vm is
          handle,          \* VmShutdownHandle, shared with the other tasks
          woken,           \* the vm has something to do besides its wakeup channel
          expired,         \* the 15 s of stop_vm are over
          running_vm,      \* the slot set_running_vm writes
          stuck,           \* the script does not come back on its own
          interrupt,       \* terminate_execution was called on the isolate
          evts,            \* the reasons the vm has reported with VmEvent::Shutdown
          checker,         \* where runaway_checker is
          pong,            \* the answer to its last ping has come
          wakes, taken, blocks
fut == <<woken, expired, running_vm, stuck, interrupt>>
env == <<cmds, shutting_down, checker, pong>>
count == <<wakes, taken, blocks>>
threadVars == <<thread, vm, handle, evts, fut, env, count>>

\* The vm runs javascript in these; it only looks at `terminated` between two ticks.
Scripts == {"loading", "running", "restarting", "stopping"}
Alive == Scripts \cup {"created", "check"}

ThreadInit ==
  /\ cmds = {"start"} /\ thread = "idle" /\ shutting_down = FALSE
  /\ vm = "none" /\ evts = <<>>
  /\ handle = [isolate |-> FALSE, terminated |-> FALSE, reason |-> "none", wakeup |-> FALSE]
  /\ woken = FALSE /\ expired = FALSE /\ running_vm = FALSE /\ stuck = FALSE /\ interrupt = FALSE
  /\ checker = "ping" /\ pong = FALSE
  /\ wakes = 0 /\ taken = 0 /\ blocks = 0

-----------------------------------------------------------------------------

\* Slip: a vm that sleeps is not told to look at the flag.
ShutdownWithoutWakeup(h, reason) ==
  [h EXCEPT !.terminated = @ \/ h.isolate,
            !.reason = IF h.isolate THEN reason ELSE "none"]

\* VmShutdownHandle::shutdown_vm.  Before the vm has handed out its isolate the reason
\* is reset and nothing is terminated.
shutdown_vm(h, reason) ==
  [h EXCEPT !.terminated = @ \/ h.isolate,
            !.reason = IF h.isolate THEN reason ELSE "none",
            !.wakeup = TRUE]

\* One poll of the thread begins: it takes all its commands, none any more when it shuts
\* down, and then polls the vm.  With no vm left and shutdown asked for it is done.
Poll ==
  LET batch == IF shutting_down THEN {} ELSE cmds
      has(c) == c \in batch
      vm1 == IF has("start") THEN "created" ELSE vm
  IN /\ thread = "idle"
     /\ batch # {} \/ woken \/ (vm = "running" /\ handle.wakeup)
     /\ cmds' = IF shutting_down THEN cmds ELSE {}
     /\ pong' = (pong \/ has("ping"))
     /\ shutting_down' = (shutting_down \/ has("shutdown"))
     /\ vm' = vm1
     /\ handle' = IF has("shutdown") /\ vm1 \in Alive THEN shutdown_vm(handle, "ThreadTermination")
                  ELSE handle
     /\ thread' = IF vm1 \in Alive THEN "poll" ELSE IF shutting_down' THEN "done" ELSE "idle"
     /\ running_vm' = (vm1 \in Alive) /\ woken' = FALSE
     /\ UNCHANGED <<evts, expired, stuck, interrupt, checker, count>>

\* The vm is polled, and its script does not block.
InVm == thread = "poll" /\ ~stuck

\* create_run: the isolate is there, its handle is given out, the scripts are loaded.
VmCreated ==
  /\ InVm /\ vm = "created"
  /\ vm' = "loading" /\ handle' = [handle EXCEPT !.isolate = TRUE]
  /\ UNCHANGED <<thread, evts, fut, env, count>>

\* The last run_script is over: run begins, or goes on after a restart.
Loaded ==
  /\ InVm /\ vm = "loading"
  /\ vm' = "check"
  /\ UNCHANGED <<thread, handle, evts, fut, env, count>>

\* The condition of run's loop.  A vm that ends with its thread first runs stop_vm; any
\* other reports its reason, and its future is over.
CheckTerminated ==
  /\ InVm /\ vm = "check"
  /\ \/ /\ ~handle.terminated
        /\ vm' = "running"
        /\ UNCHANGED <<thread, running_vm, expired, evts>>
     \/ /\ handle.terminated /\ handle.reason = "ThreadTermination"
        /\ vm' = "stopping" /\ expired' = FALSE
        /\ UNCHANGED <<thread, running_vm, evts>>
     \/ /\ handle.terminated /\ handle.reason # "ThreadTermination"
        /\ vm' = "ended" /\ evts' = Append(evts, handle.reason)
        /\ running_vm' = FALSE /\ thread' = IF shutting_down THEN "done" ELSE "idle"
        /\ UNCHANGED expired
  /\ UNCHANGED <<handle, woken, stuck, interrupt, env, count>>

\* TickFuture: the wakeup channel comes first.
Wakeup ==
  /\ InVm /\ vm = "running" /\ handle.wakeup
  /\ vm' = "check" /\ handle' = [handle EXCEPT !.wakeup = FALSE]
  /\ UNCHANGED <<thread, evts, fut, env, count>>

\* TickFuture: a command comes next.  Restart runs stop_vm first.
VmCmd ==
  /\ InVm /\ vm = "running" /\ ~handle.wakeup
  /\ taken < MaxCmds /\ taken' = taken + 1
  /\ vm' \in {"check", "restarting"} /\ expired' = FALSE
  /\ UNCHANGED <<thread, handle, evts, woken, running_vm, stuck, interrupt, env, wakes, blocks>>

\* stop_vm of a restart is over: a new isolate, which nobody has interrupted, loads the
\* scripts.
Restarted ==
  /\ InVm /\ vm = "restarting"
  /\ vm' = "loading" /\ interrupt' = FALSE
  /\ UNCHANGED <<thread, handle, evts, woken, expired, running_vm, stuck, env, count>>

\* stop_vm of a vm that ends with its thread is over.
Stopped ==
  /\ InVm /\ vm = "stopping"
  /\ vm' = "ended" /\ evts' = Append(evts, "ThreadTermination")
  /\ running_vm' = FALSE /\ thread' = "done"
  /\ UNCHANGED <<handle, woken, expired, stuck, interrupt, env, count>>

\* The event loop is pending or empty, and the poll is over.
Pending ==
  /\ InVm /\ vm \in Scripts
  /\ vm = "running" => ~handle.wakeup
  /\ vm \in {"restarting", "stopping"} => ~expired
  /\ thread' = "idle" /\ running_vm' = FALSE
  /\ UNCHANGED <<vm, handle, evts, woken, expired, stuck, interrupt, env, count>>

\* An op or a timer of the script is ready.
Wake ==
  /\ thread = "idle" /\ vm \in Alive /\ ~woken
  /\ wakes < MaxWakes /\ wakes' = wakes + 1
  /\ woken' = TRUE
  /\ UNCHANGED <<thread, vm, handle, evts, expired, running_vm, stuck, interrupt, env, taken, blocks>>

\* The timeout of stop_vm.
StopTimeout ==
  /\ thread = "idle" /\ vm \in {"restarting", "stopping"} /\ ~expired
  /\ woken' = TRUE /\ expired' = TRUE
  /\ UNCHANGED <<thread, vm, handle, evts, running_vm, stuck, interrupt, env, count>>

\* A script enters a loop it does not leave.
Block ==
  /\ InVm /\ vm \in Scripts /\ ~interrupt
  /\ blocks < MaxBlocks /\ blocks' = blocks + 1
  /\ stuck' = TRUE
  /\ UNCHANGED <<thread, vm, handle, evts, woken, expired, running_vm, interrupt, env, wakes, taken>>

\* A script comes near its heap limit: the callback create_isolate installs.
NearHeapLimit ==
  /\ InVm /\ vm \in Scripts
  /\ blocks < MaxBlocks /\ blocks' = blocks + 1
  /\ handle' = shutdown_vm(handle, "OutOfMemory") /\ interrupt' = TRUE
  /\ UNCHANGED <<thread, vm, evts, woken, expired, running_vm, stuck, env, wakes, taken>>

\* v8 leaves the script that is interrupted.
Interrupted ==
  /\ thread = "poll" /\ vm \in Scripts /\ interrupt
  /\ stuck' = FALSE /\ interrupt' = FALSE
  /\ UNCHANGED <<thread, vm, handle, evts, woken, expired, running_vm, env, count>>

VmStep ==
  VmCreated \/ Loaded \/ CheckTerminated \/ Wakeup \/ VmCmd \/ Restarted \/ Stopped \/ Pending

-----------------------------------------------------------------------------

checkerOnly ==
  UNCHANGED <<thread, vm, evts, woken, expired, running_vm, stuck, shutting_down, count>>

\* runaway_checker sends its next ping; when the thread is gone it returns.
Ping ==
  /\ checker = "ping"
  /\ IF thread = "done" THEN checker' = "returned" /\ UNCHANGED <<cmds, pong>>
     ELSE checker' = "wait" /\ pong' = FALSE /\ cmds' = cmds \cup {"ping"}
  /\ UNCHANGED <<handle, interrupt>> /\ checkerOnly

\* There is a pong, or the thread is gone and has dropped the ping.  The task sleeps for
\* what is left of the interval; when nothing is left the subtraction panics.
Pong ==
  /\ checker = "wait" /\ (pong \/ thread = "done")
  /\ checker' \in {"ping", "dead"}
  /\ UNCHANGED <<cmds, pong, handle, interrupt>> /\ checkerOnly

\* The interval is over without a pong.
NoPong ==
  /\ checker = "wait" /\ ~pong /\ thread # "done"
  /\ checker' = "kill"
  /\ UNCHANGED <<cmds, pong, handle, interrupt>> /\ checkerOnly

\* Slip: the runaway vm is only asked to end.
KillUnforced ==
  /\ checker = "kill" /\ checker' = "ping"
  /\ handle' = IF running_vm THEN shutdown_vm(handle, "Runaway") ELSE handle
  /\ UNCHANGED <<cmds, pong, interrupt>> /\ checkerOnly

\* Whatever vm runs by now is terminated.
Kill ==
  /\ checker = "kill" /\ checker' = "ping"
  /\ handle' = IF running_vm THEN shutdown_vm(handle, "Runaway") ELSE handle
  /\ interrupt' = (interrupt \/ (running_vm /\ handle.isolate))
  /\ UNCHANGED <<cmds, pong>> /\ checkerOnly

\* The worker shuts the thread down: when the vm has reported its end, or on a command.
WorkerShutdown ==
  /\ thread # "done" /\ ~shutting_down
  /\ "shutdown" \notin cmds /\ cmds' = cmds \cup {"shutdown"}
  /\ UNCHANGED <<thread, vm, handle, evts, fut, shutting_down, checker, pong, count>>

CheckerStep == Ping \/ Pong \/ NoPong \/ Kill

ThreadNext ==
  \/ Poll \/ VmStep \/ Interrupted
  \/ Wake \/ StopTimeout \/ Block \/ NearHeapLimit
  \/ CheckerStep \/ WorkerShutdown

\* The runtime polls a thread that has something to do; v8, the timer and the checker's
\* task go on; the worker answers the vm's last event.  A poll that is not blocked comes
\* to an end.
ThreadFairness ==
  /\ WF_threadVars(Poll) /\ WF_threadVars(VmStep) /\ WF_threadVars(Interrupted)
  /\ WF_threadVars(StopTimeout) /\ WF_threadVars(CheckerStep)
  /\ WF_threadVars(evts # <<>> /\ WorkerShutdown)

\* Every variable stays in its range; the thread reports the end of its vm once.
ThreadTypeOK ==
  /\ cmds \subseteq {"start", "ping", "shutdown"}
  /\ thread \in {"idle", "poll", "done"} /\ vm \in Alive \cup {"none", "ended"}
  /\ handle \in [isolate : BOOLEAN, terminated : BOOLEAN, wakeup : BOOLEAN,
                 reason : {"none", "Unknown", "Runaway", "ThreadTermination", "OutOfMemory"}]
  /\ {shutting_down, woken, expired, running_vm, stuck, interrupt, pong} \subseteq BOOLEAN
  /\ Len(evts) <= 1
  /\ checker \in {"ping", "wait", "kill", "dead", "returned"}

\* A script that blocks the thread is stopped, as long as the checker's task lives.
RunawayStopped == stuck ~> (~stuck \/ checker = "dead")

\* A vm that was terminated while it was in its run loop ends, and its thread with it.
TerminatedEnds ==
  (handle.terminated /\ vm \in {"check", "running", "stopping"})
    ~> (thread = "done" \/ checker = "dead")

ThreadSpec == ThreadInit /\ [][ThreadNext]_threadVars /\ ThreadFairness
===============================================================================
