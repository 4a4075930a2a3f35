--------------------------------- MODULE Timers --------------------------------
(***************************************************************************)
(* The scheduled tasks and interval timers of a guild: the two managers of *)
(* its vm session (cmd/scheduler/src/scheduled_task_manager.rs and         *)
(* interval_timer_manager.rs), their tables (components/stores), and the   *)
(* task operations of the scripts (components/runtime/src/extensions/      *)
(* tasks.rs), which run in the vm while the session uses the same table.   *)
(*                                                                         *)
(* The worker is reduced to what WorkerProtocol shows of one that no other *)
(* guild's messages reach: events and acks keep their order, runtime       *)
(* events have a queue of their own, and nothing of either is left when    *)
(* the worker is returned.  The guild has at least one enabled script.     *)
(***************************************************************************)
EXTENDS Integers, Sequences, FiniteSets

CONSTANTS
  Timers,        \* the interval timers the scripts declare
  Interval,      \* their interval
  Names,         \* the task names the scripts declare
  Keys, NoKey,   \* what a task may have as its unique key, NoKey: none
  Limit,         \* tasks_scheduled_count of the guild's plan
  RetryDelay,    \* the 10 seconds before the next task time is fetched again
  MaxTime,       \* bound on the clock, less than the hour a session without a task sleeps
  MaxSchedules,  \* bound on calls of Tasks.schedule
  MaxOps,        \* bound on calls that are running
  MaxDisturbed   \* bound on reloads and on what goes wrong

ASSUME TimersAssumption ==
  /\ Interval \in Nat \ {0} /\ RetryDelay \in Nat /\ Limit \in Nat
  /\ {MaxTime, MaxSchedules, MaxOps, MaxDisturbed} \subseteq Nat

VARIABLES
  now,             \* the clock
  rows,            \* the table scheduled_tasks, by id
  last_run,        \* the table interval_timers
  running,         \* the guild handler runs
  next_task_time, pending, task_names,       \* scheduled_task_manager::Manager
  loaded_intervals, pendingTimers,           \* interval_timer_manager::Manager
  worker,          \* current_worker: none, up, or dead and not noticed yet
  warm,            \* the worker returned last still has the vm
  toVm,            \* events on their way to the vm, and the ones it has queued
  acks, notices,   \* WorkerMessages on their way: acks, and the runtime's events
  busy, ops,       \* the vm has work; the calls of Tasks.schedule it waits for
  ran,             \* the tasks the vm has run
  schedules, disturbed

session == <<running, next_task_time, pending, task_names, loaded_intervals, pendingTimers, worker, warm>>
queues == <<toVm, acks, notices>>
script == <<busy, ops, ran, schedules>>
vars == <<now, rows, last_run, session, queues, script, disturbed>>

Time == 0 .. MaxTime
Never == -1              \* no such row or timer, no run yet
NotFetched == -1         \* next_task_time is None
NoTask == -2             \* next_task_time is Some(None)
Ids == 0 .. MaxSchedules

Row == [name : Names, key : Keys, at : Time]

\* What goes to the vm: the scripts, or an event.  Acks are the events they are for.
Create == <<"create", 0>>
DiscordEvent == <<"discord", 0>>
TaskEvent(id) == <<"task", id>>
TimerEvent(t) == <<"timer", t>>
Event == {DiscordEvent} \cup {TaskEvent(id) : id \in Ids} \cup {TimerEvent(t) : t \in Timers}

MinOf(S) == CHOOSE x \in S : \A y \in S : x <= y
NoLoadedTimers == [t \in Timers |-> Never]

\* Manager::new of both managers.
NewManagers ==
  /\ next_task_time = NotFetched /\ pending = {} /\ task_names = {}
  /\ loaded_intervals = NoLoadedTimers /\ pendingTimers = {}

\* The table may hold a task with a key, of an earlier run of the scheduler.
Init ==
  /\ now = 0 /\ rows \in {<<>>} \cup [{0} -> {r \in Row : r.key # NoKey /\ r.at = 0}]
  /\ last_run = NoLoadedTimers
  /\ running = FALSE /\ NewManagers
  /\ worker = "none" /\ warm = FALSE
  /\ toVm = <<>> /\ acks = <<>> /\ notices = <<>>
  /\ busy = FALSE /\ ops = {} /\ ran = {}
  /\ schedules = 0 /\ disturbed = 0

Disturbs == disturbed < MaxDisturbed /\ disturbed' = disturbed + 1

-----------------------------------------------------------------------------

\* ParsedIntervalType::next_run_time.
NextRunTime(from) == from + Interval

\* Slip: the tasks sent to the last worker stay pending.
ResetKeepsTasks ==
  /\ next_task_time' = NotFetched /\ task_names' = {}
  /\ loaded_intervals' = NoLoadedTimers /\ pendingTimers' = {}
  /\ UNCHANGED pending

\* Slip: the timers sent to the last worker stay pending.
ResetKeepsTimers ==
  /\ next_task_time' = NotFetched /\ pending' = {} /\ task_names' = {}
  /\ loaded_intervals' = NoLoadedTimers
  /\ UNCHANGED pendingTimers

\* reset_contribs.
ResetContribs ==
  /\ next_task_time' = NotFetched /\ pending' = {} /\ task_names' = {}
  /\ loaded_intervals' = NoLoadedTimers /\ pendingTimers' = {}

\* The rows get_next_task_time and get_triggered_tasks look at.
Waiting == {id \in DOMAIN rows : rows[id].name \in task_names /\ id \notin pending}

\* next_action of the managers: a task or a timer is due.
TaskDue == next_task_time \in Time /\ now > next_task_time
LoadedTimers == {t \in Timers : loaded_intervals[t] # Never}
Triggered == {t \in LoadedTimers \ pendingTimers : now > loaded_intervals[t]}

\* The loop of the guild handler is at its select: init_timers has run.
AtSelect == running /\ next_task_time # NotFetched
\* next_action polls the worker only when nothing is due.
PollsWorker == AtSelect /\ ~TaskDue /\ Triggered = {}

\* init_next_task_time, where the query succeeds and where it fails.
InitTimers ==
  /\ running /\ next_task_time = NotFetched
  /\ \/ /\ next_task_time' = IF Waiting = {} THEN NoTask ELSE MinOf({rows[id].at : id \in Waiting})
        /\ UNCHANGED disturbed
     \/ /\ Disturbs
        /\ next_task_time' = IF now + RetryDelay <= MaxTime THEN now + RetryDelay ELSE MaxTime
  /\ UNCHANGED <<now, rows, last_run, running, pending, task_names, loaded_intervals, pendingTimers,
                 worker, warm, queues, script>>

\* What is left of a table when the acks as have been handled.
AckedTasks(as) == {id \in Ids : \E i \in DOMAIN as : as[i] = TaskEvent(id)}
Without(r, ids) == [id \in DOMAIN r \ ids |-> r[id]]
AckedTimers(as) == {t \in pendingTimers : \E i \in DOMAIN as : as[i] = TimerEvent(t)}

\* Slip: what is pending counts as acknowledged.
BrokenWorkerSettles ==
  /\ rows' = Without(rows, AckedTasks(acks) \cup pending)
  /\ UNCHANGED last_run
  /\ ResetContribs
  /\ acks' = <<>> /\ notices' = <<>>

\* broken_worker: acks and runtime events that are left are handled before the reset.
BrokenWorker ==
  /\ rows' = Without(rows, AckedTasks(acks))
  /\ last_run' = [t \in Timers |->
       IF t \in AckedTimers(acks) /\ loaded_intervals[t] # Never THEN now
       ELSE IF last_run[t] = Never /\ \E i \in DOMAIN notices : notices[i] = "started" THEN now
       ELSE last_run[t]]
  /\ ResetContribs
  /\ acks' = <<>> /\ notices' = <<>>

\* dispatch_worker_evt of the events evts, one after the other, by a manager that
\* has just changed what is pending.
DispatchAll(evts, changed) ==
  \/ /\ worker = "up" /\ changed
     /\ toVm' = toVm \o evts
     /\ UNCHANGED <<rows, last_run, task_names, worker, warm, acks, notices>>
  \/ /\ worker = "dead" /\ changed      \* the sends still succeed
     /\ UNCHANGED <<rows, last_run, task_names, worker, warm, queues>>
  \/ /\ worker = "dead"                 \* the send of evts[i] fails
     /\ \E i \in DOMAIN evts : toVm' = <<Create>> \o SubSeq(evts, i, Len(evts))
     /\ BrokenWorker
     /\ worker' = "up" /\ UNCHANGED warm
  \/ /\ worker = "none" /\ warm /\ changed
     /\ toVm' = evts /\ worker' = "up" /\ warm' = FALSE
     /\ UNCHANGED <<rows, last_run, task_names, acks, notices>>
  \/ /\ worker = "none"                 \* ensure_claim_worker sends the scripts
     /\ ResetContribs
     /\ toVm' = <<Create>> \o evts /\ worker' = "up" /\ warm' = FALSE
     /\ UNCHANGED <<rows, last_run, acks, notices>>

Orders(S) == {s \in [1 .. Cardinality(S) -> S] : \A i, j \in DOMAIN s : s[i] = s[j] => i = j}

\* CheckScheduledTasks: start_triggered_tasks, and the dispatch of what it returns.
CheckScheduledTasks ==
  LET triggered == {id \in Waiting : rows[id].at < now}
      started == /\ pending' = pending \cup triggered /\ next_task_time' = NotFetched
                 /\ UNCHANGED <<loaded_intervals, pendingTimers>>
  IN /\ AtSelect /\ next_task_time \in Time /\ now >= next_task_time
     /\ \/ /\ triggered = {} /\ started
           /\ UNCHANGED <<rows, last_run, task_names, worker, warm, queues, disturbed>>
        \/ /\ triggered # {}
           /\ \E order \in Orders(triggered) :
                DispatchAll([i \in DOMAIN order |-> TaskEvent(order[i])], started)
           /\ UNCHANGED disturbed
        \/ /\ Disturbs
           /\ UNCHANGED <<rows, last_run, next_task_time, pending, task_names, loaded_intervals,
                          pendingTimers, worker, warm, queues>>
     /\ UNCHANGED <<now, running, script>>

\* Slip: a timer that waits for its ack is triggered again.
CheckEveryTimer ==
  LET due == {t \in LoadedTimers : now > loaded_intervals[t]}
  IN /\ AtSelect /\ ~TaskDue /\ due # {} /\ Len(toVm) < 4
     /\ \E order \in Orders(due) :
          DispatchAll([i \in DOMAIN order |-> TimerEvent(order[i])],
                      /\ pendingTimers' = pendingTimers \cup due
                      /\ UNCHANGED <<next_task_time, pending, loaded_intervals>>)
     /\ UNCHANGED <<now, running, script, disturbed>>

\* CheckIntervalTimers: trigger_timers, and the dispatch of what it returns.
CheckIntervalTimers ==
  /\ AtSelect /\ ~TaskDue /\ Triggered # {}
  /\ \E order \in Orders(Triggered) :
       DispatchAll([i \in DOMAIN order |-> TimerEvent(order[i])],
                   /\ pendingTimers' = pendingTimers \cup Triggered
                   /\ UNCHANGED <<next_task_time, pending, loaded_intervals>>)
  /\ UNCHANGED <<now, running, script, disturbed>>

\* send_discord_guild_event to a session that has to claim a worker for it: where it has one
\* that is up, the event changes nothing here.
SendDiscordGuildEvent ==
  /\ AtSelect /\ worker # "up"
  /\ DispatchAll(<<DiscordEvent>>, UNCHANGED <<next_task_time, pending, loaded_intervals, pendingTimers>>)
  /\ UNCHANGED <<now, running, script, disturbed>>

\* ack_triggered_task.
AckTriggeredTask(id) ==
  /\ pending' = pending \ {id} /\ rows' = Without(rows, {id})
  /\ UNCHANGED <<last_run, loaded_intervals, pendingTimers>>

\* update_interval_timer
update_interval_timer(t) == last_run' = [last_run EXCEPT ![t] = now]

\* timer_ack, update_next_run.  Where the update of the table fails, the error is logged.
TimerAck(t) ==
  /\ pendingTimers' = pendingTimers \ {t}
  /\ IF t \in pendingTimers /\ loaded_intervals[t] # Never
       THEN /\ loaded_intervals' = [loaded_intervals EXCEPT ![t] = NextRunTime(now)]
            /\ \/ update_interval_timer(t) /\ UNCHANGED disturbed
               \/ Disturbs /\ UNCHANGED last_run
       ELSE UNCHANGED <<loaded_intervals, last_run, disturbed>>
  /\ UNCHANGED <<pending, rows>>

\* handle_worker_msg of an Ack.
HandleAck ==
  LET e == Head(acks)
  IN /\ PollsWorker /\ acks # <<>> /\ acks' = Tail(acks)
     /\ \/ e[1] = "task" /\ AckTriggeredTask(e[2]) /\ UNCHANGED disturbed
        \/ e[1] = "timer" /\ TimerAck(e[2])
        \/ e = DiscordEvent /\ UNCHANGED <<rows, last_run, pending, loaded_intervals, pendingTimers, disturbed>>
     /\ UNCHANGED <<now, running, next_task_time, task_names, worker, warm, toVm, notices, script>>

\* Slip: the next task time is not fetched again.
ScriptStartedKeepsTime ==
  LET last == [t \in Timers |-> IF last_run[t] = Never THEN now ELSE last_run[t]]
  IN /\ last_run' = last
     /\ loaded_intervals' = [t \in Timers |-> NextRunTime(last[t])]
     /\ task_names' = task_names \cup Names
     /\ UNCHANGED next_task_time

\* script_loaded: script_started of both managers.
ScriptStarted ==
  LET last == [t \in Timers |-> IF last_run[t] = Never THEN now ELSE last_run[t]]
  IN /\ last_run' = last
     /\ loaded_intervals' = [t \in Timers |-> NextRunTime(last[t])]
     /\ task_names' = task_names \cup Names
     /\ next_task_time' = NotFetched

\* handle_worker_msg of ScriptStarted and of TaskScheduled.
HandleNotice ==
  /\ PollsWorker /\ notices # <<>> /\ notices' = Tail(notices)
  /\ \/ Head(notices) = "started" /\ ScriptStarted
     \/ /\ Head(notices) = "scheduled" /\ next_task_time' = NotFetched
        /\ UNCHANGED <<last_run, loaded_intervals, task_names>>
  /\ UNCHANGED <<now, rows, running, pending, pendingTimers, worker, warm, toVm, acks, script, disturbed>>

\* NonePending, with no ack outstanding: the worker is returned.
NonePending ==
  /\ PollsWorker /\ worker = "up" /\ ~busy
  /\ toVm = <<>> /\ acks = <<>> /\ notices = <<>>
  /\ worker' = "none" /\ warm' = TRUE
  /\ UNCHANGED <<now, rows, last_run, running, next_task_time, pending, task_names,
                 loaded_intervals, pendingTimers, queues, script, disturbed>>

\* rx.recv returns None.
WorkerGone ==
  /\ PollsWorker /\ worker = "dead" /\ acks = <<>> /\ notices = <<>>
  /\ BrokenWorker /\ worker' = "none"
  /\ UNCHANGED <<now, running, warm, toVm, script, disturbed>>

\* load_contribs: with a worker the scripts go to it, without one it claims one.
LoadWithoutWorker ==
  /\ worker = "none" /\ ResetContribs
  /\ toVm' = <<Create>> /\ worker' = "up" /\ warm' = FALSE
  /\ UNCHANGED <<rows, last_run, acks, notices>>

LoadContribs ==
  \/ /\ worker = "up" /\ toVm' = Append(toVm, Create)
     /\ UNCHANGED <<rows, last_run, next_task_time, pending, task_names, loaded_intervals,
                    pendingTimers, worker, warm, acks, notices>>
  \/ /\ worker = "dead" /\ BrokenWorker /\ worker' = "none" /\ UNCHANGED <<warm, toVm>>
  \/ LoadWithoutWorker

\* VmSession::start.  A new session has no worker.
Start ==
  /\ ~running /\ running' = TRUE /\ LoadWithoutWorker
  /\ UNCHANGED <<now, script, disturbed>>

\* reload_guild_scripts.  The bound does not count one that finds its worker dead.
ReloadGuildScripts ==
  /\ AtSelect /\ LoadContribs
  /\ IF worker = "dead" THEN UNCHANGED disturbed ELSE Disturbs
  /\ UNCHANGED <<now, running, script>>

-----------------------------------------------------------------------------

\* The vm takes a command.  A restart waits 15 seconds for the calls of the old scripts and
\* then drops them; an event is acknowledged before its handlers run.
VmCommand ==
  LET e == Head(toVm)
  IN /\ worker = "up" /\ toVm # <<>> /\ toVm' = Tail(toVm) /\ busy' = TRUE
     /\ IF e = Create
          THEN notices' = Append(notices, "started") /\ ops' = {} /\ UNCHANGED acks
          ELSE acks' = Append(acks, e) /\ UNCHANGED <<notices, ops>>
     /\ ran' = IF e[1] = "task" THEN ran \cup {e[2]} ELSE ran
     /\ UNCHANGED <<now, rows, last_run, session, schedules, disturbed>>

VmFinished ==
  /\ busy /\ toVm = <<>> /\ ops = {} /\ busy' = FALSE
  /\ UNCHANGED <<now, rows, last_run, session, queues, ops, ran, schedules, disturbed>>

scriptOnly == UNCHANGED <<now, last_run, session, toVm, acks, busy, ran, disturbed>>

\* op_bl_schedule_task up to get_task_count.  Tasks come due before the clock stops.
ScheduleTask ==
  /\ busy /\ schedules < MaxSchedules /\ Cardinality(ops) < MaxOps
  /\ Cardinality(DOMAIN rows) <= Limit
  /\ schedules' = schedules + 1
  /\ \E name \in Names, key \in Keys, at \in 0 .. MaxTime - 1 :
       ops' = ops \cup {[name |-> name, key |-> key, at |-> at, n |-> schedules', stored |-> FALSE]}
  /\ UNCHANGED <<rows, notices>> /\ scriptOnly

RowOf(op) == [name |-> op.name, key |-> op.key, at |-> op.at]

\* create_task: a row with the key is overwritten.  A new id is the number of the call.
CreateTask(op) ==
  LET same == {id \in DOMAIN rows : op.key # NoKey /\ rows[id].name = op.name /\ rows[id].key = op.key}
      id == IF same = {} THEN op.n ELSE CHOOSE i \in same : TRUE
  IN [i \in DOMAIN rows \cup {id} |-> IF i = id THEN RowOf(op) ELSE rows[i]]

\* ... the insert of a call, and then its NewTaskScheduled.
TaskStored(op) ==
  /\ ~op.stored /\ rows' = CreateTask(op)
  /\ ops' = (ops \ {op}) \cup {[op EXCEPT !.stored = TRUE]}
  /\ UNCHANGED <<notices, schedules>> /\ scriptOnly

TaskAnnounced(op) ==
  /\ op.stored /\ ops' = ops \ {op} /\ notices' = Append(notices, "scheduled")
  /\ UNCHANGED <<rows, schedules>> /\ scriptOnly

\* The rows del_task_by_key and del_all_tasks delete: those of a name, with one key or any.
DeletedBy(name, keys) == {id \in DOMAIN rows : rows[id].name = name /\ rows[id].key \in keys}

\* op_bl_del_task, op_bl_del_task_by_key, op_bl_del_all_tasks.
DelTasks ==
  /\ busy
  /\ \E ids \in {{id} : id \in DOMAIN rows}
                \cup {DeletedBy(name, keys) : name \in Names, keys \in {{k} : k \in Keys \ {NoKey}} \cup {Keys}} :
       ids # {} /\ rows' = Without(rows, ids)
  /\ UNCHANGED <<notices, ops, schedules>> /\ scriptOnly

-----------------------------------------------------------------------------

Tick ==
  /\ now < MaxTime /\ now' = now + 1
  /\ UNCHANGED <<rows, last_run, session, queues, script, disturbed>>

\* The worker process dies.  What it has written last is lost with it.
Crash ==
  /\ Disturbs /\ worker = "up" /\ worker' = "dead"
  /\ toVm' = <<>> /\ busy' = FALSE /\ ops' = {}
  /\ \E i \in 0 .. Len(acks) : acks' = SubSeq(acks, 1, i)
  /\ \E i \in 0 .. Len(notices) : notices' = SubSeq(notices, 1, i)
  /\ UNCHANGED <<now, rows, last_run, running, next_task_time, pending, task_names, loaded_intervals,
                 pendingTimers, warm, ran, schedules>>

\* The scheduler process dies, and its workers with it.
SchedulerDies ==
  /\ Disturbs /\ running /\ running' = FALSE
  /\ ResetContribs /\ worker' = "none" /\ warm' = FALSE
  /\ toVm' = <<>> /\ acks' = <<>> /\ notices' = <<>> /\ busy' = FALSE /\ ops' = {}
  /\ UNCHANGED <<now, rows, last_run, ran, schedules>>

OpStep == \E op \in ops : TaskStored(op) \/ TaskAnnounced(op)

Next ==
  \/ Start \/ InitTimers \/ CheckScheduledTasks \/ CheckIntervalTimers
  \/ HandleAck \/ HandleNotice \/ NonePending \/ WorkerGone
  \/ SendDiscordGuildEvent \/ ReloadGuildScripts
  \/ VmCommand \/ VmFinished \/ OpStep \/ ScheduleTask \/ DelTasks
  \/ Tick \/ Crash \/ SchedulerDies

Spec == Init /\ [][Next]_vars

\* The select of the worker serves both queues.  The guild keeps getting events: without one
\* a session that has lost its worker does not claim another.
FairSpec ==
  /\ Spec
  /\ WF_vars(InitTimers \/ NonePending \/ WorkerGone \/ Start)
  /\ WF_vars(CheckScheduledTasks) /\ WF_vars(CheckIntervalTimers)
  /\ WF_vars(HandleAck) /\ WF_vars(HandleNotice)
  /\ WF_vars(VmCommand) /\ WF_vars(VmFinished) /\ WF_vars(OpStep)
  /\ WF_vars(SendDiscordGuildEvent) /\ WF_vars(Tick)

-----------------------------------------------------------------------------

\* Tables and managers have their types, and no two tasks have the same name and key.
TypeOK ==
  /\ now \in Time /\ running \in BOOLEAN
  /\ DOMAIN rows \subseteq Ids /\ \A id \in DOMAIN rows : rows[id] \in Row
  /\ \A i, j \in DOMAIN rows :
       rows[i].name = rows[j].name /\ rows[i].key = rows[j].key /\ rows[i].key # NoKey => i = j
  /\ last_run \in [Timers -> Time \cup {Never}]
  /\ next_task_time \in Time \cup {NotFetched, NoTask}
  /\ pending \subseteq Ids /\ task_names \subseteq Names
  /\ loaded_intervals \in [Timers -> 0 .. MaxTime + Interval \cup {Never}] /\ pendingTimers \subseteq Timers
  /\ worker \in {"none", "up", "dead"} /\ warm \in BOOLEAN
  /\ toVm \in Seq(Event \cup {Create}) /\ acks \in Seq(Event) /\ notices \in Seq({"started", "scheduled"})
  /\ ran \subseteq Ids

\* The cached next_task_time is never later than a task that waits, but for the delay
\* after a failed query: scripts schedule tasks behind the session's back, and the message
\* that tells it is on its way, or about to be sent, or gone with the worker.
NextTimeFresh ==
  /\ next_task_time # NotFetched /\ worker # "dead"
  /\ notices = <<>>
  /\ \A op \in ops : ~op.stored
  => \A id \in Waiting :
       next_task_time # NoTask /\ (next_task_time <= rows[id].at \/ next_task_time <= now + RetryDelay)

\* The session deletes a task only when its event has reached the vm: not when it is
\* triggered, and not for an ack of something else, whatever crashes in between.  What has run
\* is the id: a task that is overwritten between its event and the ack is deleted with it.
DeletedHaveRun ==
  [][<<pending, toVm, acks>>' # <<pending, toVm, acks>> =>
       DOMAIN rows \ DOMAIN rows' \subseteq ran]_vars

\* The number of events e that are on their way to the vm, or the acks of which are on
\* their way back.
InFlight(e) ==
  Cardinality({i \in DOMAIN toVm : toVm[i] = e}) + Cardinality({i \in DOMAIN acks : acks[i] = e})

\* A timer has two events in flight at most: the one the worker was claimed for, whose
\* pending entry the claim resets, and one more.
InFlightAtMostTwice == \A t \in Timers : InFlight(TimerEvent(t)) <= 2

\* A task that a script handles is run or deleted in the end, through crashes of the worker
\* and the scheduler, reloads and changes of its time.
TasksRun ==
  \A id \in Ids :
    id \in DOMAIN rows ~> id \notin DOMAIN rows

\* Every interval timer is loaded and up to date again and again, whatever is reset,
\* reloaded or lost in between: none stays overdue or pending for ever.
TimersRun == \A t \in Timers : []<>(loaded_intervals[t] >= now)
=============================================================================
