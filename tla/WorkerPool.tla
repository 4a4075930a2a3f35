------------------------------ MODULE WorkerPool ------------------------------
(***************************************************************************)
(* VmWorkerPool of the scheduler process (cmd/scheduler/src/               *)
(* vmworkerpool.rs) with the listener its worker processes connect to      *)
(* (worker_listener.rs).  Guild sessions ask the pool for a vm worker and  *)
(* hand it back; the pool keeps one list of idle workers and one queue of  *)
(* waiting requests per premium tier, all behind one mutex.                *)
(*                                                                         *)
(* One action is one critical section of that mutex, together with what    *)
(* the calling task does to a worker handle only it can see.               *)
(***************************************************************************)
EXTENDS Integers, Sequences, FiniteSets

CONSTANTS
  Guilds,                 \* the guilds whose sessions use the pool
  NoGuild,                \* last_active_guild of a worker nobody has used
  MAX_PREMIUM_SLOT_TIER,  \* 2 in the code: free, lite, premium
  Boot,                   \* the tiers of the workers main spawns, in order
  MaxWorkerId,            \* bound: a worker breaks only while ids remain
  StartFaults             \* what can go wrong while a process starts

Main == "main"
Tiers == 0..MAX_PREMIUM_SLOT_TIER
Callers == Guilds \cup {Main}

ASSUME PoolAssumption ==
  /\ MAX_PREMIUM_SLOT_TIER \in Nat
  /\ NoGuild \notin Guilds
  /\ Main \notin Guilds
  /\ Boot \in Seq(Tiers)
  /\ MaxWorkerId \in Nat
  /\ StartFaults \subseteq {"early_hello", "crash"}

VARIABLES
  worker_id_gen,   \* last worker id handed out
  boot,            \* tiers main has still to spawn a worker for
  spawning,        \* per caller: the worker it is inside spawn_worker with
  processes,       \* ids of worker processes that have not said Hello yet
  pending_starts,  \* workers spawned and not connected
  connecting,      \* handles worker_connected has built and not pooled yet
  pools,           \* per tier: idle workers, in the order they were pushed
  req_queues,      \* per tier: sessions waiting for a worker, oldest first
  session,         \* per guild: where its session is with respect to the pool
  older            \* <<v, w>>: returned_at of worker v is before that of w

vars == <<worker_id_gen, boot, spawning, processes, pending_starts, connecting,
          pools, req_queues, session, older>>

startVars == <<boot, spawning, processes, pending_starts, connecting>>

PendingWorkerHandle == [worker_id : Nat, priority_index : Tiers]

WorkerHandle == [worker_id         : Nat,
                 priority_index    : Tiers,
                 last_active_guild : Guilds \cup {NoGuild}]

\* A caller outside spawn_worker, and a session without a worker: ids start at 2.
NotSpawning == [worker_id |-> 0, priority_index |-> 0]
NoWorker == [worker_id |-> 0, priority_index |-> 0, last_active_guild |-> NoGuild]

\* idle: between calls; queued: awaiting the oneshot; granted: the oneshot holds
\* the worker; holding: it is the session's current worker; returning: inside
\* return_worker, before the lock; spawning: inside return_worker(broken).
SessionStates == {"idle", "queued", "granted", "holding", "returning", "spawning"}
Session == [at : SessionStates, tier : Tiers, worker : WorkerHandle]

Idle == [at |-> "idle", tier |-> 0, worker |-> NoWorker]
HasWorker(g) == session[g].at \in {"granted", "holding", "returning"}

Init ==
  /\ worker_id_gen = 1
  /\ boot = Boot
  /\ spawning = [c \in Callers |-> NotSpawning]
  /\ processes = {}
  /\ pending_starts = {}
  /\ connecting = {}
  /\ pools = [i \in Tiers |-> <<>>]
  /\ req_queues = [i \in Tiers |-> <<>>]
  /\ session = [g \in Guilds |-> Idle]
  /\ older = {}

-----------------------------------------------------------------------------
(* Asking for a worker: req_worker and inner_get_worker *)

Without(s, k) == SubSeq(s, 1, k - 1) \o SubSeq(s, k + 1, Len(s))

\* Idle worker k of pool i last ran guild g.
IsWarm(g, i, k) == pools[i][k].last_active_guild = g

\* The first such worker of the highest pool at or below tier t that has one.
WarmChoice(g, t, i, k) ==
  /\ IsWarm(g, i, k)
  /\ \A l \in 1..(k - 1) : ~IsWarm(g, i, l)
  /\ \A j \in (i + 1)..t : \A l \in DOMAIN pools[j] : ~IsWarm(g, j, l)

\* Slip: the search for a warm worker does not come first.
ColdChoiceFirst(g, t, i, k) ==
  /\ \A j \in (i + 1)..t : pools[j] = <<>>
  /\ \A l \in DOMAIN pools[i] \ {k} :
       <<pools[i][k].worker_id, pools[i][l].worker_id>> \in older

\* Without a warm one: the worker of the highest non-empty pool at or below
\* tier t that was returned the longest ago.
ColdChoice(g, t, i, k) ==
  /\ \A j \in 0..t : \A l \in DOMAIN pools[j] : ~IsWarm(g, j, l)
  /\ \A j \in (i + 1)..t : pools[j] = <<>>
  /\ \A l \in DOMAIN pools[i] \ {k} :
       <<pools[i][k].worker_id, pools[i][l].worker_id>> \in older

\* Slip: the worker is not removed from its pool.
TakeWorkerKeeping(g, t, i, k) ==
  /\ session' = [session EXCEPT ![g] =
       [at |-> "holding", tier |-> t,
        worker |-> [pools[i][k] EXCEPT !.last_active_guild = g]]]
  /\ UNCHANGED <<pools, req_queues>>

\* The worker leaves its pool and is claimed: last_active_guild = guild.
TakeWorker(g, t, i, k) ==
  /\ pools' = [pools EXCEPT ![i] = Without(@, k)]
  /\ session' = [session EXCEPT ![g] =
       [at |-> "holding", tier |-> t,
        worker |-> [pools[i][k] EXCEPT !.last_active_guild = g]]]
  /\ UNCHANGED req_queues

QueueRequest(g, t) ==
  /\ \A j \in 0..t : pools[j] = <<>>
  /\ req_queues' = [req_queues EXCEPT ![t] = Append(@, g)]
  /\ session' = [session EXCEPT ![g] = [at |-> "queued", tier |-> t, worker |-> NoWorker]]
  /\ UNCHANGED pools

\* The session calls req_worker at the tier its guild handler fetched.  The
\* scheduler, and so every session, starts after main has spawned the workers.
ReqWorker(g, t) ==
  /\ boot = <<>> /\ spawning[Main] = NotSpawning
  /\ session[g].at = "idle"
  /\ \/ \E i \in 0..t : \E k \in DOMAIN pools[i] :
          /\ WarmChoice(g, t, i, k) \/ ColdChoice(g, t, i, k)
          /\ TakeWorker(g, t, i, k)
     \/ QueueRequest(g, t)
  /\ UNCHANGED <<worker_id_gen, startVars, older>>

\* The awaited oneshot resolves and req_worker claims the worker it carried.
ReceiveWorker(g) ==
  /\ session[g].at = "granted"
  /\ session' = [session EXCEPT ![g].at = "holding",
                                ![g].worker.last_active_guild = g]
  /\ UNCHANGED <<worker_id_gen, startVars, pools, req_queues, older>>

-----------------------------------------------------------------------------
(* Handing a worker over or back *)

\* Slip: the request that came last is served first.
ServeLast(i, w, sessions) ==
  LET q == req_queues[i] IN
  /\ req_queues' = [req_queues EXCEPT ![i] = SubSeq(@, 1, Len(@) - 1)]
  /\ session' = [sessions EXCEPT ![q[Len(q)]] = [at |-> "granted", tier |-> i, worker |-> w]]
  /\ UNCHANGED pools

\* What add_worker_to_pool does with worker w: serve the queue of tier i ...
Serve(i, w, sessions) ==
  /\ req_queues' = [req_queues EXCEPT ![i] = Tail(@)]
  /\ session' = [sessions EXCEPT ![Head(req_queues[i])] =
                   [at |-> "granted", tier |-> i, worker |-> w]]
  /\ UNCHANGED pools

\* ... or make it idle in pool i.
Push(i, w, sessions) ==
  /\ pools' = [pools EXCEPT ![i] = Append(@, w)]
  /\ session' = sessions
  /\ UNCHANGED req_queues

\* The tiers from i on with a waiting request.
AskingFrom(i) == {j \in i..MAX_PREMIUM_SLOT_TIER : req_queues[j] # <<>>}

\* Slip: the loop over the queues starts at the worker's own tier.
AddWorkerToLowestTier(w, sessions) ==
  \/ \E i \in AskingFrom(w.priority_index) :
       /\ \A j \in AskingFrom(w.priority_index) : i <= j
       /\ Serve(i, w, sessions)
  \/ AskingFrom(w.priority_index) = {} /\ Push(w.priority_index, w, sessions)

\* add_worker_to_pool, called with the sessions as the caller leaves them: the
\* oldest request of the highest tier at or above the worker's gets it, and only
\* when there is none the worker becomes idle.
AddWorkerToPool(w, sessions) ==
  \/ \E i \in AskingFrom(w.priority_index) :
       /\ \A j \in AskingFrom(w.priority_index) : j <= i
       /\ Serve(i, w, sessions)
  \/ AskingFrom(w.priority_index) = {} /\ Push(w.priority_index, w, sessions)

LiveIds == {h.worker_id : h \in connecting}
           \cup {session[g].worker.worker_id : g \in {x \in Guilds : HasWorker(x)}}
           \cup UNION {{pools[i][k].worker_id : k \in DOMAIN pools[i]} : i \in Tiers}

\* returned_at = Instant::now(): from here on every other worker is older.
Stamp(id) == {e \in older : e[1] # id} \cup {<<v, id>> : v \in LiveIds \ {id}}

\* Slip: a session of the highest tier keeps its worker.
ReturnWorkerBelowTop(g) ==
  /\ session[g].at = "holding" /\ session[g].tier < MAX_PREMIUM_SLOT_TIER
  /\ older' = Stamp(session[g].worker.worker_id)
  /\ session' = [session EXCEPT ![g].at = "returning"]
  /\ UNCHANGED <<worker_id_gen, startVars, pools, req_queues>>

\* return_worker(worker, false), up to taking the lock.
ReturnWorker(g) ==
  /\ session[g].at = "holding"
  /\ older' = Stamp(session[g].worker.worker_id)
  /\ session' = [session EXCEPT ![g].at = "returning"]
  /\ UNCHANGED <<worker_id_gen, startVars, pools, req_queues>>

\* ... and the rest of it.
ReturnedToPool(g) ==
  /\ session[g].at = "returning"
  /\ AddWorkerToPool(session[g].worker, [session EXCEPT ![g] = Idle])
  /\ UNCHANGED <<worker_id_gen, startVars, older>>

-----------------------------------------------------------------------------
(* Starting worker processes *)

\* spawn_worker up to the lock of add_pending_worker: the process runs already.
SpawnWorker(caller, tier) ==
  /\ worker_id_gen' = worker_id_gen + 1
  /\ processes' = processes \cup {worker_id_gen'}
  /\ spawning' = [spawning EXCEPT ![caller] =
                    [worker_id |-> worker_id_gen', priority_index |-> tier]]

\* spawn_workers, called by main for the free, the lite and the premium workers.
SpawnWorkers ==
  /\ boot # <<>> /\ spawning[Main] = NotSpawning
  /\ SpawnWorker(Main, Head(boot))
  /\ boot' = Tail(boot)
  /\ UNCHANGED <<pending_starts, connecting, pools, req_queues, session, older>>

\* Slip: the replacement of a broken worker is spawned in the free tier.
ReturnBrokenAsFree(g) ==
  /\ session[g].at = "holding"
  /\ worker_id_gen < MaxWorkerId
  /\ SpawnWorker(g, 0)
  /\ session' = [session EXCEPT ![g].at = "spawning", ![g].worker = NoWorker]
  /\ older' = {e \in older : session[g].worker.worker_id \notin {e[1], e[2]}}
  /\ UNCHANGED <<boot, pending_starts, connecting, pools, req_queues>>

\* return_worker(worker, true): the handle is dropped and a worker of the same
\* tier spawned in its place.
ReturnBroken(g) ==
  /\ session[g].at = "holding"
  /\ worker_id_gen < MaxWorkerId
  /\ SpawnWorker(g, session[g].worker.priority_index)
  /\ session' = [session EXCEPT ![g].at = "spawning", ![g].worker = NoWorker]
  /\ older' = {e \in older : session[g].worker.worker_id \notin {e[1], e[2]}}
  /\ UNCHANGED <<boot, pending_starts, connecting, pools, req_queues>>

AddPendingWorker(c) ==
  /\ spawning[c] # NotSpawning
  /\ pending_starts' = pending_starts \cup {spawning[c]}
  /\ spawning' = [spawning EXCEPT ![c] = NotSpawning]
  /\ session' = IF c = Main THEN session ELSE [session EXCEPT ![c] = Idle]
  /\ UNCHANGED <<worker_id_gen, boot, processes, connecting, pools, req_queues, older>>

\* handle_stream reads Hello(id); worker_connected looks the id up.  A process
\* unknown to pending_starts is let go: its stream is dropped.  That needs the
\* process to be faster than the insertion that follows its spawn.
Hello(id) ==
  /\ id \in processes
  /\ processes' = processes \ {id}
  /\ \/ \E p \in pending_starts :
          /\ p.worker_id = id
          /\ pending_starts' = pending_starts \ {p}
          /\ connecting' = connecting \cup
               {[worker_id |-> id, priority_index |-> p.priority_index,
                 last_active_guild |-> NoGuild]}
          /\ older' = Stamp(id)
     \/ /\ "early_hello" \in StartFaults
        /\ \A p \in pending_starts : p.worker_id # id
        /\ UNCHANGED <<pending_starts, connecting, older>>
  /\ UNCHANGED <<worker_id_gen, boot, spawning, pools, req_queues, session>>

\* worker_connected dropped the lock to build the handle and takes it again.
WorkerConnected(h) ==
  /\ h \in connecting
  /\ connecting' = connecting \ {h}
  /\ AddWorkerToPool(h, session)
  /\ UNCHANGED <<worker_id_gen, boot, spawning, processes, pending_starts, older>>

\* A worker process exits before its Hello.
StartCrash(id) ==
  /\ "crash" \in StartFaults
  /\ id \in processes
  /\ processes' = processes \ {id}
  /\ UNCHANGED <<worker_id_gen, boot, spawning, pending_starts, connecting, pools,
                 req_queues, session, older>>

-----------------------------------------------------------------------------

SessionStep(g) ==
  \/ \E t \in Tiers : ReqWorker(g, t)
  \/ ReceiveWorker(g)
  \/ ReturnWorker(g)
  \/ ReturnedToPool(g)
  \/ ReturnBroken(g)

Next ==
  \/ \E g \in Guilds : SessionStep(g)
  \/ SpawnWorkers
  \/ \E c \in Callers : AddPendingWorker(c)
  \/ \E id \in processes : Hello(id) \/ StartCrash(id)
  \/ \E h \in connecting : WorkerConnected(h)

Spec == Init /\ [][Next]_vars

\* A session gives its worker back once its vm has nothing pending or has broken;
\* every task that is runnable runs; processes that start connect.
Fairness ==
  /\ \A g \in Guilds :
       /\ WF_vars(ReceiveWorker(g))
       /\ WF_vars(ReturnWorker(g) \/ ReturnBroken(g))
       /\ WF_vars(ReturnedToPool(g))
  /\ WF_vars(SpawnWorkers)
  /\ \A c \in Callers : WF_vars(AddPendingWorker(c))
  /\ \A id \in 2..MaxWorkerId :
       /\ WF_vars(Hello(id))
       /\ WF_vars(\E h \in connecting : h.worker_id = id /\ WorkerConnected(h))

FairSpec == Spec /\ Fairness

-----------------------------------------------------------------------------
(* Properties *)

\* Every variable has the shape of the field it models; the workers in the idle
\* list of a tier belong to that tier.
TypeOK ==
  /\ worker_id_gen \in Nat
  /\ boot \in Seq(Tiers)
  /\ spawning \in [Callers -> PendingWorkerHandle]
  /\ processes \subseteq Nat
  /\ pending_starts \subseteq PendingWorkerHandle
  /\ connecting \subseteq WorkerHandle
  /\ pools \in [Tiers -> Seq(WorkerHandle)]
  /\ \A i \in Tiers : \A k \in DOMAIN pools[i] : pools[i][k].priority_index = i
  /\ req_queues \in [Tiers -> Seq(Guilds)]
  /\ session \in [Guilds -> Session]
  /\ older \subseteq Nat \X Nat

\* No request waits while a worker it may use is idle: inner_get_worker queues
\* only when the pools it searches are empty, and add_worker_to_pool serves the
\* queues before it fills a pool.
WorkConserving ==
  \A t \in Tiers : req_queues[t] # <<>> => \A i \in 0..t : pools[i] = <<>>

\* The queues hold exactly the sessions that wait, each once and in the queue of
\* its tier: add_worker_to_pool never sends to a request nobody awaits ("worker
\* request dropped") and no waiting session is forgotten ("the tx end should
\* never be dropped").
QueuesExact ==
  /\ \A t \in Tiers : \A k \in DOMAIN req_queues[t] :
       LET g == req_queues[t][k]
       IN /\ session[g].at = "queued" /\ session[g].tier = t
          /\ \A l \in DOMAIN req_queues[t] : req_queues[t][l] = g => l = k
  /\ \A g \in Guilds : session[g].at = "queued" =>
       \E k \in DOMAIN req_queues[session[g].tier] : req_queues[session[g].tier][k] = g

\* A session never runs on a worker of a tier above the one it asked at, also
\* when the worker reached it through a queue.
TierRespected ==
  \A g \in Guilds : HasWorker(g) => session[g].worker.priority_index <= session[g].tier

\* The places a worker can be in once it has an id.
SpawningOf(id) == {<<"spawning", c>> : c \in {x \in Callers : spawning[x].worker_id = id}}
PendingOf(id) == {<<"pending", p>> : p \in {x \in pending_starts : x.worker_id = id}}
ConnectingOf(id) == {<<"connecting", h>> : h \in {x \in connecting : x.worker_id = id}}
PooledOf(id) ==
  {<<"pool", p>> : p \in UNION {{<<i, k>> : k \in {x \in DOMAIN pools[i] :
                                    pools[i][x].worker_id = id}} : i \in Tiers}}
HeldOf(id) ==
  {<<"session", g>> : g \in {x \in Guilds : HasWorker(x) /\ session[x].worker.worker_id = id}}
PlacesOf(id) ==
  SpawningOf(id) \cup PendingOf(id) \cup ConnectingOf(id) \cup PooledOf(id) \cup HeldOf(id)

\* A worker handle has one owner: no interleaving of returns, requests and
\* connections leaves a worker with two sessions, or both idle and in use.
SingleOwner == \A id \in 2..worker_id_gen : Cardinality(PlacesOf(id)) <= 1

\* Between broken workers, respawns and processes that never say Hello, each tier
\* keeps exactly as many worker slots as main gave it.
SlotsKept ==
  \A t \in Tiers :
      Cardinality({c \in Callers : spawning[c] # NotSpawning /\ spawning[c].priority_index = t})
    + Cardinality({p \in pending_starts : p.priority_index = t})
    + Cardinality({h \in connecting : h.priority_index = t})
    + Len(pools[t])
    + Cardinality({g \in Guilds : HasWorker(g) /\ session[g].worker.priority_index = t})
    = Cardinality({k \in 1..(Len(Boot) - Len(boot)) : Boot[k] = t})

\* At most one idle worker of a tier is warm for a guild, so that the search
\* "with identical guild id" can only find the one the guild used last there.
OneWarmWorkerPerPool ==
  \A i \in Tiers : \A k, l \in DOMAIN pools[i] :
     k # l /\ pools[i][k].last_active_guild = pools[i][l].last_active_guild
       => pools[i][k].last_active_guild = NoGuild

\* A session whose wait ends in this step heads its queue and no higher tier waits.
ServesInOrder ==
  \A g \in Guilds :
    session[g].at = "queued" /\ session'[g].at = "granted" =>
      /\ req_queues[session[g].tier][1] = g
      /\ \A t \in (session[g].tier + 1)..MAX_PREMIUM_SLOT_TIER : req_queues[t] = <<>>

\* A waiting session is served only when it is the oldest of its tier and no
\* higher tier waits: the loop of add_worker_to_pool and pop_front.
ServedInOrder == [][ServesInOrder]_vars

\* A process has died before its Hello, or said it before it was pending: its entry
\* stays in pending_starts for good.
StartFailed == \E p \in pending_starts : p.worker_id \notin processes

\* A request of the highest tier is eventually served when workers are given
\* back and processes start.  (A lower tier can wait forever behind a higher one.)
TopTierServed ==
  \A g \in Guilds :
     (session[g].at = "queued" /\ session[g].tier = MAX_PREMIUM_SLOT_TIER)
        ~> (session[g].at = "holding" \/ StartFailed)

-----------------------------------------------------------------------------
(* The pool as the sessions see it *)

Worker(h) == [id |-> h.worker_id, tier |-> h.priority_index]
Starting == {p.worker_id : p \in pending_starts \cup connecting}
            \cup {spawning[c].worker_id : c \in Callers}

Free == UNION {{Worker(pools[i][k]) : k \in DOMAIN pools[i]} : i \in Tiers}
Owns == {<<g, Worker(session[g].worker)>> : g \in {x \in Guilds : HasWorker(x)}}
Wants == {<<g, session[g].tier>> : g \in {x \in Guilds : session[x].at = "queued"}}
Known == (2..worker_id_gen) \ Starting

Allocator == INSTANCE WorkerAllocator
               WITH free <- Free, owns <- Owns, wants <- Wants, known <- Known

\* The lists, the queues and the four-step life of a request behind the mutex look
\* to the sessions like a WorkerAllocator: every critical section is one step of it
\* or none.
PoolAllocates == Allocator!Spec
=============================================================================
