--------------------------- MODULE WorkerPoolProofs ---------------------------
(* What the worker pool guarantees for any guilds, tiers, initial workers and *)
(* start faults.                                                              *)
EXTENDS WorkerPool, SequenceTheorems, TLAPS

\* Vec::remove of the pool: one element fewer, every other one still there.
LEMMA WithoutFacts ==
  ASSUME NEW S, NEW s \in Seq(S), NEW k \in DOMAIN s
  PROVE  /\ Without(s, k) \in Seq(S)
         /\ Len(Without(s, k)) = Len(s) - 1
         /\ \A l \in DOMAIN Without(s, k) :
              Without(s, k)[l] = IF l < k THEN s[l] ELSE s[l + 1]
<1> DEFINE front == SubSeq(s, 1, k - 1)
           back == SubSeq(s, k + 1, Len(s))
<1>1. /\ Len(s) \in Nat /\ DOMAIN s = 1..Len(s) /\ k \in 1..Len(s)
      /\ \A l \in 1..Len(s) : s[l] \in S
  BY LenProperties, ElementOfSeq
<1>2. /\ front \in Seq(S) /\ Len(front) = k - 1
      /\ \A l \in 1..(k - 1) : front[l] = s[l]
  <2>1. \A l \in 1..(k - 1) : s[l] \in S
    BY <1>1
  <2> QED BY <1>1, <2>1, SubSeqProperties
<1>3. /\ back \in Seq(S) /\ Len(back) = Len(s) - k
      /\ \A l \in 1..(Len(s) - k) : back[l] = s[k + l]
  <2>1. \A l \in (k + 1)..Len(s) : s[l] \in S
    BY <1>1
  <2> QED BY <1>1, <2>1, SubSeqProperties, SMTT(30)
<1> HIDE DEF front, back
<1>4. Without(s, k) = front \o back
  BY DEF Without, front, back
<1>5. /\ Without(s, k) \in Seq(S)
      /\ Len(Without(s, k)) = Len(s) - 1
      /\ \A l \in 1..(Len(s) - 1) :
           Without(s, k)[l] = IF l <= k - 1 THEN front[l] ELSE back[l - (k - 1)]
  <2>1. /\ front \o back \in Seq(S)
        /\ Len(front \o back) = Len(front) + Len(back)
        /\ \A l \in 1..(Len(front) + Len(back)) :
             (front \o back)[l] = IF l <= Len(front) THEN front[l] ELSE back[l - Len(front)]
    BY <1>2, <1>3, ConcatProperties
  <2>2. Len(front) + Len(back) = Len(s) - 1
    BY <1>1, <1>2, <1>3
  <2>3. Len(front) = k - 1
    BY <1>2
  <2> QED BY <1>4, <2>1, <2>2, <2>3
<1>6. DOMAIN Without(s, k) = 1..(Len(s) - 1)
  BY <1>5, LenProperties
<1>7. ASSUME NEW l \in 1..(Len(s) - 1)
      PROVE  Without(s, k)[l] = IF l < k THEN s[l] ELSE s[l + 1]
  <2>1. CASE l < k
    BY <1>1, <1>2, <1>5, <2>1
  <2>2. CASE ~(l < k)
    <3>1. l - (k - 1) \in 1..(Len(s) - k) /\ k + (l - (k - 1)) = l + 1
      BY <1>1, <2>2
    <3>2. back[l - (k - 1)] = s[l + 1]
      BY <1>3, <3>1
    <3> QED BY <1>1, <1>5, <2>2, <3>2
  <2> QED BY <2>1, <2>2
<1> QED BY <1>5, <1>6, <1>7

-----------------------------------------------------------------------------
(* Type correctness *)

\* What TypeOK says of the three variables add_worker_to_pool may change.
PoolTypeOK ==
  /\ pools \in [Tiers -> Seq(WorkerHandle)]
  /\ \A i \in Tiers : \A k \in DOMAIN pools[i] : pools[i][k].priority_index = i
  /\ req_queues \in [Tiers -> Seq(Guilds)]
  /\ session \in [Guilds -> Session]

LEMMA NoWorkerType == NoWorker \in WorkerHandle /\ Idle \in Session /\ NotSpawning \in PendingWorkerHandle
BY PoolAssumption DEF NoWorker, WorkerHandle, Idle, Session, SessionStates, NotSpawning,
   PendingWorkerHandle, Tiers

\* A pushed worker keeps its pool well typed.
LEMMA PushType ==
  ASSUME PoolTypeOK, NEW w \in WorkerHandle, NEW sessions \in [Guilds -> Session],
         Push(w.priority_index, w, sessions)
  PROVE  PoolTypeOK'
<1> DEFINE i == w.priority_index
<1>1. i \in Tiers
  BY DEF WorkerHandle
<1>2. /\ Append(pools[i], w) \in Seq(WorkerHandle)
      /\ \A k \in DOMAIN Append(pools[i], w) : Append(pools[i], w)[k].priority_index = i
  BY <1>1 DEF PoolTypeOK
<1>3. pools' = [pools EXCEPT ![i] = Append(pools[i], w)] /\ session' = sessions
      /\ req_queues' = req_queues
  BY DEF Push
<1> QED BY <1>1, <1>2, <1>3 DEF PoolTypeOK

\* Serving a queue hands its head to a session that exists.
LEMMA ServeType ==
  ASSUME PoolTypeOK, NEW w \in WorkerHandle, NEW sessions \in [Guilds -> Session],
         NEW i \in Tiers, req_queues[i] # <<>>, Serve(i, w, sessions)
  PROVE  PoolTypeOK'
<1>1. Head(req_queues[i]) \in Guilds /\ Tail(req_queues[i]) \in Seq(Guilds)
  BY DEF PoolTypeOK
<1>2. [at |-> "granted", tier |-> i, worker |-> w] \in Session
  BY DEF Session, SessionStates
<1> QED BY <1>1, <1>2 DEF PoolTypeOK, Serve

LEMMA AddWorkerType ==
  ASSUME PoolTypeOK, NEW w \in WorkerHandle, NEW sessions \in [Guilds -> Session],
         AddWorkerToPool(w, sessions)
  PROVE  PoolTypeOK'
<1>1. CASE AskingFrom(w.priority_index) = {} /\ Push(w.priority_index, w, sessions)
  BY <1>1, PushType
<1>2. ASSUME NEW i \in AskingFrom(w.priority_index), Serve(i, w, sessions)
      PROVE  PoolTypeOK'
  <2>1. i \in Tiers /\ req_queues[i] # <<>>
    BY PoolAssumption DEF AskingFrom, WorkerHandle, Tiers
  <2> QED BY <1>2, <2>1, ServeType
<1> QED BY <1>1, <1>2 DEF AddWorkerToPool

LEMMA TypeSplit ==
  TypeOK <=> /\ PoolTypeOK
             /\ worker_id_gen \in Nat
             /\ boot \in Seq(Tiers)
             /\ spawning \in [Callers -> PendingWorkerHandle]
             /\ processes \subseteq Nat
             /\ pending_starts \subseteq PendingWorkerHandle
             /\ connecting \subseteq WorkerHandle
             /\ older \subseteq Nat \X Nat
BY DEF TypeOK, PoolTypeOK

LEMMA StampType ==
  ASSUME TypeOK, NEW id \in Nat
  PROVE  Stamp(id) \subseteq Nat \X Nat
<1>1. LiveIds \subseteq Nat
  <2>1. \A h \in connecting : h.worker_id \in Nat
    BY DEF TypeOK, WorkerHandle
  <2>2. \A g \in Guilds : session[g].worker.worker_id \in Nat
    BY DEF TypeOK, Session, WorkerHandle
  <2>3. \A i \in Tiers : \A k \in DOMAIN pools[i] : pools[i][k].worker_id \in Nat
    <3>1. ASSUME NEW i \in Tiers, NEW k \in DOMAIN pools[i]
          PROVE  pools[i][k] \in WorkerHandle
      <4>1. pools[i] \in Seq(WorkerHandle)
        BY DEF TypeOK
      <4> QED BY <4>1
    <3> QED BY <3>1 DEF WorkerHandle
  <2> QED BY <2>1, <2>2, <2>3 DEF LiveIds
<1>2. {e \in older : e[1] # id} \subseteq Nat \X Nat
  BY DEF TypeOK
<1>3. {<<v, id>> : v \in LiveIds \ {id}} \subseteq Nat \X Nat
  BY <1>1
<1> QED BY <1>2, <1>3 DEF Stamp

LEMMA TypeInit == Init => TypeOK
BY PoolAssumption, NoWorkerType DEF Init, TypeOK

LEMMA ReqWorkerType ==
  ASSUME TypeOK, NEW g \in Guilds, NEW t \in Tiers, ReqWorker(g, t)
  PROVE  TypeOK'
<1> USE PoolAssumption
<1>1. CASE QueueRequest(g, t)
  <2>1. Append(req_queues[t], g) \in Seq(Guilds)
    BY DEF TypeOK
  <2>2. [at |-> "queued", tier |-> t, worker |-> NoWorker] \in Session
    BY NoWorkerType DEF Session, SessionStates
  <2> QED BY <1>1, <2>1, <2>2 DEF TypeOK, ReqWorker, QueueRequest, startVars
<1>2. ASSUME NEW i \in 0..t, NEW k \in DOMAIN pools[i], TakeWorker(g, t, i, k)
      PROVE  TypeOK'
  <2>1. i \in Tiers /\ pools[i] \in Seq(WorkerHandle)
    BY DEF Tiers, TypeOK
  <2>2. pools[i][k] \in WorkerHandle
    BY <2>1
  <2>3. [pools[i][k] EXCEPT !.last_active_guild = g] \in WorkerHandle
    BY <2>2 DEF WorkerHandle
  <2>4. session' \in [Guilds -> Session]
    BY <1>2, <2>3 DEF TypeOK, TakeWorker, Session, SessionStates
  <2>5. /\ Without(pools[i], k) \in Seq(WorkerHandle)
        /\ \A l \in DOMAIN Without(pools[i], k) : Without(pools[i], k)[l].priority_index = i
    <3>1. /\ Without(pools[i], k) \in Seq(WorkerHandle)
          /\ Len(Without(pools[i], k)) = Len(pools[i]) - 1
          /\ \A l \in DOMAIN Without(pools[i], k) :
               Without(pools[i], k)[l] = IF l < k THEN pools[i][l] ELSE pools[i][l + 1]
      BY <2>1, WithoutFacts
    <3>2. \A l \in DOMAIN pools[i] : pools[i][l].priority_index = i
      BY <2>1 DEF TypeOK
    <3>3. ASSUME NEW l \in DOMAIN Without(pools[i], k)
          PROVE  l \in DOMAIN pools[i] /\ l + 1 \in DOMAIN pools[i]
      BY <2>1, <3>1, LenProperties
    <3> QED BY <3>1, <3>2, <3>3
  <2>6. pools' \in [Tiers -> Seq(WorkerHandle)]
        /\ \A j \in Tiers : \A l \in DOMAIN pools'[j] : pools'[j][l].priority_index = j
    BY <1>2, <2>1, <2>5 DEF TypeOK, TakeWorker
  <2> QED BY <1>2, <2>4, <2>6 DEF TypeOK, ReqWorker, TakeWorker, startVars
<1> QED BY <1>1, <1>2 DEF ReqWorker

LEMMA SessionStepType ==
  ASSUME TypeOK, NEW g \in Guilds, SessionStep(g)
  PROVE  TypeOK'
<1>1. session[g] \in Session /\ session[g].worker \in WorkerHandle
      /\ session[g].worker.worker_id \in Nat /\ session[g].worker.priority_index \in Tiers
  BY DEF TypeOK, Session, WorkerHandle
<1>2. CASE \E t \in Tiers : ReqWorker(g, t)
  BY <1>2, ReqWorkerType
<1>3. CASE ReceiveWorker(g)
  <2>1. session' \in [Guilds -> Session]
    BY <1>1, <1>3 DEF TypeOK, ReceiveWorker, Session, SessionStates, WorkerHandle
  <2> QED BY <1>3, <2>1 DEF TypeOK, ReceiveWorker, startVars
<1>4. CASE ReturnWorker(g)
  <2>1. session' \in [Guilds -> Session]
    <3>1. [session[g] EXCEPT !.at = "returning"] \in Session
      BY DEF TypeOK, Session, SessionStates
    <3>2. session' = [session EXCEPT ![g] = [session[g] EXCEPT !.at = "returning"]]
      BY <1>4 DEF ReturnWorker
    <3>3. session \in [Guilds -> Session]
      BY DEF TypeOK
    <3> QED BY <3>1, <3>2, <3>3
  <2>2. older' \subseteq Nat \X Nat
    BY <1>1, <1>4, StampType DEF ReturnWorker
  <2> QED BY <1>4, <2>1, <2>2 DEF TypeOK, ReturnWorker, startVars
<1>5. CASE ReturnedToPool(g)
  <2>1. [session EXCEPT ![g] = Idle] \in [Guilds -> Session]
    BY NoWorkerType DEF TypeOK
  <2>2. PoolTypeOK'
    BY <1>1, <1>5, <2>1, AddWorkerType, TypeSplit DEF ReturnedToPool
  <2> QED BY <1>5, <2>2, TypeSplit DEF ReturnedToPool, startVars, TypeOK, PoolTypeOK
<1>6. CASE ReturnBroken(g)
  <2>1. session' \in [Guilds -> Session]
    BY <1>6, NoWorkerType DEF TypeOK, ReturnBroken, Session, SessionStates
  <2>2. [worker_id |-> worker_id_gen', priority_index |-> session[g].worker.priority_index]
          \in PendingWorkerHandle /\ worker_id_gen' \in Nat
    BY <1>1, <1>6 DEF TypeOK, ReturnBroken, SpawnWorker, PendingWorkerHandle
  <2>3. spawning' \in [Callers -> PendingWorkerHandle] /\ processes' \subseteq Nat
    BY <1>6, <2>2 DEF TypeOK, ReturnBroken, SpawnWorker, Callers
  <2> QED BY <1>6, <2>1, <2>2, <2>3 DEF TypeOK, ReturnBroken
<1> QED BY <1>2, <1>3, <1>4, <1>5, <1>6 DEF SessionStep

LEMMA HelloType ==
  ASSUME TypeOK, NEW id \in processes, Hello(id)
  PROVE  TypeOK'
<1>1. id \in Nat /\ Stamp(id) \subseteq Nat \X Nat
  BY StampType DEF TypeOK
<1>2. pending_starts' \subseteq PendingWorkerHandle /\ connecting' \subseteq WorkerHandle
      /\ older' \subseteq Nat \X Nat
  <2>1. ASSUME NEW p \in pending_starts
        PROVE  [worker_id |-> id, priority_index |-> p.priority_index,
                last_active_guild |-> NoGuild] \in WorkerHandle
    BY <1>1 DEF TypeOK, PendingWorkerHandle, WorkerHandle
  <2> QED BY <1>1, <2>1 DEF TypeOK, Hello
<1> QED BY <1>2 DEF TypeOK, Hello

LEMMA TypeStep == TypeOK /\ [Next]_vars => TypeOK'
<1> SUFFICES ASSUME TypeOK, [Next]_vars
             PROVE  TypeOK'
  OBVIOUS
<1>1. ASSUME NEW g \in Guilds, SessionStep(g)
      PROVE  TypeOK'
  BY <1>1, SessionStepType
<1>2. CASE SpawnWorkers
  <2>1. Head(boot) \in Tiers /\ Tail(boot) \in Seq(Tiers)
    BY <1>2 DEF TypeOK, SpawnWorkers
  <2>2. [worker_id |-> worker_id_gen', priority_index |-> Head(boot)]
          \in PendingWorkerHandle /\ worker_id_gen' \in Nat
    BY <1>2, <2>1 DEF TypeOK, SpawnWorkers, SpawnWorker, PendingWorkerHandle
  <2>3. spawning' \in [Callers -> PendingWorkerHandle] /\ processes' \subseteq Nat
    BY <1>2, <2>2 DEF TypeOK, SpawnWorkers, SpawnWorker, Callers
  <2> QED BY <1>2, <2>1, <2>2, <2>3 DEF TypeOK, SpawnWorkers
<1>3. ASSUME NEW c \in Callers, AddPendingWorker(c)
      PROVE  TypeOK'
  <2>1. session' \in [Guilds -> Session]
    BY <1>3, NoWorkerType DEF TypeOK, AddPendingWorker, Callers
  <2>2. spawning' \in [Callers -> PendingWorkerHandle]
        /\ pending_starts' \subseteq PendingWorkerHandle
    BY <1>3, NoWorkerType DEF TypeOK, AddPendingWorker
  <2> QED BY <1>3, <2>1, <2>2 DEF TypeOK, AddPendingWorker
<1>4. ASSUME NEW id \in processes, Hello(id) \/ StartCrash(id)
      PROVE  TypeOK'
  BY <1>4, HelloType DEF TypeOK, StartCrash
<1>5. ASSUME NEW h \in connecting, WorkerConnected(h)
      PROVE  TypeOK'
  <2>1. h \in WorkerHandle /\ PoolTypeOK /\ session \in [Guilds -> Session]
    BY TypeSplit DEF TypeOK
  <2>2. PoolTypeOK'
    BY <1>5, <2>1, AddWorkerType DEF WorkerConnected
  <2> QED BY <1>5, <2>2 DEF TypeOK, PoolTypeOK, WorkerConnected
<1>6. CASE UNCHANGED vars
  BY <1>6 DEF TypeOK, vars
<1> QED BY <1>1, <1>2, <1>3, <1>4, <1>5, <1>6 DEF Next

\* The pool is well typed in every reachable state, whatever the interleaving of
\* sessions, spawns and connections.
THEOREM TypeCorrect == Spec => []TypeOK
BY TypeInit, TypeStep, PTL DEF Spec

-----------------------------------------------------------------------------
(* No request waits while a worker it may use is idle *)

LEMMA AddWorkerConserving ==
  ASSUME TypeOK, WorkConserving, NEW w \in WorkerHandle, NEW sessions,
         AddWorkerToPool(w, sessions)
  PROVE  WorkConserving'
<1>0. w.priority_index \in Tiers
  BY DEF WorkerHandle
<1>1. CASE AskingFrom(w.priority_index) = {} /\ Push(w.priority_index, w, sessions)
  <2>1. \A t \in Tiers : t >= w.priority_index => req_queues[t] = <<>>
    BY <1>0, <1>1, PoolAssumption DEF AskingFrom, Tiers
  <2>2. \A i \in Tiers : i # w.priority_index => pools'[i] = pools[i]
    BY <1>1 DEF Push, TypeOK
  <2>3. req_queues' = req_queues
    BY <1>1 DEF Push
  <2> QED BY <1>0, <2>1, <2>2, <2>3, PoolAssumption, SMTT(30) DEF WorkConserving, Tiers
<1>2. ASSUME NEW i \in AskingFrom(w.priority_index), Serve(i, w, sessions)
      PROVE  WorkConserving'
  <2>1. i \in Tiers /\ req_queues[i] # <<>>
    BY <1>0, PoolAssumption DEF AskingFrom, Tiers
  <2>2. \A t \in Tiers : req_queues'[t] # <<>> => req_queues[t] # <<>>
    BY <1>2, <2>1 DEF Serve, TypeOK
  <2> QED BY <1>2, <2>2 DEF Serve, WorkConserving
<1> QED BY <1>1, <1>2 DEF AddWorkerToPool

LEMMA ReqWorkerConserving ==
  ASSUME TypeOK, WorkConserving, NEW g \in Guilds, NEW t \in Tiers, ReqWorker(g, t)
  PROVE  WorkConserving'
<1>1. CASE QueueRequest(g, t)
  BY <1>1, PoolAssumption DEF QueueRequest, WorkConserving, TypeOK, Tiers
<1>2. ASSUME NEW i \in 0..t, NEW k \in DOMAIN pools[i], TakeWorker(g, t, i, k)
      PROVE  WorkConserving'
  <2>1. i \in Tiers /\ pools[i] # <<>>
    BY PoolAssumption DEF Tiers, TypeOK
  <2>2. \A u \in Tiers : u >= i => req_queues[u] = <<>>
    BY <2>1, PoolAssumption DEF WorkConserving, Tiers
  <2>3. req_queues' = req_queues /\ \A j \in Tiers : j # i => pools'[j] = pools[j]
    BY <1>2 DEF TakeWorker, TypeOK
  <2>4. ASSUME NEW u \in Tiers, req_queues[u] # <<>>, NEW j \in 0..u
        PROVE  pools'[j] = <<>>
    <3>1. j \in Tiers /\ u < i /\ j # i
      BY <2>1, <2>2, <2>4, PoolAssumption DEF Tiers
    <3> QED BY <2>3, <2>4, <3>1 DEF WorkConserving
  <2> QED BY <2>3, <2>4 DEF WorkConserving
<1> QED BY <1>1, <1>2 DEF ReqWorker

LEMMA ConservingStep == TypeOK /\ WorkConserving /\ [Next]_vars => WorkConserving'
<1> SUFFICES ASSUME TypeOK, WorkConserving, [Next]_vars
             PROVE  WorkConserving'
  OBVIOUS
<1>1. CASE UNCHANGED <<pools, req_queues>>
  BY <1>1 DEF WorkConserving
<1>2. ASSUME NEW g \in Guilds, SessionStep(g)
      PROVE  WorkConserving'
  <2>1. session[g].worker \in WorkerHandle
    BY DEF TypeOK, Session
  <2>2. ReturnedToPool(g) => WorkConserving'
    BY <2>1, AddWorkerConserving DEF ReturnedToPool
  <2> QED BY <1>1, <1>2, <2>2, ReqWorkerConserving
          DEF SessionStep, ReceiveWorker, ReturnWorker, ReturnBroken
<1>3. ASSUME NEW h \in connecting, WorkerConnected(h)
      PROVE  WorkConserving'
  BY <1>3, AddWorkerConserving DEF WorkerConnected, TypeOK
<1> QED BY <1>1, <1>2, <1>3 DEF Next, SpawnWorkers, AddPendingWorker, Hello, StartCrash, vars

\* A request waits in a queue of the pool only while every idle list it may be
\* served from is empty.
THEOREM PoolWorkConserving == Spec => []WorkConserving
<1>1. Init => WorkConserving
  BY DEF Init, WorkConserving
<1> QED BY <1>1, ConservingStep, TypeCorrect, PTL DEF Spec

-----------------------------------------------------------------------------
(* No session runs on a worker above its tier *)

\* TierRespected for the sessions a caller of add_worker_to_pool passes on.
Respected(sessions) ==
  \A g \in Guilds : sessions[g].at \in {"granted", "holding", "returning"} =>
     sessions[g].worker.priority_index <= sessions[g].tier

LEMMA AddWorkerRespects ==
  ASSUME TypeOK, NEW w \in WorkerHandle, NEW sessions \in [Guilds -> Session],
         Respected(sessions), AddWorkerToPool(w, sessions)
  PROVE  TierRespected'
<1>0. w.priority_index \in Tiers
  BY DEF WorkerHandle
<1>1. CASE Push(w.priority_index, w, sessions)
  BY <1>1 DEF Push, TierRespected, Respected, HasWorker
<1>2. ASSUME NEW i \in AskingFrom(w.priority_index), Serve(i, w, sessions)
      PROVE  TierRespected'
  <2>1. w.priority_index <= i
    BY <1>0, PoolAssumption DEF AskingFrom, Tiers
  <2> QED BY <1>2, <2>1 DEF Serve, TierRespected, Respected, HasWorker
<1> QED BY <1>1, <1>2 DEF AddWorkerToPool

LEMMA RespectedStep == TypeOK /\ TierRespected /\ [Next]_vars => TierRespected'
<1> SUFFICES ASSUME TypeOK, TierRespected, [Next]_vars
             PROVE  TierRespected'
  OBVIOUS
<1>0. session \in [Guilds -> Session] /\ Respected(session)
  BY DEF TypeOK, TierRespected, Respected, HasWorker
<1>1. CASE UNCHANGED session
  BY <1>1 DEF TierRespected, HasWorker
<1>2. ASSUME NEW g \in Guilds, SessionStep(g)
      PROVE  TierRespected'
  <2>0. session[g].worker \in WorkerHandle
    BY DEF TypeOK, Session
  <2>1. CASE \E t \in Tiers : ReqWorker(g, t)
    <3>1. PICK t \in Tiers : ReqWorker(g, t)
      BY <2>1
    <3>2. CASE QueueRequest(g, t)
      BY <1>0, <3>2 DEF QueueRequest, TierRespected, HasWorker
    <3>3. ASSUME NEW i \in 0..t, NEW k \in DOMAIN pools[i], TakeWorker(g, t, i, k)
          PROVE  TierRespected'
      <4>1. i \in Tiers /\ pools[i] \in Seq(WorkerHandle) /\ pools[i][k].priority_index = i
        BY PoolAssumption DEF Tiers, TypeOK
      <4>2. pools[i][k] \in WorkerHandle
        BY <4>1
      <4>3. [pools[i][k] EXCEPT !.last_active_guild = g].priority_index <= t
        BY <4>1, <4>2, PoolAssumption DEF WorkerHandle, Tiers
      <4> QED BY <1>0, <3>3, <4>3 DEF TakeWorker, TierRespected, HasWorker
    <3> QED BY <3>1, <3>2, <3>3 DEF ReqWorker
  <2>2. CASE ReceiveWorker(g)
    BY <1>0, <2>0, <2>2 DEF ReceiveWorker, TierRespected, HasWorker, Session, WorkerHandle
  <2>3. CASE ReturnWorker(g)
    BY <1>0, <2>3 DEF ReturnWorker, TierRespected, HasWorker, Session
  <2>4. CASE ReturnedToPool(g)
    <3>1. [session EXCEPT ![g] = Idle] \in [Guilds -> Session]
          /\ Respected([session EXCEPT ![g] = Idle])
      BY <1>0, NoWorkerType DEF Respected, Idle
    <3> QED BY <2>0, <2>4, <3>1, AddWorkerRespects DEF ReturnedToPool
  <2>5. CASE ReturnBroken(g)
    BY <1>0, <2>5 DEF ReturnBroken, TierRespected, HasWorker, Session
  <2> QED BY <1>2, <2>1, <2>2, <2>3, <2>4, <2>5 DEF SessionStep
<1>3. ASSUME NEW c \in Callers, AddPendingWorker(c)
      PROVE  TierRespected'
  BY <1>0, <1>3 DEF AddPendingWorker, TierRespected, HasWorker, Callers, Idle
<1>4. ASSUME NEW h \in connecting, WorkerConnected(h)
      PROVE  TierRespected'
  BY <1>0, <1>4, AddWorkerRespects DEF WorkerConnected, TypeOK
<1> QED BY <1>1, <1>2, <1>3, <1>4 DEF Next, SpawnWorkers, Hello, StartCrash, vars

\* A free guild never occupies a worker of the lite or premium pool, a lite guild
\* never one of the premium pool.
THEOREM PoolTierRespected == Spec => []TierRespected
<1>1. Init => TierRespected
  BY DEF Init, TierRespected, HasWorker, Idle
<1> QED BY <1>1, RespectedStep, TypeCorrect, PTL DEF Spec

-----------------------------------------------------------------------------
(* The queues hold exactly the waiting sessions *)

\* The two halves of QueuesExact, over given queues and sessions.
OnlyWaiting(queues, sessions) ==
  \A t \in Tiers : \A k \in DOMAIN queues[t] :
     /\ sessions[queues[t][k]].at = "queued" /\ sessions[queues[t][k]].tier = t
     /\ \A l \in DOMAIN queues[t] : queues[t][l] = queues[t][k] => l = k

AllWaiting(queues, sessions) ==
  \A g \in Guilds : sessions[g].at = "queued" =>
    \E k \in DOMAIN queues[sessions[g].tier] : queues[sessions[g].tier][k] = g

LEMMA ExactSplit ==
  QueuesExact <=> OnlyWaiting(req_queues, session) /\ AllWaiting(req_queues, session)
BY DEF QueuesExact, OnlyWaiting, AllWaiting

\* Popping the head of a queue of distinct sessions and marking it as served
\* keeps the queues exact.
LEMMA ServeExact ==
  ASSUME TypeOK, NEW sessions \in [Guilds -> Session], NEW w, NEW i \in Tiers,
         req_queues[i] # <<>>,
         OnlyWaiting(req_queues, sessions), AllWaiting(req_queues, sessions),
         Serve(i, w, sessions)
  PROVE  QueuesExact'
<1> DEFINE q == req_queues[i]
           h == Head(q)
<1>1. /\ q \in Seq(Guilds) /\ Len(q) \in Nat \ {0} /\ DOMAIN q = 1..Len(q)
      /\ h = q[1] /\ h \in Guilds
      /\ Tail(q) \in Seq(Guilds) /\ DOMAIN Tail(q) = 1..(Len(q) - 1)
      /\ \A k \in 1..(Len(q) - 1) : Tail(q)[k] = q[k + 1]
  <2>1. q \in Seq(Guilds) /\ q # <<>>
    BY DEF TypeOK
  <2>2. Len(q) \in Nat \ {0} /\ DOMAIN q = 1..Len(q)
    BY <2>1, EmptySeq, LenProperties
  <2>3. h = q[1] /\ h \in Guilds
    BY <2>1, <2>2, HeadTailProperties
  <2>4. Tail(q) \in Seq(Guilds) /\ Len(Tail(q)) = Len(q) - 1
        /\ \A k \in 1..Len(Tail(q)) : Tail(q)[k] = q[k + 1]
    BY <2>1, HeadTailProperties
  <2>5. DOMAIN Tail(q) = 1..(Len(q) - 1)
    BY <2>4, LenProperties
  <2> QED BY <2>1, <2>2, <2>3, <2>4, <2>5
<1>2. /\ req_queues' = [req_queues EXCEPT ![i] = Tail(q)]
      /\ session' = [sessions EXCEPT ![h] = [at |-> "granted", tier |-> i, worker |-> w]]
  BY DEF Serve
<1>3. req_queues \in [Tiers -> Seq(Guilds)]
  BY DEF TypeOK
<1>4. \A k \in DOMAIN q : sessions[q[k]].at = "queued" /\ sessions[q[k]].tier = i
        /\ \A l \in DOMAIN q : q[l] = q[k] => l = k
  BY DEF OnlyWaiting
<1> HIDE DEF q, h
<1>5. \A k \in DOMAIN Tail(q) : Tail(q)[k] \in Guilds /\ Tail(q)[k] # h
  BY <1>1, <1>4, SMTT(30)
<1>6. ASSUME NEW t \in Tiers, NEW k \in DOMAIN req_queues'[t]
      PROVE  /\ session'[req_queues'[t][k]].at = "queued"
             /\ session'[req_queues'[t][k]].tier = t
             /\ \A l \in DOMAIN req_queues'[t] : req_queues'[t][l] = req_queues'[t][k] => l = k
  <2>1. CASE t = i
    <3>1. req_queues'[t] = Tail(q)
      BY <1>2, <1>3, <2>1
    <3>2. k \in 1..(Len(q) - 1) /\ k + 1 \in DOMAIN q /\ Tail(q)[k] = q[k + 1]
      BY <1>1, <1>6, <3>1
    <3>3. session'[Tail(q)[k]] = sessions[q[k + 1]]
      BY <1>2, <1>5, <1>6, <3>1, <3>2
    <3>4. ASSUME NEW l \in DOMAIN Tail(q), Tail(q)[l] = Tail(q)[k]
          PROVE  l = k
      <4>1. l \in Int /\ l + 1 \in DOMAIN q /\ q[l + 1] = q[k + 1]
        BY <1>1, <3>2, <3>4
      <4> QED BY <1>4, <3>2, <4>1
    <3> QED BY <1>4, <2>1, <3>1, <3>2, <3>3, <3>4, SMTT(30)
  <2>2. CASE t # i
    <3>1. req_queues'[t] = req_queues[t]
      BY <1>2, <1>3, <2>2
    <3>2. /\ sessions[req_queues[t][k]].at = "queued" /\ sessions[req_queues[t][k]].tier = t
          /\ \A l \in DOMAIN req_queues[t] : req_queues[t][l] = req_queues[t][k] => l = k
      BY <1>6, <3>1 DEF OnlyWaiting
    <3>3. req_queues[t][k] \in Guilds
      BY <1>3, <1>6, <3>1
    <3>4. req_queues[t][k] # h
      BY <1>1, <1>4, <2>2, <3>2, SMTT(30)
    <3>5. session'[req_queues[t][k]] = sessions[req_queues[t][k]]
      BY <1>2, <3>3, <3>4
    <3> QED BY <3>1, <3>2, <3>5
  <2> QED BY <2>1, <2>2
<1>7. ASSUME NEW g \in Guilds, session'[g].at = "queued"
      PROVE  \E k \in DOMAIN req_queues'[session'[g].tier] : req_queues'[session'[g].tier][k] = g
  <2>1. g # h /\ session'[g] = sessions[g]
    BY <1>1, <1>2, <1>7
  <2>2. PICK k \in DOMAIN req_queues[sessions[g].tier] : req_queues[sessions[g].tier][k] = g
    BY <1>7, <2>1 DEF AllWaiting
  <2>3. CASE sessions[g].tier = i
    <3>1. k \in DOMAIN q /\ q[k] = g /\ k # 1
      BY <1>1, <2>1, <2>2, <2>3 DEF q
    <3>2. k - 1 \in DOMAIN Tail(q) /\ Tail(q)[k - 1] = g
      BY <1>1, <3>1, SMTT(30)
    <3> QED BY <1>2, <1>3, <2>1, <2>3, <3>2
  <2>4. CASE sessions[g].tier # i
    BY <1>2, <1>3, <2>1, <2>2, <2>4 DEF Session
  <2> QED BY <2>3, <2>4
<1> QED BY <1>6, <1>7, ExactSplit DEF QueuesExact

LEMMA AddWorkerExact ==
  ASSUME TypeOK, NEW w \in WorkerHandle, NEW sessions \in [Guilds -> Session],
         OnlyWaiting(req_queues, sessions), AllWaiting(req_queues, sessions),
         AddWorkerToPool(w, sessions)
  PROVE  QueuesExact'
<1>1. CASE Push(w.priority_index, w, sessions)
  BY <1>1, ExactSplit, SMTT(30) DEF Push, QueuesExact, OnlyWaiting, AllWaiting
<1>2. ASSUME NEW i \in AskingFrom(w.priority_index), Serve(i, w, sessions)
      PROVE  QueuesExact'
  <2>1. i \in Tiers /\ req_queues[i] # <<>>
    BY PoolAssumption DEF AskingFrom, WorkerHandle, Tiers
  <2> QED BY <1>2, <2>1, ServeExact
<1> QED BY <1>1, <1>2 DEF AddWorkerToPool

\* A session that is and stays outside the queues does not matter to them.
LEMMA NotWaiting ==
  ASSUME TypeOK, QueuesExact, NEW g \in Guilds, session[g].at # "queued",
         NEW sessions \in [Guilds -> Session], sessions[g].at # "queued",
         \A x \in Guilds \ {g} : sessions[x] = session[x]
  PROVE  OnlyWaiting(req_queues, sessions) /\ AllWaiting(req_queues, sessions)
<1>1. ASSUME NEW t \in Tiers, NEW k \in DOMAIN req_queues[t]
      PROVE  req_queues[t][k] \in Guilds \ {g}
  <2>1. req_queues[t] \in Seq(Guilds)
    BY DEF TypeOK
  <2>2. req_queues[t][k] \in Guilds
    BY <2>1
  <2> QED BY <2>2 DEF QueuesExact
<1>2. OnlyWaiting(req_queues, sessions)
  BY <1>1 DEF QueuesExact, OnlyWaiting
<1>3. AllWaiting(req_queues, sessions)
  BY DEF QueuesExact, AllWaiting
<1> QED BY <1>2, <1>3

\* A request that finds no worker is appended to the queue of its tier.
LEMMA QueueRequestExact ==
  ASSUME TypeOK, QueuesExact, NEW g \in Guilds, NEW t \in Tiers,
         session[g].at = "idle", QueueRequest(g, t)
  PROVE  QueuesExact'
<1> DEFINE q == req_queues[t]
<1>1. /\ q \in Seq(Guilds) /\ Len(q) \in Nat /\ DOMAIN q = 1..Len(q)
      /\ Append(q, g) \in Seq(Guilds) /\ DOMAIN Append(q, g) = 1..(Len(q) + 1)
      /\ \A k \in 1..Len(q) : Append(q, g)[k] = q[k]
      /\ Append(q, g)[Len(q) + 1] = g
  <2>1. q \in Seq(Guilds)
    BY DEF TypeOK
  <2> QED BY <2>1, SMTT(30)
<1>2. /\ req_queues \in [Tiers -> Seq(Guilds)] /\ session \in [Guilds -> Session]
      /\ req_queues' = [req_queues EXCEPT ![t] = Append(q, g)]
      /\ session' = [session EXCEPT ![g] = [at |-> "queued", tier |-> t, worker |-> NoWorker]]
  BY DEF QueueRequest, TypeOK
<1>3. ASSUME NEW u \in Tiers, NEW k \in DOMAIN req_queues[u]
      PROVE  /\ req_queues[u][k] \in Guilds \ {g}
             /\ session'[req_queues[u][k]] = session[req_queues[u][k]]
             /\ session[req_queues[u][k]].at = "queued" /\ session[req_queues[u][k]].tier = u
             /\ \A l \in DOMAIN req_queues[u] : req_queues[u][l] = req_queues[u][k] => l = k
  <2>1. req_queues[u] \in Seq(Guilds)
    BY <1>2
  <2>2. req_queues[u][k] \in Guilds
    BY <2>1
  <2>3. session[req_queues[u][k]].at = "queued" /\ session[req_queues[u][k]].tier = u
        /\ \A l \in DOMAIN req_queues[u] : req_queues[u][l] = req_queues[u][k] => l = k
    BY DEF QueuesExact
  <2>4. req_queues[u][k] # g
    BY <2>3
  <2> QED BY <1>2, <2>2, <2>3, <2>4
<1>4. session'[g].at = "queued" /\ session'[g].tier = t
  BY <1>2
<1> HIDE DEF q
<1>5. ASSUME NEW u \in Tiers, NEW k \in DOMAIN req_queues'[u]
      PROVE  /\ session'[req_queues'[u][k]].at = "queued"
             /\ session'[req_queues'[u][k]].tier = u
             /\ \A l \in DOMAIN req_queues'[u] : req_queues'[u][l] = req_queues'[u][k] => l = k
  <2>1. CASE u # t
    BY <1>2, <1>3, <1>5, <2>1
  <2>2. CASE u = t
    <3>0. req_queues'[u] = Append(q, g)
      BY <1>2, <2>2
    <3>1. \A l \in 1..Len(q) : q[l] # g
      BY <1>1, <1>3, <2>2 DEF q
    <3>2. CASE k = Len(q) + 1
      BY <1>1, <1>4, <2>2, <3>0, <3>1, <3>2
    <3>3. CASE k # Len(q) + 1
      <4>1. k \in 1..Len(q) /\ req_queues'[u][k] = q[k]
        BY <1>1, <1>5, <3>0, <3>3
      <4>2. session'[q[k]].at = "queued" /\ session'[q[k]].tier = u
        BY <1>1, <1>3, <2>2, <4>1, SMTT(30) DEF q
      <4>3. ASSUME NEW l \in 1..(Len(q) + 1), Append(q, g)[l] = q[k]
            PROVE  l = k
        <5>1. l # Len(q) + 1
          BY <1>1, <3>1, <4>1, <4>3
        <5>2. l \in 1..Len(q) /\ q[l] = q[k]
          BY <1>1, <4>3, <5>1
        <5> QED BY <1>1, <1>3, <2>2, <4>1, <5>2 DEF q
      <4> QED BY <1>1, <3>0, <4>1, <4>2, <4>3
    <3> QED BY <3>2, <3>3
  <2> QED BY <2>1, <2>2
<1>6. ASSUME NEW x \in Guilds, session'[x].at = "queued"
      PROVE  \E k \in DOMAIN req_queues'[session'[x].tier] : req_queues'[session'[x].tier][k] = x
  <2>1. CASE x = g
    <3>1. session'[x].tier = t /\ req_queues'[t] = Append(q, g)
      BY <1>2, <1>4, <2>1
    <3>2. Len(q) + 1 \in DOMAIN Append(q, g) /\ Append(q, g)[Len(q) + 1] = x
      BY <1>1, <2>1
    <3> QED BY <3>1, <3>2
  <2>2. CASE x # g
    <3>1. session'[x] = session[x] /\ session[x].tier \in Tiers
      BY <1>2, <2>2 DEF Session
    <3>2. PICK k \in DOMAIN req_queues[session[x].tier] : req_queues[session[x].tier][k] = x
      BY <1>6, <3>1 DEF QueuesExact
    <3>3. CASE session[x].tier = t
      BY <1>1, <1>2, <3>1, <3>2, <3>3, SMTT(30) DEF q
    <3>4. CASE session[x].tier # t
      BY <1>2, <3>1, <3>2, <3>4
    <3> QED BY <3>3, <3>4
  <2> QED BY <2>1, <2>2
<1> QED BY <1>5, <1>6, SMTT(30) DEF QueuesExact

\* A guild inside spawn_worker has its session in return_worker(broken), hence in
\* no queue: the strengthening that makes QueuesExact inductive.
SpawningSessions ==
  \A g \in Guilds : spawning[g] # NotSpawning => session[g].at = "spawning"

LEMMA ExactStep == TypeOK /\ QueuesExact /\ SpawningSessions /\ [Next]_vars => QueuesExact'
<1> SUFFICES ASSUME TypeOK, QueuesExact, SpawningSessions, [Next]_vars
             PROVE  QueuesExact'
  OBVIOUS
<1>0. session \in [Guilds -> Session]
      /\ OnlyWaiting(req_queues, session) /\ AllWaiting(req_queues, session)
  BY ExactSplit DEF TypeOK
<1>1. CASE UNCHANGED <<req_queues, session>>
  BY <1>1 DEF QueuesExact
\* A step in which only a session outside the queues moves, and stays outside.
<1>2. ASSUME NEW g \in Guilds, session[g].at # "queued", UNCHANGED req_queues,
             session' \in [Guilds -> Session], session'[g].at # "queued",
             \A x \in Guilds \ {g} : session'[x] = session[x]
      PROVE  QueuesExact'
  <2>1. OnlyWaiting(req_queues, session') /\ AllWaiting(req_queues, session')
    BY <1>2, NotWaiting
  <2> QED BY <1>2, <2>1, SMTT(30) DEF QueuesExact, OnlyWaiting, AllWaiting
<1>3. TypeOK'
  BY TypeStep
<1>4. ASSUME NEW g \in Guilds, SessionStep(g)
      PROVE  QueuesExact'
  <2>0. session[g].worker \in WorkerHandle /\ session' \in [Guilds -> Session]
    BY <1>3 DEF TypeOK, Session
  <2>1. ASSUME NEW t \in Tiers, ReqWorker(g, t)
        PROVE  QueuesExact'
    <3>1. session[g].at = "idle"
      BY <2>1 DEF ReqWorker
    <3>2. CASE QueueRequest(g, t)
      BY <3>1, <3>2, QueueRequestExact
    <3>3. ASSUME NEW i \in 0..t, NEW k \in DOMAIN pools[i], TakeWorker(g, t, i, k)
          PROVE  QueuesExact'
      <4>1. /\ session'[g].at = "holding" /\ UNCHANGED req_queues
            /\ \A x \in Guilds \ {g} : session'[x] = session[x]
        BY <1>0, <3>3 DEF TakeWorker
      <4> QED BY <1>2, <2>0, <3>1, <4>1
    <3> QED BY <2>1, <3>2, <3>3 DEF ReqWorker
  <2>2. CASE ReceiveWorker(g) \/ ReturnWorker(g) \/ ReturnBroken(g)
    <3>1. /\ session[g].at # "queued" /\ UNCHANGED req_queues /\ session'[g].at # "queued"
          /\ \A x \in Guilds \ {g} : session'[x] = session[x]
      BY <1>0, <2>2 DEF ReceiveWorker, ReturnWorker, ReturnBroken, Session
    <3> QED BY <1>2, <2>0, <3>1
  <2>3. CASE ReturnedToPool(g)
    <3> DEFINE rest == [session EXCEPT ![g] = Idle]
    <3>1. /\ rest \in [Guilds -> Session] /\ rest[g].at # "queued"
          /\ \A x \in Guilds \ {g} : rest[x] = session[x]
      BY <1>0, NoWorkerType DEF Idle
    <3>2. session[g].at # "queued" /\ AddWorkerToPool(session[g].worker, rest)
      BY <2>3 DEF ReturnedToPool
    <3> HIDE DEF rest
    <3>3. OnlyWaiting(req_queues, rest) /\ AllWaiting(req_queues, rest)
      BY <3>1, <3>2, NotWaiting
    <3> QED BY <2>0, <3>1, <3>2, <3>3, AddWorkerExact
  <2> QED BY <1>4, <2>1, <2>2, <2>3 DEF SessionStep
<1>5. ASSUME NEW h \in connecting, WorkerConnected(h)
      PROVE  QueuesExact'
  BY <1>0, <1>5, AddWorkerExact DEF WorkerConnected, TypeOK
<1>6. ASSUME NEW c \in Callers, AddPendingWorker(c)
      PROVE  QueuesExact'
  <2>1. CASE c = Main
    BY <1>1, <1>6, <2>1 DEF AddPendingWorker
  <2>2. CASE c # Main
    <3>1. c \in Guilds /\ session[c].at # "queued"
      BY <1>6, <2>2 DEF AddPendingWorker, Callers, SpawningSessions
    <3>2. /\ UNCHANGED req_queues /\ session' \in [Guilds -> Session]
          /\ session'[c].at # "queued" /\ \A x \in Guilds \ {c} : session'[x] = session[x]
      BY <1>0, <1>3, <1>6, <2>2, <3>1 DEF AddPendingWorker, Idle, TypeOK
    <3> QED BY <1>2, <3>1, <3>2
  <2> QED BY <2>1, <2>2
<1> QED BY <1>1, <1>4, <1>5, <1>6 DEF Next, SpawnWorkers, Hello, StartCrash, vars

\* add_worker_to_pool moves only a session that was queued.
LEMMA AddWorkerMoves ==
  ASSUME TypeOK, NEW w \in WorkerHandle, NEW sessions \in [Guilds -> Session],
         OnlyWaiting(req_queues, sessions), AddWorkerToPool(w, sessions),
         NEW g \in Guilds, sessions[g].at # "queued"
  PROVE  session'[g] = sessions[g]
<1>1. CASE Push(w.priority_index, w, sessions)
  BY <1>1 DEF Push
<1>2. ASSUME NEW i \in AskingFrom(w.priority_index), Serve(i, w, sessions)
      PROVE  session'[g] = sessions[g]
  <2>1. i \in Tiers /\ req_queues[i] \in Seq(Guilds) /\ req_queues[i] # <<>>
    BY PoolAssumption DEF AskingFrom, WorkerHandle, Tiers, TypeOK
  <2>2. 1 \in DOMAIN req_queues[i] /\ Head(req_queues[i]) = req_queues[i][1]
    BY <2>1
  <2>3. Head(req_queues[i]) # g
    BY <2>1, <2>2 DEF OnlyWaiting
  <2> QED BY <1>2, <2>3 DEF Serve
<1> QED BY <1>1, <1>2 DEF AddWorkerToPool

LEMMA SpawningStep ==
  TypeOK /\ QueuesExact /\ SpawningSessions /\ [Next]_vars => SpawningSessions'
<1> SUFFICES ASSUME TypeOK, QueuesExact, SpawningSessions, [Next]_vars,
                    NEW g \in Guilds, spawning'[g] # NotSpawning
             PROVE  session'[g].at = "spawning"
  BY DEF SpawningSessions
<1>0. /\ session \in [Guilds -> Session] /\ spawning \in [Callers -> PendingWorkerHandle]
      /\ g \in Callers /\ g # Main /\ OnlyWaiting(req_queues, session)
  BY PoolAssumption, ExactSplit DEF TypeOK, Callers
<1>1. CASE UNCHANGED <<spawning, session>>
  BY <1>1 DEF SpawningSessions
<1>2. ASSUME NEW x \in Guilds, SessionStep(x)
      PROVE  session'[g].at = "spawning"
  <2>0. session[x].worker \in WorkerHandle
    BY DEF TypeOK, Session
  <2>1. CASE ReturnBroken(x)
    BY <1>0, <2>1 DEF ReturnBroken, SpawnWorker, SpawningSessions, Callers, Session
  <2>2. CASE ReturnedToPool(x)
    <3> DEFINE rest == [session EXCEPT ![x] = Idle]
    <3>1. session[g].at = "spawning" /\ g # x
      BY <2>2 DEF ReturnedToPool, startVars, SpawningSessions
    <3>2. /\ rest \in [Guilds -> Session] /\ rest[x].at # "queued"
          /\ \A y \in Guilds \ {x} : rest[y] = session[y]
      BY <1>0, NoWorkerType DEF Idle
    <3>3. session[x].at # "queued" /\ AddWorkerToPool(session[x].worker, rest)
      BY <2>2 DEF ReturnedToPool
    <3> HIDE DEF rest
    <3>4. OnlyWaiting(req_queues, rest)
      BY <3>2, <3>3, NotWaiting
    <3> QED BY <2>0, <3>1, <3>2, <3>3, <3>4, AddWorkerMoves
  <2>3. CASE ReceiveWorker(x) \/ ReturnWorker(x) \/ \E t \in Tiers : ReqWorker(x, t)
    <3>1. session[g].at = "spawning" /\ g # x
      BY <2>3 DEF ReceiveWorker, ReturnWorker, ReqWorker, startVars, SpawningSessions
    <3>2. session'[g] = session[g]
      BY <1>0, <2>3, <3>1 DEF ReceiveWorker, ReturnWorker, ReqWorker, TakeWorker, QueueRequest
    <3> QED BY <3>1, <3>2
  <2> QED BY <1>2, <2>1, <2>2, <2>3 DEF SessionStep
<1>3. CASE SpawnWorkers
  BY <1>0, <1>3 DEF SpawnWorkers, SpawnWorker, SpawningSessions
<1>4. ASSUME NEW c \in Callers, AddPendingWorker(c)
      PROVE  session'[g].at = "spawning"
  BY <1>0, <1>4 DEF AddPendingWorker, SpawningSessions, Callers
<1>5. ASSUME NEW h \in connecting, WorkerConnected(h)
      PROVE  session'[g].at = "spawning"
  <2>1. session[g].at = "spawning" /\ h \in WorkerHandle
    BY <1>5 DEF WorkerConnected, SpawningSessions, TypeOK
  <2> QED BY <1>0, <1>5, <2>1, AddWorkerMoves DEF WorkerConnected
<1> QED BY <1>1, <1>2, <1>3, <1>4, <1>5 DEF Next, Hello, StartCrash, vars

LEMMA ExactInvariant == Spec => [](QueuesExact /\ SpawningSessions)
<1>1. Init => QueuesExact /\ SpawningSessions
  BY PoolAssumption, SMTT(30) DEF Init, QueuesExact, SpawningSessions, Idle, Callers
<1> QED BY <1>1, ExactStep, SpawningStep, TypeCorrect, PTL DEF Spec

\* Every waiting session is in the queue of its tier exactly once and nobody else
\* is: the pool neither forgets a request nor hands a worker to a session that
\* does not await one.
THEOREM PoolQueuesExact == Spec => []QueuesExact
BY ExactInvariant, PTL

-----------------------------------------------------------------------------
(* Waiting sessions are served in order *)

LEMMA AddWorkerInOrder ==
  ASSUME TypeOK, NEW w \in WorkerHandle, NEW sessions \in [Guilds -> Session],
         OnlyWaiting(req_queues, sessions), AddWorkerToPool(w, sessions),
         NEW g \in Guilds, sessions[g].at = "queued", session'[g].at = "granted"
  PROVE  /\ req_queues[sessions[g].tier][1] = g
         /\ \A t \in (sessions[g].tier + 1)..MAX_PREMIUM_SLOT_TIER : req_queues[t] = <<>>
<1>0. w.priority_index \in Tiers
  BY DEF WorkerHandle
<1>1. ~Push(w.priority_index, w, sessions)
  BY DEF Push
<1>2. PICK i \in AskingFrom(w.priority_index) :
        (\A j \in AskingFrom(w.priority_index) : j <= i) /\ Serve(i, w, sessions)
  BY <1>1 DEF AddWorkerToPool
<1>3. i \in Tiers /\ w.priority_index <= i
      /\ req_queues[i] \in Seq(Guilds) /\ req_queues[i] # <<>>
  BY <1>0, PoolAssumption DEF AskingFrom, Tiers, TypeOK
<1>4. 1 \in DOMAIN req_queues[i] /\ Head(req_queues[i]) = req_queues[i][1]
  BY <1>3
<1>5. g = req_queues[i][1]
  BY <1>2, <1>4 DEF Serve
<1>6. sessions[g].tier = i
  BY <1>3, <1>4, <1>5 DEF OnlyWaiting
<1>7. \A t \in (i + 1)..MAX_PREMIUM_SLOT_TIER : req_queues[t] = <<>>
  BY <1>0, <1>2, <1>3, PoolAssumption DEF AskingFrom, Tiers
<1> QED BY <1>5, <1>6, <1>7

LEMMA InOrderStep == TypeOK /\ QueuesExact /\ [Next]_vars => [ServesInOrder]_vars
<1> SUFFICES ASSUME TypeOK, QueuesExact, Next,
                    NEW g \in Guilds, session[g].at = "queued", session'[g].at = "granted"
             PROVE  /\ req_queues[session[g].tier][1] = g
                    /\ \A t \in (session[g].tier + 1)..MAX_PREMIUM_SLOT_TIER : req_queues[t] = <<>>
  BY DEF ServesInOrder
<1>0. session \in [Guilds -> Session] /\ OnlyWaiting(req_queues, session)
  BY ExactSplit DEF TypeOK
<1>1. ASSUME NEW x \in Guilds, ReturnedToPool(x)
      PROVE  /\ req_queues[session[g].tier][1] = g
             /\ \A t \in (session[g].tier + 1)..MAX_PREMIUM_SLOT_TIER : req_queues[t] = <<>>
  <2> DEFINE rest == [session EXCEPT ![x] = Idle]
  <2>1. session[x].worker \in WorkerHandle /\ g # x
    BY <1>1 DEF TypeOK, Session, ReturnedToPool
  <2>2. /\ rest \in [Guilds -> Session] /\ rest[x].at # "queued" /\ rest[g] = session[g]
        /\ \A y \in Guilds \ {x} : rest[y] = session[y]
    BY <1>0, <2>1, NoWorkerType DEF Idle
  <2>3. session[x].at # "queued" /\ AddWorkerToPool(session[x].worker, rest)
    BY <1>1 DEF ReturnedToPool
  <2> HIDE DEF rest
  <2>4. OnlyWaiting(req_queues, rest)
    BY <2>2, <2>3, NotWaiting
  <2>5. /\ req_queues[rest[g].tier][1] = g
        /\ \A t \in (rest[g].tier + 1)..MAX_PREMIUM_SLOT_TIER : req_queues[t] = <<>>
    BY <2>1, <2>2, <2>3, <2>4, AddWorkerInOrder, SMTT(30)
  <2> QED BY <2>2, <2>5
<1>2. ASSUME NEW h \in connecting, WorkerConnected(h)
      PROVE  /\ req_queues[session[g].tier][1] = g
             /\ \A t \in (session[g].tier + 1)..MAX_PREMIUM_SLOT_TIER : req_queues[t] = <<>>
  <2>1. h \in WorkerHandle /\ AddWorkerToPool(h, session)
    BY <1>2 DEF TypeOK, WorkerConnected
  <2> QED BY <1>0, <2>1, AddWorkerInOrder
\* No other step grants a worker.
<1>3. ASSUME NEW x \in Guilds, SessionStep(x), ~ReturnedToPool(x)
      PROVE  FALSE
  <2>1. CASE x = g
    BY <1>3, <2>1 DEF SessionStep, ReqWorker, ReceiveWorker, ReturnWorker, ReturnBroken
  <2>2. CASE x # g
    <3>1. session'[g] = session[g]
      BY <1>0, <1>3, <2>2 DEF SessionStep, ReqWorker, TakeWorker, QueueRequest, ReceiveWorker,
         ReturnWorker, ReturnBroken
    <3> QED BY <3>1
  <2> QED BY <2>1, <2>2
<1>4. ASSUME NEW c \in Callers, AddPendingWorker(c)
      PROVE  FALSE
  BY <1>0, <1>4 DEF AddPendingWorker, Callers, Idle
<1>5. ~SpawnWorkers /\ \A id \in processes : ~Hello(id) /\ ~StartCrash(id)
  BY DEF SpawnWorkers, Hello, StartCrash
<1> QED BY <1>1, <1>2, <1>3, <1>4, <1>5 DEF Next

\* Whatever the interleaving, a waiting session gets a worker only when it is the
\* oldest of its tier and no higher tier waits.
THEOREM PoolServedInOrder == Spec => ServedInOrder
BY InOrderStep, PoolQueuesExact, TypeCorrect, PTL DEF Spec, ServedInOrder
=============================================================================
