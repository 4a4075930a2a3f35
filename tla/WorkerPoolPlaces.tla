--------------------------- MODULE WorkerPoolPlaces ---------------------------
(* A worker is in one place at a time, for any guilds, tiers, initial workers *)
(* and start faults.                                                          *)
EXTENDS WorkerPoolProofs, FiniteSetTheorems

\* Who has which worker id; its place in a pool is the pool.
AtSpawning == {<<"spawning", c, spawning[c].worker_id>> : c \in {x \in Callers : spawning[x] # NotSpawning}}
AtPending == {<<"pending", p, p.worker_id>> : p \in pending_starts}
AtConnecting == {<<"connecting", h, h.worker_id>> : h \in connecting}
AtPool == UNION {{<<"pool", i, pools[i][k].worker_id>> : k \in DOMAIN pools[i]} : i \in Tiers}
Has(sessions, g) == sessions[g].at \in {"granted", "holding", "returning"}
AtSession(sessions) ==
  {<<"session", g, sessions[g].worker.worker_id>> : g \in {x \in Guilds : Has(sessions, x)}}
At == AtSpawning \cup AtPending \cup AtConnecting \cup AtPool \cup AtSession(session)

\* No pool holds an id twice.
PoolsInjective ==
  \A i \in Tiers : \A k, l \in DOMAIN pools[i] :
     pools[i][k].worker_id = pools[i][l].worker_id => k = l

\* The strengthening of SingleOwner that every step preserves.
OnePlace ==
  /\ worker_id_gen \in Nat \ {0}
  /\ \A e \in At : e[3] \in 2..worker_id_gen
  /\ \A e, f \in At : e[3] = f[3] => e = f
  /\ PoolsInjective

\* A step that only moves a worker keeps it in one place.
LEMMA MovePlace ==
  ASSUME OnePlace, NEW e \in At, NEW f, f[3] = e[3], At' \subseteq (At \ {e}) \cup {f},
         PoolsInjective', worker_id_gen' = worker_id_gen
  PROVE  OnePlace'
<1>1. \A x \in At' : x[3] \in 2..worker_id_gen'
  BY DEF OnePlace
<1>2. ASSUME NEW x \in At', NEW y \in At', x[3] = y[3]
      PROVE  x = y
  BY <1>2 DEF OnePlace
<1> QED BY <1>1, <1>2 DEF OnePlace

\* So does one that drops workers ..
LEMMA DropPlace ==
  ASSUME OnePlace, At' \subseteq At, PoolsInjective', worker_id_gen' = worker_id_gen
  PROVE  OnePlace'
BY DEF OnePlace

\* .. and one that puts a new id somewhere.
LEMMA NewPlace ==
  ASSUME OnePlace, NEW f, f[3] = worker_id_gen + 1, At' \subseteq At \cup {f},
         PoolsInjective', worker_id_gen' = worker_id_gen + 1
  PROVE  OnePlace'
<1>1. \A x \in At : x[3] \in 2..worker_id_gen /\ x[3] # f[3]
  BY DEF OnePlace
<1>2. worker_id_gen' \in Nat \ {0}
  BY DEF OnePlace
<1>3. \A x \in At' : x[3] \in 2..worker_id_gen'
  BY <1>1 DEF OnePlace
<1>4. ASSUME NEW x \in At', NEW y \in At', x[3] = y[3]
      PROVE  x = y
  BY <1>1, <1>4 DEF OnePlace
<1> QED BY <1>2, <1>3, <1>4 DEF OnePlace

\* Vec::remove of the pool, place by place.
LEMMA WithoutPlaces ==
  ASSUME NEW S, NEW s \in Seq(S), NEW k \in DOMAIN s
  PROVE  /\ DOMAIN s = 1..Len(s) /\ Len(s) \in Nat
         /\ DOMAIN Without(s, k) = 1..(Len(s) - 1)
         /\ \A l \in DOMAIN Without(s, k) :
              Without(s, k)[l] = IF l < k THEN s[l] ELSE s[l + 1]
<1>1. DOMAIN s = 1..Len(s) /\ Len(s) \in Nat
  BY LenProperties
<1>2. /\ Without(s, k) \in Seq(S)
      /\ Len(Without(s, k)) = Len(s) - 1
      /\ \A l \in DOMAIN Without(s, k) :
           Without(s, k)[l] = IF l < k THEN s[l] ELSE s[l + 1]
  BY WithoutFacts
<1>3. DOMAIN Without(s, k) = 1..Len(Without(s, k))
  BY <1>2, LenProperties
<1> QED BY <1>1, <1>2, <1>3

\* Vec::push of the pool.
LEMMA AppendFacts ==
  ASSUME NEW S, NEW s \in Seq(S), NEW w
  PROVE  /\ DOMAIN s = 1..Len(s) /\ Len(s) \in Nat
         /\ DOMAIN Append(s, w) = 1..(Len(s) + 1)
         /\ \A k \in 1..Len(s) : Append(s, w)[k] = s[k]
         /\ Append(s, w)[Len(s) + 1] = w
OBVIOUS

\* add_worker_to_pool puts the worker it is given in one place and moves no other.
LEMMA AddWorkerPlace ==
  ASSUME TypeOK, PoolsInjective, NEW w \in WorkerHandle, NEW sessions \in [Guilds -> Session],
         OnlyWaiting(req_queues, sessions), AddWorkerToPool(w, sessions),
         \A e \in AtPool : e[3] # w.worker_id
  PROVE  /\ PoolsInjective'
         /\ \E f : /\ f[3] = w.worker_id
                   /\ AtPool' \cup AtSession(session)'
                        \subseteq AtPool \cup AtSession(sessions) \cup {f}
<1> DEFINE i == w.priority_index
<1>0. i \in Tiers
  BY DEF WorkerHandle
<1>1. CASE Push(i, w, sessions)
  <2> DEFINE f == <<"pool", i, w.worker_id>>
  <2>1. /\ DOMAIN pools[i] = 1..Len(pools[i]) /\ Len(pools[i]) \in Nat
        /\ DOMAIN Append(pools[i], w) = 1..(Len(pools[i]) + 1)
        /\ \A k \in 1..Len(pools[i]) : Append(pools[i], w)[k] = pools[i][k]
        /\ Append(pools[i], w)[Len(pools[i]) + 1] = w
    <3>1. pools[i] \in Seq(WorkerHandle)
      BY <1>0 DEF TypeOK
    <3> QED BY <3>1, AppendFacts
  <2>2. pools'[i] = Append(pools[i], w) /\ \A j \in Tiers \ {i} : pools'[j] = pools[j]
    BY <1>0, <1>1 DEF Push, TypeOK
  <2>3. \A k \in DOMAIN pools[i] : pools[i][k].worker_id # w.worker_id
    <3>1. \A k \in DOMAIN pools[i] : <<"pool", i, pools[i][k].worker_id>> \in AtPool
      BY <1>0 DEF AtPool
    <3> QED BY <3>1, Zenon
  <2>4. PoolsInjective'
    <3>1. ASSUME NEW k \in DOMAIN pools'[i], NEW l \in DOMAIN pools'[i],
                 pools'[i][k].worker_id = pools'[i][l].worker_id
          PROVE  k = l
      <4>1. \A m \in DOMAIN pools'[i] :
              \/ m \in DOMAIN pools[i] /\ pools'[i][m] = pools[i][m]
              \/ m = Len(pools[i]) + 1 /\ pools'[i][m] = w
        BY <2>1, <2>2
      <4>2. CASE k \in DOMAIN pools[i] /\ l \in DOMAIN pools[i]
        BY <1>0, <2>1, <2>2, <3>1, <4>2 DEF PoolsInjective
      <4>3. CASE ~(k \in DOMAIN pools[i] /\ l \in DOMAIN pools[i])
        BY <2>3, <3>1, <4>1, <4>3
      <4> QED BY <4>2, <4>3
    <3>2. ASSUME NEW j \in Tiers \ {i}, NEW k \in DOMAIN pools'[j], NEW l \in DOMAIN pools'[j],
                 pools'[j][k].worker_id = pools'[j][l].worker_id
          PROVE  k = l
      BY <2>2, <3>2 DEF PoolsInjective
    <3> QED BY <3>1, <3>2 DEF PoolsInjective
  <2>5. AtPool' \subseteq AtPool \cup {f}
    <3>1. ASSUME NEW j \in Tiers, NEW k \in DOMAIN pools'[j]
          PROVE  <<"pool", j, pools'[j][k].worker_id>> \in AtPool \cup {f}
      <4>1. CASE j # i
        BY <2>2, <4>1 DEF AtPool
      <4>2. CASE j = i /\ k \in DOMAIN pools[i]
        BY <1>0, <2>1, <2>2, <4>2 DEF AtPool
      <4>3. CASE j = i /\ k \notin DOMAIN pools[i]
        <5>1. k = Len(pools[i]) + 1
          BY <2>1, <2>2, <4>3
        <5> QED BY <2>1, <2>2, <4>3, <5>1
      <4> QED BY <4>1, <4>2, <4>3
    <3> QED BY <3>1 DEF AtPool
  <2>6. AtSession(session)' = AtSession(sessions)
    BY <1>1 DEF Push, AtSession, Has
  <2>7. f[3] = w.worker_id
    OBVIOUS
  <2> QED BY <2>4, <2>5, <2>6, <2>7, Zenon
<1>2. ASSUME NEW j \in AskingFrom(i), Serve(j, w, sessions)
      PROVE  /\ PoolsInjective'
             /\ \E f : /\ f[3] = w.worker_id
                       /\ AtPool' \cup AtSession(session)'
                            \subseteq AtPool \cup AtSession(sessions) \cup {f}
  <2> DEFINE g == Head(req_queues[j])
             f == <<"session", g, w.worker_id>>
  <2>1. AtPool' = AtPool /\ PoolsInjective'
    BY <1>2 DEF Serve, AtPool, PoolsInjective
  <2>2. \A x \in Guilds : x # g => session'[x] = sessions[x]
    BY <1>2 DEF Serve
  <2>3. g \in Guilds => session'[g].worker = w
    BY <1>2 DEF Serve
  <2>4. ASSUME NEW x \in Guilds, Has(session', x)
        PROVE  <<"session", x, session'[x].worker.worker_id>> \in AtSession(sessions) \cup {f}
    <3>1. CASE x = g
      BY <2>3, <3>1
    <3>2. CASE x # g
      <4>1. session'[x] = sessions[x] /\ Has(sessions, x)
        BY <2>2, <2>4, <3>2 DEF Has
      <4> QED BY <4>1 DEF AtSession
    <3> QED BY <3>1, <3>2
  <2>5. AtSession(session)' \subseteq AtSession(sessions) \cup {f}
    BY <2>4 DEF AtSession, Has
  <2>6. f[3] = w.worker_id
    OBVIOUS
  <2> QED BY <2>1, <2>5, <2>6, Zenon
<1> QED BY <1>1, <1>2 DEF AddWorkerToPool

\* An idle worker moves to the session that takes it.
LEMMA TakePlace ==
  ASSUME TypeOK, OnePlace, NEW g \in Guilds, NEW t \in Tiers, NEW i \in Tiers,
         NEW k \in DOMAIN pools[i], session[g].at = "idle", TakeWorker(g, t, i, k),
         UNCHANGED <<worker_id_gen, spawning, pending_starts, connecting>>
  PROVE  OnePlace'
<1> DEFINE id == pools[i][k].worker_id
           e == <<"pool", i, id>>
           f == <<"session", g, id>>
           rest == Without(pools[i], k)
<1>1. e \in At /\ f[3] = e[3]
  BY DEF At, AtPool
<1>2. /\ pools[i] \in Seq(WorkerHandle) /\ DOMAIN pools[i] = 1..Len(pools[i]) /\ Len(pools[i]) \in Nat
      /\ pools[i][k] \in WorkerHandle
  BY DEF TypeOK
<1>3. DOMAIN rest = 1..(Len(pools[i]) - 1)
      /\ \A l \in DOMAIN rest : rest[l] = IF l < k THEN pools[i][l] ELSE pools[i][l + 1]
  BY <1>2, WithoutPlaces
<1>4. pools'[i] = rest /\ \A j \in Tiers \ {i} : pools'[j] = pools[j]
  BY DEF TakeWorker, TypeOK
<1> HIDE DEF rest
<1>5. ASSUME NEW l \in DOMAIN rest
      PROVE  \E m \in DOMAIN pools[i] : m = (IF l < k THEN l ELSE l + 1) /\ rest[l] = pools[i][m] /\ m # k
  BY <1>2, <1>3
<1>6. PoolsInjective'
  <2>1. ASSUME NEW l \in DOMAIN rest, NEW m \in DOMAIN rest, rest[l].worker_id = rest[m].worker_id
        PROVE  l = m
    <3>1. PICK l2 \in DOMAIN pools[i] : l2 = (IF l < k THEN l ELSE l + 1) /\ rest[l] = pools[i][l2]
      BY <1>5
    <3>2. PICK m2 \in DOMAIN pools[i] : m2 = (IF m < k THEN m ELSE m + 1) /\ rest[m] = pools[i][m2]
      BY <1>5
    <3>3. l2 = m2
      BY <2>1, <3>1, <3>2 DEF OnePlace, PoolsInjective
    <3> QED BY <1>2, <1>3, <3>1, <3>2, <3>3
  <2> QED BY <1>4, <2>1 DEF OnePlace, PoolsInjective
<1>7. AtPool' \subseteq AtPool \ {e}
  <2>1. ASSUME NEW j \in Tiers, NEW l \in DOMAIN pools'[j]
        PROVE  <<"pool", j, pools'[j][l].worker_id>> \in AtPool \ {e}
    <3>1. CASE j # i
      BY <1>4, <3>1 DEF AtPool
    <3>2. CASE j = i
      <4>1. PICK m \in DOMAIN pools[i] : pools'[i][l] = pools[i][m] /\ m # k
        BY <1>4, <1>5, <3>2
      <4>2. pools[i][m].worker_id # id
        BY <4>1 DEF OnePlace, PoolsInjective
      <4> QED BY <3>2, <4>1, <4>2 DEF AtPool
    <3> QED BY <3>1, <3>2
  <2> QED BY <2>1 DEF AtPool
<1>8. AtSession(session)' \subseteq AtSession(session) \cup {f}
  <2>1. session'[g].worker.worker_id = id /\ \A x \in Guilds \ {g} : session'[x] = session[x]
    BY <1>2 DEF TakeWorker, TypeOK, WorkerHandle
  <2>2. ASSUME NEW x \in Guilds, Has(session', x)
        PROVE  <<"session", x, session'[x].worker.worker_id>> \in AtSession(session) \cup {f}
    <3>1. CASE x = g
      BY <2>1, <3>1
    <3>2. CASE x # g
      BY <2>1, <2>2, <3>2 DEF AtSession, Has
    <3> QED BY <3>1, <3>2
  <2> QED BY <2>2 DEF AtSession, Has
<1>9. AtSpawning' = AtSpawning /\ AtPending' = AtPending /\ AtConnecting' = AtConnecting
  BY DEF AtSpawning, AtPending, AtConnecting
<1>10. /\ e \notin AtSpawning /\ e \notin AtPending /\ e \notin AtConnecting
       /\ e \notin AtSession(session)
  BY DEF AtSpawning, AtPending, AtConnecting, AtSession
<1>11. At' \subseteq (At \ {e}) \cup {f}
  BY <1>7, <1>8, <1>9, <1>10 DEF At
<1> HIDE DEF e, f
<1> QED BY <1>1, <1>6, <1>11, MovePlace

\* spawn_worker puts a fresh id with its caller.
LEMMA SpawnPlace ==
  ASSUME TypeOK, OnePlace, NEW c \in Callers, NEW tier \in Tiers, spawning[c] = NotSpawning,
         SpawnWorker(c, tier), UNCHANGED <<pending_starts, connecting, pools>>,
         AtSession(session)' \subseteq AtSession(session)
  PROVE  OnePlace'
<1> DEFINE f == <<"spawning", c, worker_id_gen + 1>>
<1>1. worker_id_gen' = worker_id_gen + 1 /\ f[3] = worker_id_gen + 1
  BY DEF SpawnWorker
<1>2. spawning'[c].worker_id = worker_id_gen + 1 /\ \A d \in Callers \ {c} : spawning'[d] = spawning[d]
  BY <1>1 DEF SpawnWorker, TypeOK
<1>3. AtSpawning' \subseteq AtSpawning \cup {f}
  BY <1>2 DEF AtSpawning
<1>4. AtPending' = AtPending /\ AtConnecting' = AtConnecting /\ AtPool' = AtPool
      /\ PoolsInjective'
  BY DEF AtPending, AtConnecting, AtPool, OnePlace, PoolsInjective
<1>5. At' \subseteq At \cup {f}
  BY <1>3, <1>4 DEF At
<1> HIDE DEF f
<1> QED BY <1>1, <1>4, <1>5, NewPlace

\* add_worker_to_pool, called with a worker that was at e.
LEMMA ReleasePlace ==
  ASSUME TypeOK, OnePlace, NEW w \in WorkerHandle, NEW sessions \in [Guilds -> Session],
         OnlyWaiting(req_queues, sessions), AddWorkerToPool(w, sessions),
         NEW e \in At, e[3] = w.worker_id, e \notin AtPool,
         AtSpawning' \cup AtPending' \cup AtConnecting' \cup AtSession(sessions)
           \subseteq At \ {e},
         worker_id_gen' = worker_id_gen
  PROVE  OnePlace'
<1>1. \A x \in AtPool : x[3] # w.worker_id
  BY DEF OnePlace, At
<1>2. PoolsInjective
  BY DEF OnePlace
<1>3. PICK f : /\ PoolsInjective' /\ f[3] = w.worker_id
               /\ AtPool' \cup AtSession(session)'
                    \subseteq AtPool \cup AtSession(sessions) \cup {f}
  BY <1>1, <1>2, AddWorkerPlace
<1>4. AtPool \subseteq At \ {e}
  BY DEF At
<1>5. At' \subseteq (At \ {e}) \cup {f}
  BY <1>3, <1>4 DEF At
<1> QED BY <1>3, <1>5, MovePlace

LEMMA OnePlaceStep ==
  TypeOK /\ QueuesExact /\ SpawningSessions /\ OnePlace /\ [Next]_vars => OnePlace'
<1> SUFFICES ASSUME TypeOK, QueuesExact, SpawningSessions, OnePlace, [Next]_vars
             PROVE  OnePlace'
  OBVIOUS
<1>0. /\ session \in [Guilds -> Session] /\ spawning \in [Callers -> PendingWorkerHandle]
      /\ OnlyWaiting(req_queues, session) /\ worker_id_gen \in Nat
  BY ExactSplit DEF TypeOK
<1>1. CASE UNCHANGED <<worker_id_gen, spawning, pending_starts, connecting, pools>>
           /\ AtSession(session)' \subseteq AtSession(session)
  <2>1. At' \subseteq At /\ PoolsInjective'
    BY <1>1 DEF At, AtSpawning, AtPending, AtConnecting, AtPool, OnePlace, PoolsInjective
  <2> QED BY <1>1, <2>1, DropPlace
<1>2. ASSUME NEW g \in Guilds, NEW t \in Tiers, ReqWorker(g, t)
      PROVE  OnePlace'
  <2>1. CASE QueueRequest(g, t)
    <3>1. AtSession(session)' \subseteq AtSession(session)
      BY <1>0, <2>1 DEF QueueRequest, AtSession, Has
    <3> QED BY <1>1, <1>2, <2>1, <3>1, Zenon DEF ReqWorker, QueueRequest, startVars
  <2>2. ASSUME NEW i \in 0..t, NEW k \in DOMAIN pools[i], TakeWorker(g, t, i, k)
        PROVE  OnePlace'
    <3>1. i \in Tiers
      BY PoolAssumption DEF Tiers
    <3> QED BY <1>2, <2>2, <3>1, TakePlace DEF ReqWorker, startVars
  <2> QED BY <1>2, <2>1, <2>2 DEF ReqWorker
<1>3. ASSUME NEW g \in Guilds, ReceiveWorker(g) \/ ReturnWorker(g)
      PROVE  OnePlace'
  <2>1. /\ session'[g].worker.worker_id = session[g].worker.worker_id /\ Has(session, g)
        /\ \A x \in Guilds \ {g} : session'[x] = session[x]
    BY <1>0, <1>3 DEF ReceiveWorker, ReturnWorker, Has, Session, WorkerHandle
  <2>2. AtSession(session)' \subseteq AtSession(session)
    BY <2>1 DEF AtSession, Has
  <2> QED BY <1>1, <1>3, <2>2 DEF ReceiveWorker, ReturnWorker, startVars
<1>4. ASSUME NEW g \in Guilds, ReturnedToPool(g)
      PROVE  OnePlace'
  <2> DEFINE rest == [session EXCEPT ![g] = Idle]
             w == session[g].worker
             e == <<"session", g, w.worker_id>>
  <2>1. w \in WorkerHandle /\ Has(session, g)
    BY <1>0, <1>4 DEF Session, ReturnedToPool, Has
  <2>2. /\ rest \in [Guilds -> Session] /\ rest[g].at = "idle"
        /\ \A x \in Guilds \ {g} : rest[x] = session[x]
    BY <1>0, NoWorkerType DEF Idle
  <2>3. session[g].at # "queued" /\ AddWorkerToPool(w, rest) /\ worker_id_gen' = worker_id_gen
    BY <1>4 DEF ReturnedToPool
  <2> HIDE DEF rest
  <2>4. OnlyWaiting(req_queues, rest)
    BY <2>2, <2>3, NotWaiting
  <2>5. e \in AtSession(session) /\ e[3] = w.worker_id
    BY <2>1 DEF AtSession
  <2>6. AtSession(rest) \subseteq AtSession(session) \ {e}
    BY <2>2 DEF AtSession, Has
  <2>7. AtSpawning' = AtSpawning /\ AtPending' = AtPending /\ AtConnecting' = AtConnecting
    BY <1>4 DEF ReturnedToPool, startVars, AtSpawning, AtPending, AtConnecting
  <2>8. e \notin AtSpawning /\ e \notin AtPending /\ e \notin AtConnecting /\ e \notin AtPool
    BY DEF AtSpawning, AtPending, AtConnecting, AtPool
  <2> HIDE DEF e, w
  <2>9. e \in At
        /\ AtSpawning' \cup AtPending' \cup AtConnecting' \cup AtSession(rest) \subseteq At \ {e}
    BY <2>5, <2>6, <2>7, <2>8 DEF At
  <2> QED BY <2>1, <2>2, <2>3, <2>4, <2>5, <2>8, <2>9, ReleasePlace
<1>5. ASSUME NEW g \in Guilds, ReturnBroken(g)
      PROVE  OnePlace'
  <2>1. g \in Callers /\ session[g].worker.priority_index \in Tiers /\ spawning[g] = NotSpawning
    BY <1>0, <1>5 DEF Callers, Session, WorkerHandle, ReturnBroken, SpawningSessions
  <2>2. AtSession(session)' \subseteq AtSession(session)
    BY <1>0, <1>5 DEF ReturnBroken, AtSession, Has, Session
  <2> QED BY <1>5, <2>1, <2>2, SpawnPlace, Zenon DEF ReturnBroken
<1>6. CASE SpawnWorkers
  <2>1. Main \in Callers /\ Head(boot) \in Tiers
    BY <1>6 DEF Callers, SpawnWorkers, TypeOK
  <2>2. AtSession(session)' \subseteq AtSession(session)
    BY <1>6 DEF SpawnWorkers, AtSession, Has
  <2> QED BY <1>6, <2>1, <2>2, SpawnPlace DEF SpawnWorkers
<1>7. ASSUME NEW c \in Callers, AddPendingWorker(c)
      PROVE  OnePlace'
  <2> DEFINE p == spawning[c]
             e == <<"spawning", c, p.worker_id>>
             f == <<"pending", p, p.worker_id>>
  <2>1. e \in AtSpawning /\ f[3] = e[3]
    BY <1>7 DEF AddPendingWorker, AtSpawning
  <2>2. AtSpawning' \subseteq AtSpawning \ {e}
    BY <1>0, <1>7 DEF AddPendingWorker, AtSpawning
  <2>3. AtPending' \subseteq AtPending \cup {f}
    BY <1>7 DEF AddPendingWorker, AtPending
  <2>4. AtSession(session)' \subseteq AtSession(session)
    BY <1>0, <1>7 DEF AddPendingWorker, AtSession, Has, Idle
  <2>5. AtConnecting' = AtConnecting /\ AtPool' = AtPool /\ PoolsInjective'
        /\ worker_id_gen' = worker_id_gen
    BY <1>7 DEF AddPendingWorker, AtConnecting, AtPool, OnePlace, PoolsInjective
  <2>6. e \notin AtPending /\ e \notin AtConnecting /\ e \notin AtPool /\ e \notin AtSession(session)
    BY DEF AtPending, AtConnecting, AtPool, AtSession
  <2> HIDE DEF e, f
  <2>7. e \in At /\ At' \subseteq (At \ {e}) \cup {f}
    BY <2>1, <2>2, <2>3, <2>4, <2>5, <2>6 DEF At
  <2> QED BY <2>1, <2>5, <2>7, MovePlace
<1>8. ASSUME NEW id \in processes, Hello(id)
      PROVE  OnePlace'
  <2>0. AtSpawning' = AtSpawning /\ AtPool' = AtPool /\ AtSession(session)' = AtSession(session)
        /\ PoolsInjective' /\ worker_id_gen' = worker_id_gen
    BY <1>8 DEF Hello, AtSpawning, AtPool, AtSession, Has, OnePlace, PoolsInjective
  <2>1. CASE UNCHANGED <<pending_starts, connecting>>
    <3>1. AtPending' = AtPending /\ AtConnecting' = AtConnecting
      BY <2>1 DEF AtPending, AtConnecting
    <3> QED BY <2>0, <3>1, DropPlace DEF At
  <2>2. ASSUME NEW p \in pending_starts, p.worker_id = id,
               pending_starts' = pending_starts \ {p},
               connecting' = connecting \cup
                 {[worker_id |-> id, priority_index |-> p.priority_index,
                   last_active_guild |-> NoGuild]}
        PROVE  OnePlace'
    <3> DEFINE h == [worker_id |-> id, priority_index |-> p.priority_index,
                     last_active_guild |-> NoGuild]
               e == <<"pending", p, p.worker_id>>
               f == <<"connecting", h, h.worker_id>>
    <3>1. e \in AtPending /\ f[3] = e[3]
      BY <2>2 DEF AtPending
    <3>2. AtPending' \subseteq AtPending \ {e} /\ AtConnecting' \subseteq AtConnecting \cup {f}
      BY <2>2 DEF AtPending, AtConnecting
    <3>3. e \notin AtSpawning /\ e \notin AtConnecting /\ e \notin AtPool /\ e \notin AtSession(session)
      BY DEF AtSpawning, AtConnecting, AtPool, AtSession
    <3> HIDE DEF e, f
    <3>4. e \in At /\ At' \subseteq (At \ {e}) \cup {f}
      BY <2>0, <3>1, <3>2, <3>3 DEF At
    <3> QED BY <2>0, <3>1, <3>4, MovePlace
  <2> QED BY <1>8, <2>1, <2>2 DEF Hello
<1>9. ASSUME NEW h \in connecting, WorkerConnected(h)
      PROVE  OnePlace'
  <2> DEFINE e == <<"connecting", h, h.worker_id>>
  <2>1. h \in WorkerHandle /\ AddWorkerToPool(h, session) /\ worker_id_gen' = worker_id_gen
    BY <1>9 DEF TypeOK, WorkerConnected
  <2>2. e \in AtConnecting /\ e[3] = h.worker_id /\ AtConnecting' \subseteq AtConnecting \ {e}
    BY <1>9 DEF WorkerConnected, AtConnecting
  <2>3. AtSpawning' = AtSpawning /\ AtPending' = AtPending
    BY <1>9 DEF WorkerConnected, AtSpawning, AtPending
  <2>4. e \notin AtSpawning /\ e \notin AtPending /\ e \notin AtPool /\ e \notin AtSession(session)
    BY DEF AtSpawning, AtPending, AtPool, AtSession
  <2> HIDE DEF e
  <2>5. e \in At
        /\ AtSpawning' \cup AtPending' \cup AtConnecting' \cup AtSession(session) \subseteq At \ {e}
    BY <2>2, <2>3, <2>4 DEF At
  <2> QED BY <1>0, <2>1, <2>2, <2>4, <2>5, ReleasePlace
<1>10. CASE \E id \in processes : StartCrash(id)
  BY <1>1, <1>10 DEF StartCrash, AtSession, Has
<1>11. CASE UNCHANGED vars
  BY <1>1, <1>11 DEF vars, AtSession, Has
<1> QED
  BY <1>2, <1>3, <1>4, <1>5, <1>6, <1>7, <1>8, <1>9, <1>10, <1>11 DEF Next, SessionStep

LEMMA OnePlaceInvariant == Spec => []OnePlace
<1>1. Init => OnePlace
  <2> SUFFICES ASSUME Init
               PROVE  OnePlace
    OBVIOUS
  <2>1. AtSpawning = {} /\ AtPending = {} /\ AtConnecting = {}
    BY DEF Init, AtSpawning, AtPending, AtConnecting
  <2>2. AtPool = {} /\ PoolsInjective
    BY DEF Init, AtPool, PoolsInjective
  <2>3. AtSession(session) = {}
    BY DEF Init, AtSession, Has, Idle
  <2>4. worker_id_gen = 1
    BY DEF Init
  <2> QED BY <2>1, <2>2, <2>3, <2>4 DEF OnePlace, At
<1> QED BY <1>1, OnePlaceStep, ExactInvariant, TypeCorrect, PTL DEF Spec

LEMMA PlacesAgree ==
  ASSUME TypeOK, OnePlace, NEW id \in 2..worker_id_gen, NEW x \in PlacesOf(id), NEW y \in PlacesOf(id)
  PROVE  x = y
<1> DEFINE Stands(z, e) ==
      \/ e[1] # "pool" /\ z = <<e[1], e[2]>>
      \/ /\ e[1] = "pool" /\ e[2] \in Tiers
         /\ \E k \in DOMAIN pools[e[2]] : pools[e[2]][k].worker_id = id /\ z = <<"pool", <<e[2], k>>>>
<1>1. ASSUME NEW z \in PlacesOf(id)
      PROVE  \E e \in At : e[3] = id /\ Stands(z, e)
  <2>1. CASE z \in SpawningOf(id)
    <3>1. PICK c \in Callers : spawning[c].worker_id = id /\ z = <<"spawning", c>>
      BY <2>1 DEF SpawningOf
    <3>2. spawning[c] # NotSpawning
      BY <3>1 DEF NotSpawning, OnePlace
    <3>3. <<"spawning", c, id>> \in At
      BY <3>1, <3>2 DEF At, AtSpawning
    <3> QED BY <3>1, <3>3
  <2>2. CASE z \in PendingOf(id)
    <3>1. PICK p \in pending_starts : p.worker_id = id /\ z = <<"pending", p>>
      BY <2>2 DEF PendingOf
    <3>2. <<"pending", p, id>> \in At
      BY <3>1 DEF At, AtPending
    <3> QED BY <3>1, <3>2
  <2>3. CASE z \in ConnectingOf(id)
    <3>1. PICK h \in connecting : h.worker_id = id /\ z = <<"connecting", h>>
      BY <2>3 DEF ConnectingOf
    <3>2. <<"connecting", h, id>> \in At
      BY <3>1 DEF At, AtConnecting
    <3> QED BY <3>1, <3>2
  <2>4. CASE z \in PooledOf(id)
    <3>1. PICK i \in Tiers : \E k \in DOMAIN pools[i] :
            pools[i][k].worker_id = id /\ z = <<"pool", <<i, k>>>>
      BY <2>4 DEF PooledOf
    <3>2. <<"pool", i, id>> \in At
      BY <3>1 DEF At, AtPool
    <3> QED BY <3>1, <3>2
  <2>5. CASE z \in HeldOf(id)
    <3>1. PICK g \in Guilds : HasWorker(g) /\ session[g].worker.worker_id = id /\ z = <<"session", g>>
      BY <2>5 DEF HeldOf
    <3>2. <<"session", g, id>> \in At
      BY <3>1 DEF At, AtSession, Has, HasWorker
    <3> QED BY <3>1, <3>2
  <2> QED BY <2>1, <2>2, <2>3, <2>4, <2>5 DEF PlacesOf
<1>2. PICK e \in At : e[3] = id /\ Stands(x, e)
  BY <1>1
<1>3. PICK f \in At : f[3] = id /\ Stands(y, f)
  BY <1>1
<1>4. e = f
  BY <1>2, <1>3 DEF OnePlace
<1> QED BY <1>2, <1>3, <1>4 DEF OnePlace, PoolsInjective

\* Whatever the interleaving of requests, returns, respawns and connections, a worker
\* id is in one place: no two sessions run on one worker, and none runs on an idle one.
THEOREM PoolSingleOwner == Spec => []SingleOwner
<1>1. TypeOK /\ OnePlace => SingleOwner
  <2> SUFFICES ASSUME TypeOK, OnePlace, NEW id \in 2..worker_id_gen
               PROVE  Cardinality(PlacesOf(id)) <= 1
    BY DEF SingleOwner
  <2>1. CASE PlacesOf(id) = {}
    BY <2>1, FS_EmptySet
  <2>2. CASE PlacesOf(id) # {}
    <3>1. PICK x : x \in PlacesOf(id)
      BY <2>2
    <3>2. PlacesOf(id) = {x}
      BY <3>1, PlacesAgree
    <3> QED BY <3>2, FS_Singleton
  <2> QED BY <2>1, <2>2
<1> QED BY <1>1, OnePlaceInvariant, TypeCorrect, PTL
=============================================================================
