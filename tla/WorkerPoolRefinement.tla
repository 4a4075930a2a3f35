------------------------- MODULE WorkerPoolRefinement -------------------------
(* The pool implements the allocator its sessions see, for any guilds, tiers, *)
(* initial workers and start faults.                                          *)
EXTENDS WorkerPoolPlaces

\* What the sessions have and want, with the sessions as in sessions.
OwnsOf(sessions) == {<<g, Worker(sessions[g].worker)>> : g \in {x \in Guilds : Has(sessions, x)}}
WantsOf(sessions) == {<<g, sessions[g].tier>> : g \in {x \in Guilds : sessions[x].at = "queued"}}

LEMMA OwnsWants == Owns = OwnsOf(session) /\ Wants = WantsOf(session)
BY DEF Owns, OwnsOf, Wants, WantsOf, Has, HasWorker

LEMMA OwnsWantsPrime == Owns' = OwnsOf(session') /\ Wants' = WantsOf(session')
BY DEF Owns, OwnsOf, Wants, WantsOf, Has, HasWorker

\* add_worker_to_pool offers the worker: to nobody if no queue it may serve has a
\* request, else to one of the highest tier that waits.
LEMMA AddWorkerOffers ==
  ASSUME TypeOK, NEW w \in WorkerHandle, NEW sessions \in [Guilds -> Session],
         OnlyWaiting(req_queues, sessions), AllWaiting(req_queues, sessions),
         AddWorkerToPool(w, sessions), WantsOf(sessions) = Wants
  PROVE  Allocator!Offer(Worker(w), OwnsOf(sessions))
<1> DEFINE p == w.priority_index
<1>0. p \in Tiers /\ Tiers \subseteq Int
  BY PoolAssumption DEF WorkerHandle, Tiers
<1>1. \A r \in Wants : r[2] \in Tiers /\ req_queues[r[2]] # <<>>
  <2>1. ASSUME NEW g \in Guilds, sessions[g].at = "queued"
        PROVE  sessions[g].tier \in Tiers /\ req_queues[sessions[g].tier] # <<>>
    <3>1. sessions[g].tier \in Tiers
      BY DEF Session
    <3>2. \E k \in DOMAIN req_queues[sessions[g].tier] : req_queues[sessions[g].tier][k] = g
      BY <2>1 DEF AllWaiting
    <3> QED BY <3>1, <3>2 DEF TypeOK
  <2> QED BY <2>1 DEF WantsOf
<1>2. \A r \in Wants : p <= r[2] => r[2] \in AskingFrom(p)
  BY <1>0, <1>1, PoolAssumption DEF AskingFrom, Tiers
<1>3. CASE AskingFrom(p) = {} /\ Push(p, w, sessions)
  <2>1. ASSUME NEW r \in Wants
        PROVE  r[2] < Worker(w).tier
    <3>1. r[2] \in Int /\ p \in Int /\ ~(p <= r[2])
      BY <1>0, <1>1, <1>2, <1>3, Zenon
    <3>2. Worker(w).tier = p
      BY DEF Worker
    <3> HIDE DEF p
    <3> QED BY <3>1, <3>2
  <2>2. Owns' = OwnsOf(sessions) /\ Wants' = Wants
    BY <1>3, OwnsWantsPrime DEF Push
  <2>3. Free' = Free \cup {Worker(w)}
    <3>1. /\ DOMAIN pools[p] = 1..Len(pools[p]) /\ Len(pools[p]) \in Nat
          /\ DOMAIN Append(pools[p], w) = 1..(Len(pools[p]) + 1)
          /\ \A k \in 1..Len(pools[p]) : Append(pools[p], w)[k] = pools[p][k]
          /\ Append(pools[p], w)[Len(pools[p]) + 1] = w
      <4>1. pools[p] \in Seq(WorkerHandle)
        BY <1>0, Zenon DEF TypeOK
      <4> QED BY <4>1, AppendFacts
    <3>2. pools'[p] = Append(pools[p], w) /\ \A j \in Tiers \ {p} : pools'[j] = pools[j]
      BY <1>0, <1>3 DEF Push, TypeOK
    <3>3. ASSUME NEW j \in Tiers \ {p}
          PROVE  {Worker(pools'[j][k]) : k \in DOMAIN pools'[j]}
                   = {Worker(pools[j][k]) : k \in DOMAIN pools[j]}
      BY <3>2
    <3>4. {Worker(pools'[p][k]) : k \in DOMAIN pools'[p]}
            = {Worker(pools[p][k]) : k \in DOMAIN pools[p]} \cup {Worker(w)}
      <4>1. Len(pools[p]) + 1 \in DOMAIN pools'[p] /\ pools'[p][Len(pools[p]) + 1] = w
        BY <3>1, <3>2
      <4>2. \A k \in DOMAIN pools[p] : k \in DOMAIN pools'[p] /\ pools'[p][k] = pools[p][k]
        BY <3>1, <3>2
      <4>3. \A k \in DOMAIN pools'[p] : k \in DOMAIN pools[p] \/ pools'[p][k] = w
        BY <3>1, <3>2
      <4> QED BY <4>1, <4>2, <4>3
    <3> DEFINE Old(j) == {Worker(pools[j][k]) : k \in DOMAIN pools[j]}
               New(j) == {Worker(pools'[j][k]) : k \in DOMAIN pools'[j]}
    <3>5. Free = UNION {Old(j) : j \in Tiers} /\ Free' = UNION {New(j) : j \in Tiers}
      BY DEF Free
    <3>6. New(p) = Old(p) \cup {Worker(w)} /\ \A j \in Tiers \ {p} : New(j) = Old(j)
      BY <3>3, <3>4
    <3> HIDE DEF Old, New, p
    <3> QED BY <1>0, <3>5, <3>6
  <2> QED BY <2>1, <2>2, <2>3 DEF Allocator!Offer
<1>4. ASSUME NEW i \in AskingFrom(p), \A j \in AskingFrom(p) : j <= i, Serve(i, w, sessions)
      PROVE  Allocator!Offer(Worker(w), OwnsOf(sessions))
  <2> DEFINE g == Head(req_queues[i])
             r == <<g, i>>
  <2>1. i \in Tiers /\ p <= i /\ req_queues[i] \in Seq(Guilds) /\ req_queues[i] # <<>>
    BY <1>0, PoolAssumption DEF AskingFrom, Tiers, TypeOK
  <2>2. g \in Guilds /\ sessions[g].at = "queued" /\ sessions[g].tier = i
    <3>1. 1 \in DOMAIN req_queues[i] /\ g = req_queues[i][1] /\ g \in Guilds
      BY <2>1
    <3> QED BY <2>1, <3>1 DEF OnlyWaiting
  <2>3. r \in Wants
    BY <2>2 DEF WantsOf
  <2>4. ASSUME NEW other \in Wants
        PROVE  other[2] <= i
    <3>1. other[2] \in Int /\ i \in Int /\ p \in Int /\ (p <= other[2] => other[2] \in AskingFrom(p))
      BY <1>0, <1>1, <1>2, <2>1, Zenon
    <3> HIDE DEF p
    <3> QED BY <1>4, <2>1, <3>1
  <2>5. /\ session'[g] = [at |-> "granted", tier |-> i, worker |-> w]
        /\ \A x \in Guilds \ {g} : session'[x] = sessions[x]
    BY <1>4, <2>2 DEF Serve
  <2> HIDE DEF g
  <2>6. Wants' = Wants \ {r}
    <3>1. WantsOf(session') = WantsOf(sessions) \ {r}
      BY <2>2, <2>5 DEF WantsOf
    <3> QED BY <3>1, OwnsWantsPrime
  <2>7. Owns' = OwnsOf(sessions) \cup {<<g, Worker(w)>>}
    <3>1. OwnsOf(session') = OwnsOf(sessions) \cup {<<g, Worker(w)>>}
      BY <2>2, <2>5 DEF OwnsOf, Has
    <3> QED BY <3>1, OwnsWantsPrime
  <2>8. Free' = Free
    BY <1>4 DEF Serve, Free
  <2>9. Worker(w).tier <= r[2] /\ r[1] = g /\ r[2] = i
    BY <2>1 DEF Worker
  <2> HIDE DEF r
  <2> QED BY <2>3, <2>4, <2>6, <2>7, <2>8, <2>9 DEF Allocator!Offer
<1> QED BY <1>3, <1>4 DEF AddWorkerToPool

\* Nothing the sessions see changes.
Unseen == UNCHANGED <<Free, Owns, Wants, Known>>

\* A worker that starts is not known before it is connected.
LEMMA KnownStays ==
  ASSUME worker_id_gen' = worker_id_gen, \A id \in 2..worker_id_gen : id \in Starting' <=> id \in Starting
  PROVE  Known' = Known
BY DEF Known

\* A fresh id is starting.
LEMMA SpawnUnknown ==
  ASSUME TypeOK, OnePlace, NEW c \in Callers, NEW tier, spawning[c] = NotSpawning,
         SpawnWorker(c, tier), UNCHANGED <<pending_starts, connecting>>
  PROVE  Known' = Known
<1>1. worker_id_gen \in Nat /\ worker_id_gen' = worker_id_gen + 1
  BY DEF SpawnWorker, TypeOK
<1>2. spawning'[c].worker_id = worker_id_gen + 1 /\ \A d \in Callers \ {c} : spawning'[d] = spawning[d]
  BY <1>1 DEF SpawnWorker, TypeOK
<1>3. spawning[c].worker_id = 0
  BY DEF NotSpawning
<1>4. {spawning'[d].worker_id : d \in Callers}
        = {spawning[d].worker_id : d \in Callers \ {c}} \cup {worker_id_gen + 1}
  BY <1>2
<1>5. {spawning[d].worker_id : d \in Callers} = {spawning[d].worker_id : d \in Callers \ {c}} \cup {0}
  BY <1>3
<1>6. Starting' \cup {0} = Starting \cup {worker_id_gen + 1}
  BY <1>4, <1>5, Zenon DEF Starting
<1> QED BY <1>1, <1>6 DEF Known

\* A worker taken from its pool is gone from it: no pool holds it twice.
LEMMA TakeFrees ==
  ASSUME TypeOK, OnePlace, NEW g \in Guilds, NEW t \in Tiers, NEW i \in Tiers,
         NEW k \in DOMAIN pools[i], TakeWorker(g, t, i, k)
  PROVE  Free' = Free \ {Worker(pools[i][k])}
<1> DEFINE rest == Without(pools[i], k)
           Old(j) == {Worker(pools[j][l]) : l \in DOMAIN pools[j]}
           New(j) == {Worker(pools'[j][l]) : l \in DOMAIN pools'[j]}
           w == Worker(pools[i][k])
<1>1. pools[i] \in Seq(WorkerHandle) /\ DOMAIN pools[i] = 1..Len(pools[i]) /\ Len(pools[i]) \in Nat
  BY DEF TypeOK
<1>2. DOMAIN rest = 1..(Len(pools[i]) - 1)
      /\ \A l \in DOMAIN rest : rest[l] = IF l < k THEN pools[i][l] ELSE pools[i][l + 1]
  BY <1>1, WithoutPlaces
<1>3. pools'[i] = rest /\ \A j \in Tiers \ {i} : pools'[j] = pools[j]
  BY DEF TakeWorker, TypeOK
<1> HIDE DEF rest
<1>4. \A l \in DOMAIN rest : \E m \in DOMAIN pools[i] \ {k} : rest[l] = pools[i][m]
  <2> SUFFICES ASSUME NEW l \in DOMAIN rest
               PROVE  \E m \in DOMAIN pools[i] \ {k} : rest[l] = pools[i][m]
    OBVIOUS
  <2>1. CASE l < k
    BY <1>1, <1>2, <2>1
  <2>2. CASE ~(l < k)
    <3>1. l + 1 \in DOMAIN pools[i] \ {k}
      BY <1>1, <1>2, <2>2
    <3> QED BY <1>2, <2>2, <3>1
  <2> QED BY <2>1, <2>2
<1>5. \A m \in DOMAIN pools[i] \ {k} : \E l \in DOMAIN rest : rest[l] = pools[i][m]
  <2> SUFFICES ASSUME NEW m \in DOMAIN pools[i] \ {k}
               PROVE  \E l \in DOMAIN rest : rest[l] = pools[i][m]
    OBVIOUS
  <2>1. CASE m < k
    BY <1>1, <1>2, <2>1
  <2>2. CASE ~(m < k)
    <3>1. m - 1 \in DOMAIN rest /\ ~(m - 1 < k) /\ (m - 1) + 1 = m
      BY <1>1, <1>2, <2>2
    <3> QED BY <1>2, <3>1
  <2> QED BY <2>1, <2>2
<1>6. \A m \in DOMAIN pools[i] \ {k} : Worker(pools[i][m]) # w
  BY DEF OnePlace, PoolsInjective, Worker
<1>7. New(i) = Old(i) \ {w}
  BY <1>3, <1>4, <1>5, <1>6
<1>8. \A j \in Tiers \ {i} : New(j) = Old(j) /\ w \notin Old(j)
  <2>1. \A j \in Tiers : \A l \in DOMAIN pools[j] : Worker(pools[j][l]).tier = j
    BY DEF TypeOK, Worker
  <2>2. w.tier = i
    BY <2>1
  <2> QED BY <1>3, <2>1, <2>2
<1>9. Free = UNION {Old(j) : j \in Tiers} /\ Free' = UNION {New(j) : j \in Tiers}
  BY DEF Free
<1> HIDE DEF Old, New, w
<1>10. Free' = Free \ {w}
  BY <1>7, <1>8, <1>9
<1> QED BY <1>10 DEF w

LEMMA ReqWorkerRefines ==
  ASSUME TypeOK, OnePlace, NEW g \in Guilds, NEW t \in Tiers, ReqWorker(g, t)
  PROVE  Allocator!Next
<1>0. /\ session \in [Guilds -> Session] /\ session[g].at = "idle"
      /\ Tiers \subseteq Nat /\ t \in Tiers
  BY PoolAssumption DEF TypeOK, ReqWorker, Tiers
<1>1. Known' = Known
  <2>1. Starting' = Starting /\ worker_id_gen' = worker_id_gen
    BY DEF ReqWorker, startVars, Starting
  <2> QED BY <2>1, KnownStays
<1>2. Allocator!NoRequest(g)
  <2>1. \A e \in Owns : e[1] # g
    BY <1>0 DEF Owns, HasWorker
  <2>2. \A e \in Wants : e[1] # g
    BY <1>0 DEF Wants
  <2> QED BY <2>1, <2>2 DEF Allocator!NoRequest
<1>3. CASE QueueRequest(g, t)
  <2>1. /\ session'[g] = [at |-> "queued", tier |-> t, worker |-> NoWorker]
        /\ \A x \in Guilds \ {g} : session'[x] = session[x]
    BY <1>0, <1>3 DEF QueueRequest
  <2>2. Owns' = Owns
    <3>1. OwnsOf(session') = OwnsOf(session)
      BY <1>0, <2>1 DEF OwnsOf, Has
    <3> QED BY <3>1, OwnsWants, OwnsWantsPrime
  <2>3. Wants' = Wants \cup {<<g, t>>}
    <3>1. WantsOf(session') = WantsOf(session) \cup {<<g, t>>}
      BY <1>0, <2>1 DEF WantsOf
    <3> QED BY <3>1, OwnsWants, OwnsWantsPrime
  <2>4. Free' = Free
    BY <1>3 DEF QueueRequest, Free
  <2>5. \A w \in Free : w.tier > t
    <3>1. ASSUME NEW i \in Tiers, NEW k \in DOMAIN pools[i]
          PROVE  Worker(pools[i][k]).tier > t
      <4>1. Worker(pools[i][k]).tier = i
        BY DEF TypeOK, Worker
      <4>2. pools[i] # <<>>
        OBVIOUS
      <4>3. ~(i <= t)
        BY <1>0, <1>3, <4>2 DEF QueueRequest
      <4> QED BY <1>0, <4>1, <4>3
    <3> QED BY <3>1 DEF Free
  <2>6. Allocator!Wait(g, t)
    BY <1>1, <1>2, <2>2, <2>3, <2>4, <2>5 DEF Allocator!Wait
  <2> QED BY <2>6 DEF Allocator!Next
<1>4. ASSUME NEW i \in 0..t, NEW k \in DOMAIN pools[i], TakeWorker(g, t, i, k)
      PROVE  Allocator!Next
  <2> DEFINE w == Worker(pools[i][k])
  <2>1. i \in Tiers /\ i <= t
    BY PoolAssumption DEF Tiers
  <2>2. w.tier = i /\ w \in Free
    BY <2>1 DEF TypeOK, Worker, Free
  <2>3. Free' = Free \ {w}
    BY <1>4, <2>1, TakeFrees
  <2>4. /\ Has(session', g) /\ Worker(session'[g].worker) = w /\ session'[g].at # "queued"
        /\ \A x \in Guilds \ {g} : session'[x] = session[x]
    <3>1. pools[i][k] \in WorkerHandle
      BY <2>1 DEF TypeOK
    <3> QED BY <1>0, <1>4, <3>1 DEF TakeWorker, Has, Worker, WorkerHandle
  <2> HIDE DEF w
  <2>5. Owns' = Owns \cup {<<g, w>>}
    <3>1. OwnsOf(session') = OwnsOf(session) \cup {<<g, w>>}
      BY <1>0, <2>4 DEF OwnsOf, Has
    <3> QED BY <3>1, OwnsWants, OwnsWantsPrime
  <2>6. Wants' = Wants
    <3>1. WantsOf(session') = WantsOf(session)
      BY <1>0, <2>4 DEF WantsOf
    <3> QED BY <3>1, OwnsWants, OwnsWantsPrime
  <2>7. Allocator!Take(g, t, w)
    BY <1>1, <1>2, <2>1, <2>2, <2>3, <2>5, <2>6 DEF Allocator!Take
  <2> QED BY <2>2, <2>7 DEF Allocator!Next
<1> QED BY <1>3, <1>4 DEF ReqWorker

LEMMA ReturnRefines ==
  ASSUME TypeOK, QueuesExact, NEW g \in Guilds, ReturnedToPool(g)
  PROVE  Allocator!Next
<1> DEFINE rest == [session EXCEPT ![g] = Idle]
           h == session[g].worker
           e == <<g, Worker(h)>>
<1>1. session \in [Guilds -> Session] /\ h \in WorkerHandle /\ Has(session, g) /\ session[g].at # "queued"
  BY DEF TypeOK, Session, ReturnedToPool, Has
<1>2. /\ rest \in [Guilds -> Session] /\ rest[g].at = "idle"
      /\ \A x \in Guilds \ {g} : rest[x] = session[x]
  BY <1>1, NoWorkerType DEF Idle
<1>3. AddWorkerToPool(h, rest)
  BY DEF ReturnedToPool
<1> HIDE DEF rest
<1>4. OnlyWaiting(req_queues, rest) /\ AllWaiting(req_queues, rest)
  BY <1>1, <1>2, NotWaiting
<1>5. WantsOf(rest) = Wants
  <2>1. WantsOf(rest) = WantsOf(session)
    BY <1>1, <1>2 DEF WantsOf
  <2> QED BY <2>1, OwnsWants
<1>6. e \in Owns /\ OwnsOf(rest) = Owns \ {e} /\ e[2] = Worker(h)
  <2>1. e \in OwnsOf(session) /\ OwnsOf(rest) = OwnsOf(session) \ {e}
    BY <1>1, <1>2 DEF OwnsOf, Has
  <2> QED BY <2>1, OwnsWants
<1>7. Known' = Known
  <2>1. Starting' = Starting /\ worker_id_gen' = worker_id_gen
    BY DEF ReturnedToPool, startVars, Starting
  <2> QED BY <2>1, KnownStays
<1> HIDE DEF h, e
<1>8. Allocator!Offer(Worker(h), OwnsOf(rest))
  BY <1>1, <1>2, <1>3, <1>4, <1>5, AddWorkerOffers
<1>9. Allocator!Return(e)
  BY <1>6, <1>7, <1>8 DEF Allocator!Return
<1> QED BY <1>6, <1>9 DEF Allocator!Next

LEMMA BrokenRefines ==
  ASSUME TypeOK, OnePlace, SpawningSessions, NEW g \in Guilds, ReturnBroken(g)
  PROVE  Allocator!Next
<1> DEFINE e == <<g, Worker(session[g].worker)>>
<1>1. session \in [Guilds -> Session] /\ session[g].at = "holding" /\ g \in Callers
      /\ spawning[g] = NotSpawning
  BY DEF TypeOK, ReturnBroken, Callers, SpawningSessions
<1>2. session'[g].at = "spawning" /\ \A x \in Guilds \ {g} : session'[x] = session[x]
  BY <1>1 DEF ReturnBroken, Session
<1>3. e \in Owns /\ Owns' = Owns \ {e}
  <2>1. e \in OwnsOf(session) /\ OwnsOf(session') = OwnsOf(session) \ {e}
    BY <1>1, <1>2 DEF OwnsOf, Has
  <2> QED BY <2>1, OwnsWants, OwnsWantsPrime
<1>4. Wants' = Wants
  <2>1. WantsOf(session') = WantsOf(session)
    BY <1>1, <1>2 DEF WantsOf
  <2> QED BY <2>1, OwnsWants, OwnsWantsPrime
<1>5. Free' = Free
  BY DEF ReturnBroken, Free
<1>6. Known' = Known
  BY <1>1, SpawnUnknown DEF ReturnBroken
<1> HIDE DEF e
<1>7. Allocator!Break(e)
  BY <1>3, <1>4, <1>5, <1>6 DEF Allocator!Break
<1> QED BY <1>3, <1>7 DEF Allocator!Next

LEMMA ConnectedRefines ==
  ASSUME TypeOK, QueuesExact, OnePlace, NEW h \in connecting, WorkerConnected(h)
  PROVE  Allocator!Next
<1> DEFINE id == h.worker_id
<1>1. /\ session \in [Guilds -> Session] /\ h \in WorkerHandle /\ AddWorkerToPool(h, session)
      /\ OnlyWaiting(req_queues, session) /\ AllWaiting(req_queues, session)
  BY ExactSplit DEF TypeOK, WorkerConnected
<1>2. Allocator!Offer(Worker(h), Owns)
  BY <1>1, OwnsWants, AddWorkerOffers
<1>3. <<"connecting", h, id>> \in At
  BY DEF At, AtConnecting
<1>4. id \in 2..worker_id_gen
  BY <1>3 DEF OnePlace
<1>5. id \in Starting
  BY DEF Starting
<1>6. \A c \in Callers : spawning[c].worker_id # id
  <2> SUFFICES ASSUME NEW c \in Callers, spawning[c].worker_id = id
               PROVE  FALSE
    OBVIOUS
  <2>1. spawning[c] # NotSpawning
    BY <1>4 DEF NotSpawning, OnePlace
  <2>2. <<"spawning", c, id>> \in At
    BY <2>1 DEF At, AtSpawning
  <2> QED BY <1>3, <2>2 DEF OnePlace
<1>7. \A p \in pending_starts : p.worker_id # id
  <2>1. \A p \in pending_starts : <<"pending", p, p.worker_id>> \in At
    BY DEF At, AtPending
  <2> QED BY <1>3, <2>1, Zenon DEF OnePlace
<1>8. \A x \in connecting \ {h} : x.worker_id # id
  <2>1. \A x \in connecting : <<"connecting", x, x.worker_id>> \in At
    BY DEF At, AtConnecting
  <2> QED BY <1>3, <2>1, Zenon DEF OnePlace
<1>9. Starting' = Starting \ {id}
  <2>1. connecting' = connecting \ {h} /\ UNCHANGED <<pending_starts, spawning>>
    BY DEF WorkerConnected
  <2>2. {p.worker_id : p \in pending_starts' \cup connecting'}
          = {p.worker_id : p \in pending_starts \cup connecting} \ {id}
    BY <1>7, <1>8, <2>1
  <2>3. {spawning'[c].worker_id : c \in Callers} = {spawning[c].worker_id : c \in Callers} \ {id}
    BY <1>6, <2>1
  <2> QED BY <2>2, <2>3, Zenon DEF Starting
<1>10. id \notin Known /\ Known' = Known \cup {id}
  BY <1>4, <1>5, <1>9 DEF Known, WorkerConnected
<1>11. /\ Worker(h) = [id |-> id, tier |-> h.priority_index] /\ h.priority_index \in Tiers
       /\ Worker(h).id = id
  BY <1>1 DEF Worker, WorkerHandle
<1> HIDE DEF id
<1>12. Allocator!Join(Worker(h))
  BY <1>2, <1>10, <1>11 DEF Allocator!Join
<1>13. id \in Known' \ Known
  BY <1>10
<1> QED BY <1>11, <1>12, <1>13 DEF Allocator!Next

\* A process that starts, and what a session does with a worker it has, is not seen.
LEMMA UnseenSteps ==
  ASSUME TypeOK, OnePlace, SpawningSessions,
         \/ \E g \in Guilds : ReceiveWorker(g) \/ ReturnWorker(g)
         \/ SpawnWorkers
         \/ \E c \in Callers : AddPendingWorker(c)
         \/ \E id \in processes : Hello(id) \/ StartCrash(id)
         \/ UNCHANGED vars
  PROVE  Unseen
<1>0. session \in [Guilds -> Session] /\ spawning \in [Callers -> PendingWorkerHandle]
  BY DEF TypeOK
<1>1. Free' = Free
  <2>1. UNCHANGED pools
    BY Zenon DEF ReceiveWorker, ReturnWorker, SpawnWorkers, AddPendingWorker, Hello, StartCrash, vars
  <2> QED BY <2>1 DEF Free
<1>2. ASSUME NEW g \in Guilds, ReceiveWorker(g) \/ ReturnWorker(g)
      PROVE  Unseen
  <2>1. /\ Has(session, g) /\ Has(session', g) /\ Worker(session'[g].worker) = Worker(session[g].worker)
        /\ session[g].at # "queued" /\ session'[g].at # "queued"
        /\ \A x \in Guilds \ {g} : session'[x] = session[x]
    BY <1>0, <1>2 DEF ReceiveWorker, ReturnWorker, Has, Session, WorkerHandle, Worker
  <2>2. OwnsOf(session') = OwnsOf(session)
    BY <2>1 DEF OwnsOf, Has
  <2>3. WantsOf(session') = WantsOf(session)
    BY <2>1 DEF WantsOf
  <2>4. Starting' = Starting /\ worker_id_gen' = worker_id_gen
    BY <1>2 DEF ReceiveWorker, ReturnWorker, startVars, Starting
  <2> QED BY <1>1, <2>2, <2>3, <2>4, OwnsWants, OwnsWantsPrime, KnownStays DEF Unseen
<1>3. ASSUME UNCHANGED session, Known' = Known
      PROVE  Unseen
  BY <1>1, <1>3 DEF Unseen, Owns, Wants, HasWorker
<1>4. CASE SpawnWorkers
  <2>1. Main \in Callers
    BY DEF Callers
  <2>2. Known' = Known
    BY <1>4, <2>1, SpawnUnknown DEF SpawnWorkers
  <2> QED BY <1>3, <1>4, <2>2 DEF SpawnWorkers
<1>5. ASSUME NEW c \in Callers, AddPendingWorker(c)
      PROVE  Unseen
  <2>1. spawning[c] # NotSpawning /\ spawning'[c] = NotSpawning
        /\ \A d \in Callers \ {c} : spawning'[d] = spawning[d]
    BY <1>0, <1>5 DEF AddPendingWorker
  <2>2. \A d \in Callers : (d = c \/ spawning'[d].worker_id = spawning[d].worker_id)
    BY <2>1
  <2>3. worker_id_gen' = worker_id_gen /\ connecting' = connecting
        /\ pending_starts' = pending_starts \cup {spawning[c]}
    BY <1>5 DEF AddPendingWorker
  <2>4. \A id \in 2..worker_id_gen : id \in Starting' <=> id \in Starting
    <3> SUFFICES ASSUME NEW id \in 2..worker_id_gen
                 PROVE  id \in Starting' <=> id \in Starting
      OBVIOUS
    <3>1. id # 0 /\ spawning'[c].worker_id = 0
      <4>1. worker_id_gen \in Nat
        BY DEF OnePlace
      <4>2. id # 0
        BY <4>1
      <4> QED BY <2>1, <4>2 DEF NotSpawning
    <3>2. (\E p \in pending_starts' \cup connecting' : p.worker_id = id)
            <=> ((\E p \in pending_starts \cup connecting : p.worker_id = id) \/ spawning[c].worker_id = id)
      BY <2>3
    <3>3. (\E d \in Callers : spawning[d].worker_id = id)
            <=> ((\E d \in Callers : spawning'[d].worker_id = id) \/ spawning[c].worker_id = id)
      BY <2>1, <2>2, <3>1
    <3> QED BY <3>2, <3>3 DEF Starting
  <2>5. Known' = Known
    BY <2>3, <2>4, KnownStays
  <2>6. CASE c = Main
    BY <1>3, <1>5, <2>5, <2>6 DEF AddPendingWorker
  <2>7. CASE c # Main
    <3>1. c \in Guilds /\ session[c].at = "spawning" /\ session' = [session EXCEPT ![c] = Idle]
      BY <1>5, <2>1, <2>7 DEF AddPendingWorker, Callers, SpawningSessions
    <3>2. session'[c].at = "idle" /\ \A x \in Guilds \ {c} : session'[x] = session[x]
      BY <1>0, <3>1 DEF Idle
    <3>3. OwnsOf(session') = OwnsOf(session)
      BY <3>1, <3>2 DEF OwnsOf, Has
    <3>4. WantsOf(session') = WantsOf(session)
      BY <3>1, <3>2 DEF WantsOf
    <3> QED BY <1>1, <2>5, <3>3, <3>4, OwnsWants, OwnsWantsPrime DEF Unseen
  <2> QED BY <2>6, <2>7
<1>6. ASSUME NEW id \in processes, Hello(id)
      PROVE  Unseen
  <2>1. worker_id_gen' = worker_id_gen /\ UNCHANGED <<spawning, session>>
    BY <1>6 DEF Hello
  <2>2. {p.worker_id : p \in pending_starts' \cup connecting'}
          = {p.worker_id : p \in pending_starts \cup connecting}
    <3>1. CASE UNCHANGED <<pending_starts, connecting>>
      BY <3>1
    <3>2. ASSUME NEW p \in pending_starts, NEW h, h.worker_id = p.worker_id,
                 pending_starts' = pending_starts \ {p}, connecting' = connecting \cup {h}
          PROVE  {x.worker_id : x \in pending_starts' \cup connecting'}
                   = {x.worker_id : x \in pending_starts \cup connecting}
      BY <3>2
    <3>3. ASSUME ~UNCHANGED <<pending_starts, connecting>>
          PROVE  \E p \in pending_starts : \E h :
                   /\ h.worker_id = p.worker_id
                   /\ pending_starts' = pending_starts \ {p} /\ connecting' = connecting \cup {h}
      <4>1. PICK p \in pending_starts :
              /\ p.worker_id = id /\ pending_starts' = pending_starts \ {p}
              /\ connecting' = connecting \cup
                   {[worker_id |-> id, priority_index |-> p.priority_index,
                     last_active_guild |-> NoGuild]}
        BY <1>6, <3>3 DEF Hello
      <4>2. [worker_id |-> id, priority_index |-> p.priority_index,
             last_active_guild |-> NoGuild].worker_id = p.worker_id
        BY <4>1
      <4> QED BY <4>1, <4>2, Zenon
    <3> QED BY <3>1, <3>2, <3>3
  <2>3. Starting' = Starting
    BY <2>1, <2>2 DEF Starting
  <2> QED BY <1>3, <2>1, <2>3, KnownStays
<1>7. CASE (\E id \in processes : StartCrash(id)) \/ UNCHANGED vars
  <2>1. UNCHANGED <<worker_id_gen, spawning, pending_starts, connecting, session>>
    BY <1>7 DEF StartCrash, vars
  <2>2. Starting' = Starting
    BY <2>1 DEF Starting
  <2> QED BY <1>3, <2>1, <2>2, KnownStays
<1> QED BY <1>2, <1>4, <1>5, <1>6, <1>7

LEMMA RefinementStep ==
  TypeOK /\ QueuesExact /\ SpawningSessions /\ OnePlace /\ [Next]_vars
    => [Allocator!Next]_(Allocator!allocatorVars)
<1> SUFFICES ASSUME TypeOK, QueuesExact, SpawningSessions, OnePlace, [Next]_vars
             PROVE  Allocator!Next \/ Unseen
  BY DEF Unseen, Allocator!allocatorVars
<1>1. ASSUME NEW g \in Guilds, SessionStep(g)
      PROVE  Allocator!Next \/ Unseen
  BY <1>1, ReqWorkerRefines, ReturnRefines, BrokenRefines, UnseenSteps DEF SessionStep
<1>2. ASSUME NEW h \in connecting, WorkerConnected(h)
      PROVE  Allocator!Next
  BY <1>2, ConnectedRefines
<1> QED BY <1>1, <1>2, UnseenSteps DEF Next

\* The pool with its lists, queues, oneshots, respawns and connecting processes
\* implements the allocator, for any guilds, tiers, initial workers and start faults.
THEOREM PoolImplementsAllocator == Spec => PoolAllocates
<1>1. Init => Allocator!Init
  <2> SUFFICES ASSUME Init
               PROVE  Free = {} /\ Owns = {} /\ Wants = {} /\ Known = {}
    BY DEF Allocator!Init
  <2>1. Free = {}
    BY DEF Init, Free
  <2>2. Owns = {} /\ Wants = {}
    BY DEF Init, Owns, Wants, HasWorker, Idle
  <2>3. Known = {}
    BY DEF Init, Known
  <2> QED BY <2>1, <2>2, <2>3
<1> QED BY <1>1, RefinementStep, OnePlaceInvariant, ExactInvariant, TypeCorrect, PTL
        DEF Spec, PoolAllocates, Allocator!Spec
=============================================================================
