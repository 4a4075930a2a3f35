--------------------------- MODULE WorkerAllocator ---------------------------
(***************************************************************************)
(* What the worker pool promises to the sessions of the guilds: a worker   *)
(* has at most one owner, nobody waits while a worker they may use is      *)
(* free, a worker that becomes free goes to a waiting session of the       *)
(* highest tier that may use it, and one that broke never comes back.      *)
(* There are no lists, queues, processes or half-finished calls here.      *)
(***************************************************************************)
EXTENDS Integers

CONSTANTS Guilds, Tiers

VARIABLES
  free,   \* the workers nobody has: records with an id and a tier
  owns,   \* <<g, w>>: the session of guild g has worker w
  wants,  \* <<g, t>>: the session of guild g waits for a worker of tier t or below
  known   \* the ids that have ever been there to be had

allocatorVars == <<free, owns, wants, known>>

Init == free = {} /\ owns = {} /\ wants = {} /\ known = {}

\* The session of g neither has a worker nor waits for one.
NoRequest(g) == \A e \in owns \cup wants : e[1] # g

\* A free worker is taken at once ..
Take(g, t, w) ==
  /\ NoRequest(g) /\ w \in free /\ w.tier <= t
  /\ free' = free \ {w} /\ owns' = owns \cup {<<g, w>>}
  /\ UNCHANGED <<wants, known>>

\* .. and only if there is none the session waits.
Wait(g, t) ==
  /\ NoRequest(g) /\ \A w \in free : w.tier > t
  /\ wants' = wants \cup {<<g, t>>}
  /\ UNCHANGED <<free, owns, known>>

\* Worker w is there to be had; owners is who has the others.
Offer(w, owners) ==
  \/ /\ \A r \in wants : r[2] < w.tier
     /\ free' = free \cup {w} /\ owns' = owners /\ UNCHANGED wants
  \/ \E r \in wants :
       /\ w.tier <= r[2] /\ \A other \in wants : other[2] <= r[2]
       /\ owns' = owners \cup {<<r[1], w>>} /\ wants' = wants \ {r}
       /\ UNCHANGED free

Return(e) == e \in owns /\ Offer(e[2], owns \ {e}) /\ UNCHANGED known

Break(e) == e \in owns /\ owns' = owns \ {e} /\ UNCHANGED <<free, wants, known>>

Join(w) == w.id \notin known /\ known' = known \cup {w.id} /\ Offer(w, owns)

Next ==
  \/ \E g \in Guilds, t \in Tiers : Wait(g, t) \/ \E w \in free : Take(g, t, w)
  \/ \E e \in owns : Return(e) \/ Break(e)
  \/ \E id \in known' \ known, t \in Tiers : Join([id |-> id, tier |-> t])

Spec == Init /\ [][Next]_allocatorVars
=============================================================================
