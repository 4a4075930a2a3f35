---------------------------- MODULE DiscordOpsProofs ----------------------------
(* The bounded deque of invalid responses decides as the whole history would, *)
(* for any limit, window and number of ops.                                   *)
EXTENDS DiscordOps, SequenceTheorems, TLAPS

\* The deque holds the last MaxBad responses of the history.
Tracks(q, b) ==
  /\ Len(q) = IF Len(b) < MaxBad THEN Len(b) ELSE MaxBad
  /\ \A j \in 1..Len(q) : q[j] = b[Len(b) - Len(q) + j]

HistoryInv ==
  /\ now \in Int /\ recent_bad_requests \in Seq(Int) /\ bad \in Seq(Int)
  /\ Tracks(recent_bad_requests, bad)

\* add_failed_req keeps it so.
LEMMA AddTracks ==
  ASSUME now \in Int, NEW q \in Seq(Int), NEW b \in Seq(Int), Tracks(q, b)
  PROVE  /\ add_failed_req(q) \in Seq(Int) /\ Append(b, now) \in Seq(Int)
         /\ Tracks(add_failed_req(q), Append(b, now))
<1> USE DiscordAssumption
<1>0. MaxBad \in Nat \ {0} /\ Len(q) \in Nat /\ Len(b) \in Nat /\ Len(q) <= Len(b) /\ Len(q) <= MaxBad
  BY LenProperties DEF Tracks
<1>1. /\ Append(b, now) \in Seq(Int) /\ Len(Append(b, now)) = Len(b) + 1
      /\ Append(b, now)[Len(b) + 1] = now /\ \A j \in 1..Len(b) : Append(b, now)[j] = b[j]
  BY AppendProperties
<1>2. CASE Len(q) + 1 > MaxBad
  <2>1. Len(q) = MaxBad /\ q # <<>>
    BY <1>0, <1>2
  <2>2. /\ Tail(q) \in Seq(Int) /\ Len(Tail(q)) = MaxBad - 1
        /\ \A j \in 1..(MaxBad - 1) : Tail(q)[j] = q[j + 1]
    BY <1>0, <2>1, HeadTailProperties
  <2> DEFINE r == Append(Tail(q), now)
  <2>3. /\ r \in Seq(Int) /\ Len(r) = MaxBad /\ r[MaxBad] = now
        /\ \A j \in 1..(MaxBad - 1) : r[j] = q[j + 1]
    BY <1>0, <2>2, AppendProperties
  <2>4. add_failed_req(q) = r
    BY <1>2 DEF add_failed_req
  <2> HIDE DEF r
  <2>5. ASSUME NEW j \in 1..MaxBad
        PROVE  r[j] = Append(b, now)[(Len(b) + 1) - MaxBad + j]
    <3>1. CASE j = MaxBad
      BY <1>0, <1>1, <2>3, <3>1
    <3>2. CASE j # MaxBad
      <4>1. j + 1 \in 1..Len(q) /\ Len(b) - MaxBad + (j + 1) \in 1..Len(b)
            /\ (Len(b) + 1) - MaxBad + j = Len(b) - MaxBad + (j + 1)
        BY <1>0, <2>1, <3>2
      <4>2. r[j] = q[j + 1]
        BY <1>0, <2>3, <3>2
      <4>3. q[j + 1] = b[Len(b) - MaxBad + (j + 1)]
        BY <2>1, <4>1 DEF Tracks
      <4> QED BY <1>1, <4>1, <4>2, <4>3
    <3> QED BY <3>1, <3>2
  <2>6. ~(Len(b) + 1 < MaxBad)
    BY <1>0, <2>1
  <2> QED BY <1>1, <2>3, <2>4, <2>5, <2>6 DEF Tracks
<1>3. CASE ~(Len(q) + 1 > MaxBad)
  <2>1. Len(q) = Len(b) /\ \A j \in 1..Len(b) : q[j] = b[j]
    <3>1. Len(q) = Len(b)
      BY <1>0, <1>3 DEF Tracks
    <3>2. \A j \in 1..Len(b) : Len(b) - Len(q) + j = j
      BY <1>0, <3>1
    <3> QED BY <3>1, <3>2 DEF Tracks
  <2>2. q = b
    BY <2>1, SeqEqual
  <2>3. add_failed_req(q) = Append(b, now)
    BY <1>3, <2>2 DEF add_failed_req
  <2>4. Len(b) + 1 <= MaxBad
    BY <1>0, <1>3, <2>1
  <2>5. Tracks(Append(b, now), Append(b, now))
    BY <1>0, <1>1, <2>4 DEF Tracks
  <2> QED BY <1>1, <2>3, <2>5
<1> QED BY <1>2, <1>3

\* After a counted response the deque asks for suspension exactly when the last
\* MaxBad responses of the history are a burst.
LEMMA SuspendsOnBurst ==
  ASSUME now \in Int, NEW q \in Seq(Int), NEW b \in Seq(Int), Tracks(q, b),
         Len(b) > 0, b[Len(b)] = now
  PROVE  should_suspend_guild(q) <=>
           Len(b) >= MaxBad /\ b[Len(b)] - b[Len(b) - MaxBad + 1] < Window
<1> USE DiscordAssumption
<1>0. MaxBad \in Nat \ {0} /\ Len(q) \in Nat /\ Len(b) \in Nat
  BY LenProperties
<1>1. Len(q) >= MaxBad <=> Len(b) >= MaxBad
  BY <1>0 DEF Tracks
<1>2. CASE Len(b) >= MaxBad
  <2>1. Len(q) = MaxBad /\ q # <<>> /\ 1 \in 1..Len(q)
    BY <1>0, <1>2 DEF Tracks
  <2>2. Head(q) = q[1]
    BY <2>1
  <2>3. q[1] = b[Len(b) - MaxBad + 1]
    BY <2>1 DEF Tracks
  <2> QED BY <1>1, <1>2, <2>2, <2>3 DEF should_suspend_guild
<1>3. CASE ~(Len(b) >= MaxBad)
  BY <1>1, <1>3 DEF should_suspend_guild
<1> QED BY <1>2, <1>3

LEMMA HistoryStep == HistoryInv /\ [Next]_vars => HistoryInv'
<1> SUFFICES ASSUME HistoryInv, [Next]_vars
             PROVE  HistoryInv'
  OBVIOUS
<1>1. CASE NotCounted /\ UNCHANGED now
  BY <1>1 DEF NotCounted, HistoryInv
<1>2. CASE CountInvalid /\ UNCHANGED now
  BY <1>2, AddTracks DEF CountInvalid, HistoryInv
<1>3. CASE StartOp
  BY <1>3 DEF StartOp, MessageOp, InteractionOp, DeleteMessageOp, ReactionOp, ChannelOp,
     PinOp, MemberOp, BanOp, PermissionsOp, Start, HistoryInv
<1>4. CASE Check \/ Fetch \/ Respond
  BY <1>1, <1>2, <1>4 DEF Check, Fetch, Respond, Polled
<1>5. CASE Restart
  BY <1>5, DiscordAssumption DEF Restart, HistoryInv, Tracks
<1>6. CASE End \/ UNCHANGED vars
  BY <1>6 DEF End, vars, HistoryInv
<1>7. CASE Tick
  BY <1>7 DEF Tick, HistoryInv
<1> QED BY <1>3, <1>4, <1>5, <1>6, <1>7 DEF Next

LEMMA HistoryInvariant == Spec => []HistoryInv
<1>1. Init => HistoryInv
  BY DiscordAssumption DEF Init, HistoryInv, Tracks
<1> QED BY <1>1, HistoryStep, PTL DEF Spec

\* A counted response makes a burst at the end of the history, or none.
LEMMA BurstAtEnd ==
  ASSUME NEW b \in Seq(Int), NEW t \in Int
  PROVE  Burst(Append(b, t)) <=>
           \/ Burst(b)
           \/ /\ Len(b) + 1 >= MaxBad
              /\ t - Append(b, t)[(Len(b) + 1) - MaxBad + 1] < Window
<1> DEFINE n == Len(b)
           c == Append(b, t)
<1>0. MaxBad \in Nat \ {0} /\ n \in Nat
  BY DiscordAssumption, LenProperties
<1>1. Len(c) = n + 1 /\ c[n + 1] = t /\ \A j \in 1..n : c[j] = b[j]
  BY AppendProperties
<1> HIDE DEF n, c
<1>2. ASSUME NEW i \in 1..(n + 1), i + MaxBad - 1 <= n + 1, c[i + MaxBad - 1] - c[i] < Window
      PROVE  \/ \E j \in 1..n : j + MaxBad - 1 <= n /\ b[j + MaxBad - 1] - b[j] < Window
             \/ n + 1 >= MaxBad /\ t - c[(n + 1) - MaxBad + 1] < Window
  <2>1. CASE i + MaxBad - 1 <= n
    <3>1. i \in 1..n /\ i + MaxBad - 1 \in 1..n
      BY <1>0, <2>1
    <3> QED BY <1>1, <1>2, <2>1, <3>1
  <2>2. CASE i + MaxBad - 1 = n + 1
    <3>1. i = (n + 1) - MaxBad + 1 /\ n + 1 >= MaxBad
      BY <1>0, <2>2
    <3> QED BY <1>1, <1>2, <2>2, <3>1
  <2> QED BY <1>0, <1>2, <2>1, <2>2
<1>3. ASSUME NEW j \in 1..n, j + MaxBad - 1 <= n, b[j + MaxBad - 1] - b[j] < Window
      PROVE  \E i \in 1..(n + 1) : i + MaxBad - 1 <= n + 1 /\ c[i + MaxBad - 1] - c[i] < Window
  <2>1. j \in 1..(n + 1) /\ j + MaxBad - 1 \in 1..n /\ j + MaxBad - 1 <= n + 1
    BY <1>0, <1>3
  <2> QED BY <1>1, <1>3, <2>1
<1>4. ASSUME n + 1 >= MaxBad, t - c[(n + 1) - MaxBad + 1] < Window
      PROVE  \E i \in 1..(n + 1) : i + MaxBad - 1 <= n + 1 /\ c[i + MaxBad - 1] - c[i] < Window
  <2> DEFINE i == (n + 1) - MaxBad + 1
  <2>1. i \in 1..(n + 1) /\ i + MaxBad - 1 = n + 1
    BY <1>0, <1>4
  <2> HIDE DEF i
  <2>2. t - c[i] < Window
    BY <1>4 DEF i
  <2> QED BY <1>0, <1>1, <2>1, <2>2
<1>5. Burst(c) <=> \E i \in 1..(n + 1) : i + MaxBad - 1 <= n + 1 /\ c[i + MaxBad - 1] - c[i] < Window
  BY <1>1 DEF Burst
<1>6. Burst(b) <=> \E j \in 1..n : j + MaxBad - 1 <= n /\ b[j + MaxBad - 1] - b[j] < Window
  BY DEF Burst, n
<1>7. Burst(c) <=> Burst(b) \/ (n + 1 >= MaxBad /\ t - c[(n + 1) - MaxBad + 1] < Window)
  BY <1>2, <1>3, <1>4, <1>5, <1>6
<1> QED BY <1>7 DEF n, c

\* What handle_discord_error decides on a counted response.
LEMMA CountDecides ==
  ASSUME HistoryInv, CountInvalid
  PROVE  /\ Burst(bad') => Burst(bad) \/ (exceeded' /\ vm' = "terminated")
         /\ exceeded' /\ ~exceeded => Burst(bad')
         /\ exceeded => exceeded'
         /\ vm # "running" => vm' # "running"
<1> DEFINE q == add_failed_req(recent_bad_requests)
           b == Append(bad, now)
<1>1. now \in Int /\ bad \in Seq(Int) /\ q \in Seq(Int) /\ b \in Seq(Int) /\ Tracks(q, b)
  BY AddTracks DEF HistoryInv
<1>2. Len(b) = Len(bad) + 1 /\ Len(bad) \in Nat /\ b[Len(b)] = now /\ Len(b) > 0
  BY <1>1, AppendProperties, LenProperties
<1>3. bad' = b /\ exceeded' = (exceeded \/ should_suspend_guild(q))
      /\ vm' = IF should_suspend_guild(q) THEN "terminated" ELSE vm
  BY DEF CountInvalid
<1> HIDE DEF q
<1>4. should_suspend_guild(q) <=> Len(b) >= MaxBad /\ b[Len(b)] - b[Len(b) - MaxBad + 1] < Window
  <2> HIDE DEF b
  <2> QED BY <1>1, <1>2, SuspendsOnBurst
<1>5. should_suspend_guild(q) <=>
        Len(bad) + 1 >= MaxBad /\ now - Append(bad, now)[(Len(bad) + 1) - MaxBad + 1] < Window
  BY <1>2, <1>4
<1>6. Burst(b) <=> Burst(bad) \/ should_suspend_guild(q)
  BY <1>1, <1>5, BurstAtEnd
<1> HIDE DEF b
<1> QED BY <1>3, <1>6

\* A guild whose vm got MaxBad counted responses within the window is suspended, for
\* any limit and window: the deque of MaxBad entries forgets nothing that matters.
THEOREM DiscordBurstsSuspend == Spec => []BurstsSuspend
<1>1. Init => BurstsSuspend
  BY DEF Init, BurstsSuspend, Burst
<1>2. HistoryInv /\ BurstsSuspend /\ [Next]_vars => BurstsSuspend'
  <2> SUFFICES ASSUME HistoryInv, BurstsSuspend, [Next]_vars
               PROVE  BurstsSuspend'
    OBVIOUS
  <2>1. CASE UNCHANGED <<bad, vm, exceeded>>
    BY <2>1 DEF BurstsSuspend, Burst
  <2>2. CASE CountInvalid
    <3>1. (Burst(bad'))  => vm' # "running" /\ exceeded'
      BY <2>2, CountDecides DEF BurstsSuspend
    <3> QED BY <3>1 DEF BurstsSuspend, Burst
  <2>3. CASE Restart
    BY <2>3 DEF Restart, BurstsSuspend, Burst
  <2>4. CASE End
    BY <2>4 DEF End, BurstsSuspend, Burst
  <2>5. CASE StartOp \/ Tick \/ UNCHANGED vars
    BY <2>1, <2>5 DEF StartOp, MessageOp, InteractionOp, DeleteMessageOp, ReactionOp, ChannelOp,
       PinOp, MemberOp, BanOp, PermissionsOp, Start, Tick, vars
  <2>6. CASE Check \/ Fetch \/ Respond
    BY <2>1, <2>2, <2>6 DEF Check, Fetch, Respond, NotCounted
  <2> QED BY <2>3, <2>4, <2>5, <2>6 DEF Next
<1> QED BY <1>1, <1>2, HistoryInvariant, PTL DEF Spec

\* The scheduler is told to suspend a guild only when the response just counted ends
\* such a burst.
THEOREM DiscordOnlyBursts == Spec => OnlyBurstsSuspend
<1>1. HistoryInv /\ [Next]_vars => [exceeded' /\ ~exceeded => Burst(bad')]_vars
  <2> SUFFICES ASSUME HistoryInv, Next, exceeded', ~exceeded
               PROVE  Burst(bad')
    OBVIOUS
  <2>1. CASE CountInvalid
    BY <2>1, CountDecides
  <2>2. CASE UNCHANGED exceeded
    BY <2>2
  <2>3. CountInvalid \/ UNCHANGED exceeded
    BY DEF Next, StartOp, MessageOp, InteractionOp, DeleteMessageOp, ReactionOp, ChannelOp,
       PinOp, MemberOp, BanOp, PermissionsOp, Start, Check, Fetch, Respond, NotCounted,
       Restart, End, Tick
  <2> QED BY <2>1, <2>2, <2>3
<1> QED BY <1>1, HistoryInvariant, PTL DEF Spec, OnlyBurstsSuspend
=================================================================================
