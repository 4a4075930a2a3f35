------------------------------ MODULE DiscordOps -------------------------------
(***************************************************************************)
(* The discord ops of a vm (components/runtime/src/extensions/discord.rs): *)
(* every op looks up its channel if it has one, then makes its request,    *)
(* while the script goes on.  Responses Discord calls invalid are counted, *)
(* and a guild with too many of them in a short time is suspended.         *)
(***************************************************************************)
EXTENDS Integers, Sequences

CONSTANTS MaxBad,     \* invalid responses that suspend a guild (29 in the code)
          Window,     \* the time within which they must fall (60 s)
          MaxReqs,    \* bound: ops that are started
          MaxRestarts,   \* bound: restarts of the vm
          MaxNow      \* bound: the time

ASSUME DiscordAssumption == {MaxBad, Window} \subseteq Nat \ {0}

VARIABLES now,
          ops,                   \* how many ops of each kind wait at each stage
          recent_bad_requests,   \* DiscordOpsState of the isolate
          bad,                   \* history: the time of every counted response of the isolate
          vm,                    \* "running", "terminated" (shutdown_vm was called) or "ended"
          exceeded,              \* InvalidRequestsExceeded was sent
          reqs, restarts         \* count to their bounds
vars == <<now, ops, recent_bad_requests, bad, vm, exceeded, reqs, restarts>>

\* What an op does once its channel is known: a request whose error is counted, one
\* whose error is passed on with `?` alone, or nothing.
Kinds == {"counted", "uncounted", "lookup"}
Stages == {"check", "fetch", "request"} \X Kinds

NoOps == [s \in Stages |-> 0]

Init ==
  /\ now = 0 /\ ops = NoOps /\ recent_bad_requests = <<>> /\ bad = <<>>
  /\ vm = "running" /\ exceeded = FALSE /\ reqs = 0 /\ restarts = 0

-----------------------------------------------------------------------------

\* A script calls an op, which begins at this stage.
Start(stage) ==
  /\ vm # "ended"
  /\ reqs < MaxReqs /\ reqs' = reqs + 1
  /\ ops' = [ops EXCEPT ![stage] = @ + 1]
  /\ UNCHANGED <<now, recent_bad_requests, bad, vm, exceeded, restarts>>

\* get_message .. crosspost_message
MessageOp == Start(<<"check", "counted">>)
\* The interaction ops need no channel; the error of delete_original is not counted.
InteractionOp == \E kind \in {"counted", "uncounted"} : Start(<<"request", kind>>)
\* delete_message, bulk_delete_messages
DeleteMessageOp == Start(<<"check", "counted">>)
\* create_reaction .. delete_all_reactions_for_emoji
ReactionOp == Start(<<"check", "counted">>)
\* get_channel only looks the channel up; no error of the others is counted.
ChannelOp ==
  \E stage \in {<<"check", "lookup">>, <<"check", "uncounted">>, <<"request", "uncounted">>} : Start(stage)
\* get_channel_pins, create_pin, delete_pin
PinOp == Start(<<"check", "counted">>)
\* get_members .. update_member
MemberOp == Start(<<"request", "counted">>)
\* The ops on bans, and remove_member
BanOp == Start(<<"request", "counted">>)
\* get_member_permissions fetches the member, then looks up the channel.
PermissionsOp == \E stage \in {<<"check", "lookup">>, <<"request", "uncounted">>} : Start(stage)

-----------------------------------------------------------------------------

Leave(s) == ops' = [ops EXCEPT ![s] = @ - 1]
Move(s, t) == ops' = [ops EXCEPT ![s] = @ - 1, ![t] = @ + 1]

\* Slip: the window is kept one response too short for the test on its length.
KeepTooFew(q) == IF Len(q) + 1 > MaxBad - 1 THEN Append(Tail(q), now) ELSE Append(q, now)

\* add_failed_req
add_failed_req(q) == IF Len(q) + 1 > MaxBad THEN Append(Tail(q), now) ELSE Append(q, now)

\* Slip: the age of the oldest response is not looked at.
SuspendByCount(q) == Len(q) >= MaxBad

\* should_suspend_guild
should_suspend_guild(q) == Len(q) >= MaxBad /\ now - Head(q) < Window

\* handle_discord_error for a response with status 401, 403 or 429.
CountInvalid ==
  LET q == add_failed_req(recent_bad_requests)
  IN /\ recent_bad_requests' = q
     /\ bad' = Append(bad, now)
     /\ exceeded' = (exceeded \/ should_suspend_guild(q))
     /\ vm' = IF should_suspend_guild(q) THEN "terminated" ELSE vm

NotCounted == UNCHANGED <<recent_bad_requests, bad, vm, exceeded>>

\* The event loop goes on until the run loop looks at the terminated flag.
Polled == vm # "ended" /\ UNCHANGED <<now, reqs, restarts>>

\* get_guild_channel: the state api has the channel, does not know it, or fails.
Check ==
  /\ Polled
  /\ \E kind \in Kinds :
       /\ ops[<<"check", kind>>] > 0
       /\ \/ kind # "lookup" /\ Move(<<"check", kind>>, <<"request", kind>>)
          \/ Move(<<"check", kind>>, <<"fetch", kind>>)
          \/ Leave(<<"check", kind>>)
  /\ NotCounted

\* get_guild_channel: the channel comes from Discord.  It may be one of another guild.
Fetch ==
  /\ Polled
  /\ \E kind \in Kinds :
       /\ ops[<<"fetch", kind>>] > 0
       /\ \/ kind # "lookup" /\ Move(<<"fetch", kind>>, <<"request", kind>>) /\ NotCounted
          \/ Leave(<<"fetch", kind>>) /\ (NotCounted \/ CountInvalid)

\* The response to the request of an op.
Respond ==
  /\ Polled
  /\ \/ /\ ops[<<"request", "counted">>] > 0 /\ Leave(<<"request", "counted">>)
        /\ NotCounted \/ CountInvalid
     \/ /\ ops[<<"request", "uncounted">>] > 0 /\ Leave(<<"request", "uncounted">>)
        /\ NotCounted

\* Restart: a new isolate has a new DiscordOpsState, and the ops of the old are dropped.
\* The terminated flag stays.
Restart ==
  /\ vm # "ended" /\ restarts < MaxRestarts /\ restarts' = restarts + 1
  /\ ops' = NoOps /\ recent_bad_requests' = <<>> /\ bad' = <<>>
  /\ UNCHANGED <<now, vm, exceeded, reqs>>

\* The run loop sees the flag: the vm ends, and its ops with it.
End ==
  /\ vm = "terminated" /\ vm' = "ended" /\ ops' = NoOps
  /\ UNCHANGED <<now, recent_bad_requests, bad, exceeded, reqs, restarts>>

Tick ==
  /\ now < MaxNow /\ now' = now + 1
  /\ UNCHANGED <<ops, recent_bad_requests, bad, vm, exceeded, reqs, restarts>>

StartOp ==
  \/ MessageOp \/ InteractionOp \/ DeleteMessageOp \/ ReactionOp \/ ChannelOp
  \/ PinOp \/ MemberOp \/ BanOp \/ PermissionsOp

Next == StartOp \/ Check \/ Fetch \/ Respond \/ Restart \/ End \/ Tick

Spec == Init /\ [][Next]_vars

-----------------------------------------------------------------------------

\* Every variable stays in its range, and the window is never longer than its limit.
TypeOK ==
  /\ now \in 0 .. MaxNow /\ reqs \in 0 .. MaxReqs /\ restarts \in 0 .. MaxRestarts
  /\ vm \in {"running", "terminated", "ended"} /\ exceeded \in BOOLEAN
  /\ ops \in [Stages -> 0 .. MaxReqs]
  /\ Len(recent_bad_requests) <= MaxBad

\* MaxBad counted responses that fell within one window.
Burst(q) == \E i \in 1 .. Len(q) : i + MaxBad - 1 <= Len(q) /\ q[i + MaxBad - 1] - q[i] < Window

\* A vm that got MaxBad counted responses within the window, at whatever time and from
\* whatever ops, is terminated: the bounded deque forgets nothing that matters.
BurstsSuspend == Burst(bad) => vm # "running" /\ exceeded

\* The scheduler is told to suspend a guild only after such a burst.
OnlyBurstsSuspend == [][exceeded' /\ ~exceeded => Burst(bad')]_vars
===============================================================================
