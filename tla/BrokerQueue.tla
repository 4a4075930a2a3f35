------------------------------ MODULE BrokerQueue ------------------------------
(***************************************************************************)
(* The discord broker (cmd/discordbroker/src/broker.rs) and the client of  *)
(* it in the scheduler process (cmd/scheduler/src/broker_client.rs).  The  *)
(* broker sends one message at a time and waits for its ack; without a     *)
(* scheduler it queues events, and drops the queue when an event comes     *)
(* more than 60 seconds after it lost the scheduler.                       *)
(*                                                                         *)
(* Discord events are numbered in the order they come in.                  *)
(***************************************************************************)
EXTENDS Integers, Sequences

CONSTANTS
  MaxEvents,   \* bound on the discord events
  MaxConns     \* bound on the connections; the last one does not fail

ASSUME BrokerAssumption == MaxEvents \in Nat /\ MaxConns \in Nat

VARIABLES
  event,       \* the last discord event that came in
  connected,   \* connected_scheduler, 0: None
  queued,      \* queued_events
  expired,     \* more than 60 s since scheduler_discconected_at
  sending,     \* what handle_event or handle_new_scheduler_connected is at: the
               \* first message is sent and not acknowledged, the others follow
  accepted,    \* cmd_rx: the connections accepted and not yet taken
  wire,        \* of the connection: a message, an ack or nothing is on it
  conns,       \* number of connections made so far
  client,      \* the connection broker_client has, 0: none
  alive,       \* the scheduler task holds scheduler_rx
  greeted,     \* the scheduler's last word of the broker is a BrokerHello
  delivered,   \* the events broker_client has passed on, in order
  dropped,     \* the events that have expired
  gone         \* for more than 60 s no scheduler was connected and answered, or a
               \* Hello has failed since one did

brokerVars == <<connected, queued, expired, sending, accepted, dropped, gone>>
clientVars == <<conns, client, alive, greeted, delivered>>
vars == <<event, brokerVars, wire, clientVars>>

Hello == 0
IsEvent(m) == m # Hello
Numbers(msgs) == {msgs[i] : i \in DOMAIN msgs}

Init ==
  /\ event = 0
  /\ connected = 0 /\ queued = <<>> /\ expired = FALSE /\ sending = <<>> /\ accepted = <<>>
  /\ dropped = {} /\ gone = FALSE
  /\ wire = "none"
  /\ conns = 0 /\ client = 0 /\ alive = TRUE /\ greeted = FALSE /\ delivered = <<>>

-----------------------------------------------------------------------------
(* The broker *)

\* send_event of the first of msgs.
Send(msgs) == sending' = msgs /\ wire' = IF msgs = <<>> THEN "none" ELSE "message"

\* queue_event.
QueueEvent(e) ==
  /\ queued' = IF expired THEN <<>> ELSE Append(queued, e)
  /\ dropped' = IF expired THEN dropped \cup Numbers(queued) \cup {e} ELSE dropped

\* handle_event and dispatch_or_queue_event.
HandleEvent ==
  /\ sending = <<>> /\ event < MaxEvents
  /\ event' = event + 1
  /\ \/ connected # 0 /\ Send(<<event'>>) /\ UNCHANGED <<queued, dropped>>
     \/ connected = 0 /\ QueueEvent(event') /\ UNCHANGED <<sending, wire>>
  /\ UNCHANGED <<connected, expired, accepted, gone, clientVars>>

\* Slip: what is queued goes first.
QueueBeforeHello ==
  /\ sending = <<>> /\ accepted # <<>>
  /\ connected' = Head(accepted)
  /\ accepted' = Tail(accepted)
  /\ Send(Append(queued, Hello))
  /\ queued' = <<>>
  /\ UNCHANGED <<event, expired, dropped, gone, clientVars>>

\* handle_cmd and handle_new_scheduler_connected: Hello, then what is queued.
SchedulerConnected ==
  /\ sending = <<>> /\ accepted # <<>>
  /\ connected' = Head(accepted)
  /\ accepted' = Tail(accepted)
  /\ Send(<<Hello>> \o queued)
  /\ queued' = <<>>
  /\ UNCHANGED <<event, expired, dropped, gone, clientVars>>

\* wait_for_ack returns: the next message of the queue is sent.
AckReceived ==
  /\ sending # <<>> /\ wire = "ack"
  /\ Send(Tail(sending))
  /\ gone' = FALSE
  /\ UNCHANGED <<event, connected, queued, expired, accepted, dropped, clientVars>>

\* Slip: an event that fails while the queue is sent goes to its end.
RequeuedLast(msgs) == IF IsEvent(Head(msgs)) THEN Append(Tail(msgs), Head(msgs)) ELSE Tail(msgs)

\* Slip: the event that failed is not put back.
RequeuedRest(msgs) == Tail(msgs)

\* What is queued again when the first of msgs fails.
Requeued(msgs) == IF IsEvent(Head(msgs)) THEN msgs ELSE Tail(msgs)

\* Slip: nobody looks whether the Hello was sent.
SendFailsUnlessHello ==
  /\ sending # <<>> /\ client # connected /\ IsEvent(Head(sending))
  /\ connected' = 0
  /\ queued' = queued \o Requeued(sending)
  /\ expired' = FALSE
  /\ sending' = <<>> /\ wire' = "none"
  /\ UNCHANGED <<event, accepted, dropped, gone, clientVars>>

\* Slip: the time of the disconnect is not recorded.
SendFailsOldTime ==
  /\ sending # <<>> /\ client # connected
  /\ connected' = 0
  /\ queued' = queued \o Requeued(sending)
  /\ gone' = (gone \/ Head(sending) = Hello)
  /\ sending' = <<>> /\ wire' = "none"
  /\ UNCHANGED <<event, expired, accepted, dropped, clientVars>>

\* send_event fails: the connection is closed at the other end.  An ack that is on
\* its way may be lost with it.  A Hello that fails does not set
\* scheduler_discconected_at.
SendFails ==
  /\ sending # <<>> /\ client # connected
  /\ connected' = 0
  /\ queued' = queued \o Requeued(sending)
  /\ expired' = (expired /\ Head(sending) = Hello)
  /\ gone' = (gone \/ Head(sending) = Hello)
  /\ sending' = <<>> /\ wire' = "none"
  /\ UNCHANGED <<event, accepted, dropped, clientVars>>

\* 60 seconds pass.
MinutePasses ==
  /\ expired' = TRUE
  /\ gone' = (gone \/ connected = 0 \/ (sending # <<>> /\ Head(sending) = Hello))
  /\ UNCHANGED <<event, connected, queued, sending, accepted, wire, dropped, clientVars>>

-----------------------------------------------------------------------------
(* broker_client *)

\* TcpStream::connect; the dispatch server passes the connection on to the broker.
Connect ==
  /\ alive /\ client = 0 /\ conns < MaxConns
  /\ conns' = conns + 1 /\ client' = conns'
  /\ accepted' = Append(accepted, conns')
  /\ UNCHANGED <<event, connected, queued, expired, sending, wire, dropped, gone, alive, greeted, delivered>>

clientOnly == UNCHANGED <<event, brokerVars, conns>>

\* The match on a message: passed on to the scheduler and acknowledged, or, when the
\* scheduler is gone, not passed on and the connection closed.
PassOn(m) ==
  \/ /\ alive
     /\ greeted' = (greeted \/ m = Hello)
     /\ delivered' = IF IsEvent(m) THEN Append(delivered, m) ELSE delivered
     /\ wire' = "ack"
     /\ UNCHANGED client
  \/ /\ ~alive
     /\ client' = 0
     /\ UNCHANGED <<greeted, delivered, wire>>

\* BrokerConn::run
Receive ==
  /\ client # 0 /\ client = connected /\ wire = "message"
  /\ PassOn(Head(sending))
  /\ clientOnly /\ UNCHANGED alive

\* The broker has dropped the connection.
Dropped == client # connected /\ client \notin Numbers(accepted)

\* The connection ends: the broker has dropped it, or it fails.
Disconnected ==
  /\ client # 0 /\ (Dropped \/ conns < MaxConns)
  /\ client' = 0
  /\ greeted' = FALSE
  /\ clientOnly /\ UNCHANGED <<wire, alive, delivered>>

\* The scheduler task ends.
SchedulerEnds ==
  /\ alive /\ conns < MaxConns
  /\ alive' = FALSE
  /\ clientOnly /\ UNCHANGED <<wire, client, greeted, delivered>>

\* The scheduler process exits or dies, and is started again.
SchedulerRestarts ==
  /\ conns < MaxConns
  /\ alive' = TRUE /\ client' = 0 /\ greeted' = FALSE
  /\ clientOnly /\ UNCHANGED <<wire, delivered>>

BrokerStep == SchedulerConnected \/ AckReceived \/ SendFails

Next ==
  \/ HandleEvent \/ BrokerStep \/ MinutePasses
  \/ Connect \/ Receive \/ Disconnected \/ SchedulerEnds \/ SchedulerRestarts

Spec == Init /\ [][Next]_vars

\* The broker and the client run; a process that ends is started again; a client whose
\* connection the broker has dropped sees it end; and a scheduler that is started again
\* and again connects at last, which is the first thing it does.
Fairness ==
  /\ WF_vars(BrokerStep)
  /\ WF_vars(Receive)
  /\ SF_vars(Connect)
  /\ WF_vars(~alive /\ SchedulerRestarts)
  /\ WF_vars(Dropped /\ Disconnected)

FairSpec == Spec /\ Fairness

-----------------------------------------------------------------------------

TypeOK ==
  /\ event \in Nat /\ connected \in Nat /\ conns \in Nat /\ client \in Nat
  /\ queued \in Seq(Nat \ {0}) /\ delivered \in Seq(Nat \ {0})
  /\ sending \in Seq(Nat) /\ accepted \in Seq(Nat \ {0})
  /\ wire \in {"none", "message", "ack"}
  /\ expired \in BOOLEAN /\ gone \in BOOLEAN /\ alive \in BOOLEAN /\ greeted \in BOOLEAN
  /\ dropped \subseteq Nat

\* "the broker will add it back to the queue", broker_client says when it closes the
\* connection: an event is not lost unless it expires.  It is being sent, queued, or
\* has been passed on to the scheduler.
NothingLost ==
  1 .. event \subseteq Numbers(delivered) \cup Numbers(queued) \cup Numbers(sending) \cup dropped

\* Nothing is queued while a scheduler is connected, so an event that is sent at once
\* does not overtake a queued one.
QueueOnlyDisconnected == connected # 0 => queued = <<>>

\* Through lost connections and restarts the scheduler gets events in the order they
\* came in; a lost ack makes it see the last event again, and no other.
InOrder ==
  \A i \in 1 .. Len(delivered) - 1 : delivered[i] <= delivered[i + 1]

\* The scheduler gets no event before the Hello of the connection it comes on, with
\* which it starts the guilds.
HelloFirst == [][delivered' # delivered => greeted]_vars

\* If connections stop failing, every event reaches the scheduler or expires: no order
\* of lost connections, restarts and reconnects leaves the broker with a connection it
\* does not use, or both ends waiting for each other.
EventsArrive ==
  \A e \in 1 .. MaxEvents : event >= e ~> e \in Numbers(delivered) \cup dropped

\* "event queue too old, expired, clearing": events are dropped only when there has
\* been no scheduler for 60 seconds.  The one exception is a Hello that failed, which
\* leaves the time of an earlier disconnect in place.
ExpiredWhenGone == [][dropped' # dropped => gone]_vars
=============================================================================
