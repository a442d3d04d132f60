------------------------------- MODULE Broker -------------------------------
(***************************************************************************)
(* The RabbitMQ side of internal/queue: the durable queue deploy.jobs, the *)
(* message each consumer's channel holds unacknowledged, and the           *)
(* dead-letter queue deploy.jobs.dlq.  Messages are persistent, so none of *)
(* this is lost when a client dies.                                        *)
(*                                                                         *)
(* A message carries the job it is for and the x-retry-count header, which *)
(* deliveryRetryCount reads as 0 when it is missing.  The queue is a bag:  *)
(* with several consumers and with requeueing the code can rely on no      *)
(* order.                                                                  *)
(***************************************************************************)
EXTENDS Models

CONSTANTS Consumers,    \* consumer goroutines, each with an AMQP channel of its own
          MaxAttempts,  \* maxDeliveryAttempts
          None          \* "no message", "no event"

ASSUME BrokerAssumption == MaxAttempts \in Nat \ {0}

Message == [job : Jobs, retry : 0..(MaxAttempts - 1)]

ASSUME NoneAssumption == None \notin Message /\ None \notin Events

VARIABLES ready,     \* how many copies of each message wait in deploy.jobs
          unacked,   \* the message each channel holds unacknowledged
          dlq        \* the messages that reached deploy.jobs.dlq

brokerVars == <<ready, unacked, dlq>>

BrokerTypeOK ==
    /\ ready \in [Message -> Nat]
    /\ unacked \in [Consumers -> Message \cup {None}]
    /\ dlq \subseteq Message

BrokerInit ==
    /\ ready = [m \in Message |-> 0]
    /\ unacked = [c \in Consumers |-> None]
    /\ dlq = {}

NewMessage(j) == [job |-> j, retry |-> 0]

Publish(m) ==
    /\ ready' = [ready EXCEPT ![m] = @ + 1]
    /\ UNCHANGED <<unacked, dlq>>

\* Mutant: the consumer acknowledges automatically.
DeliverAutoAck(c, m) ==
    /\ ready[m] > 0
    /\ unacked[c] = None
    /\ ready' = [ready EXCEPT ![m] = @ - 1]
    /\ UNCHANGED <<unacked, dlq>>

\* Qos(1): a channel is sent nothing while it holds a message.
DeliverTo(c, m) ==
    /\ ready[m] > 0
    /\ unacked[c] = None
    /\ ready' = [ready EXCEPT ![m] = @ - 1]
    /\ unacked' = [unacked EXCEPT ![c] = m]
    /\ UNCHANGED dlq

AckBy(c) ==
    /\ unacked' = [unacked EXCEPT ![c] = None]
    /\ UNCHANGED <<ready, dlq>>

\* Nack(multiple = false, requeue = false): deploy.jobs dead-letters through
\* its exchange to deploy.jobs.dlq, which nothing consumes.
NackBy(c) ==
    /\ unacked' = [unacked EXCEPT ![c] = None]
    /\ dlq' = dlq \cup {unacked[c]}
    /\ UNCHANGED ready

\* The broker returns the message of a channel that is gone, header unchanged.
RequeueFrom(c) ==
    /\ unacked[c] # None
    /\ ready' = [ready EXCEPT ![unacked[c]] = @ + 1]
    /\ unacked' = [unacked EXCEPT ![c] = None]
    /\ UNCHANGED dlq
=============================================================================
