------------------------------- MODULE Outbox -------------------------------
(***************************************************************************)
(* Events on their way out.  An event is a row of outbox_events inserted   *)
(* by the transaction it describes; relays read the unpublished rows,      *)
(* publish each and mark it afterwards; the broker keeps a durable queue;  *)
(* consumers acknowledge, requeue or dead-letter what they were handed.    *)
(*                                                                         *)
(* Events are numbered in the order of occurred_at, the start of their     *)
(* transactions, which is not the order in which they become visible.      *)
(***************************************************************************)
EXTENDS Naturals, FiniteSets

CONSTANTS LastEvent,   \* events are 1 .. LastEvent
          Relays,      \* processes that run the relay loop
          Consumers,   \* consumer tasks of the queue
          RelayBatch,  \* RELAY_BATCH
          MaxTries,    \* rabbitmq.max_delivery_attempts
          MaxFaults    \* bound: lost answers, crashes and broker outages

\* What the constants are taken to be.
Sensible == LastEvent \in Nat

VARIABLES outbox,   \* outbox_events, by event
          pass,     \* the rows a relay's pass has still to publish
          marking,  \* the row a relay has published and not yet marked
          queue,    \* the messages ready in the queue
          held,     \* the message a consumer has been handed
          answer,   \* what it will tell the broker about it
          sent,     \* how many times an event has reached the broker
          done,     \* events a handler has accepted, or dead-lettered
          up,       \* whether the broker can be reached
          faults

vars == <<outbox, pass, marking, queue, held, answer, sent, done, up, faults>>

Events == 1 .. LastEvent
None   == 0

\* A message: the event it carries, which publication of it this is, and how
\* often the broker has had it back (x-delivery-count).
Messages == [event: Events, copy: Nat, returns: Nat]
Nobody   == [event |-> None, copy |-> 0, returns |-> 0]

TypeOK ==
    /\ outbox \in [Events -> {"open", "undone", "waiting", "published"}]
    /\ pass \in [Relays -> SUBSET Events]
    /\ marking \in [Relays -> Events \cup {None}]
    /\ queue \in SUBSET Messages
    /\ held \in [Consumers -> Messages \cup {Nobody}]
    /\ answer \in [Consumers -> {"none", "ack", "reject", "requeue"}]
    /\ sent \in [Events -> Nat]
    /\ done \in SUBSET Events
    /\ up \in BOOLEAN
    /\ faults \in Nat

Init ==
    /\ outbox = [e \in Events |-> "open"]
    /\ pass = [r \in Relays |-> {}]
    /\ marking = [r \in Relays |-> None]
    /\ queue = {}
    /\ held = [c \in Consumers |-> Nobody]
    /\ answer = [c \in Consumers |-> "none"]
    /\ sent = [e \in Events |-> 0]
    /\ done = {}
    /\ up = TRUE
    /\ faults = 0

Fault == faults < MaxFaults /\ faults' = faults + 1

---------------------------------------------------------------------------
(* The change and its event.                                               *)

\* The event was inserted by a transaction that is open; both commit or neither.
Enqueue(e) ==
    /\ outbox[e] = "open"
    /\ \E how \in {"waiting", "undone"} : outbox' = [outbox EXCEPT ![e] = how]
    /\ UNCHANGED <<pass, marking, queue, held, answer, sent, done, up, faults>>

---------------------------------------------------------------------------
(* The relay.                                                              *)

UnpublishedDirty == {e \in Events : outbox[e] \in {"open", "waiting"}}

Unpublished == {e \in Events : outbox[e] = "waiting"}

Before(e, S) == Cardinality({f \in S : f < e})
Turn(e, r)   == e \in pass[r] /\ Before(e, pass[r]) = 0

\* The rows come back in order; their locks are gone with the statement, so
\* nothing keeps another relay from reading them again.
ClaimUnpublished(r) ==
    /\ pass[r] = {} /\ marking[r] = None
    /\ Unpublished # {}
    /\ pass' = [pass EXCEPT ![r] = {e \in Unpublished : Before(e, Unpublished) < RelayBatch}]
    /\ UNCHANGED <<outbox, marking, queue, held, answer, sent, done, up, faults>>

Arrives(e) ==
    /\ sent' = [sent EXCEPT ![e] = @ + 1]
    /\ queue' = queue \cup {[event |-> e, copy |-> sent[e] + 1, returns |-> 0]}

\* publish waits for the broker's confirmation.
Publish(r, e) ==
    /\ Turn(e, r) /\ marking[r] = None
    /\ up
    /\ Arrives(e)
    /\ marking' = [marking EXCEPT ![r] = e]
    /\ pass' = [pass EXCEPT ![r] = @ \ {e}]
    /\ UNCHANGED <<outbox, held, answer, done, up, faults>>

PublishFailsMarked(r, e) ==
    /\ Turn(e, r) /\ marking[r] = None
    /\ \/ ~up /\ UNCHANGED faults
       \/ up /\ Fault
    /\ marking' = [marking EXCEPT ![r] = e]
    /\ pass' = [pass EXCEPT ![r] = {}]
    /\ UNCHANGED <<outbox, queue, sent, held, answer, done, up>>

\* An error ends the pass, whether or not the message got through.
PublishFails(r, e) ==
    /\ Turn(e, r) /\ marking[r] = None
    /\ \/ ~up /\ UNCHANGED <<queue, sent, faults>>
       \/ up /\ Fault /\ UNCHANGED <<queue, sent>>
       \/ up /\ Fault /\ Arrives(e)
    /\ pass' = [pass EXCEPT ![r] = {}]
    /\ UNCHANGED <<outbox, marking, held, answer, done, up>>

MarkPublished(r) ==
    /\ marking[r] # None
    /\ outbox' = [outbox EXCEPT ![marking[r]] = "published"]
    /\ marking' = [marking EXCEPT ![r] = None]
    /\ UNCHANGED <<pass, queue, held, answer, sent, done, up, faults>>

\* The statement fails and ends the pass, or the process dies.
RelayStops(r) ==
    /\ pass[r] # {} \/ marking[r] # None
    /\ Fault
    /\ pass' = [pass EXCEPT ![r] = {}]
    /\ marking' = [marking EXCEPT ![r] = None]
    /\ UNCHANGED <<outbox, queue, held, answer, sent, done, up>>

---------------------------------------------------------------------------
(* The broker and its consumers.                                           *)

ReturnedLess(m) == [m EXCEPT !.returns = @ - 1]

Returned(m) == [m EXCEPT !.returns = @ + 1]
Release(c)  == /\ held' = [held EXCEPT ![c] = Nobody]
               /\ answer' = [answer EXCEPT ![c] = "none"]

Deliver(c, m) ==
    /\ up
    /\ held[c] = Nobody
    /\ queue' = queue \ {m}
    /\ held' = [held EXCEPT ![c] = m]
    /\ UNCHANGED <<outbox, pass, marking, answer, sent, done, up, faults>>

\* The handler accepts, refuses for good, or asks to be tried again; the last
\* attempt is a refusal.
Handle(c) ==
    /\ held[c] # Nobody /\ answer[c] = "none"
    /\ \/ /\ answer' = [answer EXCEPT ![c] = "ack"]
          /\ done' = done \cup {held[c].event}
       \/ /\ answer' = [answer EXCEPT ![c] = "reject"]
          /\ UNCHANGED done
       \/ /\ answer' = [answer EXCEPT ![c] =
                          IF held[c].returns + 1 >= MaxTries THEN "reject" ELSE "requeue"]
          /\ UNCHANGED done
    /\ UNCHANGED <<outbox, pass, marking, queue, held, sent, up, faults>>

Answer(c) ==
    /\ up
    /\ answer[c] # "none"
    /\ Release(c)
    /\ done' = IF answer[c] = "reject" THEN done \cup {held[c].event} ELSE done
    /\ queue' = IF answer[c] = "requeue" THEN queue \cup {Returned(held[c])} ELSE queue
    /\ UNCHANGED <<outbox, pass, marking, sent, up, faults>>

\* The consumer dies or its answer is lost: the broker takes the message back.
ConsumerStops(c) ==
    /\ up
    /\ held[c] # Nobody
    /\ Fault
    /\ Release(c)
    /\ queue' = queue \cup {Returned(held[c])}
    /\ UNCHANGED <<outbox, pass, marking, sent, done, up>>

\* An outage takes every delivery back; the queue is durable.
BrokerStops ==
    /\ up /\ Fault
    /\ up' = FALSE
    /\ queue' = queue \cup {Returned(held[c]) : c \in {d \in Consumers : held[d] # Nobody}}
    /\ held' = [c \in Consumers |-> Nobody]
    /\ answer' = [c \in Consumers |-> "none"]
    /\ UNCHANGED <<outbox, pass, marking, sent, done>>

BrokerReturns ==
    /\ ~up
    /\ up' = TRUE
    /\ UNCHANGED <<outbox, pass, marking, queue, held, answer, sent, done, faults>>

---------------------------------------------------------------------------
Relay(r) ==
    \/ ClaimUnpublished(r) \/ MarkPublished(r)
    \/ \E e \in Events : Publish(r, e) \/ PublishFails(r, e)

Next ==
    \/ \E e \in Events : Enqueue(e)
    \/ \E r \in Relays : Relay(r) \/ RelayStops(r)
    \/ \E c \in Consumers : \/ Handle(c) \/ Answer(c) \/ ConsumerStops(c)
                            \/ \E m \in queue : Deliver(c, m)
    \/ BrokerStops \/ BrokerReturns

\* The relay passes every relay_interval_secs, and an outage ends.  Of the
\* consumers nothing is assumed: the server starts none, and one whose stream
\* ends is not started again.
Fairness ==
    /\ \A r \in Relays : WF_vars(Relay(r))
    /\ WF_vars(BrokerReturns)

Spec == Init /\ [][Next]_vars /\ Fairness

---------------------------------------------------------------------------
InHand == {held[c].event : c \in {d \in Consumers : held[d] # Nobody}}
Queued == {m.event : m \in queue}

(* A row is marked published only once the broker has the event, and from  *)
(* then on it is in the queue, with a consumer, with a handler that took   *)
(* it, or among the dead letters: nothing a crash, a lost answer or an     *)
(* outage does loses it.                                                   *)
NothingLost ==
    \A e \in Events :
        outbox[e] = "published" => e \in Queued \cup InHand \cup done

(* The outbox keeps its promise: what was rolled back never reaches the    *)
(* broker, and what was committed always does, at least once.              *)
Promise == INSTANCE Announcements
             WITH announced <- {e \in Events : outbox[e] \in {"waiting", "published"}},
                  arrived   <- {e \in Events : sent[e] > 0}
Announces == Promise!Spec
=============================================================================
