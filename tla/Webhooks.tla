-------------------------------- MODULE Webhooks --------------------------------
(***************************************************************************)
(* Webhook endpoints and deliveries (btpay/api/webhooks.py,                 *)
(* webhook_models.py; the endpoints are kept by settings_views.py and       *)
(* routes.py).  dispatch starts one thread per endpoint that subscribed to  *)
(* the event; the thread works with its own copy of the endpoint, posts     *)
(* once and then after each of the retry delays until the receiver answers  *)
(* with success.  Nothing resumes a delivery whose thread died.             *)
(*                                                                         *)
(* The receiver is outside: a post reaches it or not, and the answer may be *)
(* lost.  "Slip" introduces a mistaken form that a property is tested with. *)
(***************************************************************************)
EXTENDS Integers, Sequences

CONSTANTS
    Endpoints,      \* ids of WebhookEndpoint rows
    Events,
    Delays,         \* retry_delays
    MaxDispatches,  \* bound on the events dispatched
    NoEndpoint      \* there is no such row

ASSUME WebhookAssumption ==
    /\ Len(Delays) \in Nat
    /\ MaxDispatches \in Nat
    /\ NoEndpoint \notin [active: BOOLEAN, events: SUBSET Events]

VARIABLES
    endpoint,       \* the WebhookEndpoint rows; "*" is the set of all events
    dispatched,     \* the number of dispatches so far
    job,            \* delivery threads and the delivery object of each
    row,            \* the saved WebhookDelivery rows
    receiver        \* outside: the posts made, and those the receiver took

webhookVars == <<endpoint, dispatched, job, row, receiver>>

Jobs == Endpoints \X (1 .. MaxDispatches)
EndpointRows == [active: BOOLEAN, events: SUBSET Events]

\* attempts and delivered are attributes of the delivery object; retry is the
\* number of delays slept.
NoJob == [pc |-> "none", retry |-> 0, attempts |-> 0, delivered |-> FALSE]
NewRow == [saved |-> TRUE, attempts |-> 0, delivered |-> FALSE, error |-> FALSE]

WebhooksInit ==
    /\ endpoint = [e \in Endpoints |-> NoEndpoint]
    /\ dispatched = 0
    /\ job = [j \in Jobs |-> NoJob]
    /\ row = [j \in Jobs |-> [NewRow EXCEPT !.saved = FALSE]]
    /\ receiver = [j \in Jobs |-> [posts |-> 0, taken |-> 0]]

-------------------------------------------------------------------------------
(* The endpoints. *)

CreateEndpoint(e, events) ==
    /\ endpoint[e] = NoEndpoint
    /\ endpoint' = [endpoint EXCEPT ![e] = [active |-> TRUE, events |-> events]]
    /\ UNCHANGED <<dispatched, job, row, receiver>>

\* DELETE /api/v1/webhooks/<id>.
DeactivateEndpoint(e) ==
    /\ endpoint[e] # NoEndpoint
    /\ endpoint' = [endpoint EXCEPT ![e].active = FALSE]
    /\ UNCHANGED <<dispatched, job, row, receiver>>

\* The settings page deletes the row.
DeleteEndpoint(e) ==
    /\ endpoint[e] # NoEndpoint
    /\ endpoint' = [endpoint EXCEPT ![e] = NoEndpoint]
    /\ UNCHANGED <<dispatched, job, row, receiver>>

-------------------------------------------------------------------------------
(* Deliveries. *)

Subscribed(event) ==
    {e \in Endpoints : /\ endpoint[e] # NoEndpoint
                       /\ endpoint[e].active
                       /\ event \in endpoint[e].events}

Dispatch(event) ==
    /\ dispatched < MaxDispatches
    /\ dispatched' = dispatched + 1
    /\ job' = [j \in Jobs |->
                 IF j[1] \in Subscribed(event) /\ j[2] = dispatched'
                 THEN [NoJob EXCEPT !.pc = "start"] ELSE job[j]]
    /\ UNCHANGED <<endpoint, row, receiver>>

\* The delivery row is saved before the first attempt.
Record(j) ==
    /\ job[j].pc = "start"
    /\ row' = [row EXCEPT ![j] = NewRow]
    /\ job' = [job EXCEPT ![j].pc = "attempt"]
    /\ UNCHANGED <<endpoint, dispatched, receiver>>

\* What follows a failed attempt: the next delay, if there is one.
AfterFailure(attempts, retry) ==
    IF retry < Len(Delays) /\ attempts <= Len(Delays) THEN "sleep" ELSE "failed"

\* The name does not resolve, or to an address that is refused: an error is
\* saved, the attempt is not counted.
Unresolved(j) ==
    /\ job[j].pc = "attempt"
    /\ row' = [row EXCEPT ![j].error = TRUE]
    /\ job' = [job EXCEPT ![j].pc = AfterFailure(job[j].attempts, job[j].retry)]
    /\ UNCHANGED <<endpoint, dispatched, receiver>>

\* The attempt is counted in the object and posted.
Post(j) ==
    /\ job[j].pc = "attempt"
    /\ job' = [job EXCEPT ![j].pc = "posted", ![j].attempts = @ + 1]
    /\ \E taken \in {0, 1} :
          receiver' = [receiver EXCEPT ![j].posts = @ + 1, ![j].taken = @ + taken]
    /\ UNCHANGED <<endpoint, dispatched, row>>

\* The receiver, having taken the event now or before, answers with success.
Accepted(j) ==
    /\ job[j].pc = "posted"
    /\ receiver[j].taken > 0
    /\ job' = [job EXCEPT ![j].pc = "delivered", ![j].delivered = TRUE]
    /\ row' = [row EXCEPT ![j].delivered = TRUE, ![j].attempts = job[j].attempts]
    /\ UNCHANGED <<endpoint, dispatched, receiver>>

\* Slip: the attempt is counted only when it succeeds.
RejectedUncounted(j) ==
    /\ job[j].pc = "posted"
    /\ job' = [job EXCEPT ![j].pc = AfterFailure(job[j].attempts, job[j].retry),
                          ![j].attempts = @ - 1]
    /\ row' = [row EXCEPT ![j].error = TRUE]
    /\ UNCHANGED <<endpoint, dispatched, receiver>>

\* Any other answer, an error or a timeout.
Rejected(j) ==
    /\ job[j].pc = "posted"
    /\ job' = [job EXCEPT ![j].pc = AfterFailure(job[j].attempts, job[j].retry)]
    /\ row' = [row EXCEPT ![j].error = TRUE, ![j].attempts = job[j].attempts]
    /\ UNCHANGED <<endpoint, dispatched, receiver>>

\* Slip: the thread that sleeps is never woken.
WakeNever(j) == FALSE /\ UNCHANGED webhookVars

Wake(j) ==
    /\ job[j].pc = "sleep"
    /\ job' = [job EXCEPT ![j].pc = "attempt", ![j].retry = @ + 1]
    /\ UNCHANGED <<endpoint, dispatched, row, receiver>>

\* The process stops, with the rows saved; the daemon threads are gone.
Working(j) == job[j].pc \in {"start", "attempt", "posted", "sleep"}

DispatcherRestart ==
    /\ job' = [j \in Jobs |-> IF Working(j) THEN [job[j] EXCEPT !.pc = "lost"]
                                            ELSE job[j]]
    /\ UNCHANGED <<endpoint, dispatched, row, receiver>>

Deliver(j) == \/ Record(j)   \/ Unresolved(j) \/ Post(j)
              \/ Accepted(j) \/ Rejected(j)   \/ Wake(j)

WebhooksNext ==
    \/ \E e \in Endpoints, events \in SUBSET Events : CreateEndpoint(e, events)
    \/ \E e \in Endpoints : DeactivateEndpoint(e) \/ DeleteEndpoint(e)
    \/ \E event \in Events : Dispatch(event)
    \/ \E j \in Jobs : Deliver(j)
    \/ DispatcherRestart

\* Threads that are started run.
WebhooksFairness == \A j \in Jobs : WF_webhookVars(Deliver(j))
WebhooksSpec == WebhooksInit /\ [][WebhooksNext]_webhookVars /\ WebhooksFairness

-------------------------------------------------------------------------------
(* Properties. *)

\* A delivery is marked delivered only when the receiver has the event; the log of
\* attempts is right but for the last post of a thread that is posting or died
\* posting; and a receiver is never posted to more often than once and once per
\* delay, whatever fails, and given up only after every delay was used.
DeliveryLogIsTrue ==
    \A j \in Jobs :
        /\ row[j].delivered => receiver[j].taken > 0
        /\ row[j].attempts \in {receiver[j].posts, receiver[j].posts - 1}
        /\ row[j].attempts # receiver[j].posts => job[j].pc \in {"posted", "lost"}
        /\ receiver[j].posts <= 1 + job[j].retry /\ job[j].retry <= Len(Delays)
        /\ job[j].pc = "failed" => job[j].retry = Len(Delays)

\* Every delivery that is dispatched ends: delivered, given up after the last
\* delay, or lost with the process.
DeliveriesEnd ==
    \A j \in Jobs : Working(j) ~> ~ Working(j)
===============================================================================
