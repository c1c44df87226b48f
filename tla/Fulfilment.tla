------------------------------ MODULE Fulfilment ------------------------------
(***************************************************************************)
(* Shipments of an online order: backend/src/services/delivery and         *)
(* jobs/deliverySyncJob.js beside OrderStatus, and the carrier they talk   *)
(* to over an unreliable network.                                          *)
(*                                                                         *)
(* The carrier is told of a shipment by an HTTP call whose answer may be   *)
(* lost, and tells of its progress by webhooks that arrive late, out of    *)
(* order, again, or never; a job polls it for whatever is still open.      *)
(* _applyStatus writes the status of the shipment in one transaction and   *)
(* the order's in another.                                                 *)
(*                                                                         *)
(* The courier is a BOXY one, whose statuses all have a canonical one; the *)
(* intermediate ones (PICKED_UP, OUT_FOR_DELIVERY) are IN_TRANSIT here.    *)
(***************************************************************************)
EXTENDS Integers

CONSTANTS
    StaffRequests,  \* staff requests about the order that can be in flight
    Dispatchers,    \* staff requests about shipments that can be in flight
    Shipments,      \* ids of delivery_shipments rows
    NoShipment,
    Parcels,        \* what the carrier can accept
    NoParcel,       \* provider_shipment_id is null
    Hooks,          \* webhook requests in flight
    Polls,          \* calls of syncStatus in flight, of the job or of staff
    Attempts,       \* 1 + DELIVERY_HTTP_RETRIES
    MaxRestarts     \* bound: restarts that interrupt the delivery service

ASSUME FulfilmentAssumption ==
    /\ NoShipment \notin Shipments
    /\ NoParcel \notin Parcels
    /\ Hooks \intersect Polls = {}
    /\ StaffRequests \intersect (Hooks \union Polls) = {}
    /\ Attempts \in Nat \ {0}
    /\ MaxRestarts \in Nat

VARIABLES
    orderStatus, intent,    \* see OrderStatus
    shipment,       \* the delivery_shipments rows
    dispatch,       \* the call that tells the carrier of each of them
    parcel,         \* the carrier's own record
    mail,           \* the webhooks the carrier has sent
    deduped,        \* the dedupe keys in delivery_events
    feed,           \* what each webhook and each poll has still to do
    errand,         \* what each staff request has still to do
    restarts

Feeds == Hooks \union Polls

Orders == INSTANCE OrderStatus WITH
    Clerks <- StaffRequests, Couriers <- Feeds, status <- orderStatus

orderVars == <<orderStatus, intent>>
rows == <<shipment, dispatch>>
carrier == <<parcel, mail>>
reports == <<deduped, feed>>
deliveryVars == <<rows, carrier, reports, errand, restarts>>
fulfilmentVars == <<orderVars, deliveryVars>>

Open == {"PENDING", "SUBMITTED", "IN_TRANSIT"}
Moving == {"SUBMITTED", "IN_TRANSIT"}
Final == {"DELIVERED", "RETURNED", "CANCELLED"}
Closed == Final \union {"FAILED"}
Delivered == {"DELIVERED", "RETURNED"}

NoEvent == <<NoParcel, "SUBMITTED">>
Event == (Parcels \union {NoParcel}) \X (Moving \union Final)

NoRow == [status |-> "none", ref |-> NoParcel]
Row == [status : {"none"} \union Open \union Closed, ref : Parcels \union {NoParcel}]
Call == [step : {"idle", "calling", "failed", "accepted"},
         tries : 0..Attempts, answer : Parcels \union {NoParcel}]
Update == [step : {"idle", "ask", "apply", "report"},
           about : Shipments \union {NoShipment},
           status : Moving \union Final, key : Event]

\* claim: the shipments a staff request is cancelling.
Errand == [step : {"idle", "insert", "recall", "close", "resend", "replace"},
           claim : SUBSET Shipments]

NoCall == [step |-> "idle", tries |-> 0, answer |-> NoParcel]
Resting == [step |-> "idle", about |-> NoShipment, status |-> "SUBMITTED", key |-> NoEvent]
AtEase == [step |-> "idle", claim |-> {}]

Active == {k \in Shipments : shipment[k].status \in Open}

\* _applyStatus's first transaction: no guard on the status it replaces.
Write(k, status) == shipment' = [shipment EXCEPT ![k].status = status]

-----------------------------------------------------------------------------
(* createShipment *)

\* Neither a cancelled order nor an order with an active shipment; the sale
\* may refuse as well.
MayShip == Orders!Exists /\ orderStatus # "CANCELLED" /\ Active = {}

BeginShip(d) ==
    /\ errand[d] = AtEase
    /\ MayShip
    /\ errand' = [errand EXCEPT ![d].step = "insert"]
    /\ UNCHANGED <<orderVars, rows, carrier, reports, restarts>>

\* The row is committed before the carrier is called.
InsertShipment(d) ==
    \E k \in Shipments :
        /\ errand[d].step = "insert"
        /\ Orders!Exists
        /\ shipment[k] = NoRow
        /\ Write(k, "PENDING")
        /\ dispatch' = [dispatch EXCEPT ![k] =
                [step |-> "calling", tries |-> Attempts, answer |-> NoParcel]]
        /\ errand' = [errand EXCEPT ![d] = AtEase]
        /\ UNCHANGED <<orderVars, carrier, reports, restarts>>

\* The row refers to its order, which has been deleted meanwhile.
RefuseShipment(d) ==
    /\ errand[d].step = "insert"
    /\ ~Orders!Exists
    /\ errand' = [errand EXCEPT ![d] = AtEase]
    /\ UNCHANGED <<orderVars, rows, carrier, reports, restarts>>

\* One POST of httpJsonWithRetry: no answer counts as not having arrived and
\* is tried again, an answer that refuses is not.
Answered(k, step, p) == [dispatch EXCEPT ![k] = [step |-> step, tries |-> 0, answer |-> p]]
Taken(k, p) == Answered(k, "accepted", p)
Refused(k) == Answered(k, "failed", NoParcel)
TryAgain(k) == IF dispatch[k].tries = 1 THEN Refused(k)
               ELSE [dispatch EXCEPT ![k].tries = @ - 1]

Arrives(k) ==
    \E p \in Parcels :
        /\ parcel[p] = "none"
        /\ parcel' = [parcel EXCEPT ![p] = "SUBMITTED"]
        /\ dispatch' \in {Taken(k, p), TryAgain(k)}

Fruitless(k) ==
    /\ dispatch' \in {Refused(k), TryAgain(k)}
    /\ UNCHANGED parcel

Post(k) ==
    /\ dispatch[k].step = "calling"
    /\ Arrives(k) \/ Fruitless(k)
    /\ UNCHANGED <<orderVars, shipment, mail, reports, errand, restarts>>

RecordAnswer(k) ==
    /\ dispatch[k].step \in {"accepted", "failed"}
    /\ shipment' = [shipment EXCEPT ![k] =
            IF dispatch[k].step = "accepted"
              THEN [status |-> "SUBMITTED", ref |-> dispatch[k].answer]
              ELSE [@ EXCEPT !.status = "FAILED"]]
    /\ dispatch' = [dispatch EXCEPT ![k] = NoCall]
    /\ UNCHANGED <<orderVars, carrier, reports, errand, restarts>>

-----------------------------------------------------------------------------
(* cancelShipment and resendShipment *)

Claim(d, step, ks) ==
    /\ errand[d] = AtEase
    /\ ks # {}
    /\ errand' = [errand EXCEPT ![d] = [step |-> step, claim |-> ks]]
    /\ UNCHANGED <<orderVars, rows, carrier, reports, restarts>>

BeginRecall(d) == \E k \in Active : Claim(d, "recall", {k})
BeginResend(d) == Claim(d, "resend", Active)

First(d) == CHOOSE k \in errand[d].claim : TRUE

\* The carrier calls a parcel back, or does not; its answer may be lost.
\* Without a positive one cancelShipment throws, which resendShipment ignores.
AskCarrier(d) ==
    \E granted, answered \in BOOLEAN :
        LET k == First(d)
            p == shipment[k].ref
        IN  /\ errand[d].step \in {"recall", "resend"}
            /\ errand[d].claim # {}
            /\ granted => /\ errand[d].step = "resend" => shipment[k].status \in Open
                          /\ p # NoParcel
                          /\ parcel[p] \in Moving
            /\ parcel' = IF granted
                           THEN [parcel EXCEPT ![p] = "CANCELLED"] ELSE parcel
            /\ mail' = IF granted THEN mail \union {<<p, "CANCELLED">>} ELSE mail
            /\ errand' = [errand EXCEPT ![d] =
                    IF @.step = "resend" THEN [@ EXCEPT !.step = "replace"]
                    ELSE IF granted /\ answered THEN [@ EXCEPT !.step = "close"]
                    ELSE AtEase]
            /\ UNCHANGED <<orderVars, rows, reports, restarts>>

WriteCancelled(d) ==
    LET k == First(d)
    IN  /\ errand[d].step \in {"close", "replace"}
        /\ Write(k, "CANCELLED")
        /\ errand' = [errand EXCEPT ![d] =
                IF @.step = "close" THEN AtEase
                ELSE [step |-> "resend", claim |-> @.claim \ {k}]]
        /\ UNCHANGED <<orderVars, dispatch, carrier, reports, restarts>>

\* Nothing is left to supersede: the checks of createShipment again.
ShipAgain(d) ==
    /\ errand[d] = [step |-> "resend", claim |-> {}]
    /\ \/ MayShip /\ errand' = [errand EXCEPT ![d].step = "insert"]
       \/ errand' = [errand EXCEPT ![d] = AtEase]
    /\ UNCHANGED <<orderVars, rows, carrier, reports, restarts>>

-----------------------------------------------------------------------------
(* The carrier *)

Travel(p) ==
    \E next \in Moving \union Final :
        /\ \/ parcel[p] = "SUBMITTED" /\ next = "IN_TRANSIT"
           \/ parcel[p] = "IN_TRANSIT" /\ next \in Delivered
        /\ parcel' = [parcel EXCEPT ![p] = next]
        /\ mail' = mail \union {<<p, next>>}
        /\ UNCHANGED <<orderVars, rows, reports, errand, restarts>>

-----------------------------------------------------------------------------
(* handleWebhook, syncStatus and the job *)

Start(f, u) ==
    /\ feed[f] = Resting
    /\ intent[f] = "none"
    /\ feed' = [feed EXCEPT ![f] = u]
    /\ UNCHANGED <<orderVars, rows, carrier, deduped, errand, restarts>>

BeginWebhookUnmatched(f) ==  \* mutant: the event is taken for any shipment
    \E k \in Shipments, e \in mail \ deduped :
        Start(f, [step |-> "apply", about |-> k, status |-> e[2], key |-> e])

\* A webhook finds its shipment by the carrier's id; one whose key has been
\* recorded is ignored.
BeginWebhook(f) ==
    \E k \in Shipments, e \in mail \ deduped :
        /\ shipment[k].ref = e[1]
        /\ Start(f, [step |-> "apply", about |-> k, status |-> e[2], key |-> e])

\* A poll without a provider id only logs an error.
Poll(f, k) ==
    /\ shipment[k].ref # NoParcel
    /\ Start(f, [Resting EXCEPT !.step = "ask", !.about = k])

\* Staff can have any shipment synchronised.
BeginSync(f) == \E k \in Shipments : Poll(f, k)

PollSubmitted(k) ==  \* mutant: shipments under way are not candidates
    /\ shipment[k].status \in {"PENDING", "SUBMITTED"}
    /\ \E f \in Polls : Poll(f, k)

\* runDeliverySyncJob takes every shipment that is not closed.
BeginPoll(k) ==
    /\ shipment[k].status \notin Closed
    /\ \E f \in Polls : Poll(f, k)

\* The carrier's API answers, or an error is logged.
Ask(f) ==
    LET u == feed[f]
    IN  /\ u.step = "ask"
        /\ feed' = [feed EXCEPT ![f] = [u EXCEPT
                !.step = "apply", !.status = parcel[shipment[u.about].ref]]]
        /\ UNCHANGED <<orderVars, rows, carrier, deduped, errand, restarts>>

NoAnswer(f) ==
    /\ feed[f].step = "ask"
    /\ feed' = [feed EXCEPT ![f] = Resting]
    /\ UNCHANGED <<orderVars, rows, carrier, deduped, errand, restarts>>

ApplyAlone(f) ==  \* mutant: the order is not told
    LET u == feed[f]
    IN  /\ u.step = "apply"
        /\ Write(u.about, u.status)
        /\ deduped' = deduped \union ({u.key} \ {NoEvent})
        /\ feed' = [feed EXCEPT ![f] = Resting]
        /\ UNCHANGED <<orderVars, dispatch, carrier, errand, restarts>>

\* Status and event (with its key, for a webhook) in one transaction.
ApplyStatus(f) ==
    LET u == feed[f]
    IN  /\ u.step = "apply"
        /\ Write(u.about, u.status)
        /\ deduped' = deduped \union ({u.key} \ {NoEvent})
        /\ feed' = [feed EXCEPT ![f] =
                IF u.status \in Delivered
                  THEN [u EXCEPT !.step = "report"] ELSE Resting]
        /\ UNCHANGED <<orderVars, dispatch, carrier, errand, restarts>>

\* _syncOrderStatus reads the order; Orders!Write writes it.
ReportToOrder(f) ==
    LET u == feed[f]
    IN  /\ u.step = "report"
        /\ \/ Orders!CourierReports(f, u.status)
           \/ /\ ~Orders!Exists \/ orderStatus \in Orders!Terminal \union {u.status}
              /\ UNCHANGED orderVars
        /\ feed' = [feed EXCEPT ![f] = Resting]
        /\ UNCHANGED <<rows, carrier, deduped, errand, restarts>>

\* The server restarts: what the handlers had still to do is lost.
Restart ==
    /\ restarts < MaxRestarts
    /\ restarts' = restarts + 1
    /\ intent' = [c \in StaffRequests \union Feeds |-> "none"]
    /\ feed' = [f \in Feeds |-> Resting]
    /\ dispatch' = [k \in Shipments |-> NoCall]
    /\ errand' = [d \in Dispatchers |-> AtEase]
    /\ UNCHANGED <<orderStatus, shipment, carrier, deduped>>

-----------------------------------------------------------------------------

FulfilmentInit ==
    /\ Orders!Init
    /\ shipment = [k \in Shipments |-> NoRow]
    /\ dispatch = [k \in Shipments |-> NoCall]
    /\ parcel = [p \in Parcels |-> "none"]
    /\ mail = {}
    /\ deduped = {}
    /\ feed = [f \in Feeds |-> Resting]
    /\ errand = [d \in Dispatchers |-> AtEase]
    /\ restarts = 0

OrderStep ==
    /\ \/ Orders!Place
       \/ Orders!Remove
       \/ \E c \in StaffRequests : Orders!PlanMove(c) \/ Orders!Write(c) \/ Orders!GiveUp(c)
    /\ UNCHANGED deliveryVars

Shipping(d) ==
    \/ BeginShip(d)   \/ InsertShipment(d) \/ RefuseShipment(d)
    \/ BeginRecall(d) \/ BeginResend(d)
    \/ AskCarrier(d)  \/ WriteCancelled(d) \/ ShipAgain(d)

Carry(k) == Post(k) \/ RecordAnswer(k)

Continue(f) ==
    \/ Ask(f)
    \/ ApplyStatus(f)
    \/ ReportToOrder(f)
    \/ Orders!Write(f) /\ UNCHANGED deliveryVars

FulfilmentNext ==
    \/ OrderStep
    \/ \E d \in Dispatchers : Shipping(d)
    \/ \E k \in Shipments : Carry(k) \/ BeginPoll(k)
    \/ \E p \in Parcels : Travel(p)
    \/ \E f \in Hooks : BeginWebhook(f)
    \/ \E f \in Polls : BeginSync(f) \/ NoAnswer(f)
    \/ \E f \in Feeds : Continue(f)
    \/ Restart

FulfilmentSpec == FulfilmentInit /\ [][FulfilmentNext]_fulfilmentVars

\* Handlers run to their end; the scheduler's interval comes round again and
\* again and every run takes all candidates; the carrier's API does answer
\* now and then.  Nothing is assumed of staff, carrier and webhooks.
Fairness ==
    /\ \A k \in Shipments : SF_fulfilmentVars(BeginPoll(k))
    /\ \A f \in Polls : SF_fulfilmentVars(Continue(f))
    /\ \A f \in Hooks : WF_fulfilmentVars(Continue(f))

FairSpec == FulfilmentSpec /\ Fairness

-----------------------------------------------------------------------------

FulfilmentTypeOK ==
    /\ Orders!StatusTypeOK
    /\ shipment \in [Shipments -> Row]
    /\ dispatch \in [Shipments -> Call]
    /\ parcel \in [Parcels -> {"none"} \union Moving \union Final]
    /\ mail \in SUBSET Event
    /\ deduped \in SUBSET mail
    /\ feed \in [Feeds -> Update]
    /\ errand \in [Dispatchers -> Errand]
    /\ restarts \in 0..MaxRestarts

\* No shipment is shown as delivered or returned, and no order is told so,
\* unless the carrier's own record of the parcel says the same: however late,
\* stale or reordered the reports are that _applyStatus writes over each other,
\* whatever was cancelled, sent again or lost in between.
NothingInvented ==
    /\ \A k \in Shipments :
          shipment[k].status \in Delivered =>
             \E p \in Parcels : shipment[k].ref = p /\ parcel[p] = shipment[k].status
    /\ \A f \in Feeds :
          intent[f] # "none" => \E p \in Parcels : parcel[p] = intent[f]

\* The types, that every recorded key is one the carrier has sent, and the
\* truth of what the reports have left behind.
ReportsAreTrue == FulfilmentTypeOK /\ NothingInvented

\* The scheduler: polling "catches providers without webhooks (and missed
\* deliveries)".  Webhooks may come late and in any order, and a poll may
\* write back a status older than the webhook it overtakes; once the parcel
\* is delivered, returned or recalled, its shipment is closed for good.
MissedDeliveriesCaught ==
    \A k \in Shipments :
        <>[](\A p \in Parcels :
                shipment[k].ref = p /\ parcel[p] \in Final
                    => shipment[k].status \in Closed)

\* A delivery that a webhook or a poll brings in is told to the order, unless
\* a restart falls between the two transactions of _applyStatus.
DeliveryReachesOrder ==
    (\E f \in Feeds : feed[f].step = "apply" /\ feed[f].status = "DELIVERED") ~>
        \/ orderStatus \in Orders!Terminal \union {"DELIVERED", "deleted"}
        \/ restarts > 0
=============================================================================
