--------------------------- MODULE OnlineDonation ---------------------------
(***************************************************************************)
(* An online donation from its order to the ledger: the public pages       *)
(* (routes/public.py), the two webhooks (routes/public.py and              *)
(* routes/webhooks.py) and DonationService.confirm_online_donation, with   *)
(* the payment gateway as the environment.                                 *)
(*                                                                         *)
(* The donor's browser and the gateway's webhooks report one payment       *)
(* several times, in any order.  Each handler first reads the donation     *)
(* without a lock; confirm_online_donation then selects it FOR UPDATE,     *)
(* which waits for the lock and leaves the loaded status as it was, so     *)
(* that its own test of the status sees what the handler saw.              *)
(*                                                                         *)
(* Every payment of an order has the order's amount, as the gateway        *)
(* guarantees; the comparison of amounts and the signatures are left out.  *)
(*                                                                         *)
(* payment_webhook answers for captures and razorpay_webhook for failures. *)
(* razorpay_webhook also answers 200 to a capture sent to its own address, *)
(* without posting it, as its docstring announces; those answers are not   *)
(* counted here.                                                           *)
(***************************************************************************)
EXTENDS Naturals, Sequences

CONSTANTS
    Donations,  \* rows of table donations with donation_type ONLINE
    Payments,   \* payment ids of the gateway
    Requests,   \* web requests being served
    Creators,   \* what created_by_id of an online donation may hold: public_donate
                \* leaves it NULL, which is Creators = {NoUser}
    NoUser, NoDonation, NoPayment, NoCall

VARIABLES
    status,          \* Donation.status, "NEW" before the row exists
    creator,         \* Donation.created_by_id
    gatewayPayment,  \* Donation.gateway_payment_id
    webhookEvent,    \* Donation.gateway_webhook_event_id
    ledger,          \* transactions with an external_ref, oldest first
    orderOf,         \* gateway: the donation whose order a payment is for
    sent,            \* gateway: the webhook messages it has to deliver
    acked,           \* those that payment_webhook (a capture) or razorpay_webhook (a
                     \* failure) answered with 200
    job,             \* the call each request serves
    step             \* how far it has come

donationRow == <<status, creator, gatewayPayment, webhookEvent>>

gatewayVars == <<orderOf, sent>>

requestVars == <<job, step>>

donationVars == <<donationRow, ledger, gatewayVars, acked, requestVars>>

CaptureEvents == {"payment.captured", "order.paid"}

\* A message keeps its x-razorpay-event-id however often it is delivered.
Messages == [via : CaptureEvents \cup {"payment.failed"}, payment : Payments]

Message(event, p) == [via |-> event, payment |-> p]

Calls == Messages \cup [via : {"browser"}, payment : Payments]

ASSUME DonationAssumption ==
    /\ NoDonation \notin Donations
    /\ NoPayment \notin Payments
    /\ NoCall \notin Calls

Captured(p) == Message("payment.captured", p) \in sent

\* Mutant: a reversed transaction frees its external reference.
RefRecordedUnreversed(p) == \E i \in DOMAIN ledger : ledger[i].ref = p /\ ~ledger[i].reversed

\* Transaction.query.filter_by(external_ref=...), and uq_transactions_external_ref.
RefRecorded(p) == \E i \in DOMAIN ledger : ledger[i].ref = p

\* uq_transactions_active_source and the query that anticipates it.
SourcePosted(d) == \E i \in DOMAIN ledger : ledger[i].source = d /\ ~ledger[i].reversed

Row(source, p) == [source |-> source, ref |-> p, reversed |-> FALSE]

EventSeen(c) == \E d \in Donations : webhookEvent[d] = c

-----------------------------------------------------------------------------
DonationInit ==
    /\ status = [d \in Donations |-> "NEW"]
    /\ creator = [d \in Donations |-> NoUser]
    /\ gatewayPayment = [d \in Donations |-> NoPayment]
    /\ webhookEvent = [d \in Donations |-> NoCall]
    /\ ledger = <<>>
    /\ orderOf = [p \in Payments |-> NoDonation]
    /\ sent = {}
    /\ acked = {}
    /\ job = [r \in Requests |-> NoCall]
    /\ step = [r \in Requests |-> "idle"]

\* public_donate: the row and the gateway's order, or neither.
Create(d) ==
    /\ status[d] = "NEW"
    /\ status' = [status EXCEPT ![d] = "PENDING"]
    /\ \E u \in Creators : creator' = [creator EXCEPT ![d] = u]
    /\ UNCHANGED <<gatewayPayment, webhookEvent, ledger, gatewayVars, acked, requestVars>>

-----------------------------------------------------------------------------
(***************************************************************************)
(* The gateway.  A donor may try several payments on one order; at most    *)
(* one of them is captured.                                                *)
(***************************************************************************)
Attempt(p, d) ==
    /\ status[d] # "NEW"
    /\ orderOf[p] = NoDonation
    /\ orderOf' = [orderOf EXCEPT ![p] = d]
    /\ UNCHANGED <<donationRow, ledger, acked, requestVars>>

FailPayment(p, d) ==
    /\ Attempt(p, d)
    /\ sent' = sent \cup {Message("payment.failed", p)}

CapturePayment(p, d) ==
    /\ \A q \in Payments : orderOf[q] = d => ~Captured(q)
    /\ Attempt(p, d)
    /\ sent' = sent \cup {Message(e, p) : e \in CaptureEvents}

-----------------------------------------------------------------------------
Target(r) == orderOf[job[r].payment]

Finish(r) ==
    /\ job' = [job EXCEPT ![r] = NoCall]
    /\ step' = [step EXCEPT ![r] = "idle"]

Answered(c) == acked' = acked \cup ({c} \cap Messages)

\* What the handler finds when it reads the donation: payment_webhook also looks
\* for the event's id, the other two only at the status.
Payable(c) ==
    /\ status[orderOf[c.payment]] = "PENDING"
    /\ c.via \in CaptureEvents => ~EventSeen(c)

\* A message is delivered once or more, and the donor may come back to the
\* confirmation page at any time.
Arrives(c) ==
    /\ orderOf[c.payment] # NoDonation
    /\ c.via # "browser" => c \in sent

Begin(r, c) ==
    /\ step[r] = "idle"
    /\ Arrives(c)
    /\ Payable(c)
    /\ job' = [job EXCEPT ![r] = c]
    /\ step' = [step EXCEPT ![r] = "loaded"]
    /\ UNCHANGED <<donationRow, ledger, gatewayVars, acked>>

\* 200: "already processed", "donation not payable", or an event to be logged only.
Dismiss(c) ==
    /\ c \in sent
    /\ ~Payable(c)
    /\ Answered(c)
    /\ UNCHANGED <<donationRow, ledger, gatewayVars, requestVars>>

\* The row lock, and the gateway's own word that the payment is captured, which
\* the browser's handler asks for.
CanConfirm(r) ==
    /\ job[r].via # "payment.failed"
    /\ Captured(job[r].payment)
    /\ \A q \in Requests \ {r} : step[q] = "locked" => Target(q) # Target(r)

LockDonation(r) ==
    /\ step[r] = "loaded"
    /\ CanConfirm(r)
    /\ ~EventSeen(job[r])
    /\ ~RefRecorded(job[r].payment)
    /\ step' = [step EXCEPT ![r] = "locked"]
    /\ UNCHANGED <<donationRow, ledger, gatewayVars, acked, job>>

\* The event, the reference or the donation's row is there, found under the lock or
\* by the ledger service: the webhook answers 200 to an error that says "already".
AlreadyProcessed(r) ==
    /\ step[r] \in {"loaded", "locked"}
    /\ CanConfirm(r)
    /\ \/ EventSeen(job[r]) \/ RefRecorded(job[r].payment)
       \/ step[r] = "locked" /\ SourcePosted(Target(r))
    /\ Answered(job[r])
    /\ Finish(r)
    /\ UNCHANGED <<donationRow, ledger, gatewayVars>>

\* Mutant: the browser's confirmation is stored as a webhook event too.
PostDonationAnyEvent(r) ==
    LET d == Target(r) IN
    /\ step[r] = "locked"
    /\ ~RefRecorded(job[r].payment) /\ ~SourcePosted(d)
    /\ creator[d] # NoUser
    /\ status' = [status EXCEPT ![d] = "SUCCESS"]
    /\ gatewayPayment' = [gatewayPayment EXCEPT ![d] = job[r].payment]
    /\ webhookEvent' = [webhookEvent EXCEPT ![d] = job[r]]
    /\ ledger' = Append(ledger, Row(d, job[r].payment))
    /\ Answered(job[r])
    /\ Finish(r)
    /\ UNCHANGED <<creator, gatewayVars>>

\* The donation, the posting and the audit row in one commit.  The transaction
\* takes over the donation's creator, and transactions.created_by_id is NOT NULL.
PostDonation(r) ==
    LET d == Target(r) IN
    /\ step[r] = "locked"
    /\ ~RefRecorded(job[r].payment) /\ ~SourcePosted(d)
    /\ creator[d] # NoUser
    /\ status' = [status EXCEPT ![d] = "SUCCESS"]
    /\ gatewayPayment' = [gatewayPayment EXCEPT ![d] = job[r].payment]
    /\ webhookEvent' = IF job[r].via = "browser" THEN webhookEvent
                       ELSE [webhookEvent EXCEPT ![d] = job[r]]
    /\ ledger' = Append(ledger, Row(d, job[r].payment))
    /\ Answered(job[r])
    /\ Finish(r)
    /\ UNCHANGED <<creator, gatewayVars>>

\* Mutant: the webhook of a failed payment notes the payment and not the failure.
FailDonationKeepsStatus(r) ==
    /\ step[r] = "loaded"
    /\ job[r].via = "payment.failed"
    /\ \A q \in Requests : step[q] = "locked" => Target(q) # Target(r)
    /\ gatewayPayment' = [gatewayPayment EXCEPT ![Target(r)] = job[r].payment]
    /\ Answered(job[r])
    /\ Finish(r)
    /\ UNCHANGED <<status, creator, webhookEvent, ledger, gatewayVars>>

\* razorpay_webhook writes what it decided on the status it read; the UPDATE only
\* waits for a request that holds the row.
FailDonation(r) ==
    /\ step[r] = "loaded"
    /\ job[r].via = "payment.failed"
    /\ \A q \in Requests : step[q] = "locked" => Target(q) # Target(r)
    /\ status' = [status EXCEPT ![Target(r)] = "FAILED"]
    /\ gatewayPayment' = [gatewayPayment EXCEPT ![Target(r)] = job[r].payment]
    /\ Answered(job[r])
    /\ Finish(r)
    /\ UNCHANGED <<creator, webhookEvent, ledger, gatewayVars>>

\* Mutant: every exception of the webhook is answered with 200.
RollbackAnswered(r) ==
    /\ step[r] # "idle"
    /\ Answered(job[r])
    /\ Finish(r)
    /\ UNCHANGED <<donationRow, ledger, gatewayVars>>

\* Any other exception, an unreachable gateway, a lost worker: nothing is written
\* and the webhook's answer, if there is one, is 400 or 500.
Rollback(r) ==
    /\ step[r] # "idle"
    /\ Finish(r)
    /\ UNCHANGED <<donationRow, ledger, gatewayVars, acked>>

-----------------------------------------------------------------------------
(***************************************************************************)
(* Officers, each call in one step.                                       *)
(***************************************************************************)
\* record_offline_donation with the payment's id as its transaction reference.
RecordByHand(p) ==
    /\ Captured(p)
    /\ ~RefRecorded(p)
    /\ ledger' = Append(ledger, Row(NoDonation, p))
    /\ UNCHANGED <<donationRow, gatewayVars, acked, requestVars>>

\* reverse_transaction, through an approved correction.
Reverse(i) ==
    /\ ~ledger[i].reversed
    /\ ledger' = [ledger EXCEPT ![i].reversed = TRUE]
    /\ UNCHANGED <<donationRow, gatewayVars, acked, requestVars>>

Serve(r) ==
    \/ \E c \in Calls : Begin(r, c)
    \/ LockDonation(r) \/ AlreadyProcessed(r) \/ PostDonation(r) \/ FailDonation(r)
    \/ Rollback(r)

DonationNext ==
    \/ \E d \in Donations :
          Create(d) \/ \E p \in Payments : FailPayment(p, d) \/ CapturePayment(p, d)
    \/ \E r \in Requests : Serve(r)
    \/ \E c \in Messages : Dismiss(c)
    \/ \E p \in Payments : RecordByHand(p)
    \/ \E i \in DOMAIN ledger : Reverse(i)

DonationSpec == DonationInit /\ [][DonationNext]_donationVars

Redeliver(c) == c \notin acked /\ (Dismiss(c) \/ \E r \in Requests : Begin(r, c))

LockFor(p) == \E r \in Requests : step[r] = "loaded" /\ job[r].payment = p /\ LockDonation(r)

PostFor(p) == \E r \in Requests : step[r] = "locked" /\ job[r].payment = p /\ PostDonation(r)

\* The gateway repeats a message until it is answered with 200, a request ends, and
\* a confirmation that can succeed again and again succeeds once.  Donors and
\* officers owe nothing.
FairSpec ==
    /\ DonationSpec
    /\ \A r \in Requests : WF_donationVars(Rollback(r))
    /\ \A c \in Messages : SF_donationVars(Redeliver(c))
    /\ \A p \in Payments : SF_donationVars(LockFor(p)) /\ SF_donationVars(PostFor(p))

-----------------------------------------------------------------------------
\* Tables, messages and requests have their shape.
DonationTypeOK ==
    /\ status \in [Donations -> {"NEW", "PENDING", "SUCCESS", "FAILED"}]
    /\ creator \in [Donations -> Creators \cup {NoUser}]
    /\ gatewayPayment \in [Donations -> Payments \cup {NoPayment}]
    /\ webhookEvent \in [Donations -> Messages \cup {NoCall}]
    /\ ledger \in Seq([source : Donations \cup {NoDonation}, ref : Payments, reversed : BOOLEAN])
    /\ orderOf \in [Payments -> Donations \cup {NoDonation}]
    /\ sent \subseteq Messages
    /\ acked \subseteq sent
    /\ job \in [Requests -> Calls \cup {NoCall}]
    /\ step \in [Requests -> {"idle", "loaded", "locked"}]

\* However often a payment is reported, by webhooks and by browsers at once, and
\* whatever officers record or reverse in between, the ledger holds it once, only
\* if the gateway has captured it, and under the donation whose order it paid.
PaymentPostedOnce ==
    \A i \in DOMAIN ledger :
        /\ \A j \in DOMAIN ledger : ledger[i].ref = ledger[j].ref => i = j
        /\ Captured(ledger[i].ref)
        /\ ledger[i].source \in {NoDonation, orderOf[ledger[i].ref]}

\* A donation shown as received, with its receipt, has its own row in the ledger,
\* for the payment noted on the donation; the late message of a failed attempt
\* never leaves the one without the other.
SuccessMeansPosted ==
    \A d \in Donations : status[d] = "SUCCESS" =>
        \E i \in DOMAIN ledger : ledger[i].source = d /\ ledger[i].ref = gatewayPayment[d]

\* The gateway stops repeating a captured payment when it is in the ledger, or when
\* the donation stands FAILED by the report, answered before, of another attempt at
\* its order: no error, and no race of two reports, is ever answered with 200.
DroppedOnlyAfterFailure ==
    \A c \in acked : c.via \in CaptureEvents /\ ~RefRecorded(c.payment) =>
        LET d == orderOf[c.payment] IN
        /\ status[d] = "FAILED"
        /\ Message("payment.failed", gatewayPayment[d]) \in acked
        /\ orderOf[gatewayPayment[d]] = d

\* docs/PDP_COMPLIANCE_MATRIX.md: "Every finalized payment must create exactly one
\* corresponding ledger transaction."  A captured payment that payment_webhook has
\* acknowledged is in the ledger, and the donation it is posted under is shown as
\* received.
AckedIsBooked ==
    \A c \in acked : c.via \in CaptureEvents =>
        \E i \in DOMAIN ledger :
            /\ ledger[i].ref = c.payment
            /\ ledger[i].source # NoDonation => status[ledger[i].source] = "SUCCESS"

\* README: the payment design is to "Record the donation and corresponding
\* financial information" once the payment has been verified.
CapturedIsRecorded == \A p \in Payments : Captured(p) ~> RefRecorded(p)

=============================================================================
