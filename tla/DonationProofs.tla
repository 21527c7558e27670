--------------------------- MODULE DonationProofs ---------------------------
(***************************************************************************)
(* Theorems about OnlineDonation, for any number of donations, payments    *)
(* and requests.                                                           *)
(***************************************************************************)
EXTENDS OnlineDonation, TLAPS

Rows == [source : Donations \cup {NoDonation}, ref : Payments, reversed : BOOLEAN]

\* What the gateway reports belongs to an order, and both messages about a captured
\* payment come together.
SentKnown ==
    \A c \in sent :
        /\ orderOf[c.payment] \in Donations
        /\ c.via \in CaptureEvents => Captured(c.payment)

OrdersOpen == \A p \in Payments : orderOf[p] \in Donations => status[orderOf[p]] # "NEW"

OneCapture ==
    \A p, q \in Payments : Captured(p) /\ Captured(q) /\ orderOf[p] = orderOf[q] => p = q

\* A request serves a call that has arrived, and holds the row for a captured payment.
CallsArrived ==
    \A r \in Requests : step[r] # "idle" =>
        /\ job[r] \in Calls
        /\ job[r] \in Messages => job[r] \in sent
        /\ orderOf[job[r].payment] \in Donations
        /\ step[r] = "locked" => Captured(job[r].payment)

EventsRecorded ==
    \A d \in Donations : webhookEvent[d] \in Messages => RefRecorded(webhookEvent[d].payment)

\* A failed donation names the failed attempt at its order that was reported.
FailureReported ==
    \A d \in Donations : status[d] = "FAILED" =>
        /\ gatewayPayment[d] \in Payments
        /\ orderOf[gatewayPayment[d]] = d
        /\ Message("payment.failed", gatewayPayment[d]) \in acked

AckedSettled ==
    \A c \in acked : c.via \in CaptureEvents =>
        RefRecorded(c.payment) \/ status[orderOf[c.payment]] = "FAILED"

\* The inductive invariant.
DonationInv ==
    /\ DonationTypeOK
    /\ SentKnown
    /\ OrdersOpen
    /\ OneCapture
    /\ CallsArrived
    /\ EventsRecorded
    /\ PaymentPostedOnce
    /\ SuccessMeansPosted
    /\ FailureReported
    /\ AckedSettled

-----------------------------------------------------------------------------
(***************************************************************************)
(* Facts about states.                                                     *)
(***************************************************************************)
LEMMA CallFields ==
    ASSUME NEW c \in Calls
    PROVE  c.payment \in Payments /\ (c.via \in CaptureEvents => c \in Messages)
BY DEF Calls, Messages

\* Two records with the same fields are one message.
LEMMA MessageIsItsFields ==
    ASSUME NEW c \in Messages
    PROVE  c = Message(c.via, c.payment) /\ c \in Calls
BY DEF Calls, Messages, Message

LEMMA RowFields ==
    ASSUME DonationTypeOK, NEW i \in DOMAIN ledger
    PROVE  ledger[i] \in Rows /\ ledger[i].ref \in Payments
<1>1. ledger \in Seq(Rows) BY DEF DonationTypeOK, Rows
<1>2. ledger[i] \in Rows BY <1>1
<1> QED BY <1>2 DEF Rows

\* The captured payment of an order is the only one the ledger can hold for its
\* donation: a donation that was posted was posted for that payment.
LEMMA PostedForThePayment ==
    ASSUME DonationInv,
           NEW p \in Payments, Captured(p), orderOf[p] \in Donations,
           NEW i \in DOMAIN ledger, ledger[i].source = orderOf[p]
    PROVE  RefRecorded(p)
<1>1. ledger[i].ref \in Payments BY RowFields DEF DonationInv
<1>2. Captured(ledger[i].ref) /\ orderOf[ledger[i].ref] = orderOf[p]
    BY DonationAssumption DEF DonationInv, PaymentPostedOnce
<1>3. ledger[i].ref = p BY <1>1, <1>2 DEF DonationInv, OneCapture
<1> QED BY <1>3 DEF RefRecorded

LEMMA SeenIsRecorded ==
    ASSUME DonationInv, NEW c \in Messages, EventSeen(c)
    PROVE  RefRecorded(c.payment)
BY DEF DonationInv, EventsRecorded, EventSeen

-----------------------------------------------------------------------------
(***************************************************************************)
(* Each action keeps the invariant.                                        *)
(***************************************************************************)
LEMMA InitInv == DonationInit => DonationInv
<1> SUFFICES ASSUME DonationInit PROVE DonationInv OBVIOUS
<1>1. DonationTypeOK BY DEF DonationInit, DonationTypeOK
<1>2. SentKnown /\ OneCapture BY DEF DonationInit, SentKnown, OneCapture, Captured
<1>3. OrdersOpen BY DonationAssumption DEF DonationInit, OrdersOpen
<1>4. CallsArrived BY DEF DonationInit, CallsArrived
<1>5. PaymentPostedOnce /\ AckedSettled /\ FailureReported
    BY DEF DonationInit, PaymentPostedOnce, AckedSettled, FailureReported
<1>6. SuccessMeansPosted BY DEF DonationInit, SuccessMeansPosted
<1>7. EventsRecorded BY DonationAssumption DEF DonationInit, EventsRecorded, Calls
<1> QED BY <1>1, <1>2, <1>3, <1>4, <1>5, <1>6, <1>7 DEF DonationInv

LEMMA CreateKeepsInv ==
    ASSUME DonationInv, NEW d \in Donations, Create(d)
    PROVE  DonationInv'
<1> USE DEF DonationInv, Create, donationRow, gatewayVars, requestVars
<1>1. DonationTypeOK' BY DEF DonationTypeOK
<1>2. /\ \A e \in Donations \ {d} : status'[e] = status[e]
      /\ status'[d] = "PENDING" /\ status[d] = "NEW"
    BY DEF DonationTypeOK
<1>3. SentKnown' /\ OneCapture' BY DEF SentKnown, OneCapture, Captured
<1>4. OrdersOpen' BY <1>2 DEF OrdersOpen
<1>5. CallsArrived' BY DEF CallsArrived, Captured
<1>6. EventsRecorded' BY DEF EventsRecorded, RefRecorded
<1>7. PaymentPostedOnce' BY DEF PaymentPostedOnce, Captured
<1>8. SuccessMeansPosted' BY <1>2 DEF SuccessMeansPosted
<1>9. AckedSettled'
    BY <1>2 DEF AckedSettled, RefRecorded, SentKnown, DonationTypeOK
<1>10. FailureReported' BY <1>2 DEF FailureReported
<1> QED BY <1>1, <1>3, <1>4, <1>5, <1>6, <1>7, <1>8, <1>9, <1>10

LEMMA AttemptKeepsInv ==
    ASSUME DonationInv, NEW p \in Payments, NEW d \in Donations,
           FailPayment(p, d) \/ CapturePayment(p, d)
    PROVE  DonationInv'
<1> USE DEF DonationInv, Attempt, donationRow, gatewayVars, requestVars
<1>1. /\ status[d] # "NEW" /\ orderOf[p] = NoDonation
      /\ orderOf' = [orderOf EXCEPT ![p] = d]
      /\ UNCHANGED <<status, creator, gatewayPayment, webhookEvent, ledger, acked, job, step>>
    BY DEF FailPayment, CapturePayment
<1>2. /\ \A q \in Payments : orderOf[q] \in Donations => orderOf'[q] = orderOf[q]
      /\ orderOf'[p] = d
    BY <1>1, DonationAssumption DEF DonationTypeOK
<1>3. ~Captured(p)
    <2> SUFFICES ASSUME Captured(p) PROVE FALSE OBVIOUS
    <2>1. orderOf[Message("payment.captured", p).payment] \in Donations
        BY DEF SentKnown, Captured
    <2> QED BY <2>1, <1>1, DonationAssumption DEF Message
<1>4. /\ sent \subseteq sent'
      /\ \A c \in sent' \ sent : c \in Messages /\ c.payment = p
      /\ sent' \subseteq Messages
    BY DEF FailPayment, CapturePayment, DonationTypeOK, Messages, Message, CaptureEvents
<1>5. /\ \A q \in Payments : Captured(q) => Captured(q)'
      /\ \A q \in Payments \ {p} : Captured(q)' => Captured(q)
    BY <1>4 DEF Captured, Message
<1>6. DonationTypeOK' BY <1>1, <1>4 DEF DonationTypeOK
<1>7. SentKnown'
    <2> SUFFICES ASSUME NEW c \in sent'
                 PROVE  orderOf'[c.payment] \in Donations
                        /\ (c.via \in CaptureEvents => Captured(c.payment)')
        BY DEF SentKnown
    <2>1. c.payment \in Payments BY <1>4 DEF Messages
    <2>2. CASE c \in sent BY <2>1, <2>2, <1>2, <1>5 DEF SentKnown
    <2>3. CASE c \notin sent
        <3>1. c.payment = p BY <1>4, <2>3
        <3>2. orderOf'[c.payment] \in Donations BY <3>1, <1>2
        <3>3. CASE FailPayment(p, d)
            <4>1. c = Message("payment.failed", p) BY <3>3, <2>3 DEF FailPayment
            <4>2. c.via = "payment.failed" BY <4>1 DEF Message
            <4> QED BY <4>2, <3>2 DEF CaptureEvents
        <3>4. CASE CapturePayment(p, d)
            BY <3>1, <3>2, <3>4 DEF CapturePayment, Captured, Message, CaptureEvents
        <3> QED BY <3>3, <3>4
    <2> QED BY <2>2, <2>3
<1>8. OrdersOpen' BY <1>1, <1>2 DEF OrdersOpen, DonationTypeOK
<1>9. OneCapture'
    <2>0. SUFFICES ASSUME NEW a \in Payments, NEW b \in Payments, Captured(a)', Captured(b)',
                          orderOf'[a] = orderOf'[b]
                   PROVE  a = b
        BY DEF OneCapture
    <2>1. \A q \in Payments \ {p} : Captured(q)' =>
              Captured(q) /\ orderOf[q] \in Donations /\ orderOf'[q] = orderOf[q]
        <3> SUFFICES ASSUME NEW q \in Payments \ {p}, Captured(q)'
                     PROVE  Captured(q) /\ orderOf[q] \in Donations /\ orderOf'[q] = orderOf[q]
            OBVIOUS
        <3>1. Captured(q) BY <1>5
        <3>2. orderOf[q] \in Donations BY <3>1 DEF SentKnown, Captured, Message
        <3> QED BY <3>1, <3>2, <1>2
    <2>2. CASE a # p /\ b # p BY <2>0, <2>1, <2>2 DEF OneCapture
    <2>3. \A q \in Payments \ {p} : Captured(q)' /\ Captured(p)' => orderOf'[q] # d
        <3> SUFFICES ASSUME NEW q \in Payments \ {p}, Captured(q)', Captured(p)'
                     PROVE  orderOf'[q] # d
            OBVIOUS
        <3>1. CapturePayment(p, d)
            <4> SUFFICES ASSUME FailPayment(p, d) PROVE FALSE OBVIOUS
            <4>1. Captured(p) BY DEF FailPayment, Captured, Message
            <4> QED BY <4>1, <1>3
        <3> QED BY <2>1, <3>1 DEF CapturePayment
    <2> QED BY <2>0, <2>2, <2>3, <1>2
<1>10. CallsArrived'
    BY <1>1, <1>2, <1>4, <1>5, CallFields DEF CallsArrived
<1>11. EventsRecorded' BY <1>1 DEF EventsRecorded, RefRecorded
<1>12. PaymentPostedOnce'
    <2> SUFFICES ASSUME NEW i \in DOMAIN ledger
                 PROVE  /\ \A j \in DOMAIN ledger : ledger[i].ref = ledger[j].ref => i = j
                        /\ Captured(ledger[i].ref)'
                        /\ ledger[i].source \in {NoDonation, orderOf'[ledger[i].ref]}
        BY <1>1 DEF PaymentPostedOnce
    <2>1. ledger[i].ref \in Payments BY RowFields
    <2>2. Captured(ledger[i].ref) BY DEF PaymentPostedOnce
    <2>3. orderOf[ledger[i].ref] \in Donations BY <2>2 DEF SentKnown, Captured, Message
    <2>4. Captured(ledger[i].ref)' BY <2>1, <2>2, <1>1, <1>5
    <2>5. orderOf'[ledger[i].ref] = orderOf[ledger[i].ref] BY <2>1, <2>3, <1>2
    <2>6. /\ \A j \in DOMAIN ledger : ledger[i].ref = ledger[j].ref => i = j
          /\ ledger[i].source \in {NoDonation, orderOf[ledger[i].ref]}
        BY DEF PaymentPostedOnce
    <2> QED BY <2>4, <2>5, <2>6
<1>13. SuccessMeansPosted' BY <1>1 DEF SuccessMeansPosted
<1>14. AckedSettled'
    <2> SUFFICES ASSUME NEW c \in acked, c.via \in CaptureEvents
                 PROVE  RefRecorded(c.payment) \/ status[orderOf'[c.payment]] = "FAILED"
        BY <1>1 DEF AckedSettled, RefRecorded
    <2>1. c \in sent /\ c.payment \in Payments BY DEF DonationTypeOK, Messages
    <2>2. orderOf'[c.payment] = orderOf[c.payment] BY <2>1, <1>2 DEF SentKnown
    <2> QED BY <2>2 DEF AckedSettled
<1>15. FailureReported' BY <1>1, <1>2 DEF FailureReported
<1> QED BY <1>6, <1>7, <1>8, <1>9, <1>10, <1>11, <1>12, <1>13, <1>14, <1>15

\* Steps that only move a request along.
LEMMA QuietKeepsInv ==
    ASSUME DonationInv,
           UNCHANGED <<donationRow, ledger, gatewayVars, acked>>,
           job' \in [Requests -> Calls \cup {NoCall}],
           step' \in [Requests -> {"idle", "loaded", "locked"}],
           CallsArrived'
    PROVE  DonationInv'
<1> USE DEF DonationInv, donationRow, gatewayVars
<1>1. DonationTypeOK' BY DEF DonationTypeOK
<1>2. SentKnown' /\ OneCapture' BY DEF SentKnown, OneCapture, Captured
<1>3. OrdersOpen' BY DEF OrdersOpen
<1>4. EventsRecorded' BY DEF EventsRecorded, RefRecorded
<1>5. PaymentPostedOnce' BY DEF PaymentPostedOnce, Captured
<1>6. SuccessMeansPosted' BY DEF SuccessMeansPosted
<1>7. AckedSettled' /\ FailureReported' BY DEF AckedSettled, FailureReported, RefRecorded
<1> QED BY <1>1, <1>2, <1>3, <1>4, <1>5, <1>6, <1>7

LEMMA FinishKeepsCalls ==
    ASSUME DonationInv, NEW r \in Requests, Finish(r), UNCHANGED gatewayVars
    PROVE  /\ job' \in [Requests -> Calls \cup {NoCall}]
           /\ step' \in [Requests -> {"idle", "loaded", "locked"}]
           /\ CallsArrived'
BY DEF DonationInv, DonationTypeOK, Finish, CallsArrived, gatewayVars, Captured

LEMMA BeginKeepsInv ==
    ASSUME DonationInv, NEW r \in Requests, NEW c \in Calls, Begin(r, c)
    PROVE  DonationInv'
<1>1. /\ job' \in [Requests -> Calls \cup {NoCall}]
      /\ step' \in [Requests -> {"idle", "loaded", "locked"}]
    BY DEF Begin, DonationInv, DonationTypeOK
<1>2. orderOf[c.payment] \in Donations
    BY CallFields, DonationAssumption DEF Begin, Arrives, DonationInv, DonationTypeOK
<1>3. c \in Messages => c \in sent BY DEF Begin, Arrives, Messages, CaptureEvents
<1>4. CallsArrived'
    BY <1>2, <1>3 DEF CallsArrived, Begin, DonationInv, DonationTypeOK, gatewayVars, Captured
<1> QED BY <1>1, <1>4, QuietKeepsInv DEF Begin

LEMMA LockKeepsInv ==
    ASSUME DonationInv, NEW r \in Requests, LockDonation(r)
    PROVE  DonationInv'
<1>1. /\ job' \in [Requests -> Calls \cup {NoCall}]
      /\ step' \in [Requests -> {"idle", "loaded", "locked"}]
    BY DEF LockDonation, DonationInv, DonationTypeOK
<1>2. CallsArrived'
    BY DEF CallsArrived, LockDonation, CanConfirm, DonationInv, DonationTypeOK, gatewayVars, Captured
<1> QED BY <1>1, <1>2, QuietKeepsInv DEF LockDonation

LEMMA RollbackKeepsInv ==
    ASSUME DonationInv, NEW r \in Requests, Rollback(r)
    PROVE  DonationInv'
BY FinishKeepsCalls, QuietKeepsInv DEF Rollback

\* Steps that answer a call and write nothing else.
LEMMA AnswerKeepsInv ==
    ASSUME DonationInv, NEW c \in Calls, Answered(c),
           c \in Messages => c \in sent,
           c \in Messages /\ c.via \in CaptureEvents =>
               RefRecorded(c.payment) \/ status[orderOf[c.payment]] = "FAILED",
           UNCHANGED <<donationRow, ledger, gatewayVars>>,
           job' \in [Requests -> Calls \cup {NoCall}],
           step' \in [Requests -> {"idle", "loaded", "locked"}],
           CallsArrived'
    PROVE  DonationInv'
<1> USE DEF DonationInv, donationRow, gatewayVars
<1>1. DonationTypeOK' BY DEF DonationTypeOK, Answered
<1>2. SentKnown' /\ OneCapture' BY DEF SentKnown, OneCapture, Captured
<1>3. OrdersOpen' BY DEF OrdersOpen
<1>4. EventsRecorded' BY DEF EventsRecorded, RefRecorded
<1>5. PaymentPostedOnce' BY DEF PaymentPostedOnce, Captured
<1>6. SuccessMeansPosted' BY DEF SuccessMeansPosted
<1>7. AckedSettled' /\ FailureReported'
    BY DEF AckedSettled, FailureReported, RefRecorded, Answered
<1> QED BY <1>1, <1>2, <1>3, <1>4, <1>5, <1>6, <1>7

LEMMA DismissKeepsInv ==
    ASSUME DonationInv, NEW c \in Messages, Dismiss(c)
    PROVE  DonationInv'
<1>1. c \in sent /\ c \in Calls /\ c.payment \in Payments
    BY MessageIsItsFields, CallFields DEF Dismiss
<1>2. orderOf[c.payment] \in Donations /\ (c.via \in CaptureEvents => Captured(c.payment))
    BY <1>1 DEF DonationInv, SentKnown
<1>3. ASSUME c.via \in CaptureEvents
      PROVE  RefRecorded(c.payment) \/ status[orderOf[c.payment]] = "FAILED"
    <2>1. CASE EventSeen(c) BY <2>1, SeenIsRecorded
    <2>2. CASE status[orderOf[c.payment]] = "SUCCESS"
        <3>1. PICK i \in DOMAIN ledger : ledger[i].source = orderOf[c.payment]
            BY <1>2, <2>2 DEF DonationInv, SuccessMeansPosted
        <3> QED BY <1>1, <1>2, <1>3, <3>1, PostedForThePayment
    <2>3. ASSUME ~EventSeen(c), status[orderOf[c.payment]] # "SUCCESS"
          PROVE  status[orderOf[c.payment]] = "FAILED"
        <3>1. status[orderOf[c.payment]] # "PENDING" BY <2>3 DEF Dismiss, Payable
        <3>2. status[orderOf[c.payment]] # "NEW" BY <1>1, <1>2 DEF DonationInv, OrdersOpen
        <3> QED BY <1>2, <2>3, <3>1, <3>2 DEF DonationInv, DonationTypeOK
    <2> QED BY <2>1, <2>2, <2>3
<1>4. /\ job' \in [Requests -> Calls \cup {NoCall}]
      /\ step' \in [Requests -> {"idle", "loaded", "locked"}]
      /\ CallsArrived'
    BY DEF Dismiss, DonationInv, DonationTypeOK, CallsArrived, gatewayVars, requestVars, Captured
<1> QED BY <1>1, <1>3, <1>4, AnswerKeepsInv DEF Dismiss

LEMMA AlreadyProcessedKeepsInv ==
    ASSUME DonationInv, NEW r \in Requests, AlreadyProcessed(r)
    PROVE  DonationInv'
<1> DEFINE c == job[r]
<1>1. /\ c \in Calls /\ c.payment \in Payments /\ orderOf[c.payment] \in Donations
      /\ Captured(c.payment) /\ (c \in Messages => c \in sent)
    BY CallFields DEF AlreadyProcessed, CanConfirm, DonationInv, CallsArrived
<1>2. ASSUME c \in Messages PROVE RefRecorded(c.payment)
    <2>1. CASE EventSeen(c) BY <1>2, <2>1, SeenIsRecorded
    <2>2. CASE SourcePosted(orderOf[c.payment])
        BY <1>1, <2>2, PostedForThePayment DEF SourcePosted
    <2> QED BY <2>1, <2>2 DEF AlreadyProcessed, Target
<1>3. UNCHANGED gatewayVars /\ Finish(r) BY DEF AlreadyProcessed
<1> QED BY <1>1, <1>2, <1>3, FinishKeepsCalls, AnswerKeepsInv DEF AlreadyProcessed

-----------------------------------------------------------------------------
(***************************************************************************)
(* Steps that write the ledger or the donation.                            *)
(***************************************************************************)
LEMMA AppendRow ==
    ASSUME DonationTypeOK, NEW row \in Rows, ledger' = Append(ledger, row)
    PROVE  /\ DOMAIN ledger' = DOMAIN ledger \cup {Len(ledger) + 1}
           /\ Len(ledger) + 1 \notin DOMAIN ledger
           /\ \A i \in DOMAIN ledger : ledger'[i] = ledger[i]
           /\ ledger'[Len(ledger) + 1] = row
           /\ ledger' \in Seq(Rows)
<1>1. ledger \in Seq(Rows) BY DEF DonationTypeOK, Rows
<1> QED BY <1>1

\* What a new row does to what is said of the ledger alone.
LEMMA NewRowKept ==
    ASSUME DonationInv, NEW s \in Donations \cup {NoDonation}, NEW p \in Payments,
           ledger' = Append(ledger, Row(s, p)), ~RefRecorded(p), Captured(p),
           s \in {NoDonation, orderOf[p]}, UNCHANGED gatewayVars
    PROVE  /\ PaymentPostedOnce'
           /\ RefRecorded(p)'
           /\ \A q : RefRecorded(q) => RefRecorded(q)'
           /\ ledger' \in Seq(Rows)
           /\ \A i \in DOMAIN ledger : i \in DOMAIN ledger' /\ ledger'[i] = ledger[i]
           /\ \E i \in DOMAIN ledger' : ledger'[i].source = s /\ ledger'[i].ref = p
<1> DEFINE n == Len(ledger) + 1
<1>1. Row(s, p) \in Rows /\ Row(s, p).source = s /\ Row(s, p).ref = p BY DEF Row, Rows
<1>2. /\ DOMAIN ledger' = DOMAIN ledger \cup {n} /\ n \notin DOMAIN ledger
      /\ \A i \in DOMAIN ledger : ledger'[i] = ledger[i]
      /\ ledger'[n] = Row(s, p) /\ ledger' \in Seq(Rows)
    BY <1>1, AppendRow DEF DonationInv
<1> HIDE DEF n
<1>3. \A i \in DOMAIN ledger : ledger[i].ref # p BY DEF RefRecorded
<1>4. PaymentPostedOnce'
    <2>1. ASSUME NEW i \in DOMAIN ledger', NEW j \in DOMAIN ledger',
                 ledger'[i].ref = ledger'[j].ref
          PROVE  i = j
        BY <1>1, <1>2, <1>3, <2>1 DEF DonationInv, PaymentPostedOnce
    <2>2. ASSUME NEW i \in DOMAIN ledger'
          PROVE  /\ Message("payment.captured", ledger'[i].ref) \in sent
                 /\ ledger'[i].source \in {NoDonation, orderOf[ledger'[i].ref]}
        BY <1>1, <1>2 DEF DonationInv, PaymentPostedOnce, Captured
    <2> QED BY <2>1, <2>2 DEF PaymentPostedOnce, Captured, gatewayVars
<1>5. \E i \in DOMAIN ledger' : ledger'[i].source = s /\ ledger'[i].ref = p BY <1>1, <1>2
<1>6. RefRecorded(p)' BY <1>5 DEF RefRecorded
<1>7. \A q : RefRecorded(q) => RefRecorded(q)' BY <1>2 DEF RefRecorded
<1> QED BY <1>2, <1>4, <1>5, <1>6, <1>7

LEMMA RecordByHandKeepsInv ==
    ASSUME DonationInv, NEW p \in Payments, RecordByHand(p)
    PROVE  DonationInv'
<1> USE DEF donationRow, gatewayVars, requestVars
<1>1. /\ PaymentPostedOnce'
      /\ \A q : RefRecorded(q) => RefRecorded(q)'
      /\ ledger' \in Seq(Rows)
      /\ \A i \in DOMAIN ledger : i \in DOMAIN ledger' /\ ledger'[i] = ledger[i]
    BY NewRowKept DEF RecordByHand
<1>2. UNCHANGED <<donationRow, gatewayVars, acked, requestVars>> BY DEF RecordByHand
<1>3. DonationTypeOK' BY <1>1, <1>2 DEF DonationInv, DonationTypeOK, Rows
<1>4. SentKnown' /\ OneCapture' BY <1>2 DEF DonationInv, SentKnown, OneCapture, Captured
<1>5. OrdersOpen' BY <1>2 DEF DonationInv, OrdersOpen
<1>6. CallsArrived' BY <1>2 DEF DonationInv, CallsArrived, Captured
<1>7. EventsRecorded' BY <1>1, <1>2 DEF DonationInv, EventsRecorded
<1>8. SuccessMeansPosted' BY <1>1, <1>2 DEF DonationInv, SuccessMeansPosted
<1>9. AckedSettled' /\ FailureReported'
    BY <1>1, <1>2 DEF DonationInv, AckedSettled, FailureReported
<1> QED BY <1>1, <1>3, <1>4, <1>5, <1>6, <1>7, <1>8, <1>9 DEF DonationInv

LEMMA ReverseKeepsInv ==
    ASSUME DonationInv, NEW i \in DOMAIN ledger, Reverse(i)
    PROVE  DonationInv'
<1> USE DEF donationRow, gatewayVars, requestVars
<1>1. ledger \in Seq(Rows) BY DEF DonationInv, DonationTypeOK, Rows
<1>2. /\ UNCHANGED <<donationRow, gatewayVars, acked, requestVars>>
      /\ ledger' = [ledger EXCEPT ![i].reversed = TRUE]
    BY DEF Reverse
<1> DEFINE row == [ledger[i] EXCEPT !.reversed = TRUE]
<1>a. ledger[i] \in Rows BY <1>1
<1>b. row \in Rows /\ row.ref = ledger[i].ref /\ row.source = ledger[i].source BY <1>a DEF Rows
<1>c. ledger' = [ledger EXCEPT ![i] = row] BY <1>2
<1> HIDE DEF row
<1>3. /\ DOMAIN ledger' = DOMAIN ledger
      /\ \A j \in DOMAIN ledger :
            ledger'[j].ref = ledger[j].ref /\ ledger'[j].source = ledger[j].source
    BY <1>1, <1>b, <1>c
<1>4. ledger' \in Seq(Rows) BY <1>1, <1>b, <1>c
<1>5. DonationTypeOK' BY <1>2, <1>4 DEF DonationInv, DonationTypeOK, Rows
<1>6. \A q : RefRecorded(q)' <=> RefRecorded(q) BY <1>3 DEF RefRecorded
<1>7. SentKnown' /\ OneCapture' BY <1>2 DEF DonationInv, SentKnown, OneCapture, Captured
<1>8. OrdersOpen' BY <1>2 DEF DonationInv, OrdersOpen
<1>9. CallsArrived' BY <1>2 DEF DonationInv, CallsArrived, Captured
<1>10. EventsRecorded' BY <1>6, <1>2 DEF DonationInv, EventsRecorded
<1>11. SuccessMeansPosted' BY <1>3, <1>2 DEF DonationInv, SuccessMeansPosted
<1>12. AckedSettled' /\ FailureReported'
    BY <1>6, <1>2 DEF DonationInv, AckedSettled, FailureReported
<1>13. PaymentPostedOnce' BY <1>3, <1>2 DEF DonationInv, PaymentPostedOnce, Captured
<1> QED BY <1>5, <1>7, <1>8, <1>9, <1>10, <1>11, <1>12, <1>13 DEF DonationInv

LEMMA PostKeepsInv ==
    ASSUME DonationInv, NEW r \in Requests, PostDonation(r)
    PROVE  DonationInv'
<1>0. PICK c, p, d : c = job[r] /\ p = c.payment /\ d = orderOf[p] OBVIOUS
<1>1. /\ c \in Calls /\ p \in Payments /\ d \in Donations /\ Captured(p)
      /\ c \in Messages => c \in sent
    BY <1>0, CallFields DEF PostDonation, DonationInv, CallsArrived
<1>2. /\ ledger' = Append(ledger, Row(d, p)) /\ ~RefRecorded(p)
      /\ status' = [status EXCEPT ![d] = "SUCCESS"]
      /\ gatewayPayment' = [gatewayPayment EXCEPT ![d] = p]
      /\ webhookEvent' = (IF c.via = "browser" THEN webhookEvent
                          ELSE [webhookEvent EXCEPT ![d] = c])
      /\ Answered(c) /\ Finish(r) /\ UNCHANGED <<creator, orderOf, sent>>
    BY <1>0 DEF PostDonation, Target, gatewayVars
<1>3. /\ PaymentPostedOnce'
      /\ RefRecorded(p)' /\ \A q : RefRecorded(q) => RefRecorded(q)'
      /\ ledger' \in Seq(Rows)
      /\ \A i \in DOMAIN ledger : i \in DOMAIN ledger' /\ ledger'[i] = ledger[i]
      /\ \E i \in DOMAIN ledger' : ledger'[i].source = d /\ ledger'[i].ref = p
    BY <1>0, <1>1, <1>2, NewRowKept DEF gatewayVars
<1>4. /\ job' \in [Requests -> Calls \cup {NoCall}]
      /\ step' \in [Requests -> {"idle", "loaded", "locked"}]
      /\ CallsArrived'
    BY <1>2, FinishKeepsCalls DEF gatewayVars
<1>5. c.via # "browser" => c \in Messages BY <1>1 DEF Calls
<1>6. DonationTypeOK' BY <1>1, <1>2, <1>3, <1>4, <1>5 DEF DonationInv, DonationTypeOK, Rows, Answered
<1>7. SentKnown' /\ OneCapture' BY <1>2 DEF DonationInv, SentKnown, OneCapture, Captured
<1>8. OrdersOpen' BY <1>1, <1>2 DEF DonationInv, OrdersOpen, DonationTypeOK
<1>9. EventsRecorded'
    BY <1>0, <1>1, <1>2, <1>3 DEF DonationInv, EventsRecorded, DonationTypeOK
<1>10. SuccessMeansPosted' BY <1>1, <1>2, <1>3 DEF DonationInv, SuccessMeansPosted, DonationTypeOK
<1>11. AckedSettled'
    <2> SUFFICES ASSUME NEW m \in acked', m.via \in CaptureEvents
                 PROVE  RefRecorded(m.payment)' \/ status'[orderOf[m.payment]] = "FAILED"
        BY <1>2 DEF AckedSettled
    <2>1. CASE m = c BY <1>0, <1>3, <2>1
    <2>2. CASE m # c
        <3>1. m \in acked BY <1>2, <2>2 DEF Answered
        <3>2. m.payment \in Payments /\ orderOf[m.payment] \in Donations /\ Captured(m.payment)
            BY <3>1 DEF DonationInv, DonationTypeOK, Messages, SentKnown
        <3>3. CASE orderOf[m.payment] = d
            <4>1. m.payment = p BY <1>0, <1>1, <3>2, <3>3 DEF DonationInv, OneCapture
            <4> QED BY <4>1, <1>3
        <3>4. CASE orderOf[m.payment] # d
            BY <1>2, <1>3, <3>1, <3>2, <3>4 DEF DonationInv, AckedSettled, DonationTypeOK
        <3> QED BY <3>3, <3>4
    <2> QED BY <2>1, <2>2
<1>12. FailureReported'
    BY <1>1, <1>2 DEF DonationInv, FailureReported, DonationTypeOK, Answered
<1> QED BY <1>3, <1>4, <1>6, <1>7, <1>8, <1>9, <1>10, <1>11, <1>12 DEF DonationInv

LEMMA FailKeepsInv ==
    ASSUME DonationInv, NEW r \in Requests, FailDonation(r)
    PROVE  DonationInv'
<1> DEFINE c == job[r]
           d == orderOf[c.payment]
<1>1. /\ c \in Calls /\ c.payment \in Payments /\ d \in Donations
      /\ c \in Messages => c \in sent
    BY CallFields DEF FailDonation, DonationInv, CallsArrived
<1>2. /\ status' = [status EXCEPT ![d] = "FAILED"]
      /\ gatewayPayment' = [gatewayPayment EXCEPT ![d] = c.payment]
      /\ Answered(c) /\ Finish(r) /\ c.via = "payment.failed"
      /\ UNCHANGED <<creator, webhookEvent, ledger, orderOf, sent>>
    BY DEF FailDonation, Target, gatewayVars
<1>3. /\ job' \in [Requests -> Calls \cup {NoCall}]
      /\ step' \in [Requests -> {"idle", "loaded", "locked"}]
      /\ CallsArrived'
    BY <1>2, FinishKeepsCalls DEF gatewayVars
<1> HIDE DEF c, d
<1>4. DonationTypeOK' BY <1>1, <1>2, <1>3 DEF DonationInv, DonationTypeOK, Answered
<1>5. SentKnown' /\ OneCapture' BY <1>2 DEF DonationInv, SentKnown, OneCapture, Captured
<1>6. OrdersOpen' BY <1>1, <1>2 DEF DonationInv, OrdersOpen, DonationTypeOK
<1>7. EventsRecorded' BY <1>2 DEF DonationInv, EventsRecorded, RefRecorded
<1>8. PaymentPostedOnce' BY <1>2 DEF DonationInv, PaymentPostedOnce, Captured
<1>9. SuccessMeansPosted' BY <1>1, <1>2 DEF DonationInv, SuccessMeansPosted, DonationTypeOK
<1>10. AckedSettled'
    BY <1>1, <1>2 DEF DonationInv, AckedSettled, DonationTypeOK, RefRecorded, Answered,
                      CaptureEvents
<1>11. FailureReported'
    <2>1. c \in Messages /\ c = Message("payment.failed", c.payment) /\ c \in acked'
        BY <1>1, <1>2, MessageIsItsFields DEF Calls, Answered
    <2>2. orderOf[c.payment] = d BY DEF d
    <2>3. status'[d] = "FAILED" /\ gatewayPayment'[d] = c.payment /\ acked \subseteq acked'
        BY <1>1, <1>2 DEF DonationInv, DonationTypeOK, Answered
    <2>4. \A e \in Donations \ {d} :
              status'[e] = status[e] /\ gatewayPayment'[e] = gatewayPayment[e]
        BY <1>1, <1>2 DEF DonationInv, DonationTypeOK
    <2> QED BY <1>1, <1>2, <2>1, <2>2, <2>3, <2>4 DEF DonationInv, FailureReported
<1> QED BY <1>3, <1>4, <1>5, <1>6, <1>7, <1>8, <1>9, <1>10, <1>11 DEF DonationInv

-----------------------------------------------------------------------------
LEMMA NextKeepsInv == DonationInv /\ [DonationNext]_donationVars => DonationInv'
<1> SUFFICES ASSUME DonationInv, [DonationNext]_donationVars PROVE DonationInv' OBVIOUS
<1>1. CASE \E d \in Donations : Create(d) BY <1>1, CreateKeepsInv
<1>2. CASE \E d \in Donations, p \in Payments : FailPayment(p, d) \/ CapturePayment(p, d)
    BY <1>2, AttemptKeepsInv
<1>3. CASE \E r \in Requests : Serve(r)
    <2> SUFFICES ASSUME NEW r \in Requests, Serve(r) PROVE DonationInv' BY <1>3
    <2> QED BY BeginKeepsInv, LockKeepsInv, AlreadyProcessedKeepsInv, PostKeepsInv,
               FailKeepsInv, RollbackKeepsInv DEF Serve
<1>4. CASE \E c \in Messages : Dismiss(c) BY <1>4, DismissKeepsInv
<1>5. CASE \E p \in Payments : RecordByHand(p) BY <1>5, RecordByHandKeepsInv
<1>6. CASE \E i \in DOMAIN ledger : Reverse(i) BY <1>6, ReverseKeepsInv
<1>7. CASE UNCHANGED donationVars
    <2>1. CallsArrived' /\ DonationTypeOK'
        BY <1>7 DEF donationVars, gatewayVars, requestVars, donationRow, DonationInv, CallsArrived,
                    DonationTypeOK, Captured
    <2> QED BY <1>7, <2>1, QuietKeepsInv DEF donationVars, requestVars, DonationTypeOK
<1> QED BY <1>1, <1>2, <1>3, <1>4, <1>5, <1>6, <1>7 DEF DonationNext

LEMMA InvHolds == DonationSpec => []DonationInv
BY InitInv, NextKeepsInv, PTL DEF DonationSpec

\* The tables, the gateway's messages and the requests keep their shape, for any
\* number of donations, payments and overlapping requests.
THEOREM TypeCorrect == DonationSpec => []DonationTypeOK
<1>1. DonationInv => DonationTypeOK BY DEF DonationInv
<1> QED BY <1>1, InvHolds, PTL

\* However often and by whomever a payment is reported or entered, the ledger holds
\* it once, captured, and under the donation it was made for.
THEOREM PaymentsArePostedOnce == DonationSpec => []PaymentPostedOnce
<1>1. DonationInv => PaymentPostedOnce BY DEF DonationInv
<1> QED BY <1>1, InvHolds, PTL

\* A donation shown as received has its row in the ledger, for the payment it names.
THEOREM SuccessIsPosted == DonationSpec => []SuccessMeansPosted
<1>1. DonationInv => SuccessMeansPosted BY DEF DonationInv
<1> QED BY <1>1, InvHolds, PTL

\* The gateway is told to stop repeating a captured payment only when the payment
\* is in the ledger or the donation stands failed by another attempt's report.
THEOREM DropsAreExplained == DonationSpec => []DroppedOnlyAfterFailure
<1>1. ASSUME DonationInv PROVE DroppedOnlyAfterFailure
    <2> SUFFICES ASSUME NEW c \in acked, c.via \in CaptureEvents, ~RefRecorded(c.payment)
                 PROVE  /\ status[orderOf[c.payment]] = "FAILED"
                        /\ Message("payment.failed", gatewayPayment[orderOf[c.payment]]) \in acked
                        /\ orderOf[gatewayPayment[orderOf[c.payment]]] = orderOf[c.payment]
        BY DEF DroppedOnlyAfterFailure
    <2>1. status[orderOf[c.payment]] = "FAILED" BY <1>1 DEF DonationInv, AckedSettled
    <2>2. orderOf[c.payment] \in Donations BY <1>1 DEF DonationInv, DonationTypeOK, SentKnown
    <2> QED BY <1>1, <2>1, <2>2 DEF DonationInv, FailureReported
<1> QED BY <1>1, InvHolds, PTL

=============================================================================
