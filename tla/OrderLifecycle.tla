--------------------------- MODULE OrderLifecycle ---------------------------
(***************************************************************************)
(* The life of one order after it was placed: the administrator's status   *)
(* changes, the customer's cancellation, return and cancellation requests, *)
(* payment through Razorpay and its webhooks.                              *)
(*                                                                         *)
(* Each process is one HTTP request of the API server.  A step is what     *)
(* happens between two awaits on the database or on Razorpay, except that  *)
(* the statements of a transaction from its first write of the order row   *)
(* to COMMIT are one step: the row's lock keeps every other write of it    *)
(* out, and the others still read what they would have read before.        *)
(* manager.save writes the columns in which the entity in memory differs   *)
(* from a SELECT made just before (see Checkout).  Stock is in Checkout.   *)
(***************************************************************************)
EXTENDS Integers, Sequences, FiniteSets, OrderStateMachine

CONSTANTS
  Procs,         \* concurrent requests
  Intents,       \* orders in Razorpay (razorpayOrderId)
  Charges,       \* payments in Razorpay (razorpayPaymentId)
  ReturnIds,     \* rows of return_requests
  CancelIds,     \* rows of cancellation_requests
  AdminTargets,  \* statuses the administrator may ask for
  InitialPaths,  \* histories that the order may have when the run starts
  MaxHistory,    \* bound: no change is asked for once the log is so long, but
                 \* for a return, which may be asked for one row later
  NONE,          \* no payment row, no charge, no payment id
  NotLoaded      \* the order was loaded without its payments row

ASSUME RequestsAssumption == IsFiniteSet(Procs) /\ IsFiniteSet(ReturnIds)

ASSUME PathsAssumption ==
  /\ InitialPaths \subseteq Seq(OrderStatus) \ {<<>>}
  /\ \A path \in InitialPaths :
       /\ path[1] = "pending"
       /\ \A i \in 1..(Len(path) - 1) : CanTransition(path[i], path[i + 1])
  /\ AdminTargets \subseteq OrderStatus

RequestStatus == {"none", "requested", "approved", "rejected"}

PaymentRow == [intent: Intents, id: Charges \cup {NONE}, status: {"created", "paid"}]

Charge == [intent: Intents, ok: BOOLEAN]

ASSUME NothingAssumption ==
  /\ NONE \notin PaymentRow \cup Charges \cup Charge
  /\ NotLoaded \notin PaymentRow \cup {NONE}

VARIABLES
  status, paymentStatus,  \* the order row
  history,                \* to_status of its order_status_history rows
  payment,                \* its payments row
  returns, cancels,       \* status of each request about it
  intent, charge,         \* Razorpay: its orders and the attempts to pay them
  offered,                \* intents that some client can open the checkout on
  hooks,                  \* webhooks that Razorpay has not seen acknowledged
  tx                      \* the request each process is serving

orderRow == <<status, paymentStatus, history>>
requests == <<returns, cancels>>
razorpay == <<intent, charge, offered, hooks>>
vars == <<status, paymentStatus, history, payment, returns, cancels,
          intent, charge, offered, hooks, tx>>

Idle == [pc |-> "idle"]

Reached(s) == \E i \in DOMAIN history : history[i] = s

\* An order that was delivered counts as paid.
Init ==
  /\ history \in InitialPaths
  /\ status = history[Len(history)]
  /\ paymentStatus = IF Reached("delivered") THEN "paid" ELSE "pending"
  /\ payment = NONE
  /\ returns = [r \in ReturnIds |-> "none"]
  /\ cancels = [c \in CancelIds |-> "none"]
  /\ intent = [i \in Intents |-> "none"]
  /\ charge = [k \in Charges |-> NONE]
  /\ offered = {}
  /\ hooks = {}
  /\ tx = [p \in Procs |-> Idle]

\* A process starts on, goes on with, or finishes a request.
Arrive(p, t) == tx[p] = Idle /\ tx' = [tx EXCEPT ![p] = t]
At(p, label) == tx[p].pc = label
Goto(p, label) == tx' = [tx EXCEPT ![p].pc = label]
Done(p) == tx' = [tx EXCEPT ![p] = Idle]

\* An error or the server dying: a transaction leaves nothing behind, and
\* what was saved outside of one stays.
Fail(p) ==
  /\ tx[p] # Idle
  /\ Done(p)
  /\ UNCHANGED <<orderRow, payment, requests, razorpay>>

-----------------------------------------------------------------------------
(* updateOrderStatus and requestCancellation: load, change, save.          *)

\* What is loaded with the order: how much of its history, and (by the
\* customer's cancellation) its payments row.
Loaded(to, paid, pay) ==
  [pc |-> "select", to |-> to, paid |-> paid, pay |-> pay,
   seen |-> Len(history), rows |-> 0, cols |-> {}]

UpdateOrderStatus(p, to) ==
  /\ Len(history) < MaxHistory
  /\ CanTransition(status, to)
  /\ Arrive(p, Loaded(to, IF to = "delivered" THEN "paid" ELSE paymentStatus,
                      NotLoaded))
  /\ UNCHANGED <<orderRow, payment, requests, razorpay>>

RequestCancellation(p) ==
  /\ Len(history) < MaxHistory
  /\ IsCancellableByCustomer(status)
  /\ Arrive(p, Loaded("cancelled", paymentStatus, payment))
  /\ UNCHANGED <<orderRow, payment, requests, razorpay>>

\* Mutant of OrphansRefused: order_id without its NOT NULL constraint.
OrphansAccepted(t) == FALSE

\* Rows of a loaded relation that are in the database and not in the entity
\* are orphans, whose order_id the save sets to NULL: NOT NULL refuses it.
OrphansRefused(t) ==
  \/ Len(history) > t.seen
  \/ t.pay = NONE /\ payment # NONE

\* Columns of the payments row the loaded one differs in now.
Differs(old, new) == {c \in {"intent", "id", "status"} : old[c] # new[c]}

Overwrite(row, cols, old) ==
  [c \in {"intent", "id", "status"} |-> IF c \in cols THEN old[c] ELSE row[c]]

\* manager.save(Order), the SELECTs.
SaveSelect(p) ==
  LET t == tx[p]
  IN /\ At(p, "select")
     /\ IF OrphansRefused(t)
        THEN Done(p)
        ELSE tx' = [tx EXCEPT
               ![p].pc = "update",
               ![p].rows = Len(history),
               ![p].cols =
                 {c \in {"to"} : t.to # status}
                 \cup {c \in {"paid"} : t.paid # paymentStatus}
                 \cup IF t.pay \in {NONE, NotLoaded} \/ payment = NONE THEN {}
                      ELSE Differs(t.pay, payment)]
     /\ UNCHANGED <<orderRow, payment, requests, razorpay>>

\* The UPDATEs, the insert of the history row and COMMIT.
SaveUpdate(p) ==
  LET t == tx[p]
  IN /\ At(p, "update")
     /\ status' = IF "to" \in t.cols THEN t.to ELSE status
     /\ paymentStatus' = IF "paid" \in t.cols THEN t.paid ELSE paymentStatus
     /\ payment' = IF t.pay \in {NONE, NotLoaded} THEN payment
                   ELSE Overwrite(payment, t.cols, t.pay)
     /\ history' = SubSeq(history, 1, t.seen)
                     \o SubSeq(history, t.rows + 1, Len(history)) \o <<t.to>>
     /\ Done(p)
     /\ UNCHANGED <<requests, razorpay>>

-----------------------------------------------------------------------------
(* order-requests.service.ts.                                              *)

CreateReturnRequest(p) ==
  /\ Len(history) <= MaxHistory
  /\ IsReturnable(status)
  /\ Arrive(p, [pc |-> "checkReturns"])
  /\ UNCHANGED <<orderRow, payment, requests, razorpay>>

\* Mutant of CheckReturns: the duplicate check is gone.
CheckNothing(p) ==
  /\ At(p, "checkReturns")
  /\ Goto(p, "insertReturn")
  /\ UNCHANGED <<orderRow, payment, requests, razorpay>>

CheckReturns(p) ==
  /\ At(p, "checkReturns")
  /\ IF \E r \in ReturnIds : returns[r] = "requested"
     THEN Done(p)
     ELSE Goto(p, "insertReturn")
  /\ UNCHANGED <<orderRow, payment, requests, razorpay>>

InsertReturn(p) ==
  /\ At(p, "insertReturn")
  /\ \E r \in ReturnIds : /\ returns[r] = "none"
                          /\ returns' = [returns EXCEPT ![r] = "requested"]
  /\ status' = "return_requested"
  /\ history' = Append(history, "return_requested")
  /\ Done(p)
  /\ UNCHANGED <<paymentStatus, payment, cancels, razorpay>>

\* Nothing holds the request between the check and the save.
ResolveReturnRequest(p, r, verdict) ==
  /\ returns[r] = "requested"
  /\ Arrive(p, [pc |-> "saveReturn", id |-> r, verdict |-> verdict])
  /\ UNCHANGED <<orderRow, payment, requests, razorpay>>

\* Three statements, each committed by itself.
SaveReturn(p) ==
  /\ At(p, "saveReturn")
  /\ returns' = [returns EXCEPT ![tx[p].id] = tx[p].verdict]
  /\ IF tx[p].verdict = "approved" THEN Goto(p, "markReturned") ELSE Done(p)
  /\ UNCHANGED <<orderRow, payment, cancels, razorpay>>

MarkReturned(p) ==
  /\ At(p, "markReturned")
  /\ status' = "returned"
  /\ Goto(p, "logReturned")
  /\ UNCHANGED <<paymentStatus, history, payment, requests, razorpay>>

LogReturned(p) ==
  /\ At(p, "logReturned")
  /\ history' = Append(history, "returned")
  /\ Done(p)
  /\ UNCHANGED <<status, paymentStatus, payment, requests, razorpay>>

CreateCancellationRequest(p) ==
  /\ Len(history) < MaxHistory
  /\ ~IsCancellableByCustomer(status)
  /\ ~IsTerminal(status)
  /\ Arrive(p, [pc |-> "checkCancels"])
  /\ UNCHANGED <<orderRow, payment, requests, razorpay>>

CheckCancels(p) ==
  /\ At(p, "checkCancels")
  /\ IF \E c \in CancelIds : cancels[c] = "requested"
     THEN Done(p)
     ELSE Goto(p, "insertCancel")
  /\ UNCHANGED <<orderRow, payment, requests, razorpay>>

InsertCancel(p) ==
  /\ At(p, "insertCancel")
  /\ \E c \in CancelIds : /\ cancels[c] = "none"
                          /\ cancels' = [cancels EXCEPT ![c] = "requested"]
  /\ Done(p)
  /\ UNCHANGED <<orderRow, payment, returns, razorpay>>

ResolveCancellationRequest(p, c, verdict) ==
  /\ cancels[c] = "requested"
  /\ Arrive(p, [pc |-> "saveCancel", id |-> c, verdict |-> verdict])
  /\ UNCHANGED <<orderRow, payment, requests, razorpay>>

\* The writes of the transaction: the order is cancelled whatever its status.
SaveCancel(p) ==
  LET t == tx[p]
  IN /\ At(p, "saveCancel")
     /\ cancels' = [cancels EXCEPT ![t.id] = t.verdict]
     /\ IF t.verdict = "approved"
        THEN /\ status' = "cancelled"
             /\ history' = Append(history, "cancelled")
        ELSE UNCHANGED <<status, history>>
     /\ Done(p)
     /\ UNCHANGED <<paymentStatus, payment, returns, razorpay>>

-----------------------------------------------------------------------------
(* payments.service.ts: initiatePayment.                                   *)

InitiatePayment(p) ==
  /\ paymentStatus # "paid"
  /\ Arrive(p, [pc |-> "findPayment"])
  /\ UNCHANGED <<orderRow, payment, requests, razorpay>>

\* The row that is there decides whether its intent may be reused.
FindPayment(p) ==
  /\ At(p, "findPayment")
  /\ tx' = [tx EXCEPT ![p] =
       [pc |-> IF payment # NONE /\ payment.status = "created"
               THEN "fetchIntent" ELSE "createIntent",
        op |-> "initiate", pay |-> payment, row |-> NONE, cols |-> {}]]
  /\ UNCHANGED <<orderRow, payment, requests, razorpay>>

\* orders.fetch: reuse the intent if nobody tried to pay it; if it was tried,
\* or Razorpay could not be reached, make another one.
FetchIntent(p) ==
  /\ At(p, "fetchIntent")
  /\ \/ intent[tx[p].pay.intent] = "created" /\ Done(p)
     \/ Goto(p, "createIntent")
  /\ UNCHANGED <<orderRow, payment, requests, razorpay>>

\* orders.create may fail, and the request with it.
CreateIntent(p) ==
  /\ At(p, "createIntent")
  /\ \/ Done(p) /\ UNCHANGED intent
     \/ \E i \in Intents :
          /\ intent[i] = "none"
          /\ intent' = [intent EXCEPT ![i] = "created"]
          /\ tx' = [tx EXCEPT
               ![p].pc = "selectPayment",
               ![p].row = [intent |-> i, status |-> "created",
                           id |-> IF tx[p].pay = NONE THEN NONE ELSE tx[p].pay.id]]
  /\ UNCHANGED <<orderRow, payment, requests, charge, offered, hooks>>

\* paymentRepo.save of a row that exists: the SELECT ...
SelectPayment(p) ==
  /\ At(p, "selectPayment")
  /\ tx[p].pay # NONE
  /\ tx' = [tx EXCEPT ![p].pc = "updatePayment",
                      ![p].cols = Differs(tx[p].row, payment)]
  /\ UNCHANGED <<orderRow, payment, requests, razorpay>>

\* ... and the UPDATE, after which initiatePayment answers the client.
UpdatePayment(p) ==
  LET t == tx[p]
  IN /\ At(p, "updatePayment")
     /\ payment' = Overwrite(payment, t.cols, t.row)
     /\ IF t.op = "initiate"
        THEN offered' = offered \cup {t.row.intent} /\ Done(p)
        ELSE Goto(p, "confirm") /\ UNCHANGED offered
     /\ UNCHANGED <<orderRow, requests, intent, charge, hooks>>

\* A row that was not there is inserted; order_id is unique.
InsertPayment(p) ==
  LET t == tx[p]
  IN /\ At(p, "selectPayment")
     /\ t.pay = NONE
     /\ IF payment = NONE
        THEN payment' = t.row /\ offered' = offered \cup {t.row.intent}
        ELSE UNCHANGED <<payment, offered>>
     /\ Done(p)
     /\ UNCHANGED <<orderRow, requests, intent, charge, hooks>>

-----------------------------------------------------------------------------
(* Razorpay and the client (external).                                     *)

\* The customer pays an intent, or tries to; a webhook will say so.
Pay(i, k, ok) ==
  /\ i \in offered
  /\ intent[i] \in {"created", "attempted"}
  /\ charge[k] = NONE
  /\ charge' = [charge EXCEPT ![k] = [intent |-> i, ok |-> ok]]
  /\ intent' = [intent EXCEPT ![i] = IF ok THEN "paid" ELSE "attempted"]
  /\ hooks' = hooks \cup {k}
  /\ UNCHANGED <<orderRow, payment, requests, offered, tx>>

Captured(k) == charge[k] # NONE /\ charge[k].ok

\* A webhook is delivered until an answer has been received.
Acknowledge(k) == hooks' \in {hooks, hooks \ {k}}

-----------------------------------------------------------------------------
(* payments.service.ts: verifyPayment and the webhooks.                    *)

\* Mutant of Signed: the signature is not compared.
AnySignature(k) == charge[k] # NONE

\* Razorpay signs what it captured.
Signed(k) == Captured(k)

\* The client reports the payment; the row must be about the same intent.
VerifyPayment(p, k) ==
  /\ Signed(k)
  /\ payment # NONE
  /\ payment.intent = charge[k].intent
  /\ Arrive(p, [pc |-> "selectPayment", op |-> "verify", pay |-> payment, cols |-> {},
                row |-> [intent |-> payment.intent, id |-> k, status |-> "paid"]])
  /\ UNCHANGED <<orderRow, payment, requests, razorpay>>

\* The order is confirmed whatever its status, and nothing is logged.
Confirm(p) ==
  /\ At(p, "confirm")
  /\ status' = "confirmed"
  /\ paymentStatus' = "paid"
  /\ Done(p)
  /\ UNCHANGED <<history, payment, requests, razorpay>>

\* Mutant of HookConfirms: the handler answers before it has done anything.
HookIgnores(p, k) ==
  /\ Done(p)
  /\ Acknowledge(k)
  /\ UNCHANGED <<orderRow, payment, requests, intent, charge, offered>>

HookConfirms(p, k) ==
  /\ status' = "confirmed"
  /\ paymentStatus' = "paid"
  /\ Goto(p, "markPaid")
  /\ UNCHANGED <<history, payment, requests, razorpay>>

\* payment.captured, first statement.
Hook(p, k) ==
  /\ k \in hooks
  /\ Arrive(p, [pc |-> IF charge[k].ok THEN "captured" ELSE "failed", id |-> k])
  /\ UNCHANGED <<orderRow, payment, requests, razorpay>>

HandlePaymentCaptured(p) == At(p, "captured") /\ HookConfirms(p, tx[p].id)

\* Second statement: the row, if verifyPayment has stored the payment's id.
MarkPaid(p) ==
  LET k == tx[p].id
  IN /\ At(p, "markPaid")
     /\ payment' = IF payment # NONE /\ payment.id = k
                   THEN [payment EXCEPT !.status = "paid"] ELSE payment
     /\ Done(p)
     /\ Acknowledge(k)
     /\ UNCHANGED <<orderRow, requests, intent, charge, offered>>

\* Mutant of HandlePaymentFailed: it writes the other status column.
FailOrder(p) ==
  /\ At(p, "failed")
  /\ status' = "failed"
  /\ Done(p)
  /\ Acknowledge(tx[p].id)
  /\ UNCHANGED <<paymentStatus, history, payment, requests, intent, charge, offered>>

HandlePaymentFailed(p) ==
  /\ At(p, "failed")
  /\ paymentStatus' = "failed"
  /\ Done(p)
  /\ Acknowledge(tx[p].id)
  /\ UNCHANGED <<status, history, payment, requests, intent, charge, offered>>

-----------------------------------------------------------------------------

Request(p) ==
  \/ \E to \in AdminTargets : UpdateOrderStatus(p, to)
  \/ RequestCancellation(p)
  \/ CreateReturnRequest(p) \/ CreateCancellationRequest(p)
  \/ \E r \in ReturnIds, verdict \in {"approved", "rejected"} :
       ResolveReturnRequest(p, r, verdict)
  \/ \E c \in CancelIds, verdict \in {"approved", "rejected"} :
       ResolveCancellationRequest(p, c, verdict)
  \/ InitiatePayment(p)
  \/ \E k \in Charges : VerifyPayment(p, k) \/ Hook(p, k)

Statement(p) ==
  \/ SaveSelect(p) \/ SaveUpdate(p)
  \/ CheckReturns(p) \/ InsertReturn(p)
  \/ SaveReturn(p) \/ MarkReturned(p) \/ LogReturned(p)
  \/ CheckCancels(p) \/ InsertCancel(p) \/ SaveCancel(p)
  \/ FindPayment(p) \/ FetchIntent(p) \/ CreateIntent(p)
  \/ SelectPayment(p) \/ UpdatePayment(p) \/ InsertPayment(p)
  \/ Confirm(p) \/ HandlePaymentCaptured(p) \/ MarkPaid(p)
  \/ HandlePaymentFailed(p)

Next ==
  \/ \E p \in Procs : Request(p) \/ Statement(p) \/ Fail(p)
  \/ \E i \in Intents, k \in Charges, ok \in BOOLEAN : Pay(i, k, ok)

Spec == Init /\ [][Next]_vars

\* The event loop runs every callback; Razorpay delivers a webhook until it
\* is acknowledged, and the server does not die at every delivery.
Fairness ==
  /\ \A p \in Procs : WF_vars(Statement(p)) /\ SF_vars(HandlePaymentCaptured(p))
  /\ \A k \in Charges : SF_vars(\E p \in Procs : Hook(p, k))

FairSpec == Spec /\ Fairness

-----------------------------------------------------------------------------
(* Properties.                                                             *)

Fields == {"to", "paid", "intent", "id", "status"}

SaveTx ==
  [pc: {"select", "update"}, to: OrderStatus, paid: {"pending", "paid", "failed"},
   pay: PaymentRow \cup {NONE, NotLoaded}, seen: Nat, rows: Nat, cols: SUBSET Fields]

PayTx ==
  [pc: {"fetchIntent", "createIntent", "selectPayment", "updatePayment", "confirm"},
   op: {"initiate", "verify"}, pay: PaymentRow \cup {NONE},
   row: PaymentRow \cup {NONE}, cols: SUBSET Fields]

ResolveTx == [pc: {"saveReturn", "markReturned", "logReturned"}, id: ReturnIds,
              verdict: {"approved", "rejected"}]
             \cup [pc: {"saveCancel"}, id: CancelIds, verdict: {"approved", "rejected"}]

HookTx == [pc: {"captured", "failed", "markPaid"}, id: Charges]

PlainTx == [pc: {"idle", "checkReturns", "insertReturn", "checkCancels",
                 "insertCancel", "findPayment"}]

\* Every variable has its type.
TypeOK ==
  /\ status \in OrderStatus
  /\ paymentStatus \in {"pending", "paid", "failed"}
  /\ history \in Seq(OrderStatus)
  /\ payment \in PaymentRow \cup {NONE}
  /\ returns \in [ReturnIds -> RequestStatus]
  /\ cancels \in [CancelIds -> RequestStatus]
  /\ intent \in [Intents -> {"none", "created", "attempted", "paid"}]
  /\ charge \in [Charges -> Charge \cup {NONE}]
  /\ offered \subseteq Intents
  /\ hooks \subseteq Charges
  /\ tx \in [Procs -> SaveTx \cup PayTx \cup ResolveTx \cup HookTx \cup PlainTx]

(***************************************************************************)
(* What an order must have gone through before it may be at a status.      *)
(***************************************************************************)
Before ==
  [s \in OrderStatus |->
     CASE s = "shipped"                        -> {"processing"}
       [] s \in {"out_for_delivery", "delivered"} -> {"processing", "shipped"}
       [] s \in {"return_requested", "returned", "refunded"}
                                     -> {"processing", "shipped", "delivered"}
       [] OTHER                                -> {}]

(***************************************************************************)
(* Whatever is overwritten, resurrected or interrupted, no order is        *)
(* shipped that was not packed, none is delivered that was not shipped,    *)
(* and none is returned or refunded that was not delivered: the log says   *)
(* so, of each of its rows and of the order's status.                      *)
(***************************************************************************)
MilestonesInOrder ==
  /\ \A s \in Before[status] : Reached(s)
  /\ \A i \in DOMAIN history : \A s \in Before[history[i]] :
       \E j \in 1..(i - 1) : history[j] = s

(***************************************************************************)
(* order-status-history.entity.ts calls the log append-only.  It is, even  *)
(* though the orders that are saved carry an outdated copy of it.          *)
(***************************************************************************)
AppendOnly ==
  [][/\ Len(history') >= Len(history)
     /\ SubSeq(history', 1, Len(history)) = history]_vars

(***************************************************************************)
(* The order's status is the last one logged, unless a payment confirmed   *)
(* the order or a return was approved: no overlap of the administrator's   *)
(* and the customer's changes separates them.                              *)
(***************************************************************************)
LogExplainsStatus ==
  \/ status = history[Len(history)]
  \/ \E k \in Charges : Captured(k)
  \/ \E r \in ReturnIds : returns[r] \in {"approved", "rejected"}

(***************************************************************************)
(* A request for a return is refused while another is pending              *)
(* (order-requests.service.ts:56), but the check and the insert are two    *)
(* statements: as many requests as overlap may all be left pending.  Never *)
(* more, even if a stale save makes the order look delivered again.        *)
(***************************************************************************)
PendingReturns == {r \in ReturnIds : returns[r] = "requested"}

PendingReturnsBounded == Cardinality(PendingReturns) <= Cardinality(Procs)

(***************************************************************************)
(* An order counts as paid only if Razorpay captured a payment or it was   *)
(* delivered; so does the payments row, and the payment it names was       *)
(* captured, whatever outdated values the saves write back.  (That a row   *)
(* marked paid names a payment does not hold: a cancellation may write     *)
(* back the empty id it loaded.)                                           *)
(***************************************************************************)
PaidIsBacked ==
  /\ paymentStatus = "paid" => Reached("delivered") \/ \E k \in Charges : Captured(k)
  /\ payment # NONE =>
       /\ payment.status = "paid" => \E k \in Charges : Captured(k)
       /\ payment.id # NONE => Captured(payment.id)

(***************************************************************************)
(* If a payment is captured the order becomes paid, even if the client     *)
(* never reports it and the server dies while it serves the webhook.  That *)
(* it stays paid does not hold: a status change of the administrator that  *)
(* loaded the order before writes its paymentStatus back.                  *)
(***************************************************************************)
CapturedIsRecorded ==
  \A k \in Charges : <>Captured(k) => <>(paymentStatus = "paid")

-----------------------------------------------------------------------------
(* What the comments say and the code does not do.                         *)

(***************************************************************************)
(* order-state-machine.ts:14 calls CANCELLED terminal.                     *)
(***************************************************************************)
CancelledIsFinal == [][status = "cancelled" => status' = "cancelled"]_vars
=============================================================================
