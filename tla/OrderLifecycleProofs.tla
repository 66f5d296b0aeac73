------------------------ MODULE OrderLifecycleProofs ------------------------
(***************************************************************************)
(* Theorems about OrderLifecycle, for every number of requests, intents,   *)
(* payments and return and cancellation requests.                          *)
(***************************************************************************)
EXTENDS OrderLifecycle, TLAPS, FiniteSetTheorems, SequenceTheorems, WellFoundedInduction

-----------------------------------------------------------------------------
(* Types.                                                                  *)

Tx == SaveTx \cup PayTx \cup ResolveTx \cup HookTx \cup PlainTx

(***************************************************************************)
(* What a request has in hand.  Of a save: a copy of the log that was      *)
(* complete when it was loaded, and still was at the SELECT; a copy of the *)
(* payments row only if there is one.  Of a payment: the row it will write *)
(* and, where it goes on from an existing row, that there is one.          *)
(***************************************************************************)
HandInv(p) ==
  /\ tx[p].pc \in {"select", "update"} =>
       /\ tx[p].seen <= Len(history)
       /\ (tx[p].pay \in PaymentRow => payment # NONE)
  /\ tx[p].pc = "update" => tx[p].seen = tx[p].rows
  /\ tx[p].pc \in {"fetchIntent", "createIntent", "selectPayment", "updatePayment"} =>
       (tx[p].pay # NONE => payment # NONE)
  /\ tx[p].pc \in {"fetchIntent", "updatePayment"} => tx[p].pay # NONE
  /\ tx[p].pc \in {"selectPayment", "updatePayment"} => tx[p].row # NONE

TypeInv == TypeOK /\ (\A p \in Procs : HandInv(p))

\* The label a request is at says what kind of request it is.
LEMMA Kinds ==
  ASSUME TypeOK, NEW p \in Procs
  PROVE  /\ tx[p].pc \in {"select", "update"} => tx[p] \in SaveTx
         /\ tx[p].pc \in {"fetchIntent", "createIntent", "selectPayment",
                          "updatePayment", "confirm"} => tx[p] \in PayTx
         /\ tx[p].pc \in {"saveReturn", "markReturned", "logReturned", "saveCancel"} =>
              tx[p] \in ResolveTx
         /\ tx[p].pc \in {"captured", "failed", "markPaid"} => tx[p] \in HookTx
<1>1. tx[p] \in Tx
  BY DEF TypeOK, Tx
<1>2. QED
  BY <1>1 DEF Tx, SaveTx, PayTx, ResolveTx, HookTx, PlainTx

\* No row that is there is taken away, and the log only gets longer.
Grows == /\ Len(history') >= Len(history)
         /\ payment # NONE => payment' # NONE

\* What the others have in hand stays good while the state grows.
LEMMA OthersHand ==
  ASSUME TypeInv, Grows, NEW q \in Procs, tx'[q] = tx[q], history' \in Seq(OrderStatus)
  PROVE  HandInv(q)'
<1>1. HandInv(q) /\ history \in Seq(OrderStatus)
  BY DEF TypeInv, TypeOK
<1>2. tx[q].pc \in {"select", "update"} => tx[q].seen \in Nat
  BY Kinds DEF TypeInv, SaveTx
<1>3. Len(history) \in Nat /\ Len(history') \in Nat
  BY <1>1
<1>4. QED
  BY <1>1, <1>2, <1>3 DEF Grows, HandInv

\* A step of p that brings it to t.
LEMMA StepHand ==
  ASSUME TypeInv, Grows, NEW p \in Procs, NEW t \in Tx,
         tx' = [tx EXCEPT ![p] = t], history' \in Seq(OrderStatus), HandInv(p)'
  PROVE  /\ tx' \in [Procs -> Tx]
         /\ \A q \in Procs : HandInv(q)'
<1>1. tx \in [Procs -> Tx]
  BY DEF TypeInv, TypeOK, Tx
<1>2. \A q \in Procs \ {p} : tx'[q] = tx[q]
  BY <1>1
<1>3. ASSUME NEW q \in Procs PROVE HandInv(q)'
  BY <1>2, <1>3, OthersHand
<1>4. QED
  BY <1>1, <1>3

LEMMA GotoLabel ==
  ASSUME TypeOK, NEW p \in Procs, NEW label, Goto(p, label)
  PROVE  tx'[p].pc = label
<1>1. tx[p] \in Tx
  BY DEF TypeOK, Tx
<1>2. "pc" \in DOMAIN tx[p]
  BY <1>1 DEF Tx, SaveTx, PayTx, ResolveTx, HookTx, PlainTx
<1>3. QED
  BY <1>2 DEF Goto, TypeOK

LEMMA IdleIsPlain == Idle \in PlainTx
  BY DEF Idle, PlainTx

\* A request that ends holds nothing.
LEMMA DoneHand ==
  ASSUME TypeInv, Grows, NEW p \in Procs, Done(p), history' \in Seq(OrderStatus)
  PROVE  /\ tx' \in [Procs -> Tx]
         /\ \A q \in Procs : HandInv(q)'
<1>1. tx'[p] = Idle /\ tx' = [tx EXCEPT ![p] = Idle]
  BY DEF Done, TypeInv, TypeOK
<1>2. HandInv(p)'
  BY <1>1 DEF HandInv, Idle
<1>3. QED
  BY <1>1, <1>2, IdleIsPlain, StepHand DEF Tx

\* A step that only brings p to t.
LEMMA QuietTypes ==
  ASSUME TypeInv, NEW p \in Procs, NEW t \in Tx, tx' = [tx EXCEPT ![p] = t],
         UNCHANGED <<orderRow, payment, requests, razorpay>>, HandInv(p)'
  PROVE  TypeInv'
<1> USE DEF orderRow, requests, razorpay
<1>1. Grows /\ history' \in Seq(OrderStatus)
  BY DEF Grows, TypeInv, TypeOK
<1>2. tx' \in [Procs -> Tx] /\ \A q \in Procs : HandInv(q)'
  BY <1>1, StepHand
<1>3. QED
  BY <1>2 DEF TypeInv, TypeOK, Tx

\* A request that ends and has changed nothing.
LEMMA QuietEndTypes ==
  ASSUME TypeInv, NEW p \in Procs, Done(p),
         UNCHANGED <<orderRow, payment, requests, razorpay>>
  PROVE  TypeInv'
<1> USE DEF orderRow, requests, razorpay
<1>1. Grows /\ history' \in Seq(OrderStatus)
  BY DEF Grows, TypeInv, TypeOK
<1>2. tx' \in [Procs -> Tx] /\ \A q \in Procs : HandInv(q)'
  BY <1>1, DoneHand
<1>3. QED
  BY <1>2 DEF TypeInv, TypeOK, Tx

\* The arrival of a request that holds nothing but its label and parameters.
LEMMA PlainTypes ==
  ASSUME TypeInv, NEW p \in Procs, NEW t \in PlainTx \cup ResolveTx \cup HookTx,
         tx' = [tx EXCEPT ![p] = t],
         UNCHANGED <<orderRow, payment, requests, razorpay>>
  PROVE  TypeInv'
<1>1. tx'[p] = t
  BY DEF TypeInv, TypeOK
<1>2. t.pc \notin {"select", "update", "fetchIntent", "createIntent",
                  "selectPayment", "updatePayment"}
  BY DEF PlainTx, ResolveTx, HookTx
<1>3. HandInv(p)'
  BY <1>1, <1>2 DEF HandInv
<1>4. QED
  BY <1>3, QuietTypes DEF Tx

-----------------------------------------------------------------------------
(* The arrivals.                                                           *)

LEMMA LoadedTypes ==
  ASSUME TypeInv, NEW p \in Procs, NEW to \in OrderStatus,
         NEW paid \in {"pending", "paid", "failed"},
         NEW pay \in {payment, NotLoaded},
         Arrive(p, Loaded(to, paid, pay)),
         UNCHANGED <<orderRow, payment, requests, razorpay>>
  PROVE  TypeInv'
<1>1. PICK t : t = Loaded(to, paid, pay)
  OBVIOUS
<1>2. Len(history) \in Nat /\ history \in Seq(OrderStatus)
  BY DEF TypeInv, TypeOK
<1>3. pay \in PaymentRow \cup {NONE, NotLoaded}
  BY DEF TypeInv, TypeOK
<1>4. t \in SaveTx
  BY <1>1, <1>2, <1>3 DEF Loaded, SaveTx
<1>5. tx' = [tx EXCEPT ![p] = t] /\ tx'[p] = t
  BY <1>1 DEF Arrive, TypeInv, TypeOK
<1>6. history' = history /\ payment' = payment
  BY DEF orderRow
<1>7. /\ t.pc = "select" /\ t.seen = Len(history)
      /\ t.pay \in PaymentRow => payment # NONE
  BY <1>1, NothingAssumption DEF Loaded
<1>8. HandInv(p)'
  BY <1>5, <1>6, <1>7, <1>2 DEF HandInv
<1>9. QED
  BY <1>4, <1>5, <1>8, QuietTypes DEF Tx

LEMMA RequestTypes ==
  ASSUME TypeInv, NEW p \in Procs, Request(p)
  PROVE  TypeInv'
<1> USE DEF TypeInv, TypeOK
<1>1. ASSUME NEW to \in AdminTargets, UpdateOrderStatus(p, to) PROVE TypeInv'
  <2>1. to \in OrderStatus
    BY PathsAssumption
  <2>2. PICK paid \in {"pending", "paid", "failed"} :
          Arrive(p, Loaded(to, paid, NotLoaded))
    BY <1>1 DEF UpdateOrderStatus
  <2>3. UNCHANGED <<orderRow, payment, requests, razorpay>>
    BY <1>1 DEF UpdateOrderStatus
  <2>4. QED
    BY <2>1, <2>2, <2>3, LoadedTypes
<1>2. CASE RequestCancellation(p)
  <2>1. "cancelled" \in OrderStatus
    BY DEF OrderStatus
  <2>2. QED
    BY <1>2, <2>1, LoadedTypes DEF RequestCancellation
<1>3. CASE CreateReturnRequest(p)
  <2>1. [pc |-> "checkReturns"] \in PlainTx
    BY DEF PlainTx
  <2>2. QED
    BY <1>3, <2>1, PlainTypes DEF CreateReturnRequest, Arrive
<1>4. CASE CreateCancellationRequest(p)
  <2>1. [pc |-> "checkCancels"] \in PlainTx
    BY DEF PlainTx
  <2>2. QED
    BY <1>4, <2>1, PlainTypes DEF CreateCancellationRequest, Arrive
<1>5. ASSUME NEW r \in ReturnIds, NEW verdict \in {"approved", "rejected"},
             ResolveReturnRequest(p, r, verdict)
      PROVE  TypeInv'
  <2>1. [pc |-> "saveReturn", id |-> r, verdict |-> verdict] \in ResolveTx
    BY DEF ResolveTx
  <2>2. QED
    BY <1>5, <2>1, PlainTypes DEF ResolveReturnRequest, Arrive
<1>6. ASSUME NEW c \in CancelIds, NEW verdict \in {"approved", "rejected"},
             ResolveCancellationRequest(p, c, verdict)
      PROVE  TypeInv'
  <2>1. [pc |-> "saveCancel", id |-> c, verdict |-> verdict] \in ResolveTx
    BY DEF ResolveTx
  <2>2. QED
    BY <1>6, <2>1, PlainTypes DEF ResolveCancellationRequest, Arrive
<1>7. CASE InitiatePayment(p)
  <2>1. [pc |-> "findPayment"] \in PlainTx
    BY DEF PlainTx
  <2>2. QED
    BY <1>7, <2>1, PlainTypes DEF InitiatePayment, Arrive
<1>8. ASSUME NEW k \in Charges, VerifyPayment(p, k) PROVE TypeInv'
  <2>1. PICK t : t = [pc |-> "selectPayment", op |-> "verify", pay |-> payment, cols |-> {},
                      row |-> [intent |-> payment.intent, id |-> k, status |-> "paid"]]
    OBVIOUS
  <2>2. payment \in PaymentRow /\ payment # NONE
    BY <1>8 DEF VerifyPayment
  <2>3. t.row \in PaymentRow
    BY <2>1, <2>2 DEF PaymentRow
  <2>4. t \in PayTx /\ t.row # NONE
    BY <2>1, <2>2, <2>3, NothingAssumption DEF PayTx, Fields
  <2>5. tx' = [tx EXCEPT ![p] = t] /\ tx'[p] = t /\ payment' = payment
    BY <1>8, <2>1 DEF VerifyPayment, Arrive
  <2>6. HandInv(p)'
    BY <2>1, <2>2, <2>4, <2>5 DEF HandInv
  <2>7. QED
    BY <1>8, <2>4, <2>5, <2>6, QuietTypes DEF VerifyPayment, Tx
<1>9. ASSUME NEW k \in Charges, Hook(p, k) PROVE TypeInv'
  <2>1. [pc |-> IF charge[k].ok THEN "captured" ELSE "failed", id |-> k] \in HookTx
    BY DEF HookTx
  <2>2. QED
    BY <1>9, <2>1, PlainTypes DEF Hook, Arrive
<1>10. QED
  BY <1>1, <1>2, <1>3, <1>4, <1>5, <1>6, <1>7, <1>8, <1>9 DEF Request

-----------------------------------------------------------------------------
(* The statements.                                                         *)

\* manager.save adds one row to the log, however old its copy of it is.
LEMMA SaveAppends ==
  ASSUME TypeInv, NEW p \in Procs, SaveUpdate(p)
  PROVE  tx[p].to \in OrderStatus /\ history' = Append(history, tx[p].to)
<1>1. tx[p] \in SaveTx /\ HandInv(p) /\ tx[p].pc = "update"
  BY Kinds DEF TypeInv, SaveUpdate, At
<1>2. PICK n : n = tx[p].seen
  OBVIOUS
<1>3. n \in Nat /\ n = tx[p].rows /\ n <= Len(history) /\ tx[p].to \in OrderStatus
  BY <1>1, <1>2 DEF HandInv, SaveTx
<1>4. history \in Seq(OrderStatus)
  BY DEF TypeInv, TypeOK
<1>5. history' = SubSeq(history, 1, n) \o SubSeq(history, n + 1, Len(history)) \o <<tx[p].to>>
  BY <1>2, <1>3 DEF SaveUpdate
<1>6. SubSeq(history, 1, n) \o SubSeq(history, n + 1, Len(history)) = history
  <2>1. /\ Len(history) \in Nat
        /\ 1 \in 1 .. Len(history) + 1 /\ n \in 1 - 1 .. Len(history)
        /\ Len(history) \in n .. Len(history)
    BY <1>3, <1>4
  <2>2. QED
    BY <1>4, <2>1, ConcatAdjacentSubSeq, SubSeqFull, Zenon
<1>7. history \o <<tx[p].to>> = Append(history, tx[p].to)
  BY <1>3, <1>4
<1>8. QED
  BY <1>3, <1>5, <1>6, <1>7

LEMMA SaveSelectTypes ==
  ASSUME TypeInv, NEW p \in Procs, SaveSelect(p)
  PROVE  TypeInv'
<1>1. UNCHANGED <<orderRow, payment, requests, razorpay>>
  BY DEF SaveSelect
<1>2. CASE OrphansRefused(tx[p])
  BY <1>1, <1>2, QuietEndTypes DEF SaveSelect
<1>3. CASE ~OrphansRefused(tx[p])
  <2> DEFINE t0 == tx[p]
             changed == {c \in {"to"} : t0.to # status}
                          \cup {c \in {"paid"} : t0.paid # paymentStatus}
                          \cup IF t0.pay \in {NONE, NotLoaded} \/ payment = NONE THEN {}
                               ELSE Differs(t0.pay, payment)
  <2>0. changed \in SUBSET Fields
    BY DEF Fields, Differs
  <2>1. PICK cols \in SUBSET Fields :
          tx' = [tx EXCEPT ![p].pc = "update", ![p].rows = Len(history), ![p].cols = cols]
    BY <1>3, <2>0 DEF SaveSelect
  <2>2. tx[p] \in SaveTx /\ HandInv(p) /\ tx[p].pc = "select"
    BY Kinds DEF TypeInv, SaveSelect, At
  <2>3. history \in Seq(OrderStatus) /\ Len(history) \in Nat
    BY DEF TypeInv, TypeOK
  <2>4. PICK t : t = [tx[p] EXCEPT !.pc = "update", !.rows = Len(history), !.cols = cols]
    OBVIOUS
  <2>5. t \in SaveTx /\ t.pc = "update" /\ t.seen = tx[p].seen /\ t.pay = tx[p].pay
        /\ t.rows = Len(history)
    BY <2>1, <2>2, <2>3, <2>4 DEF SaveTx
  <2>6. tx' = [tx EXCEPT ![p] = t] /\ tx'[p] = t
    BY <2>1, <2>4 DEF TypeInv, TypeOK
  <2>7. t.seen = t.rows
    <3>1. tx[p].seen <= Len(history) /\ ~(Len(history) > tx[p].seen) /\ tx[p].seen \in Nat
      BY <1>3, <2>2 DEF OrphansRefused, HandInv, SaveTx
    <3>2. QED
      BY <3>1, <2>3, <2>5
  <2>8. HandInv(p)'
    BY <1>1, <2>2, <2>5, <2>6, <2>7 DEF HandInv, orderRow
  <2>9. QED
    BY <1>1, <2>5, <2>6, <2>8, QuietTypes DEF Tx
<1>4. QED
  BY <1>2, <1>3

\* A row that is overwritten by columns of another is a row.
LEMMA OverwriteType ==
  ASSUME NEW r \in PaymentRow, NEW old \in PaymentRow, NEW cols
  PROVE  Overwrite(r, cols, old) \in PaymentRow
<1>1. Overwrite(r, cols, old) =
        [c \in {"intent", "id", "status"} |-> IF c \in cols THEN old[c] ELSE r[c]]
  BY DEF Overwrite
<1>2. /\ Overwrite(r, cols, old).intent \in Intents
      /\ Overwrite(r, cols, old).id \in Charges \cup {NONE}
      /\ Overwrite(r, cols, old).status \in {"created", "paid"}
  BY <1>1 DEF PaymentRow
<1>3. Overwrite(r, cols, old) =
        [intent |-> Overwrite(r, cols, old).intent, id |-> Overwrite(r, cols, old).id,
         status |-> Overwrite(r, cols, old).status]
  BY <1>1
<1>4. QED
  BY <1>2, <1>3 DEF PaymentRow

LEMMA SaveUpdateTypes ==
  ASSUME TypeInv, NEW p \in Procs, SaveUpdate(p)
  PROVE  TypeInv'
<1>1. tx[p] \in SaveTx /\ HandInv(p)
  BY Kinds DEF TypeInv, SaveUpdate, At
<1>2. history' \in Seq(OrderStatus) /\ Len(history') = Len(history) + 1
      /\ Len(history) \in Nat
  BY SaveAppends DEF TypeInv, TypeOK
<1>3. status' \in OrderStatus /\ paymentStatus' \in {"pending", "paid", "failed"}
  BY <1>1 DEF SaveUpdate, SaveTx, TypeInv, TypeOK
<1>4. payment' \in PaymentRow \cup {NONE} /\ (payment # NONE => payment' # NONE)
  <2>1. CASE tx[p].pay \in {NONE, NotLoaded}
    BY <2>1 DEF SaveUpdate, TypeInv, TypeOK
  <2>2. CASE tx[p].pay \notin {NONE, NotLoaded}
    <3>1. tx[p].pay \in PaymentRow
      BY <1>1, <2>2 DEF SaveTx
    <3>2. payment \in PaymentRow
      BY <1>1, <3>1 DEF HandInv, SaveUpdate, At, TypeInv, TypeOK
    <3>3. payment' = Overwrite(payment, tx[p].cols, tx[p].pay)
      BY <2>2 DEF SaveUpdate
    <3>4. QED
      BY <3>1, <3>2, <3>3, OverwriteType, NothingAssumption
  <2>3. QED
    BY <2>1, <2>2
<1>5. tx' \in [Procs -> Tx] /\ \A q \in Procs : HandInv(q)'
  BY <1>2, <1>4, DoneHand DEF SaveUpdate, Grows
<1>6. QED
  BY <1>2, <1>3, <1>4, <1>5 DEF SaveUpdate, TypeInv, TypeOK, Tx, requests, razorpay

LEMMA ReturnTypes ==
  ASSUME TypeInv, NEW p \in Procs,
         \/ CheckReturns(p) \/ InsertReturn(p)
         \/ SaveReturn(p) \/ MarkReturned(p) \/ LogReturned(p)
  PROVE  TypeInv'
<1> USE DEF orderRow, requests, razorpay
<1>1. history \in Seq(OrderStatus) /\ Len(history) \in Nat
  BY DEF TypeInv, TypeOK
<1>2. "return_requested" \in OrderStatus /\ "returned" \in OrderStatus
  BY DEF OrderStatus
<1>3. CASE CheckReturns(p)
  <2>1. CASE Done(p)
    BY <1>3, <2>1, QuietEndTypes DEF CheckReturns
  <2>2. CASE Goto(p, "insertReturn")
    <3>1. tx[p] \in PlainTx
      BY <1>3 DEF CheckReturns, At, TypeInv, TypeOK, SaveTx, PayTx, ResolveTx, HookTx
    <3>2. [tx[p] EXCEPT !.pc = "insertReturn"] \in PlainTx
      BY <3>1 DEF PlainTx
    <3>3. QED
      BY <1>3, <2>2, <3>2, PlainTypes DEF CheckReturns, Goto
  <2>3. QED
    BY <1>3, <2>1, <2>2 DEF CheckReturns
<1>4. CASE InsertReturn(p)
  <2>1. /\ history' \in Seq(OrderStatus) /\ Grows
    BY <1>1, <1>2, <1>4 DEF InsertReturn, Grows
  <2>2. tx' \in [Procs -> Tx] /\ \A q \in Procs : HandInv(q)'
    BY <1>4, <2>1, DoneHand DEF InsertReturn
  <2>3. returns' \in [ReturnIds -> RequestStatus]
    BY <1>4 DEF InsertReturn, TypeInv, TypeOK, RequestStatus
  <2>4. QED
    BY <1>2, <1>4, <2>1, <2>2, <2>3 DEF InsertReturn, TypeInv, TypeOK, Tx
<1>5. CASE SaveReturn(p)
  <2>1. tx[p] \in [pc: {"saveReturn", "markReturned", "logReturned"}, id: ReturnIds,
                   verdict: {"approved", "rejected"}]
    BY <1>5, Kinds DEF SaveReturn, At, TypeInv, ResolveTx
  <2>2. Grows /\ history' \in Seq(OrderStatus)
    BY <1>1, <1>5 DEF SaveReturn, Grows
  <2>3. tx' \in [Procs -> Tx] /\ \A q \in Procs : HandInv(q)'
    <3>1. CASE Done(p)
      BY <2>2, <3>1, DoneHand
    <3>2. CASE Goto(p, "markReturned")
      <4>1. PICK t : t = [tx[p] EXCEPT !.pc = "markReturned"]
        OBVIOUS
      <4>2. t \in Tx /\ t.pc = "markReturned"
        BY <2>1, <4>1 DEF Tx, ResolveTx
      <4>3. tx' = [tx EXCEPT ![p] = t] /\ tx'[p] = t
        BY <3>2, <4>1 DEF Goto, TypeInv, TypeOK
      <4>4. HandInv(p)'
        BY <4>2, <4>3 DEF HandInv
      <4>5. QED
        BY <2>2, <4>2, <4>3, <4>4, StepHand
    <3>3. QED
      BY <1>5, <3>1, <3>2 DEF SaveReturn
  <2>4. returns' \in [ReturnIds -> RequestStatus]
    BY <1>5, <2>1 DEF SaveReturn, TypeInv, TypeOK, RequestStatus
  <2>5. QED
    BY <1>5, <2>3, <2>4 DEF SaveReturn, TypeInv, TypeOK, Tx
<1>6. CASE MarkReturned(p)
  <2>1. tx[p] \in [pc: {"saveReturn", "markReturned", "logReturned"}, id: ReturnIds,
                   verdict: {"approved", "rejected"}]
    BY <1>6, Kinds DEF MarkReturned, At, TypeInv, ResolveTx
  <2>2. Grows /\ history' \in Seq(OrderStatus)
    BY <1>1, <1>6 DEF MarkReturned, Grows
  <2>3. PICK t : t = [tx[p] EXCEPT !.pc = "logReturned"]
    OBVIOUS
  <2>4. t \in Tx /\ t.pc = "logReturned"
    BY <2>1, <2>3 DEF Tx, ResolveTx
  <2>5. tx' = [tx EXCEPT ![p] = t] /\ tx'[p] = t
    BY <1>6, <2>3 DEF MarkReturned, Goto, TypeInv, TypeOK
  <2>6. HandInv(p)'
    BY <2>4, <2>5 DEF HandInv
  <2>7. tx' \in [Procs -> Tx] /\ \A q \in Procs : HandInv(q)'
    BY <2>2, <2>4, <2>5, <2>6, StepHand
  <2>8. QED
    BY <1>2, <1>6, <2>7 DEF MarkReturned, TypeInv, TypeOK, Tx
<1>7. CASE LogReturned(p)
  <2>1. /\ history' \in Seq(OrderStatus) /\ Grows
    BY <1>1, <1>2, <1>7 DEF LogReturned, Grows
  <2>2. tx' \in [Procs -> Tx] /\ \A q \in Procs : HandInv(q)'
    BY <1>7, <2>1, DoneHand DEF LogReturned
  <2>3. QED
    BY <1>7, <2>1, <2>2 DEF LogReturned, TypeInv, TypeOK, Tx
<1>8. QED
  BY <1>3, <1>4, <1>5, <1>6, <1>7

LEMMA CancelTypes ==
  ASSUME TypeInv, NEW p \in Procs,
         CheckCancels(p) \/ InsertCancel(p) \/ SaveCancel(p)
  PROVE  TypeInv'
<1> USE DEF orderRow, requests, razorpay
<1>1. history \in Seq(OrderStatus) /\ Len(history) \in Nat /\ "cancelled" \in OrderStatus
  BY DEF TypeInv, TypeOK, OrderStatus
<1>2. CASE CheckCancels(p)
  <2>1. CASE Done(p)
    BY <1>2, <2>1, QuietEndTypes DEF CheckCancels
  <2>2. CASE Goto(p, "insertCancel")
    <3>1. tx[p] \in PlainTx
      BY <1>2 DEF CheckCancels, At, TypeInv, TypeOK, SaveTx, PayTx, ResolveTx, HookTx
    <3>2. [tx[p] EXCEPT !.pc = "insertCancel"] \in PlainTx
      BY <3>1 DEF PlainTx
    <3>3. QED
      BY <1>2, <2>2, <3>2, PlainTypes DEF CheckCancels, Goto
  <2>3. QED
    BY <1>2, <2>1, <2>2 DEF CheckCancels
<1>3. CASE InsertCancel(p)
  <2>1. /\ history' \in Seq(OrderStatus) /\ Grows
    BY <1>1, <1>3 DEF InsertCancel, Grows
  <2>2. tx' \in [Procs -> Tx] /\ \A q \in Procs : HandInv(q)'
    BY <1>3, <2>1, DoneHand DEF InsertCancel
  <2>3. cancels' \in [CancelIds -> RequestStatus]
    BY <1>3 DEF InsertCancel, TypeInv, TypeOK, RequestStatus
  <2>4. QED
    BY <1>3, <2>1, <2>2, <2>3 DEF InsertCancel, TypeInv, TypeOK, Tx
<1>4. CASE SaveCancel(p)
  <2>1. tx[p] \in [pc: {"saveCancel"}, id: CancelIds, verdict: {"approved", "rejected"}]
    BY <1>4, Kinds DEF SaveCancel, At, TypeInv, ResolveTx
  <2>2. /\ history' \in Seq(OrderStatus) /\ Grows
    BY <1>1, <1>4 DEF SaveCancel, Grows
  <2>3. tx' \in [Procs -> Tx] /\ \A q \in Procs : HandInv(q)'
    BY <1>4, <2>2, DoneHand DEF SaveCancel
  <2>4. cancels' \in [CancelIds -> RequestStatus] /\ status' \in OrderStatus
    BY <1>1, <1>4, <2>1 DEF SaveCancel, TypeInv, TypeOK, RequestStatus
  <2>5. QED
    BY <1>4, <2>2, <2>3, <2>4 DEF SaveCancel, TypeInv, TypeOK, Tx
<1>5. QED
  BY <1>2, <1>3, <1>4

-----------------------------------------------------------------------------
(* The statements about payments.                                          *)

\* A step of p that brings it to t and may change the payments row, Razorpay
\* and the order's status, but takes no row away.
LEMMA PaymentTypes ==
  ASSUME TypeInv, NEW p \in Procs, NEW t \in Tx, tx' = [tx EXCEPT ![p] = t],
         HandInv(p)', payment # NONE => payment' # NONE,
         status' \in OrderStatus, paymentStatus' \in {"pending", "paid", "failed"},
         payment' \in PaymentRow \cup {NONE}, UNCHANGED <<history, requests>>,
         intent' \in [Intents -> {"none", "created", "attempted", "paid"}],
         charge' \in [Charges -> Charge \cup {NONE}],
         offered' \subseteq Intents, hooks' \subseteq Charges
  PROVE  TypeInv'
<1> USE DEF requests
<1>1. Grows /\ history' \in Seq(OrderStatus)
  BY DEF Grows, TypeInv, TypeOK
<1>2. tx' \in [Procs -> Tx] /\ \A q \in Procs : HandInv(q)'
  BY <1>1, StepHand
<1>3. QED
  BY <1>2 DEF TypeInv, TypeOK, Tx

\* The same, of a request that ends.
LEMMA PaymentEndTypes ==
  ASSUME TypeInv, NEW p \in Procs, Done(p), payment # NONE => payment' # NONE,
         status' \in OrderStatus, paymentStatus' \in {"pending", "paid", "failed"},
         payment' \in PaymentRow \cup {NONE}, UNCHANGED <<history, requests>>,
         intent' \in [Intents -> {"none", "created", "attempted", "paid"}],
         charge' \in [Charges -> Charge \cup {NONE}],
         offered' \subseteq Intents, hooks' \subseteq Charges
  PROVE  TypeInv'
<1>1. Idle \in Tx /\ tx' = [tx EXCEPT ![p] = Idle] /\ tx'[p] = Idle
  BY IdleIsPlain DEF Tx, Done, TypeInv, TypeOK
<1>2. HandInv(p)'
  BY <1>1 DEF HandInv, Idle
<1>3. QED
  BY <1>1, <1>2, PaymentTypes

LEMMA InitiateTypes ==
  ASSUME TypeInv, NEW p \in Procs,
         FindPayment(p) \/ FetchIntent(p) \/ CreateIntent(p)
  PROVE  TypeInv'
<1> USE DEF orderRow, razorpay
<1>1. CASE FindPayment(p)
  <2>1. PICK t : t = [pc |-> IF payment # NONE /\ payment.status = "created"
                             THEN "fetchIntent" ELSE "createIntent",
                      op |-> "initiate", pay |-> payment, row |-> NONE, cols |-> {}]
    OBVIOUS
  <2>2. tx' = [tx EXCEPT ![p] = t] /\ payment' = payment
    BY <1>1, <2>1 DEF FindPayment
  <2>3. t \in PayTx
    BY <2>1 DEF PayTx, TypeInv, TypeOK
  <2>4. tx'[p] = t
    BY <2>2 DEF TypeInv, TypeOK
  <2>5. HandInv(p)'
    BY <2>1, <2>2, <2>4 DEF HandInv
  <2>6. QED
    BY <1>1, <2>2, <2>3, <2>5, QuietTypes DEF FindPayment, Tx
<1>2. CASE FetchIntent(p)
  <2>1. CASE Done(p)
    BY <1>2, <2>1, QuietEndTypes DEF FetchIntent
  <2>2. CASE Goto(p, "createIntent")
    <3>1. PICK t : t = [tx[p] EXCEPT !.pc = "createIntent"]
      OBVIOUS
    <3>2. tx[p] \in PayTx /\ HandInv(p) /\ tx[p].pc = "fetchIntent"
      BY <1>2, Kinds DEF FetchIntent, At, TypeInv
    <3>3. t \in PayTx /\ t.pay = tx[p].pay /\ t.pc = "createIntent"
      BY <3>1, <3>2 DEF PayTx
    <3>4. tx' = [tx EXCEPT ![p] = t] /\ tx'[p] = t
      BY <2>2, <3>1 DEF Goto, TypeInv, TypeOK
    <3>5. HandInv(p)'
      BY <1>2, <3>2, <3>3, <3>4 DEF HandInv, FetchIntent
    <3>6. QED
      BY <1>2, <3>3, <3>4, <3>5, QuietTypes DEF FetchIntent, Tx
  <2>3. QED
    BY <1>2, <2>1, <2>2 DEF FetchIntent
<1>3. CASE CreateIntent(p)
  <2>1. CASE Done(p) /\ UNCHANGED intent
    BY <1>3, <2>1, QuietEndTypes DEF CreateIntent
  <2>2. ASSUME NEW i \in Intents, intent' = [intent EXCEPT ![i] = "created"],
               tx' = [tx EXCEPT
                 ![p].pc = "selectPayment",
                 ![p].row = [intent |-> i, status |-> "created",
                             id |-> IF tx[p].pay = NONE THEN NONE ELSE tx[p].pay.id]]
        PROVE  TypeInv'
    <3>1. PICK row : row = [intent |-> i, status |-> "created",
                            id |-> IF tx[p].pay = NONE THEN NONE ELSE tx[p].pay.id]
      OBVIOUS
    <3>2. PICK t : t = [tx[p] EXCEPT !.pc = "selectPayment", !.row = row]
      OBVIOUS
    <3>3. tx[p] \in PayTx /\ HandInv(p) /\ tx[p].pc = "createIntent"
      BY <1>3, Kinds DEF CreateIntent, At, TypeInv
    <3>4. row \in PaymentRow /\ row # NONE
      <4>1. (IF tx[p].pay = NONE THEN NONE ELSE tx[p].pay.id) \in Charges \cup {NONE}
        BY <3>3 DEF PayTx, PaymentRow
      <4>2. row \in PaymentRow
        BY <3>1, <4>1 DEF PaymentRow
      <4>3. QED
        BY <4>2, NothingAssumption
    <3>5. /\ t \in PayTx /\ t.pay = tx[p].pay /\ t.pc = "selectPayment" /\ t.row = row
      BY <3>2, <3>3, <3>4 DEF PayTx
    <3>6. tx' = [tx EXCEPT ![p] = t]
      BY <2>2, <3>1, <3>2 DEF TypeInv, TypeOK
    <3>7. tx'[p] = t
      BY <3>6 DEF TypeInv, TypeOK
    <3>8. HandInv(p)'
      BY <1>3, <3>3, <3>4, <3>5, <3>7 DEF HandInv, CreateIntent
    <3>9. /\ status' \in OrderStatus /\ paymentStatus' \in {"pending", "paid", "failed"}
          /\ payment' = payment /\ payment' \in PaymentRow \cup {NONE}
          /\ charge' \in [Charges -> Charge \cup {NONE}]
          /\ offered' \subseteq Intents /\ hooks' \subseteq Charges
          /\ UNCHANGED <<history, requests>>
      BY <1>3 DEF CreateIntent, TypeInv, TypeOK
    <3>10. intent' \in [Intents -> {"none", "created", "attempted", "paid"}]
      BY <2>2 DEF TypeInv, TypeOK
    <3>11. t \in Tx
      BY <3>5 DEF Tx
    <3>12. QED
      BY <3>6, <3>8, <3>9, <3>10, <3>11, PaymentTypes
  <2>3. QED
    BY <1>3, <2>1, <2>2 DEF CreateIntent
<1>4. QED
  BY <1>1, <1>2, <1>3

LEMMA SelectPaymentTypes ==
  ASSUME TypeInv, NEW p \in Procs, SelectPayment(p)
  PROVE  TypeInv'
<1>1. PICK cols : cols = Differs(tx[p].row, payment)
  OBVIOUS
<1>2. cols \in SUBSET Fields
  BY <1>1 DEF Differs, Fields
<1>3. PICK t : t = [tx[p] EXCEPT !.pc = "updatePayment", !.cols = cols]
  OBVIOUS
<1>4. tx[p] \in PayTx /\ HandInv(p) /\ tx[p].pc = "selectPayment" /\ tx[p].pay # NONE
  BY Kinds DEF SelectPayment, At, TypeInv
<1>5. t \in PayTx /\ t.pay = tx[p].pay /\ t.pc = "updatePayment" /\ t.row = tx[p].row
  BY <1>2, <1>3, <1>4 DEF PayTx
<1>6. tx' = [tx EXCEPT ![p] = t] /\ tx'[p] = t
  BY <1>1, <1>3 DEF SelectPayment, TypeInv, TypeOK
<1>7. HandInv(p)'
  BY <1>4, <1>5, <1>6 DEF HandInv, SelectPayment
<1>8. QED
  BY <1>5, <1>6, <1>7, QuietTypes DEF SelectPayment, Tx

LEMMA UpdatePaymentTypes ==
  ASSUME TypeInv, NEW p \in Procs, UpdatePayment(p)
  PROVE  /\ payment \in PaymentRow /\ tx[p].row \in PaymentRow
         /\ TypeInv'
<1>1. tx[p] \in PayTx /\ HandInv(p) /\ tx[p].pc = "updatePayment"
  BY Kinds DEF UpdatePayment, At, TypeInv
<1>2. payment \in PaymentRow /\ tx[p].row \in PaymentRow
  BY <1>1 DEF HandInv, PayTx, TypeInv, TypeOK
<1>3. payment' \in PaymentRow /\ payment' # NONE
  <2>1. payment' = Overwrite(payment, tx[p].cols, tx[p].row)
    BY DEF UpdatePayment
  <2>2. QED
    BY <1>2, <2>1, OverwriteType, NothingAssumption
<1>4. /\ status' \in OrderStatus /\ paymentStatus' \in {"pending", "paid", "failed"}
      /\ charge' \in [Charges -> Charge \cup {NONE}]
      /\ intent' \in [Intents -> {"none", "created", "attempted", "paid"}]
      /\ hooks' \subseteq Charges
      /\ UNCHANGED <<history, requests>>
  BY DEF UpdatePayment, TypeInv, TypeOK, orderRow
<1>5. offered' \subseteq Intents
  BY <1>2 DEF UpdatePayment, PaymentRow, TypeInv, TypeOK
<1>6. CASE Done(p)
  BY <1>2, <1>3, <1>4, <1>5, <1>6, PaymentEndTypes
<1>7. CASE Goto(p, "confirm")
  <2>1. PICK t : t = [tx[p] EXCEPT !.pc = "confirm"]
    OBVIOUS
  <2>2. t \in PayTx /\ t.pc = "confirm"
    BY <1>1, <2>1 DEF PayTx
  <2>3. tx' = [tx EXCEPT ![p] = t] /\ tx'[p] = t /\ t \in Tx
    BY <1>7, <2>1, <2>2 DEF Goto, TypeInv, TypeOK, Tx
  <2>4. HandInv(p)'
    BY <2>2, <2>3 DEF HandInv
  <2>5. QED
    BY <1>2, <1>3, <1>4, <1>5, <2>3, <2>4, PaymentTypes
<1>8. QED
  BY <1>2, <1>6, <1>7 DEF UpdatePayment

LEMMA InsertPaymentTypes ==
  ASSUME TypeInv, NEW p \in Procs, InsertPayment(p)
  PROVE  tx[p].row \in PaymentRow /\ TypeInv'
<1>1. tx[p].row \in PaymentRow
  BY Kinds DEF InsertPayment, At, TypeInv, HandInv, PayTx
<1>2. /\ status' \in OrderStatus /\ paymentStatus' \in {"pending", "paid", "failed"}
      /\ charge' \in [Charges -> Charge \cup {NONE}]
      /\ intent' \in [Intents -> {"none", "created", "attempted", "paid"}]
      /\ hooks' \subseteq Charges /\ Done(p)
      /\ UNCHANGED <<history, requests>>
  BY DEF InsertPayment, TypeInv, TypeOK, orderRow
<1>3. /\ payment' \in PaymentRow \cup {NONE} /\ (payment # NONE => payment' # NONE)
      /\ offered' \subseteq Intents
  <2>1. CASE payment = NONE
    BY <1>1, <2>1 DEF InsertPayment, PaymentRow, TypeInv, TypeOK
  <2>2. CASE payment # NONE
    BY <2>2 DEF InsertPayment, TypeInv, TypeOK
  <2>3. QED
    BY <2>1, <2>2
<1>4. QED
  BY <1>1, <1>2, <1>3, PaymentEndTypes

LEMMA HookTypes ==
  ASSUME TypeInv, NEW p \in Procs,
         \/ Confirm(p) \/ HandlePaymentCaptured(p) \/ MarkPaid(p)
         \/ HandlePaymentFailed(p)
  PROVE  TypeInv'
<1> USE DEF orderRow, razorpay
<1>1. "confirmed" \in OrderStatus
  BY DEF OrderStatus
<1>2. CASE Confirm(p)
  BY <1>1, <1>2, PaymentEndTypes DEF Confirm, TypeInv, TypeOK
<1>3. CASE HandlePaymentCaptured(p)
  <2>1. PICK t : t = [tx[p] EXCEPT !.pc = "markPaid"]
    OBVIOUS
  <2>2. tx[p] \in HookTx
    BY <1>3, Kinds DEF HandlePaymentCaptured, At, TypeInv
  <2>3. t \in HookTx /\ t.pc = "markPaid"
    BY <2>1, <2>2 DEF HookTx
  <2>4. tx' = [tx EXCEPT ![p] = t] /\ tx'[p] = t /\ t \in Tx
    BY <1>3, <2>1, <2>3 DEF HandlePaymentCaptured, HookConfirms, Goto, TypeInv, TypeOK, Tx
  <2>5. HandInv(p)'
    BY <2>3, <2>4 DEF HandInv
  <2>6. /\ status' \in OrderStatus /\ paymentStatus' \in {"pending", "paid", "failed"}
        /\ payment' = payment /\ payment' \in PaymentRow \cup {NONE}
        /\ UNCHANGED <<history, requests>>
        /\ charge' \in [Charges -> Charge \cup {NONE}]
        /\ intent' \in [Intents -> {"none", "created", "attempted", "paid"}]
        /\ offered' \subseteq Intents /\ hooks' \subseteq Charges
    BY <1>1, <1>3 DEF HandlePaymentCaptured, HookConfirms, TypeInv, TypeOK
  <2>7. QED
    BY <2>4, <2>5, <2>6, PaymentTypes
<1>4. CASE MarkPaid(p)
  <2>1. payment' \in PaymentRow \cup {NONE} /\ (payment # NONE => payment' # NONE)
    <3>1. CASE payment # NONE /\ payment.id = tx[p].id
      <4>1. payment \in PaymentRow
        BY <3>1 DEF TypeInv, TypeOK
      <4>2. payment' = [payment EXCEPT !.status = "paid"]
        BY <1>4, <3>1 DEF MarkPaid
      <4>3. payment' \in PaymentRow
        BY <4>1, <4>2 DEF PaymentRow
      <4>4. QED
        BY <4>3, NothingAssumption
    <3>2. CASE ~(payment # NONE /\ payment.id = tx[p].id)
      BY <1>4, <3>2 DEF MarkPaid, TypeInv, TypeOK
    <3>3. QED
      BY <3>1, <3>2
  <2>2. /\ status' \in OrderStatus /\ paymentStatus' \in {"pending", "paid", "failed"}
        /\ Done(p) /\ UNCHANGED <<history, requests>>
        /\ charge' \in [Charges -> Charge \cup {NONE}]
        /\ intent' \in [Intents -> {"none", "created", "attempted", "paid"}]
        /\ offered' \subseteq Intents /\ hooks' \subseteq Charges
    BY <1>4 DEF MarkPaid, Acknowledge, TypeInv, TypeOK
  <2>3. QED
    BY <2>1, <2>2, PaymentEndTypes
<1>5. CASE HandlePaymentFailed(p)
  <2>1. /\ status' \in OrderStatus /\ paymentStatus' \in {"pending", "paid", "failed"}
        /\ Done(p) /\ UNCHANGED <<history, requests>>
        /\ payment' = payment /\ payment' \in PaymentRow \cup {NONE}
        /\ charge' \in [Charges -> Charge \cup {NONE}]
        /\ intent' \in [Intents -> {"none", "created", "attempted", "paid"}]
        /\ offered' \subseteq Intents /\ hooks' \subseteq Charges
    BY <1>5 DEF HandlePaymentFailed, Acknowledge, TypeInv, TypeOK
  <2>2. QED
    BY <2>1, PaymentEndTypes
<1>6. QED
  BY <1>2, <1>3, <1>4, <1>5

-----------------------------------------------------------------------------
(* Type correctness.                                                       *)

LEMMA StatementTypes ==
  ASSUME TypeInv, NEW p \in Procs, Statement(p)
  PROVE  TypeInv'
  BY SaveSelectTypes, SaveUpdateTypes, ReturnTypes, CancelTypes, InitiateTypes,
     SelectPaymentTypes, UpdatePaymentTypes, InsertPaymentTypes, HookTypes, Zenon
  DEF Statement

LEMMA PayTypes ==
  ASSUME TypeInv, NEW i \in Intents, NEW k \in Charges, NEW ok \in BOOLEAN, Pay(i, k, ok)
  PROVE  TypeInv'
<1>1. [intent |-> i, ok |-> ok] \in Charge
  BY DEF Charge
<1>2. charge' \in [Charges -> Charge \cup {NONE}]
  BY <1>1 DEF Pay, TypeInv, TypeOK
<1>3. intent' \in [Intents -> {"none", "created", "attempted", "paid"}] /\ hooks' \subseteq Charges
  BY DEF Pay, TypeInv, TypeOK
<1>4. Grows /\ \A p \in Procs : tx'[p] = tx[p]
  BY DEF Pay, Grows, orderRow, TypeInv, TypeOK
<1>5. history' \in Seq(OrderStatus)
  BY DEF Pay, orderRow, TypeInv, TypeOK
<1>6. \A p \in Procs : HandInv(p)'
  BY <1>4, <1>5, OthersHand
<1>7. QED
  BY <1>2, <1>3, <1>6 DEF Pay, TypeInv, TypeOK, orderRow, requests

LEMMA InitTypes == Init => TypeInv
<1> SUFFICES ASSUME Init PROVE TypeInv
  OBVIOUS
<1>1. history \in Seq(OrderStatus) /\ Len(history) \in Nat \ {0}
  BY PathsAssumption DEF Init
<1>2. status \in OrderStatus
  BY <1>1 DEF Init
<1>3. \A p \in Procs : HandInv(p)
  BY DEF Init, HandInv, Idle
<1>4. tx \in [Procs -> PlainTx]
  BY IdleIsPlain DEF Init
<1>5. QED
  BY <1>1, <1>2, <1>3, <1>4 DEF Init, TypeInv, TypeOK, RequestStatus

LEMMA NextTypes == TypeInv /\ [Next]_vars => TypeInv'
<1> SUFFICES ASSUME TypeInv, [Next]_vars PROVE TypeInv'
  OBVIOUS
<1>1. ASSUME NEW p \in Procs, Request(p) \/ Statement(p) \/ Fail(p) PROVE TypeInv'
  <2>1. CASE Fail(p)
    BY <2>1, QuietEndTypes DEF Fail
  <2>2. QED
    BY <1>1, <2>1, RequestTypes, StatementTypes
<1>2. CASE UNCHANGED vars
  BY <1>2 DEF vars, TypeInv, TypeOK, HandInv
<1>3. QED
  BY <1>1, <1>2, PayTypes DEF Next

(***************************************************************************)
(* Every variable has its type, whatever the number of requests that       *)
(* overlap (the order, payment, return and cancellation services).         *)
(***************************************************************************)
THEOREM TypeCorrect == Spec => []TypeOK
<1>1. TypeInv => TypeOK
  BY DEF TypeInv
<1>2. QED
  BY <1>1, InitTypes, NextTypes, PTL DEF Spec

-----------------------------------------------------------------------------
(* The log.                                                                *)

\* Every step leaves the log alone or adds one row to it.
Logs == history' = history \/ \E s \in OrderStatus : history' = Append(history, s)

LEMMA NextLogs ==
  ASSUME TypeInv, [Next]_vars
  PROVE  Logs
<1> USE DEF orderRow, Logs
<1>1. ASSUME NEW p \in Procs, Request(p) PROVE Logs
  BY <1>1 DEF Request, UpdateOrderStatus, RequestCancellation, CreateReturnRequest,
     CreateCancellationRequest, ResolveReturnRequest, ResolveCancellationRequest,
     InitiatePayment, VerifyPayment, Hook
<1>2. ASSUME NEW p \in Procs, SaveUpdate(p) PROVE Logs
  BY <1>2, SaveAppends
<1>3. ASSUME NEW p \in Procs, InsertReturn(p) \/ LogReturned(p) \/ SaveCancel(p)
      PROVE  Logs
  BY <1>3 DEF InsertReturn, LogReturned, SaveCancel, OrderStatus
<1>4. ASSUME NEW p \in Procs,
             \/ SaveSelect(p) \/ CheckReturns(p) \/ SaveReturn(p) \/ MarkReturned(p)
             \/ CheckCancels(p) \/ InsertCancel(p) \/ FindPayment(p) \/ FetchIntent(p)
             \/ CreateIntent(p) \/ SelectPayment(p) \/ UpdatePayment(p)
             \/ InsertPayment(p) \/ Confirm(p) \/ HandlePaymentCaptured(p)
             \/ MarkPaid(p) \/ HandlePaymentFailed(p) \/ Fail(p)
      PROVE  Logs
  BY <1>4 DEF SaveSelect, CheckReturns, SaveReturn, MarkReturned, CheckCancels,
     InsertCancel, FindPayment, FetchIntent, CreateIntent, SelectPayment,
     UpdatePayment, InsertPayment, Confirm, HandlePaymentCaptured, HookConfirms,
     MarkPaid, HandlePaymentFailed, Fail
<1>5. ASSUME NEW p \in Procs, Statement(p) PROVE Logs
  BY <1>2, <1>3, <1>4, <1>5 DEF Statement
<1>6. ASSUME NEW i \in Intents, NEW k \in Charges, NEW ok \in BOOLEAN, Pay(i, k, ok)
      PROVE  Logs
  BY <1>6 DEF Pay
<1>7. CASE UNCHANGED vars
  BY <1>7 DEF vars
<1>8. QED
  BY <1>1, <1>4, <1>5, <1>6, <1>7 DEF Next

(***************************************************************************)
(* order-status-history.entity.ts: the log is append-only, although every  *)
(* save of an order writes back the copy of it that the request loaded.    *)
(***************************************************************************)
THEOREM LogIsAppendOnly == Spec => AppendOnly
<1> DEFINE A == /\ Len(history') >= Len(history)
                /\ SubSeq(history', 1, Len(history)) = history
<1>1. ASSUME TypeInv, [Next]_vars PROVE A
  <2>1. history \in Seq(OrderStatus) /\ Len(history) \in Nat
    BY <1>1 DEF TypeInv, TypeOK
  <2>2. SubSeq(history, 1, Len(history)) = history
    BY <2>1, SubSeqFull
  <2>3. CASE history' = history
    BY <2>1, <2>2, <2>3
  <2>4. ASSUME NEW s \in OrderStatus, history' = Append(history, s) PROVE A
    <3>1. Len(history') = Len(history) + 1 /\ history' \in Seq(OrderStatus)
      BY <2>1, <2>4
    <3>2. SubSeq(history', 1, Len(history)) = history
      BY <2>1, <2>4
    <3>3. QED
      BY <2>1, <3>1, <3>2
  <2>5. QED
    BY <1>1, <2>3, <2>4, NextLogs DEF Logs
<1>2. QED
  BY <1>1, InitTypes, NextTypes, PTL DEF Spec, AppendOnly

-----------------------------------------------------------------------------
(* The milestones.                                                         *)

\* A step of p leaves the other requests alone.
OthersWait(p) == \A q \in Procs \ {p} : tx'[q] = tx[q]

LEMMA StepsAlone ==
  ASSUME TypeInv, NEW p \in Procs, Request(p) \/ Statement(p) \/ Fail(p)
  PROVE  OthersWait(p)
<1> USE DEF TypeInv, TypeOK, OthersWait, Arrive, Goto, Done
<1>1. CASE Request(p)
  BY <1>1 DEF Request, UpdateOrderStatus, RequestCancellation, CreateReturnRequest,
     CreateCancellationRequest, ResolveReturnRequest, ResolveCancellationRequest,
     InitiatePayment, VerifyPayment, Hook
<1>2. CASE Fail(p)
  BY <1>2 DEF Fail
<1>3. CASE SaveSelect(p) \/ SaveUpdate(p) \/ FindPayment(p) \/ FetchIntent(p)
  BY <1>3 DEF SaveSelect, SaveUpdate, FindPayment, FetchIntent
<1>4. CASE CreateIntent(p) \/ SelectPayment(p) \/ UpdatePayment(p) \/ InsertPayment(p)
  BY <1>4 DEF CreateIntent, SelectPayment, UpdatePayment, InsertPayment
<1>5. CASE CheckReturns(p) \/ InsertReturn(p) \/ SaveReturn(p) \/ MarkReturned(p)
             \/ LogReturned(p)
  BY <1>5 DEF CheckReturns, InsertReturn, SaveReturn, MarkReturned, LogReturned
<1>6. CASE CheckCancels(p) \/ InsertCancel(p) \/ SaveCancel(p)
  BY <1>6 DEF CheckCancels, InsertCancel, SaveCancel
<1>7. CASE \/ Confirm(p) \/ HandlePaymentCaptured(p) \/ MarkPaid(p)
          \/ HandlePaymentFailed(p)
  BY <1>7 DEF Confirm, HandlePaymentCaptured, HookConfirms, MarkPaid, HandlePaymentFailed
<1>8. CASE Statement(p)
  BY <1>3, <1>4, <1>5, <1>6, <1>7, <1>8 DEF Statement
<1>9. QED
  BY <1>1, <1>2, <1>8

\* The order went through all that comes before s.
Ready(s) == \A b \in Before[s] : Reached(b)

\* The log agrees, of each of its rows.
LogInOrder ==
  \A i \in DOMAIN history : \A b \in Before[history[i]] :
    \E j \in 1..(i - 1) : history[j] = b

Tracked == {"processing", "shipped", "delivered"}

AtReturn == {"checkReturns", "insertReturn", "saveReturn", "markReturned", "logReturned"}

(***************************************************************************)
(* A status that is about to be written, whenever that was decided, is one *)
(* whose milestones are all in the log, and the log forgets nothing.       *)
(***************************************************************************)
ReadyToWrite(p) ==
  /\ tx[p].pc \in {"select", "update"} => Ready(tx[p].to)
  /\ tx[p].pc \in AtReturn => Ready("returned")

MileInv ==
  /\ Ready(status)
  /\ status \in Tracked => Reached(status)
  /\ LogInOrder
  /\ \A r \in ReturnIds : returns[r] # "none" => Ready("returned")
  /\ \A p \in Procs : ReadyToWrite(p)

\* The table never skips a milestone.
LEMMA NoMilestoneSkipped ==
  ASSUME NEW s \in OrderStatus, NEW to \in OrderStatus, CanTransition(s, to),
         NEW b \in Before[to]
  PROVE  b \in Tracked /\ (b \in Before[s] \/ b = s)
  BY DEF OrderStatus, CanTransition, ValidTransitions, Before, Tracked

LEMMA ReachedForever ==
  ASSUME TypeInv, Logs, NEW s, Reached(s)
  PROVE  Reached(s)'
<1>1. PICK i \in DOMAIN history : history[i] = s
  BY DEF Reached
<1>2. history \in Seq(OrderStatus)
  BY DEF TypeInv, TypeOK
<1>3. CASE history' = history
  BY <1>1, <1>3 DEF Reached
<1>4. ASSUME NEW x \in OrderStatus, history' = Append(history, x) PROVE Reached(s)'
  <2>1. i \in DOMAIN history' /\ history'[i] = s
    BY <1>1, <1>2, <1>4
  <2>2. QED
    BY <2>1 DEF Reached
<1>5. QED
  BY <1>3, <1>4 DEF Logs

LEMMA ReadyForever ==
  ASSUME TypeInv, Logs
  PROVE  \A s : Ready(s) => Ready(s)'
  BY ReachedForever DEF Ready

\* A row whose milestones are in the log may follow.
LEMMA LogGrowsInOrder ==
  ASSUME TypeInv, LogInOrder, NEW s \in OrderStatus, Ready(s),
         history' = Append(history, s)
  PROVE  LogInOrder' /\ Reached(s)'
<1>1. history \in Seq(OrderStatus) /\ Len(history) \in Nat
  BY DEF TypeInv, TypeOK
<1>2. /\ DOMAIN history' = 1..(Len(history) + 1)
      /\ \A i \in 1..Len(history) : history'[i] = history[i]
      /\ history'[Len(history) + 1] = s
  BY <1>1
<1>3. DOMAIN history = 1..Len(history)
  BY <1>1
<1>4. Reached(s)'
  BY <1>1, <1>2 DEF Reached
<1>5. ASSUME NEW i \in DOMAIN history', NEW b \in Before[history'[i]]
      PROVE  \E j \in 1..(i - 1) : history'[j] = b
  <2>1. CASE i \in 1..Len(history)
    <3>1. PICK j \in 1..(i - 1) : history[j] = b
      BY <1>2, <1>3, <1>5, <2>1 DEF LogInOrder
    <3>2. history'[j] = b
      BY <1>1, <1>2, <2>1, <3>1
    <3>3. QED
      BY <3>2
  <2>2. CASE i = Len(history) + 1
    <3>1. b \in Before[s]
      BY <1>2, <1>5, <2>2
    <3>2. PICK j \in DOMAIN history : history[j] = b
      BY <3>1 DEF Ready, Reached
    <3>3. j \in 1..(i - 1) /\ history'[j] = b
      BY <1>1, <1>2, <1>3, <2>2, <3>2
    <3>4. QED
      BY <3>3
  <2>3. QED
    BY <1>1, <1>2, <1>5, <2>1, <2>2
<1>6. QED
  BY <1>4, <1>5 DEF LogInOrder

\* What a step of p must do to keep the milestones in order.
LEMMA MileStep ==
  ASSUME TypeInv, MileInv, NEW p \in Procs, OthersWait(p),
         \/ history' = history
         \/ \E s \in OrderStatus : Ready(s) /\ history' = Append(history, s),
         Ready(status'), status' \in Tracked => Reached(status') \/ Reached(status)',
         \A r \in ReturnIds : returns'[r] # "none" => returns[r] # "none" \/ Ready("returned"),
         ReadyToWrite(p)'
  PROVE  MileInv'
<1>1. Logs
  BY DEF Logs
<1>2. Ready(status)' /\ (status' \in Tracked => Reached(status)')
  <2>1. PICK s : s = status'
    OBVIOUS
  <2>2. Ready(s)' /\ (s \in Tracked => Reached(s)' \/ Reached(status)')
    BY <1>1, <2>1, ReadyForever, ReachedForever
  <2>3. QED
    BY <2>1, <2>2 DEF Ready, Reached
<1>3. LogInOrder'
  BY LogGrowsInOrder DEF MileInv, LogInOrder
<1>4. \A r \in ReturnIds : returns'[r] # "none" => Ready("returned")'
  BY <1>1, ReadyForever DEF MileInv
<1>5. ASSUME NEW q \in Procs \ {p} PROVE ReadyToWrite(q)'
  <2>1. tx'[q] = tx[q] /\ ReadyToWrite(q)
    BY <1>5 DEF OthersWait, MileInv
  <2>2. PICK to : to = tx[q].to
    OBVIOUS
  <2>3. Ready(to) => Ready(to)'
    BY <1>1, ReadyForever
  <2>4. Ready("returned") => Ready("returned")'
    BY <1>1, ReadyForever
  <2>5. QED
    BY <2>1, <2>2, <2>3, <2>4 DEF ReadyToWrite, Ready
<1>6. ReadyToWrite(p)'
  OBVIOUS
<1>7. QED
  BY <1>2, <1>3, <1>4, <1>5, <1>6 DEF MileInv

\* A step that writes nothing about the order.
LEMMA MileQuiet ==
  ASSUME TypeInv, MileInv, NEW p \in Procs, OthersWait(p),
         history' = history, status' = status, returns' = returns, ReadyToWrite(p)'
  PROVE  MileInv'
  BY MileStep DEF MileInv

LEMMA MileRequest ==
  ASSUME TypeInv, MileInv, NEW p \in Procs, Request(p)
  PROVE  MileInv'
<1>1. OthersWait(p)
  BY StepsAlone
<1>2. history' = history /\ status' = status /\ returns' = returns
  BY DEF orderRow, requests, Request, UpdateOrderStatus, RequestCancellation,
     CreateReturnRequest, CreateCancellationRequest, ResolveReturnRequest,
     ResolveCancellationRequest, InitiatePayment, VerifyPayment, Hook
<1>3. \A s : Ready(s)' <=> Ready(s)
  BY <1>2 DEF Ready, Reached
<1>4. ReadyToWrite(p)'
  <2> USE DEF Arrive, TypeInv, TypeOK
  <2>1. ASSUME NEW to \in AdminTargets, UpdateOrderStatus(p, to) PROVE ReadyToWrite(p)'
    <3>1. to \in OrderStatus /\ status \in OrderStatus
      BY PathsAssumption
    <3>2. Ready(to)
      BY <2>1, <3>1, NoMilestoneSkipped DEF UpdateOrderStatus, Ready, MileInv
    <3>3. tx'[p].pc = "select" /\ tx'[p].to = to
      BY <2>1 DEF UpdateOrderStatus, Loaded
    <3>4. QED
      BY <1>3, <3>2, <3>3 DEF ReadyToWrite, AtReturn
  <2>2. CASE RequestCancellation(p)
    <3>1. Ready("cancelled")
      BY DEF Ready, Before, OrderStatus
    <3>2. tx'[p].pc = "select" /\ tx'[p].to = "cancelled"
      BY <2>2 DEF RequestCancellation, Loaded
    <3>3. QED
      BY <1>3, <3>1, <3>2 DEF ReadyToWrite, AtReturn
  <2>3. CASE CreateReturnRequest(p)
    <3>1. Ready("delivered") /\ Reached("delivered")
      BY <2>3 DEF CreateReturnRequest, IsReturnable, MileInv, Tracked
    <3>2. Ready("returned")
      BY <3>1 DEF Ready, Before, OrderStatus
    <3>3. tx'[p].pc = "checkReturns"
      BY <2>3 DEF CreateReturnRequest
    <3>4. QED
      BY <1>3, <3>2, <3>3 DEF ReadyToWrite
  <2>4. ASSUME NEW r \in ReturnIds, NEW verdict \in {"approved", "rejected"},
               ResolveReturnRequest(p, r, verdict)
        PROVE  ReadyToWrite(p)'
    <3>1. Ready("returned")
      BY <2>4 DEF ResolveReturnRequest, MileInv
    <3>2. tx'[p].pc = "saveReturn"
      BY <2>4 DEF ResolveReturnRequest
    <3>3. QED
      BY <1>3, <3>1, <3>2 DEF ReadyToWrite
  <2>5. ASSUME NEW c \in CancelIds, NEW verdict \in {"approved", "rejected"},
               ResolveCancellationRequest(p, c, verdict)
        PROVE  ReadyToWrite(p)'
    BY <2>5 DEF ResolveCancellationRequest, ReadyToWrite, AtReturn
  <2>6. ASSUME NEW k \in Charges, VerifyPayment(p, k) \/ Hook(p, k)
        PROVE  ReadyToWrite(p)'
    BY <2>6 DEF VerifyPayment, Hook, ReadyToWrite, AtReturn
  <2>7. CASE CreateCancellationRequest(p) \/ InitiatePayment(p)
    BY <2>7 DEF CreateCancellationRequest, InitiatePayment, ReadyToWrite, AtReturn
  <2>8. QED
    BY <2>1, <2>2, <2>3, <2>4, <2>5, <2>6, <2>7 DEF Request
<1>5. QED
  BY <1>1, <1>2, <1>4, MileQuiet

LEMMA MileSave ==
  ASSUME TypeInv, MileInv, NEW p \in Procs, OthersWait(p), SaveSelect(p) \/ SaveUpdate(p)
  PROVE  MileInv'
<1> USE DEF TypeInv, TypeOK
<1>1. Ready(tx[p].to)
  BY DEF SaveSelect, SaveUpdate, At, MileInv, ReadyToWrite
<1>2. CASE SaveSelect(p)
  <2>1. tx[p] \in SaveTx
    BY <1>2, Kinds DEF SaveSelect, At
  <2>2. tx'[p] = Idle \/ (tx'[p].pc = "update" /\ tx'[p].to = tx[p].to)
    BY <1>2, <2>1 DEF SaveSelect, Done, SaveTx
  <2>3. history' = history /\ status' = status /\ returns' = returns
    BY <1>2 DEF SaveSelect, orderRow, requests
  <2>4. ReadyToWrite(p)'
    BY <1>1, <2>2, <2>3 DEF ReadyToWrite, Ready, Reached, Idle, AtReturn
  <2>5. QED
    BY <2>3, <2>4, MileQuiet
<1>3. CASE SaveUpdate(p)
  <2>1. tx'[p] = Idle
    BY <1>3 DEF SaveUpdate, Done
  <2>2. ReadyToWrite(p)'
    BY <2>1 DEF ReadyToWrite, Idle, AtReturn
  <2>3. tx[p].to \in OrderStatus /\ history' = Append(history, tx[p].to)
    BY <1>3, SaveAppends
  <2>4. status' \in {tx[p].to, status} /\ returns' = returns
    BY <1>3 DEF SaveUpdate, requests
  <2>5. Ready(status')
    BY <1>1, <2>4 DEF MileInv
  <2>6. status' \in Tracked => Reached(status') \/ Reached(status)'
    <3>1. CASE status' = tx[p].to
      <4>1. PICK s : s = tx[p].to
        OBVIOUS
      <4>2. Reached(s)'
        BY <1>1, <2>3, <4>1, LogGrowsInOrder DEF MileInv
      <4>3. QED
        BY <3>1, <4>1, <4>2 DEF Reached
    <3>2. CASE status' = status
      BY <3>2 DEF MileInv
    <3>3. QED
      BY <2>4, <3>1, <3>2
  <2>7. QED
    BY <1>1, <2>2, <2>3, <2>4, <2>5, <2>6, MileStep
<1>4. QED
  BY <1>2, <1>3

LEMMA MileReturns ==
  ASSUME TypeInv, MileInv, NEW p \in Procs, OthersWait(p),
         \/ CheckReturns(p) \/ InsertReturn(p)
         \/ SaveReturn(p) \/ MarkReturned(p) \/ LogReturned(p)
  PROVE  MileInv'
<1>1. Ready("returned") /\ Ready("return_requested")
  <2>1. Ready("returned")
    BY DEF CheckReturns, InsertReturn, SaveReturn, MarkReturned, LogReturned, At,
       MileInv, ReadyToWrite, AtReturn
  <2>2. QED
    BY <2>1 DEF Ready, Before, OrderStatus
<1>2. ReadyToWrite(p)'
  <2>1. Logs
    BY NextLogs DEF Next, Statement
  <2>2. Ready("returned")'
    BY <1>1, <2>1, ReadyForever
  <2>3. tx'[p].pc \in {"idle"} \cup AtReturn
    BY GotoLabel DEF CheckReturns, InsertReturn, SaveReturn, MarkReturned, LogReturned,
       Done, Idle, AtReturn, TypeInv, TypeOK
  <2>4. QED
    BY <2>2, <2>3 DEF ReadyToWrite, AtReturn
<1>3. \/ history' = history
      \/ \E s \in OrderStatus : Ready(s) /\ history' = Append(history, s)
  <2>1. "returned" \in OrderStatus /\ "return_requested" \in OrderStatus
    BY DEF OrderStatus
  <2>2. CASE InsertReturn(p) \/ LogReturned(p)
    BY <1>1, <2>1, <2>2 DEF InsertReturn, LogReturned
  <2>3. CASE CheckReturns(p) \/ SaveReturn(p) \/ MarkReturned(p)
    BY <2>3 DEF CheckReturns, SaveReturn, MarkReturned, orderRow
  <2>4. QED
    BY <2>2, <2>3
<1>4. /\ Ready(status')
      /\ status' \in Tracked => Reached(status')
  <2>1. status' \in {status, "returned", "return_requested"}
    BY DEF CheckReturns, InsertReturn, SaveReturn, MarkReturned, LogReturned, orderRow
  <2>2. QED
    BY <1>1, <2>1 DEF MileInv, Tracked
<1>5. \A r \in ReturnIds : returns'[r] # "none" => returns[r] # "none" \/ Ready("returned")
  BY <1>1
<1>6. QED
  BY <1>2, <1>3, <1>4, <1>5, MileStep, Zenon

\* Where the statements that are about neither saves nor returns lead.
LEMMA OtherLabels ==
  ASSUME TypeInv, NEW p \in Procs,
         \/ CheckCancels(p) \/ InsertCancel(p) \/ SaveCancel(p)
         \/ FindPayment(p) \/ FetchIntent(p) \/ CreateIntent(p)
         \/ SelectPayment(p) \/ UpdatePayment(p) \/ InsertPayment(p)
         \/ Confirm(p) \/ HandlePaymentCaptured(p) \/ MarkPaid(p)
         \/ HandlePaymentFailed(p) \/ Fail(p)
  PROVE  tx'[p].pc \in {"idle", "insertCancel", "fetchIntent", "createIntent",
                        "selectPayment", "updatePayment", "confirm", "markPaid"}
<1> USE GotoLabel DEF TypeInv, TypeOK, Done, Idle
<1>1. CASE CheckCancels(p) \/ InsertCancel(p) \/ SaveCancel(p) \/ Fail(p)
  BY <1>1 DEF CheckCancels, InsertCancel, SaveCancel, Fail
<1>2. CASE FindPayment(p) \/ FetchIntent(p)
  BY <1>2 DEF FindPayment, FetchIntent
<1>3. CASE CreateIntent(p)
  <2>1. CASE Done(p)
    BY <2>1
  <2>2. ASSUME NEW row, tx' = [tx EXCEPT ![p].pc = "selectPayment", ![p].row = row]
        PROVE  tx'[p].pc = "selectPayment"
    <3>1. tx[p] \in PayTx
      BY <1>3, Kinds DEF CreateIntent, At
    <3>2. QED
      BY <2>2, <3>1 DEF PayTx
  <2>3. QED
    BY <1>3, <2>1, <2>2 DEF CreateIntent
<1>4. CASE SelectPayment(p)
  <2>1. tx[p] \in PayTx
    BY <1>4, Kinds DEF SelectPayment, At
  <2>2. QED
    BY <1>4, <2>1 DEF SelectPayment, PayTx
<1>5. CASE UpdatePayment(p) \/ InsertPayment(p) \/ Confirm(p)
  BY <1>5 DEF UpdatePayment, InsertPayment, Confirm
<1>6. CASE HandlePaymentCaptured(p) \/ MarkPaid(p) \/ HandlePaymentFailed(p)
  BY <1>6 DEF HandlePaymentCaptured, HookConfirms, MarkPaid, HandlePaymentFailed
<1>7. QED
  BY <1>1, <1>2, <1>3, <1>4, <1>5, <1>6

LEMMA MileOthers ==
  ASSUME TypeInv, MileInv, NEW p \in Procs, OthersWait(p),
         \/ CheckCancels(p) \/ InsertCancel(p) \/ SaveCancel(p)
         \/ FindPayment(p) \/ FetchIntent(p) \/ CreateIntent(p)
         \/ SelectPayment(p) \/ UpdatePayment(p) \/ InsertPayment(p)
         \/ Confirm(p) \/ HandlePaymentCaptured(p) \/ MarkPaid(p)
         \/ HandlePaymentFailed(p) \/ Fail(p)
  PROVE  MileInv'
<1>1. Ready("cancelled") /\ Ready("confirmed") /\ "cancelled" \in OrderStatus
  BY DEF Ready, Before, OrderStatus
<1>2. ReadyToWrite(p)'
  BY OtherLabels DEF ReadyToWrite, AtReturn
<1>3. /\ history' = history
         \/ \E s \in OrderStatus : Ready(s) /\ history' = Append(history, s)
      /\ status' \in {status, "cancelled", "confirmed"}
      /\ returns' = returns
  <2> USE DEF orderRow, requests
  <2>1. CASE CheckCancels(p) \/ InsertCancel(p) \/ SaveCancel(p)
    BY <1>1, <2>1 DEF CheckCancels, InsertCancel, SaveCancel
  <2>2. CASE FindPayment(p) \/ FetchIntent(p) \/ CreateIntent(p)
             \/ SelectPayment(p) \/ UpdatePayment(p) \/ InsertPayment(p)
    BY <2>2 DEF FindPayment, FetchIntent, CreateIntent, SelectPayment, UpdatePayment,
       InsertPayment
  <2>3. CASE \/ Confirm(p) \/ HandlePaymentCaptured(p) \/ MarkPaid(p)
             \/ HandlePaymentFailed(p) \/ Fail(p)
    BY <2>3 DEF Confirm, HandlePaymentCaptured, HookConfirms, MarkPaid,
       HandlePaymentFailed, Fail
  <2>4. QED
    BY <2>1, <2>2, <2>3
<1>4. Ready(status') /\ (status' \in Tracked => Reached(status'))
  BY <1>1, <1>3 DEF MileInv, Tracked
<1>5. QED
  BY <1>2, <1>3, <1>4, MileStep, Zenon

LEMMA MileNext == TypeInv /\ MileInv /\ [Next]_vars => MileInv'
<1> SUFFICES ASSUME TypeInv, MileInv, [Next]_vars PROVE MileInv'
  OBVIOUS
<1>1. ASSUME NEW p \in Procs, Request(p) PROVE MileInv'
  BY <1>1, MileRequest
<1>2. ASSUME NEW p \in Procs, Statement(p) \/ Fail(p) PROVE MileInv'
  BY <1>2, StepsAlone, MileSave, MileReturns, MileOthers, Zenon DEF Statement
<1>3. ASSUME NEW i \in Intents, NEW k \in Charges, NEW ok \in BOOLEAN, Pay(i, k, ok)
      PROVE  MileInv'
  BY <1>3 DEF Pay, orderRow, requests, MileInv, Ready, Reached, LogInOrder, ReadyToWrite
<1>4. CASE UNCHANGED vars
  BY <1>4 DEF vars, MileInv, Ready, Reached, LogInOrder, ReadyToWrite
<1>5. QED
  BY <1>1, <1>2, <1>3, <1>4 DEF Next

\* A history that followed the table has its milestones in order.
LEMMA PathInOrder ==
  ASSUME NEW path \in InitialPaths
  PROVE  \A i \in DOMAIN path : \A b \in Before[path[i]] : \E j \in 1..(i - 1) : path[j] = b
<1>1. /\ path \in Seq(OrderStatus) /\ path[1] = "pending"
      /\ \A i \in 1..(Len(path) - 1) : CanTransition(path[i], path[i + 1])
  BY PathsAssumption
<1>2. DOMAIN path = 1..Len(path) /\ Len(path) \in Nat
      /\ \A i \in 1..Len(path) : path[i] \in OrderStatus
  BY <1>1
<1> DEFINE Good(i) == \A b \in Before[path[i]] : \E j \in 1..(i - 1) : path[j] = b
           Bad == {i \in DOMAIN path : ~Good(i)}
<1>3. SUFFICES ASSUME Bad # {} PROVE FALSE
  OBVIOUS
<1>4. Bad \subseteq Nat
  BY <1>2
<1>5. PICK i \in Bad : \A k \in Bad : ~(<<k, i>> \in OpToRel(<, Nat))
  BY <1>3, <1>4, NatLessThanWellFounded, WFMin, Zenon
<1>6. \A k \in Bad : ~(k < i)
  BY <1>4, <1>5 DEF OpToRel
<1>7. i \in 1..Len(path) /\ ~Good(i)
  BY <1>2, <1>5
<1>8. i # 1
  <2>1. Before["pending"] = {}
    BY DEF Before, OrderStatus
  <2>2. QED
    BY <1>1, <1>7, <2>1
<1>9. i - 1 \in 1..Len(path) /\ Good(i - 1)
  <2>1. i - 1 \in 1..Len(path) /\ i - 1 < i
    BY <1>2, <1>7, <1>8
  <2>2. i - 1 \notin Bad
    BY <1>6, <2>1
  <2>3. QED
    BY <1>2, <2>1, <2>2
<1>10. CanTransition(path[i - 1], path[i])
  <2>1. i - 1 \in 1..(Len(path) - 1) /\ (i - 1) + 1 = i
    BY <1>2, <1>7, <1>9
  <2>2. CanTransition(path[i - 1], path[(i - 1) + 1])
    BY <1>1, <2>1
  <2>3. QED
    BY <2>1, <2>2
<1>11. ASSUME NEW b \in Before[path[i]] PROVE \E j \in 1..(i - 1) : path[j] = b
  <2>1. b \in Before[path[i - 1]] \/ b = path[i - 1]
    BY <1>2, <1>7, <1>9, <1>10, <1>11, NoMilestoneSkipped
  <2>2. CASE b = path[i - 1]
    BY <1>2, <1>9, <2>2
  <2>3. CASE b \in Before[path[i - 1]]
    <3>1. PICK j \in 1..((i - 1) - 1) : path[j] = b
      BY <1>9, <2>3
    <3>2. j \in 1..(i - 1)
      BY <1>2, <1>7, <1>9, <3>1
    <3>3. QED
      BY <3>1, <3>2
  <2>4. QED
    BY <2>1, <2>2, <2>3
<1>12. QED
  BY <1>7, <1>11

LEMMA MileInit == Init => MileInv
<1> SUFFICES ASSUME Init PROVE MileInv
  OBVIOUS
<1>1. LogInOrder
  BY PathInOrder DEF Init, LogInOrder
<1>2. /\ history \in Seq(OrderStatus) /\ Len(history) \in Nat \ {0}
      /\ Len(history) \in DOMAIN history /\ status = history[Len(history)]
  BY PathsAssumption DEF Init
<1>3. Reached(status)
  BY <1>2 DEF Reached
<1>4. Ready(status)
  <2>1. ASSUME NEW b \in Before[status] PROVE Reached(b)
    <3>1. PICK j \in 1..(Len(history) - 1) : history[j] = b
      BY <1>1, <1>2, <2>1 DEF LogInOrder
    <3>2. j \in DOMAIN history
      BY <1>2, <3>1
    <3>3. QED
      BY <3>1, <3>2 DEF Reached
  <2>2. QED
    BY <2>1 DEF Ready
<1>5. \A p \in Procs : ReadyToWrite(p)
  BY DEF Init, ReadyToWrite, Idle, AtReturn
<1>6. \A r \in ReturnIds : returns[r] = "none"
  BY DEF Init
<1>7. QED
  BY <1>1, <1>3, <1>4, <1>5, <1>6 DEF MileInv

(***************************************************************************)
(* However the administrator's, the customer's and Razorpay's writes of    *)
(* orders.status overlap, are overwritten or are cut short, no order is    *)
(* shipped that was not packed, delivered that was not shipped, or         *)
(* returned that was not delivered.                                        *)
(***************************************************************************)
THEOREM MilestonesNeverSkipped == Spec => []MilestonesInOrder
<1>1. MileInv => MilestonesInOrder
  BY DEF MileInv, Ready, LogInOrder, MilestonesInOrder
<1>2. QED
  BY <1>1, InitTypes, NextTypes, MileInit, MileNext, PTL DEF Spec

-----------------------------------------------------------------------------
(* Money.                                                                  *)

AnyCaptured == \E k \in Charges : Captured(k)

Backed == Reached("delivered") \/ AnyCaptured

\* What a payments row, or a copy of one, says of the money is true.
RowBacked(row) ==
  /\ row.status = "paid" => AnyCaptured
  /\ row.id # NONE => Captured(row.id)

(***************************************************************************)
(* Every copy that a request may write back was true when it was made, and *)
(* a captured payment stays captured.                                      *)
(***************************************************************************)
WritesTruth(p) ==
  /\ tx[p].pc \in {"select", "update"} =>
       /\ (tx[p].paid = "paid" => Backed \/ tx[p].to = "delivered")
       /\ (tx[p].pay \in PaymentRow => RowBacked(tx[p].pay))
  /\ tx[p].pc \in {"fetchIntent", "createIntent"} =>
       /\ tx[p].op = "initiate"
       /\ (tx[p].pay \in PaymentRow => RowBacked(tx[p].pay))
  /\ tx[p].pc \in {"selectPayment", "updatePayment"} =>
       /\ (tx[p].op = "verify" => tx[p].row.status = "paid")
       /\ RowBacked(tx[p].row)
  /\ tx[p].pc = "confirm" => AnyCaptured
  /\ tx[p].pc \in {"captured", "markPaid"} => Captured(tx[p].id)

PaidInv ==
  /\ paymentStatus = "paid" => Backed
  /\ payment # NONE => RowBacked(payment)
  /\ \A k \in hooks : charge[k] # NONE
  /\ \A p \in Procs : WritesTruth(p)

\* Charges are never taken back.
ChargesStay == \A k \in Charges : charge[k] # NONE => charge'[k] = charge[k]

LEMMA TruthStays ==
  ASSUME TypeInv, Logs, ChargesStay
  PROVE  /\ AnyCaptured => AnyCaptured'
         /\ Backed => Backed'
         /\ \A k \in Charges : Captured(k) => Captured(k)'
         /\ \A row \in PaymentRow : RowBacked(row) => RowBacked(row)'
<1>1. \A k \in Charges : Captured(k) => Captured(k)'
  BY DEF ChargesStay, Captured
<1>2. AnyCaptured => AnyCaptured'
  BY <1>1 DEF AnyCaptured
<1>3. Backed => Backed'
  BY <1>2, ReachedForever DEF Backed
<1>4. ASSUME NEW row \in PaymentRow, RowBacked(row) PROVE RowBacked(row)'
  <2>1. row.id \in Charges \cup {NONE}
    BY DEF PaymentRow
  <2>2. QED
    BY <1>1, <1>2, <1>4, <2>1 DEF RowBacked
<1>5. QED
  BY <1>1, <1>2, <1>3, <1>4

\* What a request has in hand stays true.
LEMMA HandStaysTrue ==
  ASSUME TypeInv, PaidInv, Logs, ChargesStay, NEW q \in Procs, tx'[q] = tx[q]
  PROVE  WritesTruth(q)'
<1>1. WritesTruth(q)
  BY DEF PaidInv
<1>2. tx[q] \in Tx /\ HandInv(q)
  BY DEF TypeInv, TypeOK, Tx
<1>3. CASE tx[q].pc \in {"select", "update"}
  BY <1>1, <1>3, TruthStays DEF WritesTruth
<1>4. CASE tx[q].pc \in {"fetchIntent", "createIntent"}
  BY <1>1, <1>4, TruthStays DEF WritesTruth
<1>5. CASE tx[q].pc \in {"selectPayment", "updatePayment"}
  <2>1. tx[q].row \in PaymentRow
    BY <1>2, <1>5, Kinds DEF HandInv, PayTx, TypeInv
  <2>2. QED
    BY <1>1, <1>5, <2>1, TruthStays DEF WritesTruth
<1>6. CASE tx[q].pc = "confirm"
  BY <1>1, <1>6, TruthStays DEF WritesTruth
<1>7. CASE tx[q].pc \in {"captured", "markPaid"}
  <2>1. tx[q].id \in Charges
    BY <1>7, Kinds DEF HookTx, TypeInv
  <2>2. QED
    BY <1>1, <1>7, <2>1, TruthStays DEF WritesTruth
<1>8. CASE tx[q].pc \notin {"select", "update", "fetchIntent", "createIntent",
                           "selectPayment", "updatePayment", "confirm", "captured",
                           "markPaid"}
  BY <1>8 DEF WritesTruth
<1>9. QED
  BY <1>3, <1>4, <1>5, <1>6, <1>7, <1>8

\* What a step of p must do to keep the money true.
LEMMA PaidStep ==
  ASSUME TypeInv, PaidInv, NEW p \in Procs, OthersWait(p), Logs,
         charge' = charge, hooks' \subseteq hooks,
         paymentStatus' # paymentStatus => (paymentStatus' = "paid" => Backed'),
         payment' # payment => RowBacked(payment)', WritesTruth(p)'
  PROVE  PaidInv'
<1>1. ChargesStay
  BY DEF ChargesStay
<1>2. \A q \in Procs : WritesTruth(q)'
  BY <1>1, HandStaysTrue DEF OthersWait
<1>3. paymentStatus' = "paid" => Backed'
  BY <1>1, TruthStays DEF PaidInv
<1>4. payment' # NONE => RowBacked(payment)'
  <2>1. CASE payment' = payment
    <3>1. ASSUME payment # NONE PROVE RowBacked(payment)'
      <4>1. payment \in PaymentRow /\ RowBacked(payment)
        BY <3>1 DEF PaidInv, TypeInv, TypeOK
      <4>2. PICK row \in PaymentRow : row = payment
        BY <4>1
      <4>3. RowBacked(row)'
        BY <1>1, <4>1, <4>2, TruthStays
      <4>4. QED
        BY <2>1, <4>2, <4>3 DEF RowBacked
    <3>2. QED
      BY <2>1, <3>1
  <2>2. QED
    BY <2>1
<1>5. \A k \in hooks' : charge'[k] # NONE
  BY DEF PaidInv
<1>6. QED
  BY <1>2, <1>3, <1>4, <1>5 DEF PaidInv

\* A step that writes nothing about the money.
LEMMA PaidQuiet ==
  ASSUME TypeInv, PaidInv, NEW p \in Procs, OthersWait(p), Logs,
         charge' = charge, hooks' \subseteq hooks,
         paymentStatus' = paymentStatus, payment' = payment, WritesTruth(p)'
  PROVE  PaidInv'
  BY PaidStep

LEMMA PaidRequest ==
  ASSUME TypeInv, PaidInv, NEW p \in Procs, Request(p), OthersWait(p), Logs
  PROVE  PaidInv'
<1>1. /\ history' = history /\ charge' = charge /\ hooks' = hooks
      /\ paymentStatus' = paymentStatus /\ payment' = payment
  BY DEF orderRow, razorpay, Request, UpdateOrderStatus, RequestCancellation,
     CreateReturnRequest, CreateCancellationRequest, ResolveReturnRequest,
     ResolveCancellationRequest, InitiatePayment, VerifyPayment, Hook
<1>2. /\ AnyCaptured' <=> AnyCaptured
      /\ Backed' <=> Backed
      /\ \A k : Captured(k)' <=> Captured(k)
      /\ \A row : RowBacked(row)' <=> RowBacked(row)
  BY <1>1 DEF AnyCaptured, Captured, Backed, RowBacked, Reached
<1>3. WritesTruth(p)'
  <2> USE DEF Arrive, TypeInv, TypeOK
  <2>1. ASSUME NEW to \in AdminTargets, UpdateOrderStatus(p, to) PROVE WritesTruth(p)'
    <3>1. /\ tx'[p].pc = "select" /\ tx'[p].to = to /\ tx'[p].pay = NotLoaded
          /\ tx'[p].paid = IF to = "delivered" THEN "paid" ELSE paymentStatus
      BY <2>1 DEF UpdateOrderStatus, Loaded
    <3>2. tx'[p].paid = "paid" => Backed \/ tx'[p].to = "delivered"
      BY <3>1 DEF PaidInv
    <3>3. tx'[p].pay \notin PaymentRow
      BY <3>1, NothingAssumption
    <3>4. QED
      BY <1>2, <3>1, <3>2, <3>3 DEF WritesTruth
  <2>2. CASE RequestCancellation(p)
    <3>1. /\ tx'[p].pc = "select" /\ tx'[p].to = "cancelled" /\ tx'[p].pay = payment
          /\ tx'[p].paid = paymentStatus
      BY <2>2 DEF RequestCancellation, Loaded
    <3>2. payment \in PaymentRow => payment # NONE
      BY NothingAssumption
    <3>3. tx'[p].pay \in PaymentRow => RowBacked(tx'[p].pay)
      BY <3>1, <3>2 DEF PaidInv
    <3>4. tx'[p].paid = "paid" => Backed
      BY <3>1 DEF PaidInv
    <3>5. QED
      BY <1>2, <3>1, <3>3, <3>4 DEF WritesTruth
  <2>3. ASSUME NEW k \in Charges, VerifyPayment(p, k) PROVE WritesTruth(p)'
    <3>1. /\ tx'[p].pc = "selectPayment" /\ Captured(k)
          /\ tx'[p].row.id = k /\ tx'[p].row.status = "paid"
      BY <2>3 DEF VerifyPayment, Signed
    <3>2. AnyCaptured /\ RowBacked(tx'[p].row)
      BY <3>1 DEF AnyCaptured, RowBacked
    <3>3. QED
      BY <1>2, <3>1, <3>2 DEF WritesTruth
  <2>4. ASSUME NEW k \in Charges, Hook(p, k) PROVE WritesTruth(p)'
    <3>1. /\ tx'[p].id = k /\ charge[k] # NONE
          /\ tx'[p].pc = IF charge[k].ok THEN "captured" ELSE "failed"
      BY <2>4 DEF Hook, PaidInv
    <3>2. tx'[p].pc \in {"captured", "failed"} /\ (tx'[p].pc = "captured" => Captured(k))
      BY <3>1 DEF Captured
    <3>3. QED
      BY <1>2, <3>1, <3>2 DEF WritesTruth
  <2>5. CASE \/ CreateReturnRequest(p) \/ CreateCancellationRequest(p)
             \/ InitiatePayment(p)
             \/ \E r \in ReturnIds, verdict \in {"approved", "rejected"} :
                  ResolveReturnRequest(p, r, verdict)
             \/ \E c \in CancelIds, verdict \in {"approved", "rejected"} :
                  ResolveCancellationRequest(p, c, verdict)
    <3>1. tx'[p].pc \in {"checkReturns", "checkCancels", "findPayment", "saveReturn",
                         "saveCancel"}
      BY <2>5 DEF CreateReturnRequest, CreateCancellationRequest, InitiatePayment,
         ResolveReturnRequest, ResolveCancellationRequest
    <3>2. QED
      BY <3>1 DEF WritesTruth
  <2>6. QED
    BY <2>1, <2>2, <2>3, <2>4, <2>5 DEF Request
<1>4. QED
  BY <1>1, <1>3, PaidQuiet

\* Nothing is owed at the other labels.
LEMMA NothingToWrite ==
  ASSUME NEW p \in Procs,
         tx'[p].pc \in {"idle", "checkReturns", "insertReturn", "saveReturn", "markReturned",
                        "logReturned", "checkCancels", "insertCancel", "saveCancel"}
  PROVE  WritesTruth(p)'
  BY DEF WritesTruth

LEMMA PaidSave ==
  ASSUME TypeInv, PaidInv, NEW p \in Procs, SaveSelect(p) \/ SaveUpdate(p),
         OthersWait(p), Logs
  PROVE  PaidInv'
<1> USE DEF razorpay
<1>1. tx[p] \in SaveTx /\ WritesTruth(p) /\ tx[p].pc \in {"select", "update"}
  BY Kinds DEF SaveSelect, SaveUpdate, At, TypeInv, PaidInv
<1>2. charge' = charge /\ hooks' = hooks
  BY DEF SaveSelect, SaveUpdate
<1>3. ChargesStay
  BY <1>2 DEF ChargesStay
<1>4. CASE SaveSelect(p)
  <2>1. paymentStatus' = paymentStatus /\ payment' = payment
    BY <1>4 DEF SaveSelect, orderRow
  <2>2. \/ tx'[p] = Idle
        \/ /\ tx'[p].pc = "update" /\ tx'[p].to = tx[p].to
           /\ tx'[p].paid = tx[p].paid /\ tx'[p].pay = tx[p].pay
    BY <1>1, <1>4 DEF SaveSelect, Done, SaveTx, TypeInv, TypeOK
  <2>3. CASE tx'[p] = Idle
    BY <1>2, <2>1, <2>3, NothingToWrite, PaidQuiet DEF Idle
  <2>4. CASE /\ tx'[p].pc = "update" /\ tx'[p].to = tx[p].to
             /\ tx'[p].paid = tx[p].paid /\ tx'[p].pay = tx[p].pay
    <3>1. PICK t : t = tx[p]
      OBVIOUS
    <3>2. t.paid = "paid" => Backed' \/ t.to = "delivered"
      BY <1>1, <1>3, <3>1, TruthStays DEF WritesTruth
    <3>3. t.pay \in PaymentRow => RowBacked(t.pay)'
      BY <1>1, <1>3, <3>1, TruthStays DEF WritesTruth
    <3>4. WritesTruth(p)'
      BY <2>4, <3>1, <3>2, <3>3 DEF WritesTruth, RowBacked
    <3>5. QED
      BY <1>2, <2>1, <3>4, PaidQuiet
  <2>5. QED
    BY <2>2, <2>3, <2>4
<1>5. CASE SaveUpdate(p)
  <2>1. tx'[p].pc = "idle"
    BY <1>5 DEF SaveUpdate, Done, Idle, TypeInv, TypeOK
  <2>2. tx[p].to \in OrderStatus /\ history' = Append(history, tx[p].to)
    BY <1>5, SaveAppends
  <2>3. ASSUME paymentStatus' # paymentStatus, paymentStatus' = "paid" PROVE Backed'
    <3>1. tx[p].paid = "paid"
      BY <1>5, <2>3 DEF SaveUpdate
    <3>2. CASE Backed
      BY <1>3, <3>2, TruthStays
    <3>3. CASE tx[p].to = "delivered"
      <4>1. history \in Seq(OrderStatus)
        BY DEF TypeInv, TypeOK
      <4>2. history'[Len(history) + 1] = "delivered" /\ Len(history) + 1 \in DOMAIN history'
        BY <2>2, <3>3, <4>1
      <4>3. QED
        BY <4>2 DEF Backed, Reached
    <3>4. QED
      BY <1>1, <3>1, <3>2, <3>3 DEF WritesTruth
  <2>4. ASSUME payment' # payment PROVE RowBacked(payment)'
    <3>1. PICK old, row : old = payment /\ row = tx[p].pay
      OBVIOUS
    <3>2. tx[p].pay \notin {NONE, NotLoaded} /\ payment' = Overwrite(old, tx[p].cols, row)
      BY <1>5, <2>4, <3>1 DEF SaveUpdate
    <3>3. row \in PaymentRow /\ RowBacked(row)
      BY <1>1, <3>1, <3>2 DEF SaveTx, WritesTruth
    <3>4. old \in PaymentRow /\ RowBacked(old)
      BY <1>1, <1>5, <3>1, <3>3 DEF HandInv, SaveUpdate, At, PaidInv, TypeInv, TypeOK
    <3>5. RowBacked(old)' /\ RowBacked(row)'
      BY <1>3, <3>3, <3>4, TruthStays
    <3>6. payment'.status \in {old.status, row.status} /\ payment'.id \in {old.id, row.id}
      BY <3>2 DEF Overwrite
    <3>7. QED
      BY <3>5, <3>6 DEF RowBacked
  <2>5. WritesTruth(p)'
    BY <2>1, NothingToWrite
  <2>6. QED
    BY <1>2, <2>3, <2>4, <2>5, PaidStep
<1>6. QED
  BY <1>4, <1>5

LEMMA PaidInitiate ==
  ASSUME TypeInv, PaidInv, NEW p \in Procs,
         FindPayment(p) \/ FetchIntent(p) \/ CreateIntent(p) \/ SelectPayment(p),
         OthersWait(p), Logs
  PROVE  PaidInv'
<1> USE DEF razorpay, orderRow, TypeInv, TypeOK
<1>1. /\ charge' = charge /\ hooks' = hooks
      /\ paymentStatus' = paymentStatus /\ payment' = payment /\ history' = history
  BY DEF FindPayment, FetchIntent, CreateIntent, SelectPayment
<1>2. /\ AnyCaptured' <=> AnyCaptured
      /\ \A k : Captured(k)' <=> Captured(k)
      /\ \A row : RowBacked(row)' <=> RowBacked(row)
  BY <1>1 DEF AnyCaptured, Captured, RowBacked
<1>3. CASE FindPayment(p)
  <2>1. /\ tx'[p].pc \in {"fetchIntent", "createIntent"} /\ tx'[p].pay = payment
        /\ tx'[p].op = "initiate"
    BY <1>3 DEF FindPayment
  <2>2. tx'[p].pay \in PaymentRow => RowBacked(tx'[p].pay)
    BY <2>1, NothingAssumption DEF PaidInv
  <2>3. WritesTruth(p)'
    BY <1>2, <2>1, <2>2 DEF WritesTruth
  <2>4. QED
    BY <1>1, <2>3, PaidQuiet
<1>4. CASE FetchIntent(p)
  <2>1. tx[p] \in PayTx /\ tx[p].pc = "fetchIntent" /\ WritesTruth(p)
    BY <1>4, Kinds DEF FetchIntent, At, PaidInv
  <2>2. \/ tx'[p] = Idle
        \/ tx'[p].pc = "createIntent" /\ tx'[p].pay = tx[p].pay /\ tx'[p].op = tx[p].op
    BY <1>4, <2>1 DEF FetchIntent, Done, Goto, PayTx
  <2>3. CASE tx'[p] = Idle
    BY <1>1, <2>3, NothingToWrite, PaidQuiet DEF Idle
  <2>4. CASE /\ tx'[p].pc = "createIntent" /\ tx'[p].pay = tx[p].pay
             /\ tx'[p].op = tx[p].op
    <3>1. WritesTruth(p)'
      BY <1>2, <2>1, <2>4 DEF WritesTruth
    <3>2. QED
      BY <1>1, <3>1, PaidQuiet
  <2>5. QED
    BY <2>2, <2>3, <2>4
<1>5. CASE CreateIntent(p)
  <2>1. tx[p] \in PayTx /\ tx[p].pc = "createIntent" /\ WritesTruth(p)
    BY <1>5, Kinds DEF CreateIntent, At, PaidInv
  <2>2. CASE Done(p)
    BY <1>1, <2>2, NothingToWrite, PaidQuiet DEF Done, Idle
  <2>3. ASSUME NEW i \in Intents,
               tx' = [tx EXCEPT
                 ![p].pc = "selectPayment",
                 ![p].row = [intent |-> i, status |-> "created",
                             id |-> IF tx[p].pay = NONE THEN NONE ELSE tx[p].pay.id]]
        PROVE  PaidInv'
    <3>1. PICK row : row = [intent |-> i, status |-> "created",
                            id |-> IF tx[p].pay = NONE THEN NONE ELSE tx[p].pay.id]
      OBVIOUS
    <3>2. tx'[p].pc = "selectPayment" /\ tx'[p].row = row /\ tx'[p].op = "initiate"
      BY <2>1, <2>3, <3>1 DEF PayTx, WritesTruth
    <3>3. row.status # "paid"
      BY <3>1
    <3>4. row.id # NONE => Captured(row.id)
      <4>1. CASE tx[p].pay = NONE
        BY <3>1, <4>1
      <4>2. CASE tx[p].pay # NONE
        <5>1. tx[p].pay \in PaymentRow /\ RowBacked(tx[p].pay)
          BY <2>1, <4>2 DEF PayTx, WritesTruth
        <5>2. row.id = tx[p].pay.id
          BY <3>1, <4>2
        <5>3. QED
          BY <5>1, <5>2 DEF RowBacked
      <4>3. QED
        BY <4>1, <4>2
    <3>5. RowBacked(row)
      BY <3>3, <3>4 DEF RowBacked
    <3>6. WritesTruth(p)'
      BY <1>2, <3>2, <3>5 DEF WritesTruth
    <3>7. QED
      BY <1>1, <3>6, PaidQuiet
  <2>4. QED
    BY <1>5, <2>2, <2>3 DEF CreateIntent
<1>6. CASE SelectPayment(p)
  <2>1. tx[p] \in PayTx /\ tx[p].pc = "selectPayment" /\ WritesTruth(p)
    BY <1>6, Kinds DEF SelectPayment, At, PaidInv
  <2>2. /\ tx'[p].pc = "updatePayment" /\ tx'[p].row = tx[p].row
        /\ tx'[p].op = tx[p].op
    BY <1>6, <2>1 DEF SelectPayment, PayTx
  <2>3. WritesTruth(p)'
    BY <1>2, <2>1, <2>2 DEF WritesTruth
  <2>4. QED
    BY <1>1, <2>3, PaidQuiet
<1>7. QED
  BY <1>3, <1>4, <1>5, <1>6

LEMMA PaidWritePayment ==
  ASSUME TypeInv, PaidInv, NEW p \in Procs, UpdatePayment(p) \/ InsertPayment(p),
         OthersWait(p), Logs
  PROVE  PaidInv'
<1>1. /\ charge' = charge /\ hooks' = hooks /\ paymentStatus' = paymentStatus
  BY DEF UpdatePayment, InsertPayment, orderRow
<1>2. /\ AnyCaptured' <=> AnyCaptured
      /\ \A row : RowBacked(row)' <=> RowBacked(row)
  BY <1>1 DEF AnyCaptured, Captured, RowBacked
<1>3. WritesTruth(p) /\ tx[p].pc \in {"selectPayment", "updatePayment"}
  BY DEF UpdatePayment, InsertPayment, At, PaidInv
<1>4. RowBacked(tx[p].row)
  BY <1>3 DEF WritesTruth
<1>5. CASE InsertPayment(p)
  <2>1. tx'[p].pc = "idle" /\ payment' \in {payment, tx[p].row}
    BY <1>5 DEF InsertPayment, Done, Idle, TypeInv, TypeOK
  <2>2. payment' # payment => RowBacked(payment)'
    <3>1. payment' # payment => RowBacked(payment')
      BY <1>4, <2>1
    <3>2. QED
      BY <1>2, <3>1 DEF RowBacked
  <2>3. WritesTruth(p)'
    BY <2>1, NothingToWrite
  <2>4. QED
    BY <1>1, <2>2, <2>3, PaidStep
<1>6. CASE UpdatePayment(p)
  <2>1. tx[p].row \in PaymentRow /\ payment \in PaymentRow /\ payment # NONE
    BY <1>6, UpdatePaymentTypes, NothingAssumption
  <2>2. RowBacked(payment)
    BY <2>1 DEF PaidInv
  <2>3. PICK old, row, new : old = payment /\ row = tx[p].row /\ new = payment'
    OBVIOUS
  <2>4. new = Overwrite(old, tx[p].cols, row)
    BY <1>6, <2>3 DEF UpdatePayment
  <2>5. new.status \in {old.status, row.status} /\ new.id \in {old.id, row.id}
    BY <2>4 DEF Overwrite
  <2>6. RowBacked(new)
    BY <1>4, <2>2, <2>3, <2>5 DEF RowBacked
  <2>7. RowBacked(payment)'
    BY <1>2, <2>3, <2>6 DEF RowBacked
  <2>8. WritesTruth(p)'
    <3>1. CASE Done(p)
      BY <3>1, NothingToWrite DEF Done, Idle, TypeInv, TypeOK
    <3>2. CASE Goto(p, "confirm") /\ tx[p].op = "verify"
      <4>1. tx'[p].pc = "confirm"
        BY <3>2, GotoLabel DEF TypeInv
      <4>2. tx[p].row.status = "paid"
        BY <1>3, <3>2 DEF WritesTruth
      <4>3. AnyCaptured
        BY <1>4, <4>2 DEF RowBacked
      <4>4. QED
        BY <1>2, <4>1, <4>3 DEF WritesTruth
    <3>3. tx[p].op \in {"initiate", "verify"}
      BY <1>3, Kinds DEF PayTx, TypeInv
    <3>4. QED
      BY <1>6, <3>1, <3>2, <3>3 DEF UpdatePayment
  <2>9. QED
    BY <1>1, <2>7, <2>8, PaidStep
<1>7. QED
  BY <1>5, <1>6

LEMMA PaidConfirm ==
  ASSUME TypeInv, PaidInv, NEW p \in Procs,
         \/ Confirm(p) \/ HandlePaymentCaptured(p) \/ MarkPaid(p)
         \/ HandlePaymentFailed(p),
         OthersWait(p), Logs
  PROVE  PaidInv'
<1> USE DEF razorpay
<1>1. charge' = charge /\ hooks' \subseteq hooks
  BY DEF Confirm, HandlePaymentCaptured, HookConfirms, MarkPaid, HandlePaymentFailed,
     Acknowledge
<1>2. /\ AnyCaptured' <=> AnyCaptured
      /\ \A k : Captured(k)' <=> Captured(k)
  BY <1>1 DEF AnyCaptured, Captured
<1>3. WritesTruth(p)
  BY DEF PaidInv
<1>4. CASE Confirm(p)
  <2>1. payment' = payment /\ tx'[p].pc = "idle"
    BY <1>4 DEF Confirm, Done, Idle, TypeInv, TypeOK
  <2>2. Backed'
    BY <1>2, <1>3, <1>4 DEF Confirm, At, WritesTruth, Backed
  <2>3. WritesTruth(p)'
    BY <2>1, NothingToWrite
  <2>4. QED
    BY <1>1, <2>1, <2>2, <2>3, PaidStep
<1>5. CASE HandlePaymentCaptured(p)
  <2>1. tx[p] \in HookTx /\ Captured(tx[p].id)
    BY <1>3, <1>5, Kinds DEF HandlePaymentCaptured, At, WritesTruth, TypeInv
  <2>2. tx'[p].pc = "markPaid" /\ tx'[p].id = tx[p].id /\ payment' = payment
    BY <1>5, <2>1 DEF HandlePaymentCaptured, HookConfirms, Goto, HookTx, TypeInv, TypeOK
  <2>3. tx[p].id \in Charges
    BY <2>1 DEF HookTx
  <2>4. Backed'
    BY <1>2, <2>1, <2>3 DEF Backed, AnyCaptured
  <2>5. WritesTruth(p)'
    BY <1>2, <2>1, <2>2 DEF WritesTruth
  <2>6. QED
    BY <1>1, <2>2, <2>4, <2>5, PaidStep
<1>6. CASE MarkPaid(p)
  <2>1. paymentStatus' = paymentStatus /\ tx'[p].pc = "idle"
    BY <1>6 DEF MarkPaid, orderRow, Done, Idle, TypeInv, TypeOK
  <2>2. ASSUME payment' # payment PROVE RowBacked(payment)'
    <3>1. payment # NONE /\ payment.id = tx[p].id
          /\ payment' = [payment EXCEPT !.status = "paid"]
      BY <1>6, <2>2 DEF MarkPaid
    <3>2. Captured(tx[p].id) /\ tx[p].id \in Charges
      BY <1>3, <1>6, Kinds DEF MarkPaid, At, WritesTruth, HookTx, TypeInv
    <3>3. payment'.id = tx[p].id
      BY <3>1
    <3>4. AnyCaptured' /\ Captured(payment.id)'
      BY <1>2, <3>2, <3>3 DEF AnyCaptured, Captured
    <3>5. QED
      BY <3>4 DEF RowBacked
  <2>3. WritesTruth(p)'
    BY <2>1, NothingToWrite
  <2>4. QED
    BY <1>1, <2>1, <2>2, <2>3, PaidStep
<1>7. CASE HandlePaymentFailed(p)
  <2>1. paymentStatus' = "failed" /\ payment' = payment /\ tx'[p].pc = "idle"
    BY <1>7 DEF HandlePaymentFailed, Done, Idle, TypeInv, TypeOK
  <2>2. WritesTruth(p)'
    BY <2>1, NothingToWrite
  <2>3. QED
    BY <1>1, <2>1, <2>2, PaidStep
<1>8. QED
  BY <1>4, <1>5, <1>6, <1>7

LEMMA PaidOthers ==
  ASSUME TypeInv, PaidInv, NEW p \in Procs,
         \/ CheckReturns(p) \/ InsertReturn(p)
         \/ SaveReturn(p) \/ MarkReturned(p) \/ LogReturned(p)
         \/ CheckCancels(p) \/ InsertCancel(p) \/ SaveCancel(p) \/ Fail(p),
         OthersWait(p), Logs
  PROVE  PaidInv'
<1>1. /\ charge' = charge /\ hooks' = hooks
      /\ paymentStatus' = paymentStatus /\ payment' = payment
  BY DEF CheckReturns, InsertReturn, SaveReturn, MarkReturned, LogReturned,
     CheckCancels, InsertCancel, SaveCancel, Fail, orderRow, razorpay
<1>2. tx'[p].pc \in {"idle", "insertReturn", "markReturned", "logReturned", "insertCancel"}
  <2> USE DEF Done, Idle, TypeInv, TypeOK
  <2>1. CASE CheckReturns(p) \/ InsertReturn(p) \/ SaveReturn(p) \/ MarkReturned(p)
             \/ LogReturned(p)
    BY <2>1, GotoLabel DEF CheckReturns, InsertReturn, SaveReturn, MarkReturned, LogReturned
  <2>2. CASE CheckCancels(p) \/ InsertCancel(p) \/ SaveCancel(p) \/ Fail(p)
    BY <2>2, GotoLabel DEF CheckCancels, InsertCancel, SaveCancel, Fail
  <2>3. QED
    BY <2>1, <2>2
<1>3. WritesTruth(p)'
  BY <1>2, NothingToWrite
<1>4. QED
  BY <1>1, <1>3, PaidQuiet

LEMMA PaidNext == TypeInv /\ PaidInv /\ [Next]_vars => PaidInv'
<1> SUFFICES ASSUME TypeInv, PaidInv, [Next]_vars PROVE PaidInv'
  OBVIOUS
<1>1. Logs
  BY NextLogs
<1>2. ASSUME NEW p \in Procs, Request(p) PROVE PaidInv'
  BY <1>1, <1>2, StepsAlone, PaidRequest
<1>3. ASSUME NEW p \in Procs, Statement(p) \/ Fail(p) PROVE PaidInv'
  <2>1. OthersWait(p)
    BY <1>3, StepsAlone
  <2>2. QED
    BY <1>1, <1>3, <2>1, PaidSave, PaidInitiate, PaidWritePayment, PaidConfirm,
       PaidOthers, Zenon DEF Statement
<1>4. ASSUME NEW i \in Intents, NEW k \in Charges, NEW ok \in BOOLEAN, Pay(i, k, ok)
      PROVE  PaidInv'
  <2>1. /\ charge' = [charge EXCEPT ![k] = [intent |-> i, ok |-> ok]]
        /\ charge[k] = NONE /\ hooks' = hooks \cup {k}
        /\ paymentStatus' = paymentStatus /\ payment' = payment /\ tx' = tx
    BY <1>4 DEF Pay, orderRow
  <2>2. ChargesStay
    BY <2>1 DEF ChargesStay, TypeInv, TypeOK
  <2>3. \A p \in Procs : WritesTruth(p)'
    BY <1>1, <2>1, <2>2, HandStaysTrue
  <2>4. paymentStatus' = "paid" => Backed'
    BY <1>1, <2>1, <2>2, TruthStays DEF PaidInv
  <2>5. ASSUME payment' # NONE PROVE RowBacked(payment)'
    <3>1. PICK row \in PaymentRow : row = payment
      BY <2>1, <2>5 DEF TypeInv, TypeOK
    <3>2. RowBacked(row)'
      BY <1>1, <2>1, <2>2, <2>5, <3>1, TruthStays DEF PaidInv
    <3>3. QED
      BY <2>1, <3>1, <3>2 DEF RowBacked
  <2>6. [intent |-> i, ok |-> ok] # NONE
    <3>1. [intent |-> i, ok |-> ok] \in Charge
      BY DEF Charge
    <3>2. QED
      BY <3>1, NothingAssumption
  <2>7. \A h \in hooks' : charge'[h] # NONE
    BY <2>1, <2>6 DEF PaidInv, TypeInv, TypeOK
  <2>8. QED
    BY <2>3, <2>4, <2>5, <2>7 DEF PaidInv
<1>5. CASE UNCHANGED vars
  <2>1. /\ AnyCaptured' <=> AnyCaptured
        /\ Backed' <=> Backed
        /\ \A k : Captured(k)' <=> Captured(k)
    BY <1>5 DEF vars, AnyCaptured, Captured, Backed, Reached
  <2>2. \A row : RowBacked(row)' <=> RowBacked(row)
    BY <2>1 DEF RowBacked
  <2>3. tx' = tx /\ payment' = payment /\ paymentStatus' = paymentStatus
        /\ hooks' = hooks /\ charge' = charge
    BY <1>5 DEF vars
  <2>4. ASSUME NEW p \in Procs PROVE WritesTruth(p)'
    BY <2>3, <1>5, <1>1, HandStaysTrue DEF ChargesStay
  <2>5. payment' # NONE => RowBacked(payment)'
    BY <2>2, <2>3 DEF PaidInv, RowBacked
  <2>6. QED
    BY <2>1, <2>3, <2>4, <2>5 DEF PaidInv
<1>6. QED
  BY <1>2, <1>3, <1>4, <1>5 DEF Next

LEMMA PaidInit == Init => PaidInv
<1> SUFFICES ASSUME Init PROVE PaidInv
  OBVIOUS
<1>1. \A p \in Procs : WritesTruth(p)
  BY DEF Init, WritesTruth, Idle
<1>2. paymentStatus = "paid" => Backed
  BY DEF Init, Backed
<1>3. QED
  BY <1>1, <1>2 DEF Init, PaidInv

(***************************************************************************)
(* An order counts as paid, and its payments row says so or names a        *)
(* payment, only if Razorpay captured one or the order was delivered: the  *)
(* copies of the payment status and of the row that saves write back were  *)
(* true once, and the truth about a captured payment does not expire.      *)
(***************************************************************************)
THEOREM PaidOnlyIfCaptured == Spec => []PaidIsBacked
<1>1. PaidInv => PaidIsBacked
  BY DEF PaidInv, PaidIsBacked, Backed, RowBacked, AnyCaptured
<1>2. QED
  BY <1>1, InitTypes, NextTypes, PaidInit, PaidNext, PTL DEF Spec

-----------------------------------------------------------------------------
(* The status and the log.                                                 *)

\* A payment confirmed the order or a return was approved or rejected.
Exempt == AnyCaptured \/ \E r \in ReturnIds : returns[r] \in {"approved", "rejected"}

(***************************************************************************)
(* A save whose copy of the log is complete asks for a change of status,   *)
(* and one that has passed its SELECT writes it: a status written since    *)
(* would have lengthened the log, and the save would have been refused.    *)
(***************************************************************************)
ChangesStatus(p) ==
  /\ tx[p].pc = "select" /\ tx[p].seen = Len(history) => tx[p].to # status \/ Exempt
  /\ tx[p].pc = "update" => "to" \in tx[p].cols \/ Exempt
  /\ tx[p].pc \in {"markReturned", "logReturned"} => Exempt

LogInv ==
  /\ status = history[Len(history)] \/ Exempt
  /\ Len(history) > 0
  /\ \A p \in Procs : ChangesStatus(p)

\* No permitted change leaves the status as it is.
LEMMA TransitionsMove ==
  ASSUME NEW s \in OrderStatus, NEW to \in OrderStatus, CanTransition(s, to)
  PROVE  to # s
  BY DEF OrderStatus, CanTransition, ValidTransitions

\* A verdict on a return is not taken back.
VerdictsStay ==
  \A r \in ReturnIds : returns[r] \in {"approved", "rejected"} =>
                         returns'[r] \in {"approved", "rejected"}

\* What a step of p must do for the log to explain the status.
LEMMA ExplainedStep ==
  ASSUME TypeInv, LogInv, NEW p \in Procs, OthersWait(p), charge' = charge, VerdictsStay,
         \/ status' = status /\ history' = history
         \/ Exempt' /\ Logs
         \/ \E s \in OrderStatus : status' = s /\ history' = Append(history, s),
         ChangesStatus(p)'
  PROVE  LogInv'
<1>1. Exempt => Exempt'
  BY DEF Exempt, AnyCaptured, Captured, VerdictsStay
<1>2. history \in Seq(OrderStatus) /\ Len(history) \in Nat /\ Len(history) > 0
  BY DEF TypeInv, TypeOK, LogInv
<1>3. CASE Exempt' /\ Logs
  <2>1. Len(history') > 0
    BY <1>2, <1>3 DEF Logs
  <2>2. \A q \in Procs : ChangesStatus(q)'
    BY <1>3 DEF ChangesStatus
  <2>3. QED
    BY <1>3, <2>1, <2>2 DEF LogInv
<1>4. CASE status' = status /\ history' = history
  <2>1. \A q \in Procs \ {p} : ChangesStatus(q)'
    BY <1>1, <1>4 DEF OthersWait, LogInv, ChangesStatus
  <2>2. QED
    BY <1>1, <1>4, <2>1 DEF LogInv
<1>5. ASSUME NEW s \in OrderStatus, status' = s, history' = Append(history, s)
      PROVE  LogInv'
  <2>1. Len(history') = Len(history) + 1 /\ history'[Len(history')] = s
    BY <1>2, <1>5
  <2>2. ASSUME NEW q \in Procs \ {p} PROVE ChangesStatus(q)'
    <3>1. tx'[q] = tx[q] /\ ChangesStatus(q) /\ HandInv(q)
      BY DEF OthersWait, LogInv, TypeInv
    <3>2. tx[q].pc = "select" => tx[q].seen \in Nat /\ tx[q].seen <= Len(history)
      BY <3>1, Kinds DEF HandInv, SaveTx, TypeInv
    <3>3. QED
      BY <1>1, <1>2, <2>1, <3>1, <3>2 DEF ChangesStatus
  <2>3. QED
    BY <1>2, <1>5, <2>1, <2>2 DEF LogInv
<1>6. QED
  BY <1>3, <1>4, <1>5

\* At the other labels no change of status is under way.
LEMMA NothingToExplain ==
  ASSUME NEW p \in Procs, tx'[p].pc \notin {"select", "update", "markReturned", "logReturned"}
  PROVE  ChangesStatus(p)'
  BY DEF ChangesStatus

LEMMA ExplainedRequest ==
  ASSUME TypeInv, LogInv, NEW p \in Procs, Request(p), OthersWait(p)
  PROVE  LogInv'
<1>1. /\ history' = history /\ status' = status /\ charge' = charge /\ returns' = returns
  BY DEF orderRow, razorpay, requests, Request, UpdateOrderStatus, RequestCancellation,
     CreateReturnRequest, CreateCancellationRequest, ResolveReturnRequest,
     ResolveCancellationRequest, InitiatePayment, VerifyPayment, Hook
<1>2. ChangesStatus(p)'
  <2> USE DEF Arrive, TypeInv, TypeOK
  <2>1. ASSUME NEW to \in AdminTargets, UpdateOrderStatus(p, to) PROVE ChangesStatus(p)'
    <3>1. to # status
      BY <2>1, PathsAssumption, TransitionsMove DEF UpdateOrderStatus
    <3>2. tx'[p].pc = "select" /\ tx'[p].to = to
      BY <2>1 DEF UpdateOrderStatus, Loaded
    <3>3. QED
      BY <1>1, <3>1, <3>2 DEF ChangesStatus
  <2>2. CASE RequestCancellation(p)
    <3>1. tx'[p].pc = "select" /\ tx'[p].to = "cancelled" /\ status # "cancelled"
      BY <2>2 DEF RequestCancellation, Loaded, IsCancellableByCustomer
    <3>2. QED
      BY <1>1, <3>1 DEF ChangesStatus
  <2>3. ASSUME NEW k \in Charges, VerifyPayment(p, k) \/ Hook(p, k)
        PROVE  ChangesStatus(p)'
    BY <2>3 DEF VerifyPayment, Hook, ChangesStatus
  <2>4. CASE \/ CreateReturnRequest(p) \/ CreateCancellationRequest(p)
             \/ InitiatePayment(p)
             \/ \E r \in ReturnIds, verdict \in {"approved", "rejected"} :
                  ResolveReturnRequest(p, r, verdict)
             \/ \E c \in CancelIds, verdict \in {"approved", "rejected"} :
                  ResolveCancellationRequest(p, c, verdict)
    <3>1. tx'[p].pc \in {"checkReturns", "checkCancels", "findPayment", "saveReturn",
                         "saveCancel"}
      BY <2>4 DEF CreateReturnRequest, CreateCancellationRequest, InitiatePayment,
         ResolveReturnRequest, ResolveCancellationRequest
    <3>2. QED
      BY <3>1, NothingToExplain
  <2>5. QED
    BY <2>1, <2>2, <2>3, <2>4 DEF Request
<1>3. VerdictsStay
  BY <1>1 DEF VerdictsStay
<1>4. QED
  BY <1>1, <1>2, <1>3, ExplainedStep

LEMMA ExplainedSave ==
  ASSUME TypeInv, LogInv, NEW p \in Procs, SaveSelect(p) \/ SaveUpdate(p), OthersWait(p)
  PROVE  LogInv'
<1>1. tx[p] \in SaveTx /\ HandInv(p) /\ ChangesStatus(p)
  BY Kinds DEF SaveSelect, SaveUpdate, At, TypeInv, LogInv
<1>2. charge' = charge /\ returns' = returns
  BY DEF SaveSelect, SaveUpdate, requests, razorpay
<1>3. VerdictsStay /\ (Exempt' <=> Exempt)
  BY <1>2 DEF VerdictsStay, Exempt, AnyCaptured, Captured
<1>4. CASE SaveSelect(p)
  <2>1. history' = history /\ status' = status /\ tx[p].pc = "select"
    BY <1>4 DEF SaveSelect, orderRow, At
  <2>2. CASE OrphansRefused(tx[p])
    <3>1. tx'[p].pc = "idle"
      BY <1>4, <2>2 DEF SaveSelect, Done, Idle, TypeInv, TypeOK
    <3>2. QED
      BY <1>2, <1>3, <2>1, <3>1, NothingToExplain, ExplainedStep
  <2>3. CASE ~OrphansRefused(tx[p])
    <3>1. tx[p].seen = Len(history)
      <4>1. Len(history) \in Nat
        BY DEF TypeInv, TypeOK
      <4>2. tx[p].seen \in Nat /\ tx[p].seen <= Len(history) /\ ~(Len(history) > tx[p].seen)
        BY <1>1, <2>1, <2>3 DEF OrphansRefused, HandInv, SaveTx
      <4>3. QED
        BY <4>1, <4>2
    <3>2. tx[p].to # status \/ Exempt
      BY <1>1, <2>1, <3>1 DEF ChangesStatus
    <3>3. tx'[p].pc = "update" /\ (tx[p].to # status => "to" \in tx'[p].cols)
      BY <1>1, <1>4, <2>3 DEF SaveSelect, SaveTx, TypeInv, TypeOK
    <3>4. ChangesStatus(p)'
      BY <1>3, <3>2, <3>3 DEF ChangesStatus
    <3>5. QED
      BY <1>2, <1>3, <2>1, <3>4, ExplainedStep
  <2>4. QED
    BY <2>2, <2>3
<1>5. CASE SaveUpdate(p)
  <2>1. tx'[p].pc = "idle" /\ tx[p].pc = "update"
    BY <1>5 DEF SaveUpdate, At, Done, Idle, TypeInv, TypeOK
  <2>2. tx[p].to \in OrderStatus /\ history' = Append(history, tx[p].to)
    BY <1>5, SaveAppends
  <2>3. status' = tx[p].to \/ Exempt
    BY <1>1, <1>5, <2>1 DEF SaveUpdate, ChangesStatus
  <2>4. Logs
    BY <2>2 DEF Logs
  <2>5. ChangesStatus(p)'
    BY <2>1, NothingToExplain
  <2>6. QED
    BY <1>2, <1>3, <2>2, <2>3, <2>4, <2>5, ExplainedStep
<1>6. QED
  BY <1>4, <1>5

LEMMA ExplainedReturns ==
  ASSUME TypeInv, LogInv, NEW p \in Procs, OthersWait(p), Logs,
         \/ CheckReturns(p) \/ InsertReturn(p)
         \/ SaveReturn(p) \/ MarkReturned(p) \/ LogReturned(p)
  PROVE  LogInv'
<1> USE DEF requests, razorpay, orderRow
<1>1. CASE CheckReturns(p)
  <2>1. tx'[p].pc \in {"idle", "insertReturn"}
    BY <1>1, GotoLabel DEF CheckReturns, Done, Idle, TypeInv, TypeOK
  <2>2. VerdictsStay
    BY <1>1 DEF CheckReturns, VerdictsStay
  <2>3. QED
    BY <1>1, <2>1, <2>2, NothingToExplain, ExplainedStep DEF CheckReturns
<1>2. CASE InsertReturn(p)
  <2>1. tx'[p].pc = "idle"
    BY <1>2 DEF InsertReturn, Done, Idle, TypeInv, TypeOK
  <2>2. VerdictsStay
    BY <1>2 DEF InsertReturn, VerdictsStay, TypeInv, TypeOK
  <2>3. \E s \in OrderStatus : status' = s /\ history' = Append(history, s)
    BY <1>2 DEF InsertReturn, OrderStatus
  <2>4. QED
    BY <1>2, <2>1, <2>2, <2>3, NothingToExplain, ExplainedStep DEF InsertReturn
<1>3. CASE SaveReturn(p)
  <2>1. /\ tx[p].id \in ReturnIds /\ tx[p].verdict \in {"approved", "rejected"}
    BY <1>3, Kinds DEF SaveReturn, At, ResolveTx, TypeInv
  <2>2. returns' = [returns EXCEPT ![tx[p].id] = tx[p].verdict]
    BY <1>3 DEF SaveReturn
  <2>3. VerdictsStay /\ Exempt'
    BY <2>1, <2>2 DEF VerdictsStay, Exempt, TypeInv, TypeOK
  <2>4. ChangesStatus(p)'
    <3>1. tx'[p].pc \in {"idle", "markReturned"}
      BY <1>3, GotoLabel DEF SaveReturn, Done, Idle, TypeInv, TypeOK
    <3>2. QED
      BY <2>3, <3>1 DEF ChangesStatus
  <2>5. QED
    BY <1>3, <2>3, <2>4, ExplainedStep DEF SaveReturn
<1>4. CASE MarkReturned(p) \/ LogReturned(p)
  <2>1. returns' = returns /\ charge' = charge
    BY <1>4 DEF MarkReturned, LogReturned
  <2>2. Exempt
    BY <1>4 DEF MarkReturned, LogReturned, At, LogInv, ChangesStatus
  <2>3. VerdictsStay /\ Exempt'
    BY <2>1, <2>2 DEF VerdictsStay, Exempt, AnyCaptured, Captured
  <2>4. ChangesStatus(p)'
    BY <1>4, <2>3, GotoLabel DEF MarkReturned, LogReturned, Done, Idle, ChangesStatus,
       TypeInv, TypeOK
  <2>5. QED
    BY <2>1, <2>3, <2>4, ExplainedStep
<1>5. QED
  BY <1>1, <1>2, <1>3, <1>4

LEMMA ExplainedOthers ==
  ASSUME TypeInv, PaidInv, LogInv, NEW p \in Procs, OthersWait(p), Logs,
         \/ CheckCancels(p) \/ InsertCancel(p) \/ SaveCancel(p)
         \/ FindPayment(p) \/ FetchIntent(p) \/ CreateIntent(p)
         \/ SelectPayment(p) \/ UpdatePayment(p) \/ InsertPayment(p)
         \/ Confirm(p) \/ HandlePaymentCaptured(p) \/ MarkPaid(p)
         \/ HandlePaymentFailed(p) \/ Fail(p)
  PROVE  LogInv'
<1> USE DEF requests, razorpay, orderRow
<1>1. returns' = returns /\ charge' = charge
  BY DEF CheckCancels, InsertCancel, SaveCancel, FindPayment, FetchIntent, CreateIntent,
     SelectPayment, UpdatePayment, InsertPayment, Confirm, HandlePaymentCaptured,
     HookConfirms, MarkPaid, HandlePaymentFailed, Fail
<1>2. VerdictsStay /\ (Exempt' <=> Exempt) /\ ChangesStatus(p)'
  BY <1>1, OtherLabels, NothingToExplain DEF VerdictsStay, Exempt, AnyCaptured, Captured
<1>3. CASE \/ CheckCancels(p) \/ InsertCancel(p) \/ FindPayment(p) \/ FetchIntent(p)
          \/ CreateIntent(p) \/ SelectPayment(p) \/ UpdatePayment(p) \/ InsertPayment(p)
          \/ MarkPaid(p) \/ HandlePaymentFailed(p) \/ Fail(p)
  <2>1. status' = status /\ history' = history
    BY <1>3 DEF CheckCancels, InsertCancel, FindPayment, FetchIntent, CreateIntent,
       SelectPayment, UpdatePayment, InsertPayment, MarkPaid, HandlePaymentFailed, Fail
  <2>2. QED
    BY <1>1, <1>2, <2>1, ExplainedStep
<1>4. CASE SaveCancel(p)
  <2>1. \/ status' = status /\ history' = history
        \/ \E s \in OrderStatus : status' = s /\ history' = Append(history, s)
    BY <1>4 DEF SaveCancel, OrderStatus
  <2>2. QED
    BY <1>1, <1>2, <2>1, ExplainedStep
<1>5. CASE Confirm(p) \/ HandlePaymentCaptured(p)
  <2>1. WritesTruth(p)
    BY DEF PaidInv
  <2>2. ASSUME Confirm(p) PROVE Exempt
    BY <2>1, <2>2 DEF Confirm, At, WritesTruth, Exempt
  <2>3. ASSUME HandlePaymentCaptured(p) PROVE Exempt
    <3>1. Captured(tx[p].id) /\ tx[p].id \in Charges
      BY <2>1, <2>3, Kinds DEF HandlePaymentCaptured, At, WritesTruth, HookTx, TypeInv
    <3>2. QED
      BY <3>1 DEF AnyCaptured, Exempt
  <2>4. Exempt
    BY <1>5, <2>2, <2>3
  <2>5. QED
    BY <1>1, <1>2, <2>4, ExplainedStep
<1>6. QED
  BY <1>3, <1>4, <1>5

LEMMA LogNext == TypeInv /\ PaidInv /\ LogInv /\ [Next]_vars => LogInv'
<1> SUFFICES ASSUME TypeInv, PaidInv, LogInv, [Next]_vars PROVE LogInv'
  OBVIOUS
<1>1. Logs
  BY NextLogs
<1>2. ASSUME NEW p \in Procs, Request(p) PROVE LogInv'
  BY <1>2, StepsAlone, ExplainedRequest
<1>3. ASSUME NEW p \in Procs, Statement(p) \/ Fail(p) PROVE LogInv'
  <2>1. OthersWait(p)
    BY <1>3, StepsAlone
  <2>2. QED
    BY <1>1, <1>3, <2>1, ExplainedSave, ExplainedReturns, ExplainedOthers, Zenon
    DEF Statement
<1>4. ASSUME NEW i \in Intents, NEW k \in Charges, NEW ok \in BOOLEAN, Pay(i, k, ok)
      PROVE  LogInv'
  <2>1. /\ charge' = [charge EXCEPT ![k] = [intent |-> i, ok |-> ok]] /\ charge[k] = NONE
        /\ status' = status /\ history' = history /\ returns' = returns /\ tx' = tx
    BY <1>4 DEF Pay, orderRow, requests
  <2>2. ChargesStay
    BY <2>1 DEF ChargesStay, TypeInv, TypeOK
  <2>3. Exempt => Exempt'
    BY <1>1, <2>1, <2>2, TruthStays DEF Exempt
  <2>4. QED
    BY <2>1, <2>3 DEF LogInv, ChangesStatus
<1>5. CASE UNCHANGED vars
  <2>1. Exempt' <=> Exempt
    BY <1>5 DEF vars, Exempt, AnyCaptured, Captured
  <2>2. QED
    BY <1>5, <2>1 DEF vars, LogInv, ChangesStatus
<1>6. QED
  BY <1>2, <1>3, <1>4, <1>5 DEF Next

LEMMA LogInit == Init => LogInv
<1> SUFFICES ASSUME Init PROVE LogInv
  OBVIOUS
<1>1. Len(history) > 0 /\ status = history[Len(history)]
  BY PathsAssumption DEF Init
<1>2. \A p \in Procs : ChangesStatus(p)
  BY DEF Init, ChangesStatus, Idle
<1>3. QED
  BY <1>1, <1>2 DEF LogInv

(***************************************************************************)
(* Overlapping changes of the administrator and the customer never         *)
(* separate an order's status from the last row of its log: of two saves   *)
(* that loaded the same order the second is refused or finds its change    *)
(* still to be made.  Only a captured payment or a resolved return does.   *)
(***************************************************************************)
THEOREM LogKeepsUp == Spec => []LogExplainsStatus
<1>1. LogInv => LogExplainsStatus
  BY DEF LogInv, LogExplainsStatus, Exempt, AnyCaptured
<1>2. QED
  BY <1>1, InitTypes, NextTypes, PaidInit, PaidNext, LogInit, LogNext, PTL DEF Spec

-----------------------------------------------------------------------------
(* The pending returns.                                                    *)

\* The requests that found no return pending and will insert one.
Inserting == {p \in Procs : At(p, "insertReturn")}

(***************************************************************************)
(* Each pending return and each one about to be inserted has a request of  *)
(* its own: the check passes only when nothing is pending, and from then   *)
(* on no more can be inserted than there are requests.                     *)
(***************************************************************************)
PendingInv == Cardinality(PendingReturns) + Cardinality(Inserting) <= Cardinality(Procs)

LEMMA PendingFinite ==
  /\ IsFiniteSet(PendingReturns) /\ Cardinality(PendingReturns) \in Nat
  /\ IsFiniteSet(Inserting) /\ Cardinality(Inserting) \in Nat
  /\ Cardinality(Inserting) <= Cardinality(Procs) /\ Cardinality(Procs) \in Nat
<1>1. PendingReturns \subseteq ReturnIds /\ Inserting \subseteq Procs
  BY DEF PendingReturns, Inserting
<1>2. QED
  BY <1>1, RequestsAssumption, FS_Subset, FS_CardinalityType

LEMMA PendingFiniteNext ==
  /\ IsFiniteSet(PendingReturns') /\ Cardinality(PendingReturns') \in Nat
  /\ IsFiniteSet(Inserting') /\ Cardinality(Inserting') \in Nat
  /\ Cardinality(Inserting') <= Cardinality(Procs)
<1>1. PendingReturns' \subseteq ReturnIds /\ Inserting' \subseteq Procs
  BY DEF PendingReturns, Inserting
<1>2. QED
  BY <1>1, RequestsAssumption, FS_Subset, FS_CardinalityType

\* A step that neither inserts a return nor decides to.
LEMMA PendingShrinks ==
  ASSUME PendingInv, PendingReturns' \subseteq PendingReturns, Inserting' \subseteq Inserting
  PROVE  PendingInv'
<1>1. /\ Cardinality(PendingReturns') <= Cardinality(PendingReturns)
      /\ Cardinality(Inserting') <= Cardinality(Inserting)
  BY PendingFinite, FS_Subset
<1>2. QED
  BY <1>1, PendingFinite, PendingFiniteNext DEF PendingInv

LEMMA PendingQuiet ==
  ASSUME PendingInv, NEW p \in Procs, OthersWait(p),
         tx'[p].pc # "insertReturn", PendingReturns' \subseteq PendingReturns
  PROVE  PendingInv'
<1>1. Inserting' \subseteq Inserting
  BY DEF Inserting, At, OthersWait
<1>2. QED
  BY <1>1, PendingShrinks

LEMMA PendingRequest ==
  ASSUME TypeInv, PendingInv, NEW p \in Procs, Request(p)
  PROVE  PendingInv'
<1>1. OthersWait(p)
  BY StepsAlone
<1>2. returns' = returns
  BY DEF Request, UpdateOrderStatus, RequestCancellation, CreateReturnRequest,
     CreateCancellationRequest, ResolveReturnRequest, ResolveCancellationRequest,
     InitiatePayment, VerifyPayment, Hook, requests
<1>3. tx'[p].pc # "insertReturn"
  BY DEF Request, UpdateOrderStatus, RequestCancellation, CreateReturnRequest,
     CreateCancellationRequest, ResolveReturnRequest, ResolveCancellationRequest,
     InitiatePayment, VerifyPayment, Hook, Arrive, Loaded, TypeInv, TypeOK
<1>4. PendingReturns' = PendingReturns
  BY <1>2 DEF PendingReturns
<1>5. QED
  BY <1>1, <1>3, <1>4, PendingQuiet

\* Whoever finds nothing pending may be followed by all the others.
LEMMA PendingCheck ==
  ASSUME TypeInv, PendingInv, NEW p \in Procs, CheckReturns(p)
  PROVE  PendingInv'
<1>1. OthersWait(p) /\ returns' = returns
  BY StepsAlone DEF CheckReturns, Statement, requests
<1>2. PendingReturns' = PendingReturns
  BY <1>1 DEF PendingReturns
<1>3. CASE Done(p)
  <2>1. tx'[p].pc # "insertReturn"
    BY <1>3 DEF Done, Idle, TypeInv, TypeOK
  <2>2. QED
    BY <1>1, <1>2, <2>1, PendingQuiet
<1>4. CASE PendingReturns = {}
  <2>1. Cardinality(PendingReturns') = 0
    BY <1>2, <1>4, FS_EmptySet
  <2>2. QED
    BY <2>1, PendingFiniteNext DEF PendingInv
<1>5. QED
  BY <1>3, <1>4 DEF CheckReturns, PendingReturns

\* What was about to be inserted is now pending.
LEMMA PendingInsert ==
  ASSUME TypeInv, PendingInv, NEW p \in Procs, InsertReturn(p)
  PROVE  PendingInv'
<1>1. OthersWait(p) /\ tx'[p] = Idle /\ p \in Inserting
  BY StepsAlone DEF InsertReturn, Statement, Done, Inserting, TypeInv, TypeOK
<1>2. PICK r \in ReturnIds : returns[r] = "none" /\ returns' = [returns EXCEPT ![r] = "requested"]
  BY DEF InsertReturn
<1>3. Inserting' = Inserting \ {p}
  BY <1>1 DEF Inserting, At, OthersWait, Idle
<1>4. PendingReturns' = PendingReturns \cup {r} /\ r \notin PendingReturns
  BY <1>2 DEF PendingReturns, TypeInv, TypeOK
<1>5. Cardinality(Inserting') = Cardinality(Inserting) - 1
  BY <1>1, <1>3, PendingFinite, FS_RemoveElement
<1>6. Cardinality(PendingReturns') = Cardinality(PendingReturns) + 1
  BY <1>4, PendingFinite, FS_AddElement
<1>7. QED
  BY <1>5, <1>6, PendingFinite DEF PendingInv

LEMMA PendingStatement ==
  ASSUME TypeInv, PendingInv, NEW p \in Procs, Statement(p) \/ Fail(p)
  PROVE  PendingInv'
<1>1. OthersWait(p)
  BY StepsAlone
<1>2. CASE SaveSelect(p) \/ SaveUpdate(p)
  <2>1. returns' = returns
    BY <1>2 DEF SaveSelect, SaveUpdate, requests
  <2>2. tx'[p].pc # "insertReturn"
    <3>1. CASE Done(p)
      BY <3>1 DEF Done, Idle, TypeInv, TypeOK
    <3>2. CASE SaveSelect(p) /\ ~Done(p)
      <4>1. tx[p] \in SaveTx
        BY <3>2, Kinds DEF SaveSelect, At, TypeInv
      <4>2. tx'[p].pc = "update"
        BY <3>2, <4>1 DEF SaveSelect, SaveTx, TypeInv, TypeOK
      <4>3. QED
        BY <4>2
    <3>3. QED
      BY <1>2, <3>1, <3>2 DEF SaveUpdate
  <2>3. PendingReturns' = PendingReturns
    BY <2>1 DEF PendingReturns
  <2>4. QED
    BY <1>1, <2>2, <2>3, PendingQuiet
<1>3. CASE SaveReturn(p) \/ MarkReturned(p) \/ LogReturned(p)
  <2>1. tx'[p].pc # "insertReturn"
    BY <1>3, GotoLabel DEF SaveReturn, MarkReturned, LogReturned, Done, Idle, TypeInv, TypeOK
  <2>2. PendingReturns' \subseteq PendingReturns
    <3>1. CASE SaveReturn(p)
      <4>1. tx[p] \in ResolveTx
        BY <3>1, Kinds DEF SaveReturn, At, TypeInv
      <4>2. tx[p].verdict # "requested"
        BY <4>1 DEF ResolveTx
      <4>3. returns' = [returns EXCEPT ![tx[p].id] = tx[p].verdict]
        BY <3>1 DEF SaveReturn
      <4>4. QED
        BY <4>2, <4>3 DEF PendingReturns, TypeInv, TypeOK
    <3>2. CASE MarkReturned(p) \/ LogReturned(p)
      BY <3>2 DEF MarkReturned, LogReturned, requests, PendingReturns
    <3>3. QED
      BY <1>3, <3>1, <3>2
  <2>3. QED
    BY <1>1, <2>1, <2>2, PendingQuiet
<1>4. CASE \/ CheckCancels(p) \/ InsertCancel(p) \/ SaveCancel(p)
          \/ FindPayment(p) \/ FetchIntent(p) \/ CreateIntent(p)
          \/ SelectPayment(p) \/ UpdatePayment(p) \/ InsertPayment(p)
          \/ Confirm(p) \/ HandlePaymentCaptured(p) \/ MarkPaid(p)
          \/ HandlePaymentFailed(p) \/ Fail(p)
  <2>1. tx'[p].pc # "insertReturn"
    BY <1>4, OtherLabels, Zenon
  <2>2. returns' = returns
    BY <1>4 DEF CheckCancels, InsertCancel, SaveCancel, FindPayment, FetchIntent,
       CreateIntent, SelectPayment, UpdatePayment, InsertPayment, Confirm,
       HandlePaymentCaptured, HookConfirms, MarkPaid, HandlePaymentFailed, Fail, requests
  <2>3. PendingReturns' = PendingReturns
    BY <2>2 DEF PendingReturns
  <2>4. QED
    BY <1>1, <2>1, <2>3, PendingQuiet
<1>5. CASE CheckReturns(p) \/ InsertReturn(p)
  BY <1>5, PendingCheck, PendingInsert
<1>6. QED
  BY <1>2, <1>3, <1>4, <1>5, Zenon DEF Statement

LEMMA PendingInit == Init => PendingInv
<1> SUFFICES ASSUME Init PROVE PendingInv
  OBVIOUS
<1>1. PendingReturns = {} /\ Inserting = {}
  BY DEF Init, PendingReturns, Inserting, At, Idle
<1>2. QED
  BY <1>1, PendingFinite, FS_EmptySet DEF PendingInv

LEMMA PendingNext == TypeInv /\ PendingInv /\ [Next]_vars => PendingInv'
<1> SUFFICES ASSUME TypeInv, PendingInv, [Next]_vars PROVE PendingInv'
  OBVIOUS
<1>1. ASSUME NEW p \in Procs, Request(p) \/ Statement(p) \/ Fail(p) PROVE PendingInv'
  BY <1>1, PendingRequest, PendingStatement
<1>2. ASSUME returns' = returns, tx' = tx PROVE PendingInv'
  BY <1>2 DEF PendingInv, PendingReturns, Inserting, At
<1>3. QED
  BY <1>1, <1>2 DEF Next, Pay, requests, vars

(***************************************************************************)
(* However requests for a return overlap each other, the administrator's   *)
(* verdicts and stale saves of the order, no more of them are ever pending *)
(* than there are requests at once.                                        *)
(***************************************************************************)
THEOREM PendingReturnsStayFew == Spec => []PendingReturnsBounded
<1>1. PendingInv => PendingReturnsBounded
  BY PendingFinite DEF PendingInv, PendingReturnsBounded
<1>2. QED
  BY <1>1, InitTypes, NextTypes, PendingInit, PendingNext, PTL DEF Spec
=============================================================================
