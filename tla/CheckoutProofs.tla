--------------------------- MODULE CheckoutProofs ---------------------------
(***************************************************************************)
(* Theorems about Checkout, for every set of requests, users, variants and *)
(* orders, every basket and every limit.                                   *)
(***************************************************************************)
EXTENDS Checkout, TLAPS, FiniteSetTheorems

-----------------------------------------------------------------------------
(* Types.                                                                  *)

Creating(p) == tx[p] \in CreateTx
Changing(p) == tx[p] \in StatusTx
Stocking(p) == tx[p] \in StockTx

(***************************************************************************)
(* What a request has in hand at each statement: a save has a line and the *)
(* row it read; a status change is about an order that exists, a creation  *)
(* about one that does not, and about an id that no other one is using.    *)
(***************************************************************************)
TxInv ==
  \A p \in Procs :
    /\ tx[p].pc \in {"select", "update"} =>
         tx[p].lines # <<>> /\ tx[p].base \in InventoryRow
    /\ Changing(p) => order[tx[p].id] # NONE
    /\ Creating(p) => order[tx[p].id] = NONE
    /\ \A q \in Procs \ {p} :
         Creating(p) /\ Creating(q) => tx[p].id # tx[q].id

TypeInv == TypeOK /\ TxInv

\* The label a request is at says what kind of request it is.
LEMMA Kinds ==
  ASSUME TypeOK, NEW p \in Procs
  PROVE  /\ tx[p].pc = "idle" => tx[p] = Idle
         /\ tx[p].pc \in {"selectOrder", "updateOrder", "release"} => Changing(p)
         /\ tx[p].pc \in {"userLimit", "increment", "commit"} => Creating(p)
         /\ tx[p].pc \in {"select", "update", "next"} => Creating(p) \/ Stocking(p)
         /\ Creating(p) => tx[p].op = "create" /\ tx[p].pc # "idle"
         /\ Stocking(p) => tx[p].op = "stock" /\ tx[p].pc # "idle"
         /\ Changing(p) => tx[p].op = "status" /\ tx[p].pc # "idle"
<1>1. tx[p] \in CreateTx \cup StatusTx \cup StockTx \cup {Idle}
  BY DEF TypeOK
<1>2. QED
  BY <1>1 DEF Creating, Changing, Stocking, CreateTx, StatusTx, StockTx, Idle

\* The lines still to do are lines.
LEMMA HeadAndTail ==
  ASSUME NEW lines \in Seq(Line), lines # <<>>
  PROVE  Head(lines) \in Line /\ Tail(lines) \in Seq(Line)
  OBVIOUS

\* The end of a transaction, either way, keeps the types and frees its order.
LEMMA RollbackTypes ==
  ASSUME TypeInv, NEW p \in Procs, Rollback(p)
  PROVE  TypeInv'
<1> USE DEF TypeInv
<1>1. TypeOK'
  <2>1. /\ owner' \in [Rows -> Procs \cup {NONE}]
        /\ row' \in [Variants -> InventoryRow]
        /\ tx' \in [Procs -> CreateTx \cup StatusTx \cup StockTx \cup {Idle}]
    BY DEF Rollback, TypeOK
  <2>2. QED
    BY <2>1 DEF Rollback, TypeOK
<1>2. TxInv'
  <2>1. ASSUME NEW q \in Procs PROVE tx'[q] = tx[q] \/ tx'[q] = Idle
    BY DEF Rollback, TypeOK
  <2>2. ~(Idle \in CreateTx) /\ ~(Idle \in StatusTx) /\ ~(Idle.pc \in {"select", "update"})
    BY DEF CreateTx, StatusTx, Idle
  <2>3. order' = order
    BY DEF Rollback
  <2>4. QED
    BY <2>1, <2>2, <2>3 DEF TxInv, Creating, Changing
<1>3. QED
  BY <1>1, <1>2

\* A statement that leaves the kind of request and its order as they are.
LEMMA StatementTypes ==
  ASSUME TypeInv, NEW p \in Procs, NEW t,
         tx' = [tx EXCEPT ![p] = t], order' = order,
         \/ Creating(p) /\ t \in CreateTx
         \/ Changing(p) /\ t \in StatusTx
         \/ Stocking(p) /\ t \in StockTx,
         t.id = tx[p].id,
         t.pc \in {"select", "update"} => t.lines # <<>> /\ t.base \in InventoryRow
  PROVE  /\ tx' \in [Procs -> CreateTx \cup StatusTx \cup StockTx \cup {Idle}]
         /\ TxInv'
<1>1. tx' \in [Procs -> CreateTx \cup StatusTx \cup StockTx \cup {Idle}]
  BY DEF TypeInv, TypeOK
<1>2. /\ tx'[p] = t
      /\ \A q \in Procs \ {p} : tx'[q] = tx[q]
  BY DEF TypeInv, TypeOK
<1>3. /\ t \in CreateTx => Creating(p)
      /\ t \in StatusTx => Changing(p)
  <2>1. /\ t \in CreateTx => t.op = "create"
        /\ t \in StatusTx => t.op = "status"
        /\ t \in StockTx => t.op = "stock"
    BY DEF CreateTx, StatusTx, StockTx
  <2>2. QED
    BY <2>1
<1>4. ASSUME NEW q \in Procs
      PROVE  /\ Creating(q)' => Creating(q)
             /\ Changing(q)' => Changing(q)
             /\ tx'[q].pc \in {"select", "update"} =>
                  tx'[q].lines # <<>> /\ tx'[q].base \in InventoryRow
             /\ Creating(q)' \/ Changing(q)' => tx'[q].id = tx[q].id
  <2>1. CASE q = p
    BY <2>1, <1>2, <1>3 DEF Creating, Changing
  <2>2. CASE q # p
    BY <2>2, <1>2 DEF Creating, Changing, TypeInv, TxInv
  <2>3. QED
    BY <2>1, <2>2
<1>5. TxInv'
  BY <1>4 DEF TypeInv, TxInv
<1>6. QED
  BY <1>1, <1>5

-----------------------------------------------------------------------------
(* One lemma per action.                                                   *)

LEMMA SaveSelectTypes ==
  ASSUME TypeInv, NEW p \in Procs, SaveSelect(p)
  PROVE  TypeInv'
<1> DEFINE t == [tx[p] EXCEPT !.pc = "update",
                   !.cols = {c \in {"quantity", "reserved"} :
                               Entity(p)[c] # Read(p, Variant(p))[c]}]
<1>1. tx' = [tx EXCEPT ![p] = t] /\ order' = order
  BY DEF SaveSelect, database
<1>2. /\ Creating(p) => t \in CreateTx
      /\ Stocking(p) => t \in StockTx
  BY DEF Creating, Stocking, CreateTx, StockTx, Columns
<1>3. /\ Creating(p) \/ Stocking(p)
      /\ tx[p].lines # <<>> /\ tx[p].base \in InventoryRow
  BY Kinds DEF TypeInv, TxInv, SaveSelect
<1>4. t.id = tx[p].id /\ t.lines = tx[p].lines /\ t.base = tx[p].base
  BY <1>3 DEF Creating, Stocking, CreateTx, StockTx
<1>5. /\ tx' \in [Procs -> CreateTx \cup StatusTx \cup StockTx \cup {Idle}]
      /\ TxInv'
  BY <1>1, <1>2, <1>3, <1>4, StatementTypes
<1>6. QED
  BY <1>5 DEF TypeInv, TypeOK, SaveSelect, database

LEMMA EntityType ==
  ASSUME TypeInv, NEW p \in Procs, tx[p].pc \in {"select", "update"}
  PROVE  Entity(p) \in InventoryRow /\ Variant(p) \in Variants
<1>1. Creating(p) \/ Stocking(p)
  BY Kinds DEF TypeInv
<1>2. tx[p].lines # <<>> /\ tx[p].base \in InventoryRow /\ tx[p].lines \in Seq(Line)
  BY <1>1 DEF TypeInv, TxInv, Creating, Stocking, CreateTx, StockTx
<1>3. Head(tx[p].lines) \in Line
  BY <1>2, HeadAndTail
<1>4. tx[p].op = "stock" => tx[p].level \in Nat
  <2>1. Stocking(p) => tx[p].level \in StockLevels
    BY DEF Stocking, StockTx
  <2>2. tx[p].op = "stock" => Stocking(p)
    BY <1>1, Kinds DEF TypeInv
  <2>3. QED
    BY <2>1, <2>2, ParametersAssumption
<1>5. QED
  BY <1>2, <1>3, <1>4 DEF Entity, Variant, InventoryRow, Line

LEMMA SaveUpdateTypes ==
  ASSUME TypeInv, NEW p \in Procs, SaveUpdate(p)
  PROVE  TypeInv'
<1> DEFINE v == Variant(p)
           t == [tx[p] EXCEPT !.pc = "next", !.lines = Tail(@)]
<1>1. tx' = [tx EXCEPT ![p] = t] /\ order' = order
  BY DEF SaveUpdate
<1>2. Creating(p) \/ Stocking(p)
  BY Kinds DEF TypeInv, SaveUpdate
<1>3. tx[p].lines \in Seq(Line) /\ tx[p].lines # <<>>
  BY <1>2 DEF TypeInv, TxInv, SaveUpdate, Creating, Stocking, CreateTx, StockTx
<1>4. Tail(tx[p].lines) \in Seq(Line)
  BY <1>3, HeadAndTail
<1>5. /\ Creating(p) => t \in CreateTx
      /\ Stocking(p) => t \in StockTx
  BY <1>4 DEF Creating, Stocking, CreateTx, StockTx
<1>6. t.id = tx[p].id /\ t.pc = "next"
  BY <1>2 DEF Creating, Stocking, CreateTx, StockTx
<1>7. /\ tx' \in [Procs -> CreateTx \cup StatusTx \cup StockTx \cup {Idle}]
      /\ TxInv'
  BY <1>1, <1>2, <1>5, <1>6, StatementTypes
<1>8. Entity(p) \in InventoryRow /\ v \in Variants
  BY EntityType DEF SaveUpdate
<1>9. row' \in [Variants -> InventoryRow]
  BY <1>8 DEF SaveUpdate, TypeInv, TypeOK, InventoryRow
<1>10. owner' \in [Rows -> Procs \cup {NONE}]
  BY <1>8 DEF SaveUpdate, TypeInv, TypeOK
<1>11. QED
  BY <1>7, <1>9, <1>10 DEF TypeInv, TypeOK, SaveUpdate

LEMMA ReserveFindTypes ==
  ASSUME TypeInv, NEW p \in Procs, ReserveFind(p)
  PROVE  TypeInv'
<1> DEFINE read == Read(p, Variant(p))
           t == [tx[p] EXCEPT !.pc = "select", !.base = read]
<1>1. Creating(p)
  BY Kinds DEF TypeInv, ReserveFind
<1>2. tx[p].lines \in Seq(Line) /\ tx[p].lines # <<>>
  BY <1>1 DEF ReserveFind, Creating, CreateTx
<1>3. Variant(p) \in Variants
  BY <1>2, HeadAndTail DEF Variant, Line
<1>4. read \in InventoryRow
  BY <1>3 DEF Read, TypeInv, TypeOK
<1>5. CASE Rollback(p)
  BY <1>5, RollbackTypes
<1>6. CASE tx' = [tx EXCEPT ![p] = t] /\ UNCHANGED database
  <2>1. t \in CreateTx
    BY <1>1, <1>4 DEF Creating, CreateTx
  <2>2. t.id = tx[p].id /\ t.lines = tx[p].lines /\ t.base = read
    BY <1>1 DEF Creating, CreateTx
  <2>3. order' = order
    BY <1>6 DEF database
  <2>4. /\ tx' \in [Procs -> CreateTx \cup StatusTx \cup StockTx \cup {Idle}]
        /\ TxInv'
    BY <1>1, <1>2, <1>4, <1>6, <2>1, <2>2, <2>3, StatementTypes
  <2>5. QED
    BY <1>6, <2>4 DEF TypeInv, TypeOK, database
<1>7. QED
  BY <1>5, <1>6 DEF ReserveFind

\* Moving on to another label of createOrder that saves no inventory row.
LEMMA GotoTypes ==
  ASSUME TypeInv, NEW p \in Procs, Creating(p), order' = order,
         NEW l \in {"userLimit", "increment", "commit"}, Goto(p, l)
  PROVE  /\ tx' \in [Procs -> CreateTx \cup StatusTx \cup StockTx \cup {Idle}]
         /\ TxInv'
<1> DEFINE t == [tx[p] EXCEPT !.pc = l]
<1>1. tx' = [tx EXCEPT ![p] = t]
  BY DEF Goto
<1>2. t \in CreateTx /\ t.id = tx[p].id /\ t.pc = l
  BY DEF Creating, CreateTx
<1>3. QED
  BY <1>1, <1>2, StatementTypes

LEMMA CouponTypes ==
  ASSUME TypeInv, NEW p \in Procs,
         ApplyCoupon(p) \/ CheckPerUserLimit(p) \/ IncrementUsedCount(p)
  PROVE  TypeInv'
<1>1. Creating(p)
  BY Kinds DEF TypeInv, ApplyCoupon, CheckPerUserLimit, IncrementUsedCount
<1>2. CASE Rollback(p)
  BY <1>2, RollbackTypes
<1>3. CASE /\ Goto(p, "userLimit") \/ Goto(p, "increment")
           /\ UNCHANGED database
  <2>1. order' = order
    BY <1>3 DEF database
  <2>2. QED
    BY <1>1, <1>3, <2>1, GotoTypes DEF TypeInv, TypeOK, database
<1>4. CASE IncrementUsedCount(p)
  <2> DEFINE t == [tx[p] EXCEPT !.pc = "commit", !.used = usedCount + 1]
  <2>1. order' = order /\ tx' = [tx EXCEPT ![p] = t]
    BY <1>4 DEF IncrementUsedCount
  <2>2. t \in CreateTx /\ t.id = tx[p].id /\ t.pc = "commit"
    <3>1. usedCount + 1 \in Nat
      BY DEF TypeInv, TypeOK
    <3>2. QED
      BY <1>1, <3>1 DEF Creating, CreateTx
  <2>3. owner' \in [Rows -> Procs \cup {NONE}]
    BY <1>4 DEF IncrementUsedCount, TypeInv, TypeOK
  <2>4. /\ tx' \in [Procs -> CreateTx \cup StatusTx \cup StockTx \cup {Idle}]
        /\ TxInv'
    BY <1>1, <2>1, <2>2, StatementTypes
  <2>5. QED
    BY <1>4, <2>3, <2>4 DEF TypeInv, TypeOK, IncrementUsedCount
<1>5. QED
  BY <1>2, <1>3, <1>4 DEF ApplyCoupon, CheckPerUserLimit

\* A request leaves: the requests of the others are what they were.
LEMMA CommitRowsTypes ==
  ASSUME TypeInv, NEW p \in Procs, CommitRows(p)
  PROVE  /\ owner' \in [Rows -> Procs \cup {NONE}]
         /\ inv' \in [Variants -> InventoryRow]
         /\ row' \in [Variants -> InventoryRow]
         /\ tx' \in [Procs -> CreateTx \cup StatusTx \cup StockTx \cup {Idle}]
         /\ raced' \subseteq Variants
         /\ \A q \in Procs :
              /\ tx'[q] = IF q = p THEN Idle ELSE tx[q]
              /\ Creating(q)' => q # p /\ Creating(q)
              /\ Changing(q)' => q # p /\ Changing(q)
              /\ tx'[q].pc \in {"select", "update"} => q # p
<1>1. ~(Idle \in CreateTx) /\ ~(Idle \in StatusTx) /\ ~(Idle.pc \in {"select", "update"})
  BY DEF CreateTx, StatusTx, Idle
<1>2. ASSUME NEW q \in Procs
      PROVE  tx'[q] = IF q = p THEN Idle ELSE tx[q]
  BY DEF CommitRows, TypeInv, TypeOK
<1>3. /\ owner' \in [Rows -> Procs \cup {NONE}]
      /\ inv' \in [Variants -> InventoryRow]
      /\ row' \in [Variants -> InventoryRow]
      /\ tx' \in [Procs -> CreateTx \cup StatusTx \cup StockTx \cup {Idle}]
      /\ raced' \subseteq Variants
  BY DEF CommitRows, TypeInv, TypeOK
<1>4. QED
  BY <1>1, <1>2, <1>3 DEF Creating, Changing

\* The row that createOrder inserts is an order.
LEMMA NewOrder ==
  ASSUME TypeInv, NEW p \in Procs, CommitOrder(p)
  PROVE  \E new \in Order : order' = [order EXCEPT ![tx[p].id] = new]
<1> DEFINE new == [user |-> tx[p].user, items |-> tx[p].items, status |-> "pending",
                   history |-> <<[to |-> "pending", by |-> "customer"]>>]
<1>1. Creating(p)
  BY Kinds DEF TypeInv, CommitOrder
<1>2. tx[p].user \in Users /\ tx[p].items \in Seq(Line) /\ tx[p].id \in OrderIds
  BY <1>1 DEF Creating, CreateTx
<1>3. new \in Order
  <2>1. <<[to |-> "pending", by |-> "customer"]>>
          \in Seq([to: OrderStatus, by: {"customer", "admin"}])
    BY DEF OrderStatus
  <2>2. QED
    BY <1>2, <2>1 DEF Order, OrderStatus
<1>4. order' = [order EXCEPT ![tx[p].id] = new]
  BY DEF CommitOrder
<1>5. QED
  BY <1>3, <1>4

LEMMA CommitOrderTypes ==
  ASSUME TypeInv, NEW p \in Procs, CommitOrder(p)
  PROVE  TypeInv'
<1>1. Creating(p)
  BY Kinds DEF TypeInv, CommitOrder
<1>2. tx[p].user \in Users /\ tx[p].items \in Seq(Line) /\ tx[p].id \in OrderIds
  BY <1>1 DEF Creating, CreateTx
<1>4. PICK new \in Order : order' = [order EXCEPT ![tx[p].id] = new]
  BY NewOrder
<1>5. order' \in [OrderIds -> Order \cup {NONE}] /\ new # NONE
  BY <1>4, RowsAssumption DEF TypeInv, TypeOK
<1>6. CommitRows(p)
  BY DEF CommitOrder
<1>7. TypeOK'
  <2>1. usages' \subseteq [user: Users, id: OrderIds]
    BY <1>2 DEF CommitOrder, TypeInv, TypeOK
  <2>2. usedCount' \in Nat
    BY <1>1 DEF CommitOrder, TypeInv, TypeOK, Creating, CreateTx
  <2>3. cart' \in [Users -> Seq(Line)]
    BY <1>2 DEF CommitOrder, TypeInv, TypeOK
  <2>4. QED
    BY <1>5, <1>6, <2>1, <2>2, <2>3, CommitRowsTypes DEF TypeOK
<1>8. TxInv'
  <2>1. ASSUME NEW q \in Procs, Creating(q)'
        PROVE  q # p /\ Creating(q) /\ tx'[q] = tx[q] /\ order'[tx[q].id] = NONE
    <3>1. q # p /\ Creating(q) /\ tx'[q] = tx[q]
      BY <1>6, <2>1, CommitRowsTypes
    <3>2. tx[q].id # tx[p].id /\ order[tx[q].id] = NONE /\ tx[q].id \in OrderIds
      BY <1>1, <3>1 DEF TypeInv, TxInv, Creating, CreateTx
    <3>3. QED
      BY <1>2, <1>4, <3>1, <3>2 DEF TypeInv, TypeOK
  <2>2. ASSUME NEW q \in Procs, Changing(q)'
        PROVE  order'[tx'[q].id] # NONE
    <3>1. q # p /\ Changing(q) /\ tx'[q] = tx[q]
      BY <1>6, <2>2, CommitRowsTypes
    <3>2. order[tx[q].id] # NONE /\ tx[q].id \in OrderIds
      BY <3>1 DEF TypeInv, TxInv, Changing, StatusTx
    <3>3. QED
      BY <1>4, <1>5, <3>1, <3>2 DEF TypeInv, TypeOK
  <2>3. ASSUME NEW q \in Procs, tx'[q].pc \in {"select", "update"}
        PROVE  tx'[q] = tx[q]
    BY <1>6, <2>3, CommitRowsTypes
  <2>4. QED
    BY <2>1, <2>2, <2>3 DEF TypeInv, TxInv
<1>9. QED
  BY <1>7, <1>8 DEF TypeInv

LEMMA SelectOrderTypes ==
  ASSUME TypeInv, NEW p \in Procs, SelectOrder(p)
  PROVE  TypeInv'
<1> DEFINE t == [tx[p] EXCEPT !.pc = "updateOrder"]
<1>1. Changing(p)
  BY Kinds DEF TypeInv, SelectOrder
<1>2. CASE Rollback(p)
  BY <1>2, RollbackTypes
<1>3. CASE Goto(p, "updateOrder") /\ UNCHANGED database
  <2>1. t \in StatusTx /\ t.id = tx[p].id /\ t.pc = "updateOrder"
    BY <1>1 DEF Changing, StatusTx
  <2>2. tx' = [tx EXCEPT ![p] = t] /\ order' = order
    BY <1>3 DEF Goto, database
  <2>3. /\ tx' \in [Procs -> CreateTx \cup StatusTx \cup StockTx \cup {Idle}]
        /\ TxInv'
    BY <1>1, <2>1, <2>2, StatementTypes
  <2>4. QED
    BY <1>3, <2>3 DEF TypeInv, TypeOK, database
<1>4. QED
  BY <1>2, <1>3 DEF SelectOrder

LEMMA UpdateOrderTypes ==
  ASSUME TypeInv, NEW p \in Procs, UpdateOrder(p)
  PROVE  TypeInv'
<1> DEFINE o == tx[p].id
           todo == IF tx[p].by = "customer" THEN order[o].items ELSE <<>>
           t == [tx[p] EXCEPT !.pc = "release", !.lines = todo]
<1>1. Changing(p)
  BY Kinds DEF TypeInv, UpdateOrder
<1>2. o \in OrderIds /\ order[o] \in Order
  BY <1>1 DEF TypeInv, TypeOK, TxInv, Changing, StatusTx
<1>3. todo \in Seq(Line)
  BY <1>2 DEF Order
<1>4. t \in StatusTx /\ t.id = tx[p].id /\ t.pc = "release"
  BY <1>1, <1>3 DEF Changing, StatusTx
<1>5. tx' = [tx EXCEPT ![p] = t] /\ order' = order
  BY DEF UpdateOrder
<1>6. /\ tx' \in [Procs -> CreateTx \cup StatusTx \cup StockTx \cup {Idle}]
      /\ TxInv'
  BY <1>1, <1>4, <1>5, StatementTypes
<1>7. owner' \in [Rows -> Procs \cup {NONE}]
  BY <1>2 DEF UpdateOrder, TypeInv, TypeOK
<1>8. QED
  BY <1>6, <1>7 DEF TypeInv, TypeOK, UpdateOrder

LEMMA ReleaseInventoryTypes ==
  ASSUME TypeInv, NEW p \in Procs, ReleaseInventory(p)
  PROVE  TypeInv'
<1> DEFINE v == Variant(p)
           n == Head(tx[p].lines).quantity
           t == [tx[p] EXCEPT !.lines = Tail(@)]
<1>1. Changing(p)
  BY Kinds DEF TypeInv, ReleaseInventory
<1>2. tx[p].lines \in Seq(Line) /\ tx[p].lines # <<>> /\ tx[p].pc = "release"
  BY <1>1 DEF ReleaseInventory, Changing, StatusTx
<1>3. v \in Variants /\ n \in Nat /\ Tail(tx[p].lines) \in Seq(Line)
  BY <1>2, HeadAndTail DEF Variant, Line
<1>4. CASE Rollback(p)
  BY <1>4, RollbackTypes
<1>5. CASE ~CheckRefuses(v, n)
  <2>1. /\ owner' = [owner EXCEPT ![v] = p]
        /\ row' = [row EXCEPT ![v].reserved = @ - n]
        /\ tx' = [tx EXCEPT ![p] = t]
        /\ UNCHANGED <<inv, order, usedCount, usages, cart, raced>>
    BY <1>5 DEF ReleaseInventory
  <2>2. t \in StatusTx /\ t.id = tx[p].id /\ t.pc = "release"
    BY <1>1, <1>2, <1>3 DEF Changing, StatusTx
  <2>3. /\ tx' \in [Procs -> CreateTx \cup StatusTx \cup StockTx \cup {Idle}]
        /\ TxInv'
    BY <1>1, <2>1, <2>2, StatementTypes
  <2>4. row[v].reserved - n \in Nat
    BY <1>3, <1>5 DEF CheckRefuses, TypeInv, TypeOK, InventoryRow
  <2>5. row' \in [Variants -> InventoryRow]
    BY <1>3, <2>1, <2>4 DEF TypeInv, TypeOK, InventoryRow
  <2>6. owner' \in [Rows -> Procs \cup {NONE}]
    BY <1>3, <2>1 DEF TypeInv, TypeOK
  <2>7. QED
    BY <2>1, <2>3, <2>5, <2>6 DEF TypeInv, TypeOK
<1>6. QED
  BY <1>4, <1>5 DEF ReleaseInventory

LEMMA CommitStatusTypes ==
  ASSUME TypeInv, NEW p \in Procs, CommitStatus(p)
  PROVE  TypeInv' /\ \A x \in OrderIds : order'[x] = NONE <=> order[x] = NONE
<1> DEFINE o == tx[p].id
           entry == [to |-> tx[p].to, by |-> tx[p].by]
           new == [order[o] EXCEPT !.status = tx[p].to,
                                   !.history = Append(@, entry)]
<1>1. Changing(p)
  BY Kinds DEF TypeInv, CommitStatus
<1>2. o \in OrderIds /\ order[o] \in Order
  BY <1>1 DEF TypeInv, TypeOK, TxInv, Changing, StatusTx
<1>3. entry \in [to: OrderStatus, by: {"customer", "admin"}]
  BY <1>1 DEF Changing, StatusTx
<1>4. Append(order[o].history, entry)
        \in Seq([to: OrderStatus, by: {"customer", "admin"}])
  BY <1>2, <1>3 DEF Order
<1>5. new \in Order
  BY <1>1, <1>2, <1>4 DEF Order, Changing, StatusTx
<1>6. order' = [order EXCEPT ![o] = new]
  BY DEF CommitStatus
<1>7. order' \in [OrderIds -> Order \cup {NONE}] /\ new # NONE
  BY <1>5, <1>6, RowsAssumption DEF TypeInv, TypeOK
<1>8. CommitRows(p)
  BY DEF CommitStatus
<1>9. TypeOK'
  BY <1>7, <1>8, CommitRowsTypes DEF TypeOK, TypeInv, CommitStatus
<1>10. \A x \in OrderIds : order'[x] = NONE <=> order[x] = NONE
  BY <1>2, <1>6, <1>7, RowsAssumption DEF TypeInv, TypeOK
<1>11. TxInv'
  <2>1. ASSUME NEW q \in Procs, Creating(q)'
        PROVE  q # p /\ Creating(q) /\ tx'[q] = tx[q] /\ tx[q].id \in OrderIds
    BY <1>8, <2>1, CommitRowsTypes DEF Creating, CreateTx
  <2>2. ASSUME NEW q \in Procs, Changing(q)'
        PROVE  Changing(q) /\ tx'[q] = tx[q] /\ tx[q].id \in OrderIds
    BY <1>8, <2>2, CommitRowsTypes DEF Changing, StatusTx
  <2>3. ASSUME NEW q \in Procs, tx'[q].pc \in {"select", "update"}
        PROVE  tx'[q] = tx[q]
    BY <1>8, <2>3, CommitRowsTypes
  <2>4. QED
    BY <1>10, <2>1, <2>2, <2>3 DEF TypeInv, TxInv
<1>12. QED
  BY <1>9, <1>10, <1>11 DEF TypeInv

LEMMA CommitStockTypes ==
  ASSUME TypeInv, NEW p \in Procs, CommitStock(p)
  PROVE  TypeInv'
<1>1. CommitRows(p) /\ UNCHANGED <<order, usedCount, usages, cart>>
  BY DEF CommitStock
<1>2. TypeOK'
  BY <1>1, CommitRowsTypes DEF TypeInv, TypeOK
<1>3. TxInv'
  BY <1>1, CommitRowsTypes DEF TypeInv, TxInv
<1>4. QED
  BY <1>2, <1>3 DEF TypeInv

\* A request arrives: its record is of its kind and fits the orders.
LEMMA ArrivalTypes ==
  ASSUME TypeInv, NEW p \in Procs, tx[p].pc = "idle",
         NEW t \in CreateTx \cup StatusTx \cup StockTx,
         tx' = [tx EXCEPT ![p] = t], UNCHANGED database,
         t.pc \in {"select", "update"} => t.lines # <<>> /\ t.base \in InventoryRow,
         t \in StatusTx => order[t.id] # NONE,
         t \in CreateTx => /\ order[t.id] = NONE
                           /\ \A q \in Procs : tx[q].pc # "idle" => tx[q].id # t.id
  PROVE  TypeInv'
<1>1. /\ tx'[p] = t
      /\ \A q \in Procs \ {p} : tx'[q] = tx[q]
      /\ order' = order
  BY DEF TypeInv, TypeOK, database
<1>2. \A q \in Procs : Creating(q) => tx[q].pc # "idle"
  BY Kinds DEF TypeInv
<1>3. TypeOK'
  BY DEF TypeInv, TypeOK, database
<1>4. ASSUME NEW q \in Procs
      PROVE  /\ tx'[q].pc \in {"select", "update"} =>
                  tx'[q].lines # <<>> /\ tx'[q].base \in InventoryRow
             /\ Changing(q)' => order'[tx'[q].id] # NONE
             /\ Creating(q)' => order'[tx'[q].id] = NONE
  <2>1. CASE q = p
    BY <2>1, <1>1 DEF Creating, Changing
  <2>2. CASE q # p
    BY <2>2, <1>1 DEF TypeInv, TxInv, Creating, Changing
  <2>3. QED
    BY <2>1, <2>2
<1>5. ASSUME NEW q \in Procs, NEW r \in Procs \ {q}, Creating(q)', Creating(r)'
      PROVE  tx'[q].id # tx'[r].id
  <2>1. CASE q = p
    BY <1>1, <1>2, <1>5, <2>1 DEF Creating
  <2>2. CASE r = p
    BY <1>1, <1>2, <1>5, <2>2 DEF Creating
  <2>3. CASE q # p /\ r # p
    BY <1>1, <1>5, <2>3 DEF TypeInv, TxInv, Creating
  <2>4. QED
    BY <2>1, <2>2, <2>3
<1>6. QED
  BY <1>3, <1>4, <1>5 DEF TypeInv, TxInv

LEMMA CreateOrderTypes ==
  ASSUME TypeInv, NEW p \in Procs, NEW u \in Users,
         NEW items \in Baskets \cup {<<>>}, NEW coupon \in BOOLEAN,
         CreateOrder(p, u, items, coupon)
  PROVE  TypeInv'
<1> DEFINE lines == IF items = <<>> THEN cart[u] ELSE items
<1>1. lines \in Seq(Line)
  BY ParametersAssumption DEF TypeInv, TypeOK
<1>2. PICK o \in OrderIds :
        /\ order[o] = NONE
        /\ \A q \in Procs : tx[q].pc # "idle" => tx[q].id # o
        /\ tx' = [tx EXCEPT ![p] =
                    [pc |-> "next", op |-> "create", id |-> o, user |-> u,
                     items |-> lines, lines |-> lines,
                     fromCart |-> items = <<>>, coupon |-> coupon,
                     base |-> NONE, cols |-> {}, used |-> 0]]
  BY DEF CreateOrder
<1> DEFINE t == [pc |-> "next", op |-> "create", id |-> o, user |-> u,
                 items |-> lines, lines |-> lines,
                 fromCart |-> items = <<>>, coupon |-> coupon,
                 base |-> NONE, cols |-> {}, used |-> 0]
<1>3. t \in CreateTx /\ ~(t \in StatusTx)
  BY <1>1 DEF CreateTx, StatusTx
<1>4. QED
  BY <1>2, <1>3, ArrivalTypes DEF CreateOrder

LEMMA StatusChangeTypes ==
  ASSUME TypeInv, NEW p \in Procs, tx[p].pc = "idle",
         NEW o \in OrderIds, order[o] # NONE,
         NEW to \in OrderStatus, NEW by \in {"customer", "admin"},
         tx' = [tx EXCEPT ![p] = StatusChange(o, to, by)], UNCHANGED database
  PROVE  TypeInv'
<1> DEFINE t == StatusChange(o, to, by)
<1>1. order[o] \in Order
  BY DEF TypeInv, TypeOK
<1>2. Len(order[o].history) \in Nat
  BY <1>1 DEF Order
<1>3. t \in StatusTx /\ ~(t \in CreateTx) /\ t.id = o /\ t.pc = "selectOrder"
  BY <1>2 DEF StatusChange, StatusTx, CreateTx
<1>4. QED
  BY <1>3, ArrivalTypes

LEMMA UpdateVariantStockTypes ==
  ASSUME TypeInv, NEW p \in Procs, NEW v \in Variants, NEW level \in StockLevels,
         UpdateVariantStock(p, v, level)
  PROVE  TypeInv'
<1> DEFINE lines == <<[variant |-> v, quantity |-> 1]>>
           t == [pc |-> "select", op |-> "stock", id |-> NONE, level |-> level,
                 lines |-> lines, base |-> inv[v], cols |-> {}]
<1>1. lines \in Seq(Line) /\ lines # <<>>
  BY DEF Line
<1>2. inv[v] \in InventoryRow
  BY DEF TypeInv, TypeOK
<1>3. t \in StockTx /\ ~(t \in CreateTx) /\ ~(t \in StatusTx)
  BY <1>1, <1>2 DEF StockTx, CreateTx, StatusTx
<1>4. tx' = [tx EXCEPT ![p] = t] /\ tx[p].pc = "idle" /\ UNCHANGED database
  BY DEF UpdateVariantStock
<1>5. QED
  BY <1>1, <1>2, <1>3, <1>4, ArrivalTypes

-----------------------------------------------------------------------------

LEMMA InitTypes == Init => TypeInv
<1> SUFFICES ASSUME Init PROVE TypeInv
  OBVIOUS
<1>1. TypeOK
  BY ParametersAssumption DEF Init, TypeOK, InventoryRow
<1>2. ~(Idle \in CreateTx) /\ ~(Idle \in StatusTx) /\ ~(Idle.pc \in {"select", "update"})
  BY DEF CreateTx, StatusTx, Idle
<1>3. TxInv
  BY <1>2 DEF Init, TxInv, Creating, Changing
<1>4. QED
  BY <1>1, <1>3 DEF TypeInv

LEMMA NextTypes == TypeInv /\ [Next]_vars => TypeInv'
<1> SUFFICES ASSUME TypeInv, [Next]_vars PROVE TypeInv'
  OBVIOUS
<1>1. CASE UNCHANGED vars
  BY <1>1 DEF vars, TypeInv, TypeOK, TxInv, Creating, Changing
<1>2. ASSUME NEW p \in Procs, Request(p)
      PROVE  TypeInv'
  <2>1. ASSUME NEW u \in Users, NEW items \in Baskets \cup {<<>>},
               NEW coupon \in BOOLEAN, CreateOrder(p, u, items, coupon)
        PROVE  TypeInv'
    BY <2>1, CreateOrderTypes
  <2>2. ASSUME NEW u \in Users, NEW o \in OrderIds, RequestCancellation(p, u, o)
        PROVE  TypeInv'
    <3>1. "cancelled" \in OrderStatus
      BY DEF OrderStatus
    <3>2. QED
      BY <2>2, <3>1, StatusChangeTypes DEF RequestCancellation
  <2>3. ASSUME NEW o \in OrderIds, NEW to \in AdminTargets, UpdateOrderStatus(p, o, to)
        PROVE  TypeInv'
    <3>1. to \in OrderStatus
      BY ParametersAssumption
    <3>2. QED
      BY <2>3, <3>1, StatusChangeTypes DEF UpdateOrderStatus
  <2>4. ASSUME NEW v \in Variants, NEW level \in StockLevels,
               UpdateVariantStock(p, v, level)
        PROVE  TypeInv'
    BY <2>4, UpdateVariantStockTypes
  <2>5. QED
    BY <1>2, <2>1, <2>2, <2>3, <2>4 DEF Request
<1>3. ASSUME NEW p \in Procs, Statement(p)
      PROVE  TypeInv'
  BY <1>3, ReserveFindTypes, SaveSelectTypes, SaveUpdateTypes, CouponTypes,
     CommitOrderTypes, SelectOrderTypes, UpdateOrderTypes, ReleaseInventoryTypes,
     CommitStatusTypes, CommitStockTypes DEF Statement
<1>4. ASSUME NEW p \in Procs, Fail(p) \/ DeadlockVictim(p)
      PROVE  TypeInv'
  BY <1>4, RollbackTypes DEF Fail, DeadlockVictim
<1>5. QED
  BY <1>1, <1>2, <1>3, <1>4 DEF Next

(***************************************************************************)
(* Type correctness: among it, no CHECK constraint of the inventory table  *)
(* is ever broken, whatever requests overlap.                              *)
(***************************************************************************)
THEOREM TypeCorrect == Spec => []TypeOK
<1>1. TypeInv => TypeOK
  BY DEF TypeInv
<1>2. QED
  BY <1>1, InitTypes, NextTypes, PTL DEF Spec

-----------------------------------------------------------------------------
(* Reservations stay within the stock.                                     *)

Within(r, v) == r.quantity = InitialStock[v] /\ r.reserved <= r.quantity

(***************************************************************************)
(* StockBounds is not inductive: a save writes what its request computed   *)
(* from an earlier version of the row.  What it computed is within bounds  *)
(* too, since the availability check was made on that very version, and    *)
(* with the quantity fixed it stays so however the row changes meanwhile.  *)
(***************************************************************************)
BoundsInv ==
  /\ \A v \in Variants : Within(inv[v], v) /\ Within(row[v], v)
  /\ \A p \in Procs :
       tx[p].pc \in {"select", "update"} => Within(Entity(p), Variant(p))

\* A step that writes no inventory row and opens no save.
LEMMA QuietBounds ==
  ASSUME BoundsInv, UNCHANGED <<inv, row>>,
         \A p \in Procs :
           \/ tx'[p].pc \notin {"select", "update"}
           \/ /\ tx[p].pc \in {"select", "update"}
              /\ tx'[p].op = tx[p].op /\ tx'[p].base = tx[p].base
              /\ tx'[p].lines = tx[p].lines
              /\ tx'[p].op = "stock" => tx'[p].level = tx[p].level
  PROVE  BoundsInv'
<1>1. ASSUME NEW p \in Procs, tx'[p].pc \in {"select", "update"}
      PROVE  Within(Entity(p), Variant(p))'
  <2>1. Within(Entity(p), Variant(p))
    BY <1>1 DEF BoundsInv
  <2>2. Entity(p)' = Entity(p) /\ Variant(p)' = Variant(p)
    BY <1>1 DEF Entity, Variant
  <2>3. QED
    BY <2>1, <2>2 DEF Within
<1>2. QED
  BY <1>1 DEF BoundsInv

\* The end of a transaction copies rows that are within bounds.
LEMMA EndBounds ==
  ASSUME TypeInv, BoundsInv, NEW p \in Procs, Rollback(p) \/ CommitRows(p)
  PROVE  BoundsInv'
<1>1. ASSUME NEW q \in Procs
      PROVE  tx'[q] = IF q = p THEN Idle ELSE tx[q]
  BY DEF Rollback, CommitRows, TypeInv, TypeOK
<1>2. Idle.pc \notin {"select", "update"}
  BY DEF Idle
<1>3. ASSUME NEW q \in Procs, tx'[q].pc \in {"select", "update"}
      PROVE  Within(Entity(q), Variant(q))'
  <2>1. tx'[q] = tx[q]
    BY <1>1, <1>2, <1>3
  <2>2. Entity(q)' = Entity(q) /\ Variant(q)' = Variant(q)
    BY <2>1 DEF Entity, Variant
  <2>3. QED
    BY <1>3, <2>1, <2>2 DEF BoundsInv, Within
<1>4. \A v \in Variants : Within(inv[v], v)' /\ Within(row[v], v)'
  BY DEF Rollback, CommitRows, BoundsInv, Within, TypeInv, TypeOK
<1>5. QED
  BY <1>3, <1>4 DEF BoundsInv

LEMMA ReserveFindBounds ==
  ASSUME TypeInv, BoundsInv, NEW p \in Procs, ReserveFind(p)
  PROVE  BoundsInv'
<1> DEFINE v == Variant(p)
           read == Read(p, v)
           n == Head(tx[p].lines).quantity
<1>1. Creating(p)
  BY Kinds DEF TypeInv, ReserveFind
<1>2. tx[p].lines \in Seq(Line) /\ tx[p].lines # <<>> /\ tx[p].op = "create"
  BY <1>1 DEF ReserveFind, Creating, CreateTx
<1>3. v \in Variants /\ n \in Nat
  BY <1>2, HeadAndTail DEF Variant, Line
<1>4. read \in InventoryRow /\ Within(read, v)
  BY <1>3 DEF Read, TypeInv, TypeOK, BoundsInv
<1>5. CASE Rollback(p)
  BY <1>5, EndBounds
<1>6. CASE /\ ~Insufficient(read, Head(tx[p].lines))
           /\ tx' = [tx EXCEPT ![p].pc = "select", ![p].base = read]
           /\ UNCHANGED database
  <2>1. /\ tx'[p].op = "create" /\ tx'[p].lines = tx[p].lines
        /\ tx'[p].base = read
    BY <1>1, <1>2, <1>6 DEF Creating, CreateTx, TypeInv, TypeOK
  <2>2. Variant(p)' = v /\ Entity(p)' = [read EXCEPT !.reserved = @ + n]
    BY <2>1 DEF Variant, Entity
  <2>3. Within([read EXCEPT !.reserved = @ + n], v)
    BY <1>3, <1>4, <1>6 DEF Within, Insufficient, InventoryRow
  <2>4. ASSUME NEW q \in Procs, tx'[q].pc \in {"select", "update"}
        PROVE  Within(Entity(q), Variant(q))'
    <3>1. CASE q = p
      BY <2>2, <2>3, <3>1 DEF Within
    <3>2. CASE q # p
      <4>1. tx'[q] = tx[q]
        BY <1>6, <3>2 DEF TypeInv, TypeOK
      <4>2. Entity(q)' = Entity(q) /\ Variant(q)' = Variant(q)
        BY <4>1 DEF Entity, Variant
      <4>3. QED
        BY <2>4, <4>1, <4>2 DEF BoundsInv, Within
    <3>3. QED
      BY <3>1, <3>2
  <2>5. QED
    BY <1>6, <2>4 DEF BoundsInv, database
<1>7. QED
  BY <1>5, <1>6 DEF ReserveFind

LEMMA SaveUpdateBounds ==
  ASSUME TypeInv, BoundsInv, NEW p \in Procs, SaveUpdate(p)
  PROVE  BoundsInv'
<1> DEFINE v == Variant(p)
<1>1. Entity(p) \in InventoryRow /\ v \in Variants /\ Within(Entity(p), v)
  BY EntityType DEF SaveUpdate, BoundsInv
<1>2. Within(row[v], v) /\ row[v] \in InventoryRow
  BY <1>1 DEF BoundsInv, TypeInv, TypeOK
<1>3. row'[v] = [c \in {"quantity", "reserved"} |->
                   IF c \in tx[p].cols THEN Entity(p)[c] ELSE row[v][c]]
  BY <1>1 DEF SaveUpdate, TypeInv, TypeOK
<1>4. Within(row'[v], v)
  BY <1>1, <1>2, <1>3 DEF Within, InventoryRow
<1>5. \A w \in Variants : Within(inv[w], w)' /\ Within(row[w], w)'
  BY <1>1, <1>4 DEF SaveUpdate, BoundsInv, Within, TypeInv, TypeOK
<1>6. ASSUME NEW q \in Procs, tx'[q].pc \in {"select", "update"}
      PROVE  Within(Entity(q), Variant(q))'
  <2> DEFINE t == [tx[p] EXCEPT !.pc = "next", !.lines = Tail(@)]
  <2>1. tx' = [tx EXCEPT ![p] = t]
    BY DEF SaveUpdate
  <2>2. Creating(p) \/ Stocking(p)
    BY Kinds DEF TypeInv, SaveUpdate
  <2>3. tx'[p].pc = "next"
    BY <2>1, <2>2 DEF Creating, Stocking, CreateTx, StockTx, TypeInv, TypeOK
  <2>4. tx'[q] = tx[q]
    BY <1>6, <2>1, <2>3 DEF TypeInv, TypeOK
  <2>5. Entity(q)' = Entity(q) /\ Variant(q)' = Variant(q)
    BY <2>4 DEF Entity, Variant
  <2>6. QED
    BY <1>6, <2>4, <2>5 DEF BoundsInv, Within
<1>7. QED
  BY <1>5, <1>6 DEF BoundsInv

LEMMA NextBounds ==
  ASSUME StockLevels = {}, TypeInv, BoundsInv, [Next]_vars
  PROVE  BoundsInv'
<1>1. CASE UNCHANGED vars
  <2>1. UNCHANGED <<inv, row, tx>>
    BY <1>1 DEF vars
  <2>2. QED
    BY <2>1, QuietBounds
<1>2. ASSUME NEW p \in Procs, Rollback(p) \/ CommitRows(p)
      PROVE  BoundsInv'
  BY <1>2, EndBounds
<1>3. ASSUME NEW p \in Procs, UNCHANGED <<inv, row>>, NEW t,
             tx' = [tx EXCEPT ![p] = t], t.pc \notin {"select", "update"}
      PROVE  BoundsInv'
  BY <1>3, QuietBounds DEF TypeInv, TypeOK
<1>4. ASSUME NEW p \in Procs, Request(p)
      PROVE  BoundsInv'
  <2>1. UNCHANGED <<inv, row>>
    BY <1>4 DEF Request, CreateOrder, RequestCancellation, UpdateOrderStatus,
                UpdateVariantStock, database
  <2>2. ASSUME NEW u \in Users, NEW items \in Baskets \cup {<<>>},
               NEW coupon \in BOOLEAN, CreateOrder(p, u, items, coupon)
        PROVE  BoundsInv'
    <3> DEFINE lines == IF items = <<>> THEN cart[u] ELSE items
    <3>1. PICK o \in OrderIds :
            tx' = [tx EXCEPT ![p] =
                    [pc |-> "next", op |-> "create", id |-> o, user |-> u,
                     items |-> lines, lines |-> lines,
                     fromCart |-> items = <<>>, coupon |-> coupon,
                     base |-> NONE, cols |-> {}, used |-> 0]]
      BY <2>2 DEF CreateOrder
    <3> DEFINE t == [pc |-> "next", op |-> "create", id |-> o, user |-> u,
                     items |-> lines, lines |-> lines,
                     fromCart |-> items = <<>>, coupon |-> coupon,
                     base |-> NONE, cols |-> {}, used |-> 0]
    <3>2. t.pc \notin {"select", "update"} /\ tx' = [tx EXCEPT ![p] = t]
      BY <3>1
    <3>3. QED
      BY <1>3, <2>1, <3>2
  <2>3. ASSUME NEW o \in OrderIds, NEW to \in OrderStatus, NEW by,
               tx' = [tx EXCEPT ![p] = StatusChange(o, to, by)]
        PROVE  BoundsInv'
    <3>1. StatusChange(o, to, by).pc = "selectOrder"
      BY DEF StatusChange
    <3>2. QED
      BY <1>3, <2>1, <2>3, <3>1
  <2>4. "cancelled" \in OrderStatus /\ AdminTargets \subseteq OrderStatus
    BY ParametersAssumption DEF OrderStatus
  <2>5. QED
    BY <1>4, <2>2, <2>3, <2>4 DEF Request, RequestCancellation, UpdateOrderStatus
<1>5. ASSUME NEW p \in Procs, SaveSelect(p)
      PROVE  BoundsInv'
  <2> DEFINE t == [tx[p] EXCEPT !.pc = "update",
                     !.cols = {c \in {"quantity", "reserved"} :
                                 Entity(p)[c] # Read(p, Variant(p))[c]}]
  <2>1. tx' = [tx EXCEPT ![p] = t] /\ UNCHANGED <<inv, row>>
    BY <1>5 DEF SaveSelect, database
  <2>2. Creating(p) \/ Stocking(p)
    BY <1>5, Kinds DEF TypeInv, SaveSelect
  <2>3. /\ t.op = tx[p].op /\ t.base = tx[p].base /\ t.lines = tx[p].lines
        /\ t.op = "stock" => t.level = tx[p].level
    BY <2>2 DEF Creating, Stocking, CreateTx, StockTx
  <2>4. QED
    BY <1>5, <2>1, <2>3, QuietBounds DEF TypeInv, TypeOK, SaveSelect
<1>6. ASSUME NEW p \in Procs,
             \/ Goto(p, "userLimit") /\ UNCHANGED database
             \/ Goto(p, "increment") /\ UNCHANGED database
             \/ IncrementUsedCount(p)
             \/ Goto(p, "updateOrder") /\ UNCHANGED database
             \/ UpdateOrder(p),
             Creating(p) \/ Changing(p)
      PROVE  BoundsInv'
  <2>1. UNCHANGED <<inv, row>>
    BY <1>6 DEF database, IncrementUsedCount, UpdateOrder
  <2>2. tx'[p].pc \in {"userLimit", "increment", "commit", "updateOrder", "release"}
    BY <1>6 DEF Goto, IncrementUsedCount, UpdateOrder, TypeInv, TypeOK,
                Creating, Changing, CreateTx, StatusTx
  <2>3. \A q \in Procs \ {p} : tx'[q] = tx[q]
    BY <1>6 DEF Goto, IncrementUsedCount, UpdateOrder, TypeInv, TypeOK
  <2>4. QED
    BY <2>1, <2>2, <2>3, QuietBounds
<1>7. ASSUME NEW p \in Procs, ReleaseInventory(p)
      PROVE  BoundsInv'
  <2> DEFINE v == Variant(p)
             n == Head(tx[p].lines).quantity
             t == [tx[p] EXCEPT !.lines = Tail(@)]
  <2>1. CASE Rollback(p)
    BY <1>2, <2>1
  <2>2. CASE ~CheckRefuses(v, n)
    <3>1. Changing(p)
      BY <1>7, Kinds DEF TypeInv, ReleaseInventory
    <3>2. tx[p].lines \in Seq(Line) /\ tx[p].lines # <<>>
      BY <1>7, <3>1 DEF ReleaseInventory, Changing, StatusTx
    <3>3. v \in Variants /\ n \in Nat
      BY <3>2, HeadAndTail DEF Variant, Line
    <3>4. /\ row' = [row EXCEPT ![v].reserved = @ - n] /\ inv' = inv
          /\ tx' = [tx EXCEPT ![p] = t] /\ tx[p].pc = "release"
      BY <1>7, <2>2 DEF ReleaseInventory
    <3>5. \A w \in Variants : Within(inv[w], w)' /\ Within(row[w], w)'
      BY <3>3, <3>4 DEF BoundsInv, Within, TypeInv, TypeOK, InventoryRow
    <3>6. ASSUME NEW q \in Procs, tx'[q].pc \in {"select", "update"}
          PROVE  Within(Entity(q), Variant(q))'
      <4>1. t.pc = "release"
        BY <3>1, <3>4 DEF Changing, StatusTx
      <4>2. tx'[q] = tx[q]
        BY <3>4, <3>6, <4>1 DEF TypeInv, TypeOK
      <4>3. Entity(q)' = Entity(q) /\ Variant(q)' = Variant(q)
        BY <4>2 DEF Entity, Variant
      <4>4. QED
        BY <3>6, <4>2, <4>3 DEF BoundsInv, Within
    <3>7. QED
      BY <3>5, <3>6 DEF BoundsInv
  <2>3. QED
    BY <1>7, <2>1, <2>2 DEF ReleaseInventory
<1>8. ASSUME NEW p \in Procs, Statement(p)
      PROVE  BoundsInv'
  <2>1. /\ ApplyCoupon(p) => Creating(p)
        /\ CheckPerUserLimit(p) => Creating(p)
        /\ IncrementUsedCount(p) => Creating(p)
        /\ SelectOrder(p) => Changing(p)
        /\ UpdateOrder(p) => Changing(p)
    BY Kinds DEF TypeInv, ApplyCoupon, CheckPerUserLimit, IncrementUsedCount,
                 SelectOrder, UpdateOrder
  <2>2. CASE ReserveFind(p) \/ SaveUpdate(p)
    BY <2>2, ReserveFindBounds, SaveUpdateBounds
  <2>3. CASE SaveSelect(p) \/ ReleaseInventory(p)
    BY <2>3, <1>5, <1>7
  <2>4. CASE CommitOrder(p) \/ CommitStatus(p) \/ CommitStock(p)
    BY <2>4, <1>2 DEF CommitOrder, CommitStatus, CommitStock
  <2>5. CASE \/ ApplyCoupon(p) \/ CheckPerUserLimit(p) \/ IncrementUsedCount(p)
             \/ SelectOrder(p) \/ UpdateOrder(p)
    BY <2>1, <2>5, <1>2, <1>6 DEF ApplyCoupon, CheckPerUserLimit, SelectOrder
  <2>6. QED
    BY <1>8, <2>2, <2>3, <2>4, <2>5 DEF Statement
<1>9. ASSUME NEW p \in Procs, Fail(p) \/ DeadlockVictim(p)
      PROVE  BoundsInv'
  BY <1>2, <1>9 DEF Fail, DeadlockVictim
<1>10. QED
  BY <1>1, <1>4, <1>8, <1>9 DEF Next

(***************************************************************************)
(* While the administrator changes no quantity, 0 <= reserved <= quantity  *)
(* holds on every variant, under every interleaving of any number of       *)
(* orders and cancellations.                                               *)
(***************************************************************************)
THEOREM StockBounded == StockLevels = {} => (Spec => []StockBounds)
<1> SUFFICES ASSUME StockLevels = {} PROVE Spec => []StockBounds
  OBVIOUS
<1>1. Init => BoundsInv
  <2> SUFFICES ASSUME Init PROVE BoundsInv
    OBVIOUS
  <2>1. \A v \in Variants : Within(inv[v], v) /\ Within(row[v], v)
    BY ParametersAssumption DEF Init, Within
  <2>2. \A p \in Procs : tx[p].pc = "idle"
    BY DEF Init, Idle
  <2>3. QED
    BY <2>1, <2>2 DEF BoundsInv
<1>2. TypeInv /\ BoundsInv => StockBounds
  BY DEF TypeInv, TypeOK, BoundsInv, Within, StockBounds, InventoryRow
<1>3. TypeInv /\ BoundsInv /\ [Next]_vars => BoundsInv'
  BY NextBounds
<1>4. QED
  BY <1>1, <1>2, <1>3, InitTypes, NextTypes, PTL DEF Spec

-----------------------------------------------------------------------------
(* The coupon.                                                             *)

Labels == {"userLimit", "increment", "commit"}

\* Requests that found the coupon's limit, and user u's, not yet reached.
Passed == {p \in Procs : tx[p].pc \in Labels}

PassedUser(u) == {p \in Procs : /\ tx[p].pc \in {"increment", "commit"}
                                /\ tx[p].user = u}

(***************************************************************************)
(* The limits are overrun by those that passed the check and have not      *)
(* committed, so each counts them; the count is exact because the one that *)
(* is about to write it holds the coupon's lock since it read it.          *)
(***************************************************************************)
CountInv ==
  /\ IsFiniteSet(usages)
  /\ usedCount = Cardinality(usages)
  /\ \A x \in usages : order[x.id] # NONE
  /\ \A p \in Procs :
       /\ tx[p].pc \in Labels => tx[p].coupon
       /\ tx[p].pc = "commit" =>
            owner[COUPON] = p /\ tx[p].used = usedCount + 1

LimitInv ==
  /\ UsageLimit # 0 =>
       usedCount + Cardinality(Passed) <= UsageLimit + Cardinality(Procs) - 1
  /\ \A u \in Users :
       Cardinality(UsagesOf(u)) + Cardinality(PassedUser(u))
         <= PerUserLimit + Cardinality(Procs) - 1

CouponInv == CountInv /\ LimitInv

LEMMA ProcsFinite ==
  /\ IsFiniteSet(Procs) /\ Cardinality(Procs) \in Nat /\ Cardinality(Procs) >= 1
  /\ \A S \in SUBSET Procs : /\ IsFiniteSet(S) /\ Cardinality(S) \in Nat
                             /\ Cardinality(S) <= Cardinality(Procs)
<1>1. IsFiniteSet(Procs) /\ Procs # {}
  BY ParametersAssumption
<1>2. Cardinality(Procs) \in Nat /\ Cardinality(Procs) # 0
  BY <1>1, FS_CardinalityType, FS_EmptySet
<1>3. \A S \in SUBSET Procs : /\ IsFiniteSet(S) /\ Cardinality(S) \in Nat
                              /\ Cardinality(S) <= Cardinality(Procs)
  BY <1>1, FS_Subset, FS_CardinalityType
<1>4. QED
  BY <1>1, <1>2, <1>3

LEMMA SubsetCard ==
  ASSUME NEW S \in SUBSET Procs, NEW T \in SUBSET S
  PROVE  /\ Cardinality(S) \in Nat /\ Cardinality(T) \in Nat
         /\ Cardinality(T) <= Cardinality(S)
BY ProcsFinite, FS_Subset, FS_CardinalityType

\* A step in which nobody passes a check or commits an order with a coupon.
LEMMA QuietCoupon ==
  ASSUME TypeInv, CouponInv, UNCHANGED <<usedCount, usages>>,
         \A o \in OrderIds : order[o] # NONE => order'[o] # NONE,
         \A q \in Procs : tx'[q].pc \in Labels =>
           /\ tx[q].pc = tx'[q].pc
           /\ tx'[q].coupon = tx[q].coupon /\ tx'[q].user = tx[q].user
           /\ tx'[q].used = tx[q].used
           /\ owner[COUPON] = q => owner'[COUPON] = q
  PROVE  CouponInv'
<1>1. CountInv'
  BY DEF CouponInv, CountInv, TypeInv, TypeOK, Labels
<1>2. Passed' \subseteq Passed /\ Passed \subseteq Procs
  BY DEF Passed
<1>3. \A u \in Users : PassedUser(u)' \subseteq PassedUser(u) /\ PassedUser(u) \subseteq Procs
  BY DEF PassedUser, Labels
<1>4. /\ Cardinality(Passed') <= Cardinality(Passed)
      /\ Cardinality(Passed') \in Nat /\ Cardinality(Passed) \in Nat
  BY <1>2, SubsetCard
<1>5. \A u \in Users : /\ Cardinality(PassedUser(u)') <= Cardinality(PassedUser(u))
                       /\ Cardinality(PassedUser(u)') \in Nat
                       /\ Cardinality(PassedUser(u)) \in Nat
  BY <1>3, SubsetCard
<1>6. \A u \in Users : UsagesOf(u)' = UsagesOf(u) /\ Cardinality(UsagesOf(u)) \in Nat
  BY FS_Subset, FS_CardinalityType DEF UsagesOf, CouponInv, CountInv
<1>7. /\ UsageLimit \in Nat /\ PerUserLimit \in Nat /\ Cardinality(Procs) \in Nat
      /\ usedCount \in Nat
  BY ParametersAssumption, ProcsFinite DEF TypeInv, TypeOK
<1>8. LimitInv'
  BY <1>4, <1>5, <1>6, <1>7 DEF CouponInv, LimitInv
<1>9. QED
  BY <1>1, <1>8 DEF CouponInv

\* A step of p that is none of the coupon's.
LEMMA ElsewhereCoupon ==
  ASSUME TypeInv, CouponInv, NEW p \in Procs, UNCHANGED <<usedCount, usages>>,
         \A o \in OrderIds : order[o] # NONE => order'[o] # NONE,
         \A q \in Procs \ {p} : /\ tx'[q] = tx[q]
                                /\ owner[COUPON] = q => owner'[COUPON] = q,
         tx'[p].pc \notin Labels
  PROVE  CouponInv'
BY QuietCoupon

\* ROLLBACK and COMMIT release the locks of p and of nobody else.
LEMMA EndOfTransaction ==
  ASSUME TypeInv, NEW p \in Procs, Rollback(p) \/ CommitRows(p)
  PROVE  /\ \A q \in Procs \ {p} : /\ tx'[q] = tx[q]
                                   /\ owner[COUPON] = q => owner'[COUPON] = q
         /\ tx'[p] = Idle /\ Idle.pc \notin Labels
<1>1. COUPON \in Rows
  BY DEF Rows
<1>2. \A q \in Procs : tx'[q] = IF q = p THEN Idle ELSE tx[q]
  BY DEF Rollback, CommitRows, TypeInv, TypeOK
<1>3. owner'[COUPON] = IF owner[COUPON] = p THEN NONE ELSE owner[COUPON]
  BY <1>1 DEF Rollback, CommitRows
<1>4. QED
  BY <1>2, <1>3 DEF Idle, Labels

LEMMA RollbackCoupon ==
  ASSUME TypeInv, CouponInv, NEW p \in Procs, Rollback(p)
  PROVE  CouponInv'
<1>1. UNCHANGED <<usedCount, usages, order>>
  BY DEF Rollback
<1>2. QED
  BY <1>1, EndOfTransaction, ElsewhereCoupon

\* p passes the check of the limit: one more may use the coupon, and the
\* count was below the limit.
LEMMA ApplyCouponCoupon ==
  ASSUME TypeInv, CouponInv, NEW p \in Procs, ApplyCoupon(p), ~LimitReached
  PROVE  CouponInv'
<1> DEFINE t == [tx[p] EXCEPT !.pc = "userLimit"]
<1>1. Rollback(p) \/ (Goto(p, "userLimit") /\ UNCHANGED database)
  BY DEF ApplyCoupon
<1>2. CASE Rollback(p)
  BY <1>2, RollbackCoupon
<1>3. CASE Goto(p, "userLimit") /\ UNCHANGED database
  <2>1. tx' = [tx EXCEPT ![p] = t]
    BY <1>3 DEF Goto
  <2>2. tx[p].coupon /\ tx[p] \in CreateTx
    <3>1. tx[p].pc = "next" /\ tx[p].op = "create" /\ tx[p].coupon
      BY DEF ApplyCoupon
    <3>2. Creating(p)
      BY <3>1, Kinds DEF TypeInv
    <3>3. QED
      BY <3>1, <3>2 DEF Creating
  <2>3. t.pc = "userLimit" /\ t.coupon
    BY <2>2 DEF CreateTx
  <2>4. \A q \in Procs : tx'[q] = IF q = p THEN t ELSE tx[q]
    BY <2>1 DEF TypeInv, TypeOK
  <2>5. CountInv'
    BY <1>3, <2>3, <2>4 DEF CouponInv, CountInv, database, Labels
  <2>6. Passed' \subseteq Procs
    BY DEF Passed
  <2>7. \A u \in Users : PassedUser(u)' \subseteq PassedUser(u) /\ PassedUser(u) \subseteq Procs
    BY <2>3, <2>4 DEF PassedUser
  <2>8. Cardinality(Passed') \in Nat /\ Cardinality(Passed') <= Cardinality(Procs)
    BY <2>6, ProcsFinite
  <2>9. \A u \in Users : /\ Cardinality(PassedUser(u)') <= Cardinality(PassedUser(u))
                         /\ Cardinality(PassedUser(u)') \in Nat
                         /\ Cardinality(PassedUser(u)) \in Nat
    BY <2>7, SubsetCard
  <2>10. \A u \in Users : UsagesOf(u)' = UsagesOf(u) /\ Cardinality(UsagesOf(u)) \in Nat
    BY <1>3, FS_Subset, FS_CardinalityType DEF UsagesOf, CouponInv, CountInv, database
  <2>11. /\ UsageLimit \in Nat /\ PerUserLimit \in Nat /\ Cardinality(Procs) \in Nat
         /\ usedCount \in Nat /\ usedCount' = usedCount
    BY <1>3, ParametersAssumption, ProcsFinite DEF TypeInv, TypeOK, database
  <2>12. UsageLimit # 0 => usedCount <= UsageLimit - 1
    BY <2>11 DEF LimitReached
  <2>13. LimitInv'
    BY <2>8, <2>9, <2>10, <2>11, <2>12 DEF CouponInv, LimitInv
  <2>14. QED
    BY <2>5, <2>13 DEF CouponInv
<1>4. QED
  BY <1>1, <1>2, <1>3

\* The same of the limit per user.
LEMMA CheckPerUserLimitCoupon ==
  ASSUME TypeInv, CouponInv, NEW p \in Procs, CheckPerUserLimit(p),
         ~UserLimitReached(tx[p].user)
  PROVE  CouponInv'
<1> DEFINE t == [tx[p] EXCEPT !.pc = "increment"]
<1>1. Goto(p, "increment") /\ UNCHANGED database
  BY DEF CheckPerUserLimit
<1>2. tx' = [tx EXCEPT ![p] = t]
  BY <1>1 DEF Goto
<1>3. tx[p].pc = "userLimit" /\ tx[p].coupon /\ tx[p] \in CreateTx
  BY Kinds DEF CheckPerUserLimit, TypeInv, Creating, CouponInv, CountInv, Labels
<1>w. PICK w \in Users : w = tx[p].user
  BY <1>3 DEF CreateTx
<1>4. t.pc = "increment" /\ t.coupon /\ t.user = w
  BY <1>3, <1>w DEF CreateTx
<1>5. \A q \in Procs : tx'[q] = IF q = p THEN t ELSE tx[q]
  BY <1>2 DEF TypeInv, TypeOK
<1>6. CountInv'
  BY <1>1, <1>4, <1>5 DEF CouponInv, CountInv, database, Labels
<1>7. Passed' = Passed
  BY <1>3, <1>4, <1>5 DEF Passed, Labels
<1>8. \A u \in Users \ {w} : PassedUser(u)' = PassedUser(u)
  BY <1>3, <1>4, <1>5, <1>w DEF PassedUser
<1>9. Cardinality(PassedUser(w)') \in Nat /\ Cardinality(PassedUser(w)') <= Cardinality(Procs)
  <2>1. PassedUser(w)' \in SUBSET Procs
    BY DEF PassedUser
  <2>2. QED
    BY <2>1, ProcsFinite
<1>10. UNCHANGED <<usages, usedCount>>
  BY <1>1 DEF database
<1>11. \A u \in Users : UsagesOf(u)' = UsagesOf(u) /\ Cardinality(UsagesOf(u)) \in Nat
  BY <1>10, FS_Subset, FS_CardinalityType DEF UsagesOf, CouponInv, CountInv
<1>12. PerUserLimit \in Nat /\ Cardinality(Procs) \in Nat
  BY ParametersAssumption, ProcsFinite
<1>13. Cardinality(UsagesOf(w)) <= PerUserLimit - 1
  BY <1>w, <1>11, <1>12 DEF UserLimitReached
<1>14. \A u \in Users : Cardinality(UsagesOf(u)') + Cardinality(PassedUser(u)')
                          <= PerUserLimit + Cardinality(Procs) - 1
  <2>1. TAKE u \in Users
  <2>2. CASE u = w
    BY <2>2, <1>9, <1>11, <1>12, <1>13
  <2>3. CASE u # w
    BY <2>3, <1>8, <1>11 DEF CouponInv, LimitInv
  <2>4. QED
    BY <2>2, <2>3
<1>15. LimitInv'
  BY <1>7, <1>10, <1>14 DEF CouponInv, LimitInv
<1>16. QED
  BY <1>6, <1>15 DEF CouponInv

\* The increment reads the count and takes the lock in one statement.
LEMMA IncrementCoupon ==
  ASSUME TypeInv, CouponInv, NEW p \in Procs, IncrementUsedCount(p)
  PROVE  CouponInv'
<1> DEFINE t == [tx[p] EXCEPT !.pc = "commit", !.used = usedCount + 1]
<1>1. /\ tx' = [tx EXCEPT ![p] = t] /\ UNCHANGED <<usedCount, usages, order>>
      /\ tx[p].pc = "increment" /\ owner[COUPON] \in {NONE, p}
      /\ owner' = [owner EXCEPT ![COUPON] = p]
  BY DEF IncrementUsedCount, CanLock
<1>2. tx[p].coupon /\ tx[p] \in CreateTx
  BY <1>1, Kinds DEF TypeInv, Creating, CouponInv, CountInv, Labels
<1>3. t.pc = "commit" /\ t.coupon /\ t.user = tx[p].user /\ t.used = usedCount + 1
  BY <1>2 DEF CreateTx
<1>4. \A q \in Procs : tx'[q] = IF q = p THEN t ELSE tx[q]
  BY <1>1 DEF TypeInv, TypeOK
<1>5. owner'[COUPON] = p
  BY <1>1 DEF TypeInv, TypeOK, Rows
<1>6. p # NONE
  BY RowsAssumption
<1>7. \A q \in Procs \ {p} : tx[q].pc # "commit"
  BY <1>1, RowsAssumption DEF CouponInv, CountInv
<1>8. CountInv'
  BY <1>1, <1>3, <1>4, <1>5, <1>7 DEF CouponInv, CountInv, Labels
<1>9. Passed' = Passed
  BY <1>1, <1>3, <1>4 DEF Passed, Labels
<1>10. \A u \in Users : PassedUser(u)' = PassedUser(u)
  BY <1>1, <1>3, <1>4 DEF PassedUser
<1>11. \A u \in Users : UsagesOf(u)' = UsagesOf(u)
  BY <1>1 DEF UsagesOf
<1>12. LimitInv'
  BY <1>1, <1>9, <1>10, <1>11 DEF CouponInv, LimitInv
<1>13. QED
  BY <1>8, <1>12 DEF CouponInv

\* One that passed commits: it is counted as a usage instead.
LEMMA CommitOrderCoupon ==
  ASSUME TypeInv, CouponInv, NEW p \in Procs, CommitOrder(p)
  PROVE  CouponInv'
<1>1. Creating(p) /\ tx[p] \in CreateTx
  BY Kinds DEF TypeInv, CommitOrder, Creating
<1>2. CommitRows(p)
  BY DEF CommitOrder
<1>n. PICK new \in Order : order' = [order EXCEPT ![tx[p].id] = new]
  BY NewOrder
<1>3. /\ \A o \in OrderIds : order[o] # NONE => order'[o] # NONE
      /\ order'[tx[p].id] # NONE
  BY <1>1, <1>n, RowsAssumption DEF TypeInv, TypeOK, CreateTx
<1>4. CASE ~tx[p].coupon
  <2>1. UNCHANGED <<usedCount, usages>>
    BY <1>4 DEF CommitOrder
  <2>2. QED
    BY <1>2, <1>3, <2>1, EndOfTransaction, ElsewhereCoupon
<1>5. CASE tx[p].coupon
  <2> DEFINE x == [user |-> tx[p].user, id |-> tx[p].id]
  <2>1. /\ tx[p].pc = "commit" /\ usages' = usages \cup {x}
        /\ usedCount' = usedCount + 1
    BY <1>5 DEF CommitOrder, CouponInv, CountInv
  <2>2. x \notin usages /\ order'[x.id] # NONE /\ x.id \in OrderIds
    <3>1. order[tx[p].id] = NONE /\ tx[p].id \in OrderIds
      BY <1>1 DEF TypeInv, TxInv, CreateTx
    <3>2. QED
      BY <1>3, <3>1 DEF CouponInv, CountInv
  <2>3. IsFiniteSet(usages') /\ Cardinality(usages') = Cardinality(usages) + 1
    BY <2>1, <2>2, FS_AddElement DEF CouponInv, CountInv
  <2>4. \A q \in Procs : tx'[q] = IF q = p THEN Idle ELSE tx[q]
    BY <1>2, EndOfTransaction
  <2>i. Idle.pc = "idle"
    BY DEF Idle
  <2>5. \A q \in Procs \ {p} : tx[q].pc # "commit"
    BY <2>1 DEF CouponInv, CountInv
  <2>6. CountInv'
    <3>1. usedCount' = Cardinality(usages')
      BY <2>1, <2>3 DEF CouponInv, CountInv
    <3>2. \A y \in usages' : order'[y.id] # NONE
      BY <1>3, <2>1, <2>2 DEF CouponInv, CountInv, TypeInv, TypeOK
    <3>3. \A q \in Procs : /\ tx'[q].pc \in Labels => tx'[q].coupon
                           /\ tx'[q].pc # "commit"
      BY <2>4, <2>5, <2>i DEF CouponInv, CountInv, Labels
    <3>4. QED
      BY <2>3, <3>1, <3>2, <3>3 DEF CountInv
  <2>7. /\ Cardinality(Passed') = Cardinality(Passed) - 1
        /\ Cardinality(Passed) \in Nat
    <3>1. Passed' = Passed \ {p} /\ p \in Passed /\ Passed \in SUBSET Procs
      BY <2>1, <2>4, <2>i DEF Passed, Labels
    <3>2. QED
      BY <3>1, ProcsFinite, FS_RemoveElement
  <2>8. ASSUME NEW u \in Users
        PROVE  Cardinality(UsagesOf(u)') + Cardinality(PassedUser(u)')
                 = Cardinality(UsagesOf(u)) + Cardinality(PassedUser(u))
    <3>1. /\ IsFiniteSet(UsagesOf(u)) /\ Cardinality(UsagesOf(u)) \in Nat
          /\ PassedUser(u) \in SUBSET Procs
          /\ IsFiniteSet(PassedUser(u)) /\ Cardinality(PassedUser(u)) \in Nat
      <4>1. UsagesOf(u) \in SUBSET usages /\ PassedUser(u) \in SUBSET Procs
        BY DEF UsagesOf, PassedUser
      <4>2. QED
        BY <4>1, FS_Subset, FS_CardinalityType, ProcsFinite DEF CouponInv, CountInv
    <3>2. CASE u = tx[p].user
      <4>1. UsagesOf(u)' = UsagesOf(u) \cup {x} /\ x \notin UsagesOf(u)
        BY <2>1, <2>2, <3>2 DEF UsagesOf
      <4>2. PassedUser(u)' = PassedUser(u) \ {p} /\ p \in PassedUser(u)
        BY <2>1, <2>4, <2>i, <3>2 DEF PassedUser, Labels
      <4>3. Cardinality(UsagesOf(u)') = Cardinality(UsagesOf(u)) + 1
        BY <3>1, <4>1, FS_AddElement
      <4>4. Cardinality(PassedUser(u)') = Cardinality(PassedUser(u)) - 1
        BY <3>1, <4>2, FS_RemoveElement
      <4>5. QED
        BY <3>1, <4>3, <4>4
    <3>3. CASE u # tx[p].user
      <4>1. UsagesOf(u)' = UsagesOf(u)
        BY <2>1, <3>3 DEF UsagesOf
      <4>2. PassedUser(u)' = PassedUser(u)
        BY <2>1, <2>4, <2>i, <3>3 DEF PassedUser, Labels
      <4>3. QED
        BY <4>1, <4>2
    <3>4. QED
      BY <3>2, <3>3
  <2>9. usedCount \in Nat /\ UsageLimit \in Nat /\ Cardinality(Procs) \in Nat
    BY ParametersAssumption, ProcsFinite DEF TypeInv, TypeOK
  <2>10. LimitInv'
    BY <2>1, <2>7, <2>8, <2>9 DEF CouponInv, LimitInv
  <2>11. QED
    BY <2>6, <2>10 DEF CouponInv
<1>6. QED
  BY <1>4, <1>5

\* A request, or a statement, of p leaves what the others hold as it is.
LEMMA OthersKeep ==
  ASSUME TypeInv, NEW p \in Procs,
         \/ Request(p) \/ ReserveFind(p) \/ SaveSelect(p) \/ SaveUpdate(p)
         \/ SelectOrder(p) \/ UpdateOrder(p) \/ ReleaseInventory(p)
  PROVE  /\ UNCHANGED <<usedCount, usages, order>>
         /\ \A q \in Procs \ {p} : /\ tx'[q] = tx[q]
                                   /\ owner[COUPON] = q => owner'[COUPON] = q
<1>1. CASE Rollback(p)
  <2>1. UNCHANGED <<usedCount, usages, order>>
    BY <1>1 DEF Rollback
  <2>2. QED
    BY <1>1, <2>1, EndOfTransaction
<1>2. CASE Request(p)
  BY <1>2 DEF Request, CreateOrder, RequestCancellation, UpdateOrderStatus,
              UpdateVariantStock, database, TypeInv, TypeOK
<1>3. CASE ReserveFind(p)
  BY <1>1, <1>3 DEF ReserveFind, database, TypeInv, TypeOK
<1>4. CASE SaveSelect(p) \/ SelectOrder(p)
  BY <1>1, <1>4 DEF SaveSelect, SelectOrder, Goto, database, TypeInv, TypeOK
<1>5. ASSUME NEW r \in Variants \cup OrderIds, owner' = [owner EXCEPT ![r] = p]
      PROVE  owner'[COUPON] = owner[COUPON]
  BY <1>5, RowsAssumption DEF TypeInv, TypeOK
<1>6. CASE SaveUpdate(p)
  <2>1. Variant(p) \in Variants
    BY <1>6, EntityType DEF SaveUpdate
  <2>2. QED
    BY <1>5, <1>6, <2>1 DEF SaveUpdate, TypeInv, TypeOK
<1>7. CASE UpdateOrder(p)
  <2>1. tx[p].id \in OrderIds
    BY <1>7, Kinds DEF UpdateOrder, TypeInv, Changing, StatusTx
  <2>2. QED
    BY <1>5, <1>7, <2>1 DEF UpdateOrder, TypeInv, TypeOK
<1>8. CASE ReleaseInventory(p)
  <2>1. tx[p].lines \in Seq(Line) /\ tx[p].lines # <<>>
    BY <1>8, Kinds DEF ReleaseInventory, TypeInv, Changing, StatusTx
  <2>2. Variant(p) \in Variants
    BY <2>1, HeadAndTail DEF Variant, Line
  <2>3. QED
    BY <1>1, <1>5, <1>8, <2>2 DEF ReleaseInventory, TypeInv, TypeOK
<1>9. QED
  BY <1>2, <1>3, <1>4, <1>6, <1>7, <1>8

\* ... and is at none of the coupon's labels after it.
LEMMA OwnLabel ==
  ASSUME TypeInv, NEW p \in Procs,
         \/ Request(p) \/ ReserveFind(p) \/ SaveSelect(p) \/ SaveUpdate(p)
         \/ SelectOrder(p) \/ UpdateOrder(p) \/ ReleaseInventory(p)
  PROVE  tx'[p].pc \notin Labels
<1>1. CASE Rollback(p)
  BY <1>1, EndOfTransaction
<1>2. CASE Request(p)
  BY <1>2 DEF Request, CreateOrder, RequestCancellation, UpdateOrderStatus,
              UpdateVariantStock, StatusChange, Labels, TypeInv, TypeOK
<1>3. tx[p].pc \in {"next", "select", "update"} => Creating(p) \/ Stocking(p)
  BY Kinds DEF TypeInv
<1>4. tx[p].pc \in {"selectOrder", "updateOrder", "release"} => Changing(p)
  BY Kinds DEF TypeInv
<1>5. CASE ReserveFind(p)
  BY <1>1, <1>3, <1>5 DEF ReserveFind, Labels, Creating, Stocking, CreateTx,
                          StockTx, TypeInv, TypeOK
<1>6. CASE SaveSelect(p)
  BY <1>3, <1>6 DEF SaveSelect, Labels, Creating, Stocking, CreateTx, StockTx,
                    TypeInv, TypeOK
<1>7. CASE SaveUpdate(p)
  BY <1>3, <1>7 DEF SaveUpdate, Labels, Creating, Stocking, CreateTx, StockTx,
                    TypeInv, TypeOK
<1>8. CASE SelectOrder(p) \/ UpdateOrder(p)
  BY <1>1, <1>4, <1>8 DEF SelectOrder, UpdateOrder, Goto, Labels, Changing,
                          StatusTx, TypeInv, TypeOK
<1>9. CASE ReleaseInventory(p)
  BY <1>1, <1>4, <1>9 DEF ReleaseInventory, Labels, Changing, StatusTx, TypeInv, TypeOK
<1>10. QED
  BY <1>2, <1>5, <1>6, <1>7, <1>8, <1>9

LEMMA NextCoupon ==
  ASSUME TypeInv, CouponInv, [Next]_vars
  PROVE  CouponInv'
<1>1. CASE UNCHANGED vars
  <2>1. UNCHANGED <<usedCount, usages, order, owner, tx>>
    BY <1>1 DEF vars
  <2>2. QED
    BY <2>1, QuietCoupon
<1>2. ASSUME NEW p \in Procs,
             \/ Request(p) \/ ReserveFind(p) \/ SaveSelect(p) \/ SaveUpdate(p)
             \/ SelectOrder(p) \/ UpdateOrder(p) \/ ReleaseInventory(p)
      PROVE  CouponInv'
  <2>1. /\ UNCHANGED <<usedCount, usages, order>>
        /\ \A q \in Procs \ {p} : /\ tx'[q] = tx[q]
                                  /\ owner[COUPON] = q => owner'[COUPON] = q
    BY <1>2, OthersKeep
  <2>2. tx'[p].pc \notin Labels
    BY <1>2, OwnLabel
  <2>3. \A o \in OrderIds : order[o] # NONE => order'[o] # NONE
    BY <2>1
  <2>4. UNCHANGED <<usedCount, usages>>
    BY <2>1
  <2>5. \A q \in Procs \ {p} : /\ tx'[q] = tx[q]
                               /\ owner[COUPON] = q => owner'[COUPON] = q
    BY <2>1
  <2>6. QED
    BY <2>2, <2>3, <2>4, <2>5, ElsewhereCoupon
<1>3. ASSUME NEW p \in Procs, CommitStatus(p) \/ CommitStock(p)
      PROVE  CouponInv'
  <2>1. CommitRows(p) /\ UNCHANGED <<usedCount, usages>>
    BY <1>3 DEF CommitStatus, CommitStock
  <2>2. \A o \in OrderIds : order[o] # NONE => order'[o] # NONE
    <3>1. CASE CommitStatus(p)
      BY <3>1, CommitStatusTypes
    <3>2. CASE CommitStock(p)
      BY <3>2 DEF CommitStock
    <3>3. QED
      BY <1>3, <3>1, <3>2
  <2>3. QED
    BY <2>1, <2>2, EndOfTransaction, ElsewhereCoupon
<1>4. ASSUME NEW p \in Procs, ApplyCoupon(p) \/ CheckPerUserLimit(p)
      PROVE  CouponInv'
  <2>1. CASE Rollback(p)
    BY <2>1, RollbackCoupon
  <2>2. CASE ApplyCoupon(p) /\ ~Rollback(p)
    <3>1. ~LimitReached
      BY <2>2 DEF ApplyCoupon
    <3>2. QED
      BY <2>2, <3>1, ApplyCouponCoupon
  <2>3. CASE CheckPerUserLimit(p) /\ ~Rollback(p)
    <3>1. ~UserLimitReached(tx[p].user)
      BY <2>3 DEF CheckPerUserLimit
    <3>2. QED
      BY <2>3, <3>1, CheckPerUserLimitCoupon
  <2>4. QED
    BY <1>4, <2>1, <2>2, <2>3
<1>5. ASSUME NEW p \in Procs, Statement(p)
      PROVE  CouponInv'
  BY <1>2, <1>3, <1>4, <1>5, IncrementCoupon, CommitOrderCoupon DEF Statement
<1>6. ASSUME NEW p \in Procs, Fail(p) \/ DeadlockVictim(p)
      PROVE  CouponInv'
  BY <1>6, RollbackCoupon DEF Fail, DeadlockVictim
<1>7. QED
  BY <1>1, <1>2, <1>5, <1>6 DEF Next

LEMMA InitCoupon == Init => CouponInv
<1> SUFFICES ASSUME Init PROVE CouponInv
  OBVIOUS
<1>1. usages = {} /\ usedCount = 0 /\ \A p \in Procs : tx[p].pc = "idle"
  BY DEF Init, Idle
<1>2. IsFiniteSet({}) /\ Cardinality({}) = 0
  BY FS_EmptySet
<1>3. CountInv
  BY <1>1, <1>2 DEF CountInv, Labels
<1>4. Passed = {} /\ \A u \in Users : UsagesOf(u) = {} /\ PassedUser(u) = {}
  BY <1>1 DEF Passed, PassedUser, UsagesOf, Labels
<1>5. LimitInv
  <2>1. UsageLimit \in Nat /\ PerUserLimit \in Nat
    BY ParametersAssumption
  <2>2. Cardinality(Procs) \in Nat /\ Cardinality(Procs) >= 1
    BY ProcsFinite
  <2>3. Cardinality(Passed) = 0
    BY <1>2, <1>4
  <2>4. \A u \in Users : Cardinality(UsagesOf(u)) = 0 /\ Cardinality(PassedUser(u)) = 0
    BY <1>2, <1>4
  <2>5. QED
    BY <1>1, <2>1, <2>2, <2>3, <2>4 DEF LimitInv
<1>6. QED
  BY <1>3, <1>5 DEF CouponInv

(***************************************************************************)
(* coupons.used_count counts the usages exactly, under every interleaving. *)
(***************************************************************************)
THEOREM UsedCountIsExact == Spec => []UsedCountExact
<1>1. CouponInv => UsedCountExact
  BY DEF CouponInv, CountInv, UsedCountExact
<1>2. TypeInv /\ CouponInv /\ [Next]_vars => CouponInv'
  BY NextCoupon
<1>3. QED
  BY <1>1, <1>2, InitCoupon, InitTypes, NextTypes, PTL DEF Spec

(***************************************************************************)
(* N requests at once overrun the coupon's limits by at most N - 1.        *)
(***************************************************************************)
THEOREM CouponLimit == Spec => []CouponOvershoot
<1>1. TypeInv /\ CouponInv => CouponOvershoot
  <2> SUFFICES ASSUME TypeInv, CouponInv PROVE CouponOvershoot
    OBVIOUS
  <2>1. Passed \in SUBSET Procs
    BY DEF Passed
  <2>2. Cardinality(Passed) \in Nat /\ Cardinality(Procs) \in Nat
    BY <2>1, ProcsFinite
  <2>3. UsageLimit \in Nat /\ usedCount \in Nat
    BY ParametersAssumption DEF TypeInv, TypeOK
  <2>4. QED
    BY <2>2, <2>3 DEF CouponInv, LimitInv, CouponOvershoot
<1>2. TypeInv /\ CouponInv /\ [Next]_vars => CouponInv'
  BY NextCoupon
<1>3. QED
  BY <1>1, <1>2, InitCoupon, InitTypes, NextTypes, PTL DEF Spec

(***************************************************************************)
(* The same of the limit per user, for every user: passing the check makes *)
(* a request count at most once.                                           *)
(***************************************************************************)
THEOREM PerUserLimitBound == Spec => []PerUserOvershoot
<1>1. TypeInv /\ CouponInv => PerUserOvershoot
  <2> SUFFICES ASSUME TypeInv, CouponInv, NEW u \in Users
               PROVE  Cardinality(UsagesOf(u)) <= PerUserLimit + Cardinality(Procs) - 1
    BY DEF PerUserOvershoot
  <2>1. PassedUser(u) \in SUBSET Procs
    BY DEF PassedUser
  <2>2. Cardinality(UsagesOf(u)) \in Nat
    BY FS_Subset, FS_CardinalityType DEF UsagesOf, CouponInv, CountInv
  <2>3. QED
    BY <2>1, <2>2, ProcsFinite, ParametersAssumption DEF CouponInv, LimitInv
<1>2. TypeInv /\ CouponInv /\ [Next]_vars => CouponInv'
  BY NextCoupon
<1>3. QED
  BY <1>1, <1>2, InitCoupon, InitTypes, NextTypes, PTL DEF Spec
=============================================================================
