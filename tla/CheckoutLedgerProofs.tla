------------------------ MODULE CheckoutLedgerProofs ------------------------
(***************************************************************************)
(* Requests served one at a time implement the ledger, for every set of    *)
(* users, variants and orders: a transaction shows all at once or not at   *)
(* all, and what it commits is what the ledger allows.                     *)
(***************************************************************************)
EXTENDS CheckoutAccountingProofs

-----------------------------------------------------------------------------
(* The inductive invariant: what the one request p knows and has written.  *)

\* Its save knows the row as it is, and writes where its entity differs.
SavesFresh(p) ==
  /\ tx[p].pc \in {"select", "update"} =>
       /\ tx[p].base = row[Variant(p)]
       /\ Creating(p) => ~Insufficient(tx[p].base, Head(tx[p].lines))
  /\ tx[p].pc = "update" =>
       tx[p].cols = {c \in Columns : Entity(p)[c] # row[Variant(p)][c]}

\* What it has written so far: nothing; a quantity, to be committed next;
\* reservations only.
Written(p) ==
  /\ tx[p] = Idle => row = inv
  /\ Stocking(p) =>
       IF tx[p].pc = "next"
       THEN \E v \in Variants, level \in StockLevels : row = [inv EXCEPT ![v].quantity = level]
       ELSE row = inv
  /\ Creating(p) \/ Changing(p) => \A v \in Variants : row[v].quantity = inv[v].quantity

\* Reservations it has made were available.
Available(p) ==
  Creating(p) =>
    \A v \in Variants :
      row[v].reserved = inv[v].reserved \/ row[v].reserved <= row[v].quantity

\* The check it made before it began still holds.
Allowed(p) ==
  Changing(p) =>
    IF tx[p].by = "customer" THEN IsCancellableByCustomer(order[tx[p].id].status)
    ELSE CanTransition(order[tx[p].id].status, tx[p].to)

Serial(p) == raced = {} /\ SavesFresh(p) /\ Written(p) /\ Available(p) /\ Allowed(p)

-----------------------------------------------------------------------------

\* A record is of one kind.
LEMMA OneKind ==
  ASSUME NEW t
  PROVE  /\ t \in CreateTx => t \notin StatusTx \cup StockTx \cup {Idle}
         /\ t \in StatusTx => /\ t \notin StockTx \cup {Idle}
                              /\ t.pc \notin {"select", "update", "next"}
         /\ t \in StockTx => t # Idle
<1>1. /\ t \in CreateTx => t.op = "create" /\ t.pc # "idle"
      /\ t \in StatusTx => t.op = "status" /\ t.pc \in {"selectOrder", "updateOrder", "release"}
      /\ t \in StockTx => t.op = "stock" /\ t.pc # "idle"
  BY DEF CreateTx, StatusTx, StockTx
<1>2. Idle.pc = "idle"
  BY DEF Idle
<1>3. QED
  BY <1>1, <1>2

\* What one request alone reads is the latest version.
LEMMA OneReader ==
  ASSUME TypeInv, Account, NEW p, Procs = {p}, raced = {}, NEW v \in Variants
  PROVE  /\ owner[v] \in {NONE, p} /\ (owner[v] = NONE => row[v] = inv[v])
         /\ Read(p, v) = row[v]
         /\ row[v].reserved = inv[v].reserved + Moved(p, v)
         /\ row[v].reserved \in Nat /\ row[v].quantity \in Nat
         /\ inv[v].reserved \in Nat /\ inv[v].quantity \in Nat
         /\ Moved(p, v) \in Int
<1>1. /\ owner[v] \in {NONE, p} /\ (owner[v] = NONE => row[v] = inv[v]) /\ p # NONE
  BY RowsAssumption DEF TypeInv, TypeOK, Rows, Account, RowsInv
<1>2. /\ row[v].reserved \in Nat /\ row[v].quantity \in Nat
      /\ inv[v].reserved \in Nat /\ inv[v].quantity \in Nat
  BY DEF TypeInv, TypeOK, InventoryRow
<1>3. Moved(p, v) \in Int
  BY MovedType
<1>4. row[v].reserved = inv[v].reserved + Moved(p, v)
  <2>1. CASE owner[v] = p
    BY <2>1 DEF Account, RowsInv
  <2>2. CASE owner[v] = NONE
    <3>1. row[v] = inv[v] /\ Moved(p, v) = 0
      BY <1>1, <2>2 DEF Account, RowsInv
    <3>2. QED
      BY <1>2, <3>1
  <2>3. QED
    BY <1>1, <2>1, <2>2
<1>5. QED
  BY <1>1, <1>2, <1>3, <1>4 DEF Read

\* Two versions of a row with the same quantity.
LEMMA SameRow ==
  ASSUME NEW r \in InventoryRow, NEW s \in InventoryRow, r.quantity = s.quantity
  PROVE  r = [s EXCEPT !.reserved = r.reserved]
  BY DEF InventoryRow

-----------------------------------------------------------------------------
(* Ends of transactions.                                                   *)

LEMMA RollbackSerial ==
  ASSUME TypeInv, Account, NEW p, Procs = {p}, Serial(p), Rollback(p)
  PROVE  Serial(p)'
<1>1. tx'[p] = Idle /\ raced' = {}
  BY DEF Rollback, Serial, TypeInv, TypeOK
<1>2. row' = inv'
  <2>1. \A v \in Variants : owner[v] = p \/ row[v] = inv[v]
    BY OneReader DEF Serial
  <2>2. row' = [v \in Variants |-> inv[v]]
    BY <2>1 DEF Rollback
  <2>3. QED
    BY <2>2 DEF Rollback, TypeInv, TypeOK
<1>3. Idle.pc = "idle"
  BY DEF Idle
<1>4. QED
  BY <1>1, <1>2, <1>3, OneKind
     DEF Serial, SavesFresh, Written, Available, Allowed, Creating, Changing, Stocking

LEMMA CommitSerial ==
  ASSUME TypeInv, Account, NEW p, Procs = {p}, Serial(p), CommitRows(p)
  PROVE  Serial(p)' /\ inv' = row
<1>1. tx'[p] = Idle /\ raced' = {}
  BY DEF CommitRows, Saving, Serial, TypeInv, TypeOK
<1>2. inv' = row /\ row' = row
  <2>1. \A v \in Variants : owner[v] = p \/ row[v] = inv[v]
    BY OneReader DEF Serial
  <2>2. inv' = [v \in Variants |-> row[v]]
    BY <2>1 DEF CommitRows
  <2>3. QED
    BY <2>2 DEF CommitRows, TypeInv, TypeOK
<1>3. Idle.pc = "idle"
  BY DEF Idle
<1>4. QED
  BY <1>1, <1>2, <1>3, OneKind
     DEF Serial, SavesFresh, Written, Available, Allowed, Creating, Changing, Stocking

-----------------------------------------------------------------------------
(* Requests arrive.                                                        *)

LEMMA CreateOrderSerial ==
  ASSUME TypeInv, NEW p, Procs = {p}, Serial(p), NEW u \in Users,
         NEW items \in Baskets \cup {<<>>}, NEW coupon \in BOOLEAN,
         CreateOrder(p, u, items, coupon)
  PROVE  Serial(p)'
<1> DEFINE lines == IF items = <<>> THEN cart[u] ELSE items
<1>1. lines \in Seq(Line)
  BY ParametersAssumption DEF TypeInv, TypeOK
<1>2. PICK o \in OrderIds :
        tx' = [tx EXCEPT ![p] =
                    [pc |-> "next", op |-> "create", id |-> o, user |-> u,
                     items |-> lines, lines |-> lines,
                     fromCart |-> items = <<>>, coupon |-> coupon,
                     base |-> NONE, cols |-> {}, used |-> 0]]
  BY DEF CreateOrder
<1>3. tx'[p].pc = "next" /\ tx'[p] \in CreateTx
  BY <1>1, <1>2 DEF TypeInv, TypeOK, CreateTx
<1>4. row = inv /\ UNCHANGED <<inv, row, order, raced>>
  BY Kinds DEF CreateOrder, database, Serial, Written, TypeInv
<1>5. QED
  BY <1>3, <1>4, OneKind
     DEF Serial, SavesFresh, Written, Available, Allowed, Creating, Changing, Stocking

LEMMA StatusChangeSerial ==
  ASSUME TypeInv, NEW p, Procs = {p}, Serial(p), tx[p].pc = "idle",
         NEW o, NEW to, NEW by,
         tx' = [tx EXCEPT ![p] = StatusChange(o, to, by)], UNCHANGED database,
         IF by = "customer" THEN IsCancellableByCustomer(order[o].status)
         ELSE CanTransition(order[o].status, to)
  PROVE  Serial(p)'
<1>1. /\ tx'[p].pc = "selectOrder" /\ tx'[p].op = "status" /\ tx'[p].id = o
      /\ tx'[p].by = by /\ tx'[p].to = to
  BY DEF StatusChange, TypeInv, TypeOK
<1>2. tx'[p] \notin CreateTx \cup StockTx \cup {Idle}
  BY <1>1 DEF CreateTx, StockTx, Idle
<1>3. row = inv /\ UNCHANGED <<inv, row, order, raced>>
  BY Kinds DEF database, Serial, Written, TypeInv
<1>4. QED
  BY <1>1, <1>2, <1>3
     DEF Serial, SavesFresh, Written, Available, Allowed, Creating, Changing, Stocking

LEMMA UpdateVariantStockSerial ==
  ASSUME TypeInv, NEW p, Procs = {p}, Serial(p), NEW v \in Variants, NEW level \in StockLevels,
         UpdateVariantStock(p, v, level)
  PROVE  Serial(p)'
<1>1. /\ tx'[p].pc = "select" /\ tx'[p].op = "stock" /\ tx'[p].base = inv[v]
      /\ Variant(p)' = v
  BY DEF UpdateVariantStock, Variant, TypeInv, TypeOK
<1>2. tx'[p] \notin CreateTx \cup StatusTx \cup {Idle}
  BY <1>1 DEF CreateTx, StatusTx, Idle
<1>3. row = inv /\ UNCHANGED <<inv, row, order, raced>>
  BY Kinds DEF UpdateVariantStock, database, Serial, Written, TypeInv
<1>4. QED
  BY <1>1, <1>2, <1>3
     DEF Serial, SavesFresh, Written, Available, Allowed, Creating, Changing, Stocking

-----------------------------------------------------------------------------
(* Statements.                                                             *)

\* One that is not about an inventory row.
LEMMA ElsewhereSerial ==
  ASSUME TypeInv, NEW p, Procs = {p}, Serial(p), NEW t, tx' = [tx EXCEPT ![p] = t],
         UNCHANGED <<inv, row, order, raced>>, t.pc \notin {"select", "update"},
         \/ Creating(p) /\ t \in CreateTx
         \/ Changing(p) /\ t \in StatusTx /\ t.id = tx[p].id /\ t.by = tx[p].by /\ t.to = tx[p].to
  PROVE  Serial(p)'
<1>1. tx'[p] = t
  BY DEF TypeInv, TypeOK
<1>2. QED
  BY <1>1, OneKind
     DEF Serial, SavesFresh, Written, Available, Allowed, Creating, Changing, Stocking

LEMMA ReserveFindSerial ==
  ASSUME TypeInv, Account, NEW p, Procs = {p}, Serial(p), ReserveFind(p)
  PROVE  Serial(p)'
<1> DEFINE read == Read(p, Variant(p))
           t == [tx[p] EXCEPT !.pc = "select", !.base = read]
<1>1. Creating(p) /\ tx[p].lines # <<>> /\ tx[p].lines \in Seq(Line)
  BY Kinds DEF TypeInv, ReserveFind, Creating, CreateTx
<1>2. CASE Rollback(p)
  BY <1>2, RollbackSerial
<1>3. CASE ~Insufficient(read, Head(tx[p].lines))
  <2>1. tx' = [tx EXCEPT ![p] = t] /\ UNCHANGED <<inv, row, order, raced>>
    BY <1>3 DEF ReserveFind, database
  <2>2. Variant(p) \in Variants
    BY <1>1, HeadAndTail DEF Variant, Line
  <2>3. read = row[Variant(p)] /\ read \in InventoryRow
    BY <2>2, OneReader DEF Serial, TypeInv, TypeOK
  <2>4. /\ tx'[p] = t /\ t \in CreateTx /\ t.pc = "select" /\ t.base = read
        /\ t.lines = tx[p].lines
    BY <1>1, <2>1, <2>3 DEF Creating, CreateTx, TypeInv, TypeOK
  <2>5. Variant(p)' = Variant(p)
    BY <2>4 DEF Variant
  <2>6. SavesFresh(p)'
    <3>1. tx'[p].base = row'[Variant(p)'] /\ tx'[p].pc # "update"
      BY <2>1, <2>3, <2>4, <2>5
    <3>2. ~Insufficient(tx'[p].base, Head(tx'[p].lines))
      BY <1>3, <2>4
    <3>3. QED
      BY <3>1, <3>2 DEF SavesFresh, Insufficient
  <2>7. QED
    BY <1>1, <2>1, <2>4, <2>6, OneKind
       DEF Serial, Written, Available, Allowed, Creating, Changing, Stocking
<1>4. QED
  BY <1>2, <1>3 DEF ReserveFind

LEMMA SaveSelectSerial ==
  ASSUME TypeInv, Account, NEW p, Procs = {p}, Serial(p), SaveSelect(p)
  PROVE  Serial(p)'
<1> DEFINE cols == {c \in {"quantity", "reserved"} : Entity(p)[c] # Read(p, Variant(p))[c]}
           t == [tx[p] EXCEPT !.pc = "update", !.cols = cols]
<1>1. (Creating(p) \/ Stocking(p)) /\ tx[p].pc = "select" /\ Variant(p) \in Variants
  BY Kinds, EntityType DEF TypeInv, SaveSelect
<1>2. tx' = [tx EXCEPT ![p] = t] /\ UNCHANGED <<inv, row, order, raced>>
  BY DEF SaveSelect, database
<1>3. /\ tx'[p] = t /\ t.pc = "update" /\ t.lines = tx[p].lines /\ t.base = tx[p].base
      /\ t.cols = cols /\ t.op = tx[p].op
      /\ Stocking(p) => t.level = tx[p].level
      /\ Creating(p) => t \in CreateTx
      /\ Stocking(p) => t \in StockTx
  BY <1>1, <1>2 DEF Creating, Stocking, CreateTx, StockTx, Columns, TypeInv, TypeOK
<1>4. Variant(p)' = Variant(p) /\ Entity(p)' = Entity(p)
  <2>1. tx[p].op = "stock" => Stocking(p)
    BY <1>1 DEF Creating, CreateTx
  <2>2. QED
    BY <1>3, <2>1 DEF Variant, Entity
<1>5. cols = {c \in Columns : Entity(p)[c] # row[Variant(p)][c]}
  BY <1>1, OneReader DEF Serial, Columns
<1>6. SavesFresh(p)'
  <2>1. tx'[p].base = row'[Variant(p)']
    BY <1>1, <1>2, <1>3, <1>4 DEF Serial, SavesFresh
  <2>2. Creating(p)' => ~Insufficient(tx'[p].base, Head(tx'[p].lines))
    <3>1. Creating(p)' => Creating(p)
      BY <1>1, <1>3, OneKind DEF Creating, Stocking
    <3>2. QED
      BY <1>1, <1>3, <3>1 DEF Serial, SavesFresh
  <2>3. tx'[p].cols = {c \in Columns : Entity(p)'[c] # row'[Variant(p)'][c]}
    BY <1>2, <1>3, <1>4, <1>5
  <2>4. QED
    BY <2>1, <2>2, <2>3 DEF SavesFresh, Insufficient
<1>7. QED
  BY <1>1, <1>2, <1>3, <1>6, OneKind
     DEF Serial, Written, Available, Allowed, Creating, Changing, Stocking

\* The save makes the latest version what its entity is.
LEMMA SaveWritesEntity ==
  ASSUME TypeInv, Account, NEW p, Procs = {p}, Serial(p), SaveUpdate(p)
  PROVE  /\ Variant(p) \in Variants /\ Entity(p) \in InventoryRow
         /\ row' = [row EXCEPT ![Variant(p)] = Entity(p)]
<1>1. Variant(p) \in Variants /\ Entity(p) \in InventoryRow /\ row[Variant(p)] \in InventoryRow
  BY EntityType DEF SaveUpdate, TypeInv, TypeOK
<1> DEFINE new == [c \in {"quantity", "reserved"} |->
                     IF c \in tx[p].cols THEN Entity(p)[c] ELSE row[Variant(p)][c]]
<1>2. tx[p].cols = {c \in Columns : Entity(p)[c] # row[Variant(p)][c]}
  BY DEF Serial, SavesFresh, SaveUpdate
<1>3. \A c \in {"quantity", "reserved"} : new[c] = Entity(p)[c]
  BY <1>2 DEF Columns
<1>4. new = Entity(p)
  BY <1>1, <1>3 DEF InventoryRow
<1>5. row' = [row EXCEPT ![Variant(p)] = new]
  BY DEF SaveUpdate
<1>6. QED
  BY <1>1, <1>4, <1>5

LEMMA SaveUpdateSerial ==
  ASSUME TypeInv, Account, NEW p, Procs = {p}, Serial(p), SaveUpdate(p)
  PROVE  Serial(p)'
<1> DEFINE v == Variant(p)
           t == [tx[p] EXCEPT !.pc = "next", !.lines = Tail(@)]
<1>1. /\ Creating(p) \/ Stocking(p)
      /\ tx[p].pc = "update" /\ tx[p].lines # <<>> /\ tx[p].lines \in Seq(Line)
  <2>1. Creating(p) \/ Stocking(p)
    BY Kinds DEF TypeInv, SaveUpdate
  <2>2. QED
    BY <2>1 DEF TypeInv, TxInv, SaveUpdate, Creating, Stocking, CreateTx, StockTx
<1>2. tx' = [tx EXCEPT ![p] = t] /\ UNCHANGED <<inv, order, raced>>
  BY DEF SaveUpdate
<1>3. Tail(tx[p].lines) \in Seq(Line)
  BY <1>1, HeadAndTail
<1>4. /\ tx'[p] = t /\ t.pc = "next"
      /\ Creating(p) => t \in CreateTx
      /\ Stocking(p) => t \in StockTx
  BY <1>1, <1>2, <1>3 DEF Creating, Stocking, CreateTx, StockTx, TypeInv, TypeOK
<1>5. /\ v \in Variants /\ Entity(p) \in InventoryRow
      /\ row' = [row EXCEPT ![v] = Entity(p)]
  BY SaveWritesEntity
<1>6. tx[p].base = row[v] /\ row[v] \in InventoryRow /\ row \in [Variants -> InventoryRow]
  BY <1>1, <1>5 DEF Serial, SavesFresh, TypeInv, TypeOK
<1>7. CASE Creating(p)
  <2>1. Creating(p)' /\ ~Changing(p)' /\ ~Stocking(p)' /\ tx'[p] # Idle
    BY <1>4, <1>7, OneKind DEF Creating, Changing, Stocking
  <2>2. Head(tx[p].lines).quantity \in Nat /\ tx[p].op = "create"
    BY <1>1, <1>7, HeadAndTail DEF Line, Creating, CreateTx
  <2>3. /\ Entity(p).quantity = row[v].quantity
        /\ Entity(p).reserved = row[v].reserved + Head(tx[p].lines).quantity
    BY <1>6, <2>2 DEF Entity, InventoryRow
  <2>4. Entity(p).reserved <= Entity(p).quantity
    <3>1. ~Insufficient(row[v], Head(tx[p].lines))
      BY <1>1, <1>6, <1>7 DEF Serial, SavesFresh
    <3>2. row[v].reserved \in Nat /\ row[v].quantity \in Nat
      BY <1>6 DEF InventoryRow
    <3>3. QED
      BY <2>2, <2>3, <3>1, <3>2 DEF Insufficient
  <2>5. \A w \in Variants : row[w].quantity = inv[w].quantity
    BY <1>7 DEF Serial, Written
  <2>6. \A w \in Variants : row[w].reserved = inv[w].reserved \/ row[w].reserved <= row[w].quantity
    BY <1>7 DEF Serial, Available
  <2>7. \A w \in Variants : row'[w] = IF w = v THEN Entity(p) ELSE row[w]
    BY <1>5, <1>6
  <2>8. Written(p)' /\ Available(p)'
    BY <1>2, <2>1, <2>3, <2>4, <2>5, <2>6, <2>7 DEF Written, Available
  <2>9. QED
    BY <1>2, <1>4, <2>1, <2>8 DEF Serial, SavesFresh, Allowed
<1>8. CASE Stocking(p)
  <2>1. Stocking(p)' /\ ~Creating(p)' /\ ~Changing(p)' /\ tx'[p] # Idle
    BY <1>4, <1>8, OneKind DEF Creating, Changing, Stocking
  <2>2. tx[p].op = "stock" /\ tx[p].level \in StockLevels
    BY <1>8 DEF Stocking, StockTx
  <2>3. Entity(p) = [row[v] EXCEPT !.quantity = tx[p].level]
    BY <1>6, <2>2 DEF Entity
  <2>4. row = inv
    BY <1>1, <1>8 DEF Serial, Written
  <2>5. row' = [inv' EXCEPT ![v].quantity = tx[p].level]
    BY <1>2, <1>5, <1>6, <2>3, <2>4
  <2>6. Written(p)'
    BY <1>4, <1>5, <2>1, <2>2, <2>5 DEF Written
  <2>7. QED
    BY <1>2, <1>4, <2>1, <2>6 DEF Serial, SavesFresh, Allowed, Available
<1>9. QED
  BY <1>1, <1>7, <1>8

LEMMA LabelSerial ==
  ASSUME TypeInv, Account, NEW p, Procs = {p}, Serial(p),
         ApplyCoupon(p) \/ CheckPerUserLimit(p) \/ IncrementUsedCount(p)
  PROVE  Serial(p)'
<1>1. Creating(p)
  BY Kinds DEF TypeInv, ApplyCoupon, CheckPerUserLimit, IncrementUsedCount
<1>2. CASE Rollback(p)
  BY <1>2, RollbackSerial
<1>3. CASE IncrementUsedCount(p)
  <2> DEFINE t == [tx[p] EXCEPT !.pc = "commit", !.used = usedCount + 1]
  <2>1. tx' = [tx EXCEPT ![p] = t] /\ UNCHANGED <<inv, row, order, raced>>
    BY <1>3 DEF IncrementUsedCount
  <2>2. t \in CreateTx /\ t.pc = "commit"
    <3>1. usedCount + 1 \in Nat
      BY DEF TypeInv, TypeOK
    <3>2. QED
      BY <1>1, <3>1 DEF Creating, CreateTx
  <2>3. QED
    BY <1>1, <2>1, <2>2, ElsewhereSerial
<1>4. CASE ~Rollback(p) /\ ~IncrementUsedCount(p)
  <2>1. PICK l \in {"userLimit", "increment"} :
          tx' = [tx EXCEPT ![p].pc = l] /\ UNCHANGED <<inv, row, order, raced>>
    BY <1>4 DEF ApplyCoupon, CheckPerUserLimit, Goto, database
  <2> DEFINE t == [tx[p] EXCEPT !.pc = l]
  <2>2. tx' = [tx EXCEPT ![p] = t] /\ t \in CreateTx /\ t.pc = l
    BY <1>1, <2>1 DEF Creating, CreateTx
  <2>3. QED
    BY <1>1, <2>1, <2>2, ElsewhereSerial
<1>5. QED
  BY <1>2, <1>3, <1>4

LEMMA OrderSerial ==
  ASSUME TypeInv, Account, NEW p, Procs = {p}, Serial(p), SelectOrder(p) \/ UpdateOrder(p)
  PROVE  Serial(p)'
<1>1. Changing(p)
  BY Kinds DEF TypeInv, SelectOrder, UpdateOrder
<1>2. CASE Rollback(p)
  BY <1>2, RollbackSerial
<1>3. CASE SelectOrder(p) /\ ~Rollback(p)
  <2> DEFINE t == [tx[p] EXCEPT !.pc = "updateOrder"]
  <2>1. tx' = [tx EXCEPT ![p] = t] /\ UNCHANGED <<inv, row, order, raced>>
    BY <1>3 DEF SelectOrder, Goto, database
  <2>2. /\ t \in StatusTx /\ t.pc = "updateOrder"
        /\ t.id = tx[p].id /\ t.by = tx[p].by /\ t.to = tx[p].to
    BY <1>1 DEF Changing, StatusTx
  <2>3. QED
    BY <1>1, <2>1, <2>2, ElsewhereSerial
<1>4. CASE UpdateOrder(p)
  <2> DEFINE lines == IF tx[p].by = "customer" THEN order[tx[p].id].items ELSE <<>>
             t == [tx[p] EXCEPT !.pc = "release", !.lines = lines]
  <2>1. tx' = [tx EXCEPT ![p] = t] /\ UNCHANGED <<inv, row, order, raced>>
    BY <1>4 DEF UpdateOrder
  <2>2. lines \in Seq(Line)
    <3>1. order[tx[p].id] \in Order
      BY <1>1 DEF TypeInv, TypeOK, TxInv, Changing, StatusTx
    <3>2. order[tx[p].id].items \in Seq(Line) /\ <<>> \in Seq(Line)
      BY <3>1 DEF Order
    <3>3. QED
      BY <3>2
  <2>3. /\ t \in StatusTx /\ t.pc = "release"
        /\ t.id = tx[p].id /\ t.by = tx[p].by /\ t.to = tx[p].to
    BY <1>1, <2>2 DEF Changing, StatusTx
  <2>4. QED
    BY <1>1, <2>1, <2>3, ElsewhereSerial
<1>5. QED
  BY <1>2, <1>3, <1>4

LEMMA ReleaseInventorySerial ==
  ASSUME TypeInv, Account, NEW p, Procs = {p}, Serial(p), ReleaseInventory(p)
  PROVE  Serial(p)'
<1> DEFINE v == Variant(p)
           n == Head(tx[p].lines).quantity
           t == [tx[p] EXCEPT !.lines = Tail(@)]
<1>1. Changing(p) /\ tx[p].pc = "release"
  BY Kinds DEF TypeInv, ReleaseInventory
<1>2. CASE Rollback(p)
  BY <1>2, RollbackSerial
<1>3. CASE ~Rollback(p)
  <2>1. /\ row' = [row EXCEPT ![v].reserved = @ - n]
        /\ tx' = [tx EXCEPT ![p] = t]
        /\ UNCHANGED <<inv, order, raced>>
    BY <1>3 DEF ReleaseInventory
  <2>2. tx[p].lines \in Seq(Line) /\ tx[p].lines # <<>>
    BY <1>1 DEF Changing, StatusTx, ReleaseInventory
  <2>3. Tail(tx[p].lines) \in Seq(Line)
    BY <2>2, HeadAndTail
  <2>4. /\ tx'[p] = t /\ t \in StatusTx /\ t.pc = "release"
        /\ t.id = tx[p].id /\ t.by = tx[p].by /\ t.to = tx[p].to
    BY <1>1, <2>1, <2>3 DEF Changing, StatusTx, TypeInv, TypeOK
  <2>5. \A w \in Variants : row'[w].quantity = row[w].quantity
    BY <2>1 DEF TypeInv, TypeOK, InventoryRow
  <2>6. ~Creating(p)' /\ ~Stocking(p)' /\ tx'[p] # Idle
    BY <2>4, OneKind DEF Creating, Stocking
  <2>7. \A w \in Variants : row[w].quantity = inv[w].quantity
    BY <1>1 DEF Serial, Written
  <2>8. Allowed(p)'
    BY <1>1, <2>1, <2>4 DEF Serial, Allowed
  <2>9. QED
    BY <2>1, <2>4, <2>5, <2>6, <2>7, <2>8 DEF Serial, SavesFresh, Written, Available
<1>4. QED
  BY <1>2, <1>3

-----------------------------------------------------------------------------
(* Each step is a step of the ledger or none.                              *)

\* The ledger reads the status table and counts pieces as the checkout does.
LEMMA LedgerReads ==
  /\ \A from, to : Ledger!CanTransition(from, to) = CanTransition(from, to)
  /\ \A s : Ledger!IsCancellableByCustomer(s) = IsCancellableByCustomer(s)
  /\ Ledger!OrderStatus = OrderStatus
  /\ \A lines, v : Ledger!Wanted(lines, v) = Total(lines, v)
<1>1. /\ Ledger!OrderStatus = OrderStatus
      /\ Ledger!ValidTransitions = ValidTransitions
      /\ \A s : Ledger!IsCancellableByCustomer(s) = IsCancellableByCustomer(s)
  BY DEF Ledger!OrderStatus, OrderStatus, Ledger!ValidTransitions, ValidTransitions,
         Ledger!IsCancellableByCustomer, IsCancellableByCustomer
<1>2. \A from, to : Ledger!CanTransition(from, to) = CanTransition(from, to)
  BY <1>1 DEF Ledger!CanTransition, CanTransition
<1>3. ASSUME NEW lines, NEW v
      PROVE  Ledger!Wanted(lines, v) = Total(lines, v)
  BY DEF Ledger!Wanted, Total, TotalTo, Pieces, Ledger!Cardinality, Cardinality
<1>4. QED
  BY <1>1, <1>2, <1>3

LEMMA CommitOrderPlaces ==
  ASSUME TypeInv, Account, NEW p, Procs = {p}, Serial(p), CommitOrder(p)
  PROVE  Ledger!Place
<1> DEFINE items == tx[p].items
           new == [user |-> tx[p].user, items |-> items, status |-> "pending",
                   history |-> <<[to |-> "pending", by |-> "customer"]>>]
<1>1. Creating(p)
  BY Kinds DEF TypeInv, CommitOrder
<1>2. PICK id \in OrderIds :
        id = tx[p].id /\ order[id] = NONE /\ items \in Seq(Line) /\ tx[p].user \in Users
  BY <1>1 DEF TypeInv, TxInv, Creating, CreateTx
<1>3. order' = [order EXCEPT ![id] = new] /\ CommitRows(p)
  BY <1>2 DEF CommitOrder
<1>4. order'[id] = new /\ \A o \in OrderIds \ {id} : order'[o] = order[o]
  BY <1>2, <1>3 DEF TypeInv, TypeOK
<1>5. new # NONE
  <2>1. PICK n \in Order : order' = [order EXCEPT ![tx[p].id] = n]
    BY NewOrder
  <2>2. order'[id] \in Order
    BY <1>2, <2>1 DEF TypeInv, TypeOK
  <2>3. QED
    BY <1>4, <2>2, RowsAssumption
<1>6. Placed' = Placed \cup {id} /\ id \notin Placed
  BY <1>2, <1>4, <1>5 DEF Placed
<1>7. /\ DOMAIN Book = Placed /\ DOMAIN Book' = Placed'
      /\ Book'[id] = [user |-> tx[p].user, items |-> items, status |-> "pending"]
      /\ \A b \in Placed : Book'[b] = Book[b]
  <2>1. DOMAIN Book = Placed /\ DOMAIN Book' = Placed'
    BY DEF Book
  <2>2. \A o \in Placed' : Book'[o] = [user |-> order'[o].user, items |-> order'[o].items,
                                       status |-> order'[o].status]
    BY DEF Book
  <2>3. Book'[id] = [user |-> tx[p].user, items |-> items, status |-> "pending"]
    BY <1>4, <1>6, <2>2
  <2>4. ASSUME NEW b \in Placed PROVE Book'[b] = Book[b]
    <3>1. b \in Placed' /\ order'[b] = order[b]
      BY <1>4, <1>6 DEF Placed
    <3>2. QED
      BY <2>2, <3>1 DEF Book
  <2>5. QED
    BY <2>1, <2>3, <2>4
<1>8. inv' = row
  BY <1>3, CommitSerial
<1>9. ASSUME NEW v \in Variants
      PROVE  /\ row[v] = [inv[v] EXCEPT !.reserved = @ + Total(items, v)]
             /\ inv[v].quantity - inv[v].reserved >= Total(items, v) \/ Total(items, v) = 0
  <2>1. Moved(p, v) = Total(items, v)
    BY CreationDone
  <2>2. /\ row[v].reserved = inv[v].reserved + Total(items, v)
        /\ row[v].reserved \in Nat /\ row[v].quantity \in Nat
        /\ inv[v].reserved \in Nat /\ inv[v].quantity \in Nat
        /\ Total(items, v) \in Int
    BY <2>1, OneReader DEF Serial
  <2>3. row[v].quantity = inv[v].quantity
    BY <1>1 DEF Serial, Written
  <2>4. row[v].reserved = inv[v].reserved \/ row[v].reserved <= row[v].quantity
    BY <1>1 DEF Serial, Available
  <2>5. row[v] = [inv[v] EXCEPT !.reserved = row[v].reserved]
    BY <2>3, SameRow DEF TypeInv, TypeOK
  <2>6. QED
    BY <2>2, <2>3, <2>4, <2>5
<1>10. inv' = [v \in Variants |-> [inv[v] EXCEPT !.reserved = @ + Total(items, v)]]
  BY <1>8, <1>9 DEF TypeInv, TypeOK
<1>11. /\ id \in OrderIds \ DOMAIN Book
       /\ DOMAIN Book' = DOMAIN Book \cup {id}
       /\ \A b \in DOMAIN Book : Book'[b] = Book[b]
       /\ Book'[id].user \in Users /\ Book'[id].status = "pending"
       /\ Book'[id].items = items
  BY <1>2, <1>6, <1>7
<1>12. \A v \in Variants : Ledger!Wanted(Book'[id].items, v) = Total(items, v)
  BY <1>11, LedgerReads
<1>13. inv' = [v \in Variants |->
                 [inv[v] EXCEPT !.reserved = @ + Ledger!Wanted(Book'[id].items, v)]]
  BY <1>10, <1>12
<1>14. \A v \in Variants :
         inv[v].quantity - inv[v].reserved >= Ledger!Wanted(Book'[id].items, v)
           \/ Ledger!Wanted(Book'[id].items, v) = 0
  BY <1>9, <1>12
<1>15. QED
  BY <1>11, <1>13, <1>14 DEF Ledger!Place

LEMMA CommitStatusCancelsOrMoves ==
  ASSUME TypeInv, Account, CustomersCancel, NEW p, Procs = {p}, Serial(p), CommitStatus(p)
  PROVE  \E o \in DOMAIN Book : Ledger!Cancel(o) \/ Ledger!Move(o)
<1>1. Changing(p)
  BY Kinds DEF TypeInv, CommitStatus
<1>2. PICK id \in OrderIds :
        id = tx[p].id /\ id \in Placed /\ order[id] \in Order /\ tx[p].to \in OrderStatus
  BY <1>1, OrderPieces DEF TypeInv, TxInv, Changing, StatusTx, Placed
<1>3. CommitRows(p) /\ Placed' = Placed
  BY CommitStatusTypes DEF CommitStatus, Placed
<1>4. /\ \A o \in Placed \ {id} : order'[o] = order[o]
      /\ order'[id].user = order[id].user /\ order'[id].items = order[id].items
      /\ order'[id].status = tx[p].to
  BY <1>2 DEF CommitStatus, TypeInv, TypeOK, Order, Placed
<1>5. Book' = [Book EXCEPT ![id].status = tx[p].to] /\ Book[id].status = order[id].status
      /\ Book[id].items = order[id].items
  <2>1. Book' = [o \in Placed |-> [user |-> order'[o].user, items |-> order'[o].items,
                                   status |-> order'[o].status]]
    BY <1>3 DEF Book
  <2>2. QED
    BY <1>2, <1>4, <2>1 DEF Book
<1>6. inv' = row
  BY <1>3, CommitSerial
<1>7. ASSUME NEW v \in Variants
      PROVE  row[v] = [inv[v] EXCEPT !.reserved = inv[v].reserved + Moved(p, v)]
  <2>1. row[v].quantity = inv[v].quantity
    BY <1>1 DEF Serial, Written
  <2>2. row[v] = [inv[v] EXCEPT !.reserved = row[v].reserved]
    BY <2>1, SameRow DEF TypeInv, TypeOK
  <2>3. QED
    BY <2>2, OneReader DEF Serial
<1>8. CASE tx[p].by = "customer"
  <2>1. tx[p].to = "cancelled"
    BY <1>1, <1>8 DEF CustomersCancel
  <2>2. IsCancellableByCustomer(order[id].status)
    BY <1>1, <1>2, <1>8 DEF Serial, Allowed
  <2>3. ASSUME NEW v \in Variants
        PROVE  row[v] = [inv[v] EXCEPT !.reserved = @ - Total(order[id].items, v)]
    <3>1. Moved(p, v) = 0 - Total(order[id].items, v)
      BY <1>2, <1>8, ChangeDone
    <3>2. Total(order[id].items, v) \in Nat /\ inv[v].reserved \in Nat
      BY <1>2, OrderPieces DEF TypeInv, TypeOK, InventoryRow
    <3>3. inv[v].reserved + Moved(p, v) = inv[v].reserved - Total(order[id].items, v)
      BY <3>1, <3>2
    <3>4. QED
      BY <1>7, <3>3
  <2>4. inv' = [v \in Variants |-> [inv[v] EXCEPT !.reserved = @ - Total(order[id].items, v)]]
    BY <1>6, <2>3 DEF TypeInv, TypeOK
  <2>5. Ledger!Cancel(id)
    BY <1>5, <2>1, <2>2, <2>4, LedgerReads DEF Ledger!Cancel
  <2>6. QED
    BY <1>2, <2>5 DEF Book
<1>9. CASE tx[p].by # "customer"
  <2>1. CanTransition(order[id].status, tx[p].to)
    BY <1>1, <1>2, <1>9 DEF Serial, Allowed
  <2>2. ASSUME NEW v \in Variants
        PROVE  row[v] = inv[v]
    <3>1. Moved(p, v) = 0 /\ inv[v] \in InventoryRow
      BY <1>9, ChangeDone DEF TypeInv, TypeOK
    <3>2. inv[v].reserved + Moved(p, v) = inv[v].reserved
      BY <3>1 DEF InventoryRow
    <3>3. QED
      BY <1>7, <3>1, <3>2 DEF InventoryRow
  <2>3. inv' = inv
    BY <1>6, <2>2 DEF TypeInv, TypeOK
  <2>4. Ledger!Move(id)
    BY <1>2, <1>5, <2>1, <2>3, LedgerReads DEF Ledger!Move
  <2>5. QED
    BY <1>2, <2>4 DEF Book
<1>10. QED
  BY <1>8, <1>9

LEMMA CommitStockSetsQuantity ==
  ASSUME TypeInv, Account, NEW p, Procs = {p}, Serial(p), CommitStock(p)
  PROVE  Ledger!SetQuantity
<1>1. CommitRows(p) /\ order' = order
  BY DEF CommitStock
<1>2. inv' = row
  BY <1>1, CommitSerial
<1>3. Stocking(p) /\ tx[p].pc = "next"
  BY Kinds DEF TypeInv, CommitStock
<1>4. \E v \in Variants, level \in StockLevels : row = [inv EXCEPT ![v].quantity = level]
  BY <1>3 DEF Serial, Written
<1>5. Book' = Book
  BY <1>1 DEF Book, Placed
<1>6. QED
  BY <1>2, <1>4, <1>5 DEF Ledger!SetQuantity

LEMMA NextSerial ==
  ASSUME TypeInv, Account, CustomersCancel, NEW p, Procs = {p}, Serial(p), [Next]_vars
  PROVE  Serial(p)' /\ [Ledger!Next]_<<inv, Book>>
<1>1. ASSUME UNCHANGED <<inv, order>>
      PROVE  UNCHANGED <<inv, Book>>
  BY <1>1 DEF Book, Placed
<1>2. CASE UNCHANGED vars
  <2>1. Serial(p)'
    BY <1>2 DEF vars, Serial, SavesFresh, Written, Available, Allowed, Creating, Changing,
                Stocking, Variant, Entity
  <2>2. QED
    BY <1>1, <1>2, <2>1 DEF vars
<1>3. CASE Request(p)
  <2>1. Serial(p)'
    <3>1. ASSUME NEW u \in Users, NEW o \in OrderIds, RequestCancellation(p, u, o)
          PROVE  Serial(p)'
      BY <3>1, StatusChangeSerial DEF RequestCancellation
    <3>2. ASSUME NEW o \in OrderIds, NEW to \in AdminTargets, UpdateOrderStatus(p, o, to)
          PROVE  Serial(p)'
      BY <3>2, StatusChangeSerial DEF UpdateOrderStatus
    <3>3. QED
      BY <1>3, <3>1, <3>2, CreateOrderSerial, UpdateVariantStockSerial DEF Request
  <2>2. UNCHANGED <<inv, order>>
    BY <1>3 DEF Request, CreateOrder, RequestCancellation, UpdateOrderStatus,
                UpdateVariantStock, database
  <2>3. QED
    BY <1>1, <2>1, <2>2
<1>4. CASE CommitOrder(p)
  BY <1>4, CommitSerial, CommitOrderPlaces DEF CommitOrder, Ledger!Next
<1>5. CASE CommitStatus(p)
  BY <1>5, CommitSerial, CommitStatusCancelsOrMoves DEF CommitStatus, Ledger!Next
<1>6. CASE CommitStock(p)
  BY <1>6, CommitSerial, CommitStockSetsQuantity DEF CommitStock, Ledger!Next
<1>7. CASE Statement(p) /\ ~CommitOrder(p) /\ ~CommitStatus(p) /\ ~CommitStock(p)
  <2>1. Serial(p)'
    BY <1>7, ReserveFindSerial, SaveSelectSerial, SaveUpdateSerial, LabelSerial,
       OrderSerial, ReleaseInventorySerial DEF Statement
  <2>2. UNCHANGED <<inv, order>>
    BY <1>7 DEF Statement, ReserveFind, SaveSelect, SaveUpdate, ApplyCoupon,
                CheckPerUserLimit, IncrementUsedCount, SelectOrder, UpdateOrder,
                ReleaseInventory, Rollback, database
  <2>3. QED
    BY <1>1, <2>1, <2>2
<1>8. CASE Fail(p) \/ DeadlockVictim(p)
  <2>1. Rollback(p)
    BY <1>8 DEF Fail, DeadlockVictim
  <2>2. UNCHANGED <<inv, order>>
    BY <2>1 DEF Rollback
  <2>3. QED
    BY <1>1, <2>1, <2>2, RollbackSerial
<1>9. QED
  BY <1>2, <1>3, <1>4, <1>5, <1>6, <1>7, <1>8 DEF Next

LEMMA InitSerial ==
  ASSUME NEW p, Procs = {p}, Init
  PROVE  Serial(p) /\ Ledger!Init
<1>1. tx[p] = Idle /\ row = inv /\ raced = {} /\ Idle.pc = "idle"
  BY DEF Init, Idle
<1>2. Serial(p)
  BY <1>1, OneKind DEF Serial, SavesFresh, Written, Available, Allowed, Creating, Changing, Stocking
<1>3. Placed = {}
  BY DEF Init, Placed
<1>4. Book = [o \in {} |-> 0]
  BY <1>3 DEF Book
<1>5. QED
  BY <1>2, <1>4 DEF Init, Ledger!Init

(***************************************************************************)
(* One request at a time, the checkout implements the ledger: an order is  *)
(* booked with all its reservations and only if they were all available, a *)
(* cancellation gives them all back, and no rollback leaves a trace.       *)
(***************************************************************************)
THEOREM SerialImplementsLedger ==
  ASSUME NEW p, Procs = {p}
  PROVE  Spec => AtomicWhenSerial
<1> DEFINE IInv == TypeInv /\ Account /\ CustomersCancel /\ Serial(p)
<1>1. Init => IInv /\ Ledger!Init
  <2>1. Init => CustomersCancel
    BY DEF Init, Idle, CustomersCancel, Changing, StatusTx
  <2>2. QED
    BY <2>1, InitAccount, InitSerial
<1>2. IInv /\ [Next]_vars => IInv' /\ [Ledger!Next]_<<inv, Book>>
  BY NextTypes, NextAccount, NextCancels, NextSerial
<1>3. QED
  BY <1>1, <1>2, PTL DEF Spec, AtomicWhenSerial, Ledger!Spec
=============================================================================
