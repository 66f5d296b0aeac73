---------------------- MODULE CheckoutAccountingProofs ----------------------
(***************************************************************************)
(* Theorems about the stock that orders hold, for every set of requests,   *)
(* users, variants and orders: reservations are exact where no update was  *)
(* lost, and requests served one at a time implement the ledger.           *)
(***************************************************************************)
EXTENDS CheckoutAccounting, CheckoutProofs, SequenceTheorems

-----------------------------------------------------------------------------
(* Counting pieces.                                                        *)

\* What is counted under a name of its own adds up.
LEMMA AddBlock ==
  ASSUME NEW S, IsFiniteSet(S), NEW T, IsFiniteSet(T), NEW x,
         \A y \in T : <<x, y>> \notin S
  PROVE  /\ IsFiniteSet(S \cup ({x} \X T))
         /\ Cardinality(S \cup ({x} \X T)) = Cardinality(S) + Cardinality(T)
<1>1. /\ IsFiniteSet({x}) /\ Cardinality({x}) = 1
      /\ Cardinality(S) \in Nat /\ Cardinality(T) \in Nat
  BY FS_Singleton, FS_CardinalityType
<1>2. /\ IsFiniteSet({x} \X T)
      /\ Cardinality({x} \X T) = 1 * Cardinality(T)
  BY <1>1, FS_Product
<1>3. S \cap ({x} \X T) = {}
  OBVIOUS
<1>4. /\ IsFiniteSet(S \cup ({x} \X T))
      /\ Cardinality(S \cup ({x} \X T)) =
           Cardinality(S) + Cardinality({x} \X T) - Cardinality(S \cap ({x} \X T))
  BY <1>2, FS_Union
<1>5. Cardinality(S \cap ({x} \X T)) = 0
  BY <1>3, FS_EmptySet
<1>6. QED
  BY <1>1, <1>2, <1>4, <1>5

\* A line is a line.
LEMMA LineType ==
  ASSUME NEW lines \in Seq(Line), NEW i \in 1..Len(lines)
  PROVE  /\ lines[i].variant \in Variants
         /\ lines[i].quantity \in Nat /\ lines[i].quantity > 0
<1>1. lines[i] \in Line
  OBVIOUS
<1>2. QED
  BY <1>1 DEF Line

LEMMA PiecesFinite ==
  ASSUME NEW lines \in Seq(Line), NEW k \in 0..Len(lines), NEW v
  PROVE  IsFiniteSet(Pieces(lines, k, v)) /\ TotalTo(lines, k, v) \in Nat
<1> DEFINE S == {j \in 1..k : lines[j].variant = v}
           block == [i \in S |-> {i} \X (1..lines[i].quantity)]
           T == {{i} \X (1..lines[i].quantity) : i \in S}
<1>1. IsFiniteSet(1..k)
  BY FS_Interval
<1>2. IsFiniteSet(S)
  BY <1>1, FS_Subset
<1>3. block \in Surjection(S, T)
  BY DEF Surjection
<1>4. IsFiniteSet(T)
  BY <1>2, <1>3, FS_Surjection
<1>5. ASSUME NEW i \in S
      PROVE  IsFiniteSet({i} \X (1..lines[i].quantity))
  <2>1. PICK n \in Int : n = lines[i].quantity
    BY LineType
  <2>2. IsFiniteSet(1..n) /\ IsFiniteSet({i})
    <3>1. 1 \in Int
      OBVIOUS
    <3>2. QED
      BY <3>1, FS_Interval, FS_Singleton
  <2>3. QED
    BY <2>1, <2>2, FS_Product
<1>6. IsFiniteSet(UNION T)
  BY <1>4, <1>5, FS_UNION
<1>7. QED
  BY <1>6, FS_CardinalityType DEF Pieces, TotalTo

LEMMA NoPieces ==
  ASSUME NEW lines, NEW v
  PROVE  Pieces(lines, 0, v) = {} /\ TotalTo(lines, 0, v) = 0
<1>1. Pieces(lines, 0, v) = {}
  BY DEF Pieces
<1>2. QED
  BY <1>1, FS_EmptySet DEF TotalTo

\* One line more.
LEMMA TotalStep ==
  ASSUME NEW lines \in Seq(Line), NEW k \in 0..Len(lines), k < Len(lines), NEW v
  PROVE  TotalTo(lines, k + 1, v) = TotalTo(lines, k, v)
           + (IF lines[k + 1].variant = v THEN lines[k + 1].quantity ELSE 0)
<1> DEFINE S == Pieces(lines, k, v)
           n == lines[k + 1].quantity
<1>1. /\ IsFiniteSet(S) /\ Cardinality(S) \in Nat
  BY PiecesFinite, FS_CardinalityType
<1>2. n \in Nat /\ IsFiniteSet(1..n) /\ Cardinality(1..n) = n
  <2>1. n \in Nat /\ n > 0
    BY LineType
  <2>2. PICK m \in Int : m = n
    BY <2>1
  <2>3. /\ IsFiniteSet(1..m)
        /\ Cardinality(1..m) = IF 1 > m THEN 0 ELSE m - 1 + 1
    <3>1. 1 \in Int
      OBVIOUS
    <3>2. QED
      BY <3>1, FS_Interval, Zenon
  <2>4. QED
    BY <2>1, <2>2, <2>3
<1>3. CASE lines[k + 1].variant = v
  <2>1. Pieces(lines, k + 1, v) = S \cup ({k + 1} \X (1..n))
    <3>1. {j \in 1..(k + 1) : lines[j].variant = v} = {j \in 1..k : lines[j].variant = v} \cup {k + 1}
      BY <1>3
    <3>2. QED
      BY <3>1 DEF Pieces
  <2>2. \A y \in 1..n : <<k + 1, y>> \notin S
    BY DEF Pieces
  <2>3. Cardinality(S \cup ({k + 1} \X (1..n))) = Cardinality(S) + Cardinality(1..n)
    BY <1>1, <1>2, <2>2, AddBlock
  <2>4. QED
    BY <1>2, <1>3, <2>1, <2>3 DEF TotalTo
<1>4. CASE lines[k + 1].variant # v
  <2>1. {j \in 1..(k + 1) : lines[j].variant = v} = {j \in 1..k : lines[j].variant = v}
    BY <1>4
  <2>2. Pieces(lines, k + 1, v) = S
    BY <2>1 DEF Pieces
  <2>3. QED
    BY <1>1, <1>4, <2>2 DEF TotalTo
<1>5. QED
  BY <1>3, <1>4

-----------------------------------------------------------------------------
(* The inductive invariant, part by part.                                  *)

\* rest is what is left of the lines all.
Suffix(rest, all) ==
  /\ Len(rest) <= Len(all)
  /\ \A i \in 1..Len(rest) : rest[i] = all[Len(all) - Len(rest) + i]

Releasing(p) == tx[p].pc = "release" /\ tx[p].by = "customer"

\* The lines a request goes through, and those it has left.
LinesOf(p) ==
  /\ Creating(p) =>
       /\ Suffix(tx[p].lines, tx[p].items)
       /\ tx[p].pc \in {"userLimit", "increment", "commit"} => tx[p].lines = <<>>
  /\ tx[p].pc = "release" =>
       IF Releasing(p) THEN Suffix(tx[p].lines, order[tx[p].id].items)
       ELSE tx[p].lines = <<>>

DoneOf(rest, all, v) == TotalTo(all, Len(all) - Len(rest), v)

\* A customer asks for no other status than cancelled.
CustomersCancel ==
  \A p \in Procs : Changing(p) /\ tx[p].by = "customer" => tx[p].to = "cancelled"

\* By how much p's transaction has changed v's reservations so far.
Moved(p, v) ==
  IF Creating(p) THEN DoneOf(tx[p].lines, tx[p].items, v)
  ELSE IF Releasing(p) THEN 0 - DoneOf(tx[p].lines, order[tx[p].id].items, v)
  ELSE 0

\* What a save that no commit has raced knows of its row, and writes of it.
Knows(p) ==
  tx[p].pc \in {"select", "update"} /\ Variant(p) \notin raced =>
    /\ tx[p].base.reserved = Read(p, Variant(p)).reserved
    /\ tx[p].pc = "update" => ("reserved" \in tx[p].cols <=> Creating(p))

(***************************************************************************)
(* A row nobody is writing has one version; one that p is writing differs  *)
(* from the committed one by what p's lines ask for, as far as p has come. *)
(***************************************************************************)
RowsInv ==
  \A v \in Variants :
    /\ owner[v] = NONE => row[v] = inv[v]
    /\ \A p \in Procs :
         /\ owner[v] # p => Moved(p, v) = 0
         /\ owner[v] = p /\ v \notin raced =>
              row[v].reserved = inv[v].reserved + Moved(p, v)

Account == RowsInv /\ \A p \in Procs : LinesOf(p) /\ Knows(p)

\* What the cancellations gave back: each of them all the pieces of its order.
Released(v) == UNION {{o} \X (Cancellations(o) \X PiecesOf(o, v)) : o \in Placed}
Balance(v) == Cardinality(Ordered(v)) - Cardinality(Released(v))

(***************************************************************************)
(* The column is exact when every cancellation is counted, with the        *)
(* finiteness that lets pieces be added.                                   *)
(***************************************************************************)
DemandInv ==
  \A v \in Variants :
    /\ IsFiniteSet(Ordered(v)) /\ IsFiniteSet(Released(v))
    /\ v \notin raced => inv[v].reserved = Balance(v)

-----------------------------------------------------------------------------
(* How the account is kept.                                                *)

\* No order is forgotten, and none changes its items.
ItemsStay ==
  \A o \in OrderIds : order[o] # NONE => order'[o] # NONE /\ order'[o].items = order[o].items

\* Only p's request moves.
Alone(p) == \A q \in Procs \ {p} : tx'[q] = tx[q]

LEMMA OthersStay ==
  ASSUME TypeInv, Account, NEW p \in Procs, Alone(p), ItemsStay,
         NEW q \in Procs \ {p}
  PROVE  /\ LinesOf(q)'
         /\ \A v : Moved(q, v)' = Moved(q, v)
         /\ Creating(q)' <=> Creating(q)
         /\ Variant(q)' = Variant(q)
<1>1. tx'[q] = tx[q]
  BY DEF Alone
<1>2. ASSUME tx[q].pc = "release"
      PROVE  order'[tx[q].id].items = order[tx[q].id].items
  <2>1. Changing(q)
    BY <1>2, Kinds DEF TypeInv
  <2>2. tx[q].id \in OrderIds /\ order[tx[q].id] # NONE
    BY <2>1 DEF TypeInv, TxInv, Changing, StatusTx
  <2>3. QED
    BY <2>2 DEF ItemsStay
<1>3. LinesOf(q)
  BY DEF Account
<1>4. (Creating(q)' <=> Creating(q)) /\ (Releasing(q)' <=> Releasing(q)) /\ Variant(q)' = Variant(q)
  BY <1>1 DEF Creating, Releasing, Variant
<1>5. LinesOf(q)'
  BY <1>1, <1>2, <1>3, <1>4 DEF LinesOf, Releasing
<1>6. ASSUME NEW v PROVE Moved(q, v)' = Moved(q, v)
  BY <1>1, <1>2, <1>4 DEF Moved, Releasing
<1>7. QED
  BY <1>4, <1>5, <1>6

\* A request that is not at work has moved nothing.
LEMMA IdleAccount ==
  ASSUME NEW p \in Procs, tx[p] = Idle
  PROVE  LinesOf(p) /\ Knows(p) /\ \A v : Moved(p, v) = 0
<1>1. Idle \notin CreateTx /\ Idle.pc \notin {"release", "select", "update"}
  BY DEF CreateTx, Idle
<1>2. QED
  BY <1>1 DEF LinesOf, Knows, Moved, Creating, Releasing

LEMMA IdleAccountNext ==
  ASSUME NEW p \in Procs, tx'[p] = Idle
  PROVE  LinesOf(p)' /\ Knows(p)' /\ \A v : Moved(p, v)' = 0
<1>1. Idle \notin CreateTx /\ Idle.pc \notin {"release", "select", "update"}
  BY DEF CreateTx, Idle
<1>2. QED
  BY <1>1 DEF LinesOf, Knows, Moved, Creating, Releasing

LEMMA RollbackAccount ==
  ASSUME TypeInv, Account, NEW p \in Procs, Rollback(p)
  PROVE  Account'
<1>1. tx'[p] = Idle /\ Alone(p) /\ ItemsStay
  BY DEF Rollback, Alone, ItemsStay, TypeInv, TypeOK
<1>2. ASSUME NEW v \in Variants
      PROVE  /\ owner'[v] = IF owner[v] = p THEN NONE ELSE owner[v]
             /\ row'[v] = IF owner[v] = p THEN inv[v] ELSE row[v]
             /\ inv'[v] = inv[v] /\ raced' = raced
  BY DEF Rollback, TypeInv, TypeOK, Rows
<1>3. \A v : Moved(p, v)' = 0
  BY <1>1, IdleAccountNext
<1>4. \A q \in Procs \ {p}, v \in Variants : Moved(q, v)' = Moved(q, v)
  BY <1>1, OthersStay
<1>5. RowsInv'
  <2>1. ASSUME NEW v \in Variants
        PROVE  (owner[v] = NONE => row[v] = inv[v])'
    BY <1>2 DEF Account, RowsInv
  <2>2. ASSUME NEW v \in Variants, NEW q \in Procs \ {p}
        PROVE  /\ (owner[v] # q => Moved(q, v) = 0)'
               /\ (owner[v] = q /\ v \notin raced => row[v].reserved = inv[v].reserved + Moved(q, v))'
    <3>1. owner'[v] = q <=> owner[v] = q
      BY <1>2, RowsAssumption
    <3>2. /\ owner[v] # q => Moved(q, v) = 0
          /\ owner[v] = q /\ v \notin raced => row[v].reserved = inv[v].reserved + Moved(q, v)
      BY DEF Account, RowsInv
    <3>3. Moved(q, v)' = Moved(q, v)
      BY <1>4
    <3>4. owner[v] = q /\ v \notin raced' => row'[v] = row[v] /\ inv'[v] = inv[v] /\ v \notin raced
      BY <1>2
    <3>5. QED
      BY <3>1, <3>2, <3>3, <3>4
  <2>3. \A v \in Variants : owner'[v] # p
    BY <1>2, RowsAssumption
  <2>4. QED
    BY <1>3, <2>1, <2>2, <2>3 DEF RowsInv
<1>6. ASSUME NEW q \in Procs
      PROVE  LinesOf(q)' /\ Knows(q)'
  <2>1. CASE q = p
    BY <1>1, <2>1, IdleAccountNext
  <2>2. CASE q # p
    <3>1. LinesOf(q)' /\ (Creating(q)' <=> Creating(q)) /\ Variant(q)' = Variant(q) /\ tx'[q] = tx[q]
      BY <1>1, <2>2, OthersStay DEF Alone
    <3>2. ASSUME tx[q].pc \in {"select", "update"}
          PROVE  Read(q, Variant(q))' = Read(q, Variant(q))
      <4>1. Variant(q) \in Variants
        BY <3>2, EntityType
      <4>2. QED
        BY <1>2, <2>2, <3>1, <4>1, RowsAssumption DEF Read
    <3>3. raced' = raced
      BY DEF Rollback
    <3>4. Knows(q)
      BY DEF Account
    <3>5. QED
      BY <3>1, <3>2, <3>3, <3>4 DEF Knows
  <2>3. QED
    BY <2>1, <2>2
<1>7. QED
  BY <1>5, <1>6 DEF Account

LEMMA CommitAccount ==
  ASSUME TypeInv, Account, NEW p \in Procs, CommitRows(p), ItemsStay
  PROVE  Account'
<1>1. tx'[p] = Idle /\ Alone(p)
  BY DEF CommitRows, Alone, TypeInv, TypeOK
<1>2. ASSUME NEW v \in Variants
      PROVE  /\ owner'[v] = IF owner[v] = p THEN NONE ELSE owner[v]
             /\ inv'[v] = IF owner[v] = p THEN row[v] ELSE inv[v]
             /\ row'[v] = row[v]
             /\ v \notin raced' => v \notin raced /\ ~(owner[v] = p /\ Saving(p, v))
  BY DEF CommitRows, TypeInv, TypeOK, Rows
<1>3. \A v : Moved(p, v)' = 0
  BY <1>1, IdleAccountNext
<1>4. \A q \in Procs \ {p}, v \in Variants : Moved(q, v)' = Moved(q, v)
  BY <1>1, OthersStay
<1>5. RowsInv'
  <2>1. ASSUME NEW v \in Variants
        PROVE  (owner[v] = NONE => row[v] = inv[v])'
    BY <1>2 DEF Account, RowsInv
  <2>2. ASSUME NEW v \in Variants, NEW q \in Procs \ {p}
        PROVE  /\ (owner[v] # q => Moved(q, v) = 0)'
               /\ (owner[v] = q /\ v \notin raced => row[v].reserved = inv[v].reserved + Moved(q, v))'
    <3>1. owner'[v] = q <=> owner[v] = q
      BY <1>2, RowsAssumption
    <3>2. /\ owner[v] # q => Moved(q, v) = 0
          /\ owner[v] = q /\ v \notin raced => row[v].reserved = inv[v].reserved + Moved(q, v)
      BY DEF Account, RowsInv
    <3>3. Moved(q, v)' = Moved(q, v)
      BY <1>4
    <3>4. owner[v] = q /\ v \notin raced' => row'[v] = row[v] /\ inv'[v] = inv[v] /\ v \notin raced
      BY <1>2
    <3>5. QED
      BY <3>1, <3>2, <3>3, <3>4
  <2>3. \A v \in Variants : owner'[v] # p
    BY <1>2, RowsAssumption
  <2>4. QED
    BY <1>3, <2>1, <2>2, <2>3 DEF RowsInv
<1>6. ASSUME NEW q \in Procs
      PROVE  LinesOf(q)' /\ Knows(q)'
  <2>1. CASE q = p
    BY <1>1, <2>1, IdleAccountNext
  <2>2. CASE q # p
    <3>1. LinesOf(q)' /\ (Creating(q)' <=> Creating(q)) /\ Variant(q)' = Variant(q) /\ tx'[q] = tx[q]
      BY <1>1, <2>2, OthersStay DEF Alone
    <3>2. ASSUME tx[q].pc \in {"select", "update"}, Variant(q) \notin raced'
          PROVE  Read(q, Variant(q))' = Read(q, Variant(q)) /\ Variant(q) \notin raced
      <4>1. Variant(q) \in Variants
        BY <3>2, EntityType
      <4>2. Saving(p, Variant(q))
        BY <2>2, <3>2 DEF Saving, Variant
      <4>3. owner[Variant(q)] # p /\ Variant(q) \notin raced
        BY <1>2, <3>2, <4>1, <4>2
      <4>4. QED
        BY <1>2, <3>1, <4>1, <4>3 DEF Read
    <3>3. Knows(q)
      BY DEF Account
    <3>4. QED
      BY <3>1, <3>2, <3>3 DEF Knows
  <2>3. QED
    BY <2>1, <2>2
<1>7. QED
  BY <1>5, <1>6 DEF Account

\* A statement that writes no inventory row.
LEMMA QuietAccount ==
  ASSUME TypeInv, Account, NEW p \in Procs, NEW t, tx' = [tx EXCEPT ![p] = t],
         UNCHANGED <<inv, row, order, raced>>,
         \A v \in Variants : owner'[v] = owner[v],
         LinesOf(p)', Knows(p)', \A v \in Variants : Moved(p, v)' = Moved(p, v)
  PROVE  Account'
<1>1. Alone(p) /\ ItemsStay
  BY DEF Alone, ItemsStay, TypeInv, TypeOK
<1>2. \A q \in Procs, v \in Variants : Moved(q, v)' = Moved(q, v)
  BY <1>1, OthersStay
<1>3. RowsInv'
  BY <1>2 DEF Account, RowsInv
<1>4. ASSUME NEW q \in Procs \ {p}
      PROVE  LinesOf(q)' /\ Knows(q)'
  <2>1. LinesOf(q)' /\ (Creating(q)' <=> Creating(q)) /\ Variant(q)' = Variant(q) /\ tx'[q] = tx[q]
    BY <1>1, OthersStay DEF Alone
  <2>2. ASSUME tx[q].pc \in {"select", "update"}
        PROVE  Read(q, Variant(q))' = Read(q, Variant(q))
    <3>1. Variant(q) \in Variants
      BY <2>2, EntityType
    <3>2. QED
      BY <2>1, <3>1 DEF Read
  <2>3. Knows(q)
    BY DEF Account
  <2>4. QED
    BY <2>1, <2>2, <2>3 DEF Knows
<1>5. QED
  BY <1>3, <1>4 DEF Account

LEMMA SuffixDone ==
  ASSUME NEW rest \in Seq(Line), NEW all \in Seq(Line), Suffix(rest, all), NEW v
  PROVE  Len(all) - Len(rest) \in 0..Len(all) /\ DoneOf(rest, all, v) \in Nat
<1>1. Len(all) - Len(rest) \in 0..Len(all)
  BY DEF Suffix
<1>2. QED
  BY <1>1, PiecesFinite DEF DoneOf

LEMMA MovedType ==
  ASSUME TypeInv, Account, NEW p \in Procs, NEW v
  PROVE  Moved(p, v) \in Int
<1>1. CASE Creating(p)
  <2>1. tx[p].lines \in Seq(Line) /\ tx[p].items \in Seq(Line)
    BY <1>1 DEF Creating, CreateTx
  <2>2. Suffix(tx[p].lines, tx[p].items)
    BY <1>1 DEF Account, LinesOf
  <2>3. DoneOf(tx[p].lines, tx[p].items, v) \in Nat
    BY <2>1, <2>2, SuffixDone
  <2>4. QED
    BY <1>1, <2>3 DEF Moved
<1>2. CASE ~Creating(p) /\ Releasing(p)
  <2>1. Changing(p) /\ tx[p].pc = "release"
    BY <1>2, Kinds DEF TypeInv, Releasing
  <2>2. /\ tx[p].lines \in Seq(Line) /\ order[tx[p].id].items \in Seq(Line)
    BY <2>1 DEF TypeInv, TypeOK, TxInv, Changing, StatusTx, Order
  <2>3. Suffix(tx[p].lines, order[tx[p].id].items)
    BY <1>2, <2>1 DEF Account, LinesOf
  <2>4. DoneOf(tx[p].lines, order[tx[p].id].items, v) \in Nat
    BY <2>2, <2>3, SuffixDone
  <2>5. QED
    BY <1>2, <2>4 DEF Moved
<1>3. CASE ~Creating(p) /\ ~Releasing(p)
  BY <1>3 DEF Moved
<1>4. QED
  BY <1>1, <1>2, <1>3

\* A statement that writes v's row and changes its reservations by d.
LEMMA WriteAccount ==
  ASSUME TypeInv, Account, NEW p \in Procs, NEW v \in Variants, CanLock(p, v),
         NEW t, tx' = [tx EXCEPT ![p] = t], t.pc \notin {"select", "update"},
         owner' = [owner EXCEPT ![v] = p], UNCHANGED <<inv, order, raced>>,
         \A w \in Variants \ {v} : row'[w] = row[w],
         LinesOf(p)', NEW d \in Int,
         v \notin raced => row'[v].reserved = row[v].reserved + d,
         \A w \in Variants : Moved(p, w)' = Moved(p, w) + (IF w = v THEN d ELSE 0)
  PROVE  Account'
<1>1. Alone(p) /\ ItemsStay
  BY DEF Alone, ItemsStay, TypeInv, TypeOK
<1>2. \A q \in Procs \ {p}, w \in Variants : Moved(q, w)' = Moved(q, w)
  BY <1>1, OthersStay
<1>3. /\ owner'[v] = p /\ owner[v] \in {NONE, p} /\ p # NONE
      /\ \A w \in Variants \ {v} : owner'[w] = owner[w]
  BY RowsAssumption DEF CanLock, TypeInv, TypeOK, Rows
<1>4. ASSUME NEW w \in Variants \ {v}
      PROVE  Moved(p, w)' = Moved(p, w)
  <2>1. Moved(p, w)' = Moved(p, w) + 0
    OBVIOUS
  <2>2. QED
    BY <2>1, MovedType
<1>5. v \notin raced => row'[v].reserved = inv[v].reserved + Moved(p, v)'
  <2>1. /\ row[v].reserved \in Nat /\ inv[v].reserved \in Nat
        /\ Moved(p, v) \in Int /\ Moved(p, v)' = Moved(p, v) + d
    BY MovedType DEF TypeInv, TypeOK, InventoryRow
  <2>2. v \notin raced => row[v].reserved = inv[v].reserved + Moved(p, v)
    <3>1. CASE owner[v] = p
      BY <3>1 DEF Account, RowsInv
    <3>2. CASE owner[v] = NONE
      <4>1. row[v] = inv[v] /\ Moved(p, v) = 0
        BY <1>3, <3>2 DEF Account, RowsInv
      <4>2. QED
        BY <2>1, <4>1
    <3>3. QED
      BY <1>3, <3>1, <3>2
  <2>3. QED
    BY <2>1, <2>2
<1>6. RowsInv'
  <2>1. ASSUME NEW w \in Variants
        PROVE  (owner[w] = NONE => row[w] = inv[w])'
    BY <1>3 DEF Account, RowsInv
  <2>2. ASSUME NEW w \in Variants \ {v}, NEW q \in Procs
        PROVE  /\ (owner[w] # q => Moved(q, w) = 0)'
               /\ (owner[w] = q /\ w \notin raced => row[w].reserved = inv[w].reserved + Moved(q, w))'
    <3>1. Moved(q, w)' = Moved(q, w)
      BY <1>2, <1>4
    <3>2. QED
      BY <1>3, <3>1 DEF Account, RowsInv
  <2>3. ASSUME NEW q \in Procs \ {p}
        PROVE  owner'[v] # q /\ Moved(q, v)' = 0
    <3>1. owner[v] # q
      BY <1>3, RowsAssumption
    <3>2. QED
      BY <1>2, <1>3, <3>1 DEF Account, RowsInv
  <2>4. ASSUME NEW w \in Variants, NEW q \in Procs
        PROVE  /\ (owner[w] # q => Moved(q, w) = 0)'
               /\ (owner[w] = q /\ w \notin raced => row[w].reserved = inv[w].reserved + Moved(q, w))'
    BY <1>3, <1>5, <2>2, <2>3
  <2>5. QED
    BY <2>1, <2>4 DEF RowsInv
<1>7. ASSUME NEW q \in Procs
      PROVE  LinesOf(q)' /\ Knows(q)'
  <2>1. CASE q = p
    <3>1. tx'[p] = t
      BY DEF TypeInv, TypeOK
    <3>2. QED
      BY <2>1, <3>1 DEF Knows
  <2>2. CASE q # p
    <3>1. LinesOf(q)' /\ (Creating(q)' <=> Creating(q)) /\ Variant(q)' = Variant(q) /\ tx'[q] = tx[q]
      BY <1>1, <2>2, OthersStay DEF Alone
    <3>2. ASSUME tx[q].pc \in {"select", "update"}
          PROVE  Read(q, Variant(q))' = Read(q, Variant(q))
      <4>1. Variant(q) \in Variants
        BY <3>2, EntityType
      <4>2. q # NONE
        BY RowsAssumption
      <4>3. CASE Variant(q) = v
        BY <1>3, <2>2, <3>1, <4>2, <4>3 DEF Read
      <4>4. CASE Variant(q) # v
        BY <1>3, <3>1, <4>1, <4>4 DEF Read
      <4>5. QED
        BY <4>3, <4>4
    <3>3. Knows(q)
      BY DEF Account
    <3>4. QED
      BY <3>1, <3>2, <3>3 DEF Knows
  <2>3. QED
    BY <2>1, <2>2
<1>8. QED
  BY <1>6, <1>7 DEF Account

-----------------------------------------------------------------------------
(* Going through the lines.                                                *)

LEMMA NoneDone ==
  ASSUME NEW all \in Seq(Line)
  PROVE  Suffix(all, all) /\ \A v : DoneOf(all, all, v) = 0
<1>1. Len(all) \in Nat
  OBVIOUS
<1>2. Suffix(all, all)
  BY <1>1 DEF Suffix
<1>3. Len(all) - Len(all) = 0
  BY <1>1
<1>4. QED
  BY <1>2, <1>3, NoPieces DEF DoneOf

LEMMA AllDone ==
  ASSUME NEW all \in Seq(Line)
  PROVE  \A v : DoneOf(<<>>, all, v) = Total(all, v)
<1>1. Len(all) - Len(<<>>) = Len(all)
  OBVIOUS
<1>2. QED
  BY <1>1 DEF DoneOf, Total

LEMMA OneLineDone ==
  ASSUME NEW rest \in Seq(Line), rest # <<>>, NEW all \in Seq(Line), Suffix(rest, all)
  PROVE  /\ Suffix(Tail(rest), all)
         /\ \A v : DoneOf(Tail(rest), all, v) = DoneOf(rest, all, v)
                     + (IF Head(rest).variant = v THEN Head(rest).quantity ELSE 0)
<1> DEFINE k == Len(all) - Len(rest)
<1>1. /\ Len(rest) \in Nat \ {0} /\ Len(all) \in Nat
      /\ Len(Tail(rest)) = Len(rest) - 1
      /\ Head(rest) = rest[1]
      /\ \A i \in 1..Len(Tail(rest)) : Tail(rest)[i] = rest[i + 1]
  OBVIOUS
<1>2. /\ Len(rest) <= Len(all)
      /\ \A i \in 1..Len(rest) : rest[i] = all[k + i]
  BY DEF Suffix
<1>3. /\ k \in 0..Len(all) /\ k < Len(all)
      /\ Len(all) - Len(Tail(rest)) = k + 1
  BY <1>1, <1>2
<1>4. Head(rest) = all[k + 1]
  BY <1>1, <1>2
<1>5. Suffix(Tail(rest), all)
  <2>1. ASSUME NEW i \in 1..Len(Tail(rest))
        PROVE  Tail(rest)[i] = all[Len(all) - Len(Tail(rest)) + i]
    <3>1. i + 1 \in 1..Len(rest) /\ k + (i + 1) = Len(all) - Len(Tail(rest)) + i
      BY <1>1, <1>3
    <3>2. Tail(rest)[i] = rest[i + 1] /\ rest[i + 1] = all[k + (i + 1)]
      BY <1>1, <1>2, <3>1
    <3>3. QED
      BY <3>1, <3>2
  <2>2. QED
    BY <1>1, <1>2, <2>1 DEF Suffix
<1>6. ASSUME NEW v
      PROVE  TotalTo(all, k + 1, v) = TotalTo(all, k, v)
               + (IF all[k + 1].variant = v THEN all[k + 1].quantity ELSE 0)
  BY <1>3, TotalStep
<1>7. QED
  BY <1>3, <1>4, <1>5, <1>6 DEF DoneOf

-----------------------------------------------------------------------------
(* Requests arrive.                                                        *)

\* The request that arrives has moved nothing.
LEMMA ArrivalAccount ==
  ASSUME TypeInv, Account, NEW p \in Procs, tx[p].pc = "idle",
         NEW t, tx' = [tx EXCEPT ![p] = t], UNCHANGED database,
         LinesOf(p)', Knows(p)', \A v \in Variants : Moved(p, v)' = 0
  PROVE  Account'
<1>1. tx[p] = Idle
  BY Kinds DEF TypeInv
<1>2. \A v : Moved(p, v) = 0
  BY <1>1, IdleAccount
<1>3. QED
  BY <1>2, QuietAccount DEF database

LEMMA CreateOrderAccount ==
  ASSUME TypeInv, Account, NEW p \in Procs, NEW u \in Users,
         NEW items \in Baskets \cup {<<>>}, NEW coupon \in BOOLEAN,
         CreateOrder(p, u, items, coupon)
  PROVE  Account'
<1> DEFINE lines == IF items = <<>> THEN cart[u] ELSE items
<1>1. lines \in Seq(Line)
  BY ParametersAssumption DEF TypeInv, TypeOK
<1>2. PICK o \in OrderIds :
        tx' = [tx EXCEPT ![p] =
                    [pc |-> "next", op |-> "create", id |-> o, user |-> u,
                     items |-> lines, lines |-> lines,
                     fromCart |-> items = <<>>, coupon |-> coupon,
                     base |-> NONE, cols |-> {}, used |-> 0]]
  BY DEF CreateOrder
<1> DEFINE t == [pc |-> "next", op |-> "create", id |-> o, user |-> u,
                 items |-> lines, lines |-> lines,
                 fromCart |-> items = <<>>, coupon |-> coupon,
                 base |-> NONE, cols |-> {}, used |-> 0]
<1>3. tx'[p] = t /\ t.pc = "next" /\ t.items = lines /\ t.lines = lines
  BY <1>2 DEF TypeInv, TypeOK
<1>4. Creating(p)'
  <2>1. t \in CreateTx
    BY <1>1 DEF CreateTx
  <2>2. QED
    BY <1>3, <2>1 DEF Creating
<1>5. Suffix(lines, lines) /\ \A v : DoneOf(lines, lines, v) = 0
  BY <1>1, NoneDone
<1>6. LinesOf(p)' /\ Knows(p)' /\ \A v \in Variants : Moved(p, v)' = 0
  BY <1>3, <1>4, <1>5 DEF LinesOf, Knows, Moved
<1>7. QED
  BY <1>2, <1>6, ArrivalAccount DEF CreateOrder

LEMMA StatusChangeAccount ==
  ASSUME TypeInv, Account, NEW p \in Procs, tx[p].pc = "idle", NEW o, NEW to, NEW by,
         tx' = [tx EXCEPT ![p] = StatusChange(o, to, by)], UNCHANGED database
  PROVE  Account'
<1>1. tx'[p].pc = "selectOrder"
  BY DEF StatusChange, TypeInv, TypeOK
<1>2. ~Creating(p)'
  BY <1>1 DEF Creating, CreateTx
<1>3. LinesOf(p)' /\ Knows(p)' /\ \A v \in Variants : Moved(p, v)' = 0
  BY <1>1, <1>2 DEF LinesOf, Knows, Moved, Releasing
<1>4. QED
  BY <1>3, ArrivalAccount

LEMMA UpdateVariantStockAccount ==
  ASSUME TypeInv, Account, NEW p \in Procs, NEW v \in Variants, NEW level \in StockLevels,
         UpdateVariantStock(p, v, level)
  PROVE  Account'
<1> DEFINE lines == <<[variant |-> v, quantity |-> 1]>>
           t == [pc |-> "select", op |-> "stock", id |-> NONE, level |-> level,
                 lines |-> lines, base |-> inv[v], cols |-> {}]
<1>1. /\ tx' = [tx EXCEPT ![p] = t] /\ UNCHANGED database
      /\ tx'[p] = t /\ tx[p].pc = "idle"
  BY DEF UpdateVariantStock, TypeInv, TypeOK
<1>2. ~Creating(p)' /\ tx'[p].pc = "select" /\ tx'[p].base = inv[v] /\ Variant(p)' = v
  BY <1>1 DEF Creating, CreateTx, Variant
<1>3. v \notin raced => Read(p, v).reserved = inv[v].reserved
  <2>1. Moved(p, v) = 0
    BY <1>1, Kinds, IdleAccount DEF TypeInv
  <2>2. v \notin raced /\ owner[v] = p => row[v].reserved = inv[v].reserved + 0
    BY <2>1 DEF Account, RowsInv
  <2>3. QED
    BY <2>2 DEF Read, TypeInv, TypeOK, InventoryRow
<1>4. Read(p, v)' = Read(p, v) /\ raced' = raced
  BY <1>1 DEF Read, database
<1>5. LinesOf(p)' /\ Knows(p)' /\ \A w \in Variants : Moved(p, w)' = 0
  BY <1>2, <1>3, <1>4 DEF LinesOf, Knows, Moved, Releasing
<1>6. QED
  BY <1>1, <1>5, ArrivalAccount

-----------------------------------------------------------------------------
(* Statements.                                                             *)

LEMMA ReserveFindAccount ==
  ASSUME TypeInv, Account, NEW p \in Procs, ReserveFind(p)
  PROVE  Account'
<1> DEFINE read == Read(p, Variant(p))
           t == [tx[p] EXCEPT !.pc = "select", !.base = read]
<1>1. Creating(p) /\ LinesOf(p)
  BY Kinds DEF TypeInv, ReserveFind, Account
<1>2. CASE Rollback(p)
  BY <1>2, RollbackAccount
<1>3. CASE tx' = [tx EXCEPT ![p] = t] /\ UNCHANGED database
  <2>1. read \in InventoryRow
    <3>1. tx[p].lines \in Seq(Line) /\ tx[p].lines # <<>>
      BY <1>1 DEF ReserveFind, Creating, CreateTx
    <3>2. Variant(p) \in Variants
      BY <3>1, HeadAndTail DEF Variant, Line
    <3>3. QED
      BY <3>2 DEF Read, TypeInv, TypeOK
  <2>2. /\ tx'[p] = t /\ t \in CreateTx /\ t.pc = "select" /\ t.base = read
        /\ t.lines = tx[p].lines /\ t.items = tx[p].items
    BY <1>1, <1>3, <2>1 DEF Creating, CreateTx, TypeInv, TypeOK
  <2>3. Creating(p)' /\ Variant(p)' = Variant(p) /\ Read(p, Variant(p))' = read /\ raced' = raced
    BY <1>3, <2>2 DEF Creating, Variant, Read, database
  <2>4. LinesOf(p)' /\ Knows(p)' /\ \A v \in Variants : Moved(p, v)' = Moved(p, v)
    BY <1>1, <2>2, <2>3 DEF LinesOf, Knows, Moved
  <2>5. QED
    BY <1>3, <2>4, QuietAccount DEF database
<1>4. QED
  BY <1>2, <1>3 DEF ReserveFind

LEMMA SaveSelectAccount ==
  ASSUME TypeInv, Account, NEW p \in Procs, SaveSelect(p)
  PROVE  Account'
<1> DEFINE v == Variant(p)
           cols == {c \in {"quantity", "reserved"} : Entity(p)[c] # Read(p, v)[c]}
           t == [tx[p] EXCEPT !.pc = "update", !.cols = cols]
<1>1. /\ Creating(p) \/ Stocking(p)
      /\ tx[p].lines # <<>> /\ tx[p].base \in InventoryRow /\ LinesOf(p) /\ Knows(p)
      /\ tx[p].pc = "select"
  BY Kinds DEF TypeInv, TxInv, SaveSelect, Account
<1>2. tx' = [tx EXCEPT ![p] = t] /\ UNCHANGED database /\ tx'[p] = t
  BY DEF SaveSelect, TypeInv, TypeOK
<1>3. /\ t.pc = "update" /\ t.lines = tx[p].lines /\ t.base = tx[p].base /\ t.cols = cols
      /\ Creating(p) => t.items = tx[p].items /\ t \in CreateTx
      /\ Stocking(p) => t \in StockTx
  BY <1>1 DEF Creating, Stocking, CreateTx, StockTx, Columns
<1>4. Creating(p)' <=> Creating(p)
  <2>1. t \in CreateTx => ~(t \in StockTx)
    BY DEF CreateTx, StockTx
  <2>2. tx[p] \in CreateTx => ~(tx[p] \in StockTx)
    BY DEF CreateTx, StockTx
  <2>3. QED
    BY <1>1, <1>2, <1>3, <2>1, <2>2 DEF Creating, Stocking
<1>5. Variant(p)' = v /\ Read(p, v)' = Read(p, v) /\ raced' = raced
  <2>1. Variant(p)' = Variant(p)
    BY <1>2, <1>3 DEF Variant
  <2>2. UNCHANGED <<owner, row, inv, raced>>
    BY <1>2 DEF database
  <2>3. QED
    BY <2>1, <2>2 DEF Read
<1>6. v \notin raced => ("reserved" \in cols <=> Creating(p))
  <2>1. v \in Variants /\ Entity(p) \in InventoryRow
    BY <1>1, EntityType
  <2>2. ASSUME v \notin raced PROVE tx[p].base.reserved = Read(p, v).reserved
    BY <1>1, <2>2 DEF Knows
  <2>3. CASE Creating(p)
    <3>1. tx[p].op = "create" /\ tx[p].lines \in Seq(Line)
      BY <2>3 DEF Creating, CreateTx
    <3>2. Head(tx[p].lines).quantity \in Nat \ {0}
      BY <1>1, <3>1, HeadAndTail DEF Line
    <3>3. Entity(p).reserved = tx[p].base.reserved + Head(tx[p].lines).quantity
      BY <1>1, <3>1 DEF Entity, InventoryRow
    <3>4. tx[p].base.reserved \in Nat
      BY <1>1 DEF InventoryRow
    <3>5. Entity(p).reserved # tx[p].base.reserved
      BY <3>2, <3>3, <3>4
    <3>6. QED
      BY <2>2, <2>3, <3>5
  <2>4. CASE ~Creating(p)
    <3>1. tx[p].op = "stock"
      BY <1>1, <2>4 DEF Stocking, StockTx
    <3>2. Entity(p).reserved = tx[p].base.reserved
      BY <1>1, <3>1 DEF Entity, InventoryRow
    <3>3. QED
      BY <2>2, <2>4, <3>2
  <2>5. QED
    BY <2>3, <2>4
<1>7. Knows(p)'
  BY <1>1, <1>2, <1>3, <1>4, <1>5, <1>6 DEF Knows
<1>8. LinesOf(p)' /\ \A w \in Variants : Moved(p, w)' = Moved(p, w)
  BY <1>1, <1>2, <1>3, <1>4 DEF LinesOf, Moved, Releasing
<1>9. QED
  BY <1>2, <1>7, <1>8, QuietAccount DEF database

\* A label of createOrder after the last line, or of a status change before
\* its first.
LEMMA LabelAccount ==
  ASSUME TypeInv, Account, NEW p \in Procs,
         \/ ApplyCoupon(p) \/ CheckPerUserLimit(p) \/ IncrementUsedCount(p)
         \/ SelectOrder(p)
  PROVE  Account'
<1>1. CASE Rollback(p)
  BY <1>1, RollbackAccount
<1>2. CASE /\ \/ ApplyCoupon(p) \/ CheckPerUserLimit(p) \/ IncrementUsedCount(p)
           /\ ~Rollback(p)
  <2>1. Creating(p) /\ LinesOf(p)
    BY <1>2, Kinds DEF TypeInv, ApplyCoupon, CheckPerUserLimit, IncrementUsedCount, Account
  <2>2. PICK t \in CreateTx : /\ tx' = [tx EXCEPT ![p] = t]
                              /\ t.pc \in {"userLimit", "increment", "commit"}
                              /\ t.lines = tx[p].lines /\ t.items = tx[p].items
    <3>1. CASE Goto(p, "userLimit") \/ Goto(p, "increment")
      <4>1. PICK l \in {"userLimit", "increment"} : tx' = [tx EXCEPT ![p].pc = l]
        BY <3>1 DEF Goto
      <4> DEFINE moved == [tx[p] EXCEPT !.pc = l]
      <4>2. /\ moved \in CreateTx /\ moved.pc = l
            /\ moved.lines = tx[p].lines /\ moved.items = tx[p].items
        BY <2>1 DEF Creating, CreateTx
      <4>3. tx' = [tx EXCEPT ![p] = moved]
        BY <4>1
      <4>4. QED
        BY <4>2, <4>3
    <3>2. CASE IncrementUsedCount(p)
      <4> DEFINE moved == [tx[p] EXCEPT !.pc = "commit", !.used = usedCount + 1]
      <4>1. tx' = [tx EXCEPT ![p] = moved]
        BY <3>2 DEF IncrementUsedCount
      <4>2. usedCount + 1 \in Nat
        BY DEF TypeInv, TypeOK
      <4>3. /\ moved \in CreateTx /\ moved.pc = "commit"
            /\ moved.lines = tx[p].lines /\ moved.items = tx[p].items
        BY <2>1, <4>2 DEF Creating, CreateTx
      <4>4. QED
        BY <4>1, <4>3
    <3>3. QED
      BY <1>2, <3>1, <3>2 DEF ApplyCoupon, CheckPerUserLimit
  <2>3. tx'[p] = t
    BY <2>2 DEF TypeInv, TypeOK
  <2>4. tx[p].lines = <<>>
    BY <1>2, <2>1 DEF ApplyCoupon, CheckPerUserLimit, IncrementUsedCount, LinesOf
  <2>5. Creating(p)'
    BY <2>2, <2>3 DEF Creating
  <2>6. LinesOf(p)' /\ Knows(p)' /\ \A v \in Variants : Moved(p, v)' = Moved(p, v)
    BY <2>1, <2>2, <2>3, <2>4, <2>5 DEF LinesOf, Knows, Moved
  <2>7. /\ UNCHANGED <<inv, row, order, raced>>
        /\ \A v \in Variants : owner'[v] = owner[v]
    BY <1>2, RowsAssumption DEF ApplyCoupon, CheckPerUserLimit, IncrementUsedCount, database,
                                TypeInv, TypeOK, Rows
  <2>8. QED
    BY <2>2, <2>6, <2>7, QuietAccount
<1>3. CASE SelectOrder(p) /\ ~Rollback(p)
  <2>1. Changing(p) /\ tx[p].pc = "selectOrder"
    BY <1>3, Kinds DEF TypeInv, SelectOrder
  <2> DEFINE t == [tx[p] EXCEPT !.pc = "updateOrder"]
  <2>2. tx' = [tx EXCEPT ![p] = t] /\ UNCHANGED database /\ tx'[p] = t /\ t.pc = "updateOrder"
    BY <1>3, <2>1 DEF SelectOrder, Goto, Changing, StatusTx, TypeInv, TypeOK
  <2>3. ~Creating(p) /\ ~Creating(p)'
    BY <2>1, <2>2 DEF Creating, CreateTx, Changing, StatusTx
  <2>4. LinesOf(p)' /\ Knows(p)' /\ \A v \in Variants : Moved(p, v)' = Moved(p, v)
    BY <2>1, <2>2, <2>3 DEF LinesOf, Knows, Moved, Releasing
  <2>5. QED
    BY <2>2, <2>4, QuietAccount DEF database
<1>4. QED
  BY <1>1, <1>2, <1>3

LEMMA UpdateOrderAccount ==
  ASSUME TypeInv, Account, NEW p \in Procs, UpdateOrder(p)
  PROVE  Account'
<1> DEFINE o == tx[p].id
           todo == IF tx[p].by = "customer" THEN order[o].items ELSE <<>>
           t == [tx[p] EXCEPT !.pc = "release", !.lines = todo]
<1>1. Changing(p) /\ tx[p].pc = "updateOrder"
  BY Kinds DEF TypeInv, UpdateOrder
<1>2. o \in OrderIds /\ order[o] \in Order
  BY <1>1 DEF TypeInv, TypeOK, TxInv, Changing, StatusTx
<1>3. /\ tx' = [tx EXCEPT ![p] = t] /\ tx'[p] = t
      /\ t.pc = "release" /\ t.lines = todo /\ t.id = o /\ t.by = tx[p].by
  BY <1>1 DEF UpdateOrder, Changing, StatusTx, TypeInv, TypeOK
<1>4. ~Creating(p) /\ ~Creating(p)' /\ (Releasing(p)' <=> tx[p].by = "customer")
  BY <1>1, <1>3 DEF Creating, CreateTx, Releasing
<1>5. order' = order /\ order[o].items \in Seq(Line)
  BY <1>2 DEF UpdateOrder, Order
<1>6. Suffix(order[o].items, order[o].items) /\ \A v : DoneOf(order[o].items, order[o].items, v) = 0
  BY <1>5, NoneDone
<1>7. LinesOf(p)' /\ Knows(p)' /\ \A v \in Variants : Moved(p, v)' = Moved(p, v)
  <2>1. LinesOf(p)' /\ Knows(p)'
    BY <1>3, <1>4, <1>5, <1>6 DEF LinesOf, Knows
  <2>2. \A v : Moved(p, v) = 0
    BY <1>1, <1>4 DEF Moved, Releasing
  <2>3. ASSUME NEW v PROVE Moved(p, v)' = 0
    <3>1. CASE tx[p].by = "customer"
      <4>1. Moved(p, v)' = 0 - DoneOf(order[o].items, order[o].items, v)
        BY <1>3, <1>4, <1>5, <3>1 DEF Moved
      <4>2. QED
        BY <1>6, <4>1
    <3>2. CASE tx[p].by # "customer"
      BY <1>3, <1>4, <3>2 DEF Moved
    <3>3. QED
      BY <3>1, <3>2
  <2>4. QED
    BY <2>1, <2>2, <2>3
<1>8. /\ UNCHANGED <<inv, row, order, raced>>
      /\ \A v \in Variants : owner'[v] = owner[v]
  BY <1>2, RowsAssumption DEF UpdateOrder, TypeInv, TypeOK, Rows
<1>9. QED
  BY <1>3, <1>7, <1>8, QuietAccount

LEMMA SaveUpdateAccount ==
  ASSUME TypeInv, Account, NEW p \in Procs, SaveUpdate(p)
  PROVE  Account'
<1> DEFINE v == Variant(p)
           d == IF Creating(p) THEN Head(tx[p].lines).quantity ELSE 0
           t == [tx[p] EXCEPT !.pc = "next", !.lines = Tail(@)]
<1>1. /\ Creating(p) \/ Stocking(p)
      /\ tx[p].lines # <<>> /\ tx[p].base \in InventoryRow /\ LinesOf(p) /\ Knows(p)
      /\ tx[p].pc = "update"
  BY Kinds DEF TypeInv, TxInv, SaveUpdate, Account
<1>2. tx[p].lines \in Seq(Line)
  BY <1>1 DEF Creating, Stocking, CreateTx, StockTx
<1>3. v \in Variants /\ Head(tx[p].lines).quantity \in Nat /\ Tail(tx[p].lines) \in Seq(Line)
  BY <1>1, <1>2, HeadAndTail DEF Variant, Line
<1>4. /\ tx' = [tx EXCEPT ![p] = t] /\ tx'[p] = t
      /\ t.pc = "next" /\ t.lines = Tail(tx[p].lines)
      /\ Creating(p) => t.items = tx[p].items /\ t \in CreateTx
      /\ Stocking(p) => t \in StockTx
  BY <1>1, <1>3 DEF SaveUpdate, Creating, Stocking, CreateTx, StockTx, TypeInv, TypeOK
<1>5. Creating(p)' <=> Creating(p)
  <2>1. t \in CreateTx => ~(t \in StockTx)
    BY DEF CreateTx, StockTx
  <2>2. QED
    BY <1>1, <1>4, <2>1 DEF Creating
<1>6. LinesOf(p)' /\ \A w \in Variants : Moved(p, w)' = Moved(p, w) + (IF w = v THEN d ELSE 0)
  <2>1. CASE Creating(p)
    <3>1. Suffix(tx[p].lines, tx[p].items) /\ tx[p].items \in Seq(Line)
      BY <1>1, <2>1 DEF LinesOf, Creating, CreateTx
    <3>2. /\ Suffix(Tail(tx[p].lines), tx[p].items)
          /\ \A w : DoneOf(Tail(tx[p].lines), tx[p].items, w) = DoneOf(tx[p].lines, tx[p].items, w)
                      + (IF v = w THEN Head(tx[p].lines).quantity ELSE 0)
      BY <1>1, <1>2, <3>1, OneLineDone DEF Variant
    <3>3. QED
      BY <1>4, <1>5, <2>1, <3>2 DEF LinesOf, Moved
  <2>2. CASE ~Creating(p)
    BY <1>1, <1>4, <1>5, <2>2 DEF LinesOf, Moved, Releasing
  <2>3. QED
    BY <2>1, <2>2
<1>7. v \notin raced => row'[v].reserved = row[v].reserved + d
  <2>1. row'[v].reserved = IF "reserved" \in tx[p].cols THEN Entity(p).reserved ELSE row[v].reserved
    BY <1>3 DEF SaveUpdate, TypeInv, TypeOK
  <2>2. ASSUME v \notin raced
        PROVE  tx[p].base.reserved = row[v].reserved /\ ("reserved" \in tx[p].cols <=> Creating(p))
    <3>1. owner[v] = p \/ row[v] = inv[v]
      BY <1>3 DEF SaveUpdate, CanLock, Account, RowsInv
    <3>2. QED
      BY <1>1, <2>2, <3>1 DEF Knows, Read
  <2>3. Creating(p) => Entity(p).reserved = tx[p].base.reserved + d
    <3>1. Creating(p) => tx[p].op = "create"
      BY DEF Creating, CreateTx
    <3>2. QED
      BY <1>1, <3>1 DEF Entity, InventoryRow
  <2>4. row[v].reserved \in Nat
    BY <1>3 DEF TypeInv, TypeOK, InventoryRow
  <2>5. QED
    BY <2>1, <2>2, <2>3, <2>4
<1>8. /\ CanLock(p, v) /\ owner' = [owner EXCEPT ![v] = p]
      /\ UNCHANGED <<inv, order, raced>>
      /\ \A w \in Variants \ {v} : row'[w] = row[w]
  BY DEF SaveUpdate, TypeInv, TypeOK
<1>9. d \in Int
  BY <1>3
<1>10. QED
  BY <1>3, <1>4, <1>6, <1>7, <1>8, <1>9, WriteAccount

LEMMA ReleaseInventoryAccount ==
  ASSUME TypeInv, Account, NEW p \in Procs, ReleaseInventory(p)
  PROVE  Account'
<1> DEFINE v == Variant(p)
           n == Head(tx[p].lines).quantity
           items == order[tx[p].id].items
           t == [tx[p] EXCEPT !.lines = Tail(@)]
<1>1. /\ Changing(p) /\ LinesOf(p) /\ tx[p].pc = "release" /\ tx[p].lines # <<>>
      /\ tx[p].lines \in Seq(Line) /\ items \in Seq(Line)
  <2>1. Changing(p) /\ LinesOf(p) /\ tx[p].pc = "release" /\ tx[p].lines # <<>>
    BY Kinds DEF TypeInv, ReleaseInventory, Account
  <2>2. QED
    BY <2>1 DEF TypeInv, TypeOK, TxInv, Changing, StatusTx, Order
<1>2. v \in Variants /\ n \in Nat /\ Tail(tx[p].lines) \in Seq(Line)
  BY <1>1, HeadAndTail DEF Variant, Line
<1>3. CASE Rollback(p)
  BY <1>3, RollbackAccount
<1>4. CASE ~CheckRefuses(v, n)
  <2>1. /\ owner' = [owner EXCEPT ![v] = p] /\ CanLock(p, v)
        /\ row' = [row EXCEPT ![v].reserved = @ - n]
        /\ tx' = [tx EXCEPT ![p] = t]
        /\ UNCHANGED <<inv, order, raced>>
    BY <1>4 DEF ReleaseInventory
  <2>2. /\ tx'[p] = t /\ t.pc = "release" /\ t.lines = Tail(tx[p].lines)
        /\ t.by = tx[p].by /\ t.id = tx[p].id
    BY <1>1, <2>1 DEF Changing, StatusTx, TypeInv, TypeOK
  <2>3. ~Creating(p) /\ ~Creating(p)' /\ Releasing(p) /\ Releasing(p)'
    BY <1>1, <2>2 DEF Creating, CreateTx, Releasing, LinesOf
  <2>4. Suffix(tx[p].lines, items)
    BY <1>1, <2>3 DEF LinesOf
  <2>5. /\ Suffix(Tail(tx[p].lines), items)
        /\ \A w : DoneOf(Tail(tx[p].lines), items, w) = DoneOf(tx[p].lines, items, w)
                    + (IF v = w THEN n ELSE 0)
        /\ \A w : DoneOf(tx[p].lines, items, w) \in Nat
    BY <1>1, <2>4, OneLineDone, SuffixDone DEF Variant
  <2>6. LinesOf(p)'
    BY <2>1, <2>2, <2>3, <2>5 DEF LinesOf
  <2>7. ASSUME NEW w \in Variants
        PROVE  Moved(p, w)' = Moved(p, w) + (IF w = v THEN 0 - n ELSE 0)
    <3>1. /\ Moved(p, w) = 0 - DoneOf(tx[p].lines, items, w)
          /\ Moved(p, w)' = 0 - DoneOf(Tail(tx[p].lines), items, w)
      BY <2>1, <2>2, <2>3 DEF Moved
    <3>2. QED
      BY <1>2, <2>5, <3>1
  <2>8. row'[v].reserved = row[v].reserved + (0 - n) /\ \A w \in Variants \ {v} : row'[w] = row[w]
    BY <1>2, <2>1 DEF TypeInv, TypeOK, InventoryRow
  <2>9. 0 - n \in Int /\ t.pc \notin {"select", "update"}
    BY <1>2, <2>2
  <2>10. QED
    BY <1>2, <2>1, <2>6, <2>7, <2>8, <2>9, WriteAccount
<1>5. QED
  BY <1>3, <1>4 DEF ReleaseInventory

-----------------------------------------------------------------------------
(* Commits.                                                                *)

\* At its commit a request has done all its lines.
LEMMA CreationDone ==
  ASSUME TypeInv, Account, NEW p \in Procs, CommitOrder(p)
  PROVE  \A v : Moved(p, v) = Total(tx[p].items, v)
<1>1. Creating(p) /\ LinesOf(p)
  BY Kinds DEF TypeInv, CommitOrder, Account
<1>2. tx[p].lines = <<>> /\ tx[p].items \in Seq(Line)
  BY <1>1 DEF CommitOrder, LinesOf, Creating, CreateTx
<1>3. QED
  BY <1>1, <1>2, AllDone DEF Moved

LEMMA ChangeDone ==
  ASSUME TypeInv, Account, NEW p \in Procs, CommitStatus(p)
  PROVE  \A v : Moved(p, v) = IF tx[p].by = "customer"
                              THEN 0 - Total(order[tx[p].id].items, v) ELSE 0
<1>1. Changing(p) /\ tx[p].lines = <<>> /\ tx[p].pc = "release"
  BY Kinds DEF TypeInv, CommitStatus
<1>2. order[tx[p].id].items \in Seq(Line)
  BY <1>1 DEF TypeInv, TypeOK, TxInv, Changing, StatusTx, Order
<1>3. ~Creating(p) /\ (Releasing(p) <=> tx[p].by = "customer")
  BY <1>1 DEF Creating, CreateTx, Releasing
<1>4. QED
  BY <1>1, <1>2, <1>3, AllDone DEF Moved

LEMMA StockDone ==
  ASSUME TypeInv, Account, NEW p \in Procs, CommitStock(p)
  PROVE  \A v : Moved(p, v) = 0
<1>1. tx[p].op = "stock" /\ tx[p].pc = "next"
  BY DEF CommitStock
<1>2. ~Creating(p) /\ ~Releasing(p)
  BY <1>1 DEF Creating, CreateTx, Releasing
<1>3. QED
  BY <1>2 DEF Moved

\* A commit adds to the reservations of every row that no save has raced
\* what its request has moved.
LEMMA CommitMoves ==
  ASSUME TypeInv, Account, NEW p \in Procs, CommitRows(p), NEW v \in Variants, v \notin raced'
  PROVE  v \notin raced /\ inv'[v].reserved = inv[v].reserved + Moved(p, v)
<1>1. /\ inv'[v] = IF owner[v] = p THEN row[v] ELSE inv[v]
      /\ v \notin raced /\ inv[v].reserved \in Nat
  BY DEF CommitRows, TypeInv, TypeOK, InventoryRow
<1>2. QED
  BY <1>1 DEF Account, RowsInv

LEMMA CommitsKeepItems ==
  ASSUME TypeInv, NEW p \in Procs,
         CommitOrder(p) \/ CommitStatus(p) \/ CommitStock(p)
  PROVE  CommitRows(p) /\ ItemsStay
<1>1. CommitRows(p)
  BY DEF CommitOrder, CommitStatus, CommitStock
<1>2. CASE CommitOrder(p)
  <2>1. Creating(p)
    BY <1>2, Kinds DEF TypeInv, CommitOrder
  <2>2. order[tx[p].id] = NONE
    BY <2>1 DEF TypeInv, TxInv
  <2>3. QED
    BY <1>1, <1>2, <2>2 DEF CommitOrder, ItemsStay, TypeInv, TypeOK
<1>3. CASE CommitStatus(p)
  <2>1. Changing(p)
    BY <1>3, Kinds DEF TypeInv, CommitStatus
  <2>2. tx[p].id \in OrderIds /\ order[tx[p].id] \in Order
    BY <2>1 DEF TypeInv, TypeOK, TxInv, Changing, StatusTx
  <2>3. ASSUME NEW o \in OrderIds, order[o] # NONE
        PROVE  order'[o].items = order[o].items
    <3>1. CASE o = tx[p].id
      BY <1>3, <2>2, <3>1 DEF CommitStatus, TypeInv, TypeOK, Order
    <3>2. CASE o # tx[p].id
      BY <1>3, <3>2 DEF CommitStatus, TypeInv, TypeOK
    <3>3. QED
      BY <3>1, <3>2
  <2>4. \A x \in OrderIds : order'[x] = NONE <=> order[x] = NONE
    BY <1>3, CommitStatusTypes
  <2>5. QED
    BY <1>1, <2>3, <2>4 DEF ItemsStay
<1>4. CASE CommitStock(p)
  BY <1>1, <1>4 DEF CommitStock, ItemsStay
<1>5. QED
  BY <1>2, <1>3, <1>4

LEMMA InitAccount == Init => TypeInv /\ Account
<1> SUFFICES ASSUME Init PROVE TypeInv /\ Account
  OBVIOUS
<1>1. TypeInv
  BY InitTypes
<1>2. \A p \in Procs : tx[p] = Idle
  BY DEF Init
<1>3. \A p \in Procs : LinesOf(p) /\ Knows(p) /\ \A v : Moved(p, v) = 0
  BY <1>2, IdleAccount
<1>4. \A v \in Variants : row[v] = inv[v] /\ owner[v] = NONE
  BY DEF Init, Rows
<1>5. QED
  BY <1>1, <1>3, <1>4, RowsAssumption DEF Account, RowsInv

LEMMA NextAccount ==
  ASSUME TypeInv, Account, [Next]_vars
  PROVE  Account'
<1>1. CASE UNCHANGED vars
  BY <1>1 DEF vars, Account, RowsInv, LinesOf, Knows, Moved, Creating, Releasing, Read, Variant
<1>2. ASSUME NEW p \in Procs, Request(p)
      PROVE  Account'
  <2>1. ASSUME NEW o, NEW to, NEW by,
               tx[p].pc = "idle", UNCHANGED database,
               tx' = [tx EXCEPT ![p] = StatusChange(o, to, by)]
        PROVE  Account'
    BY <2>1, StatusChangeAccount
  <2>2. QED
    BY <1>2, <2>1, CreateOrderAccount, UpdateVariantStockAccount
       DEF Request, RequestCancellation, UpdateOrderStatus
<1>3. ASSUME NEW p \in Procs, Statement(p)
      PROVE  Account'
  <2>1. CASE CommitOrder(p) \/ CommitStatus(p) \/ CommitStock(p)
    BY <2>1, CommitsKeepItems, CommitAccount
  <2>2. QED
    BY <1>3, <2>1, ReserveFindAccount, SaveSelectAccount, SaveUpdateAccount,
       LabelAccount, UpdateOrderAccount, ReleaseInventoryAccount DEF Statement
<1>4. ASSUME NEW p \in Procs, Fail(p) \/ DeadlockVictim(p)
      PROVE  Account'
  BY <1>4, RollbackAccount DEF Fail, DeadlockVictim
<1>5. QED
  BY <1>1, <1>2, <1>3, <1>4 DEF Next

LEMMA StepCancels ==
  ASSUME TypeInv, CustomersCancel, NEW p \in Procs, NEW t, tx' = [tx EXCEPT ![p] = t],
         t \in StatusTx /\ t.by = "customer" => t.to = "cancelled"
  PROVE  CustomersCancel'
<1>1. tx'[p] = t /\ \A q \in Procs \ {p} : tx'[q] = tx[q]
  BY DEF TypeInv, TypeOK
<1>2. QED
  BY <1>1 DEF CustomersCancel, Changing

LEMMA NextCancels ==
  ASSUME TypeInv, CustomersCancel, [Next]_vars
  PROVE  CustomersCancel'
<1>1. CASE UNCHANGED vars
  BY <1>1 DEF vars, CustomersCancel, Changing
<1>2. ASSUME NEW p \in Procs, Rollback(p) \/ CommitRows(p)
      PROVE  CustomersCancel'
  <2>1. tx' = [tx EXCEPT ![p] = Idle] /\ Idle \notin StatusTx
    BY <1>2 DEF Rollback, CommitRows, Idle, StatusTx
  <2>2. QED
    BY <2>1, StepCancels
<1>3. ASSUME NEW p \in Procs, NEW t, tx' = [tx EXCEPT ![p] = t], t.op \in {"create", "stock"}
      PROVE  CustomersCancel'
  <2>1. t \notin StatusTx
    BY <1>3 DEF StatusTx
  <2>2. QED
    BY <1>3, <2>1, StepCancels
<1>4. ASSUME NEW p \in Procs, NEW t, tx' = [tx EXCEPT ![p] = t], Changing(p),
             t.by = tx[p].by, t.to = tx[p].to
      PROVE  CustomersCancel'
  BY <1>4, StepCancels DEF CustomersCancel
<1>5. ASSUME NEW p \in Procs, Request(p)
      PROVE  CustomersCancel'
  <2>1. ASSUME NEW u \in Users, NEW items \in Baskets \cup {<<>>}, NEW coupon \in BOOLEAN,
               CreateOrder(p, u, items, coupon)
        PROVE  CustomersCancel'
    <3> DEFINE lines == IF items = <<>> THEN cart[u] ELSE items
    <3>1. PICK o \in OrderIds :
            tx' = [tx EXCEPT ![p] =
                        [pc |-> "next", op |-> "create", id |-> o, user |-> u,
                         items |-> lines, lines |-> lines,
                         fromCart |-> items = <<>>, coupon |-> coupon,
                         base |-> NONE, cols |-> {}, used |-> 0]]
      BY <2>1 DEF CreateOrder
    <3> DEFINE t == [pc |-> "next", op |-> "create", id |-> o, user |-> u,
                     items |-> lines, lines |-> lines,
                     fromCart |-> items = <<>>, coupon |-> coupon,
                     base |-> NONE, cols |-> {}, used |-> 0]
    <3>2. tx' = [tx EXCEPT ![p] = t] /\ t.op = "create"
      BY <3>1
    <3>3. QED
      BY <1>3, <3>2
  <2>2. ASSUME NEW u \in Users, NEW o \in OrderIds, RequestCancellation(p, u, o)
        PROVE  CustomersCancel'
    <3>1. StatusChange(o, "cancelled", "customer").to = "cancelled"
      BY DEF StatusChange
    <3>2. QED
      BY <2>2, <3>1, StepCancels DEF RequestCancellation
  <2>3. ASSUME NEW o \in OrderIds, NEW to \in AdminTargets, UpdateOrderStatus(p, o, to)
        PROVE  CustomersCancel'
    <3>1. StatusChange(o, to, "admin").by = "admin"
      BY DEF StatusChange
    <3>2. QED
      BY <2>3, <3>1, StepCancels DEF UpdateOrderStatus
  <2>4. ASSUME NEW v \in Variants, NEW level \in StockLevels, UpdateVariantStock(p, v, level)
        PROVE  CustomersCancel'
    <3> DEFINE t == [pc |-> "select", op |-> "stock", id |-> NONE, level |-> level,
                     lines |-> <<[variant |-> v, quantity |-> 1]>>,
                     base |-> inv[v], cols |-> {}]
    <3>1. tx' = [tx EXCEPT ![p] = t] /\ t.op = "stock"
      BY <2>4 DEF UpdateVariantStock
    <3>2. QED
      BY <1>3, <3>1
  <2>5. QED
    BY <1>5, <2>1, <2>2, <2>3, <2>4 DEF Request
<1>6. ASSUME NEW p \in Procs, ReserveFind(p) \/ SaveSelect(p) \/ SaveUpdate(p)
      PROVE  CustomersCancel'
  <2>1. Creating(p) \/ Stocking(p)
    BY <1>6, Kinds DEF TypeInv, ReserveFind, SaveSelect, SaveUpdate
  <2>2. CASE Rollback(p)
    BY <1>2, <2>2
  <2>3. CASE \E t : tx' = [tx EXCEPT ![p] = t] /\ t.op = tx[p].op
    <3>1. PICK t : tx' = [tx EXCEPT ![p] = t] /\ t.op = tx[p].op
      BY <2>3
    <3>2. t.op \in {"create", "stock"}
      BY <2>1, <3>1 DEF Creating, Stocking, CreateTx, StockTx
    <3>3. QED
      BY <1>3, <3>1, <3>2
  <2>4. CASE ReserveFind(p) /\ ~Rollback(p)
    <3> DEFINE t == [tx[p] EXCEPT !.pc = "select", !.base = Read(p, Variant(p))]
    <3>1. tx' = [tx EXCEPT ![p] = t] /\ t.op = tx[p].op
      BY <2>1, <2>4 DEF ReserveFind, Creating, Stocking, CreateTx, StockTx
    <3>2. QED
      BY <2>3, <3>1
  <2>5. CASE SaveSelect(p)
    <3> DEFINE t == [tx[p] EXCEPT !.pc = "update",
                       !.cols = {c \in {"quantity", "reserved"} :
                                   Entity(p)[c] # Read(p, Variant(p))[c]}]
    <3>1. tx' = [tx EXCEPT ![p] = t] /\ t.op = tx[p].op
      BY <2>1, <2>5 DEF SaveSelect, Creating, Stocking, CreateTx, StockTx
    <3>2. QED
      BY <2>3, <3>1
  <2>6. CASE SaveUpdate(p)
    <3> DEFINE t == [tx[p] EXCEPT !.pc = "next", !.lines = Tail(@)]
    <3>1. tx' = [tx EXCEPT ![p] = t] /\ t.op = tx[p].op
      BY <2>1, <2>6 DEF SaveUpdate, Creating, Stocking, CreateTx, StockTx
    <3>2. QED
      BY <2>3, <3>1
  <2>7. QED
    BY <1>6, <2>2, <2>4, <2>5, <2>6
<1>7. ASSUME NEW p \in Procs, ApplyCoupon(p) \/ CheckPerUserLimit(p) \/ IncrementUsedCount(p)
      PROVE  CustomersCancel'
  <2>1. Creating(p)
    BY <1>7, Kinds DEF TypeInv, ApplyCoupon, CheckPerUserLimit, IncrementUsedCount
  <2>2. CASE Rollback(p)
    BY <1>2, <2>2
  <2>3. CASE ~Rollback(p)
    <3>1. \E t : tx' = [tx EXCEPT ![p] = t] /\ t.op = "create"
      <4>1. CASE IncrementUsedCount(p)
        <5> DEFINE t == [tx[p] EXCEPT !.pc = "commit", !.used = usedCount + 1]
        <5>1. tx' = [tx EXCEPT ![p] = t] /\ t.op = "create"
          BY <2>1, <4>1 DEF IncrementUsedCount, Creating, CreateTx
        <5>2. QED
          BY <5>1
      <4>2. CASE Goto(p, "userLimit") \/ Goto(p, "increment")
        <5>1. PICK l \in {"userLimit", "increment"} : tx' = [tx EXCEPT ![p].pc = l]
          BY <4>2 DEF Goto
        <5> DEFINE t == [tx[p] EXCEPT !.pc = l]
        <5>2. tx' = [tx EXCEPT ![p] = t] /\ t.op = "create"
          BY <2>1, <5>1 DEF Creating, CreateTx
        <5>3. QED
          BY <5>2
      <4>3. QED
        BY <1>7, <2>3, <4>1, <4>2 DEF ApplyCoupon, CheckPerUserLimit
    <3>2. QED
      BY <1>3, <3>1
  <2>4. QED
    BY <2>2, <2>3
<1>8. ASSUME NEW p \in Procs, SelectOrder(p) \/ UpdateOrder(p) \/ ReleaseInventory(p)
      PROVE  CustomersCancel'
  <2>1. Changing(p)
    BY <1>8, Kinds DEF TypeInv, SelectOrder, UpdateOrder, ReleaseInventory
  <2>2. CASE Rollback(p)
    BY <1>2, <2>2
  <2>3. CASE SelectOrder(p) /\ ~Rollback(p)
    <3> DEFINE t == [tx[p] EXCEPT !.pc = "updateOrder"]
    <3>1. tx' = [tx EXCEPT ![p] = t] /\ t.by = tx[p].by /\ t.to = tx[p].to
      BY <2>1, <2>3 DEF SelectOrder, Goto, Changing, StatusTx
    <3>2. QED
      BY <1>4, <2>1, <3>1
  <2>4. CASE UpdateOrder(p)
    <3> DEFINE t == [tx[p] EXCEPT !.pc = "release",
                       !.lines = IF tx[p].by = "customer"
                                 THEN order[tx[p].id].items ELSE <<>>]
    <3>1. tx' = [tx EXCEPT ![p] = t] /\ t.by = tx[p].by /\ t.to = tx[p].to
      BY <2>1, <2>4 DEF UpdateOrder, Changing, StatusTx
    <3>2. QED
      BY <1>4, <2>1, <3>1
  <2>5. CASE ReleaseInventory(p) /\ ~Rollback(p)
    <3> DEFINE t == [tx[p] EXCEPT !.lines = Tail(@)]
    <3>1. tx' = [tx EXCEPT ![p] = t] /\ t.by = tx[p].by /\ t.to = tx[p].to
      BY <2>1, <2>5 DEF ReleaseInventory, Changing, StatusTx
    <3>2. QED
      BY <1>4, <2>1, <3>1
  <2>6. QED
    BY <1>8, <2>2, <2>3, <2>4, <2>5
<1>9. ASSUME NEW p \in Procs, CommitOrder(p) \/ CommitStatus(p) \/ CommitStock(p)
      PROVE  CustomersCancel'
  BY <1>2, <1>9 DEF CommitOrder, CommitStatus, CommitStock
<1>10. ASSUME NEW p \in Procs, Fail(p) \/ DeadlockVictim(p)
       PROVE  CustomersCancel'
  BY <1>2, <1>10 DEF Fail, DeadlockVictim
<1>11. QED
  BY <1>1, <1>5, <1>6, <1>7, <1>8, <1>9, <1>10 DEF Next, Statement

-----------------------------------------------------------------------------
(* How the demand is kept.                                                 *)

LEMMA OrderPieces ==
  ASSUME TypeInv, NEW o \in Placed, NEW v
  PROVE  /\ o \in OrderIds /\ order[o] \in Order /\ order[o].items \in Seq(Line)
         /\ IsFiniteSet(PiecesOf(o, v))
         /\ Cardinality(PiecesOf(o, v)) = Total(order[o].items, v)
         /\ Total(order[o].items, v) \in Nat
<1>1. o \in OrderIds /\ order[o] \in Order
  BY DEF Placed, TypeInv, TypeOK
<1>2. order[o].items \in Seq(Line)
  BY <1>1 DEF Order
<1>3. Len(order[o].items) \in 0..Len(order[o].items)
  BY <1>2
<1>4. /\ IsFiniteSet(Pieces(order[o].items, Len(order[o].items), v))
      /\ TotalTo(order[o].items, Len(order[o].items), v) \in Nat
  BY <1>2, <1>3, PiecesFinite
<1>5. QED
  BY <1>1, <1>2, <1>4 DEF PiecesOf, Total, TotalTo

\* A new order adds its pieces to the demand, and has given nothing back.
LEMMA CommitOrderDemand ==
  ASSUME TypeInv, Account, DemandInv, NEW p \in Procs, CommitOrder(p)
  PROVE  DemandInv'
<1> DEFINE items == tx[p].items
           new == [user |-> tx[p].user, items |-> items, status |-> "pending",
                   history |-> <<[to |-> "pending", by |-> "customer"]>>]
<1>1. Creating(p)
  BY Kinds DEF TypeInv, CommitOrder
<1>2. PICK id \in OrderIds :
        id = tx[p].id /\ order[id] = NONE /\ items \in Seq(Line)
  BY <1>1 DEF TypeInv, TxInv, Creating, CreateTx
<1>3. /\ order' = [order EXCEPT ![id] = new]
      /\ CommitRows(p)
  BY <1>2 DEF CommitOrder
<1>4. order'[id] = new /\ \A o \in OrderIds \ {id} : order'[o] = order[o]
  BY <1>2, <1>3 DEF TypeInv, TypeOK
<1>5. new # NONE
  <2>1. \A x \in OrderIds : order'[x] \in Order \cup {NONE}
    BY CommitOrderTypes DEF TypeInv, TypeOK
  <2>2. PICK n \in Order : order' = [order EXCEPT ![id] = n]
    BY <1>2, NewOrder
  <2>3. order'[id] \in Order
    BY <1>2, <2>2 DEF TypeInv, TypeOK
  <2>4. QED
    BY <1>4, <2>3, RowsAssumption
<1>6. Placed' = Placed \cup {id} /\ id \notin Placed
  BY <1>2, <1>4, <1>5 DEF Placed
<1>7. Cancellations(id)' = {}
  <2>1. order'[id].history = <<[to |-> "pending", by |-> "customer"]>>
    BY <1>4
  <2>2. [to |-> "pending", by |-> "customer"] # [to |-> "cancelled", by |-> "customer"]
    OBVIOUS
  <2>3. QED
    BY <2>1, <2>2 DEF Cancellations
<1>8. ASSUME NEW o \in Placed, NEW v
      PROVE  PiecesOf(o, v)' = PiecesOf(o, v) /\ Cancellations(o)' = Cancellations(o)
  <2>1. order'[o] = order[o]
    BY <1>4, <1>6 DEF Placed
  <2>2. QED
    BY <2>1 DEF PiecesOf, Cancellations
<1>9. ASSUME NEW v \in Variants
      PROVE  /\ IsFiniteSet(Ordered(v)) /\ IsFiniteSet(Released(v))
             /\ v \notin raced => inv[v].reserved = Balance(v)
  BY DEF DemandInv
<1>10. ASSUME NEW v \in Variants
       PROVE  /\ IsFiniteSet(Ordered(v)') /\ IsFiniteSet(Released(v)')
              /\ v \notin raced' => inv'[v].reserved = Balance(v)'
  <2> DEFINE T == Pieces(items, Len(items), v)
  <2>1. IsFiniteSet(T) /\ Cardinality(T) = Total(items, v) /\ Total(items, v) \in Nat
    <3>1. Len(items) \in 0..Len(items)
      BY <1>2
    <3>2. QED
      BY <1>2, <3>1, PiecesFinite DEF Total, TotalTo
  <2>2. PiecesOf(id, v)' = T
    BY <1>4 DEF PiecesOf
  <2>3. Ordered(v)' = Ordered(v) \cup ({id} \X T)
    <3>1. Ordered(v)' = UNION {{o} \X PiecesOf(o, v)' : o \in Placed'}
      BY DEF Ordered
    <3>2. {id} \X PiecesOf(id, v)' = {id} \X T
      BY <2>2
    <3>3. QED
      BY <1>6, <1>8, <3>1, <3>2 DEF Ordered
  <2>4. Released(v)' = Released(v)
    <3>1. Released(v)' = UNION {{o} \X (Cancellations(o)' \X PiecesOf(o, v)') : o \in Placed'}
      BY DEF Released
    <3>2. {id} \X (Cancellations(id)' \X PiecesOf(id, v)') = {}
      BY <1>7
    <3>3. QED
      BY <1>6, <1>8, <3>1, <3>2 DEF Released
  <2>5. \A y \in T : <<id, y>> \notin Ordered(v)
    BY <1>6 DEF Ordered
  <2>6. /\ IsFiniteSet(Ordered(v) \cup ({id} \X T))
        /\ Cardinality(Ordered(v) \cup ({id} \X T)) = Cardinality(Ordered(v)) + Cardinality(T)
    BY <1>9, <2>1, <2>5, AddBlock
  <2>7. Balance(v)' = Cardinality(Ordered(v)') - Cardinality(Released(v)')
    BY DEF Balance
  <2>8. Cardinality(Ordered(v)) \in Nat /\ Cardinality(Released(v)) \in Nat
    BY <1>9, FS_CardinalityType
  <2>9. Balance(v)' = Balance(v) + Total(items, v)
    BY <2>1, <2>3, <2>4, <2>6, <2>7, <2>8 DEF Balance
  <2>10. v \notin raced' => v \notin raced /\ inv'[v].reserved = inv[v].reserved + Total(items, v)
    BY <1>3, CommitMoves, CreationDone
  <2>11. QED
    BY <1>9, <2>3, <2>4, <2>6, <2>9, <2>10
<1>11. QED
  BY <1>10 DEF DemandInv

\* A customer's cancellation gives back the pieces of its order, once more;
\* the administrator's changes give back nothing.
LEMMA CommitStatusDemand ==
  ASSUME TypeInv, Account, CustomersCancel, DemandInv, NEW p \in Procs, CommitStatus(p)
  PROVE  DemandInv'
<1>1. Changing(p)
  BY Kinds DEF TypeInv, CommitStatus
<1>2. PICK id \in OrderIds : id = tx[p].id /\ id \in Placed /\ order[id] \in Order
  BY <1>1, OrderPieces DEF TypeInv, TxInv, Changing, StatusTx, Placed
<1> DEFINE entry == [to |-> tx[p].to, by |-> tx[p].by]
           cancelled == [to |-> "cancelled", by |-> "customer"]
           h == Len(order[id].history) + 1
<1>3. CommitRows(p) /\ ItemsStay
  BY CommitsKeepItems
<1>4. Placed' = Placed
  BY CommitStatusTypes DEF Placed
<1>5. \A v : \A o \in Placed : PiecesOf(o, v)' = PiecesOf(o, v)
  BY <1>3 DEF PiecesOf, ItemsStay, Placed
<1>6. /\ order'[id].history = Append(order[id].history, entry)
      /\ \A o \in OrderIds \ {id} : order'[o] = order[o]
  BY <1>2 DEF CommitStatus, TypeInv, TypeOK, Order
<1>7. \A o \in Placed \ {id} : Cancellations(o)' = Cancellations(o)
  BY <1>6 DEF Cancellations, Placed
<1>8. /\ entry.by = "customer" => entry = cancelled
      /\ entry = cancelled => entry.by = "customer"
  BY <1>1 DEF CustomersCancel
<1>9. /\ tx[p].by = "customer" => Cancellations(id)' = Cancellations(id) \cup {h}
      /\ tx[p].by # "customer" => Cancellations(id)' = Cancellations(id)
      /\ h \notin Cancellations(id)
  <2>1. order[id].history \in Seq([to: OrderStatus, by: {"customer", "admin"}])
    BY <1>2 DEF Order
  <2> DEFINE old == order[id].history
  <2>8. entry \in [to: OrderStatus, by: {"customer", "admin"}]
    BY <1>1 DEF Changing, StatusTx
  <2>2. /\ Len(old) \in Nat /\ DOMAIN old = 1..Len(old)
        /\ DOMAIN Append(old, entry) = 1..h
        /\ \A i \in 1..Len(old) : Append(old, entry)[i] = old[i]
        /\ Append(old, entry)[h] = entry
    <3>1. /\ Append(old, entry) \in Seq([to: OrderStatus, by: {"customer", "admin"}])
          /\ Len(Append(old, entry)) = Len(old) + 1
          /\ \A i \in 1..Len(old) : Append(old, entry)[i] = old[i]
          /\ Append(old, entry)[Len(old) + 1] = entry
      <4>1. old \in Seq([to: OrderStatus, by: {"customer", "admin"}])
        BY <2>1
      <4> HIDE DEF old, entry
      <4>2. QED
        BY <2>8, <4>1, AppendProperties
    <3>2. DOMAIN Append(old, entry) = 1..Len(Append(old, entry))
      <4> HIDE DEF old, entry
      <4>1. QED
        BY <3>1, LenProperties
    <3>3. QED
      BY <2>1, <3>1, <3>2
  <2>3. Cancellations(id)' = {i \in 1..h : Append(old, entry)[i] = cancelled}
    BY <1>6, <2>2 DEF Cancellations
  <2>4. Cancellations(id) = {i \in 1..Len(old) : old[i] = cancelled}
    BY <2>2 DEF Cancellations
  <2>5. 1..h = 1..Len(old) \cup {h} /\ h \notin 1..Len(old)
    <3>1. PICK n \in Nat : n = Len(old)
      BY <2>2
    <3>2. 1..(n + 1) = 1..n \cup {n + 1} /\ n + 1 \notin 1..n
      OBVIOUS
    <3>3. QED
      BY <3>1, <3>2
  <2>6. Cancellations(id)' = Cancellations(id) \cup (IF entry = cancelled THEN {h} ELSE {})
    <3> HIDE DEF old, h, entry, cancelled
    <3>1. QED
      BY <2>2, <2>3, <2>4, <2>5
  <2>7. QED
    BY <1>8, <2>4, <2>5, <2>6
<1>10. ASSUME NEW v \in Variants
       PROVE  /\ IsFiniteSet(Ordered(v)) /\ IsFiniteSet(Released(v))
              /\ v \notin raced => inv[v].reserved = Balance(v)
  BY DEF DemandInv
<1>11. ASSUME NEW v \in Variants
       PROVE  /\ IsFiniteSet(Ordered(v)') /\ IsFiniteSet(Released(v)')
              /\ v \notin raced' => inv'[v].reserved = Balance(v)'
  <2> DEFINE P == PiecesOf(id, v)
             B == {h} \X P
  <2>1. IsFiniteSet(P) /\ Cardinality(P) = Total(order[id].items, v) /\ Total(order[id].items, v) \in Nat
    BY <1>2, OrderPieces
  <2>2. Ordered(v)' = Ordered(v)
    BY <1>4, <1>5 DEF Ordered
  <2>3. Released(v)' = UNION {{o} \X (Cancellations(o)' \X PiecesOf(o, v)) : o \in Placed}
    BY <1>4, <1>5 DEF Released
  <2>4. Cardinality(Ordered(v)) \in Nat /\ Cardinality(Released(v)) \in Nat
    BY <1>10, FS_CardinalityType
  <2>5. Balance(v)' = Cardinality(Ordered(v)) - Cardinality(Released(v)')
    BY <2>2 DEF Balance
  <2>6. v \notin raced' =>
          /\ v \notin raced
          /\ inv'[v].reserved = inv[v].reserved + Moved(p, v)
    BY <1>3, CommitMoves
  <2>7. inv[v].reserved \in Nat
    BY DEF TypeInv, TypeOK, InventoryRow
  <2>8. CASE tx[p].by = "customer"
    <3>1. Released(v)' = Released(v) \cup ({id} \X B)
      <4>1. Cancellations(id)' \X P = (Cancellations(id) \X P) \cup B
        BY <1>9, <2>8
      <4>2. {id} \X (Cancellations(id)' \X P) = ({id} \X (Cancellations(id) \X P)) \cup ({id} \X B)
        BY <4>1
      <4>3. QED
        BY <1>2, <1>7, <2>3, <4>2 DEF Released
    <3>2. \A y \in B : <<id, y>> \notin Released(v)
      BY <1>9 DEF Released
    <3>3. IsFiniteSet(B) /\ Cardinality(B) = Total(order[id].items, v)
      <4>1. IsFiniteSet({h}) /\ Cardinality({h}) = 1
        BY FS_Singleton
      <4>2. IsFiniteSet(B) /\ Cardinality(B) = 1 * Cardinality(P)
        BY <2>1, <4>1, FS_Product
      <4>3. QED
        BY <2>1, <4>2
    <3>4. /\ IsFiniteSet(Released(v) \cup ({id} \X B))
          /\ Cardinality(Released(v) \cup ({id} \X B)) = Cardinality(Released(v)) + Cardinality(B)
      BY <1>10, <3>2, <3>3, AddBlock
    <3>5. Balance(v)' = Balance(v) - Total(order[id].items, v)
      BY <2>1, <2>4, <2>5, <3>1, <3>3, <3>4 DEF Balance
    <3>6. Moved(p, v) = 0 - Total(order[id].items, v)
      BY <2>8, <1>2, ChangeDone
    <3>7. QED
      BY <1>10, <2>1, <2>2, <2>6, <2>7, <3>1, <3>4, <3>5, <3>6
  <2>9. CASE tx[p].by # "customer"
    <3>1. Released(v)' = Released(v)
      BY <1>7, <1>9, <2>3, <2>9 DEF Released
    <3>2. Moved(p, v) = 0
      BY <2>9, ChangeDone
    <3>3. QED
      BY <1>10, <2>2, <2>4, <2>5, <2>6, <2>7, <3>1, <3>2 DEF Balance
  <2>10. QED
    BY <2>8, <2>9
<1>12. QED
  BY <1>11 DEF DemandInv

LEMMA CommitStockDemand ==
  ASSUME TypeInv, Account, DemandInv, NEW p \in Procs, CommitStock(p)
  PROVE  DemandInv'
<1>1. CommitRows(p) /\ order' = order
  BY DEF CommitStock
<1>2. ASSUME NEW v \in Variants
      PROVE  /\ Ordered(v)' = Ordered(v) /\ Released(v)' = Released(v)
             /\ Balance(v)' = Balance(v)
  BY <1>1 DEF Ordered, Released, Balance, Placed, PiecesOf, Cancellations
<1>3. ASSUME NEW v \in Variants, v \notin raced'
      PROVE  v \notin raced /\ inv'[v].reserved = inv[v].reserved
  <2>1. v \notin raced /\ inv'[v].reserved = inv[v].reserved + 0
    BY <1>1, <1>3, CommitMoves, StockDone
  <2>2. inv[v].reserved \in Nat
    BY DEF TypeInv, TypeOK, InventoryRow
  <2>3. QED
    BY <2>1, <2>2
<1>4. QED
  BY <1>2, <1>3 DEF DemandInv

LEMMA InitDemand == Init => DemandInv
<1> SUFFICES ASSUME Init PROVE DemandInv
  OBVIOUS
<1>1. Placed = {}
  BY DEF Init, Placed
<1>2. ASSUME NEW v \in Variants
      PROVE  /\ Ordered(v) = {} /\ Released(v) = {} /\ inv[v].reserved = 0
  BY <1>1 DEF Ordered, Released, Init
<1>3. IsFiniteSet({}) /\ Cardinality({}) = 0
  BY FS_EmptySet
<1>4. QED
  BY <1>2, <1>3 DEF DemandInv, Balance

LEMMA NextDemand ==
  ASSUME TypeInv, Account, CustomersCancel, DemandInv, [Next]_vars
  PROVE  DemandInv'
<1>1. ASSUME UNCHANGED <<inv, order, raced>>
      PROVE  DemandInv'
  BY <1>1 DEF DemandInv, Ordered, Released, Balance, Placed, PiecesOf, Cancellations
<1>2. ASSUME NEW p \in Procs, Statement(p)
      PROVE  DemandInv'
  <2>1. CASE CommitOrder(p) \/ CommitStatus(p) \/ CommitStock(p)
    BY <2>1, CommitOrderDemand, CommitStatusDemand, CommitStockDemand
  <2>2. CASE ~(CommitOrder(p) \/ CommitStatus(p) \/ CommitStock(p))
    BY <1>1, <1>2, <2>2
       DEF Statement, ReserveFind, SaveSelect, SaveUpdate, ApplyCoupon, CheckPerUserLimit,
           IncrementUsedCount, SelectOrder, UpdateOrder, ReleaseInventory, Rollback, database
  <2>3. QED
    BY <2>1, <2>2
<1>3. ASSUME NEW p \in Procs, Request(p)
      PROVE  DemandInv'
  BY <1>1, <1>3 DEF Request, CreateOrder, RequestCancellation, UpdateOrderStatus,
                    UpdateVariantStock, database
<1>4. QED
  BY <1>1, <1>2, <1>3 DEF Next, vars, Fail, DeadlockVictim, Rollback

\* Where no order was cancelled twice, every cancelled one gave its pieces once.
LEMMA GivenOnce ==
  ASSUME NEW v, IsFiniteSet(Released(v)),
         \A o \in CancelledTwice : PiecesOf(o, v) = {}
  PROVE  Balance(v) = Demand(v)
<1> DEFINE R == Released(v)
           G == GivenBack(v)
           f == [x \in R |-> <<x[1], x[2][2]>>]
<1>1. ASSUME NEW x \in R
      PROVE  /\ x = <<x[1], <<x[2][1], x[2][2]>>>> /\ x[1] \in Placed
             /\ x[2][1] \in Cancellations(x[1]) /\ x[2][2] \in PiecesOf(x[1], v)
  BY DEF Released
<1>2. f \in [R -> G]
  <2>1. ASSUME NEW x \in R PROVE f[x] \in G
    <3>1. Cancellations(x[1]) # {} /\ f[x] \in {x[1]} \X PiecesOf(x[1], v)
      BY <1>1
    <3>2. QED
      BY <1>1, <3>1 DEF GivenBack
  <2>2. QED
    BY <2>1
<1>3. \A z \in G : \E x \in R : f[x] = z
  <2>1. TAKE z \in G
  <2>2. PICK o \in Placed : Cancellations(o) # {} /\ z \in {o} \X PiecesOf(o, v)
    BY DEF GivenBack
  <2>3. PICK i \in Cancellations(o), y \in PiecesOf(o, v) : z = <<o, y>>
    BY <2>2
  <2>4. <<o, <<i, y>>>> \in R
    BY <2>3 DEF Released
  <2>5. f[<<o, <<i, y>>>>] = z
    BY <2>3, <2>4
  <2>6. QED
    BY <2>4, <2>5
<1>4. \A x, z \in R : f[x] = f[z] => x = z
  <2>1. TAKE x, z \in R
  <2>2. HAVE f[x] = f[z]
  <2>3. x[1] = z[1] /\ x[2][2] = z[2][2]
    BY <2>2
  <2>4. x[2][1] = z[2][1]
    BY <1>1, <2>3 DEF CancelledTwice
  <2>5. QED
    BY <1>1, <2>3, <2>4
<1>5. f \in Surjection(R, G) /\ f \in Injection(R, G)
  <2> HIDE DEF R, G, f
  <2>1. DOMAIN f = R
    BY <1>2
  <2>2. QED
    BY <1>2, <1>3, <1>4, <2>1 DEF Surjection, Injection, IsInjective
<1>6. Cardinality(G) = Cardinality(R)
  <2> HIDE DEF G, f
  <2>1. QED
    BY <1>5, FS_Surjection
<1>7. QED
  BY <1>6 DEF Balance, Demand

(***************************************************************************)
(* What is reserved of a variant is what orders asked for less what        *)
(* cancelled orders gave back, whatever runs at once, as long as no save   *)
(* of its row was raced and no order that has pieces of it was cancelled   *)
(* twice.                                                                  *)
(***************************************************************************)
THEOREM ReservationsExact == Spec => []ReservedExactUnlessRaced
<1> DEFINE IInv == TypeInv /\ Account /\ CustomersCancel /\ DemandInv
<1>1. Init => IInv
  <2>1. Init => CustomersCancel
    BY DEF Init, Idle, CustomersCancel, Changing, StatusTx
  <2>2. QED
    BY <2>1, InitAccount, InitDemand
<1>2. IInv /\ [Next]_vars => IInv'
  BY NextTypes, NextAccount, NextCancels, NextDemand
<1>3. IInv => ReservedExactUnlessRaced
  BY GivenOnce DEF DemandInv, ReservedExactUnlessRaced
<1>4. QED
  BY <1>1, <1>2, <1>3, PTL DEF Spec

-----------------------------------------------------------------------------
(* An order is booked only if its lines can be had.                        *)

(***************************************************************************)
(* PlacedIfAvailable is about the commit; the check was made when the row  *)
(* was read.  A creation's save that no commit has raced knows its row and *)
(* that the row has what the line asks for, and writes reservations only;  *)
(* then the row is the creation's own until it commits.                    *)
(***************************************************************************)
Checked(p) ==
  Creating(p) /\ tx[p].pc \in {"select", "update"} /\ Variant(p) \notin raced =>
    /\ tx[p].base = Read(p, Variant(p))
    /\ ~Insufficient(tx[p].base, Head(tx[p].lines))
    /\ tx[p].pc = "update" => tx[p].cols = {"reserved"}

InStock(p) ==
  \A v \in Variants :
    /\ tx[p] = Idle => owner[v] # p
    /\ Creating(p) /\ owner[v] = p /\ v \notin raced => row[v].reserved <= row[v].quantity

Placing == \A p \in Procs : Checked(p) /\ InStock(p)

\* What a step of p leaves as it was for the others, unless it races them.
Apart(p) ==
  /\ Alone(p)
  /\ raced \subseteq raced'
  /\ \A v \in Variants, q \in Procs \ {p} :
       /\ owner'[v] = q <=> owner[v] = q
       /\ owner[v] = q => row'[v] = row[v]
       /\ \/ inv'[v] = inv[v] \/ v \in raced'
          \/ ~(tx[q].pc \in {"select", "update"} /\ Variant(q) = v)

LEMMA EndApart ==
  ASSUME TypeInv, NEW p \in Procs, Rollback(p) \/ CommitRows(p)
  PROVE  Apart(p)
<1>1. Alone(p) /\ raced \subseteq raced'
  BY DEF Rollback, CommitRows, Alone, TypeInv, TypeOK
<1>2. ASSUME NEW v \in Variants, NEW q \in Procs \ {p}
      PROVE  /\ owner'[v] = q <=> owner[v] = q
             /\ owner[v] = q => row'[v] = row[v]
             /\ \/ inv'[v] = inv[v] \/ v \in raced'
                \/ ~(tx[q].pc \in {"select", "update"} /\ Variant(q) = v)
  <2>1. owner'[v] = IF owner[v] = p THEN NONE ELSE owner[v]
    BY DEF Rollback, CommitRows, Rows
  <2>2. owner[v] = q => row'[v] = row[v]
    BY DEF Rollback, CommitRows
  <2>3. \/ inv'[v] = inv[v] \/ v \in raced'
        \/ ~(tx[q].pc \in {"select", "update"} /\ Variant(q) = v)
    <3>1. CASE Rollback(p)
      BY <3>1 DEF Rollback
    <3>2. CASE CommitRows(p)
      <4>1. inv'[v] = IF owner[v] = p THEN row[v] ELSE inv[v]
        BY <3>2 DEF CommitRows
      <4>2. owner[v] = p /\ Saving(p, v) => v \in raced'
        BY <3>2 DEF CommitRows
      <4>3. tx[q].pc \in {"select", "update"} /\ Variant(q) = v => Saving(p, v)
        BY DEF Saving, Variant
      <4>4. QED
        BY <4>1, <4>2, <4>3
    <3>3. QED
      BY <3>1, <3>2
  <2>4. QED
    BY <2>1, <2>2, <2>3, RowsAssumption
<1>3. QED
  BY <1>1, <1>2 DEF Apart

LEMMA QuietApart ==
  ASSUME TypeInv, NEW p \in Procs, NEW t, tx' = [tx EXCEPT ![p] = t],
         UNCHANGED <<inv, row, raced>>, \A v \in Variants : owner'[v] = owner[v]
  PROVE  Apart(p)
BY DEF Apart, Alone, TypeInv, TypeOK

LEMMA WriteApart ==
  ASSUME TypeInv, NEW p \in Procs, NEW t, tx' = [tx EXCEPT ![p] = t],
         NEW v \in Variants, CanLock(p, v), owner' = [owner EXCEPT ![v] = p],
         \A w \in Variants \ {v} : row'[w] = row[w], UNCHANGED <<inv, raced>>
  PROVE  Apart(p)
<1>1. Alone(p)
  BY DEF Alone, TypeInv, TypeOK
<1>2. \A w \in Variants : owner'[w] = IF w = v THEN p ELSE owner[w]
  BY DEF TypeInv, TypeOK, Rows
<1>3. QED
  BY <1>1, <1>2, RowsAssumption DEF Apart, CanLock

LEMMA OthersPlacing ==
  ASSUME TypeInv, Placing, NEW p \in Procs, Apart(p), NEW q \in Procs \ {p}
  PROVE  Checked(q)' /\ InStock(q)'
<1>1. /\ tx'[q] = tx[q] /\ (Creating(q)' <=> Creating(q)) /\ Variant(q)' = Variant(q)
      /\ raced \subseteq raced'
  BY DEF Apart, Alone, Creating, Variant
<1>2. ASSUME tx[q].pc \in {"select", "update"}, Variant(q) \notin raced'
      PROVE  Read(q, Variant(q))' = Read(q, Variant(q))
  <2>1. PICK v \in Variants : v = Variant(q)
    BY <1>2, EntityType
  <2>2. /\ owner'[v] = q <=> owner[v] = q
        /\ owner[v] = q => row'[v] = row[v]
        /\ inv'[v] = inv[v]
    BY <1>2, <2>1 DEF Apart
  <2>3. QED
    BY <1>1, <2>1, <2>2 DEF Read
<1>3. Checked(q)'
  BY <1>1, <1>2 DEF Placing, Checked, Insufficient
<1>4. InStock(q)'
  <2>1. ASSUME NEW v \in Variants
        PROVE  /\ owner'[v] = q <=> owner[v] = q
               /\ owner[v] = q => row'[v] = row[v]
    BY DEF Apart
  <2>2. InStock(q)
    BY DEF Placing
  <2>3. QED
    BY <1>1, <2>1, <2>2 DEF InStock
<1>5. QED
  BY <1>3, <1>4

\* So it is p's own part that has to be seen to.
LEMMA OwnPlacing ==
  ASSUME TypeInv, Placing, NEW p \in Procs, Apart(p), Checked(p)', InStock(p)'
  PROVE  Placing'
BY OthersPlacing DEF Placing

LEMMA EndPlacing ==
  ASSUME TypeInv, Placing, NEW p \in Procs, Rollback(p) \/ CommitRows(p)
  PROVE  Placing'
<1>1. tx'[p] = Idle /\ Idle \notin CreateTx
  BY DEF Rollback, CommitRows, CreateTx, Idle, TypeInv, TypeOK
<1>2. \A v \in Variants : owner'[v] # p
  BY RowsAssumption DEF Rollback, CommitRows, Rows
<1>3. Checked(p)' /\ InStock(p)'
  BY <1>1, <1>2 DEF Checked, InStock, Creating
<1>4. QED
  BY <1>3, EndApart, OwnPlacing

\* A request that creates no order has only to lock no row when it ends.
LEMMA OtherKindPlacing ==
  ASSUME TypeInv, Placing, NEW p \in Procs, Apart(p), NEW t, tx' = [tx EXCEPT ![p] = t],
         t \notin CreateTx, t # Idle
  PROVE  Placing'
<1>1. tx'[p] = t
  BY DEF TypeInv, TypeOK
<1>2. Checked(p)' /\ InStock(p)'
  BY <1>1 DEF Checked, InStock, Creating
<1>3. QED
  BY <1>2, OwnPlacing

\* A creation's step that writes no inventory row and reads none.
LEMMA CreatingPlacing ==
  ASSUME TypeInv, Placing, NEW p \in Procs, NEW t, tx' = [tx EXCEPT ![p] = t],
         UNCHANGED <<inv, row, raced>>, \A v \in Variants : owner'[v] = owner[v],
         Creating(p) \/ tx[p] = Idle, t # Idle, t.pc \notin {"select", "update"}
  PROVE  Placing'
<1>1. tx'[p] = t
  BY DEF TypeInv, TypeOK
<1>2. Checked(p)'
  BY <1>1 DEF Checked
<1>3. InStock(p)'
  BY <1>1 DEF Placing, InStock
<1>4. QED
  BY <1>2, <1>3, QuietApart, OwnPlacing

LEMMA RequestPlacing ==
  ASSUME TypeInv, Placing, NEW p \in Procs, Request(p)
  PROVE  Placing'
<1>1. tx[p] = Idle /\ UNCHANGED <<inv, row, raced, owner>>
  <2>1. tx[p].pc = "idle" /\ UNCHANGED <<inv, row, raced, owner>>
    BY DEF Request, CreateOrder, RequestCancellation, UpdateOrderStatus, UpdateVariantStock,
           database
  <2>2. QED
    BY <2>1, Kinds DEF TypeInv
<1>2. ASSUME NEW u \in Users, NEW items \in Baskets \cup {<<>>}, NEW coupon \in BOOLEAN,
             CreateOrder(p, u, items, coupon)
      PROVE  Placing'
  <2> DEFINE lines == IF items = <<>> THEN cart[u] ELSE items
  <2>1. PICK o \in OrderIds :
          tx' = [tx EXCEPT ![p] =
                      [pc |-> "next", op |-> "create", id |-> o, user |-> u,
                       items |-> lines, lines |-> lines,
                       fromCart |-> items = <<>>, coupon |-> coupon,
                       base |-> NONE, cols |-> {}, used |-> 0]]
    BY <1>2 DEF CreateOrder
  <2> DEFINE t == [pc |-> "next", op |-> "create", id |-> o, user |-> u,
                   items |-> lines, lines |-> lines,
                   fromCart |-> items = <<>>, coupon |-> coupon,
                   base |-> NONE, cols |-> {}, used |-> 0]
  <2>2. t # Idle /\ t.pc = "next"
    BY DEF Idle
  <2>3. QED
    BY <1>1, <2>1, <2>2, CreatingPlacing
<1>3. ASSUME NEW t, tx' = [tx EXCEPT ![p] = t], t.op \in {"status", "stock"}, t.pc # "idle"
      PROVE  Placing'
  <2>1. t \notin CreateTx /\ t # Idle
    BY <1>3 DEF CreateTx, Idle
  <2>2. Apart(p)
    BY <1>1, <1>3, QuietApart
  <2>3. QED
    BY <1>3, <2>1, <2>2, OtherKindPlacing
<1>4. ASSUME NEW o, NEW to, NEW by, tx' = [tx EXCEPT ![p] = StatusChange(o, to, by)]
      PROVE  Placing'
  <2>1. StatusChange(o, to, by).op = "status" /\ StatusChange(o, to, by).pc = "selectOrder"
    BY DEF StatusChange
  <2>2. QED
    BY <1>3, <1>4, <2>1
<1>5. ASSUME NEW v \in Variants, NEW level \in StockLevels, UpdateVariantStock(p, v, level)
      PROVE  Placing'
  <2> DEFINE t == [pc |-> "select", op |-> "stock", id |-> NONE, level |-> level,
                   lines |-> <<[variant |-> v, quantity |-> 1]>>,
                   base |-> inv[v], cols |-> {}]
  <2>1. tx' = [tx EXCEPT ![p] = t] /\ t.op = "stock" /\ t.pc = "select"
    BY <1>5 DEF UpdateVariantStock
  <2>2. QED
    BY <1>3, <2>1
<1>6. QED
  BY <1>2, <1>4, <1>5 DEF Request, RequestCancellation, UpdateOrderStatus

LEMMA ReserveFindPlacing ==
  ASSUME TypeInv, Placing, NEW p \in Procs, ReserveFind(p)
  PROVE  Placing'
<1> DEFINE read == Read(p, Variant(p))
           t == [tx[p] EXCEPT !.pc = "select", !.base = read]
<1>1. CASE Rollback(p)
  BY <1>1, EndPlacing
<1>2. CASE ~Insufficient(read, Head(tx[p].lines))
  <2>1. Creating(p)
    BY Kinds DEF TypeInv, ReserveFind
  <2>2. tx' = [tx EXCEPT ![p] = t] /\ UNCHANGED <<inv, row, raced, owner>>
    BY <1>2 DEF ReserveFind, database
  <2>3. tx'[p] = t /\ t.pc = "select" /\ t.base = read /\ t.lines = tx[p].lines /\ t # Idle
    <3>1. tx'[p] = t /\ t.pc = "select" /\ t.base = read /\ t.lines = tx[p].lines
      BY <2>1, <2>2 DEF Creating, CreateTx, TypeInv, TypeOK
    <3>2. Idle.pc = "idle"
      BY DEF Idle
    <3>3. QED
      BY <3>1, <3>2
  <2>4. Variant(p)' = Variant(p)
    BY <2>3 DEF Variant
  <2>5. Read(p, Variant(p))' = read
    BY <2>2, <2>4 DEF Read
  <2>6. Checked(p)'
    BY <1>2, <2>3, <2>5 DEF Checked, Insufficient
  <2>7. InStock(p)'
    BY <2>1, <2>2, <2>3 DEF Placing, InStock
  <2>8. QED
    BY <2>2, <2>6, <2>7, QuietApart, OwnPlacing
<1>3. QED
  BY <1>1, <1>2 DEF ReserveFind

LEMMA SaveSelectPlacing ==
  ASSUME TypeInv, Placing, NEW p \in Procs, SaveSelect(p)
  PROVE  Placing'
<1> DEFINE v == Variant(p)
           cols == {c \in {"quantity", "reserved"} : Entity(p)[c] # Read(p, v)[c]}
           t == [tx[p] EXCEPT !.pc = "update", !.cols = cols]
<1>1. tx' = [tx EXCEPT ![p] = t] /\ UNCHANGED <<inv, row, raced, owner>>
  BY DEF SaveSelect, database
<1>2. Apart(p)
  BY <1>1, QuietApart
<1>3. (Creating(p) \/ Stocking(p)) /\ tx[p].pc = "select"
  BY Kinds DEF TypeInv, SaveSelect
<1>4. /\ tx'[p] = t /\ t.pc = "update" /\ t.cols = cols /\ t.base = tx[p].base
      /\ t.lines = tx[p].lines /\ t # Idle
  <2>1. /\ tx'[p] = t /\ t.pc = "update" /\ t.cols = cols /\ t.base = tx[p].base
        /\ t.lines = tx[p].lines
    BY <1>1, <1>3 DEF Creating, Stocking, CreateTx, StockTx, TypeInv, TypeOK
  <2>2. Idle.pc = "idle"
    BY DEF Idle
  <2>3. QED
    BY <2>1, <2>2
<1>5. CASE Creating(p)
  <2>1. Variant(p)' = v /\ Read(p, v)' = Read(p, v)
    <3>1. Variant(p)' = v
      BY <1>4 DEF Variant
    <3>2. QED
      BY <1>1, <3>1 DEF Read
  <2>2. ASSUME v \notin raced
        PROVE  /\ tx[p].base = Read(p, v) /\ ~Insufficient(tx[p].base, Head(tx[p].lines))
               /\ cols = {"reserved"}
    <3>1. tx[p].base = Read(p, v) /\ ~Insufficient(tx[p].base, Head(tx[p].lines))
      BY <1>3, <1>5, <2>2 DEF Placing, Checked
    <3>2. tx[p].op = "create" /\ tx[p].lines \in Seq(Line) /\ tx[p].lines # <<>>
          /\ tx[p].base \in InventoryRow
      BY <1>3, <1>5 DEF Creating, CreateTx, TypeInv, TxInv
    <3>3. Head(tx[p].lines).quantity \in Nat \ {0}
      BY <3>2, HeadAndTail DEF Line
    <3>4. /\ Entity(p).reserved = tx[p].base.reserved + Head(tx[p].lines).quantity
          /\ Entity(p).quantity = tx[p].base.quantity
          /\ tx[p].base.reserved \in Nat
      BY <3>2 DEF Entity, InventoryRow
    <3>5. Entity(p).reserved # Read(p, v).reserved /\ Entity(p).quantity = Read(p, v).quantity
      BY <3>1, <3>3, <3>4
    <3>6. QED
      BY <3>1, <3>5
  <2>3. Checked(p)'
    <3>1. Read(p, Variant(p))' = Read(p, v)
      BY <1>1, <2>1 DEF Read
    <3>2. QED
      BY <1>1, <1>4, <2>1, <2>2, <3>1 DEF Checked, Insufficient
  <2>4. InStock(p)'
    BY <1>1, <1>4, <1>5 DEF Placing, InStock
  <2>5. QED
    BY <1>2, <2>3, <2>4, OwnPlacing
<1>6. CASE ~Creating(p)
  <2>1. Stocking(p)
    BY <1>3, <1>6
  <2>2. t.op = "stock"
    BY <2>1 DEF Stocking, StockTx
  <2>3. t \notin CreateTx
    BY <2>2 DEF CreateTx
  <2>4. QED
    BY <1>1, <1>2, <1>4, <2>3, OtherKindPlacing
<1>7. QED
  BY <1>5, <1>6

LEMMA SaveUpdatePlacing ==
  ASSUME TypeInv, Account, Placing, NEW p \in Procs, SaveUpdate(p)
  PROVE  Placing'
<1> DEFINE v == Variant(p)
           t == [tx[p] EXCEPT !.pc = "next", !.lines = Tail(@)]
<1>1. tx' = [tx EXCEPT ![p] = t] /\ CanLock(p, v) /\ owner' = [owner EXCEPT ![v] = p]
      /\ UNCHANGED <<inv, raced>>
  BY DEF SaveUpdate
<1>2. /\ Creating(p) \/ Stocking(p)
      /\ tx[p].pc = "update" /\ v \in Variants /\ Entity(p) \in InventoryRow
  BY Kinds, EntityType DEF TypeInv, SaveUpdate
<1>3. /\ row'[v] = [c \in {"quantity", "reserved"} |->
                      IF c \in tx[p].cols THEN Entity(p)[c] ELSE row[v][c]]
      /\ \A w \in Variants \ {v} : row'[w] = row[w]
  BY <1>2 DEF SaveUpdate, TypeInv, TypeOK
<1>4. Apart(p)
  BY <1>1, <1>2, <1>3, WriteApart
<1>5. tx'[p] = t /\ t.pc = "next" /\ t # Idle
  <2>1. tx'[p] = t /\ t.pc = "next"
    BY <1>1, <1>2 DEF Creating, Stocking, CreateTx, StockTx, TypeInv, TypeOK
  <2>2. Idle.pc = "idle"
    BY DEF Idle
  <2>3. QED
    BY <2>1, <2>2
<1>6. CASE Creating(p)
  <2>1. ASSUME v \notin raced PROVE row'[v].reserved <= row'[v].quantity
    <3>1. /\ tx[p].base = Read(p, v) /\ ~Insufficient(tx[p].base, Head(tx[p].lines))
          /\ tx[p].cols = {"reserved"}
      BY <1>2, <1>6, <2>1 DEF Placing, Checked
    <3>2. tx[p].op = "create" /\ tx[p].lines \in Seq(Line) /\ tx[p].lines # <<>>
          /\ tx[p].base \in InventoryRow
      BY <1>2, <1>6 DEF Creating, CreateTx, TypeInv, TxInv
    <3>3. Head(tx[p].lines).quantity \in Nat
      BY <3>2, HeadAndTail DEF Line
    <3>4. Entity(p).reserved = tx[p].base.reserved + Head(tx[p].lines).quantity
      BY <3>2 DEF Entity, InventoryRow
    <3>5. row[v] = tx[p].base
      <4>1. owner[v] = NONE => row[v] = inv[v]
        BY <1>2 DEF Account, RowsInv
      <4>2. QED
        BY <1>1, <3>1, <4>1 DEF Read, CanLock
    <3>6. row'[v].reserved = Entity(p).reserved /\ row'[v].quantity = row[v].quantity
      BY <1>3, <3>1
    <3>7. tx[p].base.reserved \in Nat /\ tx[p].base.quantity \in Nat
      BY <3>2 DEF InventoryRow
    <3>8. QED
      BY <3>1, <3>3, <3>4, <3>5, <3>6, <3>7 DEF Insufficient
  <2>2. InStock(p)'
    <3>1. ASSUME NEW w \in Variants \ {v} PROVE owner'[w] = owner[w]
      BY <1>1
    <3>2. InStock(p)
      BY DEF Placing
    <3>3. QED
      BY <1>1, <1>3, <1>5, <1>6, <2>1, <3>1, <3>2 DEF InStock
  <2>3. Checked(p)'
    BY <1>5 DEF Checked
  <2>4. QED
    BY <1>4, <2>2, <2>3, OwnPlacing
<1>7. CASE ~Creating(p)
  <2>1. t.op = "stock"
    BY <1>2, <1>7 DEF Stocking, StockTx
  <2>2. t \notin CreateTx
    BY <2>1 DEF CreateTx
  <2>3. QED
    BY <1>1, <1>4, <1>5, <2>2, OtherKindPlacing
<1>8. QED
  BY <1>6, <1>7

LEMMA LabelPlacing ==
  ASSUME TypeInv, Placing, NEW p \in Procs,
         ApplyCoupon(p) \/ CheckPerUserLimit(p) \/ IncrementUsedCount(p)
  PROVE  Placing'
<1>1. Creating(p)
  BY Kinds DEF TypeInv, ApplyCoupon, CheckPerUserLimit, IncrementUsedCount
<1>2. CASE Rollback(p)
  BY <1>2, EndPlacing
<1>3. CASE IncrementUsedCount(p)
  <2> DEFINE t == [tx[p] EXCEPT !.pc = "commit", !.used = usedCount + 1]
  <2>1. tx' = [tx EXCEPT ![p] = t] /\ UNCHANGED <<inv, row, raced>>
        /\ \A v \in Variants : owner'[v] = owner[v]
    BY <1>3, RowsAssumption DEF IncrementUsedCount, TypeInv, TypeOK, Rows
  <2>2. t.pc = "commit" /\ t # Idle
    BY <1>1 DEF Creating, CreateTx, Idle
  <2>3. QED
    BY <1>1, <2>1, <2>2, CreatingPlacing
<1>4. CASE ~Rollback(p) /\ ~IncrementUsedCount(p)
  <2>1. PICK l \in {"userLimit", "increment"} :
          tx' = [tx EXCEPT ![p].pc = l] /\ UNCHANGED <<inv, row, raced, owner>>
    BY <1>4 DEF ApplyCoupon, CheckPerUserLimit, Goto, database
  <2> DEFINE t == [tx[p] EXCEPT !.pc = l]
  <2>2. tx' = [tx EXCEPT ![p] = t] /\ t.pc = l /\ t # Idle
    BY <1>1, <2>1 DEF Creating, CreateTx, Idle
  <2>3. QED
    BY <1>1, <2>1, <2>2, CreatingPlacing
<1>5. QED
  BY <1>2, <1>3, <1>4

LEMMA ChangePlacing ==
  ASSUME TypeInv, Placing, NEW p \in Procs,
         SelectOrder(p) \/ UpdateOrder(p) \/ ReleaseInventory(p)
  PROVE  Placing'
<1>1. Changing(p)
  BY Kinds DEF TypeInv, SelectOrder, UpdateOrder, ReleaseInventory
<1>2. CASE Rollback(p)
  BY <1>2, EndPlacing
<1>3. ASSUME NEW t, tx' = [tx EXCEPT ![p] = t], Apart(p), t.op = "status", t.pc # "idle"
      PROVE  Placing'
  <2>1. t \notin CreateTx /\ t # Idle
    BY <1>3 DEF CreateTx, Idle
  <2>2. QED
    BY <1>3, <2>1, OtherKindPlacing
<1>4. CASE SelectOrder(p) /\ ~Rollback(p)
  <2> DEFINE t == [tx[p] EXCEPT !.pc = "updateOrder"]
  <2>1. tx' = [tx EXCEPT ![p] = t] /\ UNCHANGED <<inv, row, raced, owner>>
    BY <1>4 DEF SelectOrder, Goto, database
  <2>2. t.op = "status" /\ t.pc = "updateOrder"
    BY <1>1 DEF Changing, StatusTx
  <2>3. QED
    BY <1>3, <2>1, <2>2, QuietApart
<1>5. CASE UpdateOrder(p)
  <2> DEFINE t == [tx[p] EXCEPT !.pc = "release",
                     !.lines = IF tx[p].by = "customer" THEN order[tx[p].id].items ELSE <<>>]
  <2>1. tx' = [tx EXCEPT ![p] = t] /\ UNCHANGED <<inv, row, raced>>
    BY <1>5 DEF UpdateOrder
  <2>2. \A v \in Variants : owner'[v] = owner[v]
    <3>1. tx[p].id \in OrderIds
      BY <1>1 DEF Changing, StatusTx
    <3>2. QED
      BY <1>5, <3>1, RowsAssumption DEF UpdateOrder, TypeInv, TypeOK, Rows
  <2>3. t.op = "status" /\ t.pc = "release"
    BY <1>1 DEF Changing, StatusTx
  <2>4. QED
    BY <1>3, <2>1, <2>2, <2>3, QuietApart
<1>6. CASE ReleaseInventory(p) /\ ~Rollback(p)
  <2> DEFINE v == Variant(p)
             t == [tx[p] EXCEPT !.lines = Tail(@)]
  <2>1. tx' = [tx EXCEPT ![p] = t] /\ CanLock(p, v) /\ owner' = [owner EXCEPT ![v] = p]
        /\ row' = [row EXCEPT ![v].reserved = @ - Head(tx[p].lines).quantity]
        /\ UNCHANGED <<inv, raced>>
    BY <1>6 DEF ReleaseInventory
  <2>2. v \in Variants
    <3>1. tx[p].lines \in Seq(Line) /\ tx[p].lines # <<>>
      BY <1>1, <1>6 DEF Changing, StatusTx, ReleaseInventory
    <3>2. QED
      BY <3>1, HeadAndTail DEF Variant, Line
  <2>3. \A w \in Variants \ {v} : row'[w] = row[w]
    BY <2>1 DEF TypeInv, TypeOK
  <2>4. t.op = "status" /\ t.pc = "release"
    BY <1>1, <1>6 DEF Changing, StatusTx, ReleaseInventory
  <2>5. QED
    BY <1>3, <2>1, <2>2, <2>3, <2>4, WriteApart
<1>7. QED
  BY <1>2, <1>4, <1>5, <1>6

LEMMA InitPlacing == Init => Placing
<1> SUFFICES ASSUME Init PROVE Placing
  OBVIOUS
<1>1. \A p \in Procs : tx[p] = Idle
  BY DEF Init
<1>2. Idle \notin CreateTx
  BY DEF CreateTx, Idle
<1>3. \A v \in Variants : owner[v] = NONE
  BY DEF Init, Rows
<1>4. QED
  BY <1>1, <1>2, <1>3, RowsAssumption DEF Placing, Checked, InStock, Creating

LEMMA NextPlacing ==
  ASSUME TypeInv, Account, Placing, [Next]_vars
  PROVE  Placing'
<1>1. CASE UNCHANGED vars
  BY <1>1 DEF vars, Placing, Checked, InStock, Creating, Variant, Read, Insufficient
<1>2. ASSUME NEW p \in Procs, Statement(p)
      PROVE  Placing'
  BY <1>2, ReserveFindPlacing, SaveSelectPlacing, SaveUpdatePlacing, LabelPlacing,
     ChangePlacing, EndPlacing DEF Statement, CommitOrder, CommitStatus, CommitStock
<1>3. ASSUME NEW p \in Procs, Fail(p) \/ DeadlockVictim(p)
      PROVE  Placing'
  BY <1>3, EndPlacing DEF Fail, DeadlockVictim
<1>4. QED
  BY <1>1, <1>2, <1>3, RequestPlacing DEF Next


\* A creation that commits pieces of a variant holds the variant's row.
LEMMA CommitOrderAvailable ==
  ASSUME TypeInv, Account, Placing, NEW p \in Procs, CommitOrder(p),
         NEW v \in Variants \ raced', Pieces(tx[p].items, Len(tx[p].items), v) # {}
  PROVE  inv'[v].reserved <= inv'[v].quantity
<1> DEFINE items == tx[p].items
<1>1. Creating(p) /\ items \in Seq(Line)
  BY Kinds DEF TypeInv, CommitOrder, Creating, CreateTx
<1>2. Total(items, v) # 0
  <2>1. Len(items) \in 0..Len(items)
    BY <1>1
  <2>2. IsFiniteSet(Pieces(items, Len(items), v))
    BY <1>1, <2>1, PiecesFinite
  <2>3. QED
    BY <2>2, FS_EmptySet DEF Total, TotalTo
<1>3. owner[v] = p
  <2>1. Moved(p, v) # 0
    BY <1>2, CreationDone
  <2>2. QED
    BY <2>1 DEF Account, RowsInv
<1>4. inv'[v] = row[v] /\ v \notin raced
  BY <1>3 DEF CommitOrder, CommitRows
<1>5. QED
  BY <1>1, <1>3, <1>4 DEF Placing, InStock

\* An order appears by its creation's commit only.
LEMMA OrdersAppear ==
  ASSUME TypeInv, [Next]_vars, NEW o \in OrderIds, order[o] = NONE, order'[o] # NONE
  PROVE  \E p \in Procs : CommitOrder(p) /\ order'[o].items = tx[p].items
<1>1. order' # order
  OBVIOUS
<1>2. PICK p \in Procs : Statement(p)
  <2>1. ASSUME NEW p \in Procs, Request(p) \/ Fail(p) \/ DeadlockVictim(p)
        PROVE  order' = order
    BY <2>1 DEF Request, CreateOrder, RequestCancellation, UpdateOrderStatus,
                UpdateVariantStock, database, Fail, DeadlockVictim, Rollback
  <2>2. QED
    BY <1>1, <2>1 DEF Next, vars
<1>3. CommitOrder(p)
  <2>1. ~CommitStatus(p)
    BY CommitStatusTypes
  <2>2. ~CommitStock(p)
    BY <1>1 DEF CommitStock
  <2>3. QED
    BY <1>1, <1>2, <2>1, <2>2
       DEF Statement, ReserveFind, SaveSelect, SaveUpdate, ApplyCoupon, CheckPerUserLimit,
           IncrementUsedCount, SelectOrder, UpdateOrder, ReleaseInventory, Rollback, database
<1>4. PICK id \in OrderIds : id = tx[p].id
  BY <1>3, Kinds DEF TypeInv, CommitOrder, Creating, CreateTx
<1>5. order' = [order EXCEPT ![id] = [user |-> tx[p].user, items |-> tx[p].items,
                                      status |-> "pending",
                                      history |-> <<[to |-> "pending", by |-> "customer"]>>]]
  BY <1>3, <1>4 DEF CommitOrder
<1>6. order'[o].items = tx[p].items
  BY <1>5 DEF TypeInv, TypeOK
<1>7. QED
  BY <1>3, <1>6

(***************************************************************************)
(* When an order is booked, all its lines can be had from the stock of     *)
(* that moment, whatever requests overlapped its creation, unless a save   *)
(* of the variant's row was raced.                                         *)
(***************************************************************************)
THEOREM OrdersCanBeServed == Spec => PlacedIfAvailable
<1> DEFINE IInv == TypeInv /\ Account /\ Placing
<1>1. Init => IInv
  BY InitAccount, InitPlacing
<1>2. IInv /\ [Next]_vars => IInv'
  BY NextTypes, NextAccount, NextPlacing
<1>3. IInv /\ [Next]_vars =>
        [\A o \in OrderIds, v \in Variants \ raced' :
           order[o] = NONE /\ order'[o] # NONE /\ PiecesOf(o, v)' # {} =>
             inv'[v].reserved <= inv'[v].quantity]_vars
  <2> SUFFICES ASSUME IInv, [Next]_vars, NEW o \in OrderIds, NEW v \in Variants \ raced',
                      order[o] = NONE, order'[o] # NONE, PiecesOf(o, v)' # {}
               PROVE  inv'[v].reserved <= inv'[v].quantity
    OBVIOUS
  <2>1. PICK p \in Procs : CommitOrder(p) /\ order'[o].items = tx[p].items
    BY OrdersAppear
  <2>2. Pieces(tx[p].items, Len(tx[p].items), v) # {}
    BY <2>1 DEF PiecesOf
  <2>3. QED
    BY <2>1, <2>2, CommitOrderAvailable
<1>4. QED
  BY <1>1, <1>2, <1>3, PTL DEF Spec, PlacedIfAvailable
=============================================================================
