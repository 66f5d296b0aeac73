--------------------------- MODULE AddressesProofs ---------------------------
(***************************************************************************)
(* Theorems about Addresses, for every set of requests and every number of *)
(* addresses.                                                              *)
(***************************************************************************)
EXTENDS Addresses, TLAPS, SequenceTheorems, FiniteSetTheorems, WellFoundedInduction

-----------------------------------------------------------------------------
(* The inductive invariant, part by part.                                  *)

\* What a request has in hand, whoever wrote meanwhile.
HandInv(r) ==
  LET q == req[r] IN
  q # Idle =>
    /\ q.id <= Len(rows)
    /\ q.pc \in {"select", "update", "reinsert", "delete", "promote"} => q.id # 0
    /\ q.op = "create" => q.id = 0
    /\ q.pc = "clear" => /\ q.default /\ q.op \in {"create", "update", "set_default"}
                         /\ q.op = "create" \/ q.id # 0
    /\ q.pc = "insert" => q.op \in {"create", "register"} /\ q.id = 0
    /\ q.pc = "delete" => q.op = "remove" /\ ~q.wrote
    /\ q.pc = "promote" => q.op = "remove" /\ q.default
    /\ q.wrote => q.default /\ q.pc # "clear"
    /\ q.op \in {"set_default", "remove"} => q.wrote \/ q.pc \in {"clear", "delete"}

TypeInv == TypeOK /\ \A r \in Reqs : HandInv(r)

\* A row that was removed is in no request's hands, but for those that held
\* it then.
RemovedHeld ==
  /\ RemovedStaysRemoved
  /\ \A r \in Reqs :
       /\ req[r] # Idle /\ req[r].id # 0 /\ req[r].pc # "promote"
       /\ rows[req[r].id].removed
       => req[r].id \in held

\* What a request that nobody has disturbed knows of the table.
Knows(r) ==
  LET q == req[r] IN
  /\ q.pc # "reinsert"
  /\ q.id # 0 /\ q.pc # "promote" => rows[q.id].there
  /\ q.pc = "insert" => IF q.default THEN Defaults = {} ELSE Saved # {}
  /\ q.pc = "promote" => Cardinality(Defaults) <= races
  /\ q.pc \in {"select", "update"} =>
       IF q.wrote THEN IF q.op = "remove" THEN Cardinality(Defaults) <= races ELSE Defaults = {}
       ELSE q.default = rows[q.id].default \/ (unset /\ ~q.default)
  /\ q.pc = "delete" => q.default = rows[q.id].default
  /\ q.pc = "update" => q.found = rows[q.id].default

Calm == \A r \in Reqs : req[r] # Idle /\ ~req[r].disturbed => Knows(r)

\* Where there is no default, one that has cleared or removed it is to set
\* the next.
DefaultComing ==
  Saved # {} /\ Defaults = {} =>
    races > 0 \/ halfDone \/ unset \/ \E r \in Reqs : req[r] # Idle /\ req[r].wrote

-----------------------------------------------------------------------------
(* Types, and what the steps do to the requests.                           *)

LEMMA RowTypes ==
  ASSUME TypeOK
  PROVE  /\ Len(rows) \in Nat /\ Len(rows) <= MaxAddresses /\ DOMAIN rows = 1..Len(rows)
         /\ \A i \in 1..Len(rows) :
              /\ rows[i] \in Row
              /\ rows[i].there \in BOOLEAN /\ rows[i].default \in BOOLEAN
              /\ rows[i].removed \in BOOLEAN
              /\ rows[i].default => rows[i].there
<1>1. Len(rows) \in Nat /\ Len(rows) <= MaxAddresses /\ DOMAIN rows = 1..Len(rows)
  BY LenProperties DEF TypeOK
<1>2. \A i \in 1..Len(rows) : rows[i] \in Row
  BY ElementOfSeq DEF TypeOK
<1>3. QED
  BY <1>1, <1>2 DEF Row

LEMMA ReqTypes ==
  ASSUME TypeOK, NEW p \in Reqs
  PROVE  /\ req[p] # Idle => req[p] \in Request /\ req[p].pc \in Steps
         /\ req[p].pc \in Steps => req[p] # Idle
         /\ req[p] # Idle => /\ req[p].id \in 0..MaxAddresses /\ req[p].id \in Nat
                             /\ req[p].id <= Len(rows)
                             /\ req[p].default \in BOOLEAN /\ req[p].found \in BOOLEAN
                             /\ req[p].wrote \in BOOLEAN /\ req[p].disturbed \in BOOLEAN
                             /\ req[p].op \in {"create", "update", "set_default", "remove", "register"}
  BY AddressesAssumption DEF TypeOK, Request, Idle, Steps

\* The entity in memory of p's request is as it was.
SameEntity(p) ==
  /\ req'[p].op = req[p].op /\ req'[p].id = req[p].id
  /\ req'[p].default = req[p].default

\* p's request is where it was, but somebody has written.
Disturbs(p) ==
  /\ req[p] = Idle <=> req'[p] = Idle
  /\ req[p] # Idle =>
       /\ SameEntity(p) /\ req'[p].pc = req[p].pc /\ req'[p].wrote = req[p].wrote
       /\ req'[p].found = req[p].found
       /\ req'[p].disturbed = TRUE

Others(r) == \A p \in Reqs \ {r} : req'[p] = req[p]

LEMMA WriteIs ==
  ASSUME TypeOK, NEW r \in Reqs, NEW pc \in Steps \cup {"idle"}, req[r] # Idle, Write(r, pc)
  PROVE  /\ req' \in [Reqs -> Request \cup {Idle}]
         /\ pc = "idle" => req'[r] = Idle
         /\ pc # "idle" =>
              /\ req'[r] # Idle
              /\ SameEntity(r) /\ req'[r].pc = pc /\ req'[r].wrote = TRUE
              /\ req'[r].disturbed = req[r].disturbed
         /\ \A p \in Reqs \ {r} : Disturbs(p)
         /\ races' \in 0..MaxAddresses /\ races <= races'
         /\ req[r].disturbed => races' > races \/ races' = MaxAddresses
         /\ ~req[r].disturbed => races' = races
<1>1. \A p \in Reqs : req[p] # Idle => req[p] \in Request
  BY ReqTypes
<1>2. PICK t : t = [req[r] EXCEPT !.pc = pc, !.wrote = TRUE]
  OBVIOUS
<1>3. pc # "idle" => /\ t \in Request /\ t # Idle /\ t.pc = pc /\ t.wrote = TRUE
                     /\ t.op = req[r].op /\ t.id = req[r].id /\ t.default = req[r].default
                     /\ t.disturbed = req[r].disturbed
  BY <1>1, <1>2 DEF Request, Idle, Steps
<1>4. req'[r] = IF pc = "idle" THEN Idle ELSE t
  BY <1>2 DEF Write
<1>5. ASSUME NEW p \in Reqs \ {r}
      PROVE  Disturbs(p) /\ req'[p] \in Request \cup {Idle}
  <2>1. req'[p] = IF req[p] = Idle THEN Idle ELSE [req[p] EXCEPT !.disturbed = TRUE]
    BY DEF Write
  <2>2. CASE req[p] = Idle
    BY <2>1, <2>2 DEF Disturbs
  <2>3. CASE req[p] # Idle
    <3>1. PICK u : u = [req[p] EXCEPT !.disturbed = TRUE]
      OBVIOUS
    <3>2. /\ u \in Request /\ u # Idle /\ u.pc = req[p].pc /\ u.op = req[p].op /\ u.id = req[p].id
          /\ u.default = req[p].default /\ u.wrote = req[p].wrote /\ u.found = req[p].found
          /\ u.disturbed = TRUE
      BY <1>1, <2>3, <3>1 DEF Request, Idle, Steps
    <3>3. QED
      BY <2>1, <2>3, <3>1, <3>2 DEF Disturbs, SameEntity
  <2>4. QED
    BY <2>2, <2>3
<1>6. req' \in [Reqs -> Request \cup {Idle}]
  <2>1. \A p \in Reqs : req'[p] \in Request \cup {Idle}
    BY <1>3, <1>4, <1>5
  <2>2. QED
    BY <2>1 DEF Write
<1>7. /\ races' \in 0..MaxAddresses /\ races <= races'
      /\ req[r].disturbed => races' > races \/ races' = MaxAddresses
      /\ ~req[r].disturbed => races' = races
  BY AddressesAssumption DEF Write, TypeOK
<1>8. QED
  BY <1>3, <1>4, <1>5, <1>6, <1>7 DEF SameEntity

LEMMA BeginIs ==
  ASSUME TypeOK, NEW r \in Reqs, NEW t \in Request, req' = [req EXCEPT ![r] = t]
  PROVE  /\ req' \in [Reqs -> Request \cup {Idle}]
         /\ req'[r] = t /\ t # Idle /\ Others(r)
<1>1. t # Idle
  BY DEF Request, Idle, Steps
<1>2. QED
  BY <1>1 DEF TypeOK, Others

-----------------------------------------------------------------------------
(* What the statements do to the table.                                    *)

LEMMA ClearIs ==
  ASSUME TypeOK, NEW r \in Reqs, Clear(r)
  PROVE  /\ rows' \in Seq(Row) /\ Len(rows') = Len(rows)
         /\ \A i \in 1..Len(rows) : /\ rows'[i].there = rows[i].there
                                    /\ rows'[i].default = FALSE
                                    /\ rows'[i].removed = rows[i].removed
         /\ Saved' = Saved /\ Defaults' = {}
<1>1. /\ Len(rows) \in Nat /\ DOMAIN rows = 1..Len(rows)
      /\ \A i \in 1..Len(rows) : rows[i] \in Row
  BY RowTypes
<1>2. rows' = [i \in 1..Len(rows) |-> [rows[i] EXCEPT !.default = FALSE]]
  BY DEF Clear, ClearDefault, Ids
<1>3. ASSUME NEW i \in 1..Len(rows)
      PROVE  /\ rows'[i] \in Row /\ rows'[i].there = rows[i].there
             /\ rows'[i].default = FALSE /\ rows'[i].removed = rows[i].removed
  BY <1>1, <1>2 DEF Row
<1>4. rows' \in [1..Len(rows) -> Row]
  BY <1>2, <1>3
<1>5. rows' \in Seq(Row) /\ Len(rows') = Len(rows)
  <2>1. rows' \in Seq(Row)
    BY <1>1, <1>4, SeqDef
  <2>2. DOMAIN rows' = 1..Len(rows)
    BY <1>4
  <2>3. QED
    BY <1>1, <2>1, <2>2, LenProperties
<1>6. Saved' = Saved /\ Defaults' = {}
  BY <1>3, <1>5 DEF Saved, Defaults, Ids
<1>7. QED
  BY <1>3, <1>5, <1>6

LEMMA InsertIs ==
  ASSUME TypeOK, NEW r \in Reqs, Insert(r)
  PROVE  /\ rows' \in Seq(Row) /\ Len(rows') = Len(rows) + 1 /\ Len(rows') <= MaxAddresses
         /\ \A i \in 1..Len(rows) : rows'[i] = rows[i]
         /\ rows'[Len(rows) + 1].removed = FALSE
         /\ Saved' = Saved \cup {Len(rows) + 1}
         /\ Defaults' = IF req[r].default THEN Defaults \cup {Len(rows) + 1} ELSE Defaults
<1>1. /\ Len(rows) \in Nat /\ rows \in Seq(Row)
  BY RowTypes DEF TypeOK
<1>2. req[r].default \in BOOLEAN
  BY ReqTypes DEF Insert, Steps
<1>3. PICK x : x = [there |-> TRUE, default |-> req[r].default, removed |-> FALSE]
  OBVIOUS
<1>4. x \in Row /\ x.there = TRUE /\ x.default = req[r].default /\ x.removed = FALSE
  BY <1>2, <1>3 DEF Row
<1>5. rows' = Append(rows, x)
  BY <1>3 DEF Insert
<1>6. /\ rows' \in Seq(Row) /\ Len(rows') = Len(rows) + 1
      /\ \A i \in 1..Len(rows) : rows'[i] = rows[i]
      /\ rows'[Len(rows) + 1] = x
  BY <1>1, <1>4, <1>5, AppendProperties
<1>7. Len(rows') <= MaxAddresses
  BY <1>1, <1>6, AddressesAssumption DEF Insert
<1>8. Saved' = Saved \cup {Len(rows) + 1}
  BY <1>1, <1>4, <1>6 DEF Saved, Ids
<1>9. Defaults' = IF req[r].default THEN Defaults \cup {Len(rows) + 1} ELSE Defaults
  BY <1>1, <1>2, <1>4, <1>6, <1>8 DEF Defaults, Saved, Ids
<1>10. QED
  BY <1>4, <1>6, <1>7, <1>8, <1>9

\* A statement that puts row x in the place of row k.
LEMMA RowSet ==
  ASSUME TypeOK, NEW k \in 1..Len(rows), NEW x \in Row, rows' = [rows EXCEPT ![k] = x]
  PROVE  /\ rows' \in Seq(Row) /\ Len(rows') = Len(rows)
         /\ rows'[k] = x /\ \A i \in 1..Len(rows) : i # k => rows'[i] = rows[i]
         /\ Saved' = IF x.there THEN Saved \cup {k} ELSE Saved \ {k}
         /\ Defaults' = IF x.default THEN Defaults \cup {k} ELSE Defaults \ {k}
<1>1. Len(rows) \in Nat /\ rows \in Seq(Row) /\ DOMAIN rows = 1..Len(rows)
  BY RowTypes DEF TypeOK
<1>2. /\ rows' \in Seq(Row) /\ Len(rows') = Len(rows)
      /\ rows'[k] = x /\ \A i \in 1..Len(rows) : i # k => rows'[i] = rows[i]
  BY <1>1, ExceptSeq
<1>3. Saved' = IF x.there THEN Saved \cup {k} ELSE Saved \ {k}
  BY <1>1, <1>2 DEF Saved, Ids, Row
<1>4. x.default => x.there
  BY DEF Row
<1>5. Defaults' = IF x.default THEN Defaults \cup {k} ELSE Defaults \ {k}
  BY <1>1, <1>2, <1>3, <1>4 DEF Defaults, Saved, Ids, Row
<1>6. QED
  BY <1>2, <1>3, <1>5

LEMMA UpdateRowIs ==
  ASSUME TypeOK, NEW r \in Reqs, UpdateRow(r), HandInv(r)
  PROVE  /\ rows' \in Seq(Row) /\ Len(rows') = Len(rows)
         /\ \A i \in 1..Len(rows) : /\ rows'[i].there = rows[i].there
                                    /\ rows'[i].removed = rows[i].removed
         /\ Saved' = Saved
         /\ \/ rows' = rows /\ Defaults' = Defaults
               /\ (~rows[req[r].id].there \/ req[r].default = req[r].found)
            \/ /\ rows[req[r].id].there /\ req[r].default # req[r].found
               /\ Defaults' = IF req[r].default THEN Defaults \cup {req[r].id}
                              ELSE Defaults \ {req[r].id}
<1>1. PICK k : k = req[r].id
  OBVIOUS
<1>2. k \in 1..Len(rows) /\ req[r].default \in BOOLEAN
  <2>1. req[r] # Idle
    BY ReqTypes DEF UpdateRow, Steps
  <2>2. QED
    BY <1>1, <2>1, ReqTypes, RowTypes DEF HandInv, UpdateRow
<1>3. /\ rows[k] \in Row /\ rows[k].there \in BOOLEAN
      /\ DOMAIN rows = 1..Len(rows)
  BY <1>2, RowTypes
<1>4. CASE rows[k].there /\ req[r].default # req[r].found
  <2>1. PICK x : x = [rows[k] EXCEPT !.default = req[r].default]
    OBVIOUS
  <2>2. /\ x \in Row /\ x.there = rows[k].there /\ x.removed = rows[k].removed
        /\ x.default = req[r].default
    BY <1>2, <1>3, <1>4, <2>1 DEF Row
  <2>3. rows' = [rows EXCEPT ![k] = x]
    BY <1>1, <1>4, <2>1 DEF UpdateRow
  <2>4. /\ rows' \in Seq(Row) /\ Len(rows') = Len(rows)
        /\ rows'[k] = x /\ \A i \in 1..Len(rows) : i # k => rows'[i] = rows[i]
        /\ Saved' = IF x.there THEN Saved \cup {k} ELSE Saved \ {k}
        /\ Defaults' = IF x.default THEN Defaults \cup {k} ELSE Defaults \ {k}
    BY <1>2, <2>2, <2>3, RowSet
  <2>5. k \in Saved
    BY <1>2, <1>4 DEF Saved, Ids
  <2>6. QED
    BY <1>1, <1>4, <2>2, <2>4, <2>5
<1>5. CASE ~(rows[k].there /\ req[r].default # req[r].found)
  <2>1. rows' = rows
    BY <1>1, <1>5 DEF UpdateRow
  <2>2. Saved' = Saved /\ Defaults' = Defaults
    BY <2>1 DEF Saved, Defaults, Ids
  <2>3. QED
    BY <1>1, <1>5, <2>1, <2>2 DEF TypeOK
<1>6. QED
  BY <1>4, <1>5

LEMMA ReinsertIs ==
  ASSUME TypeOK, NEW r \in Reqs, Reinsert(r), HandInv(r)
  PROVE  /\ rows' \in Seq(Row) /\ Len(rows') = Len(rows)
         /\ \A i \in 1..Len(rows) : rows'[i].removed = rows[i].removed
         /\ Saved' = Saved \cup {req[r].id}
         /\ Defaults' \subseteq Defaults \cup {req[r].id}
<1>1. PICK k : k = req[r].id
  OBVIOUS
<1>2. k \in 1..Len(rows) /\ req[r].default \in BOOLEAN
  <2>1. req[r] # Idle
    BY ReqTypes DEF Reinsert, Steps
  <2>2. QED
    BY <1>1, <2>1, ReqTypes, RowTypes DEF HandInv, Reinsert
<1>3. rows[k] \in Row /\ DOMAIN rows = 1..Len(rows)
  BY <1>2, RowTypes
<1>4. PICK x : x = [rows[k] EXCEPT !.there = TRUE, !.default = req[r].default]
  OBVIOUS
<1>5. x \in Row /\ x.there = TRUE /\ x.removed = rows[k].removed
  BY <1>2, <1>3, <1>4 DEF Row
<1>6. rows' = [rows EXCEPT ![k] = x]
  <2>1. PICK y : y = [rows EXCEPT ![k].there = TRUE]
    OBVIOUS
  <2>2. rows' = [y EXCEPT ![k].default = req[r].default]
    BY <1>1, <2>1 DEF Reinsert
  <2>3. y[k] = [rows[k] EXCEPT !.there = TRUE] /\ DOMAIN y = DOMAIN rows
        /\ \A i \in DOMAIN rows : i # k => y[i] = rows[i]
    BY <1>2, <1>3, <2>1
  <2>4. rows' = [y EXCEPT ![k] = x]
    BY <1>4, <2>2, <2>3
  <2>5. QED
    BY <2>1, <2>4
<1>7. /\ rows' \in Seq(Row) /\ Len(rows') = Len(rows)
      /\ rows'[k] = x /\ \A i \in 1..Len(rows) : i # k => rows'[i] = rows[i]
      /\ Saved' = IF x.there THEN Saved \cup {k} ELSE Saved \ {k}
      /\ Defaults' = IF x.default THEN Defaults \cup {k} ELSE Defaults \ {k}
  BY <1>2, <1>5, <1>6, RowSet
<1>8. QED
  BY <1>1, <1>5, <1>7

LEMMA DeleteIs ==
  ASSUME TypeOK, NEW r \in Reqs, Delete(r), HandInv(r)
  PROVE  /\ rows' \in Seq(Row) /\ Len(rows') = Len(rows)
         /\ \A i \in 1..Len(rows) : i # req[r].id => rows'[i] = rows[i]
         /\ Saved' = Saved \ {req[r].id} /\ Defaults' = Defaults \ {req[r].id}
         /\ req[r].id \in 1..Len(rows)
<1>1. PICK k : k = req[r].id
  OBVIOUS
<1>2. k \in 1..Len(rows)
  <2>1. req[r] # Idle
    BY ReqTypes DEF Delete, Steps
  <2>2. QED
    BY <1>1, <2>1, ReqTypes, RowTypes DEF HandInv, Delete
<1>3. PICK x : x = [there |-> FALSE, default |-> FALSE, removed |-> TRUE]
  OBVIOUS
<1>4. x \in Row /\ x.there = FALSE /\ x.default = FALSE
  BY <1>3 DEF Row
<1>5. rows' = [rows EXCEPT ![k] = x]
  BY <1>1, <1>3 DEF Delete
<1>6. /\ rows' \in Seq(Row) /\ Len(rows') = Len(rows)
      /\ rows'[k] = x /\ \A i \in 1..Len(rows) : i # k => rows'[i] = rows[i]
      /\ Saved' = IF x.there THEN Saved \cup {k} ELSE Saved \ {k}
      /\ Defaults' = IF x.default THEN Defaults \cup {k} ELSE Defaults \ {k}
  BY <1>2, <1>4, <1>5, RowSet
<1>7. QED
  BY <1>1, <1>2, <1>4, <1>6

-----------------------------------------------------------------------------
(* What the steps that write nothing do to the requests.                   *)

Arrives(r) == PostAddress(r) \/ PatchAddress(r) \/ PatchDefault(r) \/ DeleteAddress(r)

\* What a request has read as it begins.
Begun(r) ==
  \/ /\ req'[r].op = "create" /\ req'[r].id = 0
     /\ \/ req'[r].pc = "clear" /\ req'[r].default = TRUE
        \/ req'[r].pc = "insert" /\ req'[r].default = FALSE /\ Saved # {}
  \/ /\ req'[r].op \in {"update", "set_default"} /\ req'[r].id \in Saved
     /\ req'[r].pc = "clear" /\ req'[r].default = TRUE
  \/ /\ req'[r].op = "update" /\ req'[r].id \in Saved /\ req'[r].pc = "select"
     /\ req'[r].default = rows[req'[r].id].default \/ (unset' /\ req'[r].default = FALSE)
  \/ /\ req'[r].op = "remove" /\ req'[r].id \in Saved /\ req'[r].pc = "delete"
     /\ req'[r].default = rows[req'[r].id].default

LEMMA ArrivalIs ==
  ASSUME TypeOK, NEW r \in Reqs, Arrives(r)
  PROVE  /\ req' \in [Reqs -> Request \cup {Idle}] /\ Others(r)
         /\ UNCHANGED <<rows, held, races, halfDone>>
         /\ unset' \in BOOLEAN /\ (unset => unset')
         /\ req[r] = Idle /\ req'[r] # Idle
         /\ req'[r].wrote = FALSE /\ req'[r].disturbed = FALSE
         /\ Begun(r)
<1>1. /\ 0 \in 0..MaxAddresses
      /\ \A i \in Saved : i \in 0..MaxAddresses /\ rows[i].default \in BOOLEAN
  BY RowTypes, AddressesAssumption DEF Saved, Ids
<1>2. CASE PostAddress(r)
  <2>1. PICK dto \in CreateAddressDto : Create(r, dto)
    BY <1>2 DEF PostAddress
  <2>2. PICK t : t =
          [pc |-> IF ShouldBeDefault(dto.isDefault) THEN "clear" ELSE "insert",
           op |-> "create", id |-> 0, default |-> ShouldBeDefault(dto.isDefault),
           found |-> FALSE, wrote |-> FALSE, disturbed |-> FALSE]
    OBVIOUS
  <2>3. ShouldBeDefault(dto.isDefault) \in BOOLEAN
    BY DEF ShouldBeDefault, CreateAddressDto
  <2>4. /\ t \in Request /\ t.op = "create" /\ t.id = 0
        /\ t.wrote = FALSE /\ t.disturbed = FALSE
        /\ \/ t.pc = "clear" /\ t.default = TRUE
           \/ t.pc = "insert" /\ t.default = FALSE /\ ~ShouldBeDefault(dto.isDefault)
    BY <1>1, <2>2, <2>3 DEF Request, Steps
  <2>5. ~ShouldBeDefault(dto.isDefault) => Saved # {}
    BY DEF ShouldBeDefault
  <2>6. req[r] = Idle /\ req' = [req EXCEPT ![r] = t]
    BY <2>1, <2>2 DEF Create, Begin
  <2>7. req' \in [Reqs -> Request \cup {Idle}] /\ req'[r] = t /\ t # Idle /\ Others(r)
    BY <2>4, <2>6, BeginIs
  <2>8. QED
    BY <2>1, <2>4, <2>5, <2>6, <2>7 DEF Begun, Create, TypeOK
<1>3. CASE PatchAddress(r)
  <2>1. PICK i \in 1..MaxAddresses, body \in {"absent", "true", "false"} : Update(r, i, body)
    BY <1>3 DEF PatchAddress
  <2>2. i \in Saved
    BY <2>1 DEF Update, AssertOwnership
  <2>3. PICK t : t =
          [pc |-> IF body = "true" THEN "clear" ELSE "select", op |-> "update", id |-> i,
           default |-> CASE body = "true" -> TRUE [] body = "false" -> FALSE
                         [] body = "absent" -> rows[i].default,
           found |-> FALSE, wrote |-> FALSE, disturbed |-> FALSE]
    OBVIOUS
  <2>4. /\ t \in Request /\ t.op = "update" /\ t.id = i
        /\ t.wrote = FALSE /\ t.disturbed = FALSE
        /\ \/ t.pc = "clear" /\ t.default = TRUE
           \/ t.pc = "select" /\ t.default = FALSE /\ body = "false"
           \/ t.pc = "select" /\ t.default = rows[i].default
    <3>1. CASE body = "true"
      BY <1>1, <2>2, <2>3, <3>1 DEF Request, Steps
    <3>2. CASE body = "false"
      BY <1>1, <2>2, <2>3, <3>2 DEF Request, Steps
    <3>3. CASE body = "absent"
      BY <1>1, <2>2, <2>3, <3>3 DEF Request, Steps
    <3>4. QED
      BY <3>1, <3>2, <3>3
  <2>5. req[r] = Idle /\ req' = [req EXCEPT ![r] = t]
    BY <2>1, <2>3 DEF Update, Begin
  <2>6. req' \in [Reqs -> Request \cup {Idle}] /\ req'[r] = t /\ t # Idle /\ Others(r)
    BY <2>4, <2>5, BeginIs
  <2>7. UNCHANGED <<rows, held, races, halfDone>> /\ unset' = (unset \/ body = "false")
    BY <2>1 DEF Update
  <2>8. QED
    BY <2>2, <2>4, <2>5, <2>6, <2>7 DEF Begun, TypeOK
<1>4. CASE PatchDefault(r)
  <2>1. PICK i \in 1..MaxAddresses : SetDefault(r, i)
    BY <1>4 DEF PatchDefault
  <2>2. i \in Saved
    BY <2>1 DEF SetDefault, AssertOwnership
  <2>3. PICK t : t = [pc |-> "clear", op |-> "set_default", id |-> i, default |-> TRUE,
                      found |-> FALSE, wrote |-> FALSE, disturbed |-> FALSE]
    OBVIOUS
  <2>4. /\ t \in Request /\ t.op = "set_default" /\ t.id = i /\ t.pc = "clear"
        /\ t.default = TRUE /\ t.wrote = FALSE /\ t.disturbed = FALSE
    BY <1>1, <2>2, <2>3 DEF Request, Steps
  <2>5. req[r] = Idle /\ req' = [req EXCEPT ![r] = t]
    BY <2>1, <2>3 DEF SetDefault, Begin
  <2>6. req' \in [Reqs -> Request \cup {Idle}] /\ req'[r] = t /\ t # Idle /\ Others(r)
    BY <2>4, <2>5, BeginIs
  <2>7. QED
    BY <2>1, <2>2, <2>4, <2>5, <2>6 DEF Begun, SetDefault, TypeOK
<1>5. CASE DeleteAddress(r)
  <2>1. PICK i \in 1..MaxAddresses : Remove(r, i)
    BY <1>5 DEF DeleteAddress
  <2>2. i \in Saved
    BY <2>1 DEF Remove, AssertOwnership
  <2>3. PICK t : t = [pc |-> "delete", op |-> "remove", id |-> i,
                      default |-> rows[i].default, found |-> FALSE,
                      wrote |-> FALSE, disturbed |-> FALSE]
    OBVIOUS
  <2>4. /\ t \in Request /\ t.op = "remove" /\ t.id = i /\ t.pc = "delete"
        /\ t.default = rows[i].default /\ t.wrote = FALSE /\ t.disturbed = FALSE
    BY <1>1, <2>2, <2>3 DEF Request, Steps
  <2>5. req[r] = Idle /\ req' = [req EXCEPT ![r] = t]
    BY <2>1, <2>3 DEF Remove, Begin
  <2>6. req' \in [Reqs -> Request \cup {Idle}] /\ req'[r] = t /\ t # Idle /\ Others(r)
    BY <2>4, <2>5, BeginIs
  <2>7. QED
    BY <2>1, <2>2, <2>4, <2>5, <2>6 DEF Begun, Remove, TypeOK
<1>6. QED
  BY <1>2, <1>3, <1>4, <1>5 DEF Arrives

LEMMA SelectIs ==
  ASSUME TypeOK, NEW r \in Reqs, Select(r), HandInv(r)
  PROVE  /\ req' \in [Reqs -> Request \cup {Idle}] /\ Others(r)
         /\ req[r] # Idle /\ req[r].id \in Ids
         /\ req'[r] # Idle /\ SameEntity(r)
         /\ req'[r].wrote = req[r].wrote /\ req'[r].disturbed = req[r].disturbed
         /\ IF rows[req[r].id].there
            THEN req'[r].pc = "update" /\ req'[r].found = rows[req[r].id].default
            ELSE req'[r].pc = "reinsert"
<1>1. req[r] # Idle /\ req[r] \in Request /\ req[r].id \in 1..Len(rows)
  BY ReqTypes, RowTypes DEF Select, Steps, HandInv
<1>2. rows[req[r].id].default \in BOOLEAN
  BY <1>1, RowTypes
<1>3. PICK t : t = IF rows[req[r].id].there
                   THEN [req[r] EXCEPT !.pc = "update", !.found = rows[req[r].id].default]
                   ELSE [req[r] EXCEPT !.pc = "reinsert"]
  OBVIOUS
<1>4. /\ t \in Request /\ t # Idle /\ t.op = req[r].op /\ t.id = req[r].id
      /\ t.default = req[r].default /\ t.wrote = req[r].wrote /\ t.disturbed = req[r].disturbed
      /\ IF rows[req[r].id].there THEN t.pc = "update" /\ t.found = rows[req[r].id].default
         ELSE t.pc = "reinsert"
  BY <1>1, <1>2, <1>3 DEF Request, Idle, Steps
<1>5. req' = [req EXCEPT ![r] = t]
  BY <1>3 DEF Select
<1>6. req'[r] = t /\ Others(r) /\ req' \in [Reqs -> Request \cup {Idle}]
  BY <1>4, <1>5 DEF TypeOK, Others
<1>7. QED
  BY <1>1, <1>4, <1>6 DEF SameEntity, Ids

LEMMA PromoteIs ==
  ASSUME TypeOK, NEW r \in Reqs, Promote(r)
  PROVE  /\ req' \in [Reqs -> Request \cup {Idle}] /\ Others(r) /\ req[r] # Idle
         /\ Saved = {} => req'[r] = Idle
         /\ Saved # {} =>
              /\ req'[r] # Idle /\ req'[r].pc = "select" /\ req'[r].id \in Saved
              /\ req'[r].op = req[r].op /\ req'[r].default = req[r].default
              /\ req'[r].wrote = req[r].wrote /\ req'[r].disturbed = req[r].disturbed
<1>1. req[r] # Idle /\ req[r] \in Request
  BY ReqTypes DEF Promote, Steps
<1>2. CASE Saved = {}
  <2>1. req' = [req EXCEPT ![r] = Idle]
    BY <1>2 DEF Promote
  <2>2. QED
    BY <1>1, <1>2, <2>1 DEF TypeOK, Others
<1>3. CASE Saved # {}
  <2>1. PICK k : k = CHOOSE i \in Saved : \A j \in Saved : i <= j
    OBVIOUS
  <2>2. k \in Saved
    <3>1. Saved \subseteq Nat
      BY RowTypes DEF Saved, Ids
    <3>2. \E i \in Saved : \A j \in Saved : i <= j
      <4>1. PICK i \in Saved : \A j \in Saved : ~(<<j, i>> \in OpToRel(<, Nat))
        BY <1>3, <3>1, NatLessThanWellFounded, WFMin
      <4>2. \A j \in Saved : ~(j < i)
        BY <3>1, <4>1 DEF OpToRel
      <4>3. QED
        BY <3>1, <4>2
    <3>3. QED
      BY <2>1, <3>2
  <2>3. k \in 0..MaxAddresses
    BY <2>2, RowTypes, AddressesAssumption DEF Saved, Ids
  <2>4. PICK t : t = [req[r] EXCEPT !.pc = "select", !.id = k]
    OBVIOUS
  <2>5. /\ t \in Request /\ t # Idle /\ t.pc = "select" /\ t.id = k /\ t.op = req[r].op
        /\ t.default = req[r].default /\ t.wrote = req[r].wrote
        /\ t.disturbed = req[r].disturbed
    BY <1>1, <2>3, <2>4 DEF Request, Idle, Steps
  <2>6. req' = [req EXCEPT ![r] = t]
    BY <1>3, <2>1, <2>4 DEF Promote
  <2>7. req'[r] = t /\ Others(r) /\ req' \in [Reqs -> Request \cup {Idle}]
    BY <2>5, <2>6 DEF TypeOK, Others
  <2>8. QED
    BY <1>1, <1>3, <2>2, <2>5, <2>7
<1>4. QED
  BY <1>2, <1>3

LEMMA FailIs ==
  ASSUME TypeOK, NEW r \in Reqs, Fail(r)
  PROVE  /\ req' \in [Reqs -> Request \cup {Idle}] /\ Others(r)
         /\ req[r] # Idle /\ req'[r] = Idle
         /\ UNCHANGED <<rows, held, races, unset>>
         /\ halfDone' \in BOOLEAN /\ (halfDone \/ req[r].wrote => halfDone')
  BY ReqTypes DEF Fail, TypeOK, Others

-----------------------------------------------------------------------------
(* Type correctness.                                                       *)

Writes(r) == Clear(r) \/ Insert(r) \/ UpdateRow(r) \/ Reinsert(r) \/ Delete(r)

LEMMA StepCases ==
  ASSUME Next
  PROVE  \E r \in Reqs : Arrives(r) \/ Select(r) \/ Promote(r) \/ Fail(r) \/ Writes(r)
  BY DEF Next, Arrives, Writes

\* What all the writes have in common.
Written(r) ==
  /\ rows' \in Seq(Row) /\ Len(rows') \in Nat
  /\ Len(rows) <= Len(rows') /\ Len(rows') <= MaxAddresses
  /\ req' \in [Reqs -> Request \cup {Idle}]
  /\ req[r] # Idle
  /\ req'[r] # Idle => SameEntity(r) /\ req'[r].wrote = TRUE /\ req'[r].disturbed = req[r].disturbed
  /\ \A p \in Reqs \ {r} : Disturbs(p)
  /\ races' \in 0..MaxAddresses /\ races <= races'
  /\ req[r].disturbed => races' > races \/ races' = MaxAddresses
  /\ ~req[r].disturbed => races' = races
  /\ UNCHANGED <<unset, halfDone>>
  /\ held \subseteq held'

LEMMA WrittenBy ==
  ASSUME TypeOK, NEW r \in Reqs, NEW pc, pc \in Steps \/ pc = "idle", req[r] # Idle, Write(r, pc),
         rows' \in Seq(Row), Len(rows') \in Nat, Len(rows) <= Len(rows'),
         Len(rows') <= MaxAddresses, UNCHANGED <<unset, halfDone>>, held \subseteq held'
  PROVE  /\ Written(r)
         /\ IF pc = "idle" THEN req'[r] = Idle ELSE req'[r] # Idle /\ req'[r].pc = pc
<1>1. pc \in Steps \cup {"idle"}
  OBVIOUS
<1>2. /\ req' \in [Reqs -> Request \cup {Idle}]
      /\ pc = "idle" => req'[r] = Idle
      /\ pc # "idle" =>
           /\ req'[r] # Idle
           /\ SameEntity(r) /\ req'[r].pc = pc /\ req'[r].wrote = TRUE
           /\ req'[r].disturbed = req[r].disturbed
      /\ \A p \in Reqs \ {r} : Disturbs(p)
      /\ races' \in 0..MaxAddresses /\ races <= races'
      /\ req[r].disturbed => races' > races \/ races' = MaxAddresses
      /\ ~req[r].disturbed => races' = races
  BY <1>1, WriteIs
<1>3. QED
  BY <1>2 DEF Written

LEMMA WritesIs ==
  ASSUME TypeInv, NEW r \in Reqs, Writes(r)
  PROVE  /\ Written(r)
         /\ Clear(r) =>
              /\ req'[r] # Idle
              /\ req'[r].pc = IF req[r].op = "create" THEN "insert" ELSE "select"
         /\ Delete(r) =>
              IF req[r].default THEN req'[r] # Idle /\ req'[r].pc = "promote" ELSE req'[r] = Idle
         /\ ~Clear(r) /\ ~Delete(r) => req'[r] = Idle
<1>1. TypeOK /\ HandInv(r) /\ Len(rows) \in Nat /\ Len(rows) <= MaxAddresses
  BY RowTypes DEF TypeInv
<1>2. req[r] # Idle /\ req[r].default \in BOOLEAN
  BY <1>1, ReqTypes DEF Writes, Clear, Insert, UpdateRow, Reinsert, Delete, Steps
<1>3. "idle" \notin Steps
  BY DEF Steps
<1>4. CASE Clear(r)
  <2>1. PICK pc \in Steps : pc = IF req[r].op = "create" THEN "insert" ELSE "select"
    BY DEF Steps
  <2>2. Write(r, pc)
    BY <1>4, <2>1 DEF Clear
  <2>3. rows' \in Seq(Row) /\ Len(rows') = Len(rows)
    BY <1>1, <1>4, ClearIs
  <2>4. UNCHANGED <<held, unset, halfDone>> /\ ~Delete(r)
    BY <1>4 DEF Clear, Delete
  <2>5. QED
    BY <1>1, <1>2, <1>3, <1>4, <2>1, <2>2, <2>3, <2>4, WrittenBy
<1>5. CASE Insert(r)
  <2>1. Write(r, "idle") /\ UNCHANGED <<held, unset, halfDone>> /\ ~Delete(r) /\ ~Clear(r)
    BY <1>5 DEF Insert, Clear, Delete
  <2>2. rows' \in Seq(Row) /\ Len(rows') = Len(rows) + 1 /\ Len(rows') <= MaxAddresses
    BY <1>1, <1>5, InsertIs
  <2>3. QED
    BY <1>1, <1>2, <2>1, <2>2, WrittenBy
<1>6. CASE UpdateRow(r)
  <2>1. Write(r, "idle") /\ UNCHANGED <<held, unset, halfDone>> /\ ~Delete(r) /\ ~Clear(r)
    BY <1>6 DEF UpdateRow, Clear, Delete
  <2>2. rows' \in Seq(Row) /\ Len(rows') = Len(rows)
    BY <1>1, <1>6, UpdateRowIs
  <2>3. QED
    BY <1>1, <1>2, <2>1, <2>2, WrittenBy
<1>7. CASE Reinsert(r)
  <2>1. Write(r, "idle") /\ UNCHANGED <<held, unset, halfDone>> /\ ~Delete(r) /\ ~Clear(r)
    BY <1>7 DEF Reinsert, Clear, Delete
  <2>2. rows' \in Seq(Row) /\ Len(rows') = Len(rows)
    BY <1>1, <1>7, ReinsertIs
  <2>3. QED
    BY <1>1, <1>2, <2>1, <2>2, WrittenBy
<1>8. CASE Delete(r)
  <2>1. PICK pc : pc = IF req[r].default THEN "promote" ELSE "idle"
    OBVIOUS
  <2>2. Write(r, pc)
    BY <1>8, <2>1 DEF Delete
  <2>3. pc \in Steps \cup {"idle"}
    BY <1>2, <2>1 DEF Steps
  <2>4. rows' \in Seq(Row) /\ Len(rows') = Len(rows)
    BY <1>1, <1>8, DeleteIs
  <2>5. UNCHANGED <<unset, halfDone>> /\ held \subseteq held' /\ ~Clear(r)
    BY <1>8 DEF Clear, Delete
  <2>6. QED
    BY <1>1, <1>2, <1>3, <1>8, <2>1, <2>2, <2>3, <2>4, <2>5, WrittenBy
<1>9. QED
  BY <1>4, <1>5, <1>6, <1>7, <1>8 DEF Writes

\* A request that does nothing in a step keeps what it has in hand.
LEMMA HandStays ==
  ASSUME TypeInv, NEW p \in Reqs, req'[p] = req[p] \/ Disturbs(p),
         Len(rows') \in Nat, Len(rows) <= Len(rows')
  PROVE  HandInv(p)'
<1>1. HandInv(p) /\ Len(rows) \in Nat /\ (req[p] # Idle => req[p].id \in Nat)
  BY RowTypes, ReqTypes DEF TypeInv
<1>2. CASE req'[p] = Idle
  BY <1>2 DEF HandInv
<1>3. CASE req'[p] # Idle
  <2>1. /\ req[p] # Idle
        /\ req'[p].id = req[p].id /\ req'[p].pc = req[p].pc /\ req'[p].op = req[p].op
        /\ req'[p].default = req[p].default /\ req'[p].wrote = req[p].wrote
    BY <1>3 DEF Disturbs, SameEntity
  <2>2. req'[p].id <= Len(rows')
    BY <1>1, <2>1 DEF HandInv
  <2>3. QED
    BY <1>1, <2>1, <2>2 DEF HandInv
<1>4. QED
  BY <1>2, <1>3

LEMMA TypeInit == Init => TypeInv
<1>1. SUFFICES ASSUME Init PROVE TypeInv
  OBVIOUS
<1>2. PICK R : req = [r \in Reqs |-> IF r \in R THEN Registering ELSE Idle]
  BY <1>1 DEF Init
<1>3. rows = <<>> /\ held = {} /\ races = 0 /\ unset = FALSE /\ halfDone = FALSE
  BY <1>1 DEF Init
<1>7. Len(rows) = 0 /\ Len(rows) \in Nat /\ rows \in Seq(Row)
  BY <1>3, EmptySeq
<1>4. Registering \in Request /\ Registering # Idle
  <2>1. 0 \in 0..MaxAddresses
    BY AddressesAssumption
  <2>2. QED
    BY <2>1 DEF Registering, Request, Idle, Steps
<1>5. \A r \in Reqs : HandInv(r)
  BY <1>2, <1>7 DEF HandInv, Registering
<1>6. TypeOK
  <2>1. req \in [Reqs -> Request \cup {Idle}] /\ \A r \in Reqs : req[r] # Idle => req[r].id = 0
    BY <1>2, <1>4 DEF Registering
  <2>2. Len(rows) <= MaxAddresses /\ 0 \in 0..MaxAddresses /\ 0 <= Len(rows)
    BY <1>7, AddressesAssumption
  <2>3. QED
    BY <1>3, <1>7, <2>1, <2>2 DEF TypeOK
<1>8. QED
  BY <1>5, <1>6 DEF TypeInv

LEMMA TypeNext == TypeInv /\ [Next]_vars => TypeInv'
<1>1. SUFFICES ASSUME TypeInv, [Next]_vars PROVE TypeInv'
  OBVIOUS
<1>2. TypeOK /\ Len(rows) \in Nat /\ Len(rows) <= MaxAddresses /\ \A r \in Reqs : HandInv(r)
  BY <1>1, RowTypes DEF TypeInv
<1>3. ASSUME NEW r \in Reqs, Arrives(r) PROVE TypeInv'
  <2>1. /\ req' \in [Reqs -> Request \cup {Idle}] /\ Others(r)
        /\ UNCHANGED <<rows, held, races, halfDone>> /\ unset' \in BOOLEAN
        /\ req'[r] # Idle /\ req'[r].wrote = FALSE /\ Begun(r)
    BY <1>2, <1>3, ArrivalIs
  <2>2. \A i \in Saved : i # 0 /\ i <= Len(rows)
    BY <1>2 DEF Saved, Ids
  <2>3. HandInv(r)'
    BY <1>2, <2>1, <2>2 DEF HandInv, Begun
  <2>4. \A p \in Reqs : HandInv(p)'
    BY <1>1, <1>2, <2>1, <2>3, HandStays DEF Others
  <2>5. TypeOK'
    BY <1>2, <2>1, <2>4 DEF TypeOK, HandInv, Ids
  <2>6. QED
    BY <2>4, <2>5 DEF TypeInv
<1>4. ASSUME NEW r \in Reqs, Select(r) PROVE TypeInv'
  <2>1. /\ req' \in [Reqs -> Request \cup {Idle}] /\ Others(r)
        /\ req[r] # Idle /\ SameEntity(r) /\ req'[r].wrote = req[r].wrote
        /\ req'[r].pc \in {"update", "reinsert"}
    BY <1>2, <1>4, SelectIs
  <2>2. UNCHANGED <<rows, held, races, unset, halfDone>> /\ req[r].pc = "select"
    BY <1>4 DEF Select
  <2>3. HandInv(r)'
    BY <1>2, <2>1, <2>2 DEF HandInv, SameEntity
  <2>4. \A p \in Reqs : HandInv(p)'
    BY <1>1, <1>2, <2>1, <2>2, <2>3, HandStays DEF Others
  <2>5. TypeOK'
    BY <1>2, <2>1, <2>2, <2>4 DEF TypeOK, HandInv, Ids
  <2>6. QED
    BY <2>4, <2>5 DEF TypeInv
<1>5. ASSUME NEW r \in Reqs, Promote(r) PROVE TypeInv'
  <2>1. /\ req' \in [Reqs -> Request \cup {Idle}] /\ Others(r) /\ req[r] # Idle
        /\ req'[r] # Idle =>
             /\ req'[r].pc = "select" /\ req'[r].id \in Saved /\ req'[r].op = req[r].op
             /\ req'[r].default = req[r].default /\ req'[r].wrote = req[r].wrote
    BY <1>2, <1>5, PromoteIs
  <2>2. UNCHANGED <<rows, held, races, unset, halfDone>> /\ req[r].pc = "promote"
    BY <1>5 DEF Promote
  <2>3. \A i \in Saved : i # 0 /\ i <= Len(rows)
    BY <1>2 DEF Saved, Ids
  <2>4. HandInv(r)'
    BY <1>2, <2>1, <2>2, <2>3 DEF HandInv
  <2>5. \A p \in Reqs : HandInv(p)'
    BY <1>1, <1>2, <2>1, <2>2, <2>4, HandStays DEF Others
  <2>6. TypeOK'
    BY <1>2, <2>1, <2>2, <2>5 DEF TypeOK, HandInv, Ids
  <2>7. QED
    BY <2>5, <2>6 DEF TypeInv
<1>6. ASSUME NEW r \in Reqs, Fail(r) PROVE TypeInv'
  <2>1. /\ req' \in [Reqs -> Request \cup {Idle}] /\ Others(r) /\ req'[r] = Idle
        /\ UNCHANGED <<rows, held, races, unset>> /\ halfDone' \in BOOLEAN
    BY <1>2, <1>6, FailIs
  <2>2. HandInv(r)'
    BY <2>1 DEF HandInv
  <2>3. \A p \in Reqs : HandInv(p)'
    BY <1>1, <1>2, <2>1, <2>2, HandStays DEF Others
  <2>4. TypeOK'
    BY <1>2, <2>1, <2>3 DEF TypeOK, HandInv, Ids
  <2>5. QED
    BY <2>3, <2>4 DEF TypeInv
<1>7. ASSUME NEW r \in Reqs, Writes(r) PROVE TypeInv'
  <2>1. Written(r)
    BY <1>1, <1>7, WritesIs
  <2>3. HandInv(r)'
    <3>1. CASE req'[r] = Idle
      BY <3>1 DEF HandInv
    <3>2. CASE req'[r] # Idle
      <4>1. /\ SameEntity(r) /\ req'[r].wrote = TRUE /\ req[r] # Idle
            /\ req[r].id \in Nat /\ req[r].id <= Len(rows')
        BY <1>2, <2>1, <3>2, ReqTypes DEF Written
      <4>2. \/ /\ req[r].pc = "clear"
               /\ req'[r].pc = IF req[r].op = "create" THEN "insert" ELSE "select"
            \/ /\ req[r].pc = "delete" /\ req[r].default /\ req'[r].pc = "promote"
        BY <1>1, <1>7, <3>2, WritesIs DEF Clear, Delete
      <4>3. QED
        BY <1>2, <4>1, <4>2 DEF HandInv, SameEntity
    <3>3. QED
      BY <3>1, <3>2
  <2>4. \A p \in Reqs : HandInv(p)'
    BY <1>1, <2>1, <2>3, HandStays DEF Written
  <2>5. held' \subseteq Ids'
    <3>1. CASE Delete(r)
      <4>1. req[r].id \in 1..Len(rows)
        BY <1>2, <3>1, DeleteIs
      <4>2. held' \subseteq held \cup {req[r].id}
        BY <3>1 DEF Delete
      <4>3. QED
        BY <1>2, <2>1, <4>1, <4>2 DEF TypeOK, Ids, Written
    <3>2. CASE ~Delete(r)
      <4>1. held' = held
        BY <1>7, <3>2 DEF Writes, Clear, Insert, UpdateRow, Reinsert
      <4>2. QED
        BY <1>2, <2>1, <4>1 DEF TypeOK, Ids, Written
    <3>3. QED
      BY <3>1, <3>2
  <2>6. TypeOK'
    BY <1>2, <2>1, <2>4, <2>5 DEF TypeOK, HandInv, Written
  <2>7. QED
    BY <2>4, <2>6 DEF TypeInv
<1>8. CASE UNCHANGED vars
  BY <1>1, <1>8 DEF vars, TypeInv, TypeOK, HandInv, Ids
<1>9. QED
  BY <1>1, <1>3, <1>4, <1>5, <1>6, <1>7, <1>8, StepCases

LEMMA TypesHold == Spec => []TypeInv
  BY TypeInit, TypeNext, PTL DEF Spec

\* The tables hold rows of their type, a default is a saved address and what
\* a request has in hand is an address there has been (address.service.ts:20-92).
THEOREM TypeCorrect == Spec => []TypeOK
<1>1. TypeInv => TypeOK
  BY DEF TypeInv
<1>2. QED
  BY <1>1, TypesHold, PTL

-----------------------------------------------------------------------------
(* Removed addresses.                                                      *)

LEMMA RemovedInit == Init => RemovedHeld
<1>1. SUFFICES ASSUME Init PROVE RemovedHeld
  OBVIOUS
<1>2. PICK R : req = [r \in Reqs |-> IF r \in R THEN Registering ELSE Idle]
  BY <1>1 DEF Init
<1>3. \A r \in Reqs : req[r] # Idle => req[r].id = 0
  BY <1>2 DEF Registering
<1>4. Saved = {}
  <2>1. Len(rows) = 0
    BY <1>1, EmptySeq DEF Init
  <2>2. QED
    BY <2>1 DEF Saved, Ids
<1>5. QED
  BY <1>3, <1>4 DEF RemovedHeld, RemovedStaysRemoved

LEMMA RemovedNext == TypeInv /\ RemovedHeld /\ [Next]_vars => RemovedHeld'
<1>1. SUFFICES ASSUME TypeInv, RemovedHeld, [Next]_vars PROVE RemovedHeld'
  OBVIOUS
<1>2. TypeOK /\ Len(rows) \in Nat /\ \A r \in Reqs : HandInv(r)
  BY <1>1, RowTypes DEF TypeInv
<1>3. \A p \in Reqs : req[p] # Idle /\ req[p].id # 0 => req[p].id \in 1..Len(rows)
  BY <1>2, ReqTypes
<1>4. /\ \A i \in Saved : rows[i].removed => i \in held
      /\ \A p \in Reqs :
           req[p] # Idle /\ req[p].id # 0 /\ req[p].pc # "promote" /\ rows[req[p].id].removed
             => req[p].id \in held
  BY <1>1 DEF RemovedHeld, RemovedStaysRemoved
<1>5. \A i \in Saved : i \in 1..Len(rows)
  BY DEF Saved, Ids
<1>6. ASSUME NEW r \in Reqs, UNCHANGED <<rows, held>>, Others(r),
             req'[r] # Idle /\ req'[r].id # 0 =>
               req'[r].id \in Saved \/ (req[r] # Idle /\ req'[r].id = req[r].id /\ req[r].pc # "promote")
      PROVE  RemovedHeld'
  <2>1. Saved' = Saved
    BY <1>6 DEF Saved, Ids
  <2>2. RemovedStaysRemoved'
    BY <1>4, <1>6, <2>1 DEF RemovedStaysRemoved
  <2>3. ASSUME NEW p \in Reqs, req'[p] # Idle, req'[p].id # 0, req'[p].pc # "promote",
               rows[req'[p].id].removed
        PROVE  req'[p].id \in held
    BY <1>4, <1>6, <2>3 DEF Others
  <2>4. QED
    BY <1>6, <2>2, <2>3 DEF RemovedHeld
<1>7. ASSUME NEW r \in Reqs, Arrives(r) PROVE RemovedHeld'
  <2>1. Others(r) /\ UNCHANGED <<rows, held>> /\ Begun(r)
    BY <1>2, <1>7, ArrivalIs
  <2>2. req'[r].id # 0 => req'[r].id \in Saved
    BY <2>1 DEF Begun
  <2>3. QED
    BY <1>6, <2>1, <2>2
<1>8. ASSUME NEW r \in Reqs, Select(r) PROVE RemovedHeld'
  <2>1. Others(r) /\ req[r] # Idle /\ req'[r].id = req[r].id
    BY <1>2, <1>8, SelectIs DEF SameEntity
  <2>2. UNCHANGED <<rows, held>> /\ req[r].pc # "promote"
    BY <1>8 DEF Select
  <2>3. QED
    BY <1>6, <2>1, <2>2
<1>9. ASSUME NEW r \in Reqs, Promote(r) PROVE RemovedHeld'
  <2>1. Others(r) /\ (req'[r] # Idle => req'[r].id \in Saved)
    BY <1>2, <1>9, PromoteIs
  <2>2. UNCHANGED <<rows, held>>
    BY <1>9 DEF Promote
  <2>3. QED
    BY <1>6, <2>1, <2>2
<1>10. ASSUME NEW r \in Reqs, Fail(r) PROVE RemovedHeld'
  <2>1. Others(r) /\ req'[r] = Idle /\ UNCHANGED <<rows, held>>
    BY <1>2, <1>10, FailIs
  <2>2. QED
    BY <1>6, <2>1
<1>11. ASSUME NEW r \in Reqs, Writes(r), held \subseteq held',
              \A i \in Saved' : rows'[i].removed => i \in held',
              \A i \in 1..Len(rows) : rows'[i].removed =>
                \/ rows[i].removed
                \/ \A p \in Reqs \ {r} : req[p] # Idle /\ req[p].id = i => i \in held',
              req'[r] # Idle /\ req'[r].pc # "promote" => req[r].pc # "promote" /\ ~Delete(r)
       PROVE  RemovedHeld'
  <2>1. Written(r)
    BY <1>1, <1>11, WritesIs
  <2>2. ASSUME NEW p \in Reqs, req'[p] # Idle, req'[p].id # 0, req'[p].pc # "promote",
               rows'[req'[p].id].removed, p # r
        PROVE  req'[p].id \in held'
    <3>1. req[p] # Idle /\ req'[p].id = req[p].id /\ req'[p].pc = req[p].pc
      BY <2>1, <2>2 DEF Written, Disturbs, SameEntity
    <3>2. req[p].id \in 1..Len(rows)
      BY <1>3, <2>2, <3>1
    <3>3. QED
      BY <1>4, <1>11, <2>2, <3>1, <3>2
  <2>3. ASSUME req'[r] # Idle, req'[r].id # 0, req'[r].pc # "promote", rows'[req'[r].id].removed
        PROVE  req'[r].id \in held'
    <3>1. Clear(r)
      BY <1>1, <1>11, <2>3, WritesIs
    <3>2. req[r] # Idle /\ req'[r].id = req[r].id /\ req[r].pc # "promote"
      BY <1>11, <2>1, <2>3 DEF Written, SameEntity
    <3>3. req[r].id \in 1..Len(rows) /\ rows[req[r].id].removed
      BY <1>2, <1>3, <2>3, <3>1, <3>2, ClearIs
    <3>4. QED
      BY <1>4, <1>11, <2>3, <3>2, <3>3
  <2>4. QED
    BY <1>11, <2>2, <2>3 DEF RemovedHeld, RemovedStaysRemoved
<1>12. ASSUME NEW r \in Reqs, Clear(r) PROVE RemovedHeld'
  <2>1. /\ \A i \in 1..Len(rows) : rows'[i].removed = rows[i].removed
        /\ Saved' = Saved
    BY <1>2, <1>12, ClearIs
  <2>2. held' = held /\ req[r].pc = "clear" /\ ~Delete(r)
    BY <1>12 DEF Clear, Delete
  <2>3. QED
    BY <1>4, <1>5, <1>11, <1>12, <2>1, <2>2 DEF Writes
<1>13. ASSUME NEW r \in Reqs, Insert(r) PROVE RemovedHeld'
  <2>1. /\ \A i \in 1..Len(rows) : rows'[i] = rows[i]
        /\ rows'[Len(rows) + 1].removed = FALSE
        /\ Saved' = Saved \cup {Len(rows) + 1}
    BY <1>2, <1>13, InsertIs
  <2>2. held' = held /\ req[r].pc = "insert" /\ ~Delete(r)
    BY <1>13 DEF Insert, Delete
  <2>3. QED
    BY <1>4, <1>5, <1>11, <1>13, <2>1, <2>2 DEF Writes
<1>14. ASSUME NEW r \in Reqs, UpdateRow(r) PROVE RemovedHeld'
  <2>1. /\ \A i \in 1..Len(rows) : rows'[i].removed = rows[i].removed
        /\ Saved' = Saved
    BY <1>2, <1>14, UpdateRowIs
  <2>2. held' = held /\ req[r].pc = "update" /\ ~Delete(r)
    BY <1>14 DEF UpdateRow, Delete
  <2>3. QED
    BY <1>4, <1>5, <1>11, <1>14, <2>1, <2>2 DEF Writes
<1>15. ASSUME NEW r \in Reqs, Reinsert(r) PROVE RemovedHeld'
  <2>1. /\ \A i \in 1..Len(rows) : rows'[i].removed = rows[i].removed
        /\ Saved' = Saved \cup {req[r].id}
    BY <1>2, <1>15, ReinsertIs
  <2>2. held' = held /\ req[r].pc = "reinsert" /\ ~Delete(r)
    BY <1>15 DEF Reinsert, Delete
  <2>3. req[r] # Idle /\ req[r].id # 0
    BY <1>2, <2>2, ReqTypes DEF HandInv, Steps
  <2>4. \A i \in Saved' : i \in 1..Len(rows)
    BY <1>3, <1>5, <2>1, <2>3
  <2>5. \A i \in Saved' : rows'[i].removed => i \in held'
    BY <1>4, <2>1, <2>2, <2>3, <2>4
  <2>6. QED
    BY <1>11, <1>15, <2>1, <2>2, <2>5 DEF Writes
<1>16. ASSUME NEW r \in Reqs, Delete(r) PROVE RemovedHeld'
  <2>1. /\ \A i \in 1..Len(rows) : i # req[r].id => rows'[i] = rows[i]
        /\ Saved' = Saved \ {req[r].id}
    BY <1>2, <1>16, DeleteIs
  <2>2. /\ held \subseteq held'
        /\ \A p \in Reqs \ {r} : req[p] # Idle /\ req[p].id = req[r].id => req[r].id \in held'
    BY <1>16 DEF Delete
  <2>3. req'[r] # Idle => req'[r].pc = "promote"
    <3>1. req[r].default \in BOOLEAN
      BY <1>2, <1>16, ReqTypes DEF Delete, Steps
    <3>2. QED
      BY <1>1, <1>16, <3>1, WritesIs DEF Writes
  <2>4. \A i \in Saved' : rows'[i].removed => i \in held'
    BY <1>4, <1>5, <2>1, <2>2
  <2>5. QED
    BY <1>11, <1>16, <2>1, <2>2, <2>3, <2>4 DEF Writes
<1>17. CASE UNCHANGED vars
  BY <1>1, <1>17 DEF vars, RemovedHeld, RemovedStaysRemoved, Saved, Ids
<1>18. QED
  BY <1>1, <1>7, <1>8, <1>9, <1>10, <1>12, <1>13, <1>14, <1>15, <1>16, <1>17, StepCases DEF Writes

\* An address whose removal was carried out is back only if another request
\* held it in memory then, and saved it (address.service.ts:60, 72, 89).
THEOREM RemovedForGood == Spec => []RemovedStaysRemoved
<1>1. RemovedHeld => RemovedStaysRemoved
  BY DEF RemovedHeld
<1>2. Spec => []RemovedHeld
  BY RemovedInit, RemovedNext, TypesHold, PTL DEF Spec
<1>3. QED
  BY <1>1, <1>2, PTL

-----------------------------------------------------------------------------
(* Defaults.                                                               *)

LEMMA FewIds ==
  ASSUME NEW n \in Nat, NEW D, D \subseteq 1..n
  PROVE  IsFiniteSet(D) /\ Cardinality(D) \in Nat /\ Cardinality(D) <= n
<1>1. IsFiniteSet(1..n) /\ Cardinality(1..n) = n
  BY FS_Interval
<1>2. IsFiniteSet(D) /\ Cardinality(D) <= Cardinality(1..n)
  BY <1>1, FS_Subset
<1>3. QED
  BY <1>1, <1>2, FS_CardinalityType

LEMMA DefaultsCount ==
  ASSUME TypeOK
  PROVE  /\ IsFiniteSet(Defaults) /\ Cardinality(Defaults) \in Nat
         /\ Cardinality(Defaults) <= MaxAddresses
<1>1. Len(rows) \in Nat /\ Len(rows) <= MaxAddresses /\ Defaults \subseteq 1..Len(rows)
  BY RowTypes DEF Defaults, Saved, Ids
<1>2. /\ IsFiniteSet(Defaults) /\ Cardinality(Defaults) \in Nat
      /\ Cardinality(Defaults) <= Len(rows)
  BY <1>1, FewIds
<1>3. QED
  BY <1>1, <1>2, AddressesAssumption

\* Steps that write nothing.
LEMMA KnowsStays ==
  ASSUME NEW p \in Reqs, Knows(p), req'[p] = req[p], UNCHANGED <<rows, races>>, unset => unset'
  PROVE  Knows(p)'
<1>1. Saved' = Saved /\ Defaults' = Defaults
  BY DEF Saved, Defaults, Ids
<1>2. QED
  BY <1>1 DEF Knows

LEMMA QuietCalm ==
  ASSUME Calm, NEW r \in Reqs, Others(r), UNCHANGED <<rows, races>>, unset => unset',
         req'[r] # Idle /\ ~req'[r].disturbed => Knows(r)'
  PROVE  Calm'
<1>1. ASSUME NEW p \in Reqs \ {r}, req'[p] # Idle, ~req'[p].disturbed PROVE Knows(p)'
  BY <1>1, KnowsStays DEF Calm, Others
<1>2. QED
  BY <1>1 DEF Calm

\* A write disturbs all other requests.
LEMMA WriteCalm ==
  ASSUME NEW r \in Reqs, Written(r), req'[r] # Idle /\ ~req'[r].disturbed => Knows(r)'
  PROVE  Calm'
<1>1. ASSUME NEW p \in Reqs \ {r}, req'[p] # Idle, ~req'[p].disturbed PROVE FALSE
  BY <1>1 DEF Written, Disturbs
<1>2. QED
  BY <1>1 DEF Calm

LEMMA DefaultsInit == Init => Calm /\ DefaultsBounded /\ DefaultComing
<1>1. SUFFICES ASSUME Init PROVE Calm /\ DefaultsBounded /\ DefaultComing
  OBVIOUS
<1>2. PICK R : req = [r \in Reqs |-> IF r \in R THEN Registering ELSE Idle]
  BY <1>1 DEF Init
<1>3. Saved = {} /\ Defaults = {}
  <2>1. Len(rows) = 0
    BY <1>1, EmptySeq DEF Init
  <2>2. QED
    BY <2>1 DEF Saved, Defaults, Ids
<1>4. Calm
  BY <1>2, <1>3 DEF Calm, Knows, Registering
<1>5. DefaultsBounded
  <2>1. Cardinality(Defaults) = 0
    BY <1>3, FS_EmptySet
  <2>2. races = 0
    BY <1>1 DEF Init
  <2>3. QED
    BY <2>1, <2>2 DEF DefaultsBounded
<1>6. QED
  BY <1>3, <1>4, <1>5 DEF DefaultComing

LEMMA ArrivalCalm ==
  ASSUME TypeInv, Calm, NEW r \in Reqs, Arrives(r)
  PROVE  Calm'
<1>1. TypeOK
  BY DEF TypeInv
<1>2. /\ Others(r) /\ UNCHANGED <<rows, races>> /\ (unset => unset')
      /\ req'[r].wrote = FALSE /\ Begun(r)
  BY <1>1, ArrivalIs
<1>3. \A i \in Saved : rows[i].there
  BY DEF Saved
<1>4. Saved' = Saved /\ Defaults' = Defaults
  BY <1>2 DEF Saved, Defaults, Ids
<1>5. Knows(r)'
  BY <1>2, <1>3, <1>4 DEF Knows, Begun
<1>6. QED
  BY <1>2, <1>5, QuietCalm

LEMMA SelectCalm ==
  ASSUME TypeInv, Calm, NEW r \in Reqs, Select(r)
  PROVE  Calm'
<1>1. TypeOK /\ HandInv(r)
  BY DEF TypeInv
<1>2. /\ Others(r) /\ req[r] # Idle /\ SameEntity(r)
      /\ req'[r].wrote = req[r].wrote /\ req'[r].disturbed = req[r].disturbed
      /\ IF rows[req[r].id].there
         THEN req'[r].pc = "update" /\ req'[r].found = rows[req[r].id].default
         ELSE req'[r].pc = "reinsert"
  BY <1>1, SelectIs
<1>3. UNCHANGED <<rows, races, unset>> /\ req[r].pc = "select"
  BY DEF Select
<1>4. req[r].id # 0
  BY <1>1, <1>2, <1>3 DEF HandInv
<1>5. Saved' = Saved /\ Defaults' = Defaults
  BY <1>3 DEF Saved, Defaults, Ids
<1>6. ASSUME ~req'[r].disturbed PROVE Knows(r)'
  <2>1. Knows(r)
    BY <1>2, <1>6 DEF Calm
  <2>2. QED
    BY <1>2, <1>3, <1>4, <1>5, <2>1 DEF Knows, SameEntity
<1>7. QED
  BY <1>2, <1>3, <1>6, QuietCalm

LEMMA PromoteCalm ==
  ASSUME TypeInv, Calm, NEW r \in Reqs, Promote(r)
  PROVE  Calm'
<1>1. TypeOK /\ HandInv(r)
  BY DEF TypeInv
<1>2. /\ Others(r) /\ req[r] # Idle
      /\ req'[r] # Idle =>
           /\ req'[r].pc = "select" /\ req'[r].id \in Saved /\ req'[r].op = req[r].op
           /\ req'[r].wrote = req[r].wrote /\ req'[r].disturbed = req[r].disturbed
  BY <1>1, PromoteIs
<1>3. UNCHANGED <<rows, races, unset>> /\ req[r].pc = "promote"
  BY DEF Promote
<1>4. req[r].op = "remove" /\ req[r].wrote
  BY <1>1, <1>2, <1>3 DEF HandInv
<1>5. Saved' = Saved /\ Defaults' = Defaults /\ \A i \in Saved : rows[i].there
  BY <1>3 DEF Saved, Defaults, Ids
<1>6. ASSUME req'[r] # Idle, ~req'[r].disturbed PROVE Knows(r)'
  <2>1. Knows(r)
    BY <1>2, <1>6 DEF Calm
  <2>2. QED
    BY <1>2, <1>3, <1>4, <1>5, <1>6, <2>1 DEF Knows
<1>7. QED
  BY <1>2, <1>3, <1>6, QuietCalm

\* The disturbed writes are counted, and there is at most one more default
\* after a write than before it.
LEMMA DisturbedWriteBounded ==
  ASSUME TypeInv, DefaultsBounded, NEW r \in Reqs, Written(r), req[r].disturbed,
         NEW i, Defaults' \subseteq Defaults \cup {i}, TypeOK'
  PROVE  DefaultsBounded'
<1>1. /\ IsFiniteSet(Defaults) /\ Cardinality(Defaults) \in Nat
  BY DefaultsCount DEF TypeInv
<1>2. Cardinality(Defaults') \in Nat /\ Cardinality(Defaults') <= MaxAddresses
  <2>1. Len(rows') \in Nat /\ Len(rows') <= MaxAddresses /\ Defaults' \subseteq 1..Len(rows')
    BY DEF Written, Defaults, Saved, Ids
  <2>2. Cardinality(Defaults') \in Nat /\ Cardinality(Defaults') <= Len(rows')
    BY <2>1, FewIds
  <2>3. QED
    BY <2>1, <2>2, AddressesAssumption
<1>3. Cardinality(Defaults') <= Cardinality(Defaults) + 1
  <2>1. /\ IsFiniteSet(Defaults \cup {i}) /\ Cardinality(Defaults \cup {i}) <= Cardinality(Defaults) + 1
    BY <1>1, FS_AddElement
  <2>2. Cardinality(Defaults') <= Cardinality(Defaults \cup {i})
    BY <2>1, FS_Subset
  <2>3. Cardinality(Defaults \cup {i}) \in Nat
    BY <2>1, FS_CardinalityType
  <2>4. QED
    BY <1>1, <1>2, <2>1, <2>2, <2>3
<1>4. races \in Nat /\ races' \in Nat /\ (races' > races \/ races' = MaxAddresses)
  BY AddressesAssumption DEF Written, TypeInv, TypeOK
<1>5. QED
  BY <1>1, <1>2, <1>3, <1>4, AddressesAssumption DEF DefaultsBounded

LEMMA ClearCalm ==
  ASSUME TypeInv, Calm, DefaultsBounded, NEW r \in Reqs, Clear(r), TypeOK'
  PROVE  Calm' /\ DefaultsBounded'
<1>1. TypeOK /\ HandInv(r)
  BY DEF TypeInv
<1>2. /\ Written(r) /\ req'[r] # Idle
      /\ req'[r].pc = IF req[r].op = "create" THEN "insert" ELSE "select"
  BY WritesIs DEF Writes
<1>3. /\ \A i \in 1..Len(rows) : rows'[i].there = rows[i].there
      /\ Defaults' = {}
  BY <1>1, ClearIs
<1>4. req[r].pc = "clear" /\ req[r] # Idle
  BY <1>2 DEF Clear, Written
<1>5. ASSUME ~req'[r].disturbed PROVE Knows(r)'
  <2>1. SameEntity(r) /\ req'[r].wrote = TRUE /\ ~req[r].disturbed
    BY <1>2, <1>5 DEF Written
  <2>2. Knows(r)
    BY <1>4, <2>1 DEF Calm
  <2>3. CASE req[r].op = "create"
    <3>1. req'[r].pc = "insert" /\ req'[r].default /\ req'[r].id = 0
      BY <1>1, <1>2, <1>4, <2>1, <2>3 DEF HandInv, SameEntity
    <3>2. QED
      BY <1>3, <3>1 DEF Knows
  <2>4. CASE req[r].op # "create"
    <3>1. req'[r].pc = "select" /\ req'[r].op # "remove"
      BY <1>1, <1>2, <1>4, <2>1, <2>4 DEF HandInv, SameEntity
    <3>2. req'[r].id # 0 => rows'[req'[r].id].there
      <4>1. req'[r].id = req[r].id /\ (req[r].id # 0 => rows[req[r].id].there)
        BY <1>4, <2>1, <2>2 DEF Knows, SameEntity
      <4>2. req[r].id # 0 => req[r].id \in 1..Len(rows)
        BY <1>1, <1>4, ReqTypes, RowTypes
      <4>3. QED
        BY <1>3, <4>1, <4>2
    <3>3. QED
      BY <1>3, <2>1, <3>1, <3>2 DEF Knows
  <2>5. QED
    BY <2>3, <2>4
<1>6. Calm'
  BY <1>2, <1>5, WriteCalm
<1>7. DefaultsBounded'
  <2>1. Cardinality(Defaults') \in Nat /\ Cardinality(Defaults') <= 0
    BY <1>3, FS_EmptySet
  <2>2. races' \in Nat
    BY <1>2, AddressesAssumption DEF Written
  <2>3. QED
    BY <2>1, <2>2 DEF DefaultsBounded
<1>8. QED
  BY <1>6, <1>7

\* Writes that end a request.
LEMMA LastWriteCalm ==
  ASSUME TypeInv, DefaultsBounded, TypeOK', NEW r \in Reqs, Written(r), req'[r] = Idle,
         NEW i, Defaults' \subseteq Defaults \cup {i},
         ~req[r].disturbed =>
           \/ Defaults' \subseteq Defaults
           \/ Cardinality(Defaults) <= races
           \/ Defaults = {}
  PROVE  Calm' /\ DefaultsBounded'
<1>1. Calm'
  BY WriteCalm
<1>2. CASE req[r].disturbed
  BY <1>1, <1>2, DisturbedWriteBounded
<1>3. CASE ~req[r].disturbed
  <2>1. races' = races /\ races \in Nat
    BY <1>3, AddressesAssumption DEF Written, TypeInv, TypeOK
  <2>2. IsFiniteSet(Defaults) /\ Cardinality(Defaults) \in Nat
    BY DefaultsCount DEF TypeInv
  <2>3. /\ IsFiniteSet(Defaults \cup {i}) /\ Cardinality(Defaults \cup {i}) <= Cardinality(Defaults) + 1
        /\ Cardinality(Defaults \cup {i}) \in Nat
    <3>1. /\ IsFiniteSet(Defaults \cup {i})
          /\ Cardinality(Defaults \cup {i}) <= Cardinality(Defaults) + 1
      BY <2>2, FS_AddElement
    <3>2. QED
      BY <3>1, FS_CardinalityType
  <2>4. IsFiniteSet(Defaults') /\ Cardinality(Defaults') <= Cardinality(Defaults \cup {i})
    BY <2>3, FS_Subset
  <2>5. Cardinality(Defaults') \in Nat
    BY <2>4, FS_CardinalityType
  <2>6. CASE Defaults' \subseteq Defaults
    <3>1. Cardinality(Defaults') <= Cardinality(Defaults)
      BY <2>2, <2>6, FS_Subset
    <3>2. QED
      BY <1>1, <2>1, <2>2, <2>5, <3>1 DEF DefaultsBounded
  <2>7. CASE Cardinality(Defaults) <= races
    BY <1>1, <2>1, <2>2, <2>3, <2>4, <2>5, <2>7 DEF DefaultsBounded
  <2>8. CASE Defaults = {}
    <3>1. Cardinality(Defaults) = 0
      BY <2>8, FS_EmptySet
    <3>2. QED
      BY <1>1, <2>1, <2>2, <2>3, <2>4, <2>5, <3>1 DEF DefaultsBounded
  <2>9. QED
    BY <1>3, <2>6, <2>7, <2>8
<1>4. req[r].disturbed \in BOOLEAN
  BY ReqTypes DEF Written, TypeInv
<1>5. QED
  BY <1>1, <1>2, <1>3, <1>4

LEMMA InsertCalm ==
  ASSUME TypeInv, Calm, DefaultsBounded, NEW r \in Reqs, Insert(r), TypeOK'
  PROVE  Calm' /\ DefaultsBounded'
<1>1. TypeOK /\ HandInv(r)
  BY DEF TypeInv
<1>2. Written(r) /\ req'[r] = Idle
  BY WritesIs DEF Writes, Insert, Clear, Delete
<1>3. PICK i : i = Len(rows) + 1
  OBVIOUS
<1>4. Defaults' = IF req[r].default THEN Defaults \cup {i} ELSE Defaults
  BY <1>1, <1>3, InsertIs
<1>5. ~req[r].disturbed => Defaults = {} \/ ~req[r].default
  <2>1. req[r] # Idle /\ req[r].pc = "insert"
    BY <1>2 DEF Written, Insert
  <2>2. QED
    BY <2>1 DEF Calm, Knows
<1>6. Defaults' \subseteq Defaults \cup {i} /\ (~req[r].default => Defaults' \subseteq Defaults)
  BY <1>4
<1>7. QED
  BY <1>2, <1>5, <1>6, LastWriteCalm

LEMMA UpdateRowCalm ==
  ASSUME TypeInv, Calm, DefaultsBounded, NEW r \in Reqs, UpdateRow(r), TypeOK'
  PROVE  Calm' /\ DefaultsBounded'
<1>1. TypeOK /\ HandInv(r)
  BY DEF TypeInv
<1>2. Written(r) /\ req'[r] = Idle
  BY WritesIs DEF Writes, UpdateRow, Clear, Delete
<1>3. PICK i : i = req[r].id
  OBVIOUS
<1>4. \/ Defaults' = Defaults
      \/ /\ req[r].default # req[r].found
         /\ Defaults' = IF req[r].default THEN Defaults \cup {i} ELSE Defaults \ {i}
  BY <1>1, <1>3, UpdateRowIs
<1>5. ASSUME ~req[r].disturbed, ~(Defaults' \subseteq Defaults)
      PROVE  Cardinality(Defaults) <= races \/ Defaults = {}
  <2>1. req[r] # Idle /\ req[r].pc = "update"
    BY <1>2 DEF Written, UpdateRow
  <2>2. Knows(r)
    BY <1>5, <2>1 DEF Calm
  <2>3. req[r].default /\ req[r].default # req[r].found
    BY <1>4, <1>5
  <2>4. req[r].wrote
    BY <2>1, <2>2, <2>3 DEF Knows
  <2>5. QED
    BY <2>1, <2>2, <2>4 DEF Knows
<1>6. Defaults' \subseteq Defaults \cup {i}
  BY <1>4
<1>7. QED
  BY <1>2, <1>5, <1>6, LastWriteCalm

LEMMA ReinsertCalm ==
  ASSUME TypeInv, Calm, DefaultsBounded, NEW r \in Reqs, Reinsert(r), TypeOK'
  PROVE  Calm' /\ DefaultsBounded'
<1>1. TypeOK /\ HandInv(r)
  BY DEF TypeInv
<1>2. Written(r) /\ req'[r] = Idle
  BY WritesIs DEF Writes, Reinsert, Clear, Delete
<1>3. PICK i : i = req[r].id
  OBVIOUS
<1>4. Defaults' \subseteq Defaults \cup {i}
  BY <1>1, <1>3, ReinsertIs
<1>5. req[r].disturbed
  <2>1. req[r] # Idle /\ req[r].pc = "reinsert"
    BY <1>2 DEF Written, Reinsert
  <2>2. QED
    BY <2>1 DEF Calm, Knows
<1>6. QED
  BY <1>2, <1>4, <1>5, LastWriteCalm

LEMMA DeleteCalm ==
  ASSUME TypeInv, Calm, DefaultsBounded, NEW r \in Reqs, Delete(r), TypeOK'
  PROVE  Calm' /\ DefaultsBounded'
<1>1. TypeOK /\ HandInv(r)
  BY DEF TypeInv
<1>2. Written(r) /\ (req'[r] # Idle => req'[r].pc = "promote" /\ req[r].default)
  <2>1. Written(r) /\ (IF req[r].default THEN req'[r] # Idle /\ req'[r].pc = "promote"
                       ELSE req'[r] = Idle)
    BY WritesIs DEF Writes
  <2>2. QED
    BY <2>1
<1>3. PICK i : i = req[r].id
  OBVIOUS
<1>4. Defaults' = Defaults \ {i} /\ i \in 1..Len(rows)
  BY <1>1, <1>3, DeleteIs
<1>5. req[r] # Idle /\ req[r].pc = "delete"
  BY <1>2 DEF Written, Delete
<1>6. races \in Nat /\ races' \in Nat /\ races <= races'
  BY AddressesAssumption, <1>2 DEF Written, TypeInv, TypeOK
<1>7. IsFiniteSet(Defaults) /\ Cardinality(Defaults) \in Nat
  BY <1>1, DefaultsCount
<1>8. Cardinality(Defaults') = IF i \in Defaults THEN Cardinality(Defaults) - 1 ELSE Cardinality(Defaults)
  BY <1>4, <1>7, FS_RemoveElement
<1>9. DefaultsBounded'
  BY <1>6, <1>7, <1>8 DEF DefaultsBounded
<1>10. ASSUME req'[r] # Idle, ~req'[r].disturbed PROVE Knows(r)'
  <2>1. ~req[r].disturbed /\ req[r].default /\ req'[r].pc = "promote"
    BY <1>2, <1>10 DEF Written
  <2>2. Knows(r)
    BY <1>5, <2>1 DEF Calm
  <2>3. rows[i].default
    BY <1>3, <1>5, <2>1, <2>2 DEF Knows
  <2>4. i \in Defaults
    BY <1>1, <1>4, <2>3, RowTypes DEF Defaults, Saved, Ids
  <2>5. Cardinality(Defaults') <= races'
    BY <1>6, <1>7, <1>8, <2>4 DEF DefaultsBounded
  <2>6. QED
    BY <2>1, <2>5 DEF Knows
<1>11. Calm'
  BY <1>2, <1>10, WriteCalm
<1>12. QED
  BY <1>9, <1>11

LEMMA CalmNext ==
  TypeInv /\ Calm /\ DefaultsBounded /\ [Next]_vars => Calm' /\ DefaultsBounded'
<1>1. SUFFICES ASSUME TypeInv, Calm, DefaultsBounded, [Next]_vars PROVE Calm' /\ DefaultsBounded'
  OBVIOUS
<1>2. TypeOK /\ TypeOK'
  BY <1>1, TypeNext DEF TypeInv
<1>3. UNCHANGED <<rows, races>> => DefaultsBounded'
  BY <1>1 DEF DefaultsBounded, Defaults, Saved, Ids
<1>4. ASSUME NEW r \in Reqs, Arrives(r) PROVE Calm' /\ DefaultsBounded'
  BY <1>1, <1>2, <1>3, <1>4, ArrivalCalm, ArrivalIs
<1>5. ASSUME NEW r \in Reqs, Select(r) PROVE Calm' /\ DefaultsBounded'
  <2>1. UNCHANGED <<rows, races>>
    BY <1>5 DEF Select
  <2>2. QED
    BY <1>1, <1>3, <1>5, <2>1, SelectCalm
<1>6. ASSUME NEW r \in Reqs, Promote(r) PROVE Calm' /\ DefaultsBounded'
  <2>1. UNCHANGED <<rows, races>>
    BY <1>6 DEF Promote
  <2>2. QED
    BY <1>1, <1>3, <1>6, <2>1, PromoteCalm
<1>7. ASSUME NEW r \in Reqs, Fail(r) PROVE Calm' /\ DefaultsBounded'
  <2>1. Others(r) /\ req'[r] = Idle /\ UNCHANGED <<rows, races, unset>>
    BY <1>2, <1>7, FailIs
  <2>2. QED
    BY <1>1, <1>3, <2>1, QuietCalm
<1>8. ASSUME NEW r \in Reqs, Writes(r) PROVE Calm' /\ DefaultsBounded'
  BY <1>1, <1>2, <1>8, ClearCalm, InsertCalm, UpdateRowCalm, ReinsertCalm, DeleteCalm DEF Writes
<1>9. CASE UNCHANGED vars
  <2>1. Calm'
    BY <1>1, <1>9 DEF vars, Calm, Knows, Saved, Defaults, Ids
  <2>2. QED
    BY <1>3, <1>9, <2>1 DEF vars
<1>10. QED
  BY <1>1, <1>4, <1>5, <1>6, <1>7, <1>8, <1>9, StepCases

LEMMA CalmHolds == Spec => [](Calm /\ DefaultsBounded)
<1>1. Init => Calm /\ DefaultsBounded
  BY DefaultsInit
<1>2. QED
  BY <1>1, CalmNext, TypesHold, PTL DEF Spec

\* Requests that overlap cost at most one additional default each: there are
\* no more defaults than one and the writes that others wrote in the middle
\* of (address.service.ts:37 and 47, 69 and 72, auth.service.ts:96).
THEOREM RacesBoundDefaults == Spec => []DefaultsBounded
<1>1. Calm /\ DefaultsBounded => DefaultsBounded
  OBVIOUS
<1>2. QED
  BY <1>1, CalmHolds, PTL

-----------------------------------------------------------------------------
(* A default is kept.                                                      *)

LEMMA ComingNext ==
  ASSUME TypeInv, Calm, DefaultComing, [Next]_vars
  PROVE  DefaultComing'
<1>1. SUFFICES ASSUME Saved' # {}, Defaults' = {}, races' = 0, ~halfDone', ~unset'
               PROVE  \E p \in Reqs : req'[p] # Idle /\ req'[p].wrote
  <2>1. TypeOK'
    BY TypeNext DEF TypeInv
  <2>2. races' \in Nat
    BY <2>1 DEF TypeOK
  <2>3. races' = 0 \/ races' > 0
    BY <2>2
  <2>4. QED
    BY <2>3 DEF DefaultComing
<1>2. TypeOK /\ races \in Nat /\ \A r \in Reqs : HandInv(r)
  BY <1>1 DEF TypeInv, TypeOK
<1>3. ASSUME races = 0, ~halfDone, ~unset, Saved # {}, Defaults = {}
      PROVE  \E p \in Reqs : req[p] # Idle /\ req[p].wrote
  BY <1>1, <1>3 DEF DefaultComing
<1>4. ASSUME NEW r \in Reqs, UNCHANGED <<rows, races>>, Others(r), halfDone => halfDone',
             unset => unset', req[r] # Idle /\ req[r].wrote => req'[r] # Idle /\ req'[r].wrote
      PROVE  \E p \in Reqs : req'[p] # Idle /\ req'[p].wrote
  <2>1. Saved' = Saved /\ Defaults' = Defaults
    BY <1>4 DEF Saved, Defaults, Ids
  <2>2. PICK p \in Reqs : req[p] # Idle /\ req[p].wrote
    BY <1>1, <1>3, <1>4, <2>1
  <2>3. QED
    BY <1>4, <2>2 DEF Others
<1>5. ASSUME NEW r \in Reqs, Arrives(r) PROVE \E p \in Reqs : req'[p] # Idle /\ req'[p].wrote
  <2>1. /\ Others(r) /\ UNCHANGED <<rows, races, halfDone>> /\ (unset => unset')
        /\ req[r] = Idle
    BY <1>2, <1>5, ArrivalIs
  <2>2. QED
    BY <1>4, <2>1
<1>6. ASSUME NEW r \in Reqs, Select(r) PROVE \E p \in Reqs : req'[p] # Idle /\ req'[p].wrote
  <2>1. Others(r) /\ req'[r] # Idle /\ req'[r].wrote = req[r].wrote
    BY <1>2, <1>6, SelectIs
  <2>2. UNCHANGED <<rows, races, unset, halfDone>>
    BY <1>6 DEF Select
  <2>3. QED
    BY <1>4, <2>1, <2>2
<1>7. ASSUME NEW r \in Reqs, Promote(r) PROVE \E p \in Reqs : req'[p] # Idle /\ req'[p].wrote
  <2>1. UNCHANGED <<rows, races, unset, halfDone>>
    BY <1>7 DEF Promote
  <2>2. Saved # {}
    BY <1>1, <2>1 DEF Saved, Ids
  <2>3. Others(r) /\ req'[r] # Idle /\ req'[r].wrote = req[r].wrote
    BY <1>2, <1>7, <2>2, PromoteIs
  <2>4. QED
    BY <1>4, <2>1, <2>3
<1>8. ASSUME NEW r \in Reqs, Fail(r) PROVE \E p \in Reqs : req'[p] # Idle /\ req'[p].wrote
  <2>1. /\ Others(r) /\ UNCHANGED <<rows, races, unset>>
        /\ halfDone \/ req[r].wrote => halfDone'
    BY <1>2, <1>8, FailIs
  <2>2. ~req[r].wrote /\ (halfDone => halfDone')
    BY <1>1, <2>1
  <2>3. QED
    BY <1>4, <2>1, <2>2
<1>9. ASSUME NEW r \in Reqs, Writes(r) PROVE \E p \in Reqs : req'[p] # Idle /\ req'[p].wrote
  <2>1. Written(r)
    BY <1>1, <1>9, WritesIs
  <2>2. races = 0 /\ ~halfDone /\ ~unset /\ ~req[r].disturbed /\ req[r] # Idle
    BY <1>1, <1>2, <2>1, AddressesAssumption DEF Written
  <2>3. HandInv(r) /\ Knows(r) /\ TypeOK
    BY <1>1, <1>2, <2>2 DEF Calm
  <2>4. ASSUME Saved # {}, Defaults = {}, ~req[r].wrote
        PROVE  \E p \in Reqs : req'[p] # Idle /\ req'[p].wrote
    <3>1. PICK p \in Reqs : req[p] # Idle /\ req[p].wrote
      BY <1>3, <2>2, <2>4
    <3>2. p # r
      BY <2>4, <3>1
    <3>3. QED
      BY <2>1, <3>1, <3>2 DEF Written, Disturbs
  <2>5. CASE Clear(r)
    <3>1. req'[r] # Idle
      BY <1>1, <1>9, <2>5, WritesIs
    <3>2. QED
      BY <2>1, <3>1 DEF Written
  <2>6. CASE Insert(r)
    <3>1. Defaults' = IF req[r].default THEN Defaults \cup {Len(rows) + 1} ELSE Defaults
      BY <2>3, <2>6, InsertIs
    <3>2. ~req[r].default /\ Defaults = {}
      BY <1>1, <3>1
    <3>3. Saved # {} /\ ~req[r].wrote
      BY <2>2, <2>3, <2>6, <3>2 DEF Knows, HandInv, Insert
    <3>4. QED
      BY <2>4, <3>2, <3>3
  <2>7. CASE UpdateRow(r)
    <3>1. /\ Saved' = Saved
          /\ \/ Defaults' = Defaults
                /\ (~rows[req[r].id].there \/ req[r].default = req[r].found)
             \/ /\ rows[req[r].id].there /\ req[r].default # req[r].found
                /\ Defaults' = IF req[r].default THEN Defaults \cup {req[r].id}
                               ELSE Defaults \ {req[r].id}
      BY <2>3, <2>7, UpdateRowIs
    <3>2. req[r].pc = "update" /\ req[r].id # 0 /\ req[r].id \in 1..Len(rows)
      BY <2>2, <2>3, <2>7, ReqTypes, RowTypes DEF UpdateRow, HandInv
    <3>3. rows[req[r].id].there /\ req[r].found = rows[req[r].id].default
      BY <2>3, <3>2 DEF Knows
    <3>4. req[r].default => req[r].default = req[r].found
      <4>1. SUFFICES ASSUME req[r].default, req[r].default # req[r].found PROVE FALSE
        OBVIOUS
      <4>2. Defaults' = Defaults \cup {req[r].id}
        BY <3>1, <3>3, <4>1
      <4>3. QED
        BY <1>1, <4>2
    <3>5. ~req[r].wrote
      <4>1. SUFFICES ASSUME req[r].wrote PROVE FALSE
        OBVIOUS
      <4>2. req[r].default
        BY <2>2, <2>3, <4>1 DEF HandInv
      <4>3. req[r].id \in Defaults
        BY <3>2, <3>3, <3>4, <4>2 DEF Defaults, Saved, Ids
      <4>4. Defaults' = Defaults
        BY <3>1, <3>4, <4>2
      <4>5. QED
        BY <1>1, <4>3, <4>4
    <3>6. req[r].default = req[r].found
      BY <2>2, <2>3, <3>2, <3>3, <3>5 DEF Knows
    <3>7. Defaults = {}
      BY <1>1, <3>1, <3>6
    <3>8. QED
      BY <1>1, <2>4, <3>1, <3>5, <3>7
  <2>8. CASE Reinsert(r)
    BY <2>3, <2>8 DEF Knows, Reinsert
  <2>9. CASE Delete(r)
    <3>1. CASE req[r].default
      <4>1. req'[r] # Idle
        BY <1>1, <1>9, <2>9, <3>1, WritesIs
      <4>2. QED
        BY <2>1, <4>1 DEF Written
    <3>2. CASE ~req[r].default
      <4>1. Saved' = Saved \ {req[r].id} /\ Defaults' = Defaults \ {req[r].id}
        BY <2>3, <2>9, DeleteIs
      <4>2. ~rows[req[r].id].default /\ ~req[r].wrote
        BY <2>2, <2>3, <2>9, <3>2 DEF Knows, HandInv, Delete
      <4>3. Defaults = {} /\ Saved # {}
        BY <1>1, <4>1, <4>2 DEF Defaults
      <4>4. QED
        BY <2>4, <4>2, <4>3
    <3>3. QED
      BY <3>1, <3>2
  <2>10. QED
    BY <1>9, <2>5, <2>6, <2>7, <2>8, <2>9 DEF Writes
<1>10. CASE UNCHANGED vars
  <2>1. Saved' = Saved /\ Defaults' = Defaults
    BY <1>10 DEF vars, Saved, Defaults, Ids
  <2>2. QED
    BY <1>1, <1>3, <1>10, <2>1 DEF vars
<1>11. QED
  BY <1>1, <1>5, <1>6, <1>7, <1>8, <1>9, <1>10, StepCases

\* A customer with addresses and no request under way has a default, unless
\* requests overlapped, one died between its writes, or isDefault: false was
\* asked for (address.service.ts:33 and 82-91).
THEOREM DefaultIsKept == Spec => []DefaultKept
<1>1. Init => DefaultComing
  BY DefaultsInit
<1>2. Calm /\ DefaultsBounded => Calm
  OBVIOUS
<1>3. TypeInv /\ Calm /\ DefaultComing /\ [Next]_vars => DefaultComing'
  BY ComingNext
<1>4. Spec => []DefaultComing
  BY <1>1, <1>2, <1>3, TypesHold, CalmHolds, PTL DEF Spec
<1>5. DefaultComing => DefaultKept
  BY DEF DefaultComing, DefaultKept
<1>6. QED
  BY <1>4, <1>5, PTL

\* Whatever earlier races left behind, a request to make an address the
\* default during which nobody else writes leaves it the only one
\* (address.service.ts:65-73).
THEOREM SetDefaultLeavesOne == Spec => SetDefaultHeals
<1> DEFINE Heals == \A r \in Reqs :
             /\ req[r].pc \in {"update", "reinsert"} /\ req[r].op = "set_default"
             /\ req'[r] = Idle /\ rows' # rows /\ ~req[r].disturbed
             => Defaults' = {req[r].id}
<1>1. TypeInv /\ Calm /\ [Next]_vars => Heals
  <2>1. SUFFICES ASSUME TypeInv, Calm, [Next]_vars, NEW r \in Reqs,
                        req[r].pc \in {"update", "reinsert"}, req[r].op = "set_default",
                        req'[r] = Idle, rows' # rows, ~req[r].disturbed
                 PROVE  Defaults' = {req[r].id}
    OBVIOUS
  <2>2. TypeOK /\ HandInv(r) /\ req[r] # Idle
    BY <2>1, ReqTypes DEF TypeInv, Steps
  <2>3. Knows(r)
    BY <2>1, <2>2 DEF Calm
  <2>4. req[r].pc = "update" /\ req[r].wrote /\ req[r].default /\ Defaults = {}
    BY <2>1, <2>2, <2>3 DEF Knows, HandInv
  <2>5. PICK p \in Reqs : Arrives(p) \/ Select(p) \/ Promote(p) \/ Fail(p) \/ Writes(p)
    BY <2>1, StepCases DEF vars
  <2>6. Writes(p)
    <3>1. Arrives(p) => rows' = rows
      BY <2>2, ArrivalIs
    <3>2. QED
      BY <2>1, <2>5, <3>1 DEF Select, Promote, Fail
  <2>7. p = r
    <3>1. Written(p)
      BY <2>1, <2>6, WritesIs
    <3>2. QED
      BY <2>1, <2>2, <3>1 DEF Written, Disturbs
  <2>8. UpdateRow(r)
    BY <2>4, <2>6, <2>7 DEF Writes, Clear, Insert, Reinsert, Delete
  <2>9. Defaults' = Defaults \cup {req[r].id}
    BY <2>1, <2>2, <2>4, <2>8, UpdateRowIs
  <2>10. QED
    BY <2>4, <2>9
<1>2. Spec => [][Heals]_vars
  <2>1. Calm /\ DefaultsBounded => Calm
    OBVIOUS
  <2>2. QED
    BY <1>1, <2>1, TypesHold, CalmHolds, PTL DEF Spec
<1>3. QED
  BY <1>2 DEF SetDefaultHeals

=============================================================================
