---------------------------- MODULE ReviewsProofs ----------------------------
(***************************************************************************)
(* Theorems about Reviews, and with it Catalog, for every set of requests, *)
(* customers, SKUs and ratings and every size of the pool.                 *)
(***************************************************************************)
EXTENDS Reviews, TLAPS, FiniteSetTheorems

-----------------------------------------------------------------------------
(* Types.                                                                  *)

Ops == {"create", "add_variant", "update", "remove", "remove_image", "update_variant",
        "create_review", "update_review", "moderate", "delete_review"}

\* Steps of a request that holds a connection.
Holding == {"slug", "insert_product", "lookup", "insert_both", "insert_inventory", "commit",
            "select", "check_slug", "update", "update_variant", "update_review"}

Pcs == Holding \cup Borrows

ProductEntity == [slug: Slugs, sku: Skus \cup {ABSENT}]
Entities == ProductEntity \cup CreateVariantDto \cup ReviewRow \cup {ABSENT}
Founds == ProductRow \cup VariantRow \cup ReviewRow \cup {ABSENT}

Request == [op: Ops, pc: Pcs, tx: BOOLEAN, id: ReviewIds, product: Ids, entity: Entities,
            found: Founds, stats: Stats, crossed: BOOLEAN]

Saving == {"update_review", "moderate"}

\* What q, the request of r, is doing, by its operation.
Fits(q, r) ==
  /\ q \in Request
  /\ q.tx <=> q.pc \in Holding
  /\ q.op = "create" =>
       /\ q.pc \in {"slug", "insert_product", "lookup", "insert_both", "commit"}
       /\ q.id = r /\ q.product = r /\ q.entity \in ProductEntity
       /\ q.pc \in {"lookup", "insert_both"} => q.entity.sku # ABSENT
  /\ q.op = "add_variant" =>
       /\ q.pc \in {"begin", "lookup", "insert_inventory", "commit"}
       /\ q.id = r /\ q.entity \in CreateVariantDto
  /\ q.op = "update" =>
       /\ q.pc \in {"check_slug", "select", "update"}
       /\ q.id = q.product /\ q.entity \in ProductEntity
       /\ q.pc = "update" => q.found \in ProductRow \cup {ABSENT}
  /\ q.op = "remove" => q.pc = "delete" /\ q.id = q.product
  /\ q.op = "remove_image" => q.pc = "delete_image" /\ q.id = q.product
  /\ q.op = "update_variant" =>
       /\ q.pc \in {"select_variant", "update_variant"}
       /\ q.id \in Ids /\ q.entity \in CreateVariantDto
       /\ q.pc = "update_variant" => q.found \in VariantRow \cup {ABSENT}
  /\ q.op = "create_review" =>
       /\ q.pc \in {"insert_review", "aggregate", "store_stats"}
       /\ q.id = r /\ q.entity \in ReviewRow /\ q.entity.product = q.product
  /\ q.op \in Saving =>
       /\ q.pc \in {"select_review", "update_review", "aggregate", "store_stats"}
       /\ q.entity \in ReviewRow /\ q.entity.product = q.product
       /\ q.pc = "update_review" => q.found \in ReviewRow \cup {ABSENT}
  /\ q.op = "delete_review" => q.pc \in {"delete_review", "aggregate", "store_stats"}

RequestsOK ==
  /\ req \in [Reqs -> Request \cup {New, Done}]
  /\ \A r \in Reqs : Busy(r) => Fits(req[r], r)

TablesOK ==
  /\ product \in [Ids -> ProductRow \cup {ABSENT}]
  /\ variant \in [Ids -> VariantRow \cup {ABSENT}]
  /\ review \in [ReviewIds -> ReviewRow \cup {ABSENT}]
  /\ unsure \subseteq Ids

Holders == {r \in Reqs : Busy(r) /\ req[r].tx}

PoolOK == leaked \in 0..PoolSize /\ leaked + Cardinality(Holders) <= PoolSize

Ended == {r \in Reqs : req[r] = Done}

\* generateUniqueSlug passes over a slug only if some product had it once,
\* and apart from the first product's each of these was given by a request
\* that has ended: S are the slugs given so far.
SlugsSuffice ==
  \E S \in SUBSET Slugs :
    /\ \A p \in Product : product[p].slug \in S
    /\ \A r \in Reqs : Busy(r) /\ req[r].op = "create" => 0..(req[r].entity.slug - 1) \subseteq S
    /\ Cardinality(S) <= 1 + Cardinality(Ended)

TypeInv == RequestsOK /\ TablesOK /\ PoolOK /\ SlugsSuffice

-----------------------------------------------------------------------------
(* References.                                                             *)

\* What r creates is there when it has ended, or when its review is inserted.
Made(p) == p \in Reqs => req[p] = Done
Posted(w) == w \in Reqs => req[w] = Done \/ OwesStats(w)

RevisesVariant(r) == Busy(r) /\ req[r].op = "update_variant"
RevisesReview(r) == Busy(r) /\ req[r].op \in Saving \cup {"delete_review"}

\* Nothing is known of a row before it is there.
Names ==
  /\ \A p \in Ids : product[p] # ABSENT \/ <<"product", p>> \in removed => Made(p)
  /\ \A v \in Ids : variant[v] # ABSENT => Made(v)
  /\ \A w \in ReviewIds : review[w] # ABSENT \/ <<"review", w>> \in removed => Posted(w)
  /\ \A r \in Reqs :
       /\ Busy(r) /\ req[r].op \in {"update", "remove", "remove_image", "update_variant"} =>
            Made(req[r].id)
       /\ RevisesReview(r) => Posted(req[r].id)

\* A variant or a review does not change its product, also where it has gone
\* and comes back.
SameProduct ==
  /\ \A r \in Reqs :
       /\ RevisesVariant(r) /\ variant[req[r].id] # ABSENT =>
            variant[req[r].id].product = req[r].product
       /\ RevisesReview(r) /\ review[req[r].id] # ABSENT =>
            review[req[r].id].product = req[r].product
       /\ RevisesReview(r) /\ req[r].pc = "update_review" /\ req[r].found # ABSENT =>
            req[r].found.product = req[r].product
  /\ \A r, q \in Reqs :
       /\ RevisesVariant(r) /\ RevisesVariant(q) /\ req[r].id = req[q].id =>
            req[r].product = req[q].product
       /\ RevisesReview(r) /\ RevisesReview(q) /\ req[r].id = req[q].id =>
            req[r].product = req[q].product

References ==
  /\ \A v \in Ids : variant[v] # ABSENT => variant[v].product \in Product
  /\ \A w \in ReviewIds : review[w] # ABSENT => review[w].product \in Product
  /\ image \subseteq Product
  /\ \A r \in Reqs : VariantPending(r) /\ req[r].op = "add_variant" => req[r].product \in Product

-----------------------------------------------------------------------------
(* Keys.                                                                   *)

\* What is committed, and what a transaction has inserted, is no one else's.
SlugsUnique ==
  /\ \A p, o \in Product : product[p].slug = product[o].slug => p = o
  /\ \A r \in Reqs : ProductPending(r) => ~SlugTaken(req[r].entity.slug, r)
  /\ \A r, q \in Reqs : ProductPending(r) /\ ProductPending(q)
       /\ req[r].entity.slug = req[q].entity.slug => r = q

SkusUnique ==
  /\ \A v, o \in Ids : variant[v] # ABSENT /\ variant[o] # ABSENT =>
       (variant[v].sku = variant[o].sku => v = o)
  /\ \A r \in Reqs : VariantPending(r) => ~SkuTaken(req[r].entity.sku, r)
  /\ \A r, q \in Reqs : VariantPending(r) /\ VariantPending(q)
       /\ req[r].entity.sku = req[q].entity.sku => r = q

ReviewsUnique ==
  \A w, o \in Undeleted :
    review[w].user = review[o].user /\ review[w].product = review[o].product => w = o

-----------------------------------------------------------------------------
(* Deletions.                                                              *)

\* A request that may bring a row back held it when it was deleted.
Holds ==
  \A r \in Reqs :
    /\ Busy(r) /\ req[r].op = "update"
       /\ (product[req[r].id] = ABSENT \/ (req[r].pc = "update" /\ req[r].found = ABSENT)) =>
         <<"product", req[r].id>> \in held
    /\ RevisesVariant(r)
       /\ (variant[req[r].id] = ABSENT \/ (req[r].pc = "update_variant" /\ req[r].found = ABSENT)) =>
         <<"product", req[r].product>> \in removed
    /\ Busy(r) /\ req[r].op \in Saving /\ <<"review", req[r].id>> \in removed =>
         <<"review", req[r].id>> \in held

-----------------------------------------------------------------------------
(* Statistics.                                                             *)

CountsRight ==
  \A r \in Reqs : Busy(r) /\ req[r].pc = "store_stats" /\ ~req[r].crossed =>
    req[r].stats = Aggregate(req[r].product)

-----------------------------------------------------------------------------
(* Steps of the requests.                                                  *)

\* Only that the reviews it has counted have changed may be noted of p.
SameState(p) ==
  /\ req'[p] = New <=> req[p] = New
  /\ req'[p] = Done <=> req[p] = Done
  /\ Busy(p) =>
       /\ req'[p].op = req[p].op /\ req'[p].pc = req[p].pc /\ req'[p].tx = req[p].tx
       /\ req'[p].id = req[p].id /\ req'[p].product = req[p].product
       /\ req'[p].entity = req[p].entity /\ req'[p].found = req[p].found
       /\ req'[p].stats = req[p].stats
       /\ ~req'[p].crossed => ~req[p].crossed

Others(r) == \A p \in Reqs \ {r} : SameState(p)

LEMMA BusyIs ==
  ASSUME RequestsOK, NEW r \in Reqs
  PROVE  /\ Busy(r) => req[r] \in Request /\ Fits(req[r], r)
         /\ req[r].pc \notin {"new", "done"} => Busy(r)
         /\ New # Done
<1>1. req[r] \in Request \cup {New, Done}
  BY DEF RequestsOK
<1>2. Busy(r) => req[r] \in Request /\ Fits(req[r], r)
  BY <1>1 DEF RequestsOK, Busy
<1>3. New.pc = "new" /\ Done.pc = "done"
  BY DEF New, Done
<1>4. New # Done
  BY <1>3
<1>5. req[r].pc \notin {"new", "done"} => Busy(r)
  BY <1>3 DEF Busy
<1>6. QED
  BY <1>2, <1>4, <1>5

LEMMA RequestIsBusy ==
  ASSUME NEW t \in Request
  PROVE  t \notin {New, Done}
<1>1. t.pc \in Pcs
  BY DEF Request
<1>2. "new" \notin Pcs /\ "done" \notin Pcs
  BY DEF Pcs, Holding, Borrows
<1>3. New.pc = "new" /\ Done.pc = "done"
  BY DEF New, Done
<1>4. QED
  BY <1>1, <1>2, <1>3

LEMMA MoveIs ==
  ASSUME RequestsOK, NEW r \in Reqs, NEW t, Fits(t, r) \/ t = Done,
         req' = [req EXCEPT ![r] = t]
  PROVE  /\ RequestsOK' /\ req'[r] = t /\ Others(r)
         /\ \A p \in Reqs \ {r} : req'[p] = req[p]
         /\ t # Done => t \in Request /\ Busy(r)'
<1>1. req'[r] = t /\ \A p \in Reqs \ {r} : req'[p] = req[p]
  BY DEF RequestsOK
<1>2. Others(r)
  BY <1>1 DEF Others, SameState
<1>3. t # Done => t \in Request /\ t \notin {New, Done}
  BY RequestIsBusy DEF Fits
<1>4. req' \in [Reqs -> Request \cup {New, Done}]
  BY <1>3 DEF RequestsOK
<1>5. \A p \in Reqs : req'[p] \notin {New, Done} => Fits(req'[p], p)
  BY <1>1 DEF RequestsOK, Busy
<1>6. RequestsOK'
  BY <1>4, <1>5 DEF RequestsOK, Busy
<1>7. QED
  BY <1>1, <1>2, <1>3, <1>6 DEF Busy

LEMMA CrossedFits ==
  ASSUME NEW p \in Reqs, Fits(req[p], p)
  PROVE  \E u : /\ u = [req[p] EXCEPT !.crossed = TRUE] /\ Fits(u, p)
               /\ u.op = req[p].op /\ u.pc = req[p].pc /\ u.tx = req[p].tx /\ u.id = req[p].id
               /\ u.product = req[p].product /\ u.entity = req[p].entity
               /\ u.found = req[p].found /\ u.stats = req[p].stats /\ u.crossed = TRUE
<1>1. PICK u : u = [req[p] EXCEPT !.crossed = TRUE]
  OBVIOUS
<1>2. req[p] \in Request
  BY DEF Fits
<1>3. /\ u \in Request
      /\ u.op = req[p].op /\ u.pc = req[p].pc /\ u.tx = req[p].tx /\ u.id = req[p].id
      /\ u.product = req[p].product /\ u.entity = req[p].entity
      /\ u.found = req[p].found /\ u.stats = req[p].stats /\ u.crossed = TRUE
  BY <1>1, <1>2 DEF Request
<1>4. Fits(u, p)
  BY <1>3 DEF Fits
<1>5. QED
  BY <1>1, <1>3, <1>4

\* The reviews of k change: who has counted them notes it.
LEMMA CrossMoveIs ==
  ASSUME RequestsOK, NEW r \in Reqs, NEW t, Fits(t, r) \/ t = Done, NEW k,
         req' = [Cross(k) EXCEPT ![r] = t]
  PROVE  /\ RequestsOK' /\ req'[r] = t /\ Others(r)
         /\ \A p \in Reqs \ {r} :
              Busy(p) /\ req[p].pc = "store_stats" /\ req[p].product = k => req'[p].crossed
         /\ t # Done => t \in Request /\ Busy(r)'
<1>1. /\ req'[r] = t
      /\ \A p \in Reqs \ {r} :
           req'[p] = IF Busy(p) /\ req[p].pc = "store_stats" /\ req[p].product = k
                     THEN [req[p] EXCEPT !.crossed = TRUE] ELSE req[p]
  BY DEF Cross
<1>2. ASSUME NEW p \in Reqs \ {r}
      PROVE  /\ SameState(p) /\ req'[p] \in Request \cup {New, Done}
             /\ req'[p] \notin {New, Done} => Fits(req'[p], p)
             /\ Busy(p) /\ req[p].pc = "store_stats" /\ req[p].product = k => req'[p].crossed
  <2>1. CASE Busy(p) /\ req[p].pc = "store_stats" /\ req[p].product = k
    <3>1. Fits(req[p], p)
      BY <2>1, BusyIs
    <3>2. PICK u :
            /\ u = [req[p] EXCEPT !.crossed = TRUE] /\ Fits(u, p)
            /\ u.op = req[p].op /\ u.pc = req[p].pc /\ u.tx = req[p].tx /\ u.id = req[p].id
            /\ u.product = req[p].product /\ u.entity = req[p].entity
            /\ u.found = req[p].found /\ u.stats = req[p].stats /\ u.crossed = TRUE
      BY <3>1, CrossedFits
    <3>3. u \in Request /\ u \notin {New, Done}
      BY <3>2, RequestIsBusy DEF Fits
    <3>4. req'[p] = u
      BY <1>1, <2>1, <3>2
    <3>5. QED
      BY <2>1, <3>2, <3>3, <3>4 DEF SameState, Busy
  <2>2. CASE ~(Busy(p) /\ req[p].pc = "store_stats" /\ req[p].product = k)
    <3>1. req'[p] = req[p]
      BY <1>1, <2>2
    <3>2. QED
      BY <2>2, <3>1 DEF SameState, RequestsOK, Busy
  <2>3. QED
    BY <2>1, <2>2
<1>3. t # Done => t \in Request /\ t \notin {New, Done}
  BY RequestIsBusy DEF Fits
<1>4. req' \in [Reqs -> Request \cup {New, Done}]
  <2>1. \A p \in Reqs : req'[p] \in Request \cup {New, Done}
    BY <1>1, <1>2, <1>3
  <2>2. QED
    BY <2>1 DEF Cross
<1>5. RequestsOK'
  BY <1>1, <1>2, <1>3, <1>4 DEF RequestsOK, Busy
<1>6. QED
  BY <1>1, <1>2, <1>3, <1>5 DEF Others, Busy

\* What a request knows as it begins.
Begun(t) ==
  \/ t.op = "create" /\ t.pc = "slug" /\ t.entity.slug = 0
  \/ t.op = "add_variant" /\ t.pc = "begin"
  \/ t.op = "update" /\ t.pc \in {"select", "check_slug"} /\ t.id \in Product
  \/ t.op = "remove" /\ t.pc = "delete" /\ t.id \in Product
  \/ t.op = "remove_image" /\ t.pc = "delete_image" /\ t.id \in Product
  \/ /\ t.op = "update_variant" /\ t.pc = "select_variant"
     /\ variant[t.id] # ABSENT /\ variant[t.id].product = t.product
  \/ t.op = "create_review" /\ t.pc = "insert_review"
  \/ /\ t.op \in Saving /\ t.pc = "select_review" /\ t.id \in Undeleted
     /\ review[t.id].product = t.product
  \/ /\ t.op = "delete_review" /\ t.pc = "delete_review" /\ t.id \in Undeleted
     /\ review[t.id].product = t.product

Arrives(r) == CatalogRequest(r) \/ ReviewRequest(r)

LEMMA Constants ==
  /\ 0 \in Slugs /\ Cardinality(Reqs) \in Nat /\ ABSENT \notin Skus /\ NoStats \in Stats
  /\ NewSlugs \subseteq Slugs
<1>1. Cardinality(Reqs) \in Nat
  BY CatalogAssumption, FS_CardinalityType
<1>2. 0 \in Slugs
  BY <1>1 DEF Slugs
<1>3. QED
  BY <1>1, <1>2, CatalogAssumption, AbsentAssumption DEF Slugs, Stats, NoStats

\* A request begins as record t.
Starts(r, t) ==
  /\ req[r] = New /\ req' = [req EXCEPT ![r] = t]
  /\ Fits(t, r) /\ Begun(t) /\ Free
  /\ UNCHANGED <<rows, leaked, history>>

LEMMA CreateStarts ==
  ASSUME NEW r \in Reqs, PostProduct(r)
  PROVE  \E t : Starts(r, t)
<1>1. PICK dto \in CreateProductDto : Create(r, dto)
  BY DEF PostProduct
<1>2. PICK t : t = Begin("create", "slug", TRUE, r, r, dto)
  OBVIOUS
<1>3. dto \in ProductEntity /\ dto.slug = 0
  BY <1>1, Constants DEF CreateProductDto, ProductEntity
<1>4. /\ t \in Request /\ t.op = "create" /\ t.pc = "slug" /\ t.tx = TRUE /\ t.id = r
      /\ t.product = r /\ t.entity = dto
  BY <1>2, <1>3, Constants
     DEF Begin, Request, Ops, Pcs, Holding, ReviewIds, Ids, Entities, Founds
<1>5. Fits(t, r)
  BY <1>3, <1>4 DEF Fits, Holding, Saving
<1>6. Begun(t)
  BY <1>3, <1>4 DEF Begun
<1>7. QED
  BY <1>1, <1>2, <1>5, <1>6 DEF Starts, Create

LEMMA UpdateStarts ==
  ASSUME TablesOK, NEW r \in Reqs, PatchProduct(r)
  PROVE  \E t : Starts(r, t)
<1>1. PICK p \in Product, s \in NewSlugs : Update(r, p, s)
  BY DEF PatchProduct
<1>2. p \in Ids /\ product[p] \in ProductRow
  BY DEF Product, TablesOK
<1>3. PICK e : e = [slug |-> s, sku |-> ABSENT]
  OBVIOUS
<1>4. e \in ProductEntity /\ product[p].stats \in Stats
  BY <1>2, <1>3, Constants DEF ProductEntity, ProductRow
<1>5. PICK t : t = [Begin("update", IF s = product[p].slug THEN "select" ELSE "check_slug",
                          TRUE, p, p, e) EXCEPT !.stats = product[p].stats]
  OBVIOUS
<1>6. /\ t.op = "update" /\ t.pc \in {"select", "check_slug"} /\ t.tx = TRUE /\ t.id = p
      /\ t.product = p /\ t.entity = e /\ t \in Request
  BY <1>2, <1>4, <1>5, Constants
     DEF Begin, Request, Ops, Pcs, Holding, ReviewIds, Entities, Founds
<1>7. Fits(t, r)
  BY <1>4, <1>6 DEF Fits, Holding, Saving
<1>8. Begun(t)
  BY <1>6 DEF Begun
<1>9. QED
  BY <1>1, <1>3, <1>5, <1>7, <1>8 DEF Starts, Update

LEMMA RemoveStarts ==
  ASSUME TablesOK, NEW r \in Reqs, DeleteProductById(r)
  PROVE  \E t : Starts(r, t)
<1>1. PICK p \in Product : Remove(r, p)
  BY DEF DeleteProductById
<1>2. p \in Ids
  BY DEF Product
<1>3. PICK t : t = Begin("remove", "delete", FALSE, p, p, ABSENT)
  OBVIOUS
<1>4. /\ t.op = "remove" /\ t.pc = "delete" /\ t.tx = FALSE /\ t.id = p
      /\ t.product = p /\ t \in Request
  BY <1>2, <1>3, Constants
     DEF Begin, Request, Ops, Pcs, Borrows, ReviewIds, Entities, Founds
<1>5. Fits(t, r)
  BY <1>4 DEF Fits, Holding, Saving
<1>6. Begun(t)
  BY <1>4 DEF Begun
<1>7. QED
  BY <1>1, <1>3, <1>5, <1>6 DEF Starts, Remove

LEMMA RemoveImageStarts ==
  ASSUME TablesOK, NEW r \in Reqs, DeleteImageById(r)
  PROVE  \E t : Starts(r, t)
<1>1. PICK p \in Product : RemoveImage(r, p)
  BY DEF DeleteImageById
<1>2. p \in Ids
  BY DEF Product
<1>3. PICK t : t = Begin("remove_image", "delete_image", FALSE, p, p, ABSENT)
  OBVIOUS
<1>4. /\ t.op = "remove_image" /\ t.pc = "delete_image" /\ t.tx = FALSE /\ t.id = p
      /\ t.product = p /\ t \in Request
  BY <1>2, <1>3, Constants
     DEF Begin, Request, Ops, Pcs, Borrows, ReviewIds, Entities, Founds
<1>5. Fits(t, r)
  BY <1>4 DEF Fits, Holding, Saving
<1>6. Begun(t)
  BY <1>4 DEF Begun
<1>7. QED
  BY <1>1, <1>3, <1>5, <1>6 DEF Starts, RemoveImage

LEMMA AddVariantStarts ==
  ASSUME TablesOK, NEW r \in Reqs, PostVariant(r)
  PROVE  \E t : Starts(r, t)
<1>1. PICK p \in Product, dto \in CreateVariantDto : AddVariant(r, p, dto)
  BY DEF PostVariant
<1>2. p \in Ids
  BY DEF Product
<1>3. PICK t : t = Begin("add_variant", "begin", FALSE, r, p, dto)
  OBVIOUS
<1>4. /\ t.op = "add_variant" /\ t.pc = "begin" /\ t.tx = FALSE /\ t.id = r
      /\ t.product = p /\ t.entity = dto /\ t \in Request
  BY <1>2, <1>3, Constants
     DEF Begin, Request, Ops, Pcs, Borrows, ReviewIds, Ids, Entities, Founds
<1>5. Fits(t, r)
  BY <1>4 DEF Fits, Holding, Saving
<1>6. Begun(t)
  BY <1>4 DEF Begun
<1>7. QED
  BY <1>1, <1>3, <1>5, <1>6 DEF Starts, AddVariant

LEMMA UpdateVariantStarts ==
  ASSUME TablesOK, NEW r \in Reqs, PatchVariant(r)
  PROVE  \E t : Starts(r, t)
<1>1. PICK v \in Ids, dto \in CreateVariantDto : UpdateVariant(r, v, dto)
  BY DEF PatchVariant
<1>2. variant[v] # ABSENT /\ variant[v].product \in Ids
  BY <1>1 DEF UpdateVariant, TablesOK, VariantRow
<1>3. PICK t : t = Begin("update_variant", "select_variant", FALSE, v, variant[v].product, dto)
  OBVIOUS
<1>4. /\ t.op = "update_variant" /\ t.pc = "select_variant" /\ t.tx = FALSE /\ t.id = v
      /\ t.product = variant[v].product /\ t.entity = dto /\ t \in Request
  BY <1>2, <1>3, Constants
     DEF Begin, Request, Ops, Pcs, Borrows, ReviewIds, Entities, Founds
<1>5. Fits(t, r)
  BY <1>4 DEF Fits, Holding, Saving
<1>6. Begun(t)
  BY <1>2, <1>4 DEF Begun
<1>7. QED
  BY <1>1, <1>3, <1>5, <1>6 DEF Starts, UpdateVariant

LEMMA CreateReviewStarts ==
  ASSUME TablesOK, NEW r \in Reqs, PostReview(r)
  PROVE  \E t : Starts(r, t)
<1>1. PICK u \in Users, p \in Product, dto \in CreateReviewDto : CreateReview(r, u, p, dto)
  BY DEF PostReview
<1>2. PICK e : e = [user |-> u, product |-> p, rating |-> dto.rating, approved |-> TRUE,
                    deleted |-> FALSE]
  OBVIOUS
<1>3. p \in Ids /\ e \in ReviewRow /\ e.product = p
  BY <1>2 DEF Product, ReviewRow, CreateReviewDto
<1>4. PICK t : t = Begin("create_review", "insert_review", FALSE, r, p, e)
  OBVIOUS
<1>5. /\ t.op = "create_review" /\ t.pc = "insert_review" /\ t.tx = FALSE /\ t.id = r
      /\ t.product = p /\ t.entity = e /\ t \in Request
  BY <1>3, <1>4, Constants
     DEF Begin, Request, Ops, Pcs, Borrows, ReviewIds, Ids, Entities, Founds
<1>6. Fits(t, r)
  BY <1>3, <1>5 DEF Fits, Holding, Saving
<1>7. Begun(t)
  BY <1>5 DEF Begun
<1>8. QED
  BY <1>1, <1>2, <1>4, <1>6, <1>7 DEF Starts, CreateReview

LEMMA ChangeReviewStarts ==
  ASSUME TablesOK, NEW r \in Reqs, NEW w \in ReviewIds, NEW op \in Saving, NEW e \in ReviewRow,
         e.product = review[w].product, ChangeReview(r, w, op, e)
  PROVE  \E t : Starts(r, t)
<1>1. w \in Undeleted /\ review[w].product \in Ids
  BY DEF ChangeReview, FindReview, Undeleted, TablesOK, ReviewRow
<1>2. PICK t : t = Begin(op, "select_review", FALSE, w, review[w].product, e)
  OBVIOUS
<1>3. /\ t.op = op /\ t.pc = "select_review" /\ t.tx = FALSE /\ t.id = w
      /\ t.product = review[w].product /\ t.entity = e /\ t \in Request
  BY <1>1, <1>2, Constants
     DEF Begin, Request, Ops, Pcs, Borrows, Entities, Founds, Saving
<1>4. Fits(t, r)
  BY <1>3 DEF Fits, Holding, Saving
<1>5. Begun(t)
  BY <1>1, <1>3 DEF Begun
<1>6. QED
  BY <1>2, <1>4, <1>5 DEF Starts, ChangeReview

LEMMA DeleteReviewStarts ==
  ASSUME TablesOK, NEW r \in Reqs, DeleteReviewById(r)
  PROVE  \E t : Starts(r, t)
<1>1. PICK w \in ReviewIds : DeleteReview(r, w)
  BY DEF DeleteReviewById
<1>2. w \in Undeleted /\ review[w].product \in Ids
  BY <1>1 DEF DeleteReview, FindReview, Undeleted, TablesOK, ReviewRow
<1>3. PICK t : t = Begin("delete_review", "delete_review", FALSE, w, review[w].product, ABSENT)
  OBVIOUS
<1>4. /\ t.op = "delete_review" /\ t.pc = "delete_review" /\ t.tx = FALSE /\ t.id = w
      /\ t.product = review[w].product /\ t \in Request
  BY <1>2, <1>3, Constants
     DEF Begin, Request, Ops, Pcs, Borrows, Entities, Founds
<1>5. Fits(t, r)
  BY <1>4 DEF Fits, Holding, Saving
<1>6. Begun(t)
  BY <1>2, <1>4 DEF Begun
<1>7. QED
  BY <1>1, <1>3, <1>5, <1>6 DEF Starts, DeleteReview

LEMMA ArrivalIs ==
  ASSUME TablesOK, NEW r \in Reqs, Arrives(r)
  PROVE  \E t : Starts(r, t)
<1>1. ASSUME PatchReview(r) PROVE \E t : Starts(r, t)
  <2>1. PICK w \in ReviewIds, n \in Ratings : UpdateReview(r, w, n)
    BY <1>1 DEF PatchReview
  <2>2. PICK e : e = [review[w] EXCEPT !.rating = n, !.deleted = FALSE]
    OBVIOUS
  <2>3. ChangeReview(r, w, "update_review", e)
    BY <2>1, <2>2 DEF UpdateReview
  <2>4. review[w] \in ReviewRow
    BY <2>3 DEF ChangeReview, FindReview, Undeleted, TablesOK
  <2>5. e \in ReviewRow /\ e.product = review[w].product
    BY <2>2, <2>4 DEF ReviewRow
  <2>6. "update_review" \in Saving
    BY DEF Saving
  <2>7. QED
    BY <2>3, <2>5, <2>6, ChangeReviewStarts
<1>2. ASSUME Moderate(r) PROVE \E t : Starts(r, t)
  <2>1. PICK w \in ReviewIds, ok \in BOOLEAN : AdminUpdateReview(r, w, ok)
    BY <1>2 DEF Moderate
  <2>2. PICK e : e = [review[w] EXCEPT !.approved = ok, !.deleted = FALSE]
    OBVIOUS
  <2>3. ChangeReview(r, w, "moderate", e)
    BY <2>1, <2>2 DEF AdminUpdateReview
  <2>4. review[w] \in ReviewRow
    BY <2>3 DEF ChangeReview, FindReview, Undeleted, TablesOK
  <2>5. e \in ReviewRow /\ e.product = review[w].product
    BY <2>2, <2>4 DEF ReviewRow
  <2>6. "moderate" \in Saving
    BY DEF Saving
  <2>7. QED
    BY <2>3, <2>5, <2>6, ChangeReviewStarts
<1>3. QED
  BY <1>1, <1>2, CreateStarts, UpdateStarts, RemoveStarts, RemoveImageStarts, AddVariantStarts,
     UpdateVariantStarts, CreateReviewStarts, DeleteReviewStarts
     DEF Arrives, CatalogRequest, ReviewRequest

-----------------------------------------------------------------------------
(* Steps that change no row.                                               *)

LEMMA IdsFinite ==
  /\ IsFiniteSet(Ids) /\ IsFiniteSet(ReviewIds)
<1>1. IsFiniteSet({FIRST})
  BY FS_Singleton
<1>2. IsFiniteSet(Ids)
  BY <1>1, CatalogAssumption, FS_Union DEF Ids
<1>3. IsFiniteSet(ReviewIds)
  BY <1>2, CatalogAssumption, FS_Union DEF ReviewIds
<1>4. QED
  BY <1>2, <1>3

LEMMA CountsAreNumbers ==
  ASSUME NEW S \in SUBSET ReviewIds
  PROVE  IsFiniteSet(S) /\ Cardinality(S) \in Nat
<1>1. IsFiniteSet(S)
  BY IdsFinite, FS_Subset
<1>2. QED
  BY <1>1, FS_CardinalityType

LEMMA AggregateIs == ASSUME NEW p PROVE Aggregate(p) \in Stats
<1> DEFINE Given(n) == {w \in Counted(p) : review[w].rating >= n}
<1>1. Counted(p) \subseteq ReviewIds
  BY DEF Counted, Undeleted
<1>2. Cardinality(Counted(p)) \in Nat
  BY <1>1, CountsAreNumbers
<1>3. \A n : Given(n) \subseteq ReviewIds
  BY <1>1
<1>4. \A n : Cardinality(Given(n)) \in Nat
  BY <1>3, CountsAreNumbers
<1>5. Aggregate(p) = [count |-> Cardinality(Counted(p)),
        sum |-> Cardinality(Given(1)) + Cardinality(Given(2)) + Cardinality(Given(3))
                + Cardinality(Given(4)) + Cardinality(Given(5))]
  BY DEF Aggregate
<1> HIDE DEF Given
<1>6. PICK n \in Nat : n = Cardinality(Given(1)) + Cardinality(Given(2)) + Cardinality(Given(3))
                           + Cardinality(Given(4)) + Cardinality(Given(5))
  BY <1>4
<1>7. QED
  BY <1>2, <1>5, <1>6 DEF Stats

\* A candidate that is taken is not the last: S holds it and all before it,
\* and each slug of S but one was given by a request that has ended.
LEMMA SlugLeft ==
  ASSUME RequestsOK, SlugsSuffice, NEW r \in Reqs, req[r].pc = "slug",
         req[r].entity.slug \in Slugs, req[r].op = "create", SlugTaken(req[r].entity.slug, r)
  PROVE  req[r].entity.slug + 1 \in Slugs
<1>1. PICK s : s = req[r].entity.slug
  OBVIOUS
<1>2. s \in Nat /\ Cardinality(Reqs) \in Nat
  BY <1>1, Constants DEF Slugs
<1>3. Busy(r)
  BY BusyIs
<1>4. PICK S \in SUBSET Slugs :
        /\ \A p \in Product : product[p].slug \in S
        /\ 0..(s - 1) \subseteq S
        /\ Cardinality(S) <= 1 + Cardinality(Ended)
  BY <1>1, <1>3 DEF SlugsSuffice
<1>5. 0..s \subseteq S
  <2>1. s \in S
    BY <1>1, <1>4 DEF SlugTaken
  <2>2. QED
    BY <1>2, <1>4, <2>1
<1>6. Cardinality(0..s) = s + 1
  BY <1>2, FS_Interval
<1>7. IsFiniteSet(S) /\ Cardinality(S) \in Nat
  <2>1. IsFiniteSet(Slugs)
    BY <1>2, FS_Interval DEF Slugs
  <2>2. QED
    BY <2>1, FS_Subset, FS_CardinalityType
<1>8. s + 1 <= Cardinality(S)
  BY <1>5, <1>6, <1>7, FS_Subset
<1>9. Cardinality(Ended) \in Nat /\ Cardinality(Ended) <= Cardinality(Reqs) - 1
  <2>1. r \notin Ended
    BY <1>3 DEF Ended, Busy
  <2>2. Ended \subseteq Reqs \ {r}
    BY <2>1 DEF Ended
  <2>3. IsFiniteSet(Reqs \ {r}) /\ Cardinality(Reqs \ {r}) = Cardinality(Reqs) - 1
    BY CatalogAssumption, FS_RemoveElement
  <2>4. IsFiniteSet(Ended) /\ Cardinality(Ended) <= Cardinality(Reqs) - 1
    BY <2>2, <2>3, FS_Subset
  <2>5. QED
    BY <2>4, FS_CardinalityType
<1>10. s + 1 <= Cardinality(Reqs)
  BY <1>2, <1>4, <1>7, <1>8, <1>9
<1>11. QED
  BY <1>1, <1>2, <1>10 DEF Slugs

\* From what r goes on with t, and what it has found out.
Goes(r, t) ==
  /\ Busy(r) /\ t.op = req[r].op /\ t.id = req[r].id /\ t.product = req[r].product
  /\ \/ /\ req[r].pc = "slug" /\ t.pc = "slug" /\ req[r].op = "create"
        /\ SlugTaken(req[r].entity.slug, r) /\ t.entity.slug = req[r].entity.slug + 1
     \/ /\ t.entity = req[r].entity
        /\ \/ req[r].pc = "slug" /\ t.pc = "insert_product"
           \/ /\ req[r].pc = "insert_product" /\ req[r].op = "create"
              /\ t.pc = IF req[r].entity.sku = ABSENT THEN "commit" ELSE "lookup"
              /\ ~SlugPending(req[r].entity.slug, r) /\ ~SlugTaken(req[r].entity.slug, r)
           \/ req[r].pc = "lookup" /\ t.pc \in {"insert_both", "insert_inventory"}
           \/ /\ req[r].pc = "insert_both" /\ t.pc = "commit" /\ req[r].op = "create"
              /\ ~SkuPending(req[r].entity.sku, r) /\ ~SkuTaken(req[r].entity.sku, r)
           \/ /\ req[r].pc = "begin" /\ t.pc = "lookup" /\ req[r].op = "add_variant"
              /\ ~SkuPending(req[r].entity.sku, r) /\ ~SkuTaken(req[r].entity.sku, r)
              /\ req[r].product \in Product
           \/ req[r].pc = "insert_inventory" /\ t.pc = "commit" /\ req[r].op = "add_variant"
           \/ req[r].pc = "check_slug" /\ t.pc = "select"
           \/ req[r].pc = "select" /\ t.pc = "update" /\ t.found = product[req[r].id]
           \/ req[r].pc = "select_variant" /\ t.pc = "update_variant" /\ t.found = variant[req[r].id]
           \/ req[r].pc = "select_review" /\ t.pc = "update_review" /\ t.found = review[req[r].id]
           \/ req[r].pc = "aggregate" /\ t.pc = "store_stats" /\ t.stats = Aggregate(req[r].product)

GoesOn(r, t) ==
  /\ req' = [req EXCEPT ![r] = t] /\ Fits(t, r) /\ Goes(r, t)
  /\ UNCHANGED <<rows, history>>
  /\ \/ leaked' = leaked /\ (t.pc \in Holding => req[r].pc \in Holding \/ Free)
     \/ leaked' = leaked + 1 /\ Free /\ req[r].pc \in Holding

LEMMA GotoIs ==
  ASSUME RequestsOK, NEW r \in Reqs, Busy(r), NEW pc \in Pcs, Goto(r, pc)
  PROVE  \E t : /\ req' = [req EXCEPT ![r] = t] /\ t \in Request /\ t.pc = pc
                /\ t.op = req[r].op /\ t.tx = req[r].tx /\ t.id = req[r].id
                /\ t.product = req[r].product /\ t.entity = req[r].entity
                /\ t.found = req[r].found /\ t.stats = req[r].stats
<1>1. PICK t : t = [req[r] EXCEPT !.pc = pc]
  OBVIOUS
<1>2. req[r] \in Request
  BY BusyIs
<1>3. /\ t \in Request /\ t.pc = pc
      /\ t.op = req[r].op /\ t.tx = req[r].tx /\ t.id = req[r].id
      /\ t.product = req[r].product /\ t.entity = req[r].entity
      /\ t.found = req[r].found /\ t.stats = req[r].stats
  BY <1>1, <1>2 DEF Request
<1>4. req' = [req EXCEPT ![r] = t]
  BY <1>1 DEF Goto
<1>5. QED
  BY <1>3, <1>4

LEMMA TrySlugIs ==
  ASSUME TypeInv, NEW r \in Reqs, TrySlug(r)
  PROVE  \E t : GoesOn(r, t)
<1>1. Busy(r) /\ req[r].pc = "slug" /\ Fits(req[r], r)
  BY BusyIs DEF TypeInv, TrySlug
<1>2. req[r].op = "create" /\ req[r] \in Request /\ req[r].entity \in ProductEntity
  BY <1>1 DEF Fits, Request, Ops, Saving
<1>3. UNCHANGED <<rows, history>> /\ leaked' = leaked
  BY DEF TrySlug
<1>4. CASE SlugTaken(req[r].entity.slug, r)
  <2>1. PICK t : t = [req[r] EXCEPT !.entity.slug = req[r].entity.slug + 1]
    OBVIOUS
  <2>2. req' = [req EXCEPT ![r] = t]
    BY <1>4, <2>1 DEF TrySlug
  <2>3. req[r].entity.slug + 1 \in Slugs
    <3>1. req[r].entity.slug \in Slugs
      BY <1>2 DEF ProductEntity
    <3>2. QED
      BY <1>1, <1>2, <1>4, <3>1, SlugLeft DEF TypeInv
  <2>4. PICK e : e = [req[r].entity EXCEPT !.slug = req[r].entity.slug + 1]
    OBVIOUS
  <2>5. e \in ProductEntity /\ e.slug = req[r].entity.slug + 1
    BY <1>2, <2>3, <2>4 DEF ProductEntity
  <2>6. t = [req[r] EXCEPT !.entity = e]
    BY <1>2, <2>1, <2>4 DEF Request
  <2>7. /\ t.pc = "slug" /\ t.op = "create" /\ t.tx = req[r].tx /\ t.id = req[r].id
        /\ t.product = req[r].product /\ t.entity = e /\ t \in Request
    BY <1>1, <1>2, <2>5, <2>6 DEF Request, Entities
  <2>8. Fits(t, r)
    BY <1>1, <1>2, <2>5, <2>7 DEF Fits, Saving
  <2>9. Goes(r, t)
    BY <1>1, <1>2, <1>4, <2>5, <2>7 DEF Goes
  <2>10. QED
    BY <1>1, <1>3, <2>2, <2>7, <2>8, <2>9 DEF GoesOn
<1>5. CASE ~SlugTaken(req[r].entity.slug, r)
  <2>1. Goto(r, "insert_product")
    BY <1>5 DEF TrySlug, Goto
  <2>2. "insert_product" \in Pcs /\ "insert_product" \in Holding /\ "slug" \in Holding
    BY DEF Pcs, Holding
  <2>3. PICK t : /\ req' = [req EXCEPT ![r] = t] /\ t \in Request /\ t.pc = "insert_product"
                 /\ t.op = req[r].op /\ t.tx = req[r].tx /\ t.id = req[r].id
                 /\ t.product = req[r].product /\ t.entity = req[r].entity
    BY <1>1, <2>1, <2>2, GotoIs DEF TypeInv
  <2>4. Fits(t, r)
    BY <1>1, <1>2, <2>2, <2>3 DEF Fits, Saving
  <2>5. Goes(r, t)
    BY <1>1, <1>2, <2>3 DEF Goes
  <2>6. QED
    BY <1>1, <1>3, <2>2, <2>3, <2>4, <2>5 DEF GoesOn
<1>6. QED
  BY <1>4, <1>5

LEMMA InsertProductIs ==
  ASSUME TypeInv, NEW r \in Reqs, InsertProduct(r)
  PROVE  Abort(r) \/ \E t : GoesOn(r, t)
<1>1. Busy(r) /\ req[r].pc = "insert_product" /\ Fits(req[r], r)
  BY BusyIs DEF TypeInv, InsertProduct
<1>2. req[r].op = "create" /\ req[r] \in Request
  BY <1>1 DEF Fits, Request, Ops, Saving
<1>3. SUFFICES ASSUME ~SlugTaken(req[r].entity.slug, r) PROVE \E t : GoesOn(r, t)
  BY DEF InsertProduct
<1>4. UNCHANGED <<rows, history>> /\ leaked' = leaked /\ ~SlugPending(req[r].entity.slug, r)
  BY <1>3 DEF InsertProduct
<1>5. PICK pc : pc = IF req[r].entity.sku = ABSENT THEN "commit" ELSE "lookup"
  OBVIOUS
<1>6. Goto(r, pc)
  BY <1>3, <1>5 DEF InsertProduct
<1>7. pc \in Pcs /\ pc \in Holding /\ "insert_product" \in Holding
  BY <1>5 DEF Pcs, Holding
<1>8. PICK t : /\ req' = [req EXCEPT ![r] = t] /\ t \in Request /\ t.pc = pc
               /\ t.op = req[r].op /\ t.tx = req[r].tx /\ t.id = req[r].id
               /\ t.product = req[r].product /\ t.entity = req[r].entity
  BY <1>1, <1>6, <1>7, GotoIs DEF TypeInv
<1>9. Fits(t, r)
  BY <1>1, <1>2, <1>5, <1>7, <1>8 DEF Fits, Saving
<1>10. Goes(r, t)
  BY <1>1, <1>2, <1>3, <1>4, <1>5, <1>8 DEF Goes
<1>11. QED
  BY <1>1, <1>4, <1>7, <1>8, <1>9, <1>10 DEF GoesOn

LEMMA GetDefaultWarehouseIdIs ==
  ASSUME TypeInv, NEW r \in Reqs, GetDefaultWarehouseId(r)
  PROVE  \E t : GoesOn(r, t)
<1>1. Busy(r) /\ req[r].pc = "lookup" /\ Fits(req[r], r)
  BY BusyIs DEF TypeInv, GetDefaultWarehouseId
<1>2. req[r].op \in {"create", "add_variant"} /\ req[r] \in Request
  BY <1>1 DEF Fits, Request, Ops, Saving
<1>3. UNCHANGED <<rows, history>> /\ leaked' = leaked + 1 /\ Free
  BY DEF GetDefaultWarehouseId
<1>4. PICK pc : pc = IF req[r].op = "create" THEN "insert_both" ELSE "insert_inventory"
  OBVIOUS
<1>5. Goto(r, pc)
  BY <1>4 DEF GetDefaultWarehouseId
<1>6. pc \in Pcs /\ pc \in Holding /\ "lookup" \in Holding
  BY <1>4 DEF Pcs, Holding
<1>7. PICK t : /\ req' = [req EXCEPT ![r] = t] /\ t \in Request /\ t.pc = pc
               /\ t.op = req[r].op /\ t.tx = req[r].tx /\ t.id = req[r].id
               /\ t.product = req[r].product /\ t.entity = req[r].entity
  BY <1>1, <1>5, <1>6, GotoIs DEF TypeInv
<1>8. Fits(t, r)
  BY <1>1, <1>2, <1>4, <1>6, <1>7 DEF Fits, Saving
<1>9. Goes(r, t)
  BY <1>1, <1>4, <1>7 DEF Goes
<1>10. QED
  BY <1>1, <1>3, <1>6, <1>7, <1>8, <1>9 DEF GoesOn

LEMMA InsertBothIs ==
  ASSUME TypeInv, NEW r \in Reqs, InsertVariantAndInventory(r)
  PROVE  Abort(r) \/ \E t : GoesOn(r, t)
<1>1. Busy(r) /\ req[r].pc = "insert_both" /\ Fits(req[r], r)
  BY BusyIs DEF TypeInv, InsertVariantAndInventory
<1>2. req[r].op = "create" /\ req[r] \in Request
  BY <1>1 DEF Fits, Request, Ops, Saving
<1>3. SUFFICES ASSUME ~SkuTaken(req[r].entity.sku, r) PROVE \E t : GoesOn(r, t)
  BY DEF InsertVariantAndInventory
<1>4. /\ UNCHANGED <<rows, history>> /\ leaked' = leaked /\ ~SkuPending(req[r].entity.sku, r)
      /\ Goto(r, "commit")
  BY <1>3 DEF InsertVariantAndInventory
<1>5. "commit" \in Pcs /\ "commit" \in Holding /\ "insert_both" \in Holding
  BY DEF Pcs, Holding
<1>6. PICK t : /\ req' = [req EXCEPT ![r] = t] /\ t \in Request /\ t.pc = "commit"
               /\ t.op = req[r].op /\ t.tx = req[r].tx /\ t.id = req[r].id
               /\ t.product = req[r].product /\ t.entity = req[r].entity
  BY <1>1, <1>4, <1>5, GotoIs DEF TypeInv
<1>7. Fits(t, r)
  BY <1>1, <1>2, <1>5, <1>6 DEF Fits, Saving
<1>8. Goes(r, t)
  BY <1>1, <1>2, <1>3, <1>4, <1>6 DEF Goes
<1>9. QED
  BY <1>1, <1>4, <1>5, <1>6, <1>7, <1>8 DEF GoesOn

LEMMA InsertVariantIs ==
  ASSUME TypeInv, NEW r \in Reqs, InsertVariant(r)
  PROVE  Abort(r) \/ \E t : GoesOn(r, t)
<1>1. Busy(r) /\ req[r].pc = "begin" /\ Fits(req[r], r)
  BY BusyIs DEF TypeInv, InsertVariant
<1>2. req[r].op = "add_variant" /\ req[r] \in Request
  BY <1>1 DEF Fits, Request, Ops, Saving
<1>3. SUFFICES ASSUME ~SkuTaken(req[r].entity.sku, r), req[r].product \in Product
               PROVE  \E t : GoesOn(r, t)
  BY DEF InsertVariant
<1>4. /\ UNCHANGED <<rows, history>> /\ leaked' = leaked /\ ~SkuPending(req[r].entity.sku, r) /\ Free
      /\ req' = [req EXCEPT ![r].pc = "lookup", ![r].tx = TRUE]
  BY <1>3 DEF InsertVariant
<1>5. PICK t : t = [req[r] EXCEPT !.pc = "lookup", !.tx = TRUE]
  OBVIOUS
<1>6. "lookup" \in Pcs /\ "lookup" \in Holding
  BY DEF Pcs, Holding
<1>7. /\ t \in Request /\ t.pc = "lookup"
      /\ t.op = req[r].op /\ t.tx = TRUE /\ t.id = req[r].id
      /\ t.product = req[r].product /\ t.entity = req[r].entity
  BY <1>2, <1>5, <1>6 DEF Request
<1>8. req' = [req EXCEPT ![r] = t]
  BY <1>4, <1>5 DEF RequestsOK, TypeInv
<1>9. Fits(t, r)
  BY <1>1, <1>2, <1>6, <1>7 DEF Fits, Saving
<1>10. Goes(r, t)
  BY <1>1, <1>2, <1>3, <1>4, <1>7 DEF Goes
<1>11. QED
  BY <1>1, <1>4, <1>7, <1>8, <1>9, <1>10 DEF GoesOn

LEMMA InsertInventoryIs ==
  ASSUME TypeInv, NEW r \in Reqs, InsertInventory(r)
  PROVE  \E t : GoesOn(r, t)
<1>1. Busy(r) /\ req[r].pc = "insert_inventory" /\ Fits(req[r], r)
  BY BusyIs DEF TypeInv, InsertInventory
<1>2. req[r].op = "add_variant" /\ req[r] \in Request
  BY <1>1 DEF Fits, Request, Ops, Saving
<1>3. UNCHANGED <<rows, history>> /\ leaked' = leaked /\ Goto(r, "commit")
  BY DEF InsertInventory
<1>4. "commit" \in Pcs /\ "commit" \in Holding /\ "insert_inventory" \in Holding
  BY DEF Pcs, Holding
<1>5. PICK t : /\ req' = [req EXCEPT ![r] = t] /\ t \in Request /\ t.pc = "commit"
               /\ t.op = req[r].op /\ t.tx = req[r].tx /\ t.id = req[r].id
               /\ t.product = req[r].product /\ t.entity = req[r].entity
  BY <1>1, <1>3, <1>4, GotoIs DEF TypeInv
<1>6. Fits(t, r)
  BY <1>1, <1>2, <1>4, <1>5 DEF Fits, Saving
<1>7. Goes(r, t)
  BY <1>1, <1>2, <1>5 DEF Goes
<1>8. QED
  BY <1>1, <1>3, <1>4, <1>5, <1>6, <1>7 DEF GoesOn

LEMMA CheckSlugIs ==
  ASSUME TypeInv, NEW r \in Reqs, CheckSlug(r)
  PROVE  Abort(r) \/ \E t : GoesOn(r, t)
<1>1. Busy(r) /\ req[r].pc = "check_slug" /\ Fits(req[r], r)
  BY BusyIs DEF TypeInv, CheckSlug
<1>2. req[r].op = "update" /\ req[r] \in Request
  BY <1>1 DEF Fits, Request, Ops, Saving
<1>3. SUFFICES ASSUME ~SlugTaken(req[r].entity.slug, req[r].id) PROVE \E t : GoesOn(r, t)
  BY DEF CheckSlug
<1>4. UNCHANGED <<rows, history>> /\ leaked' = leaked /\ Goto(r, "select")
  BY <1>3 DEF CheckSlug
<1>5. "select" \in Pcs /\ "select" \in Holding /\ "check_slug" \in Holding
  BY DEF Pcs, Holding
<1>6. PICK t : /\ req' = [req EXCEPT ![r] = t] /\ t \in Request /\ t.pc = "select"
               /\ t.op = req[r].op /\ t.tx = req[r].tx /\ t.id = req[r].id
               /\ t.product = req[r].product /\ t.entity = req[r].entity
  BY <1>1, <1>4, <1>5, GotoIs DEF TypeInv
<1>7. Fits(t, r)
  BY <1>1, <1>2, <1>5, <1>6 DEF Fits, Saving
<1>8. Goes(r, t)
  BY <1>1, <1>6 DEF Goes
<1>9. QED
  BY <1>1, <1>4, <1>5, <1>6, <1>7, <1>8 DEF GoesOn

LEMMA SelectProductIs ==
  ASSUME TypeInv, NEW r \in Reqs, SelectProduct(r)
  PROVE  \E t : GoesOn(r, t)
<1>1. Busy(r) /\ req[r].pc = "select" /\ Fits(req[r], r)
  BY BusyIs DEF TypeInv, SelectProduct
<1>2. req[r].op = "update" /\ req[r] \in Request
  BY <1>1 DEF Fits, Request, Ops, Saving
<1>3. product[req[r].id] \in ProductRow \cup {ABSENT}
  <2>1. req[r].id \in Ids
    BY <1>1, <1>2 DEF Fits, Request
  <2>2. QED
    BY <2>1 DEF TypeInv, TablesOK
<1>4. PICK t : t = [req[r] EXCEPT !.pc = "update", !.found = product[req[r].id]]
  OBVIOUS
<1>5. "update" \in Pcs /\ "update" \in Holding /\ "select" \in Holding
  BY DEF Pcs, Holding
<1>6. /\ t \in Request /\ t.pc = "update" /\ t.found = product[req[r].id]
      /\ t.op = req[r].op /\ t.tx = req[r].tx /\ t.id = req[r].id
      /\ t.product = req[r].product /\ t.entity = req[r].entity
  BY <1>2, <1>3, <1>4, <1>5 DEF Request, Founds
<1>7. req' = [req EXCEPT ![r] = t] /\ UNCHANGED <<rows, history>> /\ leaked' = leaked
  BY <1>4 DEF SelectProduct, RequestsOK, TypeInv
<1>8. Fits(t, r)
  BY <1>1, <1>2, <1>3, <1>5, <1>6 DEF Fits, Saving
<1>9. Goes(r, t)
  BY <1>1, <1>6 DEF Goes
<1>10. QED
  BY <1>1, <1>5, <1>6, <1>7, <1>8, <1>9 DEF GoesOn

LEMMA SelectVariantIs ==
  ASSUME TypeInv, NEW r \in Reqs, SelectVariant(r)
  PROVE  \E t : GoesOn(r, t)
<1>1. Busy(r) /\ req[r].pc = "select_variant" /\ Fits(req[r], r)
  BY BusyIs DEF TypeInv, SelectVariant
<1>2. req[r].op = "update_variant" /\ req[r] \in Request
  BY <1>1 DEF Fits, Request, Ops, Saving
<1>3. variant[req[r].id] \in VariantRow \cup {ABSENT}
  BY <1>1, <1>2 DEF Fits, TypeInv, TablesOK
<1>4. PICK t : t = [req[r] EXCEPT !.pc = "update_variant", !.tx = TRUE, !.found = variant[req[r].id]]
  OBVIOUS
<1>5. "update_variant" \in Pcs /\ "update_variant" \in Holding
  BY DEF Pcs, Holding
<1>6. /\ t \in Request /\ t.pc = "update_variant" /\ t.found = variant[req[r].id]
      /\ t.op = req[r].op /\ t.tx = TRUE /\ t.id = req[r].id
      /\ t.product = req[r].product /\ t.entity = req[r].entity
  BY <1>2, <1>3, <1>4, <1>5 DEF Request, Founds
<1>7. /\ req' = [req EXCEPT ![r] = t] /\ UNCHANGED <<rows, history>> /\ leaked' = leaked
      /\ Free
  BY <1>4 DEF SelectVariant, RequestsOK, TypeInv
<1>8. Fits(t, r)
  BY <1>1, <1>2, <1>3, <1>5, <1>6 DEF Fits, Saving
<1>9. Goes(r, t)
  BY <1>1, <1>6 DEF Goes
<1>10. QED
  BY <1>1, <1>6, <1>7, <1>8, <1>9 DEF GoesOn

LEMMA SelectReviewIs ==
  ASSUME TypeInv, NEW r \in Reqs, SelectReview(r)
  PROVE  \E t : GoesOn(r, t)
<1>1. Busy(r) /\ req[r].pc = "select_review" /\ Fits(req[r], r)
  BY BusyIs DEF TypeInv, SelectReview
<1>2. req[r].op \in Saving /\ req[r] \in Request
  BY <1>1 DEF Fits, Request, Ops, Saving
<1>3. review[req[r].id] \in ReviewRow \cup {ABSENT}
  <2>1. req[r].id \in ReviewIds
    BY <1>2 DEF Request
  <2>2. QED
    BY <2>1 DEF TypeInv, TablesOK
<1>4. PICK t : t = [req[r] EXCEPT !.pc = "update_review", !.tx = TRUE, !.found = review[req[r].id]]
  OBVIOUS
<1>5. "update_review" \in Pcs /\ "update_review" \in Holding
  BY DEF Pcs, Holding
<1>6. /\ t \in Request /\ t.pc = "update_review" /\ t.found = review[req[r].id]
      /\ t.op = req[r].op /\ t.tx = TRUE /\ t.id = req[r].id
      /\ t.product = req[r].product /\ t.entity = req[r].entity
  BY <1>2, <1>3, <1>4, <1>5 DEF Request, Founds
<1>7. /\ req' = [req EXCEPT ![r] = t] /\ UNCHANGED <<rows, history>> /\ leaked' = leaked
      /\ Free
  BY <1>4 DEF SelectReview, RequestsOK, TypeInv
<1>8. Fits(t, r)
  BY <1>1, <1>2, <1>3, <1>5, <1>6 DEF Fits, Saving
<1>9. Goes(r, t)
  BY <1>1, <1>6 DEF Goes
<1>10. QED
  BY <1>1, <1>6, <1>7, <1>8, <1>9 DEF GoesOn

LEMMA ReadAggregateIs ==
  ASSUME TypeInv, NEW r \in Reqs, ReadAggregate(r)
  PROVE  \E t : GoesOn(r, t)
<1>1. Busy(r) /\ req[r].pc = "aggregate" /\ Fits(req[r], r)
  BY BusyIs DEF TypeInv, ReadAggregate
<1>2. req[r] \in Request /\ req[r].op \in {"create_review", "delete_review"} \cup Saving
  BY <1>1 DEF Fits, Request, Ops, Saving
<1>3. PICK s \in Stats : s = Aggregate(req[r].product)
  BY AggregateIs
<1>4. PICK t : t = [req[r] EXCEPT !.pc = "store_stats", !.stats = s]
  OBVIOUS
<1>5. "store_stats" \in Pcs /\ "store_stats" \notin Holding /\ "aggregate" \notin Holding
  BY DEF Pcs, Holding, Borrows
<1>6. /\ t \in Request /\ t.pc = "store_stats" /\ t.stats = s
      /\ t.op = req[r].op /\ t.tx = req[r].tx /\ t.id = req[r].id
      /\ t.product = req[r].product /\ t.entity = req[r].entity
  BY <1>2, <1>4, <1>5 DEF Request
<1>7. req' = [req EXCEPT ![r] = t] /\ UNCHANGED <<rows, history>> /\ leaked' = leaked
  BY <1>3, <1>4 DEF ReadAggregate, RequestsOK, TypeInv
<1>8. Fits(t, r)
  BY <1>1, <1>2, <1>5, <1>6 DEF Fits, Saving
<1>9. Goes(r, t)
  BY <1>1, <1>3, <1>6 DEF Goes
<1>10. QED
  BY <1>5, <1>6, <1>7, <1>8, <1>9 DEF GoesOn

Quiet(r) ==
  \/ TrySlug(r) \/ InsertProduct(r) \/ GetDefaultWarehouseId(r) \/ InsertVariantAndInventory(r)
  \/ InsertVariant(r) \/ InsertInventory(r) \/ CheckSlug(r)
  \/ SelectProduct(r) \/ SelectVariant(r) \/ SelectReview(r) \/ ReadAggregate(r)

LEMMA QuietIs ==
  ASSUME TypeInv, NEW r \in Reqs, Quiet(r)
  PROVE  Abort(r) \/ \E t : GoesOn(r, t)
  BY TrySlugIs, InsertProductIs, GetDefaultWarehouseIdIs, InsertBothIs, InsertVariantIs,
     InsertInventoryIs, CheckSlugIs, SelectProductIs, SelectVariantIs, SelectReviewIs,
     ReadAggregateIs DEF Quiet

-----------------------------------------------------------------------------
(* The pool and the slugs.                                                 *)

LEMMA HoldersFinite ==
  /\ IsFiniteSet(Holders) /\ Cardinality(Holders) \in Nat
  /\ IsFiniteSet(Ended) /\ Cardinality(Ended) \in Nat
<1>1. Holders \subseteq Reqs /\ Ended \subseteq Reqs
  BY DEF Holders, Ended
<1>2. IsFiniteSet(Holders) /\ IsFiniteSet(Ended)
  BY <1>1, CatalogAssumption, FS_Subset
<1>3. QED
  BY <1>2, FS_CardinalityType

LEMMA PoolStays ==
  ASSUME PoolOK, NEW r \in Reqs, Others(r), leaked' = leaked,
         Busy(r)' /\ req'[r].tx => (Busy(r) /\ req[r].tx) \/ Free
  PROVE  PoolOK'
<1>1. /\ IsFiniteSet(Holders) /\ Cardinality(Holders) \in Nat /\ leaked \in Nat /\ PoolSize \in Nat
      /\ leaked \in 0..PoolSize /\ leaked + Cardinality(Holders) <= PoolSize
  BY HoldersFinite, CatalogAssumption DEF PoolOK
<1>2. Holders' \subseteq Holders \cup {r}
  BY DEF Holders, Others, SameState, Busy
<1>3. IsFiniteSet(Holders \cup {r}) /\ Cardinality(Holders \cup {r}) \in Nat
  <2>1. IsFiniteSet(Holders \cup {r})
    BY <1>1, FS_AddElement
  <2>2. QED
    BY <2>1, FS_CardinalityType
<1>4. CASE Holders' \subseteq Holders
  <2>1. IsFiniteSet(Holders') /\ Cardinality(Holders') <= Cardinality(Holders)
    BY <1>1, <1>4, FS_Subset
  <2>2. Cardinality(Holders') \in Nat
    BY <2>1, FS_CardinalityType
  <2>3. QED
    BY <1>1, <2>1, <2>2 DEF PoolOK
<1>5. CASE ~(Holders' \subseteq Holders)
  <2>1. r \in Holders' /\ r \notin Holders
    BY <1>2, <1>5
  <2>2. leaked + Cardinality(Holders) < PoolSize
    BY <2>1 DEF Holders, Free
  <2>3. Cardinality(Holders \cup {r}) = Cardinality(Holders) + 1
    BY <1>1, <2>1, FS_AddElement
  <2>4. IsFiniteSet(Holders') /\ Cardinality(Holders') <= Cardinality(Holders \cup {r})
    BY <1>2, <1>3, FS_Subset
  <2>5. Cardinality(Holders') \in Nat
    BY <2>4, FS_CardinalityType
  <2>6. QED
    BY <1>1, <2>2, <2>3, <2>4, <2>5 DEF PoolOK
<1>6. QED
  BY <1>4, <1>5

LEMMA PoolLeaks ==
  ASSUME PoolOK, NEW r \in Reqs, Others(r), leaked' = leaked + 1, Free, Busy(r) /\ req[r].tx
  PROVE  PoolOK'
<1>1. /\ IsFiniteSet(Holders) /\ Cardinality(Holders) \in Nat /\ leaked \in Nat /\ PoolSize \in Nat
  BY HoldersFinite, CatalogAssumption DEF PoolOK
<1>2. Holders' \subseteq Holders
  BY DEF Holders, Others, SameState, Busy
<1>3. IsFiniteSet(Holders') /\ Cardinality(Holders') <= Cardinality(Holders)
  BY <1>1, <1>2, FS_Subset
<1>4. Cardinality(Holders') \in Nat
  BY <1>3, FS_CardinalityType
<1>5. leaked + Cardinality(Holders) < PoolSize
  BY DEF Free, Holders
<1>6. QED
  BY <1>1, <1>3, <1>4, <1>5 DEF PoolOK

\* A candidate is 0, or the one tried before, or the next after one that is
\* taken.
Candidate(r) ==
  Busy(r)' /\ req'[r].op = "create" =>
    \/ req'[r].entity.slug = 0
    \/ /\ Busy(r) /\ req[r].op = "create"
       /\ \/ req'[r].entity.slug = req[r].entity.slug
          \/ /\ req'[r].entity.slug = req[r].entity.slug + 1
             /\ SlugTaken(req[r].entity.slug, r)

LEMMA CandidatesFollow ==
  ASSUME RequestsOK, NEW r \in Reqs, Others(r), Candidate(r),
         NEW S, \A p \in Product : product[p].slug \in S,
         \A p \in Reqs : Busy(p) /\ req[p].op = "create" => 0..(req[p].entity.slug - 1) \subseteq S
  PROVE  \A p \in Reqs : Busy(p)' /\ req'[p].op = "create" => 0..(req'[p].entity.slug - 1) \subseteq S
<1>1. ASSUME NEW p \in Reqs \ {r}, Busy(p)', req'[p].op = "create"
      PROVE  0..(req'[p].entity.slug - 1) \subseteq S
  BY <1>1 DEF Others, SameState, Busy
<1>2. ASSUME Busy(r)', req'[r].op = "create"
      PROVE  0..(req'[r].entity.slug - 1) \subseteq S
  <2>1. CASE req'[r].entity.slug = 0
    <3>1. 0..(req'[r].entity.slug - 1) = {}
      BY <2>1
    <3>2. QED
      BY <3>1
  <2>2. CASE Busy(r) /\ req[r].op = "create" /\ req'[r].entity.slug = req[r].entity.slug
    BY <2>2
  <2>3. CASE /\ Busy(r) /\ req[r].op = "create" /\ req'[r].entity.slug = req[r].entity.slug + 1
             /\ SlugTaken(req[r].entity.slug, r)
    <3>1. PICK s : s = req[r].entity.slug
      OBVIOUS
    <3>2. s \in Nat
      <4>1. req[r].entity \in ProductEntity
        BY <2>3, BusyIs DEF Fits
      <4>2. QED
        BY <3>1, <4>1, Constants DEF ProductEntity, Slugs
    <3>3. s \in S /\ 0..(s - 1) \subseteq S
      BY <2>3, <3>1 DEF SlugTaken
    <3>4. req'[r].entity.slug - 1 = s
      BY <2>3, <3>1, <3>2
    <3>5. 0..s \subseteq S
      BY <3>2, <3>3
    <3>6. QED
      BY <3>4, <3>5
  <2>4. QED
    BY <1>2, <2>1, <2>2, <2>3 DEF Candidate
<1>3. QED
  BY <1>1, <1>2

\* No product has a slug that none has had.
LEMMA SlugsStay ==
  ASSUME RequestsOK, SlugsSuffice, NEW r \in Reqs, Others(r), req[r] # Done, Candidate(r),
         \A p \in Product' : \E o \in Product : product'[p].slug = product[o].slug
  PROVE  SlugsSuffice'
<1>1. PICK S \in SUBSET Slugs :
        /\ \A p \in Product : product[p].slug \in S
        /\ \A p \in Reqs : Busy(p) /\ req[p].op = "create" => 0..(req[p].entity.slug - 1) \subseteq S
        /\ Cardinality(S) <= 1 + Cardinality(Ended)
  BY DEF SlugsSuffice
<1>2. \A p \in Product' : product'[p].slug \in S
  BY <1>1
<1>3. \A p \in Reqs : Busy(p)' /\ req'[p].op = "create" => 0..(req'[p].entity.slug - 1) \subseteq S
  BY <1>1, CandidatesFollow
<1>4. Cardinality(S) <= 1 + Cardinality(Ended')
  <2>1. Ended \subseteq Ended'
    BY DEF Ended, Others, SameState
  <2>2. /\ IsFiniteSet(Ended') /\ Cardinality(Ended') \in Nat
    <3>1. Ended' \subseteq Reqs
      BY DEF Ended
    <3>2. IsFiniteSet(Ended')
      BY <3>1, CatalogAssumption, FS_Subset
    <3>3. QED
      BY <3>2, FS_CardinalityType
  <2>3. Cardinality(Ended) <= Cardinality(Ended') /\ Cardinality(Ended) \in Nat
    BY <2>1, <2>2, HoldersFinite, FS_Subset
  <2>4. Cardinality(S) \in Nat
    <3>1. IsFiniteSet(Slugs)
      BY Constants, FS_Interval DEF Slugs
    <3>2. QED
      BY <3>1, FS_Subset, FS_CardinalityType
  <2>5. QED
    BY <1>1, <2>2, <2>3, <2>4
<1>5. QED
  BY <1>2, <1>3, <1>4 DEF SlugsSuffice

\* A product is given slug s by a request that ends with it.
LEMMA SlugsGrow ==
  ASSUME RequestsOK, SlugsSuffice, NEW r \in Reqs, Others(r), req[r] # Done, req'[r] = Done,
         NEW s \in Slugs,
         \A p \in Product' :
           product'[p].slug = s \/ \E o \in Product : product'[p].slug = product[o].slug
  PROVE  SlugsSuffice'
<1>1. PICK S \in SUBSET Slugs :
        /\ \A p \in Product : product[p].slug \in S
        /\ \A p \in Reqs : Busy(p) /\ req[p].op = "create" => 0..(req[p].entity.slug - 1) \subseteq S
        /\ Cardinality(S) <= 1 + Cardinality(Ended)
  BY DEF SlugsSuffice
<1>2. PICK T \in SUBSET Slugs : T = S \cup {s}
  OBVIOUS
<1>3. \A p \in Product' : product'[p].slug \in T
  BY <1>1, <1>2
<1>4. \A p \in Reqs : Busy(p)' /\ req'[p].op = "create" => 0..(req'[p].entity.slug - 1) \subseteq T
  <2>1. Candidate(r)
    BY DEF Candidate, Busy
  <2>2. \A p \in Reqs : Busy(p)' /\ req'[p].op = "create" => 0..(req'[p].entity.slug - 1) \subseteq S
    BY <1>1, <2>1, CandidatesFollow
  <2>3. QED
    BY <1>2, <2>2
<1>5. Cardinality(T) <= 1 + Cardinality(Ended')
  <2>1. IsFiniteSet(S) /\ Cardinality(S) \in Nat
    <3>1. IsFiniteSet(Slugs)
      BY Constants, FS_Interval DEF Slugs
    <3>2. QED
      BY <3>1, FS_Subset, FS_CardinalityType
  <2>2. Cardinality(T) <= Cardinality(S) + 1 /\ Cardinality(T) \in Nat
    <3>1. Cardinality(T) = IF s \in S THEN Cardinality(S) ELSE Cardinality(S) + 1
      BY <1>2, <2>1, FS_AddElement
    <3>2. QED
      BY <2>1, <3>1
  <2>3. Ended' = Ended \cup {r} /\ r \notin Ended
    BY DEF Ended, Others, SameState
  <2>4. Cardinality(Ended') = Cardinality(Ended) + 1 /\ Cardinality(Ended) \in Nat
    BY <2>3, HoldersFinite, FS_AddElement
  <2>5. QED
    BY <1>1, <2>1, <2>2, <2>4
<1>6. QED
  BY <1>3, <1>4, <1>5 DEF SlugsSuffice

-----------------------------------------------------------------------------
(* Steps that write rows: what they do to the requests.                    *)

\* r is done; all others go on.
Finishes(r) == Busy(r) /\ req' = [req EXCEPT ![r] = Done]

\* r has written reviews of its product and owes the statistics.
Owes(r) ==
  /\ Busy(r)
  /\ req[r].op \in Saving \cup {"create_review", "delete_review"}
  /\ \E t : /\ req' = [Cross(req[r].product) EXCEPT ![r] = t]
            /\ Fits(t, r) /\ t.pc = "aggregate"
            /\ t.op = req[r].op /\ t.id = req[r].id /\ t.product = req[r].product
            /\ t.entity = req[r].entity

LEMMA OwesIs ==
  ASSUME RequestsOK, NEW r \in Reqs, ThenRecalculate(r),
         req[r].pc \in {"insert_review", "update_review", "delete_review"}
  PROVE  Owes(r)
<1>1. Busy(r) /\ Fits(req[r], r)
  BY BusyIs
<1>2. req[r] \in Request /\ req[r].op \in Saving \cup {"create_review", "delete_review"}
  BY <1>1 DEF Fits, Request, Ops, Saving
<1>3. PICK t : t = [req[r] EXCEPT !.pc = "aggregate", !.tx = FALSE]
  OBVIOUS
<1>4. "aggregate" \in Pcs /\ "aggregate" \notin Holding
  BY DEF Pcs, Holding, Borrows
<1>5. /\ t \in Request /\ t.pc = "aggregate" /\ t.tx = FALSE
      /\ t.op = req[r].op /\ t.id = req[r].id /\ t.product = req[r].product
      /\ t.entity = req[r].entity
  BY <1>2, <1>3, <1>4 DEF Request
<1>6. Fits(t, r)
  BY <1>1, <1>2, <1>4, <1>5 DEF Fits, Saving
<1>7. req' = [Cross(req[r].product) EXCEPT ![r] = t]
  <2>1. PICK f : f = Cross(req[r].product)
    OBVIOUS
  <2>2. f[r] = req[r]
    BY <2>1 DEF Cross
  <2>3. req' = [f EXCEPT ![r].pc = "aggregate", ![r].tx = FALSE]
    BY <2>1 DEF ThenRecalculate
  <2>4. DOMAIN f = Reqs
    BY <2>1 DEF Cross
  <2>5. req' = [f EXCEPT ![r] = [f[r] EXCEPT !.pc = "aggregate", !.tx = FALSE]]
    BY <2>3, <2>4
  <2>6. QED
    BY <1>3, <2>1, <2>2, <2>5
<1>8. QED
  BY <1>1, <1>2, <1>5, <1>6, <1>7 DEF Owes

\* What the layers below need of the requests, whichever way r goes on.
Moves(r) ==
  /\ RequestsOK' /\ Others(r) /\ Busy(r)
  /\ \/ req'[r] = Done
     \/ /\ Busy(r)' /\ req'[r].op = req[r].op /\ req'[r].id = req[r].id
        /\ req'[r].product = req[r].product

LEMMA FinishMoves ==
  ASSUME RequestsOK, NEW r \in Reqs, Finishes(r)
  PROVE  Moves(r) /\ req'[r] = Done /\ ~Busy(r)' /\ \A p \in Reqs \ {r} : req'[p] = req[p]
<1>1. /\ RequestsOK' /\ req'[r] = Done /\ Others(r)
      /\ \A p \in Reqs \ {r} : req'[p] = req[p]
  BY MoveIs DEF Finishes
<1>2. QED
  BY <1>1 DEF Moves, Finishes, Busy

LEMMA OweMoves ==
  ASSUME RequestsOK, NEW r \in Reqs, Owes(r)
  PROVE  /\ Moves(r) /\ Busy(r)' /\ req'[r].pc = "aggregate" /\ ~req'[r].tx
         /\ req'[r].entity = req[r].entity
         /\ \A p \in Reqs \ {r} :
              Busy(p) /\ req[p].pc = "store_stats" /\ req[p].product = req[r].product =>
                req'[p].crossed
<1>1. PICK t : /\ req' = [Cross(req[r].product) EXCEPT ![r] = t]
               /\ Fits(t, r) /\ t.pc = "aggregate"
               /\ t.op = req[r].op /\ t.id = req[r].id /\ t.product = req[r].product
               /\ t.entity = req[r].entity
  BY DEF Owes
<1>2. t # Done
  BY <1>1, RequestIsBusy DEF Fits
<1>3. /\ RequestsOK' /\ req'[r] = t /\ Others(r) /\ Busy(r)'
      /\ \A p \in Reqs \ {r} :
           Busy(p) /\ req[p].pc = "store_stats" /\ req[p].product = req[r].product =>
             req'[p].crossed
  BY <1>1, <1>2, CrossMoveIs
<1>4. "aggregate" \notin Holding
  BY DEF Holding
<1>5. ~t.tx
  BY <1>1, <1>4 DEF Fits
<1>6. QED
  BY <1>1, <1>3, <1>5 DEF Moves, Owes

LEMMA CommitIs ==
  ASSUME RequestsOK, NEW r \in Reqs, Commit(r)
  PROVE  /\ Finishes(r) /\ Fits(req[r], r) /\ req[r].op \in {"create", "add_variant"}
         /\ req[r].pc = "commit" /\ req[r].tx
<1>1. Busy(r) /\ req[r].pc = "commit" /\ Fits(req[r], r)
  BY BusyIs DEF Commit
<1>2. req[r].op \in {"create", "add_variant"}
  BY <1>1 DEF Fits, Request, Ops, Saving
<1>3. "commit" \in Holding
  BY DEF Holding
<1>4. req[r].tx
  BY <1>1, <1>3 DEF Fits
<1>5. QED
  BY <1>1, <1>2, <1>4 DEF Finishes, Commit

\* The update of a product is written, as row x: not at all where it has gone
\* meanwhile.
StoresProduct(r, x) ==
  LET q == req[r] p == q.id gone == q.found = ABSENT
      renamed == gone \/ q.entity.slug # q.found.slug
      stale == gone \/ q.stats # q.found.stats IN
  /\ gone => p \notin Product
  /\ x = [slug |-> IF renamed THEN q.entity.slug ELSE product[p].slug,
          stats |-> IF stale THEN q.stats ELSE product[p].stats]
  /\ gone \/ p \in Product =>
       /\ renamed => ~SlugPending(q.entity.slug, r) /\ ~SlugTaken(q.entity.slug, p)
       /\ product' = [product EXCEPT ![p] = x]
       /\ unsure' = IF stale THEN unsure \cup {p} ELSE unsure
  /\ ~(gone \/ p \in Product) => product' = product /\ unsure' = unsure
  /\ UNCHANGED <<variant, review, image, leaked, removed, held>>

LEMMA UpdateProductIs ==
  ASSUME RequestsOK, NEW r \in Reqs, UpdateProduct(r)
  PROVE  /\ Busy(r) /\ Fits(req[r], r) /\ req[r].op = "update" /\ req[r].pc = "update"
         /\ Abort(r) \/ (Finishes(r) /\ \E x : StoresProduct(r, x))
<1>1. Busy(r) /\ req[r].pc = "update" /\ Fits(req[r], r)
  BY BusyIs DEF UpdateProduct
<1>2. req[r].op = "update"
  BY <1>1 DEF Fits, Request, Ops, Saving
<1>3. QED
  BY <1>1, <1>2 DEF Finishes, StoresProduct, UpdateProduct

LEMMA DeleteProductIs ==
  ASSUME RequestsOK, NEW r \in Reqs, DeleteProduct(r)
  PROVE  /\ Busy(r) /\ Fits(req[r], r) /\ req[r].op = "remove" /\ req[r].id = req[r].product
         /\ req[r].id \in Ids
         /\ Moves(r) /\ req'[r] = Done /\ ~Busy(r)'
         /\ \A p \in Reqs \ {r} :
              Busy(p) /\ req[p].pc = "store_stats" /\ req[p].product = req[r].id =>
                req'[p].crossed
<1>1. Busy(r) /\ req[r].pc = "delete" /\ Fits(req[r], r)
  BY BusyIs DEF DeleteProduct
<1>2. req[r].op = "remove" /\ req[r] \in Request
  BY <1>1 DEF Fits, Request, Ops, Saving
<1>3. req[r].id = req[r].product /\ req[r].id \in Ids
  BY <1>1, <1>2 DEF Fits, Request
<1>4. req' = [Cross(req[r].id) EXCEPT ![r] = Done]
  BY DEF DeleteProduct
<1>5. /\ RequestsOK' /\ req'[r] = Done /\ Others(r)
      /\ \A p \in Reqs \ {r} :
           Busy(p) /\ req[p].pc = "store_stats" /\ req[p].product = req[r].id =>
             req'[p].crossed
  BY <1>4, CrossMoveIs
<1>6. QED
  BY <1>1, <1>2, <1>3, <1>5 DEF Moves, Busy

LEMMA DeleteImageIs ==
  ASSUME RequestsOK, NEW r \in Reqs, DeleteImage(r)
  PROVE  /\ Finishes(r) /\ req[r].op = "remove_image" /\ req[r].id \in Ids
<1>1. Busy(r) /\ req[r].pc = "delete_image" /\ Fits(req[r], r)
  BY BusyIs DEF DeleteImage
<1>2. req[r].op = "remove_image" /\ req[r] \in Request
  BY <1>1 DEF Fits, Request, Ops, Saving
<1>3. req[r].id \in Ids
  BY <1>1, <1>2 DEF Fits, Request
<1>4. QED
  BY <1>1, <1>2, <1>3 DEF Finishes, DeleteImage

\* The update of a variant is written.
StoresVariant(r) ==
  LET q == req[r] v == q.id gone == q.found = ABSENT
      stored == gone \/ (variant[v] # ABSENT /\ q.entity.sku # q.found.sku) IN
  /\ stored => ~SkuPending(q.entity.sku, r) /\ ~SkuTaken(q.entity.sku, v)
  /\ gone => q.product \in Product /\ variant[v] = ABSENT
  /\ variant' = IF gone THEN [variant EXCEPT ![v] = [product |-> q.product,
                                            sku |-> q.entity.sku, stocked |-> FALSE]]
                ELSE IF stored THEN [variant EXCEPT ![v].sku = q.entity.sku]
                ELSE variant
  /\ UNCHANGED <<product, review, image, leaked, history>>

LEMMA SaveVariantIs ==
  ASSUME RequestsOK, NEW r \in Reqs, SaveVariant(r)
  PROVE  /\ Busy(r) /\ Fits(req[r], r) /\ req[r].op = "update_variant"
         /\ req[r].pc = "update_variant"
         /\ Abort(r) \/ (Finishes(r) /\ StoresVariant(r))
<1>1. Busy(r) /\ req[r].pc = "update_variant" /\ Fits(req[r], r)
  BY BusyIs DEF SaveVariant
<1>2. req[r].op = "update_variant"
  BY <1>1 DEF Fits, Request, Ops, Saving
<1>3. QED
  BY <1>1, <1>2 DEF Finishes, StoresVariant, SaveVariant

LEMMA StoreStatsIs ==
  ASSUME RequestsOK, NEW r \in Reqs, StoreStats(r)
  PROVE  /\ Finishes(r) /\ Fits(req[r], r) /\ req[r].product \in Ids /\ req[r].stats \in Stats
         /\ req[r].op \in Saving \cup {"create_review", "delete_review"}
<1>1. Busy(r) /\ req[r].pc = "store_stats" /\ Fits(req[r], r)
  BY BusyIs DEF StoreStats
<1>2. req[r] \in Request /\ req[r].op \in Saving \cup {"create_review", "delete_review"}
  BY <1>1 DEF Fits, Request, Ops, Saving
<1>3. QED
  BY <1>1, <1>2 DEF Finishes, StoreStats, Request

\* A new review is written.
StoresNewReview(r) ==
  /\ ~Reviewed(req[r].entity.user, req[r].product, r) /\ req[r].product \in Product
  /\ review' = [review EXCEPT ![r] = req[r].entity]
  /\ UNCHANGED <<product, variant, image, leaked, history>>

LEMMA InsertReviewIs ==
  ASSUME RequestsOK, NEW r \in Reqs, InsertReview(r)
  PROVE  /\ Busy(r) /\ Fits(req[r], r) /\ req[r].op = "create_review" /\ req[r].pc = "insert_review"
         /\ Abort(r) \/ (Owes(r) /\ StoresNewReview(r))
<1>1. Busy(r) /\ req[r].pc = "insert_review" /\ Fits(req[r], r)
  BY BusyIs DEF InsertReview
<1>2. req[r].op = "create_review"
  BY <1>1 DEF Fits, Request, Ops, Saving
<1>3. CASE Reviewed(req[r].entity.user, req[r].product, r) \/ req[r].product \notin Product
  BY <1>1, <1>2, <1>3 DEF InsertReview
<1>4. CASE ~(Reviewed(req[r].entity.user, req[r].product, r) \/ req[r].product \notin Product)
  <2>1. ThenRecalculate(r) /\ StoresNewReview(r)
    BY <1>4 DEF InsertReview, StoresNewReview
  <2>2. QED
    BY <1>1, <1>2, <2>1, OwesIs
<1>5. QED
  BY <1>3, <1>4

\* A changed review is written as x: not at all where it has gone meanwhile.
StoresReview(r, x) ==
  /\ review' = [review EXCEPT ![req[r].id] = x]
  /\ x \in ReviewRow \cup {ABSENT}
  /\ x # ABSENT /\ ~x.deleted => ~Reviewed(x.user, x.product, req[r].id)
  /\ IF req[r].found = ABSENT
     THEN /\ req[r].product \in Product /\ review[req[r].id] = ABSENT
          /\ x = req[r].entity
     ELSE /\ (x = ABSENT) <=> (review[req[r].id] = ABSENT)
          /\ x # ABSENT => \/ x.product = review[req[r].id].product
                           \/ x.product = req[r].product /\ req[r].product # req[r].found.product
  /\ UNCHANGED <<product, variant, image, leaked, history>>

LEMMA SavedIs ==
  ASSUME NEW e \in ReviewRow, NEW f \in ReviewRow, NEW y \in ReviewRow,
         NEW x, x = [c \in DOMAIN e |-> IF e[c] # f[c] THEN e[c] ELSE y[c]]
  PROVE  /\ x \in ReviewRow
         /\ x.product = y.product \/ (x.product = e.product /\ e.product # f.product)
<1>1. DOMAIN e = {"user", "product", "rating", "approved", "deleted"}
  BY DEF ReviewRow
<1>2. /\ DOMAIN x = {"user", "product", "rating", "approved", "deleted"}
      /\ x.user = IF e.user # f.user THEN e.user ELSE y.user
      /\ x.product = IF e.product # f.product THEN e.product ELSE y.product
      /\ x.rating = IF e.rating # f.rating THEN e.rating ELSE y.rating
      /\ x.approved = IF e.approved # f.approved THEN e.approved ELSE y.approved
      /\ x.deleted = IF e.deleted # f.deleted THEN e.deleted ELSE y.deleted
  BY <1>1
<1>3. x = [user |-> x.user, product |-> x.product, rating |-> x.rating,
           approved |-> x.approved, deleted |-> x.deleted]
  BY <1>1, <1>2
<1>4. /\ x.user \in Users /\ x.product \in Ids /\ x.rating \in Ratings
      /\ x.approved \in BOOLEAN /\ x.deleted \in BOOLEAN
  BY <1>2 DEF ReviewRow
<1>5. x \in ReviewRow
  BY <1>3, <1>4 DEF ReviewRow
<1>6. QED
  BY <1>2, <1>5

LEMMA SaveReviewIs ==
  ASSUME TypeInv, NEW r \in Reqs, SaveReview(r)
  PROVE  /\ Busy(r) /\ Fits(req[r], r) /\ req[r].op \in Saving /\ req[r].pc = "update_review"
         /\ Abort(r) \/ (Owes(r) /\ \E x : StoresReview(r, x))
<1>1. Busy(r) /\ req[r].pc = "update_review" /\ Fits(req[r], r)
  BY BusyIs DEF SaveReview, TypeInv
<1>2. req[r].op \in Saving /\ req[r] \in Request
  BY <1>1 DEF Fits, Request, Ops, Saving
<1>3. PICK w, e, f : w = req[r].id /\ e = req[r].entity /\ f = req[r].found
  OBVIOUS
<1>4. /\ w \in ReviewIds /\ e \in ReviewRow /\ e.product = req[r].product
      /\ f \in ReviewRow \cup {ABSENT} /\ review[w] \in ReviewRow \cup {ABSENT}
      /\ ABSENT \notin ReviewRow
  BY <1>1, <1>2, <1>3, AbsentAssumption DEF Fits, Request, TypeInv, TablesOK
<1>5. PICK x : x = IF f = ABSENT THEN e
                   ELSE IF review[w] = ABSENT THEN ABSENT
                   ELSE [c \in DOMAIN e |-> IF f # ABSENT /\ e[c] # f[c] THEN e[c]
                                            ELSE review[w][c]]
  OBVIOUS
<1>6. \/ Abort(r)
      \/ /\ ~(x # ABSENT /\ ~x.deleted /\ Reviewed(x.user, x.product, w))
         /\ ~(f = ABSENT /\ (req[r].product \notin Product \/ review[w] # ABSENT))
         /\ review' = [review EXCEPT ![w] = x]
         /\ ThenRecalculate(r)
         /\ UNCHANGED <<product, variant, image, leaked, history>>
  BY <1>3, <1>5 DEF SaveReview
<1>7. /\ x \in ReviewRow \cup {ABSENT}
      /\ f = ABSENT => x = e
      /\ f # ABSENT => /\ (x = ABSENT) <=> (review[w] = ABSENT)
                       /\ x # ABSENT => \/ x.product = review[w].product
                                        \/ x.product = e.product /\ e.product # f.product
  <2>1. CASE f = ABSENT \/ review[w] = ABSENT
    BY <1>4, <1>5, <2>1
  <2>2. CASE f # ABSENT /\ review[w] # ABSENT
    <3>1. x = [c \in DOMAIN e |-> IF e[c] # f[c] THEN e[c] ELSE review[w][c]]
      BY <1>5, <2>2
    <3>2. f \in ReviewRow /\ review[w] \in ReviewRow
      BY <1>4, <2>2
    <3>3. /\ x \in ReviewRow
          /\ \/ x.product = review[w].product
             \/ x.product = e.product /\ e.product # f.product
      BY <1>4, <3>1, <3>2, SavedIs
    <3>4. QED
      BY <1>4, <2>2, <3>3
  <2>3. QED
    BY <2>1, <2>2
<1>8. ASSUME ~Abort(r) PROVE Owes(r) /\ StoresReview(r, x)
  <2>1. Owes(r)
    BY <1>1, <1>6, <1>8, OwesIs DEF TypeInv
  <2>2. StoresReview(r, x)
    BY <1>3, <1>4, <1>6, <1>7, <1>8 DEF StoresReview
  <2>3. QED
    BY <2>1, <2>2
<1>9. QED
  BY <1>1, <1>2, <1>8

LEMMA SoftDeleteIs ==
  ASSUME RequestsOK, NEW r \in Reqs, SoftDelete(r)
  PROVE  /\ Owes(r) /\ Fits(req[r], r) /\ req[r].op = "delete_review" /\ req[r].id \in ReviewIds
<1>1. Busy(r) /\ req[r].pc = "delete_review" /\ Fits(req[r], r)
  BY BusyIs DEF SoftDelete
<1>2. req[r].op = "delete_review" /\ req[r] \in Request
  BY <1>1 DEF Fits, Request, Ops, Saving
<1>3. ThenRecalculate(r)
  BY DEF SoftDelete
<1>4. QED
  BY <1>1, <1>2, <1>3, OwesIs DEF Request

-----------------------------------------------------------------------------
(* The kinds of steps.                                                     *)

Begins(r) == \E t : Starts(r, t)
Continues(r) == \E t : GoesOn(r, t)
Gives(r) == Busy(r) /\ Abort(r)

UpdatesProduct(r) ==
  /\ Finishes(r) /\ \E x : StoresProduct(r, x)
  /\ Fits(req[r], r) /\ req[r].op = "update" /\ req[r].pc = "update"

UpdatesVariant(r) ==
  /\ Finishes(r) /\ StoresVariant(r)
  /\ Fits(req[r], r) /\ req[r].op = "update_variant" /\ req[r].pc = "update_variant"

PostsReview(r) ==
  /\ Owes(r) /\ StoresNewReview(r)
  /\ Fits(req[r], r) /\ req[r].op = "create_review" /\ req[r].pc = "insert_review"

RevisesIt(r) ==
  /\ Owes(r) /\ \E x : StoresReview(r, x)
  /\ Fits(req[r], r) /\ req[r].op \in Saving /\ req[r].pc = "update_review"

Step(r) ==
  \/ Begins(r) \/ Continues(r) \/ Gives(r) \/ Commit(r)
  \/ UpdatesProduct(r) \/ DeleteProduct(r) \/ DeleteImage(r)
  \/ UpdatesVariant(r) \/ PostsReview(r) \/ RevisesIt(r) \/ SoftDelete(r) \/ StoreStats(r)

LEMMA StepCases ==
  ASSUME TypeInv, [Next]_vars
  PROVE  UNCHANGED vars \/ \E r \in Reqs : Step(r)
<1>1. SUFFICES ASSUME NEW r \in Reqs, \/ CatalogRequest(r) \/ ReviewRequest(r)
                                      \/ CatalogStep(r) \/ ReviewStep(r) \/ Fail(r)
               PROVE  Step(r)
  BY DEF Next
<1>2. RequestsOK /\ TablesOK
  BY DEF TypeInv
<1>3. CASE CatalogRequest(r) \/ ReviewRequest(r)
  BY <1>2, <1>3, ArrivalIs DEF Arrives, Step, Begins
<1>4. CASE Quiet(r)
  <2>1. Abort(r) => Busy(r)
    <3>1. req[r].pc \notin {"new", "done"}
      BY <1>4 DEF Quiet, TrySlug, InsertProduct, GetDefaultWarehouseId,
         InsertVariantAndInventory, InsertVariant, InsertInventory, CheckSlug,
         SelectProduct, SelectVariant, SelectReview, ReadAggregate
    <3>2. QED
      BY <1>2, <3>1, BusyIs
  <2>2. QED
    BY <1>4, <2>1, QuietIs DEF Step, Continues, Gives
<1>5. CASE TimeOut(r) \/ Fail(r)
  BY <1>5 DEF TimeOut, Fail, Step, Gives
<1>6. CASE UpdateProduct(r)
  BY <1>2, <1>6, UpdateProductIs DEF Step, UpdatesProduct, Gives
<1>7. CASE SaveVariant(r)
  BY <1>2, <1>7, SaveVariantIs DEF Step, UpdatesVariant, Gives
<1>8. CASE InsertReview(r)
  BY <1>2, <1>8, InsertReviewIs DEF Step, PostsReview, Gives
<1>9. CASE SaveReview(r)
  BY <1>9, SaveReviewIs DEF Step, RevisesIt, Gives
<1>10. CASE \/ Commit(r) \/ DeleteProduct(r) \/ DeleteImage(r)
            \/ SoftDelete(r) \/ StoreStats(r)
  BY <1>10 DEF Step
<1>11. QED
  BY <1>1, <1>3, <1>4, <1>5, <1>6, <1>7, <1>8, <1>9, <1>10 DEF CatalogStep, ReviewStep, Quiet

LEMMA BeginMoves ==
  ASSUME RequestsOK, NEW r \in Reqs, NEW t, Starts(r, t)
  PROVE  /\ RequestsOK' /\ Others(r) /\ req'[r] = t /\ Busy(r)' /\ ~Busy(r) /\ req[r] # Done
         /\ t \in Request /\ \A p \in Reqs \ {r} : req'[p] = req[p]
<1>1. req' = [req EXCEPT ![r] = t] /\ Fits(t, r) /\ req[r] = New
  BY DEF Starts
<1>2. t # Done
  BY <1>1, RequestIsBusy DEF Fits
<1>3. New # Done
  BY BusyIs
<1>4. QED
  BY <1>1, <1>2, <1>3, MoveIs DEF Busy

LEMMA ContinueMoves ==
  ASSUME RequestsOK, NEW r \in Reqs, NEW t, GoesOn(r, t)
  PROVE  /\ Moves(r) /\ Busy(r)' /\ req'[r] = t /\ req[r] # Done
         /\ t \in Request /\ \A p \in Reqs \ {r} : req'[p] = req[p]
<1>1. req' = [req EXCEPT ![r] = t] /\ Fits(t, r) /\ Goes(r, t)
  BY DEF GoesOn
<1>2. t # Done
  BY <1>1, RequestIsBusy DEF Fits
<1>3. /\ RequestsOK' /\ req'[r] = t /\ Others(r) /\ Busy(r)' /\ t \in Request
      /\ \A p \in Reqs \ {r} : req'[p] = req[p]
  BY <1>1, <1>2, MoveIs
<1>4. Busy(r) /\ t.op = req[r].op /\ t.id = req[r].id /\ t.product = req[r].product
  BY <1>1 DEF Goes
<1>5. QED
  BY <1>3, <1>4 DEF Moves, Busy

LEMMA GiveIs ==
  ASSUME TypeInv, NEW r \in Reqs, Gives(r)
  PROVE  /\ Finishes(r) /\ Moves(r) /\ req'[r] = Done /\ ~Busy(r)'
         /\ \A p \in Reqs \ {r} : req'[p] = req[p]
         /\ unsure' \subseteq Ids
         /\ UNCHANGED <<rows, leaked, removed, held>>
<1>1. Finishes(r)
  BY DEF Gives, Abort, Finishes
<1>2. /\ Moves(r) /\ req'[r] = Done /\ ~Busy(r)'
      /\ \A p \in Reqs \ {r} : req'[p] = req[p]
  BY <1>1, FinishMoves DEF TypeInv
<1>3. req[r] \in Request /\ Fits(req[r], r)
  BY BusyIs DEF TypeInv, Gives
<1>4. unsure \subseteq Ids
  BY DEF TypeInv, TablesOK
<1>5. unsure' \subseteq Ids
  BY <1>3, <1>4 DEF Gives, Abort, Request
<1>6. QED
  BY <1>1, <1>2, <1>5 DEF Gives, Abort

\* Whatever r does, the others go on, and it does not begin again.
LEMMA StepMoves ==
  ASSUME TypeInv, NEW r \in Reqs, Step(r)
  PROVE  /\ RequestsOK' /\ Others(r) /\ req[r] # Done
         /\ Begins(r) \/ Moves(r)
<1>0. RequestsOK /\ (Busy(r) => req[r] # Done)
  BY DEF TypeInv, Busy
<1>1. CASE Begins(r)
  BY <1>0, <1>1, BeginMoves DEF Begins
<1>2. CASE Continues(r)
  BY <1>0, <1>2, ContinueMoves DEF Continues, Moves
<1>3. CASE Gives(r)
  BY <1>0, <1>3, GiveIs DEF Moves
<1>4. CASE Commit(r)
  BY <1>0, <1>4, CommitIs, FinishMoves DEF Moves
<1>5. CASE UpdatesProduct(r)
  BY <1>0, <1>5, FinishMoves DEF Moves, UpdatesProduct
<1>7. CASE DeleteProduct(r)
  BY <1>0, <1>7, DeleteProductIs DEF Moves
<1>8. CASE DeleteImage(r)
  BY <1>0, <1>8, DeleteImageIs, FinishMoves DEF Moves
<1>9. CASE UpdatesVariant(r)
  BY <1>0, <1>9, FinishMoves DEF Moves, UpdatesVariant
<1>10. CASE PostsReview(r)
  BY <1>0, <1>10, OweMoves DEF Moves, PostsReview
<1>11. CASE RevisesIt(r)
  BY <1>0, <1>11, OweMoves DEF Moves, RevisesIt
<1>12. CASE SoftDelete(r)
  BY <1>0, <1>12, SoftDeleteIs, OweMoves DEF Moves
<1>13. CASE StoreStats(r)
  BY <1>0, <1>13, StoreStatsIs, FinishMoves DEF Moves
<1>14. QED
  BY <1>1, <1>2, <1>3, <1>4, <1>5, <1>7, <1>8, <1>9, <1>10, <1>11, <1>12, <1>13 DEF Step

LEMMA PoolStep ==
  ASSUME TypeInv, NEW r \in Reqs, Step(r)
  PROVE  PoolOK'
<1>0. RequestsOK /\ PoolOK /\ Others(r)
  BY StepMoves DEF TypeInv
<1>1. CASE Begins(r)
  <2>1. Free /\ leaked' = leaked
    BY <1>1 DEF Begins, Starts
  <2>2. QED
    BY <1>0, <2>1, PoolStays
<1>2. CASE Continues(r)
  <2>1. PICK t : GoesOn(r, t)
    BY <1>2 DEF Continues
  <2>2. Busy(r) /\ req'[r] = t /\ Fits(t, r) /\ Fits(req[r], r)
    BY <1>0, <2>1, ContinueMoves, BusyIs DEF GoesOn, Moves
  <2>3. (t.tx <=> t.pc \in Holding) /\ (req[r].tx <=> req[r].pc \in Holding)
    BY <2>2 DEF Fits
  <2>4. CASE leaked' = leaked /\ (t.pc \in Holding => req[r].pc \in Holding \/ Free)
    BY <1>0, <2>2, <2>3, <2>4, PoolStays
  <2>5. CASE leaked' = leaked + 1 /\ Free /\ req[r].pc \in Holding
    BY <1>0, <2>2, <2>3, <2>5, PoolLeaks
  <2>6. QED
    BY <2>1, <2>4, <2>5 DEF GoesOn
<1>3. CASE ~Begins(r) /\ ~Continues(r)
  <2>1. leaked' = leaked
    BY <1>3 DEF Step, Gives, Abort, Commit, UpdatesProduct, StoresProduct,
       DeleteProduct, DeleteImage, UpdatesVariant, StoresVariant, PostsReview,
       StoresNewReview, RevisesIt, StoresReview, SoftDelete, StoreStats
  <2>2. ~(Busy(r)' /\ req'[r].tx)
    <3>1. CASE \/ Gives(r) \/ Commit(r) \/ UpdatesProduct(r) \/ DeleteProduct(r)
               \/ DeleteImage(r) \/ UpdatesVariant(r) \/ StoreStats(r)
      BY <1>0, <3>1, GiveIs, CommitIs, DeleteProductIs, DeleteImageIs, StoreStatsIs, FinishMoves
         DEF UpdatesProduct, UpdatesVariant
    <3>3. CASE PostsReview(r) \/ RevisesIt(r) \/ SoftDelete(r)
      BY <1>0, <3>3, SoftDeleteIs, OweMoves DEF PostsReview, RevisesIt
    <3>4. QED
      BY <1>3, <3>1, <3>3 DEF Step
  <2>3. QED
    BY <1>0, <2>1, <2>2, PoolStays
<1>4. QED
  BY <1>1, <1>2, <1>3

LEMMA TablesStep ==
  ASSUME TypeInv, NEW r \in Reqs, Step(r)
  PROVE  TablesOK'
<1>0. /\ RequestsOK /\ TablesOK
      /\ product \in [Ids -> ProductRow \cup {ABSENT}]
      /\ variant \in [Ids -> VariantRow \cup {ABSENT}]
      /\ review \in [ReviewIds -> ReviewRow \cup {ABSENT}]
      /\ unsure \subseteq Ids /\ r \in Ids /\ Ids \cup Users = ReviewIds
  BY DEF TypeInv, TablesOK, Ids, ReviewIds
<1>1. CASE Begins(r) \/ Continues(r)
  BY <1>0, <1>1 DEF Begins, Continues, Starts, GoesOn, rows, history, TablesOK
<1>2. CASE Gives(r)
  BY <1>0, <1>2, GiveIs DEF rows, TablesOK
<1>3. CASE Commit(r)
  <2>1. Fits(req[r], r) /\ req[r].op \in {"create", "add_variant"} /\ req[r] \in Request
    BY <1>0, <1>3, CommitIs DEF Fits
  <2>2. /\ req[r].product \in Ids
        /\ req[r].entity.sku # ABSENT => req[r].entity.sku \in Skus
        /\ req[r].op = "create" => req[r].entity.slug \in Slugs
    BY <2>1 DEF Fits, ProductEntity, CreateVariantDto, Request
  <2>3. product' \in [Ids -> ProductRow \cup {ABSENT}]
    BY <1>0, <1>3, <2>2, Constants DEF Commit, ProductRow
  <2>4. variant' \in [Ids -> VariantRow \cup {ABSENT}]
    BY <1>0, <1>3, <2>2 DEF Commit, VariantRow
  <2>5. QED
    BY <1>0, <1>3, <2>3, <2>4 DEF Commit, history, TablesOK
<1>4. CASE UpdatesProduct(r)
  <2>1. /\ req[r].id \in Ids /\ req[r].entity.slug \in Slugs /\ req[r].stats \in Stats
    BY <1>4 DEF UpdatesProduct, Fits, Request, ProductEntity
  <2>2. PICK p, x : p = req[r].id /\ StoresProduct(r, x)
    BY <1>4 DEF UpdatesProduct
  <2>3. \/ product' = product /\ unsure' = unsure
        \/ /\ product' = [product EXCEPT ![p] = x] /\ unsure' \subseteq unsure \cup {p}
           /\ x \in ProductRow
    <3>1. CASE req[r].found = ABSENT
      BY <2>1, <2>2, <3>1 DEF StoresProduct, ProductRow
    <3>2. CASE req[r].found # ABSENT /\ p \in Product
      <4>1. product[p].slug \in Slugs /\ product[p].stats \in Stats
        BY <1>0, <3>2 DEF Product, ProductRow
      <4>2. x \in ProductRow
        BY <2>1, <2>2, <4>1 DEF StoresProduct, ProductRow
      <4>3. QED
        BY <2>2, <3>2, <4>2 DEF StoresProduct
    <3>3. CASE req[r].found # ABSENT /\ p \notin Product
      BY <2>2, <3>3 DEF StoresProduct
    <3>4. QED
      BY <3>1, <3>2, <3>3
  <2>4. product' \in [Ids -> ProductRow \cup {ABSENT}] /\ unsure' \subseteq Ids
    BY <1>0, <2>1, <2>2, <2>3
  <2>5. QED
    BY <1>0, <2>2, <2>4 DEF StoresProduct, TablesOK
<1>6. CASE DeleteProduct(r)
  <2>1. product' \in [Ids -> ProductRow \cup {ABSENT}]
    BY <1>0, <1>6 DEF DeleteProduct
  <2>2. variant' \in [Ids -> VariantRow \cup {ABSENT}]
    BY <1>0, <1>6 DEF DeleteProduct
  <2>3. review' \in [ReviewIds -> ReviewRow \cup {ABSENT}]
    BY <1>0, <1>6 DEF DeleteProduct
  <2>4. QED
    BY <1>0, <1>6, <2>1, <2>2, <2>3 DEF DeleteProduct, TablesOK
<1>7. CASE DeleteImage(r)
  BY <1>0, <1>7 DEF DeleteImage, history, TablesOK
<1>8. CASE UpdatesVariant(r)
  <2>1. /\ req[r].id \in Ids /\ req[r].entity.sku \in Skus /\ req[r].product \in Ids
    BY <1>8 DEF UpdatesVariant, Fits, Request, CreateVariantDto
  <2>2. PICK v, k, p : v = req[r].id /\ k = req[r].entity.sku /\ p = req[r].product
    OBVIOUS
  <2>3. \/ variant' = [variant EXCEPT ![v] = [product |-> p, sku |-> k, stocked |-> FALSE]]
        \/ variant' = variant
        \/ variant[v] # ABSENT /\ variant' = [variant EXCEPT ![v].sku = k]
    BY <1>8, <2>2 DEF UpdatesVariant, StoresVariant
  <2>4. [product |-> p, sku |-> k, stocked |-> FALSE] \in VariantRow
    BY <2>1, <2>2 DEF VariantRow
  <2>5. variant[v] # ABSENT => [variant[v] EXCEPT !.sku = k] \in VariantRow
    BY <1>0, <2>1, <2>2 DEF VariantRow
  <2>6. variant' \in [Ids -> VariantRow \cup {ABSENT}]
    BY <1>0, <2>1, <2>2, <2>3, <2>4, <2>5
  <2>7. QED
    BY <1>0, <1>8, <2>6 DEF UpdatesVariant, StoresVariant, history, TablesOK
<1>9. CASE PostsReview(r)
  <2>1. req[r].entity \in ReviewRow /\ r \in ReviewIds
    BY <1>9 DEF PostsReview, Fits, ReviewIds, Ids
  <2>2. review' \in [ReviewIds -> ReviewRow \cup {ABSENT}]
    BY <1>0, <1>9, <2>1 DEF PostsReview, StoresNewReview
  <2>3. QED
    BY <1>0, <1>9, <2>2 DEF PostsReview, StoresNewReview, history, TablesOK
<1>10. CASE RevisesIt(r)
  <2>1. PICK x : StoresReview(r, x)
    BY <1>10 DEF RevisesIt
  <2>2. review' \in [ReviewIds -> ReviewRow \cup {ABSENT}]
    BY <1>0, <2>1 DEF StoresReview
  <2>3. QED
    BY <1>0, <2>1, <2>2 DEF StoresReview, history, TablesOK
<1>11. CASE SoftDelete(r)
  <2>1. PICK w : w = req[r].id
    OBVIOUS
  <2>2. w \in ReviewIds
    BY <1>0, <1>11, <2>1, SoftDeleteIs
  <2>3. review[w] # ABSENT => [review[w] EXCEPT !.deleted = TRUE] \in ReviewRow
    BY <1>0, <2>2 DEF ReviewRow
  <2>4. review' = IF review[w] = ABSENT THEN review ELSE [review EXCEPT ![w].deleted = TRUE]
    BY <1>11, <2>1 DEF SoftDelete
  <2>5. review' \in [ReviewIds -> ReviewRow \cup {ABSENT}]
    BY <1>0, <2>2, <2>3, <2>4
  <2>6. QED
    BY <1>0, <1>11, <2>5 DEF SoftDelete, TablesOK
<1>12. CASE StoreStats(r)
  <2>1. PICK p, s : p = req[r].product /\ s = req[r].stats
    OBVIOUS
  <2>2. p \in Ids /\ s \in Stats
    BY <1>0, <1>12, <2>1, StoreStatsIs
  <2>3. p \in Product => [product[p] EXCEPT !.stats = s] \in ProductRow
    BY <1>0, <2>2 DEF Product, ProductRow
  <2>4. product' = IF p \in Product THEN [product EXCEPT ![p].stats = s] ELSE product
    BY <1>12, <2>1 DEF StoreStats
  <2>5. product' \in [Ids -> ProductRow \cup {ABSENT}]
    BY <1>0, <2>2, <2>3, <2>4
  <2>6. unsure' \subseteq Ids
    BY <1>0, <1>12, <2>1, <2>2 DEF StoreStats
  <2>7. QED
    BY <1>0, <1>12, <2>5, <2>6 DEF StoreStats, TablesOK
<1>13. QED
  BY <1>1, <1>2, <1>3, <1>4, <1>6, <1>7, <1>8, <1>9, <1>10, <1>11, <1>12 DEF Step

LEMMA SlugsStep ==
  ASSUME TypeInv, NEW r \in Reqs, Step(r)
  PROVE  SlugsSuffice'
<1>0. /\ RequestsOK /\ TablesOK /\ SlugsSuffice /\ Others(r) /\ req[r] # Done
      /\ product \in [Ids -> ProductRow \cup {ABSENT}] /\ r \in Ids
  BY StepMoves DEF TypeInv, TablesOK, Ids
<1>1. CASE Begins(r)
  <2>1. PICK t : Starts(r, t)
    BY <1>1 DEF Begins
  <2>2. Candidate(r)
    BY <1>0, <2>1, BeginMoves DEF Candidate, Starts, Begun, Saving
  <2>3. product' = product
    BY <2>1 DEF Starts, rows
  <2>4. QED
    BY <1>0, <2>2, <2>3, SlugsStay DEF Product
<1>2. CASE Continues(r)
  <2>1. PICK t : GoesOn(r, t)
    BY <1>2 DEF Continues
  <2>2. Candidate(r)
    BY <1>0, <2>1, ContinueMoves DEF Candidate, GoesOn, Goes
  <2>3. product' = product
    BY <2>1 DEF GoesOn, rows
  <2>4. QED
    BY <1>0, <2>2, <2>3, SlugsStay DEF Product
<1>3. CASE Commit(r) /\ req[r].op = "create"
  <2>1. PICK s : s = req[r].entity.slug
    OBVIOUS
  <2>2. Fits(req[r], r) /\ req'[r] = Done
    BY <1>0, <1>3, CommitIs, FinishMoves
  <2>3. s \in Slugs
    BY <1>3, <2>1, <2>2 DEF Fits, ProductEntity
  <2>4. product' = [product EXCEPT ![r] = [slug |-> s, stats |-> NoStats]]
    BY <1>3, <2>1 DEF Commit
  <2>5. \A p \in Product' : product'[p].slug = s \/ \E o \in Product : product'[p].slug = product[o].slug
    BY <1>0, <2>4 DEF Product
  <2>6. QED
    BY <1>0, <2>2, <2>3, <2>5, SlugsGrow
<1>4. CASE UpdatesProduct(r)
  <2>1. PICK p, s, x : p = req[r].id /\ s = req[r].entity.slug /\ StoresProduct(r, x)
    BY <1>4 DEF UpdatesProduct
  <2>2. s \in Slugs /\ req'[r] = Done /\ p \in Ids
    BY <1>0, <1>4, <2>1, FinishMoves DEF UpdatesProduct, Fits, ProductEntity, Request
  <2>3. product' = product \/ product' = [product EXCEPT ![p] = x]
    BY <2>1 DEF StoresProduct
  <2>4. product' # product => x.slug = s \/ (p \in Product /\ x.slug = product[p].slug)
    BY <2>1 DEF StoresProduct
  <2>5. \A o \in Product' : product'[o].slug = s \/ \E n \in Product : product'[o].slug = product[n].slug
    BY <1>0, <2>2, <2>3, <2>4 DEF Product
  <2>6. QED
    BY <1>0, <2>2, <2>5, SlugsGrow
<1>5. CASE \/ Gives(r) \/ (Commit(r) /\ req[r].op # "create") \/ DeleteProduct(r)
           \/ DeleteImage(r) \/ UpdatesVariant(r) \/ PostsReview(r) \/ RevisesIt(r)
           \/ SoftDelete(r) \/ StoreStats(r)
  <2>1. Moves(r)
    <3>1. ~Begins(r) \/ Moves(r)
      BY <1>5 DEF Begins, Starts, Gives, Commit, DeleteProduct, DeleteImage,
         UpdatesVariant, PostsReview, RevisesIt, SoftDelete, StoreStats, Finishes, Owes, New, Busy
    <3>2. QED
      BY <3>1, StepMoves
  <2>2. Candidate(r)
    <3>1. CASE req'[r] = Done
      BY <3>1 DEF Candidate, Busy
    <3>3. CASE PostsReview(r) \/ RevisesIt(r) \/ SoftDelete(r)
      <4>1. Owes(r)
        BY <1>0, <3>3, SoftDeleteIs DEF PostsReview, RevisesIt
      <4>2. req[r].op # "create"
        BY <4>1 DEF Owes, Saving
      <4>3. QED
        BY <2>1, <4>2 DEF Candidate, Moves, Busy
    <3>4. QED
      BY <1>0, <1>5, <3>1, <3>3, GiveIs, CommitIs, DeleteProductIs, DeleteImageIs,
         StoreStatsIs, FinishMoves DEF UpdatesVariant
  <2>3. \A p \in Product' : \E o \in Product : product'[p].slug = product[o].slug
    <3>1. CASE StoreStats(r)
      <4>1. PICK k, s : k = req[r].product /\ s = req[r].stats
        OBVIOUS
      <4>2. product' = IF k \in Product THEN [product EXCEPT ![k].stats = s] ELSE product
        BY <3>1, <4>1 DEF StoreStats
      <4>3. \A p \in Product : product[p] \in ProductRow /\ p \in Ids
        BY <1>0 DEF Product
      <4>4. \A p \in Product' : p \in Product /\ product'[p].slug = product[p].slug
        BY <1>0, <4>2, <4>3 DEF Product, ProductRow
      <4>5. QED
        BY <4>4
    <3>2. CASE DeleteProduct(r)
      BY <1>0, <3>2 DEF DeleteProduct, Product
    <3>3. CASE ~StoreStats(r) /\ ~DeleteProduct(r)
      <4>1. product' = product
        BY <1>5, <3>3 DEF Gives, Abort, rows, Commit, DeleteImage, UpdatesVariant,
           StoresVariant, PostsReview, StoresNewReview, RevisesIt, StoresReview, SoftDelete
      <4>2. QED
        BY <4>1 DEF Product
    <3>4. QED
      BY <3>1, <3>2, <3>3
  <2>4. QED
    BY <1>0, <2>2, <2>3, SlugsStay
<1>6. QED
  BY <1>1, <1>2, <1>3, <1>4, <1>5 DEF Step

LEMMA TypeNext ==
  TypeInv /\ [Next]_vars => TypeInv'
<1>1. SUFFICES ASSUME TypeInv, [Next]_vars PROVE TypeInv'
  OBVIOUS
<1>2. CASE UNCHANGED vars
  BY <1>1, <1>2 DEF TypeInv, vars, RequestsOK, TablesOK, PoolOK, Holders, SlugsSuffice, Ended,
     Product, Busy
<1>3. ASSUME NEW r \in Reqs, Step(r) PROVE TypeInv'
  BY <1>1, <1>3, StepMoves, TablesStep, PoolStep, SlugsStep DEF TypeInv
<1>4. QED
  BY <1>1, <1>2, <1>3, StepCases

LEMMA InitIs ==
  ASSUME Init
  PROVE  /\ FIRST \in Ids /\ req = [r \in Reqs |-> New] /\ \A r \in Reqs : ~Busy(r)
         /\ removed = {} /\ held = {} /\ unsure = {} /\ leaked = 0
         /\ variant \in [Ids -> VariantRow \cup {ABSENT}]
         /\ \A v \in Ids : variant[v] # ABSENT =>
              v = FIRST /\ variant[v].product = FIRST /\ variant[v].stocked = TRUE
         /\ image = {FIRST}
         /\ \E reviewers \in SUBSET Users :
              /\ IsFiniteSet(reviewers) /\ Cardinality(reviewers) \in Nat
              /\ review \in [ReviewIds -> ReviewRow \cup {ABSENT}]
              /\ \A w \in ReviewIds :
                   /\ review[w] # ABSENT <=> w \in reviewers
                   /\ w \in reviewers => /\ review[w].user = w /\ review[w].product = FIRST
                                         /\ review[w].rating = FirstRating
                                         /\ review[w].approved = TRUE
                                         /\ review[w].deleted = FALSE
              /\ product \in [Ids -> ProductRow \cup {ABSENT}]
              /\ \A p \in Ids : product[p] # ABSENT <=> p = FIRST
              /\ product[FIRST].slug = 0
              /\ product[FIRST].stats = [count |-> Cardinality(reviewers),
                                         sum |-> FirstRating * Cardinality(reviewers)]
<1>1. /\ FIRST \in Ids /\ req = [r \in Reqs |-> New] /\ \A r \in Reqs : ~Busy(r)
      /\ removed = {} /\ held = {} /\ unsure = {} /\ leaked = 0
  BY DEF Init, Ids, Busy
<1>2. PICK reviewers \in SUBSET Users :
       /\ review = [w \in ReviewIds |-> IF w \in reviewers
            THEN [user |-> w, product |-> FIRST, rating |-> FirstRating,
                  approved |-> TRUE, deleted |-> FALSE]
            ELSE ABSENT]
       /\ product = [p \in Ids |-> IF p = FIRST
            THEN [slug |-> 0, stats |-> [count |-> Cardinality(reviewers),
                                         sum |-> FirstRating * Cardinality(reviewers)]]
            ELSE ABSENT]
  BY DEF Init
<1>3. IsFiniteSet(reviewers) /\ Cardinality(reviewers) \in Nat
  BY CatalogAssumption, FS_Subset, FS_CardinalityType
<1>4. PICK first : first = [product |-> FIRST, sku |-> FirstSku, stocked |-> TRUE]
  OBVIOUS
<1>5. first \in VariantRow /\ first # ABSENT /\ first.product = FIRST /\ first.stocked = TRUE
  <2>1. first \in VariantRow
    BY <1>1, <1>4, CatalogAssumption DEF VariantRow
  <2>2. QED
    BY <1>4, <2>1, AbsentAssumption
<1>6. /\ variant \in [Ids -> VariantRow \cup {ABSENT}]
      /\ \A v \in Ids : variant[v] # ABSENT =>
           v = FIRST /\ variant[v].product = FIRST /\ variant[v].stocked = TRUE
  <2>1. variant = [v \in Ids |-> IF v = FIRST THEN first ELSE ABSENT]
    BY <1>4 DEF Init
  <2>2. QED
    BY <1>5, <2>1
<1>7. image = {FIRST}
  BY DEF Init
<1>8. /\ review \in [ReviewIds -> ReviewRow \cup {ABSENT}]
      /\ \A w \in ReviewIds :
           /\ review[w] # ABSENT <=> w \in reviewers
           /\ w \in reviewers => /\ review[w].user = w /\ review[w].product = FIRST
                                 /\ review[w].rating = FirstRating
                                 /\ review[w].approved = TRUE
                                 /\ review[w].deleted = FALSE
  <2>1. \A w \in reviewers :
          [user |-> w, product |-> FIRST, rating |-> FirstRating,
           approved |-> TRUE, deleted |-> FALSE] \in ReviewRow
    BY <1>1, CatalogAssumption DEF ReviewRow
  <2>2. QED
    BY <1>2, <2>1, AbsentAssumption
<1>9. PICK st, row : /\ st = [count |-> Cardinality(reviewers),
                              sum |-> FirstRating * Cardinality(reviewers)]
                     /\ row = [slug |-> 0, stats |-> st]
  OBVIOUS
<1>10. st \in Stats
  <2>1. FirstRating \in Nat
    BY CatalogAssumption
  <2>2. FirstRating * Cardinality(reviewers) \in Nat
    BY <1>3, <2>1
  <2>3. QED
    BY <1>3, <1>9, <2>2 DEF Stats
<1>11. row \in ProductRow /\ row # ABSENT /\ row.slug = 0 /\ row.stats = st
  BY <1>9, <1>10, Constants, AbsentAssumption DEF ProductRow
<1>12. product = [p \in Ids |-> IF p = FIRST THEN row ELSE ABSENT]
  BY <1>2, <1>9
<1>13. /\ product \in [Ids -> ProductRow \cup {ABSENT}]
       /\ \A p \in Ids : product[p] # ABSENT <=> p = FIRST
       /\ product[FIRST].slug = 0 /\ product[FIRST].stats = st
  BY <1>1, <1>11, <1>12
<1>14. QED
  BY <1>1, <1>3, <1>6, <1>7, <1>8, <1>9, <1>13

LEMMA TypeInit == Init => TypeInv
<1>1. SUFFICES ASSUME Init PROVE TypeInv
  OBVIOUS
<1>2. /\ FIRST \in Ids /\ req = [r \in Reqs |-> New] /\ \A r \in Reqs : ~Busy(r)
      /\ unsure = {} /\ leaked = 0
      /\ \A p \in Ids : product[p] # ABSENT <=> p = FIRST
      /\ product[FIRST].slug = 0
  BY <1>1, InitIs
<1>3. RequestsOK
  BY <1>2 DEF RequestsOK
<1>4. TablesOK
  BY <1>1, InitIs DEF TablesOK
<1>5. PoolOK
  <2>1. Holders = {}
    BY <1>2 DEF Holders
  <2>2. Cardinality(Holders) = 0
    BY <2>1, FS_EmptySet
  <2>3. QED
    BY <1>2, <2>2, CatalogAssumption DEF PoolOK
<1>6. SlugsSuffice
  <2>1. {0} \in SUBSET Slugs /\ Cardinality({0}) = 1
    BY Constants, FS_Singleton
  <2>2. Cardinality(Ended) \in Nat
    BY HoldersFinite
  <2>3. /\ \A p \in Product : product[p].slug \in {0}
        /\ \A r \in Reqs : Busy(r) /\ req[r].op = "create" =>
             0..(req[r].entity.slug - 1) \subseteq {0}
    BY <1>2 DEF Product
  <2>4. Cardinality({0}) <= 1 + Cardinality(Ended)
    BY <2>1, <2>2
  <2>5. QED
    BY <2>1, <2>3, <2>4 DEF SlugsSuffice
<1>7. QED
  BY <1>3, <1>4, <1>5, <1>6 DEF TypeInv

-----------------------------------------------------------------------------
(* What steps do to the rows.                                              *)

LEMMA CommitWrites ==
  ASSUME TypeInv, NEW r \in Reqs, Commit(r)
  PROVE  /\ r \in Ids /\ req[r].product \in Ids
         /\ \A p \in Ids \ {r} : /\ product'[p] = product[p] /\ variant'[p] = variant[p]
         /\ req[r].op = "create" =>
              /\ product'[r] # ABSENT /\ product'[r].slug = req[r].entity.slug
              /\ product'[r].stats = NoStats
              /\ req[r].product = r
         /\ req[r].op # "create" => product' = product /\ image' = image
         /\ req[r].op = "create" => image' = image \cup {r}
         /\ req[r].entity.sku = ABSENT => variant' = variant
         /\ req[r].entity.sku # ABSENT =>
              /\ VariantPending(r)
              /\ variant'[r] # ABSENT /\ variant'[r].product = req[r].product
              /\ variant'[r].sku = req[r].entity.sku /\ variant'[r].stocked = TRUE
<1>0. /\ r \in Ids /\ RequestsOK
      /\ product \in [Ids -> ProductRow \cup {ABSENT}]
      /\ variant \in [Ids -> VariantRow \cup {ABSENT}]
  BY DEF Ids, TypeInv, TablesOK
<1>1. /\ Fits(req[r], r) /\ req[r].op \in {"create", "add_variant"} /\ req[r] \in Request
      /\ Busy(r) /\ req[r].tx /\ req[r].pc = "commit"
  BY <1>0, CommitIs DEF Fits, Finishes
<1>2. /\ req[r].product \in Ids
      /\ req[r].entity.sku # ABSENT => req[r].entity.sku \in Skus
      /\ req[r].op = "create" => req[r].entity.slug \in Slugs /\ req[r].product = r
  BY <1>1 DEF Fits, ProductEntity, CreateVariantDto, Request
<1>3. PICK row, vrow : /\ row = [slug |-> req[r].entity.slug, stats |-> NoStats]
                       /\ vrow = [product |-> req[r].product, sku |-> req[r].entity.sku,
                                  stocked |-> TRUE]
  OBVIOUS
<1>4. req[r].op = "create" => row \in ProductRow
  BY <1>2, <1>3, Constants DEF ProductRow
<1>5. req[r].entity.sku # ABSENT => vrow \in VariantRow
  BY <1>2, <1>3 DEF VariantRow
<1>6. /\ product' = IF req[r].op = "create" THEN [product EXCEPT ![r] = row] ELSE product
      /\ variant' = IF req[r].entity.sku = ABSENT THEN variant ELSE [variant EXCEPT ![r] = vrow]
      /\ image' = IF req[r].op = "create" THEN image \cup {r} ELSE image
  BY <1>3 DEF Commit
<1>7. req[r].op = "create" =>
        /\ product'[r] # ABSENT /\ product'[r].slug = req[r].entity.slug
        /\ product'[r].stats = NoStats
  BY <1>0, <1>3, <1>4, <1>6, AbsentAssumption
<1>8. req[r].entity.sku # ABSENT =>
        /\ variant'[r] # ABSENT /\ variant'[r].product = req[r].product
        /\ variant'[r].sku = req[r].entity.sku /\ variant'[r].stocked = TRUE
  BY <1>0, <1>3, <1>5, <1>6, AbsentAssumption
<1>9. req[r].entity.sku # ABSENT => VariantPending(r)
  BY <1>1 DEF VariantPending, Inserting
<1>10. QED
  BY <1>0, <1>2, <1>6, <1>7, <1>8, <1>9

LEMMA UpdateWrites ==
  ASSUME TypeInv, NEW r \in Reqs, UpdatesProduct(r), NEW p, p = req[r].id,
         NEW s, s = req[r].entity.slug
  PROVE  /\ p \in Ids /\ \A o \in Ids \ {p} : product'[o] = product[o]
         /\ product'[p] # ABSENT =>
              \/ product[p] # ABSENT /\ product'[p].slug = product[p].slug
              \/ product'[p].slug = s /\ ~SlugTaken(s, p) /\ ~SlugPending(s, r)
         /\ product[p] # ABSENT => product'[p] # ABSENT
         /\ product[p] = ABSENT /\ product'[p] # ABSENT => req[r].found = ABSENT
         /\ product'[p] # ABSENT =>
              (product[p] # ABSENT /\ product'[p].stats = product[p].stats) \/ p \in unsure'
         /\ unsure \subseteq unsure'
         /\ UNCHANGED <<variant, review, image, leaked, removed, held>>
<1>0. /\ product \in [Ids -> ProductRow \cup {ABSENT}] /\ product' \in [Ids -> ProductRow \cup {ABSENT}]
  BY TablesStep DEF TypeInv, TablesOK, Step
<1>1. PICK x : StoresProduct(r, x)
  BY DEF UpdatesProduct
<1>2. p \in Ids
  BY DEF UpdatesProduct, Fits, Request
<1>3. /\ unsure \subseteq unsure'
      /\ UNCHANGED <<variant, review, image, leaked, removed, held>>
  BY <1>1 DEF StoresProduct
<1>4. product[p] # ABSENT <=> p \in Product
  BY <1>2 DEF Product
<1>5. CASE req[r].found = ABSENT
  <2>1. /\ product[p] = ABSENT /\ p \in unsure' /\ product' = [product EXCEPT ![p] = x]
        /\ x.slug = s /\ ~SlugTaken(s, p) /\ ~SlugPending(s, r)
    BY <1>1, <1>2, <1>4, <1>5 DEF StoresProduct
  <2>2. QED
    BY <1>0, <1>2, <1>3, <1>5, <2>1
<1>6. CASE req[r].found # ABSENT /\ p \in Product
  <2>1. /\ product' = [product EXCEPT ![p] = x]
        /\ x.slug = product[p].slug \/ (x.slug = s /\ ~SlugTaken(s, p) /\ ~SlugPending(s, r))
        /\ x.stats = product[p].stats \/ p \in unsure'
    BY <1>1, <1>6 DEF StoresProduct
  <2>2. x # ABSENT
    <3>1. x = [slug |-> x.slug, stats |-> x.stats] /\ product[p] \in ProductRow
      BY <1>0, <1>1, <1>2, <1>4, <1>6 DEF StoresProduct
    <3>2. req[r].entity.slug \in Slugs /\ req[r].stats \in Stats
      BY DEF UpdatesProduct, Fits, ProductEntity, Request
    <3>3. x \in ProductRow
      BY <1>1, <3>1, <3>2 DEF StoresProduct, ProductRow
    <3>4. QED
      BY <3>3, AbsentAssumption
  <2>3. product'[p] = x
    BY <1>0, <1>2, <2>1
  <2>4. QED
    BY <1>0, <1>2, <1>3, <1>4, <1>6, <2>1, <2>2, <2>3
<1>7. CASE req[r].found # ABSENT /\ p \notin Product
  BY <1>1, <1>2, <1>3, <1>4, <1>7 DEF StoresProduct
<1>8. QED
  BY <1>5, <1>6, <1>7

LEMMA StoreStatsWrites ==
  ASSUME TypeInv, NEW r \in Reqs, StoreStats(r), NEW p, p = req[r].product
  PROVE  /\ p \in Ids /\ \A o \in Ids \ {p} : product'[o] = product[o]
         /\ product'[p] # ABSENT <=> product[p] # ABSENT
         /\ product'[p] # ABSENT =>
              product'[p].slug = product[p].slug /\ product'[p].stats = req[r].stats
<1>0. product \in [Ids -> ProductRow \cup {ABSENT}] /\ RequestsOK
  BY DEF TypeInv, TablesOK
<1>1. PICK st : st = req[r].stats
  OBVIOUS
<1>2. p \in Ids /\ st \in Stats
  BY <1>0, <1>1, StoreStatsIs
<1>3. product' = IF p \in Product THEN [product EXCEPT ![p].stats = st] ELSE product
  BY <1>1 DEF StoreStats
<1>4. CASE p \in Product
  <2>1. product[p] \in ProductRow
    BY <1>0, <1>4 DEF Product
  <2>2. PICK row : row = [product[p] EXCEPT !.stats = st]
    OBVIOUS
  <2>3. row.stats = st /\ row.slug = product[p].slug /\ row \in ProductRow
    BY <1>2, <2>1, <2>2 DEF ProductRow
  <2>4. product' = [product EXCEPT ![p] = row]
    BY <1>3, <1>4, <2>2
  <2>5. QED
    BY <1>0, <1>1, <1>2, <1>4, <2>3, <2>4, AbsentAssumption DEF Product
<1>5. CASE p \notin Product
  BY <1>2, <1>3, <1>5 DEF Product
<1>6. QED
  BY <1>4, <1>5

LEMMA VariantWrites ==
  ASSUME TypeInv, NEW r \in Reqs, UpdatesVariant(r), NEW v, v = req[r].id,
         NEW s, s = req[r].entity.sku
  PROVE  /\ v \in Ids /\ \A o \in Ids \ {v} : variant'[o] = variant[o]
         /\ variant'[v] # ABSENT =>
              \/ variant[v] # ABSENT /\ variant'[v].sku = variant[v].sku
              \/ variant'[v].sku = s /\ ~SkuTaken(s, v) /\ ~SkuPending(s, r)
         /\ variant[v] # ABSENT => /\ variant'[v] # ABSENT
                                   /\ variant'[v].product = variant[v].product
                                   /\ variant'[v].stocked = variant[v].stocked
         /\ variant[v] = ABSENT /\ variant'[v] # ABSENT =>
              /\ req[r].found = ABSENT /\ req[r].product \in Product
              /\ variant'[v].product = req[r].product
         /\ UNCHANGED <<product, review, image, leaked, history>>
<1>0. variant \in [Ids -> VariantRow \cup {ABSENT}]
  BY DEF TypeInv, TablesOK
<1>1. PICK k, p : k = req[r].entity.sku /\ p = req[r].product
  OBVIOUS
<1>2. v \in Ids /\ k \in Skus /\ p \in Ids
  BY <1>1 DEF UpdatesVariant, Fits, Request, CreateVariantDto
<1>3. \/ /\ req[r].found = ABSENT /\ variant[v] = ABSENT /\ p \in Product
         /\ variant' = [variant EXCEPT ![v] = [product |-> p, sku |-> k, stocked |-> FALSE]]
         /\ ~SkuTaken(s, v) /\ ~SkuPending(s, r)
      \/ variant' = variant
      \/ /\ variant[v] # ABSENT /\ variant' = [variant EXCEPT ![v].sku = k]
         /\ ~SkuTaken(s, v) /\ ~SkuPending(s, r)
  BY <1>1 DEF UpdatesVariant, StoresVariant
<1>4. UNCHANGED <<product, review, image, leaked, history>>
  BY DEF UpdatesVariant, StoresVariant
<1>5. CASE /\ req[r].found = ABSENT /\ variant[v] = ABSENT /\ p \in Product
           /\ ~SkuTaken(s, v) /\ ~SkuPending(s, r)
           /\ variant' = [variant EXCEPT ![v] = [product |-> p, sku |-> k, stocked |-> FALSE]]
  BY <1>0, <1>1, <1>2, <1>4, <1>5
<1>6. CASE variant' = variant
  BY <1>2, <1>4, <1>6
<1>7. CASE /\ variant[v] # ABSENT /\ variant' = [variant EXCEPT ![v].sku = k]
           /\ ~SkuTaken(s, v) /\ ~SkuPending(s, r)
  <2>1. variant[v] \in VariantRow
    BY <1>0, <1>2, <1>7
  <2>2. PICK row : row = [variant[v] EXCEPT !.sku = k]
    OBVIOUS
  <2>3. /\ row.sku = k /\ row.product = variant[v].product /\ row.stocked = variant[v].stocked
        /\ row \in VariantRow
    BY <1>2, <2>1, <2>2 DEF VariantRow
  <2>4. variant' = [variant EXCEPT ![v] = row]
    BY <1>7, <2>2
  <2>5. QED
    BY <1>0, <1>1, <1>2, <1>4, <1>7, <2>3, <2>4, AbsentAssumption
<1>8. QED
  BY <1>3, <1>5, <1>6, <1>7

LEMMA PostWrites ==
  ASSUME TypeInv, NEW r \in Reqs, PostsReview(r)
  PROVE  /\ r \in ReviewIds /\ \A w \in ReviewIds \ {r} : review'[w] = review[w]
         /\ review'[r] # ABSENT /\ review'[r].product = req[r].product
         /\ review'[r].user = req[r].entity.user
         /\ req[r].product \in Product
         /\ UNCHANGED <<product, variant, image, leaked, history>>
<1>0. review \in [ReviewIds -> ReviewRow \cup {ABSENT}] /\ r \in ReviewIds
  BY DEF TypeInv, TablesOK, ReviewIds, Ids
<1>1. req[r].entity \in ReviewRow /\ req[r].entity.product = req[r].product
  BY DEF PostsReview, Fits
<1>2. QED
  BY <1>0, <1>1, AbsentAssumption DEF PostsReview, StoresNewReview

LEMMA SoftDeleteWrites ==
  ASSUME TypeInv, NEW r \in Reqs, SoftDelete(r), NEW w, w = req[r].id
  PROVE  /\ w \in ReviewIds /\ \A o \in ReviewIds \ {w} : review'[o] = review[o]
         /\ review'[w] # ABSENT <=> review[w] # ABSENT
         /\ review'[w] # ABSENT => /\ review'[w].deleted = TRUE
                                   /\ review'[w].product = review[w].product
         /\ removed' = removed \cup {<<"review", w>>} /\ held \subseteq held'
         /\ UNCHANGED <<product, variant, image, leaked, unsure>>
<1>0. review \in [ReviewIds -> ReviewRow \cup {ABSENT}] /\ RequestsOK
  BY DEF TypeInv, TablesOK
<1>1. w \in ReviewIds
  BY <1>0, SoftDeleteIs
<1>2. review' = IF review[w] = ABSENT THEN review ELSE [review EXCEPT ![w].deleted = TRUE]
  BY DEF SoftDelete
<1>3. removed' = removed \cup {<<"review", w>>} /\ held \subseteq held'
      /\ UNCHANGED <<product, variant, image, leaked, unsure>>
  BY DEF SoftDelete, Deleted
<1>4. CASE review[w] = ABSENT
  BY <1>1, <1>2, <1>3, <1>4
<1>5. CASE review[w] # ABSENT
  <2>1. review[w] \in ReviewRow
    BY <1>0, <1>1, <1>5
  <2>2. PICK row : row = [review[w] EXCEPT !.deleted = TRUE]
    OBVIOUS
  <2>3. row.deleted = TRUE /\ row.product = review[w].product /\ row \in ReviewRow
    BY <2>1, <2>2 DEF ReviewRow
  <2>4. review' = [review EXCEPT ![w] = row]
    BY <1>2, <1>5, <2>2
  <2>5. QED
    BY <1>0, <1>1, <1>3, <1>5, <2>3, <2>4, AbsentAssumption
<1>6. QED
  BY <1>4, <1>5

LEMMA ReviseWrites ==
  ASSUME TypeInv, NEW r \in Reqs, RevisesIt(r), NEW w, w = req[r].id
  PROVE  /\ w \in ReviewIds /\ \A o \in ReviewIds \ {w} : review'[o] = review[o]
         /\ review'[w] # ABSENT /\ ~review'[w].deleted =>
              ~Reviewed(review'[w].user, review'[w].product, w)
         /\ review[w] = ABSENT /\ review'[w] # ABSENT =>
              req[r].product \in Product /\ review'[w].product = req[r].product
         /\ review[w] # ABSENT /\ (req[r].found # ABSENT => req[r].found.product = req[r].product) =>
              review'[w] # ABSENT /\ review'[w].product = review[w].product
         /\ UNCHANGED <<product, variant, image, leaked, history>>
<1>0. review \in [ReviewIds -> ReviewRow \cup {ABSENT}] /\ RequestsOK
  BY DEF TypeInv, TablesOK
<1>1. w \in ReviewIds /\ req[r].entity.product = req[r].product
  BY DEF RevisesIt, Fits, Request
<1>2. PICK x : StoresReview(r, x)
  BY DEF RevisesIt
<1>3. review'[w] = x /\ \A o \in ReviewIds \ {w} : review'[o] = review[o]
  BY <1>0, <1>1, <1>2 DEF StoresReview
<1>4. UNCHANGED <<product, variant, image, leaked, history>>
  BY <1>2 DEF StoresReview
<1>5. x # ABSENT /\ ~x.deleted => ~Reviewed(x.user, x.product, w)
  BY <1>2 DEF StoresReview
<1>6. CASE req[r].found = ABSENT
  BY <1>1, <1>2, <1>3, <1>4, <1>5, <1>6 DEF StoresReview
<1>7. CASE req[r].found # ABSENT
  BY <1>1, <1>2, <1>3, <1>4, <1>5, <1>7 DEF StoresReview
<1>8. QED
  BY <1>6, <1>7

LEMMA DeleteWrites ==
  ASSUME TypeInv, NEW r \in Reqs, DeleteProduct(r), NEW p, p = req[r].id
  PROVE  /\ p \in Ids /\ product'[p] = ABSENT
         /\ \A o \in Ids \ {p} : product'[o] = product[o]
         /\ image' = image \ {p}
         /\ \A v \in Ids : variant[v] = ABSENT \/ variant[v].product # p => variant'[v] = variant[v]
         /\ \A v \in Ids : variant[v].product = p => variant'[v] = ABSENT
         /\ \A w \in ReviewIds : review[w] = ABSENT \/ review[w].product # p => review'[w] = review[w]
         /\ \A w \in ReviewIds : review[w].product = p => review'[w] = ABSENT
         /\ unsure' = unsure
         /\ ~\E q \in Reqs : VariantPending(q) /\ req[q].op = "add_variant" /\ req[q].product = p
<1>0. /\ product \in [Ids -> ProductRow \cup {ABSENT}] /\ RequestsOK
      /\ Ids \cup Users = ReviewIds
  BY DEF TypeInv, TablesOK, ReviewIds
<1>1. p \in Ids
  BY <1>0, DeleteProductIs
<1>2. QED
  BY <1>0, <1>1 DEF DeleteProduct

\* What a deletion notes.
LEMMA DeleteNotes ==
  ASSUME TypeInv, NEW r \in Reqs, DeleteProduct(r), NEW p, p = req[r].id
  PROVE  /\ removed \subseteq removed' /\ held \subseteq held' /\ <<"product", p>> \in removed'
         /\ \A o : <<"product", o>> \in removed' => <<"product", o>> \in removed \/ o = p
         /\ \A w : <<"review", w>> \in removed' =>
              \/ <<"review", w>> \in removed
              \/ /\ w \in ReviewIds /\ review[w] # ABSENT /\ review'[w] = ABSENT
                 /\ (\E q \in Reqs \ {r} : Busy(q) /\ req[q].op \in Saving /\ req[q].id = w) =>
                      <<"review", w>> \in held'
         /\ (\E q \in Reqs \ {r} : Busy(q) /\ req[q].op = "update" /\ req[q].id = p) =>
              <<"product", p>> \in held'
<1>1. PICK gone : gone = {w \in Ids \cup Users : review[w] # ABSENT /\ review[w].product = p}
  OBVIOUS
<1>2. PICK all : all = {<<"product", p>>} \cup {<<"review", w>> : w \in gone}
  OBVIOUS
<1>3. removed' = removed \cup all /\ held' = held \cup (all \cap HeldRows(r))
  BY <1>1, <1>2 DEF DeleteProduct, Deleted
<1>4. /\ \A o : <<"product", o>> \in all <=> o = p
      /\ \A w : <<"review", w>> \in all <=> w \in gone
  BY <1>2
<1>5. /\ \A q \in Reqs \ {r} : Busy(q) /\ req[q].op = "update" =>
           <<"product", req[q].id>> \in HeldRows(r)
      /\ \A q \in Reqs \ {r} : Busy(q) /\ req[q].op \in Saving =>
           <<"review", req[q].id>> \in HeldRows(r)
  BY DEF HeldRows, Saving
<1>6. gone \subseteq ReviewIds /\ \A w \in gone : review[w] # ABSENT /\ review'[w] = ABSENT
  BY <1>1, DeleteWrites DEF ReviewIds
<1>7. /\ removed \subseteq removed' /\ held \subseteq held' /\ <<"product", p>> \in removed'
      /\ \A o : <<"product", o>> \in removed' => <<"product", o>> \in removed \/ o = p
  BY <1>3, <1>4
<1>8. ASSUME NEW w, <<"review", w>> \in removed', <<"review", w>> \notin removed
      PROVE  /\ w \in gone
             /\ (\E q \in Reqs \ {r} : Busy(q) /\ req[q].op \in Saving /\ req[q].id = w) =>
                  <<"review", w>> \in held'
  BY <1>3, <1>4, <1>5, <1>8
<1>9. (\E q \in Reqs \ {r} : Busy(q) /\ req[q].op = "update" /\ req[q].id = p) =>
        <<"product", p>> \in held'
  BY <1>3, <1>4, <1>5
<1>10. QED
  BY <1>6, <1>7, <1>8, <1>9

\* Only these steps change the rows.
LEMMA RowsKept ==
  ASSUME NEW r \in Reqs, Step(r)
  PROVE  /\ product' # product =>
              Commit(r) \/ UpdatesProduct(r) \/ DeleteProduct(r) \/ StoreStats(r)
         /\ variant' # variant => Commit(r) \/ UpdatesVariant(r) \/ DeleteProduct(r)
         /\ review' # review =>
              PostsReview(r) \/ RevisesIt(r) \/ SoftDelete(r) \/ DeleteProduct(r)
         /\ image' # image =>
              Commit(r) \/ DeleteProduct(r) \/ DeleteImage(r)
         /\ removed' # removed \/ held' # held => SoftDelete(r) \/ DeleteProduct(r)
         /\ unsure' # unsure => Gives(r) \/ UpdatesProduct(r) \/ StoreStats(r)
<1>1. CASE Begins(r) \/ Continues(r)
  BY <1>1 DEF Begins, Starts, Continues, GoesOn, rows, history
<1>2. CASE Gives(r) \/ Commit(r) \/ DeleteImage(r)
  BY <1>2 DEF Gives, Abort, Commit, DeleteImage, rows, history
<1>3. CASE UpdatesProduct(r) \/ UpdatesVariant(r)
  BY <1>3 DEF UpdatesProduct, StoresProduct, UpdatesVariant, StoresVariant, history
<1>4. CASE PostsReview(r) \/ RevisesIt(r)
  BY <1>4 DEF PostsReview, StoresNewReview, RevisesIt, StoresReview, history
<1>5. CASE SoftDelete(r) \/ StoreStats(r) \/ DeleteProduct(r)
  BY <1>5 DEF SoftDelete, StoreStats, DeleteProduct
<1>6. QED
  BY <1>1, <1>2, <1>3, <1>4, <1>5 DEF Step

\* Where rows come from, and where they go.
LEMMA ProductsCome ==
  ASSUME TypeInv, NEW r \in Reqs, Step(r), NEW p \in Ids
  PROVE  /\ product'[p] # ABSENT =>
              \/ product[p] # ABSENT
              \/ Commit(r) /\ req[r].op = "create" /\ p = r
              \/ UpdatesProduct(r) /\ p = req[r].id /\ req[r].found = ABSENT
         /\ product[p] # ABSENT /\ product'[p] = ABSENT => DeleteProduct(r) /\ p = req[r].id
<1>1. CASE product' = product
  BY <1>1
<1>2. CASE Commit(r)
  <2>1. \A o \in Ids \ {r} : product'[o] = product[o] /\ variant'[o] = variant[o]
    BY <1>2, CommitWrites
  <2>2. req[r].op = "create" \/ product' = product
    BY <1>2, CommitWrites
  <2>3. req[r].op = "create" => product'[r] # ABSENT
    BY <1>2, CommitWrites
  <2>4. QED
    BY <1>2, <2>1, <2>2, <2>3
<1>3. CASE UpdatesProduct(r)
  BY <1>3, UpdateWrites
<1>4. CASE DeleteProduct(r)
  <2>1. PICK k : k = req[r].id
    OBVIOUS
  <2>2. product'[k] = ABSENT /\ \A o \in Ids \ {k} : product'[o] = product[o]
    BY <1>4, <2>1, DeleteWrites
  <2>3. QED
    BY <1>4, <2>1, <2>2
<1>5. CASE StoreStats(r)
  BY <1>5, StoreStatsWrites
<1>6. QED
  BY <1>1, <1>2, <1>3, <1>4, <1>5, RowsKept

LEMMA VariantsCome ==
  ASSUME TypeInv, NEW r \in Reqs, Step(r), NEW v \in Ids
  PROVE  /\ variant'[v] # ABSENT =>
              \/ /\ variant[v] # ABSENT /\ variant'[v].product = variant[v].product
                 /\ variant'[v].stocked = variant[v].stocked
              \/ /\ Commit(r) /\ v = r /\ variant'[v].product = req[r].product
                 /\ variant'[v].stocked = TRUE
                 /\ VariantPending(r)
              \/ /\ UpdatesVariant(r) /\ v = req[r].id /\ req[r].found = ABSENT
                 /\ req[r].product \in Product /\ variant'[v].product = req[r].product
         /\ variant[v] # ABSENT /\ variant'[v] = ABSENT =>
              DeleteProduct(r) /\ variant[v].product = req[r].id
<1>1. CASE variant' = variant
  BY <1>1
<1>2. CASE Commit(r)
  <2>1. \A o \in Ids \ {r} : product'[o] = product[o] /\ variant'[o] = variant[o]
    BY <1>2, CommitWrites
  <2>2. \/ variant' = variant
        \/ /\ VariantPending(r) /\ variant'[r] # ABSENT
           /\ variant'[r].product = req[r].product /\ variant'[r].stocked = TRUE
    BY <1>2, CommitWrites
  <2>3. QED
    BY <1>2, <2>1, <2>2
<1>3. CASE UpdatesVariant(r)
  BY <1>3, VariantWrites
<1>4. CASE DeleteProduct(r)
  <2>1. PICK k : k = req[r].id
    OBVIOUS
  <2>2. /\ \A o \in Ids : variant[o] = ABSENT \/ variant[o].product # k => variant'[o] = variant[o]
        /\ \A o \in Ids : variant[o].product = k => variant'[o] = ABSENT
    BY <1>4, <2>1 DEF DeleteProduct, TypeInv, TablesOK
  <2>3. QED
    BY <1>4, <2>1, <2>2
<1>5. QED
  BY <1>1, <1>2, <1>3, <1>4, RowsKept

LEMMA ReviewsCome ==
  ASSUME TypeInv, NEW r \in Reqs, Step(r), NEW w \in ReviewIds, review'[w] # ABSENT,
         RevisesIt(r) /\ req[r].found # ABSENT => req[r].found.product = req[r].product
  PROVE  \/ review[w] # ABSENT /\ review'[w].product = review[w].product
         \/ /\ PostsReview(r) /\ w = r /\ req[r].product \in Product
            /\ review'[w].product = req[r].product
         \/ /\ RevisesIt(r) /\ w = req[r].id /\ req[r].product \in Product
            /\ review'[w].product = req[r].product
<1>1. CASE review' = review
  BY <1>1
<1>2. CASE PostsReview(r)
  BY <1>2, PostWrites
<1>3. CASE RevisesIt(r)
  BY <1>3, ReviseWrites
<1>4. CASE SoftDelete(r)
  BY <1>4, SoftDeleteWrites
<1>5. CASE DeleteProduct(r)
  BY <1>5, DeleteWrites
<1>6. QED
  BY <1>1, <1>2, <1>3, <1>4, <1>5, RowsKept

-----------------------------------------------------------------------------
(* Names.                                                                  *)

LEMMA NamesStay ==
  ASSUME TypeInv, NEW r \in Reqs, Step(r), NEW p
  PROVE  /\ Made(p) => (Made(p)' /\ p # r) \/ p \notin Reqs
         /\ Posted(p) => Posted(p)'
         /\ Commit(r) => Made(r)' /\ ~Made(r)
         /\ PostsReview(r) => Posted(r)' /\ ~Posted(r)
<1>0. RequestsOK /\ RequestsOK' /\ Others(r) /\ req[r] # Done
  BY StepMoves DEF TypeInv
<1>1. Made(p) => (Made(p)' /\ p # r) \/ p \notin Reqs
  BY <1>0 DEF Made, Others, SameState
<1>2. Posted(p) => Posted(p)'
  <2>1. ASSUME p \in Reqs, p # r PROVE Posted(p) => Posted(p)'
    BY <1>0, <2>1 DEF Posted, OwesStats, Others, SameState, Busy
  <2>2. ASSUME p = r, OwesStats(r) PROVE req'[r] = Done \/ OwesStats(r)'
    <3>1. Busy(r) /\ req[r].pc \in {"aggregate", "store_stats"} /\ Fits(req[r], r)
      BY <1>0, <2>2, BusyIs DEF OwesStats
    <3>2. req[r].op \in Saving \cup {"create_review", "delete_review"}
      BY <3>1 DEF Fits, Request, Ops, Saving
    <3>3. CASE Continues(r)
      <4>1. PICK t : GoesOn(r, t)
        BY <3>3 DEF Continues
      <4>2. t.pc = "store_stats" /\ req'[r] = t /\ Busy(r)'
        BY <1>0, <3>1, <4>1, ContinueMoves DEF GoesOn, Goes
      <4>3. QED
        BY <4>2 DEF OwesStats
    <3>4. CASE Gives(r) \/ StoreStats(r)
      BY <1>0, <3>4, GiveIs, StoreStatsIs, FinishMoves
    <3>5. ~Begins(r)
      BY <3>1 DEF Begins, Starts, Busy
    <3>6. ~(Commit(r) \/ UpdatesProduct(r) \/ DeleteProduct(r) \/ DeleteImage(r))
      BY <3>1 DEF Commit, UpdatesProduct, DeleteProduct, DeleteImage
    <3>7. ~(UpdatesVariant(r) \/ PostsReview(r) \/ RevisesIt(r) \/ SoftDelete(r))
      BY <3>1 DEF UpdatesVariant, PostsReview, RevisesIt, SoftDelete
    <3>8. QED
      BY <3>3, <3>4, <3>5, <3>6, <3>7 DEF Step
  <2>3. QED
    BY <1>0, <2>1, <2>2 DEF Posted
<1>3. Commit(r) => Made(r)' /\ ~Made(r)
  BY <1>0, CommitIs, FinishMoves DEF Made
<1>4. PostsReview(r) => Posted(r)' /\ ~Posted(r)
  <2>1. SUFFICES ASSUME PostsReview(r) PROVE Posted(r)' /\ ~Posted(r)
    OBVIOUS
  <2>2. Busy(r)' /\ req'[r].pc = "aggregate" /\ Busy(r) /\ req[r].pc = "insert_review"
    BY <1>0, <2>1, OweMoves DEF PostsReview, Moves
  <2>3. QED
    BY <1>0, <2>2 DEF Posted, OwesStats
<1>5. QED
  BY <1>1, <1>2, <1>3, <1>4

LEMMA NamesNext ==
  TypeInv /\ Names /\ [Next]_vars => Names'
<1>1. SUFFICES ASSUME TypeInv, Names, [Next]_vars PROVE Names'
  OBVIOUS
<1>2. CASE UNCHANGED vars
  BY <1>1, <1>2 DEF vars, Names, Made, Posted, OwesStats, Busy, RevisesReview
<1>3. ASSUME NEW r \in Reqs, Step(r) PROVE Names'
  <2>0. /\ RequestsOK /\ RequestsOK' /\ Others(r) /\ (Begins(r) \/ Moves(r))
        /\ \A p : (Made(p) => Made(p)') /\ (Posted(p) => Posted(p)')
    BY <1>1, <1>3, StepMoves, NamesStay DEF TypeInv, Made
  <2>1. ASSUME NEW q \in Reqs, Busy(q)',
               req'[q].op \in {"update", "remove", "remove_image", "update_variant"}
        PROVE  Made(req'[q].id)
    <3>1. CASE q # r
      BY <1>1, <2>0, <2>1, <3>1 DEF Others, SameState, Names, Busy
    <3>2. CASE q = r /\ Begins(r)
      <4>1. PICK t : Starts(r, t)
        BY <3>2 DEF Begins
      <4>2. req'[q] = t /\ t \in Request
        BY <2>0, <3>2, <4>1, BeginMoves
      <4>3. Begun(t)
        BY <4>1 DEF Starts
      <4>4. CASE t.op \in {"update", "remove", "remove_image"}
        BY <1>1, <4>2, <4>3, <4>4 DEF Begun, Product, Names, Saving
      <4>5. CASE t.op = "update_variant"
        <5>1. variant[t.id] # ABSENT
          BY <4>3, <4>5 DEF Begun, Saving
        <5>2. t.id \in Ids
          BY <4>1, <4>5 DEF Starts, Fits
        <5>3. QED
          BY <1>1, <4>2, <5>1, <5>2 DEF Names
      <4>6. QED
        BY <2>1, <4>2, <4>4, <4>5
    <3>3. CASE q = r /\ Moves(r)
      BY <1>1, <2>0, <2>1, <3>3 DEF Moves, Names, Busy
    <3>4. QED
      BY <2>0, <3>1, <3>2, <3>3
  <2>2. ASSUME NEW q \in Reqs, RevisesReview(q)' PROVE Posted(req'[q].id)
    <3>1. CASE q # r
      BY <1>1, <2>0, <2>2, <3>1 DEF Others, SameState, Names, Busy, RevisesReview
    <3>2. CASE q = r /\ Begins(r)
      <4>1. PICK t : Starts(r, t)
        BY <3>2 DEF Begins
      <4>2. req'[q] = t /\ t \in Request
        BY <2>0, <3>2, <4>1, BeginMoves
      <4>3. Begun(t)
        BY <4>1 DEF Starts
      <4>4. t.op \in Saving \cup {"delete_review"}
        BY <2>2, <4>2 DEF RevisesReview
      <4>5. t.id \in Undeleted
        BY <4>3, <4>4 DEF Begun, Saving
      <4>6. QED
        BY <1>1, <4>2, <4>5 DEF Names, Undeleted
    <3>3. CASE q = r /\ Moves(r)
      BY <1>1, <2>0, <2>2, <3>3 DEF Moves, Names, Busy, RevisesReview
    <3>4. QED
      BY <2>0, <3>1, <3>2, <3>3
  <2>3. ASSUME NEW p \in Ids, product'[p] # ABSENT PROVE Made(p)'
    <3>1. CASE product[p] # ABSENT
      BY <1>1, <2>0, <3>1 DEF Names
    <3>2. CASE Commit(r) /\ p = r
      BY <1>1, <1>3, <3>2, NamesStay
    <3>3. CASE UpdatesProduct(r) /\ p = req[r].id
      BY <1>1, <2>0, <3>3 DEF Names, UpdatesProduct, Finishes
    <3>4. QED
      BY <1>1, <1>3, <2>3, <3>1, <3>2, <3>3, ProductsCome
  <2>4. ASSUME NEW v \in Ids, variant'[v] # ABSENT PROVE Made(v)'
    <3>1. CASE variant[v] # ABSENT
      BY <1>1, <2>0, <3>1 DEF Names
    <3>2. CASE Commit(r) /\ v = r
      BY <1>1, <1>3, <3>2, NamesStay
    <3>3. CASE UpdatesVariant(r) /\ v = req[r].id
      BY <1>1, <2>0, <3>3 DEF Names, UpdatesVariant, Finishes
    <3>4. QED
      BY <1>1, <1>3, <2>4, <3>1, <3>2, <3>3, VariantsCome
  <2>5. ASSUME NEW w \in ReviewIds, review'[w] # ABSENT PROVE Posted(w)'
    <3>1. CASE review[w] # ABSENT
      BY <1>1, <2>0, <3>1 DEF Names
    <3>2. CASE PostsReview(r)
      BY <1>1, <1>3, <2>0, <2>5, <3>1, <3>2, NamesStay, PostWrites
    <3>3. CASE RevisesIt(r) /\ w = req[r].id
      BY <1>1, <2>0, <3>3 DEF Names, RevisesIt, Owes, RevisesReview
    <3>4. CASE RevisesIt(r) /\ w # req[r].id
      BY <1>1, <2>5, <3>1, <3>4, ReviseWrites
    <3>5. CASE SoftDelete(r)
      BY <1>1, <2>5, <3>1, <3>5, SoftDeleteWrites
    <3>6. CASE DeleteProduct(r)
      BY <1>1, <2>5, <3>1, <3>6, DeleteWrites
    <3>7. CASE review' = review
      BY <2>5, <3>1, <3>7
    <3>8. QED
      BY <1>3, <3>2, <3>3, <3>4, <3>5, <3>6, <3>7, RowsKept
  <2>6. /\ \A p \in Ids : <<"product", p>> \in removed' => Made(p)'
        /\ \A w \in ReviewIds : <<"review", w>> \in removed' => Posted(w)'
    <3>1. CASE removed' = removed
      BY <1>1, <2>0, <3>1 DEF Names
    <3>2. CASE SoftDelete(r)
      <4>1. PICK k : k = req[r].id /\ removed' = removed \cup {<<"review", k>>}
        BY <1>1, <3>2, SoftDeleteWrites
      <4>2. Posted(k)
        BY <1>1, <2>0, <3>2, <4>1, SoftDeleteIs DEF Names, Owes, RevisesReview
      <4>3. /\ \A p : <<"product", p>> \in removed' => <<"product", p>> \in removed
            /\ \A w : <<"review", w>> \in removed' => <<"review", w>> \in removed \/ w = k
        BY <4>1
      <4>4. QED
        BY <1>1, <2>0, <4>2, <4>3 DEF Names
    <3>3. CASE DeleteProduct(r)
      <4>1. PICK k : k = req[r].id
        OBVIOUS
      <4>2. Made(k)
        BY <1>1, <2>0, <3>3, <4>1, DeleteProductIs DEF Names
      <4>3. /\ \A w : <<"review", w>> \in removed' =>
                 <<"review", w>> \in removed \/ (w \in ReviewIds /\ review[w] # ABSENT)
            /\ \A p : <<"product", p>> \in removed' => <<"product", p>> \in removed \/ p = k
        BY <1>1, <3>3, <4>1, DeleteNotes
      <4>4. QED
        BY <1>1, <2>0, <4>2, <4>3 DEF Names
    <3>4. QED
      BY <1>3, <3>1, <3>2, <3>3, RowsKept
  <2>7. ASSUME NEW q \in Reqs
        PROVE  /\ (Busy(q) /\ req[q].op \in {"update", "remove", "remove_image", "update_variant"} =>
                      Made(req[q].id))'
               /\ (RevisesReview(q) => Posted(req[q].id))'
    <3>1. PICK k : k = req'[q].id
      OBVIOUS
    <3>2. /\ Busy(q)' /\ req'[q].op \in {"update", "remove", "remove_image", "update_variant"} =>
               Made(k)'
          /\ RevisesReview(q)' => Posted(k)'
      BY <2>0, <2>1, <2>2, <3>1
    <3>3. QED
      BY <3>1, <3>2 DEF Made, Posted, OwesStats, Busy
  <2>8. QED
    BY <2>3, <2>4, <2>5, <2>6, <2>7 DEF Names
<1>4. QED
  BY <1>1, <1>2, <1>3, StepCases

-----------------------------------------------------------------------------
(* What steps do to the requests.                                          *)

\* How r can still be busy after its step.
LEMMA Onward ==
  ASSUME TypeInv, NEW r \in Reqs, Step(r), Busy(r)'
  PROVE  \/ \E t : Starts(r, t) /\ req'[r] = t /\ ~Busy(r)
         \/ \E t : GoesOn(r, t) /\ req'[r] = t /\ Moves(r)
         \/ Owes(r) /\ req'[r].pc = "aggregate" /\ ~req'[r].tx /\ Moves(r)
<1>0. RequestsOK
  BY DEF TypeInv
<1>1. CASE Begins(r)
  BY <1>0, <1>1, BeginMoves DEF Begins
<1>2. CASE Continues(r)
  BY <1>0, <1>2, ContinueMoves DEF Continues
<1>4. CASE PostsReview(r) \/ RevisesIt(r) \/ SoftDelete(r)
  <2>1. Owes(r)
    BY <1>0, <1>4, SoftDeleteIs DEF PostsReview, RevisesIt
  <2>2. QED
    BY <1>0, <2>1, OweMoves
<1>5. CASE \/ Gives(r) \/ Commit(r) \/ UpdatesProduct(r) \/ DeleteProduct(r) \/ DeleteImage(r)
           \/ UpdatesVariant(r) \/ StoreStats(r)
  <2>1. Finishes(r) \/ DeleteProduct(r)
    BY <1>0, <1>5, GiveIs, CommitIs, DeleteImageIs, StoreStatsIs DEF UpdatesProduct, UpdatesVariant
  <2>2. ~Busy(r)'
    BY <1>0, <2>1, FinishMoves, DeleteProductIs
  <2>3. QED
    BY <2>2
<1>6. QED
  BY <1>1, <1>2, <1>4, <1>5 DEF Step

LEMMA RequestsGo ==
  ASSUME TypeInv, NEW r \in Reqs, Step(r), NEW q \in Reqs, Busy(q)'
  PROVE  \/ /\ Busy(q) /\ req'[q].op = req[q].op /\ req'[q].id = req[q].id
            /\ req'[q].product = req[q].product
            /\ q # r => /\ req'[q].pc = req[q].pc /\ req'[q].tx = req[q].tx
                        /\ req'[q].entity = req[q].entity
                        /\ req'[q].found = req[q].found /\ req'[q].stats = req[q].stats
                        /\ ~req'[q].crossed => ~req[q].crossed
         \/ q = r /\ ~Busy(q) /\ \E t : Starts(r, t) /\ req'[r] = t
<1>1. Others(r) /\ (Begins(r) \/ Moves(r))
  BY StepMoves
<1>2. CASE q # r
  BY <1>1, <1>2 DEF Others, SameState, Busy
<1>3. CASE q = r
  BY <1>3, Onward DEF Moves, Busy
<1>4. QED
  BY <1>2, <1>3

-----------------------------------------------------------------------------
(* A row's product.                                                        *)

LEMMA ProductIsKept ==
  ASSUME TypeInv, SameProduct, NEW r \in Reqs, Step(r), RevisesIt(r), req[r].found # ABSENT
  PROVE  req[r].found.product = req[r].product
  BY DEF SameProduct, RevisesIt, RevisesReview, Owes

LEMMA SameProductNext ==
  TypeInv /\ Names /\ SameProduct /\ [Next]_vars => SameProduct'
<1>1. SUFFICES ASSUME TypeInv, Names, SameProduct, [Next]_vars PROVE SameProduct'
  OBVIOUS
<1>2. CASE UNCHANGED vars
  BY <1>1, <1>2 DEF vars, SameProduct, Busy, RevisesReview, RevisesVariant
<1>3. ASSUME NEW r \in Reqs, Step(r) PROVE SameProduct'
  <2>0. /\ \A q \in Reqs : RevisesReview(q) => req[q].id \in ReviewIds /\ Posted(req[q].id)
        /\ \A q \in Reqs : RevisesVariant(q) => req[q].id \in Ids /\ Made(req[q].id)
    BY <1>1, BusyIs DEF TypeInv, RevisesReview, RevisesVariant, Fits, Request, Names
  <2>1. ASSUME NEW q \in Reqs, RevisesVariant(q)', NEW v, v = req'[q].id, variant'[v] # ABSENT
        PROVE  variant'[v].product = req'[q].product
    <3>1. CASE q = r /\ \E t : Starts(r, t) /\ req'[r] = t
      <4>1. PICK t : Starts(r, t) /\ req'[r] = t
        BY <3>1
      <4>2. t.op = "update_variant"
        BY <2>1, <3>1, <4>1 DEF RevisesVariant
      <4>3. variant[t.id].product = t.product /\ variant' = variant
        BY <4>1, <4>2 DEF Starts, Begun, rows, Saving
      <4>4. QED
        BY <2>1, <3>1, <4>1, <4>3
    <3>2. CASE RevisesVariant(q) /\ req[q].id = v /\ req'[q].product = req[q].product
      <4>1. v \in Ids /\ Made(v)
        BY <2>0, <3>2
      <4>2. CASE variant[v] # ABSENT /\ variant'[v].product = variant[v].product
        BY <1>1, <3>2, <4>2 DEF SameProduct
      <4>3. CASE Commit(r) /\ v = r
        BY <1>1, <1>3, <4>1, <4>3, NamesStay
      <4>4. CASE UpdatesVariant(r) /\ v = req[r].id /\ variant'[v].product = req[r].product
        <5>1. RevisesVariant(r)
          BY <4>4 DEF UpdatesVariant, Finishes, RevisesVariant
        <5>2. QED
          BY <1>1, <3>2, <4>4, <5>1 DEF SameProduct
      <4>5. QED
        BY <1>1, <1>3, <2>1, <4>1, <4>2, <4>3, <4>4, VariantsCome
    <3>3. QED
      BY <1>1, <1>3, <2>1, <3>1, <3>2, RequestsGo DEF RevisesVariant, Busy
  <2>2. ASSUME NEW q \in Reqs, RevisesReview(q)', NEW w, w = req'[q].id, review'[w] # ABSENT
        PROVE  review'[w].product = req'[q].product
    <3>1. CASE q = r /\ \E t : Starts(r, t) /\ req'[r] = t
      <4>1. PICK t : Starts(r, t) /\ req'[r] = t
        BY <3>1
      <4>2. t.op \in Saving \cup {"delete_review"}
        BY <2>2, <3>1, <4>1 DEF RevisesReview
      <4>3. review[t.id].product = t.product /\ review' = review
        BY <4>1, <4>2 DEF Starts, Begun, rows, Saving
      <4>4. QED
        BY <2>2, <3>1, <4>1, <4>3
    <3>2. CASE RevisesReview(q) /\ req[q].id = w /\ req'[q].product = req[q].product
      <4>1. w \in ReviewIds /\ Posted(w)
        BY <2>0, <3>2
      <4>2. CASE review[w] # ABSENT /\ review'[w].product = review[w].product
        BY <1>1, <3>2, <4>2 DEF SameProduct
      <4>3. CASE PostsReview(r) /\ w = r
        BY <1>1, <1>3, <4>1, <4>3, NamesStay
      <4>4. CASE RevisesIt(r) /\ w = req[r].id /\ review'[w].product = req[r].product
        <5>1. RevisesReview(r)
          BY <4>4 DEF RevisesIt, Owes, RevisesReview
        <5>2. QED
          BY <1>1, <3>2, <4>4, <5>1 DEF SameProduct
      <4>5. QED
        BY <1>1, <1>3, <2>2, <4>1, <4>2, <4>3, <4>4, ReviewsCome, ProductIsKept
    <3>3. QED
      BY <1>1, <1>3, <2>2, <3>1, <3>2, RequestsGo DEF RevisesReview, Busy
  <2>3. ASSUME NEW q \in Reqs, RevisesReview(q)', req'[q].pc = "update_review",
               req'[q].found # ABSENT
        PROVE  req'[q].found.product = req'[q].product
    <3>1. CASE q # r
      <4>1. /\ RevisesReview(q) /\ req[q].pc = "update_review"
            /\ req'[q].found = req[q].found /\ req'[q].product = req[q].product
        BY <1>1, <1>3, <2>3, <3>1, RequestsGo DEF RevisesReview, Busy
      <4>2. QED
        BY <1>1, <2>3, <4>1 DEF SameProduct
    <3>2. CASE q = r
      <4>1. \A t : Starts(r, t) => t.pc # "update_review"
        BY DEF Starts, Begun
      <4>2. PICK t : GoesOn(r, t) /\ req'[r] = t /\ Moves(r)
        BY <1>1, <1>3, <2>3, <3>2, <4>1, Onward DEF RevisesReview, Busy
      <4>3. t.found = review[req[r].id] /\ Busy(r) /\ t.op = req[r].op
            /\ t.product = req[r].product
        BY <2>3, <3>2, <4>2 DEF GoesOn, Goes
      <4>4. RevisesReview(r)
        BY <2>3, <3>2, <4>2, <4>3 DEF RevisesReview
      <4>5. QED
        BY <1>1, <2>3, <3>2, <4>2, <4>3, <4>4 DEF SameProduct
    <3>3. QED
      BY <3>1, <3>2
  <2>4. ASSUME NEW q \in Reqs, NEW o \in Reqs, RevisesVariant(q)', RevisesVariant(o)',
               req'[q].id = req'[o].id
        PROVE  req'[q].product = req'[o].product
    <3>1. ASSUME NEW p \in Reqs, RevisesVariant(p)'
          PROVE  \/ RevisesVariant(p) /\ req'[p].id = req[p].id /\ req'[p].product = req[p].product
                 \/ /\ p = r /\ variant[req'[p].id] # ABSENT
                    /\ variant[req'[p].id].product = req'[p].product
      <4>1. ASSUME NEW t, Starts(r, t), req'[r] = t, p = r
            PROVE  /\ variant[t.id] # ABSENT /\ variant[t.id].product = t.product
          BY <3>1, <4>1 DEF Starts, Begun, Saving, RevisesVariant
      <4>2. QED
        BY <1>1, <1>3, <3>1, <4>1, RequestsGo DEF RevisesVariant, Busy
    <3>2. QED
      BY <1>1, <2>4, <3>1 DEF SameProduct
  <2>5. ASSUME NEW q \in Reqs, NEW o \in Reqs, RevisesReview(q)', RevisesReview(o)',
               req'[q].id = req'[o].id
        PROVE  req'[q].product = req'[o].product
    <3>1. ASSUME NEW p \in Reqs, RevisesReview(p)'
          PROVE  \/ RevisesReview(p) /\ req'[p].id = req[p].id /\ req'[p].product = req[p].product
                 \/ /\ p = r /\ review[req'[p].id] # ABSENT
                    /\ review[req'[p].id].product = req'[p].product
      <4>1. ASSUME NEW t, Starts(r, t), req'[r] = t, p = r
            PROVE  /\ review[t.id] # ABSENT /\ review[t.id].product = t.product
          BY <3>1, <4>1 DEF Starts, Begun, Saving, RevisesReview, Undeleted
      <4>2. QED
        BY <1>1, <1>3, <3>1, <4>1, RequestsGo DEF RevisesReview, Busy
    <3>2. QED
      BY <1>1, <2>5, <3>1 DEF SameProduct
  <2>6. QED
    BY <2>1, <2>2, <2>3, <2>4, <2>5 DEF SameProduct
<1>4. QED
  BY <1>1, <1>2, <1>3, StepCases

LEMMA SameProductInit == Init => SameProduct
<1>1. SUFFICES ASSUME Init PROVE SameProduct
  OBVIOUS
<1>2. \A r \in Reqs : ~Busy(r)
  BY <1>1, InitIs
<1>3. QED
  BY <1>2 DEF SameProduct, RevisesVariant, RevisesReview

LEMMA NamesInit == Init => Names
<1>1. SUFFICES ASSUME Init PROVE Names
  OBVIOUS
<1>2. /\ \A r \in Reqs : ~Busy(r)
      /\ removed = {} /\ FIRST \notin Reqs
      /\ \A p \in Ids : product[p] # ABSENT => p = FIRST
      /\ \A v \in Ids : variant[v] # ABSENT => v = FIRST
  BY <1>1, InitIs, CatalogAssumption
<1>3. \A w \in ReviewIds : review[w] # ABSENT => w \notin Reqs
  BY <1>1, InitIs, CatalogAssumption
<1>4. QED
  BY <1>2, <1>3 DEF Names, Made, Posted, RevisesReview

-----------------------------------------------------------------------------
(* References.                                                             *)

\* Where a transaction comes from that has inserted a variant.
LEMMA PendingVariants ==
  ASSUME TypeInv, NEW r \in Reqs, Step(r), NEW q \in Reqs, VariantPending(q)'
  PROVE  /\ req'[q].entity = req[q].entity /\ req'[q].op = req[q].op
         /\ req'[q].product = req[q].product
         /\ \/ VariantPending(q) /\ ~Commit(q) /\ (q = r => variant' = variant)
            \/ /\ q = r /\ UNCHANGED <<product, variant>>
               /\ ~SkuPending(req[r].entity.sku, r) /\ ~SkuTaken(req[r].entity.sku, r)
               /\ req[r].op = "add_variant" => req[r].product \in Product
<1>0. Busy(q)' /\ RequestsOK
  BY DEF VariantPending, Inserting, TypeInv
<1>1. CASE q # r
  <2>1. /\ Busy(q) /\ req'[q].op = req[q].op /\ req'[q].product = req[q].product
        /\ req'[q].pc = req[q].pc /\ req'[q].tx = req[q].tx /\ req'[q].entity = req[q].entity
    BY <1>0, <1>1, RequestsGo
  <2>2. VariantPending(q)
    BY <2>1 DEF VariantPending, Inserting, Busy
  <2>3. ~Commit(q)
    <3>1. ASSUME Commit(q) PROVE FALSE
      <4>1. req'[q] = Done
        BY <1>0, <3>1, CommitIs, FinishMoves
      <4>2. QED
        BY <1>0, <4>1 DEF Busy
    <3>2. QED
      BY <3>1
  <2>4. QED
    BY <1>1, <2>1, <2>2, <2>3
<1>2. CASE q = r
  <2>1. req'[r].pc \in {"lookup", "insert_inventory", "commit"}
    BY <1>2 DEF VariantPending, Inserting
  <2>2. \A t : Starts(r, t) => t.pc \notin {"lookup", "insert_inventory", "commit"}
    BY DEF Starts, Begun
  <2>3. PICK t : GoesOn(r, t) /\ req'[r] = t
    BY <1>0, <1>2, <2>1, <2>2, Onward
  <2>4. /\ Fits(req[r], r) /\ Busy(r) /\ Fits(t, r) /\ Goes(r, t)
        /\ t.op = req[r].op /\ t.product = req[r].product
        /\ UNCHANGED <<product, variant>>
    BY <1>0, <2>3, BusyIs DEF GoesOn, Goes, rows
  <2>5. t.entity = req[r].entity
    BY <2>1, <2>3, <2>4 DEF Goes
  <2>6. ~Commit(r)
    <3>1. ASSUME Commit(r) PROVE FALSE
      <4>1. req'[r] = Done
        BY <1>0, <3>1, CommitIs, FinishMoves
      <4>2. QED
        BY <1>0, <1>2, <4>1 DEF Busy
    <3>2. QED
      BY <3>1
  <2>7. /\ t.op \in {"create", "add_variant"}
        /\ t.op = "create" => t.pc = "commit" /\ t.entity.sku # ABSENT
    BY <1>2, <2>3 DEF VariantPending, Inserting
  <2>8. CASE t.op = "create"
    <3>1. /\ ~SkuPending(req[r].entity.sku, r) /\ ~SkuTaken(req[r].entity.sku, r)
      BY <2>3, <2>4, <2>5, <2>7, <2>8 DEF Goes
    <3>2. QED
      BY <1>2, <2>3, <2>4, <2>5, <2>8, <3>1
  <2>9. CASE t.op = "add_variant"
    <3>1. req[r].pc \in {"lookup", "insert_inventory", "begin"}
      BY <2>1, <2>3, <2>4, <2>9 DEF Goes
    <3>2. CASE req[r].pc \in {"lookup", "insert_inventory"}
      <4>1. req[r].tx
        BY <2>4, <3>2 DEF Fits, Holding
      <4>2. VariantPending(r)
        BY <2>4, <2>9, <3>2, <4>1 DEF VariantPending, Inserting
      <4>3. QED
        BY <1>2, <2>3, <2>4, <2>5, <2>6, <4>2
    <3>3. CASE req[r].pc = "begin"
      <4>1. /\ ~SkuPending(req[r].entity.sku, r) /\ ~SkuTaken(req[r].entity.sku, r)
            /\ req[r].product \in Product
        BY <2>4, <3>3 DEF Goes
      <4>2. QED
        BY <1>2, <2>3, <2>4, <2>5, <4>1
    <3>4. QED
      BY <3>1, <3>2, <3>3
  <2>10. QED
    BY <2>7, <2>8, <2>9
<1>3. QED
  BY <1>1, <1>2

LEMMA ReferencesInit == Init => References
<1>1. SUFFICES ASSUME Init PROVE References
  OBVIOUS
<1>2. /\ \A r \in Reqs : ~Busy(r)
      /\ FIRST \in Product
      /\ \A v \in Ids : variant[v] # ABSENT => variant[v].product = FIRST
      /\ image = {FIRST}
  BY <1>1, InitIs DEF Product
<1>3. \A w \in ReviewIds : review[w] # ABSENT => review[w].product = FIRST
  BY <1>1, InitIs
<1>4. QED
  BY <1>2, <1>3 DEF References, VariantPending, Inserting

LEMMA ReferencesNext ==
  TypeInv /\ SameProduct /\ References /\ [Next]_vars => References'
<1>1. SUFFICES ASSUME TypeInv, SameProduct, References, [Next]_vars PROVE References'
  OBVIOUS
<1>2. CASE UNCHANGED vars
  BY <1>1, <1>2 DEF vars, References, Product, VariantPending, Inserting, Busy
<1>3. ASSUME NEW r \in Reqs, Step(r) PROVE References'
  <2>0. RequestsOK
    BY <1>1 DEF TypeInv
  <2>1. \A p \in Product : p \in Product' \/ (DeleteProduct(r) /\ p = req[r].id)
    BY <1>1, <1>3, ProductsCome DEF Product
  <2>2. ASSUME NEW v \in Ids, variant'[v] # ABSENT PROVE variant'[v].product \in Product'
    <3>1. CASE variant[v] # ABSENT /\ variant'[v].product = variant[v].product
      <4>1. DeleteProduct(r) => variant[v].product # req[r].id
        BY <1>1, <2>2, <3>1 DEF DeleteProduct, TypeInv, TablesOK
      <4>2. QED
        BY <1>1, <2>1, <3>1, <4>1 DEF References
    <3>2. CASE Commit(r) /\ v = r /\ variant'[v].product = req[r].product /\ VariantPending(r)
      <4>1. ~DeleteProduct(r)
        BY <3>2 DEF Commit, DeleteProduct
      <4>2. CASE req[r].op = "create"
        <5>1. r \in Ids /\ product'[r] # ABSENT /\ req[r].product = r
          BY <1>1, <3>2, <4>2, CommitWrites
        <5>2. QED
          BY <3>2, <5>1 DEF Product
      <4>3. CASE req[r].op = "add_variant"
        BY <1>1, <2>1, <3>2, <4>1, <4>3 DEF References
      <4>4. QED
        BY <2>0, <3>2, <4>2, <4>3, CommitIs
    <3>3. CASE /\ UpdatesVariant(r) /\ req[r].product \in Product
               /\ variant'[v].product = req[r].product
      <4>1. product' = product
        BY <3>3 DEF UpdatesVariant, StoresVariant
      <4>2. QED
        BY <3>3, <4>1 DEF Product
    <3>4. QED
      BY <1>1, <1>3, <2>2, <3>1, <3>2, <3>3, VariantsCome
  <2>3. ASSUME NEW w \in ReviewIds, review'[w] # ABSENT PROVE review'[w].product \in Product'
    <3>1. CASE review[w] # ABSENT /\ review'[w].product = review[w].product
      <4>1. DeleteProduct(r) => review[w].product # req[r].id
        BY <1>1, <2>3, <3>1 DEF DeleteProduct, TypeInv, TablesOK, ReviewIds
      <4>2. QED
        BY <1>1, <2>1, <3>1, <4>1 DEF References
    <3>2. CASE /\ PostsReview(r) \/ RevisesIt(r)
               /\ req[r].product \in Product /\ review'[w].product = req[r].product
      <4>1. product' = product
        BY <3>2 DEF PostsReview, StoresNewReview, RevisesIt, StoresReview
      <4>2. QED
        BY <3>2, <4>1 DEF Product
    <3>3. QED
      BY <1>1, <1>3, <2>3, <3>1, <3>2, ReviewsCome, ProductIsKept
  <2>4. image' \subseteq Product'
    <3>1. CASE Commit(r) /\ req[r].op = "create"
      <4>1. image' = image \cup {r} /\ r \in Product' /\ ~DeleteProduct(r)
        BY <1>1, <3>1, CommitWrites DEF Commit, DeleteProduct, Product
      <4>2. QED
        BY <1>1, <2>1, <4>1 DEF References
    <3>2. CASE DeleteProduct(r)
      <4>1. image' = image \ {req[r].id}
        BY <1>1, <3>2, DeleteWrites
      <4>2. QED
        BY <1>1, <2>1, <4>1 DEF References
    <3>3. CASE ~(Commit(r) /\ req[r].op = "create") /\ ~DeleteProduct(r)
      <4>1. image' \subseteq image
        BY <1>1, <1>3, <3>3, CommitWrites, RowsKept DEF DeleteImage
      <4>2. QED
        BY <1>1, <2>1, <3>3, <4>1 DEF References
    <3>4. QED
      BY <3>1, <3>2, <3>3
  <2>5. ASSUME NEW q \in Reqs, VariantPending(q)', req'[q].op = "add_variant"
        PROVE  req'[q].product \in Product'
    <3>1. /\ req'[q].op = req[q].op /\ req'[q].product = req[q].product
          /\ \/ VariantPending(q)
             \/ q = r /\ product' = product /\ req[q].product \in Product
      BY <1>1, <1>3, <2>5, PendingVariants
    <3>2. CASE VariantPending(q)
      <4>1. req[q].product \in Product
        BY <1>1, <2>5, <3>1, <3>2 DEF References
      <4>2. ~(DeleteProduct(r) /\ req[q].product = req[r].id)
        BY <2>5, <3>1, <3>2 DEF DeleteProduct
      <4>3. QED
        BY <2>1, <3>1, <4>1, <4>2
    <3>3. CASE product' = product /\ req[q].product \in Product
      BY <3>1, <3>3 DEF Product
    <3>4. QED
      BY <3>1, <3>2, <3>3
  <2>6. QED
    BY <2>2, <2>3, <2>4, <2>5 DEF References
<1>4. QED
  BY <1>1, <1>2, <1>3, StepCases

Sound == TypeInv /\ Names /\ SameProduct /\ References

LEMMA SoundAlways == Spec => []Sound
<1>1. Init => Sound
  BY TypeInit, NamesInit, SameProductInit, ReferencesInit DEF Sound
<1>2. Sound /\ [Next]_vars => Sound'
  BY TypeNext, NamesNext, SameProductNext, ReferencesNext DEF Sound
<1>3. QED
  BY <1>1, <1>2, PTL DEF Spec

\* The pool never gives out more connections than it has, though transactions
\* borrow second ones and some are lost (data-source.ts:14-18,
\* products.service.ts:70, 335, 486), and variants, reviews and images always
\* belong to a product that is there, also where one is inserted or brought
\* back while the product goes (products.service.ts:284-304, 332, 508,
\* reviews.service.ts:60, 111).
THEOREM TypeCorrect == Spec => []TypeOK
<1>1. Sound => TypeOK
  BY DEF Sound, TypeInv, TablesOK, PoolOK, Holders, References, TypeOK
<1>2. QED
  BY <1>1, SoundAlways, PTL

-----------------------------------------------------------------------------
(* Slugs.                                                                  *)

LEMMA PendingProducts ==
  ASSUME TypeInv, NEW r \in Reqs, Step(r), NEW q \in Reqs, ProductPending(q)'
  PROVE  /\ req'[q].entity = req[q].entity
         /\ \/ ProductPending(q) /\ q # r
            \/ q = r /\ product' = product /\ ProductPending(q)
            \/ /\ q = r /\ product' = product
               /\ ~SlugPending(req[r].entity.slug, r) /\ ~SlugTaken(req[r].entity.slug, r)
<1>0. Busy(q)' /\ RequestsOK
  BY DEF ProductPending, Inserting, TypeInv
<1>1. CASE q # r
  <2>1. /\ Busy(q) /\ req'[q].op = req[q].op
        /\ req'[q].pc = req[q].pc /\ req'[q].tx = req[q].tx /\ req'[q].entity = req[q].entity
    BY <1>0, <1>1, RequestsGo
  <2>2. ProductPending(q)
    BY <2>1 DEF ProductPending, Inserting, Busy
  <2>3. QED
    BY <1>1, <2>1, <2>2
<1>2. CASE q = r
  <2>1. req'[r].pc \in {"lookup", "insert_both", "commit"} /\ req'[r].op = "create"
    BY <1>2 DEF ProductPending, Inserting
  <2>2. \A t : Starts(r, t) => t.pc \notin {"lookup", "insert_both", "commit"}
    BY DEF Starts, Begun
  <2>3. PICK t : GoesOn(r, t) /\ req'[r] = t
    BY <1>0, <1>2, <2>1, <2>2, Onward
  <2>4. /\ Fits(req[r], r) /\ Busy(r) /\ Goes(r, t) /\ req[r].op = "create" /\ product' = product
    BY <1>0, <2>1, <2>3, BusyIs DEF GoesOn, Goes, rows
  <2>5. t.entity = req[r].entity
    BY <2>1, <2>3, <2>4 DEF Goes
  <2>6. req[r].pc \in {"insert_product", "lookup", "insert_both"}
    BY <2>1, <2>3, <2>4 DEF Goes
  <2>7. CASE req[r].pc = "insert_product"
    <3>1. ~SlugPending(req[r].entity.slug, r) /\ ~SlugTaken(req[r].entity.slug, r)
      BY <2>4, <2>7 DEF Goes
    <3>2. QED
      BY <1>2, <2>3, <2>4, <2>5, <3>1
  <2>8. CASE req[r].pc \in {"lookup", "insert_both"}
    <3>1. req[r].tx
      BY <2>4, <2>8 DEF Fits, Holding
    <3>2. ProductPending(r)
      BY <2>4, <2>8, <3>1 DEF ProductPending, Inserting
    <3>3. QED
      BY <1>2, <2>3, <2>4, <2>5, <3>2
  <2>9. QED
    BY <2>6, <2>7, <2>8
<1>3. QED
  BY <1>1, <1>2

\* At most one product is given a slug, that no other has and no one has
\* inserted.
LEMMA SlugWrites ==
  ASSUME TypeInv, SlugsUnique, NEW r \in Reqs, Step(r)
  PROVE  \/ \A p \in Product' : p \in Product /\ product'[p].slug = product[p].slug
         \/ \E k \in Ids : \E s :
              /\ \A p \in Product' \ {k} : p \in Product /\ product'[p].slug = product[p].slug
              /\ k \in Product' => product'[k].slug = s
              /\ ~SlugTaken(s, k)
              /\ \A q \in Reqs : ProductPending(q)' => req'[q].entity.slug # s
<1>0. RequestsOK
  BY DEF TypeInv
<1>1. CASE product' = product
  BY <1>1 DEF Product
<1>2. CASE Commit(r) /\ req[r].op = "create"
  <2>1. PICK s : s = req[r].entity.slug
    OBVIOUS
  <2>2. /\ Finishes(r) /\ req[r].tx /\ req[r].pc = "commit"
    BY <1>0, <1>2, CommitIs
  <2>3. ProductPending(r) /\ ~Busy(r)'
    BY <1>0, <1>2, <2>2, FinishMoves DEF ProductPending, Inserting, Finishes
  <2>4. \A o \in Ids \ {r} : product'[o] = product[o] /\ variant'[o] = variant[o]
    BY <1>2, CommitWrites
  <2>5. r \in Ids /\ product'[r].slug = s
    BY <1>2, <2>1, CommitWrites
  <2>6. \A p \in Product' \ {r} : p \in Product /\ product'[p].slug = product[p].slug
    BY <2>4 DEF Product
  <2>7. ~SlugTaken(s, r)
    BY <2>1, <2>3 DEF SlugsUnique
  <2>8. ASSUME NEW q \in Reqs, ProductPending(q)' PROVE req'[q].entity.slug # s
    <3>1. q # r
      BY <2>3, <2>8 DEF ProductPending, Inserting
    <3>2. ProductPending(q) /\ req'[q].entity = req[q].entity
      BY <2>8, <3>1, PendingProducts
    <3>3. QED
      BY <2>1, <2>3, <3>1, <3>2 DEF SlugsUnique
  <2>9. QED
    BY <2>5, <2>6, <2>7, <2>8
<1>3. CASE UpdatesProduct(r)
  <2>1. PICK k, s : k = req[r].id /\ s = req[r].entity.slug
    OBVIOUS
  <2>2. /\ k \in Ids /\ \A o \in Ids \ {k} : product'[o] = product[o]
        /\ product'[k] # ABSENT =>
             \/ product[k] # ABSENT /\ product'[k].slug = product[k].slug
             \/ product'[k].slug = s /\ ~SlugTaken(s, k) /\ ~SlugPending(s, r)
    BY <1>3, <2>1, UpdateWrites
  <2>3. CASE \/ product'[k] = ABSENT
             \/ product[k] # ABSENT /\ product'[k].slug = product[k].slug
    BY <2>2, <2>3 DEF Product
  <2>4. ~Busy(r)'
    BY <1>0, <1>3, FinishMoves DEF UpdatesProduct
  <2>5. ASSUME ~SlugPending(s, r), NEW q \in Reqs, ProductPending(q)'
        PROVE  req'[q].entity.slug # s
    <3>1. q # r
      BY <2>4, <2>5 DEF ProductPending, Inserting
    <3>2. ProductPending(q) /\ req'[q].entity = req[q].entity
      BY <2>5, <3>1, PendingProducts
    <3>3. QED
      BY <2>5, <3>1, <3>2 DEF SlugPending
  <2>6. CASE product'[k].slug = s /\ ~SlugTaken(s, k) /\ ~SlugPending(s, r)
    BY <2>2, <2>5, <2>6 DEF Product
  <2>7. QED
    BY <2>2, <2>3, <2>6
<1>4. CASE DeleteProduct(r)
  BY <1>4 DEF DeleteProduct, Product, TypeInv, TablesOK
<1>5. CASE StoreStats(r)
  <2>1. PICK k : k = req[r].product
    OBVIOUS
  <2>2. /\ k \in Ids /\ \A o \in Ids \ {k} : product'[o] = product[o]
        /\ product'[k] # ABSENT <=> product[k] # ABSENT
        /\ product'[k] # ABSENT => product'[k].slug = product[k].slug
    BY <1>5, <2>1, StoreStatsWrites
  <2>3. QED
    BY <2>2 DEF Product
<1>6. CASE Commit(r) /\ req[r].op # "create"
  <2>1. product' = product
    BY <1>6, CommitWrites
  <2>2. QED
    BY <2>1 DEF Product
<1>7. QED
  BY <1>1, <1>2, <1>3, <1>4, <1>5, <1>6, RowsKept

LEMMA SlugsUniqueNext ==
  TypeInv /\ SlugsUnique /\ [Next]_vars => SlugsUnique'
<1>1. SUFFICES ASSUME TypeInv, SlugsUnique, [Next]_vars PROVE SlugsUnique'
  OBVIOUS
<1>2. CASE UNCHANGED vars
  BY <1>1, <1>2 DEF vars, SlugsUnique, Product, ProductPending, Inserting, Busy, SlugTaken
<1>3. ASSUME NEW r \in Reqs, Step(r) PROVE SlugsUnique'
  <2>1. ASSUME NEW q \in Reqs, ProductPending(q)', NEW o \in Reqs, ProductPending(o)',
               req'[q].entity.slug = req'[o].entity.slug
        PROVE  q = o
    <3>1. /\ req'[q].entity = req[q].entity /\ req'[o].entity = req[o].entity
          /\ \/ ProductPending(q)
             \/ q = r /\ ~SlugPending(req[r].entity.slug, r)
          /\ \/ ProductPending(o)
             \/ o = r /\ ~SlugPending(req[r].entity.slug, r)
      BY <1>1, <1>3, <2>1, PendingProducts
    <3>2. QED
      BY <1>1, <2>1, <3>1 DEF SlugsUnique, SlugPending
  <2>2. CASE \A p \in Product' : p \in Product /\ product'[p].slug = product[p].slug
    <3>1. ASSUME NEW q \in Reqs, ProductPending(q)'
          PROVE  \A p \in Product' \ {q} : product'[p].slug # req'[q].entity.slug
      <4>1. /\ req'[q].entity = req[q].entity
            /\ ~SlugTaken(req[q].entity.slug, q)
        BY <1>1, <1>3, <3>1, PendingProducts DEF SlugsUnique
      <4>2. QED
        BY <2>2, <4>1 DEF SlugTaken
    <3>2. \A p, o \in Product' : product'[p].slug = product'[o].slug => p = o
      BY <1>1, <2>2 DEF SlugsUnique
    <3>3. QED
      BY <2>1, <3>1, <3>2 DEF SlugsUnique, SlugTaken
  <2>3. CASE \E k \in Ids : \E s :
              /\ \A p \in Product' \ {k} : p \in Product /\ product'[p].slug = product[p].slug
              /\ k \in Product' => product'[k].slug = s
              /\ ~SlugTaken(s, k)
              /\ \A q \in Reqs : ProductPending(q)' => req'[q].entity.slug # s
    <3>1. PICK k \in Ids : \E s :
              /\ \A p \in Product' \ {k} : p \in Product /\ product'[p].slug = product[p].slug
              /\ k \in Product' => product'[k].slug = s
              /\ ~SlugTaken(s, k)
              /\ \A q \in Reqs : ProductPending(q)' => req'[q].entity.slug # s
      BY <2>3
    <3>2. ASSUME NEW q \in Reqs, ProductPending(q)'
          PROVE  \A p \in Product' \ {q} : product'[p].slug # req'[q].entity.slug
      <4>1. /\ req'[q].entity = req[q].entity
            /\ ~SlugTaken(req[q].entity.slug, q)
        BY <1>1, <1>3, <3>2, PendingProducts DEF SlugsUnique
      <4>2. QED
        BY <3>1, <3>2, <4>1 DEF SlugTaken
    <3>3. \A p, o \in Product' : product'[p].slug = product'[o].slug => p = o
      BY <1>1, <3>1 DEF SlugsUnique, SlugTaken
    <3>4. QED
      BY <2>1, <3>2, <3>3 DEF SlugsUnique, SlugTaken
  <2>4. QED
    BY <1>1, <1>3, <2>2, <2>3, SlugWrites
<1>4. QED
  BY <1>1, <1>2, <1>3, StepCases

-----------------------------------------------------------------------------
(* SKUs.                                                                   *)

\* The same of a variant and its SKU.
LEMMA SkuWrites ==
  ASSUME TypeInv, SkusUnique, NEW r \in Reqs, Step(r)
  PROVE  \/ \A v \in Ids : variant'[v] # ABSENT =>
              variant[v] # ABSENT /\ variant'[v].sku = variant[v].sku
         \/ \E k \in Ids : \E s :
              /\ \A v \in Ids \ {k} : variant'[v] # ABSENT =>
                   variant[v] # ABSENT /\ variant'[v].sku = variant[v].sku
              /\ variant'[k] # ABSENT => variant'[k].sku = s
              /\ ~SkuTaken(s, k)
              /\ \A q \in Reqs : VariantPending(q)' => req'[q].entity.sku # s
<1>0. RequestsOK
  BY DEF TypeInv
<1>1. CASE variant' = variant
  BY <1>1
<1>2. CASE Commit(r) /\ variant' # variant
  <2>1. PICK s : s = req[r].entity.sku
    OBVIOUS
  <2>2. VariantPending(r) /\ r \in Ids /\ variant'[r].sku = s
    BY <1>2, <2>1, CommitWrites
  <2>3. ~Busy(r)'
    BY <1>0, <1>2, CommitIs, FinishMoves
  <2>4. \A o \in Ids \ {r} : product'[o] = product[o] /\ variant'[o] = variant[o]
    BY <1>2, CommitWrites
  <2>5. ~SkuTaken(s, r)
    BY <2>1, <2>2 DEF SkusUnique
  <2>6. ASSUME NEW q \in Reqs, VariantPending(q)' PROVE req'[q].entity.sku # s
    <3>1. q # r
      BY <2>3, <2>6 DEF VariantPending, Inserting
    <3>2. VariantPending(q) /\ req'[q].entity = req[q].entity
      BY <2>6, <3>1, PendingVariants
    <3>3. QED
      BY <2>1, <2>2, <3>1, <3>2 DEF SkusUnique
  <2>7. QED
    BY <2>2, <2>4, <2>5, <2>6
<1>3. CASE UpdatesVariant(r)
  <2>1. PICK k, s : k = req[r].id /\ s = req[r].entity.sku
    OBVIOUS
  <2>2. /\ k \in Ids /\ \A o \in Ids \ {k} : variant'[o] = variant[o]
        /\ variant'[k] # ABSENT =>
             \/ variant[k] # ABSENT /\ variant'[k].sku = variant[k].sku
             \/ variant'[k].sku = s /\ ~SkuTaken(s, k) /\ ~SkuPending(s, r)
    BY <1>3, <2>1, VariantWrites
  <2>3. CASE \/ variant'[k] = ABSENT
             \/ variant[k] # ABSENT /\ variant'[k].sku = variant[k].sku
    BY <2>2, <2>3
  <2>4. ~Busy(r)'
    BY <1>0, <1>3, FinishMoves DEF UpdatesVariant
  <2>5. ASSUME ~SkuPending(s, r), NEW q \in Reqs, VariantPending(q)'
        PROVE  req'[q].entity.sku # s
    <3>1. q # r
      BY <2>4, <2>5 DEF VariantPending, Inserting
    <3>2. VariantPending(q) /\ req'[q].entity = req[q].entity
      BY <2>5, <3>1, PendingVariants
    <3>3. QED
      BY <2>5, <3>1, <3>2 DEF SkuPending
  <2>6. CASE variant'[k].sku = s /\ ~SkuTaken(s, k) /\ ~SkuPending(s, r)
    BY <2>2, <2>5, <2>6
  <2>7. QED
    BY <2>2, <2>3, <2>6
<1>4. CASE DeleteProduct(r)
  BY <1>4 DEF DeleteProduct, TypeInv, TablesOK
<1>5. QED
  BY <1>1, <1>2, <1>3, <1>4, RowsKept

LEMMA SkusUniqueNext ==
  TypeInv /\ SkusUnique /\ [Next]_vars => SkusUnique'
<1>1. SUFFICES ASSUME TypeInv, SkusUnique, [Next]_vars PROVE SkusUnique'
  OBVIOUS
<1>2. CASE UNCHANGED vars
  BY <1>1, <1>2 DEF vars, SkusUnique, VariantPending, Inserting, Busy, SkuTaken
<1>3. ASSUME NEW r \in Reqs, Step(r) PROVE SkusUnique'
  <2>1. ASSUME NEW q \in Reqs, VariantPending(q)', NEW o \in Reqs, VariantPending(o)',
               req'[q].entity.sku = req'[o].entity.sku
        PROVE  q = o
    <3>1. /\ req'[q].entity = req[q].entity /\ req'[o].entity = req[o].entity
          /\ \/ VariantPending(q)
             \/ q = r /\ ~SkuPending(req[r].entity.sku, r)
          /\ \/ VariantPending(o)
             \/ o = r /\ ~SkuPending(req[r].entity.sku, r)
      BY <1>1, <1>3, <2>1, PendingVariants
    <3>2. QED
      BY <1>1, <2>1, <3>1 DEF SkusUnique, SkuPending
  <2>2. ASSUME NEW q \in Reqs, VariantPending(q)'
        PROVE  req'[q].entity = req[q].entity /\ ~SkuTaken(req[q].entity.sku, q)
    BY <1>1, <1>3, <2>2, PendingVariants DEF SkusUnique
  <2>3. CASE \A v \in Ids : variant'[v] # ABSENT =>
               variant[v] # ABSENT /\ variant'[v].sku = variant[v].sku
    <3>1. ASSUME NEW q \in Reqs, VariantPending(q)', NEW v \in Ids \ {q}, variant'[v] # ABSENT
          PROVE  variant'[v].sku # req'[q].entity.sku
      BY <2>2, <2>3, <3>1 DEF SkuTaken
    <3>2. \A v, o \in Ids : variant'[v] # ABSENT /\ variant'[o] # ABSENT =>
            (variant'[v].sku = variant'[o].sku => v = o)
      BY <1>1, <2>3 DEF SkusUnique
    <3>3. QED
      BY <2>1, <3>1, <3>2 DEF SkusUnique, SkuTaken
  <2>4. CASE \E k \in Ids : \E s :
              /\ \A v \in Ids \ {k} : variant'[v] # ABSENT =>
                   variant[v] # ABSENT /\ variant'[v].sku = variant[v].sku
              /\ variant'[k] # ABSENT => variant'[k].sku = s
              /\ ~SkuTaken(s, k)
              /\ \A q \in Reqs : VariantPending(q)' => req'[q].entity.sku # s
    <3>1. PICK k \in Ids : \E s :
              /\ \A v \in Ids \ {k} : variant'[v] # ABSENT =>
                   variant[v] # ABSENT /\ variant'[v].sku = variant[v].sku
              /\ variant'[k] # ABSENT => variant'[k].sku = s
              /\ ~SkuTaken(s, k)
              /\ \A q \in Reqs : VariantPending(q)' => req'[q].entity.sku # s
      BY <2>4
    <3>2. ASSUME NEW q \in Reqs, VariantPending(q)', NEW v \in Ids \ {q}, variant'[v] # ABSENT
          PROVE  variant'[v].sku # req'[q].entity.sku
      BY <2>2, <3>1, <3>2 DEF SkuTaken
    <3>3. \A v, o \in Ids : variant'[v] # ABSENT /\ variant'[o] # ABSENT =>
            (variant'[v].sku = variant'[o].sku => v = o)
      BY <1>1, <3>1 DEF SkusUnique, SkuTaken
    <3>4. QED
      BY <2>1, <3>2, <3>3 DEF SkusUnique, SkuTaken
  <2>5. QED
    BY <1>1, <1>3, <2>3, <2>4, SkuWrites
<1>4. QED
  BY <1>1, <1>2, <1>3, StepCases

-----------------------------------------------------------------------------
(* One review of a product by a customer.                                  *)

LEMMA ReviewsUniqueNext ==
  TypeInv /\ SameProduct /\ ReviewsUnique /\ [Next]_vars => ReviewsUnique'
<1>1. SUFFICES ASSUME TypeInv, SameProduct, ReviewsUnique, [Next]_vars PROVE ReviewsUnique'
  OBVIOUS
<1>2. CASE UNCHANGED vars
  BY <1>1, <1>2 DEF vars, ReviewsUnique, Undeleted
<1>3. ASSUME NEW r \in Reqs, Step(r) PROVE ReviewsUnique'
  <2>1. CASE \A w \in Undeleted' : w \in Undeleted /\ review'[w] = review[w]
    BY <1>1, <2>1 DEF ReviewsUnique
  <2>2. ASSUME NEW k \in ReviewIds, \A w \in ReviewIds \ {k} : review'[w] = review[w],
               k \in Undeleted' => ~Reviewed(review'[k].user, review'[k].product, k)
        PROVE  ReviewsUnique'
    <3>1. \A w \in Undeleted' \ {k} : w \in Undeleted \ {k} /\ review'[w] = review[w]
      BY <2>2 DEF Undeleted
    <3>2. \A w \in Undeleted' \ {k} : k \in Undeleted' =>
            ~(review'[w].user = review'[k].user /\ review'[w].product = review'[k].product)
      BY <2>2, <3>1 DEF Reviewed
    <3>3. QED
      BY <1>1, <3>1, <3>2 DEF ReviewsUnique
  <2>3. CASE PostsReview(r)
    <3>1. /\ r \in ReviewIds /\ \A w \in ReviewIds \ {r} : review'[w] = review[w]
          /\ review'[r].product = req[r].product /\ review'[r].user = req[r].entity.user
      BY <1>1, <2>3, PostWrites
    <3>2. ~Reviewed(req[r].entity.user, req[r].product, r)
      BY <2>3 DEF PostsReview, StoresNewReview
    <3>3. QED
      BY <2>2, <3>1, <3>2
  <2>4. CASE RevisesIt(r)
    <3>1. PICK w : w = req[r].id
      OBVIOUS
    <3>2. /\ w \in ReviewIds /\ \A o \in ReviewIds \ {w} : review'[o] = review[o]
          /\ review'[w] # ABSENT /\ ~review'[w].deleted =>
               ~Reviewed(review'[w].user, review'[w].product, w)
      BY <1>1, <2>4, <3>1, ReviseWrites
    <3>3. QED
      BY <2>2, <3>2 DEF Undeleted
  <2>5. CASE SoftDelete(r)
    <3>1. PICK w : w = req[r].id
      OBVIOUS
    <3>2. /\ w \in ReviewIds /\ \A o \in ReviewIds \ {w} : review'[o] = review[o]
          /\ review'[w] # ABSENT => review'[w].deleted = TRUE
      BY <1>1, <2>5, <3>1, SoftDeleteWrites
    <3>3. QED
      BY <2>2, <3>2 DEF Undeleted
  <2>6. CASE DeleteProduct(r)
    <3>1. \A w \in ReviewIds : review'[w] # ABSENT => review'[w] = review[w]
      BY <1>1, <2>6 DEF DeleteProduct, ReviewIds
    <3>2. QED
      BY <2>1, <3>1 DEF Undeleted
  <2>7. CASE review' = review
    BY <2>1, <2>7 DEF Undeleted
  <2>8. QED
    BY <1>3, <2>3, <2>4, <2>5, <2>6, <2>7, RowsKept
<1>4. QED
  BY <1>1, <1>2, <1>3, StepCases

LEMMA KeysInit == Init => SlugsUnique /\ SkusUnique /\ ReviewsUnique
<1>1. SUFFICES ASSUME Init PROVE SlugsUnique /\ SkusUnique /\ ReviewsUnique
  OBVIOUS
<1>2. /\ \A r \in Reqs : ~Busy(r)
      /\ \A p \in Product : p = FIRST
      /\ \A v \in Ids : variant[v] # ABSENT => v = FIRST
  BY <1>1, InitIs DEF Product
<1>3. \A w \in Undeleted : review[w].user = w
  BY <1>1, InitIs DEF Undeleted
<1>4. QED
  BY <1>2, <1>3 DEF SlugsUnique, SkusUnique, ReviewsUnique, ProductPending, VariantPending, Inserting

\* No two products have one slug, no two variants one SKU, and no customer two
\* reviews of a product, in whatever order the checks, the inserts, the saves
\* that bring rows back and the commits of any number of requests come
\* (products.service.ts:70, 209, 312, 508, reviews.service.ts:60, 111).
THEOREM KeysStayUnique == Spec => []KeysUnique
<1>1. TypeInv /\ SlugsUnique /\ SkusUnique /\ ReviewsUnique => KeysUnique
  BY DEF SlugsUnique, SkusUnique, ReviewsUnique, KeysUnique
<1>2. Sound => TypeInv /\ SameProduct
  BY DEF Sound
<1>3. QED
  BY <1>1, <1>2, SoundAlways, KeysInit, SlugsUniqueNext, SkusUniqueNext, ReviewsUniqueNext, PTL
     DEF Spec

-----------------------------------------------------------------------------
(* Deletions.                                                              *)

Deletions == Holds /\ DeletedStaysDeleted /\ EveryVariantStocked

LEMMA DeletionsInit == Init => Deletions
<1>1. SUFFICES ASSUME Init PROVE Deletions
  OBVIOUS
<1>2. /\ \A r \in Reqs : ~Busy(r)
      /\ removed = {}
      /\ \A v \in Ids : variant[v] # ABSENT => variant[v].stocked
  BY <1>1, InitIs
<1>3. QED
  BY <1>2 DEF Deletions, Holds, RevisesVariant, DeletedStaysDeleted, EveryVariantStocked

\* What is noted of deletions, and never taken back.
LEMMA RemovedIs ==
  ASSUME TypeInv, NEW r \in Reqs, Step(r)
  PROVE  /\ removed \subseteq removed' /\ held \subseteq held'
         /\ \A p : <<"product", p>> \in removed' =>
              <<"product", p>> \in removed \/ (DeleteProduct(r) /\ p = req[r].id)
         /\ \A w : <<"review", w>> \in removed' =>
              \/ <<"review", w>> \in removed
              \/ SoftDelete(r) /\ w = req[r].id
              \/ /\ DeleteProduct(r) /\ w \in ReviewIds /\ review[w] # ABSENT /\ review'[w] = ABSENT
                 /\ (\E q \in Reqs \ {r} : Busy(q) /\ req[q].op \in Saving /\ req[q].id = w) =>
                      <<"review", w>> \in held'
         /\ DeleteProduct(r) => <<"product", req[r].id>> \in removed'
<1>1. CASE SoftDelete(r)
  <2>1. PICK k : k = req[r].id /\ removed' = removed \cup {<<"review", k>>} /\ held \subseteq held'
    BY <1>1, SoftDeleteWrites
  <2>2. ~DeleteProduct(r)
    BY <1>1 DEF SoftDelete, DeleteProduct
  <2>3. QED
    BY <1>1, <2>1, <2>2
<1>2. CASE DeleteProduct(r)
  BY <1>2, DeleteNotes
<1>3. CASE ~SoftDelete(r) /\ ~DeleteProduct(r)
  BY <1>3, RowsKept
<1>4. QED
  BY <1>1, <1>2, <1>3

\* Who updates a product that has gone held it then.
LEMMA HoldsProduct ==
  ASSUME TypeInv, Holds, NEW r \in Reqs, Step(r), NEW q \in Reqs, Busy(q)', req'[q].op = "update",
         NEW p, p = req'[q].id,
         product'[p] = ABSENT \/ (req'[q].pc = "update" /\ req'[q].found = ABSENT)
  PROVE  <<"product", p>> \in held'
<1>0. held \subseteq held' /\ RequestsOK /\ RequestsOK'
  BY RemovedIs, StepMoves DEF TypeInv
<1>1. CASE q = r /\ \E t : Starts(r, t) /\ req'[r] = t
  <2>1. PICK t : Starts(r, t) /\ req'[r] = t
    BY <1>1
  <2>2. t.id \in Product /\ t.pc # "update" /\ product' = product
    BY <1>1, <2>1 DEF Starts, Begun, rows, Saving
  <2>3. QED
    BY <1>1, <2>1, <2>2 DEF Product
<1>2. CASE Busy(q) /\ req[q].op = "update" /\ req[q].id = p
  <2>1. p \in Ids
    BY <1>0, <1>2, BusyIs DEF Fits, Request
  <2>2. CASE product[p] = ABSENT
    BY <1>0, <1>2, <2>2 DEF Holds
  <2>3. CASE product[p] # ABSENT /\ product'[p] = ABSENT
    <3>1. DeleteProduct(r) /\ p = req[r].id
      BY <2>1, <2>3, ProductsCome
    <3>2. q # r
      BY <1>0, <1>2, <3>1, DeleteProductIs
    <3>3. \E o \in Reqs \ {r} : Busy(o) /\ req[o].op = "update" /\ req[o].id = p
      BY <1>2, <3>2
    <3>4. QED
      BY <3>1, <3>3, DeleteNotes
  <2>4. CASE product[p] # ABSENT /\ req'[q].pc = "update" /\ req'[q].found = ABSENT
    <3>1. CASE q # r
      <4>1. req[q].pc = "update" /\ req[q].found = ABSENT
        BY <2>4, <3>1, RequestsGo
      <4>2. QED
        BY <1>0, <1>2, <4>1 DEF Holds
    <3>2. CASE q = r
      <4>1. ~\E t : Starts(r, t) /\ req'[r] = t /\ ~Busy(r)
        BY <1>2, <3>2
      <4>2. PICK t : GoesOn(r, t) /\ req'[r] = t
        BY <2>4, <3>2, <4>1, Onward
      <4>3. t.found = product[req[r].id]
        BY <2>4, <3>2, <4>2 DEF GoesOn, Goes
      <4>4. QED
        BY <1>2, <2>4, <3>2, <4>2, <4>3
    <3>3. QED
      BY <3>1, <3>2
  <2>5. QED
    BY <2>2, <2>3, <2>4
<1>3. QED
  BY <1>1, <1>2, RequestsGo

\* Who updates a variant that has gone: its product has been deleted.
LEMMA HoldsVariant ==
  ASSUME TypeInv, SameProduct, Holds, NEW r \in Reqs, Step(r), NEW q \in Reqs, RevisesVariant(q)',
         NEW v, v = req'[q].id,
         variant'[v] = ABSENT \/ (req'[q].pc = "update_variant" /\ req'[q].found = ABSENT)
  PROVE  <<"product", req'[q].product>> \in removed'
<1>0. removed \subseteq removed' /\ RequestsOK /\ Busy(q)' /\ req'[q].op = "update_variant"
  BY RemovedIs DEF TypeInv, RevisesVariant
<1>1. CASE q = r /\ \E t : Starts(r, t) /\ req'[r] = t
  <2>1. PICK t : Starts(r, t) /\ req'[r] = t
    BY <1>1
  <2>2. variant[t.id] # ABSENT /\ t.pc # "update_variant" /\ variant' = variant
    BY <1>0, <1>1, <2>1 DEF Starts, Begun, rows, Saving
  <2>3. QED
    BY <1>1, <2>1, <2>2
<1>2. CASE RevisesVariant(q) /\ req[q].id = v /\ req'[q].product = req[q].product
  <2>1. v \in Ids /\ Busy(q)
    BY <1>0, <1>2, BusyIs DEF RevisesVariant, Fits
  <2>2. CASE variant[v] = ABSENT
    BY <1>0, <1>2, <2>2 DEF Holds
  <2>3. CASE variant[v] # ABSENT /\ variant'[v] = ABSENT
    <3>1. DeleteProduct(r) /\ variant[v].product = req[r].id
      BY <2>1, <2>3, VariantsCome
    <3>2. variant[v].product = req[q].product
      BY <1>2, <2>3 DEF SameProduct
    <3>3. <<"product", req[r].id>> \in removed'
      BY <3>1, RemovedIs
    <3>4. QED
      BY <1>2, <3>1, <3>2, <3>3
  <2>4. CASE variant[v] # ABSENT /\ req'[q].pc = "update_variant" /\ req'[q].found = ABSENT
    <3>1. CASE q # r
      <4>1. req[q].pc = "update_variant" /\ req[q].found = ABSENT
        BY <1>0, <2>4, <3>1, RequestsGo
      <4>2. QED
        BY <1>0, <1>2, <4>1 DEF Holds
    <3>2. CASE q = r
      <4>1. ~\E t : Starts(r, t) /\ req'[r] = t /\ ~Busy(r)
        BY <2>1, <3>2
      <4>2. PICK t : GoesOn(r, t) /\ req'[r] = t
        BY <1>0, <2>4, <3>2, <4>1, Onward
      <4>3. t.found = variant[req[r].id]
        BY <2>4, <3>2, <4>2 DEF GoesOn, Goes
      <4>4. QED
        BY <1>2, <2>4, <3>2, <4>2, <4>3
    <3>3. QED
      BY <3>1, <3>2
  <2>5. QED
    BY <2>2, <2>3, <2>4
<1>3. QED
  BY <1>0, <1>1, <1>2, RequestsGo DEF RevisesVariant

\* Who saves a review that is deleted held it then.
LEMMA HoldsReview ==
  ASSUME TypeInv, Holds, DeletedStaysDeleted, NEW r \in Reqs, Step(r), NEW q \in Reqs,
         Busy(q)', req'[q].op \in Saving, NEW w, w = req'[q].id, <<"review", w>> \in removed'
  PROVE  <<"review", w>> \in held'
<1>0. held \subseteq held' /\ RequestsOK
  BY RemovedIs DEF TypeInv
<1>1. CASE q = r /\ \E t : Starts(r, t) /\ req'[r] = t
  <2>1. PICK t : Starts(r, t) /\ req'[r] = t
    BY <1>1
  <2>2. t.id \in Undeleted /\ removed' = removed
    BY <1>1, <2>1 DEF Starts, Begun, history, Saving
  <2>3. QED
    BY <1>0, <1>1, <2>1, <2>2 DEF DeletedStaysDeleted
<1>2. CASE Busy(q) /\ req[q].op \in Saving /\ req[q].id = w
  <2>1. CASE <<"review", w>> \in removed
    BY <1>0, <1>2, <2>1 DEF Holds
  <2>2. CASE SoftDelete(r) /\ w = req[r].id
    <3>1. q # r
      BY <1>0, <1>2, <2>2, SoftDeleteIs DEF Saving
    <3>2. <<"review", w>> \in HeldRows(r)
      BY <1>2, <3>1 DEF HeldRows, Saving
    <3>3. QED
      BY <2>2, <3>2 DEF SoftDelete, Deleted
  <2>3. CASE /\ DeleteProduct(r)
             /\ (\E o \in Reqs \ {r} : Busy(o) /\ req[o].op \in Saving /\ req[o].id = w) =>
                  <<"review", w>> \in held'
    <3>1. q # r
      BY <1>0, <1>2, <2>3, DeleteProductIs DEF Saving
    <3>2. QED
      BY <1>2, <2>3, <3>1
  <2>4. QED
    BY <2>1, <2>2, <2>3, RemovedIs
<1>3. QED
  BY <1>1, <1>2, RequestsGo

LEMMA DeletionsNext ==
  TypeInv /\ Names /\ SameProduct /\ Deletions /\ [Next]_vars => Deletions'
<1>1. SUFFICES ASSUME TypeInv, Names, SameProduct, Deletions, [Next]_vars PROVE Deletions'
  OBVIOUS
<1>2. CASE UNCHANGED vars
  BY <1>1, <1>2 DEF vars, Deletions, Holds, RevisesVariant, Busy, DeletedStaysDeleted, Undeleted,
     Product, EveryVariantStocked
<1>3. ASSUME NEW r \in Reqs, Step(r) PROVE Deletions'
  <2>0. /\ RequestsOK /\ Holds /\ DeletedStaysDeleted /\ EveryVariantStocked
        /\ held \subseteq held'
    BY <1>1, <1>3, RemovedIs DEF TypeInv, Deletions
  <2>1. Holds'
    <3>1. ASSUME NEW q \in Reqs
          PROVE  /\ /\ Busy(q)' /\ req'[q].op = "update"
                    /\ \/ product'[req'[q].id] = ABSENT
                       \/ req'[q].pc = "update" /\ req'[q].found = ABSENT
                    => <<"product", req'[q].id>> \in held'
                 /\ /\ RevisesVariant(q)'
                    /\ \/ variant'[req'[q].id] = ABSENT
                       \/ req'[q].pc = "update_variant" /\ req'[q].found = ABSENT
                    => <<"product", req'[q].product>> \in removed'
                 /\ Busy(q)' /\ req'[q].op \in Saving /\ <<"review", req'[q].id>> \in removed' =>
                      <<"review", req'[q].id>> \in held'
      BY <1>1, <1>3, <2>0, HoldsProduct, HoldsVariant, HoldsReview
    <3>2. QED
      BY <3>1 DEF Holds
  <2>2. ASSUME NEW w \in Undeleted', <<"review", w>> \in removed' PROVE <<"review", w>> \in held'
    <3>1. w \in ReviewIds
      BY DEF Undeleted
    <3>2. CASE PostsReview(r) /\ w = r
      <4>1. ~SoftDelete(r) /\ ~DeleteProduct(r)
        BY <3>2 DEF PostsReview, SoftDelete, DeleteProduct
      <4>2. <<"review", w>> \in removed
        BY <1>1, <1>3, <2>2, <4>1, RemovedIs
      <4>3. Posted(r)
        BY <1>1, <3>1, <3>2, <4>2 DEF Names
      <4>4. QED
        BY <1>1, <1>3, <3>2, <4>3, NamesStay
    <3>3. CASE RevisesIt(r) /\ w = req[r].id
      <4>1. ~SoftDelete(r) /\ ~DeleteProduct(r) /\ Busy(r) /\ req[r].op \in Saving
        BY <3>3 DEF RevisesIt, SoftDelete, DeleteProduct, Finishes, Owes
      <4>2. <<"review", w>> \in removed
        BY <1>1, <1>3, <2>2, <4>1, RemovedIs
      <4>3. QED
        BY <2>0, <3>3, <4>1, <4>2 DEF Holds
    <3>4. CASE review'[w] = review[w]
      <4>1. w \in Undeleted
        BY <2>2, <3>4 DEF Undeleted
      <4>2. CASE SoftDelete(r) /\ w = req[r].id
        <5>1. review'[w] # ABSENT => review'[w].deleted = TRUE
          BY <1>1, <4>2, SoftDeleteWrites
        <5>2. QED
          BY <2>2, <5>1 DEF Undeleted
      <4>3. CASE <<"review", w>> \in removed
        BY <2>0, <4>1, <4>3 DEF DeletedStaysDeleted
      <4>4. review'[w] # ABSENT
        BY <2>2 DEF Undeleted
      <4>5. QED
        BY <1>1, <1>3, <2>2, <4>2, <4>3, <4>4, RemovedIs
    <3>5. review'[w] = review[w] \/ (PostsReview(r) /\ w = r) \/ (RevisesIt(r) /\ w = req[r].id)
      <4>1. CASE PostsReview(r)
        BY <1>1, <3>1, <4>1, PostWrites
      <4>2. CASE RevisesIt(r)
        BY <1>1, <3>1, <4>2, ReviseWrites
      <4>3. CASE SoftDelete(r)
        <5>1. PICK k : k = req[r].id
          OBVIOUS
        <5>2. /\ \A o \in ReviewIds \ {k} : review'[o] = review[o]
              /\ review'[k] # ABSENT => review'[k].deleted = TRUE
          BY <1>1, <4>3, <5>1, SoftDeleteWrites
        <5>3. QED
          BY <2>2, <5>2 DEF Undeleted
      <4>4. CASE DeleteProduct(r)
        BY <1>1, <2>2, <4>4 DEF DeleteProduct, Undeleted, ReviewIds
      <4>5. CASE review' = review
        BY <4>5
      <4>6. QED
        BY <1>3, <4>1, <4>2, <4>3, <4>4, <4>5, RowsKept
    <3>6. QED
      BY <3>2, <3>3, <3>4, <3>5
  <2>3. ASSUME NEW p \in Product', <<"product", p>> \in removed' PROVE <<"product", p>> \in held'
    <3>1. p \in Ids /\ product'[p] # ABSENT
      BY DEF Product
    <3>2. ~(DeleteProduct(r) /\ p = req[r].id)
      BY <1>1, <3>1 DEF DeleteProduct, TypeInv, TablesOK
    <3>3. <<"product", p>> \in removed
      BY <1>1, <1>3, <2>3, <3>2, RemovedIs
    <3>4. CASE product[p] # ABSENT
      BY <2>0, <3>1, <3>3, <3>4 DEF DeletedStaysDeleted, Product
    <3>5. CASE Commit(r) /\ p = r
      <4>1. Made(r)
        BY <1>1, <3>1, <3>3, <3>5 DEF Names
      <4>2. QED
        BY <1>1, <1>3, <3>5, <4>1, NamesStay
    <3>6. CASE UpdatesProduct(r) /\ p = req[r].id /\ req[r].found = ABSENT
      BY <2>0, <3>6 DEF Holds, UpdatesProduct, Finishes
    <3>7. QED
      BY <1>1, <1>3, <3>1, <3>4, <3>5, <3>6, ProductsCome
  <2>4. ASSUME NEW v \in Ids, variant'[v] # ABSENT, ~variant'[v].stocked
        PROVE  <<"product", variant'[v].product>> \in held'
    <3>1. CASE /\ variant[v] # ABSENT /\ variant'[v].product = variant[v].product
               /\ variant'[v].stocked = variant[v].stocked
      BY <2>0, <2>4, <3>1 DEF EveryVariantStocked
    <3>2. CASE /\ UpdatesVariant(r) /\ req[r].found = ABSENT /\ req[r].product \in Product
               /\ variant'[v].product = req[r].product
      <4>1. /\ RevisesVariant(r) /\ req[r].pc = "update_variant"
        BY <3>2 DEF UpdatesVariant, RevisesVariant, Finishes
      <4>2. <<"product", req[r].product>> \in removed
        BY <2>0, <3>2, <4>1 DEF Holds
      <4>3. QED
        BY <2>0, <3>2, <4>2 DEF DeletedStaysDeleted
    <3>3. QED
      BY <1>1, <1>3, <2>4, <3>1, <3>2, VariantsCome
  <2>5. DeletedStaysDeleted' /\ EveryVariantStocked'
    BY <2>2, <2>3, <2>4 DEF DeletedStaysDeleted, EveryVariantStocked
  <2>6. QED
    BY <2>1, <2>5 DEF Deletions
<1>4. QED
  BY <1>1, <1>2, <1>3, StepCases

\* A review or a product that was deleted is back only where another request
\* had read it before and saved it afterwards: no other request brings it
\* back, and none that came later (reviews.service.ts:111, 190,
\* products.service.ts:266).
THEOREM OnlyStaleSavesRevive == Spec => []DeletedStaysDeleted
<1>1. Sound /\ Deletions /\ [Next]_vars => Deletions'
  BY DeletionsNext DEF Sound
<1>2. Deletions => DeletedStaysDeleted
  BY DEF Deletions
<1>3. QED
  BY <1>1, <1>2, SoundAlways, DeletionsInit, PTL DEF Spec

\* A variant that customers can see has its inventory row, except where an
\* updateVariant that had read it before its product was deleted inserts it
\* into the product that an update has brought back (products.service.ts:332,
\* 508).
THEOREM VariantsComeWithStock == Spec => []EveryVariantStocked
<1>1. Sound /\ Deletions /\ [Next]_vars => Deletions'
  BY DeletionsNext DEF Sound
<1>2. Deletions => EveryVariantStocked
  BY DEF Deletions
<1>3. QED
  BY <1>1, <1>2, SoundAlways, DeletionsInit, PTL DEF Spec

-----------------------------------------------------------------------------
(* Statistics.                                                             *)

\* The statistics depend on the product's reviews alone.
LEMMA AggregateSame ==
  ASSUME NEW p,
         \A w \in ReviewIds :
           \/ review'[w] = review[w]
           \/ /\ review[w] # ABSENT => review[w].product # p
              /\ review'[w] # ABSENT => review'[w].product # p
  PROVE  Aggregate(p)' = Aggregate(p)
<1>1. Counted(p)' = Counted(p) /\ \A w \in Counted(p) : review'[w] = review[w]
  BY DEF Counted, Undeleted
<1>2. \A n : {w \in Counted(p)' : review'[w].rating >= n} = {w \in Counted(p) : review[w].rating >= n}
  BY <1>1
<1>3. QED
  BY <1>1, <1>2 DEF Aggregate

LEMMA AggregateOfNone ==
  ASSUME NEW p, \A w \in ReviewIds : review[w] # ABSENT => review[w].product # p
  PROVE  Aggregate(p) = NoStats
<1>1. Counted(p) = {}
  BY DEF Counted, Undeleted
<1>2. \A n : {w \in Counted(p) : review[w].rating >= n} = {}
  BY <1>1
<1>3. Cardinality({}) = 0
  BY FS_EmptySet
<1>4. QED
  BY <1>1, <1>2, <1>3 DEF Aggregate, NoStats

\* Who writes reviews writes those of one product.
LEMMA ReviewsWritten ==
  ASSUME TypeInv, Names, SameProduct, NEW r \in Reqs, Step(r), NEW p
  PROVE  \/ Aggregate(p)' = Aggregate(p)
         \/ Owes(r) /\ p = req[r].product
         \/ DeleteProduct(r) /\ p = req[r].id
<1>0. RequestsOK
  BY DEF TypeInv
<1>1. CASE review' = review
  BY <1>1, AggregateSame
<1>2. CASE PostsReview(r) /\ p # req[r].product
  <2>1. \A w \in ReviewIds \ {r} : review'[w] = review[w]
    BY <1>2, PostWrites
  <2>2. review'[r].product # p
    BY <1>2, PostWrites
  <2>3. review[r] = ABSENT
    <3>1. ~Posted(r) /\ r \in ReviewIds
      BY <1>2, NamesStay DEF ReviewIds, Ids
    <3>2. QED
      BY <3>1 DEF Names
  <2>4. QED
    BY <2>1, <2>2, <2>3, AggregateSame
<1>3. CASE (RevisesIt(r) \/ SoftDelete(r)) /\ p # req[r].product
  <2>1. PICK k : k = req[r].id
    OBVIOUS
  <2>2. RevisesReview(r) /\ Owes(r)
    BY <1>0, <1>3, SoftDeleteIs DEF RevisesReview, RevisesIt, Owes
  <2>3. k \in ReviewIds /\ \A w \in ReviewIds \ {k} : review'[w] = review[w]
    BY <1>3, <2>1, ReviseWrites, SoftDeleteWrites
  <2>4. review[k] # ABSENT => review[k].product = req[r].product
    BY <2>1, <2>2 DEF SameProduct
  <2>5. review'[k] # ABSENT => review'[k].product = req[r].product
    <3>1. ASSUME review'[k] # ABSENT
          PROVE  \/ review[k] # ABSENT /\ review'[k].product = review[k].product
                 \/ review'[k].product = req[r].product
      BY <2>3, <3>1, ReviewsCome, ProductIsKept
    <3>2. QED
      BY <2>4, <3>1
  <2>6. QED
    BY <1>3, <2>3, <2>4, <2>5, AggregateSame
<1>4. CASE DeleteProduct(r) /\ p # req[r].id
  <2>1. \A w \in ReviewIds : \/ review'[w] = review[w]
                             \/ review'[w] = ABSENT /\ review[w].product # p
    BY <1>4 DEF DeleteProduct, ReviewIds
  <2>2. QED
    BY <2>1, AggregateSame
<1>5. CASE (PostsReview(r) \/ RevisesIt(r) \/ SoftDelete(r)) /\ p = req[r].product
  BY <1>0, <1>5, SoftDeleteIs DEF PostsReview, RevisesIt
<1>6. QED
  BY <1>1, <1>2, <1>3, <1>4, <1>5, RowsKept

LEMMA CountsRightNext ==
  TypeInv /\ Names /\ SameProduct /\ CountsRight /\ [Next]_vars => CountsRight'
<1>1. SUFFICES ASSUME TypeInv, Names, SameProduct, CountsRight, [Next]_vars PROVE CountsRight'
  OBVIOUS
<1>2. CASE UNCHANGED vars
  BY <1>1, <1>2 DEF vars, CountsRight, Busy, Aggregate, Counted, Undeleted
<1>3. ASSUME NEW r \in Reqs, Step(r), NEW q \in Reqs, Busy(q)', req'[q].pc = "store_stats",
             ~req'[q].crossed, NEW p, p = req'[q].product
      PROVE  req'[q].stats = Aggregate(p)'
  <2>0. RequestsOK
    BY <1>1 DEF TypeInv
  <2>1. CASE q # r
    <3>1. /\ Busy(q) /\ req[q].pc = "store_stats" /\ ~req[q].crossed /\ req[q].product = p
          /\ req'[q].stats = req[q].stats
      BY <1>1, <1>3, <2>1, RequestsGo
    <3>2. ~(Owes(r) /\ p = req[r].product)
      BY <1>3, <2>0, <2>1, <3>1, OweMoves
    <3>3. ~(DeleteProduct(r) /\ p = req[r].id)
      BY <1>3, <2>0, <2>1, <3>1, DeleteProductIs
    <3>4. Aggregate(p)' = Aggregate(p)
      BY <1>1, <1>3, <3>2, <3>3, ReviewsWritten
    <3>5. QED
      BY <1>1, <3>1, <3>4 DEF CountsRight
  <2>2. CASE q = r
    <3>1. \A t : Starts(r, t) => t.pc # "store_stats"
      BY DEF Starts, Begun
    <3>2. PICK t : GoesOn(r, t) /\ req'[r] = t /\ Moves(r)
      BY <1>1, <1>3, <2>2, <3>1, Onward
    <3>3. t.stats = Aggregate(req[r].product) /\ t.product = req[r].product /\ review' = review
      BY <1>3, <2>2, <3>2 DEF GoesOn, Goes, rows
    <3>4. Aggregate(p)' = Aggregate(p)
      BY <3>3, AggregateSame
    <3>5. QED
      BY <1>3, <2>2, <3>2, <3>3, <3>4
  <2>3. QED
    BY <2>1, <2>2
<1>4. ASSUME NEW r \in Reqs, Step(r) PROVE CountsRight'
  <2>1. ASSUME NEW q \in Reqs
        PROVE  (Busy(q) /\ req[q].pc = "store_stats" /\ ~req[q].crossed =>
                  req[q].stats = Aggregate(req[q].product))'
    <3>1. PICK p : p = req'[q].product
      OBVIOUS
    <3>2. Busy(q)' /\ req'[q].pc = "store_stats" /\ ~req'[q].crossed => req'[q].stats = Aggregate(p)'
      BY <1>3, <1>4, <3>1
    <3>3. QED
      BY <3>1, <3>2 DEF Aggregate, Counted
  <2>2. QED
    BY <2>1 DEF CountsRight
<1>5. QED
  BY <1>1, <1>2, <1>4, StepCases

LEMMA StatsNext ==
  /\ TypeInv /\ Names /\ SameProduct /\ References /\ CountsRight
  /\ StatsWrongOnlyByRaces /\ [Next]_vars
  => StatsWrongOnlyByRaces'
<1>1. SUFFICES ASSUME TypeInv, Names, SameProduct, References, CountsRight,
                      StatsWrongOnlyByRaces, [Next]_vars
               PROVE  StatsWrongOnlyByRaces'
  OBVIOUS
<1>2. CASE UNCHANGED vars
  BY <1>1, <1>2 DEF vars, StatsWrongOnlyByRaces, OwesStats, Product, Busy, Aggregate, Counted, Undeleted
<1>3. ASSUME NEW r \in Reqs, Step(r), NEW p \in Product'
      PROVE  \/ product'[p].stats = Aggregate(p)'
             \/ p \in unsure'
             \/ \E q \in Reqs : OwesStats(q)' /\ req'[q].product = p
  <2>0. RequestsOK /\ Others(r) /\ p \in Ids /\ product'[p] # ABSENT
    BY <1>1, <1>3, StepMoves DEF TypeInv, Product
  <2>1. CASE Owes(r) /\ p = req[r].product
    <3>1. Moves(r) /\ Busy(r)' /\ req'[r].pc = "aggregate"
      BY <2>0, <2>1, OweMoves
    <3>2. OwesStats(r)' /\ req'[r].product = p
      BY <2>1, <3>1 DEF OwesStats, Moves, Busy
    <3>3. QED
      BY <3>2
  <2>2. ~(DeleteProduct(r) /\ p = req[r].id)
    BY <1>1, <2>0, DeleteWrites
  <2>3. CASE Commit(r) /\ req[r].op = "create" /\ p = r
    <3>1. product'[p].stats = NoStats
      BY <1>1, <2>3, CommitWrites
    <3>2. product[p] = ABSENT
      <4>1. ~Made(r)
        BY <1>1, <1>3, <2>3, NamesStay
      <4>2. QED
        BY <1>1, <2>0, <2>3, <4>1 DEF Names
    <3>3. \A w \in ReviewIds : review[w] # ABSENT => review[w].product # p
      BY <1>1, <3>2 DEF References, Product
    <3>4. Aggregate(p) = NoStats
      BY <3>3, AggregateOfNone
    <3>5. review' = review
      BY <2>3 DEF Commit
    <3>6. Aggregate(p)' = Aggregate(p)
      BY <3>5, AggregateSame
    <3>7. QED
      BY <3>1, <3>4, <3>6
  <2>4. CASE UpdatesProduct(r) /\ p = req[r].id
    <3>1. (product[p] # ABSENT /\ product'[p].stats = product[p].stats) \/ p \in unsure'
      BY <1>1, <2>0, <2>4, UpdateWrites
    <3>2. unsure \subseteq unsure' /\ review' = review
      BY <1>1, <2>4, UpdateWrites
    <3>3. Aggregate(p)' = Aggregate(p)
      BY <3>2, AggregateSame
    <3>4. req[r].op = "update" /\ Fits(req[r], r)
      BY <2>4 DEF UpdatesProduct
    <3>5. ~OwesStats(r)
      BY <2>4 DEF OwesStats, UpdatesProduct
    <3>6. CASE \E q \in Reqs : OwesStats(q) /\ req[q].product = p
      BY <2>0, <3>5, <3>6 DEF OwesStats, Others, SameState, Busy
    <3>7. QED
      BY <1>1, <2>0, <3>1, <3>2, <3>3, <3>6 DEF StatsWrongOnlyByRaces, Product
  <2>5. CASE StoreStats(r) /\ p = req[r].product
    <3>1. product'[p].stats = req[r].stats
      BY <1>1, <2>0, <2>5, StoreStatsWrites
    <3>2. CASE req[r].crossed
      BY <2>5, <3>2 DEF StoreStats
    <3>3. CASE ~req[r].crossed
      <4>1. Busy(r) /\ req[r].pc = "store_stats"
        BY <2>0, <2>5, StoreStatsIs DEF Finishes, StoreStats
      <4>2. req[r].stats = Aggregate(p)
        BY <1>1, <2>5, <3>3, <4>1 DEF CountsRight
      <4>3. review' = review
        BY <2>5 DEF StoreStats
      <4>4. Aggregate(p)' = Aggregate(p)
        BY <4>3, AggregateSame
      <4>5. QED
        BY <3>1, <4>2, <4>4
    <3>4. QED
      BY <3>2, <3>3
  <2>6. CASE product'[p] = product[p] /\ ~(Owes(r) /\ p = req[r].product)
             /\ ~(StoreStats(r) /\ p = req[r].product)
    <3>1. Aggregate(p)' = Aggregate(p)
      BY <1>1, <1>3, <2>2, <2>6, ReviewsWritten
    <3>2. p \in Product
      BY <2>0, <2>6 DEF Product
    <3>3. CASE p \in unsure
      <4>1. CASE StoreStats(r)
        BY <2>6, <3>3, <4>1 DEF StoreStats
      <4>2. CASE Gives(r)
        BY <3>3, <4>2 DEF Gives, Abort
      <4>3. CASE UpdatesProduct(r)
        BY <1>1, <3>3, <4>3, UpdateWrites
      <4>4. CASE unsure' = unsure
        BY <3>3, <4>4
      <4>5. QED
        BY <1>3, <4>1, <4>2, <4>3, <4>4, RowsKept
    <3>4. CASE \E q \in Reqs : OwesStats(q) /\ req[q].product = p
      <4>1. PICK q \in Reqs : OwesStats(q) /\ req[q].product = p
        BY <3>4
      <4>2. CASE q # r
        BY <2>0, <4>1, <4>2 DEF OwesStats, Others, SameState, Busy
      <4>3. CASE q = r
        <5>1. CASE Gives(r)
          BY <4>1, <4>3, <5>1 DEF Gives, Abort
        <5>2. CASE ~Gives(r)
          <6>1. req'[r] # Done
            <7>1. Posted(r) /\ req[r].pc \in {"aggregate", "store_stats"} /\ Busy(r)
              BY <4>1, <4>3 DEF Posted, OwesStats
            <7>2. Continues(r)
              <8>1. ~Begins(r)
                BY <7>1 DEF Begins, Starts, Busy
              <8>2. ~(Commit(r) \/ UpdatesProduct(r) \/ DeleteProduct(r) \/ DeleteImage(r))
                BY <7>1 DEF Commit, UpdatesProduct, DeleteProduct, DeleteImage
              <8>3. ~(UpdatesVariant(r) \/ PostsReview(r) \/ RevisesIt(r) \/ SoftDelete(r))
                BY <7>1 DEF UpdatesVariant, PostsReview, RevisesIt, SoftDelete
              <8>4. ~StoreStats(r)
                BY <2>6, <4>1, <4>3
              <8>5. QED
                BY <1>3, <5>2, <8>1, <8>2, <8>3, <8>4 DEF Step
            <7>3. QED
              BY <2>0, <7>2, ContinueMoves DEF Continues, Busy
          <6>2. Posted(r) => Posted(r)'
            BY <1>1, <1>3, NamesStay
          <6>3. OwesStats(r)'
            BY <4>1, <4>3, <6>1, <6>2 DEF Posted
          <6>4. Busy(r)' /\ Busy(r)
            BY <4>1, <4>3, <6>3 DEF OwesStats
          <6>5. req'[r].product = req[r].product
            BY <1>1, <1>3, <6>4, RequestsGo
          <6>6. QED
            BY <4>1, <4>3, <6>3, <6>5
        <5>3. QED
          BY <5>1, <5>2
      <4>4. QED
        BY <4>2, <4>3
    <3>5. CASE product[p].stats = Aggregate(p)
      BY <2>6, <3>1, <3>5
    <3>6. QED
      BY <1>1, <3>2, <3>3, <3>4, <3>5 DEF StatsWrongOnlyByRaces
  <2>7. \/ product'[p] = product[p]
        \/ Commit(r) /\ req[r].op = "create" /\ p = r
        \/ UpdatesProduct(r) /\ p = req[r].id
        \/ StoreStats(r) /\ p = req[r].product
    <3>1. CASE Commit(r)
      BY <1>1, <2>0, <3>1 DEF Commit, TypeInv, TablesOK
    <3>2. CASE UpdatesProduct(r)
      BY <1>1, <2>0, <3>2, UpdateWrites
    <3>3. CASE StoreStats(r)
      BY <1>1, <2>0, <3>3, StoreStatsWrites
    <3>4. CASE DeleteProduct(r)
      BY <1>1, <2>0, <2>2, <3>4 DEF DeleteProduct, TypeInv, TablesOK
    <3>5. CASE product' = product
      BY <3>5
    <3>6. QED
      BY <1>3, <3>1, <3>2, <3>3, <3>4, <3>5, RowsKept
  <2>8. QED
    BY <2>1, <2>3, <2>4, <2>5, <2>6, <2>7
<1>4. ASSUME NEW r \in Reqs, Step(r) PROVE StatsWrongOnlyByRaces'
  BY <1>3, <1>4 DEF StatsWrongOnlyByRaces
<1>5. QED
  BY <1>1, <1>2, <1>4, StepCases

LEMMA StatsInit == Init => CountsRight /\ StatsWrongOnlyByRaces
<1>1. SUFFICES ASSUME Init PROVE CountsRight /\ StatsWrongOnlyByRaces
  OBVIOUS
<1>2. \A r \in Reqs : ~Busy(r)
  BY <1>1, InitIs
<1>3. PICK reviewers \in SUBSET Users :
        /\ IsFiniteSet(reviewers) /\ Cardinality(reviewers) \in Nat
        /\ \A w \in ReviewIds :
             /\ review[w] # ABSENT <=> w \in reviewers
             /\ w \in reviewers => /\ review[w].user = w /\ review[w].product = FIRST
                                   /\ review[w].rating = FirstRating
                                   /\ review[w].approved = TRUE
                                   /\ review[w].deleted = FALSE
        /\ \A p \in Ids : product[p] # ABSENT <=> p = FIRST
        /\ product[FIRST].stats = [count |-> Cardinality(reviewers),
                                   sum |-> FirstRating * Cardinality(reviewers)]
  BY <1>1, InitIs
<1>4. Counted(FIRST) = reviewers
  BY <1>3 DEF Counted, Undeleted, ReviewIds
<1>5. \A n \in 1..5 : Cardinality({w \in Counted(FIRST) : review[w].rating >= n})
                        = IF FirstRating >= n THEN Cardinality(reviewers) ELSE 0
  <2>1. SUFFICES ASSUME NEW n \in 1..5
                 PROVE  Cardinality({w \in Counted(FIRST) : review[w].rating >= n})
                          = IF FirstRating >= n THEN Cardinality(reviewers) ELSE 0
    OBVIOUS
  <2>2. \A w \in reviewers : review[w].rating = FirstRating
    BY <1>3 DEF ReviewIds
  <2>3. CASE FirstRating >= n
    <3>1. {w \in Counted(FIRST) : review[w].rating >= n} = reviewers
      BY <1>4, <2>2, <2>3
    <3>2. QED
      BY <2>3, <3>1
  <2>4. CASE ~(FirstRating >= n)
    <3>1. {w \in Counted(FIRST) : review[w].rating >= n} = {}
      BY <1>4, <2>2, <2>4
    <3>2. QED
      BY <2>4, <3>1, FS_EmptySet
  <2>5. QED
    BY <2>3, <2>4
<1>6. Aggregate(FIRST) = product[FIRST].stats
  <2>1. PICK c \in Nat : c = Cardinality(reviewers)
    BY <1>3
  <2>2. FirstRating \in 1..5
    BY CatalogAssumption
  <2>3. Aggregate(FIRST).count = c /\ product[FIRST].stats = [count |-> c, sum |-> FirstRating * c]
    BY <1>3, <1>4, <2>1 DEF Aggregate
  <2>4. Aggregate(FIRST) = [count |-> c,
          sum |-> (IF FirstRating >= 1 THEN c ELSE 0) + (IF FirstRating >= 2 THEN c ELSE 0)
                + (IF FirstRating >= 3 THEN c ELSE 0) + (IF FirstRating >= 4 THEN c ELSE 0)
                + (IF FirstRating >= 5 THEN c ELSE 0)]
    BY <1>4, <1>5, <2>1 DEF Aggregate
  <2>5. (IF FirstRating >= 1 THEN c ELSE 0) + (IF FirstRating >= 2 THEN c ELSE 0)
          + (IF FirstRating >= 3 THEN c ELSE 0) + (IF FirstRating >= 4 THEN c ELSE 0)
          + (IF FirstRating >= 5 THEN c ELSE 0) = FirstRating * c
    <3>1. \/ FirstRating = 1 \/ FirstRating = 2 \/ FirstRating = 3 \/ FirstRating = 4
          \/ FirstRating = 5
      BY <2>2
    <3>2. QED
      BY <2>1, <3>1
  <2>6. QED
    BY <2>3, <2>4, <2>5
<1>7. CountsRight
  BY <1>2 DEF CountsRight
<1>8. StatsWrongOnlyByRaces
  BY <1>3, <1>6 DEF StatsWrongOnlyByRaces, Product
<1>9. QED
  BY <1>7, <1>8

\* Once the reviews of a product are at rest the product shows their count and
\* their sum, for any number of reviews, unless the statistics were last
\* written from a count that was old by then, by a product update that had
\* read them before, or a request died before it wrote them
\* (reviews.service.ts:228-247, products.service.ts:266).
THEOREM StatsAreLiveButForRaces == Spec => []StatsWrongOnlyByRaces
<1>1. Sound /\ CountsRight /\ StatsWrongOnlyByRaces /\ [Next]_vars =>
        CountsRight' /\ StatsWrongOnlyByRaces'
  BY CountsRightNext, StatsNext DEF Sound
<1>2. QED
  BY <1>1, SoundAlways, StatsInit, PTL DEF Spec

=============================================================================
