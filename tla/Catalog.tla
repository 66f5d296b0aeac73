------------------------------ MODULE Catalog ------------------------------
(***************************************************************************)
(* Products and their variants, as the administrator changes them, on a    *)
(* pool of database connections.                                           *)
(*                                                                         *)
(* A process is one HTTP request, served once.  A step is one statement.   *)
(* A transaction holds a connection from its first statement to its last;  *)
(* every other statement borrows one, also those that a transaction sends  *)
(* through a repository instead of its manager.  A transaction's inserts   *)
(* are kept in its request until it commits.  repository.save(entity), on  *)
(* one connection, is a SELECT by id and then an UPDATE of the columns     *)
(* that differ from it, or an INSERT where the SELECT found nothing.       *)
(*                                                                         *)
(* Reviews, whose rows and whose statistics in the product row belong to   *)
(* the same picture, are the business of module Reviews.                   *)
(***************************************************************************)
EXTENDS Integers, FiniteSets

CONSTANTS
  Reqs,       \* requests; what one creates is named after it
  FIRST,      \* the product and the variant there are in the beginning
  Users,      \* customers who have received the product
  Skus,       \* stock keeping units of variants
  FirstSku,   \* the one of the first variant
  Ratings,    \* what customers may give
  FirstRating,  \* the one in the beginning
  NewSlugs,   \* slugs an update may ask for
  PoolSize,   \* connections in the pool (data-source.ts: 20)
  Failing,    \* requests that may fail at any step
  ABSENT      \* no row

ASSUME CatalogAssumption ==
  /\ FIRST \notin Reqs /\ FirstSku \in Skus
  /\ IsFiniteSet(Reqs) /\ NewSlugs \subseteq 0..Cardinality(Reqs)
  /\ IsFiniteSet(Users) /\ Users \cap (Reqs \cup {FIRST}) = {}
  /\ Ratings \subseteq 1..5 /\ FirstRating \in Ratings
  /\ PoolSize \in Nat \ {0}

Ids == Reqs \cup {FIRST}

\* Suffixes of the one slug all products ask for: 0 is none.  With a product
\* per request, one of these is always left.
Slugs == 0..Cardinality(Reqs)

Stats == [count: Nat, sum: Nat]   \* review_count; average_rating times it
NoStats == [count |-> 0, sum |-> 0]

ProductRow == [slug: Slugs, stats: Stats]

\* stocked: the variant has its inventory row.
VariantRow == [product: Ids, sku: Skus, stocked: BOOLEAN]

ReviewRow == [user: Users, product: Ids, rating: Ratings, approved: BOOLEAN,
              deleted: BOOLEAN]

\* null is no row and no SKU.
ASSUME AbsentAssumption == ABSENT \notin ProductRow \cup VariantRow \cup ReviewRow \cup Skus

VARIABLES
  product, variant, review,  \* committed rows
  image,    \* products that list their image; files are not modelled
  leaked,   \* connections that were borrowed and never returned
  req,      \* the requests
  removed,  \* history: rows that were deleted
  held,     \* history: rows another request had read when they were deleted
  unsure    \* history: products whose statistics were written out of order

rows == <<product, variant, review, image>>
history == <<removed, held, unsure>>
vars == <<product, variant, review, image, leaked, req, removed, held, unsure>>

Product == {p \in Ids : product[p] # ABSENT}

New == [pc |-> "new"]
Done == [pc |-> "done"]
Busy(r) == req[r] \notin {New, Done}

\* tx: it holds a connection; id: the row it is about; product: the product
\* that row belongs to; entity: what it read of the row; found: what save's
\* SELECT read; stats: product statistics it read or computed; crossed:
\* the reviews they were computed from have changed since.
Begin(op, pc, tx, id, p, entity) ==
  [op |-> op, pc |-> pc, tx |-> tx, id |-> id, product |-> p, entity |-> entity,
   found |-> ABSENT, stats |-> NoStats, crossed |-> FALSE]

Goto(r, pc) == req' = [req EXCEPT ![r].pc = pc]

-----------------------------------------------------------------------------
(* The pool.                                                               *)

Free == leaked + Cardinality({r \in Reqs : Busy(r) /\ req[r].tx}) < PoolSize

\* Steps that borrow a connection for one statement, or for a transaction.
Borrows == {"slug", "lookup", "begin", "check_slug", "delete", "select_variant",
            "delete_image", "insert_review", "select_review", "delete_review",
            "aggregate", "store_stats"}

\* A review was changed and the statistics of its product are still to follow.
OwesStats(r) == Busy(r) /\ req[r].pc \in {"aggregate", "store_stats"}

\* The reviews of p change under the requests that have counted them.
Cross(p) == [q \in Reqs |-> IF Busy(q) /\ req[q].pc = "store_stats" /\ req[q].product = p
                            THEN [req[q] EXCEPT !.crossed = TRUE]
                            ELSE req[q]]

\* A request ends without success: its transaction is rolled back.
Abort(r) ==
  /\ req' = [req EXCEPT ![r] = Done]
  /\ unsure' = IF OwesStats(r) THEN unsure \cup {req[r].product} ELSE unsure
  /\ UNCHANGED <<rows, leaked, removed, held>>

\* An error of the driver, or the server dying.
Fail(r) == r \in Failing /\ Busy(r) /\ Abort(r)

\* Mutant of TimeOut: a pool without connectionTimeoutMillis.
WaitForever(r) == FALSE /\ UNCHANGED vars

\* connectionTimeoutMillis.
TimeOut(r) == Busy(r) /\ req[r].pc \in Borrows /\ ~Free /\ Abort(r)

-----------------------------------------------------------------------------
(* Uniqueness: an insert waits for a transaction that has inserted the     *)
(* same key, and fails on a committed one.                                 *)

\* Transactions that have inserted a product, or a variant.
Inserting(r, pcs) == Busy(r) /\ req[r].tx /\ req[r].pc \in pcs

ProductPending(r) == Inserting(r, {"lookup", "insert_both", "commit"}) /\ req[r].op = "create"
VariantPending(r) == \/ Inserting(r, {"lookup", "insert_inventory", "commit"}) /\ req[r].op = "add_variant"
                     \/ Inserting(r, {"commit"}) /\ req[r].op = "create" /\ req[r].entity.sku # ABSENT

SlugTaken(s, p) == \E o \in Product \ {p} : product[o].slug = s
SkuTaken(k, v) == \E o \in Ids \ {v} : variant[o] # ABSENT /\ variant[o].sku = k

SlugPending(s, r) == \E q \in Reqs \ {r} : ProductPending(q) /\ req[q].entity.slug = s
SkuPending(k, r) == \E q \in Reqs \ {r} : VariantPending(q) /\ req[q].entity.sku = k

-----------------------------------------------------------------------------
(* create                                                                  *)

\* A new product's slug, or the one made of its name, and the SKU of its
\* variant if it has one; further variants would come the same way.
CreateProductDto == [slug: {0}, sku: Skus \cup {ABSENT}]

\* The transaction begins; category, brand and collections are found.
Create(r, dto) ==
  /\ req[r] = New /\ Free
  /\ req' = [req EXCEPT ![r] = Begin("create", "slug", TRUE, r, r, dto)]
  /\ UNCHANGED <<rows, leaked, history>>

\* generateUniqueSlug asks for one candidate, outside the transaction.
TrySlug(r) ==
  LET s == req[r].entity.slug IN
  /\ req[r].pc = "slug" /\ Free
  /\ req' = IF SlugTaken(s, r) THEN [req EXCEPT ![r].entity.slug = s + 1]
            ELSE [req EXCEPT ![r].pc = "insert_product"]
  /\ UNCHANGED <<rows, leaked, history>>

\* Mutant of InsertProduct: an index on slug that is not unique.
InsertProductUnindexed(r) ==
  /\ req[r].pc = "insert_product"
  /\ Goto(r, IF req[r].entity.sku = ABSENT THEN "commit" ELSE "lookup")
  /\ UNCHANGED <<rows, leaked, history>>

InsertProduct(r) ==
  LET q == req[r] IN
  /\ q.pc = "insert_product" /\ ~SlugPending(q.entity.slug, r)
  /\ IF SlugTaken(q.entity.slug, r) THEN Abort(r)
     ELSE /\ Goto(r, IF q.entity.sku = ABSENT THEN "commit" ELSE "lookup")
          /\ UNCHANGED <<rows, leaked, history>>

\* getDefaultWarehouseId: its query runner is not released.
GetDefaultWarehouseId(r) ==
  /\ req[r].pc = "lookup" /\ Free
  /\ leaked' = leaked + 1
  /\ Goto(r, IF req[r].op = "create" THEN "insert_both" ELSE "insert_inventory")
  /\ UNCHANGED <<rows, history>>

\* createVariantsInTransaction: the variant and its inventory.
InsertVariantAndInventory(r) ==
  LET q == req[r] IN
  /\ q.pc = "insert_both" /\ ~SkuPending(q.entity.sku, r)
  /\ IF SkuTaken(q.entity.sku, r) THEN Abort(r)
     ELSE Goto(r, "commit") /\ UNCHANGED <<rows, leaked, history>>

\* COMMIT of create, which inserted an image uploaded before, and of addVariant.
Commit(r) ==
  LET q == req[r] IN
  /\ q.pc = "commit"
  /\ product' = IF q.op = "create"
                THEN [product EXCEPT ![r] = [slug |-> q.entity.slug, stats |-> NoStats]]
                ELSE product
  /\ variant' = IF q.entity.sku = ABSENT THEN variant
                ELSE [variant EXCEPT ![r] =
                       [product |-> q.product, sku |-> q.entity.sku, stocked |-> TRUE]]
  /\ image' = IF q.op = "create" THEN image \cup {r} ELSE image
  /\ req' = [req EXCEPT ![r] = Done]
  /\ UNCHANGED <<review, leaked, history>>

-----------------------------------------------------------------------------
(* addVariant                                                              *)

CreateVariantDto == [sku: Skus]

\* The product is there and the SKU is not.
AddVariant(r, p, dto) ==
  /\ req[r] = New /\ Free
  /\ p \in Product /\ ~SkuTaken(dto.sku, r)
  /\ req' = [req EXCEPT ![r] = Begin("add_variant", "begin", FALSE, r, p, dto)]
  /\ UNCHANGED <<rows, leaked, history>>

\* Mutant of InsertVariant: variantRepo.save instead of manager.save.
InsertVariantOutside(r) ==
  LET q == req[r] IN
  /\ q.pc = "begin" /\ Free /\ ~SkuPending(q.entity.sku, r)
  /\ IF SkuTaken(q.entity.sku, r) \/ q.product \notin Product THEN Abort(r)
     ELSE /\ variant' = [variant EXCEPT ![r] =
               [product |-> q.product, sku |-> q.entity.sku, stocked |-> FALSE]]
          /\ req' = [req EXCEPT ![r].pc = "lookup", ![r].tx = TRUE]
          /\ UNCHANGED <<product, review, image, leaked, history>>

\* The transaction begins with the variant; it refers to the product's row.
InsertVariant(r) ==
  LET q == req[r] IN
  /\ q.pc = "begin" /\ Free /\ ~SkuPending(q.entity.sku, r)
  /\ IF SkuTaken(q.entity.sku, r) \/ q.product \notin Product THEN Abort(r)
     ELSE /\ req' = [req EXCEPT ![r].pc = "lookup", ![r].tx = TRUE]
          /\ UNCHANGED <<rows, leaked, history>>

InsertInventory(r) ==
  /\ req[r].pc = "insert_inventory"
  /\ Goto(r, "commit")
  /\ UNCHANGED <<rows, leaked, history>>

-----------------------------------------------------------------------------
(* update                                                                  *)

\* The transaction begins and reads the product; slug s may be its own.
Update(r, p, s) ==
  /\ req[r] = New /\ Free /\ p \in Product
  /\ req' = [req EXCEPT ![r] =
       [Begin("update", IF s = product[p].slug THEN "select" ELSE "check_slug", TRUE, p, p,
              [slug |-> s, sku |-> ABSENT])
        EXCEPT !.stats = product[p].stats]]
  /\ UNCHANGED <<rows, leaked, history>>

CheckSlug(r) ==
  LET q == req[r] IN
  /\ q.pc = "check_slug" /\ Free
  /\ IF SlugTaken(q.entity.slug, q.id) THEN Abort(r)
     ELSE Goto(r, "select") /\ UNCHANGED <<rows, leaked, history>>

\* manager.save, first statement.
SelectProduct(r) ==
  /\ req[r].pc = "select"
  /\ req' = [req EXCEPT ![r].pc = "update", ![r].found = product[req[r].id]]
  /\ UNCHANGED <<rows, leaked, history>>

\* Second statement, and COMMIT: the slug and the statistics are written where
\* the SELECT found others, the latter if they changed after the product was
\* read.  A product that had gone is inserted.
UpdateProduct(r) ==
  LET q == req[r]
      p == q.id
      gone == q.found = ABSENT
      stored == gone \/ p \in Product
      renamed == stored /\ (gone \/ q.entity.slug # q.found.slug)
      stale == stored /\ (gone \/ q.stats # q.found.stats) IN
  /\ q.pc = "update" /\ (renamed => ~SlugPending(q.entity.slug, r))
  /\ IF (renamed /\ SlugTaken(q.entity.slug, p)) \/ (gone /\ p \in Product) THEN Abort(r)
     ELSE /\ product' = IF stored
               THEN [product EXCEPT ![p] =
                      [slug |-> IF renamed THEN q.entity.slug ELSE @.slug,
                       stats |-> IF stale THEN q.stats ELSE @.stats]]
               ELSE product
          /\ req' = [req EXCEPT ![r] = Done]
          /\ unsure' = IF stale THEN unsure \cup {p} ELSE unsure
          /\ UNCHANGED <<variant, review, image, leaked, removed, held>>

-----------------------------------------------------------------------------
(* remove                                                                  *)

\* The product is read.  The deletion of its image's file, whose failure is only
\* logged, changes nothing that is modelled.
Remove(r, p) ==
  /\ req[r] = New /\ Free /\ p \in Product
  /\ req' = [req EXCEPT ![r] = Begin("remove", "delete", FALSE, p, p, ABSENT)]
  /\ UNCHANGED <<rows, leaked, history>>

\* Mutant of DeleteProduct: variants that do not go with their product.
DeleteProductOnly(r) ==
  LET p == req[r].id IN
  /\ req[r].pc = "delete" /\ Free
  /\ product' = [product EXCEPT ![p] = ABSENT]
  /\ req' = [req EXCEPT ![r] = Done]
  /\ UNCHANGED <<variant, review, image, leaked, history>>

\* Rows that other requests have read and will save.
HeldRows(r) ==
  {<<"product", req[q].id>> : q \in {q \in Reqs \ {r} : Busy(q) /\ req[q].op = "update"}} \cup
  {<<"review", req[q].id>> : q \in {q \in Reqs \ {r} :
                                  Busy(q) /\ req[q].op \in {"update_review", "moderate"}}}

Deleted(r, gone) ==
  /\ removed' = removed \cup gone
  /\ held' = held \cup (gone \cap HeldRows(r))

\* DELETE waits for the transactions that refer to the row, and takes the
\* variants, their inventory, the image's row and the reviews along.
DeleteProduct(r) ==
  LET p == req[r].id
      variants == {v \in Ids : variant[v] # ABSENT /\ variant[v].product = p}
      reviews == {w \in Ids \cup Users : review[w] # ABSENT /\ review[w].product = p} IN
  /\ req[r].pc = "delete" /\ Free
  /\ ~\E q \in Reqs : VariantPending(q) /\ req[q].op = "add_variant" /\ req[q].product = p
  /\ product' = [product EXCEPT ![p] = ABSENT]
  /\ variant' = [v \in Ids |-> IF v \in variants THEN ABSENT ELSE variant[v]]
  /\ review' = [w \in Ids \cup Users |-> IF w \in reviews THEN ABSENT ELSE review[w]]
  /\ image' = image \ {p}
  /\ Deleted(r, {<<"product", p>>} \cup {<<"review", w>> : w \in reviews})
  /\ req' = [Cross(p) EXCEPT ![r] = Done]
  /\ UNCHANGED <<leaked, unsure>>

-----------------------------------------------------------------------------
(* removeImage                                                             *)

RemoveImage(r, p) ==
  /\ req[r] = New /\ Free /\ p \in image
  /\ req' = [req EXCEPT ![r] = Begin("remove_image", "delete_image", FALSE, p, p, ABSENT)]
  /\ UNCHANGED <<rows, leaked, history>>

\* imageRepo.remove; the file is left.
DeleteImage(r) ==
  /\ req[r].pc = "delete_image" /\ Free
  /\ image' = image \ {req[r].id}
  /\ req' = [req EXCEPT ![r] = Done]
  /\ UNCHANGED <<product, variant, review, leaked, history>>

-----------------------------------------------------------------------------
(* updateVariant                                                           *)

UpdateVariant(r, v, dto) ==
  /\ req[r] = New /\ Free /\ variant[v] # ABSENT
  /\ dto.sku # variant[v].sku => ~SkuTaken(dto.sku, v)
  /\ req' = [req EXCEPT ![r] = Begin("update_variant", "select_variant", FALSE, v,
                                     variant[v].product, dto)]
  /\ UNCHANGED <<rows, leaked, history>>

\* variantRepo.save, first statement.
SelectVariant(r) ==
  /\ req[r].pc = "select_variant" /\ Free
  /\ req' = [req EXCEPT ![r].pc = "update_variant", ![r].tx = TRUE,
                        ![r].found = variant[req[r].id]]
  /\ UNCHANGED <<rows, leaked, history>>

\* Second statement: an UPDATE of the SKU if the SELECT found another, or an
\* INSERT, which needs the product.
SaveVariant(r) ==
  LET q == req[r]
      v == q.id
      gone == q.found = ABSENT
      stored == gone \/ (variant[v] # ABSENT /\ q.entity.sku # q.found.sku) IN
  /\ q.pc = "update_variant" /\ (stored => ~SkuPending(q.entity.sku, r))
  /\ IF \/ stored /\ SkuTaken(q.entity.sku, v)
        \/ gone /\ (q.product \notin Product \/ variant[v] # ABSENT)
     THEN Abort(r)
     ELSE /\ variant' = IF gone
               THEN [variant EXCEPT ![v] = [product |-> q.product, sku |-> q.entity.sku,
                                            stocked |-> FALSE]]
               ELSE IF stored THEN [variant EXCEPT ![v].sku = q.entity.sku] ELSE variant
          /\ req' = [req EXCEPT ![r] = Done]
          /\ UNCHANGED <<product, review, image, leaked, history>>

CatalogStep(r) ==
  \/ TrySlug(r) \/ InsertProduct(r) \/ GetDefaultWarehouseId(r)
  \/ InsertVariantAndInventory(r) \/ Commit(r)
  \/ InsertVariant(r) \/ InsertInventory(r)
  \/ CheckSlug(r) \/ SelectProduct(r) \/ UpdateProduct(r)
  \/ DeleteProduct(r) \/ DeleteImage(r) \/ SelectVariant(r) \/ SaveVariant(r)
  \/ TimeOut(r)

-----------------------------------------------------------------------------
(* The endpoints of AdminProductsController.                               *)

PostProduct(r) == \E dto \in CreateProductDto : Create(r, dto)
PatchProduct(r) == \E p \in Product, s \in NewSlugs : Update(r, p, s)
DeleteProductById(r) == \E p \in Product : Remove(r, p)
PostVariant(r) == \E p \in Product, dto \in CreateVariantDto : AddVariant(r, p, dto)
PatchVariant(r) == \E v \in Ids, dto \in CreateVariantDto : UpdateVariant(r, v, dto)

DeleteImageById(r) == \E p \in Product : RemoveImage(r, p)

CatalogRequest(r) ==
  \/ PostProduct(r) \/ PatchProduct(r) \/ DeleteProductById(r)
  \/ PostVariant(r) \/ PatchVariant(r) \/ DeleteImageById(r)
=============================================================================
