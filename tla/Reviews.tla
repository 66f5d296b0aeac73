------------------------------ MODULE Reviews ------------------------------
(***************************************************************************)
(* Reviews of products and the statistics that the product row keeps of    *)
(* them, together with the catalog that changes the same rows.             *)
(***************************************************************************)
EXTENDS Catalog

ReviewIds == Ids \cup Users

\* The first product, with a variant and with a review of some customers,
\* each named after the customer.
Init ==
  /\ variant = [v \in Ids |-> IF v = FIRST
                              THEN [product |-> FIRST, sku |-> FirstSku, stocked |-> TRUE]
                              ELSE ABSENT]
  /\ \E reviewers \in SUBSET Users :
       /\ review = [w \in ReviewIds |-> IF w \in reviewers
            THEN [user |-> w, product |-> FIRST, rating |-> FirstRating,
                  approved |-> TRUE, deleted |-> FALSE]
            ELSE ABSENT]
       /\ product = [p \in Ids |-> IF p = FIRST
            THEN [slug |-> 0, stats |-> [count |-> Cardinality(reviewers),
                                         sum |-> FirstRating * Cardinality(reviewers)]]
            ELSE ABSENT]
  /\ image = {FIRST}
  /\ leaked = 0
  /\ req = [r \in Reqs |-> New]
  /\ removed = {} /\ held = {} /\ unsure = {}

Undeleted == {w \in ReviewIds : review[w] # ABSENT /\ ~review[w].deleted}

Counted(p) == {w \in Undeleted : review[w].product = p /\ review[w].approved}

\* AVG and COUNT of the approved reviews.
Aggregate(p) ==
  [count |-> Cardinality(Counted(p)),
   sum |-> LET Given(n) == Cardinality({w \in Counted(p) : review[w].rating >= n})
           IN Given(1) + Given(2) + Given(3) + Given(4) + Given(5)]

\* The unique index on user and product among the undeleted.
Reviewed(u, p, w) == \E o \in Undeleted \ {w} : review[o].user = u /\ review[o].product = p

-----------------------------------------------------------------------------
(* The operations' checks.                                                 *)

CreateReviewDto == [rating: Ratings]

\* createReview: the product is there, the customer (one of Users) received
\* it, and has not reviewed it.
CreateReview(r, u, p, dto) ==
  /\ req[r] = New /\ Free
  /\ p \in Product /\ ~Reviewed(u, p, r)
  /\ req' = [req EXCEPT ![r] = Begin("create_review", "insert_review", FALSE, r, p,
       [user |-> u, product |-> p, rating |-> dto.rating, approved |-> TRUE, deleted |-> FALSE])]
  /\ UNCHANGED <<rows, leaked, history>>

\* Mutant of FindReview: findOne with withDeleted.
FindAnyReview(w) == review[w] # ABSENT

FindReview(w) == w \in Undeleted

\* updateReview and adminUpdateReview change the entity they read.
ChangeReview(r, w, op, entity) ==
  /\ req[r] = New /\ Free /\ FindReview(w)
  /\ req' = [req EXCEPT ![r] = Begin(op, "select_review", FALSE, w, review[w].product, entity)]
  /\ UNCHANGED <<rows, leaked, history>>

UpdateReview(r, w, n) ==
  ChangeReview(r, w, "update_review", [review[w] EXCEPT !.rating = n, !.deleted = FALSE])

AdminUpdateReview(r, w, ok) ==
  ChangeReview(r, w, "moderate", [review[w] EXCEPT !.approved = ok, !.deleted = FALSE])

DeleteReview(r, w) ==
  /\ req[r] = New /\ Free /\ FindReview(w)
  /\ req' = [req EXCEPT ![r] = Begin("delete_review", "delete_review", FALSE, w,
                                     review[w].product, ABSENT)]
  /\ UNCHANGED <<rows, leaked, history>>

-----------------------------------------------------------------------------
(* The statements that follow.                                             *)

\* r has changed a review of its product and recalculates the statistics.
ThenRecalculate(r) ==
  req' = [Cross(req[r].product) EXCEPT ![r].pc = "aggregate", ![r].tx = FALSE]

\* The index and the reference to the product may refuse the row.
InsertReview(r) ==
  LET q == req[r] IN
  /\ q.pc = "insert_review" /\ Free
  /\ IF Reviewed(q.entity.user, q.product, r) \/ q.product \notin Product THEN Abort(r)
     ELSE /\ review' = [review EXCEPT ![r] = q.entity]
          /\ ThenRecalculate(r)
          /\ UNCHANGED <<product, variant, image, leaked, history>>

\* reviewRepo.save, first statement: it sees deleted rows too.
SelectReview(r) ==
  /\ req[r].pc = "select_review" /\ Free
  /\ req' = [req EXCEPT ![r].pc = "update_review", ![r].tx = TRUE,
                        ![r].found = review[req[r].id]]
  /\ UNCHANGED <<rows, leaked, history>>

\* Second statement: every column in which the entity differs, deleted_at
\* among them; a row that had gone is inserted.
SaveReview(r) ==
  LET q == req[r]
      w == q.id
      Differs(c) == q.found # ABSENT /\ q.entity[c] # q.found[c]
      updated == [c \in DOMAIN q.entity |-> IF Differs(c) THEN q.entity[c] ELSE review[w][c]]
      after == IF q.found = ABSENT THEN q.entity
               ELSE IF review[w] = ABSENT THEN ABSENT ELSE updated IN
  /\ q.pc = "update_review"
  /\ IF \/ after # ABSENT /\ ~after.deleted /\ Reviewed(after.user, after.product, w)
        \/ q.found = ABSENT /\ (q.product \notin Product \/ review[w] # ABSENT)
     THEN Abort(r)
     ELSE /\ review' = [review EXCEPT ![w] = after]
          /\ ThenRecalculate(r)
          /\ UNCHANGED <<product, variant, image, leaked, history>>

\* Mutant of SoftDelete: the statistics are left as they are.
SoftDeleteOnly(r) ==
  LET w == req[r].id IN
  /\ req[r].pc = "delete_review" /\ Free
  /\ review' = IF review[w] = ABSENT THEN review ELSE [review EXCEPT ![w].deleted = TRUE]
  /\ Deleted(r, {<<"review", w>>})
  /\ req' = [req EXCEPT ![r] = Done]
  /\ UNCHANGED <<product, variant, image, leaked, unsure>>

\* softDelete.
SoftDelete(r) ==
  LET w == req[r].id IN
  /\ req[r].pc = "delete_review" /\ Free
  /\ review' = IF review[w] = ABSENT THEN review ELSE [review EXCEPT ![w].deleted = TRUE]
  /\ Deleted(r, {<<"review", w>>})
  /\ ThenRecalculate(r)
  /\ UNCHANGED <<product, variant, image, leaked, unsure>>

\* recalculateProductStats, first statement.
ReadAggregate(r) ==
  /\ req[r].pc = "aggregate" /\ Free
  /\ req' = [req EXCEPT ![r].pc = "store_stats", ![r].stats = Aggregate(req[r].product)]
  /\ UNCHANGED <<rows, leaked, history>>

\* Second statement.
StoreStats(r) ==
  LET p == req[r].product IN
  /\ req[r].pc = "store_stats" /\ Free
  /\ product' = IF p \in Product THEN [product EXCEPT ![p].stats = req[r].stats] ELSE product
  /\ req' = [req EXCEPT ![r] = Done]
  /\ unsure' = IF req[r].crossed THEN unsure \cup {p} ELSE unsure \ {p}
  /\ UNCHANGED <<variant, review, image, leaked, removed, held>>

ReviewStep(r) ==
  \/ InsertReview(r) \/ SelectReview(r) \/ SaveReview(r) \/ SoftDelete(r)
  \/ ReadAggregate(r) \/ StoreStats(r)

-----------------------------------------------------------------------------
(* The endpoints of ReviewsController and AdminReviewsController.          *)

PostReview(r) == \E u \in Users, p \in Product, dto \in CreateReviewDto : CreateReview(r, u, p, dto)
PatchReview(r) == \E w \in ReviewIds, n \in Ratings : UpdateReview(r, w, n)
DeleteReviewById(r) == \E w \in ReviewIds : DeleteReview(r, w)
Moderate(r) == \E w \in ReviewIds, ok \in BOOLEAN : AdminUpdateReview(r, w, ok)

ReviewRequest(r) ==
  PostReview(r) \/ PatchReview(r) \/ DeleteReviewById(r) \/ Moderate(r)

Next == \E r \in Reqs : \/ CatalogRequest(r) \/ ReviewRequest(r)
                        \/ CatalogStep(r) \/ ReviewStep(r) \/ Fail(r)

\* The server goes on with what it has begun, and the pool's timer runs.
Spec == /\ Init /\ [][Next]_vars
        /\ \A r \in Reqs : WF_vars(CatalogStep(r) \/ ReviewStep(r))

-----------------------------------------------------------------------------

TypeOK ==
  /\ product \in [Ids -> ProductRow \cup {ABSENT}]
  /\ variant \in [Ids -> VariantRow \cup {ABSENT}]
  /\ review \in [ReviewIds -> ReviewRow \cup {ABSENT}]
  /\ leaked \in 0..PoolSize
  /\ leaked + Cardinality({r \in Reqs : Busy(r) /\ req[r].tx}) <= PoolSize
  /\ \A v \in Ids : variant[v] # ABSENT => variant[v].product \in Product
  /\ \A w \in ReviewIds : review[w] # ABSENT => review[w].product \in Product
  /\ image \subseteq Product
  /\ unsure \subseteq Ids

\* No two products have one slug, no two variants one SKU, and no customer two
\* reviews of a product: the services look before they write, in other
\* statements or on another connection, and a stale save may bring a row back
\* after its key was taken again (products.service.ts:70, 209, 312, 508,
\* reviews.service.ts:60, 111).
KeysUnique ==
  /\ \A p, o \in Product : product[p].slug = product[o].slug => p = o
  /\ \A v, o \in Ids : variant[v] # ABSENT /\ variant[o] # ABSENT =>
       (variant[v].sku = variant[o].sku => v = o)
  /\ \A w, o \in Undeleted :
       review[w].user = review[o].user /\ review[w].product = review[o].product => w = o

\* A variant that customers can see has its inventory row: both come with one
\* COMMIT (products.service.ts:332).  The exception is a variant saved by
\* updateVariant after it had gone with its product and the product had been
\* brought back by an update.
EveryVariantStocked ==
  \A v \in Ids : variant[v] # ABSENT /\ ~variant[v].stocked =>
    <<"product", variant[v].product>> \in held

\* What reviews.service.ts:228 says of recalculateProductStats: "Called after
\* every create / update / delete so the product always shows live stats."
\* Nobody is about to call it, and the product shows others: two calls count
\* and write in different orders, or a product update writes back the
\* statistics it has read (reviews.service.ts:230, products.service.ts:266).
AlwaysLiveStats ==
  \A p \in Product :
    \/ product[p].stats = Aggregate(p)
    \/ \E r \in Reqs : OwesStats(r) /\ req[r].product = p

\* How they can be wrong, and in no other way: they were last written from a
\* count that was old by then or by a product update that had read them before,
\* or a request died before it wrote them.  An undisturbed recalculation puts
\* everything right (reviews.service.ts:228-247, products.service.ts:266).
StatsWrongOnlyByRaces ==
  \A p \in Product :
    \/ product[p].stats = Aggregate(p)
    \/ p \in unsure
    \/ \E r \in Reqs : OwesStats(r) /\ req[r].product = p

\* A review or a product that was deleted is back only where another request
\* had read it before and saved it afterwards (reviews.service.ts:111, 190,
\* products.service.ts:266).
DeletedStaysDeleted ==
  /\ \A w \in Undeleted : <<"review", w>> \in removed => <<"review", w>> \in held
  /\ \A p \in Product : <<"product", p>> \in removed => <<"product", p>> \in held

\* Every request ends, though transactions that wait for a second connection
\* can hold all there are, and connections are lost for good
\* (data-source.ts:14-18, products.service.ts:70, 335, 486).  As a process
\* serves one request, it is enough that they are at rest in the end.
EveryRequestEnds == <>[](\A r \in Reqs : ~Busy(r))
=============================================================================
