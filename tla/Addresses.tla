----------------------------- MODULE Addresses -----------------------------
(***************************************************************************)
(* The saved addresses of one customer and which of them is the default.   *)
(*                                                                         *)
(* A process is one HTTP request; a step is one SQL statement, committed   *)
(* by itself.  repository.save(entity) is two statements: a SELECT by id,  *)
(* then an UPDATE of the columns that differ from it, or an INSERT where   *)
(* the SELECT found nothing.  Rows are numbered in the order they were     *)
(* created.  Every statement of the service is confined to the customer    *)
(* that assertOwnership compares the row with, so one customer is enough.  *)
(***************************************************************************)
EXTENDS Integers, Sequences, FiniteSets

CONSTANTS
  Reqs,          \* concurrent requests of the customer
  MaxAddresses   \* bound: addresses ever created

ASSUME AddressesAssumption == MaxAddresses \in Nat \ {0}

VARIABLES
  rows,     \* the addresses table: is the row there, is it the default
  req,      \* the request each process serves
  held,     \* history: rows that another request had read when they were removed
  races,    \* history: writes of requests that others wrote in the middle of
  unset,    \* history: the customer has asked for an address not to be default
  halfDone  \* history: a request died between two of its writes

vars == <<rows, req, held, races, unset, halfDone>>

\* removed is history.  A row that is not there is no default.
Row == {r \in [there: BOOLEAN, default: BOOLEAN, removed: BOOLEAN] : r.default => r.there}

Steps == {"clear", "insert", "select", "update", "reinsert", "delete", "promote"}

\* id: the row it is about, 0 for a new one; default: is_default of the entity
\* in memory; found: is_default of the SELECT; wrote: it has written before;
\* disturbed: another request has written since it began.
Request == [pc: Steps, op: {"create", "update", "set_default", "remove", "register"},
            id: 0..MaxAddresses, default: BOOLEAN, found: BOOLEAN,
            wrote: BOOLEAN, disturbed: BOOLEAN]

Idle == [pc |-> "idle"]

Ids == 1..Len(rows)
Saved == {i \in Ids : rows[i].there}
Defaults == {i \in Saved : rows[i].default}

TypeOK ==
  /\ rows \in Seq(Row) /\ Len(rows) <= MaxAddresses
  /\ req \in [Reqs -> Request \cup {Idle}]
  /\ \A r \in Reqs : req[r] # Idle => req[r].id <= Len(rows)
  /\ held \subseteq Ids
  /\ races \in 0..MaxAddresses
  /\ unset \in BOOLEAN /\ halfDone \in BOOLEAN

\* The address given at registration is inserted after the account was saved:
\* the customer may be signed in elsewhere by then (auth.register).
Registering ==
  [pc |-> "insert", op |-> "register", id |-> 0, default |-> TRUE, found |-> FALSE,
   wrote |-> FALSE, disturbed |-> FALSE]

Init ==
  /\ rows = <<>>
  /\ \E R \in {{}} \cup {{r} : r \in Reqs} :
       req = [r \in Reqs |-> IF r \in R THEN Registering ELSE Idle]
  /\ held = {}
  /\ races = 0 /\ unset = FALSE /\ halfDone = FALSE

-----------------------------------------------------------------------------
(* Bookkeeping of a request.                                               *)

\* r has read what it needs and goes on with entity e of row i.
Begin(r, pc, op, i, default) ==
  /\ req[r] = Idle
  /\ req' = [req EXCEPT ![r] =
       [pc |-> pc, op |-> op, id |-> i, default |-> default, found |-> FALSE,
        wrote |-> FALSE, disturbed |-> FALSE]]

\* r writes the table and continues at pc; the others notice nothing.
Write(r, pc) ==
  /\ req' = [p \in Reqs |->
       IF p = r THEN IF pc = "idle" THEN Idle ELSE [req[r] EXCEPT !.pc = pc, !.wrote = TRUE]
       ELSE IF req[p] = Idle THEN Idle ELSE [req[p] EXCEPT !.disturbed = TRUE]]
  /\ races' = IF req[r].disturbed /\ races < MaxAddresses THEN races + 1 ELSE races

\* An error of the driver or the server dying.
Fail(r) ==
  /\ req[r] # Idle
  /\ req' = [req EXCEPT ![r] = Idle]
  /\ halfDone' = (halfDone \/ req[r].wrote)
  /\ UNCHANGED <<rows, held, races, unset>>

\* Mutant of AssertOwnership: it does not look whether the row is there.
AnyRow(i) == i \in Ids

\* assertOwnership: the row is there (and the customer's).
AssertOwnership(i) == i \in Saved

-----------------------------------------------------------------------------
(* The operations' first statements.                                       *)

\* What a new address says of isDefault; the street and the town are left out.
CreateAddressDto == [isDefault: BOOLEAN]

\* Mutant of ShouldBeDefault: the first address is not made the default.
OnlyIfAsked(asked) == asked

ShouldBeDefault(asked) == asked \/ Saved = {}

\* create counts the addresses.
Create(r, dto) ==
  /\ Len(rows) < MaxAddresses
  /\ Begin(r, IF ShouldBeDefault(dto.isDefault) THEN "clear" ELSE "insert", "create",
           0, ShouldBeDefault(dto.isDefault))
  /\ UNCHANGED <<rows, held, races, unset, halfDone>>

\* Mutant of Update: the other defaults are not cleared.
UpdateOnly(r, i, body) ==
  /\ AssertOwnership(i)
  /\ Begin(r, "select", "update", i,
           CASE body = "true" -> TRUE [] body = "false" -> FALSE
             [] body = "absent" -> rows[i].default)
  /\ unset' = (unset \/ body = "false")
  /\ UNCHANGED <<rows, held, races, halfDone>>

\* update reads the row; the body may or may not hold isDefault.
Update(r, i, body) ==
  /\ AssertOwnership(i)
  /\ Begin(r, IF body = "true" THEN "clear" ELSE "select", "update", i,
           CASE body = "true" -> TRUE [] body = "false" -> FALSE
             [] body = "absent" -> rows[i].default)
  /\ unset' = (unset \/ body = "false")
  /\ UNCHANGED <<rows, held, races, halfDone>>

SetDefault(r, i) ==
  /\ AssertOwnership(i)
  /\ Begin(r, "clear", "set_default", i, TRUE)
  /\ UNCHANGED <<rows, held, races, unset, halfDone>>

\* remove: what the entity says of is_default decides what follows.
Remove(r, i) ==
  /\ AssertOwnership(i)
  /\ Begin(r, "delete", "remove", i, rows[i].default)
  /\ UNCHANGED <<rows, held, races, unset, halfDone>>

-----------------------------------------------------------------------------
(* The statements that follow.                                             *)

\* Mutant of ClearDefault: it clears one of the defaults there are.
ClearFirst == [i \in Ids |-> IF \A j \in Defaults : i <= j
                             THEN [rows[i] EXCEPT !.default = FALSE] ELSE rows[i]]

ClearDefault == [i \in Ids |-> [rows[i] EXCEPT !.default = FALSE]]

\* UPDATE addresses SET is_default = false WHERE user_id AND is_default.
Clear(r) ==
  /\ req[r].pc = "clear"
  /\ rows' = ClearDefault
  /\ Write(r, IF req[r].op = "create" THEN "insert" ELSE "select")
  /\ UNCHANGED <<held, unset, halfDone>>

\* save of an address without an id.
Insert(r) ==
  /\ req[r].pc = "insert" /\ Len(rows) < MaxAddresses
  /\ rows' = Append(rows, [there |-> TRUE, default |-> req[r].default, removed |-> FALSE])
  /\ Write(r, "idle")
  /\ UNCHANGED <<held, unset, halfDone>>

\* save of an address read before, first statement.
Select(r) ==
  LET q == req[r] IN
  /\ q.pc = "select"
  /\ req' = [req EXCEPT ![r] =
       IF rows[q.id].there THEN [q EXCEPT !.pc = "update", !.found = rows[q.id].default]
       ELSE [q EXCEPT !.pc = "reinsert"]]
  /\ UNCHANGED <<rows, held, races, unset, halfDone>>

\* Second statement: is_default is among the columns only if it differs, and
\* a row removed since is not missed.
UpdateRow(r) ==
  LET q == req[r] IN
  /\ q.pc = "update"
  /\ rows' = IF rows[q.id].there /\ q.default # q.found
             THEN [rows EXCEPT ![q.id].default = q.default] ELSE rows
  /\ Write(r, "idle")
  /\ UNCHANGED <<held, unset, halfDone>>

\* Second statement where the row was gone: it is inserted under its old id.
Reinsert(r) ==
  LET q == req[r] IN
  /\ q.pc = "reinsert" /\ ~rows[q.id].there
  /\ rows' = [rows EXCEPT ![q.id].there = TRUE, ![q.id].default = q.default]
  /\ Write(r, "idle")
  /\ UNCHANGED <<held, unset, halfDone>>

\* Mutant of Delete: the row is marked as deleted and stays the default.
SoftDelete(r) ==
  LET q == req[r] IN
  /\ q.pc = "delete"
  /\ rows' = [rows EXCEPT ![q.id].there = FALSE, ![q.id].removed = TRUE]
  /\ Write(r, IF q.default THEN "promote" ELSE "idle")
  /\ UNCHANGED <<held, unset, halfDone>>

\* repository.remove; if the entity was the default, the oldest is to follow.
Delete(r) ==
  LET q == req[r] IN
  /\ q.pc = "delete"
  /\ rows' = [rows EXCEPT ![q.id] = [there |-> FALSE, default |-> FALSE, removed |-> TRUE]]
  /\ held' = IF \E p \in Reqs \ {r} : req[p] # Idle /\ req[p].id = q.id
             THEN held \cup {q.id} ELSE held
  /\ Write(r, IF q.default THEN "promote" ELSE "idle")
  /\ UNCHANGED <<unset, halfDone>>

\* findOne by createdAt, for the save that makes it the default.
Promote(r) ==
  /\ req[r].pc = "promote"
  /\ req' = [req EXCEPT ![r] =
       IF Saved = {} THEN Idle
       ELSE [@ EXCEPT !.pc = "select",
                      !.id = CHOOSE i \in Saved : \A j \in Saved : i <= j]]
  /\ UNCHANGED <<rows, held, races, unset, halfDone>>

-----------------------------------------------------------------------------
(* The endpoints of AddressController.                                     *)

PostAddress(r) == \E dto \in CreateAddressDto : Create(r, dto)
PatchAddress(r) == \E i \in 1..MaxAddresses, body \in {"absent", "true", "false"} : Update(r, i, body)
PatchDefault(r) == \E i \in 1..MaxAddresses : SetDefault(r, i)
DeleteAddress(r) == \E i \in 1..MaxAddresses : Remove(r, i)

Next ==
  \E r \in Reqs :
    \/ PostAddress(r) \/ PatchAddress(r) \/ PatchDefault(r) \/ DeleteAddress(r)
    \/ Clear(r) \/ Insert(r) \/ Select(r) \/ UpdateRow(r) \/ Reinsert(r)
    \/ Delete(r) \/ Promote(r) \/ Fail(r)

Spec == Init /\ [][Next]_vars

-----------------------------------------------------------------------------

\* Requests that overlap cost at most one additional default each: there are
\* no more defaults than one and the writes that others wrote in the middle
\* of (address.service.ts:37 and 47, 69 and 72, auth.service.ts:96).
DefaultsBounded == Cardinality(Defaults) <= 1 + races

\* A customer with addresses and no request under way has a default, unless
\* requests overlapped, one died between its writes, or isDefault: false was
\* asked for (address.service.ts:33 and 82-91).
DefaultKept ==
  (\A r \in Reqs : req[r] = Idle) /\ Saved # {} =>
    Defaults # {} \/ races > 0 \/ halfDone \/ unset

\* An address whose removal was carried out is back only if another request
\* held it in memory then, and saved it (address.service.ts:60, 72, 89).
RemovedStaysRemoved == \A i \in Saved : rows[i].removed => i \in held

\* Whatever earlier races left behind, a request to make an address the
\* default during which nobody else writes leaves it the only one
\* (address.service.ts:65-73).
SetDefaultHeals ==
  [][\A r \in Reqs :
       /\ req[r].pc \in {"update", "reinsert"} /\ req[r].op = "set_default"
       /\ req'[r] = Idle /\ rows' # rows /\ ~req[r].disturbed
       => Defaults' = {req[r].id}]_vars
=============================================================================
