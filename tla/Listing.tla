------------------------------ MODULE Listing ------------------------------
(***************************************************************************)
(* The paged lists of users, rides, drivers, shifts and invoices.          *)
(*                                                                         *)
(* A caller walks a list page by page while others write to the table.     *)
(* Each page is two statements outside any transaction: COUNT, then SELECT *)
(* ... ORDER BY one column LIMIT OFFSET.  Rows with equal values in that   *)
(* column come in any order, a different one each time.                    *)
(*                                                                         *)
(* A row has the time it was created at, unique, and one value that stands *)
(* for every other column.  No code deletes a row or sets deleted_at.      *)
(***************************************************************************)
EXTENDS Integers, Sequences, FiniteSets, SequencesExt

CONSTANTS Resources,     \* the lists walked
          StartRows,     \* bound: rows of the table when the walk begins
          MaxInserts, MaxUpdates,   \* bounds: writes during the walk
          PageSizes,     \* values of the query parameter pageSize: <<n>>, or << >> for none
          SortDirs       \* values of the query parameter sortDir

ASSUME ListingAssumption ==
  /\ Resources \subseteq {"user", "ride", "driver", "shift", "invoice"}
  /\ StartRows \in Nat
  /\ PageSizes \subseteq Seq(Int)

Absent == ""        \* a text parameter that is not given
DefaultPageSize == 20
MaxPageSize == 100

UserSortColumns == [email |-> "email", name |-> "name", role |-> "role", createdAt |-> "created_at"]

RideSortColumns == [createdAt |-> "created_at", status |-> "status",
                    estimatedPriceMinor |-> "estimated_price_minor",
                    estimatedDistanceKm |-> "estimated_distance_km"]

DriverSortColumns == [createdAt |-> "created_at", rating |-> "rating", status |-> "status",
                      vehicleType |-> "vehicle_type",
                      totalRidesCompleted |-> "total_rides_completed"]

ShiftSortColumns == [startedAt |-> "started_at", endedAt |-> "ended_at",
                     totalRides |-> "total_rides", totalEarningsMinor |-> "total_earnings_minor"]

InvoiceSortColumns == [createdAt |-> "created_at", status |-> "status", amountMinor |-> "amount_minor"]

SortColumns(res) ==
  CASE res = "user"    -> UserSortColumns
    [] res = "ride"    -> RideSortColumns
    [] res = "driver"  -> DriverSortColumns
    [] res = "shift"   -> ShiftSortColumns
    [] res = "invoice" -> InvoiceSortColumns

DefaultSortKey(res) == IF res = "shift" THEN "startedAt" ELSE "createdAt"

VARIABLES resource,   \* the list this caller walks
          request,    \* its query parameters, the page aside
          table,      \* the rows: id |-> [at, val]
          step,       \* "count", "select", "done" or "refused"
          page,       \* the page asked for
          total,      \* TotalCount of the page in progress
          shown,      \* the ids on the pages so far, in order
          writes,     \* [inserts, updates] during the walk; torn: one fell between COUNT and SELECT
          tied        \* ghost: two rows had equal values in the sort column at a SELECT

listingVars == <<resource, request, table, step, page, total, shown, writes, tied>>

Created == {"created_at", "started_at"}
Values == {1, 2}

ListingInit ==
  /\ resource \in Resources
  /\ request \in [pageSize : PageSizes, sortBy : {Absent, "nonsense"} \cup DOMAIN SortColumns(resource),
                  sortDir : SortDirs]
  /\ table \in {t \in [1..StartRows -> [at : 1..StartRows, val : Values]] : \A i \in DOMAIN t : t[i].at = i}
  /\ step = "count" /\ page = 1 /\ total = 0 /\ shown = << >>
  /\ writes = [inserts |-> 0, updates |-> 0, torn |-> FALSE]
  /\ tied = FALSE

\* parseIntQuery of "pageSize" and the two bounds.
ValidPageSize(size) == \A i \in DOMAIN size : size[i] \in 1..MaxPageSize

\* ParseListParams, given a page of at least 1: the parameters it accepts.
ParseListParams(req, columns) ==
  /\ ValidPageSize(req.pageSize)
  /\ req.sortBy = Absent \/ req.sortBy \in DOMAIN columns
  /\ req.sortDir \in {Absent, "asc", "desc"}

\* and the values it fills in.
ListParams(req, default) ==
  [pageSize |-> IF req.pageSize = << >> THEN DefaultPageSize ELSE req.pageSize[1],
   sortBy   |-> IF req.sortBy = Absent THEN default ELSE req.sortBy,
   sortDir  |-> IF req.sortDir = Absent THEN "desc" ELSE req.sortDir]

Params == ListParams(request, DefaultSortKey(resource))

---------------------------------------------------------------------------
(* The repositories *)

ValueOf(id, column) == IF column \in Created THEN table[id].at ELSE table[id].val

\* ORDER BY column dir: any arrangement of the rows that respects the column.
Arrangements(column, dir) ==
  {p \in [1..Cardinality(DOMAIN table) -> DOMAIN table] :
     \A i, j \in DOMAIN p : i < j =>
       /\ p[i] # p[j]
       /\ IF dir = "asc" THEN ValueOf(p[i], column) <= ValueOf(p[j], column)
                         ELSE ValueOf(p[i], column) >= ValueOf(p[j], column)}

\* Mutant of Offset0: pages are counted from zero.
Offset0FromZero(size) == page * size

\* (req.Page-1)*req.PageSize
Offset0(size) == (page - 1) * size

\* LIMIT size OFFSET Offset0, over each arrangement.
Select(column, params) ==
  LET from == Offset0(params.pageSize) IN
  {SubSeq(p, from + 1, IF from + params.pageSize < Len(p) THEN from + params.pageSize ELSE Len(p)) :
     p \in Arrangements(column, params.sortDir)}

GetUserList(params) == Select(UserSortColumns[params.sortBy], params)
GetRideList(params) == Select(RideSortColumns[params.sortBy], params)
GetDriverList(params) == Select(DriverSortColumns[params.sortBy], params)
GetShiftList(params) == Select(ShiftSortColumns[params.sortBy], params)
GetInvoiceList(params) == Select(InvoiceSortColumns[params.sortBy], params)

GetList(params) ==
  CASE resource = "user"    -> GetUserList(params)
    [] resource = "ride"    -> GetRideList(params)
    [] resource = "driver"  -> GetDriverList(params)
    [] resource = "shift"   -> GetShiftList(params)
    [] resource = "invoice" -> GetInvoiceList(params)

CountRows == Cardinality(DOMAIN table)

---------------------------------------------------------------------------
(* Actions *)

\* The handler turns the request down.
RefuseList ==
  /\ step = "count" /\ ~ParseListParams(request, SortColumns(resource))
  /\ step' = "refused"
  /\ UNCHANGED <<resource, request, table, page, total, shown, writes, tied>>

\* The first statement of the query handler.
CountStep ==
  /\ step = "count" /\ ParseListParams(request, SortColumns(resource))
  /\ total' = CountRows
  /\ step' = "select"
  /\ UNCHANGED <<resource, request, table, page, shown, writes, tied>>

\* The second; the caller goes on while TotalCount promises more.
SelectStep ==
  /\ step = "select"
  /\ \E items \in GetList(Params) :
       shown' = shown \o items
  /\ tied' = (tied \/ LET column == SortColumns(resource)[Params.sortBy] IN
                      \E i, j \in DOMAIN table : i # j /\ ValueOf(i, column) = ValueOf(j, column))
  /\ step' = IF page * Params.pageSize < total THEN "count" ELSE "done"
  /\ page' = IF page * Params.pageSize < total THEN page + 1 ELSE page
  /\ UNCHANGED <<resource, request, table, total, writes>>

\* Another caller creates a row, with the latest creation time,
RowInserted(val) ==
  /\ step \in {"count", "select"} /\ writes.inserts < MaxInserts
  /\ table' = Append(table, [at |-> Len(table) + 1, val |-> val])
  /\ writes' = [writes EXCEPT !.inserts = @ + 1, !.torn = @ \/ step = "select"]
  /\ UNCHANGED <<resource, request, step, page, total, shown, tied>>

\* or changes a column of one: a status, a rating, a total.
RowUpdated(id, val) ==
  /\ step \in {"count", "select"} /\ writes.updates < MaxUpdates
  /\ id \in DOMAIN table /\ table[id].val # val
  /\ table' = [table EXCEPT ![id].val = val]
  /\ writes' = [writes EXCEPT !.updates = @ + 1]
  /\ UNCHANGED <<resource, request, step, page, total, shown, tied>>

ListingNext ==
  \/ RefuseList \/ CountStep \/ SelectStep
  \/ \E val \in Values : RowInserted(val)
  \/ \E id \in 1..StartRows, val \in Values : RowUpdated(id, val)

---------------------------------------------------------------------------
(* Properties *)

\* A caller who walks a list to the end sees every row that was there when it began, unless
\* the sort column does not tell rows apart or was changed on the way, or a row was inserted
\* between the COUNT and the SELECT of one page (get_user_list.go:39): other inserts make
\* pages overlap, never skip.  With no insert at all, or in the order of creation, each row
\* appears once and TotalCount is what was shown.
PagesComplete ==
  step = "done" /\ ~tied =>
    LET byAge == SortColumns(resource)[Params.sortBy] \in Created
        still == writes.updates = 0 \/ byAge IN
    still =>
      /\ ~writes.torn => 1..StartRows \subseteq Range(shown)
      /\ writes.inserts = 0 \/ (byAge /\ Params.sortDir = "asc")
           => /\ IsInjective(shown)
              /\ writes.inserts = 0 => Len(shown) = total

=============================================================================
