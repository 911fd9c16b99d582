------------------------------- MODULE Paging -------------------------------
(***************************************************************************)
(* Keyset pagination: common/pagination, the marketplace and report        *)
(* cursors, and the list routes built on them.                             *)
(*                                                                         *)
(* A client walks one list page by page while rows are inserted, hidden,   *)
(* restored or moved.  A route is known by its contract: the sort order,   *)
(* whether the cursor keeps the database's microseconds (created_at::text) *)
(* or goes through a JavaScript Date, and whether one row beyond the page  *)
(* is fetched.  Routes with the same contract are one list here.           *)
(***************************************************************************)
EXTENDS Integers, FiniteSets

CONSTANTS
  RowCount,        \* rows of the table; a row's number is its id
  Ticks,           \* database timestamps, 0 .. Ticks
  TicksPerMilli,   \* microsecond ticks a JavaScript Date cannot tell apart
  Ranks,           \* values of the leading sort key of the ranked lists
  MaxLimit,        \* largest page
  MaxTableChanges  \* bound: changes of the table during a walk

ASSUME PagingAssumption ==
  /\ RowCount \in Nat /\ Ticks \in Nat /\ MaxTableChanges \in Nat
  /\ TicksPerMilli \in Nat \ {0} /\ MaxLimit \in Nat \ {0}
  /\ Ranks \subseteq Int

VARIABLES
  list,      \* the contract of the route that is walked
  limit,     \* ?limit=
  at,        \* created_at (or the last activity) of each row
  rank,      \* leading sort key of the ranked lists
  tableRows,      \* rows the route's filter lets through
  cursor,    \* nextCursor of the last page
  phase,     \* of the walk: "first", "next", "done"
  seen,      \* how often each row was returned
  steady,    \* ghost: rows that matched all along, under the same key
  changes

pagingVars == <<list, limit, at, rank, tableRows, cursor, phase, seen, steady, changes>>

RowIds == 1 .. RowCount
NoCursor == [rank |-> 0, at |-> 0, id |-> 0]

-----------------------------------------------------------------------------
(* The contracts of the routes *)

Contract(order, precise, lookahead) ==
  [order |-> order, precise |-> precise, lookahead |-> lookahead]

(* created_at desc, id desc; the cursor is created_at::text; limit + 1 rows. *)
FavoriteIds == Contract("created", TRUE, TRUE)
Favorites == Contract("created", TRUE, TRUE)
SellerProducts == Contract("created", TRUE, TRUE)
SellerFavorites == Contract("created", TRUE, TRUE)
BlockedUsers == Contract("created", TRUE, TRUE)
Notifications == Contract("created", TRUE, TRUE)
MyTickets == Contract("created", TRUE, TRUE)
AdminTickets == Contract("created", TRUE, TRUE)
MyReports == Contract("created", TRUE, TRUE)
AdminUsers == Contract("created", TRUE, TRUE)
AdminMedia == Contract("created", TRUE, TRUE)
AdminAudit == Contract("created", TRUE, TRUE)
AdminListings == Contract("created", TRUE, TRUE)
ConversationPage == Contract("created", TRUE, TRUE)
NewestProducts == Contract("created", TRUE, TRUE)

(* Ordered by the last message: a row moves when it gets one. *)
getUserConversationPage == Contract("activity", TRUE, TRUE)

(* A leading key before created_at: sales, rating, the priority of a report. *)
RankedProducts == Contract("ranked", TRUE, TRUE)
AdminReports == Contract("ranked", TRUE, TRUE)

(* The ranks of a search, created_at desc, and id ascending. *)
SearchedProducts == Contract("search", TRUE, TRUE)

(* Exactly limit rows; the cursor is made from the Date pg parsed. *)
Orders == Contract("created", FALSE, FALSE)
PendingOrders == Contract("created", FALSE, FALSE)
PayoutRequests == Contract("created", FALSE, FALSE)
Transactions == Contract("created", FALSE, FALSE)
LedgerEntries == Contract("created", FALSE, FALSE)
Reconciliations == Contract("created", FALSE, FALSE)
ReconciliationExport == Contract("created", FALSE, FALSE)
Disputes == Contract("created", FALSE, FALSE)
listDisputeMessagePage == Contract("created", FALSE, FALSE)

Lists ==
  {FavoriteIds, Favorites, SellerProducts, SellerFavorites, BlockedUsers, Notifications,
   MyTickets, AdminTickets, MyReports, AdminUsers, AdminMedia, AdminAudit, AdminListings,
   ConversationPage, NewestProducts, getUserConversationPage, RankedProducts, AdminReports,
   SearchedProducts, Orders, PendingOrders, PayoutRequests, Transactions, LedgerEntries,
   Reconciliations, ReconciliationExport, Disputes, listDisputeMessagePage}

-----------------------------------------------------------------------------
(* Cursors *)

Key(r) == [rank |-> rank[r], at |-> at[r], id |-> r]

(* k comes after c in (rank desc, created_at desc, id desc). *)
keysetWhereClause(k, c) ==
  \/ k.rank < c.rank
  \/ k.rank = c.rank /\ k.at < c.at
  \/ k.rank = c.rank /\ k.at = c.at /\ k.id < c.id

(* The search spells its comparison out, with the id ascending. *)
searchCursorWhere(k, c) ==
  \/ k.rank < c.rank
  \/ k.rank = c.rank /\ k.at < c.at
  \/ k.rank = c.rank /\ k.at = c.at /\ k.id > c.id

marketplaceCursorWhere(k, c) ==
  IF list.order = "search" THEN searchCursorWhere(k, c) ELSE keysetWhereClause(k, c)

(* The first n of a set of rows in the order of the list. *)
FirstRows(n, S) ==
  {r \in S : Cardinality({s \in S : marketplaceCursorWhere(Key(r), Key(s))}) < n}

LastRow(S) == CHOOSE r \in S : \A s \in S \ {r} : marketplaceCursorWhere(Key(r), Key(s))

(* A Date drops what is finer than a millisecond. *)
encodeCursor(r) ==
  [Key(r) EXCEPT !.at = IF list.precise THEN @ ELSE @ - (@ % TicksPerMilli)]

(* A short page ends the walk. *)
buildNextCursor(fetched) ==
  IF Cardinality(fetched) < limit THEN NoCursor ELSE encodeCursor(LastRow(fetched))

(* Mutant: the cursor is the row that was fetched ahead. *)
buildLookaheadNextCursor_Ahead(fetched) ==
  IF Cardinality(fetched) <= limit THEN NoCursor ELSE encodeCursor(LastRow(fetched))

(* No row beyond the page ends the walk; the cursor is the last row returned. *)
buildLookaheadNextCursor(fetched) ==
  IF Cardinality(fetched) <= limit THEN NoCursor
  ELSE encodeCursor(LastRow(FirstRows(limit, fetched)))

-----------------------------------------------------------------------------
PagingInit ==
  /\ list \in Lists
  /\ limit \in 1 .. MaxLimit
  /\ at \in [RowIds -> 0 .. Ticks]
  /\ rank \in [RowIds -> IF list.order \in {"ranked", "search"} THEN Ranks ELSE {1}]
  /\ \E n \in 0 .. RowCount : tableRows = 1 .. n
  /\ cursor = NoCursor
  /\ phase = "first"
  /\ seen = [r \in RowIds |-> 0]
  /\ steady = {}
  /\ changes = 0

(* The rows of a request, those shown of them, and the cursor for the next one. *)
Page(matching) ==
  LET fetched == FirstRows(IF list.lookahead THEN limit + 1 ELSE limit, matching)
      shown   == FirstRows(limit, fetched)
      next    == IF list.lookahead THEN buildLookaheadNextCursor(fetched)
                                   ELSE buildNextCursor(fetched)
  IN  /\ seen' = [r \in RowIds |-> IF r \in shown THEN seen[r] + 1 ELSE seen[r]]
      /\ cursor' = next
      /\ phase' = IF next = NoCursor THEN "done" ELSE "next"
      /\ UNCHANGED <<list, limit, at, rank, tableRows, changes>>

(* parseCursorPage without a cursor *)
FirstPage ==
  /\ phase = "first"
  /\ Page(tableRows)
  /\ steady' = tableRows

(* decodeCursor gives back the fields as they were encoded. *)
NextPage ==
  /\ phase = "next"
  /\ Page({r \in tableRows : marketplaceCursorWhere(Key(r), cursor)})
  /\ UNCHANGED steady

-----------------------------------------------------------------------------
(* The table, between two pages *)

Changes ==
  /\ phase = "next" /\ changes < MaxTableChanges
  /\ changes' = changes + 1
  /\ UNCHANGED <<list, limit, cursor, phase, seen>>

(* A row starts or stops matching: created, hidden, restored, deleted. *)
ShowRow(r) ==
  /\ r \notin tableRows
  /\ Changes
  /\ tableRows' = tableRows \cup {r}
  /\ UNCHANGED <<at, rank, steady>>

HideRow(r) ==
  /\ r \in tableRows
  /\ Changes
  /\ tableRows' = tableRows \ {r}
  /\ steady' = steady \ {r}
  /\ UNCHANGED <<at, rank>>

(* A sale, a rating, a priority or a message moves the row. *)
MoveRow(r) ==
  /\ Changes
  /\ steady' = steady \ {r}
  /\ \/ /\ list.order \in {"ranked", "search"}
        /\ \E n \in Ranks : rank' = [rank EXCEPT ![r] = n]
        /\ UNCHANGED at
     \/ /\ list.order = "activity"
        /\ \E t \in at[r] .. Ticks : at' = [at EXCEPT ![r] = t]
        /\ UNCHANGED rank
  /\ UNCHANGED tableRows

PagingNext ==
  \/ FirstPage \/ NextPage
  \/ \E r \in RowIds : ShowRow(r) \/ HideRow(r) \/ MoveRow(r)

PagingSpec == PagingInit /\ [][PagingNext]_pagingVars

-----------------------------------------------------------------------------
PagingTypeOK ==
  /\ list \in Lists /\ limit \in 1 .. MaxLimit
  /\ at \in [RowIds -> 0 .. Ticks]
  /\ tableRows \subseteq RowIds /\ steady \subseteq tableRows
  /\ cursor.at \in 0 .. Ticks /\ cursor.id \in 0 .. RowCount
  /\ phase \in {"first", "next", "done"}

EachSteadyRowOnce == phase = "done" => \A r \in steady : seen[r] = 1

(* A complete walk returns every row that matched all along exactly once,    *)
(* whatever was inserted, hidden or moved between its pages and however many *)
(* rows share a timestamp: the lists whose cursor keeps the database's       *)
(* precision, in all their sort orders.                                      *)
WalkSeesEachRowOnce == list.precise => EachSteadyRowOnce

(* The same of the lists whose cursor goes through a Date, as the comment on  *)
(* keysetWhereClause says of every list: "safe against duplicate timestamps". *)
DatedWalkSeesEachRowOnce == ~list.precise => EachSteadyRowOnce
=============================================================================
