------------------------------- MODULE Lists -------------------------------
(***************************************************************************)
(* The paged lists of the dispatchers, the API and the administrators. A   *)
(* list is read with one statement for the page and another one for the    *)
(* total, both with the filters of the request, and most lists keep the    *)
(* answer in the cache for a while, under a key made of the request. Two   *)
(* readers walk through the pages of a list while its rows change.         *)
(*                                                                         *)
(* A filter is a name: it is given or not, and rows that do not meet it    *)
(* are left out. In a behaviour there is one list and one condition that   *)
(* not all rows meet. Sorting by name is sorting by another column; the    *)
(* columns of the answer are left out, and so is what a search finds.      *)
(***************************************************************************)
EXTENDS Naturals, Sequences, FiniteSets, SequencesExt, FiniteSetsExt

CONSTANTS
  Row,         \* rows the table may have
  Odd,         \* the ones that do not meet the condition
  createdAt,   \* when they were created
  pageSize,
  Reader,
  MaxChanges   \* bound of the model: rows added and removed

ASSUME ListAssumption ==
  /\ IsFiniteSet(Row)
  /\ Odd \subseteq Row
  /\ createdAt \in [Row -> Nat]
  /\ pageSize \in Nat \ {0}
  /\ MaxChanges \in Nat

VARIABLES
  list,        \* the list, and the condition some rows do not meet
  condition,
  rows,        \* the table
  changes,     \* changes so far
  entry,       \* the cache
  reader       \* how far each reader is

vars == <<list, condition, rows, changes, entry, reader>>

-----------------------------------------------------------------------------
(* The statements: the conditions that always hold, the filters a request may give, the *)
(* conditions of the statement that counts, and whether a request may choose the order.  *)

Select(always, optional, counts, sorts) ==
  [always |-> always, optional |-> optional, counts |-> counts, sorts |-> sorts]

queryCompanies == Select({}, {"search", "plan", "status"}, {"search", "plan", "status"}, TRUE)

queryCompanyOrders ==
  LET filters == {"search", "status", "dateFrom", "dateTo"}
  IN Select({"companyId"}, filters, {"companyId"} \cup filters, TRUE)

queryWebhookEndpoints ==
  Select({"companyId"}, {"search", "isActive"}, {"companyId", "search", "isActive"}, FALSE)

queryWebhookDeliveries ==
  Select({"companyId"}, {"webhookEndpointId", "status"},
         {"companyId", "webhookEndpointId", "status"}, FALSE)

\* A statement that counts the keys of every status.
countsAnyStatus ==
  Select({"companyId", "deletedAt"}, {"search", "status"}, {"companyId", "deletedAt", "search"}, FALSE)

queryApiKeys ==
  Select({"companyId", "deletedAt"}, {"search", "status"},
         {"companyId", "deletedAt", "search", "status"}, FALSE)

queryUsers ==
  LET filters == {"search", "role", "status", "companyId"} IN Select({}, filters, filters, FALSE)

queryAuditLogs ==
  LET filters == {"adminUserId", "companyId", "action", "severity", "search", "dateFrom", "dateTo"}
  IN Select({}, filters, filters, FALSE)

queryActivityLog ==
  LET filters == {"companyId", "categories", "severities", "search", "dateFrom", "dateTo"}
  IN Select({}, filters, filters, FALSE)

queryAdmins ==
  LET filters == {"search", "role", "isActive"} IN Select({}, filters, filters, FALSE)

queryAdminInvites == Select({}, {"status", "search"}, {"status", "search"}, FALSE)

queryTrips ==
  LET filters == {"search", "status", "driverUserId", "dateFrom", "dateTo"}
  IN Select({"companyId"}, filters, {"companyId"} \cup filters, TRUE)

buildCompanyDetail == Select({"companyId"}, {}, {"companyId"}, FALSE)

listOrdersForCompany ==
  LET filters == {"search", "status", "dateFrom", "dateTo"}
  IN Select({"companyId"}, filters, {"companyId"} \cup filters, TRUE)

\* The same for the public API, and the answer in a form of its own.
listOrdersForCompanyViaApi == listOrdersForCompany

\* The trips' status is derived from their stops, and the trips counted, in memory.
computeTripsList == Select({"companyId"}, {"search", "status"}, {"companyId", "search", "status"}, FALSE)

listForCompany ==
  LET filters == {"categories", "severities", "search", "dateFrom", "dateTo"}
  IN Select({"companyId"}, filters, {"companyId"} \cup filters, FALSE)

listTeamMembersForCompany ==
  Select({"companyId"}, {"search", "roles"}, {"companyId", "search", "roles"}, TRUE)

listDeliveries == Select({"webhookEndpointId"}, {"status"}, {"webhookEndpointId", "status"}, FALSE)

-----------------------------------------------------------------------------
(* What of a request is in the key of the cache, and the requests that go past the cache *)

Cached(select, key) == [select |-> select, cached |-> TRUE, key |-> key, past |-> {}]
Uncached(select) == [select |-> select, cached |-> FALSE, key |-> {}, past |-> {}]

listCompanies == Cached(queryCompanies, {"search", "plan", "status", "sort", "page"})

listCompanyOrders ==
  Cached(queryCompanyOrders, {"search", "status", "dateFrom", "dateTo", "sort", "page"})

listWebhookEndpoints == Cached(queryWebhookEndpoints, {"search", "isActive", "page"})

listWebhookDeliveries == Cached(queryWebhookDeliveries, {"webhookEndpointId", "status", "page"})

listApiKeys == Cached(queryApiKeys, {"search", "status", "page"})

\* A key that forgets a filter.
forgetsStatus == Cached(queryUsers, {"search", "role", "companyId", "page"})

listUsers == Cached(queryUsers, {"search", "role", "status", "companyId", "page"})

listAuditLogs ==
  Cached(queryAuditLogs, {"search", "action", "adminUserId", "companyId", "severity",
                          "dateFrom", "dateTo", "page"})

listActivityLog ==
  Cached(queryActivityLog, {"companyId", "categories", "severities", "search",
                            "dateFrom", "dateTo", "page"})

listAdmins == Cached(queryAdmins, {"search", "role", "isActive", "page"})

listAdminInvites == Cached(queryAdminInvites, {"status", "search", "page"})

listTrips ==
  Cached(queryTrips, {"search", "status", "driverUserId", "dateFrom", "dateTo", "sort", "page"})

getCompanyDetail == Cached(buildCompanyDetail, {"page"})

\* The order a request asks for is not in the key.
listOrdersForCompanyCached ==
  Cached(listOrdersForCompany, {"search", "status", "dateFrom", "dateTo", "page"})

\* A search goes past the cache.
listTripsForCompany == [Cached(computeTripsList, {"status", "page"}) EXCEPT !.past = {"search"}]

AllLists ==
  {listCompanies, listCompanyOrders, listWebhookEndpoints, listWebhookDeliveries, listApiKeys,
   listUsers, listAuditLogs, listActivityLog, listAdmins, listAdminInvites, listTrips,
   getCompanyDetail, listOrdersForCompanyCached, listTripsForCompany,
   Uncached(listOrdersForCompanyViaApi), Uncached(listForCompany),
   Uncached(listTeamMembersForCompany), Uncached(listDeliveries)}

-----------------------------------------------------------------------------
(* Requests, answers and what the cache has *)

Sorts == IF list.select.sorts THEN {"newest", "oldest"} ELSE {"newest"}
Given == {{}, {condition} \cap list.select.optional}
Query == [given : Given, sort : Sorts, page : 1..Cardinality(Row) + 1]

NoQuery == [given |-> {}, sort |-> "newest", page |-> 1]
AnswerTo(q, page, total, of, stale) ==
  [to |-> q, rows |-> page, total |-> total, of |-> of, stale |-> stale]
NoAnswer == AnswerTo(NoQuery, <<>>, 0, 0, FALSE)

Reads(at, q, answer, seen, unsteady) ==
  [at |-> at, query |-> q, answer |-> answer, seen |-> seen, unsteady |-> unsteady]
Idle == Reads("idle", NoQuery, NoAnswer, <<>>, FALSE)

Pages == UNION {[1..n -> Row] : n \in 0..pageSize}
Answer == [to : Query, rows : Pages, total : 0..Cardinality(Row), of : 0..Cardinality(Row),
           stale : BOOLEAN]

TypeOK ==
  /\ list \in AllLists
  /\ condition \in list.select.always \cup list.select.optional
  /\ rows \subseteq Row
  /\ changes \in 0..MaxChanges
  /\ \A e \in entry : e.key \in Query /\ e.answer \in Answer
  /\ \A r \in Reader :
       /\ reader[r].at \in {"idle", "asked", "read", "counted", "done"}
       /\ reader[r].query \in Query
       /\ reader[r].answer \in Answer
       /\ reader[r].seen \in Seq(Row)
       /\ reader[r].unsteady \in BOOLEAN

Init ==
  /\ list \in AllLists
  /\ condition \in list.select.always \cup list.select.optional
  /\ rows \in SUBSET Row \ {{}}
  /\ changes = 0
  /\ entry = {}
  /\ reader = [r \in Reader |-> Idle]

keyOf(q) == [given |-> q.given \cap list.key,
             sort |-> IF "sort" \in list.key THEN q.sort ELSE "newest",
             page |-> q.page]

goesPast(q) == ~list.cached \/ q.given \cap list.past # {}

\* The rows that meet some conditions.
Meeting(conditions) == IF condition \in conditions THEN rows \ Odd ELSE rows
Conditions(q) == list.select.always \cup q.given

Before(x, y, sort) ==
  IF sort = "oldest" THEN createdAt[x] <= createdAt[y] ELSE createdAt[y] <= createdAt[x]

\* The orders the database may return rows in: those created at the same moment are in none.
Ordered(found, sort) ==
  {s \in SetToSeqs(found) : \A i, j \in 1..Len(s) : i < j => Before(s[i], s[j], sort)}

\* A page too far.
skipsTooMany(s, q) == SubSeq(s, q.page * pageSize + 1, Min({(q.page + 1) * pageSize, Len(s)}))

\* skip((page - 1) * pageSize).take(pageSize)
skipTake(s, q) == SubSeq(s, (q.page - 1) * pageSize + 1, Min({q.page * pageSize, Len(s)}))

-----------------------------------------------------------------------------
(* A reader walks through the pages: it asks for the next one while the total says that *)
(* there is one.                                                                        *)

Goes(r, state) == reader' = [reader EXCEPT ![r] = state]

Turns(r, answer) ==
  LET here == reader[r]
      more == here.query.page * pageSize < answer.total
      next == [given |-> here.query.given, sort |-> here.query.sort, page |-> here.query.page + 1]
  IN Goes(r, Reads(IF more THEN "asked" ELSE "done", IF more THEN next ELSE here.query, answer,
                   here.seen \o answer.rows,
                   here.unsteady \/ answer.stale \/ answer.to.sort # here.query.sort))

asks(r) ==
  /\ reader[r].at = "idle"
  /\ \E given \in Given, sort \in Sorts :
       Goes(r, Reads("asked", [given |-> given, sort |-> sort, page |-> 1], NoAnswer, <<>>, FALSE))
  /\ UNCHANGED <<list, condition, rows, changes, entry>>

\* getOrSet: an entry is the answer,
getFromCache(r) ==
  LET q == reader[r].query
  IN /\ reader[r].at = "asked"
     /\ ~goesPast(q)
     /\ \E e \in entry : e.key = keyOf(q) /\ Turns(r, e.answer)
     /\ UNCHANGED <<list, condition, rows, changes, entry>>

\* or the page is read,
getPage(r) ==
  LET q == reader[r].query
      found == Meeting(Conditions(q))
  IN /\ reader[r].at = "asked"
     /\ goesPast(q) \/ \A e \in entry : e.key # keyOf(q)
     /\ \E s \in Ordered(found, q.sort) :
          Goes(r, Reads("read", q, AnswerTo(q, skipTake(s, q), 0, Cardinality(found), FALSE),
                        reader[r].seen, reader[r].unsteady))
     /\ UNCHANGED <<list, condition, rows, changes, entry>>

\* the rows are counted,
getCount(r) ==
  /\ reader[r].at = "read"
  /\ LET here == reader[r]
         found == Meeting(Conditions(here.query) \cap list.select.counts)
     IN Goes(r, Reads("counted", here.query,
                      AnswerTo(here.answer.to, here.answer.rows, Cardinality(found),
                               here.answer.of, here.answer.stale),
                      here.seen, here.unsteady))
  /\ UNCHANGED <<list, condition, rows, changes, entry>>

\* and the answer is stored, over another one if there is one by now. The error of a
\* cache that cannot be written is written to the log.
storeAnswer(r) ==
  LET key == keyOf(reader[r].query)
      stored == {e \in entry : e.key # key} \cup {[key |-> key, answer |-> reader[r].answer]}
  IN /\ reader[r].at = "counted"
     /\ entry' = IF goesPast(reader[r].query) THEN entry ELSE stored
     /\ Turns(r, reader[r].answer)
     /\ UNCHANGED <<list, condition, rows, changes>>

expires(e) ==
  /\ entry' = entry \ {e}
  /\ UNCHANGED <<list, condition, rows, changes, reader>>

Aged(answer, stale) == AnswerTo(answer.to, answer.rows, answer.total, answer.of, stale)

\* A row is added or removed: none of these lists is invalidated for it.
change(x) ==
  /\ changes < MaxChanges
  /\ changes' = changes + 1
  /\ rows' = IF x \in rows THEN rows \ {x} ELSE rows \cup {x}
  /\ entry' = {[key |-> e.key, answer |-> Aged(e.answer, TRUE)] : e \in entry}
  /\ reader' = [r \in Reader |->
       LET here == reader[r]
       IN Reads(here.at, here.query, Aged(here.answer, here.at \in {"read", "counted"}), here.seen,
                here.unsteady \/ here.at = "done" \/ here.query.page > 1)]
  /\ UNCHANGED <<list, condition>>

Next ==
  \/ \E r \in Reader :
       asks(r) \/ getFromCache(r) \/ getPage(r) \/ getCount(r) \/ storeAnswer(r)
  \/ \E e \in entry : expires(e)
  \/ \E x \in Row : change(x)

Spec == Init /\ [][Next]_vars
-----------------------------------------------------------------------------
(* Properties *)

\* The total of a list is the number of rows its pages have, however its filters are
\* combined, unless the table changed between the two statements.
TotalAgrees ==
  \A r \in Reader :
    reader[r].at = "counted" /\ ~reader[r].answer.stale => reader[r].answer.total = reader[r].answer.of

\* An answer from the cache was computed for the same filters: no two requests that differ
\* in one share a key.
AnswersTheQuestion ==
  \A r \in Reader : reader[r].answer # NoAnswer => reader[r].answer.to.given = reader[r].query.given

\* Who walks through the pages of a list sees each of its rows once, if no two were created
\* at the same moment, nothing changed after the oldest page was read, and no page came from
\* a request for another order.
WalkSeesEach ==
  \A r \in Reader :
    LET here == reader[r]
        found == Meeting(Conditions(here.query))
    IN here.at = "done" /\ ~here.unsteady /\ IsInjective(createdAt)
       => ToSet(here.seen) = found /\ Len(here.seen) = Cardinality(found)
=============================================================================
