------------------------ MODULE ListsAndFilesProofs -------------------------
(***************************************************************************)
(* What is proved of three small components, each for any values of its    *)
(* constants. Of Lists: the total of a list counts the rows its pages      *)
(* have, an answer from the cache is to the question that was asked, and   *)
(* who walks through the pages sees each row once. Of Feeds: the type      *)
(* invariant of the registries of subscriptions, that a socket that has    *)
(* left is forgotten, and that a list that a subscriber is owed is on its  *)
(* way. Of StoredFiles: the file that a slot refers to stays.              *)
(***************************************************************************)
EXTENDS Lists, Feeds, StoredFiles, FiniteSetTheorems, SequenceTheorems, TLAPS

\* A statement that counts has every condition the page has.
CountsAll(select) == select.always \cup select.optional \subseteq select.counts

\* A key has every filter, but for those with which a request goes past the cache.
KeyTells(l) == l.cached => l.select.optional \subseteq l.key \cup l.past

\* The statement of each list.
LEMMA EachCounts == \A l \in AllLists : CountsAll(l.select)
<1> DEFINE S == {queryCompanies, queryCompanyOrders, queryWebhookEndpoints, queryWebhookDeliveries,
                 queryApiKeys, queryUsers, queryAuditLogs, queryActivityLog, queryAdmins,
                 queryAdminInvites, queryTrips, buildCompanyDetail, listOrdersForCompany,
                 listOrdersForCompanyViaApi, computeTripsList, listForCompany,
                 listTeamMembersForCompany, listDeliveries}
<1>1. \A s \in S : CountsAll(s)
  BY DEF CountsAll, Select, queryCompanies, queryCompanyOrders, queryWebhookEndpoints,
         queryWebhookDeliveries, queryApiKeys, queryUsers, queryAuditLogs, queryActivityLog,
         queryAdmins, queryAdminInvites, queryTrips, buildCompanyDetail, listOrdersForCompany,
         listOrdersForCompanyViaApi, computeTripsList, listForCompany,
         listTeamMembersForCompany, listDeliveries
<1>2. listTripsForCompany.select = computeTripsList
  BY DEF listTripsForCompany, Cached
<1>3. \A l \in AllLists : l.select \in S
  BY <1>2 DEF AllLists, Cached, Uncached, listCompanies, listCompanyOrders, listWebhookEndpoints,
         listWebhookDeliveries, listApiKeys, listUsers, listAuditLogs, listActivityLog,
         listAdmins, listAdminInvites, listTrips, getCompanyDetail, listOrdersForCompanyCached
<1> QED BY <1>1, <1>3

\* The key of each list, the long ones by themselves.
LEMMA EachKeyTells == \A l \in AllLists : KeyTells(l)
<1> USE DEF KeyTells, Cached, Select
<1>1. KeyTells(listCompanies) /\ KeyTells(listCompanyOrders) /\ KeyTells(listWebhookEndpoints)
  BY DEF listCompanies, listCompanyOrders, listWebhookEndpoints,
         queryCompanies, queryCompanyOrders, queryWebhookEndpoints
<1>2. KeyTells(listWebhookDeliveries) /\ KeyTells(listApiKeys) /\ KeyTells(listUsers)
  BY DEF listWebhookDeliveries, listApiKeys, listUsers,
         queryWebhookDeliveries, queryApiKeys, queryUsers
<1>3. KeyTells(listAuditLogs)
  BY DEF listAuditLogs, queryAuditLogs
<1>4. KeyTells(listActivityLog)
  BY DEF listActivityLog, queryActivityLog
<1>5. KeyTells(listAdmins) /\ KeyTells(listAdminInvites) /\ KeyTells(listTrips)
  BY DEF listAdmins, listAdminInvites, listTrips, queryAdmins, queryAdminInvites, queryTrips
<1>6. KeyTells(getCompanyDetail) /\ KeyTells(listOrdersForCompanyCached)
  BY DEF getCompanyDetail, listOrdersForCompanyCached, buildCompanyDetail, listOrdersForCompany
<1>7. KeyTells(listTripsForCompany)
  BY DEF listTripsForCompany, computeTripsList
<1>8. \A s : KeyTells(Uncached(s))
  BY DEF Uncached
<1> QED
  BY <1>1, <1>2, <1>3, <1>4, <1>5, <1>6, <1>7, <1>8 DEF AllLists

-----------------------------------------------------------------------------
(* Lists: the inductive invariant *)

Form ==
  /\ list \in AllLists
  /\ condition \in list.select.always \cup list.select.optional
  /\ reader = [r \in Reader |-> reader[r]]
  /\ \A r \in Reader : reader[r].query.given \in Given

\* An entry is under the key of the question that its answer is to.
ToldByKey(e) ==
  /\ list.cached
  /\ e.answer.to.given \in Given
  /\ e.answer.to.given \cap list.past = {}
  /\ e.key.given = e.answer.to.given \cap list.key

\* What is read and counted is for the query in hand.
OfQuery(h) == h.at \in {"read", "counted"} => h.answer.to = h.query
Asked(h) == h.answer # NoAnswer => h.answer.to.given = h.query.given
PageCounted(h) ==
  h.at = "read" /\ ~h.answer.stale => h.answer.of = Cardinality(Meeting(Conditions(h.query)))
TotalCounted(h) == h.at = "counted" /\ ~h.answer.stale => h.answer.total = h.answer.of

Right(h) == OfQuery(h) /\ Asked(h) /\ PageCounted(h) /\ TotalCounted(h)

Answers == Form /\ (\A e \in entry : ToldByKey(e)) /\ \A r \in Reader : Right(reader[r])

-----------------------------------------------------------------------------
\* Two questions that are looked up and have one key have the same filters.
LEMMA KeyIsQuestion ==
  ASSUME Form, list.cached, NEW g \in Given, NEW h \in Given,
         g \cap list.past = {}, h \cap list.past = {}, g \cap list.key = h \cap list.key
  PROVE  g = h
<1>1. list.select.optional \subseteq list.key \cup list.past
  BY EachKeyTells DEF Form, KeyTells
<1>2. g \subseteq list.key /\ h \subseteq list.key
  BY <1>1 DEF Given
<1> QED BY <1>2

\* The statement that counts meets the condition if and only if the page does.
LEMMA CountIsOfPage ==
  ASSUME Form, NEW q, q.given \in Given
  PROVE  Meeting(Conditions(q) \cap list.select.counts) = Meeting(Conditions(q))
<1>1. condition \in list.select.counts
  BY EachCounts DEF Form, CountsAll
<1> QED BY <1>1 DEF Meeting

\* Initially the readers are idle and the cache is empty.
LEMMA InitAnswers == Init => Answers
<1> SUFFICES ASSUME Init PROVE Answers
  OBVIOUS
<1>1. Idle.query.given \in Given
  BY DEF Idle, Reads, NoQuery, Given
<1>2. Right(Idle)
  BY DEF Idle, Reads, Right, OfQuery, Asked, PageCounted, TotalCounted
<1>3. Form
  BY <1>1 DEF Init, Form
<1> QED
  BY <1>2, <1>3 DEF Init, Answers

-----------------------------------------------------------------------------
\* A step of one reader that leaves the table and the list alone keeps the readers, if
\* what it leaves that reader with is right.
LEMMA OneReader ==
  ASSUME Answers, NEW r \in Reader, NEW h, Goes(r, h), UNCHANGED <<list, condition, rows>>,
         h.query.given \in Given, Right(h), \A e \in entry' : ToldByKey(e)
  PROVE  Answers'
<1>1. \A q \in Reader : reader'[q] = IF q = r THEN h ELSE reader[q]
  BY DEF Goes, Answers, Form
<1>2. reader' = [q \in Reader |-> reader'[q]]
  BY DEF Goes, Answers, Form
<1>3. Given' = Given
  BY DEF Given
<1>4. Form'
  BY <1>1, <1>2, <1>3 DEF Answers, Form
<1>5. \A e \in entry' : ToldByKey(e)'
  BY <1>3 DEF ToldByKey
<1>6. \A q \in Reader : Right(reader[q])'
  <2> SUFFICES ASSUME NEW q \in Reader PROVE Right(reader[q])'
    OBVIOUS
  <2>1. Right(reader'[q])
    BY <1>1 DEF Answers
  <2> QED
    BY <2>1 DEF Right, OfQuery, Asked, PageCounted, TotalCounted, Meeting, Conditions
<1> QED BY <1>4, <1>5, <1>6 DEF Answers

\* A reader asks.
LEMMA AskingKeeps == ASSUME Answers, NEW r \in Reader, asks(r) PROVE Answers'
<1>1. PICK given \in Given, sort \in Sorts :
        Goes(r, Reads("asked", [given |-> given, sort |-> sort, page |-> 1], NoAnswer, <<>>, FALSE))
  BY DEF asks
<1> DEFINE h == Reads("asked", [given |-> given, sort |-> sort, page |-> 1], NoAnswer, <<>>, FALSE)
<1>2. h.at = "asked" /\ h.query.given = given /\ h.answer = NoAnswer
  BY DEF Reads
<1> HIDE DEF h
<1>3. Right(h)
  BY <1>2 DEF Right, OfQuery, Asked, PageCounted, TotalCounted
<1> QED BY <1>1, <1>2, <1>3, OneReader DEF asks, Answers, h

\* A reader that turns the page keeps the filters, and takes the answer.
LEMMA TurningKeeps ==
  ASSUME Answers, NEW r \in Reader, NEW answer, Turns(r, answer),
         answer.to.given = reader[r].query.given, UNCHANGED <<list, condition, rows>>,
         \A e \in entry' : ToldByKey(e)
  PROVE  Answers'
<1> DEFINE here == reader[r]
           more == here.query.page * pageSize < answer.total
           next == [given |-> here.query.given, sort |-> here.query.sort, page |-> here.query.page + 1]
           at == IF more THEN "asked" ELSE "done"
           q == IF more THEN next ELSE here.query
           seen == here.seen \o answer.rows
           unsteady == here.unsteady \/ answer.stale \/ answer.to.sort # here.query.sort
           h == Reads(at, q, answer, seen, unsteady)
<1>1. Goes(r, h)
  BY DEF Turns
<1>2. at \in {"asked", "done"} /\ q.given = reader[r].query.given
  OBVIOUS
<1> HIDE DEF at, q, seen, unsteady
<1>3. h.at = at /\ h.query = q /\ h.answer = answer
  BY DEF Reads
<1> HIDE DEF h
<1>4. h.query.given \in Given
  BY <1>2, <1>3 DEF Answers, Form
<1>5. Right(h)
  BY <1>2, <1>3 DEF Right, OfQuery, Asked, PageCounted, TotalCounted
<1> QED BY <1>1, <1>4, <1>5, OneReader

\* An entry found is the answer to the question.
LEMMA FindingKeeps == ASSUME Answers, NEW r \in Reader, getFromCache(r) PROVE Answers'
<1> DEFINE q == reader[r].query
<1>1. PICK e \in entry : e.key = keyOf(q) /\ Turns(r, e.answer)
  BY DEF getFromCache
<1>2. q.given \in Given /\ q.given \cap list.past = {}
  BY DEF getFromCache, goesPast, Answers, Form
<1>3. e.key.given = q.given \cap list.key
  BY <1>1 DEF keyOf
<1>4. ToldByKey(e)
  BY DEF Answers
<1>5. e.answer.to.given = q.given
  BY <1>2, <1>3, <1>4, KeyIsQuestion DEF ToldByKey, Answers
<1> QED BY <1>1, <1>5, TurningKeeps DEF getFromCache, Answers

\* The page that is read has the rows that meet the query's conditions.
LEMMA ReadingKeeps == ASSUME Answers, NEW r \in Reader, getPage(r) PROVE Answers'
<1> DEFINE q == reader[r].query
           found == Meeting(Conditions(q))
<1>1. PICK s \in Ordered(found, q.sort) :
        Goes(r, Reads("read", q, AnswerTo(q, skipTake(s, q), 0, Cardinality(found), FALSE),
                      reader[r].seen, reader[r].unsteady))
  BY DEF getPage
<1> DEFINE answer == AnswerTo(q, skipTake(s, q), 0, Cardinality(found), FALSE)
           h == Reads("read", q, answer, reader[r].seen, reader[r].unsteady)
<1>2. answer.to = q /\ answer.of = Cardinality(Meeting(Conditions(q)))
  BY DEF AnswerTo
<1> HIDE DEF answer
<1>3. h.at = "read" /\ h.query = q /\ h.answer = answer
  BY DEF Reads
<1> HIDE DEF h
<1>4. h.query.given \in Given
  BY <1>3 DEF Answers, Form
<1>5. Right(h)
  BY <1>2, <1>3 DEF Right, OfQuery, Asked, PageCounted, TotalCounted
<1>6. Goes(r, h)
  BY <1>1 DEF h, answer
<1> QED BY <1>4, <1>5, <1>6, OneReader DEF getPage, Answers

\* The count is of the same rows, unless the table has changed.
LEMMA CountingKeeps == ASSUME Answers, NEW r \in Reader, getCount(r) PROVE Answers'
<1> DEFINE here == reader[r]
           found == Meeting(Conditions(here.query) \cap list.select.counts)
           answer == AnswerTo(here.answer.to, here.answer.rows, Cardinality(found),
                              here.answer.of, here.answer.stale)
           h == Reads("counted", here.query, answer, here.seen, here.unsteady)
<1>1. here.query.given \in Given /\ Right(here) /\ here.at = "read"
  BY DEF Answers, Form, getCount
<1>2. found = Meeting(Conditions(here.query))
  BY <1>1, CountIsOfPage DEF Answers
<1>3. /\ answer.to = here.query /\ answer.of = here.answer.of
      /\ answer.total = Cardinality(Meeting(Conditions(here.query)))
  BY <1>1, <1>2 DEF AnswerTo, Right, OfQuery
<1>4. ~answer.stale => ~here.answer.stale
  BY DEF AnswerTo
<1>5. Goes(r, h)
  BY DEF getCount
<1> HIDE DEF answer
<1>6. h.at = "counted" /\ h.query = here.query /\ h.answer = answer
  BY DEF Reads
<1> HIDE DEF h
<1>7. ~h.answer.stale => h.answer.total = h.answer.of
  BY <1>1, <1>3, <1>4, <1>6 DEF Right, PageCounted
<1>8. Right(h)
  BY <1>1, <1>3, <1>6, <1>7 DEF Right, OfQuery, Asked, PageCounted, TotalCounted
<1>9. h.query.given \in Given
  BY <1>1, <1>6
<1> QED BY <1>5, <1>8, <1>9, OneReader DEF getCount, Answers

\* What is stored is under the key of its question.
LEMMA StoringKeeps == ASSUME Answers, NEW r \in Reader, storeAnswer(r) PROVE Answers'
<1> DEFINE q == reader[r].query
           answer == reader[r].answer
           new == [key |-> keyOf(q), answer |-> answer]
<1>1. answer.to = q /\ q.given \in Given
  BY DEF Answers, Form, Right, OfQuery, storeAnswer
<1>2. \A e \in entry' : e \in entry \/ (e = new /\ ~goesPast(q))
  BY DEF storeAnswer
<1>3. new.answer = answer /\ new.key.given = q.given \cap list.key
  BY DEF keyOf
<1> HIDE DEF new
<1>4. ~goesPast(q) => ToldByKey(new)
  BY <1>1, <1>3 DEF ToldByKey, goesPast
<1>5. \A e \in entry' : ToldByKey(e)
  BY <1>2, <1>4 DEF Answers
<1>6. Turns(r, answer) /\ UNCHANGED <<list, condition, rows>>
  BY DEF storeAnswer
<1> QED BY <1>1, <1>5, <1>6, TurningKeeps

\* An entry goes.
LEMMA ExpiringKeeps == ASSUME Answers, NEW e \in entry, expires(e) PROVE Answers'
  BY DEF Answers, Form, expires, ToldByKey, Right, OfQuery, Asked, PageCounted, TotalCounted,
         Meeting, Conditions, Given

\* A change makes what is in hand stale, and what is in the cache, and leaves the
\* questions as they are.
LEMMA ChangingKeeps == ASSUME Answers, NEW x \in Row, change(x) PROVE Answers'
<1>1. ASSUME NEW e \in entry' PROVE ToldByKey(e)'
  <2>1. PICK d \in entry : e = [key |-> d.key, answer |-> Aged(d.answer, TRUE)]
    BY <1>1 DEF change
  <2>2. e.key = d.key /\ e.answer.to = d.answer.to
    BY <2>1 DEF Aged, AnswerTo
  <2>3. ToldByKey(d)
    BY DEF Answers
  <2> QED BY <2>2, <2>3 DEF ToldByKey, change, Given
<1>2. ASSUME NEW r \in Reader PROVE Right(reader[r])' /\ reader'[r].query = reader[r].query
  <2> DEFINE here == reader[r]
             held == here.at \in {"read", "counted"}
             answer == Aged(here.answer, held)
  <2>1. reader'[r] = Reads(here.at, here.query, answer, here.seen,
                           here.unsteady \/ here.at = "done" \/ here.query.page > 1)
    BY DEF change
  <2>2. reader'[r].at = here.at /\ reader'[r].query = here.query /\ reader'[r].answer = answer
    BY <2>1 DEF Reads
  <2>3. answer.to = here.answer.to /\ (held => answer.stale)
    BY DEF Aged, AnswerTo
  <2>4. Right(here)
    BY DEF Answers
  <2>5. answer # NoAnswer => answer.to.given = here.query.given
    <3>1. CASE held
      BY <3>1, <2>3, <2>4 DEF Right, OfQuery
    <3>2. CASE ~held
      <4>1. answer = Aged(here.answer, FALSE)
        <5>1. held = FALSE
          BY <3>2
        <5> HIDE DEF held
        <5> QED BY <5>1
      <4>2. Aged(NoAnswer, FALSE) = NoAnswer
        BY DEF NoAnswer, Aged, AnswerTo
      <4>3. here.answer = NoAnswer => answer = NoAnswer
        <5> HIDE DEF answer
        <5> QED BY <4>1, <4>2
      <4> QED BY <4>3, <2>3, <2>4 DEF Right, Asked
    <3> QED BY <3>1, <3>2
  <2> HIDE DEF answer
  <2> QED BY <2>2, <2>3, <2>4, <2>5 DEF Right, OfQuery, Asked, PageCounted, TotalCounted, NoAnswer
<1>3. reader' = [r \in Reader |-> reader'[r]]
  BY DEF change
<1>4. Form'
  BY <1>2, <1>3 DEF Answers, Form, change, Given
<1> QED BY <1>1, <1>2, <1>4 DEF Answers

\* Every step keeps the invariant.
LEMMA StepAnswers == Answers /\ [Next]_vars => Answers'
<1> SUFFICES ASSUME Answers, [Next]_vars PROVE Answers'
  OBVIOUS
<1>1. CASE UNCHANGED vars
  BY <1>1 DEF vars, Answers, Form, ToldByKey, Right, OfQuery, Asked, PageCounted, TotalCounted,
              Meeting, Conditions, Given
<1>2. ASSUME NEW r \in Reader,
             asks(r) \/ getFromCache(r) \/ getPage(r) \/ getCount(r) \/ storeAnswer(r)
      PROVE  Answers'
  BY <1>2, AskingKeeps, FindingKeeps, ReadingKeeps, CountingKeeps, StoringKeeps
<1> QED
  BY <1>1, <1>2, ExpiringKeeps, ChangingKeeps DEF Next

-----------------------------------------------------------------------------
\* The total of each list is the number of rows its pages have, for any rows, page size and
\* readers, unless the table changed between the two statements.
THEOREM TotalsAgree == Spec => []TotalAgrees
<1>1. Answers => TotalAgrees
  BY DEF Answers, Right, TotalCounted, TotalAgrees
<1> QED BY <1>1, InitAnswers, StepAnswers, PTL DEF Spec

\* An answer, from the cache or not, has the filters of the request, whatever is cached,
\* overwritten and expires.
THEOREM AnswersAreToTheQuestion == Spec => []AnswersTheQuestion
<1>1. Answers => AnswersTheQuestion
  BY DEF Answers, Right, Asked, AnswersTheQuestion
<1> QED BY <1>1, InitAnswers, StepAnswers, PTL DEF Spec

-----------------------------------------------------------------------------
(* Lists: a walk through the pages *)

\* The rows are those of a page, in some order the database may return them in.
OfPage(page, q, found) == \E s \in Ordered(found, q.sort) : page = skipTake(s, q)

EntryHas(e) ==
  /\ e.key.page = e.answer.to.page
  /\ ~e.answer.stale =>
       LET found == Meeting(Conditions(e.answer.to)) IN
       /\ OfPage(e.answer.rows, e.answer.to, found)
       /\ e.answer.total = Cardinality(found)

\* A reader has seen all rows of the pages before the one it is at.
Skipped(q) == (q.page - 1) * pageSize

Walks(h) ==
  LET found == Meeting(Conditions(h.query)) IN
  /\ h.query.page \in Nat \ {0}
  /\ h.at \in {"asked", "read", "counted"} /\ h.query.page = 1 => h.seen = <<>>
  /\ h.at \in {"read", "counted"} /\ ~h.answer.stale => OfPage(h.answer.rows, h.query, found)
  /\ h.at = "counted" /\ ~h.answer.stale => h.answer.total = Cardinality(found)
  /\ ~h.unsteady /\ h.at \in {"asked", "read", "counted"} /\ h.query.page > 1 =>
       \E s \in Ordered(found, h.query.sort) :
         Skipped(h.query) < Len(s) /\ h.seen = SubSeq(s, 1, Skipped(h.query))
  /\ ~h.unsteady /\ h.at = "done" => \E s \in Ordered(found, h.query.sort) : h.seen = s

Walking ==
  rows \subseteq Row /\ (\A e \in entry : EntryHas(e)) /\ \A r \in Reader : Walks(reader[r])

\* An order of the rows found has each of them once.
LEMMA OrderHasEach ==
  ASSUME NEW found \in SUBSET Row, NEW sort, NEW s \in Ordered(found, sort)
  PROVE  /\ s \in Seq(found) /\ Len(s) = Cardinality(found) /\ Cardinality(found) \in Nat
         /\ ToSet(s) = found
         /\ \A i, j \in 1..Len(s) : s[i] = s[j] => i = j
<1> DEFINE n == Cardinality(found)
<1>1. IsFiniteSet(found) /\ n \in Nat
  BY ListAssumption, FS_Subset, FS_CardinalityType
<1>2. s \in [1..n -> found] /\ \A i, j \in 1..n : i # j => s[i] # s[j]
  BY DEF Ordered, SetToSeqs
<1>3. s \in Injection(1..n, found)
  BY <1>2 DEF Injection, IsInjective
<1>4. Cardinality(1..n) = n
  BY <1>1, FS_Interval
<1>5. s \in Surjection(1..n, found)
  BY <1>1, <1>3, <1>4, FS_Injection
<1>6. \A x \in found : \E i \in 1..n : s[i] = x
  BY <1>5 DEF Surjection
<1>7. s \in Seq(found) /\ Len(s) = n /\ DOMAIN s = 1..n
  BY <1>1, <1>2
<1> QED
  BY <1>1, <1>2, <1>6, <1>7 DEF ToSet

\* A row is at the place that is the number of rows up to it.
LEMMA PlaceIsRank ==
  ASSUME IsInjective(createdAt), NEW found \in SUBSET Row, NEW sort,
         NEW s \in Ordered(found, sort), NEW i \in 1..Len(s)
  PROVE  Cardinality({x \in found : Before(x, s[i], sort)}) = i
<1> DEFINE upTo == {x \in found : Before(x, s[i], sort)}
           g == [j \in 1..i |-> s[j]]
<1>1. /\ s \in Seq(found) /\ ToSet(s) = found
      /\ \A j, k \in 1..Len(s) : s[j] = s[k] => j = k
  BY OrderHasEach
<1>2. \A j, k \in 1..Len(s) : j < k => Before(s[j], s[k], sort)
  BY DEF Ordered
<1>3. \A x \in found : createdAt[x] \in Nat
  BY ListAssumption
<1>4. \A x, y \in found : createdAt[x] = createdAt[y] => x = y
  BY ListAssumption DEF IsInjective
<1>5. i \in Nat /\ i <= Len(s) /\ 1 <= i
  BY <1>1
<1>6. \A j \in 1..i : s[j] \in upTo
  <2> TAKE j \in 1..i
  <2>1. j \in 1..Len(s) /\ s[j] \in found /\ s[i] \in found
    BY <1>1, <1>5
  <2>2. CASE j = i
    BY <1>3, <2>1, <2>2 DEF Before
  <2>3. CASE j < i
    BY <1>2, <2>1, <2>3
  <2> QED BY <1>5, <2>2, <2>3
<1>7. \A x \in upTo : \E j \in 1..i : s[j] = x
  <2> TAKE x \in upTo
  <2>1. PICK k \in 1..Len(s) : s[k] = x
    BY <1>1 DEF ToSet
  <2>2. CASE i < k
    <3>1. Before(s[i], s[k], sort) /\ Before(s[k], s[i], sort) /\ s[i] \in found
      BY <1>1, <1>2, <2>1, <2>2
    <3>2. createdAt[s[i]] = createdAt[s[k]]
      BY <1>3, <2>1, <3>1 DEF Before
    <3> QED BY <1>1, <1>4, <2>1, <2>2, <3>1, <3>2
  <2> QED BY <1>1, <1>5, <2>1, <2>2
<1>8. g \in Injection(1..i, upTo)
  <2>1. \A j, k \in 1..i : s[j] = s[k] => j = k
    BY <1>1, <1>5
  <2>2. g \in [1..i -> upTo]
    BY <1>6
  <2> QED BY <2>1, <2>2 DEF Injection, IsInjective
<1>9. g \in Surjection(1..i, upTo)
  <2>1. \A x \in upTo : \E j \in 1..i : g[j] = x
    BY <1>7
  <2> QED BY <1>6, <2>1 DEF Surjection
<1>10. Cardinality(upTo) = Cardinality(1..i) /\ Cardinality(1..i) = i
  BY <1>5, <1>8, <1>9, FS_Surjection, FS_Interval
<1> QED BY <1>10

\* If no two rows were created at the same moment there is one order.
LEMMA OrderIsOne ==
  ASSUME IsInjective(createdAt), NEW found \in SUBSET Row, NEW sort,
         NEW s \in Ordered(found, sort), NEW t \in Ordered(found, sort)
  PROVE  s = t
<1>1. s \in Seq(found) /\ t \in Seq(found) /\ Len(s) = Len(t) /\ ToSet(t) = found
  BY OrderHasEach
<1>2. ASSUME NEW i \in 1..Len(s) PROVE s[i] = t[i]
  <2>1. PICK k \in 1..Len(t) : t[k] = s[i]
    BY <1>1 DEF ToSet
  <2>2. Cardinality({x \in found : Before(x, s[i], sort)}) = i
    BY PlaceIsRank
  <2>3. Cardinality({x \in found : Before(x, t[k], sort)}) = k
    BY PlaceIsRank
  <2> QED BY <2>1, <2>2, <2>3
<1> QED BY <1>1, <1>2

\* What comes before a page and the page are what comes before the next one.
LEMMA PageFollows ==
  ASSUME NEW found \in SUBSET Row, NEW q, q.page \in Nat \ {0}, NEW s \in Ordered(found, q.sort),
         Skipped(q) <= Len(s)
  PROVE  SubSeq(s, 1, Skipped(q)) \o skipTake(s, q)
           = IF q.page * pageSize < Len(s) THEN SubSeq(s, 1, q.page * pageSize) ELSE s
<1> DEFINE k == Skipped(q)
           m == q.page * pageSize
           to == Min({m, Len(s)})
<1>1. s \in Seq(found) /\ Len(s) \in Nat
  BY OrderHasEach
<1>2. k \in Nat /\ m \in Nat /\ k <= m
  <2>1. pageSize \in Nat /\ q.page \in Nat /\ q.page >= 1
    BY ListAssumption
  <2>2. k = q.page * pageSize - pageSize
    BY <2>1 DEF Skipped
  <2>3. q.page - 1 \in Nat /\ k \in Nat /\ m \in Nat
    BY <2>1 DEF Skipped
  <2> QED BY <2>1, <2>2, <2>3
<1>3. to = IF m < Len(s) THEN m ELSE Len(s)
  BY <1>1, <1>2 DEF Min
<1>4. skipTake(s, q) = SubSeq(s, k + 1, to)
  BY DEF skipTake, Skipped
<1> HIDE DEF k, m
<1>5. SubSeq(s, 1, k) \o SubSeq(s, k + 1, to) = SubSeq(s, 1, to)
  <2>1. to \in Nat /\ k <= to /\ to <= Len(s)
    BY <1>1, <1>2, <1>3 DEF k
  <2> HIDE DEF to
  <2> QED BY <1>1, <1>2, <2>1, ConcatAdjacentSubSeq
<1>6. SubSeq(s, 1, Len(s)) = s
  BY <1>1, SubSeqFull
<1> QED BY <1>3, <1>4, <1>5, <1>6 DEF k, m
-----------------------------------------------------------------------------
\* Initially no page is read.
LEMMA InitWalking == Init => Walking
<1> SUFFICES ASSUME Init PROVE Walking
  OBVIOUS
<1>1. Walks(Idle)
  BY DEF Idle, Reads, NoQuery, Walks
<1> QED BY <1>1 DEF Init, Walking

\* A step of one reader that leaves the table and the list alone keeps the walks, if what
\* it leaves that reader with is one.
LEMMA OneWalks ==
  ASSUME Walking, Form, NEW r \in Reader, NEW h, Goes(r, h), UNCHANGED <<list, condition, rows>>,
         Walks(h), \A e \in entry' : EntryHas(e)
  PROVE  Walking'
<1>1. \A q \in Reader : reader'[q] = IF q = r THEN h ELSE reader[q]
  BY DEF Goes, Form
<1>2. \A e \in entry' : EntryHas(e)'
  BY DEF EntryHas, OfPage, Meeting, Conditions
<1>3. \A q \in Reader : Walks(reader[q])'
  <2> SUFFICES ASSUME NEW q \in Reader PROVE Walks(reader[q])'
    OBVIOUS
  <2>1. Walks(reader'[q])
    BY <1>1 DEF Walking
  <2> QED BY <2>1 DEF Walks, OfPage, Meeting, Conditions
<1> QED BY <1>2, <1>3 DEF Walking

\* A reader begins with the first page.
LEMMA AskingWalks == ASSUME Answers, Walking, NEW r \in Reader, asks(r) PROVE Walking'
<1>1. PICK given \in Given, sort \in Sorts :
        Goes(r, Reads("asked", [given |-> given, sort |-> sort, page |-> 1], NoAnswer, <<>>, FALSE))
  BY DEF asks
<1> DEFINE h == Reads("asked", [given |-> given, sort |-> sort, page |-> 1], NoAnswer, <<>>, FALSE)
<1>2. h.at = "asked" /\ h.query.page = 1 /\ h.seen = <<>>
  BY DEF Reads
<1> HIDE DEF h
<1>3. Walks(h)
  BY <1>2 DEF Walks
<1>4. Goes(r, h)
  BY <1>1 DEF h
<1> QED BY <1>3, <1>4, OneWalks DEF asks, Answers, Walking

\* The rows of a page that answers the question come after those of the pages before.
LEMMA TurningWalks ==
  ASSUME IsInjective(createdAt), Answers, Walking, NEW r \in Reader, NEW answer, Turns(r, answer),
         reader[r].at \in {"asked", "read", "counted"},
         answer.to.given = reader[r].query.given, answer.to.page = reader[r].query.page,
         ~answer.stale =>
            /\ OfPage(answer.rows, answer.to, Meeting(Conditions(answer.to)))
            /\ answer.total = Cardinality(Meeting(Conditions(answer.to))),
         UNCHANGED <<list, condition, rows>>, \A e \in entry' : EntryHas(e)
  PROVE  Walking'
<1> DEFINE here == reader[r]
           more == here.query.page * pageSize < answer.total
           next == [given |-> here.query.given, sort |-> here.query.sort, page |-> here.query.page + 1]
           at == IF more THEN "asked" ELSE "done"
           q == IF more THEN next ELSE here.query
           seen == here.seen \o answer.rows
           unsteady == here.unsteady \/ answer.stale \/ answer.to.sort # here.query.sort
           h == Reads(at, q, answer, seen, unsteady)
           found == Meeting(Conditions(here.query))
<1>1. Goes(r, h)
  BY DEF Turns
<1>2. Walks(here) /\ here.query.page \in Nat \ {0}
  BY DEF Walking, Walks
<1>3. found \in SUBSET Row /\ Meeting(Conditions(answer.to)) = found
  BY DEF Meeting, Conditions, Walking
<1>4. h.at = at /\ h.query = q /\ h.seen = seen /\ h.unsteady = unsteady
  BY DEF Reads
<1>5. ASSUME ~h.unsteady
      PROVE  \E s \in Ordered(found, here.query.sort) :
               /\ answer.total = Len(s) /\ Len(s) \in Nat
               /\ seen = IF here.query.page * pageSize < Len(s)
                         THEN SubSeq(s, 1, here.query.page * pageSize) ELSE s
  <2>1. ~here.unsteady /\ ~answer.stale /\ answer.to.sort = here.query.sort
    BY <1>4, <1>5
  <2>2. PICK s \in Ordered(found, here.query.sort) : answer.rows = skipTake(s, here.query)
    BY <1>3, <2>1 DEF OfPage, skipTake
  <2>3. answer.total = Len(s) /\ Len(s) \in Nat /\ s \in Seq(found)
    BY <1>3, <2>1, OrderHasEach
  <2>4. Skipped(here.query) <= Len(s) /\ here.seen = SubSeq(s, 1, Skipped(here.query))
    <3>1. CASE here.query.page = 1
      <4>1. Skipped(here.query) = 0
        BY <3>1, ListAssumption DEF Skipped
      <4>2. here.seen = <<>>
        BY <1>2, <3>1 DEF Walks
      <4>3. SubSeq(s, 1, 0) = <<>>
        BY <2>3, SubSeqEmpty
      <4> QED BY <2>3, <4>1, <4>2, <4>3
    <3>2. CASE here.query.page > 1
      <4>1. PICK t \in Ordered(found, here.query.sort) :
              Skipped(here.query) < Len(t) /\ here.seen = SubSeq(t, 1, Skipped(here.query))
        BY <1>2, <2>1, <3>2 DEF Walks
      <4>2. s = t
        BY <1>3, OrderIsOne
      <4>3. Skipped(here.query) \in Int
        BY <1>2, ListAssumption DEF Skipped
      <4> QED BY <2>3, <4>1, <4>2, <4>3
    <3> QED BY <1>2, <3>1, <3>2
  <2>5. seen = SubSeq(s, 1, Skipped(here.query)) \o skipTake(s, here.query)
    BY <2>2, <2>4
  <2> QED BY <1>2, <1>3, <2>3, <2>4, <2>5, PageFollows
<1>6. q.page \in Nat \ {0} /\ (more => q.page > 1 /\ Skipped(q) = here.query.page * pageSize)
  BY <1>2, ListAssumption DEF Skipped
<1>7. Meeting(Conditions(q)) = found /\ q.sort = here.query.sort
  BY DEF Conditions
<1>8. here.query.page * pageSize \in Nat
  BY <1>2, ListAssumption
<1> HIDE DEF h, seen, unsteady
<1>9. ASSUME more PROVE Walks(h)
  <2>1. at = "asked"
    BY <1>9
  <2>2. ~h.unsteady => \E s \in Ordered(found, q.sort) :
                         Skipped(q) < Len(s) /\ h.seen = SubSeq(s, 1, Skipped(q))
    BY <1>4, <1>5, <1>6, <1>7, <1>9
  <2> HIDE DEF found, q, at, more
  <2> QED BY <1>4, <1>6, <1>7, <1>9, <2>1, <2>2 DEF Walks
<1>10. ASSUME ~more PROVE Walks(h)
  <2>1. at = "done"
    BY <1>10
  <2>2. ~h.unsteady => \E s \in Ordered(found, q.sort) : h.seen = s
    BY <1>4, <1>5, <1>7, <1>10
  <2> HIDE DEF found, q, at, more
  <2> QED BY <1>4, <1>6, <1>7, <2>1, <2>2 DEF Walks
<1> QED BY <1>1, <1>9, <1>10, OneWalks DEF Answers

\* An entry found has the rows of the page that was asked for.
LEMMA FindingWalks ==
  ASSUME IsInjective(createdAt), Answers, Walking, NEW r \in Reader, getFromCache(r)
  PROVE  Walking'
<1> DEFINE q == reader[r].query
<1>1. PICK e \in entry : e.key = keyOf(q) /\ Turns(r, e.answer)
  BY DEF getFromCache
<1>2. q.given \in Given /\ q.given \cap list.past = {}
  BY DEF getFromCache, goesPast, Answers, Form
<1>3. e.key.given = q.given \cap list.key /\ e.key.page = q.page
  BY <1>1 DEF keyOf
<1>4. ToldByKey(e) /\ EntryHas(e)
  BY DEF Answers, Walking
<1>5. e.answer.to.given = q.given /\ e.answer.to.page = q.page
  BY <1>2, <1>3, <1>4, KeyIsQuestion DEF ToldByKey, Answers, EntryHas
<1>6. reader[r].at = "asked" /\ UNCHANGED <<list, condition, rows>> /\ \A f \in entry' : EntryHas(f)
  BY DEF getFromCache, Walking
<1> QED BY <1>1, <1>4, <1>5, <1>6, TurningWalks DEF EntryHas

\* A page is read.
LEMMA ReadingWalks == ASSUME Answers, Walking, NEW r \in Reader, getPage(r) PROVE Walking'
<1> DEFINE here == reader[r]
           q == here.query
           found == Meeting(Conditions(q))
<1>1. PICK s \in Ordered(found, q.sort) :
        Goes(r, Reads("read", q, AnswerTo(q, skipTake(s, q), 0, Cardinality(found), FALSE),
                      here.seen, here.unsteady))
  BY DEF getPage
<1> DEFINE answer == AnswerTo(q, skipTake(s, q), 0, Cardinality(found), FALSE)
           h == Reads("read", q, answer, here.seen, here.unsteady)
<1>2. answer.rows = skipTake(s, q)
  BY DEF AnswerTo
<1> HIDE DEF answer
<1>3. /\ h.at = "read" /\ h.query = q /\ h.answer = answer
      /\ h.seen = here.seen /\ h.unsteady = here.unsteady
  BY DEF Reads
<1> HIDE DEF h
<1>4. Walks(here) /\ here.at = "asked"
  BY DEF Walking, getPage
<1>5. Walks(h)
  BY <1>2, <1>3, <1>4 DEF Walks, OfPage
<1>6. Goes(r, h)
  BY <1>1 DEF h, answer
<1> QED BY <1>5, <1>6, OneWalks DEF getPage, Answers, Walking

\* The count is that of the rows the pages have.
LEMMA CountingWalks == ASSUME Answers, Walking, NEW r \in Reader, getCount(r) PROVE Walking'
<1> DEFINE here == reader[r]
           found == Meeting(Conditions(here.query) \cap list.select.counts)
           answer == AnswerTo(here.answer.to, here.answer.rows, Cardinality(found),
                              here.answer.of, here.answer.stale)
           h == Reads("counted", here.query, answer, here.seen, here.unsteady)
<1>1. Walks(here) /\ here.at = "read" /\ here.query.given \in Given
  BY DEF Answers, Form, Walking, getCount
<1>2. found = Meeting(Conditions(here.query))
  BY <1>1, CountIsOfPage DEF Answers
<1>3. /\ answer.rows = here.answer.rows /\ answer.stale = here.answer.stale
      /\ answer.total = Cardinality(Meeting(Conditions(here.query)))
  BY <1>2 DEF AnswerTo
<1>4. Goes(r, h)
  BY DEF getCount
<1> HIDE DEF answer
<1>5. /\ h.at = "counted" /\ h.query = here.query /\ h.answer = answer
      /\ h.seen = here.seen /\ h.unsteady = here.unsteady
  BY DEF Reads
<1> HIDE DEF h
<1>6. Walks(h)
  BY <1>1, <1>3, <1>5 DEF Walks
<1> QED BY <1>4, <1>6, OneWalks DEF getCount, Answers, Walking

\* What is stored is the page in hand, under a key that has its number.
LEMMA StoringWalks ==
  ASSUME IsInjective(createdAt), Answers, Walking, NEW r \in Reader, storeAnswer(r)
  PROVE  Walking'
<1> DEFINE q == reader[r].query
           answer == reader[r].answer
           new == [key |-> keyOf(q), answer |-> answer]
<1>1. reader[r].at = "counted" /\ answer.to = q /\ Walks(reader[r])
  BY DEF Answers, Right, OfQuery, storeAnswer, Walking
<1>2. ~answer.stale => /\ OfPage(answer.rows, answer.to, Meeting(Conditions(answer.to)))
                       /\ answer.total = Cardinality(Meeting(Conditions(answer.to)))
  BY <1>1 DEF Walks
<1>3. new.answer = answer /\ new.key.page = q.page
  BY DEF keyOf
<1>4. \A e \in entry' : e \in entry \/ e = new
  BY DEF storeAnswer
<1> HIDE DEF new
<1>5. EntryHas(new)
  BY <1>1, <1>2, <1>3 DEF EntryHas
<1>6. \A e \in entry' : EntryHas(e)
  BY <1>4, <1>5 DEF Walking
<1>7. Turns(r, answer) /\ UNCHANGED <<list, condition, rows>>
  BY DEF storeAnswer
<1> QED BY <1>1, <1>2, <1>6, <1>7, TurningWalks

\* An entry goes.
LEMMA ExpiringWalks == ASSUME Walking, NEW e \in entry, expires(e) PROVE Walking'
<1>1. entry' \subseteq entry /\ UNCHANGED <<list, condition, rows, changes, reader>>
  BY DEF expires
<1>2. \A d \in entry' : EntryHas(d)'
  BY <1>1 DEF Walking, EntryHas, OfPage, Meeting, Conditions
<1>3. \A r \in Reader : Walks(reader[r])'
  BY <1>1 DEF Walking, Walks, OfPage, Meeting, Conditions
<1> QED BY <1>1, <1>2, <1>3 DEF Walking

\* A change makes all that was read before it stale, and a walk past its first page unsteady.
LEMMA ChangingWalks == ASSUME Walking, NEW x \in Row, change(x) PROVE Walking'
<1>1. ASSUME NEW e \in entry' PROVE EntryHas(e)'
  <2>1. PICK d \in entry : e = [key |-> d.key, answer |-> Aged(d.answer, TRUE)]
    BY DEF change
  <2>2. e.key = d.key /\ e.answer.to = d.answer.to /\ e.answer.stale
    BY <2>1 DEF Aged, AnswerTo
  <2>3. EntryHas(d)
    BY DEF Walking
  <2> QED BY <2>2, <2>3 DEF EntryHas
<1>2. ASSUME NEW r \in Reader PROVE Walks(reader[r])'
  <2> DEFINE here == reader[r]
             held == here.at \in {"read", "counted"}
             answer == Aged(here.answer, held)
             unsteady == here.unsteady \/ here.at = "done" \/ here.query.page > 1
             h == Reads(here.at, here.query, answer, here.seen, unsteady)
  <2>1. reader'[r] = h
    BY DEF change
  <2>2. /\ h.at = here.at /\ h.query = here.query /\ h.answer = answer
        /\ h.seen = here.seen /\ h.unsteady = unsteady
    BY DEF Reads
  <2>3. held => answer.stale
    BY DEF Aged, AnswerTo
  <2>4. Walks(here)
    BY DEF Walking
  <2>5. here.at = "done" \/ here.query.page > 1 => h.unsteady
    BY <2>2
  <2> HIDE DEF answer, unsteady, h
  <2>6. held => h.answer.stale
    BY <2>2, <2>3
  <2> QED BY <2>1, <2>2, <2>4, <2>5, <2>6 DEF Walks
<1>3. rows' \subseteq Row
  BY DEF change, Walking
<1> QED BY <1>1, <1>2, <1>3 DEF Walking

\* Every step keeps the walks.
LEMMA WalkingKept ==
  ASSUME IsInjective(createdAt), Answers, Walking, [Next]_vars
  PROVE  Walking'
<1>1. CASE UNCHANGED vars
  <2>1. UNCHANGED <<list, condition, rows, entry, reader>>
    BY <1>1 DEF vars
  <2>2. \A e \in entry : EntryHas(e)'
    BY <2>1 DEF Walking, EntryHas, OfPage, Meeting, Conditions
  <2>3. \A r \in Reader : Walks(reader[r])'
    BY <2>1 DEF Walking, Walks, OfPage, Meeting, Conditions
  <2> QED BY <2>1, <2>2, <2>3 DEF Walking
<1>2. ASSUME NEW r \in Reader,
             asks(r) \/ getFromCache(r) \/ getPage(r) \/ getCount(r) \/ storeAnswer(r)
      PROVE  Walking'
  BY <1>2, AskingWalks, FindingWalks, ReadingWalks, CountingWalks, StoringWalks
<1>3. ASSUME NEW e \in entry, expires(e) PROVE Walking'
  BY <1>3, ExpiringWalks
<1>4. ASSUME NEW x \in Row, change(x) PROVE Walking'
  BY <1>4, ChangingWalks
<1> QED BY <1>1, <1>2, <1>3, <1>4 DEF Next

\* Who walks through the pages of a list sees each of its rows once, whatever the list, its
\* filters, the number of readers and of rows, and the length of a page (listOrdersForCompany
\* and the other paged lists, their caches and skipTake).
THEOREM WalksSeeEach == Spec => []WalkSeesEach
<1> DEFINE Inv == Answers /\ (IsInjective(createdAt) => Walking)
<1>1. (Init => Inv) /\ (Inv /\ [Next]_vars => Inv')
  BY InitAnswers, InitWalking, StepAnswers, WalkingKept
<1>2. Walking => WalkSeesEach
  <2> SUFFICES ASSUME Walking, NEW r \in Reader, reader[r].at = "done", ~reader[r].unsteady
               PROVE  LET found == Meeting(Conditions(reader[r].query))
                      IN ToSet(reader[r].seen) = found /\ Len(reader[r].seen) = Cardinality(found)
    BY DEF WalkSeesEach
  <2> DEFINE found == Meeting(Conditions(reader[r].query))
  <2>1. found \in SUBSET Row
    BY DEF Meeting, Walking
  <2>2. reader[r].seen \in Ordered(found, reader[r].query.sort)
    BY DEF Walking, Walks
  <2> QED BY <2>1, <2>2, OrderHasEach
<1>3. ~IsInjective(createdAt) => WalkSeesEach
  BY DEF WalkSeesEach
<1>4. Inv => WalkSeesEach
  BY <1>2, <1>3
<1> HIDE DEF Inv
<1> QED BY <1>1, <1>4, PTL DEF Spec

-----------------------------------------------------------------------------
(* Feeds: the types *)

\* What an order's event leaves to its commit: room for one more version.
CommitHasRoom == feed = "orders" /\ open => version <= MaxUpdates

Typed == FeedTypeOK /\ CommitHasRoom

\* The record of one read.
Load == [at : {"free", "drop", "asked", "read"}, key : Key \cup {NoKey},
         read : Version, to : SUBSET Socket]

-----------------------------------------------------------------------------
\* The record of no read is one.
LEMMA FreeIsLoad == NoLoad \in Load
<1>1. 0 \in Version
  BY FeedAssumption DEF Version
<1> QED BY <1>1 DEF NoLoad, Load

\* Initially every variable has its type.
LEMMA InitTyped == FeedInit => Typed
<1> SUFFICES ASSUME FeedInit PROVE Typed
  OBVIOUS
<1>1. 0 \in Version /\ 1 \in Version
  BY FeedAssumption DEF Version
<1>2. load \in [Hand -> Load]
  BY FreeIsLoad DEF FeedInit
<1> QED
  BY <1>1, <1>2, FeedAssumption DEF FeedInit, Typed, FeedTypeOK, CommitHasRoom, Load

\* Owing and acquitting write versions.
LEMMA OwedTyped ==
  ASSUME FeedTypeOK, NEW S
  PROVE  /\ Owes(S) => owed' \in [Socket -> Version]
         /\ Acquits(S) => owed' \in [Socket -> Version]
  BY FeedAssumption DEF FeedTypeOK, Owes, Acquits, Version

\* Events and commits keep the types.
LEMMA ChangesTyped == ASSUME Typed, Changes PROVE Typed'
<1> USE FeedAssumption DEF Typed, CommitHasRoom
<1>1. CASE orderEvent
  BY <1>1 DEF FeedTypeOK, orderEvent, scheduleRefresh, registryVars, Version
<1>2. CASE orderCommit
  <2>1. version' \in Version
    BY <1>2 DEF FeedTypeOK, orderCommit, Version
  <2> QED
    BY <1>2, <2>1 DEF FeedTypeOK, orderCommit, registryVars
<1>3. CASE tripCommit
  BY <1>3 DEF FeedTypeOK, tripCommit, registryVars, Version
<1>4. CASE tripEvent
  <2>1. owed' \in [Socket -> Version]
    BY <1>4, OwedTyped DEF tripEvent
  <2>2. cached' \in [Key -> Version]
    BY <1>4 DEF FeedTypeOK, tripEvent, handleTripUpdated, Version
  <2> QED
    BY <1>4, <2>1, <2>2 DEF FeedTypeOK, tripEvent, scheduleRefresh, registryVars
<1> QED BY <1>1, <1>2, <1>3, <1>4 DEF Changes

\* A refresh that begins keeps them: who is subscribed is subscribed to a query.
LEMMA RefreshTyped == ASSUME Typed, refreshSubscribersForCompany PROVE Typed'
<1>1. owed' \in [Socket -> Version]
  BY OwedTyped DEF Typed, FeedTypeOK, refreshSubscribersForCompany
<1>2. \A s \in Subscribed : sub[s] \in Key
  BY SMT DEF Typed, FeedTypeOK, Subscribed
<1>3. due' \subseteq [key : Key, to : SUBSET Socket]
  BY <1>2 DEF Typed, FeedTypeOK, refreshSubscribersForCompany
<1> QED
  BY <1>1, <1>3 DEF Typed, FeedTypeOK, CommitHasRoom, refreshSubscribersForCompany, tableVars, registryVars

\* A read that begins is a read.
LEMMA StartsTyped ==
  ASSUME FeedTypeOK, NEW l \in Hand, NEW at \in {"drop", "asked"}, NEW k \in Key,
         NEW to \in SUBSET Socket, Starts(l, at, k, to)
  PROVE  load' \in [Hand -> Load]
<1>1. [NoLoad EXCEPT !.at = at, !.key = k, !.to = to] \in Load
  <2>1. 0 \in Version
    BY FeedAssumption DEF Version
  <2>2. at \in {"free", "drop", "asked", "read"} /\ k \in Key \cup {NoKey}
    OBVIOUS
  <2> QED BY <2>1, <2>2, FreeIsLoad DEF Load
<1> QED BY <1>1 DEF FeedTypeOK, Load, Starts

LEMMA ReadAgainTyped == ASSUME Typed, NEW l \in Refresh, readAgain(l) PROVE Typed'
<1>1. PICK g \in due : /\ due' = due \ {g}
                       /\ Starts(l, IF feed = "orders" THEN "drop" ELSE "asked", g.key, g.to)
  BY DEF readAgain
<1>2. g.key \in Key /\ g.to \in SUBSET Socket
  BY SMT DEF Typed, FeedTypeOK
<1>3. load' \in [Hand -> Load]
  BY <1>1, <1>2, StartsTyped DEF Typed, Hand
<1> QED
  BY <1>1, <1>3 DEF Typed, FeedTypeOK, CommitHasRoom, Load, readAgain, tableVars, registryVars

\* A read that goes on or ends is a read.
LEMMA ReadTyped == ASSUME Typed, NEW l \in Hand, Read(l) PROVE Typed'
<1>1. load' \in [Hand -> Load]
  <2>1. CASE drop(l)
    BY <2>1 DEF Typed, FeedTypeOK, Load, drop
  <2>2. CASE compute(l)
    BY ZenonT(60), <2>2 DEF Typed, FeedTypeOK, Load, compute
  <2>3. CASE load' = [load EXCEPT ![l] = NoLoad]
    BY <2>3, FeedAssumption DEF Typed, FeedTypeOK, Load, NoLoad, Version
  <2> QED BY <2>1, <2>2, <2>3 DEF Read, answerFromCache, store, storeFails, loadFails
<1>2. owed' \in [Socket -> Version]
  BY OwedTyped DEF Typed, FeedTypeOK, Read, drop, answerFromCache, compute, store, storeFails, loadFails
<1>3. cached' \in [Key -> Version]
  <2>1. load[l].read \in Version /\ 0 \in Version
    BY FeedAssumption DEF Typed, FeedTypeOK, Version
  <2> QED
    BY <2>1 DEF Typed, FeedTypeOK, Read, drop, invalidateOrdersListCache, answerFromCache, compute,
                      store, storeFails, loadFails
<1> QED
  BY <1>1, <1>2, <1>3 DEF Typed, FeedTypeOK, CommitHasRoom, Load, Read, drop, answerFromCache, compute,
       store, storeFails, loadFails, tableVars, registryVars

\* Somebody's read, an entry that expires.
LEMMA CacheTyped ==
  ASSUME Typed, \/ \E l \in Visit : browse(l)
                \/ \E k \in Key : entryExpires(k)
  PROVE  Typed'
<1>1. ASSUME NEW l \in Visit, browse(l) PROVE Typed'
  <2>1. PICK k \in Key : Starts(l, "asked", k, {})
    BY <1>1 DEF browse
  <2>2. load' \in [Hand -> Load]
    BY <2>1, StartsTyped DEF Typed, Hand
  <2> QED
    BY <1>1, <2>2 DEF Typed, FeedTypeOK, CommitHasRoom, Load, browse, tableVars, registryVars
<1>2. ASSUME NEW k \in Key, entryExpires(k) PROVE Typed'
  <2>1. 0 \in Version
    BY FeedAssumption DEF Version
  <2> QED
    BY <1>2, <2>1 DEF Typed, FeedTypeOK, CommitHasRoom, entryExpires, tableVars, registryVars
<1> QED BY <1>1, <1>2

\* What sockets and the registry do keeps the types.
LEMMA SubscribeTyped == ASSUME Typed, NEW s \in Socket, NEW l \in Visit, handleSubscribe(s, l) PROVE Typed'
<1>1. PICK k \in Key : sub' = [sub EXCEPT ![s] = k] /\ Starts(l, "asked", k, {s})
  BY DEF handleSubscribe
<1>2. load' \in [Hand -> Load]
  BY <1>1, StartsTyped DEF Typed, Hand
<1>3. owed' \in [Socket -> Version]
  BY OwedTyped DEF Typed, handleSubscribe
<1> QED
  BY <1>1, <1>2, <1>3 DEF Typed, FeedTypeOK, CommitHasRoom, Load, handleSubscribe, tableVars

LEMMA SocketsTyped ==
  ASSUME Typed, NEW s \in Socket,
         \/ handleConnection(s) \/ handleUnsubscribe(s) \/ handleDisconnect(s)
         \/ removed(s) \/ removeFails(s) \/ reverseExpires(s)
  PROVE  Typed'
<1> USE DEF Typed, CommitHasRoom
<1>1. CASE handleConnection(s)
  BY <1>1 DEF FeedTypeOK, handleConnection, tableVars
<1>2. CASE handleUnsubscribe(s)
  BY <1>2 DEF FeedTypeOK, handleUnsubscribe, remove, tableVars
<1>3. CASE handleDisconnect(s)
  <2>1. owed' \in [Socket -> Version]
    BY <1>3, OwedTyped DEF handleDisconnect
  <2> QED BY <1>3, <2>1 DEF FeedTypeOK, handleDisconnect, remove, tableVars
<1>4. CASE removed(s)
  <2>1. owed' \in [Socket -> Version]
    BY <1>4, OwedTyped DEF removed
  <2> QED BY <1>4, <2>1 DEF FeedTypeOK, removed, deletesBoth, tableVars
<1>5. CASE removeFails(s)
  BY <1>5 DEF FeedTypeOK, removeFails, tableVars
<1>6. CASE reverseExpires(s)
  BY <1>6 DEF FeedTypeOK, reverseExpires, tableVars
<1> QED BY <1>1, <1>2, <1>3, <1>4, <1>5, <1>6

LEMMA HashExpiresTyped == ASSUME Typed, hashExpires PROVE Typed'
<1>1. owed' \in [Socket -> Version]
  BY OwedTyped DEF Typed, hashExpires
<1> QED
  BY <1>1 DEF Typed, FeedTypeOK, CommitHasRoom, hashExpires, tableVars

\* So does a step that changes nothing.
LEMMA StutterTyped == ASSUME Typed, UNCHANGED feedVars PROVE Typed'
  BY DEF Typed, FeedTypeOK, CommitHasRoom, feedVars, tableVars, registryVars

-----------------------------------------------------------------------------
\* Every variable keeps its type, whatever is changed, read, stored or lost.
THEOREM FeedTyping == FeedSpec => []FeedTypeOK
<1>1. Typed /\ [FeedNext]_feedVars => Typed'
  BY ChangesTyped, RefreshTyped, ReadAgainTyped, ReadTyped, CacheTyped, SubscribeTyped,
     SocketsTyped, HashExpiresTyped, StutterTyped DEF FeedNext, Hand
<1> QED BY InitTyped, <1>1, PTL DEF FeedSpec, Typed

-----------------------------------------------------------------------------
(* Feeds: the registry *)

\* Steps that leave the registry alone.
LEMMA RegistryStays ==
  ASSUME GoneIsForgotten, UNCHANGED registryVars
  PROVE  GoneIsForgotten'
  BY DEF GoneIsForgotten, Subscribed, registryVars

\* Every step leaves a subscription only to a socket that is there, to one whose remove is
\* not done, or to one whose own key was lost.
LEMMA ForgottenStep == ASSUME FeedTypeOK, GoneIsForgotten, [FeedNext]_feedVars PROVE GoneIsForgotten'
<1>1. CASE Changes
  BY <1>1, RegistryStays DEF Changes, orderEvent, orderCommit, tripCommit, tripEvent
<1>2. CASE refreshSubscribersForCompany
  BY <1>2, RegistryStays DEF refreshSubscribersForCompany
<1>3. CASE hashExpires
  BY <1>3 DEF hashExpires, GoneIsForgotten, Subscribed
<1>4. CASE \E l \in Refresh : readAgain(l)
  BY <1>4, RegistryStays DEF readAgain
<1>5. CASE \E l \in Hand : Read(l)
  BY <1>5, RegistryStays DEF Read, drop, answerFromCache, compute, store, storeFails, loadFails
<1>6. CASE \E l \in Visit : browse(l)
  BY <1>6, RegistryStays DEF browse
<1>7. ASSUME NEW l \in Visit, NEW s \in Socket, handleSubscribe(s, l) PROVE GoneIsForgotten'
  <2>1. PICK k \in Key : sub' = [sub EXCEPT ![s] = k]
    BY <1>7 DEF handleSubscribe
  <2>2. \A r \in Socket \ {s} : sub'[r] = sub[r]
    BY <2>1 DEF FeedTypeOK
  <2> QED BY <1>7, <2>2 DEF handleSubscribe, GoneIsForgotten, Subscribed
<1>8. ASSUME NEW s \in Socket, handleConnection(s) PROVE GoneIsForgotten'
  BY <1>8 DEF handleConnection, GoneIsForgotten, Subscribed
<1>9. ASSUME NEW s \in Socket, handleUnsubscribe(s) \/ handleDisconnect(s) PROVE GoneIsForgotten'
  BY <1>9 DEF handleUnsubscribe, handleDisconnect, remove, GoneIsForgotten, Subscribed
<1>10. ASSUME NEW s \in Socket, removed(s) PROVE GoneIsForgotten'
  <2>1. sub' = [sub EXCEPT ![s] = NoKey]
    BY <1>10 DEF removed, deletesBoth
  <2>2. sub'[s] = NoKey /\ \A r \in Socket \ {s} : sub'[r] = sub[r]
    BY <2>1 DEF FeedTypeOK
  <2> QED BY <1>10, <2>2 DEF removed, GoneIsForgotten, Subscribed
<1>11. ASSUME NEW s \in Socket, removeFails(s) \/ reverseExpires(s) PROVE GoneIsForgotten'
  BY <1>11 DEF removeFails, reverseExpires, GoneIsForgotten, Subscribed
<1>12. CASE \E k \in Key : entryExpires(k)
  BY <1>12, RegistryStays DEF entryExpires
<1>13. CASE UNCHANGED feedVars
  BY <1>13, RegistryStays DEF feedVars
<1> QED
  BY <1>1, <1>2, <1>3, <1>4, <1>5, <1>6, <1>7, <1>8, <1>9, <1>10, <1>11, <1>12, <1>13 DEF FeedNext

\* The registry forgets a socket that has left, as soon as its remove is done, unless the
\* socket's own key was gone before it, or Redis failed.
THEOREM RegistryForgets == FeedSpec => []GoneIsForgotten
<1>1. FeedInit => GoneIsForgotten
  BY DEF FeedInit, GoneIsForgotten, Subscribed
<1> QED BY <1>1, FeedTyping, ForgottenStep, PTL DEF FeedSpec

-----------------------------------------------------------------------------
(* Feeds: what is owed *)

\* A read of a query that will bring a version, or a later one: it drops the entry first, or
\* looks where no older list stands, or has read it.
Fresh(k, v) == cached[k] = 0 \/ cached[k] >= v

Brings(l, k, v) ==
  /\ load[l].key = k
  /\ \/ load[l].at = "drop"
     \/ load[l].at = "asked" /\ Fresh(k, v)
     \/ load[l].at = "read" /\ load[l].read >= v

\* A refresh that will be, one that has begun, or a read of it.
UnderWay(s) ==
  \/ pending
  \/ \E g \in due : g.key = sub[s] /\ s \in g.to
  \/ \E l \in Refresh : s \in load[l].to /\ Brings(l, sub[s], owed[s])

\* What is owed is committed; of trips, their event has dropped the older lists.
Due(s) ==
  /\ sub[s] # NoKey
  /\ owed[s] <= IF feed = "trips" /\ open THEN version - 1 ELSE version
  /\ feed = "trips" => sub[s] \in FirstPage /\ Fresh(sub[s], owed[s])

Remembered(s) == owed[s] # 0 => Due(s) /\ UnderWay(s)

\* A change, its event, and the refresh that follows it.
LEMMA ChangesRemember ==
  ASSUME Typed, \A s \in Socket : Remembered(s), Changes, NEW s \in Socket
  PROVE  Remembered(s)'
<1> USE FeedAssumption
<1> SUFFICES ASSUME owed'[s] # 0 PROVE Due(s)' /\ UnderWay(s)'
  BY DEF Remembered
<1>0. version \in Nat /\ owed[s] \in Nat
  BY DEF Typed, FeedTypeOK, Version
<1>1. CASE orderEvent
  BY <1>1 DEF orderEvent, scheduleRefresh, registryVars, Remembered, Due, UnderWay, Brings, Fresh
<1>2. CASE orderCommit
  BY <1>0, <1>2 DEF orderCommit, registryVars, Remembered, Due, UnderWay, Brings, Fresh
<1>3. CASE tripCommit
  BY <1>0, <1>3 DEF tripCommit, registryVars, Remembered, Due, UnderWay, Brings, Fresh
<1>4. CASE tripEvent
  <2>1. pending' /\ feed' = "trips" /\ ~open' /\ version' = version /\ sub' = sub
    BY <1>4 DEF tripEvent, scheduleRefresh, registryVars
  <2>2. sub[s] \in FirstPage /\ sub[s] # NoKey
    <3>1. CASE s \in Subscribed /\ sub[s] \in FirstPage
      BY <3>1 DEF Subscribed
    <3>2. CASE ~(s \in Subscribed /\ sub[s] \in FirstPage)
      <4>1. owed'[s] = owed[s]
        BY <1>4, <3>2 DEF tripEvent, Owes
      <4> QED BY <1>4, <4>1 DEF tripEvent, Remembered, Due
    <3> QED BY <3>1, <3>2
  <2>3. cached'[sub[s]] = 0
    BY <1>4, <2>2 DEF tripEvent, handleTripUpdated
  <2>4. owed'[s] <= version
    BY <1>0, <1>4 DEF tripEvent, Owes, Remembered, Due
  <2> QED BY <2>1, <2>2, <2>3, <2>4 DEF Due, UnderWay, Fresh
<1> QED BY <1>1, <1>2, <1>3, <1>4 DEF Changes

\* The fan-out of a change turns what is pending into groups that are due.
LEMMA RefreshRemembers ==
  ASSUME Typed, \A s \in Socket : Remembered(s), refreshSubscribersForCompany, NEW s \in Socket
  PROVE  Remembered(s)'
<1> SUFFICES ASSUME owed'[s] # 0 PROVE Due(s)' /\ UnderWay(s)'
  BY DEF Remembered
<1>1. UNCHANGED <<feed, version, open, cached, load, sub>>
  BY DEF refreshSubscribersForCompany, registryVars, tableVars
<1>2. sub[s] # NoKey /\ Due(s)'
  <2>0. version \in Nat
    BY DEF Typed, FeedTypeOK, Version
  <2>1. CASE owed'[s] = owed[s]
    BY <1>1, <2>1 DEF Remembered, Due, Fresh
  <2>2. CASE owed'[s] # owed[s]
    <3>1. feed = "orders" /\ s \in Subscribed /\ owed'[s] = version
      BY <2>2 DEF refreshSubscribersForCompany, Owes
    <3> QED BY <1>1, <2>0, <3>1 DEF Due, Subscribed
  <2> QED BY <2>1, <2>2, <1>1 DEF Due
<1>3. \E g \in due' : g.key = sub'[s] /\ s \in g.to
  <2>1. [key |-> sub[s], to |-> {r \in Socket : sub[r] = sub[s]}] \in due'
    BY <1>2 DEF refreshSubscribersForCompany, Subscribed
  <2> QED BY <1>1, <2>1
<1> QED BY <1>2, <1>3 DEF UnderWay

\* What the reads in hand owe is not touched by a new one, nor is what a group owes by its read.
LEMMA StartsRemember ==
  ASSUME Typed, \A s \in Socket : Remembered(s), NEW l \in Hand, NEW at, NEW key, NEW to,
         Starts(l, at, key, to), UNCHANGED <<tableVars, cached, pending, sub>>,
         NEW s \in Socket, owed'[s] # 0 => owed'[s] = owed[s],
         \A g \in due \ due' : l \in Refresh /\ g.key = key /\ g.to = to
                                 /\ at = IF feed = "orders" THEN "drop" ELSE "asked"
  PROVE  Remembered(s)'
<1> SUFFICES ASSUME owed'[s] # 0 PROVE Due(s)' /\ UnderWay(s)'
  BY DEF Remembered
<1>1. UNCHANGED <<feed, version, open, cached, pending, sub>> /\ owed'[s] = owed[s]
  BY DEF tableVars
<1>2. /\ load'[l] = [NoLoad EXCEPT !.at = at, !.key = key, !.to = to]
      /\ load[l].at = "free" /\ \A o \in Hand \ {l} : load'[o] = load[o]
  BY DEF Starts, Typed, FeedTypeOK
<1>3. Due(s) /\ UnderWay(s) /\ Due(s)'
  BY <1>1 DEF Remembered, Due, Fresh
<1>4. CASE pending
  BY <1>1, <1>3, <1>4 DEF UnderWay
<1>5. ASSUME NEW g \in due, g.key = sub[s], s \in g.to PROVE UnderWay(s)'
  <2>1. CASE g \in due'
    BY <1>1, <1>5, <2>1 DEF UnderWay
  <2>2. CASE g \notin due'
    <3>1. /\ l \in Refresh /\ load'[l].key = sub[s] /\ s \in load'[l].to
          /\ load'[l].at = IF feed = "orders" THEN "drop" ELSE "asked"
      BY <1>2, <1>5, <2>2 DEF NoLoad
    <3>2. feed \in {"orders", "trips"}
      BY DEF Typed, FeedTypeOK
    <3>3. Brings(l, sub[s], owed[s])'
      BY <1>1, <1>3, <3>1, <3>2 DEF Brings, Due, Fresh
    <3> QED BY <1>1, <3>1, <3>3 DEF UnderWay
  <2> QED BY <2>1, <2>2
<1>6. ASSUME NEW o \in Refresh, s \in load[o].to, Brings(o, sub[s], owed[s]) PROVE UnderWay(s)'
  <2>1. o \in Hand \ {l}
    BY <1>2, <1>6 DEF Brings, Hand
  <2> QED BY <1>1, <1>2, <1>6, <2>1 DEF UnderWay, Brings, Fresh
<1> QED BY <1>3, <1>4, <1>5, <1>6 DEF UnderWay

\* A read that goes on or ends. What it brings, the sockets it was for have got, and what
\* an old list would hide from other reads is not owed any more.
LEMMA ReadRemembers ==
  ASSUME Typed, \A s \in Socket : Remembered(s), NEW l \in Hand, Read(l), NEW s \in Socket
  PROVE  Remembered(s)'
<1> SUFFICES ASSUME owed'[s] # 0 PROVE Due(s)' /\ UnderWay(s)'
  BY DEF Remembered
<1>0. /\ version \in Nat /\ owed[s] \in Nat /\ feed \in {"orders", "trips"}
      /\ \A k \in Key : cached[k] \in Nat
      /\ \A o \in Hand : load[o].read \in Nat /\ load[o].key \in Key \cup {NoKey}
      /\ sub[s] \in Key \cup {NoKey}
  BY DEF Typed, FeedTypeOK, Version
<1>1. UNCHANGED <<feed, version, open, due, pending, sub>> /\ owed'[s] = owed[s]
  BY DEF Read, drop, answerFromCache, compute, store, storeFails, loadFails, tableVars,
         registryVars, Acquits
<1>2. Due(s) /\ UnderWay(s)
  BY <1>1 DEF Remembered
<1>3. \A o \in Hand \ {l} : load'[o] = load[o]
  BY DEF Read, drop, answerFromCache, compute, store, storeFails, loadFails, Typed, FeedTypeOK
<1>4. sub[s] \in Key
  BY <1>0, <1>2 DEF Due
<1>5. \/ cached'[sub[s]] = cached[sub[s]] \/ cached'[sub[s]] = 0
      \/ store(l) /\ load[l].key = sub[s] /\ cached'[sub[s]] = load[l].read
  BY <1>4 DEF Read, drop, invalidateOrdersListCache, answerFromCache, compute, store, storeFails,
         loadFails, Typed, FeedTypeOK
<1>6. store(l) /\ load[l].key = sub[s] => ~Spoils(l)
  BY <1>1 DEF store, Acquits
<1>7. Due(s)'
  <2>1. feed = "trips" => cached'[sub[s]] = 0 \/ cached'[sub[s]] >= owed[s]
    <3>1. CASE store(l) /\ load[l].key = sub[s] /\ cached'[sub[s]] = load[l].read /\ feed = "trips"
      <4>1. load[l].read >= IF open THEN version - 1 ELSE version
        BY <1>0, <1>6, <3>1 DEF Spoils
      <4> QED BY <1>0, <1>1, <1>2, <3>1, <4>1 DEF Due, Fresh
    <3>2. CASE cached'[sub[s]] = cached[sub[s]] \/ cached'[sub[s]] = 0
      BY <1>1, <1>2, <3>2 DEF Due, Fresh
    <3> QED BY <1>5, <3>1, <3>2
  <2> QED BY <1>1, <1>2, <2>1 DEF Due, Fresh
<1>8. CASE pending \/ \E g \in due : g.key = sub[s] /\ s \in g.to
  BY <1>1, <1>7, <1>8 DEF UnderWay
<1>9. ASSUME NEW o \in Refresh, s \in load[o].to, Brings(o, sub[s], owed[s]) PROVE UnderWay(s)'
  <2>0. o \in Hand /\ load[o].key = sub[s]
    BY <1>9 DEF Hand, Brings
  <2>1. CASE o # l
    <3>1. load'[o] = load[o]
      BY <1>3, <2>0, <2>1
    <3>2. Brings(o, sub[s], owed[s])'
      <4>1. CASE load[o].at # "asked"
        BY <1>1, <1>9, <3>1, <4>1 DEF Brings
      <4>2. CASE load[o].at = "asked"
        <5>1. Fresh(sub[s], owed[s])
          BY <1>9, <4>2 DEF Brings
        <5>2. CASE feed = "trips"
          BY <1>1, <1>7, <2>0, <3>1, <4>2, <5>2 DEF Brings, Due
        <5>3. CASE feed = "orders" /\ store(l) /\ load[l].key = sub[s]
                     /\ cached'[sub[s]] = load[l].read
          <6>1. load[l].read >= version
            BY <1>0, <1>6, <1>9, <2>0, <2>1, <4>2, <5>3 DEF Spoils
          <6> QED BY <1>0, <1>1, <1>2, <2>0, <3>1, <4>2, <5>3, <6>1 DEF Brings, Fresh, Due
        <5> QED BY <1>0, <1>1, <1>5, <2>0, <3>1, <4>2, <5>1, <5>2, <5>3 DEF Brings, Fresh
      <4> QED BY <4>1, <4>2
    <3> QED BY <1>1, <1>9, <3>1, <3>2 DEF UnderWay
  <2>2. CASE o = l
    <3>1. load[l] \in [at : {"free", "drop", "asked", "read"}, key : Key \cup {NoKey},
                       read : Version, to : SUBSET Socket]
      BY DEF Typed, FeedTypeOK
    <3>2. CASE drop(l)
      <4>1. load'[l] = [load[l] EXCEPT !.at = "asked"] /\ cached'[sub[s]] = 0
        BY <1>4, <2>0, <2>2, <3>2 DEF drop, invalidateOrdersListCache, Typed, FeedTypeOK
      <4> QED BY <1>1, <1>9, <2>0, <2>2, <3>1, <4>1 DEF UnderWay, Brings, Fresh
    <3>3. CASE compute(l)
      <4>1. load'[l] = [load[l] EXCEPT !.at = "read", !.read = version]
        BY <3>3 DEF compute, Typed, FeedTypeOK
      <4>2. owed[s] <= version
        BY <1>0, <1>2 DEF Due
      <4> QED BY <1>0, <1>1, <1>9, <2>0, <2>2, <3>1, <4>1, <4>2 DEF UnderWay, Brings, Fresh
    <3>4. CASE answerFromCache(l)
      <4>1. cached[sub[s]] >= owed[s]
        BY <1>9, <2>0, <2>2, <3>4 DEF Brings, answerFromCache, Fresh
      <4> QED BY <1>0, <1>1, <1>4, <1>9, <2>0, <2>2, <3>4, <4>1 DEF answerFromCache, Acquits, Gets
    <3>5. CASE store(l) \/ storeFails(l)
      <4>1. load[l].read >= owed[s]
        BY <1>9, <2>0, <2>2, <3>5 DEF Brings, store, storeFails
      <4> QED BY <1>0, <1>1, <1>9, <2>0, <2>2, <3>5, <4>1 DEF store, storeFails, Acquits, Gets
    <3>6. CASE loadFails(l)
      BY <1>1, <1>9, <2>2, <3>6 DEF loadFails, Acquits
    <3> QED BY <3>2, <3>3, <3>4, <3>5, <3>6 DEF Read
  <2> QED BY <2>1, <2>2
<1> QED BY <1>2, <1>7, <1>8, <1>9 DEF UnderWay

\* Steps that touch the sockets only: whose subscription ends is owed nothing.
LEMMA SocketsRemember ==
  ASSUME \A s \in Socket : Remembered(s), UNCHANGED <<tableVars, load, due, pending>>,
         \A k \in Key : cached'[k] = cached[k] \/ cached'[k] = 0,
         NEW s \in Socket, owed'[s] # 0 => owed'[s] = owed[s] /\ sub'[s] = sub[s],
         sub[s] \in Key \cup {NoKey}
  PROVE  Remembered(s)'
BY DEF Remembered, Due, UnderWay, Brings, Fresh, tableVars

\* Every step of the feed.
LEMMA StepRemembers ==
  ASSUME Typed, \A s \in Socket : Remembered(s), [FeedNext]_feedVars, NEW s \in Socket
  PROVE  Remembered(s)'
<1>0. sub[s] \in Key \cup {NoKey}
  BY DEF Typed, FeedTypeOK
<1>1. CASE Changes \/ refreshSubscribersForCompany \/ \E l \in Hand : Read(l)
  BY <1>1, ChangesRemember, RefreshRemembers, ReadRemembers
<1>2. ASSUME NEW l \in Refresh, readAgain(l) PROVE Remembered(s)'
  <2>1. PICK g \in due :
          /\ due' = due \ {g}
          /\ Starts(l, IF feed = "orders" THEN "drop" ELSE "asked", g.key, g.to)
    BY <1>2 DEF readAgain
  <2>2. UNCHANGED <<tableVars, cached, pending, sub, owed>> /\ l \in Hand
    BY <1>2 DEF readAgain, registryVars, Hand
  <2>3. \A h \in due \ due' : h = g
    BY <2>1
  <2> QED BY <1>2, <2>1, <2>2, <2>3, StartsRemember
<1>3. ASSUME NEW l \in Visit, browse(l) PROVE Remembered(s)'
  <2>1. PICK k \in Key : Starts(l, "asked", k, {})
    BY <1>3 DEF browse
  <2>2. UNCHANGED <<tableVars, cached, due, pending, sub, owed>> /\ l \in Hand
    BY <1>3 DEF browse, registryVars, Hand
  <2>3. due \ due' = {}
    BY <2>2
  <2> QED BY <2>1, <2>2, <2>3, StartsRemember
<1>4. ASSUME NEW l \in Visit, NEW r \in Socket, handleSubscribe(r, l) PROVE Remembered(s)'
  <2>1. PICK k \in Key : sub' = [sub EXCEPT ![r] = k] /\ Starts(l, "asked", k, {r})
    BY <1>4 DEF handleSubscribe
  <2>2. UNCHANGED <<tableVars, cached, due, pending>> /\ l \in Hand /\ owed'[s] = IF s = r THEN 0 ELSE owed[s]
    BY <1>4 DEF handleSubscribe, Hand, Acquits
  <2>3. CASE s = r
    BY <2>2, <2>3 DEF Remembered
  <2>4. CASE s # r
    <3>1. sub'[s] = sub[s] /\ owed'[s] = owed[s]
      BY <2>1, <2>2, <2>4 DEF Typed, FeedTypeOK
    <3>2. \A o \in Refresh : load'[o] = load[o]
      <4>1. \A o \in Refresh : o # l /\ o \in Hand
        BY FeedAssumption DEF Hand
      <4> QED BY <2>1, <4>1 DEF Starts, Typed, FeedTypeOK
    <3> QED BY <2>2, <3>1, <3>2 DEF Remembered, Due, UnderWay, Brings, Fresh, tableVars
  <2> QED BY <2>3, <2>4
<1>5. CASE hashExpires
  BY <1>5 DEF hashExpires, Acquits, Remembered
<1>6. ASSUME NEW r \in Socket,
             \/ handleConnection(r) \/ handleUnsubscribe(r) \/ handleDisconnect(r)
             \/ removed(r) \/ removeFails(r) \/ reverseExpires(r)
      PROVE  Remembered(s)'
  <2>1. /\ UNCHANGED <<tableVars, cached, load, due, pending>>
        /\ owed'[s] # 0 => owed'[s] = owed[s] /\ sub'[s] = sub[s]
    BY <1>6 DEF handleConnection, handleUnsubscribe, handleDisconnect, removed, removeFails,
       reverseExpires, deletesBoth, Acquits, Typed, FeedTypeOK
  <2> QED BY <1>0, <2>1, SocketsRemember
<1>7. ASSUME NEW k \in Key, entryExpires(k) PROVE Remembered(s)'
  <2>1. /\ UNCHANGED <<tableVars, load, due, pending, owed, sub>>
        /\ \A h \in Key : cached'[h] = cached[h] \/ cached'[h] = 0
    BY <1>7 DEF entryExpires, registryVars, Typed, FeedTypeOK
  <2> QED BY <1>0, <2>1, SocketsRemember
<1>8. CASE UNCHANGED feedVars
  BY <1>0, <1>8, SocketsRemember DEF feedVars, registryVars
<1> QED BY <1>1, <1>2, <1>3, <1>4, <1>5, <1>6, <1>7, <1>8 DEF FeedNext, Hand

\* No commit is forgotten: as long as a socket is owed a list, a refresh is to come, or has
\* taken up its query, or reads it where it will find that version or a later one
\* (refreshSubscribersForCompany, handleTripUpdated). What EventReachesSubscriber adds is
\* that the refresh goes on.
THEOREM OwedIsUnderWay == FeedSpec => [](\A s \in Socket : owed[s] # 0 => UnderWay(s))
<1> DEFINE IInv == Typed /\ \A s \in Socket : Remembered(s)
           Cared == \A s \in Socket : owed[s] # 0 => UnderWay(s)
<1>1. FeedInit => IInv
  BY InitTyped DEF FeedInit, Remembered
<1>2. Typed /\ [FeedNext]_feedVars => Typed'
  BY ChangesTyped, RefreshTyped, ReadAgainTyped, ReadTyped, CacheTyped, SubscribeTyped,
     SocketsTyped, HashExpiresTyped, StutterTyped DEF FeedNext, Hand
<1>3. IInv /\ [FeedNext]_feedVars => IInv'
  BY <1>2, StepRemembers
<1>4. IInv => Cared
  BY DEF Remembered
<1> HIDE DEF IInv, Cared
<1>5. FeedSpec => []Cared
  BY <1>1, <1>3, <1>4, PTL DEF FeedSpec
<1> QED BY <1>5 DEF Cared

-----------------------------------------------------------------------------
(* Files: what a request has left to do *)

FilesOf(s) == {p \in Path : p[1] = s}

Replaces == {<<"upload", "refer", "sync">>, <<"refer", "sync">>, <<"sync">>}
ReplacesOwn == {<<"upload", "refer", "sync", "report">>, <<"refer", "sync", "report">>,
                <<"sync", "report">>, <<"report">>}
Redraws == {<<"upload", "tidy", "refer">>, <<"tidy", "refer">>, <<"refer">>}
Delivers == {<<"upload", "refer", "report">>, <<"refer", "report">>, <<"report">>}
Removes == {<<"erase", "tidy">>, <<"tidy">>}

\* The plans of the requests about a slot.
Plans(s) ==
  (IF s \in User THEN Replaces \cup Removes ELSE {})
  \cup (IF s \in Admin THEN ReplacesOwn \cup Removes ELSE {})
  \cup (IF s \in Logo THEN Redraws ELSE {}) \cup (IF s \in Proof THEN Delivers ELSE {})

Plan == Replaces \cup ReplacesOwn \cup Redraws \cup Delivers \cup Removes

\* Until a request sets the reference, and while it may still set it back.
Undecided(todo) == Head(todo) \in {"upload", "refer"} \/ todo = <<"tidy", "refer">>
Revocable(todo) == Head(todo) = "sync"

\* A step of a plan leaves a plan, or nothing.
GoesOn(s, todo) ==
  /\ todo # <<>>
  /\ Tail(todo) = <<>> \/ Tail(todo) \in Plans(s)
  /\ todo = <<"refer">> => s \in Logo
  /\ Revocable(todo) => s \notin Proof
  /\ Head(todo) \in {"upload", "refer", "sync"} => Tail(todo) # <<"tidy">>
  /\ Head(todo) = "upload" => /\ Tail(todo) # <<>> /\ Tail(todo) # <<"refer">>
                              /\ Undecided(Tail(todo)) /\ ~Revocable(Tail(todo))
                              /\ Head(Tail(todo)) # "upload"
  /\ Head(todo) = "refer" =>
       Tail(todo) = <<>> \/ (~Undecided(Tail(todo)) /\ Tail(todo) # <<"refer">>)
  /\ Head(todo) = "sync" =>
       Tail(todo) = <<>> \/ (~Undecided(Tail(todo)) /\ ~Revocable(Tail(todo)))
  /\ Head(todo) = "erase" => Tail(todo) = <<"tidy">> /\ s \notin Proof
  /\ Head(todo) = "tidy" =>
       /\ s \notin Proof
       /\ \/ todo = <<"tidy">> /\ Tail(todo) = <<>>
          \/ todo = <<"tidy", "refer">> /\ Tail(todo) = <<"refer">>
  /\ Head(todo) = "report" => Tail(todo) = <<>>

LEMMA PlanGoesOn == \A s \in Slot : \A todo \in Plans(s) : GoesOn(s, todo)
<1> SUFFICES ASSUME NEW s \in Slot, NEW todo \in Plans(s) PROVE GoesOn(s, todo)
  OBVIOUS
<1> USE FilesAssumption DEF GoesOn, Undecided, Revocable, Plans, Replaces, ReplacesOwn, Redraws, Delivers, Removes
<1>1. CASE todo = <<"upload", "refer", "sync">>
  <2>1. Head(todo) = "upload" /\ Tail(todo) = <<"refer", "sync">> /\ todo # <<>>
    BY <1>1
  <2>2. Head(<<"refer", "sync">>) = "refer" /\ <<"refer", "sync">> # <<>>
    OBVIOUS
  <2> QED BY <1>1, <2>1, <2>2
<1>2. CASE todo = <<"refer", "sync">>
  <2>1. Head(todo) = "refer" /\ Tail(todo) = <<"sync">> /\ todo # <<>>
    BY <1>2
  <2>2. Head(<<"sync">>) = "sync" /\ <<"sync">> # <<>>
    OBVIOUS
  <2> QED BY <1>2, <2>1, <2>2
<1>3. CASE todo = <<"sync">>
  <2>1. Head(todo) = "sync" /\ Tail(todo) = <<>> /\ todo # <<>>
    BY <1>3
  <2> QED BY <1>3, <2>1
<1>4. CASE todo = <<"upload", "refer", "sync", "report">>
  <2>1. Head(todo) = "upload" /\ Tail(todo) = <<"refer", "sync", "report">> /\ todo # <<>>
    BY <1>4
  <2>2. Head(<<"refer", "sync", "report">>) = "refer" /\ <<"refer", "sync", "report">> # <<>>
    OBVIOUS
  <2> QED BY <1>4, <2>1, <2>2
<1>5. CASE todo = <<"refer", "sync", "report">>
  <2>1. Head(todo) = "refer" /\ Tail(todo) = <<"sync", "report">> /\ todo # <<>>
    BY <1>5
  <2>2. Head(<<"sync", "report">>) = "sync" /\ <<"sync", "report">> # <<>>
    OBVIOUS
  <2> QED BY <1>5, <2>1, <2>2
<1>6. CASE todo = <<"sync", "report">>
  <2>1. Head(todo) = "sync" /\ Tail(todo) = <<"report">> /\ todo # <<>>
    BY <1>6
  <2>2. Head(<<"report">>) = "report" /\ <<"report">> # <<>>
    OBVIOUS
  <2> QED BY <1>6, <2>1, <2>2
<1>7. CASE todo = <<"report">>
  <2>1. Head(todo) = "report" /\ Tail(todo) = <<>> /\ todo # <<>>
    BY <1>7
  <2> QED BY <1>7, <2>1
<1>8. CASE todo = <<"upload", "tidy", "refer">>
  <2>1. Head(todo) = "upload" /\ Tail(todo) = <<"tidy", "refer">> /\ todo # <<>>
    BY <1>8
  <2>2. Head(<<"tidy", "refer">>) = "tidy" /\ <<"tidy", "refer">> # <<>>
    OBVIOUS
  <2> QED BY <1>8, <2>1, <2>2
<1>9. CASE todo = <<"tidy", "refer">>
  <2>1. Head(todo) = "tidy" /\ Tail(todo) = <<"refer">> /\ todo # <<>>
    BY <1>9
  <2>2. Head(<<"refer">>) = "refer" /\ <<"refer">> # <<>>
    OBVIOUS
  <2> QED BY <1>9, <2>1, <2>2
<1>10. CASE todo = <<"refer">>
  <2>1. Head(todo) = "refer" /\ Tail(todo) = <<>> /\ todo # <<>>
    BY <1>10
  <2> QED BY <1>10, <2>1
<1>11. CASE todo = <<"upload", "refer", "report">>
  <2>1. Head(todo) = "upload" /\ Tail(todo) = <<"refer", "report">> /\ todo # <<>>
    BY <1>11
  <2>2. Head(<<"refer", "report">>) = "refer" /\ <<"refer", "report">> # <<>>
    OBVIOUS
  <2> QED BY <1>11, <2>1, <2>2
<1>12. CASE todo = <<"refer", "report">>
  <2>1. Head(todo) = "refer" /\ Tail(todo) = <<"report">> /\ todo # <<>>
    BY <1>12
  <2>2. Head(<<"report">>) = "report" /\ <<"report">> # <<>>
    OBVIOUS
  <2> QED BY <1>12, <2>1, <2>2
<1>13. CASE todo = <<"erase", "tidy">>
  <2>1. Head(todo) = "erase" /\ Tail(todo) = <<"tidy">> /\ todo # <<>>
    BY <1>13
  <2>2. Head(<<"tidy">>) = "tidy" /\ <<"tidy">> # <<>>
    OBVIOUS
  <2> QED BY <1>13, <2>1, <2>2
<1>14. CASE todo = <<"tidy">>
  <2>1. Head(todo) = "tidy" /\ Tail(todo) = <<>> /\ todo # <<>>
    BY <1>14
  <2> QED BY <1>14, <2>1
<1> QED
  BY <1>1, <1>2, <1>3, <1>4, <1>5, <1>6, <1>7, <1>8, <1>9, <1>10, <1>11, <1>12, <1>13, <1>14

-----------------------------------------------------------------------------
(* Files: the inductive invariant *)

Work == [todo : Plan \cup {<<>>}, slot : SUBSET Slot, old : SUBSET Path, new : SUBSET Path]

FilesTyped ==
  /\ stored \subseteq Path
  /\ refers \in [Slot -> SUBSET Path]
  /\ owner \in [Slot -> {"live", "suspended", "gone"}]
  /\ request \in [Request -> Work]
  /\ deletion \in [Path -> 0..NoJob]
  /\ folder \in 0..NoJob
  /\ scan \in [Prefix -> [at : {"none", "listed", "failed"}, files : SUBSET Path]]
  /\ begun \in 0..MaxBegun
  /\ exposed \subseteq Slot

Works(r, s) == InHand(r) /\ request[r].slot = {s}

\* A slot refers to files of its own, and a request about it deals with those; a scan has
\* listed files under its prefix; who is gone refers to nothing, only administrators are
\* suspended, and a folder is deleted when the company is gone.
Owned ==
  /\ \A s \in Slot : refers[s] \subseteq FilesOf(s)
  /\ \A r \in Request : InHand(r) =>
       \E s \in Slot : /\ request[r].slot = {s}
                       /\ request[r].todo \in Plans(s)
                       /\ request[r].old \subseteq FilesOf(s)
                       /\ request[r].new \subseteq FilesOf(s)
  /\ \A x \in Prefix : \A p \in scan[x].files : p[1] \in Under(x)
  /\ \A s \in Slot : /\ owner[s] = "gone" => refers[s] = {}
                     /\ owner[s] = "suspended" => s \in Admin
  /\ folder # NoJob => \A s \in Slot \ Admin : owner[s] = "gone"

\* The names that have been drawn.
Drawn(p) == p[2] <= begun
NamesAreDrawn ==
  /\ \A p \in stored : Drawn(p)
  /\ \A p \in Path : deletion[p] # NoJob => Drawn(p)
  /\ \A x \in Prefix : \A p \in scan[x].files : Drawn(p)
  /\ \A s \in Slot : \A p \in refers[s] : Drawn(p)
  /\ \A r \in Request : InHand(r) =>
       (\A p \in request[r].old : Drawn(p)) /\ (\A p \in request[r].new : Drawn(p))

Unwanted(files) == \A p \in files : deletion[p] = NoJob
Safe(files) == \A p \in files : p \in stored /\ deletion[p] = NoJob

\* A request that is to set the reference has a file that nobody else knows, in the bucket
\* once it is uploaded; one that may set it back has kept the old file; and one that gives
\* up a file at last has removed its owner.
Ready(w, s) ==
  /\ Undecided(w.todo) =>
       /\ Unwanted(w.new)
       /\ s \notin Proof => w.new \cap refers[s] = {} /\ w.new \cap w.old = {}
       /\ owner[s] # "gone" => /\ refers[s] = w.old
                               /\ Head(w.todo) # "upload" => w.new \subseteq stored
  /\ Revocable(w.todo) /\ owner[s] # "gone" =>
       refers[s] = w.new /\ w.new \cap w.old = {} /\ Safe(w.old)
  /\ w.todo = <<"tidy">> => owner[s] = "gone"

\* At most one request is about the slot, a proof is not to be deleted, and the file the
\* slot refers to is safe, but for a logo that has been given up.
Kept(s) ==
  /\ \A r, q \in Request : Works(r, s) /\ Works(q, s) => r = q
  /\ s \in Proof => Unwanted(FilesOf(s))
  /\ \A r \in Request : Works(r, s) => Ready(request[r], s)
  /\ (\A r \in Request : Works(r, s) => request[r].todo # <<"refer">>) => Safe(refers[s])

Keeping == FilesTyped /\ Owned /\ NamesAreDrawn /\ \A s \in Slot \ exposed : Kept(s)

-----------------------------------------------------------------------------
\* Initially there are no files and no requests.
LEMMA FilesStart == FilesInit => Keeping
<1> SUFFICES ASSUME FilesInit PROVE Keeping
  OBVIOUS
<1>1. NoJob \in 0..NoJob /\ 0 \in 0..MaxBegun
  BY FilesAssumption DEF NoJob
<1>2. FilesTyped
  BY <1>1 DEF FilesInit, FilesTyped, NoRequest, Work, NotScanning
<1>3. \A r \in Request : ~InHand(r)
  BY DEF FilesInit, InHand, NoRequest
<1>4. Owned
  BY <1>3 DEF FilesInit, Owned, NotScanning
<1>5. NamesAreDrawn
  BY <1>3 DEF FilesInit, NamesAreDrawn, NotScanning
<1>6. \A s \in Slot : Kept(s)
  BY <1>3 DEF FilesInit, Kept, Works, Safe, Unwanted, FilesOf
<1> QED BY <1>2, <1>4, <1>5, <1>6 DEF Keeping

\* A step spares the files of a slot that are not to be deleted.
Spares(s) ==
  \A p \in FilesOf(s) : deletion[p] = NoJob =>
    deletion'[p] = NoJob /\ (owner[s] # "gone" /\ p \in stored => p \in stored')

\* The requests about a slot stay as they are, or some of them end that had not given it up.
Remain(s) ==
  \A r \in Request : /\ Works(r, s)' => Works(r, s) /\ request'[r] = request[r]
                     /\ Works(r, s) /\ request[r].todo = <<"refer">> => Works(r, s)' /\ request'[r] = request[r]

\* The reference stays, or the owner goes.
Refers(s) ==
  \/ refers'[s] = refers[s] /\ (owner'[s] = "gone" <=> owner[s] = "gone")
  \/ refers'[s] = {} /\ owner'[s] = "gone"

LEMMA Steady ==
  ASSUME Keeping, NEW s \in Slot, Kept(s), Spares(s), Remain(s), Refers(s)
  PROVE  Kept(s)'
<1>1. ASSUME NEW r \in Request, Works(r, s)' PROVE Ready(request[r], s)'
  <2>1. PICK w : w = request[r]
    OBVIOUS
  <2>2. Works(r, s) /\ request'[r] = w
    BY <1>1, <2>1 DEF Remain
  <2>3. w.old \subseteq FilesOf(s) /\ w.new \subseteq FilesOf(s) /\ Ready(w, s)
    BY <2>1, <2>2 DEF Keeping, Owned, Works, Kept
  <2>4. owner'[s] # "gone" => owner[s] # "gone" /\ refers'[s] = refers[s]
    BY DEF Refers
  <2>5. refers'[s] = refers[s] \/ refers'[s] = {}
    BY DEF Refers
  <2>6. Undecided(w.todo) =>
          /\ \A p \in w.new : deletion'[p] = NoJob
          /\ s \notin Proof => w.new \cap refers'[s] = {} /\ w.new \cap w.old = {}
          /\ owner'[s] # "gone" => /\ refers'[s] = w.old
                                   /\ Head(w.todo) # "upload" => w.new \subseteq stored'
    BY <2>3, <2>4, <2>5 DEF Ready, Unwanted, Spares
  <2>7. Revocable(w.todo) /\ owner'[s] # "gone" =>
          /\ refers'[s] = w.new /\ w.new \cap w.old = {}
          /\ \A p \in w.old : p \in stored' /\ deletion'[p] = NoJob
    BY <2>3, <2>4 DEF Ready, Safe, Spares
  <2>8. w.todo = <<"tidy">> => owner'[s] = "gone"
    BY <2>3 DEF Ready, Refers
  <2>9. Ready(w, s)'
    BY <2>6, <2>7, <2>8 DEF Ready, Unwanted, Safe
  <2> QED BY <2>2, <2>9 DEF Ready, Unwanted, Safe
<1>2. ASSUME \A r \in Request : Works(r, s)' => request'[r].todo # <<"refer">>
      PROVE  Safe(refers[s])'
  <2>1. \A r \in Request : Works(r, s) => request[r].todo # <<"refer">>
    BY <1>2 DEF Remain
  <2>2. Safe(refers[s]) /\ refers[s] \subseteq FilesOf(s)
    BY <2>1 DEF Kept, Keeping, Owned
  <2>3. CASE refers'[s] = {}
    BY <2>3 DEF Safe
  <2>4. CASE refers'[s] = refers[s] /\ owner[s] # "gone"
    BY <2>2, <2>4 DEF Safe, Spares
  <2>5. owner[s] = "gone" => refers[s] = {}
    BY DEF Keeping, Owned
  <2> QED BY <2>3, <2>4, <2>5 DEF Refers
<1>3. \A r, q \in Request : Works(r, s)' /\ Works(q, s)' => r = q
  BY DEF Kept, Remain
<1>4. s \in Proof => Unwanted(FilesOf(s))'
  BY DEF Kept, Spares, Unwanted, FilesOf
<1> QED BY <1>1, <1>2, <1>3, <1>4 DEF Kept

-----------------------------------------------------------------------------
(* Files: the queue, the company, the scans *)

\* What is asked for is tried at most Attempts times.
LEMMA WantedTyped ==
  ASSUME FilesTyped, NEW files, deletion' = Wanted(files)
  PROVE  /\ deletion' \in [Path -> 0..NoJob]
         /\ \A p \in Path : p \notin files => deletion'[p] = deletion[p]
  BY FilesAssumption DEF FilesTyped, Wanted, NoJob

\* A name that has been drawn stays drawn.
LEMMA DrawnStays == ASSUME FilesTyped, Counted PROVE \A p \in Path : Drawn(p) => Drawn(p)'
<1>1. \A p \in Path : p[2] \in Nat
  BY FilesAssumption DEF Path
<1>2. begun \in Nat /\ begun' = begun + 1
  BY FilesAssumption DEF FilesTyped, Counted
<1> QED BY <1>1, <1>2 DEF Drawn

LEMMA DeleteKeeps == ASSUME Keeping, NEW p \in Path, handleDelete(p) PROVE Keeping'
<1>1. /\ deletion[p] # NoJob
      /\ deletion' \in [Path -> 0..NoJob]
      /\ \A q \in Path : q # p => deletion'[q] = deletion[q]
      /\ stored' \subseteq stored /\ stored \subseteq stored' \cup {p}
  BY FilesAssumption DEF Keeping, FilesTyped, handleDelete, Waits, NoJob
<1>2. UNCHANGED <<refers, owner, request, folder, scan, begun, exposed>>
  BY DEF handleDelete
<1>3. FilesTyped'
  BY <1>1, <1>2 DEF Keeping, FilesTyped
<1>4. Owned'
  BY <1>2 DEF Keeping, Owned, InHand
<1>5. NamesAreDrawn'
  BY <1>1, <1>2 DEF Keeping, NamesAreDrawn, Drawn, InHand
<1>6. ASSUME NEW s \in Slot \ exposed PROVE Kept(s)'
  <2>1. Kept(s)
    BY DEF Keeping
  <2>2. Spares(s)
    BY <1>1 DEF Spares, FilesOf
  <2>3. Remain(s) /\ Refers(s)
    BY <1>2 DEF Remain, Refers, Works, InHand
  <2> QED BY <2>1, <2>2, <2>3, Steady
<1> QED BY <1>2, <1>3, <1>4, <1>5, <1>6 DEF Keeping

LEMMA DeleteFolderKeeps == ASSUME Keeping, handleDeleteFolder PROVE Keeping'
<1>1. /\ folder # NoJob /\ folder' \in 0..NoJob
      /\ stored' \subseteq stored /\ \A p \in stored \ stored' : p[1] \notin Admin
  BY FilesAssumption DEF Keeping, FilesTyped, handleDeleteFolder, NoJob
<1>2. UNCHANGED <<refers, owner, request, deletion, scan, begun, exposed>>
  BY DEF handleDeleteFolder
<1>3. FilesTyped'
  BY <1>1, <1>2 DEF Keeping, FilesTyped
<1>4. \A s \in Slot \ Admin : owner[s] = "gone"
  BY <1>1 DEF Keeping, Owned
<1>5. Owned'
  BY <1>2, <1>4 DEF Keeping, Owned, InHand
<1>6. NamesAreDrawn'
  BY <1>1, <1>2 DEF Keeping, NamesAreDrawn, Drawn, InHand
<1>7. ASSUME NEW s \in Slot \ exposed PROVE Kept(s)'
  <2>1. Kept(s)
    BY DEF Keeping
  <2>2. Spares(s)
    BY <1>1, <1>2, <1>4 DEF Spares, FilesOf
  <2>3. Remain(s) /\ Refers(s)
    BY <1>2 DEF Remain, Refers, Works, InHand
  <2> QED BY <2>1, <2>2, <2>3, Steady
<1> QED BY <1>2, <1>3, <1>5, <1>6, <1>7 DEF Keeping

LEMMA SetActiveKeeps == ASSUME Keeping, NEW s \in Slot, setActive(s) PROVE Keeping'
<1>1. /\ s \in Admin
      /\ owner' \in [Slot -> {"live", "suspended", "gone"}]
      /\ \A t \in Slot : /\ owner'[t] = "gone" <=> owner[t] = "gone"
                         /\ owner'[t] = "suspended" => t \in Admin
      /\ begun' \in 0..MaxBegun
  BY FilesAssumption DEF Keeping, FilesTyped, Owned, setActive, Counted
<1>2. UNCHANGED <<stored, refers, request, deletion, folder, scan, exposed>>
  BY DEF setActive
<1>3. FilesTyped'
  BY <1>1, <1>2 DEF Keeping, FilesTyped
<1>4. Owned'
  BY <1>1, <1>2 DEF Keeping, Owned, InHand
<1>5. NamesAreDrawn'
  <2>1. \A p \in Path : Drawn(p) => Drawn(p)'
    BY DrawnStays DEF Keeping, setActive
  <2> QED BY <1>2, <2>1 DEF Keeping, NamesAreDrawn, InHand, FilesTyped, Work
<1>6. ASSUME NEW t \in Slot \ exposed PROVE Kept(t)'
  <2>1. Kept(t)
    BY DEF Keeping
  <2>2. Spares(t)
    BY <1>2 DEF Spares
  <2>3. Remain(t) /\ Refers(t)
    BY <1>1, <1>2 DEF Remain, Refers, Works, InHand
  <2> QED BY <2>1, <2>2, <2>3, Steady
<1> QED BY <1>2, <1>3, <1>4, <1>5, <1>6 DEF Keeping

LEMMA DeleteCompanyKeeps == ASSUME Keeping, deleteCompany PROVE Keeping'
<1>1. /\ owner' \in [Slot -> {"live", "suspended", "gone"}]
      /\ refers' \in [Slot -> SUBSET Path]
      /\ folder' \in 0..NoJob /\ begun' \in 0..MaxBegun
      /\ \A t \in Slot \ Admin : owner'[t] = "gone" /\ refers'[t] = {}
      /\ \A t \in Admin : owner'[t] = owner[t] /\ refers'[t] = refers[t]
  BY FilesAssumption DEF Keeping, FilesTyped, deleteCompany, Counted, NoJob, Slot
<1>2. UNCHANGED <<stored, request, deletion, scan, exposed>>
  BY DEF deleteCompany
<1>3. FilesTyped'
  BY <1>1, <1>2 DEF Keeping, FilesTyped
<1>4. Owned'
  BY <1>1, <1>2 DEF Keeping, Owned, InHand
<1>5. NamesAreDrawn'
  <2>1. \A p \in Path : Drawn(p) => Drawn(p)'
    BY DrawnStays DEF Keeping, deleteCompany
  <2>2. \A t \in Slot : refers'[t] \subseteq refers[t]
    BY <1>1
  <2> QED BY <1>2, <2>1, <2>2 DEF Keeping, NamesAreDrawn, InHand, FilesTyped, Work
<1>6. ASSUME NEW t \in Slot \ exposed PROVE Kept(t)'
  <2>1. Kept(t)
    BY DEF Keeping
  <2>2. Spares(t) /\ Remain(t)
    BY <1>2 DEF Spares, Remain, Works, InHand
  <2>3. Refers(t)
    BY <1>1 DEF Refers
  <2> QED BY <2>1, <2>2, <2>3, Steady
<1> QED BY <1>2, <1>3, <1>4, <1>5, <1>6 DEF Keeping

\* A scan that has listed files, or has failed.
LEMMA ListingKeeps ==
  ASSUME Keeping, NEW x \in Prefix, listFiles(x) \/ scanFails(x)
  PROVE  Keeping'
<1>1. UNCHANGED <<stored, refers, owner, request, deletion, folder, begun, exposed>>
  BY DEF listFiles, scanFails
<1>2. StoredUnder(x) \subseteq stored /\ \A p \in StoredUnder(x) : p[1] \in Under(x)
  BY DEF StoredUnder
<1>3. /\ scan' \in [Prefix -> [at : {"none", "listed", "failed"}, files : SUBSET Path]]
      /\ scan'[x].files \subseteq StoredUnder(x)
      /\ \A y \in Prefix \ {x} : scan'[y] = scan[y]
  BY <1>2 DEF Keeping, FilesTyped, listFiles, scanFails
<1>4. FilesTyped'
  BY <1>1, <1>3 DEF Keeping, FilesTyped
<1>5. Owned'
  BY <1>1, <1>2, <1>3 DEF Keeping, Owned, InHand, Under
<1>6. NamesAreDrawn'
  BY <1>1, <1>2, <1>3 DEF Keeping, NamesAreDrawn, Drawn, InHand
<1>7. ASSUME NEW s \in Slot \ exposed PROVE Kept(s)'
  <2>1. Kept(s)
    BY DEF Keeping
  <2>2. Spares(s) /\ Remain(s) /\ Refers(s)
    BY <1>1 DEF Spares, Remain, Refers, Works, InHand
  <2> QED BY <2>1, <2>2, Steady
<1> QED BY <1>1, <1>4, <1>5, <1>6, <1>7 DEF Keeping

\* A scan asks for the deletion of no file that an unexposed slot refers to, or that a
\* request about it has.
LEMMA ScanKeeps == ASSUME Keeping, NEW x \in Prefix, findOrphanedFiles(x) PROVE Keeping'
<1>1. UNCHANGED <<stored, refers, owner, request, folder, begun>>
  BY DEF findOrphanedFiles
<1>2. PICK silent \in SUBSET {s \in User \cup Admin : refers[s] \cap scan[x].files # {}} :
        LET orphans == scan[x].files \ referencedPaths(x, silent)
            suspended == {s \in Admin : owner[s] = "suspended"}
        IN /\ deletion' = Wanted(orphans)
           /\ exposed' = exposed \cup (Slots(orphans) \cap (silent \cup Busy \cup suspended \cup Proof))
  BY DEF findOrphanedFiles
<1> DEFINE orphans == scan[x].files \ referencedPaths(x, silent)
           suspended == {s \in Admin : owner[s] = "suspended"}
<1>3. orphans \subseteq Path /\ \A p \in orphans : Drawn(p) /\ p[1] \in Under(x)
  BY DEF Keeping, FilesTyped, NamesAreDrawn, Owned
<1>4. /\ deletion' \in [Path -> 0..NoJob]
      /\ \A p \in Path : p \notin orphans => deletion'[p] = deletion[p]
  BY <1>2, WantedTyped DEF Keeping
<1>5. exposed' \subseteq Slot /\ exposed \subseteq exposed'
  <2>1. Slots(orphans) \subseteq Slot
    BY <1>3 DEF Slots, Under
  <2> QED BY <1>2, <2>1 DEF Keeping, FilesTyped
<1>6. /\ scan' \in [Prefix -> [at : {"none", "listed", "failed"}, files : SUBSET Path]]
      /\ \A y \in Prefix : scan'[y].files \subseteq scan[y].files
  BY DEF Keeping, FilesTyped, findOrphanedFiles, NotScanning
<1>7. FilesTyped'
  BY <1>1, <1>4, <1>5, <1>6 DEF Keeping, FilesTyped
<1>8. Owned'
  BY <1>1, <1>6 DEF Keeping, Owned, InHand, Under
<1>9. NamesAreDrawn'
  BY <1>1, <1>3, <1>4, <1>6 DEF Keeping, NamesAreDrawn, Drawn, InHand
<1>10. ASSUME NEW s \in Slot \ exposed' PROVE Kept(s)'
  <2>1. Kept(s)
    BY <1>5 DEF Keeping
  <2>2. CASE \A p \in orphans : p[1] # s
    <3>1. Spares(s)
      BY <1>1, <1>4, <2>2 DEF Spares, FilesOf
    <3>2. Remain(s) /\ Refers(s)
      BY <1>1 DEF Remain, Refers, Works, InHand
    <3> QED BY <2>1, <3>1, <3>2, Steady
  <2>3. CASE \E p \in orphans : p[1] = s
    <3>1. s \in Slots(orphans)
      BY <2>3 DEF Slots
    <3>2. s \notin silent \cup Busy \cup suspended \cup Proof
      BY <1>2, <3>1
    <3>3. s \in Under(x)
      BY <1>3, <2>3
    <3>4. refers[s] \cap orphans = {}
      <4>1. CASE owner[s] = "gone"
        BY <4>1 DEF Keeping, Owned
      <4>2. CASE owner[s] = "live"
        BY <3>2, <3>3, <4>2 DEF referencedPaths
      <4>3. owner[s] # "suspended"
        <5>1. s \in Admin \/ owner[s] # "suspended"
          BY DEF Keeping, Owned
        <5> QED BY <3>2, <5>1
      <4> QED BY <4>1, <4>2, <4>3 DEF Keeping, FilesTyped
    <3>5. \A r \in Request : ~Works(r, s)
      BY <3>2 DEF Busy, Works
    <3>6. \A r \in Request : ~Works(r, s)'
      BY <1>1, <3>5 DEF Works, InHand
    <3>7. Safe(refers[s])
      BY <2>1, <3>5 DEF Kept
    <3>8. Safe(refers[s])'
      BY <1>1, <1>4, <3>4, <3>7 DEF Safe, Keeping, FilesTyped
    <3> QED BY <3>2, <3>6, <3>8 DEF Kept
  <2> QED BY <2>2, <2>3
<1> QED BY <1>5, <1>7, <1>8, <1>9, <1>10 DEF Keeping

-----------------------------------------------------------------------------
(* Files: the requests *)

\* What a step of a request about a slot does: it leaves the request with w, stores no
\* file but the new one, changes no reference but the slot's, and asks for the deletion of
\* the old file or of the new one.
Advances(r, s, w) ==
  /\ w \in Work
  /\ w.todo # <<>> => /\ w.slot = {s} /\ w.todo \in Plans(s)
                      /\ w.old = request[r].old /\ w.new = request[r].new
  /\ request' = [request EXCEPT ![r] = w]
  /\ stored \subseteq stored' /\ stored' \subseteq stored \cup request[r].new
  /\ \A t \in Slot \ {s} : refers'[t] = refers[t] /\ owner'[t] = owner[t]
  /\ refers'[s] \in {refers[s], request[r].old, request[r].new, {}}
  /\ owner'[s] \in {owner[s], "gone"} /\ (owner'[s] = "gone" => refers'[s] = {})
  /\ refers' \in [Slot -> SUBSET Path]
  /\ owner' \in [Slot -> {"live", "suspended", "gone"}]
  /\ deletion' = deletion \/ \E files \in {request[r].old, request[r].new} : deletion' = Wanted(files)
  /\ exposed \subseteq exposed' /\ exposed' \subseteq Slot
  /\ UNCHANGED <<folder, scan, begun>>

\* What it must leave, unless it exposes the slot.
Leaves(s, w) ==
  /\ s \in Proof => \A p \in FilesOf(s) : deletion'[p] = NoJob
  /\ w.todo # <<>> => Ready(w, s)'
  /\ w.todo # <<"refer">> => \A p \in refers'[s] : p \in stored' /\ deletion'[p] = NoJob

LEMMA RequestKeeps ==
  ASSUME Keeping, NEW r \in Request, NEW s \in Slot, NEW w, Works(r, s), Advances(r, s, w),
         s \notin exposed' => Leaves(s, w)
  PROVE  Keeping'
<1>1. /\ request[r].old \subseteq FilesOf(s) /\ request[r].new \subseteq FilesOf(s)
      /\ \A p \in request[r].old \cup request[r].new : Drawn(p)
  BY DEF Keeping, Owned, NamesAreDrawn, Works
<1>2. /\ w \in Work
      /\ w.todo # <<>> => /\ w.slot = {s} /\ w.todo \in Plans(s)
                          /\ w.old = request[r].old /\ w.new = request[r].new
      /\ \A q \in Request : request'[q] = IF q = r THEN w ELSE request[q]
      /\ request' \in [Request -> Work]
  BY DEF Advances, Keeping, FilesTyped
<1>3. /\ deletion' \in [Path -> 0..NoJob]
      /\ \A p \in Path : p \notin request[r].old \cup request[r].new => deletion'[p] = deletion[p]
  <2>1. CASE deletion' = deletion
    BY <2>1 DEF Keeping, FilesTyped
  <2>2. ASSUME NEW files \in {request[r].old, request[r].new}, deletion' = Wanted(files)
        PROVE  <1>3!:
    BY <2>2, WantedTyped DEF Keeping
  <2> QED BY <2>1, <2>2 DEF Advances
<1>4. FilesTyped'
  <2>1. stored' \subseteq Path
    BY <1>1 DEF Keeping, FilesTyped, Advances, FilesOf
  <2> QED BY <1>2, <1>3, <2>1 DEF Keeping, FilesTyped, Advances
<1>5. refers'[s] \subseteq FilesOf(s) /\ \A p \in refers'[s] : Drawn(p)
  BY <1>1 DEF Keeping, Owned, NamesAreDrawn, Advances
<1>6. UNCHANGED <<folder, scan, begun>>
  BY DEF Advances
<1>7. Owned'
  <2>1. \A t \in Slot : refers'[t] \subseteq FilesOf(t)
    BY <1>5 DEF Keeping, Owned, Advances
  <2>2. \A t \in Slot : /\ owner'[t] = "gone" => refers'[t] = {}
                        /\ owner'[t] = "suspended" => t \in Admin
    BY DEF Keeping, Owned, Advances
  <2>3. folder' # NoJob => \A t \in Slot \ Admin : owner'[t] = "gone"
    BY <1>6 DEF Keeping, Owned, Advances
  <2>4. ASSUME NEW q \in Request, InHand(q)'
        PROVE  \E t \in Slot : /\ request'[q].slot = {t}
                               /\ request'[q].todo \in Plans(t)
                               /\ request'[q].old \subseteq FilesOf(t)
                               /\ request'[q].new \subseteq FilesOf(t)
    <3>1. CASE q = r
      BY <1>1, <1>2, <2>4, <3>1 DEF InHand
    <3>2. CASE q # r
      BY <1>2, <2>4, <3>2 DEF InHand, Keeping, Owned
    <3> QED BY <3>1, <3>2
  <2>5. \A x \in Prefix : \A p \in scan'[x].files : p[1] \in Under(x)
    BY <1>6 DEF Keeping, Owned
  <2> QED BY <2>1, <2>2, <2>3, <2>4, <2>5 DEF Owned
<1>8. NamesAreDrawn'
  <2>1. \A p : Drawn(p)' <=> Drawn(p)
    BY <1>6 DEF Drawn
  <2>2. \A p \in stored' : Drawn(p)
    BY <1>1 DEF Keeping, NamesAreDrawn, Advances
  <2>3. \A p \in Path : deletion'[p] # NoJob => Drawn(p)
    BY <1>1, <1>3 DEF Keeping, NamesAreDrawn
  <2>4. \A t \in Slot : \A p \in refers'[t] : Drawn(p)
    BY <1>5 DEF Keeping, NamesAreDrawn, Advances
  <2>5. \A q \in Request : InHand(q)' =>
          (\A p \in request'[q].old : Drawn(p)) /\ (\A p \in request'[q].new : Drawn(p))
    BY <1>1, <1>2 DEF Keeping, NamesAreDrawn, InHand
  <2>6. \A x \in Prefix : \A p \in scan'[x].files : Drawn(p)
    BY <1>6 DEF Keeping, NamesAreDrawn
  <2> QED BY <2>1, <2>2, <2>3, <2>4, <2>5, <2>6 DEF NamesAreDrawn
<1>9. ASSUME NEW t \in Slot \ exposed' PROVE Kept(t)'
  <2>1. Kept(t) /\ t \notin exposed
    BY <1>9 DEF Keeping, Advances
  <2>2. CASE t # s
    <3>1. Spares(t)
      BY <1>1, <1>3, <2>2 DEF Spares, FilesOf, Advances
    <3>2. Remain(t)
      BY <1>2, <2>2 DEF Remain, Works, InHand
    <3>3. Refers(t)
      BY <2>2 DEF Refers, Advances
    <3> QED BY <2>1, <3>1, <3>2, <3>3, Steady
  <2>3. CASE t = s
    <3>1. Leaves(s, w)
      BY <2>3
    <3>2. \A q \in Request : Works(q, s)' => q = r /\ w.todo # <<>>
      BY <1>2, <2>1, <2>3 DEF Kept, Works, InHand
    <3>3. \A q \in Request : Works(q, s)' => Ready(w, s)' /\ request'[q] = w
      BY <1>2, <3>1, <3>2 DEF Leaves
    <3>4. \A q \in Request : Works(q, s)' => Ready(request[q], s)'
      BY <3>3 DEF Ready, Unwanted, Safe
    <3>5. ASSUME \A q \in Request : Works(q, s)' => request'[q].todo # <<"refer">>
          PROVE  Safe(refers[s])'
      <4>1. w.todo = <<"refer">> => Works(r, s)'
        BY SMTT(60), <1>2 DEF Works, InHand
      <4>2. w.todo # <<"refer">>
        BY <1>2, <3>5, <4>1
      <4> QED BY <3>1, <4>2 DEF Leaves, Safe
    <3>6. s \in Proof => Unwanted(FilesOf(s))'
      BY <3>1 DEF Leaves, Unwanted, FilesOf
    <3> QED BY <2>3, <3>2, <3>4, <3>5, <3>6 DEF Kept
  <2> QED BY <2>2, <2>3
<1> QED BY <1>4, <1>7, <1>8, <1>9 DEF Keeping

\* A request in hand is about one slot, and follows a plan.
LEMMA InHandWorks ==
  ASSUME Keeping, NEW r \in Request, InHand(r)
  PROVE  \E s \in Slot : Works(r, s) /\ request[r].todo \in Plans(s) /\ GoesOn(s, request[r].todo)
  BY PlanGoesOn DEF Keeping, Owned, Works

\* The request after its step.
LEMMA NextWork ==
  ASSUME Keeping, NEW r \in Request, NEW s \in Slot, Works(r, s), GoesOn(s, request[r].todo)
  PROVE  \E w \in Work : /\ w.todo = Tail(request[r].todo)
                         /\ w.slot = {s} /\ w.old = request[r].old /\ w.new = request[r].new
                         /\ w.todo # <<>> => w.todo \in Plans(s)
                         /\ Next1(r) = [request EXCEPT ![r] = w]
<1> DEFINE w == [request[r] EXCEPT !.todo = Tail(@)]
<1>1. request[r] \in Work
  BY DEF Keeping, FilesTyped
<1>2. Tail(request[r].todo) = <<>> \/ Tail(request[r].todo) \in Plans(s)
  BY DEF GoesOn
<1>3. Tail(request[r].todo) \in Plan \cup {<<>>}
  BY <1>2 DEF Plans, Plan
<1>4. w \in Work /\ w.todo = Tail(request[r].todo)
  BY <1>1, <1>3 DEF Work
<1>5. w.slot = {s} /\ w.old = request[r].old /\ w.new = request[r].new
  BY <1>1 DEF Work, Works
<1>6. Next1(r) = [request EXCEPT ![r] = w]
  BY DEF Next1
<1> QED BY <1>2, <1>4, <1>5, <1>6

\* A request that has ended.
LEMMA EndedWork == NoRequest \in Work /\ NoRequest.todo = <<>>
  BY DEF NoRequest, Work

\* The new file is stored.
LEMMA UploadKeeps == ASSUME Keeping, NEW r \in Request, upload(r) PROVE Keeping'
<1>1. InHand(r) /\ Head(request[r].todo) = "upload"
  BY DEF upload, At
<1>2. PICK s \in Slot : Works(r, s) /\ request[r].todo \in Plans(s) /\ GoesOn(s, request[r].todo)
  BY <1>1, InHandWorks
<1>3. PICK w \in Work : /\ w.todo = Tail(request[r].todo)
                        /\ w.slot = {s} /\ w.old = request[r].old /\ w.new = request[r].new
                        /\ w.todo # <<>> => w.todo \in Plans(s)
                        /\ Next1(r) = [request EXCEPT ![r] = w]
  BY <1>2, NextWork
<1>4. /\ stored' = stored \cup w.new
      /\ UNCHANGED <<refers, owner, deletion, folder, scan, begun, faults, exposed>>
  BY <1>3 DEF upload
<1>5. Advances(r, s, w)
  BY <1>3, <1>4 DEF Advances, upload, Keeping, FilesTyped, Owned
<1>6. ASSUME s \notin exposed' PROVE Leaves(s, w)
  <2>1. Kept(s)
    BY <1>4, <1>6 DEF Keeping
  <2>2. Ready(request[r], s) /\ Undecided(request[r].todo)
    BY <1>1, <1>2, <2>1 DEF Kept, Undecided
  <2>3. request[r].todo # <<"refer">>
    BY <1>1
  <2>4. Safe(refers[s])
    BY <1>2, <2>1, <2>3 DEF Kept, Works
  <2>5. Undecided(w.todo) /\ ~Revocable(w.todo) /\ w.todo # <<"tidy">>
    BY <1>1, <1>2, <1>3 DEF GoesOn
  <2>6. Ready(w, s)'
    BY <1>3, <1>4, <2>2, <2>5 DEF Ready, Unwanted
  <2> QED BY <1>4, <2>1, <2>4, <2>6 DEF Leaves, Kept, Safe, Unwanted
<1> QED BY <1>2, <1>5, <1>6, RequestKeeps

\* The reference is set.
LEMMA ReferKeeps == ASSUME Keeping, NEW r \in Request, refer(r) PROVE Keeping'
<1>1. InHand(r) /\ Head(request[r].todo) = "refer"
  BY DEF refer, At
<1>2. PICK s \in Slot : Works(r, s) /\ request[r].todo \in Plans(s) /\ GoesOn(s, request[r].todo)
  BY <1>1, InHandWorks
<1>3. PICK w \in Work : /\ w.todo = Tail(request[r].todo)
                        /\ w.slot = {s} /\ w.old = request[r].old /\ w.new = request[r].new
                        /\ w.todo # <<>> => w.todo \in Plans(s)
                        /\ Next1(r) = [request EXCEPT ![r] = w]
  BY <1>2, NextWork
<1>4. /\ canRefer(s) /\ refers' = [refers EXCEPT ![s] = w.new]
      /\ UNCHANGED <<stored, owner, deletion, folder, scan, begun, faults, exposed>>
  BY <1>2, <1>3 DEF refer, Works
<1>5. refers' \in [Slot -> SUBSET Path] /\ refers'[s] = w.new
      /\ \A t \in Slot \ {s} : refers'[t] = refers[t]
  BY <1>3, <1>4 DEF Keeping, FilesTyped, Work
<1>6. owner[s] # "gone"
  BY <1>4 DEF canRefer
<1>7. Advances(r, s, w)
  BY <1>3, <1>4, <1>5, <1>6 DEF Advances, refer, Keeping, FilesTyped
<1>8. ASSUME s \notin exposed' PROVE Leaves(s, w)
  <2>1. Kept(s)
    BY <1>4, <1>8 DEF Keeping
  <2>2. Ready(request[r], s) /\ Undecided(request[r].todo)
    BY <1>1, <1>2, <2>1 DEF Kept, Undecided
  <2>3. \A p \in w.new : p \in stored /\ deletion[p] = NoJob
    BY <1>1, <1>3, <1>6, <2>2 DEF Ready, Unwanted
  <2>4. w.todo # <<>> => ~Undecided(w.todo) /\ w.todo # <<"refer">> /\ w.todo # <<"tidy">>
    BY <1>1, <1>2, <1>3 DEF GoesOn
  <2>5. ASSUME w.todo # <<>>, Revocable(w.todo)
        PROVE  w.new \cap w.old = {} /\ \A p \in w.old : p \in stored /\ deletion[p] = NoJob
    <3>1. s \notin Proof
      BY <1>3, <2>5, PlanGoesOn DEF GoesOn
    <3>2. w.new \cap w.old = {} /\ refers[s] = w.old
      BY <1>1, <1>3, <1>6, <2>2, <3>1 DEF Ready
    <3>3. request[r].todo # <<"refer">>
      <4>1. Tail(<<"refer">>) = <<>>
        OBVIOUS
      <4> QED BY <1>3, <2>5, <4>1
    <3>4. Safe(refers[s])
      BY <1>2, <2>1, <3>3 DEF Kept, Works
    <3> QED BY <3>2, <3>4 DEF Safe
  <2>6. w.todo # <<>> => Ready(w, s)'
    BY <1>4, <1>5, <2>4, <2>5 DEF Ready, Safe
  <2> QED BY <1>4, <1>5, <2>1, <2>3, <2>6 DEF Leaves, Kept, Unwanted
<1> QED BY <1>2, <1>7, <1>8, RequestKeeps

\* The old file is given up: nothing refers to it by now, or the logo's row is about to
\* refer to the new one.
LEMMA SyncKeeps == ASSUME Keeping, NEW r \in Request, sync(r) PROVE Keeping'
<1>1. InHand(r) /\ Head(request[r].todo) = "sync"
  BY DEF sync, At
<1>2. PICK s \in Slot : Works(r, s) /\ request[r].todo \in Plans(s) /\ GoesOn(s, request[r].todo)
  BY <1>1, InHandWorks
<1>3. PICK w \in Work : /\ w.todo = Tail(request[r].todo)
                        /\ w.slot = {s} /\ w.old = request[r].old /\ w.new = request[r].new
                        /\ w.todo # <<>> => w.todo \in Plans(s)
                        /\ Next1(r) = [request EXCEPT ![r] = w]
  BY <1>2, NextWork
<1>4. /\ deletion' = deletion \/ deletion' = Wanted(w.old)
      /\ UNCHANGED <<stored, refers, owner, folder, scan, begun, exposed>>
  BY <1>3 DEF sync, enqueueDelete
<1>5. Advances(r, s, w)
  BY <1>3, <1>4 DEF Advances, sync, Keeping, FilesTyped, Owned
<1>6. ASSUME s \notin exposed' PROVE Leaves(s, w)
  <2>1. Kept(s)
    BY <1>4, <1>6 DEF Keeping
  <2>2. Ready(request[r], s) /\ Revocable(request[r].todo)
    BY <1>1, <1>2, <2>1 DEF Kept, Revocable
  <2>3. s \notin Proof
    BY <1>2, <2>2 DEF GoesOn
  <2>4. request[r].todo # <<"refer">>
    BY <1>1
  <2>5. Safe(refers[s]) /\ refers[s] \subseteq Path
    BY <1>2, <2>1, <2>4 DEF Kept, Works, Keeping, FilesTyped
  <2>6. owner[s] # "gone" => refers[s] \cap w.old = {}
    BY <1>3, <2>2 DEF Ready
  <2>7. refers[s] \cap w.old = {}
    BY <2>6 DEF Keeping, Owned
  <2>8. \A p \in refers[s] : deletion'[p] = deletion[p]
    BY <1>4, <2>5, <2>7, WantedTyped DEF Keeping
  <2>9. w.todo # <<>> => ~Undecided(w.todo) /\ ~Revocable(w.todo) /\ w.todo # <<"tidy">>
    BY <1>1, <1>2, <1>3 DEF GoesOn
  <2> QED BY <1>4, <2>3, <2>5, <2>8, <2>9 DEF Leaves, Ready, Safe
<1> QED BY <1>2, <1>5, <1>6, RequestKeeps

LEMMA TidyKeeps == ASSUME Keeping, NEW r \in Request, tidy(r) PROVE Keeping'
<1>1. InHand(r) /\ Head(request[r].todo) = "tidy"
  BY DEF tidy, At
<1>2. PICK s \in Slot : Works(r, s) /\ request[r].todo \in Plans(s) /\ GoesOn(s, request[r].todo)
  BY <1>1, InHandWorks
<1>3. PICK w \in Work : /\ w.todo = Tail(request[r].todo)
                        /\ w.slot = {s} /\ w.old = request[r].old /\ w.new = request[r].new
                        /\ w.todo # <<>> => w.todo \in Plans(s)
                        /\ Next1(r) = [request EXCEPT ![r] = w]
  BY <1>2, NextWork
<1>4. /\ deletion' = deletion \/ deletion' = Wanted(w.old)
      /\ UNCHANGED <<stored, refers, owner, folder, scan, begun, exposed>>
  BY <1>3 DEF tidy, enqueueDelete
<1>5. Advances(r, s, w)
  BY <1>3, <1>4 DEF Advances, tidy, Keeping, FilesTyped, Owned
<1>6. ASSUME s \notin exposed' PROVE Leaves(s, w)
  <2>1. Kept(s) /\ s \notin Proof
    BY <1>1, <1>2, <1>4, <1>6 DEF Keeping, GoesOn
  <2>2. CASE request[r].todo = <<"tidy", "refer">> /\ w.todo = <<"refer">>
    <3>1. Ready(request[r], s) /\ Undecided(request[r].todo)
      BY <1>2, <2>1, <2>2 DEF Kept, Undecided
    <3>2. \A p \in w.new : deletion'[p] = NoJob
      <4>1. w.new \subseteq Path /\ w.new \cap w.old = {} /\ \A p \in w.new : deletion[p] = NoJob
        BY <1>3, <2>1, <3>1 DEF Ready, Unwanted, Work
      <4> QED BY <1>4, <4>1, WantedTyped DEF Keeping
    <3>3. /\ w.new \cap refers[s] = {} /\ w.new \cap w.old = {}
          /\ owner[s] # "gone" => refers[s] = w.old /\ w.new \subseteq stored
      BY <1>1, <1>3, <2>1, <3>1 DEF Ready
    <3>4. Head(<<"refer">>) = "refer"
      OBVIOUS
    <3>5. <<"refer">> # <<"tidy">>
      OBVIOUS
    <3> QED BY <1>4, <2>1, <2>2, <3>2, <3>3, <3>4, <3>5 DEF Leaves, Ready, Unwanted, Revocable
  <2>3. CASE request[r].todo = <<"tidy">> /\ w.todo = <<>>
    <3>1. owner[s] = "gone"
      BY <1>2, <2>1, <2>3 DEF Kept, Ready
    <3>2. refers'[s] = {}
      BY <1>4, <3>1 DEF Keeping, Owned
    <3> QED BY <2>1, <2>3, <3>2 DEF Leaves
  <2> QED BY <1>1, <1>2, <1>3, <2>2, <2>3 DEF GoesOn
<1> QED BY <1>2, <1>5, <1>6, RequestKeeps

LEMMA ReportKeeps == ASSUME Keeping, NEW r \in Request, report(r) PROVE Keeping'
<1>1. InHand(r) /\ Head(request[r].todo) = "report"
  BY DEF report, At
<1>2. PICK s \in Slot : Works(r, s) /\ request[r].todo \in Plans(s) /\ GoesOn(s, request[r].todo)
  BY <1>1, InHandWorks
<1>3. PICK w \in Work : /\ w.todo = Tail(request[r].todo)
                        /\ w.slot = {s} /\ w.old = request[r].old /\ w.new = request[r].new
                        /\ w.todo # <<>> => w.todo \in Plans(s)
                        /\ Next1(r) = [request EXCEPT ![r] = w]
  BY <1>2, NextWork
<1>4. UNCHANGED <<stored, refers, owner, deletion, folder, scan, begun, exposed>>
  BY DEF report
<1>5. Advances(r, s, w)
  BY <1>3, <1>4 DEF Advances, report, Keeping, FilesTyped, Owned
<1>6. ASSUME s \notin exposed' PROVE Leaves(s, w)
  <2>1. Kept(s)
    BY <1>4, <1>6 DEF Keeping
  <2>2. request[r].todo # <<"refer">> /\ w.todo = <<>>
    BY <1>1, <1>2, <1>3 DEF GoesOn
  <2>3. Safe(refers[s])
    BY <1>2, <2>1, <2>2 DEF Kept, Works
  <2> QED BY <1>4, <2>1, <2>2, <2>3 DEF Leaves, Kept, Safe, Unwanted
<1> QED BY <1>2, <1>5, <1>6, RequestKeeps

\* The owner is removed.
LEMMA EraseKeeps == ASSUME Keeping, NEW r \in Request, erase(r) PROVE Keeping'
<1>1. InHand(r) /\ Head(request[r].todo) = "erase"
  BY DEF erase, At
<1>2. PICK s \in Slot : Works(r, s) /\ request[r].todo \in Plans(s) /\ GoesOn(s, request[r].todo)
  BY <1>1, InHandWorks
<1>3. PICK w \in Work : /\ w.todo = Tail(request[r].todo)
                        /\ w.slot = {s} /\ w.old = request[r].old /\ w.new = request[r].new
                        /\ w.todo # <<>> => w.todo \in Plans(s)
                        /\ Next1(r) = [request EXCEPT ![r] = w]
  BY <1>2, NextWork
<1>4. /\ owner' = [owner EXCEPT ![s] = "gone"] /\ refers' = [refers EXCEPT ![s] = {}]
      /\ UNCHANGED <<stored, deletion, folder, scan, begun, faults, exposed>>
  BY <1>2 DEF erase, Works
<1>5. /\ refers' \in [Slot -> SUBSET Path] /\ refers'[s] = {}
      /\ owner' \in [Slot -> {"live", "suspended", "gone"}] /\ owner'[s] = "gone"
      /\ \A t \in Slot \ {s} : refers'[t] = refers[t] /\ owner'[t] = owner[t]
  BY <1>4 DEF Keeping, FilesTyped
<1>6. Advances(r, s, w)
  BY <1>3, <1>4, <1>5 DEF Advances, erase, Keeping, FilesTyped
<1>7. ASSUME s \notin exposed' PROVE Leaves(s, w)
  <2>1. s \notin Proof /\ w.todo = <<"tidy">>
    BY <1>1, <1>2, <1>3 DEF GoesOn
  <2>2. ~Undecided(<<"tidy">>) /\ ~Revocable(<<"tidy">>)
    BY DEF Undecided, Revocable
  <2> QED BY <1>5, <2>1, <2>2 DEF Leaves, Ready
<1> QED BY <1>2, <1>6, <1>7, RequestKeeps

\* What the catch of a handler leaves: the new file is to be deleted, and the slot does not
\* refer to it.
LEMMA CatchKeeps ==
  ASSUME Keeping, NEW r \in Request, NEW s \in Slot, Works(r, s), catch(r),
         \A t \in Slot \ {s} : refers'[t] = refers[t],
         refers'[s] \in {refers[s], request[r].old}, owner[s] = "gone" => refers'[s] = refers[s],
         refers' \in [Slot -> SUBSET Path],
         exposed \subseteq exposed', exposed' \subseteq Slot,
         s \notin exposed' => /\ s \notin Proof /\ refers'[s] \cap request[r].new = {}
                              /\ Safe(refers'[s])
  PROVE  Keeping'
<1>1. /\ request' = [request EXCEPT ![r] = NoRequest]
      /\ deletion' = Wanted(request[r].new)
      /\ UNCHANGED <<stored, owner, folder, scan, begun>>
  BY DEF catch, Ends
<1>2. Advances(r, s, NoRequest)
  BY <1>1, EndedWork DEF Advances, Keeping, FilesTyped, Owned
<1>3. ASSUME s \notin exposed' PROVE Leaves(s, NoRequest)
  <2>1. \A p \in refers'[s] : deletion'[p] = deletion[p]
    BY <1>1, <1>3, WantedTyped DEF Keeping
  <2> QED BY <1>1, <1>3, <2>1, EndedWork DEF Leaves, Safe
<1> QED BY <1>2, <1>3, RequestKeeps

LEMMA UploadFailsKeeps == ASSUME Keeping, NEW r \in Request, uploadFails(r) PROVE Keeping'
<1>1. InHand(r) /\ Head(request[r].todo) = "upload" /\ catch(r)
  BY DEF uploadFails, At
<1>2. PICK s \in Slot : Works(r, s) /\ request[r].todo \in Plans(s) /\ GoesOn(s, request[r].todo)
  BY <1>1, InHandWorks
<1>3. refers' = refers /\ exposed' = exposed \cup ({s} \cap Proof)
  BY <1>2 DEF uploadFails, Works
<1>4. ASSUME s \notin exposed'
      PROVE  s \notin Proof /\ refers'[s] \cap request[r].new = {} /\ Safe(refers'[s])
  <2>1. Kept(s) /\ s \notin Proof
    BY <1>3, <1>4 DEF Keeping
  <2>2. Ready(request[r], s) /\ Undecided(request[r].todo) /\ request[r].todo # <<"refer">>
    BY <1>1, <1>2, <2>1 DEF Kept, Undecided
  <2>3. Safe(refers[s])
    BY <1>2, <2>1, <2>2 DEF Kept, Works
  <2> QED BY <1>3, <2>1, <2>2, <2>3 DEF Ready
<1> QED BY <1>1, <1>2, <1>3, <1>4, CatchKeeps DEF Keeping, FilesTyped

LEMMA ReferFailsKeeps == ASSUME Keeping, NEW r \in Request, referFails(r) PROVE Keeping'
<1>1. InHand(r) /\ Head(request[r].todo) = "refer" /\ catch(r)
  BY DEF referFails, At
<1>2. PICK s \in Slot : Works(r, s) /\ request[r].todo \in Plans(s) /\ GoesOn(s, request[r].todo)
  BY <1>1, InHandWorks
<1>3. refers' = refers /\ exposed' = exposed \cup ({s} \cap (Logo \cup Proof))
  BY <1>2 DEF referFails, Works
<1>4. ASSUME s \notin exposed'
      PROVE  s \notin Proof /\ refers'[s] \cap request[r].new = {} /\ Safe(refers'[s])
  <2>1. Kept(s) /\ s \notin Proof /\ s \notin Logo
    BY <1>3, <1>4 DEF Keeping
  <2>2. Ready(request[r], s) /\ Undecided(request[r].todo) /\ request[r].todo # <<"refer">>
    BY <1>1, <1>2, <2>1 DEF Kept, Undecided, GoesOn
  <2>3. Safe(refers[s])
    BY <1>2, <2>1, <2>2 DEF Kept, Works
  <2> QED BY <1>3, <2>1, <2>2, <2>3 DEF Ready
<1> QED BY <1>1, <1>2, <1>3, <1>4, CatchKeeps DEF Keeping, FilesTyped

LEMMA SyncFailsKeeps == ASSUME Keeping, NEW r \in Request, syncFails(r) PROVE Keeping'
<1>1. InHand(r) /\ Head(request[r].todo) = "sync" /\ catch(r)
  BY DEF syncFails, At
<1>2. PICK s \in Slot : Works(r, s) /\ request[r].todo \in Plans(s) /\ GoesOn(s, request[r].todo)
  BY <1>1, InHandWorks
<1>3. \/ /\ owner[s] # "gone"
         /\ refers' = [refers EXCEPT ![s] = request[r].old]
         /\ exposed' = exposed
      \/ refers' = refers /\ exposed' = exposed \cup {s}
  BY <1>2 DEF syncFails, Works
<1>4. request[r].old \subseteq Path
  BY DEF Keeping, FilesTyped, Work
<1>5. CASE /\ owner[s] # "gone"
           /\ refers' = [refers EXCEPT ![s] = request[r].old]
           /\ exposed' = exposed
  <2>1. /\ refers' \in [Slot -> SUBSET Path] /\ refers'[s] = request[r].old
        /\ \A t \in Slot \ {s} : refers'[t] = refers[t]
    BY <1>4, <1>5 DEF Keeping, FilesTyped
  <2>2. ASSUME s \notin exposed'
        PROVE  s \notin Proof /\ refers'[s] \cap request[r].new = {} /\ Safe(refers'[s])
    <3>1. Ready(request[r], s) /\ Revocable(request[r].todo)
      BY <1>1, <1>2, <1>5, <2>2 DEF Keeping, Kept, Revocable
    <3> QED BY <1>2, <1>5, <2>1, <3>1 DEF Ready, GoesOn
  <2> QED BY <1>1, <1>2, <1>5, <2>1, <2>2, CatchKeeps DEF Keeping, FilesTyped
<1>6. CASE refers' = refers /\ exposed' = exposed \cup {s}
  BY <1>1, <1>2, <1>6, CatchKeeps DEF Keeping, FilesTyped
<1> QED BY <1>3, <1>5, <1>6

LEMMA ReportFailsKeeps == ASSUME Keeping, NEW r \in Request, reportFails(r) PROVE Keeping'
<1>1. InHand(r) /\ catch(r) /\ refers' = refers /\ exposed' = exposed \cup request[r].slot
  BY DEF reportFails, At
<1>2. PICK s \in Slot : Works(r, s)
  BY <1>1, InHandWorks
<1> QED BY <1>1, <1>2, CatchKeeps DEF Keeping, FilesTyped, Works

\* Only a logo's request has nothing left to do but to set the reference.
LEMMA NotGivenUp ==
  ASSUME Keeping, NEW s \in Slot \ GivenUp, NEW r \in Request, Works(r, s)
  PROVE  request[r].todo # <<"refer">>
<1> SUFFICES ASSUME request[r].todo = <<"refer">> PROVE FALSE
  OBVIOUS
<1>1. s \in Logo
  <2>1. PICK t \in Slot : Works(r, t) /\ GoesOn(t, request[r].todo)
    BY InHandWorks DEF Works
  <2> QED BY <2>1 DEF Works, GoesOn
<1>2. At(r, "refer")
  BY DEF At, Works
<1> QED BY <1>1, <1>2 DEF GivenUp, Works

\* The process dies: a logo that has been given up is exposed.
LEMMA DyingKeeps == ASSUME Keeping, dies PROVE Keeping'
<1>1. /\ request' = [r \in Request |-> NoRequest]
      /\ exposed' = exposed \cup GivenUp
      /\ UNCHANGED <<stored, refers, owner, deletion, folder, scan, begun>>
  BY DEF dies
<1>2. \A r \in Request : ~InHand(r)'
  BY <1>1, EndedWork DEF InHand
<1>3. FilesTyped'
  <2>1. GivenUp \subseteq Slot
    BY DEF GivenUp, Keeping, FilesTyped, Work
  <2> QED BY <1>1, <2>1, EndedWork DEF Keeping, FilesTyped
<1>4. Owned'
  BY <1>1, <1>2 DEF Keeping, Owned
<1>5. NamesAreDrawn'
  BY <1>1, <1>2 DEF Keeping, NamesAreDrawn, Drawn
<1>6. ASSUME NEW s \in Slot \ exposed' PROVE Kept(s)'
  <2>1. Kept(s)
    BY <1>1 DEF Keeping
  <2>2. \A r \in Request : Works(r, s) => request[r].todo # <<"refer">>
    BY <1>1, NotGivenUp
  <2>3. Spares(s) /\ Refers(s)
    BY <1>1 DEF Spares, Refers
  <2>4. Remain(s)
    BY <1>2, <2>2 DEF Remain, Works
  <2> QED BY <2>1, <2>3, <2>4, Steady
<1> QED BY <1>3, <1>4, <1>5, <1>6 DEF Keeping

\* The name of an upload is new, except for a proof of delivery.
LEMMA NewName ==
  ASSUME Keeping, Counted, NEW s \in Slot
  PROVE  /\ uploadPath(s) \in FilesOf(s) /\ uploadPath(s)[2] <= begun'
         /\ s \notin Proof => ~Drawn(uploadPath(s))
<1>1. begun \in Nat /\ begun + 1 \in 1..MaxBegun /\ begun' = begun + 1
  BY FilesAssumption DEF Keeping, FilesTyped, Counted
<1>2. CASE s \in Proof
  <2>1. uploadPath(s) = <<s, 0>> /\ <<s, 0>> \in Path
    BY <1>2 DEF uploadPath, Path
  <2> QED BY <1>1, <1>2, <2>1 DEF FilesOf, Drawn
<1>3. CASE s \notin Proof
  <2>1. uploadPath(s) = <<s, begun + 1>> /\ <<s, begun + 1>> \in Path
    BY <1>1, <1>3 DEF uploadPath, Path
  <2> QED BY <1>1, <2>1 DEF FilesOf, Drawn
<1> QED BY <1>2, <1>3

\* A request begins, with a file of its own or to remove an owner.
LEMMA BeginKeeps ==
  ASSUME Keeping, NEW r \in Request, NEW s \in Slot, NEW steps \in Plans(s), NEW new,
         begin(r, s, steps, new),
         \/ Undecided(steps) /\ ~Revocable(steps) /\ steps # <<"tidy">> /\ steps # <<"refer">>
            /\ Head(steps) = "upload" /\ new = {uploadPath(s)}
         \/ steps = <<"erase", "tidy">> /\ new = {}
  PROVE  Keeping'
<1>0. PICK w : w = [todo |-> steps, slot |-> {s}, old |-> refers[s], new |-> new]
  OBVIOUS
<1>1. /\ ~InHand(r) /\ Counted
      /\ request' = [request EXCEPT ![r] = w]
      /\ exposed' = exposed \cup ({s} \cap Busy)
      /\ UNCHANGED <<stored, refers, owner, deletion, folder, scan, faults>>
  BY <1>0 DEF begin
<1>2. /\ new \subseteq FilesOf(s) /\ \A p \in new : Drawn(p)'
      /\ s \notin Proof => \A p \in new : ~Drawn(p)
  BY <1>1, NewName DEF Drawn
<1>3. refers[s] \subseteq FilesOf(s) /\ \A p \in refers[s] : Drawn(p)
  BY DEF Keeping, Owned, NamesAreDrawn
<1>4. w \in Work
  BY <1>0, <1>2, <1>3 DEF Work, Plans, Plan, FilesOf
<1>5. /\ request' \in [Request -> Work]
      /\ \A q \in Request : request'[q] = IF q = r THEN w ELSE request[q]
  BY <1>1, <1>4 DEF Keeping, FilesTyped
<1>6. w.todo = steps /\ w.slot = {s} /\ w.old = refers[s] /\ w.new = new
  BY <1>0
<1>7. \A p \in Path : Drawn(p) => Drawn(p)'
  BY <1>1, DrawnStays DEF Keeping
<1>8. FilesTyped'
  <2>1. begun' \in 0..MaxBegun
    BY <1>1, FilesAssumption DEF Keeping, FilesTyped, Counted
  <2> QED BY <1>1, <1>5, <2>1 DEF Keeping, FilesTyped
<1>9. Owned'
  <2>1. ASSUME NEW q \in Request, InHand(q)'
        PROVE  \E t \in Slot : /\ request'[q].slot = {t}
                               /\ request'[q].todo \in Plans(t)
                               /\ request'[q].old \subseteq FilesOf(t)
                               /\ request'[q].new \subseteq FilesOf(t)
    <3>1. CASE q = r
      BY <1>2, <1>3, <1>5, <1>6, <3>1
    <3>2. CASE q # r
      BY <1>5, <2>1, <3>2 DEF InHand, Keeping, Owned
    <3> QED BY <3>1, <3>2
  <2> QED BY <1>1, <2>1 DEF Keeping, Owned
<1>10. NamesAreDrawn'
  <2>1. ASSUME NEW q \in Request, InHand(q)'
        PROVE  (\A p \in request'[q].old : Drawn(p)') /\ (\A p \in request'[q].new : Drawn(p)')
    <3>1. CASE q = r
      BY <1>2, <1>3, <1>5, <1>6, <1>7, <3>1 DEF FilesOf
    <3>2. CASE q # r
      <4>1. request'[q] = request[q] /\ request[q] \in Work /\ InHand(q)
        BY <1>5, <2>1, <3>2 DEF InHand, Keeping, FilesTyped
      <4>2. request[q].old \subseteq Path /\ request[q].new \subseteq Path
        BY <4>1 DEF Work
      <4> QED BY <1>7, <4>1, <4>2 DEF Keeping, NamesAreDrawn
    <3> QED BY <3>1, <3>2
  <2>2. /\ \A p \in stored' : Drawn(p)'
        /\ \A p \in Path : deletion'[p] # NoJob => Drawn(p)'
        /\ \A x \in Prefix : \A p \in scan'[x].files : Drawn(p)'
        /\ \A t \in Slot : \A p \in refers'[t] : Drawn(p)'
    BY <1>1, <1>7 DEF Keeping, NamesAreDrawn, FilesTyped
  <2> QED BY <2>1, <2>2 DEF NamesAreDrawn
<1>11. ASSUME NEW t \in Slot \ exposed' PROVE Kept(t)'
  <2>1. Kept(t)
    BY <1>1, <1>11 DEF Keeping
  <2>2. CASE t # s
    <3>1. Spares(t) /\ Refers(t)
      BY <1>1 DEF Spares, Refers
    <3>2. Remain(t)
      BY <1>1, <1>5, <1>6, <2>2 DEF Remain, Works, InHand
    <3> QED BY <2>1, <3>1, <3>2, Steady
  <2>3. CASE t = s
    <3>1. \A q \in Request : ~Works(q, s)
      BY <1>1, <1>11, <2>3 DEF Busy, Works
    <3>2. \A q \in Request : Works(q, s)' => q = r
      BY <1>5, <3>1 DEF Works, InHand
    <3>3. Safe(refers[s])
      BY <2>1, <2>3, <3>1 DEF Kept
    <3>4. Unwanted(new)
      <4>1. CASE s \in Proof
        BY <1>2, <2>1, <2>3, <4>1 DEF Kept, Unwanted
      <4>2. CASE s \notin Proof
        BY <1>2, <4>2 DEF Keeping, NamesAreDrawn, Unwanted, FilesOf
      <4> QED BY <4>1, <4>2
    <3>5. s \notin Proof => new \cap refers[s] = {}
      BY <1>2, <1>3
    <3>6. Ready(w, s)'
      <4>1. CASE Undecided(steps) /\ ~Revocable(steps) /\ steps # <<"tidy">>
                 /\ Head(steps) = "upload"
        BY <1>1, <1>6, <3>4, <3>5, <4>1 DEF Ready, Unwanted
      <4>2. CASE steps = <<"erase", "tidy">>
        <5>1. Head(<<"erase", "tidy">>) = "erase"
          OBVIOUS
        <5>2. <<"erase", "tidy">> # <<"tidy">> /\ <<"erase", "tidy">> # <<"tidy", "refer">>
          OBVIOUS
        <5> QED BY <1>6, <4>2, <5>1, <5>2 DEF Ready, Undecided, Revocable
      <4> QED BY <4>1, <4>2
    <3>7. \A q \in Request : Works(q, s)' => Ready(request[q], s)'
      <4>1. request'[r] = w
        BY <1>5
      <4> QED BY <3>2, <3>6, <4>1 DEF Ready, Unwanted, Safe
    <3>8. s \in Proof => Unwanted(FilesOf(s))'
      BY <1>1, <2>1, <2>3 DEF Kept, Unwanted, FilesOf
    <3>9. Safe(refers[s])'
      BY <1>1, <3>3 DEF Safe
    <3> QED BY <2>3, <3>2, <3>7, <3>8, <3>9 DEF Kept
  <2> QED BY <2>2, <2>3
<1> QED BY <1>1, <1>8, <1>9, <1>10, <1>11 DEF Keeping

\* The handlers' plans.
LEMMA StepsArePlans ==
  ASSUME NEW s \in Slot
  PROVE  /\ s \in User => Steps.user \in Plans(s)
         /\ s \in Admin => Steps.admin \in Plans(s)
         /\ s \in Logo => Steps.logo \in Plans(s)
         /\ s \in Proof => Steps.proof \in Plans(s)
         /\ s \in User \cup Admin => Steps.remove \in Plans(s)
         /\ Steps.remove = <<"erase", "tidy">>
         /\ \A steps \in {Steps.user, Steps.admin, Steps.logo, Steps.proof} :
              /\ Undecided(steps) /\ ~Revocable(steps) /\ steps # <<"tidy">> /\ steps # <<"refer">>
              /\ Head(steps) = "upload"
<1>1. /\ Steps.user = <<"upload", "refer", "sync">>
      /\ Steps.admin = <<"upload", "refer", "sync", "report">>
      /\ Steps.logo = <<"upload", "tidy", "refer">>
      /\ Steps.proof = <<"upload", "refer", "report">>
      /\ Steps.remove = <<"erase", "tidy">>
  BY DEF Steps
<1>2. Head(<<"upload", "refer", "sync">>) = "upload"
  OBVIOUS
<1>3. Head(<<"upload", "refer", "sync", "report">>) = "upload"
  OBVIOUS
<1>4. Head(<<"upload", "tidy", "refer">>) = "upload"
  OBVIOUS
<1>5. Head(<<"upload", "refer", "report">>) = "upload"
  OBVIOUS
<1>6. \A steps \in {Steps.user, Steps.admin, Steps.logo, Steps.proof} : Head(steps) = "upload"
  BY <1>1, <1>2, <1>3, <1>4, <1>5
<1>7. Head(<<"tidy">>) = "tidy" /\ Head(<<"refer">>) = "refer"
  OBVIOUS
<1>8. \A steps \in {Steps.user, Steps.admin, Steps.logo, Steps.proof} :
        Undecided(steps) /\ ~Revocable(steps) /\ steps # <<"tidy">> /\ steps # <<"refer">>
  BY <1>6, <1>7 DEF Undecided, Revocable
<1> QED
  BY <1>1, <1>6, <1>8 DEF Plans, Replaces, ReplacesOwn, Redraws, Delivers, Removes

LEMMA BeginsKeep == ASSUME Keeping, NEW r \in Request, Begin(r) PROVE Keeping'
<1>1. PICK s \in Slot : \/ updateUserProfile(r, s) \/ updateOwnProfile(r, s)
                        \/ updateCompany(r, s) \/ completeStop(r, s) \/ removeOwner(r, s)
  BY DEF Begin
<1>2. CASE updateUserProfile(r, s)
  BY <1>2, StepsArePlans, BeginKeeps DEF updateUserProfile
<1>3. CASE updateOwnProfile(r, s)
  BY <1>3, StepsArePlans, BeginKeeps DEF updateOwnProfile
<1>4. CASE updateCompany(r, s)
  BY <1>4, StepsArePlans, BeginKeeps DEF updateCompany
<1>5. CASE completeStop(r, s)
  BY <1>5, StepsArePlans, BeginKeeps DEF completeStop
<1>6. CASE removeOwner(r, s)
  BY <1>6, StepsArePlans, BeginKeeps DEF removeOwner
<1> QED BY <1>1, <1>2, <1>3, <1>4, <1>5, <1>6

LEMMA FilesStutter == Keeping /\ UNCHANGED filesVars => Keeping'
<1> SUFFICES ASSUME Keeping, UNCHANGED filesVars PROVE Keeping'
  OBVIOUS
<1>1. UNCHANGED <<stored, refers, owner, request, deletion, folder, scan, begun, faults, exposed>>
  BY DEF filesVars
<1>2. FilesTyped' /\ Owned' /\ NamesAreDrawn'
  BY <1>1 DEF Keeping, FilesTyped, Owned, NamesAreDrawn, Drawn, InHand
<1>3. ASSUME NEW s \in Slot \ exposed PROVE Kept(s)'
  <2>1. Kept(s)
    BY DEF Keeping
  <2>2. Spares(s) /\ Remain(s) /\ Refers(s)
    BY <1>1 DEF Spares, Remain, Refers, Works, InHand
  <2> QED BY <2>1, <2>2, Steady
<1> QED BY <1>1, <1>2, <1>3 DEF Keeping

LEMMA FilesStep == Keeping /\ [FilesNext]_filesVars => Keeping'
<1> SUFFICES ASSUME Keeping, FilesNext PROVE Keeping'
  BY FilesStutter
<1>1. ASSUME NEW r \in Request, Begin(r) PROVE Keeping'
  BY <1>1, BeginsKeep
<1>2. ASSUME NEW r \in Request, Continue(r) PROVE Keeping'
  BY <1>2, UploadKeeps, ReferKeeps, SyncKeeps, EraseKeeps, TidyKeeps, ReportKeeps DEF Continue
<1>3. ASSUME NEW r \in Request, Stops(r) PROVE Keeping'
  BY <1>3, UploadFailsKeeps, ReferFailsKeeps, SyncFailsKeeps, ReportFailsKeeps DEF Stops
<1>4. ASSUME NEW x \in Prefix, Reconcile(x) PROVE Keeping'
  BY <1>4, ListingKeeps, ScanKeeps DEF Reconcile
<1> QED
  BY <1>1, <1>2, <1>3, <1>4, DyingKeeps, SetActiveKeeps, DeleteCompanyKeeps, DeleteKeeps,
     DeleteFolderKeeps DEF FilesNext

\* Whatever the requests, the faults and the scans, the file that a slot refers to stays in
\* the bucket and no job is to delete it, unless the slot is exposed or its logo given up.
THEOREM FilesStay == FilesSpec => []FileInUseStays
<1>1. Keeping => FileInUseStays
  <2> SUFFICES ASSUME Keeping, NEW s \in Slot \ (exposed \cup GivenUp) PROVE Safe(refers[s])
    BY DEF FileInUseStays, Safe
  <2>1. Kept(s)
    BY DEF Keeping
  <2>2. ASSUME NEW r \in Request, Works(r, s), request[r].todo = <<"refer">> PROVE FALSE
    BY <2>2, NotGivenUp
  <2> QED BY <2>1, <2>2 DEF Kept
<1>2. FilesInit => Keeping
  BY FilesStart
<1>3. Keeping /\ [FilesNext]_filesVars => Keeping'
  BY FilesStep
<1> QED BY <1>1, <1>2, <1>3, PTL DEF FilesSpec
=============================================================================
