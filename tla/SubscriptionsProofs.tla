------------------------- MODULE SubscriptionsProofs -------------------------
(***************************************************************************)
(* What holds of the subscription row, for any number of webhooks: however *)
(* they are lost, repeated, reordered or overlap; as long as no two have   *)
(* the row in hand at once; and when they come in order and alone.         *)
(***************************************************************************)
EXTENDS Subscriptions, SequenceTheorems, FiniteSetTheorems, TLAPS

LEMMA Values ==
  /\ FreeRow \in Row
  /\ Idle \in Handling /\ Idle.step = "idle" /\ Idle.sub = FreeRow
  /\ NoJob \in Job /\ NoJob.step = "none" /\ NoJob.sub = FreeRow
<1> USE BoundAssumption
<1>1. FreeRow \in Row
  BY DEF FreeRow, Row, Plan
<1>2. Idle \in Handling /\ Idle.step = "idle" /\ Idle.sub = FreeRow
  BY <1>1 DEF Idle, Handling
<1>3. NoJob \in Job /\ NoJob.step = "none" /\ NoJob.sub = FreeRow
  BY <1>1 DEF NoJob, Job
<1>4. QED
  BY <1>1, <1>2, <1>3

\* What Paystack tells is added to what it has told.
LEMMA Telling ==
  ASSUME NEW c \in Code, NEW whats \in Seq(What), TypeOK, Tells(c, whats)
  PROVE  /\ events' \in Seq(Event) /\ Len(events') <= MaxEvents
         /\ \A i \in DOMAIN events : i \in DOMAIN events' /\ events'[i] = events[i]
         /\ \A i \in DOMAIN events' : i \notin DOMAIN events => events'[i].code = c
         /\ Len(events') = Len(events) + Len(whats)
         /\ \A i \in 1..Len(whats) : events'[Len(events) + i].what = whats[i]
<1> DEFINE new == [i \in DOMAIN whats |-> [what |-> whats[i], code |-> c]]
<1>1. new \in Seq(Event) /\ Len(new) = Len(whats)
  <2>1. DOMAIN whats = 1..Len(whats)
    OBVIOUS
  <2>2. \A i \in 1..Len(whats) : [what |-> whats[i], code |-> c] \in Event
    BY DEF Event
  <2>3. new \in [1..Len(whats) -> Event]
    BY <2>1, <2>2
  <2>4. QED
    BY <2>3
<1>2. events' = events \o new
  BY DEF Tells
<1>3. \A i \in DOMAIN new : new[i].code = c /\ new[i].what = whats[i]
  OBVIOUS
<1> HIDE DEF new
<1>4. events \in Seq(Event)
  BY DEF TypeOK
<1>5. events' \in Seq(Event) /\ Len(events') = Len(events) + Len(whats)
  <2>1. events \o new \in Seq(Event)
    BY <1>1, <1>4
  <2>2. Len(events \o new) = Len(events) + Len(new)
    BY <1>1, <1>4
  <2>3. QED
    BY <1>1, <1>2, <2>1, <2>2, Zenon
<1>6. /\ \A i \in 1..Len(events) : events'[i] = events[i]
      /\ \A i \in 1..Len(events') : i > Len(events) =>
           events'[i] = new[i - Len(events)] /\ i - Len(events) \in 1..Len(new)
  BY <1>1, <1>2, <1>4, <1>5, ConcatProperties
<1>7. QED
  BY <1>1, <1>3, <1>4, <1>5, <1>6 DEF Tells

-----------------------------------------------------------------------------
(* A row, or an entity somebody has in hand, has the free plan or the one its *)
(* subscription pays for. Paystack tells of no subscription it does not have.  *)

Exists(c) == c \in Code /\ paystack[c].state # "none"

Paid(sub) == sub.plan # "free" => Exists(sub.code) /\ sub.plan = paystack[sub.code].plan

PlansArePaidFor ==
  /\ \A i \in DOMAIN events : Exists(events[i].code)
  /\ Paid(row)
  /\ \A h \in Handler : Paid(handling[h].sub)
  /\ \A p \in Period : Paid(job[p].sub)

\* Every handler leaves the entity so.
LEMMA HandledIsPaid ==
  ASSUME TypeOK, NEW sub \in Row, NEW e \in Event, Paid(sub), Exists(e.code)
  PROVE  Paid(handled(sub, e))
<1> USE DEF handled, Row, Paid
<1>1. CASE e.what = "charge.success"
  BY <1>1 DEF chargeSuccess
<1>2. CASE e.what = "subscription.create"
  BY <1>2 DEF subscriptionCreate
<1>3. CASE e.what = "subscription.not_renew"
  BY <1>3 DEF subscriptionNotRenew
<1>4. CASE e.what = "subscription.disable"
  BY <1>4 DEF subscriptionDisable
<1>5. CASE e.what = "invoice.update"
  BY <1>5 DEF invoiceUpdate
<1>6. CASE e.what = "invoice.payment_failed"
  BY <1>6 DEF markPastDue
<1>7. QED
  BY <1>1, <1>2, <1>3, <1>4, <1>5, <1>6 DEF Event, What

-----------------------------------------------------------------------------
(* Types *)

LEMMA HandledIsRow ==
  ASSUME TypeOK, NEW sub \in Row, NEW e \in Event
  PROVE  handled(sub, e) \in Row
<1> USE DEF handled, Row
<1>1. CASE e.what = "charge.success"
  BY <1>1 DEF chargeSuccess
<1>2. CASE e.what = "subscription.create"
  <2>1. paystack[e.code].plan \in Plan /\ 1 \in 0..MaxPeriod /\ e.code \in Code
    BY BoundAssumption DEF TypeOK, Subscription, Event
  <2>2. QED
    BY <1>2, <2>1 DEF subscriptionCreate
<1>3. CASE e.what = "subscription.not_renew"
  BY <1>3 DEF subscriptionNotRenew
<1>4. CASE e.what = "subscription.disable"
  BY <1>4 DEF subscriptionDisable, Plan
<1>5. CASE e.what = "invoice.update"
  BY <1>5 DEF invoiceUpdate
<1>6. CASE e.what = "invoice.payment_failed"
  BY <1>6 DEF markPastDue
<1>7. QED
  BY <1>1, <1>2, <1>3, <1>4, <1>5, <1>6 DEF Event, What

LEMMA Levels ==
  ASSUME NEW level \in {0, 1, calm}, NEW delivered, calmIs(level, delivered), TypeOK,
         delivered \subseteq 1..MaxEvents
  PROVE  calm' \in 0..2 /\ got' \subseteq 1..MaxEvents
BY DEF calmIs, TypeOK

LEMMA AtMostOne == TypeOK => AtMost(1) \in {0, 1, calm}
BY DEF AtMost, TypeOK

LEMMA Entities ==
  ASSUME NEW x \in Handling
  PROVE  /\ \A sub \in Row : [x EXCEPT !.step = "save", !.sub = sub] \in Handling
         /\ \A n \in 0..MaxPeriod : [x EXCEPT !.step = "save", !.sub.period = n] \in Handling
BY DEF Handling, Row

LEMMA Jobs ==
  /\ \A j \in Job : j.left > 0 => retried(j) \in Job
                                  /\ (retried(j).step = "find" => retried(j).left > 0)
                                  /\ retried(j).step \in {"find", "kept"}
                                  /\ retried(j).sub = FreeRow
  /\ [NoJob EXCEPT !.step = "find", !.left = ATTEMPTS] \in Job
  /\ [NoJob EXCEPT !.step = "kept"] \in Job
<1>1. NoJob = [step |-> "none", left |-> 0, sub |-> FreeRow] /\ FreeRow \in Row
  BY Values DEF NoJob
<1>2. ASSUME NEW n \in 0..ATTEMPTS
      PROVE  [NoJob EXCEPT !.step = "find", !.left = n] \in Job
  BY <1>1 DEF Job
<1>3. [NoJob EXCEPT !.step = "kept"] \in Job
  BY <1>1, BoundAssumption DEF Job
<1>4. ASSUME NEW j \in Job, j.left > 0
      PROVE  /\ retried(j) \in Job
             /\ retried(j).step = "find" => retried(j).left > 0
             /\ retried(j).step \in {"find", "kept"}
             /\ retried(j).sub = FreeRow
  <2>1. j.left \in Nat /\ j.left - 1 \in 0..ATTEMPTS
    BY <1>4, BoundAssumption DEF Job
  <2>2. CASE j.left > 1
    <3>1. retried(j) = [NoJob EXCEPT !.step = "find", !.left = j.left - 1]
      BY <2>2 DEF retried
    <3>2. retried(j) \in Job
      BY <2>1, <3>1, <1>2
    <3>3. retried(j).step = "find" /\ retried(j).left = j.left - 1 /\ retried(j).sub = FreeRow
      BY <1>1, <3>1
    <3>4. QED
      BY <2>1, <2>2, <3>2, <3>3
  <2>3. CASE ~(j.left > 1)
    BY <2>3, <1>1, <1>3 DEF retried
  <2>4. QED
    BY <2>2, <2>3
<1>5. QED
  <2>1. ATTEMPTS \in 0..ATTEMPTS
    BY BoundAssumption
  <2>2. QED
    BY <1>2, <1>3, <1>4, <2>1

\* Every variable keeps its type; a reminder job that runs has an attempt left.
THEOREM Typing == Spec => []TypeOK
<1>1. Init => TypeOK
  BY Values, BoundAssumption DEF Init, TypeOK, InHand, Subscription, Plan
<1>2. TypeOK /\ [Next]_vars => TypeOK'
  <2> SUFFICES ASSUME TypeOK, [Next]_vars PROVE TypeOK'
    OBVIOUS
  <2> USE DEF TypeOK
  <2>1. ASSUME NEW c \in Code, NEW whats \in Seq(What), Tells(c, whats), NEW theirs \in Subscription,
               paystack' = [paystack EXCEPT ![c] = theirs]
        PROVE  TypeOK'
    <3>1. events' \in Seq(Event) /\ Len(events') <= MaxEvents
      BY <2>1, Telling
    <3>2. paystack' \in [Code -> Subscription]
      BY <2>1
    <3>3. InHand'
      BY <2>1, Telling DEF Tells, InHand
    <3>4. QED
      BY <2>1, <3>1, <3>2, <3>3 DEF Tells, reminderVars, historyVars
  <2> HIDE DEF TypeOK
  <2>2. ASSUME NEW c \in Code, NEW plan \in PaidPlan, subscribes(c, plan) PROVE TypeOK'
    <3>1. [state |-> "active", plan |-> plan, period |-> 1] \in Subscription
      BY BoundAssumption DEF Subscription, Plan
    <3>2. <<"subscription.create">> \in Seq(What)
      BY DEF What
    <3>3. QED
      BY <2>1, <2>2, <3>1, <3>2 DEF subscribes
  <2>3. ASSUME NEW c \in Code, renews(c) \/ chargeFails(c) \/ cancels(c) \/ ends(c)
        PROVE  TypeOK'
    <3>1. paystack \in [Code -> Subscription] /\ paystack[c] \in Subscription
      BY DEF TypeOK
    <3>2. ASSUME NEW s \in {"attention", "non-renewing", "ended"}
          PROVE  /\ [paystack[c] EXCEPT !.state = s] \in Subscription
                 /\ [paystack EXCEPT ![c].state = s] =
                      [paystack EXCEPT ![c] = [paystack[c] EXCEPT !.state = s]]
      BY <3>1 DEF Subscription
    <3>3. CASE renews(c)
      <4>1. [paystack[c] EXCEPT !.state = "active", !.period = @ + 1] \in Subscription
        BY <3>1, <3>3, BoundAssumption DEF renews, Subscription
      <4>2. paystack' = [paystack EXCEPT ![c] =
                           [paystack[c] EXCEPT !.state = "active", !.period = @ + 1]]
        BY <3>1, <3>3 DEF renews
      <4>3. <<"charge.success", "invoice.update">> \in Seq(What)
        BY DEF What
      <4>4. QED
        BY <2>1, <3>3, <4>1, <4>2, <4>3 DEF renews
    <3>4. CASE chargeFails(c)
      <4>1. <<"invoice.payment_failed">> \in Seq(What)
        BY DEF What
      <4>2. QED
        BY <2>1, <3>2, <3>4, <4>1 DEF chargeFails
    <3>5. CASE cancels(c)
      <4>1. <<"subscription.not_renew">> \in Seq(What)
        BY DEF What
      <4>2. QED
        BY <2>1, <3>2, <3>5, <4>1 DEF cancels
    <3>6. CASE ends(c)
      <4>1. <<"subscription.disable">> \in Seq(What)
        BY DEF What
      <4>2. QED
        BY <2>1, <3>2, <3>6, <4>1 DEF ends
    <3>7. QED
      BY <2>3, <3>3, <3>4, <3>5, <3>6
  <2> USE DEF TypeOK
  <2>4. ASSUME NEW h \in Handler, NEW i \in 1..MaxEvents, handle(h, i) PROVE TypeOK'
    <3>1. calm' \in 0..2 /\ got' \subseteq 1..MaxEvents
      <4>1. got \cup {i} \subseteq 1..MaxEvents
        OBVIOUS
      <4>2. PICK level \in {0, AtMost(1), calm} : calmIs(level, got \cup {i})
        BY <2>4 DEF handle
      <4>3. QED
        BY <4>1, <4>2, AtMostOne, Levels
    <3>2. handling' \in [Handler -> Handling]
      <4>1. ASSUME NEW s \in {"fetch", "save"}
            PROVE  [event |-> i, sub |-> row, step |-> s] \in Handling
        BY BoundAssumption DEF Handling
      <4>2. QED
        BY <2>4, <4>1 DEF handle
    <3>3. InHand'
      BY <2>4 DEF handle, providerVars, InHand
    <3>4. QED
      BY <2>4, <3>1, <3>2, <3>3 DEF handle, providerVars, reminderVars
  <2>5. ASSUME NEW h \in Handler,
               findByCompany(h) \/ fetchSubscription(h) \/ save(h) \/ safeHandle(h)
        PROVE  TypeOK'
    <3>1. CASE findByCompany(h)
      <4>1. handling' = [handling EXCEPT ![h] = [@ EXCEPT !.step = "save", !.sub = row]]
        BY <3>1 DEF findByCompany
      <4>2. handling' \in [Handler -> Handling]
        BY <4>1, Entities, BoundAssumption
      <4>3. InHand'
        BY <3>1, <4>1 DEF findByCompany, providerVars, InHand, Handling
      <4>4. QED
        BY <3>1, <4>2, <4>3 DEF findByCompany, providerVars, reminderVars, historyVars
    <3>2. CASE fetchSubscription(h)
      <4>1. PICK n \in 0..MaxPeriod :
              handling' = [handling EXCEPT ![h] = [@ EXCEPT !.step = "save", !.sub.period = n]]
        <5>1. events[handling[h].event] \in Event
          BY <3>2 DEF fetchSubscription, InHand
        <5>2. events[handling[h].event].code \in Code
          BY <5>1 DEF Event
        <5>3. paystack[events[handling[h].event].code] \in Subscription
          BY <5>2 DEF TypeOK
        <5>4. paystack[events[handling[h].event].code].period \in 0..MaxPeriod
          BY <5>3 DEF Subscription
        <5>5. QED
          BY <3>2, <5>4 DEF fetchSubscription, Handling
      <4>2. handling' \in [Handler -> Handling]
        BY <4>1, Entities
      <4>3. InHand'
        BY <3>2, <4>1 DEF fetchSubscription, providerVars, InHand, Handling
      <4>4. QED
        BY <3>2, <4>2, <4>3 DEF fetchSubscription, providerVars, reminderVars, historyVars
    <3>3. CASE save(h)
      <4>1. handling[h].sub \in Row /\ events[handling[h].event] \in Event
        BY <3>3 DEF save, Handling, InHand
      <4>2. row' \in Row
        BY <3>3, <4>1, HandledIsRow DEF save
      <4>3. handling' \in [Handler -> Handling]
        BY <3>3, Values DEF save
      <4>4. InHand'
        BY <3>3, Values DEF save, providerVars, InHand
      <4>5. ended' \subseteq Code
        BY <3>3, <4>1 DEF save, Event
      <4>6. QED
        BY <3>3, <4>2, <4>3, <4>4, <4>5 DEF save, providerVars, reminderVars
    <3>4. CASE safeHandle(h)
      <4>1. calm' \in 0..2 /\ got' \subseteq 1..MaxEvents
        BY <3>4, AtMostOne, Levels DEF safeHandle
      <4>2. handling' \in [Handler -> Handling]
        BY <3>4, Values DEF safeHandle
      <4>3. InHand'
        BY <3>4, Values DEF safeHandle, providerVars, InHand
      <4>4. QED
        BY <3>4, <4>1, <4>2, <4>3 DEF safeHandle, providerVars, reminderVars
    <3>5. QED
      BY <2>5, <3>1, <3>2, <3>3, <3>4
  <2>6. ASSUME NEW i \in 1..MaxEvents, markExpires(i) PROVE TypeOK'
    BY <2>6 DEF markExpires, InHand, providerVars, reminderVars, historyVars
  <2>7. CASE sendExpirationReminders
    <3>1. job' \in [Period -> Job]
      BY <2>7, Jobs DEF sendExpirationReminders
    <3>2. QED
      BY <2>7, <3>1, Jobs, Values, BoundAssumption
         DEF sendExpirationReminders, InHand, providerVars, historyVars
  <2>8. CASE dayPasses
    <3>1. row' \in Row
      BY <2>8 DEF dayPasses, Row
    <3>2. QED
      BY <2>8, <3>1 DEF dayPasses, InHand, providerVars, historyVars
  <2>9. ASSUME NEW p \in Period,
               findSubscription(p) \/ sendTemplateEmail(p) \/ markReminderSent(p)
                 \/ setEmailSent(p) \/ jobFails(p)
        PROVE  TypeOK'
    <3>1. job[p] \in Job
      OBVIOUS
    <3>2. ASSUME NEW s \in {"send", "save", "mark"}, NEW sub \in Row, job[p].left > 0
          PROVE  /\ [job[p] EXCEPT !.step = s, !.sub = sub] \in Job
                 /\ [job[p] EXCEPT !.step = s, !.sub = sub].left > 0
                 /\ [job[p] EXCEPT !.step = s] \in Job
                 /\ [job[p] EXCEPT !.step = s].left > 0
      BY <3>1, <3>2 DEF Job
    <3>3. CASE findSubscription(p)
      <4>1. PICK level \in {0, calm} : calmIs(level, got)
        BY <3>3 DEF findSubscription
      <4>2. calm' \in 0..2 /\ got' \subseteq 1..MaxEvents
        BY <4>1, Levels
      <4>3. job' = [job EXCEPT ![p] = [@ EXCEPT !.step = "send", !.sub = row]]
            \/ job' = [job EXCEPT ![p] = [NoJob EXCEPT !.step = "kept"]]
        BY <3>3 DEF findSubscription
      <4>4. /\ job' \in [Period -> Job]
            /\ \A q \in Period : job'[q].step \notin {"none", "kept"} => job'[q].left > 0
        BY <3>2, <3>3, <4>3, Jobs, Values DEF findSubscription, NoJob
      <4>5. QED
        BY <3>3, <4>2, <4>4 DEF findSubscription, InHand, providerVars
    <3>4. CASE sendTemplateEmail(p)
      <4>1. \A n \in 0..2 : (IF n < 2 THEN n + 1 ELSE n) \in 0..2
        OBVIOUS
      <4>2. emailed' \in [0..MaxPeriod -> 0..2]
        BY <3>4, <4>1 DEF sendTemplateEmail
      <4>3. QED
        BY <3>2, <3>4, <4>2 DEF sendTemplateEmail, InHand, providerVars, historyVars
    <3>5. CASE markReminderSent(p)
      <4>1. row' \in Row
        BY <3>1, <3>5 DEF markReminderSent, Row, Job
      <4>2. QED
        BY <3>2, <3>5, <4>1 DEF markReminderSent, InHand, providerVars, historyVars
    <3>6. CASE setEmailSent(p)
      <4>1. emailSent' \subseteq 0..MaxPeriod
        BY <3>1, <3>6 DEF setEmailSent, Job, Row
      <4>2. /\ job' \in [Period -> Job]
            /\ \A q \in Period : job'[q].step \notin {"none", "kept"} => job'[q].left > 0
        BY <3>6, Jobs, Values DEF setEmailSent, NoJob
      <4>3. QED
        BY <3>6, <4>1, <4>2 DEF setEmailSent, InHand, providerVars, historyVars
    <3>7. CASE jobFails(p)
      BY <3>1, <3>7, Jobs DEF jobFails, InHand, providerVars, historyVars
    <3>8. QED
      BY <2>9, <3>3, <3>4, <3>5, <3>6, <3>7
  <2>10. CASE UNCHANGED vars
    BY <2>10 DEF vars, InHand, providerVars, reminderVars, historyVars
  <2>11. QED
    BY <2>2, <2>3, <2>4, <2>5, <2>6, <2>7, <2>8, <2>9, <2>10 DEF Next
<1>3. QED
  BY <1>1, <1>2, PTL DEF Spec

-----------------------------------------------------------------------------
LEMMA InitPlans == Init => PlansArePaidFor
BY Values DEF Init, PlansArePaidFor, Paid, FreeRow, Exists

LEMMA NextPlans == TypeOK /\ TypeOK' /\ PlansArePaidFor /\ [Next]_vars => PlansArePaidFor'
<1> SUFFICES ASSUME TypeOK, TypeOK', PlansArePaidFor, [Next]_vars PROVE PlansArePaidFor'
  OBVIOUS
\* What exists goes on existing with its plan.
<1>1. ASSUME NEW c \in Code, NEW whats \in Seq(What), Tells(c, whats),
             paystack'[c].state # "none",
             \A d \in Code : paystack[d].state # "none" =>
               paystack'[d].state # "none" /\ paystack'[d].plan = paystack[d].plan
      PROVE  PlansArePaidFor'
  <2>1. \A i \in DOMAIN events' :
          events'[i].code \in Code /\ paystack'[events'[i].code].state # "none"
    <3> SUFFICES ASSUME NEW i \in DOMAIN events'
                 PROVE  events'[i].code \in Code /\ paystack'[events'[i].code].state # "none"
      OBVIOUS
    <3>1. CASE i \in DOMAIN events
      <4>1. Exists(events[i].code)
        BY <3>1 DEF PlansArePaidFor
      <4>2. events'[i] = events[i]
        BY <1>1, <3>1, Telling
      <4>3. QED
        BY <1>1, <4>1, <4>2 DEF Exists
    <3>2. CASE i \notin DOMAIN events
      <4>1. events'[i].code = c
        BY <1>1, <3>2, Telling
      <4>2. QED
        BY <1>1, <4>1
    <3>3. QED
      BY <3>1, <3>2
  <2>2. UNCHANGED <<row, handling, job>>
    BY <1>1 DEF Tells, reminderVars
  <2>3. QED
    BY <1>1, <2>1, <2>2 DEF PlansArePaidFor, Paid, Exists
<1>2. ASSUME NEW c \in Code, NEW plan \in PaidPlan, subscribes(c, plan)
      PROVE  PlansArePaidFor'
  <2>1. <<"subscription.create">> \in Seq(What)
    BY DEF What
  <2>2. QED
    BY <1>1, <1>2, <2>1 DEF subscribes, TypeOK
<1>3. ASSUME NEW c \in Code, renews(c) \/ chargeFails(c) \/ cancels(c) \/ ends(c)
      PROVE  PlansArePaidFor'
  <2>1. /\ <<"charge.success", "invoice.update">> \in Seq(What)
        /\ <<"invoice.payment_failed">> \in Seq(What)
        /\ <<"subscription.not_renew">> \in Seq(What)
        /\ <<"subscription.disable">> \in Seq(What)
    BY DEF What
  <2>2. \A d \in Code : paystack[d] \in Subscription
    BY DEF TypeOK
  <2>3. \A d \in Code : paystack'[d].plan = paystack[d].plan
                        /\ (d # c => paystack'[d] = paystack[d])
    BY <1>3, <2>2 DEF renews, chargeFails, cancels, ends, TypeOK, Subscription
  <2>4. paystack'[c].state # "none"
    BY <1>3, <2>2 DEF renews, chargeFails, cancels, ends, TypeOK, Subscription
  <2>5. \E whats \in Seq(What) : Tells(c, whats)
    BY <1>3, <2>1 DEF renews, chargeFails, cancels, ends
  <2>6. QED
    BY <1>1, <2>3, <2>4, <2>5
\* Nothing else touches what Paystack has.
<1>4. ASSUME UNCHANGED providerVars, Paid(row'), \A h \in Handler : Paid(handling'[h].sub),
             \A p \in Period : Paid(job'[p].sub)
      PROVE  PlansArePaidFor'
  BY <1>4 DEF providerVars, PlansArePaidFor, Paid, Exists
<1>5. ASSUME NEW h \in Handler, NEW i \in 1..MaxEvents, handle(h, i)
      PROVE  PlansArePaidFor'
  <2>1. UNCHANGED providerVars /\ UNCHANGED <<row, job>>
    BY <1>5 DEF handle, reminderVars
  <2>2. \A g \in Handler : handling'[g].sub \in {handling[g].sub, row}
    BY <1>5 DEF handle, TypeOK
  <2>3. QED
    BY <1>4, <2>1, <2>2 DEF PlansArePaidFor
<1>6. ASSUME NEW h \in Handler, findByCompany(h) \/ fetchSubscription(h)
      PROVE  PlansArePaidFor'
  <2>1. UNCHANGED providerVars /\ UNCHANGED <<row, job>>
    BY <1>6 DEF findByCompany, fetchSubscription, reminderVars
  <2>2. \A g \in Handler : handling[g] \in Handling /\ handling[g].sub \in Row
    BY DEF TypeOK, Handling
  <2>3. ASSUME NEW g \in Handler PROVE Paid(handling'[g].sub)
    <3>1. CASE findByCompany(h)
      <4>1. handling'[g].sub \in {handling[g].sub, row}
        BY <2>2, <3>1 DEF findByCompany, TypeOK, Handling
      <4>2. QED
        BY <4>1 DEF PlansArePaidFor
    <3>2. CASE fetchSubscription(h)
      <4>1. /\ handling'[g].sub.plan = handling[g].sub.plan
            /\ handling'[g].sub.code = handling[g].sub.code
        BY SMTT(60), <2>2, <3>2 DEF fetchSubscription, TypeOK, Handling, Row
      <4>2. QED
        BY <4>1 DEF PlansArePaidFor, Paid
    <3>3. QED
      BY <1>6, <3>1, <3>2
  <2>4. QED
    BY <1>4, <2>1, <2>3 DEF PlansArePaidFor
<1>7. ASSUME NEW h \in Handler, save(h) \/ safeHandle(h)
      PROVE  PlansArePaidFor'
  <2>1. UNCHANGED providerVars /\ UNCHANGED job
    BY <1>7 DEF save, safeHandle, reminderVars
  <2>2. \A g \in Handler : handling'[g].sub \in {handling[g].sub, FreeRow}
    BY <1>7, Values DEF save, safeHandle, TypeOK
  <2>3. Paid(FreeRow)
    BY DEF Paid, FreeRow
  <2>4. Paid(row')
    <3>1. CASE save(h)
      <4>1. /\ handling[h].sub \in Row /\ Paid(handling[h].sub)
            /\ events[handling[h].event] \in Event
            /\ Exists(events[handling[h].event].code)
        BY <3>1 DEF save, TypeOK, InHand, Handling, PlansArePaidFor
      <4>2. QED
        BY <3>1, <4>1, HandledIsPaid DEF save
    <3>2. CASE safeHandle(h)
      BY <3>2 DEF safeHandle, PlansArePaidFor
    <3>3. QED
      BY <1>7, <3>1, <3>2
  <2>5. QED
    BY <1>4, <2>1, <2>2, <2>3, <2>4 DEF PlansArePaidFor
<1>8. ASSUME NEW i \in 1..MaxEvents, markExpires(i) PROVE PlansArePaidFor'
  BY <1>4, <1>8 DEF markExpires, reminderVars, PlansArePaidFor
<1>9. CASE sendExpirationReminders
  <2>1. \A p \in Period : job'[p].sub \in {job[p].sub, FreeRow}
    BY <1>9, Values DEF sendExpirationReminders, TypeOK, NoJob
  <2>2. Paid(FreeRow)
    BY DEF Paid, FreeRow
  <2>3. QED
    BY <1>4, <1>9, <2>1, <2>2 DEF sendExpirationReminders, PlansArePaidFor
<1>10. CASE dayPasses
  <2>1. Paid(row')
    BY <1>10 DEF dayPasses, PlansArePaidFor, Paid, TypeOK, Row
  <2>2. QED
    BY <1>4, <1>10, <2>1 DEF dayPasses, PlansArePaidFor
<1>11. ASSUME NEW p \in Period, findSubscription(p) \/ sendTemplateEmail(p) \/ setEmailSent(p)
                                 \/ jobFails(p)
       PROVE  PlansArePaidFor'
  <2>1. UNCHANGED providerVars /\ UNCHANGED <<row, handling>>
    BY <1>11 DEF findSubscription, sendTemplateEmail, setEmailSent, jobFails
  <2>2. \A q \in Period : job'[q].sub \in {job[q].sub, row, FreeRow}
    <3>1. job[p].step \notin {"none", "kept"} => job[p].left > 0 /\ job[p] \in Job
      BY DEF TypeOK
    <3>2. CASE findSubscription(p)
      BY <3>2, Values DEF findSubscription, TypeOK, NoJob, Job
    <3>3. CASE sendTemplateEmail(p)
      BY <3>3 DEF sendTemplateEmail, TypeOK, Job
    <3>4. CASE setEmailSent(p)
      BY <3>4 DEF setEmailSent, TypeOK, NoJob
    <3>5. CASE jobFails(p)
      BY <3>1, <3>5, Jobs DEF jobFails, TypeOK
    <3>6. QED
      BY <1>11, <3>2, <3>3, <3>4, <3>5
  <2>3. Paid(FreeRow)
    BY DEF Paid, FreeRow
  <2>4. QED
    BY <1>4, <2>1, <2>2, <2>3 DEF PlansArePaidFor
<1>12. ASSUME NEW p \in Period, markReminderSent(p) PROVE PlansArePaidFor'
  <2>1. \A q \in Period : job'[q].sub = job[q].sub
    BY <1>12 DEF markReminderSent, TypeOK, Job
  <2>2. Paid(row')
    BY <1>12 DEF markReminderSent, PlansArePaidFor, Paid, TypeOK, Job, Row
  <2>3. QED
    BY <1>4, <1>12, <2>1, <2>2 DEF markReminderSent, PlansArePaidFor
<1>13. CASE UNCHANGED vars
  BY <1>4, <1>13 DEF vars, reminderVars, PlansArePaidFor
<1>14. QED
  BY <1>2, <1>3, <1>5, <1>6, <1>7, <1>8, <1>9, <1>10, <1>11, <1>12, <1>13 DEF Next

\* Whatever is lost, repeated, reordered or overwritten, the plan of the company is
\* the free one or the one its subscription at Paystack was bought for.
THEOREM PlansPaidFor == Spec => []PlanIsPaidFor
<1>1. PlansArePaidFor => PlanIsPaidFor
  <2>1. ASSUME row.plan # "free", Exists(row.code) PROVE row.code # None
    BY <2>1, NoneAssumption DEF Exists
  <2>2. QED
    BY <2>1 DEF PlansArePaidFor, Paid, PlanIsPaidFor
<1>2. QED
  BY <1>1, Typing, InitPlans, NextPlans, PTL DEF Spec
-----------------------------------------------------------------------------
(* What Paystack has told *)

IsCreate(i) == events[i].what = "subscription.create"
IsDisable(i) == events[i].what = "subscription.disable"
IsUpdate(i) == events[i].what = "invoice.update"

\* Event i is the last about subscription c of the first k.
LastOf(c, i, k) ==
  /\ i \in 1..k
  /\ events[i].code = c
  /\ \A j \in 1..k : i < j => events[j].code # c

stateTold ==
  [x \in What \ {"charge.success"} |->
     CASE x = "subscription.not_renew" -> "non-renewing"
       [] x = "subscription.disable" -> "ended"
       [] x = "invoice.payment_failed" -> "attention"
       [] OTHER -> "active"]

\* The first event about a subscription is its creation, nothing follows its end, and
\* the last one tells its state.
StoryIsTold ==
  /\ \A i, j \in DOMAIN events : i < j /\ (IsCreate(j) \/ IsDisable(i)) => events[i].code # events[j].code
  /\ \A c \in Code : Exists(c) => \E i \in DOMAIN events : LastOf(c, i, Len(events))
  /\ \A i \in DOMAIN events : LastOf(events[i].code, i, Len(events)) =>
       events[i].what # "charge.success" /\ paystack[events[i].code].state = stateTold[events[i].what]
  /\ \A c \in Code : Exists(c) /\ (\A i \in DOMAIN events : IsUpdate(i) => events[i].code # c) =>
       paystack[c].period = 1
  /\ Created # {} => \E i \in Created : \A j \in Created : j <= i

-----------------------------------------------------------------------------
(* One at a time *)

JobHolds(p) == job[p].step \in {"send", "save", "mark"}

EventOf(h) == events[handling[h].event]

\* What h has in hand is the row, but for the period it may have fetched.
IsRow(sub) ==
  /\ sub.plan = row.plan
  /\ sub.code = row.code
  /\ sub.status = row.status
  /\ sub.cancelAtPeriodEnd = row.cancelAtPeriodEnd

WasCreated(c) == \E i \in got : i \in DOMAIN events /\ IsCreate(i) /\ events[i].code = c

Alone ==
  /\ \A g, h \in Busy : g = h
  /\ \A p, q \in Period : JobHolds(p) /\ JobHolds(q) => p = q
  /\ Busy # {} => \A p \in Period : ~JobHolds(p)

InHandIsRow ==
  /\ \A h \in Busy :
       /\ IsRow(handling[h].sub)
       /\ handling[h].event \in DOMAIN events
       /\ handling[h].step \in {"fetch", "save"}
       /\ handling[h].step = "fetch" \/ EventOf(h).what # "invoice.update" =>
            handling[h].sub.period = row.period
       /\ IF EventOf(h).what = "subscription.create"
          THEN handling[h].event \in got /\ EventOf(h).code \notin ended
          ELSE EventOf(h).code = row.code
  /\ \A p \in Period : job[p].step \in {"send", "save"} =>
       IsRow(job[p].sub) /\ job[p].sub.period = row.period

Orderly ==
  calm > 0 =>
    /\ Alone
    /\ InHandIsRow
    /\ \A c \in ended : WasCreated(c)
    /\ row.code # None => WasCreated(row.code)
    /\ row.code \in ended => row.plan = "free"

-----------------------------------------------------------------------------
(* In order *)

Says(what, sub) ==
  /\ what \in {"subscription.create", "invoice.update"} => sub.status = "active"
  /\ what = "invoice.payment_failed" => sub.status = "past_due"
  /\ what = "subscription.not_renew" => sub.cancelAtPeriodEnd
  /\ what = "subscription.disable" => sub.status = "canceled" /\ sub.plan = "free"

\* The entity is what the first k events make of it.
Follows(sub, k) ==
  /\ \A i \in 1..k : IsCreate(i) /\ (\A j \in 1..k : IsCreate(j) => j <= i) => sub.code = events[i].code
  /\ sub.code # None => \E i \in 1..k : IsCreate(i) /\ events[i].code = sub.code
  /\ \A i \in 1..k : LastOf(sub.code, i, k) => Says(events[i].what, sub)
  /\ sub.code # None /\ (\A i \in 1..k : IsDisable(i) => events[i].code # sub.code) =>
       sub.plan = paystack[sub.code].plan
  /\ sub.code # None /\ (\A i \in DOMAIN events : IsUpdate(i) /\ k < i => events[i].code # sub.code) =>
       sub.period = paystack[sub.code].period

InOrder ==
  calm = 2 =>
    \E k \in 0..Len(events) :
      /\ got = 1..k
      /\ Busy = {} => Follows(row, k)
      /\ \A h \in Busy :
           /\ handling[h].event = k
           /\ Follows(row, k - 1)
           /\ /\ IsUpdate(k) /\ handling[h].step = "save"
              /\ \A i \in DOMAIN events : IsUpdate(i) /\ k < i => events[i].code # row.code
              => handling[h].sub.period = paystack[row.code].period

LEMMA EventTypes ==
  ASSUME TypeOK, NEW i \in DOMAIN events
  PROVE  /\ Len(events) \in Nat /\ DOMAIN events = 1..Len(events) /\ i \in Nat
         /\ events[i] \in Event /\ events[i].what \in What /\ events[i].code \in Code
         /\ paystack[events[i].code] \in Subscription
<1>1. events \in Seq(Event) /\ DOMAIN events = 1..Len(events) /\ Len(events) \in Nat
  BY DEF TypeOK
<1>2. events[i] \in Event
  BY <1>1
<1>3. events[i].what \in What /\ events[i].code \in Code
  BY <1>2 DEF Event
<1>4. QED
  BY <1>1, <1>2, <1>3 DEF TypeOK

\* A subscription is created once.
LEMMA CreatedOnce ==
  ASSUME TypeOK, StoryIsTold, NEW i \in DOMAIN events, NEW j \in DOMAIN events,
         IsCreate(i), events[j].code = events[i].code
  PROVE  i <= j /\ (IsCreate(j) => i = j)
BY EventTypes DEF StoryIsTold

\* What is over is told last.
LEMMA EndIsTold ==
  ASSUME TypeOK, StoryIsTold, NEW i \in DOMAIN events, IsDisable(i)
  PROVE  /\ LastOf(events[i].code, i, Len(events))
         /\ paystack[events[i].code].state = "ended"
<1>1. LastOf(events[i].code, i, Len(events))
  BY EventTypes DEF StoryIsTold, LastOf
<1>2. paystack[events[i].code].state = stateTold[events[i].what]
  BY <1>1 DEF StoryIsTold
<1>3. QED
  BY <1>1, <1>2 DEF IsDisable, stateTold, What

\* Paystack goes on with a subscription that is not over.
LEMMA StoryGoesOn ==
  ASSUME TypeOK, StoryIsTold, PlansArePaidFor,
         NEW c \in Code, NEW whats \in Seq(What), NEW theirs \in Subscription,
         Tells(c, whats), paystack' = [paystack EXCEPT ![c] = theirs],
         Len(whats) \in {1, 2}, whats[Len(whats)] # "charge.success",
         Len(whats) = 2 => whats[1] = "charge.success",
         paystack[c].state # "ended", theirs.state = stateTold[whats[Len(whats)]],
         theirs.period \in {1, paystack[c].period} \/ whats[Len(whats)] = "invoice.update",
         IF whats[1] = "subscription.create"
         THEN paystack[c].state = "none" /\ theirs.period = 1
         ELSE whats[Len(whats)] # "subscription.create" /\ paystack[c].state # "none"
  PROVE  StoryIsTold'
<1>0. PICK n \in Nat, m \in Nat : n = Len(events) /\ m = Len(whats)
  BY DEF TypeOK
<1>1. /\ n \in Nat /\ DOMAIN events = 1..n /\ m \in {1, 2}
      /\ DOMAIN events' = 1..(n + m) /\ Len(events') = n + m
      /\ \A i \in 1..n : events'[i] = events[i]
      /\ \A i \in (n+1)..(n+m) : events'[i].code = c /\ events'[i].what = whats[i - n]
  <2>1. /\ events' \in Seq(Event) /\ Len(events') = Len(events) + Len(whats)
        /\ \A i \in DOMAIN events : i \in DOMAIN events' /\ events'[i] = events[i]
        /\ \A i \in DOMAIN events' : i \notin DOMAIN events => events'[i].code = c
        /\ \A i \in 1..Len(whats) : events'[Len(events) + i].what = whats[i]
    BY Telling
  <2>2. ASSUME NEW i \in (n+1)..(n+m) PROVE events'[i].what = whats[i - n]
    <3>1. i - n \in 1..Len(whats) /\ n + (i - n) = i
      BY <1>0
    <3>2. QED
      BY <1>0, <2>1, <3>1
  <2>3. events \in Seq(Event) /\ DOMAIN events = 1..n /\ DOMAIN events' = 1..(n + m)
    BY <1>0, <2>1 DEF TypeOK
  <2>4. \A i \in (n+1)..(n+m) : events'[i].code = c
    BY <2>1, <2>3
  <2>5. QED
    BY <1>0, <2>1, <2>2, <2>3, <2>4
<1>2. /\ \A d \in Code : paystack[d] \in Subscription /\ paystack'[d] \in Subscription
      /\ paystack'[c] = theirs
      /\ \A d \in Code : d # c => paystack'[d] = paystack[d]
  BY DEF TypeOK
<1>3. \A i \in 1..n : events[i].code \in Code /\ Exists(events[i].code) /\ ~(IsDisable(i) /\ events[i].code = c)
  BY <1>1, EventTypes, EndIsTold DEF PlansArePaidFor
<1>4. /\ \A i \in 1..n : IsCreate(i)' = IsCreate(i) /\ IsDisable(i)' = IsDisable(i) /\ IsUpdate(i)' = IsUpdate(i)
      /\ \A i \in (n+1)..(n+m) : /\ IsCreate(i)' <=> whats[i - n] = "subscription.create"
                                 /\ IsDisable(i)' <=> whats[i - n] = "subscription.disable"
                                 /\ IsUpdate(i)' <=> whats[i - n] = "invoice.update"
  BY <1>1 DEF IsCreate, IsDisable, IsUpdate
<1>6. \A d \in Code \ {c} : \A i \in 1..(n + m) : LastOf(d, i, n + m)' <=> LastOf(d, i, n)
  BY SMTT(60), <1>1 DEF LastOf
<1>7. \A i \in 1..(n + m) : LastOf(c, i, n + m)' <=> i = n + m
  BY <1>1 DEF LastOf
<1>8. ASSUME NEW i \in 1..(n + m), NEW j \in 1..(n + m), i < j, (IsCreate(j) \/ IsDisable(i))'
      PROVE  events'[i].code # events'[j].code
  <2>1. CASE j \in 1..n
    <3>1. i \in 1..n /\ events'[i] = events[i] /\ events'[j] = events[j]
      BY <1>1, <1>8, <2>1
    <3>2. IsCreate(j) \/ IsDisable(i)
      BY <3>1, <1>8 DEF IsCreate, IsDisable
    <3>3. QED
      BY <1>1, <1>8, <2>1, <3>1, <3>2 DEF StoryIsTold
  <2>2. CASE j \notin 1..n
    <3>1. events'[j].code = c /\ j \in (n+1)..(n+m)
      BY <1>1, <2>2
    <3>2. ~IsDisable(i)' \/ events'[i].code # c
      <4>1. CASE i \in 1..n
        BY <4>1, <1>1, <1>3, <1>4
      <4>2. CASE i \notin 1..n
        <5>1. i = n + 1 /\ m = 2
          BY <1>1, <1>8, <4>2
        <5>2. QED
          BY <5>1, <1>1, <1>4, <1>0
      <4>3. QED
        BY <4>1, <4>2
    <3>3. CASE IsCreate(j)'
      <4>1. whats[j - n] = "subscription.create"
        BY <3>1, <3>3, <1>1 DEF IsCreate
      <4>2. whats[1] = "subscription.create" /\ m = 1
        <5>1. CASE m = 1
          BY <5>1, <4>1, <3>1
        <5>2. CASE m = 2
          <6>1. whats[1] = "charge.success" /\ whats[2] # "subscription.create"
            BY <5>2, <1>0
          <6>2. j - n \in {1, 2}
            BY <5>2, <3>1, <1>1
          <6>3. QED
            BY <6>1, <6>2, <4>1
        <5>3. QED
          BY <5>1, <5>2, <1>1
      <4>3. i \in 1..n /\ events[i].code # c
        BY <4>2, <3>1, <1>8, <1>1, <1>3 DEF Exists
      <4>4. QED
        BY <4>3, <1>1, <3>1
    <3>4. QED
      BY <1>8, <3>1, <3>2, <3>3
  <2>3. QED
    BY <2>1, <2>2
<1>9. ASSUME NEW d \in Code, Exists(d)' PROVE \E i \in 1..(n + m) : LastOf(d, i, n + m)'
  <2>1. CASE d = c
    BY <2>1, <1>1, <1>7
  <2>2. CASE d # c
    BY <2>2, <1>1, <1>2, <1>6, <1>9, <1>0 DEF StoryIsTold, Exists
  <2>3. QED
    BY <2>1, <2>2
<1>10. ASSUME NEW i \in 1..(n + m), LastOf(events[i].code, i, n + m)'
       PROVE  events'[i].what # "charge.success" /\ paystack'[events'[i].code].state = stateTold[events'[i].what]
  <2>1. CASE events'[i].code = c
    <3>1. i = n + m
      BY <2>1, <1>7, <1>10 DEF LastOf
    <3>2. events'[i].what = whats[m]
      BY <3>1, <1>1
    <3>3. QED
      BY <2>1, <3>2, <1>2, <1>0
  <2>2. CASE events'[i].code # c
    <3>1. i \in 1..n /\ events'[i] = events[i] /\ events[i].code \in Code
      BY <2>2, <1>1, <1>3
    <3>2. LastOf(events[i].code, i, n)
      BY <3>1, <1>1, <1>10 DEF LastOf
    <3>3. QED
      BY <3>1, <3>2, <2>2, <1>1, <1>2, <1>0 DEF StoryIsTold
  <2>3. QED
    BY <2>1, <2>2
<1>11. ASSUME NEW d \in Code, Exists(d)', \A i \in 1..(n + m) : IsUpdate(i)' => events'[i].code # d
       PROVE  paystack'[d].period = 1
  <2>0. \A i \in 1..n : IsUpdate(i) => events[i].code # d
    BY <1>1, <1>4, <1>11
  <2>1. CASE d = c
    <3>1. whats[m] # "invoice.update"
      <4>1. n + m \in 1..(n+m) /\ n + m \in (n+1)..(n+m) /\ n + m - n = m
        BY <1>1
      <4>2. QED
        BY <4>1, <1>1, <1>4, <1>11, <2>1
    <3>2. CASE whats[1] = "subscription.create"
      BY <3>2, <2>1, <1>2
    <3>3. CASE whats[1] # "subscription.create"
      BY <3>1, <3>3, <2>0, <2>1, <1>1, <1>2, <1>0 DEF StoryIsTold, Exists
    <3>4. QED
      BY <3>2, <3>3
  <2>2. CASE d # c
    BY <2>0, <2>2, <1>1, <1>2, <1>11 DEF StoryIsTold, Exists
  <2>3. QED
    BY <2>1, <2>2
<1>12. Created' # {} => \E i \in Created' : \A j \in Created' : j <= i
  <2>1. Created' = {i \in 1..(n+m) : IsCreate(i)'} /\ Created = {i \in 1..n : IsCreate(i)}
    BY <1>1 DEF Created, IsCreate
  <2>2. CASE IsCreate(n + m)'
    BY <2>1, <2>2, <1>1
  <2>3. CASE ~IsCreate(n + m)'
    <3>1. \A i \in (n+1)..(n+m) : ~IsCreate(i)'
      <4>1. CASE m = 1
        BY <4>1, <2>3, <1>1
      <4>2. CASE m = 2
        <5>1. ~IsCreate(n+1)'
          BY <1>1, <1>4, <4>2, <1>0
        <5>2. QED
          BY <4>2, <5>1, <2>3, <1>1
      <4>3. QED
        BY <4>1, <4>2, <1>1
    <3>2. Created' = Created
      BY <3>1, <2>1, <1>1, <1>4
    <3>3. QED
      BY <3>2 DEF StoryIsTold
  <2>4. QED
    BY <2>2, <2>3
<1>13. \A i, j \in DOMAIN events' : i < j /\ (IsCreate(j) \/ IsDisable(i))' => events'[i].code # events'[j].code
  BY <1>1, <1>8
<1>14. \A d \in Code : Exists(d)' => \E i \in DOMAIN events' : LastOf(d, i, Len(events))'
  BY <1>1, <1>9 DEF LastOf
<1>15. \A i \in DOMAIN events' : LastOf(events[i].code, i, Len(events))' =>
         events'[i].what # "charge.success" /\ paystack'[events'[i].code].state = stateTold[events'[i].what]
  BY <1>1, <1>10 DEF LastOf
<1>16. \A d \in Code : Exists(d)' /\ (\A i \in DOMAIN events' : IsUpdate(i)' => events'[i].code # d) =>
         paystack'[d].period = 1
  BY <1>1, <1>11
<1>17. QED
  BY <1>12, <1>13, <1>14, <1>15, <1>16 DEF StoryIsTold

LEMMA OneEventTold ==
  ASSUME TypeOK, StoryIsTold, PlansArePaidFor,
         NEW c \in Code, NEW what \in What \ {"charge.success"}, NEW theirs \in Subscription,
         Tells(c, <<what>>), paystack' = [paystack EXCEPT ![c] = theirs],
         paystack[c].state # "ended", theirs.state = stateTold[what],
         theirs.period \in {1, paystack[c].period},
         IF what = "subscription.create"
         THEN paystack[c].state = "none" /\ theirs.period = 1
         ELSE paystack[c].state # "none"
  PROVE  StoryIsTold'
<1> DEFINE whats == <<what>>
<1>1. whats \in Seq(What) /\ Len(whats) = 1 /\ whats[1] = what /\ Tells(c, whats)
  OBVIOUS
<1> HIDE DEF whats
<1>2. /\ Len(whats) \in {1, 2} /\ whats[Len(whats)] = what
      /\ Len(whats) = 2 => whats[1] = "charge.success"
  BY <1>1
<1>3. whats[Len(whats)] # "charge.success" /\ theirs.state = stateTold[whats[Len(whats)]]
  BY <1>2
<1>4. IF whats[1] = "subscription.create"
      THEN paystack[c].state = "none" /\ theirs.period = 1
      ELSE whats[Len(whats)] # "subscription.create" /\ paystack[c].state # "none"
  BY <1>1, <1>2
<1>5. QED
  BY <1>1, <1>2, <1>3, <1>4, StoryGoesOn

\* Paystack's steps, each as the events it tells.
LEMMA StoryStep ==
  ASSUME TypeOK, TypeOK', StoryIsTold, PlansArePaidFor, [Next]_vars
  PROVE  StoryIsTold'
<1>1. ASSUME UNCHANGED providerVars PROVE StoryIsTold'
  BY <1>1 DEF providerVars, StoryIsTold, IsCreate, IsDisable, IsUpdate, LastOf, Exists, Created
<1>2. ASSUME NEW c \in Code, NEW plan \in PaidPlan, subscribes(c, plan) PROVE StoryIsTold'
  <2>1. stateTold["subscription.create"] = "active"
    BY DEF What, stateTold
  <2>2. [state |-> "active", plan |-> plan, period |-> 1] \in Subscription
    BY BoundAssumption DEF Subscription, Plan
  <2>3. QED
    BY <1>2, <2>1, <2>2, OneEventTold DEF subscribes, What
<1>3. ASSUME NEW c \in Code, renews(c) \/ chargeFails(c) \/ cancels(c) \/ ends(c)
      PROVE  StoryIsTold'
  <2>1. paystack[c] \in Subscription /\ paystack'[c] \in Subscription
    BY DEF TypeOK
  <2>2. paystack' = [paystack EXCEPT ![c] = paystack'[c]]
    BY <1>3 DEF renews, chargeFails, cancels, ends, TypeOK
  <2>3. /\ stateTold["invoice.update"] = "active"
        /\ stateTold["invoice.payment_failed"] = "attention"
        /\ stateTold["subscription.not_renew"] = "non-renewing"
        /\ stateTold["subscription.disable"] = "ended"
    BY DEF What, stateTold
  <2>4. CASE renews(c)
    <3>1. <<"charge.success", "invoice.update">> \in Seq(What)
      BY DEF What
    <3>2. Tells(c, <<"charge.success", "invoice.update">>) /\ paystack'[c].state = "active"
          /\ paystack[c].state \notin {"none", "ended"}
      BY <2>1, <2>4 DEF renews, Subscription, TypeOK
    <3>3. QED
      BY <2>1, <2>2, <2>3, <3>1, <3>2, StoryGoesOn
  <2>5. CASE chargeFails(c)
    <3>1. "invoice.payment_failed" \in What \ {"charge.success", "subscription.create"}
      BY DEF What
    <3>2. Tells(c, <<"invoice.payment_failed">>) /\ paystack'[c].state = "attention"
          /\ paystack'[c].period = paystack[c].period /\ paystack[c].state \notin {"none", "ended"}
      BY <2>1, <2>5 DEF chargeFails, Subscription, TypeOK
    <3>3. QED
      BY <2>1, <2>2, <2>3, <3>1, <3>2, OneEventTold
  <2>6. CASE cancels(c)
    <3>1. "subscription.not_renew" \in What \ {"charge.success", "subscription.create"}
      BY DEF What
    <3>2. Tells(c, <<"subscription.not_renew">>) /\ paystack'[c].state = "non-renewing"
          /\ paystack'[c].period = paystack[c].period /\ paystack[c].state \notin {"none", "ended"}
      BY <2>1, <2>6 DEF cancels, Subscription, TypeOK
    <3>3. QED
      BY <2>1, <2>2, <2>3, <3>1, <3>2, OneEventTold
  <2>7. CASE ends(c)
    <3>1. "subscription.disable" \in What \ {"charge.success", "subscription.create"}
      BY DEF What
    <3>2. Tells(c, <<"subscription.disable">>) /\ paystack'[c].state = "ended"
          /\ paystack'[c].period = paystack[c].period /\ paystack[c].state \notin {"none", "ended"}
      BY <2>1, <2>7 DEF ends, Subscription, TypeOK
    <3>3. QED
      BY <2>1, <2>2, <2>3, <3>1, <3>2, OneEventTold
  <2>8. QED
    BY <1>3, <2>4, <2>5, <2>6, <2>7
<1>4. ASSUME NEW h \in Handler, NEW i \in 1..MaxEvents, handle(h, i) PROVE StoryIsTold'
  BY <1>1, <1>4 DEF handle
<1>5. ASSUME NEW h \in Handler, findByCompany(h) \/ fetchSubscription(h) \/ save(h) \/ safeHandle(h)
      PROVE  StoryIsTold'
  BY <1>1, <1>5 DEF findByCompany, fetchSubscription, save, safeHandle
<1>6. ASSUME (\E i \in 1..MaxEvents : markExpires(i)) \/ sendExpirationReminders \/ dayPasses
      PROVE  StoryIsTold'
  BY <1>1, <1>6 DEF markExpires, sendExpirationReminders, dayPasses
<1>7. ASSUME NEW p \in Period, findSubscription(p) \/ sendTemplateEmail(p) \/ markReminderSent(p)
                                \/ setEmailSent(p) \/ jobFails(p)
      PROVE  StoryIsTold'
  BY <1>1, <1>7 DEF findSubscription, sendTemplateEmail, markReminderSent, setEmailSent, jobFails
<1>8. CASE UNCHANGED vars
  BY <1>1, <1>8 DEF vars
<1>9. QED
  BY <1>2, <1>3, <1>4, <1>5, <1>6, <1>7, <1>8 DEF Next

\* What each event makes of an entity, field by field.
LEMMA HandledFields ==
  ASSUME TypeOK, NEW sub \in Row, NEW e \in Event
  PROVE  LET new == handled(sub, e) IN
         /\ e.what = "subscription.create" =>
              /\ new.code = e.code /\ new.plan = paystack[e.code].plan
              /\ new.status = "active" /\ new.period = 1
         /\ e.what # "subscription.create" => new.code = sub.code /\ new.period = sub.period
         /\ e.what \notin {"subscription.create", "subscription.disable"} => new.plan = sub.plan
         /\ Says(e.what, new)
         /\ e.what = "subscription.disable" => new.plan = "free"
<1> USE DEF handled, Row, Says
<1>1. CASE e.what = "charge.success"
  BY <1>1 DEF chargeSuccess
<1>2. CASE e.what = "subscription.create"
  BY <1>2 DEF subscriptionCreate
<1>3. CASE e.what = "subscription.not_renew"
  BY <1>3 DEF subscriptionNotRenew
<1>4. CASE e.what = "subscription.disable"
  BY <1>4 DEF subscriptionDisable
<1>5. CASE e.what = "invoice.update"
  BY <1>5 DEF invoiceUpdate
<1>6. CASE e.what = "invoice.payment_failed"
  BY <1>6 DEF markPastDue
<1>7. QED
  BY <1>1, <1>2, <1>3, <1>4, <1>5, <1>6 DEF Event, What

\* The history keeps the creations that were delivered.
LEMMA HistoryKept ==
  ASSUME NEW level \in {0, 1, 2}, NEW delivered, calmIs(level, delivered)
  PROVE  /\ calm' = level
         /\ level # 0 => \A i \in delivered : IsCreate(i) => i \in got'
         /\ level = 2 => got' = delivered
BY DEF calmIs, IsCreate

LEMMA HistoryStays ==
  ASSUME TypeOK, UNCHANGED events, \A i \in got : IsCreate(i) => i \in got', NEW c, WasCreated(c)
  PROVE  WasCreated(c)'
BY DEF WasCreated, IsCreate

\* Who has the row in hand is busy, or a job that holds it.
LEMMA FreeToTake ==
  ~RowInHand => Busy = {} /\ \A p \in Period : ~JobHolds(p)
BY DEF RowInHand, JobHolds

-----------------------------------------------------------------------------
(* Paystack goes on while a webhook is in hand: what it told stays told, and a *)
(* new period is told.                                                         *)

Grown ==
  /\ UNCHANGED <<row, handling, job, got, ended, calm>>
  /\ Len(events) <= Len(events)'
  /\ \A i \in DOMAIN events : i \in DOMAIN events' /\ events'[i] = events[i]
  /\ \A d \in Code : Exists(d) =>
       /\ paystack'[d].plan = paystack[d].plan
       /\ \/ paystack'[d].period = paystack[d].period
          \/ \E i \in DOMAIN events' : Len(events) < i /\ IsUpdate(i)' /\ events'[i].code = d

LEMMA Growing ==
  ASSUME TypeOK, NEW c \in Code,
         (\E plan \in PaidPlan : subscribes(c, plan)) \/ renews(c) \/ chargeFails(c) \/ cancels(c) \/ ends(c)
  PROVE  Grown
<1>1. /\ <<"charge.success", "invoice.update">> \in Seq(What)
      /\ <<"subscription.create">> \in Seq(What)
      /\ <<"invoice.payment_failed">> \in Seq(What)
      /\ <<"subscription.not_renew">> \in Seq(What)
      /\ <<"subscription.disable">> \in Seq(What)
  BY DEF What
<1>2. PICK whats \in Seq(What) :
        /\ Tells(c, whats)
        /\ renews(c) => whats = <<"charge.success", "invoice.update">>
  BY <1>1 DEF subscribes, renews, chargeFails, cancels, ends
<1>3. /\ Len(events') = Len(events) + Len(whats)
      /\ \A i \in DOMAIN events : i \in DOMAIN events' /\ events'[i] = events[i]
      /\ \A i \in DOMAIN events' : i \notin DOMAIN events => events'[i].code = c
      /\ \A i \in 1..Len(whats) : events'[Len(events) + i].what = whats[i]
      /\ events' \in Seq(Event)
  BY <1>2, Telling
<1>4. \A d \in Code : paystack[d] \in Subscription
  BY DEF TypeOK
<1>5. ASSUME NEW d \in Code, Exists(d)
      PROVE  /\ paystack'[d].plan = paystack[d].plan
             /\ paystack'[d].period = paystack[d].period \/ (d = c /\ renews(c))
  <2>1. CASE \E plan \in PaidPlan : subscribes(c, plan)
    BY <1>5, <2>1 DEF subscribes, Exists, TypeOK
  <2>2. CASE renews(c) \/ chargeFails(c) \/ cancels(c) \/ ends(c)
    BY <1>4, <2>2 DEF renews, chargeFails, cancels, ends, TypeOK, Subscription
  <2>3. QED
    BY <2>1, <2>2
<1>6. ASSUME renews(c)
      PROVE  \E i \in DOMAIN events' : Len(events) < i /\ IsUpdate(i)' /\ events'[i].code = c
  <2> DEFINE i == Len(events) + 2
  <2>1. Len(whats) = 2 /\ whats[2] = "invoice.update"
    BY <1>2, <1>6
  <2>2. events'[i].what = "invoice.update" /\ Len(events) \in Nat /\ Len(events') = i
    BY <2>1, <1>3 DEF TypeOK
  <2>3. i \in DOMAIN events' /\ i \notin DOMAIN events
    BY <2>2, <1>3 DEF TypeOK
  <2>4. events'[i].code = c
    BY <2>3, <1>3
  <2>5. QED
    BY <2>2, <2>3, <2>4 DEF IsUpdate
<1>7. Len(events) <= Len(events)'
  BY <1>2, <1>3 DEF TypeOK
<1>8. QED
  BY <1>2, <1>3, <1>5, <1>6, <1>7 DEF Tells, reminderVars, historyVars, Grown

LEMMA FollowsStill ==
  ASSUME TypeOK, TypeOK', PlansArePaidFor, Grown, NEW sub, NEW k \in 0..Len(events), Follows(sub, k)
  PROVE  Follows(sub, k)'
<1>1. /\ Len(events) \in Nat /\ DOMAIN events = 1..Len(events)
      /\ Len(events') \in Nat /\ DOMAIN events' = 1..Len(events') /\ Len(events) <= Len(events')
  BY DEF TypeOK, Grown
<1>2. /\ \A i \in 1..k : i \in DOMAIN events /\ events'[i] = events[i]
      /\ \A i \in DOMAIN events : events'[i] = events[i]
  BY <1>1 DEF Grown
<1>3. sub.code # None => Exists(sub.code)
  BY <1>2 DEF Follows, PlansArePaidFor
<1>4. /\ \A i \in 1..k : IsCreate(i)' = IsCreate(i) /\ IsDisable(i)' = IsDisable(i)
      /\ \A i \in DOMAIN events : IsUpdate(i)' = IsUpdate(i)
      /\ \A i \in 1..k : LastOf(sub.code, i, k)' = LastOf(sub.code, i, k)
  BY <1>2 DEF IsCreate, IsDisable, IsUpdate, LastOf
<1>5. /\ \A i \in 1..k : IsCreate(i)' /\ (\A j \in 1..k : IsCreate(j)' => j <= i) => sub.code = events'[i].code
      /\ sub.code # None => \E i \in 1..k : IsCreate(i)' /\ events'[i].code = sub.code
  BY <1>2, <1>4 DEF Follows
<1>6. \A i \in 1..k : LastOf(sub.code, i, k)' => Says(events'[i].what, sub)
  BY <1>2, <1>4 DEF Follows
<1>7. sub.code # None /\ (\A i \in 1..k : IsDisable(i)' => events'[i].code # sub.code) =>
        sub.plan = paystack'[sub.code].plan
  BY <1>2, <1>3, <1>4 DEF Follows, Grown, Exists
<1>8. ASSUME sub.code # None, \A i \in DOMAIN events' : IsUpdate(i)' /\ k < i => events'[i].code # sub.code
      PROVE  sub.period = paystack'[sub.code].period
  <2>1. \A i \in DOMAIN events : IsUpdate(i) /\ k < i => events[i].code # sub.code
    BY <1>1, <1>2, <1>4, <1>8
  <2>2. paystack'[sub.code].period = paystack[sub.code].period
    BY <1>1, <1>3, <1>8 DEF Grown, Exists
  <2>3. QED
    BY <2>1, <2>2, <1>8 DEF Follows
<1>9. QED
  BY <1>5, <1>6, <1>7, <1>8 DEF Follows

LEMMA PaystackKeepsOrder ==
  ASSUME TypeOK, TypeOK', PlansArePaidFor, Orderly, InOrder, Grown
  PROVE  Orderly' /\ InOrder'
<1>1. /\ Len(events) \in Nat /\ DOMAIN events = 1..Len(events)
      /\ Len(events') \in Nat /\ DOMAIN events' = 1..Len(events') /\ Len(events) <= Len(events')
      /\ \A i \in DOMAIN events : i \in DOMAIN events' /\ events'[i] = events[i]
      /\ UNCHANGED <<row, handling, job, got, ended, calm>>
      /\ Busy' = Busy
  BY DEF TypeOK, Grown, Busy
<1>2. Orderly'
  <2> SUFFICES ASSUME calm > 0 PROVE Orderly'
    BY <1>1 DEF Orderly
  <2>1. Alone'
    BY <1>1 DEF Orderly, Alone, JobHolds
  <2>2. InHandIsRow'
    BY <1>1 DEF Orderly, InHandIsRow, IsRow, EventOf
  <2>3. \A c : WasCreated(c) => WasCreated(c)'
    BY <1>1 DEF WasCreated, IsCreate
  <2>4. QED
    BY <1>1, <2>1, <2>2, <2>3 DEF Orderly
<1>3. InOrder'
  <2> SUFFICES ASSUME calm = 2 PROVE InOrder'
    BY <1>1 DEF InOrder
  <2>1. PICK k \in 0..Len(events) :
          /\ got = 1..k
          /\ Busy = {} => Follows(row, k)
          /\ \A h \in Busy :
               /\ handling[h].event = k
               /\ Follows(row, k - 1)
               /\ /\ IsUpdate(k) /\ handling[h].step = "save"
                  /\ \A i \in DOMAIN events : IsUpdate(i) /\ k < i => events[i].code # row.code
                  => handling[h].sub.period = paystack[row.code].period
    BY DEF InOrder
  <2>2. k \in 0..Len(events')
    BY <1>1
  <2>3. Busy = {} => Follows(row, k)'
    <3>1. Follows(row, k) => Follows(row, k)'
      <4>1. PICK sub : sub = row
        OBVIOUS
      <4>2. Follows(sub, k) => Follows(sub, k)'
        BY FollowsStill
      <4>3. row' = sub
        BY <4>1, <1>1
      <4>4. QED
        BY <4>1, <4>2, <4>3 DEF Follows, Says
    <3>2. QED
      BY <2>1, <3>1
  <2>4. ASSUME NEW h \in Busy
        PROVE  /\ Follows(row, k - 1)'
               /\ /\ IsUpdate(k)' /\ handling[h].step = "save"
                  /\ \A i \in DOMAIN events' : IsUpdate(i)' /\ k < i => events'[i].code # row.code
                  => handling[h].sub.period = paystack'[row.code].period
    <3>1. k \in DOMAIN events /\ k - 1 \in 0..Len(events)
      BY <1>1, <2>1, <2>4 DEF Orderly, InHandIsRow
    <3>2. Follows(row, k - 1)'
      <4>1. PICK sub, n : sub = row /\ n = k - 1
        OBVIOUS
      <4>2. Follows(sub, n) => Follows(sub, n)'
        BY <3>1, <4>1, FollowsStill
      <4>3. row' = sub
        BY <4>1, <1>1
      <4>4. QED
        BY <2>1, <2>4, <4>1, <4>2, <4>3 DEF Follows, Says
    <3>3. ASSUME IsUpdate(k)', handling[h].step = "save",
                 \A i \in DOMAIN events' : IsUpdate(i)' /\ k < i => events'[i].code # row.code
          PROVE  handling[h].sub.period = paystack'[row.code].period
      <4>1. \A i \in DOMAIN events : IsUpdate(i) /\ k < i => events[i].code # row.code
        BY <1>1, <3>3 DEF IsUpdate
      <4>2. IsUpdate(k)
        BY <1>1, <3>1, <3>3 DEF IsUpdate
      <4>3. EventOf(h).code = row.code /\ EventOf(h) = events[k]
        BY <2>1, <2>4, <4>2 DEF Orderly, InHandIsRow, EventOf, IsUpdate
      <4>4. Exists(row.code)
        BY <3>1, <4>3 DEF PlansArePaidFor
      <4>5. paystack'[row.code].period = paystack[row.code].period
        BY <1>1, <2>2, <3>3, <4>4 DEF Grown, Exists
      <4>6. QED
        BY <2>1, <2>4, <3>3, <4>1, <4>2, <4>5
    <3>4. QED
      BY <3>2, <3>3
  <2>5. QED
    BY <1>1, <2>1, <2>2, <2>3, <2>4 DEF InOrder
<1>4. QED
  BY <1>2, <1>3

-----------------------------------------------------------------------------
(* The next event is applied, or has nothing to change. *)

LEMMA FollowsLike ==
  ASSUME NEW a, NEW b, NEW k, Follows(a, k),
         b.plan = a.plan, b.code = a.code, b.status = a.status, b.period = a.period,
         b.cancelAtPeriodEnd = a.cancelAtPeriodEnd
  PROVE  Follows(b, k)
BY DEF Follows, Says

\* An event about another subscription, which is not created.
LEMMA FollowsPast ==
  ASSUME TypeOK, NEW a, NEW k \in Nat, k + 1 \in DOMAIN events, Follows(a, k),
         ~IsCreate(k + 1), events[k + 1].code # a.code
  PROVE  Follows(a, k + 1)
<1>1. /\ 1..(k + 1) = (1..k) \cup {k + 1}
      /\ \A i \in DOMAIN events : i \in Nat
  BY DEF TypeOK
<1>2. \A i \in 1..(k + 1) : LastOf(a.code, i, k + 1) => i \in 1..k /\ LastOf(a.code, i, k)
  BY <1>1 DEF LastOf
<1>3. \A i \in DOMAIN events : IsUpdate(i) /\ k < i /\ events[i].code = a.code => k + 1 < i
  BY <1>1
<1>4. QED
  BY <1>1, <1>2, <1>3 DEF Follows

\* An event about the row's subscription.
LEMMA FollowsOn ==
  ASSUME TypeOK, StoryIsTold, NEW a, NEW b, NEW k \in Nat, k + 1 \in DOMAIN events, Follows(a, k),
         ~IsCreate(k + 1), events[k + 1].code = a.code, b.code = a.code,
         Says(events[k + 1].what, b), ~IsDisable(k + 1) => b.plan = a.plan,
         IF IsUpdate(k + 1)
         THEN (\A i \in DOMAIN events : IsUpdate(i) /\ k + 1 < i => events[i].code # a.code)
                => b.period = paystack[a.code].period
         ELSE b.period = a.period
  PROVE  Follows(b, k + 1)
<1>1. /\ 1..(k + 1) = (1..k) \cup {k + 1}
      /\ \A i \in DOMAIN events : i \in Nat
  BY DEF TypeOK
<1>2. \A i \in 1..(k + 1) : LastOf(b.code, i, k + 1) => i = k + 1
  BY <1>1 DEF LastOf
<1>3. ~IsUpdate(k + 1) => \A i \in DOMAIN events : IsUpdate(i) /\ k < i => k + 1 < i
  <2>1. \A i \in Nat : k < i => i = k + 1 \/ k + 1 < i
    OBVIOUS
  <2>2. QED
    BY <1>1, <2>1
<1>4. /\ \A i \in 1..(k + 1) : IsCreate(i) /\ (\A j \in 1..(k + 1) : IsCreate(j) => j <= i) =>
           b.code = events[i].code
      /\ b.code # None => \E i \in 1..(k + 1) : IsCreate(i) /\ events[i].code = b.code
      /\ \A i \in 1..(k + 1) : LastOf(b.code, i, k + 1) => Says(events[i].what, b)
  BY <1>1, <1>2 DEF Follows
<1>5. ASSUME b.code # None, \A i \in 1..(k + 1) : IsDisable(i) => events[i].code # b.code
      PROVE  b.plan = paystack[b.code].plan
  BY <1>1, <1>5 DEF Follows
<1>6. ASSUME b.code # None,
             \A i \in DOMAIN events : IsUpdate(i) /\ k + 1 < i => events[i].code # b.code
      PROVE  b.period = paystack[b.code].period
  BY <1>3, <1>6 DEF Follows
<1>7. QED
  BY <1>4, <1>5, <1>6 DEF Follows

\* A new subscription.
LEMMA FollowsNew ==
  ASSUME TypeOK, StoryIsTold, PlansArePaidFor, NEW b, NEW k \in Nat, k + 1 \in DOMAIN events,
         IsCreate(k + 1), b.code = events[k + 1].code, b.plan = paystack[b.code].plan,
         b.status = "active", b.period = 1
  PROVE  Follows(b, k + 1)
<1>1. /\ \A i \in 1..(k + 1) : i \in DOMAIN events /\ i \in Nat
      /\ \A i \in DOMAIN events : i \in Nat
      /\ k + 1 \in 1..(k + 1)
  BY DEF TypeOK
<1>2. \A i \in DOMAIN events : events[i].code = b.code => k + 1 <= i
  BY CreatedOnce
<1>3. \A i \in 1..(k + 1) : events[i].code = b.code => i = k + 1
  BY <1>1, <1>2
<1>4. /\ \A i \in 1..(k + 1) : IsCreate(i) /\ (\A j \in 1..(k + 1) : IsCreate(j) => j <= i) =>
           b.code = events[i].code
      /\ b.code # None => \E i \in 1..(k + 1) : IsCreate(i) /\ events[i].code = b.code
  <2>1. ASSUME NEW i \in 1..(k + 1), \A j \in 1..(k + 1) : IsCreate(j) => j <= i PROVE i = k + 1
    BY <1>1, <2>1
  <2>2. QED
    BY <1>1, <2>1
<1>5. \A i \in 1..(k + 1) : LastOf(b.code, i, k + 1) => Says(events[i].what, b)
  BY <1>3 DEF LastOf, Says, IsCreate
<1>6. ASSUME \A i \in DOMAIN events : IsUpdate(i) /\ k + 1 < i => events[i].code # b.code
      PROVE  b.period = paystack[b.code].period
  <2>1. \A i \in DOMAIN events : IsUpdate(i) => events[i].code # b.code
    <3> SUFFICES ASSUME NEW i \in DOMAIN events, IsUpdate(i), events[i].code = b.code PROVE FALSE
      OBVIOUS
    <3>1. i # k + 1
      BY DEF IsUpdate, IsCreate
    <3>2. k + 1 < i
      BY <1>1, <1>2, <3>1
    <3>3. QED
      BY <1>6, <3>2
  <2>2. b.code \in Code /\ Exists(b.code)
    BY EventTypes DEF PlansArePaidFor
  <2>3. QED
    BY <2>1, <2>2 DEF StoryIsTold
<1>7. QED
  BY <1>4, <1>5, <1>6 DEF Follows

-----------------------------------------------------------------------------
(* The handlers keep the order. *)

\* A webhook comes. One that is taken finds the row free, or it was less than calm.
LEMMA HandleKeepsOrder ==
  ASSUME TypeOK, TypeOK', StoryIsTold, PlansArePaidFor, Orderly, InOrder,
         NEW h \in Handler, NEW i \in 1..MaxEvents, handle(h, i)
  PROVE  Orderly' /\ InOrder'
<1> DEFINE e == events[i]
           taken == concerns(e) /\ ~(e.what = "charge.success" /\ i \in processed)
           next == [event |-> i, sub |-> row,
                    step |-> IF e.what \in {"invoice.update", "subscription.create"}
                             THEN "fetch" ELSE "save"]
<1>1. /\ handling[h] = Idle /\ i \in DOMAIN events /\ i \in Nat
      /\ handling' = IF ~taken THEN handling ELSE [handling EXCEPT ![h] = next]
      /\ UNCHANGED <<paystack, events, row, job, ended>>
      /\ taken => concerns(e)
      /\ ~taken => ~concerns(e) \/ e.what = "charge.success"
  BY DEF handle, providerVars, reminderVars
<1>2. PICK level \in {0, 1, 2} :
        /\ calmIs(level, got \cup {i})
        /\ level <= calm
        /\ level > 0 /\ taken => ~RowInHand /\ ~(IsCreate(i) /\ i \in got)
        /\ level = 2 => calm = 2 /\ ~RowInHand /\ i = Cardinality(got) + 1
  <2>1. calm \in {0, 1, 2}
    BY DEF TypeOK
  <2>2. QED
    BY <2>1 DEF handle, AtMost, IsCreate
<1>3. /\ calm' = level
      /\ level # 0 => \A j \in got \cup {i} : IsCreate(j) => j \in got'
      /\ level = 2 => got' = got \cup {i}
  BY <1>2, HistoryKept
<1>4. taken => /\ next.step \in {"fetch", "save"} /\ next # Idle
               /\ next.sub = row /\ next.event = i
               /\ next.step = "save" => e.what \notin {"invoice.update", "subscription.create"}
  BY Values
<1> HIDE DEF next
<1>5. /\ ~taken => Busy' = Busy
      /\ taken => Busy' = Busy \cup {h}
  BY <1>1, <1>4 DEF Busy, TypeOK
<1> HIDE DEF taken, e
<1>6. Orderly'
  <2> SUFFICES ASSUME level > 0 PROVE Orderly'
    BY <1>3 DEF Orderly
  <2>0. calm > 0 /\ level # 0
    BY <1>2 DEF TypeOK
  <2>1. Alone'
    <3>1. CASE taken
      <4>1. Busy = {} /\ \A p \in Period : ~JobHolds(p)
        BY <1>2, <3>1, FreeToTake
      <4>2. Busy' = {h} /\ \A p \in Period : ~JobHolds(p)'
        BY <1>1, <1>5, <3>1, <4>1 DEF JobHolds
      <4>3. QED
        BY <4>2 DEF Alone
    <3>2. CASE ~taken
      BY <1>1, <1>5, <2>0, <3>2 DEF Orderly, Alone, JobHolds
    <3>3. QED
      BY <3>1, <3>2
  <2>2. \A c : WasCreated(c) => WasCreated(c)'
    BY <1>1, <1>3, <2>0, HistoryStays
  <2>3. ASSUME NEW g \in Busy'
        PROVE  /\ IsRow(handling[g].sub)'
               /\ handling'[g].event \in DOMAIN events'
               /\ handling'[g].step \in {"fetch", "save"}
               /\ handling'[g].step = "fetch" \/ EventOf(g)'.what # "invoice.update" =>
                    handling'[g].sub.period = row'.period
               /\ IF EventOf(g)'.what = "subscription.create"
                  THEN handling'[g].event \in got' /\ EventOf(g)'.code \notin ended'
                  ELSE EventOf(g)'.code = row'.code
    <3>1. CASE g = h /\ taken
      <4>1. handling'[g] = next
        BY <1>1, <3>1 DEF TypeOK
      <4>2. EventOf(g)' = e
        BY <1>1, <1>4, <3>1, <4>1 DEF EventOf, e
      <4>3. CASE e.what = "subscription.create"
        <5>1. IsCreate(i) /\ i \in got'
          BY <1>3, <2>0, <4>3 DEF IsCreate, e
        <5>2. e.code \notin ended
          <6> SUFFICES ASSUME e.code \in ended PROVE FALSE
            OBVIOUS
          <6>1. PICK j \in got : j \in DOMAIN events /\ IsCreate(j) /\ events[j].code = e.code
            BY <2>0 DEF Orderly, WasCreated
          <6>2. j = i
            BY <6>1, <5>1, <1>1, CreatedOnce DEF e
          <6>3. QED
            BY <6>1, <6>2, <5>1, <3>1, <1>2
        <5>3. QED
          BY <1>1, <1>4, <3>1, <4>1, <4>2, <4>3, <5>1, <5>2 DEF IsRow
      <4>4. CASE e.what # "subscription.create"
        <5>1. e.code = row.code
          BY <1>1, <3>1, <4>4 DEF concerns
        <5>2. QED
          BY <1>1, <1>4, <3>1, <4>1, <4>2, <4>4, <5>1 DEF IsRow
      <4>5. QED
        BY <4>3, <4>4
    <3>2. CASE ~(g = h /\ taken)
      <4>1. g \in Busy /\ handling'[g] = handling[g]
        BY <1>1, <1>5, <3>2 DEF Busy, TypeOK
      <4>2. handling[g].event \in DOMAIN events /\ EventOf(g)' = EventOf(g)
        BY <1>1, <2>0, <4>1 DEF Orderly, InHandIsRow, EventOf
      <4>3. EventOf(g).what = "subscription.create" => handling[g].event \in got'
        BY <1>3, <2>0, <4>1 DEF Orderly, InHandIsRow, EventOf, IsCreate
      <4>4. QED
        BY <1>1, <2>0, <4>1, <4>2, <4>3 DEF Orderly, InHandIsRow, IsRow
    <3>3. QED
      BY <3>1, <3>2
  <2>4. InHandIsRow'
    BY <1>1, <2>0, <2>3 DEF Orderly, InHandIsRow, IsRow
  <2>5. QED
    BY <1>1, <2>0, <2>1, <2>2, <2>4 DEF Orderly
<1>7. InOrder'
  <2> SUFFICES ASSUME level = 2 PROVE InOrder'
    BY <1>3 DEF InOrder
  <2>1. calm = 2 /\ Busy = {} /\ i = Cardinality(got) + 1 /\ got' = got \cup {i}
    BY <1>2, <1>3, FreeToTake
  <2>2. PICK k \in 0..Len(events) : got = 1..k /\ Follows(row, k)
    BY <2>1 DEF InOrder
  <2>3. /\ i = k + 1 /\ k \in Nat
        /\ got' = 1..(k + 1)
        /\ k + 1 \in DOMAIN events /\ k + 1 \in 0..Len(events)
    <3>1. Cardinality(1..k) = k
      BY FS_Interval
    <3>2. QED
      BY <1>1, <2>1, <2>2, <3>1 DEF TypeOK
  <2>4. UNCHANGED <<row, events, paystack>> => \A n : Follows(row, n) => Follows(row, n)'
    BY DEF Follows, Says, LastOf, IsCreate, IsDisable, IsUpdate
  <2>5. CASE taken
    <3>1. Busy' = {h} /\ handling'[h] = next
      BY <1>1, <1>5, <2>1, <2>5 DEF TypeOK
    <3>2. /\ next.event = k + 1 /\ k + 1 - 1 = k
          /\ ~(IsUpdate(k + 1)' /\ next.step = "save")
      BY <1>1, <1>4, <2>3, <2>5 DEF IsUpdate, e
    <3>3. QED
      BY <1>1, <2>2, <2>3, <2>4, <3>1, <3>2 DEF InOrder
  <2>6. CASE ~taken
    <3>1. Busy' = {}
      BY <1>5, <2>1, <2>6
    <3>2. ~IsCreate(i)
      <4> SUFFICES ASSUME IsCreate(i) PROVE FALSE
        OBVIOUS
      <4>1. row.code = e.code /\ e.code \in Code
        BY <1>1, <2>6, EventTypes DEF concerns, IsCreate, e
      <4>2. PICK j \in 1..k : IsCreate(j) /\ events[j].code = row.code
        BY <2>2, <4>1, NoneAssumption DEF Follows
      <4>3. j \in DOMAIN events /\ j < i
        BY <2>3, <4>2 DEF TypeOK
      <4>4. QED
        BY <1>1, <4>1, <4>2, <4>3, CreatedOnce DEF e
    <3>3. Follows(row, k + 1)
      <4>1. CASE e.code # row.code
        BY <2>2, <2>3, <3>2, <4>1, FollowsPast DEF e
      <4>2. CASE e.code = row.code
        <5>1. \/ e.what = "charge.success"
              \/ e.what = "subscription.disable" /\ row.plan = "free" /\ row.status = "canceled"
              \/ e.what = "invoice.payment_failed" /\ row.status = "past_due"
          BY <1>1, <2>6, <3>2, <4>2 DEF concerns, IsCreate, e
        <5>2. Says(e.what, row) /\ ~IsUpdate(k + 1)
          BY <5>1, <2>3 DEF Says, IsUpdate, e
        <5>3. QED
          BY <2>2, <2>3, <3>2, <4>2, <5>2, FollowsOn DEF e
      <4>3. QED
        BY <4>1, <4>2
    <3>4. QED
      BY <1>1, <2>3, <2>4, <3>1, <3>3 DEF InOrder
  <2>7. QED
    BY <2>5, <2>6
<1>8. QED
  BY <1>6, <1>7

\* The entity is read again, or its period is fetched.
LEMMA FetchKeepsOrder ==
  ASSUME TypeOK, TypeOK', PlansArePaidFor, Orderly, InOrder,
         NEW h \in Handler, findByCompany(h) \/ fetchSubscription(h)
  PROVE  Orderly' /\ InOrder'
<1>1. /\ UNCHANGED <<paystack, events, row, job, got, ended, calm>>
      /\ handling[h].step = "fetch" /\ handling[h] \in Handling /\ handling[h].sub \in Row
      /\ h \in Busy
  BY Values DEF findByCompany, fetchSubscription, providerVars, reminderVars, historyVars, Busy,
       TypeOK, Handling
<1>2. /\ \A g \in Handler : g # h => handling'[g] = handling[g]
      /\ handling'[h].event = handling[h].event
      /\ handling'[h].step = "save"
  BY <1>1 DEF findByCompany, fetchSubscription, TypeOK, Handling
<1>3. /\ findByCompany(h) => EventOf(h).what = "subscription.create" /\ handling'[h].sub = row
      /\ fetchSubscription(h) =>
           /\ EventOf(h).what = "invoice.update"
           /\ handling'[h].sub.plan = handling[h].sub.plan
           /\ handling'[h].sub.code = handling[h].sub.code
           /\ handling'[h].sub.status = handling[h].sub.status
           /\ handling'[h].sub.cancelAtPeriodEnd = handling[h].sub.cancelAtPeriodEnd
           /\ handling'[h].sub.period = paystack[EventOf(h).code].period
  BY <1>1 DEF findByCompany, fetchSubscription, TypeOK, Handling, Row, EventOf
<1>4. Busy' = Busy
  BY <1>1, <1>2, Values DEF Busy
<1>5. Orderly'
  <2> SUFFICES ASSUME calm > 0 PROVE Orderly'
    BY <1>1 DEF Orderly
  <2>1. Alone'
    BY <1>1, <1>4 DEF Orderly, Alone, JobHolds
  <2>2. \A g \in Busy : EventOf(g)' = EventOf(g) /\ handling'[g].event = handling[g].event
    BY <1>1, <1>2 DEF EventOf, Busy
  <2>3. IsRow(handling[h].sub)'
    BY <1>1, <1>3 DEF Orderly, InHandIsRow, IsRow
  <2>4. InHandIsRow'
    <3>1. ASSUME NEW g \in Busy'
          PROVE  /\ IsRow(handling[g].sub)'
                 /\ handling'[g].event \in DOMAIN events'
                 /\ handling'[g].step \in {"fetch", "save"}
                 /\ handling'[g].step = "fetch" \/ EventOf(g)'.what # "invoice.update" =>
                      handling'[g].sub.period = row'.period
                 /\ IF EventOf(g)'.what = "subscription.create"
                    THEN handling'[g].event \in got' /\ EventOf(g)'.code \notin ended'
                    ELSE EventOf(g)'.code = row'.code
      <4>1. CASE g = h
        BY <1>1, <1>2, <1>3, <2>2, <2>3, <4>1 DEF Orderly, InHandIsRow
      <4>2. CASE g # h
        BY <1>1, <1>2, <1>4, <2>2, <3>1, <4>2 DEF Orderly, InHandIsRow, IsRow, Busy
      <4>3. QED
        BY <4>1, <4>2
    <3>2. QED
      BY <1>1, <3>1 DEF Orderly, InHandIsRow, IsRow
  <2>5. QED
    BY <1>1, <2>1, <2>4 DEF Orderly, WasCreated, IsCreate
<1>6. InOrder'
  <2> SUFFICES ASSUME calm = 2 PROVE InOrder'
    BY <1>1 DEF InOrder
  <2>1. PICK k \in 0..Len(events) :
          got = 1..k /\ \A g \in Busy : handling[g].event = k /\ Follows(row, k - 1)
    BY DEF InOrder
  <2>2. Alone /\ InHandIsRow
    BY DEF Orderly
  <2>3. Busy = {h}
    BY <1>1, <2>2 DEF Alone
  <2>4. ASSUME IsUpdate(k)'
        PROVE  handling'[h].sub.period = paystack'[row'.code].period
    BY <1>1, <1>3, <2>1, <2>2, <2>4 DEF InHandIsRow, IsUpdate, EventOf
  <2>5. Follows(row, k - 1)'
    BY <1>1, <2>1 DEF Follows, Says, LastOf, IsCreate, IsDisable, IsUpdate
  <2>6. QED
    BY <1>1, <1>2, <1>4, <2>1, <2>3, <2>4, <2>5 DEF InOrder
<1>7. QED
  BY <1>5, <1>6

\* The row becomes what the handler has made of it.
LEMMA SaveKeepsOrder ==
  ASSUME TypeOK, TypeOK', StoryIsTold, PlansArePaidFor, Orderly, InOrder,
         NEW h \in Handler, save(h)
  PROVE  Orderly' /\ InOrder'
<1> DEFINE e == EventOf(h)  sub == handling[h].sub
<1>1. /\ UNCHANGED <<paystack, events, job, got, calm>>
      /\ handling[h].step = "save" /\ h \in Busy
      /\ row' = handled(sub, e)
      /\ handling' = [handling EXCEPT ![h] = Idle]
      /\ ended' = IF e.what = "subscription.disable" /\ calm > 0 THEN ended \cup {e.code} ELSE ended
  BY Values DEF save, providerVars, reminderVars, Busy, EventOf
<1>2. /\ sub \in Row /\ e \in Event /\ handling[h].event \in DOMAIN events
      /\ e.code \in Code /\ e.code # None
  <2>1. handling[h] \in Handling /\ handling[h].event \in DOMAIN events
    BY <1>1 DEF TypeOK, InHand
  <2>2. sub \in Row
    BY <2>1 DEF Handling
  <2>3. QED
    BY <2>1, <2>2, EventTypes, NoneAssumption DEF EventOf
<1>3. /\ e.what = "subscription.create" =>
           /\ row'.code = e.code /\ row'.plan = paystack[e.code].plan
           /\ row'.status = "active" /\ row'.period = 1
      /\ e.what # "subscription.create" => row'.code = sub.code /\ row'.period = sub.period
      /\ e.what \notin {"subscription.create", "subscription.disable"} => row'.plan = sub.plan
      /\ Says(e.what, row')
      /\ e.what = "subscription.disable" => row'.plan = "free"
  BY <1>1, <1>2, HandledFields
<1> HIDE DEF e, sub
<1>4. ASSUME calm > 0
      PROVE  /\ Busy = {h} /\ Busy' = {} /\ (\A p \in Period : ~JobHolds(p)) /\ IsRow(sub)
             /\ IF e.what = "subscription.create"
                THEN handling[h].event \in got /\ e.code \notin ended
                ELSE e.code = row.code
             /\ e.what # "invoice.update" => sub.period = row.period
  <2>1. Alone /\ InHandIsRow
    BY <1>4 DEF Orderly
  <2>2. Busy = {h} /\ \A p \in Period : ~JobHolds(p)
    BY <1>1, <2>1 DEF Alone
  <2>3. Busy' = {}
    BY <1>1, <2>2 DEF Busy, TypeOK
  <2>4. QED
    BY <1>1, <2>1, <2>2, <2>3 DEF InHandIsRow, e, sub
<1>5. Orderly'
  <2> SUFFICES ASSUME calm > 0 PROVE Orderly'
    BY <1>1 DEF Orderly
  <2>1. Alone' /\ InHandIsRow'
    BY <1>1, <1>4 DEF Alone, InHandIsRow, JobHolds
  <2>2. \A c : WasCreated(c) => WasCreated(c)'
    BY <1>1 DEF WasCreated, IsCreate
  <2>3. e.what = "subscription.create" => WasCreated(e.code)
    BY <1>2, <1>4 DEF WasCreated, IsCreate, e, EventOf
  <2>4. row.code # None => WasCreated(row.code)
    BY DEF Orderly
  <2>5. \A c \in ended' : WasCreated(c)
    BY <1>1, <1>2, <1>4, <2>4 DEF Orderly
  <2>6. row'.code # None => WasCreated(row'.code)
    BY <1>3, <1>4, <2>3, <2>4 DEF IsRow
  <2>7. row'.code \in ended' => row'.plan = "free"
    BY <1>1, <1>3, <1>4 DEF Orderly, IsRow
  <2>8. QED
    BY <1>1, <2>1, <2>2, <2>5, <2>6, <2>7 DEF Orderly
<1>6. InOrder'
  <2> SUFFICES ASSUME calm = 2 PROVE InOrder'
    BY <1>1 DEF InOrder
  <2>1. PICK k \in 0..Len(events) :
          /\ got = 1..k
          /\ handling[h].event = k
          /\ Follows(row, k - 1)
          /\ /\ IsUpdate(k) /\ handling[h].step = "save"
             /\ \A i \in DOMAIN events : IsUpdate(i) /\ k < i => events[i].code # row.code
             => sub.period = paystack[row.code].period
    BY <1>1 DEF InOrder, sub
  <2>2. /\ k - 1 \in Nat /\ (k - 1) + 1 = k /\ k \in DOMAIN events /\ e = events[k]
    BY <1>2, <2>1 DEF TypeOK, EventOf, e
  <2>3. PICK a, b, n : a = row /\ b = row' /\ n = k - 1
    OBVIOUS
  <2>4. Follows(b, n + 1)
    <3>1. CASE e.what = "subscription.create"
      BY <1>3, <2>2, <2>3, <3>1, FollowsNew DEF IsCreate
    <3>2. CASE e.what # "subscription.create"
      <4>1. /\ ~IsCreate(k) /\ e.code = row.code /\ row'.code = row.code
            /\ ~IsDisable(k) => row'.plan = row.plan
            /\ IF IsUpdate(k)
               THEN (\A i \in DOMAIN events : IsUpdate(i) /\ k < i => events[i].code # row.code)
                      => row'.period = paystack[row.code].period
               ELSE row'.period = row.period
        BY <1>1, <1>3, <1>4, <2>1, <2>2, <3>2 DEF IsRow, IsCreate, IsDisable, IsUpdate
      <4>2. n + 1 = k
        BY <2>2, <2>3
      <4>3. QED
        BY <1>3, <2>1, <2>2, <2>3, <4>1, <4>2, FollowsOn
    <3>3. QED
      BY <3>1, <3>2
  <2>5. Follows(row, k)'
    BY <1>1, <2>2, <2>3, <2>4 DEF Follows, Says, LastOf, IsCreate, IsDisable, IsUpdate
  <2>6. QED
    BY <1>1, <1>4, <2>1, <2>5 DEF InOrder
<1>7. QED
  BY <1>5, <1>6

\* A handler that throws has not touched the row.
LEMMA FailureKeepsOrder ==
  ASSUME TypeOK, TypeOK', Orderly, InOrder, NEW h \in Handler, safeHandle(h)
  PROVE  Orderly' /\ InOrder'
<1>1. /\ UNCHANGED <<paystack, events, row, job, ended>>
      /\ handling' = [handling EXCEPT ![h] = Idle] /\ AtMost(1) \in {0, 1, 2}
      /\ calmIs(AtMost(1), got)
  BY AtMostOne DEF safeHandle, providerVars, reminderVars, TypeOK
<1>2. /\ calm' = AtMost(1)
      /\ AtMost(1) # 0 => \A i \in got : IsCreate(i) => i \in got'
  BY <1>1, HistoryKept
<1>3. Busy' = Busy \ {h} /\ \A g \in Busy' : handling'[g] = handling[g]
  BY <1>1 DEF Busy, TypeOK
<1>4. calm' # 2 /\ (calm' > 0 => calm > 0 /\ AtMost(1) # 0)
  BY <1>2 DEF AtMost, TypeOK
<1>5. Orderly'
  <2> SUFFICES ASSUME calm' > 0 PROVE Orderly'
    BY DEF Orderly
  <2>1. calm > 0 /\ \A i \in got : IsCreate(i) => i \in got'
    BY <1>2, <1>4
  <2>2. \A c : WasCreated(c) => WasCreated(c)'
    BY <1>1, <2>1, HistoryStays
  <2>3. Alone'
    BY <1>1, <1>3, <2>1 DEF Orderly, Alone, JobHolds
  <2>4. InHandIsRow'
    BY <1>1, <1>3, <2>1 DEF Orderly, InHandIsRow, IsRow, EventOf, IsCreate
  <2>5. QED
    BY <1>1, <2>1, <2>2, <2>3, <2>4 DEF Orderly
<1>6. QED
  BY <1>4, <1>5 DEF InOrder

\* The reminder job: what it holds is the row, and what it saves is the row again.
LEMMA JobKeepsOrder ==
  ASSUME TypeOK, TypeOK', Orderly, InOrder, NEW p \in Period,
         findSubscription(p) \/ sendTemplateEmail(p) \/ markReminderSent(p)
           \/ setEmailSent(p) \/ jobFails(p)
  PROVE  Orderly' /\ InOrder'
<1>1. UNCHANGED <<paystack, events, handling, ended>> /\ Busy' = Busy
  BY DEF findSubscription, sendTemplateEmail, markReminderSent, setEmailSent, jobFails,
         providerVars, historyVars, Busy
<1>2. \A q \in Period : job[q] \in Job /\ (q # p => job'[q] = job[q])
  BY DEF findSubscription, sendTemplateEmail, markReminderSent, setEmailSent, jobFails, TypeOK
<1>3. PICK due \in BOOLEAN, level \in {0, 1, 2} :
        /\ level <= calm
        /\ calm' = level
        /\ level # 0 => \A i \in got : IsCreate(i) => i \in got'
        /\ level = 2 => got' = got
        /\ due => /\ findSubscription(p) /\ UNCHANGED row
                  /\ level > 0 => ~RowInHand
                  /\ job'[p].step = "send" /\ job'[p].sub = row
        /\ ~due => /\ \/ ~JobHolds(p)'
                      \/ JobHolds(p) /\ job'[p].sub = job[p].sub
                   /\ job'[p].step \in {"send", "save"} => job[p].step \in {"send", "save"}
        /\ \/ UNCHANGED row
           \/ /\ job[p].step = "save"
              /\ row'.plan = job[p].sub.plan /\ row'.code = job[p].sub.code
              /\ row'.status = job[p].sub.status /\ row'.period = job[p].sub.period
              /\ row'.cancelAtPeriodEnd = job[p].sub.cancelAtPeriodEnd
              /\ job'[p].step = "mark"
  <2>1. CASE findSubscription(p)
    <3> DEFINE d == Remindable /\ ~row.reminded /\ row.period \notin emailSent
               l == IF d /\ RowInHand THEN 0 ELSE calm
    <3>1. d \in BOOLEAN /\ l \in {0, 1, 2} /\ l <= calm
      BY DEF TypeOK, Remindable
    <3>2. calmIs(l, got)
      BY <2>1 DEF findSubscription
    <3>3. /\ calm' = l
          /\ l # 0 => \A i \in got : IsCreate(i) => i \in got'
          /\ l = 2 => got' = got
      BY <3>1, <3>2, HistoryKept
    <3>4. /\ d => job'[p].step = "send" /\ job'[p].sub = row
          /\ ~d => job'[p].step = "kept"
      BY <1>2, <2>1, Values DEF findSubscription, TypeOK, Job, NoJob
    <3>5. UNCHANGED row
      BY <2>1 DEF findSubscription
    <3>6. d /\ l > 0 => ~RowInHand
      OBVIOUS
    <3>7. ~d => ~JobHolds(p)' /\ job'[p].step \notin {"send", "save"}
      BY <3>4 DEF JobHolds
    <3> HIDE DEF d, l
    <3>8. QED
      BY <2>1, <3>1, <3>3, <3>4, <3>5, <3>6, <3>7
  <2>2. CASE ~findSubscription(p)
    <3>1. UNCHANGED <<got, calm>> /\ calm \in {0, 1, 2}
      BY <2>2 DEF sendTemplateEmail, markReminderSent, setEmailSent, jobFails, historyVars, TypeOK
    <3>2. /\ \/ ~JobHolds(p)'
             \/ JobHolds(p) /\ job'[p].sub = job[p].sub
          /\ job'[p].step \in {"send", "save"} => job[p].step \in {"send", "save"}
      <4>1. CASE sendTemplateEmail(p)
        BY <1>2, <4>1 DEF sendTemplateEmail, JobHolds, TypeOK, Job
      <4>2. CASE markReminderSent(p)
        BY <1>2, <4>2 DEF markReminderSent, JobHolds, TypeOK, Job
      <4>3. CASE setEmailSent(p)
        <5>1. job'[p].step = "kept"
          BY <1>2, <4>3, Values DEF setEmailSent, TypeOK, NoJob
        <5>2. QED
          BY <5>1 DEF JobHolds
      <4>4. CASE jobFails(p)
        <5>1. job'[p] = retried(job[p]) /\ job[p].left > 0
          BY <1>2, <4>4 DEF jobFails, TypeOK
        <5>2. job'[p].step \in {"find", "kept"}
          BY <1>2, <5>1, Jobs
        <5>3. QED
          BY <5>2 DEF JobHolds
      <4>5. QED
        BY <2>2, <4>1, <4>2, <4>3, <4>4
    <3>3. \/ UNCHANGED row
          \/ /\ job[p].step = "save"
             /\ row'.plan = job[p].sub.plan /\ row'.code = job[p].sub.code
             /\ row'.status = job[p].sub.status /\ row'.period = job[p].sub.period
             /\ row'.cancelAtPeriodEnd = job[p].sub.cancelAtPeriodEnd
             /\ job'[p].step = "mark"
      <4>1. CASE markReminderSent(p)
        BY <1>2, <4>1 DEF markReminderSent, TypeOK, Job, Row
      <4>2. CASE ~markReminderSent(p)
        BY <2>2, <4>2 DEF sendTemplateEmail, setEmailSent, jobFails
      <4>3. QED
        BY <4>1, <4>2
    <3>4. calm <= calm /\ calm' = calm /\ got' = got
      BY <3>1
    <3> USE <3>1
    <3> WITNESS FALSE \in BOOLEAN, calm \in {0, 1, 2}
    <3>5. QED
      BY <3>2, <3>3, <3>4
  <2>3. QED
    BY <2>1, <2>2
<1>4. ASSUME level > 0
      PROVE  /\ calm > 0
             /\ row'.plan = row.plan /\ row'.code = row.code /\ row'.status = row.status
             /\ row'.period = row.period /\ row'.cancelAtPeriodEnd = row.cancelAtPeriodEnd
  <2>1. calm > 0
    BY <1>3, <1>4 DEF TypeOK
  <2>2. job[p].step = "save" => IsRow(job[p].sub) /\ job[p].sub.period = row.period
    BY <2>1 DEF Orderly, InHandIsRow
  <2>3. QED
    BY <1>3, <2>1, <2>2 DEF IsRow
<1>5. Orderly'
  <2> SUFFICES ASSUME level > 0 PROVE Orderly'
    BY <1>3 DEF Orderly
  <2>0. Alone /\ InHandIsRow /\ calm > 0 /\ level # 0
    BY <1>4 DEF Orderly
  <2>1. Alone'
    <3>1. CASE due
      <4>1. Busy = {} /\ \A q \in Period : ~JobHolds(q)
        BY <1>3, <3>1, FreeToTake
      <4>2. \A q \in Period : JobHolds(q)' => q = p
        BY <1>2, <4>1 DEF JobHolds
      <4>3. QED
        BY <1>1, <4>1, <4>2 DEF Alone
    <3>2. CASE ~due
      <4>1. \A q \in Period : JobHolds(q)' => JobHolds(q)
        BY <1>2, <1>3, <3>2 DEF JobHolds
      <4>2. QED
        BY <1>1, <2>0, <4>1 DEF Alone
    <3>3. QED
      BY <3>1, <3>2
  <2>2. ASSUME NEW q \in Period, job'[q].step \in {"send", "save"}
        PROVE  IsRow(job[q].sub)' /\ job'[q].sub.period = row'.period
    <3>1. CASE q = p /\ due
      BY <1>3, <3>1 DEF IsRow
    <3>2. CASE q = p /\ ~due
      <4>1. JobHolds(p)'
        BY <2>2, <3>2 DEF JobHolds
      <4>2. job'[p].sub = job[p].sub /\ job[p].step \in {"send", "save"}
        BY <1>3, <2>2, <3>2, <4>1
      <4>3. QED
        BY <1>4, <2>0, <3>2, <4>2 DEF InHandIsRow, IsRow
    <3>3. CASE q # p
      BY <1>2, <1>4, <2>0, <2>2, <3>3 DEF InHandIsRow, IsRow
    <3>4. QED
      BY <3>1, <3>2, <3>3
  <2>3. InHandIsRow'
    BY <1>1, <1>3, <1>4, <2>0, <2>2 DEF InHandIsRow, IsRow, EventOf, IsCreate
  <2>4. \A c : WasCreated(c) => WasCreated(c)'
    BY <1>1, <1>3, <2>0, HistoryStays
  <2>5. QED
    BY <1>1, <1>4, <2>1, <2>3, <2>4 DEF Orderly
<1>6. InOrder'
  <2> SUFFICES ASSUME level = 2 PROVE InOrder'
    BY <1>3 DEF InOrder
  <2>1. calm = 2 /\ got' = got
    BY <1>3 DEF TypeOK
  <2>2. ASSUME NEW n, Follows(row, n) PROVE Follows(row, n)'
    <3>1. PICK a, b : a = row /\ b = row'
      OBVIOUS
    <3>2. Follows(b, n)
      BY <1>4, <2>2, <3>1, FollowsLike
    <3>3. QED
      BY <1>1, <3>1, <3>2 DEF Follows, Says, LastOf, IsCreate, IsDisable, IsUpdate
  <2>3. row'.code = row.code
    BY <1>4
  <2>4. QED
    BY <1>1, <2>1, <2>2, <2>3 DEF InOrder, IsUpdate
<1>7. QED
  BY <1>5, <1>6

LEMMA OtherStepsKeepOrder ==
  ASSUME TypeOK, TypeOK', Orderly, InOrder,
         (\E i \in 1..MaxEvents : markExpires(i)) \/ sendExpirationReminders \/ dayPasses \/ UNCHANGED vars
  PROVE  Orderly' /\ InOrder'
<1>1. /\ UNCHANGED <<paystack, events, handling, got, ended, calm>> /\ Busy' = Busy
      /\ row'.plan = row.plan /\ row'.code = row.code /\ row'.status = row.status
      /\ row'.period = row.period /\ row'.cancelAtPeriodEnd = row.cancelAtPeriodEnd
  BY DEF markExpires, sendExpirationReminders, dayPasses, vars, providerVars, historyVars,
         Busy, TypeOK, Row
<1>2. \A p \in Period : job'[p] = job[p] \/ job'[p].step = "find"
  BY ZenonT(60), Values DEF markExpires, sendExpirationReminders, dayPasses, vars, reminderVars, TypeOK, NoJob
<1>3. \A p \in Period : (JobHolds(p)' => JobHolds(p) /\ job'[p] = job[p])
                        /\ (job'[p].step \in {"send", "save"} => JobHolds(p)')
  BY <1>2 DEF JobHolds
<1>4. Orderly'
  <2>1. Alone => Alone'
    BY <1>1, <1>3 DEF Alone
  <2>2. InHandIsRow => InHandIsRow'
    BY <1>1, <1>3 DEF InHandIsRow, IsRow, EventOf
  <2>3. QED
    BY <1>1, <2>1, <2>2 DEF Orderly, WasCreated, IsCreate
<1>5. InOrder'
  <2>1. ASSUME NEW n, Follows(row, n) PROVE Follows(row, n)'
    <3>1. PICK a, b : a = row /\ b = row'
      OBVIOUS
    <3>2. Follows(b, n)
      BY <1>1, <2>1, <3>1, FollowsLike
    <3>3. QED
      BY <1>1, <3>1, <3>2 DEF Follows, Says, LastOf, IsCreate, IsDisable, IsUpdate
  <2>2. QED
    BY <1>1, <2>1 DEF InOrder, IsUpdate
<1>6. QED
  BY <1>4, <1>5

-----------------------------------------------------------------------------
OrderInv == PlansArePaidFor /\ StoryIsTold /\ Orderly /\ InOrder

LEMMA InitOrder == Init => OrderInv
<1> SUFFICES ASSUME Init PROVE OrderInv
  OBVIOUS
<1>1. /\ Busy = {} /\ Len(events) = 0 /\ DOMAIN events = {} /\ got = {} /\ got = 1..0
      /\ row.code = None /\ row.plan = "free" /\ calm = 2 /\ ended = {}
      /\ \A p \in Period : job[p].step = "none"
      /\ \A c \in Code : ~Exists(c)
  BY Values DEF Init, Busy, FreeRow, Exists
<1>2. StoryIsTold
  BY <1>1 DEF StoryIsTold, Created
<1>3. Orderly
  BY <1>1 DEF Orderly, Alone, InHandIsRow, JobHolds
<1>4. InOrder
  <2>1. Follows(row, 0)
    BY <1>1 DEF Follows
  <2>2. QED
    BY <1>1, <2>1 DEF InOrder
<1>5. QED
  BY <1>2, <1>3, <1>4, InitPlans DEF OrderInv

LEMMA NextOrder == TypeOK /\ TypeOK' /\ OrderInv /\ [Next]_vars => OrderInv'
<1> SUFFICES ASSUME TypeOK, TypeOK', OrderInv, [Next]_vars PROVE OrderInv'
  OBVIOUS
<1>1. PlansArePaidFor /\ StoryIsTold /\ Orderly /\ InOrder
  BY DEF OrderInv
<1>2. PlansArePaidFor' /\ StoryIsTold'
  BY <1>1, NextPlans, StoryStep
<1>3. Orderly' /\ InOrder'
  <2>1. ASSUME NEW c \in Code, (\E plan \in PaidPlan : subscribes(c, plan))
                                 \/ renews(c) \/ chargeFails(c) \/ cancels(c) \/ ends(c)
        PROVE  Orderly' /\ InOrder'
    BY <1>1, <2>1, Growing, PaystackKeepsOrder
  <2>2. ASSUME NEW h \in Handler, NEW i \in 1..MaxEvents, handle(h, i)
        PROVE  Orderly' /\ InOrder'
    BY <1>1, <2>2, HandleKeepsOrder
  <2>3. ASSUME NEW h \in Handler,
               findByCompany(h) \/ fetchSubscription(h) \/ save(h) \/ safeHandle(h)
        PROVE  Orderly' /\ InOrder'
    BY <1>1, <2>3, FetchKeepsOrder, SaveKeepsOrder, FailureKeepsOrder
  <2>4. ASSUME NEW p \in Period, findSubscription(p) \/ sendTemplateEmail(p) \/ markReminderSent(p)
                                  \/ setEmailSent(p) \/ jobFails(p)
        PROVE  Orderly' /\ InOrder'
    BY <1>1, <2>4, JobKeepsOrder
  <2>5. CASE (\E i \in 1..MaxEvents : markExpires(i)) \/ sendExpirationReminders \/ dayPasses
               \/ UNCHANGED vars
    BY <1>1, <2>5, OtherStepsKeepOrder
  <2>6. QED
    BY <2>1, <2>2, <2>3, <2>4, <2>5 DEF Next
<1>4. QED
  BY <1>2, <1>3 DEF OrderInv

\* A row that was downgraded with its subscription stays on the free plan, however late
\* or often the webhooks come, as long as no two have the row in hand at once and no
\* older creation is taken again: a subscription is created once, so that what makes the
\* row its own again has been delivered before.
THEOREM EndedStaysFree == Spec => []EndedIsFree
<1>1. OrderInv => EndedIsFree
  BY DEF OrderInv, Orderly, EndedIsFree
<1>2. QED
  BY <1>1, Typing, InitOrder, NextOrder, PTL DEF Spec

\* When all webhooks have come in order, alone and without failure, the row is what
\* Paystack has: its plan, its period and its state.
THEOREM RowIsPaystacks == Spec => []RowFollowsPaystack
<1>1. TypeOK /\ OrderInv => RowFollowsPaystack
  <2> SUFFICES ASSUME TypeOK, OrderInv, calm = 2, Busy = {}, got = DOMAIN events, Created # {}
               PROVE  LET theirs == paystack[current] IN
                      /\ row.code = current
                      /\ row.period = theirs.period
                      /\ row.plan = IF theirs.state = "ended" THEN "free" ELSE theirs.plan
                      /\ theirs.state = "active" => row.status = "active"
                      /\ theirs.state = "attention" => row.status = "past_due"
                      /\ theirs.state = "non-renewing" => row.cancelAtPeriodEnd
                      /\ theirs.state = "ended" => row.status = "canceled"
    BY DEF RowFollowsPaystack
  <2>0. StoryIsTold /\ InOrder /\ PlansArePaidFor
    BY DEF OrderInv
  <2>1. PICK n \in Nat : n = Len(events) /\ DOMAIN events = 1..n
    BY DEF TypeOK
  <2>2. Follows(row, n)
    <3>1. PICK k \in 0..n : 1..n = 1..k /\ Follows(row, k)
      BY <2>0, <2>1 DEF InOrder
    <3>2. k = n
      <4>1. n > 0 => n \in 1..k
        BY <2>1, <3>1
      <4>2. QED
        BY <2>1, <3>1, <4>1
    <3>3. QED
      BY <3>1, <3>2
  <2>3. PICK i \in Created : (\A j \in Created : j <= i) /\ current = events[i].code
    BY <2>0 DEF StoryIsTold, current
  <2>4. row.code = current /\ current \in Code /\ Exists(current) /\ current # None
    <3>1. i \in 1..n /\ IsCreate(i) /\ \A j \in 1..n : IsCreate(j) => j <= i
      BY <2>1, <2>3 DEF Created, IsCreate
    <3>2. row.code = current
      BY <2>2, <2>3, <3>1 DEF Follows
    <3>3. QED
      BY <2>0, <2>1, <2>3, <3>1, <3>2, NoneAssumption DEF PlansArePaidFor, Exists
  <2>5. PICK l \in 1..n : LastOf(current, l, n)
    BY <2>0, <2>1, <2>4 DEF StoryIsTold
  <2>6. /\ Says(events[l].what, row)
        /\ events[l].what \in What \ {"charge.success"}
        /\ paystack[current].state = stateTold[events[l].what]
    <3>1. events[l].code = current /\ l \in DOMAIN events
      BY <2>1, <2>5 DEF LastOf
    <3>2. QED
      BY <2>0, <2>1, <2>2, <2>4, <2>5, <3>1, EventTypes DEF StoryIsTold, Follows
  <2>7. row.period = paystack[current].period
    BY <2>1, <2>2, <2>4 DEF Follows
  <2>8. paystack[current].state # "ended" => row.plan = paystack[current].plan
    <3> SUFFICES ASSUME paystack[current].state # "ended" PROVE row.plan = paystack[current].plan
      OBVIOUS
    <3>1. \A j \in 1..n : IsDisable(j) => events[j].code # current
      BY <2>0, <2>1, EndIsTold
    <3>2. QED
      BY <2>2, <2>4, <3>1 DEF Follows
  <2>9. /\ paystack[current].state = "active" => row.status = "active"
        /\ paystack[current].state = "attention" => row.status = "past_due"
        /\ paystack[current].state = "non-renewing" => row.cancelAtPeriodEnd
        /\ paystack[current].state = "ended" => row.status = "canceled" /\ row.plan = "free"
    BY <2>6 DEF Says, stateTold, What
  <2>10. QED
    BY <2>4, <2>7, <2>8, <2>9
<1>2. QED
  BY <1>1, Typing, InitOrder, NextOrder, PTL DEF Spec

=============================================================================
