--------------------------- MODULE Subscriptions ---------------------------
(***************************************************************************)
(* The subscription row of one company. Paystack bills the company's       *)
(* subscriptions and tells of it by webhooks, which may be repeated, come  *)
(* in any order or be lost in a handler that fails; each handler reads the *)
(* row, without a lock, and saves it. A job reminds the owner of a period  *)
(* that ends. TypeORM's save writes every column in which the entity       *)
(* differs from the row, so that the row becomes the entity, stale columns *)
(* included.                                                               *)
(***************************************************************************)
EXTENDS Naturals, Sequences, FiniteSets

CONSTANTS
  Code,        \* subscription codes at Paystack
  PaidPlan,    \* the plans it knows
  Handler,     \* webhooks there can be in hand at a time
  None,
  MaxEvents,   \* bounds of the model: webhooks Paystack has to tell
  MaxPeriod,   \* billing periods
  Period,      \* and the periods of which a reminder is due
  ATTEMPTS     \* of a reminder job

ASSUME NoneAssumption == None \notin Code /\ "free" \notin PaidPlan
ASSUME BoundAssumption == MaxEvents \in Nat /\ MaxPeriod \in Nat \ {0} /\ ATTEMPTS \in Nat \ {0}
                          /\ Period \subseteq 1..MaxPeriod

VARIABLES
  paystack,    \* Paystack's subscriptions
  events,      \* the webhooks Paystack sends, in order
  row,         \* the row of subscriptions
  processed,   \* the charges marked as processed
  handling,    \* the webhook each handler has in hand, and the entity it has read
  job,         \* the reminder job of each period
  emailSent,   \* the periods whose reminder-email key is set
  got,         \* history: the webhooks that have been delivered
  emailed,     \* history: reminders sent for a period
  ended,       \* history: codes for which the row was downgraded
  calm         \* history: how orderly it has been

providerVars == <<paystack, events>>
reminderVars == <<job, emailSent, emailed>>
historyVars == <<got, ended, calm>>
vars == <<providerVars, row, processed, handling, reminderVars, historyVars>>

Plan == PaidPlan \cup {"free"}

Row == [plan : Plan, status : {"active", "canceled", "past_due"}, code : Code \cup {None},
        period : 0..MaxPeriod, cancelAtPeriodEnd : BOOLEAN, reminded : BOOLEAN]

What == {"charge.success", "subscription.create", "subscription.not_renew",
         "subscription.disable", "invoice.update", "invoice.payment_failed"}
Event == [what : What, code : Code]

FreeRow == [plan |-> "free", status |-> "active", code |-> None, period |-> 0,
            cancelAtPeriodEnd |-> FALSE, reminded |-> FALSE]

Subscription == [state : {"none", "active", "attention", "non-renewing", "ended"},
                 plan : Plan, period : 0..MaxPeriod]
Handling == [event : 0..MaxEvents, step : {"idle", "fetch", "save"}, sub : Row]
Job == [step : {"none", "find", "send", "save", "mark", "kept"}, left : 0..ATTEMPTS, sub : Row]

Idle == [event |-> 0, step |-> "idle", sub |-> FreeRow]
NoJob == [step |-> "none", left |-> 0, sub |-> FreeRow]

InHand == \A h \in Handler : handling[h].step # "idle" => handling[h].event \in DOMAIN events

TypeOK ==
  /\ paystack \in [Code -> Subscription]
  /\ events \in Seq(Event) /\ Len(events) <= MaxEvents
  /\ row \in Row
  /\ processed \subseteq 1..MaxEvents /\ got \subseteq 1..MaxEvents
  /\ handling \in [Handler -> Handling]
  /\ InHand
  /\ job \in [Period -> Job]
  /\ \A p \in Period : job[p].step \notin {"none", "kept"} => job[p].left > 0
  /\ emailSent \subseteq 0..MaxPeriod
  /\ emailed \in [0..MaxPeriod -> 0..2]
  /\ ended \subseteq Code
  /\ calm \in 0..2

Init ==
  /\ paystack = [c \in Code |-> [state |-> "none", plan |-> "free", period |-> 0]]
  /\ events = <<>>
  /\ row = FreeRow                        \* createSubscription, at onboarding
  /\ processed = {} /\ got = {}
  /\ handling = [h \in Handler |-> Idle]
  /\ job = [p \in Period |-> NoJob]
  /\ emailSent = {}
  /\ emailed = [n \in 0..MaxPeriod |-> 0]
  /\ ended = {}
  /\ calm = 2

-----------------------------------------------------------------------------
(* Paystack *)

Tells(c, whats) ==
  /\ Len(events) + Len(whats) <= MaxEvents
  /\ events' = events \o [i \in DOMAIN whats |-> [what |-> whats[i], code |-> c]]
  /\ UNCHANGED <<row, processed, handling, reminderVars, historyVars>>

\* A checkout is paid for: nothing keeps a company from having two subscriptions.
subscribes(c, plan) ==
  /\ paystack[c].state = "none"
  /\ paystack' = [paystack EXCEPT ![c] = [state |-> "active", plan |-> plan, period |-> 1]]
  /\ Tells(c, <<"subscription.create">>)

\* A period is paid for, at once or when the charge is tried again.
renews(c) ==
  /\ paystack[c].state \in {"active", "attention"}
  /\ paystack[c].period < MaxPeriod
  /\ paystack' = [paystack EXCEPT ![c].state = "active", ![c].period = @ + 1]
  /\ Tells(c, <<"charge.success", "invoice.update">>)

chargeFails(c) ==
  /\ paystack[c].state = "active"
  /\ paystack' = [paystack EXCEPT ![c].state = "attention"]
  /\ Tells(c, <<"invoice.payment_failed">>)

\* The owner cancels, by BillingController.cancelSubscription or at Paystack.
cancels(c) ==
  /\ paystack[c].state \in {"active", "attention"}
  /\ paystack' = [paystack EXCEPT ![c].state = "non-renewing"]
  /\ Tells(c, <<"subscription.not_renew">>)

ends(c) ==
  /\ paystack[c].state \in {"attention", "non-renewing"}
  /\ paystack' = [paystack EXCEPT ![c].state = "ended"]
  /\ Tells(c, <<"subscription.disable">>)

-----------------------------------------------------------------------------
(* PaystackWebhookHandlerService: what each handler makes of the entity *)

chargeSuccess(sub) ==
  [sub EXCEPT !.status = IF sub.status = "past_due" THEN "active" ELSE @]

createForgetsCode(sub, c) ==
  [sub EXCEPT !.plan = paystack[c].plan, !.status = "active", !.period = 1, !.reminded = FALSE]

\* updateFromPaystackSubscription. The cancellation flag is left as it is.
subscriptionCreate(sub, c) ==
  [sub EXCEPT !.plan = paystack[c].plan, !.status = "active", !.period = 1,
              !.code = c, !.reminded = FALSE]

subscriptionNotRenew(sub) == [sub EXCEPT !.cancelAtPeriodEnd = TRUE]

cancelOnly(sub) == [sub EXCEPT !.status = "canceled", !.cancelAtPeriodEnd = FALSE]

subscriptionDisable(sub) ==
  [sub EXCEPT !.plan = "free", !.status = "canceled", !.cancelAtPeriodEnd = FALSE]

\* The period has been fetched. The reminder is not reset.
invoiceUpdate(sub) == [sub EXCEPT !.status = "active", !.cancelAtPeriodEnd = FALSE]

markPastDue(sub) == [sub EXCEPT !.status = "past_due"]

handled(sub, e) ==
  CASE e.what = "charge.success" -> chargeSuccess(sub)
    [] e.what = "subscription.create" -> subscriptionCreate(sub, e.code)
    [] e.what = "subscription.not_renew" -> subscriptionNotRenew(sub)
    [] e.what = "subscription.disable" -> subscriptionDisable(sub)
    [] e.what = "invoice.update" -> invoiceUpdate(sub)
    [] e.what = "invoice.payment_failed" -> markPastDue(sub)

\* The row is looked up by the code; what has been done already is skipped.
concerns(e) ==
  IF e.what = "subscription.create" THEN row.code # e.code
  ELSE /\ row.code = e.code
       /\ e.what = "subscription.disable" => ~(row.plan = "free" /\ row.status = "canceled")
       /\ e.what = "invoice.payment_failed" => row.status # "past_due"

Busy == {h \in Handler : handling[h] # Idle}
RowInHand == Busy # {} \/ \E p \in Period : job[p].step \in {"send", "save", "mark"}

\* 2: one webhook at a time, in order, once and without failure. 1: no two had the row
\* in hand at once, and no subscription.create was taken that had come before. 0: any.
AtMost(n) == IF calm > n THEN n ELSE calm

\* The history is kept as long as a property asks for it.
calmIs(level, delivered) ==
  /\ calm' = level
  /\ got' = CASE level = 2 -> delivered
              [] level = 1 -> {i \in delivered : events[i].what = "subscription.create"}
              [] OTHER -> {}

\* A webhook is delivered, in whatever order and however often. A charge is
\* marked as processed before it is.
handle(h, i) ==
  LET e == events[i]
      taken == concerns(e) /\ ~(e.what = "charge.success" /\ i \in processed)
  IN
  /\ handling[h] = Idle
  /\ i \in DOMAIN events
  /\ processed' = IF e.what = "charge.success" THEN processed \cup {i} ELSE processed
  /\ handling' = IF ~taken THEN handling
                 ELSE [handling EXCEPT ![h] =
                        [event |-> i, sub |-> row,
                         step |-> IF e.what \in {"invoice.update", "subscription.create"}
                                  THEN "fetch" ELSE "save"]]
  /\ calmIs(IF taken /\ (RowInHand \/ (e.what = "subscription.create" /\ i \in got)) THEN 0
            ELSE IF RowInHand \/ i # Cardinality(got) + 1 THEN AtMost(1) ELSE calm,
            got \cup {i})
  /\ UNCHANGED <<providerVars, row, reminderVars, ended>>

\* updateFromPaystackSubscription finds the row by the company.
findByCompany(h) ==
  /\ handling[h].step = "fetch"
  /\ events[handling[h].event].what = "subscription.create"
  /\ handling' = [handling EXCEPT ![h].step = "save", ![h].sub = row]
  /\ UNCHANGED <<providerVars, row, processed, reminderVars, historyVars>>

fetchNothing(h) ==
  /\ handling[h].step = "fetch"
  /\ events[handling[h].event].what = "invoice.update"
  /\ handling' = [handling EXCEPT ![h].step = "save"]
  /\ UNCHANGED <<providerVars, row, processed, reminderVars, historyVars>>

\* invoice.update asks Paystack for the subscription.
fetchSubscription(h) ==
  /\ handling[h].step = "fetch"
  /\ events[handling[h].event].what = "invoice.update"
  /\ handling' = [handling EXCEPT ![h].step = "save",
                    ![h].sub.period = paystack[events[handling[h].event].code].period]
  /\ UNCHANGED <<providerVars, row, processed, reminderVars, historyVars>>

save(h) ==
  LET e == events[handling[h].event] IN
  /\ handling[h].step = "save"
  /\ row' = handled(handling[h].sub, e)
  /\ handling' = [handling EXCEPT ![h] = Idle]
  /\ ended' = IF e.what = "subscription.disable" /\ calm > 0 THEN ended \cup {e.code} ELSE ended
  /\ UNCHANGED <<providerVars, processed, reminderVars, got, calm>>

\* safeHandle swallows what a handler throws, and Paystack is told 200.
safeHandle(h) ==
  /\ handling[h] # Idle
  /\ handling' = [handling EXCEPT ![h] = Idle]
  /\ calmIs(AtMost(1), got)
  /\ UNCHANGED <<providerVars, row, processed, reminderVars, ended>>

\* The mark of a charge expires, or Redis could not keep it.
markExpires(i) ==
  /\ i \in processed
  /\ processed' = processed \ {i}
  /\ UNCHANGED <<providerVars, row, handling, reminderVars, historyVars>>

-----------------------------------------------------------------------------
(* SubscriptionReminderService and SubscriptionReminderProcessor *)

Remindable == row.plan # "free" /\ row.status = "active" /\ row.period \in Period

\* The daily run. A period's job is added once: it is kept under its id.
sendExpirationReminders ==
  /\ Remindable
  /\ job[row.period].step = "none"
  /\ job' = [job EXCEPT ![row.period] = [NoJob EXCEPT !.step = "find", !.left = ATTEMPTS]]
  /\ UNCHANGED <<providerVars, row, processed, handling, emailSent, emailed, historyVars>>

\* The job reads the row and checks what it can.
findSubscription(p) ==
  LET due == Remindable /\ ~row.reminded /\ row.period \notin emailSent IN
  /\ job[p].step = "find"
  /\ job' = [job EXCEPT ![p] = IF due THEN [@ EXCEPT !.step = "send", !.sub = row]
                               ELSE [NoJob EXCEPT !.step = "kept"]]
  /\ calmIs(IF due /\ RowInHand THEN 0 ELSE calm, got)
  /\ UNCHANGED <<providerVars, row, processed, handling, emailSent, emailed, ended>>

sendTemplateEmail(p) ==
  /\ job[p].step = "send"
  /\ emailed' = [emailed EXCEPT ![job[p].sub.period] = IF @ < 2 THEN @ + 1 ELSE @]
  /\ job' = [job EXCEPT ![p].step = "save"]
  /\ UNCHANGED <<providerVars, row, processed, handling, emailSent, historyVars>>

markReminderSent(p) ==
  /\ job[p].step = "save"
  /\ row' = [job[p].sub EXCEPT !.reminded = TRUE]
  /\ job' = [job EXCEPT ![p].step = "mark"]
  /\ UNCHANGED <<providerVars, processed, handling, emailSent, emailed, historyVars>>

setEmailSent(p) ==
  /\ job[p].step = "mark"
  /\ emailSent' = emailSent \cup {job[p].sub.period}
  /\ job' = [job EXCEPT ![p] = [NoJob EXCEPT !.step = "kept"]]
  /\ UNCHANGED <<providerVars, row, processed, handling, emailed, historyVars>>

retried(j) ==
  IF j.left > 1 THEN [NoJob EXCEPT !.step = "find", !.left = j.left - 1]
  ELSE [NoJob EXCEPT !.step = "kept"]

jobFails(p) ==
  /\ job[p].step \in {"find", "send", "save", "mark"}
  /\ job' = [job EXCEPT ![p] = retried(@)]
  /\ UNCHANGED <<providerVars, row, processed, handling, emailSent, emailed, historyVars>>

\* A day on, the reminder is no longer a recent one and its key has expired.
dayPasses ==
  /\ Busy = {} /\ \A p \in Period : job[p].step \in {"none", "kept"}
  /\ row.reminded \/ emailSent # {}
  /\ row' = [row EXCEPT !.reminded = FALSE]
  /\ emailSent' = {}
  /\ UNCHANGED <<providerVars, processed, handling, job, emailed, historyVars>>

-----------------------------------------------------------------------------
Next ==
  \/ \E c \in Code :
       \/ \E plan \in PaidPlan : subscribes(c, plan)
       \/ renews(c) \/ chargeFails(c) \/ cancels(c) \/ ends(c)
  \/ \E h \in Handler :
       \/ \E i \in 1..MaxEvents : handle(h, i)
       \/ findByCompany(h) \/ fetchSubscription(h) \/ save(h) \/ safeHandle(h)
  \/ \E i \in 1..MaxEvents : markExpires(i)
  \/ sendExpirationReminders \/ dayPasses
  \/ \E p \in Period :
       \/ findSubscription(p) \/ sendTemplateEmail(p) \/ markReminderSent(p)
       \/ setEmailSent(p) \/ jobFails(p)

Spec == Init /\ [][Next]_vars

-----------------------------------------------------------------------------
Created == {i \in DOMAIN events : events[i].what = "subscription.create"}

\* The subscription created last.
current ==
  events[CHOOSE i \in Created : \A j \in Created : j <= i].code

\* When every webhook has come once, in order and alone, and none has failed, the
\* row says what Paystack says of the subscription created last.
RowFollowsPaystack ==
  calm = 2 /\ Busy = {} /\ got = DOMAIN events /\ Created # {} =>
    LET theirs == paystack[current] IN
    /\ row.code = current
    /\ row.period = theirs.period
    /\ row.plan = IF theirs.state = "ended" THEN "free" ELSE theirs.plan
    /\ theirs.state = "active" => row.status = "active"
    /\ theirs.state = "attention" => row.status = "past_due"
    /\ theirs.state = "non-renewing" => row.cancelAtPeriodEnd
    /\ theirs.state = "ended" => row.status = "canceled"

\* A row that was downgraded for its subscription stays on the free plan, whatever
\* comes late, again or not at all, unless two had the row in hand at once or
\* the creation of an older subscription is delivered again.
EndedIsFree ==
  row.code \in ended /\ calm > 0 => row.plan = "free"

\* Whatever is lost, repeated, reordered or overwritten, the plan is the free one or
\* the one the row's subscription was bought for, never that of another one.
PlanIsPaidFor ==
  row.plan # "free" => row.code # None /\ row.plan = paystack[row.code].plan

\* "Prevents duplicate emails if the job retries after save() fails": the owner is
\* reminded once of a period.
OneEmailPerPeriod == \A p \in Period : emailed[p] <= 1
=============================================================================
