---------------------------- MODULE OrderStatus ----------------------------
(***************************************************************************)
(* The status vocabulary that orders, stops and trips share, and the       *)
(* tables the services consult before they change a status.                *)
(***************************************************************************)
EXTENDS Naturals

Absent == "absent"   \* no such row

OrderStatus ==
  {"pending", "assigned", "picked_up", "in_transit", "delivered", "cancelled", "failed"}

StopStatus == {"pending", "arrived", "completed", "skipped", "failed"}

\* Variants of the two tables below, each a plausible slip; they are used to
\* show that the properties can fail.
RetryFromPending ==
  [pending    |-> {"assigned", "cancelled"},
   assigned   |-> {"picked_up", "cancelled"},
   picked_up  |-> {"in_transit", "cancelled"},
   in_transit |-> {"delivered", "failed"},
   delivered  |-> {},
   cancelled  |-> {},
   failed     |-> {"pending"}]

ReturnAfterDelivery == [RetryFromPending EXCEPT !.delivered = {"failed"}, !.failed = {"assigned"}]

\* The moves a status change may make.
ALLOWED_ORDER_STATUS_TRANSITIONS ==
  [pending    |-> {"assigned", "cancelled"},
   assigned   |-> {"picked_up", "cancelled"},
   picked_up  |-> {"in_transit", "cancelled"},
   in_transit |-> {"delivered", "failed"},
   delivered  |-> {},
   cancelled  |-> {},
   failed     |-> {"assigned"}]

DELETABLE_ORDER_STATUSES == {"pending", "cancelled"}

LOCKED_ORDER_STATUSES == {"delivered", "cancelled", "failed"}

\* The run of statuses a stop operation takes an order through before its own.
ORDER_PROGRESSION == [assigned |-> 1, picked_up |-> 2, in_transit |-> 3]

\* What advanceOrderTo leaves in the row: an order off the progression, or
\* already at the target, is silently left as it is.
advanceOrderTo(s, target) ==
  IF s \in DOMAIN ORDER_PROGRESSION /\ ORDER_PROGRESSION[s] < ORDER_PROGRESSION[target]
  THEN target
  ELSE s

\* Stop statuses that count as done; deriveTripStatus is a function of the
\* set of statuses a trip's stops have. A trip with no stop is completed.
RESOLVED_STATUSES == {"completed", "skipped", "failed"}

deriveTripStatus(stops) ==
  IF stops \subseteq RESOLVED_STATUSES THEN "completed"
  ELSE IF stops # {"pending"} THEN "in_progress"
  ELSE "scheduled"

=============================================================================
