------------------------------ MODULE Billing ------------------------------
(***************************************************************************)
(* The organisation's subscription (BillingService): a row that mirrors a   *)
(* subscription kept by Stripe.  Users change the plan through the API,     *)
(* Stripe reports what happened through webhooks: delivered in any order,   *)
(* several at once, again when the answer was not a success.                *)
(***************************************************************************)
EXTENDS Integers, Sequences

CONSTANTS
  Subs,        \* ids of Stripe subscriptions
  None,        \* no externalSubscriptionId
  Paid,        \* the plans that cost something
  Free,        \* the default plan
  Handlers,    \* deliveries of webhooks handled at the same time
  Admins,      \* requests of changePlan at work at the same time
  MaxEvents,   \* bound: events Stripe sends
  MaxMishaps   \* bound: crashes and exceptions

Plans == Paid \cup {Free}

ASSUME BillingAssumption ==
  /\ None \notin Subs /\ Free \notin Paid
  /\ MaxEvents \in Nat /\ MaxMishaps \in Nat

VARIABLES
  row,        \* the organisation's Subscription row
  stripe,     \* the subscriptions as Stripe has them
  events,     \* what Stripe sends, in the order in which it happened
  answered,   \* the events whose delivery was answered with a success
  claim,      \* BillingWebhookEvent.status, by event
  job,        \* the deliveries at work
  admin,      \* the changes of plan at work
  applied,    \* history: how often each event has changed the row
  hurt,       \* history: events whose handler crashed or threw
  disturbed,  \* history: an event was overtaken by a later one, a change of
              \* plan by an event, or a subscription by a second one
  mishaps

mirror == <<row, applied, disturbed>>
queue  == <<answered, claim, job, hurt>>
vars   == <<mirror, queue, stripe, events, admin, mishaps>>

Ids       == 1 .. MaxEvents
Statuses  == {"ACTIVE", "PAST_DUE", "CANCELED"}
Blocked   == {"CANCELED"}   \* of the statuses the webhooks can set
EventType == [type : {"checkout", "subscription", "paid", "failed"}, sub : Subs,
              plan : Plans, status : Statuses, ending : BOOLEAN]
NoJob     == [at |-> "idle", event |-> 0]
NoChange  == [at |-> "idle", plan |-> Free, ext |-> None, late |-> FALSE]

TypeOK ==
  /\ row \in [plan : Plans, status : Statuses, ext : Subs \cup {None}, ending : BOOLEAN]
  /\ stripe \in [Subs -> [status : Statuses \cup {"none", "session"},
                          plan : Plans, ending : BOOLEAN]]
  /\ events \in Seq(EventType) /\ Len(events) <= MaxEvents
  /\ answered \subseteq Ids /\ hurt \subseteq Ids
  /\ claim \in [Ids -> {"none", "processing", "processed", "error"}]
  /\ job \in [Handlers -> [at : {"idle", "apply", "mark"}, event : Ids \cup {0}]]
  /\ admin \in [Admins -> [at : {"idle", "stripe", "session", "write"}, plan : Plans,
                           ext : Subs \cup {None}, late : BOOLEAN]]
  /\ \A a \in Admins : admin[a].at = "stripe" => admin[a].ext \in Subs
  /\ applied \in [Ids -> Nat] /\ disturbed \in BOOLEAN /\ mishaps \in Nat

Init ==
  /\ row = [plan |-> Free, status |-> "ACTIVE", ext |-> None, ending |-> FALSE]
  /\ stripe = [s \in Subs |-> [status |-> "none", plan |-> Free, ending |-> FALSE]]
  /\ events = <<>>
  /\ answered = {} /\ hurt = {}
  /\ claim = [e \in Ids |-> "none"]
  /\ job = [h \in Handlers |-> NoJob]
  /\ admin = [a \in Admins |-> NoChange]
  /\ applied = [e \in Ids |-> 0]
  /\ disturbed = FALSE /\ mishaps = 0

-----------------------------------------------------------------------------
(* Stripe, as far as the code here relies on it                             *)
Event(type, s, r) ==
  [type |-> type, sub |-> s, plan |-> r.plan, status |-> r.status, ending |-> r.ending]

(* subscription s becomes r and Stripe reports it in events of these types  *)
Becomes(s, r, types) ==
  /\ Len(events) + Len(types) <= MaxEvents
  /\ stripe' = [stripe EXCEPT ![s] = r]
  /\ events' = events \o [i \in 1 .. Len(types) |-> Event(types[i], s, r)]

Live(s) == stripe[s].status \in {"ACTIVE", "PAST_DUE"}

(* the customer pays in a Checkout session (the invoice is Drift's)         *)
Pay(s) ==
  /\ stripe[s].status = "session"
  /\ Becomes(s, [stripe[s] EXCEPT !.status = "ACTIVE"],
             <<"subscription", "checkout">>)
  /\ disturbed' = (disturbed \/ \E t \in Subs : Live(t))
  /\ UNCHANGED <<queue, row, applied, admin, mishaps>>

(* an invoice is paid, a payment fails, a later one succeeds, the           *)
(* subscription ends (at the end of the period, or because it stayed        *)
(* unpaid), the customer cancels in the portal                              *)
Drift(s) ==
  /\ \/ /\ stripe[s].status = "ACTIVE"
        /\ Becomes(s, stripe[s], <<"paid">>)
     \/ /\ stripe[s].status = "ACTIVE"
        /\ Becomes(s, [stripe[s] EXCEPT !.status = "PAST_DUE"], <<"failed", "subscription">>)
     \/ /\ stripe[s].status = "PAST_DUE"
        /\ Becomes(s, [stripe[s] EXCEPT !.status = "ACTIVE"], <<"paid", "subscription">>)
     \/ /\ (Live(s) /\ stripe[s].ending) \/ stripe[s].status = "PAST_DUE"
        /\ Becomes(s, [stripe[s] EXCEPT !.status = "CANCELED"], <<"subscription">>)
     \/ /\ Live(s) /\ ~stripe[s].ending
        /\ Becomes(s, [stripe[s] EXCEPT !.ending = TRUE], <<"subscription">>)
  /\ UNCHANGED <<mirror, queue, admin, mishaps>>

-----------------------------------------------------------------------------
(* changePlan looks the row up: a plan that costs something goes to the     *)
(* subscription there is, or else to a Checkout session; the free plan is   *)
(* written at once when there is no subscription to end first               *)
Ask(a, p) ==
  /\ admin[a].at = "idle"
  /\ admin' = [admin EXCEPT ![a] =
       [at   |-> IF row.ext # None THEN "stripe"
                 ELSE IF p = Free THEN "write" ELSE "session",
        plan |-> p, ext |-> row.ext, late |-> FALSE]]
  /\ UNCHANGED <<mirror, queue, stripe, events, mishaps>>

OpenSession(a, s) ==
  /\ admin[a].at = "session" /\ stripe[s].status = "none"
  /\ stripe' = [stripe EXCEPT ![s] =
                  [status |-> "session", plan |-> admin[a].plan, ending |-> FALSE]]
  /\ admin' = [admin EXCEPT ![a] = NoChange]
  /\ UNCHANGED <<mirror, queue, events, mishaps>>

(* stripe.subscriptions.update: new price and plan, or cancel at the end of *)
(* the period with the free plan in the metadata                            *)
CallStripe(a) ==
  /\ admin[a].at = "stripe" /\ Live(admin[a].ext)
  /\ Becomes(admin[a].ext, [status |-> stripe[admin[a].ext].status,
                            plan |-> admin[a].plan, ending |-> admin[a].plan = Free],
             <<"subscription">>)
  /\ admin' = [admin EXCEPT ![a].at = "write"]
  /\ UNCHANGED <<mirror, queue, mishaps>>

(* a subscription that has ended cannot be changed any more: an exception   *)
Refused(a) ==
  /\ admin[a].at = "stripe" /\ ~Live(admin[a].ext)
  /\ admin' = [admin EXCEPT ![a] = NoChange]
  /\ UNCHANGED <<mirror, queue, stripe, events, mishaps>>

WritePlan(a) ==
  /\ admin[a].at = "write"
  /\ row' = [row EXCEPT !.plan = admin[a].plan, !.status = "ACTIVE",
                        !.ending = admin[a].plan = Free]
  /\ disturbed' = (disturbed \/ admin[a].late)
  /\ admin' = [admin EXCEPT ![a] = NoChange]
  /\ UNCHANGED <<queue, applied, stripe, events, mishaps>>

(* an exception or a crash between two of these steps                       *)
AdminFails(a) ==
  /\ admin[a].at # "idle" /\ mishaps < MaxMishaps
  /\ mishaps' = mishaps + 1
  /\ admin' = [admin EXCEPT ![a] = NoChange]
  /\ UNCHANGED <<mirror, queue, stripe, events>>

-----------------------------------------------------------------------------
(* as if the row only refused events that were processed to the end         *)
ReceiveUnfinished(h, e) ==
  /\ job[h].at = "idle" /\ e <= Len(events) /\ e \notin answered
  /\ IF claim[e] # "processed"
     THEN /\ claim' = [claim EXCEPT ![e] = "processing"]
          /\ job' = [job EXCEPT ![h] = [at |-> "apply", event |-> e]]
          /\ UNCHANGED answered
     ELSE /\ answered' = answered \cup {e}
          /\ UNCHANGED <<claim, job>>
  /\ UNCHANGED <<mirror, hurt, stripe, events, admin, mishaps>>

(* handleStripeWebhook: the event's row is created first; an event that has *)
(* one, whatever its status, is answered as a duplicate                     *)
Receive(h, e) ==
  /\ job[h].at = "idle" /\ e <= Len(events) /\ e \notin answered
  /\ IF claim[e] = "none"
     THEN /\ claim' = [claim EXCEPT ![e] = "processing"]
          /\ job' = [job EXCEPT ![h] = [at |-> "apply", event |-> e]]
          /\ UNCHANGED answered
     ELSE /\ answered' = answered \cup {e}
          /\ UNCHANGED <<claim, job>>
  /\ UNCHANGED <<mirror, hurt, stripe, events, admin, mishaps>>

(* as if the plan came from the Checkout session only                       *)
MirroredNoPlan(r, e) ==
  CASE e.type = "paid"     -> [r EXCEPT !.status = "ACTIVE"]
    [] e.type = "failed"   -> [r EXCEPT !.status = "PAST_DUE"]
    [] e.type = "checkout" -> [r EXCEPT !.plan = e.plan, !.status = "ACTIVE", !.ext = e.sub]
    [] OTHER -> [r EXCEPT !.status = e.status, !.ext = e.sub, !.ending = e.ending]

(* what applyStripeEvent makes of the row: the metadata's plan, the status  *)
(* of the subscription; an invoice only changes the status                  *)
Mirrored(r, e) ==
  CASE e.type = "paid"     -> [r EXCEPT !.status = "ACTIVE"]
    [] e.type = "failed"   -> [r EXCEPT !.status = "PAST_DUE"]
    [] e.type = "checkout" -> [r EXCEPT !.plan = e.plan, !.status = "ACTIVE", !.ext = e.sub]
    [] OTHER -> [plan |-> e.plan, status |-> e.status, ext |-> e.sub, ending |-> e.ending]

Apply(h) ==
  LET e == job[h].event IN
  /\ job[h].at = "apply"
  /\ row' = Mirrored(row, events[e])
  /\ applied' = [applied EXCEPT ![e] = @ + 1]
  /\ disturbed' = (disturbed \/ \E f \in Ids : f > e /\ applied[f] > 0)
  /\ admin' = [a \in Admins |-> IF admin[a].at = "idle" THEN admin[a]
                                ELSE [admin[a] EXCEPT !.late = TRUE]]
  /\ job' = [job EXCEPT ![h].at = "mark"]
  /\ UNCHANGED <<answered, claim, hurt, stripe, events, mishaps>>

(* as if the delivery were answered before its event is applied             *)
MarkEarly(h) ==
  /\ job[h].at \in {"apply", "mark"}
  /\ claim' = [claim EXCEPT ![job[h].event] = "processed"]
  /\ answered' = answered \cup {job[h].event}
  /\ job' = [job EXCEPT ![h] = NoJob]
  /\ UNCHANGED <<mirror, hurt, stripe, events, admin, mishaps>>

Mark(h) ==
  /\ job[h].at = "mark"
  /\ claim' = [claim EXCEPT ![job[h].event] = "processed"]
  /\ answered' = answered \cup {job[h].event}
  /\ job' = [job EXCEPT ![h] = NoJob]
  /\ UNCHANGED <<mirror, hurt, stripe, events, admin, mishaps>>

(* an exception is noted in the event's row and answered with an error; a   *)
(* crash, or an exception of that write, leaves the row "processing"        *)
HandlerFails(h) ==
  /\ job[h].at # "idle" /\ mishaps < MaxMishaps
  /\ mishaps' = mishaps + 1
  /\ \E noted \in {claim[job[h].event], "error"} :
       claim' = [claim EXCEPT ![job[h].event] = noted]
  /\ hurt' = hurt \cup {job[h].event}
  /\ job' = [job EXCEPT ![h] = NoJob]
  /\ UNCHANGED <<mirror, answered, stripe, events, admin>>

Next ==
  \/ \E s \in Subs : Pay(s) \/ Drift(s)
  \/ \E a \in Admins :
       \/ \E p \in Plans : Ask(a, p)
       \/ \E s \in Subs : OpenSession(a, s)
       \/ CallStripe(a) \/ Refused(a) \/ WritePlan(a) \/ AdminFails(a)
  \/ \E h \in Handlers :
       \/ \E e \in Ids : Receive(h, e)
       \/ Apply(h) \/ Mark(h) \/ HandlerFails(h)

Spec == Init /\ [][Next]_vars

-----------------------------------------------------------------------------
(* The row that claims an event keeps it from changing the subscription     *)
(* twice, however often and at once it is delivered, and although handlers  *)
(* die or fail at any point.                                                *)
AppliedOnce == \A e \in Ids : applied[e] <= 1

(* The claim comes before the effect, so that Stripe's retry of a delivery  *)
(* that failed is answered as a duplicate: an event that Stripe was told is *)
(* done changed the row, or is about to, or its handler had failed.         *)
AnsweredWasApplied ==
  \A e \in answered \ hurt :
    applied[e] = 1 \/ \E h \in Handlers : job[h] = [at |-> "apply", event |-> e]

Settled ==
  /\ answered = 1 .. Len(events)
  /\ \A h \in Handlers : job[h].at = "idle"
  /\ \A a \in Admins : admin[a].at = "idle"

(* When every event was answered and nobody is at work, the row says what   *)
(* Stripe says - if no handler failed, no event was overtaken by a later    *)
(* one, no change of plan by an event, and there never was a second         *)
(* subscription beside the first.                                           *)
SettledAgrees ==
  Settled /\ hurt = {} /\ ~disturbed =>
    \A s \in Subs :
      Live(s) \/ (stripe[s].status = "CANCELED" /\ row.ext = s) =>
        row = [plan |-> stripe[s].plan, status |-> stripe[s].status,
               ext |-> s, ending |-> stripe[s].ending]

(* The free plan can be used: its subscription is not one of those that     *)
(* check refuses.  (Violated: see the README.)                              *)
FreeIsUsable == row.plan = Free => row.status \notin Blocked
=============================================================================
