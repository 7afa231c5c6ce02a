------------------------- MODULE SubscriptionProofs -------------------------
(***************************************************************************)
(* The subscription, kept by Billing, and what it allows, used by           *)
(* Entitlements.                                                           *)
(*                                                                         *)
(* Billing: for any number of handlers and events, any order of deliveries *)
(* and any failures, what the row that claims an event gives, and that the *)
(* subscription's row agrees with Stripe once everything was delivered.    *)
(*                                                                         *)
(* Entitlements: what may be used beyond a plan's limits, for any number   *)
(* of callers, any plans and any changes of the subscription.              *)
(*                                                                         *)
(* Subscription: Billing changes the subscription as Entitlements assumes, *)
(* so that its bounds hold of the two together.                            *)
(***************************************************************************)
EXTENDS Subscription, SequenceTheorems, FiniteSetTheorems, TLAPS

-----------------------------------------------------------------------------
(*                                Billing                                   *)

(* handlers that have an event at hand                                      *)
Working(h) == job[h].at # "idle"

(* a handler that is to apply an event has claimed it and nobody has        *)
(* applied it; one that has applied it is known by the history              *)
Holds(h) ==
  Working(h) =>
    /\ job[h].event \in Ids /\ job[h].event <= Len(events)
    /\ claim[job[h].event] = "processing"
    /\ applied[job[h].event] = IF job[h].at = "apply" THEN 0 ELSE 1

(* no two handlers have the same event                                      *)
Apart(h, g) == Working(h) /\ Working(g) /\ job[h].event = job[g].event => h = g

(* where an event is: not claimed, at a handler, applied, or lost           *)
Placed(e) ==
  /\ applied[e] \in {0, 1}
  /\ claim[e] = "none" => applied[e] = 0 /\ e \notin answered
  /\ claim[e] # "none" /\ e \notin hurt =>
       \/ applied[e] = 1
       \/ \E h \in Handlers : job[h].at = "apply" /\ job[h].event = e

IInv ==
  /\ TypeOK
  /\ \A h \in Handlers : Holds(h)
  /\ \A h, g \in Handlers : Apart(h, g)
  /\ \A e \in Ids : Placed(e)

(* Who is idle is of its type, and the free plan is a plan.                 *)
LEMMA Fixed == /\ Plans = Paid \cup {Free} /\ Free \in Plans
               /\ NoJob \in [at : {"idle", "apply", "mark"}, event : Ids \cup {0}]
               /\ NoChange \in [at : {"idle", "stripe", "session", "write"}, plan : Plans,
                                ext : Subs \cup {None}, late : BOOLEAN]
BY DEF Plans, NoJob, NoChange

(* What Stripe sends are events, and no more than the bound.                *)
LEMMA BecomesType ==
  ASSUME TypeOK, NEW s \in Subs,
         NEW r \in [status : Statuses, plan : Plans, ending : BOOLEAN],
         NEW types \in Seq({"checkout", "subscription", "paid", "failed"}),
         Becomes(s, r, types)
  PROVE  /\ stripe' \in [Subs -> [status : Statuses \cup {"none", "session"},
                                  plan : Plans, ending : BOOLEAN]]
         /\ events' \in Seq(EventType) /\ Len(events') <= MaxEvents
         /\ Len(events) <= Len(events')
<1> DEFINE new == [i \in 1 .. Len(types) |-> Event(types[i], s, r)]
<1>1. \A i \in 1 .. Len(types) : Event(types[i], s, r) \in EventType
  BY DEF Event, EventType
<1>2. new \in Seq(EventType) /\ Len(new) = Len(types)
  BY <1>1
<1>3. events' = events \o new /\ events \in Seq(EventType)
  BY DEF Becomes, TypeOK
<1>4. events' \in Seq(EventType) /\ Len(events') = Len(events) + Len(types)
  BY <1>2, <1>3, ConcatProperties
<1>5. r \in [status : Statuses \cup {"none", "session"}, plan : Plans, ending : BOOLEAN]
  OBVIOUS
<1> QED BY <1>3, <1>4, <1>5 DEF Becomes, TypeOK

(* The row only takes values it has a place for.                            *)
LEMMA MirroredType ==
  ASSUME NEW r \in [plan : Plans, status : Statuses, ext : Subs \cup {None}, ending : BOOLEAN],
         NEW e \in EventType
  PROVE  Mirrored(r, e) \in
           [plan : Plans, status : Statuses, ext : Subs \cup {None}, ending : BOOLEAN]
BY DEF Mirrored, EventType, Statuses

-----------------------------------------------------------------------------
(* Stripe and the administrators leave the queue of events alone and apply  *)
(* nothing.                                                                 *)
LEMMA OutsideType ==
  ASSUME TypeOK, NEW s \in Subs, Pay(s) \/ Drift(s)
  PROVE  TypeOK' /\ Len(events) <= Len(events')
<1>1. stripe[s] \in [status : Statuses \cup {"none", "session"}, plan : Plans, ending : BOOLEAN]
  BY DEF TypeOK
<1>2. \A x \in Statuses :
        [stripe[s] EXCEPT !.status = x] \in
          [status : Statuses \cup {"none", "session"}, plan : Plans, ending : BOOLEAN]
        /\ [stripe[s] EXCEPT !.status = x] \in [status : Statuses, plan : Plans, ending : BOOLEAN]
  BY <1>1
<1>3. Live(s) => /\ stripe[s] \in [status : Statuses, plan : Plans, ending : BOOLEAN]
                 /\ [stripe[s] EXCEPT !.ending = TRUE] \in
                      [status : Statuses, plan : Plans, ending : BOOLEAN]
  BY <1>1 DEF Live, Statuses
<1>4. CASE Pay(s)
  <2>1. <<"subscription", "checkout">> \in Seq({"checkout", "subscription", "paid", "failed"})
    OBVIOUS
  <2>2. [stripe[s] EXCEPT !.status = "ACTIVE"] \in [status : Statuses, plan : Plans, ending : BOOLEAN]
    BY <1>2 DEF Statuses
  <2>3. /\ stripe' \in [Subs -> [status : Statuses \cup {"none", "session"},
                                 plan : Plans, ending : BOOLEAN]]
        /\ events' \in Seq(EventType) /\ Len(events') <= MaxEvents /\ Len(events) <= Len(events')
    BY <1>4, <2>1, <2>2, BecomesType DEF Pay
  <2>4. disturbed' \in BOOLEAN
    BY <1>4 DEF Pay, TypeOK
  <2> QED BY <1>4, <2>3, <2>4 DEF Pay, TypeOK, queue
<1>5. CASE Drift(s)
  <2>1. /\ <<"paid">> \in Seq({"checkout", "subscription", "paid", "failed"})
        /\ <<"subscription">> \in Seq({"checkout", "subscription", "paid", "failed"})
        /\ <<"failed", "subscription">> \in Seq({"checkout", "subscription", "paid", "failed"})
        /\ <<"paid", "subscription">> \in Seq({"checkout", "subscription", "paid", "failed"})
    OBVIOUS
  <2>2. \E r \in [status : Statuses, plan : Plans, ending : BOOLEAN],
           types \in Seq({"checkout", "subscription", "paid", "failed"}) : Becomes(s, r, types)
    <3>1. stripe[s].status = "ACTIVE" => Live(s)
      BY DEF Live
    <3>2. "ACTIVE" \in Statuses /\ "PAST_DUE" \in Statuses /\ "CANCELED" \in Statuses
      BY DEF Statuses
    <3> QED BY <1>2, <1>3, <1>5, <2>1, <3>1, <3>2 DEF Drift
  <2>3. /\ stripe' \in [Subs -> [status : Statuses \cup {"none", "session"},
                                 plan : Plans, ending : BOOLEAN]]
        /\ events' \in Seq(EventType) /\ Len(events') <= MaxEvents /\ Len(events) <= Len(events')
    BY <2>2, BecomesType
  <2> QED BY <1>5, <2>3 DEF Drift, TypeOK, mirror, queue
<1> QED BY <1>4, <1>5

AdminType == [at : {"idle", "stripe", "session", "write"}, plan : Plans,
              ext : Subs \cup {None}, late : BOOLEAN]

(* A request that goes on keeps every request's record in order.            *)
LEMMA AdminStep ==
  ASSUME TypeOK, NEW a \in Admins, NEW c \in AdminType,
         c.at = "stripe" => c.ext \in Subs, admin' = [admin EXCEPT ![a] = c]
  PROVE  /\ admin' \in [Admins -> AdminType]
         /\ \A b \in Admins : admin'[b].at = "stripe" => admin'[b].ext \in Subs
BY DEF TypeOK, AdminType

(* A step of an administrator keeps the types and the events there are.     *)
LEMMA AdministratorsType ==
  ASSUME TypeOK, NEW a \in Admins,
         \/ \E p \in Plans : Ask(a, p)
         \/ \E s \in Subs : OpenSession(a, s)
         \/ CallStripe(a) \/ Refused(a) \/ WritePlan(a) \/ AdminFails(a)
  PROVE  TypeOK' /\ Len(events) <= Len(events')
<1>0. /\ Len(events) \in Nat
      /\ admin[a] \in [at : {"idle", "stripe", "session", "write"}, plan : Plans,
                       ext : Subs \cup {None}, late : BOOLEAN]
      /\ row \in [plan : Plans, status : Statuses, ext : Subs \cup {None}, ending : BOOLEAN]
      /\ admin[a].at = "stripe" => admin[a].ext \in Subs
  BY DEF TypeOK
<1>1. ASSUME NEW p \in Plans, Ask(a, p) PROVE TypeOK' /\ Len(events) <= Len(events')
  <2> DEFINE c == [at   |-> IF row.ext # None THEN "stripe"
                            ELSE IF p = Free THEN "write" ELSE "session",
                   plan |-> p, ext |-> row.ext, late |-> FALSE]
  <2>1. c \in [at : {"idle", "stripe", "session", "write"}, plan : Plans,
               ext : Subs \cup {None}, late : BOOLEAN]
        /\ (c.at = "stripe" => c.ext \in Subs)
    BY <1>0
  <2>2. admin' = [admin EXCEPT ![a] = c]
    BY <1>1 DEF Ask
  <2> HIDE DEF c
  <2> QED BY <1>0, <1>1, <2>1, <2>2 DEF Ask, TypeOK, mirror, queue
<1>2. ASSUME NEW s \in Subs, OpenSession(a, s) PROVE TypeOK' /\ Len(events) <= Len(events')
  <2>1. [status |-> "session", plan |-> admin[a].plan, ending |-> FALSE] \in
          [status : Statuses \cup {"none", "session"}, plan : Plans, ending : BOOLEAN]
    BY <1>0
  <2>3. stripe' \in [Subs -> [status : Statuses \cup {"none", "session"},
                              plan : Plans, ending : BOOLEAN]]
    BY <1>2, <2>1 DEF OpenSession, TypeOK
  <2>4. NoChange.at # "stripe"
    BY DEF NoChange
  <2> QED BY <1>0, <1>2, <2>3, <2>4, Fixed DEF OpenSession, TypeOK, mirror, queue
<1>3. ASSUME CallStripe(a) PROVE TypeOK' /\ Len(events) <= Len(events')
  <2> DEFINE s == admin[a].ext
             r == [status |-> stripe[s].status, plan |-> admin[a].plan,
                   ending |-> admin[a].plan = Free]
             c == [admin[a] EXCEPT !.at = "write"]
  <2>1. s \in Subs
    BY <1>0, <1>3 DEF CallStripe
  <2>2. r \in [status : Statuses, plan : Plans, ending : BOOLEAN]
    <3>1. stripe[s].status \in Statuses
      BY <1>3, <2>1 DEF CallStripe, Live, Statuses
    <3> QED BY <1>0, <3>1
  <2>3. <<"subscription">> \in Seq({"checkout", "subscription", "paid", "failed"})
    OBVIOUS
  <2>4. Becomes(s, r, <<"subscription">>)
    BY <1>3 DEF CallStripe
  <2>5. /\ stripe' \in [Subs -> [status : Statuses \cup {"none", "session"},
                                 plan : Plans, ending : BOOLEAN]]
        /\ events' \in Seq(EventType) /\ Len(events') <= MaxEvents /\ Len(events) <= Len(events')
    BY <2>1, <2>2, <2>3, <2>4, BecomesType
  <2>6. c \in [at : {"idle", "stripe", "session", "write"}, plan : Plans,
               ext : Subs \cup {None}, late : BOOLEAN] /\ c.at # "stripe"
        /\ c \in AdminType
    BY <1>0 DEF AdminType
  <2>7. admin' = [admin EXCEPT ![a] = c]
    BY <1>3 DEF CallStripe
  <2>8. /\ admin' \in [Admins -> AdminType]
        /\ \A b \in Admins : admin'[b].at = "stripe" => admin'[b].ext \in Subs
    BY <2>6, <2>7, AdminStep
  <2>9. UNCHANGED <<mirror, queue, mishaps>>
    BY <1>3 DEF CallStripe
  <2> QED BY <2>5, <2>8, <2>9 DEF TypeOK, mirror, queue, AdminType
<1>4. ASSUME Refused(a) \/ AdminFails(a) PROVE TypeOK' /\ Len(events) <= Len(events')
  <2>1. /\ admin' \in [Admins -> AdminType]
        /\ \A b \in Admins : admin'[b].at = "stripe" => admin'[b].ext \in Subs
    BY <1>4, Fixed, AdminStep DEF Refused, AdminFails, NoChange, AdminType
  <2>2. UNCHANGED <<mirror, queue, stripe, events>> /\ mishaps' \in Nat
    BY <1>4 DEF Refused, AdminFails, TypeOK
  <2> QED BY <1>0, <2>1, <2>2 DEF TypeOK, mirror, queue, AdminType
<1>5. ASSUME WritePlan(a) PROVE TypeOK' /\ Len(events) <= Len(events')
  <2>1. row' = [plan |-> admin[a].plan, status |-> "ACTIVE", ext |-> row.ext,
                ending |-> admin[a].plan = Free]
    BY <1>0, <1>5 DEF WritePlan
  <2>2. row' \in [plan : Plans, status : Statuses, ext : Subs \cup {None}, ending : BOOLEAN]
    BY <1>0, <2>1 DEF Statuses
  <2>3. disturbed' \in BOOLEAN
    BY <1>5, <1>0 DEF WritePlan, TypeOK
  <2>4. NoChange.at # "stripe"
    BY DEF NoChange
  <2> QED BY <1>0, <1>5, <2>2, <2>3, <2>4, Fixed DEF WritePlan, TypeOK, queue
<1> QED BY <1>1, <1>2, <1>3, <1>4, <1>5

(* the type of a handler's record                                           *)
JobType == [at : {"idle", "apply", "mark"}, event : Ids \cup {0}]

(* A step of a handler keeps the types.                                     *)
LEMMA HandlerType ==
  ASSUME IInv, NEW h \in Handlers,
         (\E e \in Ids : Receive(h, e)) \/ Apply(h) \/ Mark(h) \/ HandlerFails(h)
  PROVE  TypeOK'
<1>0. TypeOK /\ Holds(h) /\ job[h] \in JobType
  BY DEF IInv, TypeOK, JobType
<1>1. ASSUME NEW e \in Ids, Receive(h, e) PROVE TypeOK'
  <2>1. [at |-> "apply", event |-> e] \in JobType
    BY DEF JobType
  <2>2. job' \in [Handlers -> JobType]
    BY <1>0, <1>1, <2>1 DEF Receive, TypeOK, JobType
  <2>3. /\ claim' \in [Ids -> {"none", "processing", "processed", "error"}]
        /\ answered' \subseteq Ids
    BY <1>0, <1>1 DEF Receive, TypeOK
  <2>4. UNCHANGED <<mirror, hurt, stripe, events, admin, mishaps>>
    BY <1>1 DEF Receive
  <2> QED BY <1>0, <2>2, <2>3, <2>4 DEF TypeOK, mirror, JobType
<1>2. ASSUME Apply(h) PROVE TypeOK'
  <2> DEFINE e == job[h].event
             J == [job[h] EXCEPT !.at = "mark"]
  <2>1. e \in Ids /\ e <= Len(events) /\ J \in JobType
    BY <1>0, <1>2 DEF Apply, Holds, Working, JobType
  <2>2. job' \in [Handlers -> JobType]
    <3>1. job' = [job EXCEPT ![h] = J]
      BY <1>0, <1>2 DEF Apply, TypeOK
    <3> HIDE DEF J
    <3> QED BY <1>0, <2>1, <3>1 DEF TypeOK, JobType
  <2>3. events[e] \in EventType
    BY <1>0, <2>1, BillingAssumption DEF TypeOK, Ids
  <2>4. row' \in [plan : Plans, status : Statuses, ext : Subs \cup {None}, ending : BOOLEAN]
    BY <1>0, <1>2, <2>3, MirroredType DEF Apply, TypeOK
  <2>5. applied' \in [Ids -> Nat] /\ disturbed' \in BOOLEAN
    BY <1>0, <1>2, <2>1 DEF Apply, TypeOK
  <2>6. ASSUME NEW a \in Admins
        PROVE  /\ admin'[a] \in AdminType
               /\ admin'[a].at = "stripe" => admin'[a].ext \in Subs
    <3>1. admin[a] \in AdminType /\ (admin[a].at = "stripe" => admin[a].ext \in Subs)
      BY <1>0 DEF TypeOK, AdminType
    <3>2. admin'[a] = admin[a] \/ admin'[a] = [admin[a] EXCEPT !.late = TRUE]
      BY <1>2 DEF Apply
    <3> QED BY <3>1, <3>2 DEF AdminType
  <2>7. admin' = [a \in Admins |-> admin'[a]]
    BY <1>2 DEF Apply
  <2>8. admin' \in [Admins -> AdminType]
    BY <2>6, <2>7
  <2>9. UNCHANGED <<answered, claim, hurt, stripe, events, mishaps>>
    BY <1>2 DEF Apply
  <2> QED BY <1>0, <2>2, <2>4, <2>5, <2>6, <2>8, <2>9 DEF TypeOK, JobType, AdminType
<1>3. ASSUME Mark(h) PROVE TypeOK'
  <2>1. job[h].event \in Ids
    BY <1>0, <1>3 DEF Mark, Holds, Working
  <2>2. job' \in [Handlers -> JobType]
    BY <1>0, <1>3, Fixed DEF Mark, TypeOK, JobType
  <2>3. /\ claim' \in [Ids -> {"none", "processing", "processed", "error"}]
        /\ answered' \subseteq Ids
    BY <1>0, <1>3, <2>1 DEF Mark, TypeOK
  <2>4. UNCHANGED <<mirror, hurt, stripe, events, admin, mishaps>>
    BY <1>3 DEF Mark
  <2> QED BY <1>0, <2>2, <2>3, <2>4 DEF TypeOK, mirror, JobType
<1>4. ASSUME HandlerFails(h) PROVE TypeOK'
  <2>1. job[h].event \in Ids
    BY <1>0, <1>4 DEF HandlerFails, Holds, Working
  <2>2. job' \in [Handlers -> JobType]
    BY <1>0, <1>4, Fixed DEF HandlerFails, TypeOK, JobType
  <2>3. /\ claim' \in [Ids -> {"none", "processing", "processed", "error"}]
        /\ hurt' \subseteq Ids /\ mishaps' \in Nat
    <3>1. PICK noted \in {claim[job[h].event], "error"} :
            claim' = [claim EXCEPT ![job[h].event] = noted]
      BY <1>4 DEF HandlerFails
    <3>2. noted \in {"none", "processing", "processed", "error"}
      BY <1>0, <2>1 DEF TypeOK
    <3> QED BY <1>0, <1>4, <2>1, <3>1, <3>2 DEF HandlerFails, TypeOK
  <2>4. UNCHANGED <<mirror, answered, stripe, events, admin>>
    BY <1>4 DEF HandlerFails
  <2> QED BY <1>0, <2>2, <2>3, <2>4 DEF TypeOK, mirror, JobType
<1> QED BY <1>1, <1>2, <1>3, <1>4

-----------------------------------------------------------------------------
(* Steps that are not a handler's leave what is claimed and applied alone.  *)
LEMMA ElsewhereStep ==
  ASSUME IInv, UNCHANGED <<applied, queue>>, Len(events) <= Len(events')
  PROVE  /\ \A h \in Handlers : Holds(h)'
         /\ \A h, g \in Handlers : Apart(h, g)'
         /\ \A e \in Ids : Placed(e)'
<1>1. \A h \in Handlers : Holds(h)'
  <2> SUFFICES ASSUME NEW h \in Handlers, Working(h)' PROVE Holds(h)'
    BY DEF Holds
  <2>1. Len(events) \in Nat /\ Len(events') \in Int => Holds(h)'
    BY DEF IInv, Holds, Working, queue, Ids
  <2>2. Len(events) \in Nat
    BY DEF IInv, TypeOK
  <2> QED BY <2>1, <2>2 DEF IInv, Holds, Working, queue, Ids
<1>2. \A h, g \in Handlers : Apart(h, g)'
  BY DEF IInv, Apart, Working, queue
<1>3. \A e \in Ids : Placed(e)'
  BY DEF IInv, Placed, queue
<1> QED BY <1>1, <1>2, <1>3

(* Only a handler that makes the claim itself has the event at hand.        *)
LEMMA ReceiveStep ==
  ASSUME IInv, NEW h \in Handlers, NEW e \in Ids, Receive(h, e)
  PROVE  /\ \A g \in Handlers : Holds(g)'
         /\ \A f, g \in Handlers : Apart(f, g)'
         /\ \A d \in Ids : Placed(d)'
<1>0. TypeOK /\ ~Working(h) /\ UNCHANGED <<applied, hurt, events>>
  BY DEF IInv, Receive, Working, mirror
<1>1. CASE claim[e] # "none"
  <2>1. claim' = claim /\ job' = job /\ answered' = answered \cup {e}
    BY <1>1 DEF Receive
  <2>2. \A g \in Handlers : Holds(g)'
    BY <1>0, <2>1 DEF IInv, Holds, Working
  <2>3. \A f, g \in Handlers : Apart(f, g)'
    BY <2>1 DEF IInv, Apart, Working
  <2>4. \A d \in Ids : Placed(d)'
    BY <1>0, <1>1, <2>1 DEF IInv, Placed
  <2> QED BY <2>2, <2>3, <2>4
<1>2. CASE claim[e] = "none"
  <2>1. /\ claim' = [claim EXCEPT ![e] = "processing"] /\ answered' = answered
        /\ job'[h] = [at |-> "apply", event |-> e]
        /\ \A g \in Handlers : g # h => job'[g] = job[g]
        /\ e <= Len(events)
    BY <1>0, <1>2 DEF Receive, TypeOK
  <2>2. claim'[e] = "processing" /\ \A d \in Ids : d # e => claim'[d] = claim[d]
    BY <1>0, <2>1 DEF TypeOK
  <2>3. \A g \in Handlers : Working(g) => job[g].event # e
    BY <1>2 DEF IInv, Holds
  <2>4. applied[e] = 0
    BY <1>2 DEF IInv, Placed
  <2>5. \A g \in Handlers : Holds(g)'
    <3> SUFFICES ASSUME NEW g \in Handlers PROVE Holds(g)'
      OBVIOUS
    <3>1. CASE g = h
      BY <1>0, <2>1, <2>2, <2>4, <3>1 DEF Holds, Working
    <3>2. CASE g # h
      BY <1>0, <2>1, <2>2, <2>3, <3>2 DEF IInv, Holds, Working
    <3> QED BY <3>1, <3>2
  <2>6. \A f, g \in Handlers : Apart(f, g)'
    BY <2>1, <2>3 DEF IInv, Apart, Working
  <2>7. \A d \in Ids : Placed(d)'
    <3> SUFFICES ASSUME NEW d \in Ids PROVE Placed(d)'
      OBVIOUS
    <3>1. CASE d = e
      BY <1>0, <2>1, <2>2, <2>4, <3>1 DEF Placed
    <3>2. CASE d # e
      BY <1>0, <2>1, <2>2, <3>2 DEF IInv, Placed, Working
    <3> QED BY <3>1, <3>2
  <2> QED BY <2>5, <2>6, <2>7
<1> QED BY <1>1, <1>2

(* An event is applied by the one handler that has it.                      *)
LEMMA ApplyStep ==
  ASSUME IInv, NEW h \in Handlers, Apply(h)
  PROVE  /\ \A g \in Handlers : Holds(g)'
         /\ \A f, g \in Handlers : Apart(f, g)'
         /\ \A d \in Ids : Placed(d)'
<1> DEFINE e == job[h].event
<1>1. /\ TypeOK /\ Working(h) /\ e \in Ids /\ applied[e] = 0
      /\ UNCHANGED <<answered, claim, hurt, events>> /\ job[h].at = "apply"
  BY DEF IInv, Apply, Working, Holds
<1>2. /\ job'[h].at = "mark" /\ job'[h].event = e
      /\ \A g \in Handlers : g # h => job'[g] = job[g]
  BY <1>1 DEF Apply, TypeOK
<1>3. applied'[e] = 1 /\ \A d \in Ids : d # e => applied'[d] = applied[d]
  BY <1>1 DEF Apply, TypeOK
<1>4. \A g \in Handlers : g # h /\ Working(g) => job[g].event # e
  BY <1>1 DEF IInv, Apart
<1>5. \A g \in Handlers : Holds(g)'
  <2> SUFFICES ASSUME NEW g \in Handlers PROVE Holds(g)'
    OBVIOUS
  <2>1. CASE g = h
    BY <1>1, <1>2, <1>3, <2>1 DEF IInv, Holds, Working
  <2>2. CASE g # h
    BY <1>1, <1>2, <1>3, <1>4, <2>2 DEF IInv, Holds, Working
  <2> QED BY <2>1, <2>2
<1>6. \A f, g \in Handlers : Apart(f, g)'
  BY <1>1, <1>2 DEF IInv, Apart, Working
<1>7. \A d \in Ids : Placed(d)'
  <2> SUFFICES ASSUME NEW d \in Ids PROVE Placed(d)'
    OBVIOUS
  <2>1. CASE d = e
    <3>1. claim[e] # "none"
      BY <1>1 DEF IInv, Holds
    <3> QED BY <1>1, <1>3, <2>1, <3>1 DEF Placed
  <2>2. CASE d # e
    BY <1>1, <1>2, <1>3, <2>2 DEF IInv, Placed
  <2> QED BY <2>1, <2>2
<1> QED BY <1>5, <1>6, <1>7

(* A handler that is done, or fails, leaves its event claimed.              *)
LEMMA LeaveStep ==
  ASSUME IInv, NEW h \in Handlers, Mark(h) \/ HandlerFails(h)
  PROVE  /\ \A g \in Handlers : Holds(g)'
         /\ \A f, g \in Handlers : Apart(f, g)'
         /\ \A d \in Ids : Placed(d)'
<1> DEFINE e == job[h].event
<1>1. TypeOK /\ Working(h) /\ e \in Ids /\ claim[e] = "processing" /\ UNCHANGED <<applied, events>>
  BY DEF IInv, Mark, HandlerFails, Working, Holds, mirror
<1>2. /\ job'[h].at = "idle"
      /\ \A g \in Handlers : g # h => job'[g] = job[g]
  BY <1>1 DEF Mark, HandlerFails, TypeOK, NoJob
<1>3. claim'[e] # "none" /\ \A d \in Ids : d # e => claim'[d] = claim[d]
  <2>1. CASE Mark(h)
    BY <1>1, <2>1 DEF Mark, TypeOK
  <2>2. CASE HandlerFails(h)
    <3>1. PICK noted \in {claim[e], "error"} : claim' = [claim EXCEPT ![e] = noted]
      BY <2>2 DEF HandlerFails
    <3> QED BY <1>1, <3>1 DEF TypeOK
  <2> QED BY <2>1, <2>2
<1>4. \A g \in Handlers : g # h /\ Working(g) => job[g].event # e
  BY <1>1 DEF IInv, Apart
<1>5. \A g \in Handlers : Holds(g)'
  BY <1>1, <1>2, <1>3, <1>4 DEF IInv, Holds, Working
<1>6. \A f, g \in Handlers : Apart(f, g)'
  BY <1>1, <1>2 DEF IInv, Apart, Working
<1>7. \A d \in Ids : Placed(d)'
  <2> SUFFICES ASSUME NEW d \in Ids PROVE Placed(d)'
    OBVIOUS
  <2>0. applied[d] \in {0, 1} /\ applied' = applied
    BY <1>1 DEF IInv, Placed
  <2>1. CASE d = e
    <3>1. claim'[d] # "none"
      BY <1>3, <2>1
    <3>2. applied[d] = 1 \/ d \in hurt'
      BY <1>1, <2>1 DEF IInv, Holds, Mark, HandlerFails
    <3> QED BY <2>0, <3>1, <3>2 DEF Placed
  <2>2. CASE d # e
    <3>1. d \in answered' => d \in answered
      BY <2>2 DEF Mark, HandlerFails
    <3>2. d \in hurt => d \in hurt'
      BY DEF Mark, HandlerFails
    <3>3. \A g \in Handlers : job[g].at = "apply" /\ job[g].event = d
                             => job'[g].at = "apply" /\ job'[g].event = d
      BY <1>2, <2>2
    <3> HIDE DEF e
    <3> QED BY <1>3, <2>0, <2>2, <3>1, <3>2, <3>3 DEF IInv, Placed
  <2> QED BY <2>1, <2>2
<1> QED BY <1>5, <1>6, <1>7

(* The invariant holds at first.                                            *)
LEMMA InitIInv == Init => IInv
<1> SUFFICES ASSUME Init PROVE IInv
  OBVIOUS
<1> USE BillingAssumption DEF Init
<1>1. TypeOK
  <2>1. \A a \in Admins : admin[a].at = "idle"
    BY DEF NoChange
  <2>2. events \in Seq(EventType) /\ Len(events) = 0 /\ 0 <= MaxEvents
    OBVIOUS
  <2>3. row \in [plan : Plans, status : Statuses, ext : Subs \cup {None}, ending : BOOLEAN]
    BY Fixed DEF Statuses
  <2>4. stripe \in [Subs -> [status : Statuses \cup {"none", "session"},
                            plan : Plans, ending : BOOLEAN]]
    BY Fixed
  <2>5. /\ admin \in [Admins -> AdminType]
        /\ job \in [Handlers -> [at : {"idle", "apply", "mark"}, event : Ids \cup {0}]]
    BY Fixed DEF AdminType
  <2>6. /\ applied \in [Ids -> Nat] /\ disturbed \in BOOLEAN /\ mishaps \in Nat
        /\ claim \in [Ids -> {"none", "processing", "processed", "error"}]
        /\ answered \subseteq Ids /\ hurt \subseteq Ids
    OBVIOUS
  <2> QED BY <2>1, <2>2, <2>3, <2>4, <2>5, <2>6 DEF TypeOK, AdminType
<1>2. \A h \in Handlers : ~Working(h)
  BY DEF Working, NoJob
<1>3. \A e \in Ids : Placed(e)
  BY DEF Placed
<1> QED BY <1>1, <1>2, <1>3 DEF IInv, Holds, Apart

(* Every step keeps the invariant.                                          *)
LEMMA StepIInv == IInv /\ [Next]_vars => IInv'
<1> SUFFICES ASSUME IInv, [Next]_vars PROVE IInv'
  OBVIOUS
<1>0. TypeOK /\ Len(events) \in Nat
  BY DEF IInv, TypeOK
<1>1. CASE UNCHANGED vars
  <2>1. UNCHANGED <<mirror, queue, stripe, events, admin, mishaps>>
    BY <1>1 DEF vars
  <2>2. TypeOK'
    BY <1>0, <2>1 DEF TypeOK, mirror, queue
  <2>3. UNCHANGED <<applied, queue>> /\ Len(events) <= Len(events')
    BY <1>0, <2>1 DEF mirror
  <2> QED BY <2>2, <2>3, ElsewhereStep DEF IInv
<1>2. ASSUME NEW s \in Subs, Pay(s) \/ Drift(s) PROVE IInv'
  <2>1. TypeOK' /\ Len(events) <= Len(events')
    BY <1>0, <1>2, OutsideType
  <2>2. UNCHANGED <<applied, queue>>
    BY <1>2 DEF Pay, Drift, mirror
  <2> QED BY <2>1, <2>2, ElsewhereStep DEF IInv
<1>3. ASSUME NEW a \in Admins,
             \/ \E p \in Plans : Ask(a, p)
             \/ \E s \in Subs : OpenSession(a, s)
             \/ CallStripe(a) \/ Refused(a) \/ WritePlan(a) \/ AdminFails(a)
      PROVE  IInv'
  <2>1. TypeOK' /\ Len(events) <= Len(events')
    BY <1>0, <1>3, AdministratorsType
  <2>2. UNCHANGED <<applied, queue>>
    BY <1>3 DEF Ask, OpenSession, CallStripe, Refused, WritePlan, AdminFails, mirror
  <2> QED BY <2>1, <2>2, ElsewhereStep DEF IInv
<1>4. ASSUME NEW h \in Handlers,
             (\E e \in Ids : Receive(h, e)) \/ Apply(h) \/ Mark(h) \/ HandlerFails(h)
      PROVE  IInv'
  <2>1. TypeOK'
    BY <1>4, HandlerType
  <2> QED BY <1>4, <2>1, ReceiveStep, ApplyStep, LeaveStep DEF IInv
<1> QED BY <1>1, <1>2, <1>3, <1>4 DEF Next

-----------------------------------------------------------------------------
(* The row, the queue of events and the requests keep their types.          *)
THEOREM TypeCorrect == Spec => []TypeOK
<1>1. IInv => TypeOK
  BY DEF IInv
<1> QED BY <1>1, InitIInv, StepIInv, PTL DEF Spec

(* No event changes the subscription twice: claiming it is one statement    *)
(* under a unique key, and what follows is the claimer's alone.             *)
THEOREM AppliedOnceAlways == Spec => []AppliedOnce
<1>1. IInv => AppliedOnce
  BY DEF IInv, Placed, AppliedOnce
<1> QED BY <1>1, InitIInv, StepIInv, PTL DEF Spec

(* What Stripe is told is done, is done or in hand, or its handler failed.  *)
THEOREM AnsweredAlways == Spec => []AnsweredWasApplied
<1>1. ASSUME IInv PROVE AnsweredWasApplied
  <2> SUFFICES ASSUME NEW e \in answered \ hurt, applied[e] # 1
               PROVE  \E h \in Handlers : job[h] = [at |-> "apply", event |-> e]
    BY DEF AnsweredWasApplied
  <2>1. e \in Ids /\ Placed(e)
    BY <1>1 DEF IInv, TypeOK
  <2>2. PICK h \in Handlers : job[h].at = "apply" /\ job[h].event = e
    BY <2>1 DEF Placed
  <2>3. job[h] \in JobType
    BY <1>1 DEF IInv, TypeOK, JobType
  <2> QED BY <2>2, <2>3 DEF JobType
<1> QED BY <1>1, InitIInv, StepIInv, PTL DEF Spec

-----------------------------------------------------------------------------
(* the row that an event speaks of                                          *)
Image(e) == [plan |-> e.plan, status |-> e.status, ext |-> e.sub, ending |-> e.ending]

(* the events that were applied are the first k                             *)
Prefix(k) == \A e \in Ids : applied[e] > 0 <=> e <= k

(* an event that will overwrite all of the row is still to come             *)
Due(k) == \E e \in Ids : k < e /\ e <= Len(events) /\ events[e].type = "subscription"

(* the last event says of its subscription what Stripe has                  *)
Reported ==
  Len(events) > 0 =>
    LET e == events[Len(events)] IN
    stripe[e.sub] = [status |-> e.status, plan |-> e.plan, ending |-> e.ending]

(* the subscription that is alive is the one that the last event is about   *)
OneAlive ==
  ~disturbed => \A s \in Subs : Live(s) => Len(events) > 0 /\ events[Len(events)].sub = s

(* an event that does not carry all of the row says the rest of it is as    *)
(* the event before it had it                                               *)
Chained ==
  ~disturbed =>
    \A e \in 1 .. Len(events) : events[e].type # "subscription" =>
      /\ e > 1
      /\ events[e].sub = events[e - 1].sub /\ events[e].plan = events[e - 1].plan
      /\ events[e].ending = events[e - 1].ending
      /\ events[e].status = IF events[e].type = "failed" THEN "PAST_DUE" ELSE "ACTIVE"

(* a change of plan that no event came in between of knows the row's        *)
(* subscription, and its own event is still to come when it is written      *)
Asked(a) ==
  admin[a].at # "idle" /\ ~admin[a].late =>
    /\ admin[a].ext = row.ext
    /\ admin[a].at = "write" /\ admin[a].ext # None =>
         \E e \in Ids : /\ e <= Len(events) /\ events[e].type = "subscription"
                        /\ \A f \in Ids : applied[f] > 0 => f < e

(* what the row says after the first k events                               *)
RowAgrees ==
  ~disturbed =>
    \A k \in 0 .. Len(events) : Prefix(k) =>
      \/ k = 0 /\ row.ext = None
      \/ k > 0 /\ row = Image(events[k])
      \/ Due(k)

(* only what was sent was applied                                           *)
Sent == \A e \in Ids : applied[e] > 0 => e <= Len(events)

(* what Stripe, its events and the row say of each other                    *)
LedgerInv == Reported /\ OneAlive /\ Chained /\ Sent /\ RowAgrees

MirrorInv == LedgerInv /\ \A a \in Admins : Asked(a)

StripeType == [status : Statuses, plan : Plans, ending : BOOLEAN]
TypeNames  == {"checkout", "subscription", "paid", "failed"}

(* The events so far have numbers, from 1 on.                               *)
LEMMA EventIds ==
  ASSUME TypeOK
  PROVE  /\ Len(events) \in Nat /\ \A e \in 1 .. Len(events) : e \in Ids /\ events[e] \in EventType
         /\ \A e \in Ids : e \in Nat /\ e > 0
         /\ MaxEvents \in Nat
BY BillingAssumption DEF TypeOK, Ids

(* The events that Stripe adds come after those there are.                  *)
LEMMA Adds ==
  ASSUME TypeOK, NEW s \in Subs, NEW r \in StripeType, NEW types \in Seq(TypeNames),
         Becomes(s, r, types)
  PROVE  /\ Len(events') = Len(events) + Len(types) /\ Len(events') <= MaxEvents
         /\ \A e \in 1 .. Len(events) : events'[e] = events[e]
         /\ \A j \in 1 .. Len(types) : events'[Len(events) + j] = Event(types[j], s, r)
         /\ stripe'[s] = r /\ \A t \in Subs : t # s => stripe'[t] = stripe[t]
<1> DEFINE new == [i \in 1 .. Len(types) |-> Event(types[i], s, r)]
<1>1. \A i \in 1 .. Len(types) : Event(types[i], s, r) \in EventType
  BY DEF Event, EventType, StripeType, TypeNames
<1>2. new \in Seq(EventType) /\ Len(new) = Len(types)
  BY <1>1
<1>3. events' = events \o new /\ events \in Seq(EventType)
  BY DEF Becomes, TypeOK
<1>4. /\ Len(events') = Len(events) + Len(types)
      /\ \A e \in 1 .. Len(events) : events'[e] = events[e]
      /\ \A j \in 1 .. Len(types) : events'[Len(events) + j] = Event(types[j], s, r)
  BY <1>2, <1>3
<1>5. Len(events') <= MaxEvents
  BY <1>4 DEF Becomes
<1>6. stripe'[s] = r /\ \A t \in Subs : t # s => stripe'[t] = stripe[t]
  BY DEF Becomes, TypeOK
<1> QED BY <1>4, <1>5, <1>6

(* What the row says does not change when events are added: those that were *)
(* applied are the same, and what was still to come is still.               *)
LEMMA RowOfMore ==
  ASSUME TypeOK, Sent, RowAgrees, row' = row, applied' = applied, disturbed => disturbed',
         Len(events') \in Nat, Len(events) <= Len(events'), Len(events') <= MaxEvents,
         \A e \in 1 .. Len(events) : events'[e] = events[e]
  PROVE  RowAgrees' /\ Sent'
<1>1. Sent'
  BY EventIds DEF Sent
<1>2. ASSUME ~disturbed', NEW k \in 0 .. Len(events'), Prefix(k)'
      PROVE  \/ k = 0 /\ row'.ext = None
             \/ k > 0 /\ row' = Image(events'[k])
             \/ Due(k)'
  <2>1. Prefix(k)
    BY <1>2 DEF Prefix
  <2>2. k <= Len(events)
    <3>1. k > 0 => applied[k] > 0
      BY <2>1, EventIds DEF Prefix, Ids
    <3> QED BY <3>1, EventIds DEF Sent, Ids
  <2>3. \/ k = 0 /\ row.ext = None
        \/ k > 0 /\ row = Image(events[k])
        \/ Due(k)
    BY <1>2, <2>1, <2>2, EventIds DEF RowAgrees
  <2>4. Due(k) => Due(k)'
    BY EventIds DEF Due
  <2>5. k > 0 => events'[k] = events[k]
    BY <2>2
  <2> QED BY <2>3, <2>4, <2>5
<1> QED BY <1>1, <1>2 DEF RowAgrees

(* A subscription becomes something else, and its events say so: nobody     *)
(* else's is alive, and the first event does not say less than there was.   *)
LEMMA LedgerGrows ==
  ASSUME TypeOK, LedgerInv, NEW s \in Subs, NEW r \in StripeType, NEW types \in Seq(TypeNames),
         Becomes(s, r, types), row' = row, applied' = applied, disturbed => disturbed',
         Len(types) \in {1, 2},
         Len(types) = 2 => \/ types[2] = "subscription"
                           \/ types[2] = "checkout" /\ r.status = "ACTIVE",
         ~disturbed' => \A t \in Subs : Live(t) => t = s,
         types[1] # "subscription" =>
           /\ Live(s) /\ r.plan = stripe[s].plan /\ r.ending = stripe[s].ending
           /\ r.status = IF types[1] = "failed" THEN "PAST_DUE" ELSE "ACTIVE"
  PROVE  LedgerInv'
<1> DEFINE n == Len(events)
<1>1. /\ Len(events') = n + Len(types) /\ Len(events') <= MaxEvents /\ n \in Nat
      /\ \A e \in 1 .. n : events'[e] = events[e]
      /\ \A j \in 1 .. Len(types) : events'[n + j] = Event(types[j], s, r)
      /\ stripe'[s] = r /\ \A t \in Subs : t # s => stripe'[t] = stripe[t]
  BY Adds, EventIds
<1>2. Len(events') \in Nat /\ n < Len(events')
      /\ \A e \in 1 .. Len(events') : e \in 1 .. n \/ e = n + 1 \/ (e = n + 2 /\ Len(types) = 2)
  <2>1. n \in Nat
    BY <1>1
  <2>2. CASE Len(types) = 1
    <3>1. Len(events') = n + 1
      BY <1>1, <2>2
    <3> HIDE DEF n
    <3> QED BY <2>1, <2>2, <3>1
  <2>3. CASE Len(types) = 2
    <3>1. Len(events') = n + 2
      BY <1>1, <2>3
    <3> HIDE DEF n
    <3> QED BY <2>1, <2>3, <3>1
  <2> QED BY <2>2, <2>3
<1>3. events'[Len(events')] = Event(types[Len(types)], s, r)
  BY <1>1
<1> HIDE DEF n
<1>4. Reported'
  BY <1>1, <1>3 DEF Reported, Event, StripeType
<1>5. OneAlive'
  <2> SUFFICES ASSUME ~disturbed', NEW t \in Subs, Live(t)'
               PROVE  Len(events') > 0 /\ events'[Len(events')].sub = t
    BY DEF OneAlive
  <2>1. t = s
    BY <1>1 DEF Live
  <2> QED BY <1>1, <1>2, <1>3, <2>1 DEF Event
<1>6. Chained'
  <2> SUFFICES ASSUME ~disturbed', NEW e \in 1 .. Len(events'), events'[e].type # "subscription"
               PROVE  /\ e > 1
                      /\ events'[e].sub = events'[e - 1].sub
                      /\ events'[e].plan = events'[e - 1].plan
                      /\ events'[e].ending = events'[e - 1].ending
                      /\ events'[e].status = IF events'[e].type = "failed" THEN "PAST_DUE"
                                             ELSE "ACTIVE"
    BY DEF Chained
  <2>1. CASE e \in 1 .. n
    <3>1. events'[e] = events[e]
      BY <1>1, <2>1
    <3>2. e > 1 /\ e - 1 \in 1 .. n
      <4>1. e \in 1 .. Len(events) /\ ~disturbed /\ events[e].type # "subscription"
        BY <2>1, <3>1 DEF n
      <4>2. e > 1
        BY <4>1 DEF LedgerInv, Chained
      <4> QED BY <1>1, <2>1, <4>2
    <3>3. events'[e - 1] = events[e - 1]
      BY <1>1, <3>2
    <3> QED BY <2>1, <3>1, <3>3 DEF LedgerInv, Chained, n
  <2>2. CASE e = n + 1
    <3>1. events'[e] = Event(types[1], s, r) /\ types[1] # "subscription"
      BY <1>1, <2>2 DEF Event
    <3>2. n > 0 /\ events[n].sub = s /\ events'[n] = events[n]
      BY <1>1, <3>1 DEF LedgerInv, OneAlive, n
    <3>3. stripe[s].plan = events[n].plan /\ stripe[s].ending = events[n].ending
      BY <3>2 DEF LedgerInv, Reported, n
    <3>4. e - 1 = n /\ e > 1
      BY <1>1, <2>2, <3>2
    <3> QED BY <3>1, <3>2, <3>3, <3>4 DEF Event
  <2>3. CASE e = n + 2 /\ Len(types) = 2
    <3>1. events'[e] = Event(types[2], s, r) /\ types[2] = "checkout" /\ r.status = "ACTIVE"
      BY <1>1, <2>3 DEF Event
    <3>2. e - 1 = n + 1 /\ e > 1 /\ events'[n + 1] = Event(types[1], s, r)
      BY <1>1, <2>3
    <3> QED BY <3>1, <3>2 DEF Event
  <2> QED BY <1>2, <2>1, <2>2, <2>3
<1>7. RowAgrees' /\ Sent'
  BY <1>1, <1>2, RowOfMore DEF LedgerInv, n
<1> QED BY <1>4, <1>5, <1>6, <1>7 DEF LedgerInv

(* Nothing that counts is written; a session that is opened is not alive.   *)
LEMMA LedgerKept ==
  ASSUME TypeOK, LedgerInv, UNCHANGED <<row, applied, events, disturbed>>,
         \/ stripe' = stripe
         \/ \E a \in Admins, s \in Subs : OpenSession(a, s)
  PROVE  LedgerInv'
<1>1. Sent' /\ RowAgrees' /\ Chained'
  BY DEF LedgerInv, Sent, RowAgrees, Chained, Prefix, Due
<1>2. \A t \in Subs : /\ Live(t)' => Live(t)
                      /\ stripe[t].status \in Statuses => stripe'[t] = stripe[t]
  BY DEF OpenSession, Live, Statuses, TypeOK
<1>3. OneAlive'
  BY <1>2 DEF LedgerInv, OneAlive
<1>4. Reported'
  <2> DEFINE e == events[Len(events)]
  <2>1. ASSUME Len(events) > 0 PROVE e.sub \in Subs /\ e.status \in Statuses
    BY <2>1, EventIds DEF EventType
  <2>2. ASSUME Len(events) > 0 PROVE stripe'[e.sub] = stripe[e.sub]
    <3>1. stripe[e.sub].status = e.status
      BY <2>2 DEF LedgerInv, Reported
    <3> QED BY <1>2, <2>1, <2>2, <3>1
  <2> QED BY <2>2 DEF LedgerInv, Reported
<1> QED BY <1>1, <1>3, <1>4 DEF LedgerInv

(* A change of plan that goes on as it was, or is over.                     *)
LEMMA AskedKept ==
  ASSUME TypeOK, NEW b \in Admins, Asked(b), admin'[b] \in {admin[b], NoChange},
         row'.ext = row.ext, applied' = applied,
         Len(events') \in Nat, Len(events) <= Len(events'),
         \A e \in 1 .. Len(events) : events'[e] = events[e]
  PROVE  Asked(b)'
<1>1. CASE admin'[b] = NoChange
  BY <1>1 DEF Asked, NoChange
<1>2. CASE admin'[b] = admin[b]
  <2> SUFFICES ASSUME admin[b].at # "idle", ~admin[b].late PROVE Asked(b)'
    BY <1>2 DEF Asked
  <2>1. admin[b].ext = row.ext
    BY DEF Asked
  <2>2. ASSUME admin[b].at = "write", admin[b].ext # None
        PROVE  \E e \in Ids : /\ e <= Len(events') /\ events'[e].type = "subscription"
                              /\ \A f \in Ids : applied'[f] > 0 => f < e
    <3>1. PICK e \in Ids : /\ e <= Len(events) /\ events[e].type = "subscription"
                           /\ \A f \in Ids : applied[f] > 0 => f < e
      BY <2>2 DEF Asked
    <3>2. e \in 1 .. Len(events) /\ e <= Len(events')
      BY <3>1, EventIds DEF Ids
    <3> QED BY <3>1, <3>2
  <2> QED BY <1>2, <2>1, <2>2 DEF Asked
<1> QED BY <1>1, <1>2

(* The customer or time changes a subscription.                             *)
LEMMA MirrorOutside ==
  ASSUME TypeOK, MirrorInv, NEW s \in Subs, Pay(s) \/ Drift(s)
  PROVE  MirrorInv'
<1>1. PICK r \in StripeType, types \in Seq(TypeNames) :
        /\ Becomes(s, r, types) /\ Len(types) \in {1, 2}
        /\ Len(types) = 2 => \/ types[2] = "subscription"
                             \/ types[2] = "checkout" /\ r.status = "ACTIVE"
        /\ \/ types[1] = "subscription"
           \/ /\ Live(s) /\ r.plan = stripe[s].plan /\ r.ending = stripe[s].ending
              /\ r.status = IF types[1] = "failed" THEN "PAST_DUE" ELSE "ACTIVE"
  <2>0. stripe[s] \in [status : Statuses \cup {"none", "session"}, plan : Plans, ending : BOOLEAN]
    BY DEF TypeOK
  <2>1. \A x \in Statuses : [stripe[s] EXCEPT !.status = x] \in StripeType
    BY <2>0 DEF StripeType
  <2>2. "ACTIVE" \in Statuses /\ "PAST_DUE" \in Statuses /\ "CANCELED" \in Statuses
    BY DEF Statuses
  <2>3. Live(s) => stripe[s] \in StripeType /\ [stripe[s] EXCEPT !.ending = TRUE] \in StripeType
    BY <2>0 DEF Live, Statuses, StripeType
  <2>4. /\ <<"paid">> \in Seq(TypeNames) /\ <<"subscription">> \in Seq(TypeNames)
        /\ <<"failed", "subscription">> \in Seq(TypeNames)
        /\ <<"paid", "subscription">> \in Seq(TypeNames)
        /\ <<"subscription", "checkout">> \in Seq(TypeNames)
    BY DEF TypeNames
  <2>5. CASE Pay(s)
    <3>1. Becomes(s, [stripe[s] EXCEPT !.status = "ACTIVE"], <<"subscription", "checkout">>)
      BY <2>5 DEF Pay
    <3>2. [stripe[s] EXCEPT !.status = "ACTIVE"].status = "ACTIVE"
      BY <2>0
    <3> QED BY <2>1, <2>2, <2>4, <3>1, <3>2
  <2>6. CASE stripe[s].status = "ACTIVE" /\ Becomes(s, stripe[s], <<"paid">>)
    <3>1. Live(s)
      BY <2>6 DEF Live
    <3> DEFINE r == stripe[s]
    <3>2. r.status = "ACTIVE" /\ r.plan = stripe[s].plan /\ r.ending = stripe[s].ending
          /\ r \in StripeType /\ Becomes(s, r, <<"paid">>)
      BY <2>3, <2>6, <3>1
    <3> DEFINE types == <<"paid">>
    <3>3. Len(types) = 1 /\ types[1] = "paid" /\ types \in Seq(TypeNames) /\ Becomes(s, r, types)
      BY <2>4, <3>2
    <3> HIDE DEF r, types
    <3> QED BY <3>1, <3>2, <3>3
  <2>7. CASE stripe[s].status = "ACTIVE"
             /\ Becomes(s, [stripe[s] EXCEPT !.status = "PAST_DUE"], <<"failed", "subscription">>)
    <3>1. Live(s)
      BY <2>7 DEF Live
    <3> DEFINE r == [stripe[s] EXCEPT !.status = "PAST_DUE"]
    <3>2. r.status = "PAST_DUE" /\ r.plan = stripe[s].plan /\ r.ending = stripe[s].ending
          /\ r \in StripeType
      BY <2>0, <2>1, <2>2
    <3> HIDE DEF r
    <3> QED BY <2>4, <2>7, <3>1, <3>2 DEF r
  <2>8. CASE stripe[s].status = "PAST_DUE"
             /\ Becomes(s, [stripe[s] EXCEPT !.status = "ACTIVE"], <<"paid", "subscription">>)
    <3>1. Live(s)
      BY <2>8 DEF Live
    <3> DEFINE r == [stripe[s] EXCEPT !.status = "ACTIVE"]
    <3>2. r.status = "ACTIVE" /\ r.plan = stripe[s].plan /\ r.ending = stripe[s].ending
          /\ r \in StripeType
      BY <2>0, <2>1, <2>2
    <3> HIDE DEF r
    <3> QED BY <2>4, <2>8, <3>1, <3>2 DEF r
  <2>9. CASE \/ Becomes(s, [stripe[s] EXCEPT !.status = "CANCELED"], <<"subscription">>)
             \/ Live(s) /\ Becomes(s, [stripe[s] EXCEPT !.ending = TRUE], <<"subscription">>)
    <3>1. PICK r \in StripeType : Becomes(s, r, <<"subscription">>)
      BY <2>1, <2>2, <2>3, <2>9
    <3>2. Len(<<"subscription">>) = 1 /\ <<"subscription">>[1] = "subscription"
      OBVIOUS
    <3> DEFINE types == <<"subscription">>
    <3> HIDE DEF types
    <3>3. types \in Seq(TypeNames) /\ Len(types) = 1 /\ types[1] = "subscription"
          /\ Becomes(s, r, types)
      BY <2>4, <3>1, <3>2 DEF types
    <3> QED BY <3>3
  <2> QED BY <2>5, <2>6, <2>7, <2>8, <2>9 DEF Drift
<1>2. row' = row /\ applied' = applied /\ admin' = admin /\ (disturbed => disturbed')
  <2>1. row' = row /\ applied' = applied /\ admin' = admin
    BY DEF Pay, Drift, mirror
  <2>2. CASE Pay(s)
    BY <2>1, <2>2 DEF Pay
  <2>3. CASE Drift(s)
    BY <2>1, <2>3 DEF Drift, mirror
  <2> QED BY <2>2, <2>3
<1>3. ~disturbed' => \A t \in Subs : Live(t) => t = s
  <2>1. CASE Pay(s)
    BY <2>1 DEF Pay
  <2>2. CASE Drift(s)
    <3>1. Live(s) /\ disturbed' = disturbed
      BY <2>2 DEF Drift, Live, mirror
    <3> QED BY <3>1 DEF MirrorInv, LedgerInv, OneAlive
  <2> QED BY <2>1, <2>2
<1>4. LedgerInv'
  BY <1>1, <1>2, <1>3, LedgerGrows DEF MirrorInv
<1>5. ASSUME NEW b \in Admins PROVE Asked(b)'
  <2>1. /\ Len(events') \in Nat /\ Len(events) <= Len(events')
        /\ \A e \in 1 .. Len(events) : events'[e] = events[e]
    BY <1>1, Adds, EventIds
  <2> QED BY <1>2, <2>1, AskedKept DEF MirrorInv
<1> QED BY <1>4, <1>5 DEF MirrorInv

(* Stripe is called: the event of the change is the last there is.          *)
LEMMA MirrorCall ==
  ASSUME TypeOK, MirrorInv, NEW a \in Admins, CallStripe(a)
  PROVE  MirrorInv'
<1>1. /\ admin[a].ext \in Subs /\ Live(admin[a].ext) /\ admin[a].at = "stripe"
      /\ admin[a] \in AdminType
  BY DEF CallStripe, TypeOK, AdminType
<1>2. PICK s \in Subs : s = admin[a].ext
  BY <1>1
<1>3. [status |-> stripe[s].status, plan |-> admin[a].plan,
       ending |-> admin[a].plan = Free] \in StripeType
  BY <1>1, <1>2 DEF Live, Statuses, StripeType, AdminType
<1>4. PICK r \in StripeType : r = [status |-> stripe[s].status, plan |-> admin[a].plan,
                                   ending |-> admin[a].plan = Free]
  BY <1>3
<1>5. /\ <<"subscription">> \in Seq(TypeNames)
      /\ Len(<<"subscription">>) = 1 /\ <<"subscription">>[1] = "subscription"
  BY DEF TypeNames
<1>6. PICK types \in Seq(TypeNames) :
        types = <<"subscription">> /\ Len(types) = 1 /\ types[1] = "subscription"
  BY <1>5
<1>7. /\ Becomes(s, r, types) /\ admin' = [admin EXCEPT ![a].at = "write"]
      /\ row' = row /\ applied' = applied /\ disturbed' = disturbed
  BY <1>2, <1>4, <1>6 DEF CallStripe, mirror
<1>8. ~disturbed' => \A t \in Subs : Live(t) => t = s
  BY <1>1, <1>2, <1>7 DEF MirrorInv, LedgerInv, OneAlive
<1>9. LedgerInv'
  BY <1>6, <1>7, <1>8, LedgerGrows DEF MirrorInv
<1>10. /\ Len(events') = Len(events) + 1 /\ Len(events') <= MaxEvents
       /\ Len(events) \in Nat
       /\ \A e \in 1 .. Len(events) : events'[e] = events[e]
       /\ events'[Len(events) + 1] = Event("subscription", s, r)
  <2>1. /\ Len(events') = Len(events) + Len(types) /\ Len(events') <= MaxEvents
        /\ \A e \in 1 .. Len(events) : events'[e] = events[e]
        /\ \A j \in 1 .. Len(types) : events'[Len(events) + j] = Event(types[j], s, r)
    BY <1>7, Adds
  <2>2. 1 \in 1 .. Len(types)
    BY <1>6
  <2> QED BY <1>6, <2>1, <2>2, EventIds
<1>11. ASSUME NEW b \in Admins PROVE Asked(b)'
  <2>1. CASE b # a
    <3>1. admin'[b] = admin[b]
      BY <1>7, <2>1 DEF TypeOK
    <3>2. Len(events') \in Nat /\ Len(events) <= Len(events')
      BY <1>10
    <3> QED BY <1>7, <1>10, <3>1, <3>2, AskedKept DEF MirrorInv
  <2>2. CASE b = a
    <3>1. /\ admin'[b].ext = admin[a].ext /\ admin'[b].late = admin[a].late
          /\ admin'[b].at = "write"
      BY <1>1, <1>7, <2>2 DEF TypeOK, AdminType
    <3>2. ~admin[a].late => admin[a].ext = row'.ext
      BY <1>1, <1>7 DEF MirrorInv, Asked
    <3>3. \E e \in Ids : /\ e <= Len(events') /\ events'[e].type = "subscription"
                         /\ \A f \in Ids : applied'[f] > 0 => f < e
      <4> DEFINE e == Len(events) + 1
      <4>1. e \in Ids /\ e <= Len(events') /\ events'[e].type = "subscription"
        BY <1>10, EventIds DEF Ids, Event
      <4>2. \A f \in Ids : applied'[f] > 0 => f < e
        BY <1>7, <1>10, EventIds DEF MirrorInv, LedgerInv, Sent
      <4> HIDE DEF e
      <4> QED BY <4>1, <4>2
    <3> QED BY <3>1, <3>2, <3>3 DEF Asked
  <2> QED BY <2>1, <2>2
<1> QED BY <1>9, <1>11 DEF MirrorInv

(* A change is asked for, refused, given up, or goes to a session.          *)
LEMMA MirrorAsk ==
  ASSUME TypeOK, MirrorInv, NEW a \in Admins,
         \/ \E p \in Plans : Ask(a, p)
         \/ \E s \in Subs : OpenSession(a, s)
         \/ Refused(a) \/ AdminFails(a)
  PROVE  MirrorInv'
<1>1. UNCHANGED <<row, applied, events, disturbed>>
  BY DEF Ask, OpenSession, Refused, AdminFails, mirror
<1>2. stripe' = stripe \/ \E b \in Admins, s \in Subs : OpenSession(b, s)
  BY DEF Ask, OpenSession, Refused, AdminFails
<1>3. LedgerInv'
  BY <1>1, <1>2, LedgerKept DEF MirrorInv
<1>4. ASSUME NEW b \in Admins PROVE Asked(b)'
  <2>0. Len(events') \in Nat /\ Len(events) <= Len(events')
        /\ \A e \in 1 .. Len(events) : events'[e] = events[e]
    BY <1>1, EventIds
  <2>1. CASE admin'[b] \in {admin[b], NoChange}
    BY <1>1, <2>0, <2>1, AskedKept DEF MirrorInv
  <2>2. CASE admin'[b] \notin {admin[b], NoChange}
    <3>1. b = a /\ \E p \in Plans : Ask(a, p)
      BY <2>2 DEF OpenSession, Refused, AdminFails, Ask, TypeOK
    <3>2. admin'[b].ext = row.ext /\ (admin'[b].at = "write" => row.ext = None)
      BY <3>1 DEF Ask, TypeOK
    <3> QED BY <1>1, <3>2 DEF Asked
  <2> QED BY <2>1, <2>2
<1> QED BY <1>3, <1>4 DEF MirrorInv

(* The plan is written to the row: the event of the change is still to      *)
(* come, or there is no subscription yet.                                   *)
LEMMA MirrorWrite ==
  ASSUME TypeOK, MirrorInv, NEW a \in Admins, WritePlan(a)
  PROVE  MirrorInv'
<1>1. /\ admin[a].at = "write" /\ admin' = [admin EXCEPT ![a] = NoChange]
      /\ applied' = applied /\ stripe' = stripe /\ events' = events
      /\ disturbed' = (disturbed \/ admin[a].late)
      /\ row'.ext = row.ext
  BY DEF WritePlan, TypeOK
<1>2. ~disturbed' => ~disturbed /\ ~admin[a].late
  BY <1>1
<1>3. Reported' /\ Sent'
  BY <1>1 DEF MirrorInv, LedgerInv, Reported, Sent
<1>4. OneAlive' /\ Chained'
  BY <1>1, <1>2 DEF MirrorInv, LedgerInv, OneAlive, Chained, Live
<1>5. RowAgrees'
  <2> SUFFICES ASSUME ~disturbed', NEW k \in 0 .. Len(events'), Prefix(k)'
               PROVE  (k = 0 /\ row'.ext = None) \/ Due(k)'
    BY DEF RowAgrees
  <2>1. k \in 0 .. Len(events) /\ Prefix(k)
    BY <1>1 DEF Prefix
  <2>2. Due(k) => Due(k)'
    BY <1>1 DEF Due
  <2>3. admin[a].ext = row.ext
    BY <1>1, <1>2 DEF MirrorInv, Asked
  <2>4. CASE admin[a].ext # None
    <3>1. PICK e \in Ids : /\ e <= Len(events) /\ events[e].type = "subscription"
                           /\ \A f \in Ids : applied[f] > 0 => f < e
      BY <1>1, <1>2, <2>4 DEF MirrorInv, Asked
    <3>2. k < e
      <4>1. k \in Ids => applied[k] > 0
        BY <2>1, EventIds DEF Prefix
      <4>2. k = 0 \/ k \in Ids
        BY <2>1, EventIds DEF Ids
      <4> QED BY <3>1, <4>1, <4>2, EventIds
    <3> QED BY <2>2, <3>1, <3>2 DEF Due
  <2>5. CASE admin[a].ext = None
    <3>1. CASE k > 0 /\ row = Image(events[k])
      <4>1. events[k].sub \in Subs
        BY <2>1, <3>1, EventIds DEF EventType
      <4>2. row.ext = events[k].sub
        BY <3>1 DEF Image
      <4> QED BY <2>3, <2>5, <4>1, <4>2, BillingAssumption
    <3> QED BY <1>1, <1>2, <2>1, <2>2, <3>1 DEF MirrorInv, LedgerInv, RowAgrees
  <2> QED BY <2>4, <2>5
<1>6. ASSUME NEW b \in Admins PROVE Asked(b)'
  <2>1. admin'[b] \in {admin[b], NoChange}
    BY <1>1 DEF TypeOK
  <2>2. Len(events') \in Nat /\ Len(events) <= Len(events')
    BY <1>1, EventIds
  <2> QED BY <1>1, <2>1, <2>2, AskedKept DEF MirrorInv
<1> QED BY <1>3, <1>4, <1>5, <1>6 DEF MirrorInv, LedgerInv

(* An event is applied: when none after it was, and those before it are all *)
(* that were, the row is the event's, unless what is still to come will     *)
(* overwrite it.                                                            *)
LEMMA MirrorApply ==
  ASSUME IInv, MirrorInv, NEW h \in Handlers, Apply(h)
  PROVE  MirrorInv'
<1> DEFINE x == job[h].event
<1>0. TypeOK /\ LedgerInv
  BY DEF IInv, MirrorInv
<1>1. /\ x \in Ids /\ x <= Len(events) /\ applied[x] = 0
      /\ row' = Mirrored(row, events[x])
      /\ applied' = [applied EXCEPT ![x] = @ + 1]
      /\ disturbed' = (disturbed \/ \E f \in Ids : f > x /\ applied[f] > 0)
      /\ events' = events /\ stripe' = stripe
  BY DEF IInv, Apply, Holds, Working
<1>2. applied'[x] = 1 /\ \A e \in Ids : e # x => applied'[e] = applied[e]
  BY <1>0, <1>1 DEF TypeOK
<1>3. x \in 1 .. Len(events) /\ events[x] \in EventType
  BY <1>0, <1>1, EventIds DEF Ids
<1>4. ~disturbed' => ~disturbed /\ \A f \in Ids : f > x => ~(applied[f] > 0)
  BY <1>1
<1> HIDE DEF x
<1>5. Reported' /\ Sent'
  <2>1. Reported'
    BY <1>0, <1>1 DEF LedgerInv, Reported
  <2>2. Sent'
    BY <1>0, <1>1, <1>2 DEF LedgerInv, Sent
  <2> QED BY <2>1, <2>2
<1>6. OneAlive' /\ Chained'
  BY <1>0, <1>1, <1>4 DEF LedgerInv, OneAlive, Chained, Live
<1>7. \A b \in Admins : Asked(b)'
  BY <1>0 DEF Apply, Asked, TypeOK
<1>8. RowAgrees'
  <2> SUFFICES ASSUME ~disturbed', NEW k \in 0 .. Len(events'), Prefix(k)'
               PROVE  (k > 0 /\ row' = Image(events'[k])) \/ Due(k)'
    BY DEF RowAgrees
  <2>1. k = x
    <3>1. x <= k
      BY <1>1, <1>2 DEF Prefix
    <3>2. k \in Ids
      BY <1>0, <1>1, <1>3, <3>1, EventIds DEF Ids
    <3>3. applied'[k] > 0
      BY <1>0, <3>2, EventIds DEF Prefix
    <3> QED BY <1>0, <1>2, <1>3, <1>4, <3>1, <3>2, <3>3, EventIds
  <2>2. Prefix(x - 1) /\ x - 1 \in 0 .. Len(events)
    <3>1. \A e \in Ids : applied'[e] > 0 <=> e <= x
      BY <2>1 DEF Prefix
    <3>2. \A e \in Ids : e <= x - 1 <=> (e <= x /\ e # x)
      BY <1>0, <1>1, EventIds
    <3>3. \A e \in Ids : applied[e] > 0 <=> e <= x - 1
      BY <1>1, <1>2, <3>1, <3>2
    <3> QED BY <1>3, <3>3 DEF Prefix
  <2>3. \/ x = 1 /\ row.ext = None
        \/ x > 1 /\ row = Image(events[x - 1])
        \/ Due(x - 1)
    BY <1>0, <1>3, <1>4, <2>2 DEF LedgerInv, RowAgrees
  <2>4. CASE events[x].type = "subscription"
    BY <1>1, <1>3, <2>1, <2>4 DEF Mirrored, Image
  <2>5. CASE events[x].type # "subscription"
    <3>1. /\ x > 1 /\ events[x].sub = events[x - 1].sub /\ events[x].plan = events[x - 1].plan
          /\ events[x].ending = events[x - 1].ending
          /\ events[x].status = IF events[x].type = "failed" THEN "PAST_DUE" ELSE "ACTIVE"
      BY <1>0, <1>3, <1>4, <2>5 DEF LedgerInv, Chained
    <3>2. CASE row = Image(events[x - 1])
      <4>1. row = [plan |-> events[x].plan, status |-> events[x - 1].status,
                   ext |-> events[x].sub, ending |-> events[x].ending]
        BY <3>1, <3>2 DEF Image
      <4>2. events[x].type \in {"checkout", "paid", "failed"}
        BY <1>3, <2>5 DEF EventType
      <4>3. row' = Image(events[x])
        BY <1>1, <3>1, <4>1, <4>2 DEF Mirrored, Image
      <4> QED BY <1>1, <2>1, <3>1, <4>3
    <3>3. CASE Due(x - 1)
      <4>1. PICK e \in Ids : x - 1 < e /\ e <= Len(events) /\ events[e].type = "subscription"
        BY <3>3 DEF Due
      <4>2. x < e
        BY <1>0, <1>3, <2>5, <4>1, EventIds
      <4> QED BY <1>1, <2>1, <4>1, <4>2 DEF Due
    <3> QED BY <2>3, <3>1, <3>2, <3>3
  <2> QED BY <2>4, <2>5
<1> QED BY <1>5, <1>6, <1>7, <1>8 DEF MirrorInv, LedgerInv

(* Claims and answers do not touch the row.                                 *)
LEMMA MirrorQuiet ==
  ASSUME TypeOK, MirrorInv, UNCHANGED <<row, applied, events, disturbed, stripe, admin>>
  PROVE  MirrorInv'
<1>1. LedgerInv'
  BY LedgerKept DEF MirrorInv
<1>2. \A b \in Admins : Asked(b)'
  BY DEF MirrorInv, Asked
<1> QED BY <1>1, <1>2 DEF MirrorInv

(* At first there is no subscription, no event and an empty row.            *)
LEMMA InitMirrorInv == Init => MirrorInv
<1> SUFFICES ASSUME Init PROVE MirrorInv
  OBVIOUS
<1>1. /\ Len(events) = 0 /\ row.ext = None
      /\ \A e \in Ids : applied[e] = 0
      /\ \A s \in Subs : ~Live(s)
      /\ \A a \in Admins : admin[a].at = "idle"
  BY DEF Init, Live, NoChange
<1>2. Reported /\ OneAlive /\ Chained /\ Sent
  BY <1>1 DEF Reported, OneAlive, Chained, Sent
<1>3. RowAgrees
  BY <1>1 DEF RowAgrees
<1> QED BY <1>1, <1>2, <1>3 DEF MirrorInv, LedgerInv, Asked

(* Every step keeps the ledger and what the row has of it.                  *)
LEMMA StepMirrorInv == IInv /\ MirrorInv /\ [Next]_vars => MirrorInv'
<1> SUFFICES ASSUME IInv, MirrorInv, [Next]_vars PROVE MirrorInv'
  OBVIOUS
<1>0. TypeOK
  BY DEF IInv
<1>1. CASE UNCHANGED vars
  BY <1>0, <1>1, MirrorQuiet DEF vars, mirror
<1>2. ASSUME NEW s \in Subs, Pay(s) \/ Drift(s) PROVE MirrorInv'
  BY <1>0, <1>2, MirrorOutside
<1>3. ASSUME NEW a \in Admins,
             \/ \E p \in Plans : Ask(a, p)
             \/ \E s \in Subs : OpenSession(a, s)
             \/ CallStripe(a) \/ Refused(a) \/ WritePlan(a) \/ AdminFails(a)
      PROVE  MirrorInv'
  BY <1>0, <1>3, MirrorAsk, MirrorCall, MirrorWrite
<1>4. ASSUME NEW h \in Handlers,
             (\E e \in Ids : Receive(h, e)) \/ Apply(h) \/ Mark(h) \/ HandlerFails(h)
      PROVE  MirrorInv'
  <2>1. CASE Apply(h)
    BY <2>1, MirrorApply
  <2>2. CASE (\E e \in Ids : Receive(h, e)) \/ Mark(h) \/ HandlerFails(h)
    <3>1. UNCHANGED <<row, applied, events, disturbed, stripe, admin>>
      BY <2>2 DEF Receive, Mark, HandlerFails, mirror
    <3> QED BY <1>0, <3>1, MirrorQuiet
  <2> QED BY <1>4, <2>1, <2>2
<1> QED BY <1>1, <1>2, <1>3, <1>4 DEF Next

(* Stripe, its events and the row fit together in every state.              *)
THEOREM MirrorAlways == Spec => [](IInv /\ MirrorInv)
BY InitIInv, StepIInv, InitMirrorInv, StepMirrorInv, PTL DEF Spec

(* Once every event was answered and nobody is at work, the row says what   *)
(* Stripe says, for any number of subscriptions, requests and deliveries,   *)
(* as long as no handler failed and nothing was overtaken.                  *)
THEOREM SettledAgreesAlways == Spec => []SettledAgrees
<1>1. ASSUME IInv, MirrorInv, Settled, hurt = {}, ~disturbed, NEW s \in Subs,
             Live(s) \/ (stripe[s].status = "CANCELED" /\ row.ext = s)
      PROVE  row = [plan |-> stripe[s].plan, status |-> stripe[s].status,
                    ext |-> s, ending |-> stripe[s].ending]
  <2> DEFINE n == Len(events)
             last == events[n]
  <2>0. TypeOK /\ LedgerInv
    BY <1>1 DEF IInv, MirrorInv
  <2>1. n \in Nat /\ s # None
    BY <2>0, EventIds, BillingAssumption
  <2>2. Prefix(n)
    <3> SUFFICES ASSUME NEW e \in Ids PROVE applied[e] > 0 <=> e <= n
      BY DEF Prefix
    <3>1. CASE e <= n
      <4>1. e \in answered
        BY <1>1, <2>0, <3>1, EventIds DEF Settled
      <4>2. claim[e] # "none" /\ e \notin hurt
        BY <1>1, <4>1 DEF IInv, Placed
      <4>3. \A h \in Handlers : job[h].at # "apply"
        BY <1>1 DEF Settled
      <4>4. applied[e] = 1
        BY <1>1, <4>2, <4>3 DEF IInv, Placed
      <4> QED BY <3>1, <4>4
    <3>2. CASE ~(e <= n)
      BY <2>0, <3>2 DEF LedgerInv, Sent
    <3> QED BY <3>1, <3>2
  <2>3. (n = 0 /\ row.ext = None) \/ (n > 0 /\ row = Image(last))
    <3>1. n \in 0 .. Len(events)
      BY <2>1
    <3>2. ~Due(n)
      BY <2>0, <2>1, EventIds DEF Due
    <3> QED BY <1>1, <2>0, <2>2, <3>1, <3>2 DEF LedgerInv, RowAgrees
  <2>4. n > 0 /\ row = Image(last) /\ last.sub = s
    <3>1. CASE Live(s)
      BY <1>1, <2>0, <2>3, <3>1 DEF LedgerInv, OneAlive
    <3>2. CASE row.ext = s
      BY <2>1, <2>3, <3>2 DEF Image
    <3> QED BY <1>1, <3>1, <3>2
  <2>5. stripe[s] = [status |-> last.status, plan |-> last.plan, ending |-> last.ending]
    BY <2>0, <2>4 DEF LedgerInv, Reported
  <2> HIDE DEF last
  <2> QED BY <2>4, <2>5 DEF Image
<1>2. IInv /\ MirrorInv => SettledAgrees
  BY <1>1 DEF SettledAgrees
<1> QED BY <1>2, MirrorAlways, PTL

-----------------------------------------------------------------------------
(*                              Entitlements                                *)
(* The invariant counts, beside what was used, the callers that passed the  *)
(* comparison and have not used their unit yet.                             *)

Kinds == {"meter", "seat"}

Cap(k, p) == IF k = "meter" THEN Limit[p] ELSE Seats[p]

(* what the limit has to answer for                                         *)
Net(k) == IF k = "meter" THEN used - exempted ELSE seats - regained

(* callers that passed the comparison                                       *)
Pending(k) == {c \in Callers : call[c].at = "add" /\ call[c].kind = k /\ ~call[c].exempt}

SafeAt(n, P, k, H) ==
  \/ n <= 0 /\ P = {}
  \/ \E p \in H : Cap(k, p) >= 1 /\ n + Cardinality(P) <= Cap(k, p) + Others

Safe(k) == SafeAt(Net(k), Pending(k), k, held)

(* a caller that is about to count compares with a plan that was held       *)
Honest(c) ==
  /\ call[c].exempt => call[c].kind = "meter"
  /\ call[c].at = "count" =>
       /\ ~call[c].exempt
       /\ \E p \in held : call[c].limit = Cap(call[c].kind, p)

LimitsIInv ==
  /\ LimitsTypeOK
  /\ \A c \in Callers : Honest(c)
  /\ \A k \in Kinds : Safe(k)

-----------------------------------------------------------------------------
(* The counters keep their types and a plan that was held stays held.       *)
LEMMA TypeStep == LimitsTypeOK /\ [LimitsNext]_limitVars => LimitsTypeOK' /\ held \subseteq held'
<1> SUFFICES ASSUME LimitsTypeOK, [LimitsNext]_limitVars PROVE LimitsTypeOK' /\ held \subseteq held'
  OBVIOUS
<1> USE EntitlementsAssumption DEF LimitsTypeOK
<1>1. Idle \in CallType
  BY DEF Idle, CallType
<1>2. CASE UNCHANGED limitVars
  BY <1>2 DEF limitVars, usage
<1>3. CASE Change /\ UNCHANGED usage
  BY <1>3 DEF Change, usage
<1>4. ASSUME UNCHANGED <<plan, barred, held>>, NEW c \in Callers,
             NEW kind \in Kinds, NEW exempt \in BOOLEAN, Look(c, kind, exempt)
      PROVE  LimitsTypeOK' /\ held \subseteq held'
  <2>1. [at     |-> IF exempt \/ barred THEN "add" ELSE "count",
         kind   |-> kind,
         limit  |-> IF kind = "meter" THEN Limit[plan] ELSE Seats[plan],
         exempt |-> exempt] \in CallType
    BY <1>4 DEF CallType, Kinds
  <2> QED BY <1>4, <2>1 DEF Look
<1>5. ASSUME UNCHANGED <<plan, barred, held>>, NEW c \in Callers, Count(c)
      PROVE  LimitsTypeOK' /\ held \subseteq held'
  <2>1. [call[c] EXCEPT !.at = "add"] \in CallType
    BY <1>5 DEF CallType
  <2> QED BY <1>5, <1>1, <2>1 DEF Count
<1>6. ASSUME UNCHANGED <<plan, barred, held>>, NEW c \in Callers,
             Increment(c) \/ Create(c) \/ GiveUp(c)
      PROVE  LimitsTypeOK' /\ held \subseteq held'
  BY <1>6, <1>1 DEF Increment, Create, GiveUp
<1>7. ASSUME UNCHANGED <<plan, barred, held>>, Pause \/ Activate \/ NewMonth
      PROVE  LimitsTypeOK' /\ held \subseteq held'
  BY <1>7 DEF Pause, Activate, NewMonth
<1> QED
  BY <1>2, <1>3, <1>4, <1>5, <1>6, <1>7 DEF LimitsNext, Use, Kinds

(* There never are more callers past the comparison than callers.           *)
LEMMA PendingFinite ==
  ASSUME NEW P, P \subseteq Callers
  PROVE  /\ IsFiniteSet(P) /\ Cardinality(P) \in Nat
         /\ Cardinality(P) <= Others + 1 /\ Others \in Int
BY EntitlementsAssumption, FS_Subset, FS_CardinalityType DEF Others

(* Less used, fewer callers past the comparison, more plans held.           *)
LEMMA SafeShrinks ==
  ASSUME NEW k \in Kinds, NEW H \in SUBSET Catalogue, NEW G \in SUBSET Catalogue, H \subseteq G,
         NEW P \in SUBSET Callers, NEW Q \in SUBSET P,
         NEW n \in Int, NEW m \in Int, m <= n, SafeAt(n, P, k, H)
  PROVE  SafeAt(m, Q, k, G)
<1>1. Cardinality(Q) <= Cardinality(P) /\ Cardinality(Q) \in Nat /\ Cardinality(P) \in Nat
  BY PendingFinite, FS_Subset
<1>2. \A p \in Catalogue : Cap(k, p) \in Nat
  BY EntitlementsAssumption DEF Cap
<1>3. Others \in Int
  BY PendingFinite
<1> QED BY <1>1, <1>2, <1>3 DEF SafeAt

(* A caller uses the unit it was allowed.                                   *)
LEMMA SafeTaken ==
  ASSUME NEW k \in Kinds, NEW H \in SUBSET Catalogue,
         NEW P \in SUBSET Callers, NEW c \in P,
         NEW n \in Int, SafeAt(n, P, k, H)
  PROVE  SafeAt(n + 1, P \ {c}, k, H)
<1>1. Cardinality(P \ {c}) = Cardinality(P) - 1 /\ Cardinality(P) \in Nat
  BY PendingFinite, FS_RemoveElement
<1>2. \A p \in Catalogue : Cap(k, p) \in Nat
  BY EntitlementsAssumption DEF Cap
<1>3. Others \in Int
  BY PendingFinite
<1> QED BY <1>1, <1>2, <1>3 DEF SafeAt

(* A caller passes the comparison: whoever else has passed it, they are     *)
(* callers.                                                                 *)
LEMMA SafePassed ==
  ASSUME NEW k \in Kinds, NEW H \in SUBSET Catalogue, NEW p \in H,
         NEW P \in SUBSET Callers, NEW n \in Int, n + 1 <= Cap(k, p), 1 <= Cap(k, p)
  PROVE  SafeAt(n, P, k, H)
<1>1. Cardinality(P) \in Nat /\ Cardinality(P) <= Others + 1 /\ Others \in Int
  BY PendingFinite
<1>2. Cap(k, p) \in Nat
  BY EntitlementsAssumption DEF Cap
<1> QED BY <1>1, <1>2 DEF SafeAt

(* A new month forgets what was used, not who is about to use more.         *)
LEMMA SafeRenewed ==
  ASSUME NEW k \in Kinds, NEW H \in SUBSET Catalogue,
         NEW P \in SUBSET Callers, NEW n \in Int, SafeAt(n, P, k, H)
  PROVE  SafeAt(0, P, k, H)
<1>1. Cardinality(P) \in Nat /\ Cardinality(P) <= Others + 1 /\ Others \in Int
  BY PendingFinite
<1>2. \A p \in Catalogue : Cap(k, p) \in Nat
  BY EntitlementsAssumption DEF Cap
<1> QED BY <1>1, <1>2 DEF SafeAt

-----------------------------------------------------------------------------
(* A caller that passed the check saw room under a plan that was held.      *)
LEMMA HonestStep ==
  ASSUME Enforced, LimitsIInv, [LimitsNext]_limitVars
  PROVE  \A c \in Callers : Honest(c)'
<1> SUFFICES ASSUME NEW d \in Callers PROVE Honest(d)'
  OBVIOUS
<1>0. LimitsTypeOK /\ Honest(d) /\ held \subseteq held'
  BY TypeStep DEF LimitsIInv
<1>1. CASE call'[d] = call[d]
  BY <1>0, <1>1 DEF Honest
<1>2. CASE call'[d] = Idle
  BY <1>2 DEF Honest, Idle
<1>3. ASSUME NEW c \in Callers, NEW kind \in Kinds, NEW exempt \in BOOLEAN,
             Look(c, kind, exempt), held' = held
      PROVE  Honest(d)'
  <2>1. CASE c = d
    <3>1. call'[d] = [at     |-> IF exempt \/ barred THEN "add" ELSE "count",
                      kind   |-> kind,
                      limit  |-> IF kind = "meter" THEN Limit[plan] ELSE Seats[plan],
                      exempt |-> exempt]
      BY <1>0, <1>3, <2>1 DEF Look, LimitsTypeOK
    <3>2. plan \in held' /\ (exempt => kind = "meter")
      BY <1>0, <1>3 DEF LimitsTypeOK, Look
    <3> QED BY <3>1, <3>2 DEF Honest, Cap, Kinds
  <2>2. CASE c # d
    BY <1>0, <1>1, <1>3, <2>2 DEF Look, LimitsTypeOK
  <2> QED BY <2>1, <2>2
<1>4. ASSUME NEW c \in Callers, Count(c), held' = held
      PROVE  Honest(d)'
  <2>1. CASE c = d
    <3>1. \/ call'[d] = Idle
          \/ call'[d] = [call[d] EXCEPT !.at = "add"]
      BY <1>0, <1>4, <2>1 DEF Count, LimitsTypeOK
    <3>2. ASSUME call'[d] = [call[d] EXCEPT !.at = "add"] PROVE Honest(d)'
      <4>1. call[d] \in CallType
        BY <1>0 DEF LimitsTypeOK
      <4>2. call'[d].at = "add" /\ call'[d].exempt = call[d].exempt
              /\ call'[d].kind = call[d].kind
        BY <3>2, <4>1 DEF CallType
      <4> QED BY <4>2, <1>0 DEF Honest
    <3> QED BY <3>1, <3>2, <1>2
  <2>2. CASE c # d
    BY <1>0, <1>1, <1>4, <2>2 DEF Count, LimitsTypeOK
  <2> QED BY <2>1, <2>2
<1>5. ASSUME NEW c \in Callers, Increment(c) \/ Create(c) \/ GiveUp(c)
      PROVE  Honest(d)'
  BY <1>0, <1>1, <1>2, <1>5 DEF Increment, Create, GiveUp, LimitsTypeOK
<1>6. CASE call' = call
  BY <1>1, <1>6
<1> QED
  BY <1>3, <1>4, <1>5, <1>6 DEF LimitsNext, Use, Pause, Activate, NewMonth, limitVars, usage, Kinds

(* Every step keeps used and pending units below the limit and the others.  *)
LEMMA SafeStep ==
  ASSUME Enforced, LimitsIInv, [LimitsNext]_limitVars
  PROVE  \A k \in Kinds : Safe(k)'
<1> SUFFICES ASSUME NEW k \in Kinds PROVE Safe(k)'
  OBVIOUS
<1>0. LimitsTypeOK /\ LimitsTypeOK' /\ Safe(k) /\ held \subseteq held'
       /\ held \in SUBSET Catalogue /\ held' \in SUBSET Catalogue
  BY TypeStep DEF LimitsIInv, LimitsTypeOK
<1>1. Pending(k) \in SUBSET Callers /\ Pending(k)' \in SUBSET Callers
  BY DEF Pending
<1>2. Net(k) \in Int /\ Net(k)' \in Int
  BY <1>0 DEF Net, LimitsTypeOK
<1>3. ASSUME Pending(k)' \subseteq Pending(k), Net(k)' <= Net(k)
      PROVE  Safe(k)'
  BY <1>0, <1>1, <1>2, <1>3, SafeShrinks DEF Safe
<1>4. CASE UNCHANGED usage
  BY <1>2, <1>3, <1>4 DEF usage, Net, Pending
<1>5. ASSUME NEW c \in Callers, NEW kind \in Kinds, NEW exempt \in BOOLEAN,
             Look(c, kind, exempt)
      PROVE  Safe(k)'
  <2>1. call'[c] = [at     |-> IF exempt \/ barred THEN "add" ELSE "count",
                    kind   |-> kind,
                    limit  |-> IF kind = "meter" THEN Limit[plan] ELSE Seats[plan],
                    exempt |-> exempt]
    BY <1>0, <1>5 DEF Look, LimitsTypeOK
  <2>2. exempt \/ ~barred
    BY <1>5, EntitlementsAssumption DEF Look
  <2>3. c \notin Pending(k)'
    BY <2>1, <2>2 DEF Pending
  <2>4. \A d \in Callers : d # c => call'[d] = call[d]
    BY <1>0, <1>5 DEF Look, LimitsTypeOK
  <2>5. Net(k)' = Net(k)
    BY <1>5 DEF Look, Net
  <2> QED BY <1>2, <1>3, <2>3, <2>4, <2>5 DEF Pending
<1>6. ASSUME NEW c \in Callers, Count(c), held' = held
      PROVE  Safe(k)'
  <2>1. \A d \in Callers : d # c => call'[d] = call[d]
    BY <1>0, <1>6 DEF Count, LimitsTypeOK
  <2>2. Net(k)' = Net(k) /\ call[c].at = "count" /\ call[c] \in CallType
    BY <1>0, <1>6 DEF Count, Net, LimitsTypeOK
  <2>3. CASE call[c].kind = k /\ Taken(k) + 1 <= call[c].limit
    <3>1. PICK p \in held : call[c].limit = Cap(k, p)
      BY <2>2, <2>3 DEF LimitsIInv, Honest
    <3>2. Net(k) + 1 <= Cap(k, p) /\ 1 <= Cap(k, p)
      BY <1>0, <2>3, <3>1, EntitlementsAssumption DEF Net, Taken, LimitsTypeOK, Kinds, Cap
    <3>3. SafeAt(Net(k), Pending(k)', k, held)
      BY <1>0, <1>1, <1>2, <3>2, SafePassed
    <3> QED BY <1>6, <2>2, <3>3 DEF Safe
  <2>4. CASE call[c].kind # k
    <3>1. c \notin Pending(k)'
      <4>1. call'[c] = [call[c] EXCEPT !.at = "add"] \/ call'[c] = Idle
        BY <1>0, <1>6 DEF Count, LimitsTypeOK
      <4>2. call'[c] = Idle => call'[c].at # "add"
        BY DEF Idle
      <4>3. call'[c] = [call[c] EXCEPT !.at = "add"] => call'[c].kind # k
        BY <2>2, <2>4 DEF CallType
      <4> QED BY <4>1, <4>2, <4>3 DEF Pending
    <3> QED BY <1>2, <1>3, <2>1, <2>2, <3>1 DEF Pending
  <2>5. CASE call[c].kind = k /\ ~(Taken(k) + 1 <= call[c].limit)
    <3>1. call'[c] = Idle
      BY <1>0, <1>6, <2>5 DEF Count, LimitsTypeOK
    <3>2. c \notin Pending(k)'
      BY <3>1 DEF Pending, Idle
    <3> QED BY <1>2, <1>3, <2>1, <2>2, <3>2 DEF Pending
  <2> QED BY <2>3, <2>4, <2>5
<1>7. ASSUME NEW c \in Callers, call' = [call EXCEPT ![c] = Idle]
      PROVE  Pending(k)' = Pending(k) \ {c}
  BY <1>0, <1>7 DEF Pending, Idle, LimitsTypeOK
<1>8. ASSUME NEW c \in Callers, Increment(c) \/ Create(c), held' = held
      PROVE  Safe(k)'
  <2>0. Pending(k)' = Pending(k) \ {c}
    BY <1>7, <1>8 DEF Increment, Create
  <2>1. CASE Net(k)' <= Net(k)
    BY <1>3, <2>0, <2>1
  <2>2. CASE ~(Net(k)' <= Net(k))
    <3>1. Net(k)' = Net(k) + 1 /\ c \in Pending(k)
      <4>1. CASE Increment(c)
        <5>1. k = "meter" /\ ~call[c].exempt
          BY <1>0, <2>2, <4>1 DEF Increment, Net, LimitsTypeOK
        <5> QED BY <1>0, <4>1, <5>1 DEF Increment, Net, Pending, LimitsTypeOK
      <4>2. CASE Create(c)
        <5>1. k = "seat" /\ seats' = seats + 1
          <6>1. used' = used /\ exempted' = exempted /\ regained' = regained
            BY <4>2 DEF Create
          <6>2. k = "seat"
            BY <1>2, <2>2, <6>1 DEF Net, Kinds
          <6>3. seats' = seats \/ seats' = seats + 1
            BY <4>2 DEF Create
          <6> QED BY <1>2, <2>2, <6>1, <6>2, <6>3 DEF Net
        <5>2. ~call[c].exempt
          BY <4>2, <1>0 DEF LimitsIInv, Honest, Create, LimitsTypeOK, CallType
        <5> QED BY <1>0, <4>2, <5>1, <5>2 DEF Create, Net, Pending, LimitsTypeOK
      <4> QED BY <1>8, <4>1, <4>2
    <3>2. SafeAt(Net(k) + 1, Pending(k) \ {c}, k, held)
      BY <1>0, <1>1, <1>2, <3>1, SafeTaken DEF Safe
    <3> QED BY <1>8, <2>0, <3>1, <3>2 DEF Safe
  <2> QED BY <2>1, <2>2
<1>9. ASSUME NEW c \in Callers, GiveUp(c)
      PROVE  Safe(k)'
  <2>1. Pending(k)' = Pending(k) \ {c}
    BY <1>7, <1>9 DEF GiveUp
  <2>2. Net(k)' = Net(k)
    BY <1>9 DEF GiveUp, Net
  <2> QED BY <1>2, <1>3, <2>1, <2>2
<1>10. CASE Pause \/ Activate
  <2>1. Net(k)' <= Net(k)
    <3>1. CASE k = "meter"
      BY <1>2, <1>10, <3>1 DEF Pause, Activate, Net
    <3>2. ASSUME k # "meter", Pause PROVE Net(k)' <= Net(k)
      BY <1>0, <3>2 DEF Pause, Net, LimitsTypeOK
    <3>3. ASSUME k # "meter", Activate PROVE Net(k)' <= Net(k)
      BY <1>0, <3>3 DEF Activate, Net, LimitsTypeOK
    <3> QED BY <1>10, <3>1, <3>2, <3>3
  <2> QED BY <1>3, <1>10, <2>1 DEF Pause, Activate, Pending
<1>11. ASSUME NewMonth, held' = held
       PROVE  Safe(k)'
  <2>1. Pending(k)' = Pending(k)
    BY <1>11 DEF NewMonth, Pending
  <2>2. CASE k = "meter"
    <3>1. Net(k)' = 0
      BY <1>11, <2>2 DEF NewMonth, Net
    <3> QED BY <1>0, <1>1, <1>2, <1>11, <2>1, <3>1, SafeRenewed DEF Safe
  <2>3. CASE k # "meter"
    <3>1. Net(k)' = Net(k)
      BY <1>11, <2>3 DEF NewMonth, Net
    <3> QED BY <1>2, <1>3, <2>1, <3>1
  <2> QED BY <2>2, <2>3
<1> QED
  BY <1>4, <1>5, <1>6, <1>8, <1>9, <1>10, <1>11 DEF LimitsNext, Use, limitVars, usage, Kinds

(* The invariant holds at first.                                            *)
LEMMA InitLimitsIInv == LimitsInit => LimitsIInv
<1> SUFFICES ASSUME LimitsInit PROVE LimitsIInv
  OBVIOUS
<1> USE EntitlementsAssumption DEF LimitsInit, UsageInit
<1>1. LimitsTypeOK
  BY DEF LimitsTypeOK, Idle, CallType
<1>2. \A c \in Callers : Honest(c)
  BY DEF Honest, Idle
<1>3. \A k \in Kinds : Net(k) <= 0 /\ Pending(k) = {}
  BY DEF Net, Pending, Idle
<1> QED BY <1>1, <1>2, <1>3 DEF LimitsIInv, Safe, SafeAt

(* Every step keeps the invariant where the limits are enforced.            *)
LEMMA StepLimitsIInv == ASSUME Enforced PROVE LimitsIInv /\ [LimitsNext]_limitVars => LimitsIInv'
<1> SUFFICES ASSUME LimitsIInv, [LimitsNext]_limitVars PROVE LimitsIInv'
  OBVIOUS
<1>1. LimitsTypeOK'
  BY TypeStep DEF LimitsIInv
<1>2. \A c \in Callers : Honest(c)'
  BY HonestStep
<1>3. \A k \in Kinds : Safe(k)'
  BY SafeStep
<1> QED BY <1>1, <1>2, <1>3 DEF LimitsIInv, Kinds

(* The invariant bounds the overshoot by the other callers.                 *)
LEMMA SafeBounds == ASSUME LimitsIInv PROVE UsageOvershootBounded /\ SeatOvershootBounded
<1>1. ASSUME NEW k \in Kinds
      PROVE  Net(k) <= 0 \/ \E p \in held : Net(k) <= Cap(k, p) + Others
  <2>1. Safe(k) /\ Net(k) \in Int /\ held \subseteq Catalogue
    BY DEF LimitsIInv, LimitsTypeOK, Net
  <2>2. Cardinality(Pending(k)) \in Nat /\ Others \in Int
    BY PendingFinite DEF Pending
  <2>3. \A p \in Catalogue : Cap(k, p) \in Nat
    BY EntitlementsAssumption DEF Cap
  <2> QED BY <2>1, <2>2, <2>3 DEF Safe, SafeAt
<1>2. Others \in Int /\ LimitsTypeOK /\ \A p \in held : Limit[p] \in Nat /\ Seats[p] \in Nat
  BY PendingFinite, EntitlementsAssumption DEF LimitsIInv, LimitsTypeOK
<1>3. UsageOvershootBounded
  <2>1. used - exempted <= 0 \/ \E p \in held : used - exempted <= Limit[p] + Others
    BY <1>1 DEF Kinds, Net, Cap
  <2> QED BY <1>2, <2>1 DEF UsageOvershootBounded, LimitsTypeOK
<1>4. SeatOvershootBounded
  <2>1. seats - regained <= 0 \/ \E p \in held : seats - regained <= Seats[p] + Others
    BY <1>1 DEF Kinds, Net, Cap
  <2> QED BY <1>2, <2>1 DEF SeatOvershootBounded, LimitsTypeOK
<1> QED BY <1>3, <1>4

-----------------------------------------------------------------------------
(* The counters and the callers' records keep their types.                  *)
THEOREM LimitsTypeCorrect == LimitsSpec => []LimitsTypeOK
<1>1. LimitsInit => LimitsTypeOK
  BY InitLimitsIInv DEF LimitsIInv
<1>2. LimitsTypeOK /\ [LimitsNext]_limitVars => LimitsTypeOK'
  BY TypeStep
<1> QED BY <1>1, <1>2, PTL DEF LimitsSpec

(* Nothing is promised where nothing is enforced.                           *)
EInv == Enforced => LimitsIInv

(* The same under the condition that the limits are enforced.               *)
LEMMA EInvariant == (LimitsInit => EInv) /\ (EInv /\ [LimitsNext]_limitVars => EInv')
BY InitLimitsIInv, StepLimitsIInv DEF EInv

(* Where the limits are enforced, the month's usage passes the limit of a   *)
(* plan that was held by the other callers' units and the exempt ones, at   *)
(* most: consume's check and its increment are not one step.                *)
THEOREM UsageBounded == LimitsSpec => []UsageOvershootBounded
<1>1. EInv => UsageOvershootBounded
  BY SafeBounds DEF EInv, UsageOvershootBounded
<1> QED BY <1>1, EInvariant, PTL DEF LimitsSpec

(* The same of the seats, with what was made ACTIVE again unchecked.        *)
THEOREM SeatsBounded == LimitsSpec => []SeatOvershootBounded
<1>1. EInv => SeatOvershootBounded
  BY SafeBounds DEF EInv, SeatOvershootBounded
<1> QED BY <1>1, EInvariant, PTL DEF LimitsSpec

-----------------------------------------------------------------------------
(*                              Subscription                                *)

(* A use leaves Billing alone, and its row is always shown as it is.        *)
LEMMA ServiceStep ==
  ASSUME Shown, [ServiceNext]_serviceVars
  PROVE  [Next]_vars /\ Shown'
<1>1. CASE BillingStep
  BY <1>1 DEF BillingStep, Shown
<1>2. CASE UseStep
  BY <1>2 DEF UseStep, Shown, vars, mirror
<1>3. CASE UNCHANGED serviceVars
  BY <1>3 DEF serviceVars, limitVars, vars, mirror, Shown
<1> QED BY <1>1, <1>2, <1>3 DEF ServiceNext

(* Billing changes plan and status, and nothing that is used.               *)
LEMMA ServiceLimits ==
  ASSUME Plans \subseteq Catalogue, TypeOK', [ServiceNext]_serviceVars
  PROVE  [LimitsNext]_limitVars
<1>1. CASE BillingStep
  <2>1. plan' \in Catalogue /\ barred' \in BOOLEAN
    BY <1>1 DEF BillingStep, TypeOK
  <2> QED BY <1>1, <2>1 DEF BillingStep, Change, LimitsNext
<1>2. CASE UseStep
  BY <1>2 DEF UseStep, LimitsNext
<1>3. CASE UNCHANGED serviceVars
  BY <1>3 DEF serviceVars
<1> QED BY <1>1, <1>2, <1>3 DEF ServiceNext

(* At first the row has the free plan, as Entitlements sees it.             *)
LEMMA ServiceStart ==
  ASSUME Plans \subseteq Catalogue, ServiceInit
  PROVE  Init /\ Shown /\ LimitsInit
<1>1. row.plan = Free /\ Free \in Plans
  BY Fixed DEF ServiceInit, Init
<1> QED BY <1>1 DEF ServiceInit, Shown, LimitsInit

(* The two together are Billing, and checks see its row: nothing of what    *)
(* changePlan and the webhooks do is missing from what Entitlements assumes *)
(* of its environment, for any plans and any numbers of callers, handlers,  *)
(* requests and events.                                                     *)
THEOREM ServiceImplements ==
  ASSUME Plans \subseteq Catalogue
  PROVE  ServiceSpec => Spec /\ []Shown /\ LimitsSpec
<1>1. ServiceInit => Init /\ Shown /\ LimitsInit
  BY ServiceStart
<1>2. IInv => TypeOK
  BY DEF IInv
<1>3. Shown /\ [ServiceNext]_serviceVars => [Next]_vars /\ Shown'
  BY ServiceStep
<1>4. TypeOK' /\ [ServiceNext]_serviceVars => [LimitsNext]_limitVars
  BY ServiceLimits
<1> QED BY <1>1, <1>2, <1>3, <1>4, InitIInv, StepIInv, PTL DEF ServiceSpec, Spec, LimitsSpec

(* So the month's usage stays within its bound when it is Billing that      *)
(* changes the plans, in any order of webhooks, requests and failures.      *)
THEOREM ServiceUsageBounded ==
  ASSUME Plans \subseteq Catalogue
  PROVE  ServiceSpec => []UsageOvershootBounded
BY ServiceImplements, UsageBounded, PTL

(* And so do the seats.                                                     *)
THEOREM ServiceSeatsBounded ==
  ASSUME Plans \subseteq Catalogue
  PROVE  ServiceSpec => []SeatOvershootBounded
BY ServiceImplements, SeatsBounded, PTL
=============================================================================
