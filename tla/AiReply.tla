------------------------------ MODULE AiReply ------------------------------
(***************************************************************************)
(* The replies of AiReplyService in one conversation: the draft and the     *)
(* outbox row of each inbound message.  The handler of a new message, the   *)
(* flush of the cron, the kill switch and the clicks of users (send,        *)
(* dismiss, regenerate, reclassify) work on them side by side, a statement  *)
(* of the database at a time; deliverOutbox calls the provider itself.      *)
(*                                                                         *)
(* What the text of a message or a draft says is left out: a handler may    *)
(* find any class, and hold a draft or not.  Statements that no step here   *)
(* reads (timeline, opportunity, notifications) are left out too.           *)
(***************************************************************************)
EXTENDS Naturals, FiniteSets

CONSTANTS
  Workers,      \* calls of the service at the same time
  Last,         \* bound: inbound messages of the conversation
  MaxReplies,   \* maxRepliesPerConversation
  MaxAttempts,  \* MAX_SEND_ATTEMPTS
  MaxClicks,    \* bound: what users do (sends, revisions, settings)
  MaxMishaps    \* bound: refusals of the provider, exceptions, crashes

ASSUME AiReplyAssumption ==
  /\ Workers # {}
  /\ Last \in Nat \ {0} /\ MaxReplies \in Nat \ {0}
  /\ MaxAttempts \in Nat \ {0} /\ MaxClicks \in Nat /\ MaxMishaps \in Nat

Inbound == 1 .. Last   \* in the order of their arrival

VARIABLES
  arrived,     \* how many messages have come in
  draft,       \* AiReplyDraft of each message
  row,         \* its EmailOutbox row (unique by idempotency key)
  replies,     \* aiReplyCount of the conversation
  kill,        \* the kill switch
  auto,        \* mode AUTO_SEND, neither shadow mode on
  suppressed,  \* the address is on the suppression list
  work,        \* the state of every worker
  mailed,      \* how often the provider accepted the reply (2: or more)
  clicks, mishaps,   \* what the bounds count
  lost,        \* history: replies whose record failed after the provider's yes
  overtaken,   \* history: replies queued again over a row being sent, or sent
  crowded      \* history: two deliveries passed the count of replies together

config == <<kill, auto, suppressed>>
hist   == <<lost, overtaken, crowded>>
bounds == <<clicks, mishaps>>
vars   == <<arrived, draft, row, replies, config, work, mailed, bounds, hist>>

DraftStatuses == {"DRAFT", "HELD", "QUEUED", "SENT", "DISMISSED", "CANCELLED"}
RowStatuses   == {"QUEUED", "HELD", "SENDING", "SENT", "FAILED", "CANCELLED"}
Ops   == {"none", "inbound", "unsub", "send", "flush", "kill", "revise"}
Spots == {"idle", "suppress", "dropRows", "stale", "staleRows", "staleDrafts",
          "ai", "persist", "upsert", "queue", "queueRow", "queued", "list", "cancelRows",
          "cancelDrafts", "next", "claim", "load", "guard", "check", "send", "sentRow",
          "sentDraft", "sentCount", "caught", "cancelOwn", "putRow", "putDraft"}

\* m: the message; todo: listed messages; fresh: no row was found for the message;
\* tries: attemptCount as read; toRow, toDraft: what is to be written;
\* late: what forbade the delivery when it was claimed.
Jobs == [op : Ops, at : Spots, m : 0 .. Last, todo : SUBSET Inbound,
         fresh : BOOLEAN, eligible : BOOLEAN, tries : Nat,
         toRow : RowStatuses \cup {"NONE"}, toDraft : DraftStatuses \cup {"NONE"},
         late : SUBSET {"kill", "newer", "suppressed"}]

TypeOK ==
  /\ arrived \in 0 .. Last
  /\ draft \in [Inbound -> DraftStatuses \cup {"NONE"}]
  /\ row \in [Inbound -> [status : RowStatuses \cup {"NONE"}, tries : Nat, due : BOOLEAN]]
  /\ replies \in 0 .. MaxReplies + 1
  /\ kill \in BOOLEAN /\ auto \in BOOLEAN /\ suppressed \in BOOLEAN
  /\ work \in [Workers -> Jobs]
  /\ mailed \in [Inbound -> 0 .. 2]
  /\ clicks \in 0 .. MaxClicks /\ mishaps \in 0 .. MaxMishaps
  /\ lost \subseteq Inbound /\ overtaken \subseteq Inbound /\ crowded \in BOOLEAN

NoJob == [op |-> "none", at |-> "idle", m |-> 0, todo |-> {}, fresh |-> FALSE,
          eligible |-> FALSE, tries |-> 0, toRow |-> "NONE", toDraft |-> "NONE",
          late |-> {}]

Init ==
  /\ arrived = 0
  /\ draft = [m \in Inbound |-> "NONE"]
  /\ row = [m \in Inbound |-> [status |-> "NONE", tries |-> 0, due |-> FALSE]]
  /\ replies = 0
  /\ kill \in BOOLEAN /\ auto \in BOOLEAN /\ suppressed = FALSE
  /\ work = [w \in Workers |-> NoJob]
  /\ mailed = [m \in Inbound |-> 0]
  /\ clicks = 0 /\ mishaps = 0
  /\ lost = {} /\ overtaken = {} /\ crowded = FALSE

-----------------------------------------------------------------------------
At(w, at)    == work[w].at = at
Msg(w)       == work[w].m
Manual(w)    == work[w].op = "send"
Set(w, j)    == work' = [work EXCEPT ![w] = j]
Goto(w, at)  == Set(w, [work[w] EXCEPT !.at = at])
Click        == clicks < MaxClicks /\ clicks' = clicks + 1 /\ UNCHANGED mishaps
Mishap       == mishaps < MaxMishaps /\ mishaps' = mishaps + 1 /\ UNCHANGED clicks
InRow(m, ss) == row[m].status \in ss

Begin(w, op, m, at) ==
  At(w, "idle") /\ Set(w, [NoJob EXCEPT !.op = op, !.m = m, !.at = at])

\* The call returns; a flush goes on with the next row.
Done(w) ==
  Set(w, IF work[w].op = "flush"
         THEN [NoJob EXCEPT !.op = "flush", !.at = "next", !.todo = work[w].todo]
         ELSE NoJob)

\* cancel and hold of deliverOutbox: first the row, then the draft.
Put(w, r, d) == Set(w, [work[w] EXCEPT !.at = "putRow", !.toRow = r, !.toDraft = d,
                                          !.tries = 0, !.late = {}])

\* updateMany: of the rows of a set those in some states become CANCELLED.
Cancel(ms, ss) ==
  row' = [m \in Inbound |-> IF m \in ms /\ InRow(m, ss)
                            THEN [row[m] EXCEPT !.status = "CANCELLED"] ELSE row[m]]

PutRow(w) ==
  /\ At(w, "putRow")
  /\ row' = [row EXCEPT ![Msg(w)].status = work[w].toRow]
  /\ IF work[w].toDraft = "NONE" THEN Done(w) ELSE Goto(w, "putDraft")
  /\ UNCHANGED <<arrived, draft, replies, config, mailed, bounds, hist>>

PutDraft(w) ==
  /\ At(w, "putDraft")
  /\ draft' = [draft EXCEPT ![Msg(w)] = work[w].toDraft]
  /\ Done(w)
  /\ UNCHANGED <<arrived, row, replies, config, mailed, bounds, hist>>

-----------------------------------------------------------------------------
(* handleInbound *)

\* ingestInbound writes the message and calls the handler, which reads the settings;
\* runDeterministicPrecheck finds an absence, an unsubscription or a reply.
Arrive(w) ==
  /\ arrived < Last
  /\ arrived' = arrived + 1
  /\ At(w, "idle")
  /\ \/ UNCHANGED work
     \/ Set(w, [NoJob EXCEPT !.op = "unsub", !.m = arrived + 1, !.at = "suppress"])
     \/ Set(w, [NoJob EXCEPT !.op = "inbound", !.m = arrived + 1, !.at = "stale",
                             !.eligible = auto /\ ~kill])
  /\ UNCHANGED <<draft, row, replies, config, mailed, bounds, hist>>

\* applyUnsubscribe.
Suppress(w) ==
  /\ At(w, "suppress")
  /\ suppressed' = TRUE
  /\ Goto(w, "dropRows")
  /\ UNCHANGED <<arrived, draft, row, replies, kill, auto, mailed, bounds, hist>>

DropRows(w) ==
  /\ At(w, "dropRows")
  /\ Cancel(Inbound, {"QUEUED", "HELD"})
  /\ Goto(w, "stale")
  /\ UNCHANGED <<arrived, draft, replies, config, mailed, bounds, hist>>

\* cancelPendingForConversation: lists the drafts, cancels rows, then those drafts.
Stale(w) ==
  /\ At(w, "stale")
  /\ Set(w, [work[w] EXCEPT !.at = "staleRows",
               !.todo = {m \in Inbound \ {Msg(w)} : draft[m] \in {"QUEUED", "DRAFT"}}])
  /\ UNCHANGED <<arrived, draft, row, replies, config, mailed, bounds, hist>>

StaleRows(w) ==
  /\ At(w, "staleRows")
  /\ Cancel(Inbound \ {Msg(w)}, {"QUEUED"})
  /\ Goto(w, "staleDrafts")
  /\ UNCHANGED <<arrived, draft, replies, config, mailed, bounds, hist>>

StaleDrafts(w) ==
  /\ At(w, "staleDrafts")
  /\ draft' = [m \in Inbound |-> IF m \in work[w].todo THEN "CANCELLED" ELSE draft[m]]
  /\ CASE work[w].op = "inbound" -> Set(w, [work[w] EXCEPT !.at = "ai", !.todo = {}])
       [] work[w].toDraft # "NONE" -> Set(w, [work[w] EXCEPT !.at = "putDraft", !.todo = {}])
       [] OTHER -> Done(w)
  /\ UNCHANGED <<arrived, row, replies, config, mailed, bounds, hist>>

\* The model is asked: an absence, an unsubscription, nothing to answer, or a text
\* that is held or not; at the limit of replies it is held.
Classify(w) ==
  /\ At(w, "ai")
  /\ \/ Done(w)
     \/ \E at \in {"suppress", "stale"} :
          Set(w, [work[w] EXCEPT !.op = "unsub", !.at = at, !.eligible = FALSE])
     \/ \E d \in {"HELD", "DRAFT"} :
          /\ d = "DRAFT" => replies < MaxReplies
          /\ Set(w, [work[w] EXCEPT !.at = "persist", !.toDraft = d])
  /\ UNCHANGED <<arrived, draft, row, replies, config, mailed, bounds, hist>>

\* persistDraft: a newer message makes the draft stale; a text that is not held is
\* to be queued where the settings, as read at the start, and its class allow it.
Persist(w) ==
  /\ At(w, "persist")
  /\ IF arrived > Msg(w)
     THEN Set(w, [work[w] EXCEPT !.at = "upsert", !.toDraft = "CANCELLED", !.eligible = FALSE])
     ELSE \E e \in {work[w].eligible, FALSE} :
            Set(w, [work[w] EXCEPT !.at = "upsert",
                                   !.eligible = e /\ work[w].toDraft = "DRAFT"])
  /\ UNCHANGED <<arrived, draft, row, replies, config, mailed, bounds, hist>>

Upsert(w) ==
  /\ At(w, "upsert")
  /\ draft' = [draft EXCEPT ![Msg(w)] = work[w].toDraft]
  /\ IF work[w].eligible
     THEN Set(w, [NoJob EXCEPT !.op = "inbound", !.m = Msg(w), !.at = "queue"])
     ELSE Done(w)
  /\ UNCHANGED <<arrived, row, replies, config, mailed, bounds, hist>>

-----------------------------------------------------------------------------
(* queueOutbox, of a handler or of a user who sends *)

\* Refused for a suppressed address, a mailbox that is not active, a row that is sent
\* or being sent.
Queue(w) ==
  /\ At(w, "queue")
  /\ \/ /\ ~suppressed /\ ~InRow(Msg(w), {"SENT", "SENDING"})
        /\ Set(w, [work[w] EXCEPT !.at = "queueRow", !.fresh = InRow(Msg(w), {"NONE"})])
     \/ IF Manual(w) THEN Done(w)
        ELSE Set(w, [work[w] EXCEPT !.at = "putDraft", !.toDraft = "HELD"])
  /\ UNCHANGED <<arrived, draft, row, replies, config, mailed, bounds, hist>>

\* The row is created, which fails if there is one by now, or updated whatever it
\* has become since it was read.
QueueRow(w) ==
  /\ At(w, "queueRow")
  /\ IF work[w].fresh /\ ~InRow(Msg(w), {"NONE"})
     THEN /\ Done(w)
          /\ UNCHANGED <<row, overtaken>>
     ELSE /\ row' = [row EXCEPT ![Msg(w)] =
                       [status |-> "QUEUED", tries |-> 0, due |-> Manual(w)]]
          /\ Set(w, [work[w] EXCEPT !.at = "queued", !.fresh = FALSE])
          /\ overtaken' = IF InRow(Msg(w), {"SENDING", "SENT"})
                          THEN overtaken \cup {Msg(w)} ELSE overtaken
  /\ UNCHANGED <<arrived, draft, replies, config, mailed, bounds, lost, crowded>>

\* The draft is QUEUED; a user's reply is delivered at once.
Queued(w) ==
  /\ At(w, "queued")
  /\ draft' = [draft EXCEPT ![Msg(w)] = "QUEUED"]
  /\ IF Manual(w) THEN Goto(w, "claim") ELSE Done(w)
  /\ UNCHANGED <<arrived, row, replies, config, mailed, bounds, hist>>

-----------------------------------------------------------------------------
(* The users and the kill switch *)

\* sendDraft.
StartSend(w, m) ==
  /\ Click
  /\ draft[m] \notin {"NONE", "SENT", "DISMISSED"}
  /\ Begin(w, "send", m, "queue")
  /\ UNCHANGED <<arrived, draft, row, replies, config, mailed, hist>>

\* dismiss, regenerate (for the latest message only) and reclassify, which may end
\* in a new draft, a dismissal, or an unsubscription.
StartRevise(w, m) ==
  /\ Click
  /\ draft[m] \notin {"NONE", "SENT"}
  /\ Begin(w, "revise", m, "cancelOwn")
  /\ UNCHANGED <<arrived, draft, row, replies, config, mailed, hist>>

\* cancelDraftOutbox; a draft that is not for the latest message is not written anew.
CancelOwn(w) ==
  /\ At(w, "cancelOwn")
  /\ Cancel({Msg(w)}, {"QUEUED", "HELD"})
  /\ \/ Set(w, [work[w] EXCEPT !.at = "putDraft", !.toDraft = "DISMISSED"])
     \/ Set(w, [work[w] EXCEPT !.op = "unsub", !.at = "suppress", !.toDraft = "DISMISSED"])
     \/ \E d \in {"DRAFT", "HELD"} :
          arrived = Msg(w) /\ Set(w, [work[w] EXCEPT !.at = "putDraft", !.toDraft = d])
     \/ arrived > Msg(w) /\ Set(w, NoJob)
  /\ UNCHANGED <<arrived, draft, replies, config, mailed, bounds, hist>>

\* killSwitch(true), and then cancelAllQueued.
StartKill(w) ==
  /\ Click
  /\ kill' = TRUE
  /\ At(w, "idle")
  /\ Set(w, [NoJob EXCEPT !.op = "kill", !.at = "list", !.toDraft = "CANCELLED"])
  /\ UNCHANGED <<arrived, draft, row, replies, auto, suppressed, mailed, hist>>

KillOff ==
  /\ Click
  /\ kill /\ kill' = FALSE
  /\ work' = [w \in Workers |-> [work[w] EXCEPT !.late = @ \ {"kill"}]]
  /\ UNCHANGED <<arrived, draft, row, replies, auto, suppressed, mailed, hist>>

\* The mode or a shadow mode is changed in the settings.
SetAuto ==
  /\ Click
  /\ auto' = ~auto
  /\ UNCHANGED <<arrived, draft, row, replies, kill, suppressed, work, mailed, hist>>

\* cancelAllQueued: lists the rows, cancels those still queued, then their drafts.
ListQueued(w) ==
  /\ At(w, "list")
  /\ LET ms == {m \in Inbound : InRow(m, {"QUEUED"})}
     IN  Set(w, IF ms = {} THEN NoJob ELSE [work[w] EXCEPT !.at = "cancelRows", !.todo = ms])
  /\ UNCHANGED <<arrived, draft, row, replies, config, mailed, bounds, hist>>

CancelRows(w) ==
  /\ At(w, "cancelRows")
  /\ Cancel(work[w].todo, {"QUEUED"})
  /\ Goto(w, "cancelDrafts")
  /\ UNCHANGED <<arrived, draft, replies, config, mailed, bounds, hist>>

CancelDrafts(w) ==
  /\ At(w, "cancelDrafts")
  /\ draft' = [m \in Inbound |-> IF m \in work[w].todo /\ draft[m] = "QUEUED"
                                 THEN work[w].toDraft ELSE draft[m]]
  /\ Set(w, NoJob)
  /\ UNCHANGED <<arrived, row, replies, config, mailed, bounds, hist>>

-----------------------------------------------------------------------------
(* flushDueReplies and deliverOutbox *)

\* The settings decide: cancel everything, or list the rows that are due.
StartFlush(w) ==
  /\ At(w, "idle")
  /\ Set(w, IF kill THEN [NoJob EXCEPT !.op = "flush", !.at = "list", !.toDraft = "CANCELLED"]
            ELSE IF ~auto THEN [NoJob EXCEPT !.op = "flush", !.at = "list", !.toDraft = "DRAFT"]
            ELSE [NoJob EXCEPT !.op = "flush", !.at = "next",
                    !.todo = {m \in Inbound : InRow(m, {"QUEUED"}) /\ row[m].due}])
  /\ UNCHANGED <<arrived, draft, row, replies, config, mailed, bounds, hist>>

NextRow(w) ==
  /\ At(w, "next")
  /\ IF work[w].todo = {} THEN Set(w, NoJob)
     ELSE \E m \in work[w].todo :
            Set(w, [work[w] EXCEPT !.at = "claim", !.m = m, !.todo = @ \ {m}])
  /\ UNCHANGED <<arrived, draft, row, replies, config, mailed, bounds, hist>>

\* What forbids a delivery: a user overrides the kill switch and newer messages.
Forbidden(w) ==
  {r \in {"kill", "newer", "suppressed"} :
     \/ r = "kill" /\ kill /\ ~Manual(w)
     \/ r = "newer" /\ arrived > Msg(w) /\ ~Manual(w)
     \/ r = "suppressed" /\ suppressed}

\* Mutant: the claim does not look at the status.
ClaimAny(w) ==
  /\ At(w, "claim")
  /\ row' = [row EXCEPT ![Msg(w)] = [row[Msg(w)] EXCEPT !.status = "SENDING", !.tries = @ + 1]]
  /\ Set(w, [work[w] EXCEPT !.at = "load", !.late = Forbidden(w)])
  /\ UNCHANGED <<arrived, draft, replies, config, mailed, bounds, hist>>

Claim(w) ==
  /\ At(w, "claim")
  /\ IF InRow(Msg(w), {"QUEUED"})
     THEN /\ row' = [row EXCEPT ![Msg(w)] = [row[Msg(w)] EXCEPT !.status = "SENDING", !.tries = @ + 1]]
          /\ Set(w, [work[w] EXCEPT !.at = "load", !.late = Forbidden(w)])
     ELSE UNCHANGED row /\ Done(w)
  /\ UNCHANGED <<arrived, draft, replies, config, mailed, bounds, hist>>

\* The draft must still be QUEUED.
Load(w) ==
  /\ At(w, "load")
  /\ IF draft[Msg(w)] # "QUEUED" THEN Put(w, "CANCELLED", "NONE")
     ELSE Set(w, [work[w] EXCEPT !.at = IF Manual(w) THEN "check" ELSE "guard",
                                 !.tries = row[Msg(w)].tries])
  /\ UNCHANGED <<arrived, draft, row, replies, config, mailed, bounds, hist>>

\* Between the count of the replies and the update of the count.
Counting(w) ==
  work[w].op = "flush"
  /\ work[w].at \in {"check", "send", "sentRow", "sentDraft", "sentCount"}

\* Mutant: the limit of replies is not looked at again.
GuardNoCount(w) ==
  /\ At(w, "guard")
  /\ IF kill THEN Put(w, "CANCELLED", "CANCELLED")
     ELSE IF ~auto THEN Put(w, "CANCELLED", "DRAFT")
     ELSE Goto(w, "check")
  /\ crowded' = (crowded \/ \E x \in Workers : Counting(x))
  /\ UNCHANGED <<arrived, draft, row, replies, config, mailed, bounds, lost, overtaken>>

\* Mutant: in shadow mode a reply passes for sent.
GuardFakes(w) ==
  /\ At(w, "guard")
  /\ IF kill THEN Put(w, "CANCELLED", "CANCELLED")
     ELSE IF ~auto THEN Put(w, "SENT", "SENT")
     ELSE IF replies >= MaxReplies THEN Put(w, "HELD", "HELD")
     ELSE Goto(w, "check")
  /\ crowded' = (crowded \/ \E x \in Workers : Counting(x))
  /\ UNCHANGED <<arrived, draft, row, replies, config, mailed, bounds, lost, overtaken>>

\* Not for a user: the settings and the limit of replies, again.
Guard(w) ==
  /\ At(w, "guard")
  /\ IF kill THEN Put(w, "CANCELLED", "CANCELLED")
     ELSE IF ~auto THEN Put(w, "CANCELLED", "DRAFT")
     ELSE IF replies >= MaxReplies THEN Put(w, "HELD", "HELD")
     ELSE Goto(w, "check")
  /\ crowded' = (crowded \/ \E x \in Workers : Counting(x))
  /\ UNCHANGED <<arrived, draft, row, replies, config, mailed, bounds, lost, overtaken>>

\* Mutant: a reply is sent although a newer message came in.
CheckNotNewer(w) ==
  /\ At(w, "check")
  /\ IF suppressed THEN Put(w, "CANCELLED", "CANCELLED")
     ELSE Put(w, "HELD", "HELD") \/ Goto(w, "send")
  /\ UNCHANGED <<arrived, draft, row, replies, config, mailed, bounds, hist>>

\* A newer message (not for a user), the suppression list; the mailbox and the
\* entitlement may hold the reply.
Check(w) ==
  /\ At(w, "check")
  /\ IF suppressed \/ (arrived > Msg(w) /\ ~Manual(w)) THEN Put(w, "CANCELLED", "CANCELLED")
     ELSE Put(w, "HELD", "HELD") \/ Goto(w, "send")
  /\ UNCHANGED <<arrived, draft, row, replies, config, mailed, bounds, hist>>

\* The provider accepts.
Recording(w) == work[w].at \in {"sentRow", "sentDraft", "sentCount"}
Send(w) ==
  /\ At(w, "send")
  /\ mailed' = [mailed EXCEPT ![Msg(w)] = IF @ = 2 THEN 2 ELSE @ + 1]
  /\ Set(w, [work[w] EXCEPT !.at = "sentRow", !.late = {}])
  /\ UNCHANGED <<arrived, draft, row, replies, config, bounds, hist>>

\* The Message is written (or found by its key), then the row.
SentRow(w) ==
  /\ At(w, "sentRow")
  /\ row' = [row EXCEPT ![Msg(w)].status = "SENT"]
  /\ Goto(w, "sentDraft")
  /\ UNCHANGED <<arrived, draft, replies, config, mailed, bounds, hist>>

SentDraft(w) ==
  /\ At(w, "sentDraft")
  /\ draft' = [draft EXCEPT ![Msg(w)] = "SENT"]
  /\ Goto(w, "sentCount")
  /\ UNCHANGED <<arrived, row, replies, config, mailed, bounds, hist>>

\* A user's reply does not count (the count is capped just above its limit).
SentCount(w) ==
  /\ At(w, "sentCount")
  /\ replies' = IF Manual(w) \/ replies > MaxReplies THEN replies ELSE replies + 1
  /\ Done(w)
  /\ UNCHANGED <<arrived, draft, row, config, mailed, bounds, hist>>

\* The provider refuses, or one of the writes after its yes fails: the row, the
\* draft, the count, or what is noted after the count.
Sending(w)   == At(w, "send") \/ Recording(w)
SendFails(w) ==
  /\ Sending(w)
  /\ Mishap
  /\ Goto(w, "caught")
  /\ lost' = IF Recording(w) THEN lost \cup {Msg(w)} ELSE lost
  /\ \/ UNCHANGED replies
     \/ At(w, "sentCount") /\ ~Manual(w) /\ replies <= MaxReplies /\ replies' = replies + 1
  /\ UNCHANGED <<arrived, draft, row, config, mailed, overtaken, crowded>>

\* A row is queued again for later, a user's fails at once.
Caught(w) ==
  /\ At(w, "caught")
  /\ IF work[w].tries < MaxAttempts /\ ~Manual(w)
     THEN /\ row' = [row EXCEPT ![Msg(w)] = [@ EXCEPT !.status = "QUEUED", !.due = FALSE]]
          /\ Done(w)
     ELSE Put(w, "FAILED", "HELD") /\ UNCHANGED row
  /\ UNCHANGED <<arrived, draft, replies, config, mailed, bounds, hist>>

-----------------------------------------------------------------------------
(* The world *)

\* scheduledFor passes.
Tick(m) ==
  /\ InRow(m, {"QUEUED"}) /\ ~row[m].due
  /\ row' = [row EXCEPT ![m].due = TRUE]
  /\ UNCHANGED <<arrived, draft, replies, config, work, mailed, bounds, hist>>

\* Outside the try block an exception ends the call where it is, as a crash does;
\* only the flush catches what a delivery throws, and goes on with the next row.
Crash(w) ==
  /\ ~At(w, "idle")
  /\ Mishap
  /\ \/ Set(w, NoJob)
     \/ /\ work[w].at \in {"claim", "load", "guard", "check", "caught", "putRow", "putDraft"}
        /\ Done(w)
  /\ lost' = IF Recording(w) THEN lost \cup {Msg(w)} ELSE lost
  /\ UNCHANGED <<arrived, draft, row, replies, config, mailed, overtaken, crowded>>

Handler(w) ==
  \/ Suppress(w) \/ DropRows(w) \/ Stale(w) \/ StaleRows(w)
  \/ StaleDrafts(w) \/ Classify(w) \/ Persist(w) \/ Upsert(w) \/ Queue(w) \/ QueueRow(w)
  \/ Queued(w)

Deliver(w) ==
  \/ Claim(w) \/ Load(w) \/ Guard(w) \/ Check(w) \/ Send(w) \/ SentRow(w)
  \/ SentDraft(w) \/ SentCount(w) \/ SendFails(w) \/ Caught(w)
  \/ PutRow(w) \/ PutDraft(w)

Switch(w) ==
  StartKill(w) \/ ListQueued(w) \/ CancelRows(w) \/ CancelDrafts(w)

Next ==
  \/ \E w \in Workers :
       \/ Arrive(w) \/ Handler(w) \/ Switch(w) \/ StartFlush(w) \/ NextRow(w)
       \/ Deliver(w) \/ CancelOwn(w) \/ Crash(w)
       \/ \E m \in Inbound : StartSend(w, m) \/ StartRevise(w, m)
  \/ KillOff \/ SetAuto
  \/ \E m \in Inbound : Tick(m)

Spec == Init /\ [][Next]_vars

-----------------------------------------------------------------------------
(* Properties *)

\* A reply is mailed twice only if a write after the provider's yes failed, or its
\* row was queued again by a call that had read it before it was sent.
TwiceNeedsCause == \A m \in Inbound : mailed[m] = 2 => m \in lost \cup overtaken

\* A delivery that claims its row under the kill switch, after a newer message or
\* after the address was suppressed never comes to the provider; a user's may, but
\* not to a suppressed address.
LateNeverSends == \A w \in Workers : At(w, "send") => work[w].late = {}

\* Shadow modes and failures never pass for a delivery.
SentWasMailed == \A m \in Inbound :
  (draft[m] = "SENT" \/ InRow(m, {"SENT"})) => mailed[m] > 0

\* The limit of replies holds unless two deliveries counted at the same time.
RepliesLimited == replies <= MaxReplies \/ crowded
=============================================================================
