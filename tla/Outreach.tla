------------------------------ MODULE Outreach ------------------------------
(***************************************************************************)
(* What a caller of InboxService.sendOutreach may rely on: for each        *)
(* idempotency key a message that is reserved, accepted by the provider    *)
(* and recorded, and an answer that may come at any of these stages.  The  *)
(* lock, the limits, the account and the calendar of SendOutreach are gone *)
(* here; what they decide is a choice.  SendOutreach implements this.      *)
(***************************************************************************)
EXTENDS Naturals

CONSTANTS Callers,   \* concurrent executions of sendOutreach
          Keys,      \* idempotency keys
          NoKey      \* of a caller that is not in a call

VARIABLES mail,      \* status of each key's message
          accepted,  \* how often the provider accepted it
          call,      \* the state of each caller
          lost       \* keys accepted but not left recorded

vars == <<mail, accepted, call, lost>>

Stages  == {"idle", "begun", "looked", "reserved", "accepted", "recorded",
            "failing", "failed"}
Answers == {"none", "SENT", "RESUMED", "ORG_DAILY_LIMIT", "DUPLICATE", "ERROR"}

TypeOK ==
  /\ mail \in [Keys -> {"NONE", "SCHEDULED", "SENT", "FAILED"}]
  /\ accepted \in [Keys -> Nat]
  /\ call \in [Callers -> [at : Stages, key : Keys \cup {NoKey}, knew : BOOLEAN, got : Answers]]
  /\ lost \subseteq Keys

Init ==
  /\ mail = [k \in Keys |-> "NONE"]
  /\ accepted = [k \in Keys |-> 0]
  /\ call = [p \in Callers |->
       [at |-> "idle", key |-> NoKey, knew |-> FALSE, got |-> "none"]]
  /\ lost = {}

At(p, stage)  == call[p].at = stage
Key(p)        == call[p].key
Goto(p, stage) == call' = [call EXCEPT ![p].at = stage]
Return(p, answer) ==
  call' = [call EXCEPT ![p] = [at |-> "idle", key |-> NoKey, knew |-> FALSE, got |-> answer]]

Begin(p, k) ==
  /\ At(p, "idle")
  /\ call' = [call EXCEPT ![p] = [at |-> "begun", key |-> k, knew |-> FALSE, got |-> "none"]]
  /\ UNCHANGED <<mail, accepted, lost>>

GoOn(p) == call' = [call EXCEPT ![p] = [at |-> "looked", key |-> Key(p),
                                        knew |-> mail[Key(p)] # "NONE", got |-> @.got]]

\* Mutant: a message already sent goes on.
LookPast(p) ==
  /\ At(p, "begun")
  /\ GoOn(p)
  /\ UNCHANGED <<mail, accepted, lost>>

\* A message already sent is returned; otherwise the call goes on.
Look(p) ==
  /\ At(p, "begun")
  /\ \/ mail[Key(p)] = "SENT" /\ Return(p, "RESUMED")
     \/ /\ mail[Key(p)] # "SENT"
        /\ GoOn(p)
  /\ UNCHANGED <<mail, accepted, lost>>

\* DUPLICATE is the answer to a call that saw no message where there is one now.
Refuse(p) ==
  /\ At(p, "looked")
  /\ \/ Return(p, "ORG_DAILY_LIMIT")
     \/ Return(p, "ERROR")
     \/ mail[Key(p)] # "NONE" /\ ~call[p].knew /\ Return(p, "DUPLICATE")
     \/ mail[Key(p)] = "SENT" /\ Return(p, "RESUMED")
  /\ UNCHANGED <<mail, accepted, lost>>

Reserve(p) ==
  /\ At(p, "looked")
  /\ call[p].knew \/ mail[Key(p)] = "NONE"
  /\ mail' = [mail EXCEPT ![Key(p)] = "SCHEDULED"]
  /\ Goto(p, "reserved")
  /\ UNCHANGED <<accepted, lost>>

\* No entitlement, or the provider refuses.
Decline(p) ==
  /\ At(p, "reserved")
  /\ Return(p, "ERROR") \/ Goto(p, "failing")
  /\ UNCHANGED <<mail, accepted, lost>>

\* The provider accepts, and may report an error all the same.
Accept(p) ==
  /\ At(p, "reserved")
  /\ accepted' = [accepted EXCEPT ![Key(p)] = @ + 1]
  /\ \/ Goto(p, "accepted") /\ UNCHANGED lost
     \/ Goto(p, "failing") /\ lost' = lost \cup {Key(p)}
  /\ UNCHANGED mail

Record(p) ==
  /\ At(p, "accepted")
  /\ mail' = [mail EXCEPT ![Key(p)] = "SENT"]
  /\ Goto(p, "recorded")
  /\ UNCHANGED <<accepted, lost>>

Finish(p) == At(p, "recorded") /\ Return(p, "SENT") /\ UNCHANGED <<mail, accepted, lost>>

\* A write after the acceptance fails.
Throw(p) ==
  /\ call[p].at \in {"accepted", "recorded"}
  /\ Goto(p, "failing")
  /\ lost' = lost \cup {Key(p)}
  /\ UNCHANGED <<mail, accepted>>

Fail(p) ==
  /\ At(p, "failing")
  /\ mail' = [mail EXCEPT ![Key(p)] = "FAILED"]
  /\ Goto(p, "failed")
  /\ UNCHANGED <<accepted, lost>>

GiveUp(p) ==
  /\ call[p].at \in {"failing", "failed"}
  /\ Return(p, "ERROR")
  /\ UNCHANGED <<mail, accepted, lost>>

Die(p) ==
  /\ ~At(p, "idle")
  /\ Return(p, "none")
  /\ lost' = IF At(p, "accepted") THEN lost \cup {Key(p)} ELSE lost
  /\ UNCHANGED <<mail, accepted>>

Step(p) ==
  \/ Look(p) \/ Refuse(p) \/ Reserve(p) \/ Decline(p) \/ Accept(p) \/ Record(p)
  \/ Finish(p) \/ Throw(p) \/ Fail(p) \/ GiveUp(p)

Next == \E p \in Callers : Step(p) \/ Die(p) \/ \E k \in Keys : Begin(p, k)

Spec == Init /\ [][Next]_vars
=============================================================================
