-------------------------- MODULE ApprovalChannel --------------------------
(***************************************************************************)
(* Approval by card: Teams and Outlook notifiers compose cards with signed *)
(* buttons (integrations/teams_notifier.py, outlook_notifier.py), a button *)
(* that is pressed calls POST /approvals/callback (approvals.py) through   *)
(* the middleware (middleware.py), and the decision is recorded, logged    *)
(* and answered.  What the decision does to the plan is the subject of     *)
(* RemediationLifecycle.                                                   *)
(*                                                                         *)
(* The relay that calls back for the buttons repeats a call that is not    *)
(* answered, or with 429.  Its calls come from one address, on which there *)
(* is other traffic too, and carry the API key.  Time goes by in parts of  *)
(* the limiter's minute.                                                   *)
(***************************************************************************)
EXTENDS Naturals, Sequences, FiniteSets

CONSTANTS
  Button,      \* the buttons of the cards that may be sent
  Minute,      \* the parts the limiter's window of 60 s is divided in
  Limit,       \* requests_per_minute
  MaxRecords,  \* bound: how many decisions are recorded
  MaxOthers    \* bound: how much other traffic there is

(* A button is genuine when its card was signed with the secret that the   *)
(* callback verifies with.                                                 *)
ASSUME ChannelAssumption ==
  /\ \A b \in Button :
       /\ b.channel \in {"TEAMS_BOT", "OUTLOOK"} /\ b.decision \in {"APPROVED", "REJECTED"}
       /\ b.genuine \in BOOLEAN
  /\ Minute \in Nat \ {0} /\ Limit \in Nat \ {0}
  /\ MaxRecords \in Nat /\ MaxOthers \in Nat

VARIABLES
  cards,     \* the buttons of the cards that reached somebody
  pressed,   \* those that were pressed and have no answer yet
  handling,  \* callbacks in the handler, before their commit
  recorded,  \* and after it
  approvals, \* the rows of approvals
  logged,    \* the audit events, as the number of the row each is about
  answers,   \* history: what buttons were answered with, of which row if any
  recent,    \* the limiter's list: the age of each entry, by the entry's number
  admitted,  \* history: the ages of what it let pass in the last minute
  others

channelVars ==
  <<cards, pressed, handling, recorded, approvals, logged, answers, recent, admitted, others>>

Rows == 0..MaxRecords

(* The numbers of entries.  The order of the list plays no part: entries   *)
(* are counted, and go by their age.                                       *)
EntryNo == 1..(Limit + 1)

(* What a callback is answered with: the approval, 401, 500 or 404, or the *)
(* 500 of an approval that is no ApprovalResponse.                         *)
Codes == {"ok", "refused", "error", "invalid"}

NoAges == [i \in {} |-> 0]

ChannelTypeOK ==
  /\ cards \subseteq Button /\ pressed \subseteq cards
  /\ handling \subseteq Button
  /\ recorded \subseteq [button : Button, row : Rows]
  /\ approvals \in Seq(Button) /\ Len(approvals) \in Rows
  /\ logged \subseteq Rows
  /\ answers \subseteq [button : Button, row : Rows, as : Codes]
  /\ others \in 0..MaxOthers

ChannelInit ==
  /\ cards = {} /\ pressed = {} /\ handling = {} /\ recorded = {}
  /\ approvals = <<>> /\ logged = {} /\ answers = {}
  /\ recent = NoAges /\ admitted = NoAges
  /\ others = 0

----------------------------------------------------------------------------
(* send_approval_request composes a card with its two buttons.  It may not *)
(* arrive, for the lack of a sender or otherwise; whether the sender is    *)
(* told of that is another matter.                                         *)
SameCard(b, c) == [b EXCEPT !.decision = c.decision] = c

Send(c) ==
  /\ c \notin cards
  /\ cards' = cards \cup {b \in Button : SameCard(b, c)}
  /\ UNCHANGED <<pressed, handling, recorded, approvals, logged, answers, recent, admitted, others>>

Press(b) ==
  /\ b \in cards
  /\ pressed' = pressed \cup {b}
  /\ UNCHANGED <<cards, handling, recorded, approvals, logged, answers, recent, admitted, others>>

----------------------------------------------------------------------------
(* RateLimitMiddleware: entries that are a minute old are dropped, and a   *)
(* request is let in, and entered, only if that leaves room.               *)
(* Mutant of Pruned: entries are dropped a moment too early.               *)
PrunedEarly(ages) == [i \in {j \in DOMAIN ages : ages[j] + 1 < Minute} |-> ages[i]]

Pruned(ages) == [i \in {j \in DOMAIN ages : ages[j] < Minute} |-> ages[i]]

Full == Cardinality(DOMAIN Pruned(recent)) >= Limit

Entered(ages, i) == [j \in DOMAIN ages \cup {i} |-> IF j = i THEN 0 ELSE ages[j]]

Unused == EntryNo \ (DOMAIN Pruned(recent) \cup DOMAIN admitted)

Admit ==
  /\ ~Full
  /\ \E i \in Unused :
       /\ \A j \in Unused : i <= j
       /\ recent' = Entered(Pruned(recent), i)
       /\ admitted' = Entered(admitted, i)

(* Mutant of Deny: who is turned away has to wait a full minute again.     *)
DenyCounting ==
  /\ Full
  /\ recent' = [i \in DOMAIN Pruned(recent) |-> 0]
  /\ UNCHANGED <<cards, pressed, handling, recorded, approvals, logged, answers, admitted, others>>

(* 429: the relay will call again.                                         *)
Deny ==
  /\ Full
  /\ recent' = Pruned(recent)
  /\ UNCHANGED <<cards, pressed, handling, recorded, approvals, logged, answers, admitted, others>>

Other ==
  /\ others < MaxOthers /\ others' = others + 1
  /\ Admit
  /\ UNCHANGED <<cards, pressed, handling, recorded, approvals, logged, answers>>

(* Time goes by.                                                           *)
Older(ages) == [i \in DOMAIN ages |-> IF ages[i] < Minute THEN ages[i] + 1 ELSE Minute]

Tick60 ==
  /\ recent' = Older(recent)
  /\ admitted' = [i \in {j \in DOMAIN admitted : admitted[j] + 1 < Minute} |-> admitted[i] + 1]
  /\ UNCHANGED <<cards, pressed, handling, recorded, approvals, logged, answers, others>>

----------------------------------------------------------------------------
Answer(b, n, code) ==
  /\ answers' = answers \cup {[button |-> b, row |-> n, as |-> code]}
  /\ \/ pressed' = pressed \ {b}
     \/ pressed' = pressed      \* the answer is lost

(* approval_callback, up to its first await: 401 unless the signature is   *)
(* that of the decision.                                                   *)
Call(b) ==
  /\ b \in pressed \ handling
  /\ Len(approvals) < MaxRecords
  /\ Admit
  /\ IF b.genuine THEN handling' = handling \cup {b} /\ UNCHANGED <<pressed, answers>>
                  ELSE Answer(b, 0, "refused") /\ UNCHANGED handling
  /\ UNCHANGED <<cards, recorded, approvals, logged, others>>

Commit(b) ==
  /\ b \in handling /\ Len(approvals) < MaxRecords
  /\ handling' = handling \ {b}
  /\ approvals' = Append(approvals, b)
  /\ recorded' = recorded \cup {[button |-> b, row |-> Len(approvals) + 1]}
  /\ UNCHANGED <<cards, pressed, logged, answers, recent, admitted, others>>

(* The plan is not there any more (404), or the database raises: before    *)
(* the row is committed, or when it is, as its answer is lost or the       *)
(* refresh of the row fails.                                               *)
CommitFails(b) ==
  /\ b \in handling
  /\ handling' = handling \ {b}
  /\ \/ UNCHANGED approvals
     \/ Len(approvals) < MaxRecords /\ approvals' = Append(approvals, b)
  /\ Answer(b, 0, "error")
  /\ UNCHANGED <<cards, recorded, logged, recent, admitted, others>>

(* The answer is an ApprovalResponse, whose channel is one of these.       *)
Answerable(b) == b.channel \in {"WEB_DASHBOARD", "TEAMS_BOT", "SLACK"}

(* Mutant of Log: the answer does not wait for the audit event.            *)
LogLater(e) ==
  /\ e \in recorded
  /\ recorded' = recorded \ {e}
  /\ logged' = logged
  /\ Answer(e.button, e.row, IF Answerable(e.button) THEN "ok" ELSE "invalid")
  /\ UNCHANGED <<cards, handling, approvals, recent, admitted, others>>

(* The audit event is committed, and the approval is answered.             *)
Log(e) ==
  /\ e \in recorded
  /\ recorded' = recorded \ {e}
  /\ logged' = logged \cup {e.row}
  /\ Answer(e.button, e.row, IF Answerable(e.button) THEN "ok" ELSE "invalid")
  /\ UNCHANGED <<cards, handling, approvals, recent, admitted, others>>

(* log_event raises: before its commit, or in it or in the refresh after   *)
(* it, with the audit event in place.                                      *)
LogFails(e) ==
  /\ e \in recorded
  /\ recorded' = recorded \ {e}
  /\ logged' \in {logged, logged \cup {e.row}}
  /\ Answer(e.button, 0, "error")
  /\ UNCHANGED <<cards, handling, approvals, recent, admitted, others>>

(* The process dies: its callbacks go unanswered, and the limiter forgets. *)
Restart ==
  /\ handling' = {} /\ recorded' = {}
  /\ recent' = NoAges /\ admitted' = NoAges
  /\ UNCHANGED <<cards, pressed, approvals, logged, answers, others>>

ChannelNext ==
  \/ \E c \in Button : Send(c)
  \/ \E b \in cards : Press(b) \/ Call(b)
  \/ \E b \in handling : Commit(b) \/ CommitFails(b)
  \/ \E e \in recorded : Log(e) \/ LogFails(e)
  \/ Deny \/ Other \/ Tick60 \/ Restart

ChannelSpec == ChannelInit /\ [][ChannelNext]_channelVars

(* Time goes by, and the relay keeps repeating its calls.                  *)
ChannelFairness ==
  /\ WF_channelVars(Tick60)
  /\ \A b \in Button : SF_channelVars(Call(b))

----------------------------------------------------------------------------
(* Every decision the callback records is that of a signed button of a     *)
(* card that was sent, however often it is pressed, repeated and answered  *)
(* (verify_hmac_signature_json in approval_callback).                      *)
DecisionsAreSigned ==
  \A i \in DOMAIN approvals : approvals[i] \in cards /\ approvals[i].genuine

(* The answers say what became of a decision: what is answered with        *)
(* success is recorded and logged, what is refused is not recorded, and    *)
(* what is recorded is signed, in whatever order calls are repeated and    *)
(* fail (approval_callback).                                               *)
AnswersAreTrue ==
  /\ DecisionsAreSigned
  /\ \A a \in answers :
       /\ a.as = "ok" => a.row \in logged /\ approvals[a.row] = a.button
       /\ a.as = "refused" => \A i \in DOMAIN approvals : approvals[i] # a.button

(* In no minute more than requests_per_minute requests of an address are   *)
(* let in, at whatever moments they come and are turned away               *)
(* (RateLimitMiddleware.dispatch).                                         *)
WindowIsBounded == Cardinality(DOMAIN admitted) <= Limit

(* Who keeps repeating a decision gets it in, though every repetition may  *)
(* be turned away first (RateLimitMiddleware.dispatch).                    *)
RetriesAreAdmitted ==
  \A b \in Button :
    b.genuine =>
      (b \in pressed ~> b \in handling \/ b \notin pressed \/ Len(approvals) = MaxRecords)

(* "Approve / Reject buttons so security leads can review and approve      *)
(* directly inside Outlook" (OutlookApprovalNotifier): a decision that is  *)
(* recorded and logged, with nothing gone wrong on the way, is not         *)
(* answered with an error for its channel.                                 *)
RecordedMeansAnswered ==
  \A a \in answers : a.as = "invalid" => a.row \notin logged
=============================================================================
