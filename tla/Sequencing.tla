----------------------------- MODULE Sequencing -----------------------------
(***************************************************************************)
(* The outreach runtime of services/sequencing: enrollments of exported    *)
(* CRM targets in a multi-channel sequence, the due-step scheduler, the    *)
(* approval that sends an e-mail over SMTP, and everything that can change *)
(* an enrollment while one of those is running (pause, resume, cancel,     *)
(* replies, bounces, unsubscribes, booked meetings).                       *)
(*                                                                         *)
(* Every handler is one database transaction (common/database.py,          *)
(* session_scope): it reads rows, works on its copy and commits at the end *)
(* an UPDATE of the columns it changed.  No row is locked and no version   *)
(* is checked, so a handler is modelled by a step that reads, a step for   *)
(* each outside call, and a step that commits what the handler derived     *)
(* from the rows as they were read.  Other handlers run in between.        *)
(*                                                                         *)
(* Time is abstracted: a next_step_at is "none", "later" or "due".         *)
(***************************************************************************)
EXTENDS Naturals, FiniteSets

CONSTANTS
  Enrollment,      \* sequence_enrollments rows, each for a contact of its own
  Worker,          \* concurrently running handlers (API requests, Celery tasks)
  NSteps,          \* steps of the definition_version the enrollments are pinned to
  StepChannel,     \* channel of each step
  Domain,          \* mail domain of the contact of each enrollment
  DomainLimit,     \* domain_daily_limit
  ChannelLimit,    \* channel_daily_limit (and sender_daily_limit: one sender)
  Message,         \* idempotency keys of inbound messages
  MayAbort,        \* may a handler die before it commits?
  Running,         \* bound: the handlers and the outside changes that happen
  MaxVersion,      \* bound: highest enrollment version a handler starts from
  MaxDelivered     \* bound: SMTP deliveries of one step

Step == 1..NSteps

SequenceChannel == {"email", "call", "google_meet"}

\* governance/policy.py SUPPORTED_CHANNELS, restricted to channels a step can have
SUPPORTED_CHANNELS == {"email", "call"}

\* What a handler does next.
Op == {"send_next", "policy_pause", "policy_suppress", "activity", "defer", "present",
       "approve", "approve_sent", "approve_failed", "refused",
       "complete", "pause", "resume", "cancel",
       "reply", "bounce", "unsubscribe", "meeting"}

ASSUME StepAssumption ==
  /\ NSteps \in Nat \ {0}
  /\ StepChannel \in [Step -> SequenceChannel]

ASSUME BoundAssumption ==
  /\ MayAbort \in BOOLEAN
  /\ Running \subseteq Op \cup {"contact", "sequence", "suppression", "day"}
  /\ MaxVersion \in Nat
  /\ MaxDelivered \in Nat

VARIABLES
  enrollment,   \* sequence_enrollments: status, current step, next_step_at, version
  activity,     \* sequence_step_activities: status per step, "none" before it exists
  outbound,     \* outbound_emails per step: status, attempt_count, sent_at
  outbox,       \* idempotency keys in outbox_events
  sequence,     \* status of the sequence
  sendable,     \* contact passes _require_sendable_contact
  suppressed,   \* channels the suppression store blocks for the contact
  exported,     \* enrollments whose CRM target is exported
  processed,    \* inbound_email_events: keys already stored
  engaged,      \* enrollments with a stored reply or a booked meeting
  todo,         \* ids process_due_sequence_steps still has to visit
  tx,           \* the transaction each worker is in
  delivered     \* messages the SMTP server accepted, per step

database == <<enrollment, activity, outbound, outbox, processed, engaged>>
policy == <<sequence, sendable, suppressed, exported>>
vars == <<database, policy, todo, tx, delivered>>
-----------------------------------------------------------------------------
(* Rows *)

TERMINAL_ENROLLMENT_STATUSES == {"completed", "canceled", "suppressed"}
EnrollmentStatus == {"none", "active", "paused"} \cup TERMINAL_ENROLLMENT_STATUSES
ActivityStatus == {"none", "pending", "pending_approval", "completed", "failed"}
OutboundStatus ==
  {"none", "pending_approval", "sent", "failed_retryable", "failed_terminal"}

InboundEmailEventType == {"reply", "bounce", "unsubscribe"}

EnrollmentRow ==
  [status : EnrollmentStatus, step : Step, next : {"none", "later", "due"}, version : Nat]
OutboundRow ==
  [status : OutboundStatus, attempts : Nat, sentAt : {"none", "window", "old"}]

NoEnrollment == [status |-> "none", step |-> 1, next |-> "none", version |-> 0]
NoOutbound == [status |-> "none", attempts |-> 0, sentAt |-> "none"]

\* Outbox keys "<event>:<enrollment>:<version>" and "email.sent:<outbound>:<attempt>".
OutboxKey ==
  {"sequence.completed", "sequence.paused", "email.sent"}
    \X Enrollment \X (0..NSteps) \X Nat
EnrollmentKey(name, e, version) == <<name, e, 0, version>>

\* A running handler: the rows it has read and is working on.
Transaction ==
  [op : Op, e : Enrollment, s : 0..NSteps, row : EnrollmentRow, out : OutboundRow,
   msgs : SUBSET Message]
Idle == [op |-> "idle"]

(***************************************************************************)
(* The tables and the running transactions hold what the columns and the   *)
(* handlers allow: in particular no stale commit moves an enrollment past  *)
(* its last step (state.py:27).                                            *)
(***************************************************************************)
TypeOK ==
  /\ enrollment \in [Enrollment -> EnrollmentRow]
  /\ activity \in [Enrollment -> [Step -> ActivityStatus]]
  /\ outbound \in [Enrollment -> [Step -> OutboundRow]]
  /\ outbox \subseteq OutboxKey
  /\ sequence \in {"active", "inactive"}
  /\ sendable \in [Enrollment -> BOOLEAN]
  /\ suppressed \in [Enrollment -> SUBSET SequenceChannel]
  /\ exported \subseteq Enrollment
  /\ processed \subseteq Message
  /\ engaged \subseteq Enrollment
  /\ todo \in [Worker -> SUBSET Enrollment]
  /\ tx \in [Worker -> Transaction \cup {Idle}]
  /\ delivered \in [Enrollment -> [Step -> Nat]]

Init ==
  /\ enrollment = [e \in Enrollment |-> NoEnrollment]
  /\ activity = [e \in Enrollment |-> [s \in Step |-> "none"]]
  /\ outbound = [e \in Enrollment |-> [s \in Step |-> NoOutbound]]
  /\ outbox = {}
  /\ sequence = "active"
  /\ sendable = [e \in Enrollment |-> TRUE]
  /\ suppressed = [e \in Enrollment |-> {}]
  /\ exported = {}
  /\ processed = {}
  /\ engaged = {}
  /\ todo = [w \in Worker |-> {}]
  /\ tx = [w \in Worker |-> Idle]
  /\ delivered = [e \in Enrollment |-> [s \in Step |-> 0]]
-----------------------------------------------------------------------------
(* Changes to an enrollment row: c is the row now, r the row as it was     *)
(* read.  An UPDATE names only the columns whose value the handler         *)
(* changed, so the other columns keep what later commits put there.        *)

Written(old, new, now) == IF new = old THEN now ELSE new
ClearedNext(r, now) == IF r.next = "none" THEN now ELSE "none"

SetStatus(c, r, status) ==
  [status |-> Written(r.status, status, c.status), step |-> c.step,
   next |-> c.next, version |-> r.version + 1]

PauseForPolicy(c, r) == SetStatus(c, r, "paused")

SuppressEnrollment(c, r) == SetStatus(c, r, "suppressed")

CompleteEnrollment(c, r) ==
  [status |-> Written(r.status, "completed", c.status), step |-> c.step,
   next |-> ClearedNext(r, c.next), version |-> r.version + 1]

\* Mutants of AdvanceEnrollment: the end of the definition is never reached; the last
\* step is taken for the end.
AdvancePastEnd(c, r, s) ==
  [status |-> c.status, step |-> Written(r.step, s + 1, c.step),
   next |-> "later", version |-> r.version + 1]
AdvanceSkipsLast(c, r, s) ==
  IF s + 1 >= NSteps THEN CompleteEnrollment(c, r) ELSE AdvancePastEnd(c, r, s)

\* The steps of the pinned definition are 1..NSteps; a delay of any length is "later".
AdvanceEnrollment(c, r, s) ==
  IF s = NSteps
  THEN CompleteEnrollment(c, r)
  ELSE [status |-> c.status, step |-> Written(r.step, s + 1, c.step),
        next |-> "later", version |-> r.version + 1]

AdvanceKeys(e, r, s) ==
  IF s = NSteps THEN {EnrollmentKey("sequence.completed", e, r.version + 1)} ELSE {}
-----------------------------------------------------------------------------
(* The policy gate, in the order both senders evaluate it *)

Blocked(e, channel) ==
  channel \notin SUPPORTED_CHANNELS \/ channel \in suppressed[e]

SentToday(es) ==
  {p \in es \X Step : LET row == outbound[p[1]][p[2]] IN
                        row.status = "sent" /\ row.sentAt = "window"}

\* Mutant of RateLimited: one more than the limit.
RateLimitedLate(e) ==
  \/ Cardinality(SentToday({d \in Enrollment : Domain[d] = Domain[e]})) > DomainLimit
  \/ Cardinality(SentToday(Enrollment)) > ChannelLimit

RateLimited(e) ==
  \/ Cardinality(SentToday({d \in Enrollment : Domain[d] = Domain[e]})) >= DomainLimit
  \/ Cardinality(SentToday(Enrollment)) >= ChannelLimit

Gate(e, s) ==
  IF sequence # "active" \/ ~sendable[e] THEN "policy_pause"
  ELSE IF Blocked(e, StepChannel[s]) THEN "policy_suppress"
  ELSE IF StepChannel[s] # "email" THEN "activity"
  ELSE IF RateLimited(e) THEN "defer"
  ELSE "present"
-----------------------------------------------------------------------------
(* Transactions *)

Free(w) == tx[w] = Idle /\ todo[w] = {}

\* session.get(SequenceEnrollment, ...): the handler now works on this copy.
Read(w, op, e, s, msgs) ==
  /\ op \in Running
  /\ enrollment[e].status # "none"
  /\ enrollment[e].version < MaxVersion
  /\ tx' = [tx EXCEPT ![w] = [op |-> op, e |-> e, s |-> s, row |-> enrollment[e],
                              out |-> NoOutbound, msgs |-> msgs]]

\* A later read of the same handler: the outbound row of its step.
ReadOutbound(t, op) ==
  [op |-> op, e |-> t.e, s |-> t.s, row |-> t.row, out |-> outbound[t.e][t.s],
   msgs |-> t.msgs]

\* Rows the handler inserts under a unique key.
TxKeys(t) ==
  CASE t.op \in {"policy_pause", "policy_suppress", "pause"} ->
         {EnrollmentKey("sequence.paused", t.e, t.row.version + 1)}
    [] t.op \in {"reply", "meeting"} ->
         {EnrollmentKey("sequence.completed", t.e, t.row.version + 1)}
    [] t.op = "complete" -> AdvanceKeys(t.e, t.row, t.s)
    [] t.op = "approve_sent" ->
         {<<"email.sent", t.e, t.s, t.out.attempts + 1>>} \cup AdvanceKeys(t.e, t.row, t.s)
    [] OTHER -> {}

DuplicateKey(t) == TxKeys(t) \cap outbox # {} \/ t.msgs \cap processed # {}

Commit(w, op) ==
  /\ tx[w].op = op
  /\ ~DuplicateKey(tx[w])
  /\ outbox' = outbox \cup TxKeys(tx[w])
  /\ processed' = processed \cup tx[w].msgs
  /\ tx' = [tx EXCEPT ![w] = Idle]

SetEnrollment(e, row) == enrollment' = [enrollment EXCEPT ![e] = row]
SetActivity(e, s, status) == activity' = [activity EXCEPT ![e][s] = status]

\* session_scope rolls back on any exception: a unique key that is taken, the
\* ValueError of a refused approval, a lost worker.  What SMTP did stays done.
Rollback(w) ==
  /\ tx[w] # Idle
  /\ MayAbort \/ tx[w].op = "refused" \/ DuplicateKey(tx[w])
  /\ tx' = [tx EXCEPT ![w] = Idle]
  /\ todo' = [todo EXCEPT ![w] = {}]
  /\ UNCHANGED <<database, policy, delivered>>
-----------------------------------------------------------------------------
(* create_sequence_enrollment *)

CreateSequenceEnrollment(e) ==
  /\ enrollment[e].status = "none"
  /\ sequence = "active"
  /\ e \in exported
  /\ sendable[e]
  /\ ~Blocked(e, "email")
  /\ \E start \in {"due", "later"} :
       SetEnrollment(e, [status |-> "active", step |-> 1, next |-> start, version |-> 1])
  /\ UNCHANGED <<activity, outbound, outbox, processed, engaged, policy, todo, tx, delivered>>
-----------------------------------------------------------------------------
(* process_due_sequence_steps and send_next_sequence_step *)

Due == {e \in Enrollment : enrollment[e].status = "active" /\ enrollment[e].next = "due"}

\* The first transaction lists the due enrollments and ends.
ProcessDueSequenceSteps(w) ==
  /\ Free(w)
  /\ Due # {}
  /\ todo' = [todo EXCEPT ![w] = Due]
  /\ UNCHANGED <<database, policy, tx, delivered>>

\* Then each listed one gets a transaction that looks at its status again, not at
\* its next_step_at.
SendNextRead(w, e) ==
  /\ tx[w] = Idle
  /\ e \in todo[w]
  /\ todo' = [todo EXCEPT ![w] = @ \ {e}]
  /\ IF enrollment[e].status = "active"
     THEN Read(w, "send_next", e, enrollment[e].step, {})
     ELSE tx' = tx
  /\ UNCHANGED <<database, policy, delivered>>

\* Sequence, contact, suppressions and sent e-mails are read after the enrollment, and
\* the outbound row after those.
SendNextGate(w) ==
  LET t == tx[w] IN
  /\ t.op = "send_next"
  /\ tx' = [tx EXCEPT ![w] = ReadOutbound(t, Gate(t.e, t.s))]
  /\ UNCHANGED <<database, policy, todo, delivered>>

SendNextPause(w) ==
  LET t == tx[w] IN
  /\ Commit(w, "policy_pause")
  /\ SetEnrollment(t.e, PauseForPolicy(enrollment[t.e], t.row))
  /\ UNCHANGED <<activity, outbound, engaged, policy, todo, delivered>>

SendNextSuppress(w) ==
  LET t == tx[w] IN
  /\ Commit(w, "policy_suppress")
  /\ SetEnrollment(t.e, SuppressEnrollment(enrollment[t.e], t.row))
  /\ UNCHANGED <<activity, outbound, engaged, policy, todo, delivered>>

\* _activity_for_step: an existing activity is returned with the status it has.
ActivityForStep(e, s, status) ==
  SetActivity(e, s, IF activity[e][s] = "none" THEN status ELSE activity[e][s])

SendNextActivity(w) ==
  LET t == tx[w] IN
  /\ Commit(w, "activity")
  /\ ActivityForStep(t.e, t.s, "pending")
  /\ SetEnrollment(t.e, [enrollment[t.e] EXCEPT !.next = ClearedNext(t.row, @)])
  /\ UNCHANGED <<outbound, engaged, policy, todo, delivered>>

SendNextDefer(w) ==
  LET t == tx[w] IN
  /\ Commit(w, "defer")
  /\ SetEnrollment(t.e, [enrollment[t.e] EXCEPT !.next = "later"])
  /\ UNCHANGED <<activity, outbound, engaged, policy, todo, delivered>>

\* _outbound_for_step gets or creates the row; its status is overwritten.
SendNextPresent(w) ==
  LET t == tx[w] IN
  /\ Commit(w, "present")
  /\ outbound' = [outbound EXCEPT
       ![t.e][t.s].status = Written(t.out.status, "pending_approval", @)]
  /\ ActivityForStep(t.e, t.s, "pending_approval")
  /\ SetEnrollment(t.e, [enrollment[t.e] EXCEPT !.next = ClearedNext(t.row, @)])
  /\ UNCHANGED <<engaged, policy, todo, delivered>>
-----------------------------------------------------------------------------
(* send_approved_sequence_email *)

\* Mutants of ApproveRead: the policy is not looked at again; a failed activity may be
\* approved once more.
ApproveReadUngated(w, e, s) ==
  /\ Free(w)
  /\ StepChannel[s] = "email"
  /\ activity[e][s] = "pending_approval"
  /\ enrollment[e].status = "active"
  /\ Read(w, "approve", e, s, {})
  /\ UNCHANGED <<database, policy, todo, delivered>>
ApproveReadFailed(w, e, s) ==
  /\ Free(w)
  /\ StepChannel[s] = "email"
  /\ activity[e][s] \in {"pending_approval", "failed"}
  /\ enrollment[e].status = "active"
  /\ Read(w, IF Gate(e, s) = "present" THEN "approve" ELSE "refused", e, s, {})
  /\ UNCHANGED <<database, policy, todo, delivered>>

\* Activity, enrollment and the policy gate are read; a gate that fails pauses,
\* suppresses or defers the enrollment and then raises.
ApproveRead(w, e, s) ==
  /\ Free(w)
  /\ StepChannel[s] = "email"
  /\ activity[e][s] = "pending_approval"
  /\ enrollment[e].status = "active"
  /\ Read(w, IF Gate(e, s) = "present" THEN "approve" ELSE "refused", e, s, {})
  /\ UNCHANGED <<database, policy, todo, delivered>>

\* The outbound row is read last, then SMTP is called inside the transaction.  An
\* error may be reported for a message the server has accepted.
ApproveSmtp(w) ==
  LET t == tx[w] IN
  /\ t.op = "approve"
  /\ \E op \in {"approve_sent", "approve_failed"}, accepted \in BOOLEAN :
       /\ op = "approve_sent" => accepted
       /\ accepted => delivered[t.e][t.s] < MaxDelivered
       /\ tx' = [tx EXCEPT ![w] = ReadOutbound(t, op)]
       /\ delivered' = [delivered EXCEPT ![t.e][t.s] = IF accepted THEN @ + 1 ELSE @]
  /\ UNCHANGED <<database, policy, todo>>

ApproveSent(w) ==
  LET t == tx[w] IN
  /\ Commit(w, "approve_sent")
  /\ outbound' = [outbound EXCEPT ![t.e][t.s] =
       [status |-> Written(t.out.status, "sent", @.status),
        attempts |-> t.out.attempts + 1, sentAt |-> "window"]]
  /\ SetEnrollment(t.e, AdvanceEnrollment(enrollment[t.e], t.row, t.s))
  /\ SetActivity(t.e, t.s, "completed")
  /\ UNCHANGED <<engaged, policy, todo, delivered>>

\* Mutant of ApproveFailed: the enrollment moves on as if the e-mail had been sent.
ApproveFailedAdvances(w) ==
  LET t == tx[w] IN
  /\ Commit(w, "approve_failed")
  /\ SetActivity(t.e, t.s, "failed")
  /\ SetEnrollment(t.e, AdvanceEnrollment(enrollment[t.e], t.row, t.s))
  /\ UNCHANGED <<outbound, engaged, policy, todo, delivered>>

ApproveFailed(w) ==
  LET t == tx[w] IN
  /\ Commit(w, "approve_failed")
  /\ outbound' = [outbound EXCEPT ![t.e][t.s] =
       [status |-> Written(t.out.status, "failed_retryable", @.status),
        attempts |-> t.out.attempts + 1, sentAt |-> @.sentAt]]
  /\ SetActivity(t.e, t.s, "failed")
  /\ SetEnrollment(t.e, [enrollment[t.e] EXCEPT !.next = "later"])
  /\ UNCHANGED <<engaged, policy, todo, delivered>>
-----------------------------------------------------------------------------
(* complete_sequence_activity: neither the channel nor the enrollment's    *)
(* status is looked at                                                     *)

\* Mutant of CompleteActivityRead: an e-mail waiting for approval can be ticked off.
CompleteAnyActivityRead(w, e, s) ==
  /\ Free(w)
  /\ activity[e][s] \in {"pending", "pending_approval"}
  /\ Read(w, "complete", e, s, {})
  /\ UNCHANGED <<database, policy, todo, delivered>>

CompleteActivityRead(w, e, s) ==
  /\ Free(w)
  /\ activity[e][s] = "pending"
  /\ Read(w, "complete", e, s, {})
  /\ UNCHANGED <<database, policy, todo, delivered>>

CompleteActivity(w) ==
  LET t == tx[w] IN
  /\ Commit(w, "complete")
  /\ SetActivity(t.e, t.s, "completed")
  /\ SetEnrollment(t.e, AdvanceEnrollment(enrollment[t.e], t.row, t.s))
  /\ UNCHANGED <<outbound, engaged, policy, todo, delivered>>
-----------------------------------------------------------------------------
(* pause, resume, cancel *)

CanSetStatus(e, status) ==
  enrollment[e].status \notin TERMINAL_ENROLLMENT_STATUSES \ {status}

PauseRead(w, e) ==
  /\ Free(w)
  /\ CanSetStatus(e, "paused")
  /\ Read(w, "pause", e, 0, {})
  /\ UNCHANGED <<database, policy, todo, delivered>>

PauseSequenceEnrollment(w) ==
  LET t == tx[w] IN
  /\ Commit(w, "pause")
  /\ SetEnrollment(t.e, PauseForPolicy(enrollment[t.e], t.row))
  /\ UNCHANGED <<activity, outbound, engaged, policy, todo, delivered>>

CancelRead(w, e) ==
  /\ Free(w)
  /\ CanSetStatus(e, "canceled")
  /\ Read(w, "cancel", e, 0, {})
  /\ UNCHANGED <<database, policy, todo, delivered>>

CancelSequenceEnrollment(w) ==
  LET t == tx[w] IN
  /\ Commit(w, "cancel")
  /\ SetEnrollment(t.e, SetStatus(enrollment[t.e], t.row, "canceled"))
  /\ UNCHANGED <<activity, outbound, engaged, policy, todo, delivered>>

\* Mutant of ResumeEnrollment: next_step_at is not set.
ResumeUnscheduled(c, r) == SetStatus(c, r, "active")

ResumeEnrollment(c, r) ==
  [status |-> Written(r.status, "active", c.status), step |-> c.step,
   next |-> IF r.next = "none" THEN "due" ELSE c.next, version |-> r.version + 1]

ResumeRead(w, e) ==
  /\ Free(w)
  /\ enrollment[e].status \notin TERMINAL_ENROLLMENT_STATUSES
  /\ Read(w, "resume", e, 0, {})
  /\ UNCHANGED <<database, policy, todo, delivered>>

ResumeSequenceEnrollment(w) ==
  LET t == tx[w] IN
  /\ Commit(w, "resume")
  /\ SetEnrollment(t.e, ResumeEnrollment(enrollment[t.e], t.row))
  /\ UNCHANGED <<activity, outbound, engaged, policy, todo, delivered>>
-----------------------------------------------------------------------------
(* process_inbound_email_event: a stored key makes a redelivery a no-op.   *)
(* The sender's address is matched to the last sent e-mail, or else to any *)
(* e-mail written to it; the enrollment is changed whatever its status.    *)

Contacted(e) == \E s \in Step : outbound[e][s].status # "none"

Sent(e, s) == outbound[e][s].status = "sent"

\* The step of the last e-mail sent to the contact, 0 when there is none.
Matched(e, s) ==
  \/ s \in Step /\ Sent(e, s) /\ \A j \in Step : Sent(e, j) => j <= s
  \/ s = 0 /\ \A j \in Step : ~Sent(e, j)

InboundRead(w, e, s, m, kind) ==
  /\ Free(w)
  /\ m \notin processed
  /\ Contacted(e)
  /\ Matched(e, s)
  /\ Read(w, kind, e, s, {m})
  /\ UNCHANGED <<database, policy, todo, delivered>>

ProcessReply(w) ==
  LET t == tx[w] IN
  /\ Commit(w, "reply")
  /\ SetEnrollment(t.e, CompleteEnrollment(enrollment[t.e], t.row))
  /\ engaged' = engaged \cup {t.e}
  /\ UNCHANGED <<activity, outbound, policy, todo, delivered>>

ProcessBounce(w) ==
  LET t == tx[w] IN
  /\ Commit(w, "bounce")
  /\ SetEnrollment(t.e, [enrollment[t.e] EXCEPT !.status = Written(t.row.status, "paused", @)])
  /\ outbound' = IF t.s = 0 THEN outbound
                 ELSE [outbound EXCEPT ![t.e][t.s].status = "failed_terminal"]
  /\ UNCHANGED <<activity, engaged, policy, todo, delivered>>

\* _create_unsubscribe_suppression stores the address and its domain, and the store
\* matches on either; nothing is stored when the address already has a row of its own.
SuppressDomain(e) ==
  \/ suppressed' = [d \in Enrollment |->
       IF Domain[d] = Domain[e] THEN suppressed[d] \cup {"email"} ELSE suppressed[d]]
  \/ "email" \in suppressed[e] /\ suppressed' = suppressed

ProcessUnsubscribe(w) ==
  LET t == tx[w] IN
  /\ Commit(w, "unsubscribe")
  /\ SetEnrollment(t.e,
       [enrollment[t.e] EXCEPT !.status = Written(t.row.status, "suppressed", @)])
  /\ SuppressDomain(t.e)
  /\ UNCHANGED <<activity, outbound, engaged, sequence, sendable, exported, todo, delivered>>

\* From an address no e-mail was written to: the event is stored, and of an unsubscribe
\* the suppression.
InboundUnmatched(e, m, kind) ==
  /\ m \notin processed
  /\ ~Contacted(e)
  /\ processed' = processed \cup {m}
  /\ \/ kind = "unsubscribe" /\ SuppressDomain(e)
     \/ kind # "unsubscribe" /\ suppressed' = suppressed
  /\ UNCHANGED <<enrollment, activity, outbound, outbox, engaged,
                 sequence, sendable, exported, todo, tx, delivered>>
-----------------------------------------------------------------------------
(* create_meeting: the enrollment is read before the calendar call and     *)
(* completed after it if it was active when read                           *)

MeetingRead(w, e) ==
  /\ Free(w)
  /\ enrollment[e].status = "active"
  /\ ~Blocked(e, "email")
  /\ Read(w, "meeting", e, 0, {})
  /\ UNCHANGED <<database, policy, todo, delivered>>

MeetingBooked(w) ==
  LET t == tx[w] IN
  /\ Commit(w, "meeting")
  /\ SetEnrollment(t.e, CompleteEnrollment(enrollment[t.e], t.row))
  /\ engaged' = engaged \cup {t.e}
  /\ UNCHANGED <<activity, outbound, policy, todo, delivered>>
-----------------------------------------------------------------------------
(* What other components and the clock do *)

\* process_crm_export_batch marks the target exported.
TargetExported(e) ==
  /\ e \notin exported
  /\ exported' = exported \cup {e}
  /\ UNCHANGED <<database, sequence, sendable, suppressed, todo, tx, delivered>>

\* Verification, lawful basis and the do-not-contact flag of the contact change.
ContactChanges(e) ==
  /\ "contact" \in Running
  /\ sendable' = [sendable EXCEPT ![e] = ~@]
  /\ UNCHANGED <<database, sequence, suppressed, exported, todo, tx, delivered>>

\* governance create_suppression for the contact.
CreateSuppression(e, channel) ==
  /\ "suppression" \in Running
  /\ channel \notin suppressed[e]
  /\ suppressed' = [suppressed EXCEPT ![e] = @ \cup {channel}]
  /\ UNCHANGED <<database, sequence, sendable, exported, todo, tx, delivered>>

\* archive_sequence and update_sequence set the status; "inactive" is paused or archived.
SetSequenceStatus ==
  /\ "sequence" \in Running
  /\ sequence' \in {"active", "inactive"} \ {sequence}
  /\ UNCHANGED <<database, sendable, suppressed, exported, todo, tx, delivered>>

StepFallsDue(e) ==
  /\ enrollment[e].next = "later"
  /\ SetEnrollment(e, [enrollment[e] EXCEPT !.next = "due"])
  /\ UNCHANGED <<activity, outbound, outbox, processed, engaged, policy, todo, tx, delivered>>

SentLeavesWindow(e, s) ==
  /\ "day" \in Running
  /\ outbound[e][s].sentAt = "window"
  /\ outbound' = [outbound EXCEPT ![e][s].sentAt = "old"]
  /\ UNCHANGED <<enrollment, activity, outbox, processed, engaged, policy, todo, tx, delivered>>
-----------------------------------------------------------------------------
Begin(w) ==
  \/ ProcessDueSequenceSteps(w)
  \/ \E e \in Enrollment :
       \/ SendNextRead(w, e)
       \/ PauseRead(w, e)
       \/ ResumeRead(w, e)
       \/ CancelRead(w, e)
       \/ MeetingRead(w, e)
       \/ \E s \in Step : ApproveRead(w, e, s) \/ CompleteActivityRead(w, e, s)
       \/ \E s \in 0..NSteps, m \in Message, kind \in InboundEmailEventType :
            InboundRead(w, e, s, m, kind)

Finish(w) ==
  \/ SendNextGate(w)
  \/ SendNextPause(w)
  \/ SendNextSuppress(w)
  \/ SendNextActivity(w)
  \/ SendNextDefer(w)
  \/ SendNextPresent(w)
  \/ ApproveSmtp(w)
  \/ ApproveSent(w)
  \/ ApproveFailed(w)
  \/ CompleteActivity(w)
  \/ PauseSequenceEnrollment(w)
  \/ ResumeSequenceEnrollment(w)
  \/ CancelSequenceEnrollment(w)
  \/ ProcessReply(w)
  \/ ProcessBounce(w)
  \/ ProcessUnsubscribe(w)
  \/ MeetingBooked(w)
  \/ Rollback(w)

Environment ==
  \/ SetSequenceStatus
  \/ \E e \in Enrollment :
       \/ CreateSequenceEnrollment(e)
       \/ TargetExported(e)
       \/ ContactChanges(e)
       \/ StepFallsDue(e)
       \/ \E channel \in SUPPORTED_CHANNELS : CreateSuppression(e, channel)
       \/ \E s \in Step : SentLeavesWindow(e, s)
       \/ \E m \in Message, kind \in InboundEmailEventType : InboundUnmatched(e, m, kind)

Next == Environment \/ \E w \in Worker : Begin(w) \/ Finish(w)

Spec == Init /\ [][Next]_vars
-----------------------------------------------------------------------------
(* Properties *)

Done(e, s) ==
  IF StepChannel[s] = "email" THEN delivered[e][s] > 0 ELSE activity[e][s] = "completed"

\* A step is put before an operator only after every earlier step of the pinned
\* definition really happened: the e-mails were accepted by the mail server and the
\* other activities were completed, whatever handlers overlapped or rolled back.
StepsInOrder ==
  \A e \in Enrollment, s \in Step :
    activity[e][s] # "none" => \A j \in 1..(s - 1) : Done(e, j)

\* An enrollment is completed only when all its steps happened, or the contact replied
\* or a meeting was booked: no interleaving makes _advance_enrollment skip a step.
CompletedMeansDone ==
  \A e \in Enrollment :
    enrollment[e].status = "completed" => e \in engaged \/ \A s \in Step : Done(e, s)

\* What the database calls sent was accepted by the mail server, for an enrollment
\* whose CRM target was exported: a "sent" row or a completed e-mail activity is never
\* left behind by a transaction that rolled back or by complete_sequence_activity,
\* which does not look at the channel.
SentIsReal ==
  \A e \in Enrollment, s \in Step :
    /\ outbound[e][s].status = "sent" => delivered[e][s] > 0
    /\ StepChannel[s] = "email" /\ activity[e][s] = "completed" => delivered[e][s] > 0
    /\ delivered[e][s] > 0 => e \in exported /\ activity[e][s] # "none"

Delivering(e) == {w \in Worker : tx[w].op = "approve" /\ tx[w].e = e}

\* Once e-mail to a contact is suppressed, the only deliveries that can still reach
\* the mail server are those already past the policy gate: the set only shrinks.
NoDeliveryStartsSuppressed ==
  [][\A e \in Enrollment :
       Blocked(e, "email") => /\ Delivering(e)' \subseteq Delivering(e)
                              /\ delivered'[e] # delivered[e] => Delivering(e)' # Delivering(e)]_vars

\* No step's e-mail is accepted twice.  One handler at a time keeps this, an SMTP error
\* reported for an accepted message included, because a failed activity cannot be
\* approved again; two overlapping approvals of one activity break it.
AtMostOneDelivery ==
  \A e \in Enrollment, s \in Step : delivered[e][s] <= 1

Quiet(e) == \A w \in Worker : e \notin todo[w] /\ (tx[w] # Idle => tx[w].e # e)

\* An active enrollment nobody is working on is scheduled, or its current step was put
\* before an operator: pause, resume, bounces and late replies never leave one that the
\* scheduler will not list and no operator has seen.
ActiveHasWork ==
  \A e \in Enrollment :
    enrollment[e].status = "active" /\ Quiet(e)
    => enrollment[e].next # "none" \/ activity[e][enrollment[e].step] # "none"

\* The same, but an operator can act on what was put before them.  After an SMTP error
\* the activity is "failed": the retry re-opens the outbound row, keeps the activity and
\* clears next_step_at.
NotStranded ==
  \A e \in Enrollment :
    enrollment[e].status = "active" /\ Quiet(e)
    => \/ enrollment[e].next # "none"
       \/ activity[e][enrollment[e].step] \in {"pending", "pending_approval"}

\* The e-mails counted for the last day exceed a limit by at most the handlers that
\* passed the check together; with one handler at a time the limits are exact.
RateLimitBounded ==
  LET slack == Cardinality(Worker) - 1 IN
  /\ Cardinality(SentToday(Enrollment)) <= ChannelLimit + slack
  /\ \A e \in Enrollment :
       Cardinality(SentToday({d \in Enrollment : Domain[d] = Domain[e]})) <= DomainLimit + slack

\* An approval refused because e-mail to the contact is suppressed leaves the enrollment
\* suppressed.  The handler sets that status and then raises, which rolls it back.
RefusalRecorded ==
  [][\A w \in Worker :
       /\ tx[w] # Idle
       /\ tx[w].op = "refused"
       /\ Blocked(tx[w].e, "email")
       /\ tx'[w] = Idle
       => enrollment'[tx[w].e].status = "suppressed"]_vars

\* An enrollment ends as suppressed only when somebody suppressed the contact.  The
\* suppression check knows no channel google_meet and refuses it.
SuppressedOnRequest ==
  \A e \in Enrollment : enrollment[e].status = "suppressed" => suppressed[e] # {}
=============================================================================
