------------------------------ MODULE Meetings ------------------------------
(***************************************************************************)
(* Meeting handoff (services/meeting): a meeting is booked in the calendar *)
(* of the provider, gets prep packets, an outcome with follow-up tasks     *)
(* that is synced to the CRM, may be canceled, and its sync retried.       *)
(*                                                                         *)
(* Every request is one transaction with the provider called inside it:    *)
(* what the provider did stays when the transaction is rolled back.  Rows  *)
(* are read without locks.  A flush before the call (booking, outcome)     *)
(* holds the row until the transaction ends; the others write at commit.   *)
(***************************************************************************)
EXTENDS Rows, Naturals, Sequences

CONSTANTS
  Meeting,      \* meeting_handoffs rows, named by their idempotency key
  MeetingWorker,\* concurrently running requests and Celery tasks
  OutcomeKey,   \* idempotency keys of outcome requests
  Outcome,      \* outcomes operators record
  PacketKey,    \* idempotency keys of prep-packet requests
  FollowUp,     \* follow-up tasks (index and title) outcome requests name
  MaxBookings,  \* bound: calendar events created for a meeting
  MaxVersion,   \* bound: version of a meeting row
  DieRequests   \* may a request die inside its transaction?

ASSUME MeetingsAssumption ==
  /\ Outcome \subseteq {"completed", "no_show", "rescheduled", "disqualified"}
  /\ MaxBookings \in Nat /\ MaxVersion \in Nat /\ DieRequests \in BOOLEAN

VARIABLES
  meeting,     \* meeting_handoffs
  followUp,    \* meeting_follow_up_tasks: crm_sync_status of each task
  packet,      \* meeting_prep_packets: their keys ("none" without one)
  published,   \* idempotency keys in outbox_events
  enrollment,  \* the sequence enrollment meetings are booked for
  invitable,   \* is the target exported and no attendee suppressed?
  calendar,    \* events the calendar shows
  bookings,    \* calendar events created so far, per meeting
  crmOutcome,  \* the outcome the CRM was last told, per meeting
  mtx          \* the transaction each worker is in

mvars == <<meeting, followUp, packet, published, enrollment, invitable, calendar,
           bookings, crmOutcome, mtx>>
-----------------------------------------------------------------------------
(* Rows *)

MeetingStatus == {"scheduled", "completed", "canceled", "failed_sync"}
MeetingOutcomeStatus == {"completed", "no_show", "rescheduled", "disqualified"}
MeetingCrmSyncStatus == {"pending", "succeeded", "failed_retryable", "failed_terminal"}

NoEvent == 0
MeetingHandoff == [status : MeetingStatus \cup {"none"},
                   outcome : MeetingOutcomeStatus \cup {"none"},
                   sync : MeetingCrmSyncStatus, event : 0..MaxBookings, version : Nat]
MeetingFollowUpTask == MeetingCrmSyncStatus \cup {"none"}

NoMeeting == [status |-> "none", outcome |-> "none", sync |-> "pending",
              event |-> NoEvent, version |-> 0]
NoTasks == [f \in FollowUp |-> "none"]

\* The enrollment is active or completed.
EnrollmentRow == [active : BOOLEAN, version : 1..2]

(***************************************************************************)
(* A transaction: the step it has reached, the rows as it read them, the   *)
(* rows as it holds them and the outbox keys it will insert.               *)
(***************************************************************************)
MeetingTx(step, m, seen, row, tseen, tasks, enr, keys) ==
  [step |-> step, meeting |-> m, seen |-> seen, row |-> row,
   tseen |-> tseen, tasks |-> tasks, enr |-> enr, keys |-> keys]
NoTx == [step |-> "idle"]
NoEnrollment == [active |-> FALSE, version |-> 1]

\* Steps after a flush: the transaction holds the meeting's row.
FLUSHED == {"inserted", "booked", "recorded", "synced"}
Held(m) ==
  \E w \in MeetingWorker : mtx[w].step \in FLUSHED /\ mtx[w].meeting = m

\* Every row, task, packet, provider record and running request has its type: no
\* handler commits a status the API's enumerations do not have.
MeetingsTypeOK ==
  /\ meeting \in [Meeting -> MeetingHandoff]
  /\ followUp \in [Meeting -> [FollowUp -> MeetingFollowUpTask]]
  /\ packet \in [Meeting -> SUBSET (PacketKey \cup {"none"})]
  /\ enrollment \in EnrollmentRow
  /\ invitable \in BOOLEAN
  /\ calendar \subseteq Meeting \X (1..MaxBookings)
  /\ bookings \in [Meeting -> 0..MaxBookings]
  /\ crmOutcome \in [Meeting -> MeetingOutcomeStatus \cup {"none", "absent"}]

MeetingsInit ==
  /\ meeting = [m \in Meeting |-> NoMeeting]
  /\ followUp = [m \in Meeting |-> NoTasks]
  /\ packet = [m \in Meeting |-> {}]
  /\ published = {}
  /\ enrollment = [active |-> TRUE, version |-> 1]
  /\ invitable = TRUE
  /\ calendar = {}
  /\ bookings = [m \in Meeting |-> 0]
  /\ crmOutcome = [m \in Meeting |-> "absent"]
  /\ mtx = [w \in MeetingWorker |-> NoTx]

Proceed(w, t) == mtx' = [mtx EXCEPT ![w] = t]
RowsUnchanged == UNCHANGED <<meeting, followUp, packet, published, enrollment>>
ProvidersUnchanged == UNCHANGED <<calendar, bookings, crmOutcome>>

\* The transaction is rolled back; what the providers were told stays.
MeetingRollback(w) == Proceed(w, NoTx) /\ RowsUnchanged /\ UNCHANGED invitable
-----------------------------------------------------------------------------
(* Booking *)

\* create_meeting up to the insert: a new key, an exported target, invitable attendees.
BookRead(w, m, enrolled) ==
  /\ mtx[w] = NoTx
  /\ meeting[m] = NoMeeting
  /\ invitable
  /\ Proceed(w, MeetingTx("booking", m, NoMeeting,
                          [NoMeeting EXCEPT !.status = "scheduled", !.version = 1],
                          NoTasks, NoTasks, IF enrolled THEN enrollment ELSE NoEnrollment, {}))
  /\ RowsUnchanged /\ ProvidersUnchanged /\ UNCHANGED invitable

\* Mutant of BookInsert: the row is added, but not flushed before the calendar is called.
BookInsertUnflushed(w) ==
  /\ mtx[w].step = "booking"
  /\ Proceed(w, [mtx[w] EXCEPT !.step = "inserted"])
  /\ RowsUnchanged /\ UNCHANGED invitable
  /\ ProvidersUnchanged

\* The flush: it waits for another insert of the key, and fails when that is committed.
BookInsert(w) ==
  LET m == mtx[w].meeting
  IN /\ mtx[w].step = "booking"
     /\ ~Held(m)
     /\ \/ meeting[m] = NoMeeting /\ Proceed(w, [mtx[w] EXCEPT !.step = "inserted"])
        \/ meeting[m] # NoMeeting /\ Proceed(w, NoTx)
     /\ RowsUnchanged /\ UNCHANGED invitable
     /\ ProvidersUnchanged

\* The calendar creates one more event for m.
CreateEvent(m) ==
  /\ bookings' = [bookings EXCEPT ![m] = @ + 1]
  /\ calendar' = calendar \cup {<<m, bookings[m] + 1>>}
  /\ UNCHANGED crmOutcome

\* client.create_event: it returns an event, or raises with or without having made one.
BookCall(w) ==
  LET m == mtx[w].meeting
      enr == mtx[w].enr
  IN /\ mtx[w].step = "inserted"
     /\ bookings[m] < MaxBookings
     /\ \/ /\ CreateEvent(m)
           /\ Proceed(w, [mtx[w] EXCEPT
                !.step = "booked",
                !.row.event = bookings[m] + 1,
                !.keys = {<<"meeting.booked", m>>} \cup
                  IF enr.active THEN {<<"sequence.completed", enr.version + 1>>} ELSE {}])
           /\ RowsUnchanged /\ UNCHANGED invitable
        \/ /\ CreateEvent(m) \/ ProvidersUnchanged
           /\ MeetingRollback(w)

\* _complete_sequence_for_meeting, when the enrollment was read as active.
CompleteSequence(enr) ==
  enrollment' = IF enr.active THEN [active |-> FALSE, version |-> enr.version + 1]
                              ELSE enrollment

BookCommit(w) ==
  /\ mtx[w].step = "booked"
  /\ ProvidersUnchanged
  /\ \/ /\ KeysFree(mtx[w].keys, published)
        /\ meeting' = [meeting EXCEPT ![mtx[w].meeting] = mtx[w].row]
        /\ published' = published \cup mtx[w].keys
        /\ CompleteSequence(mtx[w].enr)
        /\ Proceed(w, NoTx)
        /\ UNCHANGED <<followUp, packet, invitable>>
     \/ /\ ~KeysFree(mtx[w].keys, published)
        /\ MeetingRollback(w)
-----------------------------------------------------------------------------
(* Canceling *)

Existing(m) == meeting[m] # NoMeeting /\ meeting[m].version < MaxVersion

\* cancel_meeting reads the meeting, whatever its status.
CancelRead(w, m) ==
  /\ mtx[w] = NoTx
  /\ Existing(m)
  /\ Proceed(w, MeetingTx("canceling", m, meeting[m],
                          [meeting[m] EXCEPT !.status = "canceled",
                                             !.outcome = "disqualified",
                                             !.version = @ + 1],
                          NoTasks, NoTasks, NoEnrollment, {}))
  /\ RowsUnchanged /\ ProvidersUnchanged /\ UNCHANGED invitable

\* Mutant of CancelCall: an error of the provider is taken for a missing event.
CancelCallIgnored(w) ==
  LET e == <<mtx[w].meeting, mtx[w].row.event>>
  IN /\ mtx[w].step = "canceling"
     /\ calendar' = calendar \ {e} \/ calendar' = calendar
     /\ Proceed(w, [mtx[w] EXCEPT !.step = "unbooked"])
     /\ RowsUnchanged /\ UNCHANGED <<bookings, crmOutcome, invitable>>

\* client.cancel_event: a missing event and every other error end the request.
CancelCall(w) ==
  LET e == <<mtx[w].meeting, mtx[w].row.event>>
  IN /\ mtx[w].step = "canceling"
     /\ UNCHANGED <<bookings, crmOutcome>>
     /\ \/ /\ e \in calendar
           /\ calendar' = calendar \ {e}
           /\ Proceed(w, [mtx[w] EXCEPT !.step = "unbooked"])
           /\ RowsUnchanged /\ UNCHANGED invitable
        \/ /\ calendar' = calendar \ {e} \/ calendar' = calendar
           /\ MeetingRollback(w)

CancelCommit(w) ==
  LET m == mtx[w].meeting
  IN /\ mtx[w].step = "unbooked"
     /\ ~Held(m)
     /\ meeting' = [meeting EXCEPT ![m] = Merge(mtx[w].seen, mtx[w].row, @)]
     /\ Proceed(w, NoTx)
     /\ ProvidersUnchanged
     /\ UNCHANGED <<followUp, packet, published, enrollment, invitable>>
-----------------------------------------------------------------------------
(* Outcomes and CRM sync *)

OutcomeEvent(m, k) == <<"meeting.outcome_recorded", m, k>>
SyncedEvent(m, version) == <<"crm.synced:meeting", m, version>>

\* The tasks of m once those in fs are there too (_create_follow_up_tasks).
WithFollowUps(m, fs) ==
  [f \in FollowUp |-> IF f \in fs /\ followUp[m][f] = "none" THEN "pending"
                                                             ELSE followUp[m][f]]

\* record_meeting_outcome reads the meeting; a key that was recorded changes nothing.
OutcomeRead(w, m, k, outcome, fs) ==
  /\ mtx[w] = NoTx
  /\ Existing(m)
  /\ OutcomeEvent(m, k) \notin published
  /\ Proceed(w, MeetingTx("recording", m, meeting[m],
       [meeting[m] EXCEPT
          !.status = IF outcome = "rescheduled" THEN "scheduled" ELSE "completed",
          !.outcome = outcome, !.version = @ + 1],
       followUp[m], WithFollowUps(m, fs), NoEnrollment,
       {OutcomeEvent(m, k)} \cup {<<"meeting.follow_up_task_created", m, f>> : f \in fs}))
  /\ RowsUnchanged /\ ProvidersUnchanged /\ UNCHANGED invitable

\* The flush of the row and of new tasks; a task somebody else has added fails it.
OutcomeFlush(w) ==
  LET m == mtx[w].meeting
      added == {f \in FollowUp : mtx[w].tseen[f] # mtx[w].tasks[f]}
  IN /\ mtx[w].step = "recording"
     /\ ~Held(m)
     /\ \/ /\ \A f \in added : followUp[m][f] = "none"
           /\ Proceed(w, [mtx[w] EXCEPT !.step = "recorded"])
        \/ /\ \E f \in added : followUp[m][f] # "none"
           /\ Proceed(w, NoTx)
     /\ RowsUnchanged /\ ProvidersUnchanged /\ UNCHANGED invitable

\* retry_meeting_crm_sync reads the meeting; nothing is flushed before the call.
RetrySyncRead(w, m) ==
  /\ mtx[w] = NoTx
  /\ Existing(m)
  /\ Proceed(w, MeetingTx("retrying", m, meeting[m], meeting[m],
                          followUp[m], followUp[m], NoEnrollment, {}))
  /\ RowsUnchanged /\ ProvidersUnchanged /\ UNCHANGED invitable

\* Every task of the meeting takes the status of its sync.
TasksSynced(tasks, status) ==
  [f \in FollowUp |-> IF tasks[f] = "none" THEN "none" ELSE status]

AfterSync(step) == IF step = "recorded" THEN "synced" ELSE "resynced"

\* The CRM took the plan of the meeting as the transaction holds it.
SyncSucceeds(w) ==
  /\ crmOutcome' = [crmOutcome EXCEPT ![mtx[w].meeting] = mtx[w].row.outcome]
  /\ Proceed(w, [mtx[w] EXCEPT
       !.step = AfterSync(@), !.row.sync = "succeeded",
       !.tasks = TasksSynced(@, "succeeded"),
       !.keys = @ \cup {SyncedEvent(mtx[w].meeting, mtx[w].row.version)}])
  /\ RowsUnchanged

\* CrmProviderError or ValueError is recorded; a retryable one also in the status.
SyncFails(w) ==
  /\ \E retryable \in BOOLEAN :
       LET sync == IF retryable THEN "failed_retryable" ELSE "failed_terminal"
       IN Proceed(w, [mtx[w] EXCEPT
            !.step = AfterSync(@), !.row.sync = sync,
            !.row.status = IF retryable THEN "failed_sync" ELSE @,
            !.tasks = TasksSynced(@, sync)])
  /\ RowsUnchanged /\ UNCHANGED crmOutcome

\* A transport error is not caught; the CRM may have taken the plan.
SyncTimesOut(w) ==
  /\ Proceed(w, NoTx)
  /\ RowsUnchanged
  /\ \/ crmOutcome' = [crmOutcome EXCEPT ![mtx[w].meeting] = mtx[w].row.outcome]
     \/ UNCHANGED crmOutcome

\* Mutant of SyncCall: whatever is not an answer is taken for a success.
SyncCallOptimistic(w) ==
  /\ mtx[w].step \in {"recorded", "retrying"}
  /\ UNCHANGED <<calendar, bookings, invitable, crmOutcome>>
  /\ Proceed(w, [mtx[w] EXCEPT
       !.step = AfterSync(@), !.row.sync = "succeeded",
       !.tasks = TasksSynced(@, "succeeded")])
  /\ RowsUnchanged

\* _sync_meeting_to_crm
SyncCall(w) ==
  /\ mtx[w].step \in {"recorded", "retrying"}
  /\ UNCHANGED <<calendar, bookings, invitable>>
  /\ SyncSucceeds(w) \/ SyncFails(w) \/ SyncTimesOut(w)

\* The commit of an outcome or of a retry.
SyncCommit(w) ==
  LET m == mtx[w].meeting
  IN /\ mtx[w].step \in {"synced", "resynced"}
     /\ mtx[w].step = "resynced" => ~Held(m)
     /\ ProvidersUnchanged
     /\ \/ /\ KeysFree(mtx[w].keys, published)
           /\ meeting' = [meeting EXCEPT ![m] = Merge(mtx[w].seen, mtx[w].row, @)]
           /\ followUp' = [followUp EXCEPT ![m] = Merge(mtx[w].tseen, mtx[w].tasks, @)]
           /\ published' = published \cup mtx[w].keys
           /\ Proceed(w, NoTx)
           /\ UNCHANGED <<packet, enrollment, invitable>>
        \/ /\ ~KeysFree(mtx[w].keys, published)
           /\ MeetingRollback(w)
-----------------------------------------------------------------------------
(* Prep packets *)

\* generate_meeting_prep_packet.  A keyless request returns the latest packet, if any;
\* a key that any meeting's packet has is returned or, seen too late, fails the insert.
GeneratePrepPacket(w, m, k) ==
  /\ mtx[w] = NoTx
  /\ meeting[m] # NoMeeting
  /\ k = "none" => packet[m] = {}
  /\ k # "none" => \A other \in Meeting : k \notin packet[other]
  /\ packet' = [packet EXCEPT ![m] = @ \cup {k}]
  /\ ProvidersUnchanged
  /\ UNCHANGED <<meeting, followUp, published, enrollment, invitable, mtx>>
-----------------------------------------------------------------------------
(* What happens around the meetings *)

\* The target stops or starts to be exported, an attendee to be suppressed.
InvitationPolicyChanges ==
  /\ invitable' = ~invitable
  /\ RowsUnchanged /\ ProvidersUnchanged /\ UNCHANGED mtx

\* The sequencing service completes the enrollment and publishes that.
EnrollmentCompletes ==
  /\ enrollment.active
  /\ enrollment' = [active |-> FALSE, version |-> enrollment.version + 1]
  /\ published' = published \cup {<<"sequence.completed", enrollment.version + 1>>}
  /\ ProvidersUnchanged
  /\ UNCHANGED <<meeting, followUp, packet, invitable, mtx>>

\* The process serving a request dies.
MeetingRequestDies(w) ==
  /\ DieRequests
  /\ mtx[w] # NoTx
  /\ MeetingRollback(w)
  /\ ProvidersUnchanged

\* The routes of the meeting service; whatever they refuse changes nothing.
meeting_create(w) == \E m \in Meeting, enrolled \in BOOLEAN : BookRead(w, m, enrolled)
meeting_cancel(w) == \E m \in Meeting : CancelRead(w, m)
meeting_record_outcome(w) ==
  \E m \in Meeting, k \in OutcomeKey, outcome \in Outcome, fs \in SUBSET FollowUp :
    OutcomeRead(w, m, k, outcome, fs)
meeting_retry_sync(w) == \E m \in Meeting : RetrySyncRead(w, m)
meeting_generate_prep_packet(w) ==
  \E m \in Meeting, k \in PacketKey \cup {"none"} : GeneratePrepPacket(w, m, k)

MeetingProgress(w) ==
  \/ BookInsert(w) \/ BookCall(w) \/ BookCommit(w)
  \/ CancelCall(w) \/ CancelCommit(w)
  \/ OutcomeFlush(w) \/ SyncCall(w) \/ SyncCommit(w)

MeetingsNext ==
  \/ \E w \in MeetingWorker :
       \/ meeting_create(w) \/ meeting_cancel(w) \/ meeting_record_outcome(w)
       \/ meeting_retry_sync(w) \/ meeting_generate_prep_packet(w)
       \/ MeetingProgress(w)
       \/ MeetingRequestDies(w)
  \/ InvitationPolicyChanges
  \/ EnrollmentCompletes

MeetingsSpec == MeetingsInit /\ [][MeetingsNext]_mvars
-----------------------------------------------------------------------------
(* Properties *)

(***************************************************************************)
(* Requests with the same key book once: when a meeting exists, its row    *)
(* names the last event created for it, so that no request that overlapped *)
(* or repeated the booking has invited the attendees again.                *)
(***************************************************************************)
BookedOnce ==
  \A m \in Meeting : meeting[m] # NoMeeting => bookings[m] = meeting[m].event

(***************************************************************************)
(* A canceled meeting has left the calendar, whatever other requests wrote *)
(* to its row meanwhile.                                                   *)
(***************************************************************************)
CanceledIsUnbooked ==
  \A m \in Meeting :
    meeting[m].status = "canceled" => <<m, meeting[m].event>> \notin calendar

(***************************************************************************)
(* A meeting or a follow-up task that is marked as synced has reached the  *)
(* CRM, also when outcomes and retries overlap, fail and roll back.        *)
(***************************************************************************)
SyncedReachedCrm ==
  \A m \in Meeting :
    (meeting[m].sync = "succeeded" \/ \E f \in FollowUp : followUp[m][f] = "succeeded")
      => crmOutcome[m] # "absent"

(***************************************************************************)
(* An outcome request is applied at most once: a request that finds at its *)
(* commit that the outcome event of its key exists leaves the row alone.   *)
(***************************************************************************)
OutcomeAppliedOnce ==
  [][\A w \in MeetingWorker :
       mtx[w].step = "synced" /\ mtx'[w] = NoTx /\ ~KeysFree(mtx[w].keys, published)
         => meeting' = meeting /\ followUp' = followUp]_mvars

\* What the calendar and the CRM have done for a meeting, and what its row says they have.
ProviderEffects == INSTANCE OutsideEffects WITH
  Effect <- ({"event"} \X Meeting \X (1..MaxBookings)) \cup ({"sync"} \X Meeting),
  performed <- {e \in {"event"} \X Meeting \X (1..MaxBookings) : e[3] <= bookings[e[2]]}
                 \cup {e \in {"sync"} \X Meeting : crmOutcome[e[2]] # "absent"},
  claimed <- {<<"event", m, meeting[m].event>> : m \in {n \in Meeting : meeting[n] # NoMeeting}}
               \cup {e \in {"sync"} \X Meeting : meeting[e[2]].sync = "succeeded"}

(***************************************************************************)
(* Calls and commits are separate steps, and no row claims a calendar      *)
(* event or a synced meeting before the provider had it (lifecycle.py:129, *)
(* crm_sync.py:83).                                                        *)
(***************************************************************************)
CallsThenClaims == ProviderEffects!Spec
=============================================================================
