--------------------------- MODULE HandoffProofs ----------------------------
(***************************************************************************)
(* Targets handed to sales: proofs about Meetings and CrmExport, for any   *)
(* number of meetings, targets, batches and requests.  Meetings are booked *)
(* once, leave the calendar when they are canceled, and rows claim only    *)
(* what providers have.  What an export records as succeeded is at the     *)
(* provider and, unless operators take it back, marked on the target; a    *)
(* completed batch is settled when requests do not overlap.                *)
(***************************************************************************)
EXTENDS CrmExport, Meetings, TLAPS
-----------------------------------------------------------------------------
(***************************************************************************)
(* Meetings.  BookedOnce and CanceledIsUnbooked speak of committed rows;   *)
(* inductive is what every open transaction holds: one that has inserted   *)
(* a row is alone on a key without a meeting, and every other one holds    *)
(* the event of the committed row, so that its UPDATE leaves it.           *)
(***************************************************************************)

\* The columns of a meeting row.
MeetingColumns(r) ==
  /\ DOMAIN r = {"status", "outcome", "sync", "event", "version"}
  /\ r.status \in MeetingStatus \cup {"none"}
  /\ r.outcome \in MeetingOutcomeStatus \cup {"none"}
  /\ r.event \in Nat /\ r.version \in Nat

\* A committed row of m: its event is the last one created for m, and has left the calendar
\* when the row says it is canceled; a synced row is one the CRM was told of.
MeetingFacts(m, r) ==
  /\ MeetingColumns(r)
  /\ r.status = "none" => r = NoMeeting
  /\ r.status # "none" => bookings[m] = r.event /\ r.event > 0
  /\ r.status = "canceled" => <<m, r.event>> \notin calendar
  /\ r.sync = "succeeded" => crmOutcome[m] # "absent"

\* The steps that book, and the steps of transactions on a meeting that is there.
BookSteps == {"booking", "inserted", "booked"}
\* The steps of requests on a meeting that is there.
KeepSteps == {"canceling", "unbooked", "recording", "recorded", "retrying", "synced", "resynced"}

\* What every open request holds.
TxColumns(t) ==
  /\ DOMAIN t = {"step", "meeting", "seen", "row", "tseen", "tasks", "enr", "keys"}
  /\ t.step \in BookSteps \cup KeepSteps
  /\ t.meeting \in Meeting
  /\ MeetingColumns(t.seen) /\ MeetingColumns(t.row)
  /\ DOMAIN t.tseen = FollowUp /\ DOMAIN t.tasks = FollowUp

\* A booking: the key has no meeting once the row is flushed, and the row names the event.
BookFacts(t) ==
  t.step \in BookSteps =>
    /\ t.row.status = "scheduled" /\ t.row.sync = "pending"
    /\ t.step # "booking" => meeting[t.meeting] = NoMeeting
    /\ t.step = "booked" => t.row.event = bookings[t.meeting] /\ t.row.event > 0

\* A transaction on a meeting that is there leaves its event, cancels only what has left the
\* calendar and calls synced only what the CRM was told.
KeepFacts(t) ==
  t.step \in KeepSteps =>
    /\ meeting[t.meeting].status # "none"
    /\ t.seen.event = meeting[t.meeting].event /\ t.row.event = meeting[t.meeting].event
    /\ t.seen.status # "none" /\ t.row.status # "none"
    /\ t.step \notin {"canceling", "unbooked"} /\ t.row.status = "canceled"
         => t.seen.status = "canceled"
    /\ t.step = "unbooked" => <<t.meeting, t.row.event>> \notin calendar
    /\ t.row.sync = "succeeded" => crmOutcome[t.meeting] # "absent"
    /\ \A f \in FollowUp : t.tasks[f] = "succeeded" => crmOutcome[t.meeting] # "absent"

\* What is known of a worker: no request, or one at a step of its kind.
MeetingTxFacts(t) == t = NoTx \/ (TxColumns(t) /\ BookFacts(t) /\ KeepFacts(t))

\* Is t a transaction that holds the row of m?
Holds(t, m) == t # NoTx /\ t.step \in FLUSHED /\ t.meeting = m

\* The inductive invariant of the meetings.
MeetingsInv ==
  /\ DOMAIN meeting = Meeting /\ DOMAIN followUp = Meeting
  /\ bookings \in [Meeting -> 0..MaxBookings] /\ DOMAIN crmOutcome = Meeting
  /\ DOMAIN mtx = MeetingWorker
  /\ \A m \in Meeting : MeetingFacts(m, meeting[m])
  /\ \A m \in Meeting : /\ DOMAIN followUp[m] = FollowUp
                        /\ \A f \in FollowUp :
                             followUp[m][f] = "succeeded" => crmOutcome[m] # "absent"
  /\ \A w \in MeetingWorker : MeetingTxFacts(mtx[w])
  /\ \A m \in Meeting : \A w, v \in MeetingWorker :
       Holds(mtx[w], m) /\ Holds(mtx[v], m) => w = v

\* What a call to the calendar or the CRM may change.
ProvidersMove ==
  /\ bookings' \in [Meeting -> 0..MaxBookings] /\ DOMAIN crmOutcome' = Meeting
  /\ \A m \in Meeting : meeting[m].status # "none" =>
       /\ bookings'[m] = bookings[m]
       /\ \A e : <<m, e>> \in calendar' => <<m, e>> \in calendar
  /\ \A m \in Meeting : crmOutcome[m] # "absent" => crmOutcome'[m] # "absent"

\* Before the first request nothing is booked and no transaction is open.
LEMMA MeetingsInitial == MeetingsInit => MeetingsInv
<1>. SUFFICES ASSUME MeetingsInit PROVE MeetingsInv
  BY Zenon
<1>1. \A m \in Meeting : MeetingFacts(m, meeting[m])
  BY MeetingsAssumption, Zenon DEF MeetingsInit, MeetingFacts, MeetingColumns, NoMeeting, NoEvent
<1>2. \A w \in MeetingWorker : MeetingTxFacts(mtx[w])
  BY Zenon DEF MeetingsInit, MeetingTxFacts
<1>3. \A w \in MeetingWorker : mtx[w] = NoTx
  BY Zenon DEF MeetingsInit
<1>4. bookings \in [Meeting -> 0..MaxBookings]
  BY MeetingsAssumption DEF MeetingsInit
<1>. QED
  BY <1>1, <1>2, <1>3, <1>4, Zenon DEF MeetingsInit, MeetingsInv, Holds, NoTasks

\* A step that commits no meeting: worker w goes on to t, the providers may have moved.
LEMMA TxMoves ==
  ASSUME MeetingsInv, NEW w \in MeetingWorker, NEW t, Proceed(w, t),
         UNCHANGED <<meeting, followUp>>, ProvidersMove, MeetingTxFacts(t)',
         \A v \in MeetingWorker \ {w} : mtx[v].step = "booked" =>
           bookings'[mtx[v].meeting] = bookings[mtx[v].meeting],
         \A m \in Meeting : Holds(t, m) => \A v \in MeetingWorker \ {w} : ~Holds(mtx[v], m)
  PROVE  MeetingsInv'
<1>1. \A v \in MeetingWorker : mtx'[v] = IF v = w THEN t ELSE mtx[v]
  BY Zenon DEF Proceed, MeetingsInv
<1>2. \A m \in Meeting : MeetingFacts(m, meeting[m])'
  BY DEF MeetingsInv, MeetingFacts, MeetingColumns, ProvidersMove
<1>3. ASSUME NEW v \in MeetingWorker, v # w PROVE MeetingTxFacts(mtx[v])'
  <2>1. mtx'[v] = mtx[v] /\ MeetingTxFacts(mtx[v])
    BY <1>1, <1>3, Zenon DEF MeetingsInv
  <2>2. CASE mtx[v] = NoTx
    BY <2>1, <2>2, Zenon DEF MeetingTxFacts
  <2>3. CASE mtx[v] # NoTx
    <3>1. TxColumns(mtx[v]) /\ BookFacts(mtx[v]) /\ KeepFacts(mtx[v])
      BY <2>1, <2>3, Zenon DEF MeetingTxFacts
    <3>2. mtx[v].meeting \in Meeting
      BY <3>1, Zenon DEF TxColumns
    <3>3. BookFacts(mtx[v])'
      BY <1>3, <2>1, <3>1, <3>2, Zenon DEF BookFacts
    <3>4. KeepFacts(mtx[v])'
      BY <2>1, <3>1, <3>2, Zenon DEF KeepFacts, ProvidersMove
    <3>5. TxColumns(mtx[v])'
      BY <2>1, <3>1, Zenon DEF TxColumns
    <3>. QED
      BY <3>3, <3>4, <3>5, Zenon DEF MeetingTxFacts
  <2>. QED
    BY <2>2, <2>3, Zenon
<1>4. MeetingTxFacts(mtx[w])'
  BY <1>1, Zenon
<1>5. ASSUME NEW m \in Meeting, NEW u \in MeetingWorker, NEW v \in MeetingWorker,
             Holds(mtx[u], m)', Holds(mtx[v], m)'
      PROVE  u = v
  <2>1. ASSUME NEW x \in MeetingWorker, x # w, Holds(mtx[x], m)' PROVE Holds(mtx[x], m)
    BY <1>1, <2>1, Zenon DEF Holds
  <2>2. Holds(mtx[w], m)' => Holds(t, m)
    BY <1>1, Zenon DEF Holds
  <2>. QED
    BY <1>5, <2>1, <2>2, Zenon DEF MeetingsInv
<1>. QED
  BY <1>1, <1>2, <1>3, <1>4, <1>5, Zenon DEF MeetingsInv, ProvidersMove, Proceed

\* The commit of worker w: the row r of m is written, by an UPDATE that leaves its event or by
\* the booking that held the key.
LEMMA MeetingCommits ==
  ASSUME MeetingsInv, NEW w \in MeetingWorker, mtx[w] # NoTx, NEW m \in Meeting, NEW r,
         Proceed(w, NoTx), ProvidersUnchanged,
         meeting' = [meeting EXCEPT ![m] = r], MeetingFacts(m, r), r.status # "none",
         meeting[m].status # "none" => r.event = meeting[m].event,
         meeting[m].status = "none" => Holds(mtx[w], m),
         DOMAIN followUp' = Meeting,
         \A n \in Meeting : /\ DOMAIN followUp'[n] = FollowUp
                            /\ \A f \in FollowUp :
                                 followUp'[n][f] = "succeeded" => crmOutcome[n] # "absent"
  PROVE  MeetingsInv'
<1>1. \A v \in MeetingWorker : mtx'[v] = IF v = w THEN NoTx ELSE mtx[v]
  BY Zenon DEF Proceed, MeetingsInv
<1>2. /\ \A n \in Meeting : meeting'[n] = IF n = m THEN r ELSE meeting[n]
      /\ DOMAIN meeting' = Meeting
      /\ UNCHANGED <<calendar, bookings, crmOutcome>>
  BY Zenon DEF MeetingsInv, ProvidersUnchanged
<1>3. \A n \in Meeting : MeetingFacts(n, meeting[n])'
  BY <1>2, Zenon DEF MeetingsInv, MeetingFacts
<1>4. ASSUME NEW v \in MeetingWorker, v # w, mtx[v] # NoTx PROVE MeetingTxFacts(mtx[v])'
  <2>1. mtx'[v] = mtx[v] /\ MeetingTxFacts(mtx[v])
    BY <1>1, <1>4, Zenon DEF MeetingsInv
  <2>2. TxColumns(mtx[v]) /\ BookFacts(mtx[v]) /\ KeepFacts(mtx[v])
    BY <1>4, <2>1, Zenon DEF MeetingTxFacts
  <2>3. mtx[v].meeting \in Meeting
    BY <2>2, Zenon DEF TxColumns
  <2>4. TxColumns(mtx[v])'
    BY <2>1, <2>2, Zenon DEF TxColumns
  <2>5. BookFacts(mtx[v])'
    <3>1. mtx[v].step \in {"inserted", "booked"} => mtx[v].meeting # m
      <4>. SUFFICES ASSUME mtx[v].step \in {"inserted", "booked"}, mtx[v].meeting = m PROVE FALSE
        BY Zenon
      <4>1. meeting[m].status = "none"
        BY <2>2 DEF BookFacts, BookSteps, NoMeeting
      <4>2. Holds(mtx[v], m) /\ Holds(mtx[w], m)
        BY <1>4, <4>1, Zenon DEF Holds, FLUSHED
      <4>. QED
        BY <1>4, <4>2, Zenon DEF MeetingsInv
    <3>. QED
      BY <1>2, <2>1, <2>2, <2>3, <3>1, Zenon DEF BookFacts, BookSteps
  <2>6. KeepFacts(mtx[v])'
    BY <1>2, <2>1, <2>2, <2>3, ZenonT(60) DEF KeepFacts
  <2>. QED
    BY <2>4, <2>5, <2>6, Zenon DEF MeetingTxFacts
<1>5. \A v \in MeetingWorker : MeetingTxFacts(mtx[v])'
  BY <1>1, <1>4, Zenon DEF MeetingTxFacts
<1>6. \A n \in Meeting : \A u, v \in MeetingWorker : Holds(mtx[u], n)' /\ Holds(mtx[v], n)' => u = v
  BY <1>1 DEF Holds, MeetingsInv
<1>. QED
  BY <1>1, <1>2, <1>3, <1>5, <1>6, Zenon DEF MeetingsInv, Proceed

\* Providers that were not called have not moved.
LEMMA ProvidersStay ==
  ASSUME MeetingsInv, UNCHANGED <<calendar, bookings, crmOutcome>>
  PROVE  /\ ProvidersMove
         /\ \A v \in MeetingWorker : bookings'[mtx[v].meeting] = bookings[mtx[v].meeting]
BY Zenon DEF MeetingsInv, ProvidersMove

\* A transaction that ends without a commit leaves what the providers did.
LEMMA TxEnds ==
  ASSUME MeetingsInv, NEW w \in MeetingWorker, Proceed(w, NoTx),
         UNCHANGED <<meeting, followUp>>, ProvidersMove,
         \A v \in MeetingWorker \ {w} : mtx[v].step = "booked" =>
           bookings'[mtx[v].meeting] = bookings[mtx[v].meeting]
  PROVE  MeetingsInv'
<1>1. MeetingTxFacts(NoTx)' /\ \A m \in Meeting : ~Holds(NoTx, m)
  BY Zenon DEF MeetingTxFacts, Holds
<1>. DEFINE t == NoTx
<1>. HIDE DEF t
<1>2. Proceed(w, t) /\ MeetingTxFacts(t)' /\ \A m \in Meeting : ~Holds(t, m)
  BY <1>1, Zenon DEF t
<1>. QED
  BY <1>2, TxMoves, Zenon

\* The transactions that begin with a read.
LEMMA TxReads ==
  ASSUME MeetingsInv, NEW w \in MeetingWorker, NEW t, Proceed(w, t), RowsUnchanged,
         ProvidersUnchanged, TxColumns(t), t.step \notin FLUSHED,
         t.step = "booking" => t.row.status = "scheduled" /\ t.row.sync = "pending",
         t.step # "booking" =>
           /\ t.step \in KeepSteps \ {"unbooked"}
           /\ t.seen = meeting[t.meeting] /\ t.seen.status # "none"
           /\ t.row.status # "none" /\ t.row.event = t.seen.event /\ t.row.sync = t.seen.sync
           /\ t.step # "canceling" /\ t.row.status = "canceled" => t.seen.status = "canceled"
           /\ \A f \in FollowUp : t.tasks[f] = "succeeded" => followUp[t.meeting][f] = "succeeded"
  PROVE  MeetingsInv'
<1>1. /\ UNCHANGED <<meeting, followUp, calendar, bookings, crmOutcome>>
      /\ t.meeting \in Meeting
  BY Zenon DEF RowsUnchanged, ProvidersUnchanged, TxColumns
<1>2. BookFacts(t)'
  BY Zenon DEF BookFacts, BookSteps, KeepSteps, FLUSHED, TxColumns
<1>3. KeepFacts(t)'
  BY <1>1, Zenon DEF KeepFacts, KeepSteps, MeetingsInv, MeetingFacts
<1>4. MeetingTxFacts(t)'
  BY <1>2, <1>3, Zenon DEF MeetingTxFacts, TxColumns
<1>5. \A m \in Meeting : ~Holds(t, m)
  BY Zenon DEF Holds
<1>. QED
  BY <1>1, <1>4, <1>5, ProvidersStay, TxMoves, Zenon

\* A booking request reads its key.
LEMMA BookReadStep ==
  ASSUME MeetingsInv, NEW w \in MeetingWorker, NEW m \in Meeting, NEW enrolled \in BOOLEAN,
         BookRead(w, m, enrolled)
  PROVE  MeetingsInv'
<1>. DEFINE t == MeetingTx("booking", m, NoMeeting,
                          [NoMeeting EXCEPT !.status = "scheduled", !.version = 1],
                          NoTasks, NoTasks, IF enrolled THEN enrollment ELSE NoEnrollment, {})
<1>1. Proceed(w, t) /\ RowsUnchanged /\ ProvidersUnchanged
  BY Zenon DEF BookRead
<1>2. TxColumns(t) /\ t.step = "booking" /\ t.row.status = "scheduled" /\ t.row.sync = "pending"
  BY Zenon DEF TxColumns, MeetingTx, MeetingColumns, NoMeeting, NoEvent, NoTasks, BookSteps,
         MeetingStatus, MeetingOutcomeStatus
<1>3. t.step \notin FLUSHED
  BY <1>2, Zenon DEF FLUSHED
<1>. HIDE DEF t
<1>. QED
  BY <1>1, <1>2, <1>3, TxReads, Zenon

\* A meeting that a request finds.
LEMMA ExistingRow ==
  ASSUME MeetingsInv, NEW m \in Meeting, Existing(m)
  PROVE  /\ MeetingColumns(meeting[m]) /\ meeting[m].status # "none"
         /\ DOMAIN followUp[m] = FollowUp
BY Zenon DEF MeetingsInv, MeetingFacts, Existing

\* A cancellation reads its meeting.
LEMMA CancelReadStep ==
  ASSUME MeetingsInv, NEW w \in MeetingWorker, NEW m \in Meeting, CancelRead(w, m)
  PROVE  MeetingsInv'
<1>. DEFINE row == [meeting[m] EXCEPT !.status = "canceled", !.outcome = "disqualified",
                                      !.version = @ + 1]
            t == MeetingTx("canceling", m, meeting[m], row, NoTasks, NoTasks, NoEnrollment, {})
<1>1. Proceed(w, t) /\ RowsUnchanged /\ ProvidersUnchanged /\ Existing(m)
  BY Zenon DEF CancelRead
<1>2. MeetingColumns(meeting[m]) /\ meeting[m].status # "none"
  BY <1>1, ExistingRow, Zenon
<1>3. /\ MeetingColumns(row) /\ row.status = "canceled"
      /\ row.event = meeting[m].event /\ row.sync = meeting[m].sync
  BY <1>2 DEF MeetingColumns, MeetingStatus, MeetingOutcomeStatus
<1>. HIDE DEF row
<1>4. /\ TxColumns(t) /\ t.step = "canceling" /\ t.meeting = m /\ t.seen = meeting[m] /\ t.row = row
      /\ \A f \in FollowUp : t.tasks[f] = "none"
  BY <1>2, <1>3, Zenon DEF TxColumns, MeetingTx, NoTasks, KeepSteps
<1>. HIDE DEF t
<1>. QED
  BY <1>1, <1>2, <1>3, <1>4, TxReads, Zenon DEF KeepSteps, FLUSHED

\* An outcome reads its meeting.
LEMMA OutcomeReadStep ==
  ASSUME MeetingsInv, NEW w \in MeetingWorker, NEW m \in Meeting, NEW k, NEW outcome \in Outcome,
         NEW fs \in SUBSET FollowUp, OutcomeRead(w, m, k, outcome, fs)
  PROVE  MeetingsInv'
<1>. DEFINE row == [meeting[m] EXCEPT
               !.status = IF outcome = "rescheduled" THEN "scheduled" ELSE "completed",
               !.outcome = outcome, !.version = @ + 1]
            tasks == WithFollowUps(m, fs)
            keys == {OutcomeEvent(m, k)}
              \cup {<<"meeting.follow_up_task_created", m, f>> : f \in fs}
            t == MeetingTx("recording", m, meeting[m], row, followUp[m], tasks, NoEnrollment, keys)
<1>1. Proceed(w, t) /\ RowsUnchanged /\ ProvidersUnchanged /\ Existing(m)
  BY Zenon DEF OutcomeRead
<1>2. MeetingColumns(meeting[m]) /\ meeting[m].status # "none" /\ DOMAIN followUp[m] = FollowUp
  BY <1>1, ExistingRow, Zenon
<1>3. outcome \in MeetingOutcomeStatus
  BY MeetingsAssumption, Zenon DEF MeetingOutcomeStatus
<1>4. /\ MeetingColumns(row) /\ row.status \in {"scheduled", "completed"}
      /\ row.event = meeting[m].event /\ row.sync = meeting[m].sync
  BY <1>2, <1>3 DEF MeetingColumns, MeetingStatus
<1>5. /\ DOMAIN tasks = FollowUp
      /\ \A f \in FollowUp : tasks[f] = "succeeded" => followUp[m][f] = "succeeded"
  BY Zenon DEF WithFollowUps
<1>. HIDE DEF row, tasks, keys
<1>6. /\ TxColumns(t) /\ t.step = "recording" /\ t.meeting = m /\ t.seen = meeting[m] /\ t.row = row
      /\ t.tasks = tasks
  BY <1>2, <1>4, <1>5, Zenon DEF TxColumns, MeetingTx, KeepSteps
<1>. HIDE DEF t
<1>. QED
  BY <1>1, <1>2, <1>4, <1>5, <1>6, TxReads, Zenon DEF KeepSteps, FLUSHED

\* A retry of the CRM write reads its meeting.
LEMMA RetrySyncReadStep ==
  ASSUME MeetingsInv, NEW w \in MeetingWorker, NEW m \in Meeting, RetrySyncRead(w, m)
  PROVE  MeetingsInv'
<1>. DEFINE t == MeetingTx("retrying", m, meeting[m], meeting[m], followUp[m], followUp[m],
                           NoEnrollment, {})
<1>1. Proceed(w, t) /\ RowsUnchanged /\ ProvidersUnchanged /\ Existing(m)
  BY Zenon DEF RetrySyncRead
<1>2. MeetingColumns(meeting[m]) /\ meeting[m].status # "none" /\ DOMAIN followUp[m] = FollowUp
  BY <1>1, ExistingRow, Zenon
<1>3. /\ TxColumns(t) /\ t.step = "retrying" /\ t.meeting = m /\ t.seen = meeting[m]
      /\ t.row = meeting[m] /\ t.tasks = followUp[m]
  BY <1>2, Zenon DEF TxColumns, MeetingTx, KeepSteps
<1>. HIDE DEF t
<1>. QED
  BY <1>1, <1>2, <1>3, TxReads, Zenon DEF KeepSteps, FLUSHED

\* What is known of a transaction that has reached a step.
LEMMA TxKnown ==
  ASSUME MeetingsInv, NEW w \in MeetingWorker, mtx[w] # NoTx
  PROVE  /\ TxColumns(mtx[w]) /\ BookFacts(mtx[w]) /\ KeepFacts(mtx[w])
         /\ mtx[w].meeting \in Meeting
BY Zenon DEF MeetingsInv, MeetingTxFacts, TxColumns

\* A flush waits until nobody holds the row.
LEMMA NobodyHolds ==
  ASSUME NEW m, ~Held(m), NEW v \in MeetingWorker
  PROVE  ~Holds(mtx[v], m)
BY Zenon DEF Held, Holds

\* The booking flushes its row before it calls anybody.
LEMMA BookInsertStep ==
  ASSUME MeetingsInv, NEW w \in MeetingWorker, BookInsert(w)
  PROVE  MeetingsInv'
<1>. DEFINE m == mtx[w].meeting
<1>0. PICK t : t = [mtx[w] EXCEPT !.step = "inserted"]
  BY Zenon
<1>1. /\ mtx[w].step = "booking" /\ ~Held(m) /\ UNCHANGED <<meeting, followUp>>
      /\ UNCHANGED <<calendar, bookings, crmOutcome>>
      /\ (meeting[m] = NoMeeting /\ Proceed(w, t)) \/ Proceed(w, NoTx)
  BY <1>0, Zenon DEF BookInsert, RowsUnchanged, ProvidersUnchanged
<1>2. CASE Proceed(w, NoTx)
  BY <1>1, <1>2, ProvidersStay, TxEnds, Zenon
<1>3. CASE meeting[m] = NoMeeting /\ Proceed(w, t)
  <2>1. mtx[w] # NoTx
    BY <1>1 DEF NoTx
  <2>2. TxColumns(mtx[w]) /\ BookFacts(mtx[w]) /\ m \in Meeting
    BY <2>1, TxKnown, Zenon
  <2>3. /\ TxColumns(t) /\ t.step = "inserted" /\ t.meeting = m /\ t.row = mtx[w].row
    BY <1>0, <2>2, Zenon DEF TxColumns, BookSteps
  <2>4. BookFacts(t)' /\ KeepFacts(t)'
    BY <1>1, <1>3, <2>2, <2>3, Zenon DEF BookFacts, KeepFacts, BookSteps, KeepSteps
  <2>5. MeetingTxFacts(t)'
    BY <2>3, <2>4, Zenon DEF MeetingTxFacts, TxColumns
  <2>6. \A n \in Meeting : Holds(t, n) => \A v \in MeetingWorker \ {w} : ~Holds(mtx[v], n)
    BY <1>1, <2>3, NobodyHolds, Zenon DEF Holds
  <2>. QED
    BY <1>1, <1>3, <2>5, <2>6, ProvidersStay, TxMoves, Zenon
<1>. QED
  BY <1>1, <1>2, <1>3, Zenon

\* An event is created only while its key is held by the booking that creates it.
LEMMA EventCreated ==
  ASSUME MeetingsInv, NEW w \in MeetingWorker, mtx[w].step = "inserted",
         bookings[mtx[w].meeting] < MaxBookings, CreateEvent(mtx[w].meeting) \/ ProvidersUnchanged
  PROVE  /\ ProvidersMove
         /\ \A v \in MeetingWorker \ {w} : mtx[v].step = "booked" =>
              bookings'[mtx[v].meeting] = bookings[mtx[v].meeting]
<1>. DEFINE m == mtx[w].meeting
<1>1. mtx[w] # NoTx
  BY DEF NoTx
<1>2. m \in Meeting /\ meeting[m] = NoMeeting
  BY <1>1, TxKnown, Zenon DEF BookFacts, BookSteps
<1>3. CASE ProvidersUnchanged
  BY <1>3, ProvidersStay, Zenon DEF ProvidersUnchanged
<1>4. CASE CreateEvent(m)
  <2>1. /\ bookings' = [bookings EXCEPT ![m] = @ + 1]
        /\ calendar' = calendar \cup {<<m, bookings[m] + 1>>}
        /\ UNCHANGED crmOutcome
    BY <1>4, Zenon DEF CreateEvent
  <2>2. /\ bookings' \in [Meeting -> 0..MaxBookings]
        /\ \A n \in Meeting : n # m => bookings'[n] = bookings[n]
    <3>1. bookings[m] + 1 \in 0..MaxBookings
      BY <1>2, MeetingsAssumption DEF MeetingsInv
    <3>. QED
      BY <1>2, <2>1, <3>1, Zenon DEF MeetingsInv
  <2>3. \A n \in Meeting : \A e : n # m /\ <<n, e>> \in calendar' => <<n, e>> \in calendar
    BY <2>1, Zenon
  <2>4. ProvidersMove
    BY <1>2, <2>1, <2>2, <2>3 DEF ProvidersMove, MeetingsInv, NoMeeting
  <2>5. ASSUME NEW v \in MeetingWorker \ {w}, mtx[v].step = "booked"
        PROVE  mtx[v].meeting \in Meeting \ {m}
    <3>1. mtx[v] # NoTx
      BY <2>5 DEF NoTx
    <3>. QED
      BY <1>1, <1>2, <2>5, <3>1, TxKnown, Zenon DEF MeetingsInv, Holds, FLUSHED
  <2>. QED
    BY <2>2, <2>4, <2>5, Zenon
<1>. QED
  BY <1>3, <1>4, Zenon

\* The calendar is asked for an event.
LEMMA BookCallStep ==
  ASSUME MeetingsInv, NEW w \in MeetingWorker, BookCall(w)
  PROVE  MeetingsInv'
<1>. DEFINE m == mtx[w].meeting
            enr == mtx[w].enr
<1>0. PICK keys : keys = {<<"meeting.booked", m>>} \cup
                  IF enr.active THEN {<<"sequence.completed", enr.version + 1>>} ELSE {}
  BY Zenon
<1>1. PICK t : t = [mtx[w] EXCEPT !.step = "booked", !.row.event = bookings[m] + 1, !.keys = keys]
  BY Zenon
<1>2. /\ mtx[w].step = "inserted" /\ UNCHANGED <<meeting, followUp>> /\ bookings[m] < MaxBookings
      /\ (CreateEvent(m) /\ Proceed(w, t)) \/
         ((CreateEvent(m) \/ ProvidersUnchanged) /\ Proceed(w, NoTx))
  BY <1>0, <1>1, Zenon DEF BookCall, RowsUnchanged, MeetingRollback
<1>3. mtx[w] # NoTx
  BY <1>2 DEF NoTx
<1>4. TxColumns(mtx[w]) /\ BookFacts(mtx[w]) /\ m \in Meeting
  BY <1>3, TxKnown, Zenon
<1>5. CASE (CreateEvent(m) \/ ProvidersUnchanged) /\ Proceed(w, NoTx)
  BY <1>2, <1>5, EventCreated, TxEnds, Zenon
<1>6. CASE CreateEvent(m) /\ Proceed(w, t)
  <2>1. bookings[m] \in Nat /\ bookings'[m] = bookings[m] + 1
    BY <1>4, <1>6 DEF CreateEvent, MeetingsInv
  <2>2. /\ TxColumns(t) /\ t.step = "booked" /\ t.meeting = m
        /\ t.row.status = mtx[w].row.status /\ t.row.sync = mtx[w].row.sync
        /\ t.row.event = bookings[m] + 1
    BY <1>1, <1>4, <2>1 DEF TxColumns, BookSteps, MeetingColumns
  <2>3. BookFacts(t)' /\ KeepFacts(t)'
    BY <1>2, <1>4, <2>1, <2>2 DEF BookFacts, KeepFacts, BookSteps, KeepSteps
  <2>4. MeetingTxFacts(t)'
    BY <2>2, <2>3, Zenon DEF MeetingTxFacts, TxColumns
  <2>5. \A n \in Meeting : Holds(t, n) => \A v \in MeetingWorker \ {w} : ~Holds(mtx[v], n)
    BY <1>2, <1>3, <1>4, <2>2, ZenonT(60) DEF Holds, FLUSHED, MeetingsInv
  <2>. QED
    BY <1>2, <1>6, <2>4, <2>5, EventCreated, TxMoves, Zenon
<1>. QED
  BY <1>2, <1>5, <1>6, Zenon

\* The booking commits what the calendar answered.
LEMMA BookCommitStep ==
  ASSUME MeetingsInv, NEW w \in MeetingWorker, BookCommit(w)
  PROVE  MeetingsInv'
<1>. DEFINE m == mtx[w].meeting
            r == mtx[w].row
<1>1. /\ mtx[w].step = "booked" /\ ProvidersUnchanged /\ Proceed(w, NoTx) /\ UNCHANGED followUp
      /\ meeting' = [meeting EXCEPT ![m] = r] \/ UNCHANGED meeting
  BY Zenon DEF BookCommit, MeetingRollback, RowsUnchanged
<1>2. mtx[w] # NoTx
  BY <1>1 DEF NoTx
<1>3. TxColumns(mtx[w]) /\ BookFacts(mtx[w]) /\ m \in Meeting
  BY <1>2, TxKnown, Zenon
<1>4. CASE UNCHANGED meeting
  BY <1>1, <1>4, ProvidersStay, TxEnds, Zenon DEF ProvidersUnchanged
<1>5. CASE meeting' = [meeting EXCEPT ![m] = r]
  <2>1. /\ r.status = "scheduled" /\ r.sync = "pending" /\ r.event = bookings[m]
        /\ r.event > 0 /\ meeting[m].status = "none"
    BY <1>1, <1>3 DEF BookFacts, BookSteps, NoMeeting
  <2>2. MeetingFacts(m, r)
    BY <1>3, <2>1, Zenon DEF MeetingFacts, TxColumns
  <2>3. Holds(mtx[w], m)
    BY <1>1, <1>2, Zenon DEF Holds, FLUSHED
  <2>4. /\ DOMAIN followUp' = Meeting
        /\ \A n \in Meeting : /\ DOMAIN followUp'[n] = FollowUp
                              /\ \A f \in FollowUp :
                                   followUp'[n][f] = "succeeded" => crmOutcome[n] # "absent"
    BY <1>1, Zenon DEF MeetingsInv
  <2>. HIDE DEF m, r
  <2>5. m \in Meeting
    BY <1>3, Zenon
  <2>. QED
    BY <1>1, <1>2, <1>5, <2>1, <2>2, <2>3, <2>4, <2>5, MeetingCommits, Zenon
<1>. QED
  BY <1>1, <1>4, <1>5, Zenon

\* The calendar is asked to delete the event.
LEMMA CancelCallStep ==
  ASSUME MeetingsInv, NEW w \in MeetingWorker, CancelCall(w)
  PROVE  MeetingsInv'
<1>. DEFINE m == mtx[w].meeting
            e == <<m, mtx[w].row.event>>
<1>0. PICK t : t = [mtx[w] EXCEPT !.step = "unbooked"]
  BY ZenonT(60)
<1>1. /\ mtx[w].step = "canceling" /\ UNCHANGED <<meeting, followUp, bookings, crmOutcome>>
      /\ calendar' = calendar \ {e} \/ calendar' = calendar
      /\ (calendar' = calendar \ {e} /\ Proceed(w, t)) \/ Proceed(w, NoTx)
  BY <1>0, Zenon DEF CancelCall, RowsUnchanged, MeetingRollback
<1>2. mtx[w] # NoTx
  BY <1>1 DEF NoTx
<1>3. TxColumns(mtx[w]) /\ KeepFacts(mtx[w]) /\ m \in Meeting
  BY <1>2, TxKnown, Zenon
<1>4. ProvidersMove
  BY <1>1, Zenon DEF ProvidersMove, MeetingsInv
<1>5. CASE Proceed(w, NoTx)
  BY <1>1, <1>4, <1>5, TxEnds, Zenon
<1>6. CASE calendar' = calendar \ {e} /\ Proceed(w, t)
  <2>1. /\ TxColumns(t) /\ t.step = "unbooked" /\ t.meeting = m
        /\ t.row = mtx[w].row /\ t.seen = mtx[w].seen /\ t.tasks = mtx[w].tasks
    BY <1>0, <1>3, Zenon DEF TxColumns, KeepSteps
  <2>2. <<t.meeting, t.row.event>> \notin calendar'
    BY <1>6, <2>1, Zenon
  <2>3. BookFacts(t)' /\ KeepFacts(t)'
    BY <1>1, <1>3, <2>1, <2>2, Zenon DEF BookFacts, KeepFacts, BookSteps, KeepSteps
  <2>4. MeetingTxFacts(t)'
    BY <2>1, <2>3, Zenon DEF MeetingTxFacts, TxColumns
  <2>5. \A n \in Meeting : ~Holds(t, n)
    BY <2>1, Zenon DEF Holds, FLUSHED
  <2>. QED
    BY <1>1, <1>4, <1>6, <2>4, <2>5, TxMoves, Zenon
<1>. QED
  BY <1>1, <1>5, <1>6, Zenon

\* The UPDATE of a transaction on a meeting that is there.
LEMMA MeetingUpdated ==
  ASSUME MeetingsInv, NEW w \in MeetingWorker, mtx[w] # NoTx,
         mtx[w].step \in {"unbooked", "synced", "resynced"},
         NEW r, r = Merge(mtx[w].seen, mtx[w].row, meeting[mtx[w].meeting])
  PROVE  /\ MeetingFacts(mtx[w].meeting, r) /\ r.status # "none"
         /\ r.event = meeting[mtx[w].meeting].event
<1>. DEFINE m == mtx[w].meeting
            now == meeting[m]
            t == mtx[w]
<1>1. TxColumns(t) /\ KeepFacts(t) /\ m \in Meeting
  BY TxKnown, Zenon
<1>2. MeetingFacts(m, now)
  BY <1>1, Zenon DEF MeetingsInv
<1>3. MeetingColumns(t.seen) /\ MeetingColumns(t.row) /\ MeetingColumns(now)
  BY <1>1, <1>2, Zenon DEF TxColumns, MeetingFacts
<1>4. /\ now.status # "none" /\ t.seen.event = now.event /\ t.row.event = now.event
      /\ t.row.status # "none"
      /\ t.row.status = "canceled" /\ t.step # "unbooked" => t.seen.status = "canceled"
      /\ t.step = "unbooked" => <<m, now.event>> \notin calendar
      /\ t.row.sync = "succeeded" => crmOutcome[m] # "absent"
  BY <1>1, Zenon DEF KeepFacts, KeepSteps
<1>. HIDE DEF now, t, m
<1>5. r = Merge(t.seen, t.row, now)
  BY Zenon DEF now, t, m
<1>6. /\ DOMAIN r = {"status", "outcome", "sync", "event", "version"}
      /\ r.status = IF t.row.status = t.seen.status THEN now.status ELSE t.row.status
      /\ r.outcome = IF t.row.outcome = t.seen.outcome THEN now.outcome ELSE t.row.outcome
      /\ r.sync = IF t.row.sync = t.seen.sync THEN now.sync ELSE t.row.sync
      /\ r.event = IF t.row.event = t.seen.event THEN now.event ELSE t.row.event
      /\ r.version = IF t.row.version = t.seen.version THEN now.version ELSE t.row.version
  BY <1>3, <1>5, Zenon DEF MeetingColumns, Merge
<1>7. MeetingColumns(r)
  BY <1>3, <1>6, Zenon DEF MeetingColumns
<1>8. r.status # "none" /\ r.event = now.event
  BY <1>4, <1>6, Zenon
<1>9. bookings[m] = r.event /\ r.event > 0
        /\ (r.status = "canceled" => <<m, r.event>> \notin calendar)
  BY <1>2, <1>4, <1>6, <1>8, Zenon DEF MeetingFacts
<1>10. r.sync = "succeeded" => crmOutcome[m] # "absent"
  BY <1>2, <1>4, <1>6, Zenon DEF MeetingFacts
<1>. QED
  BY <1>7, <1>8, <1>9, <1>10, Zenon DEF MeetingFacts, now, m

\* The cancellation commits.
LEMMA CancelCommitStep ==
  ASSUME MeetingsInv, NEW w \in MeetingWorker, CancelCommit(w)
  PROVE  MeetingsInv'
<1>. DEFINE m == mtx[w].meeting
<1>0. PICK r : r = Merge(mtx[w].seen, mtx[w].row, meeting[m])
  BY Zenon
<1>1. /\ mtx[w].step = "unbooked" /\ ProvidersUnchanged /\ Proceed(w, NoTx) /\ UNCHANGED followUp
      /\ meeting' = [meeting EXCEPT ![m] = r]
  BY <1>0, Zenon DEF CancelCommit
<1>2. mtx[w] # NoTx
  BY <1>1 DEF NoTx
<1>3. KeepFacts(mtx[w]) /\ m \in Meeting
  BY <1>2, TxKnown, Zenon
<1>4. meeting[m].status # "none"
  BY <1>1, <1>3, Zenon DEF KeepFacts, KeepSteps
<1>5. MeetingFacts(m, r) /\ r.status # "none" /\ r.event = meeting[m].event
  BY <1>0, <1>1, <1>2, MeetingUpdated, Zenon
<1>6. /\ DOMAIN followUp' = Meeting
      /\ \A n \in Meeting : /\ DOMAIN followUp'[n] = FollowUp
                            /\ \A f \in FollowUp :
                                 followUp'[n][f] = "succeeded" => crmOutcome[n] # "absent"
  BY <1>1, Zenon DEF MeetingsInv
<1>. HIDE DEF m
<1>7. m \in Meeting
  BY <1>3, Zenon
<1>. QED
  BY <1>1, <1>2, <1>4, <1>5, <1>6, <1>7, MeetingCommits, ZenonT(60)

\* An outcome flushes its row before the CRM is called.
LEMMA OutcomeFlushStep ==
  ASSUME MeetingsInv, NEW w \in MeetingWorker, OutcomeFlush(w)
  PROVE  MeetingsInv'
<1>. DEFINE m == mtx[w].meeting
<1>0. PICK t : t = [mtx[w] EXCEPT !.step = "recorded"]
  BY ZenonT(60)
<1>1. /\ mtx[w].step = "recording" /\ ~Held(m) /\ UNCHANGED <<meeting, followUp>>
      /\ UNCHANGED <<calendar, bookings, crmOutcome>>
      /\ Proceed(w, t) \/ Proceed(w, NoTx)
  BY <1>0, Zenon DEF OutcomeFlush, RowsUnchanged, ProvidersUnchanged
<1>2. CASE Proceed(w, NoTx)
  BY <1>1, <1>2, ProvidersStay, TxEnds, Zenon
<1>3. CASE Proceed(w, t)
  <2>1. mtx[w] # NoTx
    BY <1>1 DEF NoTx
  <2>2. TxColumns(mtx[w]) /\ KeepFacts(mtx[w]) /\ m \in Meeting
    BY <2>1, TxKnown, Zenon
  <2>3. /\ TxColumns(t) /\ t.step = "recorded" /\ t.meeting = m
        /\ t.row = mtx[w].row /\ t.seen = mtx[w].seen /\ t.tasks = mtx[w].tasks
    BY <1>0, <2>2, Zenon DEF TxColumns, KeepSteps
  <2>4. BookFacts(t)' /\ KeepFacts(t)'
    BY <1>1, <2>2, <2>3, Zenon DEF BookFacts, KeepFacts, BookSteps, KeepSteps
  <2>5. MeetingTxFacts(t)'
    BY <2>3, <2>4, Zenon DEF MeetingTxFacts, TxColumns
  <2>6. \A n \in Meeting : Holds(t, n) => \A v \in MeetingWorker \ {w} : ~Holds(mtx[v], n)
    BY <1>1, <2>3, NobodyHolds, Zenon DEF Holds
  <2>. QED
    BY <1>1, <1>3, <2>5, <2>6, ProvidersStay, TxMoves, Zenon
<1>. QED
  BY <1>1, <1>2, <1>3, Zenon

\* A call of the CRM goes on to t, or ends the transaction.
LEMMA CrmCalled ==
  ASSUME MeetingsInv, NEW w \in MeetingWorker, mtx[w] # NoTx,
         mtx[w].step \in {"recorded", "retrying"}, NEW t, Proceed(w, t),
         UNCHANGED <<meeting, followUp, calendar, bookings>>,
         DOMAIN crmOutcome' = Meeting,
         \A m \in Meeting : crmOutcome[m] # "absent" => crmOutcome'[m] # "absent",
         TxColumns(t), t.step = AfterSync(mtx[w].step), t.meeting = mtx[w].meeting,
         t.seen = mtx[w].seen, t.row.event = mtx[w].row.event,
         t.row.status \in {mtx[w].row.status, "failed_sync"},
         t.row.sync = "succeeded" => crmOutcome'[t.meeting] # "absent",
         \A f \in FollowUp : t.tasks[f] = "succeeded" => crmOutcome'[t.meeting] # "absent"
  PROVE  MeetingsInv'
<1>1. ProvidersMove
  BY Zenon DEF ProvidersMove, MeetingsInv
<1>2. TxColumns(mtx[w]) /\ KeepFacts(mtx[w]) /\ mtx[w].meeting \in Meeting
  BY TxKnown, Zenon
<1>3. /\ t.step \in {"synced", "resynced"}
      /\ t.step = "synced" => mtx[w].step = "recorded"
  BY Zenon DEF AfterSync
<1>4. BookFacts(t)' /\ KeepFacts(t)'
  BY <1>2, <1>3, Zenon DEF BookFacts, KeepFacts, BookSteps, KeepSteps
<1>5. MeetingTxFacts(t)'
  BY <1>4, Zenon DEF MeetingTxFacts, TxColumns
<1>6. ASSUME NEW n \in Meeting, Holds(t, n), NEW v \in MeetingWorker \ {w} PROVE ~Holds(mtx[v], n)
  <2>1. Holds(mtx[w], n)
    BY <1>3, <1>6, Zenon DEF Holds, FLUSHED
  <2>. QED
    BY <2>1, Zenon DEF MeetingsInv
<1>. QED
  BY <1>1, <1>5, <1>6, TxMoves, Zenon

\* The CRM is asked to store the meeting or its follow-up.
LEMMA SyncCallStep ==
  ASSUME MeetingsInv, NEW w \in MeetingWorker, SyncCall(w)
  PROVE  MeetingsInv'
<1>. DEFINE m == mtx[w].meeting
<1>1. mtx[w].step \in {"recorded", "retrying"} /\ UNCHANGED <<calendar, bookings>>
  BY Zenon DEF SyncCall
<1>2. mtx[w] # NoTx
  BY <1>1 DEF NoTx
<1>3. TxColumns(mtx[w]) /\ KeepFacts(mtx[w]) /\ m \in Meeting
  BY <1>2, TxKnown, Zenon
<1>4. mtx[w].row.outcome # "absent"
  BY <1>3, Zenon DEF TxColumns, MeetingColumns, MeetingOutcomeStatus
<1>5. crmOutcome' = [crmOutcome EXCEPT ![m] = mtx[w].row.outcome] =>
        /\ DOMAIN crmOutcome' = Meeting /\ crmOutcome'[m] # "absent"
        /\ \A n \in Meeting : crmOutcome[n] # "absent" => crmOutcome'[n] # "absent"
  BY <1>3, <1>4, Zenon DEF MeetingsInv
<1>6. UNCHANGED crmOutcome =>
        /\ DOMAIN crmOutcome' = Meeting
        /\ \A n \in Meeting : crmOutcome[n] # "absent" => crmOutcome'[n] # "absent"
  BY Zenon DEF MeetingsInv
<1>7. \A step : AfterSync(step) \in BookSteps \cup KeepSteps
  BY Zenon DEF AfterSync, KeepSteps
<1>8. ASSUME SyncSucceeds(w) PROVE MeetingsInv'
  <2>1. PICK keys : keys = mtx[w].keys \cup {SyncedEvent(m, mtx[w].row.version)}
    BY Zenon
  <2>2. PICK t : t = [mtx[w] EXCEPT !.step = AfterSync(@), !.row.sync = "succeeded",
                                    !.tasks = TasksSynced(@, "succeeded"), !.keys = keys]
    BY Zenon
  <2>3. /\ Proceed(w, t) /\ UNCHANGED <<meeting, followUp>>
        /\ crmOutcome' = [crmOutcome EXCEPT ![m] = mtx[w].row.outcome]
    BY <1>8, <2>1, <2>2, Zenon DEF SyncSucceeds, RowsUnchanged
  <2>4. /\ t.step = AfterSync(mtx[w].step) /\ t.meeting = m /\ t.seen = mtx[w].seen
        /\ t.row.event = mtx[w].row.event /\ t.row.status = mtx[w].row.status
    BY <1>3, <2>2, Zenon DEF TxColumns, MeetingColumns
  <2>5. TxColumns(t)
    BY <1>3, <1>7, <2>2, Zenon DEF TxColumns, MeetingColumns, TasksSynced
  <2>. QED
    BY <1>1, <1>2, <1>5, <2>3, <2>4, <2>5, CrmCalled, Zenon
<1>9. ASSUME SyncFails(w) PROVE MeetingsInv'
  <2>1. PICK sync \in {"failed_retryable", "failed_terminal"},
             status \in {mtx[w].row.status, "failed_sync"} :
          Proceed(w, [mtx[w] EXCEPT !.step = AfterSync(@), !.row.sync = sync,
                                    !.row.status = status, !.tasks = TasksSynced(@, sync)])
    BY <1>9, Zenon DEF SyncFails
  <2>2. PICK t : t = [mtx[w] EXCEPT !.step = AfterSync(@), !.row.sync = sync,
                                    !.row.status = status, !.tasks = TasksSynced(@, sync)]
    BY Zenon
  <2>3. Proceed(w, t) /\ UNCHANGED <<meeting, followUp, crmOutcome>>
    BY <1>9, <2>1, <2>2, Zenon DEF SyncFails, RowsUnchanged
  <2>4. /\ t.step = AfterSync(mtx[w].step) /\ t.meeting = m /\ t.seen = mtx[w].seen
        /\ t.row.event = mtx[w].row.event /\ t.row.status = status /\ t.row.sync = sync
        /\ t.tasks = TasksSynced(mtx[w].tasks, sync)
    BY <1>3, <2>2, Zenon DEF TxColumns, MeetingColumns
  <2>5. TxColumns(t)
    BY <1>3, <1>7, <2>2, ZenonT(60) DEF TxColumns, MeetingColumns, TasksSynced, MeetingStatus
  <2>6. \A f \in FollowUp : t.tasks[f] # "succeeded"
    BY <2>4, Zenon DEF TasksSynced
  <2>. QED
    BY <1>1, <1>2, <1>6, <2>3, <2>4, <2>5, <2>6, CrmCalled, Zenon
<1>10. ASSUME SyncTimesOut(w) PROVE MeetingsInv'
  <2>1. /\ Proceed(w, NoTx) /\ UNCHANGED <<meeting, followUp>>
        /\ crmOutcome' = [crmOutcome EXCEPT ![m] = mtx[w].row.outcome] \/ UNCHANGED crmOutcome
    BY <1>10, Zenon DEF SyncTimesOut, RowsUnchanged
  <2>2. ProvidersMove
    BY <1>1, <1>5, <1>6, <2>1, Zenon DEF ProvidersMove, MeetingsInv
  <2>. QED
    BY <1>1, <2>1, <2>2, TxEnds, Zenon
<1>. QED
  BY <1>8, <1>9, <1>10, Zenon DEF SyncCall

\* What the CRM answered is committed.
LEMMA SyncCommitStep ==
  ASSUME MeetingsInv, NEW w \in MeetingWorker, SyncCommit(w)
  PROVE  MeetingsInv'
<1>. DEFINE m == mtx[w].meeting
<1>0. PICK r : r = Merge(mtx[w].seen, mtx[w].row, meeting[m])
  BY Zenon
<1>1. /\ mtx[w].step \in {"synced", "resynced"} /\ ProvidersUnchanged /\ Proceed(w, NoTx)
      /\ \/ UNCHANGED <<meeting, followUp>>
         \/ /\ meeting' = [meeting EXCEPT ![m] = r]
            /\ followUp' = [followUp EXCEPT ![m] = Merge(mtx[w].tseen, mtx[w].tasks, @)]
  BY <1>0, Zenon DEF SyncCommit, MeetingRollback, RowsUnchanged
<1>2. mtx[w] # NoTx
  BY <1>1 DEF NoTx
<1>3. TxColumns(mtx[w]) /\ KeepFacts(mtx[w]) /\ m \in Meeting
  BY <1>2, TxKnown, Zenon
<1>4. meeting[m].status # "none"
  BY <1>1, <1>3, Zenon DEF KeepFacts, KeepSteps
<1>5. MeetingFacts(m, r) /\ r.status # "none" /\ r.event = meeting[m].event
  BY <1>0, <1>1, <1>2, MeetingUpdated, Zenon
<1>6. CASE UNCHANGED <<meeting, followUp>>
  BY <1>1, <1>6, ProvidersStay, TxEnds, Zenon DEF ProvidersUnchanged
<1>7. CASE /\ meeting' = [meeting EXCEPT ![m] = r]
           /\ followUp' = [followUp EXCEPT ![m] = Merge(mtx[w].tseen, mtx[w].tasks, @)]
  <2>1. PICK tasks : tasks = Merge(mtx[w].tseen, mtx[w].tasks, followUp[m])
    BY Zenon
  <2>2. /\ DOMAIN tasks = FollowUp
        /\ \A f \in FollowUp : tasks[f] \in {followUp[m][f], mtx[w].tasks[f]}
    BY <1>3, <2>1, Zenon DEF Merge, MeetingsInv
  <2>3. \A f \in FollowUp : tasks[f] = "succeeded" => crmOutcome[m] # "absent"
    BY <1>1, <1>3, <2>2, Zenon DEF KeepFacts, KeepSteps, MeetingsInv
  <2>4. /\ DOMAIN followUp' = Meeting
        /\ \A n \in Meeting : followUp'[n] = IF n = m THEN tasks ELSE followUp[n]
    BY <1>7, <2>1, Zenon DEF MeetingsInv
  <2>5. \A n \in Meeting : /\ DOMAIN followUp'[n] = FollowUp
                           /\ \A f \in FollowUp :
                                followUp'[n][f] = "succeeded" => crmOutcome[n] # "absent"
    BY <2>2, <2>3, <2>4, Zenon DEF MeetingsInv
  <2>. HIDE DEF m
  <2>6. m \in Meeting
    BY <1>3, Zenon
  <2>. QED
    BY <1>1, <1>2, <1>4, <1>5, <1>7, <2>4, <2>5, <2>6, MeetingCommits, ZenonT(60)
<1>. QED
  BY <1>1, <1>6, <1>7, Zenon

\* No request, call or commit breaks what the transactions hold.
LEMMA MeetingsStep == MeetingsInv /\ [MeetingsNext]_mvars => MeetingsInv'
<1>. SUFFICES ASSUME MeetingsInv, [MeetingsNext]_mvars PROVE MeetingsInv'
  BY Zenon
<1>1. ASSUME UNCHANGED <<meeting, followUp, calendar, bookings, crmOutcome, mtx>>
      PROVE  MeetingsInv'
  <2>1. \A m \in Meeting : MeetingFacts(m, meeting[m])'
    BY <1>1, Zenon DEF MeetingsInv, MeetingFacts
  <2>2. ASSUME NEW w \in MeetingWorker PROVE MeetingTxFacts(mtx[w])'
    <3>1. PICK t : t = mtx[w]
      BY Zenon
    <3>2. MeetingTxFacts(t)
      BY <3>1, Zenon DEF MeetingsInv
    <3>3. BookFacts(t) => BookFacts(t)'
      BY <1>1, Zenon DEF BookFacts
    <3>4. KeepFacts(t) => KeepFacts(t)'
      BY <1>1, Zenon DEF KeepFacts
    <3>5. MeetingTxFacts(t)'
      BY <3>2, <3>3, <3>4, Zenon DEF MeetingTxFacts, TxColumns
    <3>6. mtx'[w] = t
      BY <1>1, <3>1, Zenon
    <3>. QED
      BY <3>5, <3>6, ZenonT(60) DEF MeetingTxFacts, TxColumns, BookFacts, KeepFacts
  <2>. QED
    BY <1>1, <2>1, <2>2, Zenon DEF MeetingsInv, Holds
<1>2. ASSUME NEW w \in MeetingWorker, MeetingProgress(w) PROVE MeetingsInv'
  BY <1>2, BookInsertStep, BookCallStep, BookCommitStep, CancelCallStep, CancelCommitStep,
     OutcomeFlushStep, SyncCallStep, SyncCommitStep, Zenon DEF MeetingProgress
<1>3. ASSUME NEW w \in MeetingWorker,
             meeting_create(w) \/ meeting_cancel(w) \/ meeting_record_outcome(w)
               \/ meeting_retry_sync(w)
      PROVE  MeetingsInv'
  BY <1>3, BookReadStep, CancelReadStep, OutcomeReadStep, RetrySyncReadStep,
     Zenon DEF meeting_create, meeting_cancel, meeting_record_outcome, meeting_retry_sync
<1>4. ASSUME NEW w \in MeetingWorker, meeting_generate_prep_packet(w) PROVE MeetingsInv'
  BY <1>1, <1>4 DEF meeting_generate_prep_packet, GeneratePrepPacket, ProvidersUnchanged
<1>5. ASSUME NEW w \in MeetingWorker, MeetingRequestDies(w) PROVE MeetingsInv'
  <2>1. /\ Proceed(w, NoTx) /\ UNCHANGED <<meeting, followUp>>
        /\ UNCHANGED <<calendar, bookings, crmOutcome>>
    BY <1>5 DEF MeetingRequestDies, MeetingRollback, RowsUnchanged, ProvidersUnchanged
  <2>. QED
    BY <2>1, ProvidersStay, TxEnds
<1>6. CASE InvitationPolicyChanges \/ EnrollmentCompletes
  BY <1>1, <1>6 DEF InvitationPolicyChanges, EnrollmentCompletes, RowsUnchanged, ProvidersUnchanged
<1>7. CASE UNCHANGED mvars
  BY <1>1, <1>7 DEF mvars
<1>. QED
  BY <1>2, <1>3, <1>4, <1>5, <1>6, <1>7 DEF MeetingsNext

\* Requests with one key book once: the row names the only event whose creation was answered,
\* and none is created after it (lifecycle.py:61).
THEOREM BookedOnlyOnce == MeetingsSpec => []BookedOnce
<1>1. MeetingsInv => BookedOnce
  BY Zenon DEF MeetingsInv, MeetingFacts, BookedOnce, NoMeeting
<1>. QED
  BY <1>1, MeetingsInitial, MeetingsStep, PTL DEF MeetingsSpec

\* A canceled meeting has left the calendar, whatever dies between the call and the commit
\* (meeting/calendar.py:30).
THEOREM CanceledUnbooked == MeetingsSpec => []CanceledIsUnbooked
<1>1. MeetingsInv => CanceledIsUnbooked
  BY DEF MeetingsInv, MeetingFacts, CanceledIsUnbooked
<1>. QED
  BY <1>1, MeetingsInitial, MeetingsStep, PTL DEF MeetingsSpec

\* A meeting or follow-up task marked as synced has reached the CRM (crm_sync.py:83).
THEOREM SyncedIsInCrm == MeetingsSpec => []SyncedReachedCrm
<1>1. MeetingsInv => SyncedReachedCrm
  BY Zenon DEF MeetingsInv, MeetingFacts, SyncedReachedCrm
<1>. QED
  BY <1>1, MeetingsInitial, MeetingsStep, PTL DEF MeetingsSpec

\* The effects of ProviderEffects: what the calendar and the CRM did, what the rows claim.
Performed == {e \in {"event"} \X Meeting \X (1..MaxBookings) : e[3] <= bookings[e[2]]}
               \cup {e \in {"sync"} \X Meeting : crmOutcome[e[2]] # "absent"}
\* What the rows claim of the calendar.
Claimed == {<<"event", m, meeting[m].event>> : m \in {n \in Meeting : meeting[n] # NoMeeting}}
             \cup {e \in {"sync"} \X Meeting : meeting[e[2]].sync = "succeeded"}

\* No row claims what no provider did.
LEMMA ClaimedIsPerformed == MeetingsInv => Claimed \subseteq Performed
<1>. SUFFICES ASSUME MeetingsInv, NEW e \in Claimed PROVE e \in Performed
  OBVIOUS
<1>1. CASE \E m \in Meeting : meeting[m] # NoMeeting /\ e = <<"event", m, meeting[m].event>>
  <2>1. PICK m \in Meeting : meeting[m] # NoMeeting /\ e = <<"event", m, meeting[m].event>>
    BY <1>1
  <2>2. bookings[m] = meeting[m].event /\ meeting[m].event \in 1..MaxBookings
    <3>1. MeetingFacts(m, meeting[m]) /\ bookings[m] \in 0..MaxBookings
      BY DEF MeetingsInv
    <3>2. bookings[m] = meeting[m].event /\ meeting[m].event > 0
      BY <2>1, <3>1 DEF MeetingFacts
    <3>. QED
      BY <3>1, <3>2, MeetingsAssumption
  <2>. QED
    BY <2>1, <2>2 DEF Performed
<1>2. CASE e \in {"sync"} \X Meeting /\ meeting[e[2]].sync = "succeeded"
  BY <1>2, Zenon DEF Performed, MeetingsInv, MeetingFacts
<1>. QED
  BY <1>1, <1>2 DEF Claimed

\* What providers have done stays done.
ProvidersRemember ==
  \A m \in Meeting : /\ bookings[m] <= bookings'[m]
                     /\ crmOutcome[m] # "absent" => crmOutcome'[m] # "absent"

\* A step calls providers or commits rows, never both, and no provider forgets.
LEMMA CallOrCommit ==
  ASSUME MeetingsInv, MeetingsNext
  PROVE  (UNCHANGED meeting /\ ProvidersRemember) \/ UNCHANGED <<bookings, crmOutcome>>
<1>1. ASSUME NEW w \in MeetingWorker, BookCall(w)
      PROVE  UNCHANGED meeting /\ UNCHANGED crmOutcome
               /\ \A m \in Meeting : bookings[m] <= bookings'[m]
  <2>1. /\ UNCHANGED meeting
        /\ CreateEvent(mtx[w].meeting) \/ ProvidersUnchanged
    BY <1>1 DEF BookCall, RowsUnchanged, MeetingRollback
  <2>. QED
    BY <2>1 DEF CreateEvent, ProvidersUnchanged, MeetingsInv
<1>2. ASSUME NEW w \in MeetingWorker, SyncCall(w)
      PROVE  /\ UNCHANGED <<meeting, bookings>>
             /\ \A m \in Meeting : crmOutcome[m] # "absent" => crmOutcome'[m] # "absent"
  <2>1. /\ UNCHANGED <<meeting, bookings>> /\ mtx[w].step \in {"recorded", "retrying"}
        /\ \/ crmOutcome' = [crmOutcome EXCEPT ![mtx[w].meeting] = mtx[w].row.outcome]
           \/ UNCHANGED crmOutcome
    BY <1>2, Zenon DEF SyncCall, SyncSucceeds, SyncFails, SyncTimesOut, RowsUnchanged
  <2>2. mtx[w] # NoTx
    BY <2>1 DEF NoTx
  <2>3. mtx[w].row.outcome # "absent"
    BY <2>2, TxKnown DEF TxColumns, MeetingColumns, MeetingOutcomeStatus
  <2>. QED
    BY <2>1, <2>3 DEF MeetingsInv
<1>3. ASSUME NEW w \in MeetingWorker, MeetingProgress(w), ~BookCall(w), ~SyncCall(w)
      PROVE  UNCHANGED <<bookings, crmOutcome>>
  BY <1>3, SMTT(60) DEF MeetingProgress, BookInsert, BookCommit, CancelCall, CancelCommit,
     OutcomeFlush,
              SyncCommit, ProvidersUnchanged
<1>4. ASSUME NEW w \in MeetingWorker,
             \/ meeting_create(w) \/ meeting_cancel(w) \/ meeting_record_outcome(w)
             \/ meeting_retry_sync(w) \/ meeting_generate_prep_packet(w) \/ MeetingRequestDies(w)
      PROVE  UNCHANGED <<bookings, crmOutcome>>
  BY <1>4, Zenon DEF meeting_create, meeting_cancel, meeting_record_outcome, meeting_retry_sync,
              meeting_generate_prep_packet, MeetingRequestDies, BookRead, CancelRead, OutcomeRead,
              RetrySyncRead, GeneratePrepPacket, ProvidersUnchanged
<1>5. InvitationPolicyChanges \/ EnrollmentCompletes => UNCHANGED <<bookings, crmOutcome>>
  BY DEF InvitationPolicyChanges, EnrollmentCompletes, ProvidersUnchanged
<1>6. \A m \in Meeting : bookings[m] <= bookings[m]
  BY DEF MeetingsInv
<1>7. ASSUME NEW w \in MeetingWorker, MeetingProgress(w)
      PROVE  (UNCHANGED meeting /\ ProvidersRemember) \/ UNCHANGED <<bookings, crmOutcome>>
  BY <1>1, <1>2, <1>3, <1>6, <1>7 DEF ProvidersRemember
<1>. QED
  BY <1>4, <1>5, <1>7 DEF MeetingsNext

\* Refinement of OutsideEffects: calls and commits are separate steps, and no row claims a
\* calendar event or a synced meeting before the provider had it (lifecycle.py:129).
THEOREM MeetingsRefine == MeetingsSpec => CallsThenClaims
<1>1. MeetingsInit => Performed = {} /\ Claimed = {}
  <2>. SUFFICES ASSUME MeetingsInit PROVE Performed = {} /\ Claimed = {}
    OBVIOUS
  <2>1. /\ \A m \in Meeting : bookings[m] = 0 /\ crmOutcome[m] = "absent" /\ meeting[m] = NoMeeting
        /\ NoMeeting.sync # "succeeded"
    BY DEF MeetingsInit, NoMeeting
  <2>2. Performed = {}
    BY <2>1 DEF Performed
  <2>3. Claimed = {}
    BY <2>1 DEF Claimed
  <2>. QED
    BY <2>2, <2>3
<1>2. ASSUME MeetingsInv, MeetingsInv', [MeetingsNext]_mvars
      PROVE  \/ /\ Performed' \in SUBSET (({"event"} \X Meeting \X (1..MaxBookings))
                                            \cup ({"sync"} \X Meeting))
                /\ Performed \subseteq Performed' /\ Claimed' = Claimed
             \/ Claimed' \in SUBSET Performed /\ Performed' = Performed
  <2>1. (Claimed \subseteq Performed)'
    BY <1>2, ClaimedIsPerformed, PTL
  <2>2. UNCHANGED <<bookings, crmOutcome>> => Performed' = Performed
    BY DEF Performed
  <2>3. UNCHANGED meeting => Claimed' = Claimed
    BY DEF Claimed
  <2>4. ASSUME ProvidersRemember
        PROVE  Performed \subseteq Performed'
    <3>1. ASSUME NEW e \in {"event"} \X Meeting \X (1..MaxBookings), e[3] <= bookings[e[2]]
          PROVE  e[3] <= bookings'[e[2]]
      <4>1. e[2] \in Meeting /\ e[3] \in Nat
        OBVIOUS
      <4>2. bookings[e[2]] \in Nat /\ bookings'[e[2]] \in Nat
        BY <1>2, <4>1 DEF MeetingsInv
      <4>. QED
        BY <2>4, <3>1, <4>1, <4>2 DEF ProvidersRemember
    <3>2. ASSUME NEW e \in {"sync"} \X Meeting, crmOutcome[e[2]] # "absent"
          PROVE  crmOutcome'[e[2]] # "absent"
      BY <2>4, <3>2 DEF ProvidersRemember
    <3>. QED
      BY <3>1, <3>2 DEF Performed
  <2>5. Performed' \in SUBSET (({"event"} \X Meeting \X (1..MaxBookings))
          \cup ({"sync"} \X Meeting))
    BY DEF Performed
  <2>6. CASE UNCHANGED mvars
    BY <2>1, <2>2, <2>6 DEF mvars
  <2>7. CASE MeetingsNext
    <3>1. CASE UNCHANGED <<bookings, crmOutcome>>
      BY <2>1, <2>2, <3>1
    <3>2. CASE UNCHANGED meeting /\ ProvidersRemember
      BY <2>3, <2>4, <2>5, <3>2
    <3>. QED
      BY <1>2, <2>7, <3>1, <3>2, CallOrCommit
  <2>. QED
    BY <1>2, <2>6, <2>7
<1>3. MeetingsInit => ProviderEffects!Init
  BY <1>1 DEF ProviderEffects!Init, Performed, Claimed
<1>4. ASSUME MeetingsInv, MeetingsInv', [MeetingsNext]_mvars PROVE ProviderEffects!Next
  BY <1>2, <1>4 DEF ProviderEffects!Next, ProviderEffects!Call, ProviderEffects!Commit,
                    Performed, Claimed
<1>. QED
  BY <1>3, <1>4, MeetingsInitial, MeetingsStep, PTL
     DEF MeetingsSpec, CallsThenClaims, ProviderEffects!Spec
-----------------------------------------------------------------------------
(* Types *)

\* A status that the loop of process_crm_export_batch leaves an item in.
ItemOutcome == SUCCESS_ITEM_STATUSES \cup FAILED_ITEM_STATUSES

\* The batch status _batch_status computes is one of the statuses of a batch.
LEMMA StatusType ==
  ASSUME NEW items
  PROVE  BatchStatusOf(items) \in BatchStatus
<1> DEFINE S == {items[t].status : t \in ItemsOf(items)}
<1>1. CASE S \subseteq SUCCESS_ITEM_STATUSES
  BY <1>1, Zenon DEF BatchStatusOf, BatchStatus
<1>2. CASE ~(S \subseteq SUCCESS_ITEM_STATUSES) /\ S \subseteq FAILED_ITEM_STATUSES
  BY <1>2, Zenon DEF BatchStatusOf, BatchStatus
<1>3. CASE ~(S \subseteq SUCCESS_ITEM_STATUSES) /\ ~(S \subseteq FAILED_ITEM_STATUSES)
  BY <1>3, Zenon DEF BatchStatusOf, BatchStatus
<1>4. QED
  BY <1>1, <1>2, <1>3, Zenon

\* A request that runs has read rows of the right types.
LEMMA Running ==
  ASSUME RowsOK, NEW w \in Worker, tx[w].op # "idle"
  PROVE  /\ tx[w] \in Tx
         /\ tx[w].op \in {"begin", "retry", "process"}
         /\ tx[w].batch \in Batch
         /\ tx[w].row \in BatchRow
         /\ tx[w].item \in [Target -> ItemRow]
         /\ tx[w].seen \in [Target -> TargetRow]
         /\ tx[w].done \in SUBSET Target
<1>1. tx[w] \in Tx \cup {Idle}
  BY Zenon DEF RowsOK
<1>2. tx[w] # Idle
  BY DEF Idle
<1>3. tx[w] \in Tx
  BY <1>1, <1>2, Zenon
<1>4. QED
  BY <1>3, Zenon DEF Tx

\* The constructors of rows and transactions build rows and transactions.
LEMMA Constructors ==
  /\ \A s \in TargetStatus, x \in ExportStatus : CrmTarget(s, x) \in TargetRow
  /\ \A s \in ItemStatus, n \in Nat : CrmExportItem(s, n) \in ItemRow
  /\ \A s \in BatchStatus, c \in BOOLEAN : CrmExportBatch(s, c) \in BatchRow
  /\ NewTarget \in TargetRow /\ NoItem \in ItemRow /\ NoBatch \in BatchRow
  /\ NoItems \in [Target -> ItemRow] /\ NewTargets \in [Target -> TargetRow]
<1>1. \A s \in TargetStatus, x \in ExportStatus : CrmTarget(s, x) \in TargetRow
  BY Zenon DEF CrmTarget, TargetRow
<1>2. \A s \in ItemStatus, n \in Nat : CrmExportItem(s, n) \in ItemRow
  BY Zenon DEF CrmExportItem, ItemRow
<1>3. \A s \in BatchStatus, c \in BOOLEAN : CrmExportBatch(s, c) \in BatchRow
  BY Zenon DEF CrmExportBatch, BatchRow
<1>4. NewTarget \in TargetRow
  BY <1>1, Zenon DEF NewTarget, TargetStatus, ExportStatus
<1>5. NoItem \in ItemRow
  BY <1>2, Zenon DEF NoItem, ItemStatus
<1>6. NoBatch \in BatchRow
  BY <1>3, ZenonT(60) DEF NoBatch, BatchStatus
<1>7. NoItems \in [Target -> ItemRow] /\ NewTargets \in [Target -> TargetRow]
  BY <1>4, <1>5, Zenon DEF NoItems, NewTargets
<1>8. QED
  BY <1>1, <1>2, <1>3, <1>4, <1>5, <1>6, <1>7, Zenon

\* The same for transactions, and the fields of one.
LEMMA Transactions ==
  ASSUME NEW op \in {"begin", "retry", "process"}, NEW b \in Batch, NEW row \in BatchRow,
         NEW items \in [Target -> ItemRow], NEW seen \in [Target -> TargetRow],
         NEW done \in SUBSET Target
  PROVE  LET t == Transaction(op, b, row, items, seen, done)
         IN /\ t \in Tx
            /\ t.op = op /\ t.batch = b /\ t.row = row
            /\ t.item = items /\ t.seen = seen /\ t.done = done
BY Zenon DEF Transaction, Tx

-----------------------------------------------------------------------------
(* The inductive invariant *)

\* What a processing has decided about its items is an outcome, and a success is real.
TxFacts(x, held) ==
  x.op = "process" =>
    \A t \in x.done : /\ x.item[t].status \in ItemOutcome
                      /\ x.item[t].status = "succeeded" => held[t] = "listed"

TxInv == \A w \in Worker : TxFacts(tx[w], crm)

IInv == RowsOK /\ TxInv /\ SucceededIsListed

\* The provider keeps what it has.
CrmGrows == \A t \in Target : crm[t] = "listed" => crm'[t] = "listed"

\* A new transaction has no outcome yet.
LEMMA Fresh ==
  ASSUME NEW b \in Batch, NEW held
  PROVE  Begin(b) \in Tx /\ TxFacts(Begin(b), held) /\ Begin(b).op = "begin"
<1>1. {} \in SUBSET Target
  BY ZenonT(60)
<1>2. Begin(b) \in Tx /\ Begin(b).op = "begin"
  BY <1>1, Constructors, Transactions DEF Begin
<1>3. QED
  BY <1>2, Zenon DEF TxFacts

\* A step that leaves the tables alone and gives one request a good transaction.
LEMMA OnlyTx ==
  ASSUME IInv, CrmGrows, crm' \in [Target -> Provider],
         UNCHANGED <<target, allowed, batch, item>>,
         NEW w \in Worker, NEW x \in Tx \cup {Idle},
         tx' = [tx EXCEPT ![w] = x], TxFacts(x, crm')
  PROVE  IInv'
<1>1. RowsOK'
  BY Zenon DEF IInv, RowsOK
<1>2. SucceededIsListed'
  BY Zenon DEF IInv, SucceededIsListed, CrmGrows
<1>3. ASSUME NEW v \in Worker PROVE TxFacts(tx'[v], crm')
  <2>1. CASE v = w
    BY <2>1, Zenon DEF IInv, RowsOK
  <2>2. CASE v # w
    <3>1. tx'[v] = tx[v] /\ TxFacts(tx[v], crm)
      BY <2>2, Zenon DEF IInv, TxInv, RowsOK
    <3>2. CASE tx[v].op = "process"
      <4>1. tx[v].done \in SUBSET Target
        BY <3>2, Running, Zenon DEF IInv
      <4>2. QED
        BY <3>1, <4>1, Zenon DEF TxFacts, CrmGrows
    <3>3. QED
      BY <3>1, <3>2, Zenon DEF TxFacts
  <2>3. QED
    BY <2>1, <2>2, Zenon
<1>4. QED
  BY <1>1, <1>2, <1>3, Zenon DEF IInv, TxInv

\* Nothing is decided by a request that has ended.
LEMMA IdleFacts == \A held : TxFacts(Idle, held)
BY Zenon DEF TxFacts, Idle

\* A request that is rolled back leaves at most a trace at the provider.
LEMMA RollbackStep ==
  ASSUME IInv, NEW w \in Worker, Rollback(w), CrmGrows, crm' \in [Target -> Provider]
  PROVE  IInv'
<1>1. Idle \in Tx \cup {Idle}
  BY Zenon
<1>2. QED
  BY <1>1, IdleFacts, OnlyTx, Zenon DEF Rollback

\* One more outcome: the item of t is no longer pending in the copy.
LEMMA AttemptStep ==
  ASSUME IInv, NEW w \in Worker, NEW t \in Target, tx[w].op = "process",
         NEW status \in ItemOutcome, Attempted(w, t, status),
         status = "succeeded" => crm'[t] = "listed",
         CrmGrows, crm' \in [Target -> Provider],
         UNCHANGED <<target, allowed, batch, item>>
  PROVE  IInv'
<1> DEFINE items == [tx[w].item EXCEPT ![t] =
                        CrmExportItem(status, tx[w].item[t].attempts + 1)]
           seen == [tx[w].seen EXCEPT ![t] = target[t]]
           done == tx[w].done \cup {t}
           x == Transaction("process", tx[w].batch, tx[w].row, items, seen, done)
<1>1. /\ tx[w].batch \in Batch /\ tx[w].row \in BatchRow
      /\ tx[w].item \in [Target -> ItemRow] /\ tx[w].seen \in [Target -> TargetRow]
      /\ tx[w].done \in SUBSET Target
  BY Running, Zenon DEF IInv
<1>2. CrmExportItem(status, tx[w].item[t].attempts + 1) \in ItemRow
  <2>1. tx[w].item[t].attempts + 1 \in Nat
    BY <1>1 DEF ItemRow
  <2>2. status \in ItemStatus
    BY Zenon DEF ItemOutcome, ItemStatus
  <2>3. QED
    BY <2>1, <2>2, Constructors, ZenonT(60)
<1>3. items \in [Target -> ItemRow] /\ seen \in [Target -> TargetRow] /\ done \in SUBSET Target
  BY <1>1, <1>2, Zenon DEF IInv, RowsOK
<1>4. items[t].status = status /\ \A u \in Target : u # t => items[u] = tx[w].item[u]
  BY <1>1, ZenonT(60) DEF CrmExportItem
<1> HIDE DEF items, seen, done
<1>5. x \in Tx /\ x.op = "process" /\ x.item = items /\ x.done = done
  BY <1>1, <1>3, Transactions
<1>6. tx' = [tx EXCEPT ![w] = x]
  BY Zenon DEF Attempted, items, seen, done
<1> HIDE DEF x
<1>7. TxFacts(x, crm')
  <2>1. SUFFICES ASSUME NEW u \in done
                 PROVE  /\ items[u].status \in ItemOutcome
                        /\ items[u].status = "succeeded" => crm'[u] = "listed"
    BY <1>5, Zenon DEF TxFacts
  <2>2. CASE u = t
    BY <2>2, <1>4, Zenon
  <2>3. CASE u # t
    <3>1. u \in tx[w].done /\ u \in Target
      BY <2>3, <1>3, Zenon DEF done
    <3>2. /\ tx[w].item[u].status \in ItemOutcome
          /\ tx[w].item[u].status = "succeeded" => crm[u] = "listed"
      BY <3>1, Zenon DEF IInv, TxInv, TxFacts
    <3>3. QED
      BY <2>3, <3>1, <3>2, <1>4, Zenon DEF CrmGrows
  <2>4. QED
    BY <2>2, <2>3, Zenon
<1>8. QED
  BY <1>5, <1>6, <1>7, OnlyTx, Zenon

\* A step that changes rows, ends or begins a request and leaves the provider alone.
LEMMA Commits ==
  ASSUME IInv, UNCHANGED crm, NEW w \in Worker, NEW x \in Tx \cup {Idle},
         tx' = [tx EXCEPT ![w] = x], TxFacts(x, crm'),
         target' \in [Target -> TargetRow], allowed' \subseteq Target,
         batch' \in [Batch -> BatchRow], item' \in [Batch -> [Target -> ItemRow]],
         \A b \in Batch, t \in Target :
           item'[b][t].status = "succeeded" => crm[t] = "listed"
  PROVE  IInv'
<1>1. RowsOK'
  BY Zenon DEF IInv, RowsOK
<1>2. SucceededIsListed'
  BY Zenon DEF SucceededIsListed
<1>3. ASSUME NEW v \in Worker PROVE TxFacts(tx'[v], crm')
  BY Zenon DEF IInv, TxInv, RowsOK
<1>4. QED
  BY <1>1, <1>2, <1>3, Zenon DEF IInv, TxInv

\* What a commit makes of a target is a row.
LEMMA ExportedRowType ==
  ASSUME NEW status \in ItemOutcome, NEW seen \in TargetRow, NEW now \in TargetRow
  PROVE  ExportedRow(status, seen, now) \in TargetRow
<1>1. /\ seen.status \in TargetStatus /\ now.status \in TargetStatus
      /\ seen.export \in ExportStatus /\ now.export \in ExportStatus
  BY Zenon DEF TargetRow
<1>2. "exported" \in TargetStatus /\ "exported" \in ExportStatus
  BY Zenon DEF TargetStatus, ExportStatus
<1>3. CASE status = "succeeded"
  BY <1>1, <1>2, <1>3, Constructors, Zenon DEF ExportedRow, Written
<1>4. CASE status # "succeeded"
  <2>1. status \in ExportStatus
    BY <1>4, Zenon DEF ItemOutcome, SUCCESS_ITEM_STATUSES, ExportStatus
  <2>2. QED
    BY <1>1, <1>4, <2>1, Constructors, Zenon DEF ExportedRow, Written
<1>5. QED
  BY <1>3, <1>4, Zenon

\* _complete_batch
LEMMA CompleteStep ==
  ASSUME IInv, NEW w \in Worker, tx[w].op = "process", CompleteBatch(w)
  PROVE  IInv'
<1> DEFINE b == tx[w].batch
           items == tx[w].item
           done == tx[w].done
<1>1. /\ b \in Batch /\ items \in [Target -> ItemRow] /\ done \in SUBSET Target
      /\ tx[w].row \in BatchRow /\ tx[w].seen \in [Target -> TargetRow]
  BY Running, Zenon DEF IInv
<1>2. \A t \in done : /\ items[t].status \in ItemOutcome
                      /\ items[t].status = "succeeded" => crm[t] = "listed"
  BY Zenon DEF IInv, TxInv, TxFacts
<1>3. target' \in [Target -> TargetRow]
  <2>1. ASSUME NEW t \in Target
        PROVE  (IF t \in done THEN ExportedRow(items[t].status, tx[w].seen[t], target[t])
                              ELSE target[t]) \in TargetRow
    BY <1>1, <1>2, ExportedRowType, Zenon DEF IInv, RowsOK
  <2>2. QED
    BY <2>1, Zenon DEF CompleteBatch
<1>4. batch' \in [Batch -> BatchRow]
  <2>1. Written(tx[w].row.status, BatchStatusOf(items), batch[b].status) \in BatchStatus
    BY <1>1, StatusType, Zenon DEF Written, IInv, RowsOK, BatchRow
  <2>2. QED
    BY <1>1, <2>1, Constructors, Zenon DEF CompleteBatch, IInv, RowsOK
<1>5. /\ item' \in [Batch -> [Target -> ItemRow]]
      /\ \A c \in Batch, t \in Target :
           item'[c][t] = IF c = b /\ t \in done THEN items[t] ELSE item[c][t]
  BY <1>1, ZenonT(60) DEF CompleteBatch, IInv, RowsOK
<1>6. \A c \in Batch, t \in Target : item'[c][t].status = "succeeded" => crm[t] = "listed"
  BY <1>2, <1>5 DEF IInv, SucceededIsListed
<1>7. tx' = [tx EXCEPT ![w] = Idle] /\ UNCHANGED <<allowed, crm>>
  BY Zenon DEF CompleteBatch
<1>8. allowed' \subseteq Target /\ TxFacts(Idle, crm') /\ Idle \in Tx \cup {Idle}
  BY <1>7, IdleFacts, Zenon DEF IInv, RowsOK
<1>9. QED
  BY <1>3, <1>4, <1>5, <1>6, <1>7, <1>8, Commits, Zenon

\* start_crm_export
LEMMA StartStep ==
  ASSUME IInv, NEW w \in Worker, NEW b \in Batch, NEW ts \in SUBSET Target,
         StartCrmExport(w, b, ts)
  PROVE  IInv'
<1>1. CrmExportBatch("running", FALSE) \in BatchRow /\ CrmExportItem("pending", 0) \in ItemRow
      /\ NoItem \in ItemRow
  BY Constructors, Zenon DEF BatchStatus, ItemStatus
<1>2. batch' \in [Batch -> BatchRow]
  BY <1>1, Zenon DEF StartCrmExport, IInv, RowsOK
<1>3. /\ item' \in [Batch -> [Target -> ItemRow]]
      /\ \A c \in Batch, t \in Target :
           \/ item'[c][t] = item[c][t]
           \/ item'[c][t] \in {CrmExportItem("pending", 0), NoItem}
  BY <1>1, Zenon DEF StartCrmExport, IInv, RowsOK
<1>4. CrmExportItem("pending", 0).status # "succeeded" /\ NoItem.status # "succeeded"
  BY Zenon DEF CrmExportItem, NoItem
<1>5. \A c \in Batch, t \in Target : item'[c][t].status = "succeeded" => crm[t] = "listed"
  BY <1>3, <1>4, Zenon DEF IInv, SucceededIsListed
<1>6. /\ tx' = [tx EXCEPT ![w] = Begin(b)] /\ UNCHANGED crm
      /\ target' \in [Target -> TargetRow] /\ allowed' \subseteq Target
  BY Zenon DEF StartCrmExport, IInv, RowsOK
<1>7. QED
  BY <1>2, <1>3, <1>5, <1>6, Fresh, Commits, Zenon

\* retry_failed_crm_export_items commits
LEMMA RetryStep ==
  ASSUME IInv, NEW w \in Worker, RetryCommit(w)
  PROVE  IInv'
<1> DEFINE b == tx[w].batch
<1>1. b \in Batch /\ tx[w].row \in BatchRow
  BY Running, Zenon DEF IInv, RetryCommit
<1>2. batch' \in [Batch -> BatchRow]
  <2>1. /\ Written(tx[w].row.status, "running", batch[b].status) \in BatchStatus
        /\ Written(tx[w].row.completed, FALSE, batch[b].completed) \in BOOLEAN
    BY <1>1, Zenon DEF Written, IInv, RowsOK, BatchRow, BatchStatus
  <2>2. QED
    BY <1>1, <2>1, Constructors, Zenon DEF RetryCommit, IInv, RowsOK
<1>3. \A t \in Target : /\ CrmExportItem("pending", item[b][t].attempts) \in ItemRow
                        /\ CrmExportItem("pending", item[b][t].attempts).status = "pending"
  BY <1>1 DEF IInv, RowsOK, ItemRow, ItemStatus, CrmExportItem
<1>4. /\ item' \in [Batch -> [Target -> ItemRow]]
      /\ \A c \in Batch, t \in Target :
           item'[c][t] = item[c][t] \/ item'[c][t].status = "pending"
  BY <1>1, <1>3, Zenon DEF RetryCommit, IInv, RowsOK
<1>5. \A c \in Batch, t \in Target : item'[c][t].status = "succeeded" => crm[t] = "listed"
  BY <1>4, Zenon DEF IInv, SucceededIsListed
<1>6. /\ tx' = [tx EXCEPT ![w] = Begin(b)] /\ UNCHANGED crm
      /\ target' \in [Target -> TargetRow] /\ allowed' \subseteq Target
  BY Zenon DEF RetryCommit, IInv, RowsOK
<1>7. QED
  BY <1>1, <1>2, <1>4, <1>5, <1>6, Fresh, Commits, Zenon

\* One turn of the loop of process_crm_export_batch.
LEMMA ItemStep ==
  ASSUME IInv, NEW w \in Worker, NEW t \in Target, ProcessItem(w, t)
  PROVE  IInv'
<1>1. tx[w].op = "process" /\ crm \in [Target -> Provider]
  BY Zenon DEF ProcessItem, IInv, RowsOK
<1>2. "succeeded" \in ItemOutcome /\ FAILED_ITEM_STATUSES \subseteq ItemOutcome
  BY Zenon DEF ItemOutcome, SUCCESS_ITEM_STATUSES
<1>3. CASE PlanFails(w)
  BY <1>1, <1>3, RollbackStep, Zenon DEF PlanFails, CrmGrows
<1>4. CASE SkipItem(w, t)
  <2>1. CrmGrows /\ crm' \in [Target -> Provider] /\ Attempted(w, t, "skipped_policy")
    BY <1>1, <1>4, Zenon DEF SkipItem, CrmGrows
  <2>2. UNCHANGED <<target, allowed, batch, item>>
    BY <1>4, Zenon DEF SkipItem
  <2>3. "skipped_policy" \in ItemOutcome
    BY <1>2, Zenon DEF FAILED_ITEM_STATUSES
  <2>4. QED
    BY <1>1, <2>1, <2>2, <2>3, AttemptStep, Zenon
<1>5. CASE ExportSucceeds(w, t)
  <2>1. /\ CrmGrows /\ crm' \in [Target -> Provider] /\ crm'[t] = "listed"
        /\ Attempted(w, t, "succeeded")
    BY <1>1, <1>5, Zenon DEF ExportSucceeds, CrmGrows, Provider
  <2>2. UNCHANGED <<target, allowed, batch, item>>
    BY <1>5, Zenon DEF ExportSucceeds
  <2>3. QED
    BY <1>1, <1>2, <2>1, <2>2, AttemptStep, Zenon
<1>6. CASE ExportFails(w, t)
  <2>1. PICK status \in {"failed_retryable", "failed_terminal"} : Attempted(w, t, status)
    BY <1>6, Zenon DEF ExportFails
  <2>2. CrmGrows /\ crm' \in [Target -> Provider] /\ UNCHANGED <<target, allowed, batch, item>>
    BY <1>1, <1>6, Zenon DEF ExportFails, CrmGrows, Provider
  <2>3. status \in ItemOutcome /\ status # "succeeded"
    BY <1>2, Zenon DEF FAILED_ITEM_STATUSES
  <2>4. QED
    BY <1>1, <2>1, <2>2, <2>3, AttemptStep, Zenon
<1>7. CASE ExportTimesOut(w, t)
  <2>1. CrmGrows /\ crm' \in [Target -> Provider] /\ Rollback(w)
    BY <1>1, <1>7, Zenon DEF ExportTimesOut, CrmGrows
  <2>2. QED
    BY <2>1, RollbackStep, Zenon
<1>8. QED
  BY <1>3, <1>4, <1>5, <1>6, <1>7, Zenon DEF ProcessItem

\* A request that reads a batch, or asks for one to be processed, decides nothing yet.
LEMMA ReadStep ==
  ASSUME IInv, NEW w \in Worker, NEW b \in Batch,
         \/ ProcessTask(w, b)
         \/ \E ids \in SUBSET Target : RetryRead(w, b, ids)
         \/ ProcessRead(w)
  PROVE  IInv'
<1>1. UNCHANGED <<target, allowed, batch, item, crm>>
  BY Zenon DEF ProcessTask, RetryRead, ProcessRead
<1>2. CrmGrows /\ crm' \in [Target -> Provider]
  BY <1>1, ZenonT(60) DEF CrmGrows, IInv, RowsOK
<1>3. ASSUME NEW c \in Batch, NEW op \in {"retry", "process"}, NEW done \in SUBSET Target,
             op = "process" => done = {}
      PROVE  LET x == Transaction(op, c, batch[c], item[c], NewTargets, done)
             IN x \in Tx /\ TxFacts(x, crm')
  <2>1. batch[c] \in BatchRow /\ item[c] \in [Target -> ItemRow]
    BY Zenon DEF IInv, RowsOK
  <2>2. QED
    BY <1>3, <2>1, Constructors, Transactions DEF TxFacts
<1>4. CASE ProcessTask(w, b)
  BY <1>1, <1>2, <1>4, Fresh, OnlyTx, Zenon DEF ProcessTask
<1>5. CASE \E ids \in SUBSET Target : RetryRead(w, b, ids)
  <2>1. PICK ids \in SUBSET Target : RetryRead(w, b, ids)
    BY <1>5, Zenon
  <2>2. Retryable(b, ids) \in SUBSET Target
    BY Zenon DEF Retryable
  <2>3. tx' = [tx EXCEPT ![w] =
                 Transaction("retry", b, batch[b], item[b], NewTargets, Retryable(b, ids))]
    BY <2>1, Zenon DEF RetryRead
  <2>4. QED
    BY <1>1, <1>2, <1>3, <2>2, <2>3, OnlyTx, Zenon
<1>6. CASE ProcessRead(w)
  <2>1. tx[w].batch \in Batch
    BY <1>6, Running, Zenon DEF ProcessRead, IInv
  <2>2. \/ tx' = [tx EXCEPT ![w] = Idle]
        \/ tx' = [tx EXCEPT ![w] =
                    Transaction("process", tx[w].batch, batch[tx[w].batch],
                                item[tx[w].batch], NewTargets, {})]
    BY <1>6, Zenon DEF ProcessRead
  <2>3. QED
    BY <1>1, <1>2, <1>3, <2>1, <2>2, IdleFacts, OnlyTx, Zenon
<1>7. QED
  BY <1>4, <1>5, <1>6, Zenon

\* An operator's edit of a target, or a change of the record behind it.
LEMMA OutsideStep ==
  ASSUME IInv, NEW t \in Target, UpdateCrmTarget(t) \/ PolicyChange(t)
  PROVE  IInv'
<1>1. UNCHANGED <<batch, item, crm, tx>>
  BY Zenon DEF UpdateCrmTarget, PolicyChange
<1>2. target' \in [Target -> TargetRow] /\ allowed' \subseteq Target
  <2>1. target[t].status \in TargetStatus /\ target[t].export \in ExportStatus
    BY Zenon DEF IInv, RowsOK, TargetRow
  <2>2. CASE UpdateCrmTarget(t)
    <3>1. \A status \in EditStatus : CrmTarget(status, target[t].export) \in TargetRow
      BY <2>1, Constructors, EditAssumption, Zenon
    <3>2. \A export \in EditExport : CrmTarget(target[t].status, export) \in TargetRow
      BY <2>1, Constructors, EditAssumption, Zenon
    <3>3. QED
      BY <2>2, <3>1, <3>2, Zenon DEF UpdateCrmTarget, IInv, RowsOK
  <2>3. CASE PolicyChange(t)
    BY <2>3, Zenon DEF PolicyChange, IInv, RowsOK
  <2>4. QED
    BY <2>2, <2>3, Zenon
<1>3. RowsOK'
  BY <1>1, <1>2, Zenon DEF IInv, RowsOK
<1>4. QED
  BY <1>1, <1>3, Zenon DEF IInv, TxInv, SucceededIsListed

\* The invariant holds initially.
LEMMA InitInv == Init => IInv
<1> SUFFICES ASSUME Init PROVE IInv
  BY Zenon
<1>1. RowsOK
  BY Constructors, Zenon DEF Init, RowsOK, Provider
<1>2. SucceededIsListed
  BY Zenon DEF Init, SucceededIsListed, NoItems, NoItem, CrmExportItem
<1>3. TxInv
  BY Zenon DEF Init, TxInv, TxFacts, Idle
<1>4. QED
  BY <1>1, <1>2, <1>3, Zenon DEF IInv

\* Every step keeps it.
LEMMA StepInv == IInv /\ [Next]_vars => IInv'
<1> SUFFICES ASSUME IInv, [Next]_vars PROVE IInv'
  BY Zenon
<1>1. ASSUME NEW w \in Worker, NEW b \in Batch, NEW ts \in SUBSET Target,
             StartCrmExport(w, b, ts)
      PROVE  IInv'
  BY <1>1, StartStep, Zenon
<1>2. ASSUME NEW w \in Worker, NEW b \in Batch,
             ProcessTask(w, b) \/ \E ids \in SUBSET Target : RetryRead(w, b, ids)
      PROVE  IInv'
  BY <1>2, ReadStep, Zenon
<1>3. ASSUME NEW w \in Worker, RetryCommit(w) PROVE IInv'
  BY <1>3, RetryStep, Zenon
<1>4. ASSUME NEW w \in Worker, ProcessRead(w) PROVE IInv'
  <2>1. tx[w].batch \in Batch
    BY <1>4, Running, Zenon DEF ProcessRead, IInv
  <2>2. QED
    BY <1>4, <2>1, ReadStep, Zenon
<1>5. ASSUME NEW w \in Worker, NEW t \in Target, ProcessItem(w, t) PROVE IInv'
  BY <1>5, ItemStep, Zenon
<1>6. ASSUME NEW w \in Worker, ProcessCommit(w) \/ Abort(w) PROVE IInv'
  <2>1. CASE CompleteBatch(w) /\ tx[w].op = "process"
    BY <2>1, CompleteStep, Zenon
  <2>2. CASE Rollback(w) /\ UNCHANGED crm
    BY <2>2, RollbackStep, Zenon DEF CrmGrows, IInv, RowsOK
  <2>3. QED
    BY <1>6, <2>1, <2>2, Zenon DEF ProcessCommit, Abort
<1>7. ASSUME NEW t \in Target, UpdateCrmTarget(t) \/ PolicyChange(t) PROVE IInv'
  BY <1>7, OutsideStep, Zenon
<1>8. CASE UNCHANGED vars
  BY <1>8, Zenon DEF vars, IInv, RowsOK, TxInv, SucceededIsListed
<1>9. QED
  BY <1>1, <1>2, <1>3, <1>4, <1>5, <1>6, <1>7, <1>8, ZenonT(60) DEF Next, Progress

\* The invariant holds throughout.
THEOREM ExportInvariant == Spec => []IInv
<1>1. QED
  BY InitInv, StepInv, PTL DEF Spec

(***************************************************************************)
(* Whatever overlaps, fails half way or is rolled back, an item recorded   *)
(* as succeeded has its record and its list entry at the provider.         *)
(***************************************************************************)
THEOREM SucceededListed == Spec => []SucceededIsListed
<1>1. IInv => SucceededIsListed
  BY Zenon DEF IInv
<1>2. QED
  BY <1>1, ExportInvariant, PTL
-----------------------------------------------------------------------------
(* What each step does to a request, whatever the property *)

\* The transaction after one more attempt, field by field.
LEMMA AttemptedFields ==
  ASSUME IInv, NEW w \in Worker, NEW t \in Target, NEW status \in ItemOutcome,
         tx[w].op = "process", Attempted(w, t, status)
  PROVE  /\ \A v \in Worker : v # w => tx'[v] = tx[v]
         /\ tx'[w].op = "process" /\ tx'[w].batch = tx[w].batch /\ tx'[w].row = tx[w].row
         /\ tx'[w].done = tx[w].done \cup {t}
         /\ \A u \in Target : u # t => /\ tx'[w].item[u] = tx[w].item[u]
                                       /\ tx'[w].seen[u] = tx[w].seen[u]
         /\ tx'[w].seen[t] = target[t]
<1> DEFINE items == [tx[w].item EXCEPT ![t] =
                        CrmExportItem(status, tx[w].item[t].attempts + 1)]
           seen == [tx[w].seen EXCEPT ![t] = target[t]]
           done == tx[w].done \cup {t}
           x == Transaction("process", tx[w].batch, tx[w].row, items, seen, done)
<1>1. tx[w].item \in [Target -> ItemRow] /\ tx[w].seen \in [Target -> TargetRow]
  BY Running, Zenon DEF IInv
<1>2. /\ \A u \in Target : u # t => items[u] = tx[w].item[u] /\ seen[u] = tx[w].seen[u]
      /\ seen[t] = target[t]
  BY <1>1, Zenon
<1> HIDE DEF items, seen, done
<1>3. /\ x.op = "process" /\ x.batch = tx[w].batch /\ x.row = tx[w].row
      /\ x.item = items /\ x.seen = seen /\ x.done = done
  BY Zenon DEF Transaction
<1>4. tx' = [tx EXCEPT ![w] = x]
  BY Zenon DEF Attempted, items, seen, done
<1> HIDE DEF x
<1>5. tx'[w] = x /\ \A v \in Worker : v # w => tx'[v] = tx[v]
  BY <1>4, Zenon DEF IInv, RowsOK
<1>6. QED
  BY <1>2, <1>3, <1>5, Zenon DEF done

\* A turn of the loop rolls back or records one attempt; no table changes.
LEMMA ItemEffect ==
  ASSUME NEW w \in Worker, NEW t \in Target, ProcessItem(w, t)
  PROVE  /\ tx[w].op = "process"
         /\ t \in PendingOf(tx[w].item)
         /\ UNCHANGED <<target, batch, item>>
         /\ \/ tx' = [tx EXCEPT ![w] = Idle]
            \/ \E status \in ItemOutcome : Attempted(w, t, status)
<1>1. {"succeeded", "skipped_policy", "failed_retryable", "failed_terminal"} \subseteq ItemOutcome
  BY Zenon DEF ItemOutcome, SUCCESS_ITEM_STATUSES, FAILED_ITEM_STATUSES
<1>2. CASE PlanFails(w) \/ ExportTimesOut(w, t)
  BY <1>2, Zenon DEF ProcessItem, PlanFails, ExportTimesOut, Rollback
<1>3. CASE SkipItem(w, t)
  BY <1>1, <1>3, Zenon DEF ProcessItem, SkipItem
<1>4. CASE ExportSucceeds(w, t)
  BY <1>1, <1>4, Zenon DEF ProcessItem, ExportSucceeds
<1>5. CASE ExportFails(w, t)
  BY <1>1, <1>5, Zenon DEF ProcessItem, ExportFails
<1>6. QED
  BY <1>2, <1>3, <1>4, <1>5, Zenon DEF ProcessItem

\* The transactions a request starts with, field by field.
LEMMA StartFields ==
  ASSUME NEW op, NEW b, NEW row, NEW items, NEW seen, NEW done
  PROVE  LET x == Transaction(op, b, row, items, seen, done)
         IN x.op = op /\ x.batch = b /\ x.row = row /\ x.item = items /\ x.done = done
BY Zenon DEF Transaction
-----------------------------------------------------------------------------
(* A succeeded item and its target *)

\* A target that a processing has seen exported still is.
SeenFacts(x, rows) ==
  x.op = "process" =>
    \A t \in x.done : x.seen[t].status = "exported" => rows[t].status = "exported"

SeenInv == \A w \in Worker : SeenFacts(tx[w], target)

\* No step takes an export back.
ExportStays ==
  \A t \in Target : target[t].status = "exported" => target'[t].status = "exported"

\* A step that gives one request a good transaction and makes no item succeed.
LEMMA SeenOnlyTx ==
  ASSUME IInv, SeenInv, SucceededIsExported, ExportStays,
         \A b \in Batch, t \in Target :
           item'[b][t].status = "succeeded" => item[b][t].status = "succeeded",
         NEW w \in Worker, \A v \in Worker : v # w => tx'[v] = tx[v],
         SeenFacts(tx'[w], target')
  PROVE  SeenInv' /\ SucceededIsExported'
<1>1. SucceededIsExported'
  BY Zenon DEF SucceededIsExported, ExportStays
<1>2. ASSUME NEW v \in Worker, v # w PROVE SeenFacts(tx'[v], target')
  <2>1. tx'[v] = tx[v] /\ SeenFacts(tx[v], target)
    BY <1>2, ZenonT(60) DEF SeenInv
  <2>2. CASE tx[v].op = "process"
    <3>1. tx[v].done \in SUBSET Target
      BY <2>2, Running, Zenon DEF IInv
    <3>2. QED
      BY <2>1, <3>1 DEF SeenFacts, ExportStays
  <2>3. QED
    BY <2>1, <2>2, Zenon DEF SeenFacts
<1>3. QED
  BY <1>1, <1>2, Zenon DEF SeenInv

\* The commit: what succeeded is exported.
LEMMA SeenComplete ==
  ASSUME IInv, SeenInv, SucceededIsExported, NEW w \in Worker, tx[w].op = "process",
         CompleteBatch(w)
  PROVE  SeenInv' /\ SucceededIsExported'
<1> DEFINE b == tx[w].batch
           items == tx[w].item
           done == tx[w].done
           seen == tx[w].seen
<1>1. b \in Batch /\ done \in SUBSET Target
  BY Running, Zenon DEF IInv
<1>2. \A t \in done : seen[t].status = "exported" => target[t].status = "exported"
  BY Zenon DEF SeenInv, SeenFacts
<1>3. \A t \in Target :
        target'[t] = IF t \in done THEN ExportedRow(items[t].status, seen[t], target[t])
                                   ELSE target[t]
  BY Zenon DEF CompleteBatch
<1>4. ASSUME NEW t \in done
      PROVE  LET row == ExportedRow(items[t].status, seen[t], target[t])
             IN /\ items[t].status = "succeeded" => row.status = "exported"
                /\ target[t].status = "exported" => row.status = "exported"
  <2>1. CASE items[t].status = "succeeded"
    BY <1>2, <2>1, Zenon DEF ExportedRow, CrmTarget, Written
  <2>2. CASE items[t].status # "succeeded"
    BY <2>2, Zenon DEF ExportedRow, CrmTarget
  <2>3. QED
    BY <2>1, <2>2, Zenon
<1>5. ExportStays /\ \A t \in done : items[t].status = "succeeded" => target'[t].status = "exported"
  BY <1>1, <1>3, <1>4, Zenon DEF ExportStays
<1>6. \A c \in Batch, t \in Target :
        item'[c][t] = IF c = b /\ t \in done THEN items[t] ELSE item[c][t]
  BY <1>1, Zenon DEF CompleteBatch, IInv, RowsOK
<1>7. SucceededIsExported'
  BY <1>5, <1>6, Zenon DEF SucceededIsExported, ExportStays
<1>8. ASSUME NEW v \in Worker PROVE SeenFacts(tx'[v], target')
  <2>1. CASE v = w
    BY <2>1, Zenon DEF CompleteBatch, IInv, RowsOK, SeenFacts, Idle
  <2>2. CASE v # w
    <3>1. tx'[v] = tx[v] /\ SeenFacts(tx[v], target)
      BY <2>2, Zenon DEF CompleteBatch, SeenInv, IInv, RowsOK
    <3>2. CASE tx[v].op = "process"
      <4>1. tx[v].done \in SUBSET Target
        BY <3>2, Running, Zenon DEF IInv
      <4>2. QED
        BY <3>1, <4>1, <1>5, Zenon DEF SeenFacts, ExportStays
    <3>3. QED
      BY <3>1, <3>2, Zenon DEF SeenFacts
  <2>3. QED
    BY <2>1, <2>2, Zenon
<1>9. QED
  BY <1>7, <1>8, Zenon DEF SeenInv

\* One turn of the loop: the target is seen as it is now.
LEMMA SeenItem ==
  ASSUME IInv, SeenInv, SucceededIsExported, NEW w \in Worker, NEW t \in Target,
         ProcessItem(w, t)
  PROVE  SeenInv' /\ SucceededIsExported'
<1>1. UNCHANGED <<target, batch, item>> /\ tx[w].op = "process"
  BY ItemEffect, Zenon
<1>2. ExportStays
  BY <1>1, Zenon DEF ExportStays
<1>3. CASE tx' = [tx EXCEPT ![w] = Idle]
  <2>1. SeenFacts(tx'[w], target') /\ \A v \in Worker : v # w => tx'[v] = tx[v]
    BY <1>3, Zenon DEF SeenFacts, Idle, IInv, RowsOK
  <2>2. QED
    BY <1>1, <1>2, <2>1, SeenOnlyTx, Zenon
<1>4. CASE \E status \in ItemOutcome : Attempted(w, t, status)
  <2>1. /\ \A v \in Worker : v # w => tx'[v] = tx[v]
        /\ tx'[w].done = tx[w].done \cup {t}
        /\ \A u \in Target : u # t => tx'[w].seen[u] = tx[w].seen[u]
        /\ tx'[w].seen[t] = target[t]
    BY <1>1, <1>4, AttemptedFields
  <2>2. tx[w].done \in SUBSET Target
    BY <1>1, Running, Zenon DEF IInv
  <2>3. \A u \in tx[w].done : tx[w].seen[u].status = "exported" => target[u].status = "exported"
    BY <1>1, Zenon DEF SeenInv, SeenFacts
  <2>4. SeenFacts(tx'[w], target')
    BY <1>1, <2>1, <2>2, <2>3, Zenon DEF SeenFacts
  <2>5. QED
    BY <1>1, <1>2, <2>1, <2>4, SeenOnlyTx, ZenonT(60)
<1>5. QED
  BY <1>3, <1>4, ItemEffect, Zenon

\* A request that starts, reads or ends has changed no target.
LEMMA SeenRequest ==
  ASSUME IInv, SeenInv, SucceededIsExported, NEW w \in Worker,
         \/ \E b \in Batch, ts \in SUBSET Target : StartCrmExport(w, b, ts) \/ RetryRead(w, b, ts)
         \/ \E b \in Batch : ProcessTask(w, b)
         \/ RetryCommit(w) \/ ProcessRead(w) \/ Rollback(w)
  PROVE  SeenInv' /\ SucceededIsExported'
<1>1. UNCHANGED target
  BY Zenon DEF StartCrmExport, RetryRead, ProcessTask, RetryCommit, ProcessRead, Rollback
<1>2. PICK x : tx' = [tx EXCEPT ![w] = x] /\ (x.op = "process" => x.done = {})
  <2>1. Idle.op # "process" /\ \A b : Begin(b).op # "process"
    BY StartFields DEF Idle, Begin
  <2>2. \A b, row, items, seen, done :
          Transaction("retry", b, row, items, seen, done).op # "process"
    BY StartFields
  <2>3. \A b, row, items, seen :
          Transaction("process", b, row, items, seen, {}).done = {}
    BY StartFields, SMTT(60)
  <2>4. CASE \E b \in Batch, ts \in SUBSET Target : StartCrmExport(w, b, ts)
    BY <2>1, <2>4, Zenon DEF StartCrmExport
  <2>5. CASE \E b \in Batch, ts \in SUBSET Target : RetryRead(w, b, ts)
    <3>1. PICK b \in Batch, ts \in SUBSET Target : RetryRead(w, b, ts)
      BY <2>5, Zenon
    <3>2. tx' = [tx EXCEPT ![w] =
                   Transaction("retry", b, batch[b], item[b], NewTargets, Retryable(b, ts))]
      BY <3>1, Zenon DEF RetryRead
    <3>3. Transaction("retry", b, batch[b], item[b], NewTargets, Retryable(b, ts)).op # "process"
      BY <2>2, Zenon
    <3>4. QED
      BY <3>2, <3>3, Zenon
  <2>6. CASE \E b \in Batch : ProcessTask(w, b)
    BY <2>1, <2>6, Zenon DEF ProcessTask
  <2>7. CASE RetryCommit(w) \/ Rollback(w)
    BY <2>1, <2>7, ZenonT(60) DEF RetryCommit, Rollback
  <2>8. CASE ProcessRead(w)
    <3>1. \/ tx' = [tx EXCEPT ![w] = Idle]
          \/ tx' = [tx EXCEPT ![w] =
                      Transaction("process", tx[w].batch, batch[tx[w].batch],
                                  item[tx[w].batch], NewTargets, {})]
      BY <2>8, Zenon DEF ProcessRead
    <3>2. QED
      BY <2>1, <2>3, <3>1
  <2>9. QED
    BY <2>4, <2>5, <2>6, <2>7, <2>8, ZenonT(60)
<1>3. SeenFacts(tx'[w], target') /\ \A v \in Worker : v # w => tx'[v] = tx[v]
  <2>1. DOMAIN tx = Worker
    BY Zenon DEF IInv, RowsOK
  <2>2. tx'[w] = x /\ \A v \in Worker : v # w => tx'[v] = tx[v]
    BY <1>2, <2>1, Zenon
  <2>3. SeenFacts(x, target')
    BY <1>2, ZenonT(60) DEF SeenFacts
  <2>4. QED
    BY <2>2, <2>3, Zenon
<1>4. \A b \in Batch, t \in Target :
        item'[b][t].status = "succeeded" => item[b][t].status = "succeeded"
  <2>1. CASE \E b \in Batch, ts \in SUBSET Target : StartCrmExport(w, b, ts)
    <3>1. PICK b \in Batch, ts \in SUBSET Target : StartCrmExport(w, b, ts)
      BY <2>1, Zenon
    <3>2. CrmExportItem("pending", 0).status # "succeeded" /\ NoItem.status # "succeeded"
      BY Zenon DEF CrmExportItem, NoItem
    <3>3. QED
      BY <3>1, <3>2, Zenon DEF StartCrmExport, IInv, RowsOK
  <2>2. CASE RetryCommit(w)
    <3>1. \A n : CrmExportItem("pending", n).status # "succeeded"
      BY Zenon DEF CrmExportItem
    <3>2. tx[w].batch \in Batch
      BY <2>2, Running, ZenonT(60) DEF RetryCommit, IInv
    <3>3. QED
      BY <2>2, <3>1, <3>2, Zenon DEF RetryCommit, IInv, RowsOK
  <2>3. CASE UNCHANGED item
    BY <2>3, Zenon
  <2>4. QED
    BY <2>1, <2>2, <2>3 DEF RetryRead, ProcessTask, ProcessRead, Rollback
<1>5. QED
  BY <1>1, <1>3, <1>4, SeenOnlyTx, Zenon DEF ExportStays

(***************************************************************************)
(* As long as operators do not take an export back, the target of every    *)
(* succeeded item is exported, in whatever order requests over several     *)
(* batches of the target commit.                                           *)
(***************************************************************************)
THEOREM SucceededExported ==
  ASSUME EditStatus \subseteq {"exported"}
  PROVE  Spec => []SucceededIsExported
<1>1. Init => SeenInv /\ SucceededIsExported
  BY DEF Init, SeenInv, SeenFacts, Idle, SucceededIsExported, NoItems, NoItem, CrmExportItem
<1>2. IInv /\ SeenInv /\ SucceededIsExported /\ [Next]_vars => SeenInv' /\ SucceededIsExported'
  <2> SUFFICES ASSUME IInv, SeenInv, SucceededIsExported, [Next]_vars
               PROVE  SeenInv' /\ SucceededIsExported'
    BY Zenon
  <2>1. ASSUME NEW w \in Worker,
               \/ \E b \in Batch, ts \in SUBSET Target :
                    StartCrmExport(w, b, ts) \/ RetryRead(w, b, ts)
               \/ \E b \in Batch : ProcessTask(w, b)
               \/ RetryCommit(w) \/ ProcessRead(w) \/ Abort(w)
        PROVE  SeenInv' /\ SucceededIsExported'
    BY <2>1, SeenRequest, Zenon DEF Abort
  <2>2. ASSUME NEW w \in Worker, NEW t \in Target, ProcessItem(w, t)
        PROVE  SeenInv' /\ SucceededIsExported'
    BY <2>2, SeenItem, Zenon
  <2>3. ASSUME NEW w \in Worker, ProcessCommit(w)
        PROVE  SeenInv' /\ SucceededIsExported'
    BY <2>3, SeenComplete, SeenRequest, Zenon DEF ProcessCommit
  <2>4. ASSUME NEW t \in Target, UpdateCrmTarget(t)
        PROVE  SeenInv' /\ SucceededIsExported'
    <3>1. ExportStays
      BY <2>4 DEF UpdateCrmTarget, ExportStays, CrmTarget, IInv, RowsOK
    <3>2. UNCHANGED <<item, tx>>
      BY <2>4, Zenon DEF UpdateCrmTarget
    <3>3. SucceededIsExported'
      BY <3>1, <3>2, Zenon DEF SucceededIsExported, ExportStays
    <3>4. ASSUME NEW v \in Worker PROVE SeenFacts(tx'[v], target')
      <4>1. CASE tx[v].op = "process"
        <5>1. tx[v].done \in SUBSET Target
          BY <4>1, Running, Zenon DEF IInv
        <5>2. QED
          BY <3>1, <3>2, <5>1, Zenon DEF SeenInv, SeenFacts, ExportStays
      <4>2. QED
        BY <3>2, <4>1, Zenon DEF SeenFacts
    <3>5. QED
      BY <3>3, <3>4, Zenon DEF SeenInv
  <2>5. ASSUME NEW t \in Target, PolicyChange(t)
        PROVE  SeenInv' /\ SucceededIsExported'
    BY <2>5, Zenon DEF PolicyChange, SeenInv, SucceededIsExported
  <2>6. CASE UNCHANGED vars
    BY <2>6, Zenon DEF vars, SeenInv, SucceededIsExported
  <2>7. QED
    BY <2>1, <2>2, <2>3, <2>4, <2>5, <2>6, Zenon DEF Next, Progress
<1>3. QED
  BY <1>1, <1>2, ExportInvariant, PTL DEF Spec
-----------------------------------------------------------------------------
(* One request at a time *)

\* The only running request works on the batch as it is: its copies are not stale.
FreshInv ==
  \A w \in Worker :
    /\ tx[w].op \in {"retry", "process"} => tx[w].row = batch[tx[w].batch]
    /\ tx[w].op = "process" =>
         \A t \in Target : t \notin tx[w].done => tx[w].item[t] = item[tx[w].batch][t]

SettledInv == FreshInv /\ CompletedIsSettled

\* What a batch must satisfy depends on its row and its items only.
LEMMA SettledSame ==
  ASSUME CompletedIsSettled, UNCHANGED <<batch, item>>
  PROVE  CompletedIsSettled'
BY Zenon DEF CompletedIsSettled

\* A request that holds no batch has no stale copy.
LEMMA NotFresh ==
  ASSUME IInv, \A v, w \in Worker : v = w, NEW w \in Worker, NEW x,
         tx' = [tx EXCEPT ![w] = x], x.op \notin {"retry", "process"}
  PROVE  FreshInv'
BY Zenon DEF FreshInv, IInv, RowsOK

\* The commit of a processing settles its batch.
LEMMA SettledComplete ==
  ASSUME IInv, SettledInv, \A v, w \in Worker : v = w, NEW w \in Worker,
         tx[w].op = "process", PendingOf(tx[w].item) = {}, CompleteBatch(w)
  PROVE  SettledInv'
<1> DEFINE b == tx[w].batch
           items == tx[w].item
           done == tx[w].done
           status == BatchStatusOf(items)
<1>1. b \in Batch /\ done \in SUBSET Target /\ items \in [Target -> ItemRow]
  BY Running, Zenon DEF IInv
<1>2. tx[w].row = batch[b] /\ \A t \in Target : t \notin done => items[t] = item[b][t]
  BY Zenon DEF SettledInv, FreshInv
<1>3. item'[b] = items /\ \A c \in Batch : c # b => item'[c] = item[c]
  <2>1. item' = [item EXCEPT ![b] =
                   [t \in Target |-> IF t \in done THEN items[t] ELSE item[b][t]]]
    BY Zenon DEF CompleteBatch
  <2>2. [t \in Target |-> IF t \in done THEN items[t] ELSE item[b][t]] = items
    BY <1>1, <1>2, Zenon
  <2>3. QED
    BY <1>1, <2>1, <2>2, Zenon DEF IInv, RowsOK
<1>4. /\ batch'[b] = CrmExportBatch(status, TRUE)
      /\ \A c \in Batch : c # b => batch'[c] = batch[c]
  <2>1. Written(tx[w].row.status, status, batch[b].status) = status
    BY <1>2, Zenon DEF Written
  <2>2. batch' = [batch EXCEPT ![b] =
                    CrmExportBatch(
                      Written(tx[w].row.status, status, batch[b].status), TRUE)]
    BY ZenonT(60) DEF CompleteBatch
  <2>3. QED
    BY <1>1, <2>1, <2>2, Zenon DEF IInv, RowsOK
<1>5. batch'[b].status = status
  BY <1>4 DEF CrmExportBatch
<1>6. CompletedIsSettled'
  <2>1. ASSUME NEW c \in Batch, batch'[c].completed
        PROVE  PendingOf(item'[c]) = {} /\ batch'[c].status = BatchStatusOf(item'[c])
    <3>1. CASE c = b
      BY <3>1, <1>3, <1>5, Zenon
    <3>2. CASE c # b
      BY <3>2, <2>1, <1>3, <1>4, Zenon DEF SettledInv, CompletedIsSettled
    <3>3. QED
      BY <3>1, <3>2, Zenon
  <2>2. QED
    BY <2>1, Zenon DEF CompletedIsSettled, PendingOf, BatchStatusOf, ItemsOf
<1>7. FreshInv'
  <2>1. tx' = [tx EXCEPT ![w] = Idle] /\ Idle.op \notin {"retry", "process"}
    BY Zenon DEF CompleteBatch, Idle
  <2>2. QED
    BY <2>1, NotFresh, Zenon
<1>8. QED
  BY <1>6, <1>7, Zenon DEF SettledInv

\* Starting or reopening a batch leaves it without a completed_at.
LEMMA SettledOpen ==
  ASSUME IInv, SettledInv, \A v, w \in Worker : v = w, NEW w \in Worker,
         \/ \E b \in Batch, ts \in SUBSET Target : StartCrmExport(w, b, ts)
         \/ RetryCommit(w)
  PROVE  SettledInv'
<1>1. PICK b \in Batch :
        /\ tx' = [tx EXCEPT ![w] = Begin(b)]
        /\ ~batch'[b].completed
        /\ \A c \in Batch : c # b => batch'[c] = batch[c] /\ item'[c] = item[c]
  <2>1. CASE \E b \in Batch, ts \in SUBSET Target : StartCrmExport(w, b, ts)
    <3>1. PICK b \in Batch, ts \in SUBSET Target : StartCrmExport(w, b, ts)
      BY <2>1, Zenon
    <3>2. ~CrmExportBatch("running", FALSE).completed
      BY Zenon DEF CrmExportBatch
    <3>3. QED
      BY <3>1, <3>2, Zenon DEF StartCrmExport, IInv, RowsOK
  <2>2. CASE RetryCommit(w)
    <3>1. tx[w].op = "retry" /\ tx[w].batch \in Batch
      BY <2>2, Running, SMTT(60) DEF RetryCommit, IInv
    <3>2. tx[w].row = batch[tx[w].batch] /\ batch[tx[w].batch] \in BatchRow
      BY <3>1, Zenon DEF SettledInv, FreshInv, IInv, RowsOK
    <3>3. \A s : ~CrmExportBatch(s, Written(tx[w].row.completed, FALSE,
                                            batch[tx[w].batch].completed)).completed
      BY <3>2, Zenon DEF CrmExportBatch, Written, BatchRow
    <3>4. QED
      BY <2>2, <3>1, <3>3, ZenonT(60) DEF RetryCommit, IInv, RowsOK
  <2>3. QED
    BY <2>1, <2>2, Zenon
<1>2. CompletedIsSettled'
  <2>1. ASSUME NEW c \in Batch, batch'[c].completed
        PROVE  PendingOf(item'[c]) = {} /\ batch'[c].status = BatchStatusOf(item'[c])
    BY <1>1, <2>1, Zenon DEF SettledInv, CompletedIsSettled
  <2>2. QED
    BY <2>1, Zenon DEF CompletedIsSettled, PendingOf, BatchStatusOf, ItemsOf
<1>3. FreshInv'
  BY <1>1, Fresh, NotFresh, ZenonT(60)
<1>4. QED
  BY <1>2, <1>3, Zenon DEF SettledInv

\* Reading a batch takes copies that are up to date.
LEMMA SettledRead ==
  ASSUME IInv, SettledInv, \A v, w \in Worker : v = w, NEW w \in Worker,
         \/ \E b \in Batch, ids \in SUBSET Target : RetryRead(w, b, ids)
         \/ \E b \in Batch : ProcessTask(w, b)
         \/ ProcessRead(w)
  PROVE  SettledInv'
<1>1. UNCHANGED <<batch, item>>
  BY DEF RetryRead, ProcessTask, ProcessRead
<1>2. CompletedIsSettled'
  BY <1>1, SettledSame, Zenon DEF SettledInv
<1>3. ASSUME NEW b \in Batch, NEW op, NEW done,
             tx' = [tx EXCEPT ![w] = Transaction(op, b, batch[b], item[b], NewTargets, done)]
      PROVE  FreshInv'
  <2>1. /\ tx'[w].op = op /\ tx'[w].batch = b /\ tx'[w].row = batch[b]
        /\ tx'[w].item = item[b]
    BY <1>3, StartFields, SMTT(60) DEF IInv, RowsOK
  <2>2. QED
    BY <1>1, <2>1, ZenonT(60) DEF FreshInv
<1>4. CASE \E b \in Batch, ids \in SUBSET Target : RetryRead(w, b, ids)
  <2>1. PICK b \in Batch, ids \in SUBSET Target : RetryRead(w, b, ids)
    BY <1>4, ZenonT(60)
  <2>2. tx' = [tx EXCEPT ![w] =
                 Transaction("retry", b, batch[b], item[b], NewTargets, Retryable(b, ids))]
    BY <2>1 DEF RetryRead
  <2>3. QED
    BY <1>2, <1>3, <2>2, Zenon DEF SettledInv
<1>5. CASE \E b \in Batch : ProcessTask(w, b)
  BY <1>2, <1>5, Fresh, NotFresh, ZenonT(60) DEF ProcessTask, SettledInv
<1>6. CASE ProcessRead(w)
  <2>1. tx[w].batch \in Batch
    BY <1>6, Running, ZenonT(60) DEF ProcessRead, IInv
  <2>2. \/ tx' = [tx EXCEPT ![w] = Idle]
        \/ tx' = [tx EXCEPT ![w] =
                    Transaction("process", tx[w].batch, batch[tx[w].batch],
                                item[tx[w].batch], NewTargets, {})]
    BY <1>6 DEF ProcessRead
  <2>3. CASE tx' = [tx EXCEPT ![w] = Idle]
    <3>1. Idle.op \notin {"retry", "process"}
      BY Zenon DEF Idle
    <3>2. QED
      BY <1>2, <2>3, <3>1, NotFresh, Zenon DEF SettledInv
  <2>4. QED
    BY <1>2, <1>3, <2>1, <2>2, <2>3, Zenon DEF SettledInv
<1>7. QED
  BY <1>4, <1>5, <1>6, ZenonT(60)

\* A turn of the loop, or a rollback.
LEMMA SettledItem ==
  ASSUME IInv, SettledInv, \A v, w \in Worker : v = w, NEW w \in Worker,
         \/ \E t \in Target : ProcessItem(w, t)
         \/ Rollback(w)
  PROVE  SettledInv'
<1>1. UNCHANGED <<batch, item>>
  BY ItemEffect, Zenon DEF Rollback
<1>2. CompletedIsSettled'
  BY <1>1, SettledSame, Zenon DEF SettledInv
<1>3. CASE tx' = [tx EXCEPT ![w] = Idle]
  <2>1. Idle.op \notin {"retry", "process"}
    BY Zenon DEF Idle
  <2>2. QED
    BY <1>2, <1>3, <2>1, NotFresh, ZenonT(60) DEF SettledInv
<1>4. ASSUME NEW t \in Target, NEW status \in ItemOutcome, tx[w].op = "process",
             Attempted(w, t, status)
      PROVE  SettledInv'
  <2>1. /\ tx'[w].op = "process" /\ tx'[w].batch = tx[w].batch /\ tx'[w].row = tx[w].row
        /\ tx'[w].done = tx[w].done \cup {t}
        /\ \A u \in Target : u # t => tx'[w].item[u] = tx[w].item[u]
    BY <1>4, AttemptedFields
  <2>2. /\ tx[w].row = batch[tx[w].batch]
        /\ \A u \in Target : u \notin tx[w].done => tx[w].item[u] = item[tx[w].batch][u]
    BY <1>4, ZenonT(60) DEF SettledInv, FreshInv
  <2>3. FreshInv'
    BY <1>1, <2>1, <2>2 DEF FreshInv
  <2>4. QED
    BY <1>2, <2>3, ZenonT(60) DEF SettledInv
<1>5. QED
  BY <1>3, <1>4, ItemEffect, Zenon DEF Rollback

\* With one request at a time no step unsettles a batch.
LEMMA SettledStep ==
  ASSUME \A v, w \in Worker : v = w
  PROVE  IInv /\ SettledInv /\ [Next]_vars => SettledInv'
<1> SUFFICES ASSUME IInv, SettledInv, [Next]_vars PROVE SettledInv'
  BY Zenon
<1>1. ASSUME NEW w \in Worker, NEW b \in Batch, NEW ts \in SUBSET Target,
             StartCrmExport(w, b, ts)
      PROVE  SettledInv'
  BY <1>1, SettledOpen, Zenon
<1>2. ASSUME NEW w \in Worker,
             \/ \E b \in Batch, ids \in SUBSET Target : RetryRead(w, b, ids)
             \/ \E b \in Batch : ProcessTask(w, b)
             \/ ProcessRead(w)
      PROVE  SettledInv'
  BY <1>2, SettledRead, Zenon
<1>3. ASSUME NEW w \in Worker, RetryCommit(w) PROVE SettledInv'
  BY <1>3, SettledOpen, Zenon
<1>4. ASSUME NEW w \in Worker, NEW t \in Target, ProcessItem(w, t) PROVE SettledInv'
  BY <1>4, SettledItem, Zenon
<1>5. ASSUME NEW w \in Worker, ProcessCommit(w) \/ Abort(w) PROVE SettledInv'
  BY <1>5, SettledComplete, SettledItem, ZenonT(60) DEF ProcessCommit, Abort
<1>6. ASSUME NEW t \in Target, UpdateCrmTarget(t) \/ PolicyChange(t) PROVE SettledInv'
  BY <1>6, SettledSame, SMTT(60) DEF UpdateCrmTarget, PolicyChange, SettledInv, FreshInv
<1>7. CASE UNCHANGED vars
  BY <1>7, SettledSame, Zenon DEF vars, SettledInv, FreshInv
<1>8. QED
  BY <1>1, <1>2, <1>3, <1>4, <1>5, <1>6, <1>7, ZenonT(60) DEF Next, Progress

(***************************************************************************)
(* When requests do not overlap, a batch with a completed_at has nothing   *)
(* pending and the status of its items, whatever dies, times out or is     *)
(* retried in part.                                                        *)
(***************************************************************************)
THEOREM CompletedSettled ==
  ASSUME \A v, w \in Worker : v = w
  PROVE  Spec => []CompletedIsSettled
<1>1. Init => SettledInv
  BY DEF Init, SettledInv, FreshInv, Idle, CompletedIsSettled, NoBatch, CrmExportBatch
<1>2. IInv /\ SettledInv /\ [Next]_vars => SettledInv'
  BY SettledStep, Zenon
<1>3. SettledInv => CompletedIsSettled
  BY ZenonT(60) DEF SettledInv
<1>4. QED
  BY <1>1, <1>2, <1>3, ExportInvariant, PTL DEF Spec
-----------------------------------------------------------------------------
(* Requests one at a time: a success is not repeated.                      *)

\* What the only running request has set out to change is not a success: a retry has selected
\* failed items, a processing has dealt with pending ones; and a key without a batch has no items.
AttemptFacts(x) ==
  /\ x.op = "retry" =>
       \A t \in x.done : item[x.batch][t].status = "failed_retryable"
  /\ x.op = "process" =>
       \A t \in x.done : item[x.batch][t].status = "pending"

\* The invariant for requests one at a time.
AttemptInv ==
  /\ \A b \in Batch : batch[b].status = "none" =>
       \A t \in Target : item[b][t].status = "none"
  /\ \A w \in Worker : AttemptFacts(tx[w])

\* A step that leaves batches and items alone.
LEMMA AttemptMoves ==
  ASSUME IInv, AttemptInv, \A v, w \in Worker : v = w, UNCHANGED <<batch, item>>,
         NEW w \in Worker, NEW x, tx' = [tx EXCEPT ![w] = x], AttemptFacts(x)
  PROVE  AttemptInv'
<1>1. \A v \in Worker : tx'[v] = x
  BY Zenon DEF IInv, RowsOK
<1>2. AttemptFacts(x)'
  BY Zenon DEF AttemptFacts
<1>. QED
  BY <1>1, <1>2 DEF AttemptInv, AttemptFacts

\* Requests that hold no batch.
LEMMA NothingAttempted ==
  ASSUME NEW x, x.op \notin {"retry", "process"}
  PROVE  AttemptFacts(x) /\ AttemptFacts(x)'
BY ZenonT(60) DEF AttemptFacts

\* The batch of a commit: its row gets a status, and it may have any items.
LEMMA AttemptCommits ==
  ASSUME IInv, AttemptInv, \A v, w \in Worker : v = w, NEW w \in Worker, NEW x,
         tx' = [tx EXCEPT ![w] = x], x.op \notin {"retry", "process"},
         NEW b \in Batch, batch'[b].status # "none",
         \A c \in Batch : c # b => batch'[c] = batch[c] /\ item'[c] = item[c]
  PROVE  AttemptInv'
<1>1. \A v \in Worker : tx'[v] = x
  BY Zenon DEF IInv, RowsOK
<1>2. \A v \in Worker : AttemptFacts(tx[v])'
  BY <1>1, Zenon DEF AttemptFacts
<1>. QED
  BY <1>2 DEF AttemptInv

\* One request at a time: a commit changes no item that has succeeded.
LEMMA StartAttempts ==
  ASSUME IInv, SettledInv, AttemptInv, \A v, w \in Worker : v = w, NEW w \in Worker,
         NEW b \in Batch, NEW ts \in SUBSET Target, StartCrmExport(w, b, ts)
  PROVE  /\ AttemptInv'
         /\ \A c \in Batch, t \in Target : item[c][t].status = "succeeded" =>
              item'[c][t] = item[c][t]
<1>1. /\ tx' = [tx EXCEPT ![w] = Begin(b)] /\ batch[b] = NoBatch
      /\ batch' = [batch EXCEPT ![b] = CrmExportBatch("running", FALSE)]
      /\ \A c \in Batch : c # b => item'[c] = item[c]
  BY ZenonT(60) DEF StartCrmExport, IInv, RowsOK
<1>2. /\ CrmExportBatch("running", FALSE).status = "running" /\ batch[b].status = "none"
  BY <1>1 DEF CrmExportBatch, NoBatch
<1>3. batch'[b].status = "running" /\ \A c \in Batch : c # b => batch'[c] = batch[c]
  BY <1>1, <1>2, Zenon DEF IInv, RowsOK
<1>4. Begin(b).op = "begin"
  BY Fresh, Zenon
<1>5. AttemptInv'
  <2>1. PICK x : x = Begin(b)
    BY Zenon
  <2>. QED
    BY <1>1, <1>3, <1>4, <2>1, AttemptCommits, Zenon
<1>. QED
  BY <1>1, <1>2, <1>5, Zenon DEF AttemptInv

\* A retry selects failed items only.
LEMMA RetryAttempts ==
  ASSUME IInv, SettledInv, AttemptInv, \A v, w \in Worker : v = w, NEW w \in Worker,
         RetryCommit(w)
  PROVE  /\ AttemptInv'
         /\ \A c \in Batch, t \in Target : item[c][t].status = "succeeded" =>
              item'[c][t] = item[c][t]
<1>. DEFINE b == tx[w].batch
<1>1. tx[w].op = "retry" /\ b \in Batch /\ tx[w].done \in SUBSET Target
  BY Running, Zenon DEF RetryCommit, IInv
<1>2. tx[w].row = batch[b]
  BY <1>1, Zenon DEF SettledInv, FreshInv
<1>3. PICK s, r : /\ batch' = [batch EXCEPT ![b] = CrmExportBatch(s, r)]
                  /\ s = Written(tx[w].row.status, "running", batch[b].status)
  BY Zenon DEF RetryCommit
<1>4. s = "running" /\ CrmExportBatch(s, r).status = s
  BY <1>2, <1>3, Zenon DEF Written, CrmExportBatch
<1>5. batch'[b].status = "running" /\ \A c \in Batch : c # b => batch'[c] = batch[c]
  BY <1>1, <1>3, <1>4, Zenon DEF IInv, RowsOK
<1>6. /\ \A c \in Batch : c # b => item'[c] = item[c]
      /\ \A t \in Target : t \notin tx[w].done => item'[b][t] = item[b][t]
      /\ tx' = [tx EXCEPT ![w] = Begin(b)]
  BY <1>1, Zenon DEF RetryCommit, IInv, RowsOK
<1>7. \A t \in tx[w].done : item[b][t].status = "failed_retryable"
  BY <1>1, Zenon DEF AttemptInv, AttemptFacts
<1>8. AttemptInv'
  <2>1. PICK x : x = Begin(b)
    BY Zenon
  <2>2. PICK c \in Batch : c = b
    BY <1>1, Zenon
  <2>3. x.op = "begin"
    BY <2>1, <2>2, Fresh, Zenon
  <2>. QED
    BY <1>5, <1>6, <2>1, <2>2, <2>3, AttemptCommits, ZenonT(60)
<1>. QED
  BY <1>6, <1>7, <1>8, Zenon

\* The end of a processing leaves successes alone.
LEMMA CompleteAttempts ==
  ASSUME IInv, SettledInv, AttemptInv, \A v, w \in Worker : v = w, NEW w \in Worker,
         tx[w].op = "process", CompleteBatch(w)
  PROVE  /\ AttemptInv'
         /\ \A c \in Batch, t \in Target : item[c][t].status = "succeeded" =>
              item'[c][t] = item[c][t]
<1>. DEFINE b == tx[w].batch
<1>1. b \in Batch /\ tx[w].done \in SUBSET Target /\ tx[w].row = batch[b]
  BY Running, Zenon DEF IInv, SettledInv, FreshInv
<1>2. PICK s : /\ batch' = [batch EXCEPT ![b] = CrmExportBatch(s, TRUE)]
               /\ s = Written(tx[w].row.status, BatchStatusOf(tx[w].item), batch[b].status)
  BY Zenon DEF CompleteBatch
<1>3. BatchStatusOf(tx[w].item) # "none"
  <2>1. CASE {tx[w].item[t].status : t \in ItemsOf(tx[w].item)} \subseteq SUCCESS_ITEM_STATUSES
    BY <2>1, Zenon DEF BatchStatusOf
  <2>2. CASE /\ ~({tx[w].item[t].status : t \in ItemsOf(tx[w].item)}
                 \subseteq SUCCESS_ITEM_STATUSES)
             /\ {tx[w].item[t].status : t \in ItemsOf(tx[w].item)} \subseteq FAILED_ITEM_STATUSES
    BY <2>2, Zenon DEF BatchStatusOf
  <2>3. CASE /\ ~({tx[w].item[t].status : t \in ItemsOf(tx[w].item)}
                 \subseteq SUCCESS_ITEM_STATUSES)
             /\ ~({tx[w].item[t].status : t \in ItemsOf(tx[w].item)} \subseteq FAILED_ITEM_STATUSES)
    BY <2>3, Zenon DEF BatchStatusOf
  <2>. QED
    BY <2>1, <2>2, <2>3, Zenon
<1>4. s # "none" /\ CrmExportBatch(s, TRUE).status = s
  BY <1>1, <1>2, <1>3, Zenon DEF Written, CrmExportBatch
<1>5. batch'[b].status # "none" /\ \A c \in Batch : c # b => batch'[c] = batch[c]
  BY <1>1, <1>2, <1>4, Zenon DEF IInv, RowsOK
<1>6. /\ \A c \in Batch : c # b => item'[c] = item[c]
      /\ \A t \in Target : t \notin tx[w].done => item'[b][t] = item[b][t]
      /\ tx' = [tx EXCEPT ![w] = Idle]
  BY <1>1, Zenon DEF CompleteBatch, IInv, RowsOK
<1>7. \A t \in tx[w].done : item[b][t].status = "pending"
  BY <1>1, Zenon DEF AttemptInv, AttemptFacts
<1>8. AttemptInv'
  <2>1. PICK x : x = Idle
    BY Zenon
  <2>2. PICK c \in Batch : c = b
    BY <1>1, Zenon
  <2>3. x.op = "idle"
    BY <2>1, Zenon DEF Idle
  <2>. QED
    BY <1>5, <1>6, <2>1, <2>2, <2>3, AttemptCommits, ZenonT(60)
<1>. QED
  BY <1>6, <1>7, <1>8, Zenon

\* A request begins, reads a batch, ends without a commit, or deals with an item.
LEMMA RequestAttempts ==
  ASSUME IInv, SettledInv, AttemptInv, \A v, w \in Worker : v = w, NEW w \in Worker,
         \/ \E b \in Batch, ids \in SUBSET Target : RetryRead(w, b, ids)
         \/ \E b \in Batch : ProcessTask(w, b)
         \/ ProcessRead(w) \/ Rollback(w)
  PROVE  AttemptInv' /\ UNCHANGED item
<1>1. UNCHANGED <<batch, item>>
  BY Zenon DEF RetryRead, ProcessTask, ProcessRead, Rollback
<1>2. PICK x : tx' = [tx EXCEPT ![w] = x] /\ AttemptFacts(x)
  <2>1. Idle.op = "idle" /\ \A b \in Batch : Begin(b).op = "begin"
    BY Fresh, Zenon DEF Idle
  <2>2. CASE \E b \in Batch, ids \in SUBSET Target : RetryRead(w, b, ids)
    <3>1. PICK b \in Batch, ids \in SUBSET Target : RetryRead(w, b, ids)
      BY <2>2, Zenon
    <3>2. PICK x : x = Transaction("retry", b, batch[b], item[b], NewTargets, Retryable(b, ids))
      BY Zenon
    <3>3. x.op = "retry" /\ x.batch = b /\ x.done = Retryable(b, ids)
      BY <3>2, Zenon DEF Transaction
    <3>4. AttemptFacts(x)
      BY <3>3, Zenon DEF AttemptFacts, Retryable
    <3>. QED
      BY <3>1, <3>2, <3>4, Zenon DEF RetryRead
  <2>3. CASE \E b \in Batch : ProcessTask(w, b)
    BY <2>1, <2>3, NothingAttempted, Zenon DEF ProcessTask
  <2>4. CASE Rollback(w)
    BY <2>1, <2>4, NothingAttempted, Zenon DEF Rollback
  <2>5. CASE ProcessRead(w)
    <3>1. PICK x : x = Transaction("process", tx[w].batch, batch[tx[w].batch], item[tx[w].batch],
                                   NewTargets, {})
      BY Zenon
    <3>2. x.op = "process" /\ x.done = {}
      BY <3>1, Zenon DEF Transaction
    <3>3. AttemptFacts(x) /\ AttemptFacts(Idle)
      BY <2>1, <3>2, Zenon DEF AttemptFacts
    <3>. QED
      BY <2>5, <3>1, <3>3, Zenon DEF ProcessRead
  <2>. QED
    BY <2>2, <2>3, <2>4, <2>5, Zenon
<1>. QED
  BY <1>1, <1>2, AttemptMoves, Zenon

\* The processing of an item leaves successes alone.
LEMMA ItemAttempts ==
  ASSUME IInv, SettledInv, AttemptInv, \A v, w \in Worker : v = w, NEW w \in Worker,
         NEW t \in Target, ProcessItem(w, t)
  PROVE  AttemptInv' /\ UNCHANGED item
<1>1. /\ tx[w].op = "process" /\ t \in PendingOf(tx[w].item) /\ UNCHANGED <<target, batch, item>>
      /\ \/ tx' = [tx EXCEPT ![w] = Idle]
         \/ \E status \in ItemOutcome : Attempted(w, t, status)
  BY ItemEffect, Zenon
<1>2. CASE tx' = [tx EXCEPT ![w] = Idle]
  <2>1. AttemptFacts(Idle)
    BY Zenon DEF AttemptFacts, Idle
  <2>. QED
    BY <1>1, <1>2, <2>1, AttemptMoves, ZenonT(60)
<1>3. ASSUME NEW status \in ItemOutcome, Attempted(w, t, status) PROVE AttemptInv'
  <2>1. tx'[w].op = "process" /\ tx'[w].batch = tx[w].batch /\ tx'[w].done = tx[w].done \cup {t}
    BY <1>1, <1>3, AttemptedFields, Zenon
  <2>2. PICK x : tx' = [tx EXCEPT ![w] = x]
    BY <1>3, Zenon DEF Attempted
  <2>3. x = tx'[w]
    BY <2>2, Zenon DEF IInv, RowsOK
  <2>4. item[tx[w].batch][t].status = "pending"
    <3>1. t \notin tx[w].done
      BY <1>1, Zenon DEF IInv, TxInv, TxFacts, PendingOf, ItemOutcome, SUCCESS_ITEM_STATUSES,
                  FAILED_ITEM_STATUSES
    <3>. QED
      BY <1>1, <3>1, Zenon DEF SettledInv, FreshInv, PendingOf
  <2>5. \A u \in tx[w].done : item[tx[w].batch][u].status = "pending"
    BY <1>1, Zenon DEF AttemptInv, AttemptFacts
  <2>6. AttemptFacts(x)
    BY <2>1, <2>3, <2>4, <2>5, Zenon DEF AttemptFacts
  <2>. QED
    BY <1>1, <2>2, <2>6, AttemptMoves, Zenon
<1>. QED
  BY <1>1, <1>2, <1>3, ZenonT(60)

(***************************************************************************)
(* "Retries operate on failed items and never duplicate successful object  *)
(* or list-entry writes": when requests do not overlap, no step changes    *)
(* the status or the attempts of an item that has succeeded.               *)
(***************************************************************************)
THEOREM SucceededStays ==
  ASSUME \A v, w \in Worker : v = w
  PROVE  Spec => SuccessNotRepeated
<1>. DEFINE Kept == \A b \in Batch, t \in Target :
                      item[b][t].status = "succeeded" => item'[b][t] = item[b][t]
<1>1. Init => SettledInv /\ AttemptInv
  <2>1. Init => SettledInv
    BY DEF Init, SettledInv, FreshInv, Idle, CompletedIsSettled, NoBatch, CrmExportBatch
  <2>. QED
    BY <2>1 DEF Init, AttemptInv, AttemptFacts, Idle, NoItems, NoItem, CrmExportItem
<1>2. IInv /\ SettledInv /\ AttemptInv /\ [Next]_vars => AttemptInv' /\ Kept
  <2>. SUFFICES ASSUME IInv, SettledInv, AttemptInv, [Next]_vars PROVE AttemptInv' /\ Kept
    BY Zenon
  <2>1. UNCHANGED item => Kept
    BY Zenon
  <2>2. ASSUME NEW w \in Worker, NEW b \in Batch, NEW ts \in SUBSET Target, StartCrmExport(w, b, ts)
        PROVE  AttemptInv' /\ Kept
    BY <2>2, StartAttempts, Zenon
  <2>3. ASSUME NEW w \in Worker, RetryCommit(w) PROVE AttemptInv' /\ Kept
    BY <2>3, RetryAttempts, Zenon
  <2>4. ASSUME NEW w \in Worker, NEW t \in Target, ProcessItem(w, t) PROVE AttemptInv' /\ Kept
    BY <2>1, <2>4, ItemAttempts, Zenon
  <2>. HIDE DEF Kept
  <2>5. ASSUME NEW w \in Worker,
               \/ \E b \in Batch, ids \in SUBSET Target : RetryRead(w, b, ids)
               \/ \E b \in Batch : ProcessTask(w, b)
               \/ ProcessRead(w) \/ Rollback(w)
        PROVE  AttemptInv' /\ Kept
    BY <2>1, <2>5, RequestAttempts, Zenon
  <2>6. ASSUME NEW w \in Worker, ProcessCommit(w) \/ Abort(w) PROVE AttemptInv' /\ Kept
    <3>1. (tx[w].op = "process" /\ CompleteBatch(w)) \/ Rollback(w)
      BY <2>6, Zenon DEF ProcessCommit, Abort
    <3>. QED
      BY <2>5, <3>1, CompleteAttempts, Zenon DEF Kept
  <2>7. CASE UNCHANGED vars \/ \E t \in Target : UpdateCrmTarget(t) \/ PolicyChange(t)
    <3>1. UNCHANGED <<batch, item, tx>>
      BY <2>7, Zenon DEF vars, UpdateCrmTarget, PolicyChange
    <3>. QED
      BY <2>1, <3>1, Zenon DEF AttemptInv, AttemptFacts
  <2>. QED
    BY <2>2, <2>3, <2>4, <2>5, <2>6, <2>7, ZenonT(60) DEF Next, Progress
<1>3. IInv /\ SettledInv /\ [Next]_vars => SettledInv'
  BY SettledStep, Zenon
<1>4. [Kept]_vars <=> [\A b \in Batch, t \in Target :
                        item[b][t].status = "succeeded" => item'[b][t] = item[b][t]]_vars
  BY Zenon
<1>. QED
  BY <1>1, <1>2, <1>3, ExportInvariant, PTL DEF Spec, SuccessNotRepeated
=============================================================================
