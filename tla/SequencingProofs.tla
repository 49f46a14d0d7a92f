-------------------------- MODULE SequencingProofs --------------------------
(***************************************************************************)
(* Proofs about Sequencing, for any number of enrollments, workers, steps  *)
(* and messages: no interleaving of handlers, rollback or SMTP error makes *)
(* an enrollment skip a step, complete early or record an e-mail that was  *)
(* not sent; and while handlers do not overlap, an active enrollment has   *)
(* work and no e-mail is sent twice.                                       *)
(***************************************************************************)
EXTENDS Sequencing, TLAPS
-----------------------------------------------------------------------------
(* The handlers by what they do *)

Scheduler == {"send_next", "policy_pause", "policy_suppress", "activity", "defer", "present"}
Approval == {"approve", "approve_sent", "approve_failed"}

\* Handlers that work on one step know which.
StepTyped ==
  \A w \in Worker :
    tx[w].op \in Scheduler \cup Approval \cup {"refused", "complete"} => tx[w].s \in Step

TypeInv == TypeOK /\ StepTyped

-----------------------------------------------------------------------------
(* Type correctness *)

\* The row every enrollment change writes is a row.
LEMMA RowTypes ==
  ASSUME NEW c \in EnrollmentRow, NEW r \in EnrollmentRow
  PROVE  /\ \A status \in EnrollmentStatus : SetStatus(c, r, status) \in EnrollmentRow
         /\ PauseForPolicy(c, r) \in EnrollmentRow
         /\ SuppressEnrollment(c, r) \in EnrollmentRow
         /\ CompleteEnrollment(c, r) \in EnrollmentRow
         /\ ResumeEnrollment(c, r) \in EnrollmentRow
         /\ \A s \in Step : AdvanceEnrollment(c, r, s) \in EnrollmentRow
<1>1. \A status \in EnrollmentStatus : SetStatus(c, r, status) \in EnrollmentRow
  BY DEF SetStatus, Written, EnrollmentRow
<1>2. {"paused", "suppressed", "completed", "active"} \subseteq EnrollmentStatus
  BY Zenon DEF EnrollmentStatus, TERMINAL_ENROLLMENT_STATUSES
<1>3. CompleteEnrollment(c, r) \in EnrollmentRow
  BY <1>2 DEF CompleteEnrollment, Written, ClearedNext, EnrollmentRow
<1>4. ResumeEnrollment(c, r) \in EnrollmentRow
  BY <1>2 DEF ResumeEnrollment, Written, EnrollmentRow
<1>5. \A s \in Step : AdvanceEnrollment(c, r, s) \in EnrollmentRow
  BY <1>3, StepAssumption DEF AdvanceEnrollment, Written, EnrollmentRow, Step
<1>6. QED
  BY <1>1, <1>2, <1>3, <1>4, <1>5, Zenon DEF PauseForPolicy, SuppressEnrollment

\* The outbox keys a handler inserts (_enqueue_event) are well-formed keys.
LEMMA KeyTypes ==
  ASSUME NEW t \in Transaction
  PROVE  TxKeys(t) \subseteq OutboxKey
<1>1. /\ t.e \in Enrollment /\ t.s \in 0..NSteps
      /\ t.row.version + 1 \in Nat /\ t.out.attempts + 1 \in Nat
  BY DEF Transaction, EnrollmentRow, OutboundRow
<1>2. \A name \in {"sequence.completed", "sequence.paused"} :
        EnrollmentKey(name, t.e, t.row.version + 1) \in OutboxKey
  BY <1>1, StepAssumption DEF EnrollmentKey, OutboxKey
<1>3. <<"email.sent", t.e, t.s, t.out.attempts + 1>> \in OutboxKey
  BY <1>1, Zenon DEF OutboxKey
<1>4. AdvanceKeys(t.e, t.row, t.s) \subseteq OutboxKey
  BY <1>2, Zenon DEF AdvanceKeys
<1>5. QED
  BY <1>2, <1>3, <1>4, Zenon DEF TxKeys

\* The policy gate sends the scheduler to one of its five branches.
LEMMA GateType ==
  ASSUME NEW e, NEW s
  PROVE  Gate(e, s) \in Scheduler \ {"send_next"}
BY Zenon DEF Gate, Scheduler

\* What a handler's read leaves behind is a transaction.
LEMMA ReadType ==
  ASSUME TypeInv, NEW w \in Worker, NEW op \in Op, NEW e \in Enrollment,
         NEW s \in 0..NSteps, NEW msgs \in SUBSET Message,
         op \in Scheduler \cup Approval \cup {"refused", "complete"} => s \in Step,
         Read(w, op, e, s, msgs)
  PROVE  /\ tx' \in [Worker -> Transaction \cup {Idle}]
         /\ StepTyped'
<1> DEFINE t == [op |-> op, e |-> e, s |-> s, row |-> enrollment[e],
                 out |-> NoOutbound, msgs |-> msgs]
<1>1. NoOutbound \in OutboundRow
  BY Zenon DEF NoOutbound, OutboundRow, OutboundStatus
<1>2. t \in Transaction
  BY <1>1, Zenon DEF TypeInv, TypeOK, Transaction
<1>3. tx' = [tx EXCEPT ![w] = t]
  BY Zenon DEF Read
<1> HIDE DEF t
<1>4. tx' \in [Worker -> Transaction \cup {Idle}]
  BY <1>2, <1>3, Zenon DEF TypeInv, TypeOK
<1>5. t.op = op /\ t.s = s
  BY Zenon DEF t
<1>6. StepTyped'
  BY <1>3, <1>5, Zenon DEF TypeInv, TypeOK, StepTyped
<1>7. QED
  BY <1>4, <1>6, Zenon

\* A worker that is not idle has the rows of its transaction.
LEMMA BusyType ==
  ASSUME TypeInv, NEW w \in Worker, tx[w].op # "idle"
  PROVE  /\ tx[w] \in Transaction
         /\ tx[w].op \in Op /\ tx[w].e \in Enrollment /\ tx[w].s \in 0..NSteps
         /\ tx[w].row \in EnrollmentRow /\ tx[w].out \in OutboundRow
         /\ tx[w].msgs \subseteq Message
<1>1. tx[w] \in Transaction
  BY DEF TypeInv, TypeOK, Idle
<1>2. QED
  BY <1>1, Zenon DEF Transaction

\* A commit stores well-formed keys and frees the worker.
LEMMA CommitType ==
  ASSUME TypeInv, NEW w \in Worker, NEW op \in Op, Commit(w, op)
  PROVE  /\ tx[w].op = op /\ tx[w].op # "idle"
         /\ outbox' \subseteq OutboxKey
         /\ processed' \subseteq Message
         /\ tx' \in [Worker -> Transaction \cup {Idle}]
         /\ StepTyped'
<1>1. tx[w].op = op /\ op # "idle"
  BY Zenon DEF Commit, Op
<1>2. tx[w] \in Transaction /\ tx[w].msgs \subseteq Message
  BY <1>1, BusyType, Zenon
<1>3. TxKeys(tx[w]) \subseteq OutboxKey
  BY <1>2, KeyTypes, Zenon
<1>4. outbox' \subseteq OutboxKey /\ processed' \subseteq Message
  BY <1>2, <1>3, Zenon DEF Commit, TypeInv, TypeOK
<1>5. tx' = [tx EXCEPT ![w] = Idle]
  BY Zenon DEF Commit
<1>6. tx' \in [Worker -> Transaction \cup {Idle}]
  BY <1>5, Zenon DEF TypeInv, TypeOK
<1>7. StepTyped'
  BY <1>5, Zenon DEF TypeInv, TypeOK, StepTyped, Idle, Scheduler, Approval
<1>8. QED
  BY <1>1, <1>4, <1>6, <1>7, Zenon

\* Environment steps keep the types.
LEMMA EnvironmentType ==
  ASSUME TypeInv, Environment
  PROVE  TypeInv'
<1> USE DEF TypeInv, TypeOK, StepTyped, database, policy
<1>1. CASE SetSequenceStatus
  BY <1>1, Zenon DEF SetSequenceStatus
<1>2. ASSUME NEW e \in Enrollment, CreateSequenceEnrollment(e)
      PROVE  TypeInv'
  <2>1. PICK start \in {"due", "later"} :
          enrollment' = [enrollment EXCEPT ![e] =
            [status |-> "active", step |-> 1, next |-> start, version |-> 1]]
    BY <1>2, Zenon DEF CreateSequenceEnrollment, SetEnrollment
  <2>2. [status |-> "active", step |-> 1, next |-> start, version |-> 1] \in EnrollmentRow
    BY StepAssumption DEF EnrollmentRow, EnrollmentStatus, Step
  <2>3. QED
    BY <1>2, <2>1, <2>2, Zenon DEF CreateSequenceEnrollment
<1>3. ASSUME NEW e \in Enrollment, TargetExported(e)
      PROVE  TypeInv'
  BY <1>3, Zenon DEF TargetExported
<1>4. ASSUME NEW e \in Enrollment, ContactChanges(e)
      PROVE  TypeInv'
  BY <1>4, Zenon DEF ContactChanges
<1>5. ASSUME NEW e \in Enrollment, StepFallsDue(e)
      PROVE  TypeInv'
  BY <1>5, ZenonT(60) DEF StepFallsDue, SetEnrollment, EnrollmentRow
<1>6. ASSUME NEW e \in Enrollment, NEW channel \in SUPPORTED_CHANNELS,
             CreateSuppression(e, channel)
      PROVE  TypeInv'
  BY <1>6, Zenon DEF CreateSuppression, SUPPORTED_CHANNELS, SequenceChannel
<1>7. ASSUME NEW e \in Enrollment, NEW s \in Step, SentLeavesWindow(e, s)
      PROVE  TypeInv'
  <2>1. [outbound[e][s] EXCEPT !.sentAt = "old"] \in OutboundRow
    <3>1. outbound[e][s] \in OutboundRow
      OBVIOUS
    <3>2. QED
      BY <3>1, Zenon DEF OutboundRow
  <2>2. outbound' = [outbound EXCEPT ![e][s] = [outbound[e][s] EXCEPT !.sentAt = "old"]]
    BY <1>7, Zenon DEF SentLeavesWindow
  <2>3. outbound' \in [Enrollment -> [Step -> OutboundRow]]
    BY <2>1, <2>2, Zenon
  <2>4. QED
    BY <1>7, <2>3, Zenon DEF SentLeavesWindow
<1>8. ASSUME NEW e \in Enrollment, NEW m \in Message, NEW kind \in InboundEmailEventType,
             InboundUnmatched(e, m, kind)
      PROVE  TypeInv'
  <2>1. suppressed' \in [Enrollment -> SUBSET SequenceChannel]
    <3>1. {"email"} \subseteq SequenceChannel
      BY Zenon DEF SequenceChannel
    <3>2. QED
      BY <1>8, <3>1, SMTT(60) DEF InboundUnmatched, SuppressDomain
  <2>2. processed' \subseteq Message
    BY <1>8, Zenon DEF InboundUnmatched
  <2>3. QED
    BY <1>8, <2>1, <2>2, Zenon DEF InboundUnmatched
<1>9. QED
  BY <1>1, <1>2, <1>3, <1>4, <1>5, <1>6, <1>7, <1>8, Zenon DEF Environment

\* Every read keeps the types.
LEMMA BeginType ==
  ASSUME TypeInv, NEW w \in Worker, Begin(w)
  PROVE  TypeInv'
<1> DEFINE Typed == tx' \in [Worker -> Transaction \cup {Idle}] /\ StepTyped'
<1>1. CASE ProcessDueSequenceSteps(w)
  BY <1>1, Zenon DEF ProcessDueSequenceSteps, Due, TypeInv, TypeOK, StepTyped, database, policy
<1>2. ASSUME NEW e \in Enrollment, SendNextRead(w, e)
      PROVE  TypeInv'
  <2>1. enrollment[e].step \in Step /\ Step \subseteq 0..NSteps
    BY StepAssumption DEF TypeInv, TypeOK, EnrollmentRow, Step
  <2>2. CASE Read(w, "send_next", e, enrollment[e].step, {})
    <3>1. Typed
      <4>1. "send_next" \in Op
        BY Zenon DEF Op
      <4>2. PICK s \in Step : s = enrollment[e].step
        BY <2>1, Zenon
      <4>3. Read(w, "send_next", e, s, {})
        BY <2>2, <4>2, Zenon
      <4>4. QED
        BY <2>1, <4>1, <4>3, ReadType
    <3>2. QED
      BY <3>1, <1>2, Zenon DEF SendNextRead, TypeInv, TypeOK, database, policy
  <2>3. CASE tx' = tx
    BY <2>3, <1>2, Zenon DEF SendNextRead, TypeInv, TypeOK, StepTyped, database, policy
  <2>4. QED
    BY <1>2, <2>2, <2>3, Zenon DEF SendNextRead
<1>3. ASSUME NEW e \in Enrollment,
             PauseRead(w, e) \/ ResumeRead(w, e) \/ CancelRead(w, e) \/ MeetingRead(w, e)
      PROVE  TypeInv'
  <2>1. PICK op \in {"pause", "resume", "cancel", "meeting"} : Read(w, op, e, 0, {})
    BY <1>3, Zenon DEF PauseRead, ResumeRead, CancelRead, MeetingRead
  <2>2. op \in Op /\ op \notin Scheduler \cup Approval \cup {"refused", "complete"}
    BY Zenon DEF Op, Scheduler, Approval
  <2>3. Typed
    BY <2>1, <2>2, ReadType, StepAssumption
  <2>4. QED
    BY <2>3, <1>3, Zenon DEF PauseRead, ResumeRead, CancelRead, MeetingRead, TypeInv, TypeOK,
                      database, policy
<1>4. ASSUME NEW e \in Enrollment, NEW s \in Step,
             ApproveRead(w, e, s) \/ CompleteActivityRead(w, e, s)
      PROVE  TypeInv'
  <2>1. PICK op \in {"approve", "refused", "complete"} : Read(w, op, e, s, {})
    BY <1>4, Zenon DEF ApproveRead, CompleteActivityRead
  <2>2. Typed
    BY <2>1, ReadType DEF Op, Step
  <2>3. QED
    BY <2>2, <1>4, Zenon DEF ApproveRead, CompleteActivityRead, TypeInv, TypeOK, database, policy
<1>5. ASSUME NEW e \in Enrollment, NEW s \in 0..NSteps, NEW m \in Message,
             NEW kind \in InboundEmailEventType, InboundRead(w, e, s, m, kind)
      PROVE  TypeInv'
  <2>1. kind \in Op /\ kind \notin Scheduler \cup Approval \cup {"refused", "complete"}
    BY Zenon DEF InboundEmailEventType, Op, Scheduler, Approval
  <2>2. Typed
    BY <1>5, <2>1, ReadType, Zenon DEF InboundRead
  <2>3. QED
    BY <2>2, <1>5, Zenon DEF InboundRead, TypeInv, TypeOK, database, policy
<1>6. QED
  BY <1>1, <1>2, <1>3, <1>4, <1>5, Zenon DEF Begin

\* A commit keeps the types when the rows it writes are rows.
LEMMA RowCommitType ==
  ASSUME TypeInv, NEW w \in Worker, NEW op \in Op, Commit(w, op),
         NEW row \in EnrollmentRow, SetEnrollment(tx[w].e, row),
         activity' \in [Enrollment -> [Step -> ActivityStatus]],
         outbound' \in [Enrollment -> [Step -> OutboundRow]],
         suppressed' \in [Enrollment -> SUBSET SequenceChannel],
         engaged' \subseteq Enrollment,
         UNCHANGED <<sequence, sendable, exported, todo, delivered>>
  PROVE  TypeInv'
<1>1. enrollment' \in [Enrollment -> EnrollmentRow]
  BY Zenon DEF SetEnrollment, TypeInv, TypeOK
<1>2. QED
  BY <1>1, CommitType, Zenon DEF TypeInv, TypeOK

\* The values the e-mail handlers put into activity and outbound are rows.
LEMMA CellTypes ==
  ASSUME TypeInv, NEW e \in Enrollment, NEW s \in Step
  PROVE  /\ \A status \in ActivityStatus :
              /\ [activity EXCEPT ![e][s] = status]
                   \in [Enrollment -> [Step -> ActivityStatus]]
              /\ ActivityForStep(e, s, status)
                   => activity' \in [Enrollment -> [Step -> ActivityStatus]]
         /\ \A row \in OutboundRow :
              [outbound EXCEPT ![e][s] = row] \in [Enrollment -> [Step -> OutboundRow]]
         /\ \A status \in OutboundStatus :
              [outbound EXCEPT ![e][s].status = status]
                \in [Enrollment -> [Step -> OutboundRow]]
<1>1. /\ activity \in [Enrollment -> [Step -> ActivityStatus]]
      /\ outbound \in [Enrollment -> [Step -> OutboundRow]]
  BY Zenon DEF TypeInv, TypeOK
<1>2. \A status \in ActivityStatus :
        [activity EXCEPT ![e][s] = status] \in [Enrollment -> [Step -> ActivityStatus]]
  BY <1>1, Zenon
<1>3. \A status \in ActivityStatus :
        ActivityForStep(e, s, status)
          => activity' \in [Enrollment -> [Step -> ActivityStatus]]
  BY <1>1, <1>2, ZenonT(60) DEF ActivityForStep, SetActivity
<1>4. \A row \in OutboundRow :
        [outbound EXCEPT ![e][s] = row] \in [Enrollment -> [Step -> OutboundRow]]
  BY <1>1, Zenon
<1>5. ASSUME NEW status \in OutboundStatus
      PROVE  [outbound EXCEPT ![e][s].status = status]
               \in [Enrollment -> [Step -> OutboundRow]]
  <2>1. outbound[e][s] \in OutboundRow
    BY <1>1, Zenon
  <2>2. [outbound[e][s] EXCEPT !.status = status] \in OutboundRow
    BY <2>1, Zenon DEF OutboundRow
  <2>3. QED
    BY <1>1, <2>2, Zenon
<1>6. QED
  BY <1>2, <1>3, <1>4, <1>5, Zenon

\* Every commit, rollback and SMTP call keeps the types.
LEMMA FinishType ==
  ASSUME TypeInv, NEW w \in Worker, Finish(w)
  PROVE  TypeInv'
<1> DEFINE t == tx[w]
           c == enrollment[t.e]
<1>busy. ASSUME t.op # "idle"
         PROVE  /\ t.op \in Op /\ t.e \in Enrollment /\ c \in EnrollmentRow
                /\ t.row \in EnrollmentRow /\ t.out \in OutboundRow
  BY <1>busy, BusyType, Zenon DEF TypeInv, TypeOK
<1>same. /\ activity \in [Enrollment -> [Step -> ActivityStatus]]
         /\ outbound \in [Enrollment -> [Step -> OutboundRow]]
         /\ suppressed \in [Enrollment -> SUBSET SequenceChannel]
         /\ engaged \subseteq Enrollment
  BY Zenon DEF TypeInv, TypeOK
<1>status. /\ {"canceled", "paused", "suppressed"} \subseteq EnrollmentStatus
           /\ {"pending", "pending_approval", "completed", "failed"} \subseteq ActivityStatus
           /\ {"pending_approval", "sent", "failed_retryable", "failed_terminal"}
                \subseteq OutboundStatus
  BY Zenon DEF EnrollmentStatus, TERMINAL_ENROLLMENT_STATUSES, ActivityStatus, OutboundStatus
<1>1. CASE SendNextPause(w)
  <2>1. Commit(w, "policy_pause") /\ "policy_pause" \in Op
    BY <1>1, Zenon DEF SendNextPause, Op
  <2>2. PauseForPolicy(c, t.row) \in EnrollmentRow
    BY <2>1, <1>busy, CommitType, RowTypes, Zenon
  <2>3. QED
    BY <1>1, <1>same, <2>1, <2>2, RowCommitType, Zenon DEF SendNextPause, policy
<1>2. CASE SendNextSuppress(w)
  <2>1. Commit(w, "policy_suppress") /\ "policy_suppress" \in Op
    BY <1>2, Zenon DEF SendNextSuppress, Op
  <2>2. SuppressEnrollment(c, t.row) \in EnrollmentRow
    BY <2>1, <1>busy, CommitType, RowTypes, Zenon
  <2>3. QED
    BY <1>2, <1>same, <2>1, <2>2, RowCommitType, Zenon DEF SendNextSuppress, policy
<1>3. CASE SendNextActivity(w)
  <2>1. Commit(w, "activity") /\ "activity" \in Op
    BY <1>3, Zenon DEF SendNextActivity, Op
  <2>2. t.op = "activity" /\ t.op # "idle"
    BY <2>1, CommitType, Zenon
  <2>3. t.s \in Step
    BY <2>2, Zenon DEF TypeInv, StepTyped, Scheduler
  <2>4. [c EXCEPT !.next = ClearedNext(t.row, @)] \in EnrollmentRow
    BY <2>2, <1>busy, Zenon DEF EnrollmentRow, ClearedNext
  <2>5. activity' \in [Enrollment -> [Step -> ActivityStatus]]
    BY <1>3, <1>busy, <1>status, <2>2, <2>3, CellTypes, Zenon DEF SendNextActivity
  <2>6. QED
    BY <1>3, <1>same, <2>1, <2>4, <2>5, RowCommitType, Zenon DEF SendNextActivity, policy
<1>4. CASE SendNextDefer(w)
  <2>1. Commit(w, "defer") /\ "defer" \in Op
    BY <1>4, Zenon DEF SendNextDefer, Op
  <2>2. [c EXCEPT !.next = "later"] \in EnrollmentRow
    BY <2>1, <1>busy, CommitType, Zenon DEF EnrollmentRow
  <2>3. QED
    BY <1>4, <1>same, <2>1, <2>2, RowCommitType, Zenon DEF SendNextDefer, policy
<1>5. CASE SendNextPresent(w)
  <2>1. Commit(w, "present") /\ "present" \in Op
    BY <1>5, Zenon DEF SendNextPresent, Op
  <2>2. t.op = "present" /\ t.op # "idle"
    BY <2>1, CommitType, Zenon
  <2>3. t.s \in Step
    BY <2>2, Zenon DEF TypeInv, StepTyped, Scheduler
  <2>4. [c EXCEPT !.next = ClearedNext(t.row, @)] \in EnrollmentRow
    BY <2>2, <1>busy, Zenon DEF EnrollmentRow, ClearedNext
  <2>5. activity' \in [Enrollment -> [Step -> ActivityStatus]]
    BY <1>5, <1>busy, <1>status, <2>2, <2>3, CellTypes, Zenon DEF SendNextPresent
  <2>6. outbound' \in [Enrollment -> [Step -> OutboundRow]]
    <3>1. outbound[t.e][t.s] \in OutboundRow
      BY <1>same, <1>busy, <2>2, <2>3, Zenon
    <3>2. Written(t.out.status, "pending_approval", outbound[t.e][t.s].status)
            \in OutboundStatus
      BY <3>1, <1>status, Zenon DEF Written, OutboundRow
    <3>3. QED
      BY <1>5, <1>busy, <2>2, <2>3, <3>2, CellTypes, ZenonT(60) DEF SendNextPresent
  <2>7. QED
    BY <1>5, <1>same, <2>1, <2>4, <2>5, <2>6, RowCommitType, ZenonT(60) DEF SendNextPresent, policy
<1>6. CASE SendNextGate(w) \/ ApproveSmtp(w)
  <2>1. t.op \in {"send_next", "approve"}
    BY <1>6, Zenon DEF SendNextGate, ApproveSmtp
  <2>2. t.s \in Step /\ t \in Transaction
    BY <2>1, BusyType, Zenon DEF TypeInv, StepTyped, Scheduler, Approval
  <2>3. PICK op \in Op : tx' = [tx EXCEPT ![w] = ReadOutbound(t, op)]
    <3>1. Gate(t.e, t.s) \in Op
      BY GateType, Zenon DEF Scheduler, Op
    <3>2. {"approve_sent", "approve_failed"} \subseteq Op
      BY Zenon DEF Op
    <3>3. QED
      BY <1>6, <3>1, <3>2, Zenon DEF SendNextGate, ApproveSmtp
  <2>4. ReadOutbound(t, op) \in Transaction
    BY <2>2, <1>same, ZenonT(60) DEF ReadOutbound, Transaction
  <2>5. ReadOutbound(t, op).s \in Step
    BY <2>2, Zenon DEF ReadOutbound
  <2>6. tx' \in [Worker -> Transaction \cup {Idle}] /\ StepTyped'
    BY <2>3, <2>4, <2>5, Zenon DEF TypeInv, TypeOK, StepTyped
  <2>7. delivered' \in [Enrollment -> [Step -> Nat]]
    <3>1. t.e \in Enrollment
      BY <2>2, Zenon DEF Transaction
    <3>2. delivered \in [Enrollment -> [Step -> Nat]]
      BY Zenon DEF TypeInv, TypeOK
    <3>3. \A n \in Nat : [delivered EXCEPT ![t.e][t.s] = n] \in [Enrollment -> [Step -> Nat]]
      BY <2>2, <3>1, <3>2, Zenon
    <3>4. delivered[t.e][t.s] + 1 \in Nat
      BY <2>2, <3>1, <3>2, SMTT(60)
    <3>5. \/ delivered' = delivered
          \/ delivered' = [delivered EXCEPT ![t.e][t.s] = delivered[t.e][t.s] + 1]
          \/ delivered' = [delivered EXCEPT ![t.e][t.s] = delivered[t.e][t.s]]
      BY <1>6, ZenonT(60) DEF SendNextGate, ApproveSmtp
    <3>6. QED
      BY <2>2, <3>1, <3>2, <3>3, <3>4, <3>5
  <2>8. QED
    BY <1>6, <2>6, <2>7, Zenon DEF SendNextGate, ApproveSmtp, TypeInv, TypeOK, database, policy
<1>7. CASE ApproveSent(w)
  <2>1. Commit(w, "approve_sent") /\ "approve_sent" \in Op
    BY <1>7, Zenon DEF ApproveSent, Op
  <2>2. t.op = "approve_sent" /\ t.op # "idle"
    BY <2>1, CommitType, Zenon
  <2>3. t.s \in Step
    BY <2>2, Zenon DEF TypeInv, StepTyped, Approval
  <2>4. AdvanceEnrollment(c, t.row, t.s) \in EnrollmentRow
    BY <2>2, <2>3, <1>busy, RowTypes, ZenonT(60)
  <2>5. activity' \in [Enrollment -> [Step -> ActivityStatus]]
    BY <1>7, <1>busy, <1>status, <2>2, <2>3, CellTypes, Zenon DEF ApproveSent, SetActivity
  <2>6. outbound' \in [Enrollment -> [Step -> OutboundRow]]
    <3>1. outbound[t.e][t.s] \in OutboundRow
      BY <1>same, <1>busy, <2>2, <2>3, Zenon
    <3>2. [status |-> Written(t.out.status, "sent", outbound[t.e][t.s].status),
           attempts |-> t.out.attempts + 1, sentAt |-> "window"] \in OutboundRow
      BY <3>1, <2>2, <1>busy, <1>status DEF Written, OutboundRow
    <3>3. QED
      BY <1>7, <1>busy, <2>2, <2>3, <3>2, CellTypes, Zenon DEF ApproveSent
  <2>7. QED
    BY <1>7, <1>same, <2>1, <2>4, <2>5, <2>6, RowCommitType DEF ApproveSent, policy
<1>8. CASE ApproveFailed(w)
  <2>1. Commit(w, "approve_failed") /\ "approve_failed" \in Op
    BY <1>8, Zenon DEF ApproveFailed, Op
  <2>2. t.op = "approve_failed" /\ t.op # "idle"
    BY <2>1, CommitType, Zenon
  <2>3. t.s \in Step
    BY <2>2, Zenon DEF TypeInv, StepTyped, Approval
  <2>4. [c EXCEPT !.next = "later"] \in EnrollmentRow
    BY <2>2, <1>busy, Zenon DEF EnrollmentRow
  <2>5. activity' \in [Enrollment -> [Step -> ActivityStatus]]
    BY <1>8, <1>busy, <1>status, <2>2, <2>3, CellTypes, Zenon DEF ApproveFailed, SetActivity
  <2>6. outbound' \in [Enrollment -> [Step -> OutboundRow]]
    <3>1. outbound[t.e][t.s] \in OutboundRow
      BY <1>same, <1>busy, <2>2, <2>3, Zenon
    <3>2. [status |-> Written(t.out.status, "failed_retryable", outbound[t.e][t.s].status),
           attempts |-> t.out.attempts + 1, sentAt |-> outbound[t.e][t.s].sentAt]
            \in OutboundRow
      BY <3>1, <2>2, <1>busy, <1>status, SMTT(60) DEF Written, OutboundRow
    <3>3. QED
      BY <1>8, <1>busy, <2>2, <2>3, <3>2, CellTypes, Zenon DEF ApproveFailed
  <2>7. QED
    BY <1>8, <1>same, <2>1, <2>4, <2>5, <2>6, RowCommitType, Zenon DEF ApproveFailed, policy
<1>9. CASE CompleteActivity(w)
  <2>1. Commit(w, "complete") /\ "complete" \in Op
    BY <1>9, Zenon DEF CompleteActivity, Op
  <2>2. t.op = "complete" /\ t.op # "idle"
    BY <2>1, CommitType, Zenon
  <2>3. t.s \in Step
    BY <2>2, Zenon DEF TypeInv, StepTyped
  <2>4. AdvanceEnrollment(c, t.row, t.s) \in EnrollmentRow
    BY <2>2, <2>3, <1>busy, RowTypes, Zenon
  <2>5. activity' \in [Enrollment -> [Step -> ActivityStatus]]
    BY <1>9, <1>busy, <1>status, <2>2, <2>3, CellTypes, Zenon DEF CompleteActivity, SetActivity
  <2>6. QED
    BY <1>9, <1>same, <2>1, <2>4, <2>5, RowCommitType, Zenon DEF CompleteActivity, policy
<1>10. CASE PauseSequenceEnrollment(w)
  <2>1. Commit(w, "pause") /\ "pause" \in Op
    BY <1>10, Zenon DEF PauseSequenceEnrollment, Op
  <2>2. PauseForPolicy(c, t.row) \in EnrollmentRow
    BY <2>1, <1>busy, CommitType, RowTypes, Zenon
  <2>3. QED
    BY <1>10, <1>same, <2>1, <2>2, RowCommitType, Zenon DEF PauseSequenceEnrollment, policy
<1>11. CASE ResumeSequenceEnrollment(w)
  <2>1. Commit(w, "resume") /\ "resume" \in Op
    BY <1>11, Zenon DEF ResumeSequenceEnrollment, Op
  <2>2. ResumeEnrollment(c, t.row) \in EnrollmentRow
    BY <2>1, <1>busy, CommitType, RowTypes, Zenon
  <2>3. QED
    BY <1>11, <1>same, <2>1, <2>2, RowCommitType, Zenon DEF ResumeSequenceEnrollment, policy
<1>12. CASE CancelSequenceEnrollment(w)
  <2>1. Commit(w, "cancel") /\ "cancel" \in Op
    BY <1>12, Zenon DEF CancelSequenceEnrollment, Op
  <2>2. SetStatus(c, t.row, "canceled") \in EnrollmentRow
    BY <2>1, <1>busy, <1>status, CommitType, RowTypes, Zenon
  <2>3. QED
    BY <1>12, <1>same, <2>1, <2>2, RowCommitType, Zenon DEF CancelSequenceEnrollment, policy
<1>13. CASE ProcessReply(w) \/ MeetingBooked(w)
  <2>1. PICK op \in {"reply", "meeting"} : Commit(w, op)
    BY <1>13, Zenon DEF ProcessReply, MeetingBooked
  <2>2. op \in Op
    BY Zenon DEF Op
  <2>3. t.e \in Enrollment /\ CompleteEnrollment(c, t.row) \in EnrollmentRow
    BY <2>1, <2>2, <1>busy, CommitType, RowTypes, Zenon
  <2>4. engaged' \subseteq Enrollment
    BY <1>13, <1>same, <2>3, ZenonT(60) DEF ProcessReply, MeetingBooked
  <2>5. QED
    BY <1>13, <1>same, <2>1, <2>2, <2>3, <2>4, RowCommitType, Zenon DEF ProcessReply,
       MeetingBooked, policy
<1>14. CASE ProcessBounce(w)
  <2>1. Commit(w, "bounce") /\ "bounce" \in Op
    BY <1>14 DEF ProcessBounce, Op
  <2>2. t.op # "idle" /\ t.s \in 0..NSteps
    BY <2>1, CommitType, BusyType
  <2>3. [c EXCEPT !.status = Written(t.row.status, "paused", @)] \in EnrollmentRow
    BY <2>2, <1>busy, <1>status, SMTT(60) DEF EnrollmentRow, Written
  <2>4. outbound' \in [Enrollment -> [Step -> OutboundRow]]
    <3>1. t.s = 0 \/ t.s \in Step
      BY <2>2, StepAssumption DEF Step
    <3>2. QED
      BY <1>14, <1>busy, <1>same, <1>status, <2>2, <3>1, CellTypes, Zenon DEF ProcessBounce
  <2>5. QED
    BY <1>14, <1>same, <2>1, <2>3, <2>4, RowCommitType, SMTT(60) DEF ProcessBounce, policy
<1>15. CASE ProcessUnsubscribe(w)
  <2>1. Commit(w, "unsubscribe") /\ "unsubscribe" \in Op
    BY <1>15 DEF ProcessUnsubscribe, Op
  <2>2. [c EXCEPT !.status = Written(t.row.status, "suppressed", @)] \in EnrollmentRow
    BY <2>1, <1>busy, <1>status, CommitType DEF EnrollmentRow, Written
  <2>3. suppressed' \in [Enrollment -> SUBSET SequenceChannel]
    <3>1. {"email"} \subseteq SequenceChannel
      BY DEF SequenceChannel
    <3>2. QED
      BY <1>15, <1>same, <3>1 DEF ProcessUnsubscribe, SuppressDomain
  <2>4. QED
    BY <1>15, <1>same, <2>1, <2>2, <2>3, RowCommitType DEF ProcessUnsubscribe
<1>16. CASE Rollback(w)
  <2>1. tx' \in [Worker -> Transaction \cup {Idle}] /\ todo' \in [Worker -> SUBSET Enrollment]
    BY <1>16 DEF Rollback, TypeInv, TypeOK
  <2>2. StepTyped'
    BY <1>16 DEF Rollback, TypeInv, TypeOK, StepTyped, Idle, Scheduler, Approval
  <2>3. QED
    BY <1>16, <2>1, <2>2 DEF Rollback, TypeInv, TypeOK, database, policy
<1>17. QED
  BY <1>1, <1>2, <1>3, <1>4, <1>5, <1>6, <1>7, <1>8, <1>9, <1>10, <1>11, <1>12, <1>13,
     <1>14, <1>15, <1>16 DEF Finish

\* The empty database and idle workers satisfy the type invariant.
LEMMA TypeInit == Init => TypeInv
<1>1. NoEnrollment \in EnrollmentRow
  BY StepAssumption DEF NoEnrollment, EnrollmentRow, EnrollmentStatus, Step
<1>2. NoOutbound \in OutboundRow
  BY DEF NoOutbound, OutboundRow, OutboundStatus
<1>3. QED
  BY <1>1, <1>2 DEF Init, TypeInv, TypeOK, StepTyped, Idle, Scheduler, Approval, ActivityStatus

\* Every step of every handler, and of the outside world, keeps the type invariant.
LEMMA TypeStep == TypeInv /\ [Next]_vars => TypeInv'
<1>1. TypeInv /\ UNCHANGED vars => TypeInv'
  BY DEF TypeInv, TypeOK, StepTyped, vars, database, policy
<1>2. QED
  BY <1>1, EnvironmentType, BeginType, FinishType DEF Next

\* Every variable keeps its type in every behaviour of the outreach runtime, whatever
\* handlers overlap: what a stale copy of a row produces is again a row, and the next
\* step of an enrollment is a step of its definition.
THEOREM TypeCorrect == Spec => []TypeOK
<1>1. TypeInv => TypeOK
  BY DEF TypeInv
<1>2. QED
  BY <1>1, TypeInit, TypeStep, PTL DEF Spec
-----------------------------------------------------------------------------
(* The inductive invariant *)

\* An e-mail step is approved, any other one completed by hand.
ChannelStatus(s) ==
  IF StepChannel[s] = "email"
  THEN {"none", "pending_approval", "completed", "failed"}
  ELSE {"none", "pending", "completed"}

PriorDone(e, s) == \A j \in Step : j < s => Done(e, j)

ActivityInv ==
  \A e \in Enrollment, s \in Step :
    /\ activity[e][s] \in ChannelStatus(s)
    /\ activity[e][s] # "none" => e \in exported /\ PriorDone(e, s)

EnrollmentInv ==
  \A e \in Enrollment :
    /\ PriorDone(e, enrollment[e].step)
    /\ enrollment[e].status # "none" => e \in exported

\* What a handler relies on from the rows it read still holds when it commits, however
\* stale the copy is.
TxFacts(t) ==
  /\ t.e \in exported
  /\ PriorDone(t.e, t.row.step)
  /\ t.op \in Scheduler => t.s = t.row.step
  /\ t.op = "activity" => StepChannel[t.s] # "email"
  /\ t.op = "present" => StepChannel[t.s] = "email"
  /\ t.op \in Approval => /\ t.s \in Step
                          /\ StepChannel[t.s] = "email"
                          /\ activity[t.e][t.s] # "none"
  /\ t.op = "approve_sent" => delivered[t.e][t.s] > 0
  /\ t.op = "complete" => /\ t.s \in Step
                          /\ StepChannel[t.s] # "email"
                          /\ activity[t.e][t.s] # "none"

TxInv == \A w \in Worker : tx[w] # Idle => TxFacts(tx[w])

IInv == TypeInv /\ ActivityInv /\ EnrollmentInv /\ TxInv /\ SentIsReal /\ CompletedMeansDone
-----------------------------------------------------------------------------
(* What a step can do to each part of the state.  Every action is shown    *)
(* once to have no other effect; the invariants follow from these.         *)

Doing(w, ops, e, s) == tx[w].op \in ops /\ tx[w].e = e /\ tx[w].s = s

ActivityEffect ==
  \A e \in Enrollment, s \in Step :
    \/ activity'[e][s] = activity[e][s]
    \/ \E w \in Worker :
         \/ Doing(w, {"approve_sent", "complete"}, e, s) /\ activity'[e][s] = "completed"
         \/ Doing(w, {"approve_failed"}, e, s) /\ activity'[e][s] = "failed"
         \/ /\ activity[e][s] = "none"
            /\ \/ Doing(w, {"activity"}, e, s) /\ activity'[e][s] = "pending"
               \/ Doing(w, {"present"}, e, s) /\ activity'[e][s] = "pending_approval"

DeliveredEffect ==
  \A e \in Enrollment, s \in Step :
    \/ delivered'[e][s] = delivered[e][s]
    \/ /\ delivered'[e][s] = delivered[e][s] + 1
       /\ \E w \in Worker : Doing(w, {"approve"}, e, s)

OutboundEffect ==
  \A e \in Enrollment, s \in Step :
    outbound'[e][s].status = "sent"
    => \/ outbound[e][s].status = "sent"
       \/ \E w \in Worker : Doing(w, {"approve_sent"}, e, s)

\* The step of enrollment e moves on, or its last step was just completed.
Advanced(e, s) ==
  /\ activity'[e][s] = "completed"
  /\ \E w \in Worker : Doing(w, {"approve_sent", "complete"}, e, s)

EnrollmentEffect ==
  \A e \in Enrollment :
    /\ \/ enrollment'[e].step = enrollment[e].step
       \/ enrollment'[e].step = 1
       \/ \E s \in Step : enrollment'[e].step = s + 1 /\ Advanced(e, s)
    /\ enrollment'[e].status = "completed"
       => enrollment[e].status = "completed" \/ e \in engaged' \/ Advanced(e, NSteps)
    /\ enrollment'[e].status # "none" => enrollment[e].status # "none" \/ e \in exported

\* A worker is left alone, becomes idle, starts a handler from the current rows, or
\* goes on with the handler it is in.
Started(w) ==
  LET t == tx'[w] IN
  /\ t.e \in Enrollment
  /\ t.row = enrollment[t.e]
  /\ t.row.status # "none"
  /\ t.op \in Scheduler => t.op = "send_next" /\ t.s = t.row.step
  /\ t.op \in Approval => /\ t.op = "approve" /\ t.s \in Step
                          /\ StepChannel[t.s] = "email"
                          /\ activity[t.e][t.s] # "none"
  /\ t.op = "complete" => t.s \in Step /\ activity[t.e][t.s] = "pending"

Continued(w) ==
  LET t == tx[w] IN
  \/ t.op = "send_next" /\ tx'[w] = ReadOutbound(t, Gate(t.e, t.s))
  \/ /\ t.op = "approve"
     /\ \E op \in {"approve_sent", "approve_failed"} :
          /\ tx'[w] = ReadOutbound(t, op)
          /\ op = "approve_sent" => delivered'[t.e][t.s] > 0

TxEffect ==
  \A w \in Worker :
    tx'[w] = tx[w] \/ tx'[w] = Idle \/ Started(w) \/ Continued(w)

Effect ==
  /\ ActivityEffect
  /\ DeliveredEffect
  /\ OutboundEffect
  /\ EnrollmentEffect
  /\ TxEffect
  /\ exported \subseteq exported'
  /\ engaged \subseteq engaged'

\* Creating an enrollment, the clock and policy changes touch none of the progress
\* (activities, deliveries, steps) beyond what Effect allows.
LEMMA EnvironmentEffect ==
  ASSUME IInv, Environment
  PROVE  Effect
<1> USE DEF IInv, TypeInv, TypeOK, database, policy, Effect, ActivityEffect,
            DeliveredEffect, OutboundEffect, EnrollmentEffect, TxEffect
<1>1. CASE SetSequenceStatus
  BY <1>1, Zenon DEF SetSequenceStatus
<1>2. ASSUME NEW e \in Enrollment, CreateSequenceEnrollment(e)
      PROVE  Effect
  BY <1>2 DEF CreateSequenceEnrollment, SetEnrollment
<1>3. ASSUME NEW e \in Enrollment, TargetExported(e)
      PROVE  Effect
  BY <1>3, Zenon DEF TargetExported
<1>4. ASSUME NEW e \in Enrollment, ContactChanges(e)
      PROVE  Effect
  BY <1>4, Zenon DEF ContactChanges
<1>5. ASSUME NEW e \in Enrollment, StepFallsDue(e)
      PROVE  Effect
  BY <1>5, Zenon DEF StepFallsDue, SetEnrollment, EnrollmentRow
<1>6. ASSUME NEW e \in Enrollment, NEW channel \in SUPPORTED_CHANNELS,
             CreateSuppression(e, channel)
      PROVE  Effect
  BY <1>6, Zenon DEF CreateSuppression
<1>7. ASSUME NEW e \in Enrollment, NEW s \in Step, SentLeavesWindow(e, s)
      PROVE  Effect
  BY <1>7, SMTT(60) DEF SentLeavesWindow, OutboundRow
<1>8. ASSUME NEW e \in Enrollment, NEW m \in Message, NEW kind \in InboundEmailEventType,
             InboundUnmatched(e, m, kind)
      PROVE  Effect
  BY <1>8, Zenon DEF InboundUnmatched
<1> HIDE DEF IInv, TypeInv, TypeOK, Effect
<1>9. QED
  BY <1>1, <1>2, <1>3, <1>4, <1>5, <1>6, <1>7, <1>8, Zenon DEF Environment

\* A handler that reads its rows changes only its own transaction, and the copy it takes
\* has the facts the invariant gives for the rows.
LEMMA BeginEffect ==
  ASSUME IInv, NEW w \in Worker, Begin(w)
  PROVE  Effect
<1> DEFINE Alone == \A v \in Worker \ {w} : tx'[v] = tx[v]
           Rest == UNCHANGED <<database, policy, delivered>>
<1>1. ASSUME Alone, Rest, tx'[w] = tx[w] \/ Started(w)
      PROVE  Effect
  BY <1>1, Zenon DEF database, policy, Effect, ActivityEffect, DeliveredEffect, OutboundEffect,
              EnrollmentEffect, TxEffect
<1>2. ASSUME NEW op \in Op, NEW e \in Enrollment, NEW s \in 0..NSteps, NEW msgs,
             Read(w, op, e, s, msgs),
             op \in Scheduler => op = "send_next" /\ s = enrollment[e].step,
             op \in Approval => /\ op = "approve" /\ s \in Step /\ StepChannel[s] = "email"
                               /\ activity[e][s] # "none",
             op = "complete" => s \in Step /\ activity[e][s] = "pending"
      PROVE  Alone /\ Started(w)
  BY <1>2, Zenon DEF Read, Started, IInv, TypeInv, TypeOK
<1>3. CASE ProcessDueSequenceSteps(w)
  BY <1>1, <1>3, Zenon DEF ProcessDueSequenceSteps
<1>4. ASSUME NEW e \in Enrollment, SendNextRead(w, e)
      PROVE  Effect
  <2>1. enrollment[e].step \in 0..NSteps /\ "send_next" \in Op
        /\ "send_next" \notin Approval \cup {"complete"}
    BY StepAssumption DEF IInv, TypeInv, TypeOK, EnrollmentRow, Step, Op, Approval
  <2>2. CASE Read(w, "send_next", e, enrollment[e].step, {})
    <3>1. Alone /\ Started(w)
      BY <1>2, <2>1, <2>2, Zenon
    <3>2. QED
      BY <1>1, <1>4, <3>1, Zenon DEF SendNextRead
  <2>3. CASE tx' = tx
    BY <1>1, <1>4, <2>3, Zenon DEF SendNextRead
  <2>4. QED
    BY <1>4, <2>2, <2>3, Zenon DEF SendNextRead
<1>5. ASSUME NEW e \in Enrollment,
             PauseRead(w, e) \/ ResumeRead(w, e) \/ CancelRead(w, e) \/ MeetingRead(w, e)
      PROVE  Effect
  <2>1. PICK op \in {"pause", "resume", "cancel", "meeting"} : Read(w, op, e, 0, {})
    BY <1>5, Zenon DEF PauseRead, ResumeRead, CancelRead, MeetingRead
  <2>2. op \in Op /\ op \notin Scheduler \cup Approval \cup {"complete"} /\ 0 \in 0..NSteps
    BY StepAssumption, SMTT(60) DEF Op, Scheduler, Approval
  <2>3. Alone /\ Started(w)
    BY <1>2, <2>1, <2>2, Zenon
  <2>4. QED
    BY <1>1, <1>5, <2>3, Zenon DEF PauseRead, ResumeRead, CancelRead, MeetingRead
<1>6. ASSUME NEW e \in Enrollment, NEW s \in Step, ApproveRead(w, e, s)
      PROVE  Effect
  <2>1. PICK op \in {"approve", "refused"} : Read(w, op, e, s, {})
    BY <1>6, Zenon DEF ApproveRead
  <2>2. op \in Op /\ op \notin Scheduler \cup {"complete"} /\ s \in 0..NSteps
        /\ (op \in Approval => op = "approve")
    BY SMTT(60) DEF Op, Scheduler, Approval, Step
  <2>3. Alone /\ Started(w)
    BY <1>2, <1>6, <2>1, <2>2, Zenon DEF ApproveRead
  <2>4. QED
    BY <1>1, <1>6, <2>3, Zenon DEF ApproveRead
<1>7. ASSUME NEW e \in Enrollment, NEW s \in Step, CompleteActivityRead(w, e, s)
      PROVE  Effect
  <2>1. "complete" \in Op /\ "complete" \notin Scheduler \cup Approval /\ s \in 0..NSteps
    BY DEF Op, Scheduler, Approval, Step
  <2>2. Alone /\ Started(w)
    BY <1>2, <1>7, <2>1, Zenon DEF CompleteActivityRead
  <2>3. QED
    BY <1>1, <1>7, <2>2, Zenon DEF CompleteActivityRead
<1>8. ASSUME NEW e \in Enrollment, NEW s \in 0..NSteps, NEW m \in Message,
             NEW kind \in InboundEmailEventType, InboundRead(w, e, s, m, kind)
      PROVE  Effect
  <2>1. kind \in Op /\ kind \notin Scheduler \cup Approval \cup {"complete"}
    BY Zenon DEF InboundEmailEventType, Op, Scheduler, Approval
  <2>2. Alone /\ Started(w)
    BY <1>2, <1>8, <2>1, Zenon DEF InboundRead
  <2>3. QED
    BY <1>1, <1>8, <2>2, Zenon DEF InboundRead
<1>9. QED
  BY <1>3, <1>4, <1>5, <1>6, <1>7, <1>8, Zenon DEF Begin

\* A commit that leaves the step alone and does not complete the enrollment (or has
\* stored a reply or a meeting) has no effect on the enrollments that matters here.
LEMMA RowEffect ==
  ASSUME IInv, NEW e \in exported, NEW row \in EnrollmentRow, SetEnrollment(e, row),
         row.step = enrollment[e].step,
         row.status = "completed" => enrollment[e].status = "completed" \/ e \in engaged'
  PROVE  EnrollmentEffect
BY Zenon DEF IInv, TypeInv, TypeOK, SetEnrollment, EnrollmentEffect

\* _advance_enrollment moves to the next step, or completes after the last one, only
\* for a step whose work the same commit finishes.
LEMMA AdvanceEffect ==
  ASSUME IInv, NEW w \in Worker, tx[w].op \in {"approve_sent", "complete"},
         SetActivity(tx[w].e, tx[w].s, "completed"),
         SetEnrollment(tx[w].e, AdvanceEnrollment(enrollment[tx[w].e], tx[w].row, tx[w].s))
  PROVE  ActivityEffect /\ EnrollmentEffect
<1> DEFINE t == tx[w]
           c == enrollment[t.e]
           row == AdvanceEnrollment(c, t.row, t.s)
<1>1. /\ t.e \in Enrollment /\ t.row \in EnrollmentRow /\ t.e \in exported
      /\ t.s \in Step
  BY BusyType DEF IInv, TypeInv, StepTyped, TxInv, TxFacts, Idle, Approval
<1>2. c \in EnrollmentRow /\ activity[t.e] \in [Step -> ActivityStatus]
  BY <1>1, Zenon DEF IInv, TypeInv, TypeOK
<1>3. activity' = [activity EXCEPT ![t.e][t.s] = "completed"]
  BY Zenon DEF SetActivity
<1>4. activity'[t.e][t.s] = "completed"
  BY <1>1, <1>2, <1>3, Zenon DEF IInv, TypeInv, TypeOK
<1>5. Doing(w, {"approve_sent", "complete"}, t.e, t.s)
  BY Zenon DEF Doing
<1>6. ActivityEffect
  BY <1>1, <1>2, <1>3, <1>4, <1>5, Zenon DEF ActivityEffect, IInv, TypeInv, TypeOK
<1>7. Advanced(t.e, t.s)
  BY <1>4, <1>5, Zenon DEF Advanced
<1>8. /\ row.step = c.step \/ row.step = t.s + 1
      /\ row.status = "completed" => c.status = "completed" \/ t.s = NSteps
  BY <1>2, ZenonT(60) DEF AdvanceEnrollment, CompleteEnrollment, Written
<1>9. enrollment' = [enrollment EXCEPT ![t.e] = row]
  BY Zenon DEF SetEnrollment
<1> HIDE DEF row
<1>10. EnrollmentEffect
  BY <1>1, <1>7, <1>8, <1>9, Zenon DEF EnrollmentEffect, IInv, TypeInv, TypeOK
<1>11. QED
  BY <1>6, <1>10, Zenon

\* Kept(c, row): the row keeps the step of c and is completed only if c was.
Kept(c, row) ==
  /\ row \in EnrollmentRow
  /\ row.step = c.step
  /\ row.status = "completed" => c.status = "completed"

\* Pause, resume, cancel, bounce and unsubscribe write rows that keep the current step
\* and complete nothing.
LEMMA KeptRows ==
  ASSUME NEW c \in EnrollmentRow, NEW r \in EnrollmentRow
  PROVE  /\ \A status \in EnrollmentStatus \ {"completed"} : Kept(c, SetStatus(c, r, status))
         /\ Kept(c, ResumeEnrollment(c, r))
         /\ \A next \in {"none", "later", "due"} : Kept(c, [c EXCEPT !.next = next])
         /\ \A status \in {"paused", "suppressed"} :
              Kept(c, [c EXCEPT !.status = Written(r.status, status, @)])
<1>1. ASSUME NEW status \in EnrollmentStatus \ {"completed"}
      PROVE  Kept(c, SetStatus(c, r, status))
  BY RowTypes, Zenon DEF Kept, SetStatus, Written
<1>2. Kept(c, ResumeEnrollment(c, r))
  BY RowTypes, Zenon DEF Kept, ResumeEnrollment, Written
<1>3. ASSUME NEW next \in {"none", "later", "due"}
      PROVE  Kept(c, [c EXCEPT !.next = next])
  BY Zenon DEF Kept, EnrollmentRow
<1>4. ASSUME NEW status \in {"paused", "suppressed"}
      PROVE  Kept(c, [c EXCEPT !.status = Written(r.status, status, @)])
  <2>1. Written(r.status, status, c.status) \in EnrollmentStatus
    BY Zenon DEF Written, EnrollmentRow, EnrollmentStatus, TERMINAL_ENROLLMENT_STATUSES
  <2>2. Written(r.status, status, c.status) = "completed" => c.status = "completed"
    BY Zenon DEF Written
  <2>3. QED
    BY <2>1, <2>2, Zenon DEF Kept, EnrollmentRow
<1>5. QED
  BY <1>1, <1>2, <1>3, <1>4, Zenon

\* Every commit, SMTP call and rollback has one of the effects Effect allows.
LEMMA FinishEffect ==
  ASSUME IInv, NEW w \in Worker, Finish(w)
  PROVE  Effect
<1> DEFINE t == tx[w]
           c == enrollment[t.e]
<1>busy. ASSUME t.op # "idle"
         PROVE  /\ t.e \in Enrollment /\ t.e \in exported /\ c \in EnrollmentRow
                /\ t.row \in EnrollmentRow
  BY <1>busy, BusyType DEF IInv, TypeInv, TypeOK, TxInv, TxFacts, Idle
<1>idle. ASSUME tx' = [tx EXCEPT ![w] = Idle]
         PROVE  TxEffect
  BY <1>idle, Zenon DEF IInv, TypeInv, TypeOK, TxEffect
<1>act. ASSUME UNCHANGED activity PROVE ActivityEffect
  BY <1>act, Zenon DEF ActivityEffect
<1>del. ASSUME UNCHANGED delivered PROVE DeliveredEffect
  BY <1>del, Zenon DEF DeliveredEffect
<1>out. ASSUME UNCHANGED outbound PROVE OutboundEffect
  BY <1>out, Zenon DEF OutboundEffect
\* Commits that write the enrollment row and nothing else of interest.
<1>row. ASSUME NEW op \in Op, Commit(w, op), OutboundEffect,
               NEW row \in EnrollmentRow, SetEnrollment(t.e, row), row.step = c.step,
               row.status = "completed" => c.status = "completed" \/ t.e \in engaged',
               engaged \subseteq engaged', UNCHANGED <<activity, exported, delivered>>
        PROVE  Effect
  <2>1. t.op # "idle"
    BY <1>row, CommitType, Zenon DEF IInv
  <2>2. tx' = [tx EXCEPT ![w] = Idle]
    BY <1>row, Zenon DEF Commit
  <2>3. EnrollmentEffect
    BY <1>row, <1>busy, <2>1, RowEffect, Zenon
  <2>4. QED
    BY <1>row, <1>idle, <1>act, <1>del, <2>2, <2>3, Zenon DEF Effect
<1>kept. ASSUME NEW op \in Op, Commit(w, op), NEW row, Kept(c, row), SetEnrollment(t.e, row),
                OutboundEffect, UNCHANGED <<activity, engaged, exported, delivered>>
         PROVE  Effect
  BY <1>kept, <1>row, Zenon DEF Kept
<1>rows. ASSUME NEW op \in Op, Commit(w, op)
         PROVE  c \in EnrollmentRow /\ t.row \in EnrollmentRow /\ t.e \in Enrollment
  BY <1>rows, <1>busy, CommitType, Zenon DEF IInv
<1>1. CASE SendNextPause(w) \/ SendNextSuppress(w) \/ PauseSequenceEnrollment(w)
           \/ CancelSequenceEnrollment(w)
  <2>1. PICK op \in {"policy_pause", "policy_suppress", "pause", "cancel"},
             status \in {"paused", "suppressed", "canceled"} :
               Commit(w, op) /\ SetEnrollment(t.e, SetStatus(c, t.row, status))
    BY <1>1, Zenon DEF SendNextPause, SendNextSuppress, PauseSequenceEnrollment,
                CancelSequenceEnrollment, PauseForPolicy, SuppressEnrollment
  <2>2. op \in Op /\ status \in EnrollmentStatus \ {"completed"}
    BY Zenon DEF Op, EnrollmentStatus, TERMINAL_ENROLLMENT_STATUSES
  <2>3. Kept(c, SetStatus(c, t.row, status))
    BY <1>rows, <2>1, <2>2, KeptRows, Zenon
  <2>4. UNCHANGED <<activity, outbound, engaged, exported, delivered>>
    BY <1>1, Zenon DEF SendNextPause, SendNextSuppress, PauseSequenceEnrollment,
                CancelSequenceEnrollment, policy
  <2>5. QED
    BY <1>kept, <1>out, <2>1, <2>2, <2>3, <2>4, Zenon
<1>2. CASE ResumeSequenceEnrollment(w)
  <2>1. Commit(w, "resume") /\ "resume" \in Op
    BY <1>2, Zenon DEF ResumeSequenceEnrollment, Op
  <2>2. Kept(c, ResumeEnrollment(c, t.row))
    BY <1>rows, <2>1, KeptRows, ZenonT(60)
  <2>3. QED
    BY <1>kept, <1>out, <1>2, <2>1, <2>2, Zenon DEF ResumeSequenceEnrollment, policy
<1>3. CASE ProcessReply(w) \/ MeetingBooked(w)
  <2>1. PICK op \in {"reply", "meeting"} : Commit(w, op)
    BY <1>3, Zenon DEF ProcessReply, MeetingBooked
  <2>2. op \in Op
    BY Zenon DEF Op
  <2>3. CompleteEnrollment(c, t.row) \in EnrollmentRow
    BY <1>rows, <2>1, <2>2, RowTypes, Zenon
  <2>4. CompleteEnrollment(c, t.row).step = c.step
    BY Zenon DEF CompleteEnrollment
  <2>5. t.e \in engaged' /\ engaged \subseteq engaged'
    BY <1>3, Zenon DEF ProcessReply, MeetingBooked
  <2>6. QED
    BY <1>row, <1>out, <1>3, <2>1, <2>2, <2>3, <2>4, <2>5, Zenon DEF ProcessReply, MeetingBooked,
       policy
<1>4. CASE SendNextDefer(w)
  <2>1. Commit(w, "defer") /\ "defer" \in Op
    BY <1>4 DEF SendNextDefer, Op
  <2>2. Kept(c, [c EXCEPT !.next = "later"])
    BY <1>rows, <2>1, KeptRows, Zenon
  <2>3. QED
    BY <1>kept, <1>out, <1>4, <2>1, <2>2 DEF SendNextDefer, policy
<1>5. CASE ProcessUnsubscribe(w)
  <2>1. Commit(w, "unsubscribe") /\ "unsubscribe" \in Op
    BY <1>5 DEF ProcessUnsubscribe, Op
  <2>2. Kept(c, [c EXCEPT !.status = Written(t.row.status, "suppressed", @)])
    BY <1>rows, <2>1, KeptRows, Zenon
  <2>3. QED
    BY <1>kept, <1>out, <1>5, <2>1, <2>2 DEF ProcessUnsubscribe
<1>6. CASE ProcessBounce(w)
  <2>1. Commit(w, "bounce") /\ "bounce" \in Op
    BY <1>6 DEF ProcessBounce, Op
  <2>2. Kept(c, [c EXCEPT !.status = Written(t.row.status, "paused", @)])
    BY <1>rows, <2>1, KeptRows, Zenon
  <2>3. OutboundEffect
    BY <1>6, <1>rows, <2>1
    DEF ProcessBounce, OutboundEffect, IInv, TypeInv, TypeOK, OutboundRow
  <2>4. QED
    BY <1>kept, <1>6, <2>1, <2>2, <2>3 DEF ProcessBounce, policy
<1>7. CASE SendNextActivity(w)
  <2>1. Commit(w, "activity") /\ "activity" \in Op
    BY <1>7, Zenon DEF SendNextActivity, Op
  <2>2. t.op = "activity" /\ t.e \in exported /\ tx' = [tx EXCEPT ![w] = Idle]
    BY <2>1, <1>busy, Zenon DEF Commit
  <2>3. t.s \in Step /\ activity \in [Enrollment -> [Step -> ActivityStatus]]
    BY <2>2 DEF IInv, TypeInv, TypeOK, StepTyped, Scheduler
  <2>4. Kept(c, [c EXCEPT !.next = ClearedNext(t.row, @)])
    BY <1>rows, <2>1, KeptRows, Zenon DEF ClearedNext, EnrollmentRow
  <2>5. EnrollmentEffect
    BY <1>7, <2>2, <2>4, RowEffect, ZenonT(60) DEF SendNextActivity, Kept
  <2>6. ActivityEffect
    BY <1>7, <1>rows, <2>1, <2>2, <2>3, ZenonT(60)
    DEF SendNextActivity, ActivityForStep, SetActivity, ActivityEffect, Doing
  <2>7. QED
    BY <1>7, <1>idle, <1>out, <1>del, <2>2, <2>5, <2>6 DEF SendNextActivity, policy, Effect
<1>8. CASE SendNextPresent(w)
  <2>1. Commit(w, "present") /\ "present" \in Op
    BY <1>8, Zenon DEF SendNextPresent, Op
  <2>2. t.op = "present" /\ t.e \in exported /\ tx' = [tx EXCEPT ![w] = Idle]
    BY <2>1, <1>busy DEF Commit
  <2>3. /\ t.s \in Step /\ activity \in [Enrollment -> [Step -> ActivityStatus]]
        /\ outbound \in [Enrollment -> [Step -> OutboundRow]]
    BY <2>2 DEF IInv, TypeInv, TypeOK, StepTyped, Scheduler
  <2>4. Kept(c, [c EXCEPT !.next = ClearedNext(t.row, @)])
    BY <1>rows, <2>1, KeptRows, Zenon DEF ClearedNext, EnrollmentRow
  <2>5. EnrollmentEffect
    BY <1>8, <2>2, <2>4, RowEffect, Zenon DEF SendNextPresent, Kept
  <2>6. ActivityEffect
    BY <1>8, <1>rows, <2>1, <2>2, <2>3, ZenonT(60) DEF SendNextPresent, ActivityForStep,
       SetActivity, ActivityEffect, Doing
  <2>7. OutboundEffect
    BY <1>8, <1>rows, <2>1, <2>3, ZenonT(60) DEF SendNextPresent, OutboundEffect, OutboundRow, Written
  <2>8. QED
    BY <1>8, <1>idle, <1>del, <2>2, <2>5, <2>6, <2>7 DEF SendNextPresent, policy, Effect
<1>9. CASE ApproveSent(w)
  <2>1. Commit(w, "approve_sent") /\ "approve_sent" \in Op
    BY <1>9, Zenon DEF ApproveSent, Op
  <2>2. t.op = "approve_sent" /\ t.e \in Enrollment /\ tx' = [tx EXCEPT ![w] = Idle]
    BY <2>1, <1>busy, ZenonT(60) DEF Commit
  <2>3. ActivityEffect /\ EnrollmentEffect
    BY <1>9, <2>2, AdvanceEffect, SMTT(60) DEF ApproveSent
  <2>4. OutboundEffect
    <3>1. t.s \in Step /\ outbound \in [Enrollment -> [Step -> OutboundRow]]
      BY <2>2, Zenon DEF IInv, TypeInv, TypeOK, StepTyped, Approval
    <3>2. Doing(w, {"approve_sent"}, t.e, t.s)
      BY <2>2, SMTT(60) DEF Doing
    <3>3. \A e \in Enrollment, s \in Step :
            e # t.e \/ s # t.s => outbound'[e][s] = outbound[e][s]
      BY <1>9, <2>2, <3>1, ZenonT(60) DEF ApproveSent
    <3>4. QED
      BY <3>2, <3>3 DEF OutboundEffect
  <2>5. QED
    BY <1>9, <1>idle, <1>del, <2>2, <2>3, <2>4, SMTT(60) DEF ApproveSent, policy, Effect
<1>10. CASE ApproveFailed(w)
  <2>1. Commit(w, "approve_failed") /\ "approve_failed" \in Op
    BY <1>10, Zenon DEF ApproveFailed, Op
  <2>2. t.op = "approve_failed" /\ t.e \in exported /\ tx' = [tx EXCEPT ![w] = Idle]
    BY <2>1, <1>busy DEF Commit
  <2>3. /\ t.s \in Step /\ activity \in [Enrollment -> [Step -> ActivityStatus]]
        /\ outbound \in [Enrollment -> [Step -> OutboundRow]]
    BY <2>2 DEF IInv, TypeInv, TypeOK, StepTyped, Approval
  <2>4. Kept(c, [c EXCEPT !.next = "later"])
    BY <1>rows, <2>1, KeptRows, Zenon
  <2>5. EnrollmentEffect
    BY <1>10, <2>2, <2>4, RowEffect, ZenonT(60) DEF ApproveFailed, Kept
  <2>6. ActivityEffect
    BY <1>10, <1>rows, <2>1, <2>2, <2>3, ZenonT(60) DEF ApproveFailed, SetActivity, ActivityEffect, Doing
  <2>7. OutboundEffect
    BY <1>10, <1>rows, <2>1, <2>3, Zenon DEF ApproveFailed, OutboundEffect, OutboundRow, Written
  <2>8. QED
    BY <1>10, <1>idle, <1>del, <2>2, <2>5, <2>6, <2>7, SMTT(60) DEF ApproveFailed, policy, Effect
<1>11. CASE CompleteActivity(w)
  <2>1. t.op = "complete" /\ tx' = [tx EXCEPT ![w] = Idle]
    BY <1>11, Zenon DEF CompleteActivity, Commit
  <2>2. ActivityEffect /\ EnrollmentEffect
    BY <1>11, <2>1, AdvanceEffect, Zenon DEF CompleteActivity
  <2>3. QED
    BY <1>11, <1>idle, <1>out, <1>del, <2>1, <2>2, SMTT(60) DEF CompleteActivity, policy, Effect
<1>same. ASSUME UNCHANGED <<database, policy>>
         PROVE  ActivityEffect /\ OutboundEffect /\ EnrollmentEffect
  BY <1>same, Zenon DEF database, policy, ActivityEffect, OutboundEffect, EnrollmentEffect
<1>12. CASE Rollback(w)
  BY <1>12, <1>same, <1>idle, <1>del DEF Rollback, database, policy, Effect
<1>13. CASE SendNextGate(w)
  <2>1. Continued(w) /\ \A v \in Worker \ {w} : tx'[v] = tx[v]
    BY <1>13, Zenon DEF SendNextGate, Continued, IInv, TypeInv, TypeOK
  <2>2. QED
    BY <1>13, <1>same, <1>del, <2>1 DEF SendNextGate, database, policy, TxEffect, Effect
<1>14. CASE ApproveSmtp(w)
  <2>1. PICK op \in {"approve_sent", "approve_failed"}, accepted \in BOOLEAN :
          /\ op = "approve_sent" => accepted
          /\ tx' = [tx EXCEPT ![w] = ReadOutbound(t, op)]
          /\ delivered' = [delivered EXCEPT ![t.e][t.s] = IF accepted THEN @ + 1 ELSE @]
    BY <1>14, ZenonT(60) DEF ApproveSmtp
  <2>2. t.op = "approve" /\ t.e \in Enrollment
    BY <1>14, <1>busy, Zenon DEF ApproveSmtp
  <2>3. t.s \in Step /\ delivered \in [Enrollment -> [Step -> Nat]]
    BY <2>2, Zenon DEF IInv, TypeInv, TypeOK, StepTyped, Approval
  <2>4. Doing(w, {"approve"}, t.e, t.s)
    BY <2>2, ZenonT(60) DEF Doing
  <2>5. DeliveredEffect
    BY <2>1, <2>2, <2>3, <2>4 DEF DeliveredEffect
  <2>6. accepted => delivered'[t.e][t.s] > 0
    BY <2>1, <2>2, <2>3
  <2>7. Continued(w) /\ \A v \in Worker \ {w} : tx'[v] = tx[v]
    BY <2>1, <2>2, <2>6, Zenon DEF Continued, IInv, TypeInv, TypeOK
  <2>8. QED
    BY <1>14, <1>same, <2>5, <2>7, SMTT(60) DEF ApproveSmtp, database, policy, TxEffect, Effect
<1>15. QED
  BY <1>1, <1>2, <1>3, <1>4, <1>5, <1>6, <1>7, <1>8, <1>9, <1>10, <1>11, <1>12, <1>13,
     <1>14 DEF Finish
-----------------------------------------------------------------------------
(* The invariants *)

\* A worker that is doing something has the facts of its transaction.
LEMMA Working ==
  ASSUME IInv, NEW w \in Worker, tx[w].op # "idle"
  PROVE  TxFacts(tx[w])
<1>1. tx[w] # Idle
  BY DEF Idle
<1>2. QED
  BY <1>1 DEF IInv, TxInv

\* A second read of a handler (its outbound row) keeps what the first one read.
LEMMA ReadAgain ==
  ASSUME NEW t, NEW op
  PROVE  /\ ReadOutbound(t, op).op = op
         /\ ReadOutbound(t, op).e = t.e
         /\ ReadOutbound(t, op).s = t.s
         /\ ReadOutbound(t, op).row = t.row
BY SMTT(60) DEF ReadOutbound

\* What has happened stays so: a delivered e-mail, a completed activity, an activity
\* that exists.
LEMMA Monotone ==
  ASSUME IInv, Effect, NEW e \in Enrollment, NEW s \in Step
  PROVE  /\ delivered[e][s] > 0 => delivered'[e][s] > 0
         /\ activity[e][s] # "none" => activity'[e][s] # "none"
         /\ Done(e, s) => Done(e, s)'
<1>1. delivered[e][s] > 0 => delivered'[e][s] > 0
  BY DEF Effect, DeliveredEffect, IInv, TypeInv, TypeOK
<1>2. activity[e][s] # "none" => activity'[e][s] # "none"
  BY DEF Effect, ActivityEffect
<1>3. ASSUME StepChannel[s] # "email", activity[e][s] = "completed"
      PROVE  activity'[e][s] = "completed"
  <2>1. \A w \in Worker : ~Doing(w, {"approve_failed"}, e, s)
    BY <1>3, Working, Zenon DEF Doing, TxFacts, Approval
  <2>2. QED
    BY <1>3, <2>1, SMTT(60) DEF Effect, ActivityEffect
<1>4. QED
  BY <1>1, <1>2, <1>3, SMTT(60) DEF Done

\* A step that was just completed is done, and so are those before it.
LEMMA AdvancedDone ==
  ASSUME IInv, Effect, NEW e \in Enrollment, NEW s \in Step, Advanced(e, s)
  PROVE  \A j \in Step : j <= s => Done(e, j)'
<1>1. PICK w \in Worker : Doing(w, {"approve_sent", "complete"}, e, s)
  BY SMTT(60) DEF Advanced
<1> DEFINE t == tx[w]
<1>t. TxFacts(t) /\ t.e = e /\ t.s = s /\ t.op \in {"approve_sent", "complete"}
  BY <1>1, Working DEF Doing
<1> HIDE DEF t
<1>2. activity[e][s] # "none"
  BY <1>t DEF TxFacts, Approval
<1>3. Done(e, s)'
  <2>1. CASE t.op = "approve_sent"
    <3>1. StepChannel[s] = "email" /\ delivered[e][s] > 0
      BY <1>t, <2>1, Zenon DEF TxFacts, Approval
    <3>2. QED
      BY <3>1, Monotone DEF Done
  <2>2. CASE t.op = "complete"
    <3>1. StepChannel[s] # "email"
      BY <1>t, <2>2, Zenon DEF TxFacts
    <3>2. QED
      BY <3>1, SMTT(60) DEF Advanced, Done
  <2>3. QED
    BY <1>t, <2>1, <2>2
<1>4. \A j \in Step : j < s => Done(e, j)'
  BY <1>2, Monotone, SMTT(60) DEF IInv, ActivityInv, PriorDone
<1>5. QED
  BY <1>3, <1>4 DEF Step

\* The steps before one that has an activity stay done.
LEMMA ActivityStep ==
  ASSUME IInv, Effect
  PROVE  ActivityInv'
<1> SUFFICES ASSUME NEW e \in Enrollment, NEW s \in Step
             PROVE  /\ activity'[e][s] \in ChannelStatus(s)
                    /\ activity'[e][s] # "none" => e \in exported' /\ PriorDone(e, s)'
  BY Zenon DEF ActivityInv, ChannelStatus
<1>1. CASE activity'[e][s] = activity[e][s]
  BY <1>1, Monotone, SMTT(60) DEF IInv, ActivityInv, PriorDone, Effect
<1>2. ASSUME NEW w \in Worker,
             \/ Doing(w, {"approve_sent", "complete"}, e, s) /\ activity'[e][s] = "completed"
             \/ Doing(w, {"approve_failed"}, e, s) /\ activity'[e][s] = "failed"
      PROVE  /\ activity'[e][s] \in ChannelStatus(s)
             /\ e \in exported' /\ PriorDone(e, s)'
  <2>1. /\ activity[e][s] # "none"
        /\ activity'[e][s] = "failed" => StepChannel[s] = "email"
    <3> DEFINE t == tx[w]
    <3>1. TxFacts(t) /\ t.e = e /\ t.s = s
      BY <1>2, Working DEF Doing
    <3>2. /\ t.op \in {"approve_sent", "complete", "approve_failed"}
          /\ activity'[e][s] = "failed" => t.op = "approve_failed"
      BY <1>2, SMTT(60) DEF Doing
    <3> HIDE DEF t
    <3>3. QED
      BY <3>1, <3>2 DEF TxFacts, Approval
  <2>2. QED
    BY <1>2, <2>1, Monotone, SMTT(60) DEF IInv, ActivityInv, PriorDone, Effect, ChannelStatus
<1>3. ASSUME NEW w \in Worker,
             \/ Doing(w, {"activity"}, e, s) /\ activity'[e][s] = "pending"
             \/ Doing(w, {"present"}, e, s) /\ activity'[e][s] = "pending_approval"
      PROVE  /\ activity'[e][s] \in ChannelStatus(s)
             /\ e \in exported' /\ PriorDone(e, s)'
  <2>1. /\ e \in exported /\ PriorDone(e, s)
        /\ (StepChannel[s] = "email") = (activity'[e][s] = "pending_approval")
    <3> DEFINE t == tx[w]
    <3>1. TxFacts(t) /\ t.e = e /\ t.s = s
      BY <1>3, Working DEF Doing
    <3>2. \/ t.op = "activity" /\ activity'[e][s] = "pending"
          \/ t.op = "present" /\ activity'[e][s] = "pending_approval"
      BY <1>3, SMTT(60) DEF Doing
    <3> HIDE DEF t
    <3>3. QED
      BY <3>1, <3>2, SMTT(60) DEF TxFacts, Scheduler
  <2>2. QED
    BY <1>3, <2>1, Monotone, SMTT(60) DEF PriorDone, Effect, ChannelStatus
<1>4. QED
  BY <1>1, <1>2, <1>3, SMTT(60) DEF Effect, ActivityEffect

\* The steps before an enrollment's current step stay done, and a completed enrollment
\* stays justified, also when a stale copy of the row is written back.
LEMMA EnrollmentStep ==
  ASSUME IInv, Effect
  PROVE  EnrollmentInv' /\ CompletedMeansDone'
<1> SUFFICES ASSUME NEW e \in Enrollment
             PROVE  /\ PriorDone(e, enrollment[e].step)'
                    /\ enrollment'[e].status # "none" => e \in exported'
                    /\ enrollment'[e].status = "completed"
                       => e \in engaged' \/ \A s \in Step : Done(e, s)'
  BY SMTT(60) DEF EnrollmentInv, CompletedMeansDone, PriorDone
<1>1. PriorDone(e, enrollment[e].step)'
  <2>1. CASE enrollment'[e].step = enrollment[e].step
    BY <2>1, Monotone DEF IInv, EnrollmentInv, PriorDone
  <2>2. CASE enrollment'[e].step = 1
    BY <2>2 DEF PriorDone, Step
  <2>3. ASSUME NEW s \in Step, enrollment'[e].step = s + 1, Advanced(e, s)
        PROVE  PriorDone(e, enrollment[e].step)'
    BY <2>3, AdvancedDone DEF PriorDone, Step
  <2>4. QED
    BY <2>1, <2>2, <2>3 DEF Effect, EnrollmentEffect
<1>2. enrollment'[e].status # "none" => e \in exported'
  BY SMTT(60) DEF Effect, EnrollmentEffect, IInv, EnrollmentInv
<1>3. ASSUME enrollment'[e].status = "completed"
      PROVE  e \in engaged' \/ \A s \in Step : Done(e, s)'
  <2>1. CASE enrollment[e].status = "completed"
    BY <2>1, Monotone DEF IInv, CompletedMeansDone, Effect
  <2>2. CASE Advanced(e, NSteps)
    BY <2>2, AdvancedDone, StepAssumption DEF Step
  <2>3. QED
    BY <1>3, <2>1, <2>2, SMTT(60) DEF Effect, EnrollmentEffect
<1>4. QED
  BY <1>1, <1>2, <1>3

\* What the database calls sent stays what the mail server accepted.
LEMMA SentStep ==
  ASSUME IInv, Effect
  PROVE  SentIsReal'
<1> SUFFICES ASSUME NEW e \in Enrollment, NEW s \in Step
             PROVE  /\ outbound'[e][s].status = "sent" => delivered'[e][s] > 0
                    /\ StepChannel[s] = "email" /\ activity'[e][s] = "completed"
                       => delivered'[e][s] > 0
                    /\ delivered'[e][s] > 0 => e \in exported' /\ activity'[e][s] # "none"
  BY DEF SentIsReal
<1>1. ASSUME NEW w \in Worker, Doing(w, {"approve_sent"}, e, s)
      PROVE  delivered'[e][s] > 0
  <2>1. TxFacts(tx[w])
    BY <1>1, Working, Zenon DEF Doing
  <2>2. delivered[e][s] > 0
    BY <1>1, <2>1, Zenon DEF Doing, TxFacts
  <2>3. QED
    BY <2>2, Monotone
<1>2. outbound'[e][s].status = "sent" => delivered'[e][s] > 0
  BY <1>1, Monotone, ZenonT(60) DEF Effect, OutboundEffect, IInv, SentIsReal
<1>3. ASSUME StepChannel[s] = "email", activity'[e][s] = "completed"
      PROVE  delivered'[e][s] > 0
  <2>1. CASE activity[e][s] = "completed"
    BY <1>3, <2>1, Monotone, SMTT(60) DEF IInv, SentIsReal
  <2>2. ASSUME NEW w \in Worker, Doing(w, {"approve_sent", "complete"}, e, s)
        PROVE  Doing(w, {"approve_sent"}, e, s)
    BY <1>3, <2>2, Working, Zenon DEF Doing, TxFacts
  <2>3. QED
    BY <1>1, <1>3, <2>1, <2>2, SMTT(60) DEF Effect, ActivityEffect
<1>4. ASSUME delivered'[e][s] > 0
      PROVE  e \in exported' /\ activity'[e][s] # "none"
  <2>1. CASE delivered[e][s] > 0
    BY <2>1, Monotone DEF IInv, SentIsReal, Effect
  <2>2. ASSUME NEW w \in Worker, Doing(w, {"approve"}, e, s)
        PROVE  e \in exported' /\ activity'[e][s] # "none"
    <3>1. TxFacts(tx[w])
      BY <2>2, Working, Zenon DEF Doing
    <3>2. e \in exported /\ activity[e][s] # "none"
      BY <2>2, <3>1, Zenon DEF Doing, TxFacts, Approval
    <3>3. QED
      BY <3>2, Monotone DEF Effect
  <2>3. QED
    BY <1>4, <2>1, <2>2, SMTT(60) DEF Effect, DeliveredEffect
<1>5. QED
  BY <1>2, <1>3, <1>4

\* The facts about the copies in running transactions survive the commits of others:
\* they only speak of things that never become false again.
LEMMA TxStep ==
  ASSUME IInv, TypeInv', Effect
  PROVE  TxInv'
<1> SUFFICES ASSUME NEW w \in Worker, NEW t, t = tx'[w], t # Idle
             PROVE  TxFacts(t)'
  BY DEF TxInv
<1>1. /\ t.e \in Enrollment /\ t.row.step \in Step
      /\ t.op \in Scheduler \cup Approval \cup {"complete"} => t.s \in Step
  BY SMTT(60) DEF TypeInv, TypeOK, StepTyped, Transaction, EnrollmentRow
<1>2. CASE tx'[w] = tx[w]
  <2>1. TxFacts(tx[w]) /\ tx[w] = t
    BY <1>2, SMTT(60) DEF IInv, TxInv
  <2>2. PriorDone(t.e, t.row.step)'
    BY <1>1, <2>1, Monotone, ZenonT(60) DEF TxFacts, PriorDone
  <2>3. t.op \in Approval \cup {"complete"} => activity'[t.e][t.s] # "none"
    BY <1>1, <2>1, Monotone, Zenon DEF TxFacts
  <2>4. t.op = "approve_sent" => delivered'[t.e][t.s] > 0
    BY <1>1, <2>1, Monotone, ZenonT(60) DEF TxFacts, Approval
  <2>5. QED
    BY <2>1, <2>2, <2>3, <2>4, SMTT(60) DEF TxFacts, Effect
<1>3. CASE Started(w)
  <2>1. t.e \in exported' /\ PriorDone(t.e, t.row.step)'
    BY <1>1, <1>3, Monotone, ZenonT(60) DEF Started, IInv, EnrollmentInv, PriorDone, Effect
  <2>2. t.op = "complete" => StepChannel[t.s] # "email" /\ activity'[t.e][t.s] # "none"
    BY <1>1, <1>3, Monotone, Zenon DEF Started, IInv, ActivityInv, ChannelStatus
  <2>3. t.op \in Approval => activity'[t.e][t.s] # "none"
    BY <1>1, <1>3, Monotone, Zenon DEF Started
  <2>4. QED
    BY <1>1, <1>3, <2>1, <2>2, <2>3, SMTT(60) DEF Started, TxFacts, Scheduler, Approval
<1>4. CASE Continued(w)
  <2>1. /\ tx[w].op \in {"send_next", "approve"} /\ t.e = tx[w].e /\ t.s = tx[w].s
        /\ t.row = tx[w].row
    BY <1>4, ReadAgain DEF Continued
  <2>2. TxFacts(tx[w])
    BY <2>1, Working, ZenonT(60)
  <2>3. t.e \in exported' /\ PriorDone(t.e, t.row.step)'
    BY <1>1, <2>1, <2>2, Monotone, SMTT(60) DEF TxFacts, PriorDone, Effect
  <2>4. CASE tx[w].op = "send_next"
    <3>1. t.op = Gate(t.e, t.s) /\ t.s = t.row.step
      <4>1. t = ReadOutbound(tx[w], Gate(tx[w].e, tx[w].s))
        BY <1>4, <2>4, SMTT(60) DEF Continued
      <4>2. t.op = Gate(tx[w].e, tx[w].s)
        BY <4>1, ReadAgain
      <4>3. tx[w].s = tx[w].row.step
        BY <2>2, <2>4, Zenon DEF TxFacts, Scheduler
      <4>4. QED
        BY <2>1, <4>2, <4>3, SMTT(60)
    <3>2. /\ t.op \in Scheduler
          /\ t.op = "activity" => StepChannel[t.s] # "email"
          /\ t.op = "present" => StepChannel[t.s] = "email"
      BY <3>1, Zenon DEF Gate, Scheduler
    <3>3. QED
      BY <2>3, <3>1, <3>2, SMTT(60) DEF TxFacts, Scheduler, Approval
  <2>5. CASE tx[w].op = "approve"
    <3>1. /\ t.op \in {"approve_sent", "approve_failed"}
          /\ t.op = "approve_sent" => delivered'[t.e][t.s] > 0
      <4>1. PICK op \in {"approve_sent", "approve_failed"} :
              /\ t = ReadOutbound(tx[w], op)
              /\ op = "approve_sent" => delivered'[tx[w].e][tx[w].s] > 0
        BY <1>4, <2>5 DEF Continued
      <4>2. t.op = op
        BY <4>1, ReadAgain
      <4>3. QED
        BY <2>1, <4>1, <4>2, SMTT(60)
    <3>2. t.s \in Step /\ StepChannel[t.s] = "email" /\ activity'[t.e][t.s] # "none"
      BY <1>1, <2>1, <2>2, <2>5, Monotone, Zenon DEF TxFacts, Approval
    <3>3. QED
      BY <2>3, <3>1, <3>2, SMTT(60) DEF TxFacts, Scheduler, Approval
  <2>6. QED
    BY <2>1, <2>4, <2>5, SMTT(60)
<1>5. QED
  BY <1>2, <1>3, <1>4 DEF Effect, TxEffect

\* The inductive invariant behind the safety theorems: types, order of the steps, real
\* deliveries, justified completion, and for every running handler the facts about the
\* rows it read, which is what makes a stale write harmless for these properties.
THEOREM Invariant == Spec => []IInv
<1>1. Init => IInv
  <2>1. Init => TypeInv
    BY TypeInit, SMTT(60)
  <2>2. Init => ActivityInv /\ EnrollmentInv /\ TxInv /\ SentIsReal /\ CompletedMeansDone
    BY DEF Init, ActivityInv, ChannelStatus, EnrollmentInv, NoEnrollment, NoOutbound, TxInv,
           PriorDone, Step, SentIsReal, CompletedMeansDone
  <2>3. QED
    BY <2>1, <2>2 DEF IInv
<1>2. IInv /\ [Next]_vars => IInv'
  <2> SUFFICES ASSUME IInv, [Next]_vars
               PROVE  IInv'
    BY Zenon
  <2>1. TypeInv'
    BY TypeStep DEF IInv
  <2>2. Effect
    <3>1. CASE UNCHANGED vars
      BY <3>1, Zenon DEF vars, database, policy, Effect, ActivityEffect, DeliveredEffect,
                  OutboundEffect, EnrollmentEffect, TxEffect
    <3>2. QED
      BY <3>1, EnvironmentEffect, BeginEffect, FinishEffect, SMTT(60) DEF Next
  <2>3. QED
    BY <2>1, <2>2, ActivityStep, EnrollmentStep, SentStep, TxStep DEF IInv
<1>3. QED
  BY <1>1, <1>2, PTL DEF Spec

\* A step is put before an operator only after every earlier step really happened, for
\* any number of overlapping handlers, rollbacks and SMTP errors.
THEOREM OrderCorrect == Spec => []StepsInOrder
<1>1. IInv => StepsInOrder
  BY StepAssumption DEF IInv, ActivityInv, PriorDone, StepsInOrder, Step
<1>2. QED
  BY <1>1, Invariant, PTL

\* An enrollment is completed only when all its steps happened, the contact replied or a
\* meeting was booked.
THEOREM CompletionCorrect == Spec => []CompletedMeansDone
<1>1. IInv => CompletedMeansDone
  BY DEF IInv
<1>2. QED
  BY <1>1, Invariant, PTL

\* What the database records as sent was accepted by the mail server, and nothing is
\* sent for a CRM target that was not exported.
THEOREM SentCorrect == Spec => []SentIsReal
<1>1. IInv => SentIsReal
  BY DEF IInv
<1>2. QED
  BY <1>1, Invariant, PTL

\* Once e-mail to a contact is suppressed no further delivery to it starts: only the
\* handlers already past the policy gate can still reach the mail server, each once.
THEOREM SuppressionCorrect == Spec => NoDeliveryStartsSuppressed
<1> DEFINE Shrinks == \A e \in Enrollment :
             Blocked(e, "email") =>
               /\ Delivering(e)' \subseteq Delivering(e)
               /\ delivered'[e] # delivered[e] => Delivering(e)' # Delivering(e)
<1>1. ASSUME TypeInv, [Next]_vars
      PROVE  Shrinks
  <2>1. ASSUME NEW w \in Worker, NEW e \in Enrollment, Blocked(e, "email"),
               \A v \in Worker \ {w} : tx'[v] = tx[v],
               tx'[w].op = "approve" /\ tx'[w].e = e => tx[w] = tx'[w],
               delivered'[e] # delivered[e] => w \in Delivering(e) /\ tx'[w].op # "approve"
        PROVE  /\ Delivering(e)' \subseteq Delivering(e)
               /\ delivered'[e] # delivered[e] => Delivering(e)' # Delivering(e)
    BY <2>1, ZenonT(60) DEF Delivering
  <2>2. CASE UNCHANGED <<tx, delivered>>
    BY <2>2 DEF Delivering
  <2>12. ASSUME NEW w \in Worker, NEW t, tx' = [tx EXCEPT ![w] = t], UNCHANGED delivered,
                t.op = "approve" => ~Blocked(t.e, "email")
         PROVE  Shrinks
    <3>1. tx'[w] = t /\ \A v \in Worker \ {w} : tx'[v] = tx[v]
      BY <1>1, <2>12, Zenon DEF TypeInv, TypeOK
    <3>2. QED
      BY <2>1, <2>12, <3>1, SMTT(60)
  <2> HIDE DEF Shrinks
  <2>3. ASSUME NEW w \in Worker, NEW op \in Op, NEW e, NEW s, NEW msgs,
               Read(w, op, e, s, msgs), op # "approve", UNCHANGED delivered
        PROVE  Shrinks
    BY <2>3, <2>12, Zenon DEF Read
  <2>4. ASSUME NEW w \in Worker, tx' = [tx EXCEPT ![w] = Idle], UNCHANGED delivered
        PROVE  Shrinks
    BY <2>4, <2>12, Zenon DEF Idle
  <2>5. ASSUME NEW w \in Worker, NEW e \in Enrollment, NEW s \in Step, ApproveRead(w, e, s)
        PROVE  Shrinks
    <3>1. Blocked(e, "email") => Gate(e, s) # "present"
      BY <2>5 DEF ApproveRead, Gate
    <3>2. PICK op \in {"approve", "refused"} :
            Read(w, op, e, s, {}) /\ (Blocked(e, "email") => op = "refused")
      BY <2>5, <3>1, Zenon DEF ApproveRead
    <3>3. UNCHANGED delivered
      BY <2>5 DEF ApproveRead
    <3>4. QED
      BY <2>12, <3>2, <3>3, ZenonT(60) DEF Read
  <2>6. ASSUME NEW w \in Worker, SendNextGate(w)
        PROVE  Shrinks
    <3>1. Gate(tx[w].e, tx[w].s) # "approve"
      BY Zenon DEF Gate
    <3>2. ReadOutbound(tx[w], Gate(tx[w].e, tx[w].s)).op # "approve"
      BY <3>1, ReadAgain
    <3>3. QED
      BY <2>6, <2>12, <3>2, ZenonT(60) DEF SendNextGate
  <2>7. ASSUME NEW w \in Worker, ApproveSmtp(w)
        PROVE  Shrinks
    <3>1. PICK op \in {"approve_sent", "approve_failed"} :
            tx' = [tx EXCEPT ![w] = ReadOutbound(tx[w], op)]
      BY <2>7, Zenon DEF ApproveSmtp
    <3>2. \A e \in Enrollment : delivered'[e] # delivered[e] => e = tx[w].e
      BY <2>7 DEF ApproveSmtp, TypeInv, TypeOK
    <3>3. tx[w].op = "approve" /\ tx'[w].op # "approve"
      <4>1. tx'[w] = ReadOutbound(tx[w], op)
        BY <1>1, <3>1 DEF TypeInv, TypeOK
      <4>2. QED
        BY <2>7, <4>1, ReadAgain DEF ApproveSmtp
    <3>4. \A v \in Worker \ {w} : tx'[v] = tx[v]
      BY <1>1, <3>1, Zenon DEF TypeInv, TypeOK
    <3>5. QED
      BY <2>1, <3>2, <3>3, <3>4 DEF Delivering, Shrinks
  <2>8. CASE UNCHANGED vars \/ Environment
    <3>1. UNCHANGED <<tx, delivered>>
      BY <2>8, ZenonT(60) DEF vars, Environment, SetSequenceStatus, CreateSequenceEnrollment,
                  TargetExported, ContactChanges, StepFallsDue, CreateSuppression,
                  SentLeavesWindow, InboundUnmatched
    <3>2. QED
      BY <2>2, <3>1
  <2>9. ASSUME NEW w \in Worker, Begin(w)
        PROVE  Shrinks
    <3>1. CASE ProcessDueSequenceSteps(w)
      BY <2>2, <3>1 DEF ProcessDueSequenceSteps
    <3>2. ASSUME NEW e \in Enrollment, SendNextRead(w, e)
          PROVE  Shrinks
      <4>1. CASE tx' = tx
        BY <2>2, <3>2, <4>1, Zenon DEF SendNextRead
      <4>2. "send_next" \in Op
        BY Zenon DEF Op
      <4>3. QED
        BY <2>3, <3>2, <4>1, <4>2 DEF SendNextRead
    <3>3. ASSUME NEW e \in Enrollment,
                 PauseRead(w, e) \/ ResumeRead(w, e) \/ CancelRead(w, e) \/ MeetingRead(w, e)
          PROVE  Shrinks
      <4>1. PICK op \in {"pause", "resume", "cancel", "meeting"} : Read(w, op, e, 0, {})
        BY <3>3, Zenon DEF PauseRead, ResumeRead, CancelRead, MeetingRead
      <4>2. op \in Op /\ op # "approve" /\ UNCHANGED delivered
        BY <3>3, Zenon DEF Op, PauseRead, ResumeRead, CancelRead, MeetingRead
      <4>3. QED
        BY <2>3, <4>1, <4>2, SMTT(60)
    <3>4. ASSUME NEW e \in Enrollment, NEW s \in Step, CompleteActivityRead(w, e, s)
          PROVE  Shrinks
      <4>1. "complete" \in Op
        BY Zenon DEF Op
      <4>2. QED
        BY <2>3, <3>4, <4>1 DEF CompleteActivityRead
    <3>5. ASSUME NEW e \in Enrollment, NEW s \in 0..NSteps, NEW m \in Message,
                 NEW kind \in InboundEmailEventType, InboundRead(w, e, s, m, kind)
          PROVE  Shrinks
      <4>1. kind \in Op /\ kind # "approve"
        BY Zenon DEF InboundEmailEventType, Op
      <4>2. QED
        BY <2>3, <3>5, <4>1 DEF InboundRead
    <3>6. QED
      BY <2>5, <2>9, <3>1, <3>2, <3>3, <3>4, <3>5 DEF Begin
  <2>10. ASSUME NEW w \in Worker, Finish(w)
         PROVE  Shrinks
    <3>1. \/ SendNextGate(w)
          \/ ApproveSmtp(w)
          \/ tx' = [tx EXCEPT ![w] = Idle] /\ UNCHANGED delivered
      BY <2>10, Zenon DEF Finish, Commit, SendNextPause, SendNextSuppress, SendNextActivity,
           SendNextDefer, SendNextPresent, ApproveSent, ApproveFailed, CompleteActivity,
           PauseSequenceEnrollment, ResumeSequenceEnrollment, CancelSequenceEnrollment,
           ProcessReply, ProcessBounce, ProcessUnsubscribe, MeetingBooked, Rollback
    <3>2. QED
      BY <2>4, <2>6, <2>7, <3>1, SMTT(60)
  <2>11. \/ UNCHANGED vars \/ Environment
         \/ \E w \in Worker : Begin(w) \/ Finish(w)
    BY <1>1, Zenon DEF Next
  <2>13. QED
    BY <2>8, <2>9, <2>10, <2>11, SMTT(60)
<1>2. TypeInv /\ [Next]_vars => [Shrinks]_vars
  BY <1>1
<1>3. QED
  BY <1>2, TypeInit, TypeStep, PTL DEF Spec, NoDeliveryStartsSuppressed
-----------------------------------------------------------------------------
(***************************************************************************)
(* One handler at a time.  Its copy of the enrollment is then the row, but *)
(* for a next_step_at that falls due meanwhile, so what it writes is what  *)
(* it has decided.                                                         *)
(***************************************************************************)

\* The copy of the handler t says what the row says.
Fresh(t) ==
  LET c == enrollment[t.e] IN
  /\ t.row.status = c.status /\ t.row.status # "none"
  /\ t.row.step = c.step /\ t.row.version = c.version
  /\ (t.row.next = "none") <=> (c.next = "none")
  /\ t.op \in Scheduler => t.s = t.row.step

FreshInv == \A w \in Worker : tx[w] # Idle => Fresh(tx[w])

\* A row that is active is scheduled, or its step was put before an operator.
HasWork(e, row, activities) ==
  row.status = "active" => row.next # "none" \/ activities[e][row.step] # "none"

WorkInv == \A e \in Enrollment : HasWork(e, enrollment[e], activity)

\* An activity is never forgotten.
ActivitiesStay ==
  \A e \in Enrollment, s \in Step : activity[e][s] # "none" => activity'[e][s] # "none"

\* What the commit of a handler leaves in the enrollment it works on.
Leaves(t, row) ==
  /\ row \in EnrollmentRow
  /\ row.status # "none"
  /\ SetEnrollment(t.e, row)
  /\ HasWork(t.e, row, activity')
  /\ row.version = t.row.version \/ row.version = t.row.version + 1
  /\ t.op \notin {"bounce", "unsubscribe", "defer", "activity", "present", "approve_failed"}
       => row.version = t.row.version + 1

\* A handler that sets the status, resumes, or completes the enrollment.
LEMMA StatusRows ==
  ASSUME NEW c \in EnrollmentRow, NEW r \in EnrollmentRow, r.status = c.status,
         r.version = c.version, (r.next = "none") <=> (c.next = "none")
  PROVE  /\ \A status \in {"paused", "suppressed", "canceled"} :
              /\ SetStatus(c, r, status).status = status
              /\ SetStatus(c, r, status).version = r.version + 1
              /\ Written(r.status, status, c.status) = status
         /\ CompleteEnrollment(c, r).status = "completed"
         /\ CompleteEnrollment(c, r).version = r.version + 1
         /\ ResumeEnrollment(c, r).status = "active"
         /\ ResumeEnrollment(c, r).next # "none"
         /\ ResumeEnrollment(c, r).version = r.version + 1
<1>1. \A status : Written(r.status, status, c.status) = status
  BY Zenon DEF Written
<1>2. ASSUME NEW status
      PROVE  /\ SetStatus(c, r, status).status = status
             /\ SetStatus(c, r, status).version = r.version + 1
  BY <1>1, Zenon DEF SetStatus
<1>3. /\ CompleteEnrollment(c, r).status = "completed"
      /\ CompleteEnrollment(c, r).version = r.version + 1
  BY <1>1, Zenon DEF CompleteEnrollment
<1>4. /\ ResumeEnrollment(c, r).status = "active"
      /\ ResumeEnrollment(c, r).next # "none"
      /\ ResumeEnrollment(c, r).version = r.version + 1
  BY <1>1, Zenon DEF ResumeEnrollment
<1>. QED
  BY <1>1, <1>2, <1>3, <1>4, Zenon

\* _advance_enrollment schedules the next step, or ends with the last one.
LEMMA AdvanceRows ==
  ASSUME NEW c \in EnrollmentRow, NEW r \in EnrollmentRow, r.status = c.status, NEW s
  PROVE  /\ \/ AdvanceEnrollment(c, r, s).status = "completed"
            \/ /\ AdvanceEnrollment(c, r, s).next = "later"
               /\ AdvanceEnrollment(c, r, s).status = c.status
         /\ AdvanceEnrollment(c, r, s).version = r.version + 1
<1>1. Written(r.status, "completed", c.status) = "completed"
  BY Zenon DEF Written
<1>. QED
  BY <1>1, Zenon DEF AdvanceEnrollment, CompleteEnrollment

\* Every commit, when the copy is fresh.
LEMMA CommitLeaves ==
  ASSUME TypeInv, WorkInv, NEW w \in Worker, NEW t, t = tx[w], t # Idle, Fresh(t),
         Finish(w), ~Rollback(w), ~SendNextGate(w), ~ApproveSmtp(w)
  PROVE  /\ \E row : Leaves(t, row)
         /\ ActivitiesStay
         /\ Commit(w, t.op)
         /\ UNCHANGED <<todo, delivered>>
<1>. DEFINE c == enrollment[t.e]
<1>t. /\ t.op \in Op /\ t.e \in Enrollment /\ t.row \in EnrollmentRow /\ c \in EnrollmentRow
      /\ activity \in [Enrollment -> [Step -> ActivityStatus]]
      /\ t.op \in Scheduler \cup Approval \cup {"refused", "complete"} => t.s \in Step
  BY Zenon DEF TypeInv, TypeOK, StepTyped, Transaction
<1>f. /\ t.row.status = c.status /\ t.row.step = c.step /\ t.row.version = c.version
      /\ (t.row.next = "none") <=> (c.next = "none")
      /\ t.op \in Scheduler => t.s = t.row.step
      /\ t.row.version \in Nat /\ c.status # "none"
  BY <1>t, Zenon DEF Fresh, EnrollmentRow
<1>h. HasWork(t.e, c, activity)
  BY <1>t, Zenon DEF WorkInv
<1>. HIDE DEF c
<1>s. /\ {"paused", "suppressed", "canceled"} \subseteq EnrollmentStatus
      /\ "completed" # "active"
  BY Zenon DEF EnrollmentStatus, TERMINAL_ENROLLMENT_STATUSES
\* Commits that leave the activities alone.
<1>row. ASSUME NEW row \in EnrollmentRow, SetEnrollment(t.e, row), Commit(w, t.op),
               row.status # "none", row.status # "active" \/ row.next # "none",
               row.version = t.row.version \/ row.version = t.row.version + 1,
               t.op \notin {"bounce", "unsubscribe", "defer", "activity", "present",
                            "approve_failed"} => row.version = t.row.version + 1,
               UNCHANGED <<activity, todo, delivered>>
        PROVE  (\E r : Leaves(t, r)) /\ ActivitiesStay /\ UNCHANGED <<todo, delivered>>
  <2>1. Leaves(t, row)
    BY <1>row, Zenon DEF Leaves, HasWork
  <2>2. ActivitiesStay
    BY <1>row, Zenon DEF ActivitiesStay
  <2>. QED
    BY <1>row, <2>1, <2>2, Zenon
<1>1. CASE SendNextPause(w) \/ SendNextSuppress(w) \/ PauseSequenceEnrollment(w)
           \/ CancelSequenceEnrollment(w)
  <2>1. PICK status \in {"paused", "suppressed", "canceled"} :
               SetEnrollment(t.e, SetStatus(c, t.row, status))
    BY <1>1, Zenon DEF SendNextPause, SendNextSuppress, PauseSequenceEnrollment,
       CancelSequenceEnrollment, PauseForPolicy, SuppressEnrollment, c
  <2>2. Commit(w, t.op) /\ UNCHANGED <<activity, todo, delivered>>
    BY <1>1, Zenon DEF SendNextPause, SendNextSuppress, PauseSequenceEnrollment,
       CancelSequenceEnrollment, Commit
  <2>3. PICK row : row = SetStatus(c, t.row, status)
    BY Zenon
  <2>4. row \in EnrollmentRow
    BY <1>t, <1>s, <2>3, RowTypes, ZenonT(60)
  <2>5. row.status = status /\ row.version = t.row.version + 1 /\ status \notin {"active", "none"}
    BY <1>t, <1>f, <2>3, StatusRows
  <2>. QED
    BY <1>row, <2>1, <2>2, <2>3, <2>4, <2>5, Zenon
<1>2. CASE ResumeSequenceEnrollment(w)
  <2>1. PICK row : row = ResumeEnrollment(c, t.row)
    BY Zenon
  <2>2. /\ row \in EnrollmentRow
    BY <1>t, <2>1, RowTypes, ZenonT(60)
  <2>3. row.next # "none" /\ row.version = t.row.version + 1 /\ row.status = "active"
    BY <1>t, <1>f, <2>1, StatusRows
  <2>4. SetEnrollment(t.e, row) /\ Commit(w, t.op) /\ UNCHANGED <<activity, todo, delivered>>
    BY <1>2, <2>1, Zenon DEF ResumeSequenceEnrollment, Commit, c
  <2>. QED
    BY <1>row, <2>2, <2>3, <2>4, Zenon
<1>3. CASE ProcessReply(w) \/ MeetingBooked(w)
  <2>1. PICK row : row = CompleteEnrollment(c, t.row)
    BY Zenon
  <2>2. row \in EnrollmentRow
    BY <1>t, <2>1, RowTypes, ZenonT(60)
  <2>3. row.status = "completed" /\ row.version = t.row.version + 1
    BY <1>t, <1>f, <2>1, StatusRows
  <2>4. SetEnrollment(t.e, row) /\ Commit(w, t.op) /\ UNCHANGED <<activity, todo, delivered>>
    BY <1>3, <2>1, Zenon DEF ProcessReply, MeetingBooked, Commit, c
  <2>. QED
    BY <1>row, <1>s, <2>2, <2>3, <2>4, Zenon
<1>4. CASE SendNextDefer(w)
  <2>1. PICK row : row = [c EXCEPT !.next = "later"]
    BY Zenon
  <2>2. row \in EnrollmentRow /\ row.next = "later" /\ row.version = c.version
        /\ row.status = c.status
    BY <1>t, <2>1, Zenon DEF EnrollmentRow
  <2>3. SetEnrollment(t.e, row) /\ Commit(w, t.op) /\ UNCHANGED <<activity, todo, delivered>>
        /\ t.op = "defer"
    BY <1>4, <2>1, Zenon DEF SendNextDefer, Commit, c
  <2>. QED
    BY <1>row, <1>f, <2>2, <2>3, Zenon
<1>5. CASE ProcessBounce(w) \/ ProcessUnsubscribe(w)
  <2>1. PICK status \in {"paused", "suppressed"} :
          SetEnrollment(t.e, [c EXCEPT !.status = Written(t.row.status, status, @)])
    BY <1>5, Zenon DEF ProcessBounce, ProcessUnsubscribe, c
  <2>2. Written(t.row.status, status, c.status) = status
    BY <1>f, Zenon DEF Written
  <2>3. PICK row : row = [c EXCEPT !.status = status]
    BY Zenon
  <2>4. row \in EnrollmentRow /\ row.status = status /\ row.version = c.version
    BY <1>t, <1>s, <2>3, Zenon DEF EnrollmentRow
  <2>5. SetEnrollment(t.e, row)
    BY <2>1, <2>2, <2>3, Zenon
  <2>6. Commit(w, t.op) /\ UNCHANGED <<activity, todo, delivered>>
        /\ t.op \in {"bounce", "unsubscribe"}
    BY <1>5, Zenon DEF ProcessBounce, ProcessUnsubscribe, Commit
  <2>. QED
    BY <1>row, <1>f, <2>4, <2>5, <2>6, Zenon
<1>6. CASE SendNextActivity(w) \/ SendNextPresent(w)
  <2>1. PICK status \in {"pending", "pending_approval"} : ActivityForStep(t.e, t.s, status)
    BY <1>6, Zenon DEF SendNextActivity, SendNextPresent
  <2>2. /\ Commit(w, t.op) /\ UNCHANGED <<todo, delivered>>
        /\ t.op \in {"activity", "present"}
        /\ SetEnrollment(t.e, [c EXCEPT !.next = ClearedNext(t.row, @)])
    BY <1>6, Zenon DEF SendNextActivity, SendNextPresent, Commit, c
  <2>3. t.op \in Scheduler
    BY <2>2, Zenon DEF Scheduler
  <2>4. t.s \in Step /\ t.s = c.step
    BY <1>t, <1>f, <2>3, Zenon
  <2>5. PICK v : v = IF activity[t.e][t.s] = "none" THEN status ELSE activity[t.e][t.s]
    BY Zenon
  <2>6. v # "none" /\ activity' = [activity EXCEPT ![t.e][t.s] = v]
    BY <2>1, <2>5, Zenon DEF ActivityForStep, SetActivity
  <2>7. activity'[t.e][t.s] # "none"
    BY <1>t, <2>4, <2>6, Zenon
  <2>8. ActivitiesStay
    BY <1>t, <2>6, Zenon DEF ActivitiesStay
  <2>9. PICK row : row = [c EXCEPT !.next = ClearedNext(t.row, @)]
    BY Zenon
  <2>10. row.step = c.step /\ row.version = c.version /\ row.status = c.status
    BY <1>t, <2>9, Zenon DEF EnrollmentRow
  <2>11. row \in EnrollmentRow
    BY <1>t, <2>9, Zenon DEF EnrollmentRow, ClearedNext
  <2>12. Leaves(t, row)
    BY <1>f, <2>2, <2>4, <2>7, <2>9, <2>10, <2>11, Zenon DEF Leaves, HasWork
  <2>. QED
    BY <2>2, <2>8, <2>12, Zenon
<1>7. CASE ApproveSent(w) \/ CompleteActivity(w)
  <2>1. /\ Commit(w, t.op) /\ UNCHANGED <<todo, delivered>>
        /\ t.op \in {"approve_sent", "complete"}
        /\ SetEnrollment(t.e, AdvanceEnrollment(c, t.row, t.s))
        /\ activity' = [activity EXCEPT ![t.e][t.s] = "completed"]
    BY <1>7, Zenon DEF ApproveSent, CompleteActivity, Commit, c, SetActivity
  <2>2. t.s \in Step
    BY <1>t, <2>1, Zenon DEF Approval
  <2>3. PICK row : row = AdvanceEnrollment(c, t.row, t.s)
    BY Zenon
  <2>4. row \in EnrollmentRow
    BY <1>t, <2>2, <2>3, RowTypes, ZenonT(60)
  <2>5. /\ row.status = "completed" \/ (row.next = "later" /\ row.status = c.status)
        /\ row.version = t.row.version + 1
    BY <1>t, <1>f, <2>3, AdvanceRows
  <2>6. Leaves(t, row)
    BY <1>f, <1>s, <2>1, <2>3, <2>4, <2>5, Zenon DEF Leaves, HasWork
  <2>7. ActivitiesStay
    BY <1>t, <2>1, Zenon DEF ActivitiesStay
  <2>. QED
    BY <2>1, <2>6, <2>7, Zenon
<1>8. CASE ApproveFailed(w)
  <2>1. /\ Commit(w, t.op) /\ UNCHANGED <<todo, delivered>>
        /\ t.op = "approve_failed"
        /\ SetEnrollment(t.e, [c EXCEPT !.next = "later"])
        /\ activity' = [activity EXCEPT ![t.e][t.s] = "failed"]
    BY <1>8, Zenon DEF ApproveFailed, Commit, c, SetActivity
  <2>2. PICK row : row = [c EXCEPT !.next = "later"]
    BY Zenon
  <2>3. row \in EnrollmentRow /\ row.next = "later" /\ row.version = c.version
        /\ row.status = c.status
    BY <1>t, <2>2, Zenon DEF EnrollmentRow
  <2>4. Leaves(t, row)
    BY <1>f, <2>1, <2>2, <2>3, Zenon DEF Leaves, HasWork
  <2>5. ActivitiesStay
    BY <1>t, <2>1, Zenon DEF ActivitiesStay
  <2>. QED
    BY <2>1, <2>4, <2>5, Zenon
<1>. QED
  BY <1>1, <1>2, <1>3, <1>4, <1>5, <1>6, <1>7, <1>8, Zenon DEF Finish

\* A handler's transaction becomes t, which knows the rows as they are.
LEMMA FreshReads ==
  ASSUME TypeInv, FreshInv, NEW w \in Worker, NEW t, tx' = [tx EXCEPT ![w] = t],
         UNCHANGED enrollment, Fresh(t)
  PROVE  FreshInv'
<1>1. \A v \in Worker : tx'[v] = IF v = w THEN t ELSE tx[v]
  BY Zenon DEF TypeInv, TypeOK
<1>2. ASSUME NEW v \in Worker, NEW x, x = tx'[v], x # Idle
      PROVE  Fresh(x)'
  <2>1. Fresh(x)
    BY <1>1, <1>2, Zenon DEF FreshInv
  <2>. QED
    BY <2>1, Zenon DEF Fresh
<1>. QED
  BY <1>2, Zenon DEF FreshInv

\* Worker w opens a transaction: an approval that goes on has passed the policy gate.
Opens(w) ==
  \E t : /\ Fresh(t)
         /\ tx' = [tx EXCEPT ![w] = t]
         /\ t.op \notin {"approve_sent", "approve_failed"}
         /\ t.op = "approve" => /\ t.e \in Enrollment /\ t.s \in Step /\ t.msgs = {}
                                /\ activity[t.e][t.s] = "pending_approval"
                                /\ Gate(t.e, t.s) = "present"

\* The first read of a handler.
LEMMA ReadOpens ==
  ASSUME NEW w, NEW op, NEW e, NEW s, NEW msgs, Read(w, op, e, s, msgs),
         op \notin {"approve_sent", "approve_failed"},
         op \in Scheduler => s = enrollment[e].step,
         op = "approve" => /\ e \in Enrollment /\ s \in Step /\ msgs = {}
                           /\ activity[e][s] = "pending_approval"
                           /\ Gate(e, s) = "present"
  PROVE  Opens(w)
<1>1. PICK t : t = [op |-> op, e |-> e, s |-> s, row |-> enrollment[e], out |-> NoOutbound,
                    msgs |-> msgs]
  BY Zenon
<1>2. t.op = op /\ t.e = e /\ t.s = s /\ t.row = enrollment[e] /\ t.msgs = msgs
  BY <1>1, Zenon
<1>3. tx' = [tx EXCEPT ![w] = t] /\ enrollment[e].status # "none"
  BY <1>1, Zenon DEF Read
<1>4. Fresh(t)
  BY <1>2, <1>3, Zenon DEF Fresh
<1>. QED
  BY <1>2, <1>3, <1>4, Zenon DEF Opens

\* A handler that starts lists what is due, or reads its rows.
LEMMA BeginOpens ==
  ASSUME NEW w \in Worker, Begin(w)
  PROVE  /\ UNCHANGED <<database, policy, delivered>>
         /\ tx[w] = Idle
         /\ UNCHANGED tx \/ Opens(w)
<1>1. CASE ProcessDueSequenceSteps(w)
  BY <1>1, Zenon DEF ProcessDueSequenceSteps, Free
<1>2. CASE \E e \in Enrollment : SendNextRead(w, e)
  <2>1. PICK e \in Enrollment : SendNextRead(w, e)
    BY <1>2, Zenon
  <2>2. ASSUME Read(w, "send_next", e, enrollment[e].step, {}) PROVE Opens(w)
    <3>1. PICK s : s = enrollment[e].step
      BY Zenon
    <3>2. Read(w, "send_next", e, s, {})
      BY <2>2, <3>1, Zenon
    <3>. QED
      BY <3>1, <3>2, ReadOpens
  <2>. QED
    BY <2>1, <2>2, Zenon DEF SendNextRead
<1>3. CASE \E e \in Enrollment :
             PauseRead(w, e) \/ ResumeRead(w, e) \/ CancelRead(w, e) \/ MeetingRead(w, e)
  <2>1. PICK e \in Enrollment :
          PauseRead(w, e) \/ ResumeRead(w, e) \/ CancelRead(w, e) \/ MeetingRead(w, e)
    BY <1>3, Zenon
  <2>2. PICK op \in {"pause", "resume", "cancel", "meeting"} : Read(w, op, e, 0, {})
    BY <2>1, Zenon DEF PauseRead, ResumeRead, CancelRead, MeetingRead
  <2>3. op \notin Scheduler \cup {"approve", "approve_sent", "approve_failed"}
    BY Zenon DEF Scheduler
  <2>4. Opens(w)
    BY <2>2, <2>3, ReadOpens, Zenon
  <2>. QED
    BY <2>1, <2>4, Zenon DEF PauseRead, ResumeRead, CancelRead, MeetingRead, Free
<1>4. CASE \E e \in Enrollment, s \in Step : ApproveRead(w, e, s)
  <2>1. PICK e \in Enrollment, s \in Step : ApproveRead(w, e, s)
    BY <1>4, Zenon
  <2>2. PICK op \in {"approve", "refused"} :
          Read(w, op, e, s, {}) /\ (op = "approve" => Gate(e, s) = "present")
    BY <2>1, Zenon DEF ApproveRead
  <2>3. op \notin Scheduler \cup {"approve_sent", "approve_failed"}
    BY Zenon DEF Scheduler
  <2>4. activity[e][s] = "pending_approval"
    BY <2>1, Zenon DEF ApproveRead
  <2>5. Opens(w)
    BY <2>2, <2>3, <2>4, ReadOpens, Zenon
  <2>. QED
    BY <2>1, <2>5, Zenon DEF ApproveRead, Free
<1>5. CASE \E e \in Enrollment, s \in Step : CompleteActivityRead(w, e, s)
  <2>1. PICK e \in Enrollment, s \in Step : CompleteActivityRead(w, e, s)
    BY <1>5, Zenon
  <2>2. Read(w, "complete", e, s, {})
    BY <2>1, Zenon DEF CompleteActivityRead
  <2>3. "complete" \notin Scheduler \cup {"approve", "approve_sent", "approve_failed"}
    BY Zenon DEF Scheduler
  <2>4. Opens(w)
    BY <2>2, <2>3, ReadOpens, Zenon
  <2>. QED
    BY <2>1, <2>4, Zenon DEF CompleteActivityRead, Free
<1>6. CASE \E e \in Enrollment, s \in 0..NSteps, m \in Message, kind \in InboundEmailEventType :
             InboundRead(w, e, s, m, kind)
  <2>1. PICK e \in Enrollment, s \in 0..NSteps, m \in Message, kind \in InboundEmailEventType :
          InboundRead(w, e, s, m, kind)
    BY <1>6, Zenon
  <2>2. Read(w, kind, e, s, {m})
    BY <2>1, Zenon DEF InboundRead
  <2>3. kind \notin Scheduler \cup {"approve", "approve_sent", "approve_failed"}
    BY Zenon DEF Scheduler, InboundEmailEventType
  <2>4. Opens(w)
    BY <2>2, <2>3, ReadOpens, Zenon
  <2>. QED
    BY <2>1, <2>4, Zenon DEF InboundRead, Free
<1>. QED
  BY <1>1, <1>2, <1>3, <1>4, <1>5, <1>6, Zenon DEF Begin

\* Looking at the policy or calling SMTP keeps the copy.
LEMMA LooksAgain ==
  ASSUME NEW t, NEW op, NEW x, x = ReadOutbound(t, op), Fresh(t),
         op \in Scheduler => t.op \in Scheduler
  PROVE  Fresh(x)
<1>1. x.op = op /\ x.e = t.e /\ x.s = t.s /\ x.row = t.row
  BY Zenon DEF ReadOutbound
<1>. QED
  BY <1>1, Zenon DEF Fresh

\* Other components and the clock: a copy stays fresh, and nobody loses their work.
LEMMA OutsideKeepsWork ==
  ASSUME TypeInv, FreshInv, WorkInv, Environment
  PROVE  FreshInv' /\ WorkInv'
<1>1. ASSUME UNCHANGED <<enrollment, activity, tx>> PROVE FreshInv' /\ WorkInv'
  <2>1. \A t : Fresh(t) => Fresh(t)'
    BY <1>1, Zenon DEF Fresh
  <2>. QED
    BY <1>1, <2>1, Zenon DEF FreshInv, WorkInv, HasWork
<1>2. ASSUME NEW e \in Enrollment, NEW row, SetEnrollment(e, row), UNCHANGED <<activity, tx>>,
             row.next # "none",
             \/ enrollment[e].status = "none"
             \/ /\ row.status = enrollment[e].status /\ row.step = enrollment[e].step
                /\ row.version = enrollment[e].version /\ enrollment[e].next # "none"
      PROVE  FreshInv' /\ WorkInv'
  <2>1. \A d \in Enrollment : enrollment'[d] = IF d = e THEN row ELSE enrollment[d]
    BY <1>2, Zenon DEF SetEnrollment, TypeInv, TypeOK
  <2>2. WorkInv'
    BY <1>2, <2>1, Zenon DEF WorkInv, HasWork
  <2>3. ASSUME NEW w \in Worker, NEW t, t = tx[w], t # Idle PROVE Fresh(t)'
    <3>1. Fresh(t) /\ t.e \in Enrollment
      BY <2>3, Zenon DEF FreshInv, TypeInv, TypeOK, Transaction
    <3>2. CASE t.e = e
      BY <1>2, <2>1, <3>1, <3>2, Zenon DEF Fresh
    <3>3. CASE t.e # e
      BY <2>1, <3>1, <3>3, Zenon DEF Fresh
    <3>. QED
      BY <3>2, <3>3, Zenon
  <2>. QED
    BY <1>2, <2>2, <2>3, Zenon DEF FreshInv
<1>3. ASSUME NEW e \in Enrollment, CreateSequenceEnrollment(e) PROVE FreshInv' /\ WorkInv'
  <2>1. PICK start \in {"due", "later"} :
          SetEnrollment(e, [status |-> "active", step |-> 1, next |-> start, version |-> 1])
    BY <1>3, Zenon DEF CreateSequenceEnrollment
  <2>2. PICK row : row = [status |-> "active", step |-> 1, next |-> start, version |-> 1]
    BY Zenon
  <2>3. SetEnrollment(e, row) /\ row.next # "none"
    BY <2>1, <2>2, Zenon
  <2>4. enrollment[e].status = "none" /\ UNCHANGED <<activity, tx>>
    BY <1>3, Zenon DEF CreateSequenceEnrollment
  <2>. QED
    BY <1>2, <2>3, <2>4, Zenon
<1>4. ASSUME NEW e \in Enrollment, StepFallsDue(e) PROVE FreshInv' /\ WorkInv'
  <2>1. PICK row : row = [enrollment[e] EXCEPT !.next = "due"]
    BY Zenon
  <2>2. enrollment[e] \in EnrollmentRow
    BY Zenon DEF TypeInv, TypeOK
  <2>3. /\ row.status = enrollment[e].status /\ row.step = enrollment[e].step
        /\ row.version = enrollment[e].version /\ row.next = "due"
    BY <2>1, <2>2, Zenon DEF EnrollmentRow
  <2>4. SetEnrollment(e, row) /\ UNCHANGED <<activity, tx>> /\ enrollment[e].next = "later"
    BY <1>4, <2>1, Zenon DEF StepFallsDue
  <2>5. row.next # "none" /\ enrollment[e].next # "none"
    BY <2>3, <2>4, Zenon
  <2>. QED
    BY <1>2, <2>3, <2>4, <2>5, Zenon
<1>. QED
  BY <1>1, <1>3, <1>4, Zenon DEF Environment, SetSequenceStatus, TargetExported, ContactChanges,
     CreateSuppression, SentLeavesWindow, InboundUnmatched, database

\* What is finished was begun.
LEMMA FinishBusy ==
  ASSUME NEW w \in Worker, Finish(w)
  PROVE  tx[w] # Idle
<1>1. CASE \E op \in Op : tx[w].op = op
  BY <1>1 DEF Idle, Op
<1>2. CASE SendNextGate(w) \/ SendNextPause(w) \/ SendNextSuppress(w) \/ SendNextActivity(w)
           \/ SendNextDefer(w) \/ SendNextPresent(w)
  BY <1>1, <1>2, Zenon DEF SendNextGate, SendNextPause, SendNextSuppress, SendNextActivity,
     SendNextDefer, SendNextPresent, Commit, Op
<1>3. CASE ApproveSmtp(w) \/ ApproveSent(w) \/ ApproveFailed(w) \/ CompleteActivity(w)
           \/ PauseSequenceEnrollment(w) \/ ResumeSequenceEnrollment(w)
  BY <1>1, <1>3, Zenon DEF ApproveSmtp, ApproveSent, ApproveFailed, CompleteActivity,
     PauseSequenceEnrollment, ResumeSequenceEnrollment, Commit, Op
<1>4. CASE CancelSequenceEnrollment(w) \/ ProcessReply(w) \/ ProcessBounce(w)
           \/ ProcessUnsubscribe(w) \/ MeetingBooked(w)
  BY <1>1, <1>4, Zenon DEF CancelSequenceEnrollment, ProcessReply, ProcessBounce,
     ProcessUnsubscribe, MeetingBooked, Commit, Op
<1>5. CASE Rollback(w)
  BY <1>5, Zenon DEF Rollback
<1>. QED
  BY <1>2, <1>3, <1>4, <1>5, Zenon DEF Finish

\* Any step, when there is one handler at a time.
LEMMA WorkStep ==
  ASSUME \A v, w \in Worker : v = w, TypeInv, FreshInv, WorkInv, [Next]_vars
  PROVE  FreshInv' /\ WorkInv'
<1>1. CASE UNCHANGED vars
  <2>1. UNCHANGED <<enrollment, activity, tx>>
    BY <1>1, Zenon DEF vars, database
  <2>. QED
    BY <2>1, Zenon DEF FreshInv, Fresh, WorkInv, HasWork
<1>2. CASE Environment
  BY <1>2, OutsideKeepsWork, Zenon
<1>3. ASSUME UNCHANGED <<enrollment, activity>> PROVE WorkInv'
  BY <1>3, Zenon DEF WorkInv, HasWork
<1>4. ASSUME NEW w \in Worker, Begin(w) PROVE FreshInv' /\ WorkInv'
  <2>1. UNCHANGED <<enrollment, activity>> /\ (UNCHANGED tx \/ Opens(w))
    BY <1>4, BeginOpens, Zenon DEF database
  <2>2. CASE UNCHANGED tx
    BY <1>3, <2>1, <2>2, Zenon DEF FreshInv, Fresh
  <2>3. CASE Opens(w)
    BY <1>3, <2>1, <2>3, FreshReads, Zenon DEF Opens
  <2>. QED
    BY <2>1, <2>2, <2>3, Zenon
<1>5. ASSUME NEW w \in Worker, Finish(w) PROVE FreshInv' /\ WorkInv'
  <2>1. PICK t : t = tx[w]
    BY Zenon
  <2>2. t # Idle
    BY <1>5, <2>1, FinishBusy, Zenon
  <2>3. Fresh(t) /\ t.e \in Enrollment
    BY <2>1, <2>2, Zenon DEF FreshInv, TypeInv, TypeOK, Transaction
  <2>4. ASSUME tx' = [tx EXCEPT ![w] = Idle] PROVE FreshInv'
    BY <2>4, Zenon DEF FreshInv, TypeInv, TypeOK
  <2>5. CASE Rollback(w)
    BY <1>3, <2>4, <2>5, Zenon DEF Rollback, database
  <2>6. CASE SendNextGate(w)
    <3>1. PICK x : x = ReadOutbound(t, Gate(t.e, t.s))
      BY Zenon
    <3>2. t.op \in Scheduler
      BY <2>1, <2>6, Zenon DEF SendNextGate, Scheduler
    <3>3. Fresh(x)
      BY <2>3, <3>1, <3>2, LooksAgain
    <3>4. tx' = [tx EXCEPT ![w] = x] /\ UNCHANGED <<enrollment, activity>>
      BY <2>1, <2>6, <3>1, Zenon DEF SendNextGate, database
    <3>. QED
      BY <1>3, <3>3, <3>4, FreshReads, Zenon
  <2>7. CASE ApproveSmtp(w)
    <3>1. PICK op \in {"approve_sent", "approve_failed"} : tx' = [tx EXCEPT ![w] = ReadOutbound(t, op)]
      BY <2>1, <2>7, Zenon DEF ApproveSmtp
    <3>2. PICK x : x = ReadOutbound(t, op)
      BY Zenon
    <3>3. op \notin Scheduler
      BY Zenon DEF Scheduler
    <3>4. Fresh(x)
      BY <2>3, <3>2, <3>3, LooksAgain, Zenon
    <3>5. UNCHANGED <<enrollment, activity>>
      BY <2>7, Zenon DEF ApproveSmtp, database
    <3>. QED
      BY <1>3, <3>1, <3>2, <3>4, <3>5, FreshReads, Zenon
  <2>8. CASE ~Rollback(w) /\ ~SendNextGate(w) /\ ~ApproveSmtp(w)
    <3>1. PICK row : Leaves(t, row)
      BY <1>5, <2>1, <2>2, <2>3, <2>8, CommitLeaves, Zenon
    <3>2. ActivitiesStay /\ Commit(w, t.op)
      BY <1>5, <2>1, <2>2, <2>3, <2>8, CommitLeaves, Zenon
    <3>3. \A d \in Enrollment : enrollment'[d] = IF d = t.e THEN row ELSE enrollment[d]
      BY <3>1, Zenon DEF Leaves, SetEnrollment, TypeInv, TypeOK
    <3>4. ASSUME NEW d \in Enrollment PROVE HasWork(d, enrollment'[d], activity')
      <4>1. CASE d = t.e
        BY <3>1, <3>3, <4>1, Zenon DEF Leaves
      <4>2. CASE d # t.e
        <5>1. enrollment'[d] = enrollment[d] /\ HasWork(d, enrollment[d], activity)
              /\ enrollment[d].step \in Step
          BY <3>3, <4>2, Zenon DEF WorkInv, TypeInv, TypeOK, EnrollmentRow
        <5>. QED
          BY <3>2, <5>1, Zenon DEF HasWork, ActivitiesStay
      <4>. QED
        BY <4>1, <4>2, Zenon
    <3>5. WorkInv'
      BY <3>4, Zenon DEF WorkInv, HasWork
    <3>6. FreshInv'
      <4>1. \A v \in Worker : tx'[v] = Idle
        BY <3>2, Zenon DEF Commit, TypeInv, TypeOK
      <4>. QED
        BY <4>1, Zenon DEF FreshInv
    <3>. QED
      BY <3>5, <3>6, Zenon
  <2>. QED
    BY <2>5, <2>6, <2>7, <2>8, Zenon
<1>. QED
  BY <1>1, <1>2, <1>4, <1>5, Zenon DEF Next

\* With one handler at a time an active enrollment is scheduled, or its current step was
\* put before an operator before next_step_at was cleared (scheduler.py:109, :152), whatever
\* pauses, resumes, bounces, late replies and deaths there are.
THEOREM ActiveWorks ==
  ASSUME \A v, w \in Worker : v = w
  PROVE  Spec => []ActiveHasWork
<1>1. Init => FreshInv /\ WorkInv
  BY DEF Init, FreshInv, WorkInv, HasWork, NoEnrollment
<1>2. TypeInv /\ FreshInv /\ WorkInv /\ [Next]_vars => FreshInv' /\ WorkInv'
  BY WorkStep, Zenon
<1>3. WorkInv => ActiveHasWork
  BY Zenon DEF WorkInv, HasWork, ActiveHasWork
<1>. QED
  BY <1>1, <1>2, <1>3, TypeInit, TypeStep, PTL DEF Spec

(***************************************************************************)
(* One handler at a time, and none dies.  An e-mail that was accepted is   *)
(* recorded, or its handler is about to record it and cannot fail to: the  *)
(* outbox keys it inserts are new, because the keys that exist carry       *)
(* versions and attempt counts of the past.                                *)
(***************************************************************************)

\* An approval after its SMTP call, and the activities it leaves.
Recording == {"approve_sent", "approve_failed"}
Closed == {"completed", "failed"}

\* A key that exists was written with an attempt or a version that is past.
KeysPast ==
  \A k \in outbox :
    IF k[1] = "email.sent" THEN k[3] \in Step => k[4] <= outbound[k[2]][k[3]].attempts
                           ELSE k[4] <= enrollment[k[2]].version

\* What an approval that goes on has read still holds.
OnceFacts(t) ==
  /\ t.op \in Approval => t.msgs = {}
  /\ t.op = "approve" => activity[t.e][t.s] = "pending_approval"
  /\ t.op \in Recording => t.out.attempts = outbound[t.e][t.s].attempts

\* An e-mail that was accepted is recorded, or about to be.
Recorded(e, s) ==
  \/ activity[e][s] \in Closed
  \/ \E w \in Worker : tx[w].op \in Recording /\ tx[w].e = e /\ tx[w].s = s

OnceInv ==
  /\ \A e \in Enrollment : enrollment[e].status = "none" => enrollment[e].version = 0
  /\ KeysPast
  /\ \A w \in Worker : tx[w] # Idle => OnceFacts(tx[w])
  /\ \A e \in Enrollment, s \in Step :
       delivered[e][s] = 0 \/ (delivered[e][s] = 1 /\ Recorded(e, s))

\* The keys of a handler carry the version and the attempt it is about to write.
LEMMA KeysOfTx ==
  ASSUME NEW t, NEW k \in TxKeys(t)
  PROVE  \/ /\ k = <<"email.sent", t.e, t.s, t.out.attempts + 1>>
            /\ t.op = "approve_sent"
         \/ /\ k[1] # "email.sent" /\ k[2] = t.e /\ k[4] = t.row.version + 1
            /\ t.op \notin {"bounce", "unsubscribe", "defer", "activity", "present",
                            "approve_failed"}
<1>1. ASSUME NEW name \in {"sequence.completed", "sequence.paused"},
             k = EnrollmentKey(name, t.e, t.row.version + 1)
      PROVE  k[1] # "email.sent" /\ k[2] = t.e /\ k[4] = t.row.version + 1
  <2>1. k = <<name, t.e, 0, t.row.version + 1>>
    BY <1>1, Zenon DEF EnrollmentKey
  <2>. QED
    BY <2>1
<1>2. ASSUME k \in AdvanceKeys(t.e, t.row, t.s)
      PROVE  k = EnrollmentKey("sequence.completed", t.e, t.row.version + 1)
  BY <1>2, Zenon DEF AdvanceKeys
<1>3. CASE t.op \in {"policy_pause", "policy_suppress", "pause"}
  <2>1. k = EnrollmentKey("sequence.paused", t.e, t.row.version + 1)
    BY <1>3 DEF TxKeys
  <2>. QED
    BY <1>1, <1>3, <2>1
<1>4. CASE t.op \in {"reply", "meeting"}
  <2>1. k = EnrollmentKey("sequence.completed", t.e, t.row.version + 1)
    BY <1>4 DEF TxKeys
  <2>. QED
    BY <1>1, <1>4, <2>1
<1>5. CASE t.op = "complete"
  <2>1. k \in AdvanceKeys(t.e, t.row, t.s)
    BY <1>5 DEF TxKeys
  <2>. QED
    BY <1>1, <1>2, <1>5, <2>1
<1>6. CASE t.op = "approve_sent"
  <2>1. \/ k = <<"email.sent", t.e, t.s, t.out.attempts + 1>>
        \/ k \in AdvanceKeys(t.e, t.row, t.s)
    BY <1>6 DEF TxKeys
  <2>. QED
    BY <1>1, <1>2, <1>6, <2>1
<1>7. CASE t.op \notin {"policy_pause", "policy_suppress", "pause", "reply", "meeting",
                        "complete", "approve_sent"}
  <2>1. TxKeys(t) = {}
    BY <1>7 DEF TxKeys
  <2>. QED
    BY <2>1, Zenon
<1>. QED
  BY <1>3, <1>4, <1>5, <1>6, <1>7, Zenon

\* A handler about to record an e-mail is not refused for a key.
LEMMA RecordingIsNew ==
  ASSUME TypeInv, KeysPast, NEW w \in Worker, NEW t, t = tx[w], t # Idle, Fresh(t), OnceFacts(t),
         t.op \in Recording
  PROVE  ~DuplicateKey(t)
<1>1. /\ t.e \in Enrollment /\ t.s \in Step /\ t.row.version \in Nat /\ t.out.attempts \in Nat
      /\ t.msgs = {}
  <2>1. t \in Transaction
    BY Zenon DEF TypeInv, TypeOK
  <2>2. t.op \in Approval
    BY Zenon DEF Recording, Approval
  <2>3. t.s \in Step
    BY <2>2, Zenon DEF TypeInv, StepTyped
  <2>4. t.row.version \in Nat /\ t.out.attempts \in Nat /\ t.e \in Enrollment
    BY <2>1, Zenon DEF Transaction, EnrollmentRow, OutboundRow
  <2>. QED
    BY <2>2, <2>3, <2>4, Zenon DEF OnceFacts
<1>2. /\ t.row.version = enrollment[t.e].version
      /\ t.out.attempts = outbound[t.e][t.s].attempts
  BY Zenon DEF Fresh, OnceFacts
<1>3. ASSUME NEW k \in TxKeys(t), k \in outbox PROVE FALSE
  <2>1. CASE k = <<"email.sent", t.e, t.s, t.out.attempts + 1>>
    <3>1. k[1] = "email.sent" /\ k[2] = t.e /\ k[3] = t.s /\ k[4] = t.out.attempts + 1
      BY <2>1
    <3>2. t.out.attempts + 1 <= t.out.attempts
      BY <1>1, <1>2, <1>3, <3>1, Zenon DEF KeysPast
    <3>. QED
      BY <1>1, <3>2
  <2>2. CASE k[1] # "email.sent" /\ k[2] = t.e /\ k[4] = t.row.version + 1
    <3>1. t.row.version + 1 <= t.row.version
      BY <1>1, <1>2, <1>3, <2>2, Zenon DEF KeysPast
    <3>. QED
      BY <1>1, <3>1
  <2>. QED
    BY <1>3, <2>1, <2>2, KeysOfTx, Zenon
<1>. QED
  BY <1>1, <1>3, Zenon DEF DuplicateKey

\* What a commit does to activities and outbound rows: what is closed stays closed, and an
\* approval closes its activity and counts its attempt.
LEMMA CommitRecords ==
  ASSUME TypeInv, NEW w \in Worker, NEW t, t = tx[w], t # Idle, OnceFacts(t),
         Finish(w), ~Rollback(w), ~SendNextGate(w), ~ApproveSmtp(w)
  PROVE  /\ \A e \in Enrollment, s \in Step : activity[e][s] \in Closed => activity'[e][s] \in Closed
         /\ t.op \in Recording => activity'[t.e][t.s] \in Closed
         /\ \A e \in Enrollment, s \in Step : outbound[e][s].attempts <= outbound'[e][s].attempts
         /\ t.op = "approve_sent" => outbound'[t.e][t.s].attempts = t.out.attempts + 1
<1>t. /\ t.op \in Op /\ t.e \in Enrollment
      /\ activity \in [Enrollment -> [Step -> ActivityStatus]]
      /\ outbound \in [Enrollment -> [Step -> OutboundRow]]
      /\ t.op \in Scheduler \cup Approval \cup {"refused", "complete"} => t.s \in Step
  BY Zenon DEF TypeInv, TypeOK, StepTyped, Transaction
<1>n. \A e \in Enrollment, s \in Step : outbound[e][s].attempts \in Nat
  BY <1>t, Zenon DEF OutboundRow
<1>c. \A n \in Nat : n <= n
  OBVIOUS
<1>same. ASSUME UNCHANGED outbound
         PROVE  \A e \in Enrollment, s \in Step : outbound[e][s].attempts <= outbound'[e][s].attempts
  BY <1>n, <1>c, <1>same, Zenon
<1>status. ASSUME NEW e \in Enrollment, NEW s \in Step, NEW status,
                  outbound' = [outbound EXCEPT ![e][s].status = status]
           PROVE  \A d \in Enrollment, j \in Step : outbound[d][j].attempts <= outbound'[d][j].attempts
  <2>1. \A d \in Enrollment, j \in Step : outbound'[d][j].attempts = outbound[d][j].attempts
    BY <1>t, <1>status DEF OutboundRow
  <2>. QED
    BY <1>n, <1>c, <2>1, Zenon
<1>act. ASSUME NEW e \in Enrollment, NEW s \in Step, NEW v,
               activity' = [activity EXCEPT ![e][s] = v],
               activity[e][s] \in Closed => v \in Closed
        PROVE  /\ \A d \in Enrollment, j \in Step :
                    activity[d][j] \in Closed => activity'[d][j] \in Closed
               /\ v \in Closed => activity'[e][s] \in Closed
  BY <1>t, <1>act, Zenon
<1>1. CASE t.op \notin Recording /\ UNCHANGED <<activity, outbound>>
  BY <1>1, <1>same, Zenon DEF Recording
<1>2. CASE SendNextPause(w) \/ SendNextSuppress(w) \/ PauseSequenceEnrollment(w)
           \/ CancelSequenceEnrollment(w) \/ ResumeSequenceEnrollment(w) \/ SendNextDefer(w)
  BY <1>1, <1>2, Zenon DEF SendNextPause, SendNextSuppress, PauseSequenceEnrollment,
     CancelSequenceEnrollment, ResumeSequenceEnrollment, SendNextDefer, Commit, Recording
<1>3. CASE ProcessReply(w) \/ MeetingBooked(w) \/ ProcessUnsubscribe(w)
  BY <1>1, <1>3, Zenon DEF ProcessReply, MeetingBooked, ProcessUnsubscribe, Commit, Recording
<1>4. CASE ProcessBounce(w)
  <2>1. t.op = "bounce" /\ UNCHANGED activity
        /\ (t.s = 0 => UNCHANGED outbound)
        /\ (t.s # 0 => outbound' = [outbound EXCEPT ![t.e][t.s].status = "failed_terminal"])
    BY <1>4, Zenon DEF ProcessBounce, Commit
  <2>2. t.s = 0 \/ t.s \in Step
    <3>1. t.s \in 0..NSteps
      BY Zenon DEF TypeInv, TypeOK, Transaction
    <3>. QED
      BY <3>1, StepAssumption DEF Step
  <2>. QED
    <3>1. \A e \in Enrollment, s \in Step : outbound[e][s].attempts <= outbound'[e][s].attempts
      <4>1. CASE UNCHANGED outbound
        BY <1>same, <4>1, Zenon
      <4>2. CASE t.s \in Step /\ outbound' = [outbound EXCEPT ![t.e][t.s].status = "failed_terminal"]
        BY <1>t, <1>status, <4>2, Zenon
      <4>. QED
        BY <2>1, <2>2, <4>1, <4>2, Zenon
    <3>2. t.op \notin Recording /\ t.op # "approve_sent"
      BY <2>1, Zenon DEF Recording
    <3>. QED
      BY <2>1, <3>1, <3>2, Zenon
<1>5. CASE SendNextActivity(w) \/ SendNextPresent(w)
  <2>1. t.op \in {"activity", "present"}
    BY <1>5, Zenon DEF SendNextActivity, SendNextPresent, Commit
  <2>2. t.s \in Step
    BY <1>t, <2>1, Zenon DEF Scheduler
  <2>3. PICK status \in {"pending", "pending_approval"} : ActivityForStep(t.e, t.s, status)
    BY <1>5, Zenon DEF SendNextActivity, SendNextPresent
  <2>4. PICK v : v = IF activity[t.e][t.s] = "none" THEN status ELSE activity[t.e][t.s]
    BY Zenon
  <2>5. activity[t.e][t.s] \in Closed => v \in Closed
    BY <2>4, Zenon DEF Closed
  <2>6. activity' = [activity EXCEPT ![t.e][t.s] = v]
    BY <2>3, <2>4, Zenon DEF ActivityForStep, SetActivity
  <2>7. UNCHANGED outbound \/ \E st : outbound' = [outbound EXCEPT ![t.e][t.s].status = st]
    BY <1>5, Zenon DEF SendNextActivity, SendNextPresent
  <2>. QED
    <3>1. \A e \in Enrollment, s \in Step : outbound[e][s].attempts <= outbound'[e][s].attempts
      <4>1. CASE UNCHANGED outbound
        BY <1>same, <4>1, Zenon
      <4>2. ASSUME NEW st, outbound' = [outbound EXCEPT ![t.e][t.s].status = st]
            PROVE  \A e \in Enrollment, s \in Step :
                     outbound[e][s].attempts <= outbound'[e][s].attempts
        BY <1>t, <1>status, <2>2, <4>2, Zenon
      <4>. QED
        BY <2>7, <4>1, <4>2, Zenon
    <3>2. t.op \notin Recording /\ t.op # "approve_sent"
      BY <2>1, Zenon DEF Recording
    <3>3. \A e \in Enrollment, s \in Step : activity[e][s] \in Closed => activity'[e][s] \in Closed
      BY <1>t, <1>act, <2>2, <2>5, <2>6, Zenon
    <3>. QED
      BY <3>1, <3>2, <3>3, Zenon
<1>6. CASE CompleteActivity(w)
  <2>1. t.op = "complete" /\ UNCHANGED outbound
        /\ activity' = [activity EXCEPT ![t.e][t.s] = "completed"]
    BY <1>6, Zenon DEF CompleteActivity, Commit, SetActivity
  <2>2. t.s \in Step
    BY <1>t, <2>1, Zenon
  <2>3. "completed" \in Closed
    BY Zenon DEF Closed
  <2>. QED
    BY <1>t, <1>same, <1>act, <2>1, <2>2, <2>3, Zenon DEF Recording
<1>7. CASE ApproveSent(w) \/ ApproveFailed(w)
  <2>1. t.op \in Recording
    BY <1>7, Zenon DEF ApproveSent, ApproveFailed, Commit, Recording
  <2>2. t.s \in Step
    BY <1>t, <2>1, Zenon DEF Recording, Approval
  <2>3. PICK v \in Closed : activity' = [activity EXCEPT ![t.e][t.s] = v]
    BY <1>7, Zenon DEF ApproveSent, ApproveFailed, SetActivity, Closed
  <2>4. PICK x, y : outbound' = [outbound EXCEPT ![t.e][t.s] =
                      [status |-> x, attempts |-> t.out.attempts + 1, sentAt |-> y]]
    BY <1>7, Zenon DEF ApproveSent, ApproveFailed
  <2>5. PICK o : o = [status |-> x, attempts |-> t.out.attempts + 1, sentAt |-> y]
    BY Zenon
  <2>6. o.attempts = t.out.attempts + 1 /\ outbound' = [outbound EXCEPT ![t.e][t.s] = o]
    BY <2>4, <2>5, Zenon
  <2>7. \A d \in Enrollment, j \in Step :
          outbound'[d][j] = IF d = t.e /\ j = t.s THEN o ELSE outbound[d][j]
    BY <1>t, <2>6, ZenonT(60)
  <2>8. outbound[t.e][t.s].attempts <= t.out.attempts + 1
    <3>1. t.out.attempts = outbound[t.e][t.s].attempts
      BY <2>1, Zenon DEF OnceFacts
    <3>. QED
      BY <1>t, <1>n, <2>2, <3>1
  <2>9. \A d \in Enrollment, j \in Step : outbound[d][j].attempts <= outbound'[d][j].attempts
    <3>. SUFFICES ASSUME NEW d \in Enrollment, NEW j \in Step
                  PROVE  outbound[d][j].attempts <= outbound'[d][j].attempts
      BY Zenon
    <3>1. CASE d = t.e /\ j = t.s
      BY <2>6, <2>7, <2>8, <3>1
    <3>2. CASE ~(d = t.e /\ j = t.s)
      BY <1>n, <1>c, <2>7, <3>2, Zenon
    <3>. QED
      BY <3>1, <3>2, Zenon
  <2>10. outbound'[t.e][t.s].attempts = t.out.attempts + 1
    BY <1>t, <2>2, <2>6, <2>7, ZenonT(60)
  <2>. QED
    BY <1>t, <1>act, <2>2, <2>3, <2>9, <2>10, Zenon
<1>. QED
  BY <1>2, <1>3, <1>4, <1>5, <1>6, <1>7, Zenon DEF Finish

\* Other components and the clock leave e-mails and their records alone.
LEMMA OutsideRecords ==
  ASSUME TypeInv, OnceInv, Environment
  PROVE  OnceInv'
<1>. DEFINE Grown == /\ \A e \in Enrollment : enrollment[e].version <= enrollment'[e].version
                     /\ \A e \in Enrollment, s \in Step :
                          outbound'[e][s].attempts = outbound[e][s].attempts
            NoneIsZero == \A e \in Enrollment :
                            enrollment'[e].status = "none" => enrollment'[e].version = 0
<1>t. /\ enrollment \in [Enrollment -> EnrollmentRow]
      /\ outbound \in [Enrollment -> [Step -> OutboundRow]]
      /\ tx \in [Worker -> Transaction \cup {Idle}]
      /\ outbox \subseteq OutboxKey
      /\ \A w \in Worker : tx[w].op \in Approval => tx[w].s \in Step
  BY Zenon DEF TypeInv, TypeOK, StepTyped
<1>n. \A e \in Enrollment : enrollment[e].version \in Nat
  BY <1>t, Zenon DEF EnrollmentRow
<1>c. \A n \in Nat : n <= n
  OBVIOUS
<1>1. ASSUME Grown, NoneIsZero, UNCHANGED <<activity, outbox, tx, delivered>>,
             \A e \in Enrollment : enrollment'[e].version \in Nat
      PROVE  OnceInv'
  <2>1. KeysPast'
    <3>. SUFFICES ASSUME NEW k \in outbox
                  PROVE  IF k[1] = "email.sent"
                         THEN k[3] \in Step => k[4] <= outbound'[k[2]][k[3]].attempts
                         ELSE k[4] <= enrollment'[k[2]].version
      BY <1>1, Zenon DEF KeysPast
    <3>1. k[2] \in Enrollment /\ k[4] \in Nat
      BY <1>t DEF OutboxKey
    <3>2. CASE k[1] = "email.sent"
      BY <1>1, <3>1, <3>2, Zenon DEF OnceInv, KeysPast
    <3>3. CASE k[1] # "email.sent"
      <4>1. k[4] <= enrollment[k[2]].version
        BY <3>3, Zenon DEF OnceInv, KeysPast
      <4>2. enrollment[k[2]].version <= enrollment'[k[2]].version
        BY <1>1, <3>1, Zenon
      <4>3. enrollment[k[2]].version \in Nat /\ enrollment'[k[2]].version \in Nat
        BY <1>1, <1>n, <3>1, Zenon
      <4>4. k[4] <= enrollment'[k[2]].version
        BY <3>1, <4>1, <4>2, <4>3
      <4>. QED
        BY <3>3, <4>4, Zenon
    <3>. QED
      BY <3>2, <3>3, Zenon
  <2>2. ASSUME NEW w \in Worker, NEW t, t = tx[w], t # Idle PROVE OnceFacts(t)'
    <3>1. OnceFacts(t) /\ t.e \in Enrollment
      BY <1>t, <2>2, Zenon DEF OnceInv, Transaction
    <3>2. t.op \in Recording => t.s \in Step
      BY <1>t, <2>2, Zenon DEF Recording, Approval
    <3>. QED
      BY <1>1, <3>1, <3>2, Zenon DEF OnceFacts
  <2>3. \A e, s : Recorded(e, s) => Recorded(e, s)'
    BY <1>1, Zenon DEF Recorded
  <2>. QED
    BY <1>1, <2>1, <2>2, <2>3, Zenon DEF OnceInv
<1>2. ASSUME UNCHANGED <<enrollment, outbound, activity, outbox, tx, delivered>> PROVE OnceInv'
  <2>1. Grown
    BY <1>n, <1>c, <1>2, Zenon
  <2>2. NoneIsZero
    BY <1>2, Zenon DEF OnceInv
  <2>. QED
    BY <1>1, <1>2, <1>n, <2>1, <2>2, Zenon
<1>3. ASSUME NEW e \in Enrollment, CreateSequenceEnrollment(e) PROVE OnceInv'
  <2>1. PICK start : SetEnrollment(e, [status |-> "active", step |-> 1, next |-> start,
                                       version |-> 1])
    BY <1>3, Zenon DEF CreateSequenceEnrollment
  <2>2. PICK row : row = [status |-> "active", step |-> 1, next |-> start, version |-> 1]
    BY Zenon
  <2>3. row.status = "active" /\ row.version = 1
    BY <2>2
  <2>4. \A d \in Enrollment : enrollment'[d] = IF d = e THEN row ELSE enrollment[d]
    BY <1>t, <2>1, <2>2, Zenon DEF SetEnrollment
  <2>5. enrollment[e].version = 0 /\ UNCHANGED <<outbound, activity, outbox, tx, delivered>>
    BY <1>3, Zenon DEF CreateSequenceEnrollment, OnceInv
  <2>6. \A d \in Enrollment : /\ enrollment'[d].version \in Nat
                              /\ enrollment[d].version <= enrollment'[d].version
    BY <1>n, <2>3, <2>4, <2>5
  <2>7. NoneIsZero
    BY <2>3, <2>4, Zenon DEF OnceInv
  <2>. QED
    BY <1>1, <2>5, <2>6, <2>7, Zenon
<1>4. ASSUME NEW e \in Enrollment, StepFallsDue(e) PROVE OnceInv'
  <2>1. PICK row : row = [enrollment[e] EXCEPT !.next = "due"]
    BY Zenon
  <2>2. row.status = enrollment[e].status /\ row.version = enrollment[e].version
    BY <1>t, <2>1, Zenon DEF EnrollmentRow
  <2>3. \A d \in Enrollment : enrollment'[d] = IF d = e THEN row ELSE enrollment[d]
    BY <1>4, <1>t, <2>1, Zenon DEF StepFallsDue, SetEnrollment
  <2>4. \A d \in Enrollment : /\ enrollment'[d].status = enrollment[d].status
                              /\ enrollment'[d].version = enrollment[d].version
    BY <2>2, <2>3, Zenon
  <2>5. UNCHANGED <<outbound, activity, outbox, tx, delivered>>
    BY <1>4, Zenon DEF StepFallsDue
  <2>6. Grown
    BY <1>n, <1>c, <2>4, <2>5, Zenon
  <2>7. NoneIsZero
    BY <2>4, Zenon DEF OnceInv
  <2>. QED
    BY <1>1, <1>n, <2>4, <2>5, <2>6, <2>7, Zenon
<1>5. ASSUME NEW e \in Enrollment, NEW s \in Step, SentLeavesWindow(e, s) PROVE OnceInv'
  <2>1. \A d \in Enrollment, j \in Step : outbound'[d][j].attempts = outbound[d][j].attempts
    BY <1>5, <1>t DEF SentLeavesWindow, OutboundRow
  <2>2. UNCHANGED <<enrollment, activity, outbox, tx, delivered>>
    BY <1>5, Zenon DEF SentLeavesWindow
  <2>3. Grown
    BY <1>n, <1>c, <2>1, <2>2, Zenon
  <2>4. NoneIsZero
    BY <2>2, Zenon DEF OnceInv
  <2>. QED
    BY <1>1, <1>n, <2>2, <2>3, <2>4, Zenon
<1>6. CASE UNCHANGED <<enrollment, outbound, activity, outbox, tx, delivered>>
  BY <1>2, <1>6, Zenon
<1>. HIDE DEF Grown, NoneIsZero
<1>. QED
  BY <1>3, <1>4, <1>5, <1>6, Zenon DEF Environment, SetSequenceStatus, TargetExported,
     ContactChanges, CreateSuppression, InboundUnmatched, database

\* Any step, when there is one handler at a time and none dies.
LEMMA OnceStep ==
  ASSUME \A v, w \in Worker : v = w, ~MayAbort, TypeInv, FreshInv, WorkInv, OnceInv, [Next]_vars
  PROVE  OnceInv'
<1>t. /\ tx \in [Worker -> Transaction \cup {Idle}]
      /\ enrollment \in [Enrollment -> EnrollmentRow]
      /\ delivered \in [Enrollment -> [Step -> Nat]]
      /\ outbox \subseteq OutboxKey
      /\ \A w \in Worker : tx[w].op \in Approval => tx[w].s \in Step
  BY Zenon DEF TypeInv, TypeOK, StepTyped
<1>i. Idle.op \notin Recording
  BY DEF Idle, Recording
\* A handler goes on, the rows are as they were.
<1>tx. ASSUME NEW w \in Worker, NEW t, tx' = [tx EXCEPT ![w] = t], t # Idle => OnceFacts(t),
              tx[w].op \notin Recording, UNCHANGED <<database, delivered>>
       PROVE  OnceInv'
  <2>1. \A v \in Worker : tx'[v] = IF v = w THEN t ELSE tx[v]
    BY <1>t, <1>tx, Zenon
  <2>2. \A e, s : Recorded(e, s) => Recorded(e, s)'
    BY <1>tx, <2>1, Zenon DEF Recorded, database
  <2>3. \A x : OnceFacts(x) => OnceFacts(x)'
    BY <1>tx, Zenon DEF OnceFacts, database
  <2>4. KeysPast'
    BY <1>tx, Zenon DEF OnceInv, KeysPast, database
  <2>. QED
    BY <1>tx, <2>1, <2>2, <2>3, <2>4, Zenon DEF OnceInv, database
<1>1. CASE UNCHANGED vars
  <2>1. UNCHANGED <<enrollment, outbound, activity, outbox, tx, delivered>>
    BY <1>1, Zenon DEF vars, database
  <2>. QED
    <3>1. KeysPast'
      BY <2>1, Zenon DEF OnceInv, KeysPast
    <3>2. \A x : OnceFacts(x) => OnceFacts(x)'
      BY <2>1, Zenon DEF OnceFacts
    <3>3. \A e, s : Recorded(e, s) => Recorded(e, s)'
      BY <2>1, Zenon DEF Recorded
    <3>. QED
      BY <2>1, <3>1, <3>2, <3>3, Zenon DEF OnceInv
<1>2. CASE Environment
  BY <1>2, OutsideRecords, Zenon
<1>3. ASSUME NEW w \in Worker, Begin(w) PROVE OnceInv'
  <2>1. UNCHANGED <<database, delivered>> /\ tx[w] = Idle /\ (UNCHANGED tx \/ Opens(w))
    BY <1>3, BeginOpens, Zenon
  <2>2. CASE UNCHANGED tx
    BY <1>t, <1>i, <1>tx, <2>1, <2>2, Zenon
  <2>3. CASE Opens(w)
    <3>1. PICK t : /\ tx' = [tx EXCEPT ![w] = t]
                   /\ t.op \notin {"approve_sent", "approve_failed"}
                   /\ t.op = "approve" => /\ t.msgs = {}
                                          /\ activity[t.e][t.s] = "pending_approval"
      BY <2>3, Zenon DEF Opens
    <3>2. OnceFacts(t)
      BY <3>1, Zenon DEF OnceFacts, Approval, Recording
    <3>. QED
      BY <1>i, <1>tx, <2>1, <3>1, <3>2, Zenon
  <2>. QED
    BY <2>1, <2>2, <2>3, Zenon
<1>4. ASSUME NEW w \in Worker, Finish(w) PROVE OnceInv'
  <2>1. PICK t : t = tx[w]
    BY Zenon
  <2>2. t # Idle
    BY <1>4, <2>1, FinishBusy, Zenon
  <2>3. /\ Fresh(t) /\ OnceFacts(t) /\ t \in Transaction /\ t.e \in Enrollment
        /\ t.op \in Approval => t.s \in Step
    BY <1>t, <2>1, <2>2, Zenon DEF FreshInv, OnceInv, Transaction
  <2>4. \A v \in Worker : v = w
    BY Zenon
  <2>5. CASE Rollback(w)
    <3>1. t.op \notin Recording
      <4>1. t.op = "refused" \/ DuplicateKey(t)
        BY <2>1, <2>5, Zenon DEF Rollback
      <4>2. t.op \in Recording => ~DuplicateKey(t)
        BY <2>1, <2>2, <2>3, RecordingIsNew, Zenon DEF OnceInv
      <4>. QED
        BY <4>1, <4>2, Zenon DEF Recording
    <3>2. tx' = [tx EXCEPT ![w] = Idle] /\ UNCHANGED <<database, delivered>>
      BY <2>5, Zenon DEF Rollback
    <3>. QED
      BY <1>tx, <2>1, <3>1, <3>2, Zenon
  <2>6. CASE SendNextGate(w)
    <3>1. PICK x : x = ReadOutbound(t, Gate(t.e, t.s))
      BY Zenon
    <3>2. x.op = Gate(t.e, t.s)
      BY <3>1, Zenon DEF ReadOutbound
    <3>3. x.op \notin Approval \cup Recording
      <4>1. x.op \in Scheduler
        BY <3>2, GateType, Zenon
      <4>. QED
        BY <4>1 DEF Scheduler, Approval, Recording
    <3>4. OnceFacts(x)
      BY <3>3, Zenon DEF OnceFacts, Approval
    <3>5. /\ tx' = [tx EXCEPT ![w] = x] /\ UNCHANGED <<database, delivered>>
          /\ t.op \notin Recording
      BY <2>1, <2>6, <3>1, Zenon DEF SendNextGate, Recording
    <3>. QED
      BY <1>tx, <2>1, <3>4, <3>5, Zenon
  <2>7. CASE ApproveSmtp(w)
    <3>1. PICK op \in {"approve_sent", "approve_failed"}, accepted \in BOOLEAN :
            /\ tx' = [tx EXCEPT ![w] = ReadOutbound(t, op)]
            /\ delivered' = [delivered EXCEPT ![t.e][t.s] = IF accepted THEN @ + 1 ELSE @]
      BY <2>1, <2>7, Zenon DEF ApproveSmtp
    <3>2. t.op = "approve" /\ UNCHANGED <<enrollment, activity, outbound, outbox>>
      BY <2>1, <2>7, Zenon DEF ApproveSmtp, database
    <3>3. t.s \in Step /\ t.msgs = {} /\ activity[t.e][t.s] = "pending_approval"
      BY <2>3, <3>2, Zenon DEF Approval, OnceFacts
    <3>4. PICK x : x = ReadOutbound(t, op)
      BY Zenon
    <3>5. /\ x.op = op /\ x.e = t.e /\ x.s = t.s /\ x.msgs = t.msgs
          /\ x.out = outbound[t.e][t.s]
      BY <3>4, Zenon DEF ReadOutbound
    <3>6. op \in Recording /\ op # "approve" /\ t.op \notin Recording
      BY <3>2, Zenon DEF Recording
    <3>7. \A v \in Worker : tx'[v] = x
      BY <1>t, <2>4, <3>1, <3>4, Zenon
    <3>8. OnceFacts(x)'
      BY <3>2, <3>3, <3>5, <3>6, Zenon DEF OnceFacts
    <3>9. delivered[t.e][t.s] = 0
      <4>1. ~Recorded(t.e, t.s)
        BY <2>1, <2>4, <3>3, <3>6, Zenon DEF Recorded, Closed
      <4>. QED
        BY <2>3, <3>3, <4>1, Zenon DEF OnceInv
    <3>10. \A e \in Enrollment, s \in Step :
             ~(e = t.e /\ s = t.s) => delivered'[e][s] = delivered[e][s]
      BY <1>t, <2>3, <3>1, <3>3, ZenonT(60)
    <3>11. delivered'[t.e][t.s] \in {0, 1}
      BY <1>t, <2>3, <3>1, <3>3, <3>9
    <3>12. Recorded(t.e, t.s)'
      BY <1>4, <3>5, <3>6, <3>7, Zenon DEF Recorded
    <3>13. ASSUME NEW e \in Enrollment, NEW s \in Step
           PROVE  delivered'[e][s] = 0 \/ (delivered'[e][s] = 1 /\ Recorded(e, s)')
      <4>1. CASE e = t.e /\ s = t.s
        BY <3>11, <3>12, <4>1, Zenon
      <4>2. CASE ~(e = t.e /\ s = t.s)
        <5>1. delivered[e][s] = 0 \/ (delivered[e][s] = 1 /\ Recorded(e, s))
          BY Zenon DEF OnceInv
        <5>2. Recorded(e, s) => activity[e][s] \in Closed
          BY <2>1, <2>4, <3>6, Zenon DEF Recorded
        <5>3. activity[e][s] \in Closed => Recorded(e, s)'
          BY <3>2, Zenon DEF Recorded
        <5>. QED
          BY <3>10, <4>2, <5>1, <5>2, <5>3, Zenon
      <4>. QED
        BY <4>1, <4>2, Zenon
    <3>14. KeysPast'
      BY <3>2, Zenon DEF OnceInv, KeysPast
    <3>. QED
      BY <3>2, <3>7, <3>8, <3>13, <3>14, Zenon DEF OnceInv
  <2>8. CASE ~Rollback(w) /\ ~SendNextGate(w) /\ ~ApproveSmtp(w)
    <3>1. PICK row : Leaves(t, row)
      BY <1>4, <2>1, <2>2, <2>3, <2>8, CommitLeaves, Zenon
    <3>2. Commit(w, t.op) /\ UNCHANGED delivered
      BY <1>4, <2>1, <2>2, <2>3, <2>8, CommitLeaves, Zenon
    <3>3. /\ \A e \in Enrollment, s \in Step :
               activity[e][s] \in Closed => activity'[e][s] \in Closed
          /\ t.op \in Recording => activity'[t.e][t.s] \in Closed
          /\ \A e \in Enrollment, s \in Step :
               outbound[e][s].attempts <= outbound'[e][s].attempts
          /\ t.op = "approve_sent" => outbound'[t.e][t.s].attempts = t.out.attempts + 1
      BY <1>4, <2>1, <2>2, <2>3, <2>8, CommitRecords, Zenon
    <3>4. \A d \in Enrollment : enrollment'[d] = IF d = t.e THEN row ELSE enrollment[d]
      BY <1>t, <3>1, Zenon DEF Leaves, SetEnrollment
    <3>5. /\ outbox' = outbox \cup TxKeys(t)
          /\ \A v \in Worker : tx'[v] = Idle
      BY <1>t, <2>1, <2>4, <3>2, Zenon DEF Commit
    <3>6. \A d \in Enrollment : enrollment'[d].status = "none" => enrollment'[d].version = 0
      BY <3>1, <3>4, Zenon DEF OnceInv, Leaves
    <3>7. \A e \in Enrollment, s \in Step : Recorded(e, s) => Recorded(e, s)'
      BY <2>1, <2>4, <3>3, Zenon DEF Recorded
    <3>8. ASSUME NEW k \in outbox'
          PROVE  IF k[1] = "email.sent"
                 THEN k[3] \in Step => k[4] <= outbound'[k[2]][k[3]].attempts
                 ELSE k[4] <= enrollment'[k[2]].version
      <4>v. /\ row.version \in Nat /\ t.row.version \in Nat /\ t.out.attempts \in Nat
            /\ enrollment[t.e].version = t.row.version
            /\ row.version = t.row.version \/ row.version = t.row.version + 1
            /\ t.op \notin {"bounce", "unsubscribe", "defer", "activity", "present",
                            "approve_failed"} => row.version = t.row.version + 1
        BY <2>3, <3>1, Zenon DEF Leaves, EnrollmentRow, Transaction, OutboundRow, Fresh
      <4>1. CASE k \in outbox
        <5>1. k[2] \in Enrollment /\ k[4] \in Nat
          BY <1>t, <4>1 DEF OutboxKey
        <5>2. CASE k[1] = "email.sent"
          <6>. SUFFICES ASSUME k[3] \in Step PROVE k[4] <= outbound'[k[2]][k[3]].attempts
            BY <5>2, Zenon
          <6>1. k[4] <= outbound[k[2]][k[3]].attempts
            BY <4>1, <5>2, Zenon DEF OnceInv, KeysPast
          <6>2. outbound[k[2]][k[3]].attempts <= outbound'[k[2]][k[3]].attempts
            BY <3>3, <5>1, Zenon
          <6>3. outbound[k[2]][k[3]].attempts \in Nat /\ outbound'[k[2]][k[3]].attempts \in Nat
            <7>1. TypeInv'
              BY TypeStep, Zenon
            <7>. QED
              BY <5>1, <7>1, ZenonT(60) DEF TypeInv, TypeOK, OutboundRow
          <6>. QED
            BY <5>1, <6>1, <6>2, <6>3
        <5>3. CASE k[1] # "email.sent"
          <6>1. k[4] <= enrollment[k[2]].version
            BY <4>1, <5>3, Zenon DEF OnceInv, KeysPast
          <6>2. CASE k[2] = t.e
            <7>1. k[4] <= row.version
              BY <4>v, <5>1, <6>1, <6>2
            <7>. QED
              BY <2>3, <3>4, <5>3, <6>2, <7>1, Zenon
          <6>3. CASE k[2] # t.e
            BY <3>4, <5>1, <5>3, <6>1, <6>3, Zenon
          <6>. QED
            BY <6>2, <6>3, Zenon
        <5>. QED
          BY <5>2, <5>3, Zenon
      <4>2. CASE k \in TxKeys(t)
        <5>1. CASE k = <<"email.sent", t.e, t.s, t.out.attempts + 1>> /\ t.op = "approve_sent"
          <6>1. k[1] = "email.sent" /\ k[2] = t.e /\ k[3] = t.s /\ k[4] = t.out.attempts + 1
            BY <5>1
          <6>2. k[4] <= outbound'[k[2]][k[3]].attempts
            BY <3>3, <4>v, <5>1, <6>1
          <6>. QED
            BY <6>1, <6>2, Zenon
        <5>2. CASE /\ k[1] # "email.sent" /\ k[2] = t.e /\ k[4] = t.row.version + 1
                   /\ t.op \notin {"bounce", "unsubscribe", "defer", "activity", "present",
                                   "approve_failed"}
          <6>1. enrollment'[t.e] = row /\ row.version = t.row.version + 1
            BY <2>3, <3>4, <4>v, <5>2, ZenonT(60)
          <6>2. k[4] <= enrollment'[k[2]].version
            BY <4>v, <5>2, <6>1
          <6>. QED
            BY <5>2, <6>2, Zenon
        <5>. QED
          BY <4>2, <5>1, <5>2, KeysOfTx, Zenon
      <4>. QED
        BY <3>5, <3>8, <4>1, <4>2, Zenon
    <3>9. KeysPast'
      BY <3>8, Zenon DEF KeysPast
    <3>. QED
      BY <3>2, <3>5, <3>6, <3>7, <3>9, Zenon DEF OnceInv
  <2>. QED
    BY <2>5, <2>6, <2>7, <2>8, Zenon
<1>. QED
  BY <1>1, <1>2, <1>3, <1>4, Zenon DEF Next

\* With one handler at a time, none of which dies, no step's e-mail is accepted twice: an
\* SMTP error reported for an accepted message closes the activity (email_delivery.py:121), and
\* what was sent is recorded under keys that nobody has used.
THEOREM DeliveredOnce ==
  ASSUME \A v, w \in Worker : v = w, ~MayAbort
  PROVE  Spec => []AtMostOneDelivery
<1>1. Init => FreshInv /\ WorkInv
  BY DEF Init, FreshInv, WorkInv, HasWork, NoEnrollment
<1>2. Init => OnceInv
  BY DEF Init, OnceInv, KeysPast, NoEnrollment
<1>3. TypeInv /\ FreshInv /\ WorkInv /\ OnceInv /\ [Next]_vars => FreshInv' /\ WorkInv' /\ OnceInv'
  BY WorkStep, OnceStep, Zenon
<1>4. OnceInv => AtMostOneDelivery
  BY DEF OnceInv, AtMostOneDelivery
<1>. QED
  BY <1>1, <1>2, <1>3, <1>4, TypeInit, TypeStep, PTL DEF Spec
=============================================================================
