-------------------------- MODULE SequencingLimits --------------------------
(***************************************************************************)
(* The daily limits of Sequencing, for any limits and any finite number of *)
(* enrollments and workers.  An approval that passed the check may be      *)
(* overtaken by others that passed it too; the invariant counts the        *)
(* e-mails of the last day together with the approvals that may still add  *)
(* one.                                                                    *)
(***************************************************************************)
EXTENDS SequencingProofs, FiniteSetTheorems
-----------------------------------------------------------------------------
\* The approvals past the limit check that have not recorded their e-mail yet.
Approving(es) ==
  {w \in Worker : tx[w].op \in {"approve", "approve_sent"} /\ tx[w].e \in es}

\* Sent, or about to be, to the enrollments es.
Counted(es, limit) ==
  Cardinality(SentToday(es)) + Cardinality(Approving(es)) <= limit + (Cardinality(Worker) - 1)

\* The enrollments whose e-mails count for the mail domain of e.
SameDomain(e) == {d \in Enrollment : Domain[d] = Domain[e]}

\* Both limits.
RateInv ==
  /\ Counted(Enrollment, ChannelLimit)
  /\ \A e \in Enrollment : Counted(SameDomain(e), DomainLimit)

\* The e-mail of a step counts as one of the last day.
InWindow(e, s) == outbound[e][s].status = "sent" /\ outbound[e][s].sentAt = "window"

\* What is counted is finite.
LEMMA CountsAreFinite ==
  ASSUME IsFiniteSet(Enrollment), IsFiniteSet(Worker), NEW es \in SUBSET Enrollment
  PROVE  /\ IsFiniteSet(SentToday(es)) /\ Cardinality(SentToday(es)) \in Nat
         /\ IsFiniteSet(Approving(es)) /\ Cardinality(Approving(es)) \in Nat
         /\ IsFiniteSet(SentToday(es)') /\ Cardinality(SentToday(es)') \in Nat
         /\ IsFiniteSet(Approving(es)') /\ Cardinality(Approving(es)') \in Nat
         /\ Cardinality(Approving(es)') <= Cardinality(Worker)
         /\ Cardinality(Worker) \in Nat
<1>1. IsFiniteSet(Step)
  <2>1. 1 \in Int /\ NSteps \in Int
    BY StepAssumption
  <2>. QED
    BY <2>1, FS_Interval, Zenon DEF Step
<1>2. IsFiniteSet(es)
  BY FS_Subset, Zenon
<1>3. IsFiniteSet(es \X Step)
  BY <1>1, <1>2, FS_Product, Zenon
<1>4. SentToday(es) \in SUBSET (es \X Step) /\ SentToday(es)' \in SUBSET (es \X Step)
  BY Zenon DEF SentToday
<1>5. Approving(es) \in SUBSET Worker /\ Approving(es)' \in SUBSET Worker
  BY Zenon DEF Approving
<1>6. IsFiniteSet(SentToday(es)) /\ IsFiniteSet(SentToday(es)')
  BY <1>3, <1>4, FS_Subset, Zenon
<1>7. /\ IsFiniteSet(Approving(es)) /\ IsFiniteSet(Approving(es)')
      /\ Cardinality(Approving(es)') <= Cardinality(Worker)
  BY <1>5, FS_Subset, Zenon
<1>. QED
  BY <1>6, <1>7, FS_CardinalityType, Zenon

\* The three ways in which the counts may change.
LEMMA CountChanges ==
  ASSUME IsFiniteSet(Enrollment), IsFiniteSet(Worker), NEW es \in SUBSET Enrollment,
         NEW limit \in Nat, Counted(es, limit), NEW w, NEW p,
         \/ SentToday(es)' \subseteq SentToday(es) /\ Approving(es)' \subseteq Approving(es)
         \/ /\ SentToday(es)' \subseteq SentToday(es)
            /\ Cardinality(SentToday(es)) < limit
         \/ /\ SentToday(es)' \subseteq SentToday(es) \cup {p}
            /\ w \in Approving(es) /\ Approving(es)' \subseteq Approving(es) \ {w}
  PROVE  Counted(es, limit)'
<1>. DEFINE S == SentToday(es)  A == Approving(es)  n == Cardinality(Worker)
<1>f. /\ IsFiniteSet(S) /\ Cardinality(S) \in Nat /\ IsFiniteSet(A) /\ Cardinality(A) \in Nat
      /\ Cardinality(S') \in Nat /\ Cardinality(A') \in Nat
      /\ Cardinality(A') <= n /\ n \in Nat
  BY CountsAreFinite, Zenon
<1>c. Cardinality(S) + Cardinality(A) <= limit + (n - 1)
  BY Zenon DEF Counted
<1>g. Cardinality(S') + Cardinality(A') <= limit + (n - 1) => Counted(es, limit)'
  BY Zenon DEF Counted
<1>. HIDE DEF S, A, n
<1>0. ASSUME S' \subseteq S PROVE Cardinality(S') <= Cardinality(S)
  BY <1>f, <1>0, FS_Subset, Zenon
<1>1. CASE S' \subseteq S /\ A' \subseteq A
  <2>1. Cardinality(A') <= Cardinality(A)
    BY <1>f, <1>1, FS_Subset, Zenon
  <2>. QED
    BY <1>c, <1>f, <1>g, <1>0, <1>1, <2>1
<1>2. CASE S' \subseteq S /\ Cardinality(S) < limit
  BY <1>c, <1>f, <1>g, <1>0, <1>2
<1>3. CASE S' \subseteq S \cup {p} /\ w \in A /\ A' \subseteq A \ {w}
  <2>1. IsFiniteSet(S \cup {p}) /\ Cardinality(S \cup {p}) <= Cardinality(S) + 1
        /\ Cardinality(S \cup {p}) \in Nat
    <3>1. /\ IsFiniteSet(S \cup {p})
          /\ Cardinality(S \cup {p}) = IF p \in S THEN Cardinality(S) ELSE Cardinality(S) + 1
      BY <1>f, FS_AddElement, Zenon
    <3>. QED
      BY <1>f, <3>1
  <2>2. IsFiniteSet(A \ {w}) /\ Cardinality(A \ {w}) = Cardinality(A) - 1
    BY <1>f, <1>3, FS_RemoveElement, Zenon
  <2>3. Cardinality(S') <= Cardinality(S \cup {p})
    BY <1>3, <2>1, FS_Subset, Zenon
  <2>4. Cardinality(A') <= Cardinality(A \ {w})
    BY <1>3, <2>2, FS_Subset, Zenon
  <2>. QED
    BY <1>c, <1>f, <1>g, <2>1, <2>2, <2>3, <2>4
<1>. QED
  BY <1>1, <1>2, <1>3, Zenon DEF S, A

\* What is finished adds to the e-mails of the last day only when an approval commits.
LEMMA FinishSends ==
  ASSUME TypeInv, NEW w \in Worker, NEW t, t = tx[w], Finish(w)
  PROVE  \/ /\ \A e \in Enrollment, s \in Step : InWindow(e, s)' => InWindow(e, s)
            /\ \E x : /\ tx' = [tx EXCEPT ![w] = x]
                      /\ x.op \in {"approve", "approve_sent"}
                           => t.op \in {"approve", "approve_sent"} /\ x.e = t.e
         \/ /\ t.op = "approve_sent" /\ tx' = [tx EXCEPT ![w] = Idle]
            /\ \A e \in Enrollment, s \in Step :
                 InWindow(e, s)' => InWindow(e, s) \/ (e = t.e /\ s = t.s)
<1>. DEFINE Shrinks == \A e \in Enrollment, s \in Step : InWindow(e, s)' => InWindow(e, s)
            Goes == \E x : /\ tx' = [tx EXCEPT ![w] = x]
                           /\ x.op \in {"approve", "approve_sent"}
                                => t.op \in {"approve", "approve_sent"} /\ x.e = t.e
<1>t. outbound \in [Enrollment -> [Step -> OutboundRow]]
  BY Zenon DEF TypeInv, TypeOK
<1>i. Idle.op \notin {"approve", "approve_sent"}
  BY DEF Idle
<1>same. ASSUME UNCHANGED outbound PROVE Shrinks
  BY <1>same, Zenon DEF InWindow
<1>idle. ASSUME tx' = [tx EXCEPT ![w] = Idle] PROVE Goes
  BY <1>i, <1>idle, Zenon
<1>1. CASE Rollback(w)
  BY <1>1, <1>same, <1>idle, Zenon DEF Rollback, database
<1>2. CASE SendNextGate(w)
  <2>1. PICK x : x = ReadOutbound(t, Gate(t.e, t.s))
    BY Zenon
  <2>2. x.op = Gate(t.e, t.s)
    BY <2>1, Zenon DEF ReadOutbound
  <2>3. x.op \notin {"approve", "approve_sent"}
    BY <2>2, GateType, Zenon DEF Scheduler
  <2>4. tx' = [tx EXCEPT ![w] = x] /\ UNCHANGED outbound
    BY <1>2, <2>1, Zenon DEF SendNextGate, database
  <2>. QED
    BY <1>same, <2>3, <2>4, Zenon
<1>3. CASE ApproveSmtp(w)
  <2>1. PICK op : tx' = [tx EXCEPT ![w] = ReadOutbound(t, op)]
    BY <1>3, Zenon DEF ApproveSmtp
  <2>2. PICK x : x = ReadOutbound(t, op)
    BY Zenon
  <2>3. x.e = t.e
    BY <2>2, Zenon DEF ReadOutbound
  <2>4. t.op = "approve" /\ UNCHANGED outbound
    BY <1>3, Zenon DEF ApproveSmtp, database
  <2>. QED
    BY <1>same, <2>1, <2>2, <2>3, <2>4, ZenonT(60)
<1>4. CASE \E op : Commit(w, op) /\ UNCHANGED outbound
  BY <1>4, <1>same, <1>idle, Zenon DEF Commit
<1>5. CASE SendNextPause(w) \/ SendNextSuppress(w) \/ PauseSequenceEnrollment(w)
           \/ CancelSequenceEnrollment(w) \/ ResumeSequenceEnrollment(w) \/ SendNextDefer(w)
  BY <1>4, <1>5, Zenon DEF SendNextPause, SendNextSuppress, PauseSequenceEnrollment,
     CancelSequenceEnrollment, ResumeSequenceEnrollment, SendNextDefer
<1>6. CASE ProcessReply(w) \/ MeetingBooked(w) \/ ProcessUnsubscribe(w) \/ SendNextActivity(w)
           \/ CompleteActivity(w)
  BY <1>4, <1>6, ZenonT(60) DEF ProcessReply, MeetingBooked, ProcessUnsubscribe, SendNextActivity,
     CompleteActivity
<1>status. ASSUME NEW status, outbound' = [outbound EXCEPT ![t.e][t.s].status = status],
                  status = "sent" => outbound[t.e][t.s].status = "sent"
           PROVE  Shrinks
  BY <1>t, <1>status DEF InWindow, OutboundRow
<1>7. CASE ProcessBounce(w)
  <2>1. tx' = [tx EXCEPT ![w] = Idle]
    BY <1>7, Zenon DEF ProcessBounce, Commit
  <2>2. \/ UNCHANGED outbound
        \/ outbound' = [outbound EXCEPT ![t.e][t.s].status = "failed_terminal"]
    BY <1>7, Zenon DEF ProcessBounce
  <2>3. CASE UNCHANGED outbound
    BY <1>same, <1>idle, <2>1, <2>3, Zenon
  <2>4. CASE outbound' = [outbound EXCEPT ![t.e][t.s].status = "failed_terminal"]
    <3>1. PICK status : status = "failed_terminal"
      BY Zenon
    <3>2. outbound' = [outbound EXCEPT ![t.e][t.s].status = status] /\ status # "sent"
      BY <2>4, <3>1, Zenon
    <3>3. Shrinks
      BY <1>status, <3>2, ZenonT(60)
    <3>. QED
      BY <1>idle, <2>1, <3>3, Zenon
  <2>. QED
    BY <2>2, <2>3, <2>4, Zenon
<1>8. CASE SendNextPresent(w)
  <2>1. tx' = [tx EXCEPT ![w] = Idle]
    BY <1>8, Zenon DEF SendNextPresent, Commit
  <2>2. PICK status : status = Written(t.out.status, "pending_approval", outbound[t.e][t.s].status)
    BY Zenon
  <2>3. outbound' = [outbound EXCEPT ![t.e][t.s].status = status]
    BY <1>8, <2>2, Zenon DEF SendNextPresent
  <2>4. status = "sent" => outbound[t.e][t.s].status = "sent"
    BY <2>2, Zenon DEF Written
  <2>5. Shrinks
    BY <1>status, <2>3, <2>4, ZenonT(60)
  <2>. QED
    BY <1>idle, <2>1, <2>5, Zenon
<1>9. CASE ApproveFailed(w)
  <2>1. tx' = [tx EXCEPT ![w] = Idle]
    BY <1>9, Zenon DEF ApproveFailed, Commit
  <2>2. PICK o : o = [status |-> Written(t.out.status, "failed_retryable",
                                         outbound[t.e][t.s].status),
                      attempts |-> t.out.attempts + 1, sentAt |-> outbound[t.e][t.s].sentAt]
    BY Zenon
  <2>3. /\ o.status = "sent" => outbound[t.e][t.s].status = "sent"
        /\ o.sentAt = outbound[t.e][t.s].sentAt
    BY <2>2, Zenon DEF Written
  <2>4. outbound' = [outbound EXCEPT ![t.e][t.s] = o]
    BY <1>9, <2>2, Zenon DEF ApproveFailed
  <2>5. \A e \in Enrollment, s \in Step :
          outbound'[e][s] = IF e = t.e /\ s = t.s THEN o ELSE outbound[e][s]
    BY <1>t, <2>4, Zenon
  <2>6. Shrinks
    BY <2>3, <2>5, ZenonT(60) DEF InWindow
  <2>. QED
    BY <1>idle, <2>1, <2>6, Zenon
<1>10. CASE ApproveSent(w)
  <2>1. t.op = "approve_sent" /\ tx' = [tx EXCEPT ![w] = Idle]
    BY <1>10, Zenon DEF ApproveSent, Commit
  <2>2. PICK o : outbound' = [outbound EXCEPT ![t.e][t.s] = o]
    BY <1>10, Zenon DEF ApproveSent
  <2>3. \A e \in Enrollment, s \in Step :
          ~(e = t.e /\ s = t.s) => outbound'[e][s] = outbound[e][s]
    BY <1>t, <2>2, ZenonT(60)
  <2>4. \A e \in Enrollment, s \in Step :
          InWindow(e, s)' => InWindow(e, s) \/ (e = t.e /\ s = t.s)
    BY <2>3, Zenon DEF InWindow
  <2>. QED
    BY <2>1, <2>4, Zenon
<1>. QED
  BY <1>1, <1>2, <1>3, <1>5, <1>6, <1>7, <1>8, <1>9, <1>10, ZenonT(60) DEF Finish

\* Any step keeps the count within a limit that the gate looks at.
LEMMA CountStep ==
  ASSUME IsFiniteSet(Enrollment), IsFiniteSet(Worker), TypeInv, [Next]_vars,
         NEW es \in SUBSET Enrollment, NEW limit \in Nat, Counted(es, limit),
         \A e \in es : ~RateLimited(e) => Cardinality(SentToday(es)) < limit
  PROVE  Counted(es, limit)'
<1>t. tx \in [Worker -> Transaction \cup {Idle}] /\ outbound \in [Enrollment -> [Step -> OutboundRow]]
  BY Zenon DEF TypeInv, TypeOK
<1>s. ASSUME \A e \in Enrollment, s \in Step : InWindow(e, s)' => InWindow(e, s)
      PROVE  SentToday(es)' \subseteq SentToday(es)
  <2>1. SentToday(es) = {p \in es \X Step : InWindow(p[1], p[2])}
    BY Zenon DEF SentToday, InWindow
  <2>2. SentToday(es)' = {p \in es \X Step : InWindow(p[1], p[2])'}
    BY Zenon DEF SentToday, InWindow
  <2>3. \A p \in es \X Step : p[1] \in Enrollment /\ p[2] \in Step
    OBVIOUS
  <2>. QED
    BY <1>s, <2>1, <2>2, <2>3, Zenon
<1>1. ASSUME UNCHANGED tx, \A e \in Enrollment, s \in Step : InWindow(e, s)' => InWindow(e, s)
      PROVE  Counted(es, limit)'
  <2>1. Approving(es)' \subseteq Approving(es)
    BY <1>1, Zenon DEF Approving
  <2>. QED
    BY <1>1, <1>s, <2>1, CountChanges, Zenon
<1>2. ASSUME UNCHANGED outbound PROVE \A e \in Enrollment, s \in Step : InWindow(e, s)' => InWindow(e, s)
  BY <1>2, Zenon DEF InWindow
<1>3. CASE UNCHANGED vars
  BY <1>1, <1>2, <1>3, Zenon DEF vars, database
<1>4. CASE Environment
  <2>1. ASSUME NEW e \in Enrollment, NEW s \in Step, SentLeavesWindow(e, s) PROVE Counted(es, limit)'
    <3>1. \A d \in Enrollment, j \in Step : InWindow(d, j)' => InWindow(d, j)
      BY <1>t, <2>1 DEF SentLeavesWindow, InWindow, OutboundRow
    <3>. QED
      BY <1>1, <2>1, <3>1, ZenonT(60) DEF SentLeavesWindow
  <2>2. CASE UNCHANGED <<outbound, tx>>
    BY <1>1, <1>2, <2>2, Zenon
  <2>. QED
    BY <1>4, <2>1, <2>2, ZenonT(60) DEF Environment, SetSequenceStatus, CreateSequenceEnrollment,
       TargetExported, ContactChanges, StepFallsDue, CreateSuppression, InboundUnmatched, database
\* One worker moves on.
<1>5. ASSUME NEW w \in Worker, NEW x, tx' = [tx EXCEPT ![w] = x]
      PROVE  /\ \A v \in Worker : tx'[v] = IF v = w THEN x ELSE tx[v]
             /\ ~(x.op \in {"approve", "approve_sent"} /\ x.e \in es)
                  => Approving(es)' \subseteq Approving(es) \ {w}
  <2>1. \A v \in Worker : tx'[v] = IF v = w THEN x ELSE tx[v]
    BY <1>t, <1>5, Zenon
  <2>. QED
    BY <2>1, Zenon DEF Approving
<1>6. ASSUME NEW w \in Worker, Begin(w) PROVE Counted(es, limit)'
  <2>1. UNCHANGED outbound /\ tx[w] = Idle /\ (UNCHANGED tx \/ Opens(w))
    BY <1>6, BeginOpens, Zenon DEF database
  <2>2. SentToday(es)' \subseteq SentToday(es)
    BY <1>2, <1>s, <2>1, Zenon
  <2>3. CASE UNCHANGED tx
    BY <1>1, <1>2, <2>1, <2>3, Zenon
  <2>4. CASE Opens(w)
    <3>1. PICK x : /\ tx' = [tx EXCEPT ![w] = x] /\ x.op # "approve_sent"
                   /\ x.op = "approve" => Gate(x.e, x.s) = "present"
      BY <2>4, Zenon DEF Opens
    <3>2. CASE x.op = "approve" /\ x.e \in es
      <4>1. ~RateLimited(x.e)
        BY <3>1, <3>2, Zenon DEF Gate
      <4>. QED
        BY <2>2, <3>2, <4>1, CountChanges, Zenon
    <3>3. CASE ~(x.op = "approve" /\ x.e \in es)
      <4>1. Approving(es)' \subseteq Approving(es)
        BY <1>5, <3>1, <3>3, Zenon
      <4>. QED
        BY <2>2, <4>1, CountChanges, Zenon
    <3>. QED
      BY <3>2, <3>3, Zenon
  <2>. QED
    BY <2>1, <2>3, <2>4, Zenon
<1>7. ASSUME NEW w \in Worker, Finish(w) PROVE Counted(es, limit)'
  <2>1. PICK t : t = tx[w]
    BY Zenon
  <2>2. CASE /\ \A e \in Enrollment, s \in Step : InWindow(e, s)' => InWindow(e, s)
             /\ \E x : /\ tx' = [tx EXCEPT ![w] = x]
                       /\ x.op \in {"approve", "approve_sent"}
                            => t.op \in {"approve", "approve_sent"} /\ x.e = t.e
    <3>1. PICK x : /\ tx' = [tx EXCEPT ![w] = x]
                   /\ x.op \in {"approve", "approve_sent"}
                        => t.op \in {"approve", "approve_sent"} /\ x.e = t.e
      BY <2>2, Zenon
    <3>2. \A v \in Worker : tx'[v] = IF v = w THEN x ELSE tx[v]
      BY <1>5, <1>7, <3>1, ZenonT(60)
    <3>3. ASSUME NEW v \in Approving(es)' PROVE v \in Approving(es)
      <4>1. v \in Worker /\ tx'[v].op \in {"approve", "approve_sent"} /\ tx'[v].e \in es
        BY <3>3, Zenon DEF Approving
      <4>2. CASE v = w
        <5>1. x.op \in {"approve", "approve_sent"} /\ x.e \in es
          BY <3>2, <4>1, <4>2, Zenon
        <5>2. t.op \in {"approve", "approve_sent"} /\ t.e \in es
          BY <3>1, <5>1, Zenon
        <5>. QED
          BY <2>1, <4>1, <4>2, <5>2, Zenon DEF Approving
      <4>3. CASE v # w
        BY <3>2, <4>1, <4>3, Zenon DEF Approving
      <4>. QED
        BY <4>2, <4>3, Zenon
    <3>. QED
      BY <1>s, <2>2, <3>3, CountChanges, ZenonT(60)
  <2>3. CASE /\ t.op = "approve_sent" /\ tx' = [tx EXCEPT ![w] = Idle]
             /\ \A e \in Enrollment, s \in Step :
                  InWindow(e, s)' => InWindow(e, s) \/ (e = t.e /\ s = t.s)
    <3>1. Approving(es)' \subseteq Approving(es) \ {w}
      <4>1. Idle.op \notin {"approve", "approve_sent"}
        BY DEF Idle
      <4>. QED
        BY <1>5, <2>3, <4>1, Zenon
    <3>2. CASE t.e \in es
      <4>1. w \in Approving(es)
        BY <1>7, <2>1, <2>3, <3>2, Zenon DEF Approving
      <4>2. SentToday(es)' \subseteq SentToday(es) \cup {<<t.e, t.s>>}
        BY <2>3 DEF SentToday, InWindow
      <4>. QED
        BY <3>1, <4>1, <4>2, CountChanges, ZenonT(60)
    <3>3. CASE t.e \notin es
      <4>1. SentToday(es)' \subseteq SentToday(es)
        BY <2>3, <3>3 DEF SentToday, InWindow
      <4>. QED
        BY <3>1, <4>1, CountChanges, ZenonT(60)
    <3>. QED
      BY <3>2, <3>3, Zenon
  <2>. QED
    BY <1>7, <2>1, <2>2, <2>3, FinishSends, ZenonT(60)
<1>. QED
  BY <1>3, <1>4, <1>6, <1>7, Zenon DEF Next

\* The e-mails counted for the last day exceed neither the limit of the channel nor that of a
\* mail domain by more than the other handlers that passed the check with the last one
\* (policy.py:49, :53), for any limits, enrollments and handlers; with one handler at a time
\* the limits are exact.
THEOREM RateLimitHolds ==
  ASSUME IsFiniteSet(Enrollment), IsFiniteSet(Worker), Worker # {},
         DomainLimit \in Nat, ChannelLimit \in Nat
  PROVE  Spec => []RateLimitBounded
<1>w. Cardinality(Worker) \in Nat /\ Cardinality(Worker) > 0
  <2>1. Cardinality(Worker) \in Nat /\ Cardinality(Worker) # 0
    BY FS_CardinalityType, FS_EmptySet, Zenon
  <2>. QED
    BY <2>1
<1>d. \A e \in Enrollment : SameDomain(e) \in SUBSET Enrollment
  BY Zenon DEF SameDomain
<1>1. ASSUME Init PROVE RateInv
  <2>1. ASSUME NEW es \in SUBSET Enrollment, NEW limit \in Nat PROVE Counted(es, limit)
    <3>1. \A e \in Enrollment, s \in Step : outbound[e][s].status # "sent"
      BY <1>1 DEF Init, NoOutbound
    <3>2. SentToday(es) = {}
      BY <3>1 DEF SentToday
    <3>3. Approving(es) = {}
      BY <1>1 DEF Init, Approving, Idle
    <3>4. Cardinality({}) = 0
      BY FS_EmptySet, Zenon
    <3>. QED
      BY <1>w, <3>2, <3>3, <3>4 DEF Counted
  <2>. QED
    BY <1>d, <2>1, Zenon DEF RateInv
<1>2. ASSUME TypeInv, RateInv, [Next]_vars PROVE RateInv'
  <2>1. Counted(Enrollment, ChannelLimit)'
    <3>1. \A e \in Enrollment : ~RateLimited(e) => Cardinality(SentToday(Enrollment)) < ChannelLimit
      <4>1. Enrollment \in SUBSET Enrollment /\ Cardinality(SentToday(Enrollment)) \in Nat
        BY CountsAreFinite, Zenon
      <4>. QED
        BY <4>1 DEF RateLimited
    <3>. QED
      BY <1>2, <3>1, CountStep, Zenon DEF RateInv
  <2>2. ASSUME NEW e \in Enrollment PROVE Counted(SameDomain(e), DomainLimit)'
    <3>1. ASSUME NEW d \in SameDomain(e), ~RateLimited(d)
          PROVE  Cardinality(SentToday(SameDomain(e))) < DomainLimit
      <4>1. SameDomain(e) = {x \in Enrollment : Domain[x] = Domain[d]}
        BY <3>1, Zenon DEF SameDomain
      <4>2. Cardinality(SentToday(SameDomain(e))) \in Nat
        BY <1>d, CountsAreFinite, Zenon
      <4>3. ~(Cardinality(SentToday(SameDomain(e))) >= DomainLimit)
        BY <3>1, <4>1, Zenon DEF RateLimited
      <4>. QED
        BY <4>2, <4>3
    <3>2. PICK es \in SUBSET Enrollment : es = SameDomain(e)
      BY <1>d, Zenon
    <3>3. Counted(es, DomainLimit)
      BY <1>2, <3>2, Zenon DEF RateInv
    <3>4. Counted(es, DomainLimit)'
      BY <1>2, <3>1, <3>2, <3>3, CountStep, Zenon
    <3>. QED
      BY <3>2, <3>4, Zenon
  <2>3. \A e : SameDomain(e)' = SameDomain(e)
    BY Zenon DEF SameDomain
  <2>. QED
    BY <2>1, <2>2, <2>3, Zenon DEF RateInv
<1>3. ASSUME RateInv PROVE RateLimitBounded
  <2>1. ASSUME NEW es \in SUBSET Enrollment, NEW limit \in Nat, Counted(es, limit)
        PROVE  Cardinality(SentToday(es)) <= limit + (Cardinality(Worker) - 1)
    <3>1. Cardinality(SentToday(es)) \in Nat /\ Cardinality(Approving(es)) \in Nat
      BY CountsAreFinite, Zenon
    <3>. QED
      BY <1>w, <2>1, <3>1 DEF Counted
  <2>. QED
    BY <1>3, <1>d, <2>1, Zenon DEF RateInv, RateLimitBounded, SameDomain
<1>. QED
  BY <1>1, <1>2, <1>3, TypeInit, TypeStep, PTL DEF Spec
=============================================================================
