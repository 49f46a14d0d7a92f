------------------------------- MODULE Alerts -------------------------------
(***************************************************************************)
(* E-mail alerts about an enrollment (services/sequencing/alerts.py).  An  *)
(* operator creates one; a pass reads the due ones, hands each to SMTP and *)
(* records all of them in the one transaction it began with.               *)
(***************************************************************************)
EXTENDS Naturals, FiniteSets

CONSTANTS
  Alert,         \* numbered in the order of send_at and id
  Sender,        \* passes that may be under way at once
  AlertLimit,    \* how many alerts a pass takes
  MaxMailed      \* bound on the copies of an alert SMTP accepts

ASSUME AlertsAssumption == Alert \subseteq Nat /\ {AlertLimit, MaxMailed} \subseteq Nat

VARIABLES
  alerts,        \* the rows
  passes,        \* each pass: the alerts left to send, those it sent and those that failed
  mailed,        \* history: copies that SMTP accepted
  cut            \* history: alerts a lost or an overlapping pass had in its hands

avars == <<alerts, passes, mailed, cut>>

\* "later" is a pending alert whose send_at is still to come.
SequenceEmailAlert == {"absent", "later", "pending", "sent", "failed_retryable"}

Resting == [todo |-> {}, sent |-> {}, failed |-> {}]
Busy(s) == passes[s] # Resting
InHand(s) == passes[s].todo \cup passes[s].sent \cup passes[s].failed

AlertsInit ==
  /\ alerts = [a \in Alert |-> "absent"]
  /\ passes = [s \in Sender |-> Resting]
  /\ mailed = [a \in Alert |-> 0]
  /\ cut = {}

create_sequence_email_alert(a) ==
  /\ alerts[a] = "absent"
  /\ \E status \in {"later", "pending"} : alerts' = [alerts EXCEPT ![a] = status]
  /\ UNCHANGED <<passes, mailed, cut>>

AlertFallsDue(a) ==
  /\ alerts[a] = "later"
  /\ alerts' = [alerts EXCEPT ![a] = "pending"]
  /\ UNCHANGED <<passes, mailed, cut>>

\* The query: pending, due, the first ones up to the limit
DueAlerts ==
  LET due == {a \in Alert : alerts[a] = "pending"}
  IN {a \in due : Cardinality({b \in due : b < a}) < AlertLimit}

process_due_sequence_email_alerts(s) ==
  /\ ~Busy(s)
  /\ DueAlerts # {}
  /\ passes' = [passes EXCEPT ![s] = [todo |-> DueAlerts, sent |-> {}, failed |-> {}]]
  /\ cut' = cut \cup (DueAlerts \cap UNION {InHand(o) : o \in Sender})
  /\ UNCHANGED <<alerts, mailed>>

\* The alert the loop of s has come to
Turn(s) == {a \in passes[s].todo : \A b \in passes[s].todo : a <= b}

MailGoesOut(a) ==
  /\ mailed[a] < MaxMailed
  /\ mailed' = [mailed EXCEPT ![a] = @ + 1]

AlertMailed(s) ==
  \E a \in Turn(s) :
    /\ MailGoesOut(a)
    /\ passes' = [passes EXCEPT ![s] = [todo |-> @.todo \ {a}, sent |-> @.sent \cup {a},
                                       failed |-> @.failed]]
    /\ UNCHANGED <<alerts, cut>>

\* send raises, before SMTP has taken the mail or after it
AlertFails(s) ==
  \E a \in Turn(s) :
    /\ MailGoesOut(a) \/ UNCHANGED mailed
    /\ passes' = [passes EXCEPT ![s] = [todo |-> @.todo \ {a}, sent |-> @.sent,
                                       failed |-> @.failed \cup {a}]]
    /\ UNCHANGED <<alerts, cut>>

\* Mutant: only the failures are recorded.
AlertRecordedFailures(s) ==
  [a \in Alert |-> IF a \in passes[s].failed THEN "failed_retryable" ELSE alerts[a]]

AlertRecorded(s) ==
  [a \in Alert |-> IF a \in passes[s].sent THEN "sent"
                   ELSE IF a \in passes[s].failed THEN "failed_retryable" ELSE alerts[a]]

AlertsCommit(s) ==
  /\ Busy(s)
  /\ passes[s].todo = {}
  /\ alerts' = AlertRecorded(s)
  /\ passes' = [passes EXCEPT ![s] = Resting]
  /\ UNCHANGED <<mailed, cut>>

\* The worker or its connection is lost, at the latest in the commit: nothing is recorded.
AlertsLost(s) ==
  /\ Busy(s)
  /\ cut' = cut \cup InHand(s)
  /\ passes' = [passes EXCEPT ![s] = Resting]
  /\ UNCHANGED <<alerts, mailed>>

AlertsNext ==
  \/ \E a \in Alert : create_sequence_email_alert(a) \/ AlertFallsDue(a)
  \/ \E s \in Sender :
       \/ process_due_sequence_email_alerts(s)
       \/ AlertMailed(s) \/ AlertFails(s) \/ AlertsCommit(s) \/ AlertsLost(s)

AlertsSpec == AlertsInit /\ [][AlertsNext]_avars
-----------------------------------------------------------------------------
\* Nobody gets an alert twice while passes neither overlap on it nor are lost with it: every
\* copy SMTP took is recorded by the commit of its own pass (alerts.py:80).
MailedTwiceWasCut == \A a \in Alert : mailed[a] > 1 => a \in cut

\* What SMTP has taken, and what the table shows as sent.
Smtp == INSTANCE OutsideEffects WITH
          Effect <- Alert,
          performed <- {a \in Alert : mailed[a] > 0},
          claimed <- {a \in Alert : alerts[a] = "sent"}

\* The passes implement a call followed by a claim, whatever is lost or overlaps: an alert
\* that the table shows as sent was accepted by SMTP (alerts.py:79-97).
AlertsCallThenClaim == Smtp!Spec
=============================================================================
