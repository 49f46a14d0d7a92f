---------------------------- MODULE TaskDelivery ----------------------------
(***************************************************************************)
(* Signed Celery tasks (security/tasks.py, worker_runtime.py).  A task is  *)
(* published with a token bound to it; before it starts, a worker of a     *)
(* strict runtime verifies the token and sets a replay marker in Redis     *)
(* that lives until the token expires.  Messages are acknowledged when the *)
(* task has returned, so the message of a worker that is lost comes back.  *)
(* The beat publishes with no token.  One unit of time is 15 seconds.      *)
(***************************************************************************)
EXTENDS Tokens, FiniteSets

CONSTANTS
  Message,
  Lifetime,     \* of a task token, 45 seconds
  Skew,         \* clock_skew_seconds, 30
  Drift,        \* bound: how far the clock of a publisher is off
  MaxClock,     \* bound: the clock
  MaxLosses     \* bound: workers lost

ASSUME DeliveryAssumption ==
  {Lifetime, Skew, Drift, MaxClock, MaxLosses} \subseteq Nat

VARIABLES
  strict,       \* strict_runtime
  messages,     \* what is on the queues, by message
  markers,      \* the replay markers: when each expires, empty where there is none
  time,
  losses

dvars == <<strict, messages, markers, time, losses>>

Unpublished == [status |-> "unpublished"]

DeliveryInit ==
  /\ strict \in BOOLEAN
  /\ messages = [m \in Message |-> Unpublished]
  /\ markers = [m \in Message |-> {}]
  /\ time = Drift
  /\ losses = 0

TimePasses ==
  /\ time < MaxClock
  /\ time' = time + 1
  /\ UNCHANGED <<strict, messages, markers, losses>>

\* tokens: the tokens in the header of the message, one or none
Queued(tokens) ==
  [status |-> "queued", tokens |-> tokens, starts |-> 0, early |-> 0, refusedAt |-> {}]

\* signed_task_headers: the queue is the one of the task, the identifier is new
PublishSigned(m) ==
  /\ messages[m] = Unpublished
  /\ \E d \in (0 - Drift)..Drift :
       messages' = [messages EXCEPT ![m] =
         Queued({Signed("ghostrecon-task+jwt", "publisher", "kid", "queue", m, time + d,
                        Lifetime, m)})]
  /\ UNCHANGED <<strict, markers, time, losses>>

\* beat_schedule: the entry names its queue and no headers
PublishScheduled(m) ==
  /\ messages[m] = Unpublished
  /\ messages' = [messages EXCEPT ![m] = Queued({})]
  /\ UNCHANGED <<strict, markers, time, losses>>

Marked(m) == \E t \in markers[m] : t > time

Verifies(m) ==
  \E t \in messages[m].tokens :
    /\ verify_eddsa(t, {"kid"}, "ghostrecon-task+jwt", "publisher", "queue", Lifetime, Skew, time)
    /\ t.binding = m

\* Mutant: markers are set whether there is one or not.
AcceptsReplay(m) == Verifies(m)

Accepts(m) == Verifies(m) /\ ~Marked(m)

Started(m) ==
  [messages[m] EXCEPT !.status = "running", !.starts = @ + 1,
     !.early = IF \E t \in messages[m].tokens : time < t.exp THEN @ + 1 ELSE @]

\* SignedTask.before_start; a task that is refused fails and its message is acknowledged.
before_start(m) ==
  /\ messages[m].status = "queued"
  /\ \/ /\ ~strict
        /\ messages' = [messages EXCEPT ![m] = Started(m)]
        /\ UNCHANGED markers
     \/ /\ strict
        /\ Accepts(m)
        /\ messages' = [messages EXCEPT ![m] = Started(m)]
        /\ markers' = [markers EXCEPT ![m] =
             {time + MarkerLifetime(t, time) : t \in messages[m].tokens}]
     \/ /\ strict
        /\ ~Accepts(m)
        /\ messages' = [messages EXCEPT ![m].status = "refused", ![m].refusedAt = {time}]
        /\ UNCHANGED markers
  /\ UNCHANGED <<strict, time, losses>>

\* The task returns or raises; after_return resets the context and the message is acknowledged.
after_return(m) ==
  /\ messages[m].status = "running"
  /\ messages' = [messages EXCEPT ![m].status = "returned"]
  /\ UNCHANGED <<strict, markers, time, losses>>

\* task_acks_late and task_reject_on_worker_lost: the message is delivered again.
WorkerLost(m) ==
  /\ messages[m].status = "running"
  /\ losses < MaxLosses
  /\ losses' = losses + 1
  /\ messages' = [messages EXCEPT ![m].status = "queued"]
  /\ UNCHANGED <<strict, markers, time>>

DeliveryNext ==
  \/ TimePasses
  \/ \E m \in Message :
       \/ PublishSigned(m)
       \/ PublishScheduled(m)
       \/ before_start(m)
       \/ after_return(m)
       \/ WorkerLost(m)

DeliverySpec == DeliveryInit /\ [][DeliveryNext]_dvars
-----------------------------------------------------------------------------
\* Messages have their type, and a strict runtime runs nothing that it has no marker of.
DeliveryTypeOK ==
  /\ strict \in BOOLEAN
  /\ time \in 0..MaxClock
  /\ losses \in 0..MaxLosses
  /\ \A m \in Message :
       /\ messages[m].status \in {"unpublished", "queued", "running", "refused", "returned"}
       /\ strict /\ messages[m].status = "running" => markers[m] # {}

\* Until its token expires a task is started once at most, however often its message is
\* delivered (tasks.py:138).
RunsOnceWhileValid ==
  strict => \A m \in Message : messages[m] # Unpublished => messages[m].early <= 1

\* A signed task that never ran is refused for its age alone: not for clocks that differ by no
\* more than the tolerance, and not for a marker (tasks.py:111-139).
RefusedForItsAge ==
  \A m \in Message : messages[m].status = "refused" /\ messages[m].starts = 0 =>
    \A t \in messages[m].tokens, at \in messages[m].refusedAt : at >= t.exp + Skew
=============================================================================
