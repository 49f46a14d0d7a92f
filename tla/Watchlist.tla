----------------------------- MODULE Watchlist ------------------------------
(***************************************************************************)
(* The watchlist (services/incident_intelligence/watchlist_repository.py   *)
(* and watchlists.py): the beat starts a monitoring pass every interval,   *)
(* which takes a batch of due companies, searches news for each and        *)
(* schedules the next time; operators pause and resume targets.  A pass is *)
(* one transaction that flushes, and so locks, one row after the other.    *)
(*                                                                         *)
(* Versions are left out: an operator names the version last shown, and a  *)
(* request with another one changes nothing.  So is the text of searches.  *)
(***************************************************************************)
EXTENDS Rows, Naturals, Sequences, FiniteSets, TLC

LOCAL INSTANCE SequencesExt

CONSTANTS
  WatchKey,       \* watch_targets, by type and key
  Companies,    \* the targets of type company: only they are monitored
  Pass,         \* workers on the watch-monitor queue
  Operator,     \* concurrently running requests
  SearchOutcome,  \* statuses of a search: completed or not_configured, and failed
  PassSize,        \* targets one pass takes (100)
  MaxPatches,   \* bound: requests that pause or resume
  MaxDeaths     \* bound: transactions whose process dies

ASSUME WatchlistAssumption ==
  /\ Companies \subseteq WatchKey
  /\ SearchOutcome \subseteq {"completed", "not_configured", "failed"}
  /\ PassSize \in Nat \ {0}
  /\ MaxPatches \in Nat
  /\ MaxDeaths \in Nat

VARIABLES
  watch,        \* watch_targets
  dueQueue,     \* the targets whose next_monitoring_at has passed, by that time
  patches,      \* counts requests, up to MaxPatches
  deaths,       \* counts deaths, up to MaxDeaths
  mingled,      \* history: two transactions have been open at the same time
  wtx           \* the transaction of each pass and operator

wvars == <<watch, dueQueue, patches, deaths, mingled, wtx>>

Actor == Pass \cup Operator
-----------------------------------------------------------------------------
(* Rows *)

MonitoringStatus ==
  {"queued", "not_required", "paused", "completed", "not_configured", "failed"}

\* next: no time, a time that has passed, or one to come
WatchTarget == [enabled : BOOLEAN, status : MonitoringStatus, next : {"null", "due", "later"}]
Unwatched == [enabled |-> FALSE, status |-> "none", next |-> "null"]
Free == [op |-> "idle"]

QueuedTargets == {dueQueue[n] : n \in 1..Len(dueQueue)}

\* Rows have their type, and the queue holds the targets that are due, each once.
WatchTypeOK ==
  /\ watch \in [WatchKey -> WatchTarget \cup {Unwatched}]
  /\ QueuedTargets = {t \in WatchKey : watch[t].next = "due"}
  /\ Len(dueQueue) = Cardinality(QueuedTargets)

WatchInit ==
  /\ watch = [t \in WatchKey |-> Unwatched]
  /\ dueQueue = <<>>
  /\ patches = 0
  /\ deaths = 0
  /\ mingled = FALSE
  /\ wtx = [w \in Actor |-> Free]

Without(q, t) == SelectSeq(q, LAMBDA u : u # t)

\* The queue once t has the time next, "now" being the latest of the times that passed.
Requeued(q, t, next) ==
  CASE next = "due" -> q
    [] next = "now" -> Append(Without(q, t), t)
    [] OTHER -> Without(q, t)
Landed(row) == IF row.next = "now" THEN [row EXCEPT !.next = "due"] ELSE row

\* A row that a pass has flushed is locked until the pass ends.
Locked(w, t) == \E v \in Pass \ {w} : wtx[v].op = "pass" /\ t \in DOMAIN wtx[v].flushed

Starts(w, tx) ==
  /\ wtx[w] = Free
  /\ wtx' = [wtx EXCEPT ![w] = tx]
  /\ mingled' = (mingled \/ \E v \in Actor : wtx[v] # Free)
Ends(w) == wtx' = [wtx EXCEPT ![w] = Free] /\ UNCHANGED mingled
-----------------------------------------------------------------------------
(* create_watch_target and patch_watch_target *)

CreateWatchTarget(t) ==
  /\ watch[t] = Unwatched
  /\ watch' = [watch EXCEPT ![t] =
       IF t \in Companies THEN [enabled |-> TRUE, status |-> "queued", next |-> "due"]
                          ELSE [enabled |-> TRUE, status |-> "not_required", next |-> "null"]]
  /\ dueQueue' = IF t \in Companies THEN Append(dueQueue, t) ELSE dueQueue
  /\ UNCHANGED <<patches, deaths, mingled, wtx>>

Patched(t, row, enabled) ==
  CASE enabled /\ t \in Companies -> [enabled |-> TRUE, status |-> "queued", next |-> "now"]
    [] enabled /\ t \notin Companies -> [row EXCEPT !.enabled = TRUE]
    [] ~enabled -> [enabled |-> FALSE, status |-> "paused", next |-> "null"]

PatchRead(w, t, enabled) ==
  /\ patches < MaxPatches
  /\ watch[t] # Unwatched
  /\ Starts(w, [op |-> "patch", t |-> t, seen |-> watch[t],
                mine |-> Patched(t, watch[t], enabled)])
  /\ patches' = patches + 1
  /\ UNCHANGED <<watch, dueQueue, deaths>>

PatchCommit(w) ==
  LET tx == wtx[w]
      row == Merge(tx.seen, tx.mine, watch[tx.t])
  IN /\ tx.op = "patch"
     /\ ~Locked(w, tx.t)
     /\ watch' = [watch EXCEPT ![tx.t] = Landed(row)]
     /\ dueQueue' = Requeued(dueQueue, tx.t, row.next)
     /\ Ends(w)
     /\ UNCHANGED <<patches, deaths>>
-----------------------------------------------------------------------------
(* monitor_watch_targets *)

Due(t) == t \in Companies /\ watch[t].enabled
FirstOf(n, list) == SubSeq(list, 1, IF Len(list) < n THEN Len(list) ELSE n)

\* Mutant of ListDueMonitoringTargets: in the order of their ids.
ListDueById == FirstOf(PassSize, SetToSeq({t \in WatchKey : Due(t) /\ watch[t].next # "later"}))

\* list_due_monitoring_targets: the ones without a time, then by their time.
ListDueMonitoringTargets ==
  FirstOf(PassSize, SetToSeq({t \in WatchKey : Due(t) /\ watch[t].next = "null"})
                   \o SelectSeq(dueQueue, Due))

PassRead(w) ==
  LET due == ListDueMonitoringTargets
  IN /\ due # <<>>
     /\ Starts(w, [op |-> "pass", todo |-> due, flushed |-> <<>>,
                   seen |-> [t \in {due[n] : n \in 1..Len(due)} |-> watch[t]]])
     /\ UNCHANGED <<watch, dueQueue, patches, deaths>>

\* monitor_watch_target or, when the search fails, record_monitoring_failure.
MonitorTarget(w, status) ==
  LET tx == wtx[w]
      t == Head(tx.todo)
  IN /\ tx.op = "pass"
     /\ tx.todo # <<>>
     /\ ~Locked(w, t)
     /\ wtx' = [wtx EXCEPT ![w] =
          [tx EXCEPT !.todo = Tail(@),
                     !.flushed = @ @@ (t :> [tx.seen[t] EXCEPT !.status = status,
                                                               !.next = "later"])]]
     /\ UNCHANGED <<watch, dueQueue, patches, deaths, mingled>>

PassCommit(w) ==
  LET tx == wtx[w]
  IN /\ tx.op = "pass"
     /\ tx.todo = <<>>
     /\ watch' = [t \in WatchKey |->
          IF t \in DOMAIN tx.flushed THEN Merge(tx.seen[t], tx.flushed[t], watch[t])
                                     ELSE watch[t]]
     /\ dueQueue' = SelectSeq(dueQueue, LAMBDA t : t \notin DOMAIN tx.flushed)
     /\ Ends(w)
     /\ UNCHANGED <<patches, deaths>>

\* Two passes wait for a row of each other: the database fails one of them.
DeadlockFails(w) ==
  /\ wtx[w].op = "pass"
  /\ wtx[w].todo # <<>>
  /\ \E v \in Pass \ {w} :
       /\ wtx[v].op = "pass"
       /\ Head(wtx[w].todo) \in DOMAIN wtx[v].flushed
       /\ wtx[v].todo # <<>>
       /\ Head(wtx[v].todo) \in DOMAIN wtx[w].flushed
  /\ Ends(w)
  /\ UNCHANGED <<watch, dueQueue, patches, deaths>>

\* A process dies; the queue hands the pass to a worker again, or the next one follows.
MonitorDies(w) ==
  /\ deaths < MaxDeaths
  /\ wtx[w] # Free
  /\ deaths' = deaths + 1
  /\ Ends(w)
  /\ UNCHANGED <<watch, dueQueue, patches>>

\* The clock passes the time of the next monitoring.
BecomesDue(t) ==
  /\ watch[t].next = "later"
  /\ watch' = [watch EXCEPT ![t].next = "due"]
  /\ dueQueue' = Append(dueQueue, t)
  /\ UNCHANGED <<patches, deaths, mingled, wtx>>
-----------------------------------------------------------------------------
(* The routes and the task of the beat *)

intelligence_create_watch_target == \E t \in WatchKey : CreateWatchTarget(t)
intelligence_patch_watch_target(w) == \E t \in WatchKey, enabled \in BOOLEAN : PatchRead(w, t, enabled)
monitor_watch_targets_task(w) ==
  \/ PassRead(w)
  \/ \E status \in SearchOutcome : MonitorTarget(w, status)
  \/ PassCommit(w)
  \/ DeadlockFails(w)

WatchNext ==
  \/ \E w \in Pass :
       \/ PassRead(w) \/ PassCommit(w) \/ DeadlockFails(w)
       \/ \E status \in SearchOutcome : MonitorTarget(w, status)
  \/ \E w \in Operator : intelligence_patch_watch_target(w) \/ PatchCommit(w)
  \/ \E w \in Actor : MonitorDies(w)
  \/ intelligence_create_watch_target
  \/ \E t \in WatchKey : BecomesDue(t)

WatchSpec == WatchInit /\ [][WatchNext]_wvars

\* The beat starts passes for ever, and workers and the database finish what they began.
WatchFairness ==
  /\ \A w \in Pass : WF_wvars(monitor_watch_targets_task(w))
  /\ \A w \in Operator : WF_wvars(PatchCommit(w))
-----------------------------------------------------------------------------
(* Properties *)

(***************************************************************************)
(* A paused target has no time of a next monitoring, and an active company *)
(* has one, as long as no pass and no request overlapped with another.     *)
(***************************************************************************)
PausedIsUnscheduled ==
  ~mingled => \A t \in WatchKey : watch[t] # Unwatched =>
    /\ ~watch[t].enabled => watch[t].status = "paused" /\ watch[t].next = "null"
    /\ watch[t].enabled /\ t \in Companies => watch[t].next # "null"

(***************************************************************************)
(* A company that is due gets its turn or is paused, however passes and    *)
(* requests overlap, wait for each other's rows, deadlock or die, and      *)
(* although a pass takes only a batch.                                     *)
(***************************************************************************)
DueIsMonitored ==
  \A t \in Companies :
    (watch[t].enabled /\ watch[t].next # "later")
      ~> (watch[t].next = "later" \/ ~watch[t].enabled)
=============================================================================
