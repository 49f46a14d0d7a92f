----------------------------- MODULE CrmExport ------------------------------
(***************************************************************************)
(* Export of approved CRM targets to the CRM provider                      *)
(* (services/crm_exports): a batch of targets is started, processed item   *)
(* by item against the provider, and its failed items can be retried.      *)
(*                                                                         *)
(* A request is several transactions.  start_crm_export and                *)
(* retry_failed_crm_export_items commit one of their own and then call     *)
(* process_crm_export_batch, which reads the batch in a second one, calls  *)
(* the provider once per pending item and commits everything at the end.   *)
(* An exception that the loop does not catch rolls the second one back,    *)
(* but not what the provider has been told.  Nothing is locked: a commit   *)
(* writes the columns that differ from the rows as the transaction read    *)
(* them.                                                                   *)
(***************************************************************************)
EXTENDS FiniteSets, Functions

CONSTANTS
  Target,        \* crm_targets rows
  Batch,         \* crm_export_batches rows, named by their idempotency key
  Worker,        \* concurrently running requests and Celery tasks
  Unplannable,   \* targets whose record is missing or of an unsupported type
  Changing,      \* targets whose record may start or stop to satisfy policy
  MayAbort,      \* may a request die between or inside its transactions?
  MayTimeOut,    \* may a call to the provider end in a transport error?
  EditStatus,    \* statuses operators give a target
  EditExport,    \* export statuses operators give a target
  MaxAttempts    \* bound: attempts of an item before it is no longer retried

ASSUME ExportAssumption ==
  /\ Unplannable \subseteq Target
  /\ Changing \subseteq Target
  /\ MayAbort \in BOOLEAN
  /\ MayTimeOut \in BOOLEAN
  /\ MaxAttempts \in Nat

VARIABLES
  target,    \* crm_targets: status and export_status
  allowed,   \* targets _plan_for_target does not skip for policy reasons
  batch,     \* crm_export_batches: status, is completed_at set?
  item,      \* crm_export_items of each batch: status, attempt_count
  outbox,    \* idempotency keys in outbox_events
  crm,       \* what the provider holds of each target
  tx         \* the transaction each worker is in

vars == <<target, allowed, batch, item, outbox, crm, tx>>
-----------------------------------------------------------------------------
(* Rows *)

TargetStatus == {"pending_export", "invalidated", "exported"}
SUCCESS_ITEM_STATUSES == {"succeeded"}
FAILED_ITEM_STATUSES == {"failed_retryable", "failed_terminal", "skipped_policy"}
ItemStatus == {"none", "pending"} \cup SUCCESS_ITEM_STATUSES \cup FAILED_ITEM_STATUSES
BatchStatus == {"none", "running", "succeeded", "failed", "partial"}
ExportStatus == {"not_exported", "exported"} \cup FAILED_ITEM_STATUSES

ASSUME EditAssumption == EditStatus \subseteq TargetStatus /\ EditExport \subseteq ExportStatus

EXPORTABLE_TARGET_STATUS == "pending_export"
EXPORTABLE_EXPORT_STATUSES == {"not_exported", "failed_retryable"}

TargetRow == [status : TargetStatus, export : ExportStatus]
ItemRow == [status : ItemStatus, attempts : Nat]
BatchRow == [status : BatchStatus, completed : BOOLEAN]

CrmTarget(status, export) == [status |-> status, export |-> export]
CrmExportItem(status, attempts) == [status |-> status, attempts |-> attempts]
CrmExportBatch(status, completed) == [status |-> status, completed |-> completed]

NewTarget == CrmTarget("pending_export", "not_exported")
NoItem == CrmExportItem("none", 0)
NoBatch == CrmExportBatch("none", FALSE)

\* Outbox keys "crm_export.item_succeeded:<item>:<attempt>", "...item_failed:...".
ItemKey == {"item_succeeded", "item_failed"} \X Batch \X Target \X Nat
\* Outbox keys "crm_export.batch_completed:<batch>:<attempts of all its items>".
BatchKey == {"batch_completed"} \X Batch \X Nat

\* What the provider holds: no record, the record, the record and its list entry.
Provider == {"absent", "record", "listed"}

(***************************************************************************)
(* A running request.  "begin" is between its two transactions.  "retry"   *)
(* and "process" have read a batch: row and items are the copies they work *)
(* on, done the items they have changed, and seen the targets of those     *)
(* items as process read them.                                             *)
(***************************************************************************)
Transaction(op, b, row, items, seen, done) ==
  [op |-> op, batch |-> b, row |-> row, item |-> items, seen |-> seen, done |-> done]
NoItems == [t \in Target |-> NoItem]
NewTargets == [t \in Target |-> NewTarget]
Begin(b) == Transaction("begin", b, NoBatch, NoItems, NewTargets, {})

Tx == [op : {"begin", "retry", "process"}, batch : Batch, row : BatchRow,
       item : [Target -> ItemRow], seen : [Target -> TargetRow], done : SUBSET Target]
Idle == [op |-> "idle"]

\* Types of the tables but the outbox, of the provider and of the running requests.
RowsOK ==
  /\ target \in [Target -> TargetRow]
  /\ allowed \subseteq Target
  /\ batch \in [Batch -> BatchRow]
  /\ item \in [Batch -> [Target -> ItemRow]]
  /\ crm \in [Target -> Provider]
  /\ tx \in [Worker -> Tx \cup {Idle}]

\* Every row, key and running request has its type: no request commits an item that is
\* still "running" or a batch status the API does not know.
TypeOK == RowsOK /\ outbox \subseteq ItemKey \cup BatchKey

Init ==
  /\ target = [t \in Target |-> NewTarget]
  /\ allowed = Target
  /\ batch = [b \in Batch |-> NoBatch]
  /\ item = [b \in Batch |-> NoItems]
  /\ outbox = {}
  /\ crm = [t \in Target |-> "absent"]
  /\ tx = [w \in Worker |-> Idle]
-----------------------------------------------------------------------------
(* Starting a batch *)

\* _require_exportable_targets
Exportable(t) ==
  /\ target[t].status = EXPORTABLE_TARGET_STATUS
  /\ target[t].export \in EXPORTABLE_EXPORT_STATUSES

(***************************************************************************)
(* start_crm_export: the batch and one pending item per target; the        *)
(* request then goes on to process the batch.  A second start under the    *)
(* same key returns the existing batch and changes nothing.  _create_item  *)
(* accepts a target that cannot be planned.                                *)
(***************************************************************************)
StartCrmExport(w, b, ts) ==
  /\ tx[w] = Idle
  /\ batch[b] = NoBatch
  /\ ts # {}
  /\ \A t \in ts : Exportable(t)
  /\ batch' = [batch EXCEPT ![b] = CrmExportBatch("running", FALSE)]
  /\ item' = [item EXCEPT ![b] =
                [t \in Target |-> IF t \in ts THEN CrmExportItem("pending", 0) ELSE NoItem]]
  /\ tx' = [tx EXCEPT ![w] = Begin(b)]
  /\ UNCHANGED <<target, allowed, outbox, crm>>

\* The Celery task ghostrecon.process_crm_export_batch.
ProcessTask(w, b) ==
  /\ tx[w] = Idle
  /\ batch[b] # NoBatch
  /\ tx' = [tx EXCEPT ![w] = Begin(b)]
  /\ UNCHANGED <<target, allowed, batch, item, outbox, crm>>
-----------------------------------------------------------------------------
(* Retrying failed items *)

\* Value of a column after an UPDATE by a transaction that read old and holds new.
Written(old, new, now) == IF old = new THEN now ELSE new

\* Mutant of Retryable: the items that are named, whatever became of them.
RetryableNamed(b, ids) ==
  {t \in Target : IF ids = {} THEN item[b][t].status = "failed_retryable"
                             ELSE t \in ids /\ item[b][t].status # "none"}

\* The items a retry that names ids selects; naming none selects all.
Retryable(b, ids) ==
  {t \in Target : item[b][t].status = "failed_retryable" /\ (ids = {} \/ t \in ids)}

\* retry_failed_crm_export_items reads the batch.  Its idempotency key is not used.
RetryRead(w, b, ids) ==
  LET retryable == Retryable(b, ids)
  IN /\ tx[w] = Idle
     /\ retryable # {}
     /\ \A t \in retryable : item[b][t].attempts < MaxAttempts
     /\ tx' = [tx EXCEPT ![w] =
                 Transaction("retry", b, batch[b], item[b], NewTargets, retryable)]
     /\ UNCHANGED <<target, allowed, batch, item, outbox, crm>>

\* Mutant of RetryCommit: completed_at is kept.
RetryCommitStillCompleted(w) ==
  LET b == tx[w].batch
  IN /\ tx[w].op = "retry"
     /\ item' = [item EXCEPT ![b] =
                   [t \in Target |-> IF t \in tx[w].done
                                       THEN CrmExportItem("pending", item[b][t].attempts)
                                       ELSE item[b][t]]]
     /\ batch' = [batch EXCEPT ![b] =
                    CrmExportBatch(
                      Written(tx[w].row.status, "running", batch[b].status),
                      batch[b].completed)]
     /\ tx' = [tx EXCEPT ![w] = Begin(b)]
     /\ UNCHANGED <<target, allowed, outbox, crm>>

\* ... and commits: the selected items are pending again, the batch is running.
RetryCommit(w) ==
  LET b == tx[w].batch
  IN /\ tx[w].op = "retry"
     /\ item' = [item EXCEPT ![b] =
                   [t \in Target |-> IF t \in tx[w].done
                                       THEN CrmExportItem("pending", item[b][t].attempts)
                                       ELSE item[b][t]]]
     /\ batch' = [batch EXCEPT ![b] =
                    CrmExportBatch(
                      Written(tx[w].row.status, "running", batch[b].status),
                      Written(tx[w].row.completed, FALSE, batch[b].completed))]
     /\ tx' = [tx EXCEPT ![w] = Begin(b)]
     /\ UNCHANGED <<target, allowed, outbox, crm>>
-----------------------------------------------------------------------------
(* Processing a batch *)

\* The transaction is rolled back and the request ends with an error.
Rollback(w) ==
  /\ tx' = [tx EXCEPT ![w] = Idle]
  /\ UNCHANGED <<target, allowed, batch, item, outbox>>

PendingOf(items) == {t \in Target : items[t].status = "pending"}

\* Mutant of ProcessRead: a running batch is taken to be in other hands.
ProcessReadOthers(w) ==
  LET b == tx[w].batch
  IN /\ tx[w].op = "begin"
     /\ \/ /\ batch[b].status = "running"
           /\ tx' = [tx EXCEPT ![w] = Idle]
        \/ /\ batch[b].status # "running"
           /\ tx' = [tx EXCEPT ![w] =
                       Transaction("process", b, batch[b], item[b], NewTargets, {})]
     /\ UNCHANGED <<target, allowed, batch, item, outbox, crm>>

\* process_crm_export_batch reads the batch; one with nothing to do is returned.
ProcessRead(w) ==
  LET b == tx[w].batch
  IN /\ tx[w].op = "begin"
     /\ \/ /\ batch[b].completed
           /\ PendingOf(item[b]) = {}
           /\ tx' = [tx EXCEPT ![w] = Idle]
        \/ /\ ~batch[b].completed \/ PendingOf(item[b]) # {}
           /\ tx' = [tx EXCEPT ![w] =
                       Transaction("process", b, batch[b], item[b], NewTargets, {})]
     /\ UNCHANGED <<target, allowed, batch, item, outbox, crm>>

\* The loop has dealt with the item of t: one more attempt, with this status.
Attempted(w, t, status) ==
  tx' = [tx EXCEPT ![w] =
           Transaction("process", tx[w].batch, tx[w].row,
                       [tx[w].item EXCEPT ![t] =
                          CrmExportItem(status, tx[w].item[t].attempts + 1)],
                       [tx[w].seen EXCEPT ![t] = target[t]],
                       tx[w].done \cup {t})]

\* Mutant of ExportSucceeds: the list entry is left out.
ExportSucceedsUnlisted(w, t) ==
  /\ crm' = [crm EXCEPT ![t] = IF crm[t] = "absent" THEN "record" ELSE crm[t]]
  /\ Attempted(w, t, "succeeded")
  /\ UNCHANGED <<target, allowed, batch, item, outbox>>

\* _upsert_plan returns: the record and the list entry are there.
ExportSucceeds(w, t) ==
  /\ crm' = [crm EXCEPT ![t] = "listed"]
  /\ Attempted(w, t, "succeeded")
  /\ UNCHANGED <<target, allowed, batch, item, outbox>>

\* CrmProviderError (429, 4xx, 5xx, no record id) from the first or the second call.
ExportFails(w, t) ==
  /\ \/ crm' = crm
     \/ crm[t] = "absent" /\ crm' = [crm EXCEPT ![t] = "record"]
  /\ \E status \in {"failed_retryable", "failed_terminal"} : Attempted(w, t, status)
  /\ UNCHANGED <<target, allowed, batch, item, outbox>>

\* An httpx transport error is not caught; either call may have been carried out.
ExportTimesOut(w, t) ==
  /\ MayTimeOut
  /\ \E calls \in Provider :
       /\ crm[t] = "listed" => calls = "listed"
       /\ crm[t] = "record" => calls # "absent"
       /\ crm' = [crm EXCEPT ![t] = calls]
  /\ Rollback(w)

\* PolicySkip from _plan_for_target.
SkipItem(w, t) ==
  /\ Attempted(w, t, "skipped_policy")
  /\ UNCHANGED <<target, allowed, batch, item, outbox, crm>>

\* Any other ValueError from _plan_for_target is not caught.
PlanFails(w) ==
  /\ Rollback(w)
  /\ UNCHANGED crm

\* One turn of the loop of process_crm_export_batch.
ProcessItem(w, t) ==
  /\ tx[w].op = "process"
  /\ t \in PendingOf(tx[w].item)
  /\ \/ t \in Unplannable /\ PlanFails(w)
     \/ /\ t \notin Unplannable
        /\ \/ t \notin allowed /\ SkipItem(w, t)
           \/ /\ t \in allowed
              /\ ExportSucceeds(w, t) \/ ExportFails(w, t) \/ ExportTimesOut(w, t)

ItemsOf(items) == {t \in Target : items[t].status # "none"}

\* _batch_status
BatchStatusOf(items) ==
  LET statuses == {items[t].status : t \in ItemsOf(items)}
  IN IF statuses \subseteq SUCCESS_ITEM_STATUSES THEN "succeeded"
     ELSE IF statuses \subseteq FAILED_ITEM_STATUSES THEN "failed"
     ELSE "partial"

AttemptsOf(items) == SumFunctionOnSet([t \in ItemsOf(items) |-> items[t].attempts], ItemsOf(items))

\* Events of a transaction: one per item it has dealt with, one for the batch.
EventKeys(b, items, done) ==
  {<<IF items[t].status = "succeeded" THEN "item_succeeded" ELSE "item_failed",
     b, t, items[t].attempts>> : t \in done}
    \cup {<<"batch_completed", b, AttemptsOf(items)>>}

\* Mutant of ExportedRow: only export_status is set.
ExportedRowStatusKept(status, seen, now) ==
  CrmTarget(now.status,
            Written(seen.export, IF status = "succeeded" THEN "exported" ELSE status,
                    now.export))

\* The columns of a target that the outcome of its item changes.
ExportedRow(status, seen, now) ==
  IF status = "succeeded"
    THEN CrmTarget(Written(seen.status, "exported", now.status),
                   Written(seen.export, "exported", now.export))
    ELSE CrmTarget(now.status, Written(seen.export, status, now.export))

\* _complete_batch and the commit, with the rows as the transaction holds them.
CompleteBatch(w) ==
  LET b == tx[w].batch
      items == tx[w].item
      done == tx[w].done
  IN /\ target' = [t \in Target |->
                     IF t \in done
                       THEN ExportedRow(items[t].status, tx[w].seen[t], target[t])
                       ELSE target[t]]
     /\ item' = [item EXCEPT ![b] =
                   [t \in Target |-> IF t \in done THEN items[t] ELSE item[b][t]]]
     /\ batch' = [batch EXCEPT ![b] =
                    CrmExportBatch(
                      Written(tx[w].row.status, BatchStatusOf(items), batch[b].status), TRUE)]
     /\ outbox' = outbox \cup EventKeys(b, items, done)
     /\ tx' = [tx EXCEPT ![w] = Idle]
     /\ UNCHANGED <<allowed, crm>>

\* The loop is over.  An event key that exists already fails the commit.
ProcessCommit(w) ==
  /\ tx[w].op = "process"
  /\ PendingOf(tx[w].item) = {}
  /\ \/ /\ EventKeys(tx[w].batch, tx[w].item, tx[w].done) \cap outbox = {}
        /\ CompleteBatch(w)
     \/ /\ EventKeys(tx[w].batch, tx[w].item, tx[w].done) \cap outbox # {}
        /\ Rollback(w)
        /\ UNCHANGED crm
-----------------------------------------------------------------------------
(* What happens around the exports *)

\* update_crm_target: an operator edits a target.
UpdateCrmTarget(t) ==
  /\ \/ \E status \in EditStatus :
          target' = [target EXCEPT ![t] = CrmTarget(status, target[t].export)]
     \/ \E export \in EditExport :
          target' = [target EXCEPT ![t] = CrmTarget(target[t].status, export)]
  /\ UNCHANGED <<allowed, batch, item, outbox, crm, tx>>

\* The record of t gains or loses what _plan_for_target requires of it.
PolicyChange(t) ==
  /\ t \in Changing
  /\ allowed' = IF t \in allowed THEN allowed \ {t} ELSE allowed \cup {t}
  /\ UNCHANGED <<target, batch, item, outbox, crm, tx>>

\* The process serving a request dies.
Abort(w) ==
  /\ MayAbort
  /\ tx[w] # Idle
  /\ Rollback(w)
  /\ UNCHANGED crm

Progress(w) ==
  \/ RetryCommit(w)
  \/ ProcessRead(w)
  \/ \E t \in Target : ProcessItem(w, t)
  \/ ProcessCommit(w)

Next ==
  \/ \E w \in Worker :
       \/ \E b \in Batch :
            \/ \E ts \in SUBSET Target : StartCrmExport(w, b, ts) \/ RetryRead(w, b, ts)
            \/ ProcessTask(w, b)
       \/ Progress(w)
       \/ Abort(w)
  \/ \E t \in Target : UpdateCrmTarget(t) \/ PolicyChange(t)

Spec == Init /\ [][Next]_vars

\* A request that has started runs on: nobody has to ask for its next step.
ExportFairness == \A w \in Worker : WF_vars(Progress(w))
-----------------------------------------------------------------------------
(* Properties *)

(***************************************************************************)
(* An item is recorded as succeeded only when the provider holds both the  *)
(* record and the list entry, whatever overlapped, failed half way or was  *)
(* rolled back and processed again.                                        *)
(***************************************************************************)
SucceededIsListed ==
  \A b \in Batch, t \in Target : item[b][t].status = "succeeded" => crm[t] = "listed"

(***************************************************************************)
(* A succeeded item and its target agree: unless an operator edits the     *)
(* target, it is exported, also when requests over several batches of the  *)
(* same target commit in any order.                                        *)
(***************************************************************************)
SucceededIsExported ==
  \A b \in Batch, t \in Target :
    item[b][t].status = "succeeded" => target[t].status = "exported"

(***************************************************************************)
(* With one request at a time, a batch that has a completed_at has nothing *)
(* pending and the status that _batch_status gives its items, also after   *)
(* retries that name some of its items and requests that die between their *)
(* two transactions.                                                       *)
(***************************************************************************)
CompletedIsSettled ==
  \A b \in Batch : batch[b].completed =>
    /\ PendingOf(item[b]) = {}
    /\ batch[b].status = BatchStatusOf(item[b])

(***************************************************************************)
(* With one request at a time, every attempt that was counted has exactly  *)
(* one event, of the success or of the failure, and no other attempt has   *)
(* one: a consumer of the outbox sees each outcome once.                   *)
(***************************************************************************)
OneEventPerAttempt ==
  \A b \in Batch, t \in Target :
    LET attempts(name) == {n \in 0..(MaxAttempts + 1) : <<name, b, t, n>> \in outbox}
    IN /\ attempts("item_succeeded") \cap attempts("item_failed") = {}
       /\ attempts("item_succeeded") \cup attempts("item_failed") = 1..item[b][t].attempts

(***************************************************************************)
(* A batch that is running completes, when no request dies, every target   *)
(* can be planned and the provider answers: also when retries and tasks    *)
(* for the batch overlap and roll each other back.                         *)
(***************************************************************************)
RunningCompletes ==
  \A b \in Batch : batch[b].status = "running" ~> batch[b].completed

(***************************************************************************)
(* "CRM retries ... isolate partial failures": a processing that ends      *)
(* keeps the successes it has had, whatever happens to its other items.    *)
(***************************************************************************)
PartialFailureIsolated ==
  [][\A w \in Worker : tx[w].op = "process" /\ tx'[w] = Idle =>
       \A t \in tx[w].done : tx[w].item[t].status = "succeeded" =>
         item'[tx[w].batch][t].status = "succeeded"]_vars

(***************************************************************************)
(* "CRM export retries ... are ... guarded by current policy": the         *)
(* provider is told nothing more of a target while it is invalidated.      *)
(***************************************************************************)
InvalidatedNotExported ==
  [][\A t \in Target : target[t].status = "invalidated" => crm'[t] = crm[t]]_vars

(***************************************************************************)
(* "Retries operate on failed items and never duplicate successful object  *)
(* or list-entry writes": with one request at a time, an item that has     *)
(* succeeded is never attempted again.                                     *)
(***************************************************************************)
SuccessNotRepeated ==
  [][\A b \in Batch, t \in Target :
       item[b][t].status = "succeeded" => item'[b][t] = item[b][t]]_vars
=============================================================================
