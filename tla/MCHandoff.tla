------------------------------ MODULE MCHandoff -----------------------------
(***************************************************************************)
(* From an approved target to a meeting, for TLC: one request at a time    *)
(* exports targets, and two at a time book, cancel and settle a meeting.   *)
(* The two change no rows of each other, so a behaviour is of one of them  *)
(* (focus) and the other stands still.                                     *)
(***************************************************************************)
EXTENDS CrmExport, Meetings, TLC

VARIABLE focus

handoffvars == <<focus, vars, mvars>>

HandoffInit == focus \in {"export", "meetings"} /\ Init /\ MeetingsInit
HandoffNext ==
  \/ focus = "export" /\ Next /\ UNCHANGED <<focus, mvars>>
  \/ focus = "meetings" /\ MeetingsNext /\ UNCHANGED <<focus, vars>>
HandoffSpec == HandoffInit /\ [][HandoffNext]_handoffvars

HandoffSymmetry == Permutations(MeetingWorker)
=============================================================================
