------------------------------- MODULE MCLive -------------------------------
(***************************************************************************)
(* What must go on, for TLC: an export batch that was started, and the     *)
(* monitoring of watched companies.  The two share no rows, so a behaviour *)
(* is of one of them (focus) and the other stands still.                   *)
(***************************************************************************)
EXTENDS CrmExport, Watchlist

VARIABLE focus

livevars == <<focus, vars, wvars>>

LiveInit == focus \in {"export", "watchlist"} /\ Init /\ WatchInit
LiveNext ==
  \/ focus = "export" /\ Next /\ UNCHANGED <<focus, wvars>>
  \/ focus = "watchlist" /\ WatchNext /\ UNCHANGED <<focus, vars>>

\* The fairness of the two: requests and passes that have begun run on, and the beat keeps
\* starting passes.
LiveSpec ==
  /\ LiveInit
  /\ [][LiveNext]_livevars
  /\ ExportFairness
  /\ WatchFairness
=============================================================================
