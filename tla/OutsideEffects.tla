--------------------------- MODULE OutsideEffects ---------------------------
(***************************************************************************)
(* What every handler that calls a provider promises, whatever it calls.   *)
(* A call and the commit that records it are two steps: the process may    *)
(* end in between, so an effect can be performed and never recorded.  The  *)
(* other way round is excluded: what the database claims was performed.    *)
(* An effect is never taken back; a claim may be.                          *)
(***************************************************************************)
CONSTANT Effect

VARIABLES
  performed,  \* effects the provider carried out
  claimed     \* effects the database says were carried out

Init == performed = {} /\ claimed = {}

\* The provider carries out effects; the database does not know yet.
Call == /\ performed' \in SUBSET Effect
        /\ performed \subseteq performed'
        /\ UNCHANGED claimed

\* A commit: only what was performed is claimed.
Commit == /\ claimed' \in SUBSET performed
          /\ UNCHANGED performed

Next == Call \/ Commit

Spec == Init /\ [][Next]_<<performed, claimed>>
=============================================================================
