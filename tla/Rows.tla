-------------------------------- MODULE Rows --------------------------------
(***************************************************************************)
(* What a session_scope transaction does to a row.  Nothing is locked when *)
(* a row is read; the flush writes the columns that differ from the row as *)
(* it was read, over whatever others have committed since.                 *)
(***************************************************************************)

\* The row now, after an UPDATE by a transaction that read seen and holds mine.
Merge(seen, mine, now) ==
  [c \in DOMAIN now |-> IF mine[c] = seen[c] THEN now[c] ELSE mine[c]]

\* Python's x or y, where "" stands for a missing text.
OrElse(x, y) == IF x = "" THEN y ELSE x

\* The unique keys a transaction inserts are all new.
KeysFree(keys, taken) == keys \cap taken = {}

(***************************************************************************)
(* The same for a whole database: a record of tables, each a function from *)
(* unique keys to rows, Absent where there is no row.                      *)
(***************************************************************************)
Absent == [status |-> "absent"]

\* What a transaction that read seen and holds mine will write, by table and key.
Changes(seen, mine) ==
  [t \in DOMAIN mine |->
     [k \in {k \in DOMAIN mine[t] : seen[t][k] # mine[t][k]} |->
        [seen |-> seen[t][k], mine |-> mine[t][k]]]]

\* No other transaction has committed a row under a key that these changes insert.
InsertsAreFree(changes, now) ==
  \A t \in DOMAIN changes : \A k \in DOMAIN changes[t] :
    changes[t][k].seen = Absent => now[t][k] = Absent

\* The tables now, after the commit of these changes.
Committed(changes, now) ==
  [t \in DOMAIN now |-> [k \in DOMAIN now[t] |->
    IF k \notin DOMAIN changes[t] THEN now[t][k]
    ELSE LET x == changes[t][k]
         IN IF x.seen = Absent THEN x.mine ELSE Merge(x.seen, x.mine, now[t][k])]]
=============================================================================
