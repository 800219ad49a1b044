------------------------- MODULE SnapshotIsolation -------------------------
(***************************************************************************)
(* What the journal promises its transactions (docs/architecture.md,       *)
(* "Transactions"): each reads one snapshot and commits only if no cell it  *)
(* writes was written by a transaction that committed since; a data commit  *)
(* published in between refuses it altogether.  Nothing here knows of       *)
(* generations, write logs or claims.                                      *)
(***************************************************************************)
CONSTANTS Tx, Cell, Value

VARIABLES
  db,      \* the value of every cell
  active,  \* running transactions
  read,    \* the database each of them reads
  missed   \* the cells written since each of them began

vars == <<db, active, read, missed>>

Init ==
  /\ db \in [Cell -> Value]
  /\ active = {}
  /\ read = [x \in {} |-> db]
  /\ missed = [x \in {} |-> {}]

Begin(x) ==
  /\ x \notin active
  /\ active' = active \cup {x}
  /\ read' = [y \in active' |-> IF y = x THEN db ELSE read[y]]
  /\ missed' = [y \in active' |-> IF y = x THEN {} ELSE missed[y]]
  /\ UNCHANGED db

Leave(x) ==
  /\ active' = active \ {x}
  /\ read' = [y \in active' |-> read[y]]

\* The first committer wins: a later one must write elsewhere, and changes no
\* cell that it does not write.
Commit(x) ==
  /\ x \in active
  /\ \E cells \in SUBSET Cell :
       /\ cells \cap missed[x] = {}
       /\ db' \in [Cell -> Value]
       /\ \A c \in Cell \ cells : db'[c] = db[c]
       /\ missed' = [y \in active \ {x} |-> missed[y] \cup cells]
  /\ Leave(x)

Abort(x) ==
  /\ x \in active
  /\ missed' = [y \in active \ {x} |-> missed[y]]
  /\ Leave(x)
  /\ UNCHANGED db

\* A new data commit: no running transaction may write on top of it.
Publish ==
  /\ db' \in [Cell -> Value]
  /\ missed' = [x \in active |-> Cell]
  /\ UNCHANGED <<active, read>>

Next ==
  \/ \E x \in Tx : Begin(x) \/ Commit(x) \/ Abort(x)
  \/ Publish

Spec == Init /\ [][Next]_vars
=============================================================================
