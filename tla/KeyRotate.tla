------------------------------ MODULE KeyRotate -----------------------------
(***************************************************************************)
(* Rotation of SECRET_KEY (internal/keyrotate, the -rotate-key flags of    *)
(* cmd/panel) beside a panel that seals secrets with the key it was        *)
(* started with.  A cell is a sealed column of a row.  What the rotation   *)
(* writes is seen by nobody else until it commits; it is kept apart as     *)
(* `plain' and `written'.  A blob is its key and its plaintext: Open with  *)
(* another key fails.                                                      *)
(***************************************************************************)
EXTENDS Integers

CONSTANTS Cell, Key, Value,
          Unset,     \* NULL, or the empty placeholder, which is left alone
          NColumn,   \* the length of sealedColumns
          ColumnOf   \* the column a cell belongs to

ASSUME KeyRotateAssumption ==
    /\ NColumn \in Nat \ {0} /\ ColumnOf \in [Cell -> 1..NColumn]
    /\ Unset \notin Key /\ Unset \notin Value /\ Key # {}

VARIABLES
    keyOf, valOf,  \* the blobs of the database: the key and the plaintext
    panel,         \* the SECRET_KEY of a running panel
    lock,          \* who holds the advisory lock: "none", "panel" or "tool"
    at,            \* where the rotation is
    oldKey, newKey, dryRun, column,
    plain,         \* the plaintexts the rotation has read
    written,       \* the cells it has rewritten
    exclusive      \* history: no lock was lost, no panel was started with a
                   \* key that does not open the database

dbVars == <<keyOf, valOf>>
toolVars == <<at, oldKey, newKey, dryRun, column, plain, written>>
rotVars == <<dbVars, panel, lock, toolVars, exclusive>>

Opens == {k \in Key : \A c \in Cell : keyOf[c] # Unset => keyOf[c] = k}

RotInit ==
    /\ \E k \in Key, cells \in SUBSET Cell :
         /\ keyOf = [c \in Cell |-> IF c \in cells THEN k ELSE Unset]
         /\ valOf \in [Cell -> Value \cup {Unset}]
         /\ \A c \in Cell : valOf[c] = Unset <=> c \notin cells
         /\ oldKey = k /\ newKey = k
    /\ panel = Unset /\ lock = "none" /\ at = "idle" /\ dryRun = FALSE /\ column = 1
    /\ plain = [c \in Cell |-> Unset] /\ written = {} /\ exclusive = TRUE

-----------------------------------------------------------------------------
(* The panel *)

\* Nothing compares the key with the database.
PanelStart(k) ==
    /\ panel = Unset /\ lock = "none"
    /\ lock' = "panel" /\ panel' = k
    /\ exclusive' = (exclusive /\ k \in Opens)
    /\ UNCHANGED <<dbVars, toolVars>>
PanelStop ==
    /\ panel # Unset /\ panel' = Unset
    /\ lock' = IF lock = "panel" THEN "none" ELSE lock
    /\ UNCHANGED <<dbVars, toolVars, exclusive>>
\* A secret is saved, or removed; a row that the rotation has written is locked
\* until its transaction ends.
Seal(c, v) ==
    /\ panel # Unset /\ c \notin written
    /\ keyOf' = [keyOf EXCEPT ![c] = IF v = Unset THEN Unset ELSE panel]
    /\ valOf' = [valOf EXCEPT ![c] = v]
    /\ UNCHANGED <<panel, lock, toolVars, exclusive>>

\* The lock lives as long as its connection, which nothing watches.
LockConnectionLost ==
    /\ lock # "none" /\ lock' = "none" /\ exclusive' = FALSE
    /\ UNCHANGED <<dbVars, panel, toolVars>>

-----------------------------------------------------------------------------
(* The rotation *)

runRotateKey(old, new, dry) ==
    /\ at = "idle" /\ lock = "none" /\ lock' = "tool"
    /\ at' = "read" /\ oldKey' = old /\ newKey' = new /\ dryRun' = dry /\ column' = 1
    /\ UNCHANGED <<dbVars, panel, plain, written, exclusive>>

\* The process ends, and what it has not committed is rolled back.
ToolExits ==
    /\ at' = "idle" /\ plain' = [c \in Cell |-> Unset] /\ written' = {}
    /\ lock' = IF lock = "tool" THEN "none" ELSE lock
    /\ UNCHANGED <<panel, oldKey, newKey, dryRun, column, exclusive>>

InColumn == {c \in Cell : ColumnOf[c] = column}
\* rotateColumn: the rows of a column are read and opened with the old key ...
ReadColumn ==
    /\ at = "read"
    /\ \A c \in InColumn : keyOf[c] \in {Unset, oldKey}
    /\ plain' = [c \in Cell |-> IF c \in InColumn THEN valOf[c] ELSE plain[c]]
    /\ at' = "update"
    /\ UNCHANGED <<dbVars, panel, lock, oldKey, newKey, dryRun, column, written, exclusive>>
\* ... each is sealed with the new one ...
UpdateRow(c) ==
    /\ at = "update" /\ c \in InColumn \ written /\ plain[c] # Unset
    /\ written' = written \cup {c}
    /\ UNCHANGED <<dbVars, panel, lock, at, oldKey, newKey, dryRun, column, plain, exclusive>>
\* ... and read again, which must give what was read first.
VerifyAndCommit ==
    /\ at = "update" /\ \A c \in InColumn : plain[c] # Unset => c \in written
    /\ at' = IF column = NColumn THEN "end" ELSE "read"
    /\ column' = IF column = NColumn THEN column ELSE column + 1
    /\ keyOf' = [c \in Cell |-> IF c \in written THEN newKey ELSE keyOf[c]]
    /\ valOf' = [c \in Cell |-> IF c \in written THEN plain[c] ELSE valOf[c]]
    /\ UNCHANGED <<panel, lock, oldKey, newKey, dryRun, plain, written, exclusive>>
VerifyColumn ==
    /\ at = "update" /\ \A c \in InColumn : plain[c] # Unset => c \in written
    /\ at' = IF column = NColumn THEN "end" ELSE "read"
    /\ column' = IF column = NColumn THEN column ELSE column + 1
    /\ UNCHANGED <<dbVars, panel, lock, oldKey, newKey, dryRun, plain, written, exclusive>>

\* The commit, whether or not its answer arrives.
Commit ==
    /\ at = "end" /\ ~dryRun
    /\ keyOf' = [c \in Cell |-> IF c \in written THEN newKey ELSE keyOf[c]]
    /\ valOf' = [c \in Cell |-> IF c \in written THEN plain[c] ELSE valOf[c]]
    /\ ToolExits
\* A row that the old key does not open, a statement or the commit that fails, a
\* crash, and the end of a dry run.
Rollback == at # "idle" /\ ToolExits /\ UNCHANGED dbVars

RotNext ==
    \/ \E k \in Key : PanelStart(k)
    \/ PanelStop \/ LockConnectionLost
    \/ \E c \in Cell, v \in Value \cup {Unset} : Seal(c, v)
    \/ \E old, new \in Key, dry \in BOOLEAN : runRotateKey(old, new, dry)
    \/ ReadColumn \/ (\E c \in Cell : UpdateRow(c)) \/ VerifyColumn \/ Commit \/ Rollback

RotSpec == RotInit /\ [][RotNext]_rotVars

-----------------------------------------------------------------------------
(* Properties *)

\* The rotation, statement by statement, implements a change of key in one step:
\* at no time, whatever fails, does the database hold secrets of two keys, and no
\* secret is changed on the way.
V == INSTANCE Vault WITH VCell <- Cell, secret <- valOf, opens <- Opens, sound <- exclusive
RotationAtomic == V!VaultSpec

=============================================================================
