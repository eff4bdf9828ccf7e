-------------------------- MODULE SqliteConnection --------------------------
(***************************************************************************)
(* The one sqlite3 connection every part of the governance service shares  *)
(* (GovernanceDB._conn, opened with check_same_thread=False).  A statement *)
(* that writes opens a transaction of the connection if none is open; the  *)
(* transaction belongs to the connection, not to the thread that wrote:    *)
(* whoever commits or rolls back next ends it for everybody.               *)
(***************************************************************************)
VARIABLES
    durable,   \* the tables as of the last commit: what survives a crash
    working    \* the tables as statements on the connection see them

connection == <<durable, working>>

Write(tables) == working' = tables /\ UNCHANGED durable
Commit        == durable' = working /\ UNCHANGED working
Rollback      == working' = durable /\ UNCHANGED durable
=============================================================================
