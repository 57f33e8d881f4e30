----------------------------- MODULE SqliteStore -----------------------------
(***************************************************************************)
(* evoid_sqlite: SQLiteStorage objects over one database file, each with a  *)
(* connection handle that it opens on first use.  A step is what a          *)
(* coroutine does between two awaits, with the handle self._conn it read    *)
(* for the call it awaits.  aiosqlite and SQLite are external: a statement  *)
(* opens a transaction, which locks the file for other connections until    *)
(* it is committed or the connection is closed.                             *)
(***************************************************************************)
EXTENDS Naturals, Sequences, FiniteSets

CONSTANTS
    Clients,   \* the coroutines that call a storage object
    Stores,    \* the storage objects
    Keys,      \* the keys of kv_store
    NoClient,  \* in place of the writer of a row that is not there
    NoKey,     \* in place of the key of a call of connect()
    MaxConns   \* bound: the connections opened

ASSUME ClientsAssumption == NoClient \notin Clients /\ NoKey \notin Keys /\ MaxConns \in Nat

VARIABLES
    conns,    \* the storage object that opened each connection, in order
    conn,     \* _conn of each object: the number of a connection, or 0
    closed,   \* the connections that were closed
    pending,  \* what each connection has not committed: who wrote each key
    table,    \* the committed rows: who wrote each key
    op        \* the call of each client: where it is, its object, the
              \* connection it is using and its key

storeVars == <<conns, conn, closed, pending, table, op>>

Connections == DOMAIN conns
Rows == [Keys -> Clients \cup {NoClient}]
NoRows == [k \in Keys |-> NoClient]
Idle == [pc |-> "idle", store |-> CHOOSE s \in Stores : TRUE, on |-> 0, key |-> NoKey]

StoreTypeOK ==
    /\ conns \in Seq(Stores) /\ Len(conns) <= MaxConns
    /\ conn \in [Stores -> {0} \cup Connections]
    /\ closed \subseteq Connections
    /\ pending \in [Connections -> Rows] /\ table \in Rows
    /\ op \in [Clients -> [pc : {"idle", "opening", "creating", "created", "executing", "committing",
                                 "returned", "failed", "locked"},
                           store : Stores, on : {0} \cup Connections, key : Keys \cup {NoKey}]]

StoreInit ==
    /\ conns = << >> /\ conn = [s \in Stores |-> 0] /\ closed = {}
    /\ pending = << >> /\ table = NoRows
    /\ op = [w \in Clients |-> Idle]

At(w, place) == op[w].pc = place
Goto(w, place) == op' = [op EXCEPT ![w].pc = place]
\* Go on to an await on the handle that is current now.
GotoOn(w, place) == op' = [op EXCEPT ![w].pc = place, ![w].on = conn[op[w].store]]

\* A transaction of another connection.
LockedFor(c) == \E d \in Connections \ {c} : pending[d] # NoRows

\* write(key, ...), or connect() itself: without a handle it is opened first.
Begin(w, s, k) ==
    op' = [op EXCEPT ![w] =
        [pc |-> IF conn[s] = 0 \/ k = NoKey THEN "opening" ELSE "executing",
         store |-> s, on |-> conn[s], key |-> k]]

\* aiosqlite.connect returns and the handle is set, whatever it was.
Opened(w) ==
    /\ At(w, "opening") /\ Len(conns) < MaxConns
    /\ conns' = Append(conns, op[w].store)
    /\ pending' = Append(pending, NoRows)
    /\ conn' = [conn EXCEPT ![op[w].store] = Len(conns) + 1]
    /\ op' = [op EXCEPT ![w].pc = "creating", ![w].on = Len(conns) + 1]
    /\ UNCHANGED <<closed, table>>

\* CREATE TABLE IF NOT EXISTS, in no transaction.
Created(w) ==
    /\ At(w, "creating") /\ op[w].on \notin closed
    /\ GotoOn(w, "created")
    /\ UNCHANGED <<conns, conn, closed, pending, table>>

\* INSERT OR REPLACE, or the statement of delete, on the connection it read.
Executed(w) ==
    /\ At(w, "executing") /\ op[w].on \notin closed /\ ~LockedFor(op[w].on)
    /\ pending' = [pending EXCEPT ![op[w].on][op[w].key] = w]
    /\ GotoOn(w, "committing")
    /\ UNCHANGED <<conns, conn, closed, table>>

\* Mutant: the commit is left out.
CommitNothing(c) == UNCHANGED <<pending, table>>

\* commit() of a connection.
Commit(c) ==
    /\ pending' = [pending EXCEPT ![c] = NoRows]
    /\ table' = [k \in Keys |-> IF pending[c][k] # NoClient THEN pending[c][k] ELSE table[k]]

\* The commits of connect and of write.
Committed(w) ==
    /\ At(w, "created") \/ At(w, "committing")
    /\ op[w].on \notin closed
    /\ Commit(op[w].on)
    /\ IF At(w, "created") /\ op[w].key # NoKey THEN GotoOn(w, "executing") ELSE Goto(w, "returned")
    /\ UNCHANGED <<conns, conn, closed>>

\* The database cannot be opened, a connection was closed meanwhile, or the
\* file stayed locked for longer than the timeout.
Raises(w) ==
    /\ \/ At(w, "opening") /\ Goto(w, "failed")
       \/ /\ op[w].pc \in {"creating", "created", "executing", "committing"} /\ op[w].on \in closed
          /\ Goto(w, "failed")
       \/ At(w, "executing") /\ op[w].on \notin closed /\ LockedFor(op[w].on) /\ Goto(w, "locked")
    /\ UNCHANGED <<conns, conn, closed, pending, table>>

\* close(): the transaction of the connection is rolled back, and the handle
\* keeps naming it.
Close(s) ==
    /\ conn[s] # 0
    /\ closed' = closed \cup {conn[s]}
    /\ pending' = [pending EXCEPT ![conn[s]] = NoRows]
    /\ UNCHANGED <<conns, conn, table, op>>

StoreStep(w) == Opened(w) \/ Created(w) \/ Executed(w) \/ Committed(w) \/ Raises(w)

=============================================================================
