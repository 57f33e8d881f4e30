---------------------------- MODULE SmartStorage ----------------------------
(***************************************************************************)
(* evoid_smart_storage/engine.py over the backends of this repository: a    *)
(* SQLiteStorage, a PostgresStorage and a RedisCache.  A multi-write goes   *)
(* to its backends one after the other; each call is a coroutine of one     *)
(* event loop.  A key of a backend is the data type itself.  Postgres runs  *)
(* each statement in a transaction of its own.                              *)
(***************************************************************************)
EXTENDS SqliteStore

CONSTANTS
    Mapping,      \* mapping: the engine name of each data type
    LevelRouting, \* the engine names of level_routing and storage_preference
    UserRouting   \* the engine names of user_connections

\* The parts of an engine name, in the order of its "+".
Targets ==
    [sqlite |-> <<"sqlite">>, postgres |-> <<"postgres">>, redis |-> <<"redis">>,
     both |-> <<"sqlite", "postgres">>, cached |-> <<"sqlite", "redis">>]

ASSUME RoutingAssumption ==
    /\ Mapping \in [Keys -> DOMAIN Targets] /\ Cardinality(Stores) = 1
    /\ LevelRouting \subseteq DOMAIN Targets /\ UserRouting \subseteq DOMAIN Targets

VARIABLES
    setup,     \* _setup_complete
    engine,    \* _engine of PostgresStorage: the call that set it, or NoClient
    pgTable,   \* does its kv_store exist?
    pgRows,    \* its rows
    request,   \* the call of each client: its engine name and what it awaits
    left,      \* the backends each call of health has still to ask
    overlap    \* were two calls ever under way at once?

storageVars == <<storeVars, setup, engine, pgTable, pgRows, request, left, overlap>>

\* How a call ends: "refused" and "empty" before any backend is asked,
\* "rejected" by the signature of the backend, "raised" by what the backend did.
Over == {"true", "raised", "refused", "rejected", "empty", "well", "unwell"}
InHealth == {"connecting", "checking", "probing"}
Backends == {"sqlite", "postgres", "redis"}
Active(w) == request[w].pc \notin Over \cup {"none"}

StorageTypeOK ==
    /\ StoreTypeOK
    /\ {setup, pgTable, overlap} \subseteq BOOLEAN /\ engine \in Clients \cup {NoClient}
    /\ pgRows \in Rows
    /\ request \in [Clients -> [pc : {"none", "sqlite", "creating", "inserting"} \cup InHealth \cup Over,
                                engine : DOMAIN Targets \cup {"none"}, key : Keys]]
    /\ left \in [Clients -> SUBSET Backends]

StorageInit ==
    /\ StoreInit
    /\ setup = FALSE /\ engine = NoClient /\ pgTable = FALSE /\ overlap = FALSE
    /\ pgRows = NoRows
    /\ request = [w \in Clients |-> [pc |-> "none", engine |-> "none", key |-> CHOOSE k \in Keys : TRUE]]
    /\ left = [w \in Clients |-> {}]

Await(w, place) == request' = [request EXCEPT ![w].pc = place]

\* The engines setup resolves: those of the mapping and of the users.
Resolved == {Mapping[k] : k \in Keys} \cup UserRouting

\* The backends behind them.
Used == {b \in Backends : \E name \in Resolved : \E n \in DOMAIN Targets[name] : Targets[name][n] = b}

\* The engine of PostgresStorage is set when a call is the first to need it.
SetEngine(w) == engine' = IF engine = NoClient THEN w ELSE engine

\* _resolve_engine: a preference of the intent, the user's connection, the
\* level's and the mapping, whichever the call brings along.
ResolveEngine(k) == LevelRouting \cup UserRouting \cup {Mapping[k]}

\* Mutant: the first backend is taken for all of them.
WriteToFirst(w, name, k, n) ==
    \/ /\ n = 1 /\ name \in Resolved /\ Targets[name][1] = "sqlite"
       /\ request' = [request EXCEPT ![w] = [pc |-> "sqlite", engine |-> name, key |-> k]]
       /\ \E s \in Stores : Begin(w, s, k)
       /\ UNCHANGED engine
    \/ /\ n > 1 \/ name \notin Resolved
       /\ request' = [request EXCEPT ![w] = [pc |-> "true", engine |-> name, key |-> k]]
       /\ UNCHANGED <<op, engine>>

\* await eng.write of the target at place n, on the way to the next one; a
\* cache has no write.  PostgresStorage sets its engine before it awaits the
\* creation of the table.
WriteTo(w, name, k, n) ==
    LET targets == IF name \in Resolved THEN Targets[name] ELSE << >>
        Enter(place) == request' = [request EXCEPT ![w] = [pc |-> place, engine |-> name, key |-> k]]
    IN  \/ n > Len(targets) /\ Enter("true") /\ UNCHANGED <<op, engine>>
        \/ /\ n <= Len(targets) /\ targets[n] = "sqlite"
           /\ Enter("sqlite")
           /\ \E s \in Stores : Begin(w, s, k)
           /\ UNCHANGED engine
        \/ /\ n <= Len(targets) /\ targets[n] = "postgres"
           /\ Enter(IF engine = NoClient THEN "creating" ELSE "inserting")
           /\ SetEngine(w)
           /\ UNCHANGED op
        \/ n <= Len(targets) /\ targets[n] = "redis" /\ Enter("raised") /\ UNCHANGED <<op, engine>>

\* A backend that setup wants is not registered with the container: the call
\* raises, and the next one tries again.
SetupRaises(w) ==
    /\ request[w].pc = "none" /\ ~setup
    /\ Await(w, "refused")
    /\ UNCHANGED <<storeVars, setup, engine, pgTable, pgRows, left, overlap>>

\* A data type that nothing maps: write raises, read answers None and delete
\* False.
NotMapped(w) ==
    /\ request[w].pc = "none"
    /\ setup' = TRUE
    /\ Await(w, "refused") \/ Await(w, "empty")
    /\ UNCHANGED <<storeVars, engine, pgTable, pgRows, left, overlap>>

Overlaps(w) == overlap' = (overlap \/ \E v \in Clients \ {w} : Active(v))

\* write(data_type, ...) up to its first await.
Write(w, k) ==
    /\ request[w].pc = "none"
    /\ setup' = TRUE
    /\ \E name \in ResolveEngine(k) : WriteTo(w, name, k, 1)
    /\ Overlaps(w)
    /\ UNCHANGED <<conns, conn, closed, pending, table, pgTable, pgRows, left>>

\* A step of SQLiteStorage, and what follows when it is the last.
InSqlite(w) ==
    /\ request[w].pc = "sqlite"
    /\ \/ op[w].pc \notin {"returned", "failed", "locked"} /\ StoreStep(w) /\ UNCHANGED <<request, engine>>
       \/ /\ op[w].pc = "returned"
          /\ WriteTo(w, request[w].engine, request[w].key, 2)
          /\ UNCHANGED <<conns, conn, closed, pending, table>>
       \/ op[w].pc \in {"failed", "locked"} /\ Await(w, "raised") /\ UNCHANGED <<storeVars, engine>>
    /\ UNCHANGED <<setup, pgTable, pgRows, left, overlap>>

\* Mutant: the setup of PostgresStorage creates no table.
PgNotCreated(w) ==
    /\ request[w].pc = "creating"
    /\ Await(w, "inserting")
    /\ UNCHANGED <<storeVars, setup, engine, pgTable, pgRows, left, overlap>>

\* CREATE TABLE IF NOT EXISTS.
PgCreated(w) ==
    /\ request[w].pc = "creating"
    /\ pgTable' = TRUE
    /\ Await(w, "inserting")
    /\ UNCHANGED <<storeVars, setup, engine, pgRows, left, overlap>>

\* INSERT ... ON CONFLICT DO UPDATE, and the commit.
PgInserted(w) ==
    /\ request[w].pc = "inserting" /\ pgTable
    /\ pgRows' = [pgRows EXCEPT ![request[w].key] = w]
    /\ Await(w, "true")
    /\ UNCHANGED <<storeVars, setup, engine, pgTable, left, overlap>>

\* The server is not reached, or there is no table.
PgRaises(w) ==
    /\ request[w].pc \in {"creating", "inserting"}
    /\ Await(w, "raised")
    /\ UNCHANGED <<storeVars, setup, engine, pgTable, pgRows, left, overlap>>

\* read and delete pass the query as a second argument, which no backend of
\* this repository takes: a TypeError before anything is awaited.  Without a
\* resolved engine read answers None and delete True.
ReadOrDelete(w, k) ==
    /\ request[w].pc = "none"
    /\ setup' = TRUE
    /\ \E name \in ResolveEngine(k) :
          request' = [request EXCEPT ![w] = [pc |-> IF name \in Resolved THEN "rejected" ELSE "empty",
                                             engine |-> name, key |-> k]]
    /\ UNCHANGED <<storeVars, engine, pgTable, pgRows, left, overlap>>

-----------------------------------------------------------------------------
(* health.                                                                 *)

\* The loop goes on to one of the backends that are left, in the order of a
\* set of names, or answers True.  A backend that is part of several names is
\* asked again, with no other effect than that it may say no.
Ask(w, rest) ==
    \/ /\ rest = {} /\ Await(w, "well")
       /\ UNCHANGED <<op, engine, left>>
    \/ /\ "redis" \in rest /\ Await(w, "probing")
       /\ left' = [left EXCEPT ![w] = rest \ {"redis"}]
       /\ UNCHANGED <<op, engine>>
    \/ /\ "sqlite" \in rest
       /\ left' = [left EXCEPT ![w] = rest \ {"sqlite"}]
       /\ \E s \in Stores : IF conn[s] = 0 THEN Await(w, "connecting") /\ Begin(w, s, NoKey)
                           ELSE Await(w, "probing") /\ UNCHANGED op
       /\ UNCHANGED engine
    \/ /\ "postgres" \in rest
       /\ left' = [left EXCEPT ![w] = rest \ {"postgres"}]
       /\ Await(w, IF engine = NoClient THEN "checking" ELSE "probing")
       /\ SetEngine(w)
       /\ UNCHANGED op

\* health() up to its first await.
Health(w) ==
    /\ request[w].pc = "none"
    /\ setup' = TRUE
    /\ Ask(w, Used)
    /\ Overlaps(w)
    /\ UNCHANGED <<conns, conn, closed, pending, table, pgTable, pgRows>>

\* connect() of SQLite on behalf of its health.
HealthConnects(w) ==
    /\ request[w].pc = "connecting"
    /\ \/ op[w].pc \notin {"returned", "failed", "locked"} /\ StoreStep(w) /\ UNCHANGED request
       \/ op[w].pc = "returned" /\ Await(w, "probing") /\ UNCHANGED storeVars
       \/ op[w].pc \in {"failed", "locked"} /\ Await(w, "unwell") /\ UNCHANGED storeVars
    /\ UNCHANGED <<setup, engine, pgTable, pgRows, left, overlap>>

\* PostgresStorage.health sets the engine, creates the table, and swallows it
\* when that fails.
HealthCreates(w) ==
    /\ request[w].pc = "checking"
    /\ \/ Await(w, "probing") /\ pgTable' = TRUE
       \/ Await(w, "unwell") /\ UNCHANGED pgTable
    /\ UNCHANGED <<storeVars, setup, engine, pgRows, left, overlap>>

\* SELECT 1 or a ping: the next backend is asked, or health answers False.
HealthProbes(w) ==
    /\ request[w].pc = "probing"
    /\ \/ Ask(w, left[w])
       \/ Await(w, "unwell") /\ UNCHANGED <<op, engine, left>>
    /\ UNCHANGED <<conns, conn, closed, pending, table, setup, pgTable, pgRows, overlap>>

StorageNext == \E w \in Clients :
    \/ SetupRaises(w) \/ NotMapped(w)
    \/ \E k \in Keys : Write(w, k) \/ ReadOrDelete(w, k)
    \/ InSqlite(w) \/ PgCreated(w) \/ PgInserted(w) \/ PgRaises(w)
    \/ Health(w) \/ HealthConnects(w) \/ HealthCreates(w) \/ HealthProbes(w)

StorageSpec == StorageInit /\ [][StorageNext]_storageVars

-----------------------------------------------------------------------------
(* Properties.                                                             *)

Quiet == \A w \in Clients : ~Active(w)
Wrote(w, name) == request[w].pc = "true" /\ request[w].engine = name

\* Once no call is under way, the backends of a multi-write hold the same
\* row, unless a call raised between them or two calls overlapped: nothing
\* orders their second writes as their first (engine.py:70-76).
ReplicasAgree ==
    Quiet /\ ~overlap /\ (\A w \in Clients : request[w].pc # "raised") =>
        \A k \in Keys :
            (\A w \in Clients, name \in {"sqlite", "postgres"} : ~(Wrote(w, name) /\ request[w].key = k))
                => table[k] = pgRows[k]

\* A write that answered True was stored by every backend of its engine
\* name, unless it overlapped another call or its engine was never resolved:
\* a name that only level_routing or a preference gives has no backends, and
\* nothing is stored (engine.py:41-50, :70-76).
TrueMeansStored ==
    ~overlap => \A w \in Clients : request[w].pc = "true" /\ request[w].engine \in Resolved =>
        LET targets == Targets[request[w].engine]
        IN  \A n \in DOMAIN targets :
                /\ targets[n] = "sqlite" => table[request[w].key] # NoClient
                /\ targets[n] = "postgres" => pgRows[request[w].key] # NoClient

\* PostgresStorage works without its table only while the call that set the
\* engine, a write or a health check, still creates it, or after that very call
\* failed, which health does not even report as an error: no other call ever
\* tries the creation again (postgresql:35-53, :95-102).
EngineHasTable ==
    engine # NoClient /\ ~pgTable => request[engine].pc \in {"creating", "checking", "raised", "unwell"}

=============================================================================
