----------------------------- MODULE GameHosting -----------------------------
(***************************************************************************)
(* evoid_godot/hosting.py: one game of a GameHost, the app of create_app at *)
(* the root of its origin, and a browser running the load() of the page.    *)
(* The export of the game is rebuilt in place by another process, as        *)
(* version 1, 2... of game.pck; a byte of the file is the pair of its       *)
(* version and its offset.  The HTTP cache of the browser is external: it   *)
(* may answer with what the Cache-Control headers let it keep.              *)
(***************************************************************************)
EXTENDS Naturals, SequencesExt

CONSTANTS
    Size,       \* the size of game.pck in each version; 0: the export names it otherwise
    ChunkSize,  \* chunk_size
    MaxLoads    \* bound: the times the page is opened

Versions == DOMAIN Size
None == 0

ASSUME SizeAssumption == Size \in Seq(Nat) /\ Size # << >>
ASSUME BoundsAssumption == ChunkSize \in Nat \ {0} /\ MaxLoads \in Nat

VARIABLES
    disk,       \* the version in build_dir
    build,      \* the version builds[game_id].manifest describes, or None
    app,        \* the same for the GameBuild that create_app captured
    http,       \* the answers in the browser's HTTP cache, by chunk number
    loads,      \* how often the page was opened
    load        \* the load() that runs: where it is, its manifest, the answers
                \* with its chunks, and the file_size of the one under way

serverVars == <<disk, build, app>>
browserVars == <<http, loads, load>>
hostingVars == <<serverVars, browserVars>>

\* The answers: a body, and the size of the file in its Content-Range.  An error
\* has a body too.
Error == [bytes |-> << <<None, 0>> >>, total |-> 0]
Unsatisfiable == [bytes |-> << >>, total |-> 0]

HostingTypeOK ==
    /\ disk \in Versions
    /\ {build, app} \subseteq Versions \cup {None}
    /\ loads \in 0 .. MaxLoads
    /\ load.pc \in {"idle", "manifest", "engine", "chunks", "reading", "done", "failed"}
    /\ load.manifest \in Versions \cup {None} /\ load.size \in Nat

HostingInit ==
    /\ disk = 1 /\ build = None /\ app = None
    /\ http = {}
    /\ loads = 0 /\ load = [pc |-> "idle", manifest |-> None, chunks |-> << >>, size |-> 0]

-----------------------------------------------------------------------------
(* The host.                                                               *)

\* The export writes the next version into build_dir.
Rebuild ==
    /\ disk + 1 \in Versions
    /\ disk' = disk + 1
    /\ UNCHANGED <<build, app, browserVars>>

\* register_build scans the directory and replaces the build in the dict.
RegisterBuild ==
    /\ build' = disk
    /\ UNCHANGED <<disk, app, browserVars>>

\* create_app captures the build that is registered, and raises without one.
CreateApp ==
    /\ build # None
    /\ app' = build
    /\ UNCHANGED <<disk, build, browserVars>>

\* Mutant: rounded down.
CountPckChunksDown(v) == Size[v] \div ChunkSize

\* _count_pck_chunks: the quotient rounded up.
CountPckChunks(v) == (Size[v] + ChunkSize - 1) \div ChunkSize

\* The bytes from start up to end of a version.
Bytes(v, start, end) == [k \in 1 .. (IF end > start THEN end - start ELSE 0) |-> <<v, start + k - 1>>]

\* _serve_chunk: what is read of version v for the end that a file_size gave.
ServeChunk(v, file_size, n) ==
    LET start == n * ChunkSize
        end == IF start + ChunkSize < file_size THEN start + ChunkSize ELSE file_size
    IN  [bytes |-> Bytes(v, start, IF end < Size[v] THEN end ELSE Size[v]), total |-> file_size]

-----------------------------------------------------------------------------
(* The page.                                                               *)

Goto(place) == load' = [load EXCEPT !.pc = place]

\* The page is opened.
Open ==
    /\ app # None /\ loads < MaxLoads
    /\ loads' = loads + 1
    /\ load' = [pc |-> "manifest", manifest |-> None, chunks |-> << >>, size |-> 0]
    /\ UNCHANGED <<serverVars, http>>

\* fetch("/manifest.json"): what the scan of the app's build found; a failure leaves pck_chunks at 0.
FetchManifest ==
    /\ load.pc = "manifest"
    /\ \E m \in {app, None} : load' = [load EXCEPT !.pc = "engine", !.manifest = m]
    /\ UNCHANGED <<serverVars, http, loads>>

FetchEngine ==
    /\ load.pc = "engine"
    /\ Goto("chunks")
    /\ UNCHANGED <<serverVars, http, loads>>

\* manifest.pck_chunks||1
PckChunks ==
    LET n == IF load.manifest = None THEN 0 ELSE CountPckChunks(load.manifest)
    IN  IF n = 0 THEN 1 ELSE n

\* Only the answer of a 206 may be kept.
Keep(n, answer) ==
    IF answer.total = 0 THEN http ELSE {c \in http : c.n # n} \cup {[n |-> n, answer |-> answer]}

\* The answer to fetch("/chunk/i") arrives; nobody looks at its status.
Received(answer) == load' = [load EXCEPT !.pc = "chunks", !.chunks = Append(@, answer)]

\* For an hour the HTTP cache may answer the fetch.
ChunkFromCache ==
    /\ load.pc = "chunks" /\ Len(load.chunks) < PckChunks
    /\ \E c \in http : c.n = Len(load.chunks) /\ Received(c.answer)
    /\ UNCHANGED <<serverVars, http, loads>>

\* The handler of /chunk/{n} looks for game.pck and for its size: 404 without
\* the file, and 416 for a chunk behind its end.
StatChunk ==
    /\ load.pc = "chunks" /\ Len(load.chunks) < PckChunks
    /\ \/ Size[disk] = 0 /\ Received(Error)
       \/ Size[disk] # 0 /\ Len(load.chunks) * ChunkSize >= Size[disk] /\ Received(Unsatisfiable)
       \/ /\ Len(load.chunks) * ChunkSize < Size[disk]
          /\ load' = [load EXCEPT !.pc = "reading", !.size = Size[disk]]
    /\ UNCHANGED <<serverVars, http, loads>>

\* It opens and reads the file that is there by now, or answers 500 when there
\* is none any more.
ReadChunk ==
    /\ load.pc = "reading"
    /\ LET i == Len(load.chunks)
           answer == IF Size[disk] = 0 THEN Error ELSE ServeChunk(disk, load.size, i)
       IN  Received(answer) /\ http' = Keep(i, answer)
    /\ UNCHANGED <<serverVars, loads>>

\* The chunks are merged and the engine is started.
StartGame ==
    /\ load.pc = "chunks"
    /\ Len(load.chunks) = PckChunks
    /\ Goto("done")
    /\ UNCHANGED <<serverVars, http, loads>>

\* A fetch that is rejected ends load().
FetchFails ==
    /\ load.pc \in {"engine", "chunks", "reading"}
    /\ Goto("failed")
    /\ UNCHANGED <<serverVars, http, loads>>

\* load(), which the embedded page has too, with messages to the page around it.
LoadStep ==
    \/ FetchManifest \/ FetchEngine
    \/ ChunkFromCache \/ StatChunk \/ ReadChunk
    \/ StartGame \/ FetchFails

HostingNext == Rebuild \/ RegisterBuild \/ CreateApp \/ Open \/ LoadStep

HostingSpec == HostingInit /\ [][HostingNext]_hostingVars

-----------------------------------------------------------------------------
(* Properties.                                                             *)

Merged == FlattenSeq([i \in DOMAIN load.chunks |-> load.chunks[i].bytes])

\* An answer with bytes of one version only, cut by a size that it has: not the
\* empty one of a file that is too short, nor an error.
FromVersion(answer, v) ==
    /\ answer.total = Size[v] /\ answer.bytes # << >>
    /\ \A k \in DOMAIN answer.bytes : answer.bytes[k][1] = v

\* What the page merges is all of game.pck, unless a chunk was answered from
\* another version than the one scanned, or with the size of another: rebuilt
\* while the build stayed registered or between stat and open, or kept by the
\* browser's cache (hosting.py:68-71, :276-300, :374-390).
WholeFile ==
    /\ load.pc = "done" /\ load.manifest # None
    /\ \A i \in DOMAIN load.chunks : FromVersion(load.chunks[i], load.manifest)
    => Merged = Bytes(load.manifest, 0, Size[load.manifest])

=============================================================================
