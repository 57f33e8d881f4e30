-------------------------- MODULE SqliteStoreProofs --------------------------
(****************************************************************************)
(* Proofs about the two users of SqliteStore.  JitsiBot, for any number of  *)
(* messages, users, rooms, restarts and connections: what is answered is kept,*)
(* a silent command has a known cause, and grants come from moderators.     *)
(* SmartStorage, for any data types, calls and routing: what is answered is *)
(* stored, and the backends of a multi-write agree.  The two are separate   *)
(* specifications; what a theorem is about is the one it names.             *)
(****************************************************************************)
EXTENDS JitsiBot, SmartStorage, FiniteSetTheorems, SequenceTheorems, TLAPS

-----------------------------------------------------------------------------
(* The inductive invariant.                                                *)

\* Where a call of a storage object can be.
Places == {"idle", "opening", "creating", "created", "executing", "committing",
           "returned", "failed", "locked"}

\* The calls, with n connections.
OpTypeOf(n) == [pc : Places, store : Stores, on : 0 .. n, key : Keys \cup {NoKey}]
OpType == OpTypeOf(Len(conns))

\* The messages.
MessageType ==
    [pc : {"none", "publishing", "persisting"} \cup Ended, word : Words,
     user : Users \cup {None}, room : Rooms \cup {None}, early : BOOLEAN, plugin : {0} \cup Stores]

\* The types, connections and what they have pending as sequences.
Typed ==
    /\ conns \in Seq(Stores) /\ Len(conns) <= MaxConns
    /\ pending \in Seq(Rows) /\ Len(pending) = Len(conns)
    /\ conn \in [Stores -> 0 .. Len(conns)]
    /\ closed \subseteq 1 .. Len(conns)
    /\ table \in Rows
    /\ op \in [Clients -> OpType]
    /\ phase \in {"stopped", "starting", "running", "stopping"}
    /\ starts \in {0} \cup Stores
    /\ message \in [Commands -> MessageType]

\* A call that has passed connect() has a connection, and its object a handle.
CallOK(w) ==
    LET o == op[w] IN
    /\ o.pc \in {"creating", "created", "executing", "committing"} => o.on # 0
    /\ o.pc \in {"creating", "created", "executing", "committing", "returned"} => conn[o.store] # 0
    /\ o.pc \in {"executing", "committing"} => o.key # NoKey

\* A row was written by a command whose call has that key.
Owned(rows, calls) ==
    \A k \in Keys : rows[k] # NoClient => rows[k] \in Commands /\ calls[rows[k]].key = k

\* The plugin object: its storage is that of the last start, and connected
\* once start() has returned.
PluginOK ==
    /\ storage = IF phase = "stopped" THEN 0 ELSE starts
    /\ phase # "stopped" => starts # 0
    /\ phase \in {"running", "stopping"} => conn[starts] # 0
    /\ \A s \in Stores : s > starts => conn[s] = 0
    /\ op[Plugin].key = NoKey
    /\ phase = "starting" => op[Plugin].store = starts

\* A message and its call of the storage.
MessageOK(m) ==
    LET q == message[m]
        o == op[m]
    IN  /\ q.pc = "none" => ~q.early
        /\ q.pc # "none" => q.user \in Users /\ q.room \in Rooms /\ q.plugin # 0 /\ q.plugin <= starts
        /\ o.key = NoKey => o.pc = "idle"
        /\ q.pc \in {"none", "publishing"} => o.key = NoKey
        /\ q.pc = "persisting" => o.key # NoKey
        /\ o.key # NoKey => /\ o.key = KeyOf(m) /\ o.store = q.plugin
                            /\ q.word \in Persisted
        /\ q.word = "mod" /\ (q.pc = "publishing" \/ o.key # NoKey) => IsModerator(q.user)
        /\ o.pc = "opening" => o.on = 0
        /\ o.pc = "failed" => o.on = 0 \/ o.on \in closed
        /\ q.pc = "replied" => o.pc \in {"idle", "returned"}
        /\ q.pc = "raised" => o.pc \in {"failed", "locked"} \/ q.word = "tone"

\* While no message came before start() had ended, there is one open connection
\* at most, that of the newest storage object, all calls use it, and what it
\* has pending belongs to calls that are about to commit.
InTime ==
    /\ \A c \in 1 .. Len(conns) : c \notin closed => phase # "stopped" /\ c = conn[starts]
    /\ phase = "starting" => \A m \in Commands : message[m].pc # "none" => message[m].plugin < starts
    /\ phase = "starting" /\ op[Plugin].pc = "opening" => conn[starts] = 0
    /\ \A m \in Commands : op[m].key # NoKey =>
          op[m].pc \in {"executing", "committing", "returned", "failed"} /\ op[m].on = conn[op[m].store]
    /\ \A c \in 1 .. Len(conns), k \in Keys : pending[c][k] # NoClient =>
          c \notin closed /\ op[pending[c][k]].pc = "committing" /\ op[pending[c][k]].on = c

\* The inductive invariant of the bot.
IInv ==
    /\ Typed /\ PluginOK
    /\ \A w \in Clients : CallOK(w)
    /\ Owned(table, op) /\ \A c \in 1 .. Len(conns) : Owned(pending[c], op)
    /\ \A m \in Commands : MessageOK(m)
    /\ AllInTime => InTime

-----------------------------------------------------------------------------
(* The commands.                                                           *)

\* Of all commands only tone lets the error of a conversion out, and mod asks
\* for a moderator.
LEMMA RegistryFacts ==
    /\ \A name \in DOMAIN CommandRegistry : CommandRegistry[name].words = "raises" => name = "tone"
    /\ "mod" \in DOMAIN CommandRegistry => CommandRegistry["mod"].moderator
<1>1. ASSUME NEW name \in DOMAIN CommandRegistry
      PROVE  \E group \in Groups : name \in DOMAIN group /\ CommandRegistry[name] = group[name]
  <2>1. \E group \in Groups : name \in DOMAIN group
    BY DEF CommandRegistry
  <2>2. CommandRegistry[name] = (CHOOSE group \in Groups : name \in DOMAIN group)[name]
    BY DEF CommandRegistry
  <2> QED
    BY <2>1, <2>2
<1>2. ASSUME NEW group \in Groups, NEW name \in DOMAIN group, group[name].words = "raises"
      PROVE  name = "tone"
  <2>1. CASE group \in {RoomCommands, DisplayCommands}
    BY <1>2, <2>1 DEF RoomCommands, DisplayCommands, Cmd, Mod, Checked
  <2>2. CASE group = MediaCommands
    BY <1>2, <2>2 DEF MediaCommands, Cmd, Mod, Checked
  <2>3. CASE group = LayoutCommands
    BY <1>2, <2>3 DEF LayoutCommands, Cmd, Mod, Checked
  <2>4. CASE group \in {ParticipantCommands, ModerationCommands}
    BY <1>2, <2>4 DEF ParticipantCommands, ModerationCommands, Cmd, Mod, Checked
  <2>5. CASE group = ChatCommands
    BY <1>2, <2>5 DEF ChatCommands, Cmd, Mod, Checked
  <2>6. CASE group \in {RecordingCommands, BreakoutCommands}
    BY <1>2, <2>6 DEF RecordingCommands, BreakoutCommands, Cmd, Mod, Checked
  <2>7. CASE group = MiscCommands
    BY <1>2, <2>7 DEF MiscCommands, Cmd, Mod, Checked
  <2> QED
    BY <2>1, <2>2, <2>3, <2>4, <2>5, <2>6, <2>7 DEF Groups
<1>3. ASSUME NEW group \in Groups, "mod" \in DOMAIN group
      PROVE  group["mod"].moderator
  <2>1. ASSUME group # ParticipantCommands PROVE FALSE
    <3>1. CASE group \in {RoomCommands, DisplayCommands, ModerationCommands}
      BY <1>3, <3>1 DEF RoomCommands, DisplayCommands, ModerationCommands
    <3>2. CASE group \in {MediaCommands, LayoutCommands}
      BY <1>3, <3>2 DEF MediaCommands, LayoutCommands
    <3>3. CASE group \in {ChatCommands, RecordingCommands}
      BY <1>3, <3>3 DEF ChatCommands, RecordingCommands
    <3>4. CASE group \in {BreakoutCommands, MiscCommands}
      BY <1>3, <3>4 DEF BreakoutCommands, MiscCommands
    <3> QED
      BY <2>1, <3>1, <3>2, <3>3, <3>4 DEF Groups
  <2>2. ParticipantCommands["mod"].moderator
    BY DEF ParticipantCommands, Mod
  <2> QED
    BY <2>1, <2>2
<1> QED
  BY <1>1, <1>2, <1>3

\* What a message comes to before it is published.
LEMMA OutcomeFacts ==
    ASSUME NEW user, NEW word, NEW n, NEW convertible
    PROVE  LET out == Outcome(user, word, n, convertible)
           IN  /\ out \in {"refused", "raised", "publishing"}
               /\ out = "raised" => word = "tone"
               /\ (out = "publishing" /\ word = "mod") => IsModerator(user)
<1> DEFINE out == Outcome(user, word, n, convertible)
           args == ParseArgs(word, n, convertible)
<1>1. args \in {"none", "raises", "dict"} /\ (args = "raises" => CommandRegistry[word].words = "raises")
  BY DEF ParseArgs
<1>2. /\ out \in {"refused", "raised", "publishing"}
      /\ out # "refused" => word \in DOMAIN CommandRegistry
      /\ out = "raised" => args = "raises"
      /\ (out = "publishing" /\ CommandRegistry[word].moderator) => IsModerator(user)
  BY <1>1 DEF Outcome
<1> HIDE DEF out, args
<1>3. out = "raised" => word = "tone"
  BY <1>1, <1>2, RegistryFacts
<1>4. (out = "publishing" /\ word = "mod") => IsModerator(user)
  BY <1>2, RegistryFacts
<1> QED
  BY <1>2, <1>3, <1>4 DEF out

-----------------------------------------------------------------------------
(* A step of a call.                                                       *)

\* Facts about the objects: they are numbered from 1.
LEMMA StoresFacts == Stores \subseteq Nat /\ 0 \notin Stores
<1>1. Cardinality(Stores) \in Nat
  BY BotAssumption, FS_CardinalityType DEF BotAssumption
<1> QED
  BY <1>1, BotAssumption DEF BotAssumption

\* The object that handles a message is numbered.
LEMMA MessageFacts ==
    ASSUME IInv, NEW m \in Commands PROVE message[m] \in MessageType /\ message[m].plugin \in Nat
<1>1. message[m] \in MessageType
  BY DEF IInv, Typed
<1>2. message[m].plugin \in {0} \cup Stores
  BY <1>1 DEF MessageType
<1>3. \A x \in {0} \cup Stores : x \in Nat
  BY StoresFacts
<1> QED
  BY <1>1, <1>2, <1>3

\* Who may take a step of SQLiteStorage: start() on its way, or a command that
\* persists.
Calls(w) ==
    \/ w = Plugin /\ phase = "starting"
    \/ w \in Commands /\ message[w].pc = "persisting"

\* What every step of a call keeps: it moves its own call only, and the handle
\* of its own object only.
LEMMA CallKeeps ==
    ASSUME IInv, NEW w \in Clients, Calls(w), Typed',
           UNCHANGED <<phase, starts, storage, message, closed>>,
           \A v \in Clients \ {w} : op'[v] = op[v],
           op'[w].key = op[w].key, op'[w].store = op[w].store,
           \A s \in Stores : conn'[s] = conn[s] \/ (s = op[w].store /\ conn'[s] # 0),
           op'[w].pc \notin {"idle", "opening"},
           (w \in Commands /\ op'[w].pc = "failed") => op'[w].on = 0 \/ op'[w].on \in closed,
           CallOK(w)'
    PROVE  /\ PluginOK' /\ \A v \in Clients : CallOK(v)'
           /\ \A m \in Commands : MessageOK(m)'
           /\ \A rows : Owned(rows, op) => Owned(rows, op')
<1>0. /\ Stores \subseteq Nat /\ 0 \notin Stores /\ starts \in Nat /\ Plugin \in Clients
      /\ \A v \in Clients : op[v].store \in Stores
  BY StoresFacts, BotAssumption DEF IInv, Typed, OpType, OpTypeOf, BotAssumption
<1>1. \A v \in Clients : op'[v].key = op[v].key /\ op'[v].store = op[v].store
  OBVIOUS
<1>2. op[w].store <= starts
  <2>1. CASE w = Plugin /\ phase = "starting"
    BY <1>0, <2>1 DEF IInv, PluginOK
  <2>2. CASE w \in Commands /\ message[w].pc = "persisting"
    BY <2>2 DEF IInv, MessageOK
  <2> QED
    BY <2>1, <2>2 DEF Calls
<1>3. PluginOK'
  <2>1. phase \in {"running", "stopping"} => conn'[starts] # 0
    <3> SUFFICES ASSUME phase \in {"running", "stopping"} PROVE conn'[starts] # 0
      OBVIOUS
    <3>1. starts \in Stores /\ conn[starts] # 0
      BY DEF IInv, PluginOK, Typed
    <3> QED
      BY <3>1
  <2>2. \A s \in Stores : s > starts => conn'[s] = 0
    BY <1>0, <1>2 DEF IInv, PluginOK
  <2>3. op'[Plugin].key = NoKey /\ (phase = "starting" => op'[Plugin].store = starts)
    BY <1>0, <1>1 DEF IInv, PluginOK
  <2> QED
    BY <2>1, <2>2, <2>3 DEF IInv, PluginOK
<1>4. ASSUME NEW v \in Clients PROVE CallOK(v)'
  <2>1. CASE v = w
    BY <2>1
  <2>2. CASE v # w
    <3>1. op'[v] = op[v] /\ op[v].store \in Stores /\ CallOK(v)
      BY <1>0, <2>2 DEF IInv
    <3>2. conn[op[v].store] # 0 => conn'[op[v].store] # 0
      BY <3>1
    <3> QED
      BY <3>1, <3>2 DEF CallOK
  <2> QED
    BY <2>1, <2>2
<1>5. ASSUME NEW m \in Commands PROVE MessageOK(m)'
  <2>1. m \in Clients /\ m # Plugin /\ MessageOK(m) /\ KeyOf(m)' = KeyOf(m)
    BY DEF Commands, IInv, KeyOf
  <2>2. CASE m = w
    <3>1. message[m].pc = "persisting"
      BY <2>1, <2>2 DEF Calls
    <3> QED
      BY <2>1, <2>2, <3>1 DEF MessageOK
  <2>3. CASE m # w
    BY <2>1, <2>3 DEF MessageOK
  <2> QED
    BY <2>2, <2>3
<1>6. \A rows : Owned(rows, op) => Owned(rows, op')
  BY <1>1 DEF Owned, Commands
<1> QED
  BY <1>3, <1>4, <1>5, <1>6

\* A call that has moved on to another place, on connection i.
Moved(o, place, i) == [o EXCEPT !.pc = place, !.on = i]

\* A call that moves on to another place, on a connection.
LEMMA MovedFacts ==
    ASSUME NEW n \in Nat, NEW o \in OpTypeOf(n), NEW p \in Places, NEW N \in Nat, n <= N, NEW i \in 0 .. N
    PROVE  /\ Moved(o, p, i) \in OpTypeOf(N)
           /\ Moved(o, p, i).pc = p /\ Moved(o, p, i).on = i
           /\ Moved(o, p, i).key = o.key /\ Moved(o, p, i).store = o.store
<1>1. o.on \in 0 .. N
  BY DEF OpTypeOf
<1> QED
  BY <1>1 DEF OpTypeOf, Moved

\* Calls keep their type when connections are added.
LEMMA OpTypeGrows ==
    ASSUME NEW n \in Nat, NEW N \in Nat, n <= N PROVE OpTypeOf(n) \subseteq OpTypeOf(N)
BY DEF OpTypeOf

\* Facts about a call that the steps use.
LEMMA CallFacts ==
    ASSUME IInv, NEW w \in Clients, Calls(w)
    PROVE  /\ op[w] \in OpType /\ op[w].store \in Stores /\ CallOK(w)
           /\ conn[op[w].store] \in 0 .. Len(conns) /\ Len(conns) \in Nat
           /\ op[w].key # NoKey => w \in Commands /\ op[w].key \in Keys
           /\ op[w].key = NoKey => w = Plugin
           /\ NoRows \in Rows /\ NoClient \notin Clients
           /\ \A c \in 1 .. Len(conns) : pending[c] \in Rows
<1>1. op[w] \in OpType /\ CallOK(w)
  BY DEF IInv, Typed
<1>2. op[w].store \in Stores /\ (op[w].key # NoKey => op[w].key \in Keys)
  BY <1>1 DEF OpType, OpTypeOf
<1>3. conn[op[w].store] \in 0 .. Len(conns) /\ Len(conns) \in Nat
  BY <1>2 DEF IInv, Typed
<1>4. op[w].key # NoKey => w \in Commands
  BY DEF IInv, PluginOK, Commands
<1>5. op[w].key = NoKey => w = Plugin
  BY DEF Calls, IInv, MessageOK
<1>6. NoRows \in Rows /\ NoClient \notin Clients /\ \A c \in 1 .. Len(conns) : pending[c] \in Rows
  BY ClientsAssumption DEF NoRows, Rows, ClientsAssumption, IInv, Typed
<1> QED
  BY <1>1, <1>2, <1>3, <1>4, <1>5, <1>6

\* Whether a message came early depends on the messages alone.
LEMMA Untouched ==
    ASSUME UNCHANGED message PROVE AllInTime' <=> AllInTime
BY DEF AllInTime

\* aiosqlite.connect returns.
LEMMA OpenedInv ==
    ASSUME IInv, NEW w \in Clients, Calls(w), Opened(w), UNCHANGED <<phase, starts, storage, message>>
    PROVE  IInv'
<1> DEFINE n == Len(conns) + 1
           s == op[w].store
<1>0. /\ op[w] \in OpType /\ s \in Stores /\ CallOK(w) /\ Len(conns) \in Nat
      /\ op[w].key = NoKey => w = Plugin
      /\ NoRows \in Rows
  BY CallFacts
<1>1. /\ op[w].pc = "opening" /\ Len(conns) < MaxConns
      /\ conns' = Append(conns, s) /\ pending' = Append(pending, NoRows)
      /\ conn' = [conn EXCEPT ![s] = n]
      /\ op' = [op EXCEPT ![w] = Moved(op[w], "creating", n)]
      /\ UNCHANGED <<closed, table>>
  BY DEF Opened, At, Moved
<1>2. /\ conns' \in Seq(Stores) /\ Len(conns') = n
      /\ pending' \in Seq(Rows) /\ Len(pending') = n
      /\ \A c \in 1 .. Len(conns) : pending'[c] = pending[c]
      /\ pending'[n] = NoRows
  BY <1>0, <1>1, AppendProperties DEF IInv, Typed
<1>21. LET u == Moved(op[w], "creating", n)
       IN  u \in OpTypeOf(n) /\ u.pc = "creating" /\ u.on = n /\ u.key = op[w].key /\ u.store = s
  <2>1. op[w] \in OpTypeOf(Len(conns)) /\ "creating" \in Places /\ Len(conns) \in Nat
    BY <1>0 DEF OpType, Places
  <2>2. n \in Nat /\ Len(conns) <= n /\ n \in 0 .. n
    BY <2>1
  <2> HIDE DEF n
  <2> QED
    BY <2>1, <2>2, MovedFacts
<1>3. Moved(op[w], "creating", n) \in OpTypeOf(n)
  BY <1>21
<1>31. op'[w] = Moved(op[w], "creating", n) /\ \A v \in Clients \ {w} : op'[v] = op[v]
  BY <1>1 DEF IInv, Typed
<1>32. op' \in [Clients -> OpType']
  <2>1. OpType \subseteq OpTypeOf(n) /\ OpType' = OpTypeOf(n)
    BY <1>0, <1>2, OpTypeGrows DEF OpType
  <2> QED
    BY <1>1, <1>3, <2>1 DEF IInv, Typed
<1>4. op'[w].key = op[w].key /\ op'[w].store = s /\ op'[w].pc = "creating" /\ op'[w].on = n
  BY <1>21, <1>31
<1>5. conn' \in [Stores -> 0 .. n] /\ conn'[s] = n /\ \A t \in Stores \ {s} : conn'[t] = conn[t]
  BY <1>0, <1>1 DEF IInv, Typed
<1>6. Typed'
  <2>1. n <= MaxConns
    BY <1>0, <1>1, ClientsAssumption DEF ClientsAssumption
  <2> QED
    BY <1>0, <1>1, <1>2, <1>32, <1>5, <2>1 DEF IInv, Typed
<1>7. CallOK(w)'
  BY <1>0, <1>4, <1>5 DEF CallOK
<1>8. /\ PluginOK' /\ \A v \in Clients : CallOK(v)'
      /\ \A m \in Commands : MessageOK(m)'
      /\ \A rows : Owned(rows, op) => Owned(rows, op')
  <2>1. \A t \in Stores : conn'[t] = conn[t] \/ (t = op[w].store /\ conn'[t] # 0)
    BY <1>0, <1>5
  <2>2. op'[w].pc \notin {"idle", "opening", "failed"}
    BY <1>4
  <2> HIDE DEF n
  <2> QED
    BY <1>1, <1>31, <1>4, <1>6, <1>7, <2>1, <2>2, CallKeeps
<1>9. Owned(table', op') /\ \A c \in 1 .. Len(conns') : Owned(pending'[c], op')
  <2>1. Owned(NoRows, op')
    BY DEF Owned, NoRows
  <2>2. Owned(table, op')
    BY <1>8 DEF IInv
  <2>3. ASSUME NEW c \in 1 .. Len(conns') PROVE Owned(pending'[c], op')
    <3>1. CASE c \in 1 .. Len(conns)
      <4>1. pending'[c] = pending[c] /\ Owned(pending[c], op)
        BY <1>2, <3>1 DEF IInv
      <4> QED
        BY <4>1, <1>8
    <3>2. CASE c = n
      BY <1>2, <2>1, <3>2
    <3> QED
      BY <1>0, <1>2, <3>1, <3>2
  <2> QED
    BY <1>1, <2>2, <2>3
<1>10. ASSUME AllInTime' PROVE InTime'
  <2>1. InTime
    BY <1>10, Untouched DEF IInv
  <2>2. w = Plugin /\ phase = "starting" /\ s = starts
    <3>1. w \notin Commands
      BY <1>1, <1>0, <2>1 DEF InTime, IInv, MessageOK
    <3> QED
      BY <3>1 DEF Calls, IInv, PluginOK
  <2>3. \A c \in 1 .. Len(conns) : c \in closed
    BY <1>0, <1>1, <2>1, <2>2 DEF InTime
  <2>4. \A c \in 1 .. Len(conns') : c \notin closed' => phase' # "stopped" /\ c = conn'[starts]
    BY <1>0, <1>1, <1>2, <1>5, <2>2, <2>3
  <2>5. \A m \in Commands : op[m].key # NoKey => op[m].store # s
    <3> SUFFICES ASSUME NEW m \in Commands, op[m].key # NoKey PROVE op[m].store # s
      OBVIOUS
    <3>1. message[m].pc # "none" /\ op[m].store = message[m].plugin
      BY DEF IInv, MessageOK
    <3>2. message[m].plugin < starts
      BY <2>1, <2>2, <3>1 DEF InTime
    <3>3. starts \in Nat
      BY StoresFacts DEF IInv, Typed
    <3>4. op[m].store < starts
      BY <3>1, <3>2
    <3> HIDE DEF s
    <3> QED
      BY <2>2, <3>3, <3>4
  <2>6. \A m \in Commands : op'[m] = op[m] /\ op[m].store \in Stores
    BY <1>31, <2>2 DEF Commands, IInv, Typed, OpType, OpTypeOf
  <2>7. \A m \in Commands : op'[m].key # NoKey =>
          op'[m].pc \in {"executing", "committing", "returned", "failed"} /\ op'[m].on = conn'[op'[m].store]
    BY <1>5, <2>1, <2>5, <2>6 DEF InTime
  <2>8. \A c \in 1 .. Len(conns'), k \in Keys : pending'[c][k] = NoClient
    BY <1>0, <1>2, <2>1, <2>3 DEF InTime, NoRows
  <2> QED
    BY <1>4, <2>1, <2>2, <2>4, <2>7, <2>8 DEF InTime
<1> QED
  BY <1>6, <1>8, <1>9, <1>10 DEF IInv

\* A step that opens no connection: the call moves to place p on connection i.
MovesTo(w, p, i) ==
    /\ op' = [op EXCEPT ![w] = Moved(op[w], p, i)]
    /\ UNCHANGED <<conns, conn, closed, phase, starts, storage, message>>

\* What such a step keeps whatever it does to the rows.
LEMMA MoveKeeps ==
    ASSUME IInv, NEW w \in Clients, Calls(w), NEW p \in Places \ {"idle", "opening"},
           NEW i \in 0 .. Len(conns), MovesTo(w, p, i),
           pending' \in Seq(Rows), Len(pending') = Len(conns), table' \in Rows,
           (w \in Commands /\ p = "failed") => i = 0 \/ i \in closed,
           p \in {"creating", "created", "executing", "committing"} => i # 0,
           p \in {"creating", "created", "executing", "committing", "returned"} => conn[op[w].store] # 0,
           p \in {"executing", "committing"} => op[w].key # NoKey
    PROVE  /\ Typed' /\ PluginOK' /\ \A v \in Clients : CallOK(v)'
           /\ \A m \in Commands : MessageOK(m)'
           /\ \A rows : Owned(rows, op) => Owned(rows, op')
           /\ \A v \in Clients \ {w} : op'[v] = op[v]
           /\ op'[w].pc = p /\ op'[w].on = i /\ op'[w].key = op[w].key /\ op'[w].store = op[w].store
<1>0. /\ op[w] \in OpTypeOf(Len(conns)) /\ Len(conns) \in Nat /\ Len(conns) <= Len(conns) /\ p \in Places
      /\ UNCHANGED <<conns, conn, closed, phase, starts, storage, message>>
      /\ op' = [op EXCEPT ![w] = Moved(op[w], p, i)]
  BY CallFacts DEF OpType, MovesTo
<1>1. /\ Moved(op[w], p, i) \in OpTypeOf(Len(conns))
      /\ Moved(op[w], p, i).pc = p /\ Moved(op[w], p, i).on = i
      /\ Moved(op[w], p, i).key = op[w].key /\ Moved(op[w], p, i).store = op[w].store
  BY <1>0, MovedFacts
<1>2. op'[w] = Moved(op[w], p, i) /\ \A v \in Clients \ {w} : op'[v] = op[v]
  BY <1>0 DEF IInv, Typed
<1>3. op' \in [Clients -> OpType']
  <2>1. OpType' = OpTypeOf(Len(conns)) /\ OpType = OpTypeOf(Len(conns))
    BY <1>0 DEF OpType
  <2> QED
    BY <1>0, <1>1, <2>1 DEF IInv, Typed
<1>4. Typed'
  <2>1. MessageType' = MessageType
    BY DEF MessageType
  <2> QED
    BY <1>0, <1>3, <2>1 DEF IInv, Typed
<1>5. op'[w].pc = p /\ op'[w].on = i /\ op'[w].key = op[w].key /\ op'[w].store = op[w].store
  BY <1>1, <1>2
<1>6. CallOK(w)'
  BY <1>0, <1>5 DEF CallOK
<1>7. /\ PluginOK' /\ \A v \in Clients : CallOK(v)'
      /\ \A m \in Commands : MessageOK(m)'
      /\ \A rows : Owned(rows, op) => Owned(rows, op')
  BY <1>0, <1>2, <1>4, <1>5, <1>6, CallKeeps
<1> QED
  BY <1>2, <1>4, <1>5, <1>7

\* And how it keeps InTime.
LEMMA MoveInTime ==
    ASSUME IInv, InTime, NEW w \in Clients, Calls(w), NEW p, NEW i,
           UNCHANGED <<conns, conn, closed, phase, starts, storage, message>>,
           \A v \in Clients \ {w} : op'[v] = op[v],
           op'[w].pc = p, op'[w].on = i, op'[w].key = op[w].key, op'[w].store = op[w].store,
           p # "opening",
           w \in Commands => p \in {"executing", "committing", "returned", "failed"} /\ i = conn[op[w].store],
           \A c \in 1 .. Len(conns), k \in Keys : pending'[c][k] # NoClient =>
               c \notin closed /\ op'[pending'[c][k]].pc = "committing" /\ op'[pending'[c][k]].on = c
    PROVE  InTime'
<1>1. Plugin \in Clients
  BY BotAssumption DEF BotAssumption
<1>2. (phase' = "starting" /\ op'[Plugin].pc = "opening") => conn'[starts'] = 0
  BY <1>1 DEF InTime
<1>3. ASSUME NEW m \in Commands, op'[m].key # NoKey
      PROVE  op'[m].pc \in {"executing", "committing", "returned", "failed"} /\ op'[m].on = conn'[op'[m].store]
  <2>1. CASE m = w
    BY <2>1
  <2>2. CASE m # w
    BY <1>3, <2>2 DEF InTime, Commands
  <2> QED
    BY <2>1, <2>2
<1>4. \A c \in 1 .. Len(conns') : c \notin closed' => phase' # "stopped" /\ c = conn'[starts']
  BY DEF InTime
<1>5. phase' = "starting" => \A m \in Commands : message'[m].pc # "none" => message'[m].plugin < starts'
  BY DEF InTime
<1>6. \A c \in 1 .. Len(conns'), k \in Keys : pending'[c][k] # NoClient =>
          c \notin closed' /\ op'[pending'[c][k]].pc = "committing" /\ op'[pending'[c][k]].on = c
  OBVIOUS
<1> QED
  BY <1>2, <1>3, <1>4, <1>5, <1>6 DEF InTime

\* CREATE TABLE returns.
LEMMA CreatedInv ==
    ASSUME IInv, NEW w \in Clients, Calls(w), Created(w), UNCHANGED <<phase, starts, storage, message>>
    PROVE  IInv'
<1> DEFINE i == conn[op[w].store]
<1>0. /\ op[w].pc = "creating" /\ i \in 0 .. Len(conns) /\ i # 0
      /\ op[w].key = NoKey => w = Plugin
      /\ UNCHANGED <<conns, conn, closed, pending, table>>
      /\ MovesTo(w, "created", i)
  BY CallFacts DEF Created, At, GotoOn, CallOK, MovesTo, Moved
<1>1. /\ pending' \in Seq(Rows) /\ Len(pending') = Len(conns) /\ table' \in Rows
      /\ "created" \in Places \ {"idle", "opening"}
  BY <1>0 DEF IInv, Typed, Places
<1> HIDE DEF i
<1>2. /\ Typed' /\ PluginOK' /\ \A v \in Clients : CallOK(v)'
      /\ \A m \in Commands : MessageOK(m)'
      /\ \A rows : Owned(rows, op) => Owned(rows, op')
      /\ \A v \in Clients \ {w} : op'[v] = op[v]
      /\ op'[w].pc = "created" /\ op'[w].on = i /\ op'[w].key = op[w].key /\ op'[w].store = op[w].store
  BY <1>0, <1>1, MoveKeeps DEF i
<1>3. Owned(table', op') /\ \A c \in 1 .. Len(conns') : Owned(pending'[c], op')
  BY <1>0, <1>2 DEF IInv
<1>4. ASSUME AllInTime' PROVE InTime'
  <2>1. InTime
    BY <1>4, Untouched DEF IInv
  <2>2. w \notin Commands
    BY <1>0, <2>1 DEF InTime, Calls, IInv, MessageOK
  <2>3. ASSUME NEW c \in 1 .. Len(conns), NEW k \in Keys, pending'[c][k] # NoClient
        PROVE  c \notin closed /\ op'[pending'[c][k]].pc = "committing" /\ op'[pending'[c][k]].on = c
    <3>1. pending[c][k] \in Commands
      BY <1>0, <2>3 DEF IInv, Owned
    <3>2. op'[pending[c][k]] = op[pending[c][k]]
      BY <1>2, <2>2, <3>1 DEF Commands
    <3> QED
      BY <1>0, <2>1, <2>3, <3>2 DEF InTime
  <2> QED
    BY <1>0, <1>2, <2>1, <2>2, <2>3, MoveInTime
<1> QED
  BY <1>2, <1>3, <1>4 DEF IInv

\* The statement of a write returns.
LEMMA ExecutedInv ==
    ASSUME IInv, NEW w \in Clients, Calls(w), Executed(w), UNCHANGED <<phase, starts, storage, message>>
    PROVE  IInv'
<1> DEFINE i == conn[op[w].store]
           d == op[w].on
           key == op[w].key
<1>0. /\ op[w].pc = "executing" /\ i \in 0 .. Len(conns) /\ i # 0
      /\ key \in Keys /\ key # NoKey /\ w \in Commands /\ Len(conns) \in Nat
      /\ d \in 1 .. Len(conns) /\ d \notin closed
      /\ pending' = [pending EXCEPT ![d] = [pending[d] EXCEPT ![key] = w]]
      /\ UNCHANGED <<conns, conn, closed, table>>
      /\ MovesTo(w, "committing", i)
  <2>1. op[w].on \in 0 .. Len(conns)
    BY CallFacts DEF OpType, OpTypeOf
  <2>2. /\ op[w].pc = "executing" /\ op[w].on \notin closed /\ UNCHANGED <<conns, conn, closed, table>>
        /\ pending' = [pending EXCEPT ![d] = [pending[d] EXCEPT ![key] = w]]
    BY DEF Executed, At
  <2>3. MovesTo(w, "committing", i)
    BY DEF Executed, GotoOn, MovesTo, Moved
  <2>4. CallOK(w)
    BY CallFacts
  <2>5. op[w].on # 0 /\ conn[op[w].store] # 0 /\ op[w].key # NoKey
    BY <2>2, <2>4 DEF CallOK
  <2>6. /\ conn[op[w].store] \in 0 .. Len(conns) /\ Len(conns) \in Nat
        /\ op[w].key # NoKey => w \in Commands /\ op[w].key \in Keys
    BY CallFacts
  <2> QED
    BY <2>1, <2>2, <2>3, <2>5, <2>6
<1> HIDE DEF i, d, key
<1>1. /\ pending \in Seq(Rows) /\ Len(pending) = Len(conns) /\ pending[d] \in Rows
      /\ \A c \in 1 .. Len(conns) : Owned(pending[c], op)
  BY <1>0, ElementOfSeq DEF IInv, Typed
<1>2. [pending[d] EXCEPT ![key] = w] \in Rows
  BY <1>0, <1>1 DEF Rows
<1>3. /\ pending' \in Seq(Rows) /\ Len(pending') = Len(conns)
      /\ pending'[d] = [pending[d] EXCEPT ![key] = w]
      /\ \A c \in 1 .. Len(conns) : c # d => pending'[c] = pending[c]
  BY <1>0, <1>1, <1>2, ExceptSeq
<1>4. table' \in Rows /\ "committing" \in Places \ {"idle", "opening"}
  BY <1>0 DEF IInv, Typed, Places
<1>5. /\ Typed' /\ PluginOK' /\ \A v \in Clients : CallOK(v)'
      /\ \A m \in Commands : MessageOK(m)'
      /\ \A rows : Owned(rows, op) => Owned(rows, op')
      /\ \A v \in Clients \ {w} : op'[v] = op[v]
      /\ op'[w].pc = "committing" /\ op'[w].on = i /\ op'[w].key = key /\ op'[w].store = op[w].store
  BY <1>0, <1>3, <1>4, MoveKeeps DEF i, key
<1>6. \A k \in Keys : pending'[d][k] = IF k = key THEN w ELSE pending[d][k]
  BY <1>0, <1>1, <1>3 DEF Rows
<1>7. Owned(table', op') /\ \A c \in 1 .. Len(conns') : Owned(pending'[c], op')
  <2>1. Owned(table', op')
    BY <1>0, <1>5 DEF IInv
  <2>2. Owned(pending[d], op')
    BY <1>0, <1>1, <1>5
  <2>3. Owned(pending'[d], op')
    BY <1>0, <1>5, <1>6, <2>2 DEF Owned
  <2>4. ASSUME NEW c \in 1 .. Len(conns), c # d PROVE Owned(pending'[c], op')
    <3>1. pending'[c] = pending[c] /\ Owned(pending[c], op)
      BY <1>1, <1>3, <2>4
    <3> QED
      BY <1>5, <3>1
  <2> QED
    BY <1>0, <2>1, <2>3, <2>4
<1>8. ASSUME AllInTime' PROVE InTime'
  <2>1. InTime
    BY <1>8, Untouched DEF IInv
  <2>2. d = i
    BY <1>0, <2>1 DEF InTime, d, i, key
  <2>3. ASSUME NEW c \in 1 .. Len(conns), NEW k \in Keys, pending'[c][k] # NoClient
        PROVE  c \notin closed /\ op'[pending'[c][k]].pc = "committing" /\ op'[pending'[c][k]].on = c
    <3>1. CASE c = d /\ k = key
      BY <1>0, <1>5, <1>6, <2>2, <3>1
    <3>2. CASE ~(c = d /\ k = key)
      <4>1. pending'[c][k] = pending[c][k]
        BY <1>3, <1>6, <3>2
      <4>2. pending[c][k] \in Commands
        BY <1>1, <2>3, <4>1 DEF Owned
      <4>3. c \notin closed /\ op[pending[c][k]].pc = "committing" /\ op[pending[c][k]].on = c
        BY <2>1, <2>3, <4>1 DEF InTime
      <4>4. op'[pending[c][k]] = op[pending[c][k]]
        BY <1>0, <1>5, <4>2, <4>3 DEF Commands
      <4> QED
        BY <4>1, <4>3, <4>4
    <3> QED
      BY <3>1, <3>2
  <2>4. w \in Commands => "committing" \in {"executing", "committing", "returned", "failed"} /\ i = conn[op[w].store]
    BY DEF i
  <2> QED
    BY <1>0, <1>5, <2>1, <2>3, <2>4, MoveInTime DEF key
<1> QED
  BY <1>5, <1>7, <1>8 DEF IInv

\* The commit of connect or of a write returns.
LEMMA CommittedInv ==
    ASSUME IInv, NEW w \in Clients, Calls(w), Committed(w), UNCHANGED <<phase, starts, storage, message>>
    PROVE  IInv'
<1> DEFINE d == op[w].on
           again == op[w].pc = "created" /\ op[w].key # NoKey
           p == IF again THEN "executing" ELSE "returned"
           i == IF again THEN conn[op[w].store] ELSE d
<1>0. /\ op[w].pc \in {"created", "committing"} /\ d \in 1 .. Len(conns) /\ d \notin closed
      /\ conn[op[w].store] \in 0 .. Len(conns) /\ conn[op[w].store] # 0
      /\ Len(conns) \in Nat
      /\ pending' = [pending EXCEPT ![d] = NoRows]
      /\ table' = [k \in Keys |-> IF pending[d][k] # NoClient THEN pending[d][k] ELSE table[k]]
      /\ UNCHANGED <<conns, conn, closed>>
  <2>1. op[w].on \in 0 .. Len(conns)
    BY CallFacts DEF OpType, OpTypeOf
  <2> QED
    BY <2>1, CallFacts DEF Committed, Commit, At, CallOK
<1>01. MovesTo(w, p, i)
  <2>1. CASE again
    BY <2>1, <1>0 DEF Committed, At, GotoOn, MovesTo, Moved
  <2>2. CASE ~again
    <3>1. op' = [op EXCEPT ![w].pc = "returned"]
      BY <2>2 DEF Committed, At, Goto
    <3>2. [op[w] EXCEPT !.pc = "returned"] = Moved(op[w], "returned", op[w].on)
      BY CallFacts DEF Moved, OpType, OpTypeOf
    <3> QED
      BY <2>2, <3>1, <3>2, <1>0 DEF MovesTo
  <2> QED
    BY <2>1, <2>2
<1>02. /\ p \in Places \ {"idle", "opening"} /\ p \in {"executing", "returned"} /\ i \in 0 .. Len(conns) /\ i # 0
       /\ p = "executing" => op[w].key # NoKey
       /\ p = "executing" => i = conn[op[w].store] /\ op[w].pc = "created"
       /\ p = "returned" => i = d
  BY <1>0 DEF Places
<1> HIDE DEF i, d, p, again
<1>1. /\ pending \in Seq(Rows) /\ Len(pending) = Len(conns) /\ pending[d] \in Rows /\ table \in Rows
      /\ NoRows \in Rows
      /\ \A c \in 1 .. Len(conns) : Owned(pending[c], op)
  BY <1>0, ElementOfSeq, CallFacts DEF IInv, Typed
<1>3. /\ pending' \in Seq(Rows) /\ Len(pending') = Len(conns)
      /\ pending'[d] = NoRows
      /\ \A c \in 1 .. Len(conns) : c # d => pending'[c] = pending[c]
  BY <1>0, <1>1, ExceptSeq
<1>4. table' \in Rows
  BY <1>0, <1>1 DEF Rows
<1>5. /\ Typed' /\ PluginOK' /\ \A v \in Clients : CallOK(v)'
      /\ \A m \in Commands : MessageOK(m)'
      /\ \A rows : Owned(rows, op) => Owned(rows, op')
      /\ \A v \in Clients \ {w} : op'[v] = op[v]
      /\ op'[w].pc = p /\ op'[w].on = i /\ op'[w].key = op[w].key /\ op'[w].store = op[w].store
  BY <1>0, <1>01, <1>02, <1>3, <1>4, MoveKeeps
<1>7. Owned(table', op') /\ \A c \in 1 .. Len(conns') : Owned(pending'[c], op')
  <2>1. Owned(table', op')
    <3>1. Owned(table, op') /\ Owned(pending[d], op')
      BY <1>0, <1>1, <1>5 DEF IInv
    <3> QED
      BY <1>0, <3>1 DEF Owned
  <2>3. Owned(pending'[d], op')
    BY <1>3 DEF Owned, NoRows
  <2>4. ASSUME NEW c \in 1 .. Len(conns), c # d PROVE Owned(pending'[c], op')
    <3>1. pending'[c] = pending[c] /\ Owned(pending[c], op)
      BY <1>1, <1>3, <2>4
    <3> QED
      BY <1>5, <3>1
  <2> QED
    BY <1>0, <2>1, <2>3, <2>4
<1>8. ASSUME AllInTime' PROVE InTime'
  <2>1. InTime
    BY <1>8, Untouched DEF IInv
  <2>2. w \in Commands => op[w].key # NoKey
    BY CallFacts DEF Commands
  <2>3. w \in Commands => p = "returned" /\ d = conn[op[w].store]
    BY <1>02, <2>1, <2>2 DEF InTime, d
  <2>4. ASSUME NEW c \in 1 .. Len(conns), NEW k \in Keys, pending'[c][k] # NoClient
        PROVE  c \notin closed /\ op'[pending'[c][k]].pc = "committing" /\ op'[pending'[c][k]].on = c
    <3>1. c # d
      BY <1>3, <2>4 DEF NoRows
    <3>2. pending'[c][k] = pending[c][k]
      BY <1>3, <3>1
    <3>3. pending[c][k] \in Commands
      BY <1>1, <2>4, <3>2 DEF Owned
    <3>4. c \notin closed /\ op[pending[c][k]].pc = "committing" /\ op[pending[c][k]].on = c
      BY <2>1, <2>4, <3>2 DEF InTime
    <3>5. pending[c][k] # w
      BY <3>1, <3>4 DEF d
    <3> QED
      BY <1>5, <3>2, <3>3, <3>4, <3>5 DEF Commands
  <2>5. /\ w \in Commands => p \in {"executing", "committing", "returned", "failed"} /\ i = conn[op[w].store]
        /\ p # "opening"
    BY <1>02, <2>3
  <2> QED
    BY <1>0, <1>5, <2>1, <2>4, <2>5, MoveInTime
<1> QED
  BY <1>5, <1>7, <1>8 DEF IInv

\* A call fails: while no message came early, the file is not locked, as the
\* only open connection is the call's own.
LEMMA RaisesInv ==
    ASSUME IInv, NEW w \in Clients, Calls(w), Raises(w), UNCHANGED <<phase, starts, storage, message>>
    PROVE  IInv'
<1> DEFINE d == op[w].on
<1>0. /\ d \in 0 .. Len(conns) /\ Len(conns) \in Nat
      /\ UNCHANGED <<conns, conn, closed, pending, table>>
      /\ pending' \in Seq(Rows) /\ Len(pending') = Len(conns) /\ table' \in Rows
      /\ \A c \in 1 .. Len(conns) : pending[c] \in Rows
      /\ \A c \in 1 .. Len(conns) : Owned(pending[c], op)
  BY CallFacts DEF OpType, OpTypeOf, Raises, IInv, Typed
<1>1. PICK p \in {"failed", "locked"} :
      /\ op' = [op EXCEPT ![w].pc = p]
      /\ p = "failed" => op[w].pc = "opening" \/ d \in closed
      /\ p = "locked" => op[w].pc = "executing" /\ d \notin closed /\ LockedFor(d)
  BY DEF Raises, Goto, At
<1>2. MovesTo(w, p, d) /\ p \in Places \ {"idle", "opening"}
  <2>1. [op[w] EXCEPT !.pc = p] = Moved(op[w], p, op[w].on)
    BY CallFacts DEF Moved, OpType, OpTypeOf
  <2> QED
    BY <1>0, <1>1, <2>1 DEF MovesTo, Places
<1>3. (w \in Commands /\ p = "failed") => d = 0 \/ d \in closed
  BY <1>1 DEF IInv, MessageOK
<1> HIDE DEF d
<1>5. /\ Typed' /\ PluginOK' /\ \A v \in Clients : CallOK(v)'
      /\ \A m \in Commands : MessageOK(m)'
      /\ \A rows : Owned(rows, op) => Owned(rows, op')
      /\ \A v \in Clients \ {w} : op'[v] = op[v]
      /\ op'[w].pc = p /\ op'[w].on = d /\ op'[w].key = op[w].key /\ op'[w].store = op[w].store
  BY <1>0, <1>1, <1>2, <1>3, MoveKeeps
<1>7. Owned(table', op') /\ \A c \in 1 .. Len(conns') : Owned(pending'[c], op')
  BY <1>0, <1>5 DEF IInv
<1>8. ASSUME AllInTime' PROVE InTime'
  <2>1. InTime
    BY <1>8, Untouched DEF IInv
  <2>2. p # "locked"
    <3> SUFFICES ASSUME p = "locked" PROVE FALSE
      OBVIOUS
    <3>1. d # 0 /\ d \notin closed
      BY <1>1, CallFacts DEF CallOK, d
    <3>2. PICK e \in 1 .. Len(conns) : e # d /\ pending[e] # NoRows
      BY <1>0, <1>1 DEF LockedFor, Connections, IInv, Typed
    <3>3. PICK k \in Keys : pending[e][k] # NoClient
      BY <1>0, <3>2 DEF Rows, NoRows
    <3>4. e \notin closed
      BY <2>1, <3>3 DEF InTime
    <3>5. d = conn[starts] /\ e = conn[starts]
      BY <1>0, <2>1, <3>1, <3>4 DEF InTime
    <3> QED
      BY <3>2, <3>5
  <2>3. w \in Commands => d = conn[op[w].store]
    <3>1. w \in Commands => op[w].key # NoKey
      BY CallFacts DEF Commands
    <3> QED
      BY <2>1, <3>1 DEF InTime, d
  <2>4. ASSUME NEW c \in 1 .. Len(conns), NEW k \in Keys, pending'[c][k] # NoClient
        PROVE  c \notin closed /\ op'[pending'[c][k]].pc = "committing" /\ op'[pending'[c][k]].on = c
    <3>1. pending'[c][k] = pending[c][k]
      BY <1>0
    <3>2. pending[c][k] \in Commands
      BY <1>0, <2>4, <3>1 DEF Owned
    <3>3. c \notin closed /\ op[pending[c][k]].pc = "committing" /\ op[pending[c][k]].on = c
      BY <2>1, <2>4, <3>1 DEF InTime
    <3>4. pending[c][k] # w
      BY <1>1, <2>2, <3>3 DEF d
    <3> QED
      BY <1>5, <3>1, <3>2, <3>3, <3>4 DEF Commands
  <2>5. /\ w \in Commands => p \in {"executing", "committing", "returned", "failed"} /\ d = conn[op[w].store]
        /\ p # "opening"
    BY <2>2, <2>3
  <2> QED
    BY <1>0, <1>5, <2>1, <2>4, <2>5, MoveInTime
<1> QED
  BY <1>5, <1>7, <1>8 DEF IInv

\* Every step of a call.
LEMMA StoreStepInv ==
    ASSUME IInv, NEW w \in Clients, Calls(w), StoreStep(w), UNCHANGED <<phase, starts, storage, message>>
    PROVE  IInv'
BY OpenedInv, CreatedInv, ExecutedInv, CommittedInv, RaisesInv DEF StoreStep

-----------------------------------------------------------------------------
(* The plugin.                                                             *)

\* start() up to its first await: every connection there is was closed by the
\* stop before it, and all messages belong to earlier objects.
LEMMA StartInv == ASSUME IInv, Start PROVE IInv'
<1> DEFINE s == starts + 1
           o == [pc |-> "opening", store |-> s, on |-> 0, key |-> NoKey]
<1>0. /\ starts \in Nat /\ s \in Stores /\ Plugin \in Clients /\ Stores \subseteq Nat /\ 0 \notin Stores
      /\ Len(conns) \in Nat
  BY StoresFacts, BotAssumption DEF BotAssumption, IInv, Typed, Start
<1>1. conn[s] = 0
  BY <1>0 DEF IInv, PluginOK
<1>2. /\ phase = "stopped" /\ phase' = "starting" /\ starts' = s /\ storage' = s
      /\ op' = [op EXCEPT ![Plugin] = o]
      /\ UNCHANGED <<conns, conn, closed, pending, table, message>>
  BY <1>1 DEF Start, Begin
<1>3. o \in OpType /\ OpType' = OpType /\ MessageType' = MessageType
  BY <1>0, <1>2 DEF OpType, OpTypeOf, Places, MessageType
<1>4. o.pc = "opening" /\ o.store = s /\ o.on = 0 /\ o.key = NoKey
  OBVIOUS
<1> HIDE DEF o
<1>5. /\ op' \in [Clients -> OpType] /\ op'[Plugin] = o
      /\ \A v \in Clients \ {Plugin} : op'[v] = op[v]
  BY <1>0, <1>2, <1>3 DEF IInv, Typed
<1>6. Typed'
  BY <1>0, <1>2, <1>3, <1>5 DEF IInv, Typed
<1>7. PluginOK'
  <2>1. \A t \in Stores : t > s => conn'[t] = 0
    BY <1>0, <1>2 DEF IInv, PluginOK
  <2> QED
    BY <1>0, <1>2, <1>4, <1>5, <2>1 DEF PluginOK
<1>8. ASSUME NEW v \in Clients PROVE CallOK(v)'
  BY <1>2, <1>4, <1>5 DEF IInv, CallOK
<1>9. Owned(table', op') /\ \A c \in 1 .. Len(conns') : Owned(pending'[c], op')
  <2>1. \A rows : Owned(rows, op) => Owned(rows, op')
    BY <1>5 DEF Owned, Commands
  <2> QED
    BY <1>2, <2>1 DEF IInv
<1>10. ASSUME NEW m \in Commands PROVE MessageOK(m)'
  <2>1. op'[m] = op[m] /\ message'[m] = message[m] /\ MessageOK(m) /\ KeyOf(m)' = KeyOf(m)
    BY <1>2, <1>5 DEF IInv, Commands, KeyOf
  <2>2. message[m].plugin \in Nat
    BY MessageFacts
  <2>3. message[m].plugin <= starts => message[m].plugin <= starts'
    BY <1>0, <1>2, <2>2
  <2> QED
    BY <1>2, <2>1, <2>3 DEF MessageOK
<1>11. ASSUME AllInTime' PROVE InTime'
  <2>1. InTime
    BY <1>2, <1>11, Untouched DEF IInv
  <2>2. ASSUME NEW m \in Commands, message[m].pc # "none" PROVE message[m].plugin < s
    <3>1. message[m].plugin \in Nat
      BY MessageFacts
    <3>2. message[m].plugin <= starts
      BY <2>2 DEF IInv, MessageOK
    <3> QED
      BY <1>0, <3>1, <3>2
  <2>3. \A c \in 1 .. Len(conns) : c \in closed
    BY <1>2, <2>1 DEF InTime
  <2>4. \A m \in Commands : op'[m] = op[m]
    BY <1>5 DEF Commands
  <2>5. \A c \in 1 .. Len(conns), k \in Keys : pending[c][k] = NoClient
    BY <2>1, <2>3 DEF InTime
  <2>6. \A m \in Commands : op'[m].key # NoKey =>
          op'[m].pc \in {"executing", "committing", "returned", "failed"} /\ op'[m].on = conn'[op'[m].store]
    BY <1>2, <2>1, <2>4 DEF InTime
  <2> HIDE DEF s
  <2> QED
    BY <1>1, <1>2, <2>2, <2>3, <2>5, <2>6 DEF InTime
<1> QED
  BY <1>6, <1>7, <1>8, <1>9, <1>10, <1>11 DEF IInv

\* start() goes on, and stop() begins.
LEMMA PhaseInv ==
    ASSUME IInv, Started \/ Stop PROVE IInv'
<1>1. /\ phase' \in {"running", "stopping"} /\ phase # "stopped"
      /\ UNCHANGED <<conns, conn, closed, pending, table, op, starts, storage, message>>
  BY DEF Started, Stop, storeVars
<1>2. conn[starts] # 0
  <2>1. CASE Started
    <3>1. phase = "starting" /\ op[Plugin].pc = "returned" /\ Plugin \in Clients
      BY <2>1, BotAssumption DEF Started, BotAssumption
    <3> QED
      BY <3>1 DEF IInv, PluginOK, CallOK
  <2>2. CASE Stop
    BY <2>2 DEF Stop, IInv, PluginOK
  <2> QED
    BY <2>1, <2>2
<1>3. Typed'
  <2>1. OpType' = OpType /\ MessageType' = MessageType
    BY <1>1 DEF OpType, MessageType
  <2> QED
    BY <1>1, <2>1 DEF IInv, Typed
<1>4. PluginOK'
  BY <1>1, <1>2 DEF IInv, PluginOK
<1>5. \A w \in Clients : CallOK(w)'
  BY <1>1 DEF IInv, CallOK
<1>6. Owned(table', op') /\ \A c \in 1 .. Len(conns') : Owned(pending'[c], op')
  BY <1>1 DEF IInv
<1>7. \A m \in Commands : MessageOK(m)'
  BY <1>1 DEF IInv, MessageOK, KeyOf
<1>8. AllInTime' => InTime'
  BY <1>1, Untouched DEF IInv, InTime
<1> QED
  BY <1>3, <1>4, <1>5, <1>6, <1>7, <1>8 DEF IInv

\* stop() has closed the connection of its object: while no message came
\* early, none is open any more and nothing is pending.
LEMMA StoppedInv == ASSUME IInv, Stopped PROVE IInv'
<1> DEFINE d == conn[starts]
<1>0. /\ phase = "stopping" /\ phase' = "stopped" /\ storage' = 0 /\ storage = starts /\ starts # 0
      /\ UNCHANGED <<starts, message>> /\ d # 0
  BY DEF Stopped, IInv, PluginOK
<1>1. starts \in Stores /\ d \in 1 .. Len(conns) /\ Len(conns) \in Nat
  BY <1>0 DEF IInv, Typed
<1>2. /\ closed' = closed \cup {d}
      /\ pending' = [pending EXCEPT ![d] = NoRows]
      /\ UNCHANGED <<conns, conn, table, op>>
  BY <1>0 DEF Stopped, Close
<1> HIDE DEF d
<1>3. /\ pending' \in Seq(Rows) /\ Len(pending') = Len(conns)
      /\ pending'[d] = NoRows
      /\ \A c \in 1 .. Len(conns) : c # d => pending'[c] = pending[c]
  <2>1. pending \in Seq(Rows) /\ Len(pending) = Len(conns) /\ NoRows \in Rows
    BY DEF IInv, Typed, NoRows, Rows
  <2> QED
    BY <1>1, <1>2, <2>1, ExceptSeq
<1>4. Typed'
  <2>1. OpType' = OpType /\ MessageType' = MessageType
    BY <1>2 DEF OpType, MessageType
  <2> QED
    BY <1>0, <1>1, <1>2, <1>3, <2>1 DEF IInv, Typed
<1>5. PluginOK'
  BY <1>0, <1>2 DEF IInv, PluginOK
<1>6. \A w \in Clients : CallOK(w)'
  BY <1>2 DEF IInv, CallOK
<1>7. Owned(table', op') /\ \A c \in 1 .. Len(conns') : Owned(pending'[c], op')
  <2>1. Owned(NoRows, op)
    BY DEF Owned, NoRows
  <2>2. ASSUME NEW c \in 1 .. Len(conns) PROVE Owned(pending'[c], op)
    <3>1. CASE c = d
      BY <1>3, <2>1, <3>1
    <3>2. CASE c # d
      <4>1. pending'[c] = pending[c] /\ Owned(pending[c], op)
        BY <1>3, <3>2 DEF IInv
      <4> QED
        BY <4>1
    <3> QED
      BY <3>1, <3>2
  <2> QED
    BY <1>2, <2>2 DEF IInv
<1>8. \A m \in Commands : MessageOK(m)'
  BY <1>0, <1>2 DEF IInv, MessageOK, KeyOf
<1>9. ASSUME AllInTime' PROVE InTime'
  <2>1. InTime
    BY <1>0, <1>9, Untouched DEF IInv
  <2>2. \A c \in 1 .. Len(conns) : c \in closed'
    BY <1>2, <2>1 DEF InTime, d
  <2>3. \A c \in 1 .. Len(conns), k \in Keys : pending'[c][k] = NoClient
    <3> SUFFICES ASSUME NEW c \in 1 .. Len(conns), NEW k \in Keys PROVE pending'[c][k] = NoClient
      OBVIOUS
    <3>1. CASE c = d
      BY <1>3, <3>1 DEF NoRows
    <3>2. CASE c # d
      BY <1>2, <1>3, <2>1, <2>2, <3>2 DEF InTime
    <3> QED
      BY <3>1, <3>2
  <2> QED
    BY <1>0, <1>2, <2>1, <2>2, <2>3 DEF InTime
<1> QED
  BY <1>4, <1>5, <1>6, <1>7, <1>8, <1>9 DEF IInv

-----------------------------------------------------------------------------
(* The messages.                                                           *)

\* What a message that moves on keeps when no call does.
LEMMA MessageKeeps ==
    ASSUME IInv, NEW m \in Commands, message' \in [Commands -> MessageType],
           \A v \in Commands \ {m} : message'[v] = message[v],
           UNCHANGED <<conns, conn, closed, pending, table, op, phase, starts, storage>>,
           MessageOK(m)', AllInTime' => AllInTime,
           (AllInTime' /\ phase = "starting" /\ message'[m].pc # "none") => message'[m].plugin < starts
    PROVE  IInv'
<1>1. Typed'
  <2>1. OpType' = OpType /\ MessageType' = MessageType
    BY DEF OpType, MessageType
  <2> QED
    BY <2>1 DEF IInv, Typed
<1>2. PluginOK' /\ \A w \in Clients : CallOK(w)'
  BY DEF IInv, PluginOK, CallOK
<1>3. Owned(table', op') /\ \A c \in 1 .. Len(conns') : Owned(pending'[c], op')
  BY DEF IInv
<1>4. ASSUME NEW v \in Commands PROVE MessageOK(v)'
  <2>1. CASE v = m
    BY <2>1
  <2>2. CASE v # m
    <3>1. message'[v] = message[v] /\ MessageOK(v) /\ KeyOf(v)' = KeyOf(v)
      BY <2>2 DEF IInv, KeyOf
    <3> QED
      BY <3>1 DEF MessageOK
  <2> QED
    BY <2>1, <2>2
<1>5. ASSUME AllInTime' PROVE InTime'
  <2>1. InTime
    BY <1>5 DEF IInv
  <2>2. phase' = "starting" => \A v \in Commands : message'[v].pc # "none" => message'[v].plugin < starts'
    BY <1>5, <2>1 DEF InTime
  <2> QED
    BY <2>1, <2>2 DEF InTime
<1> QED
  BY <1>1, <1>2, <1>3, <1>4, <1>5 DEF IInv

\* A message that moves to another place.
LEMMA PlaceFacts ==
    ASSUME IInv, NEW m \in Commands, NEW place \in {"none", "publishing", "persisting"} \cup Ended,
           SetMessage(m, place)
    PROVE  /\ message' \in [Commands -> MessageType]
           /\ \A v \in Commands \ {m} : message'[v] = message[v]
           /\ message'[m].pc = place /\ message'[m].word = message[m].word
           /\ message'[m].user = message[m].user /\ message'[m].room = message[m].room
           /\ message'[m].early = message[m].early /\ message'[m].plugin = message[m].plugin
           /\ KeyOf(m)' = KeyOf(m) /\ (AllInTime' <=> AllInTime)
<1> DEFINE q == [message[m] EXCEPT !.pc = place]
<1>1. message' = [message EXCEPT ![m] = q] /\ message[m] \in MessageType
  BY MessageFacts DEF SetMessage
<1>2. /\ q \in MessageType /\ q.pc = place /\ q.word = message[m].word
      /\ q.user = message[m].user /\ q.room = message[m].room
      /\ q.early = message[m].early /\ q.plugin = message[m].plugin
  BY <1>1 DEF MessageType
<1> HIDE DEF q
<1>3. /\ message' \in [Commands -> MessageType] /\ message'[m] = q
      /\ \A v \in Commands \ {m} : message'[v] = message[v]
  BY <1>1, <1>2 DEF IInv, Typed
<1>4. KeyOf(m)' = KeyOf(m)
  BY <1>2, <1>3 DEF KeyOf
<1>5. AllInTime' <=> AllInTime
  BY <1>2, <1>3 DEF AllInTime
<1> QED
  BY <1>2, <1>3, <1>4, <1>5

\* A handler ends.
LEMMA EndsInv ==
    ASSUME IInv, NEW m \in Commands, NEW place \in Ended, SetMessage(m, place),
           message[m].pc \in {"publishing", "persisting"},
           UNCHANGED <<conns, conn, closed, pending, table, op, phase, starts, storage>>,
           place = "replied" => op[m].pc \in {"idle", "returned"},
           place = "raised" => op[m].pc \in {"failed", "locked"}
    PROVE  IInv'
<1>1. /\ message' \in [Commands -> MessageType]
      /\ \A v \in Commands \ {m} : message'[v] = message[v]
      /\ message'[m].pc = place /\ message'[m].word = message[m].word
      /\ message'[m].user = message[m].user /\ message'[m].room = message[m].room
      /\ message'[m].early = message[m].early /\ message'[m].plugin = message[m].plugin
      /\ KeyOf(m)' = KeyOf(m) /\ (AllInTime' <=> AllInTime)
  BY PlaceFacts
<1>2. place \notin {"none", "publishing", "persisting"}
  BY DEF Ended
<1>3. MessageOK(m)'
  <2>1. MessageOK(m)
    BY DEF IInv
  <2> QED
    BY <1>1, <1>2, <2>1 DEF MessageOK
<1>4. (AllInTime' /\ phase = "starting") => message'[m].plugin < starts
  BY <1>1 DEF IInv, InTime
<1> QED
  BY <1>1, <1>3, <1>4, MessageKeeps

\* A message comes in.
LEMMA OnMessageInv ==
    ASSUME IInv, NEW m \in Commands, NEW user \in Users, NEW room \in Rooms, NEW word \in Words,
           OnMessage(m, user, room, word)
    PROVE  IInv'
<1>1. PICK n \in 0 .. 2, convertible \in BOOLEAN :
          message' = [message EXCEPT ![m] = [pc |-> Outcome(user, word, n, convertible), word |-> word,
                                             user |-> user, room |-> room, early |-> phase = "starting",
                                             plugin |-> starts]]
  BY DEF OnMessage
<1> DEFINE out == Outcome(user, word, n, convertible)
           q == [pc |-> out, word |-> word, user |-> user, room |-> room,
                 early |-> phase = "starting", plugin |-> starts]
<1>2. /\ out \in {"refused", "raised", "publishing"}
      /\ out = "raised" => word = "tone"
      /\ (out = "publishing" /\ word = "mod") => IsModerator(user)
  BY OutcomeFacts
<1> HIDE DEF out
<1>3. /\ phase \in {"starting", "running"} /\ message[m].pc = "none"
      /\ UNCHANGED <<conns, conn, closed, pending, table, op, phase, starts, storage>>
  BY DEF OnMessage, storeVars
<1>4. starts \in Stores /\ starts # 0 /\ starts <= starts
  BY <1>3, StoresFacts DEF IInv, PluginOK, Typed
<1>5. /\ q \in MessageType /\ q.pc = out /\ q.word = word /\ q.user = user /\ q.room = room
      /\ q.early = (phase = "starting") /\ q.plugin = starts
  BY <1>2, <1>4 DEF MessageType, Ended
<1>6. message' = [message EXCEPT ![m] = q]
  BY <1>1 DEF out
<1> HIDE DEF q
<1>7. /\ message' \in [Commands -> MessageType] /\ message'[m] = q
      /\ \A v \in Commands \ {m} : message'[v] = message[v]
  BY <1>5, <1>6 DEF IInv, Typed
<1>8. MessageOK(m) /\ op[m].key = NoKey /\ op[m].pc = "idle" /\ ~message[m].early
  BY <1>3 DEF IInv, MessageOK
<1>9. MessageOK(m)'
  BY <1>2, <1>3, <1>4, <1>5, <1>7, <1>8 DEF MessageOK
<1>10. AllInTime' => AllInTime
  BY <1>7, <1>8 DEF AllInTime
<1>11. AllInTime' => phase # "starting"
  <2>1. AllInTime' => ~message'[m].early
    BY DEF AllInTime
  <2> QED
    BY <1>5, <1>7, <2>1
<1> QED
  BY <1>3, <1>7, <1>9, <1>10, <1>11, MessageKeeps

\* publish returns: a write begins on the connection of its own object.
LEMMA PublishedInv ==
    ASSUME IInv, NEW m \in Commands, Published(m)
    PROVE  IInv'
<1>0. /\ message[m].pc = "publishing" /\ MessageOK(m)
      /\ UNCHANGED <<conns, conn, closed, pending, table, phase, starts, storage>>
  BY DEF Published, IInv
<1>1. op[m].key = NoKey /\ op[m].pc = "idle" /\ message[m].plugin # 0 /\ message[m].room \in Rooms
  BY <1>0 DEF MessageOK
<1>2. CASE SetMessage(m, "refused") /\ UNCHANGED op
  BY <1>0, <1>1, <1>2, EndsInv DEF Ended
<1>3. CASE SetMessage(m, "replied") /\ UNCHANGED op
  BY <1>0, <1>1, <1>3, EndsInv DEF Ended
<1>4. CASE /\ storage = message[m].plugin /\ message[m].word \in Persisted
           /\ SetMessage(m, "persisting") /\ Begin(m, storage, KeyOf(m))
  <2> DEFINE key == KeyOf(m)
             pc == IF conn[storage] = 0 THEN "opening" ELSE "executing"
             o == [pc |-> pc, store |-> storage, on |-> conn[storage], key |-> key]
  <2>1. key \in Keys /\ key # NoKey
    BY <1>1, ClientsAssumption, BotAssumption DEF KeyOf, ClientsAssumption, BotAssumption
  <2>2. /\ m \in Clients /\ m # Plugin /\ storage = starts /\ storage \in Stores /\ phase # "stopped"
        /\ Len(conns) \in Nat /\ conn[storage] \in 0 .. Len(conns)
    BY <1>1, <1>4 DEF Commands, IInv, PluginOK, Typed
  <2>3. op' = [op EXCEPT ![m] = o]
    BY <1>4, <2>1 DEF Begin
  <2>4. /\ message' \in [Commands -> MessageType]
        /\ \A v \in Commands \ {m} : message'[v] = message[v]
        /\ message'[m].pc = "persisting" /\ message'[m].word = message[m].word
        /\ message'[m].user = message[m].user /\ message'[m].room = message[m].room
        /\ message'[m].early = message[m].early /\ message'[m].plugin = message[m].plugin
        /\ KeyOf(m)' = key /\ (AllInTime' <=> AllInTime)
    BY <1>4, PlaceFacts
  <2> HIDE DEF key
  <2>5. /\ o \in OpType /\ o.pc = pc /\ o.store = storage /\ o.on = conn[storage] /\ o.key = key
        /\ pc \in {"opening", "executing"} /\ (pc = "opening" <=> conn[storage] = 0)
    BY <2>1, <2>2 DEF OpType, OpTypeOf, Places
  <2> HIDE DEF o, pc
  <2>6. op' \in [Clients -> OpType] /\ op'[m] = o /\ \A v \in Clients \ {m} : op'[v] = op[v]
    BY <2>2, <2>3, <2>5 DEF IInv, Typed
  <2>7. Typed'
    <3>1. OpType' = OpType /\ MessageType' = MessageType
      BY <1>0 DEF OpType, MessageType
    <3> QED
      BY <1>0, <2>4, <2>6, <3>1 DEF IInv, Typed
  <2>8. PluginOK'
    <3>1. op'[Plugin] = op[Plugin]
      BY <2>2, <2>6, BotAssumption DEF BotAssumption
    <3> QED
      BY <1>0, <3>1 DEF IInv, PluginOK
  <2>9. ASSUME NEW w \in Clients PROVE CallOK(w)'
    <3>1. CASE w = m
      BY <1>0, <2>1, <2>2, <2>5, <2>6, <3>1 DEF CallOK
    <3>2. CASE w # m
      BY <1>0, <2>6, <3>2 DEF CallOK, IInv
    <3> QED
      BY <3>1, <3>2
  <2>10. \A rows : Owned(rows, op) => Owned(rows, op') /\ \A k \in Keys : rows[k] # m
    <3>1. ASSUME NEW rows, Owned(rows, op), NEW k \in Keys PROVE rows[k] # m
      BY <1>1, <3>1, <2>2, ClientsAssumption DEF Owned, ClientsAssumption
    <3> QED
      BY <2>6, <3>1 DEF Owned, Commands
  <2>11. Owned(table', op') /\ \A c \in 1 .. Len(conns') : Owned(pending'[c], op')
    BY <1>0, <2>10 DEF IInv
  <2>12. ASSUME NEW v \in Commands PROVE MessageOK(v)'
    <3>1. CASE v = m
      BY <1>0, <1>4, <2>1, <2>4, <2>5, <2>6, <3>1 DEF MessageOK
    <3>2. CASE v # m
      <4>1. message'[v] = message[v] /\ op'[v] = op[v] /\ MessageOK(v)
        BY <2>4, <2>6, <3>2 DEF IInv, Commands
      <4>2. KeyOf(v)' = KeyOf(v)
        BY <4>1 DEF KeyOf
      <4> QED
        BY <1>0, <4>1, <4>2 DEF MessageOK
    <3> QED
      BY <3>1, <3>2
  <2>13. ASSUME AllInTime' PROVE InTime'
    <3>1. InTime
      BY <2>13, <2>4 DEF IInv
    <3>2. phase # "starting"
      <4>1. starts \in Nat
        BY StoresFacts DEF IInv, Typed
      <4>2. phase = "starting" => message[m].plugin < starts
        BY <1>0, <3>1 DEF InTime
      <4> QED
        BY <1>4, <2>2, <4>1, <4>2
    <3>3. conn[storage] # 0
      BY <2>2, <3>2 DEF IInv, PluginOK, Typed
    <3>4. ASSUME NEW v \in Commands, op'[v].key # NoKey
          PROVE  op'[v].pc \in {"executing", "committing", "returned", "failed"} /\ op'[v].on = conn'[op'[v].store]
      <4>1. CASE v = m
        BY <1>0, <2>5, <2>6, <3>3, <4>1
      <4>2. CASE v # m
        BY <1>0, <2>6, <3>1, <3>4, <4>2 DEF InTime, Commands
      <4> QED
        BY <4>1, <4>2
    <3>5. ASSUME NEW c \in 1 .. Len(conns), NEW k \in Keys, pending[c][k] # NoClient
          PROVE  c \notin closed /\ op'[pending[c][k]].pc = "committing" /\ op'[pending[c][k]].on = c
      <4>1. pending[c][k] \in Commands /\ pending[c][k] # m
        BY <2>10, <3>5 DEF IInv, Owned
      <4>2. op'[pending[c][k]] = op[pending[c][k]]
        BY <2>6, <4>1 DEF Commands
      <4> QED
        BY <3>1, <3>5, <4>2 DEF InTime
    <3> QED
      BY <1>0, <3>1, <3>2, <3>4, <3>5 DEF InTime
  <2> QED
    BY <2>7, <2>8, <2>9, <2>11, <2>12, <2>13 DEF IInv
<1> QED
  BY <1>2, <1>3, <1>4 DEF Published

\* A command writes its row, and is answered or raises.
LEMMA PersistInv ==
    ASSUME IInv, NEW m \in Commands, Persist(m)
    PROVE  IInv'
<1>0. message[m].pc = "persisting" /\ UNCHANGED <<phase, starts, storage>> /\ m \in Clients
  BY DEF Persist, Commands
<1>1. CASE StoreStep(m) /\ UNCHANGED message
  BY <1>0, <1>1, StoreStepInv DEF Calls
<1>2. CASE op[m].pc = "returned" /\ SetMessage(m, "replied") /\ UNCHANGED storeVars
  BY <1>0, <1>2, EndsInv DEF Ended, storeVars
<1>3. CASE op[m].pc \in {"failed", "locked"} /\ SetMessage(m, "raised") /\ UNCHANGED storeVars
  BY <1>0, <1>3, EndsInv DEF Ended, storeVars
<1> QED
  BY <1>1, <1>2, <1>3 DEF Persist

-----------------------------------------------------------------------------
(* The theorems.                                                           *)

\* The plugin was never started, and there is no connection.
LEMMA InitInv == Init => IInv
<1> SUFFICES ASSUME Init PROVE IInv
  OBVIOUS
<1>1. /\ conns = << >> /\ conn = [s \in Stores |-> 0] /\ closed = {}
      /\ pending = << >> /\ table = NoRows /\ op = [w \in Clients |-> Idle]
      /\ phase = "stopped" /\ starts = 0 /\ storage = 0
  BY DEF Init, StoreInit
<1> DEFINE q == [pc |-> "none", word |-> CHOOSE word \in Words : TRUE, user |-> None,
                 room |-> None, early |-> FALSE, plugin |-> 0]
<1>2. message = [m \in Commands |-> q]
  BY DEF Init
<1>3. (CHOOSE s \in Stores : TRUE) \in Stores /\ (CHOOSE word \in Words : TRUE) \in Words
  BY BotAssumption DEF BotAssumption
<1>4. q \in MessageType /\ q.pc = "none" /\ ~q.early
  BY <1>3 DEF MessageType
<1> HIDE DEF q
<1>5. Idle \in OpTypeOf(0) /\ Idle.pc = "idle" /\ Idle.key = NoKey /\ Idle.on = 0
  BY <1>3 DEF Idle, OpTypeOf, Places
<1>6. Len(conns) = 0 /\ Len(pending) = 0
  BY <1>1
<1>7. Typed
  <2>1. table \in Rows
    BY <1>1 DEF NoRows, Rows
  <2>2. op \in [Clients -> OpType]
    BY <1>1, <1>5, <1>6 DEF OpType
  <2>3. conns \in Seq(Stores) /\ pending \in Seq(Rows) /\ Len(conns) <= MaxConns
    BY <1>1, <1>6, ClientsAssumption DEF ClientsAssumption
  <2>4. conn \in [Stores -> 0 .. Len(conns)] /\ closed \subseteq 1 .. Len(conns)
    BY <1>1, <1>6
  <2> QED
    BY <1>1, <1>2, <1>4, <1>6, <2>1, <2>2, <2>3, <2>4 DEF Typed
<1>8. PluginOK
  BY <1>1, <1>5, BotAssumption DEF PluginOK, BotAssumption
<1>9. \A w \in Clients : CallOK(w)
  BY <1>1, <1>5 DEF CallOK
<1>10. Owned(table, op) /\ \A c \in 1 .. Len(conns) : Owned(pending[c], op)
  BY <1>1, <1>6 DEF Owned, NoRows
<1>11. \A m \in Commands : MessageOK(m)
  <2> SUFFICES ASSUME NEW m \in Commands PROVE MessageOK(m)
    OBVIOUS
  <2>1. message[m] = q /\ op[m] = Idle
    BY <1>1, <1>2 DEF Commands
  <2> QED
    BY <1>4, <1>5, <2>1 DEF MessageOK
<1>12. InTime
  <2>1. \A m \in Commands : op[m] = Idle
    BY <1>1 DEF Commands
  <2> QED
    BY <1>1, <1>5, <1>6, <2>1 DEF InTime
<1> QED
  BY <1>7, <1>8, <1>9, <1>10, <1>11, <1>12 DEF IInv

\* The invariant is inductive.
THEOREM Invariance == Spec => []IInv
<1>1. IInv /\ [Next]_vars => IInv'
  <2> SUFFICES ASSUME IInv, [Next]_vars PROVE IInv'
    OBVIOUS
  <2>1. CASE Start
    BY <2>1, StartInv
  <2>2. CASE Starting
    <3>1. Plugin \in Clients /\ Calls(Plugin) /\ StoreStep(Plugin) /\ UNCHANGED <<phase, starts, storage, message>>
      BY <2>2, BotAssumption DEF Starting, Calls, BotAssumption
    <3> QED
      BY <3>1, StoreStepInv
  <2>3. CASE Started \/ Stop
    BY <2>3, PhaseInv
  <2>4. CASE Stopped
    BY <2>4, StoppedInv
  <2>5. ASSUME NEW m \in Commands, NEW user \in Users, NEW room \in Rooms, NEW word \in Words,
               OnMessage(m, user, room, word)
        PROVE  IInv'
    BY <2>5, OnMessageInv
  <2>6. ASSUME NEW m \in Commands, Published(m) PROVE IInv'
    BY <2>6, PublishedInv
  <2>7. ASSUME NEW m \in Commands, Persist(m) PROVE IInv'
    BY <2>7, PersistInv
  <2>8. CASE UNCHANGED vars
    <3>1. UNCHANGED <<conns, conn, closed, pending, table, op, phase, starts, storage, message>>
      BY <2>8 DEF vars, storeVars
    <3>2. OpType' = OpType /\ MessageType' = MessageType
      BY <3>1 DEF OpType, MessageType
    <3>3. Typed' /\ PluginOK'
      BY <3>1, <3>2 DEF IInv, Typed, PluginOK
    <3>4. (\A w \in Clients : CallOK(w)') /\ \A m \in Commands : MessageOK(m)'
      BY <3>1 DEF IInv, CallOK, MessageOK, KeyOf
    <3>5. AllInTime' => InTime'
      BY <3>1 DEF IInv, AllInTime, InTime
    <3> QED
      BY <3>1, <3>3, <3>4, <3>5 DEF IInv
  <2> QED
    BY <2>1, <2>2, <2>3, <2>4, <2>5, <2>6, <2>7, <2>8 DEF Next
<1> QED
  BY <1>1, InitInv, PTL DEF Spec

\* The types of the plugin's state and of the storage's.
THEOREM TypeCorrect == Spec => []TypeOK
<1>1. IInv => TypeOK
  <2> SUFFICES ASSUME IInv PROVE TypeOK
    OBVIOUS
  <2>1. Connections = 1 .. Len(conns) /\ Len(conns) \in Nat /\ {0} \cup Connections = 0 .. Len(conns)
    BY DEF IInv, Typed, Connections
  <2>2. pending \in [Connections -> Rows]
    BY <2>1 DEF IInv, Typed
  <2>3. StoreTypeOK
    BY <2>1, <2>2 DEF IInv, Typed, StoreTypeOK, OpType, OpTypeOf, Places
  <2>4. storage \in {0} \cup Stores
    BY DEF IInv, Typed, PluginOK
  <2> QED
    BY <2>3, <2>4 DEF IInv, Typed, MessageType, TypeOK
<1> QED
  BY <1>1, Invariance, PTL

\* While no message came before start() had ended, no answered command still
\* waits for its row to be committed (__init__.py:70-84, :221-265).
THEOREM AnswersAreKept == Spec => []AnsweredIsKept
<1>1. IInv => AnsweredIsKept
  <2> SUFFICES ASSUME IInv, AllInTime, NEW m \in Commands, NEW c \in Connections, NEW k \in Keys, pending[c][k] = m
               PROVE  message[m].pc # "replied"
    BY DEF AnsweredIsKept
  <2>1. c \in 1 .. Len(conns) /\ m # NoClient
    BY ClientsAssumption DEF Connections, IInv, Typed, Commands, ClientsAssumption
  <2>2. op[m].pc = "committing"
    BY <2>1 DEF IInv, InTime
  <2> QED
    BY <2>2 DEF IInv, MessageOK
<1> QED
  BY <1>1, Invariance, PTL

\* A command without a reply: the ValueError of tone, a connection that stop()
\* closed or that could not be opened, or a locked file after a message that
\* came before start() had ended (__init__.py:164-219).
THEOREM SilenceHasCause == Spec => []SilentHasCause
<1>1. IInv => SilentHasCause
  <2> SUFFICES ASSUME IInv, NEW m \in Commands, message[m].pc = "raised", message[m].word # "tone"
               PROVE  \/ op[m].pc = "failed" /\ (op[m].on = 0 \/ op[m].on \in closed)
                      \/ op[m].pc = "locked" /\ ~AllInTime
    BY DEF SilentHasCause
  <2>1. MessageOK(m)
    BY DEF IInv
  <2>2. op[m].pc \in {"failed", "locked"} /\ op[m].key # NoKey
    BY <2>1 DEF MessageOK
  <2>3. op[m].pc = "locked" => ~AllInTime
    BY <2>2 DEF IInv, InTime
  <2> QED
    BY <2>1, <2>2, <2>3 DEF MessageOK
<1> QED
  BY <1>1, Invariance, PTL

\* Whoever grants moderation, in a row that is kept or one that waits, is a
\* moderator (__init__.py:182-184, :257-265).
THEOREM GrantsComeFromModerators == Spec => []GrantsByModerators
<1>1. IInv => GrantsByModerators
  <2> SUFFICES ASSUME IInv, NEW r \in Rooms, NEW rows \in {table} \cup {pending[c] : c \in Connections},
                      NEW m \in Commands, rows[<<"mod", r>>] = m
               PROVE  IsModerator(message[m].user)
    BY DEF GrantsByModerators
  <2>1. Owned(rows, op)
    BY DEF IInv, Typed, Connections
  <2>2. <<"mod", r>> \in Keys /\ m # NoClient
    BY BotAssumption, ClientsAssumption DEF BotAssumption, ClientsAssumption, Commands
  <2>3. op[m].key = <<"mod", r>> /\ op[m].key # NoKey
    BY <2>1, <2>2, ClientsAssumption DEF Owned, ClientsAssumption
  <2>4. KeyOf(m) = <<"mod", r>> /\ message[m].word \in Persisted
    BY <2>3 DEF IInv, MessageOK
  <2>5. message[m].word = "mod"
    BY <2>4 DEF KeyOf, Persisted
  <2> QED
    BY <2>3, <2>5 DEF IInv, MessageOK
<1> QED
  BY <1>1, Invariance, PTL

-----------------------------------------------------------------------------
(* The storage router: what the calls of write keep.                       *)

\* The key of a request that was not made.
SomeKey == CHOOSE k \in Keys : TRUE

\* The calls of the router.
RequestType ==
    [pc : {"none", "sqlite", "creating", "inserting"} \cup InHealth \cup Over,
     engine : DOMAIN Targets \cup {"none"}, key : Keys \cup {SomeKey}]

\* The types, connections as sequences; the router closes none.
StorageTyped ==
    /\ engine \in Clients \cup {NoClient}
    /\ conns \in Seq(Stores)
    /\ pending \in Seq(Rows) /\ Len(pending) = Len(conns)
    /\ conn \in [Stores -> 0 .. Len(conns)] /\ closed = {}
    /\ table \in Rows /\ pgRows \in Rows
    /\ op \in [Clients -> OpTypeOf(Len(conns))]
    /\ request \in [Clients -> RequestType]

\* The calls of SQLite that have a connection, by where they are.
InStatement == {"creating", "created", "executing", "committing"}
Storing(w, place) == request[w].pc = "sqlite" /\ op[w].pc = place
InPostgres(w) == request[w].pc \in {"creating", "inserting"}

Writes(w) == request[w].pc = "sqlite" \/ InPostgres(w)

\* A write or a health check that is in SQLite.
InStore(w) == request[w].pc \in {"sqlite", "connecting"}

\* A write in SQLite has its request's key, and one in Postgres has an engine
\* with that part; a health check only connects.  In a statement there is a
\* connection.
WriteOK(w) ==
    /\ Writes(w) \/ request[w].pc = "true" => request[w].key \in Keys
    /\ Writes(w) => request[w].engine \in Resolved
    /\ request[w].pc = "sqlite" =>
          op[w].key = request[w].key /\ request[w].engine \in {"sqlite", "both", "cached"}
    /\ request[w].pc = "connecting" => op[w].key = NoKey /\ op[w].pc \notin {"executing", "committing"}
    /\ InStore(w) /\ op[w].pc \in InStatement => op[w].on # 0 /\ conn[op[w].store] # 0
    /\ InPostgres(w) => request[w].engine \in {"postgres", "both"}

\* The places of the call that set the engine, as long as there is no table.
Creation == {"creating", "checking", "raised", "unwell"}

\* What a call has done so far, when it is alone: its statement is the only
\* one not yet committed, on the handle of its object, and then its row is there.
WriteDone(w) ==
    /\ InStore(w) /\ op[w].pc \in InStatement => op[w].on = conn[op[w].store]
    /\ Storing(w, "committing") => pending[op[w].on] = [NoRows EXCEPT ![op[w].key] = w]
    /\ Storing(w, "returned") => table[request[w].key] = w
    /\ InPostgres(w) /\ request[w].engine = "both" => table[request[w].key] = w

\* Only a call that is about to commit has a transaction open.
Uncommitted(c) ==
    pending[c] # NoRows => \E w \in Clients : Storing(w, "committing") /\ op[w].on = c

\* No two calls are under way.
Alone == \A v, w \in Clients : Active(v) /\ Active(w) => v = w

\* What answered True is stored in each backend of its engine.
Stored(w) ==
    request[w].pc = "true" /\ request[w].engine \in Resolved =>
        /\ request[w].engine \in {"sqlite", "both"} => table[request[w].key] # NoClient
        /\ request[w].engine \in {"postgres", "both"} => pgRows[request[w].key] # NoClient
        /\ request[w].engine \in {"sqlite", "both", "postgres"}

\* A row on its way from one backend to the other.
Between(w, k) ==
    /\ request[w].key = k /\ table[k] = w
    /\ Storing(w, "returned") \/ InPostgres(w)

\* A call that wrote one backend alone.
OnlyOne(w, k) == (Wrote(w, "sqlite") \/ Wrote(w, "postgres")) /\ request[w].key = k

\* The two backends agree on a key, or it is known why not.
Settled(k) == table[k] = pgRows[k] \/ \E w \in Clients : OnlyOne(w, k) \/ Between(w, k)

\* No call has failed.
NoneRaised == \A w \in Clients : request[w].pc # "raised"

\* What holds as long as no two calls have overlapped.
Sequential ==
    /\ Alone
    /\ \A w \in Clients : WriteDone(w) /\ Stored(w)
    /\ \A c \in 1 .. Len(conns) : Uncommitted(c)
    /\ NoneRaised => \A k \in Keys : Settled(k)

\* The inductive invariant of the router.
StorageInv ==
    /\ StorageTyped
    /\ EngineHasTable
    /\ \A w \in Clients : WriteOK(w)
    /\ ~overlap => Sequential

-----------------------------------------------------------------------------
(* The engines.                                                            *)

\* The engines that can be asked for are known, and so are their backends.
LEMMA EngineFacts ==
    /\ Resolved \subseteq DOMAIN Targets
    /\ \A k \in Keys : ResolveEngine(k) \subseteq DOMAIN Targets
    /\ DOMAIN Targets = {"sqlite", "postgres", "redis", "both", "cached"}
    /\ Targets["sqlite"] = <<"sqlite">> /\ Targets["postgres"] = <<"postgres">>
    /\ Targets["redis"] = <<"redis">>
    /\ Targets["both"] = <<"sqlite", "postgres">> /\ Targets["cached"] = <<"sqlite", "redis">>
<1>1. Mapping \in [Keys -> DOMAIN Targets] /\ LevelRouting \subseteq DOMAIN Targets /\ UserRouting \subseteq DOMAIN Targets
  BY RoutingAssumption DEF RoutingAssumption
<1>2. /\ DOMAIN Targets = {"sqlite", "postgres", "redis", "both", "cached"}
      /\ Targets["sqlite"] = <<"sqlite">> /\ Targets["postgres"] = <<"postgres">>
      /\ Targets["redis"] = <<"redis">>
      /\ Targets["both"] = <<"sqlite", "postgres">> /\ Targets["cached"] = <<"sqlite", "redis">>
  BY DEF Targets
<1> HIDE DEF Targets
<1> QED
  BY <1>1, <1>2 DEF Resolved, ResolveEngine

\* A request for an engine and a key.
Asked(place, name, k) == [pc |-> place, engine |-> name, key |-> k]

\* Where a write goes first.
LEMMA FirstTarget ==
    ASSUME NEW w \in Clients, NEW k \in Keys, NEW name \in DOMAIN Targets, WriteTo(w, name, k, 1)
    PROVE  \/ /\ name \notin Resolved /\ UNCHANGED <<op, engine>>
              /\ request' = [request EXCEPT ![w] = Asked("true", name, k)]
           \/ /\ name \in Resolved /\ name \in {"sqlite", "both", "cached"} /\ UNCHANGED engine
              /\ request' = [request EXCEPT ![w] = Asked("sqlite", name, k)]
              /\ \E s \in Stores : Begin(w, s, k)
           \/ /\ name \in Resolved /\ name = "postgres" /\ SetEngine(w) /\ UNCHANGED op
              /\ request' = [request EXCEPT ![w] = Asked(IF engine = NoClient THEN "creating" ELSE "inserting", name, k)]
           \/ /\ name \in Resolved /\ name = "redis" /\ UNCHANGED <<op, engine>>
              /\ request' = [request EXCEPT ![w] = Asked("raised", name, k)]
<1>1. CASE name \notin Resolved
  BY <1>1 DEF WriteTo, Asked
<1>2. CASE name \in Resolved /\ name = "sqlite"
  BY <1>2, EngineFacts DEF WriteTo, Asked
<1>3. CASE name \in Resolved /\ name = "both"
  BY <1>3, EngineFacts DEF WriteTo, Asked
<1>4. CASE name \in Resolved /\ name = "cached"
  BY <1>4, EngineFacts DEF WriteTo, Asked
<1>5. CASE name \in Resolved /\ name = "postgres"
  <2>1. Targets[name] = <<"postgres">> /\ Len(<<"postgres">>) = 1 /\ <<"postgres">>[1] = "postgres"
    BY <1>5, EngineFacts
  <2>2. /\ request' = [request EXCEPT ![w] = [pc |-> IF engine = NoClient THEN "creating" ELSE "inserting", engine |-> name, key |-> k]]
        /\ SetEngine(w) /\ UNCHANGED op
    BY <1>5, <2>1 DEF WriteTo
  <2> QED
    BY <1>5, <2>2 DEF Asked
<1>6. CASE name \in Resolved /\ name = "redis"
  BY <1>6, EngineFacts DEF WriteTo, Asked
<1> QED
  BY <1>1, <1>2, <1>3, <1>4, <1>5, <1>6, EngineFacts

\* Where it goes when SQLite has returned.
LEMMA SecondTarget ==
    ASSUME NEW w \in Clients, NEW k, NEW name \in Resolved, name \in {"sqlite", "both", "cached"},
           WriteTo(w, name, k, 2)
    PROVE  \/ /\ name = "sqlite" /\ UNCHANGED <<op, engine>>
              /\ request' = [request EXCEPT ![w] = Asked("true", name, k)]
           \/ /\ name = "both" /\ SetEngine(w) /\ UNCHANGED op
              /\ request' = [request EXCEPT ![w] = Asked(IF engine = NoClient THEN "creating" ELSE "inserting", name, k)]
           \/ /\ name = "cached" /\ UNCHANGED <<op, engine>>
              /\ request' = [request EXCEPT ![w] = Asked("raised", name, k)]
<1>1. CASE name = "sqlite"
  BY <1>1, EngineFacts DEF WriteTo, Asked
<1>2. CASE name = "both"
  BY <1>2, EngineFacts DEF WriteTo, Asked
<1>3. CASE name = "cached"
  BY <1>3, EngineFacts DEF WriteTo, Asked
<1> QED
  BY <1>1, <1>2, <1>3

-----------------------------------------------------------------------------
(* The steps of SQLite.                                                    *)

\* The requests and calls, one by one.
LEMMA RequestFacts ==
    ASSUME StorageInv, NEW w \in Clients
    PROVE  /\ request[w] \in RequestType /\ op[w] \in OpTypeOf(Len(conns)) /\ Len(conns) \in Nat
           /\ op[w].store \in Stores /\ conn[op[w].store] \in 0 .. Len(conns) /\ op[w].on \in 0 .. Len(conns)
           /\ WriteOK(w) /\ NoRows \in Rows /\ NoClient \notin Clients /\ NoKey \notin Keys
           /\ closed = {}
<1>1. request[w] \in RequestType /\ op[w] \in OpTypeOf(Len(conns)) /\ Len(conns) \in Nat /\ WriteOK(w) /\ closed = {}
  BY DEF StorageInv, StorageTyped
<1>2. op[w].store \in Stores /\ op[w].on \in 0 .. Len(conns)
  BY <1>1 DEF OpTypeOf
<1>3. conn[op[w].store] \in 0 .. Len(conns)
  BY <1>2 DEF StorageInv, StorageTyped
<1>4. NoRows \in Rows
  BY DEF NoRows, Rows
<1> QED
  BY <1>1, <1>2, <1>3, <1>4, ClientsAssumption DEF ClientsAssumption

\* A step of SQLite: the call moves to place p on connection i.
CallMoves(w, p, i) == op' = [op EXCEPT ![w] = Moved(op[w], p, i)]

\* A step of SQLite moves nothing else.
Elsewhere == UNCHANGED <<request, engine, pgTable, pgRows, left, overlap>>

\* The types of what SQLite keeps.
StoreTyped ==
    /\ conns \in Seq(Stores)
    /\ pending \in Seq(Rows) /\ Len(pending) = Len(conns) /\ table \in Rows
    /\ conn \in [Stores -> 0 .. Len(conns)]

\* What every step of a call of SQLite keeps.
LEMMA StoreKeeps ==
    ASSUME StorageInv, NEW w \in Clients, InStore(w), op[w].pc # "returned",
           Elsewhere, UNCHANGED closed,
           NEW p \in Places, NEW i \in 0 .. Len(conns'), CallMoves(w, p, i),
           StoreTyped', Len(conns) <= Len(conns'),
           \A s \in Stores : conn'[s] = conn[s] \/ conn'[s] # 0,
           p \in InStatement => i # 0 /\ conn'[op[w].store] # 0,
           ~overlap /\ p \in InStatement => i = conn'[op[w].store],
           ~overlap /\ p = "committing" => pending'[i] = [NoRows EXCEPT ![op[w].key] = w],
           request[w].pc = "connecting" => p \notin {"executing", "committing"},
           ~overlap /\ p = "returned" /\ request[w].pc = "sqlite" => table'[request[w].key] = w,
           ~overlap => \A c \in 1 .. Len(conns') : pending'[c] # NoRows => p = "committing" /\ c = i,
           ~overlap => \A k \in Keys :
              \/ table'[k] = table[k]
              \/ table'[k] # NoClient /\ Storing(w, op[w].pc) /\ p = "returned" /\ request[w].key = k
    PROVE  StorageInv'
<1>1. /\ op'[w].pc = p /\ op'[w].on = i /\ op'[w].key = op[w].key /\ op'[w].store = op[w].store
      /\ op'[w] \in OpTypeOf(Len(conns'))
      /\ \A v \in Clients \ {w} : op'[v] = op[v]
      /\ op' \in [Clients -> OpTypeOf(Len(conns'))]
  <2>1. Len(conns) \in Nat /\ Len(conns') \in Nat /\ op[w] \in OpTypeOf(Len(conns)) /\ op \in [Clients -> OpTypeOf(Len(conns))]
    BY DEF StorageInv, StorageTyped
  <2>2. /\ Moved(op[w], p, i) \in OpTypeOf(Len(conns'))
        /\ Moved(op[w], p, i).pc = p /\ Moved(op[w], p, i).on = i
        /\ Moved(op[w], p, i).key = op[w].key /\ Moved(op[w], p, i).store = op[w].store
    BY <2>1, MovedFacts
  <2>3. \A v \in Clients : op[v] \in OpTypeOf(Len(conns'))
    BY <2>1, OpTypeGrows
  <2> QED
    BY <2>1, <2>2, <2>3 DEF CallMoves, StoreTyped
<1>2. StorageTyped' /\ UNCHANGED <<request, engine, pgTable, pgRows, overlap>>
  BY <1>1 DEF StorageInv, StorageTyped, StoreTyped, Elsewhere
<1>3. EngineHasTable'
  BY <1>2 DEF StorageInv, EngineHasTable
<1>4. ASSUME NEW v \in Clients PROVE WriteOK(v)'
  <2>1. WriteOK(v) /\ op[v].store \in Stores
    BY RequestFacts
  <2>2. CASE v = w
    BY <1>1, <1>2, <2>1, <2>2 DEF WriteOK, Writes, InStore, InPostgres, InStatement
  <2>3. CASE v # w
    <3>1. conn[op[v].store] # 0 => conn'[op[v].store] # 0
      BY <2>1
    <3> QED
      BY <1>1, <1>2, <2>1, <2>3, <3>1 DEF WriteOK, Writes, InStore, InPostgres
  <2> QED
    BY <2>2, <2>3
<1>5. ASSUME ~overlap PROVE Sequential'
  <2>0. Sequential /\ Active(w)
    BY <1>5 DEF StorageInv, Active, Over, InStore
  <2>1. Alone'
    BY <1>2, <2>0 DEF Sequential, Alone, Active
  <2>2. ASSUME NEW v \in Clients PROVE WriteDone(v)' /\ Stored(v)'
    <3>1. WriteDone(v)'
      <4>1. CASE v = w
        BY <1>1, <1>2, <1>5, <4>1 DEF WriteDone, Storing, InStore, InPostgres, InStatement
      <4>2. CASE v # w
        <5>1. ~Active(v)
          BY <2>0, <4>2 DEF Sequential, Alone
        <5> QED
          BY <1>2, <5>1 DEF WriteDone, Storing, InStore, InPostgres, Active, Over
      <4> QED
        BY <4>1, <4>2
    <3>2. Stored(v)'
      <4>1. Stored(v) /\ WriteOK(v)
        BY <2>0, RequestFacts DEF Sequential
      <4>2. request[v].pc = "true" => request[v].key \in Keys
        BY <4>1 DEF WriteOK
      <4> QED
        BY <1>2, <1>5, <4>1, <4>2 DEF Stored
    <3> QED
      BY <3>1, <3>2
  <2>3. ASSUME NEW c \in 1 .. Len(conns') PROVE Uncommitted(c)'
    BY <1>1, <1>2, <1>5, <2>3 DEF Uncommitted, Storing, InStore
  <2>4. ASSUME NoneRaised', NEW k \in Keys PROVE Settled(k)'
    <3>1. CASE table'[k] = table[k]
      <4>1. Settled(k)
        BY <1>2, <2>0, <2>4 DEF Sequential, NoneRaised
      <4>2. CASE table[k] = pgRows[k]
        BY <1>2, <3>1, <4>2 DEF Settled
      <4>3. ASSUME NEW v \in Clients, OnlyOne(v, k) \/ Between(v, k) PROVE Settled(k)'
        <5>1. CASE OnlyOne(v, k)
          BY <1>2, <5>1 DEF Settled, OnlyOne, Wrote
        <5>2. CASE Between(v, k)
          <6>1. v # w
            BY <5>2 DEF Between, Storing, InStore, InPostgres
          <6>2. Between(v, k)'
            BY <1>1, <1>2, <3>1, <5>2, <6>1 DEF Between, Storing, InPostgres
          <6> QED
            BY <6>2 DEF Settled
        <5> QED
          BY <4>3, <5>1, <5>2
      <4> QED
        BY <4>1, <4>2, <4>3 DEF Settled
    <3>2. CASE table'[k] # NoClient /\ Storing(w, op[w].pc) /\ p = "returned" /\ request[w].key = k
      <4>1. Between(w, k)'
        BY <1>1, <1>2, <1>5, <3>2 DEF Between, Storing
      <4> QED
        BY <4>1 DEF Settled
    <3> QED
      BY <1>5, <3>1, <3>2
  <2> QED
    BY <2>1, <2>2, <2>3, <2>4 DEF Sequential
<1> QED
  BY <1>2, <1>3, <1>4, <1>5 DEF StorageInv

\* Nothing is uncommitted but the statement of the call that is alone.
LEMMA NothingPending ==
    ASSUME StorageInv, ~overlap, NEW w \in Clients, InStore(w), NEW c \in 1 .. Len(conns),
           pending[c] # NoRows
    PROVE  op[w].pc = "committing" /\ op[w].on = c
<1>1. PICK v \in Clients : Storing(v, "committing") /\ op[v].on = c
  BY DEF StorageInv, Sequential, Uncommitted
<1>2. v = w
  BY <1>1 DEF StorageInv, Sequential, Alone, Active, Over, Storing, InStore
<1> QED
  BY <1>1, <1>2 DEF Storing

\* A connection is opened.
LEMMA StoreOpened ==
    ASSUME StorageInv, NEW w \in Clients, InStore(w), Opened(w), Elsewhere PROVE StorageInv'
<1> DEFINE n == Len(conns)
           s == op[w].store
<1>1. /\ op[w].pc = "opening" /\ n \in Nat /\ s \in Stores
      /\ conns' = Append(conns, s) /\ pending' = Append(pending, NoRows)
      /\ conn' = [conn EXCEPT ![s] = n + 1] /\ UNCHANGED <<closed, table>>
      /\ op' = [op EXCEPT ![w].pc = "creating", ![w].on = n + 1]
  BY RequestFacts DEF Opened, At
<1>2. conns \in Seq(Stores) /\ pending \in Seq(Rows) /\ Len(pending) = n /\ NoRows \in Rows
  BY RequestFacts DEF StorageInv, StorageTyped
<1>3. /\ conns' \in Seq(Stores) /\ Len(conns') = n + 1
      /\ pending' \in Seq(Rows) /\ Len(pending') = n + 1
      /\ pending'[n + 1] = NoRows /\ \A c \in 1 .. n : pending'[c] = pending[c]
  BY <1>1, <1>2
<1>4. CallMoves(w, "creating", n + 1)
  BY <1>1 DEF CallMoves, Moved
<1>40. "creating" \in Places /\ n + 1 \in 0 .. Len(conns') /\ n <= Len(conns')
  BY <1>1, <1>3 DEF Places
<1>5. /\ conn' \in [Stores -> 0 .. Len(conns')] /\ n + 1 # 0 /\ conn'[s] = n + 1
      /\ \A r \in Stores : conn'[r] = conn[r] \/ conn'[r] # 0
  BY <1>1, <1>3 DEF StorageInv, StorageTyped
<1>6. ~overlap => \A c \in 1 .. Len(conns') : pending'[c] = NoRows
  <2> SUFFICES ASSUME ~overlap, NEW c \in 1 .. n + 1 PROVE pending'[c] = NoRows
    BY <1>3
  <2>1. CASE c \in 1 .. n
    BY <1>1, <1>3, <2>1, NothingPending
  <2>2. CASE c = n + 1
    BY <1>3, <2>2
  <2> QED
    <3>1. n \in Nat
      BY <1>1
    <3> HIDE DEF n
    <3>2. c \in 1 .. n \/ c = n + 1
      BY <3>1
    <3> QED
      BY <2>1, <2>2, <3>2
<1>7. StoreTyped' /\ UNCHANGED closed
  BY <1>1, <1>3, <1>5 DEF StorageInv, StorageTyped, StoreTyped
<1>8. \A k \in Keys : table'[k] = table[k]
  BY <1>1
<1> HIDE DEF n, s
<1>9. conn'[op[w].store] # 0
  BY <1>5 DEF s
<1>10. n + 1 = conn'[op[w].store]
  BY <1>5 DEF s
<1> QED
  BY <1>1, <1>4, <1>40, <1>5, <1>6, <1>7, <1>8, <1>9, <1>10, StoreKeeps DEF n

\* The table is created.
LEMMA StoreCreated ==
    ASSUME StorageInv, NEW w \in Clients, InStore(w), Created(w), Elsewhere PROVE StorageInv'
<1> DEFINE i == conn[op[w].store]
<1>1. /\ op[w].pc = "creating" /\ i # 0 /\ i \in 0 .. Len(conns)
      /\ UNCHANGED <<conns, conn, closed, pending, table>>
      /\ CallMoves(w, "created", i) /\ "created" \in Places /\ Len(conns) \in Nat
  BY RequestFacts DEF Created, At, GotoOn, CallMoves, Moved, WriteOK, InStore, InStatement, Places
<1>2. ~overlap => \A c \in 1 .. Len(conns) : pending[c] = NoRows
  BY <1>1, NothingPending
<1>3. StoreTyped' /\ i \in 0 .. Len(conns') /\ Len(conns) <= Len(conns')
  BY <1>1 DEF StorageInv, StorageTyped, StoreTyped
<1>4. /\ \A r \in Stores : conn'[r] = conn[r]
      /\ conn'[op[w].store] # 0 /\ i = conn'[op[w].store]
      /\ \A k \in Keys : table'[k] = table[k]
      /\ ~overlap => \A c \in 1 .. Len(conns') : pending'[c] = NoRows
  BY <1>1, <1>2
<1> HIDE DEF i
<1> QED
  BY <1>1, <1>3, <1>4, StoreKeeps

\* The row is written, in a transaction.
LEMMA StoreExecuted ==
    ASSUME StorageInv, NEW w \in Clients, InStore(w), Executed(w), Elsewhere PROVE StorageInv'
<1> DEFINE i == conn[op[w].store]
           d == op[w].on
           key == op[w].key
<1>1. /\ op[w].pc = "executing" /\ i # 0 /\ i \in 0 .. Len(conns) /\ d # 0 /\ d \in 0 .. Len(conns)
      /\ UNCHANGED <<conns, conn, closed, table>>
      /\ CallMoves(w, "committing", i) /\ "committing" \in Places /\ Len(conns) \in Nat
      /\ key \in Keys /\ key = request[w].key /\ request[w].pc = "sqlite"
      /\ pending' = [pending EXCEPT ![d] = [pending[d] EXCEPT ![key] = w]]
  <2>1. /\ op[w].pc = "executing" /\ UNCHANGED <<conns, conn, closed, table>>
        /\ CallMoves(w, "committing", i) /\ "committing" \in Places
        /\ pending' = [pending EXCEPT ![d] = [pending[d] EXCEPT ![key] = w]]
    BY DEF Executed, At, GotoOn, CallMoves, Moved, Places
  <2> QED
    BY <2>1, RequestFacts DEF WriteOK, Writes, InStore, InStatement
<1>2. /\ conns \in Seq(Stores) /\ pending \in Seq(Rows) /\ Len(pending) = Len(conns) /\ table \in Rows
      /\ conn \in [Stores -> 0 .. Len(conns)]
  BY DEF StorageInv, StorageTyped
<1> HIDE DEF i, d, key
<1>3. d \in 1 .. Len(conns) /\ pending[d] \in Rows
  BY <1>1, <1>2, ElementOfSeq
<1>4. [pending[d] EXCEPT ![key] = w] \in Rows
  BY <1>1, <1>3 DEF Rows
<1>5. /\ pending' \in Seq(Rows) /\ Len(pending') = Len(conns)
      /\ pending'[d] = [pending[d] EXCEPT ![key] = w]
      /\ \A c \in 1 .. Len(conns) : c # d => pending'[c] = pending[c]
  <2>1. pending' = [pending EXCEPT ![d] = [pending[d] EXCEPT ![key] = w]]
    BY <1>1
  <2>2. d \in 1 .. Len(pending) /\ Len(pending) = Len(conns)
    BY <1>2, <1>3
  <2> QED
    BY <1>2, <1>4, <2>1, <2>2, ExceptSeq
<1>6. ASSUME ~overlap
      PROVE  /\ pending'[i] = [NoRows EXCEPT ![key] = w]
             /\ \A c \in 1 .. Len(conns) : pending'[c] # NoRows => c = i
  <2>1. i = d
    BY <1>1, <1>6 DEF StorageInv, Sequential, WriteDone, InStore, InStatement, i, d
  <2>2. \A c \in 1 .. Len(conns) : pending[c] = NoRows
    BY <1>1, <1>6, NothingPending
  <2> QED
    BY <1>3, <1>5, <2>1, <2>2
<1>7. StoreTyped' /\ i \in 0 .. Len(conns') /\ Len(conns) <= Len(conns')
  BY <1>1, <1>2, <1>5 DEF StoreTyped
<1>8. /\ \A r \in Stores : conn'[r] = conn[r]
      /\ conn'[op[w].store] # 0 /\ i = conn'[op[w].store]
      /\ \A k \in Keys : table'[k] = table[k]
      /\ ~overlap => pending'[i] = [NoRows EXCEPT ![op[w].key] = w]
      /\ ~overlap => \A c \in 1 .. Len(conns') : pending'[c] # NoRows => c = i
  BY <1>1, <1>6 DEF i, key
<1>9. op[w].pc # "returned" /\ request[w].pc # "connecting" /\ closed' = closed
  BY <1>1
<1>10. "committing" \in Places /\ CallMoves(w, "committing", i) /\ i # 0
  BY <1>1
<1>11. i \in 0 .. Len(conns') /\ Len(conns) <= Len(conns') /\ StoreTyped'
  BY <1>7
<1> HIDE <1>1, <1>2, <1>7
<1> QED
  BY <1>8, <1>9, <1>10, <1>11, StoreKeeps

\* A commit returns: that of connect, or the one that stores the row.
LEMMA StoreCommitted ==
    ASSUME StorageInv, NEW w \in Clients, InStore(w), Committed(w), Elsewhere PROVE StorageInv'
<1> DEFINE h == conn[op[w].store]
           d == op[w].on
           goes == op[w].pc = "created" /\ op[w].key # NoKey
           p == IF goes THEN "executing" ELSE "returned"
           i == IF goes THEN h ELSE d
<1>1. /\ op[w].pc \in {"created", "committing"} /\ h # 0 /\ h \in 0 .. Len(conns) /\ d # 0 /\ d \in 0 .. Len(conns)
      /\ UNCHANGED <<conns, conn, closed>> /\ Len(conns) \in Nat
      /\ request[w].pc = "sqlite" => op[w].key \in Keys /\ op[w].key = request[w].key /\ op[w].key # NoKey
      /\ request[w].pc = "connecting" => op[w].key = NoKey /\ op[w].pc = "created"
      /\ pending' = [pending EXCEPT ![d] = NoRows]
      /\ table' = [k \in Keys |-> IF pending[d][k] # NoClient THEN pending[d][k] ELSE table[k]]
  <2>1. /\ op[w].pc \in {"created", "committing"} /\ UNCHANGED <<conns, conn, closed>>
        /\ pending' = [pending EXCEPT ![d] = NoRows]
        /\ table' = [k \in Keys |-> IF pending[d][k] # NoClient THEN pending[d][k] ELSE table[k]]
    BY DEF Committed, Commit, At
  <2> QED
    BY <2>1, RequestFacts DEF WriteOK, Writes, InStore, InStatement
<1>2. CallMoves(w, p, i)
  <2>1. CASE goes
    BY <2>1, <1>1, RequestFacts DEF Committed, At, GotoOn, CallMoves, Moved
  <2>2. CASE ~goes
    <3>1. op' = [op EXCEPT ![w].pc = "returned"]
      BY <2>2 DEF Committed, At, Goto
    <3>2. [op[w] EXCEPT !.pc = "returned"] = Moved(op[w], "returned", op[w].on)
      BY RequestFacts DEF Moved, OpTypeOf
    <3> QED
      BY <2>2, <3>1, <3>2 DEF CallMoves
  <2> QED
    BY <2>1, <2>2
<1>3. /\ conns \in Seq(Stores) /\ pending \in Seq(Rows) /\ Len(pending) = Len(conns) /\ table \in Rows
      /\ conn \in [Stores -> 0 .. Len(conns)] /\ NoRows \in Rows /\ NoClient \notin Clients
  BY RequestFacts DEF StorageInv, StorageTyped
<1>4. /\ p \in Places /\ p # "committing" /\ i \in 0 .. Len(conns) /\ i # 0
      /\ (p \in InStatement => i = h /\ op[w].pc = "created")
      /\ (request[w].pc = "connecting" => p = "returned")
      /\ (p = "returned" /\ request[w].pc = "sqlite" => op[w].pc = "committing")
      /\ (op[w].pc = "committing" => p = "returned")
  BY <1>1 DEF Places, InStatement
<1> HIDE DEF h, d, p, i, goes
<1>5. d \in 1 .. Len(conns) /\ pending[d] \in Rows
  BY <1>1, <1>3, ElementOfSeq
<1>6. /\ pending' \in Seq(Rows) /\ Len(pending') = Len(conns)
      /\ pending'[d] = NoRows
      /\ \A c \in 1 .. Len(conns) : c # d => pending'[c] = pending[c]
  BY <1>1, <1>3, <1>5, ExceptSeq
<1>7. table' \in Rows
  BY <1>1, <1>3, <1>5 DEF Rows
<1>8. ASSUME ~overlap
      PROVE  /\ \A c \in 1 .. Len(conns) : pending'[c] = NoRows
             /\ p = "returned" /\ request[w].pc = "sqlite" => table'[request[w].key] = w
             /\ \A k \in Keys :
                   \/ table'[k] = table[k]
                   \/ table'[k] # NoClient /\ Storing(w, op[w].pc) /\ p = "returned" /\ request[w].key = k
  <2>1. \A c \in 1 .. Len(conns) : pending'[c] = NoRows
    BY <1>5, <1>6, <1>8, NothingPending DEF d
  <2>2. CASE op[w].pc = "created"
    <3>1. pending[d] = NoRows
      BY <1>5, <1>8, <2>2, NothingPending
    <3>2. \A k \in Keys : table'[k] = table[k]
      BY <1>1, <3>1 DEF NoRows
    <3> QED
      BY <1>4, <2>1, <2>2, <3>2
  <2>3. CASE op[w].pc = "committing"
    <3>0. request[w].pc = "sqlite" /\ Storing(w, op[w].pc)
      BY <1>1, <2>3 DEF InStore, Storing
    <3>1. pending[d] = [NoRows EXCEPT ![request[w].key] = w]
      BY <1>1, <1>8, <2>3, <3>0 DEF StorageInv, Sequential, WriteDone, Storing, d
    <3>2. \A k \in Keys : pending[d][k] = IF k = request[w].key THEN w ELSE NoClient
      BY <1>1, <3>0, <3>1 DEF NoRows
    <3>3. table'[request[w].key] = w /\ \A k \in Keys : k # request[w].key => table'[k] = table[k]
      BY <1>1, <1>3, <3>0, <3>2
    <3>4. p = "returned"
      BY <1>4, <2>3
    <3> QED
      BY <1>3, <2>1, <3>0, <3>3, <3>4
  <2> QED
    BY <1>1, <2>2, <2>3
<1>9. StoreTyped' /\ i \in 0 .. Len(conns') /\ Len(conns) <= Len(conns') /\ UNCHANGED closed
  BY <1>1, <1>3, <1>4, <1>6, <1>7 DEF StoreTyped
<1>10. /\ \A r \in Stores : conn'[r] = conn[r]
       /\ p \in InStatement => i # 0 /\ conn'[op[w].store] # 0 /\ i = conn'[op[w].store]
       /\ ~overlap => \A c \in 1 .. Len(conns') : pending'[c] = NoRows
  BY <1>1, <1>4, <1>8 DEF h
<1>11. op[w].pc # "returned"
  BY <1>1
<1> QED
  BY <1>2, <1>4, <1>8, <1>9, <1>10, <1>11, StoreKeeps

\* A call of SQLite fails.
LEMMA StoreRaised ==
    ASSUME StorageInv, NEW w \in Clients, InStore(w), Raises(w), Elsewhere PROVE StorageInv'
<1> DEFINE d == op[w].on
<1>1. PICK p \in {"failed", "locked"} :
      /\ op' = [op EXCEPT ![w].pc = p] /\ UNCHANGED <<conns, conn, closed, pending, table>>
      /\ op[w].pc \in {"opening", "executing"}
  BY RequestFacts DEF Raises, Goto, At
<1>2. CallMoves(w, p, d) /\ p \in Places /\ d \in 0 .. Len(conns) /\ Len(conns) \in Nat
  <2>1. [op[w] EXCEPT !.pc = p] = Moved(op[w], p, op[w].on)
    BY RequestFacts DEF Moved, OpTypeOf
  <2> QED
    BY <1>1, <2>1, RequestFacts DEF CallMoves, Places
<1>3. StoreTyped' /\ d \in 0 .. Len(conns') /\ Len(conns) <= Len(conns') /\ UNCHANGED closed
  BY <1>1, <1>2 DEF StorageInv, StorageTyped, StoreTyped
<1>4. ~overlap => \A c \in 1 .. Len(conns) : pending[c] = NoRows
  BY <1>1, NothingPending
<1>5. p \notin InStatement /\ p # "returned" /\ p # "committing" /\ op[w].pc # "returned"
  BY <1>1 DEF InStatement
<1>6. /\ \A r \in Stores : conn'[r] = conn[r]
      /\ ~overlap => \A c \in 1 .. Len(conns') : pending'[c] = NoRows
      /\ \A k \in Keys : table'[k] = table[k]
  BY <1>1, <1>4
<1> HIDE DEF d
<1> QED
  BY <1>2, <1>3, <1>5, <1>6, StoreKeeps

-----------------------------------------------------------------------------
(* The steps of the router and of Postgres.                                *)

\* A step that SQLite takes no part in.
SqliteRests == UNCHANGED <<conns, conn, closed, pending, table>>

\* The call that sets the engine goes on to create the table, and is not moved
\* away from that but by the creation or its failure.
LEMMA EngineKeeps ==
    ASSUME StorageInv, NEW w \in Clients, NEW q, request' = [request EXCEPT ![w] = q],
           engine' = engine \/ (engine' = w /\ q.pc \in Creation),
           pgTable' = pgTable \/ pgTable',
           request[w].pc \in Creation => q.pc \in Creation \/ pgTable'
    PROVE  EngineHasTable'
<1> SUFFICES ASSUME engine' # NoClient, ~pgTable' PROVE request'[engine'].pc \in Creation
  BY DEF EngineHasTable, Creation
<1>1. /\ request'[w] = q /\ \A v \in Clients \ {w} : request'[v] = request[v]
      /\ engine \in Clients \cup {NoClient}
  BY DEF StorageInv, StorageTyped
<1>2. CASE engine' = w /\ q.pc \in Creation
  BY <1>1, <1>2
<1>3. CASE engine' = engine
  <2>1. request[engine].pc \in Creation /\ engine \in Clients
    BY <1>1, <1>3 DEF StorageInv, EngineHasTable, Creation
  <2> QED
    BY <1>1, <1>3, <2>1
<1> QED
  BY <1>2, <1>3

\* What the other steps of a call keep: they move its request, may begin a call of
\* SQLite, and may write a row of Postgres.
LEMMA RequestKeeps ==
    ASSUME StorageInv, NEW w \in Clients, ~Storing(w, "committing"),
           request[w].pc \notin {"true", "raised"}, engine' \in {engine, w},
           NEW q \in RequestType, request' = [request EXCEPT ![w] = q],
           op' \in [Clients -> OpTypeOf(Len(conns))], \A v \in Clients \ {w} : op'[v] = op[v],
           SqliteRests, pgRows' \in Rows, EngineHasTable', WriteOK(w)',
           ~overlap' => ~overlap,
           ~overlap' => q.pc \in Over \/ Active(w) \/ \A v \in Clients \ {w} : ~Active(v),
           ~overlap' => WriteDone(w)' /\ Stored(w)',
           \A k \in Keys : \/ pgRows'[k] = pgRows[k]
                           \/ pgRows'[k] # NoClient /\ (~overlap' => Settled(k)'),
           ~overlap' /\ q.pc # "raised" => \A k \in Keys : Between(w, k) => Settled(k)'
    PROVE  StorageInv'
<1>1. /\ request' \in [Clients -> RequestType] /\ request'[w] = q /\ engine' \in Clients \cup {NoClient}
      /\ \A v \in Clients \ {w} : request'[v] = request[v]
      /\ UNCHANGED <<conns, conn, closed, pending, table>>
  BY DEF StorageInv, StorageTyped, SqliteRests
<1>2. StorageTyped'
  BY <1>1 DEF StorageInv, StorageTyped
<1>3. ASSUME NEW v \in Clients, v # w PROVE WriteOK(v)' /\ (Active(v)' <=> Active(v)) /\ WriteOK(v)
  <2>1. WriteOK(v) /\ op'[v] = op[v] /\ request'[v] = request[v]
    BY <1>1, <1>3, RequestFacts
  <2> QED
    BY <1>1, <2>1 DEF WriteOK, Writes, InStore, Active, InPostgres
<1>4. ASSUME ~overlap' PROVE Sequential'
  <2>0. Sequential
    BY <1>4 DEF StorageInv
  <2>1. Alone'
    <3> SUFFICES ASSUME NEW u \in Clients, NEW v \in Clients, Active(u)', Active(v)', u # v PROVE FALSE
      BY DEF Alone
    <3>1. CASE u # w /\ v # w
      BY <1>3, <2>0, <3>1 DEF Sequential, Alone
    <3>2. CASE u = w \/ v = w
      <4>0. Active(w)'
        BY <3>2
      <4>1. PICK x \in Clients \ {w} : Active(x)'
        BY <3>2
      <4>2. Active(x)
        BY <1>3, <4>1
      <4> QED
        BY <1>1, <1>4, <2>0, <4>0, <4>1, <4>2 DEF Sequential, Alone, Active
    <3> QED
      BY <3>1, <3>2
  <2>2. ASSUME NEW v \in Clients, v # w PROVE WriteDone(v)' /\ Stored(v)'
    <3>1. request'[v] = request[v] /\ op'[v] = op[v] /\ WriteDone(v) /\ Stored(v)
      BY <1>1, <2>0, <2>2 DEF Sequential
    <3>2. WriteDone(v)'
      BY <1>1, <3>1 DEF WriteDone, Storing, InStore, InPostgres
    <3>3. request[v].pc = "true" => request[v].key \in Keys
      BY <1>3, <2>2 DEF WriteOK
    <3>4. Stored(v)'
      BY <1>1, <3>1, <3>3 DEF Stored
    <3> QED
      BY <3>2, <3>4
  <2>3. ASSUME NEW c \in 1 .. Len(conns') PROVE Uncommitted(c)'
    <3> SUFFICES ASSUME pending'[c] # NoRows PROVE \E v \in Clients : Storing(v, "committing")' /\ op'[v].on = c
      BY DEF Uncommitted
    <3>1. PICK v \in Clients : Storing(v, "committing") /\ op[v].on = c
      BY <1>1, <2>0, <2>3 DEF Sequential, Uncommitted
    <3>2. v # w
      BY <3>1
    <3> QED
      BY <1>1, <3>1, <3>2 DEF Storing
  <2>4. ASSUME NoneRaised', NEW k \in Keys PROVE Settled(k)'
    <3>0. q.pc # "raised" /\ NoneRaised
      <4>1. q.pc # "raised"
        BY <1>1, <2>4 DEF NoneRaised
      <4>2. ASSUME NEW v \in Clients PROVE request[v].pc # "raised"
        BY <1>1, <2>4, <4>2 DEF NoneRaised
      <4> QED
        BY <4>1, <4>2 DEF NoneRaised
    <3>1. CASE pgRows'[k] = pgRows[k]
      <4>1. Settled(k)
        BY <2>0, <3>0 DEF Sequential
      <4>2. CASE table[k] = pgRows[k]
        BY <1>1, <3>1, <4>2 DEF Settled
      <4>3. ASSUME NEW v \in Clients, OnlyOne(v, k) PROVE Settled(k)'
        <5>1. v # w
          BY <4>3 DEF OnlyOne, Wrote
        <5>2. OnlyOne(v, k)'
          BY <1>1, <4>3, <5>1 DEF OnlyOne, Wrote
        <5> QED
          BY <5>2 DEF Settled
      <4>4. ASSUME NEW v \in Clients, Between(v, k) PROVE Settled(k)'
        <5>1. CASE v = w
          BY <1>4, <3>0, <4>4, <5>1
        <5>2. CASE v # w
          <6>1. Between(v, k)'
            BY <1>1, <4>4, <5>2 DEF Between, Storing, InPostgres
          <6> QED
            BY <6>1 DEF Settled
        <5> QED
          BY <5>1, <5>2
      <4> QED
        BY <4>1, <4>2, <4>3, <4>4 DEF Settled
    <3>2. CASE pgRows'[k] # pgRows[k]
      BY <1>4, <3>2
    <3> QED
      BY <3>1, <3>2
  <2>5. \A v \in Clients : WriteDone(v)' /\ Stored(v)'
    BY <1>4, <2>2
  <2> QED
    BY <1>1, <2>1, <2>3, <2>4, <2>5 DEF Sequential
<1>5. \A v \in Clients : WriteOK(v)'
  BY <1>3
<1> QED
  BY <1>2, <1>4, <1>5 DEF StorageInv

\* A request as it is entered.
LEMMA AskedFacts ==
    ASSUME NEW place \in {"none", "sqlite", "creating", "inserting"} \cup Over,
           NEW name \in DOMAIN Targets, NEW k \in Keys
    PROVE  /\ Asked(place, name, k) \in RequestType
           /\ Asked(place, name, k).pc = place /\ Asked(place, name, k).engine = name
           /\ Asked(place, name, k).key = k
BY DEF Asked, RequestType

\* PostgresStorage is entered by a call that has its row in SQLite, or has no
\* other backend: whoever sets the engine goes on to create the table.
LEMMA PostgresEntered ==
    ASSUME StorageInv, NEW w \in Clients, NEW k \in Keys, NEW name \in Resolved,
           name \in {"postgres", "both"}, request[w].pc \in {"none", "sqlite"}, ~Storing(w, "committing"),
           request' = [request EXCEPT ![w] = Asked(IF engine = NoClient THEN "creating" ELSE "inserting", name, k)],
           SetEngine(w), UNCHANGED <<op, pgTable, pgRows>>, SqliteRests,
           ~overlap' => ~overlap,
           ~overlap' => Active(w) \/ \A v \in Clients \ {w} : ~Active(v),
           ~overlap' /\ name = "both" => table[k] = w,
           request[w].pc = "sqlite" => request[w].key = k
    PROVE  StorageInv'
<1> DEFINE place == IF engine = NoClient THEN "creating" ELSE "inserting"
           q == Asked(place, name, k)
<1>1. /\ place \in {"creating", "inserting"}
      /\ engine' = engine \/ (engine' = w /\ place = "creating")
  <2>1. CASE engine = NoClient
    BY <2>1 DEF SetEngine
  <2>2. CASE engine # NoClient
    BY <2>2 DEF SetEngine
  <2> QED
    BY <2>1, <2>2
<1>2. request' = [request EXCEPT ![w] = q]
  OBVIOUS
<1> HIDE DEF place
<1>3. q \in RequestType /\ q.pc = place /\ q.engine = name /\ q.key = k
  BY <1>1, AskedFacts, EngineFacts
<1> HIDE DEF q
<1>4. request'[w] = q /\ \A v \in Clients \ {w} : request'[v] = request[v]
  BY <1>2 DEF StorageInv, StorageTyped
<1>5. EngineHasTable'
  <2>1. engine' = engine \/ (engine' = w /\ q.pc \in Creation)
    BY <1>1, <1>3 DEF Creation
  <2>2. request[w].pc \notin Creation /\ pgTable' = pgTable
    BY DEF Creation
  <2> QED
    BY <1>2, <2>1, <2>2, EngineKeeps
<1>6. WriteOK(w)' /\ InPostgres(w)'
  BY <1>1, <1>3, <1>4 DEF WriteOK, Writes, InStore, InPostgres
<1>7. ~overlap' => WriteDone(w)' /\ Stored(w)'
  BY <1>1, <1>3, <1>4 DEF WriteDone, Stored, Storing, InStore, InPostgres, SqliteRests
<1>8. op' \in [Clients -> OpTypeOf(Len(conns))] /\ pgRows' \in Rows /\ \A v \in Clients \ {w} : op'[v] = op[v]
  BY DEF StorageInv, StorageTyped
<1>9. \A j \in Keys : Between(w, j) => Settled(j)'
  <2> SUFFICES ASSUME NEW j \in Keys, Between(w, j) PROVE Settled(j)'
    OBVIOUS
  <2>1. request[w].pc = "sqlite" /\ request[w].key = j /\ table[j] = w
    BY DEF Between, Storing, InPostgres
  <2>2. Between(w, j)'
    BY <1>3, <1>4, <1>6, <2>1 DEF Between, SqliteRests
  <2> QED
    BY <2>2 DEF Settled
<1>10. \A j \in Keys : pgRows'[j] = pgRows[j]
  OBVIOUS
<1>11. request[w].pc \notin {"true", "raised"} /\ engine' \in {engine, w}
  BY <1>1
<1> QED
  BY <1>2, <1>3, <1>5, <1>6, <1>7, <1>8, <1>9, <1>10, <1>11, RequestKeeps

\* A call ends: refused, failed, or stored by SQLite alone.
LEMMA EndsKeeps ==
    ASSUME StorageInv, NEW w \in Clients, ~Storing(w, "committing"),
           NEW q \in RequestType, q.pc \in Over, q.pc = "true" => q.key \in Keys,
           request' = [request EXCEPT ![w] = q], request[w].pc \in Creation => q.pc \in Creation,
           UNCHANGED <<op, engine, pgTable, pgRows>>, SqliteRests,
           ~overlap' => ~overlap,
           \/ request[w].pc = "none" /\ (q.pc = "true" => q.engine \notin Resolved)
           \/ q.pc = "raised" /\ Active(w)
           \/ q.pc \in {"well", "unwell"} /\ request[w].pc \in InHealth
           \/ /\ Storing(w, "returned") /\ q.pc = "true" /\ q.engine = "sqlite" /\ q.key = request[w].key
              /\ ~overlap' => table[q.key] = w
    PROVE  StorageInv'
<1>1. request'[w] = q /\ \A v \in Clients \ {w} : request'[v] = request[v]
  BY DEF StorageInv, StorageTyped
<1>2. EngineHasTable'
  <2>1. engine' = engine /\ pgTable' = pgTable
    OBVIOUS
  <2> QED
    BY <2>1, EngineKeeps
<1>3. WriteOK(w)'
  BY <1>1 DEF WriteOK, Writes, InStore, InPostgres, Over
<1>4. NoClient \notin Clients
  BY ClientsAssumption DEF ClientsAssumption
<1>5. ~overlap' => WriteDone(w)' /\ Stored(w)'
  <2>1. WriteDone(w)'
    BY <1>1 DEF WriteDone, Storing, InStore, InPostgres, Over
  <2>2. ~overlap' => Stored(w)'
    BY <1>1, <1>4 DEF Stored, SqliteRests
  <2> QED
    BY <2>1, <2>2
<1>6. op' \in [Clients -> OpTypeOf(Len(conns))] /\ pgRows' \in Rows /\ \A v \in Clients \ {w} : op'[v] = op[v]
  BY DEF StorageInv, StorageTyped
<1>7. \A k \in Keys : pgRows'[k] = pgRows[k]
  OBVIOUS
<1>8. q.pc # "raised" => \A k \in Keys : Between(w, k) => Settled(k)'
  <2> SUFFICES ASSUME q.pc # "raised", NEW k \in Keys, Between(w, k) PROVE Settled(k)'
    OBVIOUS
  <2>1. Storing(w, "returned") /\ q.pc = "true" /\ q.engine = "sqlite" /\ q.key = request[w].key
    BY DEF Between, Storing, InPostgres, InHealth
  <2>2. OnlyOne(w, k)'
    BY <1>1, <2>1 DEF OnlyOne, Wrote, Between
  <2> QED
    BY <2>2 DEF Settled
<1>9. request[w].pc \notin {"true", "raised"} /\ engine' \in {engine, w}
  BY DEF Active, Over, Storing, InHealth
<1> QED
  BY <1>2, <1>3, <1>5, <1>6, <1>7, <1>8, <1>9, RequestKeeps

\* A call raises in one of its backends.
LEMMA RaisedStep ==
    ASSUME StorageInv, NEW w \in Clients, Active(w), ~Storing(w, "committing"),
           Await(w, "raised"), UNCHANGED <<op, engine, pgTable, pgRows, overlap>>, SqliteRests
    PROVE  StorageInv'
<1> DEFINE q == [request[w] EXCEPT !.pc = "raised"]
<1>1. request[w] \in RequestType
  BY RequestFacts
<1>2. q \in RequestType /\ q.pc = "raised" /\ request' = [request EXCEPT ![w] = q]
  BY <1>1 DEF RequestType, Over, Await
<1>3. "raised" \in Over /\ "raised" \in Creation
  BY DEF Over, Creation
<1> HIDE DEF q
<1> QED
  BY <1>1, <1>2, <1>3, EndsKeeps

\* write, up to its first await.
LEMMA WriteStep ==
    ASSUME StorageInv, NEW w \in Clients, NEW k \in Keys, Write(w, k) PROVE StorageInv'
<1>1. /\ request[w].pc = "none" /\ SqliteRests /\ UNCHANGED <<pgTable, pgRows>>
      /\ overlap' = (overlap \/ \E v \in Clients \ {w} : Active(v))
      /\ request[w].pc \notin Creation
  BY DEF Write, Overlaps, SqliteRests, Creation
<1>2. PICK name \in DOMAIN Targets : WriteTo(w, name, k, 1)
  BY EngineFacts DEF Write
<1>3. /\ ~overlap' => ~overlap /\ \A v \in Clients \ {w} : ~Active(v)
      /\ ~Storing(w, "committing") /\ \A j \in Keys : ~Between(w, j)
  BY <1>1 DEF Storing, Between, InPostgres
<1>4. CASE /\ name \in Resolved /\ name = "postgres" /\ SetEngine(w) /\ UNCHANGED op
           /\ request' = [request EXCEPT ![w] = Asked(IF engine = NoClient THEN "creating" ELSE "inserting", name, k)]
  <2>1. name # "both" /\ name \in {"postgres", "both"}
    BY <1>4
  <2> QED
    BY <1>1, <1>3, <1>4, <2>1, PostgresEntered
<1>5. CASE /\ UNCHANGED <<op, engine>>
           /\ \E place \in {"true", "raised"} :
                 /\ request' = [request EXCEPT ![w] = Asked(place, name, k)]
                 /\ place = "true" => name \notin Resolved
  <2>1. PICK place \in {"true", "raised"} :
           request' = [request EXCEPT ![w] = Asked(place, name, k)] /\ (place = "true" => name \notin Resolved)
    BY <1>5
  <2>2. place \in Over
    BY DEF Over
  <2> DEFINE q == Asked(place, name, k)
  <2>3. q \in RequestType /\ q.pc = place /\ q.engine = name /\ q.key = k
    BY <2>2, AskedFacts
  <2>4. request' = [request EXCEPT ![w] = q]
    BY <2>1
  <2> HIDE DEF q
  <2> QED
    BY <1>1, <1>3, <1>5, <2>1, <2>2, <2>3, <2>4, EndsKeeps
<1>6. CASE /\ name \in Resolved /\ name \in {"sqlite", "both", "cached"} /\ UNCHANGED engine
           /\ request' = [request EXCEPT ![w] = Asked("sqlite", name, k)]
           /\ \E s \in Stores : Begin(w, s, k)
  <2>1. PICK s \in Stores : Begin(w, s, k)
    BY <1>6
  <2> DEFINE q == Asked("sqlite", name, k)
             o == [pc |-> IF conn[s] = 0 \/ k = NoKey THEN "opening" ELSE "executing",
                   store |-> s, on |-> conn[s], key |-> k]
  <2>2. q \in RequestType /\ q.pc = "sqlite" /\ q.engine = name /\ q.key = k
    BY AskedFacts
  <2>3. /\ op' = [op EXCEPT ![w] = o] /\ o \in OpTypeOf(Len(conns)) /\ o.key = k /\ o.store = s
        /\ o.on = conn[s] /\ (o.pc = "opening" \/ (o.pc = "executing" /\ conn[s] # 0))
    <3>1. conn[s] \in 0 .. Len(conns)
      BY DEF StorageInv, StorageTyped
    <3>2. o.key = k /\ o.store = s /\ o.on = conn[s]
          /\ o.pc = IF conn[s] = 0 \/ k = NoKey THEN "opening" ELSE "executing"
      OBVIOUS
    <3>4. o \in OpTypeOf(Len(conns))
      BY <3>1 DEF OpTypeOf, Places
    <3>5. op' = [op EXCEPT ![w] = o]
      BY <2>1 DEF Begin
    <3> HIDE DEF o
    <3>6. k # NoKey
      BY RequestFacts
    <3>3. o.pc = "opening" \/ (o.pc = "executing" /\ conn[s] # 0)
      BY <3>2, <3>6
    <3> QED
      BY <3>2, <3>3, <3>4, <3>5
  <2>4. request' = [request EXCEPT ![w] = q]
    BY <1>6
  <2> HIDE DEF q, o
  <2>5. request'[w] = q
    BY <2>4 DEF StorageInv, StorageTyped
  <2>6. op' \in [Clients -> OpTypeOf(Len(conns))] /\ op'[w] = o /\ \A v \in Clients \ {w} : op'[v] = op[v]
    BY <2>3 DEF StorageInv, StorageTyped
  <2>7. UNCHANGED conn
    BY <1>1 DEF SqliteRests
  <2>8. WriteOK(w)'
    BY <1>6, <2>2, <2>3, <2>5, <2>6, <2>7 DEF WriteOK, Writes, InStore, InPostgres, InStatement
  <2>9. WriteDone(w)' /\ Stored(w)'
    BY <2>2, <2>3, <2>5, <2>6, <2>7 DEF WriteDone, Stored, Storing, InStore, InPostgres, InStatement
  <2>10. EngineHasTable' /\ engine' \in {engine, w}
    <3>1. engine' = engine /\ pgTable' = pgTable
      BY <1>1, <1>6
    <3> QED
      BY <1>1, <2>4, <3>1, EngineKeeps
  <2>11. pgRows' \in Rows /\ \A j \in Keys : pgRows'[j] = pgRows[j]
    BY <1>1 DEF StorageInv, StorageTyped
  <2> QED
    BY <1>1, <1>3, <2>2, <2>4, <2>6, <2>8, <2>9, <2>10, <2>11, RequestKeeps
<1> QED
  BY <1>2, <1>4, <1>5, <1>6, FirstTarget

\* What follows when SQLite has returned.
LEMMA NextTarget ==
    ASSUME StorageInv, NEW w \in Clients, request[w].pc = "sqlite", op[w].pc = "returned",
           WriteTo(w, request[w].engine, request[w].key, 2),
           SqliteRests, UNCHANGED <<pgTable, pgRows, overlap>>
    PROVE  StorageInv'
<1> DEFINE name == request[w].engine
           k == request[w].key
<1>1. /\ name \in Resolved /\ name \in {"sqlite", "both", "cached"} /\ name \in DOMAIN Targets /\ k \in Keys
      /\ Active(w) /\ ~Storing(w, "committing") /\ Storing(w, "returned") /\ request[w].pc \notin Creation
  BY RequestFacts, EngineFacts DEF WriteOK, Writes, Active, Over, Storing, Creation
<1>2. ~overlap' => ~overlap /\ table[k] = w
  BY <1>1 DEF StorageInv, Sequential, WriteDone
<1>3. CASE /\ name = "sqlite" /\ UNCHANGED <<op, engine>>
           /\ request' = [request EXCEPT ![w] = Asked("true", name, k)]
  <2>1. "true" \in Over
    BY DEF Over
  <2> DEFINE q == Asked("true", name, k)
  <2>2. q \in RequestType /\ q.pc = "true" /\ q.engine = name /\ q.key = k
    BY <1>1, <2>1, AskedFacts
  <2>3. request' = [request EXCEPT ![w] = q]
    BY <1>3
  <2> HIDE DEF q
  <2> QED
    BY <1>1, <1>2, <1>3, <2>1, <2>2, <2>3, EndsKeeps, ZenonT(30)
<1>4. CASE /\ name = "both" /\ SetEngine(w) /\ UNCHANGED op
           /\ request' = [request EXCEPT ![w] = Asked(IF engine = NoClient THEN "creating" ELSE "inserting", name, k)]
  <2>1. name \in {"postgres", "both"}
    BY <1>4
  <2> HIDE DEF name
  <2> QED
    BY <1>1, <1>2, <1>4, <2>1, PostgresEntered
<1>5. CASE /\ name = "cached" /\ UNCHANGED <<op, engine>>
           /\ request' = [request EXCEPT ![w] = Asked("raised", name, k)]
  <2>1. "raised" \in Over
    BY DEF Over
  <2> DEFINE q == Asked("raised", name, k)
  <2>2. q \in RequestType /\ q.pc = "raised" /\ q.engine = name /\ q.key = k
    BY <1>1, <2>1, AskedFacts
  <2>3. request' = [request EXCEPT ![w] = q]
    BY <1>5
  <2> HIDE DEF q
  <2> QED
    BY <1>1, <1>2, <1>5, <2>1, <2>2, <2>3, EndsKeeps
<1> HIDE DEF name, k
<1>6. WriteTo(w, name, k, 2)
  BY DEF name, k
<1> QED
  BY <1>1, <1>3, <1>4, <1>5, <1>6, SecondTarget

\* The table of Postgres is created.
LEMMA PgCreatedStep ==
    ASSUME StorageInv, NEW w \in Clients, PgCreated(w) PROVE StorageInv'
<1> DEFINE q == [request[w] EXCEPT !.pc = "inserting"]
<1>1. /\ request[w].pc = "creating" /\ pgTable' = TRUE
      /\ UNCHANGED <<conns, conn, closed, pending, table, op, engine, pgRows, overlap>>
      /\ request' = [request EXCEPT ![w] = q]
  BY DEF PgCreated, Await, storeVars
<1>2. q \in RequestType /\ q.pc = "inserting" /\ q.key = request[w].key /\ q.engine = request[w].engine
  BY RequestFacts DEF RequestType
<1> HIDE DEF q
<1>3. request'[w] = q
  BY <1>1 DEF StorageInv, StorageTyped
<1>4. Active(w) /\ ~Storing(w, "committing") /\ InPostgres(w) /\ WriteOK(w) /\ SqliteRests
  BY <1>1, RequestFacts DEF Active, Over, Storing, InPostgres, SqliteRests
<1>5. EngineHasTable' /\ WriteOK(w)' /\ InPostgres(w)'
  BY <1>1, <1>2, <1>3, <1>4 DEF EngineHasTable, WriteOK, Writes, InStore, InPostgres
<1>6. ~overlap' => WriteDone(w)' /\ Stored(w)'
  <2>1. ~overlap => WriteDone(w)
    BY DEF StorageInv, Sequential
  <2> QED
    BY <1>1, <1>2, <1>3, <1>4, <2>1 DEF WriteDone, Stored, Storing, InStore, InPostgres
<1>7. \A j \in Keys : Between(w, j) => Settled(j)'
  <2> SUFFICES ASSUME NEW j \in Keys, Between(w, j) PROVE Settled(j)'
    OBVIOUS
  <2>1. Between(w, j)'
    BY <1>1, <1>2, <1>3, <1>5 DEF Between
  <2> QED
    BY <2>1 DEF Settled
<1>8. /\ op' \in [Clients -> OpTypeOf(Len(conns))] /\ pgRows' \in Rows /\ \A v \in Clients \ {w} : op'[v] = op[v]
      /\ \A j \in Keys : pgRows'[j] = pgRows[j]
  BY <1>1 DEF StorageInv, StorageTyped
<1>9. (~overlap' => ~overlap) /\ request[w].pc \notin {"true", "raised"} /\ engine' \in {engine, w}
  BY <1>1
<1> QED
  BY <1>1, <1>2, <1>4, <1>5, <1>6, <1>7, <1>8, <1>9, RequestKeeps

\* The row is in Postgres: with that of SQLite, if the call wrote one there.
LEMMA PgInsertedStep ==
    ASSUME StorageInv, NEW w \in Clients, PgInserted(w) PROVE StorageInv'
<1> DEFINE q == [request[w] EXCEPT !.pc = "true"]
<1>0. PICK key \in Keys : key = request[w].key
  BY RequestFacts DEF PgInserted, WriteOK, Writes, InPostgres
<1>1. /\ request[w].pc = "inserting"
      /\ UNCHANGED <<conns, conn, closed, pending, table, op, engine, pgTable, overlap>> /\ pgTable
      /\ request' = [request EXCEPT ![w] = q] /\ pgRows' = [pgRows EXCEPT ![key] = w]
  BY <1>0 DEF PgInserted, Await, storeVars
<1>2. q \in RequestType /\ q.pc = "true" /\ q.key = key /\ q.engine = request[w].engine
  BY <1>0, RequestFacts DEF RequestType, Over
<1> HIDE DEF q
<1>3. request'[w] = q /\ \A v \in Clients \ {w} : request'[v] = request[v]
  BY <1>1 DEF StorageInv, StorageTyped
<1>4. /\ Active(w) /\ ~Storing(w, "committing") /\ SqliteRests /\ key \in Keys /\ NoClient \notin Clients
      /\ request[w].engine \in {"postgres", "both"} /\ InPostgres(w) /\ w # NoClient
  BY <1>1, RequestFacts DEF Active, Over, Storing, InPostgres, SqliteRests, WriteOK
<1>5. /\ pgRows' \in Rows /\ pgRows'[key] = w /\ \A j \in Keys : j # key => pgRows'[j] = pgRows[j]
  BY <1>1, <1>4 DEF StorageInv, StorageTyped, Rows
<1>6. EngineHasTable'
  BY <1>1 DEF EngineHasTable
<1>7. WriteOK(w)'
  BY <1>2, <1>3, <1>4 DEF WriteOK, Writes, InStore, InPostgres
<1>8. ASSUME ~overlap PROVE WriteDone(w)' /\ Stored(w)' /\ Settled(key)'
  <2>1. WriteDone(w)
    BY <1>8 DEF StorageInv, Sequential
  <2>2. request[w].engine = "both" => table[key] = w
    BY <1>0, <1>4, <2>1 DEF WriteDone
  <2>3. WriteDone(w)'
    BY <1>2, <1>3 DEF WriteDone, Storing, InStore, InPostgres
  <2>4. Stored(w)'
    BY <1>1, <1>2, <1>3, <1>4, <1>5, <2>2 DEF Stored
  <2>5. CASE request[w].engine = "both"
    BY <1>1, <1>5, <2>2, <2>3, <2>4, <2>5 DEF Settled
  <2>6. CASE request[w].engine = "postgres"
    <3>1. OnlyOne(w, key)'
      BY <1>2, <1>3, <2>6 DEF OnlyOne, Wrote
    <3> QED
      BY <2>3, <2>4, <3>1 DEF Settled
  <2> QED
    BY <1>4, <2>5, <2>6
<1>9. \A j \in Keys : \/ pgRows'[j] = pgRows[j]
                      \/ pgRows'[j] # NoClient /\ (~overlap' => Settled(j)')
  BY <1>1, <1>4, <1>5, <1>8
<1>10. ~overlap' => \A j \in Keys : Between(w, j) => Settled(j)'
  BY <1>0, <1>1, <1>8 DEF Between
<1>11. op' \in [Clients -> OpTypeOf(Len(conns))] /\ \A v \in Clients \ {w} : op'[v] = op[v]
  BY <1>1 DEF StorageInv, StorageTyped
<1>12. (~overlap' => ~overlap) /\ request[w].pc \notin {"true", "raised"} /\ engine' \in {engine, w}
  BY <1>1
<1> QED
  BY <1>1, <1>2, <1>4, <1>5, <1>6, <1>7, <1>8, <1>9, <1>10, <1>11, <1>12, RequestKeeps

\* read and delete are over at once.
LEMMA ReadOrDeleteStep ==
    ASSUME StorageInv, NEW w \in Clients, NEW k \in Keys, ReadOrDelete(w, k) PROVE StorageInv'
<1>1. /\ request[w].pc = "none" /\ SqliteRests /\ UNCHANGED <<op, engine, pgTable, pgRows, overlap>>
      /\ ~Storing(w, "committing") /\ request[w].pc \notin Creation
  BY DEF ReadOrDelete, SqliteRests, storeVars, Storing, Creation
<1>2. PICK name \in DOMAIN Targets, place \in {"rejected", "empty"} :
         request' = [request EXCEPT ![w] = Asked(place, name, k)]
  <2>1. PICK name \in DOMAIN Targets :
           request' = [request EXCEPT ![w] = Asked(IF name \in Resolved THEN "rejected" ELSE "empty", name, k)]
    BY EngineFacts DEF ReadOrDelete, Asked
  <2> QED
    BY <2>1
<1> DEFINE q == Asked(place, name, k)
<1>3. q \in RequestType /\ q.pc = place /\ q.key = k /\ q.pc \in Over
  BY AskedFacts DEF Over
<1>4. request' = [request EXCEPT ![w] = q]
  BY <1>2
<1> HIDE DEF q
<1>5. q.pc # "true"
  BY <1>3
<1> QED
  BY <1>1, <1>3, <1>4, <1>5, EndsKeeps

\* A call that setup refuses, or that nothing is mapped for.
LEMMA TurnedAway ==
    ASSUME StorageInv, NEW w \in Clients, SetupRaises(w) \/ NotMapped(w) PROVE StorageInv'
<1>1. PICK place \in {"refused", "empty"} : Await(w, place)
  BY DEF SetupRaises, NotMapped
<1>2. /\ request[w].pc = "none" /\ SqliteRests /\ UNCHANGED <<op, engine, pgTable, pgRows, overlap>>
      /\ ~Storing(w, "committing") /\ request[w].pc \notin Creation
  BY DEF SetupRaises, NotMapped, SqliteRests, storeVars, Storing, Creation
<1> DEFINE q == [request[w] EXCEPT !.pc = place]
<1>3. /\ q \in RequestType /\ q.pc \in Over /\ q.pc # "true"
      /\ request' = [request EXCEPT ![w] = q]
  BY <1>1, RequestFacts DEF RequestType, Over, Await
<1> HIDE DEF q
<1> QED
  BY <1>2, <1>3, EndsKeeps

-----------------------------------------------------------------------------
(* The steps of health.                                                    *)

\* A health check moves to another await: it writes no row, it begins nothing
\* but a connect(), and it sets the engine only to create the table.
LEMMA HealthMoves ==
    ASSUME StorageInv, NEW w \in Clients, request[w].pc \in {"none"} \cup InHealth,
           NEW place \in InHealth, Await(w, place),
           op' \in [Clients -> OpTypeOf(Len(conns))], \A v \in Clients \ {w} : op'[v] = op[v],
           place = "connecting" => op'[w].key = NoKey /\ op'[w].pc = "opening",
           SqliteRests, UNCHANGED pgRows,
           engine' = engine \/ (engine' = w /\ place = "checking"),
           pgTable' = pgTable \/ pgTable', request[w].pc = "checking" => pgTable',
           ~overlap' => ~overlap,
           ~overlap' => Active(w) \/ \A v \in Clients \ {w} : ~Active(v)
    PROVE  StorageInv'
<1> DEFINE q == [request[w] EXCEPT !.pc = place]
<1>1. q \in RequestType /\ q.pc = place /\ request' = [request EXCEPT ![w] = q]
  BY RequestFacts DEF RequestType, Await
<1> HIDE DEF q
<1>2. request'[w] = q
  BY <1>1 DEF StorageInv, StorageTyped
<1>3. EngineHasTable'
  <2>1. engine' = engine \/ (engine' = w /\ q.pc \in Creation)
    BY <1>1 DEF Creation
  <2>2. request[w].pc \in Creation => pgTable'
    BY DEF Creation, InHealth
  <2> QED
    BY <1>1, <2>1, <2>2, EngineKeeps
<1>4. WriteOK(w)'
  BY <1>1, <1>2 DEF WriteOK, Writes, InStore, InPostgres, InStatement, InHealth
<1>5. WriteDone(w)' /\ Stored(w)'
  BY <1>1, <1>2 DEF WriteDone, Stored, Storing, InStore, InPostgres, InStatement, InHealth
<1>6. /\ ~Storing(w, "committing") /\ request[w].pc \notin {"true", "raised"}
      /\ \A k \in Keys : ~Between(w, k)
  BY DEF Storing, Between, InPostgres, InHealth
<1>7. pgRows' \in Rows /\ (\A k \in Keys : pgRows'[k] = pgRows[k]) /\ engine' \in {engine, w}
  BY DEF StorageInv, StorageTyped
<1> QED
  BY <1>1, <1>3, <1>4, <1>5, <1>6, <1>7, RequestKeeps

\* A health check answers.
LEMMA HealthEnds ==
    ASSUME StorageInv, NEW w \in Clients, request[w].pc \in {"none"} \cup InHealth,
           NEW answer \in {"well", "unwell"}, Await(w, answer),
           request[w].pc = "checking" => answer = "unwell",
           UNCHANGED <<op, engine, pgTable, pgRows>>, SqliteRests, ~overlap' => ~overlap
    PROVE  StorageInv'
<1> DEFINE q == [request[w] EXCEPT !.pc = answer]
<1>1. q \in RequestType /\ q.pc = answer /\ answer \in Over /\ request' = [request EXCEPT ![w] = q]
  BY RequestFacts DEF RequestType, Over, Await
<1> HIDE DEF q
<1>2. request[w].pc \in Creation => q.pc \in Creation
  BY <1>1 DEF Creation, InHealth
<1>3. ~Storing(w, "committing") /\ q.pc # "true"
  BY <1>1 DEF Storing, InHealth
<1> QED
  BY <1>1, <1>2, <1>3, EndsKeeps

\* The next backend is asked.
LEMMA AskStep ==
    ASSUME StorageInv, NEW w \in Clients, request[w].pc \in {"none", "probing"}, NEW rest, Ask(w, rest),
           SqliteRests, UNCHANGED <<pgTable, pgRows>>, ~overlap' => ~overlap,
           ~overlap' => Active(w) \/ \A v \in Clients \ {w} : ~Active(v)
    PROVE  StorageInv'
<1>1. /\ request[w].pc \in {"none"} \cup InHealth /\ request[w].pc # "checking"
      /\ {"connecting", "checking", "probing"} \subseteq InHealth
      /\ op \in [Clients -> OpTypeOf(Len(conns))]
  BY DEF InHealth, StorageInv, StorageTyped
<1>2. CASE Await(w, "well") /\ UNCHANGED <<op, engine>>
  BY <1>1, <1>2, HealthEnds
<1>3. ASSUME Await(w, "probing"), UNCHANGED <<op, engine>> PROVE StorageInv'
  <2>1. /\ "probing" \in InHealth /\ "probing" # "connecting"
        /\ op' = op /\ engine' = engine /\ pgTable' = pgTable /\ pgRows' = pgRows
    BY <1>1, <1>3
  <2> QED
    BY <1>1, <1>3, <2>1, HealthMoves
<1>4. ASSUME NEW s \in Stores, Await(w, "connecting"), Begin(w, s, NoKey), UNCHANGED engine PROVE StorageInv'
  <2> DEFINE o == [pc |-> "opening", store |-> s, on |-> conn[s], key |-> NoKey]
  <2>1. conn[s] \in 0 .. Len(conns)
    BY DEF StorageInv, StorageTyped
  <2>2. o \in OpTypeOf(Len(conns)) /\ o.key = NoKey /\ o.pc = "opening"
    BY <2>1 DEF OpTypeOf, Places
  <2>3. op' = [op EXCEPT ![w] = o]
    BY <1>4 DEF Begin
  <2> HIDE DEF o
  <2>4. op' \in [Clients -> OpTypeOf(Len(conns))] /\ op'[w] = o /\ \A v \in Clients \ {w} : op'[v] = op[v]
    BY <1>1, <2>2, <2>3
  <2>5. engine' = engine /\ pgTable' = pgTable /\ pgRows' = pgRows /\ "connecting" \in InHealth
    BY <1>1, <1>4
  <2> QED
    BY <1>1, <1>4, <2>2, <2>4, <2>5, HealthMoves
<1>5. CASE SetEngine(w) /\ UNCHANGED op /\ Await(w, IF engine = NoClient THEN "checking" ELSE "probing")
  <2>1. CASE engine = NoClient
    BY <1>1, <1>5, <2>1, HealthMoves DEF SetEngine
  <2>2. CASE engine # NoClient
    BY <1>3, <1>5, <2>2 DEF SetEngine
  <2> QED
    BY <2>1, <2>2
<1> QED
  BY <1>2, <1>3, <1>4, <1>5 DEF Ask

\* A step of health: it is called, connects, creates the table or probes.
LEMMA HealthStep ==
    ASSUME StorageInv, NEW w \in Clients,
           Health(w) \/ HealthConnects(w) \/ HealthCreates(w) \/ HealthProbes(w)
    PROVE  StorageInv'
<1>0. {"connecting", "checking", "probing"} \subseteq InHealth /\ op \in [Clients -> OpTypeOf(Len(conns))]
  BY DEF InHealth, StorageInv, StorageTyped
<1>1. CASE Health(w)
  <2>1. /\ request[w].pc = "none" /\ Ask(w, Used) /\ SqliteRests /\ UNCHANGED <<pgTable, pgRows>>
        /\ overlap' = (overlap \/ \E v \in Clients \ {w} : Active(v))
    BY <1>1 DEF Health, Overlaps, SqliteRests
  <2> QED
    BY <2>1, AskStep
<1>2. CASE HealthConnects(w)
  <2>1. request[w].pc = "connecting" /\ InStore(w) /\ UNCHANGED <<engine, pgTable, pgRows, left, overlap>>
        /\ Active(w)
    BY <1>2 DEF HealthConnects, InStore, Active, Over
  <2>2. CASE op[w].pc \notin {"returned", "failed", "locked"} /\ StoreStep(w) /\ UNCHANGED request
    <3>1. Elsewhere
      BY <2>1, <2>2 DEF Elsewhere
    <3> QED
      BY <2>1, <2>2, <3>1, StoreOpened, StoreCreated, StoreExecuted, StoreCommitted, StoreRaised DEF StoreStep
  <2>3. CASE Await(w, "probing") /\ UNCHANGED storeVars
    <3>1. UNCHANGED op /\ SqliteRests /\ engine' = engine /\ pgTable' = pgTable /\ pgRows' = pgRows
      BY <2>1, <2>3 DEF storeVars, SqliteRests
    <3>2. "probing" \in InHealth /\ "probing" # "connecting" /\ (~overlap' => ~overlap)
      BY <1>0, <2>1
    <3> QED
      BY <1>0, <2>1, <2>3, <3>1, <3>2, HealthMoves
  <2>4. CASE Await(w, "unwell") /\ UNCHANGED storeVars
    <3>1. UNCHANGED op /\ SqliteRests
      BY <2>4 DEF storeVars, SqliteRests
    <3> QED
      BY <1>0, <2>1, <2>4, <3>1, HealthEnds
  <2> QED
    BY <1>2, <2>2, <2>3, <2>4 DEF HealthConnects
<1>3. CASE HealthCreates(w)
  <2>1. /\ request[w].pc = "checking" /\ SqliteRests /\ UNCHANGED <<op, engine, pgRows, overlap>> /\ Active(w)
        /\ \/ Await(w, "probing") /\ pgTable' = TRUE
           \/ Await(w, "unwell") /\ UNCHANGED pgTable
    BY <1>3 DEF HealthCreates, storeVars, SqliteRests, Active, Over
  <2>2. CASE Await(w, "probing") /\ pgTable' = TRUE
    <3>1. /\ "probing" \in InHealth /\ "probing" # "connecting" /\ (~overlap' => ~overlap)
          /\ op' = op /\ engine' = engine /\ pgTable' /\ pgRows' = pgRows
      BY <1>0, <2>1, <2>2
    <3> QED
      BY <1>0, <2>1, <2>2, <3>1, HealthMoves
  <2>3. CASE Await(w, "unwell") /\ UNCHANGED pgTable
    BY <1>0, <2>1, <2>3, HealthEnds
  <2> QED
    BY <2>1, <2>2, <2>3
<1>4. CASE HealthProbes(w)
  <2>1. /\ request[w].pc = "probing" /\ SqliteRests /\ UNCHANGED <<pgTable, pgRows, overlap>> /\ Active(w)
        /\ \/ Ask(w, left[w])
           \/ Await(w, "unwell") /\ UNCHANGED <<op, engine>>
    BY <1>4 DEF HealthProbes, SqliteRests, Active, Over
  <2>2. CASE Ask(w, left[w])
    BY <2>1, <2>2, AskStep
  <2>3. CASE Await(w, "unwell") /\ UNCHANGED <<op, engine>>
    BY <1>0, <2>1, <2>3, HealthEnds
  <2> QED
    BY <2>1, <2>2, <2>3
<1> QED
  BY <1>1, <1>2, <1>3, <1>4

-----------------------------------------------------------------------------
(* The theorems.                                                           *)

\* Nothing is called and nothing is stored.
LEMMA StorageInitInv == StorageInit => StorageInv
<1> SUFFICES ASSUME StorageInit PROVE StorageInv
  OBVIOUS
<1>1. /\ \A w \in Clients : request[w].pc = "none" /\ op[w] = Idle
      /\ engine = NoClient /\ conns = << >> /\ pending = << >> /\ table = NoRows /\ pgRows = NoRows /\ closed = {}
      /\ conn = [s \in Stores |-> 0]
  BY DEF StorageInit, StoreInit
<1>2. conns \in Seq(Stores) /\ pending \in Seq(Rows) /\ Len(conns) = 0 /\ Len(pending) = 0
  <2>1. << >> \in Seq(Stores) /\ << >> \in Seq(Rows) /\ Len(<< >>) = 0
    OBVIOUS
  <2> QED
    BY <1>1, <2>1
<1>3. NoRows \in Rows
  BY DEF NoRows, Rows
<1>4. Stores # {}
  <2>1. Cardinality(Stores) = 1
    BY RoutingAssumption DEF RoutingAssumption
  <2> QED
    BY <2>1, FS_EmptySet
<1>5. Idle \in OpTypeOf(0)
  BY <1>4 DEF Idle, OpTypeOf, Places
<1>6. request \in [Clients -> RequestType]
  BY DEF StorageInit, RequestType, SomeKey
<1>7. StorageTyped
  BY <1>1, <1>2, <1>3, <1>5, <1>6 DEF StorageTyped, StorageInit, StoreInit
<1>8. \A w \in Clients : ~Active(w) /\ WriteOK(w) /\ WriteDone(w) /\ Stored(w)
  BY <1>1 DEF Active, WriteOK, Writes, InStore, WriteDone, Stored, Storing, InPostgres
<1>9. Sequential
  BY <1>1, <1>2, <1>8 DEF Sequential, Alone, Settled
<1> QED
  BY <1>1, <1>7, <1>8, <1>9 DEF StorageInv, EngineHasTable

\* Every step keeps the invariant.
LEMMA StorageStep == StorageInv /\ [StorageNext]_storageVars => StorageInv'
<1> SUFFICES ASSUME StorageInv, [StorageNext]_storageVars PROVE StorageInv'
  OBVIOUS
<1>1. ASSUME NEW w \in Clients, InSqlite(w) PROVE StorageInv'
  <2>0. request[w].pc = "sqlite" /\ InStore(w) /\ UNCHANGED <<setup, pgTable, pgRows, left, overlap>>
    BY <1>1 DEF InSqlite, InStore
  <2>1. CASE op[w].pc \notin {"returned", "failed", "locked"} /\ StoreStep(w) /\ UNCHANGED <<request, engine>>
    <3>1. Elsewhere
      BY <2>0, <2>1 DEF Elsewhere
    <3> QED
      BY <2>0, <2>1, <3>1, StoreOpened, StoreCreated, StoreExecuted, StoreCommitted, StoreRaised DEF StoreStep
  <2>2. CASE /\ op[w].pc = "returned"
             /\ WriteTo(w, request[w].engine, request[w].key, 2)
             /\ UNCHANGED <<conns, conn, closed, pending, table>>
    BY <2>0, <2>2, NextTarget DEF SqliteRests
  <2>3. CASE op[w].pc \in {"failed", "locked"} /\ Await(w, "raised") /\ UNCHANGED <<storeVars, engine>>
    <3>1. Active(w) /\ ~Storing(w, "committing")
      BY <2>0, <2>3 DEF Active, Over, Storing
    <3>2. UNCHANGED <<op, engine, pgTable, pgRows, overlap>> /\ SqliteRests
      BY <2>0, <2>3 DEF storeVars, SqliteRests
    <3> QED
      BY <2>3, <3>1, <3>2, RaisedStep
  <2> QED
    BY <1>1, <2>1, <2>2, <2>3 DEF InSqlite
<1>2. ASSUME NEW w \in Clients, PgRaises(w) PROVE StorageInv'
  <2>1. Active(w) /\ ~Storing(w, "committing") /\ Await(w, "raised")
    BY <1>2 DEF PgRaises, Active, Over, Storing
  <2>2. UNCHANGED <<op, engine, pgTable, pgRows, overlap>> /\ SqliteRests
    BY <1>2 DEF PgRaises, storeVars, SqliteRests
  <2> QED
    BY <2>1, <2>2, RaisedStep
<1>3. CASE UNCHANGED storageVars
  <2>1. UNCHANGED <<conns, conn, closed, pending, table, op, engine, pgTable, pgRows, request, overlap>>
    BY <1>3 DEF storageVars, storeVars
  <2>2. StorageTyped' /\ EngineHasTable'
    BY <2>1 DEF StorageInv, StorageTyped, EngineHasTable
  <2>3. \A w \in Clients : WriteOK(w)'
    BY <2>1 DEF StorageInv, WriteOK, Writes, InStore, InPostgres
  <2>4. ASSUME ~overlap PROVE Sequential'
    <3>1. Sequential
      BY <2>4 DEF StorageInv
    <3>2. Alone' /\ \A w \in Clients : WriteDone(w)' /\ Stored(w)'
      BY <2>1, <3>1 DEF Sequential, Alone, Active, WriteDone, Stored, Storing, InStore, InPostgres
    <3>3. \A c \in 1 .. Len(conns') : Uncommitted(c)'
      BY <2>1, <3>1 DEF Sequential, Uncommitted, Storing
    <3>4. ASSUME NoneRaised', NEW k \in Keys PROVE Settled(k)'
      BY <2>1, <3>1, <3>4 DEF Sequential, NoneRaised, Settled, OnlyOne, Wrote, Between, Storing, InPostgres
    <3> QED
      BY <3>2, <3>3, <3>4 DEF Sequential
  <2> QED
    BY <2>1, <2>2, <2>3, <2>4 DEF StorageInv
<1> QED
  BY <1>1, <1>2, <1>3, WriteStep, ReadOrDeleteStep, PgCreatedStep, PgInsertedStep, TurnedAway, HealthStep
  DEF StorageNext

\* The invariant holds in every state.
THEOREM StorageInvariance == StorageSpec => []StorageInv
BY StorageInitInv, StorageStep, PTL DEF StorageSpec

\* PostgresStorage is without its table only while the call that set the engine,
\* a write or a health check, creates it or after that very call has failed.
THEOREM EngineNeedsItsTable == StorageSpec => []EngineHasTable
<1>1. StorageInv => EngineHasTable
  BY DEF StorageInv
<1> QED
  BY <1>1, StorageInvariance, PTL

\* What answered True is stored in every backend of its engine, unless calls overlapped.
THEOREM AnsweredIsStored == StorageSpec => []TrueMeansStored
<1>1. StorageInv => TrueMeansStored
  <2> SUFFICES ASSUME StorageInv, ~overlap, NEW w \in Clients,
                      request[w].pc = "true", request[w].engine \in Resolved,
                      NEW n \in DOMAIN Targets[request[w].engine]
               PROVE  /\ Targets[request[w].engine][n] = "sqlite" => table[request[w].key] # NoClient
                      /\ Targets[request[w].engine][n] = "postgres" => pgRows[request[w].key] # NoClient
    BY DEF TrueMeansStored
  <2>1. Stored(w)
    BY DEF StorageInv, Sequential
  <2>2. CASE request[w].engine = "sqlite"
    BY <2>1, <2>2, EngineFacts DEF Stored
  <2>3. CASE request[w].engine = "both"
    BY <2>1, <2>3, EngineFacts DEF Stored
  <2>4. CASE request[w].engine = "postgres"
    BY <2>1, <2>4, EngineFacts DEF Stored
  <2> QED
    BY <2>1, <2>2, <2>3, <2>4 DEF Stored
<1> QED
  BY <1>1, StorageInvariance, PTL

\* Once all calls are over, none raised and none overlapped, the two backends of
\* a multi-write hold the same row of every key that only multi-writes wrote.
THEOREM BackendsAgree == StorageSpec => []ReplicasAgree
<1>1. StorageInv => ReplicasAgree
  <2> SUFFICES ASSUME StorageInv, Quiet, ~overlap, \A w \in Clients : request[w].pc # "raised",
                      NEW k \in Keys,
                      \A w \in Clients, name \in {"sqlite", "postgres"} : ~(Wrote(w, name) /\ request[w].key = k)
               PROVE  table[k] = pgRows[k]
    BY DEF ReplicasAgree
  <2>1. Settled(k)
    BY DEF StorageInv, Sequential, NoneRaised
  <2>2. ASSUME NEW w \in Clients PROVE ~OnlyOne(w, k) /\ ~Between(w, k)
    BY DEF OnlyOne, Between, Storing, InPostgres, Quiet, Active, Over
  <2> QED
    BY <2>1, <2>2 DEF Settled
<1> QED
  BY <1>1, StorageInvariance, PTL

=============================================================================
