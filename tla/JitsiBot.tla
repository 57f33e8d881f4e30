------------------------------- MODULE JitsiBot -------------------------------
(***************************************************************************)
(* evoid_jitsi_maubot/__init__.py: the plugin from start to stop, again and *)
(* again, and the messages it handles meanwhile, each in a coroutine of its *)
(* own that may outlive the stop.  What it keeps goes through SqliteStore:  *)
(* every start makes a storage object on the same file.  maubot is          *)
(* external: it makes a plugin object for every start, and hands messages   *)
(* over from before start() has returned until stop() is called.  publish   *)
(* is external too: it returns results or none.                             *)
(***************************************************************************)
EXTENDS SqliteStore, JitsiCommands

CONSTANTS
    Plugin,     \* the coroutine of start, one of Clients
    Whitelist,  \* admin_whitelist
    Users,      \* those who send messages
    Rooms,      \* the rooms they are in
    Words,      \* the subcommands they send, known or not
    None        \* before there is a user, a room or a participant

Commands == Clients \ {Plugin}

ASSUME BotAssumption ==
    /\ Plugin \in Clients /\ Whitelist \subseteq Users /\ Words # {}
    /\ IsFiniteSet(Stores) /\ Stores # {} /\ Stores = 1 .. Cardinality(Stores)
    /\ \A r \in Rooms, t \in {"meeting", "watch", "mod"} : <<t, r>> \in Keys

VARIABLES
    phase,    \* of the plugin: "stopped", "starting", "running" or "stopping"
    starts,   \* how often it was started: the number of the newest object
    storage,  \* _storage of the newest plugin object, or 0
    message   \* what became of each message, which start's plugin object
              \* handles it, and did it come before start() ended?

vars == <<storeVars, phase, starts, storage, message>>

Ended == {"replied", "refused", "raised"}

TypeOK ==
    /\ StoreTypeOK
    /\ phase \in {"stopped", "starting", "running", "stopping"}
    /\ starts \in {0} \cup Stores /\ storage \in {0} \cup Stores
    /\ message \in [Commands -> [pc : {"none", "publishing", "persisting"} \cup Ended, word : Words,
                                 user : Users \cup {None}, room : Rooms \cup {None}, early : BOOLEAN, plugin : {0} \cup Stores]]

Init ==
    /\ StoreInit
    /\ phase = "stopped" /\ starts = 0 /\ storage = 0
    /\ message = [m \in Commands |-> [pc |-> "none", word |-> CHOOSE word \in Words : TRUE, user |-> None,
                                      room |-> None, early |-> FALSE, plugin |-> 0]]

-----------------------------------------------------------------------------
(* The plugin.                                                             *)

\* start: the service and its intents, a new storage object, and connect().
Start ==
    /\ phase = "stopped" /\ starts + 1 \in Stores
    /\ phase' = "starting"
    /\ starts' = starts + 1
    /\ storage' = starts + 1
    /\ Begin(Plugin, starts + 1, NoKey)
    /\ UNCHANGED <<conns, conn, closed, pending, table, message>>

Starting ==
    /\ phase = "starting"
    /\ StoreStep(Plugin)
    /\ UNCHANGED <<phase, starts, storage, message>>

\* connect() has returned, and the rest of start runs.
Started ==
    /\ phase = "starting" /\ op[Plugin].pc = "returned"
    /\ phase' = "running"
    /\ UNCHANGED <<storeVars, starts, storage, message>>

\* stop: it awaits close(), when there is a connection to close ...
Stop ==
    /\ phase = "running"
    /\ phase' = "stopping"
    /\ UNCHANGED <<storeVars, starts, storage, message>>

\* ... and only then forgets the storage.
Stopped ==
    /\ phase = "stopping"
    /\ phase' = "stopped"
    /\ storage' = 0
    /\ IF conn[storage] = 0 THEN UNCHANGED storeVars ELSE Close(storage)
    /\ UNCHANGED <<starts, message>>

-----------------------------------------------------------------------------
(* The messages.                                                           *)

\* _is_moderator: everybody, when there is no whitelist.
IsModerator(user) == Whitelist = {} \/ user \in Whitelist

\* Mutant: the permission is asked for after the arguments.
OutcomeUnchecked(user, word, n, convertible) ==
    IF word \notin DOMAIN CommandRegistry THEN "refused"
    ELSE CASE ParseArgs(word, n, convertible) = "none" -> "refused"
           [] ParseArgs(word, n, convertible) = "raises" -> "raised"
           [] OTHER -> "publishing"

\* _handle_jitsi_command up to publish: help, an unknown command, a missing
\* permission and wrong arguments are answered at once.
Outcome(user, word, n, convertible) ==
    IF word \notin DOMAIN CommandRegistry THEN "refused"
    ELSE IF CommandRegistry[word].moderator /\ ~IsModerator(user) THEN "refused"
    ELSE CASE ParseArgs(word, n, convertible) = "none" -> "refused"
           [] ParseArgs(word, n, convertible) = "raises" -> "raised"
           [] OTHER -> "publishing"

OnMessage(m, user, room, word) ==
    /\ phase \in {"starting", "running"}
    /\ message[m].pc = "none"
    /\ \E n \in 0 .. 2, convertible \in BOOLEAN :
          message' = [message EXCEPT ![m] = [pc |-> Outcome(user, word, n, convertible), word |-> word,
                                             user |-> user, room |-> room, early |-> phase = "starting",
                                             plugin |-> starts]]
    /\ UNCHANGED <<storeVars, phase, starts, storage>>

\* The rows of create, watch and mod; "mod" looks for its participant under
\* a name the parser does not use, so that all grants of a room share a key.
Persisted == {"create", "watch", "mod"}
KeyOf(m) ==
    <<CASE message[m].word = "create" -> "meeting" [] message[m].word = "watch" -> "watch" [] OTHER -> "mod",
      message[m].room>>

SetMessage(m, place) == message' = [message EXCEPT ![m].pc = place]

\* publish returns: without a result the failure is answered, without a row
\* to write or a storage the response.
Published(m) ==
    /\ message[m].pc = "publishing"
    /\ \/ SetMessage(m, "refused") /\ UNCHANGED op
       \/ /\ storage # message[m].plugin \/ message[m].word \notin Persisted
          /\ SetMessage(m, "replied") /\ UNCHANGED op
       \/ /\ storage = message[m].plugin /\ message[m].word \in Persisted
          /\ SetMessage(m, "persisting")
          /\ Begin(m, storage, KeyOf(m))
    /\ UNCHANGED <<conns, conn, closed, pending, table, phase, starts, storage>>

\* _persist_meeting writes; afterwards the response is sent, or the exception
\* of the storage leaves the handler.
Persist(m) ==
    /\ message[m].pc = "persisting"
    /\ \/ op[m].pc \notin {"returned", "failed", "locked"} /\ StoreStep(m) /\ UNCHANGED message
       \/ op[m].pc = "returned" /\ SetMessage(m, "replied") /\ UNCHANGED storeVars
       \/ op[m].pc \in {"failed", "locked"} /\ SetMessage(m, "raised") /\ UNCHANGED storeVars
    /\ UNCHANGED <<phase, starts, storage>>

Next ==
    \/ Start \/ Starting \/ Started \/ Stop \/ Stopped
    \/ \E m \in Commands :
        \/ \E user \in Users, room \in Rooms, word \in Words : OnMessage(m, user, room, word)
        \/ Published(m) \/ Persist(m)

Spec == Init /\ [][Next]_vars

-----------------------------------------------------------------------------
(* Properties.                                                             *)

AllInTime == \A m \in Commands : ~message[m].early

\* A command that was answered after its row was written has it committed,
\* also when the plugin was stopped or started again meanwhile, unless a
\* message came in while start() was still connecting: it opens a second
\* connection, and the row may wait on the first for ever (__init__.py:70-84,
\* :221-265).
AnsweredIsKept ==
    AllInTime => \A m \in Commands, c \in Connections, k \in Keys :
                    pending[c][k] = m => message[m].pc # "replied"

\* A command gets no reply for three reasons only: tone let a ValueError out,
\* stop() closed the connection under it or it could not be opened, or a
\* message that came before start() had ended left the file locked
\* (__init__.py:77-84, :164-219, commands.py:143-148).
SilentHasCause ==
    \A m \in Commands : message[m].pc = "raised" =>
        \/ message[m].word = "tone"
        \/ op[m].pc = "failed" /\ (op[m].on = 0 \/ op[m].on \in closed)
        \/ op[m].pc = "locked" /\ ~AllInTime

\* Whoever grants moderation in a room, now or after a restart, is on the
\* whitelist, if there is one (__init__.py:182-184, :257-265, :271-276).
GrantsByModerators ==
    \A r \in Rooms : \A rows \in {table} \cup {pending[c] : c \in Connections} :
        \A m \in Commands : rows[<<"mod", r>>] = m => IsModerator(message[m].user)

=============================================================================
