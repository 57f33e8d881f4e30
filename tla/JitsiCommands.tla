---------------------------- MODULE JitsiCommands ----------------------------
(***************************************************************************)
(* evoid_jitsi_maubot/commands.py: the command registry.  Of a command the  *)
(* table keeps who may call it and what its argument parser asks for: how   *)
(* many words, and what becomes of words that are not the number or the     *)
(* mode it expects.                                                         *)
(***************************************************************************)
EXTENDS Naturals

\* A command takes any words after its least number, answers its usage to
\* words it cannot convert ("checked"), or lets the ValueError out ("raises").
Cmd(min) == [moderator |-> FALSE, min |-> min, words |-> "any"]
Mod(min) == [moderator |-> TRUE, min |-> min, words |-> "any"]
Checked(cmd) == [cmd EXCEPT !.words = "checked"]

RoomCommands ==
    [create |-> Cmd(0), join |-> Cmd(1), watch |-> Cmd(1), stopwatch |-> Cmd(0),
     hangup |-> Cmd(0), end |-> Mod(0)]

DisplayCommands ==
    [name |-> Cmd(1), email |-> Cmd(1), subject |-> Mod(1), localsubject |-> Cmd(1)]

MediaCommands ==
    [mute |-> Cmd(0), video |-> Cmd(0), screen |-> Cmd(0), muteall |-> Mod(0), muteremote |-> Mod(1),
     noise |-> Cmd(0), quality |-> Checked(Cmd(1)), audioonly |-> Cmd(0), camera |-> Cmd(0),
     mirror |-> Cmd(0), vbg |-> Cmd(0), blur |-> Cmd(0), virtualbg |-> Cmd(0)]

LayoutCommands ==
    [tile |-> Cmd(0), settile |-> Cmd(0), filmstrip |-> Cmd(0), chat |-> Cmd(0), hand |-> Cmd(0),
     subtitles |-> Cmd(0), setsubtitles |-> Cmd(0), participants |-> Cmd(0), whiteboard |-> Cmd(0),
     lobby |-> Mod(0)]

ParticipantCommands ==
    [kick |-> Mod(1), mod |-> Mod(1), pin |-> Cmd(0), volume |-> Checked(Cmd(2)),
     largevideo |-> Cmd(0), names |-> Cmd(1), sendto |-> Mod(2)]

ModerationCommands ==
    [approveknock |-> Mod(2), moderation |-> Checked(Mod(2)), askunmute |-> Mod(1),
     approvevideo |-> Mod(1), reject |-> Mod(2)]

ChatCommands ==
    [send |-> Cmd(1), pm |-> Cmd(1), cancelpm |-> Cmd(0), notify |-> Cmd(1), hidenotify |-> Cmd(1),
     tone |-> [Cmd(1) EXCEPT !.words = "raises"]]

RecordingCommands == [record |-> Checked(Mod(1)), stoprecord |-> Checked(Mod(1))]

BreakoutCommands ==
    [breakout |-> Mod(0), autobreakout |-> Mod(0), closebreakout |-> Mod(1), joinbreakout |-> Cmd(0),
     removebreakout |-> Mod(1)]

MiscCommands ==
    [followme |-> Mod(0), config |-> Mod(1), bandwidth |-> Checked(Cmd(1)), timer |-> Cmd(0),
     resizefilm |-> Checked(Cmd(1)), resizelarge |-> Checked(Cmd(2)), sendcamera |-> Cmd(1),
     sendtext |-> Cmd(2)]

Groups ==
    {RoomCommands, DisplayCommands, MediaCommands, LayoutCommands, ParticipantCommands,
     ModerationCommands, ChatCommands, RecordingCommands, BreakoutCommands, MiscCommands}

\* The registry: no two groups have a command of the same name.
CommandRegistry ==
    [name \in UNION {DOMAIN group : group \in Groups} |-> (CHOOSE group \in Groups : name \in DOMAIN group)[name]]

\* Mutant: no parser catches the ValueError of a conversion.
ParseArgsUncaught(name, n, convertible) ==
    IF n < CommandRegistry[name].min THEN "none"
    ELSE IF CommandRegistry[name].words # "any" /\ ~convertible THEN "raises" ELSE "dict"

\* parse_args on n words, convertible or not: a dict, None, or an exception.
\* The first word of tone is never converted.
ParseArgs(name, n, convertible) ==
    LET cmd == CommandRegistry[name]
    IN  IF n < cmd.min \/ (cmd.words = "checked" /\ ~convertible) THEN "none"
        ELSE IF cmd.words = "raises" /\ ~convertible /\ n > 1 THEN "raises" ELSE "dict"

=============================================================================
