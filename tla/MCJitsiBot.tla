----------------------------- MODULE MCJitsiBot -----------------------------
(***************************************************************************)
(* JitsiBot for TLC: one room.                                             *)
(***************************************************************************)
EXTENDS JitsiBot

CONSTANT r1

RowKeys == {<<"meeting", r1>>, <<"watch", r1>>, <<"mod", r1>>}

=============================================================================
