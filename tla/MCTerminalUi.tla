---------------------------- MODULE MCTerminalUi ----------------------------
(***************************************************************************)
(* TerminalUi for TLC: queries that overlap, an empty editor, a reload of  *)
(* the catalog that races with the first load, scrolling to the limit, a   *)
(* channel of one event that four kinds of tasks compete for, and an audit *)
(* log that is full after two messages.                                    *)
(***************************************************************************)
EXTENDS TerminalUi

MCScripts ==
  {<<"text", "f5", "f5", "ctrl_c">>,
   <<"f5", "text", "f5", "ctrl_r", "ctrl_c">>,
   <<"text", "ctrl_l", "f5", "tab", "tab", "down", "down", "up", "ctrl_c">>,
   <<"text", "f5", "down", "down", "up", "ctrl_l", "tab", "tab", "tab", "f5", "ctrl_c">>}
=============================================================================
