------------------------------- MODULE MCDaemon -------------------------------
(* Small instances of Daemon for TLC: three providers, one of which may lie. *)
EXTENDS Daemon, TLC

CONSTANTS honest1, honest2, liar
===============================================================================
