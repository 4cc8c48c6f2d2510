---------------------------- MODULE MCStackLogs ----------------------------
(* Three sockets: the second can be clobbered by the first and run beside  *)
(* the third.                                                              *)
EXTENDS StackLogs
=============================================================================
