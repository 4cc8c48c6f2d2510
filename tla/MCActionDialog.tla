--------------------------- MODULE MCActionDialog ---------------------------
(* Two runs of up to three lines, two of which fit on the connection.      *)
EXTENDS ActionDialog
=============================================================================
