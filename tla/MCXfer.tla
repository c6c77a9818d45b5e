------------------------------- MODULE MCXfer -------------------------------
(* Xfer with a bounded number of transfers on each connection.             *)
EXTENDS Xfer

CONSTANT MaxSends     \* transfers that may begin on one connection

(* No header past the bound is written; every other step is as in XNext.   *)
MCNext == XNext /\ \A c \in Conns : Len(announced'[c]) <= MaxSends

MCSpec == XInit /\ [][MCNext]_xvars
=============================================================================
