---------------------------- MODULE MCEventLoop ----------------------------
(***************************************************************************)
(* Model values for EventLoop: routes that list keys or may pass, that     *)
(* answer with a tarball, a file or a text.                                *)
(***************************************************************************)
EXTENDS EventLoop

CONSTANTS r1, r2

Table == INSTANCE Routes

LoopEndpoints == {Table!Tegra, Table!Imx, Table!Swupdate, Table!Mender}
TwoRequests == {r1, r2}
=============================================================================
