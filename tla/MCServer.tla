------------------------------ MODULE MCServer ------------------------------
(***************************************************************************)
(* Model values for Server: the routes of the code, two requests.          *)
(***************************************************************************)
EXTENDS Server, TLC

CONSTANTS r1, r2

Table == INSTANCE Routes

AllEndpoints == Table!AllRoutes
ImxOnly == {Table!Imx}

TwoRequests == {r1, r2}
Interchangeable == Permutations(Requests)
=============================================================================
