------------------------------ MODULE MCMender ------------------------------
(***************************************************************************)
(* Model values for MenderStore: two requests for one artifact.            *)
(***************************************************************************)
EXTENDS MenderStore, TLC

CONSTANTS r1, r2

TwoRequests == {r1, r2}

\* One crash, or one new artifact.
OneEvent == Next /\ crashes' + latest' <= 2

MCRetrySpec == Init /\ [][OneEvent]_vars /\ RetriesSucceed(r1)

Interchangeable == Permutations(Requests)
=============================================================================
