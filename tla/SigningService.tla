--------------------------- MODULE SigningService ---------------------------
(***************************************************************************)
(* What the server promises a client: one answer per request, and 200 only *)
(* for something that has been signed.  It does not promise the converse:  *)
(* a request that was answered otherwise, or not at all, may have been     *)
(* signed, and may even be signed afterwards.                              *)
(***************************************************************************)

CONSTANT Requests

VARIABLES
  answer,   \* answer[r] is "none", "200" or "other"
  signed    \* the requests whose artifact has been signed

serviceVars == <<answer, signed>>

Init ==
  /\ answer = [r \in Requests |-> "none"]
  /\ signed = {}

Sign(r) ==
  /\ r \notin signed
  /\ signed' = signed \cup {r}
  /\ UNCHANGED answer

Answer(r, a) ==
  /\ answer[r] = "none"
  /\ a = "200" => r \in signed
  /\ answer' = [answer EXCEPT ![r] = a]
  /\ UNCHANGED signed

\* The process dies: open requests end without an answer, all at once.
Abandon(R) ==
  /\ \A r \in R : answer[r] = "none"
  /\ answer' = [r \in Requests |-> IF r \in R THEN "other" ELSE answer[r]]
  /\ UNCHANGED signed

Next ==
  \/ \E r \in Requests : Sign(r) \/ \E a \in {"200", "other"} : Answer(r, a)
  \/ \E R \in SUBSET Requests : Abandon(R)

Spec == Init /\ [][Next]_serviceVars
=============================================================================
