-------------------------- MODULE SignerDiscipline --------------------------
(***************************************************************************)
(* What a sign method must look like for its operation to be safe,         *)
(* whatever its length, its keys and the outcome of its tools: a condition *)
(* on the text of the method, and the inductive invariant that follows     *)
(* from it.  The invariant includes the condition, so that TLC, which      *)
(* starts with every method of the repository, finds that all meet it.     *)
(***************************************************************************)
EXTENDS Signing

Gets(s)    == s.op \in {"get", "opt"}
Tool(s)    == s.op \in {"run", "each"}
Closing(s) == s.op = "clean" \/ (Tool(s) /\ s.cleanup)

GetBefore(P, i)     == \E j \in 1..(i - 1) : Gets(P[j])
ToolBefore(P, i)    == \E j \in 1..(i - 1) : Tool(P[j])
ClosingBefore(P, i) == \E j \in 1..(i - 1) : Closing(P[j])

\* Key files are fetched before any tool runs and before any cleanup.
FetchesFirst(P) ==
  \A i \in 1..Len(P) : Gets(P[i]) => ~ToolBefore(P, i) /\ ~ClosingBefore(P, i)

\* A tool that takes keys runs before any cleanup, and after the keys were
\* asked for.
ToolsBetween(P) ==
  \A i \in 1..Len(P) : Tool(P[i]) =>
    \A k \in P[i].keys :
      /\ ~ClosingBefore(P, i)
      /\ \E j \in 1..(i - 1) : Gets(P[j]) /\ k \in P[j].keys

\* The cleanup at i is on every path: nothing before it can fail, or it is
\* outside the branches.
Certain(P, i) == Closing(P[i]) /\ (P[i].when = "always" \/ ~ToolBefore(P, i))

AlwaysCloses(P) ==
  GetBefore(P, Len(P) + 1) => \E i \in 1..Len(P) : Certain(P, i)

\* A tool whose exit status is assigned to the result runs only if all went
\* well before it.
NoMaskedFailure(P) == \A i \in 1..Len(P) : P[i].op = "run" => P[i].when = "ok"

\* A method that fetches keys has a KeyFiles object by then.
HasKeyFiles(p) ==
  p.loads \/ \A i \in 1..Len(p.steps) :
               Gets(p.steps[i]) => \E j \in 1..(i - 1) : p.steps[j].op = "load"

Disciplined(p) ==
  /\ FetchesFirst(p.steps)
  /\ ToolsBetween(p.steps)
  /\ AlwaysCloses(p.steps)
  /\ NoMaskedFailure(p.steps)
  /\ HasKeyFiles(p)

\* What the theorems ask of the table of sign methods.
DisciplinedTable == \A p \in Programs : Disciplined(p)

-----------------------------------------------------------------------------
(* The inductive invariant.                                                *)

\* Before the method is called nothing has happened to the keys.
Untouched ==
  status \in {"new", "ready", "refused"} =>
    ~tmpdir /\ dirs = 0 /\ pc = 1 /\ result /\ got = {} /\ ~toolFailed

Constructed == status = "ready" /\ prog.loads => loaded

NotAnswered == status \in {"new", "ready", "running"} => reply = "none"

OpenedOnce == tmpdir => dirs > 0

\* What is known between two steps of the method.
AtStep ==
  status = "running" =>
    /\ held = whole
    /\ ~ClosingBefore(Steps, pc) => got \subseteq whole
    /\ ~ToolBefore(Steps, pc) => result
    /\ (\E i \in 1..(pc - 1) : Certain(Steps, i)) => ~tmpdir
    /\ dirs > 0 => GetBefore(Steps, pc)
    /\ dirs > 0 /\ ~tmpdir => ClosingBefore(Steps, pc)
    /\ \A i \in 1..(pc - 1) : Steps[i].op = "get" => Steps[i].keys \subseteq got
    /\ prog.loads => loaded
    /\ \A i \in 1..(pc - 1) :
         Steps[i].op = "load" /\ ~ToolBefore(Steps, i) => loaded
    /\ tmpdir => loaded
    /\ result <=> ~toolFailed

AtReturn == status = "returned" => ~tmpdir /\ (result <=> ~toolFailed)

\* Before each step: nothing is torn, nothing is fetched or used after a
\* cleanup, a failure is remembered, and a cleanup that was certain to be
\* reached has been effective.  After the last step: no keys.
IInv ==
  /\ Disciplined(prog)
  /\ TypeOK
  /\ Untouched
  /\ Constructed
  /\ NotAnswered
  /\ OpenedOnce
  /\ AtStep
  /\ AtReturn
=============================================================================
