------------------------------ MODULE Signing -------------------------------
(***************************************************************************)
(* One signing operation, from the construction of the signer to the reply *)
(* of its handler: the steps of the signer's program are interpreted       *)
(* against KeyFiles, the key store and the external tools.                 *)
(* class Signer is digsigserver/signers/signer.py.                         *)
(***************************************************************************)
EXTENDS KeyFiles, Sequences

CONSTANT Programs   \* the sign methods, see SignerPrograms

Ops == {"get", "opt", "load", "run", "each", "work", "transfer", "clean", "raise"}

StepType ==
  [op: Ops, keys: SUBSET KeyNames, cleanup: BOOLEAN, when: {"ok", "always"}]

\* A sign method: well-typed steps, and one key at a time is fetched.
IsProgram(p) ==
  /\ DOMAIN p = {"signer", "loads", "rejects", "handler", "steps"}
  /\ p.loads \in BOOLEAN
  /\ p.rejects \subseteq {"Value", "Other"}
  /\ p.handler \subseteq {"lists", "extracts", "checks", "repacks"}
  /\ p.steps \in Seq(StepType)
  /\ \A i \in 1..Len(p.steps) :
       p.steps[i].op \in {"get", "opt"} => \E k \in KeyNames : p.steps[i].keys = {k}

ASSUME ProgramsAssumption == \A p \in Programs : IsProgram(p)

VARIABLES
  prog,        \* the program of this operation
  status,      \* "new", "ready" (constructed), "running", "returned", "raised"
               \* or "refused"
  pc,          \* index of the next step
  result,      \* the value the method would return
  got,         \* the keys whose paths get() has returned
  toolFailed,  \* some tool has failed (history)
  reply        \* "none" or the HTTP status of the answer

opVars == <<prog, status, pc, result, got, toolFailed, reply>>
vars == <<keyVars, opVars>>

Steps == prog.steps
Here == Steps[pc]
KeysOf(p) == UNION {p.steps[i].keys : i \in 1..Len(p.steps)}
OptionalKeys(p) ==
  UNION {p.steps[i].keys : i \in {j \in 1..Len(p.steps) : p.steps[j].op = "opt"}}

Init ==
  /\ KeyInit
  /\ prog \in Programs
  /\ store \in SUBSET KeysOf(prog)
  /\ status = "new"
  /\ pc = 1
  /\ result = TRUE
  /\ got = {}
  /\ toolFailed = FALSE
  /\ reply = "none"

-----------------------------------------------------------------------------
(* The signer's constructor.                                               *)

Refuse ==
  /\ status = "new"
  /\ "Value" \in prog.rejects
  /\ status' = "refused"
  /\ UNCHANGED <<keyVars, prog, pc, result, got, toolFailed, reply>>

ConstructorRaises ==
  /\ status = "new"
  /\ "Other" \in prog.rejects \/ (prog.loads /\ CannotLoad)
  /\ status' = "raised"
  /\ UNCHANGED <<keyVars, prog, pc, result, got, toolFailed, reply>>

Construct ==
  /\ status = "new"
  /\ IF prog.loads THEN LoadKeys ELSE UNCHANGED keyVars
  /\ status' = "ready"
  /\ UNCHANGED <<prog, pc, result, got, toolFailed, reply>>

-----------------------------------------------------------------------------
(* What the handler does before it hands the method to a worker thread: it *)
(* unpacks or writes the upload, and looks at what it is asked for.        *)

HandOver ==
  /\ status = "ready"
  /\ status' = "running"
  /\ UNCHANGED <<keyVars, prog, pc, result, got, toolFailed, reply>>

\* The manifest or the type is not valid (400), or tar fails (500).
TurnDown ==
  /\ status = "ready"
  /\ \/ "checks" \in prog.handler /\ reply' = "400"
     \/ "extracts" \in prog.handler /\ reply' = "500"
  /\ status' = "refused"
  /\ UNCHANGED <<keyVars, prog, pc, result, got, toolFailed>>

\* A field is missing, the upload cannot be decoded or written, no thread
\* can be started.
PrepareRaises ==
  /\ status = "ready"
  /\ status' = "raised"
  /\ UNCHANGED <<keyVars, prog, pc, result, got, toolFailed, reply>>

-----------------------------------------------------------------------------
(* The steps of the method, in a worker thread.                            *)

Ready(ops) ==
  /\ status = "running"
  /\ pc \in 1..Len(Steps)
  /\ Here.op \in ops
  /\ result \/ Here.when = "always"

Advance ==
  /\ pc' = pc + 1
  /\ UNCHANGED <<prog, status, reply>>

Raise ==
  /\ status' = "raised"
  /\ UNCHANGED <<prog, pc, result, got, reply>>

\* A step of the branch that was not taken.
Skip ==
  /\ status = "running"
  /\ pc \in 1..Len(Steps)
  /\ ~result /\ Here.when = "ok"
  /\ Advance
  /\ UNCHANGED <<keyVars, result, got, toolFailed>>

FetchKey ==
  /\ Ready({"get", "opt"})
  /\ \E k \in Here.keys : GetKey(k)
  /\ got' = got \cup Here.keys
  /\ Advance
  /\ UNCHANGED <<result, toolFailed>>

\* Mutant of MissOptional: the path is passed on although nothing was fetched.
MissOptionalUnnoticed ==
  /\ Ready({"opt"})
  /\ \E k \in Here.keys : KeyNotFound(k)
  /\ got' = got \cup Here.keys
  /\ Advance
  /\ UNCHANGED <<result, toolFailed>>

\* except FileNotFoundError: the signer goes on without the key.
MissOptional ==
  /\ Ready({"opt"})
  /\ \E k \in Here.keys : KeyNotFound(k)
  /\ Advance
  /\ UNCHANGED <<result, got, toolFailed>>

MissKey ==
  /\ Ready({"get"})
  /\ \E k \in Here.keys : KeyNotFound(k)
  /\ Raise
  /\ UNCHANGED toolFailed

FetchBreaks ==
  /\ Ready({"get", "opt"})
  /\ \E k \in Here.keys : GetBreaks(k)
  /\ Raise
  /\ UNCHANGED toolFailed

EnsureLoaded ==
  /\ Ready({"load"})
  /\ IF loaded THEN UNCHANGED keyVars ELSE LoadKeys
  /\ Advance
  /\ UNCHANGED <<result, got, toolFailed>>

LoadRaises ==
  /\ Ready({"load"})
  /\ ~loaded /\ CannotLoad
  /\ Raise
  /\ UNCHANGED <<keyVars, toolFailed>>

-----------------------------------------------------------------------------
(* run_command: the tool exits with 0, with another code, or an exception  *)
(* other than CalledProcessError comes out (no such tool, undecodable      *)
(* output), in which case cleanup is not reached.                          *)

CleanIfAsked ==
  IF Here.cleanup /\ loaded THEN DropDir ELSE UNCHANGED keyVars

ToolSucceeds ==
  /\ Ready({"run", "each"})
  /\ CleanIfAsked
  /\ result' = IF Here.op = "run" THEN TRUE ELSE result
  /\ Advance
  /\ UNCHANGED <<got, toolFailed>>

\* Mutant of ToolFails: the keys are removed only when the tool succeeds.
FailureKeepsKeys ==
  /\ Ready({"run", "each"})
  /\ result' = FALSE
  /\ toolFailed' = TRUE
  /\ Advance
  /\ UNCHANGED <<keyVars, got>>

ToolFails ==
  /\ Ready({"run", "each"})
  /\ CleanIfAsked
  /\ result' = FALSE
  /\ toolFailed' = TRUE
  /\ Advance
  /\ UNCHANGED got

\* Mutant of ToolRaises: every exception is caught, but only to return False.
RaisesIsFalse ==
  /\ Ready({"run", "each"})
  /\ result' = FALSE
  /\ toolFailed' = TRUE
  /\ Advance
  /\ UNCHANGED <<keyVars, got>>

ToolRaises ==
  /\ Ready({"run", "each"})
  /\ Raise
  /\ toolFailed' = TRUE
  /\ UNCHANGED keyVars

-----------------------------------------------------------------------------
(* Everything else a method does.                                          *)

WorkDone ==
  /\ Ready({"work", "transfer"})
  /\ Advance
  /\ UNCHANGED <<keyVars, result, got, toolFailed>>

WorkRaises ==
  /\ Ready({"work", "transfer", "raise"})
  /\ Raise
  /\ UNCHANGED <<keyVars, toolFailed>>

CleanKeys ==
  /\ Ready({"clean"})
  /\ IF loaded THEN DropDir ELSE UNCHANGED keyVars
  /\ Advance
  /\ UNCHANGED <<result, got, toolFailed>>

Return ==
  /\ status = "running"
  /\ pc = Len(Steps) + 1
  /\ status' = "returned"
  /\ UNCHANGED <<keyVars, prog, pc, result, got, toolFailed, reply>>

-----------------------------------------------------------------------------
(* The handler answers (whether the client reads it is Server's matter);   *)
(* then the last reference to the signer is dropped and the finalizer of   *)
(* its key directory runs.  While an exception is being answered its       *)
(* traceback still refers to the signer.                                   *)

\* Mutant of Answer: no handler is installed for unexpected exceptions.
AnswerResultsOnly ==
  /\ reply = "none"
  /\ \/ status = "returned" /\ result /\ reply' = "200"
     \/ status = "returned" /\ "repacks" \in prog.handler /\ reply' = "500"
     \/ status = "returned" /\ ~result /\ reply' = "500"
     \/ status = "refused" /\ reply' = "400"
  /\ UNCHANGED <<keyVars, prog, status, pc, result, got, toolFailed>>

\* The tar that packs the results may fail.
Answer ==
  /\ reply = "none"
  /\ \/ status = "returned" /\ result /\ reply' = "200"
     \/ status = "returned" /\ "repacks" \in prog.handler /\ reply' = "500"
     \/ status = "returned" /\ ~result /\ reply' = "500"
     \/ status = "raised" /\ reply' = "500"
     \/ status = "refused" /\ reply' = "400"
  /\ UNCHANGED <<keyVars, prog, status, pc, result, got, toolFailed>>

Collect ==
  /\ reply # "none"
  /\ tmpdir
  /\ DropDir
  /\ UNCHANGED opVars

Next ==
  \/ Refuse \/ ConstructorRaises \/ Construct
  \/ HandOver \/ TurnDown \/ PrepareRaises
  \/ Skip \/ FetchKey \/ MissOptional \/ MissKey \/ FetchBreaks
  \/ EnsureLoaded \/ LoadRaises
  \/ ToolSucceeds \/ ToolFails \/ ToolRaises
  \/ WorkDone \/ WorkRaises \/ CleanKeys \/ Return
  \/ Answer \/ Collect

Spec == Init /\ [][Next]_vars

\* What the operation does next waits for a subprocess: a tool, an aws command
\* (of the constructor, of a key that is not in the directory yet, of an
\* artifact), or the tar of the handler before and after the method.
AtSubprocess ==
  \/ status = "new" /\ ((prog.loads /\ scheme = "s3") \/ "lists" \in prog.handler)
  \/ status = "ready" /\ "extracts" \in prog.handler
  \/ Ready({"run", "each", "transfer"})
  \/ scheme = "s3" /\ Ready({"get", "opt"}) /\ Here.keys \cap held = {}
  \/ scheme = "s3" /\ Ready({"load"}) /\ ~loaded
  \/ status = "returned" /\ result /\ reply = "none" /\ "repacks" \in prog.handler

\* The thread and the event loop keep running their own steps.  No fairness
\* for what waits for a subprocess: subprocess.run is called without a
\* timeout, so each of them may hang for ever.
Internal == Next /\ ~AtSubprocess

FairSpec == Spec /\ WF_vars(Internal)

-----------------------------------------------------------------------------
(* Properties.                                                             *)

TypeOK ==
  /\ KeyTypeOK
  /\ prog \in Programs
  /\ status \in {"new", "ready", "running", "returned", "raised", "refused"}
  /\ pc \in 1..(Len(Steps) + 1)
  /\ result \in BOOLEAN
  /\ got \subseteq KeyNames
  /\ toolFailed \in BOOLEAN
  /\ reply \in {"none", "200", "400", "500"}

\* A tool is never started with the path of a key file that has been removed,
\* was never fetched, or is torn: an earlier cleanup in the same method, or a
\* cached path of a copy that broke, would do that.
ToolSeesKeys ==
  Ready({"run", "each"}) =>
    \A k \in Here.keys : k \in whole \/ (k \in OptionalKeys(prog) /\ k \notin got)

\* A sign method that returns, with either value and whatever tools failed,
\* has removed its key directory: every path through every method cleans up.
ReturnLeavesNoKeys == status = "returned" => ~tmpdir

\* A method returns True exactly when no tool it ran has failed: no later
\* success hides an earlier failure.
ResultMeansEveryToolSucceeded == status = "returned" => (result <=> ~toolFailed)

\* A key of the operation that is in the store is handed to the tool that
\* takes it, optional or not.
KeyInStoreIsUsed ==
  Ready({"run", "each"}) => Here.keys \cap store \subseteq got

\* At least so if the keys are in a directory.
KeyInDirectoryIsUsed == scheme = "file" => KeyInStoreIsUsed

\* The operation keeps the promise of KeyCustody.
Custody == INSTANCE KeyCustody WITH
  custody <- IF tmpdir THEN "held" ELSE IF dirs = 0 THEN "none" ELSE "released",
  verdict <- CASE status \in {"new", "ready", "running"} -> "pending"
               [] status = "returned" -> IF result THEN "signed" ELSE "failed"
               [] status = "refused"  -> "refused"
               [] status = "raised"   -> "raised"

KeepsCustody == Custody!Spec

\* The operation is a job as Server knows it.
Job == INSTANCE SignJob WITH
  state <- CASE status \in {"new", "ready", "refused"} -> "none"
             [] status = "returned" -> IF result THEN "true" ELSE "false"
             [] OTHER -> status,
  keys <- IF tmpdir THEN "held" ELSE "none"

IsSignJob == Job!Spec

\* Unless a subprocess hangs, the request is answered and the keys go,
\* whichever exception the method ends in.
AnsweredAndKeysGone == <>[](reply # "none" /\ ~tmpdir) \/ <>[]AtSubprocess
=============================================================================
