------------------------------- MODULE Server -------------------------------
(***************************************************************************)
(* The life of the requests of one server: the handlers, which share one   *)
(* event loop and interleave at their awaits; the executor that runs their *)
(* jobs in a few threads; the disk both write to.  A handler may be        *)
(* cancelled at an await by the response timeout or by a client that goes  *)
(* away; the job it waits for is not stopped by that.                      *)
(* Sources: digsigserver/server.py, digsigserver/utils.py; Sanic, asyncio, *)
(* concurrent.futures and tempfile as the code uses them.                  *)
(***************************************************************************)
EXTENDS Naturals, Sequences, FiniteSets

CONSTANTS
  Requests,    \* requests the server receives
  Endpoints,   \* the routes they may go to, see Routes
  Workers,     \* threads of the event loop's default executor
  MaxCrashes   \* bound on process deaths

ASSUME ServerAssumption ==
  /\ IsFiniteSet(Requests)
  /\ Workers \in Nat \ {0}
  /\ MaxCrashes \in Nat
  \* The handler that decodes its upload late does so into an outfile.
  /\ \A e \in Endpoints : "decodes" \in e.traits => "outfile" \in e.traits

VARIABLES
  route,    \* where each request goes
  pc,       \* "idle", "waiting" or "streaming" at an await, "answered" between the
            \* end of the answer and that of the handler, or how the handler ended
  stage,    \* which job of the request was submitted last: "extract" or "sign"
  job,      \* its state, or its outcome: "true", "false", "raised"
  queue,    \* the executor's work queue; cancelled entries stay in it
  disk,     \* what each request has in the temporary directory of the server
  reply,    \* the answer each client got
  signed,   \* requests whose sign method has returned True (history)
  crashes   \* process deaths so far

vars == <<route, pc, stage, job, queue, disk, reply, signed, crashes>>

Ended == {"orderly", "raised", "cancelled", "crashed"}
Things == {"workdir", "unpacked", "outfile", "tarball", "keys"}

TypeOK ==
  /\ route \in [Requests -> Endpoints]
  /\ pc \in [Requests -> {"idle", "waiting", "streaming", "answered"} \cup Ended]
  /\ stage \in [Requests -> {"none", "extract", "sign"}]
  /\ job \in [Requests -> {"none", "queued", "cancelled", "running",
                           "true", "false", "raised"}]
  /\ queue \in Seq(Requests)
  /\ disk \in [Requests -> SUBSET Things]
  /\ reply \in [Requests -> {"none", "200", "400", "500", "503", "cut", "lost"}]
  /\ signed \subseteq Requests
  /\ crashes \in 0..MaxCrashes

Init ==
  /\ route \in [Requests -> Endpoints]
  /\ pc = [r \in Requests |-> "idle"]
  /\ stage = [r \in Requests |-> "none"]
  /\ job = [r \in Requests |-> "none"]
  /\ queue = <<>>
  /\ disk = [r \in Requests |-> {}]
  /\ reply = [r \in Requests |-> "none"]
  /\ signed = {}
  /\ crashes = 0

-----------------------------------------------------------------------------
(* The handler.  From one await to the next it is one step, except that a  *)
(* file is all sent before the "with" block is left.                       *)

Has(r, trait) == trait \in route[r].traits

\* The handler ends in this way, with this answer, leaving this on disk.
Exit(r, how, code, left) ==
  /\ pc' = [pc EXCEPT ![r] = how]
  /\ reply' = [reply EXCEPT ![r] = code]
  /\ disk' = [disk EXCEPT ![r] = left]

\* run_in_executor(None, ...).
Submit(r, st) ==
  /\ pc' = [pc EXCEPT ![r] = "waiting"]
  /\ stage' = [stage EXCEPT ![r] = st]
  /\ job' = [job EXCEPT ![r] = "queued"]
  /\ queue' = Append(queue, r)

\* Leaving the "with" block removes the working directory and all in it.
Workdir == {"workdir", "unpacked"}

\* Mutant of Tidy: no handler unlinks its outfile.
TidyWorkdirOnly(r) == Workdir

\* A handler that returns normally also unlinks outfile, if it ever does.
Tidy(r) == Workdir \cup (IF Has(r, "unlinks") THEN {"outfile"} ELSE {})

\* validate_upload and the other checks of the parameters, a ValueError of
\* the signer's constructor included.
Refuse(r) ==
  /\ pc[r] = "idle"
  /\ Exit(r, "orderly", "400", {})
  /\ UNCHANGED <<route, stage, job, queue, signed, crashes>>

\* Another exception before the job is submitted.
StartRaises(r) ==
  /\ pc[r] = "idle"
  /\ Exit(r, "raised", "500", {})
  /\ UNCHANGED <<route, stage, job, queue, signed, crashes>>

\* The upload is not text, and outfile has just been created.
DecodeRaises(r) ==
  /\ pc[r] = "idle"
  /\ Has(r, "decodes")
  /\ Exit(r, "raised", "500", {"outfile"})
  /\ UNCHANGED <<route, stage, job, queue, signed, crashes>>

Accept(r) ==
  /\ pc[r] = "idle"
  /\ Submit(r, IF Has(r, "unpacks") THEN "extract" ELSE "sign")
  /\ disk' = [disk EXCEPT ![r] = {"workdir"} \cup
                (IF Has(r, "outfile") THEN {"outfile"} ELSE {})]
  /\ UNCHANGED <<route, reply, signed, crashes>>

\* The handler resumes when its job has ended with value v.
Resumes(r, st, v) == pc[r] = "waiting" /\ stage[r] = st /\ job[r] = v

Extracted(r) ==
  /\ Resumes(r, "extract", "true")
  /\ Submit(r, "sign")
  /\ UNCHANGED <<route, disk, reply, signed, crashes>>

BadManifest(r) ==
  /\ Resumes(r, "extract", "true")
  /\ Has(r, "manifest")
  /\ Exit(r, "orderly", "400", disk[r] \ Tidy(r))
  /\ UNCHANGED <<route, stage, job, queue, signed, crashes>>

\* The MANIFEST cannot be opened; only a ValueError is caught.
ManifestRaises(r) ==
  /\ Resumes(r, "extract", "true")
  /\ Has(r, "manifest")
  /\ Exit(r, "raised", "500", disk[r] \ Workdir)
  /\ UNCHANGED <<route, stage, job, queue, signed, crashes>>

\* extract_files or the sign method returned False.  (The rk handler has no
\* answer to a failed extraction, or a failed repacking: it ends in an
\* exception after the "with" block, with the same 500 and the same disk.)
JobFailed(r) ==
  /\ \E st \in {"extract", "sign"} : Resumes(r, st, "false")
  /\ Exit(r, "orderly", "500", disk[r] \ Tidy(r))
  /\ UNCHANGED <<route, stage, job, queue, signed, crashes>>

\* The exception of the job comes out of the await.
JobRaised(r) ==
  /\ \E st \in {"extract", "sign"} : Resumes(r, st, "raised")
  /\ Exit(r, "raised", "500", disk[r] \ Workdir)
  /\ UNCHANGED <<route, stage, job, queue, signed, crashes>>

AnswerText(r) ==
  /\ Resumes(r, "sign", "true")
  /\ route[r].body = "text"
  /\ Exit(r, "orderly", "200", disk[r] \ Tidy(r))
  /\ UNCHANGED <<route, stage, job, queue, signed, crashes>>

\* Mutants of StartStream: the result of the signer is not looked at, and the
\* result of the extraction is taken for it.
StreamWhatever(r) ==
  /\ Resumes(r, "sign", "true") \/ Resumes(r, "sign", "false")
  /\ route[r].body \in {"file", "tarball"}
  /\ pc' = [pc EXCEPT ![r] = "streaming"]
  /\ UNCHANGED <<route, stage, job, queue, disk, reply, signed, crashes>>

StreamExtracted(r) ==
  /\ Resumes(r, "sign", "true") \/ Resumes(r, "extract", "true")
  /\ route[r].body \in {"file", "tarball"}
  /\ pc' = [pc EXCEPT ![r] = "streaming"]
  /\ UNCHANGED <<route, stage, job, queue, disk, reply, signed, crashes>>

\* return_file, or return_tarball once the tarball has been made (on the event
\* loop, nothing else runs meanwhile).
StartStream(r) ==
  /\ Resumes(r, "sign", "true")
  /\ route[r].body \in {"file", "tarball"}
  /\ pc' = [pc EXCEPT ![r] = "streaming"]
  /\ disk' = [disk EXCEPT ![r] = @ \cup
                (IF route[r].body = "tarball" THEN {"tarball"} ELSE {})]
  /\ UNCHANGED <<route, stage, job, queue, reply, signed, crashes>>

\* repack_files returned False: the tarball is unlinked.
RepackFails(r) ==
  /\ Resumes(r, "sign", "true")
  /\ route[r].body = "tarball"
  /\ Exit(r, "orderly", "500", disk[r] \ Tidy(r))
  /\ UNCHANGED <<route, stage, job, queue, signed, crashes>>

\* It raised: the tarball is not.
RepackRaises(r) ==
  /\ Resumes(r, "sign", "true")
  /\ route[r].body = "tarball"
  /\ Exit(r, "raised", "500", (disk[r] \ Workdir) \cup {"tarball"})
  /\ UNCHANGED <<route, stage, job, queue, signed, crashes>>

\* response.eof(): the client has all of its answer.  No await comes after it,
\* so nothing cancels the handler any more; the process may still die.
EndStream(r) ==
  /\ pc[r] = "streaming"
  /\ pc' = [pc EXCEPT ![r] = "answered"]
  /\ reply' = [reply EXCEPT ![r] = "200"]
  /\ UNCHANGED <<route, stage, job, queue, disk, signed, crashes>>

\* Mutant of LeaveBlock: a working directory that cannot be removed is ignored.
LeaveWorkdir(r) ==
  /\ pc[r] = "answered"
  /\ Exit(r, "orderly", reply[r], disk[r] \ ((Tidy(r) \ Workdir) \cup {"tarball"}))
  /\ UNCHANGED <<route, stage, job, queue, signed, crashes>>

\* The tarball is unlinked, and the "with" block left, after the answer.
LeaveBlock(r) ==
  /\ pc[r] = "answered"
  /\ Exit(r, "orderly", reply[r], disk[r] \ (Tidy(r) \cup {"tarball"}))
  /\ UNCHANGED <<route, stage, job, queue, signed, crashes>>

-----------------------------------------------------------------------------
(* Cancellation.  The await raises CancelledError: the "with" block is     *)
(* left, nothing else is unlinked.  A job that is still queued is          *)
(* cancelled with its future; a running one goes on.                       *)

\* Mutants of CancelJob: the future is shielded from the cancellation of the
\* handler; it is dropped together with its entry in the queue's bookkeeping.
ShieldJob(r) == job' = job

DropJob(r) ==
  job' = IF job[r] = "queued" THEN [job EXCEPT ![r] = "none"] ELSE job

CancelJob(r) ==
  job' = IF job[r] = "queued" THEN [job EXCEPT ![r] = "cancelled"] ELSE job

Cancel(r, code) ==
  /\ pc[r] \in {"waiting", "streaming"}
  /\ CancelJob(r)
  /\ Exit(r, "cancelled", IF pc[r] = "streaming" THEN "cut" ELSE code, disk[r] \ Workdir)
  /\ UNCHANGED <<route, stage, queue, signed, crashes>>

\* The job creates a file while rmtree is at work: rmtree's last rmdir fails,
\* its OSError replaces the CancelledError, and the directory stays.
CancelRacesJob(r, code) ==
  /\ pc[r] = "waiting"
  /\ job[r] = "running"
  /\ Exit(r, "cancelled", IF code = "503" THEN "500" ELSE code, disk[r])
  /\ UNCHANGED <<route, stage, job, queue, signed, crashes>>

\* Mutants of ResponseTimeout: answered like a request timeout; the timer covers
\* the sending of the response only.
TimeoutAs408(r) == Cancel(r, "408") \/ CancelRacesJob(r, "408")

TimeoutOfStream(r) == pc[r] = "streaming" /\ Cancel(r, "503")

ResponseTimeout(r) == Cancel(r, "503") \/ CancelRacesJob(r, "503")
Disconnect(r) == Cancel(r, "lost") \/ CancelRacesJob(r, "lost")

-----------------------------------------------------------------------------
(* The executor.                                                           *)

Running == {r \in Requests : job[r] = "running"}

\* Mutant of TakeJob: a cancelled entry is not skipped.
TakeLiveJob(r) ==
  /\ queue # <<>> /\ r = Head(queue)
  /\ Cardinality(Running) < Workers
  /\ job[r] # "cancelled"
  /\ queue' = Tail(queue)
  /\ job' = [job EXCEPT ![r] = "running"]
  /\ UNCHANGED <<route, pc, stage, disk, reply, signed, crashes>>

\* A free worker takes the first entry of the queue; if its future has been
\* cancelled meanwhile, the entry is dropped.
TakeJob(r) ==
  /\ queue # <<>> /\ r = Head(queue)
  /\ Cardinality(Running) < Workers
  /\ queue' = Tail(queue)
  /\ job' = [job EXCEPT ![r] = IF @ = "cancelled" THEN "none" ELSE "running"]
  /\ UNCHANGED <<route, pc, stage, disk, reply, signed, crashes>>

\* The sign method fetches its keys (see KeyFiles).
FetchKeys(r) ==
  /\ job[r] = "running" /\ stage[r] = "sign"
  /\ "keys" \notin disk[r]
  /\ disk' = [disk EXCEPT ![r] = @ \cup {"keys"}]
  /\ UNCHANGED <<route, pc, stage, job, queue, reply, signed, crashes>>

\* tar -C workdir -x of the i.MX key tarball.
UnpackKeys(r) ==
  /\ job[r] = "running" /\ stage[r] = "sign"
  /\ Has(r, "keysInWorkdir")
  /\ {"workdir", "keys"} \subseteq disk[r] /\ "unpacked" \notin disk[r]
  /\ disk' = [disk EXCEPT ![r] = @ \cup {"unpacked"}]
  /\ UNCHANGED <<route, pc, stage, job, queue, reply, signed, crashes>>

\* os.makedirs below a working directory that has been removed brings it back.
RemakeWorkdir(r) ==
  /\ job[r] = "running" /\ stage[r] = "sign"
  /\ Has(r, "remakes")
  /\ "workdir" \notin disk[r]
  /\ disk' = [disk EXCEPT ![r] = @ \cup {"workdir"}]
  /\ UNCHANGED <<route, pc, stage, job, queue, reply, signed, crashes>>

\* It cleans up, in run_command or by itself.
ReleaseKeys(r) ==
  /\ job[r] = "running"
  /\ "keys" \in disk[r]
  /\ disk' = [disk EXCEPT ![r] = @ \ {"keys"}]
  /\ UNCHANGED <<route, pc, stage, job, queue, reply, signed, crashes>>

\* Mutant of EndJob: the sign method returns without cleanup.
EndJobKeepsKeys(r, v) ==
  /\ job[r] = "running"
  /\ job' = [job EXCEPT ![r] = v]
  /\ signed' = IF stage[r] = "sign" /\ v = "true" THEN signed \cup {r} ELSE signed
  /\ UNCHANGED <<route, pc, stage, queue, disk, reply, crashes>>

\* A sign method that returns has removed its keys, one that raises may not
\* have: both sides of SignJob.
EndJob(r, v) ==
  /\ job[r] = "running"
  /\ v \in {"true", "false"} => "keys" \notin disk[r]
  /\ job' = [job EXCEPT ![r] = v]
  /\ signed' = IF stage[r] = "sign" /\ v = "true" THEN signed \cup {r} ELSE signed
  /\ UNCHANGED <<route, pc, stage, queue, disk, reply, crashes>>

\* Mutant of Collect: the exception of an abandoned job keeps its signer alive.
CollectAwaited(r) ==
  /\ pc[r] \in {"orderly", "raised"}
  /\ job[r] = "raised"
  /\ "keys" \in disk[r]
  /\ disk' = [disk EXCEPT ![r] = @ \ {"keys"}]
  /\ UNCHANGED <<route, pc, stage, job, queue, reply, signed, crashes>>

\* The handler and the job are over: nothing refers to the signer any more and
\* the finalizer of its key directory runs.
Collect(r) ==
  /\ pc[r] \in Ended \ {"crashed"}
  /\ job[r] = "raised"
  /\ "keys" \in disk[r]
  /\ disk' = [disk EXCEPT ![r] = @ \ {"keys"}]
  /\ UNCHANGED <<route, pc, stage, job, queue, reply, signed, crashes>>

-----------------------------------------------------------------------------
(* The process is killed and started again: handlers, queue and threads    *)
(* are gone, files stay; nothing looks for them on startup.                *)

\* What a handler that is between two awaits may have made so far.
MadeSoFar(r) ==
  CASE pc[r] = "idle" -> {"workdir"} \cup (IF Has(r, "outfile") THEN {"outfile"} ELSE {})
    [] Resumes(r, "sign", "true") /\ route[r].body = "tarball" -> {"tarball"}
    [] OTHER -> {}

Crash ==
  /\ crashes < MaxCrashes
  /\ crashes' = crashes + 1
  /\ \E busy \in {{}} \cup {{r} : r \in Requests} :
     \E made \in SUBSET UNION {MadeSoFar(r) : r \in busy} :
       LET open == {r \in Requests : \/ pc[r] \in {"waiting", "streaming"}
                                     \/ pc[r] = "idle" /\ r \in busy}
       IN  /\ pc' = [r \in Requests |->
                       IF r \in open \/ pc[r] = "answered" \/ "keys" \in disk[r]
                       THEN "crashed" ELSE pc[r]]
           /\ reply' = [r \in Requests |->
                          IF r \notin open THEN reply[r]
                          ELSE IF pc[r] = "streaming" THEN "cut" ELSE "lost"]
           /\ disk' = [r \in Requests |-> IF r \in busy THEN disk[r] \cup made ELSE disk[r]]
  /\ job' = [r \in Requests |-> "none"]
  /\ queue' = <<>>
  /\ UNCHANGED <<route, stage, signed>>

Handle(r) ==
  \/ Extracted(r) \/ BadManifest(r) \/ ManifestRaises(r)
  \/ JobFailed(r) \/ JobRaised(r)
  \/ AnswerText(r) \/ StartStream(r) \/ RepackFails(r) \/ RepackRaises(r)
  \/ EndStream(r) \/ LeaveBlock(r)

Finish(r) == \E v \in {"true", "false", "raised"} : EndJob(r, v)

Next ==
  \/ \E r \in Requests :
       \/ Refuse(r) \/ StartRaises(r) \/ DecodeRaises(r) \/ Accept(r)
       \/ Handle(r) \/ ResponseTimeout(r) \/ Disconnect(r)
       \/ TakeJob(r) \/ FetchKeys(r) \/ UnpackKeys(r) \/ RemakeWorkdir(r)
       \/ ReleaseKeys(r) \/ Finish(r) \/ Collect(r)
  \/ Crash

Spec == Init /\ [][Next]_vars

\* The event loop and the worker threads keep going, the response timer is
\* always running while a handler is.  No fairness for a job to end (its tool
\* may hang), for clients to call or to leave, for crashes.
FairSpec ==
  /\ Spec
  /\ \A r \in Requests :
       /\ WF_vars(Handle(r))
       /\ WF_vars(ResponseTimeout(r))
       /\ WF_vars(TakeJob(r))
       /\ WF_vars(Collect(r))

\* Every tool terminates, as the signers assume.
ToolsTerminate == \A r \in Requests : WF_vars(Finish(r))

-----------------------------------------------------------------------------
(* Properties.                                                             *)

\* What a request may have in the temporary directory while its handler is under
\* way, and what it may leave there, by how the handler ended: the
\* orderly one only the outfile its route never unlinks; after an exception
\* the files that are unlinked outside a "finally"; after a cancellation
\* also the working directory; after a crash anything.
Leftovers(r) ==
  LET files == {t \in {"outfile", "tarball"} :
                  t = "outfile" => Has(r, "outfile")}
  IN  CASE pc[r] = "idle"      -> {}
        [] pc[r] = "waiting"   -> (files \ {"tarball"}) \cup Workdir
        [] pc[r] \in {"streaming", "answered"} -> files \cup Workdir
        [] pc[r] = "orderly"   -> IF Has(r, "unlinks") THEN {} ELSE files \ {"tarball"}
        [] pc[r] = "raised"    -> files
        [] pc[r] = "cancelled" -> files \cup Workdir
        [] pc[r] = "crashed"   -> Things

\* Every file a request leaves behind is accounted for, in every order of
\* handler, job, timeout, disconnection and crash.
LeftoversAccounted ==
  \A r \in Requests : disk[r] \ {"keys"} \subseteq Leftovers(r)

\* A key directory on disk belongs to a sign job that is running, or to one
\* whose exception is about to be disposed of, or the process was killed.
KeysHaveAnOwner ==
  \A r \in Requests : "keys" \in disk[r] =>
    \/ stage[r] = "sign" /\ job[r] \in {"running", "raised"}
    \/ pc[r] = "crashed"

\* The executor's queue holds exactly the jobs that have not been taken, one
\* entry each: no request has two jobs, and no job is lost.
QueueIsPendingJobs ==
  /\ \A r \in Requests :
       job[r] \in {"queued", "cancelled"} <=> \E i \in 1..Len(queue) : queue[i] = r
  /\ \A i, j \in 1..Len(queue) : queue[i] = queue[j] => i = j
  /\ \A r \in Requests : job[r] = "queued" => pc[r] = "waiting"

\* The handler and its job agree on who is waiting for whom, and on what has
\* been signed and answered: no handler waits for a job that nobody has, and
\* one that has returned normally leaves no job behind.
HandlerAndJob ==
  \A r \in Requests :
    /\ pc[r] = "idle" => job[r] = "none"
    /\ pc[r] = "waiting" => stage[r] # "none" /\ job[r] \notin {"none", "cancelled"}
    /\ pc[r] = "orderly" => job[r] \in {"none", "true", "false"}
    /\ pc[r] = "raised" => job[r] \in {"none", "true", "raised"}
    /\ pc[r] \in {"streaming", "answered", "crashed"} => job[r] \in {"none", "true"}
    /\ stage[r] = "sign" /\ job[r] = "true" => r \in signed
    /\ pc[r] = "streaming" \/ reply[r] \in {"200", "cut"} => r \in signed
    /\ reply[r] = "none" <=> pc[r] \in {"idle", "waiting", "streaming"}
    /\ pc[r] = "answered" => reply[r] = "200"
    /\ reply[r] = "200" => pc[r] \in {"answered", "orderly", "crashed"}
    /\ reply[r] = "400" => pc[r] = "orderly"

\* The inductive invariant of the proofs.
IInv ==
  /\ TypeOK
  /\ LeftoversAccounted
  /\ KeysHaveAnOwner
  /\ QueueIsPendingJobs
  /\ HandlerAndJob

\* The promise of the README, never to retain keys, as far as it is kept to a
\* client that gets what it asked for or is told what was wrong with it: from
\* the answer on none of its key files are on disk.  Unpacked keys outlast the
\* answer only for i.MX, and there only until the handler leaves its "with"
\* block, unless the process dies before that.
SecretsGoWithTheAnswer ==
  \A r \in Requests : reply[r] \in {"200", "400"} =>
    /\ "keys" \notin disk[r]
    /\ "unpacked" \in disk[r] =>
         /\ Has(r, "keysInWorkdir")
         /\ reply[r] = "200" /\ pc[r] \in {"answered", "crashed"}

\* No job is started for a request that has been answered or abandoned: only
\* jobs that were running when their handler was cancelled go on.
NoJobStartsAfterTheEnd ==
  [][\A r \in Requests :
       pc[r] \in Ended /\ job'[r] = "running" => job[r] = "running"]_vars

\* One answer per request, 200 only after the artifact was signed.
Service == INSTANCE SigningService WITH
  answer <- [r \in Requests |->
               IF pc[r] = "streaming" \/ reply[r] \in {"200", "cut"} THEN "200"
               ELSE IF reply[r] = "none" THEN "none" ELSE "other"],
  signed <- signed

AnswersHonestly == Service!Spec

\* The sign job of each request keeps to the interface it has in Signing.
Job(r) == INSTANCE SignJob WITH
  state <- IF stage[r] = "sign" /\ job[r] \in {"running", "true", "false", "raised"}
           THEN job[r] ELSE "none",
  keys <- IF "keys" \in disk[r] THEN "held" ELSE "none"

JobsAreSigning ==
  /\ \A r \in Requests : Job(r)!Init
  /\ [][\A r \in Requests : [Job(r)!Next]_(Job(r)!jobVars)]_vars

\* Every request is answered, even if every worker is held by a tool that
\* hangs.
EveryRequestEnds == \A r \in Requests : pc[r] = "waiting" ~> pc[r] \in Ended

\* If tools terminate, the executor gets through its queue.
QueueDrains == ToolsTerminate =>
  \A r \in Requests :
    job[r] \in {"queued", "cancelled"} ~> job[r] \notin {"queued", "cancelled"}

\* If tools terminate, no key directory stays on disk unless the process is
\* killed.
KeysGoAway == ToolsTerminate =>
  \A r \in Requests :
    "keys" \in disk[r] ~> "keys" \notin disk[r] \/ pc[r] = "crashed"

\* The server never retains private keys (README.md) once the handler and
\* the job of a request are over.
NoUnpackedKeysRetained ==
  \A r \in Requests :
    pc[r] \in Ended /\ job[r] # "running" => "unpacked" \notin disk[r]
=============================================================================
