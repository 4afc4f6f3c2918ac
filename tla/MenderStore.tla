---------------------------- MODULE MenderStore -----------------------------
(***************************************************************************)
(* Requests to /sign/mender for one artifact URI: class MenderSigner       *)
(* (digsigserver/signers/mendersign.py), its handler (server.py) and the   *)
(* transfers of utils.py.  The artifact is not uploaded with the request:  *)
(* each job fetches it, signs its copy and writes it back, and nothing     *)
(* keeps two jobs apart.  A handler may be cancelled by the response       *)
(* timeout or by its client; the job goes on as long as it finds its       *)
(* files, while the client retries, as the README advises.                 *)
(*                                                                         *)
(* The executor is not limited here: any number of jobs run (see Server).  *)
(***************************************************************************)
EXTENDS Naturals, FiniteSets

CONSTANTS
  Requests,      \* request slots; one is used again when its job is over
  Scheme,        \* of the artifact's URI: "file" or "s3"
  DiskMayFail,   \* a local copy may break half-way
  MaxVersions,   \* bound on the artifacts put there
  MaxCrashes     \* bound on process deaths

ASSUME MenderAssumption ==
  /\ Scheme \in {"file", "s3"}
  /\ DiskMayFail \in BOOLEAN
  /\ MaxVersions \in Nat \ {0}
  /\ MaxCrashes \in Nat

VARIABLES
  store,      \* what is under the URI
  latest,     \* the last artifact put there by the client
  client,     \* what each request's client sees: "idle", "waiting", an answer
  job,        \* where the request's job is
  intact,     \* its working directory is there, with what the job needs next
  copy,       \* the job's copy of the artifact
  mixed,      \* jobs whose transfer overlaps the writing of another one
  promised,   \* some request for the latest artifact was answered with 200
  crashes

vars == <<store, latest, client, job, intact, copy, mixed, promised, crashes>>

Content(v, form) == [version |-> v, form |-> form]
Unsigned(v) == Content(v, "unsigned")
Signed(v)   == Content(v, "signed")
Torn        == Content(0, "torn")   \* a part of one artifact, or parts of several

Contents ==
  {Torn} \cup [version: 1..MaxVersions, form: {"unsigned", "signed"}]

Answers == {"200", "failure"}   \* failure: 400, 500, 503, or no answer at all
Transfers == {"fetching", "writing"}
Running == Transfers \cup {"signing", "signed"}
Over == {"none", "true", "failed"}

TypeOK ==
  /\ store \in Contents
  /\ latest \in 1..MaxVersions
  /\ client \in [Requests -> {"idle", "waiting"} \cup Answers]
  /\ job \in [Requests -> {"queued"} \cup Running \cup Over]
  /\ intact \in [Requests -> BOOLEAN]
  /\ copy \in [Requests -> Contents]
  /\ mixed \subseteq {r \in Requests : job[r] \in Transfers}
  /\ \A r \in Requests : client[r] = "idle" => job[r] \in Over
  /\ promised \in BOOLEAN
  /\ crashes \in 0..MaxCrashes

Init ==
  /\ store = Unsigned(1)
  /\ latest = 1
  /\ client = [r \in Requests |-> "idle"]
  /\ job = [r \in Requests |-> "none"]
  /\ intact = [r \in Requests |-> FALSE]
  /\ copy = [r \in Requests |-> Torn]
  /\ mixed = {}
  /\ promised = FALSE
  /\ crashes = 0

-----------------------------------------------------------------------------
(* The client.  It repeats a request that was not answered with 200.       *)

Retry(r) ==
  /\ client[r] \in Answers
  /\ job[r] \in Over
  /\ client' = [client EXCEPT ![r] = "idle"]
  /\ UNCHANGED <<store, latest, job, intact, copy, mixed, promised, crashes>>

\* It puts its next artifact under the same URI once all its requests have been
\* answered.  It cannot know whether the jobs of cancelled ones are over.
Put ==
  /\ latest < MaxVersions
  /\ \A r \in Requests : client[r] # "waiting"
  /\ latest' = latest + 1
  /\ store' = Unsigned(latest + 1)
  /\ mixed' = {r \in Requests : job[r] \in Transfers}
  /\ promised' = FALSE
  /\ UNCHANGED <<client, job, intact, copy, crashes>>

-----------------------------------------------------------------------------
(* The handler.                                                            *)

\* A parameter is missing (400); the artifact or the keys cannot be listed,
\* or there is no mender-artifact command (RuntimeError, hence 500).
TurnDown(r) ==
  /\ client[r] = "idle"
  /\ client' = [client EXCEPT ![r] = "failure"]
  /\ UNCHANGED <<store, latest, job, intact, copy, mixed, promised, crashes>>

Accept(r) ==
  /\ client[r] = "idle"
  /\ client' = [client EXCEPT ![r] = "waiting"]
  /\ job' = [job EXCEPT ![r] = "queued"]
  /\ intact' = [intact EXCEPT ![r] = TRUE]
  /\ UNCHANGED <<store, latest, copy, mixed, promised, crashes>>

\* Mutant of Answer: the handler does not look at the result.
AnswerSuccess(r) ==
  /\ client[r] = "waiting"
  /\ job[r] \in {"true", "failed"}
  /\ client' = [client EXCEPT ![r] = "200"]
  /\ promised' = TRUE
  /\ intact' = [intact EXCEPT ![r] = FALSE]
  /\ UNCHANGED <<store, latest, job, copy, mixed, crashes>>

\* The "with" block is left and the working directory removed.
Answer(r) ==
  /\ client[r] = "waiting"
  /\ job[r] \in {"true", "failed"}
  /\ client' = [client EXCEPT ![r] = IF job[r] = "true" THEN "200" ELSE "failure"]
  /\ promised' = (promised \/ job[r] = "true")
  /\ intact' = [intact EXCEPT ![r] = FALSE]
  /\ UNCHANGED <<store, latest, job, copy, mixed, crashes>>

\* The timeout or a disconnection cancels the handler: the working directory
\* is removed; a job that has not started is cancelled.
Cancel(r) ==
  /\ client[r] = "waiting"
  /\ client' = [client EXCEPT ![r] = "failure"]
  /\ job' = [job EXCEPT ![r] = IF @ = "queued" THEN "none" ELSE @]
  /\ intact' = [intact EXCEPT ![r] = FALSE]
  /\ UNCHANGED <<store, latest, copy, mixed, promised, crashes>>

\* The job or its tool creates a file while rmtree is at work; the directory
\* stays with that file in it, which is the one the job needs next.
CancelRacesJob(r) ==
  /\ client[r] = "waiting"
  /\ job[r] \in {"fetching", "signing"}
  /\ client' = [client EXCEPT ![r] = "failure"]
  /\ UNCHANGED <<store, latest, job, intact, copy, mixed, promised, crashes>>

-----------------------------------------------------------------------------
(* The job, MenderSigner.sign.                                             *)

\* The copy of a job that is over is of no interest any more.
JobEnds(r, outcome) ==
  /\ job' = [job EXCEPT ![r] = outcome]
  /\ copy' = [copy EXCEPT ![r] = Torn]

\* keys.get, then uri_fetch begins to read.
BeginFetch(r) ==
  /\ job[r] = "queued"
  /\ job' = [job EXCEPT ![r] = "fetching"]
  /\ copy' = [copy EXCEPT ![r] = store]
  /\ UNCHANGED <<store, latest, client, intact, mixed, promised, crashes>>

\* What was read is what was there, unless it was written to meanwhile.
EndFetch(r) ==
  /\ job[r] = "fetching"
  /\ intact[r]
  /\ job' = [job EXCEPT ![r] = "signing"]
  /\ \E c \in IF r \in mixed THEN {copy[r], store, Torn} ELSE {copy[r]} :
       copy' = [copy EXCEPT ![r] = c]
  /\ mixed' = mixed \ {r}
  /\ UNCHANGED <<store, latest, client, intact, promised, crashes>>

\* The key or the artifact cannot be read, or the copy cannot be written.
FetchFails(r) ==
  /\ job[r] = "fetching"
  /\ JobEnds(r, "failed")
  /\ mixed' = mixed \ {r}
  /\ UNCHANGED <<store, latest, client, intact, promised, crashes>>

\* Mutants of SignCopy: the tool is given what the fetch left, whatever it is;
\* its exit status is ignored and its input uploaded.
SignAnything(r) ==
  /\ job[r] = "signing"
  /\ intact[r]
  /\ job' = [job EXCEPT ![r] = "signed"]
  /\ copy' = [copy EXCEPT ![r] = Content(@.version, IF @ = Torn THEN "torn" ELSE "signed")]
  /\ UNCHANGED <<store, latest, client, intact, mixed, promised, crashes>>

SignNothing(r) ==
  /\ job[r] = "signing"
  /\ intact[r]
  /\ job' = [job EXCEPT ![r] = "signed"]
  /\ UNCHANGED <<store, latest, client, intact, copy, mixed, promised, crashes>>

\* mender-artifact reads the whole artifact and checks its checksums, so it
\* does not sign a torn one.  It may or may not sign a signed one again.
SignCopy(r) ==
  /\ job[r] = "signing"
  /\ intact[r]
  /\ copy[r] # Torn
  /\ job' = [job EXCEPT ![r] = "signed"]
  /\ copy' = [copy EXCEPT ![r] = Signed(@.version)]
  /\ UNCHANGED <<store, latest, client, intact, mixed, promised, crashes>>

SignFails(r) ==
  /\ job[r] = "signing"
  /\ JobEnds(r, "failed")
  /\ UNCHANGED <<store, latest, client, intact, mixed, promised, crashes>>

-----------------------------------------------------------------------------
(* upload_file.  copyfile opens the signed copy, truncates the artifact    *)
(* and writes in place.  aws replaces the object at the end, all at once.  *)

\* The store changes under the transfers of the other jobs.
Disturb(r) == {q \in Requests \ {r} : job[q] \in Transfers}

BeginUpload(r) ==
  /\ job[r] = "signed"
  /\ intact[r]
  /\ job' = [job EXCEPT ![r] = "writing"]
  /\ IF Scheme = "file"
     THEN /\ store' = Torn
          /\ mixed' = mixed \cup Disturb(r) \cup
                        (IF \E q \in Requests : job[q] = "writing" THEN {r} ELSE {})
     ELSE UNCHANGED <<store, mixed>>
  /\ UNCHANGED <<latest, client, intact, copy, promised, crashes>>

\* The signed copy went with the working directory.
NothingToUpload(r) ==
  /\ job[r] = "signed"
  /\ ~intact[r]
  /\ JobEnds(r, "failed")
  /\ UNCHANGED <<store, latest, client, intact, mixed, promised, crashes>>

\* Two local copies that overlapped may leave either, or a mixture.
EndUpload(r) ==
  /\ job[r] = "writing"
  /\ JobEnds(r, "true")
  /\ store' \in IF Scheme = "file" /\ r \in mixed
                THEN {copy[r], store, Torn} ELSE {copy[r]}
  /\ mixed' = (mixed \cup Disturb(r)) \ {r}
  /\ UNCHANGED <<latest, client, intact, promised, crashes>>

\* Mutant of UploadFails: a failed upload of an object leaves a part of it.
UploadFailsHalfway(r) ==
  /\ job[r] = "writing"
  /\ JobEnds(r, "failed")
  /\ store' = Torn
  /\ mixed' = (mixed \cup Disturb(r)) \ {r}
  /\ UNCHANGED <<latest, client, intact, promised, crashes>>

\* A local copy breaks half-way; aws fails before or after the object has
\* been replaced.
UploadFails(r) ==
  /\ job[r] = "writing"
  /\ Scheme = "file" => DiskMayFail
  /\ JobEnds(r, "failed")
  /\ store' \in {store, IF Scheme = "file" THEN Torn ELSE copy[r]}
  /\ mixed' = (mixed \cup IF Scheme = "s3" /\ store' = store THEN {} ELSE Disturb(r)) \ {r}
  /\ UNCHANGED <<latest, client, intact, promised, crashes>>

-----------------------------------------------------------------------------
\* The process is killed.  Its threads are gone; an aws command it started is
\* a process of its own and may go on.
Crash ==
  /\ crashes < MaxCrashes
  /\ crashes' = crashes + 1
  /\ \E alive \in SUBSET {r \in Requests : Scheme = "s3" /\ job[r] = "writing"} :
       /\ job' = [r \in Requests |-> IF r \in alive THEN "writing" ELSE "none"]
       /\ copy' = [r \in Requests |-> IF r \in alive THEN copy[r] ELSE Torn]
       /\ mixed' = mixed \cap alive
  /\ client' = [r \in Requests |-> IF client[r] = "waiting" THEN "failure" ELSE client[r]]
  /\ UNCHANGED <<store, latest, intact, promised>>

Next ==
  \/ \E r \in Requests :
       \/ Retry(r) \/ TurnDown(r) \/ Accept(r) \/ Answer(r)
       \/ Cancel(r) \/ CancelRacesJob(r)
       \/ BeginFetch(r) \/ EndFetch(r) \/ FetchFails(r)
       \/ SignCopy(r) \/ SignFails(r)
       \/ BeginUpload(r) \/ NothingToUpload(r) \/ EndUpload(r) \/ UploadFails(r)
  \/ Put \/ Crash

Spec == Init /\ [][Next]_vars

\* A job that has lost its directory, or fetched a torn artifact, ends without a
\* result.
MustFail(r) ==
  /\ ~intact[r] \/ copy[r] = Torn
  /\ FetchFails(r) \/ SignFails(r) \/ NothingToUpload(r)

\* In this slot the client repeats its request until one succeeds; tools and
\* transfers terminate, and succeed if they are tried again and again.  Other
\* jobs may hang.
RetriesSucceed(r) ==
  /\ WF_vars(Answer(r)) /\ WF_vars(MustFail(r))
  /\ WF_vars(~promised /\ Retry(r))
  /\ SF_vars(Accept(r)) /\ SF_vars(BeginFetch(r)) /\ SF_vars(EndFetch(r))
  /\ SF_vars(SignCopy(r)) /\ SF_vars(BeginUpload(r)) /\ SF_vars(EndUpload(r))

-----------------------------------------------------------------------------
(* Properties.                                                             *)

\* A job that has fetched what is not the latest artifact, and may yet write it
\* back.
Late(r) == job[r] \in Running /\ copy[r].version \notin {0, latest}

\* No such job is left, nor has one written.
Settled == store.version = latest /\ \A r \in Requests : ~Late(r)

\* A client that was told its artifact is signed finds it so, and goes on
\* finding it so until it puts another one there, unless a job is late.  Other
\* requests, retries, the abandoned jobs of this artifact, a crash and what
\* outlives it make no difference.
PromiseStands ==
  /\ [](promised /\ Settled => store = Signed(latest))
  /\ [][promised /\ Settled => Settled' \/ latest' > latest]_vars

\* The signed copy of what was put there is under the URI after a 200
\* (doc/mendersign.md), whatever jobs are late.
PromiseKept == promised => store = Signed(latest)

\* With s3 the URI behaves like ArtifactStore.
Uri == INSTANCE ArtifactStore WITH
  artifact <- IF store.version = latest THEN store.form ELSE "another",
  promised <- promised,
  late <- \E r \in Requests : Late(r)

KeepsArtifact == Uri!Spec

\* A signed artifact is never found unsigned again: no job writes back what it
\* fetched.
NeverUnsignedAgain ==
  [][store.form # "unsigned" /\ store'.form = "unsigned" => latest' > latest]_vars

\* When nobody writes, a whole artifact is there.
RestsWhole ==
  (\A r \in Requests : job[r] # "writing") => store # Torn

\* A client that retries gets what is under the URI signed in the end
\* (the last artifact put there, if no job is late: KeepsArtifact).  This is
\* about the URI: each request may be cut off by its timeout, so that no 200
\* ever says so.
RetriesGetThere == <>[](store.form = "signed")

\* What a job is going to write is signed.
JobsSign ==
  \A r \in Requests : job[r] \in {"signed", "writing"} => copy[r].form = "signed"

\* A handler that is going to answer 200 finds a signed artifact there.
ResultsSigned ==
  \A r \in Requests : client[r] = "waiting" /\ job[r] = "true" => store.form = "signed"

\* The inductive invariant of the proofs, with s3.
IInv ==
  /\ TypeOK
  /\ store # Torn
  /\ JobsSign
  /\ ResultsSigned
  /\ promised => store.form = "signed"
=============================================================================
