# A TLA+ model of digsigserver

digsigserver signs artifacts over HTTP: a client uploads one, the server fetches the
private keys of the client's machine or distribution, runs the vendor's signing tool on
the artifact, and sends the result back. What can go wrong is mostly about *when*: when
private keys are on disk, when a failure of one tool is noticed, what happens to a tool
that is still running when its client has been answered.

## The system

| Component | State it keeps | Operations | Made correct by |
|---|---|---|---|
| `KeyFiles` (`keyfiles.py`) | a temporary directory with copies of key files | `__init__`, `get`, `cleanup`, the directory's finalizer | a path handed out leads to a complete file; one directory at most; it goes |
| URI access (`utils.py`) | none; the store is a directory or an S3 bucket | `uri_exists`, `uri_fetch`, `upload_file` | a failure is never taken for an absence |
| `Signer` (`signers/signer.py`) | `keys`, `workdir` | `ensure_keys_loaded`, `run_command` | keys are removed on every return |
| 12 signers (`signers/*.py`) | files in the working directory | 14 sign methods | keys are there when a tool needs them; True means every tool succeeded |
| HTTP handlers (`server.py`) | locals, working directory, `outfile`, tarball | 13 routes, exception handler | one answer per request, 200 only for something signed; files accounted for |
| Executor, event loop, timeouts (asyncio, Sanic) | work queue, threads, response timers | submit, take, finish, cancel | no request waits for ever; no job is lost or started late |
| Artifact store of Mender (`mendersign.py`, `utils.py`) | the object or file under the client's URI | fetch, sign, upload, by any number of jobs | a client with a 200 finds its artifact signed, unless a job is late; it is never lost |
| Log redaction (`logredaction.py`) | one filter on four loggers, its list of secrets | `filter`, `install_log_redaction_filter` | no configured password in a record, letter by letter |
| Command line (`scripts/digsigserver.py`) | none | `main` | |

Interaction. A handler (a coroutine) checks the request, creates a working directory and
the signer, whose constructor creates the `KeyFiles` object, and hands the extraction of
the upload and the sign method to the event loop's default thread pool, one job after the
other. It awaits each job, so handlers interleave with each other and with the jobs. It then
streams a file or a tarball, and after the end of the answer leaves the `with` block, which
removes the working directory. The response timeout (600 s by default; README.md:44-46 of the repository says
five minutes) and the end of the client's connection cancel the handler at its await. They
do not stop a running job: it goes on in a directory that has been removed under it.

Hard behaviour, line by line, is listed under "hazards" in `PROJECT.json`.

## Modules

```
SignerPrograms     (KeyCustody)  (SignJob)
      |                 ^         ^     ^
      v                 |         |     |
   KeyFiles -> Signing -+---------+   Server -> (SigningService)
                  |                     ^  ^
          SignerDiscipline          Routes  EventLoop -> (Server)

   MenderStore -> (ArtifactStore)   BspVersions -> ReturnedFiles   TrustedApps   PinAndLogs
```

The names in parentheses are abstract specifications that the module on the left is shown to
implement.

* **KeyFiles** models `class KeyFiles` and the URI access below it. `scheme` is that of the
  key URI and `store` what exists under it; `tmpdir`, `held`, `whole` are the temporary
  directory, the names in it, and those that are complete copies (a copy that breaks
  leaves a torn file). `GetKey`, `KeyNotFound` and `GetBreaks` are the three ways `get`
  ends. With `s3` a listing or a copy may fail at any time, as an `aws` command may.
* **SignerPrograms** is a table: each sign method as the list of its steps, in the order
  of the Python code (fetch a key, fetch an optional one, run a tool with or without
  cleanup, other work, explicit cleanup), each step marked with whether it is reached after
  a failure. A loop over n files is its body n times (`Repeat`). `handler` has what its route
  does around the method: list an artifact in the constructor, unpack, check, pack.
* **Signing** interprets such a list against `KeyFiles`: one operation from the constructor
  through the handler's preparations (`HandOver`, or `TurnDown` and `PrepareRaises`) and the
  method to the answer and the garbage collection of the signer. Its parameter is the set of programs,
  so its theorems are about every method that meets the discipline below.
* **SignerDiscipline** states that discipline, conditions on the text of a method (keys before
  tools, no tool with keys after a cleanup, a cleanup that is on every path, no result
  overwritten after a failure), and the inductive invariant `IInv`, which contains it. TLC
  starts from every method of the table, so that `IInv` holds in the run says that all of
  them are disciplined, with up to 3 files; `SignerTableProofs` proves it for any number. A new
  signer is added to `SignerPrograms`, and to the proof of its discipline.
* **KeyCustody** is what an operation promises about keys: brought to disk at most once, and
  gone before a verdict, unless the verdict is an exception.
* **SignJob** is the job as the server sees it: it may fetch keys while it runs, has none when
  it returns, and loses them after an exception. `Signing` implements it (`IsSignJob`), and the
  jobs of `Server` do no more than it allows (`JobsAreSigning`): this is how the two
  are composed.
* **Routes** is a table of the handlers, reduced to what they do with disk and executor.
* **Server** composes handlers, executor, disk, timeout, disconnection and crash for a set
  of requests. A handler that has sent all of its answer (`EndStream`) has yet to unlink the
  tarball and to remove the working directory (`LeaveBlock`); the process may die in between.
* **SigningService** is what the server promises its clients: one answer per request, 200
  only for something that has been signed.
* **EventLoop** refines `Server`: `aws s3 ls` in the constructors and `tar` in `return_tarball`
  run on the event loop, with `loop` the handler that waits for one of them. Meanwhile
  no handler goes on and no timer fires, while the threads do. It implements `Server`, with its
  fairness if the two subprocesses end.
* **MenderStore** is about one artifact URI: clients that put artifacts there, request, give up
  and retry; handlers; and jobs that fetch, sign and upload in steps which interleave, also with
  those of jobs that the timeout has left running, and of an `aws` process that outlives the
  server. A local copy is written in place, an S3 object replaced at once. The client puts its
  next artifact there when its requests have been answered; it cannot know whether the job
  of a cancelled one is still at work. Such a job is `Late`.
* **ArtifactStore** is what the owner of such a URI may expect, late jobs included.
* **BspVersions** has what depends on the BSP's version: scripts to copy, links to make, the
  version word of a UEFI capsule.
* **ReturnedFiles** takes a product through requests and upgrades of its BSP: the names in
  the working directory of each request, from upload to tarball, by the steps of the three
  Tegra methods and of the Rockchip FIT image.
* **TrustedApps** walks a tree of OP-TEE applications in any order, with the versions
  clients send, and signs them in place.
* **PinAndLogs** has the calls of `create_app`, the tools that are given the HSM's password, and
  the filters on the loggers.
* **...Proofs** hold the theorems; **MC...** give model values. `PinAndLogs` has its values
  in the configuration.

Definitions marked "Mutant of" are not part of the specifications: each is a plausible
mistake in the definition it precedes, used to see that a property notices it.

### State and code

| Model | Code |
|---|---|
| `Signing`: `loaded`, `tmpdir`, `held` | `Signer.keys is not None`, `KeyFiles.tmpdir`, files in it |
| `Signing`: `status` = new / ready / running | before the constructor / in the handler, with a signer / in the worker thread |
| `Signing`: `pc`, `result` | place in the sign method, value it is going to return |
| `Signing`: `got` | variables that hold a path returned by `get` |
| `Server`: `pc[r]` = waiting / streaming | the handler at `await run_in_executor` / in `return_file` |
| `Server`: `pc[r]` = answered | after `response.eof()`, before the `with` block is left |
| `Server`: `stage`, `job`, `queue` | the future of the job, the thread pool's work queue |
| `Server`: `disk[r]` | what the request has below the server's temporary directory |
| `Server`: `pc[r]` = orderly / raised / cancelled / crashed | the handler returned / an exception reached Sanic / `CancelledError` / the process died |
| `EventLoop`: `loop` | the handler inside `subprocess.run` of `uri_exists` or `repack_files` |
| `MenderStore`: `job[r]`, `copy[r]`, `intact[r]` | place in `MenderSigner.sign`, content of its local copy, its working directory |
| `ReturnedFiles`: `dir`, `listed` | names in the working directory, result of `os.listdir` |
| `TrustedApps`: `ta_version`, `header` | the variable of the loop, the version in each signed header |
| `PinAndLogs`: `filters`, `secrets` | `Logger.filters`, `SecretRedactionFilter._secrets` |

`toolFailed`, `dirs`, `signed`, `mixed`, `promised`, `made`, `line` and `crashes` are history
variables.

## Runs

| Run | Configuration | Question | Bounds |
|---|---|---|---|
| signing | `MCSigning` | Are keys there when used, used when there, gone on return, and is the result true? Is each operation answered and rid of its keys, unless a subprocess hangs? Are the methods disciplined? | every method and variant of the table, loops up to 3 files, both schemes, every subset of a method's keys in the store |
| server_safety | `MCServer` | Do queue, jobs, handlers and answers agree, are there key files after a 200 or 400, and how long unpacked ones, and what stays on disk after every end of a request? | 2 requests, every pair of routes, 1 worker, 1 crash |
| event_loop | `MCEventLoop` | Is a server whose loop is blocked now and then still `Server`, does every request end, do queue and keys drain? | 2 requests, 4 routes, keys in s3, 1 worker, 1 crash |
| mender | `MCMender` | Does an s3 URI keep what was put there, is it signed when the client was told so and no job is late, do retries get it signed? | 2 requests used again and again, one crash or one new artifact |
| product | `MCReturnedFiles` | Are results returned, all of them and, with the exceptions below, nothing else? Does an upgrade keep scripts, links and the order of versions? | 4 SoCs, 8 releases, every subset of 5 uploaded names and of the tool's outputs |
| trusted_apps | `MCTrustedApps` | Does each application get its own version, and a 200 mean all are signed? | 3 applications in any order, every version text (none, no number, -1, in range, too large) |
| pin_and_logs | `MCPinAndLogs` | Does one filter with the latest secret guard all loggers, and what gets past it? | 3 passwords, one that `repr` escapes, 4 calls of `create_app` |
| optional_key, unpacked_keys, torn_artifact, stale_write_back, fit_outputs | `Finding...` | statements of the documentation the code does not keep | one operation; 2 requests |

Why the bounds are enough. An operation interacts with no other (its directory is its own),
so one operation at a time shows everything about `Signing`; a loop needs two
iterations for a failure before a success and for a tool after a cleanup. In the server,
requests share only the worker and the queue: two requests and one worker make one wait
for the other, one be cancelled in the queue, and one run beside an abandoned job. The
theorems of `ServerProofs` and `EventLoopProofs` do not depend on these numbers. The four
routes of event_loop are those that list keys always, may pass without (swupdate with
PKCS#11), unpack them, and answer with a text; between them they return a tarball, a
file and a text. One crash is one restart; after it the requests of before have ended. For one
artifact the second request is the retry beside an abandoned job, and a request slot
that is over is used again, so the number of requests is not bounded; the crash and the new
artifact each give all later steps another start, and the theorems of `MenderProofs`
have any number of both. The releases lie on both sides of every comparison of versions
in the code, 32.255.255 next to 34.1.0 being where a byte overflows. Three applications have a
predecessor with and without a version file.

`CHECK_DEADLOCK FALSE`: an operation that has been answered and a server whose
requests have all ended have nothing left to do, and so for the other modules except
`ReturnedFiles`, where the next request may always come.

### Fairness

`Signing`'s `FairSpec`: weak fairness of the steps the interpreter and the event loop take by
themselves (`Internal`). None for steps that wait for a subprocess (`AtSubprocess`): tools; `aws`,
for keys, for artifacts and for the listing in Mender's constructor whatever the scheme of
the keys; the `tar` that unpacks the upload and the one that packs the answer. All are run
without a timeout. Hence `AnsweredAndKeysGone` has the disjunct "stuck at a subprocess for
ever".
The finalizer of a directory is fair: once the handler is over nothing refers to the signer.

`Server`'s `FairSpec`: handlers that can go on do, the response timer fires if the handler
is still there, free workers take entries, finalizers run. A job need not end
(`EveryRequestEnds` holds all the same); `QueueDrains` and `KeysGoAway` have the premise
`ToolsTerminate`. No request is assumed to come and no client to go.

Whether the loop provides that is `KeepsServing`: `EventLoop`'s `LiveLoopSpec` has fairness of the
loop's own callbacks, each taken when the loop is free, and `SubprocessesEnd`: `aws s3 ls` and
`tar` come to an end. The premise is needed: they are run on the loop without a timeout, and
while one hangs the response timer does not run either.

`MenderStore`'s `RetriesSucceed` is about one slot, whose client repeats its request until it is
told 200: answers, and the end of a job that has lost its directory, are weakly fair; starting,
fetching, signing and uploading are strongly fair, since each may fail any number of times but
not for ever. Jobs of the other slot may hang. `RetriesGetThere` speaks of the object:
a timeout may cut off every request, so that no client is ever told.

### What the violated properties show

* `KeyInStoreIsUsed` under `s3`: a failed copy of an optional key is treated as its absence,
  and the artifact is signed (Tegra: without SBK or user key) and answered with 200. With `file`
  the property holds and is a theorem.
* `NoUnpackedKeysRetained`: the i.MX job is not stopped by the timeout; if it creates a file
  while the working directory is being removed, the removal fails and the unpacked keys stay.
  That takes a route that unpacks keys, and a cancelled handler or a crash (`UnpackedKeysAreImx`).
* `RestsWhole` under `file`: two requests for one artifact, or a retry and the job its first
  request left running, copy over the same file in place, and what rests there may be parts of
  both, although no disk fails.
* `PromiseKept`: the upload of an abandoned job may end after the client, all of whose requests
  have been answered, has put the next artifact there and had it signed with a 200; the URI
  then has the previous one. What remains is `PromiseStands`: from the moment no job
  is late a 200 is kept (`PromisesStand`, with s3).
* `FitOutputsOnly`: the list of files to return is passed as `return_filename`, so the tarball has
  the whole working directory, `fit.its` included.

### Other divergences met while modelling

No run is spent on these; each is plain once the line has been read.

* `signer.py:42`: `run_command` cleans up after success and after a non-zero exit, not after
  another exception (tool not installed, undecodable output). The client has its 500
  while the key files the tool was given are on disk, although the server "never retains them
  after a signing operation is complete" (README.md:29-31); they go when the signer is
  collected (`AnsweredAndKeysGone`). An exception is the only way: after a 200 or a 400
  there are no key files (`AnswersCanBeTrusted`, `NoSecretsAfterAnAnswer`).
* `keyfiles.py:30`: a hanging `aws s3 ls` stops the event loop, with it the response timeout of
  every request (README.md:44-46 speaks of a timeout of five minutes). In the model: without
  `SubprocessesEnd` neither `KeepsServing` nor `EveryRequestEnds` holds.
* `signer.py:36` logs a command as the `repr` of its list: a password with a backslash, or with
  both kinds of quotes, is escaped there, and `logredaction.py:16` does not find it. What the
  filter does hide is `LogsHideThePassword`.
* `tegrasign.py:229` wants "the minimal set of artifacts possible"; `payloads` a client has sent
  are kept by name (lines 243, 280) and come back with those the tool makes, or in
  their place, and for tegra210 `flash.xml` is not among the files to remove (lines 169-173).
  `OnlyResultsReturned` names both.
* `opteesign.py:85` looks for `.stripped.elf`; `doc/opteesign.md:30` has `.stripped-elf`. Such an
  image is passed over (`PassOver`) and the request answered with 200.
* `fitimagesign.py:96` puts the password into `keyname`, line 97 passes `selected_keyname`, which
  was computed before: mkimage gets the placeholder (`Passed` in `PinAndLogs`).

## Theorems

Every theorem holds for all values of the constants that satisfy the modules' ASSUMEs:
`ProgramsAssumption` (steps are well typed), `ServerAssumption` (finitely many requests, a
worker, routes that decode late have an outfile), `LoopAssumption`, `MenderAssumption`,
`PartsFit` (parts of a version are bytes), `LimitAssumption`, `PinAssumption`. Those of
`SigningProofs` have the premise `DisciplinedTable`, which `SignerTableProofs` discharges.

* **SigningProofs.** The properties by themselves are not inductive: that keys are gone on
  return needs to know, in the middle of the method, which cleanups have been passed.
  `IInv`'s conjunct `AtStep` says so for every point of a method: no torn copies, every
  path got before the first cleanup is alive, the result is True before the first tool,
  a *certain* cleanup in the past means no directory, and none is opened after one.
  `StepIInv` proves it step by step, `AdvanceStep` for the steps that move on.
  From `IInv`: `TypeCorrect`, `ToolsFindTheirKeys`, `ReturnedKeysAreGone`, `ResultIsTheTruth`.
  `Implements` is the refinement of `KeyCustody`: the discipline excludes a second directory.
  `ProvidesJob` is that of `SignJob`. `KeysFoundAreUsed` adds `FoundSoFar`: from a directory,
  what was asked for and exists has been got.
* **SignerTableProofs.** `EveryMethod` is the table with loops of any length. `TableIsTyped`: it
  meets `ProgramsAssumption` if the names of the keys are in `KeyNames`. `TableIsDisciplined`:
  a straight method is checked step by step; one with a loop is three pieces, before, in and
  after the loop, and lemmas say when pieces of a method make a disciplined whole.
  `RepositoryIsSafe` draws the conclusion: the properties of the run, `KeepsCustody` and
  `IsSignJob` for the sign methods of the repository (`RepositoryTable`) with no premise about
  their text. `AnswersCanBeTrusted` is what a client may conclude from a status: after a 200 no
  tool has failed, after a 400 nothing was fetched or started, and keys that are still there
  after an answer mean that the method raised.
* **ServerProofs.** The inductive invariant is the conjunction of the run's invariants.
  `QueueIsPendingJobs` needs `HandlerAndJob` (a request submits only when it has no job),
  `KeysHaveAnOwner` and `LeftoversAccounted` need to know that no job runs for a handler that
  ended orderly. `EndedRequestsStartNothing`, `Implements` and `UsesJobs` follow for every step
  from the invariant. `ProvidesJob` and `UsesJobs` together: what is proved of the server's jobs
  is what every sign method does. `NoSecretsAfterAnAnswer` does not follow from the
  invariant alone, since a crash may come between the answer and the end of the handler:
  `KeyFilesGoWithTheAnswer` is kept by every step (`AnsweredStep`), which `KeysHaveAnOwner` and the
  part of `HandlerAndJob` about answers allow; unpacked keys are those of a route that
  unpacks (`UnpackedIsAsked`) and gone with an orderly end (`LeftoversAccounted`).
* **EventLoopProofs.** `LoopImplements` maps every step to one of `Server` or to none, so all
  of `ServerProofs` holds with the blocking subprocesses (`LoopKeepsPromises`). `PackedInPeace` uses that, and that
  the loop holds the handler: a job that has ended, and no timer, can touch the directory
  that is being packed.
* **MenderProofs.** `IInv` adds to the promise what each job holds: `JobsSign` (what is going to be
  written is signed) and `ResultsSigned` (a True not yet answered finds a signed artifact
  there). It needs `s3`, where an object is replaced at once; `SignedForGood` does not. No premise
  is about the client or about abandoned jobs. `PromisesStand` adds `SettledStep`: once no job is
  late, only the client's next artifact can make one late. `Implements` is the refinement of
  `ArtifactStore`, whose `Spoil`, `Spread` and `Pass` are what late jobs may do.
* **ReturnedFilesProofs**. Versions are ordered like their words (`WordOrder`,
  where `PartsFit` is needed), links are copied, scripts stay. `InStep` says what the
  working directory holds at each point of the methods; what is returned (`ResultsOnly`, with
  the exceptions above by name) and what is not lost (`ResultsStay`) follow at their end.
* **TrustedAppsProofs**, **PinAndLogsProofs**: for any applications, passwords (those that `repr`
  escapes among them: `PasswordHidden` excepts their commands) and number of apps.

Only model-checked: the liveness properties (`AnsweredAndKeysGone`, `KeepsServing`,
`EveryRequestEnds`, `QueueDrains`, `KeysGoAway`, `RetriesGetThere`), which are out of the
prover's reach. What remains true of the properties that are violated is proved, as described with
each of them above, except for `FitOutputsOnly`, of which nothing remains.

## Not modelled

* The contents tools write, the bytes of a TA header beyond its version, the text of archives,
  `MANIFEST` and logs (of a line: whether it shows the password). Tracebacks, which the logging
  formatter adds after the filters have seen a record.
* How the FIT image signer finds the name of its key: it changes no state, and the handler
  always passes a name, so the other ways are hardly ever taken. `FitKeys` has one name.
* `KeyFiles.cleanup` ending in another `OSError` than `FileNotFoundError` (`keyfiles.py:50-52`):
  nothing but the operation itself works in its key directory.
* `to_boolean` and the parsing of options: pure tests of strings.
* An operating-system error while an existing file is opened for the response.
* The command line (arguments are handed to Sanic) and the container images.

## Plan

Done: custody of keys, life of requests with and without the event loop's blocking steps, the
shared Mender artifact, the files returned, the tree of trusted applications, log
redaction, and the proofs above. What could still be added, in this order:

1. The uploads of `MenderStore` with more than one artifact URI in one working directory tree,
   and the executor's limit between its jobs (now in `Server` only).
2. The directory-tree side of the Rockchip OP-TEE signer, as `TrustedApps` has it for OP-TEE.
