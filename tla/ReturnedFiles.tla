--------------------------- MODULE ReturnedFiles ---------------------------
(***************************************************************************)
(* A product, upgraded now and then, and the working directory of each of  *)
(* its requests that are answered with a tarball of it: what the client    *)
(* sent, the scripts the signer puts beside it, what the tool makes, and   *)
(* what is left when the directory is packed.                              *)
(* Sources: digsigserver/signers/tegrasign.py, signers/rksign.py,          *)
(* digsigserver/server.py.                                                 *)
(***************************************************************************)
EXTENDS BspVersions, Sequences

VARIABLES
  method,    \* the sign method the handler has chosen, or "idle"
  todo,      \* its steps still to come
  sent,      \* names the client sent
  listed,    \* what os.listdir said
  made,      \* names the tool has written
  dir,       \* names in the working directory
  reply

vars == <<soc, bsp, method, todo, sent, listed, made, dir, reply>>
request == <<soc, bsp, method, sent>>

\* A name is a sequence, so that f + ".sig" is Sig(f).
Sig(f) == Append(f, "sig")

Image == <<"image">>
Manifest == <<"MANIFEST">>
Payload == <<"payloads">>
FitIts == <<"fit.its">>
FitOutputs == {<<"fitImage">>, <<"uboot.dtb">>}

\* Among what clients send are names that the scripts and the results have too.
Uploads(m) ==
  IF m = "rk-fit" THEN SUBSET (FitOutputs \cup {FitIts})
  ELSE {u \cup {Manifest} :
          u \in SUBSET {Image, Sig(Image), Payload, <<"tegraflash.py">>, <<"_tools">>}}

-----------------------------------------------------------------------------
\* Mutants of Steps: sign lists before the scripts are there, or after the
\* tool has run.
StepsListingEarly(m) ==
  CASE m \in {"sign", "bupgen", "signfiles"} -> <<"list", "prepare", "run", "remove">>
    [] m = "multisign" -> <<"prepare", "run", "run", "remove">>
    [] OTHER -> <<"run">>

StepsListingLate(m) ==
  CASE m \in {"sign", "bupgen"} -> <<"prepare", "run", "list", "remove">>
    [] m = "signfiles" -> <<"list", "prepare", "run", "remove">>
    [] m = "multisign" -> <<"prepare", "run", "run", "remove">>
    [] OTHER -> <<"run">>

\* The order of things in the methods; "bupgen" is sign with BUPGEN set.
\* multisign here has two BUPGENSPECS.
Steps(m) ==
  CASE m \in {"sign", "bupgen"} -> <<"prepare", "list", "run", "remove">>
    [] m = "signfiles" -> <<"list", "prepare", "run", "remove">>
    [] m = "multisign" -> <<"prepare", "run", "run", "remove">>
    [] OTHER -> <<"run">>

Init ==
  /\ Product
  /\ method = "idle" /\ todo = <<>>
  /\ sent = {} /\ listed = {} /\ made = {} /\ dir = {}
  /\ reply = "none"

\* The upload has been extracted (extract_files) and the method is called.
Begin(m) ==
  /\ method = "idle" /\ method' = m
  /\ sent' \in Uploads(m)
  /\ dir' = sent'
  /\ todo' = Steps(m)
  /\ UNCHANGED <<soc, bsp, listed, made, reply>>

\* The handler ends and its working directory is removed.
End ==
  /\ reply # "none" /\ reply' = "none"
  /\ method' = "idle" /\ todo' = <<>>
  /\ sent' = {} /\ listed' = {} /\ made' = {} /\ dir' = {}
  /\ UNCHANGED <<soc, bsp>>

\* The next BSP of the product is released between two requests.
Release ==
  /\ method = "idle" /\ Upgrade
  /\ UNCHANGED <<method, todo, sent, listed, made, dir, reply>>

\* A tool that fails ends the method.
Does(step) ==
  reply = "none" /\ todo # <<>> /\ Head(todo) = step /\ todo' = Tail(todo)

\* _prepare_scripts: the tools directory, and symlinks to some of it.
ScriptEntries ==
  {<<"_tools">>} \cup {<<l>> : l \in Links(soc, bsp) \ {"rollback_parser.py"}}
  \cup (IF soc = "tegra210" THEN {} ELSE {<<"rollback">>})

Prepare ==
  /\ Does("prepare")
  /\ dir' = dir \cup ScriptEntries
  /\ UNCHANGED <<request, listed, made, reply>>

List ==
  /\ Does("list")
  /\ listed' = dir
  /\ UNCHANGED <<request, made, dir, reply>>

\* What a successful tool may write.  The Tegra helper leaves signed images,
\* payloads, and things nobody wants, in any combination.
Leavings == {<<"signed">>, <<"flash.xml">>, <<"kernel", "encrypt", "signed">>}

Outputs ==
  CASE method = "signfiles" -> {{Sig(f) : f \in listed}}
    [] method = "rk-fit" ->
         IF dir \cap {FitIts, <<"fitImage">>} = {} THEN {}
         ELSE {{<<"fitImage">>} \cup (dir \cap FitOutputs)}
    [] OTHER -> SUBSET ({<<"image", "signed">>, Payload} \cup Leavings)

Run ==
  /\ Does("run")
  /\ \E out \in Outputs : dir' = dir \cup out /\ made' = made \cup out
  /\ UNCHANGED <<request, listed, reply>>

ToolFails ==
  /\ Does("run")
  /\ reply' = "500"
  /\ UNCHANGED <<request, listed, made, dir>>

\* What sign removes beside what it has listed: subdirectories, housekeeping,
\* and the signed encrypted kernel where the bootloader does not boot it.
Housekeeping ==
  {<<"signed">>}
  \cup (IF soc = "tegra210" THEN {} ELSE {<<"flash.xml">>})
  \cup (IF soc = "tegra210" \/ EncryptedKernel(soc, bsp) THEN {}
        ELSE {<<"kernel", "encrypt", "signed">>})

Unwanted ==
  CASE method = "sign" -> listed \cup Housekeeping
    [] method = "signfiles" -> dir \ {Sig(f) : f \in listed}
    [] OTHER -> dir \ {Payload}

Remove ==
  /\ Does("remove")
  /\ dir' = dir \ Unwanted
  /\ UNCHANGED <<request, listed, made, reply>>

\* return_tarball packs the whole directory; in the rk handler too, where the
\* list of files to return is passed as the name of the download.
Return ==
  /\ method # "idle" /\ todo = <<>> /\ reply = "none"
  /\ reply' = "200"
  /\ UNCHANGED <<request, todo, listed, made, dir>>

Next ==
  \/ \E m \in {"sign", "bupgen", "signfiles", "multisign", "rk-fit"} : Begin(m)
  \/ Prepare \/ List \/ Run \/ ToolFails \/ Remove \/ Return
  \/ End \/ Release

Spec == Init /\ [][Next]_vars

-----------------------------------------------------------------------------
(* Properties.                                                             *)

\* "the minimal set of artifacts possible" (tegrasign.py): sign returns what
\* the tool has written, under no name that was sent or that a script has, not
\* the subdirectory of the signing program, and its flash.xml for tegra210
\* only, where the code keeps it; signfiles returns signatures the tool has
\* written, of files that were sent and of no script; a BUP run returns the
\* payloads only, the tool's or some that the client had sent: the methods go
\* by the name and keep those.  Which encrypted kernels stay is not said here.
OnlyResultsReturned ==
  reply = "200" =>
    CASE method = "sign" ->
           /\ dir \subseteq made
           /\ dir \cap (sent \cup ScriptEntries \cup {<<"signed">>}) = {}
           /\ <<"flash.xml">> \in dir => soc = "tegra210"
      [] method = "signfiles" -> dir \subseteq made \cap {Sig(f) : f \in sent}
      [] method \in {"bupgen", "multisign"} -> dir \subseteq {Payload} \cap (made \cup sent)
      [] OTHER -> TRUE

\* No result gets lost with the rest, unless the client had sent a file of
\* its name: the payloads of every run, each file's signature, each image.
NoResultLost ==
  reply = "200" =>
    CASE method = "sign" -> (made \ Housekeeping) \ sent \subseteq dir
      [] method = "signfiles" -> {Sig(f) : f \in sent} \subseteq dir
      [] OTHER -> made \cap ({Payload} \cup FitOutputs) \subseteq dir

\* doc/rksign.md: the output is a tarball of fitImage and uboot.dtb.
FitOutputsOnly == method = "rk-fit" /\ reply = "200" => dir \subseteq FitOutputs
=============================================================================
