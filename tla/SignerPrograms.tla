--------------------------- MODULE SignerPrograms ---------------------------
(***************************************************************************)
(* What each signer's sign method does with keys and tools, as a program:  *)
(* the ordered steps of the Python method, with everything else abstracted.*)
(*                                                                         *)
(*   get k       keys.get(k); FileNotFoundError propagates                 *)
(*   opt k       keys.get(k) inside try/except FileNotFoundError           *)
(*   load        ensure_keys_loaded()                                      *)
(*   run         run_command (or the in-process key parsing of optee):     *)
(*               the result is assigned; keys are the files it is given    *)
(*   each        run_command in a loop that goes on after a failure and    *)
(*               only remembers it                                         *)
(*   work        Python code that succeeds or raises                       *)
(*   transfer    the same, waiting for another subprocess: uri_fetch and   *)
(*               upload_file of an artifact, mkimage -l                    *)
(*   clean       keys.cleanup()                                            *)
(*   raise       an exception on every path                                *)
(*                                                                         *)
(* A step with when = "ok" is reached only while the result is True; one   *)
(* with when = "always" is reached on both branches.  A loop over files or *)
(* BUP specifications is unrolled n times.                                 *)
(***************************************************************************)
EXTENDS Naturals, Sequences

StepOf(op, keys, cleanup, when) ==
  [op |-> op, keys |-> keys, cleanup |-> cleanup, when |-> when]

Get(k)    == StepOf("get", {k}, FALSE, "ok")
Opt(k)    == StepOf("opt", {k}, FALSE, "ok")
Load      == StepOf("load", {}, FALSE, "ok")
Work      == StepOf("work", {}, FALSE, "ok")
WorkAlways == StepOf("work", {}, FALSE, "always")
Transfer  == StepOf("transfer", {}, FALSE, "ok")
CleanAlways == StepOf("clean", {}, FALSE, "always")
Raise     == StepOf("raise", {}, FALSE, "ok")

\* run_command(cmd) and run_command(cmd, cleanup=False).
Run(keys)     == StepOf("run", keys, TRUE, "ok")
RunKeep(keys) == StepOf("run", keys, FALSE, "ok")
\* Mutant of EachKeep: the loop assigns the result instead of recording failures.
AssignInLoop(keys) == StepOf("run", keys, FALSE, "always")

\* if not run_command(cmd, cleanup=False): result = False.
EachKeep(keys) == StepOf("each", keys, FALSE, "always")

\* loads: the constructor creates the KeyFiles object; rejects: the kinds of
\* exception it raises before that ("Value" is a ValueError, answered 400);
\* handler: what is done around the method, in its route: "lists", the
\* constructor looks for an artifact with aws s3 ls; "extracts", a tarball is
\* unpacked between constructor and method; "checks", the request may still be
\* turned down there; "repacks", the answer is a tarball.
Program(signer, loads, rejects, handler, steps) ==
  [signer |-> signer, loads |-> loads, rejects |-> rejects, handler |-> handler,
   steps |-> steps]

Tarball == {"extracts", "repacks"}

Repeat(n, steps) == [i \in 1..(n * Len(steps)) |-> steps[((i - 1) % Len(steps)) + 1]]

-----------------------------------------------------------------------------
(* Jetson bootloader files.  _prepare_cmd fetches the keys; the SBK and    *)
(* user keys are optional, and not looked for on tegra210.                 *)

\* Mutant of TegraCmd: the test of the chip is inverted.
TegraCmdInverted(t210) ==
  IF t210 THEN <<Get("rsa_priv.pem"), Work, Opt("sbk.txt"), Opt("user_key.txt"), Work>>
          ELSE <<Get("rsa_priv.pem"), Work>>

TegraCmd(t210) ==
  IF t210 THEN <<Get("rsa_priv.pem"), Work>>
          ELSE <<Get("rsa_priv.pem"), Work, Opt("sbk.txt"), Opt("user_key.txt"), Work>>

TegraKeys(t210) ==
  IF t210 THEN {"rsa_priv.pem"} ELSE {"rsa_priv.pem", "sbk.txt", "user_key.txt"}

TegraSign(t210) ==
  Program("tegra-sign", TRUE, {"Value"}, Tarball \cup {"checks"},
          <<Work>> \o TegraCmd(t210) \o <<Run(TegraKeys(t210)), Work>>)

TegraSignfiles ==
  Program("tegra-signfiles", TRUE, {"Value"}, Tarball \cup {"checks"},
          <<Get("rsa_priv.pem"), Work, Run({"rsa_priv.pem"}), Work>>)

\* n is the number of BUP specifications.
TegraMultisign(t210, n) ==
  Program("tegra-multisign", TRUE, {"Value"}, Tarball \cup {"checks"},
          <<Work>> \o TegraCmd(t210)
                  \o Repeat(n, <<Work, RunKeep(TegraKeys(t210))>>)
                  \o <<CleanAlways, Work>>)

-----------------------------------------------------------------------------
(* Rockchip: rk_sign_tool remembers the keys it was given by "lk", so the  *)
(* later invocations still need the files.                                 *)

RkPair == {"dev.key", "dev.pubkey"}

RkFit ==
  Program("rk-fit", TRUE, {"Value", "Other"}, Tarball \cup {"checks"},
          <<Get("dev.key"), Get("dev.crt"), Run({"dev.key", "dev.crt"}), CleanAlways>>)

\* Mutant of RkLoader: "cc" runs with the default cleanup, before dev.pubkey is fetched.
RkLoaderCleansEarly(burn) ==
  Program("rk-loader", TRUE, {"Value", "Other"}, {"checks"},
          <<Get("dev.key"), Get("dev.crt"), Work, Run({}), Get("dev.pubkey"),
            RunKeep({"dev.pubkey"}), Run({"dev.pubkey"}), Work, CleanAlways>>)

RkLoader(burn) ==
  Program("rk-loader", TRUE, {"Value", "Other"}, {"checks"},
          <<Get("dev.key"), Get("dev.crt"), Get("dev.pubkey"), Work,
            RunKeep({}), RunKeep(RkPair)>>
          \o (IF burn THEN <<RunKeep(RkPair)>> ELSE <<>>)
          \o <<Run(RkPair), Work, CleanAlways>>)

RkTee ==
  Program("rk-tee", TRUE, {"Value", "Other"}, {},
          <<Get("optee-signing-pubkey.pem"), Run({"optee-signing-pubkey.pem"}), Work>>)

\* A failure leaves the loop over the files of one directory only; n
\* directories with one .ta file each.
RkTas(n) ==
  Program("rk-tas", TRUE, {"Value", "Other"}, Tarball,
          <<Get("optee-signing-key.pem")>>
          \o Repeat(n, <<EachKeep({"optee-signing-key.pem"})>>)
          \o <<CleanAlways>>)

-----------------------------------------------------------------------------
(* UEFI images, capsules and EKB images.                                   *)

UefiKeys == {"db.key", "db.crt"}

UefiSign ==
  Program("uefi-sign", TRUE, {"Value"}, {"checks"},
          <<Get("db.key"), Get("db.crt"), Run(UefiKeys)>>)

\* attach_signature copies the input to the output before it looks at the
\* result, pads it with truncate, then appends the signature.
UefiAttach ==
  Program("uefi-attach", TRUE, {"Value"}, {"checks"},
          <<Get("db.key"), Get("db.crt"), Run(UefiKeys), WorkAlways, Run({}), Work>>)

CapsuleKeys ==
  {"signer_private_cert.pem", "other_public_cert.pem", "trusted_public_cert.pem"}

Capsule ==
  Program("capsule", TRUE, {"Value", "Other"}, {},
          <<Get("signer_private_cert.pem"), Get("other_public_cert.pem"),
            Get("trusted_public_cert.pem"), Run(CapsuleKeys)>>)

\* The fixed vector must be there whatever the BSP version, but is handed to
\* the tool (withFv) only before release 36.
Ekb(withFv) ==
  Program("ekb", TRUE, {"Value"}, {},
          <<Get("oem_k1.key"), Get("fixed-vector"),
            Get("uefi-variable-authentication.key"),
            Opt("kernel-encryption.key"), Opt("disk-encryption.key"),
            Run({"oem_k1.key", "uefi-variable-authentication.key",
                 "kernel-encryption.key", "disk-encryption.key"}
                \cup (IF withFv THEN {"fixed-vector"} ELSE {}))>>)

-----------------------------------------------------------------------------
(* OP-TEE trusted applications (signed in process: "run" is the parsing of *)
(* the key) and kernel modules, n files each.                              *)

Optee(n) ==
  Program("optee", TRUE, {}, Tarball,
          <<Get("optee-signing-key.pem"), RunKeep({"optee-signing-key.pem"})>>
          \o Repeat(n, <<Work>>) \o <<CleanAlways>>)

KmodKeys == {"kernel-signkey.priv", "kernel-signkey.x509"}

\* Mutant of Kmod: the loop uses run_command's default, cleanup=True.
KmodCleansInLoop(n) ==
  Program("kmod", TRUE, {"Value", "Other"}, Tarball,
          <<Get("kernel-signkey.priv"), Get("kernel-signkey.x509")>>
          \o Repeat(n, <<Run(KmodKeys)>>) \o <<CleanAlways>>)

Kmod(n) ==
  Program("kmod", TRUE, {"Value", "Other"}, Tarball,
          <<Get("kernel-signkey.priv"), Get("kernel-signkey.x509")>>
          \o Repeat(n, <<RunKeep(KmodKeys)>>) \o <<CleanAlways>>)

-----------------------------------------------------------------------------
(* i.MX: the keys come as a tarball that is unpacked into the working      *)
(* directory; cst reads them there.                                        *)

Imx ==
  Program("imx", TRUE, {"Value"}, {},
          <<Get("imx-cst-keys.tar.gz"), Run({"imx-cst-keys.tar.gz"}), Work,
            Run({}), CleanAlways>>)

\* The name of the key ("dev" here) may be asked of mkimage -l, whose failure
\* is ignored.
FitKeys == {"dev.key", "dev.crt"}

\* With a device tree (dtb) two files are returned, as a tarball.
FitHandler(dtb) == IF dtb THEN {"repacks"} ELSE {}

FitImage(dtb) ==
  Program("fitimage", TRUE, {}, FitHandler(dtb),
          <<Transfer, Get("dev.key"), Get("dev.crt"), Run(FitKeys)>>)

\* With PKCS#11 the key stays in the HSM and no KeyFiles object is made.
FitImageHsm(dtb) ==
  Program("fitimage-hsm", FALSE, {}, FitHandler(dtb), <<Transfer, Work, Run({})>>)

-----------------------------------------------------------------------------
(* swupdate descriptions and Mender artifacts.                             *)

SwuRsa ==
  Program("swu-rsa", TRUE, {"Other"}, {},
          <<Load, Get("rsa-private.key"), Run({"rsa-private.key"})>>)

SwuCms ==
  Program("swu-cms", TRUE, {"Other"}, {},
          <<Load, Get("cms.cert"), Get("cms-private.key"),
            Run({"cms.cert", "cms-private.key"})>>)

SwuRsaHsm == Program("swu-rsa-hsm", FALSE, {"Other"}, {}, <<Work, Run({})>>)

\* The certificate is still a key file: the KeyFiles object is created late,
\* in the worker thread.
SwuCmsHsm ==
  Program("swu-cms-hsm", FALSE, {"Other"}, {},
          <<Work, Load, Get("cms.cert"), Run({"cms.cert"})>>)

\* Unknown method or backend.
SwuUnknown(pkcs11) == Program("swu-unknown", ~pkcs11, {"Other"}, {}, <<Raise>>)

Mender ==
  Program("mender", TRUE, {"Other"}, {"lists"},
          <<Get("private.key"), Transfer, Run({"private.key"}), Transfer>>)

-----------------------------------------------------------------------------
\* Every program with loops of at most maxFiles iterations.
AllPrograms(maxFiles) ==
  {TegraSign(t) : t \in BOOLEAN}
  \cup {TegraMultisign(t, n) : t \in BOOLEAN, n \in 0..maxFiles}
  \cup {RkLoader(b) : b \in BOOLEAN}
  \cup {RkTas(n) : n \in 0..maxFiles}
  \cup {Ekb(f) : f \in BOOLEAN}
  \cup {Optee(n) : n \in 0..maxFiles}
  \cup {Kmod(n) : n \in 0..maxFiles}
  \cup {SwuUnknown(b) : b \in BOOLEAN}
  \cup {FitImage(d) : d \in BOOLEAN} \cup {FitImageHsm(d) : d \in BOOLEAN}
  \cup {TegraSignfiles, RkFit, RkTee, UefiSign, UefiAttach, Capsule, Imx, SwuRsa,
        SwuCms, SwuRsaHsm, SwuCmsHsm, Mender}
=============================================================================
