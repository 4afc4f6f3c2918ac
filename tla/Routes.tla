------------------------------- MODULE Routes -------------------------------
(***************************************************************************)
(* The handlers of attach_endpoints (digsigserver/server.py), reduced to   *)
(* what they do with the disk and the executor:                            *)
(*                                                                         *)
(*   unpacks    the upload is extracted by a first job                     *)
(*   manifest   a MANIFEST is parsed between the two jobs                  *)
(*   outfile    a NamedTemporaryFile(delete=False) is made before the job  *)
(*   decodes    text is decoded after that, which may raise                *)
(*   unlinks    the handler unlinks outfile after the "with" block         *)
(*   keysInWorkdir  the signer unpacks private keys into the workdir       *)
(*   remakes    the signer calls os.makedirs on paths in the workdir       *)
(*                                                                         *)
(* body says what a successful answer is: "tarball" of the workdir, a      *)
(* "file", or "text".                                                      *)
(***************************************************************************)

Traits ==
  {"unpacks", "manifest", "outfile", "decodes", "unlinks", "keysInWorkdir", "remakes"}

Route(name, traits, body) == [name |-> name, traits |-> traits, body |-> body]

Tegra    == Route("tegra", {"unpacks", "manifest", "remakes"}, "tarball")
RkFit    == Route("rk-fit", {"unpacks"}, "tarball")
RkLoader == Route("rk-loader", {"outfile"}, "file")
Imx      == Route("imx", {"outfile", "keysInWorkdir"}, "file")
FitImage(dtb) ==
  Route("fitimage", {"outfile"}, IF dtb THEN "tarball" ELSE "file")
Modules  == Route("modules", {"unpacks"}, "tarball")
Uefi     == Route("uefi", {"outfile", "unlinks"}, "file")
Capsule  == Route("ueficapsule", {"outfile", "unlinks"}, "file")
Optee    == Route("optee", {"unpacks"}, "tarball")
RkTee    == Route("rkoptee-tee", {"outfile", "unlinks"}, "file")
RkTa     == Route("rkoptee-ta", {"unpacks"}, "tarball")
Swupdate == Route("swupdate", {"outfile", "decodes", "unlinks"}, "file")
Mender   == Route("mender", {}, "text")
Ekb      == Route("ekb", {"outfile", "unlinks"}, "file")

AllRoutes ==
  {Tegra, RkFit, RkLoader, Imx, FitImage(TRUE), FitImage(FALSE), Modules, Uefi, Capsule,
   Optee, RkTee, RkTa, Swupdate, Mender, Ekb}
=============================================================================
