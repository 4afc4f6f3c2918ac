---------------------------- MODULE BspVersions ----------------------------
(***************************************************************************)
(* What depends on the version of the Tegra BSP: the scripts the Tegra     *)
(* signer copies and links (signers/tegrasign.py), and the version number  *)
(* in a UEFI capsule (signers/ueficapsulesign.py).  The state is a product *)
(* whose BSP is upgraded now and then; ReturnedFiles adds the requests.    *)
(***************************************************************************)
EXTENDS Naturals

CONSTANT Versions   \* the releases of the BSP, by the parts of their bspversion

\* Each part fits into its byte of the capsule's version number.
ASSUME PartsFit == Versions \subseteq [major : 0..255, minor : 0..255, maint : 0..255]

SocTypes == {"tegra186", "tegra194", "tegra210", "tegra234"}

VARIABLES soc, bsp

\* "bspmajor > ma or (bspmajor == ma and bspminor >= mi)"
AtLeast(v, ma, mi) == v.major > ma \/ (v.major = ma /\ v.minor >= mi)

Newer(w, v) ==
  \/ w.major > v.major
  \/ w.major = v.major /\ w.minor > v.minor
  \/ w.major = v.major /\ w.minor = v.minor /\ w.maint > v.maint

-----------------------------------------------------------------------------
\* Mutant of TegrasignV3: the later releases are forgotten.
TegrasignV3R32Only(s, v) == s # "tegra210" /\ v.major = 32 /\ v.minor >= 5

TegrasignV3(s, v) == s # "tegra210" /\ AtLeast(v, 32, 5)

EncryptedKernel(s, v) ==
  CASE s = "tegra210" -> FALSE
    [] s = "tegra186" -> AtLeast(v, 32, 6)
    [] OTHER -> v.major < 34

CommonScripts ==
  {"tegraflash.py", "tegraflash_internal.py", "BUP_generator.py", "odmsign.func",
   "l4t_bup_gen.func", "flash-helper"}

V3Support == {"tegrasign_v3.py", "tegrasign_v3_internal.py", "tegrasign_v3_util.py"}

R35Scripts ==
  {"dtbcheck.py", "tegraflash_impl_t234.py", "t194.py", "t234.py", "ed25519.py",
   "tegrasign_v3_hsm.py", "tegraopenssl", "pyfdt"}

\* Mutant of LaterScripts: 35 is left out.
LaterScriptsAfter35(v) == IF v.major > 35 THEN R35Scripts ELSE {}

LaterScripts(v) == IF v.major >= 35 THEN R35Scripts ELSE {}

\* self.scripts
Scripts(s, v) ==
  CommonScripts \cup LaterScripts(v)
  \cup (IF s # "tegra210" \/ AtLeast(v, 32, 6) THEN {"nvflashxmlparse"} ELSE {})
  \cup (IF s # "tegra210" THEN {"rollback_parser.py"} ELSE {})
  \cup (IF s # "tegra210" /\ v.major = 32 /\ (v.minor > 7 \/ (v.minor = 7 /\ v.maint >= 4))
        THEN {"rewrite-tegraflash-args"} ELSE {})
  \cup (IF TegrasignV3(s, v) THEN {"tegra-signimage-helper", "l4t_sign_image.sh"} ELSE {})
  \cup (IF TegrasignV3(s, v) \/ AtLeast(v, 32, 6) THEN V3Support ELSE {})
  \cup (IF v.major = 35 THEN {"tegrasign_v3_oemkey.yaml"} ELSE {})
  \cup (IF v.major >= 36 THEN {"tegrasign_v3_oemkey_t234.yaml"} ELSE {})

\* The symlinks _prepare_scripts makes in the working directory.
Links(s, v) ==
  {"tegraflash.py", "BUP_generator.py"}
  \cup (IF v.major >= 35 THEN {"dtbcheck.py", "t194.py", "t234.py"} ELSE {})
  \cup (IF s = "tegra210" THEN {"flash-helper", "odmsign.func", "l4t_bup_gen.func"}
        ELSE {"rollback_parser.py"})

\* Mutant of CapsuleWord: the parts are packed four bits apart.
CapsuleWordNarrow(v) == v.major * 256 + v.minor * 16 + v.maint

\* int(verparts[0]) << 16 | int(verparts[1]) << 8 | int(verparts[2]); "|" adds,
\* as PartsFit.
CapsuleWord(v) == v.major * 65536 + v.minor * 256 + v.maint

-----------------------------------------------------------------------------
Product == soc \in SocTypes /\ bsp \in Versions

Upgrade ==
  /\ bsp' \in {v \in Versions : Newer(v, bsp)}
  /\ UNCHANGED soc

\* Every symlink in the working directory leads to a script that is copied,
\* though lists and links are written down in different places.
LinksHaveTargets == Links(soc, bsp) \subseteq Scripts(soc, bsp)

\* A newer BSP has a greater capsule version: the firmware, told the lowest
\* version it may go back to, takes upgrades and nothing else.
UpgradeRaisesWord == [][CapsuleWord(bsp') > CapsuleWord(bsp)]_bsp

\* A script that a signer has been given for one BSP it has for later ones,
\* those apart that belong to one series.
OfOneSeries == {"rewrite-tegraflash-args", "tegrasign_v3_oemkey.yaml"}

UpgradeKeepsScripts ==
  [][Scripts(soc, bsp) \ OfOneSeries \subseteq Scripts(soc', bsp')]_bsp
=============================================================================
