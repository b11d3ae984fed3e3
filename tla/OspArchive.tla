------------------------------ MODULE OspArchive ------------------------------
(***************************************************************************)
(* The .osp package format: what the store reads out of an archive         *)
(* (app-store/src/osp.rs), how content is signed and verified              *)
(* (app-store/src/signing.rs), and how osctl rewrites a package to sign it *)
(* (osctl/src/main.rs).                                                    *)
(*                                                                         *)
(* An archive is the sequence of its file entries, and a flag saying       *)
(* whether the gzip and tar streams are whole.  A path is the sequence of  *)
(* its components, a file's content a short sequence of opaque blocks.  A  *)
(* value that may be missing is a set of at most one element.              *)
(***************************************************************************)
EXTENDS Naturals, Sequences, SequencesExt

Entry(path, data) == [path |-> path, data |-> data]

Archive(entries) == [whole |-> TRUE, entries |-> entries]

\* What a write that was cut short leaves on disk.
Truncated(osp) == [osp EXCEPT !.whole = FALSE]

The(option) == CHOOSE x \in option : TRUE

-------------------------------------------------------------------------------

(***************************************************************************)
(* OspPackage::from_bytes matches entries by the last component of their   *)
(* path, and of several entries with one name the last is kept.            *)
(***************************************************************************)
Named(osp, name) ==
  {i \in DOMAIN osp.entries : Last(osp.entries[i].path) = name}

Content(osp, name) ==
  {osp.entries[i].data :
     i \in {j \in Named(osp, name) : \A k \in Named(osp, name) : k <= j}}

Parses(osp) ==
  /\ osp.whole
  /\ Named(osp, "app.wasm") # {}
  /\ Named(osp, "manifest.json") # {}

Wasm(osp) == The(Content(osp, "app.wasm"))
ManifestJson(osp) == The(Content(osp, "manifest.json"))
Signature(osp) == Content(osp, "signature.sig")

\* prompt.txt and icon.svg default to no bytes.
OrEmpty(content) == IF content = {} THEN <<>> ELSE The(content)

-------------------------------------------------------------------------------

(***************************************************************************)
(* Ed25519 over SHA-256 of the two contents, one after the other: a        *)
(* signature names its key and the bytes digested.  A key pair is one name.*)
(***************************************************************************)
SignContent(key, wasm, manifest) == <<key>> \o wasm \o manifest

VerifySignature(key, sig, wasm, manifest) ==
  sig = SignContent(key, wasm, manifest)

\* osctl's add_signature_to_osp: five entries, written at the archive's root.
AddSignature(osp, sig) ==
  Archive(<< Entry(<<"app.wasm">>, Wasm(osp)),
             Entry(<<"manifest.json">>, ManifestJson(osp)),
             Entry(<<"prompt.txt">>, OrEmpty(Content(osp, "prompt.txt"))),
             Entry(<<"icon.svg">>, OrEmpty(Content(osp, "icon.svg"))),
             Entry(<<"signature.sig">>, sig) >>)
===============================================================================
