------------------------------ MODULE MCAppStore ------------------------------
(***************************************************************************)
(* A store for TLC: two ids, and three requests: an upload of an unsigned  *)
(* app, one of a signed app that may fail any of the handler's checks, and *)
(* one that reads.                                                         *)
(***************************************************************************)
EXTENDS AppStore

CONSTANTS r1, r2, r3

MCManifestName == (<<"manifest-notes">> :> "notes") @@ (<<"manifest-clock">> :> "clock")

MCMatching == ("" :> {"notes", "clock"}) @@ ("notes" :> {"notes"})

wasm == Entry(<<"app.wasm">>, <<"wasm-1">>)
notes == Entry(<<"manifest.json">>, <<"manifest-notes">>)
clockApp == Entry(<<"manifest.json">>, <<"manifest-clock">>)
notJson == Entry(<<"manifest.json">>, <<"not-json">>)
signedNotes ==
  Entry(<<"signature.sig">>, SignContent("key-a", <<"wasm-1">>, <<"manifest-notes">>))

Upload(apiKey, entries, key) ==
  [apiKey |-> apiKey, osp |-> {Archive(entries)}, publicKey |-> key]

Plain == Upload("secret", <<wasm, clockApp>>, "")
Signed == Upload("secret", <<wasm, notes, signedNotes>>, "key-a")

\* No API key, no osp field, no app.wasm, a manifest that is not JSON, a key
\* and no signature, another key's signature.
Rejected ==
  { Upload("", <<wasm, notes>>, ""),
    [apiKey |-> "secret", osp |-> {}, publicKey |-> ""],
    Upload("secret", <<notes>>, ""),
    Upload("secret", <<wasm, notJson>>, ""),
    Upload("secret", <<wasm, notes>>, "key-a"),
    Upload("secret", <<wasm, notes, signedNotes>>, "key-b") }

MCUploads == {Plain, Signed} \cup Rejected

MCAsks ==
  (r1 :> [op : {"upload"}, body : {Plain}])
    @@ (r2 :> [op : {"upload"}, body : {Signed} \cup Rejected])
    @@ (r3 :> [op : {"get", "download"}, id : Ids \cup BadIds]
                \cup [op : {"search"}, query : DOMAIN Matching])
===============================================================================
