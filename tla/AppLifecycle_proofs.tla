-------------------------- MODULE AppLifecycle_proofs --------------------------
(***************************************************************************)
(* What is under /apps, for any number of terminals, tools, names and ids. *)
(*                                                                         *)
(* The argument is about who may write to /apps/<id>.  An id is drawn by   *)
(* one generator, or by the store, and never by both (IdsApart).  Under a  *)
(* generator's id, one process extracts, once, one build (OwnDirs); under  *)
(* the store's, all extract parts of the package published under it        *)
(* (FromStore).  So a directory's files are of one build at any time, and  *)
(* of the same one later: a terminal that matched a manifest runs the wasm *)
(* that was built with it (MatchesLast).                                   *)
(***************************************************************************)
EXTENDS AppLifecycle, TLAPS

\* The files of a build, as they are unpacked.
Files(i, m, h) ==
  {Entry(<<"app.wasm">>, <<i>>), Entry(<<"manifest.json">>, <<Manifest(i, m, h)>>)}
    \cup IF h THEN {Entry(<<"uidl.json">>, <<i>>)} ELSE {}

\* A value with the fields of an archive.
IsArchive(osp) == {"whole", "entries"} \subseteq DOMAIN osp

\* A package of a build, whole or cut short.
Packed(osp, i, m, h) == IsArchive(osp) /\ Unpacked(osp) = Files(i, m, h)

\* A package made under the name of a stem.
BuiltUnder(names, stem, osp) ==
  \E i \in Ids, m \in Names, h \in BOOLEAN :
    names[i] = {m} /\ Stem[m] = stem /\ Packed(osp, i, m, h)

\* Files of one build made under the name of a stem.
FilesUnder(names, stem, files) ==
  files = {} \/ \E i \in Ids, m \in Names, h \in BOOLEAN :
                  names[i] = {m} /\ Stem[m] = stem /\ files \subseteq Files(i, m, h)

AllOf(files, i) == \A f \in files : Origin(f) = i

\* What unpacks to a build, or, as a package signed by osctl does, to nothing.
OneBuild(osp) ==
  /\ IsArchive(osp)
  /\ \/ Unpacked(osp) = {}
     \/ \E i \in Ids, m \in Names, h \in BOOLEAN : Unpacked(osp) = Files(i, m, h)

\* What a download of an app can have saved: the package, a part, or an error.
FromStore(published, osp) ==
  /\ IsArchive(osp)
  /\ published # {}
  /\ \A app \in published : Unpacked(osp) \subseteq Unpacked(app.osp)

AtMostOne(S) == \A x \in S : S = {x}

Creates(p) == job[p].op = "create"
Fetches(p) == job[p].op \in {"install", "fetch"}
Runs(p) == job[p].op = "run"

-------------------------------------------------------------------------------

\* Functions and records have the fields the actions update, and a process
\* is at a step of its command.
Shapes ==
  /\ DOMAIN catalog = Ids /\ DOMAIN dirs = Ids /\ DOMAIN saved = Ids
  /\ DOMAIN named = Ids /\ DOMAIN packages = Stems
  /\ DOMAIN pc = Processes /\ DOMAIN job = Processes
  /\ \A p \in Processes :
       /\ Creates(p) =>
            /\ {"op", "id", "name", "attempt", "osp"} \subseteq DOMAIN job[p]
            /\ job[p].id \in Ids /\ job[p].name \in Names
       /\ Fetches(p) =>
            {"op", "id", "osp"} \subseteq DOMAIN job[p] /\ job[p].id \in Ids
       /\ Runs(p) =>
            /\ {"op", "id", "manifest", "wasm"} \subseteq DOMAIN job[p]
            /\ job[p].id \in Ids
       /\ pc[p] = "prompt" => job[p].op = "none"
       /\ pc[p] \in {"coding", "compiling", "fixing", "designing", "packing", "writing"} =>
            Creates(p)
       /\ pc[p] \in {"downloading", "saving", "filling"} => Fetches(p)
       /\ pc[p] \in {"unpacking", "extracting"} => Creates(p) \/ Fetches(p)
       /\ pc[p] = "uploading" => job[p].op = "publish"
       /\ pc[p] \in {"matched", "running", "hung"} => Runs(p)

IdsApart ==
  /\ \A id \in Ids :
       /\ named[id] = {} \/ catalog[id] = {}
       /\ named[id] = {} /\ catalog[id] = {} => dirs[id] = {}
       /\ AtMostOne(named[id]) /\ named[id] \subseteq Names
  /\ \A p \in Processes : Creates(p) => named[job[p].id] = {job[p].name}
  /\ \A p, q \in Processes : Creates(p) /\ Creates(q) /\ job[p].id = job[q].id => p = q
  /\ \A p \in Processes : Fetches(p) => catalog[job[p].id] # {}

PackagesAreBuilds ==
  /\ \A s \in Stems : AtMostOne(packages[s]) /\ \A osp \in packages[s] : BuiltUnder(named, s, osp)
  /\ \A p \in Processes : Creates(p) =>
       /\ AtMostOne(job[p].osp)
       /\ \A osp \in job[p].osp : BuiltUnder(named, Stem[job[p].name], osp)
       /\ pc[p] \in {"packing", "writing", "extracting"} => job[p].osp # {}

StoreIsSane ==
  /\ \A id \in Ids : AtMostOne(catalog[id]) /\ \A app \in catalog[id] : OneBuild(app.osp)
  /\ \A id \in Ids : AtMostOne(saved[id]) /\ \A osp \in saved[id] : FromStore(catalog[id], osp)
  /\ \A p \in Processes : job[p].op = "publish" => \A osp \in job[p].osp : OneBuild(osp)
  /\ \A p \in Processes : Fetches(p) =>
       /\ AtMostOne(job[p].osp)
       /\ \A osp \in job[p].osp : FromStore(catalog[job[p].id], osp)
       /\ pc[p] = "saving" => job[p].osp # {}

\* The directory of an app being generated is empty until the one package
\* that was opened for it is extracted.
OwnDirs ==
  \A p \in Processes : Creates(p) =>
    IF pc[p] = "extracting"
    THEN \A osp \in job[p].osp : dirs[job[p].id] \subseteq Unpacked(osp)
    ELSE dirs[job[p].id] = {}

NamedDirs ==
  \A id \in Ids : \A n \in named[id] : FilesUnder(named, Stem[n], dirs[id])

GeneratedStay ==
  \A a \in announced : a.how = "create" =>
    /\ a.id \in Ids /\ named[a.id] # {}
    /\ \A p \in Processes : ~(Creates(p) /\ job[p].id = a.id)
    /\ \A name \in {"app.wasm", "manifest.json"} : Lookup(dirs[a.id], name) # {}

\* Whatever is, or will be, under an id is of build i.
IsOf(id, i) ==
  /\ named[id] # {} \/ catalog[id] # {}
  /\ AllOf(dirs[id], i)
  /\ \A app \in catalog[id] : AllOf(Unpacked(app.osp), i)
  /\ \A q \in Processes : Creates(q) /\ job[q].id = id =>
       /\ pc[q] = "extracting"
       /\ \A osp \in job[q].osp : AllOf(Unpacked(osp), i)

\* A manifest, and the wasm read next to it, of build i.
ManifestOf(manifest, i) ==
  \E m \in Names, h \in BOOLEAN : manifest = <<Manifest(i, m, h)>>

MatchesLast ==
  \A p \in Processes : Runs(p) =>
    \E i \in Ids :
      /\ ManifestOf(job[p].manifest, i)
      /\ IsOf(job[p].id, i)
      /\ pc[p] \in {"running", "hung"} => job[p].wasm = {<<i>>}

IInv ==
  /\ Shapes
  /\ IdsApart
  /\ PackagesAreBuilds
  /\ StoreIsSane
  /\ InstalledAsPublished
  /\ OwnDirs
  /\ NamedDirs
  /\ GeneratedStay
  /\ MatchesLast
-------------------------------------------------------------------------------
\* Archives and their files.

\* A package unpacks to the files of its build.
LEMMA PackageFiles ==
  ASSUME NEW i, NEW m, NEW h \in BOOLEAN
  PROVE  Packed(Package(i, m, h), i, m, h)
  <1> DEFINE a == Entry(<<i, "app.wasm">>, <<i>>)
             b == Entry(<<i, "manifest.json">>, <<Manifest(i, m, h)>>)
             c == Entry(<<i, "uidl.json">>, <<i>>)
             es == Package(i, m, h).entries
  <1>1. es = <<a, b>> \o IF h THEN <<c>> ELSE <<>>
    BY DEF Package, Archive
  <1>2. Range(es) = {a, b} \cup IF h THEN {c} ELSE {}
    <2> HIDE DEF a, b, c, es
    <2>1. CASE h
      <3>1. /\ DOMAIN es = 1..3
            /\ es[1] = a /\ es[2] = b /\ es[3] = c
        BY <1>1, <2>1
      <3> QED BY <2>1, <3>1 DEF Range
    <2>2. CASE ~h
      <3>1. DOMAIN es = 1..2 /\ es[1] = a /\ es[2] = b
        BY <1>1, <2>2
      <3> QED BY <2>2, <3>1 DEF Range
    <2> QED BY <2>1, <2>2
  <1>3. /\ Len(a.path) = 2 /\ Entry(Tail(a.path), a.data) = Entry(<<"app.wasm">>, <<i>>)
        /\ Len(b.path) = 2 /\ Entry(Tail(b.path), b.data)
                                = Entry(<<"manifest.json">>, <<Manifest(i, m, h)>>)
        /\ Len(c.path) = 2 /\ Entry(Tail(c.path), c.data) = Entry(<<"uidl.json">>, <<i>>)
    BY DEF Entry
  <1> HIDE DEF a, b, c, es
  <1>4. Unpacked(Package(i, m, h)) = Files(i, m, h)
    BY <1>2, <1>3 DEF Unpacked, Files, es
  <1> QED BY <1>4 DEF Packed, IsArchive, Package, Archive

\* The half of a package there is so far has the entries of the whole.
LEMMA TruncatedArchives ==
  ASSUME NEW osp, IsArchive(osp)
  PROVE  IsArchive(Truncated(osp)) /\ Unpacked(Truncated(osp)) = Unpacked(osp)
  <1>1. DOMAIN Truncated(osp) = DOMAIN osp /\ Truncated(osp).entries = osp.entries
    BY DEF Truncated, IsArchive
  <1> QED BY <1>1 DEF IsArchive, Unpacked

\* Nothing of an error or of a package osctl signed is extracted.
LEMMA EmptyArchives ==
  /\ IsArchive(ErrorBody) /\ Unpacked(ErrorBody) = {}
  /\ \A osp, sig : /\ IsArchive(AddSignature(osp, sig))
                   /\ Unpacked(AddSignature(osp, sig)) = {}
  <1>1. IsArchive(ErrorBody) /\ ErrorBody.entries = <<>>
    BY DEF ErrorBody, Truncated, Archive, IsArchive
  <1>2. ASSUME NEW osp, NEW sig
        PROVE  /\ IsArchive(AddSignature(osp, sig))
               /\ Unpacked(AddSignature(osp, sig)) = {}
    <2> DEFINE es == AddSignature(osp, sig).entries
    <2>1. DOMAIN es = 1..5 /\ \A j \in 1..5 : Len(es[j].path) = 1
      <3>1. \A path, data : Entry(path, data).path = path
        BY DEF Entry
      <3>2. /\ DOMAIN es = 1..5
            /\ es[1].path = <<"app.wasm">> /\ es[2].path = <<"manifest.json">>
            /\ es[3].path = <<"prompt.txt">> /\ es[4].path = <<"icon.svg">>
            /\ es[5].path = <<"signature.sig">>
        BY <3>1 DEF AddSignature, Archive
      <3> HIDE DEF es
      <3>3. /\ Len(es[1].path) = 1 /\ Len(es[2].path) = 1 /\ Len(es[3].path) = 1
            /\ Len(es[4].path) = 1 /\ Len(es[5].path) = 1
        BY <3>2
      <3>4. \A j \in 1..5 : j = 1 \/ j = 2 \/ j = 3 \/ j = 4 \/ j = 5
        OBVIOUS
      <3> QED BY <3>2, <3>3, <3>4
    <2> HIDE DEF es
    <2>2. ASSUME NEW e \in Range(es) PROVE ~(Len(e.path) > 1)
      <3>1. PICK j \in DOMAIN es : e = es[j]
        BY DEF Range
      <3>2. Len(e.path) = 1
        BY <2>1, <3>1
      <3> QED BY <3>2
    <2>3. IsArchive(AddSignature(osp, sig))
      BY DEF IsArchive, AddSignature, Archive
    <2> QED BY <2>2, <2>3 DEF Unpacked, es
  <1> QED BY <1>1, <1>2 DEF Unpacked, Range

\* Files carry the id of their build, and there are two in each.
LEMMA FilesFacts ==
  ASSUME NEW i, NEW m, NEW h
  PROVE  /\ \A f \in Files(i, m, h) : Origin(f) = i
         /\ \A f \in Files(i, m, h) :
              /\ f.path = <<"app.wasm">> => f.data = <<i>>
              /\ f.path = <<"manifest.json">> => f.data = <<Manifest(i, m, h)>>
         /\ Head(<<Manifest(i, m, h)>>).uuid = i
  <1>1. ASSUME NEW f \in Files(i, m, h)
        PROVE  /\ Origin(f) = i
               /\ f.path = <<"app.wasm">> => f.data = <<i>>
               /\ f.path = <<"manifest.json">> => f.data = <<Manifest(i, m, h)>>
    <2>1. CASE f = Entry(<<"app.wasm">>, <<i>>)
      BY <2>1 DEF Entry, Origin
    <2>2. CASE f = Entry(<<"manifest.json">>, <<Manifest(i, m, h)>>)
      BY <2>2 DEF Entry, Origin, Manifest
    <2>3. CASE f = Entry(<<"uidl.json">>, <<i>>)
      BY <2>3 DEF Entry, Origin
    <2> QED BY <2>1, <2>2, <2>3 DEF Files
  <1>2. Head(<<Manifest(i, m, h)>>).uuid = i
    BY DEF Manifest
  <1> QED BY <1>1, <1>2

LEMMA FilesHave ==
  \A i, m, h : \A name \in {"app.wasm", "manifest.json"} :
    \E f \in Files(i, m, h) : f.path = <<name>>
  <1>1. \A path, data : Entry(path, data).path = path
    BY DEF Entry
  <1> QED BY <1>1 DEF Files

\* An extraction leaves files that were there or are in the package.
LEMMA Extractions ==
  ASSUME NEW old, NEW new
  PROVE  /\ \A files \in HalfExtracted(old, new) : files \subseteq old \cup new
         /\ Extracted(old, new) \subseteq old \cup new /\ new \subseteq Extracted(old, new)
  BY DEF HalfExtracted, Extracted

\* Half a package is of the build the whole is of.
LEMMA TruncatedBuilds ==
  \A names, stem, osp :
    BuiltUnder(names, stem, osp) => BuiltUnder(names, stem, Truncated(osp))
  <1> SUFFICES ASSUME NEW names, NEW stem, NEW osp, BuiltUnder(names, stem, osp)
               PROVE  BuiltUnder(names, stem, Truncated(osp))
    OBVIOUS
  <1>1. PICK i \in Ids, m \in Names, h \in BOOLEAN :
          names[i] = {m} /\ Stem[m] = stem /\ Packed(osp, i, m, h)
    BY DEF BuiltUnder
  <1>2. Packed(Truncated(osp), i, m, h)
    BY <1>1, TruncatedArchives DEF Packed
  <1> QED BY <1>1, <1>2 DEF BuiltUnder

\* A build keeps its name when another id is drawn.
LEMMA NamesGrow ==
  ASSUME NEW names, NEW more, NEW id \in Ids, names[id] = {},
         \A x \in Ids \ {id} : more[x] = names[x]
  PROVE  /\ \A stem, osp : BuiltUnder(names, stem, osp) => BuiltUnder(more, stem, osp)
         /\ \A stem, files : FilesUnder(names, stem, files) => FilesUnder(more, stem, files)
  <1>1. \A i \in Ids, m \in Names : names[i] = {m} => more[i] = {m}
    OBVIOUS
  <1> QED BY <1>1 DEF BuiltUnder, FilesUnder

\* A directory with files has those of one build, and so has whatever may
\* still be written to it.
LEMMA DirsOfBuilds ==
  ASSUME IInv, NEW id \in Ids, dirs[id] # {}
  PROVE  \E i \in Ids, m \in Names, h \in BOOLEAN :
           dirs[id] \subseteq Files(i, m, h) /\ IsOf(id, i)
  <1>1. PICK i \in Ids, m \in Names, h \in BOOLEAN :
          /\ dirs[id] \subseteq Files(i, m, h)
          /\ \A app \in catalog[id] : Unpacked(app.osp) = Files(i, m, h)
    <2>1. CASE named[id] # {}
      <3>1. catalog[id] = {}
        BY <2>1 DEF IInv, IdsApart
      <3>2. PICK n \in named[id] : FilesUnder(named, Stem[n], dirs[id])
        BY <2>1 DEF IInv, NamedDirs
      <3> QED BY <3>1, <3>2 DEF FilesUnder
    <2>2. CASE named[id] = {}
      <3>1. catalog[id] # {}
        BY <2>2 DEF IInv, IdsApart
      <3>2. PICK app \in catalog[id] : catalog[id] = {app} /\ OneBuild(app.osp)
        BY <3>1 DEF IInv, StoreIsSane, AtMostOne
      <3>3. dirs[id] \subseteq Unpacked(app.osp)
        BY DEF IInv, InstalledAsPublished
      <3>4. Unpacked(app.osp) # {}
        BY <3>3
      <3>5. PICK i \in Ids, m \in Names, h \in BOOLEAN : Unpacked(app.osp) = Files(i, m, h)
        BY <3>2, <3>4 DEF OneBuild
      <3> QED BY <3>2, <3>3, <3>5
    <2> QED BY <2>1, <2>2
  <1>2. \A f \in Files(i, m, h) : Origin(f) = i
    BY FilesFacts
  <1>3. named[id] # {} \/ catalog[id] # {}
    BY DEF IInv, IdsApart
  <1>4. AllOf(dirs[id], i) /\ \A app \in catalog[id] : AllOf(Unpacked(app.osp), i)
    BY <1>1, <1>2 DEF AllOf
  <1>5. ASSUME NEW q \in Processes, Creates(q), job[q].id = id
        PROVE  /\ pc[q] = "extracting"
               /\ \A osp \in job[q].osp : AllOf(Unpacked(osp), i)
    <2>1. pc[q] = "extracting" /\ \A osp \in job[q].osp : dirs[id] \subseteq Unpacked(osp)
      BY <1>5 DEF IInv, OwnDirs
    <2>2. ASSUME NEW osp \in job[q].osp PROVE AllOf(Unpacked(osp), i)
      <3>1. PICK j \in Ids, n \in Names, k \in BOOLEAN : Unpacked(osp) = Files(j, n, k)
        BY <1>5 DEF IInv, PackagesAreBuilds, BuiltUnder, Packed
      <3>2. \A f \in Files(j, n, k) : Origin(f) = j
        BY FilesFacts
      <3>3. PICK f \in dirs[id] : TRUE
        OBVIOUS
      <3>4. Origin(f) = i /\ Origin(f) = j
        BY <1>1, <1>2, <2>1, <3>1, <3>2, <3>3
      <3> QED BY <3>1, <3>2, <3>4 DEF AllOf
    <2> QED BY <2>1, <2>2
  <1> QED BY <1>1, <1>3, <1>4, <1>5 DEF IsOf

\* Apps stay what was matched while no directory, no upload and no draw of an
\* id changes what is, or will be, under an id.
LEMMA MatchesStay ==
  ASSUME IInv, NEW p \in Processes,
         \A q \in Processes \ {p} : pc'[q] = pc[q] /\ job'[q] = job[q],
         job'[p].op # "run",
         job'[p].op = "create" =>
           job[p].op = "create" /\ job'[p].id = job[p].id /\ pc[p] # "extracting",
         UNCHANGED <<catalog, dirs, named>>
  PROVE  MatchesLast'
  <1> SUFFICES ASSUME NEW q \in Processes, Runs(q)'
               PROVE  \E i \in Ids :
                        /\ ManifestOf(job'[q].manifest, i)
                        /\ IsOf(job[q].id, i)'
                        /\ pc'[q] \in {"running", "hung"} => job'[q].wasm = {<<i>>}
    BY DEF MatchesLast, Runs, IsOf, Creates
  <1>1. q # p /\ job'[q] = job[q] /\ pc'[q] = pc[q]
    BY DEF Runs
  <1>2. PICK i \in Ids :
          /\ ManifestOf(job[q].manifest, i) /\ IsOf(job[q].id, i)
          /\ pc[q] \in {"running", "hung"} => job[q].wasm = {<<i>>}
    BY <1>1 DEF IInv, MatchesLast, Runs
  <1>3. \A r \in Processes : Creates(r)' /\ job'[r].id = job[q].id =>
          /\ pc'[r] = "extracting"
          /\ \A osp \in job'[r].osp : AllOf(Unpacked(osp), i)
    BY <1>2 DEF IsOf, Creates
  <1>4. IsOf(job[q].id, i)'
    BY <1>1, <1>2, <1>3 DEF IsOf, Creates
  <1> QED BY <1>1, <1>2, <1>4 DEF IsOf, Creates

-------------------------------------------------------------------------------

\* A command that ends, in whatever way, leaves what is on disk.
LEMMA StopIInv ==
  ASSUME IInv, NEW p \in Processes,
         Stop(p), pc[p] # "prompt", UNCHANGED <<catalog, packages, dirs, saved, named, announced>>
  PROVE  IInv'
  <1>1. /\ \A q \in Processes \ {p} : pc'[q] = pc[q] /\ job'[q] = job[q]
        /\ pc'[p] = "prompt" /\ job'[p].op = "none"
        /\ DOMAIN pc' = Processes /\ DOMAIN job' = Processes
        /\ UNCHANGED <<catalog, packages, dirs, saved, named, announced>>
    BY DEF IInv, Shapes, Creates, Fetches, Runs, Stop, Goto, NoJob
  <1>2. Shapes'
    BY <1>1 DEF IInv, Shapes, Creates, Fetches, Runs
  <1>3. IdsApart'
    BY <1>1 DEF IInv, IdsApart, Creates, Fetches, Runs, AtMostOne
  <1>4. PackagesAreBuilds'
    BY <1>1 DEF IInv, PackagesAreBuilds, Creates, Fetches, Runs
  <1>5. StoreIsSane'
    BY <1>1 DEF IInv, StoreIsSane, Creates, Fetches, Runs
  <1>6. InstalledAsPublished'
    BY <1>1 DEF IInv, InstalledAsPublished
  <1>7. OwnDirs'
    BY <1>1 DEF IInv, OwnDirs, Creates, Fetches, Runs
  <1>8. NamedDirs'
    BY <1>1 DEF IInv, NamedDirs
  <1>9. GeneratedStay'
    BY <1>1 DEF IInv, GeneratedStay, Creates, Fetches, Runs
  <1>10. MatchesLast'
    BY <1>1, MatchesStay DEF IInv, Shapes, Creates, Fetches
  <1> QED BY <1>2, <1>3, <1>4, <1>5, <1>6, <1>7, <1>8, <1>9, <1>10 DEF IInv

\* Compiling touches nothing others see.
LEMMA CompileIInv ==
  ASSUME IInv, NEW p \in Processes,
         CodeGenerated(p) \/ Compiles(p) \/ CodeFixed(p)
           \/ (DoesNotCompile(p) /\ ~Stop(p))
  PROVE  IInv'
  <1>1. /\ \A q \in Processes \ {p} : pc'[q] = pc[q] /\ job'[q] = job[q]
        /\ pc[p] \in {"coding", "compiling", "fixing"}
        /\ pc'[p] \in {"compiling", "designing", "fixing"}
        /\ job'[p].op = job[p].op /\ job'[p].id = job[p].id /\ DOMAIN job'[p] = DOMAIN job[p]
        /\ job'[p].name = job[p].name
        /\ job'[p].osp = job[p].osp
        /\ DOMAIN pc' = Processes /\ DOMAIN job' = Processes
        /\ UNCHANGED <<catalog, packages, dirs, saved, named, announced>>
    BY DEF IInv, Shapes, Creates, Fetches, Runs, CodeGenerated, Compiles, CodeFixed,
         DoesNotCompile, At, Goto
  <1>2. Shapes'
    BY <1>1 DEF IInv, Shapes, Creates, Fetches, Runs
  <1>3. IdsApart'
    BY <1>1 DEF IInv, IdsApart, Creates, Fetches, Runs, AtMostOne
  <1>4. PackagesAreBuilds'
    BY <1>1 DEF IInv, PackagesAreBuilds, Creates, Fetches, Runs
  <1>5. StoreIsSane'
    BY <1>1 DEF IInv, StoreIsSane, Creates, Fetches, Runs
  <1>6. InstalledAsPublished'
    BY <1>1 DEF IInv, InstalledAsPublished
  <1>7. OwnDirs'
    BY <1>1 DEF IInv, OwnDirs, Creates, Fetches, Runs
  <1>8. NamedDirs'
    BY <1>1 DEF IInv, NamedDirs
  <1>9. GeneratedStay'
    BY <1>1 DEF IInv, GeneratedStay, Creates, Fetches, Runs
  <1>10. MatchesLast'
    BY <1>1, MatchesStay DEF IInv, Shapes, Creates, Fetches
  <1> QED BY <1>2, <1>3, <1>4, <1>5, <1>6, <1>7, <1>8, <1>9, <1>10 DEF IInv

\* An id nobody drew has an empty directory, and no one is at it.
LEMMA CreateIInv ==
  ASSUME IInv, NEW p \in Processes,
         NEW n \in Names, Create(p, n)
  PROVE  IInv'
  <1>0. PICK id \in Ids :
          /\ Fresh(id) /\ named' = [named EXCEPT ![id] = {n}]
          /\ Start(p, "coding", [op |-> "create", id |-> id, name |-> n,
                                 attempt |-> 1, osp |-> {}])
          /\ UNCHANGED <<catalog, packages, dirs, saved, announced>>
    BY DEF Create
  <1>1. /\ \A q \in Processes \ {p} : pc'[q] = pc[q] /\ job'[q] = job[q]
        /\ id \in Ids /\ named[id] = {} /\ catalog[id] = {}
        /\ pc[p] = "prompt" /\ pc'[p] = "coding"
        /\ job'[p] = [op |-> "create", id |-> id, name |-> n, attempt |-> 1, osp |-> {}]
        /\ named'[id] = {n} /\ \A x \in Ids \ {id} : named'[x] = named[x]
        /\ DOMAIN pc' = Processes /\ DOMAIN job' = Processes /\ DOMAIN named' = DOMAIN named
        /\ UNCHANGED <<catalog, packages, dirs, saved, announced>>
    BY <1>0 DEF IInv, Shapes, Creates, Fetches, Runs, Create, Start, Fresh, Goto
  <1>a. /\ dirs[id] = {}
        /\ \A q \in Processes : Creates(q) \/ Fetches(q) => job[q].id \in Ids \ {id}
    <2>1. dirs[id] = {}
      BY <1>1 DEF IInv, IdsApart
    <2>2. \A q \in Processes : Creates(q) \/ Fetches(q) => job[q].id \in Ids
      BY DEF IInv, Shapes
    <2>3. ASSUME NEW q \in Processes, Creates(q) PROVE job[q].id # id
      <3>1. named[job[q].id] = {job[q].name}
        BY <2>3 DEF IInv, IdsApart
      <3> QED BY <1>1, <3>1
    <2>4. ASSUME NEW q \in Processes, Fetches(q) PROVE job[q].id # id
      BY <1>1, <2>4 DEF IInv, IdsApart
    <2> QED BY <2>1, <2>2, <2>3, <2>4
  <1>b. /\ \A stem, osp : BuiltUnder(named, stem, osp) => BuiltUnder(named', stem, osp)
        /\ \A stem, files : FilesUnder(named, stem, files) => FilesUnder(named', stem, files)
    BY <1>1, NamesGrow
  <1>2. Shapes'
    BY <1>1, <1>a, <1>b DEF IInv, Shapes, Creates, Fetches, Runs
  <1>3. IdsApart'
    <2>1. \A x \in Ids :
            /\ named'[x] = {} \/ catalog[x] = {}
            /\ named'[x] = {} /\ catalog[x] = {} => dirs[x] = {}
            /\ AtMostOne(named'[x]) /\ named'[x] \subseteq Names
      BY <1>1, <1>a DEF IInv, IdsApart, AtMostOne
    <2>2. \A q \in Processes : job'[q].op = "create" => named'[job'[q].id] = {job'[q].name}
      BY <1>1, <1>a DEF IInv, IdsApart, Creates
    <2>3. \A q, r \in Processes : job'[q].op = "create" /\ job'[r].op = "create"
                                  /\ job'[q].id = job'[r].id => q = r
      BY <1>1, <1>a DEF IInv, IdsApart, Creates
    <2>4. \A q \in Processes : job'[q].op \in {"install", "fetch"} => catalog[job'[q].id] # {}
      BY <1>1, <1>a DEF IInv, IdsApart, Fetches
    <2> QED BY <1>1, <2>1, <2>2, <2>3, <2>4 DEF IdsApart, Creates, Fetches
  <1>4. PackagesAreBuilds'
    <2>1. \A s \in Stems : AtMostOne(packages'[s])
                           /\ \A o \in packages'[s] : BuiltUnder(named', s, o)
      BY <1>1, <1>b DEF IInv, PackagesAreBuilds
    <2>2. ASSUME NEW q \in Processes, job'[q].op = "create"
          PROVE  /\ AtMostOne(job'[q].osp)
                 /\ \A o \in job'[q].osp : BuiltUnder(named', Stem[job'[q].name], o)
                 /\ pc'[q] \in {"packing", "writing", "extracting"} => job'[q].osp # {}
      <3>1. CASE q = p
        BY <2>2, <3>1, <1>1 DEF IInv, PackagesAreBuilds, Creates, Fetches, AtMostOne
      <3>2. CASE q # p
        BY <1>1, <1>b, <2>2, <3>2 DEF IInv, PackagesAreBuilds, Creates
      <3> QED BY <3>1, <3>2
    <2> QED BY <2>1, <2>2 DEF PackagesAreBuilds, Creates
  <1>5. StoreIsSane'
    BY <1>1, <1>a, <1>b DEF IInv, StoreIsSane, Creates, Fetches, Runs
  <1>6. InstalledAsPublished'
    BY <1>1, <1>a, <1>b DEF IInv, InstalledAsPublished
  <1>7. OwnDirs'
    BY <1>1, <1>a, <1>b DEF IInv, OwnDirs, Creates, Fetches, Runs
  <1>8. NamedDirs'
    <2>1. ASSUME NEW x \in Ids, NEW m \in named'[x]
          PROVE  FilesUnder(named', Stem[m], dirs[x])
      <3>1. CASE x = id
        BY <1>a, <3>1 DEF FilesUnder
      <3>2. CASE x # id
        BY <1>1, <1>b, <3>2 DEF IInv, NamedDirs
      <3> QED BY <3>1, <3>2
    <2>2. dirs' = dirs
      BY <1>1
    <2> QED BY <2>1, <2>2 DEF NamedDirs
  <1>9. GeneratedStay'
    BY <1>1, <1>a, <1>b DEF IInv, GeneratedStay, Creates, Fetches, Runs
  <1>10. MatchesLast'
    <2> SUFFICES ASSUME NEW q \in Processes, Runs(q)'
                 PROVE  \E i \in Ids :
                          /\ ManifestOf(job'[q].manifest, i)
                          /\ IsOf(job[q].id, i)'
                          /\ pc'[q] \in {"running", "hung"} => job'[q].wasm = {<<i>>}
      BY DEF MatchesLast, Runs, IsOf, Creates
    <2>1. q # p /\ job'[q] = job[q] /\ pc'[q] = pc[q] /\ job[q].id \in Ids
      BY <1>1 DEF IInv, Shapes, Runs, Creates, Fetches
    <2>2. PICK i \in Ids :
            /\ ManifestOf(job[q].manifest, i) /\ IsOf(job[q].id, i)
            /\ pc[q] \in {"running", "hung"} => job[q].wasm = {<<i>>}
      BY <2>1 DEF IInv, MatchesLast, Runs
    <2>3. IsOf(job[q].id, i)'
      <3>1. \A r \in Processes : Creates(r)' /\ job'[r].id = job[q].id =>
              /\ pc'[r] = "extracting"
              /\ \A o \in job'[r].osp : AllOf(Unpacked(o), i)
        BY <1>1, <2>2, <1>a DEF IsOf, Creates, Fetches, Runs
      <3> QED BY <1>1, <2>1, <2>2, <3>1, <1>a DEF IsOf, Creates
    <2> QED BY <2>1, <2>2, <2>3 DEF IsOf, Creates
  <1> QED BY <1>2, <1>3, <1>4, <1>5, <1>6, <1>7, <1>8, <1>9, <1>10 DEF IInv

\* A package is made for the id and the name of its build.
LEMMA DesignIInv ==
  ASSUME IInv, NEW p \in Processes,
         Design(p)
  PROVE  IInv'
  <1>0. PICK h \in BOOLEAN :
          job' = [job EXCEPT ![p].osp = {Package(job[p].id, job[p].name, h)}]
    BY DEF Design
  <1>1. /\ \A q \in Processes \ {p} : pc'[q] = pc[q] /\ job'[q] = job[q]
        /\ Creates(p) /\ pc[p] = "designing" /\ pc'[p] = "packing"
        /\ job'[p].op = job[p].op /\ job'[p].id = job[p].id /\ DOMAIN job'[p] = DOMAIN job[p]
        /\ job'[p].name = job[p].name
        /\ job'[p].osp = {Package(job[p].id, job[p].name, h)}
        /\ DOMAIN pc' = Processes /\ DOMAIN job' = Processes
        /\ UNCHANGED <<catalog, packages, dirs, saved, named, announced>>
    BY <1>0 DEF IInv, Shapes, Creates, Fetches, Runs, Design, At, Goto
  <1>a. BuiltUnder(named, Stem[job[p].name], Package(job[p].id, job[p].name, h))
    BY <1>1, PackageFiles DEF IInv, Shapes, IdsApart, BuiltUnder
  <1>2. Shapes'
    BY <1>1 DEF IInv, Shapes, Creates, Fetches, Runs
  <1>3. IdsApart'
    BY <1>1 DEF IInv, IdsApart, Creates, Fetches, Runs, AtMostOne
  <1>4. PackagesAreBuilds'
    <2>1. \A s \in Stems : AtMostOne(packages'[s])
                           /\ \A o \in packages'[s] : BuiltUnder(named', s, o)
      BY <1>1 DEF IInv, PackagesAreBuilds
    <2>2. ASSUME NEW q \in Processes, job'[q].op = "create"
          PROVE  /\ AtMostOne(job'[q].osp)
                 /\ \A o \in job'[q].osp : BuiltUnder(named', Stem[job'[q].name], o)
                 /\ pc'[q] \in {"packing", "writing", "extracting"} => job'[q].osp # {}
      <3>1. CASE q = p
        BY <2>2, <3>1, <1>1, <1>a DEF IInv, PackagesAreBuilds, Creates, Fetches, AtMostOne
      <3>2. CASE q # p
        BY <1>1, <2>2, <3>2 DEF IInv, PackagesAreBuilds, Creates
      <3> QED BY <3>1, <3>2
    <2> QED BY <2>1, <2>2 DEF PackagesAreBuilds, Creates
  <1>5. StoreIsSane'
    BY <1>1 DEF IInv, StoreIsSane, Creates, Fetches, Runs
  <1>6. InstalledAsPublished'
    BY <1>1 DEF IInv, InstalledAsPublished
  <1>7. OwnDirs'
    BY <1>1 DEF IInv, OwnDirs, Creates, Fetches, Runs
  <1>8. NamedDirs'
    BY <1>1 DEF IInv, NamedDirs
  <1>9. GeneratedStay'
    BY <1>1 DEF IInv, GeneratedStay, Creates, Fetches, Runs
  <1>10. MatchesLast'
    BY <1>1, MatchesStay DEF IInv, Shapes, Creates, Fetches
  <1> QED BY <1>2, <1>3, <1>4, <1>5, <1>6, <1>7, <1>8, <1>9, <1>10 DEF IInv

\* The package at the path of a name was built under such a name.
LEMMA OpenPackageIInv ==
  ASSUME IInv, NEW p \in Processes,
         OpenPackage(p)
  PROVE  IInv'
  <1>a. /\ Creates(p) /\ job[p].osp = {The(job[p].osp)} /\ Stem[job[p].name] \in Stems
        /\ BuiltUnder(named, Stem[job[p].name], The(job[p].osp))
    <2>1. Creates(p) /\ pc[p] \in {"packing", "writing"}
      BY DEF IInv, Shapes, OpenPackage, ClosePackage, At
    <2>2. PICK osp \in job[p].osp : job[p].osp = {osp}
      BY <2>1 DEF IInv, PackagesAreBuilds, AtMostOne
    <2>3. The(job[p].osp) = osp
      BY <2>2 DEF The
    <2> QED BY <2>1, <2>2, <2>3 DEF IInv, Shapes, PackagesAreBuilds, Stems
  <1>1. /\ \A q \in Processes \ {p} : pc'[q] = pc[q] /\ job'[q] = job[q]
        /\ Creates(p) /\ pc[p] = "packing" /\ pc'[p] = "writing" /\ job' = job
        /\ packages' = [packages EXCEPT ![Stem[job[p].name]] = {Truncated(The(job[p].osp))}]
        /\ DOMAIN pc' = Processes /\ DOMAIN job' = Processes /\ DOMAIN packages' = DOMAIN packages
        /\ UNCHANGED <<catalog, dirs, saved, named, announced>>
    BY <1>a DEF IInv, Shapes, Creates, Fetches, Runs, OpenPackage, At, Goto, PackagePath
  <1>b. BuiltUnder(named, Stem[job[p].name], Truncated(The(job[p].osp)))
    BY <1>1, <1>a, TruncatedBuilds DEF IInv, PackagesAreBuilds
  <1>2. Shapes'
    BY <1>1 DEF IInv, Shapes, Creates, Fetches, Runs
  <1>3. IdsApart'
    BY <1>1 DEF IInv, IdsApart, Creates, Fetches, Runs, AtMostOne
  <1>4. PackagesAreBuilds'
    <2>1. \A s \in Stems : AtMostOne(packages'[s])
                           /\ \A o \in packages'[s] : BuiltUnder(named', s, o)
      BY <1>1, <1>a, <1>b DEF IInv, PackagesAreBuilds, AtMostOne
    <2>2. ASSUME NEW q \in Processes, job'[q].op = "create"
          PROVE  /\ AtMostOne(job'[q].osp)
                 /\ \A o \in job'[q].osp : BuiltUnder(named', Stem[job'[q].name], o)
                 /\ pc'[q] \in {"packing", "writing", "extracting"} => job'[q].osp # {}
      <3>1. CASE q = p
        BY <2>2, <3>1, <1>1 DEF IInv, PackagesAreBuilds, Creates, Fetches, AtMostOne
      <3>2. CASE q # p
        BY <1>1, <1>a, <1>b, <2>2, <3>2 DEF IInv, PackagesAreBuilds, Creates
      <3> QED BY <3>1, <3>2
    <2> QED BY <2>1, <2>2 DEF PackagesAreBuilds, Creates
  <1>5. StoreIsSane'
    BY <1>1 DEF IInv, StoreIsSane, Creates, Fetches, Runs
  <1>6. InstalledAsPublished'
    BY <1>1 DEF IInv, InstalledAsPublished
  <1>7. OwnDirs'
    BY <1>1 DEF IInv, OwnDirs, Creates, Fetches, Runs
  <1>8. NamedDirs'
    BY <1>1 DEF IInv, NamedDirs
  <1>9. GeneratedStay'
    BY <1>1 DEF IInv, GeneratedStay, Creates, Fetches, Runs
  <1>10. MatchesLast'
    BY <1>1, MatchesStay DEF IInv, Shapes, Creates, Fetches
  <1> QED BY <1>2, <1>3, <1>4, <1>5, <1>6, <1>7, <1>8, <1>9, <1>10 DEF IInv

\* Whole or spoiled, the package is of one build.
LEMMA ClosePackageIInv ==
  ASSUME IInv, NEW p \in Processes,
         ClosePackage(p)
  PROVE  IInv'
  <1>a. /\ Creates(p) /\ job[p].osp = {The(job[p].osp)} /\ Stem[job[p].name] \in Stems
        /\ BuiltUnder(named, Stem[job[p].name], The(job[p].osp))
    <2>1. Creates(p) /\ pc[p] \in {"packing", "writing"}
      BY DEF IInv, Shapes, OpenPackage, ClosePackage, At
    <2>2. PICK osp \in job[p].osp : job[p].osp = {osp}
      BY <2>1 DEF IInv, PackagesAreBuilds, AtMostOne
    <2>3. The(job[p].osp) = osp
      BY <2>2 DEF The
    <2> QED BY <2>1, <2>2, <2>3 DEF IInv, Shapes, PackagesAreBuilds, Stems
  <1>1. /\ \A q \in Processes \ {p} : pc'[q] = pc[q] /\ job'[q] = job[q]
        /\ Creates(p) /\ pc[p] = "writing" /\ pc'[p] = "unpacking" /\ job' = job
        /\ \/ packages' = [packages EXCEPT ![Stem[job[p].name]] = job[p].osp]
           \/ packages' = [packages EXCEPT ![Stem[job[p].name]] = {Truncated(The(job[p].osp))}]
        /\ DOMAIN pc' = Processes /\ DOMAIN job' = Processes /\ DOMAIN packages' = DOMAIN packages
        /\ UNCHANGED <<catalog, dirs, saved, named, announced>>
    BY <1>a DEF IInv, Shapes, Creates, Fetches, Runs, ClosePackage, At, Goto,
         PackagePath, Disturbed
  <1>b. BuiltUnder(named, Stem[job[p].name], Truncated(The(job[p].osp)))
    BY <1>1, <1>a, TruncatedBuilds DEF IInv, PackagesAreBuilds
  <1>c. /\ \A s \in Stems \ {Stem[job[p].name]} : packages'[s] = packages[s]
        /\ packages'[Stem[job[p].name]] \in {job[p].osp, {Truncated(The(job[p].osp))}}
        /\ DOMAIN packages' = DOMAIN packages /\ named' = named /\ job' = job
    BY <1>1, <1>a DEF IInv, Shapes
  <1>2. Shapes'
    BY <1>1 DEF IInv, Shapes, Creates, Fetches, Runs
  <1>3. IdsApart'
    BY <1>1 DEF IInv, IdsApart, Creates, Fetches, Runs, AtMostOne
  <1>4. PackagesAreBuilds'
    <2>1. \A s \in Stems : AtMostOne(packages'[s])
                           /\ \A o \in packages'[s] : BuiltUnder(named', s, o)
      BY <1>1, <1>c, <1>a, <1>b DEF IInv, PackagesAreBuilds, AtMostOne
    <2>2. ASSUME NEW q \in Processes, job'[q].op = "create"
          PROVE  /\ AtMostOne(job'[q].osp)
                 /\ \A o \in job'[q].osp : BuiltUnder(named', Stem[job'[q].name], o)
                 /\ pc'[q] \in {"packing", "writing", "extracting"} => job'[q].osp # {}
      <3>1. CASE q = p
        BY <2>2, <3>1, <1>1 DEF IInv, PackagesAreBuilds, Creates, Fetches, AtMostOne
      <3>2. CASE q # p
        BY <1>1, <1>c, <1>a, <1>b, <2>2, <3>2 DEF IInv, PackagesAreBuilds, Creates
      <3> QED BY <3>1, <3>2
    <2> QED BY <2>1, <2>2 DEF PackagesAreBuilds, Creates
  <1>5. StoreIsSane'
    BY <1>1 DEF IInv, StoreIsSane, Creates, Fetches, Runs
  <1>6. InstalledAsPublished'
    BY <1>1 DEF IInv, InstalledAsPublished
  <1>7. OwnDirs'
    BY <1>1 DEF IInv, OwnDirs, Creates, Fetches, Runs
  <1>8. NamedDirs'
    BY <1>1 DEF IInv, NamedDirs
  <1>9. GeneratedStay'
    BY <1>1 DEF IInv, GeneratedStay, Creates, Fetches, Runs
  <1>10. MatchesLast'
    BY <1>1, MatchesStay DEF IInv, Shapes, Creates, Fetches
  <1> QED BY <1>2, <1>3, <1>4, <1>5, <1>6, <1>7, <1>8, <1>9, <1>10 DEF IInv

\* Extracting adds files of the one build there is for an id.
LEMMA StartExtractIInv ==
  ASSUME IInv, NEW p \in Processes,
         StartExtract(p)
  PROVE  IInv'
  <1>0. PICK osp \in Source(p), files \in HalfExtracted(dirs[job[p].id], Unpacked(The(Source(p)))) :
          /\ job' = [job EXCEPT ![p].osp = {osp}]
          /\ dirs' = [dirs EXCEPT ![job[p].id] = files]
    BY DEF StartExtract
  <1>1. /\ \A q \in Processes \ {p} : pc'[q] = pc[q] /\ job'[q] = job[q]
        /\ Creates(p) \/ Fetches(p)
        /\ job[p].id \in Ids
        /\ pc[p] = "unpacking" /\ pc'[p] = "extracting"
        /\ job'[p].op = job[p].op /\ job'[p].id = job[p].id /\ DOMAIN job'[p] = DOMAIN job[p]
        /\ Creates(p) => job'[p].name = job[p].name
        /\ job'[p].osp = {osp}
        /\ dirs'[job[p].id] = files /\ \A x \in Ids \ {job[p].id} : dirs'[x] = dirs[x]
        /\ DOMAIN pc' = Processes /\ DOMAIN job' = Processes /\ DOMAIN dirs' = DOMAIN dirs
        /\ UNCHANGED <<catalog, packages, saved, named, announced>>
    BY <1>0 DEF IInv, Shapes, Creates, Fetches, Runs, StartExtract, At, Goto
  <1> DEFINE id == job[p].id
  <1>a. /\ Source(p) = {osp}
        /\ Creates(p) => BuiltUnder(named, Stem[job[p].name], osp)
        /\ Fetches(p) => FromStore(catalog[id], osp)
    <2>1. CASE Creates(p)
      BY <1>0, <2>1 DEF IInv, Shapes, PackagesAreBuilds, Source, PackagePath, AtMostOne,
                        Creates, Fetches, Stems
    <2>2. CASE Fetches(p)
      BY <1>0, <1>1, <2>2 DEF IInv, StoreIsSane, Source, AtMostOne, Fetches, Creates
    <2> QED BY <1>1, <2>1, <2>2
  <1>b. files \subseteq dirs[id] \cup Unpacked(osp)
    <2>1. The(Source(p)) = osp
      BY <1>a DEF The
    <2> QED BY <2>1, Extractions
  <1>c. Creates(p) => /\ named[id] = {job[p].name} /\ catalog[id] = {}
                      /\ files \subseteq Unpacked(osp)
                      /\ FilesUnder(named, Stem[job[p].name], files)
    <2> SUFFICES ASSUME Creates(p)
                 PROVE  /\ named[id] = {job[p].name} /\ catalog[id] = {}
                        /\ files \subseteq Unpacked(osp)
                        /\ FilesUnder(named, Stem[job[p].name], files)
      OBVIOUS
    <2>1. named[id] = {job[p].name} /\ catalog[id] = {}
      BY <1>1 DEF IInv, IdsApart
    <2>2. dirs[id] \subseteq Unpacked(osp)
      BY <1>1 DEF IInv, OwnDirs
    <2>3. FilesUnder(named, Stem[job[p].name], files)
      BY <1>a, <1>b, <2>2 DEF BuiltUnder, Packed, FilesUnder
    <2> QED BY <1>b, <2>1, <2>2, <2>3
  <1>d. Fetches(p) => /\ named[id] = {} /\ catalog[id] # {}
                      /\ \A app \in catalog[id] :
                           /\ files \subseteq Unpacked(app.osp)
                           /\ Unpacked(osp) \subseteq Unpacked(app.osp)
    BY <1>1, <1>a, <1>b DEF IInv, IdsApart, FromStore, InstalledAsPublished
  <1>e. \A q \in Processes \ {p} : Creates(q) => job[q].id # id
    <2> SUFFICES ASSUME NEW q \in Processes \ {p}, Creates(q) PROVE job[q].id # id
      OBVIOUS
    <2>1. named[job[q].id] # {}
      BY DEF IInv, IdsApart
    <2> QED BY <1>1, <1>d, <2>1 DEF IInv, IdsApart
  <1>f. \A a \in announced : a.how = "create" => a.id # id
    BY <1>1, <1>d DEF IInv, GeneratedStay
  <1> HIDE DEF id
  <1>2. Shapes'
    BY <1>1, <1>e, <1>c, <1>d, <1>f, <1>a DEF id, AtMostOne, IInv, Shapes, Creates,
         Fetches, Runs
  <1>3. IdsApart'
    <2>1. \A x \in Ids : named[x] = {} /\ catalog[x] = {} => dirs'[x] = {}
      BY <1>1, <1>c, <1>d DEF IInv, IdsApart, id
    <2>2. \A q \in Processes : /\ Creates(q)' => Creates(q) /\ job'[q].name = job[q].name
                               /\ Fetches(q)' => Fetches(q)
                               /\ Creates(q)' \/ Fetches(q)' => job'[q].id = job[q].id
      BY <1>1 DEF Creates, Fetches
    <2>3. named' = named /\ catalog' = catalog
      BY <1>1
    <2>4. \A x \in Ids :
            /\ named'[x] = {} \/ catalog'[x] = {}
            /\ named'[x] = {} /\ catalog'[x] = {} => dirs'[x] = {}
            /\ AtMostOne(named'[x]) /\ named'[x] \subseteq Names
      BY <2>1, <2>3 DEF IInv, IdsApart
    <2>5. \A q \in Processes : Creates(q)' => named'[job'[q].id] = {job'[q].name}
      BY <2>2, <2>3 DEF IInv, IdsApart, Creates
    <2>6. \A q, r \in Processes :
            Creates(q)' /\ Creates(r)' /\ job'[q].id = job'[r].id => q = r
      BY <2>2 DEF IInv, IdsApart, Creates
    <2>7. \A q \in Processes : Fetches(q)' => catalog'[job'[q].id] # {}
      BY <2>2, <2>3 DEF IInv, IdsApart, Fetches
    <2> QED BY <2>4, <2>5, <2>6, <2>7 DEF IdsApart, Creates, Fetches
  <1>4. PackagesAreBuilds'
    <2>1. \A s \in Stems : AtMostOne(packages'[s])
                           /\ \A o \in packages'[s] : BuiltUnder(named', s, o)
      BY <1>1 DEF IInv, PackagesAreBuilds
    <2>2. ASSUME NEW q \in Processes, job'[q].op = "create"
          PROVE  /\ AtMostOne(job'[q].osp)
                 /\ \A o \in job'[q].osp : BuiltUnder(named', Stem[job'[q].name], o)
                 /\ pc'[q] \in {"packing", "writing", "extracting"} => job'[q].osp # {}
      <3>1. CASE q = p
        BY <2>2, <3>1, <1>1, <1>a DEF IInv, PackagesAreBuilds, Creates, Fetches, AtMostOne
      <3>2. CASE q # p
        BY <1>1, <2>2, <3>2 DEF IInv, PackagesAreBuilds, Creates
      <3> QED BY <3>1, <3>2
    <2> QED BY <2>1, <2>2 DEF PackagesAreBuilds, Creates
  <1>5. StoreIsSane'
    BY <1>1, <1>e, <1>c, <1>d, <1>f, <1>a DEF id, AtMostOne, IInv, StoreIsSane,
         Creates, Fetches, Runs
  <1>6. InstalledAsPublished'
    <2>1. ASSUME NEW x \in Ids, NEW app \in catalog[x] PROVE dirs'[x] \subseteq Unpacked(app.osp)
      <3>1. CASE x = id
        BY <1>1, <1>c, <1>d, <3>1 DEF id
      <3>2. CASE x # id
        BY <1>1, <3>2 DEF IInv, InstalledAsPublished, id
      <3> QED BY <3>1, <3>2
    <2> QED BY <1>1, <2>1 DEF InstalledAsPublished
  <1>7. OwnDirs'
    <2>1. ASSUME NEW q \in Processes, Creates(q)'
          PROVE  IF pc'[q] = "extracting"
                 THEN \A o \in job'[q].osp : dirs'[job'[q].id] \subseteq Unpacked(o)
                 ELSE dirs'[job'[q].id] = {}
      <3>1. CASE q = p
        BY <1>1, <1>c, <2>1, <3>1 DEF Creates, id
      <3>2. CASE q # p
        <4>1. job'[q] = job[q] /\ pc'[q] = pc[q] /\ Creates(q) /\ job[q].id \in Ids \ {id}
          BY <1>1, <1>e, <2>1, <3>2 DEF IInv, Shapes, Creates
        <4>2. dirs'[job[q].id] = dirs[job[q].id]
          BY <1>1, <4>1 DEF id
        <4> QED BY <4>1, <4>2 DEF IInv, OwnDirs
      <3> QED BY <3>1, <3>2
    <2> QED BY <2>1 DEF OwnDirs, Creates
  <1>8. NamedDirs'
    <2>1. ASSUME NEW x \in Ids, NEW n \in named[x] PROVE FilesUnder(named, Stem[n], dirs'[x])
      <3>1. CASE x = id
        BY <1>1, <1>c, <1>d, <3>1 DEF id
      <3>2. CASE x # id
        BY <1>1, <3>2 DEF IInv, NamedDirs, id
      <3> QED BY <3>1, <3>2
    <2>2. named' = named
      BY <1>1
    <2> QED BY <2>1, <2>2 DEF NamedDirs
  <1>9. GeneratedStay'
    BY <1>1, <1>e, <1>c, <1>d, <1>f, <1>a DEF id, AtMostOne, IInv, GeneratedStay,
         Creates, Fetches, Runs
  <1>10. MatchesLast'
    <2> SUFFICES ASSUME NEW q \in Processes, Runs(q)'
                 PROVE  \E i \in Ids :
                          /\ ManifestOf(job'[q].manifest, i)
                          /\ IsOf(job[q].id, i)'
                          /\ pc'[q] \in {"running", "hung"} => job'[q].wasm = {<<i>>}
      BY DEF MatchesLast, Runs, IsOf, Creates
    <2>1. q # p /\ job'[q] = job[q] /\ pc'[q] = pc[q] /\ job[q].id \in Ids
      BY <1>1 DEF IInv, Shapes, Runs, Creates, Fetches
    <2>2. PICK i \in Ids :
            /\ ManifestOf(job[q].manifest, i) /\ IsOf(job[q].id, i)
            /\ pc[q] \in {"running", "hung"} => job[q].wasm = {<<i>>}
      BY <2>1 DEF IInv, MatchesLast, Runs
    <2>3. IsOf(job[q].id, i)'
      <3>1. \A r \in Processes : Creates(r)' /\ job'[r].id = job[q].id =>
              /\ pc'[r] = "extracting"
              /\ \A o \in job'[r].osp : AllOf(Unpacked(o), i)
        BY <1>1, <2>2 DEF IsOf, Creates, Fetches, Runs
      <3>2. AllOf(dirs'[job[q].id], i)
        <4>1. CASE job[q].id # id
          BY <1>1, <2>1, <2>2, <4>1 DEF IsOf, id
        <4>2. CASE job[q].id = id /\ Creates(p)
          BY <1>1, <1>b, <1>c, <2>2, <4>2 DEF IsOf, AllOf, id
        <4>3. CASE job[q].id = id /\ Fetches(p)
          BY <1>1, <1>d, <2>2, <4>3 DEF IsOf, AllOf, id
        <4> QED BY <1>1, <4>1, <4>2, <4>3
      <3> QED BY <1>1, <2>1, <2>2, <3>1, <3>2 DEF IsOf, Creates
    <2> QED BY <2>1, <2>2, <2>3 DEF IsOf, Creates
  <1> QED BY <1>2, <1>3, <1>4, <1>5, <1>6, <1>7, <1>8, <1>9, <1>10 DEF IInv

\* A generated app that is announced has its files, and nobody else's id.
LEMMA FinishExtractIInv ==
  ASSUME IInv, NEW p \in Processes,
         FinishExtract(p)
  PROVE  IInv'
  <1>0. PICK osp \in job[p].osp :
          dirs' = [dirs EXCEPT ![job[p].id] = Extracted(@, Unpacked(osp))]
    BY DEF FinishExtract
  <1>1. /\ \A q \in Processes \ {p} : pc'[q] = pc[q] /\ job'[q] = job[q]
        /\ Creates(p) \/ Fetches(p)
        /\ job[p].id \in Ids
        /\ pc[p] = "extracting" /\ pc'[p] = "prompt" /\ job'[p].op = "none"
        /\ announced' = announced \cup {[how |-> job[p].op, id |-> job[p].id]}
        /\ dirs'[job[p].id] = Extracted(dirs[job[p].id], Unpacked(osp))
        /\ \A x \in Ids \ {job[p].id} : dirs'[x] = dirs[x]
        /\ DOMAIN pc' = Processes /\ DOMAIN job' = Processes /\ DOMAIN dirs' = DOMAIN dirs
        /\ UNCHANGED <<catalog, packages, saved, named>>
    BY <1>0 DEF IInv, Shapes, Creates, Fetches, Runs, FinishExtract, At, Goto, Stop,
         Announce, NoJob
  <1> DEFINE id == job[p].id
             files == Extracted(dirs[id], Unpacked(osp))
  <1>a. /\ job[p].osp = {osp}
        /\ Creates(p) => BuiltUnder(named, Stem[job[p].name], osp)
        /\ Fetches(p) => FromStore(catalog[id], osp)
    BY <1>0, <1>1 DEF IInv, PackagesAreBuilds, StoreIsSane, AtMostOne
  <1>b. files \subseteq dirs[id] \cup Unpacked(osp) /\ Unpacked(osp) \subseteq files
    BY Extractions
  <1>h. dirs'[id] = files
    BY <1>1
  <1> HIDE DEF files
  <1>c. Creates(p) => /\ named[id] = {job[p].name} /\ catalog[id] = {}
                      /\ files \subseteq Unpacked(osp)
                      /\ FilesUnder(named, Stem[job[p].name], files)
    <2> SUFFICES ASSUME Creates(p)
                 PROVE  /\ named[id] = {job[p].name} /\ catalog[id] = {}
                        /\ files \subseteq Unpacked(osp)
                        /\ FilesUnder(named, Stem[job[p].name], files)
      OBVIOUS
    <2>1. named[id] = {job[p].name} /\ catalog[id] = {}
      BY <1>1 DEF IInv, IdsApart
    <2>2. dirs[id] \subseteq Unpacked(osp)
      BY <1>1, <1>0 DEF IInv, OwnDirs
    <2>3. FilesUnder(named, Stem[job[p].name], files)
      BY <1>a, <1>b, <2>2 DEF BuiltUnder, Packed, FilesUnder
    <2> QED BY <1>b, <2>1, <2>2, <2>3
  <1>d. Fetches(p) => /\ named[id] = {} /\ catalog[id] # {}
                      /\ \A app \in catalog[id] :
                           /\ files \subseteq Unpacked(app.osp)
                           /\ Unpacked(osp) \subseteq Unpacked(app.osp)
    BY <1>1, <1>a, <1>b DEF IInv, IdsApart, FromStore, InstalledAsPublished
  <1>e. \A q \in Processes \ {p} : Creates(q) => job[q].id # id
    <2> SUFFICES ASSUME NEW q \in Processes \ {p}, Creates(q) PROVE job[q].id # id
      OBVIOUS
    <2>1. named[job[q].id] # {}
      BY DEF IInv, IdsApart
    <2> QED BY <1>1, <1>d, <2>1 DEF IInv, IdsApart
  <1>f. \A a \in announced : a.how = "create" => a.id # id
    BY <1>1, <1>d DEF IInv, GeneratedStay
  <1>g. Creates(p) => \A name \in {"app.wasm", "manifest.json"} : Lookup(files, name) # {}
    <2> SUFFICES ASSUME Creates(p), NEW name \in {"app.wasm", "manifest.json"}
                 PROVE  Lookup(files, name) # {}
      OBVIOUS
    <2>1. PICK i \in Ids, m \in Names, h \in BOOLEAN : Unpacked(osp) = Files(i, m, h)
      BY <1>a DEF BuiltUnder, Packed
    <2>2. PICK f \in Files(i, m, h) : f.path = <<name>>
      BY FilesHave
    <2>3. f \in files
      BY <1>b, <2>1, <2>2
    <2> QED BY <2>2, <2>3 DEF Lookup
  <1> HIDE DEF id
  <1>2. Shapes'
    BY <1>1, <1>e, <1>c, <1>d, <1>f, <1>a, <1>h DEF id, AtMostOne, IInv, Shapes,
         Creates, Fetches, Runs
  <1>3. IdsApart'
    <2>1. \A x \in Ids : named[x] = {} /\ catalog[x] = {} => dirs'[x] = {}
      BY <1>1, <1>c, <1>d DEF IInv, IdsApart, id
    <2>2. \A q \in Processes : /\ Creates(q)' => Creates(q) /\ job'[q].name = job[q].name
                               /\ Fetches(q)' => Fetches(q)
                               /\ Creates(q)' \/ Fetches(q)' => job'[q].id = job[q].id
      BY <1>1 DEF Creates, Fetches
    <2>3. named' = named /\ catalog' = catalog
      BY <1>1
    <2>4. \A x \in Ids :
            /\ named'[x] = {} \/ catalog'[x] = {}
            /\ named'[x] = {} /\ catalog'[x] = {} => dirs'[x] = {}
            /\ AtMostOne(named'[x]) /\ named'[x] \subseteq Names
      BY <2>1, <2>3 DEF IInv, IdsApart
    <2>5. \A q \in Processes : Creates(q)' => named'[job'[q].id] = {job'[q].name}
      BY <2>2, <2>3 DEF IInv, IdsApart, Creates
    <2>6. \A q, r \in Processes :
            Creates(q)' /\ Creates(r)' /\ job'[q].id = job'[r].id => q = r
      BY <2>2 DEF IInv, IdsApart, Creates
    <2>7. \A q \in Processes : Fetches(q)' => catalog'[job'[q].id] # {}
      BY <2>2, <2>3 DEF IInv, IdsApart, Fetches
    <2> QED BY <2>4, <2>5, <2>6, <2>7 DEF IdsApart, Creates, Fetches
  <1>4. PackagesAreBuilds'
    <2>1. \A s \in Stems : AtMostOne(packages'[s])
                           /\ \A o \in packages'[s] : BuiltUnder(named', s, o)
      BY <1>1 DEF IInv, PackagesAreBuilds
    <2>2. ASSUME NEW q \in Processes, job'[q].op = "create"
          PROVE  /\ AtMostOne(job'[q].osp)
                 /\ \A o \in job'[q].osp : BuiltUnder(named', Stem[job'[q].name], o)
                 /\ pc'[q] \in {"packing", "writing", "extracting"} => job'[q].osp # {}
      <3>1. CASE q = p
        BY <2>2, <3>1, <1>1, <1>a DEF IInv, PackagesAreBuilds, Creates, Fetches, AtMostOne
      <3>2. CASE q # p
        BY <1>1, <2>2, <3>2 DEF IInv, PackagesAreBuilds, Creates
      <3> QED BY <3>1, <3>2
    <2> QED BY <2>1, <2>2 DEF PackagesAreBuilds, Creates
  <1>5. StoreIsSane'
    BY <1>1, <1>e, <1>c, <1>d, <1>f, <1>a, <1>h DEF id, AtMostOne, IInv, StoreIsSane,
         Creates, Fetches, Runs
  <1>6. InstalledAsPublished'
    <2>1. ASSUME NEW x \in Ids, NEW app \in catalog[x] PROVE dirs'[x] \subseteq Unpacked(app.osp)
      <3>1. CASE x = id
        BY <1>1, <1>h, <1>c, <1>d, <3>1 DEF id
      <3>2. CASE x # id
        BY <1>1, <3>2 DEF IInv, InstalledAsPublished, id
      <3> QED BY <3>1, <3>2
    <2> QED BY <1>1, <2>1 DEF InstalledAsPublished
  <1>7. OwnDirs'
    <2>1. ASSUME NEW q \in Processes, Creates(q)'
          PROVE  IF pc'[q] = "extracting"
                 THEN \A o \in job'[q].osp : dirs'[job'[q].id] \subseteq Unpacked(o)
                 ELSE dirs'[job'[q].id] = {}
      <3>1. CASE q = p
        BY <1>1, <1>c, <2>1, <3>1 DEF Creates, id
      <3>2. CASE q # p
        <4>1. job'[q] = job[q] /\ pc'[q] = pc[q] /\ Creates(q) /\ job[q].id \in Ids \ {id}
          BY <1>1, <1>e, <2>1, <3>2 DEF IInv, Shapes, Creates
        <4>2. dirs'[job[q].id] = dirs[job[q].id]
          BY <1>1, <4>1 DEF id
        <4> QED BY <4>1, <4>2 DEF IInv, OwnDirs
      <3> QED BY <3>1, <3>2
    <2> QED BY <2>1 DEF OwnDirs, Creates
  <1>8. NamedDirs'
    <2>1. ASSUME NEW x \in Ids, NEW n \in named[x] PROVE FilesUnder(named, Stem[n], dirs'[x])
      <3>1. CASE x = id
        BY <1>1, <1>h, <1>c, <1>d, <3>1 DEF id
      <3>2. CASE x # id
        BY <1>1, <3>2 DEF IInv, NamedDirs, id
      <3> QED BY <3>1, <3>2
    <2>2. named' = named
      BY <1>1
    <2> QED BY <2>1, <2>2 DEF NamedDirs
  <1>9. GeneratedStay'
    <2>1. ASSUME NEW a \in announced', a.how = "create"
          PROVE  /\ a.id \in Ids /\ named[a.id] # {}
                 /\ \A q \in Processes : ~(Creates(q)' /\ job'[q].id = a.id)
                 /\ \A name \in {"app.wasm", "manifest.json"} : Lookup(dirs'[a.id], name) # {}
      <3>1. CASE a \in announced
        <4>1. a.id \in Ids \ {id}
          BY <1>f, <2>1, <3>1 DEF IInv, GeneratedStay
        <4>2. \A q \in Processes : Creates(q)' => Creates(q) /\ job'[q] = job[q]
          BY <1>1 DEF Creates
        <4> QED BY <1>1, <2>1, <3>1, <4>1, <4>2 DEF IInv, GeneratedStay, id, Creates
      <3>2. CASE a = [how |-> job[p].op, id |-> id]
        <4>1. Creates(p) /\ a.id = id
          BY <2>1, <3>2 DEF Creates
        <4>2. \A q \in Processes : Creates(q)' => q # p /\ Creates(q) /\ job'[q] = job[q]
          BY <1>1 DEF Creates
        <4>3. \A q \in Processes : ~(Creates(q)' /\ job'[q].id = id)
          BY <1>e, <4>2
        <4> QED BY <1>1, <1>c, <1>g, <1>h, <4>1, <4>3 DEF id
      <3> QED BY <1>1, <2>1, <3>1, <3>2 DEF id
    <2>2. named' = named
      BY <1>1
    <2> QED BY <2>1, <2>2 DEF GeneratedStay, Creates
  <1>10. MatchesLast'
    <2> SUFFICES ASSUME NEW q \in Processes, Runs(q)'
                 PROVE  \E i \in Ids :
                          /\ ManifestOf(job'[q].manifest, i)
                          /\ IsOf(job[q].id, i)'
                          /\ pc'[q] \in {"running", "hung"} => job'[q].wasm = {<<i>>}
      BY DEF MatchesLast, Runs, IsOf, Creates
    <2>1. q # p /\ job'[q] = job[q] /\ pc'[q] = pc[q] /\ job[q].id \in Ids
      BY <1>1 DEF IInv, Shapes, Runs, Creates, Fetches
    <2>2. PICK i \in Ids :
            /\ ManifestOf(job[q].manifest, i) /\ IsOf(job[q].id, i)
            /\ pc[q] \in {"running", "hung"} => job[q].wasm = {<<i>>}
      BY <2>1 DEF IInv, MatchesLast, Runs
    <2>3. IsOf(job[q].id, i)'
      <3>1. \A r \in Processes : Creates(r)' /\ job'[r].id = job[q].id =>
              /\ pc'[r] = "extracting"
              /\ \A o \in job'[r].osp : AllOf(Unpacked(o), i)
        BY <1>1, <2>2 DEF IsOf, Creates, Fetches, Runs
      <3>2. AllOf(dirs'[job[q].id], i)
        <4>1. CASE job[q].id # id
          BY <1>1, <2>1, <2>2, <4>1 DEF IsOf, id
        <4>2. CASE job[q].id = id /\ Creates(p)
          BY <1>0, <1>1, <1>h, <1>c, <2>2, <4>2 DEF IsOf, AllOf, id
        <4>3. CASE job[q].id = id /\ Fetches(p)
          BY <1>1, <1>h, <1>d, <2>2, <4>3 DEF IsOf, AllOf, id
        <4> QED BY <1>1, <4>1, <4>2, <4>3
      <3> QED BY <1>1, <2>1, <2>2, <3>1, <3>2 DEF IsOf, Creates
    <2> QED BY <2>1, <2>2, <2>3 DEF IsOf, Creates
  <1> QED BY <1>2, <1>3, <1>4, <1>5, <1>6, <1>7, <1>8, <1>9, <1>10 DEF IInv

\* Who installs was told of an app that is published.
LEMMA InstallIInv ==
  ASSUME IInv, NEW p \in Processes,
         NEW how \in {"install", "fetch"}, Install(p, how)
  PROVE  IInv'
  <1>0. PICK id \in Store!Published :
          Start(p, "downloading", [op |-> how, id |-> id, osp |-> {}])
    BY DEF Install
  <1>1. /\ \A q \in Processes \ {p} : pc'[q] = pc[q] /\ job'[q] = job[q]
        /\ catalog[id] # {} /\ id \in Ids
        /\ pc[p] = "prompt" /\ pc'[p] = "downloading"
        /\ job'[p] = [op |-> how, id |-> id, osp |-> {}]
        /\ DOMAIN pc' = Processes /\ DOMAIN job' = Processes
        /\ UNCHANGED <<catalog, packages, dirs, saved, named, announced>>
    BY <1>0 DEF IInv, Shapes, Creates, Fetches, Runs, Install, Start, Goto,
         Store!Published
  <1>a. /\ job'[p].op \in {"install", "fetch"} /\ job'[p].id = id /\ job'[p].osp = {}
        /\ DOMAIN job'[p] = {"op", "id", "osp"}
    BY <1>1
  <1>2. Shapes'
    BY <1>1, <1>a DEF IInv, Shapes, Creates, Fetches, Runs
  <1>3. IdsApart'
    <2>1. \A q \in Processes : Creates(q)' => Creates(q) /\ job'[q] = job[q]
      BY <1>1, <1>a DEF Creates
    <2>2. \A q \in Processes : Creates(q)' => named'[job'[q].id] = {job'[q].name}
      BY <1>1, <2>1 DEF IInv, IdsApart
    <2>3. \A q, r \in Processes :
            Creates(q)' /\ Creates(r)' /\ job'[q].id = job'[r].id => q = r
      BY <2>1 DEF IInv, IdsApart
    <2>4. \A q \in Processes : Fetches(q)' => catalog'[job'[q].id] # {}
      BY <1>1, <1>a DEF IInv, IdsApart, Fetches
    <2>5. \A x \in Ids : /\ named'[x] = {} \/ catalog'[x] = {}
                         /\ named'[x] = {} /\ catalog'[x] = {} => dirs'[x] = {}
                         /\ AtMostOne(named'[x]) /\ named'[x] \subseteq Names
      BY <1>1 DEF IInv, IdsApart, AtMostOne
    <2> QED BY <2>2, <2>3, <2>4, <2>5 DEF IdsApart, Creates, Fetches
  <1>4. PackagesAreBuilds'
    BY <1>1, <1>a DEF IInv, PackagesAreBuilds, Creates, Fetches, Runs
  <1>5. StoreIsSane'
    <2>1. \A x \in Ids : AtMostOne(catalog'[x]) /\ \A a \in catalog'[x] : OneBuild(a.osp)
      BY <1>1, <1>a DEF IInv, StoreIsSane, AtMostOne
    <2>2. ASSUME NEW x \in Ids
          PROVE  AtMostOne(saved'[x]) /\ \A o \in saved'[x] : FromStore(catalog'[x], o)
      BY <1>1, <1>a DEF IInv, StoreIsSane, AtMostOne
    <2>3. \A q \in Processes : job'[q].op = "publish" => \A o \in job'[q].osp : OneBuild(o)
      BY <1>1, <1>a DEF IInv, StoreIsSane, Fetches
    <2>4. ASSUME NEW q \in Processes, Fetches(q)'
          PROVE  /\ AtMostOne(job'[q].osp)
                 /\ \A o \in job'[q].osp : FromStore(catalog'[job'[q].id], o)
                 /\ pc'[q] = "saving" => job'[q].osp # {}
      <3>1. CASE q = p
        BY <1>1, <1>a, <2>4, <3>1 DEF IInv, StoreIsSane, Fetches, AtMostOne
      <3>2. CASE q # p
        BY <1>1, <1>a, <2>4, <3>2 DEF IInv, StoreIsSane, Fetches
      <3> QED BY <3>1, <3>2
    <2> QED BY <2>1, <2>2, <2>3, <2>4 DEF StoreIsSane, Fetches
  <1>6. InstalledAsPublished'
    BY <1>1, <1>a DEF IInv, InstalledAsPublished
  <1>7. OwnDirs'
    BY <1>1, <1>a DEF IInv, OwnDirs, Creates, Fetches, Runs
  <1>8. NamedDirs'
    BY <1>1, <1>a DEF IInv, NamedDirs
  <1>9. GeneratedStay'
    BY <1>1, <1>a DEF IInv, GeneratedStay, Creates, Fetches, Runs
  <1>10. MatchesLast'
    BY <1>1, <1>a, MatchesStay DEF IInv, Shapes, Creates, Fetches
  <1> QED BY <1>2, <1>3, <1>4, <1>5, <1>6, <1>7, <1>8, <1>9, <1>10 DEF IInv

\* What is downloaded is the package published, or an error without files.
LEMMA DownloadIInv ==
  ASSUME IInv, NEW p \in Processes,
         Download(p)
  PROVE  IInv'
  <1>0. PICK body \in {app.osp : app \in catalog[job[p].id]} \cup {ErrorBody} :
          job' = [job EXCEPT ![p].osp = {body}]
    BY DEF Download
  <1>1. /\ \A q \in Processes \ {p} : pc'[q] = pc[q] /\ job'[q] = job[q]
        /\ Fetches(p) /\ pc[p] = "downloading" /\ pc'[p] = "saving"
        /\ job'[p].op = job[p].op /\ job'[p].id = job[p].id /\ DOMAIN job'[p] = DOMAIN job[p]
        /\ job'[p].osp = {body}
        /\ DOMAIN pc' = Processes /\ DOMAIN job' = Processes
        /\ UNCHANGED <<catalog, packages, dirs, saved, named, announced>>
    BY <1>0 DEF IInv, Shapes, Creates, Fetches, Runs, Download, At, Goto
  <1>a. FromStore(catalog[job[p].id], body)
    <2>1. catalog[job[p].id] # {} /\ job[p].id \in Ids
      BY <1>1 DEF IInv, IdsApart, Shapes
    <2>2. CASE body = ErrorBody
      BY <2>1, <2>2, EmptyArchives DEF FromStore
    <2>3. ASSUME NEW app \in catalog[job[p].id], body = app.osp
          PROVE  FromStore(catalog[job[p].id], body)
      BY <2>1, <2>3 DEF IInv, StoreIsSane, AtMostOne, OneBuild, FromStore
    <2> QED BY <2>2, <2>3
  <1>2. Shapes'
    BY <1>1, <1>a DEF AtMostOne, IInv, Shapes, Creates, Fetches, Runs
  <1>3. IdsApart'
    BY <1>1, <1>a DEF AtMostOne, IInv, IdsApart, Creates, Fetches, Runs, AtMostOne
  <1>4. PackagesAreBuilds'
    BY <1>1, <1>a DEF AtMostOne, IInv, PackagesAreBuilds, Creates, Fetches, Runs
  <1>5. StoreIsSane'
    BY <1>1, <1>a DEF AtMostOne, IInv, StoreIsSane, Creates, Fetches, Runs
  <1>6. InstalledAsPublished'
    BY <1>1, <1>a DEF AtMostOne, IInv, InstalledAsPublished
  <1>7. OwnDirs'
    BY <1>1, <1>a DEF AtMostOne, IInv, OwnDirs, Creates, Fetches, Runs
  <1>8. NamedDirs'
    BY <1>1, <1>a DEF AtMostOne, IInv, NamedDirs
  <1>9. GeneratedStay'
    BY <1>1, <1>a DEF AtMostOne, IInv, GeneratedStay, Creates, Fetches, Runs
  <1>10. MatchesLast'
    BY <1>1, MatchesStay DEF IInv, Shapes, Creates, Fetches
  <1> QED BY <1>2, <1>3, <1>4, <1>5, <1>6, <1>7, <1>8, <1>9, <1>10 DEF IInv

\* Half a download unpacks to nothing else than the download.
LEMMA OpenSavedIInv ==
  ASSUME IInv, NEW p \in Processes,
         OpenSaved(p)
  PROVE  IInv'
  <1>1. /\ \A q \in Processes \ {p} : pc'[q] = pc[q] /\ job'[q] = job[q]
        /\ Fetches(p) /\ pc[p] = "saving" /\ pc'[p] = "filling" /\ job' = job
        /\ job[p].id \in Ids
        /\ saved'[job[p].id] = {Truncated(The(job[p].osp))}
        /\ \A x \in Ids \ {job[p].id} : saved'[x] = saved[x]
        /\ DOMAIN pc' = Processes /\ DOMAIN job' = Processes /\ DOMAIN saved' = DOMAIN saved
        /\ UNCHANGED <<catalog, packages, dirs, named, announced>>
    BY DEF IInv, Shapes, Creates, Fetches, Runs, OpenSaved, At, Goto
  <1>a. FromStore(catalog[job[p].id], Truncated(The(job[p].osp)))
    <2>1. PICK osp \in job[p].osp : job[p].osp = {osp}
      BY <1>1 DEF IInv, StoreIsSane, AtMostOne
    <2>2. The(job[p].osp) = osp
      BY <2>1 DEF The
    <2>3. FromStore(catalog[job[p].id], osp)
      BY <1>1, <2>1 DEF IInv, StoreIsSane
    <2>4. IsArchive(Truncated(osp)) /\ Unpacked(Truncated(osp)) = Unpacked(osp)
      BY <2>3, TruncatedArchives DEF FromStore
    <2> QED BY <2>2, <2>3, <2>4 DEF FromStore
  <1>2. Shapes'
    BY <1>1, <1>a DEF AtMostOne, IInv, Shapes, Creates, Fetches, Runs
  <1>3. IdsApart'
    BY <1>1, <1>a DEF AtMostOne, IInv, IdsApart, Creates, Fetches, Runs, AtMostOne
  <1>4. PackagesAreBuilds'
    BY <1>1, <1>a DEF AtMostOne, IInv, PackagesAreBuilds, Creates, Fetches, Runs
  <1>5. StoreIsSane'
    BY <1>1, <1>a DEF AtMostOne, IInv, StoreIsSane, Creates, Fetches, Runs
  <1>6. InstalledAsPublished'
    BY <1>1, <1>a DEF AtMostOne, IInv, InstalledAsPublished
  <1>7. OwnDirs'
    BY <1>1, <1>a DEF AtMostOne, IInv, OwnDirs, Creates, Fetches, Runs
  <1>8. NamedDirs'
    BY <1>1, <1>a DEF AtMostOne, IInv, NamedDirs
  <1>9. GeneratedStay'
    BY <1>1, <1>a DEF AtMostOne, IInv, GeneratedStay, Creates, Fetches, Runs
  <1>10. MatchesLast'
    BY <1>1, MatchesStay DEF IInv, Shapes, Creates, Fetches
  <1> QED BY <1>2, <1>3, <1>4, <1>5, <1>6, <1>7, <1>8, <1>9, <1>10 DEF IInv

\* What osctl announces are no generated apps.
LEMMA FillSavedIInv ==
  ASSUME IInv, NEW p \in Processes,
         FillSaved(p)
  PROVE  IInv'
  <1>1. /\ \A q \in Processes \ {p} : pc'[q] = pc[q] /\ job'[q] = job[q]
        /\ Fetches(p) /\ pc[p] = "filling"
        /\ job[p].id \in Ids
        /\ \/ pc'[p] = "prompt" /\ job'[p].op = "none"
           \/ pc'[p] = "unpacking" /\ job'[p] = job[p]
        /\ announced' \subseteq announced \cup {[how |-> job[p].op, id |-> job[p].id]}
        /\ saved'[job[p].id] = job[p].osp
        /\ \A x \in Ids \ {job[p].id} : saved'[x] = saved[x]
        /\ DOMAIN pc' = Processes /\ DOMAIN job' = Processes /\ DOMAIN saved' = DOMAIN saved
        /\ UNCHANGED <<catalog, packages, dirs, named>>
    BY DEF IInv, Shapes, Creates, Fetches, Runs, FillSaved, At, Goto, Stop, Announce,
         NoJob
  <1>a. \A a \in announced' : a.how = "create" => a \in announced
    BY <1>1 DEF Fetches
  <1>b. \A q \in Processes : \/ pc'[q] = pc[q] /\ job'[q] = job[q]
                             \/ q = p /\ pc'[q] = "unpacking" /\ job'[q] = job[q]
                             \/ q = p /\ pc'[q] = "prompt" /\ job'[q].op = "none"
    <2> SUFFICES ASSUME NEW q \in Processes
                 PROVE  \/ pc'[q] = pc[q] /\ job'[q] = job[q]
                        \/ q = p /\ pc'[q] = "unpacking" /\ job'[q] = job[q]
                        \/ q = p /\ pc'[q] = "prompt" /\ job'[q].op = "none"
      OBVIOUS
    <2>1. CASE q = p
      BY <1>1, <2>1
    <2>2. CASE q # p
      BY <1>1, <2>2
    <2> QED BY <2>1, <2>2
  <1>2. Shapes'
    BY <1>1, <1>a, <1>b DEF AtMostOne, IInv, Shapes, Creates, Fetches, Runs
  <1>3. IdsApart'
    BY <1>1, <1>a, <1>b DEF AtMostOne, IInv, IdsApart, Creates, Fetches, Runs, AtMostOne
  <1>4. PackagesAreBuilds'
    BY <1>1, <1>a, <1>b DEF AtMostOne, IInv, PackagesAreBuilds, Creates, Fetches, Runs
  <1>5. StoreIsSane'
    BY <1>1, <1>a, <1>b DEF AtMostOne, IInv, StoreIsSane, Creates, Fetches, Runs
  <1>6. InstalledAsPublished'
    BY <1>1, <1>a, <1>b DEF AtMostOne, IInv, InstalledAsPublished
  <1>7. OwnDirs'
    BY <1>1, <1>a, <1>b DEF AtMostOne, IInv, OwnDirs, Creates, Fetches, Runs
  <1>8. NamedDirs'
    BY <1>1, <1>a, <1>b DEF AtMostOne, IInv, NamedDirs
  <1>9. GeneratedStay'
    BY <1>1, <1>a, <1>b DEF AtMostOne, IInv, GeneratedStay, Creates, Fetches, Runs
  <1>10. MatchesLast'
    BY <1>1, MatchesStay DEF IInv, Shapes, Creates, Fetches
  <1> QED BY <1>2, <1>3, <1>4, <1>5, <1>6, <1>7, <1>8, <1>9, <1>10 DEF IInv

\* What osctl signs and uploads is of one build, or unpacks to nothing.
LEMMA ReadPackageIInv ==
  ASSUME IInv, NEW p \in Processes,
         ReadPackage(p)
  PROVE  IInv'
  <1>a. PICK stem \in Stems, key \in Keys : \E osp \in packages[stem] :
          Start(p, "uploading",
                [op |-> "publish", key |-> key,
                 osp |-> {IF key = "" THEN osp
                          ELSE AddSignature(osp, SignContent(key, Wasm(osp), ManifestJson(osp)))}])
    BY DEF ReadPackage
  <1>0. PICK osp \in packages[stem] :
          Start(p, "uploading",
                [op |-> "publish", key |-> key,
                 osp |-> {IF key = "" THEN osp
                          ELSE AddSignature(osp, SignContent(key, Wasm(osp), ManifestJson(osp)))}])
    BY <1>a
  <1> DEFINE body == IF key = "" THEN osp
                     ELSE AddSignature(osp, SignContent(key, Wasm(osp), ManifestJson(osp)))
  <1>b. OneBuild(body)
    <2>1. BuiltUnder(named, stem, osp)
      BY DEF IInv, PackagesAreBuilds
    <2>2. OneBuild(osp)
      BY <2>1 DEF BuiltUnder, Packed, OneBuild
    <2> QED BY <2>2, EmptyArchives DEF OneBuild
  <1> HIDE DEF body
  <1>1. /\ \A q \in Processes \ {p} : pc'[q] = pc[q] /\ job'[q] = job[q]
        /\ pc[p] = "prompt" /\ pc'[p] = "uploading"
        /\ job'[p].op = "publish" /\ job'[p].osp = {body}
        /\ DOMAIN pc' = Processes /\ DOMAIN job' = Processes
        /\ UNCHANGED <<catalog, packages, dirs, saved, named, announced>>
    BY <1>0 DEF IInv, Shapes, Creates, Fetches, Runs, ReadPackage, Start, Goto, body
  <1>2. Shapes'
    BY <1>1, <1>b DEF IInv, Shapes, Creates, Fetches, Runs
  <1>3. IdsApart'
    BY <1>1, <1>b DEF IInv, IdsApart, Creates, Fetches, Runs, AtMostOne
  <1>4. PackagesAreBuilds'
    BY <1>1, <1>b DEF IInv, PackagesAreBuilds, Creates, Fetches, Runs
  <1>5. StoreIsSane'
    BY <1>1, <1>b DEF IInv, StoreIsSane, Creates, Fetches, Runs
  <1>6. InstalledAsPublished'
    BY <1>1, <1>b DEF IInv, InstalledAsPublished
  <1>7. OwnDirs'
    BY <1>1, <1>b DEF IInv, OwnDirs, Creates, Fetches, Runs
  <1>8. NamedDirs'
    BY <1>1, <1>b DEF IInv, NamedDirs
  <1>9. GeneratedStay'
    BY <1>1, <1>b DEF IInv, GeneratedStay, Creates, Fetches, Runs
  <1>10. MatchesLast'
    BY <1>1, MatchesStay DEF IInv, Shapes, Creates, Fetches
  <1> QED BY <1>2, <1>3, <1>4, <1>5, <1>6, <1>7, <1>8, <1>9, <1>10 DEF IInv

\* Nothing is yet under the id of an upload.
LEMMA UploadIInv ==
  ASSUME IInv, NEW p \in Processes,
         Upload(p)
  PROVE  IInv'
  <1>0. PICK osp \in job[p].osp, id \in Ids :
          /\ Fresh(id)
          /\ Store!Publish(id, [osp |-> osp, name |-> Head(ManifestJson(osp)).name,
                                publicKey |-> job[p].key])
    BY DEF Upload
  <1> DEFINE app == [osp |-> osp, name |-> Head(ManifestJson(osp)).name,
                     publicKey |-> job[p].key]
  <1>1. /\ \A q \in Processes \ {p} : pc'[q] = pc[q] /\ job'[q] = job[q]
        /\ pc[p] = "uploading" /\ pc'[p] = "prompt" /\ job[p].op = "publish" /\ job'[p].op = "none"
        /\ id \in Ids /\ named[id] = {} /\ catalog[id] = {}
        /\ catalog'[id] = {app} /\ \A x \in Ids \ {id} : catalog'[x] = catalog[x]
        /\ DOMAIN pc' = Processes /\ DOMAIN job' = Processes /\ DOMAIN catalog' = DOMAIN catalog
        /\ UNCHANGED <<packages, dirs, saved, named, announced>>
    BY <1>0 DEF IInv, Shapes, Creates, Fetches, Runs, Upload, At, Goto, Stop, NoJob,
         Fresh, Store!Publish
  <1>a. app.osp = osp /\ OneBuild(osp)
    BY <1>0, <1>1 DEF IInv, StoreIsSane
  <1> HIDE DEF app
  <1>b. dirs[id] = {} /\ saved[id] = {}
    BY <1>1 DEF IInv, IdsApart, StoreIsSane, FromStore
  <1>c. \A q \in Processes : /\ Fetches(q) => job[q].id \in Ids \ {id}
                             /\ Creates(q) => job[q].id \in Ids \ {id}
    <2>1. ASSUME NEW q \in Processes, Creates(q) PROVE job[q].id \in Ids \ {id}
      <3>1. job[q].id \in Ids /\ named[job[q].id] = {job[q].name}
        BY <2>1 DEF IInv, Shapes, IdsApart
      <3> QED BY <1>1, <3>1
    <2>2. ASSUME NEW q \in Processes, Fetches(q) PROVE job[q].id \in Ids \ {id}
      BY <1>1, <2>2 DEF IInv, Shapes, IdsApart
    <2> QED BY <2>1, <2>2
  <1>2. Shapes'
    BY <1>1, <1>a, <1>b, <1>c DEF AtMostOne, IInv, Shapes, Creates, Fetches, Runs
  <1>3. IdsApart'
    <2>1. \A x \in Ids :
            /\ named[x] = {} \/ catalog'[x] = {}
            /\ named[x] = {} /\ catalog'[x] = {} => dirs[x] = {}
            /\ AtMostOne(named[x]) /\ named[x] \subseteq Names
      BY <1>1, <1>b DEF IInv, IdsApart
    <2>2. \A q \in Processes : /\ Creates(q)' => Creates(q) /\ job'[q] = job[q]
                               /\ Fetches(q)' => Fetches(q) /\ job'[q] = job[q]
      BY <1>1 DEF Creates, Fetches
    <2>3. \A q \in Processes : Fetches(q)' => catalog'[job'[q].id] # {}
      BY <1>1, <1>c, <2>2 DEF IInv, IdsApart, Fetches
    <2>4. \A q \in Processes : Creates(q)' => named[job'[q].id] = {job'[q].name}
      BY <2>2 DEF IInv, IdsApart, Creates
    <2>5. \A q, r \in Processes :
            Creates(q)' /\ Creates(r)' /\ job'[q].id = job'[r].id => q = r
      BY <2>2 DEF IInv, IdsApart, Creates
    <2> QED BY <1>1, <2>1, <2>3, <2>4, <2>5 DEF IdsApart, Creates, Fetches
  <1>4. PackagesAreBuilds'
    BY <1>1, <1>a, <1>b, <1>c DEF AtMostOne, IInv, PackagesAreBuilds, Creates,
         Fetches, Runs
  <1>5. StoreIsSane'
    <2>1. \A x \in Ids : AtMostOne(catalog'[x]) /\ \A a \in catalog'[x] : OneBuild(a.osp)
      BY <1>1, <1>a, <1>b, <1>c DEF IInv, StoreIsSane, AtMostOne
    <2>2. ASSUME NEW x \in Ids
          PROVE  AtMostOne(saved'[x]) /\ \A o \in saved'[x] : FromStore(catalog'[x], o)
      BY <1>1, <1>a, <1>b, <1>c DEF IInv, StoreIsSane, AtMostOne
    <2>3. \A q \in Processes : job'[q].op = "publish" => \A o \in job'[q].osp : OneBuild(o)
      BY <1>1, <1>a, <1>b, <1>c DEF IInv, StoreIsSane, Fetches
    <2>4. ASSUME NEW q \in Processes, Fetches(q)'
          PROVE  /\ AtMostOne(job'[q].osp)
                 /\ \A o \in job'[q].osp : FromStore(catalog'[job'[q].id], o)
                 /\ pc'[q] = "saving" => job'[q].osp # {}
      <3>1. CASE q = p
        BY <1>1, <1>a, <1>b, <1>c, <2>4, <3>1 DEF IInv, StoreIsSane, Fetches, AtMostOne
      <3>2. CASE q # p
        BY <1>1, <1>a, <1>b, <1>c, <2>4, <3>2 DEF IInv, StoreIsSane, Fetches
      <3> QED BY <3>1, <3>2
    <2> QED BY <2>1, <2>2, <2>3, <2>4 DEF StoreIsSane, Fetches
  <1>6. InstalledAsPublished'
    <2>1. ASSUME NEW x \in Ids, NEW a \in catalog'[x] PROVE dirs[x] \subseteq Unpacked(a.osp)
      BY <1>1, <1>b DEF IInv, InstalledAsPublished
    <2> QED BY <1>1, <2>1 DEF InstalledAsPublished
  <1>7. OwnDirs'
    BY <1>1, <1>a, <1>b, <1>c DEF AtMostOne, IInv, OwnDirs, Creates, Fetches, Runs
  <1>8. NamedDirs'
    BY <1>1, <1>a, <1>b, <1>c DEF AtMostOne, IInv, NamedDirs
  <1>9. GeneratedStay'
    BY <1>1, <1>a, <1>b, <1>c DEF AtMostOne, IInv, GeneratedStay, Creates, Fetches, Runs
  <1>10. MatchesLast'
    <2> SUFFICES ASSUME NEW q \in Processes, Runs(q)'
                 PROVE  \E i \in Ids :
                          /\ ManifestOf(job'[q].manifest, i)
                          /\ IsOf(job[q].id, i)'
                          /\ pc'[q] \in {"running", "hung"} => job'[q].wasm = {<<i>>}
      BY DEF MatchesLast, Runs, IsOf, Creates
    <2>1. q # p /\ job'[q] = job[q] /\ pc'[q] = pc[q] /\ job[q].id \in Ids
      BY <1>1 DEF IInv, Shapes, Runs, Creates, Fetches
    <2>2. PICK i \in Ids :
            /\ ManifestOf(job[q].manifest, i) /\ IsOf(job[q].id, i)
            /\ pc[q] \in {"running", "hung"} => job[q].wasm = {<<i>>}
      BY <2>1 DEF IInv, MatchesLast, Runs
    <2>3. IsOf(job[q].id, i)'
      <3>1. \A r \in Processes : Creates(r)' /\ job'[r].id = job[q].id =>
              /\ pc'[r] = "extracting"
              /\ \A o \in job'[r].osp : AllOf(Unpacked(o), i)
        BY <1>1, <2>2 DEF IsOf, Creates, Fetches, Runs
      <3>2. job[q].id # id
        BY <1>1, <2>2 DEF IsOf
      <3> QED BY <1>1, <2>1, <2>2, <3>1, <3>2 DEF IsOf, Creates
    <2> QED BY <2>1, <2>2, <2>3 DEF IsOf, Creates
  <1> QED BY <1>2, <1>3, <1>4, <1>5, <1>6, <1>7, <1>8, <1>9, <1>10 DEF IInv

\* The one app matched has a manifest of a build that its directory keeps.
LEMMA MatchIInv ==
  ASSUME IInv, NEW p \in Processes,
         NEW names, Match(p, names)
  PROVE  IInv'
  <1>0. PICK id \in Ids :
          /\ Matched(names) = {id}
          /\ Start(p, "matched",
                   [op |-> "run", id |-> id, manifest |-> The(Lookup(dirs[id], "manifest.json")),
                    wasm |-> {}])
    BY DEF Match
  <1>1. /\ \A q \in Processes \ {p} : pc'[q] = pc[q] /\ job'[q] = job[q]
        /\ id \in Ids /\ Matched(names) = {id}
        /\ pc[p] = "prompt" /\ pc'[p] = "matched"
        /\ job'[p] = [op |-> "run", id |-> id,
                     manifest |-> The(Lookup(dirs[id], "manifest.json")), wasm |-> {}]
        /\ DOMAIN pc' = Processes /\ DOMAIN job' = Processes
        /\ UNCHANGED <<catalog, packages, dirs, saved, named, announced>>
    BY <1>0 DEF IInv, Shapes, Creates, Fetches, Runs, Match, Start, Goto
  <1>a. PICK i \in Ids, m \in Names, h \in BOOLEAN :
          dirs[id] \subseteq Files(i, m, h) /\ IsOf(id, i)
    <2>1. Lookup(dirs[id], "manifest.json") # {}
      BY <1>1 DEF Matched
    <2>2. dirs[id] # {}
      BY <2>1 DEF Lookup
    <2> QED BY <2>2, DirsOfBuilds
  <1>b. The(Lookup(dirs[id], "manifest.json")) = <<Manifest(i, m, h)>>
    <2>1. Lookup(dirs[id], "manifest.json") # {}
      BY <1>1 DEF Matched
    <2>2. \A d \in Lookup(dirs[id], "manifest.json") : d = <<Manifest(i, m, h)>>
      <3> SUFFICES ASSUME NEW d \in Lookup(dirs[id], "manifest.json")
                   PROVE  d = <<Manifest(i, m, h)>>
        OBVIOUS
      <3>1. PICK f \in dirs[id] : f.path = <<"manifest.json">> /\ d = f.data
        BY DEF Lookup
      <3>2. f \in Files(i, m, h)
        BY <1>a, <3>1
      <3> QED BY <3>1, <3>2, FilesFacts
    <2>3. Lookup(dirs[id], "manifest.json") = {<<Manifest(i, m, h)>>}
      BY <2>1, <2>2
    <2> QED BY <2>3 DEF The
  <1>c. /\ job'[p].op = "run" /\ job'[p].id = id /\ job'[p].manifest = <<Manifest(i, m, h)>>
        /\ DOMAIN job'[p] = {"op", "id", "manifest", "wasm"}
    BY <1>1, <1>b
  <1>2. Shapes'
    BY <1>1, <1>c DEF IInv, Shapes, Creates, Fetches, Runs
  <1>3. IdsApart'
    BY <1>1, <1>c DEF IInv, IdsApart, Creates, Fetches, Runs, AtMostOne
  <1>4. PackagesAreBuilds'
    BY <1>1, <1>c DEF IInv, PackagesAreBuilds, Creates, Fetches, Runs
  <1>5. StoreIsSane'
    BY <1>1, <1>c DEF IInv, StoreIsSane, Creates, Fetches, Runs
  <1>6. InstalledAsPublished'
    BY <1>1, <1>c DEF IInv, InstalledAsPublished
  <1>7. OwnDirs'
    BY <1>1, <1>c DEF IInv, OwnDirs, Creates, Fetches, Runs
  <1>8. NamedDirs'
    BY <1>1, <1>c DEF IInv, NamedDirs
  <1>9. GeneratedStay'
    BY <1>1, <1>c DEF IInv, GeneratedStay, Creates, Fetches, Runs
  <1>10. MatchesLast'
    <2>1. ASSUME NEW j \in Ids, NEW x, IsOf(x, j) PROVE IsOf(x, j)'
      <3>1. \A r \in Processes : Creates(r)' =>
              Creates(r) /\ pc'[r] = pc[r] /\ job'[r] = job[r]
        BY <1>1, <1>c DEF Creates
      <3> QED BY <1>1, <2>1, <3>1 DEF IsOf, Creates
    <2>2. ASSUME NEW q \in Processes, Runs(q)'
          PROVE  \E j \in Ids : /\ ManifestOf(job'[q].manifest, j)
                                /\ IsOf(job[q].id, j)'
                                /\ pc'[q] \in {"running", "hung"} => job'[q].wasm = {<<j>>}
      <3>1. CASE q = p
        <4>1. ManifestOf(job'[p].manifest, i)
          BY <1>c DEF ManifestOf
        <4>2. IsOf(id, i)'
          BY <1>a, <2>1
        <4> QED BY <1>1, <1>c, <3>1, <4>1, <4>2 DEF IsOf, Creates
      <3>2. CASE q # p
        <4>1. Runs(q) /\ job'[q] = job[q] /\ pc'[q] = pc[q]
          BY <1>1, <2>2, <3>2 DEF Runs
        <4>2. PICK j \in Ids :
                /\ ManifestOf(job[q].manifest, j) /\ IsOf(job[q].id, j)
                /\ pc[q] \in {"running", "hung"} => job[q].wasm = {<<j>>}
          BY <4>1 DEF IInv, MatchesLast
        <4>3. IsOf(job[q].id, j)'
          BY <2>1, <4>1, <4>2 DEF IsOf, Creates
        <4> QED BY <4>1, <4>2, <4>3 DEF IsOf, Creates
      <3> QED BY <3>1, <3>2
    <2> QED BY <2>2 DEF MatchesLast, Runs, IsOf
  <1> QED BY <1>2, <1>3, <1>4, <1>5, <1>6, <1>7, <1>8, <1>9, <1>10 DEF IInv

\* The wasm is read from the directory the manifest came from.
LEMMA StartAppIInv ==
  ASSUME IInv, NEW p \in Processes,
         StartApp(p), ~Stop(p)
  PROVE  IInv'
  <1>1. /\ \A q \in Processes \ {p} : pc'[q] = pc[q] /\ job'[q] = job[q]
        /\ Runs(p) /\ pc[p] = "matched" /\ pc'[p] = "running"
        /\ job'[p].op = job[p].op /\ job'[p].id = job[p].id /\ DOMAIN job'[p] = DOMAIN job[p]
        /\ job'[p].manifest = job[p].manifest
        /\ job'[p].wasm = Lookup(dirs[job[p].id], "app.wasm") /\ job'[p].wasm # {}
        /\ DOMAIN pc' = Processes /\ DOMAIN job' = Processes
        /\ UNCHANGED <<catalog, packages, dirs, saved, named, announced>>
    BY DEF IInv, Shapes, Creates, Fetches, Runs, StartApp, At, Goto
  <1>a. \A i \in Ids : IsOf(job[p].id, i) => job'[p].wasm = {<<i>>}
    <2> SUFFICES ASSUME NEW i \in Ids, IsOf(job[p].id, i) PROVE job'[p].wasm = {<<i>>}
      OBVIOUS
    <2>1. job[p].id \in Ids
      BY <1>1 DEF IInv, Shapes
    <2>2. dirs[job[p].id] # {}
      BY <1>1 DEF Lookup
    <2>3. PICK j \in Ids, m \in Names, h \in BOOLEAN : dirs[job[p].id] \subseteq Files(j, m, h)
      BY <2>1, <2>2, DirsOfBuilds
    <2>4. ASSUME NEW d \in Lookup(dirs[job[p].id], "app.wasm") PROVE d = <<i>>
      <3>1. PICK f \in dirs[job[p].id] : f.path = <<"app.wasm">> /\ d = f.data
        BY DEF Lookup
      <3>2. d = <<j>> /\ Origin(f) = j
        BY <2>3, <3>1, FilesFacts
      <3>3. Origin(f) = i
        BY <3>1 DEF IsOf, AllOf
      <3> QED BY <3>2, <3>3
    <2> QED BY <1>1, <2>4
  <1>2. Shapes'
    BY <1>1 DEF IInv, Shapes, Creates, Fetches, Runs
  <1>3. IdsApart'
    BY <1>1 DEF IInv, IdsApart, Creates, Fetches, Runs, AtMostOne
  <1>4. PackagesAreBuilds'
    BY <1>1 DEF IInv, PackagesAreBuilds, Creates, Fetches, Runs
  <1>5. StoreIsSane'
    BY <1>1 DEF IInv, StoreIsSane, Creates, Fetches, Runs
  <1>6. InstalledAsPublished'
    BY <1>1 DEF IInv, InstalledAsPublished
  <1>7. OwnDirs'
    BY <1>1 DEF IInv, OwnDirs, Creates, Fetches, Runs
  <1>8. NamedDirs'
    BY <1>1 DEF IInv, NamedDirs
  <1>9. GeneratedStay'
    BY <1>1 DEF IInv, GeneratedStay, Creates, Fetches, Runs
  <1>10. MatchesLast'
    <2>1. ASSUME NEW j \in Ids, NEW x, IsOf(x, j) PROVE IsOf(x, j)'
      <3>1. \A r \in Processes : Creates(r)' =>
              Creates(r) /\ pc'[r] = pc[r] /\ job'[r] = job[r]
        BY <1>1 DEF Creates, Runs
      <3> QED BY <1>1, <2>1, <3>1 DEF IsOf, Creates
    <2>2. ASSUME NEW q \in Processes, Runs(q)'
          PROVE  \E j \in Ids : /\ ManifestOf(job'[q].manifest, j)
                                /\ IsOf(job[q].id, j)'
                                /\ pc'[q] \in {"running", "hung"} => job'[q].wasm = {<<j>>}
      <3>1. /\ Runs(q) /\ job'[q].manifest = job[q].manifest /\ job'[q].id = job[q].id
            /\ q # p => pc'[q] = pc[q] /\ job'[q].wasm = job[q].wasm
        BY <1>1, <2>2 DEF Runs
      <3>2. PICK j \in Ids :
              /\ ManifestOf(job[q].manifest, j) /\ IsOf(job[q].id, j)
              /\ pc[q] \in {"running", "hung"} => job[q].wasm = {<<j>>}
        BY <3>1 DEF IInv, MatchesLast
      <3>3. IsOf(job[q].id, j)'
        BY <2>1, <3>1, <3>2 DEF IsOf, Creates
      <3>4. pc'[q] \in {"running", "hung"} => job'[q].wasm = {<<j>>}
        BY <1>1, <1>a, <3>1, <3>2
      <3> QED BY <3>1, <3>2, <3>3, <3>4 DEF IsOf, Creates
    <2> QED BY <2>2 DEF MatchesLast, Runs, IsOf
  <1> QED BY <1>2, <1>3, <1>4, <1>5, <1>6, <1>7, <1>8, <1>9, <1>10 DEF IInv

\* A guest that hangs is the one that was started.
LEMMA AppHangsIInv ==
  ASSUME IInv, NEW p \in Processes,
         AppHangs(p)
  PROVE  IInv'
  <1>1. /\ \A q \in Processes \ {p} : pc'[q] = pc[q]
        /\ Runs(p) /\ pc[p] = "running" /\ pc'[p] = "hung"
        /\ DOMAIN pc' = Processes
        /\ UNCHANGED <<catalog, packages, dirs, saved, named, job, announced>>
    BY DEF IInv, Shapes, Creates, Fetches, Runs, AppHangs, At, Goto
  <1>2. Shapes'
    BY <1>1 DEF IInv, Shapes, Creates, Fetches, Runs
  <1>3. IdsApart'
    BY <1>1 DEF IInv, IdsApart, Creates, Fetches, Runs, AtMostOne
  <1>4. PackagesAreBuilds'
    BY <1>1 DEF IInv, PackagesAreBuilds, Creates, Fetches, Runs
  <1>5. StoreIsSane'
    BY <1>1 DEF IInv, StoreIsSane, Creates, Fetches, Runs
  <1>6. InstalledAsPublished' /\ NamedDirs' /\ GeneratedStay'
    BY <1>1 DEF IInv, InstalledAsPublished, NamedDirs, GeneratedStay, Creates, Fetches, Runs
  <1>7. OwnDirs'
    BY <1>1 DEF IInv, OwnDirs, Creates, Fetches, Runs
  <1>8. MatchesLast'
    <2>1. ASSUME NEW j \in Ids, NEW x, IsOf(x, j) PROVE IsOf(x, j)'
      BY <1>1, <2>1 DEF IsOf, Creates, Runs
    <2>2. ASSUME NEW q \in Processes, Runs(q)
          PROVE  \E j \in Ids : /\ ManifestOf(job[q].manifest, j)
                                /\ IsOf(job[q].id, j)'
                                /\ pc'[q] \in {"running", "hung"} => job[q].wasm = {<<j>>}
      <3>1. PICK j \in Ids :
              /\ ManifestOf(job[q].manifest, j) /\ IsOf(job[q].id, j)
              /\ pc[q] \in {"running", "hung"} => job[q].wasm = {<<j>>}
        BY <2>2 DEF IInv, MatchesLast
      <3>2. IsOf(job[q].id, j)'
        BY <1>1, <2>1, <3>1 DEF IsOf, Creates
      <3> QED BY <1>1, <3>1, <3>2 DEF IsOf, Creates
    <2> QED BY <1>1, <2>2 DEF MatchesLast, Runs, IsOf
  <1> QED BY <1>2, <1>3, <1>4, <1>5, <1>6, <1>7, <1>8 DEF IInv

-------------------------------------------------------------------------------

LEMMA InitIInv == Init => IInv
  <1> SUFFICES ASSUME Init PROVE IInv
    OBVIOUS
  <1>1. /\ \A id \in Ids : catalog[id] = {} /\ dirs[id] = {} /\ saved[id] = {} /\ named[id] = {}
        /\ \A s \in Stems : packages[s] = {}
        /\ \A p \in Processes : pc[p] = "prompt" /\ job[p].op = "none"
        /\ announced = {}
    BY DEF Init, NoJob
  <1>2. Shapes
    BY <1>1 DEF Init, Shapes, Creates, Fetches, Runs
  <1>3. IdsApart
    BY <1>1 DEF IdsApart, AtMostOne, Creates, Fetches
  <1>4. PackagesAreBuilds /\ StoreIsSane
    BY <1>1 DEF PackagesAreBuilds, StoreIsSane, AtMostOne, Creates, Fetches
  <1>5. InstalledAsPublished /\ OwnDirs /\ NamedDirs /\ GeneratedStay /\ MatchesLast
    BY <1>1 DEF InstalledAsPublished, OwnDirs, NamedDirs, GeneratedStay, MatchesLast,
                Creates, Runs
  <1> QED BY <1>2, <1>3, <1>4, <1>5 DEF IInv

LEMMA StutterIInv == IInv /\ UNCHANGED vars => IInv'
  <1> SUFFICES ASSUME IInv, UNCHANGED vars PROVE IInv'
    OBVIOUS
  <1>1. /\ catalog' = catalog /\ packages' = packages /\ dirs' = dirs /\ saved' = saved
        /\ named' = named /\ pc' = pc /\ job' = job /\ announced' = announced
    BY DEF vars
  <1>2. Shapes' /\ IdsApart'
    BY <1>1 DEF IInv, Shapes, IdsApart, Creates, Fetches, Runs
  <1>3. PackagesAreBuilds' /\ StoreIsSane'
    BY <1>1 DEF IInv, PackagesAreBuilds, StoreIsSane, Creates, Fetches
  <1>4. InstalledAsPublished' /\ OwnDirs' /\ NamedDirs' /\ GeneratedStay'
    BY <1>1 DEF IInv, InstalledAsPublished, OwnDirs, NamedDirs, GeneratedStay, Creates
  <1>5. MatchesLast'
    BY <1>1 DEF IInv, MatchesLast, IsOf, Creates, Runs
  <1> QED BY <1>2, <1>3, <1>4, <1>5 DEF IInv

LEMMA NextIInv == IInv /\ [Next]_vars => IInv'
  <1> SUFFICES ASSUME IInv, NEW p \in Processes,
                      \/ Command(p) \/ Generate(p) \/ Extract(p) \/ Fetch(p) \/ Upload(p)
                      \/ StartApp(p) \/ AppEnds(p) \/ AppHangs(p) \/ Fails(p)
               PROVE  IInv'
    BY StutterIInv DEF Next
  <1>1. CASE Command(p)
    <2>1. ASSUME NEW n \in Names, Create(p, n) PROVE IInv'
      BY <2>1, CreateIInv
    <2>2. ASSUME NEW names, Match(p, names) PROVE IInv'
      BY <2>2, MatchIInv
    <2>3. CASE NotOneMatch(p)
      BY <2>3, StutterIInv DEF NotOneMatch
    <2>4. ASSUME NEW how \in {"install", "fetch"}, Install(p, how) PROVE IInv'
      BY <2>4, InstallIInv
    <2> QED BY <1>1, <2>1, <2>2, <2>3, <2>4, ReadPackageIInv DEF Command
  <1>2. CASE Generate(p)
    <2>1. CASE DoesNotCompile(p) /\ Stop(p)
      <3>1. pc[p] # "prompt" /\ UNCHANGED <<catalog, packages, dirs, saved, named, announced>>
        BY <2>1 DEF DoesNotCompile, At
      <3> QED BY <2>1, <3>1, StopIInv
    <2>2. CASE CodeGenerated(p) \/ Compiles(p) \/ CodeFixed(p)
           \/ (DoesNotCompile(p) /\ ~Stop(p))
      BY <2>2, CompileIInv
    <2> QED BY <1>2, <2>1, <2>2, DesignIInv, OpenPackageIInv, ClosePackageIInv DEF Generate
  <1>3. CASE Extract(p)
    BY <1>3, StartExtractIInv, FinishExtractIInv DEF Extract
  <1>4. CASE Fetch(p)
    BY <1>4, DownloadIInv, OpenSavedIInv, FillSavedIInv DEF Fetch
  <1>5. CASE Upload(p)
    BY <1>5, UploadIInv
  <1>6. CASE StartApp(p)
    <2>1. CASE Stop(p)
      <3>1. pc[p] # "prompt" /\ UNCHANGED <<catalog, packages, dirs, saved, named, announced>>
        BY <1>6 DEF StartApp, At
      <3> QED BY <2>1, <3>1, StopIInv
    <2> QED BY <1>6, <2>1, StartAppIInv
  <1>7. CASE AppEnds(p) \/ Fails(p)
    <2>1. /\ Stop(p) /\ pc[p] # "prompt"
          /\ UNCHANGED <<catalog, packages, dirs, saved, named, announced>>
      BY <1>7 DEF AppEnds, Fails, At
    <2> QED BY <2>1, StopIInv
  <1>8. CASE AppHangs(p)
    BY <1>8, AppHangsIInv
  <1> QED BY <1>1, <1>2, <1>3, <1>4, <1>5, <1>6, <1>7, <1>8

\* The invariant holds in every reachable state.
THEOREM Invariance == Spec => []IInv
  BY InitIInv, NextIInv, PTL DEF Spec

-------------------------------------------------------------------------------

(***************************************************************************)
(* For any processes, names, ids and orders, and commands that fail or are *)
(* killed anywhere: no directory under /apps mixes two builds              *)
(* (install_app, handle_install_app).                                      *)
(***************************************************************************)
THEOREM OneBuildPerDir == Spec => []DirsAreOfOneBuild
<1>1. IInv => DirsAreOfOneBuild
  <2> SUFFICES ASSUME IInv, NEW id \in Ids, NEW f \in dirs[id], NEW g \in dirs[id]
               PROVE  Origin(f) = Origin(g)
    BY DEF DirsAreOfOneBuild
  <2>1. PICK i \in Ids, m \in Names, h \in BOOLEAN : dirs[id] \subseteq Files(i, m, h)
    BY DirsOfBuilds
  <2>2. \A x \in Files(i, m, h) : Origin(x) = i
    BY FilesFacts
  <2> QED BY <2>1, <2>2
<1> QED BY <1>1, Invariance, PTL

(***************************************************************************)
(* The wasm a terminal runs is of the build whose manifest it matched,     *)
(* whoever writes to /apps in between (handle_run_app).                    *)
(***************************************************************************)
THEOREM RunsTheMatched == Spec => []RunsWhatItMatched
<1>1. IInv => RunsWhatItMatched
  <2> SUFFICES ASSUME IInv, NEW p \in Processes, pc[p] \in {"running", "hung"}
               PROVE  job[p].wasm = {<<Head(job[p].manifest).uuid>>}
    BY DEF RunsWhatItMatched, At
  <2>1. Runs(p)
    BY DEF IInv, Shapes
  <2>2. PICK i \in Ids : ManifestOf(job[p].manifest, i) /\ job[p].wasm = {<<i>>}
    BY <2>1 DEF IInv, MatchesLast
  <2>3. PICK m \in Names, h \in BOOLEAN : job[p].manifest = <<Manifest(i, m, h)>>
    BY <2>2 DEF ManifestOf
  <2>4. Head(job[p].manifest).uuid = i
    BY <2>3, FilesFacts
  <2> QED BY <2>2, <2>4
<1> QED BY <1>1, Invariance, PTL

(***************************************************************************)
(* What a terminal announced as generated has its files ever after         *)
(* (handle_create_app).                                                    *)
(***************************************************************************)
THEOREM GeneratedRunnable == Spec => []GeneratedCanRun
<1>1. IInv => GeneratedCanRun
  BY DEF IInv, GeneratedStay, GeneratedCanRun
<1> QED BY <1>1, Invariance, PTL

(***************************************************************************)
(* Another build's files come under a generated app's id only by a package *)
(* path their names share (package_osp).                                   *)
(***************************************************************************)
THEOREM ForeignByStem == Spec => []ForeignOnlyByStem
<1>1. IInv => ForeignOnlyByStem
  <2> SUFFICES ASSUME IInv, NEW id \in Ids, NEW f \in dirs[id], NEW n \in named[id],
                      NEW m \in named[Origin(f)]
               PROVE  Stem[m] = Stem[n]
    BY DEF ForeignOnlyByStem
  <2>1. FilesUnder(named, Stem[n], dirs[id])
    BY DEF IInv, NamedDirs
  <2>2. PICK i \in Ids, l \in Names, h \in BOOLEAN :
          named[i] = {l} /\ Stem[l] = Stem[n] /\ dirs[id] \subseteq Files(i, l, h)
    BY <2>1 DEF FilesUnder
  <2>3. \A x \in Files(i, l, h) : Origin(x) = i
    BY FilesFacts
  <2>4. Origin(f) = i
    BY <2>2, <2>3
  <2> QED BY <2>2, <2>4
<1> QED BY <1>1, Invariance, PTL

(***************************************************************************)
(* Under an id of the store's are only files of the package published under*)
(* it (cmd_install, handle_install_app).                                   *)
(***************************************************************************)
THEOREM StoreFilesOnly == Spec => []InstalledAsPublished
<1>1. IInv => InstalledAsPublished
  BY DEF IInv
<1> QED BY <1>1, Invariance, PTL
-------------------------------------------------------------------------------
\* Commands come to an end.

\* A process is at a step there is, and one that creates an app at one of its
\* attempts.
Counted ==
  \A p \in Processes :
    /\ pc[p] \in DOMAIN Ahead
    /\ Creates(p) => job[p].attempt \in 1..MaxAttempts
    /\ pc[p] = "fixing" => Creates(p) /\ job[p].attempt < MaxAttempts

\* Process p goes from one step to another, and no other process does.
Moves(p, from, to) ==
  /\ pc[p] = from /\ pc'[p] = to /\ DOMAIN pc' = Processes
  /\ \A q \in Processes \ {p} : pc'[q] = pc[q] /\ job'[q] = job[q]

\* How p's attempts change: not, but by a correction, and with its command.
SameAttempts(p) == Creates(p)' = Creates(p) /\ (Creates(p) => job'[p].attempt = job[p].attempt)

\* Where a command goes on when it is not corrected.
After ==
  [coding |-> "compiling", compiling |-> "designing", designing |-> "packing",
   packing |-> "writing", writing |-> "unpacking", unpacking |-> "extracting",
   downloading |-> "saving", saving |-> "filling", filling |-> "unpacking",
   matched |-> "running", running |-> "hung"]

\* What a step of process p may be.
Forward(p) ==
  \/ \E to \in {"coding", "downloading", "uploading", "matched"} :
       /\ Moves(p, "prompt", to)
       /\ Creates(p)' => job'[p].attempt = 1
  \/ \E from \in DOMAIN Ahead \ {"prompt"} :
       Moves(p, from, "prompt") /\ ~Creates(p)'
  \/ /\ Moves(p, "fixing", "compiling") /\ Creates(p) /\ Creates(p)'
     /\ job'[p].attempt = job[p].attempt + 1
  \/ Moves(p, "compiling", "fixing") /\ SameAttempts(p) /\ Creates(p)
     /\ job[p].attempt < MaxAttempts
  \/ \E from \in DOMAIN After : Moves(p, from, After[from]) /\ SameAttempts(p)

\* osctl publishes what it read.
LEMMA ReadPackageStarts ==
  ASSUME NEW p, ReadPackage(p)
  PROVE  \E key, body : Start(p, "uploading", [op |-> "publish", key |-> key, osp |-> body])
  <1>1. PICK stem \in Stems, key \in Keys : \E osp \in packages[stem] :
          Start(p, "uploading",
                [op |-> "publish", key |-> key,
                 osp |-> {IF key = "" THEN osp
                          ELSE AddSignature(osp, SignContent(key, Wasm(osp), ManifestJson(osp)))}])
    BY DEF ReadPackage
  <1>2. PICK osp \in packages[stem] :
          Start(p, "uploading",
                [op |-> "publish", key |-> key,
                 osp |-> {IF key = "" THEN osp
                          ELSE AddSignature(osp, SignContent(key, Wasm(osp), ManifestJson(osp)))}])
    BY <1>1
  <1> DEFINE body == {IF key = "" THEN osp
                      ELSE AddSignature(osp, SignContent(key, Wasm(osp), ManifestJson(osp)))}
  <1>3. Start(p, "uploading", [op |-> "publish", key |-> key, osp |-> body])
    BY <1>2
  <1> HIDE DEF body
  <1> QED BY <1>3

(***************************************************************************)
(* Every action of a process begins a command, or takes the one it is at a *)
(* step further.                                                           *)
(***************************************************************************)
LEMMA EveryStepForward ==
  ASSUME IInv, NEW p \in Processes, pc[p] \in DOMAIN Ahead,
         \/ Command(p) \/ Generate(p) \/ Extract(p) \/ Fetch(p) \/ Upload(p)
         \/ StartApp(p) \/ AppEnds(p) \/ AppHangs(p) \/ Fails(p)
  PROVE  Forward(p) \/ UNCHANGED vars
  <1>0. DOMAIN pc = Processes /\ DOMAIN job = Processes
    BY DEF IInv, Shapes
  <1>1. ASSUME pc[p] \in DOMAIN Ahead \ {"prompt"}, Stop(p)
        PROVE  Forward(p)
    <2>1. Moves(p, pc[p], "prompt") /\ ~Creates(p)'
      BY <1>0, <1>1 DEF Stop, Goto, NoJob, Moves, Creates
    <2> QED BY <1>1, <2>1 DEF Forward
  <1>2. ASSUME NEW from \in DOMAIN After, Moves(p, from, After[from]), SameAttempts(p)
        PROVE  Forward(p)
    BY <1>2 DEF Forward
  <1>3. ASSUME NEW what, NEW to \in {"coding", "downloading", "uploading", "matched"},
               Start(p, to, what), what.op = "create" => what.attempt = 1
        PROVE  Forward(p)
    <2>1. Moves(p, "prompt", to) /\ job'[p] = what
      BY <1>0, <1>3 DEF Start, Goto, Moves
    <2> QED BY <1>3, <2>1 DEF Forward, Creates
  <1>4. CASE Command(p)
    <2>1. ASSUME NEW n \in Names, Create(p, n) PROVE Forward(p)
      BY <1>3, <2>1 DEF Create
    <2>2. ASSUME NEW names \in Asked, Match(p, names) PROVE Forward(p)
      BY <1>3, <2>2 DEF Match
    <2>3. CASE ReadPackage(p)
      <3>1. PICK key, body : Start(p, "uploading", [op |-> "publish", key |-> key, osp |-> body])
        BY <2>3, ReadPackageStarts
      <3> QED BY <1>3, <3>1
    <2>4. ASSUME NEW how \in {"install", "fetch"}, Install(p, how) PROVE Forward(p)
      BY <1>3, <2>4 DEF Install
    <2> QED BY <1>4, <2>1, <2>2, <2>3, <2>4 DEF Command, NotOneMatch
  <1>5. CASE Generate(p)
    <2>1. CASE CodeGenerated(p)
      <3>1. Moves(p, "coding", "compiling") /\ SameAttempts(p)
        BY <1>0, <2>1 DEF CodeGenerated, At, Goto, Moves, SameAttempts, Creates
      <3> QED BY <1>2, <3>1 DEF After
    <2>2. CASE Compiles(p)
      <3>1. Moves(p, "compiling", "designing") /\ SameAttempts(p)
        BY <1>0, <2>2 DEF Compiles, At, Goto, Moves, SameAttempts, Creates
      <3> QED BY <1>2, <3>1 DEF After
    <2>3. CASE DoesNotCompile(p)
      <3>1. CASE job[p].attempt < MaxAttempts
        <4>1. Moves(p, "compiling", "fixing") /\ SameAttempts(p)
          BY <1>0, <2>3, <3>1 DEF DoesNotCompile, At, Goto, Moves, SameAttempts, Creates
        <4>2. Creates(p)
          BY <2>3 DEF IInv, Shapes, DoesNotCompile, At
        <4> QED BY <3>1, <4>1, <4>2 DEF Forward
      <3>2. CASE ~(job[p].attempt < MaxAttempts)
        BY <1>1, <2>3, <3>2 DEF DoesNotCompile, At, Ahead
      <3> QED BY <3>1, <3>2
    <2>4. CASE CodeFixed(p)
      <3>1. Creates(p) /\ "attempt" \in DOMAIN job[p] /\ "op" \in DOMAIN job[p]
        BY <2>4 DEF IInv, Shapes, CodeFixed, At
      <3>2. /\ Moves(p, "fixing", "compiling") /\ Creates(p)'
            /\ job'[p].attempt = job[p].attempt + 1
        BY <1>0, <2>4, <3>1 DEF CodeFixed, At, Goto, Moves, Creates
      <3> QED BY <3>1, <3>2 DEF Forward
    <2>5. CASE Design(p)
      <3>1. Creates(p) /\ {"op", "attempt"} \subseteq DOMAIN job[p]
        BY <2>5 DEF IInv, Shapes, Design, At
      <3>2. Moves(p, "designing", "packing") /\ SameAttempts(p)
        BY <1>0, <2>5, <3>1 DEF Design, At, Goto, Moves, SameAttempts, Creates
      <3> QED BY <1>2, <3>2 DEF After
    <2>6. CASE OpenPackage(p)
      <3>1. Moves(p, "packing", "writing") /\ SameAttempts(p)
        BY <1>0, <2>6 DEF OpenPackage, At, Goto, Moves, SameAttempts, Creates
      <3> QED BY <1>2, <3>1 DEF After
    <2>7. CASE ClosePackage(p)
      <3>1. Moves(p, "writing", "unpacking") /\ SameAttempts(p)
        BY <1>0, <2>7 DEF ClosePackage, At, Goto, Moves, SameAttempts, Creates
      <3> QED BY <1>2, <3>1 DEF After
    <2> QED BY <1>5, <2>1, <2>2, <2>3, <2>4, <2>5, <2>6, <2>7 DEF Generate
  <1>6. CASE Extract(p)
    <2>1. CASE StartExtract(p)
      <3>1. \/ Creates(p) /\ {"op", "attempt"} \subseteq DOMAIN job[p]
            \/ ~Creates(p) /\ "op" \in DOMAIN job[p]
        BY <2>1 DEF IInv, Shapes, StartExtract, At, Creates, Fetches
      <3>2. Moves(p, "unpacking", "extracting") /\ SameAttempts(p)
        BY <1>0, <2>1, <3>1 DEF StartExtract, At, Goto, Moves, SameAttempts, Creates
      <3> QED BY <1>2, <3>2 DEF After
    <2>2. CASE FinishExtract(p)
      BY <1>1, <2>2 DEF FinishExtract, At, Ahead
    <2> QED BY <1>6, <2>1, <2>2 DEF Extract
  <1>7. CASE Fetch(p)
    <2>1. CASE Download(p)
      <3>1. ~Creates(p) /\ "op" \in DOMAIN job[p]
        BY <2>1 DEF IInv, Shapes, Download, At, Creates, Fetches
      <3>2. Moves(p, "downloading", "saving") /\ SameAttempts(p)
        BY <1>0, <2>1, <3>1 DEF Download, At, Goto, Moves, SameAttempts, Creates
      <3> QED BY <1>2, <3>2 DEF After
    <2>2. CASE OpenSaved(p)
      <3>1. Moves(p, "saving", "filling") /\ SameAttempts(p)
        BY <1>0, <2>2 DEF OpenSaved, At, Goto, Moves, SameAttempts, Creates
      <3> QED BY <1>2, <3>1 DEF After
    <2>3. CASE FillSaved(p)
      <3>1. CASE job[p].op = "fetch"
        BY <1>1, <2>3, <3>1 DEF FillSaved, At, Ahead
      <3>2. CASE job[p].op # "fetch"
        <4>1. Moves(p, "filling", "unpacking") /\ SameAttempts(p)
          BY <1>0, <2>3, <3>2 DEF FillSaved, At, Goto, Moves, SameAttempts, Creates
        <4> QED BY <1>2, <4>1 DEF After
      <3> QED BY <3>1, <3>2
    <2> QED BY <1>7, <2>1, <2>2, <2>3 DEF Fetch
  <1>8. CASE Upload(p) \/ AppEnds(p)
    BY <1>1, <1>8 DEF Upload, AppEnds, At, Ahead
  <1>9. CASE StartApp(p)
    <2>1. CASE Lookup(dirs[job[p].id], "app.wasm") = {}
      BY <1>1, <1>9, <2>1 DEF StartApp, At, Ahead
    <2>2. CASE Lookup(dirs[job[p].id], "app.wasm") # {}
      <3>1. ~Creates(p) /\ "op" \in DOMAIN job[p]
        BY <1>9 DEF IInv, Shapes, StartApp, At, Creates, Runs
      <3>2. Moves(p, "matched", "running") /\ SameAttempts(p)
        BY <1>0, <1>9, <2>2, <3>1 DEF StartApp, At, Goto, Moves, SameAttempts, Creates
      <3> QED BY <1>2, <3>2 DEF After
    <2> QED BY <2>1, <2>2
  <1>10. CASE AppHangs(p)
    <2>1. Moves(p, "running", "hung") /\ SameAttempts(p)
      BY <1>0, <1>10 DEF AppHangs, At, Goto, Moves, SameAttempts, Creates
    <2> QED BY <1>2, <2>1 DEF After
  <1>11. CASE Fails(p)
    BY <1>1, <1>11 DEF Fails
  <1> QED BY <1>4, <1>5, <1>6, <1>7, <1>8, <1>9, <1>10, <1>11

(***************************************************************************)
(* A step of a process is one less for its command, and leaves the others' *)
(* as they were.                                                           *)
(***************************************************************************)
LEMMA ForwardCounts ==
  ASSUME Counted, NEW p \in Processes, Forward(p)
  PROVE  /\ Counted'
         /\ StepsLeft(p)' \in Nat
         /\ At(p, "prompt") \/ StepsLeft(p)' < StepsLeft(p)
         /\ \A q \in Processes \ {p} : StepsLeft(q)' = StepsLeft(q)
  <1>0. /\ MaxAttempts \in Nat \ {0}
        /\ pc[p] \in DOMAIN Ahead /\ (Creates(p) => job[p].attempt \in 1..MaxAttempts)
    BY AttemptsAssumption DEF Counted
  <1>1. \A q \in Processes \ {p} : pc'[q] = pc[q] /\ job'[q] = job[q]
    BY DEF Forward, Moves
  <1>2. \A q \in Processes \ {p} : StepsLeft(q)' = StepsLeft(q)
    BY <1>1 DEF StepsLeft
  <1>3. ASSUME pc'[p] \in DOMAIN Ahead,
               Creates(p)' => job'[p].attempt \in 1..MaxAttempts,
               pc'[p] = "fixing" => Creates(p)' /\ job'[p].attempt < MaxAttempts
        PROVE  Counted'
    BY <1>1, <1>3 DEF Counted, Creates
  <1>4. ASSUME NEW to \in {"coding", "downloading", "uploading", "matched"},
               Moves(p, "prompt", to), Creates(p)' => job'[p].attempt = 1
        PROVE  Counted' /\ StepsLeft(p)' \in Nat /\ At(p, "prompt")
    <2>1. Counted' /\ At(p, "prompt")
      BY <1>0, <1>3, <1>4 DEF Moves, Ahead, At
    <2>2. StepsLeft(p)' \in Nat
      BY <1>0, <1>4 DEF Moves, Ahead, StepsLeft, Creates
    <2> QED BY <2>1, <2>2
  <1>5. ASSUME NEW from \in DOMAIN Ahead \ {"prompt"}, Moves(p, from, "prompt"), ~Creates(p)'
        PROVE  Counted' /\ StepsLeft(p)' \in Nat /\ StepsLeft(p)' < StepsLeft(p)
    <2>1. Counted'
      BY <1>3, <1>5 DEF Moves, Ahead
    <2>2. StepsLeft(p)' = 0
      BY <1>5 DEF Moves, Ahead, StepsLeft, Creates
    <2>3. Ahead[from] \in Nat \ {0}
      BY <1>5 DEF Ahead
    <2>4. StepsLeft(p) \in Nat \ {0}
      BY <1>0, <1>5, <2>3 DEF Moves, StepsLeft, Creates
    <2> QED BY <2>1, <2>2, <2>4
  <1>6. ASSUME Moves(p, "fixing", "compiling"), Creates(p), Creates(p)',
               job'[p].attempt = job[p].attempt + 1
        PROVE  Counted' /\ StepsLeft(p)' \in Nat /\ StepsLeft(p)' < StepsLeft(p)
    <2>1. job[p].attempt < MaxAttempts
      BY <1>6 DEF Counted, Moves
    <2>2. Counted'
      BY <1>0, <1>3, <1>6, <2>1 DEF Moves, Ahead
    <2>3. StepsLeft(p)' \in Nat /\ StepsLeft(p)' < StepsLeft(p)
      BY <1>0, <1>6, <2>1 DEF Moves, Ahead, StepsLeft, Creates
    <2> QED BY <2>2, <2>3
  <1>7. ASSUME Moves(p, "compiling", "fixing"), SameAttempts(p), Creates(p),
               job[p].attempt < MaxAttempts
        PROVE  Counted' /\ StepsLeft(p)' \in Nat /\ StepsLeft(p)' < StepsLeft(p)
    <2>1. Counted'
      BY <1>0, <1>3, <1>7 DEF Moves, Ahead, SameAttempts
    <2>2. StepsLeft(p)' \in Nat /\ StepsLeft(p)' < StepsLeft(p)
      BY <1>0, <1>7 DEF Moves, Ahead, StepsLeft, SameAttempts, Creates
    <2> QED BY <2>1, <2>2
  <1>8. ASSUME NEW from \in DOMAIN After, Moves(p, from, After[from]), SameAttempts(p)
        PROVE  Counted' /\ StepsLeft(p)' \in Nat /\ StepsLeft(p)' < StepsLeft(p)
    <2>1. /\ After[from] \in DOMAIN Ahead /\ After[from] # "fixing"
          /\ Ahead[from] \in Nat /\ Ahead[After[from]] \in Nat
          /\ Ahead[After[from]] < Ahead[from]
      BY DEF After, Ahead
    <2>2. Counted'
      BY <1>0, <1>3, <1>8, <2>1 DEF Moves, SameAttempts
    <2>3. StepsLeft(p)' \in Nat /\ StepsLeft(p)' < StepsLeft(p)
      BY <1>0, <1>8, <2>1 DEF Moves, StepsLeft, SameAttempts, Creates
    <2> QED BY <2>2, <2>3
  <1> QED BY <1>2, <1>4, <1>5, <1>6, <1>7, <1>8 DEF Forward

LEMMA InitCounted == Init => Counted
  <1>1. AttemptsAssumption
    BY AttemptsAssumption
  <1> QED BY DEF Init, Counted, Ahead, NoJob, Creates

\* Every step is one process's, and takes its command a step further.
LEMMA NextCounts ==
  ASSUME IInv, Counted, [Next]_vars
  PROVE  /\ Counted'
         /\ UNCHANGED vars \/
            \E p \in Processes :
              /\ StepsLeft(p)' \in Nat
              /\ At(p, "prompt") \/ StepsLeft(p)' < StepsLeft(p)
              /\ \A q \in Processes \ {p} : StepsLeft(q)' = StepsLeft(q)
  <1>1. CASE UNCHANGED vars
    BY <1>1 DEF Counted, Creates, vars
  <1>2. CASE ~UNCHANGED vars
    <2>1. PICK p \in Processes :
            \/ Command(p) \/ Generate(p) \/ Extract(p) \/ Fetch(p) \/ Upload(p)
            \/ StartApp(p) \/ AppEnds(p) \/ AppHangs(p) \/ Fails(p)
      BY <1>2 DEF Next
    <2>2. pc[p] \in DOMAIN Ahead
      BY DEF Counted
    <2>3. Forward(p)
      BY <1>2, <2>1, <2>2, EveryStepForward
    <2> QED BY <2>3, ForwardCounts
  <1> QED BY <1>1, <1>2

(***************************************************************************)
(* Whatever the number of attempts, processes and apps: a command takes    *)
(* boundedly many steps, each of which is one less to take, and it is not  *)
(* made longer by another's (compile_with_retry, generate_and_install,     *)
(* handle_install_app, handle_run_app, cmd_publish, cmd_install).          *)
(***************************************************************************)
THEOREM CommandsTakeFewSteps == Spec => CommandsAreFinite
<1>1. Init => IInv /\ Counted
  BY InitIInv, InitCounted
<1>2. IInv /\ Counted /\ [Next]_vars => IInv' /\ Counted'
  BY NextIInv, NextCounts
<1>3. IInv /\ Counted /\ [Next]_vars =>
        [\E p \in Processes :
           /\ StepsLeft(p)' \in Nat
           /\ At(p, "prompt") \/ StepsLeft(p)' < StepsLeft(p)
           /\ \A q \in Processes \ {p} : StepsLeft(q)' = StepsLeft(q)]_vars
  BY NextCounts
<1> QED BY <1>1, <1>2, <1>3, PTL DEF Spec, CommandsAreFinite
===============================================================================
