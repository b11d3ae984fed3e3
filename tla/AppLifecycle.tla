----------------------------- MODULE AppLifecycle -----------------------------
(***************************************************************************)
(* How an app comes to be, and to be run.  A terminal (os-agent's          *)
(* nl_terminal.rs) has apps generated, compiled, packed and unpacked under *)
(* /apps (app_generator.rs), installs apps from the store, and runs what   *)
(* it finds under /apps; osctl (osctl/src/main.rs) publishes packages and  *)
(* downloads them.  Several such processes share one machine: nothing in   *)
(* the code keeps two of them apart but the paths they choose.             *)
(*                                                                         *)
(* The store is taken at its promise, AppCatalog, which AppStore           *)
(* implements; an answer may also be an HTTP error, and neither client     *)
(* looks at the status.  The language model, cargo, tar and the user do    *)
(* anything they may.  A package is reduced to its wasm, manifest and      *)
(* layout; prompt.txt and icon.svg go the way of the wasm.                 *)
(***************************************************************************)
EXTENDS OspArchive, FiniteSets

CONSTANTS Terminals,   \* command lines at which os-agent's terminal runs
          Tools,       \* command lines at which osctl is run; some may be both
          Ids,         \* version 4 UUIDs, drawn by generators and the store
          Names,       \* app names the language model gives
          Stem,        \* name -> file name: lower case, "-" for " "
          Keys,        \* signing keys osctl may find; "" is none
          MaxAttempts  \* attempts at compiling, 3 in the code

ASSUME AttemptsAssumption == MaxAttempts \in Nat \ {0}

Processes == Terminals \cup Tools
Stems == {Stem[n] : n \in Names}

VARIABLES catalog,    \* the store: id -> the app published under it, if any
          packages,   \* /tmp/opensystem-build/<stem>.osp, if there is one
          dirs,       \* the files under /apps/<id>/
          saved,      \* /apps/<id>.osp, if there is one
          named,      \* id -> the name of the app generated under it, if any
          pc, job,    \* what a process is at, and with what
          announced   \* history: what users were told is installed

vars == <<catalog, packages, dirs, saved, named, pc, job, announced>>

Store ==
  INSTANCE AppCatalog
    WITH Requests <- {}, Publishable <- {}, Matching <- <<>>, answer <- <<>>

NoJob == [op |-> "none"]

Init ==
  /\ catalog = [id \in Ids |-> {}]
  /\ packages = [s \in Stems |-> {}]
  /\ dirs = [id \in Ids |-> {}]
  /\ saved = [id \in Ids |-> {}]
  /\ named = [id \in Ids |-> {}]
  /\ pc = [p \in Processes |-> "prompt"]
  /\ job = [p \in Processes |-> NoJob]
  /\ announced = {}

\* Fault: the ids of generated apps may be drawn again.
FreshInStore(id) == catalog[id] = {}

\* Uuid::new_v4: an id nobody drew before.
Fresh(id) == named[id] = {} /\ catalog[id] = {}

At(p, label) == pc[p] = label
Goto(p, label) == pc' = [pc EXCEPT ![p] = label]
Start(p, label, what) ==
  pc[p] = "prompt" /\ Goto(p, label) /\ job' = [job EXCEPT ![p] = what]
Stop(p) == Goto(p, "prompt") /\ job' = [job EXCEPT ![p] = NoJob]
Announce(p) == announced' = announced \cup {[how |-> job[p].op, id |-> job[p].id]}

-------------------------------------------------------------------------------
\* Contents: a file of a build carries the id drawn for the build.

Manifest(id, name, hasUidl) == [uuid |-> id, name |-> name, hasUidl |-> hasUidl]

Package(id, name, hasUidl) ==
  Archive(<< Entry(<<id, "app.wasm">>, <<id>>),
             Entry(<<id, "manifest.json">>, <<Manifest(id, name, hasUidl)>>) >>
          \o IF hasUidl THEN <<Entry(<<id, "uidl.json">>, <<id>>)>> ELSE <<>>)

ErrorBody == Truncated(Archive(<<>>))

\* tar -x --strip-components=1 leaves entries at the archive's root out.
Unpacked(osp) ==
  {Entry(Tail(e.path), e.data) : e \in {f \in Range(osp.entries) : Len(f.path) > 1}}

Lookup(files, name) == {f.data : f \in {g \in files : g.path = <<name>>}}

Origin(f) ==
  IF f.path = <<"manifest.json">> THEN Head(f.data).uuid ELSE Head(f.data)

-------------------------------------------------------------------------------
\* AppGenerator::generate_and_install

Create(p, name) ==
  \E id \in Ids :
    /\ Fresh(id)
    /\ named' = [named EXCEPT ![id] = {name}]
    /\ Start(p, "coding",
             [op |-> "create", id |-> id, name |-> name, attempt |-> 1, osp |-> {}])
    /\ UNCHANGED <<catalog, packages, dirs, saved, announced>>

CodeGenerated(p) ==
  /\ At(p, "coding")
  /\ Goto(p, "compiling")
  /\ UNCHANGED <<catalog, packages, dirs, saved, named, job, announced>>

Compiles(p) ==
  /\ At(p, "compiling")
  /\ Goto(p, "designing")
  /\ UNCHANGED <<catalog, packages, dirs, saved, named, job, announced>>

\* After the last attempt the error is the generator's.
DoesNotCompile(p) ==
  /\ At(p, "compiling")
  /\ IF job[p].attempt < MaxAttempts
     THEN Goto(p, "fixing") /\ UNCHANGED job
     ELSE Stop(p)
  /\ UNCHANGED <<catalog, packages, dirs, saved, named, announced>>

\* Fault: the attempt is not counted.
CodeFixedUncounted(p) ==
  /\ At(p, "fixing")
  /\ Goto(p, "compiling")
  /\ UNCHANGED <<catalog, packages, dirs, saved, named, job, announced>>

CodeFixed(p) ==
  /\ At(p, "fixing")
  /\ Goto(p, "compiling")
  /\ job' = [job EXCEPT ![p].attempt = @ + 1]
  /\ UNCHANGED <<catalog, packages, dirs, saved, named, announced>>

\* Fault: one path serves all packages.
PackagePathOfAll(p) == CHOOSE s \in Stems : TRUE

\* The path package_osp gives to tar.
PackagePath(p) == Stem[job[p].name]

\* Fault: files are gathered in a directory named after the app, where the
\* layout of an earlier build may lie.
DesignInSharedDir(p) ==
  /\ At(p, "designing")
  /\ \E hasUidl \in BOOLEAN, left \in packages[PackagePath(p)] \cup {Archive(<<>>)} :
       job' = [job EXCEPT ![p].osp =
         {Archive(Package(job[p].id, job[p].name, hasUidl).entries
                    \o IF hasUidl THEN <<>>
                       ELSE SelectSeq(left.entries, LAMBDA e : Last(e.path) = "uidl.json"))}]
  /\ Goto(p, "packing")
  /\ UNCHANGED <<catalog, packages, dirs, saved, named, announced>>

\* A layout that cannot be had is done without, as is an icon.
Design(p) ==
  /\ At(p, "designing")
  /\ \E hasUidl \in BOOLEAN :
       job' = [job EXCEPT ![p].osp = {Package(job[p].id, job[p].name, hasUidl)}]
  /\ Goto(p, "packing")
  /\ UNCHANGED <<catalog, packages, dirs, saved, named, announced>>

\* tar -c opens the package, which empties it, and then fills it.
OpenPackage(p) ==
  /\ At(p, "packing")
  /\ packages' = [packages EXCEPT ![PackagePath(p)] = {Truncated(The(job[p].osp))}]
  /\ Goto(p, "writing")
  /\ UNCHANGED <<catalog, dirs, saved, named, job, announced>>

\* Two tars at one path may spoil each other's output.
Disturbed(p) ==
  \/ packages[PackagePath(p)] # {Truncated(The(job[p].osp))}
  \/ \E q \in Processes \ {p} : At(q, "writing") /\ PackagePath(q) = PackagePath(p)

ClosePackage(p) ==
  /\ At(p, "writing")
  /\ \/ packages' = [packages EXCEPT ![PackagePath(p)] = job[p].osp]
     \/ /\ Disturbed(p)
        /\ packages' = [packages EXCEPT ![PackagePath(p)] = {Truncated(The(job[p].osp))}]
  /\ Goto(p, "unpacking")
  /\ UNCHANGED <<catalog, dirs, saved, named, job, announced>>

-------------------------------------------------------------------------------
\* tar -x, for install_app and handle_install_app

Source(p) ==
  IF job[p].op = "create" THEN packages[PackagePath(p)] ELSE saved[job[p].id]

\* What extracting new files over old ones may leave half-way: some are out,
\* and one that was there before may be gone or incomplete.
HalfExtracted(old, new) ==
  {some \cup {f \in old : f.path \notin {g.path : g \in some} \cup hole} :
     some \in SUBSET new, hole \in {{}} \cup {{f.path} : f \in new}}

Extracted(old, new) == new \cup {f \in old : f.path \notin {g.path : g \in new}}

\* The directory is made, the package opened, and some files are written.
StartExtract(p) ==
  /\ At(p, "unpacking")
  /\ \E osp \in Source(p), files \in HalfExtracted(dirs[job[p].id], Unpacked(The(Source(p)))) :
       /\ job' = [job EXCEPT ![p].osp = {osp}]
       /\ dirs' = [dirs EXCEPT ![job[p].id] = files]
  /\ Goto(p, "extracting")
  /\ UNCHANGED <<catalog, packages, saved, named, announced>>

\* Fault: the exit status of tar is not looked at.
FinishExtractAnyway(p) ==
  /\ At(p, "extracting")
  /\ \E osp \in job[p].osp :
       dirs' = [dirs EXCEPT ![job[p].id] =
                  IF osp.whole THEN Extracted(@, Unpacked(osp)) ELSE @]
  /\ Announce(p)
  /\ Stop(p)
  /\ UNCHANGED <<catalog, packages, saved, named>>

FinishExtract(p) ==
  /\ At(p, "extracting")
  /\ \E osp \in job[p].osp :
       /\ osp.whole
       /\ dirs' = [dirs EXCEPT ![job[p].id] = Extracted(@, Unpacked(osp))]
  /\ Announce(p)
  /\ Stop(p)
  /\ UNCHANGED <<catalog, packages, saved, named>>

-------------------------------------------------------------------------------
\* handle_install_app and osctl's cmd_install

\* Both take the first of the apps a search of the store yields.
Install(p, how) ==
  \E id \in Store!Published :
    /\ Start(p, "downloading", [op |-> how, id |-> id, osp |-> {}])
    /\ UNCHANGED <<catalog, packages, dirs, saved, named, announced>>

Download(p) ==
  /\ At(p, "downloading")
  /\ \E body \in {app.osp : app \in catalog[job[p].id]} \cup {ErrorBody} :
       job' = [job EXCEPT ![p].osp = {body}]
  /\ Goto(p, "saving")
  /\ UNCHANGED <<catalog, packages, dirs, saved, named, announced>>

\* std::fs::write empties the file and then fills it; osctl is done then.
OpenSaved(p) ==
  /\ At(p, "saving")
  /\ saved' = [saved EXCEPT ![job[p].id] = {Truncated(The(job[p].osp))}]
  /\ Goto(p, "filling")
  /\ UNCHANGED <<catalog, packages, dirs, named, job, announced>>

FillSaved(p) ==
  /\ At(p, "filling")
  /\ saved' = [saved EXCEPT ![job[p].id] = job[p].osp]
  /\ IF job[p].op = "fetch"
     THEN Announce(p) /\ Stop(p)
     ELSE Goto(p, "unpacking") /\ UNCHANGED <<job, announced>>
  /\ UNCHANGED <<catalog, packages, dirs, named>>

-------------------------------------------------------------------------------
\* osctl's cmd_publish

\* The package is read; with a key, it is parsed, signed and written anew.
ReadPackage(t) ==
  \E stem \in Stems, key \in Keys :
    \E osp \in packages[stem] :
      /\ key = "" \/ Parses(osp)
      /\ Start(t, "uploading",
               [op |-> "publish", key |-> key,
                osp |-> {IF key = "" THEN osp
                         ELSE AddSignature(osp, SignContent(key, Wasm(osp), ManifestJson(osp)))}])
      /\ UNCHANGED <<catalog, packages, dirs, saved, named, announced>>

\* The store takes what it can read and verify.
Upload(t) ==
  /\ At(t, "uploading")
  /\ \E osp \in job[t].osp, id \in Ids :
       /\ Parses(osp) /\ Fresh(id)
       /\ Store!Publish(id, [osp |-> osp, name |-> Head(ManifestJson(osp)).name,
                             publicKey |-> job[t].key])
  /\ Stop(t)
  /\ UNCHANGED <<packages, dirs, saved, named, announced>>

-------------------------------------------------------------------------------
\* handle_run_app

\* What a user types may be part of several names.
Asked == SUBSET Names \ {{}}

\* Which apps' manifests have a name that was asked for.
Matched(names) ==
  {id \in Ids : \E m \in Lookup(dirs[id], "manifest.json") : Head(m).name \in names}

\* No app or several: the user is told so, and nothing is run.
NotOneMatch(p) ==
  /\ At(p, "prompt")
  /\ {names \in Asked : Cardinality(Matched(names)) # 1} # {}
  /\ UNCHANGED vars

Match(p, names) ==
  \E id \in Ids :
    /\ Matched(names) = {id}
    /\ Start(p, "matched",
             [op |-> "run", id |-> id, manifest |-> The(Lookup(dirs[id], "manifest.json")),
              wasm |-> {}])
    /\ UNCHANGED <<catalog, packages, dirs, saved, named, announced>>

\* Fault: the app is looked for again, by its name.
StartAppByName(p) ==
  /\ At(p, "matched")
  /\ \E id \in Matched({Head(job[p].manifest).name}) :
       job' = [job EXCEPT ![p].wasm = Lookup(dirs[id], "app.wasm")]
  /\ Goto(p, "running")
  /\ UNCHANGED <<catalog, packages, dirs, saved, named, announced>>

\* Without app.wasm the app is said to be corrupted.
StartApp(p) ==
  /\ At(p, "matched")
  /\ IF Lookup(dirs[job[p].id], "app.wasm") = {}
     THEN Stop(p)
     ELSE /\ Goto(p, "running")
          /\ job' = [job EXCEPT ![p].wasm = Lookup(dirs[job[p].id], "app.wasm")]
  /\ UNCHANGED <<catalog, packages, dirs, saved, named, announced>>

\* WasmRuntime::execute returns, or the guest blocks in the host for good, as
\* EveryExecutionReturns of WasmExecution has it.
AppEnds(p) ==
  /\ At(p, "running")
  /\ Stop(p)
  /\ UNCHANGED <<catalog, packages, dirs, saved, named, announced>>

AppHangs(p) ==
  /\ At(p, "running")
  /\ Goto(p, "hung")
  /\ UNCHANGED <<catalog, packages, dirs, saved, named, job, announced>>

-------------------------------------------------------------------------------

\* The model, cargo, tar, the disk or the store gives an error, which ends
\* the command and leaves what is on disk; so does killing the process.
Fails(p) ==
  /\ pc[p] # "prompt"
  /\ Stop(p)
  /\ UNCHANGED <<catalog, packages, dirs, saved, named, announced>>

Generate(p) ==
  \/ CodeGenerated(p) \/ Compiles(p) \/ DoesNotCompile(p) \/ CodeFixed(p)
  \/ Design(p) \/ OpenPackage(p) \/ ClosePackage(p)

Extract(p) == StartExtract(p) \/ FinishExtract(p)

Fetch(p) == Download(p) \/ OpenSaved(p) \/ FillSaved(p)

Command(p) ==
  \/ p \in Terminals /\ \E n \in Names : Create(p, n)
  \/ p \in Terminals /\ (NotOneMatch(p) \/ \E names \in Asked : Match(p, names))
  \/ p \in Terminals /\ Install(p, "install")
  \/ p \in Tools /\ (ReadPackage(p) \/ Install(p, "fetch"))

Next ==
  \E p \in Processes :
    \/ Command(p)
    \/ Generate(p) \/ Extract(p) \/ Fetch(p) \/ Upload(p)
    \/ StartApp(p) \/ AppEnds(p) \/ AppHangs(p)
    \/ Fails(p)

Spec == Init /\ [][Next]_vars

-------------------------------------------------------------------------------

Option(S) == {{}} \cup {{x} : x \in S}

Built == {Package(id, n, hasUidl) : id \in Ids, n \in Names, hasUidl \in BOOLEAN}

Signed ==
  {AddSignature(osp, SignContent(key, Wasm(osp), ManifestJson(osp))) :
     osp \in Built, key \in Keys \ {""}}

Whole == Built \cup Signed
Bytes == Whole \cup {Truncated(osp) : osp \in Whole} \cup {ErrorBody}
Contents == UNION {Unpacked(osp) : osp \in Built}
Manifests == {ManifestJson(osp) : osp \in Built}

Jobs ==
  {NoJob}
    \cup [op : {"create"}, id : Ids, name : Names, attempt : 1..MaxAttempts,
          osp : Option(Bytes)]
    \cup [op : {"install", "fetch"}, id : Ids, osp : Option(Bytes)]
    \cup [op : {"publish"}, key : Keys, osp : Option(Bytes)]
    \cup [op : {"run"}, id : Ids, manifest : Manifests, wasm : Option({<<id>> : id \in Ids})]

(***************************************************************************)
(* The values variables have; among them, never more than MaxAttempts      *)
(* attempts at compiling (compile_with_retry).                             *)
(***************************************************************************)
TypeOK ==
  /\ DOMAIN catalog = Ids
  /\ \A id \in Ids : catalog[id] \in Option([osp : Whole, name : Names, publicKey : Keys])
  /\ packages \in [Stems -> Option(Bytes)]
  /\ DOMAIN dirs = Ids /\ \A id \in Ids : dirs[id] \subseteq Contents
  /\ saved \in [Ids -> Option(Bytes)]
  /\ named \in [Ids -> Option(Names)]
  /\ DOMAIN pc = Processes /\ DOMAIN job = Processes
  /\ \A p \in Processes : job[p] \in Jobs /\ (job[p] = NoJob <=> pc[p] = "prompt")
  /\ announced \subseteq [how : {"create", "install", "fetch"}, id : Ids]

(***************************************************************************)
(* The files under /apps/<id>/ are all of one build, whoever generated,    *)
(* installed or failed to install what, in whatever order (install_app,    *)
(* handle_install_app): a manifest never describes another app's wasm.     *)
(***************************************************************************)
DirsAreOfOneBuild ==
  \A id \in Ids : \A f \in dirs[id], g \in dirs[id] : Origin(f) = Origin(g)

(***************************************************************************)
(* The app a terminal executes is the one whose manifest it matched and    *)
(* showed the user, though others write to /apps between the two           *)
(* (handle_run_app).                                                       *)
(***************************************************************************)
RunsWhatItMatched ==
  \A p \in Processes :
    At(p, "running") \/ At(p, "hung") => job[p].wasm = {<<Head(job[p].manifest).uuid>>}

(***************************************************************************)
(* An app reported as generated and installed has its wasm and its         *)
(* manifest under /apps ever after (handle_create_app, install_app).       *)
(***************************************************************************)
GeneratedCanRun ==
  \A a \in announced : a.how = "create" =>
    \A name \in {"app.wasm", "manifest.json"} : Lookup(dirs[a.id], name) # {}

(***************************************************************************)
(* Another build's files can be under the id drawn for an app only when    *)
(* the two apps' names give the same package path (package_osp).           *)
(***************************************************************************)
ForeignOnlyByStem ==
  \A id \in Ids : \A f \in dirs[id] : \A n \in named[id] :
    \A m \in named[Origin(f)] : Stem[m] = Stem[n]

(***************************************************************************)
(* Under a store's id are only files of the package published under it,    *)
(* though error bodies, other processes' downloads and failed extractions  *)
(* pass through /apps/<id>.osp (cmd_install, handle_install_app).          *)
(***************************************************************************)
InstalledAsPublished ==
  \A id \in Ids : \A app \in catalog[id] : dirs[id] \subseteq Unpacked(app.osp)

\* How many steps a command has left to take, at most, in its last attempt.
Ahead ==
  [prompt |-> 0, hung |-> 1, running |-> 2, matched |-> 3, uploading |-> 1,
   extracting |-> 1, unpacking |-> 2, filling |-> 3, saving |-> 4, downloading |-> 5,
   writing |-> 3, packing |-> 4, designing |-> 5, fixing |-> 6, compiling |-> 7, coding |-> 8]

\* Every attempt before that is a compilation and a correction.
StepsLeft(p) ==
  Ahead[pc[p]] + IF job[p].op = "create" THEN 2 * (MaxAttempts - job[p].attempt) ELSE 0

(***************************************************************************)
(* No command goes on for ever by itself, whatever the model answers, the  *)
(* compiler says and others do: a step that does not begin one takes a     *)
(* step from what one command has left, and from no other's.  A command    *)
(* may still wait for ever, within a step: for a store that does not       *)
(* answer, or an app that hangs (compile_with_retry, generate_and_install, *)
(* handle_install_app, handle_run_app, cmd_publish, cmd_install).          *)
(***************************************************************************)
CommandsAreFinite ==
  [][\E p \in Processes :
       /\ StepsLeft(p)' \in Nat
       /\ At(p, "prompt") \/ StepsLeft(p)' < StepsLeft(p)
       /\ \A q \in Processes \ {p} : StepsLeft(q)' = StepsLeft(q)]_vars

-------------------------------------------------------------------------------
\* What documentation and messages say, and the code does not do.

(***************************************************************************)
(* An app a terminal reports as installed from the store can be run: its   *)
(* wasm is where handle_run_app looks for it.                              *)
(***************************************************************************)
InstalledCanRun ==
  \A a \in announced : a.how = "install" => Lookup(dirs[a.id], "app.wasm") # {}

(***************************************************************************)
(* The directory of a generated app holds the app generated under its id,  *)
(* build paths being apart by UUID.                                        *)
(***************************************************************************)
GeneratedUnderOwnId ==
  \A a \in announced : a.how = "create" => \A f \in dirs[a.id] : Origin(f) = a.id

(***************************************************************************)
(* A published package whose manifest says it has a layout has one.        *)
(***************************************************************************)
PublishedKeepLayout ==
  \A id \in Ids : \A app \in catalog[id] :
    Head(ManifestJson(app.osp)).hasUidl => Content(app.osp, "uidl.json") # {}

(***************************************************************************)
(* A package osctl reports as installed is one.                            *)
(***************************************************************************)
FetchedArePackages ==
  \A a \in announced : a.how = "fetch" => \E osp \in saved[a.id] : osp.whole
===============================================================================
