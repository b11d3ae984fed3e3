# openSystem in TLA+

openSystem is a system whose apps are written on demand by a language model,
compiled to WebAssembly, packaged, put in a store and run in a sandbox. This
directory holds TLA+ modules translated from its source (one module per
component), TLC configurations that check them on small instances, and proofs
that TLAPS checks for every value of the constants.

Contents: [inventory](#inventory) · [modules](#modules) · [runs](#runs) ·
[proofs](#proofs) · [what the models leave out](#what-the-models-leave-out) ·
[what does not hold](#what-does-not-hold) · [what is left](#what-is-left)

## Inventory

| Component | State it keeps | Operations | What is hard |
|---|---|---|---|
| App store server (`app-store/src/server.rs`, `main.rs`) | directory of `<id>.osp` files; the registry behind one mutex | upload, search, get, download; start | handlers interleave; file and row are written by separate steps; errors of disk and SQLite half-way; killed and restarted anywhere |
| Registry (`app-store/src/registry.rs`) | SQLite table `apps` | insert, search, get_by_id, list_all, validate_app_id | durable, unlike the handlers using it |
| Packages and signing (`app-store/src/osp.rs`, `signing.rs`, `manifest.rs`) | none | from_bytes, sign, verify | files are found by the last component of their path, whatever directory they are in |
| osctl (`osctl/src/main.rs`) | `/apps/<id>.osp` | publish (signs and repacks), install, list | repacking changes the layout; HTTP status not looked at |
| Natural-language terminal (`os-agent/src/nl_terminal.rs`, `intent.rs`) | `/apps/<id>/` | create, install, run, query | several external steps, each of which may fail; other processes write `/apps` |
| App generator (`os-agent/src/app_generator.rs`) | `/tmp/opensystem-build` | generate, compile with retries, package, install | path of the package is the app's name; model answers anything |
| LLM client (`os-agent/src/ai_client.rs`, `config.rs`) | the configuration loaded | complete with retries | timeouts and pauses that add up, late answers |
| First boot (`os-agent/src/setup_wizard.rs`, `main.rs`) | `model.conf`, `.setup_done`, the network, the console's echo | wizard, load | killed between or within files; runs again over what it left; a machine id that changes |
| WASM runtime (`os-agent/src/wasm_runtime.rs`) | engine epoch; per execution a store, a ticker thread, a timer registry | execute, host functions | three kinds of threads; deadline and guards; guests that never return |
| Timer registry (same file) | ids, entries, callbacks, firings under a mutex; `done` flags outside it | set_interval, clear, drain_fired, timer threads | relaxed flags against the mutex; threads nobody joins |
| Guest storage and bindings (`os-syscall-bindings/src/lib.rs`, host functions of `wasm_runtime.rs`) | one directory all apps share, each guest's memory, callback slots | storage, net, timers, ui | writers overlap; who owns the memory a value is written to |
| Resource scheduler (`resource-scheduler/src`) | previous counters, cgroup files | collect, ask, execute every 5 s | snapshot old when acted upon; widths of integers |
| GUI (`gui-renderer/src`) | UIDL cache, event queues, entity tree | get/insert, push/drain, apply_patches, layout | queues against a tree that is replaced |
| ROM builder (`rom-builder/*.py`) | files | resolve hardware, build | none: sequential |

How they interact: osctl and the terminal talk to the store by HTTP and to each
other through `/apps`; the terminal calls the generator, which calls the LLM
client; the terminal runs installed apps in the WASM runtime, which makes a
timer registry per execution; the scheduler reads and writes cgroup files of
running apps; the GUI is called for previews of generated layouts.

What makes each correct, in a sentence:

- *Store*: what a client can find is whole, verified and for ever, and every
  answer was true at one moment while the request was handled.
- *Packages*: what is signed is what is verified, whoever repacked it.
- *Timers*: a cleared timer is gone for the guest, its thread ends, and nothing
  is lost of the others.
- *Runtime*: every execution ends but for a guest the host blocks for good, and each
  has its full budget.
- *Terminal, osctl*: what is said to be installed can be run.
- *Generator*: what is installed under an id was generated for it.
- *First boot*: behind the flag a whole configuration; every start gets to the
  prompt or on the way to it; what was typed is what the agent runs with.
- *LLM client*: a completion ends, in the time its timeouts and pauses allow.
- *Guest storage*: what was stored is read, and a read changes nothing else.
- *Scheduler*: limits written are those decided, for apps that still exist.
- *GUI*: an event reaches the widget it was meant for; patches apply in order;
  the tree is the document, a click is one control's, the cache holds what is used.

`PROJECT.json` lists the hazards at their lines with the properties that watch
them; those no property watches say why.

## Modules

### OspArchive

The package format as operators: an archive is a sequence of entries and a flag
for whole streams, a path a sequence of components. `Content` is the match of
`OspPackage::from_bytes` on the last path component, where a later entry
replaces an earlier one. A signature is the key with the bytes digested, so
that it verifies exactly when key and bytes agree (Ed25519 and SHA-256 are taken
to be what they claim, and private and public key of a pair are one name);
`content_digest` puts the two contents one after the other, and so does
`SignContent`. `AddSignature` is what osctl uploads for a signed package.

### AppStore and AppCatalog

`AppStore` is the HTTP server. One action per step of a handler between two
points where something else can happen:

| Code | Actions |
|---|---|
| extractors and multipart fields | `Receive` |
| `upload_app`: key, package, manifest, signature checks | `Reject`, `Accept` |
| `std::fs::write` (creates and truncates, then writes), `created_at` | `CreateFile`, `WriteFile`, `WriteFails` |
| lock and `AppRegistry::insert` | `Insert`, `RegistryFails` |
| response | `Acknowledge` |
| `download_app`: lookup under the lock, then `std::fs::read` | `Lookup`, `ReadFile`, `ReadFails` |
| `get_app`, `search_apps` | `GetApp`, `Search`, `RegistryFails` |
| process killed, started again | `Crash`, `Restart` |

A handler's `await`s before the checks touch no shared state, so the request
arrives whole. A registry call is one statement under the mutex, one step. A
draw of `Uuid::new_v4` gives an id never drawn before (that is what the code
relies on). `known` is a history variable: the ids acknowledged before a
request came in. SQL's `LIKE` is the constant `Matching`.

`AppCatalog` is the promise to clients: no files, rows, locks, clock or
crashes; publication is one step and answers are true of one moment.
`AppStore!ImplementsCatalog` is the refinement, with the rows joined to their
files as the catalogue; the publication step is `Insert`.

### TimerRegistry

Per timer, its thread's place in the loop of `set_interval`, its `done` flag,
its entry and callback and how often its id is in `fired`. The mutex makes each
method and each push one step. The flags are outside the mutex and loaded
`Relaxed`: `Load` may give the old value until the thread has locked the mutex
after `clear` did (`aware`), which orders the two. The order within `fired` is
left out, no property depends on it; so is the length of a sleep.

### WasmExecution

`WasmRuntime::execute`, one execution after another on one engine, with the
`EpochTicker` thread, the deadline set before the module is loaded, the guest's
calls, and the guards dropped in reverse order (ticker told and joined, then
store, linker and registry). It instantiates `TimerRegistry`. After `Return`
the threads of timers that were not cleared go on: each keeps a clone of the
registry's `Arc`, so `TimerEntry::drop` never runs. An execution's registry is
seen until the next one makes its own.

A call of the host keeps the guest's thread where nothing looks at the epoch. One
that makes an HTTP request or reads a file (`EnterHost`, `LeaveHost`) comes back,
the request by `HTTP_TIMEOUT_SECS`. One that sleeps in WASI's `poll_oneoff` for as
long as the guest says, or waits for the program `notify_send` starts (`Block`,
`Unblock`), owes nothing.

### AppLifecycle

How an app comes to be on a machine and to be run: terminals (processes of
os-agent) and osctl processes that share `/tmp/opensystem-build` and `/apps`,
which no lock guards. The store is the catalogue of `AppCatalog`, instantiated:
`Upload` is a `Publish` of it, a download its answer or an HTTP error.

| Code | Actions |
|---|---|
| `generate_and_install`: id drawn, code asked for | `Create`, `CodeGenerated` |
| `compile_with_retry` | `Compiles`, `DoesNotCompile`, `CodeFixed` |
| layout and icon, then the manifest and `tar -c` of `package_osp` | `Design`, `OpenPackage`, `ClosePackage` |
| `tar -x` of `install_app` and of `handle_install_app` | `StartExtract`, `FinishExtract` |
| `handle_install_app`, osctl's `cmd_install`: search, download, write | `Install`, `Download`, `OpenSaved`, `FillSaved` |
| osctl's `cmd_publish`: read, sign and repack, upload | `ReadPackage`, `Upload` |
| `handle_run_app`: manifests read, one match, wasm opened, executed | `Match`, `NotOneMatch`, `StartApp`, `AppEnds`, `AppHangs` |
| any error, or the process killed | `Fails` |

Files carry the id of the build they come from, so that files of two builds can
be told apart. tar and `std::fs::write` empty a file before they fill it, and
those are two steps. Extraction removes a file before writing it anew, so its
middle (`HalfExtracted`) may have some files out and one gone. Two tars writing
to one path may spoil each other's output (`Disturbed`). `prompt.txt` and
`icon.svg` are handled as the wasm is and left out; so is the check of the
store's URL, which only refuses. Which names the model takes a request to run
for is any set of names, since a part of a name is enough. A run that blocks in the
host (`WasmExecution`) never gives the terminal back (`AppHangs`). `PackagePath` takes a
name for one component: `package_osp` puts spaces and capitals right and leaves a
"/" in, whose package would lie in another directory, or nowhere.

### EventBridge

The three queues of `event_bridge.rs` and the tree of `uidl_to_ecs.rs` they are
about. `Click`, `TypeText` and `HoverOrKey` push events with the target the user
had in mind (history); `ProcessEvents` routes all of them by the tree of that
moment; `DrainOutbound` hands callbacks to the app; `Update` and `Replace` push
patches and change the app's own picture; `Render` and `Rerender` are
`drain_patches` and `apply_patches`, the second when a `FullReplace` is among the
patches. The caller parses what a `FullReplace` holds; if it cannot
(`RefuseReplacement`), the patches before it were applied, and it is lost with those
behind it. Nothing in the repository calls the bridge yet: its callers are those
its comments describe ("Called by the input handler", "Called once per frame",
"Used when switching apps or on full re-render"), in any order, so this module
says what such callers get, `clear` included. Boxes are reduced to which widgets
a point lies in, texts to the number of the patch that set them. One thing the
model shows needs no run: `apply_patches` stops at a `FullReplace` because "further
patches are stale", but the queue is first in, first out, so those behind it are
newer, and they are lost. `PatchesCatchUp` is about frames in which nothing was lost
with or behind a `FullReplace` (`dropped`): after a loss the display and the app differ
until the next one, in the code too.

### Scheduler

One loop (`AiDecisionLoop::run`) and the apps' cgroups around it, which anything
may make, use and remove.

| Code | Actions |
|---|---|
| `interval.tick`, `CgroupMonitor::collect` lists the slice | `Tick`, `CollectFails`, `Collected` |
| `read_metrics_with_delta`, one app | `Read` |
| `ask_llm` | `Answer`, `AskFails`, `AskPanics` |
| `CgroupExecutor::execute`, one action | `Set`, `Kill`, `NoOp`, `ActionFails`, `Panic` |
| `decision_tick` returns | `Done` |
| apps and the kernel | `StartApp`, `Use`, `StopApp` |

One counter stands for CPU time, bytes read and bytes written, each compared
with its own last reading. A file that cannot be read counts as 0, for a cgroup
that is gone or any other reason. Time is left out: rates are the deltas they
come from, and the hazards name what the wall clock can do to them. History notes
what was used since the last reading and how that reading went (`since`, `last`), anew
with each one. `DeltasWereUsed` says that a delta is no more than that use, and all of it
while the cgroup stays the same, except after a reading that failed: it counted as one of
0, so the next delta is of the app's whole life (`EveryDeltaWasUsed` is false). The model
may answer any of `Decisions`; "." passes `validate_app_id` and names the slice
itself. The width of integers is `U64` and a mebibyte `MiB`, both small in the
run; the product of the two that set_memory_limit forms panics in a build that
checks for overflow (the one the README's `cargo run` makes) and wraps in one that
does not, so `OverflowChecks` gives TLC both.

### LlmClient and OsAgentBoot

`LlmClient` is `AiClient::complete`: attempts up to `retry_count` (0 still makes
one), a pause of 500 ms times the attempt between them, a timeout each. A
response counts as an answer by what its dialect reads of it (`Answers`): the
first choice, or the first part of type text, which is an error if it has no
text. `FinishLate` is an endpoint at work for nobody.

`OsAgentBoot` extends it to a machine from power-on to the prompt.

| Code | Actions |
|---|---|
| `main`: flag looked at, `ModelConfig::load`, the terminal | `Start`, `Load`, `LoadFallback`, `LoadFails`, `Terminal` |
| `run_dhcp`, `configure_static_ip` | `Dhcp`, `StaticAddress`, `StaticRoute`, `WriteDns`, `StaticRefused` |
| `configure_wifi` | `AskWifi`, `TypeWifi`, `WriteWpa`, `StartWpa` |
| `test_connectivity`, `test_api`, which only warn | `Ping`, `TestApi` |
| `configure_ai_endpoint`, `prompt_password` with its `EchoGuard` | `AskUrl`, `AskKey`, `AskFallback`, `AskFallbackKey` |
| `save_config`, `encrypt_api_key` | `EncryptKey`, `EncryptFallback`, `EncryptPanics`, `Truncate`, `WriteConfig`, `RestrictConfig` |
| `main` writes the flag | `WriteFlag` |
| `?` anywhere; the process killed; the machine, systemd, the user | `ToolFails`, `Kill`; `Reboot`, `MakeId`, `EditByHand` |

A key in the file is the key and the machine id it was XORed with; it decrypts
under the same id and is garbled otherwise. Each key is encrypted, and decrypted, with
the id of that moment, so two keys of one file may be under two ids;
`RunsWithSavedKeys` is about each key whose id is still there, as nothing in the code
could tell that one changed. `stty -echo` may fail, and nobody looks (`EchoOff`): the key is then
seen as it is typed. An `stty` that worked is taken to work again when the guard
is dropped. `saved` is history. Two states are
dead ends, `Stuck`, and named in the liveness property: a machine id that is
there and empty, where `i % machine_bytes.len()` divides by 0, and a file behind
the flag that holds an entry its template does not escape for TOML. What the
module shows besides: a `model.conf` written by hand with its key in the clear, as
`README.md` of the repository has it, is XORed into garbage like any other; a wizard that
was killed after `ip addr add` is refused a static address ever after, and needs
DHCP; the file with the WiFi password stays when `wpa_supplicant` cannot be started;
the fallback endpoint is asked for, saved, loaded and never used.

### GuestStorage

The host functions that write to a guest's memory, `storage_read` and
`net_http_get`, and `storage_write`. A host function runs without its guest, but
every app's id is "default", so guests of all processes share one directory, and a
write is two steps, `OpenForWrite` and `Fill`, with `FillFails` for a full disk.
Memory is a sequence of cells of four bytes, one for a length and one for each
part of a value; `Place` and `Room` are the buffer a guest passes, `ErrorPlace` and
`ErrorRoom` the one for errors. For a guest of the bindings each is a `u32` on its stack,
one cell. A value, a body and an error message have limits of their own (`MaxValue`,
`MaxBody`; none for a message, of any length in `Messages`, as it holds the URL and the
client's text). The host knows no more of the room than where memory ends. A redirect
is not followed and is a response like another. `StoredStays` and
`ReadsAreOfTheLastStored` are about keys whose last write ended well and met no other
(`clean`): what overlapping or failing writes leave in the file is modelled, a value
mixed from two or a part of one, and stays until the next one.
`Instantiate` compares the
types of a module's imports with the host's: `timer_set_interval`, `timer_clear`
and `notify_send` are declared otherwise in the bindings, so a module that uses
them is not linked, and the callback slots behind them are not modelled.

### WidgetLayout, UidlCache, UiWindows and UiPipeline

`WidgetLayout` has the two recursions of `widget_system.rs`, over heights and over boxes,
and the loop of `uidl_to_ecs.rs` that makes the entity tree of the flat list they leave,
with its stack of frames (`AddNode`). `UidlCache` is the cache, with the order of
accesses for their times. `UiWindows` has the windows that share it as the comments of
the code tell callers to, as there are none yet: a document is looked up, made by the
model on a miss without the lock, and inserted. `UiPipeline` composes that with layout:
what was found or inserted is laid out and built into a tree. A widget is a member of
the constant set `Widgets`, and heights and boxes are recursive functions on that set,
which `Depth` bounds: `serde_json`, with which `UidlDocument::parse` reads a document,
refuses one nested too deep (`MaxDepth`). `HitTest` is `hit_test`: the last
control whose box holds the point, edges included. So a click on an edge two controls
share is the later one's, and a control without a width takes clicks on its line; one
within a control, its edges left out, is that control's (`ClicksHitTheirControl`). Lengths are whole tenths of a pixel where the
code has `f32`, whose rounding is not modelled.

## Runs

| Run | Question | Bounds |
|---|---|---|
| `store` | Do files, rows and answers agree under interleavings, failures, crashes? Is it an `AppCatalog`? | 3 requests (plain upload, signed or rejected upload, reader), 2 ids, clock 0..1, any number of crashes |
| `timers` | Do maps, threads and firings agree, stale flags included? Do cleared threads end? | 3 timers under a limit of 2, 2 callbacks, 2 firings waiting |
| `execution` | Does each execution end that the host does not block, with its own full budget? | 2 executions, deadline of 2 ticks, 1 tick past it, 2 timers |
| `lifecycle` | Can apps of other processes get mixed up with the one generated, installed or run? Are installed files those published? Is each command of boundedly many steps? | 2 terminals, osctl at one of them, 2 ids (symmetric), 3 names of which 2 share a path, with and without a key, 2 attempts at compiling |
| `installed_apps` (violation) | Can what is said to be installed from the store be run? | 1 terminal, 1 osctl, 2 ids, 1 name, with and without a key, 1 attempt |
| `gui_events` | Do callbacks reach the widgets they were meant for, and do patches add up? | 2 documents of 4 widgets, replacements that parse or not, 5 points, 3 patches, 2 events or callbacks waiting |
| `scheduler` | Do snapshots tell the truth, are decisions carried out beside failures, do ticks end? | 2 apps, decisions of one of 9 actions, or of it and one of 4, weights to 2, 64 bits as 16 and a MiB as 4, a use of 1 between readings |
| `boot` | Is the configuration whole and the right one, does echo come back, is the prompt reached, do completions end in time? | 1 key and the empty one, 3 machine ids, 2 faults, 3 attempts, timeouts of 2 pauses |
| `guest` | Do values stay and come back, and whose memory is written? | 4 guests of 3 apps (bindings, roomy buffers with HTTP, buffer at the end of memory, one that does not link), 1 storage key, 3 writes, values up to 2 cells, bodies up to 2 and one over the limit, messages of 1 and 2, memory of 7 |
| `storage_isolation` (violation) | Is what one app stores kept from the others? | as `guest` |
| `guest_data` (violation) | Do guests of the bindings keep their data? | as `guest` |
| `ui_pipeline` | Does the cache hold what was used last, is the tree the document, whose is a click? | 2 windows, 3 keys, cache of 2; 3 documents up to 4 stacks deep (`MaxDepth`) with 3 gaps and 3 paddings, 3 canvases |

Why these are enough: a hazard of the store needs at most two writers and a
reader, as a file or row belongs to one upload and requests do not otherwise
meet; a clock of two values tells stamps apart. A timer's thread meets the host
and no other thread but through the mutex; three ids let one be reused, and a
limit of two lets the third be refused before one is cleared. Two executions
let the first one's threads reach into the second. Terminals meet at a package's
path or in a directory under an id, two at a time; the third name has a path of
its own. Two ids let both be the generator's, or one be the generator's and one
the store's, so that an app is generated, published and installed again beside
itself. A widget of one of
the GUI's documents is elsewhere, of another kind or missing in the other, and three patches are a text before and one after
a replacement. An app of the scheduler's can use something, be read, start again
at 0 and be read again; two actions are one that fails and one beside it. Two
faults of the boot are a kill and a second one of the wizard that follows it, or
a kill and another machine id. Three writes let two overlap and one follow.
Documents have a stack that is empty, is a last child, ends with its parent, and
has a control after it; a canvas is narrow, low or neither. The proofs remove
these bounds for the invariants of the store, the registry, the boot, guest
storage, the event bridge, the cache and what is under `/apps`, for the budget of an execution, for what the scheduler's snapshots say and
its decisions do, and for the store's implementing its catalogue.

But for guests, all of which end, nothing is exempt from the deadlock check: a crashed store can restart, a
registry can always refuse or drain, and an idle runtime can be asked for a file
that does not exist.

**Fairness.** Store: weak fairness of each handler, for the runtime polls a task
that can go on; none for clients, the clock, crashes and restarts, so that a
request may be lost with the process (`EveryRequestAnswered` says so). Timers:
weak fairness of each thread, which the OS schedules; none for the guest.
Execution: the same for the ticker, the loading of a module, a request or file
access of the host (`LeaveHost`: an HTTP request times out after 10 s) and the
guards; strong fairness for the interruption, since a guest that calls the host
over and over still passes an epoch check at each loop head. A guest owes nothing,
and neither does a sleep or a program it waits for (`Unblock`): nothing in the
code bounds them, so `EveryExecutionReturns` excepts the guest that stays blocked
for good. Lifecycle: none. A command may wait for ever for a store, a compiler or an
app; that it has boundedly many steps is an action property (`CommandsAreFinite`). The run of the GUI checks safety
alone. Scheduler: weak fairness of the loop, as the call of the model times out
after 15 s; none for apps. Boot: weak fairness of the process, since init
starts it again and the user answers prompts; strong fairness of choosing DHCP, as
a user who insists on a static address the machine refuses gets nowhere; weak
fairness of the client's own steps, each of which has a timeout. Faults are
bounded, by two, so the machine may always fail once more before it is left alone.

**What the violation runs show.** A package osctl signs has its entries at the
archive's root, as the store's own README draws it. The terminal unpacks with
`--strip-components=1`, which leaves out exactly such entries and reports
success: "Installed", and nothing to run.

The bindings' `storage::read` hands the host the address of a local `u32` and reads
the value through the pointer it gets back, which it takes to be the host's. The host
writes the value behind that `u32`, over whatever the guest keeps there: its comment
asks for a buffer of `4 + value_length` bytes. A guest that passes one keeps its
data (`RoomyGuestsKeepTheirData`, proved).

Storage "per app" is one directory: the host functions take the app's id to be
"default" whatever guest calls them, so a guest of one app reads the value another
app stored. `README.md` of the repository lists isolation as working and verified by
tests, which call `storage_dir_for_app` with ids no execution has; `SECURITY.md` says
it is deferred.

Every property of a passing run has a mutant in its module, marked `Fault`: the
definition with the bug a hurried change could make, under which TLC finds the
property violated.

## Proofs

Each proof module shows an inductive invariant `IInv` (`Init => IInv`,
`IInv /\ [Next]_vars => IInv'`) and derives its properties from it; of the store
and the registry, TLC checked `IInv` on the instances above first.

- `AppStore_proofs` assumes `NoId` is no id and refused ids are none
  (`IdsAssumption`), uploads hold at most one package (`UploadsAssumption`),
  requests ask what is a call (`AsksAssumption`) and the clock's bound is a
  number. The properties lean on each other: `DistinctIds` (one handler per id)
  and `HandlersAgree` (what a handler has at each step: before `Insert` its id
  has no row, at `Insert` its file is whole) make published rows immutable, so
  what was answered (`Outcomes`) and what a client could know
  (`KnownArePublished`) stays true, and stamps follow (`StampsInOrder`). Most
  steps only answer: lemma `AnswerIInv` deals with them at once, given that the
  answer is `Truthful`. Proved: types, the invariants of the run `store`, and
  `PublishedNeverChanges`. The refinement of the catalogue follows from that
  invariant: `Init` maps to the catalogue's, `Insert` is its `Publish`, each reply is
  the answer it tells a client, and every other step stutters, a crash and a restart
  included. An accepted upload is publishable, a published app has one row and one
  file (`RowsHaveFiles`), and a handler that reads a file looked up its row before
  (`HandlersAgree`), which is why a download tells the package at the moment it is
  answered.
- `TimerRegistry_proofs` assumes only that the bounds are numbers. Missing from
  the properties are that unused ids leave no trace, and that a thread which has
  not locked the mutex since `clear` has pushed nothing, while one that has is
  back at the head of its loop and will see the flag (`StaleFirings`). Proved:
  all the registry's properties but the liveness one.
- `WasmExecution_proofs` assumes the bounds and the deadline are numbers. Only the
  ticker of the execution going on can still advance the epoch (`OneTicker`: `execute`
  joins its ticker before it returns), so that epoch and deadline stay as far apart as
  that ticker has ticks to go (`BudgetLeft`). What is proved of a registry is carried
  over to that of each execution by an instance of `TimerRegistry_proofs`.
  Proved: types, `InterruptedAfterFullBudget`, `MapsAndThreadsAgree` and
  `AtMostOneStaleFiring`.
- `OsAgentBoot_proofs` assumes that the empty key is a key, that "nothing" is no
  machine id (`BootAssumption`), and that there is a timeout (`ClientAssumption`).
  `FlagMeansSaved` needs what the file holds at each stage after `save_config`
  wrote it, and that the wizard runs only without the flag (`SavedInOrder`);
  `RunsWithSavedKeys` that a file is encrypted under the id there is, or was
  before there was one (`UnderAnId`); `SetUpMeansEcho` that the console echoes at every
  stage that leads to the flag (`EchoOK`). The client's time is bounded by what the
  attempts so far can have taken; multiplication of variables is the solver's
  weakness, so those sums are lemmas of their own. Proved: types and the four
  invariants of the run `boot`.
- `GuestStorage_proofs` assumes that values and bodies are sequences and that buffers lie
  in memory's numbering (`StorageAssumption`). The invariant adds that memories keep
  their size, and that who writes a clean key writes alone, over an empty file. Guests that link or not, and
  memories of any size, make no difference. Proved: all three properties of the run `guest`.
- `Scheduler_proofs` assumes that the slice is no app (`SliceAssumption`), numbers, and
  that decisions are sequences of the actions there are (`DecisionsAssumption`). `DeltasWereUsed` says what
  a snapshot holds; what makes it inductive is the same of the next one
  (`NextDeltaWasUsed`): what a counter has grown by since its last good reading is
  no more than the use since then, and all of it in the same cgroup, whether the app
  stopped, started or went back to 0 in between. The reading after a failed one is not
  covered, as the code is wrong there.
  Only `StartApp`, `Use`, `StopApp`, `Read` and the end of a tick touch those
  variables. For `DecisionsAreCarriedOut` the invariant says of the actions before
  the current one what the property says of all of them (`CarriedOutSoFar`): an
  action's effect is there unless a later one of its kind and app has replaced it (`TookEffect`). Proved:
  these two.
- `Gui_proofs` has the proofs of `EventBridge`, `UiWindows` and `UiPipeline`. It assumes that
  documents are sequences of nodes with at most one action (`DocumentsAssumption`),
  and that bounds are numbers. For the bridge, an event in the queue means what its
  node's callback would be now (`EventsAreMeant`), which `Rerender` keeps by clearing
  the queues and `Render` by leaving kinds, ids and actions alone; the numbers of
  waiting patches grow and are past those on display (`TextsInOrder`), so that texts do not go
  back; and `CaughtUp` says of the patches waiting what `PatchesCatchUp` does. What a
  fold of patches does is reached by giving it as a function on the numbers of turns
  (`DrawIter`), whose values at n are characterised by induction over finite sets of
  numbers (lemma `SetInduction`: of the sets without the property, a smallest one).
  For the cache, `recency` repeats nothing and lists what is cached, `uses` repeats nothing and
  is no longer than the cache may be, and one is a suffix of the other: so the head that
  is evicted is the oldest.

  For layout it assumes that options are lengths, that a container's children are
  widgets nested less deep than it (`WidgetsAssumption`), and that apps' documents are
  widgets (`PipelineAssumption`). The functions defined by recursion over widgets are
  shown to exist (`RecursionExists`), and what is said of all widgets is shown of one
  given it of its children (`WidgetInduction`). A child's box stays within its parent's
  reach, lies beyond its earlier siblings' in the direction of the stack and, where
  there is room, within the parent (`ChildBoxes`). The list layout leaves for a widget
  is the widget and then its children's lists (`LayoutParts`), so two controls of one
  list are either below one child, or below two that lie beyond each other. No control
  later in the list covers a point within one (`LaterControlsAreOutside`); an earlier one
  without a width may, but `hit_test` goes from the last to the first (`HitIsLast`). The builder, given the part of the list that is one widget, links
  that widget's tree and leaves the stack as it found it but for one more child
  counted (`AllDone`, by `NextChild`), as a frame that is full is popped at once. The
  invariant of the composition (`Showing`) is that the cache holds the app's documents
  and that what is shown was made of one of them, on the app's canvas.

  TLC checked the three invariants first. Proved: types, `CallbacksAreMeant`,
  `PatchesCatchUp`, `TextsNeverGoBack`, `RecentlyUsedAreCached`, that the cache keeps to
  its capacity, `TreeIsTheDocument`, `ClicksHitTheirControl` (and the same of every point,
  `EveryClickHits`), `NaturalHeightIsEnough`, and
  that the pipeline implements the windows (`PipelineWindows`).
- `AppLifecycle_proofs` assumes no more than the module does. The argument is about who
  may write to `/apps/<id>`: an id is drawn by one generator or by the store, never by
  both (`IdsApart`). Under a generator's id one process extracts once, one build
  (`OwnDirs`), made under a name with the package's path (`PackagesAreBuilds`,
  `NamedDirs`); under the store's, every extraction is of what was published, of a part
  of it or of an error that holds no file (`StoreIsSane`, `FromStore`). So a directory with files has those of one
  build, and so has all that may still be written to it (lemma `DirsOfBuilds`), which
  is what a terminal relies on between a manifest and its wasm (`MatchesLast`). TLC
  checked the invariant on its instances first. `CommandsAreFinite` is proved with what
  is known of attempts at each stage: each step of a command comes one stage nearer its
  end, or goes round the compiler's loop with one attempt less. Proved: the six
  properties of the run `lifecycle`.

Only model-checked: the liveness properties, which need fairness and are out of the
prover's reach. Every invariant of a passing run is a theorem.

## What does not hold

These properties are stated in the modules, are violated, and have no run of their
own; put in place of the INVARIANTS or PROPERTIES of the configuration named, TLC
shows the steps.

| Property | Configuration | What the code does |
|---|---|---|
| `FiringsArePolled` (invariant) | `MCWasmExecution.cfg` | `drain_fired` has no caller, so no callback of a timer is invoked and firings pile up until the execution ends; the comment on `TimerRegistry` says the host polls them |
| `TimersEndWithExecution` (property) | `MCWasmExecution.cfg` | a timer that is not cleared leaves its thread and the registry running in the agent: entry → thread → registry → entry keeps `TimerEntry::drop` from running |
| `GeneratedUnderOwnId` (invariant) | `MCAppLifecycle.cfg` | a generated package lies at a path made of the app's name, so that one of two terminals may install the other's under its own id; that a directory never mixes two builds is checked (`DirsAreOfOneBuild`), and that it takes names with one path (`ForeignOnlyByStem`) |
| `LoopGoesOn` (invariant) | `MCScheduler.cfg` | an HTTP error whose body has a character across byte 200, an answer whose last `}` comes before its first `{`, or, in a build that checks, a limit of 2^44 MiB panics and ends the loop; for an app without a limit the model is told 2^44 - 1 |
| `ExecutionsAreInterrupted` (property) | `MCWasmExecution.cfg` | the comment on `EPOCH_DEADLINE` gives apps 30 seconds "before being interrupted", and `SECURITY.md` calls CPU spin resolved: a loop is, but a guest that sleeps in `poll_oneoff`, or waits for a program `notify_send` started, stays as long as that takes, since the epoch is not looked at in a host call |
| `EveryDeltaWasUsed` (invariant) | `MCScheduler.cfg` | "Calculate deltas against previous snapshot": a reading that fails is kept as one of 0, and the next delta is what the app used in its whole life |
| `RequestersKeepTheirData` (invariant) | `MCGuestStorage.cfg` | an error message of any length is written behind `err_len`, so that room for any value and body does not keep a guest's data whole |
| `NoPointIsInTwoControls` (invariant) | `MCUiPipeline.cfg` | boxes side by side without a gap share an edge, which is in both as `hit_test` includes edges (the later one gets the click) |
| `OnlyWideControlsAreHit` (invariant) | `MCUiPipeline.cfg` | a control whose width went to 0 takes clicks on its line |
| `PublishedKeepLayout` (invariant) | `MCAppLifecycle.cfg` | repacking for a signature drops `uidl.json`, while the manifest says `has_uidl` |

## What is left

Not modelled, and why:

- The file cache and power loss: a crash here is the process's, so what was written
  stays. A power loss could keep SQLite's row (synced) and lose the file (not
  synced); nothing in the code promises otherwise.
- Painting: pixels, colours, fonts (`bevy_renderer.rs`, most of `widget_system.rs`) are
  sequential floating-point code, better compared with pictures. Reading it showed
  that `parse_color` slices a string by bytes and panics on a character of several,
  and that a control of width 0 is painted a pixel wide, and takes clicks on its line only.
  The entity tree's own defaults for a padding (0) and a spacer (16) are not those of
  layout (8 and 8); only layout's reach a box.
- The bindings' callback slots: a module that imports the bindings' timers does not link.
- `ui_render`, `ui_update`, `notify_send` and the guest's pipes: they log or start a
  program and keep nothing.
- Host functions on a pointer or length below 0: the sums or slices made of them panic in
  the agent. Guests here pass places of their memory.
- The `tar` of an agent that is killed half-way, which goes on as an orphan: here it ends
  with its process, so nothing is written under `/apps` by nobody.
- `http_get` of the bindings: the host returns 0 with an error, where the comment on
  `http_get` has an error pointer, so that the message written is never read and the
  guest is told "empty response". Of both sides only the types are compared.
- An `stty echo` that fails where the `stty -echo` before it did not.
- Hex, JSON, tar, gzip and TOML as encodings; a manifest is reduced to its name.
- Classifying intents, file and system queries of the terminal: they print what the
  model answers.
- ROM builder scripts and the system's image: they run once, in order, under a
  person's eyes. `OPENSYSTEM_CONFIG` pointing elsewhere than the wizard writes to.

What the tools cannot reach is model-checked only: liveness, which needs fairness.
