# Verification of agentica-server's sandbox build pipeline and development UIs

This directory holds TLA+ models of the parts of agentica-server that carry state:
- the shell pipeline that cross-builds the WebAssembly sandbox (`src/src/sandbox/build/*.sh`);
- two polling browser UIs used during development (`fancy_logger/static/app.js` and the mock-responder page in `src/unnamed/part_000`).

It has TLC configurations for small instances and TLAPS proofs of the main safety facts.

## 1. Inventory

### Components

| Component | Source | State | Operations |
|---|---|---|---|
| ToolchainProvisioner | build_cpython.sh 15-68 | `_tooling/wasi-sdk-*.tar.gz`, the staging directory `wasi-sdk-27.0-PLATFORM`, `wasi-sdk-27.0/` | platform detection; download unless cached; `shasum -c --ignore-missing`; untar into staging; `mv` into place; clang and builtins checks |
| RuntimeCrossBuilder | build_cpython.sh 70-144 | `Python-3.12.0.tgz`, `Python-3.12.0/`, `py-headers-3.12/` | skip if the headers directory exists; download; checksum; untar in place; `uv sync` and `./configure`; `rm -rf`, `mkdir` and copy of the headers |
| ExtensionBuilder | build_host.sh 10-128 (msgspec), build_xxhash.sh 1-151 (xxhash) | the archive, `build/<ext>/`, `<ext>-wasi.tar.gz` | cache hit; prerequisite checks; build-dir reset; download; checksum; unpack, copy, `clang -c`, `wasm-ld`; `tar -czf` to the final path |
| PrebuiltDependencyFetcher | build_xxhash.sh 178-188 | `pydantic_core-wasi.tar.gz` | download unless cached; checksum |
| ComponentAssembler (guest driver) | build_xxhash.sh 152-230 | `.venv`, `env.wasm` | run build_cpython.sh if needed; run each extension script if its tarball is missing; rebuild the venv; `tar -xf` ×3; prelude; `componentize-py` |
| ArtifactCache | all three scripts | the tool-cache as a whole | the `-f`/`-d`/`-x` existence tests that decide what is redone |
| HostBuild fragment | build_host.sh 1-9 | `env.wasm.compiled` | deletes the compiled cache; nothing reads it (not modelled) |
| LogViewer | fancy_logger/static/app.js 1-485 | `typeStates` and its localStorage copy, `selectedUid`, `selectedIid`, `lastVersion`, the rendered tiles, tabs and message list | `loadTypes`/`loadUids`/`loadIids`, `renderMessages`, the initial load, the `maybeRefresh` timer, tile, tab, refresh and clear clicks |
| MockResponder UI | part_000 1-350 | the rendered pending list, `selected`, the details pane, `autoSubmitting` | the `tick` timer and its auto-selection, `select`, `sendResponse`, `clearPending`, the `setTimeout` re-ticks |
| Documentation | part_000 353-423, part_001 | — | prose, not modelled |

### How the parts interact

The guest driver is the only entry point that composes the others. The scripts communicate only through the file system. An artifact's *existence* is the cache key, and each script tests it before redoing work.

Any script may also be run on its own. For example, an extension script run directly checks its prerequisites, clang and the headers, and refuses with a configuration error when they are missing.

The UIs talk to the development servers over HTTP polling. They share nothing with the build pipeline.

### Hard behaviours

- A run can be interrupted at any point: a signal, a `set -e` failure or a network loss.
- A run can be restarted on whatever it left behind.
- A download can be cut short or come back wrong.
- The sums file may lack a line for the platform. Then `--ignore-missing` checks nothing.
- Caches are trusted by existence, never by content.
- In the UIs, an async fetch started by a timer can overlap another one, or overlap a click. Responses then land out of order, and state read before an `await` is stale after it.

### Correctness properties

The properties come from spec.md §3-§7.
- No artifact is left falsely complete.
- Nothing unverified is used.
- A successful build is sound.
- Cached outputs are never rewritten.
- A clean rerun recovers.

## 2. Modules

| Module | Models |
|---|---|
| `BuildPipeline` | ToolchainProvisioner, RuntimeCrossBuilder, ExtensionBuilder, PrebuiltDependencyFetcher, ArtifactCache and ComponentAssembler |
| `WriteOnceCache` | The abstract tool-cache: a store whose keys are filled at most once and never rewritten, which `BuildPipeline` refines |
| `MCBuildPipeline` | TLC instance: `MaxFaults = 2` |
| `BuildPipelineProofs` | TLAPS proofs about `BuildPipeline` |
| `LogViewer` | The log viewer page (app.js) together with the log server it polls |
| `MCLogViewer` | TLC instances: one or two log records, two chains in flight |
| `LogViewerProofs` | TLAPS proof of `TypeChoicesWhileReliable` |
| `LogViewerTypeProofs` | TLAPS proof of `LogViewer`'s `TypeOK`, with the budget of pending DELETEs |
| `MockUI` | The mock-responder page (part_000 1-350) together with the mock server's pending queue |
| `MockUIProofs` | TLAPS proofs of `SubmitFlagWhileReliable`, `SubmitFlagTracksSend` and `SingleSend` |
| `MockUITypeProofs` | TLAPS proof of `MockUI`'s `TypeOK`: every id the page holds has arrived |

### State of `BuildPipeline`

| Variable | Meaning |
|---|---|
| `pc` | The step the running script is at, or `init`/`done`/`failed` between runs. |
| `entry` | Which script was invoked: guest, cpython, msgspec or xxhash. |
| `cur` | Which extension the guest driver is on. |
| `file` | Maps every tool-cache path to `absent`, `partial`, `good` or `tainted`. `tainted` means complete but built from unverified bytes. |
| `faults` | Interruptions and bad downloads so far, bounded by `MaxFaults`. |
| `err` | The error the last run stopped with (`IntegrityError`, `ExtractError`, `ConfigurationError`, ...). |

### Actions

There is one action per step of a script, named after what the code does there. `map` in PROJECT.json gives each action's lines. Some details:

- **Writes and crashes.** Every action that writes a path also has a `Torn(a)` disjunct. It models an interruption in the middle of that write, which leaves the path `partial`. `Interrupt` models an interruption between steps.
- **`Fetch`** models `curl -fL -o` into the final path. A download can produce a good file. As a fault, it can instead produce a wrong file (`tainted`), or a cut-short file (`partial`/`absent`) followed by `DownloadError`.
- **`Derive`** gives the content of a built output from its inputs. The output is good only if every input was good.
- **Sequencing.** Control returns from an extension script to the driver through `ExtReturn`. This mirrors the driver's fixed order: msgspec, then xxhash, then assembly.
- **Constants.** `WasiSumListed` says whether the sums file has a line for the detected platform.
- **Checks the model leaves to `Clang`.** `ExtractWasiSdk` stops at the rename (build_cpython.sh 45-54). The clang and compiler-rt builtins checks that follow (56-68) are not modelled, because `ToolchainNeverPartial` makes the toolchain complete whenever the rename ran. In the same way, the extensions' runtime-directory check (build_host.sh:61) is covered by `Clang`, which stands for a complete toolchain.
- **What `ExtCompile` abstracts.** It leaves out the source-layout error (build_host.sh:87, build_xxhash.sh:79) and the wrapper search (build_xxhash.sh 102-109): a verified archive has the expected layout. It assumes that an incomplete header set makes the compile fail. A torn copy misses `pyconfig.h` (copied last) or headers that `Python.h` includes, so the compile fails. The model does not cover an interruption that leaves only headers the extension never includes.
- **One run at a time.** Runs follow one another. Nothing in the repository starts two pipeline runs on one `_tooling/` at once, so concurrent runners are not modelled.


### State and actions of `LogViewer`

Every async function of app.js is a **chain** of fetches (`Chain`):

| Chain | Started by | Fetches, in order |
|---|---|---|
| `init` | the async IIFE at the bottom of the file | types, uids, iids, msgs, version |
| `refresh` | `maybeRefresh`, from `setInterval` | version, then, if it changed, types, uids, iids, msgs |
| `clear` | the clear button | delete, then the four loads |
| `render` | `renderMessages()` from a click | msgs |
| `iids` | `loadIids(uid)` from a uid tab | iids |

A chain runs in one of `MaxTasks` task slots (`tasks`). Each fetch takes three steps:
- it is **issued** by the synchronous code before its `await`, with the query the page state gives then (`Query`);
- it is **answered** by the server, which reads its log at that moment (`Answer`, `AnswerDelete`), or it **fails** (`FetchFails`);
- its **continuation** runs (`RecvTypes`, `RecvUids`, `RecvIids`, `RecvMsgs`, `RecvVersion`, `RecvDelete`, `RecvError`). It renders, updates the page state, and issues the next fetch or ends the chain (`Continue`).

Steps of different slots interleave freely. Replies are therefore answered and delivered in any order, as the browser's connections allow.

Some details of the actions:
- **`loadIids('')`.** With no uid selected, `loadIids` renders no tabs and returns without a fetch. `RecvUids` then issues the messages fetch in the same step.
- **Errors.** `RecvError` ends a chain on a rejected fetch:
  - `maybeRefresh` catches the error;
  - the initial load catches only around `/version`, so the timer is started only when the load got that far;
  - every other caller leaves the rejection unhandled.
- **Rendering errors.** `renderMessagesList` can throw on a malformed record: `b.type` of a null body, `escapeHtml` of a null `delta.content`, or `JSON.parse` of a tool-call's content (app.js 351-363). `RecvMsgs` has no such error path; records are abstract and always well formed. In the initial load, such a throw would stop the page before `setInterval`, a second route to what polling_never_starts shows for a failed fetch. No run's verdict depends on it.
- **DELETE failures.** The clear handler ignores them (`RecvDelete`).
- **Type tiles.** A click cycles the tile (`Cycle`) and saves the whole map to localStorage. The write may throw; the error is swallowed and counted in `fails`. `RecvTypes` is `loadTypeStates` plus `renderTypePanel`. It rebuilds `typeStates` from localStorage and keeps only the valid entries. The stored map may hold values an older page wrote (`"other"`).
- **The server.** Appends and the delete handler are modelled from the spec and the page's use of them (they are not under src/). `AppendLog` is an agent writing a record; each append or delete bumps `/version`.

Data is abstract: a record is `[uid, iid, type]` from the constant `Msgs`; a filter is `[uid, iid, inc, exc]`. Layout, colours, JSON formatting, the drag-resizable panels and the detail pane are left out. None of them reads or writes the state above.

### State and actions of `MockUI`

The page's variables are `selected` (0 for `null`), `detailsShown` (the details pane is visible), `autoSubmitting` and `listed`, the `/mock/pending` reply last rendered. The server side is `n` (requests that have arrived, numbered `1..n`) and `done` (requests answered). A list is abstracted to a `[seen, dn]` snapshot: the requests `1..seen` of which `dn` were completed; `Open(l)` is the open ones and `Newest` picks the newest of them, as `list.find(!completed)` does on the newest-first list.

Each async function is a chain of fetches held in one of `MaxTasks` slots, as in `LogViewer`:

| Chain | Issue | Answer | Continuation |
|---|---|---|---|
| `tick` | `Tick` (`setInterval`), `FireTimer`, the startup call | `AnswerPending` | `RecvPending`: render, and select the newest open request if the selection is not open (lines 206-219) |
| `send` | `Send` (lines 157-192: guards, `autoSubmitting = true`, POST) | `AnswerRespond` | `RecvRespond`: on `ok` clear `selected` and await `tick`, whose continuation hides the details and arms the timer; otherwise reset `autoSubmitting` |
| `clear` | `ClickClose` (lines 332-337) | `AnswerRespond` | `RecvRespond`: clear the selection if it was this request, await `tick`, arm the timer |

- `FetchFails` rejects a fetch or its `res.json()`; `RecvError` is the rejected `await`, after which the rest of the function does not run. `AnswerRespond` may also mark the POST processed and then fail the JSON parse.
- `FireTimer` is the `setTimeout(..., 200)` callback: it ticks only if nothing is selected.
- `ClickItem` is `li.onclick` and `select`. `Arrive` is an agent parking a request on the server (spec-modelled).
- The text of the answer, the stop-token trimming and the status are abstracted: `Send` is enabled whenever the details are shown with a selection and no send is in flight.

## 3. Runs

All runs use `MCBuildPipeline` with `MaxFaults = 2`.

- **pipeline (pass)**, `BuildPipeline.cfg`. It checks six properties:
  - `TypeOK`;
  - `ToolchainNeverPartial`: the wasi-sdk staging and rename keep `wasi-sdk-27.0/` whole;
  - `NoTaintedBuild`: no built path ever holds content derived from unverified bytes;
  - `SuccessImpliesSound`: a driver run that ends `done` produced a good `env.wasm`;
  - `DriverNeverRefused`: no driver run ends in an extension script refusing for want of clang or the headers (build_host.sh:40,51). The driver's own test at build_xxhash.sh:167-170 must agree with that refusal, and build_cpython.sh must return only with both in place. The mutant `GuestStartNoHeadersTest` drops the driver's headers test. TLC then finds a build_cpython.sh run interrupted after the toolchain was renamed into place, followed by a driver run that skips provisioning and reaches a refusing extension;
  - `CacheRefinement == CacheStore!Spec`: the tool-cache seen through its cache keys implements `WriteOnceCache`. `CacheStore` is `INSTANCE WriteOnceCache WITH Keys <- CacheKeys, Values <- Contents \ {"absent"}, Missing <- "absent", cache <- [k \in CacheKeys |-> file[k]]`. So every step either leaves the keys alone or fills one missing key with something, and no key is ever rewritten or removed. It implies in particular that a complete cache key is never rewritten, and it covers partial keys too: and it is why cache_key_partial's partial headers are never repaired.
- **cache_key_partial (violation)**, property `CacheKeyNeverPartial`. TLC interrupts the header copy, or `tar -czf` of an extension, and the partial result is a cache hit forever after.
- **rerun_recovery (violation)**, property `GuestEventuallySucceeds` under `FairSpec`. TLC finds a download cut short that is reused and fails `shasum` on every rerun.
- **unlisted_integrity (violation)**, property `NoTaintedBuild` with `WasiSumListed = FALSE`. A wrong toolchain tarball is used unverified. That `ToolchainNeverPartial` still holds with the line missing (a truncated tarball then fails half way through `tar`, and the staging directory keeps the toolchain whole) is proved for both settings by `ToolchainAtomic` (§4).

The three violations are recorded as findings in PROJECT.json.

### Bounds

Two faults is the smallest bound that covers every failure pattern the properties separate:
- a crash while writing one artifact, followed by a second fault while recovering;
- a bad download, followed by an interrupted retry.

The runs cover any number of successive invocations, because the state space is finite: the fault counter is bounded and the file contents come from a finite set.

### Fairness

`FairSpec` assumes two things:
- **Weak fairness of the script steps.** A running shell script keeps executing.
- **Strong fairness of starting the driver.** The developer reruns the build after a failure, as spec §5 prescribes.

The scripts have no retry loops, so no fairness is assumed inside a download.


### LogViewer runs

The LogViewer runs use `MCLogViewer` with `MaxTasks = 2` and `MaxVer = 1` (one log change).

- **viewer (pass)**, `LogViewer.cfg`, under `FairSpec` with one record and one failed fetch or localStorage write allowed anywhere. It checks:
  - `TypeOK`: even with unvalidated stored values and failures, only valid states reach the tiles, and every chain stays well formed;
  - `TypeChoicesWhileReliable`: while nothing has failed, a drawn tile always shows what localStorage holds, so no rehydration reverts a choice;
  - `ChangesNoticedWhileReliable`: in a run where nothing fails, every log change is eventually recorded by the polling loop.
  `fails` only grows, so "while nothing has failed" covers exactly the failure-free prefixes of every behaviour. What a failure does to the two properties is shown by type_choice_reverted and polling_never_starts.
- **view_out_of_order (violation)**, `ViewOutOfOrder.cfg`, two records, property `ViewMatchesSelection`. A `/messages` reply for an older selection lands after the current one, and the list shows the wrong selection once nothing is in flight.
- **stale_view (violation)**, `StaleView.cfg`, property `EventuallyFresh` under `Unattended` (no clicks). The initial load renders the messages, a record is appended, then `/version` is read. The new version is recorded without a rehydration, and the record is never shown.
- **polling_never_starts (violation)**, `PollingNeverStarts.cfg`, property `ChangesNoticed` with one failure. A fetch of the initial load rejects before `setInterval`, and the page never polls.
- **type_choice_reverted (violation)**, `TypeChoiceReverted.cfg`, property `TypeChoicesPersist` with one failure. A failed save is swallowed, and the next `loadTypes` flips the tile back.

The four violations are findings in PROJECT.json (app.js:399, 479, 474 and 33).

**Bounds.**
- One record and one change are enough for the passing runs: each property concerns one change racing one chain.
- Two chains in flight are the fewest that interleave: a timer rehydration with a click, or two renders.
- Two records with different uids are needed only where two selections must differ (`ViewOutOfOrder`).
- Larger instances are out of reach of a five-minute run. Two records with two slots reach 5.4 million states, and three slots do not finish in ten minutes.

**Fairness.** `Fairness` gives weak fairness to `Deliver(s)` for each slot: the server answers and the event loop runs continuations. It gives strong fairness to `Tick`, because `setInterval` keeps firing whenever a slot is free. The user and the agents writing logs get no fairness.

### MockUI runs

The MockUI runs use `MaxTasks = 2` (mockui reaches 691,512 states in under two minutes); their constants are numbers, so no MC module is needed.

- **mockui (pass)**, `MockUI.cfg`, `FairSpec`, three requests and one failed fetch allowed anywhere. It checks:
  - `TypeOK`;
  - `SubmitFlagWhileReliable`: while no fetch has failed, `autoSubmitting` is set exactly while a `sendResponse` chain is in flight;
  - `SingleSend`: however fetches fail, at most one `sendResponse` chain is in flight, so Generate, Ctrl+Enter (line 143) and a typed stop token (line 270) never POST a second answer while one is pending;
  - `SubmitReleasedWhileReliable`: in a run where no fetch fails, a set `autoSubmitting` is eventually cleared;
  - `SettlesOnOpen`: once the user stops clicking, the page eventually always has an open request selected while one exists, failures or not.
- **submit_stuck (violation)**, `SubmitStuck.cfg`, `SubmitReleased` with one failure. The POST is processed but `res.json()` rejects; line 203 is never reached and Generate is dead until reload.
- **stale_selection (violation)**, `StaleSelection.cfg`, action property `AutoSelectsOnlyOpen`. A `/mock/pending` reply issued before a request was cleared lands last and `tick()` selects the cleared request.

The two violations are findings in PROJECT.json (part_000:187 and 208).

The model also reaches a display glitch that no run checks. After a successful answer, the awaited tick selects and shows the next request. Line 200 then hides the details pane, and only a click on the list shows it again.

**Bounds.** Three requests and two chains let a send, a clear and a tick overlap over requests that arrive during them. Three slots with three requests do not finish in ten minutes. One failure is enough to leave a chain unfinished at any of its awaits.

**Fairness.** Weak fairness of `Deliver(s)` per slot (the server answers, the event loop runs continuations) and strong fairness of `Tick` (`setInterval` keeps firing). The user and request arrivals get none; `SettlesOnOpen` assumes only that the user eventually stops clicking.

## 4. Proofs

What TLC checks on one small instance, TLAPS proves for every value of the constants. Each safety theorem has the same shape. There is an inductive invariant `I`, and three facts are proved: `Init => I`, `I /\ [Next]_vars => I'`, and `I => P`. They are combined `BY PTL DEF Spec`. Every strengthening was first checked by TLC as an invariant on the run's instance, then proved.

### `BuildPipelineProofs`

All results hold for every `MaxFaults \in Nat`. All except `IntegrityGate` and `SoundSuccess` also hold for both values of `WasiSumListed`.

- **`TypeCorrect == Spec => []TypeOK`.** Each action preserves the type. The helper operators (`Fetch`, `Verify`, `Torn`, `ExtReturn`, `Derive`) get typing lemmas, which are cited per action.
- **`ToolchainAtomic == Spec => []ToolchainNeverPartial`.** `ToolchainInv` adds "at `c_wasi_mv` the staging directory is complete". Without it, a state at `c_wasi_mv` with a partial staging directory would make the rename produce a partial toolchain. Only a completed `tar` leads to `c_wasi_mv`, and `Torn`, the only other writer of the staging directory, jumps to `failed`.
- **`IntegrityGate == WasiSumListed => (Spec => []NoTaintedBuild)`** and **`SoundSuccess == WasiSumListed => (Spec => []SuccessImpliesSound)`.** Both follow from one invariant, `SoundInv == NoTaintedBuild /\ SoundRest`. `NoTaintedBuild` alone is not inductive: it says nothing of the archives that unpacking, compiling and assembling read. `SoundRest` records:
  - for the step after each `shasum -c`, that the checked archive is `good`, since nothing writes an archive between its check and its use;
  - that the pydantic_core tarball stays good while the driver builds the extensions;
  - that the guest steps run only under the driver;
  - that `g_componentize` is reached only after `tar -xf` found the three extension tarballs complete.

  From these, `Derive` of good inputs is good. One lemma per write shape (`WriteUntainted`, `FetchUntainted`, `TornUntainted`) handles the steps that write a file. The assumption `WasiSumListed` is needed: unlisted_integrity shows the violation without it.
- **`DriverProvisions == Spec => []DriverNeverRefused`** holds for every `MaxFaults` and both values of `WasiSumListed`. The property is not inductive alone. The inductive invariant `DInv` adds:
  - `ToolchainInv`;
  - that clang is there from build_cpython.sh's headers test through the header copy;
  - that the CPython tarball is good when it is unpacked, and the source tree is present when configure and cp run;
  - that existing headers imply clang;
  - that a driver past its provisioning test (pydantic, extensions, assembly) has both clang and the headers.

  Neither clang nor the headers is ever removed. Only `mv` writes `wasi-sdk-27.0/`, from a complete staging directory. `py-headers-3.12/` is only written by cp from a present tree, or torn to `partial`. `DInvStep` has one case per action. The frame lemmas `WriteProv`, `FetchProv` and `TornProv` cover the steps that write something else. TLC checked `DInv` on the pipeline instance with both sums-file settings before the proof.
- `CacheInv` and `CacheStep` (a cache key is still missing at every step between its existence test and its write, and is only written when missing) are lemmas of the refinement proof below.
- **`CacheImplemented == Spec => CacheRefinement`**, the refinement of `WriteOnceCache`. It is proved step by step, as in the TLAPS examples:
  - the initial state maps to `CacheStore!Init`;
  - `FillStepLemma` shows every step either keeps the cache keys or is a `FillStep(k)` of one key that was missing, with a content that is not missing;
  - `KeyStepMaps` turns that into `[CacheStore!Next]_(the mapping)`. A kept key set is a stutter; a fill is `CacheStore!Fill(k, file'[k])`.

  This needs `FillInv` beside `CacheInv`. `FillInv` holds that the staging directory `mv` renames is complete, that the CPython source tree `cp` copies from is there (it was unpacked from the verified tarball), and that `pkg/` was filled by the compile step before `tar -czf` packs it.

`ExtReturn` was written with `CASE` in the first version. Its guards overlap (`entry # "guest"` and `cur = "msgspec"`), and a `CASE` with overlapping guards denotes an unspecified one of the matching branches, so the provers could not use it. It is now an `IF`/`ELSE` chain in the order the driver tests them. TLC's results are the same.

### `LogViewerProofs`

**`ChoicesPersist == Spec => []TypeChoicesWhileReliable`** holds for every set of records `Msgs` and every `MaxVer`, `MaxTasks` and `MaxFails`. It is the property the run viewer checks: while nothing has failed, every drawn tile shows what localStorage holds.

The invariant alone is not inductive. `RecvTypes` sets the tiles to the names of a `/types` answer held in a task, and the proof must know those names are types. The inductive invariant `IInv` therefore adds:
- typing of the variables it reads;
- `Shape`: every slot holds a record with the task fields;
- `NamesTyped`: an answered `/types` fetch holds a subset of `Types`.

None of these depends on failures. So `IInv` carries `fails = 0 => TypeChoicesPersist` and holds in every state, failed or not. A failed save (`ClickType`'s second disjunct) makes `fails` positive, and from then on nothing is claimed. One lemma covers each group of actions:
- the actions that only reset a slot (`SlotReset`, `ContinueFresh`, `SpawnFresh`);
- the server's answers, which keep `NamesTyped` because the answer to `/types` is `TypesOf(log)`;
- `RecvTypes`, where each drawn tile becomes exactly `Stored(x)`;
- `ClickType`, where a successful write saves the whole map, so `Stored(y) = typeStates[y]` for every tile.

### `LogViewerTypeProofs`

**`ViewerTypeCorrect == Spec => []TypeOK`** holds for every set of records `Msgs` and every `MaxVer`, `MaxTasks` and `MaxFails`. It is the `TypeOK` of the run viewer. `TypeOK` is not inductive. The inductive invariant `TInv` adds two things to it.

- **The budget.** `ver + Cardinality(PD(tasks)) <= MaxVer`, where `PD(tasks)` is the set of slots holding a DELETE /logs not yet answered. `/version` stays within `MaxVer` only because of this budget:
  - `AppendLog` and `ClickClear` are guarded by `Budget < MaxVer`;
  - `ClickClear` adds one pending delete (`FS_AddElement`);
  - `AnswerDelete` bumps `ver` and ends one pending delete (`FS_RemoveElement`);
  - every other step only shrinks `PD` (`FS_Subset`, with `Slots = 1..MaxTasks` finite by `FS_Interval`).
- **`SlotsOK`.** Every slot is `Idle` or a good record. A good record is typed, its position is inside its chain, and its answer is of the kind it asked for (`NamesOK`).
  - The position bound is what makes `Continue`'s next fetch exist.
  - `RecvUids` skips two fetches when no uid is selected. That stays inside the chain because `ChainShape` shows `/uids` is never among a chain's last two fetches.
  - `NamesOK` is what makes `RecvTypes`, `RecvUids` and `RecvIids` draw types, uids and iids.

There is one lemma per action and one per helper (`ContinueOK`, `SpawnOK`, `SetFresh`, `PDAddOne`, `PDRemoveOne`). Before the proof, TLC found no violation of `TInv` on one record with `MaxVer` 1 and 2, and on two records with `MaxVer` 1, with `MaxTasks = 2` and `MaxFails = 1`.

The SMT encoder of tlapm 1.4.5 fails on the empty string `""`, which `TypeOK` and several actions contain. So the arithmetic facts are first taken out of `TInv` by Zenon (`TInvParts`), and SMT is only given obligations without `""`.

### `MockUIProofs`

- **`SubmitFlagReliable == Spec => []SubmitFlagWhileReliable`** holds for every `MaxReqs`, `MaxTasks` and `MaxFails`. It is the property of the run mockui. The invariant is `RInv == fails \in 0..MaxFails /\ Shape(tasks) /\ (fails = 0 => IInv)`:
  - `Shape` (every slot holds a task record) is proved for every step, failing or not (`ShapeStep`);
  - `FailsStep` shows `fails` only grows, by one and within the bound;
  - so a step from a failure-free state either keeps `fails = 0`, and `NextIInv` applies, or makes it positive, and nothing is claimed.
- **`SubmitFlagExact == MaxFails = 0 => (Spec => []SubmitFlagTracksSend)`** is the corollary for pages where no fetch can fail. `IInv` adds to the property:
  - `Shape`;
  - `OneSend`: at most one slot holds a `send` chain, since `Send` is guarded by `~autoSubmitting`;
  - `NoError`: no answer is an error, so every `send` chain reaches `RecvRespond`, which resets the flag or continues the chain.

  `OneSend` is what makes the reset in `RecvRespond` correct: clearing the flag ends the only send chain.
- **`SingleSendAlways == Spec => []SingleSend`** holds for every `MaxReqs`, `MaxTasks` and `MaxFails`, failures included. Once a fetch has failed, the flag is no longer exact: a rejected `sendResponse` leaves it set. The invariant `SInv` keeps only the one-way half:
  - `Shape(tasks)`, from `ShapeStep`;
  - `OneSend(tasks)`;
  - `SendFlag`: while a `send` chain is in flight, `autoSubmitting` is set.

  `SetSlotS` covers the four ways a step can change one slot. A step can keep the slot's chain: the answers and failed fetches (`AnswerChain`), and `RecvRespond` continuing a send. A step can start a chain other than `send`. A step can end the only `send` chain while clearing the flag. Finally, `Send` can start a `send` chain while the flag is clear, and it sets the flag. The mutant `SendNoGuard` (Send without `~autoSubmitting`) breaks `SingleSend` in the mockui run. TLC checked `SInv` before the proof, as an invariant of `FairSpec` with `MaxReqs = 2`, `MaxTasks = 3` and `MaxFails = 2` (4.1 million states).

### `MockUITypeProofs`

**`PageTypeCorrect == Spec => []TypeOK`** holds for every `MaxReqs`, `MaxTasks` and `MaxFails`. It is the `TypeOK` of the run mockui.

`TypeOK` is not inductive. Its conjunct `done \subseteq 1..n` says the server completes only requests that have arrived, and what keeps that conjunct is a fact about the page: every id it holds has arrived. The inductive invariant `MInv` therefore adds:
- `selected <= n`, and `listed.seen <= n` for the list `renderPending` drew;
- `Arrived(tasks[s], n)` for every slot: a task's list and its id are at most `n`, and a POST (`step = "respond"`) carries a real id.

The POST's id is real because the code makes it so:
- `sendResponse` returns when nothing is selected;
- `clearPending` is called from a listed row.

The id has arrived because of where it comes from. `select` picks from the drawn list. `tick()`'s reselection picks `Newest(Open(l))` from the list the task fetched, whose length is the `n` of the moment the server answered.

That last step needs the maximum of a nonempty set of ids to exist. The provers cannot do induction over sets, so `NewestMax` obtains it from `WFMin` of WellFoundedInduction. It applies `WFMin` to "greater than" on `1..N`, which is well-founded because `N - f[k]` would otherwise be a decreasing sequence of naturals (`NatLessThanWellFounded`).

The rest of the proof is organised as follows:
- one lemma per action;
- a lemma for setting one slot (`SetTask`, with `ResetOK` and `FetchOK` for the records the page starts);
- `Unpack` and `Assemble` to move between `MInv` and its parts.

The proof also has a practical constraint. Z3 cannot encode the nested `EXCEPT` of `Fetch` and `Timer`, nor record-set membership. Zenon proves the record typing (`RecordsTyped`, `ReplyRec`, `ErrorRec`) in lemmas of its own, and SMT is left the arithmetic.

Before the proof, TLC checked `MInv` as an invariant of `Spec` on the `MockUI.cfg` instance (`MaxReqs = 3`, `MaxTasks = 2`, `MaxFails = 1`; 691,512 distinct states).

### What stays with TLC, and why

- **Liveness** (`GuestEventuallySucceeds`, `ChangesNoticedWhileReliable`, `EventuallyFresh`, `SubmitReleasedWhileReliable`, `SettlesOnOpen`). It needs fairness and `ENABLED`, which these provers do not handle.
- **The properties of the violation runs**, which are counterexamples by design.

## 5. Further work

1. **`Platform`**: the detection table of build_cpython.sh 15-30 as an operator, checked against spec §8's table.
2. **Versions as state**, for the stale-version cache hazard at build_host.sh:31.
3. **A refinement for a UI**: the mock-responder page against an abstract "answer each request at most once" specification.

### Not modelled in `MockUI`

- The sent-list viewer (`selectedSentId`, `renderSent`) and the transcript/JSON toggles: they only choose what is displayed and write none of the state above.
- The draft text and the stop-token trimming: abstracted to "some non-empty text".
- The mock server itself is not under src/; its queue is modelled from the page's use of it.
