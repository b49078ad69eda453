# DuoScript in TLA+

DuoScript runs sandboxed Luau plugins inside a game server. All script code runs
on the game thread, as *fibers*: Luau threads that yield instead of blocking and
are continued from an event loop (libuv) that the game pumps once per frame, or by
other fibers. This directory holds TLA+ modules of that machinery, the TLC
configurations that check them and TLAPS proofs about them. Paths below are
relative to the repository's root.

## Inventory

| Part | State | Operations | Interacts with |
| --- | --- | --- | --- |
| Fibers (`src/Core/Script/ScriptFiber.*`, `ScriptHandles.*`, `src/Logic/Threading`) | Luau thread, `first_invoke`, `_dependants`, the slot in the isolate | `TrySetup`, `TryContinue`, `Call`, `Kill`, `TryDepend`, `ToHandle`; `Fiber.New/Await/Sleep`, `Fiber:Resume/Depend` | called by the loop's callbacks, by plugins' start, by `require()` and by each other |
| Isolates and VM (`src/Core/Script/ScriptVM.*`) | vectors of isolates and fibers (slots), atoms, global table | create and delete isolates, `NewFiber`, `TryLoad`, `require`, method dispatch | owned by plugins; handles look slots up |
| Call frames (`ScriptCall.*`) | cursor into a Lua stack: pushed, popped, `has_self`, status | arguments, pushes, results, `Await`/`Return`/`Error` | every native call and every continuation |
| Event loop (`src/Core/Loop`) | libuv loop, async, timer and work handles with `_invoked` and `_killed` | `NewAsync/NewDelay/NewWork`, `TryInvoke`, `TryDelay`, `Kill`, `RunOnce`, `Destroy` | worker threads run tasks, callbacks continue fibers |
| File and archive access (`src/Logic/Files`) | requests in flight with a fiber handle, open files and archives | `File.Open/Read/Write/Length`, `Zip.Open/Read/Write/Append/Close` | libuv requests, worker tasks, fibers |
| Controllers (`ScriptControllers.*`, `ControllerManagerSink.*`, `public/IScriptController.h`) | metatables, instances with a killed flag, entities owned by the collector | `Register`, `Destroy`, entity creation and destruction, name dispatch | modules register them, the collector destroys entities |
| Modules (`src/Metamod/Modules`) | table of module instances, each with its sinks | `Hello`, `Goodbye`, load, unload, unload all | Metamod, controllers |
| Plugins (`src/Core/Plugins`) | load results, archive, isolate, entry method | load, `Start`, `Stop`, find | isolates, fibers |
| Plugin files (`Plugins/Objects`) | of each file object: started, finished, a fiber handle, results | `Import` | runs a file in a fiber, inside the importer's call |
| SDK (`src/Sdk`) | tree of the files of a directory, fibers of the module resolver | require, collect, query, resolve, type check | file requests; the end of a module continues its requirer; Luau's frontend calls back into scripts |
| Method dispatch (`IScriptController.h`, `ScriptVM::UserAtom`) | methods by name and by atom, the counter of atoms | `AddMethod`, namecall | Luau caches the atom in the string |
| Hash tables (`public/Generic/StringMap.h`, `public/Vendor/Robin`) | `FastStringMap`: buckets, distances, two flags, a load threshold | `tsl::robin_map` | none: a header the repository offers and no code of the program uses; the registries are `StringMap`, amtl's `HashMap`, whose source is in a submodule |
| Log, performance, pointers | none that matters | one library call each | everything |

What is hard here:

* **No handle is safe by itself.** A handle names a slot, the slot keeps the raw
  pointer of a fiber that has deleted itself, and `Call` never asks Lua whether
  the thread may be resumed. Whether a deleted or a running fiber is ever called
  depends only on who may continue a fiber, and when.
* **Calls nest.** `Fiber.New`, `Fiber:Resume`, `require()` and the end of a fiber
  all run another fiber inside the present one's native call.
* **Several wakers.** A timer, a file request, an archive task, another fiber's
  end and an explicit resume can each continue a fiber.
* **Ends differ.** A fiber may return, throw or be killed; only some of these
  continue the fibers that depend on it.
* **Threads.** Work runs off the game thread while the handle that tracks it may
  be killed or destroyed.
* **Teardown.** Isolates, modules and the loop go away while handles, entities
  and requests still name them.
* **Two names for a method.** Calls find methods by an atom that was handed out for
  a name once, possibly before the method was registered.
* **Files change.** What is asked about a file in one request is used in the next.
* **A require yields once.** It returns when the module's fiber ends, and only if the
  requirer had yielded by then; a module that fails continues it, too.

One more thing is hard, in code that is only offered: a `FastStringMap` moves its
entries, an insertion those it displaces, an erasure those behind it, around the end
of the array too, while callers iterate.

What makes each part correct: fibers - every fiber is continued by the one thing
it waits for and by nothing else, no call reaches a deleted or running fiber, an
end continues every dependant once; loop - an accepted invocation runs its
callback once, a killed one never, each handle is closed once; controllers - no
collected entity calls a controller that is gone, no controller is reachable by
scripts after its removal; plugins - nothing names an isolate after its deletion;
call frames - a native function sees exactly the arguments pushed for it;
dispatch - a call by atom runs what a call by name would; plugin files - the code
of a file runs once and each importer is continued once; files and archives - what
a script holds is open or known to be closed, and what was put into an archive is
saved; SDK - a dotted name finds the one file it means, with all of its bytes; hash
tables - a lookup finds what was put in.

## Plan

In order of importance. Every block has its modules; what is left is listed.

1. **FiberRuntime**, **FiberPromise**, **FiberRefinement**, **FiberInvariant**,
   **FiberProofs**: the fibers of one isolate. Safety is proved, and that they
   implement `FiberPromise`.
2. **EventLoop**, **EventLoopInvariant**, **EventLoopProofs**: async, delay and work
   handles, worker threads, `Kill` at every point of a work item's life, `Destroy`.
   Safety is proved. Left to state: an abstract **LoopPromise** (asked, answered
   once or dropped) that EventLoop implements and FiberRuntime's requests rely on.
3. **Controllers**, **ControllersInvariant**, **ControllersProofs**: manager, sinks,
   module instances, entities and the collector. Safety is proved.
4. **Plugins**, **PluginsInvariant**, **PluginsProofs**: loading, starting and
   stopping; isolates, and the requests that outlive them. Safety is proved.
5. **CallFrames**, **CallFramesInvariant**, **CallFramesProofs**: the index arithmetic
   of `ScriptCall` over the Lua stacks of fibers that hand each other values. Safety is
   proved.
6. **Dispatch**, **DispatchPromise**: atoms and calls by name. The safety part is
   proved, the refinement too, both in **ControllersProofs**.
7. **PluginFiles**, **PluginFilesInvariant**, **PluginFilesProofs**: importing files.
   Safety is proved.
8. **FileIO**, **FileIOInvariant**, **FileIOProofs**: files, archives, requests and
   the entities scripts hold. Safety is proved.
9. **SourceTree**, **SourceTreeInvariant**, **SourceTreeProofs**: the SDK's tree of
   sources and the frontend's questions. Safety is proved.
10. **RobinMap**, **RobinMapInvariant**, **MapPromise**: the hash table. Safety is
    proved, and that it implements `MapPromise`, in **ControllersProofs**.

FileIO and PluginFiles repeat a reduced form of FiberRuntime's fibers instead of
composing with it: an instance of all three has too many states to finish, and they
meet only in how a fiber is parked and continued.

## Modules

### FiberRuntime

The state of the fibers of one isolate. Fiber `f` is slot `f - 1` of
`ScriptIsolate::_fibers`.

| Variable | Code |
| --- | --- |
| `slots` | `_fibers.size()` |
| `freed` | fibers that ran `delete this` at the end of `Call` |
| `lua` | what `lua_resume` would find: running, yielded, ended with or without values left on the stack |
| `pending` | `ThreadResumer`, file requests and `ZipOpenTask`s that hold a handle of the fiber |
| `deps`, `continued` | `_dependants`, and how far its loop has come |
| `stack` | the activations of `ScriptFiber::Call` on the C++ stack, each with how it was reached and what it does |
| `shared` | fibers whose `FiberEntity` scripts can hold (made by `Fiber.New`) |
| `killed`, `breached` | history variables |
| `fault` | the undefined behaviour that was met, after which nothing is modelled |

The actions are the operations: `Start` (`Plugin::Start`), `Complete` and
`ZipFails` (callbacks of the loop), the native calls `New`, `Await`, `Sleep`,
`FileRequest`, `ZipOpen`, `Resume`, `Depend`, `Require`, the end of a script
`Finish`, and the two halves of the rest of `Call`: `ContinueDependant` (one turn
of the loop) and `Return`. A native call that enters another fiber pushes an
activation and goes on when that activation is popped, as in the code: `Return`
from the activation of `require()` makes the requiring thread yield.

**The usage contract.** The code checks nothing, so some scripts do run it into
undefined behaviour. The model states what a script must respect for that not to
happen, in three operators: `Fiber:Resume` is called on a fiber parked by
`Fiber.Await` (`MayResume`), `Fiber:Depend` on another fiber that has not ended
(`MayDepend`), and a module run by `require()` yields before it ends
(`MayFinish`). A call outside the contract still happens, sets `breached`, and
can set `fault`. With `Disciplined = TRUE` scripts keep the contract.

**Environment.** libuv completes each started request once and from the loop
only, and a loop callback never runs inside a script (`Idle`). A started request
may fail; only `ZipOpenTask` treats failure otherwise than by telling the script.
`lua_resume` on a running thread fails; on an ended one it calls the value left
on top of the stack, or fails if there is none. A vector that grows under a
range-for may or may not move: both outcomes are choices of `Depend`.

Left out: values passed between fibers, log output, garbage collection (a
fiber's thread is referenced until it is deleted), and the isolate's deletion.

### FiberPromise, FiberRefinement

`FiberPromise` is what fibers promise, without slots, handles, nesting or lists:
a fiber is unborn, active, parked or ended; a parked one waits for one answer, or
for the end of another fiber, or to be resumed; an ended one stays ended.
`FiberRefinement` maps FiberRuntime to it: the phase from Lua's state, the
requests from `pending`, the joins from the part of `_dependants` that the loop
has not reached, for fibers that have yielded (a fiber inside `require()` is in
its module's list before it yields).

### The invariants and proofs

`FiberInvariant` states the inductive invariant `IInv` of FiberRuntime;
`FiberProofs` proves the types, what follows from `IInv`, and that FiberRuntime
implements FiberPromise. Likewise `EventLoopInvariant`, `ControllersInvariant`,
`PluginsInvariant`, `PluginFilesInvariant`, `FileIOInvariant`, `CallFramesInvariant`
and `SourceTreeInvariant` state `LInv`, `CInv`, `PInv`, `ImportInv`, `FInv`,
`CallFramesInvariant` and `SourceTreeInvariant`, and the modules of the same name with
`Proofs` prove them and what follows from them. `DInv`, the invariant of Dispatch, is
in the module itself and proved in `ControllersProofs`, with the controllers whose
calls it is about; the invariant of RobinMap, in the module `RobinMapInvariant`, is
proved at the end of the same module. See Proofs below.

### EventLoop

The loop, its handles and libuv underneath. Client code is anything that holds
handles: it runs in callbacks, or on the game thread between two frames
(`Clients`), and calls `NewHandle`, `TryInvoke`, `TryDelay`, `Kill`, `Delete`,
`NewWork` and `KillWork` in any order. `RunOnce`, `Fire`, `Finish`,
`CallbackReturns`, `CloseHandles` and `RunEnds` are one `uv_run`; `Take`,
`Process` and `Processed` are a worker thread inside and around `OnWork`, at any
moment relative to the game thread. `Destroy` goes up to its last `uv_run`, which
is the same as a frame's and whose end decides what it answers.

| Variable | Code |
| --- | --- |
| `loop`, `stage` | `active`, how far `Destroy` got, and where in a `uv_run` the game thread is |
| `callback` | the handle or item whose callback is on the C++ stack |
| `object`, `killed`, `invoked` | the C++ objects and their flags (`_handle` is null exactly when `_killed`) |
| `uv`, `due` | the `uv_handle_t` of each handle, and whether it is signalled or started |
| `work` | where a work item is, from `uv_queue_work` to `delete self` |
| `sent`, `ran`, `misled`, `revoked`, `walked`, `breached` | history variables |
| `fault` | the misuse of libuv that was met |

**Environment.** libuv keeps a closed handle until the closing phase of a run;
whether timers run before or after it depends on libuv's version, so both are
allowed. `uv_run` returns at once after `uv_stop`, and clears the flag. `uv_cancel`
succeeds only for an item no worker has taken. `_invoked` of an item is read
without a lock: both values are choices while a worker has the item.

**The shutdown contract** (`MayDestroy`, `MayUse`, `MayCreate`). No code calls
`Destroy` yet, so nothing in the repository says how clients stop. The model does:
nothing is being closed when `Destroy` is called, and afterwards clients neither
use handles that it closed nor the loop it stopped. `Orderly = FALSE` lifts it.

Left out: file requests on the same loop, and what callbacks do to fibers.

### Controllers

Modules of native code come and go while scripts hold what they made. A module's
controllers are registered with the script manager, which makes a
`ControllerInstance`, two metatables and a global for each; the sink of the module
owns the instance; entities are userdata with raw pointers to both.

| Variable | Code |
| --- | --- |
| `modules`, `sink` | `ModuleManager::_modules`, and of each `ModuleInstance` the set in its `ControllerManagerSink` |
| `native`, `template` | the controller objects with their module's code, and `_template` in them |
| `object`, `killed`, `registered` | the `ControllerInstance`s, `_killed`, and the controller each was made for |
| `tables`, `global` | the metatables that still have methods, the globals scripts start from |
| `entity`, `made`, `held`, `orphans` | userdata, `GetInstance()`, what scripts can reach, and what a registry reference keeps that nobody will delete |
| `requests` | controllers with a request in the event loop |
| `lua` | whether `lua_close` has run |
| `stop`, `sweep` | how far `Duo::Stop` is, and what `UnloadAllModules` has yet to visit |
| `breached` | history: the clauses of the contract that were not kept |
| `fault` | the undefined behaviour that was met |

The actions are `Hello`, `Goodbye` (inside `Unload` and `UnloadNext`), `Register`,
`Destroy`, `Stop` and `Stopped` for modules; `ReturnNew`, `Request` and `Drop` for
scripts; `Complete` for the loop; `Collect` and `CloseState` for Luau.

**The usage contract** has seven clauses (`Clauses`), none of which the code
checks: a module says Hello once, registers a controller once, destroys only its
own instances, lets entities (`undrained`) and requests (`pending`) go before their
instance, the Lua state is closed after the modules are gone (`early_close`), and
nothing is registered with a closed state (`after_close`). `Allowed` says which of
them a run lets modules break; `FaultsExplained` says which clause each kind of
fault needs.

**Environment.** The collector may run between any two steps. Closing an isolate
closes the whole Luau state, as `ScriptIsolate`'s destructor calls `lua_close` on a
thread of it. The instance that a controller is given is never at the address of
an earlier one. The iteration of `UnloadAllModules` survives the removal of the
entry it is at. `IScriptControllerEntity` has virtual functions but no code runs its
constructor, so its table of them is whatever was in memory: both outcomes are
choices of `OnDestroyOutcomes`. A script cannot keep a method apart from its
metatable, because metatables are hidden from it.

Left out: dispatch by name and atom, and what an entity contains.

### CallFrames

The values that fibers hand to each other. `ScriptCall` holds none: it is a cursor
into the Lua stack of its fiber, and one object is in turn the arguments of a
native call, the values a fiber is continued with and what it left.

| Variable | Code |
| --- | --- |
| `stack` | the Lua stack of the frame that native code may index |
| `call` | the cursor: `has_self`, `stack_push`, `stack_pop`, whether `last_status` is an error |
| `first` | `first_invoke` |
| `doing`, `waits` | what each fiber is at, and what a yielded one waits for |
| `deps`, `active` | the dependants left to continue, the activations of `Call` |
| `handed`, `left` | history: the last values that changed hands as given and as received, and what each script returned or yielded last |

`CallNative` is `CFunction` up to the delegate. Each delegate is an action: those of
the Fiber controller that run another fiber (`New`, `Resume`) end in the action
that returns to them (`ReturnToNew`, `ReturnToResume`), so that other fibers' native
calls come in between; `Ask` and `AskEntity` stand for the methods of any module
that read an argument. `Finish`, `Suspend` and `Throw` are the ways `lua_resume`
returns, `ContinueDependant` and the three returns are the rest of `Call`.

**Environment.** Luau's `index2addr`: index 0 is the slot above the top, whatever is
in it (`Stale`), an index beyond the top is nil. A yield leaves the yielded values on
the stack, a return the results, an error the locals of the function that threw and
the message. Scripts keep the contract of FiberRuntime.

Left out: values built by `ScriptObject` and `ScriptMethod`, buffers and strings,
which differ from numbers only in their test.

### Plugins

Plugin, load result and isolate `i` are the `i`-th of their vectors.

| Variable | Code |
| --- | --- |
| `started`, `listed`, `todo`, `starting` | `Duo::_started`, and how far `LoadAllPlugins` is: the files it was given, those left, the plugin about to start |
| `plugins` | `PluginManager::_plugins`: name, result, entry method |
| `isolates`, `fibers` | `ScriptVM::_isolates`, of each `ScriptIsolate` its `_fibers` |
| `requests` | the handles that callbacks of the loop hold: two numbers each |
| `running`, `lua` | the fiber that runs, and whether the shared Luau state is closed |
| `breached`, `fault` | history, and the undefined behaviour that was met |

`DuoStart`, `LoadAllPlugins`, `LoadPlugin`, `LoadNext` and `Start` are the manager,
with an archive that is absent, empty, without an entry file, broken or good;
`Spawn`, `ResumeParked` and `Return` are scripts, `Complete` the loop, `Stop` the
deletion of the isolate with its `lua_close`. The contract's clauses (`Clauses`) are what nothing checks
before `Stop`: no fiber has ended, no callback is outstanding, the plugin was not
stopped before, no other plugin runs, and nothing is loaded afterwards.

### PluginFiles

| Variable | Code |
| --- | --- |
| `lua`, `waits`, `deps`, `stack` | fibers as in FiberRuntime, reduced; an activation knows the `Import` that made it |
| `started`, `finished`, `handle` | `_executeStarted`, `_executeFinished`, `_executeHandle` of each `PluginFileEntity` |
| `runs`, `breached` | history: how often a file's code ran, and whether an object was imported after its fiber's end |

`ImportFirst` runs the file inside the importer's call; `ReturnToImport`, inside
`Return`, is the rest of that `Import` once the file has yielded or ended.
`ImportAgain` is `Import` of an object that was started. A file may import itself.

### FileIO

| Variable | Code |
| --- | --- |
| `exists`, `size`, `position` | the one file on the disk, and the position of each open descriptor |
| `files`, `held` | `FileEntity` objects (`is_open`, `file`), and those scripts were given |
| `archives`, `zips` | `zip_t`s, and `ZipEntity` objects with their pointer |
| `fiber`, `request` | whether a fiber waits, and for what, performed or not |
| `alive` | the isolate and with it the Luau state |

`Open`, `Read`, `Write`, `Length`, `ZipOpen`, `WriteZip` and `Close` are calls of
scripts, `Threads` what libuv's threads and a worker do with a request, `Callbacks`
its answer on the game thread (`Answer`, `AnswerOpen`, `Finish`), `Unload` the end of
the isolate with the destruction of its entities. A request may fail, and an isolate
may end while an archive is being opened. `lost` remembers the archives whose fiber
was gone by then: nothing ever closes them.

### Dispatch, DispatchPromise

Atoms are counted from `ATOM_UNDEF` and wrap at `AtomCount`, which is 2^16 in the
code and 4 in the run. `AddMethod` registers a method, `CreateAtom` is native code
asking for an atom, `Namecall` is one call: Luau's cached atom or
`ScriptVM::UserAtom`, the fast table of the controller, and its table by name, whose
answer is remembered. `CollectName` is the collector taking the string with a name, to
which `ScriptVM::_atoms` has a view. `DispatchPromise` is the same without
atoms: a call runs the method of that name, or is an error. Once more names were
used than there are atoms, it allows any method of the controller.

### SourceTree

`index.luau` requires `FileTree.luau`, whose fiber runs `CollectLocalTree`: its
activations are `stack`, the file at hand `current`, and the steps `ListFiles`,
`NextFile`, `Length`, `Read`, `ListDirs`, `Dive` and `Leave` are separated where the
script waits for the event loop; `Touch` writes a file meanwhile. `yielded` says that
the require has yielded, which it does when the module first waits: at the first file
that is opened. `End` is the end of the module's fiber, which continues `index.luau`
(`ready`), with the tree or, when a name was there twice, with an error and without a
tree (`provided`). If there was nothing to open, `index.luau` is continued inside the
require it is still running; nothing is said of what follows (`lost`). A path is the
sequence of its segments; a file's extensions are kept apart from its name because the
code drops one of them.

Then the checker asks, in any order and any number of times, as far as it can know a
name: `ReadSource`, `ResolveModule` and `GetEnvironment` are the three questions, each
put to a fiber of its own. Nothing is assumed of Luau's memory of what it asked, nor
that it stops. `fibers` counts the fibers left behind: those of a source that is not
there, and those of a require whose expression names no module. `LuauFrontend:New`
takes its second argument for the third, so `GetEnvironment` is answered by
`ModuleResolver`, always. `MaxMissed` bounds the questions without an answer.

### RobinMap, RobinMapInvariant, MapPromise

`FastStringMap`, a `tsl::robin_map` with the power-of-two policy, as a caller would use
it (no code of the program does, so these modules are about the header alone): `table` is the object with its buckets, `cursor` the caller's iterator and
`visited` what it has stood on. `Probe` is the search that `find_impl` and
`insert_impl` share, `Displace` what an insertion carries on, `ShiftBack` what an
erasure moves, `MakeRoom` the loop around `rehash_on_extreme_load`, `Reload` saves a
table and loads it again. The hash of a key is
a constant, so the instance says which keys collide and which run past the end of
the array. `MapPromise` is a function from keys to values.

The loops of the code are values of `Loop`, which applies one turn (`Carry`,
`Reinsert`, `Extremes`, `MoveUp`, `PutNew`) as often as there are buckets, keys or
bucket counts to try; a turn after the end of the loop in the code changes nothing.
`Sizes` is the set of bucket counts, powers of two up to some limit or all of them, and
`MaxBuckets` the most a table may have (2^63 in the code). Growing past it throws
`length_error`: before anything has changed in `rehash`, `reserve` and
`insert(first, last)` (`CanRehash`, `CanReserve`), after the tables already grown in
the insertion of one entry (`full`).

**The weak operation.** `erase(first, last)` shifts entries back only as far as the
last bucket, and not at all if the range ends at `end()`. When entries run past the
end of the array, that leaves some of them where lookups do not find them; `damaged`
is set exactly then, and `MapPromise` allows lookups to miss entries until the table
is rebuilt or cleared. The model offers only those after a damage. Nothing in `src/`
outside the vendored code calls this operation.

Left out: copies, moves and swaps of tables, `robin_set`, the two other growth
policies, load factors as floating-point numbers (percentages here), and distances
that do not fit in 16 bits, which `Limit` keeps from occurring unless hashes collide
beyond it.

## Runs

| Run | Instance | Shows |
| --- | --- | --- |
| `fiber_open` | 3 fibers, 1 request, lists of 2, any script | undefined behaviour only follows a breach of the contract (`FaultOnlyAfterBreach`); the inductive invariant `IInv` |
| `fiber_live` | 3 fibers, 2 requests of a kind, lists of 3, every call, scripts keep the contract, fairness | who waits for a request or an end runs again (`RequestsAnswered`, `DependantsContinued`); the fibers implement FiberPromise (`KeepsPromise`) |
| `loop_open` | 1 async, 1 timer, 2 work items, shutdown at any moment | `MisuseOnlyAfterBreach`, `OneReplyEach`, `ShutdownClears`, `KilledStaysSilent` |
| `loop_live` | 1 of each, orderly shutdown, fairness | `AcceptedIsDelivered` |
| `controllers_open` | 2 modules, 3 controllers of which 2 share a name, 3 instances, 1 entity, every clause may be broken | `CallsReachLoadedCode`, `OneOwner`, `StopLeavesNone`, `FaultsExplained`, `CInv` |
| `frames_open` | 2 fibers, 2 arguments | cursors fit their stacks, and arguments, results and what dependants get keep their places: `CursorsAgree`, `ArgumentsArrive`, `DependantsGetResults`, `ResultsArrive` |
| `plugins` | 2 names, 2 plugins, 2 fibers each, every clause may be broken, fairness | a handle leads to the fiber that waits, or to nothing (`HandlesResolve`, `FaultsExplained`); all that load are started, and loading ends (`AllStarted`, `LoadingEnds`) |
| `imports` | 2 files, 4 fibers, fairness | `FaultOnlyAfterBreach`, `RunsOnce`, `ImportersWait`, `EndIsReached` |
| `files` | 2 fibers, 2 file objects, 1 archive, 2 bytes, fairness | `UsedWhileOpen`, `OneHolder`, `ArchivesSaved`, `RequestsEnd` |
| `dispatch` | 2 controllers, 2 names, 4 atoms, 5 handed out | `DInv`; calls by atom implement calls by name (`CallsByName`) |
| `sources` | 6 files in 3 folders, 3 modules, 1 write by others, 1 question without an answer, fairness | `NamesFindFiles`, `SourcesAreWhole`, `WalkedOnce`, `RequireReturns` |
| `table` | 5 keys, 2 values, 4 to 16 buckets | `TableInv`, `IterationCovers`; the table is a map (`IsMap`) |

The type invariant of each module is a conjunct of one of its invariants: `IInv`,
`CInv`, `DInv`, `TableInv`, `OneReplyEach`, `CursorsAgree`, `AllStarted`, `RunsOnce`,
`UsedWhileOpen` and `WalkedOnce`. `fiber_open` has `OneWaker` and
`NoForgottenDependant` as consequences of `IInv`, `controllers_open` has
`MakesFromLiveInstance` as one of `CInv`; the theorems below derive them.

**Bounds.** `MaxFibers`, `MaxPending` and `MaxDeps` bound how many fibers a
behaviour creates, how many requests of one kind a fiber has, and how long a list
grows. Activations nest as deep as there are fibers, so no bound on `stack` is
needed. Three fibers give a fiber, the one it waits for and a third that
resumes, depends or completes in between. `MaxPending = 2` leaves room for the
second request that `OneWaker` says is never there. `MaxDeps = 2` with any script
is enough for a list that is walked, extended and walked again. `FiberOpen.cfg`
leaves out timers and file requests: to the fiber that makes one, each is an
archive request that cannot fail; the other run has all kinds.

In EventLoop the sets of handles and items bound what clients create, and
`MaxSends` how often a handle is started: two starts are a replaced timer or a
second one after the callback. Handles only meet in the loop's state, so one of
each kind is enough; two items let one be killed or received while a worker has the
other. The safety properties of the loop hold for clients that break the shutdown
contract too, except for `MisuseOnlyAfterBreach`, which is about just that.

In Controllers three instances are a first registration, a second one of the same
controller or name, and one of the other module, in one behaviour; one entity is
enough because entities only meet in the instance they share, and it can be held,
dropped, orphaned or outlive its instance. In CallFrames two fibers are the one that
calls and the one that is called, or the one that ends and its dependant; two
arguments have an order. `MaxArgs + 1` is the first slot that has no argument.

In Plugins two plugins are one that fails or yields and one that comes after it, and
two fibers the one that has ended and one that waits. In PluginFiles two files can
import each other and four fibers are two importers and the fibers of both files. In
FileIO two fibers have requests in flight for the same file or the same archive at
once, two file objects are one that is open and one that failed, and one archive is
enough, as archives never meet. In Dispatch five atoms from four values wrap past
`ATOM_UNDEF` to one that was handed out. The directory of `MCSourceTree` has two
files of one name, an ignored one, one without an extension, one that begins with the
dot of its extension, and the same name in two folders; `MaxTouches = 1` is the one
write that makes a length stale, and `MaxMissed = 1` a fiber that is left behind. The keys
of `MCRobinMap` are two for each of two adjacent buckets at the end of the array and
one near its start: two entries share a bucket, push those of the next one out of
theirs, and run past the end. `Limit = 1` instead of 8192 makes the table grow
because of distances, `MaxBuckets = 16` lets it grow twice and then refuse.

**Deadlock** is checked in `table` only. Elsewhere the system may stop: fibers when
every one has ended or waits for a `Fiber:Resume` that nobody calls, a loop after
`Destroy`, plugins and sources when all is loaded, dispatch, files and imports at
their bounds; and a fault ends a behaviour.

**Fairness** (`fiber_live`). `ContinueDependant` and `Return` are the rest of a
C++ function and always run on. `SF` on a fiber's `SegmentEnds`: a script does
not run for ever without yielding, returning or throwing; strong, because the
script's own nested calls disable it again and again. `SF` on `Answer`: the loop
is run on every game frame and libuv loses no request; strong, because a callback
waits for the other callbacks of its turn. Nothing is assumed of `Fiber:Resume`,
so fibers parked by `Fiber.Await` may wait for ever, as in the code.

In `loop_live`, `RunOnce`, `CallbackReturns`, the rest of a `uv_run` and a worker
that has an item go on (`WF`): the frame hook calls `RunOnce` on every frame, and
none of the others waits for anything. `SF` on `Fire` and `Finish`: a run polls
for signals, expired timers and processed items, but client code and the end of
the run disable delivery again and again.

In `plugins` the rest of `LoadAllPlugins` runs on, and a script ends its run. In
`imports` the same is assumed of native code and scripts, and each callback comes. In
`files` each fiber's request is performed and answered, by `WF` on `Threads` and
`Callbacks` of each fiber. In `sources` the module that collects goes on; others may
write the files meanwhile, but a bounded number of times. Nothing is assumed of the
checker.

**Contracts.** Some modules have a contract: what scripts, modules or the game must not
do for the code to stay defined. Where a clause excludes the very case a hazard is
about, the properties say that nothing else leads there, and not that the case is
harmless:

* a module that ends before its requirer has yielded (`ScriptVM.cpp:351`) is a breach in
  FiberRuntime. SourceTree has it without a contract, for the one require of the
  program's own scripts, and shows when it happens: in a directory without a file to
  read.
* a second pass over the dependants of a fiber (`ScriptHandles.cpp:66`) starts from a
  `Fiber:Resume` of one that has ended, a breach.
* deleting an isolate deletes fibers a second time (`ScriptVM.cpp:67`). It needs a
  `Plugin::Stop` after a fiber has ended, which a clause of Plugins excludes. No code of the repository calls `Plugin::Stop`:
  stopping is modelled because it is an operation of the interface.
* an import of a file that has ended (`PluginFileController.cpp:67`) is a breach in
  PluginFiles, although the header invites it; see `ResultsAreKept` below.
* that the iterator of `UnloadAllModules` survives the removals (`ModuleManager.cpp:128`)
  is assumed by Controllers, because amtl's table is not in the repository.

**Not true.** The modules also state what comments of the code say, or what its
callers might expect, and what it does not do. No run checks these; TLC finds each
violated, most of them within a few steps.

| Property | What is said | What the code does |
| --- | --- | --- |
| `FiberRuntime!KillContinuesDependants` | `Kill` is like throwing an error (`ScriptFiber.h:32`) | `Kill` leaves the dependants waiting for ever (`ScriptFiber.cpp:128`) |
| `FiberRuntime!HandleDissolves` | a handle knows whether its fiber exists | `FiberHandle::Exists` compares a slot with null, and a deleted fiber stays in its slot |
| `FiberRuntime!DependantsAreYielded` | dependants have yielded | `require()` gives `TryDepend` a fiber that has not |
| `EventLoop!CleanShutdown` | `Destroy` clears the loop | it closes handles again that are closing already |
| `EventLoop!AnswersTruly` | `TryInvoke` says whether it succeeded | `TryInvoke` and `TryDelay` answer nothing in particular (`AsyncHandle.cpp:48`) |
| `Controllers!DtorsProtected` | a flag keeps destructors from a controller that is gone (`ScriptControllers.cpp:160`) | the flag is in the object that is gone (`ScriptControllers.cpp:129`) |
| `Controllers!DestructorsReached` | an entity's destructor is called (`IScriptController.h:229`) | by a virtual call on memory that was never constructed (`IScriptController.h:199`) |
| `Controllers!OnlyOwnedRefs` | each registry reference has an owner | `ReturnNew` forgets that of the entity it answers with |
| `CallFrames!ErrorReported` | the error of a call can be read after it (`IScriptMethod.h:113`) | the thread is reset first (`ScriptFiber.cpp:159`) |
| `CallFrames!ResumeAnswersResults` | `Fiber:Resume` returns the results (`FiberController.cpp:73`) | they begin with a value nobody returned (`FiberController.cpp:74`) |
| `CallFrames!OnlyArguments` | a function gets the arguments it was given | one that `Fiber.New` starts gets a nil after them |
| `CallFrames!EntityIsArgument` | `ArgOpaqueEntity` reads the argument | it tests the argument and reads self |
| `Plugins!FailedLeavesNothing` | a plugin that fails leaves nothing | its isolate stays |
| `PluginFiles!ResultsAreKept` | "if this file has been executed, the results will be here" (`PluginFileController.h:31`) | nothing stores results, so a second import uses the fiber that has ended |
| `FileIO!DefaultWriteAtEnd` | "default to end of file" (`FileSystemController.cpp:192`) | the write goes to the descriptor's position |
| `SourceTree!FibersAreReturned` | a fiber is deleted when it has answered | `readSource` and `resolveModule` return before that when there is no string (`LuauFrontend.cpp:63`, `108`) |
| `RobinMap!RangeKeepsRest` | erasing a range keeps the rest | see the weak operation above (`robin_hash.h:840`, `862`) |
| `RobinMap!FreeBucketsKnown` | the assertion in `insert(first, last)` (`robin_hash.h:742`) | a loaded table has the threshold of no buckets, and a maximum load factor may be lowered under what is there |

Other disagreements, met while reading, that no model states: the comment before the
`stdlibs` of `ScriptVM.cpp:250` says `coroutine.create` is disabled, but the name with
the dot is a global of its own; a message of `LuauFrontend` names its third argument
where the second is tested, and taken (`LuauFrontend.cpp:185`); modules that import each other in a circle and yield wait
for each other for ever, as fibers that depend on each other do.

## Proofs

Each result holds for every value of the constants: any number of fibers, requests
and dependants, any set of native calls, scripts with or without discipline (but for
the refinement); any number of modules, controllers, instances and entities, any
names, any clauses of the contract broken; any sets of handles and work items; any
plugins, with any number of fibers and of files; any finite set of fibers that use files
and archives, and any number of those; any number of names, methods and atoms; native
calls nested to any depth, with argument lists of every length; any directory, nested
to any depth, of files with any names, and any finite set of modules; any keys, hashes
and values, any number of buckets and any limit on distances.

| Theorem | States |
| --- | --- |
| `FiberProofs!TypeCorrect` | `Spec => []TypeOK` |
| `FiberProofs!Inductive` | `Spec => []IInv` |
| `FiberProofs!FaultFree` | `Spec => []FaultOnlyAfterBreach` |
| `FiberProofs!WokenOnce` | `Spec => []OneWaker` |
| `FiberProofs!DependantsNotForgotten` | `Spec => []NoForgottenDependant` |
| `FiberProofs!FibersKeepPromise` | `Disciplined => (Spec => KeepsPromise)`: FiberRuntime implements FiberPromise |
| `EventLoopProofs!LoopInductive` | `Spec => []LInv` |
| `EventLoopProofs!MisuseNeedsBreach` | `Spec => []MisuseOnlyAfterBreach` |
| `EventLoopProofs!RepliesAreOnce` | `Spec => []OneReplyEach` |
| `EventLoopProofs!SilentAfterKill` | `Spec => KilledStaysSilent`, of steps |
| `EventLoopProofs!ShutdownIsClean` | `Spec => []ShutdownClears` |
| `ControllersProofs!ControllersInductive` | `Spec => []CInv` |
| `ControllersProofs!CallsAreSafe` | `Spec => []CallsReachLoadedCode` |
| `ControllersProofs!SinksOwn` | `Spec => []OneOwner` |
| `ControllersProofs!StopIsClean` | `Spec => []StopLeavesNone` |
| `ControllersProofs!FaultsHaveCauses` | `Spec => []FaultsExplained` |
| `ControllersProofs!EntitiesFromLive` | `Spec => []MakesFromLiveInstance` |
| `PluginsProofs!PluginsInductive` | `Spec => []PInv` |
| `PluginsProofs!FaultsHaveCauses` | `Spec => []FaultsExplained` |
| `PluginsProofs!HandlesFindFibers` | `Spec => []HandlesResolve` |
| `PluginsProofs!EveryPluginStarted` | `Spec => []AllStarted` |
| `PluginFilesProofs!ImportsInductive` | `Spec => []ImportInv` |
| `PluginFilesProofs!FaultsNeedBreach` | `Spec => []FaultOnlyAfterBreach` |
| `PluginFilesProofs!FilesRunOnce` | `Spec => []RunsOnce` |
| `PluginFilesProofs!NoImporterForgotten` | `Spec => []ImportersWait` |
| `FileIOProofs!FilesInductive` | `Spec => []FInv` |
| `FileIOProofs!PointersAreValid` | `Spec => []UsedWhileOpen` |
| `FileIOProofs!ArchivesHaveOneHolder` | `Spec => []OneHolder` |
| `FileIOProofs!WrittenIsSaved` | `Spec => []ArchivesSaved` |
| `ControllersProofs!DispatchInvariant` | `DispatchSpec => []DInv` |
| `ControllersProofs!NamesKeepTheirAtoms` | no two names share an atom while atoms last |
| `ControllersProofs!AtomsImplementNames` | `DispatchSpec => CallsByName`: the atoms implement DispatchPromise |
| `CallFramesProofs!FramesInductive` | `Spec => []CallFramesInvariant` |
| `CallFramesProofs!CursorsAgreeAlways` | `Spec => []CursorsAgree` |
| `CallFramesProofs!ArgumentsArriveAlways` | `Spec => []ArgumentsArrive` |
| `CallFramesProofs!DependantsGetResultsAlways` | `Spec => []DependantsGetResults` |
| `CallFramesProofs!ResultsArriveAlways` | `Spec => []ResultsArrive` |
| `SourceTreeProofs!SourceTreeInductive` | `Spec => []SourceTreeInvariant` |
| `SourceTreeProofs!SourcesStayWhole` | `Spec => []SourcesAreWhole` |
| `SourceTreeProofs!NothingIsWalkedTwice` | `Spec => []WalkedOnce` |
| `SourceTreeProofs!NamesAlwaysFindFiles` | `Spec => []NamesFindFiles` |
| `SourceTreeProofs!RequirerYieldsFirst` | `Spec => []RequirerHasYielded` |
| `ControllersProofs!TableInductive` | `TableSpec => []RobinMapInvariant` |
| `ControllersProofs!TableInvariant` | `TableSpec => []TableInv` |
| `ControllersProofs!IterationCoversAll` | `TableSpec => []IterationCovers` |
| `ControllersProofs!TableIsMap` | `TableSpec => IsMap`: the table implements MapPromise |

**Fibers, types.** `TypeOK` is inductive together with `StackOK`: `Return` from a module's
first activation writes to the activation below, so it must be known that there is
one, and the loop's end must lie within the list for `ContinueDependant` to read a
fiber.

**Fibers, safety.** Neither `FaultOnlyAfterBreach` nor `OneWaker` is inductive: that no
freed fiber is ever entered depends on who holds a handle of it, that depends on
when a fiber is parked, and that on the activations. `Sound` says how they fit
together until the contract is broken: a fiber has one activation; an activation's
phase agrees with Lua; a requester is parked with one request; an outstanding
dependant is parked with none and is in one list only, or is inside the `require()`
whose module is right above it on the stack; a list is consumed only by a fiber
that has ended; an ended fiber off the stack has consumed its list unless it was
killed. `IInv` is `TypeOK /\ StackOK /\ (~breached => fault = "none" /\ Sound)`.

`FiberProofs` has one lemma per kind of change, each saying what it needs to keep
`Sound`: `BirthSound` (a new fiber starts running), `WakeSound` (a parked fiber
starts running), `YieldSound`, `FinishSound`, `PopSound` and `RequireReturnSound`
(`Return`), `KillSound`. `NextSound` then has one step per action, which shows that
the action is one of those changes and why: a completion finds its fiber parked
because of `RequestsOK`, the loop over the dependants because of `DependantsOK` and
because a module that yielded is not in its first activation any more, and
`Fiber:Resume` because of the contract.

**Fibers, refinement.** `FiberProofs` shows that each step of FiberRuntime is
one step of FiberPromise or leaves what it speaks of alone, one lemma for each kind
of step: a birth, an answer, a resume, the four ways to wait, the end of a script, a
dependant that goes on, and the return from a module that makes `require()` yield.
The parts of the mapping are not independent: a fiber inside `require()` is in its
module's list but does not count as joined to it before it yields, so the join
appears in the step in which the module returns, and what makes that one step of
the promise is in `Sound`: nothing else was waited for. Without the contract scripts
can leave the promise, which is why the theorem assumes `Disciplined`; that scripts
which keep the contract never set `breached` is a lemma.

**Event loop.** None of the four properties says what a flag of a C++ object means
for libuv. `HandlesSound` does: a live object that was not killed has an open
`uv_handle_t`, unless `Destroy` closed that behind it, and an open one belongs to a
live object that nobody has revoked; so a `Kill`, a destructor and `OnWalk` never
close the same handle twice while the contract is kept. `CallbacksCounted` ties the
callbacks that ran to the invocations accepted, `WorkSound` says how often an item's
receiver can have run at each point of its life, and `AnswersSound` keeps what
`Destroy` found when it answered. `KilledStaysSilent` follows from `CallbacksRun`, a
lemma about single steps: a callback starts only for a signalled handle or an item
that was not killed, and then the invariant does the rest.

**Controllers.** `CInv` is one invariant for all six theorems. `FaultsExplained`
alone says nothing of the state a fault comes from, so `CInv` also has, for each
clause, what can only be true once it was broken: an instance that is still in a
sink was deleted by another module (`InstancesSound`), a template that is not the
instance scripts reach comes from a second registration (`NativesSound`), an entity
or a request that outlived its instance comes from an early removal
(`OutlivedOnlyAfterBreach`), a controller that is ready when the Lua state is closed
from an early close (`ClosedLast`). `SweepCovers` ties the iteration of
`UnloadAllModules` to the table it iterates: it is why `Stop` leaves nothing. The
part about instances does the work for scripts: an instance has methods exactly
while it is live, it is live only while its controller's code is there, and then its
module's sink has it. `ControllersProofs` has a lemma for what `DestroyAll` does,
because unloading, destroying and stopping share it, then one step per action.

**Plugins.** A fault needs a clause broken first because of what `PInv` says of the
state before it: a deleted isolate goes with an entry method that was deleted, which
needs a closed Luau state; an isolate that is gone leaves only freed fibers and
requests; a fiber runs only in a live isolate of an open state. `HandlesSound` says
it both ways, as `HandlesResolve` does: each request of a live isolate is of a
waiting fiber, each waiting fiber has a request, and no two requests have one fiber;
the bounds of slots and vectors that a handle needs to be looked up are in
`TypeOK` and `FibersSound`. `LoadingSound` is why loading skips no file, with
`ListedOnce` for the files that were loaded before.

**Plugin files.** That no importer is forgotten is about lists, and that no list is
walked into a deleted or a running fiber is about activations; `ImportInv` needs both
at once. `Activities`: a fiber has one activation, whose phase says what its thread
does, and the one whose `Import` runs a file is in its script right below it, which is
why `ReturnToImport` finds it there. `Lists`: who is still to be continued waits for a
file, and is in one place only. While a list is walked the activation says from where
it is outstanding, so a turn of the loop takes away the one place of the fiber it
continues. A fiber that imports an object again while the list of that object's fiber
is walked is appended behind the part that counts; that is the breach, and the one way
to be forgotten. As for FiberRuntime, there is one lemma per kind of step, for the
activations (`BirthPreserves`, `WakePreserves`, `YieldPreserves`, `PopKeeps`) and for
the lists (`ListsKept`, `ListsConsumed`, `ListsGrown`).

**Files.** `OneHolder` counts, and a count is not inductive: `HolderSound` says for
each archive that the task which has opened it is alone, that an entity holds no
archive but its own, and that whoever has an open archive is one of these, or it was
lost when its isolate ended while it was being opened. That entities never share
a descriptor rests on the requests too: what was opened for one fiber is in no file
and no other request (`RequestSound`, `OpenedOnce`), and a request that is under way
is of a file scripts still hold, because nothing but the end of the isolate closes a
file. `BoundsKept` counts requests that will make a file or an archive, as the guards
do, so that the types stay bounded. The three theorems follow from `FInv`, the second
by counting the sets of holders.

**Dispatch.** Until atoms run out, `DInv` says that an atom a name has, or a string
has cached, was handed out for that name, that the atoms in use are the first ones
of the counter, and that what a controller remembers under an atom is the method of
the name that owns it. A call
through the fast table then runs the method of its own name, because the atom's owner
is that name; `ControllersProofs` has one lemma for a name that gets its atom and one
step per action, and maps `Namecall` to `Call`, `AddMethod` to itself and the rest to
`Exhaust` or a stutter.

**Call frames.** That a cursor agrees with its frame, and that values arrive, says
nothing of who may touch a frame next. `FramesOK` says what a fiber's Lua stack is in
each state of the fiber: self and the arguments inside a native call, what the fiber
left once it stopped, nothing once it failed. `LivesOK` says for which entry the
function is below the arguments, and that who waits has yielded; `ActivationsOK`,
where the fiber below each activation is, so that an activation that is popped finds
the native call or the loop over dependants it answers; `OneDependency`, that a
dependant is at one place of one list, so that no two fibers push results onto it.
Beside that, the proofs are about sequences: a lemma for each of the operators
`Topmost`, `At` and `VarArgs` says which values of a stack it gives, and one for each
way of handing values on says that the index arithmetic of `ScriptCall` picks those.

**Source tree.** Nothing in `NamesFindFiles` tells why a folder is a child in time.
The branch does (`BranchOK`): the folder of each activation is one segment longer than
that of the one below it, so lengths of paths keep apart what is on the branch, below
it and beside it; `BelowOK` says which folders next to the branch are children
already, `ChildOK` that a child is complete. At the end of the collection the branch
is the root alone, so every folder is a child. `ObjectsOK` with `ReadingOK` says that
the name of the file being read is free until its object is made, and that its length
is right unless a write overtook it. `Query` walks down a name by a recursive
function: that the recursion has one solution is `WalkIsDefined` (a least segment at
which two solutions differ), what it answers is `QueryAnswers`, and that the way to a
child is open at each of its segments (`WayIsOpen`) is an induction on prefixes. These
inductions are written out with a least counterexample (`LeastNatural`), because the
library's induction theorems take an operator.

That `index.luau` has yielded before the module ends, if there is a file to read, needs
more than the branch: until the yield, every such file is `Ahead` of the walk, its
folder no child, and it is not taken if its folder is on the branch. When the root is
done no file is ahead (`NothingAhead`: a first folder on the way to one that was not
walked into would be in a folder that was), so there was none.

**Hash tables.** `TableInv` holds between operations, while an operation takes the
array through states in which it does not: an entry is in no bucket, or a run of
entries has a hole. `RobinMapInvariant` therefore says of an array alone what each loop
starts from and ends in: entries are where their distance says (`InPlace`), no key is
there twice (`Distinct`), an entry is at most one further from its bucket than the
entry before it (`Ordered`, unless the table is damaged), and a bucket is free whatever
the threshold lets in (`Roomy`), which is why searches end. `CursorOK` adds that the
caller's iterator stands on an entry or at the end.

- *Searches.* `Chain` follows `Ordered` back from an entry towards its own bucket: the
  entries on the way are far enough from theirs for a search to pass them, so
  `SearchFinds` the entry.
- *Insertions.* `DisplaceInserts` says, of each turn, that the array is in order and
  complete but for the carried entry, which is as far from its bucket as the entry
  before the loop's bucket allows; a free bucket ends it.
- *Erasures.* `ShiftBackKeeps` shows that closing a hole keeps the order, because the
  run that moves ends before a free bucket or an entry in its own bucket.
  `WithoutRangeKeeps` does it for a range, turn by turn, as long as no entry crosses the
  end of the array; and if one does, `FoundOrdered` says that an array in which every
  search succeeds is in order after all, so that `damaged`, which is about lookups, is
  what the order depends on.
- *Growing.* `RehashedKeeps` inserts the old entries one by one. `MakeRoomKeeps` bounds
  the loop around it, which has no bound of its own: a table may shrink in the first
  turn only, and at least doubles in every other. `ShrinkFits` is the arithmetic of load
  factors that keeps a shrunk table within the limit.
- *The promise.* `Contents` is what an array holds, in whatever order, and lookups are a
  function of it while the array is in order; every operation is then a statement about
  `Contents`.

The induction along each loop is `LoopStates`, over a set of states for each turn,
because the library's induction theorem takes an operator.

The assumptions are those on the constants in the modules themselves: bounds are
numbers, sets that are counted are finite, kinds of objects differ. Each of the
inductive invariants was checked by TLC on the instance of its run before it was
proved; in the proved modules what the runs add is liveness, which is beyond the
proof system, and that each action and each case of the invariants does occur.
Of `RobinMapInvariant` TLC checked all but the types of a table's fields, an infinite
set it cannot enumerate. No invariant and no refinement of a run is left without a
theorem. What only TLC checks are the liveness properties: `RequestsAnswered`,
`DependantsContinued`, `AcceptedIsDelivered`, `LoadingEnds`, `EndIsReached`,
`RequestsEnd` and `RequireReturns`.

## Not modelled

Formatting, logging and terminal colours, profiling, raw memory access, the
allocator, xxHash, the game's interfaces; the setup of a Luau state, a fixed sequence
of library calls; the index of `PluginSingletonController`, a lookup without state;
`ScriptObject`, which copies values into tables; the compiler and type checker, which
are Luau's, and which questions the checker asks; amtl's `HashMap`, whose source is in a submodule; `robin_set` and what
else RobinMap leaves out; and `ThreadController`, which no build file names.
