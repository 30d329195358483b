# TLA+ verification of nvidia-vera-kist

`nvidia-vera-kist` is the BMC daemon that runs the in-system test (IST) of Vera
CPUs. A D-Bus client asks it to run the test (`StartIST`), to replace the test
vectors (`StartUpdate`) and to hand out the results (`GetResultsFd`). The daemon
checks the signed collateral, sets a boot strap through a platform hook, waits
for the host to be power-cycled, launches `kist_itm`, releases the strap again,
packs the results, and publishes its state on D-Bus throughout.

It is one thread on one `boost::asio::io_context`. Nothing in it runs in
parallel, and that is exactly where its difficulty lies: a run is a chain of
completion handlers, and between any two of them the loop may handle a D-Bus
method, a step of an update, a late timer, the exit of a process or the end of
its output, in any order. The modules here model those orders.

Contents: [inventory](#inventory), [modules](#modules), [what the modules leave
out](#what-the-modules-leave-out), [runs](#runs), [fairness](#fairness),
[proofs](#proofs), [findings](#findings), [plan](#plan).

To repeat everything: `tlc -config X.cfg M` for each row of the table of runs,
`tlapm M.tla` for each `*_proofs.tla`.

## Inventory

Paths are relative to the root of the repository; most code is in `src/*.cpp`.

| Component | State it keeps | Operations | Interacts with |
|---|---|---|---|
| `IstService` (`ist_app.cpp`) | `state_` (stage, status, progress), `test_` parameters, failure information, the service log | `start_ist`, `start_update`, `get_results_fd`, and a completion handler per step of a run | calls every other component and is called back by each |
| `VectorManager` (`vector_manager.cpp`) | the two mounts, `update_in_progress_`, the current session | `start_update`, `ensure_mounted`, `mount_vectors_on_startup`; sessions `PldmHeaderPeekSession`, `TransferSession` | asked by `IstService`; reads the client's descriptor; publishes on D-Bus |
| Hook runner (`hook_runner.cpp`) | one `HookProcess` per hook: process, three timers, output tee | `run` | called by `IstService`; writes to the service log |
| `kist_itm` runner (`itm_runner.cpp`) | `ItmProcess`, `ProgressPoller` with a detached reader thread | `launch` | called by `IstService`; reports progress and exit |
| Host power monitor (`host_power_monitor.cpp`) | `saw_off_`, the signal match, the ten minute timer | `async_wait_for_power_cycle` | D-Bus signals and a Get of the chassis state |
| Results and service log (`ist_results.cpp`, `ist_logging.hpp`) | files of the results directory, `ArchiveSession` | wipe, pack and remove, `log_to_results`, `OutputTee` | fed by hooks and `kist_itm`; started by `IstService` |
| Signature verification (`signature_verify.cpp`) | `SignatureVerifySession`: targets, the file being read | `verify` in posted steps | reads the mounted images |
| CPU discovery (`ist_main.cpp`, `ist_app.cpp`) | the socket list of the run | `discover_cpus`, `on_cpu_discovery_done` | ObjectMapper |
| D-Bus publisher (`dbus_state_publisher.cpp`) | the run object and the inventory object | `publish`, `publish_activation`, version, progress | called by `IstService` and `VectorManager` |
| Daemon start, D-Bus methods (`ist_main.cpp`) | none | `main`, the D-Bus methods | restarted by systemd; creates all of the above |
| Configuration parsing, telemetry, error names | none | pure checks, a one-way export | |

**What is hard.**

* *Chains of completions.* Ten different answers can be outstanding in a run;
  each handler must ask for the next or go back to idle, on every error path.
* *Physical state.* The boot strap outlives the process. `initialize()` launches
  a deassert hook and does not wait for it; hooks may fail, or be killed on their
  time limit, with or without having reached the strap.
* *Two activities.* Runs and updates exclude each other through two guards that
  look at different state, over mounts that they share.
* *Partial failure.* The results directory is on storage that may go read-only;
  the archiver removes files as it packs them; the image is overwritten in place.
* *Restarts.* systemd restarts the daemon (`Restart=always`); mounts, files and
  the strap survive.
* *Timers.* `cancel()` does not take back a handler that is already queued.
* *Long work in turns.* Verifying, archiving and uploading take one turn of the
  event loop per block; hooks that were left running, clients and faults come in
  between. A detached thread reads the progress file.

**What makes each part correct.** A run always ends; what has armed the board
also releases it; no run is reported Completed with the strap asserted; the
object and the archive a client reads are those of that run; a failure is
explained where the external parser looks for it. An update always gives its
lock back; the image is not overwritten while mounted; Active means mounted; what
was checked is what is tested. Every asynchronous helper answers exactly once,
with nothing of it left running, and an answer of success is genuine. A result
file is removed only when it is in the archive, and what a client was handed
never changes. How an upload is cut into reads has no part in what is done with
it. `PROJECT.json` lists the hazards one by one,
with their lines and the properties that address them.

## Modules

| Module | Models |
|---|---|
| `IstService` | the run state machine of `ist_app.cpp`, with the log, archive and run object |
| `RunProtocol` | abstract: the order in which a run may touch the board |
| `IstServiceRefinement` | the mapping under which `IstService` implements `RunProtocol` |
| `MC_IstService` | instance for TLC, and the claims of three comments of the code |
| `IstService_proofs` | theorems about `IstService` |
| `VectorManager` | the vector store and the two sessions of an update |
| `RunAndUpdate` | `VectorManager` composed with a run at the level of `RunProtocol` |
| `RunAndUpdate_proofs` | theorems about these two |
| `PldmUpload` | the bytes of an upload, header and payload, where `VectorManager` tells only good from bad |
| `PldmUpload_proofs` | theorems about `PldmUpload` |
| `OneShot` | abstract: what an asynchronous helper promises the one that asks |
| `HostPower`, `MC_HostPower` | the wait for a power cycle |
| `HookProcess` | one hook, its three timers and its output |
| `ItmProcess` | `kist_itm`, its timers, its output, and the poller of its progress file |
| `HostPower_proofs`, `HookProcess_proofs`, `ItmProcess_proofs` | theorems about these three |
| `Collateral` | the signature check and the CPU discovery with which a run begins |
| `ArchiveContract` | abstract: the archive as `IstService` relies on it |
| `ResultsArchive` | the turns of the archiver, the wipe, and `GetResultsFd` |
| `Collateral_proofs`, `ResultsArchive_proofs` | theorems about these two |

The modules fit together by what they promise. `IstService` takes each helper by
a question and an answer; `OneShot` states that promise, and `HostPower`,
`HookProcess`, `ItmProcess` and `Collateral` are shown to implement it
(`KeepsPromise`). It takes the archiver by two steps, `OpenArchive` and
`FinishArchive`; `ArchiveContract` has those two, and `ResultsArchive` implements
it (`FollowsContract`, its safety half proved). `RunAndUpdate` takes the run by `RunProtocol`, which
`IstService` implements (`FollowsProtocol`, proved).

### IstService

The variable `op` is what the daemon waits for. Every handler of the code is an
action with the handler's name, guarded by `op`, whose body follows the handler
to its end, all helper calls included: `EmitIstError`, `CloseServiceLog`,
`Transition` (`transition_to` with its `publish()`), `FailRunWithArchive`,
`RunIstCleanup`. What the handler asks for at its end becomes the new `op`
(`Await`). A branch that goes on without asking anything of the environment (a
hook that is not configured, no custom sockets) continues in the same action.
A hook or process that could not be started calls back with a failure; that is
the answer `ok = FALSE` of the next step.

| Variable | Code |
|---|---|
| `stage, status, progress` | `state_` |
| `test`, `exit`, `released` | `test_`, and the `itm_exit`, `ok_deassert` captured by continuations |
| `obj` | properties of the run object on D-Bus, as a client reads them |
| `logOpen`, `files`, `lines` | `run_logs_.service`, the files of the results directory, and the `IST_ERROR` lines in the log |
| `archive`, `archiving` | `ist_results.tar.gz`: whose it is, what it holds, whether it is whole |
| `strap`, `landed`, `startup` | the board: the strap, whether the hook that is running has reached it, and the deassert hook of `initialize()` |
| `hooks`, `fs` | hooks named in the configuration; the results file system |

The environment may let hooks land before they answer (also hooks that then
fail), set a file system fault at any moment, start and end updates, kill the
process at any moment, and call `StartIST` whenever the daemon is idle.

### VectorManager and RunAndUpdate

A payload is `Chunks` reads long, a package is a member of `Packages`, and an
image on disk is the package, how much of it there is and whether it is intact.
`session` is the session object that is alive. The unmount may find either mount
busy. Mounting may fail, and a failed mount of `GOLDEN_RES` may leave the ext4
mounted: `undo_ext4()` runs while a loop device still holds a file on it, and its
result is not looked at. The last of a verified payload may be lost without
notice when the stream is closed (`Beginnings`), for the storage may be full as
well as failed, and `committed_` is set before. `Restart` is the
end of the process at any moment followed by `mount_vectors_on_startup`, with or
without a reboot of the BMC (which drops the mounts); what the stream had
buffered in a transfer is lost with the process, and with the power whatever was
not on the storage, since nothing is synced.

`RunAndUpdate` adds a run. Since `IstService` implements `RunProtocol` (below),
the run is taken at that level; the two guards and `ensure_mounted` are those of
`start_ist` and `start_update`.

### PldmUpload

One upload: `PldmHeaderPeekSession::on_read` over a growing prefix, then
`TransferSession`. A read takes any number of bytes that are there, so each
package arrives in every way of cutting it up. The layout of DSP0267 is scaled
down, field by field: a byte has six values, integers have one or two bytes,
identifiers two, the prefix three, the checksum is a sum. The uploads are six
well-formed packages (none, one or two components, with and without version
strings), with any one byte of the header set to any value, the header's
checksum made to agree or not; the unchanged package is among them.
`check_ist_component_uuid`, `package_size_from_header` and
`validate_pldm_header` are operators over the bytes; the walk has the code's
guards and, like it, reads a few bytes of the buffer behind the declared header
once a guard has passed. What lies behind the buffer is an arbitrary value.

### HostPower, HookProcess and ItmProcess

All three model the event loop: a timer is armed, then its expiry queues a
handler, then the handler runs, and `cancel()` only works on the first. In
`HostPower` messages of the chassis service keep their order (D-Bus does), the
Get is answered whenever the service gets to it, also after its wait is over. In
`HookProcess` the hook may ignore SIGTERM, may close its output early, and may
leave a descendant that holds the pipe. In `ItmProcess` a hook that `kist_itm`
started may hold the pipe; `piped`, `"chunk"` and `logged` are a line in the pipe,
read by the reactor, and written by `OutputTee`. A poll is a thread that reads the
progress file whenever it gets to it and a byte that arrives whenever the loop
gets to that; `kist_itm` truncates the file before it writes a new count.

### Collateral

The library directory is any assignment of absent, other, regular (with a good,
bad or missing signature) or link (to any entry, `kist_itm`, a file outside, or
nothing) to three names, so chains and circles of links of every length up to
three are there. The session opens and reads one block per turn, and any open or
read may fail. Discovery takes any listing of up to three paths, each with a
socket number or none, in any order.

### ResultsArchive

Archives are inodes: `path` is the one named `ist_results.tar.gz`, and a client
keeps what it opened. A hook that the run left behind may append to its file
while that is packed (`late`), the file system may turn read-only, and the daemon
may die, at any turn.

## What the modules leave out

* Wording, formatting, timestamps, event-log entries, the 2 s timer that signals
  `Stage` again, and files that only serve humans.
* Calls the code rejects without changing state (EBUSY) are not steps. A
  rejected `StartIST` that does change state is `RejectStart`.
* In `VectorManager` the header of a package is right or wrong and declares a
  payload size that may be right, wrong or unknown: what `PldmUpload` computes
  from the bytes. A CRC is taken to tell a damaged payload from the right one, and
  a signature to be good or bad.
* `k_max_result_size`, above which `get_results_fd` refuses an archive.
* Loop devices: `mount_images` and `teardown_mounts` are taken by their outcome.
* `umount` errors that `teardown_mounts` tolerates, and chassis states that are
  neither On nor Off, change nothing and are not steps.
* An inactivity timer whose handler is queued when its session ends: the handler
  holds a weak pointer, and `finished_` stops it if the session is still there.
* An increment of the directory iterator that fails in
  `collect_files_to_verify` throws, since only its constructor is given an error
  code; that ends the process, which `Crash` of `IstService` covers.
* `start_ist` without a CPU discoverer: `main` always sets one.
* A mounted `GOLDEN_RES` is taken to be non-empty, so that the emptiness test of
  `ensure_mounted` tells whether it is mounted. A truncated image may mount or
  not.
* On a writable file system the removal of a file that has just been packed
  succeeds.
* `StartWait` of `HostPower` begins with the queue empty: the run that asks for
  the next wait goes through at least two hooks and the archiver first, so what
  was queued at the end of the previous wait has been handled. Get replies still
  owed are *not* assumed away.

**Not modelled:** configuration and parameter parsing (pure; `IstService` takes
every outcome of it), shared-memory telemetry (no state that the daemon reads),
error names, D-Bus marshalling, the command line of `kist_itm`.

## Runs

| Run | Instance | Shows |
|---|---|---|
| `IstService` | 2 runs, 1 crash, percentages 0 and 1; every set of configured hooks | the invariants, two action properties, `RunEnds`, and the refinement of `RunProtocol`; 652 300 states |
| `RunAndUpdate` | 3 packages, 2 with a version, 3 chunks, 2 updates, 1 restart; runs unbounded | what is mounted, published and left on disk, that the lock comes free, and runs and updates together; 72 540 states |
| `HostPower` | 2 waits, 4 changes of power | both waits answered once and rightly |
| `HookProcess` | 2 lines of output | its exit, the end of its output and its three timers in every order |
| `ItmProcess` | 2 lines of output, 2 tests | the same for `kist_itm`, with the poller; 73 000 states |
| `Collateral` | 3 names, 2 blocks, 3 paths | every directory and every inventory of that size; 149 000 states |
| `ResultsArchive` | 2 files, 2 blocks, 2 runs | a run archived while hooks, clients, faults and a crash interfere, and the run after it; 1.4 million states |
| `PldmUpload` | bytes of 6 values | every cut of every upload; 50 000 states |
| `ResetErrorLost`, `VerdictRewritten`, `StartupHookRace` | 1 run, no crash | findings, below |
| `AlreadyOffMissed` | 1 wait, 2 changes of power | finding, below |

**Why these bounds are enough.** All state that a run of the daemon can inherit
is of the run just before it (object, archive, files, strap) or of the process
before it, so two runs and one crash, at any point of either, meet every case;
the theorems cover the rest. Percentages are only copied, so two values do. For
updates, the second one meets a mounted image of the first, a busy mount, a
leftover partial image or a restarted process; three packages let the image on
disk, the one mounted before and one without a version differ; three chunks are
needed so that a percentage can move twice below its cap with a declared size
that is too small, exact or unknown. A second wait is needed to see answers of
the first; four changes are two whole cycles. Two lines are one already logged
and one still in the pipe.

`CHECK_DEADLOCK FALSE` is set where the system may rest: an idle daemon with no
client calls left under the bound (`RunAndUpdate`, `ResultsArchive`), a monitor
between two waits (`HostPower`), what has given its answer (`HookProcess`,
`ItmProcess`, `Collateral`) or ended (`PldmUpload`). `IstService`
is checked for deadlock: bounds aside, an idle service is refusing calls, which
`RejectStart` models.

## Fairness

* `IstService`: `WF(Completion)`. Every awaited answer has a time limit: hooks
  120, 240 or 360 s followed by SIGTERM, 5 s, SIGKILL and the drain timer
  (`HookProcess` shows that this suffices); the power wait ten minutes
  (`HostPower`); `kist_itm` its software timeout, 45 minutes unless given, then
  SIGKILL; D-Bus calls their own timeout; the signature check and the archiver
  post one step after another over a finite list (`ItmProcess`, `Collateral` and
  `ResultsArchive` show the last three). Nothing is assumed of clients,
  of hooks reaching the strap, or of updates.
* `VectorManager`: `WF(SessionStep)`. Whenever a session waits it is armed with
  the inactivity timer, so some step of it is always due; no fairness is assumed
  of the client, whose silence is `HeaderFails` or `WriteOrTimeoutFails`.
* `HostPower`: the loop runs what is queued and time passes (`Dispatch`,
  `Expire`, `OnTimer`). Nothing is assumed of the chassis or of Get replies.
* `HookProcess`: the loop runs what is ready (`Handler`), time passes
  (`Expire`), and a process dies of SIGKILL, or of a SIGTERM it does not ignore.
  Nothing is assumed of its descendants.
* `ItmProcess`: the same, with SIGKILL alone. The thread that reads the progress
  file has no fairness, for the file system may hang; nor have the handlers of
  the poller, on which no answer depends, nor the hooks.
* `ResultsArchive`: the turn that was posted is run. A hook that appends while its
  file is packed prolongs the packing by what it appends, which `MaxBlocks`
  bounds; in the code the 65 536 byte block makes the archiver the faster one.
* `Collateral`: the turn that was posted is run, and the bus answers a call.
* `PldmUpload`: none, its properties are invariants.

`SessionStep` of `VectorManager` is `UpdateStep` in `RunAndUpdate`.

## Proofs

All theorems hold for every value of the constants, from the assumptions that the
modules state: bounds are naturals; a package has a version or none; there are
finitely many names in the library directory, and they are not those of
`kist_itm` or of what lies outside of it; a byte has at least the six values that the scaled
header needs. Few of the properties are inductive alone; each module has the
invariant that makes them so.

**`IstService`**

All in `IstService_proofs`.

* `TypeCorrect`, with one lemma per group of handlers and one per helper they
  share.
* `SafetyHolds`, that `Safety` is an invariant, and from it seven theorems, one
  for each safety invariant of the run. `Safety` is a conjunction, each part of
  which has a lemma with a step per action:
  * `Control`: stage, awaited operation, update guard and log. Inductive by
    itself, and used by all others.
  * `Object`: the object on the bus is the run's; needed to speak of `obj.run`
    as "this run".
  * `Boot`: once the deassert hook has reached the strap nothing asserts it
    before the end of the run. The startup hook only ever releases, which is why
    `CompletedMeansReleased` survives its race.
  * `Results`: where the archive on disk comes from at each step. The wipe of
    `start_ist` may fail, but only on a file system that no longer takes a new
    archive either.
  * `Verdict`: a run on its way to Completed has no error line. Needs `Results`,
    for the lines of an earlier run must be gone.
  * `ErrorIsInTheLog`: a failure already decided has its line in a log that is
    still open, or in the archive.
* `ImplementsProtocol` (each step of the daemon is a step or a stutter of
  `RunProtocol`), `ArmedRunGoesThroughRelease` and `FailedRunExplained`, action
  properties that rest on `Safety`.

**The vector store, and runs beside updates**

All in `RunAndUpdate_proofs`.

* `StoreIsSafe`, of the store by itself. `StoreInvariant` is the types and
  `Safety`, to which two parts are added that no run checks:
  `ImageIsTheUpload` (what has been written is what the session has read, which
  is what lets a verified payload speak for the image) and
  `ProgressIsOfTheReported` (the percentage published is at most what was
  reported of the declared size, which is what keeps it from going back; its step
  rests on `Quotient`, a fact about integer division). Teardown, mounting, the
  publication of a version and the ends of a session have a lemma each, used by
  all handlers that call them. `IsOf` (what is mounted is of the image) goes
  through `TeardownResult` and `MountResult` also when they fail half-way, and is
  what makes `ActiveMeansMounted` inductive.
* `UnverifiedImagesGo` is an action property, about the step that ends an update:
  `EndOfUpdateStep` goes through the exits one by one, and `ImageIsTheUpload` says
  that the CRC compared at the end is that of all that was written. It is for any
  storage and any number of restarts.
* `DaemonIsSafe`, of runs beside updates. `StepOfTheStore` shows that every step of the daemon is a
  step of the store, so `StoreInvariant` carries over. `RunExcludesUpdate` is
  added, which neither guard says alone: `start_ist` looks at the lock,
  `start_update` at the stage. With `SessionHoldsLock` (an update only moves while
  it has the lock) it gives `CheckedIsTested`: nothing is unmounted or
  overwritten between the check of the collateral and the end of the test.
  The other theorems are the invariants and action properties of the run, and
  the refinement of `RunProtocol`.

**What answers the run**

The theorems named `...Once` are the safety half of `KeepsPromise`: each step of
the helper is a step or a stutter of `OneShot`, so that it answers at most once
for each question and leaves nothing running. That it does answer is liveness.

* `HookProcess_proofs`: `HookInvariant`. `ExitComesOnce` gives the order of
  process, exit and drain timer, `AnswerComesOnce` says that `finish()` answers
  at the first moment at which both of its conditions hold, `SignalsFollowTimeout`
  that only the deadline signals, `DrainedIsLogged` that the tee has reached the
  end of what it was to read or was stopped. `FinishResult` is what `finish()`
  does for all three of its callers.
* `ItmProcess_proofs`: `ItmInvariant` has the same parts, with the conservation
  of lines between the pipe, the reactor and the log (`LinesAreCounted`),
  `ProgressIsOwn` for the file, the thread and the poller, and
  `NothingBeforeStart` for a launch that fails.
* `HostPower_proofs`: `MonitorInvariant` is about the messages that are on their
  way. `NothingIsInvented`: before the second change of a chassis that was on no
  On lies behind an Off, so `CycledIsGenuine`. `NothingIsMissed`: what has
  changed was seen or is in the inbox, in order, so `CycleIsSeen`. The Get replies
  need no case of their own: a reply that is handled in a wait says what the
  chassis was during it.

**What a run begins with and what it leaves behind**

* `Collateral_proofs`. `VerificationInvariant` says how far the signature check
  is: `VerifiedSoFar` (what is no longer to verify is good), `ReadsInItsTurn`,
  and what each verdict means. `VerdictIsGenuine` then needs that the
  chain of links which `Canonical` follows for as many steps as there are names
  decides (`CanonicalDecides`): a chain that has not ended by then has met a name
  twice, by counting, and never ends. `InventoryIsTested` is about listings of
  every length: `Sorted` puts the sockets in order (`SortedIsSorted`),
  `Unique`, a fold, keeps each of them once (`UniqueKeepsOnce`), and the test
  for contiguity by index is the one by value (`ContiguityIsByIndex`).
* `ResultsArchive_proofs`. `ArchiveInvariant` says of each file where between the
  directory and the archive it is (`ListedOrPacked`, `AskedIsThere`,
  `PackedInItsTurn`, and `EntryIsOpen` for the one that is being packed), and of
  each inode who can still write it (`ArchiveIsOpen`, `OnlyWholeIsLeft`). From it
  `NothingIsLost`, `ServedIsFinal`, and `SessionFollowsContract`, the safety half
  of `FollowsContract`: the opening of the file and the turn that ends a session
  are the two steps of `ArchiveContract`, all turns between them stutter.
* `PldmUpload_proofs`. `UploadInvariant` adds to the types that nothing is
  decided before the header is there, and that what is decided then holds of the
  whole upload. Its step rests on `AgreeOnHeader`: two buffers that begin with the
  same header have the same check, checksum and component, although the walk reads
  a few bytes behind the header, none of which has a part in the outcome
  (`AgreeOnPackageSize`). `ReadsDoNotMatter` and the first half of
  `PayloadIsTheImage` follow. `SizeIsThePayloads` follows the walk over
  each of the `Packages`, whose bytes are where the layout says
  (`BodyHolds`, `PackageMeasured`). The theorems hold for bytes of any number
  of values from six on; the packages have at most two components.

The walks over a header, the checksum, the sorting and the chains of links are
recursive functions. The induction theorems of the library cannot be used for them, as they
take an operator as a parameter. `NatSetInduction` (a set that holds 0 and the
successor of all it holds is `Nat`) follows from the well-foundedness of the
naturals and takes none. With it each of these functions is shown to exist,
to be unique and to satisfy its equations (`WalkExists`, `Iteration`,
`FoldExists`), from which the rest is argued step by step.

**Only model-checked:** liveness, which needs fairness and ENABLED and is out of the
prover's reach. These are `RunEnds` and `UpdateEnds`, that each helper of
`KeepsPromise` does answer, and that a session of `FollowsContract` does end. All
other properties of the runs that pass are stated by a theorem.

## Findings

Four runs end in a violation of what a comment of the code says.

* `ResetErrorLost`. `ist_app.cpp:51`: "An external tool parses this line out of
  IST_service.log in the results tarball". The errors of the reset hook are
  emitted after the log has been closed, packed and removed; a run with automatic
  reboot that fails there has a complete tarball without an `IST_ERROR` line.
  `FailureIsExplained`, which is proved, states what does hold: all runs without
  automatic reboot.
* `VerdictRewritten`. `ist_app.hpp:177`: the property is "The status of the IST
  run". A `StartIST` that is rejected after its first checks publishes on the
  object of the run before it, whose verdict becomes Aborted or Failed. The run
  shows a run that Completed and reads Aborted after the next call.
* `StartupHookRace`. `ist_app.cpp:370`: "Deassert IST boot on startup as a safety
  measure". That hook is not waited for and can release the strap of a run that
  starts within its time limit: the host is then power-cycled without it.
* `AlreadyOffMissed`. `host_power_monitor.cpp:77`: "Read the current chassis state
  in case it is already off". The Get is asynchronous; a chassis that comes on
  before it is served is never seen off, and the wait ends in its timeout.

One comment is narrower than it reads, without a run of its own.
`vector_manager.cpp:574` says that "a payload-level failure intentionally leaves no
image". A flush that fails as the stream is closed is a failure of the payload
that nobody sees, and leaves the truncated image, which is mounted if it can be.
`OnlyVerifiedImagesStay` states what does hold: what is left as good is a beginning
of a payload whose CRC matched, and every failure that is seen leaves no image
but on storage that no longer lets it be removed. A process that dies in a
transfer leaves the part that was written; `mount_vectors_on_startup` publishes it
as Active if both of its file systems mount (`ActiveMeansMounted`).

## Plan

All modules are modelled, checked, and proved except for liveness. What is left:
`mount_images` and `teardown_mounts` step by step (loop device, mount, unmount,
detach), which `VectorManager` takes by their outcome. What remains outside is
listed under *Not modelled*: pure checks of input, one-way export, and names.
