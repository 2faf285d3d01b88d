# edge-firmware-updater in TLA+

The updater writes a firmware image to an Emlid Edge that is connected by USB.
An application links a *client library*; the library starts a *privileged
updater process* and drives it through a Qt remote object; the process boots the
Edge as a USB mass storage device, writes the image block by block and may
compare checksums afterwards. This directory specifies that system, model-checks
it on small instances and proves theorems about it. Paths below are relative to
the repository (`client/...` is `src/client/...`).

Contents: [1 Inventory](#1-inventory) - [2 Modules](#2-modules-and-the-code) -
[3 Runs](#3-runs) - [4 Assumptions](#4-assumptions-bounds-and-fairness) -
[5 Proofs](#5-proofs) - [6 Disagreements](#6-where-the-code-and-what-is-said-of-it-differ) -
[7 Plan](#7-plan)

## 1 Inventory

### 1.1 Components

**Client updater** - `client/Updater.{h,cpp}`, `client/impl/UpdaterImpl.{h,cpp}`.
State: `_state` (Invalid, Idle, Initializing, Flashing, ComputingChecksum),
`_sessionOpened`, and the connections its lambdas make. Operations:
`initializeDevice`, `flash(file, checksum)`, `cancel`, `finish`; handlers for
`initializingFinished`, `flashingFinished`, `checkOnCorrectnessFinished` and the
replica's `stateChanged`. It is *correct* when one operation runs at a time, each
operation ends (or the updater is known to be gone), success is reported only for
an image that is on the device, and its copy of the session's existence agrees
with the updater's.

**Remote object** - `main/shared/EdgeFirmwareUpdaterIPC.rep`. Slots client to
updater, signals updater to client, each direction in order over a local socket;
the end of either process ends both.

**Updater process, main thread** - `main/EdgeFirmwareUpdater.h`. State: the
session and its thread, `_firmwareFilename`, the heartbeat timer. Runs the slots:
opens and closes the session (blocking on its thread), queues work to it, sets its
cancellation flag directly, and forwards its answers. *Correct* when the main
thread never blocks for long, and work reaches a session that exists.

**Firmware update session** - `main/FirmwareUpdateSession.{h,cpp}`, on a thread of
its own. State: `_sessionData` (Edge device, its I/O device) and the
`CancellationPoint`. Operations: `initializeDevice`, `flash`,
`checkOnCorrectness`, `cancel`. *Correct* when it answers every request exactly
once, uses only devices it has, and stops when asked.

**Flashing and CRC services** - `util/impl/FlashingServiceImpl.cpp`,
`util/impl/CRCServiceImpl.cpp`, `util/CancellationPoint.h`. Loops over blocks with a
cancellation check and a progress report per block. *Correct* when exactly the
image is written, in order, and the checksum covers exactly its bytes.

**Updater connection** - `client/UpdaterConnection.h`,
`client/impl/UpdaterConnectionImpl.{h,cpp}`. State: `_state` (Disconneted,
Connecting, Established, Disconnecting, Aborted, Errored), the child process, the
replica, two timers and which end-of-process signal is listened to. Operations:
`establish`, `sever`, destruction. *Correct* when every end of the child is
reported exactly as severed or aborted, and nothing is used after it is released.

**Child process** - `client/impl/UpdaterProcess.cpp`, `client/Client.cpp`. Builds
the command line that asks for privileges (pkexec through a shell, osascript, cmd).

**Heartbeat** - the client sends one a second
(`client/impl/UpdaterConnectionImpl.cpp:156`), the updater exits when it has heard
none for two (`main/EdgeFirmwareUpdater.h:33`).

**Edge manager and device** - `edge/impl/EdgeManagerImpl.cpp`,
`edge/impl/EdgeDeviceImpl.cpp`. Boots the Edge, polls for its storage device, reads
the firmware version from a partition that is mounted by the system or by hand.
*Correct* when an initialization ends, finds an Edge that is there, and leaves no
mount of its own behind.

**Device library** - `devlib/`. Lists storage devices, unmounts and locks their
mount points, opens them raw. *Correct* when a device is written only while
nothing has it mounted, and locks outlive the handle.

**Native layers** - `devlib/native/{linux,macosx,win}_native.cpp`. What the device
library asks of three operating systems: the lists, umount and what it leaves
locked, a handle, reads and writes (in whole sectors on macOS and Windows), a flush
(on Linux only). Each platform keeps part of the promises in its own way.

**USB boot** - `rpi/impl/RpiBootImpl.cpp`. Sends the second stage, then serves boot
files to the device until it re-enumerates. State: the handle, `last_serial`, the
counts of polls and timeouts, and a static open file. *Correct* when it terminates,
closes what it has opened, serves the right file and tells the served device from
the one that came back.

**Program start, logging, command line tools, build scripts** - `main/main.cpp`,
`main/utilities.cpp`, `tests/`, `scripts/`.

### 1.2 How they interact

    application --calls--> Updater --slots (IPC)--> EdgeFirmwareUpdater
                                                       | queued calls; cancel directly
        ^ deviceFlashed, deviceInitialized             v
        +-- handlers <--signals (IPC)-- forward <-- FirmwareUpdateSession
                                        (posted)       | -> EdgeManager -> RpiBoot, devlib
    UpdaterConnection --starts, kills, heartbeats--> the process

Four threads of control matter: the application's event loop, the main thread of
the updater, its session thread, and the operating system ending processes.

### 1.3 What is hard

* Two processes share a notion of session, and the client never asks: it keeps its
  own flag. Answers are matched to requests only by their name.
* `cancel` is run by the main thread while the session works and its flag is never
  cleared.
* `closeSession` blocks the main thread on the session thread.
* `_flash` builds a chain of one-shot handlers that delete themselves when they run,
  and one that does not run stays. An application may call back from a handler.
* The updater may end at every step: asked to, because a heartbeat was missed, or
  by dereferencing a null pointer; what was on its way is lost or partly delivered.
* Files and devices fail in the middle of an image.
* The end of the child process reaches the connection over two ways in either order.
* The device disappears and comes back under another address while it is booted.
* The operating system mounts volumes of the device, writes to them and caches what
  is written, at any moment.
* Sizes that are no multiple of a sector, a block or a buffer.
* Two timers in two processes, one of them behind a main thread that may be blocked.

`PROJECT.json` lists the hazards line by line with the properties that watch them.

## 2 Modules and the code

| module | models |
|---|---|
| `UpdaterIPC` | the remote object: two ordered channels, and what is lost when the process ends |
| `UpdaterClient` | `client::Updater`, `client::UpdaterImpl` |
| `UpdaterServer` | `EdgeFirmwareUpdater` (main thread), `FirmwareUpdateSession` and the services it calls (session thread) |
| `UpdateSystem` | the client and the server joined; the properties; fairness |
| `UpdateService` | what the library promises an application: the abstract specification |
| `UpdateSystemProofs` | the theorems about types and sessions of `UpdateSystem` |
| `OperationProofs` | the theorems about its operations, and that it implements `UpdateService` |
| `MCUpdateSystem` | instances for TLC: files and their sizes |
| `Connection` | `client::UpdaterConnection`, `UpdaterConnectionImpl` and the life of the child process; checked as it is, its constants are numbers |
| `ConnectionProofs` | the theorems about `Connection` |
| `Heartbeat` | the heartbeat timers of client and updater, in discrete time |
| `RpiBoot` | `usb::RpiBootImpl` and the device it boots |
| `EdgeDevice` | `EdgeManagerImpl`, `EdgeDeviceImpl`, `util::poll` and what the native layers list |
| `StorageDevice` | a device file: mount points, locks, handle, cache and medium, on three platforms |
| `ImageCopy` | the loops of the flashing and CRC services over the transfers of the native layers |
| `HeartbeatProofs`, `RpiBootProofs`, `EdgeDeviceProofs`, `StorageDeviceProofs`, `ImageCopyProofs` | the theorems about them |

The five last ones refine what `UpdateSystem` takes as an outcome or as a step that may
come at any time: `initialize()` (`EdgeDevice`, and `RpiBoot` for its step `Boot`), the
opening of the device and the flush (`StorageDevice`), a block written or read
(`ImageCopy`), and `HeartbeatTimeout` (`Heartbeat`). They are checked on their own, since
what they share with the session is only their result.

### 2.1 UpdaterIPC

`toServer` holds slots invoked and not run, `toClient` signals sent and not
delivered. `Invoke` appends while the process runs and otherwise does nothing, as a
replica whose source is gone does. `Die` ends the process: unread slots are gone,
and the client still receives some prefix of the signals sent.

### 2.2 UpdaterClient

`state`, `sessionOpened` are the fields of the same name. `handlers[answer]` is the
list of lambdas that `_flash` has connected to that answer: `"check"` is
`onFlashingFinished`, `"finish"` is `onUpdatingFinished`. A signal is taken from
`toClient` by `HandleFlashAnswer`, which moves the connected handlers to `dispatch`;
`RunHandler` runs them one at a time, which is where Qt gives an application's slot
the chance to call back (`Reentrant`). `request`, `outcome`, `ready` and
`cancelAsked` are what the application knows and asked; they guard only
`Disciplined` (below) and otherwise serve the properties.

`InitializeDevice`, `Flash`, `Cancel`, `Finish` are the API calls.
`Updater::initializeDevice` and `flash` refuse an updater that is not idle;
`Disciplined` adds what `tests/flash_cli/main.cpp:51` does, not to flash when
initialization was reported failed, which the library itself does not check.

`ReplicaLost` is the replica's change to a state other than Valid, delivered after
the signals.

### 2.3 UpdaterServer

Main thread: `OpenSession`, `CloseSession` (up to `wait()`), `CloseSessionReturns`,
`PerformWork` (the three slots that queue work; `flash` also remembers the file
name), `CancelWork`, `FinishProcess`, `ForwardAnswer`, `HeartbeatTimeout`. While
`closing`, the main thread does nothing else.

Session thread: `workQ` holds the queued invocations, `job` the one that runs.
`Begin...`/`End...` pairs bracket `initialize()`; a flash is one step per block
(`FlashBlock`), a checksum one step for the file and one for the device. `dev` is
the device: each block holds a block of some image or of none. A step may fail
wherever the code checks a result, and where it does not check, the step goes on:
`BeginFlash` opens the file or does not; a write that the device acknowledges may
have stored something else, which only the checksum detects.

`Segfault` is the dereference of a null `edgeDevice` or `edgeIODevice`.

### 2.4 UpdateService

Phases Idle, Initializing, Updating, Lost and the set of images the device holds.
`UpdateSystem!Service` maps `Flashing` and `ComputingChecksum` to Updating, and
`held` to the images found whole on `dev`. The one interesting conjunct is in
`Conclude`: success of a verified request implies that the image is held; and
nothing but `Write`, in phase Updating, with the image requested, changes what is held.

### 2.5 Connection

It stands beside `UpdateSystem`, not inside it: what the two share is the end of the
updater, which `UpdateSystem` takes as a step that may come at any time
(`FinishProcess`, `HeartbeatTimeout`, `Segfault`) and `Connection` looks at from the
process object.

`conn` is `_state`, with the code's spelling of its values. `child` is the process of
`_proc`: it asks for privileges, serves, and ends, the program before the shell that
started it or with it. `unreported` says that `finished` is still to be delivered and
`watched` that it is connected to `_handleProcessFinished`; `replica` follows the replica
from its acquisition to its loss, `held` says that `_replica` is set, `listened` that its
`stateChanged` is connected. `heartbeat` and `disconnect` are the two timers,
`updater` is the object the application is given. `asked`, `starts` and `severed` are
history: whether the updater was told to finish, and which process was severed.

`Establish`, `EstablishErrored`, `Sever` and `Destroy` are the application's calls;
`DestroyReturns` ends the wait in the destructor, during which the event loop is turned.
The handlers are `ConnectToUpdaterNode`, `ReplicaInitialized`, `DeliverFinished`,
`DeliverReplicaLost`, `SendHeartbeat` and `DisconnectTimeout`. `PasswordGiven`,
`SourceAnswers` and `ProcessEnds` are the user, the remote object and the process.
`Establish` includes the destruction of the former process object, which kills a
process that still runs and reports that to the handler if it is connected.

### 2.6 Heartbeat

`beat` is the time since the client's timer was started, `quiet` that since the
updater's; `wire` holds the ages of the heartbeats on their way and `arrived` one in the
updater's socket. `closing` is the wait in `closeSession`, `held` its length. `Tick` lets
time pass, but not past what is due (`MayPass`): a heartbeat at most `MaxLate` after its
period, a transit of at most `MaxTransit`, a first contact within `MaxStart`, and at most
`MaxHeld` in `closeSession` between two heartbeats handled. When the main thread is free
with the timer expired *and* a heartbeat in the socket, `Timeout` and `HandleHeartbeat`
may both come next. The heartbeats are Qt's coarse timers, five percent late or early;
that belongs to `MaxLate`.

### 2.7 RpiBoot

`pc` is where `boot()` is: polling, at a device it has opened, serving it, closing it.
`device`, `next`, `alive` and `given` are the device: on the bus, what it will come back
as, whether it answers, and whether this enumeration was sent the bootcode. `usb` is the
handle, closed, open or open with its interface claimed, and `link` whether its device is still
the one on the bus; `left` are the handles that were lost or replaced without being closed, and
`unread` says that a configuration could not be read, the one failure that leaves the handle
open. `fp` is the static file of
`file_server`, `offered` the file whose size the device was told last. `faulty`, chosen at
the beginning, says whether calls may fail and devices be unplugged or die.

One action stands for one turn of a loop in the code with one outcome: `NotFound`,
`NoConfig`, `FailedToClaim`, `Initialized` for a poll, `GetFileSize`, `ReadFile`, `Done`,
`Unknown`, `Timeout`, `DropOut` for the file server, `SendBootcode`, `StartServer`, `Close`
for a turn of the outer loop. `crashed` is the use of a configuration that was never read,
of memory that could not be allocated, of a libusb context that is not initialized, or of the
name of a command that has none: `message_name` is read past its end.

### 2.8 EdgeDevice

`edge`, `node`, `scanned`, `mounts` are the Edge and what the operating system makes of
it: on the bus, listed as a disk, its partitions known, the boot partition mounted by the
system or by the session. `pc` follows `initializeDevice`: `IsPlugged`, `IsListed`,
`Initialize`, `Boot`, `FindDevice` (a poll), then `firmwareVersion`: `FindPartition`,
`WaitForAutomount` (a poll), `TemporaryMount`, `Parse`, `Umount`. `Poll` is `util::poll`: a
call, and a sleep (`asleep`) after each call that finds nothing, the last one too, after which
the poll gives up without another look (`WakeUp`). Each initialization has a session of its
own, since the client closes and opens one before it, so that `device` starts unset.
`LinuxListed`, `MacListed`, `WindowsListed` and the `...Partitions` say when the three
platforms list the Edge and its partitions; what they parse to find out is left out.

### 2.9 StorageDevice

`mounted` are the mounted volumes, `Alike` among them those of other disks that Linux and
macOS take for volumes of the Edge, because they compare the beginning of a name. `locks` is
what `_mntptsLocks` keeps locked, which is nothing but on Windows; `handle` may be null
(macOS) or made of an invalid descriptor (Linux, Windows). `media` and `cache` are the
contents of the device and of what Linux caches of it. `BeginOpen`, `Umount`, `EndOpen`,
`Write`, `EndFlash`, `Sync`, `Check`, `CloseHandle`, `ReleaseLocks` are the session's steps in
order; `Mount` and `WriteBack` are the operating system's at any moment.

### 2.10 ImageCopy

A unit of an image is its position, so that the device holds a unit of the image in its
place exactly when `medium[a] = a`. `fd` is the offset of the descriptor, `buffer` what
`QIODevice` has read and not handed out, `hashed` what was added to the hash. `FlashBlock` is
one turn of `flash_core`, with a write that may come back short; `CheckBlock` and
`CheckRest` are the loop of `computeCRC_core` and what follows it. `Needed`, `Written`, `Wrote`
and `NativeRead` are the transfers of the native layers, `padded` says whether they
transfer whole sectors; `QIODeviceRead` is the library between them and the loops.

## 3 Runs

| run | question | distinct states |
|---|---|---|
| `session_protocol` | with an application that calls from its event loop, do sessions, jobs, answers and reports stay matched? | 80 thousand |
| `session_liveness` | with one that calls from inside handlers and flashes carelessly, does the session flag survive, does each operation end and each loss of the updater become known? | 60 thousand |
| `connection_life` | is the end of the child heard and called by its name in every phase, and does the destructor return? | 2 thousand |
| `heartbeat` | is a living client kept, and does an abandoned updater end? | 1.4 thousand |
| `boot` | does `boot()` end with nothing claimed, having served the right files, and boot a device without faults? | 55 thousand |
| `edge_device` | does an initialization end, find an Edge that is listed in time and undo its mount? | 1.7 thousand |
| `device_file` | do locks outlive the handle, and is the checksum one of the medium? | 38 thousand |
| `image_copy` | are the right units written and hashed, for sizes around every boundary? | 4 thousand |
| `stale_handler` | violation: is every handler deleted once the updater is idle? | - |
| `cancel_checksummed_flash` | violation: is every accepted operation answered? | - |
| `stale_disconnect_timer` | violation: does the disconnect timer kill only the process that was severed? | - |
| `bootcode_resent` | violation: is a device sent the bootcode once after each enumeration? | - |

`session_protocol` checks, besides types:

* `SessionMirror` - the client's `_sessionOpened` is what the updater will have once
  the calls on their way are run.
* `IdleMeansQuiet` - when the client is idle nothing of the former operation is left
  in any queue, thread or channel. This is what makes it safe to match answers by name.
* `JobServesRequest` - the session works on what the client waits for, with the
  image it asked for (the check takes the name the updater remembered).
* `CloseNeverWaitsOnJob` - the main thread blocks in `closeSession` only for a session
  thread that has nothing to do.
* `NoNullDereference` - the unchecked pointers are set when they are used.
* `VerifiedMeansWritten` - reported success with checksum means the image is on the device.
* `CancelConfined` - a cancel does not act on a later session.
* `WorkNotLost` - until it is reported, an operation is in some queue, thread or channel
  from which it goes on, unless its cancel was swallowed (section 6).
* `ReportedDeviceUntouched` - after reported success the device is left alone.
* `ServiceSpec` - the whole implements `UpdateService`.

Several of these are *not* true without restrictions, and the restrictions say
something of the code. With `Reentrant`, an application that starts an operation
from inside `deviceFlashed` while the handler left by a failed flash (section 6)
waits to run gets its new session closed behind its back: `IdleMeansQuiet`,
`JobServesRequest`, `CloseNeverWaitsOnJob` and `ServiceSpec` fail, and the theorems of
`OperationProofs` assume `~Reentrant`, as this run does. Without
`Disciplined`, a flash after a failed initialization crashes the updater
(`NoNullDereference`), because `_flash` uses `edgeDevice` unchecked. `SessionMirror`
needs neither, which is why it is checked without them too (`session_liveness`), and
proved for every choice.

`connection_life` checks, besides types:

* `EndIsListenedTo` - in each phase the signal that will report the end of the process is
  the one that is connected, and an established connection has all that its operations use.
* `LossIsAbort` - an updater that ends by itself is an abort, never a disconnection.
* `LossReported` - an updater that has ended does not leave the state at Connecting or
  Established.
* `SeverEnds` - a severed connection is disconnected, by itself or by force, unless its
  process had already been reported as ended (section 6).
* `DestructorReturns` - the destructor does not wait for a process that nothing ends.

`heartbeat` checks, besides types:

* `LivingIsKept` - as long as the delays together stay below the latency, the updater does
  not give up a client that is there.
* `AbandonedEnds` - an updater whose client is gone ends within the period and the latency,
  the transit, and twice the longest hold.

`boot` checks, besides types:

* `FileSentIsOffered` - the file sent is the one whose size the device was told, though the
  open file outlives a device, the server and the call of `boot()`.
* `ReturnsReleased` - `boot()` does not return with an interface claimed, by its handle or by
  one it has lost, and with an open handle only if some configuration could not be read.
* `GivesUp` - a device that has died or is gone does not keep `boot()` waiting, unless it is
  stuck in its boot ROM, which `boot()` then finds again and again.
* `SuccessMeansFinished`, `Cooperates` - without faults, 0 is returned of a device that said
  that it is done, and a device that is called for becomes a mass storage or comes too late.

`edge_device` checks, besides types:

* `TemporaryMountUndone` - a mount of the session is left behind only if umount has failed.
* `InitializationEnds` - neither poll waits for ever, whatever the Edge does.
* `FoundWhenListed` - an Edge that is listed while the poll has a call to come is found, unless
  it goes away; one that is listed during the sleep after the last call is not (section 6).

`device_file` checks, besides types:

* `UnmountedStaysUnmounted` - on Windows a volume that was unmounted is not mounted again as
  long as the handle is open.
* `CheckedOnMedia` - a checksum that succeeds after a successful flush is one of the medium,
  not of the cache.

`image_copy` checks, besides types:

* `PrefixWritten` - what flashing has counted as written is on the device in its place, and
  all of the image when it has succeeded.
* `NothingPastImage` - past the image less than a sector is written.
* `CheckedIsDevice` - a checksum that succeeds has hashed what the device holds, from the
  beginning and as long as the image.

## 4 Assumptions, bounds and fairness

Assumptions of the model: a release build (`Q_ASSERT` is compiled out); the socket is
lost only when the process ends; `IEdgeManager::initialize` returns (but for the cases
section 6 names of `EdgeDevice` and `RpiBoot`); two different contents have different checksums;
the order of signals is kept between the session thread and the main thread, and
between the updater and the client.

Assumptions of `Connection`: `QProcess::kill` ends the process it is called for, and does
nothing to one that has ended; starting the child does not fail; time is left out, and an
active timer may fire at any moment; the application does not call back from the
connection's own signals; each process has a replica of its own, and the node has seen
the loss of the former updater before the next one serves; the state of the remote object
may arrive after the process has ended.

Granularity: the check of the cancellation flag and the following write are one step,
since a cancel between them has the effect of one after the write; the checksum of
the file and that of the device are one step each, as they change nothing that
another thread reads; an API call is one step, as the client has one thread.

Bounds. `MaxCalls` is the number of API calls: 6 is enough for initialize, flash,
cancel, a second initialize and flash and one more, so that every pair of
consecutive operations meets with cancel and finish at every point. Two images, of
two blocks and of one: the device can hold a whole one, a half written one, or one
image over the rest of another. `DeviceBlocks` 1 makes the two-block image too large,
and 2 makes it fit. `EmptySize` adds an empty file. The queues are not bounded: the
calls are.

`MaxStarts` is the number of processes an application starts. Three are enough for a
connection whose predecessor left a timer, a heartbeat or a replica behind and which is
itself replaced; `EndIsListenedTo` and `LossIsAbort` are proved for every number. The
runs that end in a violation use the smallest number that shows it.

Bounds of the others. `heartbeat`: a period and a latency of 5 and delays of 1 each, so that
they together are the largest that stay below the latency, and every delay can be at its
limit; the proofs hold for all. `boot`: two polls, one timeout forgiven, two calls, so that a
call finds what an earlier one left (the static file, a device half booted); three files, two
of them present: one served after another, and one that does not exist. `edge_device`: three periods of a poll
(the first, one between, the last) and two initializations, the second of which may find the mount
or the device of the first. `device_file`: two volumes, of which one may be unmounted and the
other not, one alike, two openings. `image_copy`: blocks of 8, chunks of 4, sectors of 2 on a
device of 18, the ratios of the code (a block is many chunks, a chunk whole sectors), and
images of 0, less than a sector, a chunk, a block, whole blocks and remainders of each, and one
larger than the device; two checksums of one opening.

No symmetry is used: the images differ in size.

Deadlock is not checked (`CHECK_DEADLOCK FALSE`): the system rightly stops when the
application has made its calls and when the updater has ended, and a connection that is
destroyed does nothing more; likewise `boot()` and the device file when their calls are
used up, and an updater that has ended. `edge_device` is checked for deadlock.

Fairness: weak fairness of the client's event loop, of the main thread of the
updater and of its session thread, each as a whole. The event loops of Qt deliver
what is queued, the thread is scheduled, and each of its steps is finite. Nothing is
assumed of the application, of heartbeat timeouts or of the failures.

For `Connection`: weak fairness of the event loop, which delivers what is pending and
fires active timers, and of the end of an updater that has to end (`MustEnd`): one that was
asked to finish, one that hears no heartbeat (it exits two seconds after the last), and a
shell whose program has ended. Nothing is assumed of the user, and nothing else need end.

For `RpiBoot`: weak fairness of each step of `boot()` that it takes by itself, of noticing a
device that has left the bus, and of the timeout of one that does not answer. A request of a
live device is up to the device. `Cooperation`, used for `Cooperates`, adds a device that,
without faults, restarts, comes back and says sooner or later that it is done. For
`EdgeDevice`: weak fairness of the session thread; what it calls returns. `Heartbeat` needs
none: its two properties are bounds in time. `StorageDevice` and `ImageCopy` are checked for
safety only.

Assumptions of these modules: a device in ROM mode has serial number 0 and a second stage
another one; a device reads a file only after it was told its size; `Mount` cannot mount a locked
volume; `QIODevice::read` is modelled for the requests that occur (a request of at least a
chunk goes to the device directly once the buffer is empty); the chunk is a multiple of the
sector, and so is the block.

## 5 Proofs

`UpdateSystemProofs` proves, for every set of images, every size of image and device
and every number of calls, and whatever `Reentrant` and `Disciplined` are:

* `TypeCorrect == Spec => []TypeOK`. Inductive as it stands; one lemma for the API, the
  client's loop, the end of the process, the main thread and the session thread.
* `SessionMirrored == Spec => []SessionMirror`. Inductive with `TypeOK`. The argument is
  about the queue: `LeadsTo(queue, exists, opened)` says that running `queue` where a
  session does or does not exist makes `opened`. Appending a call that is no open or
  close keeps it, appending an open or a close sets `opened`, and taking the head off is
  running it (`LeadsToAppendOther`, `LeadsToAppendSession`, `LeadsToTailOther`,
  `LeadsToTailSession`). Each step of the client appends, each step of the updater takes
  the head off, and the actions' lemmas say which. `closing` counts as closed, since the
  main thread does nothing else until the session is gone.

`OperationProofs` proves the rest of the safety of `UpdateSystem`, for every set of images,
every size and every number of calls, for an application that does not call from inside
handlers (`~Reentrant`): one that queues its calls, or of which no handler calls while another
one of the same answer waits to run. That is no weakening made for the proof: without it
statements of this section are false, as section 3 says.

* `OperationIsOne == Spec => []OperationInv`, the inductive invariant of all that follow. None
  of the properties is inductive: `IdleMeansQuiet` speaks of the idle client only, and what
  makes it so is that a *busy* client has at most one piece of work, which is in one place,
  a call on its way, a queued slot, a job, an answer or a handler, and that this is the
  one its state waits for. `OperationInv` says that place by place: `CallsInv` (work is behind the
  open or close of the session it is for, and as long as one of these is on its way nothing of the former
  operation is left), `QueueInv`, `JobInv`, `AnswerInv` (at most one, and nothing behind it),
  `HandlersInv` and `DispatchInv` (who is connected to an answer, by the state), `SessionInv`,
  `ServerInv` (a closing session has no work), `FirmwareInv` (the file name the updater
  remembers is the one asked for, or the flash that sets it is still on its way). One lemma per
  step of the client (an operation starts, is cancelled, its answer is taken, a handler runs)
  and of the updater.
* `IdleQuiet`, `JobsServeRequests`, `CloseFindsNoJob`: `IdleMeansQuiet`, `JobServesRequest`
  and `CloseNeverWaitsOnJob`, which follow from it at once.
* `SuccessMeansWritten` (`VerifiedMeansWritten`), from `VerifiedInv`: wherever the success
  of a check is on its way to the report, as an answer or as a status in a handler, the image is
  on the device; `ReportedUntouched` (`ReportedDeviceUntouched`), because what is reported
  is idle and an idle client has no job.
* `CancelIsConfined` (`CancelConfined`), from `CancelInv`: every open on its way is the first
  call or directly behind a close, so that a cancel that is older than the present
  operation meets a session that will be closed before the operation begins.
* `NothingNullIsUsed` (`NoNullDereference`), which assumes `Disciplined` too, from `DeviceInv`:
  the success of an initialization is on its way only with the device set, and from the flash
  on the file of the device is set or the flash that sets it is to come.
* `NothingIsLost` (`WorkNotLost`), from `LostInv`: a session that is not being closed has a thread
  that runs, and a client that waits for a check listens to its answer.
* `ServiceImplemented == Spec => ServiceSpec`, the refinement, step by step (`ServiceStep`):
  `InitializeDevice` is `Initialize`, `Flash` is `Request`, the answer to an
  initialization is `Initialized`, a block that changes which images are held is
  `Write`, the handler that reports is `Conclude`, `ReplicaLost` is `Lose`, and everything else
  stutters. `OperationInv` gives that a block is written only for the request, and
  `VerifiedInv` that a success may be concluded.

Each of these invariants was checked by TLC before it was proved, on the instance of
`session_protocol` and with the device too small, with and without `Disciplined`.

`ConnectionProofs` proves, for every `MaxStarts`, with heartbeats or without:

* `TypeCorrect == Spec => []TypeOK`, inductive as it stands.
* `EndAlwaysListenedTo == Spec => []EndIsListenedTo`. What has to be added (`Inv`): a replica
  whose state is still awaited is the one the connection holds, so that `initialized`
  finds it, and an established connection stays established, with its replica valid or
  lost, while the destructor runs, so that a late answer cannot mix two processes.
* `LossAlwaysAbort == Spec => LossIsAbort`, from the same invariant: while established,
  `finished` is not connected, so that only the loss of the replica or a call leaves it.

`HeartbeatProofs`, for every period, latency and bound on the delays:

* `LivingAlwaysKept`. The invariant (`Heard`) says how long the updater may have heard nothing,
  by where the next heartbeat is: not sent yet, on its way (then by its age), or in the socket
  behind `closeSession` (then by how long that has lasted). With the delays below the latency
  no case reaches the interval.
* `AbandonedAlwaysEnds`. How long the client is gone is bounded by the age of the last
  heartbeats, then by the updater's timer, with a hold before and one after.

`RpiBootProofs`, for every set of files and every limit: `TypeCorrect`, `FileSentAlwaysOffered`
(inductive with the types) and `AlwaysReturnsReleased`, from `HandleInv`: an interface is
claimed only while the device is connected or served, a claimed handle is never lost, and behind
every other open or lost handle is a configuration that could not be read. `SuccessAlwaysFinished` follows from `FinishInv`: a device
without faults goes from form to form in their order, the one that was opened is the one its
serial says, and the file server lets go of a second stage only when it is done.

`StorageDeviceProofs`, for every set of volumes and platforms: `TypeCorrect`;
`LocksOutliveHandle`, from `LockInv`: on Windows, while the device is being opened or is open,
what was unmounted is locked, and what is locked is not mounted; `ChecksumOfMedium`, from
`CacheInv`: when nothing was cached since the last flush, and on platforms without a cache, the
cache is empty.

`EdgeDeviceProofs`: `TypeCorrect`, and `MountAlwaysUndone`, from `MountInv`: between its making and `umount` the
session is at `parseTemp` or `umount`, and nowhere else is there such a mount that is not stuck.

`ImageCopyProofs`, for every size of image, block, chunk, sector and device: `TypeCorrect`,
by which no read or write passes the end of the device; `PrefixAlwaysWritten`
and `NothingEverPastImage`, from `FlashInv`: while there is something to flash, the offset of the
descriptor is what has been counted; what has been counted is the image, in its place, and what
is a sector past the image is untouched; and `CheckedAlwaysDevice`, from `CheckInv`: while a
checksum that began with an empty buffer reads blocks, the buffer stays empty (a block is at
least a chunk), the offset is the number of units hashed, and these are the device's. The
padding and each layer of reading have lemmas of their own.

The proofs assume the constants' assumptions of the modules (`NoImageAssumption`,
`ClientAssumption`, `DeviceAssumption`, `ConnectionAssumption`, `HeartbeatAssumption`,
`RpiBootAssumption`, `StorageAssumption`, `EdgeDeviceAssumption`, `ImageCopyAssumption`,
`ContentAssumption`), which the runs evaluate.

Only model-checked:

* the liveness properties (`OperationsEnd`, `LossNoticed`, `LossReported`, `SeverEnds`,
  `DestructorReturns`, `InitializationEnds`, `FoundWhenListed`, `GivesUp`, `Cooperates`):
  fairness and ENABLED are beyond the prover. Of `OperationsEnd` the safety half is
  proved: `NothingIsLost`.
* what a reentrant application keeps of `WorkNotLost`, which TLC finds to hold for it, too, on
  the instance of `session_protocol`.
* the four statements the code does not keep, which have no proof but a counterexample.

## 6 Where the code and what is said of it differ

Four differences have a run that ends in the counterexample:

* **A handler stays** (`client/impl/UpdaterImpl.cpp:73`, run `stale_handler`). A checksummed
  flash that fails while writing leaves `onUpdatingFinished` connected. The next check
  runs it as well: `deviceFlashed` is emitted twice.
* **A cancelled checksummed flash is never answered** (`client/impl/UpdaterImpl.cpp:67`, run
  `cancel_checksummed_flash`): `onFlashingFinished` has no case for `Cancelled`, the state stays
  Flashing, and every later operation is refused. `OperationsEnd`, which holds, names this
  as the only exception.
* **The disconnect timer outlives its purpose** (`client/impl/UpdaterConnectionImpl.cpp:174`, run
  `stale_disconnect_timer`): it is not stopped when the process ends in time, and kills the
  process of a connection established since.
* **The bootcode is sent twice** (`rpi/impl/RpiBootImpl.cpp:523`, run `bootcode_resent`):
  `last_serial` is declared inside the loop whose turns it is to connect, so a device that has
  not left the bus yet is taken for one that has come back.

Others are stated in the modules without a run of their own; TLC refutes each when it is
named in the configuration given.

| statement | configuration | what the code does |
|---|---|---|
| `FlashReadsOpenImage` | `session_protocol` | `main/FirmwareUpdateSession.cpp:95`: an image that cannot be opened is flashed, nothing is written, and success is reported unless a checksum was asked for. `util/FlashingService.h:25` asserts that it is readable. |
| `ChecksumLengthPositive` | `session_protocol` with `Size <- EmptySize` | `main/FirmwareUpdateSession.cpp:149`: an empty image is checksummed; `util/CRCService.h:21` asserts a positive length. |
| `HeartbeatHasReplica` | `connection_life` | `client/impl/UpdaterConnectionImpl.cpp:159`: `_sever` resets the replica and leaves the heartbeat timer running: a null pointer. |
| `SeverAlwaysEnds` | `connection_life` | `client/impl/UpdaterConnectionImpl.cpp:147`: when `finished` was delivered while nobody listened and the loss of the replica was not, `sever` waits for a signal that has been emitted already. `SeverEnds`, which holds, excepts this. |
| `DisconnetedMeansInvalid` | `connection_life` | `client/impl/UpdaterConnectionImpl.cpp:110`: the updater object may still be valid when `disconnected` is emitted: nothing orders the two sockets. |
| `WrittenUnmounted` | `device_file` | `devlib/impl/StorageDeviceFileImpl.cpp:20`: the results of `umount` are not looked at, and locks hold nothing on Linux and macOS: the image is written under a mounted volume. |
| `WriteHasHandle` | `device_file` | `main/FirmwareUpdateSession.cpp:96`: the result of `open` is not looked at; on macOS the handle is then null, which `devlib/native/macosx_native.cpp:353` asserts not to happen. |
| `ReturnsClosed` | `boot` | `rpi/impl/RpiBootImpl.cpp:200`: when the configuration cannot be read the handle stays open; the next one replaces it, or the poll times out and `boot()` returns. |
| `FoundWhilePolling` | `edge_device` | `util/util.h:34`: `poll` sleeps after its last call, too, and does not look again: an Edge that is listed in that time is not found. |
| `FailedIsIncorrect` | `image_copy` | `main/FirmwareUpdateSession.cpp:158`: `seek` is overridden and does not empty the buffer of `QIODevice`: a second checksum of one opening begins with what the first has left in it, and fails a device that holds the image. A second checksum happens by the handler of `stale_handler`. |

`boot()` returns 0 although its file server gave up (`rpi/impl/RpiBootImpl.cpp:576`), which is
why `SuccessMeansFinished` is restricted to a device without faults; the poll that follows
notices. Also reachable, and without a statement to violate: a volume of another disk is unmounted
(`devlib/native/linux_native.cpp:145`, `Alike`); the temporary mount point is null when its
directory cannot be made (`edge/impl/EdgeDeviceImpl.cpp:164`); a bootcode that cannot be
prepared stops the event loop of the session thread (`rpi/impl/RpiBootImpl.cpp:516`, the
variable `exiting`); the name of an unknown command is read past the table
(`rpi/impl/RpiBootImpl.cpp:370`).

## 7 Plan

Done: `UpdaterIPC`, `UpdaterClient`, `UpdaterServer`, `UpdateSystem`, `UpdateService`,
`Connection`, `Heartbeat`, `RpiBoot`, `EdgeDevice`, `StorageDevice`, `ImageCopy`, and a proof
module for each component.

All safety properties that a run checks are proved, the refinement of `UpdateService` included.
Left: what of them a reentrant application keeps (`WorkNotLost`; what may be left behind in
`handlers`), and bounds that the liveness properties rest on.

Not modelled: the parsing of what udev, IOKit, SetupAPI, diskutil and libusb answer, of which
the modules take the result; the progress in percent, log messages and their formatting
(`main/utilities.cpp`); the command lines of the child process; `tests/` and `scripts/`. They
have no state that another part depends on.
