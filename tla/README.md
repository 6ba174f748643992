# libSMCE in TLA+

libSMCE lets a frontend (a game engine, a test bench) run Arduino sketches on
virtual boards. A sketch is compiled by CMake into an ordinary executable that
is linked with the *Ardrivo* runtime; a host object, `smce::Board`, runs that
executable as a child process and talks to it through a shared-memory segment.

This directory holds TLA+ specifications of libSMCE, TLC configurations that
check them on small instances, and proofs that TLAPS checks. Every definition
that stands for code is listed with its source lines in `PROJECT.json` ("map").

    tlc -config MCBoard.cfg MCBoard            # model-check one run
    tlapm BoardProofs.tla                      # check the proofs of one module

## 1. Inventory

| Component | State | Operations | Interacts through |
|---|---|---|---|
| **Board** (`src/SMCE/Board.cpp`) | status, configuration, attached sketch, log text, `Internal` (segment, child, pipe, log thread) | `attach_sketch` `configure` `prepare` `start` `suspend` `resume` `stop` `terminate` `tick` `reset` `view` `runtime_log`, destructor | the segment, signals and `wait` for the process, the stderr pipe, the `exit_notify` callback |
| **SharedBoardData** (`SharedBoardData*.cpp`) | mapping, name, `m_bd`, `m_master` | `configure` (host), `open_as_child` (sketch), `reset`, destructor (both) | a named segment and the mutex of its segment manager |
| **Sketch runtime** (`Ardrivo/SMCE_main.cpp`) | `sbd`, `board_view` | `maybe_init`, `setup`/`loop`, static destruction | the segment, the `stop_requested` flag, stderr, the exit code |
| **UART channels** (`BoardView.cpp`, `Ardrivo/HardwareSerial.cpp`) | two bounded byte deques per channel, a timed mutex each, `active` | `read` `write` `front` `size`; `begin` `end` `available` `peek` ... | host and sketch threads on one deque |
| **Frame buffers, camera** (`BoardView.cpp`, `Ardrivo/OV767X.cpp`) | size, pixels, mutex, flips, frequency; key and format in the driver | resize, read and write in two formats, flips; `begin` `end` `readFrame` | host and sketch threads on the same pixels |
| **GPIO** (`BoardView.cpp`, `Ardrivo/Arduino.cpp`) | value, direction, active driver, capabilities per pin | `pinMode`, digital and analog read and write, host-side drivers | atomics in the segment |
| **Board devices** (`BoardData.cpp`, `BoardDeviceView.cpp`, `BoardDeviceSpecification.cpp`, `SMCE_rt`) | device map, field banks, bases | layout at construction, field look-up, atomics and mutexes | slots of the banks |
| **SD storage** (`Ardrivo/SD.cpp`) | selected card, open files, positions | `begin` `open` `read` `write` `seek` `available` ... | the host's file system |
| **Toolchain, Sketch** (`Toolchain.cpp`) | CMake's path, build log; built flag, directory and executable of a sketch | `check_suitable_environment` `compile` | CMake's output pipe; `Board::start` reads the sketch |
| **CMake runtime** (`CMake/Runtime`, `CMake/Scripts`) | download cache and its lock files | `cached_download`, preprocessing, manifests | the file system, across processes |
| **Text library** (`String` `Print` `Stream`) | - | pure functions, stream parsers | UART or file underneath |
| **MQTT, WiFi** | a libmosquitto handle | thin wrappers | libmosquitto |

What makes this system hard:

* **A process that may stop anywhere.** The sketch can return, throw, call
  `exit`, crash, be frozen by `suspend()` or be killed by `terminate()` between
  any two of its steps, also inside a critical section shared with the host.
* **Two owners of one object.** Both processes construct a `SharedBoardData`
  over the same segment and both destroy it.
* **Calls that wait.** `stop()`, `terminate()`, `tick()`, `reset()` and the
  destructor wait for a process and then for the log thread, which itself waits
  for the log's mutex, which the caller may hold.
* **Time-outs.** `stop()` gives up after a time-out, and the sketch may obey
  later. UART operations give up after one second; frame buffers never do.
* **Legal sequences.** A board can be attached to, configured, prepared, started,
  stopped and restarted in many orders, and some state (the pipe, the stop flag)
  outlives a run.

The properties that make each component correct:

* Board: one process at most, none left when the board says it is stopped; a run
  that ended is reported, with the right ending; the sketch that runs is the one
  that was checked; what a run writes to its pipe gets into the log; calls return.
* Segment: its name is taken exactly while the board needs it; nobody loses the
  board data under its feet.
* UART: lossless and in order, bounded, never blocking on a dead peer.
* Frame buffers: a frame is read as it was written; no access outside the pixels; what the
  camera opens it closes.
* Devices: no two fields share a slot. GPIO: direction and capability respected.
* Toolchain: a sketch marked as built has the executable of that very build.

`PROJECT.json` lists the hazards one by one with their lines and the properties
that would catch them; those without a property say why. A few smaller ones are
known and not listed there: `reset()` clears the log without its mutex
(`Board.cpp:110`); `attach_sketch` keeps a pointer to the caller's `Sketch`
(`Board.cpp:79`); three VGA frames exceed the 2 MiB segment and throw out of a
`noexcept` function (`BoardView.cpp:293`); a frame buffer's dimensions change one by
one under the eyes of the host (`OV767X.cpp:92`); `create_directories` throws when a
parent is a file (`SD.cpp:342`); `println(s)` leaves the order of the text and its end
to the compiler (`Print.cpp:51`); a digit is counted twice if `read()` times out after
`peek()` saw it (`Stream.cpp:111`); a field that is not found keeps a wild index
(`BoardDeviceView.cpp:40`); the iterator of devices takes names by the index of the
instance (`BoardDeviceView.cpp:163`); `bp::child` throws out of the `noexcept`
`compile()` when CMake disappears (`Toolchain.cpp:211`); the destructor of one copy of a
`Sketch` removes the directory of all (`Sketch.cpp:26`).

## 2. The modules

| Module | What it models |
|---|---|
| `SharedBoardData` | the segment: its name, the `BoardData` (reduced to its configuration and its stop flag), the segment manager's mutex, and the host's `m_bd` and `m_master` |
| `SketchRuntime` | one sketch process: start-up, `setup()`/`loop()`, stderr, exit, crash, static destruction, SIGSTOP |
| `Board` | the Board on top of both, the log grabber and the frontend; the properties and the inductive invariant |
| `BoardContract` | the abstract specification: status and "a process exists" |
| `MCBoard` | the instance for TLC |
| `BoardProofs` | the theorems about `Board` |
| `UartBuffer` | one direction of a UART channel: the deque, its mutex, and the threads inside `VirtualUartBuffer`'s `read`, `write`, `size` and `front`; the properties and the inductive invariant |
| `BoundedFifo` | the abstract specification: a bounded queue with atomic runs of bytes |
| `MCUartBuffer` | the instance for TLC |
| `UartBufferProofs` | the theorems about `UartBuffer` |
| `HardwareSerial` | `Serial` over two such queues: its own functions, `Print::write`, and `Stream`'s collecting and parsing loops |
| `EchoSketch` | the sketch of the repository's UART test on top of it |
| `SerialProofs` | the theorems about `HardwareSerial` and `EchoSketch` |
| `Bisection` | `std::lower_bound`, by which pins and frame buffers are looked up; `BisectionProofs` has its theorem and the lemmas about recursive functions that other proofs share |
| `FrameBuffer` | the frame buffers: look-up, dimensions, flips, and the copies in two formats under `data_mut`, from threads of both processes |
| `Camera` | the OV767X driver on top of it |
| `CameraProofs` | the theorems about `Camera` and `FrameBuffer` |
| `SdStorage` | `SDClass` and `File` over the rules of `std::fstream` and trees of files |
| `SdStorageProofs` | the theorems about `SdStorage` |
| `Toolchain` | `check_suitable_environment`, `compile`, the CMake processes, `Sketch` objects and their directories |
| `ToolchainProofs` | the theorems about `Toolchain` and `DownloadCacher` |
| `DeviceBanks` | the layout of device fields in banks, their look-up, and loads, stores and locks from both processes |
| `Gpio` | pins and drivers of a configuration, their look-up, the unchecked accesses of the host, the checked ones of the sketch |
| `BoardDataProofs` | the theorems about `Gpio` and `DeviceBanks`: what the constructor of `BoardData` makes of a configuration, and what both processes find there |
| `PinsSketch` | any sketch on these pins, and the sketch of the repository's GPIO test |
| `DownloadCacher` | `cached_download` of one URL from several CMake processes |
| `MCHardwareSerial`, `MCEchoSketch`, `MCCamera`, `MCSdStorage`, `MCToolchain`, `MCDeviceBanks`, `MCPinsSketch`, `MCDownloadCacher` | the instances for TLC |

### How the Board model corresponds to the code

*Calls.* All members of a Board are called from one thread. A call that cannot
block is one action (`Configure`, `Suspend`, `AttachSketch`, ...). A call that can
block is split where it waits, and the variable `call` says where it is:

| Code | Actions |
|---|---|
| `prepare()` | `Prepare`, then `PrepareSegment` (waits for the segment's mutex in `find`/`destroy`) |
| `start()` | `Start` (with `PrepareSegment` from *configured*), then `StartRefused`, `StartSpawns` or `StartAborts` |
| `stop()` | `Stop`, then `StopTimesOut`, or `StopReaps` and `ReapReturns` (join of the log thread) |
| `terminate()` | `Terminate`, then `ReapReturns` |
| `tick()` | `Tick` (process found dead), then `TickReturns` |
| `reset()` | `Reset`, then `ResetReturns` |
| `~Board()` | `Destroy`, then `DestroyReturns` |
| log thread | `GrabberReads`, `GrabberAppends`, `GrabberEnds` |
| `runtime_log()` and the end of its lock | `TakeLog`, `ReleaseLog`, by the calling thread or another |
| `Toolchain::compile` of any sketch at any time | `CompileBegins`, `CompileSucceeds` |

A call that is refused (it returns false and changes nothing) is no action.
`terminate()` of the process and the wait for it are one step, `KillAndWait`: the
process cannot do anything observable after SIGKILL, and a mutex it holds stays
locked (`segLock = "orphaned"`).

*Segment.* Of the contents only the configuration and `stop_requested` are kept.
`find<>` and `destroy<>` hold the segment manager's mutex, which is not robust.
The host's own `find`/`destroy` pair is one step at which the mutex must be free,
because it runs only when no sketch process is left that could take it
(`HostWaitsOnlyForTheDead` shows this). The sketch's `find` and `destroy` are
begin/end pairs, so that it can be killed or frozen in between.

*Sketch.* The phases of the process follow `SMCE__main`. What the user's code does
is open: return, write to stderr, throw or exit, crash. A throw and an `exit()`
are the same for the board (static destructors run); a crash runs none.

*Second run on one Internal.* After a first run the grabber has closed the pipe,
and `do_spawn` hands the closed pipe to `bp::child`. What Boost.Process does then
depends on its version and platform; both outcomes are modelled: it throws, which
ends the host because `do_spawn` is `noexcept` (`StartAborts`), or the process
starts and its stderr is lost (`StartSpawns` with `pipeOpen = FALSE`). `piped` remembers
whether the current run was given an open pipe, and `lost` whether it wrote something that
nobody can read: `LogComplete` is about the runs with an open pipe, and `StderrIsLogged`, about
all of them, does not hold (section 5).

*Left out.* The log's text, exit code values, `get_sketch()`, lifetime of the
caller's `Sketch` object, failure of the first spawn (the executable vanished),
exhaustion of the 2 MiB segment, and a crash of the host (the operating system
then keeps the segment and the sketch; nothing in the code recovers them).

### How the UART model corresponds to the code

`VirtualUartBuffer` chooses the deque, the mutex and the capacity by direction and
then does the same for both, so that one module stands for either. `at[t]` says
where thread `t` is: outside, waiting for the mutex (`"read?"`, ...) or inside.

| Code | Actions |
|---|---|
| entry of `read`, `write`, `size`, `front` | `CallRead`, `CallWrite`, `CallLook` |
| `timed_lock` succeeds | `BeginRead`, `BeginWrite`, `BeginLook` (with the count it computes) |
| `timed_lock` fails | `GiveUp`: returns 0 or NUL; possible only while somebody holds the mutex |
| `copy_n` into the deque | `Push`, one byte at a time |
| `copy_n` out of the deque, then `erase` | `Copy`, `EndRead` |
| return and unlock | `EndWrite`, `EndRead`, `EndLook` |
| `Board::suspend`, `resume`, `do_reap` or a crash | `Suspend`, `Resume`, `Kill`, between any two of these steps |

A killed holder leaves the mutex to `DeadThread`, since the mutex is not robust. A
byte is the triple writer, call, place in the call; what it stands for does not
matter, and the triples let the properties tell bytes apart. `max_buffered_rx` and
`_tx` are 16 bits wide: `Capacity` is the requested length modulo 2^16. `known` and
`front` hold what a reader was last told; it may rely on it until it reads again.

*Left out.* `exists()` and `max_size()` (constants of a channel), an allocation
that fails because the segment is full, and a kill in the middle of one
`push_back` or `erase`: after a kill inside, nobody looks at the deque any more.

### How the other models correspond to the code

*Serial* (`HardwareSerial`, `EchoSketch`). Each direction is a bounded queue with
atomic operations, which `UartBufferProofs!Implementation` justifies; a time-out is a
choice (`Lates`) that makes `size()` 0, `front()` NUL, `read()` and `write()` empty. The
host only writes `rx` and reads `tx`, and a sketch has one thread, so that nothing
leaves `rx` between two steps of a call. The loops of `Stream` (`readBytes`,
`readBytesUntil`, `readString`, `readStringUntil`, `parseInt`, `parseFloat`) are one step
per iteration, with the host in between. A byte is a number, since the code compares
its value: with -1 and 0, with the characters of numbers, and with 0x01, which
`readString` takes for its terminator. `CharSigned` is the signedness of `char`.
Bound `ParseLates`: a number meets one time-out at most. `LongMax` is the largest `long`; a sum
that passes it overflows, which is undefined, and becomes any member of `Garbage` (what else the
compiler may make of it is left out). Left out: the overflow of the two sums of
`parseFloat` and the rounding of their quotient to `float` (`Stream.cpp:82-99`), which is kept as the
pair of sums it is computed from; `find`, `println` and the class `String`.

*Frame buffers and camera* (`FrameBuffer`, `Camera`). A call on a frame is split into
the size check (`CallWrite`, `CallRead`), `Lock`, one `CopyPixel` per pixel, and
`Unlock`; a flip setter into the load of the word and its store; `set_width` and `set_height`
into the store of the dimension and the resize of the pixels to what the other dimension is by then
(`StoreWidth`, `ResizeWidth`, `StoreHeight`, `ResizeHeight`); and `begin()` and `end()` into their
three setters. The host calls all of them too. A colour is a triple of 4-bit values, the
precision that both formats keep, and the conversions are those of the code (shifts and masks on bytes).

A resize takes no mutex. A copy that was checked before it and is not over is marked by it
(`met`), unless the size stays the same: from then on a read may find anything and a write may
miss the frame, which is what is left of the undefined behaviour; the properties about copies are
about those without the mark. `sizer` remembers who sized a buffer last: the camera, the host,
or a camera that `setPins()` has moved away. `missing` remembers that `begin()` said there was no
buffer. Simplifications: the resizes of two threads are taken one after the other (`vector::resize`
is not atomic); `readFrame()` reads the dimensions and checks the size in one step; the
dimensions are natural numbers, since the segment has no room for those whose product overflows.
Left out: the allocator of the segment.

*SD* (`SdStorage`). A path is a sequence of names, of any length, and `mkdir` makes
what is missing above it, as `create_directories` does. A `File` is a stream with one position for reading and writing, the
flags eof, fail and bad, and a sentry that refuses transfers when one is up; `data`
keeps the contents of removed files for the streams that have them open. Whether the
library raises `fail` for a write after an error is left open. `openNextFile()` goes through the
entries that were there when the directory was opened, since the library reads a small directory ahead,
and each entry remembers whether it was a file or a directory (`directory_entry`): a file that
has been removed meanwhile is made again if it is opened for writing, and a removed directory makes
the iterator throw, which leaves the `File` it was assigned to as it is (`OpenNextFile`). `got` has the bytes that
reads returned and their places in the file, and `skip` how many `read(buffer, n)` has
passed over by its second move of the position (`SD.cpp:231-233`). Bounds: a file is open
through one `File` at a time, a directory is used while the root it was opened under is that of
`SD`, and no directory that took the place of a removed file is opened for reading.

*Toolchain* (`Toolchain`). A line of output is "text", the line with the executable's
path, or another line with the same prefix, which a plugin may print. The processes
write, end and fail as they like, within a pipe of finite capacity. The thread's program
counter follows `do_configure` and `do_build`: read a line, take the log's mutex, append
the line, append its end, join. An exception out of a `noexcept` function ends the host.
Abstracted: the texts of manifests and of the device list.

*Devices* (`DeviceBanks`). The constructor of `BoardData` is stepped through device by
device and field by field (count, resize, insert). A name is a number of which equality
and order matter. The host and the sketch each have objects generated by BindGen for the
specifications in `Known`; loads and stores convert between the field's type and the
bank's, modulo its width. Two duties are left to the caller of `lock()` and `unlock()`: who
calls `lock()` owns no other mutex, and only the owner unlocks. Left out: the iterators of `VirtualDevices`, the equality of
specifications and `to_cmake()`. Fields of the types `f32` and `f64` have no proxy that
compiles (`BindGen.cmake:66` compares with 8), so that no specification in `Known` has one.

*GPIO* (`Gpio`, `PinsSketch`). An Arduino function is two steps, its checks and its
access, between which the host may write the pin. A pin number is converted to
`size_t` (64 bits, 30 in the model) and compared as such. `HostDirects` lets the host set
directions too; the runs leave directions to `pinMode`. An `int` lies within
±2^29, and a pin's value has 16 bits. The constructor sorts the configured numbers (any
permutation that sorts them will do, since equal numbers cannot be told apart) and then goes
through the drivers one by one, each of which replaces what earlier ones of its pin gave.

*Download cache* (`DownloadCacher`). One step per CMake command. A lock belongs to the
file that was opened, not to its name, and the operating system frees the lock of a
killed process; the name can be removed while others hold or wait for the file. The
cached file exists or not, is whole or not, and may have several writers.

## 3. The runs

| Run | Instance | States | Shows |
|---|---|---|---|
| `board` | 2 sketches (one needs a device), 2 configurations (one has it), pipe of 2 | 100 000 | the board's safety, `IInv`, that it implements `BoardContract`; calls return, exits are reported, stops obeyed |
| `uart` | 2 host writers, 1 sketch reader, capacity 65538 mod 2^16 = 2, calls of 1 to 3 bytes, new writes until 3 bytes | 79 000 | writes are not mixed, the sole reader is not surprised, `IInv`, the buffer implements `BoundedFifo`, calls return |
| `camera` | 1 host thread, which sizes the camera's buffer too, the sketch with flips, a camera and a screen, keys 2 and 7 (no buffer), 1 resolution, frames of 1 and 2 pixels, 1 colour | 203 000 | look-ups, sizes and frames are right, resized or not; the host blocks only on a stopped sketch |
| `sd` | cards 0 and 4, a directory with a file, 2 interchangeable `File`s (symmetry), writes at positions below 3 | 304 000 | trees well formed and on the cards, reads in order, a failed stream is dead |
| `toolchain` | 1 thread, a sketch and a copy, CMake bundled or in the PATH or removed, a source that comes and goes, a talkative plugin | 1 723 000 | what counts as compiled has its executable |
| `toolchain_threads` | 2 threads, each with a sketch of its own, pipe of 1, one line of text per process | 210 000 | lines of the log stay whole; `compile()` returns |
| `devices` | 4 specifications (native and synthetic, 8-bit, atomic, signed, mutexes) in 12 boards of 1 to 3 devices, up to 2 instances | 11 000 | fields tile the banks and keep their values; locks return |
| `gpio` | 3 configurations (shuffled, repeated, the test's), 6 pin numbers, -1 and 65538 (2 modulo 2^16) among them | 15 000 | pins are as configured, levels carry, the sketch drives outputs only, pin 2 follows pin 0 |
| `serial` | queues of 3 and 2, bytes space, `-`, `.` and `1`, texts of 1 and 3, 3 bytes in all | 2 860 000 | numbers are read once and well formed; promised room is there |
| `echo` | queues of 2 and 3, bytes 0x01, `H`, `I` and 0xC8, 5 bytes in all | 377 000 | the echo is faithful and arrives |
| `cacher` | 2 processes with 2 calls each, failures, crashes, clearings, forced updates | 243 000 | one download, whole, no lock file left; calls return |
| `board_view` | 1 sketch, 1 configuration | violated | a disagreement with the documentation (section 5) |

*Bounds of the board run.* Two sketches and two configurations are enough for every
confusion of one with another, and for a launch that fits and one that does not; a
third adds no new relation. A pipe of two chunks has an empty, a partly filled and a
full state. Nothing else is bounded: the number of runs, calls, suspensions and
recompilations is not limited, the state space is finite by itself.

*Bounds of the UART run.* A capacity of 2 has an empty, a partly filled and a full
buffer, and calls of up to 3 bytes are cut. `MaxBytes` limits only when a new
`write()` may begin; three bytes fill the buffer, empty it and fill it again, across
several calls. Two threads on one side race; a third adds nothing they do not do.
Racing readers are covered by the proofs, which need no bound.

*Bounds of the other runs.* Frames of two pixels and of one can be half written and
of a stale size, and the camera's two pixels and the host's one can be resized into each other.
The host sets only the buffer of the camera (`Sized`), to dimensions of 1 (`Dims`), and every
frequency is 0 (`Rates`): no other call reads it. A frame has one colour, black is another, and that
is enough to see a pixel that is not of the frame. The second key has no buffer, so that the
camera is moved away from its own; a screen's key, for which `begin()` answers "Framebuffer not in
input mode", is among the keys of `MCCamera_lookup.cfg` only. One flip flag, set by the sketch, runs
(`Flags`); two setters of both are in `MCCamera_flips.cfg`. In the SD run one file exists or is
open at a time (`MaxFiles`), under any of its paths. A write at a position below 3 lets the
double move of the position leave a gap, read past it and fail. One line of text in a
pipe of one is enough for a full pipe, a line cut from its end, and a line after the
executable's path; threads meet only at the log, so that each compiles a sketch of its own
(`Compiles`). Three devices show a field in front of, between and behind others.
Three bytes are a number with a sign or a point or a space before it, and a second number; a `long`
of at most 60 (`LongMax`) overflows with the second digit or not. Queues of
two and three are full, and cut a text of three. Two processes, of which one waits, and
two calls, of which the second finds the cache, meet every branch of the function; a
third process is needed for the race of section 5 only.

*What the properties say.* Each is stated in words at its definition. `IInv` is
the inductive invariant of the proofs; `CameraInv`, `SdInv`, `ToolchainInv`,
`DevicesInv`, `PinsInv`, `SerialInv` and `CacherInv` are a module's type invariant
with the invariants its callers rely on, one definition each, and `EchoInv` says the
same of the echo sketch. Where the module is
proved about, the parts that make the invariant inductive are in it too, so that
TLC checks them on the instance:

| Invariant | What its callers rely on | What makes it inductive |
|---|---|---|
| `CameraInv` | `ReadFrameFits` (the size `readFrame` asks for is there, in a buffer that `begin` sized last), `EndedMeansEmpty` (a camera that is not begun has left no frame where only it sized), `Ordered => NotFoundMeansAbsent` (the bisection finds every key, for keys in ascending order) | `CopyInv`, `KeyInv`, `FrameInv`, `CamInv` |
| `SdInv` | `TreeIsClosed`, `NothingOutsideCards` | `StreamsApart`, `Tracked` |
| `ToolchainInv` | `BuiltHasBinary` | `WorkInv`, `IdleWhenBuilt` |
| `DevicesInv` | `BanksAreTiled`, `NoWildAccess` (for fields that the board has) | `LayoutInv`, `SlotsInv` |
| `PinsInv` | `PinsAreAsConfigured` | `LaidOut`, `CallInv` |
| `SerialInv` | `NumbersAreReadOnce`, `NumbersAreWellFormed` | `RoomIsThere`, `BytesAreCounted`, `ParsesWhatItTook` |
| `EchoInv` | `EchoIsFaithful` | `LineOfCall`, `RxIsTheEnd` (with `SerialInv`) |
| `CacherInv` | `ReturnedIsWhole`, `NoLockLeft` | `LockInv`, `CacheInv`, `FetchInv` |

Three of them have honest exceptions in their statements: `EchoIsFaithful` expects
without the bytes that `readString` takes out and cannot return (0x01 and, where
`char` is signed, everything from 0x80); `WritesFit` and the numbers do not speak of
calls that a time-out met; `ReturnedIsWhole` and `FetchedOnce` hold until a download
fails, a process is killed, an update is forced or the cache is cleared.

*Deadlock* is checked in `sd`, `gpio`, `serial` and `echo`. Elsewhere the system really
stops: an aborted host and a destroyed board take no step, a call that waits for an
orphaned mutex never returns, a killed sketch does nothing, and the processes of
`cacher` have made all their calls.

*Fairness.* Every fair specification assumes only that threads are scheduled, unless
it is said here.

* `Board`: the host thread goes on with a call it began, and the log thread and a
  process that is not stopped are scheduled (weak fairness of `CallProceeds`,
  `GrabberStep` and `SketchProgress`). `stop()`'s time-out makes the first one a fact for
  `stop_wait`. The frontend ticks: `Board.hpp:72` says "call in your frontend physics
  loop". Nothing is assumed about which members it calls, about `setup()` or `loop()`
  returning, or about anyone releasing the log; `CallsReturn` and `ExitIsReported` name
  these escapes. `StopIsObeyed` has a premise, `WellBehaved`: `setup()` and `loop()`
  return again and again (strong, because the sketch may write to a full pipe or be
  suspended in between).
* `UartBuffer`: weak fairness of a thread inside a call while its process runs.
  `timed_lock` ends after a second, so that a waiting thread can always go on.
* `Camera`: strong fairness, because a thread spins on a mutex that is free again and
  again; `HostReturnsOrHeld` exempts a sketch that was stopped inside.
* `Toolchain`: strong fairness of the threads for the log's mutex, processes with room
  in their pipe end sooner or later, the frontend gives the log back. Plugins do not
  print a line that looks like the executable's path, after which the pipe is not read.
* `DeviceBanks`: strong fairness of spinning threads, and who locks a mutex unlocks
  it; `LocksReturn` exempts a mutex that died with the sketch.
* `PinsSketch`, `EchoSketch`: the sketch's thread is scheduled, and the test reads what
  it is sent. `EchoArrives` is about behaviours without time-outs (`timely`).
* `DownloadCacher`: a process that can go on does; a download ends, one way or the other.

## 4. What is proved

### The board

`BoardProofs` holds for every set of sketches, configurations and devices, for
every pipe capacity and with or without suspension signals. The assumptions are
those of the modules: the "no sketch" and "no configuration" values are not
sketches or configurations, and device sets are sets of devices.

| Theorem | States |
|---|---|
| `TypeCorrect` | `[]TypeOK` |
| `Invariance` | `[]IInv` |
| `CleanEnds` | `[]NothingLeftBehind` |
| `DataStays` | `[]BoardDataIntact` |
| `LaunchesAreChecked` | `[]LaunchWasChecked` |
| `LogIsComplete` | `[]LogComplete` |
| `NoticesAreHonest` | `[]NoticeMeansSelfExit` |
| `SegmentIsTheHosts` | `[](SegmentOwned /\ HostWaitsOnlyForTheDead)` |
| `SuspensionHolds` | `FrozenWhileSuspended` |
| `Refinement` | the board implements `BoardContract` |

*The argument.* None of the safety invariants is inductive by itself. That no
process is left on a stopped board depends on the call in progress (a call that
reaps has already killed the process while the status still says *running*), so
`IInv` first says which calls are possible in which status (`CallInv`) and ties
process and log thread to both (`ProcessInv`). That the board data is intact
depends on who may destroy it: the host only without a process, the sketch only on
its way out, hence `SegmentInv`, which also says that the segment's mutex is held
by a live sketch exactly in its two critical sections. `LogInv` says that unread
text always has a reader, and that nothing is lost of what goes into an open pipe; `NoticeInv` that a run still to be reported was not
killed; `FrozenInv` that a suspended live process is frozen. Types are proved
first (`TypeStep`), because they need nothing else; `StepInv` then takes the
actions one by one. The refinement maps the contract's process to `Alive`; every
action is one abstract step or a stutter, and the two that need the invariant are
`StartSpawns` (no process is alive) and `ReapReturns`/`TickReturns` (none is left).

### The UART buffer

`UartBufferProofs` holds for any number of readers and writers, any of which may
belong to the sketch, for every requested length, and for calls of any length. It
assumes `UartAssumption`: the two mutex values that are no thread differ from
each other and from all threads, and the numbers are natural.

| Theorem | States |
|---|---|
| `TypeCorrect` | `[]TypeOK` |
| `Invariance` | `[]IInv` |
| `NothingIsLost` | `[](WithinCapacity /\ Lossless)` |
| `WholeWrites` | `[]WritesStayWhole` |
| `SoleReader` | `[]NoSurprise` |
| `Implementation` | `FifoSpec`: the buffer implements `BoundedFifo` |

*The argument.* That the buffer is not over-full depends on counts computed when the
mutex was taken, and they stay good only because nobody else is inside: `LockInv`
says that one thread at most is inside, and that the mutex is its, or a dead
thread's. `RoomInv` says what the thread inside may still do (room left for the
bytes to push, the bytes copied out are still the first). `PushInv` ties the end of
the buffer to the `write()` in progress, which the refinement needs: the abstract
queue does not have these bytes until `EndWrite`. `ReaderInv` says that a thread
inside `read()` relies on nothing it saw before. `WholeInv` says that every byte but
those of the `write()` in progress belongs to a call that has ended. `BufferStep`
takes the actions one by one; the two that change the buffer, `Push` and `EndRead`,
are described by lemmas of their own (`PushEffect`, `EndReadEffect`), which rest on
library theorems about sequences. In the refinement `EndWrite` is `Put`, `EndRead` is
`Take`, and every other step a stutter.

### The bisection

`BisectionProofs!LowerBoundIsRight` says that in every sorted sequence the result of
`LowerBound` has only smaller keys in front of it and none behind it. Pins and frame
buffers are found through it. `LowerBound` is a recursive function, of which TLA+
promises nothing until a function with its equation is known to exist. `Recursion` shows
that it does, for ranges of every length, and `Unfold` that the equation therefore holds.
Both, and the theorem, go by the least counterexample: a set of natural numbers that is
not empty has a least member (`Least`, from the well-founded order of the library), and
bisection asks only for shorter ranges (`Halves`). The other proofs about recursive functions and
about sorting take the same way, since induction itself cannot be applied here.

### Frame buffers and the camera

`CameraProofs` holds for any number of host threads, any configured buffers, dimensions,
colours and frame lengths, and any keys, with the buffers sized by every host thread and by the
camera at any time, copies or not.

| Theorem | States |
|---|---|
| `TypeCorrect` | `[]TypeOK` |
| `FramesStayWhole` | `[]FramesAreWhole` |
| `CopiesAreInside` | `[]CopiesStayInside` |
| `CameraIsRight` | `[]CameraInv` |

There are no hypotheses: what the code does not keep is in the properties. A copy that a resize
meets is excepted from the first two, and `CopiesNeverRunPast`, without the exception, fails; the
buffers that the host sized or that `setPins()` left behind are excepted from `EndedMeansEmpty`, and
`EndClosesWhatBeginOpened` fails; and `NotFoundMeansAbsent` is stated for ordered
configurations, and fails for others (section 5 for all three).

*The argument.* The inductive invariant is `FbInv /\ CamTypeOK /\ CamInv`. `FbInv` has the
types of the calls and buffers with `CopyInv` (the mutex is with the one thread that copies,
and a copy has done its first pixels), `KeyInv` (the buffers keep their keys) and `FrameInv`:
unless a resize has met it, the size a copy was checked against is still right, what a write has
stored has the colours of its frame, and what a read has copied is the frame that was shown. A resize
shortens or lengthens the pixels and what is shown alike (`ResizedType`), and marks exactly the copies
that it disturbs (`Marked`), so that `ResizeStep` has nothing to show of the others. Each pixel goes
through two conversions, and `StoredColour` and `FetchedColour` say that the colour survives
them. `CamInv` needs no mutex: it follows the driver through the three setters of `begin()` and
`end()`, dimension by dimension (`CamSetsStep`), and says that a buffer that only the camera sized
is as large as its dimensions say, and that these are 0 unless the camera is begun with it. The
steps of the host disturb it only where they make the buffer theirs (`CamKept`).

### GPIO

`BoardDataProofs` holds for every configuration: pins in any order, listed repeatedly, with any
number of drivers for each, also for pins that do not exist.

| Theorem | States | Under |
|---|---|---|
| `PinsAreRight` | `[]PinsInv` | - |
| `LevelsAlwaysCarry` | `[]LevelsCarry` | - |
| `OnlyOutputs` | `SketchDrivesOutputs` | `~HostDirects` |

*The hypothesis.* An Arduino function checks the direction before its access, so that a host that turns the
pin into an input in between is not noticed. Nothing in the repository calls
`set_direction` but `pinMode`, and the run leaves it to `pinMode` too.

*The argument.* Most of it is about the constructor. `CanSort`: a sequence of numbers has a
permutation that sorts it (the last number of a shortest unsortable part could be inserted), so that
`Order` is sorted and has the same numbers (`OrderIsRight`). `Layers` and `Unfolding`: the
function that goes through the drivers exists and obeys its equation. `MadeFirst`,
`MadeNext` and `PinsAreMade`: after the first *n* drivers each pin has what the last of these
for its number gave. `AsSizeIsRight`: converting an `int` keeps different numbers different.
With the bisection they give `FindIsRight`, that a look-up finds a number if
and only if it was configured, and `Configuration`, which is `PinsAreAsConfigured`. The
invariant of the steps is `TypeOK /\ LaidOut /\ CallInv /\ LevelsCarry`: no step changes a
number or drivers, and a call past its checks refers to a pin that allows it.

### Board devices

`BoardDataProofs` holds for every board: any number of devices, native and synthetic, in any
order, any number of instances of each, fields of all types in any order, any threads of the
host and the sketch, and any integers stored.

| Theorem | States | Under |
|---|---|---|
| `BankInvariance` | `[]DevicesInv` | `Legal`, `Matching` |
| `FieldsAreKept` | `[]FieldsKeepTheirValues` | `Legal`, `Matching` |

*The hypotheses.* `Legal(Configs)`: a board's devices have different names, and so have the
fields of a device, whose types are those that BindGen accepts. `Matching(Configs, Known, Probes)`:
the host and the sketch were generated for the devices that the board has, and
`as_opt` is asked for fields that they have. `MCDeviceBanks` assumes both of the instance, so
that TLC evaluates them; boards that break the first are in `MCDeviceBanks_twice.cfg`
(section 5). The code checks neither: an access to a field that is not there is outside the
banks.

*The argument.* Three questions are taken in turn, and each is an invariant of its own.

1. *Where the constructor puts things* (`LaidStep`). `Sizes(c)[j]` is what the first *j* devices need
   of each bank, a recursive function whose equation `SizesUnfold` establishes. `LayoutInv`
   says that a loop that is at a field has counted the devices before it and the fields its iterator
   has passed (`CountedNext`), whichever loop it is and in whatever order a map is iterated over;
   hence the loop that inserts gives a device the base where the devices before it end, and the banks
   have room for all.
2. *Where the look-ups go* (`LayoutTiles`). A field's rank, how many fields of its bank have a
   smaller name, is a bijection from the fields of a bank onto 0 to *k* - 1 (`Ranks`); instance
   and rank are the row and the column of a table with *k* columns (`RowAndColumn`), and the
   tables of two devices do not overlap because `Sizes` grows (`SizesGrow`).
   `PlacesDiffer` and `PlacesCover` are the two halves of `BanksAreTiled`.
3. *What the slots hold* (`SafeStep`). Every access of a generated object is to a place of
   a field (`ObjectIsThere`), and a store changes no other field, since places differ
   (`PutInSlot`). `SlotsInv` remembers this, and that whoever waits in `lock()` waits for a mutex of
   the board. `StoredConverts` then reads the value back: converted to the unsigned type of
   its bank and to the signed type of its field it is the value stored, modulo the width.

### Serial and the echo

`SerialProofs` holds for any sizes of the two buffers, any bytes, texts and limits, any number
of them, `char` signed or not, and with time-outs anywhere.

| Theorem | States |
|---|---|
| `SerialIsRead` | `[]SerialInv` |
| `WhatFitsIsWritten` | `WritesFit` |
| `EchoIsRight` | `[]EchoInv` |

A number that exceeds a `long` on the way is excepted from `ParsesWhatItTook`
(`IsLong`), since its overflow leaves it open; for `parseFloat` the theorem speaks of the two sums, not of
their quotient.

*The argument.* That a number is the one its bytes spell needs `ParsesWhatItTook`: at each
point of the loop the sum so far is what the bytes taken so far spell, the byte peeked at is still
in front (only the sketch takes from `rx`, so that `read()` takes what `peek()` saw), and a byte that
may follow is one. A time-out between the two breaks this, and
the invariant says so (`late`). `Spelt`, `Places` and `Kept` read a text at once; that one more
byte extends the result by a step (`SpeltAppend`, `PlacesAppend`, `KeptAppend`) follows from their
equations. `WritesFit` rests on `RoomIsThere`: what `availableForWrite()` promised and what is in
`tx` fit together, since only the host changes `tx` in between and only takes.
For the echo, `LineOfCall` ties the sketch's line to the call of `Serial` it is in, and `RxIsTheEnd`
says that `rx` holds the end of the input; then each byte that is taken extends the places at which the output
is found in the input (`WithinAppend`), and what is cut off by a full `tx` leaves a prefix
(`WithinPrefix`).

### SD storage

`SdStorageProofs` holds for any cards, pins, `File` variables, bytes, and paths of any length (a
set of paths has the paths above each).

| Theorem | States |
|---|---|
| `Invariance` | `[]SdInv` |
| `InOrder` | `[]ReadsInOrder` |
| `StaysDead` | `DeadAfterEnd` |

*The argument.* `TreeIsClosed` (every file is in a directory) needs that the ancestors of a path are
its parent and the ancestors of that (`Lineage`, `AncestorsClosed`), and that `remove`
and `rmdir` take only what has nothing in it. That reads are in order rests on `Tracked` (the position of a
stream is where its last reads end, and `skip` further for what blocks have passed over) and on `StreamsApart`, the bound of section 2 that a file is
open through one `File` at a time: another `File` could write into what was read. A step is a
call on one stream (`StreamStep`), a renewal of one (`OpenStep`, `OpenNextFileStep`) or
one on the tree (`TreeStep`); the lemmas `FilesAfter...` say what each leaves of the others.

### Toolchain

`ToolchainProofs` holds for any number of threads, sketches and copies, any capacity of
the pipe and any number of lines.

| Theorem | States |
|---|---|
| `Invariance` | `[]ToolchainInv` |
| `WholeLines` | `[]LinesStayWhole` |

*The argument.* A sketch counts as compiled only after its own build has ended well. So that no
other thread takes the executable away meanwhile, `WorkInv` says that no two threads work in one
directory, which is the caller's duty (the guard of `Compile`: the code has nothing that would keep
two threads from compiling one sketch), and that a thread has a process exactly between spawn
and join; `IdleWhenBuilt` says that a sketch being
compiled is not marked. `LogInv` ties the end of the log to its mutex: the last line lacks
its end if and only if a thread is between the two appends, and then that thread has the mutex.

### The download cache

`ToolchainProofs` also holds the proofs about `DownloadCacher`, for any finite set of processes and any number of calls, with or without
failures, crashes, forced updates and clearings.

| Theorem | States |
|---|---|
| `CacherInvariance` | `[]CacherInv` |
| `OneFetch` | `[]FetchedOnce` |

*The argument.* Whoever opens the name of the lock file gets the file it stands for, or a new one
that nobody has open; there is one, since there are more files than processes
(`FreshExists`, by the pigeonhole principle). `LockInv` says that locks have one
owner and who has which file open. Two owners are possible all the same, of different files of
one name (section 5). `FetchInv` says when they are not: until something fails or is
cleared, nobody has removed the name before the cached file is whole, so that everybody
has the same lock file open and one process at most is past its lock; afterwards nobody fetches.

### What is not proved

`SegmentOwned`, `HostWaitsOnlyForTheDead`, `FrozenWhileSuspended`, `WithinCapacity`
and `Lossless` are proved and no longer listed in a run: the invariant `IInv`, which
the runs do check, implies all but the action property.

Every invariant and every action property that a passing run checks is proved. Only
model-checked are:

* the liveness properties of all modules, `PinsSketch!PinFollows` of the test's sketch among them,
  since proofs of liveness under fairness, and of ENABLED, are outside the prover;
* the composition of `UartBuffer` with `HardwareSerial`, whose queues are those of `BoundedFifo`:
  `Implementation` is the proof that they may be.

## 5. Where the code and its documentation differ

Each of these is a property that the code does not keep, and a configuration under
which TLC shows a behaviour that violates it. The first is listed as a run in
`PROJECT.json`; the others are kept beside the runs, and are checked with
`tlc -config <file> <module>`. TLC stops at the first property that is violated; where a
file names several, leave in the one to look at.

| Property | Configuration | Module |
|---|---|---|
| `ViewNeverDangles` | `MCBoard_view.cfg` | `MCBoard` |
| `StopRequestIsActive` | `MCBoard_docs.cfg` | `MCBoard` |
| `NoticeIsUnexpected` | `MCBoard_docs.cfg` | `MCBoard` |
| `StderrIsLogged` | `MCBoard_docs.cfg` | `MCBoard` |
| `HostReturns` | `MCCamera_block.cfg` | `MCCamera` |
| `CopiesNeverRunPast` | `MCCamera_resize.cfg` | `MCCamera` |
| `EndClosesWhatBeginOpened` | `MCCamera_resize.cfg` | `MCCamera` |
| `OtherFlagKept` | `MCCamera_flips.cfg` | `MCCamera` |
| `NotFoundMeansAbsent` | `MCCamera_lookup.cfg` | `MCCamera` |
| `NoSuchDevice` | `MCSdStorage_docs.cfg` | `MCSdStorage` |
| `AvailableIsHonest` | `MCSdStorage_docs.cfg` | `MCSdStorage` |
| `BlocksFollow` | `MCSdStorage_docs.cfg` | `MCSdStorage` |
| `PeekKeepsCursor` | `MCSdStorage_docs.cfg` | `MCSdStorage` |
| `CheckIsRight` | `MCToolchain_docs.cfg` | `MCToolchain` |
| `OnlyPathIsSearched` | `MCToolchain_docs.cfg` | `MCToolchain` |
| `ConfigureFailureIsTold` | `MCToolchain_docs.cfg` | `MCToolchain` |
| `FieldsKeepTheirValues` | `MCDeviceBanks_twice.cfg` | `MCDeviceBanks` |
| `AcceptedIsConstructed` | `MCDeviceBanks_long.cfg` | `MCDeviceBanks` |
| `OneDownloadAtATime` | `MCDownloadCacher_docs.cfg` | `MCDownloadCacher` |
| `ForcedIsFetched` | `MCDownloadCacher_docs.cfg` | `MCDownloadCacher` |
| `CachedWasDownloaded` | `MCDownloadCacher_docs.cfg` | `MCDownloadCacher` |

* `ViewNeverDangles`. An exiting sketch destroys the `BoardData` of the segment it
  does not own (`SharedBoardData.cpp:38-39`), while `Board::view()` still hands out
  a view of it until `tick()` notices the exit. `BoardView.hpp:276` says that views
  "Must stay a no-fail interface (operations all silently fail on error and never
  cause UB)".
* `StopRequestIsActive`. A `stop()` that timed out, a `terminate()` and a `start()`
  without `prepare()` give the new run the old request; `BoardView.hpp:305` says
  `stop_requested()` tells of an *active* request.
* `NoticeIsUnexpected`. An exit that the host asked for is notified if `stop()`
  timed out just before; `Board.hpp:54` calls the handler that of the *unexpected*
  exit.
* `StderrIsLogged`. A `start()` without `prepare()` spawns over the pipe that the first
  run's grabber has closed (`Board.cpp:220,248`): if Boost.Process accepts it, all that the
  second run writes to stderr is lost, while `Board.hpp:84` offers the runtime log without
  a word about which run it is of.
* `HostReturns`. Frame reads and writes wait for `data_mut` without a time-out
  (`BoardView.cpp:314,326`), unlike the UART: a sketch frozen or killed inside
  `readFrame()` blocks the host for ever (again `BoardView.hpp:276`).
* `CopiesNeverRunPast`. `set_width` and `set_height` resize the pixels without the mutex
  (`BoardView.cpp:281,293`), and copies check the size before they take it: a host
  whose check passed copies past what `Camera.end()` left (`BoardView.hpp:276` again:
  "never cause UB").
* `EndClosesWhatBeginOpened`. `setPins()` between `begin()` and `end()` changes the key by
  which the buffer is looked up (`OV767X.cpp:105`): `end()` closes another buffer, or none, and
  the one that was opened keeps its frame.
* `OtherFlagKept`. The flip setters load one atomic word, change a bit and store it
  (`BoardView.cpp:254,267`): a setting of the other flag made in between is lost.
  `BoardView.hpp:223-227` documents one setter per flag.
* `NotFoundMeansAbsent`. Frame buffers are searched by bisection (`BoardView.cpp:384`)
  and stored in the order of the configuration (`BoardData.cpp:98`; the pins are
  sorted): a configured key is reported as "Framebuffer does not exist".
* `NoSuchDevice`. `begin(cspin)` looks up the pin of the previous `begin`, initially 0
  (`SD.cpp:274`): "no such device" for a pin that has a card when pin 0 has none.
* `AvailableIsHonest`. A file stream has one position, which `write()` advances twice
  (`SD.cpp:247`): it passes the end, and `available()`, "bytes avail to read"
  (`SD.h:62`), is negative.
* `BlocksFollow`. `read(buffer, n)` moves the position by what it has read a second time
  (`SD.cpp:231-233`): a file that is read in blocks loses every other one.
* `PeekKeepsCursor`. `peek()` at the end raises eofbit, after which `position()` is -1;
  `SD.h:64` says "read next char without advancing cursor".
* `CheckIsRight`. A look-up of CMake that fails leaves an empty path, which the next
  check takes for one the user gave (`Toolchain.cpp:301,307`): it fails although CMake
  has been installed meanwhile. `Toolchain.hpp:86`: "Checks whether the required tools
  are provided".
* `OnlyPathIsSearched`. `Toolchain.hpp:88` warns that the check "currently only checks for
  CMake's availability through the PATH env var"; it also takes the CMake bundled with the
  resources (`Toolchain.cpp:312-315`).
* `ConfigureFailureIsTold`. `ConfigureSketch.cmake:135` ignores the result of the CMake
  it runs, so that a sketch built before counts as compiled although its configuration
  failed; `Toolchain.cpp:69` has "CMake configure failed" for it.
* `FieldsKeepTheirValues`. Two board devices of one name (two versions) share an entry
  of the device map with the bases of the first, while the banks are laid out for both
  (`BoardData.cpp:122`): a field shares memory with another device.
  `BindGen.cmake:259` calls that an error, "Redefinition of device".
* `AcceptedIsConstructed`. `BindGen.cmake:60` swaps the arguments of `string(LENGTH)`, so
  that names "exceeding 32 characters length limit" pass, and throw out of the
  `noexcept` constructor of `BoardData` (`BoardData.cpp:131`).
* `OneDownloadAtATime`. The lock file is removed by name (`DownloadCacher.cmake:94,109`)
  while others wait for it: after a failed download a waiter and a newcomer lock
  different files. Line 45: "locked until the file has been downloaded and cached".
* `ForcedIsFetched`. `set (${index} -1)` (line 82) sets a variable named 1, so that a
  forced update removes the file and does not download it. Line 39: "will define
  whether an already cached download should be re-downloaded and cached".
* `CachedWasDownloaded`. A download goes into the final path, and `EXISTS` (line 73) takes
  what a killed process left there for "already been downloaded and cached before".

## 6. Plan

Done, checked and proved: `SharedBoardData`, `SketchRuntime`, `Board`, `BoardContract`;
`UartBuffer`, `BoundedFifo`; `HardwareSerial`, `EchoSketch`; `Bisection`, `FrameBuffer`, `Camera`;
`SdStorage`; `Toolchain`; `DownloadCacher`; `Gpio`, `DeviceBanks`. `PinsSketch` is checked.

Left, in this order:

1. An abstract frame register that `FrameBuffer` implements as long as nobody resizes.
2. The composition of `Board` with `Toolchain`, over the built flag, and with `UartBuffer`.
3. `Stream::find`, `println`, the class `String`, the iterators of `VirtualDevices`.

Not modelled: MQTT (a thin wrapper around libmosquitto, whose threads and callbacks would
be most of the model) and WiFi (stubs without state); preprocessing and manifests
(sequential text processing in CMake, of which `Toolchain` has the outcome); the text
that BindGen generates; identifiers (random, taken as distinct) and portability headers;
build files, packaging and samples.
