------------------------------- MODULE Toolchain -------------------------------
(***************************************************************************)
(* A Toolchain that threads of the host compile sketches with, the Sketch  *)
(* objects and their directories, and the CMake processes it runs.         *)
(*                                                                         *)
(* A process writes its output into a pipe of finite capacity; the thread  *)
(* that runs it reads line by line and appends to the build log, which is  *)
(* shared by all threads under a mutex that the frontend may hold.         *)
(***************************************************************************)
EXTENDS Naturals, Sequences, FiniteSets

CONSTANTS
    Threads,       \* the threads that call compile()
    Sketches,      \* Sketch objects
    Copied,        \* those of them that are copies: [copy -> original]
    NoFqbn,        \* the sketches without a fully-qualified board name
    BadPlugin,     \* the sketches with a plugin named ".", ".." or with a "/"
    PipeCap,       \* the lines a pipe holds
    MaxLines,      \* bound: the lines a process writes before it ends
    Compiles,      \* bound: Compiles[t], the sketches that thread t compiles
    MaxLog,        \* bound: no compile() starts when the log is longer
    ResDirs,       \* bound: the states the resources directory may be in
    Provided,      \* bound: where CMake may be at first, subsets of its two places
    CMakes,        \* bound: the places where the user may install or remove CMake
    Versions,      \* bound: what a CMake that runs may answer to --version
    Movable,       \* bound: the UUIDs whose source comes and goes
    Disposable,    \* bound: the Sketch objects that may be destroyed
    PluginSpeaks,  \* a plugin may print a line that begins with "-- SMCE: "
    NoThread       \* the mutex is free

ASSUME ToolchainAssumption ==
    /\ PipeCap \in Nat \ {0} /\ MaxLines \in Nat
    /\ PluginSpeaks \in BOOLEAN
    /\ NoThread \notin Threads /\ "frontend" \notin Threads /\ NoThread # "frontend"
    /\ Versions \subseteq {"ok", "cmake_failing", "cmake_unknown_output"}
    /\ Provided \subseteq SUBSET {"path", "bundled"} /\ CMakes \subseteq {"path", "bundled"}
    \* bound: a copy is not copied
    /\ DOMAIN Copied \subseteq Sketches
    /\ \A s \in DOMAIN Copied : Copied[s] \in Sketches \ DOMAIN Copied

Errors == {"resdir_absent", "resdir_file", "resdir_empty", "cmake_not_found",
           "cmake_unknown_output", "cmake_failing", "invalid_plugin_name",
           "sketch_invalid", "configure_failed", "build_failed", "system"}
Results == Errors \cup {"none", "ok"}

VARIABLES
    resdir,     \* the resources directory
    installed,  \* where CMake is: in the PATH, bundled with the resources
    cmakePath,  \* m_cmake_path
    checked,    \* history: what the last check said, and where CMake was then
    at,         \* at[t]: the compile() thread t is in
    proc,       \* proc[t]: its process
    sketch,     \* sketch[s]: the Sketch object
    disk,       \* disk[d]: source and build directory of the sketches of one UUID
    log,        \* m_build_log: <<thread, line number>>, or a line's end
    logOwner,   \* m_build_log_mtx
    host        \* "up", or "terminated" by an exception out of a noexcept function

vars == <<resdir, installed, cmakePath, checked, at, proc, sketch, disk, log,
          logOwner, host>>

Uuid(s) == IF s \in DOMAIN Copied THEN Copied[s] ELSE s
Uuids == {Uuid(s) : s \in Sketches}
Idle(e) == [pc |-> "idle", result |-> e]
NoProcess == [run |-> "none"]
EndOfLine == <<>>

Init ==
    /\ resdir \in ResDirs
    /\ installed \in Provided
    /\ cmakePath = "cmake"
    /\ checked = [result |-> "none", there |-> {}]
    /\ at = [t \in Threads |-> Idle("none")]
    /\ proc = [t \in Threads |-> NoProcess]
    /\ sketch = [s \in Sketches |-> [alive |-> s \notin DOMAIN Copied, built |-> FALSE,
                                     tmpdir |-> FALSE, executable |-> "none"]]
    /\ disk = [d \in Uuids |-> [source |-> TRUE, dir |-> FALSE, configured |-> FALSE,
                                binary |-> FALSE, removed |-> FALSE]]
    /\ log = <<>>
    /\ logOwner = NoThread
    /\ host = "up"

-----------------------------------------------------------------------------
(* check_suitable_environment()                                            *)

\* bp::search_path, then find_bundled_cmake.
FindCMake == IF "path" \in installed THEN "path"
             ELSE IF "bundled" \in installed THEN "bundled" ELSE ""

ResourceError == CASE resdir = "absent" -> "resdir_absent"
                   [] resdir = "file" -> "resdir_file"
                   [] resdir = "empty" -> "resdir_empty"
                   [] OTHER -> "none"

Says(r) == checked' = [result |-> r, there |-> installed]

\* A path other than the initial "cmake" is taken as given by the user, also the
\* empty one that a look-up without success left; is_empty() fails on it.
Check ==
    /\ host = "up"
    /\ IF ResourceError # "none" THEN Says(ResourceError) /\ UNCHANGED cmakePath
       ELSE LET p == IF cmakePath = "cmake" THEN FindCMake ELSE cmakePath IN
            /\ cmakePath' = p
            /\ IF p = "" THEN Says(IF cmakePath = "cmake" THEN "cmake_not_found" ELSE "system")
               ELSE IF p \notin installed THEN Says("system")
               ELSE \E v \in Versions : Says(v)
    /\ UNCHANGED <<resdir, installed, at, proc, sketch, disk, log, logOwner, host>>

\* The user installs or removes a CMake; removes, restores or edits a source.
UserInstalls ==
    /\ \E c \in CMakes :
          installed' = IF c \in installed THEN installed \ {c} ELSE installed \cup {c}
    /\ UNCHANGED <<resdir, cmakePath, checked, at, proc, sketch, disk, log, logOwner, host>>

UserMovesSource ==
    /\ \E d \in Movable : disk' = [disk EXCEPT ![d].source = ~@]
    /\ UNCHANGED <<resdir, installed, cmakePath, checked, at, proc, sketch, log, logOwner, host>>

-----------------------------------------------------------------------------
(* compile()                                                               *)

Working(s) == \E t \in Threads : at[t].pc # "idle" /\ Uuid(at[t].s) = Uuid(s)

Return(t, e) == at' = [at EXCEPT ![t] = Idle(e)]
Goto(t, pc) == at' = [at EXCEPT ![t].pc = pc]

\* One thread at a time compiles a sketch: the caller's duty.
Compile(t, s) ==
    /\ host = "up" /\ at[t].pc = "idle" /\ sketch[s].alive /\ ~Working(s)
    /\ s \in Compiles[t] /\ Len(log) <= MaxLog
    /\ sketch' = [sketch EXCEPT ![s].built = FALSE]
    /\ IF ~disk[Uuid(s)].source \/ s \in NoFqbn
       THEN Return(t, "sketch_invalid")
       ELSE at' = [at EXCEPT ![t] = [pc |-> "configure", s |-> s, n |-> 0, inner |-> FALSE]]
    /\ UNCHANGED <<resdir, installed, cmakePath, checked, proc, disk, log, logOwner, host>>

\* bp::child throws if there is no such program: std::terminate.
Spawn(t, run, pc) ==
    IF cmakePath \in installed
    THEN /\ proc' = [proc EXCEPT ![t] = [run |-> run, wrote |-> 0, pipe |-> <<>>,
                                         ended |-> FALSE, code |-> 0]]
         /\ Goto(t, pc) /\ UNCHANGED host
    ELSE host' = "terminated" /\ UNCHANGED <<proc, at>>

\* do_configure() up to the process: the directory may fail to be created, then
\* devices and manifests are written.
ConfigureBegins(t) ==
    LET s == at[t].s  d == Uuid(s) IN
    /\ host = "up" /\ at[t].pc = "configure"
    /\ sketch' = [sketch EXCEPT ![s].tmpdir = TRUE]
    /\ \/ Return(t, "system") /\ UNCHANGED <<disk, proc, host>>
       \/ /\ disk' = [disk EXCEPT ![d].dir = TRUE]
          /\ IF s \in BadPlugin
             THEN Return(t, "invalid_plugin_name") /\ UNCHANGED <<proc, host>>
             ELSE Spawn(t, "configure", "read")
    /\ UNCHANGED <<resdir, installed, cmakePath, checked, log, logOwner>>

\* do_configure() stops to read at the line that names the executable.
TakesPath(t) == proc[t].run = "configure" /\ Head(proc[t].pipe) # "text"

ReadLine(t) ==
    /\ host = "up" /\ at[t].pc = "read" /\ proc[t].pipe # <<>>
    /\ proc' = [proc EXCEPT ![t].pipe = Tail(@)]
    /\ IF TakesPath(t)
       THEN /\ sketch' = [sketch EXCEPT ![at[t].s].executable = Head(proc[t].pipe)]
            /\ Goto(t, "join")
       ELSE Goto(t, "log") /\ UNCHANGED sketch
    /\ UNCHANGED <<resdir, installed, cmakePath, checked, disk, log, logOwner, host>>

\* A variant of Lockable: the build log is appended to without its mutex.
Lockable_Always == TRUE

Lockable == logOwner = NoThread

\* The line and its end are appended one after the other, under the mutex.
LogLine(t) ==
    /\ at[t].pc = "log" /\ Lockable
    /\ logOwner' = t
    /\ log' = Append(log, <<t, at[t].n + 1>>)
    /\ at' = [at EXCEPT ![t].pc = "log end", ![t].n = @ + 1]
    /\ UNCHANGED <<resdir, installed, cmakePath, checked, proc, sketch, disk, host>>

\* A variant of LogLineEnd: the mutex is kept.
LogLineEnd_KeepsLock(t) ==
    /\ at[t].pc = "log end"
    /\ log' = Append(log, EndOfLine)
    /\ Goto(t, "read")
    /\ UNCHANGED <<resdir, installed, cmakePath, checked, proc, sketch, disk, logOwner, host>>

LogLineEnd(t) ==
    /\ at[t].pc = "log end"
    /\ log' = Append(log, EndOfLine)
    /\ logOwner' = NoThread
    /\ Goto(t, "read")
    /\ UNCHANGED <<resdir, installed, cmakePath, checked, proc, sketch, disk, host>>

ReadEnds(t) ==
    /\ at[t].pc = "read" /\ proc[t].pipe = <<>> /\ proc[t].ended
    /\ Goto(t, "join")
    /\ UNCHANGED <<resdir, installed, cmakePath, checked, proc, sketch, disk, log, logOwner, host>>

ConfigureEnds(t) ==
    /\ host = "up" /\ at[t].pc = "join" /\ proc[t].run = "configure" /\ proc[t].ended
    /\ IF proc[t].code # 0
       THEN /\ Return(t, "configure_failed")
            /\ proc' = [proc EXCEPT ![t] = NoProcess] /\ UNCHANGED host
       ELSE Spawn(t, "build", "read")
    /\ UNCHANGED <<resdir, installed, cmakePath, checked, sketch, disk, log, logOwner>>

\* A variant of Built: the executable is not looked for.
Built_Unchecked(t) == proc[t].code = 0

\* The end of do_build(): its exit code, and whether the executable exists.
Built(t) ==
    LET s == at[t].s IN
    proc[t].code = 0 /\ sketch[s].executable = "binary" /\ disk[Uuid(s)].binary

BuildEnds(t) ==
    LET s == at[t].s IN
    /\ at[t].pc = "join" /\ proc[t].run = "build" /\ proc[t].ended
    /\ IF Built(t)
       THEN /\ sketch' = [sketch EXCEPT ![s].built = TRUE]
            /\ at' = [at EXCEPT ![t] = [pc |-> "idle", result |-> "ok", inner |-> at[t].inner]]
       ELSE Return(t, "build_failed") /\ UNCHANGED sketch
    /\ proc' = [proc EXCEPT ![t] = NoProcess]
    /\ UNCHANGED <<resdir, installed, cmakePath, checked, disk, log, logOwner, host>>

-----------------------------------------------------------------------------
(* The CMake processes.                                                    *)

Running(t, run) == proc[t].run = run /\ ~proc[t].ended
CanWrite(t) == Len(proc[t].pipe) < PipeCap
Others == <<resdir, installed, cmakePath, checked, sketch, log, logOwner, host>>

ProcWrites(t) ==
    /\ proc[t].run # "none" /\ ~proc[t].ended /\ proc[t].wrote < MaxLines /\ CanWrite(t)
    /\ \E line \in {"text"} \cup
                   (IF PluginSpeaks /\ proc[t].run = "configure" THEN {"other"} ELSE {}) :
          proc' = [proc EXCEPT ![t].pipe = Append(@, line), ![t].wrote = @ + 1]
    /\ UNCHANGED <<at, disk>> /\ UNCHANGED Others

ProcFails(t) ==
    /\ proc[t].run # "none" /\ ~proc[t].ended
    /\ proc' = [proc EXCEPT ![t].ended = TRUE, ![t].code = 1]
    /\ UNCHANGED <<at, disk>> /\ UNCHANGED Others

\* ConfigureSketch.cmake prints the path last, whether or not the CMake it ran on
\* the build directory succeeded, and ends without an error.
ConfigureSucceeds(t) ==
    /\ Running(t, "configure") /\ CanWrite(t)
    /\ proc' = [proc EXCEPT ![t].pipe = Append(@, "binary"), ![t].ended = TRUE]
    /\ \E inner \in BOOLEAN :
          /\ disk' = [disk EXCEPT ![Uuid(at[t].s)].configured = @ \/ inner]
          /\ at' = [at EXCEPT ![t].inner = inner]
    /\ UNCHANGED Others

\* A build of a directory that was configured once; a multi-configuration
\* generator puts the executable elsewhere.
BuildSucceeds(t) ==
    /\ Running(t, "build") /\ disk[Uuid(at[t].s)].configured
    /\ proc' = [proc EXCEPT ![t].ended = TRUE]
    /\ \E b \in BOOLEAN : disk' = [disk EXCEPT ![Uuid(at[t].s)].binary = @ \/ b]
    /\ UNCHANGED at /\ UNCHANGED Others

-----------------------------------------------------------------------------
(* The frontend.                                                           *)

TakeLog ==
    /\ logOwner = NoThread /\ logOwner' = "frontend"
    /\ UNCHANGED <<resdir, installed, cmakePath, checked, at, proc, sketch, disk, log, host>>

ReleaseLog ==
    /\ logOwner = "frontend" /\ logOwner' = NoThread
    /\ UNCHANGED <<resdir, installed, cmakePath, checked, at, proc, sketch, disk, log, host>>

\* Sketch has no copy constructor of its own: a copy shares UUID and directory.
CopySketch(s) ==
    /\ s \in DOMAIN Copied /\ ~sketch[s].alive /\ sketch[Copied[s]].alive
    /\ ~Working(s)
    /\ sketch' = [sketch EXCEPT ![s] = sketch[Copied[s]]]
    /\ UNCHANGED <<resdir, installed, cmakePath, checked, at, proc, disk, log, logOwner, host>>

\* ~Sketch: the directory is removed, with what a copy may still rely on.
DestroySketch(s) ==
    /\ s \in Disposable /\ sketch[s].alive /\ ~Working(s)
    /\ sketch' = [sketch EXCEPT ![s].alive = FALSE]
    /\ disk' = IF sketch[s].tmpdir
               THEN [disk EXCEPT ![Uuid(s)] = [@ EXCEPT !.dir = FALSE, !.configured = FALSE,
                                                        !.binary = FALSE, !.removed = TRUE]]
               ELSE disk
    /\ UNCHANGED <<resdir, installed, cmakePath, checked, at, proc, log, logOwner, host>>

Runs(t) == ConfigureBegins(t) \/ ReadLine(t) \/ LogLine(t) \/ LogLineEnd(t)
           \/ ReadEnds(t) \/ ConfigureEnds(t) \/ BuildEnds(t)
ProcEnds(t) == ProcFails(t) \/ ConfigureSucceeds(t) \/ BuildSucceeds(t)

\* A process that waits for room in its pipe does not end.
CanEnd(t) == proc[t].run # "none" /\ CanWrite(t) /\ ProcEnds(t)

Next ==
    \/ Check \/ UserInstalls \/ UserMovesSource \/ TakeLog \/ ReleaseLog
    \/ \E s \in Sketches : CopySketch(s) \/ DestroySketch(s)
    \/ \E t \in Threads : \/ \E s \in Sketches : Compile(t, s)
                          \/ Runs(t) \/ ProcWrites(t) \/ ProcEnds(t)

Spec == Init /\ [][Next]_vars

\* Threads are scheduled and get the log's mutex if it is free again and again;
\* processes that can write end sooner or later; the frontend gives the log back.
FairSpec == /\ Spec /\ WF_vars(ReleaseLog)
            /\ \A t \in Threads : SF_vars(Runs(t)) /\ WF_vars(CanEnd(t))

-----------------------------------------------------------------------------
Busy == {"configure", "read", "log", "log end", "join"}

Calls == [pc : {"idle"}, result : Results]
         \cup [pc : {"idle"}, result : {"ok"}, inner : BOOLEAN]
         \cup [pc : Busy, s : Sketches, n : Nat, inner : BOOLEAN]

Processes == {NoProcess}
             \cup [run : {"configure", "build"}, wrote : Nat, ended : BOOLEAN, code : {0, 1},
                   pipe : Seq({"text", "other", "binary"})]

TypeOK ==
    /\ resdir \in ResDirs /\ installed \subseteq {"path", "bundled"}
    /\ cmakePath \in {"cmake", "", "path", "bundled"}
    /\ checked \in [result : Results, there : SUBSET {"path", "bundled"}]
    /\ at \in [Threads -> Calls] /\ proc \in [Threads -> Processes]
    /\ sketch \in [Sketches -> [alive : BOOLEAN, built : BOOLEAN, tmpdir : BOOLEAN,
                                executable : {"none", "binary", "other"}]]
    /\ disk \in [Uuids -> [source : BOOLEAN, dir : BOOLEAN, configured : BOOLEAN,
                           binary : BOOLEAN, removed : BOOLEAN]]
    /\ log \in Seq({EndOfLine} \cup (Threads \X Nat))
    /\ logOwner \in Threads \cup {NoThread, "frontend"}
    /\ host \in {"up", "terminated"}

\* A thread has a process from the first spawn to the end of the build, within
\* the capacity of its pipe, and no two threads work in one directory.
WorkInv ==
    /\ \A t \in Threads : /\ at[t].pc \in Busy \ {"configure"} <=> proc[t] # NoProcess
                          /\ proc[t] # NoProcess => Len(proc[t].pipe) <= PipeCap
    /\ \A t, u \in Threads :
          at[t].pc # "idle" /\ at[u].pc # "idle" /\ Uuid(at[t].s) = Uuid(at[u].s) => t = u

\* A sketch is not being compiled when it says it is compiled ...
IdleWhenBuilt ==
    \A t \in Threads : at[t].pc # "idle" => ~sketch[at[t].s].built

\* ... and then, which Board::start() relies on, it knows its executable, which
\* exists unless the destructor of a copy removed their directory.
BuiltHasBinary ==
    \A s \in Sketches : sketch[s].alive /\ sketch[s].built =>
        /\ sketch[s].executable = "binary"
        /\ disk[Uuid(s)].binary \/ disk[Uuid(s)].removed

\* Whatever comes and goes between and during the calls of compile() and of
\* check_suitable_environment(), results and sketches are what they say.
ToolchainInv == TypeOK /\ WorkInv /\ IdleWhenBuilt /\ BuiltHasBinary

\* The lines of the build log are whole, whoever compiles at the same time: after
\* every line comes its end, unless it is just being appended under the mutex.
LinesStayWhole ==
    \A i \in DOMAIN log : log[i] # EndOfLine =>
        \/ i = Len(log) /\ logOwner = log[i][1]
        \/ i < Len(log) /\ log[i + 1] = EndOfLine

\* The last line lacks its end while, and only while, the thread that appended it
\* has the mutex.
LogInv ==
    /\ \A t \in Threads : logOwner = t <=> at[t].pc = "log end"
    /\ logOwner \in Threads =>
          log # <<>> /\ log[Len(log)] # EndOfLine /\ log[Len(log)][1] = logOwner
    /\ logOwner \notin Threads /\ log # <<>> => log[Len(log)] = EndOfLine
    /\ LinesStayWhole

\* compile() returns, whatever the processes print and however they end, unless
\* the host was terminated.
CompileReturns ==
    \A t \in Threads : at[t].pc # "idle" ~> at[t].pc = "idle" \/ host = "terminated"

\* What check_suitable_environment() says of CMake is true when it says it.
CheckIsRight == checked.result \in {"system", "cmake_not_found"} => checked.there = {}

\* Toolchain.hpp:88: check_suitable_environment() "currently only checks for CMake's
\* availability through the PATH env var".  It would not be content with the CMake
\* bundled with the resources (Toolchain.cpp:312-315).
OnlyPathIsSearched == checked.result = "ok" => "path" \in checked.there

\* A sketch is reported as compiled only if its configuration succeeded.
ConfigureFailureIsTold == \A t \in Threads : at[t].pc = "idle" /\ at[t].result = "ok" => at[t].inner
===============================================================================
