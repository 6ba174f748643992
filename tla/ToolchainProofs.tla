---------------------------- MODULE ToolchainProofs ----------------------------
(***************************************************************************)
(* Proofs about Toolchain, for any number of threads, sketches and copies: *)
(* a sketch that says it is compiled has its executable, the lines of the  *)
(* build log are whole, and a first check finds the CMake that is there.   *)
(* And about DownloadCacher, the download cache of the CMake processes:    *)
(* the lock files and the cached file fit together for any number of them, *)
(* whichever fail or are killed; undisturbed, one fetches the file, once.  *)
(***************************************************************************)
EXTENDS Toolchain, DownloadCacher, FiniteSetTheorems, TLAPS

\* What thread t, or the process that it runs, does in a step.
Step(t) == (\E s \in Sketches : Compile(t, s)) \/ Runs(t) \/ ProcWrites(t) \/ ProcEnds(t)

\* What the user, the frontend and the owner of the sketches do in a step.
Outer == \/ Check \/ UserInstalls \/ UserMovesSource \/ TakeLog \/ ReleaseLog
         \/ \E s \in Sketches : CopySketch(s) \/ DestroySketch(s)

Sketched == [alive : BOOLEAN, built : BOOLEAN, tmpdir : BOOLEAN,
             executable : {"none", "binary", "other"}]
Directories == [source : BOOLEAN, dir : BOOLEAN, configured : BOOLEAN,
                binary : BOOLEAN, removed : BOOLEAN]

\* A sequence with one more element.
LEMMA AppendType ==
  ASSUME NEW S, NEW q \in Seq(S), NEW e \in S
  PROVE  /\ Append(q, e) \in Seq(S) /\ Len(Append(q, e)) = Len(q) + 1
         /\ Append(q, e)[Len(q) + 1] = e
         /\ \A i \in 1..Len(q) : Append(q, e)[i] = q[i]
OBVIOUS

\* A step is one of the user, or one of a thread or its process.
LEMMA NextIsStep == Next <=> Outer \/ \E t \in Threads : Step(t)
BY DEF Next, Outer, Step

\* Every sketch has a directory.
LEMMA UuidType == \A s \in Sketches : Uuid(s) \in Uuids
BY DEF Uuids

\* A thread in a call has a sketch, and one with a process has a pipe.
LEMMA Kinds ==
  ASSUME TypeOK, NEW t \in Threads
  PROVE  /\ at[t].pc # "idle" <=> at[t].pc \in Busy
         /\ at[t].pc \in Busy =>
               at[t] \in [pc : Busy, s : Sketches, n : Nat, inner : BOOLEAN]
         /\ proc[t] # NoProcess <=> proc[t].run # "none"
         /\ proc[t].run # "none" =>
               proc[t] \in [run : {"configure", "build"}, wrote : Nat, ended : BOOLEAN,
                            code : {0, 1}, pipe : Seq({"text", "other", "binary"})]
<1>1. at[t] \in Calls /\ proc[t] \in Processes
  BY DEF TypeOK
<1>2. /\ at[t].pc # "idle" <=> at[t].pc \in Busy
      /\ at[t].pc \in Busy => at[t] \in [pc : Busy, s : Sketches, n : Nat, inner : BOOLEAN]
  BY <1>1 DEF Calls, Busy
<1>3. /\ proc[t] # NoProcess => proc[t] \in [run : {"configure", "build"}, wrote : Nat,
                                  ended : BOOLEAN, code : {0, 1},
                                  pipe : Seq({"text", "other", "binary"})]
      /\ NoProcess.run = "none"
  BY <1>1 DEF Processes, NoProcess
<1> QED
  BY <1>2, <1>3

\* The invariants hold before the first call.
LEMMA InitInv == Init => ToolchainInv /\ LogInv
<1> SUFFICES ASSUME Init PROVE ToolchainInv /\ LogInv
  OBVIOUS
<1>1. TypeOK
  <2>1. at \in [Threads -> Calls]
    BY DEF Init, Idle, Calls, Results
  <2>2. proc \in [Threads -> Processes]
    BY DEF Init, Processes
  <2>3. installed \subseteq {"path", "bundled"}
    BY ToolchainAssumption DEF Init
  <2>4. checked \in [result : Results, there : SUBSET {"path", "bundled"}]
    BY DEF Init, Results
  <2> QED
    BY <2>1, <2>2, <2>3, <2>4 DEF Init, TypeOK
<1>2. \A t \in Threads : at[t].pc = "idle" /\ proc[t] = NoProcess
  BY DEF Init, Idle
<1> HIDE DEF Init
<1>3. WorkInv /\ IdleWhenBuilt
  BY <1>2 DEF WorkInv, IdleWhenBuilt, Busy
<1>4. BuiltHasBinary
  BY DEF Init, BuiltHasBinary
<1>5. LogInv
  <2>1. log = <<>> /\ logOwner = NoThread /\ \A t \in Threads : NoThread # t
    BY ToolchainAssumption DEF Init
  <2>2. LinesStayWhole
    BY <2>1 DEF LinesStayWhole
  <2>3. \A t \in Threads : at[t].pc # "log end"
    BY <1>2
  <2> QED
    BY <2>1, <2>2, <2>3 DEF LogInv
<1> QED
  BY <1>1, <1>3, <1>4, <1>5 DEF ToolchainInv

\* A step of a thread leaves the calls and the processes of the others alone.
LEMMA OthersKept ==
  ASSUME TypeOK, NEW t \in Threads, Step(t)
  PROVE  \A u \in Threads \ {t} : at'[u] = at[u] /\ proc'[u] = proc[u]
<1> USE DEF TypeOK, Return, Goto
<1>1. ASSUME NEW s \in Sketches, Compile(t, s)
      PROVE  \A u \in Threads \ {t} : at'[u] = at[u] /\ proc'[u] = proc[u]
  BY <1>1 DEF Compile
<1>2. CASE ConfigureBegins(t)
  BY <1>2 DEF ConfigureBegins, Spawn
<1>3. CASE ConfigureEnds(t)
  BY <1>3 DEF ConfigureEnds, Spawn
<1>4. CASE ReadLine(t) \/ LogLine(t) \/ LogLineEnd(t) \/ ReadEnds(t) \/ BuildEnds(t)
  BY <1>4 DEF ReadLine, LogLine, LogLineEnd, ReadEnds, BuildEnds
<1>5. CASE ProcWrites(t) \/ ProcEnds(t)
  BY <1>5 DEF ProcWrites, ProcEnds, ProcFails, ConfigureSucceeds, BuildSucceeds, Others
<1> QED
  BY <1>1, <1>2, <1>3, <1>4, <1>5 DEF Step, Runs

\* A call in progress is at a place of the code, or has returned.
LEMMA CallStep ==
  ASSUME TypeOK, WorkInv, NEW t \in Threads, Step(t)
  PROVE  at' \in [Threads -> Calls]
<1>1. at \in [Threads -> Calls] /\ at[t] \in Calls
  BY DEF TypeOK
<1> SUFFICES \E r \in Calls : at' = [at EXCEPT ![t] = r]
  BY <1>1
<1> DEFINE Moves(r) == r \in Calls /\ at' = [at EXCEPT ![t] = r]
<1> SUFFICES \E r : Moves(r)
  OBVIOUS
<1>2. ASSUME NEW e \in Results, Return(t, e) PROVE Moves(Idle(e))
  BY <1>2 DEF Return, Idle, Calls
<1>3. ASSUME NEW pc \in Busy, at[t].pc \in Busy, Goto(t, pc)
      PROVE  Moves([at[t] EXCEPT !.pc = pc])
  <2>1. [at[t] EXCEPT !.pc = pc] \in Calls
    BY <1>3, Kinds DEF Calls
  <2> QED
    BY <1>1, <1>3, <2>1 DEF Goto
<1>4. CASE UNCHANGED at
  <2>1. Moves(at[t])
    BY <1>1, <1>4
  <2> QED
    BY <2>1
<1> HIDE DEF Moves
<1>5. ASSUME NEW s \in Sketches, Compile(t, s) PROVE \E r : Moves(r)
  <2>1. CASE Return(t, "sketch_invalid")
    BY <1>2, <2>1 DEF Results, Errors
  <2> DEFINE r == [pc |-> "configure", s |-> s, n |-> 0, inner |-> FALSE]
  <2>2. CASE at' = [at EXCEPT ![t] = r]
    <3>1. r \in Calls
      BY DEF Calls, Busy
    <3> QED
      BY <2>2, <3>1 DEF Moves
  <2> QED
    BY <1>5, <2>1, <2>2 DEF Compile
<1>6. ASSUME NEW run, Spawn(t, run, "read"), at[t].pc \in Busy PROVE \E r : Moves(r)
  BY <1>3, <1>4, <1>6 DEF Spawn, Busy
<1>7. CASE ConfigureBegins(t)
  <2>1. at[t].pc \in Busy
    BY <1>7 DEF ConfigureBegins, Busy
  <2> QED
    BY <1>2, <1>6, <1>7, <2>1 DEF ConfigureBegins, Results, Errors
<1>8. CASE ReadLine(t) \/ LogLineEnd(t) \/ ReadEnds(t)
  <2>1. at[t].pc \in Busy
    BY <1>8 DEF ReadLine, LogLineEnd, ReadEnds, Busy
  <2>2. Goto(t, "join") \/ Goto(t, "log") \/ Goto(t, "read")
    BY <1>8 DEF ReadLine, LogLineEnd, ReadEnds
  <2> QED
    BY <1>3, <2>1, <2>2 DEF Busy
<1>9. CASE LogLine(t)
  <2> DEFINE r == [at[t] EXCEPT !.pc = "log end", !.n = @ + 1]
  <2>1. at[t].pc \in Busy
    BY <1>9 DEF LogLine, Busy
  <2>2. r \in Calls
    <3>1. at[t] \in [pc : Busy, s : Sketches, n : Nat, inner : BOOLEAN]
      BY <2>1, Kinds
    <3>2. at[t].n + 1 \in Nat /\ "log end" \in Busy
      <4>1. at[t].n \in Nat
        BY <3>1
      <4> QED
        BY <4>1 DEF Busy
    <3>3. r \in [pc : Busy, s : Sketches, n : Nat, inner : BOOLEAN]
      BY <3>1, <3>2
    <3> QED
      BY <3>3 DEF Calls
  <2>3. at' = [at EXCEPT ![t] = r]
    BY <1>9 DEF LogLine
  <2> QED
    BY <2>2, <2>3 DEF Moves
<1>10. CASE ConfigureEnds(t)
  <2>1. at[t].pc \in Busy
    BY <1>10 DEF ConfigureEnds, Busy
  <2> QED
    BY <1>2, <1>6, <1>10, <2>1 DEF ConfigureEnds, Results, Errors
<1>11. CASE BuildEnds(t)
  <2>1. CASE Return(t, "build_failed")
    BY <1>2, <2>1 DEF Results, Errors
  <2> DEFINE r == [pc |-> "idle", result |-> "ok", inner |-> at[t].inner]
  <2>2. CASE at' = [at EXCEPT ![t] = r]
    <3>1. at[t].pc \in Busy
      BY <1>11 DEF BuildEnds, Busy
    <3>2. r \in Calls
      BY <3>1, Kinds DEF Calls
    <3> QED
      BY <2>2, <3>2 DEF Moves
  <2> QED
    BY <1>11, <2>1, <2>2 DEF BuildEnds
<1>12. CASE ConfigureSucceeds(t)
  <2>1. PICK inner \in BOOLEAN : at' = [at EXCEPT ![t].inner = inner]
    BY <1>12 DEF ConfigureSucceeds
  <2>2. at[t].pc \in Busy
    BY <1>12, Kinds DEF ConfigureSucceeds, Running, WorkInv
  <2>3. [at[t] EXCEPT !.inner = inner] \in Calls
    BY <2>2, Kinds DEF Calls
  <2>4. at' = [at EXCEPT ![t] = [at[t] EXCEPT !.inner = inner]]
    BY <2>1
  <2> QED
    BY <2>3, <2>4 DEF Moves
<1>13. CASE ProcWrites(t) \/ ProcFails(t) \/ BuildSucceeds(t)
  BY <1>4, <1>13 DEF ProcWrites, ProcFails, BuildSucceeds
<1> QED
  BY <1>5, <1>7, <1>8, <1>9, <1>10, <1>11, <1>12, <1>13 DEF Step, Runs, ProcEnds

\* A process is spawned, writes, is read from, ends and is waited for.
LEMMA ProcessStep ==
  ASSUME TypeOK, WorkInv, NEW t \in Threads, Step(t)
  PROVE  proc' \in [Threads -> Processes]
<1>1. proc \in [Threads -> Processes] /\ proc[t] \in Processes
  BY DEF TypeOK
<1> DEFINE Lines == {"text", "other", "binary"}
           Started == [run : {"configure", "build"}, wrote : Nat, ended : BOOLEAN,
                       code : {0, 1}, pipe : Seq(Lines)]
           Moves(r) == r \in Processes /\ proc' = [proc EXCEPT ![t] = r]
<1> SUFFICES \E r : Moves(r)
  BY <1>1
<1>2. CASE UNCHANGED proc
  <2>1. Moves(proc[t])
    BY <1>1, <1>2
  <2> QED
    BY <2>1
<1>3. CASE proc' = [proc EXCEPT ![t] = NoProcess]
  <2>1. Moves(NoProcess)
    BY <1>3 DEF Processes
  <2> QED
    BY <2>1
<1>4. Started \subseteq Processes
  BY DEF Processes
<1>5. ASSUME NEW r \in Started, proc' = [proc EXCEPT ![t] = r] PROVE \E q : Moves(q)
  BY <1>4, <1>5
<1>6. proc[t].run # "none" => proc[t] \in Started
  BY Kinds
<1>7. at[t].pc \in Busy \ {"configure"} => proc[t].run # "none"
  BY Kinds DEF WorkInv
<1> HIDE DEF Moves
<1>8. ASSUME NEW run \in {"configure", "build"}, Spawn(t, run, "read") PROVE \E r : Moves(r)
  <2> DEFINE r == [run |-> run, wrote |-> 0, pipe |-> <<>>, ended |-> FALSE, code |-> 0]
  <2>1. r \in Started
    OBVIOUS
  <2>2. CASE proc' = [proc EXCEPT ![t] = r]
    BY <1>5, <2>1, <2>2
  <2> QED
    BY <1>2, <1>8, <2>2 DEF Spawn
<1>9. CASE ReadLine(t)
  <2>1. proc[t] \in Started /\ proc[t].pipe # <<>>
    BY <1>6, <1>7, <1>9 DEF ReadLine, Busy
  <2>2. proc[t].pipe \in Seq(Lines)
    BY <2>1
  <2> HIDE DEF Lines
  <2>3. Tail(proc[t].pipe) \in Seq(Lines)
    BY <2>1, <2>2
  <2>4. [proc[t] EXCEPT !.pipe = Tail(@)] \in Started
    BY <2>1, <2>3
  <2>5. proc' = [proc EXCEPT ![t] = [proc[t] EXCEPT !.pipe = Tail(@)]]
    BY <1>9 DEF ReadLine
  <2> QED
    BY <1>5, <2>4, <2>5
<1>10. CASE ProcWrites(t)
  <2>1. PICK line \in Lines :
            proc' = [proc EXCEPT ![t].pipe = Append(@, line), ![t].wrote = @ + 1]
    BY <1>10 DEF ProcWrites
  <2>2. proc[t] \in Started
    BY <1>6, <1>10 DEF ProcWrites
  <2>3. proc[t].pipe \in Seq(Lines) /\ proc[t].wrote \in Nat
    BY <2>2
  <2> HIDE DEF Lines
  <2>4. Append(proc[t].pipe, line) \in Seq(Lines) /\ proc[t].wrote + 1 \in Nat
    BY <2>1, <2>3
  <2>5. [proc[t] EXCEPT !.pipe = Append(@, line), !.wrote = @ + 1] \in Started
    BY <2>2, <2>4
  <2>6. proc' = [proc EXCEPT ![t] = [proc[t] EXCEPT !.pipe = Append(@, line),
                                                    !.wrote = @ + 1]]
    BY <2>1
  <2> QED
    BY <1>5, <2>5, <2>6
<1>11. CASE ProcFails(t)
  <2>1. [proc[t] EXCEPT !.ended = TRUE, !.code = 1] \in Started
    BY <1>6, <1>11 DEF ProcFails
  <2>2. proc' = [proc EXCEPT ![t] = [proc[t] EXCEPT !.ended = TRUE, !.code = 1]]
    BY <1>11 DEF ProcFails
  <2> QED
    BY <1>5, <2>1, <2>2
<1>12. CASE ConfigureSucceeds(t)
  <2>1. proc[t] \in Started
    BY <1>6, <1>12 DEF ConfigureSucceeds, Running
  <2>2. proc[t].pipe \in Seq(Lines) /\ "binary" \in Lines
    BY <2>1
  <2> HIDE DEF Lines
  <2>3. Append(proc[t].pipe, "binary") \in Seq(Lines)
    BY <2>2
  <2>4. [proc[t] EXCEPT !.pipe = Append(@, "binary"), !.ended = TRUE] \in Started
    BY <2>1, <2>3
  <2>5. proc' = [proc EXCEPT ![t] = [proc[t] EXCEPT !.pipe = Append(@, "binary"),
                                                    !.ended = TRUE]]
    BY <1>12 DEF ConfigureSucceeds
  <2> QED
    BY <1>5, <2>4, <2>5
<1>13. CASE BuildSucceeds(t)
  <2>1. [proc[t] EXCEPT !.ended = TRUE] \in Started
    BY <1>6, <1>13 DEF BuildSucceeds, Running
  <2>2. proc' = [proc EXCEPT ![t] = [proc[t] EXCEPT !.ended = TRUE]]
    BY <1>13 DEF BuildSucceeds
  <2> QED
    BY <1>5, <2>1, <2>2
<1>14. CASE ConfigureBegins(t) \/ ConfigureEnds(t)
  BY <1>2, <1>3, <1>8, <1>14 DEF ConfigureBegins, ConfigureEnds
<1>15. ASSUME \/ \E s \in Sketches : Compile(t, s)
              \/ LogLine(t) \/ LogLineEnd(t) \/ ReadEnds(t) \/ BuildEnds(t)
       PROVE  \E r : Moves(r)
  BY <1>2, <1>3, <1>15 DEF Compile, LogLine, LogLineEnd, ReadEnds, BuildEnds
<1> QED
  BY <1>9, <1>10, <1>11, <1>12, <1>13, <1>14, <1>15 DEF Step, Runs, ProcEnds

\* Every step keeps the Sketch objects and the directories of their types.
LEMMA SketchStep ==
  ASSUME TypeOK, WorkInv, Next
  PROVE  sketch' \in [Sketches -> Sketched]
<1>1. sketch \in [Sketches -> Sketched]
  BY DEF TypeOK, Sketched
<1>2. \A t \in Threads : at[t].pc # "idle" => at[t].s \in Sketches
  BY Kinds
<1>3. ASSUME NEW s \in Sketches, NEW r \in Sketched, sketch' = [sketch EXCEPT ![s] = r]
      PROVE  sketch' \in [Sketches -> Sketched]
  BY <1>1, <1>3
<1>4. ASSUME NEW s \in Sketches,
             \/ sketch' = [sketch EXCEPT ![s].built = FALSE]
             \/ sketch' = [sketch EXCEPT ![s].built = TRUE]
             \/ sketch' = [sketch EXCEPT ![s].tmpdir = TRUE]
             \/ sketch' = [sketch EXCEPT ![s].alive = FALSE]
      PROVE  sketch' \in [Sketches -> Sketched]
  BY ZenonT(60), <1>1, <1>4 DEF Sketched
<1>5. ASSUME NEW t \in Threads, ReadLine(t) PROVE sketch' \in [Sketches -> Sketched]
  <2>1. at[t].s \in Sketches
    BY <1>2, <1>5 DEF ReadLine
  <2>2. Head(proc[t].pipe) \in {"text", "other", "binary"}
    <3>1. proc[t].pipe \in Seq({"text", "other", "binary"}) /\ proc[t].pipe # <<>>
      BY <1>5, Kinds DEF ReadLine, WorkInv, Busy
    <3> QED
      BY <3>1
  <2>3. CASE TakesPath(t)
    <3>1. Head(proc[t].pipe) \in {"other", "binary"}
      BY <2>2, <2>3 DEF TakesPath
    <3>2. sketch' = [sketch EXCEPT ![at[t].s].executable = Head(proc[t].pipe)]
      BY <1>5, <2>3 DEF ReadLine
    <3> QED
      BY <1>1, <2>1, <3>1, <3>2 DEF Sketched
  <2> QED
    BY <1>1, <1>5, <2>3 DEF ReadLine
<1>6. ASSUME NEW s \in Sketches, CopySketch(s) PROVE sketch' \in [Sketches -> Sketched]
  <2>1. sketch[Copied[s]] \in Sketched
    BY <1>1, <1>6, ToolchainAssumption DEF CopySketch
  <2> QED
    BY <1>1, <1>6, <2>1 DEF CopySketch
<1>7. ASSUME NEW t \in Threads, ConfigureBegins(t) PROVE sketch' \in [Sketches -> Sketched]
  BY <1>2, <1>4, <1>7 DEF ConfigureBegins
<1>8. ASSUME NEW t \in Threads, BuildEnds(t) PROVE sketch' \in [Sketches -> Sketched]
  BY <1>1, <1>2, <1>4, <1>8 DEF BuildEnds
<1>9. ASSUME NEW t \in Threads, NEW s \in Sketches, Compile(t, s)
      PROVE  sketch' \in [Sketches -> Sketched]
  BY <1>4, <1>9 DEF Compile
<1>10. ASSUME NEW s \in Sketches, DestroySketch(s) PROVE sketch' \in [Sketches -> Sketched]
  BY <1>4, <1>10 DEF DestroySketch
<1> QED
  BY <1>1, <1>5, <1>6, <1>7, <1>8, <1>9, <1>10
     DEF Next, Runs, Check, UserInstalls, UserMovesSource, TakeLog, ReleaseLog, LogLine,
         LogLineEnd, ReadEnds, ConfigureEnds, ProcWrites, ProcEnds, ProcFails,
         ConfigureSucceeds, BuildSucceeds, Others

\* Whatever a step does to a directory of a sketch, it stays one.
LEMMA DiskStep ==
  ASSUME TypeOK, WorkInv, Next
  PROVE  disk' \in [Uuids -> Directories]
<1>1. disk \in [Uuids -> Directories]
  BY DEF TypeOK, Directories
<1>2. \A t \in Threads : at[t].pc # "idle" => Uuid(at[t].s) \in Uuids
  BY Kinds, UuidType
<1>3. ASSUME UserMovesSource PROVE disk' \in [Uuids -> Directories]
  <2>1. PICK d \in Movable : disk' = [disk EXCEPT ![d].source = ~@]
    BY <1>3 DEF UserMovesSource
  <2>2. CASE d \in Uuids
    BY <1>1, <2>1, <2>2 DEF Directories
  <2>3. CASE d \notin Uuids
    BY <1>1, <2>1, <2>3
  <2> QED
    BY <2>2, <2>3
<1>4. ASSUME NEW t \in Threads, ConfigureBegins(t) PROVE disk' \in [Uuids -> Directories]
  <2>1. UNCHANGED disk \/ disk' = [disk EXCEPT ![Uuid(at[t].s)].dir = TRUE]
    BY <1>4 DEF ConfigureBegins
  <2> QED
    BY <1>1, <2>1 DEF Directories
<1>5. ASSUME NEW t \in Threads, ConfigureSucceeds(t) PROVE disk' \in [Uuids -> Directories]
  <2> DEFINE d == Uuid(at[t].s)
  <2>1. d \in Uuids
    BY <1>2, <1>5, Kinds DEF ConfigureSucceeds, Running, WorkInv
  <2>2. PICK inner \in BOOLEAN : disk' = [disk EXCEPT ![d].configured = @ \/ inner]
    BY <1>5 DEF ConfigureSucceeds
  <2>3. disk[d].configured \in BOOLEAN
    BY <1>1, <2>1 DEF Directories
  <2>4. (disk[d].configured \/ inner) \in BOOLEAN
    BY <2>3
  <2> QED
    BY <1>1, <2>1, <2>2, <2>4 DEF Directories
<1>6. ASSUME NEW t \in Threads, BuildSucceeds(t) PROVE disk' \in [Uuids -> Directories]
  <2> DEFINE d == Uuid(at[t].s)
  <2>1. d \in Uuids
    BY <1>2, <1>6, Kinds DEF BuildSucceeds, Running, WorkInv
  <2>2. PICK b \in BOOLEAN : disk' = [disk EXCEPT ![d].binary = @ \/ b]
    BY <1>6 DEF BuildSucceeds
  <2>3. disk[d].binary \in BOOLEAN
    BY <1>1, <2>1 DEF Directories
  <2>4. (disk[d].binary \/ b) \in BOOLEAN
    BY <2>3
  <2> QED
    BY <1>1, <2>1, <2>2, <2>4 DEF Directories
<1>7. ASSUME NEW s \in Sketches, DestroySketch(s) PROVE disk' \in [Uuids -> Directories]
  <2> DEFINE d == Uuid(s)
  <2>1. disk[d] \in Directories
    BY <1>1, UuidType
  <2>2. [disk[d] EXCEPT !.dir = FALSE, !.configured = FALSE, !.binary = FALSE,
                        !.removed = TRUE] \in Directories
    BY <2>1 DEF Directories
  <2> QED
    BY <1>1, <1>7, <2>2 DEF DestroySketch
<1> QED
  BY <1>1, <1>3, <1>4, <1>5, <1>6, <1>7
     DEF Next, Runs, Check, UserInstalls, TakeLog, ReleaseLog, CopySketch, Compile,
         ReadLine, LogLine, LogLineEnd, ReadEnds, ConfigureEnds, BuildEnds, ProcWrites,
         ProcEnds, ProcFails, Others

\* Only check_suitable_environment() looks for CMake.
LEMMA CheckedKept == Next => Check \/ UNCHANGED <<cmakePath, checked>>
<1> SUFFICES ASSUME Next, ~Check PROVE UNCHANGED <<cmakePath, checked>>
  OBVIOUS
<1>1. ASSUME NEW t \in Threads, Runs(t) PROVE UNCHANGED <<cmakePath, checked>>
  BY <1>1 DEF Runs, ConfigureBegins, ReadLine, LogLine, LogLineEnd, ReadEnds,
              ConfigureEnds, BuildEnds
<1>2. ASSUME NEW t \in Threads, ProcWrites(t) \/ ProcEnds(t)
      PROVE  UNCHANGED <<cmakePath, checked>>
  BY <1>2 DEF ProcWrites, ProcEnds, ProcFails, ConfigureSucceeds, BuildSucceeds, Others
<1> QED
  BY <1>1, <1>2 DEF Next, UserInstalls, UserMovesSource, TakeLog, ReleaseLog, CopySketch,
                    DestroySketch, Compile

\* Every step keeps the types.
LEMMA TypeStep == TypeOK /\ WorkInv /\ [Next]_vars => TypeOK'
<1> SUFFICES ASSUME TypeOK, WorkInv, Next PROVE TypeOK'
  BY DEF TypeOK, vars
<1>1. /\ resdir' \in ResDirs /\ installed' \subseteq {"path", "bundled"}
      /\ host' \in {"up", "terminated"}
  <2>1. ASSUME UserInstalls PROVE installed' \subseteq {"path", "bundled"}
    BY <2>1, ToolchainAssumption DEF UserInstalls, TypeOK
  <2> QED
    BY ZenonT(60), <2>1
       DEF TypeOK, Next, Runs, Check, UserInstalls, UserMovesSource, TakeLog, ReleaseLog,
           CopySketch, DestroySketch, Compile, ConfigureBegins, Spawn, ReadLine, LogLine,
           LogLineEnd, ReadEnds, ConfigureEnds, BuildEnds, ProcWrites, ProcEnds,
           ProcFails, ConfigureSucceeds, BuildSucceeds, Others
<1>2. /\ cmakePath' \in {"cmake", "", "path", "bundled"}
      /\ checked' \in [result : Results, there : SUBSET {"path", "bundled"}]
  <2>1. CASE Check
    <3>1. ASSUME NEW r \in Results, Says(r)
          PROVE  checked' \in [result : Results, there : SUBSET {"path", "bundled"}]
      BY <3>1 DEF Says, TypeOK
    <3>2. ResourceError \in Results
      BY DEF ResourceError, Results, Errors
    <3>3. Versions \subseteq Results
      BY ToolchainAssumption DEF Results, Errors
    <3>4. {"cmake_not_found", "system"} \subseteq Results
      BY DEF Results, Errors
    <3>5. FindCMake \in {"", "path", "bundled"}
      BY DEF FindCMake
    <3>6. cmakePath' \in {"cmake", "", "path", "bundled"}
      BY <2>1, <3>5 DEF Check, TypeOK
    <3>7. \E r \in Results : Says(r)
      BY <2>1, <3>2, <3>3, <3>4 DEF Check
    <3> QED
      BY <3>1, <3>6, <3>7
  <2>2. CASE ~Check
    BY <2>2, CheckedKept DEF TypeOK
  <2> QED
    BY <2>1, <2>2
<1>3. /\ log' \in Seq({EndOfLine} \cup (Threads \X Nat))
      /\ logOwner' \in Threads \cup {NoThread, "frontend"}
  <2> DEFINE Entries == {EndOfLine} \cup (Threads \X Nat)
  <2>0. EndOfLine \in Entries /\ log \in Seq(Entries)
    BY DEF TypeOK
  <2>1. ASSUME NEW t \in Threads, LogLine(t) PROVE log' \in Seq(Entries)
    <3>1. at[t].n + 1 \in Nat
      <4>1. at[t].pc \in Busy
        BY <2>1 DEF LogLine, Busy
      <4> QED
        BY <4>1, Kinds
    <3>2. <<t, at[t].n + 1>> \in Entries
      BY <3>1
    <3>3. log' = Append(log, <<t, at[t].n + 1>>)
      BY <2>1 DEF LogLine
    <3> HIDE DEF Entries
    <3> QED
      BY <2>0, <3>2, <3>3, AppendType, Zenon
  <2>2. ASSUME NEW t \in Threads, LogLineEnd(t) PROVE log' \in Seq(Entries)
    <3>1. log' = Append(log, EndOfLine)
      BY <2>2 DEF LogLineEnd
    <3> HIDE DEF Entries
    <3> QED
      BY <2>0, <3>1, AppendType, Zenon
  <2> QED
    BY ZenonT(60), <2>1, <2>2
       DEF TypeOK, Next, Runs, Check, UserInstalls, UserMovesSource, TakeLog, ReleaseLog,
           CopySketch, DestroySketch, Compile, ConfigureBegins, Spawn, ReadLine, LogLine,
           LogLineEnd, ReadEnds, ConfigureEnds, BuildEnds, ProcWrites, ProcEnds,
           ProcFails, ConfigureSucceeds, BuildSucceeds, Others
<1>4. at' \in [Threads -> Calls] /\ proc' \in [Threads -> Processes]
  <2>1. CASE Outer
    BY <2>1 DEF Outer, Check, UserInstalls, UserMovesSource, TakeLog, ReleaseLog,
                CopySketch, DestroySketch, TypeOK
  <2> QED
    BY <2>1, NextIsStep, CallStep, ProcessStep
<1> QED
  BY <1>1, <1>2, <1>3, <1>4, SketchStep, DiskStep DEF TypeOK, Sketched, Directories

\* Where a call is after it goes on, or returns.
LEMMA GoesOn ==
  ASSUME TypeOK, NEW t \in Threads, at[t].pc \in Busy, NEW pc \in Busy, Goto(t, pc)
  PROVE  at'[t].pc = pc /\ at'[t].s = at[t].s
<1>1. at[t] \in [pc : Busy, s : Sketches, n : Nat, inner : BOOLEAN]
  BY Kinds
<1>2. at'[t] = [at[t] EXCEPT !.pc = pc]
  BY DEF Goto, TypeOK
<1> QED
  BY <1>1, <1>2

\* A thread that returns is idle.
LEMMA Returned ==
  ASSUME TypeOK, NEW t \in Threads, NEW e \in Results, Return(t, e)
  PROVE  at'[t].pc = "idle"
BY DEF Return, Idle, TypeOK

\* A thread that appends a line goes on to append its end.
LEMMA Logs ==
  ASSUME TypeOK, NEW t \in Threads, LogLine(t)
  PROVE  at'[t].pc = "log end" /\ at'[t].s = at[t].s
<1>1. at[t] \in [pc : Busy, s : Sketches, n : Nat, inner : BOOLEAN]
  BY Kinds DEF LogLine, Busy
<1>2. at'[t] = [at[t] EXCEPT !.pc = "log end", !.n = @ + 1]
  BY DEF LogLine, TypeOK
<1> QED
  BY <1>1, <1>2

\* What a process that runs does: it writes a line if there is room, or ends.
LEMMA Writes ==
  ASSUME TypeOK, NEW t \in Threads, ProcWrites(t) \/ ProcEnds(t), proc[t] # NoProcess
  PROVE  /\ proc'[t].run = proc[t].run
         /\ \/ proc'[t].pipe = proc[t].pipe
            \/ CanWrite(t) /\ \E line : proc'[t].pipe = Append(proc[t].pipe, line)
<1>1. /\ proc \in [Threads -> Processes]
      /\ proc[t] \in [run : {"configure", "build"}, wrote : Nat, ended : BOOLEAN,
                      code : {0, 1}, pipe : Seq({"text", "other", "binary"})]
  BY Kinds DEF TypeOK
<1>2. CASE ProcWrites(t)
  <2>1. PICK line :
            /\ CanWrite(t)
            /\ proc' = [proc EXCEPT ![t].pipe = Append(@, line), ![t].wrote = @ + 1]
    BY <1>2 DEF ProcWrites
  <2>2. proc'[t] = [proc[t] EXCEPT !.pipe = Append(@, line), !.wrote = @ + 1]
    BY <1>1, <2>1
  <2>3. proc'[t].run = proc[t].run /\ proc'[t].pipe = Append(proc[t].pipe, line)
    BY <1>1, <2>2
  <2> QED
    BY <2>1, <2>3
<1>3. CASE ConfigureSucceeds(t)
  <2>1. /\ CanWrite(t)
        /\ proc'[t] = [proc[t] EXCEPT !.pipe = Append(@, "binary"), !.ended = TRUE]
    BY <1>1, <1>3 DEF ConfigureSucceeds
  <2>2. proc'[t].run = proc[t].run /\ proc'[t].pipe = Append(proc[t].pipe, "binary")
    BY <1>1, <2>1
  <2> QED
    BY <2>1, <2>2
<1>4. CASE ProcFails(t) \/ BuildSucceeds(t)
  <2>1. \/ proc'[t] = [proc[t] EXCEPT !.ended = TRUE, !.code = 1]
        \/ proc'[t] = [proc[t] EXCEPT !.ended = TRUE]
    BY <1>1, <1>4 DEF ProcFails, BuildSucceeds
  <2> QED
    BY <1>1, <2>1
<1> QED
  BY <1>2, <1>3, <1>4 DEF ProcEnds

\* A call keeps its sketch while it lasts, and begins only with compile().
LEMMA SameSketch ==
  ASSUME TypeOK, WorkInv, NEW t \in Threads, Step(t)
  PROVE  \/ \E s \in Sketches : Compile(t, s)
         \/ at'[t].pc # "idle" => at[t].pc # "idle" /\ at'[t].s = at[t].s
<1> DEFINE Same == at'[t].pc # "idle" => at[t].pc # "idle" /\ at'[t].s = at[t].s
<1>1. at \in [Threads -> Calls]
  BY DEF TypeOK
<1>2. ASSUME NEW e \in Results, Return(t, e) PROVE Same
  BY <1>2, Returned
<1>3. ASSUME NEW pc \in Busy, at[t].pc \in Busy, Goto(t, pc) PROVE Same
  BY <1>3, GoesOn DEF Busy
<1>4. ASSUME UNCHANGED at PROVE Same
  BY <1>4
<1> SUFFICES (\E s \in Sketches : Compile(t, s)) \/ Same
  OBVIOUS
<1> HIDE DEF Same
<1>5. ASSUME NEW run \in {"configure", "build"}, Spawn(t, run, "read"), at[t].pc \in Busy
      PROVE  Same
  BY <1>3, <1>4, <1>5 DEF Spawn, Busy
<1>6. CASE ConfigureBegins(t) \/ ConfigureEnds(t)
  <2>1. at[t].pc \in Busy
    BY <1>6 DEF ConfigureBegins, ConfigureEnds, Busy
  <2> QED
    BY <1>2, <1>5, <1>6, <2>1 DEF ConfigureBegins, ConfigureEnds, Results, Errors
<1>7. CASE ReadLine(t) \/ LogLineEnd(t) \/ ReadEnds(t)
  <2>1. at[t].pc \in Busy
    BY <1>7 DEF ReadLine, LogLineEnd, ReadEnds, Busy
  <2>2. Goto(t, "join") \/ Goto(t, "log") \/ Goto(t, "read")
    BY <1>7 DEF ReadLine, LogLineEnd, ReadEnds
  <2> QED
    BY <1>3, <2>1, <2>2 DEF Busy
<1>8. CASE LogLine(t)
  <2>1. at[t].pc # "idle"
    BY <1>8 DEF LogLine
  <2> QED
    BY <1>8, <2>1, Logs DEF Same
<1>9. CASE BuildEnds(t)
  <2>1. at'[t].pc = "idle"
    BY <1>1, <1>9, Returned DEF BuildEnds, Results, Errors
  <2> QED
    BY <2>1 DEF Same
<1>10. CASE ConfigureSucceeds(t)
  <2>1. at[t].pc # "idle"
    BY <1>10, Kinds DEF ConfigureSucceeds, Running, WorkInv, Busy
  <2> QED
    BY <1>1, <1>10, <2>1 DEF ConfigureSucceeds, Same
<1>11. CASE ProcWrites(t) \/ ProcFails(t) \/ BuildSucceeds(t)
  BY <1>4, <1>11 DEF ProcWrites, ProcFails, BuildSucceeds
<1> QED
  BY <1>6, <1>7, <1>8, <1>9, <1>10, <1>11 DEF Step, Runs, ProcEnds, Same

\* The thread that steps has a process exactly from the spawn to the end of the
\* build, and what the process writes fits its pipe.
LEMMA OwnProcess ==
  ASSUME TypeOK, WorkInv, NEW t \in Threads, Step(t)
  PROVE  /\ at'[t].pc \in Busy \ {"configure"} <=> proc'[t] # NoProcess
         /\ proc'[t] # NoProcess => Len(proc'[t].pipe) <= PipeCap
<1> DEFINE Has == at'[t].pc \in Busy \ {"configure"} <=> proc'[t] # NoProcess
           Fits == proc'[t] # NoProcess => Len(proc'[t].pipe) <= PipeCap
<1>1. /\ at \in [Threads -> Calls] /\ proc \in [Threads -> Processes]
      /\ PipeCap \in Nat \ {0}
  BY ToolchainAssumption DEF TypeOK
<1>2. /\ at[t].pc \in Busy \ {"configure"} <=> proc[t] # NoProcess
      /\ proc[t] # NoProcess => Len(proc[t].pipe) <= PipeCap
  BY DEF WorkInv
<1>3. /\ proc[t] # NoProcess <=> proc[t].run # "none"
      /\ proc[t] # NoProcess => proc[t].pipe \in Seq({"text", "other", "binary"})
  BY Kinds
<1>4. \A r : r.run # "none" => r # NoProcess
  BY DEF NoProcess
<1>5. ASSUME UNCHANGED <<at, proc>> PROVE Has /\ Fits
  BY <1>2, <1>5
<1>6. ASSUME NEW e \in Results, Return(t, e), UNCHANGED proc, at[t].pc \in {"idle", "configure"}
      PROVE  Has /\ Fits
  <2>1. at'[t].pc = "idle" /\ proc'[t] = proc[t]
    BY <1>1, <1>6 DEF Return, Idle
  <2> QED
    BY <1>2, <1>6, <2>1 DEF Busy
<1>7. ASSUME at'[t].pc = "idle", proc' = [proc EXCEPT ![t] = NoProcess] PROVE Has /\ Fits
  BY <1>1, <1>7 DEF Busy
<1>8. ASSUME NEW pc \in Busy \ {"configure"}, at'[t].pc = pc, UNCHANGED proc,
             at[t].pc \in Busy \ {"configure"}
      PROVE  Has /\ Fits
  BY <1>2, <1>8
<1>9. ASSUME NEW pc \in Busy, at[t].pc \in Busy, Goto(t, pc) PROVE at'[t].pc = pc
  BY <1>9, GoesOn
<1> SUFFICES Has /\ Fits
  OBVIOUS
<1> HIDE DEF Has, Fits
<1>10. ASSUME NEW run \in {"configure", "build"}, Spawn(t, run, "read"), at[t].pc \in Busy
       PROVE  Has /\ Fits
  <2>1. CASE cmakePath \in installed
    <3>1. /\ at'[t].pc = "read"
          /\ proc'[t] = [run |-> run, wrote |-> 0, pipe |-> <<>>, ended |-> FALSE, code |-> 0]
      BY <1>1, <1>9, <1>10, <2>1 DEF Spawn, Busy
    <3>2. proc'[t] # NoProcess /\ Len(proc'[t].pipe) = 0
      BY <1>4, <3>1
    <3> QED
      BY <1>1, <3>1, <3>2 DEF Has, Fits, Busy
  <2> QED
    BY <1>5, <1>10, <2>1 DEF Spawn
<1>11. ASSUME NEW s \in Sketches, Compile(t, s) PROVE Has /\ Fits
  <2>1. at'[t].pc \in {"idle", "configure"} /\ proc'[t] = proc[t]
    BY <1>1, <1>11 DEF Compile, Return, Idle
  <2>2. proc[t] = NoProcess
    BY <1>2, <1>11 DEF Compile, Busy
  <2> QED
    BY <2>1, <2>2 DEF Has, Fits, Busy
<1>12. CASE ConfigureBegins(t)
  <2>1. at[t].pc = "configure" /\ at[t].pc \in Busy
    BY <1>12 DEF ConfigureBegins, Busy
  <2> QED
    BY <1>6, <1>10, <1>12, <2>1 DEF ConfigureBegins, Results, Errors
<1>13. CASE ReadLine(t)
  <2>1. at[t].pc \in Busy \ {"configure"} /\ proc[t].pipe # <<>>
    BY <1>13 DEF ReadLine, Busy
  <2>2. at'[t].pc \in Busy \ {"configure"}
    <3>1. Goto(t, "join") \/ Goto(t, "log")
      BY <1>13 DEF ReadLine
    <3> QED
      BY <1>9, <2>1, <3>1 DEF Busy
  <2>3. proc'[t] = [proc[t] EXCEPT !.pipe = Tail(@)]
    BY <1>1, <1>13 DEF ReadLine
  <2>4. proc[t] # NoProcess
    BY <1>2, <2>1
  <2>5. proc'[t].run # "none" /\ proc'[t].pipe = Tail(proc[t].pipe)
    BY <1>3, <2>3, <2>4, Kinds
  <2>6. Len(proc'[t].pipe) <= PipeCap
    BY <1>1, <1>2, <1>3, <2>1, <2>4, <2>5
  <2> QED
    BY <1>4, <2>2, <2>5, <2>6 DEF Has, Fits
<1>14. CASE LogLine(t) \/ LogLineEnd(t) \/ ReadEnds(t)
  <2>1. at[t].pc \in Busy \ {"configure"} /\ UNCHANGED proc
    BY <1>14 DEF LogLine, LogLineEnd, ReadEnds, Busy
  <2>2. CASE LogLine(t)
    <3>1. at'[t].pc = "log end"
      BY <2>2, Logs
    <3>2. "log end" \in Busy \ {"configure"}
      BY DEF Busy
    <3> QED
      BY <1>8, <2>1, <3>1, <3>2
  <2>3. CASE LogLineEnd(t) \/ ReadEnds(t)
    <3>1. at'[t].pc \in {"read", "join"}
      BY <1>9, <2>1, <2>3 DEF LogLineEnd, ReadEnds, Busy
    <3>2. {"read", "join"} \subseteq Busy \ {"configure"}
      BY DEF Busy
    <3> QED
      BY <1>8, <2>1, <3>1, <3>2
  <2> QED
    BY <1>14, <2>2, <2>3
<1>15. CASE ConfigureEnds(t)
  <2>1. at[t].pc \in Busy
    BY <1>15 DEF ConfigureEnds, Busy
  <2>2. \/ Spawn(t, "build", "read")
        \/ Return(t, "configure_failed") /\ proc' = [proc EXCEPT ![t] = NoProcess]
    BY <1>15 DEF ConfigureEnds
  <2>3. CASE Return(t, "configure_failed") /\ proc' = [proc EXCEPT ![t] = NoProcess]
    <3>1. at'[t].pc = "idle"
      BY <2>3, Returned DEF Results, Errors
    <3> QED
      BY <1>7, <2>3, <3>1
  <2> QED
    BY <1>10, <2>1, <2>2, <2>3
<1>16. CASE BuildEnds(t)
  <2>1. at'[t].pc = "idle"
    BY <1>1, <1>16, Returned DEF BuildEnds, Results, Errors
  <2>2. proc' = [proc EXCEPT ![t] = NoProcess]
    BY <1>16 DEF BuildEnds
  <2> QED
    BY <1>7, <2>1, <2>2
<1>17. CASE ProcWrites(t) \/ ProcEnds(t)
  <2>1. proc[t].run # "none" /\ proc[t] # NoProcess
    BY <1>3, <1>17
       DEF ProcWrites, ProcEnds, ProcFails, ConfigureSucceeds, BuildSucceeds, Running
  <2>2. at'[t].pc = at[t].pc
    <3>1. at[t] \in [pc : Busy, s : Sketches, n : Nat, inner : BOOLEAN]
      BY <1>2, <2>1, Kinds
    <3> QED
      BY <1>1, <1>17, <3>1
         DEF ProcWrites, ProcEnds, ProcFails, ConfigureSucceeds, BuildSucceeds
  <2>3. /\ proc'[t].run = proc[t].run
        /\ \/ proc'[t].pipe = proc[t].pipe
           \/ CanWrite(t) /\ \E line : proc'[t].pipe = Append(proc[t].pipe, line)
    BY <1>17, <2>1, Writes
  <2>4. Len(proc'[t].pipe) <= PipeCap
    BY <1>1, <1>2, <1>3, <2>1, <2>3 DEF CanWrite
  <2> QED
    BY <1>2, <1>4, <2>1, <2>2, <2>3, <2>4 DEF Has, Fits
<1> QED
  BY <1>11, <1>12, <1>13, <1>14, <1>15, <1>16, <1>17 DEF Step, Runs, Has, Fits

\* Threads keep to their processes and to their directories.
LEMMA WorkStep == TypeOK /\ WorkInv /\ [Next]_vars => WorkInv'
<1> SUFFICES ASSUME TypeOK, WorkInv, Next PROVE WorkInv'
  BY DEF WorkInv, vars
<1>1. CASE Outer
  <2>1. UNCHANGED <<at, proc>>
    BY <1>1 DEF Outer, Check, UserInstalls, UserMovesSource, TakeLog, ReleaseLog,
                CopySketch, DestroySketch
  <2> QED
    BY <2>1 DEF WorkInv
<1>2. ASSUME NEW t \in Threads, Step(t) PROVE WorkInv'
  <2>1. \A u \in Threads \ {t} : at'[u] = at[u] /\ proc'[u] = proc[u]
    BY <1>2, OthersKept
  <2>2. \A u \in Threads : /\ at'[u].pc \in Busy \ {"configure"} <=> proc'[u] # NoProcess
                           /\ proc'[u] # NoProcess => Len(proc'[u].pipe) <= PipeCap
    BY <1>2, <2>1, OwnProcess DEF WorkInv
  <2>3. \A u \in Threads \ {t} :
           at'[t].pc # "idle" /\ at'[u].pc # "idle" => Uuid(at'[t].s) # Uuid(at'[u].s)
    <3>1. ASSUME NEW s \in Sketches, Compile(t, s)
          PROVE  at'[t].pc # "idle" => at'[t].s = s /\ ~Working(s)
      <4>1. ~Working(s)
        BY <3>1 DEF Compile
      <4>2. \/ at'[t] = Idle("sketch_invalid")
            \/ at'[t] = [pc |-> "configure", s |-> s, n |-> 0, inner |-> FALSE]
        BY <3>1 DEF Compile, Return, TypeOK
      <4> QED
        BY <4>1, <4>2 DEF Idle
    <3> QED
      BY <1>2, <2>1, <3>1, SameSketch DEF WorkInv, Working
  <2> QED
    BY <2>1, <2>2, <2>3 DEF WorkInv
<1> QED
  BY <1>1, <1>2, NextIsStep

\* What can become of a Sketch object in a step.
LEMMA SketchMoves ==
  ASSUME TypeOK, WorkInv, Next, NEW s \in Sketches
  PROVE  \/ CopySketch(s)
         \/ \E t \in Threads : BuildEnds(t) /\ Built(t) /\ s = at[t].s
         \/ ~sketch'[s].built
         \/ /\ sketch'[s].built = sketch[s].built /\ (sketch'[s].alive => sketch[s].alive)
            /\ \/ sketch'[s].executable = sketch[s].executable
               \/ \E t \in Threads : at[t].pc # "idle" /\ s = at[t].s
<1> DEFINE Kept == /\ sketch'[s].built = sketch[s].built
                   /\ sketch'[s].alive => sketch[s].alive
                   /\ \/ sketch'[s].executable = sketch[s].executable
                      \/ \E t \in Threads : at[t].pc # "idle" /\ s = at[t].s
           Goal == \/ CopySketch(s)
                   \/ \E t \in Threads : BuildEnds(t) /\ Built(t) /\ s = at[t].s
                   \/ ~sketch'[s].built \/ Kept
<1> SUFFICES Goal
  OBVIOUS
<1>1. sketch \in [Sketches -> Sketched] /\ sketch[s] \in Sketched
  BY DEF TypeOK, Sketched
<1>2. ASSUME UNCHANGED sketch PROVE Goal
  BY <1>2
<1>3. ASSUME NEW t \in Threads, NEW r \in Sketches, Compile(t, r) PROVE Goal
  <2>1. sketch' = [sketch EXCEPT ![r].built = FALSE]
    BY <1>3 DEF Compile
  <2>2. sketch'[s].built = FALSE \/ sketch'[s] = sketch[s]
    BY <1>1, <2>1 DEF Sketched
  <2> QED
    BY <2>2
<1>4. ASSUME NEW t \in Threads, ConfigureBegins(t) PROVE Goal
  <2>1. sketch' = [sketch EXCEPT ![at[t].s].tmpdir = TRUE]
    BY <1>4 DEF ConfigureBegins
  <2>2. /\ sketch'[s].built = sketch[s].built /\ sketch'[s].alive = sketch[s].alive
        /\ sketch'[s].executable = sketch[s].executable
    BY <1>1, <2>1 DEF Sketched
  <2> QED
    BY <2>2
<1>5. ASSUME NEW t \in Threads, ReadLine(t) PROVE Goal
  <2>1. at[t].pc # "idle"
    BY <1>5 DEF ReadLine
  <2>2. CASE UNCHANGED sketch
    BY <1>2, <2>2
  <2>3. CASE sketch' = [sketch EXCEPT ![at[t].s].executable = Head(proc[t].pipe)]
    <3>1. sketch'[s].built = sketch[s].built /\ sketch'[s].alive = sketch[s].alive
      BY <1>1, <2>3 DEF Sketched
    <3>2. s # at[t].s => sketch'[s].executable = sketch[s].executable
      BY <1>1, <2>3 DEF Sketched
    <3> QED
      BY <2>1, <3>1, <3>2
  <2> QED
    BY <1>5, <2>2, <2>3 DEF ReadLine
<1>6. ASSUME NEW t \in Threads, BuildEnds(t) PROVE Goal
  <2>1. CASE Built(t) /\ s = at[t].s
    BY <1>6, <2>1
  <2>2. CASE Built(t) /\ s # at[t].s
    <3>1. sketch' = [sketch EXCEPT ![at[t].s].built = TRUE]
      BY <1>6, <2>2 DEF BuildEnds
    <3>2. sketch'[s] = sketch[s]
      BY <1>1, <2>2, <3>1
    <3> QED
      BY <3>2
  <2>3. CASE ~Built(t)
    BY <1>2, <1>6, <2>3 DEF BuildEnds
  <2> QED
    BY <2>1, <2>2, <2>3
<1>7. ASSUME NEW r \in Sketches, CopySketch(r), r # s PROVE Goal
  <2>1. sketch'[s] = sketch[s]
    BY <1>1, <1>7 DEF CopySketch
  <2> QED
    BY <2>1
<1>8. ASSUME NEW r \in Sketches, DestroySketch(r) PROVE Goal
  <2>1. sketch' = [sketch EXCEPT ![r].alive = FALSE]
    BY <1>8 DEF DestroySketch
  <2>2. /\ sketch'[s].built = sketch[s].built /\ sketch'[s].executable = sketch[s].executable
        /\ sketch'[s].alive => sketch[s].alive
    BY <1>1, <2>1 DEF Sketched
  <2> QED
    BY <2>2
<1>9. ASSUME \/ Check \/ UserInstalls \/ UserMovesSource \/ TakeLog \/ ReleaseLog
             \/ \E t \in Threads : \/ LogLine(t) \/ LogLineEnd(t) \/ ReadEnds(t)
                                   \/ ConfigureEnds(t) \/ ProcWrites(t) \/ ProcEnds(t)
      PROVE  Goal
  <2>1. UNCHANGED sketch
    BY <1>9
       DEF Check, UserInstalls, UserMovesSource, TakeLog, ReleaseLog, LogLine, LogLineEnd,
           ReadEnds, ConfigureEnds, ProcWrites, ProcEnds, ProcFails, ConfigureSucceeds,
           BuildSucceeds, Others
  <2> QED
    BY <1>2, <2>1
<1>10. ASSUME CopySketch(s) PROVE Goal
  BY <1>10
<1> HIDE DEF Goal
<1> QED
  BY <1>3, <1>4, <1>5, <1>6, <1>7, <1>8, <1>9, <1>10 DEF Next, Runs

\* The thread that ends a build with success was in the call, and is no longer.
LEMMA Finishes ==
  ASSUME TypeOK, NEW t \in Threads, BuildEnds(t), Built(t)
  PROVE  at[t].pc # "idle" /\ at'[t].pc = "idle"
<1>1. at' = [at EXCEPT ![t] = [pc |-> "idle", result |-> "ok", inner |-> at[t].inner]]
  BY DEF BuildEnds
<1>2. at[t].pc = "join" /\ at \in [Threads -> Calls]
  BY DEF BuildEnds, TypeOK
<1> QED
  BY <1>1, <1>2

\* No sketch says it is compiled while it is being compiled.
LEMMA IdleStep == TypeOK /\ WorkInv /\ IdleWhenBuilt /\ [Next]_vars => IdleWhenBuilt'
<1> SUFFICES ASSUME TypeOK, WorkInv, IdleWhenBuilt, Next PROVE IdleWhenBuilt'
  BY DEF IdleWhenBuilt, vars
<1> SUFFICES ASSUME NEW u \in Threads, at'[u].pc # "idle" PROVE ~sketch'[at'[u].s].built
  BY DEF IdleWhenBuilt
<1>1. CASE \E t \in Threads : \E s \in Sketches : Compile(t, s) /\ t = u
  <2>1. PICK s \in Sketches : Compile(u, s)
    BY <1>1
  <2>2. at'[u].s = s
    <3>1. \/ at'[u] = Idle("sketch_invalid")
          \/ at'[u] = [pc |-> "configure", s |-> s, n |-> 0, inner |-> FALSE]
      BY <2>1 DEF Compile, Return, TypeOK
    <3> QED
      BY <3>1 DEF Idle
  <2>3. sketch' = [sketch EXCEPT ![s].built = FALSE]
    BY <2>1 DEF Compile
  <2>4. sketch'[s].built = FALSE
    BY ZenonT(60), <2>3 DEF TypeOK
  <2> QED
    BY <2>2, <2>4
<1>2. CASE ~\E t \in Threads : \E s \in Sketches : Compile(t, s) /\ t = u
  <2>1. at[u].pc # "idle" /\ at'[u].s = at[u].s
    <3>1. CASE Step(u)
      BY <1>2, <3>1, SameSketch
    <3>2. ASSUME NEW t \in Threads \ {u}, Step(t)
          PROVE  at[u].pc # "idle" /\ at'[u].s = at[u].s
      BY <3>2, OthersKept
    <3>3. CASE Outer
      BY <3>3 DEF Outer, Check, UserInstalls, UserMovesSource, TakeLog, ReleaseLog,
                  CopySketch, DestroySketch
    <3> QED
      BY <3>1, <3>2, <3>3, NextIsStep
  <2>2. at[u].s \in Sketches /\ ~sketch[at[u].s].built
    BY <2>1, Kinds DEF IdleWhenBuilt
  <2> DEFINE s == at[u].s
  <2>3. ~CopySketch(s)
    BY <2>1 DEF CopySketch, Working
  <2>4. ~\E t \in Threads : BuildEnds(t) /\ Built(t) /\ s = at[t].s
    BY <2>1, Finishes DEF WorkInv
  <2> QED
    BY <2>1, <2>2, <2>3, <2>4, SketchMoves
<1> QED
  BY <1>1, <1>2

\* Nothing but the destructor of a copy takes an executable away.
LEMMA ExecutablesStay ==
  ASSUME TypeOK, WorkInv, Next, NEW d \in Uuids, disk[d].binary \/ disk[d].removed
  PROVE  disk'[d].binary \/ disk'[d].removed
<1>1. disk \in [Uuids -> Directories] /\ disk[d] \in Directories
  BY DEF TypeOK, Directories
<1> DEFINE Kept == disk'[d].binary \/ disk'[d].removed
<1>2. ASSUME UNCHANGED disk PROVE Kept
  BY <1>2
<1>3. ASSUME UserMovesSource PROVE Kept
  <2>1. PICK c \in Movable : disk' = [disk EXCEPT ![c].source = ~@]
    BY <1>3 DEF UserMovesSource
  <2> QED
    BY <1>1, <2>1 DEF Directories
<1>4. ASSUME NEW t \in Threads, ConfigureBegins(t) PROVE Kept
  <2>1. UNCHANGED disk \/ disk' = [disk EXCEPT ![Uuid(at[t].s)].dir = TRUE]
    BY <1>4 DEF ConfigureBegins
  <2> QED
    BY <1>1, <2>1 DEF Directories
<1>5. ASSUME NEW t \in Threads, ConfigureSucceeds(t) PROVE Kept
  <2>1. PICK inner \in BOOLEAN :
            disk' = [disk EXCEPT ![Uuid(at[t].s)].configured = @ \/ inner]
    BY <1>5 DEF ConfigureSucceeds
  <2> QED
    BY <1>1, <2>1 DEF Directories
<1>6. ASSUME NEW t \in Threads, BuildSucceeds(t) PROVE Kept
  <2>1. PICK b \in BOOLEAN : disk' = [disk EXCEPT ![Uuid(at[t].s)].binary = @ \/ b]
    BY <1>6 DEF BuildSucceeds
  <2> QED
    BY <1>1, <2>1 DEF Directories
<1>7. ASSUME NEW s \in Sketches, DestroySketch(s) PROVE Kept
  <2> DEFINE r == [disk[Uuid(s)] EXCEPT !.dir = FALSE, !.configured = FALSE,
                                        !.binary = FALSE, !.removed = TRUE]
  <2>1. UNCHANGED disk \/ disk' = [disk EXCEPT ![Uuid(s)] = r]
    BY <1>7 DEF DestroySketch
  <2>2. d = Uuid(s) => r.removed
    BY <1>1 DEF Directories
  <2>3. disk'[d] = disk[d] \/ (d = Uuid(s) /\ disk'[d] = r)
    BY <1>1, <2>1
  <2> QED
    BY <2>2, <2>3
<1>8. ASSUME \/ Check \/ UserInstalls \/ TakeLog \/ ReleaseLog
             \/ \E s \in Sketches : CopySketch(s)
             \/ \E t \in Threads : \/ \E s \in Sketches : Compile(t, s)
                                   \/ ReadLine(t) \/ LogLine(t) \/ LogLineEnd(t)
                                   \/ ReadEnds(t) \/ ConfigureEnds(t) \/ BuildEnds(t)
                                   \/ ProcWrites(t) \/ ProcFails(t)
      PROVE  Kept
  <2>1. UNCHANGED disk
    BY <1>8 DEF Check, UserInstalls, TakeLog, ReleaseLog, CopySketch, Compile, ReadLine,
                LogLine, LogLineEnd, ReadEnds, ConfigureEnds, BuildEnds, ProcWrites, ProcFails
  <2> QED
    BY <1>2, <2>1
<1> QED
  BY <1>3, <1>4, <1>5, <1>6, <1>7, <1>8 DEF Next, Runs, ProcEnds

\* A sketch that says it is compiled has been found to have its executable.
LEMMA BinaryStep ==
  TypeOK /\ WorkInv /\ IdleWhenBuilt /\ BuiltHasBinary /\ [Next]_vars => BuiltHasBinary'
<1> SUFFICES ASSUME TypeOK, WorkInv, IdleWhenBuilt, BuiltHasBinary, Next
             PROVE  BuiltHasBinary'
  BY DEF BuiltHasBinary, vars
<1> SUFFICES ASSUME NEW s \in Sketches, sketch'[s].alive, sketch'[s].built
             PROVE  /\ sketch'[s].executable = "binary"
                    /\ disk'[Uuid(s)].binary \/ disk'[Uuid(s)].removed
  BY DEF BuiltHasBinary
<1> DEFINE There(x) == disk[Uuid(x)].binary \/ disk[Uuid(x)].removed
<1>1. ASSUME NEW x \in Sketches, There(x) PROVE disk'[Uuid(x)].binary \/ disk'[Uuid(x)].removed
  BY <1>1, UuidType, ExecutablesStay
<1>2. CASE CopySketch(s)
  <2> DEFINE o == Copied[s]
  <2>1. o \in Sketches /\ Uuid(o) = Uuid(s)
    BY <1>2, ToolchainAssumption DEF CopySketch, Uuid
  <2>2. sketch'[s] = sketch[o]
    BY <1>2 DEF CopySketch, TypeOK
  <2>3. sketch[o].executable = "binary" /\ There(o)
    BY <2>1, <2>2 DEF BuiltHasBinary
  <2>4. There(s)
    BY <2>1, <2>3
  <2> QED
    BY <1>1, <2>2, <2>3, <2>4
<1>3. CASE \E t \in Threads : BuildEnds(t) /\ Built(t) /\ s = at[t].s
  <2>1. PICK t \in Threads : BuildEnds(t) /\ Built(t) /\ s = at[t].s
    BY <1>3
  <2>2. sketch[s].executable = "binary" /\ There(s)
    BY <2>1 DEF Built
  <2>3. sketch' = [sketch EXCEPT ![s].built = TRUE]
    BY <2>1 DEF BuildEnds
  <2>4. sketch'[s].executable = sketch[s].executable
    BY ZenonT(60), <2>3 DEF TypeOK
  <2> QED
    BY <1>1, <2>2, <2>4
<1>4. CASE /\ sketch'[s].built = sketch[s].built /\ (sketch'[s].alive => sketch[s].alive)
           /\ \/ sketch'[s].executable = sketch[s].executable
              \/ \E t \in Threads : at[t].pc # "idle" /\ s = at[t].s
  <2>1. sketch[s].executable = "binary" /\ There(s)
    BY <1>4 DEF BuiltHasBinary
  <2>2. sketch'[s].executable = sketch[s].executable
    BY <1>4 DEF IdleWhenBuilt
  <2> QED
    BY <1>1, <2>1, <2>2
<1> QED
  BY <1>2, <1>3, <1>4, SketchMoves

\* Every step keeps the invariant.
LEMMA StepInv == ToolchainInv /\ [Next]_vars => ToolchainInv'
BY TypeStep, WorkStep, IdleStep, BinaryStep DEF ToolchainInv

\* Whatever threads, users and processes do, the results and the sketches are what
\* they say: a sketch that says it is compiled is not being compiled, knows its
\* executable and finds it, unless the destructor of a copy removed it.
THEOREM Invariance == Spec => []ToolchainInv
<1>1. Init => ToolchainInv
  BY InitInv
<1> QED
  BY <1>1, StepInv, PTL DEF Spec

-----------------------------------------------------------------------------
(* The build log.                                                          *)

\* Only a thread that logs a line, and the frontend, use the mutex.
LEMMA LogKept ==
  ASSUME Next
  PROVE  \/ UNCHANGED <<log, logOwner>> \/ TakeLog \/ ReleaseLog
         \/ \E t \in Threads : LogLine(t) \/ LogLineEnd(t)
<1>1. ASSUME NEW t \in Threads, Step(t)
      PROVE  UNCHANGED <<log, logOwner>> \/ LogLine(t) \/ LogLineEnd(t)
  BY <1>1 DEF Step, Compile, Runs, ConfigureBegins, ReadLine, ReadEnds, ConfigureEnds,
              BuildEnds, ProcWrites, ProcEnds, ProcFails, ConfigureSucceeds,
              BuildSucceeds, Others
<1>2. ASSUME Outer PROVE UNCHANGED <<log, logOwner>> \/ TakeLog \/ ReleaseLog
  BY <1>2 DEF Outer, Check, UserInstalls, UserMovesSource, CopySketch, DestroySketch
<1> QED
  BY <1>1, <1>2, NextIsStep

\* A call is between the two halves of a line only by LogLine.
LEMMA HalfWay ==
  ASSUME TypeOK, WorkInv, Next, NEW u \in Threads, ~LogLine(u), ~LogLineEnd(u)
  PROVE  at'[u].pc = "log end" <=> at[u].pc = "log end"
<1>1. CASE Outer
  BY <1>1 DEF Outer, Check, UserInstalls, UserMovesSource, TakeLog, ReleaseLog,
              CopySketch, DestroySketch
<1>2. ASSUME NEW t \in Threads \ {u}, Step(t)
      PROVE  at'[u].pc = "log end" <=> at[u].pc = "log end"
  BY <1>2, OthersKept
<1>3. CASE Step(u)
  <2>1. ASSUME NEW s \in Sketches, Compile(u, s)
        PROVE  at[u].pc = "idle" /\ at'[u].pc \in {"idle", "configure"}
    <3>1. \/ at'[u] = Idle("sketch_invalid")
          \/ at'[u] = [pc |-> "configure", s |-> s, n |-> 0, inner |-> FALSE]
      BY <2>1 DEF Compile, Return, TypeOK
    <3> QED
      BY <2>1, <3>1 DEF Compile, Idle
  <2>2. ASSUME NEW e \in Results, Return(u, e) PROVE at'[u].pc = "idle"
    BY <2>2, Returned
  <2>3. ASSUME ConfigureBegins(u) \/ ConfigureEnds(u)
        PROVE  /\ at[u].pc \in {"configure", "join"}
               /\ at'[u].pc \in {"configure", "join", "idle", "read"}
    <3>1. at[u].pc \in Busy /\ at[u].pc \in {"configure", "join"}
      BY <2>3 DEF ConfigureBegins, ConfigureEnds, Busy
    <3>2. ASSUME NEW run \in {"configure", "build"}, Spawn(u, run, "read")
          PROVE  at'[u].pc \in {"configure", "join", "read"}
      BY <3>1, <3>2, GoesOn DEF Spawn, Busy
    <3> QED
      BY <2>2, <2>3, <3>1, <3>2 DEF ConfigureBegins, ConfigureEnds, Results, Errors
  <2>4. ASSUME ReadLine(u) \/ ReadEnds(u)
        PROVE  at[u].pc = "read" /\ at'[u].pc \in {"join", "log"}
    <3>1. at[u].pc \in Busy /\ (Goto(u, "join") \/ Goto(u, "log"))
      BY <2>4 DEF ReadLine, ReadEnds, Busy
    <3> QED
      BY <2>4, <3>1, GoesOn DEF ReadLine, ReadEnds, Busy
  <2>5. ASSUME BuildEnds(u) PROVE at[u].pc = "join" /\ at'[u].pc = "idle"
    <3>1. CASE Return(u, "build_failed")
      BY <2>5, <2>2, <3>1 DEF BuildEnds, Results, Errors
    <3>2. CASE at' = [at EXCEPT ![u] = [pc |-> "idle", result |-> "ok", inner |-> at[u].inner]]
      BY <2>5, <3>2 DEF BuildEnds, TypeOK
    <3> QED
      BY <2>5, <3>1, <3>2 DEF BuildEnds
  <2>6. ASSUME ProcWrites(u) \/ ProcFails(u) \/ BuildSucceeds(u) PROVE UNCHANGED at
    BY <2>6 DEF ProcWrites, ProcFails, BuildSucceeds
  <2>7. ASSUME ConfigureSucceeds(u) PROVE at'[u].pc = at[u].pc
    <3>1. at[u] \in [pc : Busy, s : Sketches, n : Nat, inner : BOOLEAN]
      BY <2>7, Kinds DEF ConfigureSucceeds, Running, WorkInv
    <3>2. PICK inner \in BOOLEAN : at' = [at EXCEPT ![u].inner = inner]
      BY <2>7 DEF ConfigureSucceeds
    <3>3. at'[u] = [at[u] EXCEPT !.inner = inner]
      BY <3>2 DEF TypeOK
    <3> QED
      BY <3>1, <3>3
  <2> QED
    BY <1>3, <2>1, <2>3, <2>4, <2>5, <2>6, <2>7 DEF Step, Runs, ProcEnds
<1> QED
  BY <1>1, <1>2, <1>3, NextIsStep

\* The mutex, the thread between the halves of a line and the last line agree.
LEMMA LogStep == TypeOK /\ WorkInv /\ LogInv /\ [Next]_vars => LogInv'
<1> SUFFICES ASSUME TypeOK, WorkInv, LogInv, Next PROVE LogInv'
  BY DEF LogInv, LinesStayWhole, vars
<1> DEFINE Entries == {EndOfLine} \cup (Threads \X Nat)
<1>1. /\ log \in Seq(Entries) /\ Len(log) \in Nat /\ DOMAIN log = 1..Len(log)
      /\ Len(log) > 0 => log # <<>>
  <2>1. log \in Seq(Entries)
    BY DEF TypeOK
  <2> HIDE DEF Entries
  <2> QED
    BY <2>1
<1>2. NoThread \notin Threads /\ "frontend" \notin Threads
  BY ToolchainAssumption
<1>3. \A u \in Threads :
         ~LogLine(u) /\ ~LogLineEnd(u) => (at'[u].pc = "log end" <=> at[u].pc = "log end")
  BY HalfWay
<1> HIDE DEF Entries
<1>4. CASE \E t \in Threads : LogLine(t)
  <2>1. PICK t \in Threads : LogLine(t)
    BY <1>4
  <2> DEFINE e == <<t, at[t].n + 1>>
  <2>2. logOwner = NoThread /\ logOwner' = t /\ log' = Append(log, e)
    BY <2>1 DEF LogLine, Lockable
  <2>3. e \in Entries /\ e # EndOfLine /\ e[1] = t
    <3>1. at[t].n \in Nat
      BY <2>1, Kinds DEF LogLine, Busy
    <3> QED
      BY <3>1 DEF Entries, EndOfLine
  <2>4. at'[t].pc = "log end"
    BY <2>1, Logs
  <2>5. \A u \in Threads \ {t} : at'[u].pc # "log end"
    <3>1. \A u \in Threads \ {t} : at'[u] = at[u]
      BY <2>1, OthersKept DEF Step, Runs
    <3> QED
      BY <1>2, <2>2, <3>1 DEF LogInv
  <2> HIDE DEF e
  <2>6. /\ Len(log') = Len(log) + 1 /\ log'[Len(log) + 1] = e
        /\ \A i \in 1..Len(log) : log'[i] = log[i]
        /\ log' \in Seq(Entries)
    BY <1>1, <2>2, <2>3, AppendType
  <2>7. Len(log) > 0 => log[Len(log)] = EndOfLine
    BY <1>1, <1>2, <2>2 DEF LogInv
  <2>8. \A i \in 1..Len(log) : log[i] # EndOfLine => i < Len(log) /\ log[i + 1] = EndOfLine
    <3> SUFFICES ASSUME NEW i \in 1..Len(log), log[i] # EndOfLine
                 PROVE  i < Len(log) /\ log[i + 1] = EndOfLine
      OBVIOUS
    <3>1. i # Len(log)
      <4>1. Len(log) > 0
        BY <1>1
      <4>2. log[Len(log)] = EndOfLine
        BY <2>7, <4>1
      <4> QED
        BY <4>2
    <3>2. i \in DOMAIN log
      BY <1>1
    <3> QED
      BY <3>1, <3>2 DEF LogInv, LinesStayWhole
  <2>9. LinesStayWhole'
    <3>1. DOMAIN log' = 1..(Len(log) + 1)
      BY <2>6
    <3>2. ASSUME NEW i \in 1..Len(log), log'[i] # EndOfLine
          PROVE  i < Len(log') /\ log'[i + 1] = EndOfLine
      BY <1>1, <2>6, <2>8, <3>2
    <3>3. Len(log) + 1 = Len(log') /\ logOwner' = log'[Len(log) + 1][1]
      BY <2>2, <2>3, <2>6
    <3> QED
      BY <1>1, <3>1, <3>2, <3>3 DEF LinesStayWhole
  <2>10. log' # <<>> /\ log'[Len(log')] # EndOfLine /\ log'[Len(log')][1] = logOwner'
    BY <1>1, <2>2, <2>3, <2>6
  <2> QED
    BY <2>2, <2>4, <2>5, <2>9, <2>10 DEF LogInv
<1>5. CASE \E t \in Threads : LogLineEnd(t)
  <2>1. PICK t \in Threads : LogLineEnd(t)
    BY <1>5
  <2>2. logOwner = t /\ logOwner' = NoThread /\ log' = Append(log, EndOfLine)
    BY <2>1 DEF LogLineEnd, LogInv
  <2>3. at'[t].pc # "log end"
    BY <2>1, GoesOn DEF LogLineEnd, Busy
  <2>4. \A u \in Threads \ {t} : at'[u].pc # "log end"
    <3>1. \A u \in Threads \ {t} : at'[u] = at[u]
      BY <2>1, OthersKept DEF Step, Runs
    <3> QED
      BY <2>2, <3>1 DEF LogInv
  <2>5. EndOfLine \in Entries
    BY DEF Entries
  <2>6. /\ Len(log') = Len(log) + 1 /\ log'[Len(log) + 1] = EndOfLine
        /\ \A i \in 1..Len(log) : log'[i] = log[i]
        /\ log' \in Seq(Entries)
    BY <1>1, <2>2, <2>5, AppendType
  <2>7. LinesStayWhole'
    <3>1. DOMAIN log' = 1..(Len(log) + 1)
      BY <2>6
    <3>2. ASSUME NEW i \in 1..Len(log), log'[i] # EndOfLine
          PROVE  i < Len(log') /\ log'[i + 1] = EndOfLine
      <4>1. \/ i = Len(log)
            \/ i < Len(log) /\ log[i + 1] = EndOfLine
        BY <1>1, <2>6, <3>2 DEF LogInv, LinesStayWhole
      <4>2. i < Len(log) => i + 1 \in 1..Len(log) /\ log'[i + 1] = log[i + 1]
        BY <1>1, <2>6
      <4>3. i < Len(log') /\ log'[Len(log) + 1] = EndOfLine
        BY <1>1, <2>6
      <4> QED
        BY <4>1, <4>2, <4>3
    <3> QED
      BY <1>1, <2>6, <3>1, <3>2 DEF LinesStayWhole
  <2>8. logOwner' \notin Threads /\ log'[Len(log')] = EndOfLine
    BY <1>2, <2>2, <2>6
  <2> QED
    BY <2>2, <2>3, <2>4, <2>7, <2>8 DEF LogInv
<1>6. CASE /\ UNCHANGED <<log, logOwner>> \/ TakeLog \/ ReleaseLog
           /\ ~\E t \in Threads : LogLine(t) \/ LogLineEnd(t)
  <2>1. UNCHANGED log /\ (logOwner' = logOwner \/ {logOwner, logOwner'} \cap Threads = {})
    BY <1>2, <1>6 DEF TakeLog, ReleaseLog
  <2>2. \A t \in Threads : logOwner' = t <=> logOwner = t
    BY <2>1
  <2>3. \A t \in Threads : logOwner' = t <=> at'[t].pc = "log end"
    BY <1>3, <1>6, <2>2 DEF LogInv
  <2>4. LinesStayWhole'
    <3>1. logOwner \notin Threads /\ Len(log) > 0 => log[Len(log)] = EndOfLine
      BY <1>1 DEF LogInv
    <3>2. ASSUME NEW i \in DOMAIN log, log[i] # EndOfLine
          PROVE  \/ i = Len(log) /\ logOwner' = log[i][1]
                 \/ i < Len(log) /\ log[i + 1] = EndOfLine
      <4>1. \/ i = Len(log) /\ logOwner = log[i][1]
            \/ i < Len(log) /\ log[i + 1] = EndOfLine
        BY <3>2 DEF LogInv, LinesStayWhole
      <4>2. i = Len(log) => logOwner \in Threads
        BY <1>1, <3>1, <3>2
      <4> QED
        BY <2>1, <4>1, <4>2
    <3> QED
      BY <2>1, <3>2 DEF LinesStayWhole
  <2> QED
    BY <2>1, <2>2, <2>3, <2>4 DEF LogInv
<1> QED
  BY <1>4, <1>5, <1>6, LogKept

\* However many threads compile at the same time, and whatever the frontend does
\* with the log, its lines are whole.
THEOREM WholeLines == Spec => []LinesStayWhole
<1> DEFINE Inv == ToolchainInv /\ LogInv
<1>1. Init => Inv
  BY InitInv
<1>2. Inv /\ [Next]_vars => Inv'
  BY StepInv, LogStep DEF ToolchainInv
<1>3. Inv => LinesStayWhole
  BY DEF LogInv
<1> QED
  BY <1>1, <1>2, <1>3, PTL DEF Spec

-----------------------------------------------------------------------------
(* The download cache of the CMake that a toolchain runs.                  *)

\* There are more lock files than processes: one at least is nobody's.
LEMMA FreshExists ==
  ASSUME \A p \in Procs : call[p].lock \in Files \cup {NoFile}
  PROVE  \E f \in Files : \A p \in Procs : call[p].lock # f
<1> SUFFICES ASSUME \A f \in Files : \E p \in Procs : call[p].lock = f
             PROVE  FALSE
  OBVIOUS
<1> DEFINE user == [f \in Files |-> CHOOSE p \in Procs : call[p].lock = f]
<1>1. user \in [Files -> Procs]
  OBVIOUS
<1>2. \A f \in Files : call[user[f]].lock = f
  OBVIOUS
<1>3. Cardinality(Procs) \in Nat
  BY CacherAssumption, FS_CardinalityType
<1>4. IsFiniteSet(Files) /\ Cardinality(Files) = Cardinality(Procs) + 1
  BY <1>3, FS_Interval DEF Files
<1> HIDE DEF user
<1>5. \E f, g \in Files : f # g /\ user[f] = user[g]
  BY <1>1, <1>3, <1>4, CacherAssumption, FS_PigeonHole
<1> QED
  BY <1>2, <1>5

\* What a name is opened as: the file it stands for, or one that nobody has open.
LEMMA OpenedFile ==
  ASSUME CacherTypeOK
  PROVE  /\ Opened \in Files /\ Opened # NoFile
         /\ name # NoFile => Opened = name
         /\ name = NoFile => \A p \in Procs : call[p].lock # Opened
<1>1. \E f \in Files : \A p \in Procs : call[p].lock # f
  BY FreshExists DEF CacherTypeOK, CallStates
<1>2. Fresh \in Files /\ \A p \in Procs : call[p].lock # Fresh
  BY <1>1 DEF Fresh
<1>3. NoFile \notin Files
  BY DEF Files, NoFile
<1> QED
  BY <1>2, <1>3 DEF Opened, CacherTypeOK

\* A process not in a call satisfies the types and the invariants.
LEMMA CacherInitInv == CacherInit => CacherInv
<1> SUFFICES ASSUME CacherInit PROVE CacherInv
  OBVIOUS
<1> USE DEF CacherInit, Absent, Outside
<1>1. CacherTypeOK
  <2>1. Outside \in CallStates
    BY DEF CallStates, Places
  <2> QED
    BY <2>1, CacherAssumption DEF CacherTypeOK
<1>2. LockInv /\ CacheInv /\ ReturnedIsWhole /\ NoLockLeft
  BY DEF LockInv, CacheInv, ReturnedIsWhole, NoLockLeft, Inside, Owning
<1>3. FetchInv
  BY DEF FetchInv, Inside
<1> QED
  BY <1>1, <1>2, <1>3 DEF CacherInv

\* Every step changes the call of one process at most, to a legal state.
LEMMA CacherCallStep ==
  ASSUME CacherTypeOK, NEW p \in Procs,
         \/ \E force \in Forces, result \in GivesResult : Asks(p, force, result)
         \/ Proceed(p) \/ Crash(p)
  PROVE  \E r \in CallStates : call' = [call EXCEPT ![p] = r]
<1> DEFINE Moves(r) == r \in CallStates /\ call' = [call EXCEPT ![p] = r]
<1> SUFFICES \E r : Moves(r)
  OBVIOUS
<1>1. call[p] \in CallStates
  BY DEF CacherTypeOK
<1>2. Outside \in CallStates
  BY DEF Outside, CallStates, Places
<1> USE DEF CallStates, Places
<1>3. ASSUME NEW force \in Forces, NEW result \in GivesResult, Asks(p, force, result)
      PROVE  \E r : Moves(r)
  <2> DEFINE r == [Outside EXCEPT !.at = "locking", !.lock = Opened,
                                  !.force = force, !.result = result]
  <2>1. r \in CallStates
    BY OpenedFile, CacherAssumption DEF Outside
  <2> QED
    BY <1>3, <2>1 DEF Asks
<1>4. CASE Locks(p)
  <2> DEFINE r == [call[p] EXCEPT !.at = "checking", !.owns = TRUE]
  <2>1. Moves(r)
    BY <1>1, <1>4 DEF Locks
  <2> QED
    BY <2>1
<1>5. ASSUME NEW place \in Places, Goes(p, place) PROVE \E r : Moves(r)
  <2>1. Moves([call[p] EXCEPT !.at = place])
    BY <1>1, <1>5 DEF Goes
  <2> QED
    BY <2>1
<1>6. CASE EndsDownload(p)
  <2>1. Moves([call[p] EXCEPT !.at = "releasing", !.fetched = TRUE])
    BY <1>1, <1>6 DEF EndsDownload
  <2> QED
    BY <2>1
<1>7. CASE FailsDownload(p)
  <2>1. Moves([call[p] EXCEPT !.at = "failed", !.error = TRUE])
    BY <1>1, <1>7 DEF FailsDownload
  <2> QED
    BY <2>1
<1>8. CASE Gives(p)
  <2>1. \/ Moves([call[p] EXCEPT !.at = "releasing"])
        \/ Moves([Outside EXCEPT !.at = "dead"])
    BY <1>1, <1>2, <1>8 DEF Gives
  <2> QED
    BY <2>1
<1>9. CASE Releases(p)
  <2>1. Moves([call[p] EXCEPT !.at = "removing", !.owns = FALSE])
    BY <1>1, <1>9 DEF Releases
  <2> QED
    BY <2>1
<1>10. CASE Returns(p)
  <2> DEFINE got == IF ~cached.exists THEN "missing"
                    ELSE IF cached.whole THEN "whole" ELSE "partial"
  <2>1. got \in {"whole", "partial", "missing"}
    OBVIOUS
  <2>2. call' = [call EXCEPT ![p] = [call[p] EXCEPT !.at = "out", !.lock = NoFile, !.got = got]]
    BY <1>1, <1>10 DEF Returns
  <2> HIDE DEF got
  <2>3. [call[p] EXCEPT !.at = "out", !.lock = NoFile, !.got = got] \in CallStates
    BY <1>1, <2>1
  <2> QED
    BY <2>2, <2>3
<1>11. CASE Crash(p)
  <2>1. Moves([Outside EXCEPT !.at = "dead"])
    BY <1>2, <1>11 DEF Crash
  <2> QED
    BY <2>1
<1>12. ASSUME Checks(p) \/ BeginsDownload(p) PROVE \E r : Moves(r)
  BY <1>5, <1>12 DEF Checks, BeginsDownload
<1> QED
  BY <1>3, <1>4, <1>6, <1>7, <1>8, <1>9, <1>10, <1>11, <1>12 DEF Proceed

\* Every step keeps the types.
LEMMA CacherTypeStep == CacherTypeOK /\ [CacherNext]_cacherVars => CacherTypeOK'
<1> SUFFICES ASSUME CacherTypeOK, [CacherNext]_cacherVars PROVE CacherTypeOK'
  OBVIOUS
<1>1. call' \in [Procs -> CallStates]
  <2>1. CASE ClearCache \/ UNCHANGED cacherVars
    BY <2>1 DEF CacherTypeOK, ClearCache, cacherVars
  <2>2. ASSUME NEW p \in Procs,
               \/ \E force \in Forces, result \in GivesResult : Asks(p, force, result)
               \/ Proceed(p) \/ Crash(p)
        PROVE  call' \in [Procs -> CallStates]
    BY <2>2, CacherCallStep DEF CacherTypeOK
  <2> QED
    BY <2>1, <2>2 DEF CacherNext
<1>2. name' \in Files \cup {NoFile}
  BY OpenedFile
     DEF CacherNext, Proceed, cacherVars, Asks, Locks, Checks, BeginsDownload, EndsDownload,
         FailsDownload, Gives, Releases, Returns, Crash, ClearCache, Opens, Unnamed, CacherTypeOK
<1>3. /\ cached' \in [exists : BOOLEAN, whole : BOOLEAN, writers : SUBSET Procs]
      /\ calls' \in [Procs -> 0..MaxCalls]
      /\ seen' \in [begun : 0..2, failed : BOOLEAN, crashed : BOOLEAN, cleared : BOOLEAN,
                    forced : BOOLEAN]
  <2> USE DEF CacherTypeOK
  <2>1. ASSUME NEW p \in Procs, NEW force \in Forces, NEW result \in GivesResult,
               Asks(p, force, result)
        PROVE  calls' \in [Procs -> 0..MaxCalls]
    BY <2>1, CacherAssumption DEF Asks
  <2>2. ASSUME NEW p \in Procs, BeginsDownload(p) PROVE seen'.begun \in 0..2
    BY <2>2 DEF BeginsDownload
  <2>3. ASSUME NEW p \in Procs, BeginsDownload(p)
        PROVE  /\ cached' \in [exists : BOOLEAN, whole : BOOLEAN, writers : SUBSET Procs]
               /\ seen' \in [begun : 0..2, failed : BOOLEAN, crashed : BOOLEAN,
                             cleared : BOOLEAN, forced : BOOLEAN]
    BY <2>2, <2>3 DEF BeginsDownload
  <2>4. ASSUME NEW p \in Procs, EndsDownload(p)
        PROVE  cached' \in [exists : BOOLEAN, whole : BOOLEAN, writers : SUBSET Procs]
    BY <2>4 DEF EndsDownload, Filled
  <2>5. ASSUME NEW p \in Procs, Crash(p)
        PROVE  cached' \in [exists : BOOLEAN, whole : BOOLEAN, writers : SUBSET Procs]
    <3>1. cached.writers \ {p} \in SUBSET Procs
      OBVIOUS
    <3> QED
      BY <2>5, <3>1 DEF Crash
  <2>6. ASSUME NEW p \in Procs, Checks(p) \/ FailsDownload(p)
        PROVE  cached' \in [exists : BOOLEAN, whole : BOOLEAN, writers : SUBSET Procs]
    <3>1. Absent \in [exists : BOOLEAN, whole : BOOLEAN, writers : SUBSET Procs]
      BY DEF Absent
    <3>2. cached' = Absent \/ cached' = cached
      BY <2>6 DEF Checks, FailsDownload
    <3> QED
      BY <3>1, <3>2
  <2>7. ASSUME NEW p \in Procs, Checks(p)
        PROVE  seen' \in [begun : 0..2, failed : BOOLEAN, crashed : BOOLEAN,
                          cleared : BOOLEAN, forced : BOOLEAN]
    <3>1. (seen.forced \/ (Known /\ call[p].force)) \in BOOLEAN
      OBVIOUS
    <3> QED
      BY <2>7, <3>1 DEF Checks
  <2>8. ASSUME NEW p \in Procs, FailsDownload(p) \/ Crash(p)
        PROVE  seen' \in [begun : 0..2, failed : BOOLEAN, crashed : BOOLEAN,
                          cleared : BOOLEAN, forced : BOOLEAN]
    BY <2>8 DEF FailsDownload, Crash
  <2>9. CASE ClearCache
    BY <2>9 DEF ClearCache, Absent
  <2> QED
    BY ZenonT(60), <2>1, <2>3, <2>4, <2>5, <2>6, <2>7, <2>8, <2>9
       DEF CacherNext, Proceed, cacherVars, Asks, Locks, Checks, BeginsDownload, EndsDownload,
           FailsDownload, Gives, Releases, Returns, Crash, ClearCache
<1> QED
  BY <1>1, <1>2, <1>3 DEF CacherTypeOK

\* A step of one process leaves the calls of the others as they are.
LEMMA OtherCallsKept ==
  ASSUME CacherTypeOK, NEW p \in Procs,
         \/ \E force \in Forces, result \in GivesResult : Asks(p, force, result)
         \/ Proceed(p) \/ Crash(p)
  PROVE  \A q \in Procs : q # p => call'[q] = call[q]
<1>1. PICK r \in CallStates : call' = [call EXCEPT ![p] = r]
  BY CacherCallStep
<1> QED
  BY <1>1 DEF CacherTypeOK

\* The process that owns a lock file while the cached file is being fetched is the
\* only one, as long as nothing disturbs them.
LEMMA SoleOwner ==
  ASSUME LockInv, FetchInv, Undisturbed, ~cached.whole,
         NEW p \in Procs, NEW q \in Procs, call[p].at \in Owning, call[q].at \in Owning
  PROVE  p = q
<1>1. Inside(p) /\ Inside(q)
  BY DEF Inside, Owning
<1>2. call[p].lock = name /\ call[q].lock = name
  BY <1>1 DEF FetchInv
<1>3. call[p].owns /\ call[q].owns
  BY DEF LockInv
<1> QED
  BY <1>2, <1>3 DEF LockInv

\* A step of a process that is given no lock file keeps their invariant, if the
\* process itself comes to a place that fits.
LEMMA LocksKept ==
  ASSUME LockInv, NEW p \in Procs, \A q \in Procs : q # p => call'[q] = call[q],
         (call'[p].lock # NoFile) <=> Inside(p)', call'[p].owns <=> (call'[p].at \in Owning),
         call'[p].owns => call[p].owns /\ call'[p].lock = call[p].lock
  PROVE  LockInv'
<1>1. \A q \in Procs : /\ (call'[q].lock # NoFile) <=> Inside(q)'
                       /\ call'[q].owns <=> (call'[q].at \in Owning)
  BY DEF LockInv, Inside
<1>2. \A q \in Procs : call'[q].owns => call[q].owns /\ call'[q].lock = call[q].lock
  OBVIOUS
<1>3. \A q, u \in Procs :
        (call'[q].owns /\ call'[u].owns /\ call'[q].lock = call'[u].lock) => q = u
  BY <1>2 DEF LockInv
<1> QED
  BY <1>1, <1>3 DEF LockInv

\* Every step preserves the invariant of the lock files.
LEMMA LockStep == CacherTypeOK /\ LockInv /\ [CacherNext]_cacherVars => LockInv'
<1> SUFFICES ASSUME CacherTypeOK, LockInv, [CacherNext]_cacherVars PROVE LockInv'
  OBVIOUS
<1>0. \A p \in Procs : /\ call[p] \in CallStates /\ call[p].owns \in BOOLEAN
                       /\ (call[p].lock # NoFile) <=> Inside(p)
                       /\ call[p].owns <=> (call[p].at \in Owning)
  BY DEF CacherTypeOK, CallStates, LockInv
<1>1. ASSUME NEW p \in Procs, NEW force \in Forces, NEW result \in GivesResult,
             Asks(p, force, result)
      PROVE  LockInv'
  <2>1. call'[p].at = "locking" /\ ~call'[p].owns /\ call'[p].lock # NoFile
    BY <1>1, OpenedFile DEF Asks, Outside, CacherTypeOK
  <2>2. \A q \in Procs : q # p => call'[q] = call[q]
    BY <1>1, OtherCallsKept
  <2> QED
    BY <2>1, <2>2, LocksKept DEF Inside, Owning
<1>2. ASSUME NEW p \in Procs, Proceed(p) PROVE \A q \in Procs : q # p => call'[q] = call[q]
  BY <1>2, OtherCallsKept
<1>3. ASSUME NEW p \in Procs, Locks(p) PROVE LockInv'
  <2>1. call'[p].at = "checking" /\ call'[p].owns /\ call'[p].lock = call[p].lock
    BY <1>0, <1>3 DEF Locks, CacherTypeOK, CallStates
  <2>2. \A q \in Procs : call[q].owns => call[q].lock # call[p].lock
    BY <1>3 DEF Locks, Taken
  <2>3. \A q \in Procs : q # p => call'[q] = call[q]
    BY <1>2, <1>3 DEF Proceed
  <2>4. call[p].at = "locking" /\ call[p].lock # NoFile
    BY <1>0, <1>3 DEF Locks, Inside
  <2>5. \A q \in Procs : /\ (call'[q].lock # NoFile) <=> Inside(q)'
                         /\ call'[q].owns <=> (call'[q].at \in Owning)
    BY <1>0, <2>1, <2>3, <2>4 DEF Inside, Owning
  <2>6. \A q, u \in Procs :
          (call'[q].owns /\ call'[u].owns /\ call'[q].lock = call'[u].lock) => q = u
    BY <2>1, <2>2, <2>3 DEF LockInv
  <2> QED
    BY <2>5, <2>6 DEF LockInv
<1>4. ASSUME NEW p \in Procs, NEW place \in Owning, call[p].at \in Owning, Proceed(p),
             call'[p].at = place, call'[p].owns = call[p].owns, call'[p].lock = call[p].lock
      PROVE  LockInv'
  <2>1. Inside(p) /\ Inside(p)'
    BY <1>4 DEF Inside, Owning
  <2> QED
    BY <1>0, <1>2, <1>4, <2>1, LocksKept
<1>5. ASSUME NEW p \in Procs, Checks(p) \/ BeginsDownload(p) PROVE LockInv'
  <2>1. /\ call[p].at \in Owning /\ call'[p].at \in Owning
        /\ call'[p].owns = call[p].owns /\ call'[p].lock = call[p].lock
    BY <1>0, <1>5 DEF Checks, BeginsDownload, Goes, CacherTypeOK, CallStates, Owning
  <2> QED
    BY <1>4, <1>5, <2>1 DEF Proceed
<1>6. ASSUME NEW p \in Procs, EndsDownload(p) \/ FailsDownload(p) PROVE LockInv'
  <2>1. /\ call[p].at \in Owning /\ call'[p].at \in Owning
        /\ call'[p].owns = call[p].owns /\ call'[p].lock = call[p].lock
    BY <1>0, <1>6 DEF EndsDownload, FailsDownload, CacherTypeOK, CallStates, Owning
  <2> QED
    BY <1>4, <1>6, <2>1 DEF Proceed
<1>7. ASSUME NEW p \in Procs, Gives(p) PROVE LockInv'
  <2>1. CASE call[p].result
    <3>1. /\ call[p].at \in Owning /\ call'[p].at \in Owning
          /\ call'[p].owns = call[p].owns /\ call'[p].lock = call[p].lock
      BY <1>0, <1>7, <2>1 DEF Gives, CacherTypeOK, CallStates, Owning
    <3> QED
      BY <1>4, <1>7, <3>1 DEF Proceed
  <2>2. CASE ~call[p].result
    <3>1. call'[p].at = "dead" /\ ~call'[p].owns /\ call'[p].lock = NoFile
      BY <1>0, <1>7, <2>2 DEF Gives, CacherTypeOK, Outside
    <3>2. \A q \in Procs : q # p => call'[q] = call[q]
      BY <1>2, <1>7 DEF Proceed
    <3> QED
      BY <3>1, <3>2, LocksKept DEF Inside, Owning
  <2> QED
    BY <2>1, <2>2
<1>8. ASSUME NEW p \in Procs, Releases(p) PROVE LockInv'
  <2>1. call'[p].at = "removing" /\ ~call'[p].owns /\ call'[p].lock = call[p].lock
    BY <1>0, <1>8 DEF Releases, CacherTypeOK, CallStates
  <2>2. \A q \in Procs : q # p => call'[q] = call[q]
    BY <1>2, <1>8 DEF Proceed
  <2>3. call[p].lock # NoFile
    BY <1>0, <1>8 DEF Releases, Inside
  <2> QED
    BY <2>1, <2>2, <2>3, LocksKept DEF Inside, Owning
<1>9. ASSUME NEW p \in Procs, Returns(p) PROVE LockInv'
  <2>1. call'[p].at = "out" /\ call'[p].owns = call[p].owns /\ call'[p].lock = NoFile
    BY <1>0, <1>9 DEF Returns, CacherTypeOK, CallStates
  <2>2. \A q \in Procs : q # p => call'[q] = call[q]
    BY <1>2, <1>9 DEF Proceed
  <2>3. ~call[p].owns
    BY <1>0, <1>9 DEF Returns, Owning
  <2> QED
    BY <2>1, <2>2, <2>3, LocksKept DEF Inside, Owning
<1>10. ASSUME NEW p \in Procs, Crash(p) PROVE LockInv'
  <2>1. call'[p].at = "dead" /\ ~call'[p].owns /\ call'[p].lock = NoFile
    BY <1>0, <1>10 DEF Crash, CacherTypeOK, Outside
  <2>2. \A q \in Procs : q # p => call'[q] = call[q]
    BY <1>10, OtherCallsKept
  <2> QED
    BY <2>1, <2>2, LocksKept DEF Inside, Owning
<1>11. CASE ClearCache \/ UNCHANGED cacherVars
  BY <1>11 DEF ClearCache, cacherVars, LockInv, Inside
<1> QED
  BY <1>1, <1>3, <1>5, <1>6, <1>7, <1>8, <1>9, <1>10, <1>11 DEF CacherNext, Proceed

\* What is whole or written to exists after every step, too.
LEMMA CacheStep == CacherTypeOK /\ CacheInv /\ [CacherNext]_cacherVars => CacheInv'
<1> SUFFICES ASSUME CacherTypeOK, CacheInv, [CacherNext]_cacherVars PROVE CacheInv'
  OBVIOUS
<1> USE DEF CacheInv, CacherTypeOK
<1>1. ASSUME NEW p \in Procs, EndsDownload(p) PROVE CacheInv'
  BY <1>1 DEF EndsDownload, Filled
<1>2. ASSUME NEW p \in Procs, Crash(p) PROVE CacheInv'
  BY <1>2 DEF Crash
<1>3. ASSUME NEW p \in Procs, Checks(p) \/ BeginsDownload(p) \/ FailsDownload(p)
      PROVE  CacheInv'
  BY <1>3 DEF Checks, BeginsDownload, FailsDownload, Absent
<1>4. CASE ClearCache
  BY <1>4 DEF ClearCache, Absent
<1>5. CASE UNCHANGED cached
  BY <1>5
<1> QED
  BY <1>1, <1>2, <1>3, <1>4, <1>5
     DEF CacherNext, Proceed, Asks, Locks, Gives, Releases, Returns, cacherVars

\* As long as nothing disturbs them, one process fetches the file and no other is
\* past the lock before it has: every step preserves that.
LEMMA FetchStep ==
  CacherTypeOK /\ LockInv /\ CacheInv /\ FetchInv /\ [CacherNext]_cacherVars => FetchInv'
<1> SUFFICES ASSUME CacherTypeOK, LockInv, CacheInv, FetchInv, [CacherNext]_cacherVars, Undisturbed'
             PROVE  FetchInv'
  BY DEF FetchInv
<1>0. Undisturbed
  BY ZenonT(60), SMTT(40) DEF Undisturbed, CacherNext, Proceed, cacherVars, Asks, Locks, Checks, BeginsDownload,
         EndsDownload, FailsDownload, Gives, Releases, Returns, Crash, ClearCache, CacherTypeOK
<1> DEFINE Part1 == seen.begun = IF cached.exists THEN 1 ELSE 0
           Part2(q) == /\ call[q].at \notin {"failed", "dead"}
                       /\ (q \in cached.writers) <=> (call[q].at = "downloading")
                       /\ call[q].got \in {"nothing", "whole"}
           Part3(q) == cached.exists => call[q].at # "download?"
           Part4 == cached.exists => (cached.whole <=> cached.writers = {})
           Part5(q) == ~cached.whole => /\ call[q].got = "nothing"
                                        /\ Inside(q) => call[q].lock = name
                                        /\ call[q].at \notin {"releasing", "removing"}
<1>a. \A q \in Procs : Part1 /\ Part2(q) /\ Part3(q) /\ Part4 /\ Part5(q)
  BY <1>0 DEF FetchInv
<1>b. ASSUME Part1', Part4', \A q \in Procs : Part2(q)' /\ Part3(q)' /\ Part5(q)'
      PROVE  FetchInv'
  BY <1>b DEF FetchInv
<1> HIDE DEF Part1, Part2, Part3, Part4, Part5
<1>c. Part1 /\ Part4 /\ \A q \in Procs : call[q] \in CallStates
  BY <1>0 DEF FetchInv, CacherTypeOK, Part1, Part4
<1>1. ASSUME NEW p \in Procs, NEW force \in Forces, NEW result \in GivesResult,
             Asks(p, force, result)
      PROVE  FetchInv'
  <2>1. /\ call'[p].at = "locking" /\ call'[p].got = "nothing"
        /\ call'[p].lock = name' /\ name' = Opened
        /\ UNCHANGED <<cached, seen>> /\ call[p].at = "out"
    BY <1>1 DEF Asks, Opens, Outside, CacherTypeOK
  <2>2. \A q \in Procs : q # p => call'[q] = call[q]
    BY <1>1, OtherCallsKept
  <2>3. \A q \in Procs : Inside(q) /\ call[q].lock = name => name' = name
    BY <2>1, OpenedFile DEF LockInv
  <2>4. ASSUME NEW q \in Procs PROVE Part2(q)' /\ Part3(q)' /\ Part5(q)'
    BY <1>a, <2>1, <2>2, <2>3 DEF Part2, Part3, Part5, Inside
  <2> QED
    BY <1>b, <1>c, <2>1, <2>4 DEF Part1, Part4
<1>2. ASSUME NEW p \in Procs, Locks(p) PROVE FetchInv'
  <2>1. /\ call'[p].at = "checking" /\ call'[p].got = call[p].got
        /\ call'[p].lock = call[p].lock
        /\ UNCHANGED <<name, cached, seen>> /\ call[p].at = "locking"
    BY <1>2, <1>c DEF Locks, CacherTypeOK, CallStates
  <2>2. \A q \in Procs : q # p => call'[q] = call[q]
    BY <1>2, OtherCallsKept DEF Proceed
  <2>3. ASSUME NEW q \in Procs PROVE Part2(q)' /\ Part3(q)' /\ Part5(q)'
    BY <1>a, <2>1, <2>2 DEF Part2, Part3, Part5, Inside
  <2> QED
    BY <1>b, <1>c, <2>1, <2>3 DEF Part1, Part4
<1>3. ASSUME NEW p \in Procs, Checks(p) PROVE FetchInv'
  <2>1. /\ call'[p].at = (IF Known THEN "releasing" ELSE "download?")
        /\ call'[p].got = call[p].got /\ call'[p].lock = call[p].lock
        /\ UNCHANGED name /\ call[p].at = "checking"
    BY <1>3, <1>c DEF Checks, Goes, CacherTypeOK, CallStates
  <2>2. ~(Known /\ call[p].force)
    BY <1>3 DEF Checks, Undisturbed, CacherTypeOK
  <2>3. UNCHANGED cached /\ seen'.begun = seen.begun
    BY <1>3, <2>2 DEF Checks, CacherTypeOK
  <2>4. \A q \in Procs : q # p => call'[q] = call[q]
    BY <1>3, OtherCallsKept DEF Proceed
  <2>5. cached.exists => cached.whole
    <3> SUFFICES ASSUME cached.exists, ~cached.whole PROVE FALSE
      OBVIOUS
    <3>1. cached.writers \subseteq Procs /\ cached.writers # {}
      BY <1>c DEF Part4, CacherTypeOK
    <3>2. PICK d \in Procs : d \in cached.writers
      BY <3>1
    <3>3. call[d].at = "downloading"
      BY <3>2, <1>a DEF Part2
    <3> QED
      BY <1>0, <2>1, <3>3, SoleOwner DEF Owning
  <2>6. ASSUME NEW q \in Procs PROVE Part2(q)' /\ Part3(q)' /\ Part5(q)'
    BY <1>a, <2>1, <2>3, <2>4, <2>5 DEF Part2, Part3, Part5, Inside, Known
  <2> QED
    BY <1>b, <1>c, <2>3, <2>6 DEF Part1, Part4
<1>4. ASSUME NEW p \in Procs, BeginsDownload(p) PROVE FetchInv'
  <2>1. /\ call'[p].at = "downloading"
        /\ call'[p].got = call[p].got /\ call'[p].lock = call[p].lock
        /\ UNCHANGED name /\ call[p].at = "download?"
    BY <1>4, <1>c DEF BeginsDownload, Goes, CacherTypeOK, CallStates
  <2>2. ~cached.exists /\ ~cached.whole /\ cached.writers = {}
    BY <1>a, <2>1 DEF Part3, CacheInv, CacherTypeOK
  <2>3. cached'.exists /\ ~cached'.whole /\ cached'.writers = {p}
    BY <1>4, <2>2 DEF BeginsDownload
  <2>4. seen'.begun = 1
    BY <1>4, <1>c, <2>2 DEF BeginsDownload, Part1, CacherTypeOK
  <2>5. \A q \in Procs : q # p => call'[q] = call[q]
    BY <1>4, OtherCallsKept DEF Proceed
  <2>6. \A q \in Procs : q # p => call[q].at # "download?"
    BY <1>0, <2>1, <2>2, SoleOwner DEF Owning
  <2>7. ASSUME NEW q \in Procs PROVE Part2(q)' /\ Part3(q)' /\ Part5(q)'
    BY <1>a, <2>1, <2>2, <2>3, <2>5, <2>6 DEF Part2, Part3, Part5, Inside
  <2> QED
    BY <1>b, <2>3, <2>4, <2>7 DEF Part1, Part4
<1>5. ASSUME NEW p \in Procs, EndsDownload(p) PROVE FetchInv'
  <2>1. /\ call'[p].at = "releasing" /\ call'[p].got = call[p].got
        /\ UNCHANGED <<name, seen>> /\ call[p].at = "downloading"
    BY <1>5, <1>c DEF EndsDownload, CacherTypeOK, CallStates
  <2>2. p \in cached.writers /\ cached.exists /\ ~cached.whole
    BY <1>a, <2>1 DEF Part2, Part4, CacheInv
  <2>3. \A q \in Procs : q # p => call[q].at \notin Owning
    BY <1>0, <2>1, <2>2, SoleOwner DEF Owning
  <2>4. cached.writers = {p}
    BY <1>a, <2>2, <2>3 DEF Part2, Owning, CacherTypeOK
  <2>5. cached'.exists /\ cached'.whole /\ cached'.writers = {}
    BY <1>5, <2>2, <2>4 DEF EndsDownload, Filled, CacherTypeOK
  <2>6. \A q \in Procs : q # p => call'[q] = call[q]
    BY <1>5, OtherCallsKept DEF Proceed
  <2>7. ASSUME NEW q \in Procs PROVE Part2(q)' /\ Part3(q)' /\ Part5(q)'
    BY <1>a, <2>1, <2>3, <2>5, <2>6 DEF Part2, Part3, Part5, Owning
  <2> QED
    BY <1>b, <1>c, <2>1, <2>2, <2>5, <2>7 DEF Part1, Part4
<1>6. ASSUME NEW p \in Procs, FailsDownload(p) \/ Gives(p) \/ Crash(p) PROVE FetchInv'
  <2>1. call[p].at # "failed"
    BY <1>a DEF Part2
  <2>2. ~Undisturbed'
    BY <1>6, <2>1 DEF FailsDownload, Gives, Crash, Undisturbed, CacherTypeOK
  <2> QED
    BY <2>2
<1>7. ASSUME NEW p \in Procs, Releases(p) PROVE FetchInv'
  <2>1. /\ call'[p].at = "removing" /\ call'[p].got = call[p].got
        /\ UNCHANGED <<cached, seen>> /\ call[p].at = "releasing"
    BY <1>7, <1>c DEF Releases, CacherTypeOK, CallStates
  <2>2. \A q \in Procs : q # p => call'[q] = call[q]
    BY <1>7, OtherCallsKept DEF Proceed
  <2>3. cached.whole
    BY <1>a, <2>1 DEF Part5
  <2>4. ASSUME NEW q \in Procs PROVE Part2(q)' /\ Part3(q)' /\ Part5(q)'
    BY <1>a, <2>1, <2>2, <2>3 DEF Part2, Part3, Part5
  <2> QED
    BY <1>b, <1>c, <2>1, <2>4 DEF Part1, Part4
<1>8. ASSUME NEW p \in Procs, Returns(p) PROVE FetchInv'
  <2>1. UNCHANGED <<cached, seen>> /\ call[p].at = "removing"
    BY <1>8 DEF Returns
  <2>2. cached.whole /\ cached.exists
    BY <1>a, <2>1 DEF Part5, CacheInv
  <2>3. call'[p].at = "out" /\ call'[p].got = "whole"
    BY <1>8, <1>c, <2>2 DEF Returns, CacherTypeOK, CallStates
  <2>4. \A q \in Procs : q # p => call'[q] = call[q]
    BY <1>8, OtherCallsKept DEF Proceed
  <2>5. ASSUME NEW q \in Procs PROVE Part2(q)' /\ Part3(q)' /\ Part5(q)'
    BY <1>a, <2>1, <2>2, <2>3, <2>4 DEF Part2, Part3, Part5
  <2> QED
    BY <1>b, <1>c, <2>1, <2>5 DEF Part1, Part4
<1>9. CASE ClearCache
  BY <1>9 DEF ClearCache, Undisturbed, CacherTypeOK
<1>10. CASE UNCHANGED cacherVars
  BY <1>0, <1>10 DEF cacherVars, FetchInv, Inside, Undisturbed
<1> QED
  BY <1>1, <1>2, <1>3, <1>4, <1>5, <1>6, <1>7, <1>8, <1>9, <1>10 DEF CacherNext, Proceed

\* The last process to leave a call removes the name of the lock file.
LEMMA NameStep == CacherTypeOK /\ NoLockLeft /\ [CacherNext]_cacherVars => NoLockLeft'
<1> SUFFICES ASSUME CacherTypeOK, NoLockLeft, [CacherNext]_cacherVars, ~seen'.crashed,
                    \A p \in Procs : call'[p].at \in {"out", "dead"}
             PROVE  name' = NoFile
  BY DEF NoLockLeft
<1>1. ~seen.crashed
  BY DEF CacherNext, Proceed, cacherVars, Asks, Locks, Checks, BeginsDownload, EndsDownload,
         FailsDownload, Gives, Releases, Returns, Crash, ClearCache, CacherTypeOK
<1>2. ASSUME NEW p \in Procs, NEW force \in Forces, NEW result \in GivesResult,
             Asks(p, force, result)
      PROVE  FALSE
  BY <1>2 DEF Asks, CacherTypeOK, Outside
<1>3. ASSUME NEW p \in Procs, Locks(p) \/ EndsDownload(p) \/ FailsDownload(p) \/ Releases(p)
      PROVE  FALSE
  BY <1>3 DEF Locks, EndsDownload, FailsDownload, Releases, CacherTypeOK, CallStates
<1>4. ASSUME NEW p \in Procs, Checks(p) \/ BeginsDownload(p) PROVE FALSE
  BY <1>4 DEF Checks, BeginsDownload, Goes, CacherTypeOK, CallStates
<1>5. ASSUME NEW p \in Procs, Crash(p) PROVE FALSE
  BY <1>5 DEF Crash, CacherTypeOK
<1>6. ASSUME NEW p \in Procs, Gives(p) \/ Returns(p) PROVE name' = NoFile
  BY <1>6 DEF Gives, Returns, Unnamed
<1>7. CASE ClearCache
  BY <1>7 DEF ClearCache
<1>8. CASE UNCHANGED cacherVars
  BY <1>1, <1>8 DEF cacherVars, NoLockLeft
<1> QED
  BY <1>2, <1>3, <1>4, <1>5, <1>6, <1>7, <1>8 DEF CacherNext, Proceed

\* Every step preserves the inductive invariant.
LEMMA CacherStepInv == CacherInv /\ [CacherNext]_cacherVars => CacherInv'
<1> SUFFICES ASSUME CacherInv, [CacherNext]_cacherVars PROVE CacherInv'
  OBVIOUS
<1>1. CacherTypeOK' /\ LockInv' /\ CacheInv' /\ FetchInv' /\ NoLockLeft'
  BY CacherTypeStep, LockStep, CacheStep, FetchStep, NameStep DEF CacherInv
<1>2. ReturnedIsWhole'
  BY <1>1 DEF FetchInv, ReturnedIsWhole
<1> QED
  BY <1>1, <1>2 DEF CacherInv

\* For any number of processes and of calls, whichever of them fail, are killed,
\* force an update or clear the cache: locks, cached file and calls fit together,
\* a returned file is whole while nothing disturbs them, and no lock file is left.
THEOREM CacherInvariance == CacherSpec => []CacherInv
<1> QED
  BY CacherInitInv, CacherStepInv, PTL DEF CacherSpec

\* However many processes ask for it at a time, the file is fetched once, unless a
\* download fails, somebody is killed, forces an update or clears the cache.
THEOREM OneFetch == CacherSpec => []FetchedOnce
<1>1. CacherInv => FetchedOnce
  BY DEF CacherInv, FetchInv, FetchedOnce
<1> QED
  BY <1>1, CacherInvariance, PTL
===============================================================================
