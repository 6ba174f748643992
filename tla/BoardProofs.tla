----------------------------- MODULE BoardProofs -----------------------------
(***************************************************************************)
(* Proofs about Board: its inductive invariant, the safety properties that *)
(* follow from it, and that a Board implements BoardContract.  They hold   *)
(* for any number of sketches, configurations and devices, for any pipe,   *)
(* and whether or not suspend() is compiled to stop the process.           *)
(***************************************************************************)
EXTENDS Board, TLAPS

\* A Board just constructed satisfies the invariant.
LEMMA InitInv == Init => IInv
<1> SUFFICES ASSUME Init PROVE IInv
  OBVIOUS
<1> USE DEF Init, NoSegment, NoProcess, Alive, OnDuty
<1>0. /\ {named, stopRequested, hostBd, master} \subseteq BOOLEAN
      /\ {sketchBd, frozen, pipeOpen, piped, lost, asked} \subseteq BOOLEAN
  BY Zenon
<1>1. TypeOK
  BY <1>0, SketchAssumption DEF TypeOK, SegmentTypeOK, SketchTypeOK, Statuses,
     Calls, Phases, Endings
<1>2. CallInv /\ ProcessInv
  BY DEF CallInv, ProcessInv
<1>3. SegmentInv
  BY DEF SegmentInv, SketchUsesData
<1>4. LaunchInv /\ LogInv /\ NoticeInv /\ FrozenInv
  BY DEF LaunchInv, LogInv, NoticeInv, NoticeMeansSelfExit, FrozenInv
<1> QED
  BY <1>1, <1>2, <1>3, <1>4 DEF IInv, Consistent

\* What do_reap and do_sweep assign to the process's flags are Booleans.
LEMMA KillTypes == KillAndWait => {sketchBd, frozen}' \subseteq BOOLEAN
  BY Zenon DEF KillAndWait

\* So is what prepare() assigns to the segment's flags ...
LEMMA ConfigureTypes ==
  ASSUME NEW c, SbdConfigure(c)
  PROVE  {named, stopRequested, hostBd, master}' \subseteq BOOLEAN
  BY Zenon DEF SbdConfigure

\* ... and what reset() and ~Board assign to them.
LEMMA DestroyTypes ==
  SbdDestroy => {named, stopRequested, hostBd, master}' \subseteq BOOLEAN
  BY Zenon DEF SbdDestroy, NameTaken

\* Every step of the board, its log thread and its sketch keeps the variables'
\* types; none of the other invariants is needed for that.
LEMMA TypeStep == TypeOK /\ [Next]_vars => TypeOK'
<1> SUFFICES ASSUME TypeOK, [Next]_vars PROVE TypeOK'
  OBVIOUS
<1> USE DEF TypeOK, SegmentTypeOK, SketchTypeOK, Statuses, Calls, Joining,
        Preparing, Over, Phases, Endings, boardVars, logVars, procVars, pipeVars, segVars
<1> USE SketchAssumption
<1>1. ASSUME NEW s \in Sketches, AttachSketch(s) PROVE TypeOK'
  BY <1>1 DEF AttachSketch
<1>2. ASSUME NEW s \in Sketches, CompileBegins(s) PROVE TypeOK'
  BY <1>2 DEF CompileBegins
<1>3. ASSUME NEW s \in Sketches, CompileSucceeds(s) PROVE TypeOK'
  BY <1>3 DEF CompileSucceeds
<1>4. ASSUME NEW c \in Confs, Configure(c) PROVE TypeOK'
  BY <1>4 DEF Configure, Configurable
<1>5. CASE Prepare
  BY <1>5 DEF Prepare
<1>6. CASE Start
  BY <1>6 DEF Start, NeedsPrepare
<1>7. CASE Suspend
  BY <1>7 DEF Suspend, StopsProcess
<1>8. CASE Resume
  <2>1. frozen' \in BOOLEAN
    BY <1>8, Zenon DEF Resume
  <2> QED
    BY <1>8, <2>1 DEF Resume
<1>9. CASE Stop
  BY <1>9 DEF Stop
<1>10. CASE Terminate
  BY <1>10, KillTypes DEF Terminate, KillAndWait
<1>11. CASE Tick
  BY <1>11, KillTypes DEF Tick, Ticked, ExitSeen, KillAndWait
<1>12. CASE Reset
  BY <1>12, KillTypes DEF Reset, KillAndWait
<1>13. CASE Destroy
  BY <1>13, KillTypes DEF Destroy, KillAndWait
<1>14. ASSUME NEW who \in {"caller", "other"}, TakeLog(who) PROVE TypeOK'
  BY <1>14 DEF TakeLog
<1>15. ASSUME NEW who \in {"caller", "other"}, ReleaseLog(who) PROVE TypeOK'
  BY <1>15 DEF ReleaseLog
<1>16. CASE PrepareSegment
  <2>1. SbdConfigure(conf)
    BY <1>16 DEF PrepareSegment
  <2>2. {named, stopRequested, hostBd, master}' \subseteq BOOLEAN
    BY <2>1, ConfigureTypes
  <2>3. call' \in {"aborted", "none", "start"}
    BY <1>16 DEF PrepareSegment
  <2> QED
    BY <1>16, <2>2, <2>3 DEF PrepareSegment, SbdConfigure
<1>17. CASE StartRefused
  BY <1>17 DEF StartRefused
<1>18. CASE StartSpawns
  BY ZenonT(60), <1>18 DEF StartSpawns, Startable
<1>19. CASE StartAborts
  BY <1>19 DEF StartAborts
<1>20. CASE StopTimesOut
  BY <1>20 DEF StopTimesOut
<1>21. CASE StopReaps
  BY <1>21, KillTypes DEF StopReaps, ExitSeen, KillAndWait
<1>22. CASE ReapReturns
  BY <1>22 DEF ReapReturns, Joinable
<1>23. CASE TickReturns
  BY <1>23 DEF TickReturns, Joinable
<1>24. CASE ResetReturns
  <2>1. {pipeOpen', piped', lost'} \subseteq BOOLEAN
    BY <1>24, Zenon DEF ResetReturns
  <2> QED
    BY <1>24, <2>1, DestroyTypes DEF ResetReturns, Joinable, SbdDestroy, NameTaken
<1>25. CASE DestroyReturns
  BY <1>25, DestroyTypes DEF DestroyReturns, Joinable, SbdDestroy, NameTaken
<1>26. ASSUME NEW n \in 1..PipeCap, GrabberReads(n) PROVE TypeOK'
  BY <1>26 DEF GrabberReads, Readable
<1>27. CASE GrabberAppends
  BY <1>27 DEF GrabberAppends
<1>28. CASE GrabberEnds
  <2>1. pipeOpen' \in BOOLEAN
    BY <1>28, Zenon DEF GrabberEnds
  <2> QED
    BY <1>28, <2>1 DEF GrabberEnds, AtEof
<1>29. CASE SketchRuns
  <2> SUFFICES ASSUME SketchStep, UNCHANGED <<boardVars, grabber, logMtx>>
               PROVE TypeOK'
    BY <1>29 DEF SketchRuns
  <2> USE DEF CanRun
  <2>1. CASE SketchOpens
    BY <2>1 DEF SketchOpens, CanLock
  <2>2. CASE SketchFinds
    BY <2>2 DEF SketchFinds
  <2>3. CASE UserReturns
    BY <2>3 DEF UserReturns
  <2>4. CASE SketchChecksStop
    BY <2>4 DEF SketchChecksStop, SeesStop
  <2>5. CASE SketchBeginsWrite
    BY <2>5 DEF SketchBeginsWrite
  <2>6. CASE SketchEndsWrite
    BY <2>6 DEF SketchEndsWrite, PipeHasRoom
  <2>7. CASE SketchLeaves
    BY <2>7 DEF SketchLeaves
  <2>8. CASE SketchCrashes
    BY <2>8 DEF SketchCrashes
  <2>9. CASE SketchBeginsDestroy
    <3>1. stopRequested' \in BOOLEAN
      BY <2>9, Zenon DEF SketchBeginsDestroy, SketchDestroysData
    <3> QED
      BY <2>9, <3>1 DEF SketchBeginsDestroy, SketchDestroysData, CanLock
  <2>10. CASE SketchExits
    BY <2>10 DEF SketchExits
  <2> QED
    BY <2>1, <2>2, <2>3, <2>4, <2>5, <2>6, <2>7, <2>8, <2>9, <2>10
       DEF SketchStep
<1>30. CASE UNCHANGED vars
  BY <1>30 DEF vars
<1> HIDE DEF TypeOK
<1> QED
  BY <1>1, <1>2, <1>3, <1>4, <1>5, <1>6, <1>7, <1>8, <1>9, <1>10, <1>11, <1>12,
     <1>13, <1>14, <1>15, <1>16, <1>17, <1>18, <1>19, <1>20, <1>21, <1>22, <1>23,
     <1>24, <1>25, <1>26, <1>27, <1>28, <1>29, <1>30
     DEF Next, Frontend, CallProceeds, GrabberStep

\* Every step of the board, its log thread and its sketch preserves the invariant.
LEMMA StepInv == IInv /\ [Next]_vars => IInv'
<1> SUFFICES ASSUME IInv, [Next]_vars PROVE Consistent'
  BY TypeStep DEF IInv
<1> USE DEF IInv, Consistent, TypeOK, SegmentTypeOK, SketchTypeOK, CallInv, ProcessInv,
        SegmentInv, LaunchInv, LogInv, NoticeInv, NoticeMeansSelfExit, FrozenInv,
        SketchUsesData, Alive, OnDuty, Preparable, Statuses, Calls, Joining,
        Preparing, Over, Phases, Endings, Idle,
        boardVars, logVars, procVars, pipeVars, segVars
<1> USE DeviceAssumption, ConfAssumption, SketchAssumption
<1>1. ASSUME NEW s \in Sketches, AttachSketch(s) PROVE Consistent'
  BY <1>1 DEF AttachSketch
<1>2. ASSUME NEW s \in Sketches, CompileBegins(s) PROVE Consistent'
  BY <1>2 DEF CompileBegins
<1>3. ASSUME NEW s \in Sketches, CompileSucceeds(s) PROVE Consistent'
  BY <1>3 DEF CompileSucceeds
<1>4. ASSUME NEW c \in Confs, Configure(c) PROVE Consistent'
  BY <1>4 DEF Configure, Configurable
<1>5. CASE Prepare
  BY <1>5 DEF Prepare
<1>6. CASE Start
  BY <1>6 DEF Start, NeedsPrepare
<1>7. CASE Suspend
  BY <1>7 DEF Suspend, StopsProcess
<1>8. CASE Resume
  BY <1>8 DEF Resume
<1>9. CASE Stop
  BY <1>9 DEF Stop
<1>10. CASE Terminate
  BY <1>10 DEF Terminate, KillAndWait
<1>11. CASE Tick
  BY <1>11 DEF Tick, Ticked, ExitSeen, KillAndWait
<1>12. CASE Reset
  BY <1>12 DEF Reset, KillAndWait
<1>13. CASE Destroy
  BY <1>13 DEF Destroy, KillAndWait
<1>14. ASSUME NEW who \in {"caller", "other"}, TakeLog(who) PROVE Consistent'
  BY <1>14 DEF TakeLog
<1>15. ASSUME NEW who \in {"caller", "other"}, ReleaseLog(who) PROVE Consistent'
  BY <1>15 DEF ReleaseLog
<1>16. CASE PrepareSegment
  BY <1>16 DEF PrepareSegment, SbdConfigure, NameTaken
<1>17. CASE StartRefused
  BY <1>17 DEF StartRefused
<1>18. CASE StartSpawns
  BY <1>18 DEF StartSpawns, Startable
<1>19. CASE StartAborts
  BY <1>19 DEF StartAborts
<1>20. CASE StopTimesOut
  BY <1>20 DEF StopTimesOut
<1>21. CASE StopReaps
  BY <1>21 DEF StopReaps, ExitSeen, KillAndWait
<1>22. CASE ReapReturns
  BY <1>22 DEF ReapReturns, Joinable
<1>23. CASE TickReturns
  BY <1>23 DEF TickReturns, Joinable
<1>24. CASE ResetReturns
  BY <1>24 DEF ResetReturns, Joinable, SbdDestroy, NameTaken
<1>25. CASE DestroyReturns
  BY <1>25 DEF DestroyReturns, Joinable, SbdDestroy, NameTaken
<1>26. ASSUME NEW n \in 1..PipeCap, GrabberReads(n) PROVE Consistent'
  BY <1>26 DEF GrabberReads, Readable
<1>27. CASE GrabberAppends
  BY <1>27 DEF GrabberAppends
<1>28. CASE GrabberEnds
  BY <1>28 DEF GrabberEnds, AtEof
<1>29. CASE SketchRuns
  <2> SUFFICES ASSUME SketchStep, UNCHANGED <<boardVars, grabber, logMtx>>
               PROVE Consistent'
    BY <1>29 DEF SketchRuns
  <2> USE DEF CanRun
  <2>1. CASE SketchOpens
    BY <2>1 DEF SketchOpens, CanLock
  <2>2. CASE SketchFinds
    BY <2>2 DEF SketchFinds
  <2>3. CASE UserReturns
    BY <2>3 DEF UserReturns
  <2>4. CASE SketchChecksStop
    BY <2>4 DEF SketchChecksStop, SeesStop
  <2>5. CASE SketchBeginsWrite
    BY <2>5 DEF SketchBeginsWrite
  <2>6. CASE SketchEndsWrite
    BY <2>6 DEF SketchEndsWrite, PipeHasRoom
  <2>7. CASE SketchLeaves
    BY <2>7 DEF SketchLeaves
  <2>8. CASE SketchCrashes
    BY <2>8 DEF SketchCrashes
  <2>9. CASE SketchBeginsDestroy
    BY <2>9 DEF SketchBeginsDestroy, SketchDestroysData, CanLock
  <2>10. CASE SketchExits
    BY <2>10 DEF SketchExits
  <2> QED
    BY <2>1, <2>2, <2>3, <2>4, <2>5, <2>6, <2>7, <2>8, <2>9, <2>10
       DEF SketchStep
<1>30. CASE UNCHANGED vars
  BY <1>30 DEF vars
<1> HIDE DEF IInv, Consistent
<1> QED
  BY <1>1, <1>2, <1>3, <1>4, <1>5, <1>6, <1>7, <1>8, <1>9, <1>10, <1>11, <1>12,
     <1>13, <1>14, <1>15, <1>16, <1>17, <1>18, <1>19, <1>20, <1>21, <1>22, <1>23,
     <1>24, <1>25, <1>26, <1>27, <1>28, <1>29, <1>30
     DEF Next, Frontend, CallProceeds, GrabberStep

(***************************************************************************)
(* The theorems                                                            *)
(***************************************************************************)

\* Every variable keeps its type in every reachable state of every Board.
THEOREM TypeCorrect == Spec => []TypeOK
<1>1. Init => TypeOK
  BY InitInv DEF IInv
<1> QED
  BY <1>1, TypeStep, PTL DEF Spec

\* The calls in progress, the process, the log thread, the segment and the notice
\* agree with the board's status in every reachable state of every Board.
THEOREM Invariance == Spec => []IInv
  BY InitInv, StepInv, PTL DEF Spec

\* Whichever way a run ended, a board that is off duty or destroyed has no process
\* and no log thread (do_reap, do_sweep).
THEOREM CleanEnds == Spec => []NothingLeftBehind
<1>1. IInv => NothingLeftBehind
  BY DEF IInv, Consistent, ProcessInv, NothingLeftBehind, Idle, OnDuty
<1> QED
  BY <1>1, Invariance, PTL

\* Nobody takes the BoardData away from a sketch that found it, nor from a prepared
\* board, and it is the one of the board's configuration (SharedBoardData).
THEOREM DataStays == Spec => []BoardDataIntact
<1>1. IInv => BoardDataIntact
  <2> SUFFICES ASSUME IInv, SketchUsesData \/ (status = "prepared" /\ call # "gone")
               PROVE  data = conf /\ conf # NoConf
    BY DEF BoardDataIntact
  <2>1. data = conf
    BY DEF IInv, Consistent, SegmentInv
  <2>2. status # "clean"
    BY DEF IInv, Consistent, ProcessInv, SketchUsesData, OnDuty
  <2> QED
    BY <2>1, <2>2, ConfAssumption DEF IInv, Consistent, SegmentInv
<1> QED
  BY <1>1, Invariance, PTL

\* What runs is the attached sketch, and the board's configuration provides the
\* devices it needs (Board::start).
THEOREM LaunchesAreChecked == Spec => []LaunchWasChecked
<1>1. IInv => LaunchWasChecked
  BY DEF IInv, Consistent, LaunchInv, LaunchWasChecked, Alive
<1> QED
  BY <1>1, Invariance, PTL

\* A board that reports a run as stopped, one that was spawned with an open pipe,
\* has lost nothing that the sketch wrote: all went into the pipe, and all was
\* taken out of it (the pipe is closed only at its end, and joined before the
\* report, in do_reap and do_sweep).
THEOREM LogIsComplete == Spec => []LogComplete
<1>1. IInv => LogComplete
  BY DEF IInv, Consistent, ProcessInv, LogInv, LogComplete, Idle, OnDuty
<1> QED
  BY <1>1, Invariance, PTL

\* exit_notify hears of no run that the board itself killed (Board::tick).
THEOREM NoticesAreHonest == Spec => []NoticeMeansSelfExit
<1>1. IInv => NoticeMeansSelfExit
  BY DEF IInv, Consistent, NoticeInv
<1> QED
  BY <1>1, Invariance, PTL

\* The segment has its name from the first prepare() to reset() or destruction, and
\* the host waits for no live sketch inside it (SharedBoardData).
THEOREM SegmentIsTheHosts == Spec => [](SegmentOwned /\ HostWaitsOnlyForTheDead)
<1>1. IInv => SegmentOwned
  BY DEF IInv, Consistent, SegmentInv, SegmentOwned
<1>2. IInv => HostWaitsOnlyForTheDead
  BY DEF IInv, Consistent, ProcessInv, SegmentInv, HostWaitsOnlyForTheDead, Preparing
<1> QED
  BY <1>1, <1>2, Invariance, PTL

\* A suspended sketch does not advance, on the platforms where suspend() signals.
THEOREM SuspensionHolds == Spec => FrozenWhileSuspended
<1> DEFINE Held ==
      SuspendSignals /\ status = "suspended" /\ status' = "suspended" /\ Idle'
        => UNCHANGED <<phase, data, stopRequested, segLock>>
<1>1. IInv /\ [Next]_vars => [Held]_vars
  <2> SUFFICES ASSUME IInv, [Next]_vars,
                      SuspendSignals, status = "suspended",
                      status' = "suspended", call' = "none"
               PROVE  UNCHANGED <<phase, data, stopRequested, segLock>>
    BY DEF Idle
  <2> USE DEF IInv, Consistent, CallInv, ProcessInv, FrozenInv, OnDuty, Idle,
              Alive, Preparing, boardVars, logVars, procVars, pipeVars, segVars
  <2>1. CASE Frontend
    BY <2>1 DEF Frontend, AttachSketch, CompileBegins, CompileSucceeds, Configure,
       Configurable, Prepare, Preparable, Start, Suspend, Resume, Stop, Terminate,
       Tick, Reset, Destroy, TakeLog, ReleaseLog
  <2>2. CASE CallProceeds
    BY <2>2 DEF CallProceeds, PrepareSegment, StartRefused, StartSpawns,
       StartAborts, StopTimesOut, StopReaps, ReapReturns, TickReturns,
       ResetReturns, DestroyReturns
  <2>3. CASE GrabberStep
    BY <2>3 DEF GrabberStep, GrabberReads, GrabberAppends, GrabberEnds
  <2>4. CASE SketchRuns
    BY <2>4 DEF SketchRuns, SketchStep, CanRun, SketchOpens, SketchFinds,
       UserReturns, SketchChecksStop, SketchBeginsWrite, SketchEndsWrite,
       SketchLeaves, SketchCrashes, SketchBeginsDestroy, SketchExits
  <2>5. CASE UNCHANGED vars
    BY <2>5 DEF vars
  <2> QED
    BY <2>1, <2>2, <2>3, <2>4, <2>5 DEF Next
<1> QED
  BY <1>1, Invariance, PTL DEF Spec, FrozenWhileSuspended

\* A Board keeps the contract its frontend relies on: a process exists only
\* between start() and the end of the duty, one at a time, and the status moves
\* as BoardContract says and in no other way.
THEOREM Refinement == Spec => ContractSpec
<1>1. Init => Contract!Init
  BY DEF Init, NoProcess, Alive, Contract!Init
<1>2. IInv /\ [Next]_vars => [Contract!Next]_(Contract!cvars)
  <2> SUFFICES ASSUME IInv, [Next]_vars
               PROVE  Contract!Next \/ UNCHANGED <<status, Alive>>
    BY DEF Contract!cvars
  <2> USE DEF IInv, Consistent, CallInv, ProcessInv, OnDuty, Idle, Alive,
              boardVars, logVars, procVars, pipeVars, segVars,
              Contract!Next
  <2>1. ASSUME NEW c \in Confs, Configure(c) PROVE Contract!Configure
    BY <2>1 DEF Configure, Configurable, Contract!Configure
  <2>2. CASE Suspend
    BY <2>2 DEF Suspend, Contract!Suspend
  <2>3. CASE Resume
    BY <2>3 DEF Resume, Contract!Resume
  <2>4. ASSUME Terminate \/ Tick \/ Reset \/ Destroy
        PROVE  Contract!Die \/ UNCHANGED <<status, Alive>>
    BY <2>4 DEF Terminate, Tick, Reset, Destroy, KillAndWait, Contract!Die
  <2>5. ASSUME \/ \E s \in Sketches : \/ AttachSketch(s) \/ CompileBegins(s)
                                      \/ CompileSucceeds(s)
               \/ \E who \in {"caller", "other"} : TakeLog(who) \/ ReleaseLog(who)
               \/ Prepare \/ Start \/ Stop
        PROVE  UNCHANGED <<status, Alive>>
    BY <2>5 DEF AttachSketch, CompileBegins, CompileSucceeds, TakeLog, ReleaseLog,
       Prepare, Start, Stop
  <2>6. CASE PrepareSegment
    BY <2>6 DEF PrepareSegment, Preparing, Preparable, Contract!Prepare
  <2>7. CASE StartSpawns
    BY <2>7 DEF StartSpawns, Contract!Launch
  <2>8. CASE ReapReturns \/ TickReturns
    BY <2>8 DEF ReapReturns, TickReturns, Contract!Settle
  <2>9. CASE ResetReturns
    BY <2>9 DEF ResetReturns, Contract!Reset
  <2>10. ASSUME StartRefused \/ StartAborts \/ StopTimesOut \/ StopReaps
                \/ DestroyReturns \/ GrabberStep
         PROVE  UNCHANGED <<status, Alive>>
    BY <2>10 DEF StartRefused, StartAborts, StopTimesOut, StopReaps, ExitSeen,
       KillAndWait, DestroyReturns, GrabberStep, GrabberReads, GrabberAppends,
       GrabberEnds
  <2>11. CASE SketchRuns
    BY <2>11 DEF SketchRuns, SketchStep, CanRun, SketchOpens, SketchFinds,
       UserReturns, SketchChecksStop, SketchBeginsWrite, SketchEndsWrite,
       SketchLeaves, SketchCrashes, SketchBeginsDestroy, SketchExits, Contract!Die
  <2>12. CASE UNCHANGED vars
    BY <2>12 DEF vars
  <2> QED
    BY <2>1, <2>2, <2>3, <2>4, <2>5, <2>6, <2>7, <2>8, <2>9, <2>10, <2>11, <2>12
       DEF Next, Frontend, CallProceeds
<1> QED
  BY <1>1, <1>2, Invariance, PTL DEF Spec, ContractSpec, Contract!Spec
==============================================================================
