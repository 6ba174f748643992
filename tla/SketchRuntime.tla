---------------------------- MODULE SketchRuntime ----------------------------
(***************************************************************************)
(* One sketch process: SMCE__main and the sbd global of the Ardrivo        *)
(* runtime, around the user's setup() and loop().  The process can be      *)
(* frozen (SIGSTOP) between any two steps.  "user" is setup() or loop();   *)
(* what the user's code does there is left open: it may return, write to   *)
(* stderr, throw, exit or crash.                                           *)
(***************************************************************************)
EXTENDS SharedBoardData, Naturals

CONSTANTS
    Sketches,   \* the sketches the frontend may attach
    NoSketch,
    PipeCap     \* how many chunks the stderr pipe holds before a writer blocks

ASSUME SketchAssumption == NoSketch \notin Sketches /\ PipeCap \in Nat \ {0}

VARIABLES
    phase,      \* where the process is
    image,      \* the sketch it was spawned from
    sketchBd,   \* in the sketch: sbd.m_bd # nullptr, hence board_view is bound
    frozen,     \* the process is stopped by SIGSTOP
    ending,     \* how the process of the latest run ended
    unread,     \* chunks of stderr in the pipe
    pipeOpen,   \* the host's ipstream still has its pipe
    piped,      \* history: the latest run was given a pipe that was open
    lost        \* history: the latest run wrote text that no pipe took

procVars == <<phase, image, sketchBd, frozen, ending>>
pipeVars == <<unread, pipeOpen, piped, lost>>

Phases == {"none", "spawned", "finding", "user", "writing", "check",
           "exiting", "destroying", "zombie"}
Endings == {"none", "obeyed", "left", "crashed", "killed"}

Alive == phase \notin {"none", "zombie"}
CanRun == Alive /\ ~frozen

SketchTypeOK ==
    /\ phase \in Phases
    /\ image \in Sketches \cup {NoSketch}
    /\ sketchBd \in BOOLEAN
    /\ frozen \in BOOLEAN
    /\ ending \in Endings
    /\ unread \in 0..PipeCap
    /\ {pipeOpen, piped, lost} \subseteq BOOLEAN

NoProcess ==
    /\ phase = "none"
    /\ image = NoSketch
    /\ sketchBd = FALSE
    /\ frozen = FALSE

\* maybe_init: the segment is opened by name; a missing one throws and SMCE__main
\* returns EXIT_FAILURE.  Otherwise find<BoardData> starts, under the mutex.
SketchOpens ==
    /\ CanRun /\ phase = "spawned"
    /\ named => CanLock
    /\ phase' = IF named THEN "finding" ELSE "exiting"
    /\ segLock' = IF named THEN "sketch" ELSE segLock
    /\ ending' = IF named THEN ending ELSE "left"
    /\ UNCHANGED <<image, sketchBd, frozen, pipeVars,
                   named, data, stopRequested, hostBd, master>>

\* find<BoardData> ends; its null result is not checked: board_view is bound to
\* *nullptr, which makes it an invalid view, and setup() starts.
SketchFinds ==
    /\ CanRun /\ phase = "finding"
    /\ phase' = "user"
    /\ sketchBd' = (data # NoConf)
    /\ segLock' = "free"
    /\ UNCHANGED <<image, frozen, ending, pipeVars,
                   named, data, stopRequested, hostBd, master>>

\* setup() or loop() returns.
UserReturns ==
    /\ CanRun /\ phase = "user"
    /\ phase' = "check"
    /\ UNCHANGED <<image, sketchBd, frozen, ending, pipeVars, segVars>>

\* A variant of SeesStop: board_view is never bound.
SeesStop_ViewUnbound == FALSE

\* BoardView::stop_requested in the sketch: an invalid view never reports a stop.
SeesStop == sketchBd /\ stopRequested

\* The condition of SMCE__main's while loop.
SketchChecksStop ==
    /\ CanRun /\ phase = "check"
    /\ IF SeesStop
         THEN phase' = "exiting" /\ ending' = "obeyed"
         ELSE phase' = "user" /\ UNCHANGED ending
    /\ UNCHANGED <<image, sketchBd, frozen, pipeVars, segVars>>

PipeHasRoom == pipeOpen => unread < PipeCap

\* The sketch's code writes to stderr, and blocks while the pipe is full.  Without
\* a pipe the text is lost.
SketchBeginsWrite ==
    /\ CanRun /\ phase = "user"
    /\ phase' = "writing"
    /\ UNCHANGED <<image, sketchBd, frozen, ending, pipeVars, segVars>>

SketchEndsWrite ==
    /\ CanRun /\ phase = "writing"
    /\ PipeHasRoom
    /\ unread' = IF pipeOpen THEN unread + 1 ELSE unread
    /\ phase' = "user"
    /\ lost' = (lost \/ ~pipeOpen)
    /\ UNCHANGED <<image, sketchBd, frozen, ending, pipeOpen, piped, segVars>>

\* The sketch's code throws (caught in SMCE__main) or calls exit().
SketchLeaves ==
    /\ CanRun /\ phase = "user"
    /\ phase' = "exiting"
    /\ ending' = "left"
    /\ UNCHANGED <<image, sketchBd, frozen, pipeVars, segVars>>

\* The sketch's code dies of a signal: no destructor runs.
SketchCrashes ==
    /\ CanRun /\ phase = "user"
    /\ phase' = "zombie"
    /\ ending' = "crashed"
    /\ UNCHANGED <<image, sketchBd, frozen, pipeVars, segVars>>

\* Static destruction: ~SharedBoardData of the sketch's sbd.
SketchBeginsDestroy ==
    /\ CanRun /\ phase = "exiting"
    /\ sketchBd
    /\ SketchDestroysData
    /\ phase' = "destroying"
    /\ UNCHANGED <<image, sketchBd, frozen, ending, pipeVars>>

SketchExits ==
    /\ CanRun
    /\ \/ phase = "destroying" /\ segLock' = "free"
       \/ phase = "exiting" /\ ~sketchBd /\ UNCHANGED segLock
    /\ phase' = "zombie"
    /\ UNCHANGED <<image, sketchBd, frozen, ending, pipeVars,
                   named, data, stopRequested, hostBd, master>>

SketchStep ==
    \/ SketchOpens \/ SketchFinds \/ UserReturns \/ SketchChecksStop
    \/ SketchBeginsWrite \/ SketchEndsWrite \/ SketchLeaves \/ SketchCrashes
    \/ SketchBeginsDestroy \/ SketchExits

\* The steps the operating system owes a runnable process: all but what the
\* user's code may or may not choose to do.
SketchProgress ==
    \/ SketchOpens \/ SketchFinds \/ SketchChecksStop \/ SketchEndsWrite
    \/ SketchBeginsDestroy \/ SketchExits

\* The host kills the process and waits for it; a mutex it held stays locked.
KillAndWait ==
    /\ phase' = "none"
    /\ image' = NoSketch
    /\ sketchBd' = FALSE
    /\ frozen' = FALSE
    /\ ending' = IF Alive THEN "killed" ELSE ending
    /\ segLock' = IF segLock = "sketch" THEN "orphaned" ELSE segLock
    /\ UNCHANGED <<named, data, stopRequested, hostBd, master>>
==============================================================================
