--------------------------- MODULE SharedBoardData ---------------------------
(***************************************************************************)
(* The shared-memory segment through which a Board and its sketch talk,    *)
(* and the host's SharedBoardData that owns it.                            *)
(*                                                                         *)
(* The segment holds one named object, the BoardData.  Of its contents     *)
(* only what the life cycle reads is kept: the configuration it was built  *)
(* from and its stop_requested flag.  find<> and destroy<> of the segment  *)
(* manager run under a process-shared mutex that is not robust: if its     *)
(* holder is killed nobody can ever take it again.                         *)
(***************************************************************************)
CONSTANTS
    Confs,      \* the board configurations the frontend may pass
    NoConf      \* no configuration / no BoardData object

ASSUME ConfAssumption == NoConf \notin Confs

VARIABLES
    named,          \* the operating system knows a segment by this Board's name
    data,           \* the BoardData: the configuration it was built from, or NoConf
    stopRequested,  \* BoardData::stop_requested
    segLock,        \* the segment manager's mutex
    hostBd,         \* host: m_bd # nullptr (never cleared by reset())
    master          \* host: m_master

segVars == <<named, data, stopRequested, segLock, hostBd, master>>

SegmentTypeOK ==
    /\ named \in BOOLEAN
    /\ data \in Confs \cup {NoConf}
    /\ stopRequested \in BOOLEAN
    /\ segLock \in {"free", "sketch", "orphaned"}
    /\ hostBd \in BOOLEAN
    /\ master \in BOOLEAN

\* A SharedBoardData as its default constructor leaves it.
NoSegment ==
    /\ named = FALSE
    /\ data = NoConf
    /\ stopRequested = FALSE
    /\ segLock = "free"
    /\ hostBd = FALSE
    /\ master = FALSE

\* find<BoardData> and destroy<BoardData> wait here, for ever if the holder died.
CanLock == segLock = "free"

\* Whether removing our own name still leaves the name taken by someone else:
\* create_only then throws.
NameTaken == named /\ ~master

\* A variant of SbdConfigure: a segment that is there already is kept as it is.
SbdConfigure_Kept(c) ==
    /\ named' = TRUE
    /\ data' = IF hostBd THEN data ELSE c
    /\ hostBd' = TRUE
    /\ master' = TRUE
    /\ UNCHANGED <<stopRequested, segLock>>

\* The host's SharedBoardData::configure: reset(), then a new segment under the
\* same name, with a new BoardData in it.
SbdConfigure(c) ==
    /\ hostBd => CanLock
    /\ named' = TRUE
    /\ data' = c
    /\ stopRequested' = FALSE
    /\ segLock' = "free"
    /\ hostBd' = TRUE
    /\ master' = TRUE

\* ~SharedBoardData of the host: reset() and the object is gone.
SbdDestroy ==
    /\ hostBd => CanLock
    /\ named' = NameTaken
    /\ data' = NoConf
    /\ stopRequested' = FALSE
    /\ segLock' = "free"
    /\ hostBd' = FALSE
    /\ master' = FALSE

\* reset() as the sketch's ~SharedBoardData runs it: it destroys the BoardData
\* both processes use, and leaves the name to its master.
SketchDestroysData ==
    /\ CanLock
    /\ data' = NoConf
    /\ stopRequested' = FALSE
    /\ segLock' = "sketch"
    /\ UNCHANGED <<named, hostBd, master>>
==============================================================================
