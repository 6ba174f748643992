-------------------------------- MODULE Board --------------------------------
(***************************************************************************)
(* smce::Board: the host object that configures a virtual board, runs a    *)
(* compiled sketch on it in a child process and reports how the run ended. *)
(*                                                                         *)
(* All members of a Board are called from one thread of the frontend.  A   *)
(* call that cannot block is one action.  A call that can (it waits for    *)
(* the process, for the log grabber thread, or for the segment's mutex) is *)
(* an action that starts it, and the variable "call" says where it waits.  *)
(* A refused call returns false and changes nothing, and is not an action. *)
(***************************************************************************)
EXTENDS SketchRuntime

CONSTANTS
    Devices,        \* the generated device types
    Required,       \* Required[s]: the devices sketch s is generated for
    Provided,       \* Provided[c]: the devices of configuration c
    SuspendSignals  \* suspend() is compiled to stop the process: __unix__, Windows

ASSUME DeviceAssumption ==
    /\ Required \in [Sketches -> SUBSET Devices]
    /\ Provided \in [Confs -> SUBSET Devices]
    /\ SuspendSignals \in BOOLEAN

VARIABLES
    status,     \* m_status
    conf,       \* m_conf_opt
    attached,   \* m_sketch_ptr
    compiled,   \* the sketches whose m_built is set
    call,       \* the member function in progress
    grabber,    \* m_internal->sketch_log_grabber
    logMtx,     \* who among the frontend's threads holds a LockedLog
    asked,      \* history: stop() was called during this run
    notice      \* history: what exit_notify was told about this run

boardVars == <<status, conf, attached, compiled, call, asked, notice>>
logVars == <<grabber, logMtx, pipeVars>>
vars == <<boardVars, logVars, procVars, segVars>>

Statuses == {"clean", "configured", "prepared", "running", "suspended", "stopped"}
OnDuty == {"running", "suspended"}

\* Calls past do_reap or do_sweep's wait, where only the grabber is left to join.
Joining == {"stop", "terminate", "tick", "reset", "destroy"}
Preparing == {"prepare", "start_prepare"}
\* "aborted": std::terminate took the host down; "gone": the Board was destroyed.
Over == {"aborted", "gone"}
Calls == {"none", "start", "stop_wait"} \cup Joining \cup Preparing \cup Over

TypeOK ==
    /\ SegmentTypeOK
    /\ SketchTypeOK
    /\ status \in Statuses
    /\ conf \in Confs \cup {NoConf}
    /\ attached \in Sketches \cup {NoSketch}
    /\ compiled \in SUBSET Sketches
    /\ call \in Calls
    /\ grabber \in {"none", "reading", "holding", "done"}
    /\ logMtx \in {"free", "caller", "other"}
    /\ asked \in BOOLEAN
    /\ notice \in Endings

Init ==
    /\ NoSegment
    /\ NoProcess
    /\ ending = "none"
    /\ unread = 0
    /\ pipeOpen = TRUE
    /\ piped = TRUE
    /\ lost = FALSE
    /\ status = "clean"
    /\ conf = NoConf
    /\ attached = NoSketch
    /\ compiled = {}
    /\ call = "none"
    /\ grabber = "none"
    /\ logMtx = "free"
    /\ asked = FALSE
    /\ notice = "none"

Idle == call = "none"
-----------------------------------------------------------------------------
\* Toolchain::compile of a sketch: m_built is cleared first and set again when
\* everything worked.  It runs in a thread of its own, attached sketch or not.
CompileBegins(s) ==
    /\ s \in compiled
    /\ compiled' = compiled \ {s}
    /\ UNCHANGED <<status, conf, attached, call, asked, notice,
                   logVars, procVars, segVars>>

CompileSucceeds(s) ==
    /\ s \notin compiled
    /\ compiled' = compiled \cup {s}
    /\ UNCHANGED <<status, conf, attached, call, asked, notice,
                   logVars, procVars, segVars>>

Configurable == status \in {"clean", "configured"}

\* A variant of Preparable: a running board may be prepared again.
Preparable_Running == status \in {"configured", "stopped", "running"}

Preparable == status \in {"configured", "stopped"}

AttachSketch(s) ==
    /\ Idle /\ status \notin OnDuty
    /\ attached' = s
    /\ UNCHANGED <<status, conf, compiled, call, asked, notice,
                   logVars, procVars, segVars>>

Configure(c) ==
    /\ Idle /\ Configurable
    /\ conf' = c
    /\ status' = "configured"
    /\ UNCHANGED <<attached, compiled, call, asked, notice,
                   logVars, procVars, segVars>>

Prepare ==
    /\ Idle /\ Preparable
    /\ call' = "prepare"
    /\ UNCHANGED <<status, conf, attached, compiled, asked, notice,
                   logVars, procVars, segVars>>

\* A variant of NeedsPrepare: start() leaves preparing to the caller.
NeedsPrepare_Never == FALSE

NeedsPrepare == status = "configured"

\* start() prepares a board that was only configured, whatever comes of the rest.
Start ==
    /\ Idle /\ status \in {"configured", "prepared", "stopped"}
    /\ call' = IF NeedsPrepare THEN "start_prepare" ELSE "start"
    /\ UNCHANGED <<status, conf, attached, compiled, asked, notice,
                   logVars, procVars, segVars>>

\* The body of prepare().  Were the name still taken, create_only would throw out
\* of a noexcept function.
PrepareSegment ==
    /\ call \in Preparing
    /\ SbdConfigure(conf)
    /\ status' = "prepared"
    /\ call' = CASE NameTaken -> "aborted"
                 [] ~NameTaken /\ call = "prepare" -> "none"
                 [] OTHER -> "start"
    /\ UNCHANGED <<conf, attached, compiled, asked, notice, logVars, procVars>>

\* A variant of Startable: the sketch's devices are not looked for.
Startable_NoDevices == attached # NoSketch /\ attached \in compiled

Startable ==
    /\ attached # NoSketch
    /\ attached \in compiled
    /\ Required[attached] \subseteq Provided[conf]

StartRefused ==
    /\ call = "start"
    /\ ~Startable
    /\ call' = "none"
    /\ UNCHANGED <<status, conf, attached, compiled, asked, notice,
                   logVars, procVars, segVars>>

\* do_spawn: the process, then the thread that reads its stderr.
StartSpawns ==
    /\ call = "start"
    /\ Startable
    /\ phase' = "spawned"
    /\ image' = attached
    /\ sketchBd' = FALSE
    /\ frozen' = FALSE
    /\ ending' = "none"
    /\ grabber' = "reading"
    /\ status' = "running"
    /\ call' = "none"
    /\ asked' = FALSE
    /\ notice' = "none"
    /\ piped' = pipeOpen
    /\ lost' = FALSE
    /\ UNCHANGED <<conf, attached, compiled, logMtx, unread, pipeOpen, segVars>>

\* A run that follows another on the same Internal hands bp::child the pipe its
\* predecessor's grabber closed.  Boost.Process may refuse it with an exception,
\* which cannot leave do_spawn; or it may start a process whose stderr is lost.
StartAborts ==
    /\ call = "start"
    /\ Startable
    /\ ~pipeOpen
    /\ call' = "aborted"
    /\ UNCHANGED <<status, conf, attached, compiled, asked, notice,
                   logVars, procVars, segVars>>
-----------------------------------------------------------------------------
StopsProcess == SuspendSignals /\ Alive

Suspend ==
    /\ Idle /\ status = "running"
    /\ frozen' = StopsProcess
    /\ status' = "suspended"
    /\ UNCHANGED <<conf, attached, compiled, call, asked, notice,
                   phase, image, sketchBd, ending, logVars, segVars>>

Resume ==
    /\ Idle /\ status = "suspended"
    /\ frozen' = FALSE
    /\ status' = "running"
    /\ UNCHANGED <<conf, attached, compiled, call, asked, notice,
                   phase, image, sketchBd, ending, logVars, segVars>>

\* stop() sets the flag through m_bd without asking whether the BoardData is still
\* there, then waits for the process.
Stop ==
    /\ Idle /\ status = "running"
    /\ stopRequested' = (data # NoConf)
    /\ asked' = TRUE
    /\ call' = "stop_wait"
    /\ UNCHANGED <<status, conf, attached, compiled, notice, logVars, procVars,
                   named, data, segLock, hostBd, master>>

StopTimesOut ==
    /\ call = "stop_wait"
    /\ Alive
    /\ call' = "none"
    /\ UNCHANGED <<status, conf, attached, compiled, asked, notice,
                   logVars, procVars, segVars>>

\* A variant of ExitSeen: the process is not asked.
ExitSeen_Unchecked == TRUE

\* What waitpid says of the process; a suspended one counts as running.
ExitSeen == ~Alive

StopReaps ==
    /\ call = "stop_wait"
    /\ ExitSeen
    /\ KillAndWait
    /\ call' = "stop"
    /\ UNCHANGED <<status, conf, attached, compiled, asked, notice, logVars>>

Terminate ==
    /\ Idle /\ status \in OnDuty
    /\ KillAndWait
    /\ call' = "terminate"
    /\ UNCHANGED <<status, conf, attached, compiled, asked, notice, logVars>>

\* A variant of Ticked: a suspended board is not looked at.
Ticked_RunningOnly == status = "running"

Ticked == status \in OnDuty

\* tick() finds that the process is no longer running: do_sweep.
Tick ==
    /\ Idle /\ Ticked
    /\ ExitSeen
    /\ KillAndWait
    /\ call' = "tick"
    /\ UNCHANGED <<status, conf, attached, compiled, asked, notice, logVars>>

\* reset() and ~Board reap first; reset() is refused while a sketch is on duty.
Reset ==
    /\ Idle /\ status \notin OnDuty
    /\ KillAndWait
    /\ call' = "reset"
    /\ UNCHANGED <<status, conf, attached, compiled, asked, notice, logVars>>

\* A variant of Destroy: a defaulted destructor.
Destroy_NoReap ==
    /\ Idle
    /\ call' = "destroy"
    /\ UNCHANGED <<status, conf, attached, compiled, asked, notice, logVars,
                   procVars, segVars>>

Destroy ==
    /\ Idle
    /\ KillAndWait
    /\ call' = "destroy"
    /\ UNCHANGED <<status, conf, attached, compiled, asked, notice, logVars>>
-----------------------------------------------------------------------------
\* A variant of Joinable: the thread is not waited for.
Joinable_Detached == TRUE

\* The grabber thread has returned, or there is none: join() does not block.
Joinable == grabber \in {"none", "done"}

\* stop() and terminate() return after the join.
ReapReturns ==
    /\ call \in {"stop", "terminate"}
    /\ Joinable
    /\ grabber' = "none"
    /\ status' = "stopped"
    /\ call' = "none"
    /\ UNCHANGED <<conf, attached, compiled, asked, notice,
                   logMtx, pipeVars, procVars, segVars>>

\* tick() tells exit_notify how the process ended, once the board is stopped.
TickReturns ==
    /\ call = "tick"
    /\ Joinable
    /\ grabber' = "none"
    /\ status' = "stopped"
    /\ notice' = ending
    /\ call' = "none"
    /\ UNCHANGED <<conf, attached, compiled, asked,
                   logMtx, pipeVars, procVars, segVars>>

\* A fresh Internal: the old one's segment goes, and its pipe is replaced.
ResetReturns ==
    /\ call = "reset"
    /\ Joinable
    /\ SbdDestroy
    /\ grabber' = "none"
    /\ unread' = 0
    /\ pipeOpen' = TRUE
    /\ piped' = TRUE
    /\ lost' = FALSE
    /\ attached' = NoSketch
    /\ conf' = NoConf
    /\ status' = "clean"
    /\ call' = "none"
    /\ UNCHANGED <<compiled, asked, notice, logMtx, procVars>>

DestroyReturns ==
    /\ call = "destroy"
    /\ Joinable
    /\ SbdDestroy
    /\ grabber' = "none"
    /\ call' = "gone"
    /\ UNCHANGED <<status, conf, attached, compiled, asked, notice,
                   logMtx, pipeVars, procVars>>
-----------------------------------------------------------------------------
\* runtime_log() and the end of the LockedLog it returns.  The thread that calls
\* the Board's members may keep one over a call; any other thread may as well.
TakeLog(who) ==
    /\ call \notin Over
    /\ who = "caller" => Idle
    /\ logMtx = "free"
    /\ logMtx' = who
    /\ UNCHANGED <<boardVars, grabber, pipeVars, procVars, segVars>>

ReleaseLog(who) ==
    /\ call \notin Over
    /\ who = "caller" => Idle
    /\ logMtx = who
    /\ logMtx' = "free"
    /\ UNCHANGED <<boardVars, grabber, pipeVars, procVars, segVars>>

Readable(n) == n <= unread

\* The grabber takes what the pipe offers out of it, then appends it to the log.
GrabberReads(n) ==
    /\ call \notin Over
    /\ grabber = "reading" /\ pipeOpen
    /\ Readable(n)
    /\ unread' = unread - n
    /\ grabber' = "holding"
    /\ UNCHANGED <<boardVars, logMtx, pipeOpen, piped, lost, procVars, segVars>>

GrabberAppends ==
    /\ call \notin Over
    /\ grabber = "holding"
    /\ logMtx = "free"
    /\ grabber' = "reading"
    /\ UNCHANGED <<boardVars, logMtx, pipeVars, procVars, segVars>>

\* A variant of AtEof: the host keeps a writing end of the pipe to itself.
AtEof_SinkKept == ~pipeOpen

\* The stream ends when the pipe is empty and has no writer left; a stream that
\* ended in an earlier run is never good again, and is not read at all.
AtEof == ~pipeOpen \/ (unread = 0 /\ ~Alive)

GrabberEnds ==
    /\ call \notin Over
    /\ grabber = "reading"
    /\ AtEof
    /\ pipeOpen' = FALSE
    /\ grabber' = "done"
    /\ UNCHANGED <<boardVars, logMtx, unread, piped, lost, procVars, segVars>>
-----------------------------------------------------------------------------
\* The sketch process does not depend on the host's staying alive, but once the
\* host is gone nothing of this model observes it.
SketchRuns ==
    /\ call \notin Over
    /\ SketchStep
    /\ UNCHANGED <<boardVars, grabber, logMtx>>

Frontend ==
    \/ \E s \in Sketches : AttachSketch(s) \/ CompileBegins(s) \/ CompileSucceeds(s)
    \/ \E c \in Confs : Configure(c)
    \/ Prepare \/ Start \/ Suspend \/ Resume \/ Stop \/ Terminate \/ Tick
    \/ Reset \/ Destroy
    \/ \E who \in {"caller", "other"} : TakeLog(who) \/ ReleaseLog(who)

\* What goes on inside a call that was begun.
CallProceeds ==
    \/ PrepareSegment \/ StartRefused \/ StartSpawns \/ StartAborts
    \/ StopTimesOut \/ StopReaps
    \/ ReapReturns \/ TickReturns \/ ResetReturns \/ DestroyReturns

GrabberStep ==
    \/ \E n \in 1..PipeCap : GrabberReads(n)
    \/ GrabberAppends \/ GrabberEnds

Next == Frontend \/ CallProceeds \/ GrabberStep \/ SketchRuns

Spec == Init /\ [][Next]_vars

(***************************************************************************)
(* Fairness.  The host thread, the grabber thread and a process that is    *)
(* not stopped are scheduled; stop() has a timeout; tick() is documented   *)
(* to be called in the frontend's physics loop (Board.hpp:72).  That       *)
(* setup() and loop() return is an assumption about the sketch, which is   *)
(* the premise of StopIsObeyed.                                            *)
(***************************************************************************)
Fairness ==
    /\ WF_vars(CallProceeds)
    /\ WF_vars(GrabberStep)
    /\ WF_vars(SketchProgress /\ SketchRuns)
    /\ WF_vars(Tick)

FairSpec == Spec /\ Fairness

\* setup() and loop() return again and again, while the process is not stopped.
WellBehaved == SF_vars(UserReturns /\ SketchRuns)
-----------------------------------------------------------------------------
(***************************************************************************)
(* Properties                                                              *)
(***************************************************************************)

\* A board that is not on duty, or was destroyed, has neither a process nor a
\* log thread, whichever of exit, stop, terminate, reset and destruction came
\* in which order (do_spawn assigns over both: a joinable thread there would end
\* the host).
NothingLeftBehind ==
    (Idle /\ status \notin OnDuty) \/ call = "gone" =>
        phase = "none" /\ grabber = "none"

SketchUsesData == sketchBd /\ phase \in {"user", "writing", "check", "exiting"}

\* Nobody takes the BoardData away from under a sketch that found it, nor from a
\* prepared board, and it is always the one built from the configuration that
\* start() checked the sketch against.
BoardDataIntact ==
    SketchUsesData \/ (status = "prepared" /\ call # "gone") =>
        data = conf /\ conf # NoConf

\* Whatever is attached, configured or recompiled in the meantime, the process
\* on the board is the attached sketch's, and has all the devices it was
\* generated for.
LaunchWasChecked ==
    Alive =>
        /\ image = attached
        /\ Required[image] \subseteq Provided[conf]

\* When stop(), terminate() or tick() has reported the end of a run that was given
\* an open pipe, whatever it wrote to stderr, up to its death, was written into
\* that pipe and taken out of it again.  A run that follows another on the same
\* Internal gets no open pipe: StderrIsLogged, below, is about those.
LogComplete ==
    Idle /\ status = "stopped" => unread = 0 /\ (piped => ~lost)

\* The operating system holds a segment of this board's name exactly from its
\* first prepare() to its reset() or destruction, and it is the host's to remove:
\* create_only never collides and nothing is leaked.
SegmentOwned ==
    /\ named <=> master
    /\ named <=> (status \notin {"clean", "configured"} /\ call # "gone")

\* The host thread waits for the segment's mutex only if a killed sketch took it
\* to the grave: never for a sketch that could still release it, and so never
\* with an unbounded wait that a slow sketch decides.
HostWaitsOnlyForTheDead ==
    call \in Preparing \cup {"reset", "destroy"} => segLock # "sketch"

\* exit_notify hears only of runs whose process ended by itself, and hears how
\* that very process ended: never of a run that the board killed.
NoticeMeansSelfExit == notice # "none" => notice = ending /\ ending # "killed"

\* Between suspend() and the next call that ends the suspension the sketch
\* process does not advance, where suspend() is compiled to signal at all.
FrozenWhileSuspended ==
    [][SuspendSignals /\ status = "suspended" /\ status' = "suspended" /\ Idle'
         => UNCHANGED <<phase, data, stopRequested, segLock>>]_vars

\* A call of a member function returns, unless a mutex it needs is held: the
\* segment's by a dead sketch, or the log's by some thread of the frontend.
CallsReturn ==
    call \notin {"none"} \cup Over ~>
        \/ call \in {"none"} \cup Over
        \/ segLock = "orphaned"
        \/ logMtx # "free"

\* A process that ended by itself is reported (or the board is destroyed), as long
\* as the frontend ticks and does not sit on the log.
ExitIsReported ==
    phase = "zombie" ~>
        status = "stopped" \/ call \in Over \/ logMtx # "free"

\* A stop request reaches a sketch that found its BoardData, if loop() returns, the
\* process is not suspended again and the log keeps being drained: the process
\* ends, even after the stop() call itself gave up waiting.
StopIsObeyed ==
    WellBehaved =>
        ((stopRequested /\ sketchBd /\ Alive) ~>
            ~Alive \/ frozen \/ logMtx # "free" \/ call \in Over)
-----------------------------------------------------------------------------
(***************************************************************************)
(* The inductive invariant behind the safety properties                    *)
(***************************************************************************)

\* Which call can be in progress in which status.
CallInv ==
    /\ call = "prepare" => Preparable
    /\ call = "start_prepare" => status = "configured"
    /\ call \in {"start", "aborted"} => status \in {"prepared", "stopped"}
    /\ call = "stop_wait" => status = "running"
    /\ call \in {"stop", "terminate", "tick"} => status \in OnDuty
    /\ call = "reset" => status \notin OnDuty

\* There is a process exactly while the board is on duty and not yet reaping, and
\* a log thread exactly until the reaping call has joined it.
ProcessInv ==
    /\ phase # "none" <=> status \in OnDuty /\ call \in {"none", "stop_wait"}
    /\ phase # "none" => grabber # "none"
    /\ grabber # "none" =>
         /\ status \in OnDuty
         /\ call \in {"none", "stop_wait", "stop", "terminate", "tick", "destroy"}

\* The segment exists from the first prepare() on, its BoardData is the one of
\* m_conf_opt or none at all, and a sketch holds the mutex exactly in find and
\* destroy.
SegmentInv ==
    /\ master = named /\ hostBd = named
    /\ named <=> (status \notin {"clean", "configured"} /\ call # "gone")
    /\ data \in {NoConf, conf}
    /\ status \in {"clean", "configured"} => data = NoConf
    /\ status # "clean" => conf \in Confs
    /\ status = "prepared" /\ call # "gone" => data = conf
    /\ SketchUsesData => data = conf
    /\ sketchBd => phase \notin {"none", "spawned", "finding"}
    /\ segLock = "sketch" <=> phase \in {"finding", "destroying"}

\* The process is the attached sketch's and was checked against m_conf_opt.
LaunchInv ==
    phase # "none" =>
        /\ attached # NoSketch
        /\ image = attached
        /\ Required[attached] \subseteq Provided[conf]

\* What is in the pipe has a reader, and a pipe is not closed under its process.
LogInv ==
    /\ unread # 0 => pipeOpen /\ grabber \in {"reading", "holding"}
    /\ grabber = "done" => ~pipeOpen
    /\ piped => ~lost /\ (Alive => pipeOpen)

\* A run that can still be reported has not been, nor was it killed.
NoticeInv ==
    /\ NoticeMeansSelfExit
    /\ phase # "none" => notice = "none"
    /\ phase # "none" \/ call = "tick" => ending # "killed"

FrozenInv == SuspendSignals /\ status = "suspended" /\ Alive => frozen

Consistent ==
    /\ CallInv /\ ProcessInv /\ SegmentInv
    /\ LaunchInv /\ LogInv /\ NoticeInv /\ FrozenInv

\* Holds in every reachable state and is preserved by every step: what the proofs
\* of the properties above rest on.
IInv == TypeOK /\ Consistent
-----------------------------------------------------------------------------
(***************************************************************************)
(* What the documentation says and the code does not do                    *)
(***************************************************************************)

\* view() hands out a valid view in these states (Board.cpp:71).
ViewValid == status \in {"prepared"} \cup OnDuty

\* BoardView.hpp:276: operations on a view "never cause UB".  A valid view would
\* have to be a view of an existing BoardData.
ViewNeverDangles == Idle /\ ViewValid => data # NoConf

\* BoardView.hpp:305: stop_requested() is "whether or not there is an active stop
\* request from the host".  One that the sketch sees would be of its own run.
StopRequestIsActive == Alive /\ sketchBd /\ stopRequested => asked

\* Board.hpp:54: exit_notify is the "handler of the sketch's unexpected exit".  An
\* exit the host asked for would not be reported through it.
NoticeIsUnexpected == notice # "obeyed"

\* What runtime_log() hands out (Board.hpp:84, printed after a run by
\* test/Polyfills.cpp:84) would have all that the reported run wrote to stderr,
\* whichever run on its Internal it was.  From the second run on there is only the
\* pipe that the first one's grabber closed (Board.cpp:248).
StderrIsLogged == Idle /\ status = "stopped" => unread = 0 /\ ~lost
-----------------------------------------------------------------------------
\* The contract a frontend relies on; its process is the one of this Board.
Contract == INSTANCE BoardContract WITH alive <- Alive

\* status() and the sketch process move as BoardContract says: start() launches only
\* when no process is left, and the board leaves running and suspended only when
\* its process has ended, however exits, calls and timeouts interleave.
ContractSpec == Contract!Spec
==============================================================================
