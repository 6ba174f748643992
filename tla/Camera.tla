-------------------------------- MODULE Camera --------------------------------
(***************************************************************************)
(* The Arduino driver of the OV767X camera in a sketch, over the frame     *)
(* buffers it shares with the host.  begin() and end() set the dimensions  *)
(* and the frequency one by one; the buffer is looked up by a key that     *)
(* setPins() computes, at every call anew.                                 *)
(***************************************************************************)
EXTENDS FrameBuffer

CONSTANTS
    Keys,        \* bound: the keys setPins() may compute
    FirstKey,    \* the key of the default pins
    Resolutions  \* the table of resolutions: a sequence of <<width, height>>

ASSUME CameraAssumption ==
    /\ Keys \subseteq Nat /\ FirstKey \in Keys
    /\ Resolutions \in Seq(Nat \X Nat)

VARIABLES
    cam,    \* the OV767X: m_key, m_format, m_begun; history: missing, the last
            \* begin() with these pins said that there is no such frame buffer
    sizer   \* history: sizer[i], who sized buffer i: "host" if the host has since
            \* begin() or end() did, "left behind" if setPins() moved the begun
            \* camera away from it, "camera" otherwise

vars == <<fbVars, cam, sizer>>

Init == /\ FbInit
        /\ cam = [key |-> FirstKey, format |-> "RGB888", begun |-> FALSE, missing |-> FALSE]
        /\ sizer = [i \in 1..Len(Conf) |-> "camera"]

SetPins(k) ==
    LET i == Find(cam.key) IN
    /\ Free(Sketch)
    /\ cam' = [cam EXCEPT !.key = k, !.missing = FALSE]
    /\ sizer' = IF cam.begun /\ k # cam.key /\ Exists(i) /\ sizer[i] = "camera"
                THEN [sizer EXCEPT ![i] = "left behind"] ELSE sizer
    /\ UNCHANGED fbVars

\* The checks of begin() in their order; a known format is kept even if a later
\* check fails.  r = 0 stands for an unknown resolution.
BeginError(r, fmt) ==
    CASE fmt \notin Formats -> "Unknown format"
      [] r = 0 -> "Unknown resolution"
      [] ~Exists(Find(cam.key)) -> "Framebuffer does not exist"
      [] fbs[Find(cam.key)].direction # "in" -> "Framebuffer not in input mode"
      [] OTHER -> "nothing"

BeginFails(r, fmt) ==
    /\ Free(Sketch) /\ ~cam.begun
    /\ BeginError(r, fmt) # "nothing"
    /\ cam' = [cam EXCEPT !.missing = (BeginError(r, fmt) = "Framebuffer does not exist"),
                          !.format = IF fmt \in Formats THEN fmt ELSE @]
    /\ UNCHANGED <<fbVars, sizer>>

Begin(r, fmt, f) ==
    LET i == Find(cam.key) IN
    /\ ~cam.begun /\ BeginError(r, fmt) = "nothing"
    /\ CallSet(Sketch, "begin", i, "width", Resolutions[r][1], Resolutions[r][2], f)
    /\ cam' = [cam EXCEPT !.missing = FALSE, !.format = fmt]
    /\ sizer' = [sizer EXCEPT ![i] = "camera"]

\* The setters of a buffer that is not found do nothing.
End ==
    LET i == Find(cam.key) IN
    /\ cam.begun
    /\ IF Exists(i)
       THEN /\ CallSet(Sketch, "end", i, "width", 0, 0, 0)
            /\ sizer' = [sizer EXCEPT ![i] = "camera"]
            /\ UNCHANGED cam
       ELSE /\ Free(Sketch)
            /\ cam' = [cam EXCEPT !.begun = FALSE]
            /\ UNCHANGED <<fbVars, sizer>>

\* begin() and end() set one after the other; m_begun is set last.
CameraSets ==
    /\ \/ SetDimension(Sketch) /\ UNCHANGED cam
       \/ StoreFreq(Sketch) /\ cam' = [cam EXCEPT !.begun = (op[Sketch].call = "begin")]
    /\ UNCHANGED sizer

HostSets(h) ==
    /\ \/ SetDimension(h) /\ sizer' = [sizer EXCEPT ![op[h].fb] = "host"]
       \/ StoreFreq(h) /\ UNCHANGED sizer
    /\ UNCHANGED cam

\* A variant of BitsPerPixel: RGB444 counted with its 12 significant bits.
BitsPerPixel_Packed == IF cam.format = "RGB888" THEN 24 ELSE 12

BitsPerPixel == IF cam.format = "RGB888" THEN 24 ELSE 16

\* The size readFrame() gives the caller's buffer.
FrameBytes(i) == (BitsPerPixel * fbs[i].width * fbs[i].height) \div 8

\* The dimensions are read and the size is checked in one step.
ReadFrame ==
    /\ cam.begun
    /\ LET i == Find(cam.key) IN CallRead(Sketch, i, cam.format, FrameBytes(i))
    /\ UNCHANGED <<cam, sizer>>

Flip(flag, val) ==
    /\ cam.begun
    /\ CallFlip(Sketch, Find(cam.key), flag, val)
    /\ UNCHANGED <<cam, sizer>>

CameraCalls ==
    \/ \E k \in Keys : SetPins(k)
    \/ \E r \in 0..Len(Resolutions), fmt \in Formats \cup {"RGB565"} : BeginFails(r, fmt)
    \/ \E r \in 1..Len(Resolutions), fmt \in Formats, f \in Rates : Begin(r, fmt, f)
    \/ End
    \/ ReadFrame
    \/ \E flag \in Flags, val \in BOOLEAN : Flip(flag, val)

Next ==
    \/ CameraCalls \/ CameraSets
    \/ \E h \in Hosts : HostSets(h)
    \/ /\ \/ \E h \in Hosts : HostCalls(h)
          \/ \E t \in Threads : Proceed(t)
          \/ Freeze \/ Thaw \/ Kill
       /\ UNCHANGED <<cam, sizer>>

Spec == Init /\ [][Next]_vars

\* The host's threads are scheduled and so is a sketch that runs.  A thread that
\* spins on the mutex is served in the end if it is free again and again (SF):
\* the other side computes between two frames.
HostMoves(h) == (Proceed(h) /\ UNCHANGED <<cam, sizer>>) \/ HostSets(h)
SketchMoves == (Proceed(Sketch) /\ UNCHANGED <<cam, sizer>>) \/ CameraSets

FairSpec == /\ Spec
            /\ \A h \in Hosts : SF_vars(HostMoves(h))
            /\ SF_vars(SketchMoves)

-----------------------------------------------------------------------------
TypeOK ==
    /\ FbTypeOK
    /\ op \in [Threads -> {Idle} \cup Copies("RGB888") \cup Copies("RGB444")
                            \cup Flips \cup Setters]
    /\ \A t \in Threads : op[t] \in Setters => (op[t].call = "set" <=> t # Sketch)
    /\ cam \in [key : Keys, format : Formats, begun : BOOLEAN, missing : BOOLEAN]
    /\ sizer \in [1..Len(Conf) -> {"camera", "host", "left behind"}]

\* A frame is read as it was written, whole and in whatever format: a reader that
\* no resize met finds no pixel of a later or of a half written frame, nor a colour
\* that the conversions garbled, whoever resized the buffer before.
FramesAreWhole ==
    /\ \A t \in Threads : op[t].at = "copy" /\ op[t].call = "read" /\ ~op[t].met =>
          \A n \in DOMAIN op[t].buf : Decode(op[t].fmt, op[t].buf[n]) = shown[op[t].fb][n]
    /\ \A i \in DOMAIN fbs : fbs[i].owner = NoThread => Frame(i) = shown[i]

\* A copy whose pixels were not resized since its size was checked stays inside
\* them, however stale the size that the caller had computed.
CopiesStayInside ==
    \A t \in Threads : op[t].at = "copy" /\ ~op[t].met =>
        op[t].size <= Len(fbs[op[t].fb].data)

\* BoardView's operations never cause undefined behaviour: no copy runs past the
\* end of the pixels.
CopiesNeverRunPast ==
    \A t \in Threads : op[t].at = "copy" => op[t].size <= Len(fbs[op[t].fb].data)

\* Setting one flip flag does not change the other one.
OtherFlagKept ==
    [][\A t \in Threads : op[t].at = "flip" /\ op'[t] = Idle =>
          LET i == op[t].fb IN
          IF op[t].flag = "horiz" THEN fbs'[i].vert = fbs[i].vert
                                  ELSE fbs'[i].horiz = fbs[i].horiz]_vars

SettingUp == op[Sketch].at \in Phases

\* While the camera is begun, the frame that readFrame() asks for has the size of the
\* buffer that begin() sized, if the host has not sized it since: the silent refusal
\* never happens, in either format, whatever dimensions were set before and by whom.
ReadFrameFits ==
    LET i == Find(cam.key) IN
    cam.begun /\ ~SettingUp /\ Exists(i) /\ sizer[i] = "camera" =>
        SizeOk(i, cam.format, FrameBytes(i))

\* A camera that is not begun has left no frame, in no buffer, but those that the
\* host has sized and those that setPins() moved it away from: what a host writes
\* into the others is refused.
EndedMeansEmpty ==
    ~cam.begun /\ ~SettingUp =>
        \A i \in DOMAIN fbs : sizer[i] = "camera" => fbs[i].data = <<>>

\* end() closes what begin() opened.
EndClosesWhatBeginOpened ==
    ~cam.begun /\ ~SettingUp =>
        \A i \in DOMAIN fbs : sizer[i] # "host" => fbs[i].data = <<>>

\* begin() says that the frame buffer does not exist only if none is configured
\* with the camera's key.
NotFoundMeansAbsent ==
    cam.missing =>
        \A i \in DOMAIN Conf : Conf[i].key # cam.key

\* A buffer that nobody but the camera sized is as large as its dimensions say, and
\* these are 0 unless the camera is begun with it; during begin() and end() they are
\* so setter by setter.
CamInv ==
    /\ SettingUp =>
         /\ op[Sketch].fb = Find(cam.key)
         /\ cam.begun <=> op[Sketch].call = "end"
         /\ op[Sketch].call = "end" => op[Sketch].w = 0 /\ op[Sketch].h = 0
    /\ \A i \in DOMAIN fbs : sizer[i] = "camera" =>
         IF SettingUp /\ op[Sketch].fb = i
         THEN /\ op[Sketch].at # "width" => fbs[i].width = op[Sketch].w
              /\ op[Sketch].at \in {"height resize", "freq"} => fbs[i].height = op[Sketch].h
              /\ op[Sketch].at = "freq" => Len(fbs[i].data) = fbs[i].width * fbs[i].height
         ELSE /\ Len(fbs[i].data) = fbs[i].width * fbs[i].height
              /\ ~(cam.begun /\ i = Find(cam.key)) => fbs[i].width = 0 /\ fbs[i].height = 0

\* What the camera's sketch may rely on: the look-up of a frame buffer is right if
\* the buffers are in order, readFrame() asks for the size that is there, and end()
\* leaves nothing.
CameraInv ==
    /\ TypeOK /\ CopyInv /\ KeyInv /\ FrameInv /\ CamInv
    /\ ReadFrameFits /\ EndedMeansEmpty /\ (Ordered => NotFoundMeansAbsent)

\* A host's call returns, or waits for a sketch that no longer runs and has the
\* mutex: the no-timeout lock() costs nothing else.
HostReturnsOrHeld ==
    \A h \in Hosts : op[h].at = "wait" ~>
        \/ op[h] = Idle
        \/ sketch # "running" /\ fbs[op[h].fb].owner = Sketch

\* A host's call on a frame buffer always returns.
HostReturns == \A h \in Hosts : op[h].at = "wait" ~> op[h] = Idle
===============================================================================
