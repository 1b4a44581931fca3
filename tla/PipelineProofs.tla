--------------------------- MODULE PipelineProofs ---------------------------
(***************************************************************************)
(* The safety of the three threads of run_live, for any set of steps that  *)
(* may fail and any bound on the events under way.  The types hold by      *)
(* themselves.  The three properties need each other: that no frame is     *)
(* dropped by a tracker whose receiver of events is gone rests on the      *)
(* joins having returned, and the joins on why each thread ended.          *)
(***************************************************************************)
EXTENDS Pipeline, TLAPS

-----------------------------------------------------------------------------
(* The inductive invariant.  Truth values are compared with = throughout,  *)
(* so that they are values to the provers like the rest of the state.      *)

Places ==
  /\ main \in {"spawn capture", "spawn tracker", "raw mode", "screen", "terminal", "drain",
               "draw", "input", "restore", "signal", "join capture", "join tracker", "returned"}
  /\ outcome \in {"none", "Ok", "LoopErr", "SetupErr"}
  /\ typed \in Keystrokes \cup {"none"}
  /\ capture \in {"none", "open", "check", "poll", "done"}
  /\ tracker \in {"none", "recv", "send", "evict", "done"}

Flags ==
  /\ raw_mode \in BOOLEAN /\ alternate_screen \in BOOLEAN /\ shutdown \in BOOLEAN
  /\ capture_error \in BOOLEAN /\ tracker_error \in BOOLEAN /\ lost \in BOOLEAN

Queues == frame_rx \in Seq(Frames) /\ ui_rx \in Nat

Restored == raw_mode = FALSE /\ alternate_screen = FALSE
Excused == tracker_error = TRUE \/ outcome = "SetupErr"

\* Nothing runs before it is spawned, and a failed set-up is an early return.
StartUp ==
  /\ main = "spawn capture" => capture = "none" /\ tracker = "none"
  /\ shutdown = TRUE => main \in {"join capture", "join tracker", "returned"}
  /\ outcome = "SetupErr" => main = "returned"

\* The tear-down keeps what it has established, in its order.
TearDown ==
  /\ main \in {"signal", "join capture", "join tracker"} => Restored
  /\ main = "join tracker" => capture = "done"
  /\ main = "returned" /\ outcome # "SetupErr" =>
       Restored /\ capture = "done" /\ tracker = "done"

\* The capture thread ends on the flag, an error or an ended receiver; the tracker
\* ends, and drops frames, only with an excuse or after the capture thread.
TrackerEndsLast ==
  /\ capture = "done" => shutdown = TRUE \/ capture_error = TRUE \/ Excused
  /\ tracker = "done" => Excused \/ capture = "done"
  /\ lost = TRUE => Excused

Safe == StartUp /\ TearDown /\ TrackerEndsLast

IInv == Places /\ Flags /\ Queues /\ Safe

-----------------------------------------------------------------------------
(* Types.                                                                  *)

\* What one operation makes of a channel.
LEMMA Unread ==
  ASSUME Queues
  PROVE  /\ << >> \in Seq(Frames) /\ 0 \in Nat
         /\ frame_rx # << >> => Tail(frame_rx) \in Seq(Frames)
         /\ \A f \in Frames : Append(frame_rx, f) \in Seq(Frames)
         /\ ui_rx + 1 \in Nat
         /\ ui_rx > 0 => ui_rx - 1 \in Nat
  BY DEF Queues

LEMMA CaptureTypes ==
  ASSUME Places, Flags, Queues, CaptureThread
  PROVE  Places' /\ Flags' /\ Queues'
<1> USE DEF CaptureThread, Opened, CaptureFails, CheckShutdown, Timeout, FrameArrives,
            mainVars, captureVars, trackerVars, channels
<1>1. Places'
  BY DEF Places
<1>2. Flags'
  BY DEF Flags
<1>3. Queues'
  BY Unread DEF Queues
<1> QED
  BY <1>1, <1>2, <1>3

LEMMA TrackerTypes ==
  ASSUME Places, Flags, Queues, TrackerThread
  PROVE  Places' /\ Flags' /\ Queues'
<1> USE DEF TrackerThread, SkipNoise, NextFrameIs, IngestAck, IngestSegment, IngestPanics,
            TrackerEnds, SendUpdate, Evict, Disconnected, mainVars, captureVars, trackerVars,
            channels
<1>1. Places'
  BY DEF Places
<1>2. Flags'
  BY DEF Flags
<1>3. Queues'
  BY Unread DEF Queues
<1> QED
  BY <1>1, <1>2, <1>3

LEMMA UiTypes ==
  ASSUME Places, Flags, Queues, UiThread
  PROVE  Places' /\ Flags' /\ Queues'
<1> USE DEF UiThread, SetupFails, At, SpawnCapture, SpawnTracker, SetUpTerminal, HandleEvent,
            Drained, LoopTo, Draw, KeyOrTick, Quit, LoopFails, Restore, Signal, JoinCapture,
            JoinTracker, mainVars, captureVars, trackerVars, channels
<1>1. Places'
  BY DEF Places
<1>2. Flags'
  BY DEF Flags
<1>3. Queues'
  BY Unread DEF Queues
<1> QED
  BY <1>1, <1>2, <1>3

-----------------------------------------------------------------------------
(* Safety, action by action.                                               *)

LEMMA CaptureSafe == ASSUME Places, Safe, CaptureThread PROVE Safe'
<1> USE DEF Places, Safe, StartUp, TearDown, TrackerEndsLast, Restored, Excused,
            mainVars, captureVars, trackerVars, channels
<1>1. CASE Opened
  BY <1>1 DEF Opened
<1>2. CASE CaptureFails
  BY <1>2 DEF CaptureFails
<1>3. CASE CheckShutdown
  BY <1>3 DEF CheckShutdown
<1>4. CASE Timeout
  BY <1>4 DEF Timeout
\* A send fails when the tracker is done, so with an excuse: capture has not ended.
<1>5. ASSUME NEW f \in Frames, FrameArrives(f) PROVE Safe'
  BY <1>5 DEF FrameArrives
<1> QED
  BY <1>1, <1>2, <1>3, <1>4, <1>5 DEF CaptureThread

LEMMA TrackerSafe == ASSUME Places, Safe, TrackerThread PROVE Safe'
<1> USE DEF Places, Safe, StartUp, TearDown, TrackerEndsLast, Restored, Excused,
            mainVars, captureVars, trackerVars, channels
<1>1. CASE SkipNoise
  BY <1>1 DEF SkipNoise, NextFrameIs
<1>2. CASE IngestAck
  BY <1>2 DEF IngestAck, NextFrameIs
<1>3. CASE IngestSegment
  BY <1>3 DEF IngestSegment, NextFrameIs
<1>4. CASE IngestPanics
  BY <1>4 DEF IngestPanics, NextFrameIs, TrackerEnds
\* The receiver is gone when run_live returned; had it joined, the tracker were done.
<1>5. CASE SendUpdate
  BY <1>5 DEF SendUpdate, TrackerEnds
<1>6. ASSUME NEW removed \in BOOLEAN, Evict(removed) PROVE Safe'
  BY <1>6 DEF Evict
<1>7. CASE Disconnected
  BY <1>7 DEF Disconnected, TrackerEnds
<1> QED
  BY <1>1, <1>2, <1>3, <1>4, <1>5, <1>6, <1>7 DEF TrackerThread

LEMMA UiSafe == ASSUME Places, Safe, UiThread PROVE Safe'
<1> USE DEF Places, Safe, StartUp, TearDown, TrackerEndsLast, Restored, Excused,
            mainVars, captureVars, trackerVars, channels
<1>1. CASE SetupFails
  BY <1>1 DEF SetupFails, At
<1>2. CASE SpawnCapture
  BY <1>2 DEF SpawnCapture, At
<1>3. CASE SpawnTracker
  BY <1>3 DEF SpawnTracker, At
<1>4. CASE SetUpTerminal
  BY <1>4 DEF SetUpTerminal, At
<1>5. CASE HandleEvent
  BY <1>5 DEF HandleEvent, At
<1>6. CASE Drained
  BY <1>6 DEF Drained, At, LoopTo
<1>7. CASE Draw
  BY <1>7 DEF Draw, At, LoopTo
<1>8. CASE KeyOrTick
  BY <1>8 DEF KeyOrTick, At, LoopTo
<1>9. CASE Quit
  BY <1>9 DEF Quit, At
<1>10. CASE LoopFails
  BY <1>10 DEF LoopFails, At
<1>11. CASE Restore
  BY <1>11 DEF Restore, At
<1>12. CASE Signal
  BY <1>12 DEF Signal, At
<1>13. CASE JoinCapture
  BY <1>13 DEF JoinCapture, At, LoopTo
<1>14. CASE JoinTracker
  BY <1>14 DEF JoinTracker, At
<1> QED
  BY <1>1, <1>2, <1>3, <1>4, <1>5, <1>6, <1>7, <1>8, <1>9, <1>10, <1>11, <1>12, <1>13,
     <1>14 DEF UiThread

-----------------------------------------------------------------------------
LEMMA InitOK == Init => IInv
<1> SUFFICES ASSUME Init PROVE IInv
  OBVIOUS
<1>1. Places
  BY DEF Init, Places
<1>2. Flags
  BY DEF Init, Flags
<1>3. Queues
  <2>1. frame_rx = << >> /\ ui_rx = 0
    BY DEF Init
  <2> QED
    BY <2>1 DEF Queues
<1>4. Safe
  BY DEF Init, Safe, StartUp, TearDown, TrackerEndsLast, Excused
<1> QED
  BY <1>1, <1>2, <1>3, <1>4 DEF IInv

LEMMA NextOK == IInv /\ [Next]_vars => IInv'
<1> SUFFICES ASSUME IInv, [Next]_vars PROVE IInv'
  OBVIOUS
<1>0. Places /\ Flags /\ Queues /\ Safe
  BY DEF IInv
<1>1. CASE CaptureThread
  BY <1>0, <1>1, CaptureTypes, CaptureSafe DEF IInv
<1>2. CASE TrackerThread
  BY <1>0, <1>2, TrackerTypes, TrackerSafe DEF IInv
<1>3. CASE UiThread
  BY <1>0, <1>3, UiTypes, UiSafe DEF IInv
<1>4. ASSUME (\E k \in Keystrokes : Press(k)) \/ UNCHANGED vars PROVE IInv'
  <2>1. Places' /\ Flags' /\ Queues'
    <3> USE DEF Press, vars, mainVars, captureVars, trackerVars, channels
    <3>1. Places'
      BY <1>0, <1>4 DEF Places
    <3>2. Flags'
      BY <1>0, <1>4 DEF Flags
    <3>3. Queues'
      BY <1>0, <1>4 DEF Queues
    <3> QED
      BY <3>1, <3>2, <3>3
  <2>2. UNCHANGED <<main, outcome, raw_mode, alternate_screen, shutdown, captureVars, trackerVars,
                    lost>>
    BY <1>4 DEF Press, vars, mainVars, captureVars, trackerVars, channels
  <2>3. Safe'
    BY <1>0, <2>2 DEF Safe, StartUp, TearDown, TrackerEndsLast, Restored, Excused,
                              captureVars, trackerVars
  <2> QED
    BY <2>1, <2>3 DEF IInv
<1> QED
  BY <1>1, <1>2, <1>3, <1>4 DEF Next, Terminated

LEMMA Invariant == Spec => []IInv
<1> QED
  BY InitOK, NextOK, PTL DEF Spec

-----------------------------------------------------------------------------
(* Until the loop is left both threads run, unless an error or a panic     *)
(* ended one: neither ends because the other is silent or slow (the exits  *)
(* of their loops).                                                        *)
THEOREM BothKeepRunning == Spec => []StillCapturing
<1>1. IInv => StillCapturing
  BY DEF IInv, Flags, Safe, StartUp, TrackerEndsLast, Excused, StillCapturing
<1> QED
  BY <1>1, Invariant, PTL

(* Whatever fails once the event loop was entered, run_live returns with   *)
(* the terminal restored and both threads ended (its tear-down).           *)
THEOREM ExitIsClean == Spec => []CleanExit
<1>1. IInv => CleanExit
  BY DEF IInv, Flags, Safe, TearDown, Restored, CleanExit
<1> QED
  BY <1>1, Invariant, PTL

(* A shutdown loses no captured frame: only a panic of the tracker thread  *)
(* or a failed set-up does (the loops over the two channels).              *)
THEOREM NoFrameIsLost == Spec => []NoFrameLost
<1>1. IInv => NoFrameLost
  BY DEF IInv, Flags, Safe, TrackerEndsLast, Excused, NoFrameLost
<1> QED
  BY <1>1, Invariant, PTL
=============================================================================
