------------------------------ MODULE Pipeline ------------------------------
(***************************************************************************)
(* The three threads of run_live (src/src/ui/mod.rs): the capture thread   *)
(* sends frames to the tracker thread, the tracker thread sends events to  *)
(* the UI thread, which is the caller: it spawns the others, sets up the   *)
(* terminal, runs the event loop, restores the terminal, raises the        *)
(* shutdown flag and joins.  Both channels are unbounded and end when      *)
(* their only sender is gone; a send fails when the receiver is.           *)
(*                                                                         *)
(* What the tracker and the UI compute is the subject of Tracker and App.  *)
(* Here a frame is what decides how many events it causes, and an event is *)
(* only counted.  Any step that returns a Result may fail, if it is in     *)
(* MayFail; undoing the terminal set-up, whose result is ignored, may not. *)
(***************************************************************************)
EXTENDS Integers, Sequences

CONSTANTS
  MayFail,      \* the steps that may fail
  MaxPending    \* bound: events in ui_rx or due for the frames under way

Steps == {"spawn capture", "spawn tracker", "raw mode", "screen", "terminal",
          "draw", "poll", "open", "capture", "resolve"}

ASSUME PipelineAssumption == MayFail \subseteq Steps /\ MaxPending \in Nat

\* Not TCP, an empty TCP segment, a TCP segment with a payload.
Frames == {"noise", "ack", "segment"}

Keystrokes == {"q", "other"}

VARIABLES
  main,            \* where run_live is
  outcome,         \* what it returns; "SetupErr" for its early returns
  raw_mode, alternate_screen,
  typed,           \* the key press waiting in the terminal
  shutdown,
  capture,         \* where the capture thread is
  capture_error,   \* it ended on an error
  frame_rx,
  tracker,         \* where the tracker thread is
  tracker_error,   \* it ended on a panic
  ui_rx,           \* how many events wait
  lost             \* history: some frame was dropped unread

mainVars == <<main, outcome, raw_mode, alternate_screen, typed, shutdown>>
captureVars == <<capture, capture_error>>
trackerVars == <<tracker, tracker_error>>
channels == <<frame_rx, ui_rx, lost>>
vars == <<mainVars, captureVars, trackerVars, channels>>

Init ==
  /\ main = "spawn capture" /\ outcome = "none"
  /\ raw_mode = FALSE /\ alternate_screen = FALSE
  /\ typed = "none" /\ shutdown = FALSE
  /\ capture = "none" /\ capture_error = FALSE /\ frame_rx = << >>
  /\ tracker = "none" /\ tracker_error = FALSE /\ ui_rx = 0 /\ lost = FALSE

-----------------------------------------------------------------------------
(* The capture thread.                                                     *)

Opened ==
  /\ capture = "open"
  /\ capture' = "check"
  /\ UNCHANGED <<mainVars, capture_error, trackerVars, channels>>

\* LivePcapSource::open or next_frame returns an error: it is logged.
CaptureFails ==
  /\ \/ capture = "open" /\ "open" \in MayFail
     \/ capture = "poll" /\ "capture" \in MayFail
  /\ capture' = "done" /\ capture_error' = TRUE
  /\ UNCHANGED <<mainVars, trackerVars, channels>>

\* Fault: the loop does not look at the flag.
CheckNothing ==
  /\ capture = "check"
  /\ capture' = "poll"
  /\ UNCHANGED <<mainVars, capture_error, trackerVars, channels>>

CheckShutdown ==
  /\ capture = "check"
  /\ capture' = IF shutdown THEN "done" ELSE "poll"
  /\ UNCHANGED <<mainVars, capture_error, trackerVars, channels>>

\* Fault: a read timeout is taken for the end of the packets.
TimeoutEnds ==
  /\ capture = "poll"
  /\ capture' = "done"
  /\ UNCHANGED <<mainVars, capture_error, trackerVars, channels>>

\* The read timeout, or the end of the packets.
Timeout ==
  /\ capture = "poll"
  /\ capture' = "check"
  /\ UNCHANGED <<mainVars, capture_error, trackerVars, channels>>

FrameArrives(f) ==
  /\ capture = "poll"
  /\ ui_rx + 2 * (Len(frame_rx) + 2) <= MaxPending
  /\ \/ /\ tracker # "done"
        /\ frame_rx' = Append(frame_rx, f) /\ capture' = "check"
        /\ UNCHANGED lost
     \/ /\ tracker = "done"
        /\ capture' = "done" /\ lost' = TRUE
        /\ UNCHANGED frame_rx
  /\ UNCHANGED <<mainVars, capture_error, trackerVars, ui_rx>>

CaptureThread ==
  \/ Opened \/ CaptureFails \/ CheckShutdown \/ Timeout
  \/ \E f \in Frames : FrameArrives(f)

-----------------------------------------------------------------------------
(* The tracker thread.                                                     *)

\* The thread ends, and the receiver with what is still in it.
TrackerEnds ==
  /\ tracker' = "done"
  /\ frame_rx' = << >> /\ lost' = (lost \/ frame_rx # << >>)

NextFrameIs(f) == tracker = "recv" /\ frame_rx # << >> /\ Head(frame_rx) = f

SkipNoise ==
  /\ NextFrameIs("noise")
  /\ frame_rx' = Tail(frame_rx)
  /\ UNCHANGED <<mainVars, captureVars, trackerVars, ui_rx, lost>>

IngestAck ==
  /\ NextFrameIs("ack")
  /\ frame_rx' = Tail(frame_rx)
  /\ tracker' = "evict"
  /\ UNCHANGED <<mainVars, captureVars, tracker_error, ui_rx, lost>>

IngestSegment ==
  /\ NextFrameIs("segment")
  /\ frame_rx' = Tail(frame_rx)
  /\ tracker' = "send"
  /\ UNCHANGED <<mainVars, captureVars, tracker_error, ui_rx, lost>>

\* A panic while the origin of a new flow is resolved.
IngestPanics ==
  /\ NextFrameIs("segment") /\ "resolve" \in MayFail
  /\ TrackerEnds
  /\ tracker_error' = TRUE
  /\ UNCHANGED <<mainVars, captureVars, ui_rx>>

SendUpdate ==
  /\ tracker = "send"
  /\ \/ /\ main # "returned"
        /\ ui_rx' = ui_rx + 1 /\ tracker' = "evict"
        /\ UNCHANGED <<frame_rx, lost>>
     \/ /\ main = "returned"
        /\ TrackerEnds
        /\ UNCHANGED ui_rx
  /\ UNCHANGED <<mainVars, captureVars, tracker_error>>

\* evict_stale; the result of sending StaleEvicted is ignored.
Evict(removed) ==
  /\ tracker = "evict"
  /\ tracker' = "recv"
  /\ ui_rx' = IF removed /\ main # "returned" THEN ui_rx + 1 ELSE ui_rx
  /\ UNCHANGED <<mainVars, captureVars, tracker_error, frame_rx, lost>>

\* Fault: the thread ends with its sender, whatever is still in the channel.
DisconnectedAtOnce ==
  /\ tracker = "recv" /\ capture = "done"
  /\ TrackerEnds
  /\ UNCHANGED <<mainVars, captureVars, tracker_error, ui_rx>>

\* The channel is empty and its sender gone.
Disconnected ==
  /\ tracker = "recv" /\ frame_rx = << >> /\ capture = "done"
  /\ TrackerEnds
  /\ UNCHANGED <<mainVars, captureVars, tracker_error, ui_rx>>

TrackerThread ==
  \/ SkipNoise \/ IngestAck \/ IngestSegment \/ IngestPanics
  \/ SendUpdate \/ (\E removed \in BOOLEAN : Evict(removed)) \/ Disconnected

-----------------------------------------------------------------------------
(* The UI thread: run_live from its first line to its return.              *)

At(step) == main = step

\* `?' during set-up: run_live returns, and its ends of the channels are gone.
SetupFails ==
  /\ main \in MayFail
  /\ main \in {"spawn capture", "spawn tracker", "raw mode", "screen", "terminal"}
  /\ main' = "returned" /\ outcome' = "SetupErr"
  /\ tracker' = IF At("spawn tracker") THEN "done" ELSE tracker
  /\ frame_rx' = IF At("spawn tracker") THEN << >> ELSE frame_rx
  /\ lost' = (lost \/ frame_rx' # frame_rx)
  /\ ui_rx' = 0
  /\ UNCHANGED <<raw_mode, alternate_screen, typed, shutdown, captureVars, tracker_error>>

SpawnCapture ==
  /\ At("spawn capture") /\ main' = "spawn tracker"
  /\ capture' = "open"
  /\ UNCHANGED <<outcome, raw_mode, alternate_screen, typed, shutdown, capture_error,
                 trackerVars, channels>>

SpawnTracker ==
  /\ At("spawn tracker") /\ main' = "raw mode"
  /\ tracker' = "recv"
  /\ UNCHANGED <<outcome, raw_mode, alternate_screen, typed, shutdown, tracker_error,
                 captureVars, channels>>

SetUpTerminal ==
  /\ \/ At("raw mode") /\ main' = "screen" /\ raw_mode' = TRUE /\ UNCHANGED alternate_screen
     \/ At("screen") /\ main' = "terminal" /\ alternate_screen' = TRUE /\ UNCHANGED raw_mode
     \/ At("terminal") /\ main' = "drain" /\ UNCHANGED <<raw_mode, alternate_screen>>
  /\ UNCHANGED <<outcome, typed, shutdown, captureVars, trackerVars, channels>>

HandleEvent ==
  /\ At("drain") /\ ui_rx > 0
  /\ ui_rx' = ui_rx - 1
  /\ UNCHANGED <<mainVars, captureVars, trackerVars, frame_rx, lost>>

LoopTo(step) ==
  /\ main' = step
  /\ UNCHANGED <<outcome, raw_mode, alternate_screen, shutdown, captureVars, trackerVars,
                 channels>>

\* Fault: recv instead of try_recv, which returns only when the sender is gone.
DrainedAtHangUp ==
  At("drain") /\ ui_rx = 0 /\ tracker = "done" /\ LoopTo("draw") /\ UNCHANGED typed

Drained == At("drain") /\ ui_rx = 0 /\ LoopTo("draw") /\ UNCHANGED typed
Draw == At("draw") /\ LoopTo("input") /\ UNCHANGED typed

\* Fault: the channel is drained before the loop only.
KeyOrTickUndrained == At("input") /\ typed # "q" /\ LoopTo("draw") /\ typed' = "none"

\* poll times out, or App handles the key.
KeyOrTick == At("input") /\ typed # "q" /\ LoopTo("drain") /\ typed' = "none"

Quit ==
  /\ At("input") /\ typed = "q"
  /\ main' = "restore" /\ outcome' = "Ok" /\ typed' = "none"
  /\ UNCHANGED <<raw_mode, alternate_screen, shutdown, captureVars, trackerVars, channels>>

\* Fault: the error is returned on the spot.
LoopFailsAtOnce ==
  /\ \/ At("draw") /\ "draw" \in MayFail
     \/ At("input") /\ "poll" \in MayFail
  /\ main' = "returned" /\ outcome' = "LoopErr"
  /\ ui_rx' = 0
  /\ UNCHANGED <<raw_mode, alternate_screen, typed, shutdown, captureVars, trackerVars,
                 frame_rx, lost>>

LoopFails ==
  /\ \/ At("draw") /\ "draw" \in MayFail
     \/ At("input") /\ "poll" \in MayFail
  /\ main' = "restore" /\ outcome' = "LoopErr"
  /\ UNCHANGED <<raw_mode, alternate_screen, typed, shutdown, captureVars, trackerVars,
                 channels>>

Restore ==
  /\ At("restore") /\ main' = "signal"
  /\ raw_mode' = FALSE /\ alternate_screen' = FALSE
  /\ UNCHANGED <<outcome, typed, shutdown, captureVars, trackerVars, channels>>

Signal ==
  /\ At("signal") /\ main' = "join capture"
  /\ shutdown' = TRUE
  /\ UNCHANGED <<outcome, raw_mode, alternate_screen, typed, captureVars, trackerVars, channels>>

JoinCapture ==
  /\ At("join capture") /\ capture = "done"
  /\ LoopTo("join tracker") /\ UNCHANGED typed

JoinTracker ==
  /\ At("join tracker") /\ tracker = "done"
  /\ main' = "returned" /\ ui_rx' = 0
  /\ UNCHANGED <<outcome, raw_mode, alternate_screen, typed, shutdown, captureVars, trackerVars,
                 frame_rx, lost>>

UiThread ==
  \/ SetupFails \/ SpawnCapture \/ SpawnTracker \/ SetUpTerminal
  \/ HandleEvent \/ Drained \/ Draw \/ KeyOrTick \/ Quit \/ LoopFails
  \/ Restore \/ Signal \/ JoinCapture \/ JoinTracker

-----------------------------------------------------------------------------
\* The user types; nothing obliges them to.
Press(k) ==
  /\ main # "returned" /\ typed = "none"
  /\ typed' = k
  /\ UNCHANGED <<main, outcome, raw_mode, alternate_screen, shutdown, captureVars, trackerVars,
                 channels>>

Terminated == main = "returned" /\ capture \in {"none", "done"} /\ UNCHANGED vars

Next ==
  \/ CaptureThread \/ TrackerThread \/ UiThread
  \/ (\E k \in Keystrokes : Press(k))
  \/ Terminated

(* Each thread is scheduled as long as it can run.  That a step of the     *)
(* capture thread ends even on an idle interface is the read timeout of    *)
(* capture/live.rs; nothing is assumed of traffic or user.                 *)
Spec ==
  /\ Init /\ [][Next]_vars
  /\ WF_vars(CaptureThread) /\ WF_vars(TrackerThread) /\ WF_vars(UiThread)

-----------------------------------------------------------------------------
(* Properties.                                                             *)

(* As long as the event loop runs, packets are captured and tracked: only  *)
(* an error of the capture or a panic of the tracker thread ends either    *)
(* before the shutdown, not a silent interface, a failed send or the order *)
(* in which the threads start (the exits of both loops, and the comment    *)
(* "Timeout or EOF; loop back").                                           *)
StillCapturing ==
  main \in {"drain", "draw", "input"} /\ ~capture_error /\ ~tracker_error =>
    capture # "done" /\ tracker # "done"

(* Once the event loop was entered, run_live returns with the terminal as  *)
(* it found it and both threads ended, whether it was left by 'q' or by an *)
(* error of draw or poll (the tear-down after run_event_loop).             *)
CleanExit ==
  main = "returned" /\ outcome # "SetupErr" =>
    /\ ~raw_mode /\ ~alternate_screen
    /\ capture = "done" /\ tracker = "done"

(* A captured frame is dropped unread only if the tracker thread panicked  *)
(* or the set-up failed: after the shutdown flag the tracker still works   *)
(* off the channel before the joins return (the comment on the shutdown).  *)
NoFrameLost == lost => tracker_error \/ outcome = "SetupErr"

(* When the loop has ended run_live returns, whatever the traffic and      *)
(* whichever thread has ended before: no thread waits for another that     *)
(* waits for it (the comment on the shutdown).                             *)
Returns == (main = "restore") ~> (main = "returned")

(* Unless frames keep arriving for ever, 'q' is obeyed and every event is  *)
(* handled and drawn (the drain loop ends only on an empty channel).       *)
Traffic == []<><<\E f \in Frames : FrameArrives(f)>>_vars

QuitObeyed == Traffic \/ ((typed = "q") ~> (main = "returned"))

Ending == main \in {"restore", "signal", "join capture", "join tracker", "returned"}
AllShown == main = "input" /\ ui_rx = 0
UpdatesShown == Traffic \/ ((ui_rx > 0) ~> (AllShown \/ Ending))

(* What run_live returns tells of a failed capture ("Returns any error     *)
(* surfaced by the capture backend", its doc comment; the exit code 77 of  *)
(* docs/development.md:223).                                               *)
CaptureErrorReported == main = "returned" /\ outcome = "Ok" => ~capture_error
=============================================================================
