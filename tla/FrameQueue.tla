----------------------------- MODULE FrameQueue -----------------------------
(* The remote picture: StreamScreen::remoteImageList, a                     *)
(* base::ThreadSafeQueue<ImageData> that the decoder thread fills           *)
(* (VideoRenderer::OnFrame, StreamScreen::OnPaint) and that the UI thread   *)
(* reads once per turn of its loop (StreamScreen::show, WaitPopFlex).       *)
(*                                                                          *)
(* A frame is its number: frames are numbered in the order in which the     *)
(* decoder delivers them, through all the meetings of the process.  The     *)
(* pixels, the scaling and the textures are left out.                       *)
EXTENDS Naturals, Sequences

CONSTANTS
  MaxFrames,    \* bound: the frames decoded in a behaviour
  Burst         \* bound: the frames decoded between two turns of the UI loop

ASSUME BoundsAssumption == MaxFrames \in Nat /\ Burst \in Nat

VARIABLES
  queue,        \* remoteImageList, front first
  pushed,       \* the number of the last frame pushed
  shown,        \* the number of the frame on the screen, 0 when there is none
  pending,      \* frames pushed since the UI thread last came by
  isActive,     \* StreamScreen::isActive
  sink,         \* a VideoRenderer is registered with the track
  stored,       \* remote_renderer_ points to it
  painting,     \* the decoder thread is between the test in OnPaint and its Push
  ui            \* what the UI thread is in the middle of

vars == <<queue, pushed, shown, pending, isActive, sink, stored, painting, ui>>

TypeOK ==
  /\ queue \in Seq(Nat)
  /\ pushed \in Nat /\ shown \in Nat /\ pending \in Nat
  /\ isActive \in BOOLEAN /\ stored \in BOOLEAN /\ painting \in BOOLEAN
  /\ sink \in BOOLEAN
  /\ ui \in {"loop", "adding", "ending"}

Init ==
  /\ queue = << >> /\ pushed = 0 /\ shown = 0 /\ pending = 0
  /\ isActive = FALSE /\ sink = FALSE /\ stored = FALSE /\ painting = FALSE
  /\ ui = "loop"

-----------------------------------------------------------------------------
(* ThreadSafeQueue.  Each operation holds the mutex from end to end.        *)

\* Mutants of FlexKeep: nothing but the front is dropped; an overfull queue is
\* trimmed, but the last element goes too.
FlexKeepNoTrim(n) == IF n > 1 THEN n - 1 ELSE n

FlexKeepPopLast(n) == IF n > 5 THEN 4 ELSE n - 1

\* What WaitPopFlex and TryPopFlex leave behind of a queue that is not empty:
\* no more than five elements, and of these the front goes unless it is alone.
FlexKeep(n) == IF n > 5 THEN 4 ELSE IF n > 1 THEN n - 1 ELSE n

\* Mutant of FlexRest: the elements go from the back.
FlexRestFront(q) == SubSeq(q, 1, FlexKeep(Len(q)))

FlexRest(q) == SubSeq(q, Len(q) - FlexKeep(Len(q)) + 1, Len(q))

-----------------------------------------------------------------------------
(* The decoder thread.  The track's broadcaster calls the sink with its lock *)
(* held, so a renderer is never removed while the thread is inside it.       *)

\* VideoRenderer::OnFrame up to the test in OnPaint: the picture is sized and
\* converted into image_; it goes further only on an active screen whose
\* remote_renderer_ is already set.
OnFrame ==
  /\ sink /\ ~painting
  /\ pushed < MaxFrames /\ pending < Burst
  /\ painting' = (isActive /\ stored)
  /\ UNCHANGED <<queue, pushed, shown, pending, isActive, sink, stored, ui>>

\* Mutant of OnPaint: the picture is put at the front.
OnPaintAtFront ==
  /\ painting
  /\ queue' = <<pushed + 1>> \o queue
  /\ pushed' = pushed + 1
  /\ pending' = pending + 1
  /\ painting' = FALSE
  /\ UNCHANGED <<shown, isActive, sink, stored, ui>>

\* The rest of OnPaint: the picture is copied to the back of the queue.
OnPaint ==
  /\ painting
  /\ queue' = Append(queue, pushed + 1)
  /\ pushed' = pushed + 1
  /\ pending' = pending + 1
  /\ painting' = FALSE
  /\ UNCHANGED <<shown, isActive, sink, stored, ui>>

-----------------------------------------------------------------------------
(* The UI thread.                                                           *)

\* Mutants of Show: the screen waits for a second frame; a queue that was empty
\* hands over what it has not.
ShowWaits ==
  /\ ui = "loop" /\ isActive
  /\ pending' = 0
  /\ IF Len(queue) <= 1
     THEN UNCHANGED <<queue, shown>>
     ELSE /\ shown' = Head(queue)
          /\ queue' = FlexRest(queue)
  /\ UNCHANGED <<pushed, isActive, sink, stored, painting, ui>>

ShowUnchecked ==
  /\ ui = "loop" /\ isActive
  /\ pending' = 0
  /\ shown' = (IF queue = << >> THEN 0 - 1 ELSE Head(queue))
  /\ queue' = (IF queue = << >> THEN queue ELSE FlexRest(queue))
  /\ UNCHANGED <<pushed, isActive, sink, stored, painting, ui>>

\* Mutant of Show: the window's state is not looked at.
ShowHidden ==
  /\ ui = "loop"
  /\ pending' = 0
  /\ IF queue = << >>
     THEN UNCHANGED <<queue, shown>>
     ELSE /\ shown' = Head(queue)
          /\ queue' = FlexRest(queue)
  /\ UNCHANGED <<pushed, isActive, sink, stored, painting, ui>>

\* StreamScreen::show: the front of the queue goes to the screen.  ImageData
\* has no move assignment, so `value = std::move(queue.front())' copies and a
\* front that stays in the queue stays intact.  An empty queue costs 5 ms.
Show ==
  /\ ui = "loop" /\ isActive
  /\ pending' = 0
  /\ IF queue = << >>
     THEN UNCHANGED <<queue, shown>>
     ELSE /\ shown' = Head(queue)
          /\ queue' = FlexRest(queue)
  /\ UNCHANGED <<pushed, isActive, sink, stored, painting, ui>>

\* ADD_TRACK with a video track: the meeting window opens and a VideoRenderer
\* is built, whose constructor registers it with the track ...
AddTrack ==
  /\ ui = "loop" /\ ~isActive
  /\ isActive' = TRUE
  /\ sink' = TRUE
  /\ ui' = "adding"
  /\ UNCHANGED <<queue, pushed, shown, pending, stored, painting>>

\* ... before remote_renderer_.reset stores it: an OnPaint in between finds none.
StartRemoteRenderer ==
  /\ ui = "adding"
  /\ stored' = TRUE
  /\ ui' = "loop"
  /\ UNCHANGED <<queue, pushed, shown, pending, isActive, sink, painting>>

\* MEETING_END: the window is hidden first (StreamScreen::OnExit) ...
MeetingEnd ==
  /\ ui = "loop" /\ isActive
  /\ isActive' = FALSE
  /\ ui' = "ending"
  /\ UNCHANGED <<queue, pushed, shown, pending, sink, stored, painting>>

\* ... then the renderer goes.  RemoveSink waits for the frame in progress.
\* Nothing empties the queue.
StopRemoteRenderer ==
  /\ ui = "ending" /\ ~painting
  /\ stored' = FALSE
  /\ sink' = FALSE
  /\ ui' = "loop"
  /\ UNCHANGED <<queue, pushed, shown, pending, isActive, painting>>

UIStep == Show \/ AddTrack \/ StartRemoteRenderer \/ MeetingEnd \/ StopRemoteRenderer

Next == OnFrame \/ OnPaint \/ UIStep

Spec == Init /\ [][Next]_vars

\* run() never leaves its loop while the window is open, and a thread inside
\* OnPaint gets out of it; that frames arrive is not assumed.
FairSpec ==
  /\ Spec
  /\ WF_vars(Show) /\ WF_vars(StartRemoteRenderer) /\ WF_vars(StopRemoteRenderer)
  /\ WF_vars(OnPaint)

-----------------------------------------------------------------------------
(* Properties.                                                              *)

\* The queue holds the latest frames, without a hole: WaitPopFlex only ever
\* drops from the front, so what it drops is older than what it keeps.
LatestFrames ==
  \A i \in 1..Len(queue) : queue[i] = pushed + i - Len(queue)

\* The backlog is bounded although Push is not: every turn of the UI loop
\* leaves at most four frames behind, whatever had piled up (WaitPopFlex).
BacklogBounded == Len(queue) <= 4 + pending

\* The picture never goes back in time, within a meeting or from a meeting to
\* the next, although frames are dropped and the last one is never removed.
NeverBackwards == [][shown' >= shown]_shown

\* What show draws is at most Burst + 3 frames behind the decoder: it draws
\* the front, the OLDEST frame of the queue, before WaitPopFlex drops the rest.
DrawnIsRecent == [][shown' # shown => pushed <= shown' + Burst + 3]_shown

\* Once the first frame is in, show always finds a picture: the last frame is
\* kept until a newer one is behind it, so the picture freezes, never blanks.
NeverBlankAgain == [][queue # << >> => queue' # << >>]_queue

\* When the remote side stops sending, the last frame it sent does get to the
\* screen (unless the user leaves): four stale frames never stay in front of it.
LastFrameShown ==
  (isActive /\ pushed = MaxFrames) ~> (shown = MaxFrames \/ ~isActive)

\* What the viewer is promised, and the queue, the renderer and the two threads
\* implement: Picture, with every frame that was pushed taken for arrived.
Viewer == INSTANCE Picture WITH
  Lag <- Burst + 3, latest <- pushed, picture <- shown, open <- isActive

\* The picture moves forward only, only in the open window, to a frame at most
\* Burst + 3 behind the decoder, and does not stand still while there are newer
\* ones: every step of the two threads is one of Picture, or is not visible.
ImplementsPicture == Viewer!FairSpec
=============================================================================
