---------------------------- MODULE VisionCentral ----------------------------
(* The UI thread: VisionCentralController::run polls the windows, whose      *)
(* handlers post messages, takes one message from hi::messageQueue and       *)
(* handles it, calling the engine through the Controller, and draws.  The    *)
(* user is logged in.  The login window, the invitation window, the pickers  *)
(* of devices and the drawing are left out.                                  *)
EXTENDS RtcConnectEngine

CONSTANTS
  MaxRequests,  \* bound: the times the user asks for a call, a booking or a sharing
  MaxQueue      \* bound: messages in the queue when the user adds one

ASSUME UserBoundsAssumption == MaxRequests \in Nat /\ MaxQueue \in Nat

VARIABLES
  startWnd,     \* the start window takes clicks
  enterWnd,     \* the dialog: "closed", or open to "create" or to "join"
  streamWnd,    \* the meeting window takes clicks
  shareState,   \* StreamScreen::shareState, the button's state
  sessionId,    \* the meeting number in the meeting window
  requests      \* how many times the user has asked for something

windows == <<startWnd, enterWnd, streamWnd, shareState>>
uiVars == <<windows, sessionId, requests>>

UITypeOK ==
  /\ startWnd \in BOOLEAN /\ streamWnd \in BOOLEAN /\ shareState \in BOOLEAN
  /\ enterWnd \in {"closed", "create", "join"}
  /\ sessionId \in Ids
  /\ requests \in Nat

UIInit ==
  /\ startWnd = TRUE /\ enterWnd = "closed" /\ streamWnd = FALSE
  /\ shareState = FALSE /\ sessionId = NoRoom /\ requests = 0

-----------------------------------------------------------------------------
(* Clicks: pollEvent, each window's eventProcess.                            *)

\* A click posts a message; the engine is not called.
Posts(m) ==
  /\ Len(messageQueue) < MaxQueue
  /\ Post(<<m>>)
  /\ UNCHANGED <<engineVars, toServer, toClient, sessionId>>

ClickStart ==
  /\ startWnd
  /\ \E id \in {"CREATE_MEETING", "JOIN_MEETING"} : Posts(Msg(id, NoRoom))
  /\ UNCHANGED <<windows, requests>>

\* The dialog's button; the dialog stays open until a track arrives.
ClickCreate ==
  /\ enterWnd = "create" /\ requests < MaxRequests
  /\ Posts(Msg("IS_CREATE", NoRoom))
  /\ requests' = requests + 1
  /\ UNCHANGED windows

ClickBooking ==
  /\ enterWnd = "create" /\ requests < MaxRequests
  /\ Posts(Msg("IS_BOOKING", NoRoom))
  /\ requests' = requests + 1
  /\ UNCHANGED windows

ClickJoin(m) ==
  /\ enterWnd = "join" /\ requests < MaxRequests
  /\ Posts(Msg("IS_JOIN", m))
  /\ requests' = requests + 1
  /\ UNCHANGED windows

ClickCloseDialog ==
  /\ enterWnd # "closed"
  /\ enterWnd' = "closed"
  /\ UNCHANGED <<engineVars, toServer, toClient, messageQueue>>
  /\ UNCHANGED <<startWnd, streamWnd, shareState, sessionId, requests>>

ClickLeave ==
  /\ streamWnd
  /\ Posts(Msg("MEETING_END", NoRoom))
  /\ UNCHANGED <<windows, requests>>

ClickShare ==
  /\ streamWnd /\ requests < MaxRequests
  /\ Posts([Msg("SET_SHARE", NoRoom) EXCEPT !.on = ~shareState])
  /\ shareState' = ~shareState
  /\ requests' = requests + 1
  /\ UNCHANGED <<startWnd, enterWnd, streamWnd>>

-----------------------------------------------------------------------------
(* VisionCentralController::update, one action per message.                  *)

\* The message at the front is one of these.
Takes(ids) ==
  /\ leaving = "no"
  /\ messageQueue # << >>
  /\ Head(messageQueue).id \in ids
  /\ messageQueue' = Tail(messageQueue)
  /\ UNCHANGED <<toClient, requests>>

\* CREATE_MEETING, JOIN_MEETING: EnterScreen::OnEnter fails on an open dialog.
UpdateEnter ==
  /\ Takes({"CREATE_MEETING", "JOIN_MEETING"})
  /\ enterWnd' = IF enterWnd # "closed" THEN enterWnd
                 ELSE IF Head(messageQueue).id = "CREATE_MEETING" THEN "create" ELSE "join"
  /\ UNCHANGED <<engineVars, toServer, startWnd, streamWnd, shareState, sessionId>>

UpdateIsCreate ==
  /\ Takes({"IS_CREATE"})
  /\ createMeeting
  /\ UNCHANGED <<windows, sessionId>>

UpdateIsBooking ==
  /\ Takes({"IS_BOOKING"})
  /\ scheduleMeeting
  /\ UNCHANGED <<windows, sessionId>>

UpdateIsJoin ==
  /\ Takes({"IS_JOIN"})
  /\ joinMeeting(Head(messageQueue).room)
  /\ sessionId' = Head(messageQueue).room
  /\ UNCHANGED windows

\* Mutant of UpdateMeetingEnd: the button keeps its state.
UpdateMeetingEndKeepsShare ==
  /\ Takes({"MEETING_END"})
  /\ streamWnd' = FALSE /\ startWnd' = TRUE
  /\ exitMeeting
  /\ UNCHANGED <<enterWnd, shareState, sessionId>>

\* MEETING_END: the windows change first, then Controller::DisconnectFromCurrentPeer,
\* which takes the UI thread a while.
UpdateMeetingEnd ==
  /\ Takes({"MEETING_END"})
  /\ streamWnd' = FALSE /\ shareState' = FALSE /\ startWnd' = TRUE
  /\ exitMeeting
  /\ UNCHANGED <<enterWnd, sessionId>>

ExitMeeting ==
  /\ exitMeetingCloses \/ exitMeetingDrops
  /\ UNCHANGED <<toClient, messageQueue, uiVars>>

UpdateSetShare ==
  /\ Takes({"SET_SHARE"})
  /\ switchScreenShare(Head(messageQueue).on)
  /\ UNCHANGED <<windows, sessionId>>

\* Mutant of UpdateAddTrack: the dialog is left open.
UpdateAddTrackKeepsDialog ==
  /\ Takes({"ADD_TRACK"})
  /\ startWnd' = FALSE /\ streamWnd' = TRUE
  /\ UNCHANGED <<engineVars, toServer, enterWnd, shareState, sessionId>>

\* ADD_TRACK with a video track: the meeting window takes the others' place.
UpdateAddTrack ==
  /\ Takes({"ADD_TRACK"})
  /\ enterWnd' = "closed" /\ startWnd' = FALSE /\ streamWnd' = TRUE
  /\ UNCHANGED <<engineVars, toServer, shareState, sessionId>>

\* Mutant of UpdateCreateMeetingOK: only the time of the meeting is shown.
UpdateCreateMeetingOKNoId ==
  /\ Takes({"CREATE_MEETING_OK"})
  /\ UNCHANGED <<engineVars, toServer, windows, sessionId>>

UpdateCreateMeetingOK ==
  /\ Takes({"CREATE_MEETING_OK"})
  /\ sessionId' = Head(messageQueue).room
  /\ UNCHANGED <<engineVars, toServer, windows>>

UpdateJoinMeetingOK ==
  /\ Takes({"JOIN_MEETING_OK"})
  /\ UNCHANGED <<engineVars, toServer, windows, sessionId>>

UpdateBookingOK ==
  /\ Takes({"BOOKING_MEETING_OK"})
  /\ enterWnd' = "closed"
  /\ UNCHANGED <<engineVars, toServer, startWnd, streamWnd, shareState, sessionId>>

update ==
  \/ UpdateEnter \/ UpdateIsCreate \/ UpdateIsBooking \/ UpdateIsJoin
  \/ UpdateMeetingEnd \/ ExitMeeting \/ UpdateSetShare \/ UpdateAddTrack
  \/ UpdateCreateMeetingOK \/ UpdateJoinMeetingOK \/ UpdateBookingOK
=============================================================================
