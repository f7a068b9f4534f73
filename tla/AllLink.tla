------------------------------- MODULE AllLink -------------------------------
(* The client as a whole: the UI thread (VisionCentral), the engine with its *)
(* listener and signaling threads (RtcConnectEngine), and the server         *)
(* (SignalServer), over the websocket and the message queue.                 *)
EXTENDS SignalServer, VisionCentral

vars == <<vars0, srvRoom, uiVars>>

TypeOK == EngineTypeOK /\ UITypeOK /\ srvRoom \in Rooms \union {NoRoom}

Init == EngineInit /\ UIInit /\ srvRoom = NoRoom

\* Nothing is on its way between the threads or to and from the server.
Quiet ==
  /\ messageQueue = << >> /\ toServer = << >> /\ toClient = << >>
  /\ offering = 0 /\ listener.at = "idle" /\ leaving = "no"

\* A process that died takes no more steps.
Alive == fault = "none"

\* A user in no hurry waits until all is quiet before the next click; Env says
\* for which clicks this user does not.
Waits(hurry) == hurry \in Env \/ Quiet

\* In the start window and the dialog, short of asking for anything.
Browses == Waits("browse") /\ (ClickStart \/ ClickCloseDialog)

\* For a call or a booking.
Asks ==
  /\ Waits("retry")
  /\ \/ ClickCreate
     \/ \E m \in Rooms : ClickJoin(m)
     \/ \E m \in BadIds : "mistype" \in Env /\ ClickJoin(m)
     \/ "book" \in Env /\ ClickBooking

\* In the meeting window.
Departs == Waits("early_leave") /\ ClickLeave

Shares == "share" \in Env /\ Waits("early_share") /\ ClickShare

\* The UI thread does not poll the windows while it is in exitMeeting.
UserStep ==
  Alive /\ leaving = "no" /\ (Browses \/ Asks \/ Departs \/ Shares) /\ UNCHANGED srvRoom

UIStep == Alive /\ update /\ UNCHANGED srvRoom

\* An offer fails on its own only if Env says so; that of a connection which is
\* gone may fail, or still be delivered.
SignalingStep ==
  /\ Alive
  /\ \/ OnSuccess
     \/ ("offer_fails" \in Env \/ pc # offering) /\ OnFailure
  /\ UNCHANGED <<uiVars, srvRoom>>

EngineStep == Alive /\ ListenerStep /\ UNCHANGED <<uiVars, srvRoom>>

Serve == Alive /\ ServerStep /\ UNCHANGED uiVars

Close == Alive /\ HostCloses /\ UNCHANGED uiVars

Next == UserStep \/ UIStep \/ SignalingStep \/ EngineStep \/ Serve \/ Close

Spec == Init /\ [][Next]_vars

\* The UI loop turns, both threads of the engine run and the server answers;
\* nothing is assumed of the user or of whoever ends the meeting.
FairSpec ==
  /\ Spec
  /\ WF_vars(UIStep) /\ WF_vars(SignalingStep) /\ WF_vars(EngineStep) /\ WF_vars(Serve)

-----------------------------------------------------------------------------
(* Properties.                                                              *)

\* No sequence of clicks, answers and thread switches kills the process.
NoFault == fault = "none"

\* A connection is without its devices only while a teardown is between its halves,
\* exitMeeting or onClose or onCancel having closed them and not yet dropped it: no
\* teardown on another thread, no late answer and no refused call leaves one that way.
ConnectionHasDevices ==
  (Alive /\ pc # 0 /\ leaving # "closed" /\ listener.at \notin {"closed", "cancelled"}) =>
    (video = "capturing" /\ (adm = "open" \/ "no_device" \in Env))

\* The descriptions of a connection belong to its own offer: a user who asks for
\* a call only when all is quiet never has the answer, or the offer, of another
\* call set on it, however the calls before it ended.
OwnDescriptions ==
  Alive => (local \in {0, pc} /\ remote \in {0, local})

\* Once everything has settled, the client is in a meeting on all sides or on
\* none: window, connection, descriptions, id, statistics and server agree.
SettledAgreement ==
  (Alive /\ Quiet) =>
    IF streamWnd
    THEN /\ pc # 0 /\ local = pc /\ remote = pc /\ stats = "running"
         /\ srvRoom = meetingId /\ meetingId \in Rooms
    ELSE /\ pc = 0 /\ stats = "none" /\ video # "capturing"
         /\ srvRoom = NoRoom /\ meetingId = NoRoom

\* While the user is in the meeting window the dialog is closed.
DialogClosed == streamWnd => enterWnd = "closed"

\* The number in the meeting window is the number of the meeting.
ShownNumber == (Alive /\ Quiet /\ streamWnd) => sessionId = srvRoom

\* The screen is shared when the button says so, and in no other case.
ShareAsShown == (Alive /\ Quiet) => screenOn = shareState

\* What InitializePeerConnection asserts when it is entered: the client has no
\* connection yet (and so none of addScreenTrack's threads runs).
NoSecondConnection == fault # "abort"

\* A meeting that someone else ended is shown as ended: the meeting window does
\* not outlive the connection that onClose drops.
ClosedIsShown == (Alive /\ Quiet /\ streamWnd) => pc # 0

\* The answer to a join finds the meeting id that the user typed: no late answer
\* to an earlier request has wiped it, so the join goes on.
JoinIsHeard == [][(toClient # << >> /\ Head(toClient).code = "200"
                   /\ Head(toClient).cmeth = "QUERY" /\ listener.at = "idle"
                   /\ toClient' = Tail(toClient))
                     => (meetingId \in Rooms)]_vars

\* Every call that starts either gets its window or ends.
CallSettles == (Alive /\ pc # 0) ~> (streamWnd \/ pc = 0 \/ ~Alive)

-----------------------------------------------------------------------------
(* What all this is for.                                                    *)

\* The user's request, while the UI thread has not taken its message.
Asking == {messageQueue[i] : i \in {j \in DOMAIN messageQueue :
                                      messageQueue[j].id \in {"IS_CREATE", "IS_JOIN"}}}

\* The question whether the meeting exists is under way.
Querying ==
  \/ \E i \in DOMAIN toServer : toServer[i].meth = "QUERY"
  \/ \E i \in DOMAIN toClient : toClient[i].cmeth = "QUERY"

\* Where the user is: a request that is under way has been asked ...
Phase ==
  IF streamWnd THEN "in"
  ELSE IF Asking # {} \/ Querying \/ (pc # 0 /\ leaving = "no") THEN "asked"
  ELSE "out"

\* ... and what for is in the message or else in meetingId, until the server decides.
Wish ==
  IF Phase # "asked" \/ srvRoom # NoRoom THEN NoRoom
  ELSE IF Asking # {} THEN (CHOOSE m \in Asking : TRUE).room
  ELSE meetingId

Known == streamWnd /\ sessionId = srvRoom

User == INSTANCE Meeting WITH
  Wishes <- Rooms \union BadIds, None <- NoRoom,
  phase <- Phase, wish <- Wish, member <- srvRoom, known <- Known

\* On a calm day the program keeps what Meeting promises: every step of the threads
\* and of the server is one of its steps or not visible, and nobody waits for ever.
ImplementsMeeting == User!LiveSpec
=============================================================================
