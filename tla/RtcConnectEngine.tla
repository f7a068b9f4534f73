-------------------------- MODULE RtcConnectEngine --------------------------
(* The connection engine (core/engine/signalBridge): what one client keeps  *)
(* of its meeting, the operations the UI thread calls, the handlers that    *)
(* the socket's listener thread runs and the ones WebRTC's signaling thread *)
(* runs.  The engine is up and its user is logged in: connect, login and    *)
(* logout are another component.                                            *)
(*                                                                          *)
(* Every call of InitializePeerConnection has a number, and so has what     *)
(* belongs to it: the peer connection, its offer, the answer to that offer. *)
(* signalState is written and never read, and is left out.                  *)
EXTENDS Naturals, Sequences

CONSTANTS
  Rooms,        \* the meeting ids, of the form ddd-ddd
  BadIds,       \* other strings a user may type for one
  NoRoom,       \* the empty string
  Env           \* what happens besides the regular course: of the server "refuse",
                \* "cancel", "no_room", "close"; of WebRTC "offer_fails",
                \* "no_connection" and of the devices "no_device"; of the user "book",
                \* "share", "mistype" and the clicks made in a hurry, "browse",
                \* "retry", "early_leave", "early_share"

Ids == Rooms \union BadIds \union {NoRoom}

ASSUME IdsAssumption ==
  /\ Rooms # {}
  /\ Rooms \intersect BadIds = {}
  /\ NoRoom \notin Rooms \union BadIds

ASSUME EnvAssumption ==
  Env \subseteq {"refuse", "cancel", "no_room", "close", "offer_fails", "no_connection",
                 "no_device", "book", "share", "mistype", "browse", "retry",
                 "early_leave", "early_share"}

VARIABLES
  meetingId,    \* RtcConnectEngine::meetingId
  calls,        \* how many times InitializePeerConnection ran
  pc,           \* peer_connection_ with its factory: the call's number, 0 for null
  local,        \* the call whose offer is pc's local description, 0 for none
  remote,       \* the call whose offer pc's remote description answers, 0 for none
  offering,     \* the call whose CreateOffer has not come back, 0 for none
  localJsep,    \* the call whose offer is in localJsep, 0 for "unknown"
  adm,          \* audioEngine and its device module: "null", "closed", "open"
  video,        \* videoEngine and its capture threads: "null", "idle", "capturing"
  screenOn,     \* the screen track is enabled
  stats,        \* the thread of startStatsCollection: "none", "running", or "ending"
                \* when it has been told to end and not yet been joined
  listener,     \* how far the listener thread is in onOK(INVITE), and for which room,
                \* in onClose or in onCancel(INVITE)
  leaving,      \* how far the UI thread is in exitMeeting, "no" outside it
  fault,        \* how the process died: "none", "abort", "null", "freed", "terminate"
  toServer,     \* requests on the websocket
  toClient,     \* responses on the websocket
  messageQueue  \* hi::messageQueue, to which the Controller's callbacks post

callVars == <<pc, local, remote>>
offerVars == <<offering, localJsep, calls>>
deviceVars == <<adm, video, screenOn, stats>>
threadVars == <<listener, leaving>>
engineVars == <<meetingId, callVars, offerVars, deviceVars, threadVars, fault>>
vars0 == <<engineVars, toServer, toClient, messageQueue>>

Requests ==
  [meth : {"QUERY", "INVITE", "BYE", "CREATE", "INFO30", "INFO31"},
   to : Ids, sdp : Nat]

\* A response: its status code, or CANCEL; the method it answers; the meeting
\* it names; for an INVITE the offer it answers.
Responses ==
  [code : {"100", "180", "200", "401", "CANCEL"},
   cmeth : {"QUERY", "INVITE", "BYE", "CLOSE", "CREATE", "INFO30", "INFO31"},
   room : Ids, sdp : Nat]

Messages ==
  [id : {"CREATE_MEETING", "JOIN_MEETING", "IS_CREATE", "IS_BOOKING", "IS_JOIN",
         "MEETING_END", "SET_SHARE", "ADD_TRACK", "CREATE_MEETING_OK",
         "JOIN_MEETING_OK", "BOOKING_MEETING_OK"},
   room : Ids, on : BOOLEAN]

Request(meth, to, sdp) == [meth |-> meth, to |-> to, sdp |-> sdp]
Msg(id, room) == [id |-> id, room |-> room, on |-> FALSE]

EngineTypeOK ==
  /\ meetingId \in Ids
  /\ calls \in Nat /\ pc \in Nat /\ local \in Nat /\ remote \in Nat
  /\ offering \in Nat /\ localJsep \in Nat
  /\ adm \in {"null", "closed", "open"}
  /\ video \in {"null", "idle", "capturing"}
  /\ screenOn \in BOOLEAN /\ stats \in {"none", "running", "ending"}
  /\ listener \in [at : {"idle", "answered", "joined", "stopping", "closed", "cancelled"},
                  room : Ids]
  /\ leaving \in {"no", "stopping", "closed"}
  /\ fault \in {"none", "abort", "null", "freed", "terminate"}
  /\ toServer \in Seq(Requests)
  /\ toClient \in Seq(Responses)
  /\ messageQueue \in Seq(Messages)

EngineInit ==
  /\ meetingId = NoRoom
  /\ calls = 0 /\ pc = 0 /\ local = 0 /\ remote = 0 /\ offering = 0 /\ localJsep = 0
  /\ adm = "null" /\ video = "null" /\ screenOn = FALSE /\ stats = "none"
  /\ listener = [at |-> "idle", room |-> NoRoom] /\ leaving = "no"
  /\ fault = "none"
  /\ toServer = << >> /\ toClient = << >> /\ messageQueue = << >>

-----------------------------------------------------------------------------
(* Steps shared by the operations and the handlers.                         *)

Send(meth, to, sdp) == toServer' = Append(toServer, Request(meth, to, sdp))

Post(msgs) == messageQueue' = messageQueue \o msgs

\* The process dies: of a null pointer, of the abort() in RTC_DCHECK, of the use of
\* an object that has been freed, or of the std::terminate of a thread that is
\* replaced or destroyed before it has been joined.
Dies(how) ==
  /\ fault' = how
  /\ UNCHANGED <<meetingId, callVars, offerVars, deviceVars, threadVars>>

\* InitializePeerConnection and CreateOffer, the engines made when missing.  It
\* asserts that there is no connection; without assertions addScreenTrack drops a
\* capturer whose thread is joinable, which terminates the process all the same.
\* The offer of a connection that is gone is settled by its destruction.  A factory or
\* a connection that cannot be made is reported to a caller that does not look and
\* follows the null pointer; without an audio device the call goes on.
StartCall ==
  \/ /\ pc # 0 \/ video = "capturing"
     /\ Dies("abort")
  \/ /\ "no_connection" \in Env /\ pc = 0
     /\ Dies("null")
  \/ /\ pc = 0 /\ video # "capturing" /\ offering = 0
     /\ calls' = calls + 1
     /\ pc' = calls + 1 /\ local' = 0 /\ remote' = 0
     /\ offering' = calls + 1
     /\ adm' \in {"open"} \union (IF "no_device" \in Env THEN {"closed"} ELSE {})
     /\ video' = "capturing" /\ screenOn' = FALSE
     /\ UNCHANGED <<meetingId, localJsep, stats, threadVars, fault>>

\* What exitMeeting and onClose do alike, in three parts between which the other threads
\* run; goesOn says where the thread is after each.  First the statistics thread is told
\* to end, which takes it up to a second; one that is being joined already may not be
\* joined again.  None of the parts tests the pointer to an engine.
StopStats(goesOn) ==
  \/ /\ video = "null"
     /\ Dies("null")
  \/ /\ stats = "ending"
     /\ Dies("terminate")
  \/ /\ video # "null"
     /\ stats' = IF stats = "running" THEN "ending" ELSE stats
     /\ goesOn
     /\ UNCHANGED <<meetingId, callVars, offerVars, adm, video, screenOn, fault>>

\* It is joined, and the devices are closed: the capturers, then the device module, for
\* which rtcAudioEngine::close does not test.  A thread that was started in the meantime
\* runs on.
CloseDevices(goesOn) ==
  \/ /\ video = "null" \/ adm # "open"
     /\ Dies("null")
  \/ /\ video # "null" /\ adm = "open"
     /\ stats' = IF stats = "ending" THEN "none" ELSE stats
     /\ video' = "idle" /\ adm' = "closed" /\ screenOn' = FALSE
     /\ goesOn
     /\ UNCHANGED <<meetingId, callVars, offerVars, fault>>

\* Mutant of DropConnection: the connection is not dropped.
DropConnectionKeeps(goesOn) ==
  /\ meetingId' = NoRoom
  /\ goesOn
  /\ UNCHANGED <<callVars, offerVars, deviceVars, fault>>

\* meetingId is cleared and the connection dropped.
DropConnection(goesOn) ==
  /\ meetingId' = NoRoom
  /\ pc' = 0 /\ local' = 0 /\ remote' = 0
  /\ goesOn
  /\ UNCHANGED <<offerVars, deviceVars, fault>>

Leaves(at) == leaving' = at /\ UNCHANGED listener
Listens(at) == listener' = [at |-> at, room |-> NoRoom] /\ UNCHANGED leaving

-----------------------------------------------------------------------------
(* Operations, called on the UI thread.                                     *)

scheduleMeeting ==
  /\ Send("CREATE", NoRoom, 0)
  /\ UNCHANGED engineVars

createMeeting ==
  /\ StartCall
  /\ UNCHANGED toServer

joinMeeting(m) ==
  /\ meetingId' = m
  /\ Send("QUERY", m, 0)
  /\ UNCHANGED <<callVars, offerVars, deviceVars, threadVars, fault>>

\* Mutant of exitMeeting: the id is cleared before the BYE is built from it.
exitMeetingClearsFirst ==
  /\ Send("BYE", NoRoom, 0)
  /\ StopStats(Leaves("stopping"))

exitMeeting ==
  /\ Send("BYE", meetingId, 0)
  /\ StopStats(Leaves("stopping"))

exitMeetingCloses ==
  /\ leaving = "stopping"
  /\ CloseDevices(Leaves("closed"))
  /\ UNCHANGED toServer

exitMeetingDrops ==
  /\ leaving = "closed"
  /\ DropConnection(Leaves("no"))
  /\ UNCHANGED toServer

\* openScreenShare and closeScreenShare.  setVideoBitrate goes through the
\* video engine's own pointer to the connection, which close() resets.
switchScreenShare(on) ==
  /\ Send(IF on THEN "INFO31" ELSE "INFO30", meetingId, 0)
  /\ \/ /\ video # "capturing"
        /\ Dies("null")
     \/ /\ video = "capturing"
        /\ screenOn' = on
        /\ UNCHANGED <<meetingId, callVars, offerVars, adm, video, stats,
                       threadVars, fault>>

-----------------------------------------------------------------------------
(* The signaling thread.                                                    *)

\* Mutants of OnSuccess: the offer is not kept; it is kept only when none is;
\* the offer asks for a new meeting.
OnSuccessForgets ==
  /\ offering # 0
  /\ offering' = 0
  /\ Send("INVITE", meetingId, offering)
  /\ UNCHANGED <<meetingId, callVars, localJsep, calls, deviceVars, threadVars, fault>>
  /\ UNCHANGED <<toClient, messageQueue>>

OnSuccessKeepsOld ==
  /\ offering # 0
  /\ offering' = 0
  /\ localJsep' = (IF localJsep = 0 THEN offering ELSE localJsep)
  /\ Send("INVITE", meetingId, offering)
  /\ UNCHANGED <<meetingId, callVars, calls, deviceVars, threadVars, fault>>
  /\ UNCHANGED <<toClient, messageQueue>>

OnSuccessNewMeeting ==
  /\ offering # 0
  /\ offering' = 0
  /\ localJsep' = offering
  /\ Send("INVITE", NoRoom, offering)
  /\ UNCHANGED <<meetingId, callVars, calls, deviceVars, threadVars, fault>>
  /\ UNCHANGED <<toClient, messageQueue>>

\* The offer is made: it goes out in an INVITE, to the meeting in meetingId or
\* to a new one.  modifySdp is a member of the audio engine.
OnSuccess ==
  /\ offering # 0
  /\ offering' = 0
  /\ localJsep' = offering
  /\ Send("INVITE", meetingId, offering)
  /\ UNCHANGED <<meetingId, callVars, calls, deviceVars, threadVars, fault>>
  /\ UNCHANGED <<toClient, messageQueue>>

\* The offer cannot be made: a line in the log.
OnFailure ==
  /\ offering # 0
  /\ offering' = 0
  /\ UNCHANGED <<meetingId, callVars, localJsep, calls, deviceVars, threadVars, fault>>
  /\ UNCHANGED <<toServer, toClient, messageQueue>>

-----------------------------------------------------------------------------
(* The listener thread, which takes the responses one by one (readMessage). *)

\* The next response is one of these, and the thread is free to take it.
Receive(code, cmeth) ==
  /\ listener.at = "idle"
  /\ toClient # << >>
  /\ Head(toClient).code = code /\ Head(toClient).cmeth = cmeth
  /\ toClient' = Tail(toClient)

onTrying ==
  /\ Receive("100", "INVITE")
  /\ UNCHANGED <<engineVars, toServer, messageQueue>>

\* localJsep, whichever call it is from, becomes the local description and
\* waits for an answer.
onRinging ==
  /\ Receive("180", "INVITE")
  /\ \/ /\ localJsep = 0
        /\ UNCHANGED engineVars
     \/ /\ localJsep # 0 /\ pc = 0
        /\ Dies("null")
     \/ /\ localJsep # 0 /\ pc # 0
        /\ local' = localJsep /\ remote' = 0
        /\ UNCHANGED <<meetingId, pc, offerVars, deviceVars, threadVars, fault>>
  /\ UNCHANGED <<toServer, messageQueue>>

\* onOK(QUERY): the meeting exists; the call starts unless meetingId has been
\* cleared in the meantime or never was a meeting id.
onOKQuery ==
  /\ Receive("200", "QUERY")
  /\ \/ /\ meetingId \notin Rooms
        /\ UNCHANGED engineVars
     \/ /\ meetingId \in Rooms
        /\ StartCall
  /\ UNCHANGED <<toServer, messageQueue>>

\* onOK(INVITE), first part: setRemote.  WebRTC takes the answer when an offer
\* is pending, and then reports the remote track (OnAddTrack, OnReceiveTrack).
onOKInvite ==
  /\ Receive("200", "INVITE")
  /\ \/ /\ pc = 0
        /\ Dies("null")
        /\ UNCHANGED messageQueue
     \/ /\ pc # 0
        /\ listener' = [at |-> "answered", room |-> Head(toClient).room]
        /\ IF local # 0 /\ remote = 0
           THEN remote' = Head(toClient).sdp /\ Post(<<Msg("ADD_TRACK", NoRoom)>>)
           ELSE UNCHANGED <<remote, messageQueue>>
        /\ UNCHANGED <<meetingId, pc, local, offerVars, deviceVars, leaving, fault>>
  /\ UNCHANGED toServer

\* Mutant of OnJoined: the time of the meeting goes where its id belongs.
OnJoinedSwapped ==
  /\ listener.at = "answered"
  /\ listener' = [listener EXCEPT !.at = "joined"]
  /\ meetingId' = listener.room
  /\ Post(<<Msg("CREATE_MEETING_OK", 0), Msg("JOIN_MEETING_OK", NoRoom)>>)
  /\ UNCHANGED <<callVars, offerVars, deviceVars, leaving, fault, toServer, toClient>>

\* Second part: a meeting without an id is one this client created.  The five
\* lists of devices that OnJoinMeetingSuccess posts first are left out.
OnJoined ==
  /\ listener.at = "answered"
  /\ listener' = [listener EXCEPT !.at = "joined"]
  /\ \/ /\ meetingId = NoRoom
        /\ meetingId' = listener.room
        /\ Post(<<Msg("CREATE_MEETING_OK", listener.room), Msg("JOIN_MEETING_OK", NoRoom)>>)
     \/ /\ meetingId # NoRoom
        /\ Post(<<Msg("JOIN_MEETING_OK", NoRoom)>>)
        /\ UNCHANGED meetingId
  /\ UNCHANGED <<callVars, offerVars, deviceVars, leaving, fault, toServer, toClient>>

\* Third part: startStatsCollection.  A thread that is being joined may not be replaced.
OnStarted ==
  /\ listener.at = "joined"
  /\ \/ /\ stats = "ending"
        /\ Dies("terminate")
     \/ /\ stats # "ending"
        /\ stats' = "running"
        /\ Listens("idle")
        /\ UNCHANGED <<meetingId, callVars, offerVars, adm, video, screenOn, fault>>
  /\ UNCHANGED <<toServer, toClient, messageQueue>>

\* onOK(INFO 31): requestKeyFrame, through the video engine's connection.
onOKInfo31 ==
  /\ Receive("200", "INFO31")
  /\ \/ video = "capturing" /\ UNCHANGED engineVars
     \/ video # "capturing" /\ Dies("null")
  /\ UNCHANGED <<toServer, messageQueue>>

\* onOK of any other INFO: nothing.
onOKInfo30 ==
  /\ Receive("200", "INFO30")
  /\ UNCHANGED <<engineVars, toServer, messageQueue>>

\* onOK(BYE): the id is cleared a second time, whatever it has become.
onOKBye ==
  /\ Receive("200", "BYE")
  /\ meetingId' = NoRoom
  /\ UNCHANGED <<callVars, offerVars, deviceVars, threadVars, fault, toServer, messageQueue>>

\* onOK(CREATE): a booked meeting's id is kept in meetingId too.
onOKCreate ==
  /\ Receive("200", "CREATE")
  /\ meetingId' = Head(toClient).room
  /\ Post(<<Msg("BOOKING_MEETING_OK", Head(toClient).room)>>)
  /\ UNCHANGED <<callVars, offerVars, deviceVars, threadVars, fault, toServer>>

\* onOK(CLOSE): someone ended the meeting (onClose).  Closeflag, which only
\* closeMeeting raises, is down: this client never calls closeMeeting.  The
\* Controller's OnCloseMeeting is empty.
onOKClose ==
  /\ Receive("200", "CLOSE")
  /\ StopStats(Listens("stopping"))
  /\ UNCHANGED <<toServer, messageQueue>>

onCloseCloses ==
  /\ listener.at = "stopping"
  /\ CloseDevices(Listens("closed"))
  /\ UNCHANGED <<toServer, toClient, messageQueue>>

onCloseDrops ==
  /\ listener.at = "closed"
  /\ DropConnection(Listens("idle"))
  /\ UNCHANGED <<toServer, toClient, messageQueue>>

\* onUnauthorized(INVITE): the call is refused; only the id is cleared.  The
\* Controller's OnJoinMeetingFailure is empty.
onUnauthorizedInvite ==
  /\ Receive("401", "INVITE")
  /\ meetingId' = NoRoom
  /\ UNCHANGED <<callVars, offerVars, deviceVars, threadVars, fault, toServer, messageQueue>>

\* onUnauthorized(BYE): a line in the log.
onUnauthorizedBye ==
  /\ Receive("401", "BYE")
  /\ UNCHANGED <<engineVars, toServer, messageQueue>>

\* onCancel(INVITE): the id is cleared and both engines go, an open capturer being
\* stopped first.  An audio engine without a device module is not tested for, and a
\* statistics thread is destroyed without being joined.
onCancelInvite ==
  /\ Receive("CANCEL", "INVITE")
  /\ \/ /\ adm = "closed"
        /\ Dies("null")
     \/ /\ adm # "closed" /\ stats # "none"
        /\ Dies("terminate")
     \/ /\ adm # "closed" /\ stats = "none"
        /\ meetingId' = NoRoom
        /\ adm' = "null" /\ video' = "null" /\ screenOn' = FALSE
        /\ Listens("cancelled")
        /\ UNCHANGED <<callVars, offerVars, stats, fault>>
  /\ UNCHANGED <<toServer, messageQueue>>

\* Then the signaling thread goes, with any offer it still had to deliver, and after it
\* the connection that lives on that thread: undefined behaviour.
onCancelDrops ==
  /\ listener.at = "cancelled"
  /\ \/ /\ pc # 0
        /\ Dies("freed")
     \/ /\ pc' = 0 /\ local' = 0 /\ remote' = 0
        /\ offering' = 0
        /\ Listens("idle")
        /\ UNCHANGED <<meetingId, localJsep, calls, deviceVars, fault>>
  /\ UNCHANGED <<toServer, toClient, messageQueue>>

\* onCancel(QUERY): the connection is dropped, if there is one; its devices
\* are not closed.
onCancelQuery ==
  /\ Receive("CANCEL", "QUERY")
  /\ meetingId' = NoRoom
  /\ pc' = 0 /\ local' = 0 /\ remote' = 0
  /\ UNCHANGED <<offerVars, deviceVars, threadVars, fault, toServer, messageQueue>>

ListenerStep ==
  \/ onTrying \/ onRinging
  \/ onOKQuery \/ onOKInvite \/ OnJoined \/ OnStarted
  \/ onOKInfo31 \/ onOKInfo30 \/ onOKBye \/ onOKCreate
  \/ onOKClose \/ onCloseCloses \/ onCloseDrops
  \/ onUnauthorizedInvite \/ onUnauthorizedBye
  \/ onCancelInvite \/ onCancelDrops \/ onCancelQuery
=============================================================================
