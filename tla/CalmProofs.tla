----------------------------- MODULE CalmProofs -----------------------------
(* A calm day, for any number of meetings, mistyped ids and clicks: the user *)
(* waits until all is quiet, the server admits or says that there is no such *)
(* meeting, and nobody else ends one.  Then only one thing is going on at a   *)
(* time, up to the threads that overlap while a meeting begins, and the       *)
(* invariant names what it is; read through it, the program is `Meeting`.     *)
EXTENDS AllLinkProofs

CalmDay == Env \subseteq {"share", "no_room", "mistype"}

Wishes == Rooms \union BadIds

\* The engine without a connection, and with one.
Released ==
  /\ pc = 0 /\ local = 0 /\ remote = 0 /\ offering = 0
  /\ listener.at = "idle" /\ leaving = "no"
  /\ stats = "none" /\ ~screenOn /\ video # "capturing"

Connected == pc # 0 /\ video = "capturing" /\ adm = "open" /\ leaving = "no"

\* The windows outside and inside a meeting.
Outside == ~streamWnd /\ ~shareState
Inside == streamWnd /\ ~startWnd /\ enterWnd = "closed"

Nothing == << >>

\* No meeting; the user may have clicked.
IsOut ==
  /\ Released /\ Outside
  /\ meetingId = NoRoom /\ srvRoom = NoRoom
  /\ toServer = Nothing /\ toClient = Nothing
  /\ \/ messageQueue = Nothing
     \/ \E id \in {"CREATE_MEETING", "JOIN_MEETING", "IS_CREATE"} :
          messageQueue = <<Msg(id, NoRoom)>>
     \/ \E m \in Wishes : messageQueue = <<Msg("IS_JOIN", m)>>

\* The server is asked whether there is such a meeting.
Inquires ==
  /\ Released /\ Outside
  /\ meetingId \in Wishes /\ sessionId = meetingId /\ srvRoom = NoRoom
  /\ messageQueue = Nothing
  /\ \/ toServer = <<Request("QUERY", meetingId, 0)>> /\ toClient = Nothing
     \/ /\ toServer = Nothing
        /\ \/ meetingId \in Rooms /\ toClient = <<Response("200", "QUERY", meetingId, 0)>>
           \/ toClient = <<Response("CANCEL", "QUERY", NoRoom, 0)>>

\* The connection is there; its offer is made, and sent.
Offers ==
  /\ Connected /\ Outside /\ listener.at = "idle"
  /\ local = 0 /\ remote = 0 /\ stats = "none" /\ ~screenOn
  /\ meetingId \in Rooms \union {NoRoom} /\ (meetingId # NoRoom => sessionId = meetingId)
  /\ srvRoom = NoRoom /\ messageQueue = Nothing /\ toClient = Nothing
  /\ \/ offering = pc /\ toServer = Nothing
     \/ offering = 0 /\ localJsep = pc /\ toServer = <<Request("INVITE", meetingId, pc)>>

\* What a connection has until all know of the meeting.
Admitted ==
  /\ Connected /\ offering = 0 /\ ~screenOn /\ ~shareState
  /\ srvRoom \in Rooms /\ meetingId \in {NoRoom, srvRoom}
  /\ toServer = Nothing

\* The server has answered.
Trying == Response("100", "INVITE", srvRoom, 0)
Ringing == Response("180", "INVITE", srvRoom, 0)
Answer == Response("200", "INVITE", srvRoom, pc)

IsCalled ==
  /\ Admitted /\ ~streamWnd /\ listener.at = "idle" /\ stats = "none"
  /\ meetingId # NoRoom => sessionId = meetingId
  /\ messageQueue = Nothing
  /\ remote = 0 /\ localJsep = pc
  /\ \/ local = 0 /\ (toClient = <<Trying, Ringing, Answer>> \/ toClient = <<Ringing, Answer>>)
     \/ local = pc /\ toClient = <<Answer>>

\* The track opens the window, the id and the number follow: the listener and the
\* UI thread overlap.
Track == Msg("ADD_TRACK", NoRoom)
Number == Msg("CREATE_MEETING_OK", srvRoom)
Joined == Msg("JOIN_MEETING_OK", NoRoom)

Enters ==
  /\ Admitted /\ toClient = Nothing
  /\ local = pc /\ remote = pc
  /\ \/ /\ listener = [at |-> "answered", room |-> srvRoom] /\ stats = "none"
        /\ meetingId # NoRoom => sessionId = meetingId
        /\ \/ ~streamWnd /\ messageQueue = <<Track>>
           \/ Inside /\ messageQueue = Nothing
     \/ /\ \/ listener.at = "joined" /\ stats = "none"
           \/ listener.at = "idle" /\ stats = "running"
        /\ meetingId = srvRoom
        /\ \/ ~streamWnd /\ messageQueue = <<Track, Number, Joined>>
           \/ Inside /\ messageQueue = <<Number, Joined>>
           \/ /\ sessionId = srvRoom
              /\ \/ ~streamWnd /\ messageQueue = <<Track, Joined>>
                 \/ Inside /\ (messageQueue = <<Joined>> \/ messageQueue = Nothing)

\* In the meeting; sharing is switched, or the user has clicked to leave.
IsIn ==
  /\ Connected /\ Inside /\ listener.at = "idle" /\ offering = 0
  /\ local = pc /\ remote = pc /\ stats = "running"
  /\ srvRoom \in Rooms /\ meetingId = srvRoom /\ sessionId = srvRoom
  /\ \/ /\ toServer = Nothing /\ toClient = Nothing
        /\ \/ messageQueue = <<[Msg("SET_SHARE", NoRoom) EXCEPT !.on = shareState]>>
           \/ /\ screenOn = shareState
              /\ messageQueue = Nothing \/ messageQueue = <<Msg("MEETING_END", NoRoom)>>
     \/ /\ screenOn = shareState /\ messageQueue = Nothing
        /\ \E meth \in {"INFO30", "INFO31"} :
             \/ toServer = <<Request(meth, meetingId, 0)>> /\ toClient = Nothing
             \/ toServer = Nothing /\ toClient = <<Response("200", meth, NoRoom, 0)>>

\* The UI thread is in exitMeeting: the statistics thread ends, the devices are closed.
Leaving ==
  /\ pc # 0
  /\ \/ leaving = "stopping" /\ stats = "ending" /\ video = "capturing" /\ adm = "open"
     \/ leaving = "closed" /\ stats = "none" /\ video = "idle" /\ ~screenOn

\* The meeting has been left, and the server is told, while the engine is released.
Parts ==
  /\ Outside /\ listener.at = "idle" /\ offering = 0 /\ messageQueue = Nothing
  /\ (Released /\ meetingId = NoRoom) \/ Leaving
  /\ \/ /\ srvRoom \in Rooms
        /\ toServer = <<Request("BYE", srvRoom, 0)>> /\ toClient = Nothing
     \/ /\ srvRoom = NoRoom
        /\ toServer = Nothing /\ toClient = <<Response("200", "BYE", NoRoom, 0)>>
     \/ /\ srvRoom = NoRoom /\ Leaving
        /\ toServer = Nothing /\ toClient = Nothing

CalmInv ==
  /\ TypeOK /\ fault = "none"
  /\ IsOut \/ Inquires \/ Offers \/ IsCalled \/ Enters \/ IsIn \/ Parts

-----------------------------------------------------------------------------
(* Queues of few elements.                                                  *)

\* The front and the rest of queues of up to three elements.
LEMMA ShortQueues ==
  ASSUME NEW a, NEW b, NEW c
  PROVE  /\ <<a>> # << >> /\ Head(<<a>>) = a /\ Tail(<<a>>) = << >>
         /\ <<a, b>> # << >> /\ Head(<<a, b>>) = a /\ Tail(<<a, b>>) = <<b>>
         /\ <<a, b, c>> # << >> /\ Head(<<a, b, c>>) = a /\ Tail(<<a, b, c>>) = <<b, c>>
         /\ Append(<< >>, a) = <<a>> /\ << >> \o <<a>> = <<a>>
         /\ << >> \o <<a, b>> = <<a, b>> /\ << >> \o <<a, b, c>> = <<a, b, c>>
<1>1. /\ Head(<<a>>) = a /\ Tail(<<a>>) = << >> /\ Tail(<<a, b>>) = <<b>>
      /\ Tail(<<a, b, c>>) = <<b, c>>
  OBVIOUS
<1>2. /\ << >> \o <<a>> = <<a>> /\ << >> \o <<a, b>> = <<a, b>>
      /\ << >> \o <<a, b, c>> = <<a, b, c>>
  OBVIOUS
<1> QED
  BY <1>1, <1>2

\* One element, and one or two behind it.
LEMMA ShortConcats ==
  ASSUME NEW a, NEW b, NEW c
  PROVE  <<a>> \o <<b>> = <<a, b>> /\ <<a>> \o <<b, c>> = <<a, b, c>>
<1> DEFINE S == {a, b, c}
<1>1. /\ <<a>> \in Seq(S) /\ <<b>> \in Seq(S) /\ <<a, b>> \in Seq(S)
      /\ <<b, c>> \in Seq(S) /\ <<a, b, c>> \in Seq(S)
  OBVIOUS
<1>2. /\ <<a>> \o <<b, c>> \in Seq(S) /\ Len(<<a>> \o <<b, c>>) = 3
      /\ <<a>> \o <<b>> \in Seq(S) /\ Len(<<a>> \o <<b>>) = 2
  BY <1>1, ConcatProperties
<1>3. \A i \in 1..3 : (<<a>> \o <<b, c>>)[i] = <<a, b, c>>[i]
  BY <1>1, ConcatProperties
<1>4. \A i \in 1..2 : (<<a>> \o <<b>>)[i] = <<a, b>>[i]
  BY <1>1, ConcatProperties
<1> QED
  BY <1>1, <1>2, <1>3, <1>4, SeqEqual

\* What users and servers do on a calm day.
LEMMA Patience ==
  ASSUME CalmDay
  PROVE  /\ \A h \in {"browse", "retry", "early_leave", "early_share"} : Waits(h) <=> Quiet
         /\ "book" \notin Env /\ "refuse" \notin Env /\ "cancel" \notin Env
         /\ "close" \notin Env /\ "offer_fails" \notin Env
         /\ "no_connection" \notin Env /\ "no_device" \notin Env
BY DEF CalmDay, Waits

-----------------------------------------------------------------------------
(* What each thread does with what it finds.                                *)

\* The UI thread, by the message at the front.
LEMMA Dispatch ==
  ASSUME UIStep, leaving = "no"
  PROVE  LET id == Head(messageQueue).id
             room == Head(messageQueue).room
         IN  /\ messageQueue # << >> /\ messageQueue' = Tail(messageQueue)
             /\ UNCHANGED <<toClient, srvRoom>>
             /\ id \in {"CREATE_MEETING", "JOIN_MEETING"} =>
                  UNCHANGED <<engineVars, toServer, startWnd, streamWnd, shareState, sessionId>>
             /\ id = "IS_CREATE" => createMeeting /\ UNCHANGED <<windows, sessionId>>
             /\ id = "IS_JOIN" => joinMeeting(room) /\ UNCHANGED windows /\ sessionId' = room
             /\ id = "MEETING_END" => /\ exitMeeting /\ UNCHANGED <<enterWnd, sessionId>>
                                      /\ ~streamWnd' /\ ~shareState'
             /\ id = "SET_SHARE" => /\ switchScreenShare(Head(messageQueue).on)
                                    /\ UNCHANGED <<windows, sessionId>>
             /\ id = "ADD_TRACK" => /\ UNCHANGED <<engineVars, toServer, shareState, sessionId>>
                                    /\ enterWnd' = "closed" /\ ~startWnd' /\ streamWnd'
             /\ id = "CREATE_MEETING_OK" => /\ UNCHANGED <<engineVars, toServer, windows>>
                                            /\ sessionId' = room
             /\ id = "JOIN_MEETING_OK" => UNCHANGED <<engineVars, toServer, windows, sessionId>>
BY DEF UIStep, update, Takes, ExitMeeting, exitMeetingCloses, exitMeetingDrops, UpdateEnter,
       UpdateIsCreate, UpdateIsBooking, UpdateIsJoin,
       UpdateMeetingEnd, UpdateSetShare, UpdateAddTrack, UpdateCreateMeetingOK,
       UpdateJoinMeetingOK, UpdateBookingOK

\* The listener thread, by how far it is and by the response at the front.
LEMMA Reads ==
  ASSUME EngineStep
  PROVE  LET code == Head(toClient).code
             cmeth == Head(toClient).cmeth
         IN  /\ UNCHANGED <<toServer, uiVars, srvRoom>>
             /\ listener.at = "answered" => OnJoined
             /\ listener.at = "joined" => OnStarted
             /\ listener.at = "idle" =>
                  /\ toClient # << >> /\ toClient' = Tail(toClient)
                  /\ code = "100" => onTrying
                  /\ code = "180" => onRinging
                  /\ (code = "200" /\ cmeth = "QUERY") => onOKQuery
                  /\ (code = "200" /\ cmeth = "INVITE") => onOKInvite
                  /\ (code = "200" /\ cmeth = "INFO31") => onOKInfo31
                  /\ (code = "200" /\ cmeth = "INFO30") => onOKInfo30
                  /\ (code = "200" /\ cmeth = "BYE") => onOKBye
                  /\ (code = "CANCEL" /\ cmeth = "QUERY") => onCancelQuery
BY DEF EngineStep, ListenerStep, Receive, onTrying, onRinging, onOKQuery, onOKInvite, OnJoined,
       OnStarted, onOKInfo31, onOKInfo30, onOKBye, onOKCreate, onOKClose, onCloseCloses,
       onCloseDrops, onUnauthorizedInvite, onUnauthorizedBye, onCancelInvite, onCancelDrops,
       onCancelQuery

-----------------------------------------------------------------------------
(* The steps.                                                               *)

\* When all is quiet the user is outside, or inside and shares as the button says.
LEMMA AtRest ==
  ASSUME CalmInv, Quiet
  PROVE  /\ IsOut \/ (IsIn /\ screenOn = shareState)
         /\ toServer = Nothing /\ toClient = Nothing /\ messageQueue = Nothing
<1>1. toServer = Nothing /\ toClient = Nothing /\ messageQueue = Nothing
  BY DEF Quiet, Nothing
<1>2. ~Inquires /\ ~IsCalled /\ ~Parts
  BY <1>1, ShortQueues DEF Inquires, IsCalled, Parts, Leaving, Quiet, Nothing
<1>3. ~Offers
  BY <1>1, ShortQueues DEF Offers, Nothing, Quiet, Connected
<1>4. Enters => IsIn /\ screenOn = shareState
  <2> SUFFICES ASSUME Enters PROVE IsIn /\ screenOn = shareState
    OBVIOUS
  <2>1. listener.at = "idle"
    BY DEF Quiet
  <2>2. /\ <<Track>> # << >> /\ <<Track, Number, Joined>> # << >> /\ <<Number, Joined>> # << >>
        /\ <<Track, Joined>> # << >> /\ <<Joined>> # << >>
    BY ShortQueues
  <2>3. Inside /\ meetingId = srvRoom /\ sessionId = srvRoom /\ stats = "running"
    BY <1>1, <2>1, <2>2 DEF Enters, Nothing
  <2>4. screenOn = shareState
    <3>1. screenOn \in BOOLEAN /\ shareState \in BOOLEAN /\ ~screenOn /\ ~shareState
      BY DEF Enters, Admitted, CalmInv, TypeOK, EngineTypeOK, UITypeOK
    <3> QED
      BY <3>1, Zenon
  <2> QED
    BY <1>1, <2>1, <2>3, <2>4 DEF Enters, Admitted, IsIn
<1>5. IsIn => screenOn = shareState
  BY <1>1, ShortQueues DEF IsIn, Nothing
<1> QED
  BY <1>1, <1>2, <1>3, <1>4, <1>5 DEF CalmInv

\* The user clicks, when all is quiet.
LEMMA CalmUser ==
  ASSUME CalmInv, CalmDay, UserStep, TypeOK'
  PROVE  /\ Quiet /\ CalmInv'
         /\ \/ IsOut /\ IsOut' /\ \/ UNCHANGED messageQueue
                                  \/ \E m \in Messages : messageQueue' = <<m>>
            \/ IsIn /\ IsIn' /\ UNCHANGED <<sessionId, srvRoom>>
<1>1. Quiet
  BY Patience DEF UserStep, Browses, Asks, Departs, Shares
<1>2. /\ IsOut \/ (IsIn /\ screenOn = shareState)
      /\ toServer = Nothing /\ toClient = Nothing /\ messageQueue = Nothing
  BY <1>1, AtRest
<1>3. /\ UNCHANGED <<engineVars, toServer, toClient, srvRoom, sessionId>> /\ fault' = "none"
  BY DEF UserStep, Browses, Asks, Departs, Shares, ClickStart, ClickCloseDialog, ClickCreate,
         ClickJoin, ClickBooking, ClickLeave, ClickShare, Posts, CalmInv, engineVars, threadVars
<1>4. UNCHANGED <<meetingId, pc, local, remote, offering, listener, leaving, stats, screenOn, video, adm>>
  BY <1>3 DEF engineVars, callVars, offerVars, deviceVars, threadVars
<1>5. ASSUME NEW m, Posts(m) PROVE messageQueue' = <<m>>
  BY <1>2, <1>5, ShortQueues DEF Posts, Post, Nothing
<1>6. CASE IsOut
  <2>1. ~streamWnd /\ Outside
    BY <1>6 DEF IsOut, Outside
  <2>2. /\ Outside'
        /\ \/ UNCHANGED messageQueue
           \/ \E id \in {"CREATE_MEETING", "JOIN_MEETING", "IS_CREATE"} :
                messageQueue' = <<Msg(id, NoRoom)>>
           \/ \E m \in Wishes : messageQueue' = <<Msg("IS_JOIN", m)>>
    <3>1. CASE Browses
      BY <1>5, <2>1, <3>1 DEF Browses, ClickStart, ClickCloseDialog, windows, Outside
    <3>2. CASE Asks
      BY <1>5, <2>1, <3>2, Patience DEF Asks, ClickCreate, ClickJoin, windows, Outside, Wishes
    <3> QED
      BY <2>1, <3>1, <3>2 DEF UserStep, Departs, Shares, ClickLeave, ClickShare
  <2>3. IsOut'
    BY <1>2, <1>3, <1>4, <1>6, <2>2 DEF IsOut, Released, Nothing, Wishes
  <2>4. \/ UNCHANGED messageQueue
        \/ \E m \in Messages : messageQueue' = <<m>>
    <3>1. NoRoom \in Ids /\ Wishes \subseteq Ids
      BY DEF Ids, Wishes
    <3> QED
      BY <2>2, <3>1, MsgType
  <2> QED
    BY <1>1, <1>3, <1>6, <2>3, <2>4 DEF CalmInv
<1>7. CASE IsIn /\ screenOn = shareState
  <2>1. ~Browses /\ ~Asks
    BY <1>7 DEF IsIn, Inside, Browses, Asks, ClickStart, ClickCloseDialog, ClickCreate, ClickJoin,
                ClickBooking
  <2>2. /\ Inside' /\ UNCHANGED sessionId
        /\ \/ messageQueue' = <<Msg("MEETING_END", NoRoom)>> /\ UNCHANGED shareState
           \/ messageQueue' = <<[Msg("SET_SHARE", NoRoom) EXCEPT !.on = shareState']>>
    <3>1. CASE Departs
      BY <1>5, <1>7, <3>1 DEF Departs, ClickLeave, windows, IsIn, Inside, Posts
    <3>2. CASE Shares
      BY <1>5, <1>7, <3>2 DEF Shares, ClickShare, IsIn, Inside, Posts
    <3> QED
      BY <2>1, <3>1, <3>2 DEF UserStep
  <2>3. IsIn'
    BY <1>2, <1>3, <1>4, <1>7, <2>2 DEF IsIn, Connected, Nothing
  <2> QED
    BY <1>1, <1>3, <1>7, <2>2, <2>3 DEF CalmInv
<1> QED
  BY <1>2, <1>6, <1>7

\* The fields of messages, requests and responses.
LEMMA Fields ==
  /\ \A id, room : Msg(id, room).id = id /\ Msg(id, room).room = room
  /\ \A on : LET m == [Msg("SET_SHARE", NoRoom) EXCEPT !.on = on]
             IN  m.id = "SET_SHARE" /\ m.on = on
  /\ \A meth, to, sdp : LET r == Request(meth, to, sdp)
                        IN  r.meth = meth /\ r.to = to /\ r.sdp = sdp
  /\ \A code, cmeth, room, sdp :
       LET r == Response(code, cmeth, room, sdp)
       IN  r.code = code /\ r.cmeth = cmeth /\ r.room = room /\ r.sdp = sdp
BY DEF Msg, Request, Response

\* A call starts when the last one has been released.
LEMMA CalmStart ==
  ASSUME CalmInv, CalmDay, Released, StartCall
  PROVE  /\ pc' # 0 /\ offering' = pc' /\ local' = 0 /\ remote' = 0
         /\ video' = "capturing" /\ adm' = "open" /\ screenOn' = FALSE
         /\ UNCHANGED <<meetingId, stats, listener, leaving, fault>>
BY Patience DEF StartCall, Released, CalmInv, TypeOK, EngineTypeOK, threadVars

\* The UI thread outside a meeting.
LEMMA CalmOutside ==
  ASSUME CalmInv, CalmDay, IsOut, UIStep, TypeOK'
  PROVE  /\ CalmInv'
         /\ \/ IsOut' /\ messageQueue' = Nothing
               /\ \E id \in {"CREATE_MEETING", "JOIN_MEETING"} : messageQueue = <<Msg(id, NoRoom)>>
            \/ Offers' /\ meetingId' = NoRoom /\ messageQueue = <<Msg("IS_CREATE", NoRoom)>>
            \/ Inquires' /\ messageQueue = <<Msg("IS_JOIN", meetingId')>>
<1>0. leaving = "no"
  BY DEF IsOut, Released
<1>1. messageQueue # << >> /\ messageQueue' = Tail(messageQueue) /\ UNCHANGED <<toClient, srvRoom>>
  BY <1>0, Dispatch
<1>2. CASE \E id \in {"CREATE_MEETING", "JOIN_MEETING"} : messageQueue = <<Msg(id, NoRoom)>>
  <2>1. Head(messageQueue).id \in {"CREATE_MEETING", "JOIN_MEETING"} /\ messageQueue' = Nothing
    BY <1>1, <1>2, Fields, ShortQueues DEF Nothing
  <2>2. UNCHANGED <<engineVars, toServer, streamWnd, shareState>>
    BY <1>0, <2>1, Dispatch
  <2>3. IsOut' /\ fault' = "none"
    BY <1>1, <2>1, <2>2 DEF IsOut, Released, Outside, engineVars, callVars, offerVars, deviceVars, threadVars,
                            CalmInv
  <2> QED
    BY <1>2, <2>1, <2>3 DEF CalmInv
<1>3. CASE messageQueue = <<Msg("IS_CREATE", NoRoom)>>
  <2>1. Head(messageQueue).id = "IS_CREATE" /\ messageQueue' = Nothing
    BY <1>1, <1>3, Fields, ShortQueues DEF Nothing
  <2>2. StartCall /\ UNCHANGED <<toServer, windows>>
    BY <1>0, <2>1, Dispatch DEF createMeeting
  <2>3. /\ pc' # 0 /\ offering' = pc' /\ local' = 0 /\ remote' = 0
        /\ video' = "capturing" /\ adm' = "open" /\ screenOn' = FALSE
        /\ UNCHANGED <<meetingId, stats, listener, leaving, fault>>
    BY <2>2, CalmStart DEF IsOut
  <2>4. meetingId' = NoRoom /\ meetingId' \in Rooms \union {NoRoom}
    BY <2>3 DEF IsOut
  <2>5. Outside' /\ fault' = "none" /\ listener'.at = "idle" /\ leaving' = "no"
        /\ stats' = "none" /\ ~screenOn'
        /\ srvRoom' = NoRoom /\ toClient' = Nothing /\ toServer' = Nothing
    BY <1>1, <2>2, <2>3 DEF IsOut, Released, Outside, windows, CalmInv
  <2>6. Offers'
    BY <2>1, <2>3, <2>4, <2>5 DEF Offers, Connected
  <2> QED
    BY <1>3, <2>4, <2>5, <2>6 DEF CalmInv
<1>4. CASE \E m \in Wishes : messageQueue = <<Msg("IS_JOIN", m)>>
  <2> PICK m \in Wishes : messageQueue = <<Msg("IS_JOIN", m)>>
    BY <1>4
  <2>1. Head(messageQueue).id = "IS_JOIN" /\ Head(messageQueue).room = m /\ messageQueue' = Nothing
    BY <1>1, Fields, ShortQueues DEF Nothing
  <2>2. joinMeeting(m) /\ UNCHANGED windows /\ sessionId' = m
    BY <1>0, <2>1, Dispatch
  <2>3. /\ toServer' = <<Request("QUERY", m, 0)>> /\ meetingId' = m
        /\ UNCHANGED <<pc, local, remote, offering, listener, leaving, stats, screenOn, video, fault>>
    BY <2>2, ShortQueues DEF joinMeeting, Send, IsOut, Nothing, callVars, offerVars, deviceVars, threadVars
  <2>4. Inquires' /\ fault' = "none"
    BY <1>1, <2>1, <2>2, <2>3 DEF IsOut, Released, Outside, Inquires, windows, CalmInv
  <2> QED
    BY <2>3, <2>4 DEF CalmInv
<1> QED
  BY <1>1, <1>2, <1>3, <1>4 DEF IsOut, Nothing

\* The UI thread while a meeting begins: the window opens, the number is shown.
LEMMA CalmEnters ==
  ASSUME CalmInv, Enters, UIStep, TypeOK'
  PROVE  /\ CalmInv' /\ Enters' /\ UNCHANGED <<pc, srvRoom, meetingId>> /\ streamWnd'
         /\ streamWnd => sessionId' \in {sessionId, srvRoom}
<1>0. leaving = "no"
  BY DEF Enters, Admitted, Connected
<1>1. messageQueue # << >> /\ messageQueue' = Tail(messageQueue) /\ UNCHANGED <<toClient, srvRoom>>
  BY <1>0, Dispatch
<1>2. /\ Track.id = "ADD_TRACK" /\ Number.id = "CREATE_MEETING_OK" /\ Number.room = srvRoom
      /\ Joined.id = "JOIN_MEETING_OK"
  BY Fields DEF Track, Number, Joined
<1>3. ASSUME UNCHANGED <<engineVars, toServer>>
      PROVE  /\ UNCHANGED <<meetingId, pc, local, remote, offering, listener, leaving, stats, screenOn,
                            video, adm, fault>>
             /\ UNCHANGED shareState => Admitted'
             /\ Number' = Number
  BY <1>1, <1>3 DEF engineVars, callVars, offerVars, deviceVars, threadVars, Admitted, Connected, Enters, Number
<1>4. Track' = Track /\ Joined' = Joined
  BY DEF Track, Joined
<1>5. /\ <<Track>> # << >> /\ Head(<<Track>>) = Track /\ Tail(<<Track>>) = Nothing
      /\ Head(<<Track, Number, Joined>>) = Track
      /\ Tail(<<Track, Number, Joined>>) = <<Number, Joined>>
      /\ Head(<<Track, Joined>>) = Track /\ Tail(<<Track, Joined>>) = <<Joined>>
      /\ Head(<<Number, Joined>>) = Number /\ Tail(<<Number, Joined>>) = <<Joined>>
      /\ Head(<<Joined>>) = Joined /\ Tail(<<Joined>>) = Nothing
  BY ShortQueues DEF Nothing
<1>6. messageQueue # Nothing
  BY <1>1 DEF Nothing
<1>7. CASE /\ ~streamWnd /\ messageQueue = <<Track>> /\ stats = "none"
           /\ listener = [at |-> "answered", room |-> srvRoom]
           /\ meetingId # NoRoom => sessionId = meetingId
  <2>1. Head(messageQueue) = Track /\ messageQueue' = Nothing
    BY <1>1, <1>5, <1>7
  <2>2. UNCHANGED <<engineVars, toServer, shareState, sessionId>> /\ Inside'
    BY <1>0, <1>2, <2>1, Dispatch DEF Inside
  <2>3. Enters'
    BY <1>1, <1>3, <1>7, <2>1, <2>2 DEF Enters
  <2> QED
    BY <1>1, <1>3, <1>7, <2>2, <2>3 DEF CalmInv, Inside
<1>8. ASSUME \/ listener.at = "joined" /\ stats = "none"
             \/ listener.at = "idle" /\ stats = "running",
             meetingId = srvRoom, ~streamWnd,
             \/ messageQueue = <<Track, Number, Joined>>
             \/ messageQueue = <<Track, Joined>> /\ sessionId = srvRoom
      PROVE  CalmInv' /\ Enters' /\ UNCHANGED <<pc, srvRoom, meetingId>> /\ streamWnd'
  <2>1. /\ Head(messageQueue) = Track
        /\ \/ messageQueue' = <<Number, Joined>>
           \/ messageQueue' = <<Joined>> /\ sessionId = srvRoom
    BY <1>1, <1>5, <1>8
  <2>2. UNCHANGED <<engineVars, toServer, shareState, sessionId>> /\ Inside'
    BY <1>0, <1>2, <2>1, Dispatch DEF Inside
  <2>3. /\ Admitted' /\ toClient' = Nothing /\ local' = pc' /\ remote' = pc'
        /\ \/ listener'.at = "joined" /\ stats' = "none"
           \/ listener'.at = "idle" /\ stats' = "running"
        /\ meetingId' = srvRoom'
    BY <1>1, <1>3, <1>8, <2>2 DEF Enters
  <2>4. \/ messageQueue' = <<Number', Joined'>>
        \/ messageQueue' = <<Joined'>> /\ sessionId' = srvRoom'
    BY <1>1, <1>3, <1>4, <2>1, <2>2
  <2>5. Enters'
    BY <2>2, <2>3, <2>4 DEF Enters
  <2> QED
    BY <1>1, <1>3, <2>2, <2>5 DEF CalmInv, Inside
<1>9. ASSUME \/ listener.at = "joined" /\ stats = "none"
             \/ listener.at = "idle" /\ stats = "running",
             meetingId = srvRoom, Inside,
             \/ messageQueue = <<Number, Joined>>
             \/ messageQueue = <<Joined>> /\ sessionId = srvRoom
      PROVE  /\ CalmInv' /\ Enters' /\ UNCHANGED <<pc, srvRoom, meetingId>> /\ streamWnd'
             /\ sessionId' = srvRoom
  <2>1. /\ UNCHANGED <<engineVars, toServer, windows>> /\ sessionId' = srvRoom
        /\ messageQueue' = <<Joined>> \/ messageQueue' = Nothing
    <3>1. CASE messageQueue = <<Number, Joined>>
      <4>1. Head(messageQueue) = Number /\ messageQueue' = <<Joined>>
        BY <1>1, <1>5, <3>1
      <4> QED
        BY <1>0, <1>2, <4>1, Dispatch
    <3>2. CASE messageQueue = <<Joined>> /\ sessionId = srvRoom
      <4>1. Head(messageQueue) = Joined /\ messageQueue' = Nothing
        BY <1>1, <1>5, <3>2
      <4> QED
        BY <1>0, <1>2, <3>2, <4>1, Dispatch
    <3> QED
      BY <1>9, <3>1, <3>2
  <2>2. Inside' /\ UNCHANGED shareState
    BY <1>9, <2>1 DEF Inside, windows
  <2>3. /\ Admitted' /\ toClient' = Nothing /\ local' = pc' /\ remote' = pc'
        /\ \/ listener'.at = "joined" /\ stats' = "none"
           \/ listener'.at = "idle" /\ stats' = "running"
        /\ meetingId' = srvRoom' /\ sessionId' = srvRoom'
        /\ messageQueue' = <<Joined'>> \/ messageQueue' = Nothing
    BY <1>1, <1>3, <1>4, <1>9, <2>1, <2>2 DEF Enters
  <2>4. Enters'
    BY <2>2, <2>3 DEF Enters, Nothing
  <2> QED
    BY <1>1, <1>3, <2>1, <2>2, <2>4 DEF CalmInv, Inside
<1> QED
  BY <1>6, <1>7, <1>8, <1>9 DEF Enters, Inside

\* The UI thread in a meeting.
LEMMA CalmInside ==
  ASSUME CalmInv, IsIn, UIStep, TypeOK'
  PROVE  /\ CalmInv' /\ UNCHANGED srvRoom
         /\ \/ IsIn' /\ UNCHANGED sessionId
            \/ Parts' /\ srvRoom \in Rooms
<1>0. leaving = "no"
  BY DEF IsIn, Connected
<1>1. messageQueue # << >> /\ messageQueue' = Tail(messageQueue) /\ UNCHANGED <<toClient, srvRoom>>
  BY <1>0, Dispatch
<1>2. toServer = Nothing /\ toClient = Nothing
  BY <1>1 DEF IsIn, Nothing
<1>3. CASE messageQueue = <<[Msg("SET_SHARE", NoRoom) EXCEPT !.on = shareState]>>
  <2> DEFINE m == [Msg("SET_SHARE", NoRoom) EXCEPT !.on = shareState]
  <2>0. m.id = "SET_SHARE" /\ m.on = shareState
    BY Fields
  <2> HIDE DEF m
  <2>1. /\ Head(messageQueue).id = "SET_SHARE" /\ Head(messageQueue).on = shareState
        /\ messageQueue' = Nothing
    <3>1. messageQueue = <<m>>
      BY <1>3 DEF m
    <3>2. Head(messageQueue) = m /\ messageQueue' = Nothing
      BY <1>1, <3>1, ShortQueues DEF Nothing
    <3> QED
      BY <2>0, <3>2
  <2>2. switchScreenShare(shareState) /\ UNCHANGED <<windows, sessionId>>
    BY <1>0, <2>1, Dispatch
  <2>3. /\ \E meth \in {"INFO30", "INFO31"} : toServer' = <<Request(meth, meetingId, 0)>>
        /\ screenOn' = shareState
        /\ UNCHANGED <<meetingId, pc, local, remote, offering, listener, leaving, stats, video, adm, fault>>
    BY <1>2, <2>2, ShortQueues
    DEF switchScreenShare, Send, IsIn, Connected, Nothing, callVars, offerVars, threadVars, Dies
  <2>4. Inside' /\ UNCHANGED shareState
    BY <2>2 DEF IsIn, Inside, windows
  <2>5. IsIn'
    BY <1>1, <1>2, <2>1, <2>2, <2>3, <2>4 DEF IsIn, Connected
  <2> QED
    BY <1>1, <2>2, <2>3, <2>5 DEF CalmInv
<1>4. CASE messageQueue = <<Msg("MEETING_END", NoRoom)>>
  <2>1. Head(messageQueue).id = "MEETING_END" /\ messageQueue' = Nothing
    BY <1>1, <1>4, Fields, ShortQueues DEF Nothing
  <2>2. Send("BYE", meetingId, 0) /\ StopStats(Leaves("stopping")) /\ ~streamWnd' /\ ~shareState'
    BY <1>0, <2>1, Dispatch DEF exitMeeting
  <2>3. /\ toServer' = <<Request("BYE", srvRoom, 0)>> /\ srvRoom \in Rooms
        /\ listener'.at = "idle" /\ offering' = 0 /\ fault' = "none" /\ Leaving' /\ Outside'
    BY <1>2, <2>2, ShortQueues
    DEF StopStats, Leaves, Send, IsIn, Connected, Nothing, callVars, offerVars, Leaving, Outside,
        CalmInv
  <2>4. Parts'
    BY <1>1, <1>2, <2>1, <2>3 DEF Parts
  <2> QED
    BY <1>1, <2>3, <2>4 DEF CalmInv
<1> QED
  BY <1>1, <1>3, <1>4 DEF IsIn, Nothing

\* The UI thread while it leaves: the devices are closed, then the connection goes.
LEMMA CalmLeaves ==
  ASSUME CalmInv, Parts, UIStep, TypeOK'
  PROVE  /\ CalmInv' /\ UNCHANGED <<srvRoom, toServer, toClient, messageQueue>>
         /\ Parts' \/ (IsOut' /\ srvRoom = NoRoom)
<1>1. ExitMeeting /\ UNCHANGED srvRoom
  BY DEF UIStep, update, Parts, Nothing, UpdateEnter, UpdateIsCreate, UpdateIsBooking, UpdateIsJoin,
         UpdateMeetingEnd, UpdateSetShare, UpdateAddTrack, UpdateCreateMeetingOK,
         UpdateJoinMeetingOK, UpdateBookingOK, Takes
<1>2. UNCHANGED <<toServer, toClient, messageQueue, srvRoom, streamWnd, shareState>>
  BY <1>1 DEF ExitMeeting, exitMeetingCloses, exitMeetingDrops, uiVars, windows
<1>3. Leaving
  BY <1>1 DEF ExitMeeting, exitMeetingCloses, exitMeetingDrops, Parts, Released
<1>4. Outside' /\ messageQueue' = Nothing
  BY <1>2 DEF Parts, Outside
<1>5. CASE exitMeetingCloses
  <2>1. /\ listener'.at = "idle" /\ offering' = 0 /\ fault' = "none" /\ Leaving'
    BY <1>3, <1>5
    DEF exitMeetingCloses, CloseDevices, Leaves, callVars, offerVars, Leaving, Parts, CalmInv
  <2>2. Parts'
    BY <1>2, <1>3, <1>4, <2>1 DEF Parts
  <2> QED
    BY <1>2, <2>1, <2>2 DEF CalmInv
<1>6. CASE exitMeetingDrops
  <2>1. /\ meetingId' = NoRoom /\ Released' /\ fault' = "none"
    BY <1>3, <1>6
    DEF exitMeetingDrops, DropConnection, Leaves, offerVars, deviceVars, Leaving, Parts, Released,
        CalmInv
  <2>2. Parts' \/ (IsOut' /\ srvRoom = NoRoom)
    BY <1>2, <1>3, <1>4, <2>1 DEF Parts, Released, IsOut
  <2> QED
    BY <1>2, <2>1, <2>2 DEF CalmInv
<1> QED
  BY <1>1, <1>5, <1>6 DEF ExitMeeting

\* The UI thread.
LEMMA CalmUI ==
  ASSUME CalmInv, CalmDay, UIStep, TypeOK'
  PROVE  CalmInv' /\ (IsOut \/ Enters \/ IsIn \/ Parts)
<1>1. leaving = "no" => messageQueue # Nothing
  BY Dispatch DEF Nothing
<1>2. IsOut \/ Enters \/ IsIn \/ Parts
  BY <1>1 DEF CalmInv, Inquires, Offers, IsCalled, Released, Admitted, Connected
<1> QED
  BY <1>2, CalmOutside, CalmEnters, CalmInside, CalmLeaves

\* The signaling thread: the offer goes out.
LEMMA CalmSignaling ==
  ASSUME CalmInv, CalmDay, SignalingStep, TypeOK'
  PROVE  /\ CalmInv' /\ Offers /\ Offers'
         /\ UNCHANGED <<pc, srvRoom, meetingId, streamWnd, messageQueue>>
<1>1. offering # 0 /\ UNCHANGED <<uiVars, srvRoom>>
  BY DEF SignalingStep, OnSuccess, OnFailure
<1>2. Offers /\ offering = pc /\ toServer = Nothing
  BY <1>1 DEF CalmInv, IsOut, Inquires, Offers, IsCalled, Enters, IsIn, Parts, Released, Admitted
<1>3. OnSuccess
  BY <1>2, Patience DEF SignalingStep
<1>4. /\ toServer' = <<Request("INVITE", meetingId, pc)>>
      /\ offering' = 0 /\ localJsep' = pc
      /\ UNCHANGED <<meetingId, pc, local, remote, threadVars, fault, adm, video, screenOn, stats,
                     toClient, messageQueue>>
  BY <1>2, <1>3, ShortQueues DEF OnSuccess, Send, Nothing, callVars, deviceVars
<1>5. UNCHANGED <<streamWnd, shareState, sessionId>>
  BY <1>1 DEF uiVars, windows
<1>6. Offers'
  <2>1. Connected' /\ Outside'
    BY <1>2, <1>4, <1>5 DEF Offers, Connected, Outside, threadVars
  <2> QED
    BY <1>1, <1>2, <1>4, <1>5, <2>1 DEF Offers, threadVars
<1> QED
  BY <1>1, <1>2, <1>4, <1>5, <1>6 DEF CalmInv

\* The server answers; nobody ends a meeting.
LEMMA CalmServer ==
  ASSUME CalmInv, CalmDay, Serve \/ Close, TypeOK'
  PROVE  /\ CalmInv' /\ UNCHANGED <<pc, meetingId, uiVars, messageQueue>>
         /\ \/ Inquires /\ Inquires'
            \/ Offers /\ IsCalled' /\ srvRoom' \in Rooms /\ meetingId \in {NoRoom, srvRoom'}
            \/ IsIn /\ IsIn' /\ UNCHANGED srvRoom
            \/ Parts /\ Parts' /\ srvRoom' = NoRoom
<1>1. Serve /\ UNCHANGED uiVars /\ ServerStep
  BY Patience DEF Close, HostCloses, Serve
<1>2. UNCHANGED <<streamWnd, startWnd, enterWnd, shareState, sessionId>>
  BY <1>1 DEF uiVars, windows
<1>3. toServer # << >> /\ UNCHANGED <<engineVars, messageQueue>> /\ toServer' = Tail(toServer)
  BY <1>1 DEF ServerStep, ServeQuery, ServeInvite, ServeBye, ServeCreate, ServeInfo, Asked, Answers
<1>4. UNCHANGED <<meetingId, pc, local, remote, offering, localJsep, listener, leaving, stats, screenOn,
                  video, adm, fault>>
  BY <1>3 DEF engineVars, callVars, offerVars, deviceVars, threadVars
<1>5. NoRoom \notin Rooms /\ Rooms \intersect BadIds = {}
  BY IdsAssumption
<1>6. CASE Inquires
  <2>1. toServer = <<Request("QUERY", meetingId, 0)>> /\ toClient = Nothing
    BY <1>3, <1>6 DEF Inquires, Nothing
  <2>2. toServer' = Nothing /\ Head(toServer).meth = "QUERY" /\ Head(toServer).to = meetingId
    BY <1>3, <2>1, ShortQueues, Fields DEF Nothing
  <2>3. ServeQuery
    BY <1>1, <2>2 DEF ServerStep, ServeInvite, ServeBye, ServeCreate, ServeInfo, Asked
  <2>4. /\ UNCHANGED srvRoom
        /\ \/ meetingId \in Rooms /\ toClient' = <<Response("200", "QUERY", meetingId, 0)>>
           \/ toClient' = <<Response("CANCEL", "QUERY", NoRoom, 0)>>
    BY <2>1, <2>2, <2>3, ShortQueues DEF ServeQuery, Answers, Nothing
  <2>5. Inquires'
    BY <1>2, <1>3, <1>4, <1>6, <2>2, <2>4 DEF Inquires, Released, Outside
  <2> QED
    BY <1>1, <1>3, <1>4, <1>6, <2>5 DEF CalmInv
<1>7. CASE Offers
  <2>1. /\ offering = 0 /\ localJsep = pc /\ toServer = <<Request("INVITE", meetingId, pc)>>
        /\ toClient = Nothing
    BY <1>3, <1>7 DEF Offers, Nothing
  <2>2. /\ toServer' = Nothing /\ Head(toServer).meth = "INVITE" /\ Head(toServer).to = meetingId
        /\ Head(toServer).sdp = pc
    BY <1>3, <2>1, ShortQueues, Fields DEF Nothing
  <2>3. ServeInvite
    BY <1>1, <2>2 DEF ServerStep, ServeQuery, ServeBye, ServeCreate, ServeInfo, Asked
  <2>4. meetingId \notin BadIds
    BY <1>5, <1>7, IdsAssumption DEF Offers
  <2>5. PICK room \in Rooms : /\ meetingId = room \/ meetingId = NoRoom
                              /\ Answers(Accepted(room, pc)) /\ srvRoom' = room
    BY <2>2, <2>3, <2>4, Patience DEF ServeInvite
  <2>6. toClient' = <<Trying', Ringing', Answer'>>
    BY <1>4, <2>1, <2>5, ShortQueues DEF Answers, Accepted, Trying, Ringing, Answer, Nothing
  <2>7. Admitted' /\ ~streamWnd' /\ (meetingId' # NoRoom => sessionId' = meetingId')
    BY <1>2, <1>4, <1>7, <2>1, <2>2, <2>5 DEF Offers, Admitted, Connected, Outside
  <2>8. IsCalled'
    BY <1>3, <1>4, <1>7, <2>1, <2>6, <2>7 DEF IsCalled, Offers
  <2> QED
    BY <1>1, <1>3, <1>4, <1>7, <2>5, <2>8 DEF CalmInv
<1>8. CASE IsIn
  <2>1. PICK meth \in {"INFO30", "INFO31"} :
          /\ toServer = <<Request(meth, meetingId, 0)>> /\ toClient = Nothing
          /\ messageQueue = Nothing /\ screenOn = shareState
    BY <1>3, <1>8 DEF IsIn, Nothing
  <2>2. toServer' = Nothing /\ Head(toServer).meth = meth
    BY <1>3, <2>1, ShortQueues, Fields DEF Nothing
  <2>3. ServeInfo
    BY <1>1, <2>2 DEF ServerStep, ServeQuery, ServeInvite, ServeBye, ServeCreate, Asked
  <2>4. UNCHANGED srvRoom /\ toClient' = <<Response("200", meth, NoRoom, 0)>>
    BY <2>1, <2>2, <2>3, ShortQueues DEF ServeInfo, Answers, Nothing
  <2>5. IsIn'
    BY <1>2, <1>3, <1>4, <1>8, <2>1, <2>2, <2>4 DEF IsIn, Connected, Inside
  <2> QED
    BY <1>1, <1>3, <1>4, <1>8, <2>4, <2>5 DEF CalmInv
<1>9. CASE Parts
  <2>1. srvRoom \in Rooms /\ toServer = <<Request("BYE", srvRoom, 0)>> /\ toClient = Nothing
    BY <1>3, <1>9 DEF Parts, Nothing
  <2>2. toServer' = Nothing /\ Head(toServer).meth = "BYE" /\ Head(toServer).to = srvRoom
    BY <1>3, <2>1, ShortQueues, Fields DEF Nothing
  <2>3. ServeBye
    BY <1>1, <2>2 DEF ServerStep, ServeQuery, ServeInvite, ServeCreate, ServeInfo, Asked
  <2>4. srvRoom' = NoRoom /\ toClient' = <<Response("200", "BYE", NoRoom, 0)>>
    BY <1>5, <2>1, <2>2, <2>3, ShortQueues DEF ServeBye, Answers, Nothing
  <2>5. Parts'
    BY <1>2, <1>3, <1>4, <1>9, <2>2, <2>4 DEF Parts, Released, Leaving, Outside
  <2> QED
    BY <1>1, <1>3, <1>4, <1>9, <2>4, <2>5 DEF CalmInv
<1> QED
  BY <1>3, <1>6, <1>7, <1>8, <1>9 DEF CalmInv, IsOut, IsCalled, Enters, Admitted, Nothing

\* The listener thread while a call begins.
LEMMA CalmCalled ==
  ASSUME CalmInv, IsCalled, EngineStep, TypeOK'
  PROVE  /\ CalmInv'
         /\ IsCalled' \/ (Enters' /\ ~streamWnd')
         /\ UNCHANGED <<pc, srvRoom, meetingId>>
<1>1. /\ UNCHANGED <<toServer, uiVars, srvRoom>> /\ toClient # << >> /\ toClient' = Tail(toClient)
      /\ listener.at = "idle" /\ pc # 0 /\ localJsep = pc /\ remote = 0
  BY Reads DEF IsCalled, Admitted, Connected
<1>2. UNCHANGED <<streamWnd, shareState, sessionId>>
  BY <1>1 DEF uiVars, windows
<1>3. /\ Trying.code = "100" /\ Ringing.code = "180" /\ Answer.code = "200"
      /\ Answer.cmeth = "INVITE" /\ Answer.room = srvRoom /\ Answer.sdp = pc
  BY Fields DEF Trying, Ringing, Answer
<1>4. /\ Head(<<Trying, Ringing, Answer>>) = Trying
      /\ Tail(<<Trying, Ringing, Answer>>) = <<Ringing, Answer>>
      /\ Head(<<Ringing, Answer>>) = Ringing /\ Tail(<<Ringing, Answer>>) = <<Answer>>
      /\ Head(<<Answer>>) = Answer /\ Tail(<<Answer>>) = Nothing
  BY ShortQueues DEF Nothing
<1>5. UNCHANGED pc => Ringing' = Ringing /\ Answer' = Answer
  BY <1>1 DEF Ringing, Answer
<1>6. CASE local = 0 /\ toClient = <<Trying, Ringing, Answer>>
  <2>1. onTrying
    BY <1>1, <1>3, <1>4, <1>6, Reads
  <2>2. UNCHANGED <<meetingId, pc, local, remote, offering, localJsep, listener, leaving, stats, screenOn,
                    video, adm, fault, messageQueue>>
    BY <2>1 DEF onTrying, engineVars, callVars, offerVars, deviceVars, threadVars
  <2>3. IsCalled'
    BY <1>1, <1>2, <1>4, <1>5, <1>6, <2>2 DEF IsCalled, Admitted, Connected
  <2> QED
    BY <1>1, <2>2, <2>3 DEF CalmInv
<1>7. CASE local = 0 /\ toClient = <<Ringing, Answer>>
  <2>1. onRinging
    BY <1>1, <1>3, <1>4, <1>7, Reads
  <2>2. /\ local' = pc /\ remote' = 0
        /\ UNCHANGED <<meetingId, pc, offering, localJsep, listener, leaving, stats, screenOn,
                       video, adm, fault, messageQueue>>
    BY <1>1, <2>1 DEF onRinging, offerVars, deviceVars, threadVars
  <2>3. IsCalled'
    BY <1>1, <1>2, <1>4, <1>5, <1>7, <2>2 DEF IsCalled, Admitted, Connected
  <2> QED
    BY <1>1, <2>2, <2>3 DEF CalmInv
<1>8. CASE local = pc /\ toClient = <<Answer>>
  <2>1. onOKInvite
    BY <1>1, <1>3, <1>4, <1>8, Reads
  <2>2. /\ listener' = [at |-> "answered", room |-> srvRoom]
        /\ remote' = pc /\ messageQueue' = <<Track>>
        /\ UNCHANGED <<meetingId, pc, local, offering, leaving, stats, screenOn, video, adm, fault>>
    <3>1. Head(toClient) = Answer /\ messageQueue = << >>
      BY <1>4, <1>8 DEF IsCalled, Nothing
    <3> QED
      BY <1>1, <1>3, <1>8, <2>1, <3>1, ShortQueues
      DEF onOKInvite, Post, Track, offerVars, deviceVars, threadVars
  <2>3. Admitted' /\ Track' = Track
    BY <1>1, <1>2, <2>2 DEF IsCalled, Admitted, Connected, Track
  <2>4. Enters' /\ ~streamWnd'
    BY <1>1, <1>2, <1>4, <1>8, <2>2, <2>3 DEF IsCalled, Enters
  <2> QED
    BY <1>1, <2>2, <2>4 DEF CalmInv
<1> QED
  BY <1>6, <1>7, <1>8 DEF IsCalled

\* The listener thread while the window opens.
LEMMA CalmJoins ==
  ASSUME CalmInv, Enters, EngineStep, TypeOK'
  PROVE  /\ CalmInv' /\ Enters' /\ UNCHANGED <<pc, srvRoom, streamWnd, sessionId>>
         /\ meetingId' = srvRoom
<1>1. /\ UNCHANGED <<toServer, uiVars, srvRoom>> /\ toClient = Nothing
      /\ srvRoom \in Rooms /\ srvRoom # NoRoom
  BY Reads, IdsAssumption DEF Enters, Admitted
<1>2. UNCHANGED <<streamWnd, startWnd, enterWnd, shareState, sessionId>>
  BY <1>1 DEF uiVars, windows
<1>3. CASE listener.at = "answered"
  <2>1. OnJoined
    BY <1>3, Reads
  <2>2. /\ listener'.at = "joined" /\ listener.room = srvRoom /\ meetingId' = srvRoom
        /\ UNCHANGED <<pc, local, remote, offering, leaving, stats, screenOn, video, adm, fault,
                       toClient>>
    BY <1>3, <2>1
    DEF OnJoined, Enters, Admitted, callVars, offerVars, deviceVars, threadVars
  <2>3. /\ Track' = Track /\ Joined' = Joined /\ Number' = Number
        /\ Number = Msg("CREATE_MEETING_OK", listener.room) /\ Joined = Msg("JOIN_MEETING_OK", NoRoom)
    BY <1>1, <2>2 DEF Track, Joined, Number
  <2>4. /\ \/ ~streamWnd /\ messageQueue = <<Track>>
           \/ Inside /\ messageQueue = Nothing
        /\ meetingId # NoRoom => meetingId = srvRoom /\ sessionId = meetingId
        /\ stats = "none"
    BY <1>3 DEF Enters, Admitted
  <2>5. \/ meetingId = NoRoom /\ messageQueue' = messageQueue \o <<Number, Joined>>
        \/ meetingId # NoRoom /\ messageQueue' = messageQueue \o <<Joined>>
    <3>1. \/ /\ meetingId = NoRoom
             /\ Post(<<Msg("CREATE_MEETING_OK", listener.room), Msg("JOIN_MEETING_OK", NoRoom)>>)
          \/ meetingId # NoRoom /\ Post(<<Msg("JOIN_MEETING_OK", NoRoom)>>)
      BY <2>1 DEF OnJoined
    <3> QED
      BY <2>3, <3>1 DEF Post
  <2>6. \/ ~streamWnd /\ messageQueue' = <<Track, Number, Joined>>
        \/ Inside /\ messageQueue' = <<Number, Joined>>
        \/ sessionId = srvRoom /\ ~streamWnd /\ messageQueue' = <<Track, Joined>>
        \/ sessionId = srvRoom /\ Inside /\ messageQueue' = <<Joined>>
    <3>1. << >> \o <<Joined>> = <<Joined>> /\ << >> \o <<Number, Joined>> = <<Number, Joined>>
      OBVIOUS
    <3>2. <<Track>> \o <<Joined>> = <<Track, Joined>>
      BY ShortConcats
    <3>3. <<Track>> \o <<Number, Joined>> = <<Track, Number, Joined>>
      BY ShortConcats
    <3> QED
      BY <2>4, <2>5, <3>1, <3>2, <3>3 DEF Nothing
  <2>7. Admitted' /\ (Inside => Inside')
    BY <1>1, <1>2, <2>2 DEF Enters, Admitted, Connected, Inside
  <2>8. Enters'
    BY <1>1, <1>2, <2>2, <2>3, <2>4, <2>6, <2>7 DEF Enters
  <2> QED
    BY <1>1, <1>2, <2>2, <2>8 DEF CalmInv
<1>4. CASE listener.at = "joined"
  <2>1. OnStarted
    BY <1>4, Reads
  <2>2. /\ listener'.at = "idle" /\ stats' = "running"
        /\ UNCHANGED <<meetingId, pc, local, remote, offering, leaving, screenOn, video, adm,
                       fault, toClient, messageQueue>>
    BY <1>4, <2>1 DEF OnStarted, Listens, callVars, offerVars, Enters
  <2>3. Track' = Track /\ Joined' = Joined /\ Number' = Number
    BY <1>1 DEF Track, Joined, Number
  <2>4. Admitted' /\ (Inside => Inside')
    BY <1>1, <1>2, <2>2 DEF Enters, Admitted, Connected, Inside
  <2>5. Enters' /\ meetingId' = srvRoom
    BY <1>1, <1>2, <1>4, <2>2, <2>3, <2>4 DEF Enters
  <2> QED
    BY <1>1, <1>2, <2>2, <2>5 DEF CalmInv
<1>5. CASE listener.at = "idle"
  BY <1>1, <1>5, Reads DEF Nothing
<1> QED
  BY <1>3, <1>4, <1>5 DEF Enters

\* The listener thread.
LEMMA CalmListener ==
  ASSUME CalmInv, CalmDay, EngineStep, TypeOK'
  PROVE  /\ CalmInv'
         /\ \/ Inquires /\ Offers' /\ UNCHANGED <<meetingId, srvRoom>>
            \/ Inquires /\ IsOut' /\ messageQueue' = Nothing
            \/ IsCalled /\ (IsCalled' \/ (Enters' /\ ~streamWnd')) /\ UNCHANGED srvRoom
            \/ Enters /\ Enters' /\ UNCHANGED <<srvRoom, streamWnd, sessionId>>
            \/ IsIn /\ IsIn' /\ UNCHANGED srvRoom
            \/ Parts /\ Parts' /\ UNCHANGED srvRoom
            \/ Parts /\ IsOut' /\ messageQueue' = Nothing /\ srvRoom = NoRoom
<1>1. UNCHANGED <<toServer, uiVars, srvRoom>>
  BY Reads
<1>2. UNCHANGED <<streamWnd, startWnd, enterWnd, shareState, sessionId>>
  BY <1>1 DEF uiVars, windows
<1>3. listener.at = "idle" => toClient # Nothing /\ toClient' = Tail(toClient)
  BY Reads DEF Nothing
<1>4. CASE Inquires
  <2>1. listener.at = "idle" /\ Released
    BY <1>4 DEF Inquires, Released
  <2>2. CASE toClient = <<Response("200", "QUERY", meetingId, 0)>> /\ meetingId \in Rooms
    <3>1. Head(toClient).code = "200" /\ Head(toClient).cmeth = "QUERY" /\ toClient' = Nothing
      BY <1>3, <2>1, <2>2, ShortQueues, Fields DEF Nothing
    <3>2. StartCall /\ UNCHANGED messageQueue
      BY <2>1, <2>2, <3>1, Reads DEF onOKQuery
    <3>3. /\ pc' # 0 /\ offering' = pc' /\ local' = 0 /\ remote' = 0
          /\ video' = "capturing" /\ adm' = "open" /\ screenOn' = FALSE
          /\ UNCHANGED <<meetingId, stats, listener, leaving, fault>>
      BY <2>1, <3>2, CalmStart
    <3>4. Offers'
      <4>1. Connected' /\ Outside' /\ toServer' = Nothing
        BY <1>1, <1>2, <1>3, <1>4, <2>1, <2>2, <3>3, ShortQueues
        DEF Inquires, Released, Connected, Outside, Nothing
      <4>2. meetingId' \in Rooms \union {NoRoom}
        BY <2>2, <3>3
      <4>3. /\ listener'.at = "idle" /\ stats' = "none" /\ ~screenOn' /\ srvRoom' = NoRoom
            /\ messageQueue' = Nothing /\ sessionId' = meetingId'
        BY <1>1, <1>2, <1>4, <2>1, <3>2, <3>3 DEF Inquires, Released
      <4> QED
        BY <3>1, <3>3, <4>1, <4>2, <4>3 DEF Offers
    <3> QED
      BY <1>1, <1>4, <3>3, <3>4 DEF CalmInv
  <2>3. CASE toClient = <<Response("CANCEL", "QUERY", NoRoom, 0)>>
    <3>1. Head(toClient).code = "CANCEL" /\ Head(toClient).cmeth = "QUERY" /\ toClient' = Nothing
      BY <1>3, <2>1, <2>3, ShortQueues, Fields DEF Nothing
    <3>2. /\ meetingId' = NoRoom /\ pc' = 0 /\ local' = 0 /\ remote' = 0
          /\ UNCHANGED <<offering, stats, screenOn, video, listener, leaving, fault, messageQueue>>
      BY <2>1, <3>1, Reads DEF onCancelQuery, offerVars, deviceVars, threadVars
    <3>3. toServer' = Nothing
      BY <1>1, <1>3, <1>4, <2>1 DEF Inquires
    <3>4. IsOut'
      BY <1>1, <1>2, <1>4, <3>1, <3>2, <3>3 DEF Inquires, IsOut, Released, Outside
    <3> QED
      BY <1>4, <3>2, <3>4 DEF CalmInv, Inquires
  <2> QED
    BY <1>3, <1>4, <2>1, <2>2, <2>3 DEF Inquires
<1>5. CASE IsIn
  <2>1. listener.at = "idle" /\ video = "capturing"
    BY <1>5 DEF IsIn, Connected
  <2>2. PICK meth \in {"INFO30", "INFO31"} :
          /\ toClient = <<Response("200", meth, NoRoom, 0)>> /\ toServer = Nothing
          /\ screenOn = shareState /\ messageQueue = Nothing
    BY <1>3, <1>5, <2>1 DEF IsIn
  <2>3. Head(toClient).code = "200" /\ Head(toClient).cmeth = meth /\ toClient' = Nothing
    BY <1>3, <2>1, <2>2, ShortQueues, Fields DEF Nothing
  <2>4. UNCHANGED <<engineVars, messageQueue>>
    BY <2>1, <2>3, Reads DEF onOKInfo30, onOKInfo31
  <2>5. UNCHANGED <<meetingId, pc, local, remote, offering, listener, leaving, stats, screenOn, video, adm,
                    fault, messageQueue>>
    BY <2>4 DEF engineVars, callVars, offerVars, deviceVars, threadVars
  <2>6. IsIn'
    BY <1>1, <1>2, <1>5, <2>2, <2>3, <2>5 DEF IsIn, Connected, Inside
  <2> QED
    BY <1>1, <1>5, <2>5, <2>6 DEF CalmInv
<1>6. CASE Parts
  <2>1. listener.at = "idle"
    BY <1>6 DEF Parts
  <2>2. /\ toClient = <<Response("200", "BYE", NoRoom, 0)>> /\ toServer = Nothing
        /\ srvRoom = NoRoom
    BY <1>3, <1>6, <2>1 DEF Parts
  <2>3. Head(toClient).code = "200" /\ Head(toClient).cmeth = "BYE" /\ toClient' = Nothing
    BY <1>3, <2>1, <2>2, ShortQueues, Fields DEF Nothing
  <2>4. /\ meetingId' = NoRoom
        /\ UNCHANGED <<pc, local, remote, offering, stats, screenOn, video, adm, listener, leaving,
                       fault, messageQueue>>
    BY <2>1, <2>3, Reads DEF onOKBye, callVars, offerVars, deviceVars, threadVars
  <2>5. messageQueue' = Nothing /\ Outside'
    BY <1>2, <1>6, <2>4 DEF Parts, Outside
  <2>6. CASE Released
    <3>1. IsOut'
      BY <1>1, <2>2, <2>3, <2>4, <2>5, <2>6 DEF IsOut, Released
    <3> QED
      BY <1>6, <2>2, <2>4, <2>5, <3>1 DEF CalmInv
  <2>7. CASE Leaving
    <3>1. Leaving' /\ listener'.at = "idle" /\ offering' = 0
      BY <1>6, <2>4, <2>7 DEF Leaving, Parts
    <3>2. Parts'
      BY <1>1, <2>2, <2>3, <2>5, <3>1 DEF Parts
    <3> QED
      BY <1>1, <1>6, <2>4, <3>2 DEF CalmInv
  <2> QED
    BY <1>6, <2>6, <2>7 DEF Parts
<1>7. (IsOut \/ Offers) => FALSE
  BY <1>3 DEF IsOut, Offers, Released
<1>8. CASE IsCalled
  BY <1>8, CalmCalled
<1>9. CASE Enters
  BY <1>9, CalmJoins
<1> QED
  BY <1>4, <1>5, <1>6, <1>7, <1>8, <1>9 DEF CalmInv

\* A step that changes nothing.
LEMMA CalmStutter ==
  ASSUME CalmInv, UNCHANGED vars, TypeOK'
  PROVE  CalmInv'
<1>1. /\ UNCHANGED <<meetingId, pc, local, remote, offering, localJsep, listener, leaving, stats, screenOn,
                     video, adm, fault, toServer, toClient, messageQueue, srvRoom>>
      /\ UNCHANGED <<streamWnd, startWnd, enterWnd, shareState, sessionId>>
  BY DEF vars, vars0, engineVars, callVars, offerVars, deviceVars, threadVars, uiVars, windows
<1>2. IsOut => IsOut'
  BY <1>1 DEF IsOut, Released, Outside
<1>3. Inquires => Inquires'
  BY <1>1 DEF Inquires, Released, Outside
<1>4. Offers => Offers'
  BY <1>1 DEF Offers, Connected, Outside
<1>5. IsCalled => IsCalled'
  BY <1>1 DEF IsCalled, Admitted, Connected, Trying, Ringing, Answer
<1>6. Enters => Enters'
  BY <1>1 DEF Enters, Admitted, Connected, Inside, Track, Number, Joined
<1>7. IsIn => IsIn'
  BY <1>1 DEF IsIn, Connected, Inside
<1>8. Parts => Parts'
  BY <1>1 DEF Parts, Released, Leaving, Outside
<1> QED
  BY <1>1, <1>2, <1>3, <1>4, <1>5, <1>6, <1>7, <1>8 DEF CalmInv

-----------------------------------------------------------------------------
(* The theorems.                                                            *)

\* On a calm day one thing goes on at a time: the invariant is inductive.
THEOREM CalmInvariance ==
  ASSUME CalmDay
  PROVE  Spec => []CalmInv
<1>1. Init => CalmInv
  <2> SUFFICES ASSUME Init PROVE CalmInv
    OBVIOUS
  <2>1. IsOut /\ fault = "none"
    BY DEF Init, EngineInit, UIInit, IsOut, Released, Outside, Nothing
  <2> QED
    BY <2>1, InitType DEF CalmInv
<1>2. CalmInv /\ [Next]_vars => CalmInv'
  <2> SUFFICES ASSUME CalmInv, [Next]_vars PROVE CalmInv'
    OBVIOUS
  <2>1. TypeOK'
    BY NextType DEF CalmInv
  <2> QED
    BY <2>1, CalmUser, CalmUI, CalmSignaling, CalmListener, CalmServer, CalmStutter DEF Next
<1> QED
  BY <1>1, <1>2, PTL DEF Spec

\* On a calm day no sequence of clicks and answers kills the process.
THEOREM CalmSurvives ==
  ASSUME CalmDay
  PROVE  Spec => []NoFault
<1>1. CalmInv => NoFault
  BY DEF CalmInv, NoFault
<1> QED
  BY <1>1, CalmInvariance, PTL

\* Whenever a calm day is quiet, window, connection, descriptions, meetingId,
\* statistics and server agree on whether the user is in a meeting, and in which.
THEOREM CalmAgrees ==
  ASSUME CalmDay
  PROVE  Spec => []SettledAgreement
<1>1. CalmInv => SettledAgreement
  <2> SUFFICES ASSUME CalmInv, Quiet PROVE SettledAgreement
    BY DEF SettledAgreement
  <2>1. IsOut \/ IsIn
    BY AtRest
  <2> QED
    BY <2>1 DEF IsOut, Released, Outside, IsIn, Inside, Connected, SettledAgreement
<1> QED
  BY <1>1, CalmInvariance, PTL

\* The dialog never stays open over the meeting window, nor is opened behind it.
THEOREM CalmCloses ==
  ASSUME CalmDay
  PROVE  Spec => []DialogClosed
<1>1. CalmInv => DialogClosed
  <2> SUFFICES ASSUME CalmInv, streamWnd PROVE enterWnd = "closed"
    BY DEF DialogClosed
  <2>1. Enters \/ IsIn
    BY DEF CalmInv, IsOut, Inquires, Offers, IsCalled, Parts, Outside
  <2> QED
    BY <2>1 DEF Enters, IsIn, Inside
<1> QED
  BY <1>1, CalmInvariance, PTL

\* The number in the window is that of the meeting the server has the user in,
\* whether the user typed it or the server chose it.
THEOREM CalmShowsNumber ==
  ASSUME CalmDay
  PROVE  Spec => []ShownNumber
<1>1. CalmInv => ShownNumber
  <2> SUFFICES ASSUME CalmInv, Quiet, streamWnd PROVE sessionId = srvRoom
    BY DEF ShownNumber
  <2>1. IsIn
    BY AtRest DEF IsOut, Outside
  <2> QED
    BY <2>1 DEF IsIn
<1> QED
  BY <1>1, CalmInvariance, PTL

\* The screen is shared when the button says so, over any number of meetings.
THEOREM CalmShares ==
  ASSUME CalmDay
  PROVE  Spec => []ShareAsShown
<1>1. CalmInv => ShareAsShown
  <2> SUFFICES ASSUME CalmInv, Quiet PROVE screenOn = shareState
    BY DEF ShareAsShown
  <2>1. screenOn \in BOOLEAN /\ shareState \in BOOLEAN
    BY DEF CalmInv, TypeOK, EngineTypeOK, UITypeOK
  <2>2. IsOut => ~screenOn /\ ~shareState
    BY DEF IsOut, Released, Outside
  <2>3. IsOut => screenOn = shareState
    BY <2>1, <2>2, Zenon
  <2> QED
    BY <2>3, AtRest
<1> QED
  BY <1>1, CalmInvariance, PTL

-----------------------------------------------------------------------------
(* What the user sees: the steps of Meeting.                                *)

Sees(p, w, m, k) == Phase = p /\ Wish = w /\ srvRoom = m /\ Known = k

\* Outside, with no request in the queue.
Browsing ==
  \/ messageQueue = Nothing
  \/ \E id \in {"CREATE_MEETING", "JOIN_MEETING"} : messageQueue = <<Msg(id, NoRoom)>>

Views ==
  /\ (IsOut /\ Browsing) => Sees("out", NoRoom, NoRoom, FALSE)
  /\ (IsOut /\ messageQueue = <<Msg("IS_CREATE", NoRoom)>>) => Sees("asked", NoRoom, NoRoom, FALSE)
  /\ \A m \in Wishes :
       (IsOut /\ messageQueue = <<Msg("IS_JOIN", m)>>) => Sees("asked", m, NoRoom, FALSE)
  /\ Inquires \/ Offers => Sees("asked", meetingId, NoRoom, FALSE)
  /\ IsCalled \/ (Enters /\ ~streamWnd) => Sees("asked", NoRoom, srvRoom, FALSE) /\ srvRoom \in Rooms
  /\ Enters /\ streamWnd => Sees("in", NoRoom, srvRoom, sessionId = srvRoom)
  /\ IsIn => Sees("in", NoRoom, srvRoom, TRUE)
  /\ Parts => Sees("out", NoRoom, srvRoom, FALSE)

\* The request in a queue of one message.
LEMMA AskingOne ==
  ASSUME NEW id, NEW room, messageQueue = <<Msg(id, room)>>
  PROVE  /\ id \in {"IS_CREATE", "IS_JOIN"} =>
              Asking # {} /\ (CHOOSE x \in Asking : TRUE).room = room
         /\ id \notin {"IS_CREATE", "IS_JOIN"} => Asking = {}
<1> DEFINE m == Msg(id, room)
<1>1. m.id = id /\ m.room = room
  BY Fields
<1>2. messageQueue = <<m>>
  OBVIOUS
<1> HIDE DEF m
<1>3. DOMAIN messageQueue = {1} /\ messageQueue[1] = m
  BY <1>2
<1>4. id \in {"IS_CREATE", "IS_JOIN"} => Asking = {m}
  BY <1>1, <1>3 DEF Asking
<1>5. id \notin {"IS_CREATE", "IS_JOIN"} => Asking = {}
  BY <1>1, <1>3 DEF Asking
<1> QED
  BY <1>1, <1>4, <1>5

\* Every stage as the user sees it.
LEMMA StageViews == CalmInv => Views
<1> SUFFICES ASSUME CalmInv PROVE Views
  OBVIOUS
<1>1. messageQueue = Nothing => Asking = {}
  BY DEF Asking, Nothing
<1>2. toServer = Nothing /\ toClient = Nothing => ~Querying
  BY DEF Querying, Nothing
<1>3. NoRoom \notin Rooms
  BY IdsAssumption
<1>4. ASSUME IsOut
      PROVE  /\ Browsing => Sees("out", NoRoom, NoRoom, FALSE)
             /\ messageQueue = <<Msg("IS_CREATE", NoRoom)>> => Sees("asked", NoRoom, NoRoom, FALSE)
             /\ \A m \in Wishes :
                  messageQueue = <<Msg("IS_JOIN", m)>> => Sees("asked", m, NoRoom, FALSE)
  <2>1. ~Querying /\ ~streamWnd /\ pc = 0 /\ srvRoom = NoRoom /\ meetingId = NoRoom /\ ~Known
    BY <1>2, <1>4 DEF IsOut, Released, Outside, Known
  <2>2. Known = FALSE
    BY <2>1 DEF Known
  <2>3. ASSUME Asking = {} PROVE Sees("out", NoRoom, NoRoom, FALSE)
    BY <2>1, <2>2, <2>3 DEF Sees, Phase, Wish
  <2>4. ASSUME NEW m, Asking # {}, (CHOOSE x \in Asking : TRUE).room = m
        PROVE  Sees("asked", m, NoRoom, FALSE)
    BY <2>1, <2>2, <2>4 DEF Sees, Phase, Wish
  <2>5. ASSUME Browsing PROVE Asking = {}
    BY <1>1, <2>5, AskingOne DEF Browsing
  <2>6. ASSUME messageQueue = <<Msg("IS_CREATE", NoRoom)>>
        PROVE  Asking # {} /\ (CHOOSE x \in Asking : TRUE).room = NoRoom
    BY <2>6, AskingOne
  <2>7. ASSUME NEW m \in Wishes, messageQueue = <<Msg("IS_JOIN", m)>>
        PROVE  Asking # {} /\ (CHOOSE x \in Asking : TRUE).room = m
    BY <2>7, AskingOne
  <2> QED
    BY <2>3, <2>4, <2>5, <2>6, <2>7
<1>5. ASSUME Inquires \/ Offers
      PROVE  Sees("asked", meetingId, NoRoom, FALSE)
  <2>1. ~streamWnd /\ messageQueue = Nothing /\ srvRoom = NoRoom
    BY <1>5 DEF Inquires, Offers, Outside
  <2>2. Querying \/ (pc # 0 /\ leaving = "no")
    <3>1. CASE Offers
      BY <3>1 DEF Offers, Connected
    <3>2. CASE Inquires /\ toServer = <<Request("QUERY", meetingId, 0)>>
      <4>1. 1 \in DOMAIN toServer /\ toServer[1].meth = "QUERY"
        BY <3>2, Fields
      <4> QED
        BY <4>1 DEF Querying
    <3>3. CASE \/ toClient = <<Response("200", "QUERY", meetingId, 0)>>
               \/ toClient = <<Response("CANCEL", "QUERY", NoRoom, 0)>>
      <4>1. 1 \in DOMAIN toClient /\ toClient[1].cmeth = "QUERY"
        BY <3>3, Fields
      <4> QED
        BY <4>1 DEF Querying
    <3> QED
      BY <1>5, <3>1, <3>2, <3>3 DEF Inquires
  <2>3. Known = FALSE
    BY <2>1 DEF Known
  <2> QED
    BY <1>1, <2>1, <2>2, <2>3 DEF Sees, Phase, Wish
<1>6. ASSUME IsCalled \/ (Enters /\ ~streamWnd)
      PROVE  Sees("asked", NoRoom, srvRoom, FALSE) /\ srvRoom \in Rooms
  <2>1. ~streamWnd /\ pc # 0 /\ leaving = "no" /\ srvRoom \in Rooms
    BY <1>6 DEF IsCalled, Enters, Admitted, Connected
  <2>2. Known = FALSE
    BY <2>1 DEF Known
  <2> QED
    BY <1>3, <2>1, <2>2 DEF Sees, Phase, Wish
<1>7. ASSUME Enters, streamWnd
      PROVE  Sees("in", NoRoom, srvRoom, sessionId = srvRoom)
  <2>1. Known = (sessionId = srvRoom)
    BY <1>7 DEF Known
  <2> QED
    BY <1>7, <2>1 DEF Sees, Phase, Wish
<1>8. ASSUME IsIn
      PROVE  Sees("in", NoRoom, srvRoom, TRUE)
  <2>1. streamWnd /\ Known = TRUE
    BY <1>8 DEF IsIn, Inside, Known
  <2> QED
    BY <2>1 DEF Sees, Phase, Wish
<1>9. ASSUME Parts
      PROVE  Sees("out", NoRoom, srvRoom, FALSE)
  <2>1. ~streamWnd /\ (pc = 0 \/ leaving # "no") /\ messageQueue = Nothing
    BY <1>9 DEF Parts, Released, Leaving, Outside
  <2>2. ~Querying
    <3>1. ASSUME NEW i \in DOMAIN toServer PROVE toServer[i].meth # "QUERY"
      BY <1>9, <3>1, Fields DEF Parts, Nothing
    <3>2. ASSUME NEW i \in DOMAIN toClient PROVE toClient[i].cmeth # "QUERY"
      BY <1>9, <3>2, Fields DEF Parts, Nothing
    <3> QED
      BY <3>1, <3>2 DEF Querying
  <2>3. Known = FALSE
    BY <2>1 DEF Known
  <2> QED
    BY <1>1, <2>1, <2>2, <2>3 DEF Sees, Phase, Wish
<1> QED
  BY <1>4, <1>5, <1>6, <1>7, <1>8, <1>9 DEF Views

\* Each step of the threads and of the server is a step of Meeting, or not seen.
LEMMA SeenStep ==
  ASSUME CalmDay, CalmInv, Next, CalmInv', Views, Views'
  PROVE  [User!Next]_(User!meetingVars)
<1> USE DEF User!meetingVars
<1>1. TypeOK' /\ NoRoom \notin Rooms
  BY IdsAssumption DEF CalmInv
<1>2. CASE UserStep
  <2>1. Quiet /\ messageQueue = Nothing
    BY <1>1, <1>2, CalmUser DEF Quiet, Nothing
  <2>2. CASE IsOut /\ IsOut'
    <3>1. Sees("out", NoRoom, NoRoom, FALSE)
      BY <2>1, <2>2 DEF Views, Browsing
    <3>2. CASE Browsing'
      <4>1. Sees("out", NoRoom, NoRoom, FALSE)'
        BY <2>2, <3>2 DEF Views
      <4> QED
        BY <3>1, <4>1 DEF Sees
    <3>3. CASE messageQueue' = <<Msg("IS_CREATE", NoRoom)>>
      <4>1. Sees("asked", NoRoom, NoRoom, FALSE)'
        BY <2>2, <3>3 DEF Views
      <4>2. User!Ask(NoRoom)
        BY <3>1, <4>1 DEF Sees, User!Ask
      <4> QED
        BY <4>2 DEF User!Next
    <3>4. CASE \E m \in Wishes : messageQueue' = <<Msg("IS_JOIN", m)>>
      <4> PICK m \in Wishes : messageQueue' = <<Msg("IS_JOIN", m)>>
        BY <3>4
      <4>1. Sees("asked", m, NoRoom, FALSE)'
        BY <2>2 DEF Views
      <4>2. User!Ask(m)
        BY <3>1, <4>1 DEF Sees, User!Ask
      <4> QED
        BY <4>2 DEF User!Next, Wishes
    <3> QED
      BY <2>2, <3>2, <3>3, <3>4 DEF IsOut, Browsing
  <2>3. CASE IsIn /\ IsIn' /\ UNCHANGED srvRoom
    BY <2>3 DEF Views, Sees
  <2> QED
    BY <1>1, <1>2, <2>2, <2>3, CalmUser
<1>3. CASE UIStep
  <2>1. CASE IsOut
    <3>1. CASE /\ IsOut' /\ messageQueue' = Nothing
               /\ \E id \in {"CREATE_MEETING", "JOIN_MEETING"} : messageQueue = <<Msg(id, NoRoom)>>
      BY <2>1, <3>1 DEF Views, Browsing, Sees
    <3>2. CASE Offers' /\ meetingId' = NoRoom /\ messageQueue = <<Msg("IS_CREATE", NoRoom)>>
      BY <2>1, <3>2 DEF Views, Sees
    <3>3. CASE Inquires' /\ messageQueue = <<Msg("IS_JOIN", meetingId')>>
      <4>1. meetingId' \in Wishes
        BY <3>3 DEF Inquires
      <4>2. Sees("asked", meetingId', NoRoom, FALSE)
        BY <2>1, <3>3, <4>1 DEF Views
      <4>3. Sees("asked", meetingId, NoRoom, FALSE)'
        BY <3>3 DEF Views
      <4> QED
        BY <4>2, <4>3 DEF Sees
    <3> QED
      BY <1>1, <1>3, <2>1, <3>1, <3>2, <3>3, CalmOutside
  <2>2. CASE Enters
    BY <1>1, <1>3, <2>2, CalmEnters DEF Views, Sees, User!Enter, User!Learn, User!Next
  <2>3. CASE IsIn
    BY <1>1, <1>3, <2>3, CalmInside DEF Views, Sees, User!Leave, User!Next
  <2>4. CASE Parts
    <3>1. Sees("out", NoRoom, srvRoom, FALSE)
      BY <2>4 DEF Views
    <3>2. (Parts' \/ (IsOut' /\ srvRoom = NoRoom)) /\ UNCHANGED <<srvRoom, messageQueue>>
      BY <1>1, <1>3, <2>4, CalmLeaves
    <3>3. Browsing'
      BY <2>4, <3>2 DEF Parts, Browsing
    <3>4. Sees("out", NoRoom, srvRoom, FALSE)'
      BY <3>2, <3>3 DEF Views
    <3> QED
      BY <3>1, <3>2, <3>4 DEF Sees
  <2> QED
    BY <1>1, <1>3, <2>1, <2>2, <2>3, <2>4, CalmUI
<1>4. CASE SignalingStep
  <2>1. Offers /\ Offers' /\ UNCHANGED <<meetingId, srvRoom>>
    BY <1>1, <1>4, CalmSignaling
  <2> QED
    BY <2>1 DEF Views, Sees
<1>5. CASE EngineStep
  <2>1. CASE Inquires /\ Offers' /\ UNCHANGED <<meetingId, srvRoom>>
    BY <2>1 DEF Views, Sees
  <2>2. CASE Inquires /\ IsOut' /\ messageQueue' = Nothing
    BY <2>2 DEF Views, Browsing, Sees, User!Refuse, User!Next
  <2>3. CASE IsCalled /\ (IsCalled' \/ (Enters' /\ ~streamWnd')) /\ UNCHANGED srvRoom
    <3>1. Sees("asked", NoRoom, srvRoom, FALSE)
      BY <2>3 DEF Views
    <3>2. Sees("asked", NoRoom, srvRoom, FALSE)'
      BY <2>3 DEF Views
    <3>3. Phase' = Phase /\ Wish' = Wish /\ srvRoom' = srvRoom
      BY <2>3, <3>1, <3>2 DEF Sees
    <3>4. Known' = Known
      BY <3>1, <3>2, Zenon DEF Sees
    <3>5. UNCHANGED <<Phase, Wish, srvRoom, Known>>
      BY <3>3, <3>4, Zenon
    <3> QED  BY <3>5, Zenon
  <2>4. CASE Enters /\ Enters' /\ UNCHANGED <<srvRoom, streamWnd, sessionId>>
    <3> DEFINE p == IF streamWnd THEN "in" ELSE "asked"
               k == streamWnd /\ sessionId = srvRoom
    <3>1. Phase = p /\ Wish = NoRoom /\ Known = k
      BY <2>4 DEF Views, Sees
    <3>2. (Phase = p /\ Wish = NoRoom /\ Known = k)'
      BY <2>4 DEF Views, Sees
    <3>3. srvRoom' = srvRoom /\ p' = p /\ k' = k
      BY <2>4
    <3> HIDE DEF p, k
    <3>4. UNCHANGED <<Phase, Wish, srvRoom, Known>>
      BY <3>1, <3>2, <3>3
    <3> QED  BY <3>4
  <2>5. CASE IsIn /\ IsIn' /\ UNCHANGED srvRoom
    BY <2>5 DEF Views, Sees
  <2>6. CASE Parts /\ IsOut' /\ messageQueue' = Nothing /\ srvRoom = NoRoom
    BY <2>6 DEF Views, Browsing, Sees
  <2>7. CASE Parts /\ Parts' /\ UNCHANGED srvRoom
    BY <2>7 DEF Views, Sees
  <2> QED
    BY <1>1, <1>5, <2>1, <2>2, <2>3, <2>4, <2>5, <2>6, <2>7, CalmListener
<1>6. CASE Serve \/ Close
  <2>1. CASE Inquires /\ Inquires' /\ UNCHANGED meetingId
    BY <2>1 DEF Views, Sees
  <2>2. CASE Offers /\ IsCalled' /\ srvRoom' \in Rooms /\ meetingId \in {NoRoom, srvRoom'}
    <3>1. User!Admit(srvRoom')
      BY <1>1, <2>2 DEF Views, Sees, User!Admit
    <3> QED
      BY <2>2, <3>1 DEF User!Next
  <2>3. CASE IsIn /\ IsIn' /\ UNCHANGED srvRoom
    BY <2>3 DEF Views, Sees
  <2>4. CASE Parts /\ Parts' /\ srvRoom' = NoRoom
    BY <2>4 DEF Views, Sees, User!Goodbye, User!Next
  <2> QED
    BY <1>1, <1>6, <2>1, <2>2, <2>3, <2>4, CalmServer
<1> QED
  BY <1>2, <1>3, <1>4, <1>5, <1>6 DEF Next

\* The program keeps what Meeting promises, as far as safety goes: whoever asks for a
\* meeting enters that one and no other, only when admitted and never a second one,
\* sees its number change to the right one and stay, and is let go after leaving.
THEOREM RefinesMeeting ==
  ASSUME CalmDay
  PROVE  Spec => User!Spec
<1>1. Init => User!Init
  <2> SUFFICES ASSUME Init PROVE User!Init
    OBVIOUS
  <2>1. /\ ~streamWnd /\ pc = 0 /\ srvRoom = NoRoom
        /\ messageQueue = << >> /\ toServer = << >> /\ toClient = << >>
    BY DEF Init, EngineInit, UIInit
  <2>2. Asking = {} /\ ~Querying /\ Known = FALSE
    BY <2>1 DEF Asking, Querying, Known
  <2> QED
    BY <2>1, <2>2 DEF User!Init, Phase, Wish
<1>2. CalmInv /\ CalmInv' /\ Views /\ Views' /\ [Next]_vars => [User!Next]_(User!meetingVars)
  <2>1. UNCHANGED vars => UNCHANGED User!meetingVars
    BY DEF vars, vars0, engineVars, callVars, threadVars, uiVars, windows, User!meetingVars,
           Phase, Wish, Known, Asking, Querying
  <2> QED
    BY <2>1, SeenStep
<1> QED
  BY <1>1, <1>2, StageViews, CalmInvariance, PTL DEF Spec, User!Spec
=============================================================================
