------------------------- MODULE DisturbanceProofs -------------------------
(* What still holds when the day is not calm.  Each property of the calm day *)
(* that a disturbance can break is proved in every environment without the   *)
(* disturbances that break it, whatever else the user, WebRTC and the server *)
(* do, crashes included: up to its last step the process keeps it.           *)
EXTENDS DescriptionProofs

-----------------------------------------------------------------------------
(* Messages that only the front of a queue may be.                          *)

FirstOnly(q, T) == \A i \in DOMAIN q : q[i] \in T => i = 1

\* What is appended is there.
LEMMA Appended ==
  ASSUME NEW S, NEW q \in Seq(S), NEW r \in Seq(S), NEW i \in DOMAIN r
  PROVE  i + Len(q) \in DOMAIN (q \o r) /\ (q \o r)[i + Len(q)] = r[i]
BY ConcatPlaces

\* What is left when the last is taken.
LEMMA LastTaken ==
  ASSUME NEW S, NEW q \in Seq(S), Len(q) = 1
  PROVE  Tail(q) = << >>
<1>1. q # << >>
  OBVIOUS
<1>2. Tail(q) \in Seq(S) /\ Len(Tail(q)) = 0
  BY <1>1
<1> QED
  BY <1>2, EmptySeq

\* Behind the front of the queue there is none of them.
LEMMA FirstTaken ==
  ASSUME NEW S, NEW T, NEW q \in Seq(S), q # << >>, FirstOnly(q, T)
  PROVE  NoneOf(Tail(q), T) /\ (Head(q) \notin T => NoneOf(q, T))
<1>1. NoneOf(Tail(q), T)
  <2> SUFFICES ASSUME NEW i \in DOMAIN Tail(q), Tail(q)[i] \in T PROVE FALSE
    BY DEF NoneOf
  <2>1. i + 1 = 1
    BY TailPlaces DEF FirstOnly
  <2>2. i \in Nat /\ DOMAIN Tail(q) = 1..Len(Tail(q))
    BY TailPlaces
  <2> QED
    BY <2>1, <2>2
<1>2. Head(q) \notin T => NoneOf(q, T)
  BY TailPlaces DEF FirstOnly, NoneOf
<1> QED
  BY <1>1, <1>2

\* A queue that comes from this one without a new one of them.
LEMMA FirstKept ==
  ASSUME NEW S, NEW T, NEW q \in Seq(S), NEW n, Keeps(q, n, S, T), FirstOnly(q, T)
  PROVE  FirstOnly(n, T)
<1>1. CASE q # << >> /\ n = Tail(q)
  BY <1>1, FirstTaken DEF FirstOnly, NoneOf
<1>2. ASSUME NEW r \in Seq(S), NoneOf(r, T), n = q \o r PROVE FirstOnly(n, T)
  BY <1>2, ConcatPlaces DEF FirstOnly, NoneOf
<1> QED
  BY <1>1, <1>2 DEF Keeps

\* A queue of one.
LEMMA FirstSingle ==
  ASSUME NEW T, NEW m
  PROVE  FirstOnly(<<m>>, T)
BY DEF FirstOnly

-----------------------------------------------------------------------------
(* Who posts what.                                                          *)

\* The messages of the clicks, and those of the engine's callbacks.
ClickIds ==
  {"CREATE_MEETING", "JOIN_MEETING", "IS_CREATE", "IS_BOOKING", "IS_JOIN", "MEETING_END",
   "SET_SHARE"}
CallbackIds == {"ADD_TRACK", "CREATE_MEETING_OK", "JOIN_MEETING_OK", "BOOKING_MEETING_OK"}

OfIds(ids) == {m \in Messages : m.id \in ids}

\* The listener thread posts nothing, or what its callbacks report.
LEMMA ListenerPosts ==
  ASSUME TypeOK, ListenerStep
  PROVE  \E r \in Seq(Messages) :
           /\ messageQueue' = messageQueue \o r
           /\ \A i \in DOMAIN r : r[i].id \in CallbackIds
<1>1. messageQueue \in Seq(Messages) /\ NoRoom \in Ids
  BY DEF TypeOK, EngineTypeOK, Ids
<1>2. CASE UNCHANGED messageQueue
  <2>1. << >> \in Seq(Messages) /\ messageQueue' = messageQueue \o << >>
    BY <1>1, <1>2
  <2> DEFINE r == << >>
  <2>2. r \in Seq(Messages) /\ messageQueue' = messageQueue \o r /\ DOMAIN r = {}
    BY <2>1
  <2> HIDE DEF r
  <2> QED
    BY <2>2
<1>3. ASSUME NEW id \in CallbackIds, NEW room \in Ids, Post(<<Msg(id, room)>>)
      PROVE  \E r \in Seq(Messages) :
               messageQueue' = messageQueue \o r /\ \A i \in DOMAIN r : r[i].id \in CallbackIds
  <2>1. Msg(id, room) \in Messages /\ Msg(id, room).id = id
    BY <1>3, MsgType DEF Msg, CallbackIds
  <2> DEFINE r == <<Msg(id, room)>>
  <2>2. r \in Seq(Messages) /\ messageQueue' = messageQueue \o r
    BY <1>3, <2>1 DEF Post
  <2>3. \A i \in DOMAIN r : r[i].id \in CallbackIds
    BY <2>1
  <2> QED
    BY <2>2, <2>3
<1>4. CASE onOKInvite
  BY <1>1, <1>2, <1>3, <1>4 DEF onOKInvite, CallbackIds
<1>5. CASE onOKCreate
  <2>1. Head(toClient).room \in Ids
    BY <1>5, TypeParts, ReceiveType DEF onOKCreate
  <2> QED
    BY <1>3, <1>5, <2>1 DEF onOKCreate, CallbackIds
<1>6. CASE OnJoined
  <2>1. listener.room \in Ids
    BY DEF TypeOK, EngineTypeOK
  <2>2. CASE Post(<<Msg("JOIN_MEETING_OK", NoRoom)>>)
    BY <1>1, <1>3, <2>2 DEF CallbackIds
  <2>3. CASE Post(<<Msg("CREATE_MEETING_OK", listener.room), Msg("JOIN_MEETING_OK", NoRoom)>>)
    <3> DEFINE a == Msg("CREATE_MEETING_OK", listener.room)
               b == Msg("JOIN_MEETING_OK", NoRoom)
    <3>1. a \in Messages /\ b \in Messages /\ a.id \in CallbackIds /\ b.id \in CallbackIds
      BY <1>1, <2>1, MsgType DEF Msg, CallbackIds
    <3>2. messageQueue' = messageQueue \o <<a, b>>
      BY <2>3 DEF Post
    <3> HIDE DEF a, b
    <3>3. <<a, b>> \in Seq(Messages) /\ \A i \in DOMAIN <<a, b>> : <<a, b>>[i].id \in CallbackIds
      BY <3>1
    <3> QED
      BY <3>2, <3>3
  <2> QED
    BY <1>6, <2>2, <2>3 DEF OnJoined
<1> QED
  BY <1>2, <1>4, <1>5, <1>6
  DEF ListenerStep, onTrying, onRinging, onOKQuery, OnStarted, onOKInfo31, onOKInfo30, onOKBye,
      onOKClose, onCloseCloses, onCloseDrops, onUnauthorizedInvite, onUnauthorizedBye,
      onCancelInvite, onCancelDrops, onCancelQuery

\* What OnJoined reports, and onOK of a booking.
LEMMA JoinedPosts ==
  ASSUME TypeOK, OnJoined
  PROVE  \E r \in Seq(Messages) :
           /\ messageQueue' = messageQueue \o r
           /\ \A i \in DOMAIN r : r[i].id \in {"CREATE_MEETING_OK", "JOIN_MEETING_OK"}
           /\ \A i \in DOMAIN r :
                r[i].id = "CREATE_MEETING_OK" => r[i].room = listener.room /\ meetingId = NoRoom
           /\ meetingId = NoRoom => \E i \in DOMAIN r : r[i].id = "CREATE_MEETING_OK"
<1> DEFINE a == Msg("CREATE_MEETING_OK", listener.room)
           b == Msg("JOIN_MEETING_OK", NoRoom)
<1>1. /\ a \in Messages /\ a.id = "CREATE_MEETING_OK" /\ a.room = listener.room
      /\ b \in Messages /\ b.id = "JOIN_MEETING_OK"
  BY MsgType DEF Msg, TypeOK, EngineTypeOK, Ids
<1>2. \/ meetingId = NoRoom /\ messageQueue' = messageQueue \o <<a, b>>
      \/ meetingId # NoRoom /\ messageQueue' = messageQueue \o <<b>>
  BY DEF OnJoined, Post
<1> HIDE DEF a, b
<1>3. CASE meetingId = NoRoom /\ messageQueue' = messageQueue \o <<a, b>>
  <2> DEFINE r == <<a, b>>
  <2>1. /\ r \in Seq(Messages) /\ DOMAIN r = {1, 2} /\ r[1] = a /\ r[2] = b
    BY <1>1
  <2>2. messageQueue' = messageQueue \o r
    BY <1>3
  <2> HIDE DEF r
  <2> QED
    BY <1>1, <1>3, <2>1, <2>2
<1>4. CASE meetingId # NoRoom /\ messageQueue' = messageQueue \o <<b>>
  <2> DEFINE r == <<b>>
  <2>1. r \in Seq(Messages) /\ DOMAIN r = {1} /\ r[1] = b
    BY <1>1
  <2>2. messageQueue' = messageQueue \o r
    BY <1>4
  <2> HIDE DEF r
  <2> QED
    BY <1>1, <1>4, <2>1, <2>2
<1> QED
  BY <1>2, <1>3, <1>4

LEMMA BookedPosts ==
  ASSUME TypeOK, onOKCreate
  PROVE  \E r \in Seq(Messages) :
           /\ messageQueue' = messageQueue \o r
           /\ \A i \in DOMAIN r : r[i].id = "BOOKING_MEETING_OK"
<1> DEFINE b == Msg("BOOKING_MEETING_OK", Head(toClient).room)
           r == <<b>>
<1>1. Head(toClient).room \in Ids
  BY TypeParts, ReceiveType DEF onOKCreate
<1>2. b \in Messages /\ b.id = "BOOKING_MEETING_OK"
  BY <1>1, MsgType DEF Msg
<1>3. messageQueue' = messageQueue \o <<b>>
  BY DEF onOKCreate, Post
<1> HIDE DEF b
<1>4. r \in Seq(Messages) /\ DOMAIN r = {1} /\ r[1] = b /\ messageQueue' = messageQueue \o r
  BY <1>2, <1>3
<1> HIDE DEF r
<1> QED
  BY <1>2, <1>4

\* No step of the engine or of the server posts what only clicks post, nor one of the
\* other messages that it does not post.
LEMMA OthersPost ==
  ASSUME TypeOK, SignalingStep \/ EngineStep \/ Serve \/ Close \/ UNCHANGED vars,
         NEW ids, ids \intersect CallbackIds = {}
  PROVE  Keeps(messageQueue, messageQueue', Messages, OfIds(ids))
<1>1. CASE UNCHANGED messageQueue
  BY <1>1 DEF Keeps
<1>2. CASE EngineStep
  <2>1. PICK r \in Seq(Messages) :
          /\ messageQueue' = messageQueue \o r
          /\ \A i \in DOMAIN r : r[i].id \in CallbackIds
    BY <1>2, ListenerPosts DEF EngineStep
  <2>2. NoneOf(r, OfIds(ids))
    BY <2>1 DEF NoneOf, OfIds
  <2> QED
    BY <2>1, <2>2 DEF Keeps
<1> QED
  BY <1>1, <1>2
  DEF SignalingStep, OnSuccess, OnFailure, Serve, Close, ServerStep, ServeQuery, ServeInvite,
      ServeBye, ServeCreate, ServeInfo, HostCloses, Answers, vars, vars0

\* A click adds one message ...
LEMMA ClickAdds ==
  ASSUME TypeOK, NEW m \in Messages, Posts(m)
  PROVE  /\ messageQueue' = messageQueue \o <<m>>
         /\ \A ids : m.id \notin ids
              => Keeps(messageQueue, messageQueue', Messages, OfIds(ids))
         /\ UNCHANGED <<engineVars, toServer, toClient, sessionId>>
<1>1. messageQueue' = messageQueue \o <<m>> /\ UNCHANGED <<engineVars, toServer, toClient, sessionId>>
  BY DEF Posts, Post
<1>2. ASSUME NEW ids, m.id \notin ids
      PROVE  Keeps(messageQueue, messageQueue', Messages, OfIds(ids))
  <2>1. <<m>> \in Seq(Messages)
    OBVIOUS
  <2>2. NoneOf(<<m>>, OfIds(ids))
    BY <1>2, SingleOne DEF OfIds
  <2> QED
    BY <1>1, <2>1, <2>2 DEF Keeps
<1> QED
  BY <1>1, <1>2

\* ... of the kind of the click.
LEMMA Clicks ==
  ASSUME TypeOK
  PROVE  /\ ClickCreate => \E m \in Messages : Posts(m) /\ m.id = "IS_CREATE"
         /\ ClickBooking => \E m \in Messages : Posts(m) /\ m.id = "IS_BOOKING"
         /\ \A room \in Rooms \union BadIds :
              ClickJoin(room) => \E m \in Messages : Posts(m) /\ m = Msg("IS_JOIN", room)
         /\ ClickLeave => \E m \in Messages : Posts(m) /\ m.id = "MEETING_END"
         /\ ClickShare => \E m \in Messages : Posts(m) /\ m.id = "SET_SHARE" /\ m.on = ~shareState
         /\ ClickStart => \E m \in Messages : Posts(m) /\ m.id \in {"CREATE_MEETING", "JOIN_MEETING"}
<1>1. NoRoom \in Ids /\ Rooms \union BadIds \subseteq Ids /\ shareState \in BOOLEAN
  BY DEF Ids, TypeOK, UITypeOK
<1>2. \A id \in ClickIds, room \in Ids : Msg(id, room) \in Messages /\ Msg(id, room).id = id
  BY MsgType DEF Msg, ClickIds
<1>3. LET m == [Msg("SET_SHARE", NoRoom) EXCEPT !.on = ~shareState]
      IN  m \in Messages /\ m.id = "SET_SHARE" /\ m.on = ~shareState
  BY <1>1 DEF Msg, Messages
<1>4. ClickCreate => \E m \in Messages : Posts(m) /\ m.id = "IS_CREATE"
  BY <1>1, <1>2 DEF ClickCreate, ClickIds
<1>5. ClickBooking => \E m \in Messages : Posts(m) /\ m.id = "IS_BOOKING"
  BY <1>1, <1>2 DEF ClickBooking, ClickIds
<1>6. \A room \in Rooms \union BadIds :
        ClickJoin(room) => \E m \in Messages : Posts(m) /\ m = Msg("IS_JOIN", room)
  BY <1>1, <1>2 DEF ClickJoin, ClickIds
<1>7. ClickLeave => \E m \in Messages : Posts(m) /\ m.id = "MEETING_END"
  BY <1>1, <1>2 DEF ClickLeave, ClickIds
<1>8. ClickShare => \E m \in Messages : Posts(m) /\ m.id = "SET_SHARE" /\ m.on = ~shareState
  BY <1>3 DEF ClickShare
<1>9. ClickStart
        => \E m \in Messages : Posts(m) /\ m.id \in {"CREATE_MEETING", "JOIN_MEETING"}
  <2> SUFFICES ASSUME ClickStart
               PROVE  \E m \in Messages : Posts(m) /\ m.id \in {"CREATE_MEETING", "JOIN_MEETING"}
    OBVIOUS
  <2>1. PICK id \in {"CREATE_MEETING", "JOIN_MEETING"} : Posts(Msg(id, NoRoom))
    BY DEF ClickStart
  <2>2. Msg(id, NoRoom) \in Messages /\ Msg(id, NoRoom).id = id
    BY <1>1, <1>2 DEF ClickIds
  <2> QED
    BY <2>1, <2>2
<1> QED
  BY <1>4, <1>5, <1>6, <1>7, <1>8, <1>9

\* What Takes takes is at the front.
LEMMA TakesFront ==
  ASSUME TypeOK, NEW ids, Takes(ids)
  PROVE  /\ messageQueue \in Seq(Messages) /\ messageQueue # << >>
         /\ messageQueue' = Tail(messageQueue) /\ UNCHANGED toClient
         /\ Head(messageQueue) \in Messages /\ Head(messageQueue).id \in ids
         /\ 1 \in DOMAIN messageQueue /\ messageQueue[1] = Head(messageQueue)
         /\ \A T : Keeps(messageQueue, messageQueue', Messages, T)
<1>1. messageQueue \in Seq(Messages)
  BY DEF TypeOK, EngineTypeOK
<1> QED
  BY <1>1, TailPlaces DEF Takes, Keeps

\* The requests of some methods, and the responses to them.
OfMeths(meths) == {r \in Requests : r.meth \in meths}
AnswersTo(meths) == {r \in Responses : r.cmeth \in meths}

\* A request goes out.
LEMMA SendAdds ==
  ASSUME TypeOK, NEW to \in Ids, NEW sdp \in Nat,
         NEW meth \in {"QUERY", "INVITE", "BYE", "CREATE", "INFO30", "INFO31"},
         Send(meth, to, sdp)
  PROVE  /\ toServer' = toServer \o <<Request(meth, to, sdp)>>
         /\ Request(meth, to, sdp) \in Requests
         /\ \A meths : meth \notin meths
              => Keeps(toServer, toServer', Requests, OfMeths(meths))
<1> DEFINE r == Request(meth, to, sdp)
<1>1. r \in Requests /\ r.meth = meth
  BY DEF Request, Requests
<1>2. toServer' = toServer \o <<r>> /\ <<r>> \in Seq(Requests)
  BY <1>1 DEF Send, TypeOK, EngineTypeOK
<1>3. ASSUME NEW meths, meth \notin meths
      PROVE  Keeps(toServer, toServer', Requests, OfMeths(meths))
  <2>1. NoneOf(<<r>>, OfMeths(meths))
    BY <1>1, <1>3, SingleOne DEF OfMeths
  <2> QED
    BY <1>2, <2>1 DEF Keeps
<1> QED
  BY <1>1, <1>2, <1>3

\* What Receive takes is at the front.
LEMMA ReceivesFront ==
  ASSUME TypeOK, NEW code, NEW cmeth, Receive(code, cmeth)
  PROVE  /\ toClient \in Seq(Responses) /\ toClient # << >> /\ toClient' = Tail(toClient)
         /\ Head(toClient) \in Responses
         /\ Head(toClient).code = code /\ Head(toClient).cmeth = cmeth
         /\ 1 \in DOMAIN toClient /\ toClient[1] = Head(toClient)
         /\ \A T : Keeps(toClient, toClient', Responses, T)
<1>1. toClient \in Seq(Responses)
  BY DEF TypeOK, EngineTypeOK
<1> QED
  BY <1>1, TailPlaces DEF Receive, Keeps

\* The server answers the request at the front, with responses to its method.
LEMMA ServerAnswers ==
  ASSUME TypeOK, ServerStep
  PROVE  /\ toServer \in Seq(Requests) /\ toServer # << >> /\ toServer' = Tail(toServer)
         /\ Head(toServer) \in Requests
         /\ 1 \in DOMAIN toServer /\ toServer[1] = Head(toServer)
         /\ \A T : Keeps(toServer, toServer', Requests, T)
         /\ UNCHANGED <<engineVars, messageQueue>>
         /\ \E rs \in Seq(Responses) :
              /\ toClient' = toClient \o rs
              /\ \A i \in DOMAIN rs : rs[i].cmeth = Head(toServer).meth
         /\ \A meths : Head(toServer).meth \notin meths
              => Keeps(toClient, toClient', Responses, AnswersTo(meths))
<1>1. toServer \in Seq(Requests) /\ NoRoom \in Ids /\ Rooms \subseteq Ids
  BY DEF TypeOK, EngineTypeOK, Ids
<1>2. /\ toServer # << >> /\ toServer' = Tail(toServer) /\ Head(toServer) \in Requests
      /\ UNCHANGED <<engineVars, messageQueue>>
  <2>1. toServer # << >> /\ toServer' = Tail(toServer) /\ UNCHANGED <<engineVars, messageQueue>>
    BY DEF ServerStep, ServeQuery, ServeInvite, ServeBye, ServeCreate, ServeInfo, Asked, Answers
  <2> QED
    BY <1>1, <2>1
<1>3. Head(toServer).to \in Ids /\ Head(toServer).sdp \in Nat
  BY <1>2 DEF Requests
<1>4. ASSUME NEW code \in {"100", "180", "200", "401", "CANCEL"}, NEW room \in Ids,
             NEW sdp \in Nat,
             NEW cmeth \in {"QUERY", "INVITE", "BYE", "CLOSE", "CREATE", "INFO30", "INFO31"}
      PROVE  Response(code, cmeth, room, sdp) \in Responses
             /\ Response(code, cmeth, room, sdp).cmeth = cmeth
  BY DEF Response, Responses
<1>5. \E rs \in Seq(Responses) :
        toClient' = toClient \o rs /\ \A i \in DOMAIN rs : rs[i].cmeth = Head(toServer).meth
  <2>1. ASSUME NEW code \in {"200", "401", "CANCEL"}, NEW room \in Ids,
               NEW cmeth \in {"QUERY", "BYE", "CREATE", "INFO30", "INFO31"},
               Head(toServer).meth = cmeth, Answers(<<Response(code, cmeth, room, 0)>>)
        PROVE  \E rs \in Seq(Responses) :
                 toClient' = toClient \o rs /\ \A i \in DOMAIN rs : rs[i].cmeth = Head(toServer).meth
    <3> DEFINE r == Response(code, cmeth, room, 0)
               rs == <<r>>
    <3>0. r \in Responses /\ r.cmeth = Head(toServer).meth
      BY <1>4, <2>1
    <3> HIDE DEF r
    <3>1. rs \in Seq(Responses) /\ toClient' = toClient \o rs
      BY <2>1, <3>0 DEF Answers, r
    <3>2. \A i \in DOMAIN rs : rs[i].cmeth = Head(toServer).meth
      BY <3>0
    <3> QED
      BY <3>1, <3>2
  <2>2. CASE ServeQuery
    BY <1>1, <1>3, <2>1, <2>2 DEF ServeQuery, Asked
  <2>3. CASE ServeBye
    BY <1>1, <2>1, <2>3 DEF ServeBye, Asked
  <2>4. CASE ServeCreate
    BY <1>1, <2>1, <2>4 DEF ServeCreate, Asked
  <2>5. CASE ServeInfo
    BY <1>1, <2>1, <2>5 DEF ServeInfo, Asked
  <2>6. CASE ServeInvite
    <3>1. PICK any \in Rooms : TRUE
      BY IdsAssumption
    <3>2. \/ \E m \in Rooms : Answers(Accepted(m, Head(toServer).sdp))
          \/ Answers(Refused) \/ Answers(Cancelled)
      BY <2>6 DEF ServeInvite
    <3>3. PICK rs : EndsOnce(rs, Head(toServer).sdp) /\ Answers(rs)
      BY <1>3, <3>1, <3>2, InviteEndsOnce
    <3> QED
      BY <2>6, <3>3 DEF EndsOnce, Answers, ServeInvite, Asked
  <2> QED
    BY <2>2, <2>3, <2>4, <2>5, <2>6 DEF ServerStep
<1>6. ASSUME NEW meths, Head(toServer).meth \notin meths
      PROVE  Keeps(toClient, toClient', Responses, AnswersTo(meths))
  <2>1. PICK rs \in Seq(Responses) :
          toClient' = toClient \o rs /\ \A i \in DOMAIN rs : rs[i].cmeth = Head(toServer).meth
    BY <1>5
  <2>2. NoneOf(rs, AnswersTo(meths))
    BY <1>6, <2>1 DEF NoneOf, AnswersTo
  <2> QED
    BY <2>1, <2>2 DEF Keeps
<1>7. \A T : Keeps(toServer, toServer', Requests, T)
  BY <1>2 DEF Keeps
<1> QED
  BY <1>1, <1>2, <1>5, <1>6, <1>7, TailPlaces

-----------------------------------------------------------------------------
(* The dialog, for a user who waits before browsing.                        *)

EnterMsgs == OfIds({"CREATE_MEETING", "JOIN_MEETING"})

\* The start window posts for the dialog only when all is quiet: the message is at the
\* front, and the start window is still there when it is taken.
EnterFirst ==
  /\ FirstOnly(messageQueue, EnterMsgs)
  /\ NoneOf(messageQueue, EnterMsgs) \/ startWnd

\* The meeting window excludes the two others.
OneWindow == streamWnd => ~startWnd /\ enterWnd = "closed"

DialogInv == TypeOK /\ EnterFirst /\ OneWindow

\* A step that opens no window and posts nothing for the dialog.
LEMMA DialogKept ==
  ASSUME DialogInv, TypeOK', Keeps(messageQueue, messageQueue', Messages, EnterMsgs),
         UNCHANGED <<startWnd, streamWnd>>, enterWnd' \in {"closed", enterWnd}
  PROVE  DialogInv'
<1>1. messageQueue \in Seq(Messages)
  BY DEF DialogInv, TypeOK, EngineTypeOK
<1>2. EnterFirst'
  BY <1>1, FirstKept, KeptElements DEF DialogInv, EnterFirst
<1> QED
  BY <1>2 DEF DialogInv, OneWindow

\* The clicks: the start window's wait until all is quiet.
LEMMA DialogUser ==
  ASSUME DialogInv, UserStep, TypeOK', "browse" \notin Env
  PROVE  DialogInv'
<1>1. TypeOK
  BY DEF DialogInv
<1>2. ASSUME NEW m \in Messages, Posts(m), m.id \notin {"CREATE_MEETING", "JOIN_MEETING"},
             UNCHANGED <<startWnd, enterWnd, streamWnd>>
      PROVE  DialogInv'
  BY <1>1, <1>2, ClickAdds, DialogKept DEF EnterMsgs
<1>3. CASE ClickCreate \/ ClickBooking \/ ClickLeave \/ ClickShare
  <2>1. UNCHANGED <<startWnd, enterWnd, streamWnd>>
    BY <1>3 DEF ClickCreate, ClickBooking, ClickLeave, ClickShare, windows
  <2> QED
    BY <1>1, <1>2, <1>3, <2>1, Clicks
<1>4. ASSUME NEW room \in Rooms \union BadIds, ClickJoin(room) PROVE DialogInv'
  <2>1. UNCHANGED <<startWnd, enterWnd, streamWnd>> /\ Msg("IS_JOIN", room).id = "IS_JOIN"
    BY <1>4 DEF ClickJoin, windows, Msg
  <2> QED
    BY <1>1, <1>2, <1>4, <2>1, Clicks
<1>5. CASE Browses /\ ClickStart
  <2>1. messageQueue = << >> /\ startWnd /\ UNCHANGED <<startWnd, enterWnd, streamWnd>>
    BY <1>5 DEF Browses, Waits, Quiet, ClickStart, windows
  <2>2. PICK m : messageQueue' = messageQueue \o <<m>>
    BY <1>1, <1>5, Clicks, ClickAdds
  <2>3. messageQueue' = <<m>>
    BY <2>1, <2>2
  <2> QED
    BY <2>1, <2>3, FirstSingle DEF DialogInv, EnterFirst, OneWindow
<1>6. CASE ClickCloseDialog
  BY <1>6, DialogKept DEF ClickCloseDialog, Keeps
<1> QED
  BY <1>3, <1>4, <1>5, <1>6 DEF UserStep, Browses, Asks, Departs, Shares

\* The messages: a track arrives when nothing is posted for the dialog any more.
LEMMA DialogUI ==
  ASSUME DialogInv, UIStep, TypeOK'
  PROVE  DialogInv'
<1>1. TypeOK /\ EnterFirst /\ OneWindow
  BY DEF DialogInv
<1>2. ASSUME NEW ids, Takes(ids)
      PROVE  /\ NoneOf(messageQueue', EnterMsgs)
             /\ Keeps(messageQueue, messageQueue', Messages, EnterMsgs)
  BY <1>1, <1>2, TakesFront, FirstTaken DEF EnterFirst
<1>3. ASSUME NEW ids, Takes(ids), OneWindow' PROVE DialogInv'
  BY <1>2, <1>3, FirstKept DEF DialogInv, EnterFirst, NoneOf, FirstOnly
<1>4. CASE UpdateEnter
  <2>1. startWnd
    <3>1. ~NoneOf(messageQueue, EnterMsgs)
      BY <1>1, <1>4, TakesFront DEF UpdateEnter, NoneOf, EnterMsgs, OfIds
    <3> QED
      BY <1>1, <3>1 DEF EnterFirst
  <2> QED
    BY <1>1, <1>3, <1>4, <2>1 DEF UpdateEnter, OneWindow
<1>5. CASE UpdateMeetingEnd \/ UpdateAddTrack \/ UpdateBookingOK
  BY <1>1, <1>3, <1>5 DEF UpdateMeetingEnd, UpdateAddTrack, UpdateBookingOK, OneWindow
<1>6. CASE UpdateIsCreate \/ UpdateIsBooking \/ UpdateIsJoin \/ UpdateSetShare
           \/ UpdateCreateMeetingOK \/ UpdateJoinMeetingOK
  BY <1>1, <1>3, <1>6
  DEF UpdateIsCreate, UpdateIsBooking, UpdateIsJoin, UpdateSetShare, UpdateCreateMeetingOK,
      UpdateJoinMeetingOK, windows, OneWindow
<1>7. CASE ExitMeeting
  BY <1>7, DialogKept DEF ExitMeeting, uiVars, windows, Keeps
<1> QED
  BY <1>4, <1>5, <1>6, <1>7 DEF UIStep, update

\* The dialog's invariant is inductive.
LEMMA DialogInvariance ==
  ASSUME "browse" \notin Env
  PROVE  Spec => []DialogInv
<1>1. Init => DialogInv
  BY InitType
  DEF Init, EngineInit, UIInit, DialogInv, EnterFirst, OneWindow, FirstOnly, NoneOf
<1>2. DialogInv /\ [Next]_vars => DialogInv'
  <2> SUFFICES ASSUME DialogInv, [Next]_vars PROVE DialogInv'
    OBVIOUS
  <2>1. TypeOK /\ TypeOK'
    BY NextType DEF DialogInv
  <2>2. CASE SignalingStep \/ EngineStep \/ Serve \/ Close \/ UNCHANGED vars
    <3>1. Keeps(messageQueue, messageQueue', Messages, EnterMsgs)
      BY <2>1, <2>2, OthersPost DEF EnterMsgs, CallbackIds
    <3>2. UNCHANGED <<startWnd, streamWnd, enterWnd>>
      BY <2>2 DEF SignalingStep, EngineStep, Serve, Close, vars, uiVars, windows
    <3> QED
      BY <2>1, <3>1, <3>2, DialogKept
  <2> QED
    BY <2>1, <2>2, DialogUser, DialogUI DEF Next
<1> QED
  BY <1>1, <1>2, PTL DEF Spec

\* The dialog is closed while the user is in the meeting window, for every user who
\* waits until all is quiet before browsing the windows, whatever else goes wrong.
THEOREM DialogStaysClosed ==
  ASSUME "browse" \notin Env
  PROVE  Spec => []DialogClosed
<1>1. DialogInv => DialogClosed
  BY DEF DialogInv, OneWindow, DialogClosed
<1> QED
  BY <1>1, DialogInvariance, PTL

-----------------------------------------------------------------------------
(* Sharing, for a user who waits before switching it, unless someone else    *)
(* ends the meeting.                                                        *)

SwitchMsgs == OfIds({"SET_SHARE"})
InviteReqs == OfMeths({"INVITE"})
InviteResps == AnswersTo({"INVITE"})
CloseResps == AnswersTo({"CLOSE"})

\* A switch under way is what the button says, and the only thing under way.
SwitchFirst ==
  /\ FirstOnly(messageQueue, SwitchMsgs)
  /\ NoneOf(messageQueue, SwitchMsgs)
       \/ (toServer = << >> /\ toClient = << >> /\ offering = 0)
  /\ \A i \in DOMAIN messageQueue :
       messageQueue[i] \in SwitchMsgs => messageQueue[i].on = shareState

\* The screen is shared by a capturer that runs; without a switch under way it is
\* shared as the button says, but for a user who is leaving: the button is reset
\* before the capturer is stopped.
SwitchDone ==
  /\ screenOn => video = "capturing"
  /\ leaving = "stopping" => ~shareState
  /\ NoneOf(messageQueue, SwitchMsgs) => (screenOn <=> shareState) \/ leaving = "stopping"

\* Whoever shares is in a call that has been answered.
SharesInCall ==
  (screenOn \/ shareState) =>
    offering = 0 /\ NoneOf(toServer, InviteReqs) /\ NoneOf(toClient, InviteResps)

\* Nobody else ends the meeting.
NotClosed == NoneOf(toClient, CloseResps) /\ listener.at \notin {"stopping", "closed"}

ShareInv ==
  /\ TypeOK
  /\ Alive => SwitchFirst /\ SwitchDone /\ SharesInCall /\ NotClosed

\* A step that does not touch sharing: it starts or answers no call.
LEMMA ShareKept ==
  ASSUME ShareInv, Alive, TypeOK',
         Keeps(messageQueue, messageQueue', Messages, SwitchMsgs),
         Keeps(toServer, toServer', Requests, InviteReqs),
         Keeps(toClient, toClient', Responses, InviteResps),
         Keeps(toClient, toClient', Responses, CloseResps),
         NoneOf(messageQueue', SwitchMsgs) \/ UNCHANGED <<toServer, toClient>>,
         NoneOf(messageQueue, SwitchMsgs) \/ UNCHANGED messageQueue
           \/ \E r \in Seq(Messages) : messageQueue' = messageQueue \o r,
         UNCHANGED <<screenOn, shareState, video, leaving>>, offering' \in {0, offering},
         listener'.at \notin {"stopping", "closed"}
  PROVE  ShareInv'
<1>1. /\ SwitchFirst /\ SwitchDone /\ SharesInCall /\ NoneOf(toClient, CloseResps)
      /\ messageQueue \in Seq(Messages) /\ toServer \in Seq(Requests)
      /\ toClient \in Seq(Responses) /\ shareState \in BOOLEAN /\ screenOn \in BOOLEAN
  BY DEF ShareInv, NotClosed, TypeOK, EngineTypeOK, UITypeOK
<1>2. /\ FirstOnly(messageQueue', SwitchMsgs)
      /\ NoneOf(messageQueue, SwitchMsgs) => NoneOf(messageQueue', SwitchMsgs)
      /\ \A i \in DOMAIN messageQueue' : messageQueue'[i] \in SwitchMsgs
           => \E j \in DOMAIN messageQueue : messageQueue[j] = messageQueue'[i]
  BY <1>1, FirstKept, KeptElements DEF SwitchFirst
<1>3. /\ NoneOf(toServer, InviteReqs) => NoneOf(toServer', InviteReqs)
      /\ NoneOf(toClient, InviteResps) => NoneOf(toClient', InviteResps)
      /\ NoneOf(toClient', CloseResps)
  BY <1>1, KeptElements
\* A switch that is under way stays so.
<1>4. NoneOf(messageQueue', SwitchMsgs) => NoneOf(messageQueue, SwitchMsgs)
  <2>1. ASSUME NEW r \in Seq(Messages), messageQueue' = messageQueue \o r
        PROVE  NoneOf(messageQueue', SwitchMsgs) => NoneOf(messageQueue, SwitchMsgs)
    BY <1>1, <2>1, ConcatPlaces DEF NoneOf
  <2> QED
    BY <2>1
<1>5. SwitchFirst'
  BY <1>1, <1>2 DEF SwitchFirst
<1>6. SwitchDone' /\ SharesInCall'
  BY <1>1, <1>2, <1>3, <1>4 DEF SwitchDone, SharesInCall
<1> QED
  BY <1>3, <1>5, <1>6 DEF ShareInv, NotClosed

\* The last step of the process.
LEMMA ShareDead ==
  ASSUME TypeOK', fault' # "none"
  PROVE  ShareInv'
BY DEF ShareInv, Alive

\* The clicks: the button's waits until all is quiet.
LEMMA ShareUser ==
  ASSUME ShareInv, UserStep, TypeOK', "early_share" \notin Env
  PROVE  ShareInv'
<1>1. /\ Alive /\ TypeOK /\ SwitchDone
      /\ NoneOf(toClient, CloseResps) /\ listener.at \notin {"stopping", "closed"}
  BY DEF ShareInv, NotClosed, UserStep
<1>2. /\ UNCHANGED <<toServer, toClient, screenOn, video, offering, listener, leaving>>
      /\ Keeps(toServer, toServer', Requests, InviteReqs)
      /\ Keeps(toClient, toClient', Responses, InviteResps)
      /\ Keeps(toClient, toClient', Responses, CloseResps)
  BY DEF UserStep, Browses, Asks, Departs, Shares, ClickStart, ClickCloseDialog, ClickCreate,
         ClickJoin, ClickBooking, ClickLeave, ClickShare, Posts, engineVars, deviceVars, threadVars,
         offerVars, Keeps
<1>3. ASSUME NEW m \in Messages, Posts(m), m.id # "SET_SHARE", UNCHANGED shareState
      PROVE  ShareInv'
  <2>1. /\ Keeps(messageQueue, messageQueue', Messages, SwitchMsgs)
        /\ messageQueue' = messageQueue \o <<m>> /\ <<m>> \in Seq(Messages)
    BY <1>1, <1>3, ClickAdds DEF SwitchMsgs
  <2> QED
    BY <1>1, <1>2, <1>3, <2>1, ShareKept
<1>4. CASE ClickStart \/ ClickCreate \/ ClickBooking \/ ClickLeave
  <2>1. UNCHANGED shareState
    BY <1>4 DEF ClickStart, ClickCreate, ClickBooking, ClickLeave, windows
  <2> QED
    BY <1>1, <1>3, <1>4, <2>1, Clicks
<1>5. ASSUME NEW room \in Rooms \union BadIds, ClickJoin(room) PROVE ShareInv'
  <2>1. UNCHANGED shareState /\ Msg("IS_JOIN", room).id = "IS_JOIN"
    BY <1>5 DEF ClickJoin, windows, Msg
  <2> QED
    BY <1>1, <1>3, <1>5, <2>1, Clicks
<1>6. CASE ClickCloseDialog
  <2>1. UNCHANGED <<messageQueue, shareState>>
    BY <1>6 DEF ClickCloseDialog
  <2>2. Keeps(messageQueue, messageQueue', Messages, SwitchMsgs)
    BY <2>1 DEF Keeps
  <2> QED
    BY <1>1, <1>2, <2>1, <2>2, ShareKept
<1>7. CASE Shares
  <2>1. Quiet /\ ClickShare /\ shareState' = ~shareState
    BY <1>7 DEF Shares, Waits, ClickShare
  <2>2. PICK m \in Messages : Posts(m) /\ m.id = "SET_SHARE" /\ m.on = ~shareState
    BY <1>1, <2>1, Clicks
  <2>3. messageQueue' = <<m>> /\ m \in SwitchMsgs
    BY <2>1, <2>2 DEF Posts, Post, Quiet, SwitchMsgs, OfIds
  <2>4. SwitchFirst' /\ ~NoneOf(messageQueue', SwitchMsgs)
    BY <1>2, <2>1, <2>2, <2>3 DEF SwitchFirst, FirstOnly, NoneOf, Quiet
  <2>5. SwitchDone' /\ SharesInCall' /\ NotClosed'
    BY <1>1, <1>2, <2>1, <2>4 DEF SwitchDone, SharesInCall, NotClosed, NoneOf, Quiet
  <2> QED
    BY <2>4, <2>5 DEF ShareInv
<1> QED
  BY <1>4, <1>5, <1>6, <1>7 DEF UserStep, Browses, Asks, Departs

\* A call starts when the screen is not shared, and dies otherwise.
LEMMA ShareStarts ==
  ASSUME ShareInv, Alive, TypeOK', StartCall, UNCHANGED <<toServer, shareState>>,
         NoneOf(messageQueue, SwitchMsgs), NoneOf(messageQueue', SwitchMsgs),
         Keeps(toClient, toClient', Responses, CloseResps)
  PROVE  ShareInv'
<1>1. /\ SwitchFirst /\ SwitchDone /\ SharesInCall /\ NoneOf(toClient, CloseResps)
      /\ toClient \in Seq(Responses) /\ shareState \in BOOLEAN
      /\ listener.at \notin {"stopping", "closed"}
  BY DEF ShareInv, NotClosed, TypeOK, EngineTypeOK, UITypeOK
<1>2. CASE Dies("abort") \/ Dies("null")
  BY <1>2, ShareDead DEF Dies
<1>3. CASE ~(Dies("abort") \/ Dies("null"))
  <2>1. ~screenOn' /\ ~shareState' /\ UNCHANGED <<listener, leaving>>
    BY <1>1, <1>3 DEF StartCall, SwitchDone, threadVars
  <2>2. NoneOf(toClient', CloseResps)
    BY <1>1, KeptElements
  <2> QED
    BY <1>1, <2>1, <2>2
    DEF ShareInv, SwitchFirst, SwitchDone, SharesInCall, NotClosed, FirstOnly, NoneOf
<1> QED
  BY <1>2, <1>3

\* The messages: a switch is carried out, or a meeting's end stops it.
LEMMA ShareUI ==
  ASSUME ShareInv, UIStep, TypeOK'
  PROVE  ShareInv'
<1>1. /\ Alive /\ TypeOK /\ shareState \in BOOLEAN
      /\ SwitchFirst /\ SwitchDone /\ SharesInCall /\ NoneOf(toClient, CloseResps)
      /\ NoRoom \in Ids /\ meetingId \in Ids /\ toServer \in Seq(Requests)
      /\ listener.at \notin {"stopping", "closed"}
  BY DEF ShareInv, NotClosed, UIStep, TypeOK, EngineTypeOK, UITypeOK, Ids
<1>2. ASSUME NEW ids, Takes(ids)
      PROVE  /\ NoneOf(messageQueue', SwitchMsgs) /\ UNCHANGED toClient
             /\ \A T : Keeps(messageQueue, messageQueue', Messages, T)
             /\ \A T : Keeps(toClient, toClient', Responses, T)
             /\ Head(messageQueue).room \in Ids
             /\ "SET_SHARE" \notin ids => NoneOf(messageQueue, SwitchMsgs)
  <2>1. /\ messageQueue \in Seq(Messages) /\ messageQueue # << >>
        /\ messageQueue' = Tail(messageQueue) /\ UNCHANGED toClient
        /\ Head(messageQueue) \in Messages /\ Head(messageQueue).id \in ids
        /\ \A T : Keeps(messageQueue, messageQueue', Messages, T)
    BY <1>1, <1>2, TakesFront
  <2>2. /\ NoneOf(messageQueue', SwitchMsgs)
        /\ Head(messageQueue) \notin SwitchMsgs => NoneOf(messageQueue, SwitchMsgs)
    BY <1>1, <2>1, FirstTaken DEF SwitchFirst
  <2> QED
    BY <2>1, <2>2 DEF SwitchMsgs, OfIds, Keeps, Messages
<1>3. ASSUME NEW ids, Takes(ids), "SET_SHARE" \notin ids,
             UNCHANGED <<screenOn, shareState, video, offering, listener, leaving>>,
             Keeps(toServer, toServer', Requests, InviteReqs)
      PROVE  ShareInv'
  BY <1>1, <1>2, <1>3, ShareKept
<1>4. CASE UpdateSetShare
  <2>1. /\ Takes({"SET_SHARE"}) /\ UNCHANGED shareState
        /\ \/ fault' # "none"
           \/ /\ screenOn' = Head(messageQueue).on
              /\ video = "capturing" /\ UNCHANGED <<video, offering, listener, leaving>>
              /\ \E meth \in {"INFO30", "INFO31"} : Send(meth, meetingId, 0)
    BY <1>4 DEF UpdateSetShare, switchScreenShare, Dies, windows, offerVars, threadVars
  <2>2. Head(messageQueue).on = shareState /\ toServer = << >> /\ toClient = << >> /\ offering = 0
    <3>1. 1 \in DOMAIN messageQueue /\ messageQueue[1] = Head(messageQueue)
          /\ Head(messageQueue) \in SwitchMsgs
      BY <1>1, <2>1, TakesFront DEF SwitchMsgs, OfIds
    <3> QED
      BY <1>1, <3>1 DEF SwitchFirst, NoneOf
  <2>3. CASE fault' = "none"
    <3>1. Keeps(toServer, toServer', Requests, InviteReqs)
      BY <1>1, <2>1, <2>3, SendAdds DEF InviteReqs
    <3>2. NoneOf(toServer', InviteReqs)
      <4>1. NoneOf(toServer, InviteReqs)
        BY <2>2 DEF NoneOf
      <4> QED
        BY <1>1, <3>1, <4>1, KeptElements
    <3>3. SwitchFirst' /\ NotClosed'
      BY <1>1, <1>2, <2>1, <2>3 DEF SwitchFirst, NotClosed, FirstOnly, NoneOf
    <3>4. (screenOn' <=> shareState') /\ video' = "capturing"
      BY <1>1, <2>1, <2>2, <2>3
    <3>5. SwitchDone' /\ SharesInCall'
      BY <1>2, <2>1, <2>2, <2>3, <3>2, <3>4 DEF Takes, SwitchDone, SharesInCall, NoneOf
    <3> QED
      BY <3>3, <3>5 DEF ShareInv
  <2> QED
    BY <2>3, ShareDead
<1>5. CASE UpdateIsCreate
  <2>1. Takes({"IS_CREATE"}) /\ StartCall /\ UNCHANGED <<toServer, shareState>>
    BY <1>5 DEF UpdateIsCreate, createMeeting, windows
  <2> QED
    BY <1>1, <1>2, <2>1, ShareStarts
<1>6. CASE UpdateMeetingEnd
  <2>1. /\ Takes({"MEETING_END"}) /\ ~shareState' /\ Send("BYE", meetingId, 0)
        /\ fault' # "none"
             \/ (leaving' = "stopping" /\ UNCHANGED <<screenOn, video, offering, listener>>)
    BY <1>6 DEF UpdateMeetingEnd, exitMeeting, StopStats, Leaves, Dies, offerVars, threadVars
  <2>2. NoneOf(messageQueue', SwitchMsgs) /\ NoneOf(toClient', CloseResps)
    BY <1>1, <1>2, <2>1
  <2>3. CASE fault' = "none"
    <3>1. Keeps(toServer, toServer', Requests, InviteReqs)
      BY <1>1, <2>1, SendAdds DEF InviteReqs
    <3>2. NoneOf(toServer, InviteReqs) => NoneOf(toServer', InviteReqs)
      BY <1>1, <3>1, KeptElements
    <3> QED
      BY <1>1, <1>2, <2>1, <2>2, <2>3, <3>2
      DEF ShareInv, SwitchFirst, SwitchDone, SharesInCall, NotClosed, FirstOnly, NoneOf
  <2> QED
    BY <2>3, ShareDead
<1>7. CASE UpdateIsJoin
  <2>1. /\ Takes({"IS_JOIN"}) /\ Send("QUERY", Head(messageQueue).room, 0)
        /\ UNCHANGED <<screenOn, shareState, video, offering, listener, leaving>>
    BY <1>7 DEF UpdateIsJoin, joinMeeting, windows, deviceVars, threadVars, offerVars
  <2>2. Keeps(toServer, toServer', Requests, InviteReqs)
    BY <1>1, <1>2, <2>1, SendAdds DEF InviteReqs
  <2> QED
    BY <1>3, <2>1, <2>2
<1>8. CASE UpdateIsBooking
  <2>1. /\ Takes({"IS_BOOKING"}) /\ Send("CREATE", NoRoom, 0)
        /\ UNCHANGED <<screenOn, shareState, video, offering, listener, leaving>>
    BY <1>8 DEF UpdateIsBooking, scheduleMeeting, windows, engineVars, deviceVars, threadVars, offerVars
  <2>2. Keeps(toServer, toServer', Requests, InviteReqs)
    BY <1>1, <2>1, SendAdds DEF InviteReqs
  <2> QED
    BY <1>3, <2>1, <2>2
<1>9. CASE UpdateEnter \/ UpdateAddTrack \/ UpdateCreateMeetingOK \/ UpdateJoinMeetingOK
           \/ UpdateBookingOK
  <2>1. /\ \E ids : Takes(ids) /\ "SET_SHARE" \notin ids
        /\ UNCHANGED <<engineVars, toServer, shareState>>
    BY <1>9
    DEF UpdateEnter, UpdateAddTrack, UpdateCreateMeetingOK, UpdateJoinMeetingOK,
        UpdateBookingOK, windows
  <2>2. /\ UNCHANGED <<screenOn, shareState, video, offering, listener, leaving>>
        /\ Keeps(toServer, toServer', Requests, InviteReqs)
    BY <2>1 DEF engineVars, deviceVars, threadVars, offerVars, Keeps
  <2> QED
    BY <1>3, <2>1, <2>2
<1>10. CASE ExitMeeting
  <2>1. UNCHANGED <<toServer, toClient, messageQueue, shareState, offering, listener>>
    BY <1>10
    DEF ExitMeeting, exitMeetingCloses, exitMeetingDrops, CloseDevices, DropConnection, Leaves,
        Dies, uiVars, windows, offerVars, threadVars
  <2>2. \/ fault' # "none"
        \/ leaving = "stopping" /\ leaving' = "closed" /\ ~screenOn'
        \/ leaving = "closed" /\ leaving' = "no" /\ UNCHANGED <<screenOn, video>>
    BY <1>10
    DEF ExitMeeting, exitMeetingCloses, exitMeetingDrops, CloseDevices, DropConnection, Leaves,
        Dies, deviceVars
  <2>3. CASE fault' = "none"
    BY <1>1, <2>1, <2>2, <2>3
    DEF ShareInv, SwitchFirst, SwitchDone, SharesInCall, NotClosed
  <2> QED
    BY <2>3, ShareDead
<1> QED
  BY <1>4, <1>5, <1>6, <1>7, <1>8, <1>9, <1>10 DEF UIStep, update

\* The offers, the responses and the server: while a switch is under way the engine has
\* none of them; while the screen is shared it has none of a call.
LEMMA ShareOthers ==
  ASSUME ShareInv, SignalingStep \/ EngineStep \/ Serve \/ Close \/ UNCHANGED vars, TypeOK',
         "close" \notin Env
  PROVE  ShareInv'
<1>1. CASE ~Alive
  BY <1>1 DEF SignalingStep, EngineStep, Serve, Close, vars, vars0, engineVars, threadVars, Alive, ShareInv
<1> SUFFICES ASSUME Alive PROVE ShareInv'
  BY <1>1
<1>2. /\ TypeOK /\ shareState \in BOOLEAN /\ meetingId \in Ids /\ offering \in Nat
      /\ SwitchFirst /\ SwitchDone /\ SharesInCall /\ NoneOf(toClient, CloseResps)
      /\ toServer \in Seq(Requests) /\ toClient \in Seq(Responses)
      /\ messageQueue \in Seq(Messages) /\ listener.at \notin {"stopping", "closed"}
  BY DEF ShareInv, NotClosed, TypeOK, EngineTypeOK, UITypeOK
<1>3. UNCHANGED shareState
  BY DEF SignalingStep, EngineStep, Serve, Close, vars, uiVars, windows
<1>4. Keeps(messageQueue, messageQueue', Messages, SwitchMsgs)
  BY <1>2, OthersPost DEF SwitchMsgs, CallbackIds
<1>5. NoneOf(messageQueue, SwitchMsgs) => NoneOf(messageQueue', SwitchMsgs)
  BY <1>2, <1>4, KeptElements
<1>6. /\ Keeps(toServer, toServer, Requests, InviteReqs)
      /\ \A T : Keeps(toClient, toClient, Responses, T)
  BY DEF Keeps
<1>7. CASE UNCHANGED vars
  BY <1>2, <1>3, <1>4, <1>6, <1>7, ShareKept DEF vars, vars0, engineVars, deviceVars, threadVars, offerVars
<1>8. CASE OnSuccess
  <2>1. /\ offering # 0 /\ Send("INVITE", meetingId, offering) /\ offering' = 0
        /\ UNCHANGED <<screenOn, video, toClient, messageQueue, listener, leaving>>
    BY <1>8 DEF OnSuccess, deviceVars, threadVars
  <2>2. ~screenOn /\ ~shareState /\ NoneOf(messageQueue, SwitchMsgs)
    BY <1>2, <2>1 DEF SharesInCall, SwitchFirst
  <2> QED
    BY <1>2, <1>3, <2>1, <2>2
    DEF ShareInv, SwitchFirst, SwitchDone, SharesInCall, NotClosed, FirstOnly, NoneOf
<1>9. CASE OnFailure
  BY <1>2, <1>3, <1>4, <1>6, <1>9, ShareKept DEF OnFailure, deviceVars, threadVars
<1>10. ASSUME NEW code, NEW cmeth, Receive(code, cmeth)
       PROVE  /\ NoneOf(messageQueue, SwitchMsgs) /\ NoneOf(messageQueue', SwitchMsgs)
              /\ \A T : Keeps(toClient, toClient', Responses, T)
              /\ cmeth # "CLOSE"
              /\ cmeth = "INVITE" => ~screenOn /\ ~shareState
  <2>1. /\ toClient # << >> /\ Head(toClient) \in Responses /\ Head(toClient).cmeth = cmeth
        /\ 1 \in DOMAIN toClient /\ toClient[1] = Head(toClient)
        /\ \A T : Keeps(toClient, toClient', Responses, T)
    BY <1>2, <1>10, ReceivesFront
  <2>2. cmeth # "CLOSE" /\ (cmeth = "INVITE" => ~screenOn /\ ~shareState)
    BY <1>2, <2>1 DEF NoneOf, CloseResps, InviteResps, AnswersTo, SharesInCall
  <2>3. NoneOf(messageQueue, SwitchMsgs)
    BY <1>2, <2>1 DEF SwitchFirst
  <2> QED
    BY <1>5, <2>1, <2>2, <2>3
<1>11. ASSUME NEW code, NEW cmeth, Receive(code, cmeth), UNCHANGED toServer,
              UNCHANGED <<screenOn, video, offering, leaving>>,
              listener' = listener \/ listener'.at = "answered"
       PROVE  ShareInv'
  BY <1>2, <1>3, <1>4, <1>6, <1>10, <1>11, ShareKept
<1>12. CASE onTrying \/ onOKInfo30 \/ onUnauthorizedBye
  BY <1>11, <1>12
  DEF onTrying, onOKInfo30, onUnauthorizedBye, engineVars, deviceVars, threadVars, offerVars
<1>13. CASE onRinging \/ onOKInfo31
  BY <1>11, <1>13 DEF onRinging, onOKInfo31, Dies, engineVars, deviceVars, threadVars, offerVars
<1>14. CASE onOKInvite \/ onOKBye \/ onOKCreate \/ onUnauthorizedInvite \/ onCancelQuery
  BY <1>11, <1>14
  DEF onOKInvite, onOKBye, onOKCreate, onUnauthorizedInvite, onCancelQuery, Dies, deviceVars, threadVars,
      offerVars
<1>15. CASE onOKQuery
  <2>1. CASE UNCHANGED engineVars
    BY <1>11, <1>15, <2>1 DEF onOKQuery, engineVars, deviceVars, threadVars, offerVars
  <2>2. CASE StartCall
    BY <1>3, <1>10, <1>15, <2>2, ShareStarts DEF onOKQuery
  <2> QED
    BY <1>15, <2>1, <2>2 DEF onOKQuery
<1>16. CASE onOKClose \/ onCloseCloses \/ onCloseDrops
  BY <1>2, <1>10, <1>16 DEF onOKClose, onCloseCloses, onCloseDrops
<1>17. CASE onCancelInvite
  <2>1. Receive("CANCEL", "INVITE") /\ UNCHANGED toServer
        /\ (fault' # "none" \/ (~screenOn' /\ UNCHANGED leaving /\ listener'.at = "cancelled"))
    BY <1>17 DEF onCancelInvite, Listens, Dies
  <2>2. ~shareState /\ NoneOf(messageQueue', SwitchMsgs)
        /\ Keeps(toClient, toClient', Responses, CloseResps)
    BY <1>10, <2>1
  <2>3. NoneOf(toClient', CloseResps)
    BY <1>2, <2>2, KeptElements
  <2>4. CASE fault' = "none"
    BY <1>2, <1>3, <2>1, <2>2, <2>3, <2>4
    DEF ShareInv, SwitchFirst, SwitchDone, SharesInCall, NotClosed, FirstOnly, NoneOf
  <2> QED
    BY <2>4, ShareDead
<1>18. CASE OnJoined \/ OnStarted \/ onCancelDrops
  <2>1. UNCHANGED <<toServer, toClient>>
        /\ (fault' # "none"
              \/ (UNCHANGED <<screenOn, video, leaving>> /\ offering' \in {0, offering}
                    /\ listener'.at \in {"joined", "idle"}))
    BY <1>2, <1>18
    DEF OnJoined, OnStarted, onCancelDrops, Listens, Dies, deviceVars, offerVars, TypeOK,
        EngineTypeOK
  <2>2. \E r \in Seq(Messages) : messageQueue' = messageQueue \o r
    BY <1>2, <1>18, ListenerPosts DEF ListenerStep
  <2>3. CASE fault' = "none"
    BY <1>3, <1>4, <1>6, <2>1, <2>2, <2>3, ShareKept
  <2> QED
    BY <2>3, ShareDead
<1>19. CASE Serve
  <2>1. ServerStep
    BY <1>19 DEF Serve
  <2>2. /\ toServer # << >> /\ Head(toServer) \in Requests
        /\ 1 \in DOMAIN toServer /\ toServer[1] = Head(toServer)
        /\ \A T : Keeps(toServer, toServer', Requests, T)
        /\ UNCHANGED <<engineVars, messageQueue>>
        /\ \A meths : Head(toServer).meth \notin meths
             => Keeps(toClient, toClient', Responses, AnswersTo(meths))
    BY <1>2, <2>1, ServerAnswers
  <2>3. NoneOf(messageQueue, SwitchMsgs) /\ NoneOf(messageQueue', SwitchMsgs)
    BY <1>2, <1>5, <2>2 DEF SwitchFirst
  <2>4. UNCHANGED <<screenOn, video, offering, listener, leaving>>
    BY <2>2 DEF engineVars, deviceVars, threadVars, offerVars
  <2>5. Keeps(toClient, toClient', Responses, CloseResps)
    BY <2>2 DEF CloseResps, Requests
  <2>6. CASE Head(toServer).meth # "INVITE"
    <3>1. Keeps(toClient, toClient', Responses, InviteResps)
      BY <2>2, <2>6 DEF InviteResps
    <3> QED
      BY <1>2, <1>3, <1>4, <2>2, <2>3, <2>4, <2>5, <3>1, ShareKept
  <2>7. CASE Head(toServer).meth = "INVITE"
    <3>1. ~screenOn /\ ~shareState
      BY <1>2, <2>2, <2>7 DEF SharesInCall, NoneOf, InviteReqs, OfMeths
    <3>2. NoneOf(toClient', CloseResps)
      BY <1>2, <2>5, KeptElements
    <3> QED
      BY <1>2, <1>3, <2>2, <2>3, <2>4, <3>1, <3>2
      DEF ShareInv, SwitchFirst, SwitchDone, SharesInCall, NotClosed, FirstOnly, NoneOf
  <2> QED
    BY <2>6, <2>7
<1>20. CASE Close
  BY <1>20 DEF Close, HostCloses
<1> QED
  BY <1>7, <1>8, <1>9, <1>12, <1>13, <1>14, <1>15, <1>16, <1>17, <1>18, <1>19, <1>20
  DEF SignalingStep, EngineStep, ListenerStep

\* The screen is shared as the button says whenever all is quiet, for every user who
\* waits before switching, as long as nobody else ends the meeting: over refused,
\* cancelled and failed calls, retries and early leaves.
THEOREM SharesAsShown ==
  ASSUME "close" \notin Env, "early_share" \notin Env
  PROVE  Spec => []ShareAsShown
<1>1. Init => ShareInv
  <2> SUFFICES ASSUME Init PROVE ShareInv
    OBVIOUS
  <2>1. TypeOK
    BY InitType
  <2>2. /\ ~screenOn /\ ~shareState
        /\ toServer = << >> /\ toClient = << >> /\ messageQueue = << >>
        /\ leaving = "no" /\ listener.at = "idle"
    BY DEF Init, EngineInit, UIInit
  <2> QED
    BY <2>1, <2>2
    DEF ShareInv, SwitchFirst, SwitchDone, SharesInCall, NotClosed, FirstOnly, NoneOf
<1>2. ShareInv /\ [Next]_vars => ShareInv'
  <2> SUFFICES ASSUME ShareInv, [Next]_vars PROVE ShareInv'
    OBVIOUS
  <2>1. TypeOK'
    BY NextType DEF ShareInv
  <2> QED
    BY <2>1, ShareUser, ShareUI, ShareOthers DEF Next
<1>3. ShareInv => ShareAsShown
  <2> SUFFICES ASSUME ShareInv, Alive, Quiet PROVE screenOn = shareState
    BY DEF ShareAsShown
  <2>1. NoneOf(messageQueue, SwitchMsgs)
    BY DEF Quiet, NoneOf
  <2>2. (screenOn <=> shareState) /\ screenOn \in BOOLEAN /\ shareState \in BOOLEAN
    BY <2>1 DEF Quiet, ShareInv, SwitchDone, TypeOK, EngineTypeOK, UITypeOK
  <2> QED
    BY <2>2
<1> QED
  BY <1>1, <1>2, <1>3, PTL DEF Spec

-----------------------------------------------------------------------------
(* A patient user: who waits until all is quiet before browsing and before   *)
(* asking for anything.  Unless someone else ends a meeting, a call is then   *)
(* the only thing that goes on from the click to the answer, and the meeting *)
(* window stands for a connection.                                          *)

CallResps == AnswersTo({"QUERY", "INVITE"})
Tracks == OfIds({"ADD_TRACK"})
Ends == OfIds({"MEETING_END"})

\* The responses that end a call.
FinalCodes == {"200", "401", "CANCEL"}

Alone == ~streamWnd /\ listener.at = "idle" /\ leaving = "no"

\* The user has asked for a call ...
Requested ==
  /\ \E m \in AskMsgs : messageQueue = <<m>>
  /\ toServer = << >> /\ toClient = << >> /\ offering = 0

\* ... the server is asked whether there is such a meeting ...
Inquiring ==
  /\ messageQueue = << >> /\ offering = 0
  /\ \/ /\ \E q \in Requests : q.meth = "QUERY" /\ q.to = meetingId /\ toServer = <<q>>
        /\ toClient = << >>
     \/ /\ \E r \in Responses : /\ r.cmeth = "QUERY" /\ toClient = <<r>>
                                /\ r.code = "200" => meetingId \in Rooms
        /\ toServer = << >>

\* ... the offer is made and sent ...
Inviting ==
  /\ messageQueue = << >> /\ toClient = << >>
  /\ \/ offering # 0 /\ toServer = << >>
     \/ offering = 0 /\ \E q \in Requests : q.meth = "INVITE" /\ toServer = <<q>>

\* ... and the server has answered, the last response ending the call.
Answered ==
  /\ messageQueue = << >> /\ toServer = << >> /\ offering = 0 /\ toClient # << >>
  /\ \A i \in DOMAIN toClient :
       /\ toClient[i].cmeth = "INVITE"
       /\ toClient[i].code \in FinalCodes <=> i = Len(toClient)

\* The meeting window is open, or about to be.
InWnd == streamWnd \/ ~NoneOf(messageQueue, Tracks)

\* No call goes on.  A track that has arrived opens the window next; nobody can have
\* left before it does, nor been told that the call is cancelled.
NoCall ==
  /\ offering = 0
  /\ NoneOf(messageQueue, AskMsgs) /\ NoneOf(toServer, CallReqs) /\ NoneOf(toClient, CallResps)
  /\ FirstOnly(messageQueue, Tracks)
  /\ NoneOf(messageQueue, Tracks) \/ (~streamWnd /\ NoneOf(messageQueue, Ends))
  /\ InWnd => pc # 0 /\ listener.at # "cancelled" /\ leaving = "no"

Calling == Alone /\ (Requested \/ Inquiring \/ Inviting \/ Answered)

PatientInv ==
  /\ TypeOK
  /\ Alive => (NoCall \/ Calling) /\ NotClosed

\* The last step of the process.
LEMMA PatientDead ==
  ASSUME TypeOK', fault' # "none"
  PROVE  PatientInv'
BY DEF PatientInv, Alive

\* Without a call under way, one that neither starts nor ends one.
LEMMA NoCallKept ==
  ASSUME TypeOK, NoCall, NotClosed, TypeOK',
         Keeps(messageQueue, messageQueue', Messages, AskMsgs),
         Keeps(messageQueue, messageQueue', Messages, Tracks),
         Keeps(messageQueue, messageQueue', Messages, Ends) \/ streamWnd,
         Keeps(toServer, toServer', Requests, CallReqs),
         Keeps(toClient, toClient', Responses, CallResps),
         Keeps(toClient, toClient', Responses, CloseResps),
         offering' = 0, UNCHANGED <<pc, streamWnd, leaving>>,
         listener' = listener \/ listener'.at \in {"idle", "joined", "answered"}
  PROVE  NoCall' /\ PatientInv'
<1>1. /\ messageQueue \in Seq(Messages) /\ toServer \in Seq(Requests)
      /\ toClient \in Seq(Responses)
  BY DEF TypeOK, EngineTypeOK
<1>2. /\ NoneOf(messageQueue', AskMsgs)
      /\ NoneOf(messageQueue, Tracks) => NoneOf(messageQueue', Tracks)
      /\ NoneOf(messageQueue, Ends) /\ ~streamWnd => NoneOf(messageQueue', Ends)
      /\ NoneOf(toServer', CallReqs) /\ NoneOf(toClient', CallResps)
      /\ NoneOf(toClient', CloseResps) /\ FirstOnly(messageQueue', Tracks)
  BY <1>1, KeptElements, FirstKept DEF NoCall, NotClosed
<1>3. NoCall'
  BY <1>2 DEF NoCall, InWnd
<1> QED
  BY <1>2, <1>3 DEF PatientInv, NotClosed

\* When all is quiet no call goes on.
LEMMA QuietNoCall ==
  ASSUME PatientInv, Alive, Quiet \/ streamWnd \/ listener.at # "idle" \/ leaving # "no"
  PROVE  NoCall
BY DEF PatientInv, Calling, Alone, Requested, Inquiring, Inviting, Answered, Quiet

\* The clicks: a call is asked for when none goes on, outside the meeting window.
LEMMA PatientUser ==
  ASSUME PatientInv, DialogInv, UserStep, TypeOK', "retry" \notin Env, "browse" \notin Env
  PROVE  PatientInv'
<1>1. Alive /\ TypeOK /\ NotClosed
  BY DEF PatientInv, UserStep
<1>2. NoCall
  BY <1>1, QuietNoCall
  DEF UserStep, Browses, Asks, Departs, Shares, Waits, ClickLeave, ClickShare
<1>3. /\ UNCHANGED <<toServer, toClient, pc, offering, streamWnd, listener, leaving>>
      /\ \A T : Keeps(toServer, toServer', Requests, T) /\ Keeps(toClient, toClient', Responses, T)
  BY DEF UserStep, Browses, Asks, Departs, Shares, ClickStart, ClickCloseDialog, ClickCreate,
         ClickJoin, ClickBooking, ClickLeave, ClickShare, Posts, engineVars, callVars,
         offerVars, threadVars, windows, Keeps
<1>4. offering' = 0
  BY <1>2, <1>3 DEF NoCall
\* Clicks that ask for no call.
<1>5. ASSUME NEW m \in Messages, Posts(m), m.id \notin {"IS_CREATE", "IS_JOIN", "ADD_TRACK"},
             m.id # "MEETING_END" \/ streamWnd
      PROVE  PatientInv'
  <2>1. /\ Keeps(messageQueue, messageQueue', Messages, AskMsgs)
        /\ Keeps(messageQueue, messageQueue', Messages, Tracks)
        /\ Keeps(messageQueue, messageQueue', Messages, Ends) \/ streamWnd
    BY <1>1, <1>5, ClickAdds DEF AskMsgs, Tracks, Ends, OfIds
  <2> QED
    BY <1>1, <1>2, <1>3, <1>4, <2>1, NoCallKept
<1>6. CASE ClickStart \/ ClickBooking \/ ClickShare
  BY <1>1, <1>5, <1>6, Clicks
<1>7. CASE ClickLeave
  BY <1>1, <1>5, <1>7, Clicks DEF ClickLeave
<1>8. CASE ClickCloseDialog
  <2>1. \A T : Keeps(messageQueue, messageQueue', Messages, T)
    BY <1>8 DEF ClickCloseDialog, Keeps
  <2> QED
    BY <1>1, <1>2, <1>3, <1>4, <2>1, NoCallKept
\* Clicks that do.
<1>9. ASSUME Asks, NEW m \in Messages, Posts(m), m \in AskMsgs, enterWnd # "closed"
      PROVE  PatientInv'
  <2>1. Quiet /\ ~streamWnd
    BY <1>9 DEF Asks, Waits, DialogInv, OneWindow
  <2>2. messageQueue' = <<m>>
    BY <1>9, <2>1 DEF Posts, Post, Quiet
  <2>3. Requested' /\ Alone'
    BY <1>3, <1>9, <2>1, <2>2 DEF Requested, Alone, Quiet
  <2> QED
    BY <1>1, <1>3, <2>3 DEF PatientInv, Calling, NotClosed
<1>10. CASE Asks /\ ClickCreate
  <2>1. \E m \in Messages : Posts(m) /\ m \in AskMsgs
    BY <1>1, <1>10, Clicks DEF AskMsgs
  <2> QED
    BY <1>9, <1>10, <2>1 DEF ClickCreate
<1>11. ASSUME Asks, NEW room \in Rooms \union BadIds, ClickJoin(room) PROVE PatientInv'
  <2>1. \E m \in Messages : Posts(m) /\ m \in AskMsgs
    BY <1>1, <1>11, Clicks DEF AskMsgs, Msg
  <2> QED
    BY <1>9, <1>11, <2>1 DEF ClickJoin
<1> QED
  BY <1>6, <1>7, <1>8, <1>10, <1>11 DEF UserStep, Browses, Asks, Departs, Shares

\* StartCall starts to invite, or is the last step.
LEMMA PatientStarts ==
  ASSUME TypeOK, TypeOK', StartCall, Alone, UNCHANGED streamWnd,
         messageQueue' = << >>, toServer' = << >>, toClient' = << >>
  PROVE  PatientInv'
<1>1. CASE Dies("abort") \/ Dies("null")
  BY <1>1, PatientDead DEF Dies
<1>2. CASE ~(Dies("abort") \/ Dies("null"))
  <2>1. offering' = calls + 1 /\ calls \in Nat /\ UNCHANGED <<listener, leaving>>
    BY <1>2 DEF StartCall, threadVars, TypeOK, EngineTypeOK
  <2>2. Inviting' /\ Alone'
    BY <2>1 DEF Inviting, Alone
  <2> QED
    BY <2>2 DEF PatientInv, Calling, NotClosed, Alone, NoneOf
<1> QED
  BY <1>1, <1>2

\* The messages while a call goes on: the one that asks for it.
LEMMA PatientUICall ==
  ASSUME PatientInv, Calling, UIStep, TypeOK'
  PROVE  PatientInv'
<1>1. Alive /\ TypeOK /\ Alone
  BY DEF UIStep, PatientInv, Calling
<1>2. messageQueue # << >>
  BY <1>1
  DEF Alone, ExitMeeting, exitMeetingCloses, exitMeetingDrops,
         UIStep, update, UpdateEnter, UpdateIsCreate, UpdateIsBooking, UpdateIsJoin,
         UpdateMeetingEnd, UpdateSetShare, UpdateAddTrack, UpdateCreateMeetingOK,
         UpdateJoinMeetingOK, UpdateBookingOK, Takes
<1>3. Requested
  BY <1>2 DEF Calling, Inquiring, Inviting, Answered
<1>4. PICK m \in AskMsgs : messageQueue = <<m>>
  BY <1>3 DEF Requested
<1>5. Head(messageQueue) = m /\ Tail(messageQueue) = << >> /\ m \in Messages
      /\ m.id \in {"IS_CREATE", "IS_JOIN"}
  BY <1>4 DEF AskMsgs
<1>6. CASE UpdateIsCreate
  <2>1. /\ StartCall /\ messageQueue' = << >> /\ UNCHANGED <<toServer, toClient, streamWnd>>
    BY <1>5, <1>6 DEF UpdateIsCreate, createMeeting, Takes, windows
  <2> QED
    BY <1>1, <1>3, <2>1, PatientStarts DEF Requested
<1>7. CASE UpdateIsJoin
  <2>1. /\ Send("QUERY", m.room, 0) /\ meetingId' = m.room /\ messageQueue' = << >>
        /\ UNCHANGED <<offering, listener, leaving, streamWnd, toClient>> /\ m.room \in Ids
    BY <1>5, <1>7 DEF UpdateIsJoin, joinMeeting, Takes, windows, offerVars, threadVars, Messages
  <2>2. Request("QUERY", m.room, 0) \in Requests
    BY <1>1, <2>1, SendAdds
  <2>3. toServer' = <<Request("QUERY", m.room, 0)>>
    BY <1>3, <2>1 DEF Send, Requested
  <2>4. Inquiring' /\ Alone' /\ toClient' = << >>
    BY <1>1, <1>3, <2>1, <2>2, <2>3 DEF Requested, Inquiring, Alone, Request
  <2> QED
    BY <2>4 DEF PatientInv, Calling, NotClosed, Alone, NoneOf
<1> QED
  BY <1>1, <1>5, <1>6, <1>7
  DEF Alone, ExitMeeting, exitMeetingCloses, exitMeetingDrops, UIStep, update, UpdateEnter, UpdateIsBooking, UpdateMeetingEnd, UpdateSetShare,
      UpdateAddTrack, UpdateCreateMeetingOK, UpdateJoinMeetingOK, UpdateBookingOK, Takes

\* The messages when no call goes on: the window opens over a connection, and closes
\* before the connection goes.
LEMMA PatientUIRest ==
  ASSUME PatientInv, NoCall, UIStep, TypeOK'
  PROVE  PatientInv'
<1>1. /\ Alive /\ TypeOK /\ NotClosed
      /\ NoRoom \in Ids /\ meetingId \in Ids /\ toServer \in Seq(Requests) /\ offering = 0
  BY DEF UIStep, PatientInv, TypeOK, EngineTypeOK, Ids, NoCall
<1>2. ASSUME NEW ids, Takes(ids)
      PROVE  /\ \A T : Keeps(messageQueue, messageQueue', Messages, T)
             /\ \A T : Keeps(toClient, toClient', Responses, T) /\ UNCHANGED toClient
             /\ Head(messageQueue) \notin AskMsgs
             /\ Head(messageQueue) \in Messages /\ Head(messageQueue).id \in ids
             /\ messageQueue' = Tail(messageQueue) /\ messageQueue # << >>
             /\ 1 \in DOMAIN messageQueue /\ messageQueue[1] = Head(messageQueue)
             /\ NoneOf(messageQueue', Tracks) /\ FirstOnly(messageQueue', Tracks)
             /\ NoneOf(messageQueue', AskMsgs) /\ leaving = "no"
  <2>1. /\ \A T : Keeps(messageQueue, messageQueue', Messages, T)
        /\ UNCHANGED toClient /\ messageQueue \in Seq(Messages)
        /\ Head(messageQueue) \in Messages /\ Head(messageQueue).id \in ids
        /\ messageQueue' = Tail(messageQueue) /\ messageQueue # << >>
        /\ 1 \in DOMAIN messageQueue /\ messageQueue[1] = Head(messageQueue)
    BY <1>1, <1>2, TakesFront
  <2>2. Head(messageQueue) \notin AskMsgs /\ NoneOf(messageQueue', AskMsgs)
    BY <2>1, KeptElements DEF NoCall, NoneOf
  <2>3. NoneOf(messageQueue', Tracks) /\ FirstOnly(messageQueue', Tracks)
    BY <2>1, FirstTaken DEF NoCall, NoneOf, FirstOnly
  <2> QED
    BY <1>2, <2>1, <2>2, <2>3 DEF Keeps, Takes
<1>3. CASE UpdateIsCreate \/ UpdateIsJoin
  BY <1>2, <1>3 DEF UpdateIsCreate, UpdateIsJoin, AskMsgs
<1>4. ASSUME NEW ids, Takes(ids), UNCHANGED <<pc, offering, streamWnd, threadVars>>,
             Keeps(toServer, toServer', Requests, CallReqs)
      PROVE  PatientInv'
  BY <1>1, <1>2, <1>4, NoCallKept DEF threadVars
<1>5. ASSUME NEW meth \in {"BYE", "CREATE", "INFO30", "INFO31"}, NEW to \in Ids, Send(meth, to, 0)
      PROVE  Keeps(toServer, toServer', Requests, CallReqs)
  BY <1>1, <1>5, SendKeeps
<1>6. CASE UpdateMeetingEnd
  <2>1. /\ Takes({"MEETING_END"}) /\ ~streamWnd' /\ Send("BYE", meetingId, 0)
        /\ fault' # "none" \/ UNCHANGED <<offering, listener>>
    BY <1>6 DEF UpdateMeetingEnd, exitMeeting, StopStats, Leaves, Dies, offerVars, threadVars
  <2>2. NoneOf(toServer', CallReqs)
    BY <1>1, <1>5, <2>1, KeptElements DEF NoCall
  <2>3. CASE fault' = "none"
    BY <1>1, <1>2, <2>1, <2>2, <2>3 DEF PatientInv, NoCall, NotClosed, InWnd
  <2> QED
    BY <2>3, PatientDead
<1>7. CASE UpdateSetShare
  <2>1. /\ Takes({"SET_SHARE"}) /\ UNCHANGED <<pc, offering, streamWnd, threadVars>>
        /\ \E meth \in {"INFO30", "INFO31"} : Send(meth, meetingId, 0)
    BY <1>7 DEF UpdateSetShare, switchScreenShare, Dies, windows, callVars, offerVars, threadVars
  <2> QED
    BY <1>1, <1>4, <1>5, <2>1
<1>8. CASE UpdateIsBooking
  <2>1. /\ Takes({"IS_BOOKING"}) /\ UNCHANGED <<pc, offering, streamWnd, threadVars>>
        /\ Send("CREATE", NoRoom, 0)
    BY <1>8 DEF UpdateIsBooking, scheduleMeeting, windows, engineVars, callVars, offerVars, threadVars
  <2> QED
    BY <1>1, <1>4, <1>5, <2>1
<1>9. CASE UpdateAddTrack
  <2>1. /\ Takes({"ADD_TRACK"}) /\ streamWnd'
        /\ UNCHANGED <<pc, offering, toServer, listener, leaving>>
    BY <1>9 DEF UpdateAddTrack, engineVars, callVars, offerVars, threadVars
  <2>2. pc # 0 /\ listener.at # "cancelled" /\ leaving = "no"
    BY <1>2, <2>1 DEF NoCall, InWnd, NoneOf, Tracks, OfIds
  <2> QED
    BY <1>1, <1>2, <2>1, <2>2 DEF PatientInv, NoCall, NotClosed, InWnd
<1>10. CASE UpdateEnter \/ UpdateCreateMeetingOK \/ UpdateJoinMeetingOK \/ UpdateBookingOK
  <2>1. /\ \E ids : Takes(ids)
        /\ UNCHANGED <<engineVars, toServer, streamWnd>>
    BY <1>10
    DEF UpdateEnter, UpdateCreateMeetingOK, UpdateJoinMeetingOK, UpdateBookingOK, windows
  <2>2. UNCHANGED <<pc, offering, threadVars>> /\ Keeps(toServer, toServer', Requests, CallReqs)
    BY <2>1 DEF engineVars, callVars, offerVars, threadVars, Keeps
  <2> QED
    BY <1>4, <2>1, <2>2
<1>11. CASE ExitMeeting
  <2>1. /\ leaving # "no"
        /\ UNCHANGED <<messageQueue, toServer, toClient, offering, streamWnd, listener>>
    BY <1>11
    DEF ExitMeeting, exitMeetingCloses, exitMeetingDrops, CloseDevices, DropConnection, Leaves,
        Dies, uiVars, windows, offerVars, threadVars
  <2> QED
    BY <1>1, <2>1 DEF PatientInv, NoCall, NotClosed, InWnd
<1> QED
  BY <1>3, <1>6, <1>7, <1>8, <1>9, <1>10, <1>11 DEF UIStep, update

\* The offer comes back, or fails.
LEMMA PatientSignaling ==
  ASSUME PatientInv, SignalingStep, TypeOK'
  PROVE  PatientInv'
<1>1. /\ Alive /\ TypeOK /\ offering # 0 /\ offering \in Nat /\ meetingId \in Ids
      /\ toServer \in Seq(Requests) /\ UNCHANGED <<streamWnd, listener, leaving>>
      /\ NotClosed
  BY DEF SignalingStep, PatientInv, OnSuccess, OnFailure, threadVars, TypeOK, EngineTypeOK, uiVars, windows
<1>2. /\ Alone /\ messageQueue = << >> /\ toClient = << >> /\ toServer = << >>
  BY <1>1 DEF PatientInv, NoCall, Calling, Requested, Inquiring, Inviting, Answered
<1>3. CASE OnSuccess
  <2>1. /\ Send("INVITE", meetingId, offering) /\ offering' = 0
        /\ UNCHANGED <<messageQueue, toClient>>
    BY <1>3 DEF OnSuccess
  <2> DEFINE q == Request("INVITE", meetingId, offering)
  <2>2. q \in Requests /\ q.meth = "INVITE"
    BY <1>1 DEF Request, Requests
  <2>3. toServer' = Append(toServer, q)
    BY <2>1 DEF Send
  <2> HIDE DEF q
  <2>4. toServer' = <<q>>
    BY <1>2, <2>3
  <2>5. Inviting' /\ Alone'
    BY <1>1, <1>2, <2>1, <2>2, <2>4 DEF Inviting, Alone
  <2> QED
    BY <1>1, <1>2, <2>1, <2>5 DEF PatientInv, Calling, NotClosed, NoneOf
<1>4. CASE OnFailure
  <2>1. offering' = 0 /\ UNCHANGED <<messageQueue, toClient, toServer>>
    BY <1>4 DEF OnFailure
  <2> QED
    BY <1>1, <1>2, <2>1 DEF PatientInv, NoCall, NotClosed, InWnd, Alone, NoneOf, FirstOnly
<1> QED
  BY <1>3, <1>4 DEF SignalingStep

\* The responses when no call goes on.
LEMMA PatientListenerRest ==
  ASSUME PatientInv, NoCall, EngineStep, TypeOK'
  PROVE  PatientInv'
<1>1. /\ Alive /\ TypeOK /\ NotClosed /\ ListenerStep
      /\ offering = 0 /\ UNCHANGED streamWnd
  BY DEF EngineStep, PatientInv, NoCall, uiVars, windows
<1>2. /\ Keeps(messageQueue, messageQueue', Messages, AskMsgs)
      /\ Keeps(messageQueue, messageQueue', Messages, Ends)
  BY <1>1, OthersPost DEF AskMsgs, Ends, OfIds, CallbackIds
<1>3. ASSUME NEW code, NEW cmeth, Receive(code, cmeth)
      PROVE  /\ cmeth \notin {"QUERY", "INVITE", "CLOSE"}
             /\ \A T : Keeps(toClient, toClient', Responses, T)
  <2>1. /\ Head(toClient) \in Responses /\ Head(toClient).cmeth = cmeth
        /\ 1 \in DOMAIN toClient /\ toClient[1] = Head(toClient)
        /\ \A T : Keeps(toClient, toClient', Responses, T)
    BY <1>1, <1>3, ReceivesFront
  <2> QED
    BY <1>1, <2>1 DEF NoCall, NotClosed, NoneOf, CallResps, CloseResps, AnswersTo
<1>4. CASE onTrying \/ onRinging \/ onOKQuery \/ onOKInvite \/ onOKClose
           \/ onUnauthorizedInvite \/ onCancelInvite \/ onCancelQuery
           \/ onCloseCloses \/ onCloseDrops
  BY <1>1, <1>3, <1>4
  DEF onTrying, onRinging, onOKQuery, onOKInvite, onOKClose, onCloseCloses, onCloseDrops,
      onUnauthorizedInvite, onCancelInvite, onCancelQuery, NotClosed
\* The others post no track.
<1>5. CASE onOKInfo31 \/ onOKInfo30 \/ onOKBye \/ onOKCreate \/ onUnauthorizedBye
           \/ OnJoined \/ OnStarted
  <2>1. Keeps(messageQueue, messageQueue', Messages, Tracks)
    <3>1. CASE UNCHANGED messageQueue
      BY <3>1 DEF Keeps
    <3>2. ASSUME NEW r \in Seq(Messages), messageQueue' = messageQueue \o r,
                 \A i \in DOMAIN r : r[i].id # "ADD_TRACK"
          PROVE  Keeps(messageQueue, messageQueue', Messages, Tracks)
      <4>1. NoneOf(r, Tracks)
        BY <3>2 DEF NoneOf, Tracks, OfIds
      <4> QED
        BY <3>2, <4>1 DEF Keeps
    <3>3. CASE OnJoined
      BY <1>1, <3>2, <3>3, JoinedPosts
    <3>4. CASE onOKCreate
      BY <1>1, <3>2, <3>4, BookedPosts
    <3> QED
      BY <1>5, <3>1, <3>3, <3>4
      DEF onOKInfo31, onOKInfo30, onOKBye, onUnauthorizedBye, OnStarted
  <2>2. \A T : Keeps(toClient, toClient', Responses, T)
    <3>1. CASE UNCHANGED toClient
      BY <3>1 DEF Keeps
    <3> QED
      BY <1>3, <1>5, <3>1
      DEF onOKInfo31, onOKInfo30, onOKBye, onOKCreate, onUnauthorizedBye, OnJoined, OnStarted
  <2>3. /\ UNCHANGED <<pc, offering, toServer, leaving>>
        /\ Keeps(toServer, toServer', Requests, CallReqs)
        /\ listener' = listener \/ listener'.at \in {"idle", "joined", "answered"}
    BY <1>1, <1>5
    DEF onOKInfo31, onOKInfo30, onOKBye, onOKCreate, onUnauthorizedBye, OnJoined, OnStarted,
        Dies, Listens, engineVars, callVars, offerVars, threadVars, Keeps, TypeOK, EngineTypeOK
  <2> QED
    BY <1>1, <1>2, <2>1, <2>2, <2>3, NoCallKept
\* The connection goes after its call was cancelled: the window is not open.
<1>6. CASE onCancelDrops
  <2>1. /\ listener.at = "cancelled" /\ UNCHANGED <<messageQueue, toServer, toClient>>
        /\ \/ fault' # "none"
           \/ offering' = 0 /\ UNCHANGED leaving /\ listener'.at = "idle"
    BY <1>6 DEF onCancelDrops, Listens, Dies
  <2>2. CASE fault' = "none"
    BY <1>1, <2>1, <2>2 DEF PatientInv, NoCall, NotClosed, InWnd
  <2> QED
    BY <2>2, PatientDead
<1> QED
  BY <1>1, <1>4, <1>5, <1>6 DEF ListenerStep

\* The responses while a call goes on: to its QUERY, or to its INVITE.
LEMMA PatientListenerCall ==
  ASSUME PatientInv, Calling, EngineStep, TypeOK'
  PROVE  PatientInv'
<1>1. /\ Alive /\ TypeOK /\ NotClosed /\ ListenerStep /\ Alone
      /\ toClient \in Seq(Responses) /\ UNCHANGED streamWnd
  BY DEF EngineStep, PatientInv, Calling, uiVars, windows, TypeOK, EngineTypeOK
<1>2. CASE OnJoined \/ OnStarted \/ onCloseCloses \/ onCloseDrops \/ onCancelDrops
  BY <1>1, <1>2 DEF OnJoined, OnStarted, onCloseCloses, onCloseDrops, onCancelDrops, Alone
<1>3. CASE toClient = << >>
  BY <1>1, <1>2, <1>3
  DEF ListenerStep, onTrying, onRinging, onOKQuery, onOKInvite, onOKInfo31, onOKInfo30,
      onOKBye, onOKCreate, onOKClose, onUnauthorizedInvite, onUnauthorizedBye, onCancelInvite,
      onCancelQuery, Receive
<1>4. ASSUME NEW code, NEW cmeth, Receive(code, cmeth)
      PROVE  /\ toClient # << >> /\ toClient' = Tail(toClient)
             /\ Head(toClient) = toClient[1] /\ 1 \in DOMAIN toClient
             /\ toClient[1] \in Responses
             /\ toClient[1].code = code /\ toClient[1].cmeth = cmeth
             /\ NoneOf(toClient', CloseResps)
  <2>1. /\ toClient # << >> /\ toClient' = Tail(toClient)
        /\ Head(toClient) = toClient[1] /\ 1 \in DOMAIN toClient
        /\ toClient[1] \in Responses
        /\ toClient[1].code = code /\ toClient[1].cmeth = cmeth
        /\ Keeps(toClient, toClient', Responses, CloseResps)
    BY <1>1, <1>4, ReceivesFront
  <2> QED
    BY <1>1, <2>1, KeptElements DEF NotClosed
\* The end of a call, that leaves no more than a track.
<1>5. ASSUME offering' = 0, toServer' = << >>, toClient' = << >>, leaving' = "no",
             listener'.at \notin {"stopping", "closed"},
             \/ messageQueue' = << >>
             \/ \E m \in Tracks : messageQueue' = <<m>> /\ pc' # 0 /\ listener'.at # "cancelled"
      PROVE  PatientInv'
  <2>1. CASE messageQueue' = << >>
    BY <1>1, <1>5, <2>1 DEF PatientInv, NoCall, NotClosed, InWnd, Alone, NoneOf, FirstOnly
  <2>2. ASSUME NEW m \in Tracks, messageQueue' = <<m>>, pc' # 0, listener'.at # "cancelled"
        PROVE  PatientInv'
    <3>1. m \notin AskMsgs /\ m \notin Ends
      BY <2>2 DEF AskMsgs, Ends, Tracks, OfIds
    <3> QED
      BY <1>1, <1>5, <2>2, <3>1
      DEF PatientInv, NoCall, NotClosed, InWnd, Alone, NoneOf, FirstOnly
  <2> QED
    BY <1>5, <2>1, <2>2
<1>6. CASE Inquiring /\ toClient # << >>
  <2>1. PICK r \in Responses :
          /\ toClient = <<r>> /\ r.cmeth = "QUERY" /\ (r.code = "200" => meetingId \in Rooms)
          /\ toServer = << >> /\ messageQueue = << >> /\ offering = 0
    BY <1>6 DEF Inquiring
  <2>2. Head(toClient) = r /\ Tail(toClient) = << >>
    BY <2>1
  <2>3. ASSUME NEW code, NEW cmeth, Receive(code, cmeth)
        PROVE  cmeth = "QUERY" /\ code = r.code /\ toClient' = << >>
    BY <2>1, <2>2, <2>3 DEF Receive
  <2>4. CASE onOKQuery
    <3>1. StartCall /\ UNCHANGED <<toServer, messageQueue>> /\ toClient' = << >>
      BY <2>1, <2>3, <2>4 DEF onOKQuery
    <3> QED
      BY <1>1, <2>1, <3>1, PatientStarts
  <2>5. CASE onCancelQuery
    <3>1. UNCHANGED <<offering, toServer, messageQueue, listener, leaving>> /\ toClient' = << >>
      BY <2>3, <2>5 DEF onCancelQuery, offerVars, threadVars
    <3> QED
      BY <1>1, <1>5, <2>1, <3>1 DEF Alone
  <2> QED
    BY <1>1, <1>2, <2>3, <2>4, <2>5
    DEF ListenerStep, onTrying, onRinging, onOKInvite, onOKInfo31, onOKInfo30, onOKBye,
        onOKCreate, onOKClose, onUnauthorizedInvite, onUnauthorizedBye, onCancelInvite
<1>7. CASE Answered
  <2>1. /\ messageQueue = << >> /\ toServer = << >> /\ offering = 0
        /\ Len(toClient) \in Nat /\ DOMAIN toClient = 1..Len(toClient)
        /\ \A i \in DOMAIN toClient :
             toClient[i].cmeth = "INVITE" /\ (toClient[i].code \in FinalCodes <=> i = Len(toClient))
    BY <1>1, <1>7 DEF Answered
  <2>2. ASSUME NEW code, NEW cmeth, Receive(code, cmeth)
        PROVE  cmeth = "INVITE" /\ (code \in FinalCodes => toClient' = << >>)
    <3>1. 1 \in DOMAIN toClient /\ toClient[1].cmeth = cmeth /\ toClient[1].code = code
          /\ toClient' = Tail(toClient)
      BY <1>4, <2>2
    <3>2. code \in FinalCodes => 1 = Len(toClient)
      BY <2>1, <3>1
    <3>3. 1 = Len(toClient) => Tail(toClient) = << >>
      BY <1>1, LastTaken
    <3> QED
      BY <2>1, <3>1, <3>2, <3>3
  \* More responses come.
  <2>3. ASSUME NEW code, Receive(code, "INVITE"), code \notin FinalCodes,
               UNCHANGED <<messageQueue, toServer, offering, listener, leaving>>
        PROVE  PatientInv'
    <3>1. 1 # Len(toClient) /\ toClient' = Tail(toClient) /\ 1 \in DOMAIN toClient
          /\ toClient # << >> /\ NoneOf(toClient', CloseResps)
      BY <1>4, <2>1, <2>3
    <3>2. Len(toClient') = Len(toClient) - 1 /\ toClient' # << >>
      BY <1>1, <2>1, <3>1
    <3>3. \A i \in DOMAIN toClient' :
            i \in Nat /\ i + 1 \in DOMAIN toClient /\ toClient'[i] = toClient[i + 1]
      BY <1>1, <3>1, TailPlaces
    <3>4. \A i \in DOMAIN toClient' :
            toClient'[i].cmeth = "INVITE"
            /\ (toClient'[i].code \in FinalCodes <=> i = Len(toClient'))
      BY <2>1, <3>2, <3>3
    <3>5. Answered' /\ Alone'
      BY <1>1, <2>1, <2>3, <3>2, <3>4 DEF Answered, Alone
    <3> QED
      BY <1>1, <2>3, <3>1, <3>5 DEF PatientInv, Calling, NotClosed
  <2>4. CASE onTrying \/ onRinging
    <3>1. \E code : /\ Receive(code, "INVITE") /\ code \notin FinalCodes
                    /\ UNCHANGED <<messageQueue, toServer>>
      BY <2>4 DEF onTrying, onRinging, FinalCodes
    <3>2. fault' # "none" \/ UNCHANGED <<offering, listener, leaving>>
      BY <2>4 DEF onTrying, onRinging, Dies, engineVars, offerVars, threadVars
    <3> QED
      BY <2>3, <3>1, <3>2, PatientDead
  <2>5. CASE onUnauthorizedInvite \/ onCancelInvite
    <3>1. toClient' = << >> /\ UNCHANGED <<messageQueue, toServer>>
      BY <2>2, <2>5 DEF onUnauthorizedInvite, onCancelInvite, FinalCodes
    <3>2. \/ fault' # "none"
          \/ offering' = 0 /\ leaving' = "no" /\ listener'.at \in {"idle", "cancelled"}
      BY <1>1, <2>1, <2>5
      DEF onUnauthorizedInvite, onCancelInvite, Dies, Listens, offerVars, threadVars, Alone
    <3> QED
      BY <1>5, <2>1, <3>1, <3>2, PatientDead
  <2>6. CASE onOKInvite
    <3>1. toClient' = << >> /\ UNCHANGED toServer
      BY <2>2, <2>6 DEF onOKInvite, FinalCodes
    <3>2. \/ fault' # "none"
          \/ /\ UNCHANGED <<pc, offering>> /\ pc # 0 /\ leaving' = "no"
             /\ listener'.at = "answered"
             /\ Post(<<Msg("ADD_TRACK", NoRoom)>>) \/ UNCHANGED messageQueue
      BY <1>1, <2>6 DEF onOKInvite, Dies, offerVars, threadVars, Alone
    <3>3. Msg("ADD_TRACK", NoRoom) \in Tracks
      BY MsgType DEF Tracks, OfIds, Msg, Ids
    <3>4. Post(<<Msg("ADD_TRACK", NoRoom)>>)
            => \E m \in Tracks : messageQueue' = <<m>>
      BY <2>1, <3>3 DEF Post
    <3> QED
      BY <1>5, <2>1, <3>1, <3>2, <3>4, PatientDead
  <2> QED
    BY <1>1, <1>2, <2>2, <2>4, <2>5, <2>6
    DEF ListenerStep, onOKQuery, onOKInfo31, onOKInfo30, onOKBye,
        onOKCreate, onOKClose, onUnauthorizedBye, onCancelQuery
<1> QED
  BY <1>3, <1>6, <1>7 DEF Calling, Requested, Inviting

\* The answer to an INVITE: its last response and no other ends the call, and names the
\* meeting if it is a 200.
EndsLast(rs, room) ==
  /\ rs \in Seq(Responses) /\ rs # << >>
  /\ \A i \in DOMAIN rs :
       /\ rs[i].cmeth = "INVITE"
       /\ rs[i].code \in FinalCodes <=> i = Len(rs)
       /\ rs[i].code = "200" => rs[i].room = room

LEMMA InviteEndsLast ==
  ASSUME NEW room \in Rooms, NEW sdp \in Nat
  PROVE  /\ EndsLast(Accepted(room, sdp), room)
         /\ \A any \in Ids : EndsLast(Refused, any) /\ EndsLast(Cancelled, any)
<1>1. ASSUME NEW any \in Ids, NEW a \in Responses, NEW b \in Responses,
             a.cmeth = "INVITE", a.code \notin FinalCodes,
             b.cmeth = "INVITE", b.code \in FinalCodes, b.code = "200" => b.room = any
      PROVE  /\ EndsLast(<<a, b>>, any)
             /\ \A c \in Responses : (c.cmeth = "INVITE" /\ c.code \notin FinalCodes)
                  => EndsLast(<<a, c, b>>, any)
  <2>1. EndsLast(<<a, b>>, any)
    BY <1>1 DEF EndsLast, FinalCodes
  <2>2. ASSUME NEW c \in Responses, c.cmeth = "INVITE", c.code \notin FinalCodes
        PROVE  EndsLast(<<a, c, b>>, any)
    BY <1>1, <2>2 DEF EndsLast, FinalCodes
  <2> QED
    BY <2>1, <2>2
<1>2. room \in Ids /\ NoRoom \in Ids
  BY DEF Ids
<1>3. ASSUME NEW m \in Ids, NEW s \in Nat, NEW code \in {"100", "180", "200", "401", "CANCEL"}
      PROVE  LET r == Response(code, "INVITE", m, s)
             IN  r \in Responses /\ r.cmeth = "INVITE" /\ r.code = code /\ r.room = m
  BY DEF Response, Responses
<1>4. EndsLast(Accepted(room, sdp), room)
  <2> DEFINE a == Response("100", "INVITE", room, 0)
             c == Response("180", "INVITE", room, 0)
             b == Response("200", "INVITE", room, sdp)
  <2>1. /\ a \in Responses /\ a.cmeth = "INVITE" /\ a.code \notin FinalCodes
        /\ c \in Responses /\ c.cmeth = "INVITE" /\ c.code \notin FinalCodes
        /\ b \in Responses /\ b.cmeth = "INVITE" /\ b.code \in FinalCodes /\ b.room = room
    BY <1>2, <1>3 DEF FinalCodes
  <2>2. Accepted(room, sdp) = <<a, c, b>>
    BY DEF Accepted
  <2> HIDE DEF a, b, c
  <2> QED
    BY <1>1, <1>2, <2>1, <2>2
<1>5. ASSUME NEW any \in Ids PROVE EndsLast(Refused, any) /\ EndsLast(Cancelled, any)
  <2> DEFINE a == Response("100", "INVITE", NoRoom, 0)
             c == Response("180", "INVITE", NoRoom, 0)
             b == Response("401", "INVITE", NoRoom, 0)
             d == Response("CANCEL", "INVITE", NoRoom, 0)
  <2>1. /\ a \in Responses /\ a.cmeth = "INVITE" /\ a.code \notin FinalCodes
        /\ c \in Responses /\ c.cmeth = "INVITE" /\ c.code \notin FinalCodes
        /\ b \in Responses /\ b.cmeth = "INVITE" /\ b.code \in FinalCodes /\ b.code # "200"
        /\ d \in Responses /\ d.cmeth = "INVITE" /\ d.code \in FinalCodes /\ d.code # "200"
    BY <1>2, <1>3 DEF FinalCodes
  <2>2. Refused = <<a, b>> /\ Cancelled = <<a, c, d>>
    BY DEF Refused, Cancelled
  <2> HIDE DEF a, b, c, d
  <2> QED
    BY <1>1, <2>1, <2>2
<1> QED
  BY <1>4, <1>5

\* The server answers what belongs to the call, or something else.
LEMMA PatientServer ==
  ASSUME PatientInv, Serve, TypeOK'
  PROVE  PatientInv'
<1>1. /\ Alive /\ TypeOK /\ NotClosed /\ ServerStep
      /\ UNCHANGED <<messageQueue, pc, offering, streamWnd, listener, leaving, meetingId>>
  BY ServerAnswers
  DEF Serve, PatientInv, uiVars, windows, engineVars, callVars, offerVars, threadVars
<1>2. /\ toServer \in Seq(Requests) /\ toServer # << >> /\ toServer' = Tail(toServer)
      /\ 1 \in DOMAIN toServer /\ Head(toServer) = toServer[1] /\ Head(toServer) \in Requests
      /\ \A T : Keeps(toServer, toServer', Requests, T)
      /\ Keeps(toClient, toClient', Responses, CloseResps)
  <2>1. Head(toServer).meth \notin {"CLOSE"}
    BY <1>1, ServerAnswers DEF Requests
  <2> QED
    BY <1>1, <2>1, ServerAnswers DEF CloseResps
<1>3. NotClosed'
  BY <1>1, <1>2, KeptElements DEF NotClosed, TypeOK, EngineTypeOK
<1>4. CASE NoCall
  <2>1. Head(toServer).meth \notin {"QUERY", "INVITE"}
    BY <1>2, <1>4 DEF NoCall, NoneOf, CallReqs
  <2>2. Keeps(toClient, toClient', Responses, CallResps)
    BY <1>1, <2>1, ServerAnswers DEF CallResps
  <2>3. \A T : Keeps(messageQueue, messageQueue', Messages, T)
    BY <1>1 DEF Keeps
  <2>4. offering' = 0
    BY <1>1, <1>4 DEF NoCall
  <2> QED
    BY <1>1, <1>2, <1>4, <2>2, <2>3, <2>4, NoCallKept
<1>5. CASE Calling /\ Head(toServer).meth = "QUERY"
  <2>1. PICK q \in Requests : toServer = <<q>> /\ q.meth = "QUERY"
    BY <1>2, <1>5 DEF Calling, Requested, Inquiring, Inviting, Answered
  <2>2. Head(toServer) = q /\ Tail(toServer) = << >>
    BY <2>1
  <2>3. q.to = meetingId /\ toClient = << >> /\ messageQueue = << >> /\ offering = 0
    BY <1>5, <2>1, <2>2 DEF Calling, Requested, Inquiring, Inviting, Answered
  <2>4. ASSUME NEW code \in {"200", "CANCEL"}, NEW room \in Ids, code = "200" => q.to \in Rooms,
               Answers(<<Response(code, "QUERY", room, 0)>>)
        PROVE  PatientInv'
    <3> DEFINE r == Response(code, "QUERY", room, 0)
    <3>1. r \in Responses /\ r.cmeth = "QUERY" /\ r.code = code
      BY DEF Response, Responses
    <3>2. toClient' = toClient \o <<r>>
      BY <2>4 DEF Answers
    <3> HIDE DEF r
    <3>3. toClient' = <<r>>
      BY <2>3, <3>1, <3>2
    <3>4. Inquiring' /\ Alone'
      BY <1>1, <1>2, <1>5, <2>2, <2>3, <2>4, <3>1, <3>3 DEF Inquiring, Calling, Alone
    <3> QED
      BY <1>3, <3>4 DEF PatientInv, Calling
  <2>5. q.to \in Ids /\ NoRoom \in Ids
    BY DEF Requests, Ids
  <2>6. ServeQuery
    BY <1>1, <1>5 DEF ServerStep, ServeInvite, ServeBye, ServeCreate, ServeInfo, Asked
  <2>7. \/ q.to \in Rooms /\ Answers(<<Response("200", "QUERY", q.to, 0)>>)
        \/ Answers(<<Response("CANCEL", "QUERY", NoRoom, 0)>>)
    BY <2>2, <2>6 DEF ServeQuery
  <2> QED
    BY <2>4, <2>5, <2>7
<1>6. CASE Calling /\ Head(toServer).meth = "INVITE"
  <2>1. PICK q \in Requests : toServer = <<q>> /\ q.meth = "INVITE"
    BY <1>2, <1>6 DEF Calling, Requested, Inquiring, Inviting, Answered
  <2>2. Head(toServer) = q /\ Tail(toServer) = << >>
    BY <2>1
  <2>3. toClient = << >> /\ messageQueue = << >> /\ offering = 0
    BY <1>6, <2>1, <2>2 DEF Calling, Requested, Inquiring, Inviting, Answered
  <2>4. ServeInvite
    BY <1>1, <1>6 DEF ServerStep, ServeQuery, ServeBye, ServeCreate, ServeInfo, Asked
  <2>5. PICK any \in Rooms : TRUE
    BY IdsAssumption
  <2>6. Head(toServer).sdp \in Nat /\ any \in Ids
    BY <2>2, <2>5 DEF Requests, Ids
  <2>7. PICK rs, m : EndsLast(rs, m) /\ Answers(rs)
    BY <2>4, <2>6, InviteEndsLast DEF ServeInvite
  <2>8. toClient' = rs
    BY <2>3, <2>7 DEF EndsLast, Answers
  <2>9. Answered' /\ Alone'
    BY <1>1, <1>2, <1>6, <2>2, <2>3, <2>7, <2>8 DEF Answered, Calling, Alone, EndsLast
  <2> QED
    BY <1>3, <2>9 DEF PatientInv, Calling
<1> QED
  BY <1>1, <1>2, <1>4, <1>5, <1>6
  DEF PatientInv, Calling, Requested, Inquiring, Inviting, Answered

LEMMA PatientStutter ==
  ASSUME PatientInv, UNCHANGED vars, TypeOK'
  PROVE  PatientInv'
BY DEF PatientInv, vars, vars0, engineVars, callVars, offerVars, threadVars, uiVars, windows,
       Alive, NoCall, NotClosed, InWnd, Calling, Alone, Requested, Inquiring, Inviting, Answered

\* The patient user's invariant is inductive.
LEMMA PatientInvariance ==
  ASSUME "close" \notin Env, "browse" \notin Env, "retry" \notin Env
  PROVE  Spec => []PatientInv
<1>1. Init => PatientInv
  <2> SUFFICES ASSUME Init PROVE PatientInv
    OBVIOUS
  <2>1. TypeOK
    BY InitType
  <2>2. /\ ~streamWnd /\ offering = 0
        /\ toServer = << >> /\ toClient = << >> /\ messageQueue = << >>
        /\ leaving = "no" /\ listener.at = "idle"
    BY DEF Init, EngineInit, UIInit
  <2> QED
    BY <2>1, <2>2 DEF PatientInv, NoCall, NotClosed, InWnd, NoneOf, FirstOnly
<1>2. PatientInv /\ DialogInv /\ [Next]_vars => PatientInv'
  <2> SUFFICES ASSUME PatientInv, DialogInv, [Next]_vars PROVE PatientInv'
    OBVIOUS
  <2>1. TypeOK'
    BY NextType DEF PatientInv
  <2>2. CASE UserStep
    BY <2>1, <2>2, PatientUser
  <2>3. CASE UIStep
    BY <2>1, <2>3, PatientUICall, PatientUIRest DEF PatientInv, UIStep
  <2>4. CASE SignalingStep
    BY <2>1, <2>4, PatientSignaling
  <2>5. CASE EngineStep
    BY <2>1, <2>5, PatientListenerCall, PatientListenerRest DEF PatientInv, EngineStep
  <2>6. CASE Serve
    BY <2>1, <2>6, PatientServer
  <2>7. CASE UNCHANGED vars
    BY <2>1, <2>7, PatientStutter
  <2> QED
    BY <2>2, <2>3, <2>4, <2>5, <2>6, <2>7 DEF Next, Close, HostCloses
<1>3. Spec => []DialogInv
  BY DialogInvariance
<1> QED
  BY <1>1, <1>2, <1>3, PTL DEF Spec

\* A meeting window stands for a connection whenever all is quiet, for every patient
\* user, over refused, cancelled and failed calls, bookings, wrong numbers and early
\* leaves, as long as nobody else ends the meeting.
THEOREM WindowHasConnection ==
  ASSUME "close" \notin Env, "browse" \notin Env, "retry" \notin Env
  PROVE  Spec => []ClosedIsShown
<1>1. PatientInv => ClosedIsShown
  BY QuietNoCall DEF ClosedIsShown, NoCall, InWnd
<1> QED
  BY <1>1, PatientInvariance, PTL

\* The answer to a join finds the id that the user typed, for the same users: nothing
\* that is still under way can wipe it in the meantime.
THEOREM JoinsAreHeard ==
  ASSUME "close" \notin Env, "browse" \notin Env, "retry" \notin Env
  PROVE  Spec => JoinIsHeard
<1> DEFINE Heard == (toClient # << >> /\ Head(toClient).code = "200"
                     /\ Head(toClient).cmeth = "QUERY" /\ listener.at = "idle"
                     /\ toClient' = Tail(toClient))
                       => meetingId \in Rooms
<1>1. PatientInv /\ [Next]_vars => [Heard]_vars
  <2> SUFFICES ASSUME PatientInv, Next, toClient # << >>, Head(toClient).code = "200",
                      Head(toClient).cmeth = "QUERY"
               PROVE  meetingId \in Rooms
    OBVIOUS
  <2>1. Alive /\ toClient \in Seq(Responses)
    BY DEF Next, UserStep, UIStep, SignalingStep, EngineStep, Serve, Close,
           PatientInv, TypeOK, EngineTypeOK
  <2>2. 1 \in DOMAIN toClient /\ Head(toClient) = toClient[1] /\ Head(toClient) \in Responses
    BY <2>1, TailPlaces
  <2>3. ~NoCall
    BY <2>2 DEF NoCall, NoneOf, CallResps, AnswersTo
  <2>4. Calling
    BY <2>1, <2>3 DEF PatientInv
  <2>5. Inquiring
    BY <2>2, <2>4 DEF Calling, Requested, Inviting, Answered
  <2>6. PICK r \in Responses : toClient = <<r>> /\ (r.code = "200" => meetingId \in Rooms)
    BY <2>5 DEF Inquiring
  <2> QED
    BY <2>6
<1> QED
  BY <1>1, PatientInvariance, PTL DEF Spec, JoinIsHeard

-----------------------------------------------------------------------------
(* The number in the meeting window, for a patient user who books nothing.   *)

Bookings == OfIds({"IS_BOOKING"})
Numbers == OfIds({"CREATE_MEETING_OK"})
Byes == OfMeths({"BYE"})
ByeResps == AnswersTo({"BYE"})

NoBooking ==
  /\ NoneOf(messageQueue, Bookings)
  /\ NoneOf(toServer, OfMeths({"CREATE"})) /\ NoneOf(toClient, AnswersTo({"CREATE"}))

\* What the window shows is the engine's meetingId, or that is on its way to it.
NumberShown ==
  /\ \A i \in DOMAIN messageQueue :
       messageQueue[i] \in Numbers => meetingId \in {NoRoom, messageQueue[i].room}
  /\ meetingId \in {NoRoom, sessionId} \/ ~NoneOf(messageQueue, Numbers)
  /\ listener.at = "answered" => NoneOf(messageQueue, Numbers)

\* The call is for the meeting in meetingId, and so is the server's answer, if it is not
\* for a new meeting.
NumberCalled ==
  /\ \A i \in DOMAIN toServer : toServer[i].meth = "INVITE" => toServer[i].to = meetingId
  /\ \A i \in DOMAIN toClient :
       (toClient[i].cmeth = "INVITE" /\ toClient[i].code = "200") =>
         /\ toClient[i].room = srvRoom /\ srvRoom \in Rooms
         /\ meetingId \in {NoRoom, srvRoom}

\* The meeting in the window is the server's, and no BYE that would end it is under way.
NumberServed ==
  InWnd =>
    /\ srvRoom \in Rooms /\ NoneOf(toServer, Byes) /\ NoneOf(toClient, ByeResps)
    /\ meetingId = srvRoom
       \/ (listener.at = "answered" /\ listener.room = srvRoom /\ meetingId = NoRoom)

NumberInv ==
  TypeOK /\ (Alive => NoBooking /\ NumberShown /\ NumberCalled /\ NumberServed)

LEMMA NumberDead ==
  ASSUME TypeOK', fault' # "none"
  PROVE  NumberInv'
BY DEF NumberInv, Alive

\* What a step can change that none of this is about.
BookedOrShown == OfIds({"IS_BOOKING", "CREATE_MEETING_OK"})
NumberReqs == OfMeths({"CREATE", "INVITE", "BYE"})
NumberResps == AnswersTo({"CREATE", "INVITE", "BYE"})

\* What Keeps says of each element.
LEMMA KeptPlaces ==
  ASSUME NEW S, NEW T, NEW q \in Seq(S), NEW n, Keeps(q, n, S, T)
  PROVE  \A i \in DOMAIN n : n[i] \in T => \E j \in DOMAIN q : q[j] = n[i]
<1>1. /\ \A i \in DOMAIN n : n[i] \in T => \E j \in DOMAIN q : q[j] = n[i]
      /\ NoneOf(q, T) => NoneOf(n, T)
      /\ AtMostOne(q, T) => AtMostOne(n, T)
  BY KeptElements
<1> QED
  BY <1>1

LEMMA NumberKept ==
  ASSUME NumberInv, Alive, TypeOK',
         Keeps(messageQueue, messageQueue', Messages, BookedOrShown),
         Keeps(toServer, toServer', Requests, NumberReqs),
         Keeps(toClient, toClient', Responses, NumberResps),
         UNCHANGED <<meetingId, srvRoom>>,
         listener' = listener \/ (listener.at # "answered" /\ listener'.at # "answered"),
         InWnd' => InWnd,
         meetingId \in {NoRoom, sessionId'} \/ ~NoneOf(messageQueue', Numbers)
  PROVE  NumberInv'
<1>1. /\ messageQueue \in Seq(Messages) /\ toServer \in Seq(Requests)
      /\ toClient \in Seq(Responses) /\ toServer' \in Seq(Requests)
      /\ toClient' \in Seq(Responses)
  BY DEF NumberInv, TypeOK, EngineTypeOK
<1>2. /\ \A i \in DOMAIN messageQueue' : messageQueue'[i] \in BookedOrShown
           => \E j \in DOMAIN messageQueue : messageQueue[j] = messageQueue'[i]
      /\ \A i \in DOMAIN toServer' : toServer'[i] \in NumberReqs
           => \E j \in DOMAIN toServer : toServer[j] = toServer'[i]
      /\ \A i \in DOMAIN toClient' : toClient'[i] \in NumberResps
           => \E j \in DOMAIN toClient : toClient[j] = toClient'[i]
  BY <1>1, KeptPlaces
<1>3. NoBooking'
  BY <1>2 DEF NumberInv, NoBooking, NoneOf, Bookings, BookedOrShown, NumberReqs, NumberResps,
              OfIds, OfMeths, AnswersTo
<1>4. NumberShown'
  BY <1>2 DEF NumberInv, NumberShown, NoneOf, Numbers, BookedOrShown, OfIds
<1>5. /\ \A i \in DOMAIN toServer' : toServer'[i].meth = "INVITE" => toServer'[i] \in NumberReqs
      /\ \A i \in DOMAIN toClient' : toClient'[i].cmeth = "INVITE" => toClient'[i] \in NumberResps
  BY <1>1 DEF NumberReqs, NumberResps, OfMeths, AnswersTo
<1>6. NumberCalled'
  BY <1>2, <1>5 DEF NumberInv, NumberCalled
<1>7. NumberServed'
  BY <1>2 DEF NumberInv, NumberServed, NoneOf, Byes, ByeResps, NumberReqs, NumberResps,
              OfMeths, AnswersTo
<1> QED
  BY <1>3, <1>4, <1>6, <1>7 DEF NumberInv

\* A call is not in the window.
LEMMA CallOutside ==
  ASSUME PatientInv, Alive, Calling
  PROVE  ~InWnd /\ NoneOf(messageQueue, Numbers) /\ NoneOf(messageQueue, Bookings)
BY DEF Calling, Alone, InWnd, Requested, Inquiring, Inviting, Answered, NoneOf, AskMsgs,
       Tracks, Numbers, Bookings, OfIds

\* The clicks.
LEMMA NumberUser ==
  ASSUME NumberInv, UserStep, TypeOK', "book" \notin Env
  PROVE  NumberInv'
<1>1. /\ Alive /\ TypeOK
      /\ UNCHANGED <<toServer, toClient, streamWnd, listener, meetingId, srvRoom, sessionId>>
      /\ \A T : Keeps(toServer, toServer', Requests, T) /\ Keeps(toClient, toClient', Responses, T)
  BY DEF NumberInv, UserStep, Browses, Asks, Departs, Shares, ClickStart, ClickCloseDialog,
         ClickCreate, ClickJoin, ClickBooking, ClickLeave, ClickShare, Posts, engineVars, threadVars,
         windows, Keeps
<1>2. ASSUME NEW m \in Messages, Posts(m),
             m.id \notin {"IS_BOOKING", "CREATE_MEETING_OK", "ADD_TRACK"}
      PROVE  NumberInv'
  <2>1. /\ messageQueue \in Seq(Messages) /\ <<m>> \in Seq(Messages)
        /\ messageQueue' = messageQueue \o <<m>>
        /\ Keeps(messageQueue, messageQueue', Messages, BookedOrShown)
        /\ Keeps(messageQueue, messageQueue', Messages, Tracks)
    BY <1>1, <1>2, ClickAdds DEF BookedOrShown, Tracks, TypeOK, EngineTypeOK
  <2>2. NoneOf(messageQueue', Numbers) => NoneOf(messageQueue, Numbers)
    BY <2>1, ConcatPlaces DEF NoneOf
  <2>3. InWnd' => InWnd
    BY <1>1, <2>1, KeptElements DEF InWnd
  <2> QED
    BY <1>1, <2>1, <2>2, <2>3, NumberKept DEF NumberInv, NumberShown
<1>3. CASE ClickStart \/ ClickCreate \/ ClickLeave \/ ClickShare
           \/ \E room \in Rooms \union BadIds : ClickJoin(room)
  <2>1. \E m \in Messages :
          Posts(m) /\ m.id \notin {"IS_BOOKING", "CREATE_MEETING_OK", "ADD_TRACK"}
    BY <1>1, <1>3, Clicks DEF Msg
  <2> QED
    BY <1>2, <2>1
<1>4. CASE ClickCloseDialog
  <2>1. messageQueue' = messageQueue
    BY <1>4 DEF ClickCloseDialog
  <2>2. InWnd' => InWnd
    BY <1>1, <2>1 DEF InWnd
  <2> QED
    BY <1>1, <2>1, <2>2, NumberKept DEF NumberInv, NumberShown, Keeps
<1> QED
  BY <1>3, <1>4 DEF UserStep, Browses, Asks, Departs, Shares

\* The messages, but for the one that asks to join and the one that ends the meeting; nor
\* what comes of that one.
LEMMA NumberUIRest ==
  ASSUME NumberInv, UIStep, TypeOK', ~UpdateIsJoin, ~UpdateMeetingEnd,
         ~ExitMeeting
  PROVE  NumberInv'
<1>1. Alive /\ TypeOK /\ NoBooking /\ NumberShown /\ meetingId \in Ids /\ NoRoom \in Ids
  BY DEF UIStep, NumberInv, TypeOK, EngineTypeOK, Ids
<1>2. ASSUME NEW ids, Takes(ids)
      PROVE  /\ \A T : Keeps(messageQueue, messageQueue', Messages, T)
             /\ \A T : Keeps(toClient, toClient', Responses, T)
             /\ Head(messageQueue) \in Messages /\ Head(messageQueue).id \in ids
             /\ 1 \in DOMAIN messageQueue /\ messageQueue[1] = Head(messageQueue)
             /\ Head(messageQueue) \notin Numbers /\ NoneOf(messageQueue', Numbers)
                  => NoneOf(messageQueue, Numbers)
             /\ NoneOf(messageQueue, Tracks) => NoneOf(messageQueue', Tracks)
  <2>1. /\ \A T : Keeps(messageQueue, messageQueue', Messages, T)
        /\ UNCHANGED toClient /\ messageQueue \in Seq(Messages)
        /\ Head(messageQueue) \in Messages /\ Head(messageQueue).id \in ids
        /\ messageQueue' = Tail(messageQueue) /\ messageQueue # << >>
        /\ 1 \in DOMAIN messageQueue /\ messageQueue[1] = Head(messageQueue)
    BY <1>1, <1>2, TakesFront
  <2>2. Head(messageQueue) \notin Numbers /\ NoneOf(messageQueue', Numbers)
          => NoneOf(messageQueue, Numbers)
    BY <2>1, TailPlaces DEF NoneOf
  <2>3. NoneOf(messageQueue, Tracks) => NoneOf(messageQueue', Tracks)
    BY <2>1, KeptElements
  <2> QED
    BY <2>1, <2>2, <2>3 DEF Keeps
<1>3. ASSUME NEW ids, Takes(ids), "CREATE_MEETING_OK" \notin ids,
             UNCHANGED <<meetingId, sessionId, listener, srvRoom, streamWnd>>,
             Keeps(toServer, toServer', Requests, NumberReqs)
      PROVE  NumberInv'
  <2>1. Head(messageQueue) \notin Numbers
    BY <1>2, <1>3 DEF Numbers, OfIds
  <2>2. meetingId \in {NoRoom, sessionId'} \/ ~NoneOf(messageQueue', Numbers)
    BY <1>1, <1>2, <1>3, <2>1 DEF NumberShown
  <2>3. InWnd' => InWnd
    BY <1>2, <1>3 DEF InWnd
  <2> QED
    BY <1>1, <1>2, <1>3, <2>2, <2>3, NumberKept
<1>4. srvRoom' = srvRoom
  BY DEF UIStep
<1>5. CASE UpdateEnter \/ UpdateJoinMeetingOK \/ UpdateBookingOK
  <2>1. /\ \E ids : Takes(ids) /\ "CREATE_MEETING_OK" \notin ids
        /\ UNCHANGED <<engineVars, toServer, streamWnd, sessionId>>
    BY <1>5 DEF UpdateEnter, UpdateJoinMeetingOK, UpdateBookingOK, windows
  <2> QED
    BY <1>3, <1>4, <2>1 DEF engineVars, threadVars, Keeps
<1>6. CASE UpdateIsCreate
  <2>1. /\ Takes({"IS_CREATE"})
        /\ UNCHANGED <<meetingId, toServer, listener, streamWnd, sessionId>>
    BY <1>6 DEF UpdateIsCreate, createMeeting, StartCall, Dies, threadVars, windows
  <2> QED
    BY <1>3, <1>4, <2>1 DEF Keeps
<1>7. CASE UpdateIsBooking
  <2>1. Takes({"IS_BOOKING"})
    BY <1>7 DEF UpdateIsBooking
  <2> QED
    BY <1>1, <1>2, <2>1 DEF NoBooking, NoneOf, Bookings, OfIds
<1>8. CASE UpdateSetShare
  <2>1. /\ Takes({"SET_SHARE"}) /\ UNCHANGED <<meetingId, listener, streamWnd, sessionId>>
        /\ \E meth \in {"INFO30", "INFO31"} : Send(meth, meetingId, 0)
    BY <1>8 DEF UpdateSetShare, switchScreenShare, Dies, threadVars, windows
  <2>2. Keeps(toServer, toServer', Requests, NumberReqs)
    BY <1>1, <2>1, SendAdds DEF NumberReqs
  <2> QED
    BY <1>3, <1>4, <2>1, <2>2
<1>9. CASE UpdateAddTrack
  <2>1. /\ Takes({"ADD_TRACK"}) /\ UNCHANGED <<engineVars, toServer, sessionId>>
    BY <1>9 DEF UpdateAddTrack
  <2>2. InWnd /\ Head(messageQueue) \notin Numbers
    BY <1>2, <2>1 DEF InWnd, NoneOf, Tracks, Numbers, OfIds
  <2>3. meetingId \in {NoRoom, sessionId'} \/ ~NoneOf(messageQueue', Numbers)
    BY <1>1, <1>2, <2>1, <2>2 DEF NumberShown
  <2>4. UNCHANGED <<meetingId, listener, toServer>>
    BY <2>1 DEF engineVars, threadVars
  <2> QED
    BY <1>1, <1>2, <1>4, <2>1, <2>2, <2>3, <2>4, NumberKept DEF Keeps
<1>10. CASE UpdateCreateMeetingOK
  <2>1. /\ Takes({"CREATE_MEETING_OK"}) /\ UNCHANGED <<engineVars, toServer, streamWnd>>
        /\ sessionId' = Head(messageQueue).room
    BY <1>10 DEF UpdateCreateMeetingOK, windows
  <2>2. meetingId \in {NoRoom, sessionId'}
    BY <1>1, <1>2, <2>1 DEF NumberShown, Numbers, OfIds
  <2>3. UNCHANGED <<meetingId, listener, toServer>>
    BY <2>1 DEF engineVars, threadVars
  <2>4. InWnd' => InWnd
    BY <1>2, <2>1 DEF InWnd
  <2> QED
    BY <1>1, <1>2, <1>4, <2>1, <2>2, <2>3, <2>4, NumberKept DEF Keeps
<1> QED
  BY <1>5, <1>6, <1>7, <1>8, <1>9, <1>10 DEF UIStep, update

\* Joining changes meetingId, and the end of leaving does.
LEMMA NumberUI ==
  ASSUME NumberInv, PatientInv, UIStep, TypeOK'
  PROVE  NumberInv'
<1>1. /\ Alive /\ TypeOK /\ NoBooking /\ NumberShown /\ meetingId \in Ids
      /\ toServer \in Seq(Requests) /\ srvRoom' = srvRoom
  BY DEF UIStep, NumberInv, TypeOK, EngineTypeOK
<1>2. CASE UpdateIsJoin
  <2>1. /\ Takes({"IS_JOIN"}) /\ Send("QUERY", Head(messageQueue).room, 0)
        /\ UNCHANGED <<listener, streamWnd>>
        /\ meetingId' = Head(messageQueue).room /\ sessionId' = Head(messageQueue).room
    BY <1>2 DEF UpdateIsJoin, joinMeeting, threadVars, windows
  <2>2. /\ messageQueue # << >> /\ Head(messageQueue) = messageQueue[1] /\ UNCHANGED toClient
        /\ 1 \in DOMAIN messageQueue /\ Head(messageQueue) \in Messages
        /\ Head(messageQueue).id = "IS_JOIN" /\ messageQueue' = Tail(messageQueue)
    BY <1>1, <2>1, TakesFront
  <2>3. ~NoCall
    BY <2>2 DEF NoCall, NoneOf, AskMsgs
  <2>4. Requested /\ Alone
    BY <1>1, <2>2, <2>3 DEF PatientInv, Calling, Inquiring, Inviting, Answered
  <2>5. messageQueue' = << >>
    BY <2>2, <2>4 DEF Requested
  <2>6. Head(messageQueue).room \in Ids
    BY <2>2 DEF Messages
  <2> DEFINE q == Request("QUERY", Head(messageQueue).room, 0)
  <2>7. q \in Requests /\ q.meth = "QUERY" /\ toServer' = Append(toServer, q)
    BY <2>1, <2>6 DEF Request, Requests, Send
  <2> HIDE DEF q
  <2>8. toServer' = <<q>> /\ toClient' = << >>
    BY <2>2, <2>4, <2>7 DEF Requested
  <2>9. ~InWnd' /\ listener'.at # "answered"
    BY <2>1, <2>4, <2>5 DEF InWnd, Alone, NoneOf
  <2> QED
    BY <2>1, <2>5, <2>7, <2>8, <2>9
    DEF NumberInv, NoBooking, NumberShown, NumberCalled, NumberServed, NoneOf, OfMeths
<1>3. CASE UpdateMeetingEnd
  <2>1. /\ Takes({"MEETING_END"}) /\ Send("BYE", meetingId, 0) /\ ~streamWnd'
        /\ fault' # "none" \/ UNCHANGED <<meetingId, sessionId, listener>>
    BY <1>3 DEF UpdateMeetingEnd, exitMeeting, StopStats, Leaves, Dies
  <2>2. /\ messageQueue # << >> /\ Head(messageQueue) = messageQueue[1] /\ UNCHANGED toClient
        /\ 1 \in DOMAIN messageQueue /\ Head(messageQueue) \in Messages
        /\ Head(messageQueue).id = "MEETING_END" /\ messageQueue' = Tail(messageQueue)
        /\ messageQueue \in Seq(Messages)
        /\ \A T : Keeps(messageQueue, messageQueue', Messages, T)
    BY <1>1, <2>1, TakesFront
  <2>3. ~Calling
    BY <2>2 DEF Calling, Requested, Inquiring, Inviting, Answered, AskMsgs
  <2>4. NoCall
    BY <1>1, <2>3 DEF PatientInv
  <2>5. NoneOf(messageQueue, Tracks)
    BY <2>2, <2>4 DEF NoCall, NoneOf, Ends, OfIds
  <2>6. NoneOf(messageQueue', Tracks) /\ NoneOf(messageQueue', Bookings)
        /\ (NoneOf(messageQueue, Numbers) => NoneOf(messageQueue', Numbers))
        /\ \A i \in DOMAIN messageQueue' :
             messageQueue'[i] \in Numbers => \E j \in DOMAIN messageQueue :
                                              messageQueue[j] = messageQueue'[i]
    BY <1>1, <2>2, <2>5, KeptElements, KeptPlaces DEF NoBooking
  <2>7. NoneOf(toServer', OfMeths({"CREATE"})) /\ NoneOf(toServer', CallReqs)
    <3>1. Keeps(toServer, toServer', Requests, OfMeths({"CREATE"}))
      BY <1>1, <2>1, SendAdds
    <3>2. Keeps(toServer, toServer', Requests, CallReqs)
      BY <1>1, <2>1, SendKeeps
    <3> QED
      BY <1>1, <2>4, <3>1, <3>2, KeptElements DEF NoBooking, NoCall
  <2>8. NoBooking'
    BY <1>1, <2>2, <2>6, <2>7 DEF NoBooking
  <2>9. fault' # "none" \/ NumberShown'
    <3>1. Head(messageQueue) \notin Numbers
      BY <2>2 DEF Numbers, OfIds
    <3>2. NoneOf(messageQueue', Numbers) => NoneOf(messageQueue, Numbers)
      BY <2>2, <3>1, TailPlaces DEF NoneOf
    <3> QED
      BY <1>1, <2>1, <2>6, <3>2 DEF NumberShown
  <2>10. NumberServed'
    BY <2>1, <2>6 DEF NumberServed, InWnd
  <2>11. NumberCalled'
    <3>1. \A i \in DOMAIN toServer' : toServer'[i].meth # "INVITE"
      <4>1. \A i \in DOMAIN toServer' : toServer'[i] \in Requests
        BY DEF TypeOK, EngineTypeOK
      <4> QED
        BY <2>7, <4>1 DEF NoneOf, CallReqs
    <3>2. \A i \in DOMAIN toClient' : toClient'[i].cmeth # "INVITE"
      <4>1. \A i \in DOMAIN toClient : toClient[i] \in Responses
        BY <1>1 DEF TypeOK, EngineTypeOK
      <4> QED
        BY <2>2, <2>4, <4>1 DEF NoCall, NoneOf, CallResps, AnswersTo
    <3> QED
      BY <3>1, <3>2 DEF NumberCalled
  <2> QED
    BY <2>8, <2>9, <2>10, <2>11, NumberDead DEF NumberInv
<1>4. CASE ExitMeeting
  <2>1. /\ leaving # "no" /\ UNCHANGED <<toServer, toClient, messageQueue, sessionId>>
        /\ UNCHANGED <<streamWnd, listener>> /\ meetingId' \in {meetingId, NoRoom}
    BY <1>4
    DEF ExitMeeting, exitMeetingCloses, exitMeetingDrops, CloseDevices, DropConnection, Leaves,
        Dies, uiVars, windows, threadVars
  <2>2. NoCall /\ ~InWnd
    BY <1>1, <2>1, QuietNoCall DEF NoCall, PatientInv
  <2>3. NoBooking' /\ NumberShown' /\ NumberServed'
    BY <1>1, <2>1, <2>2 DEF NoBooking, NumberShown, NumberServed, InWnd
  <2>4. NumberCalled'
    <3>1. /\ \A i \in DOMAIN toServer : toServer[i] \in Requests
          /\ \A i \in DOMAIN toClient : toClient[i] \in Responses
      BY <1>1 DEF TypeOK, EngineTypeOK
    <3> QED
      BY <2>1, <2>2, <3>1 DEF NumberCalled, NoCall, NoneOf, CallReqs, CallResps, AnswersTo
  <2> QED
    BY <2>3, <2>4 DEF NumberInv
<1> QED
  BY <1>2, <1>3, <1>4, NumberUIRest

\* The offer is for the meeting in meetingId.
LEMMA NumberSignaling ==
  ASSUME NumberInv, PatientInv, SignalingStep, TypeOK'
  PROVE  NumberInv'
<1>1. /\ Alive /\ TypeOK /\ offering # 0 /\ NumberShown
      /\ UNCHANGED <<meetingId, sessionId, listener, streamWnd, srvRoom, messageQueue, toClient>>
  BY DEF SignalingStep, NumberInv, OnSuccess, OnFailure, threadVars, uiVars, windows
<1>2. CASE OnFailure
  <2>1. UNCHANGED toServer
    BY <1>2 DEF OnFailure
  <2>2. InWnd' => InWnd
    BY <1>1 DEF InWnd
  <2> QED
    BY <1>1, <2>1, <2>2, NumberKept DEF NumberShown, Keeps
<1>3. CASE OnSuccess
  <2>1. Inviting /\ Alone
    BY <1>1 DEF PatientInv, NoCall, Calling, Requested, Inquiring, Answered
  <2>2. toServer = << >> /\ toClient = << >> /\ messageQueue = << >>
    BY <1>1, <2>1 DEF Inviting
  <2> DEFINE q == Request("INVITE", meetingId, offering)
  <2>3. q \in Requests /\ q.meth = "INVITE" /\ q.to = meetingId
    BY <1>1 DEF Request, Requests, TypeOK, EngineTypeOK
  <2>4. toServer' = Append(toServer, q)
    BY <1>3 DEF OnSuccess, Send
  <2> HIDE DEF q
  <2>5. toServer' = <<q>>
    BY <2>2, <2>3, <2>4
  <2>6. ~InWnd'
    BY <1>1, <2>1, <2>2 DEF InWnd, Alone, NoneOf
  <2> QED
    BY <1>1, <2>2, <2>3, <2>5, <2>6
    DEF NumberInv, NoBooking, NumberShown, NumberCalled, NumberServed, NoneOf, OfMeths
<1> QED
  BY <1>2, <1>3 DEF SignalingStep

\* The response that ends a call is the last thing under way.
LEMMA CallEnds ==
  ASSUME PatientInv, Alive, NEW code \in FinalCodes, NEW cmeth \in {"QUERY", "INVITE"},
         Receive(code, cmeth)
  PROVE  /\ Alone /\ messageQueue = << >> /\ toServer = << >> /\ toClient' = << >>
         /\ 1 \in DOMAIN toClient /\ Head(toClient) = toClient[1]
         /\ toClient[1].code = code /\ toClient[1].cmeth = cmeth
<1>1. TypeOK /\ toClient \in Seq(Responses)
  BY DEF PatientInv, TypeOK, EngineTypeOK
<1>2. /\ toClient # << >> /\ toClient' = Tail(toClient) /\ Head(toClient) = toClient[1]
      /\ 1 \in DOMAIN toClient /\ toClient[1] \in Responses
      /\ toClient[1].code = code /\ toClient[1].cmeth = cmeth
  BY <1>1, ReceivesFront
<1>3. ~NoCall
  BY <1>2 DEF NoCall, NoneOf, CallResps, AnswersTo
<1>4. Alone /\ (Inquiring \/ Answered)
  BY <1>2, <1>3 DEF PatientInv, Calling, Requested, Inviting
<1>5. CASE Inquiring
  <2>1. PICK r : toClient = <<r>>
    BY <1>2, <1>5 DEF Inquiring
  <2>2. Tail(toClient) = << >>
    BY <2>1
  <2> QED
    BY <1>2, <1>4, <1>5, <2>2 DEF Inquiring
<1>6. CASE Answered
  <2>1. 1 = Len(toClient)
    BY <1>2, <1>6 DEF Answered
  <2>2. Tail(toClient) = << >>
    BY <1>1, <2>1
  <2> QED
    BY <1>2, <1>4, <1>6, <2>2 DEF Answered
<1> QED
  BY <1>4, <1>5, <1>6

\* Nothing is under way but perhaps a track.
LEMMA NumberSettles ==
  ASSUME TypeOK', toServer' = << >>, toClient' = << >>,
         messageQueue' = << >> \/ \E m \in Tracks : messageQueue' = <<m>>,
         meetingId' \in {NoRoom, sessionId'}, NumberServed'
  PROVE  NumberInv'
<1>1. CASE messageQueue' = << >>
  BY <1>1 DEF NumberInv, NoBooking, NumberShown, NumberCalled, NoneOf
<1>2. ASSUME NEW m \in Tracks, messageQueue' = <<m>> PROVE NumberInv'
  <2>1. m \notin Numbers /\ m \notin Bookings
    BY <1>2 DEF Tracks, Numbers, Bookings, OfIds
  <2> QED
    BY <1>2, <2>1 DEF NumberInv, NoBooking, NumberShown, NumberCalled, NoneOf
<1> QED
  BY <1>1, <1>2

\* The listener thread takes the answer, stores the number and reports it.
LEMMA NumberListener ==
  ASSUME NumberInv, PatientInv, EngineStep, TypeOK'
  PROVE  NumberInv'
<1>1. /\ Alive /\ TypeOK /\ NumberShown /\ NoBooking /\ NumberCalled /\ NumberServed
      /\ ListenerStep /\ UNCHANGED <<sessionId, streamWnd, srvRoom>>
      /\ messageQueue \in Seq(Messages) /\ toClient \in Seq(Responses)
  BY DEF EngineStep, NumberInv, uiVars, windows, TypeOK, EngineTypeOK
<1>2. CASE onTrying \/ onRinging \/ onOKQuery \/ OnStarted \/ onOKInfo31 \/ onOKInfo30
           \/ onUnauthorizedBye \/ onCancelDrops
  <2>1. /\ UNCHANGED <<meetingId, messageQueue, toServer>>
        /\ listener' = listener \/ (listener.at # "answered" /\ listener'.at # "answered")
    BY <1>2 DEF onTrying, onRinging, onOKQuery, OnStarted, onOKInfo31, onOKInfo30, Listens,
                onUnauthorizedBye, onCancelDrops, StartCall, Dies, engineVars, threadVars
  <2>2. Keeps(toClient, toClient', Responses, NumberResps)
    <3>1. (\E code, cmeth : Receive(code, cmeth)) \/ UNCHANGED toClient
      BY <1>2 DEF onTrying, onRinging, onOKQuery, OnStarted, onOKInfo31, onOKInfo30,
                  onUnauthorizedBye, onCancelDrops
    <3> QED
      BY <1>1, <3>1, ReceivesFront DEF Keeps
  <2>3. InWnd' => InWnd
    BY <1>1, <2>1 DEF InWnd
  <2> QED
    BY <1>1, <2>1, <2>2, <2>3, NumberKept DEF Keeps, NumberShown
\* A final response that takes no call.
<1>3. CASE onUnauthorizedInvite \/ onCancelInvite \/ onCancelQuery
  <2>1. /\ \E code \in FinalCodes, cmeth \in {"QUERY", "INVITE"} : Receive(code, cmeth)
        /\ UNCHANGED <<messageQueue, toServer>>
        /\ fault' # "none" \/ meetingId' = NoRoom
    BY <1>3 DEF onUnauthorizedInvite, onCancelInvite, onCancelQuery, FinalCodes, Dies
  <2>2. ~streamWnd' /\ messageQueue' = << >> /\ toServer' = << >> /\ toClient' = << >>
    BY <1>1, <2>1, CallEnds DEF Alone
  <2>3. NumberServed'
    BY <2>2 DEF NumberServed, InWnd, NoneOf
  <2> QED
    BY <2>1, <2>2, <2>3, NumberDead, NumberSettles
<1>4. CASE onOKInvite
  <2>1. /\ Receive("200", "INVITE") /\ UNCHANGED <<toServer, meetingId>>
        /\ \/ fault' # "none"
           \/ /\ listener' = [at |-> "answered", room |-> Head(toClient).room]
              /\ Post(<<Msg("ADD_TRACK", NoRoom)>>) \/ UNCHANGED messageQueue
    BY <1>4 DEF onOKInvite, Dies
  <2>2. /\ Alone /\ messageQueue = << >> /\ toServer = << >> /\ toClient' = << >>
        /\ 1 \in DOMAIN toClient /\ Head(toClient) = toClient[1]
        /\ toClient[1].code = "200" /\ toClient[1].cmeth = "INVITE"
    BY <1>1, <2>1, CallEnds DEF FinalCodes
  <2>3. Msg("ADD_TRACK", NoRoom) \in Tracks
    BY MsgType DEF Tracks, OfIds, Msg, Ids
  <2>4. fault' # "none" \/ messageQueue' = << >> \/ \E m \in Tracks : messageQueue' = <<m>>
    BY <2>1, <2>2, <2>3 DEF Post
  <2>5. /\ toClient[1].room = srvRoom /\ srvRoom \in Rooms /\ meetingId \in {NoRoom, srvRoom}
        /\ meetingId \in {NoRoom, sessionId}
    BY <1>1, <2>2 DEF NumberCalled, NumberShown, NoneOf
  <2>6. fault' # "none" \/ NumberServed'
    BY <1>1, <2>1, <2>2, <2>5 DEF NumberServed, NoneOf
  <2> QED
    BY <1>1, <2>1, <2>2, <2>4, <2>5, <2>6, NumberDead, NumberSettles
<1>5. CASE OnJoined
  <2>1. /\ listener.at = "answered" /\ listener'.at = "joined" /\ UNCHANGED <<toServer, toClient>>
        /\ meetingId' = IF meetingId = NoRoom THEN listener.room ELSE meetingId
    BY <1>5 DEF OnJoined, TypeOK, EngineTypeOK
  <2>2. PICK r \in Seq(Messages) :
          /\ messageQueue' = messageQueue \o r
          /\ \A i \in DOMAIN r : r[i].id \in {"CREATE_MEETING_OK", "JOIN_MEETING_OK"}
          /\ \A i \in DOMAIN r :
               r[i].id = "CREATE_MEETING_OK" => r[i].room = listener.room /\ meetingId = NoRoom
          /\ meetingId = NoRoom => \E i \in DOMAIN r : r[i].id = "CREATE_MEETING_OK"
    BY <1>1, <1>5, JoinedPosts
  <2>3. \A i \in DOMAIN messageQueue' :
          \/ i \in DOMAIN messageQueue /\ messageQueue'[i] = messageQueue[i]
          \/ \E j \in DOMAIN r : messageQueue'[i] = r[j]
    BY <1>1, <2>2, ConcatPlaces
  <2>4. NoneOf(messageQueue, Numbers)
    BY <1>1, <2>1 DEF NumberShown
  <2>5. \A i \in DOMAIN messageQueue' :
          messageQueue'[i] \in Numbers => meetingId' = messageQueue'[i].room
    BY <2>1, <2>2, <2>3, <2>4 DEF NoneOf, Numbers, OfIds
  <2>6. meetingId = NoRoom => ~NoneOf(messageQueue', Numbers)
    <3> SUFFICES ASSUME meetingId = NoRoom PROVE ~NoneOf(messageQueue', Numbers)
      OBVIOUS
    <3>1. PICK i \in DOMAIN r : r[i] \in Numbers
      BY <2>2 DEF Numbers, OfIds
    <3>2. i + Len(messageQueue) \in DOMAIN messageQueue'
          /\ messageQueue'[i + Len(messageQueue)] = r[i]
      BY <1>1, <2>2, Appended
    <3> QED
      BY <3>1, <3>2 DEF NoneOf
  <2>7. NumberShown'
    BY <1>1, <2>1, <2>4, <2>5, <2>6 DEF NumberShown
  <2>8. NoneOf(r, Bookings) /\ NoneOf(r, Tracks)
    BY <2>2 DEF NoneOf, Bookings, Tracks, OfIds
  <2>9. /\ NoneOf(messageQueue', Bookings)
        /\ NoneOf(messageQueue, Tracks) => NoneOf(messageQueue', Tracks)
    <3>1. /\ Keeps(messageQueue, messageQueue', Messages, Bookings)
          /\ Keeps(messageQueue, messageQueue', Messages, Tracks)
      BY <2>2, <2>8 DEF Keeps
    <3> QED
      BY <1>1, <3>1, KeptElements DEF NoBooking
  <2>10. NoBooking'
    BY <1>1, <2>1, <2>9 DEF NoBooking
  <2>11. NumberServed'
    BY <1>1, <2>1, <2>9, IdsAssumption DEF NumberServed, InWnd
  <2>12. NoCall
    BY <1>1, <2>1 DEF PatientInv, Calling, Alone
  <2>13. NumberCalled'
    <3>1. /\ \A i \in DOMAIN toServer : toServer[i] \in Requests
          /\ \A i \in DOMAIN toClient : toClient[i] \in Responses
      BY <1>1 DEF TypeOK, EngineTypeOK
    <3> QED
      BY <2>1, <2>12, <3>1
      DEF NumberCalled, NoCall, NoneOf, CallReqs, CallResps, AnswersTo
  <2> QED
    BY <2>7, <2>10, <2>11, <2>13 DEF NumberInv
\* Only when nobody is in the window is a BYE answered.
<1>6. CASE onOKBye
  <2>1. /\ Receive("200", "BYE") /\ meetingId' = NoRoom
        /\ UNCHANGED <<listener, toServer, messageQueue>>
    BY <1>6 DEF onOKBye, threadVars
  <2>2. /\ Head(toClient) \in Responses /\ Head(toClient).cmeth = "BYE"
        /\ 1 \in DOMAIN toClient /\ toClient[1] = Head(toClient)
        /\ \A T : Keeps(toClient, toClient', Responses, T)
    BY <1>1, <2>1, ReceivesFront
  <2>3. NoCall
    BY <1>1, <2>2 DEF PatientInv, Calling, Requested, Inquiring, Inviting, Answered
  <2>4. ~InWnd
    BY <1>1, <2>2 DEF NumberServed, NoneOf, ByeResps, AnswersTo
  <2>5. NoBooking' /\ NoneOf(toClient', CallResps)
    BY <1>1, <2>1, <2>2, <2>3, KeptElements DEF NoBooking, NoCall
  <2>6. NumberServed' /\ NumberShown'
    BY <1>1, <2>1, <2>4 DEF NumberServed, InWnd, NumberShown
  <2>7. NumberCalled'
    <3>1. /\ \A i \in DOMAIN toServer : toServer[i] \in Requests
          /\ \A i \in DOMAIN toClient' : toClient'[i] \in Responses
      BY <1>1 DEF TypeOK, EngineTypeOK
    <3> QED
      BY <2>1, <2>3, <2>5, <3>1
      DEF NumberCalled, NoCall, NoneOf, CallReqs, CallResps, AnswersTo
  <2> QED
    BY <2>5, <2>6, <2>7 DEF NumberInv
<1>7. CASE onOKCreate \/ onOKClose
  <2>1. Receive("200", "CREATE") \/ Receive("200", "CLOSE")
    BY <1>7 DEF onOKCreate, onOKClose
  <2> QED
    BY <1>1, <2>1, ReceivesFront
    DEF PatientInv, NotClosed, NoBooking, NoneOf, AnswersTo, CloseResps
<1>8. CASE onCloseCloses \/ onCloseDrops
  BY <1>1, <1>8 DEF onCloseCloses, onCloseDrops, PatientInv, NotClosed
<1> QED
  BY <1>1, <1>2, <1>3, <1>4, <1>5, <1>6, <1>7, <1>8 DEF ListenerStep

\* The server lets the client in and out.
LEMMA NumberServer ==
  ASSUME NumberInv, PatientInv, Serve, TypeOK'
  PROVE  NumberInv'
<1>1. /\ Alive /\ TypeOK /\ NumberShown /\ NoBooking /\ NumberCalled /\ NumberServed /\ ServerStep
      /\ toServer \in Seq(Requests) /\ toClient \in Seq(Responses)
  BY DEF Serve, NumberInv, TypeOK, EngineTypeOK
<1>2. /\ 1 \in DOMAIN toServer /\ Head(toServer) = toServer[1] /\ Head(toServer) \in Requests
      /\ toServer' = Tail(toServer) /\ \A T : Keeps(toServer, toServer', Requests, T)
      /\ UNCHANGED <<messageQueue, listener, meetingId, sessionId, streamWnd>>
      /\ InWnd' <=> InWnd
      /\ \A T : Keeps(messageQueue, messageQueue', Messages, T)
      /\ \A meths : Head(toServer).meth \notin meths
           => Keeps(toClient, toClient', Responses, AnswersTo(meths))
  BY <1>1, ServerAnswers DEF Serve, uiVars, windows, engineVars, threadVars, InWnd, Keeps
<1>3. CASE ServeQuery \/ ServeInfo
  <2>1. Head(toServer).meth \notin {"CREATE", "INVITE", "BYE"} /\ UNCHANGED srvRoom
    BY <1>3 DEF ServeQuery, ServeInfo, Asked
  <2>2. Keeps(toClient, toClient', Responses, NumberResps)
    BY <1>2, <2>1 DEF NumberResps
  <2> QED
    BY <1>1, <1>2, <2>1, <2>2, NumberKept DEF NumberShown
<1>4. CASE ServeCreate
  BY <1>1, <1>2, <1>4 DEF ServeCreate, Asked, NoBooking, NoneOf, OfMeths
<1>5. CASE ServeBye
  <2>1. Head(toServer).meth = "BYE"
    BY <1>5 DEF ServeBye, Asked
  <2>2. ~InWnd
    BY <1>1, <1>2, <2>1 DEF NumberServed, NoneOf, Byes, OfMeths
  <2>3. NoCall
    BY <1>1, <1>2, <2>1 DEF PatientInv, Calling, Requested, Inquiring, Inviting, Answered
  <2>4. /\ Keeps(toClient, toClient', Responses, CallResps)
        /\ Keeps(toClient, toClient', Responses, AnswersTo({"CREATE"}))
    BY <1>2, <2>1 DEF CallResps
  <2>5. /\ NoneOf(toClient', CallResps) /\ NoneOf(toClient', AnswersTo({"CREATE"}))
        /\ NoneOf(toServer', CallReqs) /\ NoneOf(toServer', OfMeths({"CREATE"}))
    BY <1>1, <1>2, <2>3, <2>4, KeptElements DEF NoCall, NoBooking
  <2>6. NumberShown' /\ NumberServed' /\ NoBooking'
    BY <1>1, <1>2, <2>2, <2>5 DEF NumberShown, NumberServed, NoBooking
  <2>7. NumberCalled'
    <3>1. /\ \A i \in DOMAIN toServer' : toServer'[i] \in Requests
          /\ \A i \in DOMAIN toClient' : toClient'[i] \in Responses
      BY DEF TypeOK, EngineTypeOK
    <3> QED
      BY <2>5, <3>1 DEF NumberCalled, NoneOf, CallReqs, CallResps, AnswersTo
  <2> QED
    BY <2>6, <2>7 DEF NumberInv
<1>6. CASE ServeInvite
  <2>1. Head(toServer).meth = "INVITE" /\ Head(toServer).to = meetingId
        /\ Head(toServer).sdp \in Nat
    BY <1>1, <1>2, <1>6 DEF ServeInvite, Asked, NumberCalled, Requests
  <2>2. ~NoCall
    BY <1>2, <2>1 DEF NoCall, NoneOf, CallReqs
  <2>3. Calling
    BY <1>1, <2>2 DEF PatientInv
  <2>4. Alone /\ toClient = << >> /\ messageQueue = << >> /\ \E q : toServer = <<q>>
    BY <1>2, <2>1, <2>3 DEF Calling, Requested, Inquiring, Inviting, Answered
  <2>5. toServer' = << >>
    BY <1>2, <2>4
  <2>6. ~InWnd'
    BY <1>1, <1>2, <2>3, CallOutside
  <2>7. PICK any \in Rooms : TRUE
    BY IdsAssumption
  <2>8. \E rs, m : /\ EndsLast(rs, m) /\ Answers(rs)
                   /\ \/ m \in Rooms /\ srvRoom' = m /\ meetingId \in {NoRoom, m}
                      \/ m = NoRoom /\ EndsLast(rs, any)
    <3>1. NoRoom \in Ids /\ any \in Ids
      BY DEF Ids
    <3> QED
      BY <1>6, <2>1, <2>7, <3>1, InviteEndsLast DEF ServeInvite
  <2>9. PICK rs, m : /\ EndsLast(rs, m) /\ Answers(rs)
                     /\ \/ m \in Rooms /\ srvRoom' = m /\ meetingId \in {NoRoom, m}
                        \/ m = NoRoom /\ EndsLast(rs, any)
    BY <2>8
  <2>10. toClient' = rs
    BY <2>4, <2>9 DEF Answers, EndsLast
  <2>11. NumberCalled'
    BY <1>2, <2>5, <2>7, <2>9, <2>10, IdsAssumption DEF NumberCalled, EndsLast
  <2>12. NoBooking'
    BY <1>1, <1>2, <2>5, <2>9, <2>10 DEF NoBooking, NoneOf, AnswersTo, EndsLast
  <2>13. NumberShown'
    BY <1>1, <1>2 DEF NumberShown
  <2> QED
    BY <2>6, <2>11, <2>12, <2>13 DEF NumberInv, NumberServed
<1> QED
  BY <1>1, <1>3, <1>4, <1>5, <1>6 DEF ServerStep

LEMMA NumberStutter ==
  ASSUME NumberInv, UNCHANGED vars, TypeOK'
  PROVE  NumberInv'
BY DEF NumberInv, vars, vars0, engineVars, threadVars, uiVars, windows, Alive, InWnd,
       NoBooking, NumberShown, NumberCalled, NumberServed

\* The number in the meeting window is the number of the meeting whenever all is quiet,
\* for every patient user who books nothing, whether the meeting was created or joined,
\* over refused, cancelled and failed calls and early leaves, as long as nobody else ends
\* the meeting.
THEOREM NumberIsShown ==
  ASSUME "close" \notin Env, "book" \notin Env, "browse" \notin Env, "retry" \notin Env
  PROVE  Spec => []ShownNumber
<1>1. Init => NumberInv
  <2> SUFFICES ASSUME Init PROVE NumberInv
    OBVIOUS
  <2>1. TypeOK
    BY InitType
  <2>2. /\ ~streamWnd /\ meetingId = NoRoom
        /\ toServer = << >> /\ toClient = << >> /\ messageQueue = << >>
    BY DEF Init, EngineInit, UIInit
  <2> QED
    BY <2>1, <2>2
    DEF NumberInv, NoBooking, NumberShown, NumberCalled, NumberServed, InWnd, NoneOf
<1>2. NumberInv /\ PatientInv /\ [Next]_vars => NumberInv'
  <2> SUFFICES ASSUME NumberInv, PatientInv, [Next]_vars PROVE NumberInv'
    OBVIOUS
  <2>1. TypeOK'
    BY NextType DEF NumberInv
  <2>2. CASE UserStep
    BY <2>1, <2>2, NumberUser
  <2>3. CASE UIStep
    BY <2>1, <2>3, NumberUI
  <2>4. CASE SignalingStep
    BY <2>1, <2>4, NumberSignaling
  <2>5. CASE EngineStep
    BY <2>1, <2>5, NumberListener
  <2>6. CASE Serve
    BY <2>1, <2>6, NumberServer
  <2>7. CASE UNCHANGED vars
    BY <2>1, <2>7, NumberStutter
  <2> QED
    BY <2>2, <2>3, <2>4, <2>5, <2>6, <2>7 DEF Next, Close, HostCloses
<1>3. NumberInv => ShownNumber
  <2> SUFFICES ASSUME NumberInv, Alive, Quiet, streamWnd PROVE sessionId = srvRoom
    BY DEF ShownNumber
  <2>1. meetingId = srvRoom /\ srvRoom \in Rooms
    BY DEF NumberInv, NumberServed, InWnd, Quiet
  <2>2. meetingId \in {NoRoom, sessionId}
    BY DEF NumberInv, NumberShown, Quiet, NoneOf
  <2> QED
    BY <2>1, <2>2, IdsAssumption
<1>4. Spec => []PatientInv
  BY PatientInvariance
<1> QED
  BY <1>1, <1>2, <1>3, <1>4, PTL DEF Spec

-----------------------------------------------------------------------------
(* One call at a time, for a user who waits before browsing and before       *)
(* asking, and whom the server neither refuses nor cancels: meetings that    *)
(* someone else ends, early leaves, bookings and wrong numbers included.     *)
(* First, no wrong number is ever invited: the QUERY stops it.               *)

\* What stays in a queue when something else is taken from it, or added.
LEMMA StillThere ==
  ASSUME NEW S, NEW T, NEW q \in Seq(S)
  PROVE  /\ (q # << >> /\ Head(q) \notin T /\ NoneOf(Tail(q), T)) => NoneOf(q, T)
         /\ \A r \in Seq(S) : NoneOf(q \o r, T) => NoneOf(q, T) /\ NoneOf(r, T)
<1>1. ASSUME q # << >>, Head(q) \notin T, NoneOf(Tail(q), T) PROVE NoneOf(q, T)
  <2> SUFFICES ASSUME NEW i \in DOMAIN q, q[i] \in T PROVE FALSE
    BY DEF NoneOf
  <2>1. i # 1
    BY <1>1, TailPlaces
  <2>2. i - 1 \in DOMAIN Tail(q) /\ Tail(q)[i - 1] = q[i]
    BY <1>1, <2>1, TailPlaces
  <2> QED
    BY <1>1, <2>2 DEF NoneOf
<1>2. ASSUME NEW r \in Seq(S), NoneOf(q \o r, T) PROVE NoneOf(q, T) /\ NoneOf(r, T)
  <2>1. /\ \A i \in DOMAIN q : i \in DOMAIN (q \o r) /\ (q \o r)[i] = q[i]
        /\ \A i \in DOMAIN r : i + Len(q) \in DOMAIN (q \o r) /\ (q \o r)[i + Len(q)] = r[i]
    BY ConcatPlaces
  <2> QED
    BY <1>2, <2>1 DEF NoneOf
<1> QED
  BY <1>1, <1>2

Queries == OfMeths({"QUERY"})
QueryResps == AnswersTo({"QUERY"})
Invites == OfMeths({"INVITE"})

\* The server is being asked whether there is such a meeting.
QueryOpen == ~NoneOf(toServer, Queries) \/ ~NoneOf(toClient, QueryResps)

\* Only while the server is asked may meetingId be a wrong number: one that is being
\* asked for, and to which it will not say yes.
GoodNumbers ==
  /\ meetingId \in BadIds => QueryOpen
  /\ \A i \in DOMAIN toServer :
       /\ toServer[i].meth = "QUERY" /\ toServer[i].to \in Rooms => meetingId \notin BadIds
       /\ toServer[i].meth = "INVITE" => toServer[i].to \notin BadIds
  /\ \A i \in DOMAIN toClient :
       /\ toClient[i].cmeth = "QUERY" /\ toClient[i].code = "200" => meetingId \notin BadIds
       /\ toClient[i].cmeth \in {"INVITE", "CREATE"} /\ toClient[i].code = "200"
            => toClient[i].room \notin BadIds
  /\ listener.room \notin BadIds

\* A request that is no part of a call, or none.
LEMMA GoodSends ==
  ASSUME TypeOK, GoodNumbers, UNCHANGED toClient, meetingId' \in {meetingId, NoRoom},
         listener'.room \in {listener.room, NoRoom},
         \/ UNCHANGED toServer
         \/ \E meth \in {"BYE", "CREATE", "INFO30", "INFO31"}, to \in Ids : Send(meth, to, 0)
  PROVE  GoodNumbers'
<1>1. NoRoom \notin BadIds /\ toServer \in Seq(Requests)
  BY IdsAssumption DEF TypeOK, EngineTypeOK
<1>2. CASE UNCHANGED toServer
  BY <1>1, <1>2 DEF GoodNumbers, QueryOpen
<1>3. ASSUME NEW meth \in {"BYE", "CREATE", "INFO30", "INFO31"}, NEW to \in Ids, Send(meth, to, 0)
      PROVE  GoodNumbers'
  <2> DEFINE q == Request(meth, to, 0)
  <2>1. q \in Requests /\ q.meth = meth /\ toServer' = toServer \o <<q>>
    BY <1>1, <1>3 DEF Request, Requests, Send
  <2> HIDE DEF q
  <2>2. <<q>> \in Seq(Requests) /\ \A i \in DOMAIN <<q>> : <<q>>[i] = q
    BY <2>1
  <2>3. \A i \in DOMAIN toServer' :
          (i \in DOMAIN toServer /\ toServer'[i] = toServer[i]) \/ toServer'[i] = q
    BY <1>1, <2>1, <2>2, ConcatPlaces
  <2>4. NoneOf(toServer', Queries) => NoneOf(toServer, Queries)
    BY <1>1, <2>1, <2>2, StillThere
  <2> QED
    BY <1>1, <1>3, <2>1, <2>3, <2>4 DEF GoodNumbers, QueryOpen
<1> QED
  BY <1>2, <1>3

\* A response is taken that leaves no wrong number when it settles a QUERY.
LEMMA GoodReceives ==
  ASSUME TypeOK, TypeOK', GoodNumbers, NEW code, NEW cmeth, Receive(code, cmeth), UNCHANGED toServer,
         meetingId' = meetingId \/ meetingId' \notin BadIds,
         cmeth = "QUERY" => meetingId' \notin BadIds, listener'.room \notin BadIds
  PROVE  GoodNumbers'
<1>1. /\ toClient \in Seq(Responses) /\ toClient # << >> /\ toClient' = Tail(toClient)
      /\ Head(toClient) \in Responses /\ Head(toClient).cmeth = cmeth
  BY ReceivesFront
<1>2. \A i \in DOMAIN toClient' : i + 1 \in DOMAIN toClient /\ toClient'[i] = toClient[i + 1]
  BY <1>1, TailPlaces
<1>3. cmeth # "QUERY" /\ NoneOf(toClient', QueryResps) => NoneOf(toClient, QueryResps)
  <2>1. cmeth # "QUERY" => Head(toClient) \notin QueryResps
    BY <1>1 DEF QueryResps, AnswersTo
  <2> QED
    BY <1>1, <2>1, StillThere
<1> QED
  BY <1>2, <1>3 DEF GoodNumbers, QueryOpen

\* The messages: the one that asks to join brings the number with the QUERY.
LEMMA GoodUI ==
  ASSUME CInv, GoodNumbers, UIStep, TypeOK'
  PROVE  GoodNumbers'
<1>1. Alive /\ TypeOK /\ OneCall /\ meetingId \in Ids /\ NoRoom \in Ids
  BY DEF UIStep, CInv, TypeOK, EngineTypeOK, Ids
<1>2. CASE UpdateEnter \/ UpdateAddTrack \/ UpdateCreateMeetingOK \/ UpdateJoinMeetingOK
           \/ UpdateBookingOK \/ UpdateIsCreate
  <2>1. UNCHANGED <<toClient, toServer, meetingId, listener>>
    BY <1>2 DEF UpdateEnter, UpdateAddTrack, UpdateCreateMeetingOK, UpdateJoinMeetingOK,
                UpdateBookingOK, UpdateIsCreate, createMeeting, StartCall, Dies, Takes, engineVars, threadVars
  <2> QED
    BY <1>1, <2>1, GoodSends
<1>3. CASE UpdateIsBooking \/ UpdateMeetingEnd \/ UpdateSetShare
  <2>1. /\ UNCHANGED <<toClient, listener>> /\ meetingId' \in {meetingId, NoRoom}
        /\ \E meth \in {"BYE", "CREATE", "INFO30", "INFO31"}, to \in Ids : Send(meth, to, 0)
    BY <1>1, <1>3
    DEF UpdateIsBooking, UpdateMeetingEnd, UpdateSetShare, scheduleMeeting, exitMeeting, StopStats, Leaves,
        switchScreenShare, Dies, Takes, engineVars, threadVars
  <2> QED
    BY <1>1, <2>1, GoodSends
<1>4. CASE UpdateIsJoin
  <2>1. /\ messageQueue # << >> /\ 1 \in DOMAIN messageQueue /\ messageQueue[1] = Head(messageQueue)
        /\ Head(messageQueue) \in Messages /\ Head(messageQueue).id = "IS_JOIN" /\ UNCHANGED toClient
    BY <1>1, <1>4, TakesFront DEF UpdateIsJoin
  <2>2. /\ Send("QUERY", Head(messageQueue).room, 0) /\ meetingId' = Head(messageQueue).room
        /\ UNCHANGED listener
    BY <1>4 DEF UpdateIsJoin, joinMeeting, threadVars
  <2>3. ~NoneOf(messageQueue, AskMsgs)
    BY <2>1 DEF NoneOf, AskMsgs
  <2>4. NoneOf(toServer, CallReqs) /\ NoneOf(toClient, Finals)
    BY <1>1, <2>3 DEF OneCall
  <2> DEFINE q == Request("QUERY", Head(messageQueue).room, 0)
  <2>5. q \in Requests /\ q.meth = "QUERY" /\ q.to = meetingId' /\ toServer' = toServer \o <<q>>
        /\ toServer \in Seq(Requests)
    BY <1>1, <2>1, <2>2 DEF Request, Requests, Send, Messages, TypeOK, EngineTypeOK
  <2> HIDE DEF q
  <2>6. <<q>> \in Seq(Requests) /\ (\A i \in DOMAIN <<q>> : <<q>>[i] = q) /\ 1 \in DOMAIN <<q>>
    BY <2>5
  <2>7. \A i \in DOMAIN toServer' :
          (i \in DOMAIN toServer /\ toServer'[i] = toServer[i]) \/ toServer'[i] = q
    BY <2>5, <2>6, ConcatPlaces
  <2>8. QueryOpen'
    <3>1. ~NoneOf(<<q>>, Queries)
      BY <2>5, <2>6 DEF NoneOf, Queries, OfMeths
    <3> QED
      BY <2>5, <2>6, <3>1, StillThere DEF QueryOpen
  <2>9. /\ \A i \in DOMAIN toServer : toServer[i] \in Requests /\ toServer[i] \notin CallReqs
        /\ \A i \in DOMAIN toClient : toClient[i] \in Responses /\ toClient[i] \notin Finals
    BY <1>1, <2>4 DEF NoneOf, TypeOK, EngineTypeOK
  <2>10. \A i \in DOMAIN toServer : toServer[i].meth \notin {"QUERY", "INVITE"}
    BY <2>9 DEF CallReqs
  <2>11. \A i \in DOMAIN toClient : toClient[i].cmeth # "QUERY"
    BY <2>9 DEF Finals
  <2> QED
    BY <2>1, <2>2, <2>5, <2>7, <2>8, <2>10, <2>11, IdsAssumption DEF GoodNumbers
<1>5. CASE ExitMeeting
  <2>1. UNCHANGED <<toClient, toServer, listener>> /\ meetingId' \in {meetingId, NoRoom}
    BY <1>5
    DEF ExitMeeting, exitMeetingCloses, exitMeetingDrops, CloseDevices, DropConnection, Leaves,
        Dies, threadVars
  <2> QED
    BY <1>1, <2>1, GoodSends
<1> QED
  BY <1>2, <1>3, <1>4, <1>5 DEF UIStep, update

\* The offer is made when no QUERY is under way.
LEMMA GoodSignaling ==
  ASSUME CInv, GoodNumbers, SignalingStep, TypeOK'
  PROVE  GoodNumbers'
<1>1. /\ Alive /\ TypeOK /\ OneCall /\ offering # 0
      /\ UNCHANGED <<toClient, meetingId, listener>>
  BY DEF SignalingStep, CInv, OnSuccess, OnFailure, threadVars
<1>2. CASE OnFailure
  <2>1. UNCHANGED toServer
    BY <1>2 DEF OnFailure
  <2> QED
    BY <1>1, <2>1, GoodSends
<1>3. CASE OnSuccess
  <2>1. NoneOf(toServer, CallReqs) /\ NoneOf(toClient, Finals)
    BY <1>1 DEF OneCall
  <2>2. /\ \A i \in DOMAIN toServer : toServer[i] \in Requests /\ toServer[i] \notin CallReqs
        /\ \A i \in DOMAIN toClient : toClient[i] \in Responses /\ toClient[i] \notin Finals
    BY <1>1, <2>1 DEF NoneOf, TypeOK, EngineTypeOK
  <2>3. ~QueryOpen
    BY <2>2 DEF QueryOpen, NoneOf, Queries, QueryResps, OfMeths, AnswersTo, CallReqs, Finals
  <2> DEFINE q == Request("INVITE", meetingId, offering)
  <2>4. q \in Requests /\ q.meth = "INVITE" /\ q.to = meetingId /\ toServer' = toServer \o <<q>>
        /\ toServer \in Seq(Requests)
    BY <1>1, <1>3 DEF Request, Requests, OnSuccess, Send, TypeOK, EngineTypeOK
  <2> HIDE DEF q
  <2>5. <<q>> \in Seq(Requests) /\ \A i \in DOMAIN <<q>> : <<q>>[i] = q
    BY <2>4
  <2>6. \A i \in DOMAIN toServer' :
          (i \in DOMAIN toServer /\ toServer'[i] = toServer[i]) \/ toServer'[i] = q
    BY <2>4, <2>5, ConcatPlaces
  <2> QED
    BY <1>1, <2>3, <2>4, <2>6 DEF GoodNumbers
<1> QED
  BY <1>2, <1>3 DEF SignalingStep

\* The numbers that the responses bring are the server's.
LEMMA GoodListener ==
  ASSUME TypeOK, GoodNumbers, EngineStep, TypeOK'
  PROVE  GoodNumbers'
<1>1. ListenerStep /\ NoRoom \notin BadIds
  BY IdsAssumption DEF EngineStep
<1>2. ASSUME NEW code, NEW cmeth, Receive(code, cmeth)
      PROVE  /\ 1 \in DOMAIN toClient /\ toClient[1] = Head(toClient)
             /\ Head(toClient).code = code /\ Head(toClient).cmeth = cmeth
  BY <1>2, ReceivesFront
<1>3. CASE onTrying \/ onRinging \/ onOKInfo31 \/ onOKInfo30 \/ onOKBye \/ onOKClose
           \/ onUnauthorizedInvite \/ onUnauthorizedBye \/ onCancelInvite \/ onCancelQuery
  <2>1. /\ UNCHANGED toServer /\ listener'.room \in {listener.room, NoRoom}
        /\ meetingId' = meetingId \/ meetingId' = NoRoom
        /\ \E code, cmeth : Receive(code, cmeth) /\ (cmeth = "QUERY" => meetingId' = NoRoom)
    BY <1>3
    DEF onTrying, onRinging, onOKInfo31, onOKInfo30, onOKBye, onOKClose, onUnauthorizedInvite,
        onUnauthorizedBye, onCancelInvite, onCancelQuery, StopStats, Listens, Dies, engineVars,
        threadVars
  <2> QED
    BY <1>1, <2>1, GoodReceives DEF GoodNumbers
<1>4. CASE onOKQuery
  <2>1. Receive("200", "QUERY") /\ UNCHANGED <<toServer, listener, meetingId>>
    BY <1>4 DEF onOKQuery, StartCall, Dies, engineVars, threadVars
  <2>2. meetingId \notin BadIds
    BY <1>2, <2>1 DEF GoodNumbers
  <2> QED
    BY <2>1, <2>2, GoodReceives DEF GoodNumbers
<1>5. CASE onOKInvite
  <2>1. /\ Receive("200", "INVITE") /\ UNCHANGED <<toServer, meetingId>>
        /\ listener'.room \in {listener.room, Head(toClient).room}
    BY <1>5 DEF onOKInvite, Dies, threadVars
  <2>2. listener'.room \notin BadIds
    BY <1>2, <2>1 DEF GoodNumbers
  <2> QED
    BY <2>1, <2>2, GoodReceives
<1>6. CASE onOKCreate
  <2>1. /\ Receive("200", "CREATE") /\ UNCHANGED <<toServer, listener>>
        /\ meetingId' = Head(toClient).room
    BY <1>6 DEF onOKCreate, threadVars
  <2>2. meetingId' \notin BadIds /\ listener'.room \notin BadIds
    BY <1>2, <2>1 DEF GoodNumbers
  <2> QED
    BY <2>1, <2>2, GoodReceives
<1>7. CASE OnJoined \/ OnStarted \/ onCloseCloses \/ onCloseDrops \/ onCancelDrops
  <2>1. /\ UNCHANGED <<toServer, toClient>> /\ listener'.room \in {listener.room, NoRoom}
        /\ meetingId' \in {meetingId, listener.room, NoRoom}
    BY <1>7
    DEF OnJoined, OnStarted, onCloseCloses, onCloseDrops, onCancelDrops, CloseDevices,
        DropConnection, Listens, Dies, threadVars, TypeOK, EngineTypeOK
  <2> QED
    BY <1>1, <2>1 DEF GoodNumbers, QueryOpen
<1> QED
  BY <1>1, <1>3, <1>4, <1>5, <1>6, <1>7 DEF ListenerStep

\* The server says yes to no wrong number.
LEMMA GoodServes ==
  ASSUME TypeOK, GoodNumbers, toServer # << >>, toServer' = Tail(toServer),
         UNCHANGED <<meetingId, listener>>,
         NEW rs \in Seq(Responses), toClient' = toClient \o rs,
         \A i \in DOMAIN rs :
           /\ rs[i].cmeth = "QUERY" /\ rs[i].code = "200" => meetingId \notin BadIds
           /\ rs[i].cmeth \in {"INVITE", "CREATE"} /\ rs[i].code = "200" => rs[i].room \notin BadIds,
         Head(toServer).meth = "QUERY" => ~NoneOf(rs, QueryResps)
  PROVE  GoodNumbers'
<1>1. toServer \in Seq(Requests) /\ toClient \in Seq(Responses)
  BY DEF TypeOK, EngineTypeOK
<1>2. \A i \in DOMAIN toServer' : i + 1 \in DOMAIN toServer /\ toServer'[i] = toServer[i + 1]
  BY <1>1, TailPlaces
<1>3. \A i \in DOMAIN toClient' :
        \/ i \in DOMAIN toClient /\ toClient'[i] = toClient[i]
        \/ \E j \in DOMAIN rs : toClient'[i] = rs[j]
  BY <1>1, ConcatPlaces
<1>4. NoneOf(toClient', QueryResps) => NoneOf(toClient, QueryResps) /\ NoneOf(rs, QueryResps)
  BY <1>1, StillThere
<1>5. Head(toServer).meth # "QUERY" /\ NoneOf(toServer', Queries) => NoneOf(toServer, Queries)
  <2>1. Head(toServer).meth # "QUERY" => Head(toServer) \notin Queries
    BY DEF Queries, OfMeths
  <2> QED
    BY <1>1, <2>1, StillThere
<1>6. meetingId \in BadIds => QueryOpen'
  BY <1>4, <1>5 DEF GoodNumbers, QueryOpen
<1> QED
  BY <1>2, <1>3, <1>6 DEF GoodNumbers

LEMMA GoodServer ==
  ASSUME TypeOK, GoodNumbers, Serve \/ Close, TypeOK'
  PROVE  GoodNumbers'
<1>1. /\ toServer \in Seq(Requests) /\ toClient \in Seq(Responses) /\ srvRoom \in Ids
      /\ NoRoom \in Ids /\ Rooms \subseteq Ids /\ Rooms \intersect BadIds = {} /\ NoRoom \notin BadIds
  BY IdsAssumption DEF TypeOK, EngineTypeOK, Ids
<1>2. CASE Close
  <2> DEFINE r == Response("200", "CLOSE", srvRoom, 0)
  <2>1. r \in Responses /\ r.cmeth = "CLOSE"
    BY <1>1 DEF Response, Responses
  <2>2. toClient' = toClient \o <<r>> /\ UNCHANGED <<toServer, meetingId, listener>>
    BY <1>1, <1>2, <2>1 DEF Close, HostCloses, engineVars, threadVars
  <2> HIDE DEF r
  <2>3. <<r>> \in Seq(Responses) /\ \A i \in DOMAIN <<r>> : <<r>>[i] = r
    BY <2>1
  <2>4. \A i \in DOMAIN toClient' :
          (i \in DOMAIN toClient /\ toClient'[i] = toClient[i]) \/ toClient'[i] = r
    BY <1>1, <2>2, <2>3, ConcatPlaces
  <2>5. NoneOf(toClient', QueryResps) => NoneOf(toClient, QueryResps)
    BY <1>1, <2>2, <2>3, StillThere
  <2> QED
    BY <2>1, <2>2, <2>4, <2>5 DEF GoodNumbers, QueryOpen
<1>3. CASE Serve
  <2>1. /\ ServerStep /\ toServer # << >> /\ toServer' = Tail(toServer)
        /\ 1 \in DOMAIN toServer /\ Head(toServer) = toServer[1] /\ Head(toServer) \in Requests
        /\ UNCHANGED <<meetingId, listener>>
    BY <1>3, ServerAnswers DEF Serve, engineVars, threadVars
  \* One response.
  <2>2. ASSUME NEW code \in {"200", "401", "CANCEL"}, NEW room \in Ids,
               NEW cmeth \in {"QUERY", "BYE", "CREATE", "INFO30", "INFO31"},
               Head(toServer).meth = cmeth, Answers(<<Response(code, cmeth, room, 0)>>),
               cmeth = "QUERY" /\ code = "200" => meetingId \notin BadIds,
               cmeth = "CREATE" => room \notin BadIds
        PROVE  GoodNumbers'
    <3> DEFINE r == Response(code, cmeth, room, 0)
               rs == <<r>>
    <3>1. r \in Responses /\ r.cmeth = cmeth /\ r.code = code /\ r.room = room
      BY DEF Response, Responses
    <3>2. toClient' = toClient \o <<r>>
      BY <2>2 DEF Answers
    <3> HIDE DEF r
    <3>3. rs \in Seq(Responses) /\ (\A i \in DOMAIN rs : rs[i] = r) /\ 1 \in DOMAIN rs
      BY <3>1
    <3>4. cmeth = "QUERY" => ~NoneOf(rs, QueryResps)
      BY <3>1, <3>3 DEF NoneOf, QueryResps, AnswersTo
    <3>5. toClient' = toClient \o rs
      BY <3>2
    <3> HIDE DEF rs
    <3>6. \A i \in DOMAIN rs :
            /\ rs[i].cmeth = "QUERY" /\ rs[i].code = "200" => meetingId \notin BadIds
            /\ rs[i].cmeth \in {"INVITE", "CREATE"} /\ rs[i].code = "200" => rs[i].room \notin BadIds
      BY <2>2, <3>1, <3>3
    <3> QED
      BY <2>1, <2>2, <3>3, <3>4, <3>5, <3>6, GoodServes
  <2>3. CASE ServeQuery
    <3>1. Head(toServer).meth = "QUERY" /\ Head(toServer).to \in Ids
          /\ (Head(toServer).to \in Rooms => meetingId \notin BadIds)
      BY <2>1, <2>3 DEF ServeQuery, Asked, Requests, GoodNumbers
    <3> QED
      BY <1>1, <2>2, <2>3, <3>1 DEF ServeQuery
  <2>4. CASE ServeBye
    BY <1>1, <2>2, <2>4 DEF ServeBye, Asked
  <2>5. CASE ServeCreate
    BY <1>1, <2>2, <2>5 DEF ServeCreate, Asked
  <2>6. CASE ServeInfo
    BY <1>1, <2>2, <2>6 DEF ServeInfo, Asked
  <2>7. CASE ServeInvite
    <3>1. Head(toServer).meth = "INVITE" /\ Head(toServer).sdp \in Nat
      BY <2>1, <2>7 DEF ServeInvite, Asked, Requests
    <3>2. PICK any \in Rooms : TRUE
      BY IdsAssumption
    <3>3. PICK rs, m : EndsLast(rs, m) /\ Answers(rs) /\ m \notin BadIds
      BY <1>1, <2>7, <3>1, <3>2, InviteEndsLast DEF ServeInvite
    <3>4. /\ rs \in Seq(Responses) /\ toClient' = toClient \o rs
          /\ \A i \in DOMAIN rs : rs[i].cmeth = "INVITE" /\ (rs[i].code = "200" => rs[i].room = m)
      BY <3>3 DEF EndsLast, Answers
    <3>5. \A i \in DOMAIN rs :
            /\ rs[i].cmeth = "QUERY" /\ rs[i].code = "200" => meetingId \notin BadIds
            /\ rs[i].cmeth \in {"INVITE", "CREATE"} /\ rs[i].code = "200" => rs[i].room \notin BadIds
      BY <3>3, <3>4
    <3> QED
      BY <2>1, <3>1, <3>4, <3>5, GoodServes
  <2> QED
    BY <2>1, <2>3, <2>4, <2>5, <2>6, <2>7 DEF ServerStep
<1> QED
  BY <1>2, <1>3

LEMMA GoodInvariance ==
  ASSUME "retry" \notin Env
  PROVE  Spec => []GoodNumbers
<1>1. Init => GoodNumbers
  BY IdsAssumption DEF Init, EngineInit, GoodNumbers
<1>2. CInv /\ GoodNumbers /\ [Next]_vars => GoodNumbers'
  <2> SUFFICES ASSUME CInv, GoodNumbers, [Next]_vars PROVE GoodNumbers'
    OBVIOUS
  <2>1. TypeOK /\ TypeOK'
    BY NextType DEF CInv
  <2>2. CASE UserStep \/ UNCHANGED vars
    <3>1. UNCHANGED <<meetingId, toServer, toClient, listener>>
      BY <2>2
      DEF UserStep, Browses, Asks, Departs, Shares, ClickStart, ClickCloseDialog, ClickCreate,
          ClickJoin, ClickBooking, ClickLeave, ClickShare, Posts, engineVars, threadVars, vars, vars0
    <3> QED
      BY <2>1, <3>1, GoodSends
  <2>3. CASE UIStep
    BY <2>1, <2>3, GoodUI
  <2>4. CASE SignalingStep
    BY <2>1, <2>4, GoodSignaling
  <2>5. CASE EngineStep
    BY <2>1, <2>5, GoodListener
  <2>6. CASE Serve \/ Close
    BY <2>1, <2>6, GoodServer
  <2> QED
    BY <2>2, <2>3, <2>4, <2>5, <2>6 DEF Next
<1> QED
  BY <1>1, <1>2, CallsInvariance, PTL DEF Spec

\* Second, whatever keeps a connection is still there.
Takings == {r \in Responses : r.cmeth = "INVITE" /\ r.code = "200"}
Cancels == {r \in Responses : r.cmeth = "INVITE" /\ r.code = "CANCEL"}

\* A call is being asked for, and has not started.
Seeking == ~NoneOf(messageQueue, AskMsgs) \/ QueryOpen

\* A teardown goes on, on one thread or the other; it has closed the devices and not yet
\* dropped the connection.
Leaving == leaving # "no" \/ listener.at \in {"stopping", "closed"}
Half == leaving = "closed" \/ listener.at = "closed"

\* The capturers run for a connection only, and no call is asked for over another, nor
\* while a teardown has still to drop one: it could not have closed the devices without.
Held ==
  /\ video = "capturing" => pc # 0
  /\ adm = "open" => video = "capturing"
  /\ Seeking => pc = 0
  /\ Half => video # "capturing" /\ ~Seeking

\* A connection belongs to a call that goes on, to a window, or to a teardown.
Covered ==
  pc # 0 => \/ offering # 0 \/ ~NoneOf(toServer, Invites) \/ ~NoneOf(toClient, Takings)
            \/ InWnd \/ Leaving

\* The answer that is next in line finds an offer that waits for it.
Rung ==
  ~NoneOf(toClient, Takings) /\ NoneOf(toClient, Ringings)
    => pc = 0 \/ (local # 0 /\ remote = 0)

\* The server cancels no call.
NotCancelled == NoneOf(toClient, Cancels) /\ listener.at # "cancelled"

HeldInv ==
  /\ TypeOK /\ fault # "abort"
  /\ Alive => Held /\ Covered /\ Rung /\ NotCancelled

LEMMA HeldDead ==
  ASSUME TypeOK', fault' \in {"null", "freed", "terminate"}
  PROVE  HeldInv'
BY DEF HeldInv, Alive

\* Without a connection there is nothing to hold.
LEMMA HeldNone ==
  ASSUME TypeOK', pc' = 0, video' # "capturing", adm' # "open", ~Half' \/ ~Seeking',
         fault' # "abort", NotCancelled'
  PROVE  HeldInv'
BY DEF HeldInv, Held, Covered, Rung

\* The kinds of responses, by what Keeps knows of them.
LEMMA CallRespKinds ==
  /\ QueryResps \subseteq CallResps /\ Takings \subseteq CallResps /\ Cancels \subseteq CallResps
  /\ QueryResps \subseteq Finals /\ Takings \subseteq Finals
  /\ Queries \subseteq CallReqs /\ Invites \subseteq CallReqs
BY DEF QueryResps, CallResps, Takings, Cancels, AnswersTo, Finals, Queries, Invites, OfMeths,
       CallReqs

\* A step that leaves the connection alone.
LEMMA HeldKept ==
  ASSUME HeldInv, Alive, TypeOK', UNCHANGED <<pc, local, remote, video, adm, fault>>,
         UNCHANGED leaving, listener' = listener \/ listener'.at \in {"idle", "joined", "answered"},
         Keeps(messageQueue, messageQueue', Messages, AskMsgs),
         Keeps(toServer, toServer', Requests, Queries),
         Keeps(toClient, toClient', Responses, CallResps),
         NoneOf(toClient', Ringings) => NoneOf(toClient, Ringings),
         Covered'
  PROVE  HeldInv'
<1>1. /\ messageQueue \in Seq(Messages) /\ toServer \in Seq(Requests)
      /\ toClient \in Seq(Responses) /\ Held /\ Rung /\ NotCancelled
  BY DEF HeldInv, TypeOK, EngineTypeOK
<1>2. \A i \in DOMAIN toClient' : toClient'[i] \in CallResps
        => \E j \in DOMAIN toClient : toClient[j] = toClient'[i]
  BY <1>1, KeptPlaces
<1>3. /\ NoneOf(toClient, QueryResps) => NoneOf(toClient', QueryResps)
      /\ NoneOf(toClient, Takings) => NoneOf(toClient', Takings)
      /\ NotCancelled'
  BY <1>1, <1>2, CallRespKinds DEF NotCancelled, NoneOf
<1>4. /\ NoneOf(messageQueue, AskMsgs) => NoneOf(messageQueue', AskMsgs)
      /\ NoneOf(toServer, Queries) => NoneOf(toServer', Queries)
  BY <1>1, KeptElements
<1>5. Seeking' => Seeking
  BY <1>3, <1>4 DEF Seeking, QueryOpen
<1>6. Held' /\ Rung'
  BY <1>1, <1>3, <1>5 DEF Held, Half, Rung
<1> QED
  BY <1>3, <1>6 DEF HeldInv

\* Who asks for a call has no connection, and no devices that run.
LEMMA SeekersHaveNone ==
  ASSUME HeldInv, Alive, Seeking
  PROVE  pc = 0 /\ video # "capturing" /\ adm # "open" /\ ~Half
BY DEF HeldInv, Held

\* StartCall makes the call's connection, or none can be made.
LEMMA HeldStarts ==
  ASSUME HeldInv, Alive, Seeking, StartCall, CInv', NotCancelled'
  PROVE  HeldInv'
<1>1. /\ pc = 0 /\ video # "capturing" /\ ~Half
      /\ calls \in Nat /\ fault = "none" /\ TypeOK'
  BY SeekersHaveNone DEF HeldInv, TypeOK, EngineTypeOK, CInv, Alive
<1>2. CASE Dies("null")
  BY <1>1, <1>2, HeldDead DEF Dies
<1> SUFFICES ASSUME ~Dies("null") PROVE HeldInv'
  BY <1>2
<1>3. /\ pc' # 0 /\ offering' # 0 /\ fault' = "none" /\ Alive' /\ video' = "capturing" /\ ~Half'
  BY <1>1 DEF StartCall, Alive, threadVars, Half
<1>4. NoneOf(messageQueue', AskMsgs) /\ NoneOf(toServer', CallReqs) /\ NoneOf(toClient', Finals)
  BY <1>3 DEF CInv, OneCall
<1>5. ~Seeking' /\ NoneOf(toClient', Takings)
  BY <1>4, CallRespKinds DEF Seeking, QueryOpen, NoneOf
<1> QED
  BY <1>1, <1>3, <1>5 DEF HeldInv, Held, Covered, Rung

\* The clicks: a call is asked for outside the window, when all is quiet.
LEMMA HeldUser ==
  ASSUME HeldInv, DialogInv, UserStep, TypeOK', "retry" \notin Env
  PROVE  HeldInv'
<1>1. /\ Alive /\ TypeOK /\ fault # "abort" /\ NotCancelled /\ NotCancelled' /\ Covered
      /\ messageQueue \in Seq(Messages)
      /\ UNCHANGED <<toServer, toClient, streamWnd, offering, pc, local, remote, video, adm>>
      /\ UNCHANGED <<fault, listener, leaving>>
  BY DEF HeldInv, NotCancelled, UserStep, Browses, Asks, Departs, Shares, ClickStart, ClickCloseDialog,
         ClickCreate, ClickJoin, ClickBooking, ClickLeave, ClickShare, Posts, engineVars,
         callVars, offerVars, deviceVars, threadVars, windows, TypeOK, EngineTypeOK
<1>2. ASSUME NEW m \in Messages, Posts(m), m.id \notin {"IS_CREATE", "IS_JOIN"} PROVE HeldInv'
  <2>1. /\ Keeps(messageQueue, messageQueue', Messages, AskMsgs)
        /\ messageQueue' = messageQueue \o <<m>> /\ <<m>> \in Seq(Messages)
    <3>1. AskMsgs = OfIds({"IS_CREATE", "IS_JOIN"})
      BY DEF AskMsgs, OfIds
    <3> QED
      BY <1>1, <1>2, <3>1, ClickAdds
  <2>2. NoneOf(messageQueue', Tracks) => NoneOf(messageQueue, Tracks)
    BY <1>1, <2>1, StillThere
  <2>3. Covered'
    BY <1>1, <2>2 DEF Covered, InWnd, Leaving
  <2> QED
    BY <1>1, <2>1, <2>3, HeldKept DEF Keeps
<1>3. CASE ClickStart \/ ClickBooking \/ ClickLeave \/ ClickShare
  <2>1. \E m \in Messages : Posts(m) /\ m.id \notin {"IS_CREATE", "IS_JOIN"}
    BY <1>1, <1>3, Clicks
  <2> QED
    BY <1>2, <2>1
<1>4. CASE ClickCloseDialog
  <2>1. UNCHANGED messageQueue
    BY <1>4 DEF ClickCloseDialog
  <2>2. Covered'
    BY <1>1, <2>1 DEF Covered, InWnd, Leaving
  <2> QED
    BY <1>1, <2>1, <2>2, HeldKept DEF Keeps
<1>5. CASE Asks
  <2>1. CASE ClickBooking
    BY <1>3, <2>1
  <2>2. CASE ~ClickBooking
    <3>1. Quiet /\ enterWnd # "closed"
      BY <1>5, <2>2 DEF Asks, Waits, ClickCreate, ClickJoin
    <3>2. /\ ~InWnd /\ offering = 0 /\ NoneOf(toServer, Invites) /\ NoneOf(toClient, Takings)
          /\ ~Leaving /\ ~Half
      BY <3>1 DEF DialogInv, OneWindow, Quiet, InWnd, Leaving, Half, NoneOf
    <3>3. pc = 0 /\ video # "capturing" /\ adm # "open" /\ ~Half'
      BY <1>1, <3>2 DEF HeldInv, Covered, Held, Half
    <3> QED
      BY <1>1, <3>3, HeldNone
  <2> QED
    BY <2>1, <2>2
<1> QED
  BY <1>3, <1>4, <1>5 DEF UserStep, Browses, Departs, Shares

\* The messages.
LEMMA HeldUI ==
  ASSUME HeldInv, CInv', UIStep
  PROVE  HeldInv'
<1>1. /\ Alive /\ TypeOK /\ TypeOK' /\ fault # "abort" /\ NotCancelled /\ Covered /\ Held
      /\ meetingId \in Ids /\ NoRoom \in Ids
      /\ messageQueue \in Seq(Messages) /\ toServer \in Seq(Requests)
  BY DEF UIStep, HeldInv, CInv, TypeOK, EngineTypeOK, Ids
<1>2. ASSUME NEW ids, Takes(ids)
      PROVE  /\ \A T : Keeps(messageQueue, messageQueue', Messages, T)
             /\ \A T : Keeps(toClient, toClient', Responses, T)
             /\ UNCHANGED toClient /\ (UNCHANGED listener => NotCancelled')
             /\ Head(messageQueue) \in Messages /\ Head(messageQueue).id \in ids
             /\ 1 \in DOMAIN messageQueue /\ messageQueue[1] = Head(messageQueue)
             /\ "ADD_TRACK" \notin ids /\ NoneOf(messageQueue', Tracks)
                  => NoneOf(messageQueue, Tracks)
  <2>1. /\ \A T : Keeps(messageQueue, messageQueue', Messages, T)
        /\ UNCHANGED toClient
        /\ Head(messageQueue) \in Messages /\ Head(messageQueue).id \in ids
        /\ messageQueue' = Tail(messageQueue) /\ messageQueue # << >>
        /\ 1 \in DOMAIN messageQueue /\ messageQueue[1] = Head(messageQueue)
    BY <1>1, <1>2, TakesFront
  <2>2. "ADD_TRACK" \notin ids => Head(messageQueue) \notin Tracks
    BY <2>1 DEF Tracks, OfIds
  <2>3. "ADD_TRACK" \notin ids /\ NoneOf(messageQueue', Tracks) => NoneOf(messageQueue, Tracks)
    BY <1>1, <2>1, <2>2, StillThere
  <2> QED
    BY <1>1, <2>1, <2>3 DEF Keeps, NotCancelled
<1>3. ASSUME NEW ids, Takes(ids), "ADD_TRACK" \notin ids,
             UNCHANGED <<pc, local, remote, video, adm, fault, offering, streamWnd, threadVars>>,
             Keeps(toServer, toServer', Requests, Queries),
             NoneOf(toServer', Invites) => NoneOf(toServer, Invites)
      PROVE  HeldInv'
  <2>1. Covered'
    BY <1>1, <1>2, <1>3 DEF Covered, InWnd, Leaving, threadVars
  <2> QED
    BY <1>1, <1>2, <1>3, <2>1, HeldKept DEF threadVars
<1>4. ASSUME NEW meth \in {"BYE", "CREATE", "INFO30", "INFO31"}, NEW to \in Ids, Send(meth, to, 0)
      PROVE  /\ Keeps(toServer, toServer', Requests, Queries)
             /\ NoneOf(toServer', Invites) => NoneOf(toServer, Invites)
  <2> DEFINE q == Request(meth, to, 0)
  <2>1. q \in Requests /\ q.meth = meth /\ toServer' = toServer \o <<q>>
    BY <1>1, <1>4 DEF Request, Requests, Send
  <2> HIDE DEF q
  <2>2. <<q>> \in Seq(Requests) /\ NoneOf(<<q>>, Queries)
    BY <2>1 DEF NoneOf, Queries, OfMeths
  <2>3. NoneOf(toServer', Invites) => NoneOf(toServer, Invites)
    BY <1>1, <2>1, <2>2, StillThere
  <2> QED
    BY <2>1, <2>2, <2>3 DEF Keeps
<1>5. CASE UpdateEnter \/ UpdateCreateMeetingOK \/ UpdateJoinMeetingOK \/ UpdateBookingOK
  <2>1. /\ \E ids : Takes(ids) /\ "ADD_TRACK" \notin ids
        /\ UNCHANGED <<engineVars, toServer, streamWnd>>
    BY <1>5 DEF UpdateEnter, UpdateCreateMeetingOK, UpdateJoinMeetingOK, UpdateBookingOK, windows
  <2>2. UNCHANGED <<pc, local, remote, video, adm, fault, offering, threadVars>>
    BY <2>1 DEF engineVars, callVars, offerVars, deviceVars, threadVars
  <2> QED
    BY <1>3, <2>1, <2>2 DEF Keeps
<1>6. CASE UpdateIsBooking
  <2>1. /\ Takes({"IS_BOOKING"}) /\ Send("CREATE", NoRoom, 0)
        /\ UNCHANGED <<pc, local, remote, video, adm, fault, offering, streamWnd, threadVars>>
    BY <1>6 DEF UpdateIsBooking, scheduleMeeting, windows, engineVars, callVars, offerVars,
                deviceVars, threadVars
  <2> QED
    BY <1>1, <1>3, <1>4, <2>1
<1>7. CASE UpdateSetShare
  <2>1. /\ Takes({"SET_SHARE"}) /\ \E meth \in {"INFO30", "INFO31"} : Send(meth, meetingId, 0)
        /\ \/ fault' = "null"
           \/ UNCHANGED <<pc, local, remote, video, adm, fault, offering, streamWnd, threadVars>>
    BY <1>7 DEF UpdateSetShare, switchScreenShare, Dies, windows, callVars, offerVars, threadVars
  <2> QED
    BY <1>1, <1>3, <1>4, <2>1, HeldDead
<1>8. CASE UpdateMeetingEnd
  <2>1. /\ Takes({"MEETING_END"})
        /\ \/ fault' \in {"null", "terminate"}
           \/ /\ UNCHANGED <<pc, local, remote, video, adm, fault, listener>>
              /\ leaving = "no" /\ leaving' = "stopping" /\ Send("BYE", meetingId, 0)
    BY <1>8
    DEF UpdateMeetingEnd, exitMeeting, StopStats, Leaves, Dies, Takes, callVars
  <2>2. CASE fault' = fault /\ leaving' = "stopping"
    <3>1. Keeps(toServer, toServer', Requests, Queries) /\ UNCHANGED toClient
      BY <1>1, <1>2, <1>4, <2>1, <2>2 DEF Alive
    <3>2. /\ NoneOf(messageQueue, AskMsgs) => NoneOf(messageQueue', AskMsgs)
          /\ NoneOf(toServer, Queries) => NoneOf(toServer', Queries)
      BY <1>1, <1>2, <2>1, <3>1, KeptElements
    <3>3. Held'
      BY <1>1, <2>1, <2>2, <3>1, <3>2 DEF Held, Half, Seeking, QueryOpen, Alive
    <3>4. Covered' /\ Rung' /\ NotCancelled'
      BY <1>1, <2>1, <2>2, <3>1 DEF Covered, Leaving, Rung, NotCancelled, HeldInv, Alive
    <3> QED
      BY <1>1, <2>2, <3>3, <3>4 DEF HeldInv
  <2> QED
    BY <1>1, <2>1, <2>2, HeldDead
<1>9. CASE UpdateAddTrack
  <2>1. /\ Takes({"ADD_TRACK"}) /\ UNCHANGED <<engineVars, toServer>> /\ streamWnd'
    BY <1>9 DEF UpdateAddTrack
  <2>2. UNCHANGED <<pc, local, remote, video, adm, fault, listener, leaving>> /\ Covered'
    BY <2>1 DEF engineVars, callVars, deviceVars, threadVars, Covered, InWnd
  <2> QED
    BY <1>1, <1>2, <2>1, <2>2, HeldKept DEF Keeps
<1>10. CASE UpdateIsCreate \/ UpdateIsJoin
  <2>1. PICK ids \in {{"IS_CREATE"}, {"IS_JOIN"}} : Takes(ids)
    BY <1>10 DEF UpdateIsCreate, UpdateIsJoin
  <2>2. Seeking
    BY <1>2, <2>1 DEF Seeking, NoneOf, AskMsgs
  <2>3. CASE UpdateIsCreate
    <3>1. StartCall
      BY <2>3 DEF UpdateIsCreate, createMeeting
    <3> QED
      <4>1. UNCHANGED listener
        BY <3>1 DEF StartCall, Dies, threadVars
      <4> QED
        BY <1>1, <1>2, <2>1, <2>2, <3>1, <4>1, HeldStarts
  <2>4. CASE UpdateIsJoin
    <3>1. UNCHANGED <<pc, video, adm, fault, listener, leaving>>
      BY <2>4 DEF UpdateIsJoin, joinMeeting, callVars, deviceVars, threadVars
    <3>2. pc = 0 /\ video # "capturing" /\ adm # "open" /\ ~Half'
      BY <1>1, <2>2, <3>1, SeekersHaveNone DEF Half
    <3> QED
      BY <1>1, <1>2, <2>1, <3>1, <3>2, HeldNone
  <2> QED
    BY <1>10, <2>3, <2>4
\* The devices can be closed because nobody is seeking a call, and stay closed until the
\* connection goes.
<1>11. CASE ExitMeeting
  <2>1. /\ UNCHANGED <<messageQueue, toServer, toClient, listener, streamWnd, offering>>
        /\ \/ fault' = "null"
           \/ /\ leaving' = "closed" /\ adm = "open" /\ adm' = "closed" /\ video' = "idle"
              /\ UNCHANGED <<pc, local, remote, fault>>
           \/ /\ leaving = "closed" /\ leaving' = "no" /\ pc' = 0
              /\ UNCHANGED <<video, adm, fault>>
    BY <1>11
    DEF ExitMeeting, exitMeetingCloses, exitMeetingDrops, CloseDevices, DropConnection, Leaves,
        Dies, uiVars, windows, callVars, offerVars, deviceVars, threadVars
  <2>2. UNCHANGED <<Seeking, NoneOf(toClient, Takings), NoneOf(toClient, Ringings)>> /\ NotCancelled'
    BY <1>1, <2>1 DEF Seeking, QueryOpen, NotCancelled
  <2>3. CASE /\ leaving' = "closed" /\ adm = "open" /\ adm' = "closed" /\ video' = "idle"
             /\ UNCHANGED <<pc, local, remote, fault>>
    <3>1. ~Seeking
      BY <1>1, <2>3, SeekersHaveNone
    <3> QED
      BY <1>1, <2>2, <2>3, <3>1 DEF HeldInv, Held, Covered, Leaving, Rung
  <2>4. CASE /\ leaving = "closed" /\ leaving' = "no" /\ pc' = 0
             /\ UNCHANGED <<video, adm, fault>>
    <3>1. video # "capturing" /\ adm # "open" /\ ~Seeking'
      BY <1>1, <2>2, <2>4 DEF Held, Half
    <3> QED
      BY <1>1, <2>2, <2>4, <3>1, HeldNone
  <2> QED
    BY <1>1, <2>1, <2>3, <2>4, HeldDead
<1> QED
  BY <1>5, <1>6, <1>7, <1>8, <1>9, <1>10, <1>11 DEF UIStep, update

\* The offer comes back; only that of a connection which is gone fails.
LEMMA HeldSignaling ==
  ASSUME HeldInv, CInv, SignalingStep, TypeOK', "offer_fails" \notin Env
  PROVE  HeldInv'
<1>1. /\ Alive /\ TypeOK /\ offering # 0 /\ fault # "abort" /\ NotCancelled /\ Covered
      /\ UNCHANGED <<toClient, messageQueue, pc, local, remote, video, adm, fault, streamWnd>>
      /\ UNCHANGED <<listener, leaving>>
      /\ toServer \in Seq(Requests) /\ pc \in {0, calls} /\ offering \in {0, calls}
  BY DEF SignalingStep, HeldInv, CInv, OfNewest, OnSuccess, OnFailure, callVars, deviceVars, threadVars,
         uiVars, windows, TypeOK, EngineTypeOK
<1>2. CASE OnSuccess
  <2> DEFINE q == Request("INVITE", meetingId, offering)
  <2>1. q \in Requests /\ q.meth = "INVITE" /\ toServer' = toServer \o <<q>>
    <3>1. meetingId \in Ids /\ offering \in Nat
      BY <1>1 DEF TypeOK, EngineTypeOK
    <3>2. q \in Requests /\ q.meth = "INVITE"
      BY <3>1 DEF Request, Requests
    <3>3. toServer' = Append(toServer, q)
      BY <1>2 DEF OnSuccess, Send
    <3> HIDE DEF q
    <3> QED
      BY <1>1, <3>2, <3>3
  <2> HIDE DEF q
  <2>2. <<q>> \in Seq(Requests) /\ NoneOf(<<q>>, Queries) /\ ~NoneOf(<<q>>, Invites)
    BY <2>1 DEF NoneOf, Queries, Invites, OfMeths
  <2>3. Keeps(toServer, toServer', Requests, Queries)
    BY <2>1, <2>2 DEF Keeps
  <2>4. Covered'
    BY <1>1, <2>1, <2>2, StillThere DEF Covered, Leaving
  <2> QED
    BY <1>1, <2>3, <2>4, HeldKept DEF Keeps
<1>3. CASE OnFailure
  <2>1. pc = 0 \/ OnSuccess
    BY <1>1 DEF SignalingStep
  <2> QED
    <3>1. UNCHANGED toServer
      BY <1>3 DEF OnFailure
    <3>2. CASE pc = 0
      <4>1. video # "capturing" /\ adm # "open" /\ (~Half' \/ ~Seeking') /\ NotCancelled'
        BY <1>1, <3>1, <3>2 DEF HeldInv, Held, Half, Seeking, QueryOpen, NotCancelled
      <4> QED
        BY <1>1, <3>2, <4>1, HeldNone
    <3> QED
      BY <1>2, <2>1, <3>2
<1> QED
  BY <1>2, <1>3 DEF SignalingStep

\* The responses.
LEMMA HeldListener ==
  ASSUME HeldInv, CInv, CInv', EngineStep
  PROVE  HeldInv'
<1>1. /\ Alive /\ TypeOK /\ TypeOK' /\ fault # "abort" /\ NotCancelled /\ NoneOf(toClient, Cancels)
      /\ Covered /\ Held /\ Rung /\ OneCall /\ RingsFirst /\ OfNewest
      /\ ListenerStep /\ UNCHANGED <<streamWnd, toServer>>
      /\ messageQueue \in Seq(Messages) /\ toClient \in Seq(Responses)
  BY DEF EngineStep, HeldInv, NotCancelled, CInv, uiVars, windows, TypeOK, EngineTypeOK, ListenerStep,
         onTrying, onRinging, onOKQuery, onOKInvite, OnJoined, OnStarted, onOKInfo31, onOKInfo30,
         onOKBye, onOKCreate, onOKClose, onCloseCloses, onCloseDrops, onUnauthorizedInvite,
         onUnauthorizedBye, onCancelInvite, onCancelDrops, onCancelQuery
\* What the step posts, it posts behind; none of it asks for a call.
<1>2. /\ Keeps(messageQueue, messageQueue', Messages, AskMsgs)
      /\ NoneOf(messageQueue', Tracks) => NoneOf(messageQueue, Tracks)
  <2>1. PICK r \in Seq(Messages) :
          messageQueue' = messageQueue \o r /\ \A i \in DOMAIN r : r[i].id \in CallbackIds
    BY <1>1, ListenerPosts
  <2>2. NoneOf(r, AskMsgs)
    BY <2>1 DEF NoneOf, AskMsgs, CallbackIds
  <2>3. NoneOf(messageQueue', Tracks) => NoneOf(messageQueue, Tracks)
    BY <1>1, <2>1, StillThere
  <2> QED
    BY <2>1, <2>2, <2>3 DEF Keeps
<1>3. ASSUME NEW code, NEW cmeth, Receive(code, cmeth)
      PROVE  /\ toClient # << >> /\ toClient' = Tail(toClient) /\ listener.at = "idle"
             /\ Head(toClient) \in Responses
             /\ Head(toClient).code = code /\ Head(toClient).cmeth = cmeth
             /\ 1 \in DOMAIN toClient /\ toClient[1] = Head(toClient)
             /\ \A T : Keeps(toClient, toClient', Responses, T)
             /\ NoneOf(toClient', Cancels)
             /\ (code # "200" \/ cmeth # "INVITE") /\ NoneOf(toClient', Takings)
                  => NoneOf(toClient, Takings)
             /\ (code # "180" \/ cmeth # "INVITE") /\ NoneOf(toClient', Ringings)
                  => NoneOf(toClient, Ringings)
  <2>1. /\ toClient # << >> /\ toClient' = Tail(toClient)
        /\ Head(toClient) \in Responses
        /\ Head(toClient).code = code /\ Head(toClient).cmeth = cmeth
        /\ 1 \in DOMAIN toClient /\ toClient[1] = Head(toClient)
        /\ \A T : Keeps(toClient, toClient', Responses, T)
    BY <1>1, <1>3, ReceivesFront
  <2>2. NoneOf(toClient', Cancels)
    BY <1>1, <2>1, KeptElements
  <2>3. code # "200" \/ cmeth # "INVITE" => Head(toClient) \notin Takings
    BY <2>1 DEF Takings
  <2>4. code # "180" \/ cmeth # "INVITE" => Head(toClient) \notin Ringings
    BY <2>1 DEF Ringings
  <2>5. (code # "200" \/ cmeth # "INVITE") /\ NoneOf(toClient', Takings)
          => NoneOf(toClient, Takings)
    BY <1>1, <2>1, <2>3, StillThere
  <2>6. (code # "180" \/ cmeth # "INVITE") /\ NoneOf(toClient', Ringings)
          => NoneOf(toClient, Ringings)
    BY <1>1, <2>1, <2>4, StillThere
  <2> QED
    BY <1>3, <2>1, <2>2, <2>5, <2>6 DEF Receive
\* Steps that leave the connection alone.
<1>4. ASSUME UNCHANGED <<pc, local, remote, video, adm, fault, offering, leaving>>,
             \/ listener' = listener
             \/ listener.at \in {"answered", "joined"} /\ listener'.at \in {"idle", "joined"},
             \/ UNCHANGED toClient
             \/ \E code, cmeth : /\ Receive(code, cmeth)
                                 /\ code \notin {"200", "180"} \/ cmeth # "INVITE"
      PROVE  HeldInv'
  <2>1. /\ Keeps(toClient, toClient', Responses, CallResps)
        /\ NoneOf(toClient', Takings) => NoneOf(toClient, Takings)
        /\ NoneOf(toClient', Ringings) => NoneOf(toClient, Ringings)
    BY <1>3, <1>4 DEF Keeps
  <2>2. Covered'
    BY <1>1, <1>2, <1>4, <2>1 DEF Covered, InWnd, Leaving
  <2> QED
    BY <1>1, <1>2, <1>4, <2>1, <2>2, HeldKept DEF Keeps
<1>5. CASE onTrying \/ OnJoined \/ OnStarted \/ onOKInfo30 \/ onOKBye \/ onOKCreate
           \/ onUnauthorizedInvite \/ onUnauthorizedBye
  <2>1. /\ \/ fault' = "terminate"
           \/ /\ UNCHANGED <<pc, local, remote, video, adm, fault, offering, leaving>>
              /\ \/ listener' = listener
                 \/ /\ listener.at \in {"answered", "joined"}
                    /\ listener'.at \in {"idle", "joined"}
        /\ \/ UNCHANGED toClient
           \/ \E code, cmeth : /\ Receive(code, cmeth)
                               /\ code \notin {"200", "180"} \/ cmeth # "INVITE"
    <3>1. CASE onTrying \/ onOKInfo30 \/ onUnauthorizedBye
      BY <3>1 DEF onTrying, onOKInfo30, onUnauthorizedBye, engineVars, callVars, offerVars, deviceVars,
                  threadVars
    <3>2. CASE onOKBye \/ onOKCreate \/ onUnauthorizedInvite
      BY <3>2 DEF onOKBye, onOKCreate, onUnauthorizedInvite, callVars, offerVars, deviceVars, threadVars
    <3>3. CASE OnJoined
      <4>1. listener'.at = "joined"
        BY <1>1, <3>3 DEF OnJoined, TypeOK, EngineTypeOK
      <4> QED
        BY <3>3, <4>1 DEF OnJoined, callVars, offerVars, deviceVars
    <3>4. CASE OnStarted
      <4>1. fault' = "terminate" \/ Listens("idle")
        BY <3>4 DEF OnStarted, Dies
      <4>2. Listens("idle") => listener'.at = "idle" /\ UNCHANGED leaving
        BY <1>1 DEF Listens, TypeOK, EngineTypeOK
      <4> QED
        BY <3>4, <4>1, <4>2 DEF OnStarted, Dies, callVars, offerVars, deviceVars
    <3> QED
      BY <1>5, <3>1, <3>2, <3>3, <3>4
  <2> QED
    BY <1>1, <1>4, <2>1, HeldDead
<1>6. CASE onOKInfo31
  <2>1. /\ Receive("200", "INFO31")
        /\ \/ fault' = "null"
           \/ UNCHANGED <<pc, local, remote, video, adm, fault, offering, listener, leaving>>
    BY <1>6 DEF onOKInfo31, Dies, engineVars, callVars, offerVars, deviceVars, threadVars
  <2> QED
    BY <1>1, <1>4, <2>1, HeldDead
<1>7. CASE onOKClose
  <2>1. /\ Receive("200", "CLOSE") /\ UNCHANGED messageQueue
        /\ \/ fault' \in {"null", "terminate"}
           \/ /\ UNCHANGED <<pc, local, remote, video, adm, fault, leaving>>
              /\ listener'.at = "stopping"
    BY <1>7 DEF onOKClose, StopStats, Listens, Dies, callVars
  <2>2. CASE UNCHANGED <<pc, local, remote, video, adm, fault, leaving>> /\ listener'.at = "stopping"
    <3>1. /\ NoneOf(toClient, QueryResps) => NoneOf(toClient', QueryResps)
          /\ NoneOf(toClient, Takings) => NoneOf(toClient', Takings)
          /\ NoneOf(toClient', Ringings) => NoneOf(toClient, Ringings)
          /\ NotCancelled'
      BY <1>1, <1>3, <2>1, <2>2, KeptElements DEF NotCancelled
    <3>2. Seeking' => Seeking
      BY <1>1, <2>1, <3>1 DEF Seeking, QueryOpen
    <3>3. Held' /\ Rung'
      BY <1>1, <2>2, <3>1, <3>2 DEF Held, Half, Rung
    <3> QED
      BY <1>1, <2>2, <3>1, <3>3 DEF HeldInv, Covered, Leaving
  <2> QED
    BY <1>1, <2>1, <2>2, HeldDead
<1>8. CASE onCancelInvite \/ onCancelDrops
  <2>1. Receive("CANCEL", "INVITE")
    BY <1>1, <1>8 DEF onCancelInvite, onCancelDrops, NotCancelled
  <2> QED
    BY <1>1, <1>3, <2>1 DEF NoneOf, Cancels
<1>9. CASE onOKQuery \/ onCancelQuery
  <2>1. PICK code : Receive(code, "QUERY")
    BY <1>9 DEF onOKQuery, onCancelQuery
  <2>2. Seeking
    BY <1>3, <2>1 DEF Seeking, QueryOpen, NoneOf, QueryResps, AnswersTo
  <2>3. pc = 0 /\ video # "capturing" /\ adm # "open" /\ ~Half
    BY <1>1, <2>2, SeekersHaveNone
  <2>4. UNCHANGED <<listener, leaving>> /\ NotCancelled'
    BY <1>1, <1>3, <1>9, <2>1
    DEF onOKQuery, onCancelQuery, StartCall, Dies, engineVars, threadVars, NotCancelled
  <2>5. CASE StartCall
    BY <1>1, <2>2, <2>4, <2>5, HeldStarts
  <2>6. CASE ~StartCall
    <3>1. UNCHANGED <<video, adm, fault>> /\ pc' = 0
      BY <1>9, <2>3, <2>6
      DEF onOKQuery, onCancelQuery, engineVars, callVars, deviceVars, threadVars
    <3> QED
      BY <1>1, <2>3, <2>4, <3>1, HeldNone DEF Half
  <2> QED
    BY <2>5, <2>6
\* The offer waits for its answer.
<1>10. CASE onRinging
  <2>1. /\ Receive("180", "INVITE") /\ UNCHANGED messageQueue
        /\ \/ localJsep = 0 /\ UNCHANGED engineVars
           \/ fault' = "null"
           \/ /\ local' = localJsep /\ remote' = 0 /\ localJsep # 0 /\ pc # 0
              /\ UNCHANGED <<pc, video, adm, fault, offering, listener, leaving>>
    BY <1>10 DEF onRinging, Dies, offerVars, deviceVars, threadVars
  <2>2. CASE localJsep = 0 /\ UNCHANGED engineVars
    <3>1. toClient[1] \in Ringings /\ 1 \in DOMAIN toClient
      BY <1>3, <2>1 DEF Ringings
    <3>2. localJsep = calls /\ pc \in {0, calls}
      BY <1>1, <3>1 DEF OfNewest
    <3>3. pc' = 0 /\ UNCHANGED <<video, adm, fault, listener, leaving>> /\ pc = 0
      BY <2>2, <3>2 DEF engineVars, callVars, deviceVars, threadVars
    <3>4. /\ NoneOf(toClient, QueryResps) => NoneOf(toClient', QueryResps)
          /\ NotCancelled'
      BY <1>1, <1>3, <2>1, <3>3, KeptElements DEF NotCancelled
    <3>5. video # "capturing" /\ adm # "open" /\ (~Half' \/ ~Seeking')
      BY <1>1, <2>1, <3>3, <3>4 DEF Held, Half, Seeking, QueryOpen
    <3> QED
      BY <1>1, <3>3, <3>4, <3>5, HeldNone
  <2>3. CASE /\ local' = localJsep /\ remote' = 0 /\ localJsep # 0 /\ pc # 0
             /\ UNCHANGED <<pc, video, adm, fault, offering, listener, leaving>>
    <3>1. /\ NoneOf(toClient', Takings) => NoneOf(toClient, Takings)
          /\ NoneOf(toClient, QueryResps) => NoneOf(toClient', QueryResps)
          /\ NotCancelled'
      BY <1>1, <1>3, <2>1, <2>3, KeptElements DEF NotCancelled
    <3>2. Covered' /\ Rung'
      BY <1>1, <2>1, <2>3, <3>1 DEF Covered, InWnd, Leaving, Rung
    <3>3. Held'
      BY <1>1, <2>1, <2>3, <3>1 DEF Held, Half, Seeking, QueryOpen
    <3> QED
      BY <1>1, <2>3, <3>1, <3>2, <3>3 DEF HeldInv
  <2> QED
    BY <1>1, <2>1, <2>2, <2>3, HeldDead
\* The answer that is taken opens the window.
<1>11. CASE onOKInvite
  <2>1. /\ Receive("200", "INVITE")
        /\ \/ fault' = "null"
           \/ /\ UNCHANGED <<pc, video, adm, fault, leaving>> /\ pc # 0
              /\ listener'.at = "answered"
              /\ (local # 0 /\ remote = 0) => Post(<<Msg("ADD_TRACK", NoRoom)>>)
    BY <1>11 DEF onOKInvite, Dies, deviceVars, threadVars
  <2>2. Head(toClient) \in Takings /\ Head(toClient) \in Finals /\ Head(toClient) \notin Ringings
    <3>1. Head(toClient) \in Responses /\ Head(toClient).code = "200"
          /\ Head(toClient).cmeth = "INVITE"
      BY <1>3, <2>1
    <3> QED
      BY <3>1 DEF Takings, Finals, Ringings
  <2>3. NoneOf(toClient', Finals)
    BY <1>1, <1>3, <2>1, <2>2, TakenOne DEF OneCall
  <2>4. NoneOf(toClient, Ringings)
    <3> SUFFICES ASSUME NEW i \in DOMAIN toClient, toClient[i] \in Ringings PROVE FALSE
      BY DEF NoneOf
    <3>1. PICK j \in DOMAIN toClient : j > i /\ toClient[j] \in Finals
      BY <1>1 DEF RingsFirst
    <3>2. j = 1
      BY <1>1, <1>3, <2>1, <2>2, <3>1 DEF OneCall, AtMostOne
    <3> QED
      BY <1>1, <3>1, <3>2
  <2>5. ~NoneOf(toClient, Takings)
    BY <1>3, <2>1, <2>2 DEF NoneOf
  <2>6. pc # 0 => local # 0 /\ remote = 0
    BY <1>1, <2>4, <2>5 DEF Rung
  <2>7. CASE /\ UNCHANGED <<pc, video, adm, fault, leaving>> /\ pc # 0
             /\ listener'.at = "answered"
             /\ Post(<<Msg("ADD_TRACK", NoRoom)>>)
    <3> DEFINE m == Msg("ADD_TRACK", NoRoom)
    <3>1. m \in Messages /\ m.id = "ADD_TRACK" /\ messageQueue' = messageQueue \o <<m>>
      BY <2>7, MsgType DEF Post, Msg, Ids
    <3> HIDE DEF m
    <3>2. <<m>> \in Seq(Messages) /\ ~NoneOf(<<m>>, Tracks)
      BY <3>1 DEF NoneOf, Tracks, OfIds
    <3>3. Covered'
      BY <1>1, <3>1, <3>2, StillThere DEF Covered, InWnd
    <3>4. NoneOf(toClient', Takings) /\ NoneOf(toClient', QueryResps)
      BY <2>3, CallRespKinds DEF NoneOf
    <3>5. NoneOf(messageQueue, AskMsgs) => NoneOf(messageQueue', AskMsgs)
      BY <1>1, <1>2, KeptElements
    <3>6. Held' /\ Rung'
      BY <1>1, <2>7, <3>4, <3>5 DEF Held, Half, Seeking, QueryOpen, Rung
    <3> QED
      BY <1>1, <1>3, <2>1, <2>7, <3>3, <3>6 DEF HeldInv, NotCancelled
  <2> QED
    BY <1>1, <2>1, <2>6, <2>7, HeldDead
\* onClose goes on, as exitMeeting does.
<1>12. CASE onCloseCloses \/ onCloseDrops
  <2>1. /\ UNCHANGED <<messageQueue, toClient, leaving, offering>>
        /\ \/ fault' = "null"
           \/ /\ listener'.at = "closed" /\ adm = "open" /\ adm' = "closed" /\ video' = "idle"
              /\ UNCHANGED <<pc, local, remote, fault>>
           \/ /\ listener.at = "closed" /\ listener'.at = "idle" /\ pc' = 0
              /\ UNCHANGED <<video, adm, fault>>
    BY <1>12
    DEF onCloseCloses, onCloseDrops, CloseDevices, DropConnection, Listens, Dies, callVars,
        offerVars, deviceVars, threadVars
  <2>2. UNCHANGED <<Seeking, NoneOf(toClient, Takings), NoneOf(toClient, Ringings)>>
    BY <1>1, <2>1 DEF Seeking, QueryOpen
  <2>3. CASE /\ listener'.at = "closed" /\ adm = "open" /\ adm' = "closed" /\ video' = "idle"
             /\ UNCHANGED <<pc, local, remote, fault>>
    <3>1. ~Seeking
      BY <1>1, <2>3, SeekersHaveNone
    <3> QED
      BY <1>1, <2>1, <2>2, <2>3, <3>1 DEF HeldInv, Held, Covered, Leaving, Rung, NotCancelled
  <2>4. CASE /\ listener.at = "closed" /\ listener'.at = "idle" /\ pc' = 0
             /\ UNCHANGED <<video, adm, fault>>
    <3>1. video # "capturing" /\ adm # "open" /\ ~Seeking' /\ NotCancelled'
      BY <1>1, <2>1, <2>2, <2>4 DEF Held, Half, NotCancelled
    <3> QED
      BY <1>1, <2>4, <3>1, HeldNone
  <2> QED
    BY <1>1, <2>1, <2>3, <2>4, HeldDead
<1> QED
  BY <1>1, <1>5, <1>6, <1>7, <1>8, <1>9, <1>10, <1>11, <1>12 DEF ListenerStep

\* The server takes every call that it is asked to.
LEMMA HeldServer ==
  ASSUME HeldInv, GoodNumbers, Serve \/ Close, TypeOK', "refuse" \notin Env, "cancel" \notin Env
  PROVE  HeldInv'
<1>1. /\ Alive /\ TypeOK /\ fault # "abort" /\ NotCancelled /\ Covered /\ Held
      /\ toServer \in Seq(Requests) /\ toClient \in Seq(Responses) /\ srvRoom \in Ids
  BY DEF Serve, Close, HeldInv, TypeOK, EngineTypeOK, Ids
<1>2. /\ UNCHANGED <<messageQueue, streamWnd, offering, pc, local, remote, video, adm, fault>>
      /\ UNCHANGED <<listener, leaving>>
  <2>1. UNCHANGED <<messageQueue, streamWnd, engineVars>>
    BY <1>1, ServerAnswers DEF Serve, Close, HostCloses, uiVars, windows
  <2> QED
    BY <2>1 DEF engineVars, callVars, offerVars, deviceVars, threadVars
<1>3. CASE Close
  <2> DEFINE r == Response("200", "CLOSE", srvRoom, 0)
  <2>1. r \in Responses /\ r.cmeth = "CLOSE"
    BY <1>1 DEF Response, Responses
  <2>2. toClient' = toClient \o <<r>> /\ UNCHANGED toServer
    BY <1>1, <1>3, <2>1 DEF Close, HostCloses
  <2> HIDE DEF r
  <2>3. <<r>> \in Seq(Responses) /\ NoneOf(<<r>>, CallResps)
    BY <2>1 DEF NoneOf, CallResps, AnswersTo
  <2>4. /\ Keeps(toClient, toClient', Responses, CallResps)
        /\ NoneOf(toClient', Takings) => NoneOf(toClient, Takings)
        /\ NoneOf(toClient', Ringings) => NoneOf(toClient, Ringings)
    BY <1>1, <2>2, <2>3, StillThere DEF Keeps
  <2>5. Covered'
    BY <1>1, <1>2, <2>2, <2>4 DEF Covered, InWnd, Leaving
  <2> QED
    BY <1>1, <1>2, <2>2, <2>4, <2>5, HeldKept DEF Keeps
<1>4. CASE Serve
  <2>1. /\ ServerStep /\ toServer # << >> /\ toServer' = Tail(toServer)
        /\ 1 \in DOMAIN toServer /\ Head(toServer) = toServer[1] /\ Head(toServer) \in Requests
        /\ \A T : Keeps(toServer, toServer', Requests, T)
        /\ \A meths : Head(toServer).meth \notin meths
             => Keeps(toClient, toClient', Responses, AnswersTo(meths))
    BY <1>1, <1>4, ServerAnswers DEF Serve
  <2>2. PICK rs \in Seq(Responses) :
          /\ toClient' = toClient \o rs
          /\ \A i \in DOMAIN rs : rs[i].cmeth = Head(toServer).meth
    BY <1>1, <2>1, ServerAnswers
  <2>3. /\ NoneOf(toClient', Takings) => NoneOf(toClient, Takings)
        /\ NoneOf(toClient', Ringings) => NoneOf(toClient, Ringings)
    BY <1>1, <2>2, StillThere
  <2>4. CASE Head(toServer).meth \notin {"QUERY", "INVITE"}
    <3>1. Keeps(toClient, toClient', Responses, CallResps)
      BY <2>1, <2>4 DEF CallResps
    <3>2. Head(toServer) \notin Invites
      BY <2>4 DEF Invites, OfMeths
    <3>3. NoneOf(toServer', Invites) => NoneOf(toServer, Invites)
      BY <1>1, <2>1, <3>2, StillThere
    <3>4. Covered'
      BY <1>1, <1>2, <2>3, <3>3 DEF Covered, InWnd, Leaving
    <3> QED
      BY <1>1, <1>2, <2>1, <2>3, <3>1, <3>4, HeldKept DEF Keeps
  <2>5. CASE Head(toServer).meth = "QUERY"
    <3>1. Seeking
      BY <2>1, <2>5 DEF Seeking, QueryOpen, NoneOf, Queries, OfMeths
    <3>2. pc = 0 /\ video # "capturing" /\ adm # "open" /\ ~Half'
      BY <1>1, <1>2, <3>1, SeekersHaveNone DEF Half
    <3>3. NotCancelled'
      <4>1. NoneOf(rs, Cancels)
        BY <2>2, <2>5 DEF NoneOf, Cancels
      <4>2. Keeps(toClient, toClient', Responses, Cancels)
        BY <2>2, <4>1 DEF Keeps
      <4> QED
        BY <1>1, <1>2, <4>2, KeptElements DEF NotCancelled
    <3> QED
      BY <1>1, <1>2, <3>2, <3>3, HeldNone
  <2>6. CASE Head(toServer).meth = "INVITE"
    <3>1. Head(toServer).to \notin BadIds /\ Head(toServer).sdp \in Nat
      BY <2>1, <2>6 DEF GoodNumbers, Requests
    <3>2. ServeInvite
      BY <2>1, <2>6 DEF ServerStep, ServeQuery, ServeBye, ServeCreate, ServeInfo, Asked
    <3>3. PICK room \in Rooms : Answers(Accepted(room, Head(toServer).sdp))
      BY <3>1, <3>2 DEF ServeInvite
    <3> DEFINE a == Response("100", "INVITE", room, 0)
               c == Response("180", "INVITE", room, 0)
               b == Response("200", "INVITE", room, Head(toServer).sdp)
    <3>4. /\ a \in Responses /\ a.cmeth = "INVITE" /\ a.code = "100"
          /\ c \in Responses /\ c.cmeth = "INVITE" /\ c.code = "180"
          /\ b \in Responses /\ b.cmeth = "INVITE" /\ b.code = "200"
      BY <3>1 DEF Response, Responses, Ids
    <3>5. toClient' = toClient \o <<a, c, b>>
      BY <3>3 DEF Answers, Accepted
    <3> HIDE DEF a, b, c
    <3> DEFINE as == <<a, c, b>>
    <3>6. as \in Seq(Responses) /\ DOMAIN as = {1, 2, 3} /\ as[1] = a /\ as[2] = c /\ as[3] = b
      BY <3>4
    <3>7. toClient' = toClient \o as
      BY <3>5
    <3> HIDE DEF as
    <3>8. /\ NoneOf(as, Cancels) /\ NoneOf(as, QueryResps)
          /\ ~NoneOf(as, Takings) /\ ~NoneOf(as, Ringings)
      BY <3>4, <3>6 DEF NoneOf, Cancels, QueryResps, AnswersTo, Takings, Ringings
    <3>9. ~NoneOf(toClient', Takings) /\ ~NoneOf(toClient', Ringings)
      BY <1>1, <3>6, <3>7, <3>8, StillThere
    <3>10. /\ Keeps(toClient, toClient', Responses, Cancels)
           /\ Keeps(toClient, toClient', Responses, QueryResps)
      BY <3>6, <3>7, <3>8 DEF Keeps
    <3>11. /\ NotCancelled'
           /\ NoneOf(toClient, QueryResps) => NoneOf(toClient', QueryResps)
           /\ NoneOf(toServer, Queries) => NoneOf(toServer', Queries)
      BY <1>1, <1>2, <2>1, <3>10, KeptElements DEF NotCancelled
    <3>12. Held' /\ Covered' /\ Rung'
      BY <1>1, <1>2, <3>9, <3>11 DEF Held, Half, Seeking, QueryOpen, Covered, Rung
    <3> QED
      BY <1>1, <1>2, <3>11, <3>12 DEF HeldInv
  <2> QED
    BY <2>4, <2>5, <2>6
<1> QED
  BY <1>3, <1>4

LEMMA HeldStutter ==
  ASSUME HeldInv, UNCHANGED vars, TypeOK'
  PROVE  HeldInv'
BY DEF HeldInv, vars, vars0, engineVars, callVars, offerVars, deviceVars, threadVars, uiVars,
       windows, Alive, Held, Half, Seeking, QueryOpen, Covered, Leaving, InWnd, Rung, NotCancelled

\* InitializePeerConnection never finds a connection, for every user who waits until all
\* is quiet before browsing and before asking, as long as offers succeed and the server
\* neither refuses nor cancels: whoever ends the meeting, however early the user leaves,
\* over bookings, sharing, missing meetings and wrong numbers.
THEOREM ConnectsOnce ==
  ASSUME "retry" \notin Env, "browse" \notin Env, "offer_fails" \notin Env,
         "refuse" \notin Env, "cancel" \notin Env
  PROVE  Spec => []NoSecondConnection
<1>1. Init => HeldInv
  <2> SUFFICES ASSUME Init PROVE HeldInv
    OBVIOUS
  <2>1. TypeOK
    BY InitType
  <2>2. /\ pc = 0 /\ video = "null" /\ adm = "null" /\ fault = "none" /\ toClient = << >>
        /\ leaving = "no" /\ listener.at = "idle"
    BY DEF Init, EngineInit
  <2> QED
    BY <2>1, <2>2 DEF HeldInv, Held, Half, Covered, Rung, NotCancelled, NoneOf
<1>2. HeldInv /\ CInv /\ CInv' /\ GoodNumbers /\ DialogInv /\ [Next]_vars => HeldInv'
  <2> SUFFICES ASSUME HeldInv, CInv, CInv', GoodNumbers, DialogInv, [Next]_vars PROVE HeldInv'
    OBVIOUS
  <2>1. TypeOK'
    BY DEF CInv
  <2>2. CASE UserStep
    BY <2>1, <2>2, HeldUser
  <2>3. CASE UIStep
    BY <2>3, HeldUI
  <2>4. CASE SignalingStep
    BY <2>1, <2>4, HeldSignaling
  <2>5. CASE EngineStep
    BY <2>5, HeldListener
  <2>6. CASE Serve \/ Close
    BY <2>1, <2>6, HeldServer
  <2>7. CASE UNCHANGED vars
    BY <2>1, <2>7, HeldStutter
  <2> QED
    BY <2>2, <2>3, <2>4, <2>5, <2>6, <2>7 DEF Next
<1>3. HeldInv => NoSecondConnection
  BY DEF HeldInv, NoSecondConnection
<1>4. Spec => []CInv /\ []GoodNumbers /\ []DialogInv
  BY CallsInvariance, GoodInvariance, DialogInvariance, PTL
<1> QED
  BY <1>1, <1>2, <1>3, <1>4, PTL DEF Spec

=============================================================================
