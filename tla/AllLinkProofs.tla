---------------------------- MODULE AllLinkProofs ----------------------------
(* For all meeting ids, every environment and all bounds: the client's       *)
(* variables keep their types, and a connection is without its devices only  *)
(* between the halves of a teardown.                                         *)
EXTENDS AllLink, SequenceTheorems, TLAPS

\* Where the listener thread may be.
Stages == [at : {"idle", "answered", "joined", "stopping", "closed", "cancelled"}, room : Ids]

\* The two halves of EngineTypeOK: the engine's own variables ...
EngineVarsOK ==
  /\ meetingId \in Ids
  /\ calls \in Nat /\ pc \in Nat /\ local \in Nat /\ remote \in Nat
  /\ offering \in Nat /\ localJsep \in Nat
  /\ adm \in {"null", "closed", "open"}
  /\ video \in {"null", "idle", "capturing"}
  /\ screenOn \in BOOLEAN /\ stats \in {"none", "running", "ending"}
  /\ listener \in Stages
  /\ leaving \in {"no", "stopping", "closed"}
  /\ fault \in {"none", "abort", "null", "freed", "terminate"}

\* ... and the queues.
QueuesOK ==
  /\ toServer \in Seq(Requests)
  /\ toClient \in Seq(Responses)
  /\ messageQueue \in Seq(Messages)

\* The types fall into four parts, which the lemmas treat one by one.
LEMMA TypeParts ==
  TypeOK <=> EngineVarsOK /\ QueuesOK /\ UITypeOK /\ srvRoom \in Rooms \union {NoRoom}
BY Zenon DEF TypeOK, EngineTypeOK, EngineVarsOK, QueuesOK, Stages

\* The same of the next state.
LEMMA TypePartsNext ==
  ASSUME EngineVarsOK', QueuesOK', UITypeOK', srvRoom' \in Rooms \union {NoRoom}
  PROVE  TypeOK'
BY Zenon DEF TypeOK, EngineTypeOK, EngineVarsOK, QueuesOK, Stages

-----------------------------------------------------------------------------
(* The queues.                                                              *)

\* Send leaves a queue of requests.
LEMMA SendType ==
  ASSUME QueuesOK, NEW to \in Ids, NEW sdp \in Nat,
         NEW meth \in {"QUERY", "INVITE", "BYE", "CREATE", "INFO30", "INFO31"},
         Send(meth, to, sdp)
  PROVE  toServer' \in Seq(Requests)
<1>1. Request(meth, to, sdp) \in Requests
  BY DEF Request, Requests
<1> QED BY <1>1, AppendProperties DEF QueuesOK, Send

\* Post leaves a queue of messages.
LEMMA PostType ==
  ASSUME QueuesOK, NEW msgs \in Seq(Messages), Post(msgs)
  PROVE  messageQueue' \in Seq(Messages)
BY ConcatProperties DEF QueuesOK, Post

\* The messages that carry an id are messages.
LEMMA MsgType ==
  ASSUME NEW room \in Ids,
         NEW id \in {"CREATE_MEETING", "JOIN_MEETING", "IS_CREATE", "IS_BOOKING",
                     "IS_JOIN", "MEETING_END", "SET_SHARE", "ADD_TRACK",
                     "CREATE_MEETING_OK", "JOIN_MEETING_OK", "BOOKING_MEETING_OK"}
  PROVE  /\ Msg(id, room) \in Messages
         /\ \A b \in BOOLEAN : [Msg(id, room) EXCEPT !.on = b] \in Messages
BY DEF Msg, Messages

\* What Receive takes is a response, and the rest is a queue of responses.
LEMMA ReceiveType ==
  ASSUME QueuesOK, NEW code, NEW cmeth, Receive(code, cmeth)
  PROVE  /\ Head(toClient).room \in Ids /\ Head(toClient).sdp \in Nat
         /\ toClient' \in Seq(Responses)
<1>1. Head(toClient) \in Responses /\ Tail(toClient) \in Seq(Responses)
  BY HeadTailProperties DEF QueuesOK, Receive
<1>2. Head(toClient).room \in Ids /\ Head(toClient).sdp \in Nat
  BY <1>1 DEF Responses
<1> QED BY <1>1, <1>2 DEF Receive

\* What Takes takes is a message, and the rest is a queue of messages.
LEMMA TakesType ==
  ASSUME QueuesOK, NEW ids, Takes(ids)
  PROVE  /\ Head(messageQueue).room \in Ids /\ Head(messageQueue).on \in BOOLEAN
         /\ messageQueue' \in Seq(Messages)
         /\ toClient' \in Seq(Responses)
<1>1. Head(messageQueue) \in Messages /\ Tail(messageQueue) \in Seq(Messages)
  BY HeadTailProperties DEF QueuesOK, Takes
<1>2. Head(messageQueue).room \in Ids /\ Head(messageQueue).on \in BOOLEAN
  BY <1>1 DEF Messages
<1> QED BY <1>1, <1>2 DEF Takes, QueuesOK

\* Answers leaves queues of requests and of responses.
LEMMA AnswersType ==
  ASSUME QueuesOK, toServer # << >>, NEW rs \in Seq(Responses), Answers(rs)
  PROVE  QueuesOK'
<1>1. toServer' \in Seq(Requests)
  BY HeadTailProperties DEF QueuesOK, Answers
<1>2. toClient' \in Seq(Responses)
  BY ConcatProperties DEF QueuesOK, Answers
<1> QED BY <1>1, <1>2 DEF QueuesOK, Answers

-----------------------------------------------------------------------------
(* The steps that operations and handlers share.                            *)

\* A death changes nothing but fault.
LEMMA DiesType ==
  ASSUME EngineVarsOK, NEW how \in {"abort", "null", "freed", "terminate"}, Dies(how)
  PROVE  EngineVarsOK'
BY Zenon DEF EngineVarsOK, Dies, callVars, offerVars, deviceVars, threadVars

\* A call starts, or the process dies.
LEMMA StartCallType ==
  ASSUME EngineVarsOK, StartCall
  PROVE  EngineVarsOK'
<1>1. CASE Dies("abort") \/ Dies("null")
  BY <1>1, DiesType
<1>2. CASE ~(Dies("abort") \/ Dies("null"))
  <2>1. /\ calls' \in Nat /\ pc' \in Nat /\ local' \in Nat /\ remote' \in Nat /\ offering' \in Nat
        /\ adm' \in {"null", "closed", "open"}
    BY <1>2 DEF EngineVarsOK, StartCall
  <2> QED BY <1>2, <2>1, Zenon DEF EngineVarsOK, StartCall, threadVars
<1> QED BY <1>1, <1>2

\* The three parts of a teardown; goesOn keeps the threads where they may be.
LEMMA TearDownType ==
  ASSUME EngineVarsOK, NEW goesOn \in BOOLEAN,
         goesOn => listener' \in Stages /\ leaving' \in {"no", "stopping", "closed"}
  PROVE  /\ StopStats(goesOn) => EngineVarsOK'
         /\ CloseDevices(goesOn) => EngineVarsOK'
         /\ DropConnection(goesOn) => EngineVarsOK'
<1>1. CASE Dies("null") \/ Dies("terminate")
  BY <1>1, DiesType
<1>2. CASE ~(Dies("null") \/ Dies("terminate"))
  <2>1. ASSUME StopStats(goesOn)
        PROVE  EngineVarsOK'
    <3>1. stats' \in {"none", "running", "ending"}
      BY <1>2, <2>1 DEF StopStats, EngineVarsOK
    <3> QED BY <1>2, <2>1, <3>1, Zenon DEF EngineVarsOK, StopStats, callVars, offerVars
  <2>2. ASSUME CloseDevices(goesOn)
        PROVE  EngineVarsOK'
    <3>1. stats' \in {"none", "running", "ending"}
      BY <1>2, <2>2 DEF CloseDevices, EngineVarsOK
    <3> QED BY <1>2, <2>2, <3>1, Zenon DEF EngineVarsOK, CloseDevices, callVars, offerVars
  <2>3. ASSUME DropConnection(goesOn)
        PROVE  EngineVarsOK'
    <3>1. pc' \in Nat /\ local' \in Nat /\ remote' \in Nat /\ meetingId' \in Ids
      BY <2>3 DEF EngineVarsOK, DropConnection, Ids
    <3> QED BY <2>3, <3>1, Zenon DEF EngineVarsOK, DropConnection, offerVars, deviceVars
  <2> QED BY <2>1, <2>2, <2>3
<1> QED BY <1>1, <1>2

\* Where a teardown leaves the threads.
LEMMA StageType ==
  ASSUME EngineVarsOK
  PROVE  /\ \A at \in {"no", "stopping", "closed"} :
              /\ Leaves(at) \in BOOLEAN
              /\ Leaves(at) => listener' \in Stages /\ leaving' \in {"no", "stopping", "closed"}
         /\ \A at \in {"idle", "stopping", "closed", "cancelled"} :
              /\ Listens(at) \in BOOLEAN
              /\ Listens(at) => listener' \in Stages /\ leaving' \in {"no", "stopping", "closed"}
BY DEF EngineVarsOK, Leaves, Listens, Stages, Ids

\* Sharing is switched, or the process dies.
LEMMA SwitchType ==
  ASSUME EngineVarsOK, NEW on \in BOOLEAN, switchScreenShare(on)
  PROVE  EngineVarsOK'
<1>1. CASE Dies("null")
  BY <1>1, DiesType
<1>2. CASE ~Dies("null")
  BY <1>2, Zenon DEF EngineVarsOK, switchScreenShare, callVars, offerVars, threadVars
<1> QED BY <1>1, <1>2

\* A step that leaves the engine alone leaves its types alone.
LEMMA EngineUnchanged ==
  ASSUME EngineVarsOK, UNCHANGED engineVars
  PROVE  EngineVarsOK'
BY Zenon DEF EngineVarsOK, engineVars, callVars, offerVars, deviceVars, threadVars

-----------------------------------------------------------------------------
(* Type correctness, group by group of the next-state relation.             *)

\* A click posts one message.
LEMMA PostsType ==
  ASSUME TypeOK, NEW m \in Messages, Posts(m)
  PROVE  EngineVarsOK' /\ QueuesOK' /\ sessionId' \in Ids
<1>1. EngineVarsOK'
  BY TypeParts, EngineUnchanged DEF Posts
<1>2. messageQueue' \in Seq(Messages)
  <2>1. <<m>> \in Seq(Messages)
    OBVIOUS
  <2> QED BY <2>1, TypeParts, PostType DEF Posts
<1>3. QueuesOK' /\ sessionId' \in Ids
  BY <1>2, TypeParts DEF Posts, QueuesOK, UITypeOK
<1> QED BY <1>1, <1>3

\* The clicks: VisionCentral changes the windows, the engine nothing.
LEMMA UserType == TypeOK /\ UserStep => TypeOK'
<1> SUFFICES ASSUME TypeOK, UserStep PROVE TypeOK'
  OBVIOUS
<1> USE TypeParts
<1>1. NoRoom \in Ids /\ Rooms \subseteq Ids /\ BadIds \subseteq Ids
  BY DEF Ids
<1>2. srvRoom' \in Rooms \union {NoRoom}
  BY DEF UserStep
<1>3. CASE ClickStart
  <2>1. PICK id \in {"CREATE_MEETING", "JOIN_MEETING"} : Posts(Msg(id, NoRoom))
    BY <1>3 DEF ClickStart
  <2>2. EngineVarsOK' /\ QueuesOK' /\ sessionId' \in Ids
    BY <1>1, <2>1, PostsType, MsgType
  <2>3. UITypeOK'
    BY <1>3, <2>2, Zenon DEF ClickStart, windows, UITypeOK
  <2> QED BY TypePartsNext, <1>2, <2>2, <2>3
<1>4. CASE ClickCloseDialog
  <2>1. EngineVarsOK' /\ QueuesOK'
    BY <1>4, EngineUnchanged DEF ClickCloseDialog, QueuesOK
  <2>2. UITypeOK'
    BY <1>4, Zenon DEF ClickCloseDialog, UITypeOK
  <2> QED BY TypePartsNext, <1>2, <2>1, <2>2
<1>5. CASE ClickCreate
  <2>1. EngineVarsOK' /\ QueuesOK' /\ sessionId' \in Ids
    BY <1>1, <1>5, PostsType, MsgType DEF ClickCreate
  <2>2. requests' \in Nat
    BY <1>5 DEF ClickCreate, UITypeOK
  <2>3. UITypeOK'
    BY <1>5, <2>1, <2>2, Zenon DEF ClickCreate, windows, UITypeOK
  <2> QED BY TypePartsNext, <1>2, <2>1, <2>3
<1>6. CASE ClickBooking
  <2>1. EngineVarsOK' /\ QueuesOK' /\ sessionId' \in Ids
    BY <1>1, <1>6, PostsType, MsgType DEF ClickBooking
  <2>2. requests' \in Nat
    BY <1>6 DEF ClickBooking, UITypeOK
  <2>3. UITypeOK'
    BY <1>6, <2>1, <2>2, Zenon DEF ClickBooking, windows, UITypeOK
  <2> QED BY TypePartsNext, <1>2, <2>1, <2>3
<1>7. ASSUME NEW m \in Rooms \union BadIds, ClickJoin(m)
      PROVE  TypeOK'
  <2>1. EngineVarsOK' /\ QueuesOK' /\ sessionId' \in Ids
    BY <1>1, <1>7, PostsType, MsgType DEF ClickJoin
  <2>2. requests' \in Nat
    BY <1>7 DEF ClickJoin, UITypeOK
  <2>3. UITypeOK'
    BY <1>7, <2>1, <2>2, Zenon DEF ClickJoin, windows, UITypeOK
  <2> QED BY TypePartsNext, <1>2, <2>1, <2>3
<1>8. CASE ClickLeave
  <2>1. EngineVarsOK' /\ QueuesOK' /\ sessionId' \in Ids
    BY <1>1, <1>8, PostsType, MsgType DEF ClickLeave
  <2>2. UITypeOK'
    BY <1>8, <2>1, Zenon DEF ClickLeave, windows, UITypeOK
  <2> QED BY TypePartsNext, <1>2, <2>1, <2>2
<1>9. CASE ClickShare
  <2>1. [Msg("SET_SHARE", NoRoom) EXCEPT !.on = ~shareState] \in Messages
    BY <1>1, MsgType
  <2>2. EngineVarsOK' /\ QueuesOK' /\ sessionId' \in Ids
    BY <1>9, <2>1, PostsType DEF ClickShare
  <2>3. requests' \in Nat
    BY <1>9 DEF ClickShare, UITypeOK
  <2>4. UITypeOK'
    BY <1>9, <2>2, <2>3, Zenon DEF ClickShare, UITypeOK
  <2> QED BY TypePartsNext, <1>2, <2>2, <2>4
<1> QED BY <1>3, <1>4, <1>5, <1>6, <1>7, <1>8, <1>9
        DEF UserStep, Browses, Asks, Departs, Shares

\* The messages that update handles, with the operations they call.
LEMMA UIType == TypeOK /\ UIStep => TypeOK'
<1> SUFFICES ASSUME TypeOK, UIStep PROVE TypeOK'
  OBVIOUS
<1> USE TypeParts
<1>1. NoRoom \in Ids /\ meetingId \in Ids /\ sessionId \in Ids
  BY DEF Ids, EngineVarsOK, UITypeOK
<1>2. srvRoom' \in Rooms \union {NoRoom}
  BY DEF UIStep
\* The parts that most messages leave alone.
<1>3. ASSUME NEW ids, Takes(ids)
      PROVE  /\ Head(messageQueue).room \in Ids /\ Head(messageQueue).on \in BOOLEAN
             /\ toServer' \in Seq(Requests) => QueuesOK'
             /\ UNCHANGED toServer => QueuesOK'
             /\ requests' \in Nat
  <2>1. /\ Head(messageQueue).room \in Ids /\ Head(messageQueue).on \in BOOLEAN
        /\ messageQueue' \in Seq(Messages) /\ toClient' \in Seq(Responses)
    BY <1>3, TakesType
  <2>2. requests' \in Nat
    BY <1>3 DEF Takes, UITypeOK
  <2> QED BY <2>1, <2>2, Zenon DEF QueuesOK
<1>4. CASE UpdateEnter
  <2>1. EngineVarsOK' /\ QueuesOK' /\ requests' \in Nat
    BY <1>3, <1>4, EngineUnchanged DEF UpdateEnter
  <2>2. UITypeOK'
    BY <1>4, <2>1, Zenon DEF UpdateEnter, UITypeOK
  <2> QED BY TypePartsNext, <1>2, <2>1, <2>2
<1>5. CASE UpdateIsCreate
  <2>1. EngineVarsOK' /\ QueuesOK' /\ requests' \in Nat
    BY <1>3, <1>5, StartCallType DEF UpdateIsCreate, createMeeting
  <2>2. UITypeOK'
    BY <1>5, <2>1, Zenon DEF UpdateIsCreate, windows, UITypeOK
  <2> QED BY TypePartsNext, <1>2, <2>1, <2>2
<1>6. CASE UpdateIsBooking
  <2>1. toServer' \in Seq(Requests)
    BY <1>1, <1>6, SendType DEF UpdateIsBooking, scheduleMeeting
  <2>2. EngineVarsOK' /\ QueuesOK' /\ requests' \in Nat
    BY <1>3, <1>6, <2>1, EngineUnchanged DEF UpdateIsBooking, scheduleMeeting
  <2>3. UITypeOK'
    BY <1>6, <2>2, Zenon DEF UpdateIsBooking, windows, UITypeOK
  <2> QED BY TypePartsNext, <1>2, <2>2, <2>3
<1>7. CASE UpdateIsJoin
  <2>1. Head(messageQueue).room \in Ids
    BY <1>3, <1>7 DEF UpdateIsJoin
  <2>2. toServer' \in Seq(Requests)
    BY <1>7, <2>1, SendType DEF UpdateIsJoin, joinMeeting
  <2>3. QueuesOK' /\ requests' \in Nat
    BY <1>3, <1>7, <2>2 DEF UpdateIsJoin
  <2>4. EngineVarsOK'
    BY <1>7, <2>1, Zenon
    DEF UpdateIsJoin, joinMeeting, EngineVarsOK, callVars, offerVars, deviceVars, threadVars
  <2>5. UITypeOK'
    BY <1>7, <2>1, <2>3, Zenon DEF UpdateIsJoin, windows, UITypeOK
  <2> QED BY TypePartsNext, <1>2, <2>3, <2>4, <2>5
<1>8. CASE UpdateMeetingEnd
  <2>1. toServer' \in Seq(Requests)
    BY <1>1, <1>8, SendType DEF UpdateMeetingEnd, exitMeeting
  <2>2. EngineVarsOK' /\ QueuesOK' /\ requests' \in Nat
    BY <1>3, <1>8, <2>1, TearDownType, StageType DEF UpdateMeetingEnd, exitMeeting
  <2>3. UITypeOK'
    BY <1>8, <2>2, Zenon DEF UpdateMeetingEnd, UITypeOK
  <2> QED BY TypePartsNext, <1>2, <2>2, <2>3
<1>9. CASE UpdateSetShare
  <2>1. toServer' \in Seq(Requests)
    BY <1>1, <1>9, SendType DEF UpdateSetShare, switchScreenShare
  <2>2. EngineVarsOK' /\ QueuesOK' /\ requests' \in Nat
    BY <1>3, <1>9, <2>1, SwitchType DEF UpdateSetShare
  <2>3. UITypeOK'
    BY <1>9, <2>2, Zenon DEF UpdateSetShare, windows, UITypeOK
  <2> QED BY TypePartsNext, <1>2, <2>2, <2>3
<1>10. CASE UpdateAddTrack
  <2>1. EngineVarsOK' /\ QueuesOK' /\ requests' \in Nat
    BY <1>3, <1>10, EngineUnchanged DEF UpdateAddTrack
  <2>2. UITypeOK'
    BY <1>10, <2>1, Zenon DEF UpdateAddTrack, UITypeOK
  <2> QED BY TypePartsNext, <1>2, <2>1, <2>2
<1>11. CASE UpdateCreateMeetingOK
  <2>1. EngineVarsOK' /\ QueuesOK' /\ requests' \in Nat /\ Head(messageQueue).room \in Ids
    BY <1>3, <1>11, EngineUnchanged DEF UpdateCreateMeetingOK
  <2>2. UITypeOK'
    BY <1>11, <2>1, Zenon DEF UpdateCreateMeetingOK, windows, UITypeOK
  <2> QED BY TypePartsNext, <1>2, <2>1, <2>2
<1>12. CASE UpdateJoinMeetingOK
  <2>1. EngineVarsOK' /\ QueuesOK' /\ requests' \in Nat
    BY <1>3, <1>12, EngineUnchanged DEF UpdateJoinMeetingOK
  <2>2. UITypeOK'
    BY <1>12, <2>1, Zenon DEF UpdateJoinMeetingOK, windows, UITypeOK
  <2> QED BY TypePartsNext, <1>2, <2>1, <2>2
<1>13. CASE UpdateBookingOK
  <2>1. EngineVarsOK' /\ QueuesOK' /\ requests' \in Nat
    BY <1>3, <1>13, EngineUnchanged DEF UpdateBookingOK
  <2>2. UITypeOK'
    BY <1>13, <2>1, Zenon DEF UpdateBookingOK, UITypeOK
  <2> QED BY TypePartsNext, <1>2, <2>1, <2>2
<1>14. CASE ExitMeeting
  <2>1. EngineVarsOK'
    BY <1>14, TearDownType, StageType DEF ExitMeeting, exitMeetingCloses, exitMeetingDrops
  <2>2. QueuesOK' /\ UITypeOK'
    BY <1>14, Zenon
    DEF ExitMeeting, exitMeetingCloses, exitMeetingDrops, QueuesOK, uiVars, windows, UITypeOK
  <2> QED BY TypePartsNext, <1>2, <2>1, <2>2
<1> QED BY <1>4, <1>5, <1>6, <1>7, <1>8, <1>9, <1>10, <1>11, <1>12, <1>13, <1>14
        DEF UIStep, update

\* The offer comes back, or fails.
LEMMA SignalingType == TypeOK /\ SignalingStep => TypeOK'
<1> SUFFICES ASSUME TypeOK, SignalingStep PROVE TypeOK'
  OBVIOUS
<1> USE TypeParts
<1>1. UITypeOK' /\ srvRoom' \in Rooms \union {NoRoom}
  BY DEF SignalingStep, uiVars, windows, UITypeOK
<1>2. CASE OnSuccess
  <2>1. toServer' \in Seq(Requests)
    BY <1>2, SendType DEF OnSuccess, EngineVarsOK
  <2>2. EngineVarsOK'
    BY <1>2, Zenon DEF OnSuccess, EngineVarsOK, callVars, deviceVars, threadVars
  <2> QED BY TypePartsNext, <1>1, <1>2, <2>1, <2>2 DEF OnSuccess, QueuesOK
<1>3. CASE OnFailure
  <2>1. offering' \in Nat
    BY <1>3 DEF OnFailure
  <2>2. EngineVarsOK'
    BY <1>3, <2>1, Zenon DEF OnFailure, EngineVarsOK, callVars, deviceVars, threadVars
  <2> QED BY TypePartsNext, <1>1, <1>3, <2>2 DEF OnFailure, QueuesOK
<1> QED BY <1>2, <1>3 DEF SignalingStep

\* The responses that the listener thread handles.
LEMMA EngineType == TypeOK /\ EngineStep => TypeOK'
<1> SUFFICES ASSUME TypeOK, EngineStep PROVE TypeOK'
  OBVIOUS
<1> USE TypeParts
<1>1. UITypeOK' /\ srvRoom' \in Rooms \union {NoRoom}
  BY DEF EngineStep, uiVars, windows, UITypeOK
<1>2. NoRoom \in Ids
  BY DEF Ids
<1>3. ASSUME NEW code, NEW cmeth, Receive(code, cmeth),
             UNCHANGED <<toServer, messageQueue>>
      PROVE  QueuesOK'
  BY <1>3, ReceiveType DEF QueuesOK
<1>4. CASE onTrying
  BY <1>1, <1>3, <1>4, EngineUnchanged, TypePartsNext DEF onTrying
<1>5. CASE onRinging
  <2>1. EngineVarsOK'
    <3>1. CASE UNCHANGED engineVars
      BY <3>1, EngineUnchanged
    <3>2. CASE Dies("null")
      BY <3>2, DiesType
    <3>3. CASE /\ local' = localJsep /\ remote' = 0
               /\ UNCHANGED <<meetingId, pc, offerVars, deviceVars, threadVars, fault>>
      <4>1. local' \in Nat /\ remote' \in Nat
        BY <3>3 DEF EngineVarsOK
      <4> QED BY <3>3, <4>1, Zenon DEF EngineVarsOK, offerVars, deviceVars, threadVars
    <3> QED BY <1>5, <3>1, <3>2, <3>3 DEF onRinging
  <2> QED BY <1>1, <1>3, <1>5, <2>1, TypePartsNext DEF onRinging
<1>6. CASE onOKQuery
  <2>1. EngineVarsOK'
    BY <1>6, EngineUnchanged, StartCallType DEF onOKQuery
  <2> QED BY <1>1, <1>3, <1>6, <2>1, TypePartsNext DEF onOKQuery
<1>7. CASE onOKInvite
  <2>1. /\ Head(toClient).room \in Ids /\ Head(toClient).sdp \in Nat
        /\ toClient' \in Seq(Responses)
    BY <1>7, ReceiveType DEF onOKInvite
  <2>2. CASE Dies("null") /\ UNCHANGED messageQueue
    BY <1>1, <1>3, <1>7, <2>2, DiesType, TypePartsNext DEF onOKInvite
  <2>3. CASE ~(Dies("null") /\ UNCHANGED messageQueue)
    <3>1. listener' \in Stages
      BY <1>7, <2>1, <2>3 DEF onOKInvite, Stages
    <3>2. remote' \in Nat
      BY <1>7, <2>1, <2>3 DEF onOKInvite, EngineVarsOK
    <3>3. EngineVarsOK'
      BY <1>7, <2>3, <3>1, <3>2, Zenon DEF onOKInvite, EngineVarsOK, offerVars, deviceVars, threadVars
    <3>4. messageQueue' \in Seq(Messages)
      <4>1. <<Msg("ADD_TRACK", NoRoom)>> \in Seq(Messages)
        BY <1>2, MsgType
      <4> QED BY <1>7, <2>3, <4>1, PostType DEF onOKInvite, QueuesOK
    <3> QED BY <1>1, <1>7, <2>1, <3>3, <3>4, TypePartsNext DEF onOKInvite, QueuesOK
  <2> QED BY <2>2, <2>3
<1>8. CASE OnJoined
  <2>1. listener' \in Stages /\ listener.room \in Ids
    BY <1>8 DEF OnJoined, EngineVarsOK, Stages
  <2>2. meetingId' \in Ids
    BY <1>8, <2>1 DEF OnJoined, EngineVarsOK
  <2>3. EngineVarsOK'
    BY <1>8, <2>1, <2>2, Zenon DEF OnJoined, EngineVarsOK, callVars, offerVars, deviceVars, threadVars
  <2>4. messageQueue' \in Seq(Messages)
    <3>1. /\ Msg("CREATE_MEETING_OK", listener.room) \in Messages
          /\ Msg("JOIN_MEETING_OK", NoRoom) \in Messages
      BY <1>2, <2>1, MsgType
    <3>2. /\ <<Msg("CREATE_MEETING_OK", listener.room), Msg("JOIN_MEETING_OK", NoRoom)>>
               \in Seq(Messages)
          /\ <<Msg("JOIN_MEETING_OK", NoRoom)>> \in Seq(Messages)
      BY <3>1
    <3> QED BY <1>8, <3>2, PostType DEF OnJoined
  <2> QED BY <1>1, <1>8, <2>3, <2>4, TypePartsNext DEF OnJoined, QueuesOK
<1>9. CASE OnStarted
  <2>1. listener' \in Stages \/ Dies("terminate")
    BY <1>9, StageType DEF OnStarted
  <2>2. EngineVarsOK'
    BY <1>9, <2>1, DiesType, Zenon DEF OnStarted, EngineVarsOK, Listens, callVars, offerVars
  <2> QED BY <1>1, <1>9, <2>2, TypePartsNext DEF OnStarted, QueuesOK
<1>10. CASE onOKInfo31
  <2>1. EngineVarsOK'
    BY <1>10, EngineUnchanged, DiesType DEF onOKInfo31
  <2> QED BY <1>1, <1>3, <1>10, <2>1, TypePartsNext DEF onOKInfo31
<1>11. CASE onOKInfo30
  BY <1>1, <1>3, <1>11, EngineUnchanged, TypePartsNext DEF onOKInfo30
\* Only the meeting id changes.
<1>12. ASSUME meetingId' \in Ids, UNCHANGED <<callVars, offerVars, deviceVars, threadVars, fault>>
       PROVE  EngineVarsOK'
  BY <1>12, Zenon DEF EngineVarsOK, callVars, offerVars, deviceVars, threadVars
<1>13. CASE onOKBye
  <2>1. EngineVarsOK'
    BY <1>2, <1>12, <1>13 DEF onOKBye
  <2> QED BY <1>1, <1>3, <1>13, <2>1, TypePartsNext DEF onOKBye
<1>14. CASE onOKCreate
  <2>1. Head(toClient).room \in Ids /\ toClient' \in Seq(Responses)
    BY <1>14, ReceiveType DEF onOKCreate
  <2>2. EngineVarsOK'
    BY <1>12, <1>14, <2>1 DEF onOKCreate
  <2>3. <<Msg("BOOKING_MEETING_OK", Head(toClient).room)>> \in Seq(Messages)
    BY <2>1, MsgType
  <2>4. messageQueue' \in Seq(Messages)
    BY <1>14, <2>3, PostType DEF onOKCreate
  <2> QED BY <1>1, <1>14, <2>1, <2>2, <2>4, TypePartsNext DEF onOKCreate, QueuesOK
<1>15. CASE onOKClose
  <2>1. EngineVarsOK'
    BY <1>15, TearDownType, StageType DEF onOKClose
  <2> QED BY <1>1, <1>3, <1>15, <2>1, TypePartsNext DEF onOKClose
\* The handlers' later parts take no response.
<1>20. CASE onCloseCloses \/ onCloseDrops
  <2>1. EngineVarsOK'
    BY <1>20, TearDownType, StageType DEF onCloseCloses, onCloseDrops
  <2> QED BY <1>1, <1>20, <2>1, TypePartsNext DEF onCloseCloses, onCloseDrops, QueuesOK
<1>16. CASE onUnauthorizedInvite
  <2>1. EngineVarsOK'
    BY <1>2, <1>12, <1>16 DEF onUnauthorizedInvite
  <2> QED BY <1>1, <1>3, <1>16, <2>1, TypePartsNext DEF onUnauthorizedInvite
<1>17. CASE onUnauthorizedBye
  BY <1>1, <1>3, <1>17, EngineUnchanged, TypePartsNext DEF onUnauthorizedBye
<1>18. CASE onCancelInvite
  <2>1. CASE Dies("null") \/ Dies("terminate")
    <3>1. EngineVarsOK'
      BY <2>1, DiesType
    <3> QED BY <1>1, <1>3, <1>18, <3>1, TypePartsNext DEF onCancelInvite
  <2>2. CASE ~(Dies("null") \/ Dies("terminate"))
    <3>1. listener' \in Stages /\ leaving' \in {"no", "stopping", "closed"}
      BY <1>18, <2>2, StageType DEF onCancelInvite
    <3>2. EngineVarsOK'
      BY <1>2, <1>18, <2>2, <3>1, Zenon DEF onCancelInvite, EngineVarsOK, callVars, offerVars
    <3> QED BY <1>1, <1>3, <1>18, <3>2, TypePartsNext DEF onCancelInvite
  <2> QED BY <2>1, <2>2
<1>21. CASE onCancelDrops
  <2>1. CASE Dies("freed")
    <3>1. EngineVarsOK'
      BY <2>1, DiesType
    <3> QED BY <1>1, <1>21, <3>1, TypePartsNext DEF onCancelDrops, QueuesOK
  <2>2. CASE ~Dies("freed")
    <3>1. /\ pc' \in Nat /\ local' \in Nat /\ remote' \in Nat /\ offering' \in Nat
          /\ listener' \in Stages /\ leaving' \in {"no", "stopping", "closed"}
      BY <1>21, <2>2, StageType DEF onCancelDrops
    <3>2. EngineVarsOK'
      BY <1>21, <2>2, <3>1, Zenon DEF onCancelDrops, EngineVarsOK, deviceVars
    <3> QED BY <1>1, <1>21, <3>2, TypePartsNext DEF onCancelDrops, QueuesOK
  <2> QED BY <2>1, <2>2
<1>19. CASE onCancelQuery
  <2>1. pc' \in Nat /\ local' \in Nat /\ remote' \in Nat
    BY <1>19 DEF onCancelQuery
  <2>2. EngineVarsOK'
    BY <1>2, <1>19, <2>1, Zenon DEF onCancelQuery, EngineVarsOK, offerVars, deviceVars, threadVars
  <2> QED BY <1>1, <1>3, <1>19, <2>2, TypePartsNext DEF onCancelQuery
<1> QED BY <1>4, <1>5, <1>6, <1>7, <1>8, <1>9, <1>10, <1>11, <1>13, <1>14,
           <1>15, <1>16, <1>17, <1>18, <1>19, <1>20, <1>21 DEF EngineStep, ListenerStep

\* The server's answers, and its message that a meeting is over.
LEMMA ServerType == TypeOK /\ (Serve \/ Close) => TypeOK'
<1> SUFFICES ASSUME TypeOK, Serve \/ Close PROVE TypeOK'
  OBVIOUS
<1> USE TypeParts
<1>1. UITypeOK'
  BY DEF Serve, Close, uiVars, windows, UITypeOK
<1>2. Rooms \subseteq Ids /\ NoRoom \in Ids /\ srvRoom \in Ids
  BY DEF Ids
<1>3. ASSUME toServer # << >>
      PROVE  /\ Head(toServer).sdp \in Nat
             /\ Head(toServer).meth \in {"QUERY", "INVITE", "BYE", "CREATE", "INFO30", "INFO31"}
  <2>1. Head(toServer) \in Requests
    BY <1>3, HeadTailProperties DEF QueuesOK
  <2> QED BY <2>1 DEF Requests
<1>4. ASSUME NEW code \in {"100", "180", "200", "401", "CANCEL"},
             NEW cmeth \in {"QUERY", "INVITE", "BYE", "CLOSE", "CREATE", "INFO30", "INFO31"},
             NEW room \in Ids, NEW sdp \in Nat
      PROVE  Response(code, cmeth, room, sdp) \in Responses
  BY <1>4 DEF Response, Responses
<1>5. ASSUME toServer # << >>, NEW rs \in Seq(Responses), Answers(rs),
             srvRoom' \in Rooms \union {NoRoom}
      PROVE  TypeOK'
  <2>1. QueuesOK'
    BY <1>5, AnswersType
  <2>2. EngineVarsOK'
    BY <1>5, EngineUnchanged DEF Answers
  <2> QED BY <1>1, <1>5, <2>1, <2>2, TypePartsNext
\* One response is a sequence of responses.
<1>6. ASSUME NEW r \in Responses
      PROVE  <<r>> \in Seq(Responses)
  OBVIOUS
<1>7. CASE Serve /\ ServeQuery
  <2>1. PICK r \in Responses : Answers(<<r>>)
    BY <1>2, <1>4, <1>7 DEF ServeQuery
  <2> QED BY <1>5, <1>6, <1>7, <2>1 DEF ServeQuery, Asked
<1>8. CASE Serve /\ ServeInvite
  <2>1. toServer # << >> /\ Head(toServer).sdp \in Nat
    BY <1>3, <1>8 DEF ServeInvite, Asked
  <2>2. ASSUME NEW room \in Rooms
        PROVE  Accepted(room, Head(toServer).sdp) \in Seq(Responses)
    <3>1. /\ Response("100", "INVITE", room, 0) \in Responses
          /\ Response("180", "INVITE", room, 0) \in Responses
          /\ Response("200", "INVITE", room, Head(toServer).sdp) \in Responses
      BY <1>2, <1>4, <2>1
    <3> QED BY <3>1 DEF Accepted
  <2>3. Refused \in Seq(Responses) /\ Cancelled \in Seq(Responses)
    <3>1. \A code \in {"100", "180", "401", "CANCEL"} :
             Response(code, "INVITE", NoRoom, 0) \in Responses
      BY <1>2, <1>4
    <3> QED BY <3>1 DEF Refused, Cancelled
  <2>4. PICK rs \in Seq(Responses) : Answers(rs) /\ srvRoom' \in Rooms \union {NoRoom}
    BY <1>8, <2>2, <2>3 DEF ServeInvite
  <2> QED BY <1>5, <2>1, <2>4
<1>9. CASE Serve /\ ServeBye
  <2>1. PICK r \in Responses : Answers(<<r>>) /\ srvRoom' \in Rooms \union {NoRoom}
    BY <1>2, <1>4, <1>9 DEF ServeBye
  <2> QED BY <1>5, <1>6, <1>9, <2>1 DEF ServeBye, Asked
<1>10. CASE Serve /\ ServeCreate
  <2>1. PICK r \in Responses : Answers(<<r>>)
    BY <1>2, <1>4, <1>10 DEF ServeCreate
  <2> QED BY <1>5, <1>6, <1>10, <2>1 DEF ServeCreate, Asked
<1>11. CASE Serve /\ ServeInfo
  <2>1. toServer # << >> /\ Head(toServer).meth \in {"INFO30", "INFO31"}
    BY <1>11 DEF ServeInfo, Asked
  <2>2. PICK r \in Responses : Answers(<<r>>)
    BY <1>2, <1>4, <1>11, <2>1 DEF ServeInfo
  <2> QED BY <1>5, <1>6, <1>11, <2>1, <2>2 DEF ServeInfo
<1>12. CASE Close
  <2>1. Response("200", "CLOSE", srvRoom, 0) \in Responses
    BY <1>2, <1>4
  <2>2. toClient' \in Seq(Responses)
    BY <1>12, <2>1, AppendProperties DEF Close, HostCloses, QueuesOK
  <2>3. EngineVarsOK'
    BY <1>12, EngineUnchanged DEF Close, HostCloses
  <2> QED BY <1>1, <1>12, <2>2, <2>3, TypePartsNext DEF Close, HostCloses, QueuesOK
<1> QED BY <1>7, <1>8, <1>9, <1>10, <1>11, <1>12 DEF Serve, ServerStep

\* The client starts with its types.
LEMMA InitType == Init => TypeOK
<1> SUFFICES ASSUME Init PROVE TypeOK
  OBVIOUS
<1>1. EngineVarsOK
  BY DEF Init, EngineInit, EngineVarsOK, Stages, Ids
<1>2. QueuesOK
  BY DEF Init, EngineInit, QueuesOK
<1>3. UITypeOK /\ srvRoom \in Rooms \union {NoRoom}
  BY DEF Init, UIInit, UITypeOK, Ids
<1> QED BY <1>1, <1>2, <1>3, TypeParts

\* Every step keeps the types.
LEMMA NextType == TypeOK /\ [Next]_vars => TypeOK'
<1> SUFFICES ASSUME TypeOK, [Next]_vars PROVE TypeOK'
  OBVIOUS
<1>1. CASE UNCHANGED vars
  <2>1. EngineVarsOK'
    BY <1>1, TypeParts, EngineUnchanged DEF vars, vars0
  <2>2. QueuesOK' /\ UITypeOK' /\ srvRoom' \in Rooms \union {NoRoom}
    BY <1>1, TypeParts DEF vars, vars0, uiVars, windows, QueuesOK, UITypeOK
  <2> QED BY <2>1, <2>2, TypePartsNext
<1> QED BY <1>1, UserType, UIType, SignalingType, EngineType, ServerType DEF Next

\* The variables of the client keep their types, whatever the environment does.
THEOREM TypeCorrect == Spec => []TypeOK
BY InitType, NextType, PTL DEF Spec

-----------------------------------------------------------------------------
(* A connection is without its devices only between the halves of a teardown.*)

\* StartCall opens the devices with the connection, or the process dies.
LEMMA StartCallDevices ==
  ASSUME StartCall
  PROVE  ConnectionHasDevices'
BY DEF StartCall, Dies, ConnectionHasDevices, Alive

\* A step that touches neither the connection nor its devices, nor a teardown.
LEMMA DevicesUntouched ==
  ASSUME ConnectionHasDevices, UNCHANGED <<pc, adm, video, leaving, listener, fault>>
  PROVE  ConnectionHasDevices'
BY DEF ConnectionHasDevices, Alive

\* A step that moves a thread, which neither was nor is between the halves.
LEMMA DevicesElsewhere ==
  ASSUME ConnectionHasDevices, UNCHANGED <<pc, adm, video, fault>>,
         UNCHANGED leaving \/ "closed" \notin {leaving, leaving'},
         UNCHANGED listener \/ listener.at \notin {"closed", "cancelled"}
  PROVE  ConnectionHasDevices'
BY DEF ConnectionHasDevices, Alive

\* The parts of a teardown: the first touches no device, the second leaves the thread
\* between the halves, the third drops the connection; or the process dies.
LEMMA TearDownDevices ==
  ASSUME ConnectionHasDevices, TypeOK,
         \/ leaving = "no" /\ StopStats(Leaves("stopping"))
         \/ leaving = "stopping" /\ CloseDevices(Leaves("closed"))
         \/ listener.at = "idle" /\ StopStats(Listens("stopping"))
         \/ listener.at = "stopping" /\ CloseDevices(Listens("closed"))
         \/ DropConnection(Leaves("no"))
         \/ DropConnection(Listens("idle"))
  PROVE  ConnectionHasDevices'
<1>1. CASE Dies("null") \/ Dies("terminate")
  BY <1>1 DEF Dies, ConnectionHasDevices, Alive
<1>2. CASE DropConnection(Leaves("no")) \/ DropConnection(Listens("idle"))
  BY <1>2 DEF DropConnection, ConnectionHasDevices
<1>3. CASE ~(Dies("null") \/ Dies("terminate"))
           /\ leaving = "no" /\ StopStats(Leaves("stopping"))
  BY <1>3, DevicesElsewhere DEF StopStats, Leaves, callVars
<1>4. CASE ~(Dies("null") \/ Dies("terminate"))
           /\ listener.at = "idle" /\ StopStats(Listens("stopping"))
  BY <1>4, DevicesElsewhere DEF StopStats, Listens, callVars
<1>5. CASE ~(Dies("null") \/ Dies("terminate")) /\ CloseDevices(Leaves("closed"))
  BY <1>5 DEF CloseDevices, Leaves, ConnectionHasDevices
<1>6. CASE ~(Dies("null") \/ Dies("terminate")) /\ CloseDevices(Listens("closed"))
  BY <1>6 DEF CloseDevices, Listens, ConnectionHasDevices
<1> QED BY <1>1, <1>2, <1>3, <1>4, <1>5, <1>6

\* Every step keeps the devices of a connection, or is between the halves of a teardown,
\* or drops the connection, or is the process's last.
LEMMA DevicesNext == TypeOK /\ ConnectionHasDevices /\ [Next]_vars => ConnectionHasDevices'
<1> SUFFICES ASSUME TypeOK, ConnectionHasDevices, [Next]_vars PROVE ConnectionHasDevices'
  OBVIOUS
<1>1. ASSUME UNCHANGED engineVars
      PROVE  UNCHANGED <<pc, adm, video, leaving, listener, fault>>
  BY <1>1 DEF engineVars, callVars, deviceVars, threadVars
<1>2. CASE UNCHANGED vars
  BY <1>1, <1>2, DevicesUntouched DEF vars, vars0
<1>3. CASE UserStep
  <2>1. UNCHANGED engineVars
    BY <1>3 DEF UserStep, Browses, Asks, Departs, Shares, ClickStart, ClickCloseDialog,
                ClickCreate, ClickJoin, ClickBooking, ClickLeave, ClickShare, Posts
  <2> QED BY <1>1, <2>1, DevicesUntouched
<1>4. CASE UIStep
  <2>1. CASE UpdateIsCreate
    BY <2>1, StartCallDevices DEF UpdateIsCreate, createMeeting
  <2>2. CASE UpdateMeetingEnd \/ ExitMeeting
    BY <2>2, TearDownDevices
    DEF UpdateMeetingEnd, Takes, ExitMeeting, exitMeeting, exitMeetingCloses, exitMeetingDrops
  <2>3. CASE UpdateSetShare
    BY <2>3, DevicesUntouched
    DEF UpdateSetShare, switchScreenShare, Dies, callVars, threadVars, ConnectionHasDevices,
        Alive
  <2>4. CASE UpdateIsJoin
    BY <2>4, DevicesUntouched DEF UpdateIsJoin, joinMeeting, callVars, deviceVars, threadVars
  <2>5. CASE UpdateEnter \/ UpdateIsBooking \/ UpdateAddTrack \/ UpdateCreateMeetingOK
             \/ UpdateJoinMeetingOK \/ UpdateBookingOK
    BY <1>1, <2>5, DevicesUntouched
    DEF UpdateEnter, UpdateIsBooking, scheduleMeeting, UpdateAddTrack,
        UpdateCreateMeetingOK, UpdateJoinMeetingOK, UpdateBookingOK
  <2> QED BY <1>4, <2>1, <2>2, <2>3, <2>4, <2>5 DEF UIStep, update
<1>5. CASE SignalingStep
  BY <1>5, DevicesUntouched
  DEF SignalingStep, OnSuccess, OnFailure, callVars, deviceVars, threadVars
<1>6. CASE EngineStep
  <2>1. CASE onOKQuery
    BY <1>1, <2>1, StartCallDevices, DevicesUntouched DEF onOKQuery
  <2>2. CASE onOKClose \/ onCloseCloses \/ onCloseDrops
    BY <2>2, TearDownDevices DEF onOKClose, Receive, onCloseCloses, onCloseDrops
  \* The thread goes between the halves, or the process dies.
  <2>3. CASE onCancelInvite
    BY <2>3 DEF onCancelInvite, Listens, Dies, ConnectionHasDevices, Alive
  \* The connection is dropped, or the process dies.
  <2>4. CASE onCancelDrops \/ onCancelQuery
    BY <2>4 DEF onCancelDrops, onCancelQuery, Dies, ConnectionHasDevices, Alive
  <2>5. CASE onRinging \/ onOKInfo31
    BY <1>1, <2>5, DevicesUntouched
    DEF onRinging, onOKInfo31, Dies, deviceVars, threadVars, ConnectionHasDevices, Alive
  <2>6. CASE onOKInvite
    BY <2>6, DevicesElsewhere
    DEF onOKInvite, Receive, Dies, deviceVars, ConnectionHasDevices, Alive
  <2>7. CASE OnJoined \/ OnStarted
    BY <2>7, DevicesElsewhere
    DEF OnJoined, OnStarted, Listens, Dies, callVars, deviceVars, ConnectionHasDevices, Alive
  <2>8. CASE onOKBye \/ onOKCreate \/ onUnauthorizedInvite
    BY <2>8, DevicesUntouched
    DEF onOKBye, onOKCreate, onUnauthorizedInvite, callVars, deviceVars, threadVars
  <2>9. CASE onTrying \/ onOKInfo30 \/ onUnauthorizedBye
    BY <1>1, <2>9, DevicesUntouched DEF onTrying, onOKInfo30, onUnauthorizedBye
  <2> QED BY <1>6, <2>1, <2>2, <2>3, <2>4, <2>5, <2>6, <2>7, <2>8, <2>9
          DEF EngineStep, ListenerStep
<1>7. CASE Serve \/ Close
  <2>1. UNCHANGED engineVars
    BY <1>7 DEF Serve, Close, ServerStep, ServeQuery, ServeInvite, ServeBye, ServeCreate,
                ServeInfo, HostCloses, Answers
  <2> QED BY <1>1, <2>1, DevicesUntouched
<1> QED BY <1>2, <1>3, <1>4, <1>5, <1>6, <1>7 DEF Next

\* Whatever the user clicks and the server answers, on whichever thread the call ends:
\* a connection whose capturers do not run is one that a teardown is about to drop.
THEOREM DevicesOutliveConnection == Spec => []ConnectionHasDevices
<1>1. Init => ConnectionHasDevices
  BY DEF Init, EngineInit, ConnectionHasDevices
<1> QED BY <1>1, DevicesNext, TypeCorrect, PTL DEF Spec
=============================================================================
