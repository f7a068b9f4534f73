---------------------------- MODULE SignalServer ----------------------------
(* The signalling server, of which the repository has only the client's     *)
(* side: it answers the requests of RtcConnectEngine in their order, with   *)
(* the responses that the engine's handlers expect.  What it may do besides *)
(* saying yes is chosen by Env.                                             *)
EXTENDS RtcConnectEngine

VARIABLE srvRoom  \* the meeting in which the server has this client

Response(code, cmeth, room, sdp) ==
  [code |-> code, cmeth |-> cmeth, room |-> room, sdp |-> sdp]

\* The next request is of this method ...
Asked(meth) == toServer # << >> /\ Head(toServer).meth = meth

\* ... and is answered so.
Answers(responses) ==
  /\ toServer' = Tail(toServer)
  /\ toClient' = toClient \o responses
  /\ UNCHANGED <<engineVars, messageQueue>>

\* QUERY: the meeting exists, or it does not.
ServeQuery ==
  /\ Asked("QUERY")
  /\ \/ /\ Head(toServer).to \in Rooms
        /\ Answers(<<Response("200", "QUERY", Head(toServer).to, 0)>>)
     \/ /\ "no_room" \in Env \/ Head(toServer).to \notin Rooms
        /\ Answers(<<Response("CANCEL", "QUERY", NoRoom, 0)>>)
  /\ UNCHANGED srvRoom

\* INVITE: to a meeting, or for a new one; taken, refused, or cancelled before
\* it is answered.
Accepted(room, sdp) ==
  <<Response("100", "INVITE", room, 0), Response("180", "INVITE", room, 0),
    Response("200", "INVITE", room, sdp)>>

Refused == <<Response("100", "INVITE", NoRoom, 0), Response("401", "INVITE", NoRoom, 0)>>

Cancelled ==
  <<Response("100", "INVITE", NoRoom, 0), Response("180", "INVITE", NoRoom, 0),
    Response("CANCEL", "INVITE", NoRoom, 0)>>

ServeInvite ==
  /\ Asked("INVITE")
  /\ \/ \E room \in Rooms :
          /\ Head(toServer).to \in {room, NoRoom}
          /\ Answers(Accepted(room, Head(toServer).sdp))
          /\ srvRoom' = room
     \/ /\ "refuse" \in Env \/ Head(toServer).to \in BadIds
        /\ Answers(Refused)
        /\ UNCHANGED srvRoom
     \/ /\ "cancel" \in Env
        /\ Answers(Cancelled)
        /\ UNCHANGED srvRoom

\* BYE: from the meeting the client is in, or refused.
ServeBye ==
  /\ Asked("BYE")
  /\ IF srvRoom # NoRoom /\ Head(toServer).to = srvRoom
     THEN /\ Answers(<<Response("200", "BYE", NoRoom, 0)>>)
          /\ srvRoom' = NoRoom
     ELSE /\ Answers(<<Response("401", "BYE", NoRoom, 0)>>)
          /\ UNCHANGED srvRoom

\* CREATE: a meeting is booked.
ServeCreate ==
  /\ Asked("CREATE")
  /\ \E room \in Rooms : Answers(<<Response("200", "CREATE", room, 0)>>)
  /\ UNCHANGED srvRoom

\* INFO: the screen is shared (31) or no longer (30).
ServeInfo ==
  /\ Asked("INFO30") \/ Asked("INFO31")
  /\ Answers(<<Response("200", Head(toServer).meth, NoRoom, 0)>>)
  /\ UNCHANGED srvRoom

\* Someone else ends the meeting: the server tells its members.
HostCloses ==
  /\ "close" \in Env
  /\ srvRoom # NoRoom
  /\ srvRoom' = NoRoom
  /\ toClient' = Append(toClient, Response("200", "CLOSE", srvRoom, 0))
  /\ UNCHANGED <<engineVars, toServer, messageQueue>>

ServerStep == ServeQuery \/ ServeInvite \/ ServeBye \/ ServeCreate \/ ServeInfo
=============================================================================
