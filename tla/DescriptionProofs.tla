-------------------------- MODULE DescriptionProofs --------------------------
(* That the descriptions of a connection are its own (OwnDescriptions), for a *)
(* user who asks for a call only when all is quiet.  The invariant follows    *)
(* the one call that is under way: from the click to the request, the offer,  *)
(* the INVITE and the response that ends it, exactly one of which there is.   *)
EXTENDS AllLinkProofs

NoneOf(q, T) == \A i \in DOMAIN q : q[i] \notin T
AtMostOne(q, T) == \A i, j \in DOMAIN q : (q[i] \in T /\ q[j] \in T) => i = j

\* What a call is while it is under way: the user's message, then the request, then
\* the response, with the offer in between.
AskMsgs == {m \in Messages : m.id \in {"IS_CREATE", "IS_JOIN"}}
CallReqs == {r \in Requests : r.meth \in {"QUERY", "INVITE"}}
Finals ==
  {r \in Responses : \/ r.cmeth = "QUERY"
                     \/ r.cmeth = "INVITE" /\ r.code \in {"200", "401", "CANCEL"}}
Ringings == {r \in Responses : r.cmeth = "INVITE" /\ r.code = "180"}
OfCall == Finals \union Ringings

OneCall ==
  /\ AtMostOne(messageQueue, AskMsgs) /\ AtMostOne(toServer, CallReqs)
  /\ AtMostOne(toClient, Finals)
  /\ NoneOf(messageQueue, AskMsgs)
       \/ (NoneOf(toServer, CallReqs) /\ NoneOf(toClient, Finals) /\ offering = 0)
  /\ NoneOf(toServer, CallReqs) \/ (NoneOf(toClient, Finals) /\ offering = 0)
  /\ NoneOf(toClient, Finals) \/ offering = 0

\* Ringing comes before the response that ends the call.
RingsFirst ==
  \A i \in DOMAIN toClient :
    toClient[i] \in Ringings => \E j \in DOMAIN toClient : j > i /\ toClient[j] \in Finals

\* Everything under way belongs to the newest call.
OfNewest ==
  /\ pc \in {0, calls} /\ offering \in {0, calls}
  /\ \A i \in DOMAIN toServer :
       toServer[i].meth = "INVITE" => toServer[i].sdp = calls /\ localJsep = calls
  /\ \A i \in DOMAIN toClient :
       /\ toClient[i] \in Ringings => localJsep = calls
       /\ (toClient[i].cmeth = "INVITE" /\ toClient[i].code = "200") => toClient[i].sdp = calls

Owned == local \in {0, pc} /\ remote \in {0, local}

CInv == TypeOK /\ (Alive => OneCall /\ RingsFirst /\ OfNewest /\ Owned)

-----------------------------------------------------------------------------
(* Sequences.                                                               *)

\* The places of a tail.
LEMMA TailPlaces ==
  ASSUME NEW S, NEW q \in Seq(S), q # << >>
  PROVE  /\ Tail(q) \in Seq(S) /\ 1 \in DOMAIN q /\ Head(q) = q[1]
         /\ \A i \in DOMAIN Tail(q) : i \in Nat /\ i + 1 \in DOMAIN q /\ Tail(q)[i] = q[i + 1]
         /\ \A i \in DOMAIN q : i \in Nat /\ (i = 1 \/ (i - 1 \in DOMAIN Tail(q)
                                                        /\ Tail(q)[i - 1] = q[i]))
<1>1. Len(q) \in Nat /\ Len(q) > 0 /\ Len(Tail(q)) = Len(q) - 1
  OBVIOUS
<1>2. DOMAIN q = 1..Len(q) /\ DOMAIN Tail(q) = 1..Len(q) - 1
  BY <1>1
<1>3. \A i \in 1..Len(q) - 1 : Tail(q)[i] = q[i + 1]
  BY <1>1
<1> QED
  BY <1>1, <1>2, <1>3

\* The places of a concatenation.
LEMMA ConcatPlaces ==
  ASSUME NEW S, NEW q \in Seq(S), NEW r \in Seq(S)
  PROVE  /\ q \o r \in Seq(S) /\ Len(q) \in Nat
         /\ \A i \in DOMAIN (q \o r) : i \in Nat /\
              \/ i \in DOMAIN q /\ (q \o r)[i] = q[i]
              \/ i > Len(q) /\ i - Len(q) \in DOMAIN r /\ (q \o r)[i] = r[i - Len(q)]
         /\ \A i \in DOMAIN q : i \in Nat /\ i <= Len(q) /\ i \in DOMAIN (q \o r)
                                /\ (q \o r)[i] = q[i]
         /\ \A i \in DOMAIN r : i \in Nat /\ i + Len(q) \in DOMAIN (q \o r)
                                /\ (q \o r)[i + Len(q)] = r[i]
<1>1. Len(q) \in Nat /\ Len(r) \in Nat /\ Len(q \o r) = Len(q) + Len(r)
  OBVIOUS
<1>2. DOMAIN q = 1..Len(q) /\ DOMAIN r = 1..Len(r) /\ DOMAIN (q \o r) = 1..Len(q) + Len(r)
  BY <1>1
<1>3. \A i \in 1..Len(q) + Len(r) :
        (q \o r)[i] = IF i <= Len(q) THEN q[i] ELSE r[i - Len(q)]
  BY ConcatProperties
<1> QED
  BY <1>1, <1>2, <1>3

\* The queue n comes from q without a new element of T.
Keeps(q, n, S, T) ==
  \/ n = q
  \/ q # << >> /\ n = Tail(q)
  \/ \E r \in Seq(S) : NoneOf(r, T) /\ n = q \o r

\* What holds of the elements of T still holds of them.
LEMMA KeptElements ==
  ASSUME NEW S, NEW T, NEW q \in Seq(S), NEW n, Keeps(q, n, S, T)
  PROVE  /\ \A i \in DOMAIN n : n[i] \in T => \E j \in DOMAIN q : q[j] = n[i]
         /\ NoneOf(q, T) => NoneOf(n, T)
         /\ AtMostOne(q, T) => AtMostOne(n, T)
<1>1. CASE n = q
  BY <1>1
<1>2. CASE q # << >> /\ n = Tail(q)
  <2>1. \A i \in DOMAIN n : i \in Nat /\ i + 1 \in DOMAIN q /\ n[i] = q[i + 1]
    BY <1>2, TailPlaces
  <2>2. AtMostOne(q, T) => AtMostOne(n, T)
    <3> SUFFICES ASSUME AtMostOne(q, T), NEW i \in DOMAIN n, NEW j \in DOMAIN n,
                        n[i] \in T, n[j] \in T
                 PROVE  i = j
      BY DEF AtMostOne
    <3>1. i + 1 = j + 1
      BY <2>1 DEF AtMostOne
    <3> QED
      BY <2>1, <3>1
  <2> QED
    BY <2>1, <2>2 DEF NoneOf
<1>3. ASSUME NEW r \in Seq(S), NoneOf(r, T), n = q \o r
      PROVE  \A i \in DOMAIN n : n[i] \in T => i \in DOMAIN q /\ q[i] = n[i]
  BY <1>3, ConcatPlaces DEF NoneOf
<1>4. CASE \E r \in Seq(S) : NoneOf(r, T) /\ n = q \o r
  <2>1. \A i \in DOMAIN n : n[i] \in T => i \in DOMAIN q /\ q[i] = n[i]
    BY <1>3, <1>4
  <2> QED
    BY <2>1 DEF NoneOf, AtMostOne
<1> QED
  BY <1>1, <1>2, <1>4 DEF Keeps

\* The one element of T is taken ...
LEMMA TakenOne ==
  ASSUME NEW S, NEW T, NEW q \in Seq(S), q # << >>, Head(q) \in T, AtMostOne(q, T)
  PROVE  NoneOf(Tail(q), T)
<1> SUFFICES ASSUME NEW i \in DOMAIN Tail(q), Tail(q)[i] \in T PROVE FALSE
  BY DEF NoneOf
<1>1. i \in Nat /\ i + 1 \in DOMAIN q /\ q[i + 1] \in T /\ 1 \in DOMAIN q /\ q[1] \in T
  BY TailPlaces
<1>2. i + 1 = 1
  BY <1>1 DEF AtMostOne
<1>3. i \in DOMAIN Tail(q) /\ DOMAIN Tail(q) = 1..Len(Tail(q))
  BY TailPlaces
<1> QED
  BY <1>1, <1>2, <1>3

\* ... or added.
LEMMA AddedOne ==
  ASSUME NEW S, NEW T, NEW q \in Seq(S), NoneOf(q, T), NEW r \in Seq(S), AtMostOne(r, T)
  PROVE  AtMostOne(q \o r, T)
<1> SUFFICES ASSUME NEW i \in DOMAIN (q \o r), NEW j \in DOMAIN (q \o r),
                    (q \o r)[i] \in T, (q \o r)[j] \in T
             PROVE  i = j
  BY DEF AtMostOne
<1>1. /\ i \in Nat /\ i - Len(q) \in DOMAIN r /\ r[i - Len(q)] \in T
      /\ j \in Nat /\ j - Len(q) \in DOMAIN r /\ r[j - Len(q)] \in T
  BY ConcatPlaces DEF NoneOf
<1>2. i - Len(q) = j - Len(q)
  BY <1>1 DEF AtMostOne
<1> QED
  BY <1>1, <1>2, ConcatPlaces

\* One element is at most one of T.
LEMMA SingleOne ==
  ASSUME NEW T, NEW m
  PROVE  AtMostOne(<<m>>, T) /\ (m \notin T => NoneOf(<<m>>, T))
BY DEF AtMostOne, NoneOf

-----------------------------------------------------------------------------
(* Steps of one kind.                                                       *)

\* The last step of the process.
LEMMA Dead ==
  ASSUME TypeOK', fault' # "none"
  PROVE  CInv'
BY DEF CInv, Alive

\* Without a response that ends the call nothing rings.
LEMMA NothingRings ==
  ASSUME RingsFirst, NoneOf(toClient, Finals)
  PROVE  NoneOf(toClient, Ringings)
BY DEF RingsFirst, NoneOf

\* Taking a response, or adding some that do not concern the call.
LEMMA RingsKept ==
  ASSUME QueuesOK, RingsFirst, AtMostOne(toClient, Finals),
         Keeps(toClient, toClient', Responses, OfCall)
  PROVE  RingsFirst'
<1>1. toClient \in Seq(Responses)
  BY DEF QueuesOK
<1>2. CASE toClient' = toClient
  BY <1>2 DEF RingsFirst
<1>3. CASE toClient # << >> /\ toClient' = Tail(toClient)
  <2> SUFFICES ASSUME NEW i \in DOMAIN Tail(toClient), Tail(toClient)[i] \in Ringings
               PROVE  \E j \in DOMAIN Tail(toClient) : j > i /\ Tail(toClient)[j] \in Finals
    BY <1>3 DEF RingsFirst
  <2>1. i \in Nat /\ i + 1 \in DOMAIN toClient /\ toClient[i + 1] \in Ringings
    BY <1>1, <1>3, TailPlaces
  <2>2. PICK j \in DOMAIN toClient : j > i + 1 /\ toClient[j] \in Finals
    BY <2>1 DEF RingsFirst
  <2>3. j \in Nat /\ j # 1
    BY <1>1, <1>3, <2>1, <2>2, TailPlaces
  <2>4. j - 1 \in DOMAIN Tail(toClient) /\ Tail(toClient)[j - 1] = toClient[j]
    BY <1>1, <1>3, <2>3, TailPlaces
  <2> QED
    BY <2>1, <2>2, <2>3, <2>4
<1>4. ASSUME NEW r \in Seq(Responses), NoneOf(r, OfCall),
             toClient' = toClient \o r
      PROVE  RingsFirst'
  <2> SUFFICES ASSUME NEW i \in DOMAIN (toClient \o r), (toClient \o r)[i] \in Ringings
               PROVE  \E j \in DOMAIN (toClient \o r) : j > i /\ (toClient \o r)[j] \in Finals
    BY <1>4 DEF RingsFirst
  <2>1. i \in DOMAIN toClient /\ toClient[i] \in Ringings
    BY <1>1, <1>4, ConcatPlaces DEF NoneOf, OfCall
  <2>2. PICK j \in DOMAIN toClient : j > i /\ toClient[j] \in Finals
    BY <2>1 DEF RingsFirst
  <2> QED
    BY <1>1, <2>2, ConcatPlaces
<1> QED
  BY <1>2, <1>3, <1>4 DEF Keeps

\* Finals by themselves, and what they are by their fields.
LEMMA FinalsAndRingings ==
  /\ \A n, q :
       Keeps(q, n, Responses, OfCall) => Keeps(q, n, Responses, Finals)
  /\ \A r \in Responses : (r.cmeth = "INVITE" /\ r.code = "200") => r \in Finals
<1>1. \A r : NoneOf(r, OfCall) => NoneOf(r, Finals)
  BY DEF NoneOf, OfCall
<1>2. \A n, q : Keeps(q, n, Responses, OfCall) => Keeps(q, n, Responses, Finals)
  BY <1>1 DEF Keeps
<1>3. \A r \in Responses : (r.cmeth = "INVITE" /\ r.code = "200") => r \in Finals
  BY DEF Finals
<1> QED
  BY <1>2, <1>3

\* A step that neither starts a call nor moves it on, but may end it.
LEMMA Uneventful ==
  ASSUME CInv, Alive, TypeOK',
         Keeps(messageQueue, messageQueue', Messages, AskMsgs),
         Keeps(toServer, toServer', Requests, CallReqs),
         Keeps(toClient, toClient', Responses, OfCall),
         UNCHANGED <<calls, localJsep>>, offering' \in {0, offering}, pc' \in {0, pc}, Owned'
  PROVE  CInv'
<1>1. /\ messageQueue \in Seq(Messages) /\ toServer \in Seq(Requests)
      /\ toClient \in Seq(Responses) /\ QueuesOK
      /\ toServer' \in Seq(Requests) /\ toClient' \in Seq(Responses)
  BY TypeParts DEF CInv, TypeOK, EngineTypeOK, QueuesOK
<1>2. OneCall /\ RingsFirst /\ OfNewest
  BY DEF CInv
<1>3. /\ NoneOf(messageQueue, AskMsgs) => NoneOf(messageQueue', AskMsgs)
      /\ AtMostOne(messageQueue, AskMsgs) => AtMostOne(messageQueue', AskMsgs)
  BY <1>1, KeptElements
<1>4. /\ \A i \in DOMAIN toServer' : toServer'[i] \in CallReqs
           => \E j \in DOMAIN toServer : toServer[j] = toServer'[i]
      /\ NoneOf(toServer, CallReqs) => NoneOf(toServer', CallReqs)
      /\ AtMostOne(toServer, CallReqs) => AtMostOne(toServer', CallReqs)
  BY <1>1, KeptElements
<1>5. /\ \A i \in DOMAIN toClient' : toClient'[i] \in OfCall
           => \E j \in DOMAIN toClient : toClient[j] = toClient'[i]
      /\ NoneOf(toClient, OfCall) => NoneOf(toClient', OfCall)
      /\ AtMostOne(toClient, OfCall) => AtMostOne(toClient', OfCall)
  BY <1>1, KeptElements
<1>6. /\ NoneOf(toClient, Finals) => NoneOf(toClient', Finals)
      /\ AtMostOne(toClient, Finals) => AtMostOne(toClient', Finals)
  <2>1. Keeps(toClient, toClient', Responses, Finals)
    BY FinalsAndRingings
  <2> QED
    BY <1>1, <2>1, KeptElements
<1>7. OneCall'
  BY <1>2, <1>3, <1>4, <1>6 DEF OneCall
<1>8. RingsFirst'
  BY <1>1, <1>2, RingsKept DEF OneCall
<1>9. OfNewest'
  <2>1. pc' \in {0, calls'} /\ offering' \in {0, calls'}
    BY <1>2 DEF OfNewest
  <2>2. ASSUME NEW i \in DOMAIN toServer', toServer'[i].meth = "INVITE"
        PROVE  toServer'[i].sdp = calls' /\ localJsep' = calls'
    <3>1. toServer'[i] \in CallReqs
      BY <1>1, <2>2 DEF CallReqs
    <3> QED
      BY <1>2, <1>4, <2>2, <3>1 DEF OfNewest
  <2>3. ASSUME NEW i \in DOMAIN toClient'
        PROVE  /\ toClient'[i] \in Ringings => localJsep' = calls'
               /\ (toClient'[i].cmeth = "INVITE" /\ toClient'[i].code = "200")
                    => toClient'[i].sdp = calls'
    <3>1. toClient'[i] \in Responses
      BY <1>1
    <3>2. CASE toClient'[i] \in OfCall
      BY <1>2, <1>5, <3>2 DEF OfNewest
    <3>3. CASE toClient'[i] \notin OfCall
      BY <3>1, <3>3, FinalsAndRingings DEF OfCall
    <3> QED
      BY <3>2, <3>3
  <2> QED
    BY <2>1, <2>2, <2>3 DEF OfNewest
<1> QED
  BY <1>7, <1>8, <1>9 DEF CInv

\* The call itself: no other was under way, and all that there is belongs to it.
LEMMA Starts ==
  ASSUME CInv, Alive, TypeOK', StartCall,
         NoneOf(messageQueue', AskMsgs), NoneOf(toServer, CallReqs), UNCHANGED toServer,
         NoneOf(toClient', Finals), NoneOf(toClient', Ringings)
  PROVE  CInv'
<1>1. CASE Dies("abort") \/ Dies("null")
  BY <1>1, Dead DEF Dies
<1>2. CASE ~(Dies("abort") \/ Dies("null"))
  <2>1. /\ pc' = calls' /\ offering' = calls' /\ local' = 0 /\ remote' = 0
        /\ toServer' \in Seq(Requests) /\ toClient' \in Seq(Responses)
    BY <1>2 DEF StartCall, TypeOK, EngineTypeOK
  <2>2. OneCall' /\ RingsFirst' /\ Owned'
    BY <2>1 DEF OneCall, RingsFirst, Owned, NoneOf, AtMostOne
  <2>3. \A i \in DOMAIN toServer' : toServer'[i].meth # "INVITE"
    <3>1. \A i \in DOMAIN toServer' : toServer'[i] \in Requests /\ toServer'[i] \notin CallReqs
      BY <2>1 DEF NoneOf
    <3> QED
      BY <3>1 DEF CallReqs
  <2>4. \A i \in DOMAIN toClient' :
          /\ toClient'[i] \notin Ringings
          /\ ~(toClient'[i].cmeth = "INVITE" /\ toClient'[i].code = "200")
    <3>1. \A i \in DOMAIN toClient' : toClient'[i] \in Responses
      BY <2>1
    <3> QED
      BY <3>1, FinalsAndRingings DEF NoneOf
  <2> QED
    BY <2>1, <2>2, <2>3, <2>4 DEF CInv, OfNewest
<1> QED
  BY <1>1, <1>2

-----------------------------------------------------------------------------
(* The steps.                                                               *)

\* A request that is no part of a call.
LEMMA SendKeeps ==
  ASSUME TypeOK, NEW to \in Ids, NEW meth \in {"BYE", "CREATE", "INFO30", "INFO31"},
         Send(meth, to, 0)
  PROVE  Keeps(toServer, toServer', Requests, CallReqs)
<1>1. Request(meth, to, 0) \in Requests /\ Request(meth, to, 0) \notin CallReqs
  BY DEF Request, Requests, CallReqs
<1>2. toServer \in Seq(Requests)
  BY DEF TypeOK, EngineTypeOK
<1>3. toServer' = toServer \o <<Request(meth, to, 0)>>
  BY <1>1, <1>2 DEF Send
<1>4. <<Request(meth, to, 0)>> \in Seq(Requests)
  BY <1>1
<1>5. NoneOf(<<Request(meth, to, 0)>>, CallReqs)
  BY <1>1, SingleOne
<1> QED
  BY <1>3, <1>4, <1>5 DEF Keeps

\* The user's clicks; a call is asked for when no other is under way.
LEMMA UserCalls ==
  ASSUME CInv, UserStep, TypeOK', "retry" \notin Env
  PROVE  CInv'
<1>1. UNCHANGED engineVars /\ UNCHANGED <<toServer, toClient>> /\ Alive
  BY DEF UserStep, Browses, Asks, Departs, Shares, ClickStart, ClickCloseDialog,
         ClickCreate, ClickJoin, ClickBooking, ClickLeave, ClickShare, Posts
<1>2. /\ UNCHANGED <<calls, localJsep, offering, pc, local, remote, fault>>
      /\ offering' \in {0, offering} /\ pc' \in {0, pc} /\ Owned'
  BY <1>1 DEF engineVars, callVars, offerVars, CInv, Owned
<1>3. /\ Keeps(toServer, toServer', Requests, CallReqs)
      /\ Keeps(toClient, toClient', Responses, OfCall)
  BY <1>1 DEF Keeps
<1>4. ASSUME UNCHANGED messageQueue PROVE CInv'
  <2>1. Keeps(messageQueue, messageQueue', Messages, AskMsgs)
    BY <1>4 DEF Keeps
  <2> QED
    BY <1>1, <1>2, <1>3, <2>1, Uneventful
<1>5. ASSUME NEW m \in Messages, m.id \notin {"IS_CREATE", "IS_JOIN"},
             messageQueue' = messageQueue \o <<m>>
      PROVE  CInv'
  <2>1. m \notin AskMsgs
    BY <1>5 DEF AskMsgs
  <2>2. <<m>> \in Seq(Messages) /\ NoneOf(<<m>>, AskMsgs)
    BY <2>1, SingleOne
  <2>3. Keeps(messageQueue, messageQueue', Messages, AskMsgs)
    BY <1>5, <2>2 DEF Keeps
  <2> QED
    BY <1>1, <1>2, <1>3, <2>3, Uneventful
<1>6. ASSUME NEW m \in Messages, Quiet, messageQueue' = messageQueue \o <<m>>
      PROVE  CInv'
  <2>1. messageQueue' = <<m>>
    BY <1>6 DEF Quiet
  <2>2. AtMostOne(messageQueue', AskMsgs)
    BY <2>1, SingleOne
  <2>3. toServer' = << >> /\ toClient' = << >> /\ offering' = 0
    BY <1>1, <1>2, <1>6 DEF Quiet
  <2>4. OneCall' /\ RingsFirst' /\ OfNewest'
    BY <1>1, <1>2, <2>2, <2>3 DEF OneCall, RingsFirst, OfNewest, NoneOf, AtMostOne, CInv
  <2> QED
    BY <1>2, <2>4 DEF CInv
<1>7. \A m \in Messages : Posts(m) => messageQueue' = messageQueue \o <<m>>
  BY DEF Posts, Post
<1>8. CASE ClickStart
  <2>1. \A id \in {"CREATE_MEETING", "JOIN_MEETING"} :
          Msg(id, NoRoom) \in Messages /\ Msg(id, NoRoom).id = id
    BY MsgType DEF Ids, Msg
  <2> QED
    BY <1>5, <1>7, <1>8, <2>1 DEF ClickStart
<1>9. CASE ClickCloseDialog
  BY <1>4, <1>9 DEF ClickCloseDialog
<1>10. CASE ClickLeave
  <2>1. Msg("MEETING_END", NoRoom) \in Messages /\ Msg("MEETING_END", NoRoom).id = "MEETING_END"
    BY MsgType DEF Ids, Msg
  <2> QED
    BY <1>5, <1>7, <1>10, <2>1 DEF ClickLeave
<1>11. CASE ClickShare
  <2>1. [Msg("SET_SHARE", NoRoom) EXCEPT !.on = ~shareState] \in Messages
    BY MsgType DEF Ids, CInv, TypeOK, UITypeOK
  <2>2. [Msg("SET_SHARE", NoRoom) EXCEPT !.on = ~shareState].id = "SET_SHARE"
    BY DEF Msg
  <2> QED
    BY <1>5, <1>7, <1>11, <2>1, <2>2 DEF ClickShare
<1>12. CASE Asks
  <2>1. Quiet
    BY <1>12 DEF Asks, Waits
  <2>2. Msg("IS_CREATE", NoRoom) \in Messages /\ Msg("IS_BOOKING", NoRoom) \in Messages
        /\ \A m \in Rooms \union BadIds : Msg("IS_JOIN", m) \in Messages
    BY MsgType DEF Ids
  <2>3. CASE ClickCreate \/ ClickBooking
    BY <1>6, <1>7, <2>1, <2>2, <2>3 DEF ClickCreate, ClickBooking
  <2>4. ASSUME NEW m \in Rooms \union BadIds, ClickJoin(m) PROVE CInv'
    BY <1>6, <1>7, <2>1, <2>2, <2>4 DEF ClickJoin
  <2> QED
    BY <1>12, <2>3, <2>4 DEF Asks
<1> QED
  BY <1>8, <1>9, <1>10, <1>11, <1>12 DEF UserStep, Browses, Departs, Shares

\* A teardown touches the connection only to drop it, or is the last step.
LEMMA TearDownOwns ==
  ASSUME CInv, Alive, NEW goesOn,
         StopStats(goesOn) \/ CloseDevices(goesOn) \/ DropConnection(goesOn)
  PROVE  \/ fault' # "none"
         \/ /\ UNCHANGED <<calls, localJsep, offering>>
            /\ pc' \in {0, pc} /\ Owned'
<1>1. CASE StopStats(goesOn)
  BY <1>1 DEF StopStats, CInv, Dies, Owned, callVars, offerVars
<1>2. CASE CloseDevices(goesOn)
  BY <1>2 DEF CloseDevices, CInv, Dies, Owned, callVars, offerVars
<1>3. CASE DropConnection(goesOn)
  BY <1>3 DEF DropConnection, Owned, offerVars
<1> QED
  BY <1>1, <1>2, <1>3

\* The UI thread: a call starts (UpdateIsCreate), or its request goes out (UpdateIsJoin).
LEMMA UICalls ==
  ASSUME CInv, UIStep, TypeOK'
  PROVE  CInv'
<1>1. /\ Alive /\ TypeOK /\ OneCall /\ RingsFirst /\ OfNewest /\ Owned
      /\ messageQueue \in Seq(Messages) /\ toServer \in Seq(Requests)
  BY DEF UIStep, CInv, TypeOK, EngineTypeOK
<1>2. ASSUME NEW ids, Takes(ids)
      PROVE  /\ Keeps(messageQueue, messageQueue', Messages, AskMsgs)
             /\ Keeps(toClient, toClient', Responses, OfCall)
  BY <1>2 DEF Takes, Keeps
<1>3. ASSUME UNCHANGED toServer PROVE Keeps(toServer, toServer', Requests, CallReqs)
  BY <1>3 DEF Keeps
<1>4. ASSUME UNCHANGED engineVars
      PROVE  UNCHANGED <<calls, localJsep, offering, pc, local, remote>> /\ Owned'
  BY <1>1, <1>4 DEF engineVars, callVars, offerVars, Owned
<1>5. ASSUME Takes({"IS_CREATE"}) \/ Takes({"IS_JOIN"})
      PROVE  /\ NoneOf(messageQueue', AskMsgs) /\ NoneOf(toServer, CallReqs)
             /\ NoneOf(toClient, Finals) /\ NoneOf(toClient, Ringings) /\ offering = 0
             /\ UNCHANGED toClient
  <2>1. messageQueue # << >> /\ Head(messageQueue) \in AskMsgs
        /\ messageQueue' = Tail(messageQueue) /\ UNCHANGED toClient
    BY <1>1, <1>5, TailPlaces DEF Takes, AskMsgs
  <2>2. NoneOf(messageQueue', AskMsgs)
    BY <1>1, <2>1, TakenOne DEF OneCall
  <2>3. ~NoneOf(messageQueue, AskMsgs)
    BY <1>1, <2>1, TailPlaces DEF NoneOf
  <2> QED
    BY <1>1, <2>1, <2>2, <2>3, NothingRings DEF OneCall
<1>6. CASE UpdateIsCreate
  <2>1. UNCHANGED <<toServer, toClient>> /\ StartCall
    BY <1>5, <1>6 DEF UpdateIsCreate, createMeeting
  <2> QED
    BY <1>1, <1>5, <1>6, <2>1, Starts DEF UpdateIsCreate, NoneOf
<1>7. CASE UpdateIsJoin
  <2>1. /\ Send("QUERY", Head(messageQueue).room, 0)
        /\ UNCHANGED <<calls, localJsep, offering, pc, local, remote, toClient>>
    BY <1>5, <1>7 DEF UpdateIsJoin, joinMeeting, callVars, offerVars
  <2> DEFINE r == Request("QUERY", Head(messageQueue).room, 0)
  <2>2. r \in Requests /\ r.meth = "QUERY"
    <3>1. Head(messageQueue) \in Messages
      BY <1>1, <1>7, TailPlaces DEF UpdateIsJoin, Takes
    <3> QED
      BY <3>1 DEF Messages, Request, Requests
  <2>3. <<r>> \in Seq(Requests) /\ toServer' = toServer \o <<r>>
    BY <1>1, <2>1, <2>2 DEF Send
  <2>4. AtMostOne(toServer', CallReqs)
    BY <1>1, <1>5, <1>7, <2>3, SingleOne, AddedOne DEF UpdateIsJoin
  <2>5. OneCall'
    BY <1>5, <1>7, <2>1, <2>4 DEF UpdateIsJoin, OneCall, NoneOf, AtMostOne
  <2>6. RingsFirst' /\ Owned'
    BY <1>1, <2>1 DEF RingsFirst, Owned
  <2>7. \A i \in DOMAIN toServer' : toServer'[i].meth = "INVITE"
          => \E j \in DOMAIN toServer : toServer[j] = toServer'[i]
    BY <1>1, <2>2, <2>3, ConcatPlaces
  <2>8. OfNewest'
    BY <1>1, <2>1, <2>7 DEF OfNewest
  <2> QED
    BY <2>5, <2>6, <2>8 DEF CInv
<1>8. CASE UpdateMeetingEnd
  <2>1. Takes({"MEETING_END"}) /\ Send("BYE", meetingId, 0) /\ StopStats(Leaves("stopping"))
    BY <1>8 DEF UpdateMeetingEnd, exitMeeting
  <2>2. Keeps(toServer, toServer', Requests, CallReqs)
    BY <1>1, <2>1, SendKeeps DEF TypeOK, EngineTypeOK
  <2> QED
    BY <1>1, <1>2, <2>1, <2>2, TearDownOwns, Dead, Uneventful
<1>13. CASE ExitMeeting
  <2>1. /\ UNCHANGED <<toServer, toClient, messageQueue>>
        /\ CloseDevices(Leaves("closed")) \/ DropConnection(Leaves("no"))
    BY <1>13 DEF ExitMeeting, exitMeetingCloses, exitMeetingDrops
  <2> QED
    BY <1>1, <2>1, TearDownOwns, Dead, Uneventful DEF Keeps
<1>9. CASE UpdateSetShare
  <2>1. Takes({"SET_SHARE"}) /\ switchScreenShare(Head(messageQueue).on)
    BY <1>9 DEF UpdateSetShare
  <2>2. Keeps(toServer, toServer', Requests, CallReqs)
    BY <1>1, <2>1, SendKeeps DEF switchScreenShare, TypeOK, EngineTypeOK
  <2>3. UNCHANGED <<calls, localJsep, offering, pc, local, remote>>
    BY <2>1 DEF switchScreenShare, Dies, callVars, offerVars
  <2> QED
    BY <1>1, <1>2, <2>1, <2>2, <2>3, Uneventful DEF Owned
<1>10. CASE UpdateIsBooking
  <2>1. Takes({"IS_BOOKING"}) /\ Send("CREATE", NoRoom, 0) /\ UNCHANGED engineVars
    BY <1>10 DEF UpdateIsBooking, scheduleMeeting
  <2>2. Keeps(toServer, toServer', Requests, CallReqs)
    BY <1>1, <2>1, SendKeeps DEF Ids
  <2> QED
    BY <1>1, <1>2, <1>4, <2>1, <2>2, Uneventful
<1>11. ASSUME NEW ids, Takes(ids), UNCHANGED engineVars, UNCHANGED toServer
       PROVE  CInv'
  BY <1>1, <1>2, <1>3, <1>4, <1>11, Uneventful
<1>12. CASE UpdateEnter \/ UpdateAddTrack \/ UpdateCreateMeetingOK \/ UpdateJoinMeetingOK
              \/ UpdateBookingOK
  BY <1>11, <1>12 DEF UpdateEnter, UpdateAddTrack, UpdateCreateMeetingOK,
                      UpdateJoinMeetingOK, UpdateBookingOK
<1> QED
  BY <1>6, <1>7, <1>8, <1>9, <1>10, <1>12, <1>13 DEF UIStep, update

\* The signaling thread: the offer becomes an INVITE, or there is none.
LEMMA SignalingCalls ==
  ASSUME CInv, SignalingStep, TypeOK'
  PROVE  CInv'
<1>1. /\ Alive /\ OneCall /\ RingsFirst /\ OfNewest /\ Owned
      /\ toServer \in Seq(Requests) /\ offering \in Nat /\ meetingId \in Ids
  BY DEF SignalingStep, CInv, TypeOK, EngineTypeOK
<1>2. CASE OnSuccess
  <2>1. /\ offering # 0 /\ offering' = 0 /\ localJsep' = offering
        /\ Send("INVITE", meetingId, offering)
        /\ UNCHANGED <<calls, pc, local, remote, toClient, messageQueue>>
    BY <1>2 DEF OnSuccess, callVars
  <2>2. /\ offering = calls
        /\ NoneOf(messageQueue, AskMsgs) /\ NoneOf(toServer, CallReqs) /\ NoneOf(toClient, Finals)
    BY <1>1, <2>1 DEF OfNewest, OneCall
  <2> DEFINE r == Request("INVITE", meetingId, offering)
  <2>3. r \in Requests /\ r.sdp = offering
    BY <1>1 DEF Request, Requests
  <2>4. <<r>> \in Seq(Requests) /\ toServer' = toServer \o <<r>>
    BY <1>1, <2>1, <2>3 DEF Send
  <2>5. AtMostOne(toServer', CallReqs)
    BY <1>1, <2>2, <2>4, SingleOne, AddedOne
  <2>6. OneCall'
    BY <1>1, <2>1, <2>2, <2>5 DEF OneCall, NoneOf, AtMostOne
  <2>7. RingsFirst' /\ Owned'
    BY <1>1, <2>1 DEF RingsFirst, Owned
  <2>8. ASSUME NEW i \in DOMAIN toServer', toServer'[i].meth = "INVITE"
        PROVE  toServer'[i].sdp = calls
    <3>1. CASE i \in DOMAIN toServer /\ toServer'[i] = toServer[i]
      <4>1. toServer[i] \in CallReqs
        BY <1>1, <2>8, <3>1 DEF CallReqs
      <4> QED
        BY <2>2, <3>1, <4>1 DEF NoneOf
    <3>2. CASE toServer'[i] = r
      BY <2>2, <2>3, <3>2
    <3>3. i - Len(toServer) \in DOMAIN <<r>> => i - Len(toServer) = 1
      OBVIOUS
    <3> QED
      BY <1>1, <2>4, <3>1, <3>2, <3>3, ConcatPlaces
  <2>9. NoneOf(toClient, Ringings)
    BY <1>1, <2>2, NothingRings
  <2>10. OfNewest'
    BY <1>1, <2>1, <2>2, <2>8, <2>9 DEF OfNewest, NoneOf
  <2> QED
    BY <2>6, <2>7, <2>10 DEF CInv
<1>3. CASE OnFailure
  <2>1. /\ offering' = 0 /\ UNCHANGED <<calls, localJsep, pc, local, remote>>
        /\ UNCHANGED <<toServer, toClient, messageQueue>>
    BY <1>3 DEF OnFailure, callVars
  <2> QED
    BY <1>1, <2>1, Uneventful DEF Keeps, Owned
<1> QED
  BY <1>2, <1>3 DEF SignalingStep

\* The listener thread: a call starts (onOKQuery), its offer and its answer are set on
\* its connection (onRinging, onOKInvite), or it ends.
LEMMA ListenerCalls ==
  ASSUME CInv, EngineStep, TypeOK'
  PROVE  CInv'
<1>1. /\ Alive /\ ListenerStep /\ TypeOK /\ OneCall /\ RingsFirst /\ OfNewest /\ Owned
      /\ messageQueue \in Seq(Messages) /\ toClient \in Seq(Responses)
  BY DEF EngineStep, CInv, TypeOK, EngineTypeOK
<1>2. ASSUME NEW code, NEW cmeth, Receive(code, cmeth)
      PROVE  Keeps(toClient, toClient', Responses, OfCall)
  BY <1>2 DEF Receive, Keeps
<1>3. UNCHANGED toServer /\ Keeps(toServer, toServer', Requests, CallReqs)
  BY <1>1 DEF ListenerStep, onTrying, onRinging, onOKQuery, onOKInvite, OnJoined, OnStarted,
              onOKInfo31, onOKInfo30, onOKBye, onOKCreate, onOKClose, onCloseCloses, onCloseDrops,
              onUnauthorizedInvite, onUnauthorizedBye, onCancelInvite, onCancelDrops,
              onCancelQuery, Keeps
\* Messages that the callbacks post ask for nothing.
<1>4. ASSUME NEW room \in Ids
      PROVE  /\ NoneOf(<<Msg("CREATE_MEETING_OK", room), Msg("JOIN_MEETING_OK", NoRoom)>>, AskMsgs)
             /\ <<Msg("CREATE_MEETING_OK", room), Msg("JOIN_MEETING_OK", NoRoom)>> \in Seq(Messages)
             /\ \A id \in {"ADD_TRACK", "JOIN_MEETING_OK", "BOOKING_MEETING_OK"} :
                  NoneOf(<<Msg(id, room)>>, AskMsgs) /\ <<Msg(id, room)>> \in Seq(Messages)
  <2>1. \A id \in {"ADD_TRACK", "JOIN_MEETING_OK", "BOOKING_MEETING_OK", "CREATE_MEETING_OK"},
           rm \in Ids : Msg(id, rm) \in Messages /\ Msg(id, rm).id = id
    BY MsgType DEF Msg
  <2>2. NoRoom \in Ids
    BY DEF Ids
  <2> QED
    BY <2>1, <2>2, <1>4 DEF NoneOf, AskMsgs
<1>5. ASSUME UNCHANGED messageQueue PROVE Keeps(messageQueue, messageQueue', Messages, AskMsgs)
  BY <1>5 DEF Keeps
<1>6. ASSUME NEW code, NEW cmeth, Receive(code, cmeth), UNCHANGED messageQueue,
             UNCHANGED <<calls, localJsep>>, offering' \in {0, offering}, pc' \in {0, pc}, Owned'
      PROVE  CInv'
  BY <1>1, <1>2, <1>3, <1>5, <1>6, Uneventful
<1>7. ASSUME UNCHANGED <<callVars, offerVars>>
      PROVE  /\ UNCHANGED <<calls, localJsep>> /\ offering' \in {0, offering} /\ pc' \in {0, pc}
             /\ Owned'
  BY <1>1, <1>7 DEF callVars, offerVars, Owned
<1>8. CASE onTrying \/ onOKInfo30 \/ onUnauthorizedBye
  BY <1>6, <1>7, <1>8 DEF onTrying, onOKInfo30, onUnauthorizedBye, engineVars
<1>9. CASE onOKBye \/ onUnauthorizedInvite
  BY <1>6, <1>7, <1>9 DEF onOKBye, onUnauthorizedInvite
<1>10. CASE onOKInfo31
  BY <1>6, <1>7, <1>10 DEF onOKInfo31, engineVars, Dies
<1>11. CASE onOKClose
  BY <1>1, <1>6, <1>11, TearDownOwns, Dead DEF onOKClose
<1>12. CASE onCancelQuery
  <2>1. UNCHANGED <<calls, localJsep, offering>> /\ pc' = 0 /\ Owned'
    BY <1>12 DEF onCancelQuery, offerVars, Owned
  <2> QED
    BY <1>6, <1>12, <2>1 DEF onCancelQuery
<1>21. CASE onCloseCloses \/ onCloseDrops
  <2>1. /\ UNCHANGED <<toClient, messageQueue>>
        /\ CloseDevices(Listens("closed")) \/ DropConnection(Listens("idle"))
    BY <1>21 DEF onCloseCloses, onCloseDrops
  <2> QED
    BY <1>1, <1>3, <2>1, TearDownOwns, Dead, Uneventful DEF Keeps
<1>13. CASE onCancelInvite
  <2>1. fault' # "none" \/ UNCHANGED <<callVars, offerVars>>
    BY <1>13 DEF onCancelInvite, Dies
  <2> QED
    BY <1>6, <1>7, <1>13, <2>1, Dead DEF onCancelInvite
<1>22. CASE onCancelDrops
  <2>1. \/ fault' # "none"
        \/ UNCHANGED <<calls, localJsep>> /\ offering' = 0 /\ pc' = 0 /\ Owned'
    BY <1>22 DEF onCancelDrops, Dies, Owned
  <2>2. UNCHANGED <<toClient, messageQueue>>
    BY <1>22 DEF onCancelDrops
  <2> QED
    BY <1>1, <1>3, <2>1, <2>2, Dead, Uneventful DEF Keeps
<1>14. CASE OnJoined
  <2>1. /\ UNCHANGED <<callVars, offerVars, toClient>> /\ listener.room \in Ids
        /\ \/ Post(<<Msg("CREATE_MEETING_OK", listener.room), Msg("JOIN_MEETING_OK", NoRoom)>>)
           \/ Post(<<Msg("JOIN_MEETING_OK", NoRoom)>>)
    BY <1>1, <1>14 DEF OnJoined, TypeOK, EngineTypeOK
  <2>2. Keeps(messageQueue, messageQueue', Messages, AskMsgs)
    BY <1>4, <2>1 DEF Post, Keeps, Ids
  <2>3. Keeps(toClient, toClient', Responses, OfCall)
    BY <2>1 DEF Keeps
  <2> QED
    BY <1>1, <1>3, <1>7, <2>1, <2>2, <2>3, Uneventful
<1>15. CASE OnStarted
  <2>1. /\ UNCHANGED <<toClient, messageQueue>>
        /\ fault' # "none" \/ UNCHANGED <<callVars, offerVars>>
    BY <1>15 DEF OnStarted, Dies
  <2> QED
    BY <1>1, <1>3, <1>5, <1>7, <2>1, Dead, Uneventful DEF Keeps
<1>16. CASE onOKCreate
  <2>1. Head(toClient).room \in Ids /\ Post(<<Msg("BOOKING_MEETING_OK", Head(toClient).room)>>)
        /\ UNCHANGED <<callVars, offerVars>> /\ Receive("200", "CREATE")
    BY <1>1, <1>16, TypeParts, ReceiveType DEF onOKCreate
  <2>2. Keeps(messageQueue, messageQueue', Messages, AskMsgs)
    BY <1>4, <2>1 DEF Post, Keeps
  <2> QED
    BY <1>1, <1>2, <1>3, <1>7, <2>1, <2>2, Uneventful
\* What is at the front of the websocket.
<1>17. ASSUME NEW code, NEW cmeth, Receive(code, cmeth)
       PROVE  /\ toClient # << >> /\ toClient' = Tail(toClient) /\ Head(toClient) \in Responses
              /\ Head(toClient).code = code /\ Head(toClient).cmeth = cmeth
              /\ 1 \in DOMAIN toClient /\ Head(toClient) = toClient[1]
  BY <1>1, <1>17, TailPlaces DEF Receive
<1>18. CASE onRinging
  <2>1. Receive("180", "INVITE") /\ UNCHANGED messageQueue
    BY <1>18 DEF onRinging
  <2>2. localJsep = calls
    <3>1. Head(toClient) \in Ringings
      BY <1>17, <2>1 DEF Ringings
    <3> QED
      BY <1>1, <1>17, <2>1, <3>1 DEF OfNewest
  <2>3. \/ fault' # "none"
        \/ UNCHANGED <<callVars, offerVars>>
        \/ UNCHANGED <<pc, offerVars>> /\ pc # 0 /\ local' = localJsep /\ remote' = 0
    BY <1>18 DEF onRinging, engineVars, Dies
  <2>4. CASE UNCHANGED <<pc, offerVars>> /\ pc # 0 /\ local' = localJsep /\ remote' = 0
    <3>1. Owned'
      BY <1>1, <2>2, <2>4 DEF OfNewest, Owned
    <3> QED
      BY <1>6, <2>1, <2>4, <3>1 DEF offerVars
  <2> QED
    BY <1>6, <1>7, <2>1, <2>3, <2>4, Dead
<1>19. CASE onOKInvite
  <2>1. Receive("200", "INVITE")
    BY <1>19 DEF onOKInvite
  <2>2. Head(toClient).sdp = calls
    BY <1>1, <1>17, <2>1 DEF OfNewest
  <2>3. CASE fault' # "none"
    BY <2>3, Dead
  <2>4. CASE fault' = "none"
    <3>1. /\ pc # 0 /\ UNCHANGED <<pc, local, offerVars>>
          /\ \/ local # 0 /\ remote' = Head(toClient).sdp /\ Post(<<Msg("ADD_TRACK", NoRoom)>>)
             \/ UNCHANGED <<remote, messageQueue>>
      BY <1>19, <2>4 DEF onOKInvite, Dies
    <3>2. Owned'
      BY <1>1, <2>2, <3>1 DEF OfNewest, Owned
    <3>3. Keeps(messageQueue, messageQueue', Messages, AskMsgs)
      BY <1>4, <1>5, <3>1 DEF Post, Keeps, Ids
    <3> QED
      BY <1>1, <1>2, <1>3, <2>1, <3>1, <3>2, <3>3, Uneventful DEF offerVars
  <2> QED
    BY <2>3, <2>4
<1>20. CASE onOKQuery
  <2>1. Receive("200", "QUERY") /\ UNCHANGED messageQueue
    BY <1>20 DEF onOKQuery
  <2>2. Head(toClient) \in Finals
    BY <1>17, <2>1 DEF Finals
  <2>3. NoneOf(toClient', Finals)
    BY <1>1, <1>17, <2>1, <2>2, TakenOne DEF OneCall
  <2>4. ~NoneOf(toClient, Finals)
    BY <1>17, <2>1, <2>2 DEF NoneOf
  <2>5. NoneOf(messageQueue', AskMsgs) /\ NoneOf(toServer, CallReqs)
    BY <1>1, <2>1, <2>4 DEF OneCall
  <2>6. NoneOf(toClient', Ringings)
    <3>1. RingsFirst'
      BY <1>1, <1>2, <2>1, TypeParts, RingsKept DEF OneCall
    <3> QED
      BY <2>3, <3>1 DEF RingsFirst, NoneOf
  <2>7. CASE UNCHANGED engineVars
    BY <1>6, <1>7, <2>1, <2>7 DEF engineVars
  <2>8. CASE StartCall
    BY <1>1, <1>3, <2>3, <2>5, <2>6, <2>8, Starts
  <2> QED
    BY <1>20, <2>7, <2>8 DEF onOKQuery
<1> QED
  BY <1>1, <1>8, <1>9, <1>10, <1>11, <1>12, <1>13, <1>14, <1>15, <1>16, <1>18, <1>19, <1>20,
     <1>21, <1>22
  DEF ListenerStep

-----------------------------------------------------------------------------
(* The server.                                                              *)

\* What the answer to an INVITE says: one response at its end ends the call, and
\* none of them is about another offer.
EndsOnce(rs, sdp) ==
  /\ rs \in Seq(Responses) /\ AtMostOne(rs, Finals)
  /\ \E n \in DOMAIN rs : rs[n] \in Finals /\ \A i \in DOMAIN rs : rs[i] \in Ringings => i < n
  /\ \A i \in DOMAIN rs : rs[i].cmeth = "INVITE" /\ (rs[i].code = "200" => rs[i].sdp = sdp)

\* A response to an INVITE, by its code.
LEMMA InviteResponse ==
  ASSUME NEW room \in Ids, NEW sdp \in Nat, NEW code \in {"100", "180", "200", "401", "CANCEL"}
  PROVE  LET r == Response(code, "INVITE", room, sdp)
         IN  /\ r \in Responses /\ r.cmeth = "INVITE" /\ r.code = code /\ r.sdp = sdp
             /\ r \in Finals <=> code \in {"200", "401", "CANCEL"}
             /\ r \in Ringings <=> code = "180"
<1> DEFINE r == Response(code, "INVITE", room, sdp)
<1>1. r \in Responses /\ r.cmeth = "INVITE" /\ r.code = code /\ r.sdp = sdp
  BY DEF Response, Responses
<1> HIDE DEF r
<1>2. (r \in Finals <=> code \in {"200", "401", "CANCEL"}) /\ (r \in Ringings <=> code = "180")
  BY <1>1 DEF Finals, Ringings
<1> QED
  BY <1>1, <1>2 DEF r

\* Each of the server's three answers is of this kind.
LEMMA InviteEndsOnce ==
  ASSUME NEW room \in Rooms, NEW sdp \in Nat
  PROVE  EndsOnce(Accepted(room, sdp), sdp) /\ EndsOnce(Refused, sdp) /\ EndsOnce(Cancelled, sdp)
<1>1. ASSUME NEW a \in Responses, NEW b \in Responses,
             a.cmeth = "INVITE", a.code # "200", a \notin Finals, a \notin Ringings,
             b.cmeth = "INVITE", b.code = "200" => b.sdp = sdp, b \in Finals, b \notin Ringings
      PROVE  /\ EndsOnce(<<a, b>>, sdp)
             /\ \A c \in Responses : (c.cmeth = "INVITE" /\ c.code # "200" /\ c \notin Finals)
                  => EndsOnce(<<a, c, b>>, sdp)
  <2>1. EndsOnce(<<a, b>>, sdp)
    BY <1>1 DEF EndsOnce, AtMostOne
  <2>2. ASSUME NEW c \in Responses, c.cmeth = "INVITE", c.code # "200", c \notin Finals
        PROVE  EndsOnce(<<a, c, b>>, sdp)
    BY <1>1, <2>2 DEF EndsOnce, AtMostOne
  <2> QED
    BY <2>1, <2>2
<1>2. room \in Ids /\ NoRoom \in Ids
  BY DEF Ids
<1>3. EndsOnce(Accepted(room, sdp), sdp)
  <2> DEFINE a == Response("100", "INVITE", room, 0)
             c == Response("180", "INVITE", room, 0)
             b == Response("200", "INVITE", room, sdp)
  <2>1. /\ a \in Responses /\ a.cmeth = "INVITE" /\ a.code # "200"
        /\ a \notin Finals /\ a \notin Ringings
        /\ c \in Responses /\ c.cmeth = "INVITE" /\ c.code # "200" /\ c \notin Finals
        /\ b \in Responses /\ b.cmeth = "INVITE" /\ b.sdp = sdp /\ b \in Finals /\ b \notin Ringings
    BY <1>2, InviteResponse
  <2>2. Accepted(room, sdp) = <<a, c, b>>
    BY DEF Accepted
  <2> HIDE DEF a, b, c
  <2> QED
    BY <1>1, <2>1, <2>2
<1>4. EndsOnce(Refused, sdp)
  <2> DEFINE a == Response("100", "INVITE", NoRoom, 0)
             b == Response("401", "INVITE", NoRoom, 0)
  <2>1. /\ a \in Responses /\ a.cmeth = "INVITE" /\ a.code # "200"
        /\ a \notin Finals /\ a \notin Ringings
        /\ b \in Responses /\ b.cmeth = "INVITE" /\ b.code # "200" /\ b \in Finals /\ b \notin Ringings
    BY <1>2, InviteResponse
  <2>2. Refused = <<a, b>>
    BY DEF Refused
  <2> HIDE DEF a, b
  <2> QED
    BY <1>1, <2>1, <2>2
<1>5. EndsOnce(Cancelled, sdp)
  <2> DEFINE a == Response("100", "INVITE", NoRoom, 0)
             c == Response("180", "INVITE", NoRoom, 0)
             b == Response("CANCEL", "INVITE", NoRoom, 0)
  <2>1. /\ a \in Responses /\ a.cmeth = "INVITE" /\ a.code # "200"
        /\ a \notin Finals /\ a \notin Ringings
        /\ c \in Responses /\ c.cmeth = "INVITE" /\ c.code # "200" /\ c \notin Finals
        /\ b \in Responses /\ b.cmeth = "INVITE" /\ b.code # "200" /\ b \in Finals /\ b \notin Ringings
    BY <1>2, InviteResponse
  <2>2. Cancelled = <<a, c, b>>
    BY DEF Cancelled
  <2> HIDE DEF a, b, c
  <2> QED
    BY <1>1, <2>1, <2>2
<1> QED
  BY <1>3, <1>4, <1>5

\* An INVITE is answered: the call ends, by a response about the newest offer.
LEMMA InviteServed ==
  ASSUME CInv, Alive, TypeOK', Asked("INVITE"), NEW rs, EndsOnce(rs, Head(toServer).sdp),
         Answers(rs)
  PROVE  CInv'
<1>1. /\ OneCall /\ RingsFirst /\ OfNewest /\ Owned
      /\ toServer \in Seq(Requests) /\ toClient \in Seq(Responses) /\ rs \in Seq(Responses)
      /\ toServer # << >> /\ toServer' = Tail(toServer) /\ toClient' = toClient \o rs
      /\ UNCHANGED <<messageQueue, calls, localJsep, offering, pc, local, remote>>
  BY DEF CInv, TypeOK, EngineTypeOK, Asked, Answers, EndsOnce, engineVars, callVars, offerVars
<1>2. 1 \in DOMAIN toServer /\ Head(toServer) = toServer[1] /\ Head(toServer) \in CallReqs
      /\ Head(toServer).meth = "INVITE"
  BY <1>1, TailPlaces DEF Asked, CallReqs
<1>3. /\ NoneOf(messageQueue, AskMsgs) /\ NoneOf(toClient, Finals) /\ offering = 0
      /\ Head(toServer).sdp = calls /\ localJsep = calls
  <2>1. ~NoneOf(toServer, CallReqs)
    BY <1>2 DEF NoneOf
  <2> QED
    BY <1>1, <1>2, <2>1 DEF OneCall, OfNewest
<1>4. NoneOf(toServer', CallReqs)
  BY <1>1, <1>2, TakenOne DEF OneCall
<1>5. OneCall'
  <2>1. AtMostOne(toClient', Finals)
    BY <1>1, <1>3, AddedOne DEF EndsOnce
  <2> QED
    BY <1>1, <1>3, <1>4, <2>1 DEF OneCall, NoneOf, AtMostOne
<1>6. NoneOf(toClient, Ringings)
  BY <1>1, <1>3, NothingRings
<1>7. ASSUME NEW i \in DOMAIN toClient', toClient'[i] \in OfCall \/ toClient'[i] \in Ringings
             \/ toClient'[i] \in Finals
      PROVE  /\ i \in Nat /\ i - Len(toClient) \in DOMAIN rs /\ toClient'[i] = rs[i - Len(toClient)]
             /\ Len(toClient) \in Nat
  <2>1. i \in DOMAIN toClient => toClient[i] \notin Ringings /\ toClient[i] \notin Finals
    BY <1>3, <1>6 DEF NoneOf
  <2> QED
    BY <1>1, <1>7, <2>1, ConcatPlaces DEF OfCall
<1>8. RingsFirst'
  <2>1. PICK n \in DOMAIN rs :
          rs[n] \in Finals /\ \A i \in DOMAIN rs : rs[i] \in Ringings => i < n
    BY DEF EndsOnce
  <2>2. /\ n \in Nat /\ Len(toClient) \in Nat /\ n + Len(toClient) \in DOMAIN toClient'
        /\ toClient'[n + Len(toClient)] \in Finals
    BY <1>1, <2>1, ConcatPlaces
  <2> SUFFICES ASSUME NEW i \in DOMAIN toClient', toClient'[i] \in Ringings
               PROVE  n + Len(toClient) > i
    BY <2>2 DEF RingsFirst
  <2>3. i \in Nat /\ i - Len(toClient) < n
    BY <1>7, <2>1
  <2> QED
    BY <2>2, <2>3
<1>9. OfNewest'
  <2>1. ASSUME NEW i \in DOMAIN toServer', toServer'[i].meth = "INVITE" PROVE FALSE
    <3>1. toServer'[i] \in Requests
      BY <1>1, TailPlaces, <2>1, HeadTailProperties
    <3> QED
      BY <1>4, <2>1, <3>1 DEF NoneOf, CallReqs
  <2>2. ASSUME NEW i \in DOMAIN toClient'
        PROVE  (toClient'[i].cmeth = "INVITE" /\ toClient'[i].code = "200")
                 => toClient'[i].sdp = calls'
    <3>1. toClient'[i] \in Responses
      BY <1>1, <2>2, ConcatPlaces
    <3> SUFFICES ASSUME toClient'[i].cmeth = "INVITE", toClient'[i].code = "200"
                 PROVE  toClient'[i].sdp = calls
      BY <1>1
    <3>2. toClient'[i] \in Finals
      BY <3>1, FinalsAndRingings
    <3>3. i - Len(toClient) \in DOMAIN rs /\ toClient'[i] = rs[i - Len(toClient)]
      BY <1>7, <3>2
    <3> QED
      BY <1>3, <3>3 DEF EndsOnce
  <2> QED
    BY <1>1, <1>3, <2>1, <2>2 DEF OfNewest
<1> QED
  BY <1>1, <1>5, <1>8, <1>9 DEF CInv, Owned

\* A QUERY is answered, by one response.
LEMMA QueryServed ==
  ASSUME CInv, Alive, TypeOK', Asked("QUERY"),
         NEW code \in {"200", "CANCEL"}, NEW room \in Ids,
         Answers(<<Response(code, "QUERY", room, 0)>>)
  PROVE  CInv'
<1> DEFINE r == Response(code, "QUERY", room, 0)
<1>1. r \in Responses /\ r.cmeth = "QUERY" /\ r \in Finals /\ r \notin Ringings
  <2>1. r \in Responses /\ r.cmeth = "QUERY"
    BY DEF Response, Responses
  <2> HIDE DEF r
  <2> QED
    BY <2>1 DEF Finals, Ringings
<1>2. Answers(<<r>>)
  OBVIOUS
<1> HIDE DEF r
<1>3. /\ OneCall /\ RingsFirst /\ OfNewest /\ Owned
      /\ toServer \in Seq(Requests) /\ toClient \in Seq(Responses) /\ <<r>> \in Seq(Responses)
      /\ toServer # << >> /\ toServer' = Tail(toServer) /\ toClient' = toClient \o <<r>>
      /\ UNCHANGED <<messageQueue, calls, localJsep, offering, pc, local, remote>>
  BY <1>1, <1>2 DEF CInv, TypeOK, EngineTypeOK, Asked, Answers, engineVars, callVars, offerVars
<1>4. 1 \in DOMAIN toServer /\ Head(toServer) = toServer[1] /\ Head(toServer) \in CallReqs
  BY <1>3, TailPlaces DEF Asked, CallReqs
<1>5. NoneOf(messageQueue, AskMsgs) /\ NoneOf(toClient, Finals) /\ offering = 0
  <2>1. ~NoneOf(toServer, CallReqs)
    BY <1>4 DEF NoneOf
  <2> QED
    BY <1>3, <2>1 DEF OneCall
<1>6. NoneOf(toServer', CallReqs)
  BY <1>3, <1>4, TakenOne DEF OneCall
<1>7. OneCall'
  <2>1. AtMostOne(toClient', Finals)
    BY <1>3, <1>5, SingleOne, AddedOne
  <2> QED
    BY <1>3, <1>5, <1>6, <2>1 DEF OneCall, NoneOf, AtMostOne
<1>8. NoneOf(toClient, Ringings)
  BY <1>3, <1>5, NothingRings
<1>9. \A i \in DOMAIN toClient' :
        \/ i \in DOMAIN toClient /\ toClient'[i] = toClient[i]
        \/ toClient'[i] = r
  <2>1. \A k \in DOMAIN <<r>> : <<r>>[k] = r
    OBVIOUS
  <2> QED
    BY <1>3, <2>1, ConcatPlaces
<1>10. RingsFirst'
  BY <1>1, <1>8, <1>9 DEF RingsFirst, NoneOf
<1>11. OfNewest'
  <2>1. ASSUME NEW i \in DOMAIN toServer', toServer'[i].meth = "INVITE" PROVE FALSE
    <3>1. toServer'[i] \in Requests
      BY <1>3, <2>1, TailPlaces
    <3> QED
      BY <1>6, <2>1, <3>1 DEF NoneOf, CallReqs
  <2>2. \A i \in DOMAIN toClient' :
          /\ toClient'[i] \notin Ringings
          /\ toClient'[i].cmeth = "INVITE" => toClient'[i].code # "200"
    <3>1. \A i \in DOMAIN toClient : toClient[i] \in Responses
      BY <1>3
    <3> QED
      BY <1>1, <1>5, <1>8, <1>9, <3>1, FinalsAndRingings DEF NoneOf
  <2> QED
    BY <1>3, <2>1, <2>2 DEF OfNewest
<1> QED
  BY <1>3, <1>7, <1>10, <1>11 DEF CInv, Owned

\* The server answers what belongs to a call, or something else, or tells of an end.
LEMMA ServerCalls ==
  ASSUME CInv, Serve \/ Close, TypeOK'
  PROVE  CInv'
<1>1. /\ Alive /\ TypeOK /\ toServer \in Seq(Requests) /\ toClient \in Seq(Responses)
      /\ Owned /\ srvRoom \in Ids /\ NoRoom \in Ids
  BY DEF Serve, Close, CInv, TypeOK, EngineTypeOK, Ids
<1>2. CASE ServeQuery
  <2>1. Asked("QUERY") /\ Head(toServer).to \in Ids
    <3>1. toServer # << >>
      BY <1>2 DEF ServeQuery, Asked
    <3>2. Head(toServer) \in Requests
      BY <1>1, <3>1
    <3> QED
      BY <1>2, <3>2 DEF ServeQuery, Requests
  <2>2. \/ Answers(<<Response("200", "QUERY", Head(toServer).to, 0)>>)
        \/ Answers(<<Response("CANCEL", "QUERY", NoRoom, 0)>>)
    BY <1>2 DEF ServeQuery
  <2> QED
    BY <1>1, <2>1, <2>2, QueryServed
<1>3. CASE ServeInvite
  <2>1. Asked("INVITE") /\ Head(toServer).sdp \in Nat
    <3>1. toServer # << >>
      BY <1>3 DEF ServeInvite, Asked
    <3>2. Head(toServer) \in Requests
      BY <1>1, <3>1
    <3> QED
      BY <1>3, <3>2 DEF ServeInvite, Requests
  <2>2. PICK any \in Rooms : TRUE
    BY IdsAssumption
  <2>3. \/ \E m \in Rooms : Answers(Accepted(m, Head(toServer).sdp))
        \/ Answers(Refused) \/ Answers(Cancelled)
    BY <1>3 DEF ServeInvite
  <2>4. \E rs : EndsOnce(rs, Head(toServer).sdp) /\ Answers(rs)
    BY <2>1, <2>2, <2>3, InviteEndsOnce
  <2> QED
    BY <1>1, <2>1, <2>4, InviteServed
\* What is left touches nothing of a call.
<1>4. ASSUME NEW q, NEW r \in Responses, r.cmeth # "QUERY", r.cmeth # "INVITE",
             toServer' = q, Keeps(toServer, q, Requests, CallReqs),
             toClient' = toClient \o <<r>>, UNCHANGED <<engineVars, messageQueue>>
      PROVE  CInv'
  <2>1. r \notin OfCall
    BY <1>4 DEF OfCall, Finals, Ringings
  <2>2. Keeps(toClient, toClient', Responses, OfCall)
    <3>1. <<r>> \in Seq(Responses) /\ NoneOf(<<r>>, OfCall)
      BY <2>1, SingleOne
    <3> QED
      BY <1>4, <3>1 DEF Keeps
  <2>3. Keeps(messageQueue, messageQueue', Messages, AskMsgs)
    BY <1>4 DEF Keeps
  <2>4. UNCHANGED <<calls, localJsep, offering, pc>> /\ Owned'
    BY <1>1, <1>4 DEF engineVars, callVars, offerVars, Owned
  <2> QED
    BY <1>1, <1>4, <2>2, <2>3, <2>4, Uneventful
<1>5. ASSUME toServer # << >>, NEW r \in Responses, r.cmeth # "QUERY", r.cmeth # "INVITE",
             Answers(<<r>>)
      PROVE  CInv'
  BY <1>4, <1>5 DEF Answers, Keeps
<1>6. \A code \in {"200", "401"}, cmeth \in {"BYE", "CREATE", "INFO30", "INFO31", "CLOSE"},
         room \in Ids :
        LET r == Response(code, cmeth, room, 0)
        IN  r \in Responses /\ r.cmeth # "QUERY" /\ r.cmeth # "INVITE"
  BY DEF Response, Responses
<1>7. CASE ServeBye
  <2>1. toServer # << >>
    BY <1>7 DEF ServeBye, Asked
  <2>2. \/ Answers(<<Response("200", "BYE", NoRoom, 0)>>)
        \/ Answers(<<Response("401", "BYE", NoRoom, 0)>>)
    BY <1>7 DEF ServeBye
  <2> QED
    BY <1>1, <1>5, <1>6, <2>1, <2>2
<1>8. CASE ServeCreate
  <2>1. toServer # << >>
    BY <1>8 DEF ServeCreate, Asked
  <2>2. PICK room \in Ids : Answers(<<Response("200", "CREATE", room, 0)>>)
    BY <1>8 DEF ServeCreate, Ids
  <2> QED
    BY <1>5, <1>6, <2>1, <2>2
<1>9. CASE ServeInfo
  <2>1. toServer # << >> /\ Head(toServer).meth \in {"INFO30", "INFO31"}
        /\ Answers(<<Response("200", Head(toServer).meth, NoRoom, 0)>>)
    BY <1>9 DEF ServeInfo, Asked
  <2> QED
    BY <1>1, <1>5, <1>6, <2>1
<1>10. CASE HostCloses
  <2> DEFINE r == Response("200", "CLOSE", srvRoom, 0)
  <2>1. r \in Responses /\ r.cmeth # "QUERY" /\ r.cmeth # "INVITE"
    BY <1>1, <1>6
  <2>2. /\ toServer' = toServer /\ UNCHANGED <<engineVars, messageQueue>>
        /\ toClient' = Append(toClient, r)
    BY <1>10 DEF HostCloses
  <2> HIDE DEF r
  <2>3. toClient' = toClient \o <<r>> /\ Keeps(toServer, toServer, Requests, CallReqs)
    BY <1>1, <2>1, <2>2 DEF Keeps
  <2> QED
    BY <1>4, <2>1, <2>2, <2>3
<1> QED
  BY <1>2, <1>3, <1>7, <1>8, <1>9, <1>10 DEF Serve, Close, ServerStep

-----------------------------------------------------------------------------
(* The theorem.                                                             *)

\* A step that changes nothing.
LEMMA CallsStutter ==
  ASSUME CInv, UNCHANGED vars, TypeOK'
  PROVE  CInv'
<1>1. CASE ~Alive
  BY <1>1 DEF vars, vars0, engineVars, CInv, Alive
<1>2. CASE Alive
  <2>1. UNCHANGED <<messageQueue, toServer, toClient, calls, localJsep, offering, pc, local, remote>>
    BY DEF vars, vars0, engineVars, callVars, offerVars
  <2>2. Owned'
    BY <1>2, <2>1 DEF CInv, Owned
  <2> QED
    BY <1>2, <2>1, <2>2, Uneventful DEF Keeps
<1> QED
  BY <1>1, <1>2

\* CInv is inductive.
LEMMA CallsInvariance ==
  ASSUME "retry" \notin Env
  PROVE  Spec => []CInv
<1>1. Init => CInv
  <2> SUFFICES ASSUME Init PROVE CInv
    OBVIOUS
  <2>1. TypeOK
    BY InitType
  <2>2. /\ calls = 0 /\ pc = 0 /\ local = 0 /\ remote = 0 /\ offering = 0
        /\ toServer = << >> /\ toClient = << >> /\ messageQueue = << >>
    BY DEF Init, EngineInit
  <2>3. OneCall /\ RingsFirst /\ OfNewest /\ Owned
    BY <2>2 DEF OneCall, RingsFirst, OfNewest, Owned, NoneOf, AtMostOne
  <2> QED
    BY <2>1, <2>3 DEF CInv
<1>2. CInv /\ [Next]_vars => CInv'
  <2> SUFFICES ASSUME CInv, [Next]_vars PROVE CInv'
    OBVIOUS
  <2>1. TypeOK'
    BY NextType DEF CInv
  <2>2. CASE UserStep
    BY <2>1, <2>2, UserCalls
  <2>3. CASE UIStep
    BY <2>1, <2>3, UICalls
  <2>4. CASE SignalingStep
    BY <2>1, <2>4, SignalingCalls
  <2>5. CASE EngineStep
    BY <2>1, <2>5, ListenerCalls
  <2>6. CASE Serve \/ Close
    BY <2>1, <2>6, ServerCalls
  <2>7. CASE UNCHANGED vars
    BY <2>1, <2>7, CallsStutter
  <2> QED
    BY <2>2, <2>3, <2>4, <2>5, <2>6, <2>7 DEF Next
<1> QED
  BY <1>1, <1>2, PTL DEF Spec

\* The descriptions of a connection belong to its own offer, for every user who asks
\* for a call only when nothing is under way, however calls end: taken, refused,
\* cancelled, failed in WebRTC, left or closed, in any order of the threads.
THEOREM DescriptionsOwned ==
  ASSUME "retry" \notin Env
  PROVE  Spec => []OwnDescriptions
<1>1. CInv => OwnDescriptions
  BY DEF CInv, Owned, OwnDescriptions
<1> QED
  BY <1>1, CallsInvariance, PTL
=============================================================================
