---------------------------- MODULE SharingProofs ----------------------------
(* Sharing, for any windows, screens and cameras, any number of meetings and  *)
(* of clicks, and every Env: the types, that a chosen screen is shared, that  *)
(* what is chosen is found, and that the windows known are offered.           *)
EXTENDS Sharing, FiniteSetTheorems, FunctionTheorems, TLAPS

\* The Controller's and the engine's maps hold windows that have been there.
Real == \A w \in DOMAIN shareWindowMap \union DOMAIN windowList : desktop[w] # "absent"

\* No window that is known by the label has closed or is known by another title too.
Sure(label) == \A w \in Windows : Bears(w, label) => w \in Open /\ SameTitle(w)

\* Then the Controller knows a window by it.
Findable(label) == Sure(label) => Bearers(label) # {}

\* The labels in a message can be found, and its screen is one of those there are.
Fits(m) ==
  /\ m.id = "SWITCH_SHARE_WINDOW" => Findable(m.label)
  /\ \A w \in DOMAIN m.list : Findable(m.list[w].label)
  /\ m.id = "SWITCH_SHARE_SCREEN" => m.dev \in Screens

\* So can those in the window and in all messages under way.
Known ==
  /\ \A label \in offered : Findable(label)
  /\ \A i \in DOMAIN messageQueue : Fits(messageQueue[i])

\* A connection has its tracks, and a shared window a way back to a screen.
WayBack ==
  /\ pc => source # "none"
  /\ source = "window" => isScreenfirst

IInv == TypeOK /\ Real /\ Known /\ WayBack

-----------------------------------------------------------------------------
(* Messages.                                                                *)

LEMMA TailElements ==
  ASSUME messageQueue \in Seq(Messages), messageQueue # << >>
  PROVE  /\ Head(messageQueue) \in Messages
         /\ Head(messageQueue) = messageQueue[1] /\ 1 \in DOMAIN messageQueue
         /\ Tail(messageQueue) \in Seq(Messages)
         /\ \A i \in DOMAIN Tail(messageQueue) :
              \E j \in DOMAIN messageQueue : Tail(messageQueue)[i] = messageQueue[j]
<1>1. Len(messageQueue) \in Nat /\ Len(messageQueue) > 0
  OBVIOUS
<1>2. Len(Tail(messageQueue)) = Len(messageQueue) - 1
  BY <1>1
<1>3. \A i \in DOMAIN Tail(messageQueue) :
        i + 1 \in DOMAIN messageQueue /\ Tail(messageQueue)[i] = messageQueue[i + 1]
  BY <1>1, <1>2
<1> QED
  BY <1>1, <1>3

LEMMA AppendElements ==
  ASSUME NEW q \in Seq(Messages), NEW m \in Messages
  PROVE  /\ Append(q, m) \in Seq(Messages)
         /\ \A i \in DOMAIN Append(q, m) :
              Append(q, m)[i] = m \/ (i \in DOMAIN q /\ Append(q, m)[i] = q[i])
<1>1. Len(Append(q, m)) = Len(q) + 1
  OBVIOUS
<1>2. \A i \in 1..Len(q) + 1 : Append(q, m)[i] = IF i = Len(q) + 1 THEN m ELSE q[i]
  OBVIOUS
<1>3. DOMAIN Append(q, m) = 1..Len(q) + 1 /\ DOMAIN q = 1..Len(q) /\ Len(q) \in Nat
  BY <1>1
<1>4. ASSUME NEW i \in DOMAIN Append(q, m)
      PROVE  Append(q, m)[i] = m \/ (i \in DOMAIN q /\ Append(q, m)[i] = q[i])
  <2>1. CASE i = Len(q) + 1
    BY <2>1, <1>2, <1>3
  <2>2. CASE i # Len(q) + 1
    BY <2>2, <1>2, <1>3
  <2> QED
    BY <2>1, <2>2
<1> QED
  BY <1>4

\* The tail, element by element.
LEMMA TailIndex ==
  ASSUME NEW q \in Seq(Messages), q # << >>
  PROVE  /\ 1 \in DOMAIN q /\ Head(q) = q[1]
         /\ \A i \in DOMAIN Tail(q) : i \in Nat /\ i + 1 \in DOMAIN q /\ Tail(q)[i] = q[i + 1]
         /\ \A i \in DOMAIN q : i \in Nat /\ (i = 1 \/ i - 1 \in DOMAIN Tail(q))
         /\ \A i \in DOMAIN q : i # 1 => Tail(q)[i - 1] = q[i]
<1>1. Len(q) \in Nat /\ Len(q) > 0 /\ Len(Tail(q)) = Len(q) - 1
  OBVIOUS
<1>2. DOMAIN q = 1..Len(q) /\ DOMAIN Tail(q) = 1..Len(q) - 1
  BY <1>1
<1>3. \A i \in 1..Len(q) - 1 : Tail(q)[i] = q[i + 1]
  BY <1>1
<1> QED
  BY <1>1, <1>2, <1>3

\* One element more, at the end.
LEMMA AppendIndex ==
  ASSUME NEW q \in Seq(Messages), NEW m \in Messages
  PROVE  /\ Len(q) \in Nat /\ Len(q) + 1 \notin DOMAIN q
         /\ DOMAIN Append(q, m) = DOMAIN q \union {Len(q) + 1}
         /\ Append(q, m)[Len(q) + 1] = m
         /\ \A i \in DOMAIN q : i \in Nat /\ i < Len(q) + 1 /\ Append(q, m)[i] = q[i]
<1>1. Len(Append(q, m)) = Len(q) + 1 /\ Len(q) \in Nat
  OBVIOUS
<1>2. \A i \in 1..Len(q) + 1 : Append(q, m)[i] = IF i = Len(q) + 1 THEN m ELSE q[i]
  OBVIOUS
<1>3. DOMAIN Append(q, m) = 1..Len(q) + 1 /\ DOMAIN q = 1..Len(q)
  BY <1>1
<1> QED
  BY <1>1, <1>2, <1>3

\* What a map is.
LEMMA MapType ==
  /\ \A list : list \in Maps <=> \E ws \in SUBSET Windows : list \in [ws -> Titles]
  /\ \A list \in Maps : DOMAIN list \in SUBSET Windows /\ list \in [DOMAIN list -> Titles]
BY DEF Maps

\* The messages that are posted.
LEMMA Posted ==
  /\ \A id \in {"MEETING_END", "ADD_TRACK", "REQUEST_WINDOW_LIST"} : Msg(id) \in Messages
  /\ \A id \in {"SET_SHARE", "SET_CAMERA"}, on \in BOOLEAN : Switch(id, on) \in Messages
  /\ \A id \in {"SWITCH_SHARE_SCREEN", "SWITCH_VIDEO_INPUT"}, dev \in Nat :
        Pick(id, dev) \in Messages
  /\ \A label \in Labels : PickLabel(label) \in Messages
  /\ \A list \in Maps : WindowInfo(list) \in Messages
<1>1. EmptyMap \in Maps
  BY MapType DEF EmptyMap
<1>2. \A id \in {"MEETING_END", "ADD_TRACK", "REQUEST_WINDOW_LIST", "SET_SHARE", "SET_CAMERA",
              "SWITCH_SHARE_SCREEN", "SWITCH_VIDEO_INPUT", "SWITCH_SHARE_WINDOW",
              "SHARE_WINDOW_INFO"} : Msg(id) \in Messages
  BY <1>1 DEF Msg, Messages
<1> QED BY <1>2 DEF Switch, Pick, PickLabel, WindowInfo, Messages

\* A message that is under way goes on fitting, as long as no label is forgotten.
LEMMA StillFit ==
  ASSUME Known, \A label : Findable(label) => Findable(label)',
         \A label \in offered' : Findable(label)',
         \A i \in DOMAIN messageQueue' :
           \/ \E j \in DOMAIN messageQueue : messageQueue'[i] = messageQueue[j]
           \/ Fits(messageQueue[i])'
  PROVE  Known'
<1>1. \A j \in DOMAIN messageQueue :
        /\ messageQueue[j].id = "SWITCH_SHARE_WINDOW" => Findable(messageQueue[j].label)
        /\ \A w \in DOMAIN messageQueue[j].list : Findable(messageQueue[j].list[w].label)
        /\ messageQueue[j].id = "SWITCH_SHARE_SCREEN" => messageQueue[j].dev \in Screens
  BY DEF Known, Fits
<1>2. ASSUME NEW i \in DOMAIN messageQueue'
      PROVE  Fits(messageQueue[i])'
  <2>1. CASE \E j \in DOMAIN messageQueue : messageQueue'[i] = messageQueue[j]
    BY <2>1, <1>1 DEF Fits
  <2> QED
    BY <1>2, <2>1
<1> QED
  BY <1>2 DEF Known

\* Steps that touch neither the desktop nor the maps forget none.
LEMMA SameFindable ==
  ASSUME UNCHANGED <<desktop, shareWindowMap, windowList>>
  PROVE  /\ \A label : Findable(label)' <=> Findable(label)
         /\ \A m : Fits(m)' <=> Fits(m)
<1>1. \A label : Findable(label)' <=> Findable(label)
  BY DEF Findable, Sure, Bears, SameTitle, Bearers, Open
<1> QED BY <1>1 DEF Fits

\* What is read.
LEMMA ReadMaps ==
  ASSUME TypeOK, getWindowInfo, DOMAIN windowList \union Open # {}
  PROVE  /\ shareWindowMap' \in Maps /\ windowList' = shareWindowMap
         /\ DOMAIN shareWindowMap' = DOMAIN windowList \union Open
         /\ \A w \in DOMAIN windowList : shareWindowMap'[w] = windowList[w]
<1>1. PICK titles \in [Open \ DOMAIN windowList -> Titles] :
        shareWindowMap' = [w \in DOMAIN windowList \union Open |->
                            IF w \in DOMAIN windowList THEN windowList[w] ELSE titles[w]]
  BY DEF getWindowInfo
<1>2. windowList \in [DOMAIN windowList -> Titles] /\ DOMAIN windowList \in SUBSET Windows
  BY MapType DEF TypeOK
<1>3. DOMAIN windowList \union Open \in SUBSET Windows
  BY <1>2 DEF Open
<1>4. shareWindowMap' \in [DOMAIN windowList \union Open -> Titles]
  BY <1>1, <1>2
<1>5. shareWindowMap' \in Maps
  BY <1>3, <1>4, MapType
<1> QED BY <1>1, <1>5 DEF getWindowInfo

\* Titles that agree afterwards agreed before, for what is known of a window stays known.
LEMMA ReadAgrees ==
  ASSUME TypeOK, getWindowInfo, NEW w, SameTitle(w)'
  PROVE  SameTitle(w)
<1>1. CASE DOMAIN windowList \union Open = {}
  BY <1>1 DEF getWindowInfo, lists, SameTitle
<1>2. CASE DOMAIN windowList \union Open # {}
  BY <1>2, ReadMaps DEF SameTitle
<1> QED BY <1>1, <1>2

\* Reading the windows forgets no label.
LEMMA ReadKeeps ==
  ASSUME TypeOK, Real, getWindowInfo, UNCHANGED desktop
  PROVE  /\ shareWindowMap' \in Maps /\ windowList' \in Maps /\ Real'
         /\ \A label : Findable(label) => Findable(label)'
         /\ \A w \in DOMAIN shareWindowMap' : Findable(shareWindowMap[w].label)'
<1>1. Open' = Open /\ Open \subseteq Windows
  BY DEF Open
<1>2. \A w \in DOMAIN shareWindowMap' : Findable(shareWindowMap[w].label)'
  BY DEF Findable, Bearers
<1>3. CASE DOMAIN windowList \union Open = {}
  <2>1. UNCHANGED <<desktop, shareWindowMap, windowList>>
    BY <1>3 DEF getWindowInfo, lists
  <2> QED
    BY <1>2, <2>1, SameFindable DEF TypeOK, Real
<1>4. CASE DOMAIN windowList \union Open # {}
  <2>1. /\ shareWindowMap' \in Maps /\ windowList' = shareWindowMap
        /\ DOMAIN shareWindowMap' = DOMAIN windowList \union Open
        /\ \A w \in DOMAIN windowList : shareWindowMap'[w] = windowList[w]
    BY <1>4, ReadMaps
  <2>2. Real' /\ windowList' \in Maps
    BY <2>1 DEF TypeOK, Real, Open
  <2>3. ASSUME NEW label, Findable(label), Sure(label)'
        PROVE  (Bearers(label) # {})'
    <3>1. \A w : Bears(w, label) => Bears(w, label)'
      BY <2>1 DEF Bears
    <3>2. Sure(label)
      BY <2>3, <3>1, <1>1, ReadAgrees DEF Sure
    <3>3. PICK w \in DOMAIN shareWindowMap : shareWindowMap[w].label = label
      BY <2>3, <3>2 DEF Findable, Bearers
    <3>4. w \in Windows
      BY <3>3, MapType DEF TypeOK
    <3>5. w \in Open
      BY <3>2, <3>3, <3>4 DEF Sure, Bears
    <3>6. w \in DOMAIN shareWindowMap' /\ w \in DOMAIN windowList'
      BY <2>1, <3>3, <3>5
    <3>7. SameTitle(w)'
      BY <2>1, <2>3, <3>3, <3>4 DEF Sure, Bears
    <3>8. shareWindowMap'[w].label = label
      BY <2>1, <3>3, <3>6, <3>7 DEF SameTitle
    <3> QED BY <3>6, <3>8 DEF Bearers
  <2>4. \A label : Findable(label) => Findable(label)'
    BY <2>3 DEF Findable
  <2> QED
    BY <1>2, <2>1, <2>2, <2>4
<1> QED
  BY <1>3, <1>4

-----------------------------------------------------------------------------
(* The queue and the lists, in each kind of step.                           *)

\* What the steps leave alone, or leave as they should.
Lists == Real /\ Known /\ messageQueue \in Seq(Messages)
              /\ shareWindowMap \in Maps /\ windowList \in Maps

\* Nothing but the tail of the queue is left.
LEMMA DoneKeeps ==
  ASSUME IInv, messageQueue # << >>, Done, UNCHANGED <<desktop, offered, lists>>
  PROVE  Lists'
<1>1. /\ shareWindowMap' = shareWindowMap /\ windowList' = windowList
      /\ \A label : Findable(label)' <=> Findable(label)
      /\ \A x : Fits(x)' <=> Fits(x)
  BY SameFindable DEF lists
<1>2. messageQueue' \in Seq(Messages) /\ \A i \in DOMAIN messageQueue' :
        \E j \in DOMAIN messageQueue : messageQueue'[i] = messageQueue[j]
  BY TailElements DEF IInv, TypeOK, Done
<1>3. Known'
  BY <1>1, <1>2, StillFit DEF IInv, Known
<1> QED
  BY <1>1, <1>2, <1>3 DEF Lists, IInv, TypeOK, Real

\* A message is posted.
LEMMA PostKeeps ==
  ASSUME IInv, NEW m \in Messages, Fits(m), messageQueue' = Append(messageQueue, m),
         UNCHANGED <<desktop, offered, lists>>
  PROVE  Lists'
<1>1. /\ shareWindowMap' = shareWindowMap /\ windowList' = windowList
      /\ \A label : Findable(label)' <=> Findable(label)
      /\ \A x : Fits(x)' <=> Fits(x)
  BY SameFindable DEF lists
<1>2. messageQueue' \in Seq(Messages) /\ \A i \in DOMAIN messageQueue' :
        messageQueue'[i] = m \/ (i \in DOMAIN messageQueue /\ messageQueue'[i] = messageQueue[i])
  BY AppendElements DEF IInv, TypeOK
<1>3. \A i \in DOMAIN messageQueue' :
        \/ \E j \in DOMAIN messageQueue : messageQueue'[i] = messageQueue[j]
        \/ Fits(messageQueue[i])'
  <2>1. \A i \in DOMAIN messageQueue' : messageQueue'[i] = m => Fits(messageQueue[i])'
    BY <1>1
  <2> QED BY <1>2, <2>1
<1>4. Known'
  BY <1>1, <1>3, StillFit DEF IInv, Known
<1> QED
  BY <1>1, <1>2, <1>4 DEF Lists, IInv, TypeOK, Real

\* The windows are read, and perhaps passed on.
LEMMA ReadPosts ==
  ASSUME IInv, getWindowInfo, UNCHANGED <<desktop, offered>>,
         NEW q \in Seq(Messages),
         \A i \in DOMAIN q : \E j \in DOMAIN messageQueue : q[i] = messageQueue[j],
         messageQueue' = q \/ messageQueue' = Append(q, WindowInfo(shareWindowMap'))
  PROVE  Lists'
<1>1. /\ shareWindowMap' \in Maps /\ windowList' \in Maps /\ Real'
      /\ \A label : Findable(label) => Findable(label)'
      /\ \A w \in DOMAIN shareWindowMap' : Findable(shareWindowMap[w].label)'
  BY ReadKeeps DEF IInv
<1>2. DEFINE m == WindowInfo(shareWindowMap')
<1>3. m \in Messages /\ m.list = shareWindowMap' /\ m.id = "SHARE_WINDOW_INFO"
  BY <1>1, Posted DEF WindowInfo, Msg
<1> HIDE DEF m
<1>4. messageQueue' \in Seq(Messages) /\ \A i \in DOMAIN messageQueue' :
        messageQueue'[i] = m \/ (i \in DOMAIN q /\ messageQueue'[i] = q[i])
  <2>1. CASE messageQueue' = q
    BY <2>1
  <2>2. CASE messageQueue' = Append(q, m)
    BY <2>2, <1>3, AppendElements
  <2> QED
    BY <2>1, <2>2 DEF m
<1>5. \A i \in DOMAIN messageQueue' :
        \/ \E j \in DOMAIN messageQueue : messageQueue'[i] = messageQueue[j]
        \/ Fits(messageQueue[i])'
  <2>1. ASSUME NEW i \in DOMAIN messageQueue', messageQueue'[i] = m
        PROVE  Fits(messageQueue[i])'
    BY <2>1, <1>1, <1>3 DEF Fits
  <2> QED
    BY <2>1, <1>4
<1>6. \A label \in offered' : Findable(label)'
  BY <1>1 DEF IInv, Known
<1>7. Known'
  BY <1>1, <1>5, <1>6, StillFit DEF IInv
<1> QED
  BY <1>1, <1>4, <1>7 DEF Lists

-----------------------------------------------------------------------------
(* The steps.                                                               *)

\* What is left of IInv when the lists are seen to.
Rest ==
  /\ desktop \in [Windows -> {"absent", "open", "closed"}]
  /\ streamWnd \in BOOLEAN /\ shareState \in BOOLEAN /\ camState \in BOOLEAN
  /\ offered \subseteq Labels
  /\ pc \in BOOLEAN /\ listener \in {"idle", "called", "joined"} /\ meetings \in Nat
  /\ fault \in {"none", "null"}

Tracks ==
  /\ source \in {"none", "screen", "window"} /\ screenOn \in BOOLEAN
  /\ screenId \in Nat /\ windowId \in Nat
  /\ isWinfirst \in BOOLEAN /\ isScreenfirst \in BOOLEAN
  /\ camera \in Nat /\ camOn \in BOOLEAN /\ videoDevList \subseteq Nat
  /\ WayBack

LEMMA Parts ==
  IInv <=> Lists /\ Rest /\ Tracks
BY DEF IInv, Lists, Rest, Tracks, TypeOK

LEMMA PartsNext ==
  ASSUME Lists', Rest', Tracks'
  PROVE  IInv'
BY DEF IInv, Lists, Rest, Tracks, TypeOK

\* A click changes its button and posts its message.
LEMMA UserKeeps ==
  ASSUME IInv, UserStep
  PROVE  IInv'
<1>1. ASSUME NEW m \in Messages, Fits(m), Posts(m),
             shareState' \in BOOLEAN, camState' \in BOOLEAN
      PROVE  IInv'
  <2>1. Lists'
    BY <1>1, PostKeeps DEF Posts
  <2>2. Rest' /\ Tracks'
    BY <1>1, Parts DEF Posts, Rest, Tracks, WayBack, callVars, screenVars, camVars
  <2> QED
    BY <2>1, <2>2, PartsNext
<1>2. shareState \in BOOLEAN /\ camState \in BOOLEAN /\ offered \subseteq Labels
  BY DEF IInv, TypeOK
<1>3. Screens \subseteq Nat /\ Cameras \subseteq Nat /\ Windows \subseteq Nat
  BY SharingAssumption
<1>4. \A id \in {"MEETING_END", "REQUEST_WINDOW_LIST"} : Fits(Msg(id))
  BY DEF Msg, Fits, EmptyMap
<1>5. \A id \in {"SET_SHARE", "SET_CAMERA"}, on \in BOOLEAN : Fits(Switch(id, on))
  BY DEF Msg, Switch, Fits, EmptyMap
<1>6. /\ \A s \in Screens : Fits(Pick("SWITCH_SHARE_SCREEN", s))
      /\ \A c \in Cameras : Fits(Pick("SWITCH_VIDEO_INPUT", c))
  BY DEF Msg, Pick, Fits, EmptyMap
<1>7. \A label \in offered : Fits(PickLabel(label))
  BY DEF IInv, Known, Msg, PickLabel, Fits, EmptyMap
<1>8. CASE ClickShare
  BY <1>1, <1>2, <1>5, <1>8, Posted DEF ClickShare
<1>9. CASE ClickCamera
  BY <1>1, <1>2, <1>5, <1>9, Posted DEF ClickCamera
<1>10. CASE ClickShareArrow
  BY <1>1, <1>2, <1>4, <1>10, Posted DEF ClickShareArrow
<1>11. CASE ClickLeave
  BY <1>1, <1>2, <1>4, <1>11, Posted DEF ClickLeave
<1>12. ASSUME NEW s \in Screens, PickScreen(s) PROVE IInv'
  BY <1>1, <1>2, <1>3, <1>6, <1>12, Posted DEF PickScreen
<1>13. ASSUME NEW label \in Labels, PickWindow(label) PROVE IInv'
  BY <1>1, <1>2, <1>3, <1>7, <1>13, Posted DEF PickWindow
<1>14. ASSUME NEW c \in Cameras, PickCamera(c) PROVE IInv'
  BY <1>1, <1>2, <1>3, <1>6, <1>14, Posted DEF PickCamera
<1> QED
  BY <1>8, <1>9, <1>10, <1>11, <1>12, <1>13, <1>14 DEF UserStep

\* Windows come and go.
LEMMA DesktopKeeps ==
  ASSUME IInv, NEW w \in Windows, WindowOpens(w) \/ WindowCloses(w)
  PROVE  IInv'
<1>1. PICK to \in {"open", "closed"} :
        desktop' = [desktop EXCEPT ![w] = to] /\ (desktop[w] # "absent" \/ to = "open")
          /\ desktop[w] # "closed"
  BY DEF WindowOpens, WindowCloses
<1>2. /\ UNCHANGED <<streamWnd, shareState, camState, offered, messageQueue, pc, listener,
                     meetings, fault, shareWindowMap, windowList>>
      /\ UNCHANGED <<screenVars, camVars>>
  BY DEF WindowOpens, WindowCloses, wndVars, lists, callVars
<1>3. Rest'
  BY <1>1, <1>2, Parts DEF Rest
<1>4. Tracks'
  BY <1>2, Parts DEF Tracks, WayBack, screenVars, camVars
<1>5. \A label : Findable(label) => Findable(label)'
  <2>1. \A v, label : Bears(v, label) /\ v \in Open' => v \in Open
    <3>1. \A v, label : Bears(v, label) => desktop[v] # "absent"
      BY DEF IInv, Real, Bears
    <3> QED BY <1>1, <3>1 DEF IInv, TypeOK, Open
  <2>2. \A v, label : (Bears(v, label)' <=> Bears(v, label)) /\ (SameTitle(v)' <=> SameTitle(v))
    BY <1>2 DEF Bears, SameTitle
  <2>3. \A label : Sure(label)' => Sure(label)
    BY <2>1, <2>2 DEF Sure
  <2> QED BY <1>2, <2>3 DEF Findable, Bearers
<1>6. Real'
  <2>1. \A v \in DOMAIN shareWindowMap \union DOMAIN windowList : v \in Windows
    BY MapType DEF IInv, TypeOK
  <2> QED BY <1>1, <1>2, <2>1 DEF IInv, TypeOK, Real
<1>7. Known'
  BY <1>2, <1>5, StillFit DEF IInv, Known
<1> QED
  <2>1. Lists'
    BY <1>2, <1>6, <1>7, Parts DEF Lists
  <2> QED
    BY <2>1, <1>3, <1>4, PartsNext

\* A call.
LEMMA CallsKeep ==
  ASSUME IInv, CreateMeeting \/ JoinMeeting \/ SetRemote \/ OnJoinMeetingSuccess
  PROVE  IInv'
<1>1. messageQueue \in Seq(Messages)
  BY DEF IInv, TypeOK
<1>2. Fits(Msg("ADD_TRACK")) /\ Msg("ADD_TRACK") \in Messages
  BY Posted DEF Msg, Fits, EmptyMap
<1>3. Lists'
  <2>1. CASE CreateMeeting
    BY <2>1, <1>1, ReadPosts DEF CreateMeeting, Calls, wndVars
  <2>2. CASE JoinMeeting
    <3>1. UNCHANGED <<desktop, offered, messageQueue, shareWindowMap, windowList>>
      BY <2>2 DEF JoinMeeting, Calls, wndVars, lists
    <3> QED
      BY <3>1, Parts, SameFindable DEF Lists, Real, Known
  <2>3. CASE SetRemote
    BY <2>3, <1>2, PostKeeps DEF SetRemote, wndVars
  <2>4. CASE OnJoinMeetingSuccess
    BY <2>4, <1>1, ReadPosts DEF OnJoinMeetingSuccess, wndVars
  <2> QED
    BY <2>1, <2>2, <2>3, <2>4
<1>4. Rest' /\ Tracks'
  <2>1. CASE Calls
    <3>1. meetings' \in Nat
      BY <2>1, Parts DEF Calls, Rest
    <3>2. Rest'
      BY <2>1, <3>1, Parts DEF Calls, AddTracks, Rest, wndVars
    <3>3. Tracks'
      BY <2>1, Parts DEF Calls, AddTracks, Tracks, WayBack
    <3> QED
      BY <3>2, <3>3
  <2>2. CASE SetRemote \/ OnJoinMeetingSuccess
    BY <2>2, Parts DEF SetRemote, OnJoinMeetingSuccess, Rest, Tracks, WayBack, wndVars,
                       screenVars, camVars
  <2> QED
    BY <2>1, <2>2 DEF CreateMeeting, JoinMeeting
<1> QED
  BY <1>3, <1>4, PartsNext

\* A step of the UI thread: it takes a message, and follows a null pointer or not.
LEMMA UIKeeps ==
  ASSUME IInv, UIStep
  PROVE  IInv'
<1>1. /\ messageQueue \in Seq(Messages) /\ offered \subseteq Labels
      /\ \A on \in BOOLEAN, dev \in Nat : on \in BOOLEAN /\ dev \in Nat
  BY DEF IInv, TypeOK
<1>2. ASSUME messageQueue # << >>
      PROVE  Head(messageQueue).on \in BOOLEAN /\ Head(messageQueue).dev \in Nat
             /\ Head(messageQueue).list \in Maps /\ Fits(Head(messageQueue))
  BY <1>1, <1>2, TailElements DEF Messages, IInv, Known
<1>3. ASSUME NEW id, Takes(id), Done, Dies
      PROVE  IInv'
  <2>1. Lists'
    BY <1>3, DoneKeeps DEF Takes, Dies, wndVars
  <2>2. Rest' /\ Tracks'
    BY <1>3, Parts DEF Takes, Dies, Rest, Tracks, WayBack, wndVars, callVars, screenVars, camVars
  <2> QED
    BY <2>1, <2>2, PartsNext
\* An operation on the tracks of a connection.
<1>4. ASSUME NEW id, Takes(id), Done, UNCHANGED <<wndVars, lists, pc, fault>>, Tracks'
      PROVE  IInv'
  <2>1. Lists'
    BY <1>4, DoneKeeps DEF Takes, wndVars
  <2>2. Rest'
    BY <1>4, Parts DEF Takes, Rest, wndVars
  <2> QED
    BY <2>1, <2>2, <1>4, PartsNext
<1>5. CASE UpdateSetShare
  <2>1. CASE pc
    <3>1. Tracks'
      BY <1>5, <2>1, <1>2, Parts DEF UpdateSetShare, Takes, OnTracks, Tracks, WayBack, camVars
    <3> QED
      BY <1>5, <2>1, <3>1, <1>4 DEF UpdateSetShare, OnTracks
  <2> QED
    BY <1>5, <2>1, <1>3 DEF UpdateSetShare, OnTracks
<1>6. CASE UpdateSetCamera
  <2>1. CASE pc
    <3>1. Tracks'
      BY <1>6, <2>1, <1>2, Parts DEF UpdateSetCamera, Takes, OnTracks, Tracks, WayBack, screenVars
    <3> QED
      BY <1>6, <2>1, <3>1, <1>4 DEF UpdateSetCamera, OnTracks
  <2> QED
    BY <1>6, <2>1, <1>3 DEF UpdateSetCamera, OnTracks
<1>7. CASE UpdateSwitchScreen
  <2>1. CASE pc
    <3>1. Head(messageQueue).dev % 256 \in Nat
      <4>1. \A n \in Nat : n % 256 \in Nat
        OBVIOUS
      <4> QED BY <1>7, <1>2, <4>1 DEF UpdateSwitchScreen, Takes
    <3>2. Tracks'
      BY <1>7, <2>1, <3>1, Parts
      DEF UpdateSwitchScreen, Takes, OnTracks, setScreenCapture, Tracks, WayBack, camVars
    <3> QED
      BY <1>7, <2>1, <3>2, <1>4 DEF UpdateSwitchScreen, OnTracks
  <2> QED
    BY <1>7, <2>1, <1>3 DEF UpdateSwitchScreen, OnTracks
<1>8. CASE UpdateSwitchWindow
  <2>1. CASE UNCHANGED <<wndVars, lists, pc, screenVars, camVars, fault>>
    <3>1. Tracks'
      BY <2>1, Parts DEF Tracks, WayBack, screenVars, camVars
    <3> QED
      BY <1>8, <2>1, <3>1, <1>4 DEF UpdateSwitchWindow
  <2>2. ASSUME NEW w \in Bearers(Head(messageQueue).label),
               OnTracks(/\ setWindowCapture(w)
                        /\ UNCHANGED <<wndVars, lists, pc, camVars, fault>>)
        PROVE  IInv'
    <3>1. w \in Nat
      BY MapType, SharingAssumption DEF Bearers, IInv, TypeOK
    <3>2. CASE pc
      <4>1. Tracks'
        BY <2>2, <3>1, <3>2, Parts DEF OnTracks, setWindowCapture, Tracks, WayBack, camVars
      <4> QED
        BY <1>8, <2>2, <3>2, <4>1, <1>4 DEF UpdateSwitchWindow, OnTracks
    <3> QED
      BY <1>8, <2>2, <3>2, <1>3 DEF UpdateSwitchWindow, OnTracks
  <2> QED
    BY <1>8, <2>1, <2>2 DEF UpdateSwitchWindow
<1>9. CASE UpdateSwitchCamera
  <2>1. CASE pc
    <3>1. Tracks'
      BY <1>9, <2>1, <1>2, Parts
      DEF UpdateSwitchCamera, Takes, OnTracks, setCamera, Tracks, WayBack, screenVars, camVars
    <3> QED
      BY <1>9, <2>1, <3>1, <1>4 DEF UpdateSwitchCamera, OnTracks
  <2> QED
    BY <1>9, <2>1, <1>3 DEF UpdateSwitchCamera, OnTracks
<1>10. CASE UpdateRequestWindowList
  <2>1. Lists'
    BY <1>10, <1>1, TailElements, ReadPosts DEF UpdateRequestWindowList, Takes, wndVars
  <2>2. Rest' /\ Tracks'
    BY <1>10, Parts
    DEF UpdateRequestWindowList, Takes, Rest, Tracks, WayBack, wndVars, screenVars, camVars
  <2> QED
    BY <2>1, <2>2, PartsNext
<1>11. CASE UpdateShareWindowInfo
  <2>1. \A label \in offered' : \/ label \in offered
                                 \/ \E w \in DOMAIN Head(messageQueue).list :
                                      label = Head(messageQueue).list[w].label
    BY <1>11 DEF UpdateShareWindowInfo, Adds, Fresh
  <2>2. /\ messageQueue # << >> /\ UNCHANGED desktop
        /\ shareWindowMap' = shareWindowMap /\ windowList' = windowList
    BY <1>11 DEF UpdateShareWindowInfo, Takes, lists
  <2>3. offered' \subseteq Labels /\ \A label \in offered' : Findable(label)'
    <3>1. \A w \in DOMAIN Head(messageQueue).list : Head(messageQueue).list[w].label \in Labels
      <4>1. \A t \in Titles : t.label \in Labels
        BY SharingAssumption DEF Titles
      <4> QED BY <2>2, <1>2, <4>1, MapType
    <3>2. \A label \in offered' : Findable(label)
      BY <2>1, <2>2, <1>2 DEF IInv, Known, Fits
    <3> QED BY <2>1, <2>2, <3>1, <3>2, <1>1, SameFindable
  <2>4. messageQueue' \in Seq(Messages) /\ \A i \in DOMAIN messageQueue' :
          \E j \in DOMAIN messageQueue : messageQueue'[i] = messageQueue[j]
    BY <1>11, <2>2, <1>1, TailElements DEF UpdateShareWindowInfo, Done
  <2>5. Known'
    BY <2>2, <2>3, <2>4, StillFit, SameFindable DEF IInv
  <2>6. Lists'
    BY <1>11, <2>2, <2>4, <2>5, Parts DEF UpdateShareWindowInfo, Takes, Lists, Real
  <2>7. Rest' /\ Tracks'
    BY <1>11, <2>3, Parts
    DEF UpdateShareWindowInfo, Takes, Rest, Tracks, WayBack, screenVars, camVars
  <2> QED
    BY <2>6, <2>7, PartsNext
<1>12. CASE UpdateAddTrack
  <2>1. Lists'
    BY <1>12, DoneKeeps DEF UpdateAddTrack, Takes
  <2>2. Rest' /\ Tracks'
    BY <1>12, Parts DEF UpdateAddTrack, Takes, Rest, Tracks, WayBack, screenVars, camVars
  <2> QED
    BY <2>1, <2>2, PartsNext
<1>13. CASE UpdateMeetingEnd
  <2>1. offered' = {} /\ messageQueue # << >> /\ UNCHANGED desktop
        /\ shareWindowMap' = shareWindowMap /\ windowList' = windowList
    BY <1>13 DEF UpdateMeetingEnd, Takes, lists
  <2>2. messageQueue' \in Seq(Messages) /\ \A i \in DOMAIN messageQueue' :
          \E j \in DOMAIN messageQueue : messageQueue'[i] = messageQueue[j]
    BY <1>13, <2>1, <1>1, TailElements DEF UpdateMeetingEnd, Done
  <2>3. Known'
    BY <2>1, <2>2, StillFit, SameFindable DEF IInv
  <2>4. Lists'
    BY <1>13, <2>1, <2>2, <2>3, Parts DEF UpdateMeetingEnd, Takes, Lists, Real
  <2>5. Rest' /\ Tracks'
    BY <1>13, Parts DEF UpdateMeetingEnd, Takes, Rest, Tracks, WayBack
  <2> QED
    BY <2>4, <2>5, PartsNext
<1> QED
  BY <1>5, <1>6, <1>7, <1>8, <1>9, <1>10, <1>11, <1>12, <1>13 DEF UIStep

-----------------------------------------------------------------------------
(* The theorems.                                                            *)

LEMMA InitHolds == Init => IInv
<1> SUFFICES ASSUME Init PROVE IInv
  OBVIOUS
<1>1. Rest
  BY DEF Init, Rest
<1>2. Tracks
  BY DEF Init, Tracks, WayBack
<1>3. /\ messageQueue = << >> /\ offered = {}
      /\ shareWindowMap = EmptyMap /\ windowList = EmptyMap /\ DOMAIN EmptyMap = {}
  BY DEF Init, EmptyMap
<1>4. messageQueue \in Seq(Messages) /\ DOMAIN messageQueue = {}
  BY <1>3
<1>5. Lists
  <2>1. EmptyMap \in [{} -> Titles]
    BY DEF EmptyMap
  <2>2. EmptyMap \in Maps
    BY <2>1, MapType
  <2> QED BY <1>3, <1>4, <2>2 DEF Lists, Real, Known
<1> QED
  BY <1>1, <1>2, <1>5, Parts

LEMMA StutterKeeps ==
  ASSUME IInv, UNCHANGED vars
  PROVE  IInv'
<1>1. /\ UNCHANGED <<desktop, messageQueue, streamWnd, shareState, camState, offered>>
      /\ UNCHANGED <<pc, listener, meetings, fault, shareWindowMap, windowList>>
      /\ UNCHANGED <<screenVars, camVars>>
  BY DEF vars, wndVars, lists, callVars
<1>2. Lists'
  <2>1. Real' /\ Known'
    BY <1>1, SameFindable DEF IInv, Real, Known
  <2> QED
    BY <1>1, <2>1, Parts DEF Lists
<1>3. Rest'
  BY <1>1, Parts DEF Rest
<1>4. Tracks'
  BY <1>1, Parts DEF Tracks, WayBack, screenVars, camVars
<1> QED
  BY <1>2, <1>3, <1>4, PartsNext

\* The invariant starts out true and every step keeps it: a label that was offered, or is
\* under way in a message, is that of a window the Controller knows, though two threads
\* read and swap the maps (getWindowInfo), unless a window known by that label has closed
\* or is known by another title too.
THEOREM Invariance == Spec => []IInv
<1>1. IInv /\ [Next]_vars => IInv'
  BY UserKeeps, UIKeeps, CallsKeep, DesktopKeeps, StutterKeeps DEF Next
<1> QED
  BY <1>1, InitHolds, PTL DEF Spec

\* Only the UI thread shortens the queue.
LEMMA OnlyUITakes ==
  ASSUME IInv, Next, messageQueue # << >>, messageQueue' = Tail(messageQueue)
  PROVE  UIStep
<1>1. /\ Len(messageQueue) \in Nat /\ Len(messageQueue') = Len(messageQueue) - 1
  BY DEF IInv, TypeOK
<1>2. \A m : Len(Append(messageQueue, m)) = Len(messageQueue) + 1
  BY DEF IInv, TypeOK
<1>3. ASSUME NEW m, messageQueue' = Append(messageQueue, m) PROVE FALSE
  BY <1>1, <1>2, <1>3
<1>4. ASSUME messageQueue' = messageQueue PROVE FALSE
  BY <1>1, <1>4
<1>5. ~UserStep
  BY <1>3 DEF UserStep, Posts, ClickShare, ClickCamera, ClickShareArrow, ClickLeave,
              PickScreen, PickWindow, PickCamera
<1>6. ~CreateMeeting /\ ~JoinMeeting
  BY DEF CreateMeeting, JoinMeeting, Calls
<1>7. ~SetRemote /\ ~OnJoinMeetingSuccess
  BY <1>3 DEF SetRemote, OnJoinMeetingSuccess
<1>8. \A w \in Windows : ~WindowOpens(w) /\ ~WindowCloses(w)
  BY <1>4 DEF WindowOpens, WindowCloses
<1> QED
  BY <1>5, <1>6, <1>7, <1>8 DEF Next

\* A message is taken by the step that is for it.
LEMMA ScreenStep ==
  ASSUME UIStep, Takes("SWITCH_SHARE_SCREEN")
  PROVE  UpdateSwitchScreen
BY DEF UIStep, Takes, UpdateSetShare, UpdateSetCamera, UpdateSwitchWindow, UpdateSwitchCamera,
       UpdateRequestWindowList, UpdateShareWindowInfo, UpdateAddTrack, UpdateMeetingEnd

LEMMA WindowStep ==
  ASSUME UIStep, Takes("SWITCH_SHARE_WINDOW")
  PROVE  UpdateSwitchWindow
BY DEF UIStep, Takes, UpdateSetShare, UpdateSetCamera, UpdateSwitchScreen, UpdateSwitchCamera,
       UpdateRequestWindowList, UpdateShareWindowInfo, UpdateAddTrack, UpdateMeetingEnd

\* Buttons, lists, tracks and messages keep their types.
THEOREM TypeCorrect == Spec => []TypeOK
<1>1. IInv => TypeOK
  BY DEF IInv
<1> QED
  BY <1>1, Invariance, PTL

\* setScreenCapture shares the chosen screen in every meeting, although the flags that
\* decide whether it makes a new track outlive the meetings.
THEOREM ScreensAreShared == Spec => ScreenPickShares
<1>1. ASSUME IInv, [Next]_vars, Takes("SWITCH_SHARE_SCREEN"), pc,
             messageQueue' = Tail(messageQueue)
      PROVE  source' = "screen" /\ screenId' = Head(messageQueue).dev
  <2>1. messageQueue # << >>
    BY <1>1 DEF Takes
  <2>2. messageQueue' # messageQueue
    BY <1>1, <2>1 DEF IInv, TypeOK
  <2>3. Next
    BY <1>1, <2>2 DEF vars
  <2>4. UpdateSwitchScreen
    BY <1>1, <2>1, <2>3, OnlyUITakes, ScreenStep
  <2>5. setScreenCapture(Head(messageQueue).dev)
    BY <1>1, <2>4 DEF UpdateSwitchScreen, OnTracks
  <2>6. Head(messageQueue).dev \in 0 .. 255
    BY <1>1, <2>1, TailElements, SharingAssumption DEF IInv, TypeOK, Known, Fits, Takes
  <2>7. Head(messageQueue).dev % 256 = Head(messageQueue).dev
    BY <2>6
  <2> QED
    BY <1>1, <2>5, <2>7 DEF setScreenCapture, IInv, TypeOK, WayBack
<1>2. IInv /\ [Next]_vars =>
        [(Takes("SWITCH_SHARE_SCREEN") /\ pc /\ messageQueue' = Tail(messageQueue)) =>
           source' = "screen" /\ screenId' = Head(messageQueue).dev]_vars
  BY <1>1
<1> QED
  BY <1>2, Invariance, PTL DEF Spec, ScreenPickShares

\* However often CreateMeeting, OnJoinMeetingSuccess and the arrow read and swap the maps,
\* a label that was offered finds an open window that is known by it, as long as no window
\* known by it has closed or got another title between two readings.
THEOREM WindowsAreFound == Spec => ChosenIsFound
<1> DEFINE label == Head(messageQueue).label
<1>1. ASSUME IInv, [Next]_vars, Takes("SWITCH_SHARE_WINDOW"), pc,
             messageQueue' = Tail(messageQueue),
             \A w \in Windows : Bears(w, label) => w \in Open /\ SameTitle(w)
      PROVE  windowId' \in Open /\ Bears(windowId', label)
  <2>1. messageQueue # << >>
    BY <1>1 DEF Takes
  <2>2. messageQueue' # messageQueue
    BY <1>1, <2>1 DEF IInv, TypeOK
  <2>3. Next
    BY <1>1, <2>2 DEF vars
  <2>4. UpdateSwitchWindow
    BY <1>1, <2>1, <2>3, OnlyUITakes, WindowStep
  <2>5. Findable(label)
    <3>1. Fits(Head(messageQueue))
      BY <1>1, <2>1, TailElements DEF IInv, TypeOK, Known
    <3> QED BY <1>1, <3>1 DEF Fits, Takes
  <2>6. Bearers(label) # {}
    BY <1>1, <2>5 DEF Findable, Sure
  <2>7. PICK w \in Bearers(label) : setWindowCapture(w)
    BY <1>1, <2>4, <2>6 DEF UpdateSwitchWindow, OnTracks
  <2>8. windowId' = w /\ w \in Windows /\ Bears(w, label)
    BY <1>1, <2>7, MapType DEF setWindowCapture, Bearers, Bears, IInv, TypeOK
  <2> QED
    BY <1>1, <2>8
<1>2. IInv /\ [Next]_vars =>
        [(/\ Takes("SWITCH_SHARE_WINDOW") /\ pc /\ messageQueue' = Tail(messageQueue)
          /\ \A w \in Windows : Bears(w, label) => w \in Open /\ SameTitle(w)) =>
           windowId' \in Open /\ Bears(windowId', label)]_vars
  BY <1>1
<1> QED
  BY <1>2, Invariance, PTL DEF Spec, ChosenIsFound

-----------------------------------------------------------------------------
(* What the user is offered.                                                *)

\* The window opens once in a meeting, after the remote description is set.
OpensOnce ==
  /\ listener = "called" => pc /\ ~streamWnd /\ ~Leaving
  /\ \A i \in DOMAIN messageQueue : messageQueue[i].id = "ADD_TRACK" =>
       /\ pc /\ ~streamWnd /\ ~Leaving /\ listener # "called"
       /\ \A j \in DOMAIN messageQueue : messageQueue[j].id = "ADD_TRACK" => i = j

\* Outside meetings the window is closed.
InMeeting == streamWnd => pc

\* No window has closed or got another title between two readings.
Unclosed == \A w \in Windows : desktop[w] # "closed"
Agreed == \A w \in Windows : SameTitle(w)

\* Every label of the list is among those shown, those of dropped titles apart.
Shows(shown, list) == \A w \in DOMAIN list : list[w].hidden \/ list[w].label \in shown

\* What the Controller knows is offered, or will be, or there is no room.
Promised ==
  \/ Shows(offered, shareWindowMap) \/ Cardinality(offered) = ListLimit
  \/ \E i \in DOMAIN messageQueue :
       messageQueue[i].id = "SHARE_WINDOW_INFO" /\ messageQueue[i].list = shareWindowMap

\* So it is in a meeting that is joined and not being left.
WillOffer ==
  /\ Cardinality(offered) <= ListLimit
  /\ (Unclosed /\ Agreed /\ pc /\ listener = "idle" /\ ~Leaving) => Promised

OInv == OpensOnce /\ InMeeting /\ WillOffer

-----------------------------------------------------------------------------
(* How many labels fit.                                                     *)

\* The k least of T.
Least(T, k) == {w \in T : Cardinality({v \in T : v < w}) < k}

\* Of a finite set of numbers, the k least are all of it, or k if there are that many.
LEMMA Counting ==
  ASSUME NEW T, IsFiniteSet(T), T \subseteq Nat, NEW k \in Nat
  PROVE  /\ Least(T, k) \subseteq T /\ IsFiniteSet(Least(T, k))
         /\ Cardinality(T) <= k => Least(T, k) = T
         /\ k <= Cardinality(T) => Cardinality(Least(T, k)) = k
<1> DEFINE n == Cardinality(T)
           A == Least(T, k)
           Below(w) == {v \in T : v < w}
           rank == [w \in T |-> Cardinality(Below(w))]
<1>1. n \in Nat /\ n = Cardinality(T)
  BY FS_CardinalityType
<1> HIDE DEF n
<1>2. A = {w \in T : rank[w] < k} /\ IsFiniteSet(A)
  BY FS_Subset DEF Least
<1>3. ASSUME NEW w \in T
      PROVE  /\ IsFiniteSet(Below(w)) /\ Cardinality(Below(w)) \in Nat
             /\ rank[w] \in 0 .. n - 1
  <2>1. Below(w) \in SUBSET T /\ w \notin Below(w)
    OBVIOUS
  <2> HIDE DEF Below
  <2>2. /\ IsFiniteSet(Below(w)) /\ Cardinality(Below(w)) <= n
        /\ Cardinality(Below(w)) # n
    BY <1>1, <2>1, FS_Subset
  <2>3. Cardinality(Below(w)) \in Nat
    BY <2>2, FS_CardinalityType
  <2>4. rank[w] = Cardinality(Below(w))
    OBVIOUS
  <2> QED BY <1>1, <2>2, <2>3, <2>4
<1>4. ASSUME NEW v \in T, NEW w \in T, v < w
      PROVE  rank[v] < rank[w]
  <2>1. ~(v < v) /\ \A x \in T : x < v => x < w
    BY <1>4
  <2>2. Below(v) \in SUBSET Below(w) /\ v \in Below(w) /\ v \notin Below(v)
    BY <1>4, <2>1
  <2>3. rank[v] = Cardinality(Below(v)) /\ rank[w] = Cardinality(Below(w))
    OBVIOUS
  <2>4. /\ IsFiniteSet(Below(w))
        /\ Cardinality(Below(v)) \in Nat /\ Cardinality(Below(w)) \in Nat
    BY <1>3
  <2> HIDE DEF Below
  <2>5. Cardinality(Below(v)) <= Cardinality(Below(w))
        /\ Cardinality(Below(v)) # Cardinality(Below(w))
    BY <2>2, <2>4, FS_Subset
  <2> QED BY <2>3, <2>4, <2>5
<1>5. rank \in [T -> 0 .. n - 1]
  BY <1>3
<1> HIDE DEF rank, Below, A
<1>6. ASSUME NEW v \in T, NEW w \in T, rank[v] = rank[w] PROVE v = w
  <2>1. ~(v < w) /\ ~(w < v)
    BY <1>3, <1>4, <1>6
  <2> QED BY <2>1
<1>7. rank \in Injection(T, 0 .. n - 1)
  BY <1>5, <1>6, Fun_IsInj
<1>8. IsFiniteSet(0 .. n - 1) /\ Cardinality(0 .. n - 1) = n
  <2>1. 0 \in Int /\ n - 1 \in Int
    BY <1>1
  <2>2. /\ IsFiniteSet(0 .. n - 1)
        /\ Cardinality(0 .. n - 1) = IF 0 > n - 1 THEN 0 ELSE n - 1 - 0 + 1
    BY <2>1, FS_Interval
  <2> QED BY <1>1, <2>2
<1>9. \A t \in 0 .. n - 1 : \E w \in T : rank[w] = t
  <2>1. rank \in Surjection(T, 0 .. n - 1)
    BY <1>1, <1>7, <1>8, FS_Injection
  <2> QED BY <2>1 DEF Surjection
<1>10. ASSUME n <= k PROVE A = T
  <2>1. \A w \in T : rank[w] < k
    BY <1>1, <1>3, <1>10
  <2> QED BY <1>2, <2>1
<1>11. ASSUME k <= n PROVE Cardinality(A) = k
  <2> DEFINE f == [w \in A |-> rank[w]]
  <2>1. f \in [A -> 0 .. k - 1] /\ \A w \in A : w \in T /\ f[w] = rank[w]
    <3>1. \A w \in A : w \in T /\ rank[w] < k
      BY <1>2
    <3>2. ASSUME NEW w \in A PROVE rank[w] \in 0 .. k - 1
      <4>1. w \in T /\ rank[w] < k
        BY <3>1
      <4>2. rank[w] \in 0 .. n - 1
        BY <1>3, <4>1
      <4> QED BY <1>1, <4>1, <4>2
    <3> QED BY <3>1, <3>2
  <2> HIDE DEF f
  <2>2. \A v, w \in A : f[v] = f[w] => v = w
    BY <1>6, <2>1
  <2>3. \A t \in 0 .. k - 1 : \E w \in A : f[w] = t
    BY <1>1, <1>2, <1>9, <1>11, <2>1
  <2>4. f \in Bijection(A, 0 .. k - 1)
    BY <2>1, <2>2, <2>3, Fun_IsBij
  <2>5. Cardinality(0 .. k - 1) = Cardinality(A)
    BY <1>2, <2>4, FS_Bijection DEF ExistsBijection
  <2>6. Cardinality(0 .. k - 1) = k
    BY FS_Interval
  <2> QED BY <2>5, <2>6
<1> QED BY <1>1, <1>2, <1>10, <1>11 DEF A

\* A set of numbers has a least one.
LEMMA LeastExists ==
  ASSUME NEW T, IsFiniteSet(T), T \subseteq Nat, T # {}
  PROVE  \E x \in T : \A v \in T : x <= v
<1>1. Cardinality(T) \in Nat /\ Cardinality(T) # 0
  BY FS_CardinalityType, FS_EmptySet
<1>2. Cardinality(Least(T, 1)) = 1 /\ Least(T, 1) \subseteq T
  <2>1. 1 \in Nat /\ 1 <= Cardinality(T)
    BY <1>1
  <2> QED BY <2>1, Counting
<1>3. PICK x \in T : x \in Least(T, 1)
  <2>1. Least(T, 1) # {}
    BY <1>2, FS_EmptySet
  <2> QED BY <1>2, <2>1
<1> DEFINE Below == {v \in T : v < x}
<1>4. Cardinality(Below) < 1
  BY <1>3 DEF Least
<1>5. IsFiniteSet(Below)
  <2>1. Below \in SUBSET T
    OBVIOUS
  <2> HIDE DEF Below
  <2> QED BY <2>1, FS_Subset
<1>6. Below = {}
  <2> HIDE DEF Below
  <2>1. Cardinality(Below) = 0
    BY <1>4, <1>5, FS_CardinalityType
  <2> QED BY <1>5, <2>1, FS_EmptySet
<1>7. \A v \in T : ~(v < x)
  BY <1>6
<1> QED BY <1>3, <1>7

\* Each label of the list that may be shown is there already or that of a fresh window,
\* and no two fresh windows have the same.
LEMMA FreshLabels ==
  ASSUME NEW list \in Maps
  PROVE  /\ Fresh(list) \subseteq DOMAIN list /\ IsFiniteSet(Fresh(list)) /\ Fresh(list) \subseteq Nat
         /\ \A w \in DOMAIN list : \/ list[w].hidden \/ list[w].label \in offered
                                  \/ \E x \in Fresh(list) : list[x].label = list[w].label
         /\ \A w \in Fresh(list) : list[w].label \notin offered
         /\ \A v, w \in Fresh(list) : list[v].label = list[w].label => v = w
<1>1. /\ Fresh(list) \subseteq DOMAIN list /\ DOMAIN list \in SUBSET Windows
      /\ \A w \in Fresh(list) : list[w].label \notin offered
  BY MapType DEF Fresh
<1>2. IsFiniteSet(DOMAIN list) /\ IsFiniteSet(Fresh(list)) /\ DOMAIN list \subseteq Nat
  BY <1>1, SharingAssumption, FS_Subset
<1>3. ASSUME NEW w \in DOMAIN list, ~list[w].hidden, list[w].label \notin offered
      PROVE  \E x \in Fresh(list) : list[x].label = list[w].label
  <2> DEFINE T == {v \in DOMAIN list : ~list[v].hidden /\ list[v].label = list[w].label}
  <2>1. w \in T /\ T \in SUBSET DOMAIN list
    BY <1>3
  <2>2. IsFiniteSet(T) /\ T \subseteq Nat /\ T # {}
    <3> HIDE DEF T
    <3> QED BY <1>2, <2>1, FS_Subset
  <2>3. PICK x \in T : \A v \in T : x <= v
    <3> HIDE DEF T
    <3> QED BY <2>2, LeastExists
  <2> QED BY <1>3, <2>3 DEF Fresh
<1>4. ASSUME NEW v \in Fresh(list), NEW w \in Fresh(list), list[v].label = list[w].label
      PROVE  v = w
  <2>1. v <= w /\ w <= v
    BY <1>4 DEF Fresh
  <2> QED BY <1>1, <1>2, <2>1
<1> QED BY <1>1, <1>2, <1>3, <1>4

\* addLabel leaves no list longer than the limit, and adds all labels that may be shown
\* or fills the window's list.
LEMMA LabelsFill ==
  ASSUME NEW list \in Maps, IsFiniteSet(offered), Cardinality(offered) <= ListLimit,
         offered' = offered \union {list[w].label : w \in Adds(list)}
  PROVE  /\ Cardinality(offered') <= ListLimit
         /\ Shows(offered', list) \/ Cardinality(offered') = ListLimit
         /\ Cardinality(offered) = ListLimit => offered' = offered
<1> DEFINE T == Fresh(list)
           k == ListLimit - Cardinality(offered)
           A == Adds(list)
           L == {list[w].label : w \in A}
<1>1. /\ T \subseteq DOMAIN list /\ IsFiniteSet(T) /\ T \subseteq Nat
      /\ \A w \in DOMAIN list : \/ list[w].hidden \/ list[w].label \in offered
                               \/ \E x \in T : list[x].label = list[w].label
      /\ \A w \in T : list[w].label \notin offered
      /\ \A v, w \in T : list[v].label = list[w].label => v = w
  BY FreshLabels
<1>2. k \in Nat /\ Cardinality(offered) \in Nat /\ ListLimit \in Nat /\ Cardinality(T) \in Nat
  BY <1>1, SharingAssumption, FS_CardinalityType
<1>3. A = Least(T, k)
  BY DEF Adds, Least
<1>4. k = ListLimit - Cardinality(offered) /\ L = {list[w].label : w \in A}
      /\ offered' = offered \union L
  OBVIOUS
<1> HIDE DEF A, k, T, L
<1>5. /\ A \subseteq T /\ IsFiniteSet(A)
      /\ Cardinality(T) <= k => A = T
      /\ k <= Cardinality(T) => Cardinality(A) = k
  BY <1>1, <1>2, <1>3, Counting
<1>6. IsFiniteSet(L) /\ Cardinality(L) = Cardinality(A)
  <2> DEFINE g == [w \in A |-> list[w].label]
  <2>1. g \in [A -> L] /\ \A w \in A : g[w] = list[w].label
    BY <1>4
  <2> HIDE DEF g
  <2>2. \A v, w \in A : g[v] = g[w] => v = w
    BY <1>1, <1>5, <2>1
  <2>3. \A l \in L : \E w \in A : g[w] = l
    BY <1>4, <2>1
  <2>4. g \in Bijection(A, L)
    BY <2>1, <2>2, <2>3, Fun_IsBij
  <2> QED BY <1>5, <2>4, FS_Bijection DEF ExistsBijection
<1>7. L \intersect offered = {} /\ offered \intersect L = {}
  BY <1>1, <1>4, <1>5
<1>8. Cardinality(offered') = Cardinality(offered) + Cardinality(A)
      /\ Cardinality(A) \in Nat
  <2>1. Cardinality(offered \union L)
          = Cardinality(offered) + Cardinality(L) - Cardinality(offered \intersect L)
    BY <1>6, FS_Union
  <2>2. Cardinality(offered \intersect L) = 0
    BY <1>7, FS_EmptySet
  <2>3. Cardinality(A) \in Nat
    BY <1>5, FS_CardinalityType
  <2>4. Cardinality(offered') = Cardinality(offered \union L)
    BY <1>4
  <2> QED BY <1>2, <1>6, <2>1, <2>2, <2>3, <2>4
<1>9. CASE Cardinality(T) <= k
  <2>1. A = T
    BY <1>5, <1>9
  <2>2. Cardinality(offered') <= ListLimit
    BY <1>2, <1>4, <1>8, <1>9, <2>1
  <2>3. Cardinality(offered) = ListLimit => L = {}
    <3>1. Cardinality(offered) = ListLimit => Cardinality(T) = 0
      BY <1>2, <1>4, <1>9
    <3> QED BY <1>1, <1>4, <2>1, <3>1, FS_EmptySet
  <2>4. Shows(offered', list)
    BY <1>1, <1>4, <2>1 DEF Shows
  <2> QED BY <1>4, <2>2, <2>3, <2>4
<1>10. CASE k <= Cardinality(T)
  <2>1. Cardinality(A) = k
    BY <1>5, <1>10
  <2>2. Cardinality(offered') = ListLimit
    BY <1>2, <1>4, <1>8, <2>1
  <2>3. Cardinality(offered) = ListLimit => L = {}
    <3>1. Cardinality(offered) = ListLimit => A = {}
      BY <1>2, <1>4, <1>5, <2>1, FS_EmptySet
    <3> QED BY <1>4, <3>1
  <2>4. Cardinality(offered') <= ListLimit
    BY <1>2, <2>2
  <2>5. L = {} => offered' = offered
    BY <1>4
  <2> QED BY <2>2, <2>3, <2>4, <2>5
<1> QED BY <1>2, <1>9, <1>10

-----------------------------------------------------------------------------
(* The promise is kept.                                                     *)

\* What is left of the queue when its head is taken, or gets a list of windows at its
\* end, has the window open once at most.
LEMMA ShiftOpens ==
  ASSUME OpensOnce, UNCHANGED <<pc, streamWnd, listener>>,
         \A i \in DOMAIN messageQueue' :
           messageQueue'[i].id \in {"ADD_TRACK", "MEETING_END"} =>
             i \in Nat /\ i + 1 \in DOMAIN messageQueue /\ messageQueue'[i] = messageQueue[i + 1]
  PROVE  OpensOnce'
<1>1. Leaving' => Leaving
  BY DEF Leaving
<1>2. ASSUME NEW i \in DOMAIN messageQueue', messageQueue'[i].id = "ADD_TRACK"
      PROVE  /\ pc /\ ~streamWnd /\ ~Leaving /\ listener # "called"
             /\ \A j \in DOMAIN messageQueue' : messageQueue'[j].id = "ADD_TRACK" => i = j
  <2>1. i \in Nat /\ i + 1 \in DOMAIN messageQueue /\ messageQueue[i + 1].id = "ADD_TRACK"
    BY <1>2
  <2>2. ASSUME NEW j \in DOMAIN messageQueue', messageQueue'[j].id = "ADD_TRACK"
        PROVE  i = j
    <3>1. j \in Nat /\ j + 1 \in DOMAIN messageQueue /\ messageQueue[j + 1].id = "ADD_TRACK"
      BY <2>2
    <3>2. i + 1 = j + 1
      BY <2>1, <3>1 DEF OpensOnce
    <3> QED BY <2>1, <3>1, <3>2
  <2> QED BY <2>1, <2>2 DEF OpensOnce
<1> QED BY <1>1, <1>2 DEF OpensOnce

\* A message more.
LEMMA PostPromises ==
  ASSUME messageQueue \in Seq(Messages), NEW m \in Messages,
         messageQueue' = Append(messageQueue, m), UNCHANGED <<offered, shareWindowMap>>
  PROVE  (Promised => Promised') /\ (Leaving => Leaving')
<1>1. \A i \in DOMAIN messageQueue : i \in DOMAIN messageQueue' /\ messageQueue'[i] = messageQueue[i]
  BY AppendIndex
<1>2. Shows(offered, shareWindowMap) => Shows(offered', shareWindowMap')
  BY DEF Shows
<1> QED BY <1>1, <1>2 DEF Promised, Leaving

\* A message less, and perhaps a list of windows more.
LEMMA TakePromises ==
  ASSUME messageQueue \in Seq(Messages), messageQueue # << >>, NEW m \in Messages,
         m.id = "SHARE_WINDOW_INFO",
         messageQueue' = Tail(messageQueue) \/ messageQueue' = Append(Tail(messageQueue), m)
  PROVE  /\ \A i \in DOMAIN messageQueue :
              i # 1 => \E j \in DOMAIN messageQueue' : messageQueue'[j] = messageQueue[i]
         /\ Head(messageQueue) = messageQueue[1]
         /\ \A i \in DOMAIN messageQueue' :
              messageQueue'[i].id \in {"ADD_TRACK", "MEETING_END"} =>
                i \in Nat /\ i + 1 \in DOMAIN messageQueue /\ messageQueue'[i] = messageQueue[i + 1]
<1> DEFINE t == Tail(messageQueue)
<1>1. /\ t \in Seq(Messages) /\ Head(messageQueue) = messageQueue[1]
      /\ \A i \in DOMAIN t : i \in Nat /\ i + 1 \in DOMAIN messageQueue /\ t[i] = messageQueue[i + 1]
      /\ \A i \in DOMAIN messageQueue :
           i # 1 => i - 1 \in DOMAIN t /\ t[i - 1] = messageQueue[i]
  BY TailElements, TailIndex
<1> HIDE DEF t
<1>2. CASE messageQueue' = t
  BY <1>1, <1>2
<1>3. CASE messageQueue' = Append(t, m)
  <2>1. /\ \A i \in DOMAIN t : i \in DOMAIN messageQueue' /\ messageQueue'[i] = t[i]
        /\ \A i \in DOMAIN messageQueue' :
             messageQueue'[i] = m \/ (i \in DOMAIN t /\ messageQueue'[i] = t[i])
    BY <1>1, <1>3, AppendIndex
  <2>2. ASSUME NEW i \in DOMAIN messageQueue, i # 1
        PROVE  \E j \in DOMAIN messageQueue' : messageQueue'[j] = messageQueue[i]
    BY <1>1, <2>1, <2>2
  <2>3. ASSUME NEW i \in DOMAIN messageQueue',
               messageQueue'[i].id \in {"ADD_TRACK", "MEETING_END"}
        PROVE  i \in Nat /\ i + 1 \in DOMAIN messageQueue /\ messageQueue'[i] = messageQueue[i + 1]
    <3>1. messageQueue'[i] # m
      BY <2>3
    <3>2. i \in DOMAIN t /\ messageQueue'[i] = t[i]
      BY <2>1, <3>1
    <3> QED BY <1>1, <3>2
  <2> QED BY <1>1, <2>2, <2>3
<1> QED BY <1>2, <1>3 DEF t

\* As long as no window has closed or got another title between two readings, the
\* Controller's list is another if and only if it is of another length: both lists hold
\* windows that are open, and what is read are all of those.
LEMMA LengthTells ==
  ASSUME TypeOK, Real, Unclosed, Agreed', getWindowInfo,
         Cardinality(DOMAIN shareWindowMap') = Cardinality(DOMAIN shareWindowMap)
  PROVE  shareWindowMap' = shareWindowMap
<1>1. /\ DOMAIN shareWindowMap \subseteq Windows /\ DOMAIN windowList \subseteq Windows
      /\ shareWindowMap \in [DOMAIN shareWindowMap -> Titles]
  BY MapType DEF TypeOK
<1>2. DOMAIN shareWindowMap \subseteq Open /\ DOMAIN windowList \subseteq Open
  BY <1>1 DEF TypeOK, Real, Unclosed, Open
<1>3. IsFiniteSet(Open) /\ Open \subseteq Windows
  <2>1. Open \in SUBSET Windows
    BY DEF Open
  <2> QED BY <2>1, SharingAssumption, FS_Subset
<1>4. CASE DOMAIN windowList \union Open = {}
  BY <1>4 DEF getWindowInfo, lists
<1>5. CASE DOMAIN windowList \union Open # {}
  <2>1. /\ shareWindowMap' \in Maps /\ windowList' = shareWindowMap
        /\ DOMAIN shareWindowMap' = Open
    BY <1>2, <1>5, ReadMaps
  <2>2. DOMAIN shareWindowMap = Open
    BY <1>2, <1>3, <2>1, FS_Subset
  <2>3. \A w \in Open : shareWindowMap'[w] = shareWindowMap[w]
    BY <1>3, <2>1, <2>2 DEF Agreed, SameTitle
  <2>4. shareWindowMap' \in [Open -> Titles] /\ shareWindowMap \in [Open -> Titles]
    BY <1>1, <2>1, <2>2, MapType
  <2> QED BY <2>3, <2>4
<1> QED BY <1>4, <1>5

\* Clicks.
LEMMA UserOffers ==
  ASSUME IInv, OInv, UserStep
  PROVE  OInv'
<1>1. /\ Screens \subseteq Nat /\ Cameras \subseteq Nat /\ Windows \subseteq Nat
      /\ shareState \in BOOLEAN /\ camState \in BOOLEAN
  BY SharingAssumption DEF IInv, TypeOK
<1>2. ASSUME NEW m \in Messages, m.id # "ADD_TRACK", Posts(m) PROVE OInv'
  <2>1. /\ messageQueue \in Seq(Messages) /\ messageQueue' = Append(messageQueue, m) /\ streamWnd
        /\ UNCHANGED <<desktop, streamWnd, offered, shareWindowMap, pc, listener>>
    BY <1>2 DEF Posts, IInv, TypeOK, lists, callVars
  <2>2. listener # "called" /\ \A i \in DOMAIN messageQueue' : messageQueue'[i].id # "ADD_TRACK"
    BY <1>2, <2>1, AppendElements DEF OInv, OpensOnce
  <2>3. OpensOnce' /\ InMeeting'
    BY <2>1, <2>2 DEF OInv, OpensOnce, InMeeting
  <2>4. (Promised => Promised') /\ (Leaving => Leaving')
    BY <2>1, PostPromises
  <2>5. Agreed' <=> Agreed
    BY <1>2 DEF Posts, lists, Agreed, SameTitle
  <2>6. WillOffer'
    BY <2>1, <2>4, <2>5 DEF OInv, WillOffer, Unclosed
  <2> QED BY <2>3, <2>6 DEF OInv
<1>3. \A id \in {"MEETING_END", "REQUEST_WINDOW_LIST"} : Msg(id).id = id
  BY DEF Msg
<1>4. \A id \in {"SET_SHARE", "SET_CAMERA"}, on \in BOOLEAN : Switch(id, on).id = id
  BY DEF Msg, Switch
<1>5. /\ \A id \in {"SWITCH_SHARE_SCREEN", "SWITCH_VIDEO_INPUT"}, dev \in Nat :
           Pick(id, dev).id = id
      /\ \A label \in Labels : PickLabel(label).id = "SWITCH_SHARE_WINDOW"
  BY DEF Msg, Pick, PickLabel
<1>6. CASE ClickShare \/ ClickCamera
  BY <1>1, <1>2, <1>4, <1>6, Posted DEF ClickShare, ClickCamera
<1>7. CASE ClickShareArrow \/ ClickLeave
  BY <1>2, <1>3, <1>7, Posted DEF ClickShareArrow, ClickLeave
<1>8. ASSUME NEW s \in Screens, PickScreen(s) PROVE OInv'
  BY <1>1, <1>2, <1>5, <1>8, Posted DEF PickScreen
<1>9. ASSUME NEW label \in Labels, PickWindow(label) PROVE OInv'
  BY <1>1, <1>2, <1>5, <1>9, Posted DEF PickWindow
<1>10. ASSUME NEW c \in Cameras, PickCamera(c) PROVE OInv'
  BY <1>1, <1>2, <1>5, <1>10, Posted DEF PickCamera
<1> QED BY <1>6, <1>7, <1>8, <1>9, <1>10 DEF UserStep

\* The messages that touch neither the lists nor the window, and the one that opens it.
LEMMA TakeOffers ==
  ASSUME IInv, OInv, messageQueue # << >>, Done,
         Head(messageQueue).id \notin {"MEETING_END", "SHARE_WINDOW_INFO"},
         UNCHANGED <<desktop, offered, shareWindowMap, windowList, pc, listener>>,
         \/ UNCHANGED streamWnd
         \/ Head(messageQueue).id = "ADD_TRACK" /\ streamWnd' = TRUE
  PROVE  OInv'
<1>1. messageQueue \in Seq(Messages) /\ messageQueue' = Tail(messageQueue)
  BY DEF IInv, TypeOK, Done
<1>2. WindowInfo(windowList) \in Messages /\ WindowInfo(windowList).id = "SHARE_WINDOW_INFO"
  BY Posted DEF WindowInfo, Msg, IInv, TypeOK
<1>3. /\ Head(messageQueue) = messageQueue[1] /\ 1 \in DOMAIN messageQueue
      /\ \A i \in DOMAIN messageQueue :
           i # 1 => \E j \in DOMAIN messageQueue' : messageQueue'[j] = messageQueue[i]
      /\ \A i \in DOMAIN messageQueue' :
           messageQueue'[i].id \in {"ADD_TRACK", "MEETING_END"} =>
             i \in Nat /\ i + 1 \in DOMAIN messageQueue /\ messageQueue'[i] = messageQueue[i + 1]
  BY <1>1, <1>2, TakePromises, TailElements
<1>4. (Promised => Promised') /\ (Leaving => Leaving')
  <2>1. Shows(offered', shareWindowMap') <=> Shows(offered, shareWindowMap)
    BY DEF Shows
  <2> QED BY <1>3, <2>1 DEF Promised, Leaving
<1>5. WillOffer'
  <2>1. Agreed' <=> Agreed
    BY DEF Agreed, SameTitle
  <2> QED BY <1>4, <2>1 DEF OInv, WillOffer, Unclosed
<1>6. CASE UNCHANGED streamWnd
  <2>1. OpensOnce'
    BY <1>3, <1>6, ShiftOpens DEF OInv
  <2> QED BY <1>5, <1>6, <2>1 DEF OInv, InMeeting
<1>7. CASE Head(messageQueue).id = "ADD_TRACK" /\ streamWnd' = TRUE
  <2>1. /\ pc /\ listener # "called"
        /\ \A j \in DOMAIN messageQueue : messageQueue[j].id = "ADD_TRACK" => j = 1
    BY <1>3, <1>7 DEF OInv, OpensOnce
  <2>2. \A i \in DOMAIN messageQueue' : messageQueue'[i].id # "ADD_TRACK"
    <3>1. \A i \in DOMAIN messageQueue' : i + 1 # 1
      BY <1>1, TailElements
    <3> QED BY <1>3, <2>1, <3>1
  <2> QED BY <1>5, <2>1, <2>2 DEF OInv, OpensOnce, InMeeting
<1> QED BY <1>6, <1>7

\* The windows are read: when there are others, the message that says so is under way.
LEMMA RequestOffers ==
  ASSUME IInv, OInv, UpdateRequestWindowList
  PROVE  OInv'
<1> DEFINE m == WindowInfo(shareWindowMap')
<1>1. /\ messageQueue \in Seq(Messages) /\ messageQueue # << >>
      /\ Head(messageQueue).id = "REQUEST_WINDOW_LIST" /\ getWindowInfo
      /\ UNCHANGED <<desktop, streamWnd, offered, pc, listener>>
      /\ messageQueue' = IF Cardinality(DOMAIN shareWindowMap')
                             # Cardinality(DOMAIN shareWindowMap)
                         THEN Append(Tail(messageQueue), m) ELSE Tail(messageQueue)
  BY DEF UpdateRequestWindowList, Takes, IInv, TypeOK, wndVars
<1>2. m \in Messages /\ m.id = "SHARE_WINDOW_INFO" /\ m.list = shareWindowMap'
  <2>1. shareWindowMap' \in Maps
    BY <1>1, ReadKeeps DEF IInv
  <2> QED BY <2>1, Posted DEF WindowInfo, Msg
<1> HIDE DEF m
<1>3. /\ Head(messageQueue) = messageQueue[1]
      /\ \A i \in DOMAIN messageQueue :
           i # 1 => \E j \in DOMAIN messageQueue' : messageQueue'[j] = messageQueue[i]
      /\ \A i \in DOMAIN messageQueue' :
           messageQueue'[i].id \in {"ADD_TRACK", "MEETING_END"} =>
             i \in Nat /\ i + 1 \in DOMAIN messageQueue /\ messageQueue'[i] = messageQueue[i + 1]
  BY <1>1, <1>2, TakePromises
<1>4. OpensOnce' /\ InMeeting'
  BY <1>1, <1>3, ShiftOpens DEF OInv, InMeeting
<1>5. Leaving => Leaving'
  BY <1>1, <1>3 DEF Leaving
<1>6. ASSUME Unclosed, Agreed', Promised PROVE Promised'
  <2>1. CASE Cardinality(DOMAIN shareWindowMap') = Cardinality(DOMAIN shareWindowMap)
    <3>1. shareWindowMap' = shareWindowMap
      BY <1>1, <1>6, <2>1, LengthTells DEF IInv
    <3>2. Shows(offered', shareWindowMap') <=> Shows(offered, shareWindowMap)
      BY <1>1, <3>1 DEF Shows
    <3> QED BY <1>1, <1>3, <1>6, <3>1, <3>2 DEF Promised
  <2>2. CASE Cardinality(DOMAIN shareWindowMap') # Cardinality(DOMAIN shareWindowMap)
    <3>1. Tail(messageQueue) \in Seq(Messages) /\ messageQueue' = Append(Tail(messageQueue), m)
      BY <1>1, <2>2, TailElements
    <3>2. \E i \in DOMAIN messageQueue' : messageQueue'[i] = m
      BY <1>2, <3>1, AppendIndex
    <3> QED BY <1>2, <3>2 DEF Promised
  <2> QED BY <2>1, <2>2
<1>7. Agreed' => Agreed
  BY <1>1, ReadAgrees DEF Agreed, IInv
<1>8. WillOffer'
  BY <1>1, <1>5, <1>6, <1>7 DEF OInv, WillOffer, Unclosed
<1> QED BY <1>4, <1>8 DEF OInv

\* A list of windows is offered as far as there is room.
LEMMA InfoOffers ==
  ASSUME IInv, OInv, UpdateShareWindowInfo
  PROVE  OInv'
<1> DEFINE list == Head(messageQueue).list
<1>1. /\ messageQueue \in Seq(Messages) /\ messageQueue # << >>
      /\ Head(messageQueue).id = "SHARE_WINDOW_INFO" /\ messageQueue' = Tail(messageQueue)
      /\ offered' = offered \union {list[w].label : w \in Adds(list)}
      /\ UNCHANGED <<desktop, streamWnd, shareWindowMap, windowList, pc, listener>>
  BY DEF UpdateShareWindowInfo, Takes, Done, IInv, TypeOK, lists
<1>2. list \in Maps /\ IsFiniteSet(offered)
  <2>1. offered \in SUBSET Labels
    BY DEF IInv, TypeOK
  <2> QED BY <1>1, <2>1, SharingAssumption, TailElements, FS_Subset DEF Messages
<1> HIDE DEF list
<1>3. Cardinality(offered) <= ListLimit
  BY DEF OInv, WillOffer
<1>4. /\ Cardinality(offered') <= ListLimit
      /\ Shows(offered', list) \/ Cardinality(offered') = ListLimit
      /\ Cardinality(offered) = ListLimit => offered' = offered
  BY <1>1, <1>2, <1>3, LabelsFill
<1>5. WindowInfo(windowList) \in Messages /\ WindowInfo(windowList).id = "SHARE_WINDOW_INFO"
  BY Posted DEF WindowInfo, Msg, IInv, TypeOK
<1>6. /\ Head(messageQueue) = messageQueue[1]
      /\ \A i \in DOMAIN messageQueue :
           i # 1 => \E j \in DOMAIN messageQueue' : messageQueue'[j] = messageQueue[i]
      /\ \A i \in DOMAIN messageQueue' :
           messageQueue'[i].id \in {"ADD_TRACK", "MEETING_END"} =>
             i \in Nat /\ i + 1 \in DOMAIN messageQueue /\ messageQueue'[i] = messageQueue[i + 1]
  BY <1>1, <1>5, TakePromises
<1>7. OpensOnce' /\ InMeeting'
  BY <1>1, <1>6, ShiftOpens DEF OInv, InMeeting
<1>8. Leaving => Leaving'
  BY <1>1, <1>6 DEF Leaving
<1>9. ASSUME Promised PROVE Promised'
  <2>1. CASE Shows(offered, shareWindowMap)
    <3>1. Shows(offered', shareWindowMap')
      BY <1>1, <2>1 DEF Shows
    <3> QED BY <3>1 DEF Promised
  <2>2. CASE Cardinality(offered) = ListLimit
    BY <1>4, <2>2 DEF Promised
  <2>3. ASSUME NEW i \in DOMAIN messageQueue, messageQueue[i].id = "SHARE_WINDOW_INFO",
               messageQueue[i].list = shareWindowMap
        PROVE  Promised'
    <3>1. CASE i = 1
      <4>1. list = shareWindowMap'
        BY <1>1, <1>6, <2>3, <3>1 DEF list
      <4>2. Shows(offered', list) => Shows(offered', shareWindowMap')
        BY <4>1 DEF Shows, list
      <4> QED BY <1>4, <4>2 DEF Promised
    <3>2. CASE i # 1
      BY <1>1, <1>6, <2>3, <3>2 DEF Promised
    <3> QED BY <3>1, <3>2
  <2> QED BY <1>9, <2>1, <2>2, <2>3 DEF Promised
<1>10. Agreed' <=> Agreed
  BY <1>1 DEF Agreed, SameTitle
<1>11. WillOffer'
  BY <1>1, <1>4, <1>8, <1>9, <1>10 DEF OInv, WillOffer, Unclosed
<1> QED BY <1>7, <1>11 DEF OInv

\* Leaving empties the window and closes it.
LEMMA LeaveOffers ==
  ASSUME IInv, OInv, UpdateMeetingEnd
  PROVE  OInv'
<1>1. /\ messageQueue \in Seq(Messages) /\ messageQueue # << >>
      /\ Head(messageQueue).id = "MEETING_END" /\ messageQueue' = Tail(messageQueue)
      /\ ~streamWnd' /\ ~pc' /\ offered' = {} /\ UNCHANGED listener
  BY DEF UpdateMeetingEnd, Takes, Done, IInv, TypeOK
<1>2. Leaving
  BY <1>1, TailIndex DEF Leaving
<1>3. \A i \in DOMAIN messageQueue' : messageQueue'[i].id # "ADD_TRACK"
  BY <1>1, <1>2, TailIndex DEF OInv, OpensOnce
<1>4. listener' # "called"
  BY <1>1, <1>2 DEF OInv, OpensOnce
<1>5. Cardinality(offered') <= ListLimit
  <2>1. Cardinality(offered') = 0
    BY <1>1, FS_EmptySet
  <2> QED BY <2>1, SharingAssumption
<1> QED BY <1>1, <1>3, <1>4, <1>5 DEF OInv, OpensOnce, InMeeting, WillOffer

\* The UI thread.
LEMMA UIOffers ==
  ASSUME IInv, OInv, UIStep
  PROVE  OInv'
<1>1. CASE UpdateSetShare \/ UpdateSetCamera \/ UpdateSwitchScreen \/ UpdateSwitchWindow
             \/ UpdateSwitchCamera \/ UpdateAddTrack
  <2>1. PICK id \in {"SET_SHARE", "SET_CAMERA", "SWITCH_SHARE_SCREEN", "SWITCH_SHARE_WINDOW",
                     "SWITCH_VIDEO_INPUT", "ADD_TRACK"} : Takes(id) /\ Done
    BY <1>1 DEF UpdateSetShare, UpdateSetCamera, UpdateSwitchScreen, UpdateSwitchWindow,
                UpdateSwitchCamera, UpdateAddTrack
  <2>2. UNCHANGED <<desktop, listener>>
    BY <2>1 DEF Takes
  <2>3. /\ UNCHANGED <<offered, shareWindowMap, windowList, pc>>
        /\ UNCHANGED streamWnd \/ UpdateAddTrack
    BY <1>1 DEF UpdateSetShare, UpdateSetCamera, UpdateSwitchScreen, UpdateSwitchWindow,
                UpdateSwitchCamera, UpdateAddTrack, OnTracks, Dies, wndVars, lists, callVars
  <2> QED BY <2>1, <2>2, <2>3, TakeOffers DEF Takes, UpdateAddTrack
<1> QED BY <1>1, RequestOffers, InfoOffers, LeaveOffers DEF UIStep

\* Calls: what the Controller knows at the start of a meeting is on its way as soon as
\* the meeting is joined.
LEMMA CallsOffer ==
  ASSUME IInv, OInv, CreateMeeting \/ JoinMeeting \/ SetRemote \/ OnJoinMeetingSuccess
  PROVE  OInv'
<1> DEFINE m == WindowInfo(shareWindowMap')
<1>1. messageQueue \in Seq(Messages) /\ m \in Messages /\ m.id = "SHARE_WINDOW_INFO"
      /\ m.list = shareWindowMap'
  <2>1. shareWindowMap' \in Maps
    BY CallsKeep DEF IInv, TypeOK
  <2> QED BY <2>1, Posted DEF WindowInfo, Msg, IInv, TypeOK
<1> HIDE DEF m
<1>2. ASSUME Calls, messageQueue' \in {<< >>, Append(<< >>, m)} PROVE OInv'
  <2>1. /\ pc' /\ listener' = "called" /\ UNCHANGED <<streamWnd, offered>> /\ ~streamWnd
    BY <1>2 DEF Calls, AddTracks, wndVars, OInv, InMeeting
  <2>2. \A i \in DOMAIN messageQueue' : messageQueue'[i].id = "SHARE_WINDOW_INFO"
    BY <1>1, <1>2
  <2> QED BY <2>1, <2>2 DEF OInv, OpensOnce, InMeeting, WillOffer, Leaving
<1>3. CASE CreateMeeting
  BY <1>2, <1>3 DEF CreateMeeting, Calls, m
<1>4. CASE JoinMeeting
  BY <1>2, <1>4 DEF JoinMeeting, Calls
<1>5. CASE SetRemote
  <2>1. /\ messageQueue' = Append(messageQueue, Msg("ADD_TRACK")) /\ listener' = "joined"
        /\ UNCHANGED <<streamWnd, pc, offered>> /\ pc /\ ~streamWnd /\ ~Leaving
        /\ \A i \in DOMAIN messageQueue : messageQueue[i].id # "ADD_TRACK"
    BY <1>5 DEF SetRemote, OInv, OpensOnce, wndVars
  <2>2. Msg("ADD_TRACK") \in Messages /\ Msg("ADD_TRACK").id = "ADD_TRACK"
    BY Posted DEF Msg
  <2>3. OpensOnce'
    BY <1>1, <2>1, <2>2, AppendIndex DEF OpensOnce, Leaving
  <2> QED BY <2>1, <2>3 DEF OInv, InMeeting, WillOffer
<1>6. CASE OnJoinMeetingSuccess
  <2>1. /\ messageQueue' = Append(messageQueue, m) /\ listener' = "idle"
        /\ UNCHANGED <<streamWnd, pc, offered>>
    BY <1>6 DEF OnJoinMeetingSuccess, wndVars, m
  <2>2. \A i \in DOMAIN messageQueue' : messageQueue'[i].id \in {"ADD_TRACK", "MEETING_END"}
          => i \in DOMAIN messageQueue /\ messageQueue'[i] = messageQueue[i]
    BY <1>1, <2>1, AppendElements
  <2>3. OpensOnce'
    BY <2>1, <2>2 DEF OInv, OpensOnce, Leaving
  <2>4. \E i \in DOMAIN messageQueue' : messageQueue'[i] = m
    BY <1>1, <2>1, AppendIndex
  <2>5. Promised'
    BY <1>1, <2>4 DEF Promised
  <2> QED BY <2>1, <2>3, <2>5 DEF OInv, InMeeting, WillOffer
<1> QED BY <1>3, <1>4, <1>5, <1>6

\* What happens on the desktop.
LEMMA DesktopOffers ==
  ASSUME IInv, OInv, NEW w \in Windows, WindowOpens(w) \/ WindowCloses(w)
  PROVE  OInv'
<1>1. UNCHANGED <<messageQueue, streamWnd, offered, pc, listener, shareWindowMap, windowList>>
  BY DEF WindowOpens, WindowCloses, wndVars, lists, callVars
<1>2. Unclosed' => Unclosed
  BY DEF WindowOpens, WindowCloses, Unclosed, IInv, TypeOK
<1>3. (Agreed' <=> Agreed) /\ (Promised' <=> Promised) /\ (Leaving' <=> Leaving)
  BY <1>1 DEF Agreed, SameTitle, Promised, Shows, Leaving
<1> QED BY <1>1, <1>2, <1>3 DEF OInv, OpensOnce, InMeeting, WillOffer

\* As long as no window has closed or got another title between two readings, the meeting
\* window's list has the label of every window that the Controller knows, those of dropped
\* titles apart, or is full: whatever opens and however often the lists are read and
\* swapped, though the Controller passes a list on only if it differs in length from the
\* one before and addLabel skips what is there already.
THEOREM KnownAreOffered ==
  Spec => []KnownIsOffered
<1>1. Init => IInv /\ OInv
  <2>1. ASSUME Init PROVE OInv
    <3>1. DOMAIN messageQueue = {} /\ ~pc /\ ~streamWnd /\ listener = "idle" /\ offered = {}
      BY <2>1 DEF Init
    <3>2. Cardinality(offered) <= ListLimit
      BY <3>1, FS_EmptySet, SharingAssumption
    <3> QED BY <3>1, <3>2 DEF OInv, OpensOnce, InMeeting, WillOffer
  <2> QED BY <2>1, InitHolds
<1>2. IInv /\ OInv /\ [Next]_vars => (IInv /\ OInv)'
  <2>1. CASE Next
    BY <2>1, UserKeeps, UIKeeps, CallsKeep, DesktopKeeps,
       UserOffers, UIOffers, CallsOffer, DesktopOffers DEF Next
  <2>2. CASE UNCHANGED vars
    <3>1. ASSUME IInv, OInv PROVE OInv'
      <4>1. UNCHANGED <<desktop, messageQueue, streamWnd, offered, pc, listener>>
            /\ UNCHANGED <<shareWindowMap, windowList>>
        BY <2>2 DEF vars, wndVars, lists, callVars
      <4>2. (Agreed' <=> Agreed) /\ (Promised' <=> Promised) /\ (Leaving' <=> Leaving)
        BY <4>1 DEF Agreed, SameTitle, Promised, Shows, Leaving
      <4> QED BY <3>1, <4>1, <4>2 DEF OInv, OpensOnce, InMeeting, WillOffer, Unclosed
    <3> QED BY <2>2, <3>1, StutterKeeps
  <2> QED BY <2>1, <2>2
<1>3. IInv /\ OInv => KnownIsOffered
  <2> SUFFICES ASSUME IInv, OInv, Quiet, streamWnd, Unclosed, Agreed
               PROVE  Shows(offered, shareWindowMap) \/ Cardinality(offered) = ListLimit
    BY DEF KnownIsOffered, Unclosed, Agreed, Shows
  <2>1. messageQueue = << >> /\ listener = "idle" /\ pc
    BY DEF Quiet, OInv, InMeeting
  <2>2. ~Leaving
    BY <2>1 DEF Leaving
  <2>3. Promised
    BY <2>1, <2>2 DEF OInv, WillOffer
  <2> QED BY <2>1, <2>3 DEF Promised
<1> QED BY <1>1, <1>2, <1>3, PTL DEF Spec

=============================================================================
