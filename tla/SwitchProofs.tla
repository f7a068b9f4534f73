---------------------------- MODULE SwitchProofs -----------------------------
(* That the tracks send as the buttons say (SendsAsShown), for a user who     *)
(* chooses only while the button is on.  Between a click and its message's    *)
(* turn they differ: the invariant follows the switches through the queue.    *)
EXTENDS SharingProofs

\* Where messages of id sw switch a track to what they say, and those of picks switch
\* it on: the last switch in the queue, or the track when there is none, is as the
\* button, and every pick comes when the track is on.
Follows(q, sw, picks, track, button) ==
  /\ (\A j \in DOMAIN q : q[j].id # sw) => track = button
  /\ \A i \in DOMAIN q :
       (q[i].id = sw /\ \A j \in DOMAIN q : j > i => q[j].id # sw) => q[i].on = button
  /\ \A i \in DOMAIN q : q[i].id \in picks =>
       /\ (\A j \in DOMAIN q : j < i => q[j].id # sw) => track
       /\ \A j \in DOMAIN q :
            (j < i /\ q[j].id = sw /\ \A k \in DOMAIN q : (j < k /\ k < i) => q[k].id # sw)
              => q[j].on

SharePicks == {"SWITCH_SHARE_SCREEN", "SWITCH_SHARE_WINDOW"}
CameraPicks == {"SWITCH_VIDEO_INPUT"}

\* In a meeting that is not being left ...
ButtonsFollowed ==
  (pc /\ ~Leaving) =>
    /\ Follows(messageQueue, "SET_SHARE", SharePicks, screenOn, shareState)
    /\ Follows(messageQueue, "SET_CAMERA", CameraPicks, camOn, camState)

\* ... and outside meetings everything is off.
AllOff ==
  ~pc => /\ ~streamWnd /\ shareState = FALSE /\ camState = FALSE
         /\ screenOn = FALSE /\ camOn = FALSE

SInv == IInv /\ ButtonsFollowed /\ AllOff /\ OpensOnce

-----------------------------------------------------------------------------
(* Follows, and the two ends of the queue.                                  *)

\* A switch that is taken is obeyed: from then on the track is as it says.
LEMMA TakeSwitch ==
  ASSUME NEW q \in Seq(Messages), q # << >>, NEW sw, NEW picks, NEW track, NEW button,
         sw \notin picks, Head(q).id = sw, Follows(q, sw, picks, track, button)
  PROVE  Follows(Tail(q), sw, picks, Head(q).on, button)
<1> DEFINE t == Tail(q)
<1>1. ASSUME \A j \in DOMAIN t : t[j].id # sw
      PROVE  Head(q).on = button
  <2>1. \A j \in DOMAIN q : j > 1 => q[j].id # sw
    BY <1>1, TailIndex
  <2> QED
    BY <2>1, TailIndex DEF Follows
<1>2. ASSUME NEW i \in DOMAIN t, t[i].id = sw, \A j \in DOMAIN t : j > i => t[j].id # sw
      PROVE  t[i].on = button
  <2>1. \A j \in DOMAIN q : j > i + 1 => q[j].id # sw
    BY <1>2, TailIndex
  <2> QED
    BY <1>2, <2>1, TailIndex DEF Follows
<1>3. ASSUME NEW i \in DOMAIN t, t[i].id \in picks
      PROVE  /\ (\A j \in DOMAIN t : j < i => t[j].id # sw) => Head(q).on
             /\ \A j \in DOMAIN t :
                  (j < i /\ t[j].id = sw /\ \A k \in DOMAIN t : (j < k /\ k < i) => t[k].id # sw)
                    => t[j].on
  <2>1. i + 1 \in DOMAIN q /\ q[i + 1] = t[i] /\ i \in Nat
    BY TailIndex
  <2>2. \A j \in DOMAIN q :
          (j < i + 1 /\ q[j].id = sw /\ \A k \in DOMAIN q : (j < k /\ k < i + 1) => q[k].id # sw)
             => q[j].on
    BY <1>3, <2>1 DEF Follows
  <2>3. ASSUME \A j \in DOMAIN t : j < i => t[j].id # sw
        PROVE  Head(q).on
    <3>1. ASSUME NEW k \in DOMAIN q, 1 < k, k < i + 1
          PROVE  q[k].id # sw
      <4>1. k \in Nat /\ k - 1 \in DOMAIN t /\ t[k - 1] = q[k]
        BY <3>1, TailIndex
      <4>2. k - 1 < i
        BY <2>1, <3>1, <4>1
      <4> QED
        BY <2>3, <4>1, <4>2
    <3>2. 1 < i + 1 /\ 1 \in DOMAIN q /\ q[1].id = sw /\ q[1] = Head(q)
      BY <2>1, TailIndex
    <3> QED
      BY <2>2, <3>1, <3>2
  <2>4. ASSUME NEW j \in DOMAIN t, j < i, t[j].id = sw,
               \A k \in DOMAIN t : (j < k /\ k < i) => t[k].id # sw
        PROVE  t[j].on
    <3>1. j \in Nat /\ j + 1 \in DOMAIN q /\ q[j + 1] = t[j] /\ j + 1 < i + 1
      BY <2>1, <2>4, TailIndex
    <3>2. ASSUME NEW k \in DOMAIN q, j + 1 < k, k < i + 1
          PROVE  q[k].id # sw
      <4>1. k \in Nat /\ k # 1 /\ k - 1 \in DOMAIN t /\ t[k - 1] = q[k]
        BY <3>1, <3>2, TailIndex
      <4>2. j < k - 1 /\ k - 1 < i
        BY <2>1, <3>1, <3>2, <4>1
      <4> QED
        BY <2>4, <4>1, <4>2
    <3>3. q[j + 1].id = sw
      BY <2>4, <3>1
    <3>4. q[j + 1].on
      BY <2>2, <3>1, <3>2, <3>3
    <3> QED
      BY <3>1, <3>4
  <2> QED
    BY <2>3, <2>4
<1> QED
  BY <1>1, <1>2, <1>3 DEF Follows

\* A pick that is taken finds the track on ...
LEMMA TakePick ==
  ASSUME NEW q \in Seq(Messages), q # << >>, NEW sw, NEW picks, NEW track, NEW button,
         Head(q).id \in picks, Follows(q, sw, picks, track, button)
  PROVE  track
<1>1. \A j \in DOMAIN q : ~(j < 1)
  BY TailIndex
<1> QED
  BY <1>1, TailIndex DEF Follows

\* ... and any message that is no switch leaves it.
LEMMA TakeOther ==
  ASSUME NEW q \in Seq(Messages), q # << >>, NEW sw, NEW picks, NEW track, NEW button,
         Head(q).id # sw, Follows(q, sw, picks, track, button)
  PROVE  Follows(Tail(q), sw, picks, track, button)
<1> DEFINE t == Tail(q)
<1>2. ASSUME \A j \in DOMAIN t : t[j].id # sw
      PROVE  track = button
  <2>1. \A j \in DOMAIN q : q[j].id # sw
    BY <1>2, TailIndex
  <2> QED
    BY <2>1 DEF Follows
<1>3. ASSUME NEW i \in DOMAIN t, t[i].id = sw, \A j \in DOMAIN t : j > i => t[j].id # sw
      PROVE  t[i].on = button
  <2>1. \A j \in DOMAIN q : j > i + 1 => q[j].id # sw
    BY <1>3, TailIndex
  <2> QED
    BY <1>3, <2>1, TailIndex DEF Follows
<1>4. ASSUME NEW i \in DOMAIN t, t[i].id \in picks
      PROVE  /\ (\A j \in DOMAIN t : j < i => t[j].id # sw) => track
             /\ \A j \in DOMAIN t :
                  (j < i /\ t[j].id = sw /\ \A k \in DOMAIN t : (j < k /\ k < i) => t[k].id # sw)
                    => t[j].on
  <2>1. i + 1 \in DOMAIN q /\ q[i + 1] = t[i] /\ i \in Nat
    BY TailIndex
  <2>2. /\ (\A j \in DOMAIN q : j < i + 1 => q[j].id # sw) => track
        /\ \A j \in DOMAIN q :
             (j < i + 1 /\ q[j].id = sw
               /\ \A k \in DOMAIN q : (j < k /\ k < i + 1) => q[k].id # sw) => q[j].on
    BY <1>4, <2>1 DEF Follows
  <2>3. ASSUME \A j \in DOMAIN t : j < i => t[j].id # sw
        PROVE  track
    <3>1. ASSUME NEW k \in DOMAIN q, k < i + 1
          PROVE  q[k].id # sw
      <4>1. CASE k = 1
        BY <4>1, TailIndex
      <4>2. CASE k # 1
        <5>1. k \in Nat /\ k - 1 \in DOMAIN t /\ t[k - 1] = q[k]
          BY <4>2, TailIndex
        <5>2. k - 1 < i
          BY <2>1, <3>1, <5>1
        <5> QED
          BY <2>3, <5>1, <5>2
      <4> QED
        BY <4>1, <4>2
    <3>2. (\A j \in DOMAIN q : j < i + 1 => q[j].id # sw) => track
      BY <2>2
    <3> QED
      BY <3>1, <3>2, Zenon
  <2>4. ASSUME NEW j \in DOMAIN t, j < i, t[j].id = sw,
               \A k \in DOMAIN t : (j < k /\ k < i) => t[k].id # sw
        PROVE  t[j].on
    <3>1. j \in Nat /\ j + 1 \in DOMAIN q /\ q[j + 1] = t[j] /\ j + 1 < i + 1
      BY <2>1, <2>4, TailIndex
    <3>2. ASSUME NEW k \in DOMAIN q, j + 1 < k, k < i + 1
          PROVE  q[k].id # sw
      <4>1. k \in Nat /\ k # 1 /\ k - 1 \in DOMAIN t /\ t[k - 1] = q[k]
        BY <3>1, <3>2, TailIndex
      <4>2. j < k - 1 /\ k - 1 < i
        BY <2>1, <3>1, <3>2, <4>1
      <4> QED
        BY <2>4, <4>1, <4>2
    <3>3. q[j + 1].id = sw
      BY <2>4, <3>1
    <3>4. q[j + 1].on
      BY <2>2, <3>1, <3>2, <3>3
    <3> QED
      BY <3>1, <3>4
  <2> QED
    BY <2>3, <2>4
<1> QED
  BY <1>2, <1>3, <1>4 DEF Follows

\* A click on the button turns it over and adds the switch that says so.
LEMMA AddSwitch ==
  ASSUME NEW q \in Seq(Messages), NEW m \in Messages, NEW sw, NEW picks, NEW track,
         NEW button, sw \notin picks, m.id = sw, Follows(q, sw, picks, track, button)
  PROVE  Follows(Append(q, m), sw, picks, track, m.on)
<1> DEFINE t == Append(q, m)
           n == Len(q) + 1
<1>1. /\ n \in Nat /\ n \notin DOMAIN q /\ DOMAIN t = DOMAIN q \union {n} /\ t[n] = m
      /\ \A i \in DOMAIN q : i \in Nat /\ i < n /\ t[i] = q[i]
  BY AppendIndex
<1> HIDE DEF t, n
<1>2. ~\A j \in DOMAIN t : t[j].id # sw
  BY <1>1
<1>3. ASSUME NEW i \in DOMAIN t, t[i].id = sw, \A j \in DOMAIN t : j > i => t[j].id # sw
      PROVE  t[i].on = m.on
  <2>1. ~(n > i)
    BY <1>1, <1>3
  <2>2. i = n
    BY <1>1, <1>3, <2>1
  <2> QED
    BY <1>1, <2>2
<1>4. ASSUME NEW i \in DOMAIN t, t[i].id \in picks
      PROVE  /\ (\A j \in DOMAIN t : j < i => t[j].id # sw) => track
             /\ \A j \in DOMAIN t :
                  (j < i /\ t[j].id = sw /\ \A k \in DOMAIN t : (j < k /\ k < i) => t[k].id # sw)
                    => t[j].on
  <2>1. i \in DOMAIN q /\ q[i].id \in picks
    BY <1>1, <1>4
  <2>2. \A j \in DOMAIN t : j < i => j \in DOMAIN q
    BY <1>1, <2>1
  <2>3. /\ (\A j \in DOMAIN q : j < i => q[j].id # sw) => track
        /\ \A j \in DOMAIN q :
             (j < i /\ q[j].id = sw /\ \A k \in DOMAIN q : (j < k /\ k < i) => q[k].id # sw)
               => q[j].on
    BY <2>1 DEF Follows
  <2> QED
    BY <1>1, <2>2, <2>3
<1>5. Follows(t, sw, picks, track, m.on)
  BY <1>2, <1>3, <1>4 DEF Follows
<1> QED
  BY <1>5 DEF t

\* Any other message may be added; a pick only when the button is on.
LEMMA AddOther ==
  ASSUME NEW q \in Seq(Messages), NEW m \in Messages, NEW sw, NEW picks,
         NEW track \in BOOLEAN, NEW button \in BOOLEAN, m.id # sw,
         m.id \in picks => button = TRUE, Follows(q, sw, picks, track, button)
  PROVE  Follows(Append(q, m), sw, picks, track, button)
<1> DEFINE t == Append(q, m)
           n == Len(q) + 1
<1>1. /\ n \in Nat /\ n \notin DOMAIN q /\ DOMAIN t = DOMAIN q \union {n} /\ t[n] = m
      /\ \A i \in DOMAIN q : i \in Nat /\ i < n /\ t[i] = q[i]
  BY AppendIndex
<1> HIDE DEF t, n
<1>2. (\A j \in DOMAIN t : t[j].id # sw) => track = button
  BY <1>1 DEF Follows
<1>3. ASSUME NEW i \in DOMAIN t, t[i].id = sw, \A j \in DOMAIN t : j > i => t[j].id # sw
      PROVE  t[i].on = button
  <2>1. i \in DOMAIN q /\ q[i].id = sw /\ \A j \in DOMAIN q : j > i => q[j].id # sw
    BY <1>1, <1>3
  <2> QED
    BY <1>1, <2>1 DEF Follows
<1>4. ASSUME NEW i \in DOMAIN t, t[i].id \in picks
      PROVE  /\ (\A j \in DOMAIN t : j < i => t[j].id # sw) => track
             /\ \A j \in DOMAIN t :
                  (j < i /\ t[j].id = sw /\ \A k \in DOMAIN t : (j < k /\ k < i) => t[k].id # sw)
                    => t[j].on
  <2>1. CASE i \in DOMAIN q
    <3>1. q[i].id \in picks
      BY <1>1, <1>4, <2>1
    <3>2. \A j \in DOMAIN t : j < i => j \in DOMAIN q
      BY <1>1, <2>1
    <3>3. /\ (\A j \in DOMAIN q : j < i => q[j].id # sw) => track
          /\ \A j \in DOMAIN q :
               (j < i /\ q[j].id = sw /\ \A k \in DOMAIN q : (j < k /\ k < i) => q[k].id # sw)
                 => q[j].on
      BY <2>1, <3>1 DEF Follows
    <3> QED
      BY <1>1, <2>1, <3>2, <3>3
  <2>2. CASE i = n
    <3>1. button = TRUE
      BY <1>1, <1>4, <2>2
    <3>2. (\A j \in DOMAIN t : j < n => t[j].id # sw) => track
      BY <1>1, <3>1 DEF Follows
    <3>3. ASSUME NEW j \in DOMAIN t, j < n, t[j].id = sw,
                 \A k \in DOMAIN t : (j < k /\ k < n) => t[k].id # sw
          PROVE  t[j].on
      <4>1. j \in DOMAIN q /\ q[j] = t[j] /\ \A k \in DOMAIN q : k > j => q[k].id # sw
        BY <1>1, <3>3
      <4>2. q[j].on = button
        BY <3>3, <4>1 DEF Follows
      <4> QED
        BY <3>1, <4>1, <4>2
    <3> QED
      BY <2>2, <3>2, <3>3
  <2> QED
    BY <1>1, <2>1, <2>2
<1>5. Follows(t, sw, picks, track, button)
  BY <1>2, <1>3, <1>4 DEF Follows
<1> QED
  BY <1>5 DEF t

LEMMA EmptyFollows ==
  ASSUME NEW sw, NEW picks, NEW track, track = FALSE
  PROVE  Follows(<< >>, sw, picks, track, FALSE)
BY DEF Follows

-----------------------------------------------------------------------------
(* The steps.                                                               *)

Switches == ButtonsFollowed /\ AllOff /\ OpensOnce

\* A message that is added to the queue; nothing else changes but buttons.
LEMMA PostFollows ==
  ASSUME SInv, NEW m \in Messages, m.id \notin {"ADD_TRACK"}, Posts(m),
         IF m.id = "SET_SHARE" THEN shareState' = m.on ELSE UNCHANGED shareState,
         IF m.id = "SET_CAMERA" THEN camState' = m.on ELSE UNCHANGED camState,
         m.id \in SharePicks => shareState = TRUE,
         m.id \in CameraPicks => camState = TRUE
  PROVE  Switches'
<1>1. /\ messageQueue \in Seq(Messages) /\ messageQueue' = Append(messageQueue, m)
      /\ screenOn \in BOOLEAN /\ camOn \in BOOLEAN
      /\ shareState \in BOOLEAN /\ camState \in BOOLEAN
      /\ streamWnd /\ UNCHANGED <<streamWnd, pc, listener, screenOn, camOn>>
  BY DEF SInv, IInv, TypeOK, Posts, callVars, screenVars, camVars
<1>2. \A i \in DOMAIN messageQueue' :
        messageQueue'[i] = m \/ (i \in DOMAIN messageQueue /\ messageQueue'[i] = messageQueue[i])
  BY <1>1, AppendElements
<1>3. pc /\ listener # "called" /\ \A i \in DOMAIN messageQueue : messageQueue[i].id # "ADD_TRACK"
  BY <1>1 DEF SInv, AllOff, OpensOnce
<1>4. AllOff' /\ OpensOnce'
  BY <1>1, <1>2, <1>3 DEF AllOff, OpensOnce
<1>5. Leaving => Leaving'
  BY <1>1, AppendIndex DEF Leaving
<1>6. ASSUME ~Leaving'
      PROVE  /\ Follows(messageQueue', "SET_SHARE", SharePicks, screenOn', shareState')
             /\ Follows(messageQueue', "SET_CAMERA", CameraPicks, camOn', camState')
  <2>1. /\ Follows(messageQueue, "SET_SHARE", SharePicks, screenOn, shareState)
        /\ Follows(messageQueue, "SET_CAMERA", CameraPicks, camOn, camState)
    BY <1>3, <1>5, <1>6 DEF SInv, ButtonsFollowed
  <2>2. Follows(messageQueue', "SET_SHARE", SharePicks, screenOn', shareState')
    <3>1. CASE m.id = "SET_SHARE"
      BY <1>1, <2>1, <3>1, AddSwitch DEF SharePicks
    <3>2. CASE m.id # "SET_SHARE"
      BY <1>1, <2>1, <3>2, AddOther
    <3> QED
      BY <3>1, <3>2
  <2>3. Follows(messageQueue', "SET_CAMERA", CameraPicks, camOn', camState')
    <3>1. CASE m.id = "SET_CAMERA"
      BY <1>1, <2>1, <3>1, AddSwitch DEF CameraPicks
    <3>2. CASE m.id # "SET_CAMERA"
      BY <1>1, <2>1, <3>2, AddOther
    <3> QED
      BY <3>1, <3>2
  <2> QED
    BY <2>2, <2>3
<1>7. ButtonsFollowed'
  BY <1>6 DEF ButtonsFollowed
<1> QED
  BY <1>4, <1>7 DEF Switches

\* A message that is taken by the UI thread, short of those that open and close the
\* window; the list of windows may be passed on.
LEMMA TakeFollows ==
  ASSUME SInv, IInv', NEW id, id \notin {"ADD_TRACK", "MEETING_END"}, Takes(id),
         UNCHANGED <<streamWnd, shareState, camState, pc>>,
         \/ messageQueue' = Tail(messageQueue)
         \/ \E m \in Messages : m.id = "SHARE_WINDOW_INFO"
                                /\ messageQueue' = Append(Tail(messageQueue), m),
         IF id = "SET_SHARE" /\ pc THEN screenOn' = Head(messageQueue).on
         ELSE UNCHANGED screenOn \/ (pc /\ id \in SharePicks /\ screenOn'),
         IF id = "SET_CAMERA" /\ pc THEN camOn' = Head(messageQueue).on
         ELSE UNCHANGED camOn \/ (pc /\ id \in CameraPicks /\ camOn')
  PROVE  Switches'
<1> DEFINE t == Tail(messageQueue)
<1>1. /\ messageQueue \in Seq(Messages) /\ messageQueue # << >> /\ Head(messageQueue).id = id
      /\ screenOn \in BOOLEAN /\ camOn \in BOOLEAN /\ screenOn' \in BOOLEAN /\ camOn' \in BOOLEAN
      /\ shareState \in BOOLEAN /\ camState \in BOOLEAN /\ UNCHANGED listener
  BY DEF SInv, IInv, TypeOK, Takes
<1>2. t \in Seq(Messages)
  BY <1>1, TailElements
<1>3. \A i \in DOMAIN t : i \in Nat /\ i + 1 \in DOMAIN messageQueue /\ t[i] = messageQueue[i + 1]
  BY <1>1, TailIndex
<1> HIDE DEF t
<1>4. \A i \in DOMAIN messageQueue' :
        messageQueue'[i].id = "SHARE_WINDOW_INFO" \/ (i \in DOMAIN t /\ messageQueue'[i] = t[i])
  <2>1. CASE messageQueue' = t
    BY <2>1
  <2>2. ASSUME NEW m \in Messages, m.id = "SHARE_WINDOW_INFO", messageQueue' = Append(t, m)
        PROVE  \A i \in DOMAIN messageQueue' :
                 messageQueue'[i].id = "SHARE_WINDOW_INFO"
                   \/ (i \in DOMAIN t /\ messageQueue'[i] = t[i])
    BY <1>2, <2>2, AppendElements
  <2> QED
    BY <2>1, <2>2 DEF t
<1>5. Leaving' => Leaving
  BY <1>3, <1>4 DEF Leaving
<1>6. Leaving => Leaving'
  <2>1. ASSUME NEW i \in DOMAIN messageQueue, messageQueue[i].id = "MEETING_END"
        PROVE  \E k \in DOMAIN t : t[k].id = "MEETING_END"
    BY <1>1, <2>1, TailIndex DEF t
  <2>2. ASSUME NEW k \in DOMAIN t, t[k].id = "MEETING_END"
        PROVE  k \in DOMAIN messageQueue' /\ messageQueue'[k].id = "MEETING_END"
    BY <1>2, <2>2, AppendIndex DEF t
  <2> QED
    BY <2>1, <2>2 DEF Leaving
<1>7. OpensOnce'
  <2>1. ASSUME NEW i \in DOMAIN messageQueue', messageQueue'[i].id = "ADD_TRACK"
        PROVE  /\ pc' /\ ~streamWnd' /\ ~Leaving' /\ listener' # "called"
               /\ \A j \in DOMAIN messageQueue' : messageQueue'[j].id = "ADD_TRACK" => i = j
    <3>1. i \in Nat /\ i + 1 \in DOMAIN messageQueue /\ messageQueue[i + 1].id = "ADD_TRACK"
      BY <1>3, <1>4, <2>1
    <3>2. ASSUME NEW j \in DOMAIN messageQueue', messageQueue'[j].id = "ADD_TRACK"
          PROVE  i = j
      <4>1. j \in Nat /\ j + 1 \in DOMAIN messageQueue /\ messageQueue[j + 1].id = "ADD_TRACK"
        BY <1>3, <1>4, <3>2
      <4>2. i + 1 = j + 1
        BY <3>1, <4>1 DEF SInv, OpensOnce
      <4> QED
        BY <3>1, <4>1, <4>2
    <3> QED
      BY <1>1, <1>5, <3>1, <3>2 DEF SInv, OpensOnce
  <2> QED
    BY <1>1, <1>5, <2>1 DEF SInv, OpensOnce
<1>8. AllOff'
  BY DEF SInv, AllOff
<1>9. ASSUME pc, ~Leaving
      PROVE  /\ Follows(t, "SET_SHARE", SharePicks, screenOn', shareState)
             /\ Follows(t, "SET_CAMERA", CameraPicks, camOn', camState)
  <2>1. /\ Follows(messageQueue, "SET_SHARE", SharePicks, screenOn, shareState)
        /\ Follows(messageQueue, "SET_CAMERA", CameraPicks, camOn, camState)
    BY <1>9 DEF SInv, ButtonsFollowed
  <2>2. Follows(t, "SET_SHARE", SharePicks, screenOn', shareState)
    <3>1. CASE id = "SET_SHARE"
      BY <1>1, <1>9, <2>1, <3>1, TakeSwitch DEF SharePicks, t
    <3>2. CASE id # "SET_SHARE"
      <4>1. /\ Head(messageQueue).id \in SharePicks => screenOn = TRUE
            /\ Follows(t, "SET_SHARE", SharePicks, screenOn, shareState)
        <5>1. Head(messageQueue).id # "SET_SHARE"
          BY <1>1, <3>2
        <5>2. Follows(t, "SET_SHARE", SharePicks, screenOn, shareState)
          BY <1>1, <2>1, <5>1, TakeOther DEF t
        <5>3. Head(messageQueue).id \in SharePicks => screenOn
          BY <1>1, <2>1, TakePick
        <5> QED
          BY <5>2, <5>3
      <4>2. screenOn' = screenOn
        BY <1>1, <3>2, <4>1
      <4> QED
        BY <4>1, <4>2
    <3> QED
      BY <3>1, <3>2
  <2>3. Follows(t, "SET_CAMERA", CameraPicks, camOn', camState)
    <3>1. CASE id = "SET_CAMERA"
      BY <1>1, <1>9, <2>1, <3>1, TakeSwitch DEF CameraPicks, t
    <3>2. CASE id # "SET_CAMERA"
      <4>1. /\ Head(messageQueue).id \in CameraPicks => camOn = TRUE
            /\ Follows(t, "SET_CAMERA", CameraPicks, camOn, camState)
        <5>1. Head(messageQueue).id # "SET_CAMERA"
          BY <1>1, <3>2
        <5>2. Follows(t, "SET_CAMERA", CameraPicks, camOn, camState)
          BY <1>1, <2>1, <5>1, TakeOther DEF t
        <5>3. Head(messageQueue).id \in CameraPicks => camOn
          BY <1>1, <2>1, TakePick
        <5> QED
          BY <5>2, <5>3
      <4>2. camOn' = camOn
        BY <1>1, <3>2, <4>1
      <4> QED
        BY <4>1, <4>2
    <3> QED
      BY <3>1, <3>2
  <2> QED
    BY <2>2, <2>3
<1>10. ASSUME pc, ~Leaving
       PROVE  /\ Follows(messageQueue', "SET_SHARE", SharePicks, screenOn', shareState)
              /\ Follows(messageQueue', "SET_CAMERA", CameraPicks, camOn', camState)
  <2>1. CASE messageQueue' = t
    BY <1>9, <1>10, <2>1
  <2>2. ASSUME NEW m \in Messages, m.id = "SHARE_WINDOW_INFO", messageQueue' = Append(t, m)
        PROVE  /\ Follows(messageQueue', "SET_SHARE", SharePicks, screenOn', shareState)
               /\ Follows(messageQueue', "SET_CAMERA", CameraPicks, camOn', camState)
    <3>1. m.id # "SET_SHARE" /\ m.id # "SET_CAMERA" /\ m.id \notin SharePicks
          /\ m.id \notin CameraPicks
      BY <2>2 DEF SharePicks, CameraPicks
    <3> QED
      BY <1>1, <1>2, <1>9, <1>10, <2>2, <3>1, AddOther
  <2> QED
    BY <2>1, <2>2 DEF t
<1>11. ButtonsFollowed'
  BY <1>6, <1>10 DEF ButtonsFollowed
<1> QED
  BY <1>7, <1>8, <1>11 DEF Switches

\* The user's clicks.
LEMMA UserFollows ==
  ASSUME SInv, UserStep, "pick_off" \notin Env
  PROVE  Switches'
<1>1. shareState \in BOOLEAN /\ camState \in BOOLEAN /\ offered \subseteq Labels
  BY DEF SInv, IInv, TypeOK
<1>2. Screens \subseteq Nat /\ Cameras \subseteq Nat /\ Windows \subseteq Nat
  BY SharingAssumption
<1>3. CASE ClickShare
  <2>1. /\ Switch("SET_SHARE", ~shareState) \in Messages
        /\ Switch("SET_SHARE", ~shareState).id = "SET_SHARE"
        /\ Switch("SET_SHARE", ~shareState).on = ~shareState
    BY <1>1, Posted DEF Switch, Msg
  <2> QED
    BY <1>3, <2>1, PostFollows DEF ClickShare, SharePicks, CameraPicks
<1>4. CASE ClickCamera
  <2>1. /\ Switch("SET_CAMERA", ~camState) \in Messages
        /\ Switch("SET_CAMERA", ~camState).id = "SET_CAMERA"
        /\ Switch("SET_CAMERA", ~camState).on = ~camState
    BY <1>1, Posted DEF Switch, Msg
  <2> QED
    BY <1>4, <2>1, PostFollows DEF ClickCamera, SharePicks, CameraPicks
<1>5. ASSUME NEW id \in {"REQUEST_WINDOW_LIST", "MEETING_END"}, Posts(Msg(id)),
             UNCHANGED <<shareState, camState>>
      PROVE  Switches'
  <2>1. Msg(id) \in Messages /\ Msg(id).id = id
    BY Posted DEF Msg
  <2> QED
    BY <1>5, <2>1, PostFollows DEF SharePicks, CameraPicks
<1>6. ASSUME NEW m \in Messages, m.id \in SharePicks, Posts(m), shareState,
             UNCHANGED <<shareState, camState>>
      PROVE  Switches'
  <2>1. shareState = TRUE
    BY <1>1, <1>6
  <2> QED
    BY <1>6, <2>1, PostFollows DEF SharePicks, CameraPicks
<1>7. ASSUME NEW dev \in Nat, Posts(Pick("SWITCH_VIDEO_INPUT", dev)), camState,
             UNCHANGED <<shareState, camState>>
      PROVE  Switches'
  <2>1. /\ Pick("SWITCH_VIDEO_INPUT", dev) \in Messages
        /\ Pick("SWITCH_VIDEO_INPUT", dev).id = "SWITCH_VIDEO_INPUT"
    BY Posted DEF Pick, Msg
  <2>2. camState = TRUE
    BY <1>1, <1>7
  <2> QED
    BY <1>7, <2>1, <2>2, PostFollows DEF SharePicks, CameraPicks
<1>8. CASE ClickShareArrow \/ ClickLeave
  BY <1>5, <1>8 DEF ClickShareArrow, ClickLeave
<1>9. ASSUME NEW s \in Screens, PickScreen(s) PROVE Switches'
  <2>1. Pick("SWITCH_SHARE_SCREEN", s) \in Messages
        /\ Pick("SWITCH_SHARE_SCREEN", s).id \in SharePicks
    BY <1>2, Posted DEF Pick, Msg, SharePicks
  <2> QED
    BY <1>2, <1>6, <1>9, <2>1 DEF PickScreen
<1>10. ASSUME NEW label \in Labels, PickWindow(label) PROVE Switches'
  <2>1. PickLabel(label) \in Messages /\ PickLabel(label).id \in SharePicks
    BY Posted DEF PickLabel, Msg, SharePicks
  <2> QED
    BY <1>6, <1>10, <2>1 DEF PickWindow
<1>11. ASSUME NEW c \in Cameras, PickCamera(c) PROVE Switches'
  BY <1>2, <1>7, <1>11 DEF PickCamera
<1> QED
  BY <1>3, <1>4, <1>8, <1>9, <1>10, <1>11 DEF UserStep

\* Opening the window leaves buttons and tracks.
LEMMA OpenFollows ==
  ASSUME SInv, UpdateAddTrack
  PROVE  Switches'
<1> DEFINE q == messageQueue
<1>1. /\ q \in Seq(Messages) /\ q # << >> /\ Head(q).id = "ADD_TRACK" /\ messageQueue' = Tail(q)
      /\ UNCHANGED <<pc, listener, shareState, camState, screenOn, camOn>>
  BY DEF SInv, IInv, TypeOK, UpdateAddTrack, Takes, Done, screenVars, camVars
<1>2. /\ pc /\ ~Leaving /\ listener # "called"
      /\ \A j \in DOMAIN q : q[j].id = "ADD_TRACK" => j = 1
  BY <1>1, TailIndex DEF SInv, OpensOnce
<1>3. \A i \in DOMAIN Tail(q) : Tail(q)[i].id # "ADD_TRACK"
  BY <1>1, <1>2, TailIndex
<1>4. AllOff' /\ OpensOnce'
  BY <1>1, <1>2, <1>3 DEF AllOff, OpensOnce
<1>5. Follows(Tail(q), "SET_SHARE", SharePicks, screenOn, shareState)
  BY <1>1, <1>2, TakeOther DEF SInv, ButtonsFollowed
<1>6. Follows(Tail(q), "SET_CAMERA", CameraPicks, camOn, camState)
  BY <1>1, <1>2, TakeOther DEF SInv, ButtonsFollowed
<1> QED
  BY <1>1, <1>4, <1>5, <1>6 DEF Switches, ButtonsFollowed

\* Leaving puts everything off.
LEMMA LeaveFollows ==
  ASSUME SInv, UpdateMeetingEnd
  PROVE  Switches'
<1>1. /\ messageQueue \in Seq(Messages) /\ messageQueue # << >>
      /\ Head(messageQueue).id = "MEETING_END" /\ messageQueue' = Tail(messageQueue)
      /\ UNCHANGED listener
  BY DEF SInv, IInv, TypeOK, UpdateMeetingEnd, Takes, Done
<1>2. Leaving
  BY <1>1, TailIndex DEF Leaving
<1>3. \A i \in DOMAIN messageQueue' : messageQueue'[i].id # "ADD_TRACK"
  BY <1>1, <1>2, TailIndex DEF SInv, OpensOnce
<1>4. OpensOnce'
  BY <1>1, <1>2, <1>3 DEF SInv, OpensOnce
<1>5. AllOff' /\ ButtonsFollowed'
  BY DEF UpdateMeetingEnd, AllOff, ButtonsFollowed
<1> QED
  BY <1>4, <1>5 DEF Switches

\* The other steps of the UI thread.
LEMMA UIFollows ==
  ASSUME SInv, UIStep
  PROVE  Switches'
<1>1. IInv'
  BY UIKeeps DEF SInv
<1>2. ASSUME NEW id \in {"SWITCH_SHARE_SCREEN", "SWITCH_SHARE_WINDOW", "SWITCH_VIDEO_INPUT",
                         "SET_SHARE", "SET_CAMERA", "SHARE_WINDOW_INFO"},
             Takes(id), Done, UNCHANGED <<streamWnd, shareState, camState, pc>>,
             IF id = "SET_SHARE" /\ pc THEN screenOn' = Head(messageQueue).on
             ELSE UNCHANGED screenOn \/ (pc /\ id \in SharePicks /\ screenOn'),
             IF id = "SET_CAMERA" /\ pc THEN camOn' = Head(messageQueue).on
             ELSE UNCHANGED camOn \/ (pc /\ id \in CameraPicks /\ camOn')
      PROVE  Switches'
  BY <1>1, <1>2, TakeFollows DEF Done
<1>3. CASE UpdateSetShare
  BY <1>2, <1>3 DEF UpdateSetShare, OnTracks, Dies, wndVars, callVars, screenVars, camVars
<1>4. CASE UpdateSetCamera
  BY <1>2, <1>4 DEF UpdateSetCamera, OnTracks, Dies, wndVars, callVars, screenVars, camVars
<1>5. CASE UpdateSwitchScreen
  BY <1>2, <1>5 DEF UpdateSwitchScreen, OnTracks, setScreenCapture, Dies, SharePicks,
                    wndVars, callVars, screenVars, camVars
<1>6. CASE UpdateSwitchWindow
  BY <1>2, <1>6 DEF UpdateSwitchWindow, OnTracks, setWindowCapture, Dies, SharePicks,
                    wndVars, callVars, screenVars, camVars
<1>7. CASE UpdateSwitchCamera
  BY <1>2, <1>7 DEF UpdateSwitchCamera, OnTracks, setCamera, Dies, CameraPicks,
                    wndVars, callVars, screenVars, camVars
<1>8. CASE UpdateShareWindowInfo
  BY <1>2, <1>8 DEF UpdateShareWindowInfo, screenVars, camVars
<1>9. CASE UpdateRequestWindowList
  <2>1. messageQueue' = Tail(messageQueue)
          \/ messageQueue' = Append(Tail(messageQueue), WindowInfo(shareWindowMap'))
    BY <1>9 DEF UpdateRequestWindowList
  <2>2. WindowInfo(shareWindowMap') \in Messages
          /\ WindowInfo(shareWindowMap').id = "SHARE_WINDOW_INFO"
    BY <1>1, Posted DEF IInv, TypeOK, WindowInfo, Msg
  <2>3. /\ Takes("REQUEST_WINDOW_LIST")
        /\ UNCHANGED <<streamWnd, shareState, camState, pc, screenOn, camOn>>
    BY <1>9 DEF UpdateRequestWindowList, wndVars, screenVars, camVars
  <2> QED
    BY <1>1, <2>1, <2>2, <2>3, TakeFollows
<1> QED
  BY <1>3, <1>4, <1>5, <1>6, <1>7, <1>8, <1>9, OpenFollows, LeaveFollows DEF UIStep

\* A message that no button sends and that neither opens nor leaves.
LEMMA NewsFollows ==
  ASSUME SInv, NEW m \in Messages,
         m.id \notin {"SET_SHARE", "SET_CAMERA", "MEETING_END"} \union SharePicks \union CameraPicks,
         messageQueue' = Append(messageQueue, m),
         UNCHANGED <<streamWnd, shareState, camState, pc, screenOn, camOn>>
  PROVE  ButtonsFollowed' /\ AllOff'
<1>1. /\ messageQueue \in Seq(Messages) /\ screenOn \in BOOLEAN /\ camOn \in BOOLEAN
      /\ shareState \in BOOLEAN /\ camState \in BOOLEAN
  BY DEF SInv, IInv, TypeOK
<1>2. Leaving => Leaving'
  BY <1>1, AppendIndex DEF Leaving
<1>3. ASSUME pc, ~Leaving
      PROVE  /\ Follows(messageQueue', "SET_SHARE", SharePicks, screenOn, shareState)
             /\ Follows(messageQueue', "SET_CAMERA", CameraPicks, camOn, camState)
  <2>1. /\ Follows(messageQueue, "SET_SHARE", SharePicks, screenOn, shareState)
        /\ Follows(messageQueue, "SET_CAMERA", CameraPicks, camOn, camState)
    BY <1>3 DEF SInv, ButtonsFollowed
  <2>2. /\ m.id # "SET_SHARE" /\ m.id \notin SharePicks
        /\ m.id # "SET_CAMERA" /\ m.id \notin CameraPicks
    OBVIOUS
  <2> QED
    BY <1>1, <2>1, <2>2, AddOther
<1> QED
  BY <1>2, <1>3 DEF SInv, ButtonsFollowed, AllOff

\* A call and its answer.
LEMMA CallsFollow ==
  ASSUME SInv, CreateMeeting \/ JoinMeeting \/ SetRemote \/ OnJoinMeetingSuccess
  PROVE  Switches'
<1>1. messageQueue \in Seq(Messages) /\ IInv'
  BY CallsKeep DEF SInv, IInv, TypeOK
<1>2. /\ WindowInfo(shareWindowMap') \in Messages
      /\ WindowInfo(shareWindowMap').id = "SHARE_WINDOW_INFO"
  BY <1>1, Posted DEF IInv, TypeOK, WindowInfo, Msg
<1>3. Msg("ADD_TRACK") \in Messages /\ Msg("ADD_TRACK").id = "ADD_TRACK"
  BY Posted DEF Msg
<1>4. ASSUME Calls, messageQueue' \in {<< >>, Append(<< >>, WindowInfo(shareWindowMap'))}
      PROVE  Switches'
  <2>1. /\ pc' /\ ~streamWnd' /\ screenOn' = FALSE /\ camOn' = FALSE
        /\ shareState' = FALSE /\ camState' = FALSE
    BY <1>4 DEF Calls, AddTracks, SInv, AllOff, wndVars
  <2>2. << >> \in Seq(Messages)
    OBVIOUS
  <2>3. \A i \in DOMAIN messageQueue' : messageQueue'[i].id = "SHARE_WINDOW_INFO"
    BY <1>2, <1>4
  <2>4. AllOff' /\ OpensOnce'
    BY <2>1, <2>3 DEF AllOff, OpensOnce, Leaving
  <2>5. /\ Follows(<< >>, "SET_SHARE", SharePicks, FALSE, FALSE)
        /\ Follows(<< >>, "SET_CAMERA", CameraPicks, FALSE, FALSE)
    BY EmptyFollows
  <2>6. \A id \in SharePicks \union CameraPicks : id # "SHARE_WINDOW_INFO"
    BY DEF SharePicks, CameraPicks
  <2>7. /\ Follows(messageQueue', "SET_SHARE", SharePicks, FALSE, FALSE)
        /\ Follows(messageQueue', "SET_CAMERA", CameraPicks, FALSE, FALSE)
    BY <1>2, <1>4, <2>2, <2>5, <2>6, AddOther
  <2> QED
    BY <2>1, <2>4, <2>7 DEF Switches, ButtonsFollowed
<1>5. CASE CreateMeeting
  BY <1>4, <1>5 DEF CreateMeeting, Calls
<1>6. CASE JoinMeeting
  BY <1>4, <1>6 DEF JoinMeeting, Calls
<1>7. CASE SetRemote
  <2>1. /\ messageQueue' = Append(messageQueue, Msg("ADD_TRACK")) /\ listener' = "joined"
        /\ UNCHANGED <<streamWnd, shareState, camState, pc, screenOn, camOn>>
        /\ pc /\ ~streamWnd /\ ~Leaving
        /\ \A i \in DOMAIN messageQueue : messageQueue[i].id # "ADD_TRACK"
    BY <1>7 DEF SetRemote, SInv, OpensOnce, wndVars, screenVars, camVars
  <2>2. ButtonsFollowed' /\ AllOff'
    BY <1>3, <2>1, NewsFollows DEF SharePicks, CameraPicks
  <2>3. OpensOnce'
    BY <1>1, <1>3, <2>1, AppendIndex DEF OpensOnce, Leaving
  <2> QED
    BY <2>2, <2>3 DEF Switches
<1>8. CASE OnJoinMeetingSuccess
  <2>1. /\ messageQueue' = Append(messageQueue, WindowInfo(shareWindowMap'))
        /\ listener' = "idle"
        /\ UNCHANGED <<streamWnd, shareState, camState, pc, screenOn, camOn>>
    BY <1>8 DEF OnJoinMeetingSuccess, wndVars, screenVars, camVars
  <2>2. ButtonsFollowed' /\ AllOff'
    BY <1>2, <2>1, NewsFollows DEF SharePicks, CameraPicks
  <2>3. \A i \in DOMAIN messageQueue' : messageQueue'[i].id \in {"ADD_TRACK", "MEETING_END"}
          => i \in DOMAIN messageQueue /\ messageQueue'[i] = messageQueue[i]
    BY <1>1, <1>2, <2>1, AppendElements
  <2>4. OpensOnce'
    BY <2>1, <2>3 DEF SInv, OpensOnce, Leaving
  <2> QED
    BY <2>2, <2>4 DEF Switches
<1> QED
  BY <1>5, <1>6, <1>7, <1>8

-----------------------------------------------------------------------------

\* The tracks of a meeting follow its buttons: setShare, setCamera and the operations
\* that choose, behind the UI thread's queue, end with both tracks as StreamScreen shows
\* them, whatever was clicked in whatever order, for a user who only chooses what to
\* share or which camera while the button is on.
THEOREM ButtonsTell ==
  ASSUME "pick_off" \notin Env
  PROVE  Spec => []SendsAsShown
<1>1. Init => SInv
  <2>1. Init => IInv
    BY InitHolds
  <2>2. Init => ButtonsFollowed /\ AllOff /\ OpensOnce
    BY DEF Init, ButtonsFollowed, AllOff, OpensOnce
  <2> QED
    BY <2>1, <2>2 DEF SInv
<1>2. ASSUME SInv, Next PROVE SInv'
  <2>1. IInv'
    BY <1>2, UserKeeps, UIKeeps, CallsKeep, DesktopKeeps DEF Next, SInv
  <2>2. ASSUME NEW w \in Windows, WindowOpens(w) \/ WindowCloses(w) PROVE Switches'
    <3>1. UNCHANGED <<messageQueue, streamWnd, shareState, camState, pc, listener,
                      screenOn, camOn>>
      BY <2>2 DEF WindowOpens, WindowCloses, wndVars, callVars, screenVars, camVars
    <3> QED
      BY <1>2, <3>1 DEF SInv, Switches, ButtonsFollowed, AllOff, OpensOnce, Leaving, Follows
  <2>3. Switches'
    BY <1>2, <2>2, UserFollows, UIFollows, CallsFollow DEF Next
  <2> QED
    BY <2>1, <2>3 DEF SInv, Switches
<1>3. ASSUME SInv, UNCHANGED vars PROVE SInv'
  <2>1. UNCHANGED <<messageQueue, streamWnd, shareState, camState, pc, listener,
                    screenOn, camOn>>
    BY <1>3 DEF vars, wndVars, callVars, screenVars, camVars
  <2>2. Switches'
    BY <1>3, <2>1 DEF SInv, Switches, ButtonsFollowed, AllOff, OpensOnce, Leaving, Follows
  <2>3. IInv'
    BY <1>3, StutterKeeps DEF SInv
  <2> QED
    BY <2>2, <2>3 DEF SInv, Switches
<1>4. SInv /\ [Next]_vars => SInv'
  BY <1>2, <1>3
<1>5. SInv => SendsAsShown
  <2> SUFFICES ASSUME SInv, Quiet, streamWnd
               PROVE  screenOn = shareState /\ camOn = camState
    BY DEF SendsAsShown
  <2>1. messageQueue = << >> /\ pc
    BY DEF Quiet, SInv, AllOff
  <2>2. ~Leaving
    BY <2>1 DEF Leaving
  <2> QED
    BY <2>1, <2>2 DEF SInv, ButtonsFollowed, Follows
<1> QED
  BY <1>1, <1>4, <1>5, PTL DEF Spec
=============================================================================
