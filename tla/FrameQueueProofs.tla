-------------------------- MODULE FrameQueueProofs --------------------------
(* For every Burst and every number of frames: the queue of the remote      *)
(* picture holds the latest frames, keeps a bounded backlog, and the        *)
(* picture on the screen never goes back, never blanks and is recent.       *)
EXTENDS FrameQueue, SequenceTheorems, TLAPS

\* What is on the screen is no newer than the front of the queue.
ShownIsOld == shown <= (IF queue = << >> THEN 0 ELSE queue[1])

\* The environment's bound, with room for the frame that is being painted.
PendingBounded == pending <= Burst /\ (painting => pending < Burst)

\* The inductive invariant.  LatestFrames and BacklogBounded hold it together;
\* the other two are what the action properties need.
IInv ==
  /\ TypeOK
  /\ LatestFrames
  /\ Len(queue) <= pushed
  /\ BacklogBounded
  /\ ShownIsOld
  /\ PendingBounded

-----------------------------------------------------------------------------
(* What WaitPopFlex does to a queue.                                        *)

\* FlexKeep keeps something, no more than there is, and no more than four --
\* unless there is a single element, which stays.
LEMMA FlexKeepBounds ==
  ASSUME NEW n \in Nat, n # 0
  PROVE  FlexKeep(n) \in 1..n /\ FlexKeep(n) <= 4
BY DEF FlexKeep

\* FlexRest(q) is the last FlexKeep(Len(q)) elements of q.
LEMMA FlexRestIsSuffix ==
  ASSUME NEW q \in Seq(Nat), q # << >>
  PROVE  /\ FlexRest(q) \in Seq(Nat)
         /\ Len(FlexRest(q)) = FlexKeep(Len(q))
         /\ FlexRest(q) # << >>
         /\ \A i \in 1..FlexKeep(Len(q)) :
               FlexRest(q)[i] = q[Len(q) - FlexKeep(Len(q)) + i]
<1> DEFINE n == Len(q)
           k == FlexKeep(n)
<1>1. n \in Nat /\ n # 0 /\ \A i \in 1..n : q[i] \in Nat
  BY EmptySeq, LenProperties
<1>2. k \in 1..n
  BY <1>1, FlexKeepBounds
<1> HIDE DEF k
<1>3. \A i \in (n - k + 1)..n : q[i] \in Nat
  BY <1>1, <1>2
<1> DEFINE r == SubSeq(q, n - k + 1, n)
<1>4. /\ r \in Seq(Nat)
      /\ Len(r) = k
      /\ \A i \in 1..k : r[i] = q[n - k + i]
  <2>1. n - k + 1 \in Int /\ n \in Int
    BY <1>1, <1>2
  <2>2. /\ r \in Seq(Nat)
        /\ Len(r) = IF n - k + 1 <= n THEN n - (n - k + 1) + 1 ELSE 0
        /\ \A i \in 1..(n - (n - k + 1) + 1) : r[i] = q[(n - k + 1) + i - 1]
    BY <1>3, <2>1, SubSeqProperties
  <2>3. n - (n - k + 1) + 1 = k /\ n - k + 1 <= n
    BY <1>1, <1>2
  <2>4. \A i \in 1..k : (n - k + 1) + i - 1 = n - k + i
    BY <1>1, <1>2
  <2> QED BY <2>2, <2>3, <2>4
<1>5. r # << >>
  BY <1>2, <1>4, EmptySeq
<1>6. FlexRest(q) = r
  BY DEF FlexRest, k
<1> QED BY <1>4, <1>5, <1>6 DEF k

-----------------------------------------------------------------------------
(* The invariant.                                                           *)

\* Initially nothing has been decoded.
LEMMA InitIInv == Init => IInv
<1> SUFFICES ASSUME Init PROVE IInv
  OBVIOUS
<1>1. queue \in Seq(Nat) /\ Len(queue) = 0
  BY EmptySeq DEF Init
<1>2. TypeOK
  BY <1>1, Zenon DEF Init, TypeOK
<1>3. LatestFrames
  BY <1>1 DEF LatestFrames
<1>4. Len(queue) <= pushed /\ BacklogBounded /\ ShownIsOld
  BY <1>1 DEF Init, BacklogBounded, ShownIsOld
<1>5. PendingBounded
  BY BoundsAssumption DEF Init, PendingBounded
<1> QED BY <1>2, <1>3, <1>4, <1>5 DEF IInv

\* OnPaint puts the next frame behind the others.
LEMMA OnPaintIInv == IInv /\ OnPaint => IInv'
<1> SUFFICES ASSUME IInv, OnPaint PROVE IInv'
  OBVIOUS
<1>1. queue \in Seq(Nat) /\ pushed \in Nat /\ pushed + 1 \in Nat /\ Len(queue) \in Nat
  BY LenProperties DEF IInv, TypeOK
<1>2. /\ queue' \in Seq(Nat) /\ queue' # << >>
      /\ Len(queue') = Len(queue) + 1
      /\ \A i \in 1..Len(queue) : queue'[i] = queue[i]
      /\ queue'[Len(queue) + 1] = pushed + 1
  BY <1>1, AppendProperties DEF OnPaint
<1>3. TypeOK'
  <2>1. pending' \in Nat
    BY DEF IInv, TypeOK, OnPaint
  <2> QED BY <1>1, <1>2, <2>1, Zenon DEF IInv, TypeOK, OnPaint
<1>4. LatestFrames'
  <2> SUFFICES ASSUME NEW i \in 1..Len(queue')
               PROVE  queue'[i] = pushed' + i - Len(queue')
    BY DEF LatestFrames
  <2>1. CASE i \in 1..Len(queue)
    BY <1>1, <1>2, <2>1 DEF IInv, LatestFrames, OnPaint
  <2>2. CASE i = Len(queue) + 1
    BY <1>1, <1>2, <2>2 DEF OnPaint
  <2> QED BY <1>1, <1>2, <2>1, <2>2
<1>5. Len(queue') <= pushed' /\ BacklogBounded'
  BY <1>1, <1>2 DEF IInv, TypeOK, BacklogBounded, OnPaint
<1>6. ShownIsOld'
  <2>1. CASE queue = << >>
    <3>1. Len(queue) = 0
      BY <2>1, EmptySeq
    <3> QED BY <1>1, <1>2, <2>1, <3>1 DEF IInv, TypeOK, ShownIsOld, OnPaint
  <2>2. CASE queue # << >>
    <3>1. 1 \in 1..Len(queue)
      BY <1>1, <2>2, EmptySeq
    <3> QED BY <1>1, <1>2, <2>2, <3>1 DEF IInv, TypeOK, ShownIsOld, OnPaint
  <2> QED BY <2>1, <2>2
<1>7. PendingBounded'
  BY BoundsAssumption DEF IInv, TypeOK, PendingBounded, OnPaint
<1> QED BY <1>3, <1>4, <1>5, <1>6, <1>7 DEF IInv

\* What Show draws: the front of the queue, which is Len(queue) - 1 frames behind.
LEMMA ShowDrawsFront ==
  ASSUME IInv, Show, queue # << >>
  PROVE  /\ shown' = queue[1]
         /\ shown' = pushed + 1 - Len(queue)
         /\ Len(queue) \in Nat \ {0}
<1>1. queue \in Seq(Nat) /\ Len(queue) \in Nat \ {0}
  BY EmptySeq DEF IInv, TypeOK
<1>2. shown' = queue[1]
  BY DEF Show
<1>3. 1 \in 1..Len(queue)
  BY <1>1
<1> QED BY <1>1, <1>2, <1>3 DEF IInv, LatestFrames

\* Show keeps a suffix of the queue.
LEMMA ShowIInv == IInv /\ Show => IInv'
<1> SUFFICES ASSUME IInv, Show PROVE IInv'
  OBVIOUS
<1>1. CASE queue = << >>
  <2>1. queue' = queue /\ shown' = shown /\ pushed' = pushed
    BY <1>1 DEF Show
  <2>2. Len(queue) = 0
    BY <1>1, EmptySeq
  <2> QED BY <2>1, <2>2, BoundsAssumption
          DEF IInv, TypeOK, LatestFrames, BacklogBounded, ShownIsOld, PendingBounded, Show
<1>2. CASE queue # << >>
  <2> DEFINE n == Len(queue)
             k == FlexKeep(n)
  <2>1. queue \in Seq(Nat) /\ n \in Nat /\ n # 0 /\ pushed \in Nat
    BY <1>2, EmptySeq DEF IInv, TypeOK
  <2>2. k \in 1..n /\ k <= 4
    BY <2>1, FlexKeepBounds
  <2>3. queue' = FlexRest(queue) /\ pushed' = pushed /\ pending' = 0
    BY <1>2 DEF Show
  <2>4. /\ queue' \in Seq(Nat) /\ queue' # << >>
        /\ Len(queue') = k
        /\ \A i \in 1..k : queue'[i] = queue[n - k + i]
    BY <1>2, <2>1, <2>3, FlexRestIsSuffix
  <2>5. shown' = queue[1] /\ shown' = pushed + 1 - n
    BY <1>2, ShowDrawsFront
  <2> HIDE DEF k
  <2>6. TypeOK'
    <3>1. queue[1] \in Nat
      BY <2>1, LenProperties
    <3>2. shown' \in Nat /\ pending' \in Nat
      BY <2>3, <2>5, <3>1
    <3> QED BY <2>4, <3>2, Zenon DEF IInv, TypeOK, Show
  <2>7. LatestFrames'
    <3> SUFFICES ASSUME NEW i \in 1..k
                 PROVE  queue'[i] = pushed + i - k
      BY <2>3, <2>4 DEF LatestFrames
    <3>1. n - k + i \in 1..n
      BY <2>1, <2>2
    <3>2. queue[n - k + i] = pushed + (n - k + i) - n
      BY <3>1 DEF IInv, LatestFrames
    <3>3. pushed + (n - k + i) - n = pushed + i - k
      BY <2>1, <2>2
    <3> QED BY <2>4, <3>2, <3>3
  <2>8. Len(queue') <= pushed' /\ BacklogBounded'
    BY <2>1, <2>2, <2>3, <2>4 DEF IInv, BacklogBounded
  <2>9. ShownIsOld'
    <3>1. queue'[1] = pushed + 1 - k
      BY <2>2, <2>3, <2>4, <2>7 DEF LatestFrames
    <3> QED BY <2>1, <2>2, <2>4, <2>5, <3>1 DEF ShownIsOld
  <2>10. PendingBounded'
    BY <2>3, BoundsAssumption DEF IInv, TypeOK, PendingBounded, Show
  <2> QED BY <2>6, <2>7, <2>8, <2>9, <2>10 DEF IInv
<1> QED BY <1>1, <1>2

\* Every step keeps the invariant; the steps not treated above leave the queue alone.
LEMMA NextIInv == IInv /\ [Next]_vars => IInv'
<1> SUFFICES ASSUME IInv, [Next]_vars PROVE IInv'
  OBVIOUS
<1> USE DEF IInv, TypeOK, LatestFrames, BacklogBounded, ShownIsOld, PendingBounded
<1>1. CASE OnFrame
  BY <1>1, BoundsAssumption DEF OnFrame
<1>2. CASE OnPaint
  BY <1>2, OnPaintIInv
<1>3. CASE Show
  BY <1>3, ShowIInv
<1>4. CASE AddTrack
  BY <1>4 DEF AddTrack
<1>5. CASE StartRemoteRenderer
  BY <1>5 DEF StartRemoteRenderer
<1>6. CASE MeetingEnd
  BY <1>6 DEF MeetingEnd
<1>7. CASE StopRemoteRenderer
  BY <1>7 DEF StopRemoteRenderer
<1>8. CASE UNCHANGED vars
  BY <1>8 DEF vars
<1> QED BY <1>1, <1>2, <1>3, <1>4, <1>5, <1>6, <1>7, <1>8 DEF Next, UIStep

\* The inductive invariant holds in every state of every behaviour.
THEOREM Invariance == Spec => []IInv
<1> QED BY InitIInv, NextIInv, PTL DEF Spec

-----------------------------------------------------------------------------

\* Every variable keeps its type.
THEOREM TypeCorrect == Spec => []TypeOK
<1>1. IInv => TypeOK
  BY DEF IInv
<1> QED BY <1>1, Invariance, PTL

\* The queue never holds anything but the latest frames, in order: no frame is
\* lost from its middle or from its back (savequeue.h, WaitPopFlex).
THEOREM HoldsLatestFrames == Spec => []LatestFrames
<1>1. IInv => LatestFrames
  BY DEF IInv
<1> QED BY <1>1, Invariance, PTL

\* The backlog left by a turn of the UI loop is at most four frames.
THEOREM BacklogIsBounded == Spec => []BacklogBounded
<1>1. IInv => BacklogBounded
  BY DEF IInv
<1> QED BY <1>1, Invariance, PTL

\* Only Show changes the picture on the screen.
LEMMA OnlyShowDraws ==
  ASSUME [Next]_vars, shown' # shown
  PROVE  Show /\ queue # << >>
BY DEF Next, UIStep, vars, OnFrame, OnPaint, Show, AddTrack, StartRemoteRenderer,
       MeetingEnd, StopRemoteRenderer

\* The picture never goes back to an earlier frame, across meetings too.
THEOREM NeverGoesBack == Spec => NeverBackwards
<1>1. ASSUME IInv, [Next]_vars
      PROVE  [shown' >= shown]_shown
  <2> SUFFICES ASSUME shown' # shown PROVE shown' >= shown
    OBVIOUS
  <2>1. Show /\ queue # << >>
    BY <1>1, OnlyShowDraws
  <2>2. shown' = queue[1] /\ shown <= queue[1]
    BY <1>1, <2>1, ShowDrawsFront DEF IInv, ShownIsOld
  <2>3. shown \in Nat /\ queue[1] \in Nat
    BY <1>1, <2>1, EmptySeq, LenProperties DEF IInv, TypeOK
  <2> QED BY <2>2, <2>3
<1> QED BY <1>1, Invariance, PTL DEF Spec, NeverBackwards

\* A frame reaches the screen at most Burst + 3 frames late.
THEOREM IsRecent == Spec => DrawnIsRecent
<1>1. ASSUME IInv, [Next]_vars
      PROVE  [shown' # shown => pushed <= shown' + Burst + 3]_shown
  <2> SUFFICES ASSUME shown' # shown PROVE pushed <= shown' + Burst + 3
    OBVIOUS
  <2>1. Show /\ queue # << >>
    BY <1>1, OnlyShowDraws
  <2>2. shown' = pushed + 1 - Len(queue) /\ Len(queue) \in Nat
    BY <1>1, <2>1, ShowDrawsFront
  <2> QED BY <1>1, <2>2, BoundsAssumption DEF IInv, TypeOK, BacklogBounded, PendingBounded
<1> QED BY <1>1, Invariance, PTL DEF Spec, DrawnIsRecent

\* Once a frame has arrived the queue is never empty again, so show always draws.
THEOREM NeverBlanks == Spec => NeverBlankAgain
<1>1. ASSUME IInv, [Next]_vars
      PROVE  [queue # << >> => queue' # << >>]_queue
  <2> SUFFICES ASSUME queue # << >>, queue' # queue PROVE queue' # << >>
    OBVIOUS
  <2>1. queue \in Seq(Nat) /\ pushed + 1 \in Nat
    BY <1>1 DEF IInv, TypeOK
  <2>2. CASE OnPaint
    BY <2>1, <2>2, AppendProperties DEF OnPaint
  <2>3. CASE Show
    BY <2>1, <2>3, FlexRestIsSuffix DEF Show
  <2>4. OnPaint \/ Show
    BY <1>1 DEF Next, UIStep, vars, OnFrame, AddTrack, StartRemoteRenderer, MeetingEnd, StopRemoteRenderer
  <2> QED BY <2>2, <2>3, <2>4
<1> QED BY <1>1, Invariance, PTL DEF Spec, NeverBlankAgain

-----------------------------------------------------------------------------
(* The refinement.                                                          *)

\* Every step of the two threads is a step of Picture, or leaves it alone.
LEMMA StepImplementsPicture ==
  ASSUME IInv, [Next]_vars
  PROVE  [Viewer!Next]_(Viewer!pictureVars)
<1> USE DEF Viewer!Next, Viewer!pictureVars
<1>1. CASE OnFrame
  BY <1>1 DEF OnFrame
<1>2. CASE OnPaint
  BY <1>2 DEF OnPaint, Viewer!Arrive
<1>3. CASE Show
  <2>1. CASE shown' = shown
    BY <1>3, <2>1 DEF Show
  <2>2. CASE shown' # shown
    <3>1. queue # << >> /\ isActive /\ pushed' = pushed /\ isActive' = isActive
      BY <1>3, <2>2 DEF Show
    <3>2. shown' = queue[1] /\ shown' = pushed + 1 - Len(queue) /\ Len(queue) \in Nat \ {0}
      BY <1>3, <3>1, ShowDrawsFront
    <3>3. shown <= shown' /\ shown \in Nat /\ pushed \in Nat
      BY <3>1, <3>2 DEF IInv, TypeOK, ShownIsOld
    <3>4. Len(queue) <= pushed /\ Len(queue) <= 4 + Burst
      BY <3>2, BoundsAssumption DEF IInv, TypeOK, BacklogBounded, PendingBounded
    <3>5. shown' \in (shown + 1) .. pushed /\ pushed <= shown' + (Burst + 3)
      BY <2>2, <3>2, <3>3, <3>4, BoundsAssumption
    <3> QED BY <3>1, <3>5 DEF Viewer!Draw
  <2> QED BY <2>1, <2>2
<1>4. CASE AddTrack
  BY <1>4 DEF AddTrack, Viewer!OpenOrClose
<1>5. CASE StartRemoteRenderer
  BY <1>5 DEF StartRemoteRenderer
<1>6. CASE MeetingEnd
  BY <1>6 DEF MeetingEnd, Viewer!OpenOrClose
<1>7. CASE StopRemoteRenderer
  BY <1>7 DEF StopRemoteRenderer
<1>8. CASE UNCHANGED vars
  BY <1>8 DEF vars
<1> QED BY <1>1, <1>2, <1>3, <1>4, <1>5, <1>6, <1>7, <1>8 DEF Next, UIStep

\* Queue, renderer and threads together implement what the viewer is promised.
\* (That the picture does not stand still is checked, not proved.)
THEOREM RefinesPicture == Spec => Viewer!Spec
<1>1. Init => Viewer!Init
  BY DEF Init, Viewer!Init
<1>2. IInv /\ [Next]_vars => [Viewer!Next]_(Viewer!pictureVars)
  BY StepImplementsPicture
<1> QED BY <1>1, <1>2, Invariance, PTL DEF Spec, Viewer!Spec
=============================================================================
