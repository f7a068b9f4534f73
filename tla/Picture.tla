------------------------------- MODULE Picture -------------------------------
(* What a viewer of a meeting is promised about the remote picture, without *)
(* queue, renderer or threads: frames arrive, and while the meeting window   *)
(* is open the picture moves forward through them, never far behind.         *)
EXTENDS Naturals

CONSTANT Lag          \* how many frames behind a frame may be when it is drawn

VARIABLES
  latest,       \* the number of the last frame that arrived
  picture,      \* the number of the frame shown, 0 for none
  open          \* the meeting window is open

pictureVars == <<latest, picture, open>>

Init == latest = 0 /\ picture = 0 /\ open = FALSE

\* A frame arrives.  One that was on its way when the window closed still does.
Arrive ==
  /\ latest' = latest + 1
  /\ UNCHANGED <<picture, open>>

\* A later frame is drawn; those in between are dropped.
Draw ==
  /\ open
  /\ picture' \in (picture + 1) .. latest
  /\ latest <= picture' + Lag
  /\ UNCHANGED <<latest, open>>

OpenOrClose ==
  /\ open' = ~open
  /\ UNCHANGED <<latest, picture>>

Next == Arrive \/ Draw \/ OpenOrClose

Spec == Init /\ [][Next]_pictureVars

\* The picture does not stand still while there are newer frames.
FairSpec == Spec /\ WF_pictureVars(Draw)
=============================================================================
