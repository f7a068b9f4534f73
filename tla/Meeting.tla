------------------------------ MODULE Meeting ------------------------------
(* What the program promises the user of a calm day about meetings, without  *)
(* threads, messages, offers or devices: whoever asks for a meeting gets the *)
(* meeting asked for or is told no, is in one meeting at most, reads its     *)
(* right number, and is gone from it on the server after leaving it.         *)
EXTENDS Naturals

CONSTANTS
  Rooms,        \* the meetings there are
  Wishes,       \* what a user may type
  None          \* no meeting; as a wish, a new one

VARIABLES
  phase,        \* where the user is: "out", "asked" or "in"
  wish,         \* what was asked for and has not been answered
  member,       \* the meeting that counts the user as a member
  known         \* the window shows the number of that meeting

meetingVars == <<phase, wish, member, known>>

Init == phase = "out" /\ wish = None /\ member = None /\ known = FALSE

\* For a new meeting or for one with a number; not before the last one is over.
Ask(w) ==
  /\ phase = "out" /\ member = None
  /\ phase' = "asked" /\ wish' = w
  /\ UNCHANGED <<member, known>>

\* Into the meeting asked for, and no other.
Admit(r) ==
  /\ phase = "asked" /\ member = None
  /\ wish \in {r, None}
  /\ member' = r /\ wish' = None
  /\ UNCHANGED <<phase, known>>

Refuse ==
  /\ phase = "asked" /\ member = None
  /\ phase' = "out" /\ wish' = None
  /\ UNCHANGED <<member, known>>

\* The window opens for members; the number may come a little later ...
Enter ==
  /\ phase = "asked" /\ member # None
  /\ phase' = "in" /\ known' \in BOOLEAN
  /\ UNCHANGED <<wish, member>>

\* ... and then stays.
Learn ==
  /\ phase = "in" /\ ~known
  /\ known' = TRUE
  /\ UNCHANGED <<phase, wish, member>>

Leave ==
  /\ phase = "in"
  /\ phase' = "out" /\ known' = FALSE
  /\ UNCHANGED <<wish, member>>

\* The server learns that the user has left.
Goodbye ==
  /\ phase = "out" /\ member # None
  /\ member' = None
  /\ UNCHANGED <<phase, wish, known>>

Next ==
  \/ \E w \in Wishes \union {None} : Ask(w)
  \/ \E r \in Rooms : Admit(r)
  \/ Refuse \/ Enter \/ Learn \/ Leave \/ Goodbye

Spec == Init /\ [][Next]_meetingVars

\* Nobody waits for ever: for an answer, for the number, for being let go.
Answered == phase = "asked" ~> phase # "asked"
Informed == phase = "in" ~> (known \/ phase # "in")
LetGo == (phase = "out" /\ member # None) ~> member = None

LiveSpec == Spec /\ Answered /\ Informed /\ LetGo
=============================================================================
