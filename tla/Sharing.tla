------------------------------- MODULE Sharing -------------------------------
(* What the meeting window's buttons and lists do to the tracks: sharing and  *)
(* camera on and off, the choice of a screen, a window or a camera, and the   *)
(* list of windows to choose from, over several meetings.  The UI thread      *)
(* (StreamScreen, VisionCentralController, Controller and, below them,        *)
(* RTCVideoEngine), the listener thread and the desktop.  How a call comes    *)
(* about, and fails, is in AllLink: here every call is answered.              *)
EXTENDS Naturals, FiniteSets, Sequences

CONSTANTS
  Windows,      \* the handles of the windows there may be on the desktop
  Closing,      \* those of them that may close again
  Labels,       \* what a title may end in, after its last dash
  Hidden,       \* the labels of titles that setShareList drops, for what else is in them
  NoLabel,      \* no label, in a message that has none
  Screens,      \* the ids of the screens; 0 is selected at first
  Cameras,      \* the indices of the cameras; 0 is opened at first
  ListLimit,    \* labels in the window list, labelLimit of DropListModule
  Env,          \* "unplug" (a camera fails to open), and of the user "pick_off" (chooses
                \* while the button is off) and "after_leave" (clicks on after clicking
                \* leave)
  MaxMeetings,  \* bound: meetings
  MaxQueue      \* bound: messages in the queue when the user adds one

ASSUME SharingAssumption ==
  /\ Windows \subseteq Nat /\ IsFiniteSet(Windows) /\ Closing \subseteq Windows
  /\ IsFiniteSet(Labels) /\ Hidden \subseteq Labels /\ NoLabel \notin Labels
  /\ 0 \in Screens /\ Screens \subseteq 0 .. 255 /\ 0 \in Cameras /\ Cameras \subseteq Nat
  /\ ListLimit \in Nat /\ MaxMeetings \in Nat /\ MaxQueue \in Nat
  /\ Env \subseteq {"unplug", "pick_off", "after_leave"}

VARIABLES
  desktop,      \* how each window is: not there yet, open, or closed for good
  streamWnd,    \* the meeting window is open
  shareState,   \* its buttons: sharing
  camState,     \* and camera
  offered,      \* the labels of its window list
  messageQueue, \* hi::messageQueue
  shareWindowMap, \* the windows the Controller knows, with titles
  windowList,   \* RtcConnectEngine::windowList, likewise
  pc,           \* there is a peer connection
  listener,     \* what is left of a call: "idle", "called", or "joined", between
                \* setRemote and OnJoinMeetingSuccess
  source,       \* what the screen track is made from: "none", "screen", "window"
  screenOn,     \* the screen track is enabled
  screenId,     \* the screen selected in screen_device
  windowId,     \* the window selected in window_device, 0 for none
  isWinfirst,   \* RTCVideoEngine::isWinfirst
  isScreenfirst, \* RTCVideoEngine::isScreenfirst
  camera,       \* the camera that the camera track is made from
  camOn,        \* the camera track is enabled
  videoDevList, \* the cameras that RTCVideoEngine keeps open
  meetings,     \* the meetings so far
  fault         \* "none", or "null": a null pointer was followed

wndVars == <<streamWnd, shareState, camState, offered>>
lists == <<shareWindowMap, windowList>>
screenVars == <<source, screenOn, screenId, windowId, isWinfirst, isScreenfirst>>
camVars == <<camera, camOn, videoDevList>>
callVars == <<pc, listener, meetings>>

vars == <<desktop, wndVars, messageQueue, lists, callVars, screenVars, camVars, fault>>

\* Of a title the program uses its label and whether the title is one that it drops.
Titles == [label : Labels, hidden : {FALSE}] \union [label : Hidden, hidden : {TRUE}]

\* std::map<int, std::string>, from handles to titles.
Maps == UNION {[ws -> Titles] : ws \in SUBSET Windows}

EmptyMap == [w \in {} |-> NoLabel]

Messages ==
  [id : {"MEETING_END", "ADD_TRACK", "REQUEST_WINDOW_LIST", "SET_SHARE", "SET_CAMERA",
         "SWITCH_SHARE_SCREEN", "SWITCH_SHARE_WINDOW", "SWITCH_VIDEO_INPUT",
         "SHARE_WINDOW_INFO"},
   on : BOOLEAN, dev : Nat, label : Labels \union {NoLabel}, list : Maps]

TypeOK ==
  /\ desktop \in [Windows -> {"absent", "open", "closed"}]
  /\ streamWnd \in BOOLEAN /\ shareState \in BOOLEAN /\ camState \in BOOLEAN
  /\ offered \subseteq Labels /\ shareWindowMap \in Maps /\ windowList \in Maps
  /\ messageQueue \in Seq(Messages)
  /\ pc \in BOOLEAN /\ listener \in {"idle", "called", "joined"} /\ meetings \in Nat
  /\ source \in {"none", "screen", "window"} /\ screenOn \in BOOLEAN
  /\ screenId \in Nat /\ windowId \in Nat
  /\ isWinfirst \in BOOLEAN /\ isScreenfirst \in BOOLEAN
  /\ camera \in Nat /\ camOn \in BOOLEAN /\ videoDevList \subseteq Nat
  /\ fault \in {"none", "null"}

Init ==
  /\ desktop = [w \in Windows |-> "absent"]
  /\ streamWnd = FALSE /\ shareState = FALSE /\ camState = FALSE /\ offered = {}
  /\ messageQueue = << >> /\ shareWindowMap = EmptyMap /\ windowList = EmptyMap
  /\ pc = FALSE /\ listener = "idle" /\ meetings = 0
  /\ source = "none" /\ screenOn = FALSE /\ screenId = 0 /\ windowId = 0
  /\ isWinfirst = TRUE /\ isScreenfirst = FALSE
  /\ camera = 0 /\ camOn = FALSE /\ videoDevList = {}
  /\ fault = "none"

Open == {w \in Windows : desktop[w] = "open"}

Msg(id) == [id |-> id, on |-> FALSE, dev |-> 0, label |-> NoLabel, list |-> EmptyMap]
Switch(id, on) == [Msg(id) EXCEPT !.on = on]
Pick(id, dev) == [Msg(id) EXCEPT !.dev = dev]
PickLabel(label) == [Msg("SWITCH_SHARE_WINDOW") EXCEPT !.label = label]
WindowInfo(list) == [Msg("SHARE_WINDOW_INFO") EXCEPT !.list = list]

-----------------------------------------------------------------------------
(* The desktop.                                                             *)

WindowOpens(w) ==
  /\ desktop[w] = "absent"
  /\ desktop' = [desktop EXCEPT ![w] = "open"]
  /\ UNCHANGED <<wndVars, messageQueue, lists, callVars, screenVars, camVars, fault>>

WindowCloses(w) ==
  /\ w \in Closing /\ desktop[w] = "open"
  /\ desktop' = [desktop EXCEPT ![w] = "closed"]
  /\ UNCHANGED <<wndVars, messageQueue, lists, callVars, screenVars, camVars, fault>>

-----------------------------------------------------------------------------
(* Clicks in the meeting window.                                            *)

Leaving == \E i \in DOMAIN messageQueue : messageQueue[i].id = "MEETING_END"

Posts(m) ==
  /\ streamWnd /\ Len(messageQueue) < MaxQueue
  /\ Leaving => "after_leave" \in Env /\ m.id # "MEETING_END"
  /\ messageQueue' = Append(messageQueue, m)
  /\ UNCHANGED <<desktop, streamWnd, offered, lists, callVars, screenVars, camVars, fault>>

ClickShare ==
  /\ Posts(Switch("SET_SHARE", ~shareState))
  /\ shareState' = ~shareState /\ UNCHANGED camState

ClickCamera ==
  /\ Posts(Switch("SET_CAMERA", ~camState))
  /\ camState' = ~camState /\ UNCHANGED shareState

\* The lists are there whether the buttons are on or off.
PickScreen(s) ==
  /\ shareState \/ "pick_off" \in Env
  /\ Posts(Pick("SWITCH_SHARE_SCREEN", s)) /\ UNCHANGED <<shareState, camState>>

PickWindow(label) ==
  /\ label \in offered /\ (shareState \/ "pick_off" \in Env)
  /\ Posts(PickLabel(label)) /\ UNCHANGED <<shareState, camState>>

PickCamera(c) ==
  /\ camState \/ "pick_off" \in Env
  /\ Posts(Pick("SWITCH_VIDEO_INPUT", c)) /\ UNCHANGED <<shareState, camState>>

\* The arrow beside the sharing button.
ClickShareArrow ==
  Posts(Msg("REQUEST_WINDOW_LIST")) /\ UNCHANGED <<shareState, camState>>

ClickLeave ==
  Posts(Msg("MEETING_END")) /\ UNCHANGED <<shareState, camState>>

UserStep ==
  \/ ClickShare \/ ClickCamera \/ ClickShareArrow \/ ClickLeave
  \/ \E s \in Screens : PickScreen(s)
  \/ \E label \in Labels : PickWindow(label)
  \/ \E c \in Cameras : PickCamera(c)

-----------------------------------------------------------------------------
(* The lists of windows.                                                    *)

\* Mutant of getWindowInfo: the windows are only read into an empty map.
getWindowInfoCached ==
  /\ \E titles \in [Open -> Titles] :
       shareWindowMap' = IF DOMAIN windowList = {} THEN titles ELSE windowList
  /\ windowList' = shareWindowMap

\* The engine adds the windows there are to its own map, where a handle that it has
\* keeps its old title, and then swaps the map with the caller's, so that each call
\* meets the map of the call before the last.  A window has any title when it is read:
\* titles change.
getWindowInfo ==
  IF DOMAIN windowList \union Open = {} THEN UNCHANGED lists
  ELSE /\ \E titles \in [Open \ DOMAIN windowList -> Titles] :
            shareWindowMap' = [w \in DOMAIN windowList \union Open |->
                                IF w \in DOMAIN windowList THEN windowList[w] ELSE titles[w]]
       /\ windowList' = shareWindowMap

\* The windows of the list under whose labels it is shown: those whose titles are not
\* dropped, the first of each label, none whose label is there already.
Fresh(list) ==
  {w \in DOMAIN list :
     /\ ~list[w].hidden /\ list[w].label \notin offered
     /\ \A v \in DOMAIN list :
          ~list[v].hidden /\ list[v].label = list[w].label => w <= v}

\* Mutant of Adds: the list is full one label early.
AddsOneShort(list) ==
  {w \in Fresh(list) :
     Cardinality({v \in Fresh(list) : v < w}) < ListLimit - 1 - Cardinality(offered)}

\* Of these addLabel adds the first so many.
Adds(list) ==
  {w \in Fresh(list) :
     Cardinality({v \in Fresh(list) : v < w}) < ListLimit - Cardinality(offered)}

-----------------------------------------------------------------------------
(* Tracks.                                                                  *)

\* AddTracks: the tracks of a new connection, from the first screen and the first
\* camera, both off.
AddTracks ==
  /\ pc' = TRUE
  /\ source' = "screen" /\ screenOn' = FALSE /\ screenId' = 0 /\ windowId' = 0
  /\ camera' = 0 /\ camOn' = FALSE
  /\ UNCHANGED <<isWinfirst, isScreenfirst, videoDevList>>

Dies ==
  /\ fault' = "null"
  /\ UNCHANGED <<desktop, wndVars, lists, callVars, screenVars, camVars>>

\* setVideoBitrate comes first in every operation, and follows peer_connection_.
OnTracks(operation) == IF pc THEN operation ELSE Dies

\* The id of the screen is narrowed to uint8_t.
setScreenCapture(s) ==
  /\ IF isScreenfirst
     THEN source' = "screen" /\ screenOn' = TRUE /\ isWinfirst' = TRUE
     ELSE UNCHANGED <<source, screenOn, isWinfirst>>
  /\ screenId' = s % 256
  /\ UNCHANGED <<windowId, isScreenfirst>>

\* Mutant of setWindowCapture: the way back to a screen is not opened.
setWindowCaptureOneWay(w) ==
  /\ IF isWinfirst
     THEN source' = "window" /\ screenOn' = TRUE /\ isWinfirst' = FALSE
     ELSE UNCHANGED <<source, screenOn, isWinfirst>>
  /\ windowId' = w
  /\ UNCHANGED <<screenId, isScreenfirst>>

setWindowCapture(w) ==
  /\ IF isWinfirst
     THEN source' = "window" /\ screenOn' = TRUE /\ isWinfirst' = FALSE /\ isScreenfirst' = TRUE
     ELSE UNCHANGED <<source, screenOn, isWinfirst, isScreenfirst>>
  /\ windowId' = w
  /\ UNCHANGED screenId

\* Mutant of setCamera: cameras are counted from one.
setCameraFromOne(c) ==
  \/ /\ camera' = c - 1 /\ camOn' = TRUE
     /\ videoDevList' = videoDevList \union {c - 1}
  \/ /\ "unplug" \in Env /\ c \notin videoDevList
     /\ UNCHANGED camVars

\* The device is opened if it is not among those that have been chosen before.
setCamera(c) ==
  \/ /\ camera' = c /\ camOn' = TRUE
     /\ videoDevList' = videoDevList \union {c}
  \/ /\ "unplug" \in Env /\ c \notin videoDevList
     /\ UNCHANGED camVars

-----------------------------------------------------------------------------
(* update and the Controller, on the UI thread.                             *)

Takes(id) ==
  /\ messageQueue # << >> /\ Head(messageQueue).id = id
  /\ UNCHANGED <<desktop, meetings, listener>>

\* The message goes, and nothing takes its place.
Done == messageQueue' = Tail(messageQueue)

UpdateSetShare ==
  /\ Takes("SET_SHARE") /\ Done
  /\ OnTracks(/\ screenOn' = Head(messageQueue).on
              /\ UNCHANGED <<wndVars, lists, pc, source, screenId, windowId, isWinfirst,
                             isScreenfirst, camVars, fault>>)

UpdateSetCamera ==
  /\ Takes("SET_CAMERA") /\ Done
  /\ OnTracks(/\ camOn' = Head(messageQueue).on
              /\ UNCHANGED <<wndVars, lists, pc, screenVars, camera, videoDevList, fault>>)

UpdateSwitchScreen ==
  /\ Takes("SWITCH_SHARE_SCREEN") /\ Done
  /\ OnTracks(/\ setScreenCapture(Head(messageQueue).dev)
              /\ UNCHANGED <<wndVars, lists, pc, camVars, fault>>)

\* The windows the Controller knows by the label, dropped titles among them.
Bearers(label) == {w \in DOMAIN shareWindowMap : shareWindowMap[w].label = label}

\* The window is looked up by its label: the first that bears it is taken, and a label
\* that no window bears is passed over.
UpdateSwitchWindow ==
  /\ Takes("SWITCH_SHARE_WINDOW") /\ Done
  /\ \/ /\ Bearers(Head(messageQueue).label) = {}
        /\ UNCHANGED <<wndVars, lists, pc, screenVars, camVars, fault>>
     \/ \E w \in Bearers(Head(messageQueue).label) :
          /\ \A v \in Bearers(Head(messageQueue).label) : w <= v
          /\ OnTracks(/\ setWindowCapture(w)
                      /\ UNCHANGED <<wndVars, lists, pc, camVars, fault>>)

UpdateSwitchCamera ==
  /\ Takes("SWITCH_VIDEO_INPUT") /\ Done
  /\ OnTracks(/\ setCamera(Head(messageQueue).dev)
              /\ UNCHANGED <<wndVars, lists, pc, screenVars, fault>>)

\* Only a list of another length is passed on.
UpdateRequestWindowList ==
  /\ Takes("REQUEST_WINDOW_LIST")
  /\ getWindowInfo
  /\ messageQueue' = IF Cardinality(DOMAIN shareWindowMap') # Cardinality(DOMAIN shareWindowMap)
                     THEN Append(Tail(messageQueue), WindowInfo(shareWindowMap'))
                     ELSE Tail(messageQueue)
  /\ UNCHANGED <<wndVars, pc, screenVars, camVars, fault>>

UpdateShareWindowInfo ==
  /\ Takes("SHARE_WINDOW_INFO") /\ Done
  /\ LET list == Head(messageQueue).list
     IN  offered' = offered \union {list[w].label : w \in Adds(list)}
  /\ UNCHANGED <<streamWnd, shareState, camState, lists, pc, screenVars, camVars, fault>>

UpdateAddTrack ==
  /\ Takes("ADD_TRACK") /\ Done
  /\ streamWnd' = TRUE
  /\ UNCHANGED <<shareState, camState, offered, lists, pc, screenVars, camVars, fault>>

\* Mutant of UpdateMeetingEnd: the window keeps its sharing button for the next meeting.
UpdateMeetingEndSharing ==
  /\ Takes("MEETING_END") /\ Done
  /\ streamWnd' = FALSE /\ camState' = FALSE /\ offered' = {}
  /\ pc' = FALSE
  /\ source' = "none" /\ screenOn' = FALSE /\ screenId' = 0 /\ windowId' = 0
  /\ camera' = 0 /\ camOn' = FALSE /\ videoDevList' = {}
  /\ UNCHANGED <<shareState, lists, isWinfirst, isScreenfirst, fault>>

\* OnExit of the window, exitMeeting and close of the video engine.
UpdateMeetingEnd ==
  /\ Takes("MEETING_END") /\ Done
  /\ streamWnd' = FALSE /\ shareState' = FALSE /\ camState' = FALSE /\ offered' = {}
  /\ pc' = FALSE
  /\ source' = "none" /\ screenOn' = FALSE /\ screenId' = 0 /\ windowId' = 0
  /\ camera' = 0 /\ camOn' = FALSE /\ videoDevList' = {}
  /\ UNCHANGED <<lists, isWinfirst, isScreenfirst, fault>>

UIStep ==
  \/ UpdateSetShare \/ UpdateSetCamera \/ UpdateSwitchScreen \/ UpdateSwitchWindow
  \/ UpdateSwitchCamera \/ UpdateRequestWindowList \/ UpdateShareWindowInfo
  \/ UpdateAddTrack \/ UpdateMeetingEnd

-----------------------------------------------------------------------------
(* Calls.                                                                   *)

\* A call starts when nothing is left of the one before it.
Calls ==
  /\ ~pc /\ listener = "idle" /\ messageQueue = << >> /\ meetings < MaxMeetings
  /\ AddTracks
  /\ listener' = "called" /\ meetings' = meetings + 1
  /\ UNCHANGED <<desktop, wndVars, fault>>

\* Controller::CreateMeeting, on the UI thread.
CreateMeeting ==
  /\ Calls
  /\ getWindowInfo
  /\ messageQueue' = Append(messageQueue, WindowInfo(shareWindowMap'))

\* onOK(QUERY), on the listener thread.
JoinMeeting == Calls /\ UNCHANGED <<messageQueue, lists>>

\* onOK(INVITE) as far as setRemote, which brings the remote tracks.
SetRemote ==
  /\ listener = "called" /\ listener' = "joined"
  /\ messageQueue' = Append(messageQueue, Msg("ADD_TRACK"))
  /\ UNCHANGED <<desktop, wndVars, lists, pc, meetings, screenVars, camVars, fault>>

\* The rest of it: OnJoinMeetingSuccess.
OnJoinMeetingSuccess ==
  /\ listener = "joined" /\ listener' = "idle"
  /\ getWindowInfo
  /\ messageQueue' = Append(messageQueue, WindowInfo(shareWindowMap'))
  /\ UNCHANGED <<desktop, wndVars, pc, meetings, screenVars, camVars, fault>>

-----------------------------------------------------------------------------

Alive == fault = "none"

Next ==
  Alive /\ (\/ UserStep \/ UIStep
            \/ CreateMeeting \/ JoinMeeting \/ SetRemote \/ OnJoinMeetingSuccess
            \/ \E w \in Windows : WindowOpens(w) \/ WindowCloses(w))

Spec == Init /\ [][Next]_vars

\* Nothing is on its way.
Quiet == Alive /\ messageQueue = << >> /\ listener = "idle"

-----------------------------------------------------------------------------
(* Properties.                                                              *)

\* When all is quiet the tracks send if and only if the buttons say so, in every
\* meeting and whatever was chosen while they were on.
SendsAsShown ==
  (Quiet /\ streamWnd) => screenOn = shareState /\ camOn = camState

\* A screen that is chosen is shared, whatever was shared before, in this meeting
\* and in those before it.
ScreenPickShares ==
  [][(Takes("SWITCH_SHARE_SCREEN") /\ pc /\ messageQueue' = Tail(messageQueue)) =>
       source' = "screen" /\ screenId' = Head(messageQueue).dev]_vars

\* The two maps have the same title for each window that is in both.
SameTitle(w) ==
  w \in DOMAIN shareWindowMap \intersect DOMAIN windowList => shareWindowMap[w] = windowList[w]

\* A window that is known by the label, in one map or the other.
Bears(w, label) ==
  \/ w \in DOMAIN shareWindowMap /\ shareWindowMap[w].label = label
  \/ w \in DOMAIN windowList /\ windowList[w].label = label

\* A label that is chosen finds a window that bears it, as long as no window known by it
\* has closed or got another title between two readings: though the lists have been read
\* and swapped any number of times since it was offered.
ChosenIsFound ==
  [][(/\ Takes("SWITCH_SHARE_WINDOW") /\ pc /\ messageQueue' = Tail(messageQueue)
      /\ \A w \in Windows :
           Bears(w, Head(messageQueue).label) => w \in Open /\ SameTitle(w)) =>
       windowId' \in Open /\ Bears(windowId', Head(messageQueue).label)]_vars

\* As long as no window has closed or got another title between two readings, the user
\* is offered the label of every window that the Controller knows and that has no title
\* to be dropped, or a full list.
KnownIsOffered ==
  (/\ Quiet /\ streamWnd
   /\ \A w \in Windows : desktop[w] # "closed" /\ SameTitle(w)) =>
    \/ \A w \in DOMAIN shareWindowMap :
         shareWindowMap[w].hidden \/ shareWindowMap[w].label \in offered
    \/ Cardinality(offered) = ListLimit

\* A window that is chosen is shared, as a screen is, if its label is found.
WindowPickShares ==
  [][(/\ Takes("SWITCH_SHARE_WINDOW") /\ pc /\ messageQueue' = Tail(messageQueue)
      /\ Bearers(Head(messageQueue).label) # {}) => source' = "window"]_vars
=============================================================================
