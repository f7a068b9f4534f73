# A verification model of allLink

allLink is a Windows client for video meetings, in C++: SFML windows, WebRTC
for the media, JSON messages over a websocket for the signalling. This directory
holds TLA+ modules of its core logic, the TLC runs that check them, and
proofs that TLAPS checks. Source paths below are relative to the repository;
`rtcConnectEngine.cpp` stands for
`core/engine/signalBridge/rtcConnectEngine.cpp`.

## 1. The system

### Threads

| thread | where | what it does |
|---|---|---|
| UI | `src/vision.cpp:40-67` | polls the windows, takes ONE message from the queue and handles it, draws; calls the engine directly |
| listener | `engineListener.cpp:43-74` | takes responses from the websocket one by one and runs the engine's `on...` handlers |
| signaling | WebRTC's, made in `rtcConnectEngine.cpp:924` | `OnSuccess`/`OnFailure` of `CreateOffer`, `OnAddTrack` |
| keepalive | `rtcConnectEngine.cpp:859-903` | a heartbeat every two seconds |
| statistics | `rtcVideoEngine.cpp:464-480` | polls the connection while a meeting lasts |
| capture (2) | `screenCapturer.cpp:155-171` | grab the screen and a window |
| decoder | WebRTC's | `VideoRenderer::OnFrame` |

The engine's fields (`meetingId`, `peer_connection_`, `audioEngine`,
`videoEngine`, `localJsep`) are shared by the first three without a lock. The
listener and signaling threads reach the UI only through `hi::messageQueue`.

### Components

| component | state | operations | what makes it correct |
|---|---|---|---|
| frame queue (`core/savequeue.h`, `src/screen/streamscreen.cpp`) | `remoteImageList`, `remote_renderer_`, `isActive` | `Push`, `WaitPopFlex`, `startRemoteRenderer`, `stopRemoteRenderer` | bounded backlog, no going back in time, the last picture stays |
| connection engine (`rtcConnectEngine.*`) | `meetingId`, connection, offer, engines | schedule/create/join/exit/close meeting, sharing, devices; the handlers of responses | one connection at a time, its descriptions its own, its devices closed only when it is about to go, agreement with the server |
| socket listener (`engineListener.*`) | the message buffer | `readMessage` | responses handled in order |
| audio engine | the device module | `InitAdm`, `close`, devices | not used after `close` |
| video engine, screen capturer | its own pointer to the connection, tracks, threads | `addScreenTrack`, `switchScreen`, `setCamera`..., `close`, statistics | threads joined before they are dropped, the track of the running meeting |
| UI (`src/vision.cpp`, `src/screen/*`) | which windows are active, buttons, the number shown | clicks post messages, `update` handles them | windows follow the call |
| controller (`src/controller.cpp`) | none of importance | the engine's callbacks post messages; UI requests become engine calls | |
| message queue (`core/message.h`) | a FIFO | `PostMsg`, `GetMsg` | order |
| login, logout, connection to the server | sockets, threads | `connect`, `login`, `logout` | a second login does not block or lose threads |
| invitation, test clients, older modules, widgets | | | |

What is hard in it: three threads that change one meeting's state without a
lock; answers that arrive after the user has moved on; a server that may
refuse, cancel or end a meeting at any moment; messages that are handled when
their window is gone; a frame queue that drops frames on purpose. The
`hazards` of `PROJECT.json` list these at their lines.

## 2. The modules

| module | models | kind |
|---|---|---|
| `Picture` | what a viewer of a meeting is promised | abstract specification |
| `FrameQueue` | the frame queue, the decoder thread, the UI thread's `show`, the renderer's life; implements `Picture` | checked and proved |
| `FrameQueueProofs` | its theorems | proofs |
| `RtcConnectEngine` | the engine while its user is logged in: operations, the offer's callbacks, the handlers | component of `AllLink` |
| `SignalServer` | the server's answers (external) | component of `AllLink` |
| `VisionCentral` | the UI thread: clicks and `update` | component of `AllLink` |
| `Meeting` | what a user who asks for a meeting is promised | abstract specification |
| `AllLink` | the composition, fairness, properties; implements `Meeting` | checked and proved |
| `AllLinkProofs`, `DescriptionProofs`, `CalmProofs`, `DisturbanceProofs` | its theorems | proofs |
| `Login` | the login, from the start window to the server: `connect`, `login`, the destructor, listener and keepalive threads | checked and proved |
| `LoginProofs` | its theorems | proofs |
| `Sharing` | buttons and lists of the meeting window, the tracks and what they are made from, the lists of windows | checked and proved |
| `SharingProofs`, `SwitchProofs` | its theorems | proofs |

`Login` and `Sharing` stand beside `AllLink`, not inside it: `AllLink` begins when the
user has logged in, `Sharing` takes for granted that a call is answered, and
each asks what happens over several rounds of its own part.

The operators named as mutants in the component modules ("Mutant of ...") are
faulty versions of the definition after them. No specification uses them; each
property is shown to fail when one takes the place of the correct definition.

### FrameQueue

A frame is its number in the order of decoding. `queue` is `remoteImageList`.
`FlexKeep(n)` is how many elements `WaitPopFlex` leaves of `n`: it copies the
front, trims to five, and pops one more unless it is the last. (`ImageData` has
a copy assignment and no move assignment, so `std::move` copies: the front that
stays is intact.) `OnFrame`/`OnPaint` are the two halves of a frame's delivery,
before and after the test of `isActive` and `remote_renderer_`, so that the UI
thread can open and close the window in between; `AddTrack`,
`StartRemoteRenderer` and `MeetingEnd`, `StopRemoteRenderer` are the two steps
of `ADD_TRACK` and `MEETING_END`. A meeting has one remote video track.
Frames are numbered across meetings: the queue is not emptied between them, so the last
frames of one meeting are drawn first in the next, and count here as older frames of the same
picture.
`RemoveSink` waits for a frame in progress (WebRTC's broadcaster calls its
sinks under its lock), hence the guard of `StopRemoteRenderer`.

`Picture` has no queue, renderer or threads: frames arrive, the picture moves
forward through them, only in the open window and never more than `Lag` frames
behind, and does not stand still while there are newer ones. `FrameQueue`
implements it with `Lag = Burst + 3`, `latest = pushed`, `picture = shown`,
`open = isActive`.

### RtcConnectEngine

Every call of `InitializePeerConnection` gets a number. `pc` is the number of
the connection in place (0 is null); `local` and `remote` say from which call's
offer its descriptions come; `offering` is the call whose offer is being made,
`localJsep` the call whose offer is stored. A string that is a session
description is thus abstracted to whose it is, which is what the properties
ask. `adm` and `video` tell null, closed and open engines apart because the
handlers do (some test the pointer, some do not test what is behind it).

Each operation is one action of the UI thread and each handler one action of
the listener thread, with three exceptions, in which other threads run between the
steps:

- `onOK(INVITE)`: its three steps (`onOKInvite`, `OnJoined`, `OnStarted`) each post or
  write something another thread reacts to.
- `exitMeeting` and `onClose`: the statistics thread is told to end and joined, which
  takes up to a second (`StopStats`, `stats = "ending"`); the capturers and the device
  module are closed (`CloseDevices`); the id is cleared and the connection dropped
  (`DropConnection`).
- `onCancel(INVITE)`: the engines go (`onCancelInvite`), then the signaling thread and the
  connection (`onCancelDrops`).

`listener` says how far the listener thread is in one of these, `leaving` how far the UI
thread is in `exitMeeting`. Still one step each: closing the capturers and closing the device
module; clearing the id and dropping the connection; in `stopStatsCollection` lowering
the flag and beginning to join (`rtcVideoEngine.cpp:476-477`), so that a thread started
between those two lines is left out. The other handlers make one write that others can
see, or several that nobody reads in between.

A call may fail as it starts (`Env`, below). `createMeeting` and `onOK(QUERY)` do not look at what
`InitializePeerConnection` returns (`rtcConnectEngine.cpp:215`, `:570`): without a factory or
a connection they follow a null pointer at once. Without an audio device (`InitAdm` returns
null, `rtcAudioEngine.cpp:30`) the call goes on, and it is the teardown that follows the
null pointer (`:204`).

Where the program dies (a null pointer, a failed `RTC_DCHECK` or
`std::terminate`, freed memory) `fault` says how, and nothing moves any more.
`onCancel(INVITE)` destroys the signaling thread before the connection that
lives on it: undefined, so the model has both outcomes.

One branch follows the code and never runs: in `onRinging`, `localJsep` is never
still unknown, since an `INVITE` goes out only after it is stored. Another runs
only with three requests: an answer for which no offer is pending (`onOKInvite`).

### SignalServer

The repository has only the client's side. The module answers requests in
their order with the responses that the engine's handlers expect: `QUERY` 200
or `CANCEL`; `INVITE` 100, 180, 200, or 100, 401, or 100, 180, `CANCEL`; `BYE`
200 from a member of the meeting it names and 401 otherwise, a `BYE` that names none included; `CREATE` 200 with the new id; `INFO` 200;
and, unasked, 200 of `CLOSE` when someone else ends the meeting.

### VisionCentral

One action per click that posts a message and one per message of `update`.
The queue is FIFO and `update` takes one message per turn of the loop. The five
lists of devices posted on joining, audio tracks' `ADD_TRACK` and messages that
only change what is drawn are left out. The module starts when the user has
logged in, with the start window open; the login window is in `Login`.

### AllLink

The composition, and the environment. `Env` is a set of what happens besides
the regular course:

- of the server: `refuse`, `cancel`, `no_room`, `close`;
- of WebRTC and the devices: `offer_fails`, `no_connection` (the factory or the connection
  cannot be made), `no_device` (there is no audio device);
- of the user: `book`, `share`, `mistype`, and clicks made while something is
  still under way: `browse` (start window, dialog), `retry` (another call),
  `early_leave`, `early_share`.

Without the last four the user waits until the system is quiet: no message,
request, response or offer on its way.

`Meeting` is what all this is for, without threads, messages, offers or devices: a
user asks for a meeting with a number or for a new one, is admitted to it or
told no, sees its window and then its number, leaves, and is gone from it on the server
before asking again; nobody waits for ever for an answer, for the number, or for being
let go. `AllLink` implements it on a calm day (`share`, `no_room`, `mistype`):
`phase` is told from the meeting window, the messages and requests under way and the
connection (`Phase`), `wish` from the user's message and later from `meetingId` (`Wish`),
`member` is `srvRoom`, and `known` compares the number shown with it (`Known`).
`Ask` is the click on the dialog's button, `Admit` the server's answer to INVITE, `Refuse`
the handling of a QUERY's `CANCEL`, `Enter` the window's opening, `Leave` the message of
the leave button, `Goodbye` the server's answer to BYE. `Meeting` states its liveness as
leads-to formulas, since TLC cannot evaluate ENABLED of an abstract action under the
mapping.

"Told no" is what the client knows, not what the user sees: `onCancel` of a QUERY makes no
callback, and `Controller::OnJoinMeetingFailure` is empty. The user is free to ask again,
and that is all `Meeting` promises of a refusal.

### Login

Connections are numbered in the order in which `connect` makes them, and
`signalingSocket` is always the last. A connection is the user it was asked
for, how far its one REGISTER has got (`stage`), and whether the server counts the
user as registered (`member`). `connect` and `login` run on the UI thread;
`ui` says where that thread is: in its loop, waiting to join the listener thread
of the connection before (`joining`, in `rtcConnectEngine.cpp:74`), between
sending REGISTER and storing the user (`registering`), or in one of the parts of the
destructor. `listening` is the set of connections whose listener threads run,
`thread` the one that `listenerThread` would join, `keepalive` and `beaten` the
keepalive thread and the connection it is sending on.

`Controller::OnLoginFailure` only logs, so a refused login leaves the window as it
is. `DisconnectFromServer` is empty, so logging out changes the start window's
name and nothing else. The destructor of the engine runs after the Controller's
part of the object is gone: a callback in that time is a call of a pure virtual
function, `fault = "pure"`. `connect` replaces the socket without the mutex that
`sendSocket` holds: `fault = "freed"` when the last reference goes under a send.

`Env`: of the server `refuse`, `unreachable`, `drop` (loses the connection in use),
`fast_answer` (answers before `login` has made the two assignments that follow
`sendSocket`); of the keepalive thread `slow_send`; of the user `logout` and the
clicks made before all is quiet, `again` and `quit_early`. That a user without the last two
waits is assumed of him in `UserStep`; the code lets anyone click and close at any moment
(`Quit`). External: a server may hang up on connections that get no heartbeats (`HangUp`),
which can only be those that are no longer `signalingSocket`; no property relies on it
that it does.

### Sharing

A window is its handle, a screen its id, a camera its index; `desktop` says which
windows are there (those in `Closing` may go again). The program knows windows in maps from
handles to titles. Of a title it uses the label, what comes after the last dash, and whether
the title is one that `setShareList` drops for the name of an application in it (allLink,
NVIDIA, WeMail, 微信, QQ, 腾讯, LetsVPN, and whatever has `As` in it,
`streamscreen.cpp:595-603`): `Titles` are the pairs of a label and that answer. The buttons (`shareState`, `camState`) turn over at the click,
the tracks (`screenOn`, `camOn`) when the UI thread takes the message that the click
posted, and in between other clicks queue up. `source` is what the screen track is
made from; `screenId` and `windowId` are what is selected in the two capturers,
one of which nobody may be sending; `isWinfirst` and `isScreenfirst` are the
flags that decide whether a new track is made, and they outlive meetings as in the
code. `setCamera` also has the outcome that the device does not open.

`getWindowInfo` adds the windows there are to the engine's map and swaps it with
the caller's (`rtcConnectEngine.cpp:488-503`); the UI thread and the listener thread
both call it. A window may have any title when it is read, so titles change between
readings; `emplace` keeps the title that a map got first, so the two maps may disagree.
`setShareList` drops titles and gives the rest to `addLabel`, which takes each
label once and no more than `ListLimit` (`Fresh`, `Adds`); `offered` is the labels in the list. A choice is a
label, and `UpdateSwitchWindow` takes the first window in the Controller's map that bears it,
dropped titles included, or does nothing when there is none. Of two windows with one label
only the first can be chosen.

Every operation on tracks first sets the bitrate, and follows `peer_connection_`
to do so: `OnTracks` is the operation, or, without a connection, the end of the
process. A call is `Calls` (the UI thread's or the listener's
`InitializePeerConnection`), `SetRemote` and `OnJoinMeetingSuccess`, the last two
on the listener thread, with the UI thread in between.

Abstractions: a handle is not used again after its window has closed; which windows
WebRTC lists at all (none without a title, for instance) is its own affair; what is in a label
does not matter, only which are equal; one `getWindowInfo` is one step, although two threads may be in it;
a call starts when nothing is left of the one before and is always answered
(`AllLink` has what happens otherwise).

`Env`: `unplug` (a camera does not open), `after_leave` (the user clicks on while
`MEETING_END` is queued), `pick_off` (the user chooses while the button is off).

## 3. The runs

| run | environment | shows |
|---|---|---|
| `frame_queue` | 14 frames, bursts up to 6 | the seven properties of the frame queue, and that it implements `Picture`, liveness included |
| `calm` | `share`, `no_room`, `mistype`; 6 requests | no crash, agreement of window, engine and server, the right number, sharing as shown, every call settles, and the whole implements `Meeting`, liveness included; no deadlock |
| `patient_asker` | all but `retry`; 3 requests | types, `OwnDescriptions`; `ConnectionHasDevices` through teardowns of two threads at once |
| `login` | `refuse`, `unreachable`; 3 connections, 2 users | window, engine and server agree on who is logged in; the program ends when it is closed, and does not die on the way |
| `login_hurry` | all but `fast_answer`; 3 connections, 2 users | one listener thread, on the socket in use; a success is reported to the user who asked |
| `sharing` | `unplug`, `after_leave`; 2 meetings, 2 windows of which one closes, 2 labels of which one is also of dropped titles | tracks follow buttons; a label that is chosen finds a window that bears it; the list offers what is known |
| `refused`, `host_closes`, `rejoin`, `early_leave`, `login_again`, `share_window` | one disturbance each | the findings below |

`calm` is the run in which the whole of a meeting's life must work, and it
does. The other passing runs ask what survives disturbances. `patient_asker`
shows that mixing up two calls' descriptions takes a user who asks for a call
while another is under way: nothing the server or the timing of the threads
does is enough; the theorem `DescriptionsOwned` says so for all bounds. Its two
other properties hold for a user who retries as well: that is proved too (section 4).

Some properties need an environment that leaves something out. Adding what is
left out gives a counterexample, which shows that the property depends on it:

| add | to the `Env` of | fails | because |
|---|---|---|---|
| `book` | `calm` | `ShownNumber` | a booked meeting's id is stored where the current meeting's is kept (`rtcConnectEngine.cpp:612`) |
| `browse` | `calm` | `DialogClosed` | a queued click opens the dialog over the meeting (`src/vision.cpp:74`) |
| `logout` | `login` | `RegisteredIsShown` | logging out tells the window and not the server (`src/controller.cpp:117`) |
| `drop` | `login` | `ShownIsRegistered` | a lost connection ends the listener thread and is reported to nobody (`engineListener.cpp:10`) |
| `fast_answer` | `login_hurry` | `AnswerIsOwn` | `login` stores the user after REGISTER has gone out (`rtcConnectEngine.cpp:106`) |
| `quit_early` | `login` | `QuitEnds` | the listener thread reports to a Controller that is being destroyed (`rtcConnectEngine.cpp:40`) |
| `pick_off` | `sharing` | `SendsAsShown` | choosing a screen, a window or a camera switches its track on (`rtcVideoEngine.cpp:306`) |

For most of these properties section 4 proves the other half: that in every environment
without the disturbances named there they hold, for all bounds. Two properties of the
calm day have no such theorem, because nearly every disturbance breaks them by itself:
`NoFault` fails with `refuse`, `cancel`, `close`, `offer_fails`, `no_connection`, `no_device`,
`browse`, `retry` or `early_leave` alone, and `SettledAgreement` with `refuse`, `close`, `offer_fails`, `book` or
`early_leave`.

Bounds. `MaxFrames = 14` and `Burst = 6`: a burst takes the queue from its
resting length past five, where `WaitPopFlex` trims, and there are frames left
for a second burst and a second meeting. Two meeting ids tell "this meeting"
from "another"; one mistyped id. `MaxRequests` bounds how often the user asks
for a call, a booking or a sharing; 6 allow a call with sharing switched on and off,
leaving, and a second such call; 2 are enough for two calls that overlap. `MaxQueue`
bounds only what clicks add: the callbacks always get through.
`MaxConns = 3` allows a login while the connection before it is being given up and
an older one is still listened to; two users tell whose answer an answer is. In
`sharing` two windows are enough for one to close while the other is shared, for both to
bear one label, and for a title to change between readings; two labels, one of which also has
dropped titles, and a list that takes both. (That the list's limit is reached is the theorem
`KnownAreOffered`, for any limit, and the mutant whose list is full one label early.) The other devices
have one choice each: more make the run take longer than it is worth (it has
9.4 million states), and `share_window` has two. Two meetings show what outlives a meeting,
and a queue of two clicks gives a switch, a choice and leaving every order.

`CHECK_DEADLOCK FALSE` is set where the process may die or end, which ends the
behaviour, or where a bound stops the user; in `calm` and `frame_queue` deadlock
is checked.

Fairness. `FrameQueue!FairSpec`: the UI loop turns while the window is open
(`run` has no other exit), and a thread inside `OnPaint` leaves it. That frames
arrive is not assumed. `AllLink!FairSpec`: the UI loop turns, the listener and
signaling threads run, the server answers what it was asked. Nothing is assumed
of the user, or of whoever ends the meeting. `Login!FairSpec`: all threads run and
the server answers. It need not hang up on connections without heartbeats: the code cannot
show what the server does without them. `login_again` shows that `ConnectReturns` fails
for that reason. `Sharing` states no liveness.

### Findings

1. `refused`: after a 401 the connection stays, and the next call aborts (`rtcConnectEngine.cpp:919`).
2. `host_closes`: `Controller::OnCloseMeeting` is empty; the window stays open over nothing.
3. `rejoin`: a late answer to `BYE` silently ends the next join.
4. `early_leave`: leaving before the meeting has its id sends a `BYE` that names no meeting.
5. `login_again`: after a refused login the next one waits, on the UI thread, for the
   listener thread of the first connection, which only the server can end
   (`rtcConnectEngine.cpp:74`).
6. `share_window`: after a meeting that ended while a window was shared, a window chosen in
   the next one is selected and the screen is still what is sent
   (`rtcVideoEngine.cpp:285`).

## 4. The proofs

All theorems hold for every value of the constants that satisfies the named
assumptions of their modules, and are checked by TLAPS to the last leaf.

`FrameQueueProofs`. `LatestFrames` and `BacklogBounded` are not inductive by
themselves. The invariant `IInv` adds that the queue holds no more than was
pushed, that the frame on the screen is not newer than the queue's front, and
is none while nothing has been pushed (for `NeverBackwards`), and that `pending`
counts at most `Burst` frames, fewer while one is being delivered (for
`DrawnIsRecent`). From `Invariance` follow the invariants, and with the step the
action properties: what `Show` draws is the front, whose number is
`pushed - Len(queue) + 1`, and `Len(queue) <= 4 + pending`. `RefinesPicture` is the
safety part of the refinement: `Show` is a `Draw`, `OnPaint` an `Arrive` or invisible,
the first halves of `ADD_TRACK` and `MEETING_END` open and close.

`AllLinkProofs` is about the composition, for all sets of meeting and mistyped
ids, every `Env` and all bounds: nothing in it assumes a calm user or a friendly
server.

- `TypeCorrect`: `TypeOK` is inductive. It is proved in four parts (the engine's
  variables, the queues, the windows, the server), with a lemma for every step
  that operations and handlers share (`StartCall`, the parts of a teardown, `Dies`,
  `Send`, `Post`, `Receive`, `Takes`, `Answers`) and one for every group of `Next`.
- `DevicesOutliveConnection`: `ConnectionHasDevices` says that only a teardown that has closed the
  devices and not yet come to the connection leaves a connection without them, and it is
  inductive with the types. `StartCall` opens the devices with the connection;
  `CloseDevices` and `onCancelInvite` put their thread between the halves, and what follows
  there drops the connection, the other thread's if there is a new one; every
  other handler leaves both alone or drops the connection, or is the process's last.

`DescriptionProofs` is about the same composition and proves `OwnDescriptions` for a
user who asks for a call only when all is quiet (`"retry" \notin Env`); the other
disturbances may all happen. `OwnDescriptions` alone is not inductive: `onRinging`
sets whatever is in `localJsep`, and `onOK(INVITE)` whatever the response carries,
so what is on the websocket matters. The invariant `CInv` follows the call that is
under way. It is in one place at a time: the user's message, the request, the offer
being made, the INVITE, or the response that ends it, of each of which there is at
most one (`OneCall`). Ringing stands before the response that ends the call in the
queue of responses (`RingsFirst`), so a new call finds no ringing left over from the
last. INVITE, ringing, response and `localJsep` are about the newest call
(`OfNewest`). A step that neither starts a call nor moves it on keeps all this
because it only takes from the queues or adds what is no part of a call
(`Uneventful`); a click, `onOK(QUERY)`, `OnSuccess` and the two answers of the
server each hand the call on.

`CalmProofs` assumes `CalmDay` (`Env` within `share`, `no_room`, `mistype`) and is for
all sets of ids and all bounds. `CalmInv` says that the state is in one of seven stages of a
meeting's life: outside, perhaps with a click queued (`IsOut`); asking the server whether
the meeting exists (`Inquires`); making the offer (`Offers`); the INVITE or its answers under
way (`IsCalled`); the meeting beginning (`Enters`), with the listener thread in
`onOK(INVITE)` and the UI thread on what it has posted; in the meeting (`IsIn`); and leaving
until the BYE is answered and `exitMeeting` has returned (`Parts`), in either order. Each stage says what
the four queues hold, what the connection, its descriptions and devices are, which windows are
open and whom the server counts. The agreement properties cannot be proved without
it: they speak of quiet states, which are reached only through the others. One
lemma per thread shows which stage follows which; `NoFault`, `SettledAgreement`,
`DialogClosed`, `ShownNumber` and `ShareAsShown` are then read off the stages.
`RefinesMeeting` needs the mapping's value in every stage (`Views`, lemma
`StageViews`); a step between two stages is then the one step of `Meeting` between
their values, or none (`SeenStep`).

`LoginProofs` assumes `"fast_answer" \notin Env`, and is otherwise for all users, bounds
and environments. The invariant says that the only thread that can be listening is
the one `listenerThread` would join (`OneListener`), that the newest connection has
no answer before `login` has stored the user (`Unanswered`), that a connection
nobody listens to has been hung up (`Deserted`), and that the engine's user is the
one whose answer is outstanding (`AskerKept`). The last one is why the others are
needed: two listener threads, or an answer between the send and the store, would
each report a success in another's name. From it follow `ListenerFollowsSocket`
and `SuccessIsOwn`.

Two properties of the run `login` need more, each something else, and each is proved
in a wider environment than the run's. A registration lasts from the server's answer
until it hangs up (`Membership`).

- `RegisteredAreShown` (no `logout`): what the window will name is told by the last
  success in the queue, or by what it names now if there is none (`WillShow`). Once the
  listener thread has reported the answer on the socket in use, that is its user
  (`Reported`); older successes still queued do no harm, since each is overtaken.
- `ShownAreRegistered` (no `drop`, no `again`): a click or an answer is the only thing under way
  (`OneAtATime`), clicks come from someone who is offline (`ClicksOffline`), whoever is shown is
  the engine's user with nothing outstanding (`ShownIsSettled`), and the engine's user is
  the one of the socket in use, registered once that is answered (`AskerIsHeard`). The
  user may log out.

`SharingProofs` is for every `Env` and every way in which titles change. `Known` says of each
label that is offered in the list or named in a message under way that it is `Findable`: a window
in the Controller's map bears it, provided that every window that bears it in one of the
two maps is open and has the same title in both (`Sure`). `Real` says that both maps only have
windows that have been there. Each `getWindowInfo` adds all open windows to one map before it
swaps the two; a map keeps its titles, so a label that is sure before and after
is borne by the same windows (`ReadMaps`, `ReadKeeps`), and none is
lost (`WindowsAreFound`), although the Controller gets back another map every time. `WayBack` says that
`isScreenfirst` is set whenever a window is shared, from which `ScreensAreShared`
follows: whatever the flags of earlier meetings are, a chosen screen is shared. (The
same of windows fails: finding 6.)

`KnownAreOffered` is a matter of counting. The Controller passes a list on only if its
length has changed; `addLabel` skips what is there and stops when the list is full. As
long as no window has closed and the maps agree on titles (`Agreed`), lists only grow, so one of the
same length is the same list (`LengthTells`). The windows that bring a new label have
different labels, one for each label that is missing (`FreshLabels`), and adding them offers all labels of
titles that are not dropped or fills the list to the limit (`LabelsFill`, from `Counting`: of a finite
set of numbers exactly k are among the k least, or all are). `WillOffer` then says that in a
meeting the known labels are offered, or named in a message that is queued, or the list is
full; `OpensOnce` that the window is opened, its list empty, after the connection was
made and not twice.

`SwitchProofs` assumes `"pick_off" \notin Env`. Between a click and its message's
turn the button and the track differ. `Follows` reads the queue: the last switch in
it says what the button says; without a switch in it the track is as the button;
and the switch before each choice, or the track if there is none, is on, so that
obeying the choice changes nothing. A click adds to the queue's end and the UI
thread takes from its front; a lemma for each says that `Follows` is kept.
`OpensOnce` and `AllOff` tie this to the meeting: the window opens once, with
everything off.

`DisturbanceProofs` is about days that are not calm. Each of its theorems takes one property
and leaves out of `Env` disturbances that break it, alone or together; everything else may
happen, crashes included, for all ids and bounds. TLC finds the counterexample when
any of them comes back, for some with one or two others beside it.

| theorem | without | property |
|---|---|---|
| `DialogStaysClosed` | `browse` | `DialogClosed` |
| `SharesAsShown` | `close`, `early_share` | `ShareAsShown` |
| `WindowHasConnection` | `close`, `browse`, `retry` | `ClosedIsShown` |
| `JoinsAreHeard` | `close`, `browse`, `retry` | `JoinIsHeard` |
| `NumberIsShown` | `close`, `book`, `browse`, `retry` | `ShownNumber` |
| `ConnectsOnce` | `refuse`, `cancel`, `offer_fails`, `browse`, `retry` | `NoSecondConnection` |

`ClosedIsShown`, `JoinIsHeard` and `NoSecondConnection` are the properties of findings 2, 3 and 1:
these theorems bound what the findings depend on.

- The dialog: a message for it stands at the front of the queue with the start window still open
  (`EnterFirst`), so it never opens over the meeting (`OneWindow`).
- Sharing: a switch is the only thing under way, and what the button says (`SwitchFirst`); without
  one the track is as the button, except while the user is leaving, on capturers that run
  (`SwitchDone`); whoever shares is in
  an answered call (`SharesInCall`). No stages are needed: calls may overlap and fail.
- The patient user: a call is asked for (`Requested`), its meeting inquired about (`Inquiring`), its
  offer made and sent (`Inviting`) or answered (`Answered`), and nothing else goes on; or there is no
  call (`NoCall`), and a window that is open, or opened by the next message, has its connection.
  This is `PatientInv`. Unlike the stages of `CalmProofs` it says nothing of what is left when
  calls fail: connections, offers and windows in any combination.
- The number: on top of that, what the window shows is `meetingId` or on its way to be
  (`NumberShown`), INVITE and answer are for the meeting in `meetingId` (`NumberCalled`), and the window's
  meeting is the server's, with no BYE under way (`NumberServed`). A booking under way breaks the
  first, which is why there must be none (`NoBooking`).
- One connection at a time: a call is asked for only when there is none and no teardown has still to
  drop one (`Held`); a connection has a call that goes on, a window, or a teardown that is
  under way (`Covered`); the answer next in line finds an offer waiting for
  it, so it opens the window rather than leave the connection behind (`Rung`). That an INVITE
  is not answered with `CANCEL` needs `GoodNumbers`: a number that does not exist is
  given up at the QUERY and never invited. `CallsInvariance`, the invariant of
  `DescriptionProofs`, and `DialogInv` are assumed in its steps. The host may close, and the
  user may leave and share early.

Only model-checked: the liveness properties `LastFrameShown`, `CallSettles` and
`QuitEnds`, the leads-to part of `ImplementsMeeting` and the
fairness part of `ImplementsPicture` (fairness and ENABLED are out of TLAPS' reach).
Every invariant and every action property of a passing run is a theorem.

## 5. Not modelled

- Reconnection: its thread is never started (`engineListener.cpp:10-11`).
- `RtcConnectEngine::logout`, `relogin` and `closeMeeting` with `Closeflag`: the
  application never calls them; the test clients in `mod/signalBridge/src` do, on
  an older copy of the engine.
- `outbound`: one message out, whose answer changes nothing in the client.
- Microphone, loudspeaker and their volumes: each operation writes a setting of the device
  module. Whether that module exists is modelled (`adm`).
- Bitrates and statistics: numbers that are shown.
- The list of servers, typing, keyboard focus, the information panel, layout, widgets.
- ICE candidates: fire and forget for the client's logic.
- Two remote video tracks in one meeting: what `OnPaint` then reads while
  `startRemoteRenderer` writes it is undefined.
- Memory: leaks (`screenTrackInterface.release()`) and races on single words and inside `std::map`.
- The older copies under `mod/`, `inc/utils/InvokeTimer.hpp` that only they use, the
  demonstrations under `test/`, and third-party code under `inc/`, which is nearly
  all of the repository's lines.

## 6. Plan

Done: the frame queue with its abstract specification and proofs; engine, UI and
server in one composition, with its theorems and with `Meeting`, which it implements;
login; sharing and the choice of devices, with their theorems; the properties of the calm
day in wider environments.

Next:

1. `AllLink` with the tracks of `Sharing` in place of `screenOn`, to see choices together
   with calls that fail.
2. `SettledAgreement` for a server that cancels, on the stages of `PatientInv`.
