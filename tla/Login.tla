-------------------------------- MODULE Login --------------------------------
(* Logging in: the start window and the login window on the UI thread,      *)
(* RtcConnectEngine::connect, login and the destructor, the listener thread *)
(* that each connection gets, the keepalive thread, and the server at the   *)
(* other end.                                                               *)
(*                                                                          *)
(* Connections are numbered.  signalingSocket is always the last of them,   *)
(* and each carries one REGISTER at most, for LoginSignaling calls connect  *)
(* and login in turn.                                                       *)
EXTENDS Naturals, Sequences

CONSTANTS
  Users,        \* the user ids that may be typed
  NoUser,       \* the empty string
  Env,          \* what happens besides the regular course: of the server "refuse",
                \* "unreachable", "drop", "fast_answer"; of keepalive "slow_send";
                \* of the user "logout" and the clicks made in a hurry, "again" and
                \* "quit_early"
  MaxConns,     \* bound: connections
  MaxQueue      \* bound: messages in the queue when the user adds one

ASSUME LoginAssumption ==
  /\ NoUser \notin Users
  /\ Env \subseteq {"refuse", "unreachable", "drop", "fast_answer", "slow_send",
                    "logout", "again", "quit_early"}
  /\ MaxConns \in Nat /\ MaxQueue \in Nat

VARIABLES
  useId,        \* the name in the start window, NoUser for LoginType::OFFLINE
  loginWnd,     \* the login window takes clicks
  loggedIn,     \* VisionCentralController::type_ is LOGIN: meetings may be started
  messageQueue, \* hi::messageQueue
  ui,           \* where the UI thread is: in its loop, in connect, in login, or in
                \* the three parts of the destructor
  userId,       \* RtcConnectEngine::userInfo.userId
  conns,        \* the connections: the user asked for, and how far the asking is
  listening,    \* the connections whose listener threads run
  thread,       \* listenerThread: the connection of its thread, 0 if not joinable
  keepalive,    \* keepaliveThread: "none", "asleep", "sending" or "ended"
  beaten,       \* the connection on which keepalive is sending
  fault         \* how the process died: "none", "pure" (a pure virtual function),
                \* "freed" (the use of a socket that is gone)

vars == <<useId, loginWnd, loggedIn, messageQueue, ui, userId, conns, listening,
          thread, keepalive, beaten, fault>>

windows == <<useId, loginWnd, loggedIn>>
threads == <<listening, thread, keepalive, beaten>>

\* How far a connection is: no REGISTER on it yet, one sent, its answer on the
\* way, answered, or hung up by the server.
Stages == {"open", "asked", "granted", "refused", "answered", "closed"}

Messages ==
  [id : {"START_LOGIN", "START_LOGOUT"}, user : {NoUser}]
    \union [id : {"IS_LOGIN"}, user : Users]
    \union [id : {"LOGIN_SUCCESS"}, user : Users \union {NoUser}]

TypeOK ==
  /\ useId \in Users \union {NoUser} /\ userId \in Users \union {NoUser}
  /\ loginWnd \in BOOLEAN /\ loggedIn \in BOOLEAN
  /\ messageQueue \in Seq(Messages)
  /\ ui \in {"loop", "joining", "registering", "closing", "hanging_up", "over"}
  /\ conns \in Seq([user : Users, stage : Stages, member : BOOLEAN])
  /\ listening \subseteq DOMAIN conns
  /\ thread \in {0} \union DOMAIN conns
  /\ keepalive \in {"none", "asleep", "sending", "ended"}
  /\ beaten \in {0} \union DOMAIN conns
  /\ fault \in {"none", "pure", "freed"}

Init ==
  /\ useId = NoUser /\ loginWnd = FALSE /\ loggedIn = FALSE
  /\ messageQueue = << >> /\ ui = "loop" /\ userId = NoUser
  /\ conns = << >> /\ listening = {} /\ thread = 0
  /\ keepalive = "none" /\ beaten = 0 /\ fault = "none"

Msg(id, user) == [id |-> id, user |-> user]

socket == Len(conns)

-----------------------------------------------------------------------------
(* Clicks.                                                                  *)

Posts(m) ==
  /\ ui = "loop" /\ Len(messageQueue) < MaxQueue
  /\ messageQueue' = Append(messageQueue, m)
  /\ UNCHANGED <<loginWnd, loggedIn, ui, userId, conns, threads, fault>>

ClickStartLogin ==
  /\ useId = NoUser
  /\ Posts(Msg("START_LOGIN", NoUser))
  /\ UNCHANGED useId

ClickLogout ==
  /\ useId # NoUser
  /\ Posts(Msg("START_LOGOUT", NoUser))
  /\ useId' = NoUser

\* The login window's button, which is active again as soon as it is pressed.
ClickLogin(u) ==
  /\ loginWnd
  /\ Posts(Msg("IS_LOGIN", u))
  /\ UNCHANGED useId

-----------------------------------------------------------------------------
(* update.                                                                  *)

Takes(id) ==
  /\ ui = "loop"
  /\ messageQueue # << >> /\ Head(messageQueue).id = id
  /\ messageQueue' = Tail(messageQueue)

UpdateStartLogin ==
  /\ Takes("START_LOGIN")
  /\ loginWnd' = TRUE
  /\ UNCHANGED <<useId, loggedIn, ui, userId, conns, threads, fault>>

\* START_LOGOUT: DisconnectFromServer is empty; type_ stays what it is.
UpdateStartLogout ==
  /\ Takes("START_LOGOUT")
  /\ UNCHANGED <<windows, ui, userId, conns, threads, fault>>

UpdateLoginSuccess ==
  /\ Takes("LOGIN_SUCCESS")
  /\ loginWnd' = FALSE
  /\ useId' = Head(messageQueue).user
  /\ loggedIn' = TRUE
  /\ UNCHANGED <<ui, userId, conns, threads, fault>>

\* The last reference to a socket goes.  It is destroyed even if keepalive is
\* sending on it: connect does not take the mutex of sendSocket.
Frees(c) == fault' = IF c # 0 /\ beaten = c THEN "freed" ELSE fault

\* Mutant of UpdateIsLogin: the REGISTER is built from userInfo, not yet set.
UpdateIsLoginOldUser ==
  /\ Takes("IS_LOGIN")
  /\ \/ "unreachable" \in Env /\ UNCHANGED <<ui, conns, fault>>
     \/ /\ socket < MaxConns
        /\ keepalive # "sending" \/ "slow_send" \in Env
        /\ ui' = "joining"
        /\ conns' = Append(conns, [user |-> userId, stage |-> "open", member |-> FALSE])
        /\ IF thread \in listening THEN UNCHANGED fault ELSE Frees(socket)
  /\ UNCHANGED <<windows, userId, threads>>

\* IS_LOGIN: connect makes a connection and puts it in signalingSocket.  The
\* listener thread has a reference of its own to the socket before it.  A heartbeat
\* is sent in no time, unless Env has it otherwise.
UpdateIsLogin ==
  /\ Takes("IS_LOGIN")
  /\ \/ "unreachable" \in Env /\ UNCHANGED <<ui, conns, fault>>
     \/ /\ socket < MaxConns
        /\ keepalive # "sending" \/ "slow_send" \in Env
        /\ ui' = "joining"
        /\ conns' = Append(conns, [user |-> Head(messageQueue).user, stage |-> "open",
                                   member |-> FALSE])
        /\ IF thread \in listening THEN UNCHANGED fault ELSE Frees(socket)
  /\ UNCHANGED <<windows, userId, threads>>

-----------------------------------------------------------------------------
(* connect and login, on the UI thread.                                     *)

\* Mutants of StartListening: the thread before this one is detached; it is kept,
\* as keepalive's is.
StartListeningDetaches ==
  /\ ui = "joining"
  /\ listening' = listening \union {socket}
  /\ thread' = socket
  /\ keepalive' = IF keepalive = "none" THEN "asleep" ELSE keepalive
  /\ conns' = [conns EXCEPT ![socket].stage = IF @ = "open" THEN "asked" ELSE @]
  /\ ui' = "registering"
  /\ UNCHANGED <<windows, messageQueue, userId, beaten, fault>>

StartListeningKeeps ==
  /\ ui = "joining"
  /\ listening' = IF thread = 0 THEN {socket} ELSE listening
  /\ thread' = IF thread = 0 THEN socket ELSE thread
  /\ keepalive' = IF keepalive = "none" THEN "asleep" ELSE keepalive
  /\ conns' = [conns EXCEPT ![socket].stage = IF @ = "open" THEN "asked" ELSE @]
  /\ ui' = "registering"
  /\ UNCHANGED <<windows, messageQueue, userId, beaten, fault>>

\* The rest of connect, which first joins the listener thread of the connection
\* before this one, and login up to sendSocket: REGISTER goes out.
StartListening ==
  /\ ui = "joining" /\ thread \notin listening
  /\ listening' = listening \union {socket}
  /\ thread' = socket
  /\ keepalive' = IF keepalive = "none" THEN "asleep" ELSE keepalive
  /\ conns' = [conns EXCEPT ![socket].stage = IF @ = "open" THEN "asked" ELSE @]
  /\ ui' = "registering"
  /\ UNCHANGED <<windows, messageQueue, userId, beaten, fault>>

\* The rest of login: userInfo is set.
Registered ==
  /\ ui = "registering"
  /\ userId' = conns[socket].user
  /\ ui' = "loop"
  /\ UNCHANGED <<windows, messageQueue, conns, threads, fault>>

-----------------------------------------------------------------------------
(* The end of the program: the start window closes, and the Controller, of  *)
(* which the engine is a base, is destroyed.                                *)

Quit ==
  /\ ui = "loop"
  /\ ui' = "closing"
  /\ UNCHANGED <<windows, messageQueue, userId, conns, threads, fault>>

\* Mutant of CloseSocket: the destructor waits for the listener before it hangs up.
CloseSocketLate ==
  /\ ui = "closing" /\ keepalive \in {"none", "ended"}
  /\ ui' = IF socket = 0 \/ thread \notin listening THEN "over" ELSE "closing"
  /\ UNCHANGED <<windows, messageQueue, userId, conns, threads, fault>>

\* keepalive has been joined; sendClose and stopListening.
CloseSocket ==
  /\ ui = "closing" /\ keepalive \in {"none", "ended"}
  /\ ui' = IF socket = 0 THEN "over" ELSE "hanging_up"
  /\ UNCHANGED <<windows, messageQueue, userId, conns, threads, fault>>

\* The listener thread has been joined.
JoinListener ==
  /\ ui = "hanging_up" /\ thread \notin listening
  /\ ui' = "over"
  /\ UNCHANGED <<windows, messageQueue, userId, conns, threads, fault>>

UIStep ==
  \/ UpdateStartLogin \/ UpdateStartLogout \/ UpdateLoginSuccess \/ UpdateIsLogin
  \/ StartListening \/ Registered \/ CloseSocket \/ JoinListener

-----------------------------------------------------------------------------
(* The listener threads.                                                    *)

\* The thread of c takes the answer.
Answered(c, stage) ==
  /\ c \in listening
  /\ conns[c].stage = stage
  /\ conns' = [conns EXCEPT ![c].stage = "answered"]

\* A callback of the engine that only the Controller implements.
Calls(callback) ==
  IF ui \in {"closing", "hanging_up"}
  THEN fault' = "pure" /\ UNCHANGED messageQueue
  ELSE fault' = fault /\ callback

\* Mutant of onOKRegister: nobody is told.
onOKRegisterSilent(c) ==
  /\ Answered(c, "granted")
  /\ Calls(UNCHANGED messageQueue)
  /\ UNCHANGED <<windows, ui, userId, threads>>

\* onOK(REGISTER): OnLoginSuccess(userInfo.userId).
onOKRegister(c) ==
  /\ Answered(c, "granted")
  /\ Calls(messageQueue' = Append(messageQueue, Msg("LOGIN_SUCCESS", userId)))
  /\ UNCHANGED <<windows, ui, userId, threads>>

\* Mutant of onUnauthorizedRegister: OnLoginFailure's line in the log is taken
\* for the whole handler.
onUnauthorizedRegisterLogs(c) ==
  /\ Answered(c, "refused")
  /\ Calls(UNCHANGED messageQueue)
  /\ UNCHANGED <<windows, ui, userId, threads>>

\* onUnauthorized(REGISTER): OnLoginFailure writes a line in the log, then
\* userInfo is cleared.
onUnauthorizedRegister(c) ==
  /\ Answered(c, "refused")
  /\ Calls(UNCHANGED messageQueue)
  /\ userId' = NoUser
  /\ UNCHANGED <<windows, ui, threads>>

\* listen returns when the server has hung up, and the thread drops its socket.
ListenerEnds(c) ==
  /\ c \in listening /\ conns[c].stage = "closed"
  /\ listening' = listening \ {c}
  /\ IF c = socket THEN UNCHANGED fault ELSE Frees(c)
  /\ UNCHANGED <<windows, messageQueue, ui, userId, conns, thread, keepalive, beaten>>

ListenerStep ==
  \E c \in listening : onOKRegister(c) \/ onUnauthorizedRegister(c) \/ ListenerEnds(c)

-----------------------------------------------------------------------------
(* The keepalive thread.                                                    *)

\* It wakes and sends on the socket there is, or finds threadDestroy set.
Wakes ==
  /\ keepalive = "asleep"
  /\ \/ /\ ui # "closing"
        /\ keepalive' = "sending" /\ beaten' = socket
     \/ /\ ui = "closing"
        /\ keepalive' = "ended" /\ UNCHANGED beaten
  /\ UNCHANGED <<windows, messageQueue, ui, userId, conns, listening, thread, fault>>

Sleeps ==
  /\ keepalive = "sending"
  /\ keepalive' = "asleep" /\ beaten' = 0
  /\ UNCHANGED <<windows, messageQueue, ui, userId, conns, listening, thread, fault>>

KeepaliveStep == Wakes \/ Sleeps

-----------------------------------------------------------------------------
(* The server.                                                              *)

Serves(c, from, to, member) ==
  /\ conns[c].stage \in from
  /\ conns' = [conns EXCEPT ![c].stage = to, ![c].member = member]
  /\ UNCHANGED <<windows, messageQueue, ui, userId, threads, fault>>

\* A round trip takes longer than the two assignments after sendSocket, unless
\* Env has it otherwise.
ServeRegister(c) ==
  /\ ui # "registering" \/ "fast_answer" \in Env
  /\ \/ Serves(c, {"asked"}, "granted", TRUE)
     \/ "refuse" \in Env /\ Serves(c, {"asked"}, "refused", FALSE)

\* The client has sent Close, and the server answers it.
ServeClose(c) ==
  /\ ui = "hanging_up" /\ c = socket
  /\ Serves(c, Stages \ {"granted", "refused", "closed"}, "closed", FALSE)

\* The server hangs up on a connection without heartbeats, which go out on the
\* newest one only.
HangUp(c) == c < socket /\ Serves(c, {"open", "asked", "answered"}, "closed", FALSE)

\* The connection in use is lost.
Drop(c) == "drop" \in Env /\ Serves(c, {"answered"}, "closed", FALSE)

ServerStep == \E c \in DOMAIN conns : ServeRegister(c) \/ ServeClose(c)

-----------------------------------------------------------------------------

Alive == fault = "none"

\* Nothing is on its way between the threads or to and from the server.
Quiet ==
  /\ messageQueue = << >> /\ ui = "loop"
  /\ \A c \in DOMAIN conns : conns[c].stage \in {"answered", "closed"}

\* What is assumed of the user, and not in the code: in no hurry, he waits until all
\* is quiet; Env says for what this user does not, and whether he logs out.
Waits(hurry) == hurry \in Env \/ Quiet

UserStep ==
  \/ Waits("again") /\ (ClickStartLogin \/ \E u \in Users : ClickLogin(u))
  \/ Waits("again") /\ "logout" \in Env /\ ClickLogout
  \/ Waits("quit_early") /\ Quit

Next ==
  Alive /\ (\/ UserStep \/ UIStep \/ ListenerStep \/ KeepaliveStep \/ ServerStep
            \/ \E c \in DOMAIN conns : HangUp(c) \/ Drop(c))

Spec == Init /\ [][Next]_vars

\* All the threads run, and the server answers.  It need not hang up on a connection
\* without heartbeats.
FairSpec ==
  /\ Spec
  /\ WF_vars(Alive /\ UIStep) /\ WF_vars(Alive /\ ListenerStep)
  /\ WF_vars(Alive /\ KeepaliveStep) /\ WF_vars(Alive /\ ServerStep)

-----------------------------------------------------------------------------
(* Properties.                                                              *)

\* The server has u registered.
Registers(u) == \E c \in DOMAIN conns : conns[c].member /\ conns[c].user = u

\* Whoever is named in the start window, or in the engine's requests, is known to
\* the server, and may start meetings.
ShownIsRegistered ==
  (Alive /\ Quiet) =>
    /\ useId # NoUser => Registers(useId) /\ loggedIn
    /\ userId # NoUser => Registers(userId)

\* Whoever the server has registered is named in the start window.
RegisteredIsShown ==
  (Alive /\ Quiet) => \A u \in Users : Registers(u) => useId = u

\* While the UI thread is in its loop exactly one thread listens, and it listens to
\* the socket in use, or that socket has been hung up.
ListensToSocket ==
  (Alive /\ ui = "loop" /\ socket # 0) =>
    /\ listening \subseteq {socket}
    /\ conns[socket].stage # "closed" => listening = {socket}

\* A success is reported in the name of the user whose REGISTER it answers, even
\* to a user who has meanwhile asked again under another name.
AnswerIsOwn ==
  [][\A c \in DOMAIN conns :
       (conns[c].stage = "granted" /\ conns'[c].stage = "answered") => userId = conns[c].user]_vars

\* connect returns: a login that the user asks for gets to the server.
ConnectReturns == ui = "joining" ~> ui # "joining"

\* A program that is closed when all is quiet ends, and does not die on the way:
\* the destructor gets both threads to end, and neither calls a Controller that is
\* gone already.
QuitEnds == ui \in {"closing", "hanging_up"} ~> ui = "over"
=============================================================================
