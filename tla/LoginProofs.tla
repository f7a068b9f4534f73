----------------------------- MODULE LoginProofs -----------------------------
(* For all users and bounds, and every environment in which an answer takes   *)
(* longer than two assignments: the variables keep their types, the one       *)
(* listener thread listens to the socket in use, and a success is reported in *)
(* the name of the user it was granted to.  Then, each with the hypotheses on *)
(* the environment that it needs: whoever is registered is shown, and whoever *)
(* is shown is registered.                                                    *)
EXTENDS Login, SequenceTheorems, TLAPS

Stage(c) == conns[c].stage

\* connect joins the thread of one connection before it starts that of the next.
OneListener ==
  /\ listening \subseteq {thread}
  /\ thread = IF ui = "joining" THEN socket - 1 ELSE socket

\* Until login has stored the user's name, the newest connection is unanswered.
Unanswered ==
  /\ ui = "joining" => socket # 0 /\ Stage(socket) = "open"
  /\ ui = "registering" => socket # 0 /\ Stage(socket) = "asked"

\* A connection nobody listens to has been hung up, or is not listened to yet.
Deserted ==
  \A c \in DOMAIN conns :
    c \in listening \/ Stage(c) = "closed" \/ (ui = "joining" /\ c = socket)

\* The engine's user is the one who asked, as long as the answer is outstanding.
AskerKept ==
  \A c \in DOMAIN conns :
    Stage(c) \in {"asked", "granted", "refused"} =>
      userId = conns[c].user \/ (ui = "registering" /\ c = socket)

IInv == TypeOK /\ OneListener /\ Unanswered /\ Deserted /\ AskerKept

-----------------------------------------------------------------------------
(* The connections.                                                         *)

Connections == [user : Users, stage : Stages, member : BOOLEAN]

\* Only connection c has moved, to a stage.
Moved(c, to) ==
  /\ conns' \in Seq(Connections) /\ DOMAIN conns' = DOMAIN conns /\ socket' = socket
  /\ \A d \in DOMAIN conns :
       /\ conns'[d].user = conns[d].user
       /\ conns'[d].stage = IF d = c THEN to ELSE Stage(d)

\* The domain of the connections, and what each of them is.
LEMMA ConnsType ==
  ASSUME TypeOK
  PROVE  /\ conns \in Seq(Connections)
         /\ socket \in Nat /\ DOMAIN conns = 1 .. socket
         /\ \A c \in DOMAIN conns : conns[c] \in Connections
<1>1. conns \in Seq(Connections)
  BY DEF TypeOK, Connections
<1> QED BY <1>1, LenProperties DEF socket

\* An assignment to the stage of a connection moves it.
LEMMA StageSet ==
  ASSUME TypeOK, NEW c \in DOMAIN conns, NEW to \in Stages,
         conns' = [conns EXCEPT ![c].stage = to]
  PROVE  Moved(c, to)
<1>1. c \in 1 .. socket /\ conns[c] \in Connections
  BY ConnsType
<1>2. [conns[c] EXCEPT !.stage = to] \in Connections
  BY <1>1 DEF Connections
<1>3. conns' = [conns EXCEPT ![c] = [conns[c] EXCEPT !.stage = to]]
  OBVIOUS
<1>4. /\ conns' \in Seq(Connections) /\ socket' = socket
      /\ \A d \in 1 .. socket :
           conns'[d] = IF d = c THEN [conns[c] EXCEPT !.stage = to] ELSE conns[d]
  BY <1>1, <1>2, <1>3, ConnsType, ExceptSeq DEF socket
<1> QED BY <1>1, <1>4, ConnsType, LenProperties DEF Moved, Stage, socket, Connections

\* So does an assignment to its stage and its registration.
LEMMA ServesMoves ==
  ASSUME TypeOK, NEW c \in DOMAIN conns, NEW to \in Stages, NEW from,
         NEW member \in BOOLEAN, Serves(c, from, to, member)
  PROVE  Moved(c, to) /\ Stage(c) \in from
<1> DEFINE r == [conns[c] EXCEPT !.stage = to, !.member = member]
<1>1. c \in 1 .. socket /\ conns[c] \in Connections
  BY ConnsType
<1>2. r \in Connections /\ r.user = conns[c].user /\ r.stage = to
  BY <1>1 DEF Connections
<1>3. conns' = [conns EXCEPT ![c] = r]
  BY <1>1, ConnsType DEF Serves
<1> HIDE DEF r
<1>4. /\ conns' \in Seq(Connections) /\ socket' = socket
      /\ \A d \in 1 .. socket : conns'[d] = IF d = c THEN r ELSE conns[d]
  BY <1>1, <1>2, <1>3, ConnsType, ExceptSeq DEF socket
<1> QED BY <1>1, <1>2, <1>4, ConnsType, LenProperties DEF Moved, Stage, socket, Serves

\* A connection is added.
LEMMA ConnAdded ==
  ASSUME TypeOK, NEW u \in Users,
         conns' = Append(conns, [user |-> u, stage |-> "open", member |-> FALSE])
  PROVE  /\ conns' \in Seq(Connections) /\ socket' = socket + 1
         /\ DOMAIN conns' = 1 .. socket + 1
         /\ \A d \in DOMAIN conns : conns'[d] = conns[d]
         /\ conns'[socket + 1].stage = "open"
<1>1. [user |-> u, stage |-> "open", member |-> FALSE] \in Connections
  BY DEF Connections, Stages
<1>2. /\ conns' \in Seq(Connections) /\ socket' = socket + 1
      /\ \A d \in 1 .. socket : conns'[d] = conns[d]
      /\ conns'[socket + 1] = [user |-> u, stage |-> "open", member |-> FALSE]
  BY <1>1, ConnsType, AppendProperties DEF socket
<1> QED BY <1>2, ConnsType, LenProperties DEF socket

-----------------------------------------------------------------------------
(* The message queue.                                                       *)

\* A message of the queue is a message, and the rest is a queue.
LEMMA TakesType ==
  ASSUME TypeOK, NEW id, Takes(id)
  PROVE  Head(messageQueue) \in Messages /\ messageQueue' \in Seq(Messages)
BY HeadTailProperties DEF TypeOK, Takes

\* A message that is posted makes a queue.
LEMMA PostsType ==
  ASSUME TypeOK, NEW m \in Messages
  PROVE  Append(messageQueue, m) \in Seq(Messages)
BY AppendProperties DEF TypeOK

-----------------------------------------------------------------------------
(* The steps that leave the types alone; the three others are below.        *)

\* Clicks keep the types.
LEMMA UserType ==
  ASSUME TypeOK, UserStep
  PROVE  TypeOK'
<1> USE DEF threads, windows
<1>1. CASE ClickStartLogin
  <2>1. Msg("START_LOGIN", NoUser) \in Messages
    BY DEF Msg, Messages
  <2> QED BY <1>1, <2>1, PostsType DEF TypeOK, ClickStartLogin, Posts
<1>2. CASE ClickLogout
  <2>1. Msg("START_LOGOUT", NoUser) \in Messages
    BY DEF Msg, Messages
  <2> QED BY <1>2, <2>1, PostsType DEF TypeOK, ClickLogout, Posts
<1>3. ASSUME NEW u \in Users, ClickLogin(u) PROVE TypeOK'
  <2>1. Msg("IS_LOGIN", u) \in Messages
    BY DEF Msg, Messages
  <2> QED BY <1>3, <2>1, PostsType DEF TypeOK, ClickLogin, Posts
<1>4. CASE Quit
  BY <1>4 DEF TypeOK, Quit
<1> QED BY <1>1, <1>2, <1>3, <1>4 DEF UserStep

\* So does the taking of a message.
LEMMA UpdateType ==
  ASSUME TypeOK, UpdateStartLogin \/ UpdateStartLogout \/ UpdateLoginSuccess
  PROVE  TypeOK'
<1> USE DEF threads, windows
<1>1. CASE UpdateStartLogin
  BY <1>1, TakesType DEF TypeOK, UpdateStartLogin
<1>2. CASE UpdateStartLogout
  BY <1>2, TakesType DEF TypeOK, UpdateStartLogout
<1>3. CASE UpdateLoginSuccess
  BY <1>3, TakesType DEF TypeOK, UpdateLoginSuccess, Messages
<1> QED BY <1>1, <1>2, <1>3

\* connect adds the connection it gets to those there are, for the user in the
\* message.
LEMMA IsLoginConnects ==
  ASSUME TypeOK, UpdateIsLogin, ~UNCHANGED <<ui, conns, fault>>
  PROVE  /\ ui' = "joining"
         /\ conns' \in Seq(Connections) /\ socket' = socket + 1
         /\ DOMAIN conns' = 1 .. socket + 1
         /\ \A d \in DOMAIN conns : conns'[d] = conns[d]
         /\ conns'[socket + 1].stage = "open"
<1>1. Head(messageQueue).user \in Users
  BY TakesType DEF UpdateIsLogin, Takes, Messages
<1>2. ui' = "joining"
      /\ conns' = Append(conns, [user |-> Head(messageQueue).user, stage |-> "open",
                                 member |-> FALSE])
  BY DEF UpdateIsLogin
<1> QED BY <1>1, <1>2, ConnAdded

\* The type of what connect leaves.
LEMMA IsLoginType ==
  ASSUME TypeOK, UpdateIsLogin
  PROVE  TypeOK'
<1> USE DEF threads, windows
<1>1. messageQueue' \in Seq(Messages)
  BY TakesType DEF UpdateIsLogin
<1>2. CASE UNCHANGED <<ui, conns, fault>>
  BY <1>1, <1>2 DEF TypeOK, UpdateIsLogin
<1>3. CASE ~UNCHANGED <<ui, conns, fault>>
  <2>1. conns' \in Seq(Connections) /\ DOMAIN conns \subseteq DOMAIN conns' /\ ui' = "joining"
    BY <1>3, IsLoginConnects, ConnsType
  <2>2. fault' \in {"none", "pure", "freed"}
    BY <1>3 DEF TypeOK, UpdateIsLogin, Frees
  <2> QED BY <1>1, <2>1, <2>2 DEF TypeOK, UpdateIsLogin, Connections
<1> QED BY <1>2, <1>3

\* The rest of connect, login and the destructor.
LEMMA EngineType ==
  ASSUME TypeOK, StartListening \/ Registered \/ CloseSocket \/ JoinListener, Unanswered
  PROVE  TypeOK'
<1> USE DEF threads, windows
<1>1. CASE StartListening
  <2>1. socket \in DOMAIN conns /\ Stage(socket) = "open"
    BY <1>1, ConnsType DEF StartListening, Unanswered
  <2>2. Moved(socket, "asked")
    <3>1. conns' = [conns EXCEPT ![socket].stage = "asked"]
      BY <1>1, <2>1 DEF StartListening, Stage
    <3> QED BY <2>1, <3>1, StageSet DEF Stages
  <2> QED BY <1>1, <2>1, <2>2 DEF TypeOK, StartListening, Moved, Connections
<1>2. CASE Registered
  <2>1. socket \in DOMAIN conns /\ conns[socket].user \in Users
    BY <1>2, ConnsType DEF Registered, Unanswered, Connections
  <2> QED BY <1>2, <2>1 DEF TypeOK, Registered
<1>3. CASE CloseSocket
  BY <1>3 DEF TypeOK, CloseSocket
<1>4. CASE JoinListener
  BY <1>4 DEF TypeOK, JoinListener
<1> QED BY <1>1, <1>2, <1>3, <1>4

\* What a listener thread does to the connection whose answer it takes.
LEMMA AnsweredMoves ==
  ASSUME TypeOK, NEW c, NEW stage, Answered(c, stage)
  PROVE  c \in DOMAIN conns /\ Stage(c) = stage /\ Moved(c, "answered")
<1>1. c \in DOMAIN conns
  BY DEF TypeOK, Answered
<1> QED BY <1>1, StageSet DEF Answered, Stages, Stage

\* The listener threads.
LEMMA ListenerType ==
  ASSUME TypeOK, ListenerStep
  PROVE  TypeOK'
<1> USE DEF threads, windows
<1>1. ASSUME NEW c \in listening, onOKRegister(c) PROVE TypeOK'
  <2>1. Moved(c, "answered")
    BY <1>1, AnsweredMoves DEF onOKRegister
  <2>2. Append(messageQueue, Msg("LOGIN_SUCCESS", userId)) \in Seq(Messages)
    <3>1. Msg("LOGIN_SUCCESS", userId) \in Messages
      BY DEF Msg, Messages, TypeOK
    <3> QED BY <3>1, PostsType
  <2>3. messageQueue' \in Seq(Messages) /\ fault' \in {"none", "pure", "freed"}
    BY <1>1, <2>2 DEF onOKRegister, Calls, TypeOK
  <2> QED BY <1>1, <2>1, <2>3 DEF TypeOK, onOKRegister, Moved, Connections
<1>2. ASSUME NEW c \in listening, onUnauthorizedRegister(c) PROVE TypeOK'
  <2>1. Moved(c, "answered")
    BY <1>2, AnsweredMoves DEF onUnauthorizedRegister
  <2>2. messageQueue' \in Seq(Messages) /\ fault' \in {"none", "pure", "freed"}
    BY <1>2 DEF onUnauthorizedRegister, Calls, TypeOK
  <2> QED BY <1>2, <2>1, <2>2 DEF TypeOK, onUnauthorizedRegister, Moved, Connections
<1>3. ASSUME NEW c \in listening, ListenerEnds(c) PROVE TypeOK'
  <2>1. fault' \in {"none", "pure", "freed"}
    BY <1>3 DEF ListenerEnds, Frees, TypeOK
  <2> QED BY <1>3, <2>1 DEF TypeOK, ListenerEnds
<1> QED BY <1>1, <1>2, <1>3 DEF ListenerStep

\* The keepalive thread.
LEMMA KeepaliveType ==
  ASSUME TypeOK, KeepaliveStep
  PROVE  TypeOK'
<1> USE DEF windows
<1>1. CASE Wakes
  <2>1. socket \in {0} \union DOMAIN conns
    BY ConnsType
  <2> QED BY <1>1, <2>1 DEF TypeOK, Wakes
<1>2. CASE Sleeps
  BY <1>2 DEF TypeOK, Sleeps
<1> QED BY <1>1, <1>2 DEF KeepaliveStep

\* The server moves one connection and touches nothing else: to "granted" or
\* "refused" if it was asked, and not while login is under way; or it hangs up.
LEMMA ServerMoves ==
  ASSUME TypeOK, Unanswered, "fast_answer" \notin Env, NEW c \in DOMAIN conns,
         ServeRegister(c) \/ ServeClose(c) \/ HangUp(c) \/ Drop(c)
  PROVE  /\ UNCHANGED <<windows, messageQueue, ui, userId, threads, fault>>
         /\ \/ Moved(c, "closed") /\ ~(ui \in {"joining", "registering"} /\ c = socket)
            \/ /\ \E to \in {"granted", "refused"} : Moved(c, to)
               /\ Stage(c) = "asked" /\ ui # "registering"
<1>1. UNCHANGED <<windows, messageQueue, ui, userId, threads, fault>>
  BY DEF ServeRegister, ServeClose, HangUp, Drop, Serves
<1>2. ASSUME ServeRegister(c)
      PROVE  /\ \E to \in {"granted", "refused"} : Moved(c, to)
             /\ Stage(c) = "asked" /\ ui # "registering"
  <2>1. ui # "registering"
    BY <1>2 DEF ServeRegister
  <2>2. PICK to \in {"granted", "refused"}, member \in BOOLEAN : Serves(c, {"asked"}, to, member)
    BY <1>2 DEF ServeRegister
  <2>3. Moved(c, to) /\ Stage(c) = "asked"
    BY <2>2, ServesMoves DEF Stages
  <2> QED BY <2>1, <2>3
<1>3. CASE ServeClose(c)
  BY <1>1, <1>3, ServesMoves DEF ServeClose, Stages
<1>4. CASE HangUp(c)
  <2>1. "closed" \in Stages /\ FALSE \in BOOLEAN
    BY DEF Stages
  <2>2. Moved(c, "closed")
    BY <1>4, <2>1, ServesMoves DEF HangUp
  <2> QED BY <1>1, <1>4, <2>2, ConnsType DEF HangUp
<1>5. CASE Drop(c)
  <2>1. "closed" \in Stages /\ FALSE \in BOOLEAN
    BY DEF Stages
  <2>2. Moved(c, "closed") /\ Stage(c) \in {"answered"}
    BY <1>5, <2>1, ServesMoves DEF Drop
  <2>3. ~(ui \in {"joining", "registering"} /\ c = socket)
    BY <2>2 DEF Unanswered, Stage
  <2> QED BY <1>1, <2>2, <2>3
<1> QED BY <1>1, <1>2, <1>3, <1>4, <1>5

\* The types, step by step.
LEMMA TypeInductive ==
  ASSUME TypeOK, Unanswered, "fast_answer" \notin Env, [Next]_vars
  PROVE  TypeOK'
<1>1. CASE UserStep
  BY <1>1, UserType
<1>2. CASE UIStep
  BY <1>2, UpdateType, IsLoginType, EngineType DEF UIStep
<1>3. CASE ListenerStep
  BY <1>3, ListenerType
<1>4. CASE KeepaliveStep
  BY <1>4, KeepaliveType
<1>5. ASSUME NEW c \in DOMAIN conns, ServeRegister(c) \/ ServeClose(c) \/ HangUp(c) \/ Drop(c)
      PROVE  TypeOK'
  <2>1. UNCHANGED <<windows, messageQueue, ui, userId, threads, fault>>
        /\ \E to \in Stages : Moved(c, to)
    BY <1>5, ServerMoves DEF Stages
  <2> QED BY <2>1 DEF TypeOK, Moved, Connections, windows, threads
<1>6. CASE UNCHANGED vars
  BY <1>6 DEF vars, TypeOK
<1> QED BY <1>1, <1>2, <1>3, <1>4, <1>5, <1>6 DEF Next, ServerStep

-----------------------------------------------------------------------------
(* The listener threads and the connections.                                *)

\* Steps that leave connections, threads and user alone, and do not leave or enter
\* connect and login.
LEMMA Untouched ==
  ASSUME OneListener, Unanswered, Deserted, AskerKept,
         UNCHANGED <<conns, listening, thread, userId>>,
         ui' = ui \/ {ui, ui'} \cap {"joining", "registering"} = {}
  PROVE  OneListener' /\ Unanswered' /\ Deserted' /\ AskerKept'
<1>1. socket' = socket
  BY DEF socket
<1> QED BY <1>1 DEF OneListener, Unanswered, Deserted, AskerKept, Stage

\* The steps that are of this kind.
LEMMA Elsewhere ==
  ASSUME UserStep \/ UpdateStartLogin \/ UpdateStartLogout \/ UpdateLoginSuccess
           \/ CloseSocket \/ JoinListener \/ KeepaliveStep \/ UNCHANGED vars
  PROVE  /\ UNCHANGED <<conns, listening, thread, userId>>
         /\ ui' = ui \/ {ui, ui'} \cap {"joining", "registering"} = {}
<1> USE DEF windows, threads
<1>1. CASE UserStep
  BY <1>1 DEF UserStep, ClickStartLogin, ClickLogout, ClickLogin, Quit, Posts
<1>2. CASE UpdateStartLogin \/ UpdateStartLogout \/ UpdateLoginSuccess
  BY <1>2 DEF UpdateStartLogin, UpdateStartLogout, UpdateLoginSuccess
<1>3. CASE CloseSocket \/ JoinListener
  BY <1>3 DEF CloseSocket, JoinListener
<1>4. CASE KeepaliveStep
  BY <1>4 DEF KeepaliveStep, Wakes, Sleeps
<1>5. CASE UNCHANGED vars
  BY <1>5 DEF vars
<1> QED BY <1>1, <1>2, <1>3, <1>4, <1>5

\* connect makes a connection.
LEMMA ConnectKeeps ==
  ASSUME IInv, UpdateIsLogin
  PROVE  OneListener' /\ Unanswered' /\ Deserted' /\ AskerKept'
<1> USE DEF IInv, threads, windows
<1>1. ui = "loop" /\ UNCHANGED <<listening, thread, userId>>
  BY DEF UpdateIsLogin, Takes
<1>2. CASE UNCHANGED <<ui, conns, fault>>
  BY <1>1, <1>2, Untouched
<1>3. CASE ~UNCHANGED <<ui, conns, fault>>
  <2>1. /\ ui' = "joining" /\ socket' = socket + 1 /\ socket \in Nat
        /\ DOMAIN conns' = 1 .. socket + 1 /\ DOMAIN conns = 1 .. socket
        /\ \A d \in 1 .. socket : conns'[d] = conns[d]
        /\ conns'[socket + 1].stage = "open"
    BY <1>3, IsLoginConnects, ConnsType
  <2>2. OneListener'
    BY <1>1, <2>1 DEF OneListener
  <2>3. Unanswered'
    BY <2>1 DEF Unanswered, Stage
  <2>4. Deserted'
    BY <1>1, <2>1 DEF Deserted, Stage
  <2>5. AskerKept'
    BY <1>1, <2>1 DEF AskerKept, Stage
  <2> QED BY <2>2, <2>3, <2>4, <2>5
<1> QED BY <1>2, <1>3

\* The thread of the connection before has ended, so that all the connections but
\* the newest are closed.
LEMMA ListeningKeeps ==
  ASSUME IInv, StartListening
  PROVE  OneListener' /\ Unanswered' /\ Deserted' /\ AskerKept'
<1> USE DEF IInv, threads, windows
<1>1. /\ ui = "joining" /\ ui' = "registering" /\ userId' = userId
      /\ thread \notin listening /\ thread' = socket /\ listening' = listening \union {socket}
  BY DEF StartListening
<1>2. socket \in DOMAIN conns /\ Stage(socket) = "open" /\ socket # 0
  BY <1>1, ConnsType DEF Unanswered
<1>3. Moved(socket, "asked")
  <2>1. conns' = [conns EXCEPT ![socket].stage = "asked"]
    BY <1>2 DEF StartListening, Stage
  <2> QED BY <1>2, <2>1, StageSet DEF Stages
<1>4. listening' = {socket} /\ \A c \in DOMAIN conns : c = socket \/ Stage(c) = "closed"
  BY <1>1 DEF OneListener, Deserted
<1>5. OneListener'
  BY <1>1, <1>3, <1>4 DEF OneListener, Moved
<1>6. Unanswered'
  BY <1>1, <1>2, <1>3 DEF Unanswered, Moved, Stage
<1>7. Deserted'
  BY <1>1, <1>3, <1>4 DEF Deserted, Moved, Stage
<1>8. AskerKept'
  BY <1>1, <1>3, <1>4 DEF AskerKept, Moved, Stage
<1> QED BY <1>5, <1>6, <1>7, <1>8

\* login stores the user: nobody else is asking.
LEMMA RegisteredKeeps ==
  ASSUME IInv, Registered
  PROVE  OneListener' /\ Unanswered' /\ Deserted' /\ AskerKept'
<1> USE DEF IInv, threads, windows
<1>1. /\ ui = "registering" /\ ui' = "loop" /\ userId' = conns[socket].user
      /\ UNCHANGED <<conns, listening, thread, socket>>
  BY DEF Registered, socket
<1>2. \A c \in DOMAIN conns : c = socket \/ Stage(c) = "closed"
  BY <1>1 DEF OneListener, Deserted
<1>3. OneListener' /\ Unanswered'
  BY <1>1 DEF OneListener, Unanswered
<1>4. Deserted'
  BY <1>1 DEF Deserted, Stage
<1>5. AskerKept'
  BY <1>1, <1>2 DEF AskerKept, Stage
<1> QED BY <1>3, <1>4, <1>5

\* A listener thread takes an answer; if that is a 401 the engine forgets the user,
\* and no other connection is waiting for an answer.
LEMMA AnswerKeeps ==
  ASSUME IInv, NEW c \in listening, onOKRegister(c) \/ onUnauthorizedRegister(c)
  PROVE  OneListener' /\ Unanswered' /\ Deserted' /\ AskerKept'
<1> USE DEF IInv, threads, windows
<1>1. UNCHANGED <<ui, listening, thread>>
  BY DEF onOKRegister, onUnauthorizedRegister
<1>2. c \in DOMAIN conns /\ Stage(c) \in {"granted", "refused"} /\ Moved(c, "answered")
  BY AnsweredMoves DEF onOKRegister, onUnauthorizedRegister
<1>3. c = thread /\ \A d \in DOMAIN conns : d = c \/ Stage(d) \in {"closed", "open"}
  BY DEF OneListener, Deserted, Unanswered
<1>4. OneListener'
  BY <1>1, <1>2 DEF OneListener, Moved
<1>5. Unanswered'
  BY <1>1, <1>2, ConnsType DEF Unanswered, Moved, Stage
<1>6. Deserted'
  BY <1>1, <1>2 DEF Deserted, Moved, Stage
<1>7. AskerKept'
  BY <1>2, <1>3 DEF AskerKept, Moved, Stage
<1> QED BY <1>4, <1>5, <1>6, <1>7

\* A listener thread ends: its connection is closed.
LEMMA EndKeeps ==
  ASSUME IInv, NEW c \in listening, ListenerEnds(c)
  PROVE  OneListener' /\ Unanswered' /\ Deserted' /\ AskerKept'
<1> USE DEF IInv, threads, windows
<1>1. UNCHANGED <<ui, thread, conns, userId, socket>> /\ listening' = listening \ {c}
  BY DEF ListenerEnds, socket
<1>2. Stage(c) = "closed"
  BY DEF ListenerEnds, Stage
<1>3. OneListener' /\ Unanswered'
  BY <1>1 DEF OneListener, Unanswered, Stage
<1>4. Deserted'
  BY <1>1, <1>2 DEF Deserted, Stage
<1>5. AskerKept'
  BY <1>1 DEF AskerKept, Stage
<1> QED BY <1>3, <1>4, <1>5

\* The server answers or hangs up.
LEMMA ServerKeeps ==
  ASSUME IInv, "fast_answer" \notin Env, NEW c \in DOMAIN conns,
         ServeRegister(c) \/ ServeClose(c) \/ HangUp(c) \/ Drop(c)
  PROVE  OneListener' /\ Unanswered' /\ Deserted' /\ AskerKept'
<1> USE DEF IInv, threads, windows
<1>1. UNCHANGED <<ui, listening, thread, userId>>
  BY ServerMoves
<1>2. PICK to \in {"closed", "granted", "refused"} :
        /\ Moved(c, to)
        /\ ~(ui \in {"joining", "registering"} /\ c = socket)
        /\ to # "closed" => Stage(c) = "asked"
  BY ServerMoves DEF Unanswered
<1>3. OneListener'
  BY <1>1, <1>2 DEF OneListener, Moved
<1>4. Unanswered'
  BY <1>1, <1>2, ConnsType DEF Unanswered, Moved, Stage
<1>5. Deserted'
  BY <1>1, <1>2 DEF Deserted, Moved, Stage
<1>6. AskerKept'
  BY <1>1, <1>2 DEF AskerKept, Moved, Stage
<1> QED BY <1>3, <1>4, <1>5, <1>6

-----------------------------------------------------------------------------
(* The theorems.                                                            *)

\* The initial state satisfies the invariant.
LEMMA Initially ==
  ASSUME Init
  PROVE  IInv
<1>1. conns \in Seq(Connections) /\ socket = 0 /\ messageQueue \in Seq(Messages)
  BY EmptySeq DEF Init, socket
<1>2. DOMAIN conns = {}
  BY <1>1, LenProperties DEF socket
<1>3. TypeOK
  BY <1>1 DEF Init, TypeOK, Connections
<1>4. OneListener /\ Unanswered
  BY <1>1 DEF Init, OneListener, Unanswered
<1>5. Deserted /\ AskerKept
  BY <1>2 DEF Deserted, AskerKept
<1> QED BY <1>3, <1>4, <1>5 DEF IInv

\* Every step keeps the invariant.
LEMMA Inductive ==
  ASSUME "fast_answer" \notin Env, IInv, [Next]_vars
  PROVE  IInv'
<1>1. TypeOK'
  BY TypeInductive DEF IInv
<1>2. OneListener' /\ Unanswered' /\ Deserted' /\ AskerKept'
  <2>1. CASE UserStep \/ KeepaliveStep \/ UNCHANGED vars
    BY <2>1, Elsewhere, Untouched DEF IInv
  <2>2. CASE UIStep
    BY <2>2, Elsewhere, Untouched, ConnectKeeps, ListeningKeeps, RegisteredKeeps
       DEF UIStep, IInv
  <2>3. CASE ListenerStep
    BY <2>3, AnswerKeeps, EndKeeps DEF ListenerStep
  <2>4. CASE \E c \in DOMAIN conns :
               ServeRegister(c) \/ ServeClose(c) \/ HangUp(c) \/ Drop(c)
    BY <2>4, ServerKeeps
  <2> QED BY <2>1, <2>2, <2>3, <2>4 DEF Next, ServerStep
<1> QED BY <1>1, <1>2 DEF IInv

\* The invariant holds throughout, unless an answer overtakes login.
THEOREM Invariance ==
  ASSUME "fast_answer" \notin Env
  PROVE  Spec => []IInv
<1>1. Init => IInv
  BY Initially
<1>2. IInv /\ [Next]_vars => IInv'
  BY Inductive
<1> QED BY <1>1, <1>2, PTL DEF Spec

\* The variables keep their types.
THEOREM TypeCorrect ==
  ASSUME "fast_answer" \notin Env
  PROVE  Spec => []TypeOK
<1>1. IInv => TypeOK
  BY DEF IInv
<1> QED BY <1>1, Invariance, PTL

\* While the UI thread is in its loop, the one listener thread listens to the socket
\* in use, however often the user logs in and the server hangs up.
THEOREM ListenerFollowsSocket ==
  ASSUME "fast_answer" \notin Env
  PROVE  Spec => []ListensToSocket
<1>1. ASSUME IInv PROVE ListensToSocket
  <2>1. SUFFICES ASSUME ui = "loop", socket # 0
                 PROVE  /\ listening \subseteq {socket}
                        /\ conns[socket].stage # "closed" => listening = {socket}
    BY DEF ListensToSocket
  <2>2. listening \subseteq {socket}
    BY <1>1, <2>1 DEF IInv, OneListener
  <2>3. socket \in DOMAIN conns
    BY <1>1, <2>1, ConnsType DEF IInv
  <2>4. socket \in listening \/ conns[socket].stage = "closed"
    BY <1>1, <2>1, <2>3 DEF IInv, Deserted, Stage
  <2> QED BY <2>2, <2>4
<1> QED BY <1>1, Invariance, PTL

\* A success is reported in the name of the user who asked for it.
THEOREM SuccessIsOwn ==
  ASSUME "fast_answer" \notin Env
  PROVE  Spec => AnswerIsOwn
<1>1. IInv => \A c \in DOMAIN conns : Stage(c) = "granted" => userId = conns[c].user
  BY ConnsType DEF IInv, AskerKept, Unanswered
<1>2. IInv => [\A c \in DOMAIN conns :
                 (conns[c].stage = "granted" /\ conns'[c].stage = "answered")
                   => userId = conns[c].user]_vars
  BY <1>1 DEF Stage
<1> QED BY <1>2, Invariance, PTL DEF AnswerIsOwn

-----------------------------------------------------------------------------
(* Who is registered, and who is shown.                                     *)

\* The server has answered what the client sent on c, or has hung up.
Settled(c) == Stage(c) \in {"answered", "closed"}

Running == ui \in {"loop", "joining", "registering"}

\* A registration lasts from the server's answer until the server hangs up.
Membership ==
  \A c \in DOMAIN conns :
    /\ conns[c].member => Stage(c) \in {"granted", "answered"}
    /\ Stage(c) = "granted" => conns[c].member

\* Clicks of a user in no hurry, and answers, come one at a time.
OneAtATime ==
  Running =>
    /\ messageQueue # << >> =>
         /\ Len(messageQueue) = 1 /\ ui = "loop"
         /\ \A c \in DOMAIN conns : Settled(c)
    /\ ui = "joining" => \A c \in DOMAIN conns : c = socket \/ Settled(c)

\* Until somebody is shown, the clicks are those of a user who is offline.
ClicksOffline ==
  Running =>
    /\ loginWnd => useId = NoUser
    /\ messageQueue # << >> =>
         IF messageQueue[1].id = "LOGIN_SUCCESS"
         THEN messageQueue[1].user = userId /\ userId # NoUser
         ELSE useId = NoUser

\* Whoever is shown is the engine's user, and nothing is under way.
ShownIsSettled == (Running /\ useId # NoUser) => Quiet /\ loggedIn /\ userId = useId

\* The engine's user is the one of the socket in use, which is not hung up on, and
\* is registered once that is answered.
AskerIsHeard ==
  (ui = "loop" /\ userId # NoUser) =>
    /\ socket # 0 /\ conns[socket].user = userId
    /\ Stage(socket) \in {"asked", "granted", "refused", "answered"}
    /\ Stage(socket) = "answered" => conns[socket].member

ShownInv == Membership /\ OneAtATime /\ ClicksOffline /\ ShownIsSettled /\ AskerIsHeard

Success(i) == i \in DOMAIN messageQueue /\ messageQueue[i].id = "LOGIN_SUCCESS"

\* The start window names u, once the successes in the queue are taken.
WillShow(u) ==
  \/ useId = u /\ \A i \in DOMAIN messageQueue : ~Success(i)
  \/ \E i \in DOMAIN messageQueue :
       /\ Success(i) /\ messageQueue[i].user = u
       /\ \A j \in DOMAIN messageQueue : j > i => ~Success(j)

\* A granted registration that the listener thread has reported will be shown.
Reported ==
  (ui = "loop" /\ socket # 0 /\ Stage(socket) = "answered" /\ conns[socket].member)
    => WillShow(conns[socket].user)

RegisteredInv == Membership /\ Reported

-----------------------------------------------------------------------------
(* Registrations.                                                           *)

\* Connection c has moved, and is registered as given; no other connection is
\* touched.
MovedAs(c, to, member) ==
  /\ Moved(c, to)
  /\ \A d \in DOMAIN conns :
       conns'[d].member = IF d = c THEN member ELSE conns[d].member

\* An assignment to the stage leaves the registration.
LEMMA StageSetOnly ==
  ASSUME TypeOK, NEW c \in DOMAIN conns, NEW to \in Stages,
         conns' = [conns EXCEPT ![c].stage = to]
  PROVE  MovedAs(c, to, conns[c].member)
<1>1. c \in 1 .. socket /\ conns[c] \in Connections
  BY ConnsType
<1>2. [conns[c] EXCEPT !.stage = to] \in Connections
      /\ [conns[c] EXCEPT !.stage = to].member = conns[c].member
  BY <1>1 DEF Connections
<1>3. conns' = [conns EXCEPT ![c] = [conns[c] EXCEPT !.stage = to]]
  OBVIOUS
<1>4. \A d \in 1 .. socket :
        conns'[d] = IF d = c THEN [conns[c] EXCEPT !.stage = to] ELSE conns[d]
  BY <1>1, <1>2, <1>3, ConnsType, ExceptSeq DEF socket
<1> QED BY <1>1, <1>2, <1>4, ConnsType, StageSet DEF MovedAs

\* The server assigns both.
LEMMA ServesBoth ==
  ASSUME TypeOK, NEW c \in DOMAIN conns, NEW to \in Stages, NEW from,
         NEW member \in BOOLEAN, Serves(c, from, to, member)
  PROVE  MovedAs(c, to, member) /\ Stage(c) \in from
<1> DEFINE r == [conns[c] EXCEPT !.stage = to, !.member = member]
<1>1. c \in 1 .. socket /\ conns[c] \in Connections
  BY ConnsType
<1>2. r \in Connections /\ r.member = member
  BY <1>1 DEF Connections
<1>3. conns' = [conns EXCEPT ![c] = r]
  BY <1>1, ConnsType DEF Serves
<1> HIDE DEF r
<1>4. \A d \in 1 .. socket : conns'[d] = IF d = c THEN r ELSE conns[d]
  BY <1>1, <1>2, <1>3, ConnsType, ExceptSeq DEF socket
<1> QED BY <1>1, <1>2, <1>4, ConnsType, ServesMoves DEF MovedAs

\* The server registers with its answer, and forgets with its refusal or when it
\* hangs up; it hangs up on the socket in use only if the client asks for it or the
\* connection is lost.
LEMMA ServerRegisters ==
  ASSUME TypeOK, NEW c \in DOMAIN conns,
         ServeRegister(c) \/ ServeClose(c) \/ HangUp(c) \/ Drop(c)
  PROVE  \/ /\ MovedAs(c, "closed", FALSE)
            /\ \/ c < socket \/ "drop" \in Env \/ ui = "hanging_up"
         \/ /\ Stage(c) = "asked"
            /\ MovedAs(c, "granted", TRUE) \/ MovedAs(c, "refused", FALSE)
<1>1. {"closed", "granted", "refused"} \subseteq Stages /\ {TRUE, FALSE} \subseteq BOOLEAN
  BY DEF Stages
<1>2. ASSUME ServeRegister(c)
      PROVE  /\ Stage(c) = "asked"
             /\ MovedAs(c, "granted", TRUE) \/ MovedAs(c, "refused", FALSE)
  <2>1. Serves(c, {"asked"}, "granted", TRUE) \/ Serves(c, {"asked"}, "refused", FALSE)
    BY <1>2 DEF ServeRegister
  <2>2. ASSUME Serves(c, {"asked"}, "granted", TRUE)
        PROVE  MovedAs(c, "granted", TRUE) /\ Stage(c) \in {"asked"}
    BY <2>2, <1>1, ServesBoth
  <2>3. ASSUME Serves(c, {"asked"}, "refused", FALSE)
        PROVE  MovedAs(c, "refused", FALSE) /\ Stage(c) \in {"asked"}
    BY <2>3, <1>1, ServesBoth
  <2> QED BY <2>1, <2>2, <2>3
<1>3. ASSUME ServeClose(c) PROVE MovedAs(c, "closed", FALSE) /\ ui = "hanging_up"
  BY <1>1, <1>3, ServesBoth DEF ServeClose
<1>4. ASSUME HangUp(c) PROVE MovedAs(c, "closed", FALSE) /\ c < socket
  BY <1>1, <1>4, ServesBoth DEF HangUp
<1>5. ASSUME Drop(c) PROVE MovedAs(c, "closed", FALSE) /\ "drop" \in Env
  BY <1>1, <1>5, ServesBoth DEF Drop
<1> QED BY <1>2, <1>3, <1>4, <1>5

\* A listener thread that takes an answer leaves the registration.
LEMMA AnsweredOnly ==
  ASSUME TypeOK, NEW c, NEW stage, Answered(c, stage)
  PROVE  c \in DOMAIN conns /\ Stage(c) = stage
         /\ MovedAs(c, "answered", conns[c].member)
<1>1. c \in DOMAIN conns
  BY DEF TypeOK, Answered
<1> QED BY <1>1, StageSetOnly DEF Answered, Stages, Stage

\* REGISTER goes out on the newest connection.
LEMMA ListeningAsks ==
  ASSUME TypeOK, Unanswered, StartListening
  PROVE  /\ socket \in DOMAIN conns /\ Stage(socket) = "open"
         /\ MovedAs(socket, "asked", conns[socket].member)
<1>1. socket \in DOMAIN conns /\ Stage(socket) = "open"
  BY ConnsType DEF Unanswered, StartListening
<1>2. conns' = [conns EXCEPT ![socket].stage = "asked"]
  BY <1>1 DEF StartListening, Stage
<1> QED BY <1>1, <1>2, StageSetOnly DEF Stages

\* A new connection is nobody's yet.
LEMMA ConnAddedOpen ==
  ASSUME TypeOK, UpdateIsLogin, ~UNCHANGED <<ui, conns, fault>>
  PROVE  /\ ui' = "joining" /\ socket' = socket + 1 /\ DOMAIN conns' = 1 .. socket + 1
         /\ \A d \in DOMAIN conns : conns'[d] = conns[d]
         /\ conns'[socket + 1].stage = "open" /\ ~conns'[socket + 1].member
<1>1. Head(messageQueue).user \in Users
  BY TakesType DEF UpdateIsLogin, Takes, Messages
<1> DEFINE r == [user |-> Head(messageQueue).user, stage |-> "open", member |-> FALSE]
<1>2. r \in Connections /\ ~r.member
  BY <1>1 DEF Connections, Stages
<1>3. conns' = Append(conns, r)
  BY DEF UpdateIsLogin
<1> HIDE DEF r
<1>4. conns'[socket + 1] = r
  BY <1>2, <1>3, ConnsType, AppendProperties DEF socket
<1> QED BY <1>2, <1>4, IsLoginConnects

\* The connections that a step may touch, and what it makes of them.
ConnStep ==
  \/ UNCHANGED conns
  \/ /\ socket' = socket + 1 /\ DOMAIN conns' = 1 .. socket + 1
     /\ \A d \in DOMAIN conns : conns'[d] = conns[d]
     /\ conns'[socket + 1].stage = "open" /\ ~conns'[socket + 1].member
  \/ \E c \in DOMAIN conns :
       \/ MovedAs(c, "closed", FALSE)
       \/ MovedAs(c, "granted", TRUE) \/ MovedAs(c, "refused", FALSE)
       \/ MovedAs(c, "asked", conns[c].member) /\ Stage(c) = "open"
       \/ /\ MovedAs(c, "answered", conns[c].member)
          /\ Stage(c) \in {"granted", "refused"}

\* Every step is one of these to the connections.
LEMMA ConnSteps ==
  ASSUME IInv, [Next]_vars
  PROVE  ConnStep
<1>1. CASE UserStep \/ KeepaliveStep \/ UNCHANGED vars
  BY <1>1, Elsewhere DEF ConnStep
<1>2. CASE UIStep
  <2>1. CASE UpdateIsLogin
    <3>1. CASE UNCHANGED <<ui, conns, fault>>
      BY <3>1 DEF ConnStep
    <3>2. CASE ~UNCHANGED <<ui, conns, fault>>
      BY <2>1, <3>2, ConnAddedOpen DEF ConnStep, IInv
    <3> QED BY <3>1, <3>2
  <2>2. CASE StartListening
    BY <2>2, ListeningAsks DEF IInv, ConnStep
  <2>3. CASE Registered
    BY <2>3 DEF Registered, ConnStep
  <2> QED BY <1>2, <2>1, <2>2, <2>3, Elsewhere DEF UIStep, ConnStep
<1>3. CASE ListenerStep
  <2>1. PICK c \in listening : onOKRegister(c) \/ onUnauthorizedRegister(c) \/ ListenerEnds(c)
    BY <1>3 DEF ListenerStep
  <2>2. CASE onOKRegister(c)
    <3>1. /\ c \in DOMAIN conns /\ Stage(c) = "granted"
          /\ MovedAs(c, "answered", conns[c].member)
      BY <2>2, AnsweredOnly DEF onOKRegister, IInv
    <3> QED BY <3>1 DEF ConnStep
  <2>3. CASE onUnauthorizedRegister(c)
    <3>1. /\ c \in DOMAIN conns /\ Stage(c) = "refused"
          /\ MovedAs(c, "answered", conns[c].member)
      BY <2>3, AnsweredOnly DEF onUnauthorizedRegister, IInv
    <3> QED BY <3>1 DEF ConnStep
  <2>4. CASE ListenerEnds(c)
    BY <2>4 DEF ListenerEnds, ConnStep
  <2> QED BY <2>1, <2>2, <2>3, <2>4
<1>4. CASE \E c \in DOMAIN conns :
             ServeRegister(c) \/ ServeClose(c) \/ HangUp(c) \/ Drop(c)
  BY <1>4, ServerRegisters DEF IInv, ConnStep
<1> QED BY <1>1, <1>2, <1>3, <1>4 DEF Next, ServerStep

\* Registrations last from answer to hanging up.
LEMMA MembershipKept ==
  ASSUME IInv, Membership, [Next]_vars
  PROVE  Membership'
<1> USE DEF Membership, Stage
<1>1. ConnStep
  BY ConnSteps
<1>2. CASE UNCHANGED conns
  BY <1>2
<1>3. CASE /\ socket' = socket + 1 /\ DOMAIN conns' = 1 .. socket + 1
           /\ \A d \in DOMAIN conns : conns'[d] = conns[d]
           /\ conns'[socket + 1].stage = "open" /\ ~conns'[socket + 1].member
  BY <1>3, ConnsType DEF IInv
<1>4. ASSUME NEW c \in DOMAIN conns,
             \/ MovedAs(c, "closed", FALSE)
             \/ MovedAs(c, "granted", TRUE) \/ MovedAs(c, "refused", FALSE)
             \/ MovedAs(c, "asked", conns[c].member) /\ Stage(c) = "open"
             \/ /\ MovedAs(c, "answered", conns[c].member)
                /\ Stage(c) \in {"granted", "refused"}
      PROVE  Membership'
  BY <1>4 DEF MovedAs, Moved
<1> QED BY <1>1, <1>2, <1>3, <1>4 DEF ConnStep

-----------------------------------------------------------------------------
(* The successes in the queue.                                              *)

\* What Takes leaves of the queue.
LEMMA TakesRest ==
  ASSUME TypeOK, NEW id, Takes(id)
  PROVE  /\ Len(messageQueue) \in Nat \ {0} /\ DOMAIN messageQueue = 1 .. Len(messageQueue)
         /\ Len(messageQueue') = Len(messageQueue) - 1
         /\ DOMAIN messageQueue' = 1 .. Len(messageQueue) - 1
         /\ \A i \in DOMAIN messageQueue' : messageQueue'[i] = messageQueue[i + 1]
         /\ messageQueue[1] = Head(messageQueue) /\ messageQueue[1].id = id
         /\ messageQueue[1] \in Messages
<1>1. messageQueue \in Seq(Messages) /\ messageQueue # << >>
  BY DEF TypeOK, Takes
<1>2. messageQueue' = Tail(messageQueue) /\ Head(messageQueue).id = id
  BY DEF Takes
<1> QED BY <1>1, <1>2, HeadTailProperties, LenProperties, ElementOfSeq

\* What a post makes of it.
LEMMA PostsMore ==
  ASSUME TypeOK, NEW m \in Messages, messageQueue' = Append(messageQueue, m)
  PROVE  /\ Len(messageQueue) \in Nat /\ DOMAIN messageQueue = 1 .. Len(messageQueue)
         /\ Len(messageQueue') = Len(messageQueue) + 1
         /\ DOMAIN messageQueue' = 1 .. Len(messageQueue) + 1
         /\ \A i \in DOMAIN messageQueue : messageQueue'[i] = messageQueue[i]
         /\ messageQueue'[Len(messageQueue) + 1] = m
<1>1. messageQueue \in Seq(Messages)
  BY DEF TypeOK
<1>2. /\ messageQueue' \in Seq(Messages)
      /\ Len(messageQueue') = Len(messageQueue) + 1
      /\ \A i \in 1 .. Len(messageQueue) : messageQueue'[i] = messageQueue[i]
      /\ messageQueue'[Len(messageQueue) + 1] = m
  BY <1>1, AppendProperties
<1> QED BY <1>1, <1>2, LenProperties

\* Whoever will be shown still will be when a message is taken, and is when it is the
\* last success.
LEMMA WillShowTaken ==
  ASSUME TypeOK, NEW id, Takes(id), NEW u, WillShow(u),
         useId' = IF id = "LOGIN_SUCCESS" THEN Head(messageQueue).user ELSE useId
  PROVE  WillShow(u)'
<1> DEFINE n == Len(messageQueue)
<1>1. /\ n \in Nat \ {0} /\ DOMAIN messageQueue = 1 .. n /\ DOMAIN messageQueue' = 1 .. n - 1
      /\ \A i \in 1 .. n - 1 : messageQueue'[i] = messageQueue[i + 1]
      /\ messageQueue[1] = Head(messageQueue) /\ messageQueue[1].id = id
  BY TakesRest
<1> HIDE DEF n
<1>2. CASE useId = u /\ \A i \in DOMAIN messageQueue : ~Success(i)
  BY <1>1, <1>2 DEF WillShow, Success
<1>3. ASSUME NEW i \in DOMAIN messageQueue,
             Success(i) /\ messageQueue[i].user = u
             /\ \A j \in DOMAIN messageQueue : j > i => ~Success(j)
      PROVE  WillShow(u)'
  <2>1. ASSUME NEW j \in DOMAIN messageQueue', j + 1 > i PROVE ~Success(j)'
    <3>1. j + 1 \in DOMAIN messageQueue /\ messageQueue'[j] = messageQueue[j + 1]
      BY <1>1
    <3> QED BY <1>3, <2>1, <3>1 DEF Success
  <2>2. CASE i = 1
    <3>1. useId' = u
      BY <1>1, <1>3, <2>2 DEF Success
    <3>2. \A j \in DOMAIN messageQueue' : ~Success(j)'
      BY <1>1, <2>1, <2>2
    <3> QED BY <3>1, <3>2 DEF WillShow
  <2>3. CASE i # 1
    <3>1. /\ i - 1 \in DOMAIN messageQueue' /\ messageQueue'[i - 1] = messageQueue[i]
          /\ \A j \in DOMAIN messageQueue' : j > i - 1 => ~Success(j)'
      BY <1>1, <1>3, <2>1, <2>3
    <3> QED BY <1>3, <3>1 DEF WillShow, Success
  <2> QED BY <2>2, <2>3
<1> QED BY <1>2, <1>3 DEF WillShow

\* A click leaves whoever will be shown.
LEMMA WillShowPosted ==
  ASSUME TypeOK, NEW m \in Messages, messageQueue' = Append(messageQueue, m),
         m.id # "LOGIN_SUCCESS", useId' = useId, NEW u, WillShow(u)
  PROVE  WillShow(u)'
<1>1. /\ Len(messageQueue) \in Nat /\ DOMAIN messageQueue = 1 .. Len(messageQueue)
      /\ DOMAIN messageQueue' = 1 .. Len(messageQueue) + 1
      /\ \A i \in DOMAIN messageQueue : messageQueue'[i] = messageQueue[i]
      /\ messageQueue'[Len(messageQueue) + 1] = m
  BY PostsMore
<1>2. \A j \in DOMAIN messageQueue' :
        Success(j)' => j \in DOMAIN messageQueue /\ Success(j)
  BY <1>1 DEF Success
<1>3. \A j \in DOMAIN messageQueue : Success(j) => Success(j)'
  BY <1>1 DEF Success
<1> QED BY <1>1, <1>2, <1>3 DEF WillShow

\* A success that is posted is the last.
LEMMA WillShowLast ==
  ASSUME TypeOK, NEW u \in Users \union {NoUser},
         messageQueue' = Append(messageQueue, Msg("LOGIN_SUCCESS", u))
  PROVE  WillShow(u)'
<1>1. Msg("LOGIN_SUCCESS", u) \in Messages
  BY DEF Msg, Messages
<1>2. /\ Len(messageQueue) \in Nat
      /\ DOMAIN messageQueue' = 1 .. Len(messageQueue) + 1
      /\ messageQueue'[Len(messageQueue) + 1] = Msg("LOGIN_SUCCESS", u)
  BY <1>1, PostsMore
<1> QED BY <1>2 DEF WillShow, Success, Msg

-----------------------------------------------------------------------------
(* Whoever is registered is shown.                                          *)

\* In the loop the connection that gets an answer is the socket in use.
LEMMA AnswerOnSocket ==
  ASSUME IInv, NEW c \in listening, ui # "joining"
  PROVE  c = socket
BY DEF IInv, OneListener

\* A step that leaves the socket in use, the queue and the window alone.
LEMMA ReportedSame ==
  ASSUME Reported, UNCHANGED <<messageQueue, useId, conns>>, ui' = "loop" => ui = "loop"
  PROVE  Reported'
<1>1. socket' = socket
  BY DEF socket
<1> QED BY <1>1 DEF Reported, WillShow, Success, Stage

\* A granted registration is shown as soon as the queue is empty, for a user who does
\* not log out.
LEMMA ReportedKept ==
  ASSUME IInv, Membership, Reported, "logout" \notin Env, [Next]_vars
  PROVE  Reported'
<1> USE DEF windows, threads
<1>1. SUFFICES ASSUME ui' = "loop" PROVE Reported'
  BY DEF Reported
<1>2. TypeOK
  BY DEF IInv
<1>3. CASE UserStep
  <2>1. ASSUME NEW m \in Messages, Posts(m), m.id # "LOGIN_SUCCESS", useId' = useId
        PROVE  Reported'
    <3>1. messageQueue' = Append(messageQueue, m) /\ UNCHANGED <<conns, ui>>
      BY <2>1 DEF Posts
    <3>2. \A u : WillShow(u) => WillShow(u)'
      BY <1>2, <2>1, <3>1, WillShowPosted
    <3> QED BY <3>1, <3>2 DEF Reported, Stage, socket
  <2>2. CASE ClickStartLogin
    <3>1. Msg("START_LOGIN", NoUser) \in Messages /\ Msg("START_LOGIN", NoUser).id # "LOGIN_SUCCESS"
      BY DEF Msg, Messages
    <3> QED BY <2>1, <2>2, <3>1 DEF ClickStartLogin
  <2>3. ASSUME NEW u \in Users, ClickLogin(u) PROVE Reported'
    <3>1. Msg("IS_LOGIN", u) \in Messages /\ Msg("IS_LOGIN", u).id # "LOGIN_SUCCESS"
      BY DEF Msg, Messages
    <3> QED BY <2>1, <2>3, <3>1 DEF ClickLogin
  <2> QED BY <1>1, <1>3, <2>2, <2>3 DEF UserStep, ClickLogout, Quit
<1>4. CASE UIStep
  <2>1. ASSUME NEW id, Takes(id), UNCHANGED <<conns, ui>>,
               useId' = IF id = "LOGIN_SUCCESS" THEN Head(messageQueue).user ELSE useId
        PROVE  Reported'
    <3>1. \A u : WillShow(u) => WillShow(u)'
      BY <1>2, <2>1, WillShowTaken
    <3> QED BY <2>1, <3>1 DEF Reported, Stage, socket
  <2>2. CASE UpdateStartLogin
    BY <2>1, <2>2 DEF UpdateStartLogin
  <2>3. CASE UpdateStartLogout
    BY <2>1, <2>3 DEF UpdateStartLogout
  <2>4. CASE UpdateLoginSuccess
    BY <2>1, <2>4 DEF UpdateLoginSuccess
  <2>5. CASE UpdateIsLogin
    BY <1>1, <2>1, <2>5 DEF UpdateIsLogin
  <2>6. CASE Registered
    BY <2>6 DEF Registered, Reported, Unanswered, IInv, Stage, socket
  <2> QED BY <1>1, <1>4, <2>2, <2>3, <2>4, <2>5, <2>6
          DEF UIStep, StartListening, CloseSocket, JoinListener
<1>5. ASSUME NEW c \in listening, onOKRegister(c) PROVE Reported'
  <2>1. ui = "loop" /\ messageQueue' = Append(messageQueue, Msg("LOGIN_SUCCESS", userId))
    BY <1>1, <1>5 DEF onOKRegister, Calls
  <2>2. /\ c = socket /\ c \in DOMAIN conns /\ Stage(c) = "granted"
        /\ MovedAs(c, "answered", conns[c].member)
    BY <1>2, <1>5, <2>1, AnswerOnSocket, AnsweredOnly DEF onOKRegister
  <2>3. userId = conns[c].user
    BY <2>1, <2>2 DEF IInv, AskerKept
  <2>4. PICK u \in Users \union {NoUser} : u = userId
    BY <1>2 DEF TypeOK
  <2>5. WillShow(u)'
    BY <1>2, <2>1, <2>4, WillShowLast
  <2>6. socket' = socket /\ conns'[socket].user = u
    <3>1. socket' = socket /\ conns'[c].user = conns[c].user
      BY <2>2 DEF MovedAs, Moved
    <3> QED BY <2>2, <2>3, <2>4, <3>1
  <2> QED BY <2>5, <2>6 DEF Reported
<1>6. ASSUME NEW c \in listening, onUnauthorizedRegister(c) PROVE Reported'
  <2>1. ui = "loop"
    BY <1>1, <1>6 DEF onUnauthorizedRegister
  <2>2. /\ c = socket /\ c \in DOMAIN conns /\ Stage(c) = "refused"
        /\ MovedAs(c, "answered", conns[c].member)
    BY <1>2, <1>6, <2>1, AnswerOnSocket, AnsweredOnly DEF onUnauthorizedRegister
  <2>3. ~conns'[socket'].member
    BY <2>2 DEF Membership, MovedAs, Moved
  <2> QED BY <2>3 DEF Reported
<1>7. ASSUME NEW c \in listening, ListenerEnds(c) PROVE Reported'
  BY <1>7, ReportedSame DEF ListenerEnds
<1>8. CASE KeepaliveStep
  BY <1>8, ReportedSame DEF KeepaliveStep, Wakes, Sleeps
<1>9. ASSUME NEW c \in DOMAIN conns, ServeRegister(c) \/ ServeClose(c) \/ HangUp(c) \/ Drop(c)
      PROVE  Reported'
  <2>1. UNCHANGED <<messageQueue, useId, ui>>
    BY <1>9 DEF ServeRegister, ServeClose, HangUp, Drop, Serves
  <2>2. PICK to \in {"closed", "granted", "refused"} :
                \E member : MovedAs(c, to, member)
    BY <1>2, <1>9, ServerRegisters
  <2>3. socket' = socket /\ (socket # 0 => socket \in DOMAIN conns)
    BY <1>2, <2>2, ConnsType DEF MovedAs, Moved
  <2>4. CASE c = socket
    BY <2>2, <2>3, <2>4 DEF Reported, MovedAs, Moved, Stage
  <2>5. CASE c # socket
    <3>1. socket # 0 => /\ conns'[socket].user = conns[socket].user
                        /\ conns'[socket].stage = conns[socket].stage
                        /\ conns'[socket].member = conns[socket].member
      BY <2>2, <2>3, <2>5 DEF MovedAs, Moved, Stage
    <3>2. \A u : WillShow(u) => WillShow(u)'
      BY <2>1 DEF WillShow, Success
    <3> QED BY <2>1, <2>3, <3>1, <3>2 DEF Reported, Stage
  <2> QED BY <2>4, <2>5
<1>10. CASE UNCHANGED vars
  BY <1>10, ReportedSame DEF vars
<1> QED BY <1>3, <1>4, <1>5, <1>6, <1>7, <1>8, <1>9, <1>10 DEF Next, ListenerStep, ServerStep

\* RegisteredIsShown says what Membership and Reported come to when all is quiet.
LEMMA RegisteredThenShown ==
  ASSUME IInv, Membership, Reported
  PROVE  RegisteredIsShown
<1>1. SUFFICES ASSUME Quiet, NEW u \in Users, Registers(u) PROVE useId = u
  BY DEF RegisteredIsShown
<1>2. PICK c \in DOMAIN conns : conns[c].member /\ conns[c].user = u
  BY <1>1 DEF Registers
<1>3. ui = "loop" /\ messageQueue = << >> /\ Stage(c) = "answered"
  BY <1>1, <1>2 DEF Quiet, Membership, Stage
<1>4. c \in listening
  BY <1>3 DEF IInv, Deserted
<1>5. c = socket /\ socket # 0
  BY <1>2, <1>3, <1>4, AnswerOnSocket, ConnsType DEF IInv
<1>6. WillShow(u)
  BY <1>2, <1>3, <1>5 DEF Reported
<1>7. DOMAIN messageQueue = {}
  BY <1>3
<1> QED BY <1>6, <1>7 DEF WillShow

\* When all is quiet, whoever the server has registered is named in the start window:
\* whatever the server and the keepalive thread do, for a user who does not log out.
\* It says so of users who log in again and again without waiting for an answer, under
\* names of their choice, and of connections lost in between.
THEOREM RegisteredAreShown ==
  ASSUME "logout" \notin Env, "fast_answer" \notin Env
  PROVE  Spec => []RegisteredIsShown
<1>1. Init => IInv /\ Membership /\ Reported
  <2>1. ASSUME Init PROVE DOMAIN conns = {} /\ socket = 0
    BY <2>1 DEF Init, socket
  <2> QED BY <2>1, Initially DEF Membership, Reported
<1>2. IInv /\ Membership /\ Reported /\ [Next]_vars => (IInv /\ Membership /\ Reported)'
  BY Inductive, MembershipKept, ReportedKept
<1>3. IInv /\ Membership /\ Reported => RegisteredIsShown
  BY RegisteredThenShown
<1> QED BY <1>1, <1>2, <1>3, PTL DEF Spec

-----------------------------------------------------------------------------
(* Whoever is shown is registered.                                          *)

\* What a user in no hurry posts is alone in the queue.
LEMMA FirstPost ==
  ASSUME TypeOK, NEW m \in Messages, messageQueue = << >>,
         messageQueue' = Append(messageQueue, m)
  PROVE  messageQueue' # << >> /\ Len(messageQueue') = 1 /\ messageQueue'[1] = m
<1>1. Len(messageQueue) = 0
  OBVIOUS
<1>2. messageQueue' \in Seq(Messages) /\ Len(messageQueue') = 1 /\ messageQueue'[1] = m
  BY <1>1, PostsMore, PostsType
<1> QED BY <1>2, EmptySeq

\* What is taken from a queue of one leaves none.
LEMMA LastTaken ==
  ASSUME TypeOK, NEW id, Takes(id), Len(messageQueue) = 1
  PROVE  messageQueue' = << >>
<1>1. messageQueue' \in Seq(Messages) /\ Len(messageQueue') = 0
  BY TakesType, TakesRest
<1> QED BY <1>1, EmptySeq

\* Clicks: the user in no hurry clicks when all is quiet.
LEMMA ShownUser ==
  ASSUME IInv, ShownInv, "again" \notin Env, UserStep
  PROVE  ShownInv'
<1> USE DEF windows, threads
<1>1. TypeOK /\ OneAtATime /\ ClicksOffline /\ ShownIsSettled /\ AskerIsHeard
  BY DEF IInv, ShownInv
<1>2. UNCHANGED conns /\ socket' = socket
  BY DEF UserStep, ClickStartLogin, ClickLogout, ClickLogin, Quit, Posts, socket
<1>3. Membership'
  BY <1>2 DEF ShownInv, Membership, Stage
<1>4. CASE Quit
  <2>1. ~Running' /\ ui' # "loop"
    BY <1>4 DEF Quit, Running
  <2> QED BY <1>3, <2>1 DEF ShownInv, OneAtATime, ClicksOffline, ShownIsSettled, AskerIsHeard
<1>5. ASSUME NEW m \in Messages, Posts(m), m.id # "LOGIN_SUCCESS", Quiet, useId' = NoUser
      PROVE  ShownInv'
  <2>1. /\ messageQueue' = Append(messageQueue, m) /\ messageQueue = << >> /\ ui = "loop"
        /\ UNCHANGED <<loginWnd, ui, userId>>
    BY <1>5 DEF Posts, Quiet
  <2>2. messageQueue' # << >> /\ Len(messageQueue') = 1 /\ messageQueue'[1] = m
    BY <1>1, <2>1, FirstPost
  <2>3. OneAtATime'
    BY <1>2, <1>5, <2>1, <2>2 DEF OneAtATime, Settled, Stage, Quiet
  <2>4. ClicksOffline'
    BY <1>5, <2>2 DEF ClicksOffline
  <2>5. ShownIsSettled'
    BY <1>5 DEF ShownIsSettled
  <2>6. AskerIsHeard'
    BY <1>1, <1>2, <2>1 DEF AskerIsHeard, Stage
  <2> QED BY <1>3, <2>3, <2>4, <2>5, <2>6 DEF ShownInv
<1>6. ASSUME ClickStartLogin, Quiet PROVE ShownInv'
  <2>1. Msg("START_LOGIN", NoUser) \in Messages /\ Msg("START_LOGIN", NoUser).id # "LOGIN_SUCCESS"
    BY DEF Msg, Messages
  <2> QED BY <1>5, <1>6, <2>1 DEF ClickStartLogin
<1>7. ASSUME ClickLogout, Quiet PROVE ShownInv'
  <2>1. Msg("START_LOGOUT", NoUser) \in Messages /\ Msg("START_LOGOUT", NoUser).id # "LOGIN_SUCCESS"
    BY DEF Msg, Messages
  <2> QED BY <1>5, <1>7, <2>1 DEF ClickLogout
<1>8. ASSUME NEW u \in Users, ClickLogin(u), Quiet PROVE ShownInv'
  <2>1. Msg("IS_LOGIN", u) \in Messages /\ Msg("IS_LOGIN", u).id # "LOGIN_SUCCESS"
    BY DEF Msg, Messages
  <2>2. useId' = NoUser
    BY <1>1, <1>8 DEF ClickLogin, ClicksOffline, Running, Posts
  <2> QED BY <1>5, <1>8, <2>1, <2>2 DEF ClickLogin
<1> QED BY <1>4, <1>6, <1>7, <1>8 DEF UserStep, Waits

\* update takes the one message there is.
LEMMA ShownUpdate ==
  ASSUME IInv, ShownInv, UpdateStartLogin \/ UpdateStartLogout \/ UpdateLoginSuccess
  PROVE  ShownInv'
<1> USE DEF windows, threads
<1>1. TypeOK /\ OneAtATime /\ ClicksOffline /\ ShownIsSettled /\ AskerIsHeard
  BY DEF IInv, ShownInv
<1>2. UNCHANGED <<conns, ui, userId>> /\ socket' = socket
  BY DEF UpdateStartLogin, UpdateStartLogout, UpdateLoginSuccess, socket
<1>3. PICK id \in {"START_LOGIN", "START_LOGOUT", "LOGIN_SUCCESS"} : Takes(id)
  BY DEF UpdateStartLogin, UpdateStartLogout, UpdateLoginSuccess
<1>4. /\ messageQueue # << >> /\ ui = "loop"
      /\ messageQueue[1] = Head(messageQueue) /\ messageQueue[1].id = id
  BY <1>1, <1>3, TakesRest DEF Takes
<1>5. Len(messageQueue) = 1 /\ \A c \in DOMAIN conns : Settled(c)
  BY <1>1, <1>4 DEF OneAtATime, Running
<1>6. messageQueue' = << >>
  BY <1>1, <1>3, <1>5, LastTaken
<1>7. Membership' /\ AskerIsHeard'
  BY <1>1, <1>2 DEF ShownInv, Membership, AskerIsHeard, Stage
<1>8. OneAtATime'
  BY <1>2, <1>4, <1>6 DEF OneAtATime
<1>9. Quiet'
  BY <1>2, <1>4, <1>5, <1>6 DEF Quiet, Settled, Stage
<1>10. CASE UpdateLoginSuccess
  <2>1. loginWnd' = FALSE /\ useId' = userId /\ loggedIn' = TRUE
    <3>1. id = "LOGIN_SUCCESS"
      BY <1>3, <1>10 DEF UpdateLoginSuccess, Takes
    <3>2. messageQueue[1].user = userId
      BY <1>1, <1>4, <3>1 DEF ClicksOffline, Running
    <3> QED BY <1>4, <1>10, <3>2 DEF UpdateLoginSuccess
  <2> QED BY <1>2, <1>6, <1>7, <1>8, <1>9, <2>1 DEF ShownInv, ClicksOffline, ShownIsSettled
<1>11. CASE UpdateStartLogin \/ UpdateStartLogout
  <2>1. useId = NoUser /\ useId' = useId
    <3>1. id # "LOGIN_SUCCESS"
      BY <1>3, <1>11 DEF UpdateStartLogin, UpdateStartLogout, Takes
    <3> QED BY <1>1, <1>4, <1>11, <3>1
            DEF ClicksOffline, Running, UpdateStartLogin, UpdateStartLogout
  <2> QED BY <1>6, <1>7, <1>8, <2>1 DEF ShownInv, ClicksOffline, ShownIsSettled
<1> QED BY <1>10, <1>11

\* connect: nobody is shown.
LEMMA ShownConnect ==
  ASSUME IInv, ShownInv, UpdateIsLogin
  PROVE  ShownInv'
<1> USE DEF windows, threads
<1>1. TypeOK /\ OneAtATime /\ ClicksOffline /\ ShownIsSettled /\ AskerIsHeard
  BY DEF IInv, ShownInv
<1>2. Takes("IS_LOGIN") /\ ui = "loop" /\ UNCHANGED <<useId, userId, loginWnd, loggedIn>>
  BY DEF UpdateIsLogin, Takes
<1>3. messageQueue # << >> /\ messageQueue[1].id # "LOGIN_SUCCESS"
  BY <1>1, <1>2, TakesRest DEF Takes
<1>4. /\ Len(messageQueue) = 1 /\ useId = NoUser
      /\ \A c \in DOMAIN conns : Settled(c)
  BY <1>1, <1>2, <1>3 DEF OneAtATime, ClicksOffline, Running
<1>5. messageQueue' = << >>
  BY <1>1, <1>2, <1>4, LastTaken
<1>6. ClicksOffline' /\ ShownIsSettled'
  BY <1>2, <1>4, <1>5 DEF ClicksOffline, ShownIsSettled
<1>7. CASE UNCHANGED <<ui, conns, fault>>
  <2>1. Membership' /\ AskerIsHeard'
    BY <1>1, <1>2, <1>7 DEF ShownInv, Membership, AskerIsHeard, Stage, socket
  <2>2. OneAtATime'
    BY <1>2, <1>5, <1>7 DEF OneAtATime
  <2> QED BY <1>6, <2>1, <2>2 DEF ShownInv
<1>8. CASE ~UNCHANGED <<ui, conns, fault>>
  <2>1. /\ ui' = "joining" /\ socket' = socket + 1 /\ socket \in Nat
        /\ DOMAIN conns' = 1 .. socket + 1 /\ DOMAIN conns = 1 .. socket
        /\ \A d \in DOMAIN conns : conns'[d] = conns[d]
        /\ conns'[socket + 1].stage = "open" /\ ~conns'[socket + 1].member
    BY <1>1, <1>8, ConnAddedOpen, ConnsType
  <2>2. Membership'
    BY <2>1 DEF ShownInv, Membership, Stage
  <2>3. OneAtATime'
    BY <1>4, <1>5, <2>1 DEF OneAtATime, Settled, Stage
  <2>4. AskerIsHeard'
    BY <2>1 DEF AskerIsHeard
  <2> QED BY <1>6, <2>2, <2>3, <2>4 DEF ShownInv
<1> QED BY <1>7, <1>8

\* login: the user is the one of the connection made.
LEMMA ShownLogin ==
  ASSUME IInv, ShownInv, StartListening \/ Registered, Membership'
  PROVE  ShownInv'
<1> USE DEF windows, threads
<1>1. TypeOK /\ OneAtATime /\ ClicksOffline /\ ShownIsSettled /\ Unanswered
  BY DEF IInv, ShownInv
<1>2. /\ ui \in {"joining", "registering"} /\ UNCHANGED <<messageQueue, useId, loginWnd, loggedIn>>
      /\ ui' \in {"registering", "loop"}
  BY DEF StartListening, Registered
<1>3. messageQueue = << >> /\ useId = NoUser
  BY <1>1, <1>2 DEF OneAtATime, ShownIsSettled, Running, Quiet
<1>4. OneAtATime' /\ ClicksOffline' /\ ShownIsSettled'
  BY <1>2, <1>3 DEF OneAtATime, ClicksOffline, ShownIsSettled
<1>5. AskerIsHeard'
  <2>1. CASE StartListening
    BY <2>1 DEF StartListening, AskerIsHeard
  <2>2. CASE Registered
    BY <1>1, <2>2 DEF Registered, AskerIsHeard, Unanswered, Stage, socket
  <2> QED BY <2>1, <2>2
<1> QED BY <1>4, <1>5 DEF ShownInv

\* The steps that are about threads or about the end of the program.
LEMMA ShownElsewhere ==
  ASSUME ShownInv, UNCHANGED <<conns, messageQueue, userId, useId, loginWnd, loggedIn>>,
         ui' = ui \/ ui' \in {"hanging_up", "over"}
  PROVE  ShownInv'
<1>1. socket' = socket
  BY DEF socket
<1>2. Membership'
  BY DEF ShownInv, Membership, Stage
<1>3. CASE ui' = ui
  <2>1. OneAtATime' /\ ClicksOffline' /\ AskerIsHeard'
    BY <1>1, <1>3 DEF ShownInv, OneAtATime, ClicksOffline, AskerIsHeard, Running, Settled, Stage
  <2>2. ShownIsSettled'
    BY <1>3 DEF ShownInv, ShownIsSettled, Running, Quiet
  <2> QED BY <1>2, <2>1, <2>2 DEF ShownInv
<1>4. CASE ui' \in {"hanging_up", "over"}
  BY <1>2, <1>4 DEF ShownInv, OneAtATime, ClicksOffline, ShownIsSettled, AskerIsHeard, Running
<1> QED BY <1>3, <1>4

\* An answer finds the queue empty and nobody shown, for the user asks only when all
\* is quiet, and it is the answer to the engine's user.
LEMMA ShownAnswer ==
  ASSUME IInv, ShownInv, Membership', NEW c \in listening,
         onOKRegister(c) \/ onUnauthorizedRegister(c)
  PROVE  ShownInv'
<1> USE DEF windows, threads
<1>1. TypeOK /\ OneAtATime /\ ClicksOffline /\ ShownIsSettled /\ AskerIsHeard /\ Membership
  BY DEF IInv, ShownInv
<1>2. UNCHANGED <<ui, useId, loginWnd, loggedIn>>
  BY DEF onOKRegister, onUnauthorizedRegister
<1>3. PICK stage \in {"granted", "refused"} :
        /\ c \in DOMAIN conns /\ Stage(c) = stage
        /\ MovedAs(c, "answered", conns[c].member)
  <2>1. CASE onOKRegister(c)
    BY <1>1, <2>1, AnsweredOnly DEF onOKRegister
  <2>2. CASE onUnauthorizedRegister(c)
    BY <1>1, <2>2, AnsweredOnly DEF onUnauthorizedRegister
  <2> QED BY <2>1, <2>2
<1>4. ~Settled(c) /\ ~Quiet /\ (Running => useId = NoUser)
  BY <1>1, <1>3 DEF Settled, Quiet, Stage, ShownIsSettled
<1>5. CASE ~Running
  BY <1>2, <1>5 DEF ShownInv, OneAtATime, ClicksOffline, ShownIsSettled, AskerIsHeard, Running
<1>6. CASE ui = "joining"
  <2>1. c # socket
    BY <1>3, <1>6 DEF IInv, Unanswered
  <2> QED BY <1>1, <1>3, <1>4, <1>6, <2>1 DEF OneAtATime, Running
<1>7. CASE ui \in {"loop", "registering"}
  <2>1. c = socket /\ ui = "loop" /\ socket # 0
    <3>1. c = socket
      BY <1>7, AnswerOnSocket
    <3> QED BY <1>1, <1>3, <1>7, <3>1, ConnsType DEF IInv, Unanswered
  <2>2. messageQueue = << >> /\ useId = NoUser /\ useId' = NoUser
    BY <1>1, <1>2, <1>3, <1>4, <2>1 DEF OneAtATime, Running
  <2>3. \A d \in DOMAIN conns' : conns'[d].stage \in {"answered", "closed"}
    BY <1>3, <2>1 DEF MovedAs, Moved, IInv, Deserted, OneListener
  <2>4. /\ socket' = socket /\ conns'[c].user = conns[c].user
        /\ conns'[c].stage = "answered" /\ conns'[c].member = conns[c].member
    BY <1>3 DEF MovedAs, Moved
  <2>5. ShownIsSettled'
    BY <2>2 DEF ShownIsSettled
  <2>6. CASE onOKRegister(c)
    <3>1. /\ messageQueue' = Append(messageQueue, Msg("LOGIN_SUCCESS", userId))
          /\ userId' = userId
      BY <2>1, <2>6 DEF onOKRegister, Calls
    <3>2. Stage(c) = "granted" /\ userId = conns[c].user /\ conns[c].member
      <4>1. Stage(c) = "granted"
        BY <2>6 DEF onOKRegister, Answered, Stage
      <4>2. userId = conns[c].user
        BY <1>3, <2>1, <4>1 DEF IInv, AskerKept
      <4> QED BY <1>1, <1>3, <4>1, <4>2 DEF Membership
    <3>3. userId # NoUser
      BY <1>1, <1>3, <3>2, ConnsType, LoginAssumption DEF Connections
    <3>4. PICK u \in Users \union {NoUser} : u = userId
      BY <1>1 DEF TypeOK
    <3>5. Msg("LOGIN_SUCCESS", u) \in Messages
      BY DEF Msg, Messages
    <3>6. /\ messageQueue' # << >> /\ Len(messageQueue') = 1
          /\ messageQueue'[1] = Msg("LOGIN_SUCCESS", u)
      BY <1>1, <2>2, <3>1, <3>4, <3>5, FirstPost
    <3>7. OneAtATime'
      BY <1>2, <2>1, <2>3, <3>6 DEF OneAtATime, Settled, Stage
    <3>8. ClicksOffline'
      BY <2>2, <3>1, <3>3, <3>4, <3>6 DEF ClicksOffline, Msg
    <3>9. AskerIsHeard'
      BY <2>1, <2>4, <3>1, <3>2 DEF AskerIsHeard, Stage
    <3> QED BY <2>5, <3>7, <3>8, <3>9 DEF ShownInv
  <2>7. CASE onUnauthorizedRegister(c)
    <3>1. messageQueue' = << >> /\ userId' = NoUser
      BY <2>1, <2>2, <2>7 DEF onUnauthorizedRegister, Calls
    <3>2. OneAtATime' /\ ClicksOffline' /\ AskerIsHeard'
      BY <1>2, <2>1, <2>2, <3>1 DEF OneAtATime, ClicksOffline, AskerIsHeard
    <3> QED BY <2>5, <3>2 DEF ShownInv
  <2> QED BY <2>6, <2>7
<1> QED BY <1>5, <1>6, <1>7 DEF Running

\* The server answers the socket in use, and hangs up on others.
LEMMA ShownServer ==
  ASSUME IInv, ShownInv, Membership', "drop" \notin Env, "fast_answer" \notin Env,
         NEW c \in DOMAIN conns, ServeRegister(c) \/ ServeClose(c) \/ HangUp(c) \/ Drop(c)
  PROVE  ShownInv'
<1> USE DEF windows, threads
<1>1. TypeOK /\ OneAtATime /\ ClicksOffline /\ ShownIsSettled /\ AskerIsHeard
  BY DEF IInv, ShownInv
<1>2. UNCHANGED <<ui, useId, loginWnd, loggedIn, messageQueue, userId>>
  BY DEF ServeRegister, ServeClose, HangUp, Drop, Serves
<1>3. \/ MovedAs(c, "closed", FALSE) /\ (c < socket \/ ui = "hanging_up")
      \/ Stage(c) = "asked" /\ (MovedAs(c, "granted", TRUE) \/ MovedAs(c, "refused", FALSE))
  BY <1>1, ServerRegisters
<1>4. CASE ui = "hanging_up"
  BY <1>2, <1>4 DEF ShownInv, OneAtATime, ClicksOffline, ShownIsSettled, AskerIsHeard, Running
<1>5. CASE MovedAs(c, "closed", FALSE) /\ c < socket
  <2>1. /\ socket' = socket /\ DOMAIN conns' = DOMAIN conns /\ c # socket
        /\ socket \in Nat /\ DOMAIN conns = 1 .. socket
        /\ \A d \in DOMAIN conns :
             /\ conns'[d].stage = IF d = c THEN "closed" ELSE conns[d].stage
             /\ d # c => /\ conns'[d].user = conns[d].user
                         /\ conns'[d].member = conns[d].member
    <3>1. /\ socket' = socket /\ DOMAIN conns' = DOMAIN conns
          /\ \A d \in DOMAIN conns :
               /\ conns'[d].user = conns[d].user
               /\ conns'[d].stage = IF d = c THEN "closed" ELSE conns[d].stage
      BY <1>5 DEF MovedAs, Moved, Stage
    <3>2. \A d \in DOMAIN conns : d # c => conns'[d].member = conns[d].member
      BY <1>5 DEF MovedAs
    <3>3. socket \in Nat /\ DOMAIN conns = 1 .. socket
      BY <1>1, ConnsType
    <3> QED BY <1>5, <3>1, <3>2, <3>3
  <2>2. OneAtATime'
    BY <1>1, <1>2, <2>1 DEF OneAtATime, Running, Settled, Stage
  <2>3. ClicksOffline'
    BY <1>1, <1>2 DEF ClicksOffline, Running
  <2>4. ShownIsSettled'
    BY <1>1, <1>2, <2>1 DEF ShownIsSettled, Running, Quiet
  <2>5. AskerIsHeard'
    BY <1>1, <1>2, <2>1 DEF AskerIsHeard, Stage
  <2> QED BY <2>2, <2>3, <2>4, <2>5 DEF ShownInv
<1>6. CASE Stage(c) = "asked" /\ (MovedAs(c, "granted", TRUE) \/ MovedAs(c, "refused", FALSE))
  <2>1. ~Settled(c) /\ ~Quiet /\ (Running => useId = NoUser)
    BY <1>1, <1>6 DEF Settled, Quiet, Stage, ShownIsSettled
  <2>2. Running => messageQueue = << >>
    BY <1>1, <2>1 DEF OneAtATime
  <2>3. ui = "joining" => FALSE
    <3>1. ui = "joining" => c = socket
      BY <1>1, <2>1 DEF OneAtATime, Running
    <3> QED BY <1>6, <3>1 DEF IInv, Unanswered
  <2>4. OneAtATime' /\ ClicksOffline' /\ ShownIsSettled'
    BY <1>2, <2>1, <2>2, <2>3 DEF OneAtATime, ClicksOffline, ShownIsSettled, Running
  <2>5. /\ socket' = socket
        /\ \A d \in DOMAIN conns :
             /\ conns'[d].user = conns[d].user
             /\ conns'[d].stage \in {conns[d].stage, "granted", "refused"}
             /\ d # c => conns'[d].member = conns[d].member
             /\ d = c => conns'[d].stage \in {"granted", "refused"}
    BY <1>6 DEF MovedAs, Moved, Stage
  <2>6. AskerIsHeard'
    BY <1>1, <1>2, <2>5, ConnsType DEF AskerIsHeard, Stage
  <2> QED BY <2>4, <2>6 DEF ShownInv
<1> QED BY <1>3, <1>4, <1>5, <1>6

\* Every step keeps what is shown in line with what is registered.
LEMMA ShownKept ==
  ASSUME IInv, ShownInv, "drop" \notin Env, "again" \notin Env, "fast_answer" \notin Env,
         [Next]_vars
  PROVE  ShownInv'
<1> USE DEF windows, threads
<1>1. Membership'
  BY MembershipKept DEF ShownInv
<1>2. CASE UserStep
  BY <1>2, ShownUser
<1>3. CASE UIStep
  <2>1. CASE CloseSocket \/ JoinListener
    BY <2>1, ShownElsewhere DEF CloseSocket, JoinListener
  <2> QED BY <1>1, <1>3, <2>1, ShownUpdate, ShownConnect, ShownLogin DEF UIStep
<1>4. CASE ListenerStep
  <2>1. ASSUME NEW c \in listening, ListenerEnds(c) PROVE ShownInv'
    BY <2>1, ShownElsewhere DEF ListenerEnds
  <2> QED BY <1>1, <1>4, <2>1, ShownAnswer DEF ListenerStep
<1>5. CASE KeepaliveStep
  BY <1>5, ShownElsewhere DEF KeepaliveStep, Wakes, Sleeps
<1>6. CASE \E c \in DOMAIN conns :
             ServeRegister(c) \/ ServeClose(c) \/ HangUp(c) \/ Drop(c)
  BY <1>1, <1>6, ShownServer
<1>7. CASE UNCHANGED vars
  BY <1>7, ShownElsewhere DEF vars
<1> QED BY <1>2, <1>3, <1>4, <1>5, <1>6, <1>7 DEF Next, ServerStep

\* ShownIsRegistered says what ShownInv comes to when all is quiet.
LEMMA ShownThenRegistered ==
  ASSUME IInv, ShownInv
  PROVE  ShownIsRegistered
<1>1. SUFFICES ASSUME Quiet
               PROVE  /\ useId # NoUser => userId = useId /\ loggedIn
                      /\ userId # NoUser => Registers(userId)
  BY DEF ShownIsRegistered
<1>2. useId # NoUser => userId = useId /\ loggedIn
  BY <1>1 DEF ShownInv, ShownIsSettled, Quiet, Running
<1>3. ASSUME userId # NoUser PROVE Registers(userId)
  <2>1. socket # 0 /\ conns[socket].user = userId
        /\ Stage(socket) \in {"asked", "granted", "refused", "answered"}
        /\ (Stage(socket) = "answered" => conns[socket].member)
    BY <1>1, <1>3 DEF ShownInv, AskerIsHeard, Quiet
  <2>2. socket \in DOMAIN conns
    BY <2>1, ConnsType DEF IInv
  <2>3. Stage(socket) = "answered"
    BY <1>1, <2>1, <2>2 DEF Quiet, Stage
  <2> QED BY <2>1, <2>2, <2>3 DEF Registers
<1> QED BY <1>2, <1>3

\* When all is quiet, whoever is named in the start window is known to the server, and
\* so is whoever the engine's requests name: for a user who waits until all is quiet
\* before the next click, though he may log out, on a connection that is not lost.
THEOREM ShownAreRegistered ==
  ASSUME "drop" \notin Env, "again" \notin Env, "fast_answer" \notin Env
  PROVE  Spec => []ShownIsRegistered
<1>1. Init => IInv /\ ShownInv
  <2>1. ASSUME Init PROVE ShownInv
    <3>1. DOMAIN conns = {} /\ messageQueue = << >> /\ useId = NoUser /\ userId = NoUser
      BY <2>1 DEF Init
    <3> QED BY <2>1, <3>1 DEF Init, ShownInv, Membership, OneAtATime, ClicksOffline,
                              ShownIsSettled, AskerIsHeard
  <2> QED BY <2>1, Initially
<1>2. IInv /\ ShownInv /\ [Next]_vars => (IInv /\ ShownInv)'
  BY Inductive, ShownKept
<1>3. IInv /\ ShownInv => ShownIsRegistered
  BY ShownThenRegistered
<1> QED BY <1>1, <1>2, <1>3, PTL DEF Spec

=============================================================================
