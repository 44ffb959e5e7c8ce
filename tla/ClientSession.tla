--------------------------- MODULE ClientSession ---------------------------
(***************************************************************************)
(* The chat client (src/client/src/client.cpp): the user's lines, handled  *)
(* one at a time by the event worker thread (event_worker.cpp), and the    *)
(* handlers of its two connections, run by the one io thread.  m_Http      *)
(* carries the commands, m_HttpIdle the idle channel.  Both are            *)
(* AsyncHttpClient objects over a TLS TcpClient (net/client.cpp).          *)
(*                                                                         *)
(* conn[c] is the c-th object createConnect made: whether a shared_ptr      *)
(* still owns it (alive), its m_IsOpen flag (open), the state of the link, *)
(* the asynchronous operations started on it and not yet completed (ops),  *)
(* and the server's side of the connection: requests received and not     *)
(* answered (inq), answers on their way (outq), and whether the server      *)
(* polls for this client (idleSrv).  An operation completes by a network   *)
(* step, which queues its handler; the io thread runs the queued handlers  *)
(* in order, each as one step.  Each user line is one step of the event   *)
(* worker thread.  The two threads share m_LastCmd, m_Http, m_SelfId and   *)
(* m_Password with no lock, and here they interleave at whole-handler     *)
(* granularity.                                                            *)
(*                                                                         *)
(* A request or a reply carries only what the client and the server branch *)
(* on.  A request has the command, the uid and the password it was built   *)
(* with.  A reply has its status, the "id" field of its body (0 when the   *)
(* body has none), and whether the body has a "msgs" array.  The store is  *)
(* one user Me with the password "good", and the server answers as         *)
(* database_worker.cpp does for that store.                                *)
(***************************************************************************)
EXTENDS Naturals, Sequences, SequencesExt, FiniteSets

CONSTANTS Script,     \* the lines the user types, in order: [verb, n, pass]
          CmdUser,    \* -u was given: m_User is not empty
          CmdPasswords, \* the values -p may give m_Password: "" (no -p) or "good"
          Endpoints,  \* the number of endpoints the server's name resolves to
          MaxFaults,  \* bound on network faults
          MaxConns,   \* bound on the AsyncHttpClient objects that exist at one time
          MaxPushes   \* bound on the pushes the server's idle poll writes

VARIABLES conn,       \* the AsyncHttpClient objects, see above
          http,       \* m_Http: an index into conn
          idle,       \* m_HttpIdle: an index into conn
          lastCmd,    \* m_LastCmd
          selfId,     \* m_SelfId
          password,   \* m_Password: "", "good" or "bad"
          mode,       \* m_State.mode: "USUAL" or "CHAT_U"
          idleState,  \* m_IdleState
          timer,      \* m_Timeout: "armed", "expired" or "cancelled"
          pc,         \* the next line of Script the event worker takes
          faults,     \* network faults so far
          pushes,     \* pushes so far
          ready       \* the completion handlers queued for the io thread

vars == <<conn, http, idle, lastCmd, selfId, password, mode, idleState,
          timer, pc, faults, pushes, ready>>

Conns == 1..MaxConns

\* ids a reply body can carry: ours, another user's; 0 is "no id field"
Me   == 1
Peer == 2

-----------------------------------------------------------------------------
(* input::parse: the verb, then the number of space-separated parts the    *)
(* command needs.  The verb is compared lowercased; Script holds it so.    *)
Nullary == [help |-> "HELP", quit |-> "QUIT", unchat |-> "UNCHAT"]
Unary   == [chat_with |-> "CHAT_WITH_USER", register_g |-> "REGISTER_GROUP",
            history |-> "HISTORY_USER", history_g |-> "HISTORY_GROUP",
            status |-> "STATUS_USER", status_g |-> "STATUS_GROUP"]
Binary  == [login |-> "LOGIN", register |-> "REGISTER_USER", direct_msg |-> "DIRECT_MSG_USER",
            add_to_g |-> "ADD_TO_GROUP", direct_msg_g |-> "DIRECT_MSG_GROUP"]

Parse(line) ==
    CASE line.verb \in DOMAIN Nullary                 -> Nullary[line.verb]
      [] line.n >= 2 /\ line.verb \in DOMAIN Unary   -> Unary[line.verb]
      [] line.n >= 3 /\ line.verb \in DOMAIN Binary  -> Binary[line.verb]
      [] OTHER                                       -> "NONE"

\* The commands onUserInput turns into a request.
Remote == {"LOGIN", "REGISTER_USER", "DIRECT_MSG_USER", "HISTORY_USER", "STATUS_USER",
           "REGISTER_GROUP", "ADD_TO_GROUP", "DIRECT_MSG_GROUP"}

NoReq   == [cmd |-> "NONE", uid |-> 0, pass |-> ""]
NoReply == [code |-> 0, id |-> 0, msgs |-> FALSE]

\* The request a handler builds from the client's state at that moment.
Request(cmd, pass) == [cmd |-> cmd, uid |-> selfId, pass |-> pass]

Reply(code, id, msgs) == [code |-> code, id |-> id, msgs |-> msgs]

\* The worker's answer.  Login checks the password by name; user/create
\* answers the new user; every other command first runs lookup_check_pass
\* (409 for an unknown uid, 403 for a wrong password).  Status answers the
\* target user, chat/create a body whose key is "chatid", history "msgs".
\* /v1/idle is acknowledged by the router before any check.
Answer(req) ==
    CASE req.cmd = "LOGIN"                         -> IF req.pass = "good" THEN Reply(200, Me, FALSE)
                                                                           ELSE Reply(403, 0, FALSE)
      [] req.cmd = "REGISTER_USER"                 -> Reply(200, Peer, FALSE)
      [] req.cmd = "IDLE"                          -> Reply(200, 0, FALSE)
      [] req.uid # Me                              -> Reply(409, 0, FALSE)
      [] req.pass # "good"                         -> Reply(403, 0, FALSE)
      [] req.cmd = "STATUS_USER"                   -> Reply(200, Peer, FALSE)
      [] req.cmd = "HISTORY_USER"                  -> Reply(200, 0, TRUE)
      [] OTHER                                     -> Reply(200, 0, FALSE)

-----------------------------------------------------------------------------
(* The connection objects and the operations on them.  An operation is     *)
(* pending on its object until the network completes it; it then waits in *)
(* ready, the io_service's queue of completion handlers, which the one io  *)
(* thread runs in order.  The state of a step is st = [cs, rd]: the        *)
(* objects and the ready queue.                                            *)

NewConn == [alive |-> TRUE, open |-> FALSE, link |-> "none", ops |-> <<>>,
            inq |-> <<>>, outq |-> <<>>, idleSrv |-> "no"]

Op(kind, h, req) == [kind |-> kind, h |-> h, ep |-> 1, req |-> req]

Done(c, o, res, reply) == [c |-> c, kind |-> o.kind, h |-> o.h, res |-> res, reply |-> reply]

Now == [cs |-> conn, rd |-> ready]

\* socket cancel or close: every pending operation completes with
\* operation_aborted.
Abort(st, c) ==
    [cs |-> [st.cs EXCEPT ![c].ops = <<>>],
     rd |-> st.rd \o [i \in DOMAIN st.cs[c].ops |-> Done(c, st.cs[c].ops[i], "error", NoReply)]]

\* An operation started on a link it cannot use fails at once: asio posts
\* its handler with the error.  A read or write goes through the TLS
\* stream, which is usable once the handshake is done.  (Before the
\* handshake the stream has no state and fails; during it, two users of one
\* SSL object are undefined, and failing is the outcome taken.)
Start(st, c, o, usable) ==
    IF st.cs[c].link = usable THEN [st EXCEPT !.cs[c].ops = Append(@, o)]
    ELSE [st EXCEPT !.rd = Append(@, Done(c, o, "error", NoReply))]

\* AsyncHttpClient::asyncConnect: RangeConnectOp::start_connect closes the
\* socket (aborting what is pending on it, ending the server's session) and
\* connects to the first endpoint.
AsyncConnect(st, c, h) ==
    LET a == Abort(st, c)
    IN [a EXCEPT !.cs[c].link = "connecting", !.cs[c].inq = <<>>, !.cs[c].outq = <<>>,
                 !.cs[c].idleSrv = "no", !.cs[c].ops = <<Op("connect", h, NoReq)>>]

AsyncWrite(st, c, h, req) == Start(st, c, Op("write", h, req), "up")

AsyncRead(st, c, h) == Start(st, c, Op("read", h, NoReq), "up")

\* handleConnect: after the TCP connect, the TLS handshake.  Its first
\* write waits while the socket is still connecting (a handler queued
\* before the socket was reconnected lands here), it completes at once on
\* a stream whose handshake is done, and fails on a closed or failed one.
AsyncHandshake(st, c, h) ==
    LET o == Op("handshake", h, NoReq) IN
    CASE st.cs[c].link \in {"connecting", "tcp"} -> [st EXCEPT !.cs[c].ops = Append(@, o)]
      [] st.cs[c].link = "up" -> [st EXCEPT !.rd = Append(@, Done(c, o, "ok", NoReply))]
      [] OTHER -> [st EXCEPT !.rd = Append(@, Done(c, o, "error", NoReply))]

\* Whether a read or write lambda, which holds the TcpClient by shared_ptr,
\* is outstanding on c.
HeldBySocketOp(st, c) ==
    \/ \E i \in DOMAIN st.cs[c].ops : st.cs[c].ops[i].kind \in {"read", "write"}
    \/ \E i \in DOMAIN st.rd : st.rd[i].c = c /\ st.rd[i].kind \in {"read", "write"}

\* The last shared_ptr to AsyncHttpClient c is dropped.  Unless a read or
\* write still holds its TcpClient, the socket is destroyed with it: its
\* pending operations are aborted and the link closed.
Drop(st, c) ==
    IF HeldBySocketOp(st, c) THEN [st EXCEPT !.cs[c].alive = FALSE]
    ELSE LET a == Abort(st, c) IN [a EXCEPT !.cs[c].alive = FALSE, !.cs[c].link = "down"]

DeadConn == [NewConn EXCEPT !.alive = FALSE]

\* The objects that are gone and that nothing refers to any more: no
\* operation is pending or queued on them.  Their slot is reused, so the
\* number of slots bounds only the objects that exist at one time.
Unused(st) == {c \in Conns : ~st.cs[c].alive /\ st.cs[c].ops = <<>>
                             /\ \A i \in DOMAIN st.rd : st.rd[i].c # c}

\* The next state is st, with the unused slots cleared.
Apply(st) ==
    /\ conn' = [c \in Conns |-> IF c \in Unused(st) THEN DeadConn ELSE st.cs[c]]
    /\ ready' = st.rd

\* createConnect: a new object in a free slot.
Fresh(st, c) == [st EXCEPT !.cs[c] = NewConn]

\* sendRequest: m_LastCmd is set, and the request written on m_Http.
SendRequest(st, cmd, req) ==
    /\ lastCmd' = cmd
    /\ Apply(AsyncWrite(st, http, "http", req))

CancelTimer == IF timer = "armed" THEN "cancelled" ELSE timer

-----------------------------------------------------------------------------
Init ==
    /\ http = 1
    /\ idle = 2
    \* the constructor's two createConnect, then run(): connect m_Http and arm
    \* the 5 s timeout
    /\ LET st == AsyncConnect([cs |-> [c \in Conns |-> IF c <= 2 THEN NewConn ELSE DeadConn],
                               rd |-> <<>>], 1, "http")
       IN conn = st.cs /\ ready = st.rd
    /\ timer = "armed"
    /\ lastCmd = "NONE"
    /\ selfId = 0
    /\ password \in CmdPasswords
    /\ mode = "USUAL"
    /\ idleState = FALSE
    /\ pc = 1
    /\ faults = 0
    /\ pushes = 0

-----------------------------------------------------------------------------
(* The event worker: Client::onUserInput for the next line.  (quit kills *)
(* the process and is left out of scripts.)                                *)

\* In chat mode every line but unchat and direct_msg is a message to the
\* peer of the chat.
Effective(cmd) ==
    IF mode = "CHAT_U" /\ cmd \notin {"UNCHAT", "DIRECT_MSG_USER"} THEN "DIRECT_MSG_USER" ELSE cmd

\* The commands that only change the mode or print.
NextMode(cmd) ==
    CASE cmd = "UNCHAT"         -> "USUAL"
      [] cmd = "CHAT_WITH_USER" -> "CHAT_U"
      [] OTHER                  -> mode

\* A remote command is sent; login sends the password of the line and then
\* keeps it in m_Password, the others send m_Password.
OnUserInput ==
    /\ pc <= Len(Script)
    /\ pc' = pc + 1
    /\ LET line == Script[pc]
           cmd  == Effective(Parse(line))
       IN \/ /\ cmd \in Remote
             /\ password' = IF cmd = "LOGIN" THEN line.pass ELSE password
             /\ SendRequest(Now, cmd, Request(cmd, password'))
             /\ UNCHANGED mode
          \/ /\ cmd \notin Remote
             /\ mode' = NextMode(cmd)
             /\ UNCHANGED <<conn, ready, lastCmd, password>>
    /\ UNCHANGED <<http, idle, selfId, idleState, timer, faults, pushes>>

-----------------------------------------------------------------------------
(* The io thread: the handlers, given the state st after the completion    *)
(* was taken off ready, and whether the operation failed.                  *)

\* Mutant: a connect error is logged and not retried.
OnHttpConnectNoRetry(st, err) ==
    /\ \/ err /\ Apply(st) /\ UNCHANGED lastCmd
       \/ ~err /\ CmdUser /\ password # ""
          /\ SendRequest(st, "LOGIN", Request("LOGIN", password))
       \/ ~err /\ ~(CmdUser /\ password # "") /\ Apply(st) /\ UNCHANGED lastCmd
    /\ UNCHANGED <<http, idle, selfId, idleState, timer>>

\* onHttpConnect: on error, connect m_Http again (after a 1 s sleep).  On
\* success, log in if a user and password are known.
OnHttpConnect(st, err) ==
    /\ \/ err /\ Apply(AsyncConnect(st, http, "http")) /\ UNCHANGED lastCmd
       \/ ~err /\ CmdUser /\ password # ""
          /\ SendRequest(st, "LOGIN", Request("LOGIN", password))
       \/ ~err /\ ~(CmdUser /\ password # "") /\ Apply(st) /\ UNCHANGED lastCmd
    /\ UNCHANGED <<http, idle, selfId, idleState, timer>>

\* onHttpWrite: an error cancels the timeout and ends there.  Otherwise a
\* response is read on m_Http.
OnHttpWrite(st, err) ==
    /\ \/ err /\ timer' = CancelTimer /\ Apply(st)
       \/ ~err /\ Apply(AsyncRead(st, http, "http")) /\ UNCHANGED timer
    /\ UNCHANGED <<http, idle, lastCmd, selfId, idleState>>

\* Mutant: on a read error the new object is connected but not stored in
\* m_Http, which keeps the one just dropped.
OnHttpReadUnstored(st, err, reply) ==
    /\ timer' = CancelTimer
    /\ \/ /\ err
          /\ LET d == Drop(st, http)
             IN /\ Unused(d) # {}
                /\ Apply(AsyncConnect(Fresh(d, Min(Unused(d))), Min(Unused(d)), "http"))
                /\ UNCHANGED http
          /\ UNCHANGED selfId
       \/ ~err /\ reply.code # 200 /\ Apply(st) /\ UNCHANGED <<http, selfId>>
       \/ /\ ~err /\ reply.code = 200 /\ lastCmd = "LOGIN"
          /\ selfId' = reply.id
          /\ Apply(IF st.cs[idle].open THEN st ELSE AsyncConnect(st, idle, "idle"))
          /\ UNCHANGED http
       \/ ~err /\ reply.code = 200 /\ lastCmd # "LOGIN" /\ Apply(st)
          /\ UNCHANGED <<http, selfId>>
    /\ UNCHANGED <<idle, lastCmd, idleState>>

\* onHttpRead: the timeout is cancelled.  On error, m_Http is replaced by a
\* new object, which is connected.  A non-200 reply is printed.  A 200
\* reply is handled as m_LastCmd says.  For LOGIN, parse_response_aswer
\* takes "id" (0 when absent) into m_SelfId, and the idle channel is
\* connected unless m_HttpIdle->isOpen().  Other commands only print.
OnHttpRead(st, err, reply) ==
    /\ timer' = CancelTimer
    /\ \/ /\ err
          /\ LET d == Drop(st, http)
             IN /\ Unused(d) # {}
                /\ http' = Min(Unused(d))
                /\ Apply(AsyncConnect(Fresh(d, http'), http', "http"))
          /\ UNCHANGED selfId
       \/ ~err /\ reply.code # 200 /\ Apply(st) /\ UNCHANGED <<http, selfId>>
       \/ /\ ~err /\ reply.code = 200 /\ lastCmd = "LOGIN"
          /\ selfId' = reply.id
          /\ Apply(IF st.cs[idle].open THEN st ELSE AsyncConnect(st, idle, "idle"))
          /\ UNCHANGED <<http>>
       \/ ~err /\ reply.code = 200 /\ lastCmd # "LOGIN" /\ Apply(st)
          /\ UNCHANGED <<http, selfId>>
    /\ UNCHANGED <<idle, lastCmd, idleState>>

\* onHttpIdleConnect: on error, connect again (after 100 ms).  Otherwise
\* write the idle request with m_SelfId and m_Password.
OnHttpIdleConnect(st, err) ==
    /\ \/ err /\ Apply(AsyncConnect(st, idle, "idle"))
       \/ ~err /\ Apply(AsyncWrite(st, idle, "idle", Request("IDLE", password)))
    /\ UNCHANGED <<http, idle, lastCmd, selfId, idleState, timer>>

\* onHttpIdleWrite: an error is logged and nothing else; otherwise read.
OnHttpIdleWrite(st, err) ==
    /\ \/ err /\ Apply(st)
       \/ ~err /\ Apply(AsyncRead(st, idle, "idle"))
    /\ UNCHANGED <<http, idle, lastCmd, selfId, idleState, timer>>

\* Mutant: the error branch replaces the objects but leaves m_IdleState set.
OnHttpIdleReadKeepState(st, err, reply) ==
    /\ \/ /\ err \/ reply.code # 200
          /\ UNCHANGED idleState
          /\ LET d == Drop(Drop(st, idle), http)
             IN /\ Cardinality(Unused(d)) >= 2
                /\ idle' = Min(Unused(d))
                /\ http' = Min(Unused(d) \ {idle'})
                /\ Apply(AsyncConnect(Fresh(Fresh(d, idle'), http'), http', "http"))
       \/ /\ ~err /\ reply.code = 200
          /\ idleState' = TRUE
          /\ Apply(AsyncRead(st, idle, "idle"))
          /\ UNCHANGED <<http, idle>>
    /\ UNCHANGED <<lastCmd, selfId, timer>>

\* onHttpIdleRead: an error or a non-200 status ends the session: both
\* objects are replaced and the new m_Http is connected.  Otherwise the
\* first reply is the acknowledgement and later ones are shown; then read
\* again.
OnHttpIdleRead(st, err, reply) ==
    /\ \/ /\ err \/ reply.code # 200
          /\ idleState' = FALSE
          /\ LET d == Drop(Drop(st, idle), http)
             IN /\ Cardinality(Unused(d)) >= 2
                /\ idle' = Min(Unused(d))
                /\ http' = Min(Unused(d) \ {idle'})
                /\ Apply(AsyncConnect(Fresh(Fresh(d, idle'), http'), http', "http"))
       \/ /\ ~err /\ reply.code = 200
          /\ idleState' = TRUE
          /\ Apply(AsyncRead(st, idle, "idle"))
          /\ UNCHANGED <<http, idle>>
    /\ UNCHANGED <<lastCmd, selfId, timer>>

\* The io thread runs the first completion handler.  The lambda of
\* asyncConnect sets m_IsOpen (makeConnected) once the TCP connect is done
\* and starts the handshake (handleConnect); a failed connect or handshake,
\* and a handshake done, reach the handler the client gave.
Complete ==
    /\ ready # <<>>
    /\ LET e   == Head(ready)
           st  == [cs |-> conn, rd |-> Tail(ready)]
           err == e.res # "ok"
       IN CASE e.kind = "connect" /\ ~err ->
                 /\ Apply(AsyncHandshake([st EXCEPT !.cs[e.c].open = TRUE], e.c, e.h))
                 /\ UNCHANGED <<http, idle, lastCmd, selfId, idleState, timer>>
            [] e.kind \in {"connect", "handshake"} /\ e.h = "http" -> OnHttpConnect(st, err)
            [] e.kind \in {"connect", "handshake"} /\ e.h = "idle" -> OnHttpIdleConnect(st, err)
            [] e.kind = "write" /\ e.h = "http"  -> OnHttpWrite(st, err)
            [] e.kind = "write" /\ e.h = "idle"  -> OnHttpIdleWrite(st, err)
            [] e.kind = "read" /\ e.h = "http"   -> OnHttpRead(st, err, e.reply)
            [] e.kind = "read" /\ e.h = "idle"   -> OnHttpIdleRead(st, err, e.reply)
    /\ UNCHANGED <<password, mode, pc, faults, pushes>>

\* m_Timeout expires 5 s after run(): m_Http is cancelled.
TimerFire ==
    /\ timer = "armed"
    /\ timer' = "expired"
    /\ Apply(Abort(Now, http))
    /\ UNCHANGED <<http, idle, lastCmd, selfId, password, mode, idleState, pc,
                   faults, pushes>>

-----------------------------------------------------------------------------
(* The network and the server                                              *)

Pending(c, i, kind) == conn[c].ops[i].kind = kind

\* Operation i of c completes: it leaves c, the link moves on, and its
\* handler is queued for the io thread.
Finished(c, i, res) ==
    [conn EXCEPT ![c].ops = RemoveAt(@, i),
                 ![c].link = CASE res = "error" /\ @ = "connecting"      -> "none"
                               [] res = "error"                          -> "down"
                               [] conn[c].ops[i].kind = "connect"        -> "tcp"
                               [] conn[c].ops[i].kind = "handshake"      -> "up"
                               [] OTHER                                  -> @]

Queued(c, i, res, reply) == Append(ready, Done(c, conn[c].ops[i], res, reply))

Finish(c, i, res, reply) == conn' = Finished(c, i, res) /\ ready' = Queued(c, i, res, reply)

\* The TCP connect to the current endpoint succeeds.
ConnectOk(c, i) == Pending(c, i, "connect") /\ Finish(c, i, "ok", NoReply) /\ UNCHANGED faults

\* RangeConnectOp::operator(): a refused connect goes on to the next
\* endpoint (start_connect closes the socket again), and reports the error
\* after the last one.  Either way a handshake waiting on the socket fails.
\* Nothing else is pending on a connecting socket.
ConnectFail(c, i) ==
    LET o  == conn[c].ops[i]
        hs == SelectSeq(conn[c].ops, LAMBDA x : x.kind = "handshake")
        aborted == [j \in DOMAIN hs |-> Done(c, hs[j], "error", NoReply)]
    IN /\ Pending(c, i, "connect")
       /\ faults < MaxFaults
       /\ faults' = faults + 1
       /\ \/ /\ o.ep < Endpoints
             /\ conn' = [conn EXCEPT ![c].ops = <<[o EXCEPT !.ep = o.ep + 1]>>]
             /\ ready' = ready \o aborted
          \/ /\ o.ep = Endpoints
             /\ conn' = [conn EXCEPT ![c].ops = <<>>, ![c].link = "none"]
             /\ ready' = ready \o <<Done(c, o, "error", NoReply)>> \o aborted

\* The TLS handshake succeeds, or fails.
HandshakeOk(c, i) ==
    /\ Pending(c, i, "handshake") /\ conn[c].link = "tcp"
    /\ Finish(c, i, "ok", NoReply)
    /\ UNCHANGED faults

HandshakeFail(c, i) ==
    /\ Pending(c, i, "handshake") /\ conn[c].link = "tcp" /\ faults < MaxFaults
    /\ faults' = faults + 1
    /\ Finish(c, i, "error", NoReply)

\* async_write: the request reaches the server's session.
WriteStep(c, i) ==
    /\ Pending(c, i, "write")
    /\ conn' = [Finished(c, i, "ok") EXCEPT ![c].inq = Append(@, conn[c].ops[i].req)]
    /\ ready' = Queued(c, i, "ok", NoReply)
    /\ UNCHANGED faults

\* async_read_until: the first pending read takes the next answer.  (Two
\* reads pending on one socket is undefined in asio; here the older one
\* gets the answer.)
ReadStep(c, i) ==
    /\ Pending(c, i, "read")
    /\ \A j \in 1..(i - 1) : ~Pending(c, j, "read")
    /\ conn[c].outq # <<>>
    /\ conn' = [Finished(c, i, "ok") EXCEPT ![c].outq = Tail(@)]
    /\ ready' = Queued(c, i, "ok", Head(conn[c].outq))
    /\ UNCHANGED faults

\* The server's session answers the next request.  After /v1/idle it polls
\* the store for this client, with the uid and password of the request.
Serve(c) ==
    LET req == Head(conn[c].inq) IN
    /\ conn[c].link = "up" /\ conn[c].inq # <<>> /\ conn[c].idleSrv = "no"
    /\ conn' = [conn EXCEPT ![c].inq = Tail(conn[c].inq),
                            ![c].outq = Append(conn[c].outq, Answer(req)),
                            ![c].idleSrv = IF req.cmd # "IDLE" THEN "no"
                                           ELSE IF req.uid = Me /\ req.pass = "good" THEN "ok"
                                           ELSE "bad"]
    /\ UNCHANGED <<ready, http, idle, lastCmd, selfId, password, mode, idleState, timer,
                   pc, faults, pushes>>

\* The first IDLE task of a session whose uid or password is wrong fails
\* lookup_check_pass: an error response is written.
PollRefused(c) ==
    /\ conn[c].link = "up" /\ conn[c].idleSrv = "bad"
    /\ conn' = [conn EXCEPT ![c].outq = Append(conn[c].outq, Reply(403, 0, FALSE)),
                            ![c].idleSrv = "no"]
    /\ UNCHANGED <<ready, http, idle, lastCmd, selfId, password, mode, idleState, timer,
                   pc, faults, pushes>>

\* An IDLE task finds new messages and pushes them.
Push(c) ==
    /\ conn[c].link = "up" /\ conn[c].idleSrv = "ok" /\ pushes < MaxPushes
    /\ pushes' = pushes + 1
    /\ conn' = [conn EXCEPT ![c].outq = Append(conn[c].outq, Reply(200, 0, TRUE))]
    /\ UNCHANGED <<ready, http, idle, lastCmd, selfId, password, mode, idleState, timer,
                   pc, faults>>

\* The link breaks (the server restarts, the network drops): what is
\* pending on it fails, and the server's session ends.
Break(c) ==
    /\ conn[c].link = "up" /\ faults < MaxFaults
    /\ faults' = faults + 1
    /\ LET a == Abort(Now, c)
       IN Apply([a EXCEPT !.cs[c].link = "down", !.cs[c].inq = <<>>, !.cs[c].outq = <<>>,
                          !.cs[c].idleSrv = "no"])
    /\ UNCHANGED <<http, idle, lastCmd, selfId, password, mode, idleState, timer, pc,
                   pushes>>

Others == <<http, idle, lastCmd, selfId, password, mode, idleState, timer, pc, pushes>>

NetOk(c, i) ==
    /\ ConnectOk(c, i) \/ HandshakeOk(c, i) \/ WriteStep(c, i) \/ ReadStep(c, i)
    /\ UNCHANGED Others

NetFault(c, i) == (ConnectFail(c, i) \/ HandshakeFail(c, i)) /\ UNCHANGED Others

Next ==
    \/ OnUserInput
    \/ Complete
    \/ \E c \in Conns : \E i \in DOMAIN conn[c].ops : NetOk(c, i) \/ NetFault(c, i)
    \/ \E c \in Conns : Serve(c) \/ PollRefused(c) \/ Push(c) \/ Break(c)
    \/ TimerFire

(* The io thread runs every queued handler, the network delivers what was *)
(* sent and the server answers: weakly fair.  The user, the pushes, the    *)
(* faults and the timeout get no fairness.                                 *)
Spec ==
    /\ Init /\ [][Next]_vars
    /\ WF_vars(Complete)
    /\ \A c \in Conns :
          /\ WF_vars(\E i \in DOMAIN conn[c].ops : NetOk(c, i))
          /\ WF_vars(Serve(c))
          /\ WF_vars(PollRefused(c))

-----------------------------------------------------------------------------
(* Properties                                                              *)

Reqs    == [cmd : Remote \cup {"IDLE", "NONE"}, uid : {0, Me, Peer}, pass : {"", "good", "bad"}]
Replies == [code : {0, 200, 403, 409}, id : {0, Me, Peer}, msgs : BOOLEAN]
Kinds   == {"connect", "handshake", "write", "read"}
Ops     == [kind : Kinds, h : {"http", "idle"}, ep : 1..Endpoints, req : Reqs]
Dones   == [c : Conns, kind : Kinds, h : {"http", "idle"}, res : {"ok", "error"}, reply : Replies]

TypeOK ==
    /\ conn \in [Conns -> [alive : BOOLEAN, open : BOOLEAN,
                           link : {"none", "connecting", "tcp", "up", "down"}, ops : Seq(Ops),
                           inq : Seq(Reqs), outq : Seq(Replies), idleSrv : {"no", "ok", "bad"}]]
    /\ ready \in Seq(Dones)
    /\ http \in Conns /\ idle \in Conns /\ http # idle
    /\ conn[http].alive /\ conn[idle].alive
    /\ selfId \in {0, Me, Peer} /\ timer \in {"armed", "expired", "cancelled"}

\* AsyncHttpClient hands asio lambdas that hold it by a raw pointer: the
\* connect and handshake of asyncConnect (net/client.cpp:645, 654, 677) and
\* the read of asyncResponse (net/client.cpp:715).  No such operation may be
\* outstanding, pending or queued, on an object whose last shared_ptr
\* onHttpRead or onHttpIdleRead dropped: its handler would run on freed
\* memory.  (The write lambda of asyncRequest holds only the TcpClient.)
NoDanglingHandler ==
    \A c \in Conns : ~conn[c].alive =>
        /\ \A i \in DOMAIN conn[c].ops : conn[c].ops[i].kind = "write"
        /\ \A i \in DOMAIN ready : ready[i].c = c => ready[i].kind = "write"

\* A broken idle channel is noticed: when the link under m_HttpIdle goes
\* down while m_IdleState holds, the read outstanding on it fails and
\* onHttpIdleRead ends the session (and starts the relogin).
BrokenIdleNoticed == idleState /\ conn[idle].link = "down" ~> ~idleState

\* Spec 4.5 (and 4.7, transport errors): a failed connect, handshake or
\* timeout on m_Http leads onHttpConnect to connect again, so an m_Http
\* that is connecting is eventually connected.
HttpConnectRetried == conn[http].link = "connecting" ~> conn[http].link = "up"

\* Spec 4.5: the idle channel is established right after a successful
\* login (for -u/-p, the one onHttpConnect sends), and when it breaks the
\* client reconnects and logs in again by itself (onHttpIdleRead,
\* onHttpConnect): so a client started with a user and password is
\* established again and again.
SessionHeld == CmdUser /\ password = "good" => []<>idleState

====
