---------------------------- MODULE IdleDelivery ----------------------------
(***************************************************************************)
(* The server's concurrency core for direct messages and push delivery:    *)
(*                                                                         *)
(*  - the request connection of each logged-in client (ApiClient), which   *)
(*    turns a /v1/message/send request into a db::Task, and answers it    *)
(*    only when a worker calls back (apiclient.cpp);                       *)
(*  - the task queue Queue<db::Task> (lock_queue.hpp) and the pool of      *)
(*    DatabaseWorker threads that pop and execute tasks                    *)
(*    (database_worker.cpp);                                               *)
(*  - the idle connection of each client: its ApiClient acknowledges       *)
(*    /v1/idle, then a steady_timer enqueues an IDLE task every polling    *)
(*    interval carrying the watermark params.ts; the worker pushes the     *)
(*    messages newer than the watermark with sendMessagesToIdleConn, and   *)
(*    the write's completion handler records their newest timestamp in     *)
(*    m_NewestMsgTimestamp, from which the next tick advances params.ts;   *)
(*  - the client's reading of the idle connection (client.cpp              *)
(*    onHttpIdleRead): the first response is taken as the acknowledgement, *)
(*    every later one is displayed;                                        *)
(*  - the store (module Store) and the clock time(NULL);                   *)
(*  - the failure of an idle connection: the link breaks, or the client    *)
(*    drops it after a refused poll; the server's writes on it fail, and a *)
(*    failed push cancels the session's timer and socket; the client       *)
(*    logs in again and opens a new idle session (client.cpp 411-418,      *)
(*    onHttpRead's LOGIN branch, onHttpIdleConnect).                       *)
(*                                                                         *)
(* The users exist and are logged in: the store starts with every user     *)
(* created, and every request carries the user's correct uid.  The idle    *)
(* request carries m_Password, which a login line typed while the first    *)
(* login was in flight may have replaced (client.cpp 120).  Each idle      *)
(* connection is a session of its own ApiClient, numbered per user.        *)
(***************************************************************************)
EXTENDS Naturals, Sequences, SequencesExt, FiniteSets, Store

CONSTANTS Users,          \* the users in the store, a subset of Names
          Senders,        \* users whose clients send message/send requests
          Listeners,      \* users whose clients open an idle channel
          Workers,        \* DatabaseWorker threads
          Epoch,          \* time(NULL) when the model starts
          MaxTime,        \* bound: seconds the clock may advance
          MaxSends,       \* bound: message/send requests issued
          MaxQueue,       \* bound: the timer does not enqueue when this many tasks
                          \* and idle writes of its session are pending
          MaxBreaks,      \* bound: idle links that break
          ReorderWrites,  \* may overlapping writes on one socket complete out of order?
          StalePassword   \* may the idle request carry a password other than the login's?

ASSUME /\ Users \subseteq Names /\ Users # {}
       /\ Senders \subseteq Users /\ Listeners \subseteq Users
       /\ Workers # {}
       /\ Epoch \in Nat /\ Epoch > 5
       /\ MaxTime \in Nat /\ MaxSends \in Nat /\ MaxQueue \in Nat \ {0}
       /\ MaxBreaks \in Nat /\ ReorderWrites \in BOOLEAN /\ StalePassword \in BOOLEAN

\* get_msg_opt_t::max_count, left at its default by the IDLE branch.
MaxCount == 3
\* The digest std::to_string(crc32(password)) stored for every user; an
\* idle request may present it or, with StalePassword, another one.
Password == 1
IdlePasswords == IF StalePassword THEN {Password, Password + 1} ELSE {Password}

\* The idle sessions a user may open: the first, and one after each break.
Sessions == 1..MaxBreaks + 1

VARIABLES
    db,        \* InMemoryConnection::m_Storage
    now,       \* time(NULL)
    queue,     \* DatabaseWorker::m_Queue
    ws,        \* per worker thread: where it is in processQueue, its task
    sess,      \* per user: the request connection's ApiClient phase
    idle,      \* per user and session: the idle connection's ApiClient state
    iwrites,   \* per user and session: responses written to its socket, not completed
    cur,       \* per user: the session of the client's m_HttpIdle (0: none yet)
    relog,     \* per user: the client saw its idle connection fail and logs in again
    acked,     \* per user: client's m_IdleState
    shown,     \* per user: the message ids the client displayed
    twice,     \* per user: the message ids it displayed more than once
    sends,     \* message/send requests issued so far (bounded by MaxSends)
    breaks     \* idle links broken so far (bounded by MaxBreaks)

vars == <<db, now, queue, ws, sess, idle, iwrites, cur, relog, acked, shown, twice, sends,
          breaks>>
Idle == <<idle, iwrites, cur, relog, acked, shown, twice, breaks>>

-----------------------------------------------------------------------------
UserRow(u) == LookupUserByName(db, u)[1]
UserId(u)  == UserRow(u).id

NoTask == [cmd |-> "NONE", owner |-> NoName, sid |-> 0, uid |-> 0, pass |-> Password,
           to |-> NoName, ts |-> 0, ping |-> FALSE]
NoMsg  == [user_from |-> 0, chat_to |-> 0, ts |-> 0, flags |-> "UNREAD"]
FreeWorker == [pc |-> "free", task |-> NoTask, msg |-> NoMsg]

\* The body sendOkResponseAndStartIdle writes first on the idle socket.
Ack == [kind |-> "ack", ids |-> <<>>, max_ts |-> 0]

\* The 403 of lookup_check_pass, written by sendErrorResponse.
Refusal == [kind |-> "error", ids |-> <<>>, max_ts |-> 0]

(* An idle session's ApiClient: st is "off" before the /v1/idle request,   *)
(* "on" while its timer runs, "stopped" once a failed push cancelled the   *)
(* timer; pass is the password of the request, link whether its TCP        *)
(* connection is up, ts params.ts (from: its first value), newest          *)
(* m_NewestMsgTimestamp, pinged whether m_LastClientPing was set (it is 0  *)
(* in a new ApiClient, so the first poll pings).                           *)
NoSession == [st |-> "off", pass |-> Password, link |-> "up", ts |-> 0, from |-> 0,
              newest |-> 0, pinged |-> FALSE]

\* max_timestamp: the newest ts of a batch, 0 for an empty batch.
MaxTimestamp(d, ids) ==
    FoldLeft(LAMBDA m, i : IF d.messages[i].ts > m THEN d.messages[i].ts ELSE m, 0, ids)

\* A response of sendMessagesToIdleConn, carrying the batch's max_ts.
Push(d, ids) == [kind |-> "msgs", ids |-> ids, max_ts |-> MaxTimestamp(d, ids)]

\* The store as users/create left it for every user, in some order.
InitStore == FoldLeft(LAMBDA d, n : CreateUser(d, n, Password), EmptyStore, SetToSeq(Users))

(* A listener either was just created (heartbit 0) or comes back after an  *)
(* earlier idle session, whose polls left its heartbit a second ago.       *)
Returning(d, hb) ==
    FoldLeft(LAMBDA e, u : UpdateUserHeartBit(e, LookupUserByName(e, u)[1].id, hb[u]),
             d, SetToSeq(Listeners))

Init ==
    /\ \E hb \in [Listeners -> {0, Epoch - 1}] : db = Returning(InitStore, hb)
    /\ now = Epoch
    /\ queue = <<>>
    /\ ws = [w \in Workers |-> FreeWorker]
    /\ sess = [u \in Users |-> "read"]
    /\ idle = [u \in Users |-> [k \in Sessions |-> NoSession]]
    /\ iwrites = [u \in Users |-> [k \in Sessions |-> <<>>]]
    /\ cur = [u \in Users |-> 0]
    /\ relog = [u \in Users |-> FALSE]
    /\ acked = [u \in Users |-> FALSE]
    /\ shown = [u \in Users |-> {}]
    /\ twice = [u \in Users |-> {}]
    /\ sends = 0
    /\ breaks = 0

-----------------------------------------------------------------------------
(* The clock.  Message timestamps and heartbeats are seconds.              *)
Tick ==
    /\ now < Epoch + MaxTime
    /\ now' = now + 1
    /\ UNCHANGED <<db, queue, ws, sess, sends, Idle>>

(* A client sends /v1/message/send to the name `to` while its request      *)
(* connection is reading: requestFromClientReadHandler routes it,          *)
(* handler_impl validates it and enqueues one task; the connection reads   *)
(* nothing more until the response is written.                             *)
SendRequest(u, to) ==
    /\ sess[u] = "read"
    /\ sends < MaxSends
    /\ queue' = Append(queue, [NoTask EXCEPT !.cmd = "MESSAGE_SEND", !.owner = u,
                                             !.uid = UserId(u), !.to = to])
    /\ sess' = [sess EXCEPT ![u] = "task"]
    /\ sends' = sends + 1
    /\ UNCHANGED <<db, now, ws, Idle>>

(* The response write completes: responseToClientWroteHandler re-arms      *)
(* readCmd on the same connection.                                         *)
ResponseWritten(u) ==
    /\ sess[u] = "write"
    /\ sess' = [sess EXCEPT ![u] = "read"]
    /\ UNCHANGED <<db, now, queue, ws, sends, Idle>>

(* The client opens an idle session: after its first login, or after its   *)
(* idle connection failed and the relogin with m_Password succeeded        *)
(* (onHttpRead's LOGIN branch connects m_HttpIdle, which is not open).     *)
(* onHttpIdleConnect sends /v1/idle with heartbit = the heartbeat the      *)
(* login returned, and the password m_Password.  A new ApiClient's idle    *)
(* branch stores it as params.ts, writes the acknowledgement and arms the  *)
(* polling timer (sendOkResponseAndStartIdle) without checking anything.   *)
(* The login's task is taken as served just before: its heartbit is the   *)
(* store's when the session opens.                                        *)
IdleStart(u) ==
    /\ \/ cur[u] = 0
       \/ relog[u] /\ idle[u][cur[u]].pass = Password /\ cur[u] < Cardinality(Sessions)
    /\ LET k  == cur[u] + 1
           hb == UserRow(u).heartbit
       IN \E p \in IF cur[u] = 0 THEN IdlePasswords ELSE {idle[u][cur[u]].pass} :
             /\ idle' = [idle EXCEPT ![u][k] = [NoSession EXCEPT !.st = "on", !.pass = p,
                                                                 !.ts = hb, !.from = hb]]
             /\ iwrites' = [iwrites EXCEPT ![u][k] = <<Ack>>]
             /\ cur' = [cur EXCEPT ![u] = k]
             /\ relog' = [relog EXCEPT ![u] = FALSE]
    /\ UNCHANGED <<db, now, queue, ws, sess, sends, acked, shown, twice, breaks>>

\* The tasks queued, the IDLE task of session k a worker has popped, and
\* the writes of session k not completed.
Held(u, k) == {w \in Workers : ws[w].pc = "popped" /\ ws[w].task.cmd = "IDLE"
                               /\ ws[w].task.owner = u /\ ws[w].task.sid = k}

Pending(u, k) == Len(queue) + Cardinality(Held(u, k)) + Len(iwrites[u][k])

\* Positions a pending write may hold: the bound, and a task per worker.
WriteSlots == 1..MaxQueue + Cardinality(Workers)

\* The IDLE task the timer handler enqueues for session k.
IdleTask(u, k, s, ping) ==
    [NoTask EXCEPT !.cmd = "IDLE", !.owner = u, !.sid = k, !.uid = UserId(u),
                   !.pass = s.pass, !.ts = s.ts, !.ping = ping]

(* Mutant: params.ts taken from m_NewestMsgTimestamp without the ">"      *)
(* guard, so an empty ping (max_ts 0) or a fresh session resets it.        *)
TimerFireUnguarded(u, k, ping) ==
    /\ idle[u][k].st = "on"
    /\ Pending(u, k) < MaxQueue
    /\ ping \/ idle[u][k].pinged
    /\ LET s == [idle[u][k] EXCEPT !.ts = idle[u][k].newest, !.pinged = TRUE]
       IN /\ idle' = [idle EXCEPT ![u][k] = s]
          /\ queue' = Append(queue, IdleTask(u, k, s, ping))
    /\ UNCHANGED <<db, now, ws, sess, sends, iwrites, cur, relog, acked, shown, twice, breaks>>

(* timerWaitTaskResultHandler: advance params.ts to m_NewestMsgTimestamp   *)
(* if that is newer, enqueue an IDLE task with the watermark and the      *)
(* request's password, flagged as ping if the last ping is over 5 seconds *)
(* old, and re-arm the timer.  It runs until the timer is cancelled,       *)
(* whether or not the connection is still there.  The seconds since the    *)
(* last ping are not counted: a poll may ping whenever one has been sent,  *)
(* and the first poll of an ApiClient (m_LastClientPing 0) must.           *)
TimerFire(u, k, ping) ==
    /\ idle[u][k].st = "on"
    /\ Pending(u, k) < MaxQueue
    /\ ping \/ idle[u][k].pinged
    /\ LET old == idle[u][k]
           s   == [old EXCEPT !.ts = IF old.newest > old.ts THEN old.newest ELSE old.ts,
                              !.pinged = TRUE]
       IN /\ idle' = [idle EXCEPT ![u][k] = s]
          /\ queue' = Append(queue, IdleTask(u, k, s, ping))
    /\ UNCHANGED <<db, now, ws, sess, sends, iwrites, cur, relog, acked, shown, twice, breaks>>


\* Mutant: the push's error handler returns without cancelling the timer.
WriteFailedKeepTimer(u, k, wr) == idle' = idle

(* A write on a broken idle connection completes with an error.  The       *)
(* handler of a push logs it and cancels the timer and the socket          *)
(* (sendMessagesToIdleConn): the session stops.  The handler of the        *)
(* acknowledgement ignores it (sendOkResponseAndStartIdle's TODO), and     *)
(* that of a 403 re-arms readCmd, whose read fails at once.                 *)
WriteFailed(u, k, wr) ==
    idle' = IF wr.kind = "msgs" THEN [idle EXCEPT ![u][k].st = "stopped"] ELSE idle

(* onHttpIdleRead on the response wr: a non-200 status is an error: the    *)
(* client clears m_IdleState, replaces m_HttpIdle, which closes the         *)
(* connection, and reconnects m_Http to log in again.  A 200 is the        *)
(* acknowledgement while m_IdleState is false, else a batch to display.    *)
ClientReads(u, k, wr) ==
    \/ /\ wr.kind = "error"
       /\ idle' = [idle EXCEPT ![u][k].link = "down"]
       /\ acked' = [acked EXCEPT ![u] = FALSE]
       /\ relog' = [relog EXCEPT ![u] = TRUE]
       /\ UNCHANGED <<shown, twice>>
    \/ /\ wr.kind # "error" /\ ~acked[u]
       /\ acked' = [acked EXCEPT ![u] = TRUE]
       /\ UNCHANGED <<shown, twice, relog>>
    \/ /\ wr.kind # "error" /\ acked[u]
       /\ shown' = [shown EXCEPT ![u] = @ \cup ToSet(wr.ids)]
       /\ twice' = [twice EXCEPT ![u] = @ \cup (ToSet(wr.ids) \cap shown[u])]
       /\ UNCHANGED <<acked, relog>>

(* Write i of session k completes; stamp is what the handler of a push     *)
(* stores in m_NewestMsgTimestamp.  Writes are issued from worker threads  *)
(* with no strand; when two overlap, asio gives no order, so with          *)
(* ReorderWrites any pending write may complete first.  On a live link the *)
(* client reads the response (a live link is always the client's current   *)
(* session: it drops the others); on a broken one the write fails.         *)
Completed(u, k, i, stamp) ==
    /\ i \in DOMAIN iwrites[u][k]
    /\ ReorderWrites \/ i = 1
    /\ LET wr == iwrites[u][k][i]
       IN /\ iwrites' = [iwrites EXCEPT ![u][k] = RemoveAt(@, i)]
          /\ \/ /\ idle[u][k].link = "up" /\ wr.kind # "error"
                /\ idle' = IF wr.kind = "msgs" THEN [idle EXCEPT ![u][k].newest = stamp]
                                               ELSE idle
                /\ ClientReads(u, k, wr)
             \/ /\ idle[u][k].link = "up" /\ wr.kind = "error"
                /\ ClientReads(u, k, wr)
             \/ /\ idle[u][k].link = "down"
                /\ WriteFailed(u, k, wr)
                /\ UNCHANGED <<acked, shown, twice, relog>>
    /\ UNCHANGED <<db, now, queue, ws, sess, sends, cur, breaks>>

(* Mutant: the write handler stores max_ts + 1, a tempting fix for the     *)
(* same-second limitation, which puts the watermark ahead of the clock.    *)
IdleWriteDoneNextSecond(u, k, i) == Completed(u, k, i, iwrites[u][k][i].max_ts + 1)

(* The write handler of a push sets m_NewestMsgTimestamp to the batch's    *)
(* max_ts (0 for an empty ping).                                           *)
IdleWriteDone(u, k, i) == Completed(u, k, i, iwrites[u][k][i].max_ts)

(* The link of the client's idle connection breaks.                        *)
Break(u) ==
    /\ breaks < MaxBreaks
    /\ cur[u] > 0 /\ idle[u][cur[u]].link = "up"
    /\ idle' = [idle EXCEPT ![u][cur[u]].link = "down"]
    /\ breaks' = breaks + 1
    /\ UNCHANGED <<db, now, queue, ws, sess, sends, iwrites, cur, relog, acked, shown, twice>>

(* The client's pending read on the broken connection fails:               *)
(* onHttpIdleRead's error path, as for a non-200 status.                   *)
IdleReadFail(u) ==
    /\ cur[u] > 0 /\ idle[u][cur[u]].link = "down" /\ ~relog[u]
    /\ acked' = [acked EXCEPT ![u] = FALSE]
    /\ relog' = [relog EXCEPT ![u] = TRUE]
    /\ UNCHANGED <<db, now, queue, ws, sess, sends, idle, iwrites, cur, shown, twice, breaks>>

(* A worker thread of processQueue takes the head task (getTask).          *)
Pop(w) ==
    /\ ws[w].pc = "free"
    /\ queue # <<>>
    /\ ws' = [ws EXCEPT ![w] = [pc |-> "popped", task |-> Head(queue), msg |-> NoMsg]]
    /\ queue' = Tail(queue)
    /\ UNCHANGED <<db, now, sess, sends, Idle>>

(* The IDLE branch: lookup_check_pass answers a wrong password 403 on the  *)
(* idle connection.  Otherwise refresh the heartbeat, collect from every   *)
(* chat of the user the (at most max_count) newest messages newer than the *)
(* task's watermark, flag them READ, and push them to the task's session;  *)
(* with nothing found, push an empty batch only if the task is a ping.     *)
RunIdle(w) ==
    /\ ws[w].pc = "popped"
    /\ ws[w].task.cmd = "IDLE"
    /\ LET t == ws[w].task
       IN \/ /\ t.pass # Password
             /\ iwrites' = [iwrites EXCEPT ![t.owner][t.sid] = Append(@, Refusal)]
             /\ UNCHANGED db
          \/ /\ t.pass = Password
             /\ LET db1   == UpdateUserHeartBit(db, t.uid, now)
                    found == FoldLeft(LAMBDA acc, c : acc \o GetMessages(db1, c, t.ts, MaxCount),
                                      <<>>, LookupChatsForUserId(db1, t.uid))
                IN /\ db' = MarkRead(db1, found)
                   /\ iwrites' = [iwrites EXCEPT ![t.owner][t.sid] =
                         @ \o (IF found # <<>> \/ t.ping THEN <<Push(db1, found)>> ELSE <<>>)]
    /\ ws' = [ws EXCEPT ![w] = FreeWorker]
    /\ UNCHANGED <<now, queue, sess, sends, idle, cur, relog, acked, shown, twice, breaks>>

(* Mutant: the 404/500 branch returns without sendError.                  *)
SendLookupNoReply(w) ==
    /\ ws[w].pc = "popped"
    /\ ws[w].task.cmd = "MESSAGE_SEND"
    /\ LET t  == ws[w].task
           to == LookupUserByName(db, t.to)
       IN \/ /\ Len(to) # 1
             /\ ws' = [ws EXCEPT ![w] = FreeWorker]
             /\ UNCHANGED sess
          \/ /\ Len(to) = 1
             /\ ws' = [ws EXCEPT ![w].pc = "save",
                                 ![w].msg = [user_from |-> t.uid, chat_to |-> to[1].self_chat_id,
                                             ts |-> now, flags |-> "UNREAD"]]
             /\ UNCHANGED sess
    /\ UNCHANGED <<db, now, queue, sends, Idle>>

(* The MESSAGE_SEND branch, first part: resolve the recipient by name; an  *)
(* unknown (404) or ambiguous (500) name is answered with an error at      *)
(* once.  Otherwise the message is stamped with time(NULL) outside the     *)
(* store's lock.                                                           *)
SendLookup(w) ==
    /\ ws[w].pc = "popped"
    /\ ws[w].task.cmd = "MESSAGE_SEND"
    /\ LET t  == ws[w].task
           to == LookupUserByName(db, t.to)
       IN \/ /\ Len(to) # 1
             /\ sess' = [sess EXCEPT ![t.owner] = "write"]
             /\ ws' = [ws EXCEPT ![w] = FreeWorker]
          \/ /\ Len(to) = 1
             /\ ws' = [ws EXCEPT ![w].pc = "save",
                                 ![w].msg = [user_from |-> t.uid, chat_to |-> to[1].self_chat_id,
                                             ts |-> now, flags |-> "UNREAD"]]
             /\ UNCHANGED sess
    /\ UNCHANGED <<db, now, queue, sends, Idle>>

(* ... second part: saveMessage under the lock, then sendOkResponse.       *)
SendSave(w) ==
    /\ ws[w].pc = "save"
    /\ db' = SaveMessage(db, ws[w].msg)
    /\ sess' = [sess EXCEPT ![ws[w].task.owner] = "write"]
    /\ ws' = [ws EXCEPT ![w] = FreeWorker]
    /\ UNCHANGED <<now, queue, sends, Idle>>

-----------------------------------------------------------------------------
(* A worker thread's step: which one it takes is fixed by where it is.     *)
WorkerStep(w) == Pop(w) \/ RunIdle(w) \/ SendLookup(w) \/ SendSave(w)

Next ==
    \/ Tick
    \/ \E u \in Senders :
          \/ \E to \in Names : SendRequest(u, to)
          \/ ResponseWritten(u)
    \/ \E u \in Listeners :
          \/ IdleStart(u)
          \/ Break(u)
          \/ IdleReadFail(u)
          \/ \E k \in Sessions :
                \/ \E ping \in BOOLEAN : TimerFire(u, k, ping)
                \/ \E i \in WriteSlots : IdleWriteDone(u, k, i)
    \/ \E w \in Workers : WorkerStep(w)

(* Worker threads loop while the server runs and asio completes writes:    *)
(* those steps are weakly fair.  A timer fires whatever the queue holds,  *)
(* and once 5 seconds pass its next poll pings; only the bound MaxQueue,   *)
(* shared by the sessions, disables it, so a pinging poll is strongly      *)
(* fair: another session keeping the queue at the bound does not starve  *)
(* it.  Clients, the clock's seconds and the network's faults are not      *)
(* required to act.                                                        *)
Fairness ==
    /\ \A w \in Workers : WF_vars(WorkerStep(w))
    /\ \A u \in Senders : WF_vars(ResponseWritten(u))
    /\ \A u \in Listeners, k \in Sessions :
          /\ SF_vars(TimerFire(u, k, TRUE))
          /\ WF_vars(\E i \in WriteSlots : IdleWriteDone(u, k, i))

Spec == Init /\ [][Next]_vars /\ Fairness

-----------------------------------------------------------------------------
Task == [cmd : {"NONE", "IDLE", "MESSAGE_SEND"}, owner : Names \cup {NoName},
         sid : Sessions \cup {0}, uid : Nat, pass : IdlePasswords,
         to : Names \cup {NoName}, ts : Nat, ping : BOOLEAN]

TypeOK ==
    /\ now \in Epoch..Epoch + MaxTime
    /\ queue \in Seq(Task)
    /\ \A w \in Workers : ws[w].pc \in {"free", "popped", "save"} /\ ws[w].task \in Task
    /\ sess \in [Users -> {"read", "task", "write"}]
    /\ \A u \in Users, k \in Sessions :
          /\ idle[u][k].st \in {"off", "on", "stopped"} /\ idle[u][k].link \in {"up", "down"}
          /\ idle[u][k].pass \in IdlePasswords /\ idle[u][k].pinged \in BOOLEAN
          /\ idle[u][k].from <= idle[u][k].ts /\ idle[u][k].ts \in 0..now
          /\ idle[u][k].newest \in Nat
    /\ cur \in [Users -> Sessions \cup {0}] /\ relog \in [Users -> BOOLEAN]
    /\ acked \in [Users -> BOOLEAN]
    /\ \A u \in Users : shown[u] \cup twice[u] \subseteq DOMAIN db.messages
    /\ breaks \in 0..MaxBreaks

(* The chats the user's idle scan covers: its membership rows.             *)
ChatsOf(u) == ToSet(LookupChatsForUserId(db, UserId(u)))

(* Every /v1/message/send request is eventually answered and its request   *)
(* connection reads again: the worker answers on every branch, and the     *)
(* idle tasks the timers keep enqueueing cannot starve it.                 *)
ResponseEventually == \A u \in Senders : sess[u] = "task" ~> sess[u] = "read"

(* No message is displayed twice on a client's idle channel: the           *)
(* watermark is meant to stop re-delivery (spec 4.5, 8).  getMessages does *)
(* not filter on the READ flag, so only params.ts keeps a shown message    *)
(* from coming back.  Every empty ping push sets m_NewestMsgTimestamp to 0 *)
(* (apiclient.cpp 406), and only timerWaitTaskResultHandler's ">" test     *)
(* (491) keeps the next poll from asking again for everything since 0.      *)
NoDuplicateDisplay == \A u \in Users : twice[u] = {}

(* No message is lost below the watermark: every message to one of the    *)
(* user's chats that is newer than the first idle session's first          *)
(* watermark and strictly older than the current session's watermark has   *)
(* been displayed, across failed pushes and the relogins that follow them  *)
(* (a new session starts from the heartbit the last poll left).  The       *)
(* documented limitation of spec 9 is excluded: a message stamped in the   *)
(* same second as a message already displayed may be missed.               *)
ShownSeconds(u) == {db.messages[j].ts : j \in shown[u]}

NoLostBelowWatermark ==
    \A u \in Users : cur[u] > 0 /\ idle[u][cur[u]].st = "on" =>
        \A i \in DOMAIN db.messages :
            LET m == db.messages[i]
            IN (/\ m.chat_to \in ChatsOf(u)
                /\ idle[u][1].from < m.ts /\ m.ts < idle[u][cur[u]].ts
                /\ m.ts \notin ShownSeconds(u))
                 => i \in shown[u]

(* An idle session whose link broke is released: its ApiClient keeps       *)
(* polling until a push fails, and the failed write's handler cancels the  *)
(* timer and the socket (apiclient.cpp 399-404), so the dead session stops *)
(* enqueueing IDLE tasks.  A session refused for its password writes only  *)
(* 403s, whose failure is never acted on; it is left out here.  Such a     *)
(* session stays dead until it stops, so with finitely many breaks this   *)
(* says that every one of them stops.                                      *)
Leaked(u) ==
    \E k \in Sessions : idle[u][k].st = "on" /\ idle[u][k].link = "down"
                       /\ idle[u][k].pass = Password

SessionReleased == \A u \in Listeners : []<>~Leaked(u)
=============================================================================
