----------------------------- MODULE ChatServer -----------------------------
(***************************************************************************)
(* The request side of the server: the router of ApiClient                 *)
(* (src/server/src/apiclient.cpp) on each client's request connection, the *)
(* task queue (src/common/lock_queue.hpp) and the command branches of      *)
(* DatabaseWorker::processQueue (src/server/src/database_worker.cpp) over   *)
(* the in-memory store (module Store).                                     *)
(*                                                                         *)
(* A connection reads one request, routes it, and either answers at once   *)
(* (400, 404) or enqueues one task; it reads again only when the response  *)
(* write completes (responseToClientWroteHandler), so a connection has at  *)
(* most one request in flight.  A worker thread pops a task and runs its   *)
(* branch.  A branch is one step up to its store write: every store call   *)
(* holds the store's one mutex, no row is ever removed or renamed, and a   *)
(* branch writes at most once, so the lookups it makes before its write    *)
(* see the rows they would see right before it.  The two branches that     *)
(* save a message take msg.ts = time(NULL) outside the mutex, so they are  *)
(* split there: the worker holds the stamped message until it saves it,    *)
(* and other workers run meanwhile.                                        *)
(* The request body is abstracted to the fields the branches read; a body  *)
(* that parse_meta rejects, or a bad Content-Type, is a request with       *)
(* ok = FALSE.  The idle channel is modelled by IdleDelivery: here /v1/idle *)
(* only ends the request loop of its connection.                           *)
(***************************************************************************)
EXTENDS Naturals, Sequences, SequencesExt, FiniteSets, Store

CONSTANTS Clients,      \* connections to the server
          Requests,     \* the requests a client may send (records, see MCChatServer)
          MaxRequests,  \* bound on the requests sent in a behaviour
          Now,          \* time(NULL) when the behaviour starts
          MaxTime,      \* bound on the seconds the clock advances
          CountWidth,   \* the width of get_msg_opt_t::max_count (32 in the code)
          Workers       \* the DatabaseWorker threads

VARIABLES db,       \* the store
          queue,    \* m_Queue of DatabaseWorker
          sess,     \* per connection: "read", "task", "write" or "idle"
          answers,  \* the answers the workers gave, as records
          sent,     \* requests sent so far
          clock,    \* the latest time(NULL) a worker read, in seconds
          held      \* per worker: <<>>, or the message it stamped and has not saved

vars == <<db, queue, sess, answers, sent, clock, held>>

\* The password a client sends: crc32 of it equals the stored one iff pass.
\* Collisions of crc32 are not modelled.
PassHash(ok) == IF ok THEN 1 ELSE 2

\* The route table of requestFromClientReadHandler.
Route == [r \in {"/v1/message/send", "/v1/message/sendchat", "/v1/user/login",
                 "/v1/user/create", "/v1/chat/create", "/v1/user/history",
                 "/v1/group/history", "/v1/user/status", "/v1/chat/adduser"} |->
            CASE r = "/v1/message/send"     -> "MESSAGE_SEND"
              [] r = "/v1/message/sendchat" -> "MESSAGE_SEND_CHAT"
              [] r = "/v1/user/login"       -> "USER_LOGIN"
              [] r = "/v1/user/create"      -> "USER_CREATE"
              [] r = "/v1/chat/create"      -> "CHAT_CREATE"
              [] r = "/v1/user/history"     -> "USER_HISTORY"
              [] r = "/v1/group/history"    -> "CHAT_HISTORY"
              [] r = "/v1/user/status"      -> "USER_STATUS"
              [] r = "/v1/chat/adduser"     -> "CHAT_ADDUSER"]

\* The uid a client puts in its request: the id login gave it for the name
\* `as`, or 0 when it has none.
Uid(as) == LET rows == LookupUserByName(db, as) IN IF rows = <<>> THEN 0 ELSE rows[1].id

Init ==
    /\ db = EmptyStore
    /\ queue = <<>>
    /\ sess = [c \in Clients |-> "read"]
    /\ answers = {}
    /\ sent = 0
    /\ clock = Now
    /\ held = [w \in Workers |-> <<>>]

-----------------------------------------------------------------------------
(* sendErrorResponse on the connection: the error is written, no task.    *)
Refuse(c) ==
    /\ sess' = [sess EXCEPT ![c] = "write"]
    /\ UNCHANGED queue

(* handler_impl: a bad Content-Type or a body parse_meta rejects is        *)
(* answered 400; otherwise the request becomes one task (putTask).         *)
HandlerImpl(c, r) ==
    \/ ~r.ok /\ Refuse(c)
    \/ /\ r.ok
       /\ queue' = Append(queue, [cmd |-> Route[r.route], client |-> c, uid |-> Uid(r.as),
                                  password |-> PassHash(r.pass), name |-> r.name,
                                  add |-> r.add, count |-> r.count])
       /\ sess' = [sess EXCEPT ![c] = "task"]

(* requestFromClientReadHandler: a valid /v1/idle is acknowledged and the  *)
(* connection is not read again (an invalid one is answered 400); a path   *)
(* of the route table goes to handler_impl; any other path is answered     *)
(* 404.                                                                    *)
ReadRequest(c, r) ==
    /\ sess[c] = "read"
    /\ sent < MaxRequests
    /\ sent' = sent + 1
    /\ \/ /\ r.route = "/v1/idle" /\ r.ok
          /\ sess' = [sess EXCEPT ![c] = "idle"]
          /\ UNCHANGED queue
       \/ r.route = "/v1/idle" /\ ~r.ok /\ Refuse(c)
       \/ r.route \in DOMAIN Route /\ HandlerImpl(c, r)
       \/ r.route \notin DOMAIN Route \cup {"/v1/idle"} /\ Refuse(c)
    /\ UNCHANGED <<db, answers, clock, held>>

(* responseToClientWroteHandler: the response is written, read again.      *)
ResponseWritten(c) ==
    /\ sess[c] = "write"
    /\ sess' = [sess EXCEPT ![c] = "read"]
    /\ UNCHANGED <<db, queue, answers, sent, clock, held>>

-----------------------------------------------------------------------------
(* The checks of the branches, as the error code they answer (0: passed).  *)

\* lookup_check_pass: the requester's uid must name a user (else 409) whose
\* stored password matches (else 403).
CheckPass(t) ==
    LET u == LookupUserById(db, t.uid)
    IN IF u.id = 0 THEN 409 ELSE IF u.password # t.password THEN 403 ELSE 0

\* lookup_check_pass_by_name: exactly one user has the name (none: 404,
\* several: 500), and, if asked, its password matches (else 403).
CheckByName(name, password, checkPass) ==
    LET rows == LookupUserByName(db, name)
    IN CASE rows = <<>>                                  -> 404
         [] Len(rows) > 1                                -> 500
         [] checkPass /\ rows[1].password # password     -> 403
         [] OTHER                                        -> 0

\* A branch answers the code of its first failing check, else 200.
Outcome(checks) == LET failed == SelectSeq(checks, LAMBDA x : x # 0)
                   IN IF failed = <<>> THEN 200 ELSE Head(failed)

\* The worker pops the head task t and answers it with code: the connection
\* goes to "write", the answer is recorded.  id is the user id a create or
\* login returns, hits the number of chats the name resolved to, msgs the
\* messages (row indices) a history returns.
Reply(t, code, id, hits, msgs) ==
    /\ sess' = [sess EXCEPT ![t.client] = "write"]
    /\ answers' = answers \cup {[cmd |-> t.cmd, name |-> t.name, code |-> code,
                                 id |-> id, hits |-> hits, msgs |-> msgs]}

Answer(t, code, id, hits) == Reply(t, code, id, hits, <<>>)

Popped(cmd) == queue # <<>> /\ Head(queue).cmd = cmd /\ queue' = Tail(queue)

T == Head(queue)

-----------------------------------------------------------------------------
(* The branches of processQueue, in the order of the code.                 *)

\* USER_CREATE: createUser with crc32 of the password; 409 if the name is taken.
UserCreate ==
    /\ Popped("USER_CREATE")
    /\ db' = CreateUser(db, T.name, T.password)
    /\ IF UserNameTaken(db, T.name) THEN Answer(T, 409, 0, 0)
                                    ELSE Answer(T, 200, db.user_autoincrement, 0)
    /\ UNCHANGED <<sent, clock>>

\* USER_STATUS: check the requester, resolve the target by name without its
\* password; the body (the target's row) does not change state.
UserQuery(cmd) ==
    /\ Popped(cmd)
    /\ Answer(T, Outcome(<<CheckPass(T), CheckByName(T.name, 0, FALSE)>>), 0, 0)
    /\ UNCHANGED <<db, sent, clock>>

(***************************************************************************)
(* mix_from_and_to_messages: the two lists are concatenated, sorted by ts  *)
(* newest first with std::sort, and cut to the first max.  std::sort is    *)
(* not stable: the order of rows with equal ts is unspecified, so the      *)
(* operator gives the set of results the sort may produce.  A row that is  *)
(* in both lists is in tmp twice.                                          *)
(***************************************************************************)
RECURSIVE SortNewest(_, _)
SortNewest(store, tmp) ==
    IF tmp = <<>> THEN {<<>>}
    ELSE LET ts(k)  == store.messages[tmp[k]].ts
             firsts == {k \in DOMAIN tmp : \A j \in DOMAIN tmp : ts(j) <= ts(k)}
         IN UNION {{<<tmp[k]>> \o rest : rest \in SortNewest(store, RemoveAt(tmp, k))} : k \in firsts}

\* Mutant: the sort's comparator reversed (msg1.ts < msg2.ts), oldest first.
MixOldestFirst(store, from, to, max) ==
    {IF Len(sorted) <= max THEN sorted ELSE SubSeq(sorted, 1, max) :
        sorted \in {Reverse(s) : s \in SortNewest(store, from \o to)}}

MixFromAndTo(store, from, to, max) ==
    {IF Len(sorted) <= max THEN sorted ELSE SubSeq(sorted, 1, max) : sorted \in SortNewest(store, from \o to)}

\* The "dirty hack" of USER_HISTORY: opt.max_count = count * 2, computed in
\* uint64_t and stored in the uint32_t max_count.
MaxCount(count) == (count * 2) % (2 ^ CountWidth)

(* USER_HISTORY: check the requester, resolve the target by name without   *)
(* its password, select the requester's messages to the target's personal  *)
(* chat and the target's to the requester's, at most max_count each, and   *)
(* answer the mix of both cut to count (to_api_format only renames rows).  *)
(* The two selectMessages calls of USER_HISTORY for task t and the mix of  *)
(* their results: every answer the branch may give on success.            *)
HistoryMix(t) ==
    LET from     == LookupUserById(db, t.uid)
        to       == LookupUserByName(db, t.name)[1]
        msgsTo   == SelectMessages(db, {i \in DOMAIN db.messages :
                                          /\ db.messages[i].user_from = from.id
                                          /\ db.messages[i].chat_to = to.self_chat_id},
                                   MaxCount(t.count))
        msgsFrom == SelectMessages(db, {i \in DOMAIN db.messages :
                                          /\ db.messages[i].user_from = to.id
                                          /\ db.messages[i].chat_to = from.self_chat_id},
                                   MaxCount(t.count))
    IN MixFromAndTo(db, msgsFrom, msgsTo, t.count)

HistoryCode(t) == Outcome(<<CheckPass(t), CheckByName(t.name, 0, FALSE)>>)

UserHistory ==
    /\ Popped("USER_HISTORY")
    /\ IF HistoryCode(T) # 200 THEN Answer(T, HistoryCode(T), 0, 0)
       ELSE \E mix \in HistoryMix(T) : Reply(T, 200, 0, 0, mix)
    /\ UNCHANGED <<db, sent, clock>>

\* msg.ts = time(NULL): a branch that saves a message reads the clock, which
\* has moved on by any number of seconds since it was last read (within
\* MaxTime).  The clock is read nowhere else, so it only moves here.
\* Workers read it in turn, so a later stamp is never older.
Stamp(saves) ==
    IF saves THEN clock' \in clock..Now + MaxTime ELSE clock' = clock

\* Worker w has stamped msg for task t and goes on to save it; hits is what
\* the answer will report.
Hold(w, t, msg, hits) ==
    /\ held' = [held EXCEPT ![w] = <<[t |-> t, msg |-> msg, hits |-> hits]>>]
    /\ UNCHANGED <<sess, answers>>

\* A branch that saves: the checks answered code; with 200, the message msg
\* is stamped and held, else the error is answered.
StampOrAnswer(w, code, msg, hits) ==
    /\ Stamp(code = 200)
    /\ IF code = 200 THEN Hold(w, T, [msg EXCEPT !.ts = clock'], hits)
                      ELSE Answer(T, code, 0, hits) /\ UNCHANGED held

\* The personal chat of the one user named name (0 if there is none).
RecipientChat(name) ==
    LET rows == LookupUserByName(db, name) IN IF rows = <<>> THEN 0 ELSE rows[1].self_chat_id

\* MESSAGE_SEND: check the requester, resolve the recipient (none: 404,
\* several: 500), stamp the message to its personal chat.
MessageSend(w) ==
    /\ Popped("MESSAGE_SEND")
    /\ LET code == Outcome(<<CheckPass(T), CheckByName(T.name, 0, FALSE)>>)
       IN StampOrAnswer(w, code, [user_from |-> T.uid, ts |-> 0, flags |-> "UNREAD",
                                  chat_to |-> RecipientChat(T.name)], 0)
    /\ UNCHANGED <<db, sent>>

\* The rest of both sending branches: saveMessage under the store's mutex,
\* then sendOkResponse.
SaveHeld(w) ==
    /\ held[w] # <<>>
    /\ db' = SaveMessage(db, held[w][1].msg)
    /\ Answer(held[w][1].t, 200, 0, held[w][1].hits)
    /\ held' = [held EXCEPT ![w] = <<>>]
    /\ UNCHANGED <<queue, sent, clock>>

\* Mutant: login answers the user's personal chat id in place of its id.
UserLoginChatId ==
    /\ Popped("USER_LOGIN")
    /\ LET code == Outcome(<<CheckByName(T.name, T.password, TRUE)>>)
       IN Answer(T, code, IF code = 200 THEN LookupUserByName(db, T.name)[1].self_chat_id ELSE 0, 0)
    /\ UNCHANGED <<db, sent, clock>>

\* Mutant: login answers the raw check, 0 in place of 200 on success.
UserLoginRawCode ==
    /\ Popped("USER_LOGIN")
    /\ LET code == CheckByName(T.name, T.password, TRUE)
       IN Answer(T, code, IF code = 0 THEN LookupUserByName(db, T.name)[1].id ELSE 0, 0)
    /\ UNCHANGED <<db, sent, clock>>

\* USER_LOGIN: resolve the user by name and check its password.
UserLogin ==
    /\ Popped("USER_LOGIN")
    /\ LET code == Outcome(<<CheckByName(T.name, T.password, TRUE)>>)
       IN Answer(T, code, IF code = 200 THEN LookupUserByName(db, T.name)[1].id ELSE 0, 0)
    /\ UNCHANGED <<db, sent, clock>>

\* CHAT_CREATE: check the requester, createChat with it as first member;
\* 409 if a chat has the name.
ChatCreate ==
    /\ Popped("CHAT_CREATE")
    /\ LET code == Outcome(<<CheckPass(T), IF ChatNameTaken(db, T.name) THEN 409 ELSE 0>>)
       IN /\ db' = IF code = 200 THEN CreateChat(db, T.name, T.uid) ELSE db
          /\ Answer(T, code, 0, 0)
    /\ UNCHANGED <<sent, clock>>

\* Mutant: the unknown-chat branch continues without sendErrorResponse.
ChatAddUserSilent ==
    /\ Popped("CHAT_ADDUSER")
    /\ LET pre   == <<CheckPass(T), CheckByName(T.add, 0, FALSE)>>
           chats == LookupChatByName(db, T.name)
           code  == Outcome(pre \o <<IF Len(chats) # 1 THEN 404 ELSE 0>>)
       IN /\ db' = IF code = 200
                   THEN AddUserToChat(db, chats[1].id, LookupUserByName(db, T.add)[1].id)
                   ELSE db
          /\ IF code = 404 /\ Outcome(pre) = 200
             THEN UNCHANGED <<sess, answers>>
             ELSE Answer(T, code, 0, IF Outcome(pre) = 200 THEN Len(chats) ELSE 0)
    /\ UNCHANGED <<sent, clock>>

\* CHAT_ADDUSER: check the requester, resolve the user to add by name, then
\* the chat by name: any count but one is answered 404.  Add the membership.
ChatAddUser ==
    /\ Popped("CHAT_ADDUSER")
    /\ LET pre   == <<CheckPass(T), CheckByName(T.add, 0, FALSE)>>
           chats == LookupChatByName(db, T.name)
           code  == Outcome(pre \o <<IF Len(chats) # 1 THEN 404 ELSE 0>>)
       IN /\ db' = IF code = 200
                   THEN AddUserToChat(db, chats[1].id, LookupUserByName(db, T.add)[1].id)
                   ELSE db
          /\ Answer(T, code, 0, IF Outcome(pre) = 200 THEN Len(chats) ELSE 0)
    /\ UNCHANGED <<sent, clock>>

\* MESSAGE_SEND_CHAT: check the requester, resolve the chat by name (any
\* count but one: 404), stamp the message to it.
MessageSendChat(w) ==
    /\ Popped("MESSAGE_SEND_CHAT")
    /\ LET pre   == CheckPass(T)
           chats == LookupChatByName(db, T.name)
           code  == Outcome(<<pre, IF Len(chats) # 1 THEN 404 ELSE 0>>)
       IN StampOrAnswer(w, code, [user_from |-> T.uid, ts |-> 0, flags |-> "UNREAD",
                                  chat_to |-> IF chats = <<>> THEN 0 ELSE chats[1].id],
                        IF pre = 0 THEN Len(chats) ELSE 0)
    /\ UNCHANGED <<db, sent>>

\* The commands processQueue has a branch for.
Handled == {"USER_CREATE", "USER_STATUS", "USER_HISTORY", "MESSAGE_SEND",
            "USER_LOGIN", "CHAT_CREATE", "CHAT_ADDUSER", "MESSAGE_SEND_CHAT"}

\* A task no branch matches (CHAT_HISTORY) is popped and dropped: the loop
\* continues without answering it.
Unhandled ==
    /\ queue # <<>>
    /\ T.cmd \notin Handled
    /\ queue' = Tail(queue)
    /\ UNCHANGED <<db, sess, answers, sent, clock, held>>

\* getTask finds the queue empty: the worker sleeps 10ms and polls again.
Sleep == queue = <<>> /\ UNCHANGED vars

\* A free worker thread pops a task and runs its branch, up to the save.
Serve(w) ==
    /\ held[w] = <<>>
    /\ \/ /\ \/ UserCreate \/ UserQuery("USER_STATUS") \/ UserHistory
             \/ UserLogin \/ ChatCreate \/ ChatAddUser
          /\ UNCHANGED held
       \/ MessageSend(w) \/ MessageSendChat(w)
       \/ Unhandled

\* A worker thread's step: a task, or the save of the message it holds.
Work(w) == Serve(w) \/ SaveHeld(w)

Next ==
    \/ \E c \in Clients : \/ \E r \in Requests : ReadRequest(c, r)
                          \/ ResponseWritten(c)
    \/ \E w \in Workers : Work(w)
    \/ Sleep

(* The worker threads loop while the server runs and asio completes        *)
(* writes: both are weakly fair.  Clients need not send anything.          *)
Spec == Init /\ [][Next]_vars /\ \A w \in Workers : WF_vars(Work(w))
                             /\ \A c \in Clients : WF_vars(ResponseWritten(c))

-----------------------------------------------------------------------------
Codes == {200, 400, 403, 404, 409, 500}

TypeOK ==
    /\ sess \in [Clients -> {"read", "task", "write", "idle"}]
    /\ sent \in 0..MaxRequests
    /\ clock \in Now..Now + MaxTime
    /\ \A w \in Workers : Len(held[w]) <= 1
    /\ \A a \in answers : a.code \in Codes /\ a.id \in Nat /\ a.hits \in Nat

(* The store keeps user names unique (spec 2 and 8): createUser checks the *)
(* name under the store's mutex, so two creates of one name racing on two  *)
(* workers leave one row.                                                  *)
UserNamesUnique ==
    \A i, j \in DOMAIN db.users : db.users[i].name = db.users[j].name => i = j

(* Ids are handed out strictly increasing (spec 8): user ids in the order  *)
(* users are created, chat ids in the order chats are created, the         *)
(* personal chats of createUser and the chats of createChat drawing on one *)
(* counter.                                                                *)
IdsIncrease ==
    /\ \A i, j \in DOMAIN db.users : i < j => db.users[i].id < db.users[j].id
    /\ \A i, j \in DOMAIN db.chats : i < j => db.chats[i].id < db.chats[j].id

(* The membership table is sound: every row joins an existing user to an   *)
(* existing chat, no row is there twice however often chat/adduser adds    *)
(* it, and every user is a member of its personal chat.                     *)
MembershipSound ==
    /\ \A k \in DOMAIN db.chatuser :
          /\ LookupUserById(db, db.chatuser[k].uid).id # 0
          /\ LookupChatById(db, db.chatuser[k].chatid).id # 0
    /\ IsInjective(db.chatuser)
    /\ \A i \in DOMAIN db.users :
          Contains(db.chatuser, [chatid |-> db.users[i].self_chat_id, uid |-> db.users[i].id])

(* The answers agree with one another: a login answered 200 returns the id *)
(* a user/create of that name was answered with, and a user/create is only *)
(* refused 409 after a user/create of that name succeeded.                 *)
AnswersAgree ==
    \A a \in answers :
        /\ a.cmd = "USER_LOGIN" /\ a.code = 200 =>
              [cmd |-> "USER_CREATE", name |-> a.name, code |-> 200, id |-> a.id, hits |-> 0,
               msgs |-> <<>>]
                  \in answers
        /\ a.cmd = "USER_CREATE" /\ a.code = 409 =>
              \E b \in answers : b.cmd = "USER_CREATE" /\ b.name = a.name /\ b.code = 200

(* A chat name that resolves to several chats is a data-integrity          *)
(* contradiction the branches must answer 500, never as not found (spec    *)
(* 4.4, 7): message/sendchat and chat/adduser.                             *)
AmbiguousChatIs500 ==
    \A a \in answers :
        a.cmd \in {"MESSAGE_SEND_CHAT", "CHAT_ADDUSER"} /\ a.hits > 1 => a.code = 500

(* user/history answers the count newest messages between the requester   *)
(* and the target (spec 4.4: the two directions merged, newest first, cut  *)
(* to count): as many as there are, up to count, each once, in descending  *)
(* ts, and none left out that is newer than one returned.  It is checked   *)
(* in every state where a user/history task that passes its checks is at  *)
(* the head of the queue, for every answer the branch may give there, so  *)
(* an answer equal to an earlier one is judged against the rows of now.    *)
(* It rests on the max_count window of selectMessages, which walks rows by *)
(* position, not by ts, on count * 2 fitting in max_count, and on the two  *)
(* selection predicates being disjoint.                                    *)
Between(u, v) ==
    {i \in DOMAIN db.messages :
        \/ db.messages[i].user_from = u.id /\ db.messages[i].chat_to = v.self_chat_id
        \/ db.messages[i].user_from = v.id /\ db.messages[i].chat_to = u.self_chat_id}

IsNewest(msgs, pool, n) ==
    LET ts(i) == db.messages[i].ts
    IN /\ Len(msgs) = IF Cardinality(pool) < n THEN Cardinality(pool) ELSE n
       /\ IsInjective(msgs) /\ Range(msgs) \subseteq pool
       /\ \A k \in 1..Len(msgs) - 1 : ts(msgs[k]) >= ts(msgs[k + 1])
       /\ \A i \in pool \ Range(msgs), k \in DOMAIN msgs : ts(i) <= ts(msgs[k])

HistoryNewest ==
    queue # <<>> /\ T.cmd = "USER_HISTORY" /\ HistoryCode(T) = 200 =>
        \A mix \in HistoryMix(T) :
            IsNewest(mix, Between(LookupUserById(db, T.uid), LookupUserByName(db, T.name)[1]), T.count)

(* Every task of a command processQueue has a branch for is answered: once *)
(* such a task of connection c is queued, c eventually goes on to write a  *)
(* response, whatever the other connections and workers do.                *)
TaskAnswered ==
    \A c \in Clients :
        (\E i \in DOMAIN queue : queue[i].client = c /\ queue[i].cmd \in Handled) ~> sess[c] = "write"

(* Every request a connection hands to the workers is answered: the        *)
(* connection goes on to write a response (spec 4.2: the route table, and  *)
(* an unmatched path is answered 404).                                     *)
ResponseEventually == \A c \in Clients : sess[c] = "task" ~> sess[c] = "write"
=============================================================================
