------------------------------- MODULE Store -------------------------------
(***************************************************************************)
(* The in-memory reference store: class InMemoryConnection of              *)
(* src/server/src/inmemory_dbconn.cpp over the tables of database.hpp.     *)
(*                                                                         *)
(* All connections share one static Storage and one static mutex, and      *)
(* every method takes that mutex for its whole body, so each method is one *)
(* atomic transformation of the store record.  The operators below take    *)
(* the store as their first argument; the modules that use the store       *)
(* (ChatServer, IdleDelivery) decide which steps call them.                 *)
(*                                                                         *)
(* Ids are the autoincrement counters of Storage.  A user, a chat, a       *)
(* membership row and a message are records; the tables are sequences in  *)
(* insertion order, as the std::vectors are, so that a duplicate row is    *)
(* representable.  Names are model values: user names and chat names are   *)
(* drawn from the same set because createUser names the personal chat     *)
(* after the user.                                                         *)
(***************************************************************************)
EXTENDS Naturals, Sequences, SequencesExt

CONSTANTS Names,     \* user and chat names
          NoName     \* the empty std::string of a default-constructed row

\* db::User{} and db::Chat{}: id 0 is the "not found" answer of the store.
NoUser == [id |-> 0, self_chat_id |-> 0, heartbit |-> 0, name |-> NoName, password |-> 0]
NoChat == [id |-> 0, name |-> NoName]

\* Storage as constructed: both autoincrements start at 1, all tables empty.
EmptyStore == [user_autoincrement |-> 1, chat_autoincrement |-> 1,
               chats |-> <<>>, users |-> <<>>, chatuser |-> <<>>, messages |-> <<>>]

\* The rows of a table that satisfy Test, in table order.
Rows(table, Test(_)) == SelectSeq(table, Test)

(***************************************************************************)
(* createUser: fails (returns db::User{}) if any user has the name;        *)
(* otherwise takes the next chat id and user id and appends the personal   *)
(* chat, the user and the membership row.  Chat names are not consulted.   *)
(***************************************************************************)
UserNameTaken(db, name) == Rows(db.users, LAMBDA u : u.name = name) # <<>>

NewUser(db, name, pass) ==
    [id |-> db.user_autoincrement, self_chat_id |-> db.chat_autoincrement,
     heartbit |-> 0, name |-> name, password |-> pass]

\* Mutant: createUser without the scan for the name.
CreateUserUnchecked(db, name, pass) ==
    LET u == NewUser(db, name, pass)
    IN [db EXCEPT !.chat_autoincrement = @ + 1,
                  !.user_autoincrement = @ + 1,
                  !.chats    = Append(@, [id |-> u.self_chat_id, name |-> name]),
                  !.users    = Append(@, u),
                  !.chatuser = Append(@, [chatid |-> u.self_chat_id, uid |-> u.id])]

CreateUser(db, name, pass) ==
    IF UserNameTaken(db, name) THEN db
    ELSE LET u == NewUser(db, name, pass)
         IN [db EXCEPT !.chat_autoincrement = @ + 1,
                       !.user_autoincrement = @ + 1,
                       !.chats    = Append(@, [id |-> u.self_chat_id, name |-> name]),
                       !.users    = Append(@, u),
                       !.chatuser = Append(@, [chatid |-> u.self_chat_id, uid |-> u.id])]

(***************************************************************************)
(* createChat: fails if a chat has the name; otherwise appends the chat    *)
(* and, when the creator's uid is non-zero, its membership row.            *)
(***************************************************************************)
ChatNameTaken(db, name) == Rows(db.chats, LAMBDA c : c.name = name) # <<>>

\* Mutant: createChat reads chat_autoincrement without the post-increment.
CreateChatSameId(db, name, uid) ==
    IF ChatNameTaken(db, name) THEN db
    ELSE LET id == db.chat_autoincrement
         IN [db EXCEPT !.chats    = Append(@, [id |-> id, name |-> name]),
                       !.chatuser = IF uid > 0 THEN Append(@, [chatid |-> id, uid |-> uid])
                                               ELSE @]

CreateChat(db, name, uid) ==
    IF ChatNameTaken(db, name) THEN db
    ELSE LET id == db.chat_autoincrement
         IN [db EXCEPT !.chat_autoincrement = @ + 1,
                       !.chats    = Append(@, [id |-> id, name |-> name]),
                       !.chatuser = IF uid > 0 THEN Append(@, [chatid |-> id, uid |-> uid])
                                               ELSE @]

\* lookupUserByName and lookupChatByName return every row with the name.
LookupUserByName(db, name) == Rows(db.users, LAMBDA u : u.name = name)
LookupChatByName(db, name) == Rows(db.chats, LAMBDA c : c.name = name)

\* lookupUserById and lookupChatById return the first row with the id.
LookupUserById(db, id) ==
    LET m == Rows(db.users, LAMBDA u : u.id = id) IN IF m = <<>> THEN NoUser ELSE Head(m)
LookupChatById(db, id) ==
    LET m == Rows(db.chats, LAMBDA c : c.id = id) IN IF m = <<>> THEN NoChat ELSE Head(m)

\* lookupChatsForUserId: the chat ids of the user's membership rows, in
\* row order (the chats themselves are looked up one by one afterwards).
LookupChatsForUserId(db, uid) ==
    LET rows == Rows(db.chatuser, LAMBDA r : r.uid = uid)
    IN [i \in DOMAIN rows |-> rows[i].chatid]

\* Mutant: addUserToChat without the scan for an existing row.
AddUserToChatAlways(db, chatid, uid) ==
    [db EXCEPT !.chatuser = Append(@, [chatid |-> chatid, uid |-> uid])]

\* addUserToChat: appends the row unless the same (chat, user) row exists.
AddUserToChat(db, chatid, uid) ==
    IF Rows(db.chatuser, LAMBDA r : r.chatid = chatid /\ r.uid = uid) # <<>> THEN db
    ELSE [db EXCEPT !.chatuser = Append(@, [chatid |-> chatid, uid |-> uid])]

\* updateUserHeartBit: sets the heartbeat of the (first) user with the id.
UpdateUserHeartBit(db, uid, ts) ==
    LET i == SelectInSeq(db.users, LAMBDA u : u.id = uid)
    IN IF i = 0 THEN db ELSE [db EXCEPT !.users[i].heartbit = ts]

\* saveMessage appends; the message keeps the ts its caller stamped on it.
SaveMessage(db, msg) == [db EXCEPT !.messages = Append(@, msg)]

(***************************************************************************)
(* getMessages and selectMessages walk the message table from the last     *)
(* row to the first, collect the rows that match and stop as soon as       *)
(* max_count rows are collected (max_count 0: no limit).  The result is    *)
(* the list of the matching row indices (matching: the set of indices     *)
(* whose row matches), newest row first: the first                        *)
(* max_count of them.  A message's row index is its identity.              *)
(***************************************************************************)
NewestFirst(db, matching, maxCount) ==
    LET n   == Len(db.messages)
        idx == Rows([k \in 1..n |-> n + 1 - k], LAMBDA i : i \in matching)
    IN IF maxCount # 0 /\ Len(idx) > maxCount THEN SubSeq(idx, 1, maxCount) ELSE idx

\* getMessages(chatid, opt): rows to the chat strictly newer than opt.ts.
GetMessages(db, chatid, ts, maxCount) ==
    NewestFirst(db, {i \in DOMAIN db.messages : db.messages[i].chat_to = chatid
                                                /\ db.messages[i].ts > ts}, maxCount)

\* ... and it flags every row it returns READ.
MarkRead(db, idx) ==
    [db EXCEPT !.messages = [i \in DOMAIN @ |->
                               IF Contains(idx, i) THEN [@[i] EXCEPT !.flags = "READ"]
                                                   ELSE @[i]]]

\* selectMessages(pred, opt): the rows (given as the set of indices whose
\* row satisfies pred), newest first, at most max_count of them.
SelectMessages(db, matching, maxCount) == NewestFirst(db, matching, maxCount)
=============================================================================
