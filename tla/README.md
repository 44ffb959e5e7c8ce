# TLA+ models of o2chat

This directory holds TLA+ models of the o2chat server (`src/server`), its task queue (`src/common/lock_queue.hpp`), the HTTP framing and the command-line client (`src/client`) with its connection layer (`src/net`). The models are checked with TLC. Every definition is written from the C++ source. `PROJECT.json` maps each definition to the lines it models, and lists the runs, mutants, findings and hazards.

## The system

| part | source | state | operations |
|---|---|---|---|
| in-memory store | `inmemory_dbconn.cpp`, `database.hpp` | users, chats, chatuser and messages vectors; two autoincrement counters; one static mutex | createUser, createChat, addUserToChat, saveMessage, getMessages (marks rows READ), selectMessages, updateUserHeartBit, lookups |
| task queue and workers | `lock_queue.hpp`, `database_worker.cpp` | one FIFO `Queue<db::Task>`; 5 worker threads (`server.cpp:75`) | getTask (or sleep 10ms); one branch per command |
| request session | `apiclient.cpp` | per connection: the request being served, `m_HttpCode` | read a request, route it, answer 400/404 or enqueue a task, write the response, read again |
| idle channel | `apiclient.cpp`, `database_worker.cpp`, `client.cpp` | per idle connection: watermark `params.ts`, `m_NewestMsgTimestamp`, `m_LastClientPing`, the 200ms timer; client `m_IdleState` | the timer enqueues an IDLE task; the worker pushes the new messages; the write handler records max_ts; the client takes the first response as the ack and shows later ones |
| client CLI | `client.cpp`, `event_worker.cpp`, `ui.cpp` | `m_LastCmd`, `m_SelfId`, `m_HeartBit`, two connections, one timeout timer | send a command, parse the answer, connect the idle channel after login, reconnect on error |
| connection layer | `net/client.cpp` | an asio socket (TLS or plain), its `m_Streambuf`, and `AsyncHttpClient`'s reply being built (`m_Reply`, chunk size) | connect, handshake, async read/write, cancel; reading a reply: head, Content-Length body, or chunks |
| HTTP framing | `apiclient.cpp`, `apiclient_utils.cpp`, `utils.cpp`, `http.hpp` | none (pure encoders) | buildApiOkResponse, build_api_error_rsponse, build_request, split, lowercased, case-insensitive header map |

How the parts interact:

- The asio threads run the session handlers.
- The worker threads run the store calls.
- The two meet only in the task queue and in the `ApiClient` objects that tasks point back to.
- A worker answers a task by calling `sendOkResponse`, `sendErrorResponse` or `sendMessagesToIdleConn` on the session. These start an asynchronous write from the worker thread.

The hard behaviours are:

- the interleaving of several workers over one store;
- the idle timer racing the completion of pushes it does not wait for;
- writes on one socket issued from different threads;
- the one FIFO queue shared by requests and the periodic idle tasks;
- on the client, the event worker thread and the io thread sharing `m_LastCmd`, `m_Http` and `m_Password`, and objects dropped while asio still holds raw pointers to them.

## Modules

- **`Store.tla`** models the store as one record (`db`). Each `InMemoryConnection` method is an operator on it. Every method holds the one static mutex for its whole body, so an operator is one atomic transformation.
  - A message is identified by its row index.
  - `NewestFirst` models the backwards walk of getMessages and selectMessages with their `max_count` stop.
- **`ChatServer.tla`** models the request side. It has:
  - connections in `sess`: `read`, `task` (a task is queued), `write` (a response is being written) or `idle`;
  - the task `queue`;
  - the set of `answers` the workers gave;
  - `clock`, the time(NULL) that MESSAGE_SEND stamps on a message;
  - `held`, per worker thread (`Workers`), the message a send branch has stamped and not yet saved, with the task it answers.

  Actions:
  - `ReadRequest` is requestFromClientReadHandler. It calls `HandlerImpl` for routed paths and `Refuse` (sendErrorResponse) for 400 and 404.
  - `ResponseWritten` is responseToClientWroteHandler.
  - There is one action per worker branch: `UserCreate`, `UserQuery` (status), `UserHistory`, `MessageSend`, `UserLogin`, `ChatCreate`, `ChatAddUser` and `MessageSendChat`.
  - `Unhandled` is a task no branch matches, and `Sleep` is an empty getTask.
  - `Serve(w)` is worker thread `w` taking a task from the queue (processQueue); `Work(w)` is `Serve(w)` or `SaveHeld(w)`, one loop iteration of DatabaseWorker::run.
  - The two send branches are split at the stamp. `StampOrAnswer` stamps the message outside the store mutex and `Hold`s it in `held[w]`; `SaveHeld(w)` is the later saveMessage under the mutex and the 200 answer. An early return (404, 401, 500) is answered in the first step. Between the two steps, other workers may stamp and save, so rows can be saved out of stamp order.
  - `Stamp` is `msg.ts = time(NULL)` in the two send branches. The clock has moved on by any number of seconds since it was last read, within `MaxTime`. It is read nowhere else, so it only moves there.

  `UserHistory` translates the USER_HISTORY branch, with these steps:
  - `MaxCount` computes `count * 2` modulo `2^CountWidth`; the code stores it in a uint32.
  - Two `SelectMessages` calls select each direction: the last `max_count` matching rows, in table order.
  - `MixFromAndTo` concatenates both lists, sorts them newest first and cuts the result to `count`.
  - The sort is `SortNewest`, a RECURSIVE operator. It gives every order that `std::sort` may produce, because the sort is not stable and rows with equal ts may come in any order.

  A branch is one step. Each store call it makes is atomic, no row is ever removed or renamed, and a branch makes at most one store write. So its lookups see what they would see just before that write. The request body is abstracted to the fields the branches read. A body that `parse_meta` rejects, or a bad Content-Type, is a request with `ok = FALSE`. A password is right or wrong, and crc32 collisions are not modelled.
- **`IdleDelivery.tla`** models the idle channel against the same store.
  - Each listener has numbered idle sessions `idle[u][k]`, one per server-side ApiClient of its idle connections: `st` (`off`, `on` while the timer runs, `stopped` once a failed push cancelled it), `pass` the password of the /v1/idle request, `link` whether its TCP connection is up, `ts` is `params.ts`, `newest` is `m_NewestMsgTimestamp`, `from` is the heartbit the login returned, and `pinged` whether `m_LastClientPing` was set.
  - `iwrites[u][k]` holds the writes in flight on session k's socket, `cur[u]` is the session of the client's `m_HttpIdle`, `relog[u]` says the client saw it fail and logs in again, `acked` is the client's `m_IdleState`, and `shown` is the set of messages displayed.
  - `Break` breaks the current idle link (at most `MaxBreaks` times). On a broken link a write fails (`WriteFailed`): a failed push cancels the timer and the socket, a failed ack or 403 changes nothing. The client's read fails (`IdleReadFail`), or it reads a 403 (`ClientReads`), and it drops the connection and logs in again; `IdleStart` then opens the next session with the heartbit the login returns. A login with a stale `m_Password` fails, so no new session follows a refused one.
  - With `StalePassword`, the first /v1/idle request may carry a password the store does not have (a login line typed while the first login was in flight replaces `m_Password`). Its IDLE tasks are answered 403 by `lookup_check_pass` (`RunIdle`'s first branch).
  - Senders send `/v1/message/send`.
  - Workers are threads with a `pc`. The MESSAGE_SEND branch is split where the code takes `time(NULL)` outside the store lock (`SendLookup`, then `SendSave`). The IDLE branch is one step (`RunIdle`).
  - `TimerFire` is timerWaitTaskResultHandler. The seconds since the last ping are not counted: the first poll of a session pings, and a later one may. `IdleWriteDone` is the completion of a write together with the client's `onHttpIdleRead`.
  - With `ReorderWrites`, any pending write may complete first. The writes come from worker threads without a strand, so their order is undefined.
  - `Tick` advances the clock, in seconds.
- **`HttpCodec.tla`** models HTTP framing on one connection, byte for byte. The encoders are operators. `Encode` builds the text that buildApiOkResponse, build_api_error_rsponse or build_request writes. The reader is `AsyncHttpClient`'s reply loop.
  - State:
    - `wire` holds the bytes not yet received.
    - `buf` is `m_Streambuf`.
    - `rd` holds the phase (`head`, `body`, `size`, `chunk`, `failed`), the reply being built and the count awaited.
    - `got` holds the replies handed to the handler.
    - `sent` holds the messages written.
  - Actions:
    - `Arrive` moves one byte into the buffer, so every split of the stream into segments is covered.
    - `HandleHeaders` is asyncResponse's `\r\n\r\n` condition plus handleHeaders. It splits the head by CRLF, reads the status line with `stoi` or the request line, and folds `parseHeaderLine` over the rest. It then goes on to the Content-Length read, to the chunk loop or straight to the handler.
    - `ReadBody` is the Content-Length read.
    - `StartProcessChunk` parses the chunk-size line with `stoul(.., 16)` and requires the whole line to be taken. `ProcessChunk` reads `size + 2` bytes and keeps `size`.
  - `Stoul` and `Stoi` model the C library: leading spaces, an optional sign, an optional `0x` in base 16, digit runs, and the out-of-range error. A negative value wraps modulo `2^Width`. `Width` is a reduced `size_t` width, so that the wrap of `chunk_size + 2` can be reached.
- **`ClientSession.tla`** models the client process `Client` (`client.cpp`) over its two `AsyncHttpClient` connections (`net/client.cpp`).
  - `conn[c]` is one object that createConnect made. It records:
    - whether a shared_ptr still owns it (`alive`);
    - `m_IsOpen` (`open`);
    - the link: `none`, `connecting`, `tcp` (connected, TLS not done), `up` or `down`;
    - the operations pending on it (`ops`);
    - the server's side of the connection: requests received (`inq`), answers on their way (`outq`), and whether an IDLE task polls for it (`idleSrv`).
  - `http` and `idle` are `m_Http` and `m_HttpIdle`. `lastCmd`, `selfId`, `password`, `mode`, `idleState` and `timer` are the members of the same names.
  - `ready` is asio's queue of completion handlers. The one io thread runs them in order (`Complete`). A network step completes a pending operation and queues its handler. An operation started on a link it cannot use is queued at once with an error, as asio posts it.
  - `OnUserInput` is one line handled by the event worker (`EventsWorker::processQueue` and `onUserInput`, with `input::parse`). It interleaves with the io thread at whole-handler granularity.
  - `OnHttpConnect` … `OnHttpIdleRead` are the six handlers, each with every branch. The connect lambda's `makeConnected` and the start of the handshake are the first `Complete` branch.
  - `Drop` is the loss of the last shared_ptr. The TcpClient lives on while a read or write lambda holds it. Otherwise the socket closes and aborts what is pending.
  - A slot whose object is gone and referenced by nothing is reused, so `MaxConns` bounds the objects that exist at once, not the reconnects.
  - The server side is abstracted to the store with one user: `Answer` is the worker's reply (login, create, `lookup_check_pass`'s 409 and 403). `Serve`, `PollRefused` and `Push` are the session's answers, the first IDLE task's refusal and a push.
  - Faults: `ConnectFail` (RangeConnectOp's next endpoint, or the error after the last one), `HandshakeFail`, `Break` (a broken link), and `TimerFire`, the 5 s timeout cancelling `m_Http`. Faults are bounded by `MaxFaults`; the timer fires at most once, as in the code.
- **`MCChatServer.tla`**, **`MCIdleDelivery.tla`**, **`MCHttpCodec.tla`** and **`MCClientSession.tla`** fix the constants for TLC.

## Runs

| run | cfg | result | what it shows |
|---|---|---|---|
| idle_pass | `IdleDelivery.cfg` | pass, about 39k states, 1 min | Two workers; one idle link may break and the first idle request may carry a stale password. No message is displayed twice (`NoDuplicateDisplay`), across empty pings that reset `m_NewestMsgTimestamp` to 0, a broken link and the relogin after it. getMessages does not filter on the READ flag, so only the `>` test of timerWaitTaskResultHandler keeps a poll after a ping from asking for every message since 0. Every message/send is answered while timers keep filling the queue (`ResponseEventually`). Every broken session with the right password stops polling: its failed push cancels the timer (`SessionReleased`). A refused session never stops, which is the `resource_bound` hazard at apiclient.cpp:603. |
| idle_duplicate | `IdleDuplicate.cfg` | violation of `NoDuplicateDisplay` | Two IDLE tasks queued before the first push completes carry one watermark, and the client shows a message twice. |
| idle_lost | `IdleLost.cfg` | violation of `NoLostBelowWatermark` | Two senders, two workers, four messages, one broken link, and writes completing in any order. There are four causes, and TLC prints the shortest trace, the first:<br>• The link breaks; the dead session's poll flags b's message READ and moves the heartbit on; the client's relogin starts the new session from that heartbit, and the failed push is never retried.<br>• A push completes before the ack, and the client drops it as the ack.<br>• Four messages arrive in one poll: three are pushed, and the watermark passes the fourth.<br>• A message stamped at 100 is saved after one stamped at 101 was pushed.<br>Each cause is reached alone by narrowing the cfg:<br>• the ack overtaken: one worker, two sends;<br>• the cap: one worker, `ReorderWrites = FALSE`;<br>• the stamp: two sends, `ReorderWrites = FALSE`;<br>each with `MaxBreaks = 0`. |
| server_safety | `ChatServer.cfg` | pass, about 473k states, 3 min | Covers two connections, two worker threads, up to 5 requests and every route. User names stay unique, ids increase in creation order, and memberships are sound and never duplicated. A 200 login returns the id its create returned. A 409 create only follows a successful one. Every task of a command that processQueue has a branch for is answered (`TaskAnswered`), while a group/history task sits in the same queue. `HistoryNewest` is checked by history_wrong, whose request sets make the `max_count` window cut and include a history of a user with itself; a passing check of it with two workers is described there. |
| ambiguous_chat | `AmbiguousChat.cfg` | violation of `AmbiguousChatIs500` | chat/create x, then user/create x, leaves two chats named x (createUser's personal chat skips the chat-name check). message/sendchat x is then answered 404, not 500. |
| group_history | `GroupHistory.cfg` | violation of `ResponseEventually` | The CHAT_HISTORY task is dropped unanswered. |
| history_wrong | `HistoryWrong.cfg` | violation of `HistoryNewest` | TLC prints the first of three defects: a user sends one message to itself, and its history with itself is `<<1, 1>>`. Both selection predicates match the same rows, and the mix keeps both copies. The second defect shows with `Requests <- MCRequestsWrap` and a 3-bit `max_count`. A history asking for 5 gets `max_count = 10 % 8 = 2` and returns 2 of the 3 messages; in the code this happens for counts of 2^31 and more. The third defect shows with `Requests <- MCRequestsOrder`: three worker threads stamp a's sends at 100, 100 and 101 and save them as 101, 100, 100. `selectMessages` keeps the last `count * 2 = 2` rows in table order, both stamped 100, so a history with count 1 misses the message stamped 101. With two worker threads the same requests pass (about 1.3M states). `HistoryNewest` is checked in every state where a user/history task that passes its checks is at the head of the queue, for every answer the branch may give there. An answer equal to an earlier one is still judged against the rows of the moment. The run has three connections, three workers, `MaxTime = 1` and 8 requests. |
| http_pass | `HttpCodec.cfg` | pass, about 900 states | Four pipelined streams arrive a byte at a time: ok, error and bare replies, requests, and chunked replies. Each message is decoded as written (`DecodedAsSent`). Every read stops exactly at the message boundary, so the buffer plus the unread wire is the encoding of what is left (`AtBoundary`). Once no byte remains and no read condition holds, everything has been delivered (`AllDelivered`). |
| client_pass | `ClientSession.cfg` | pass, about 96k states, 2 min | Covers a client started with `-u`, with or without `-p`, and two faults of any kind. The user opens a chat and types a line while the login may be in flight. A connecting `m_Http` is always connected in the end (`HttpConnectRetried`). A broken idle link is always noticed, and the session ends so the relogin can start (`BrokenIdleNoticed`). |
| client_dangling | `ClientDangling.cfg` | violation of `NoDanglingHandler` | The chat line is written while the LOGIN request is in flight, so two reads are pending on `m_Http`. The link breaks and both fail. The first `onHttpRead` replaces `m_Http`, and the second read's handler runs on the freed object, which its lambda holds as a raw `this`. |
| client_session_lost | `ClientSessionLost.cfg` | violation of `SessionHeld` | The link breaks just before the LOGIN write, or the 5 s timer cancels it. `onHttpWrite` only cancels the timer and returns, so the client never reconnects and never establishes its idle channel. |
| http_bad_size | `HttpBadSize.cfg` | violation of `BadSizeRejected` | `stoul` accepts a signed size. The chunk size `-1` becomes SIZE_MAX, `chunk_size + 2` wraps to 1, and the reply is delivered with a one-byte body. `Content-Length: -1` leaves the reader waiting forever, with neither an error nor a reply. |

`NoLostBelowWatermark` excludes the limitation that spec 9 documents: a message stamped in the same second as a message already shown may be missed.

`SessionHeld` is also violated by a stale `m_LastCmd`. The chat line is sent after the LOGIN request, so the LOGIN reply is handled as a direct message and `m_SelfId` is never set. TLC prints the shortest trace, which is the timer's. Exploring the model also shows that a LOGIN reply arriving while the idle connect is queued starts a second handshake on the same socket. That case is a hazard without a property, because two concurrent handshakes are undefined in asio.

### Bounds and why they are enough

- **IdleDelivery.** Users a and b; a listens and b sends to a, to itself and to the unknown name c. The clock covers two seconds (`MaxTime = 1`). `MaxQueue` bounds `Pending`: the queued tasks, the IDLE task of the session a worker has popped, and the writes in flight of the session. The timer of the code fires whatever is in flight; the bound is the model's. It is 1 in idle_pass, 2 in the violation runs, where two writes must be in flight to reorder. `MaxSends` is 1 in idle_pass, 1 in idle_duplicate and 4 in idle_lost, to exceed the push cap of 3. `MaxBreaks = 1` gives two sessions, a broken one and its successor (0 in idle_duplicate).
  - Two seconds are enough for messages of two seconds to be compared with the watermark, and for a relogin to start a session a second after a message.
  - With `MaxQueue = 1` in idle_pass, a session has one poll in flight at a time, and its ack completes before its first poll. So out-of-order completion and overlapping polls are not exercised there: both show a message twice, and they are idle_duplicate's and idle_lost's. What idle_pass checks with `NoDuplicateDisplay` is that one poll at a time never shows a message twice. That covers empty pings resetting `m_NewestMsgTimestamp` to 0, a broken link, the relogin that starts from the heartbit, a stale password, and two workers. Reordering is checked by idle_lost. The bound keeps the liveness check of idle_pass to minutes.
  - The listener either starts fresh (heartbit 0) or returns after an earlier session (heartbit `Epoch - 1`), the two login states a client can be in.
  - The passing run has two workers, so a send and a poll are served at once (about 39k states, 1 min).
- **ChatServer.** Two connections, names a and x, 15 request kinds covering every route and every early return, and 5 requests in all. Every branch's error and success paths are reached. So are: two creates of one name racing, a chat and a user sharing a name, adduser of an existing member, and login after create.
  - The clock may advance one second (`MaxTime = 1`) between stamps, so two messages can carry different stamps, in either direction.
  - In history_wrong, histories ask for one message of up to three, so the `max_count` window and the cut to `count` both drop rows and ranking by ts decides the answer.
  - Two worker threads in server_safety, so that a send's stamp and save interleave with another worker's branch; three in history_wrong, the fewest that save one direction's rows out of stamp order past a window of 2.
  - `CountWidth = 3` with count 1 keeps `count * 2` within `max_count`. The wrap is in history_wrong, whose `MaxRequests = 8` lets five messages be saved before the history.
- **ClientSession.** The script is two lines (`chat_with x`, then a line that becomes a direct message), so the two `OnUserInput` disjuncts fire. Two lines are enough for type-ahead: a line sent while the LOGIN reply is outstanding, and two reads on one socket. Also in the run:
  - two endpoints, so that RangeConnectOp both goes on and gives up;
  - `MaxFaults = 2`, so that the last endpoint is reached and a fault can follow a recovery;
  - one push;
  - three slots: the two live objects plus one that is dropped but still referenced.
- **HttpCodec.** `Width = 5`, so `size_t` is 32 and a 16-byte chunk (`10` in hex) fits. The bodies have 0 to 16 bytes: empty, short, and chunk sizes of two hex digits. Each stream has two or three messages of different kinds, so each kind of read leaves behind a following message. One stream ends in a chunked reply, so that the last chunk completes with no byte after it.

### Fairness

- The worker threads loop while the server runs, and asio completes writes. These steps are weakly fair: `WF` on each worker thread's step (`WorkerStep` in IdleDelivery, `Work(w)` in ChatServer), on `ResponseWritten` and on each session's `IdleWriteDone`. A timer fires whatever the queue holds, and once 5 seconds pass its next poll pings; only the model's shared bound `MaxQueue` disables it, so a pinging `TimerFire` is strongly fair. Without that, another session keeping the queue at the bound would starve it, which the code cannot do.
- HttpCodec's `Spec` has no fairness. Every step removes a byte from the wire or from the buffer, so its state graph is finite and acyclic. `AllDelivered` is therefore stated as an invariant of the quiescent states, where no byte is left and no read condition holds.
- Clients and the clock get no fairness. A user need not send anything.
- ClientSession has weak fairness on the io thread (`Complete`, which runs every queued handler), on the network completing pending operations (`NetOk` per object), and on the server answering (`Serve`, `PollRefused`). The io thread runs while the client runs, and asio completes operations on a working link. The user, pushes, faults and the timer get no fairness.

## Mutants

Each property of a passing run is checked against a plausible bug that TLC must catch:

| property | mutant | what it breaks |
|---|---|---|
| `TypeOK` (idle) | `IdleWriteDoneNextSecond` | stores `max_ts + 1`, a tempting fix for the same-second limitation, which puts the watermark ahead of the clock |
| `NoDuplicateDisplay` | `TimerFireUnguarded` | drops the `>` test: after an empty ping the next poll asks for everything since 0 |
| `ResponseEventually` (idle) | `SendLookupNoReply` | skips sendError on 404 |
| `SessionReleased` | `WriteFailedKeepTimer` | the failed push's handler returns without cancelling the timer |
| `UserNamesUnique` | `CreateUserUnchecked` | skips createUser's name scan |
| `IdsIncrease` | `CreateChatSameId` | no post-increment of the chat counter |
| `MembershipSound` | `AddUserToChatAlways` | skips addUserToChat's duplicate scan |
| `AnswersAgree` | `UserLoginChatId` | answers the chat id for the user id |
| `TypeOK` (server) | `UserLoginRawCode` | answers 0 for success |
| `TaskAnswered` | `ChatAddUserSilent` | the chat 404 branch does not answer |
| `DecodedAsSent` | `ProcessChunkWholeRead` | appends the chunk's trailing CRLF to the body |
| `AtBoundary` | `ReadNOver` | the read consumes two bytes past the count |
| `AllDelivered` | `ChunkReadyStrict` | the chunk condition waits for one byte more than `size + 2` |
| `TypeOK` (client) | `OnHttpReadUnstored` | a read error connects a new object but leaves `m_Http` on the dropped one |
| `BrokenIdleNoticed` | `OnHttpIdleReadKeepState` | the idle error path does not reset `m_IdleState` |
| `HttpConnectRetried` | `OnHttpConnectNoRetry` | a connect error is logged and not retried |

## Not modelled, and the plan

Not modelled (see `PROJECT.json`):

- the JSON text and `parse_meta`'s field checks, which are abstracted to a flag in ChatServer (HTTP framing is in HttpCodec);
- gzip inflation in processReply: no o2chat writer sets `Content-Encoding`;
- the synchronous socket paths of `read_until`, `read` and `write`: only their buffered fast paths are reachable, through AsyncHttpClient;
- TLS beyond the handshake's success or failure, the configuration and logging;
- the terminal UI (`ui.cpp`) and `main.cpp`, which are pure I/O, and the sleeps of the client's reconnect loops, which only delay;
- the MySQL stub, and `lookupUsersForChatId`, which is never called.

Planned next, most important first:

1. **Connection layer refinement.** An abstract spec of one AsyncHttpClient: connect, then requests answered in order, or an error. ClientSession's `conn`/`ready` layer would be shown to implement it. The refinement would also cover asyncWrite's single `m_WriteBuffer` (two writes in flight overwrite it).
2. **Client, more commands.** Groups and registration in the script, and a stale `m_LastCmd` that takes a register reply's id as `m_SelfId`. These need a smaller fault budget to stay within minutes.
3. **Abstract delivery specification.** A listener receives each message to its chats once, in timestamp order. IdleDelivery would be shown to implement it under a refinement mapping for the configurations where it holds: one worker, FIFO writes, and at most 3 messages per poll.
