--------------------------- MODULE MCChatServer ----------------------------
(* Model-checking instance of ChatServer: two connections, a user name a   *)
(* and a name x that may become a user's, a chat's, or both.  Each request *)
(* is sent by a client that logged in as `as` (NoName: none), with the     *)
(* right password unless pass is FALSE and a valid body unless ok is FALSE. *)
EXTENDS ChatServer

CONSTANTS a, x, c1, c2, c3, w1, w2, w3

MCNames   == {a, x}
MCClients == {c1, c2}
MCClient1 == {c1}
MCClients3 == {c1, c2, c3}
MCWorkers1 == {w1}
MCWorkers2 == {w1, w2}
MCWorkers3 == {w1, w2, w3}

Req(route, as, name, add) ==
    [route |-> route, as |-> as, pass |-> TRUE, name |-> name, add |-> add, ok |-> TRUE,
     count |-> 0]

\* user/history of `name` by `as`, asking for count messages.
History(as, name, count) == [Req("/v1/user/history", as, name, NoName) EXCEPT !.count = count]

MCRequests ==
    { Req("/v1/user/create", NoName, a, NoName),
      Req("/v1/user/create", NoName, x, NoName),
      Req("/v1/user/login", NoName, x, NoName),
      [Req("/v1/user/login", NoName, a, NoName) EXCEPT !.pass = FALSE],
      Req("/v1/chat/create", a, x, NoName),
      [Req("/v1/chat/create", a, x, NoName) EXCEPT !.ok = FALSE],
      Req("/v1/chat/adduser", a, x, a),
      Req("/v1/message/sendchat", a, x, NoName),
      Req("/v1/message/send", a, x, NoName),
      Req("/v1/message/send", x, a, NoName),
      Req("/v1/user/status", a, x, NoName),
      History(a, x, 1),
      Req("/v1/user/list", a, x, NoName),
      Req("/v1/idle", a, NoName, NoName),
      [Req("/v1/idle", a, NoName, NoName) EXCEPT !.ok = FALSE] }

\* Five messages from a to x, and a history of x by a asking for five:
\* count * 2 = 10 does not fit in a max_count of width 3.
MCRequestsWrap ==
    { Req("/v1/user/create", NoName, a, NoName),
      Req("/v1/user/create", NoName, x, NoName),
      Req("/v1/message/send", a, x, NoName),
      History(a, x, 5) }

\* a sends to itself and asks for its history with itself.
MCRequestsSelf ==
    { Req("/v1/user/create", NoName, a, NoName),
      Req("/v1/message/send", a, a, NoName),
      History(a, a, 2) }

\* Messages from a to x, and a history of x by a asking for the newest one.
MCRequestsOrder ==
    { Req("/v1/user/create", NoName, a, NoName),
      Req("/v1/user/create", NoName, x, NoName),
      Req("/v1/message/send", a, x, NoName),
      History(a, x, 1) }

\* All three.
MCRequestsHistory == MCRequestsWrap \cup MCRequestsSelf \cup MCRequestsOrder

\* The same requests and /v1/group/history.
MCRequestsGroupHistory == MCRequests \cup {Req("/v1/group/history", a, x, NoName)}
=============================================================================
