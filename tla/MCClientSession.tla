-------------------------- MODULE MCClientSession --------------------------
(* Model-checking instance of ClientSession: the lines a user types.  A    *)
(* line is its verb, its number of space-separated parts, and for login    *)
(* whether the password is the right one.                                  *)
EXTENDS ClientSession

Line(verb, n) == [verb |-> verb, n |-> n, pass |-> ""]
Login(pass)   == [verb |-> "login", n |-> 3, pass |-> pass]

\* A chat is opened and one line typed in it.
MCChatScript == << Line("chat_with", 2), Line("hello", 1) >>
\* A history query typed while the login of -u/-p may be in flight.
MCQueryScript == << Line("history", 2) >>
====
