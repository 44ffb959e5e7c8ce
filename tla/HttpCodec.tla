----------------------------- MODULE HttpCodec -----------------------------
(***************************************************************************)
(* The HTTP framing of o2chat on one direction of one connection.          *)
(*                                                                         *)
(* The writer side is the text the code builds: buildApiOkResponse and     *)
(* build_api_error_rsponse (server/apiclient.cpp) and build_request        *)
(* (client/apiclient_utils.cpp).  The reader side is AsyncHttpClient       *)
(* (net/client.cpp): asyncResponse waits for the blank line, handleHeaders *)
(* parses the head and picks the framing, and startProcessChunk,           *)
(* processChunk and the Content-Length read take the body.  Each step     *)
(* first waits in asyncRead until its condition holds on m_Streambuf, and  *)
(* then takes its bytes with the buffered read_until or read.  The buffer  *)
(* always holds enough bytes by then, so the synchronous reads never reach *)
(* the socket.                                                             *)
(*                                                                         *)
(* A byte of the stream is a token.  CR, LF, space, ':', '+', '-', 'x',    *)
(* the digits and the hexadecimal letters are single bytes.  A word of     *)
(* the head that the code only compares ("HTTP/1.1", "Content-Length",     *)
(* "chunked", a resource) is one token.  No byte count in the checked      *)
(* streams ends inside such a word.  Numbers are parsed digit by digit,    *)
(* with size_t reduced to Width bits: the reduced width wraps the same way *)
(* as the real one does.                                                   *)
(***************************************************************************)
EXTENDS Naturals, Integers, Sequences, SequencesExt, FiniteSets

CONSTANTS
    Width,      \* bits of size_t
    Streams     \* the sequences of messages a peer may write on the connection

VARIABLES
    wire,   \* bytes written by the peer and not yet received
    buf,    \* m_Streambuf: bytes received and not yet consumed
    rd,     \* the reader: the step it waits for and the reply it builds
    got,    \* the replies handed to the handler, in order
    sent    \* the messages the peer wrote (fixed for a behaviour)

vars == <<wire, buf, rd, got, sent>>

SizeMax == 2^Width

CR == "CR"
LF == "LF"
SP == " "
CRLF == <<CR, LF>>

-----------------------------------------------------------------------------
(* Character classes and case, as <cctype> and utils::lowercased see them. *)

Digits == <<"0", "1", "2", "3", "4", "5", "6", "7", "8", "9",
            "a", "b", "c", "d", "e", "f">>
UpperDigits == <<"0", "1", "2", "3", "4", "5", "6", "7", "8", "9",
                 "A", "B", "C", "D", "E", "F">>

\* the value of byte t as a digit of base, or -1
DigitValue(t, base) ==
    LET v == {i \in 1..base : Digits[i] = t \/ UpperDigits[i] = t}
    IN  IF v = {} THEN -1 ELSE Min(v) - 1

\* tolower, on the words the head carries
CaseTable == "HTTP/1.1" :> "http/1.1" @@ "POST" :> "post"
          @@ "Content-Length" :> "content-length"
          @@ "Content-Type" :> "content-type"
          @@ "Transfer-Encoding" :> "transfer-encoding"
          @@ "Access-Control-Allow-Origin" :> "access-control-allow-origin"
Lower(t) == IF t \in DOMAIN CaseTable THEN CaseTable[t] ELSE t
Lowercased(s) == [i \in DOMAIN s |-> Lower(s[i])]

\* the number of leading isspace bytes of s
LeadingSpaces(s) ==
    LET other == {i \in DOMAIN s : s[i] # SP}
    IN  IF other = {} THEN Len(s) ELSE Min(other) - 1

\* std::search: the first position of d in s, or 0
Occurrences(s, d) == {i \in 1..(Len(s) - Len(d) + 1) : SubSeq(s, i, i + Len(d) - 1) = d}

Find(s, d) == IF Occurrences(s, d) = {} THEN 0 ELSE Min(Occurrences(s, d))

-----------------------------------------------------------------------------
(* Numbers: strtoul's prefix parse, under std::stoul and std::stoi.        *)

DigitRun(s, i, base) ==
    LET other == {j \in i..Len(s) : DigitValue(s[j], base) < 0}
    IN  IF other = {} THEN Len(s) + 1 - i ELSE Min(other) - i

\* Skip spaces, take a sign, in base 16 a 0x prefix that a digit follows,
\* then the longest run of digits.  n = 0 is "no conversion".
NumberPrefix(s, base) ==
    LET sp   == LeadingSpaces(s)
        sg   == IF sp < Len(s) /\ s[sp + 1] \in {"+", "-"} THEN 1 ELSE 0
        hexp == IF /\ base = 16 /\ sp + sg + 3 <= Len(s)
                   /\ s[sp + sg + 1] = "0" /\ s[sp + sg + 2] \in {"x", "X"}
                   /\ DigitValue(s[sp + sg + 3], 16) >= 0
                THEN 2 ELSE 0
        from == sp + sg + hexp + 1
        n    == DigitRun(s, from, base)
    IN  [neg    |-> sg = 1 /\ s[sp + 1] = "-",
         mag    |-> FoldLeft(LAMBDA acc, t : acc * base + DigitValue(t, base),
                             0, SubSeq(s, from, from + n - 1)),
         n      |-> n,
         parsed |-> from - 1 + n]

\* std::stoul(s, &parsed, base): throws on no conversion or ERANGE; a minus
\* sign negates the magnitude modulo 2^Width.
Stoul(s, base) ==
    LET p == NumberPrefix(s, base)
    IN  [ok     |-> p.n > 0 /\ p.mag < SizeMax,
         value  |-> IF p.neg THEN (SizeMax - p.mag) % SizeMax ELSE p.mag,
         parsed |-> p.parsed]

\* std::stoi(s): a 32-bit int
Stoi(s) ==
    LET p == NumberPrefix(s, 10)
    IN  [ok    |-> p.n > 0 /\ p.mag <= 2147483647,
         value |-> IF p.neg THEN -p.mag ELSE p.mag]

\* std::to_string of a size, and a chunk size in hexadecimal
RECURSIVE InBase(_, _)
InBase(n, base) ==
    IF n < base THEN <<Digits[n + 1]>>
    ELSE InBase(n \div base, base) \o <<Digits[(n % base) + 1]>>

-----------------------------------------------------------------------------
(* Strings of the head.                                                    *)

\* utils::split: the pieces between occurrences of d, the last one included.
\* The delimiters split on (CRLF, a space) cannot overlap themselves, so the
\* occurrences its left-to-right search finds are all the occurrences.
Split(s, d) ==
    LET at  == Occurrences(s, d)
        m   == Cardinality(at)
        \* the k-th occurrence
        P(k) == CHOOSE i \in at : Cardinality({j \in at : j < i}) = k - 1
    IN  [k \in 1..(m + 1) |-> SubSeq(s, IF k = 1 THEN 1 ELSE P(k - 1) + Len(d),
                                        IF k = m + 1 THEN Len(s) ELSE P(k) - 1)]

\* utils::starts_with(utils::lowercased(w), "http/")
IsStatusScheme(w) == Len(w) > 0 /\ Lower(w[1]) = "http/1.1"

\* parseHeaderLine: a colon not at position 0; the key is kept as it is and
\* compared without case; leading spaces of the value are skipped; a
\* repeated key overwrites the earlier value.
ParseHeaderLine(line, hs) ==
    LET pos  == Find(line, <<":">>)
        rest == SubSeq(line, pos + 1, Len(line))
        key  == Lowercased(SubSeq(line, 1, pos - 1))
    IN  IF pos <= 1 THEN hs
        ELSE (key :> SubSeq(rest, LeadingSpaces(rest) + 1, Len(rest))) @@ hs

NoHeaders == [k \in {} |-> <<>>]

HasHeader(hs, name) == Lowercased(<<name>>) \in DOMAIN hs

GetHeader(hs, name) == IF HasHeader(hs, name) THEN hs[Lowercased(<<name>>)] ELSE <<>>

-----------------------------------------------------------------------------
(* The writers.                                                            *)

HeaderLine(name, value) == <<name, ":", SP>> \o value \o CRLF

Reason == 200 :> <<"OK">> @@ 400 :> <<"Bad", SP, "Request">>
       @@ 403 :> <<"Forbidden">> @@ 404 :> <<"Not", SP, "Found">>
       @@ 409 :> <<"Conflict">> @@ 500 :> <<"Internal", SP, "Server", SP, "Error">>

\* http_code_to_string: an unknown code is written as 200
HttpCodeToString(code) ==
    IF code \in DOMAIN Reason THEN InBase(code, 10) \o <<SP>> \o Reason[code]
    ELSE InBase(200, 10) \o <<SP>> \o Reason[200]

BuildApiOkResponse(body) ==
    <<"HTTP/1.1", SP>> \o HttpCodeToString(200) \o CRLF
    \o HeaderLine("Content-Length", InBase(Len(body), 10))
    \o HeaderLine("Content-Type", <<"application/json">>)
    \o HeaderLine("Access-Control-Allow-Origin", <<"*">>)
    \o CRLF \o body

BuildApiErrorResponse(code, body) ==
    <<"HTTP/1.1", SP>> \o HttpCodeToString(code) \o CRLF
    \o HeaderLine("Content-Length", InBase(Len(body), 10))
    \o HeaderLine("Access-Control-Allow-Origin", <<"*">>)
    \o HeaderLine("Content-Type", <<"application/json">>)
    \o CRLF \o body

BuildRequest(resource, body) ==
    <<"POST", SP, resource, SP, "HTTP/1.1">> \o CRLF
    \o HeaderLine("Content-Length", InBase(Len(body), 10))
    \o HeaderLine("Content-Type", <<"application/json">>)
    \o CRLF \o body

\* The chunked framing of spec 4.1, which no writer of o2chat produces: a
\* peer's reply.  A "bare" reply, a head with neither framing header, is
\* another.  Each chunk is its size in hexadecimal, CRLF, the payload
\* and CRLF; a zero size and an empty line end the body.
ChunkedReply(code, chunks) ==
    <<"HTTP/1.1", SP>> \o HttpCodeToString(code) \o CRLF
    \o HeaderLine("Transfer-Encoding", <<"chunked">>) \o CRLF
    \o FlattenSeq([i \in DOMAIN chunks |-> InBase(Len(chunks[i]), 16) \o CRLF \o chunks[i] \o CRLF])
    \o <<"0">> \o CRLF \o CRLF

\* The bytes of a message, and the reply the reader should hand on for it.
\* A "malformed" message is bytes a peer may write that the spec requires the
\* reader to reject.
Encode(m) ==
    CASE m.kind = "ok"      -> BuildApiOkResponse(m.body)
      [] m.kind = "error"   -> BuildApiErrorResponse(m.code, m.body)
      [] m.kind = "request" -> BuildRequest(m.resource, m.body)
      [] m.kind = "chunked" -> ChunkedReply(m.code, m.chunks)
      [] m.kind = "bare"    -> <<"HTTP/1.1", SP>> \o HttpCodeToString(m.code) \o CRLF \o CRLF
      [] m.kind = "malformed" -> m.body

NoReply == [status |-> 0, method |-> <<>>, resource |-> <<>>, body |-> <<>>]

Expected(m) ==
    CASE m.kind = "ok"      -> [NoReply EXCEPT !.status = 200, !.body = m.body]
      [] m.kind = "error"   -> [NoReply EXCEPT !.status = m.code, !.body = m.body]
      [] m.kind = "request" -> [NoReply EXCEPT !.method = <<"post">>,
                                               !.resource = <<m.resource>>, !.body = m.body]
      [] m.kind = "chunked" -> [NoReply EXCEPT !.status = m.code, !.body = FlattenSeq(m.chunks)]
      [] m.kind = "bare"    -> [NoReply EXCEPT !.status = m.code]
      [] OTHER              -> NoReply

EncodeAll(ms) == FlattenSeq([i \in DOMAIN ms |-> Encode(ms[i])])

-----------------------------------------------------------------------------
(* The reader.  rd.phase is the asyncRead the reader waits in:            *)
(*   "head"  asyncResponse, for the blank line;                           *)
(*   "body"  the Content-Length read, for rd.need bytes;                  *)
(*   "size"  startProcessChunk, for a line;                               *)
(*   "chunk" processChunk, for rd.need = chunk_size + 2 bytes;            *)
(*   "failed" the handler got a protocol error.                           *)
(* A reply handed on is followed by the next asyncResponse, as readCmd    *)
(* and the client's read handlers do.                                     *)

EndOfHead == CRLF \o CRLF

Waiting == [phase |-> "head", need |-> 0, chunk |-> 0, reply |-> NoReply]

Init ==
    /\ sent \in Streams
    /\ wire = EncodeAll(sent)
    /\ buf = <<>>
    /\ rd = Waiting
    /\ got = <<>>

\* the handler receives the reply, and asyncResponse is called again
Deliver(reply) ==
    /\ got' = Append(got, reply)
    /\ rd' = Waiting

\* the handler receives a protocol error
Fail == rd' = [rd EXCEPT !.phase = "failed"]

\* TCP hands the next byte to the socket's receive.
Arrive ==
    /\ wire # <<>>
    /\ buf' = Append(buf, Head(wire))
    /\ wire' = Tail(wire)
    /\ UNCHANGED <<rd, got, sent>>

\* handleHeaders on the lines of the head and the headers they carry: the
\* first line is a status line when its first word is "http/...", else a
\* request line; then Content-Length, else chunked, else no body.  The
\* result is the reader's next state; phase "done" hands the reply on.
AfterHead(lines, hs) ==
    LET params == Split(lines[1], <<SP>>)
        status == IsStatusScheme(params[1])
        code   == Stoi(params[2])
        len    == Stoul(GetHeader(hs, "Content-Length"), 10)
        reply  == IF status
                  THEN [NoReply EXCEPT !.status = code.value]
                  ELSE [NoReply EXCEPT !.method = Lowercased(params[1]),
                                       !.resource = params[2]]
        Go(phase, need) == [phase |-> phase, need |-> need, chunk |-> 0, reply |-> reply]
    IN  CASE lines[1] = <<>> \/ Len(params) < 2         -> Go("failed", 0)
          [] status /\ ~code.ok                         -> Go("failed", 0)
          [] HasHeader(hs, "Content-Length") /\ ~len.ok -> Go("failed", 0)
          [] HasHeader(hs, "Content-Length")            -> Go("body", len.value)
          [] GetHeader(hs, "Transfer-Encoding") = <<"chunked">> -> Go("size", 0)
          [] OTHER                                      -> Go("done", 0)

\* BasicTcpClient::read_until when m_Streambuf already holds the delimiter:
\* the response is what precedes it, and it is consumed with the delimiter.
ReadUntil(b, d) ==
    [resp |-> SubSeq(b, 1, Find(b, d) - 1),
     rest |-> SubSeq(b, Find(b, d) + Len(d), Len(b))]

\* A plausible slip: one byte more consumed than was taken.
ReadNOver(b, n) == [resp |-> SubSeq(b, 1, n), rest |-> SubSeq(b, n + 2, Len(b))]

\* BasicTcpClient::read(n) when m_Streambuf already holds n bytes.
ReadN(b, n) == [resp |-> SubSeq(b, 1, n), rest |-> SubSeq(b, n + 1, Len(b))]

\* The conditions the reader's asyncRead waits for: the blank line
\* (contains_t), body_len bytes, a line, chunk_size + 2 bytes.
HeadReady  == rd.phase = "head" /\ Find(buf, EndOfHead) > 0
BodyReady  == rd.phase = "body" /\ Len(buf) >= rd.need
SizeReady  == rd.phase = "size" /\ Find(buf, CRLF) > 0
\* A plausible slip: a strict comparison in the size condition.
ChunkReadyStrict == rd.phase = "chunk" /\ Len(buf) > rd.need
ChunkReady == rd.phase = "chunk" /\ Len(buf) >= rd.need

\* asyncResponse's condition holds; read_until takes the head and the blank
\* line, and handleHeaders splits it into lines and parses the header lines.
HandleHeaders ==
    /\ HeadReady
    /\ LET r     == ReadUntil(buf, EndOfHead)
           lines == Split(r.resp, CRLF)
           hs    == FoldLeft(LAMBDA h, l : ParseHeaderLine(l, h), NoHeaders, Tail(lines))
           next  == AfterHead(lines, hs)
       IN  /\ buf' = r.rest
           /\ IF next.phase = "done"
              THEN Deliver(next.reply)
              ELSE rd' = next /\ UNCHANGED got
    /\ UNCHANGED <<wire, sent>>

\* The Content-Length read: asyncRead until body_len bytes are buffered,
\* read(body_len), processReply.
ReadBody ==
    /\ BodyReady
    /\ buf' = ReadN(buf, rd.need).rest
    /\ Deliver([rd.reply EXCEPT !.body = ReadN(buf, rd.need).resp])
    /\ UNCHANGED <<wire, sent>>

\* startProcessChunk: read_until takes the size line; stoul in base 16 must
\* convert the whole line; then asyncRead waits for chunk_size + 2 bytes.
StartProcessChunk ==
    /\ SizeReady
    /\ LET line == ReadUntil(buf, CRLF).resp
           size == Stoul(line, 16)
       IN  /\ buf' = ReadUntil(buf, CRLF).rest
           /\ IF size.ok /\ size.parsed = Len(line)
              THEN rd' = [rd EXCEPT !.phase = "chunk", !.chunk = size.value,
                                    !.need = (size.value + 2) % SizeMax]
              ELSE Fail
    /\ UNCHANGED <<wire, got, sent>>

\* A plausible slip: the whole read, trailing CRLF included, appended.
ProcessChunkWholeRead ==
    /\ ChunkReady
    /\ LET reply == [rd.reply EXCEPT !.body = @ \o ReadN(buf, rd.need).resp]
       IN  /\ buf' = ReadN(buf, rd.need).rest
           /\ IF rd.chunk = 0
              THEN Deliver(reply)
              ELSE /\ rd' = [rd EXCEPT !.phase = "size", !.reply = reply]
                   /\ UNCHANGED got
    /\ UNCHANGED <<wire, sent>>

\* processChunk: read(chunk_size + 2) and append substr(0, chunk_size) of
\* it to the body; a zero size ends the body (processReply).
ProcessChunk ==
    /\ ChunkReady
    /\ LET data  == ReadN(buf, rd.need).resp
           \* std::string::substr clamps the count to the string
           taken == IF rd.chunk < Len(data) THEN SubSeq(data, 1, rd.chunk) ELSE data
           reply == [rd.reply EXCEPT !.body = @ \o taken]
       IN  /\ buf' = ReadN(buf, rd.need).rest
           /\ IF rd.chunk = 0
              THEN Deliver(reply)
              ELSE /\ rd' = [rd EXCEPT !.phase = "size", !.reply = reply]
                   /\ UNCHANGED got
    /\ UNCHANGED <<wire, sent>>

Read == HandleHeaders \/ ReadBody \/ StartProcessChunk \/ ProcessChunk

Next == Arrive \/ Read

Spec == Init /\ [][Next]_vars

\* no byte is on its way and the reader waits for a condition that does not hold
Quiescent == wire = <<>> /\ ~(HeadReady \/ BodyReady \/ SizeReady \/ ChunkReady)

-----------------------------------------------------------------------------
(* Properties                                                              *)

\* Every reply the reader hands on is the message the peer wrote at that
\* place in the stream: status, method, resource and body (handleHeaders,
\* the Content-Length read and the chunk loop together).
DecodedAsSent == \A i \in 1..Len(got) : got[i] = Expected(sent[i])

\* When the reader waits for a new head, the buffer starts exactly at the
\* next message: each read consumed its delimiter and nothing of the next
\* message (read_until's delimiter, the trailing CRLF of each chunk).
AtBoundary ==
    rd.phase = "head" =>
        buf \o wire = EncodeAll(SubSeq(sent, Len(got) + 1, Len(sent)))

\* Every message the peer wrote is eventually handed on: the reader never
\* comes to rest with a message received but not handed on, or failed.
AllDelivered == Quiescent => Len(got) = Len(sent)

\* Spec 8 and 4.1: a size field that is not a number (a chunk-size token of
\* startProcessChunk, a Content-Length of handleHeaders, both read with
\* stoul) is a protocol error.  Such a message is never handed on, and the
\* reader never comes to rest waiting for bytes that will not come: it has
\* handed on every message, or failed.
BadSizeRejected ==
    /\ \A i \in 1..Len(got) : sent[i].kind # "malformed"
    /\ Quiescent => rd.phase = "failed" \/ Len(got) = Len(sent)

=============================================================================
