---------------------------- MODULE MCHttpCodec ----------------------------
(* Streams for HttpCodec: what the server and the client write, a chunked *)
(* reply of a peer, and malformed heads.                                  *)
EXTENDS HttpCodec

Msg(kind, code, resource, body, chunks) ==
    [kind |-> kind, code |-> code, resource |-> resource, body |-> body, chunks |-> chunks]
Ok(b)          == Msg("ok", 200, "", b, <<>>)
Err(c, b)      == Msg("error", c, "", b, <<>>)
Req(r, b)      == Msg("request", 0, r, b, <<>>)
Chunked(c, cs) == Msg("chunked", c, "", <<>>, cs)
Bare(c)        == Msg("bare", c, "", <<>>, <<>>)
Malformed(bs)  == Msg("malformed", 0, "", bs, <<>>)

\* a JSON-like payload of n bytes
Json(n) == [i \in 1..n |-> IF i % 2 = 1 THEN "{" ELSE "}"]

MCStreams ==
    { << Ok(Json(2)), Err(404, Json(1)) >>,
      << Req("/v1/idle", Json(2)), Ok(<<>>), Bare(403) >>,
      << Chunked(200, << Json(2), Json(1) >>), Ok(Json(1)) >>,
      << Err(500, Json(10)), Chunked(200, << Json(16) >>) >> }

StatusOk == <<"HTTP/1.1", SP, "2", "0", "0", SP, "OK", CR, LF>>
ChunkedHead == StatusOk \o <<"Transfer-Encoding", ":", SP, "chunked">> \o CRLF \o CRLF

\* size fields that are not numbers: chunk sizes with a sign or a trailing
\* letter, and a negative Content-Length
MCBadSizes ==
    { << Malformed(ChunkedHead \o <<"-", "1">> \o CRLF \o <<"{", "0">> \o CRLF \o CRLF) >>,
      << Malformed(ChunkedHead \o <<"1", "g">> \o CRLF \o <<"{">> \o CRLF \o <<"0">> \o CRLF \o CRLF) >>,
      << Malformed(StatusOk \o <<"Content-Length", ":", SP, "-", "1">> \o CRLF \o CRLF \o Json(2)) >> }
====
