----------------------------- MODULE MCExchange -----------------------------
(***************************************************************************)
(* Requests in up to three frames; responses with up to two headers, whose *)
(* names may be the same, perhaps with their length and with trailers;     *)
(* entries cut off after every byte.                                       *)
(***************************************************************************)
EXTENDS Exchange

MCContentLength == <<108>>
MCDecimal(n)    == <<48 + n>>   \* bodies are that short

Data(x)     == [data |-> x]
Trailers(x) == [trailers |-> x]

MCFrames ==
  SeqOf({Data(<<>>), Data(<<1>>), Data(<<2, 3>>), Trailers(<<"x">>), Trailers(<<"y">>)}, 3)

Names   == {<<97>>, <<97, 98>>}
Headers == Names \X {<<>>, <<49>>}

\* An origin that sends the length sends the right one.
Lengths(data) == {<<>>, << <<MCContentLength, MCDecimal(Len(data))>> >>}

MCOriginAnswers ==
  UNION {[status: {200, 404}, headers: {h \o l : h \in SeqOf(Headers, 2), l \in Lengths(data)},
          data: {data}, trailers: {None, <<"x">>}] : data \in {<<>>, <<1>>, <<1, 255>>}}
=============================================================================
