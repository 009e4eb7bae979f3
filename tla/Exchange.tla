------------------------------ MODULE Exchange ------------------------------
(***************************************************************************)
(* The bytes of one exchange: the frames of a request are collected        *)
(* (BufferedBody), forwarded, redirected by the origin, its response is    *)
(* made one of the server (Forward), its body perhaps replaced, the entry  *)
(* written and read back by a hybrid cache (Codec), and sent to a client   *)
(* frame by frame.                                                         *)
(***************************************************************************)
EXTENDS Codec

CONSTANTS
  Frames,         \* the sequences of frames a request may arrive in
  OriginAnswers,  \* records with status, headers, data and trailers
  MaxRedirects,   \* the values max_redirects may be configured to
  Epochs,         \* the seconds at which an entry is inserted
  ContentLength,  \* the name of that header
  Decimal(_),     \* a length as the value of a header
  Find            \* the byte that replace_strings finds

VARIABLES
  frames,         \* the frames of the request that are still to come
  arrived,        \* history: the data that has come
  collected,      \* BufferBody::collected
  sent,           \* the body of the request that is out, None without one
  max_redirects,  \* configuration of Forward
  redirects,      \* how often the origin was followed elsewhere
  out             \* the data frames the client got

exchangeVars == <<frames, arrived, collected, sent, max_redirects, redirects, out>>
vars == <<codecVars, exchangeVars>>

Text          == Seq(0..255)
DataFrames    == [data: Text]
TrailerFrames == [trailers: Seq(STRING)]
Empty         == Body(<<>>, None)

\* The lengths of whatever is encoded fit the integers they are encoded in,
\* also after each byte of the body was replaced by two.
Encodable(answer) ==
  /\ Fits(4, Len(answer.headers) + 1) /\ Fits(8, 2 * Len(answer.data) + 9)
  /\ \A i \in 1..Len(answer.headers), j \in 1..2 : Fits(4, Len(answer.headers[i][j]))

ASSUME ExchangeAssumption ==
  /\ None \notin Text
  /\ \A fs \in Frames : fs \in Seq(DataFrames \union TrailerFrames)
  /\ \A answer \in OriginAnswers :
       /\ answer \in [status: 0..999, headers: Seq(Text \X Text), data: Text,
                      trailers: Seq(STRING) \union {None}]
       /\ Encodable(answer)
  /\ MaxRedirects \subseteq Nat
  /\ \A epoch \in Epochs : Fits(8, epoch)
  /\ ContentLength \in Text /\ Fits(4, Len(ContentLength))
  /\ \A answer \in OriginAnswers : \A n \in 0..(2 * Len(answer.data)) :
       Decimal(n) \in Text /\ Fits(4, Len(Decimal(n)))
  /\ Find \in 0..127

TypeOK ==
  /\ bytes \in Seq(0..255)
  /\ pos \in 0..Len(bytes)
  /\ stage \in {"collect", "forward", "awaiting", "replace", "encode", "status", "count",
                "headers", "body", "epoch", "ok", "err", "end", "panicked"}
  /\ left \in Nat
  /\ DOMAIN decoded = DOMAIN Nothing
  /\ stage \in {"encode", "ok"} => response.status \in 0..999 /\ response.epoch \in Epochs
  /\ {collected.data, arrived} \subseteq Seq(0..255)
  /\ redirects \in Nat

Init ==
  /\ frames \in Frames
  /\ max_redirects \in MaxRedirects
  /\ response = None /\ bytes = <<>> /\ pos = 0 /\ left = 0 /\ decoded = Nothing
  /\ stage = "collect"
  /\ arrived = <<>> /\ collected = Empty /\ sent = None /\ redirects = 0 /\ out = <<>>
-----------------------------------------------------------------------------
(* The request.                                                            *)

\* Mutant of PushFrame: only the last data frame is kept.
PushFrameOver(b, f) ==
  IF "data" \in DOMAIN f THEN [b EXCEPT !.data = f.data]
  ELSE [b EXCEPT !.trailers = IF @ = None THEN f.trailers ELSE @ \o f.trailers]

\* push_frame
PushFrame(b, f) ==
  IF "data" \in DOMAIN f THEN [b EXCEPT !.data = @ \o f.data]
  ELSE [b EXCEPT !.trailers = IF @ = None THEN f.trailers ELSE @ \o f.trailers]

\* A turn of the loop in BufferBody::poll.
Collect ==
  /\ stage = "collect" /\ frames # <<>>
  /\ collected' = PushFrame(collected, Head(frames))
  /\ arrived' = arrived \o (IF "data" \in DOMAIN Head(frames) THEN Head(frames).data ELSE <<>>)
  /\ frames' = Tail(frames)
  /\ UNCHANGED <<codecVars, sent, max_redirects, redirects, out>>

CollectEnds ==
  /\ stage = "collect" /\ frames = <<>>
  /\ stage' = "forward"
  /\ UNCHANGED <<response, bytes, pos, left, decoded, exchangeVars>>

\* The body breaks off: the unwrap in call_internal_async.
CollectFails ==
  /\ stage = "collect" /\ frames # <<>>
  /\ stage' = "panicked"
  /\ UNCHANGED <<response, bytes, pos, left, decoded, exchangeVars>>

\* An empty body is not attached, trailers never are.
Send ==
  /\ stage = "forward"
  /\ sent' = IF collected.data = <<>> THEN None ELSE collected.data
  /\ stage' = "awaiting"
  /\ UNCHANGED <<response, bytes, pos, left, decoded, frames, arrived, collected, max_redirects,
                 redirects, out>>
-----------------------------------------------------------------------------
(* The response.                                                           *)

\* Policy::limited(3), whatever the number is, or Policy::none().
RedirectLimit == IF max_redirects > 0 THEN 3 ELSE 0

\* The client of Forward goes where the origin sends it: with the body after
\* 307 and 308, without it after 301, 302 and 303.
Redirect ==
  /\ stage = "awaiting" /\ redirects < RedirectLimit
  /\ redirects' = redirects + 1
  /\ sent' \in {sent, None}
  /\ UNCHANGED <<codecVars, frames, arrived, collected, max_redirects, out>>

\* The limit is exceeded, or send or bytes fail otherwise: expect unwinds.
SendFails ==
  /\ stage = "awaiting"
  /\ stage' = "panicked"
  /\ UNCHANGED <<response, bytes, pos, left, decoded, exchangeVars>>

\* Mutant of ResponseHeaders: repeated headers are all kept.
ResponseHeadersAppended(headers) == headers

\* headers_mut().insert leaves the last value of a header that is repeated.
ResponseHeaders(headers) ==
  LET kept[i \in 0..Len(headers)] ==
        IF i = 0 THEN <<>> ELSE Inserted(kept[i - 1], headers[i])
  IN  kept[Len(headers)]

\* bytes() and from_body leave the trailers behind.
ResponseBody(answer) == Body(answer.data, None)

\* The response is there, the request of the fetch is done.  When the entry
\* will be inserted is known later.
Answer ==
  /\ stage = "awaiting"
  /\ \E answer \in OriginAnswers, epoch \in Epochs :
       response' = [status |-> answer.status, headers |-> ResponseHeaders(answer.headers),
                    body |-> ResponseBody(answer), epoch |-> epoch]
  /\ stage' = "replace"
  /\ arrived' = <<>> /\ collected' = Empty /\ sent' = None /\ redirects' = 0
  /\ UNCHANGED <<bytes, pos, left, decoded, frames, max_redirects, out>>

IsText(data) == \A i \in DOMAIN data : data[i] < 128

\* replace_strings, with a replacement that is longer.
Replaced(data) ==
  FlattenSeq([i \in 1..Len(data) |-> IF data[i] = Find THEN <<Find, Find>> ELSE <<data[i]>>])

KeepBody ==
  /\ stage = "replace"
  /\ stage' = "encode"
  /\ UNCHANGED <<response, bytes, pos, left, decoded, exchangeVars>>

\* Mutant of ReplaceBody: the header keeps the length of the origin's body.
ReplaceBodyOnly ==
  /\ stage = "replace" /\ IsText(response.body.data)
  /\ response' = [response EXCEPT !.body.data = Replaced(@)]
  /\ stage' = "encode"
  /\ UNCHANGED <<bytes, pos, left, decoded, exchangeVars>>

ReplaceBody ==
  /\ stage = "replace" /\ IsText(response.body.data)
  /\ response' = [response EXCEPT
       !.body.data = Replaced(@),
       !.headers = Inserted(@, <<ContentLength, Decimal(Len(Replaced(response.body.data)))>>)]
  /\ stage' = "encode"
  /\ UNCHANGED <<bytes, pos, left, decoded, exchangeVars>>

ReplaceBodyPanics ==
  /\ stage = "replace" /\ ~IsText(response.body.data)
  /\ stage' = "panicked"
  /\ UNCHANGED <<response, bytes, pos, left, decoded, exchangeVars>>

\* poll_frame of the body on its way to the client: its data, if there is
\* any, in one frame, then the end.
PollData ==
  /\ stage = "ok" /\ decoded.body.data # <<>>
  /\ out' = Append(out, decoded.body.data)
  /\ decoded' = [decoded EXCEPT !.body.data = <<>>]
  /\ UNCHANGED <<response, bytes, pos, stage, left, frames, arrived, collected, sent,
                 max_redirects, redirects>>

PollEnd ==
  /\ stage = "ok" /\ decoded.body.data = <<>>
  /\ stage' = "end"
  /\ UNCHANGED <<response, bytes, pos, left, decoded, exchangeVars>>

Next ==
  \/ Collect \/ CollectEnds \/ CollectFails
  \/ Send \/ Redirect \/ SendFails \/ Answer
  \/ KeepBody \/ ReplaceBody \/ ReplaceBodyPanics
  \/ CodecNext /\ UNCHANGED exchangeVars
  \/ PollData \/ PollEnd

Spec == Init /\ [][Next]_vars
-----------------------------------------------------------------------------
\* A client is sent the same from a hybrid cache, after the entry was written
\* and read back, as it is sent directly: status, headers and their order,
\* and body, and the entry keeps its epoch.  decode drops repeated headers
\* for which encode has written all values, but Forward has left none.
SameFromDisk ==
  stage = "ok" =>
    /\ <<decoded.status, decoded.headers, decoded.epoch>>
         = <<response.status, response.headers, response.epoch>>
    /\ FlattenSeq(out) \o decoded.body.data = response.body.data

\* In whatever frames a request arrives, what an origin gets of its data is all
\* of it in order, or after a redirect perhaps nothing, but never a part; and
\* the client gets all of the data of the response.  Trailers get lost on both
\* ways.
BodiesGoThrough ==
  /\ stage = "awaiting" =>
       IF sent = None THEN arrived = <<>> \/ redirects > 0 ELSE sent = arrived
  /\ stage = "end" => FlattenSeq(out) = response.body.data

\* The header tells the length of the body: that of the origin if it was
\* right, or the new one of a body that was replaced.
LengthTells ==
  stage = "encode" =>
    \A i \in DOMAIN response.headers :
      response.headers[i][1] = ContentLength =>
        response.headers[i][2] = Decimal(Len(response.body.data))
=============================================================================
