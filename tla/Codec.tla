-------------------------------- MODULE Codec --------------------------------
(***************************************************************************)
(* CachedResponse as foyer::Code (src/config/cache.rs): what a hybrid      *)
(* cache writes for an entry, and how it reads the bytes back.  decode     *)
(* reads field by field, each with read_exact, and ends with an error at   *)
(* the first one that is cut short.  A byte is a number below 256.         *)
(* Exchange says where the entry comes from and where it goes.             *)
(***************************************************************************)
EXTENDS Integers, Sequences, SequencesExt

CONSTANTS None   \* no value

VARIABLES
  response,  \* the entry that is stored: status, headers (pairs of name and value), body, epoch
  bytes,     \* what is read back of its encoding
  pos,       \* how far decode has read
  stage,     \* the field that decode reads next
  left,      \* how many headers are still to be read
  decoded    \* what decode has read so far

codecVars == <<response, bytes, pos, stage, left, decoded>>

\* What is left of x after k of n shifts by a byte.
Shifted(n, x) ==
  LET rest[k \in 0..n] == IF k = 0 THEN x ELSE rest[k - 1] \div 256 IN rest

\* x is an integer of n bytes.
Fits(n, x) == x \in Nat /\ Shifted(n, x)[n] = 0

\* Mutant of Le: a byte is what is left after the shift.
LeWithoutMask(n, x) == [i \in 1..n |-> Shifted(n, x)[i - 1]]

\* to_le_bytes and from_le_bytes of an integer of n bytes.
Le(n, x) == [i \in 1..n |-> Shifted(n, x)[i - 1] % 256]

FromLe(b) ==
  LET value[k \in 0..Len(b)] ==
        IF k = 0 THEN 0 ELSE b[Len(b) - k + 1] + 256 * value[k - 1]
  IN  value[Len(b)]

\* BufferedBody: the bytes, and the trailers if there are any.
Body(data, trailers) == [data |-> data, trailers |-> trailers]

\* to_bytes of a body without trailers.  One with trailers is not encoded: the
\* slice they are serialized into is empty and the error is unwrapped.
BodyBytes(b) == Le(8, Len(b.data)) \o b.data \o <<0>>

\* from_bytes
FromBytes(s) == Body(SubSeq(s, 9, 8 + FromLe(SubSeq(s, 1, 8))), None)

HeaderBytes(h) == Le(4, Len(h[1])) \o h[1] \o Le(4, Len(h[2])) \o h[2]

\* encode
Encoding(r) ==
  Le(2, r.status)
    \o Le(4, Len(r.headers)) \o FlattenSeq([i \in 1..Len(r.headers) |-> HeaderBytes(r.headers[i])])
    \o Le(8, Len(BodyBytes(r.body))) \o BodyBytes(r.body)
    \o Le(8, r.epoch)

\* Mutant of HeaderSizes: the lengths of names and values are left out.
HeaderSizesWithoutLengths(headers) ==
  LET size[i \in 0..Len(headers)] ==
        IF i = 0 THEN 0 ELSE size[i - 1] + Len(headers[i][1]) + Len(headers[i][2])
  IN  size

\* The sum over the first i headers.
HeaderSizes(headers) ==
  LET size[i \in 0..Len(headers)] ==
        IF i = 0 THEN 0 ELSE size[i - 1] + 4 + Len(headers[i][1]) + 4 + Len(headers[i][2])
  IN  size

\* estimated_size
EstimatedSize(r) ==
  2 + 4 + HeaderSizes(r.headers)[Len(r.headers)] + 8 + Len(BodyBytes(r.body)) + 8

Nothing == [status |-> None, headers |-> <<>>, body |-> None, epoch |-> None]

\* The entry is written; later all of it is read, or only a part.
Encode ==
  /\ stage = "encode" /\ response.body.trailers = None
  /\ \E n \in 0..Len(Encoding(response)) : bytes' = SubSeq(Encoding(response), 1, n)
  /\ stage' = "status"
  /\ UNCHANGED <<response, pos, left, decoded>>

\* The n bytes after the first `skip` ones not read yet, and the integer they hold.
Field(skip, n) == SubSeq(bytes, pos + skip + 1, pos + skip + n)
Number(skip, n) == FromLe(Field(skip, n))

Available(n) == pos + n <= Len(bytes)

ReadStatus ==
  /\ stage = "status" /\ Available(2)
  /\ decoded' = [decoded EXCEPT !.status = Number(0, 2)]
  /\ pos' = pos + 2 /\ stage' = "count"
  /\ UNCHANGED <<response, bytes, left>>

ReadCount ==
  /\ stage = "count" /\ Available(4)
  /\ left' = Number(0, 4)
  /\ pos' = pos + 4 /\ stage' = "headers"
  /\ UNCHANGED <<response, bytes, decoded>>

\* HeaderMap::insert replaces the value that the name has.
Inserted(headers, h) ==
  IF \E i \in 1..Len(headers) : headers[i][1] = h[1]
  THEN [i \in 1..Len(headers) |-> IF headers[i][1] = h[1] THEN h ELSE headers[i]]
  ELSE Append(headers, h)

NameLen  == Number(0, 4)
ValueLen == Number(4 + NameLen, 4)

\* All of the next header is there.
HeaderAvailable ==
  Available(4) /\ Available(8 + NameLen) /\ Available(8 + NameLen + ValueLen)

ReadHeader ==
  /\ stage = "headers" /\ left > 0 /\ HeaderAvailable
  /\ decoded' = [decoded EXCEPT
       !.headers = Inserted(@, <<Field(4, NameLen), Field(8 + NameLen, ValueLen)>>)]
  /\ pos' = pos + 8 + NameLen + ValueLen /\ left' = left - 1
  /\ UNCHANGED <<response, bytes, stage>>

HeadersEnd ==
  /\ stage = "headers" /\ left = 0
  /\ stage' = "body"
  /\ UNCHANGED <<response, bytes, pos, left, decoded>>

BodyAvailable == Available(8) /\ Available(8 + Number(0, 8))

ReadBody ==
  /\ stage = "body" /\ BodyAvailable
  /\ decoded' = [decoded EXCEPT !.body = FromBytes(Field(8, Number(0, 8)))]
  /\ pos' = pos + 8 + Number(0, 8) /\ stage' = "epoch"
  /\ UNCHANGED <<response, bytes, left>>

\* Mutant of ReadEpoch: read instead of read_exact.
ReadEpochAsFarAsItGoes ==
  /\ stage = "epoch"
  /\ decoded' = [decoded EXCEPT !.epoch = FromLe(SubSeq(bytes, pos + 1, Len(bytes)))]
  /\ pos' = Len(bytes) /\ stage' = "ok"
  /\ UNCHANGED <<response, bytes, left>>

ReadEpoch ==
  /\ stage = "epoch" /\ Available(8)
  /\ decoded' = [decoded EXCEPT !.epoch = Number(0, 8)]
  /\ pos' = pos + 8 /\ stage' = "ok"
  /\ UNCHANGED <<response, bytes, left>>

\* read_exact finds too little.
Short ==
  \/ stage = "status" /\ ~Available(2)
  \/ stage = "count" /\ ~Available(4)
  \/ stage = "headers" /\ left > 0 /\ ~HeaderAvailable
  \/ stage = "body" /\ ~BodyAvailable
  \/ stage = "epoch" /\ ~Available(8)

ReadFails ==
  /\ Short
  /\ stage' = "err"
  /\ UNCHANGED <<response, bytes, pos, left, decoded>>

CodecNext ==
  \/ Encode
  \/ ReadStatus \/ ReadCount \/ ReadHeader \/ HeadersEnd \/ ReadBody \/ ReadEpoch \/ ReadFails
-----------------------------------------------------------------------------
Whole == Len(bytes) = Len(Encoding(response))

\* An entry is decoded exactly if all of it was read.
OnlyWholeIsDecoded == (stage = "ok" => Whole) /\ (stage = "err" => ~Whole)

\* estimated_size, by which the engine accounts for an entry, is the length
\* of what encode writes.
EstimateIsExact ==
  stage = "encode" => EstimatedSize(response) = Len(Encoding(response))
=============================================================================
