---------------------------- MODULE HttpExecution ----------------------------
(***************************************************************************)
(* One bounded HTTP request of package httpexec: the fields that frame it, *)
(* and what becomes of the reply.                                          *)
(*                                                                         *)
(* The body of a reply is a sequence of units, a character each, with its  *)
(* bytes and the bytes of its JSON form.  What the server encodes is a     *)
(* stack of layers over it, each with its encoding and its size.           *)
(***************************************************************************)
EXTENDS Integers, Sequences, FiniteSets, SequencesExt, Functions

CONSTANTS
  MaxEncodings     \* MaxContentEncodings

ASSUME EncodingAssumption == MaxEncodings \in Nat

-----------------------------------------------------------------------------
(* The request *)

MethodAllowsBody(method) == method \notin {"", "HEAD", "TRACE"}

\* A field that cannot be sent after the ones before it.
RefusedField(request, built, field) ==
  \/ ~field.valid
  \/ field.kind = "host" /\ built.host
  \/ field.kind = "length" /\
       \/ built.length \/ built.chunked
       \/ field.number # request.bodySize
       \/ field.number = 0 /\ request.method \in {"GET", "HEAD"}
  \/ field.kind = "transfer" /\
       \/ built.length \/ built.chunked
       \/ ~MethodAllowsBody(request.method)
  \/ field.kind = "trailer"

\* An explicit length of zero, or chunks, need HTTP/1.
NeedsHTTP1(request, field) ==
  \/ field.kind = "transfer"
  \/ /\ field.kind = "length" /\ field.number = 0
     /\ request.method \notin {"POST", "PUT", "PATCH"}

AddField(request, built, field) ==
  IF built.error # "" THEN built
  ELSE IF RefusedField(request, built, field) THEN [built EXCEPT !.error = "invalid_request"]
  ELSE [built EXCEPT !.host = @ \/ field.kind = "host",
                     !.length = @ \/ field.kind = "length",
                     !.chunked = @ \/ field.kind = "transfer",
                     !.http1 = @ \/ NeedsHTTP1(request, field)]

BuildRequest(request, limits) ==
  LET Add(built, field) == AddField(request, built, field)
      start == [error |-> "", host |-> FALSE, length |-> FALSE, chunked |-> FALSE, http1 |-> FALSE]
  IN  IF request.bodySize > limits.requestBody
        THEN [start EXCEPT !.error = "request_body_too_large"]
      ELSE FoldLeft(Add, start, request.fields)

-----------------------------------------------------------------------------
(* The reply *)

RawSize(units) == FoldLeft(LAMBDA sum, unit : sum + unit.raw, 0, units)

\* The bytes under the layers: a layer's own, or those of the body.
SizeOf(reply, layers) == IF layers = <<>> THEN RawSize(reply.body) ELSE Last(layers).size

ResponseHeadersExceed(reply, limits) ==
  FoldLeft(LAMBDA sum, field : sum + field.size, 0, reply.fields) > limits.responseHeader

ResponseCanHaveBody(request, reply) ==
  /\ request.method # "HEAD"
  /\ reply.declared # 0
  /\ reply.status \notin (100..199) \cup {204, 205, 304}

\* The encodings to undo, in the order in which they were applied.
ContentEncodings(reply) ==
  LET Take(acc, encoding) ==
        IF acc.error # "" THEN acc
        ELSE IF acc.count = MaxEncodings
          THEN [acc EXCEPT !.error = "too_many_content_encodings"]
        ELSE IF encoding = "identity" THEN [acc EXCEPT !.count = @ + 1]
        ELSE IF encoding \in {"gzip", "deflate"}
          THEN [acc EXCEPT !.count = @ + 1, !.encodings = Append(@, encoding)]
        ELSE [acc EXCEPT !.error = "unsupported_content_encoding"]
  IN  FoldLeft(Take, [error |-> "", count |-> 0, encodings |-> <<>>], reply.encodings)

\* Undoes the outermost layer, if it is what the reply says it is.
DecodeLayer(reply, limits, acc, encoding) ==
  IF acc.error # "" THEN acc
  ELSE IF acc.layers = <<>> \/ Last(acc.layers).encoding # encoding
    THEN [acc EXCEPT !.error = "response_decode_failed"]
  ELSE IF SizeOf(reply, Front(acc.layers)) > limits.responseBody
    THEN [acc EXCEPT !.error = "response_body_too_large"]
  ELSE [acc EXCEPT !.layers = Front(@)]

Undo(reply, limits, error, encodings) ==
  FoldLeft(LAMBDA acc, encoding : DecodeLayer(reply, limits, acc, encoding),
           [error |-> error, layers |-> reply.layers], encodings)

UndoInOrder(reply, limits, wanted) == Undo(reply, limits, wanted.error, wanted.encodings)
UndoOutermostFirst(reply, limits, wanted) ==
  Undo(reply, limits, wanted.error, Reverse(wanted.encodings))

\* Mutant: the layers are undone in the order in which they were applied.
DecodeInOrder(reply, limits) == UndoInOrder(reply, limits, ContentEncodings(reply))

DecodeBody(reply, limits) == UndoOutermostFirst(reply, limits, ContentEncodings(reply))

\* Bytes that are left encoded are text of another kind.
Undecoded(size) == [i \in 1..size |-> [raw |-> 1, json |-> 6]]

NoReply(error) == [error |-> error, status |-> 0, fields |-> <<>>, body |-> <<>>]

ResponseWith(reply, error, body) ==
  [error |-> error, status |-> reply.status, fields |-> reply.fields, body |-> body]

DecodedResponseWith(reply, decoded) ==
  IF decoded.error # "" THEN ResponseWith(reply, decoded.error, <<>>)
  ELSE IF decoded.layers = <<>> THEN ResponseWith(reply, "", reply.body)
  ELSE ResponseWith(reply, "", Undecoded(SizeOf(reply, decoded.layers)))

\* The context may end while the request is sent, or while the body is read or
\* decoded.
SendBuilt(request, limits, reply, built) ==
  IF built.error # "" THEN NoReply(built.error)
  ELSE IF reply.interrupted = "sending" THEN NoReply("context")
  ELSE IF ~reply.arrives THEN NoReply("send_failed")
  ELSE IF ResponseHeadersExceed(reply, limits) THEN ResponseWith(reply, "response_headers_too_large", <<>>)
  ELSE IF ~ResponseCanHaveBody(request, reply) THEN ResponseWith(reply, "", <<>>)
  ELSE IF reply.declared > limits.responseBody THEN ResponseWith(reply, "response_body_too_large", <<>>)
  ELSE IF reply.interrupted = "reading" THEN ResponseWith(reply, "context", <<>>)
  ELSE IF SizeOf(reply, reply.layers) > limits.responseBody
    THEN ResponseWith(reply, "response_body_too_large", <<>>)
  ELSE DecodedResponseWith(reply, DecodeBody(reply, limits))

\* Executor.Execute
Execute(request, limits, reply) ==
  SendBuilt(request, limits, reply, BuildRequest(request, limits))
=============================================================================
