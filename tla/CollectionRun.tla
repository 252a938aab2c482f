---------------------------- MODULE CollectionRun ----------------------------
(***************************************************************************)
(* A run of a collection (internal/runner): its requests, one after the    *)
(* other, over the HTTP execution, and the report with its two budgets.    *)
(*                                                                         *)
(* A text has a size and the variables it uses; the value of a variable is *)
(* its size.  A run is what the caller gives, what each request meets, and *)
(* when its context is cancelled: before a request, during one or never.   *)
(***************************************************************************)
EXTENDS HttpExecution, Assertions, TLC

CONSTANTS
  Limits           \* Limits, with the sizes of a URL and of a header value

-----------------------------------------------------------------------------
(* Preparing a request *)

\* The later scope wins.
MergeVariables(outer, inner) == inner @@ outer

Missing(text, variables) == ToSet(text.uses) \ DOMAIN variables

\* A variable without a value stays as it is written, as one byte here.
ResolvedSize(text, variables) ==
  FoldLeft(LAMBDA size, name : size + (IF name \in DOMAIN variables THEN variables[name] ELSE 1),
           text.size, text.uses)

\* The bytes sent for a text, which a literal request does not resolve.
SizeIn(request, text, variables) ==
  IF request.literal THEN text.size + Len(text.uses) ELSE ResolvedSize(text, variables)

Enabled(request) == SelectSeq(request.fields, LAMBDA field : field.enabled)

BadField(request, field, variables) ==
  \/ ~field.named \/ ~field.oneLine
  \/ SizeIn(request, field.text, variables) > Limits.headerValue

Unresolved(request, variables) ==
  IF request.literal THEN {}
  ELSE UNION {Missing(text, variables) :
         text \in {request.url, request.body} \cup {f.text : f \in ToSet(Enabled(request))}}

\* prepareRequest: why it fails, in the order of the code.
PrepareFailure(request, variables) ==
  IF ~request.methodValid \/ SizeIn(request, request.url, variables) > Limits.url
    THEN "invalid_request"
  ELSE IF SizeIn(request, request.body, variables) > Limits.requestBody
    THEN "request_body_too_large"
  ELSE IF \E field \in ToSet(Enabled(request)) : BadField(request, field, variables)
    THEN "invalid_request"
  ELSE IF Unresolved(request, variables) # {} THEN "missing_variables"
  ELSE IF ~request.urlValid THEN "invalid_request"
  ELSE ""

Prepared(request, variables) ==
  [method |-> request.method,
   bodySize |-> IF MethodAllowsBody(request.method)
                THEN SizeIn(request, request.body, variables) ELSE 0,
   fields |-> Enabled(request)]

-----------------------------------------------------------------------------
(* What the report keeps *)

JsonSize(units) == FoldLeft(LAMBDA sum, unit : sum + unit.json, 0, units)

\* jsonEscapedPrefix: the longest prefix whose JSON form fits.
Fitting(units, budget) ==
  IF budget <= 0 THEN <<>>
  ELSE SubSeq(units, 1, Max({n \in 0..Len(units) : JsonSize(SubSeq(units, 1, n)) <= budget}))

\* Kept text takes its JSON form and two quotation marks from the budget.
RetainPrefix(body, kept, remaining) ==
  [kept |-> kept, truncated |-> kept # body,
   remaining |-> IF kept = <<>> THEN remaining ELSE remaining - 2 - JsonSize(kept)]

\* Mutant: the quotation marks are not counted.
RetainUnquoted(body, remaining) ==
  [kept |-> Fitting(body, remaining), truncated |-> Fitting(body, remaining) # body,
   remaining |-> remaining - JsonSize(Fitting(body, remaining))]

RetainBody(body, remaining) ==
  RetainPrefix(body, IF remaining <= 2 THEN <<>> ELSE Fitting(body, remaining - 2), remaining)

\* jsonHeaderAdditionBytes: what one more value adds to the JSON form.  The
\* sizes of a name and a value are those of their own JSON forms.
AdditionBytes(kept, field) ==
  IF \E other \in ToSet(kept) : other.name = field.name THEN 1 + field.value
  ELSE field.nameSize + field.value + (IF kept = <<>> THEN 5 ELSE 4)

KeepField(acc, field, amount) ==
  IF acc.truncated THEN acc
  ELSE IF amount > acc.remaining THEN [acc EXCEPT !.truncated = TRUE]
  ELSE [acc EXCEPT !.kept = Append(@, field), !.remaining = @ - amount]

\* The first field that does not fit ends it.
RetainHeaders(fields, budget) ==
  IF fields # <<>> /\ budget <= 0
    THEN [kept |-> <<>>, truncated |-> TRUE, remaining |-> budget]
  ELSE FoldLeft(LAMBDA acc, field : KeepField(acc, field, AdditionBytes(acc.kept, field)),
                [kept |-> <<>>, truncated |-> FALSE, remaining |-> budget],
                SortSeq(fields, LAMBDA a, b : a.order < b.order))

-----------------------------------------------------------------------------
(* The run *)

\* What an error of the sender is reported as: an expired or cancelled context
\* explains those that it may have caused.
FailureFromSendError(error, late, aborted) ==
  IF error \in {"invalid_request", "request_body_too_large",
                "response_body_too_large", "response_headers_too_large"} THEN error
  ELSE IF late THEN "request_timeout"
  ELSE IF aborted THEN "request_canceled"
  ELSE error

\* The assertions see the whole body.
AssertionInput(reply, response) ==
  [status |-> response.status, duration |-> reply.duration,
   headers |-> [i \in DOMAIN response.fields |->
                  [lower |-> <<response.fields[i].name>>, text |-> <<response.fields[i].value>>]],
   body |-> response.body, size |-> RawSize(response.body),
   json |-> IF response.body = reply.body THEN reply.json ELSE NotJson]

AllAssertionsPassed(request, reply, response) ==
  \A i \in DOMAIN request.assertions :
    Evaluate(AssertionInput(reply, response), request.assertions[i]).passed

\* What a request that was sent leaves in its result.  Run's own checks of the
\* reply repeat those of Execute.
Judged(reply, response, aborted) ==
  IF response.error # "" THEN FailureFromSendError(response.error, reply.late, aborted)
  ELSE IF aborted THEN "request_canceled"
  ELSE ""

NewReport == [results |-> <<>>, passed |-> 0, failed |-> 0, error |-> "",
              bodyBudget |-> Limits.reportBody, headerBudget |-> Limits.reportHeader]

Counted(report, result, passes) ==
  [report EXCEPT !.results = Append(@, result),
                 !.passed = IF passes THEN @ + 1 ELSE @,
                 !.failed = IF passes THEN @ ELSE @ + 1]

AppendResult(report, result) == Counted(report, result, result.failure = "" /\ result.passed)

NotSent(request, failure) ==
  [id |-> request.id, failure |-> failure, passed |-> FALSE, body |-> <<>>,
   bodyTruncated |-> FALSE, headers |-> <<>>, headersTruncated |-> FALSE]

Sent(request, failure, passed, body, headers) ==
  [id |-> request.id, failure |-> failure, passed |-> passed,
   body |-> body.kept, bodyTruncated |-> body.truncated,
   headers |-> headers.kept, headersTruncated |-> headers.truncated]

Spend(report, body, headers, aborted) ==
  [report EXCEPT !.bodyBudget = body.remaining, !.headerBudget = headers.remaining,
                 !.error = IF aborted THEN "canceled" ELSE ""]

AppendSent(report, request, failure, passed, body, headers, aborted) ==
  Spend(AppendResult(report, Sent(request, failure, passed, body, headers)), body, headers, aborted)

\* What the report keeps does not change what was read.
AppendResponse(report, request, reply, response, failure, aborted) ==
  AppendSent(report, request, failure,
             failure = "" /\ AllAssertionsPassed(request, reply, response),
             RetainBody(response.body, report.bodyBudget),
             RetainHeaders(response.fields, report.headerBudget), aborted)

JudgeReply(report, request, reply, response, aborted) ==
  AppendResponse(report, request, reply, response, Judged(reply, response, aborted), aborted)

\* Sends request i, reads the reply and adds the result to the report.
SendRequest(run, i, report, variables) ==
  JudgeReply(report, run.requests[i], run.replies[i],
        Execute(Prepared(run.requests[i], variables), Limits, run.replies[i]),
        run.canceledAt = i /\ run.canceledWhen = "during")

\* The scopes of variables, the widest first.
VariablesOf(run, i) ==
  MergeVariables(MergeVariables(run.collection, run.runtime), run.requests[i].variables)

CanceledBefore(run, i) ==
  /\ run.canceledAt # 0
  /\ run.canceledAt < i \/ (run.canceledAt = i /\ run.canceledWhen = "before")

SendPrepared(run, i, report, variables, failure) ==
  IF failure # "" THEN AppendResult(report, NotSent(run.requests[i], failure))
  ELSE SendRequest(run, i, report, variables)

Prepare(run, i, report, variables) ==
  SendPrepared(run, i, report, variables, PrepareFailure(run.requests[i], variables))

RunRequest(run, i, report) ==
  IF report.error # "" THEN report
  ELSE IF CanceledBefore(run, i) THEN [report EXCEPT !.error = "canceled"]
  ELSE Prepare(run, i, report, VariablesOf(run, i))

\* validateCollection: an identifier is used once, a body fits unresolved.
InvalidCollection(run) ==
  \/ \E i, j \in DOMAIN run.requests :
       i < j /\ run.requests[i].id = run.requests[j].id /\ run.requests[i].id # ""
  \/ \E i \in DOMAIN run.requests :
       run.requests[i].body.size + Len(run.requests[i].body.uses) > Limits.requestBody

RunCollection(run) ==
  LET Step(report, i) == RunRequest(run, i, report)
  IN  IF InvalidCollection(run) THEN [NewReport EXCEPT !.error = "invalid"]
      ELSE FoldLeft(Step, NewReport, [i \in DOMAIN run.requests |-> i])

-----------------------------------------------------------------------------
(* Properties *)

\* The fields leave no doubt about where the body ends.
Framed(request) ==
  LET fields == Range(Enabled(request))
      Of(kinds) == {i \in DOMAIN Enabled(request) : Enabled(request)[i].kind \in kinds}
  IN  /\ \A field \in fields : field.valid /\ field.kind # "trailer"
      /\ Cardinality(Of({"host"})) <= 1
      /\ Cardinality(Of({"length", "transfer"})) <= 1

\* What the server encoded can be read within the limits.
Readable(request, reply) ==
  /\ reply.arrives /\ reply.interrupted # "sending"
  /\ ~ResponseHeadersExceed(reply, Limits)
  /\ ResponseCanHaveBody(request, reply) =>
       /\ reply.interrupted = "no"
       /\ reply.declared <= Limits.responseBody
       /\ RawSize(reply.body) <= Limits.responseBody
       /\ \A layer \in Range(reply.layers) : layer.size <= Limits.responseBody
       /\ Len(reply.encodings) <= MaxEncodings

\* The reply names the encodings that were applied, in their order.
Honest(reply) ==
  SelectSeq(reply.encodings, LAMBDA encoding : encoding # "identity")
    = [i \in DOMAIN reply.layers |-> reply.layers[i].encoding]

Alone(run, i) ==
  RunCollection([run EXCEPT !.requests = <<@[i]>>, !.replies = <<@[i]>>,
                            !.canceledAt = 0]).results[1]

\* The names that have values for a request.
Given(run, i) ==
  DOMAIN run.collection \cup DOMAIN run.runtime \cup DOMAIN run.requests[i].variables

\* What a result says of the request and its reply, whatever the report kept.
ResultExplained(request, reply, given, result, aborted) ==
  /\ result.failure = "" =>
       /\ ~request.literal => Unresolved(request, [n \in given |-> 0]) = {}
       /\ Framed(request)
  /\ (result.passed /\ Honest(reply) /\ ResponseCanHaveBody(request, reply)) =>
       AllAssertionsPassed(request, reply, [status |-> reply.status, body |-> reply.body,
                                            fields |-> reply.fields])
  /\ (Honest(reply) /\ ~aborted /\
        result.failure \notin {"invalid_request", "missing_variables", "request_body_too_large"}) =>
       (result.failure = "" <=> Readable(request, reply))

SameVerdict(result, other) == result.failure = other.failure /\ result.passed = other.passed

\* The report has the results of the requests that were begun, in order, up to
\* the cancellation, and counts them.  A verdict depends on the request and its
\* reply alone, never on other requests, their variables or what the report had
\* room for; and a request is reported as answered exactly if it was framed, all
\* its variables have values, and its reply could be read in full (run.go:22).
ReportExact ==
  Asks("run") =>
    \A run \in {question.run}, report \in {RunCollection(question.run)} :
      report.error # "invalid" =>
        /\ Len(report.results) = (IF run.canceledAt = 0 THEN Len(run.requests)
                                  ELSE IF run.canceledWhen = "before" THEN run.canceledAt - 1
                                  ELSE run.canceledAt)
        /\ report.error = "" => Len(report.results) = Len(run.requests)
        /\ report.passed = Cardinality({i \in DOMAIN report.results : report.results[i].passed})
        /\ report.passed + report.failed = Len(report.results)
        /\ \A i \in DOMAIN report.results :
             \A aborted \in {i = run.canceledAt /\ run.canceledWhen = "during"} :
               /\ report.results[i].id = run.requests[i].id
               /\ ~aborted => SameVerdict(report.results[i], Alone(run, i))
               /\ ResultExplained(run.requests[i], run.replies[i], Given(run, i),
                                  report.results[i], aborted)

\* The JSON form of header fields: braces, names with a colon, arrays, commas.
NamedField(fields, name) == SelectSeq(fields, LAMBDA field : field.name = name)

MemberJson(same) ==
  same[1].nameSize + 1 + 2 + FoldLeft(LAMBDA sum, field : sum + field.value, 0, same) + Len(same) - 1

HeaderJson(fields) ==
  IF fields = <<>> THEN 0
  ELSE 1 + MapThenSumSet(LAMBDA name : 1 + MemberJson(NamedField(fields, name)),
                         {field.name : field \in Range(fields)})

BodyJson(body) == IF body = <<>> THEN 0 ELSE 2 + JsonSize(body)

UsedBefore(results, i) == MapThenSumSet(LAMBDA j : BodyJson(results[j].body), 1..i - 1)

\* What was kept of a response that had arrived, with room for its body.
KeptExactly(result, response, sent, room) ==
  /\ IsPrefix(result.body, response.body)
  /\ sent =>
       /\ result.bodyTruncated <=> result.body # response.body
       /\ result.headersTruncated <=> Len(result.headers) # Len(response.fields)
  /\ result.bodyTruncated =>
       BodyJson(SubSeq(response.body, 1, Len(result.body) + 1)) > room

\* What the report keeps of bodies and of header fields fits its budgets as it
\* is written, escapes and punctuation included; what is missing is marked, and
\* a character is left out only if there was no room for it (run.go:272).
BudgetsHold ==
  Asks("run") =>
    \A run \in {question.run}, results \in {RunCollection(question.run).results} :
      /\ UsedBefore(results, Len(results) + 1) <= Limits.reportBody
      /\ MapThenSumSet(LAMBDA i : HeaderJson(results[i].headers), DOMAIN results)
           <= Limits.reportHeader
      /\ \A i \in DOMAIN results : \A variables \in {VariablesOf(run, i)} :
           KeptExactly(results[i],
                       Execute(Prepared(run.requests[i], variables), Limits, run.replies[i]),
                       PrepareFailure(run.requests[i], variables) = "",
                       Limits.reportBody - UsedBefore(results, i))

\* What a run reports, what it keeps, and how it judges.
RunReportExact == ReportExact /\ BudgetsHold /\ AssertionsExact
=============================================================================
