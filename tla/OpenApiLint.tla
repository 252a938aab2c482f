----------------------------- MODULE OpenApiLint -----------------------------
(***************************************************************************)
(* Linting an OpenAPI document (internal/openapilint): the traversal of    *)
(* its operations, the six rules of each, and the report that counts every *)
(* issue but keeps only some.                                              *)
(*                                                                         *)
(* The paths of a document, the operations of a path, the responses of an  *)
(* operation and the media types of a response are sequences in the order  *)
(* of their keys.  An issue is placed by path, operation, rule, response   *)
(* and media type; zero where the issue is about the whole.                *)
(***************************************************************************)
EXTENDS Integers, Sequences, FiniteSets, SequencesExt, FiniteSetsExt, Functions, TLC, Question

CONSTANTS
  IssueBytes,      \* the size of an issue without its path, by code
  LintLimits       \* issues and bytes that are kept by default and at most, and
                   \* the size of a path that is kept

-----------------------------------------------------------------------------
(* The report *)

Errors == {"document.too_large", "document.parse", "document.invalid",
           "operation_id.duplicate", "responses.missing"}
Infos == {"json.example_missing"}

Severity(code) ==
  IF code \in Errors THEN "error" ELSE IF code \in Infos THEN "info" ELSE "warning"

Within(asked, default, most) == Min({most, IF asked <= 0 THEN default ELSE asked})

\* newIssueCollector
NewCollector(options) ==
  [limit |-> Within(options.issues, LintLimits.issues, LintLimits.mostIssues),
   byteLimit |-> Within(options.bytes, LintLimits.bytes, LintLimits.mostBytes),
   bytes |-> 0, issues |-> <<>>, truncated |-> FALSE,
   count |-> [severity \in {"error", "warning", "info"} |-> 0], total |-> 0,
   paths |-> 0, operations |-> 0, ids |-> <<>>, checks |-> 0, canceled |-> FALSE]

SizeOfIssue(issue) == IssueBytes[issue.code] + Min({issue.pathSize, LintLimits.pathBytes})

\* Mutant: counting ends with the first issue that is not kept.
AddUntilFull(c, issue) ==
  LET size == SizeOfIssue(issue)
  IN  IF c.truncated THEN c
      ELSE IF Len(c.issues) < c.limit /\ size <= c.byteLimit - c.bytes
        THEN [c EXCEPT !.total = @ + 1, !.count[Severity(issue.code)] = @ + 1,
                       !.issues = Append(@, issue), !.bytes = @ + size]
      ELSE [c EXCEPT !.total = @ + 1, !.count[Severity(issue.code)] = @ + 1, !.truncated = TRUE]

\* issueCollector.add: a small issue may follow a large one that was left out.
Add(c, issue) ==
  LET size == SizeOfIssue(issue)
      counted == [c EXCEPT !.total = @ + 1, !.count[Severity(issue.code)] = @ + 1]
  IN  IF Len(c.issues) < c.limit /\ size <= c.byteLimit - c.bytes
        THEN [counted EXCEPT !.issues = Append(@, issue), !.bytes = @ + size]
      ELSE [counted EXCEPT !.truncated = TRUE]

AddIf(c, found, issue) == IF found THEN Add(c, issue) ELSE c

-----------------------------------------------------------------------------
(* The rules of an operation *)

\* The issue of a rule: a code, where it is and, for a duplicate, the first use.
Finding(code, at, pathSize, first) ==
  [code |-> code, at |-> at, pathSize |-> pathSize, first |-> first]

NoPart == <<0, 0>>
Nowhere == <<>>

\* lintOperationID: an ID belongs to the first operation that uses it.
LintOperationID(c, operation, at, size) ==
  LET issue(code, first) == Finding(code, at \o <<1>> \o NoPart, size, first)
  IN  IF operation.id = "" THEN Add(c, issue("operation_id.missing", Nowhere))
      ELSE IF operation.id \in DOMAIN c.ids
        THEN Add(c, issue("operation_id.duplicate", c.ids[operation.id]))
      ELSE [c EXCEPT !.ids = (operation.id :> at) @@ @]

HasSuccess(operation) == \E i \in DOMAIN operation.responses : operation.responses[i].success

\* lintJSONResponses: one response, then its media types.
LintMedia(c, media, at, size) ==
  AddIf(AddIf(c, media.json /\ ~media.schema, Finding("json.schema_missing", at, size, Nowhere)),
        media.json /\ ~media.example, Finding("json.example_missing", at, size, Nowhere))

LintResponse(c, response, at, size) ==
  LET Step(acc, i) == LintMedia(acc, response.content[i], Append(at, i), size)
  IN  FoldLeft(Step, c, [i \in DOMAIN response.content |-> i])

LintResponses(c, operation, at, size) ==
  LET Step(acc, i) == LintResponse(acc, operation.responses[i], at \o <<6, i>>, size)
  IN  FoldLeft(Step, c, [i \in DOMAIN operation.responses |-> i])

\* lintOperation: the rules in the order of their catalog.
LintOperation(c, operation, at, size) ==
  LET Missing(code, rule) == Finding(code, at \o <<rule>> \o NoPart, size, Nowhere)
      none == operation.responses = <<>>
      identified == LintOperationID(c, operation, at, size)
      summarized == AddIf(identified, ~operation.summary, Missing("summary.missing", 2))
      tagged == AddIf(summarized, ~operation.tagged, Missing("tags.missing", 3))
      answered == AddIf(tagged, none, Missing("responses.missing", 4))
      succeeds == AddIf(answered, ~none /\ ~HasSuccess(operation), Missing("success.missing", 5))
  IN  LintResponses(succeeds, operation, at, size)

-----------------------------------------------------------------------------
(* The traversal.  The context is asked between phases, paths and          *)
(* operations; once it is done, there is no report.                        *)

Check(c, canceledAt) ==
  [c EXCEPT !.checks = @ + 1, !.canceled = @ \/ c.checks + 1 = canceledAt]

LintPath(c, path, p, canceledAt) ==
  LET Step(acc, o) ==
        LET asked == Check(acc, canceledAt)
        IN  IF acc.canceled \/ asked.canceled THEN [acc EXCEPT !.canceled = TRUE]
            ELSE LintOperation([asked EXCEPT !.operations = @ + 1], path.operations[o],
                               <<p, o>>, path.size)
      entered == Check(c, canceledAt)
  IN  IF c.canceled \/ entered.canceled THEN [c EXCEPT !.canceled = TRUE]
      ELSE FoldLeft(Step, entered, [o \in DOMAIN path.operations |-> o])

LintDocument(c, document, canceledAt) ==
  LET Step(acc, p) == LintPath(acc, document.paths[p], p, canceledAt)
  IN  FoldLeft(Step, [c EXCEPT !.paths = Len(document.paths)],
               [p \in DOMAIN document.paths |-> p])

AboutDocument(code) == Finding(code, <<0, 0, 0>> \o NoPart, 1, Nowhere)

\* LintBytesContext: a document that is invalid is linted all the same.
LintBytes(document, options, canceledAt) ==
  LET started == Check(NewCollector(options), canceledAt)
      loaded == Check(started, canceledAt)
      validated == Check(AddIf(loaded, ~document.valid, AboutDocument("document.invalid")), canceledAt)
  IN  IF started.canceled THEN started
      ELSE IF document.large THEN Add(started, AboutDocument("document.too_large"))
      ELSE IF ~document.parses THEN Add(started, AboutDocument("document.parse"))
      ELSE IF loaded.canceled THEN loaded
      ELSE IF validated.canceled THEN validated
      ELSE LintDocument(validated, document, canceledAt)

-----------------------------------------------------------------------------
(* Properties *)

\* Whether one place comes before another in the traversal.
Earlier(a, b) ==
  \E i \in DOMAIN a : a[i] < b[i] /\ \A j \in 1..i - 1 : a[j] = b[j]

OperationPlaces(document) ==
  UNION {{<<p, o>> : o \in DOMAIN document.paths[p].operations} : p \in DOMAIN document.paths}
OperationAt(document, place) == document.paths[place[1]].operations[place[2]]

\* What is wrong with a document, each rule by itself.
AllFindings(document) ==
  LET places == OperationPlaces(document)
      Uses(id) == {place \in places : OperationAt(document, place).id = id}
      Rule(code, rule, where) ==
        {[code |-> code, at |-> place \o <<rule, 0, 0>>] : place \in where}
      Media(code, Bad(_)) ==
        {[code |-> code, at |-> place \o <<6, r, m>>] :
           <<place, r, m>> \in
             {<<place, r, m>> \in places \X (1..2) \X (1..2) :
                /\ r \in DOMAIN OperationAt(document, place).responses
                /\ m \in DOMAIN OperationAt(document, place).responses[r].content
                /\ LET media == OperationAt(document, place).responses[r].content[m]
                   IN  media.json /\ Bad(media)}}
  IN  Rule("operation_id.missing", 1, Uses(""))
      \cup Rule("operation_id.duplicate", 1,
                {place \in places \ Uses("") :
                   \E other \in Uses(OperationAt(document, place).id) : Earlier(other, place)})
      \cup Rule("summary.missing", 2, {place \in places : ~OperationAt(document, place).summary})
      \cup Rule("tags.missing", 3, {place \in places : ~OperationAt(document, place).tagged})
      \cup Rule("responses.missing", 4, {place \in places : OperationAt(document, place).responses = <<>>})
      \cup Rule("success.missing", 5,
                {place \in places : OperationAt(document, place).responses # <<>>
                                    /\ ~HasSuccess(OperationAt(document, place))})
      \cup Media("json.schema_missing", LAMBDA media : ~media.schema)
      \cup Media("json.example_missing", LAMBDA media : ~media.example)
      \cup (IF document.valid THEN {}
            ELSE {[code |-> "document.invalid", at |-> <<0, 0, 0, 0, 0>>]})

\* The report counts every issue of the document once, however many it keeps;
\* keeps them in the order of the traversal within both limits; leaves one out
\* only for a limit, and says so; names as the first use of a repeated ID the
\* operation that was not reported for it; and a cancelled lint reports nothing
\* (lint.go:241).
LintExact ==
  Asks("lint") =>
    \A document \in {question.lint.document}, findings \in {AllFindings(question.lint.document)},
       c \in {LintBytes(question.lint.document, question.lint.options, question.lint.canceledAt)} :
    \A kept \in {{[code |-> issue.code, at |-> issue.at] : issue \in ToSet(c.issues)}} :
    LET Of(severity) == {f \in findings : Severity(f.code) = severity}
        Before(a, b) == Earlier(a.at, b.at) \/ (a.at = b.at /\ a.code = "json.schema_missing")
        SizeAt(f) ==
          IssueBytes[f.code]
            + Min({LintLimits.pathBytes, IF f.at[1] = 0 THEN 1 ELSE document.paths[f.at[1]].size})
        read == document.parses /\ ~document.large
        checks == IF read THEN 3 + Len(document.paths) + Cardinality(OperationPlaces(document)) ELSE 1
    IN  /\ c.canceled <=> question.lint.canceledAt \in 1..checks
        /\ ~read /\ ~c.canceled => c.total = 1 /\ c.count["error"] = 1 /\ Len(c.issues) = 1
        /\ read /\ ~c.canceled =>
          /\ c.total = Cardinality(findings)
          /\ \A severity \in DOMAIN c.count : c.count[severity] = Cardinality(Of(severity))
          /\ c.operations = Cardinality(OperationPlaces(document))
          /\ kept \subseteq findings /\ Cardinality(kept) = Len(c.issues)
          /\ c.truncated <=> kept # findings
          /\ \A i \in 1..Len(c.issues) - 1 : Before(c.issues[i], c.issues[i + 1])
          /\ Len(c.issues) <= c.limit
          /\ MapThenSumSet(SizeAt, kept) <= c.byteLimit
          /\ \A f \in findings \ kept :
               LET earlier == {g \in kept : g # f /\ Before(g, f)}
               IN  \/ Cardinality(earlier) = c.limit
                   \/ MapThenSumSet(SizeAt, earlier) + SizeAt(f) > c.byteLimit
          /\ \A issue \in ToSet(c.issues) :
               issue.code = "operation_id.duplicate" =>
                 /\ Earlier(issue.first, SubSeq(issue.at, 1, 2))
                 /\ OperationAt(document, issue.first).id = OperationAt(document, SubSeq(issue.at, 1, 2)).id
                 /\ [code |-> issue.code, at |-> issue.first \o <<1, 0, 0>>] \notin findings
=============================================================================
