--------------------------- MODULE BodyPresentation ---------------------------
(***************************************************************************)
(* How the body of a response is shown                                     *)
(* (canbridge/response_body_presentation.go): as text or in base64, JSON   *)
(* and XML indented where that is within budgets and changes no content.   *)
(*                                                                         *)
(* JSON is a sequence of characters.  XML is the sequence of the tokens a  *)
(* decoder reads: tags, text and other markup, each with its bytes; the    *)
(* end of an element without content has none.                             *)
(***************************************************************************)
EXTENDS Integers, Sequences, FiniteSets, SequencesExt, FiniteSetsExt, Question

CONSTANT PresentationLimits   \* json, jsonDepth, xml, xmlDepth, xmlTokens and body

SumOf(sizes) == FoldLeft(LAMBDA sum, size : sum + size, 0, sizes)

-----------------------------------------------------------------------------
(* JSON *)

Opening == {"{", "["}
Closing == {"}", "]"}

NothingScanned == [bytes |-> 0, depth |-> 0, inString |-> FALSE, escaped |-> FALSE, refused |-> FALSE]

\* Mutant: a backslash in a string does not protect the quote after it.
ScanStringPlainly(scan, char) == [scan EXCEPT !.inString = char # "quote"]

ScanString(scan, char) ==
  CASE scan.escaped -> [scan EXCEPT !.escaped = FALSE]
    [] ~scan.escaped /\ char = "backslash" -> [scan EXCEPT !.escaped = TRUE]
    [] OTHER -> [scan EXCEPT !.inString = char # "quote"]

\* A line break and the indentation of a depth.
Indentation(depth) == 1 + 2 * depth

ScanStructure(scan, char) ==
  LET depth == CASE char \in Opening -> scan.depth + 1
                 [] char \in Closing -> Max({0, scan.depth - 1})
                 [] OTHER -> scan.depth
      bytes == scan.bytes + (IF char \in Opening \cup Closing \cup {","} THEN Indentation(depth) ELSE 0)
  IN  [scan EXCEPT !.depth = depth, !.bytes = bytes, !.inString = char = "quote",
                   !.refused = \/ char \in Opening /\ depth > PresentationLimits.jsonDepth
                               \/ char # "quote" /\ bytes > PresentationLimits.json]

ScanJSON(raw) ==
  FoldLeft(LAMBDA scan, char : IF scan.refused THEN scan
                               ELSE IF scan.inString THEN ScanString(scan, char)
                               ELSE ScanStructure(scan, char),
           [NothingScanned EXCEPT !.bytes = Len(raw)], raw)

PrettyJSONWithinBudget(raw) == Len(raw) <= PresentationLimits.json /\ ~ScanJSON(raw).refused

-----------------------------------------------------------------------------
(* XML *)

NewElement == [structured |-> FALSE, text |-> FALSE, inline |-> FALSE]

NewDocument ==
  [elements |-> <<>>, tokens |-> <<>>, stack |-> <<>>, rootSeen |-> FALSE, rootClosed |-> FALSE,
   refused |-> FALSE]

Refuse(document) == [document EXCEPT !.refused = TRUE]
ParentOf(stack) == IF stack = <<>> THEN 0 ELSE stack[Len(stack)]

\* A property of the content of the element that is open, if one is.
MarkParent(document, property) ==
  IF document.stack = <<>> THEN document
  ELSE [document EXCEPT !.elements[ParentOf(document.stack)][property] = TRUE]

\* A token as it is recorded, with its element if it is a tag.
RecordedAt(document, token, depth, parent, element) ==
  [document EXCEPT !.tokens = Append(@, [token |-> token, depth |-> depth, parent |-> parent,
                                         element |-> element])]

SeeStart(document, token) ==
  LET stack == document.stack
      element == Len(document.elements) + 1
      marked == MarkParent(document, "structured")
  IN  IF (stack = <<>> /\ document.rootSeen) \/ Len(stack) + 1 > PresentationLimits.xmlDepth
           \/ token.preserve
        THEN Refuse(document)
      ELSE [RecordedAt(marked, token, Len(stack), ParentOf(stack), element) EXCEPT
              !.elements = Append(@, NewElement), !.stack = Append(@, element), !.rootSeen = TRUE]

SeeEnd(document, token) ==
  LET rest == Front(document.stack)
  IN  IF document.stack = <<>> THEN Refuse(document)
      ELSE [RecordedAt(document, token, Len(rest), ParentOf(rest), ParentOf(document.stack)) EXCEPT
              !.stack = rest, !.rootClosed = @ \/ rest = <<>>]

\* Mutant: a space between tags is indentation.
SeeTextOnly(document, token) ==
  LET marked == IF ~token.white THEN MarkParent(document, "text") ELSE document
  IN  IF ~token.white /\ document.stack = <<>> THEN Refuse(document)
      ELSE RecordedAt(marked, token, Len(document.stack), ParentOf(document.stack), 0)

\* White space without a line break between tags may be content.
SeeText(document, token) ==
  LET marked == CASE ~token.white -> MarkParent(document, "text")
                  [] token.white /\ ~token.break -> MarkParent(document, "inline")
                  [] OTHER -> document
  IN  IF ~token.white /\ document.stack = <<>> THEN Refuse(document)
      ELSE RecordedAt(marked, token, Len(document.stack), ParentOf(document.stack), 0)

SeeMarkup(document, token) ==
  RecordedAt(MarkParent(document, "structured"), token, Len(document.stack),
           ParentOf(document.stack), 0)

SeeToken(document, token) ==
  CASE document.refused -> document
    [] ~document.refused /\ (token.kind = "error" \/ Len(document.tokens) >= PresentationLimits.xmlTokens) ->
         Refuse(document)
    [] OTHER -> CASE token.kind = "start" -> SeeStart(document, token)
                  [] token.kind = "end" -> SeeEnd(document, token)
                  [] token.kind = "text" -> SeeText(document, token)
                  [] token.kind = "markup" -> SeeMarkup(document, token)

BytesOf(tokens) == SumOf([i \in DOMAIN tokens |-> tokens[i].size])

\* inspectXMLDocument: indentation would change an element that mixes text with
\* other content.
InspectXML(raw) ==
  LET document == FoldLeft(SeeToken, NewDocument, raw)
      Mixed(e) == e.structured /\ (e.text \/ e.inline)
  IN  [document EXCEPT !.refused =
         \/ BytesOf(raw) \notin 1..PresentationLimits.xml
         \/ @
         \/ ~document.rootClosed \/ document.stack # <<>>
         \/ \E i \in DOMAIN document.elements : Mixed(document.elements[i])]

IndentText(depth) == [kind |-> "text", size |-> Indentation(depth), white |-> TRUE, break |-> TRUE]

\* Whether the content of an element, or of the document, is more than text.
IsStructured(document, element) == element = 0 \/ document.elements[element].structured

\* What is written for a token, as it would be read again.
Rendered(document, record, wrote) ==
  LET token == record.token
      indented == CASE token.kind = "text" -> FALSE
                    [] token.kind = "end" -> IsStructured(document, record.element)
                    [] OTHER -> record.parent # 0 \/ wrote
  IN  IF token.size = 0 THEN <<token>>
      ELSE IF token.kind = "text" /\ token.white /\ IsStructured(document, record.parent) THEN <<>>
      ELSE (IF indented THEN <<IndentText(record.depth)>> ELSE <<>>) \o <<token>>

\* renderXMLDocument: nothing if it would be too large.
RenderXML(document) ==
  LET written == FoldLeft(LAMBDA out, record : out \o Rendered(document, record, out # <<>>),
                          <<>>, document.tokens)
  IN  IF BytesOf(written) > PresentationLimits.xml THEN <<>> ELSE <<written>>

FormatXML(raw) ==
  LET document == InspectXML(raw)
  IN  IF document.refused THEN <<>> ELSE RenderXML(document)

-----------------------------------------------------------------------------
(* Text or base64.  A body is a sequence of characters, each the bytes it    *)
(* has in a JSON string.                                                     *)

\* jsonStringEncodedSize: no size if it exceeds the limit.
EncodedSize(value, limit) ==
  LET size == FoldLeft(LAMBDA size, char : IF size = <<>> \/ char > limit - size[1] THEN <<>>
                                           ELSE <<size[1] + char>>,
                       <<2>>, value)
  IN  IF limit < 2 THEN <<>> ELSE size

\* jsonStringsFitBudget
FitBudget(values) ==
  FoldLeft(LAMBDA left, value : LET size == IF left < 0 THEN <<>> ELSE EncodedSize(value, left)
                                IN  IF size = <<>> THEN -1 ELSE left - size[1],
           PresentationLimits.body, values) >= 0

Base64Body(raw) == [body |-> <<>>, raw |-> raw, encoding |-> "base64"]

\* formattedResponseBody: by the first formatter that the body matches and that can
\* format it, that of JSON before that of XML.
FormattedResponseBody(formatters) ==
  LET able == SelectSeq(formatters, LAMBDA formatter : formatter.matches /\ formatter.formatted # <<>>)
  IN  IF able = <<>> THEN <<>> ELSE able[1].formatted

\* presentResponseBody: text as it is and formatted, if both are within the budget.
PresentResponseBody(raw, isText, formatters) ==
  LET formatted == FormattedResponseBody(formatters)
      body == IF formatted = <<>> THEN raw ELSE formatted[1]
      values == IF body = raw THEN <<raw>> ELSE <<body, raw>>
  IN  IF ~isText \/ ~FitBudget(values) THEN Base64Body(raw)
      ELSE [body |-> body, raw |-> raw, encoding |-> "utf8"]

-----------------------------------------------------------------------------
(* Properties *)

\* A JSON value: an atom, a string of characters, or a container with its values,
\* those of an object with keys of one atom.
RECURSIVE WrittenJSON(_)
WrittenJSON(value) ==
  LET Member(i) == (IF value.type = "object" THEN <<"k", ":">> ELSE <<>>) \o WrittenJSON(value.items[i])
      members == FoldLeft(LAMBDA acc, i : acc \o (IF i = 1 THEN <<>> ELSE <<",">>) \o Member(i), <<>>,
                          [i \in DOMAIN value.items |-> i])
  IN  CASE value.type = "atom" -> <<"1">>
        [] value.type = "string" -> <<"quote">> \o value.chars \o <<"quote">>
        [] value.type = "object" -> <<"{">> \o members \o <<"}">>
        [] value.type = "array" -> <<"[">> \o members \o <<"]">>

\* The bytes of json.Indent at a depth, the containers that are not empty one deeper.
RECURSIVE IndentedBytes(_, _)
IndentedBytes(value, depth) ==
  LET members == SumOf([i \in DOMAIN value.items |->
                          IndentedBytes(value.items[i], depth + 1) + Indentation(depth + 1)
                            + (IF value.type = "object" THEN 3 ELSE 0)])
  IN  IF value.type \in {"atom", "string"} THEN Len(WrittenJSON(value))
      ELSE IF value.items = <<>> THEN 2
      ELSE 2 + members + Len(value.items) - 1 + Indentation(depth)

RECURSIVE NestingOf(_), MembersOf(_)
NestingOf(value) ==
  IF value.type \in {"atom", "string"} THEN 0
  ELSE 1 + Max({0} \cup {NestingOf(value.items[i]) : i \in DOMAIN value.items})
MembersOf(value) ==
  IF value.type \in {"atom", "string"} THEN 0
  ELSE SumOf([i \in DOMAIN value.items |-> MembersOf(value.items[i])])
         + (IF value.type = "object" THEN Len(value.items) ELSE 0)

\* The lines that are counted for the containers without content, which have none.
RECURSIVE LinesOfEmpty(_, _)
LinesOfEmpty(value, depth) ==
  IF value.type \in {"atom", "string"} THEN 0
  ELSE IF value.items = <<>> THEN Indentation(depth + 1) + Indentation(depth)
  ELSE SumOf([i \in DOMAIN value.items |-> LinesOfEmpty(value.items[i], depth + 1)])

\* Whatever its strings hold, a value is formatted if and only if it is no deeper than
\* allowed and its indented form is within the budget, but for the space after the
\* colon of each member, which is not counted, and for the lines of containers without
\* content, which are (response_body_presentation.go:512).
IndentWithinBudget ==
  Asks("json") =>
    LET value == question.json
    IN  PrettyJSONWithinBudget(WrittenJSON(value)) <=>
          /\ NestingOf(value) <= PresentationLimits.jsonDepth
          /\ IndentedBytes(value, 0) - MembersOf(value) + LinesOfEmpty(value, 0)
               <= PresentationLimits.json

\* The document that is shown has the tags, markup and text of the one that came, and
\* the white space of the elements that hold nothing else; text that stands beside
\* tags is never touched; each tag beside others is on its line; and a document that
\* was formatted is formatted to itself (response_body_presentation.go:368).
XmlKeepsContent ==
  Asks("xml") =>
    LET raw == question.xml
        formatted == FormatXML(raw)
        Kind(tokens, i) == IF i \in DOMAIN tokens THEN tokens[i].kind ELSE "none"
        DepthAt(tokens, i) == Cardinality({j \in 1..i - 1 : tokens[j].kind = "start"})
                                - Cardinality({j \in 1..i - 1 : tokens[j].kind = "end"})
        \* Text between a tag and its end, with nothing but text around it.
        InLeaf(tokens, i) ==
          \E a, b \in DOMAIN tokens :
            /\ a < i /\ i < b /\ tokens[a].kind = "start" /\ tokens[b].kind = "end"
            /\ \A j \in a + 1..b - 1 : tokens[j].kind = "text"
        IsContent(tokens, i) == tokens[i].kind = "text" => ~tokens[i].white \/ InLeaf(tokens, i)
        Content(tokens) ==
          FoldLeft(LAMBDA kept, i : IF IsContent(tokens, i) THEN Append(kept, tokens[i]) ELSE kept,
                   <<>>, [i \in DOMAIN tokens |-> i])
        MayBeContent(i) == raw[i].kind = "text" /\ ~InLeaf(raw, i) /\ (~raw[i].white \/ ~raw[i].break)
                             /\ DepthAt(raw, i) > 0
    IN  formatted # <<>> =>
          LET shown == formatted[1]
          IN  /\ Content(shown) = Content(raw)
              /\ ~\E i \in DOMAIN raw : MayBeContent(i)
              /\ BytesOf(shown) <= PresentationLimits.xml
              /\ \A i \in DOMAIN shown :
                   /\ shown[i].kind \in {"start", "markup"} /\ i > 1 =>
                        shown[i - 1] = IndentText(DepthAt(shown, i))
                   /\ shown[i].kind = "start" /\ Kind(shown, i + 1) = "text" /\ ~InLeaf(shown, i + 1) =>
                        shown[i + 1].size = Indentation(DepthAt(shown, i) + 1)
              /\ Len(shown) <= PresentationLimits.xmlTokens => FormatXML(shown) = <<shown>>

\* A body is shown as text if and only if it is text and what is sent of it, once if
\* nothing was formatted, is within the budget; otherwise all of it is in base64
\* (response_body_presentation.go:50).
BodyFits ==
  Asks("body") =>
    LET body == question.body
        shown == PresentResponseBody(body.raw, body.isText, body.formatters)
        Able(formatter) == formatter.matches /\ formatter.formatted # <<>>
        form == CASE Able(body.formatters[1]) -> body.formatters[1].formatted[1]
                  [] ~Able(body.formatters[1]) /\ Able(body.formatters[2]) -> body.formatters[2].formatted[1]
                  [] OTHER -> body.raw
        sent == 2 + SumOf(body.raw) + (IF form # body.raw THEN 2 + SumOf(form) ELSE 0)
    IN  /\ shown.raw = body.raw
        /\ shown.encoding = "utf8" <=> body.isText /\ sent <= PresentationLimits.body
        /\ shown.encoding = "utf8" => shown.body = form

PresentationExact == IndentWithinBudget /\ XmlKeepsContent /\ BodyFits
=============================================================================
