-------------------------- MODULE MCRequestWorkspace --------------------------
(***************************************************************************)
(* Request tabs on a small instance, see MCRequestWorkspace.cfg, and in    *)
(* states of their own the questions asked of the tools of the workspace,  *)
(* the contents of the collection library and the files of collections.    *)
(***************************************************************************)
EXTENDS RequestWorkspace, CurlImport, LibraryDocument, PostmanTransfer, FileTransfer, TLC

-----------------------------------------------------------------------------
(***************************************************************************)
(* The questions asked of the computations behind the request workspace,   *)
(* each modelled in a module of its own, and what is promised of them      *)
(* together.                                                               *)
(***************************************************************************)

(***************************************************************************)
(* CurlImport: words of up to two pieces in every way to quote, between    *)
(* blanks, comments and continued lines, with every ending; and commands   *)
(* of up to three options.                                                 *)
(***************************************************************************)

MCSpaces == {" ", "lf", "cr"}
MCOperators == {";", "|"}
MCExpanding == {"(", "{", "[", "\"", "a", "x", "#", "$"}
MCPlain == ("n" :> "lf") @@ ("\\" :> "\\") @@ ("'" :> "'") @@ ("\"" :> "\"")
MCHexValue == ("0" :> 0) @@ ("4" :> 4) @@ ("8" :> 8) @@ ("c" :> 12) @@ ("3" :> 3)
MCOctalDigits == {"0", "4", "3"}
MCByteOf ==
  [n \in 0..255 |-> CASE n = 0 -> "nul" [] n = 4 -> "eot" [] n = 68 -> "D" [] n = 36 -> "$"
                      [] n = 195 -> "c3" [] n = 132 -> "84" [] OTHER -> "other"]
MCCharOf == (68 :> "D") @@ (196 :> "Ä")
MCWide == (<<"c3", "84">> :> "Ä")
MCCurlLimits == [command |-> 40, words |-> 3, headers |-> 3, header |-> 2, body |-> 3]

Piece(style, text) == [style |-> style, text |-> text]

Special == {"'", "\"", "\\", "$", "tick", ";", "#", " ", "lf", "Ä"}

\* Texts of up to two characters that a style can write.
PieceTexts(style) ==
  LET Chars == CASE style = "bare" -> {"a", "n", "Ä"}
                 [] style = "single" -> Special \ {"'"}
                 [] style = "escaped" -> Special \ {"lf"}
                 [] OTHER -> Special
  IN  UNION {[1..n -> Chars] : n \in (IF style \in {"bare", "escaped"} THEN {1} ELSE {0, 1, 2})}

Pieces == UNION {{Piece(style, text) : text \in PieceTexts(style)} :
                   style \in {"bare", "escaped", "single", "double", "ansi"}}
FewPieces == {Piece("bare", <<"a">>), Piece("single", <<>>), Piece("double", <<"Ä", "$">>),
              Piece("ansi", <<"'">>), Piece("escaped", <<"#">>)}

Between == {<<" ">>, <<"lf">>, <<" ", "\\", "lf">>, <<" ", "\\", "cr", "lf">>,
            <<" ", "#", "'", "lf">>}

Ending(text, words, error) == [text |-> text, words |-> words, error |-> error]
Good == Ending(<<>>, <<>>, "")

\* What may end a source: bytes and code points in ANSI quotes, a hash inside a word,
\* what the shell would execute, and quotations that do not end.
Endings ==
  {Good,
   Ending(<<"$", "'", "\\", "x", "4", "4", "'">>, <<<<"D">>>>, ""),
   Ending(<<"$", "'", "\\", "x", "4", "'">>, <<<<"eot">>>>, ""),
   Ending(<<"$", "'", "\\", "x", "'">>, <<<<"\\", "x">>>>, ""),
   Ending(<<"$", "'", "\\", "u", "0", "0", "4", "4", "'">>, <<<<"D">>>>, ""),
   Ending(<<"$", "'", "\\", "u", "4", "4", "'">>, <<<<"\\", "u", "4", "4">>>>, ""),
   Ending(<<"$", "'", "\\", "0", "4", "4", "'">>, <<<<"$">>>>, ""),
   Ending(<<"$", "'", "\\", "x", "c", "3", "\\", "x", "8", "4", "'">>, <<<<"Ä">>>>, ""),
   Ending(<<"$", "'", "\\", "x", "c", "3", "'", "$", "'", "\\", "x", "8", "4", "'">>, <<<<"Ä">>>>, ""),
   Ending(<<"$", "'", "\\", "x", "c", "3", "'", "a">>, <<>>, "unsupported_binary"),
   Ending(<<"$", "'", "\\", "x", "8", "4", "'">>, <<>>, "unsupported_binary"),
   Ending(<<"$", "'", "\\", "x", "c", "3", "'", "Ä">>, <<>>, "unsupported_binary"),
   Ending(<<"$", "'", "\\", "0", "'">>, <<>>, "unsupported_binary"),
   Ending(<<"a", "#", "a">>, <<<<"a", "#", "a">>>>, ""),
   Ending(<<"\\", "lf", "a">>, <<<<"a">>>>, ""),
   Ending(<<"a", ";">>, <<>>, "unsafe_shell"),
   Ending(<<"$", "(", "a", ")">>, <<>>, "unsafe_shell"),
   Ending(<<"\"", "$", "a", "\"">>, <<>>, "unsafe_shell"),
   Ending(<<"\"", "tick", "a", "\"">>, <<>>, "unsafe_shell"),
   Ending(<<"'", "a">>, <<>>, "unterminated_quote"),
   Ending(<<"\"", "a", "\\">>, <<>>, "unterminated_quote"),
   Ending(<<"$", "'", "\\", "'">>, <<>>, "unterminated_quote"),
   Ending(<<"\\">>, <<>>, "unterminated_quote"),
   Ending(<<"a", " ", "a">>, <<>>, "too_many_tokens"),
   Ending([i \in 1..40 |-> "a"], <<>>, "too_large")}

AskWords(words, between, tail) ==
  question = [words |-> [words |-> words, between |-> between, tail |-> tail]]

Value == [NoValue EXCEPT !.size = 1]
GivenHeader(name, codings) ==
  [Value EXCEPT !.named = TRUE, !.separated = TRUE, !.name = name, !.codings = codings]

Option(option, value, attached) == [option |-> option, value |-> value, attached |-> attached]
Flag(option) == Option(option, NoValue, FALSE)

CurlUrl == Option("", Value, FALSE)

HeaderValues ==
  {GivenHeader("content-type", <<>>), GivenHeader("accept", <<>>),
   GivenHeader("accept-encoding", <<TRUE, FALSE>>), GivenHeader("accept-encoding", <<FALSE>>),
   GivenHeader("accept-encoding", <<TRUE>>), Value, [Value EXCEPT !.file = TRUE],
   [GivenHeader("x", <<>>) EXCEPT !.size = 3]}

CurlOptions ==
  {Flag(option) : option \in {"--silent", "--compressed", "-k", "-L", "-Lk", "-sk", "--get",
                              "--head", "--config", "--unknown"}}
  \cup {Option("--header", value, attached) : value \in HeaderValues, attached \in BOOLEAN}
  \cup {Option(option, [Value EXCEPT !.separated = separated], FALSE) :
          option \in {"--cookie", "--user", "--user-agent", "--oauth2-bearer"}, separated \in BOOLEAN}
  \cup {Option(option, [Value EXCEPT !.file = file, !.size = size], size = 1) :
          option \in DataOptions, file \in BOOLEAN, size \in 0..1}
  \cup {Option(option, [Value EXCEPT !.file = file, !.named = named], named) :
          option \in FormOptions, file, named \in BOOLEAN}
  \cup {Option("--request", [Value EXCEPT !.method = method], TRUE) : method \in {"", "HEAD", "PUT"}}
  \cup {Option("--output", Value, FALSE), Option("--url", Value, TRUE), CurlUrl, Option("", NoValue, FALSE)}

\* Options that decide together about the method, the body and the headers.
DecidingOptions ==
  {Flag("--compressed"), Flag("--get"), Flag("--head"),
   Option("--data", Value, TRUE), Option("--data-raw", [Value EXCEPT !.size = 2], FALSE),
   Option("--json", Value, FALSE), Option("--form", [Value EXCEPT !.named = TRUE], FALSE),
   Option("--header", GivenHeader("content-type", <<>>), TRUE),
   Option("--header", GivenHeader("accept-encoding", <<FALSE>>), TRUE),
   Option("--request", [Value EXCEPT !.method = "PUT"], FALSE)}

AskCurl ==
  \/ AskWords(<<>>, <<>>, Ending(<<" ", "lf">>, <<>>, "empty"))
  \/ \E a \in Pieces, b \in FewPieces :
       AskWords(<<<<a, b>>>>, <<" ">>, Good) \/ AskWords(<<<<b, a>>>>, <<" ">>, Good)
  \/ \E a \in Pieces, b, c \in FewPieces, between \in Between :
       AskWords(<<<<a>>, <<b, c>>>>, between, Good)
  \/ \E a, b, c \in FewPieces, tail \in Endings : AskWords(<<<<a>>, <<b, c>>>>, <<" ">>, tail)
  \/ \E a, b \in CurlOptions : question = [curl |-> <<a, CurlUrl, b>>]
  \/ \E a \in CurlOptions, b \in DecidingOptions : question = [curl |-> <<a, b>>]
  \/ \E a, b, c, d \in DecidingOptions : question = [curl |-> <<a, b, c, CurlUrl, d>>]

-----------------------------------------------------------------------------
(***************************************************************************)
(* LibraryDocument: an empty document, one with two collections, and one   *)
(* with parts that are not in order; imports of up to two collections.     *)
(***************************************************************************)

WithNumber(name, n) == name \o " (" \o ToString(n) \o ")"

\* The names that are imported, in lower case, with a number or without.
ImportedNames == {"a", "a (2)"}
MCNumbered == [name \in ImportedNames \cup {"A"} |-> [n \in 2..7 |-> WithNumber(name, n)]]
LowerNames == ImportedNames \cup {WithNumber(name, n) : name \in ImportedNames, n \in 2..7}

MCKeyOf == [name \in LowerNames |-> name] @@ ("A" :> "a")
           @@ [name \in {WithNumber("A", n) : n \in 2..7} |->
                 CHOOSE key \in LowerNames : \E n \in 2..7 : name = WithNumber("A", n) /\ key = WithNumber("a", n)]
MCNameOf == [name \in DOMAIN MCKeyOf |-> <<name>>] @@ ("" :> <<>>) @@ (" A " :> <<"A">>)

LibraryHeader(key, value) == [key |-> key, value |-> value, enabled |-> TRUE]
GivenCollection(id, name, order) == [id |-> id, name |-> name, updated |-> 0, order |-> order]
GivenRequest(id, home, name, header, order) ==
  [id |-> id, home |-> home, name |-> name, header |-> header, updated |-> 0, order |-> order]

Documents ==
  {[collections |-> <<>>, requests |-> <<>>, expanded |-> <<>>, view |-> <<9>>],
   [collections |-> <<GivenCollection(1, "a", 0), GivenCollection(2, "A", 3)>>,
    requests |-> <<GivenRequest(3, 1, "a", LibraryHeader("plain", "text"), 1),
                   GivenRequest(4, 1, "a", LibraryHeader("secret", "reference"), 0)>>,
    expanded |-> <<>>, view |-> <<2, 9>>],
   [collections |-> <<GivenCollection(1, "", 0), GivenCollection(2, " A ", 0), GivenCollection(2, "a", 1)>>,
    requests |-> <<GivenRequest(3, 1, "a", LibraryHeader("plain", "text"), 0),
                   GivenRequest(4, 2, "a", LibraryHeader("secret", "text"), 0),
                   GivenRequest(4, 2, "a", LibraryHeader("plain", "text"), 1),
                   GivenRequest(5, 2, "", LibraryHeader("plain", "text"), 2)>>,
    expanded |-> <<1, 2>>, view |-> <<>>]}

ImportedRequest(name, key, value, sensitive) ==
  [name |-> name, header |-> LibraryHeader(key, value) @@ [sensitive |-> sensitive]]
Imported(name, requests) == [name |-> name, requests |-> requests]

MCBatches ==
  {<<>>,
   <<Imported("a", <<ImportedRequest("a", "plain", "text", TRUE), ImportedRequest("a", "secret", "reference", TRUE)>>),
     Imported(" A ", <<ImportedRequest("a", "secret", "text", FALSE)>>)>>,
   <<Imported("a (2)", <<>>), Imported("a", <<>>)>>,
   <<Imported("a", <<>>), Imported("a", <<ImportedRequest("", "plain", "text", FALSE)>>)>>}

-----------------------------------------------------------------------------
(***************************************************************************)
(* PostmanTransfer: one request with every authentication, headers and     *)
(* body; trees of up to two levels of folders; names around the limit;     *)
(* URLs of up to four pieces; and collections that are written.            *)
(***************************************************************************)

MCLowerCase ==
  [key \in {"authorization", "content-type", "x-key", "plain", ""} |-> key]
    @@ ("Authorization" :> "authorization") @@ ("X-Key" :> "x-key")
MCEscapedAs == [piece \in {"k", "v", "{{v}}"} |-> piece] @@ ("?" :> "%3F") @@ ("&" :> "%26")

NoAuth == [type |-> "none"]
Bearer(text) == [type |-> "bearer", value |-> text]
ApiKey(key, inQuery) == [type |-> "apikey", key |-> key, value |-> "t", inQuery |-> inQuery]
Auths == {<<>>, <<NoAuth>>, <<Bearer("t")>>, <<Bearer("")>>, <<ApiKey("X-Key", FALSE)>>, <<ApiKey("x-key", TRUE)>>,
          <<ApiKey("", FALSE)>>, <<[type |-> "other"]>>}
FewAuths == {<<>>, <<NoAuth>>, <<Bearer("u")>>}

Candidate(key, value, disabled) == [valid |-> TRUE, key |-> key, value |-> value, disabled |-> disabled]
HeaderLists ==
  {<<>>, <<Candidate("Authorization", "old", TRUE)>>,
   <<Candidate("plain", "p", FALSE), Candidate("authorization", "old", FALSE), Candidate("Authorization", "older", FALSE)>>,
   <<Candidate("x-key", "old", TRUE), Candidate("", "p", FALSE)>>,
   <<[Candidate("plain", "p", FALSE) EXCEPT !.valid = FALSE], Candidate("content-type", "p", TRUE)>>}

Entry(key, value, disabled) == [key |-> key, value |-> value, disabled |-> disabled]
EntryLists ==
  {<<>>, <<Entry(<<"k", "?">>, <<<<"{{v}}", "&">>>>, FALSE)>>,
   <<Entry(<<"k">>, <<>>, FALSE), Entry(<<"v">>, <<<<"v">>>>, TRUE), Entry(<<"v">>, <<<<>>>>, FALSE)>>,
   <<Entry(<<>>, <<<<"v">>>>, FALSE), Entry(<<"k">>, <<<<"v">>>>, TRUE)>>}
Bodies ==
  {[mode |-> "none"], [mode |-> "raw", text |-> <<"v">>], [mode |-> "other"]}
    \cup {[mode |-> "urlencoded", entries |-> entries] : entries \in EntryLists}
    \cup {[mode |-> "graphql", text |-> text] : text \in {<<>>, <<"v">>}}

PlainLeaf ==
  [type |-> "request", name |-> <<"a">>, variables |-> FALSE, scripts |-> FALSE, examples |-> FALSE,
   auth |-> <<>>, requestAuth |-> <<>>, requestVariables |-> FALSE, transport |-> FALSE, validMethod |-> TRUE,
   url |-> [record |-> FALSE, raw |-> <<"v">>], headers |-> <<>>, body |-> [mode |-> "none"]]
Leaves ==
  {PlainLeaf, [type |-> "invalid"], [PlainLeaf EXCEPT !.validMethod = FALSE, !.variables = TRUE, !.scripts = TRUE],
   [PlainLeaf EXCEPT !.url.raw = <<>>, !.requestVariables = TRUE, !.transport = TRUE],
   [PlainLeaf EXCEPT !.scripts = TRUE, !.examples = TRUE, !.auth = <<[type |-> "other"]>>],
   [PlainLeaf EXCEPT !.variables = TRUE, !.requestVariables = TRUE, !.transport = TRUE, !.body = [mode |-> "other"]]}

Folder(name, auth, marked, items) ==
  [type |-> "folder", name |-> name, variables |-> marked, scripts |-> marked, auth |-> auth, items |-> items]
UpToTwo(items) == UNION {[1..n -> items] : n \in 0..2}
Folders == {Folder(<<"f">>, auth, marked, items) :
              auth \in FewAuths, marked \in BOOLEAN, items \in UpToTwo({PlainLeaf, [type |-> "invalid"]})}
Nested == {Folder(<<"g">>, auth, FALSE, items) :
             auth \in FewAuths, items \in {<<folder>> : folder \in Folders} \cup {<<folder, PlainLeaf>> : folder \in Folders}}

PostmanDocument(auth, items) == [variables |-> FALSE, scripts |-> FALSE, auth |-> auth, items |-> items]

TransferNames ==
  {<<>>, <<"a">>, <<" ", "a", " ", " ", "b", " ">>, <<"a", "b", "c">>, <<"a", "b", "c", "d", "e", "f", " ", "g">>,
   <<"a", "b", "c", "d", "e", "f", "g", "h", "i">>}

TransferUrl(raw, variables, query) ==
  [record |-> TRUE, raw |-> raw, protocol |-> <<>>, host |-> <<>>, port |-> <<>>, path |-> <<>>, hash |-> <<>>,
   variables |-> variables, query |-> query]
PathVariable(key, value, active) == [key |-> key, value |-> value, active |-> active]
PathVariables ==
  {<<>>, <<PathVariable(<<"id">>, <<"v">>, TRUE)>>, <<PathVariable(<<"id">>, <<>>, TRUE)>>,
   <<PathVariable(<<"id">>, <<"b">>, FALSE), PathVariable(<<"b">>, <<"v">>, TRUE)>>,
   <<PathVariable(<<>>, <<"v">>, TRUE), PathVariable(<<"id">>, <<":", "b">>, TRUE)>>}

TransferRequests ==
  {[name |-> name, url |-> url, body |-> body, order |-> 0, headers |-> headers] :
     name \in {<<"a">>, <<"a", "b", "c", "d", "e", "f", "g", "h">>}, url \in {<<>>, <<"v">>}, body \in {<<>>, <<"v">>},
     headers \in {<<>>, <<[key |-> "plain", value |-> "text", enabled |-> FALSE], [key |-> "", value |-> "text", enabled |-> TRUE]>>}
                   \cup {<<[key |-> "Authorization", value |-> value, enabled |-> enabled]>> :
                           value \in {"text", "reference"}, enabled \in BOOLEAN}}

AskPostman ==
  \/ \E auth \in FewAuths, itemAuth \in FewAuths, requestAuth \in Auths, headers \in HeaderLists, body \in Bodies :
       question = [postman |-> PostmanDocument(auth, <<[PlainLeaf EXCEPT
                    !.auth = itemAuth, !.requestAuth = requestAuth, !.headers = headers, !.body = body]>>)]
  \/ \E auth \in FewAuths, items \in UpToTwo(Leaves \cup Folders), marked \in BOOLEAN :
       question = [postman |-> [PostmanDocument(auth, items) EXCEPT !.variables = marked, !.scripts = marked]]
  \/ \E auth \in FewAuths, folder \in Nested : question = [postman |-> PostmanDocument(auth, <<folder>>)]
  \/ \E a, b, c \in TransferNames :
       LET leaf == [PlainLeaf EXCEPT !.name = c]
       IN  question = [postman |-> PostmanDocument(<<>>,
             <<Folder(a, <<>>, FALSE, <<Folder(b, <<>>, FALSE, <<leaf>>), leaf>>), leaf>>)]
  \/ \E n \in 0..4, variables \in PathVariables, query \in {<<>>} \cup {<<entries>> : entries \in EntryLists} :
       \E raw \in [1..n -> {"a", ":", "id", "b", "/", "?", "#"}] :
         /\ raw = <<>> => query = <<>>
         /\ question = [postmanUrl |-> TransferUrl(raw, variables, query)]
  \/ \E protocol \in {<<>>, <<"http">>}, host \in {<<>>, <<"a">>}, port \in {<<>>, <<"id">>}, hash \in {<<>>, <<":", "id">>},
        path \in UpToTwo({<<>>, <<":", "id">>, <<":", "b">>, <<"a">>}), variables \in PathVariables,
        query \in {<<>>} \cup {<<entries>> : entries \in EntryLists} :
       question = [postmanUrl |-> [TransferUrl(<<>>, variables, query) EXCEPT
                    !.protocol = protocol, !.host = host, !.port = port, !.hash = hash, !.path = path]]
  \/ \E n \in 0..2, first \in {3, 7} : \E requests \in [1..n -> TransferRequests] :
       question = [transfer |-> [i \in 1..n |-> [requests[i] EXCEPT !.order = IF i = 1 THEN first ELSE 5]]]

-----------------------------------------------------------------------------
(* Properties *)

\* A command is imported as the words and the request it stands for, and the library
\* stays whole through every sequence of operations, and a Postman document is read and
\* written without losing a request or what it carries, and its file is whole
\* (curlImport.ts, collectionLibrary.ts, postmanTransfer.ts,
\* collection_file_transfer.go).
WorkbenchToolsExact == CurlExact /\ LibraryExact /\ PostmanExact /\ TransfersExact
-----------------------------------------------------------------------------

EmptyDocument == CHOOSE document \in Documents : document.collections = <<>>

MCInit ==
  /\ Init
  /\ TransferInit
  /\ \/ question = NoQuestion /\ LibraryInit(EmptyDocument)
     \/ AskCurl /\ LibraryInit(EmptyDocument)
     \/ AskPostman /\ LibraryInit(EmptyDocument)
     \/ question = [library |-> {}] /\ \E document \in Documents : LibraryInit(document)
     \/ question = [files |-> {}] /\ LibraryInit(EmptyDocument)

\* Tabs, contents and files are three machines; a question stands alone.
MCNext ==
  \/ question = NoQuestion /\ Next /\ UNCHANGED <<question, contents, transfers>>
  \/ Asks("library") /\ LibraryNext /\ UNCHANGED <<vars, question, transfers>>
  \/ Asks("files") /\ TransferNext /\ UNCHANGED <<vars, question, contents>>

MCSpec == MCInit /\ [][MCNext]_<<vars, question, contents, transfers>>
=============================================================================
