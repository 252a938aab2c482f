--------------------------- MODULE PostmanTransfer ---------------------------
(***************************************************************************)
(* Postman collections (features/collections/postmanTransfer.ts): what is  *)
(* read from a document, whose items are a tree, what is counted as left   *)
(* out, and what is written for a collection.                              *)
(*                                                                         *)
(* Names, URLs and query entries are sequences of pieces: characters, or   *)
(* words without the characters the code looks for.                        *)
(***************************************************************************)
EXTENDS Integers, Sequences, FiniteSets, SequencesExt, FiniteSetsExt, Question

CONSTANTS
  MaxName,      \* SAVED_REQUEST_NAME_LENGTH_LIMITS
  LowerCase,    \* the key of a header in lower case
  SecretKeys,   \* keys, in lower case, whose values are secret
  References,   \* values that refer to a variable
  EscapedAs     \* what a piece of a query becomes; a {{variable}} stays as it is

-----------------------------------------------------------------------------
(* Names *)

Joined(parts, separator) ==
  FoldLeft(LAMBDA acc, i : acc \o (IF i = 1 THEN <<>> ELSE separator) \o parts[i],
           <<>>, [i \in DOMAIN parts |-> i])

TrimEnd(name) == IF name # <<>> /\ Last(name) = " " THEN Front(name) ELSE name

\* Without spaces at the ends, and with one where there were several.
Collapsed(name) ==
  TrimEnd(FoldLeft(LAMBDA acc, char : IF char = " " /\ (acc = <<>> \/ Last(acc) = " ") THEN acc
                                      ELSE Append(acc, char), <<>>, name))

TransferableName(value, fallback) ==
  LET normalized == Collapsed(value)
      name == IF normalized = <<>> THEN fallback ELSE normalized
  IN  IF Len(name) <= MaxName THEN name
      ELSE Append(TrimEnd(SubSeq(name, 1, MaxName - 1)), "...")

Untitled == <<"U">>

-----------------------------------------------------------------------------
(* URLs *)

Delimiters == {"/", "?", "#"}

\* Whether a variable of the path stands at a place.
StandsAt(raw, i, key) ==
  LET after == i + Len(key) + 1
  IN  /\ raw[i] = ":" /\ after - 1 <= Len(raw) /\ SubSeq(raw, i + 1, after - 1) = key
      /\ after <= Len(raw) => raw[after] \in Delimiters

\* Mutant: also before other characters.
SubstituteAnywhere(raw, key, value) ==
  FoldLeft(LAMBDA acc, i :
             IF i < acc.next THEN acc
             ELSE IF raw[i] = ":" /\ i + Len(key) <= Len(raw) /\ SubSeq(raw, i + 1, i + Len(key)) = key
               THEN [text |-> acc.text \o value, next |-> i + Len(key) + 1]
             ELSE [text |-> Append(acc.text, raw[i]), next |-> i + 1],
           [text |-> <<>>, next |-> 1], [i \in DOMAIN raw |-> i]).text

\* A value is taken as it is: the code also gives "$" the meaning it has in a
\* replacement, which is left out.
Substitute(raw, key, value) ==
  FoldLeft(LAMBDA acc, i :
             IF i < acc.next THEN acc
             ELSE IF StandsAt(raw, i, key) THEN [text |-> acc.text \o value, next |-> i + Len(key) + 1]
             ELSE [text |-> Append(acc.text, raw[i]), next |-> i + 1],
           [text |-> <<>>, next |-> 1], [i \in DOMAIN raw |-> i]).text

Encoded(pieces) == [i \in DOMAIN pieces |-> EscapedAs[pieces[i]]]

IsEnabled(entry) == ~entry.disabled /\ entry.key # <<>>

\* An entry of a query, the value being none if it is not a text.
QueryEntry(entry) ==
  Encoded(entry.key) \o (IF entry.value = <<>> THEN <<>> ELSE <<"=">> \o Encoded(entry.value[1]))

FirstOf(raw, chars) == Min({i \in DOMAIN raw : raw[i] \in chars} \cup {Len(raw) + 1})

WithQuery(raw, entries) ==
  LET enabled == SelectSeq(entries, IsEnabled)
      query == Joined([i \in DOMAIN enabled |-> QueryEntry(enabled[i])], <<"&">>)
  IN  SubSeq(raw, 1, FirstOf(raw, {"?", "#"}) - 1)
        \o (IF query = <<>> THEN <<>> ELSE <<"?">> \o query)
        \o SubSeq(raw, FirstOf(raw, {"#"}), Len(raw))

\* The URL of parts, if there is neither a text nor a raw form.
FromParts(url) ==
  IF url.protocol = <<>> \/ url.host = <<>> THEN <<>>
  ELSE url.protocol \o <<":", "/", "/">> \o url.host
         \o (IF url.port = <<>> THEN <<>> ELSE <<":">> \o url.port)
         \o (LET path == Joined(SelectSeq(url.path, LAMBDA part : part # <<>>), <<"/">>)
             IN  IF path = <<>> THEN <<>> ELSE <<"/">> \o path)
         \o (IF url.hash = <<>> THEN <<>> ELSE <<"#">> \o url.hash)

\* postmanURL: empty, if there is none.
PostmanURL(url) ==
  LET raw == IF url.raw = <<>> THEN FromParts(url) ELSE url.raw
      active == SelectSeq(url.variables, LAMBDA variable : variable.active)
      substituted == FoldLeft(LAMBDA text, variable : Substitute(text, variable.key, variable.value),
                              raw, active)
  IN  CASE ~url.record -> url.raw
        [] url.record /\ raw = <<>> -> <<>>
        [] OTHER -> IF url.query = <<>> THEN substituted ELSE WithQuery(substituted, url.query[1])

-----------------------------------------------------------------------------
(* Headers, authentication and body of a request *)

PlainHeader(key, value) == [enabled |-> TRUE, key |-> key, value |-> value, sensitive |-> FALSE]

\* importedHeaders: what has no key or is not a pair of texts is skipped.
ImportedHeaders(candidates) ==
  LET taken == SelectSeq(candidates, LAMBDA candidate : candidate.valid /\ candidate.key # "")
  IN  [i \in DOMAIN taken |-> [PlainHeader(taken[i].key, taken[i].value) EXCEPT !.enabled = ~taken[i].disabled]]

Holding(headers, key) == {i \in DOMAIN headers : LowerCase[headers[i].key] = LowerCase[key]}

AddMissingHeader(headers, key, value) ==
  IF Holding(headers, key) # {} THEN headers ELSE Append(headers, PlainHeader(key, value))

\* Mutant: a header that the request has already is kept.
AddSensitiveHeaderOnce(headers, key, value) ==
  IF Holding(headers, key) # {} THEN headers
  ELSE Append(headers, [PlainHeader(key, value) EXCEPT !.sensitive = TRUE])

AddSensitiveHeader(headers, key, value) ==
  LET sensitive == [PlainHeader(key, value) EXCEPT !.sensitive = TRUE]
      first == Min(Holding(headers, key))
  IN  IF Holding(headers, key) = {} THEN Append(headers, sensitive)
      ELSE [headers EXCEPT ![first] = [sensitive EXCEPT !.key = headers[first].key]]

\* A code is counted where it came first.
Warn(warnings, code) ==
  LET known == {i \in DOMAIN warnings : warnings[i].code = code}
  IN  IF known = {} THEN Append(warnings, [code |-> code, count |-> 1])
      ELSE [i \in DOMAIN warnings |->
              IF i \in known THEN [warnings[i] EXCEPT !.count = @ + 1] ELSE warnings[i]]

\* Reading a request: what is known of it, and the warnings so far.
Noticed(condition, code, reading) ==
  IF condition THEN [reading EXCEPT !.warnings = Warn(@, code)] ELSE reading

\* importedAuth
ImportedAuth(auth, reading) ==
  CASE auth.type = "none" -> reading
    [] auth.type = "bearer" /\ auth.value # "" ->
         [reading EXCEPT !.request.headers = AddSensitiveHeader(@, "authorization", auth.value)]
    [] auth.type = "apikey" /\ auth.key # "" /\ ~auth.inQuery ->
         [reading EXCEPT !.request.headers = AddSensitiveHeader(@, auth.key, auth.value)]
    [] OTHER -> Noticed(TRUE, "auth_ignored", reading)

FormURLEncodedBody(entries) ==
  LET enabled == SelectSeq(entries, IsEnabled)
      Value(entry) == IF entry.value = <<>> THEN <<>> ELSE entry.value[1]
  IN  Joined([i \in DOMAIN enabled |-> Encoded(enabled[i].key) \o <<"=">> \o Encoded(Value(enabled[i]))],
             <<"&">>)

\* importedBody: an encoded body brings its type, unless the request has one.
EncodedBody(content, type, reading) ==
  [reading EXCEPT !.request.body = content,
                  !.request.headers = IF content = <<>> THEN @ ELSE AddMissingHeader(@, "content-type", type)]

ImportedBody(body, reading) ==
  CASE body.mode = "none" -> reading
    [] body.mode = "raw" -> [reading EXCEPT !.request.body = body.text]
    [] body.mode = "urlencoded" -> EncodedBody(FormURLEncodedBody(body.entries), "form", reading)
    [] body.mode = "graphql" -> EncodedBody(body.text, "json", reading)
    [] body.mode = "other" -> Noticed(TRUE, "body_ignored", reading)

-----------------------------------------------------------------------------
(* Documents *)

\* Authentication that is not null replaces what is inherited.
Nearest(auths) == IF \E i \in DOMAIN auths : auths[i] # <<>>
                    THEN auths[Min({i \in DOMAIN auths : auths[i] # <<>>})][1]
                  ELSE [type |-> "none"]

RequestName(item, folders) ==
  LET itemName == TransferableName(item.name, Untitled)
  IN  TransferableName(Joined(Append(folders, itemName), <<" ", "/", " ">>), itemName)

IsImportable(item) ==
  item.type = "request" /\ item.validMethod /\ PostmanURL(item.url) # <<>>

PlainRequest(item, folders) ==
  [name |-> RequestName(item, folders), url |-> PostmanURL(item.url),
   headers |-> ImportedHeaders(item.headers), body |-> <<>>]

\* An item that is a request, from its settings to its examples.
ReadRequest(item, auth, reading) ==
  Noticed(item.examples, "examples_ignored",
    Noticed(item.scripts, "scripts_ignored",
      ImportedBody(item.body,
        ImportedAuth(auth,
          Noticed(item.transport, "transport_ignored",
            Noticed(item.requestVariables, "variables_ignored", reading))))))

Finished(read, reading) ==
  [requests |-> Append(read.requests, reading.request), warnings |-> reading.warnings]

VisitRequest(read, item, folders, inherited) ==
  Finished(read, ReadRequest(item, Nearest(<<item.requestAuth, item.auth, inherited>>),
                             [request |-> PlainRequest(item, folders), warnings |-> read.warnings]))

Ignored(read) == Noticed(TRUE, "request_ignored", read)

\* Mutant: a folder without authentication has none.
FolderAuthAlone(item, inherited) == item.auth

FolderAuth(item, inherited) == IF item.auth = <<>> THEN inherited ELSE item.auth

EnteredFolder(read, item) ==
  Noticed(item.scripts, "scripts_ignored", Noticed(TRUE, "folder_hierarchy_flattened", read))

RECURSIVE Visit(_, _, _, _)
Visit(read, items, folders, inherited) ==
  LET VisitKnown(now, item) ==
        CASE item.type = "folder" ->
               Visit(EnteredFolder(now, item), item.items,
                     Append(folders, TransferableName(item.name, Untitled)), FolderAuth(item, inherited))
          [] item.type = "request" /\ IsImportable(item) -> VisitRequest(now, item, folders, inherited)
          [] OTHER -> Ignored(now)
      VisitItem(now, item) ==
        IF item.type = "invalid" THEN Ignored(now)
        ELSE VisitKnown(Noticed(item.variables, "variables_ignored", now), item)
  IN  FoldLeft(VisitItem, read, items)

\* parsePostmanCollection, of a document of the right schema.
ParsePostmanCollection(document) ==
  Visit(Noticed(document.scripts, "scripts_ignored",
          Noticed(document.variables, "variables_ignored", [requests |-> <<>>, warnings |-> <<>>])),
        document.items, <<>>, document.auth)

\* safeExportHeader
SafeExportHeader(header) ==
  LET secret == LowerCase[header.key] \in SecretKeys /\ header.value \notin References
  IN  [valid |-> TRUE, key |-> header.key, value |-> IF secret THEN "" ELSE header.value,
       disabled |-> secret \/ ~header.enabled]

WrittenItem(request) ==
  [type |-> "request", name |-> request.name, variables |-> FALSE, scripts |-> FALSE,
   examples |-> FALSE, auth |-> <<>>, requestAuth |-> <<>>, requestVariables |-> FALSE,
   transport |-> FALSE, validMethod |-> TRUE,
   url |-> [record |-> FALSE, raw |-> request.url],
   headers |-> [i \in DOMAIN request.headers |-> SafeExportHeader(request.headers[i])],
   body |-> IF request.body = <<>> THEN [mode |-> "none"] ELSE [mode |-> "raw", text |-> request.body]]

\* serializePostmanCollection
SerializePostmanCollection(requests) ==
  LET sorted == SortSeq(requests, LAMBDA a, b : a.order < b.order)
  IN  [variables |-> FALSE, scripts |-> FALSE, auth |-> <<>>,
       items |-> [i \in DOMAIN sorted |-> WrittenItem(sorted[i])]]

-----------------------------------------------------------------------------
(* Properties *)

\* The requests of a tree in the order of the document, each with its folders and the
\* authentication that is nearest to it.
RECURSIVE LeavesOf(_, _, _)
LeavesOf(items, folders, auths) ==
  FlattenSeq([i \in DOMAIN items |->
    LET item == items[i]
    IN  CASE item.type = "folder" -> LeavesOf(item.items, Append(folders, item), <<item.auth>> \o auths)
          [] item.type = "request" -> <<[item |-> item, folders |-> folders,
                                         auth |-> Nearest(<<item.requestAuth, item.auth>> \o auths)]>>
          [] item.type = "invalid" -> <<[item |-> item, folders |-> folders, auth |-> [type |-> "none"]]>>])

RECURSIVE FoldersOf(_)
FoldersOf(items) ==
  FlattenSeq([i \in DOMAIN items |->
    IF items[i].type = "folder" THEN <<items[i]>> \o FoldersOf(items[i].items) ELSE <<>>])

CountOf(warnings, code) ==
  LET of == SelectSeq(warnings, LAMBDA warning : warning.code = code)
  IN  IF of = <<>> THEN 0 ELSE of[1].count

Carries(auth) ==
  \/ auth.type = "bearer" /\ auth.value # ""
  \/ auth.type = "apikey" /\ auth.key # "" /\ ~auth.inQuery

ImportedOf(leaves) == SelectSeq(leaves, LAMBDA leaf : IsImportable(leaf.item))
LeavesOfDocument(document) == LeavesOf(document.items, <<>>, <<document.auth>>)

NumberHaving(things, Test(_)) == Len(SelectSeq(things, Test))
IsSet(flag) == IF flag THEN 1 ELSE 0

\* How often a part of a document is to be warned of.
ExpectedCount(code, document, leaves, imported, folders) ==
  CASE code = "request_ignored" -> Len(leaves) - Len(imported)
    [] code = "folder_hierarchy_flattened" -> Len(folders)
    [] code = "scripts_ignored" ->
         IsSet(document.scripts) + NumberHaving(folders, LAMBDA folder : folder.scripts)
           + NumberHaving(imported, LAMBDA leaf : leaf.item.scripts)
    [] code = "variables_ignored" ->
         IsSet(document.variables) + NumberHaving(folders, LAMBDA folder : folder.variables)
           + NumberHaving(leaves, LAMBDA leaf : leaf.item.type = "request" /\ leaf.item.variables)
           + NumberHaving(imported, LAMBDA leaf : leaf.item.requestVariables)
    [] code = "examples_ignored" -> NumberHaving(imported, LAMBDA leaf : leaf.item.examples)
    [] code = "transport_ignored" -> NumberHaving(imported, LAMBDA leaf : leaf.item.transport)
    [] code = "body_ignored" -> NumberHaving(imported, LAMBDA leaf : leaf.item.body.mode = "other")
    [] code = "auth_ignored" ->
         NumberHaving(imported, LAMBDA leaf : leaf.auth.type # "none" /\ ~Carries(leaf.auth))

WarningCodes ==
  {"request_ignored", "folder_hierarchy_flattened", "scripts_ignored", "variables_ignored",
   "examples_ignored", "transport_ignored", "body_ignored", "auth_ignored"}

HeaderOf(auth) == IF auth.type = "bearer" THEN "authorization" ELSE auth.key

\* The headers that were given are there, but for the first of that name, which holds
\* the authentication if there is any; what is added has a name of its own.
CarriesAuth(auth, given, got) ==
  /\ Len(got) >= Len(given)
  /\ \A k \in DOMAIN got \ DOMAIN given : Holding(got, got[k].key) = {k}
  /\ IF Carries(auth)
       THEN \E place \in Holding(got, HeaderOf(auth)) :
              /\ \A k \in Holding(got, HeaderOf(auth)) : place <= k
              /\ got[place].value = auth.value /\ got[place].enabled /\ got[place].sensitive
              /\ \A k \in DOMAIN given \ {place} : got[k] = given[k]
     ELSE \A k \in DOMAIN given : got[k] = given[k]

\* Every request of the tree is imported in its place or counted, and so is every
\* part of it that is left out; a request that is imported carries the authentication
\* that is nearest to it, in the first header of that name and whatever this held
\* before, and for the rest the headers it had (postmanTransfer.ts:558).
NothingIsLost ==
  Asks("postman") =>
    \A read \in {ParsePostmanCollection(question.postman)}, leaves \in {LeavesOfDocument(question.postman)} :
      \A imported \in {ImportedOf(leaves)} :
        /\ Len(read.requests) = Len(imported)
        /\ \A code \in WarningCodes :
             CountOf(read.warnings, code)
               = ExpectedCount(code, question.postman, leaves, imported, FoldersOf(question.postman.items))
        /\ IsInjective([i \in DOMAIN read.warnings |-> read.warnings[i].code])
        /\ \A i \in DOMAIN imported :
             CarriesAuth(imported[i].auth, ImportedHeaders(imported[i].item.headers), read.requests[i].headers)

\* A name that a path of names is given.
NamesPath(name, names, full) ==
  /\ name # <<>> /\ Len(name) <= MaxName
  /\ \A k \in 1..Len(name) - 1 : name[k] = " " => name[k + 1] # " " /\ k > 1
  /\ Len(full) <= MaxName => name = full
  /\ (Len(full) > MaxName /\ \A k \in DOMAIN names : Len(names[k]) <= MaxName) =>
       Last(name) = "..." /\ Front(name) = TrimEnd(SubSeq(full, 1, MaxName - 1))

\* The name of a request is not empty, no longer than allowed and without spaces that
\* do not count; it names its folders as far as there is room (postmanTransfer.ts:625).
NamesKeepFolders ==
  Asks("postman") =>
    LET Named(thing) == IF Collapsed(thing.name) = <<>> THEN Untitled ELSE Collapsed(thing.name)
        NamesOf(leaf) == [k \in 1..Len(leaf.folders) + 1 |-> Named(Append(leaf.folders, leaf.item)[k])]
    IN  \A read \in {ParsePostmanCollection(question.postman)},
           imported \in {ImportedOf(LeavesOfDocument(question.postman))} :
          \A i \in DOMAIN imported : \A names \in {NamesOf(imported[i])} :
            NamesPath(read.requests[i].name, names, Joined(names, <<" ", "/", " ">>))

\* Cut at a separator.
SplitAt(pieces, separators) ==
  FoldLeft(LAMBDA parts, piece : IF piece \in separators THEN Append(parts, <<>>)
                                 ELSE [parts EXCEPT ![Len(parts)] = Append(@, piece)],
           <<<<>>>>, pieces)

\* Each segment of a URL that ends in the name of a variable ends in its value, and
\* no other changes; the query is that of the entries that are enabled, whatever they
\* hold, and the fragment is kept (postmanTransfer.ts:202).
UrlIsThatOfItsParts ==
  Asks("postmanUrl") =>
    LET url == question.postmanUrl
        raw == IF url.raw = <<>> THEN FromParts(url) ELSE url.raw
        result == PostmanURL(url)
        active == SelectSeq(url.variables, LAMBDA variable : variable.active)
        \* Variables with a name, each of its own, and values that are not URLs.
        keys == UNION {Range(active[i].key) : i \in DOMAIN active}
        Unambiguous == /\ \A i \in DOMAIN active :
                            Len(active[i].key) = 1 /\ Range(active[i].value) \cap ({":", "/", "?", "#"} \cup keys) = {}
                       /\ \A i, j \in DOMAIN active : active[i].key = active[j].key => i = j
        Replaced(segment) ==
          LET named == {i \in DOMAIN active : Len(segment) > 1 /\ segment[Len(segment) - 1] = ":"
                                                /\ <<Last(segment)>> = active[i].key}
          IN  IF named = {} THEN segment
              ELSE SubSeq(segment, 1, Len(segment) - 2) \o active[CHOOSE i \in named : TRUE].value
        Segments(text) == SplitAt(SubSeq(text, 1, FirstOf(text, {"?", "#"}) - 1), {"/"})
        QueryOf(text) ==
          LET from == FirstOf(text, {"?", "#"})
          IN  IF from <= Len(text) /\ text[from] = "?"
                THEN SubSeq(text, from + 1, Max({from, FirstOf(text, {"#"}) - 1})) ELSE <<>>
        enabled == SelectSeq(url.query[1], IsEnabled)
    IN  /\ raw = <<>> => result = <<>>
        /\ (url.record /\ raw # <<>> /\ Unambiguous) =>
             Segments(result) = [i \in DOMAIN Segments(raw) |-> Replaced(Segments(raw)[i])]
        /\ (url.record /\ raw # <<>> /\ url.query # <<>>) =>
             /\ IF enabled = <<>> THEN QueryOf(result) = <<>>
                ELSE LET entries == SplitAt(QueryOf(result), {"&"})
                     IN  /\ Len(entries) = Len(enabled)
                         /\ \A i \in DOMAIN entries : entries[i] = QueryEntry(enabled[i])
             /\ Unambiguous => Len(SplitAt(result, {"#"})) = Len(SplitAt(raw, {"#"}))

\* What is written and read again is the collection as it was in its order, the
\* secrets alone being removed and disabled, and requests without a URL counted
\* (postmanTransfer.ts:97).
ReadAsWritten ==
  Asks("transfer") =>
    LET requests == question.transfer
        IsSecret(header) == LowerCase[header.key] \in SecretKeys /\ header.value \notin References
        Kept(headers) == SelectSeq(headers, LAMBDA header : header.key # "")
        Safe(header) == [enabled |-> header.enabled /\ ~IsSecret(header), key |-> header.key,
                         value |-> IF IsSecret(header) THEN "" ELSE header.value, sensitive |-> FALSE]
        Place(request) == 1 + Cardinality({i \in DOMAIN requests : requests[i].order < request.order
                                                                     /\ requests[i].url # <<>>})
    IN  \A read \in {ParsePostmanCollection(SerializePostmanCollection(requests))} :
          /\ Len(read.requests) = Len(SelectSeq(requests, LAMBDA request : request.url # <<>>))
          /\ CountOf(read.warnings, "request_ignored") = Len(requests) - Len(read.requests)
          /\ Len(read.warnings) <= 1
          /\ \A i \in DOMAIN requests : requests[i].url # <<>> =>
               LET kept == Kept(requests[i].headers)
               IN  read.requests[Place(requests[i])] =
                     [name |-> requests[i].name, url |-> requests[i].url, body |-> requests[i].body,
                      headers |-> [k \in DOMAIN kept |-> Safe(kept[k])]]

PostmanExact == NothingIsLost /\ NamesKeepFolders /\ UrlIsThatOfItsParts /\ ReadAsWritten
=============================================================================
