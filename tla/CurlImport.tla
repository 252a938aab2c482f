------------------------------ MODULE CurlImport ------------------------------
(***************************************************************************)
(* Importing a curl command of bash                                        *)
(* (features/requests/model/curlImport.ts): the words of the command and   *)
(* the request that its options describe.                                  *)
(*                                                                         *)
(* A source is a sequence of characters, a word a sequence of characters   *)
(* and, while it is being read, of single bytes.                           *)
(***************************************************************************)
EXTENDS Integers, Sequences, FiniteSets, SequencesExt, FiniteSetsExt, Question

CONSTANTS
  Spaces,          \* the characters that end a word
  Operators,       \* the operators of the shell
  Expanding,       \* the characters that after a dollar begin an expansion
  Plain,           \* what stands for a character after a backslash in ANSI quotes
  HexValue,        \* the value of a hexadecimal digit
  OctalDigits,
  ByteOf,          \* the character or byte with a number below 256
  CharOf,          \* the character with a code point, where there is one
  Wide,            \* the characters of two bytes
  CurlLimits       \* command, words, headers and body

-----------------------------------------------------------------------------
(* Words *)

Lexer == [at |-> 1, words |-> <<>>, word |-> <<>>, started |-> FALSE, error |-> ""]

FailWord(lexer, error) == [lexer EXCEPT !.error = error]
Advanced(lexer, count) == [lexer EXCEPT !.at = @ + count]

\* The word goes on, and exists although it may be empty.
Extended(lexer, units, count) ==
  [lexer EXCEPT !.word = @ \o units, !.started = TRUE, !.at = @ + count]

\* The characters of a word: two bytes are one character; <<"nul">> if there are
\* bytes that are not text.
Decoded(units) ==
  LET Step(acc, unit) ==
        IF acc.lead # <<>> /\ acc.lead \o <<unit>> \in DOMAIN Wide
          THEN [acc EXCEPT !.lead = <<>>, !.text = Append(@, Wide[acc.lead \o <<unit>>])]
        ELSE IF acc.lead # <<>> THEN [acc EXCEPT !.text = Append(@, "nul")]
        ELSE IF \E pair \in DOMAIN Wide : unit = pair[1] THEN [acc EXCEPT !.lead = <<unit>>]
        ELSE IF \E pair \in DOMAIN Wide : unit = pair[2] THEN [acc EXCEPT !.text = Append(@, "nul")]
        ELSE [acc EXCEPT !.text = Append(@, unit)]
      all == FoldLeft(Step, [lead |-> <<>>, text |-> <<>>], units)
  IN  IF all.lead = <<>> THEN all.text ELSE <<"nul">>

\* Mutant: an empty word in quotes is no word.
PushIfText(lexer) ==
  LET text == Decoded(lexer.word)
  IN  IF text = <<>> THEN [lexer EXCEPT !.started = FALSE]
      ELSE IF "nul" \in ToSet(text) THEN FailWord(lexer, "unsupported_binary")
      ELSE IF Len(lexer.words) = CurlLimits.words THEN FailWord(lexer, "too_many_tokens")
      ELSE [lexer EXCEPT !.words = Append(@, text), !.word = <<>>, !.started = FALSE]

\* push: the word ends, if there is one.
Push(lexer) ==
  LET text == Decoded(lexer.word)
  IN  IF ~lexer.started THEN lexer
      ELSE IF "nul" \in ToSet(text) THEN FailWord(lexer, "unsupported_binary")
      ELSE IF Len(lexer.words) = CurlLimits.words THEN FailWord(lexer, "too_many_tokens")
      ELSE [lexer EXCEPT !.words = Append(@, text), !.word = <<>>, !.started = FALSE]

CharAt(source, i) == IF i \in DOMAIN source THEN source[i] ELSE "end"

\* shellExpansionAt
ExpandsAt(source, i) == CharAt(source, i) = "$" /\ CharAt(source, i + 1) \in Expanding

\* How many characters a continued line takes up at a backslash.
Continuation(source, i) ==
  IF CharAt(source, i + 1) = "lf" THEN 2
  ELSE IF CharAt(source, i + 1) = "cr" /\ CharAt(source, i + 2) = "lf" THEN 3
  ELSE 0

EndOfComment(source, i) ==
  Min({j \in i..Len(source) : source[j] = "lf"} \cup {Len(source) + 1})

\* A backslash outside quotes.
Escaped(source, lexer) ==
  LET next == CharAt(source, lexer.at + 1)
      continued == Continuation(source, lexer.at)
  IN  IF next = "end" THEN FailWord(lexer, "unterminated_quote")
      ELSE IF continued > 0 THEN Advanced(lexer, continued)
      ELSE Extended(lexer, <<next>>, 2)

SingleQuoted(source, lexer) ==
  LET ends == {i \in lexer.at + 1..Len(source) : source[i] = "'"}
  IN  IF ends = {} THEN FailWord(lexer, "unterminated_quote")
      ELSE Extended(lexer, SubSeq(source, lexer.at + 1, Min(ends) - 1), Min(ends) + 1 - lexer.at)

\* Between double quotes.
RECURSIVE DoubleQuoted(_, _)
DoubleQuoted(source, lexer) ==
  LET char == CharAt(source, lexer.at)
      next == CharAt(source, lexer.at + 1)
      continued == Continuation(source, lexer.at)
      kept == IF next \in {"\"", "\\", "$", "tick"} THEN <<next>> ELSE <<"\\", next>>
  IN  CASE char = "end" -> FailWord(lexer, "unterminated_quote")
        [] char = "\"" -> Extended(lexer, <<>>, 1)
        [] char = "tick" \/ ExpandsAt(source, lexer.at) -> FailWord(lexer, "unsafe_shell")
        [] char = "\\" /\ next = "end" -> FailWord(lexer, "unterminated_quote")
        [] char = "\\" /\ continued > 0 -> DoubleQuoted(source, Advanced(lexer, continued))
        [] char = "\\" /\ continued = 0 /\ next # "end" ->
             DoubleQuoted(source, Extended(lexer, kept, 2))
        [] OTHER -> DoubleQuoted(source, Extended(lexer, <<char>>, 1))

\* The digits from a place, at most so many.
DigitsAt(source, i, digits, most) ==
  LET count == CHOOSE n \in 0..most :
                 /\ \A k \in 0..n - 1 : CharAt(source, i + k) \in digits
                 /\ n = most \/ CharAt(source, i + n) \notin digits
  IN  SubSeq(source, i, i + count - 1)

NumberOf(digits, base) == FoldLeft(LAMBDA number, digit : number * base + HexValue[digit], 0, digits)

\* ansiEscape: what stands after a backslash in ANSI quotes, and its length.
AnsiEscape(source, i) ==
  LET char == source[i]
      byte == DigitsAt(source, i + 1, DOMAIN HexValue, 2)
      length == IF char = "u" THEN 4 ELSE 8
      point == DigitsAt(source, i + 1, DOMAIN HexValue, length)
      octal == DigitsAt(source, i, OctalDigits, 3)
      Units(units, count) == [units |-> units, count |-> count]
  IN  CASE char \in DOMAIN Plain -> Units(<<Plain[char]>>, 1)
        [] char = "lf" -> Units(<<>>, 1)
        [] char = "cr" /\ CharAt(source, i + 1) = "lf" -> Units(<<>>, 2)
        [] char = "x" /\ byte # <<>> -> Units(<<ByteOf[NumberOf(byte, 16)]>>, 1 + Len(byte))
        [] char \in {"u", "U"} /\ Len(point) = length /\ NumberOf(point, 16) \in DOMAIN CharOf ->
             Units(<<CharOf[NumberOf(point, 16)]>>, 1 + length)
        [] octal # <<>> -> Units(<<ByteOf[NumberOf(octal, 8) % 256]>>, Len(octal))
        [] OTHER -> Units(<<"\\", char>>, 1)

\* Between ANSI quotes.
RECURSIVE AnsiQuoted(_, _)
AnsiQuoted(source, lexer) ==
  LET char == CharAt(source, lexer.at)
      escape == AnsiEscape(source, lexer.at + 1)
  IN  CASE char = "end" -> FailWord(lexer, "unterminated_quote")
        [] char = "'" -> Extended(lexer, <<>>, 1)
        [] char = "\\" /\ CharAt(source, lexer.at + 1) = "end" -> FailWord(lexer, "unterminated_quote")
        [] char = "\\" /\ CharAt(source, lexer.at + 1) # "end" ->
             AnsiQuoted(source, Extended(lexer, escape.units, 1 + escape.count))
        [] OTHER -> AnsiQuoted(source, Extended(lexer, <<char>>, 1))

\* One piece of the source: a blank, a comment, a character or what is in quotes.
ReadPiece(source, lexer) ==
  LET char == source[lexer.at]
  IN  CASE char \in Spaces -> Advanced(Push(lexer), 1)
        [] char = "#" /\ ~lexer.started -> [lexer EXCEPT !.at = EndOfComment(source, lexer.at)]
        [] char \in Operators \cup {"tick"} -> FailWord(lexer, "unsafe_shell")
        [] char = "\\" -> Escaped(source, lexer)
        [] char = "'" -> SingleQuoted(source, lexer)
        [] char = "$" /\ CharAt(source, lexer.at + 1) = "'" ->
             AnsiQuoted(source, Extended(lexer, <<>>, 2))
        [] char = "\"" -> DoubleQuoted(source, Extended(lexer, <<>>, 1))
        [] ExpandsAt(source, lexer.at) -> FailWord(lexer, "unsafe_shell")
        [] OTHER -> Extended(lexer, <<char>>, 1)

RECURSIVE ReadPieces(_, _)
ReadPieces(source, lexer) ==
  IF lexer.error # "" THEN lexer
  ELSE IF lexer.at > Len(source) THEN Push(lexer)
  ELSE ReadPieces(source, ReadPiece(source, lexer))

TokenizeBash(source) ==
  IF ToSet(source) \subseteq Spaces THEN FailWord(Lexer, "empty")
  ELSE IF Len(source) > CurlLimits.command THEN FailWord(Lexer, "too_large")
  ELSE ReadPieces(source, Lexer)

-----------------------------------------------------------------------------
(* Options.  A word is its option, the value attached to it if there is one, *)
(* and what it is as a value: whether it begins with an at-sign and has the   *)
(* separator that options ask for, a name before it, a method, its codings    *)
(* as a list of what is supported, and its size.  No option: a plain word.    *)

NoEffect == {"--silent", "-s"}
WarningOf == [option \in {"--compressed", "--insecure", "-k", "--location", "-L"} |->
                CASE option = "--compressed" -> "compressed"
                  [] option \in {"--insecure", "-k"} -> "tls_policy"
                  [] OTHER -> "redirect_policy"]
\* Flags written together after one dash.
Clusters == {"-sk", "-Lk"}
ClusterWarnings(option) ==
  IF option = "-sk" THEN {"tls_policy"} ELSE {"tls_policy", "redirect_policy"}

HeaderOptions == {"--header", "--cookie", "--user-agent", "--user", "--oauth2-bearer"}
DataOptions == {"--data", "--data-raw", "--data-binary", "--data-urlencode", "--json"}
FormOptions == {"--form", "--form-string"}
IgnoredOptions == {"--output"}
FileOptions == {"--config", "--upload-file"}
ValueOptions == HeaderOptions \cup DataOptions \cup FormOptions \cup IgnoredOptions
                  \cup {"--url", "--request"}

NewCommand ==
  [url |-> <<>>, method |-> "", headers |-> <<>>, data |-> <<>>, forms |-> <<>>,
   warnings |-> {}, useGet |-> FALSE, useHead |-> FALSE, json |-> FALSE, error |-> ""]

FailCommand(command, error) == [command EXCEPT !.error = error]

SetURL(command, word) ==
  IF command.url # <<>> THEN FailCommand(command, "multiple_urls")
  ELSE [command EXCEPT !.url = <<word>>]

Header(key, value) == [key |-> key, value |-> value]

\* addHeader
AddHeader(command, header, valid) ==
  IF ~valid \/ header.value.size > CurlLimits.header THEN FailCommand(command, "invalid_header")
  ELSE IF Len(command.headers) = CurlLimits.headers THEN FailCommand(command, "too_many_headers")
  ELSE [command EXCEPT !.headers = Append(@, header)]

\* The options that add a header; a cookie without a name is the name of a file.
TakeHeader(command, option, value) ==
  CASE option = "--header" /\ value.file -> FailCommand(command, "unsupported_file")
    [] option = "--header" /\ ~value.file -> AddHeader(command, Header(value.name, value), value.named)
    [] option = "--cookie" /\ (value.file \/ ~value.separated) ->
         FailCommand(command, "unsupported_file")
    [] option = "--cookie" /\ ~value.file /\ value.separated ->
         AddHeader(command, Header("cookie", value), TRUE)
    [] option = "--user" /\ ~value.separated -> FailCommand(command, "unsupported_option")
    [] option = "--user" /\ value.separated ->
         AddHeader(command, Header("authorization", value), TRUE)
    [] option = "--user-agent" -> AddHeader(command, Header("user-agent", value), TRUE)
    [] option = "--oauth2-bearer" -> AddHeader(command, Header("authorization", value), TRUE)

\* Data is taken as it is, encoded, or refused as the name of a file; after the
\* first, a part is joined by an ampersand, unless it is JSON.
TakeData(command, option, value) ==
  IF value.file /\ option # "--data-raw" THEN FailCommand(command, "unsupported_file")
  ELSE [command EXCEPT
          !.data = Append(@, [value |-> value, encoded |-> option = "--data-urlencode",
                              joined |-> option # "--json"]),
          !.json = @ \/ option = "--json"]

TakeForm(command, option, value) ==
  IF ~value.named THEN FailCommand(command, "invalid_form")
  ELSE IF value.file /\ option = "--form" THEN FailCommand(command, "unsupported_file")
  ELSE [command EXCEPT !.forms = Append(@, value)]

TakeMethod(command, value) ==
  IF value.method = "" THEN FailCommand(command, "unsupported_method")
  ELSE [command EXCEPT !.method = value.method]

TakeOption(command, option, value) ==
  CASE option = "--url" -> SetURL(command, value)
    [] option = "--request" -> TakeMethod(command, value)
    [] option \in HeaderOptions -> TakeHeader(command, option, value)
    [] option \in DataOptions -> TakeData(command, option, value)
    [] option \in FormOptions -> TakeForm(command, option, value)
    [] option \in IgnoredOptions -> command

\* An option without a value; a value that is attached all the same is ignored.
TakeFlag(command, option) ==
  CASE option \in NoEffect -> command
    [] option \in DOMAIN WarningOf -> [command EXCEPT !.warnings = @ \cup {WarningOf[option]}]
    [] option \in Clusters -> [command EXCEPT !.warnings = @ \cup ClusterWarnings(option)]
    [] option = "--get" -> [command EXCEPT !.useGet = TRUE]
    [] option = "--head" -> [command EXCEPT !.useHead = TRUE]
    [] option \in FileOptions -> FailCommand(command, "unsupported_file")
    [] OTHER -> FailCommand(command, "unsupported_option")

\* The words after the name of the command.
RECURSIVE ReadOptions(_, _)
ReadOptions(command, words) ==
  LET word == Head(words)
      attached == word.attached # <<>>
      value == IF attached THEN word.attached[1] ELSE words[2].value
  IN  IF command.error # "" \/ words = <<>> THEN command
      ELSE IF word.option = "--"
        THEN FoldLeft(LAMBDA c, positional : IF c.error # "" THEN c ELSE SetURL(c, positional.value),
                      command, Tail(words))
      ELSE IF word.option = "" THEN ReadOptions(SetURL(command, word.value), Tail(words))
      ELSE IF word.option \notin ValueOptions
        THEN ReadOptions(TakeFlag(command, word.option), Tail(words))
      ELSE IF ~attached /\ Len(words) = 1 THEN FailCommand(command, "missing_option_value")
      ELSE ReadOptions(TakeOption(command, word.option, value),
                       SubSeq(words, IF attached THEN 2 ELSE 3, Len(words)))

-----------------------------------------------------------------------------
(* The request *)

Has(headers, key) == \E i \in DOMAIN headers : headers[i].key = key

NoValue == [file |-> FALSE, separated |-> FALSE, named |-> FALSE, name |-> "", method |-> "",
            codings |-> <<>>, size |-> 0]
DefaultHeader(key, text) == Header(key, [NoValue EXCEPT !.name = text])

AddUnlessGiven(command, needed, key, text) ==
  IF command.error # "" \/ ~needed \/ Has(command.headers, key) THEN command
  ELSE AddHeader(command, DefaultHeader(key, text), TRUE)

\* What is sent: the parts of a form, or the data with what joins them.
BodyOf(command) ==
  IF command.forms # <<>>
    THEN [i \in DOMAIN command.forms |-> [value |-> command.forms[i], encoded |-> FALSE, joined |-> TRUE]]
  ELSE [i \in DOMAIN command.data |-> [command.data[i] EXCEPT !.joined = i # 1 /\ @]]

BodySize(body) ==
  FoldLeft(LAMBDA size, part : size + part.value.size + (IF part.joined THEN 1 ELSE 0), 0, body)

MethodOf(command) ==
  CASE command.method # "" -> command.method
    [] command.method = "" /\ command.useHead -> "HEAD"
    [] command.method = "" /\ ~command.useHead /\ command.useGet -> "GET"
    [] command.method = "" /\ ~command.useHead /\ ~command.useGet ->
         IF command.data # <<>> \/ command.forms # <<>> THEN "POST" ELSE "GET"

SendsData(command) ==
  command.data # <<>> /\ ~command.useGet /\ MethodOf(command) # "HEAD"

\* Mutant: the defaults of JSON come after that of other data.
DefaultedLate(command) ==
  LET formed == AddUnlessGiven(command, command.forms # <<>>, "content-type", "multipart")
      sent == AddUnlessGiven(formed, SendsData(command), "content-type", "urlencoded")
      typed == AddUnlessGiven(sent, command.json, "content-type", "json")
  IN  AddUnlessGiven(typed, command.json, "accept", "json")

\* The headers that follow from the options, in their order: those of a form and of
\* JSON, and what is left to other data.
WithTypes(command) ==
  LET formed == AddUnlessGiven(command, command.forms # <<>>, "content-type", "multipart")
      typed == AddUnlessGiven(formed, command.json, "content-type", "json")
  IN  AddUnlessGiven(typed, command.json, "accept", "json")

Defaulted(command) ==
  AddUnlessGiven(WithTypes(command), SendsData(command), "content-type", "urlencoded")

\* normalizeAcceptEncoding: codings that cannot be undone are dropped, and the
\* header with the last of them.
Supported(header) == SelectSeq(header.value.codings, LAMBDA coding : coding)
Reduces(header) == header.key = "accept-encoding" /\ Supported(header) # header.value.codings

NormalizeAcceptEncoding(headers) ==
  LET kept == SelectSeq(headers, LAMBDA header : ~Reduces(header) \/ Supported(header) # <<>>)
  IN  [i \in DOMAIN kept |->
         IF Reduces(kept[i]) THEN [kept[i] EXCEPT !.value.codings = Supported(kept[i])] ELSE kept[i]]

Normalized(command) ==
  LET headers == NormalizeAcceptEncoding(command.headers)
      reduced == \E i \in DOMAIN command.headers : Reduces(command.headers[i])
      added == "compressed" \in command.warnings /\ ~Has(headers, "accept-encoding")
      default == Header("accept-encoding", [NoValue EXCEPT !.codings = <<TRUE, TRUE>>])
  IN  IF added /\ Len(headers) >= CurlLimits.headers THEN FailCommand(command, "too_many_headers")
      ELSE [command EXCEPT !.headers = IF added THEN Append(headers, default) ELSE headers,
                           !.warnings = IF reduced THEN @ \cup {"accept_encoding"} ELSE @]

Refusal(command) ==
  CASE command.error # "" -> command.error
    [] command.error = "" /\ (command.url = <<>> \/ command.url[1].size = 0) -> "missing_url"
    [] OTHER -> IF command.forms # <<>> /\ command.data # <<>> THEN "invalid_form" ELSE ""

\* HEAD has no body, unless the data go into the URL.
HeadWithBody(command) ==
  /\ MethodOf(command) = "HEAD"
  /\ command.forms # <<>> \/ (~command.useGet /\ command.data # <<>>)

\* The options of a command that are in order make a request.
RequestOf(command) ==
  LET defaulted == Defaulted(command)
      body == BodyOf(command)
      normalized == Normalized(defaulted)
      inQuery == command.useGet /\ BodySize(body) > 0
      Refused(error) == [error |-> error]
  IN  IF Refusal(command) # "" THEN Refused(Refusal(command))
      ELSE IF WithTypes(command).error # "" THEN Refused(WithTypes(command).error)
      ELSE IF BodySize(body) > CurlLimits.body THEN Refused("body_too_large")
      ELSE IF HeadWithBody(command) THEN Refused("unsupported_method")
      ELSE IF defaulted.error # "" THEN Refused(defaulted.error)
      ELSE IF normalized.error # "" THEN Refused(normalized.error)
      ELSE [error |-> "", method |-> MethodOf(command), url |-> command.url[1],
            query |-> IF inQuery THEN body ELSE <<>>, body |-> IF inQuery THEN <<>> ELSE body,
            headers |-> normalized.headers, warnings |-> normalized.warnings]

\* parseCurlBash, from the word after the name of the command.
ParseCurlBash(words) == RequestOf(ReadOptions(NewCommand, words))

-----------------------------------------------------------------------------
(* Properties *)

\* How a text is written in one of the ways to quote.
Quoted(style, text) ==
  LET Each(Write(_)) == FoldLeft(LAMBDA acc, char : acc \o Write(char), <<>>, text)
  IN  CASE style = "bare" -> text
        [] style = "escaped" -> Each(LAMBDA char : <<"\\", char>>)
        [] style = "single" -> <<"'">> \o text \o <<"'">>
        [] style = "double" ->
             <<"\"">> \o Each(LAMBDA char : IF char \in {"\"", "\\", "$", "tick"} THEN <<"\\", char>>
                                            ELSE <<char>>) \o <<"\"">>
        [] style = "ansi" ->
             <<"$", "'">> \o Each(LAMBDA char : IF char \in {"'", "\\"} THEN <<"\\", char>>
                                                ELSE <<char>>) \o <<"'">>

Written(pieces) == FoldLeft(LAMBDA acc, piece : acc \o Quoted(piece.style, piece.text), <<>>, pieces)
Meant(pieces) == FoldLeft(LAMBDA acc, piece : acc \o piece.text, <<>>, pieces)

\* However the words of a command are quoted and whatever separates them, they are
\* read as they were meant; an operator or an expansion of the shell is never
\* executed or taken for text, nor is a quotation that does not end
\* (curlImport.ts:283).
WordsExact ==
  Asks("words") =>
    \A words \in {question.words.words}, tail \in {question.words.tail} :
      \A lexer \in {TokenizeBash(FoldLeft(LAMBDA acc, word : acc \o Written(word) \o question.words.between,
                                          <<>>, words) \o tail.text)} :
        /\ lexer.error = tail.error
        /\ tail.error = "" => lexer.words = [i \in DOMAIN words |-> Meant(words[i])] \o tail.words

\* The words of a list of options with their values, attached or after them; a value
\* that stands alone may look like an option.
WordsOf(options) ==
  LET Words(o) ==
        IF o.attached THEN <<[option |-> o.option, attached |-> <<o.value>>, value |-> NoValue]>>
        ELSE IF o.option \in ValueOptions
          THEN <<[option |-> o.option, attached |-> <<>>, value |-> NoValue],
                 [option |-> "--get", attached |-> <<>>, value |-> o.value]>>
        ELSE <<[option |-> o.option, attached |-> <<>>, value |-> o.value]>>
  IN  FoldLeft(LAMBDA acc, o : acc \o Words(o), <<>>, options)

\* Whether an option is accepted by itself.
IsFine(o) ==
  LET v == o.value
  IN  /\ o.option \notin FileOptions \cup {"--unknown"}
      /\ o.option = "--request" => v.method # ""
      /\ o.option \in HeaderOptions => v.size <= CurlLimits.header
      /\ o.option = "--header" => v.named /\ ~v.file
      /\ o.option = "--cookie" => v.separated /\ ~v.file
      /\ o.option = "--user" => v.separated
      /\ o.option \in DataOptions \ {"--data-raw"} => ~v.file
      /\ o.option \in FormOptions => v.named
      /\ o.option = "--form" => ~v.file

\* A command is taken if and only if each of its options is, it has one URL, not both
\* a form and data, and its body and headers are within the limits; wherever an
\* option stands, values and options are told apart.  The request has the method and
\* the warnings that the options call for; the headers that were given, in their
\* order, without what cannot be undone, and then only defaults that nothing given
\* replaces; and all of the data, in the URL or in the body, which then has exactly
\* one content type unless several were given (curlImport.ts:615).
RequestExact ==
  Asks("curl") =>
    \A options \in {question.curl}, result \in {ParseCurlBash(WordsOf(question.curl))} :
    LET Those(set) == SelectSeq(options, LAMBDA o : o.option \in set)
        Uses(set) == Those(set) # <<>>
        HeaderKey(o) == CASE o.option = "--header" -> o.value.name
                      [] o.option = "--cookie" -> "cookie"
                      [] o.option = "--user-agent" -> "user-agent"
                      [] OTHER -> "authorization"
        headers == Those(HeaderOptions)
        Gives(key) == \E i \in DOMAIN headers : HeaderKey(headers[i]) = key
        data == Those(DataOptions)
        forms == Those(FormOptions)
        urls == Those({"", "--url"})
        methods == Those({"--request"})
        useGet == Uses({"--get"})
        method == IF methods # <<>> THEN methods[Len(methods)].value.method
                  ELSE IF Uses({"--head"}) THEN "HEAD"
                  ELSE IF useGet \/ data \o forms = <<>> THEN "GET" ELSE "POST"
        typed == ~Gives("content-type")
                   /\ (forms # <<>> \/ Uses({"--json"})
                       \/ (data # <<>> /\ ~useGet /\ method # "HEAD"))
        accepting == Uses({"--json"}) /\ ~Gives("accept")
        defaults == (IF typed THEN {"content-type"} ELSE {}) \cup (IF accepting THEN {"accept"} ELSE {})
        Drops(o) == HeaderKey(o) = "accept-encoding" /\ TRUE \notin ToSet(o.value.codings)
                      /\ o.value.codings # <<>>
        kept == SelectSeq(headers, LAMBDA o : ~Drops(o))
        compressing == Uses({"--compressed"})
                         /\ ~\E i \in DOMAIN kept : HeaderKey(kept[i]) = "accept-encoding"
        size == FoldLeft(LAMBDA n, o : n + o.value.size, 0, data \o forms)
                  + (IF forms # <<>> THEN Len(forms)
                     ELSE Cardinality({i \in 2..Len(data) : data[i].option # "--json"}))
        most == Len(headers) + Cardinality(defaults)
        accepted ==
          /\ \A i \in DOMAIN options : IsFine(options[i])
          /\ Len(urls) = 1 /\ urls[1].value.size > 0
          /\ data = <<>> \/ forms = <<>>
          /\ size <= CurlLimits.body
          /\ ~(method = "HEAD" /\ (forms # <<>> \/ (~useGet /\ data # <<>>)))
          /\ most <= CurlLimits.headers
          /\ compressing => Len(kept) + Cardinality(defaults) < CurlLimits.headers
        Called(set, warning) == IF Uses(set) THEN {warning} ELSE {}
    IN  /\ result.error = "" <=> accepted
        /\ accepted =>
             LET first == SubSeq(result.headers, 1, Len(kept))
                 added == SubSeq(result.headers, Len(kept) + 1, Len(result.headers))
             IN  /\ result.method = method /\ result.url = urls[1].value
                 /\ [i \in DOMAIN first |-> first[i].key] = [i \in DOMAIN kept |-> HeaderKey(kept[i])]
                 /\ {added[i].key : i \in DOMAIN added}
                      = defaults \cup (IF compressing THEN {"accept-encoding"} ELSE {})
                 /\ Cardinality({added[i].key : i \in DOMAIN added}) = Len(added)
                 /\ \A i \in DOMAIN added :
                      added[i].key = "content-type" =>
                        added[i].value.name = IF forms # <<>> THEN "multipart"
                                              ELSE IF Uses({"--json"}) THEN "json" ELSE "urlencoded"
                 /\ \A i \in DOMAIN result.headers :
                      result.headers[i].key = "accept-encoding" =>
                        FALSE \notin ToSet(result.headers[i].value.codings)
                 /\ result.warnings =
                      Called({"--compressed"}, "compressed")
                      \cup Called({"--insecure", "-k", "-sk", "-Lk"}, "tls_policy")
                      \cup Called({"--location", "-L", "-Lk"}, "redirect_policy")
                      \cup (IF \E i \in DOMAIN headers :
                                 HeaderKey(headers[i]) = "accept-encoding"
                                   /\ FALSE \in ToSet(headers[i].value.codings)
                            THEN {"accept_encoding"} ELSE {})
                 /\ LET sent == result.query \o result.body
                    IN  [i \in DOMAIN sent |-> sent[i].value]
                          = [i \in DOMAIN (data \o forms) |-> (data \o forms)[i].value]
                 /\ result.query # <<>> => useGet /\ result.body = <<>>
                 /\ result.body # <<>> => method # "HEAD" /\ (useGet => size = 0)

\* A command is imported as what it says, or not at all.
CurlExact == WordsExact /\ RequestExact
=============================================================================
