------------------------------ MODULE LogSearch ------------------------------
(***************************************************************************)
(* Searching a log for an identifier (internal/diagnostics/log_search.go): *)
(* the lines of a text, a matcher with a prefix table, and the limits.     *)
(*                                                                         *)
(* A text is a sequence of characters, each of one byte.                   *)
(***************************************************************************)
EXTENDS Integers, Sequences, FiniteSets, SequencesExt, FiniteSetsExt, Question

CONSTANTS
  LowerOf,         \* the lower case of a character
  LineFeed, CarriageReturn,
  SearchLimits     \* query, input, results and line

Folded(text) == [i \in DOMAIN text |-> LowerOf[text[i]]]

-----------------------------------------------------------------------------
(* Lines *)

\* logLineCursor: the line that begins after an offset.  A carriage return is
\* part of the line unless a line feed follows it.
LineAt(text, offset) ==
  LET feeds == {i \in offset + 1..Len(text) : text[i] = LineFeed}
      end == IF feeds = {} THEN Len(text) ELSE Min(feeds) - 1
      carried == feeds # {} /\ end > offset /\ text[end] = CarriageReturn
  IN  [line |-> SubSeq(text, offset + 1, IF carried THEN end - 1 ELSE end),
       next |-> end + 1, last |-> feeds = {}]

-----------------------------------------------------------------------------
(* The matcher *)

\* Mutant: after a mismatch, matching begins anew.
FallToStart(pattern, prefix, matched, char) ==
  IF matched > 0 /\ char # pattern[matched + 1] THEN 0 ELSE matched

\* The place from which matching goes on with a character, given the table of the
\* places so far.
MatchedAfter(pattern, prefix, matched, char) ==
  LET from[m \in 0..Len(prefix)] ==
        IF m > 0 /\ char # pattern[m + 1] THEN from[prefix[m]] ELSE m
  IN  from[matched]

Advance(pattern, prefix, matched, char) ==
  LET place == MatchedAfter(pattern, prefix, matched, char)
  IN  IF char = pattern[place + 1] THEN place + 1 ELSE place

\* newFoldedLogLineMatcher: how much of the pattern ends where each part of it ends.
Extend(pattern, table, i) ==
  IF i = 1 THEN <<0>> ELSE Append(table, Advance(pattern, table, table[i - 1], pattern[i]))

PrefixTable(pattern) ==
  FoldLeft(LAMBDA table, i : Extend(pattern, table, i), <<>>, [i \in DOMAIN pattern |-> i])

\* foldedLogLineMatcher.Contains
Consume(pattern, prefix, matched, char) ==
  IF matched = Len(pattern) THEN matched ELSE Advance(pattern, prefix, matched, char)

FoldedContains(query, line) ==
  LET pattern == Folded(query)
      prefix == PrefixTable(pattern)
  IN  FoldLeft(LAMBDA matched, char : Consume(pattern, prefix, matched, char), 0, Folded(line))
        = Len(pattern)

\* exactLogLineMatcher.Contains: strings.Contains
ExactContains(query, line) ==
  \E i \in 0..Len(line) - Len(query) : SubSeq(line, i + 1, i + Len(query)) = query

LineContains(query, line, caseSensitive) ==
  IF caseSensitive THEN ExactContains(query, line) ELSE FoldedContains(query, line)

-----------------------------------------------------------------------------
(* The search *)

NoResult(error) == [error |-> error, matches |-> <<>>, scanned |-> 0, truncated |-> FALSE]

\* The loop of SearchTraceLog: one line of the text.
ScanLine(text, query, caseSensitive, scan) ==
  LET at == LineAt(text, scan.offset)
      counted == [scan.result EXCEPT !.scanned = @ + 1]
      kept == [counted EXCEPT !.matches =
                 Append(@, [number |-> counted.scanned,
                            line |-> SubSeq(at.line, 1, Min({Len(at.line), SearchLimits.line}))])]
      found == LineContains(query, at.line, caseSensitive)
      full == Len(counted.matches) >= SearchLimits.results
  IN  IF scan.done THEN scan
      ELSE [offset |-> at.next, done |-> at.last \/ (found /\ full),
            result |-> IF ~found THEN counted
                       ELSE IF full THEN [counted EXCEPT !.truncated = TRUE] ELSE kept]

\* A text has no more lines than characters, and one.
Scan(text, query, caseSensitive) ==
  FoldLeft(LAMBDA scan, round : ScanLine(text, query, caseSensitive, scan),
           [offset |-> 0, done |-> FALSE, result |-> NoResult("")],
           [round \in 1..Len(text) + 1 |-> round]).result

\* SearchTraceLog; the query comes without blanks around it.
SearchTraceLog(text, query, caseSensitive) ==
  IF query = <<>> \/ Len(query) > SearchLimits.query THEN NoResult("invalid_input")
  ELSE IF Len(text) > SearchLimits.input THEN NoResult("limit_exceeded")
  ELSE Scan(text, query, caseSensitive)

-----------------------------------------------------------------------------
(* Properties *)

\* The lines of a text whose returns before feeds are dropped, as strings.Split
\* makes them of strings.ReplaceAll.
Unix(text) ==
  LET keeps == SelectSeq([i \in DOMAIN text |-> i],
                 LAMBDA i : ~(text[i] = CarriageReturn /\ i < Len(text) /\ text[i + 1] = LineFeed))
  IN  [j \in DOMAIN keeps |-> text[keeps[j]]]

SplitLines(text) ==
  LET AddChar(lines, char) ==
        IF char = LineFeed THEN Append(lines, <<>>)
        ELSE [lines EXCEPT ![Len(lines)] = Append(@, char)]
  IN  FoldLeft(AddChar, <<<<>>>>, Unix(text))

\* The table of the matcher skips no occurrence, also where the identifier
\* repeats itself; lines are those of the text with its returns replaced, the
\* empty last one included; the matches are the first ones, with their numbers,
\* and the search is marked as incomplete exactly if there are more, and has then
\* looked at no line after the first of these (log_search.go:152).
SearchExact ==
  Asks("search") =>
    LET text == question.search.text
        query == question.search.query
        sensitive == question.search.caseSensitive
        result == SearchTraceLog(text, query, sensitive)
        lines == SplitLines(text)
        Has(line) == IF sensitive THEN ExactContains(query, line)
                     ELSE ExactContains(Folded(query), Folded(line))
        hits == SelectSeq([i \in DOMAIN lines |-> i], LAMBDA i : Has(lines[i]))
        shown == Min({Len(hits), SearchLimits.results})
    IN  /\ result.error # "" <=>
             Len(query) \notin 1..SearchLimits.query \/ Len(text) > SearchLimits.input
        /\ result.error = "" =>
             /\ result.truncated <=> Len(hits) > SearchLimits.results
             /\ [i \in DOMAIN result.matches |-> result.matches[i].number] = SubSeq(hits, 1, shown)
             /\ \A match \in ToSet(result.matches) :
                  /\ IsPrefix(match.line, lines[match.number])
                  /\ Len(match.line) = Min({Len(lines[match.number]), SearchLimits.line})
             /\ result.scanned = IF result.truncated THEN hits[shown + 1] ELSE Len(lines)
=============================================================================
