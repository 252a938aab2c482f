----------------------------- MODULE ThreadDump -----------------------------
(***************************************************************************)
(* The analysis of a thread dump (internal/diagnostics/thread_dump.go):    *)
(* one pass over the lines, and the report made of the threads it found.   *)
(*                                                                         *)
(* A line is its kind: the header of a thread, a blank line, a state, a    *)
(* frame, a clue, the marker of a deadlock or anything else.               *)
(***************************************************************************)
EXTENDS Integers, Sequences, FiniteSets, SequencesExt, FiniteSetsExt, Question

CONSTANTS
  FrameOrder,      \* the frames, in the order of their texts
  DumpLimits       \* threads, issues, groups, depth, frames, clues,
                   \* deadlockClues and names

-----------------------------------------------------------------------------
(* Lines *)

ThreadHeader(name) == [kind |-> "header", name |-> name]
Blank == [kind |-> "blank"]
StateLine(state) == [kind |-> "state", state |-> state]
FrameLine(frame) == [kind |-> "frame", frame |-> frame]

\* Clues of a lock that a thread waits for or another holds, and of a thread that
\* is parked; a marker says that there is a deadlock.
LockClue == [kind |-> "lock"]
ParkClue == [kind |-> "park"]
Marker == [kind |-> "marker"]

IsContentionClue(line) == line.kind \in {"lock", "park"}
IsDeadlockClue(line) == line.kind \in {"lock", "marker"}

-----------------------------------------------------------------------------
(* The pass *)

NewThread(name) == [name |-> name, state |-> "UNKNOWN", frames |-> <<>>, clues |-> 0]

NewPass == [threads |-> <<>>, current |-> <<>>, stopped |-> FALSE, truncated |-> FALSE,
            deadlock |-> FALSE, deadlockClues |-> 0]

\* The current thread, if there is one, is complete.
CloseThread(pass) == [pass EXCEPT !.threads = @ \o pass.current, !.current = <<>>]

IsFull(pass) == Len(pass.threads) >= DumpLimits.threads

\* Too many threads: the pass ends.
StopIfFull(pass) ==
  IF IsFull(pass) THEN [pass EXCEPT !.truncated = TRUE, !.stopped = TRUE] ELSE pass

\* What ends the current thread, if there is one.
EndThread(pass) == IF pass.current = <<>> THEN pass ELSE StopIfFull(CloseThread(pass))

BeginThread(pass, name) ==
  IF pass.stopped THEN pass ELSE [pass EXCEPT !.current = <<NewThread(name)>>]

SeeHeader(pass, line) == BeginThread(EndThread(pass), line.name)

SeeBlank(pass) == EndThread(pass)

\* Mutant: a marker leaves the thread before it open.
SeeMarkerInside(pass) == [pass EXCEPT !.deadlock = TRUE]

\* A marker ends a thread too; the pass goes on although there may be no room.
SeeMarker(pass) ==
  IF pass.current = <<>> THEN [pass EXCEPT !.deadlock = TRUE]
  ELSE [CloseThread(pass) EXCEPT !.deadlock = TRUE,
                                 !.truncated = @ \/ Len(pass.threads) + 1 >= DumpLimits.threads]

CountDeadlockClue(pass, line) ==
  IF IsDeadlockClue(line) /\ pass.deadlockClues < DumpLimits.deadlockClues
    THEN [pass EXCEPT !.deadlockClues = @ + 1]
  ELSE pass

\* Mutant: a thread keeps one frame more than it may.
DescribeAnother(thread, line) ==
  CASE line.kind = "state" -> [thread EXCEPT !.state = line.state]
    [] line.kind = "frame" /\ Len(thread.frames) <= DumpLimits.frames ->
         [thread EXCEPT !.frames = Append(@, line.frame)]
    [] IsContentionClue(line) /\ thread.clues < DumpLimits.clues ->
         [thread EXCEPT !.clues = @ + 1]
    [] OTHER -> thread

\* What a line says of the thread it belongs to.
Describe(thread, line) ==
  CASE line.kind = "state" -> [thread EXCEPT !.state = line.state]
    [] line.kind = "frame" /\ Len(thread.frames) < DumpLimits.frames ->
         [thread EXCEPT !.frames = Append(@, line.frame)]
    [] IsContentionClue(line) /\ thread.clues < DumpLimits.clues ->
         [thread EXCEPT !.clues = @ + 1]
    [] OTHER -> thread

DescribeCurrent(pass, line) ==
  [pass EXCEPT !.current = [i \in DOMAIN @ |-> Describe(@[i], line)]]

SeeLine(pass, line) ==
  IF pass.stopped THEN pass
  ELSE IF line.kind = "header" THEN SeeHeader(pass, line)
  ELSE IF line.kind = "blank" THEN SeeBlank(pass)
  ELSE DescribeCurrent(CountDeadlockClue(IF line.kind = "marker" THEN SeeMarker(pass) ELSE pass,
                                         line), line)

LastThread(pass) == IF IsFull(pass) THEN pass ELSE CloseThread(pass)

\* The threads of a dump, the last one included if there is room.
ReadDump(lines) == LastThread(FoldLeft(SeeLine, NewPass, lines))

-----------------------------------------------------------------------------
(* The report *)

IsIssue(thread) == thread.state = "BLOCKED" \/ thread.clues > 0

Fingerprint(thread, depth) == SubSeq(thread.frames, 1, Min({Len(thread.frames), depth}))

FrameBefore(a, b) ==
  \E i, j \in DOMAIN FrameOrder : FrameOrder[i] = a /\ FrameOrder[j] = b /\ i < j

\* The order of the texts of two stacks.
StackBefore(a, b) ==
  \/ IsStrictPrefix(a, b)
  \/ \E i \in DOMAIN a \cap DOMAIN b : FrameBefore(a[i], b[i]) /\ \A j \in 1..i - 1 : a[j] = b[j]

Sharing(threads, stack) ==
  {i \in DOMAIN threads : Fingerprint(threads[i], DumpLimits.depth) = stack}

InOrder(numbers) == SetToSortSeq(numbers, LAMBDA i, j : i < j)

StackGroup(threads, stack, sharing) ==
  [frames |-> stack, count |-> Cardinality(sharing),
   threads |-> {threads[i].name :
                  i \in ToSet(SubSeq(InOrder(sharing), 1, Min({Cardinality(sharing), DumpLimits.names})))}]

\* The groups, the largest first; of equal ones, the first by its stack.
Largest(groups) ==
  SetToSortSeq(groups, LAMBDA a, b : a.count > b.count
                                     \/ (a.count = b.count /\ StackBefore(a.frames, b.frames)))

FirstGroups(groups) == SubSeq(groups, 1, Min({Len(groups), DumpLimits.groups}))

RepeatedStackGroups(threads) ==
  FirstGroups(Largest({group \in {StackGroup(threads, stack, Sharing(threads, stack)) :
                                    stack \in {Fingerprint(threads[i], DumpLimits.depth) :
                                                 i \in DOMAIN threads}} :
                        group.frames # <<>> /\ group.count >= 2}))

DumpReport(pass, threads, issues) ==
  [count |-> Len(threads),
   states |-> [state \in {threads[i].state : i \in DOMAIN threads} |->
                 Cardinality({i \in DOMAIN threads : threads[i].state = state})],
   issues |-> SubSeq(issues, 1, Min({Len(issues), DumpLimits.issues})),
   deadlock |-> pass.deadlock, deadlockClues |-> pass.deadlockClues,
   stacks |-> RepeatedStackGroups(threads),
   truncated |-> \/ pass.truncated \/ Len(issues) > DumpLimits.issues
                 \/ pass.deadlockClues = DumpLimits.deadlockClues]

Summarized(pass) == DumpReport(pass, pass.threads, SelectSeq(pass.threads, IsIssue))

AnalyzeThreadDump(lines) == Summarized(ReadDump(lines))

-----------------------------------------------------------------------------
(* Properties *)

LinesOf(lines, kinds) == {i \in DOMAIN lines : lines[i].kind \in kinds}

\* The lines of the thread whose header is at a place: up to what ends it.
Extent(lines, header) ==
  LET ends == {i \in LinesOf(lines, {"header", "blank", "marker"}) : i > header}
  IN  SubSeq(lines, header + 1, IF ends = {} THEN Len(lines) ELSE Min(ends) - 1)

StateIn(lines) ==
  LET states == SelectSeq(lines, LAMBDA line : line.kind = "state")
  IN  IF states = <<>> THEN "UNKNOWN" ELSE states[Len(states)].state

FramesIn(lines) ==
  LET frames == SelectSeq(lines, LAMBDA line : line.kind = "frame")
  IN  [i \in DOMAIN frames |-> frames[i].frame]

CluesIn(lines) == Cardinality(LinesOf(lines, {"lock", "park"}))

\* The threads that the headers begin, with their lines.
ExtentsOf(lines, headers) ==
  [i \in DOMAIN headers |-> [name |-> lines[headers[i]].name, lines |-> Extent(lines, headers[i])]]

IsWaiting(lines) == StateIn(lines) = "BLOCKED" \/ CluesIn(lines) > 0

FirstOf(items, count) == SubSeq(items, 1, Min({Len(items), count}))

StackIn(lines) == FirstOf(FramesIn(lines), DumpLimits.depth)

\* The first frames and clues of a thread: what is over is dropped without a mark.
ThreadsExplained(threads, extents) ==
  \A i \in DOMAIN threads :
    /\ threads[i].name = extents[i].name
    /\ threads[i].state = StateIn(extents[i].lines)
    /\ threads[i].frames = FirstOf(FramesIn(extents[i].lines), DumpLimits.frames)
    /\ threads[i].clues = Min({CluesIn(extents[i].lines), DumpLimits.clues})

CountsExplained(lines, report, extents) ==
  /\ report.count <= DumpLimits.threads + 1
  /\ MapThenSumSet(LAMBDA state : report.states[state], DOMAIN report.states) = report.count
  /\ ~report.truncated =>
       /\ report.count = Len(extents)
       /\ report.deadlock <=> LinesOf(lines, {"marker"}) # {}
       /\ report.deadlockClues = Cardinality(LinesOf(lines, {"lock", "marker"}))
       /\ Len(report.issues) = Cardinality({i \in DOMAIN extents : IsWaiting(extents[i].lines)})

WithStack(stacks, stack) == {i \in DOMAIN stacks : stacks[i] = stack}

HavingStack(stacks, stack) == Cardinality(WithStack(stacks, stack))

\* A group names its first threads only, and says how many there are.
GroupsExplained(report, extents, stacks, shown) ==
  /\ Cardinality(shown) = Len(report.stacks)
  /\ \A k \in DOMAIN report.stacks :
       /\ report.stacks[k].count = HavingStack(stacks, report.stacks[k].frames)
       /\ report.stacks[k].count >= 2
       /\ report.stacks[k].threads =
            {extents[i].name :
               i \in ToSet(FirstOf(InOrder(WithStack(stacks, report.stacks[k].frames)),
                                   DumpLimits.names))}
  /\ \A i \in DOMAIN stacks :
       stacks[i] # <<>> /\ stacks[i] \notin shown /\ HavingStack(stacks, stacks[i]) >= 2 =>
         /\ Len(report.stacks) = DumpLimits.groups
         /\ \A k \in DOMAIN report.stacks :
              report.stacks[k].count >= HavingStack(stacks, stacks[i])

\* A thread has the last state and the first frames and clues, as many as a
\* thread may have, between its header and what ends it.  In a report that is not
\* marked as incomplete every header is a thread, every deadlock, every clue of
\* one and every thread that waits is reported, and the states add up; one that
\* is marked has the first threads, at most one more than allowed.  Stacks are
\* shared by as many threads as reported, the first of which are named, and none
\* of the groups that are left out is larger than one that is shown.  The mark
\* says nothing of the frames and clues over the limits of a thread, the names
\* over that of a group or the groups left out (thread_dump.go:106, :154, :158,
\* :268, :290).
ThreadsExact ==
  Asks("dump") =>
    \A lines \in {question.dump}, report \in {AnalyzeThreadDump(question.dump)} :
      \A extents \in {ExtentsOf(lines, InOrder(LinesOf(lines, {"header"})))} :
        \A stacks \in {[i \in 1..report.count |-> StackIn(extents[i].lines)]} :
          /\ \A threads \in {ReadDump(lines).threads} : ThreadsExplained(threads, extents)
          /\ CountsExplained(lines, report, extents)
          /\ GroupsExplained(report, extents, stacks,
                             {report.stacks[k].frames : k \in DOMAIN report.stacks})
=============================================================================
