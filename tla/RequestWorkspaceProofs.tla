------------------------ MODULE RequestWorkspaceProofs ------------------------
(***************************************************************************)
(* Theorems about RequestWorkspace, for any tabs, saved requests, edits,   *)
(* sends and actions of the user: no tab is left running, no stale answer  *)
(* is shown, and a tab without the mark is saved.                          *)
(***************************************************************************)
EXTENDS RequestWorkspace, FiniteSetTheorems, SequenceTheorems, TLAPS

Saved == Contents \cup {NoRequest}
Links == RequestIds \cup {NoRequest}
TabRecords ==
  [content : Contents, link : Links, openApi : BOOLEAN, dirty : BOOLEAN,
   running : BOOLEAN, pinned : BOOLEAN, session : BOOLEAN, answer : Nat,
   checked : BOOLEAN]
ClosedRecords == [id : Ids, tab : TabRecords]
SendRecords == [tab : Ids, at : {"sent", "checking", "done"}, content : Contents,
                openApi : BOOLEAN]
CancelRecords == [tab : Ids, token : Nat]
SaveRecords == [tab : Ids, request : RequestIds, draft : Contents \cup {Live},
                overtaken : BOOLEAN]
AllFields == {"method", "url", "body", "headers", "literal"}

-----------------------------------------------------------------------------
(* The parts of the invariant *)

TypeInv ==
  /\ open \in Seq(Ids) /\ tab \in [Ids -> TabRecords]
  /\ activeTabID \in Ids \cup {NoTab}
  /\ recentlyClosed \in Seq(ClosedRecords) /\ Len(recentlyClosed) <= MaxClosed
  /\ drafts \in [Ids -> Contents] /\ pending \in [Ids -> SUBSET Fields]
  /\ sends \in Seq(SendRecords) /\ token \in [Ids -> 0..Len(sends)]
  /\ canceling \subseteq Ids /\ cancels \subseteq CancelRecords
  /\ library \in [RequestIds -> Saved] /\ disk \in [RequestIds -> Saved]
  /\ locked \in BOOLEAN /\ saving \in Seq(SaveRecords)
  /\ edits \in 0..MaxEdits /\ actions \in Nat /\ glossed \subseteq Ids

\* A tab is open once, and one is active when there is one.  A draft differs
\* from its tab in the pending fields only, and a closed tab has neither.
TabInv ==
  /\ IsInjective(open)
  /\ IF open = <<>> THEN activeTabID = NoTab ELSE IsOpen(activeTabID)
  /\ \A id \in Ids : ~IsOpen(id) => tab[id] = RequestTab /\ pending[id] = {}
  /\ \A id \in Ids : \A f \in AllFields \ pending[id] :
       drafts[id][f] = tab[id].content[f]

\* A token is that of the last send of its tab, which runs until the answer
\* and shows none meanwhile.
OwnInv ==
  /\ \A id \in Ids : ~IsOpen(id) => token[id] = 0 /\ id \notin canceling
  /\ \A id \in Ids : token[id] # 0 =>
       /\ sends[token[id]].tab = id
       /\ \A m \in token[id] + 1..Len(sends) : sends[m].tab # id
  /\ \A id \in Ids :
       tab[id].running <=> token[id] # 0 /\ sends[token[id]].at = "sent"
  /\ \A id \in Ids : tab[id].running => tab[id].answer = 0

\* While a token stands, the editor holds the method and the URL that were sent.
SentInv ==
  \A id \in Ids : token[id] # 0 /\ id \notin glossed =>
    /\ drafts[id].method = sends[token[id]].content.method
    /\ drafts[id].url = sends[token[id]].content.url

\* Saved requests hold no secret and were used before.
LibraryInv ==
  /\ \A r \in RequestIds : library[r] # NoRequest => library[r].headers # "secret"
  /\ \A r \in RequestIds : disk[r] # NoRequest => disk[r].headers # "secret"
  /\ \A r \in RequestIds : library[r] # NoRequest \/ disk[r] # NoRequest => r \in used

\* A link is that of a saved request, of one open tab at most, and of one tab
\* with its ID, open or closed.  Closed tabs do not run.
LinkInv ==
  /\ \A id \in Ids : tab[id].link # NoRequest => library[tab[id].link] # NoRequest
  /\ \A id, other \in Ids : tab[id].link = tab[other].link /\ tab[id].link # NoRequest
                              => id = other
  /\ \A n \in 1..Len(recentlyClosed) :
       LET closed == recentlyClosed[n]
       IN  /\ ~closed.tab.running
           /\ closed.id \in used \cup {Endpoint}
           /\ closed.tab.link # NoRequest =>
                /\ library[closed.tab.link] # NoRequest
                /\ tab[closed.id].link # closed.tab.link
                /\ \A m \in 1..Len(recentlyClosed) :
                     recentlyClosed[m].id = closed.id
                       /\ recentlyClosed[m].tab.link = closed.tab.link => m = n
  /\ \A id \in Ids : IsOpen(id) => id \in used \cup {Endpoint}

\* Without the mark a tab, open or closed, is what the library has.
CleanInv ==
  /\ \A id \in Ids :
       ~tab[id].dirty /\ tab[id].link # NoRequest /\ id \notin glossed
         => library[tab[id].link] = tab[id].content
  /\ \A n \in 1..Len(recentlyClosed) :
       LET closed == recentlyClosed[n]
       IN  ~closed.tab.dirty /\ closed.tab.link # NoRequest /\ closed.id \notin glossed
             => library[closed.tab.link] = closed.tab.content

\* What a save in flight that nothing overtook has written is what its tab holds,
\* open or closed, without secrets.
SaveInv ==
  \A n \in 1..Len(saving) :
    LET save == saving[n]
    IN  /\ save.request \in used /\ save.tab \in used \cup {Endpoint}
        /\ ~save.overtaken =>
             /\ tab[save.tab].link = save.request =>
                  /\ pending[save.tab] = {}
                  /\ library[save.request] = Sanitized(tab[save.tab].content)
             /\ \A m \in 1..Len(recentlyClosed) :
                  recentlyClosed[m].id = save.tab
                    /\ recentlyClosed[m].tab.link = save.request
                    => library[save.request] = Sanitized(recentlyClosed[m].tab.content)

WInv == TypeInv /\ TabInv /\ OwnInv /\ SentInv /\ LibraryInv /\ LinkInv /\ CleanInv
        /\ SaveInv

-----------------------------------------------------------------------------
(* Sequences *)

Rank(places, n) == Cardinality({m \in places : m <= n})

LEMMA RanksGrow ==
  ASSUME NEW N \in Nat, NEW P \in SUBSET (1..N), NEW m \in P, NEW n \in P, m < n
  PROVE  Rank(P, m) < Rank(P, n)
<1> DEFINE A == {i \in P : i <= m}
           B == {i \in P : i <= n}
<1>1. \A i \in P : i \in Nat
  OBVIOUS
<1>2. A \subseteq B /\ n \in B /\ n \notin A /\ B \subseteq 1..N
  <2>1. \A i \in P : i <= m => i <= n
    BY <1>1
  <2>2. n <= n /\ ~(n <= m)
    BY <1>1
  <2> QED BY <2>1, <2>2
<1>3. Rank(P, m) = Cardinality(A) /\ Rank(P, n) = Cardinality(B)
  BY DEF Rank
<1> HIDE DEF A, B
<1>4. IsFiniteSet(B)
  <2>1. IsFiniteSet(1..N)
    BY FS_Interval
  <2> QED BY <1>2, <2>1, FS_Subset
<1>5. /\ IsFiniteSet(A) /\ Cardinality(A) <= Cardinality(B)
      /\ Cardinality(A) = Cardinality(B) => A = B
  BY <1>2, <1>4, FS_Subset
<1>6. Cardinality(A) \in Nat /\ Cardinality(B) \in Nat
  BY <1>4, <1>5, FS_CardinalityType
<1> QED
  BY <1>2, <1>3, <1>5, <1>6

\* Every rank is that of exactly one place.
LEMMA RanksExact ==
  ASSUME NEW N \in Nat, NEW P \in SUBSET (1..N)
  PROVE  /\ Cardinality(P) \in Nat
         /\ \A n \in P : Rank(P, n) \in 1..Cardinality(P)
         /\ \A m, n \in P : Rank(P, m) = Rank(P, n) => m = n
         /\ \A k \in 1..Cardinality(P) : \E n \in P : Rank(P, n) = k
<1> DEFINE below(k) == {i \in P : i <= k}
           r == [n \in P |-> Rank(P, n)]
<1>1. IsFiniteSet(P) /\ Cardinality(P) \in Nat
  <2>1. IsFiniteSet(1..N)
    BY FS_Interval
  <2>2. IsFiniteSet(P)
    BY <2>1, FS_Subset
  <2> QED BY <2>2, FS_CardinalityType
<1>2. ASSUME NEW n \in P PROVE Rank(P, n) \in 1..Cardinality(P)
  <2>1. below(n) \subseteq P /\ n \in below(n)
    BY SMT
  <2>2. IsFiniteSet(below(n)) /\ Cardinality(below(n)) \in Nat
        /\ Cardinality(below(n)) <= Cardinality(P)
    BY <1>1, <2>1, FS_Subset, FS_CardinalityType
  <2>3. Cardinality(below(n)) # 0
    BY <2>1, <2>2, FS_EmptySet
  <2> QED
    BY <1>1, <2>2, <2>3 DEF Rank
<1>3. ASSUME NEW m \in P, NEW n \in P, Rank(P, m) = Rank(P, n) PROVE m = n
  <2>1. m \in Nat /\ n \in Nat /\ Rank(P, m) \in Nat /\ Rank(P, n) \in Nat
    BY <1>1, <1>2
  <2>2. m < n => Rank(P, m) < Rank(P, n)
    BY RanksGrow
  <2>3. n < m => Rank(P, n) < Rank(P, m)
    BY RanksGrow
  <2> QED BY <1>3, <2>1, <2>2, <2>3
<1>4. r \in Injection(P, 1..Cardinality(P))
  BY <1>2, <1>3 DEF Injection, IsInjective
<1>5. IsFiniteSet(1..Cardinality(P)) /\ Cardinality(1..Cardinality(P)) = Cardinality(P)
  BY <1>1, FS_Interval
<1>6. r \in Surjection(P, 1..Cardinality(P))
  BY <1>1, <1>4, <1>5, FS_Injection
<1> QED
  BY <1>1, <1>2, <1>3, <1>6 DEF Surjection

\* Some entries of a sequence are entries of it, in the same order.
LEMMA EntriesFacts ==
  ASSUME NEW S, NEW s \in Seq(S), NEW P \in SUBSET (1..Len(s))
  PROVE  /\ Entries(s, P) \in Seq(S)
         /\ Len(Entries(s, P)) = Cardinality(P)
         /\ \E place \in [1..Len(Entries(s, P)) -> P] :
              /\ \A k \in 1..Len(Entries(s, P)) : Entries(s, P)[k] = s[place[k]]
              /\ \A j, k \in 1..Len(Entries(s, P)) : place[j] = place[k] => j = k
              /\ \A n \in P : \E k \in 1..Len(Entries(s, P)) : place[k] = n
<1> DEFINE place == [k \in 1..Cardinality(P) |->
                       CHOOSE n \in P : Cardinality({m \in P : m <= n}) = k]
<1>1. /\ Cardinality(P) \in Nat
      /\ \A n \in P : Rank(P, n) \in 1..Cardinality(P)
      /\ \A m, n \in P : Rank(P, m) = Rank(P, n) => m = n
      /\ \A k \in 1..Cardinality(P) : \E n \in P : Rank(P, n) = k
  <2>1. Len(s) \in Nat
    OBVIOUS
  <2> QED BY <2>1, RanksExact
<1>2. ASSUME NEW k \in 1..Cardinality(P) PROVE place[k] \in P /\ Rank(P, place[k]) = k
  BY <1>1 DEF Rank
<1>3. \A j, k \in 1..Cardinality(P) : place[j] = place[k] => j = k
  BY <1>2
<1>4. ASSUME NEW n \in P PROVE \E k \in 1..Cardinality(P) : place[k] = n
  <2> HIDE DEF place
  <2>1. PICK k \in 1..Cardinality(P) : k = Rank(P, n)
    BY <1>1
  <2>2. place[k] \in P /\ Rank(P, place[k]) = k
    BY <1>2
  <2> QED BY <1>1, <2>1, <2>2
<1>5. Entries(s, P) = [k \in 1..Cardinality(P) |-> s[place[k]]]
  BY DEF Entries
<1> HIDE DEF place
<1>6. Entries(s, P) \in Seq(S) /\ Len(Entries(s, P)) = Cardinality(P)
  <2>1. \A n \in 1..Len(s) : s[n] \in S
    OBVIOUS
  <2>2. \A k \in 1..Cardinality(P) : s[place[k]] \in S
    BY <1>2, <2>1
  <2> QED BY <1>1, <1>5, <2>2
<1>7. place \in [1..Cardinality(P) -> P]
  BY <1>2 DEF place
<1> QED
  BY <1>3, <1>4, <1>5, <1>6, <1>7

-----------------------------------------------------------------------------
(* Drafts and tabs *)

LEMMA OpenIsContained == \A id : IsOpen(id) <=> Contains(open, id)
BY DEF IsOpen, Contains

LEMMA BlankFacts == Blank \in Contents /\ RequestTab \in TabRecords
BY WorkspaceAssumption DEF Blank, Contents, RequestTab, TabRecords, Links

LEMMA SameContents ==
  ASSUME NEW c \in Contents, NEW d \in Contents, \A f \in AllFields : c[f] = d[f]
  PROVE  c = d
BY SMT DEF Contents, AllFields

\* What is committed is the draft; a tab it leaves without the mark is unchanged.
LEMMA FlushedFacts ==
  ASSUME TypeInv, TabInv, NEW id \in Ids
  PROVE  /\ Flushed[id] \in TabRecords
         /\ Flushed[id].content = drafts[id]
         /\ Flushed[id].link = tab[id].link /\ Flushed[id].running = tab[id].running
         /\ Flushed[id].pinned = tab[id].pinned /\ Flushed[id].session = tab[id].session
         /\ Flushed[id].answer = tab[id].answer /\ Flushed[id].checked = tab[id].checked
         /\ tab[id].dirty => Flushed[id].dirty
         /\ ~Flushed[id].dirty => Flushed[id] = tab[id]
         /\ pending[id] = {} => Flushed[id] = tab[id]
         /\ ~IsOpen(id) => Flushed[id] = RequestTab
<1> DEFINE c == tab[id].content
           d == drafts[id]
           changed == {f \in pending[id] : d[f] # c[f]}
           merged == [f \in DOMAIN c |-> IF f \in changed THEN d[f] ELSE c[f]]
<1>1. c \in Contents /\ d \in Contents /\ tab[id] \in TabRecords /\ pending[id] \subseteq Fields
  BY DEF TypeInv, TabRecords
<1>2. \A f \in AllFields \ pending[id] : d[f] = c[f]
  BY DEF TabInv
<1>3. ~IsOpen(id) => tab[id] = RequestTab /\ pending[id] = {}
  BY DEF TabInv
<1>4. Flushed[id] = Commit(id)
  BY DEF Flushed
<1> HIDE DEF c, d
<1>5. DOMAIN c = AllFields
  BY <1>1 DEF Contents, AllFields
<1>6. changed = {} => c = d
  <2> SUFFICES ASSUME changed = {} PROVE c = d
    OBVIOUS
  <2>1. \A f \in AllFields : c[f] = d[f]
    BY <1>2
  <2> QED BY <1>1, <2>1, SameContents
<1>7. merged = d
  <2>1. \A f \in AllFields : (IF f \in changed THEN d[f] ELSE c[f]) = d[f]
    BY <1>2
  <2>2. merged = [f \in AllFields |-> d[f]]
    BY <1>5, <2>1
  <2>3. DOMAIN d = AllFields /\ d = [f \in DOMAIN d |-> d[f]]
    BY <1>1 DEF Contents, AllFields
  <2> QED BY <2>2, <2>3
<1>8. CASE changed = {} \/ ~IsOpen(id)
  <2>1. Flushed[id] = tab[id]
    BY <1>4, <1>8 DEF Commit, c, d
  <2>2. c = d
    BY <1>3, <1>6, <1>8
  <2> QED BY <1>1, <1>3, <2>1, <2>2 DEF c, d
<1>9. CASE changed # {} /\ IsOpen(id)
  <2>1. Flushed[id] = [tab[id] EXCEPT !.content = merged,
                                      !.openApi = @ /\ "method" \notin changed,
                                      !.dirty = TRUE]
    BY <1>4, <1>9 DEF Commit, c, d
  <2>2. Flushed[id] = [tab[id] EXCEPT !.content = d,
                                      !.openApi = @ /\ "method" \notin changed,
                                      !.dirty = TRUE]
    BY <1>7, <2>1
  <2> HIDE DEF changed, merged
  <2>3. ("method" \notin changed) \in BOOLEAN
    OBVIOUS
  <2>4. PICK b \in BOOLEAN : b = (tab[id].openApi /\ "method" \notin changed)
    OBVIOUS
  <2>5. Flushed[id] = [tab[id] EXCEPT !.content = d, !.openApi = b, !.dirty = TRUE]
    BY <2>2, <2>4
  <2>6. pending[id] # {}
    BY <1>9 DEF changed
  <2> QED BY <1>1, <1>9, <2>5, <2>6 DEF TabRecords, d
<1> QED
  BY <1>8, <1>9

\* What the store holds after a step, and the drafts after the render.
LEMMA StoreFacts ==
  ASSUME NEW tabs, NEW ids \in Seq(Ids), Store(tabs, ids),
         \A id \in Ids : Contains(ids, id) => tabs[id] \in TabRecords
  PROVE  /\ open' = ids
         /\ \A id : (IsOpen(id))' <=> Contains(ids, id)
         /\ tab' \in [Ids -> TabRecords] /\ drafts' \in [Ids -> Contents]
         /\ pending' \in [Ids -> SUBSET Fields]
         /\ \A id \in Ids : Contains(ids, id) => tab'[id] = tabs[id]
         /\ \A id \in Ids : ~Contains(ids, id) => tab'[id] = RequestTab
         /\ \A id \in Ids : drafts'[id] = tab'[id].content /\ pending'[id] = {}
<1>1. /\ open' = ids
      /\ tab' = [id \in Ids |-> IF Contains(ids, id) THEN tabs[id] ELSE RequestTab]
      /\ drafts' = [id \in Ids |-> tab'[id].content]
      /\ pending' = [id \in Ids |-> {}]
  BY DEF Store
<1>2. \A id : (IsOpen(id))' <=> Contains(ids, id)
  BY <1>1 DEF IsOpen, Contains
<1>3. \A id \in Ids : tab'[id] \in TabRecords
  BY <1>1, BlankFacts
<1>4. tab' \in [Ids -> TabRecords]
  BY <1>1, <1>3
<1>5. \A id \in Ids : tab'[id].content \in Contents
  BY <1>3 DEF TabRecords
<1> QED
  BY <1>1, <1>2, <1>4, <1>5

\* A step that renders ends with no draft pending.
LEMMA StoreTabInv ==
  ASSUME NEW tabs, NEW ids \in Seq(Ids), Store(tabs, ids),
         \A id \in Ids : Contains(ids, id) => tabs[id] \in TabRecords,
         IsInjective(ids),
         IF ids = <<>> THEN activeTabID' = NoTab ELSE Contains(ids, activeTabID')
  PROVE  TabInv'
<1>1. /\ open' = ids
      /\ \A id : (IsOpen(id))' <=> Contains(ids, id)
      /\ \A id \in Ids : ~Contains(ids, id) => tab'[id] = RequestTab
      /\ \A id \in Ids : drafts'[id] = tab'[id].content /\ pending'[id] = {}
  BY StoreFacts
<1>2. IsInjective(open)'
  BY <1>1 DEF IsInjective
<1>3. (IF open = <<>> THEN activeTabID = NoTab ELSE IsOpen(activeTabID))'
  BY <1>1 DEF IsOpen, Contains
<1>4. \A id \in Ids : (~IsOpen(id))' => tab'[id] = RequestTab /\ pending'[id] = {}
  BY <1>1
<1>5. \A id \in Ids : \A f \in AllFields \ pending'[id] : drafts'[id][f] = tab'[id].content[f]
  BY <1>1
<1> QED
  BY <1>2, <1>3, <1>4, <1>5 DEF TabInv

\* An answer, or the verdict on it, is new on a tab.
AnswerStep ==
  \A id \in Ids :
    LET n == tab'[id].answer
    IN  /\ IsOpen(id) /\ (IsOpen(id))' /\ id \notin glossed
        /\ n # 0
        /\ <<n, tab'[id].checked>> # <<tab[id].answer, tab[id].checked>>
        => /\ sends[n].tab = id
           /\ \A m \in n + 1..Len(sends) : sends[m].tab # id
           /\ drafts'[id].method = sends[n].content.method
           /\ drafts'[id].url = sends[n].content.url

\* A tab whose operation a step leaves alone.
Undisturbed(id) ==
  /\ token'[id] = token[id] /\ tab'[id].running = tab[id].running
  /\ \/ tab'[id].answer = 0
     \/ tab'[id].answer = tab[id].answer /\ tab'[id].checked = tab[id].checked
     \/ ~IsOpen(id)
  /\ token[id] # 0 /\ id \notin glossed =>
       drafts'[id].method = drafts[id].method /\ drafts'[id].url = drafts[id].url

\* A tab whose operation, if it has one, is forgotten.
Forgotten(id) ==
  /\ token'[id] = 0 /\ ~tab'[id].running
  /\ \/ tab'[id].answer = 0
     \/ tab'[id].answer = tab[id].answer /\ tab'[id].checked = tab[id].checked
     \/ ~IsOpen(id)

LEMMA OperationsKept ==
  ASSUME TypeInv, OwnInv, SentInv, sends' = sends, glossed \subseteq glossed',
         \A id \in Ids : (~IsOpen(id))' => token'[id] = 0 /\ id \notin canceling',
         \A id \in Ids : Undisturbed(id) \/ Forgotten(id)
  PROVE  OwnInv' /\ SentInv' /\ AnswerStep
<1>1. \A id \in Ids : token'[id] # 0 => token'[id] = token[id] /\ Undisturbed(id)
  BY DEF Undisturbed, Forgotten
<1>2. \A id \in Ids : token'[id] # 0 =>
        /\ sends'[token'[id]].tab = id
        /\ \A m \in token'[id] + 1..Len(sends') : sends'[m].tab # id
  BY <1>1 DEF OwnInv
<1>3. ASSUME NEW id \in Ids
      PROVE  tab'[id].running <=> token'[id] # 0 /\ sends'[token'[id]].at = "sent"
  <2>1. CASE Undisturbed(id)
    BY <2>1 DEF Undisturbed, OwnInv
  <2>2. CASE Forgotten(id)
    BY <2>2 DEF Forgotten
  <2> QED BY <2>1, <2>2
<1>4. ASSUME NEW id \in Ids, tab'[id].running PROVE tab'[id].answer = 0
  <2>1. Undisturbed(id) /\ tab[id].running
    BY <1>4 DEF Undisturbed, Forgotten
  <2>2. tab[id].answer = 0 /\ IsOpen(id)
    BY <2>1 DEF OwnInv
  <2> QED BY <2>1, <2>2 DEF Undisturbed
<1>5. OwnInv'
  BY <1>2, <1>3, <1>4 DEF OwnInv
<1>6. SentInv'
  BY <1>1 DEF SentInv, Undisturbed
<1>7. AnswerStep
  BY DEF AnswerStep, Undisturbed, Forgotten
<1> QED
  BY <1>5, <1>6, <1>7

-----------------------------------------------------------------------------
(* Steps that leave the library and the closed tabs alone *)

\* A tab that stays as it was saved, or is marked, or whose saves are overtaken.
Steady(id) ==
  /\ tab'[id].link = tab[id].link
  /\ ~tab'[id].dirty => ~tab[id].dirty /\ tab'[id].content = tab[id].content
  /\ pending[id] = {} =>
       \/ pending'[id] = {} /\ tab'[id].content = tab[id].content
       \/ \A n \in 1..Len(saving) : saving[n].tab = id => saving'[n].overtaken

\* A tab that is opened, without a link or as the library has it.
Opened(id) ==
  /\ ~IsOpen(id) /\ id \in used' \cup {Endpoint}
  /\ tab'[id].link # NoRequest =>
       /\ library[tab'[id].link] # NoRequest
       /\ library[tab'[id].link] = tab'[id].content
       /\ \A other \in Ids : tab[other].link # tab'[id].link
       /\ id \notin used \cup {Endpoint}

SavesKept ==
  /\ Len(saving') = Len(saving)
  /\ \A n \in 1..Len(saving) :
       /\ saving'[n].tab = saving[n].tab /\ saving'[n].request = saving[n].request
       /\ saving[n].overtaken => saving'[n].overtaken

LibraryKept ==
  /\ library' = library /\ disk' = disk /\ recentlyClosed' = recentlyClosed
  /\ used \subseteq used' /\ glossed \subseteq glossed'

LEMMA ClosedTypes ==
  ASSUME TypeInv, NEW n \in 1..Len(recentlyClosed)
  PROVE  /\ recentlyClosed[n] \in ClosedRecords
         /\ recentlyClosed[n].id \in Ids /\ recentlyClosed[n].tab \in TabRecords
<1>1. recentlyClosed[n] \in ClosedRecords
  BY DEF TypeInv
<1> QED
  BY <1>1 DEF ClosedRecords

LEMMA SavingTypes ==
  ASSUME TypeInv, NEW n \in 1..Len(saving)
  PROVE  /\ saving[n] \in SaveRecords
         /\ saving[n].tab \in Ids /\ saving[n].request \in RequestIds
         /\ saving[n].request # NoRequest
<1>1. saving[n] \in SaveRecords
  BY DEF TypeInv
<1> QED
  BY <1>1, WorkspaceAssumption DEF SaveRecords

LEMMA KeptLinks ==
  ASSUME TypeInv, LibraryInv, LinkInv, LibraryKept, NEW new \in Ids \cup {NoTab},
         \A id \in Ids : Steady(id) \/ (id = new /\ Opened(id)),
         \A id \in Ids : (IsOpen(id))' => IsOpen(id) \/ (id = new /\ Opened(id))
  PROVE  LibraryInv' /\ LinkInv'
<1>1. LibraryInv'
  BY DEF LibraryInv, LibraryKept
<1>2. \A id \in Ids : tab'[id].link # NoRequest => library'[tab'[id].link] # NoRequest
  BY DEF LinkInv, LibraryKept, Steady, Opened
<1>3. ASSUME NEW id \in Ids, NEW other \in Ids,
             tab'[id].link = tab'[other].link, tab'[id].link # NoRequest
      PROVE  id = other
  <2>1. CASE Steady(id) /\ Steady(other)
    BY <1>3, <2>1 DEF LinkInv, Steady
  <2>2. CASE Steady(id) /\ other = new /\ Opened(other)
    BY <1>3, <2>2 DEF Steady, Opened
  <2>3. CASE id = new /\ Opened(id) /\ Steady(other)
    BY <1>3, <2>3 DEF Steady, Opened
  <2> QED BY <2>1, <2>2, <2>3
<1>4. ASSUME NEW n \in 1..Len(recentlyClosed)
      PROVE  LET closed == recentlyClosed[n]
             IN  /\ ~closed.tab.running
                 /\ closed.id \in used' \cup {Endpoint}
                 /\ closed.tab.link # NoRequest =>
                      /\ library'[closed.tab.link] # NoRequest
                      /\ tab'[closed.id].link # closed.tab.link
                      /\ \A m \in 1..Len(recentlyClosed) :
                           recentlyClosed[m].id = closed.id
                             /\ recentlyClosed[m].tab.link = closed.tab.link => m = n
  <2> DEFINE closed == recentlyClosed[n]
  <2>1. closed.id \in Ids
    BY ClosedTypes
  <2>2. /\ ~closed.tab.running /\ closed.id \in used \cup {Endpoint}
        /\ closed.tab.link # NoRequest =>
             /\ library[closed.tab.link] # NoRequest
             /\ tab[closed.id].link # closed.tab.link
             /\ \A m \in 1..Len(recentlyClosed) :
                  recentlyClosed[m].id = closed.id
                    /\ recentlyClosed[m].tab.link = closed.tab.link => m = n
    BY DEF LinkInv
  <2> HIDE DEF closed
  <2>3. closed.tab.link # NoRequest => tab'[closed.id].link # closed.tab.link
    BY <2>1, <2>2 DEF Steady, Opened
  <2> QED BY <2>2, <2>3 DEF LibraryKept, closed
<1>5. \A id \in Ids : (IsOpen(id))' => id \in used' \cup {Endpoint}
  BY DEF LinkInv, LibraryKept, Opened
<1> QED
  BY <1>1, <1>2, <1>3, <1>4, <1>5 DEF LinkInv, LibraryKept

LEMMA KeptClean ==
  ASSUME CleanInv, LibraryKept, \A id \in Ids : Steady(id) \/ Opened(id)
  PROVE  CleanInv'
<1>1. ASSUME NEW id \in Ids, ~tab'[id].dirty, tab'[id].link # NoRequest, id \notin glossed'
      PROVE  library'[tab'[id].link] = tab'[id].content
  <2>1. CASE Steady(id)
    BY <1>1, <2>1 DEF Steady, CleanInv, LibraryKept
  <2>2. CASE Opened(id)
    BY <1>1, <2>2 DEF Opened, LibraryKept
  <2> QED BY <2>1, <2>2
<1> QED
  BY <1>1 DEF CleanInv, LibraryKept

LEMMA KeptSaves ==
  ASSUME TypeInv, SaveInv, LibraryKept, SavesKept,
         \A id \in Ids : Steady(id) \/ Opened(id)
  PROVE  SaveInv'
<1>1. ASSUME NEW n \in 1..Len(saving), ~saving'[n].overtaken,
             tab'[saving[n].tab].link = saving[n].request
      PROVE  /\ pending'[saving[n].tab] = {}
             /\ library[saving[n].request] = Sanitized(tab'[saving[n].tab].content)
  <2> DEFINE id == saving[n].tab
  <2>1. id \in Ids /\ saving[n].request \in RequestIds /\ saving[n].request # NoRequest
    BY SavingTypes
  <2>2. id \in used \cup {Endpoint} /\ ~saving[n].overtaken
    BY <1>1 DEF SaveInv, SavesKept
  <2>3. Steady(id)
    BY <1>1, <2>1, <2>2 DEF Opened
  <2>4. pending[id] = {} /\ library[saving[n].request] = Sanitized(tab[id].content)
    BY <1>1, <2>2, <2>3 DEF SaveInv, Steady
  <2> QED BY <1>1, <2>3, <2>4 DEF Steady
<1>2. ASSUME NEW n \in 1..Len(saving)
      PROVE  saving'[n].request \in used' /\ saving'[n].tab \in used' \cup {Endpoint}
  BY DEF SaveInv, LibraryKept, SavesKept
<1>3. ASSUME NEW n \in 1..Len(saving), ~saving'[n].overtaken,
             NEW m \in 1..Len(recentlyClosed),
             recentlyClosed[m].id = saving[n].tab,
             recentlyClosed[m].tab.link = saving[n].request
      PROVE  library[saving[n].request] = Sanitized(recentlyClosed[m].tab.content)
  BY <1>3 DEF SaveInv, SavesKept
<1>4. ASSUME NEW n \in 1..Len(saving)
      PROVE  /\ saving'[n].request \in used' /\ saving'[n].tab \in used' \cup {Endpoint}
             /\ ~saving'[n].overtaken =>
                  /\ tab'[saving'[n].tab].link = saving'[n].request =>
                       /\ pending'[saving'[n].tab] = {}
                       /\ library'[saving'[n].request]
                            = Sanitized(tab'[saving'[n].tab].content)
                  /\ \A m \in 1..Len(recentlyClosed') :
                       recentlyClosed'[m].id = saving'[n].tab
                         /\ recentlyClosed'[m].tab.link = saving'[n].request
                         => library'[saving'[n].request]
                              = Sanitized(recentlyClosed'[m].tab.content)
  <2>1. saving'[n].tab = saving[n].tab /\ saving'[n].request = saving[n].request
    BY DEF SavesKept
  <2>2. library' = library /\ recentlyClosed' = recentlyClosed
    BY DEF LibraryKept
  <2> QED BY <1>1, <1>2, <1>3, <2>1, <2>2
<1>5. Len(saving') = Len(saving)
  BY DEF SavesKept
<1> QED
  BY <1>4, <1>5 DEF SaveInv

Good == WInv' /\ AnswerStep

\* The types of what a render gives its values.
Rendered ==
  /\ open' \in Seq(Ids) /\ tab' \in [Ids -> TabRecords]
  /\ activeTabID' \in Ids \cup {NoTab}
  /\ drafts' \in [Ids -> Contents] /\ pending' \in [Ids -> SUBSET Fields]

Activates(ids) == IF ids = <<>> THEN activeTabID' = NoTab ELSE Contains(ids, activeTabID')

LEMMA ActiveTypes ==
  ASSUME NEW ids \in Seq(Ids), Activates(ids)
  PROVE  activeTabID' \in Ids \cup {NoTab}
<1>1. \A n \in 1..Len(ids) : ids[n] \in Ids
  OBVIOUS
<1> QED
  BY <1>1 DEF Activates, Contains

\* A render after which the same tabs are open, with the contents, links and
\* marks that the drafts give them.
LEMMA RenderStep ==
  ASSUME WInv, NEW tabs, NEW ids \in Seq(Ids), Store(tabs, ids), IsInjective(ids),
         \A id \in Ids : Contains(ids, id) <=> IsOpen(id),
         Activates(ids),
         \A id \in Ids : IsOpen(id) =>
           /\ tabs[id] \in TabRecords
           /\ tabs[id].link = Flushed[id].link
           /\ tabs[id].content = Flushed[id].content
           /\ tabs[id].dirty = Flushed[id].dirty,
         LibraryKept, SavesKept
  PROVE  /\ TabInv' /\ LibraryInv' /\ LinkInv' /\ CleanInv' /\ SaveInv'
         /\ Rendered
         /\ \A id \in Ids : (IsOpen(id))' <=> IsOpen(id)
         /\ \A id \in Ids : IF IsOpen(id) THEN tab'[id] = tabs[id]
                                          ELSE tab'[id] = RequestTab /\ tab[id] = RequestTab
         /\ \A id \in Ids : drafts'[id] = drafts[id]
<1>1. /\ open' = ids
      /\ \A id : (IsOpen(id))' <=> Contains(ids, id)
      /\ tab' \in [Ids -> TabRecords] /\ drafts' \in [Ids -> Contents]
      /\ pending' \in [Ids -> SUBSET Fields]
      /\ \A id \in Ids : Contains(ids, id) => tab'[id] = tabs[id]
      /\ \A id \in Ids : ~Contains(ids, id) => tab'[id] = RequestTab
      /\ \A id \in Ids : drafts'[id] = tab'[id].content /\ pending'[id] = {}
  BY StoreFacts
<1>2. TabInv'
  BY StoreTabInv DEF Activates
<1>3. TypeInv /\ TabInv /\ LibraryInv /\ LinkInv /\ CleanInv /\ SaveInv
  BY DEF WInv
<1>4. ASSUME NEW id \in Ids PROVE Steady(id) /\ drafts'[id] = drafts[id]
  <2>1. /\ Flushed[id].content = drafts[id] /\ Flushed[id].link = tab[id].link
        /\ tab[id].dirty => Flushed[id].dirty
        /\ ~Flushed[id].dirty => Flushed[id] = tab[id]
        /\ pending[id] = {} => Flushed[id] = tab[id]
        /\ ~IsOpen(id) => Flushed[id] = RequestTab
    BY <1>3, FlushedFacts
  <2>2. /\ tab'[id].link = Flushed[id].link /\ tab'[id].content = Flushed[id].content
        /\ tab'[id].dirty = Flushed[id].dirty
    BY <1>1, <2>1
  <2> QED BY <1>1, <2>1, <2>2 DEF Steady
<1>5. \A id \in Ids : (IsOpen(id))' <=> IsOpen(id)
  BY <1>1
<1>6. LibraryInv' /\ LinkInv'
  <2>1. \A id \in Ids : Steady(id) \/ (id = NoTab /\ Opened(id))
    BY <1>4
  <2>2. \A id \in Ids : (IsOpen(id))' => IsOpen(id) \/ (id = NoTab /\ Opened(id))
    BY <1>5
  <2>3. NoTab \in Ids \cup {NoTab}
    OBVIOUS
  <2> QED BY <1>3, <2>1, <2>2, <2>3, KeptLinks
<1>7. CleanInv' /\ SaveInv'
  BY <1>3, <1>4, KeptClean, KeptSaves
<1>8. Rendered
  BY <1>1, ActiveTypes DEF Rendered
<1>9. \A id \in Ids : ~IsOpen(id) => tab[id] = RequestTab
  BY <1>3 DEF TabInv
<1> QED
  BY <1>1, <1>2, <1>4, <1>5, <1>6, <1>7, <1>8, <1>9

\* A render that leaves every operation alone or forgets it.
LEMMA OperationStep ==
  ASSUME WInv, NEW tabs, NEW ids \in Seq(Ids), Store(tabs, ids), IsInjective(ids),
         \A id \in Ids : Contains(ids, id) <=> IsOpen(id),
         Activates(ids),
         \A id \in Ids : IsOpen(id) =>
           /\ tabs[id] \in TabRecords
           /\ tabs[id].link = Flushed[id].link
           /\ tabs[id].content = Flushed[id].content
           /\ tabs[id].dirty = Flushed[id].dirty
           /\ tabs[id].answer = Flushed[id].answer
           /\ tabs[id].checked = Flushed[id].checked
           /\ \/ token'[id] = token[id] /\ tabs[id].running = Flushed[id].running
              \/ token'[id] = 0 /\ ~tabs[id].running,
         \A id \in Ids : ~IsOpen(id) =>
           token'[id] = token[id] /\ (id \in canceling' => id \in canceling),
         UNCHANGED <<recentlyClosed, libraryVars, saving, sends, edits, glossed>>,
         used \subseteq used', actions' \in Nat,
         token' \in [Ids -> 0..Len(sends)], canceling' \subseteq Ids,
         cancels' \subseteq CancelRecords
  PROVE  Good
<1>1. LibraryKept /\ SavesKept /\ sends' = sends /\ glossed \subseteq glossed'
  BY DEF LibraryKept, SavesKept, libraryVars
<1>2. /\ TabInv' /\ LibraryInv' /\ LinkInv' /\ CleanInv' /\ SaveInv' /\ Rendered
      /\ \A id \in Ids : (IsOpen(id))' <=> IsOpen(id)
      /\ \A id \in Ids : IF IsOpen(id) THEN tab'[id] = tabs[id]
                                       ELSE tab'[id] = RequestTab /\ tab[id] = RequestTab
      /\ \A id \in Ids : drafts'[id] = drafts[id]
  BY <1>1, RenderStep
<1>3. TypeInv /\ TabInv /\ OwnInv /\ SentInv
  BY DEF WInv
<1>4. ASSUME NEW id \in Ids PROVE Undisturbed(id) \/ Forgotten(id)
  <2>1. /\ Flushed[id].running = tab[id].running /\ Flushed[id].answer = tab[id].answer
        /\ Flushed[id].checked = tab[id].checked
    BY <1>3, FlushedFacts
  <2>2. CASE IsOpen(id) /\ token'[id] = token[id] /\ tabs[id].running = Flushed[id].running
    BY <1>2, <2>1, <2>2 DEF Undisturbed
  <2>3. CASE IsOpen(id) /\ token'[id] = 0 /\ ~tabs[id].running
    BY <1>2, <2>1, <2>3 DEF Forgotten
  <2>4. CASE ~IsOpen(id)
    BY <1>2, <2>4 DEF Undisturbed
  <2> QED BY <2>2, <2>3, <2>4
<1>5. \A id \in Ids : (~IsOpen(id))' => token'[id] = 0 /\ id \notin canceling'
  BY <1>2, <1>3 DEF OwnInv
<1>6. OwnInv' /\ SentInv' /\ AnswerStep
  BY <1>1, <1>3, <1>4, <1>5, OperationsKept
<1>7. TypeInv'
  BY <1>2, <1>3 DEF TypeInv, Rendered, libraryVars
<1> QED
  BY <1>2, <1>6, <1>7 DEF Good, WInv

LEMMA Drafted ==
  ASSUME WInv, NEW id \in Ids
  PROVE  /\ Flushed[id] \in TabRecords
         /\ Flushed[id].content = drafts[id]
         /\ Flushed[id].link = tab[id].link /\ Flushed[id].running = tab[id].running
         /\ Flushed[id].pinned = tab[id].pinned /\ Flushed[id].session = tab[id].session
         /\ Flushed[id].answer = tab[id].answer /\ Flushed[id].checked = tab[id].checked
         /\ tab[id].dirty => Flushed[id].dirty
         /\ ~Flushed[id].dirty => Flushed[id] = tab[id]
         /\ pending[id] = {} => Flushed[id] = tab[id]
         /\ ~IsOpen(id) => Flushed[id] = RequestTab
BY FlushedFacts DEF WInv

LEMMA OpenFacts ==
  ASSUME WInv
  PROVE  /\ open \in Seq(Ids) /\ IsInjective(open)
         /\ \A id \in Ids : Contains(open, id) <=> IsOpen(id)
         /\ activeTabID' = activeTabID => Activates(open)
         /\ \A id \in Ids : IsOpen(id) => open # <<>>
         /\ activeTabID # NoTab => activeTabID \in Ids /\ IsOpen(activeTabID)
<1>1. /\ open \in Seq(Ids) /\ IsInjective(open) /\ activeTabID \in Ids \cup {NoTab}
      /\ IF open = <<>> THEN activeTabID = NoTab ELSE IsOpen(activeTabID)
  BY DEF WInv, TypeInv, TabInv
<1>2. open = <<>> => \A id : ~IsOpen(id)
  BY DEF IsOpen
<1> QED
  BY <1>1, <1>2, OpenIsContained, WorkspaceAssumption DEF Activates, Ids

LEMMA FlushDraftsStep ==
  ASSUME WInv, FlushDrafts
  PROVE  Good
<1>1. \A id \in Ids : Flushed[id] \in TabRecords
  BY Drafted
<1>2. /\ Store(Flushed, open) /\ activeTabID' = activeTabID
      /\ UNCHANGED <<recentlyClosed, libraryVars, saving, sends, edits, glossed>>
      /\ used' = used /\ actions' = actions /\ token' = token /\ canceling' = canceling
      /\ cancels' = cancels
  BY DEF FlushDrafts, operationVars, counters
<1>3. /\ actions \in Nat /\ token \in [Ids -> 0..Len(sends)] /\ canceling \subseteq Ids
      /\ cancels \subseteq CancelRecords
  BY DEF WInv, TypeInv
<1>4. Activates(open) /\ open \in Seq(Ids) /\ IsInjective(open)
      /\ \A id \in Ids : Contains(open, id) <=> IsOpen(id)
  BY <1>2, OpenFacts
<1> QED
  BY <1>1, <1>2, <1>3, <1>4, OperationStep

LEMMA ActivateStep ==
  ASSUME WInv, NEW id \in Ids, Activate(id)
  PROVE  Good
<1>1. \A other \in Ids : Flushed[other] \in TabRecords
  BY Drafted
<1>2. /\ Store(Flushed, open) /\ activeTabID' = id /\ IsOpen(id)
      /\ UNCHANGED <<recentlyClosed, libraryVars, saving, sends, edits, glossed>>
      /\ actions' = actions + 1 /\ token' = token /\ canceling' = canceling
      /\ cancels' = cancels /\ used' = used
  BY DEF Activate, Act, operationVars
<1>3. /\ actions + 1 \in Nat /\ token \in [Ids -> 0..Len(sends)] /\ canceling \subseteq Ids
      /\ cancels \subseteq CancelRecords
  BY DEF WInv, TypeInv
<1>4. Activates(open) /\ open \in Seq(Ids) /\ IsInjective(open)
      /\ \A other \in Ids : Contains(open, other) <=> IsOpen(other)
  BY <1>2, OpenFacts DEF Activates
<1> QED
  BY <1>1, <1>2, <1>3, <1>4, OperationStep

LEMMA TogglePinStep ==
  ASSUME WInv, NEW id \in Ids, TogglePin(id)
  PROVE  Good
<1> DEFINE tabs == [Flushed EXCEPT ![id].pinned = ~@]
<1>1. \A other \in Ids : Flushed[other] \in TabRecords
  BY Drafted
<1>2. /\ Store(tabs, open) /\ activeTabID' = activeTabID
      /\ UNCHANGED <<recentlyClosed, libraryVars, saving, sends, edits, glossed>>
      /\ actions' = actions + 1 /\ token' = token /\ canceling' = canceling
      /\ cancels' = cancels /\ used' = used
  BY DEF TogglePin, Act, operationVars
<1>3. /\ actions + 1 \in Nat /\ token \in [Ids -> 0..Len(sends)] /\ canceling \subseteq Ids
      /\ cancels \subseteq CancelRecords
  BY DEF WInv, TypeInv
<1>4. Activates(open) /\ open \in Seq(Ids) /\ IsInjective(open)
      /\ \A other \in Ids : Contains(open, other) <=> IsOpen(other)
  BY <1>2, OpenFacts
<1>5. DOMAIN Flushed = Ids
  BY DEF Flushed
<1>6. ASSUME NEW other \in Ids
      PROVE  /\ tabs[other] \in TabRecords
             /\ tabs[other].link = Flushed[other].link
             /\ tabs[other].content = Flushed[other].content
             /\ tabs[other].dirty = Flushed[other].dirty
             /\ tabs[other].answer = Flushed[other].answer
             /\ tabs[other].checked = Flushed[other].checked
             /\ tabs[other].running = Flushed[other].running
  <2>1. Flushed[other] \in TabRecords
    BY <1>1
  <2>2. PICK b \in BOOLEAN : b = ~Flushed[id].pinned
    OBVIOUS
  <2>3. tabs[other] = IF other = id THEN [Flushed[other] EXCEPT !.pinned = b]
                                    ELSE Flushed[other]
    BY <1>5, <2>2
  <2> QED BY <2>1, <2>3 DEF TabRecords
<1> HIDE DEF tabs
<1> QED
  BY <1>2, <1>3, <1>4, <1>6, OperationStep

LEMMA SendRefusedStep ==
  ASSUME WInv, SendRefused
  PROVE  Good
<1>1. \A id \in Ids : Flushed[id] \in TabRecords /\ Flushed[id].running = tab[id].running
  BY Drafted
<1>2. /\ Store(Flushed, open) /\ activeTabID' = activeTabID
      /\ UNCHANGED <<recentlyClosed, libraryVars, saving, sends, edits, glossed>>
      /\ actions' = actions + 1 /\ token' = [token EXCEPT ![activeTabID] = 0]
      /\ canceling' = canceling \ {activeTabID} /\ cancels' = cancels /\ used' = used
      /\ activeTabID # NoTab /\ ~tab[activeTabID].running
  BY DEF SendRefused, Act
<1>3. /\ actions + 1 \in Nat /\ token \in [Ids -> 0..Len(sends)] /\ canceling \subseteq Ids
      /\ cancels \subseteq CancelRecords /\ Len(sends) \in Nat
  BY DEF WInv, TypeInv
<1>4. Activates(open) /\ open \in Seq(Ids) /\ IsInjective(open)
      /\ (\A id \in Ids : Contains(open, id) <=> IsOpen(id))
      /\ activeTabID \in Ids /\ IsOpen(activeTabID)
  BY <1>2, OpenFacts
<1>5. /\ token' \in [Ids -> 0..Len(sends)]
      /\ \A id \in Ids : token'[id] = IF id = activeTabID THEN 0 ELSE token[id]
  <2>1. token' = [token EXCEPT ![activeTabID] = 0]
    BY <1>2
  <2>2. token \in [Ids -> 0..Len(sends)] /\ 0 \in 0..Len(sends)
    BY <1>3
  <2> QED BY <2>1, <2>2
<1>6. \A id \in Ids : \/ token'[id] = token[id] /\ Flushed[id].running = Flushed[id].running
                      \/ token'[id] = 0 /\ ~Flushed[id].running
  BY <1>1, <1>2, <1>5
<1>7. \A id \in Ids : ~IsOpen(id) =>
        token'[id] = token[id] /\ (id \in canceling' => id \in canceling)
  BY <1>2, <1>4, <1>5
<1> QED
  BY <1>1, <1>2, <1>3, <1>4, <1>5, <1>6, <1>7, OperationStep

LEMMA CancelStep ==
  ASSUME WInv, NEW id \in Ids, Cancel(id)
  PROVE  Good
<1>1. \A other \in Ids : Flushed[other] \in TabRecords
  BY Drafted
<1>2. /\ Store(Flushed, open) /\ activeTabID' = activeTabID /\ IsOpen(id)
      /\ UNCHANGED <<recentlyClosed, libraryVars, saving, sends, edits, glossed>>
      /\ actions' = actions + 1 /\ token' = token /\ canceling' = canceling \cup {id}
      /\ cancels' = cancels \cup {[tab |-> id, token |-> token[id]]} /\ used' = used
  BY DEF Cancel, Act
<1>3. /\ actions + 1 \in Nat /\ token \in [Ids -> 0..Len(sends)] /\ canceling \subseteq Ids
      /\ cancels \subseteq CancelRecords
  BY DEF WInv, TypeInv
<1>4. Activates(open) /\ open \in Seq(Ids) /\ IsInjective(open)
      /\ \A other \in Ids : Contains(open, other) <=> IsOpen(other)
  BY <1>2, OpenFacts
<1>5. cancels' \subseteq CancelRecords
  BY <1>2, <1>3 DEF CancelRecords
<1> QED
  BY <1>1, <1>2, <1>3, <1>4, <1>5, OperationStep

LEMMA CancelReturnsStep ==
  ASSUME WInv, NEW c \in cancels, NEW canceled \in BOOLEAN, CancelReturns(c, canceled)
  PROVE  Good
<1>1. c \in CancelRecords /\ c.tab \in Ids
  BY DEF WInv, TypeInv, CancelRecords
<1>2. CASE CancellationIsCurrent(c) /\ ~canceled
  <2> DEFINE tabs == [Flushed EXCEPT ![c.tab].running = FALSE]
  <2>1. \A id \in Ids : Flushed[id] \in TabRecords
    BY Drafted
  <2>2. /\ Store(tabs, open) /\ activeTabID' = activeTabID
        /\ UNCHANGED <<recentlyClosed, libraryVars, saving, sends, edits, glossed>>
        /\ actions' = actions /\ token' = [token EXCEPT ![c.tab] = 0]
        /\ canceling' = canceling \ {c.tab} /\ cancels' = cancels \ {c} /\ used' = used
    BY <1>2 DEF CancelReturns, counters
  <2>3. /\ actions \in Nat /\ token \in [Ids -> 0..Len(sends)] /\ canceling \subseteq Ids
        /\ cancels \subseteq CancelRecords /\ Len(sends) \in Nat
    BY DEF WInv, TypeInv
  <2>4. Activates(open) /\ open \in Seq(Ids) /\ IsInjective(open)
        /\ \A id \in Ids : Contains(open, id) <=> IsOpen(id)
    BY <2>2, OpenFacts
  <2>5. DOMAIN Flushed = Ids
    BY DEF Flushed
  <2>6. /\ token' \in [Ids -> 0..Len(sends)]
        /\ \A id \in Ids : token'[id] = IF id = c.tab THEN 0 ELSE token[id]
    BY <1>1, <2>2, <2>3
  <2>7. ASSUME NEW id \in Ids
        PROVE  /\ tabs[id] \in TabRecords
               /\ tabs[id].link = Flushed[id].link
               /\ tabs[id].content = Flushed[id].content
               /\ tabs[id].dirty = Flushed[id].dirty
               /\ tabs[id].answer = Flushed[id].answer
               /\ tabs[id].checked = Flushed[id].checked
               /\ \/ token'[id] = token[id] /\ tabs[id].running = Flushed[id].running
                  \/ token'[id] = 0 /\ ~tabs[id].running
    <3>1. Flushed[id] \in TabRecords
      BY <2>1
    <3>2. tabs[id] = IF id = c.tab THEN [Flushed[id] EXCEPT !.running = FALSE]
                                   ELSE Flushed[id]
      BY <2>5
    <3> HIDE DEF tabs
    <3>3. CASE id = c.tab
      BY <2>6, <3>1, <3>2, <3>3 DEF TabRecords
    <3>4. CASE id # c.tab
      BY <2>6, <3>1, <3>2, <3>4
    <3> QED BY <3>3, <3>4
  <2>8. \A id \in Ids : ~IsOpen(id) =>
          token'[id] = token[id] /\ (id \in canceling' => id \in canceling)
    BY <2>2, <2>6 DEF WInv, OwnInv
  <2>9. cancels' \subseteq CancelRecords /\ canceling' \subseteq Ids
    BY <2>2, <2>3
  <2> HIDE DEF tabs
  <2> QED BY <2>2, <2>3, <2>4, <2>6, <2>7, <2>8, <2>9, OperationStep
<1>3. CASE ~(CancellationIsCurrent(c) /\ ~canceled)
  <2>1. /\ UNCHANGED <<canceling, token, open, tab, drafts, pending>>
        /\ UNCHANGED <<activeTabID, recentlyClosed, sends, libraryVars, saving,
                       counters, glossed>>
        /\ cancels' = cancels \ {c}
    BY <1>3 DEF CancelReturns
  <2>2. WInv'
    <3>1. TypeInv'
      BY <2>1 DEF WInv, TypeInv, libraryVars, counters
    <3>2. TabInv' /\ OwnInv' /\ SentInv'
      BY <2>1 DEF WInv, TabInv, OwnInv, SentInv, IsOpen, IsInjective
    <3>3. LibraryInv' /\ LinkInv'
      BY <2>1 DEF WInv, LibraryInv, LinkInv, IsOpen, libraryVars, counters
    <3>4. CleanInv' /\ SaveInv'
      BY <2>1 DEF WInv, CleanInv, SaveInv, libraryVars, counters
    <3> QED BY <3>1, <3>2, <3>3, <3>4 DEF WInv
  <2>3. AnswerStep
    BY <2>1 DEF AnswerStep
  <2> QED BY <2>2, <2>3 DEF Good
<1> QED
  BY <1>2, <1>3

LEMMA RemoveFacts ==
  ASSUME NEW S, NEW s \in Seq(S), NEW m \in 1..Len(s)
  PROVE  /\ RemoveAt(s, m) \in Seq(S) /\ Len(RemoveAt(s, m)) = Len(s) - 1
         /\ \A k \in 1..Len(s) - 1 : RemoveAt(s, m)[k] = s[IF k < m THEN k ELSE k + 1]
<1> DEFINE a == SubSeq(s, 1, m - 1)
           b == SubSeq(s, m + 1, Len(s))
<1>1. /\ a \in Seq(S) /\ Len(a) = m - 1
      /\ \A k \in 1..m - 1 : a[k] = s[k]
  OBVIOUS
<1>2. /\ b \in Seq(S) /\ Len(b) = Len(s) - m
      /\ \A k \in 1..Len(s) - m : b[k] = s[m + k]
  OBVIOUS
<1>3. RemoveAt(s, m) = a \o b
  BY DEF RemoveAt
<1> HIDE DEF a, b
<1>4. RemoveAt(s, m) \in Seq(S) /\ Len(RemoveAt(s, m)) = Len(s) - 1
  BY <1>1, <1>2, <1>3
<1>5. ASSUME NEW k \in 1..Len(s) - 1
      PROVE  RemoveAt(s, m)[k] = s[IF k < m THEN k ELSE k + 1]
  <2>1. (a \o b)[k] = IF k <= Len(a) THEN a[k] ELSE b[k - Len(a)]
    BY <1>1, <1>2
  <2>2. CASE k < m
    BY <1>1, <1>3, <2>1, <2>2
  <2>3. CASE ~(k < m)
    <3>1. k - (m - 1) \in 1..Len(s) - m /\ m + (k - (m - 1)) = k + 1
      BY <2>3
    <3>2. (a \o b)[k] = b[k - (m - 1)]
      BY <1>1, <2>1, <2>3
    <3> QED BY <1>2, <1>3, <2>3, <3>1, <3>2
  <2> QED BY <2>2, <2>3
<1> QED
  BY <1>4, <1>5

\* A tab that is moved by one place changes places with its neighbour.
LEMMA SwapFacts ==
  ASSUME NEW S, NEW s \in Seq(S), NEW m \in 1..Len(s), NEW n \in 1..Len(s),
         n \in {m - 1, m + 1}
  PROVE  LET t == InsertAt(RemoveAt(s, m), n, s[m])
         IN  /\ t \in Seq(S) /\ Len(t) = Len(s)
             /\ \A k \in 1..Len(s) :
                  t[k] = s[IF k = n THEN m ELSE IF k = m THEN n ELSE k]
<1> DEFINE rest == RemoveAt(s, m)
           a == SubSeq(rest, 1, n - 1)
           b == SubSeq(rest, n, Len(rest))
           t == InsertAt(rest, n, s[m])
<1>1. /\ rest \in Seq(S) /\ Len(rest) = Len(s) - 1
      /\ \A k \in 1..Len(s) - 1 : rest[k] = s[IF k < m THEN k ELSE k + 1]
  BY RemoveFacts
<1>2. t = a \o <<s[m]>> \o b
  BY DEF InsertAt
<1> HIDE DEF t, rest
<1>3. /\ a \in Seq(S) /\ Len(a) = n - 1
      /\ \A k \in 1..n - 1 : a[k] = rest[k]
  BY <1>1
<1>4. /\ b \in Seq(S) /\ Len(b) = Len(s) - n
      /\ \A k \in 1..Len(s) - n : b[k] = rest[n + k - 1]
  BY <1>1
<1> HIDE DEF a, b
<1>5. s[m] \in S /\ m \in Nat /\ n \in Nat /\ Len(s) \in Nat
  OBVIOUS
<1>6. t \in Seq(S) /\ Len(t) = Len(s)
  <2>1. <<s[m]>> \in Seq(S) /\ Len(<<s[m]>>) = 1
    BY <1>5
  <2>2. a \o <<s[m]>> \in Seq(S) /\ Len(a \o <<s[m]>>) = n
    BY <1>3, <1>5, <2>1
  <2> DEFINE u == a \o <<s[m]>>
  <2>3. t = u \o b /\ u \in Seq(S) /\ Len(u) = n
    BY <1>2, <2>2
  <2> HIDE DEF u
  <2>4. u \o b \in Seq(S) /\ Len(u \o b) = Len(u) + Len(b)
    BY <1>4, <2>3, ConcatProperties
  <2>5. n + (Len(s) - n) = Len(s)
    BY <1>5
  <2> QED BY <1>4, <2>3, <2>4, <2>5
<1>7. \A k \in 1..Len(s) : t[k] = IF k < n THEN a[k] ELSE IF k = n THEN s[m] ELSE b[k - n]
  <2> DEFINE one == <<s[m]>>
             u == a \o one
  <2>1. one \in Seq(S) /\ Len(one) = 1 /\ one[1] = s[m]
    BY <1>5
  <2> HIDE DEF one
  <2>2. /\ u \in Seq(S) /\ Len(u) = Len(a) + Len(one)
        /\ \A k \in 1..Len(a) + Len(one) :
             u[k] = IF k <= Len(a) THEN a[k] ELSE one[k - Len(a)]
    <3>1. a \in Seq(S) /\ one \in Seq(S)
      BY <1>3, <2>1
    <3> QED BY <3>1, ConcatProperties
  <2>3. t = u \o b
    BY <1>2 DEF one
  <2> HIDE DEF u
  <2>4. /\ Len(u) = n
        /\ \A k \in 1..n : u[k] = IF k < n THEN a[k] ELSE s[m]
    <3>1. Len(a) + Len(one) = n /\ n - (n - 1) = 1
      BY <1>3, <1>5, <2>1
    <3>2. ASSUME NEW k \in 1..n PROVE u[k] = IF k < n THEN a[k] ELSE s[m]
      <4>1. u[k] = IF k <= n - 1 THEN a[k] ELSE one[k - (n - 1)]
        BY <1>3, <2>2, <3>1
      <4>2. (k <= n - 1 <=> k < n) /\ (~(k < n) => k - (n - 1) = 1)
        BY <1>5
      <4> QED BY <2>1, <4>1, <4>2
    <3> QED BY <2>2, <3>1, <3>2
  <2>5. \A k \in 1..Len(u) + Len(b) :
          (u \o b)[k] = IF k <= Len(u) THEN u[k] ELSE b[k - Len(u)]
    BY <1>4, <2>2, ConcatProperties
  <2>6. Len(u) + Len(b) = Len(s)
    BY <1>4, <1>5, <2>4
  <2> QED BY <1>5, <2>3, <2>4, <2>5, <2>6
<1>8. ASSUME NEW k \in 1..Len(s)
      PROVE  t[k] = s[IF k = n THEN m ELSE IF k = m THEN n ELSE k]
  <2>1. CASE k < n
    <3>1. t[k] = s[IF k < m THEN k ELSE k + 1] /\ k \in Nat
      BY <1>1, <1>3, <1>5, <1>7, <2>1
    <3>2. k # n /\ (k = m => k + 1 = n) /\ (k # m => k < m)
      BY <1>5, <2>1
    <3>3. CASE k = m
      BY <3>1, <3>2, <3>3
    <3>4. CASE k # m
      BY <3>1, <3>2, <3>4
    <3> QED BY <3>3, <3>4
  <2>2. CASE k = n
    BY <1>7, <2>2
  <2>3. CASE k > n
    <3>1. k - n \in 1..Len(s) - n /\ n + (k - n) - 1 = k - 1 /\ k - 1 \in 1..Len(s) - 1
      BY <1>5, <2>3
    <3>2. t[k] = b[k - n] /\ b[k - n] = rest[k - 1]
      BY <1>4, <1>5, <1>7, <2>3, <3>1
    <3>3. t[k] = s[IF k - 1 < m THEN k - 1 ELSE (k - 1) + 1]
      BY <1>1, <3>1, <3>2
    <3>4. k # n /\ (k = m => k - 1 = n /\ k - 1 < m) /\ (k # m => ~(k - 1 < m) /\ (k - 1) + 1 = k)
      BY <1>5, <2>3
    <3>5. CASE k = m
      BY <3>3, <3>4, <3>5
    <3>6. CASE k # m
      BY <3>3, <3>4, <3>6
    <3> QED BY <3>5, <3>6
  <2> QED BY <1>5, <2>1, <2>2, <2>3
<1> QED
  BY <1>6, <1>8 DEF t, rest

LEMMA ReorderTabStep ==
  ASSUME WInv, NEW m \in 1..Len(open), NEW n \in 1..Len(open), ReorderTab(m, n)
  PROVE  Good
<1> DEFINE ids == InsertAt(RemoveAt(open, m), n, open[m])
           place(k) == IF k = n THEN m ELSE IF k = m THEN n ELSE k
<1>1. \A id \in Ids : Flushed[id] \in TabRecords
  BY Drafted
<1>2. /\ Store(Flushed, ids) /\ activeTabID' = activeTabID /\ n \in {m - 1, m + 1}
      /\ UNCHANGED <<recentlyClosed, libraryVars, saving, sends, edits, glossed>>
      /\ actions' = actions + 1 /\ token' = token /\ canceling' = canceling
      /\ cancels' = cancels /\ used' = used
  BY DEF ReorderTab, Act, operationVars
<1>3. /\ actions + 1 \in Nat /\ token \in [Ids -> 0..Len(sends)] /\ canceling \subseteq Ids
      /\ cancels \subseteq CancelRecords
  BY DEF WInv, TypeInv
<1>4. Activates(open) /\ open \in Seq(Ids) /\ IsInjective(open)
      /\ \A id \in Ids : Contains(open, id) <=> IsOpen(id)
  BY <1>2, OpenFacts
<1>5. /\ ids \in Seq(Ids) /\ Len(ids) = Len(open)
      /\ \A k \in 1..Len(open) : ids[k] = open[place(k)]
  BY <1>2, <1>4, SwapFacts
<1>6. \A k \in 1..Len(open) : place(k) \in 1..Len(open) /\ place(place(k)) = k
  OBVIOUS
<1> HIDE DEF ids, place
<1>7. IsInjective(ids)
  <2> SUFFICES ASSUME NEW j \in 1..Len(open), NEW k \in 1..Len(open), ids[j] = ids[k]
               PROVE  j = k
    BY <1>5 DEF IsInjective
  <2>1. place(j) = place(k)
    BY <1>4, <1>5, <1>6 DEF IsInjective
  <2> QED BY <1>6, <2>1
<1>8. \A id : Contains(ids, id) <=> Contains(open, id)
  BY <1>5, <1>6 DEF Contains
<1>9. Activates(ids)
  BY <1>4, <1>5, <1>8 DEF Activates
<1>10. \A id \in Ids : Contains(ids, id) <=> IsOpen(id)
  BY <1>4, <1>8
<1> QED
  BY <1>1, <1>2, <1>3, <1>5, <1>7, <1>9, <1>10, OperationStep

LEMMA AppendFacts ==
  ASSUME WInv, NEW id \in Ids, ~IsOpen(id)
  PROVE  /\ Append(open, id) \in Seq(Ids) /\ IsInjective(Append(open, id))
         /\ Append(open, id) # <<>>
         /\ \A other : Contains(Append(open, id), other) <=> IsOpen(other) \/ other = id
<1>1. open \in Seq(Ids) /\ IsInjective(open)
  BY OpenFacts
<1>2. /\ Append(open, id) \in Seq(Ids) /\ Len(Append(open, id)) = Len(open) + 1
      /\ \A k \in 1..Len(open) : Append(open, id)[k] = open[k]
      /\ Append(open, id)[Len(open) + 1] = id
  BY <1>1
<1>3. \A k \in 1..Len(open) + 1 : k \in 1..Len(open) \/ k = Len(open) + 1
  BY <1>1
<1>4. \A k \in 1..Len(open) : open[k] # id
  BY DEF IsOpen
<1>5. IsInjective(Append(open, id))
  BY <1>1, <1>2, <1>3, <1>4 DEF IsInjective
<1>6. ASSUME NEW other
      PROVE  Contains(Append(open, id), other) <=> IsOpen(other) \/ other = id
  <2>1. Contains(Append(open, id), other)
          <=> \E k \in 1..Len(open) + 1 : Append(open, id)[k] = other
    BY <1>2 DEF Contains
  <2>2. Len(open) + 1 \in 1..Len(open) + 1 /\ 1..Len(open) \subseteq 1..Len(open) + 1
    BY <1>1
  <2> QED BY <1>2, <1>3, <2>1, <2>2 DEF IsOpen
<1>7. Len(Append(open, id)) # 0
  BY <1>1, <1>2
<1> QED
  BY <1>2, <1>5, <1>6, <1>7

\* A tab is opened: it is a new one when it has a link, and then it is as saved.
LEMMA OpenStep ==
  ASSUME WInv, NEW id \in Ids, NEW record \in TabRecords, ~IsOpen(id),
         Open(id, record), ~record.running,
         used \subseteq used', id \in used' \cup {Endpoint},
         record.link # NoRequest =>
           /\ library[record.link] # NoRequest
           /\ library[record.link] = record.content
           /\ \A other \in Ids : tab[other].link # record.link
           /\ id \notin used \cup {Endpoint}
  PROVE  Good
<1> DEFINE tabs == [Flushed EXCEPT ![id] = record]
           ids == Append(open, id)
<1>1. /\ Store(tabs, ids) /\ activeTabID' = id
      /\ UNCHANGED <<recentlyClosed, libraryVars, saving, sends, edits, glossed>>
      /\ actions' = actions + 1 /\ token' = token /\ canceling' = canceling
      /\ cancels' = cancels
  BY DEF Open, Act, operationVars
<1>2. /\ ids \in Seq(Ids) /\ IsInjective(ids) /\ ids # <<>>
      /\ \A other : Contains(ids, other) <=> IsOpen(other) \/ other = id
  BY AppendFacts
<1>3. DOMAIN Flushed = Ids
  BY DEF Flushed
<1>4. \A other \in Ids : tabs[other] = IF other = id THEN record ELSE Flushed[other]
  BY <1>3
<1>5. \A other \in Ids : tabs[other] \in TabRecords
  BY <1>4, Drafted
<1> HIDE DEF tabs, ids
<1>6. /\ open' = ids
      /\ \A other : (IsOpen(other))' <=> Contains(ids, other)
      /\ tab' \in [Ids -> TabRecords] /\ drafts' \in [Ids -> Contents]
      /\ pending' \in [Ids -> SUBSET Fields]
      /\ \A other \in Ids : Contains(ids, other) => tab'[other] = tabs[other]
      /\ \A other \in Ids : ~Contains(ids, other) => tab'[other] = RequestTab
      /\ \A other \in Ids : drafts'[other] = tab'[other].content /\ pending'[other] = {}
  BY <1>1, <1>2, <1>5, StoreFacts
<1>7. TabInv'
  BY <1>1, <1>2, <1>5, StoreTabInv
<1>8. TypeInv /\ TabInv /\ OwnInv /\ SentInv /\ LibraryInv /\ LinkInv /\ CleanInv /\ SaveInv
  BY DEF WInv
<1>9. LibraryKept /\ SavesKept /\ sends' = sends /\ glossed \subseteq glossed'
  BY <1>1 DEF LibraryKept, SavesKept, libraryVars
<1>10. ASSUME NEW other \in Ids, other # id
       PROVE  /\ Steady(other) /\ Undisturbed(other)
              /\ (IsOpen(other))' <=> IsOpen(other)
  <2>1. /\ Flushed[other].content = drafts[other] /\ Flushed[other].link = tab[other].link
        /\ Flushed[other].running = tab[other].running
        /\ Flushed[other].answer = tab[other].answer
        /\ Flushed[other].checked = tab[other].checked
        /\ tab[other].dirty => Flushed[other].dirty
        /\ ~Flushed[other].dirty => Flushed[other] = tab[other]
        /\ pending[other] = {} => Flushed[other] = tab[other]
        /\ ~IsOpen(other) => Flushed[other] = RequestTab
    BY Drafted
  <2>2. tab'[other] = Flushed[other]
    BY <1>2, <1>4, <1>6, <1>10, <2>1
  <2>3. drafts'[other] = drafts[other]
    BY <1>6, <2>1, <2>2
  <2> QED BY <1>1, <1>2, <1>6, <1>10, <2>1, <2>2, <2>3 DEF Steady, Undisturbed
<1>11. tab'[id] = record /\ (IsOpen(id))'
  BY <1>2, <1>4, <1>6
<1>12. Opened(id) /\ Undisturbed(id)
  <2>1. token[id] = 0 /\ ~tab[id].running
    BY <1>8, BlankFacts DEF OwnInv
  <2>2. Undisturbed(id)
    <3>1. record.running = FALSE /\ tab[id].running = FALSE
      BY <1>8, <2>1 DEF TypeInv, TabRecords
    <3> QED BY <1>1, <1>11, <2>1, <3>1 DEF Undisturbed
  <2>3. Opened(id)
    BY <1>11 DEF Opened
  <2> QED BY <2>2, <2>3
<1>13. LibraryInv' /\ LinkInv'
  <2>1. \A other \in Ids : Steady(other) \/ (other = id /\ Opened(other))
    BY <1>10, <1>12
  <2>2. \A other \in Ids : (IsOpen(other))' => IsOpen(other) \/ (other = id /\ Opened(other))
    BY <1>10, <1>12
  <2>3. id \in Ids \cup {NoTab}
    OBVIOUS
  <2> QED BY <1>8, <1>9, <2>1, <2>2, <2>3, KeptLinks
<1>14. CleanInv' /\ SaveInv'
  <2>1. \A other \in Ids : Steady(other) \/ Opened(other)
    BY <1>10, <1>12
  <2>2. CleanInv'
    BY <1>8, <1>9, <2>1, KeptClean
  <2>3. SaveInv'
    BY <1>8, <1>9, <2>1, KeptSaves
  <2> QED BY <2>2, <2>3
<1>15. OwnInv' /\ SentInv' /\ AnswerStep
  <2>1. \A other \in Ids : Undisturbed(other) \/ Forgotten(other)
    BY <1>10, <1>12
  <2>2. \A other \in Ids : (~IsOpen(other))' => token'[other] = 0 /\ other \notin canceling'
    BY <1>1, <1>8, <1>10, <1>11 DEF OwnInv
  <2> QED BY <1>8, <1>9, <2>1, <2>2, OperationsKept
<1>16. TypeInv'
  BY <1>1, <1>2, <1>6, <1>8 DEF TypeInv, libraryVars
<1> QED
  BY <1>7, <1>13, <1>14, <1>15, <1>16 DEF Good, WInv

LEMMA FreshIsClosed ==
  ASSUME WInv, NEW id \in Fresh \ used
  PROVE  id \in Ids /\ ~IsOpen(id) /\ id \notin used \cup {Endpoint}
<1>1. id \in Ids /\ id # Endpoint
  BY WorkspaceAssumption DEF Ids
<1> QED
  BY <1>1 DEF WInv, LinkInv

LEMMA NewRequestStep ==
  ASSUME WInv, NEW id \in Ids, NewRequest(id)
  PROVE  Good
<1>1. /\ id \in Fresh \ used /\ used' = used \cup {id}
      /\ \/ Open(id, [RequestTab EXCEPT !.dirty = TRUE])
         \/ Open(id, [RequestTab EXCEPT !.dirty = TRUE, !.session = TRUE,
                                        !.content.literal = TRUE])
  BY DEF NewRequest
<1>2. PICK record : /\ Open(id, record)
                    /\ \/ record = [RequestTab EXCEPT !.dirty = TRUE]
                       \/ record = [RequestTab EXCEPT !.dirty = TRUE, !.session = TRUE,
                                                      !.content.literal = TRUE]
  BY <1>1
<1>3. [Blank EXCEPT !.literal = TRUE] \in Contents
  BY BlankFacts DEF Contents
<1>4. record \in TabRecords /\ ~record.running /\ record.link = NoRequest
  <2>1. RequestTab \in TabRecords /\ RequestTab.content = Blank
        /\ ~RequestTab.running /\ RequestTab.link = NoRequest
    BY BlankFacts DEF RequestTab
  <2>2. CASE record = [RequestTab EXCEPT !.dirty = TRUE]
    BY <2>1, <2>2 DEF TabRecords
  <2>3. CASE record = [RequestTab EXCEPT !.dirty = TRUE, !.session = TRUE,
                                         !.content.literal = TRUE]
    <3>1. record = [RequestTab EXCEPT !.dirty = TRUE, !.session = TRUE,
                                      !.content = [Blank EXCEPT !.literal = TRUE]]
      BY <2>1, <2>3
    <3> QED BY <1>3, <2>1, <3>1 DEF TabRecords
  <2> QED BY <1>2, <2>2, <2>3
<1>5. ~IsOpen(id)
  BY <1>1, FreshIsClosed
<1> QED
  BY <1>1, <1>2, <1>4, <1>5, OpenStep

LEMMA OpenEndpointStep ==
  ASSUME WInv, OpenEndpoint
  PROVE  Good
<1> DEFINE record == [RequestTab EXCEPT !.openApi = TRUE]
<1>1. Endpoint \in Ids
  BY DEF Ids
<1>2. CASE Activate(Endpoint)
  BY <1>1, <1>2, ActivateStep
<1>3. CASE ~IsOpen(Endpoint) /\ Open(Endpoint, record) /\ used' = used
  <2>1. record \in TabRecords /\ ~record.running /\ record.link = NoRequest
    BY BlankFacts DEF RequestTab, TabRecords
  <2> HIDE DEF record
  <2> QED BY <1>1, <1>3, <2>1, OpenStep
<1> QED
  BY <1>2, <1>3 DEF OpenEndpoint

LEMMA OpenSavedStep ==
  ASSUME WInv, NEW r \in RequestIds, NEW id \in Ids, OpenSaved(r, id)
  PROVE  Good
<1> DEFINE record == [RequestTab EXCEPT !.content = library[r], !.link = r]
<1>1. CASE Activate(id)
  BY <1>1, ActivateStep
<1>2. CASE Linked(r) = {} /\ id \in Fresh \ used /\ used' = used \cup {id}
           /\ Open(id, record) /\ library[r] # NoRequest
  <2>1. library[r] \in Contents /\ r \in Links /\ r # NoRequest
    BY <1>2, WorkspaceAssumption DEF WInv, TypeInv, Saved, Links
  <2>2. /\ record \in TabRecords /\ ~record.running /\ record.link = r
        /\ record.content = library[r]
    BY <2>1, BlankFacts DEF RequestTab, TabRecords
  <2>3. ASSUME NEW other \in Ids PROVE tab[other].link # r
    <3>1. CASE IsOpen(other)
      BY <1>2, <3>1 DEF Linked
    <3>2. CASE ~IsOpen(other)
      <4>1. tab[other] = RequestTab
        BY <3>2 DEF WInv, TabInv
      <4> QED BY <2>1, <4>1 DEF RequestTab
    <3> QED BY <3>1, <3>2
  <2>4. ~IsOpen(id) /\ id \notin used \cup {Endpoint}
    BY <1>2, FreshIsClosed
  <2> HIDE DEF record
  <2> QED BY <1>2, <2>1, <2>2, <2>3, <2>4, OpenStep
<1> QED
  BY <1>1, <1>2 DEF OpenSaved

LEMMA DuplicateTabStep ==
  ASSUME WInv, NEW id \in Ids, NEW copy \in Ids, DuplicateTab(id, copy)
  PROVE  Good
<1> DEFINE record == [Flushed[id] EXCEPT !.link = NoRequest, !.pinned = FALSE,
                                         !.answer = 0, !.checked = FALSE]
<1>1. /\ ~tab[id].running /\ copy \in Fresh \ used /\ used' = used \cup {copy}
      /\ Open(copy, record)
  BY DEF DuplicateTab
<1>2. Flushed[id] \in TabRecords /\ ~Flushed[id].running
  BY <1>1, Drafted
<1>3. record \in TabRecords /\ ~record.running /\ record.link = NoRequest
  BY <1>2 DEF TabRecords, Links
<1>4. ~IsOpen(copy)
  BY <1>1, FreshIsClosed
<1> HIDE DEF record
<1> QED
  BY <1>1, <1>3, <1>4, OpenStep

-----------------------------------------------------------------------------
(* Edits *)

\* An edit is put on the draft only; it ends the operation when it is of the
\* method or the URL, and overtakes the saves of the tab.
LEMMA TypeStep ==
  ASSUME WInv, NEW field \in Fields, Type(field)
  PROVE  Good
<1> DEFINE id == activeTabID
<1>1. /\ id # NoTab /\ ~tab[id].running /\ edits < MaxEdits /\ edits' = edits + 1
      /\ drafts' = [drafts EXCEPT ![id] = Typed(@, field)]
      /\ pending' = [pending EXCEPT ![id] = @ \cup {field}]
      /\ token' = [token EXCEPT ![id] = TokenAfterEdit(id, field)]
      /\ saving' = [n \in 1..Len(saving) |->
           IF saving[n].tab = id THEN [saving[n] EXCEPT !.overtaken = TRUE] ELSE saving[n]]
      /\ UNCHANGED <<tabVars, canceling, sends, cancels, libraryVars, used, glossed>>
      /\ actions' = actions + 1
  BY DEF Type, Act
<1>2. TypeInv /\ TabInv /\ OwnInv /\ SentInv /\ LibraryInv /\ LinkInv /\ CleanInv /\ SaveInv
  BY DEF WInv
<1>3. id \in Ids /\ IsOpen(id)
  BY <1>1, OpenFacts
<1>4. Len(sends) \in Nat /\ MaxEdits \in Nat /\ edits \in Nat /\ edits + 1 \in 0..MaxEdits
  BY <1>1, <1>2, WorkspaceAssumption DEF TypeInv
<1>5. /\ drafts \in [Ids -> Contents] /\ pending \in [Ids -> SUBSET Fields]
      /\ token \in [Ids -> 0..Len(sends)] /\ saving \in Seq(SaveRecords)
      /\ tab \in [Ids -> TabRecords]
  BY <1>2 DEF TypeInv
<1>6. /\ Typed(drafts[id], field) \in Contents
      /\ \A f \in AllFields \ {field} : Typed(drafts[id], field)[f] = drafts[id][f]
  <2>1. drafts[id] \in Contents
    BY <1>3, <1>5
  <2>2. CASE field = "headers"
    <3>1. PICK h \in {"plain", "secret"} :
            Typed(drafts[id], field) = [drafts[id] EXCEPT !.headers = h]
      BY <2>2 DEF Typed
    <3> QED BY <2>1, <2>2, <3>1 DEF Contents, AllFields
  <2>3. CASE field # "headers"
    <3>1. Typed(drafts[id], field) = [drafts[id] EXCEPT ![field] = edits + 1]
      BY <2>3 DEF Typed
    <3>2. field \in {"method", "url", "body"}
      BY <2>3 DEF Fields
    <3>3. CASE field = "method"
      BY <1>4, <2>1, <3>1, <3>3 DEF Contents, AllFields
    <3>4. CASE field = "url"
      BY <1>4, <2>1, <3>1, <3>4 DEF Contents, AllFields
    <3>5. CASE field = "body"
      BY <1>4, <2>1, <3>1, <3>5 DEF Contents, AllFields
    <3> QED BY <3>2, <3>3, <3>4, <3>5
  <2> QED BY <2>2, <2>3
<1> HIDE DEF id
<1>7. /\ drafts' \in [Ids -> Contents]
      /\ \A other \in Ids : drafts'[other] =
           IF other = id THEN Typed(drafts[id], field) ELSE drafts[other]
  BY <1>1, <1>3, <1>5, <1>6
<1>8. /\ pending' \in [Ids -> SUBSET Fields]
      /\ \A other \in Ids : pending'[other] =
           IF other = id THEN pending[id] \cup {field} ELSE pending[other]
  BY <1>1, <1>3, <1>5
<1>9. TokenAfterEdit(id, field) \in 0..Len(sends)
      /\ TokenAfterEdit(id, field) \in {0, token[id]}
      /\ (field \in {"method", "url"} => TokenAfterEdit(id, field) = 0)
  BY <1>3, <1>4, <1>5 DEF TokenAfterEdit
<1>10. /\ token' \in [Ids -> 0..Len(sends)]
       /\ \A other \in Ids : token'[other] =
            IF other = id THEN TokenAfterEdit(id, field) ELSE token[other]
  BY <1>1, <1>3, <1>5, <1>9
<1>11. /\ saving' \in Seq(SaveRecords) /\ Len(saving') = Len(saving)
       /\ \A n \in 1..Len(saving) : saving'[n] =
            IF saving[n].tab = id THEN [saving[n] EXCEPT !.overtaken = TRUE] ELSE saving[n]
  <2>1. \A n \in 1..Len(saving) : saving[n] \in SaveRecords
    BY <1>5
  <2>2. \A n \in 1..Len(saving) :
          (IF saving[n].tab = id THEN [saving[n] EXCEPT !.overtaken = TRUE] ELSE saving[n])
            \in SaveRecords
    BY <2>1 DEF SaveRecords
  <2> QED BY <1>1, <1>5, <2>2
<1>12. SavesKept /\ \A n \in 1..Len(saving) : saving[n].tab = id => saving'[n].overtaken
  <2>1. \A n \in 1..Len(saving) : saving[n] \in SaveRecords
    BY <1>5
  <2> QED BY <1>11, <2>1 DEF SavesKept, SaveRecords
<1>13. LibraryKept /\ sends' = sends /\ glossed' = glossed /\ tab' = tab /\ open' = open
       /\ activeTabID' = activeTabID /\ canceling' = canceling
  BY <1>1 DEF LibraryKept, libraryVars, tabVars
<1>14. \A other : (IsOpen(other))' <=> IsOpen(other)
  BY <1>13 DEF IsOpen
<1>15. TabInv'
  <2>1. IsInjective(open)'
    BY <1>2, <1>13 DEF TabInv, IsInjective
  <2>2. (IF open = <<>> THEN activeTabID = NoTab ELSE IsOpen(activeTabID))'
    BY <1>2, <1>13 DEF TabInv, IsOpen
  <2>3. \A other \in Ids : (~IsOpen(other))' => tab'[other] = RequestTab /\ pending'[other] = {}
    BY <1>2, <1>3, <1>8, <1>13, <1>14 DEF TabInv
  <2>4. \A other \in Ids : \A f \in AllFields \ pending'[other] :
          drafts'[other][f] = tab'[other].content[f]
    BY <1>2, <1>6, <1>7, <1>8, <1>13 DEF TabInv
  <2> QED BY <2>1, <2>2, <2>3, <2>4 DEF TabInv
<1>16. \A other \in Ids : Steady(other)
  BY <1>8, <1>12, <1>13 DEF Steady
<1>17. ASSUME NEW other \in Ids PROVE Undisturbed(other) \/ Forgotten(other)
  <2>1. CASE other # id
    BY <1>7, <1>10, <1>13, <2>1 DEF Undisturbed
  <2>2. CASE other = id /\ field \in {"method", "url"}
    BY <1>1, <1>9, <1>10, <1>13, <2>2 DEF Forgotten, id
  <2>3. CASE other = id /\ field \notin {"method", "url"}
    <3>1. token'[id] = token[id]
      BY <1>3, <1>10, <2>3 DEF TokenAfterEdit
    <3>2. drafts'[id].method = drafts[id].method /\ drafts'[id].url = drafts[id].url
      BY <1>3, <1>6, <1>7, <2>3 DEF AllFields
    <3> QED BY <1>13, <2>3, <3>1, <3>2 DEF Undisturbed
  <2> QED BY <2>1, <2>2, <2>3
<1>18. OwnInv' /\ SentInv' /\ AnswerStep
  <2>1. \A other \in Ids : (~IsOpen(other))' => token'[other] = 0 /\ other \notin canceling'
    BY <1>2, <1>3, <1>10, <1>13, <1>14 DEF OwnInv
  <2> QED BY <1>2, <1>13, <1>17, <2>1, OperationsKept
<1>19. LibraryInv' /\ LinkInv'
  <2>1. \A other \in Ids : Steady(other) \/ (other = NoTab /\ Opened(other))
    BY <1>16
  <2>2. \A other \in Ids : (IsOpen(other))' => IsOpen(other) \/ (other = NoTab /\ Opened(other))
    BY <1>14
  <2>3. NoTab \in Ids \cup {NoTab}
    OBVIOUS
  <2> QED BY <1>2, <1>13, <2>1, <2>2, <2>3, KeptLinks
<1>20. CleanInv' /\ SaveInv'
  <2>1. CleanInv'
    BY <1>2, <1>13, <1>16, KeptClean
  <2>2. SaveInv'
    BY <1>2, <1>12, <1>13, <1>16, KeptSaves
  <2> QED BY <2>1, <2>2
<1>21. TypeInv'
  <2>1. /\ open' = open /\ tab' = tab /\ activeTabID' = activeTabID
        /\ recentlyClosed' = recentlyClosed /\ sends' = sends /\ canceling' = canceling
        /\ cancels' = cancels /\ library' = library /\ disk' = disk /\ locked' = locked
        /\ glossed' = glossed
    BY <1>1, <1>13 DEF tabVars, libraryVars
  <2>2. edits' \in 0..MaxEdits /\ actions' \in Nat
    BY <1>1, <1>2, <1>4 DEF TypeInv
  <2>3. drafts' \in [Ids -> Contents] /\ pending' \in [Ids -> SUBSET Fields]
        /\ token' \in [Ids -> 0..Len(sends)] /\ saving' \in Seq(SaveRecords)
    BY <1>7, <1>8, <1>10, <1>11
  <2> QED BY <1>2, <2>1, <2>2, <2>3 DEF TypeInv
<1> QED
  BY <1>15, <1>18, <1>19, <1>20, <1>21 DEF Good, WInv

LEMMA ToggleLiteralStep ==
  ASSUME WInv, ToggleLiteral
  PROVE  Good
<1> DEFINE id == activeTabID
           toggled == [Flushed EXCEPT ![id].content.literal = ~@, ![id].dirty = TRUE,
                                      ![id].answer = 0, ![id].checked = FALSE]
<1>1. /\ id # NoTab /\ ~tab[id].running /\ edits < MaxEdits /\ edits' = edits + 1
      /\ actions' = actions + 1 /\ Store(toggled, open)
      /\ saving' = [n \in 1..Len(saving) |->
           IF saving[n].tab = id THEN [saving[n] EXCEPT !.overtaken = TRUE] ELSE saving[n]]
      /\ UNCHANGED <<activeTabID, recentlyClosed, operationVars, libraryVars, used, glossed>>
  BY DEF ToggleLiteral, Act
<1>2. TypeInv /\ TabInv /\ OwnInv /\ SentInv /\ LibraryInv /\ LinkInv /\ CleanInv /\ SaveInv
  BY DEF WInv
<1>3. id \in Ids /\ IsOpen(id)
  BY <1>1, OpenFacts
<1>4. edits' \in 0..MaxEdits /\ actions' \in Nat
  BY <1>1, <1>2, WorkspaceAssumption DEF TypeInv
<1>5. Activates(open) /\ open \in Seq(Ids) /\ IsInjective(open)
      /\ \A other \in Ids : Contains(open, other) <=> IsOpen(other)
  BY <1>1, OpenFacts
<1>6. /\ Flushed[id] \in TabRecords /\ Flushed[id].content \in Contents
      /\ Flushed[id].content = drafts[id]
      /\ Flushed[id].link = tab[id].link /\ Flushed[id].running = tab[id].running
  BY <1>3, Drafted DEF TabRecords
<1>7. PICK b \in BOOLEAN : b = ~Flushed[id].content.literal
  OBVIOUS
<1>8. DOMAIN Flushed = Ids
  BY DEF Flushed
<1>9. \A other \in Ids : toggled[other] =
        IF other = id
        THEN [Flushed[id] EXCEPT !.content = [Flushed[id].content EXCEPT !.literal = b],
                                 !.dirty = TRUE, !.answer = 0, !.checked = FALSE]
        ELSE Flushed[other]
  BY <1>3, <1>7, <1>8
<1> HIDE DEF id, toggled
<1>10. /\ [Flushed[id].content EXCEPT !.literal = b] \in Contents
       /\ [Flushed[id].content EXCEPT !.literal = b].method = Flushed[id].content.method
       /\ [Flushed[id].content EXCEPT !.literal = b].url = Flushed[id].content.url
  BY <1>6 DEF Contents
<1>11. /\ toggled[id] \in TabRecords /\ toggled[id].link = tab[id].link
       /\ toggled[id].running = tab[id].running /\ toggled[id].dirty
       /\ toggled[id].answer = 0
       /\ toggled[id].content.method = drafts[id].method
       /\ toggled[id].content.url = drafts[id].url
  <2>1. PICK c \in Contents : c = [Flushed[id].content EXCEPT !.literal = b]
    BY <1>10
  <2>2. PICK f \in TabRecords : f = Flushed[id]
    BY <1>6
  <2>3. PICK yes \in BOOLEAN, no \in BOOLEAN, none \in Nat :
          yes = TRUE /\ no = FALSE /\ none = 0
    OBVIOUS
  <2>4. toggled[id] = [f EXCEPT !.content = c, !.dirty = yes, !.answer = none, !.checked = no]
    BY <1>3, <1>9, <2>1, <2>2, <2>3
  <2>5. /\ toggled[id] \in TabRecords /\ toggled[id].link = f.link
        /\ toggled[id].running = f.running /\ toggled[id].dirty
        /\ toggled[id].answer = 0 /\ toggled[id].content = c
    BY <2>1, <2>2, <2>3, <2>4 DEF TabRecords
  <2>6. toggled[id].link = tab[id].link
    BY <1>6, <2>2, <2>5
  <2>7. toggled[id].running = tab[id].running
    BY <1>6, <2>2, <2>5, Zenon
  <2>8. toggled[id].content.method = drafts[id].method
        /\ toggled[id].content.url = drafts[id].url
    <3>1. c.method = Flushed[id].content.method /\ c.url = Flushed[id].content.url
      BY <1>10, <2>1
    <3> QED BY <1>6, <2>5, <3>1
  <2> QED BY <2>5, <2>6, <2>7, <2>8
<1>12. \A other \in Ids : toggled[other] \in TabRecords
  BY <1>9, <1>11, Drafted
<1>13. /\ open' = open
       /\ \A other : (IsOpen(other))' <=> Contains(open, other)
       /\ tab' \in [Ids -> TabRecords] /\ drafts' \in [Ids -> Contents]
       /\ pending' \in [Ids -> SUBSET Fields]
       /\ \A other \in Ids : Contains(open, other) => tab'[other] = toggled[other]
       /\ \A other \in Ids : ~Contains(open, other) => tab'[other] = RequestTab
       /\ \A other \in Ids : drafts'[other] = tab'[other].content /\ pending'[other] = {}
  BY <1>1, <1>5, <1>12, StoreFacts
<1>14. TabInv'
  BY <1>1, <1>5, <1>12, StoreTabInv DEF Activates
<1>15. /\ saving' \in Seq(SaveRecords) /\ Len(saving') = Len(saving)
       /\ \A n \in 1..Len(saving) : saving'[n] =
            IF saving[n].tab = id THEN [saving[n] EXCEPT !.overtaken = TRUE] ELSE saving[n]
  <2>1. \A n \in 1..Len(saving) : saving[n] \in SaveRecords
    BY <1>2 DEF TypeInv
  <2>2. \A n \in 1..Len(saving) :
          (IF saving[n].tab = id THEN [saving[n] EXCEPT !.overtaken = TRUE] ELSE saving[n])
            \in SaveRecords
    BY <2>1 DEF SaveRecords
  <2> QED BY <1>1, <1>2, <2>2 DEF TypeInv
<1>16. SavesKept /\ \A n \in 1..Len(saving) : saving[n].tab = id => saving'[n].overtaken
  <2>1. \A n \in 1..Len(saving) : saving[n] \in SaveRecords
    BY <1>2 DEF TypeInv
  <2> QED BY <1>15, <2>1 DEF SavesKept, SaveRecords
<1>17. LibraryKept /\ sends' = sends /\ glossed \subseteq glossed' /\ token' = token
       /\ canceling' = canceling /\ cancels' = cancels
  BY <1>1 DEF LibraryKept, libraryVars, operationVars
<1>18. ASSUME NEW other \in Ids PROVE Steady(other) /\ Undisturbed(other)
  <2>1. CASE other = id
    <3>1. tab'[id] = toggled[id] /\ drafts'[id] = toggled[id].content
      BY <1>3, <1>5, <1>13
    <3>2. Steady(id)
      BY <1>11, <1>16, <3>1 DEF Steady
    <3>3. Undisturbed(id)
      BY <1>11, <1>17, <3>1 DEF Undisturbed
    <3> QED BY <2>1, <3>2, <3>3
  <2>2. CASE other # id
    <3>1. /\ Flushed[other].content = drafts[other] /\ Flushed[other].link = tab[other].link
          /\ Flushed[other].running = tab[other].running
          /\ Flushed[other].answer = tab[other].answer
          /\ Flushed[other].checked = tab[other].checked
          /\ tab[other].dirty => Flushed[other].dirty
          /\ ~Flushed[other].dirty => Flushed[other] = tab[other]
          /\ pending[other] = {} => Flushed[other] = tab[other]
          /\ ~IsOpen(other) => Flushed[other] = RequestTab
      BY Drafted
    <3>2. tab'[other] = Flushed[other] /\ drafts'[other] = drafts[other]
      BY <1>5, <1>9, <1>13, <2>2, <3>1
    <3> QED BY <1>13, <1>17, <3>1, <3>2 DEF Steady, Undisturbed
  <2> QED BY <2>1, <2>2
<1>19. OwnInv' /\ SentInv' /\ AnswerStep
  <2>1. \A other \in Ids : (~IsOpen(other))' => token'[other] = 0 /\ other \notin canceling'
    BY <1>2, <1>5, <1>13, <1>17 DEF OwnInv
  <2>2. \A other \in Ids : Undisturbed(other) \/ Forgotten(other)
    BY <1>18
  <2> QED BY <1>2, <1>17, <2>1, <2>2, OperationsKept
<1>20. LibraryInv' /\ LinkInv'
  <2>1. \A other \in Ids : Steady(other) \/ (other = NoTab /\ Opened(other))
    BY <1>18
  <2>2. \A other \in Ids : (IsOpen(other))' => IsOpen(other) \/ (other = NoTab /\ Opened(other))
    BY <1>5, <1>13
  <2>3. NoTab \in Ids \cup {NoTab}
    OBVIOUS
  <2> QED BY <1>2, <1>17, <2>1, <2>2, <2>3, KeptLinks
<1>21. CleanInv' /\ SaveInv'
  <2>1. CleanInv'
    BY <1>2, <1>17, <1>18, KeptClean
  <2>2. SaveInv'
    BY <1>2, <1>16, <1>17, <1>18, KeptSaves
  <2> QED BY <2>1, <2>2
<1>22. TypeInv'
  <2>1. /\ activeTabID' = activeTabID /\ recentlyClosed' = recentlyClosed
        /\ library' = library /\ disk' = disk /\ locked' = locked /\ glossed' = glossed
    BY <1>1 DEF libraryVars
  <2> QED BY <1>2, <1>4, <1>13, <1>15, <1>17, <2>1 DEF TypeInv
<1> QED
  BY <1>14, <1>19, <1>20, <1>21, <1>22 DEF Good, WInv

-----------------------------------------------------------------------------
(* Sends and their answers *)

LEMMA SendStep ==
  ASSUME WInv, Send
  PROVE  Good
<1> DEFINE id == activeTabID
           n == Len(sends) + 1
           sent == [tab |-> id, at |-> "sent", content |-> Flushed[id].content,
                    openApi |-> Flushed[id].openApi]
           tabs == [Flushed EXCEPT ![id].running = TRUE, ![id].answer = 0,
                                   ![id].checked = FALSE]
<1>1. /\ id # NoTab /\ ~tab[id].running /\ actions' = actions + 1
      /\ sends' = Append(sends, sent) /\ token' = [token EXCEPT ![id] = n]
      /\ canceling' = canceling \ {id} /\ Store(tabs, open)
      /\ UNCHANGED <<activeTabID, recentlyClosed, cancels, libraryVars, saving,
                     edits, used, glossed>>
  BY DEF Send, Act
<1>2. TypeInv /\ TabInv /\ OwnInv /\ SentInv
  BY DEF WInv
<1>3. id \in Ids /\ IsOpen(id)
  BY <1>1, OpenFacts
<1>4. Activates(open) /\ open \in Seq(Ids) /\ IsInjective(open)
      /\ \A other \in Ids : Contains(open, other) <=> IsOpen(other)
  BY <1>1, OpenFacts
<1>5. /\ Flushed[id] \in TabRecords /\ Flushed[id].content \in Contents
      /\ Flushed[id].content = drafts[id]
  BY <1>3, Drafted DEF TabRecords
<1>6. sent \in SendRecords /\ sent.tab = id /\ sent.at = "sent" /\ sent.content = drafts[id]
  BY <1>3, <1>5 DEF SendRecords, TabRecords
<1>7. DOMAIN Flushed = Ids
  BY DEF Flushed
<1>8. \A other \in Ids : tabs[other] =
        IF other = id THEN [Flushed[id] EXCEPT !.running = TRUE, !.answer = 0, !.checked = FALSE]
                      ELSE Flushed[other]
  BY <1>3, <1>7
<1> HIDE DEF id, n, sent, tabs
<1>9. \A other \in Ids : /\ tabs[other] \in TabRecords
                         /\ tabs[other].link = Flushed[other].link
                         /\ tabs[other].content = Flushed[other].content
                         /\ tabs[other].dirty = Flushed[other].dirty
  <2>1. /\ tabs[id] \in TabRecords /\ tabs[id].link = Flushed[id].link
        /\ tabs[id].content = Flushed[id].content /\ tabs[id].dirty = Flushed[id].dirty
    <3>1. PICK f \in TabRecords : f = Flushed[id]
      BY <1>5
    <3>2. PICK yes \in BOOLEAN, no \in BOOLEAN, none \in Nat :
            yes = TRUE /\ no = FALSE /\ none = 0
      OBVIOUS
    <3>3. tabs[id] = [f EXCEPT !.running = yes, !.answer = none, !.checked = no]
      BY <1>3, <1>8, <3>1, <3>2
    <3>4. tabs[id] \in TabRecords /\ tabs[id].link = f.link /\ tabs[id].content = f.content
          /\ tabs[id].dirty = f.dirty
      BY <3>1, <3>3, <3>2 DEF TabRecords
    <3>5. tabs[id].link = Flushed[id].link
      BY <3>1, <3>4
    <3>6. tabs[id].content = Flushed[id].content
      BY <3>1, <3>4
    <3>7. tabs[id].dirty = Flushed[id].dirty
      BY <3>1, <3>4, Zenon
    <3> QED BY <3>4, <3>5, <3>6, <3>7
  <2>2. \A other \in Ids : Flushed[other] \in TabRecords
    BY Drafted
  <2> QED BY <1>8, <2>1, <2>2
<1>10. tabs[id].running /\ tabs[id].answer = 0
  BY <1>3, <1>5, <1>8 DEF TabRecords
<1>11. LibraryKept /\ SavesKept
  BY <1>1 DEF LibraryKept, SavesKept, libraryVars
<1>12. /\ TabInv' /\ LibraryInv' /\ LinkInv' /\ CleanInv' /\ SaveInv' /\ Rendered
       /\ \A other \in Ids : (IsOpen(other))' <=> IsOpen(other)
       /\ \A other \in Ids : IF IsOpen(other) THEN tab'[other] = tabs[other]
                             ELSE tab'[other] = RequestTab /\ tab[other] = RequestTab
       /\ \A other \in Ids : drafts'[other] = drafts[other]
  BY <1>1, <1>4, <1>9, <1>11, RenderStep
<1>13. /\ sends \in Seq(SendRecords) /\ Len(sends) \in Nat /\ n = Len(sends) + 1 /\ n \in Nat
       /\ token \in [Ids -> 0..Len(sends)]
  BY <1>2 DEF TypeInv, n
<1>14. /\ sends' \in Seq(SendRecords) /\ Len(sends') = n /\ sends'[n] = sent
       /\ \A m \in 1..Len(sends) : sends'[m] = sends[m]
  BY <1>1, <1>6, <1>13
<1>15. \A other \in Ids : token'[other] = IF other = id THEN n ELSE token[other]
  BY <1>1, <1>13
<1>16. token' \in [Ids -> 0..n]
  <2>1. \A other \in Ids : token[other] \in 0..n
    BY <1>13
  <2>2. n \in 0..n
    BY <1>13
  <2> QED BY <1>1, <1>13, <2>1, <2>2
<1>17. ASSUME NEW other \in Ids, other # id
       PROVE  /\ tab'[other].running = tab[other].running
              /\ tab'[other].answer = tab[other].answer
              /\ tab'[other].checked = tab[other].checked
  <2>1. Flushed[other].running = tab[other].running
        /\ Flushed[other].answer = tab[other].answer
        /\ Flushed[other].checked = tab[other].checked
    BY Drafted
  <2> QED BY <1>8, <1>12, <1>17, <2>1
<1>18. tab'[id].running /\ tab'[id].answer = 0
  BY <1>3, <1>10, <1>12
<1>19. OwnInv'
  <2>1. \A other \in Ids : (~IsOpen(other))' => token'[other] = 0 /\ other \notin canceling'
    BY <1>1, <1>2, <1>3, <1>12, <1>15 DEF OwnInv
  <2>2. ASSUME NEW other \in Ids, token'[other] # 0
        PROVE  /\ sends'[token'[other]].tab = other
               /\ \A m \in token'[other] + 1..Len(sends') : sends'[m].tab # other
    <3>1. CASE other = id
      <4>1. token'[other] = n
        BY <1>15, <3>1
      <4>2. \A m \in n + 1..n : FALSE
        BY <1>13
      <4> QED BY <1>6, <1>14, <3>1, <4>1, <4>2
    <3>2. CASE other # id
      <4>1. token'[other] = token[other] /\ token[other] \in 1..Len(sends)
        BY <1>13, <1>15, <2>2, <3>2
      <4>2. /\ sends[token[other]].tab = other
            /\ \A m \in token[other] + 1..Len(sends) : sends[m].tab # other
        BY <1>2, <4>1 DEF OwnInv
      <4>3. \A m \in token[other] + 1..n : m = n \/ (m \in token[other] + 1..Len(sends) /\ m \in 1..Len(sends))
        BY <1>13, <4>1
      <4> QED BY <1>6, <1>14, <3>2, <4>1, <4>2, <4>3
    <3> QED BY <3>1, <3>2
  <2>3. ASSUME NEW other \in Ids
        PROVE  tab'[other].running <=> token'[other] # 0 /\ sends'[token'[other]].at = "sent"
    <3>1. CASE other = id
      BY <1>6, <1>13, <1>14, <1>15, <1>18, <3>1
    <3>2. CASE other # id
      <4>1. token'[other] = token[other] /\ (token[other] # 0 => token[other] \in 1..Len(sends))
        BY <1>13, <1>15, <3>2
      <4>2. tab[other].running <=> token[other] # 0 /\ sends[token[other]].at = "sent"
        BY <1>2 DEF OwnInv
      <4> QED BY <1>14, <1>17, <3>2, <4>1, <4>2
    <3> QED BY <3>1, <3>2
  <2>4. \A other \in Ids : tab'[other].running => tab'[other].answer = 0
    BY <1>2, <1>17, <1>18 DEF OwnInv
  <2> QED BY <2>1, <2>2, <2>3, <2>4 DEF OwnInv
<1>20. SentInv'
  <2> SUFFICES ASSUME NEW other \in Ids, token'[other] # 0, other \notin glossed'
               PROVE  /\ drafts'[other].method = sends'[token'[other]].content.method
                      /\ drafts'[other].url = sends'[token'[other]].content.url
    BY DEF SentInv
  <2>1. CASE other = id
    BY <1>6, <1>12, <1>14, <1>15, <2>1
  <2>2. CASE other # id
    <3>1. token'[other] = token[other] /\ token[other] \in 1..Len(sends)
      BY <1>13, <1>15, <2>2
    <3>2. other \notin glossed
      BY <1>1
    <3> QED BY <1>2, <1>12, <1>14, <3>1, <3>2 DEF SentInv
  <2> QED BY <2>1, <2>2
<1>21. AnswerStep
  BY <1>17, <1>18 DEF AnswerStep
<1>22. TypeInv'
  <2>1. /\ recentlyClosed' = recentlyClosed /\ cancels' = cancels /\ library' = library
        /\ disk' = disk /\ locked' = locked /\ saving' = saving /\ edits' = edits
        /\ glossed' = glossed
    BY <1>1 DEF libraryVars
  <2>2. actions' \in Nat /\ canceling' \subseteq Ids
    BY <1>1, <1>2 DEF TypeInv
  <2> QED BY <1>2, <1>12, <1>14, <1>16, <2>1, <2>2 DEF TypeInv, Rendered
<1> QED
  BY <1>12, <1>19, <1>20, <1>21, <1>22 DEF Good, WInv

\* Only the answer to the current operation of a tab reaches it, which ends.
LEMMA AnswerKept ==
  ASSUME WInv, NEW n \in 1..Len(sends), NEW shown \in BOOLEAN,
         NEW next \in {"checking", "done"}, Answer(n, shown, next),
         shown \/ sends[n].at = "sent"
  PROVE  Good
<1> DEFINE id == sends[n].tab
<1>1. /\ sends' = [sends EXCEPT ![n].at = next]
      /\ UNCHANGED <<activeTabID, recentlyClosed, token, cancels, libraryVars, saving,
                     counters, glossed>>
  BY DEF Answer
<1>2. TypeInv /\ TabInv /\ OwnInv /\ SentInv
  BY DEF WInv
<1>3. /\ sends \in Seq(SendRecords) /\ Len(sends) \in Nat /\ token \in [Ids -> 0..Len(sends)]
      /\ sends[n] \in SendRecords /\ id \in Ids
  <2>1. sends \in Seq(SendRecords) /\ token \in [Ids -> 0..Len(sends)]
    BY <1>2 DEF TypeInv
  <2>2. sends[n] \in SendRecords /\ Len(sends) \in Nat
    BY <2>1
  <2> QED BY <2>1, <2>2 DEF SendRecords
<1>4. \A m \in 1..Len(sends) : sends[m] \in SendRecords
  BY <1>3
<1>5. /\ sends' \in Seq(SendRecords) /\ Len(sends') = Len(sends)
      /\ \A m \in 1..Len(sends) :
           /\ sends'[m].tab = sends[m].tab /\ sends'[m].content = sends[m].content
           /\ sends'[m].at = IF m = n THEN next ELSE sends[m].at
  <2>1. [sends[n] EXCEPT !.at = next] \in SendRecords
    BY <1>3 DEF SendRecords
  <2>2. sends' = [sends EXCEPT ![n] = [sends[n] EXCEPT !.at = next]]
    BY <1>1
  <2>3. sends' \in Seq(SendRecords) /\ Len(sends') = Len(sends)
        /\ \A m \in 1..Len(sends) : sends'[m] =
             IF m = n THEN [sends[n] EXCEPT !.at = next] ELSE sends[m]
    BY <1>3, <2>1, <2>2
  <2> QED BY <1>3, <2>3 DEF SendRecords
<1>6. \A other \in Ids : token[other] # 0 => token[other] \in 1..Len(sends)
  BY <1>3
<1>7. \A other \in Ids : token[other] = n => other = id
  <2>1. n # 0
    BY <1>3
  <2> QED BY <1>2, <2>1 DEF OwnInv
<1> HIDE DEF id
<1>8. \A other \in Ids : token'[other] # 0 =>
        /\ sends'[token'[other]].tab = other
        /\ \A m \in token'[other] + 1..Len(sends') : sends'[m].tab # other
  <2> SUFFICES ASSUME NEW other \in Ids, token[other] # 0
               PROVE  /\ sends'[token[other]].tab = other
                      /\ \A m \in token[other] + 1..Len(sends) : sends'[m].tab # other
    BY <1>1, <1>5
  <2>1. token[other] \in 1..Len(sends)
    BY <1>6
  <2>2. \A m \in token[other] + 1..Len(sends) : m \in 1..Len(sends)
    BY <1>3, <2>1
  <2> QED BY <1>2, <1>5, <2>1, <2>2 DEF OwnInv
<1>9. CASE OperationIsCurrent(n)
  <2> DEFINE tabs == [Flushed EXCEPT ![id].running = FALSE,
                          ![id].answer = IF shown THEN n ELSE @,
                          ![id].checked = shown /\ next = "done"]
  <2>1. /\ Store(tabs, open)
        /\ canceling' = IF next = "done" THEN canceling \ {id} ELSE canceling
    BY <1>9 DEF Answer, id
  <2>2. token[id] = n /\ n # 0 /\ n \in Nat
    BY <1>3, <1>9 DEF OperationIsCurrent, id
  <2>3. IsOpen(id)
    BY <1>2, <1>3, <2>2 DEF OwnInv
  <2>4. Activates(open) /\ open \in Seq(Ids) /\ IsInjective(open)
        /\ \A other \in Ids : Contains(open, other) <=> IsOpen(other)
    BY <1>1, OpenFacts
  <2>5. Flushed[id] \in TabRecords /\ Flushed[id].answer = tab[id].answer
    BY <1>3, Drafted
  <2>6. PICK c \in BOOLEAN : c = (shown /\ next = "done")
    OBVIOUS
  <2>7. PICK a \in Nat : a = IF shown THEN n ELSE Flushed[id].answer
    BY <2>2, <2>5 DEF TabRecords
  <2>8. DOMAIN Flushed = Ids
    BY DEF Flushed
  <2>9. \A other \in Ids : tabs[other] =
          IF other = id THEN [Flushed[id] EXCEPT !.running = FALSE, !.answer = a, !.checked = c]
                        ELSE Flushed[other]
    BY <1>3, <2>6, <2>7, <2>8
  <2> HIDE DEF tabs
  <2>10. /\ tabs[id] \in TabRecords /\ tabs[id].link = Flushed[id].link
         /\ tabs[id].content = Flushed[id].content /\ tabs[id].dirty = Flushed[id].dirty
         /\ ~tabs[id].running /\ tabs[id].answer = a
    <3>1. PICK no \in BOOLEAN, old \in TabRecords : no = FALSE /\ old = Flushed[id]
      BY <2>5
    <3>2. tabs[id] = [old EXCEPT !.running = no, !.answer = a, !.checked = c]
      BY <1>3, <2>9, <3>1
    <3>3. /\ tabs[id] \in TabRecords /\ tabs[id].link = old.link
          /\ tabs[id].content = old.content /\ tabs[id].dirty = old.dirty
          /\ tabs[id].running = no /\ tabs[id].answer = a
      BY <3>2 DEF TabRecords
    <3> QED BY <3>1, <3>3
  <2>11. \A other \in Ids : /\ tabs[other] \in TabRecords
                            /\ tabs[other].link = Flushed[other].link
                            /\ tabs[other].content = Flushed[other].content
                            /\ tabs[other].dirty = Flushed[other].dirty
    <3>1. \A other \in Ids : Flushed[other] \in TabRecords
      BY Drafted
    <3> QED BY <2>9, <2>10, <3>1
  <2>12. LibraryKept /\ SavesKept
    BY <1>1 DEF LibraryKept, SavesKept, libraryVars, counters
  <2>13. /\ TabInv' /\ LibraryInv' /\ LinkInv' /\ CleanInv' /\ SaveInv' /\ Rendered
         /\ \A other \in Ids : (IsOpen(other))' <=> IsOpen(other)
         /\ \A other \in Ids : IF IsOpen(other) THEN tab'[other] = tabs[other]
                               ELSE tab'[other] = RequestTab /\ tab[other] = RequestTab
         /\ \A other \in Ids : drafts'[other] = drafts[other]
    BY <2>1, <2>4, <2>11, <2>12, RenderStep
  <2>14. ASSUME NEW other \in Ids, other # id
         PROVE  /\ tab'[other].running = tab[other].running
                /\ tab'[other].answer = tab[other].answer
                /\ tab'[other].checked = tab[other].checked
    <3>1. Flushed[other].running = tab[other].running
          /\ Flushed[other].answer = tab[other].answer
          /\ Flushed[other].checked = tab[other].checked
      BY Drafted
    <3> QED BY <2>9, <2>13, <2>14, <3>1
  <2>15. tab'[id] = tabs[id]
    BY <1>3, <2>3, <2>13
  <2>16. OwnInv'
    <3>1. \A other \in Ids : (~IsOpen(other))' => token'[other] = 0 /\ other \notin canceling'
      BY <1>1, <1>2, <2>1, <2>13 DEF OwnInv
    <3>2. ASSUME NEW other \in Ids
          PROVE  tab'[other].running <=> token'[other] # 0 /\ sends'[token'[other]].at = "sent"
      <4>1. CASE other = id
        <5>1. sends'[n].at # "sent"
          BY <1>5
        <5> QED BY <1>1, <2>2, <2>10, <2>15, <4>1, <5>1
      <4>2. CASE other # id
        <5>1. token[other] # n /\ (token[other] # 0 => token[other] \in 1..Len(sends))
          BY <1>6, <1>7, <4>2
        <5>2. tab[other].running <=> token[other] # 0 /\ sends[token[other]].at = "sent"
          BY <1>2 DEF OwnInv
        <5> QED BY <1>1, <1>5, <2>14, <4>2, <5>1, <5>2
      <4> QED BY <4>1, <4>2
    <3>3. \A other \in Ids : tab'[other].running => tab'[other].answer = 0
      BY <1>2, <2>10, <2>14, <2>15 DEF OwnInv
    <3> QED BY <1>8, <3>1, <3>2, <3>3 DEF OwnInv
  <2>17. SentInv'
    BY <1>1, <1>2, <1>5, <1>6, <2>13 DEF SentInv
  <2>18. AnswerStep
    <3> SUFFICES ASSUME NEW other \in Ids, other \notin glossed, tab'[other].answer # 0,
                        <<tab'[other].answer, tab'[other].checked>>
                          # <<tab[other].answer, tab[other].checked>>
                 PROVE  /\ sends[tab'[other].answer].tab = other
                        /\ \A m \in tab'[other].answer + 1..Len(sends) : sends[m].tab # other
                        /\ drafts'[other].method = sends[tab'[other].answer].content.method
                        /\ drafts'[other].url = sends[tab'[other].answer].content.url
      BY DEF AnswerStep
    <3>1. other = id
      BY <2>14
    <3>2. tab'[other].answer = a
      BY <2>10, <2>15, <3>1
    <3>3. shown
      <4>1. ~shown => tab[id].running
        BY <1>2, <1>3, <2>2 DEF OwnInv
      <4>2. ~shown => a = 0
        BY <1>2, <1>3, <2>5, <2>7, <4>1 DEF OwnInv
      <4> QED BY <3>2, <4>2
    <3>4. a = n
      BY <2>7, <3>3
    <3>5. tab'[other].answer = n /\ token[other] = n
      BY <2>2, <3>1, <3>2, <3>4
    <3>6. sends[n].tab = other /\ \A m \in n + 1..Len(sends) : sends[m].tab # other
      BY <1>2, <2>2, <3>5 DEF OwnInv
    <3>7. drafts'[other].method = sends[n].content.method
          /\ drafts'[other].url = sends[n].content.url
      BY <1>2, <2>2, <2>13, <3>5 DEF SentInv
    <3> QED BY <3>5, <3>6, <3>7
  <2>19. TypeInv'
    <3>1. /\ recentlyClosed' = recentlyClosed /\ cancels' = cancels /\ library' = library
          /\ disk' = disk /\ locked' = locked /\ saving' = saving /\ edits' = edits
          /\ glossed' = glossed /\ actions' = actions /\ token' = token
      BY <1>1 DEF libraryVars, counters
    <3>2. canceling' \subseteq Ids
      BY <1>2, <2>1 DEF TypeInv
    <3> QED BY <1>2, <1>5, <2>13, <3>1, <3>2 DEF TypeInv, Rendered
  <2> QED
    BY <2>13, <2>16, <2>17, <2>18, <2>19 DEF Good, WInv
<1>10. CASE ~OperationIsCurrent(n)
  <2>1. UNCHANGED <<open, tab, drafts, pending, canceling>>
    BY <1>10 DEF Answer
  <2>2. \A other \in Ids : token[other] # n
    BY <1>7, <1>10 DEF OperationIsCurrent, id
  <2>3. OwnInv'
    <3>1. \A other \in Ids : (~IsOpen(other))' => token'[other] = 0 /\ other \notin canceling'
      BY <1>1, <1>2, <2>1 DEF OwnInv, IsOpen
    <3>2. \A other \in Ids :
            tab'[other].running <=> token'[other] # 0 /\ sends'[token'[other]].at = "sent"
      BY <1>1, <1>2, <1>5, <1>6, <2>1, <2>2 DEF OwnInv
    <3>3. \A other \in Ids : tab'[other].running => tab'[other].answer = 0
      BY <1>2, <2>1 DEF OwnInv
    <3> QED BY <1>8, <3>1, <3>2, <3>3 DEF OwnInv
  <2>4. SentInv'
    BY <1>1, <1>2, <1>5, <1>6, <2>1 DEF SentInv
  <2>5. AnswerStep
    BY <2>1 DEF AnswerStep
  <2>6. TypeInv'
    BY <1>1, <1>2, <1>5, <2>1 DEF TypeInv, libraryVars, counters
  <2>7. TabInv'
    BY <1>1, <1>2, <2>1 DEF TabInv, IsOpen, IsInjective
  <2>8. LibraryInv' /\ LinkInv'
    BY <1>1, <2>1 DEF WInv, LibraryInv, LinkInv, IsOpen, libraryVars, counters
  <2>9. CleanInv' /\ SaveInv'
    BY <1>1, <2>1 DEF WInv, CleanInv, SaveInv, libraryVars, counters
  <2> QED
    BY <2>3, <2>4, <2>5, <2>6, <2>7, <2>8, <2>9 DEF Good, WInv
<1> QED
  BY <1>9, <1>10

LEMMA AnswersStep ==
  ASSUME WInv, NEW n \in 1..Len(sends), Responded(n) \/ Failed(n) \/ Validated(n)
  PROVE  Good
<1>1. CASE Responded(n)
  BY <1>1, AnswerKept DEF Responded
<1>2. CASE Failed(n)
  BY <1>2, AnswerKept DEF Failed
<1>3. CASE Validated(n)
  BY <1>3, AnswerKept DEF Validated
<1> QED
  BY <1>1, <1>2, <1>3

-----------------------------------------------------------------------------
(* Tabs that are closed *)

\* The saves in flight keep their tab and their request.
LEMMA DetachedFacts ==
  ASSUME TypeInv, NEW objects, NEW tabs, NEW ids,
         \A id \in Ids : objects[id].content \in Contents
  PROVE  LET saves == Detached(objects, tabs, ids)
         IN  /\ saves \in Seq(SaveRecords) /\ Len(saves) = Len(saving)
             /\ \A n \in 1..Len(saving) :
                  /\ saves[n].tab = saving[n].tab /\ saves[n].request = saving[n].request
                  /\ saves[n].overtaken = saving[n].overtaken
<1> DEFINE saves == Detached(objects, tabs, ids)
           detached(n) == /\ saving[n].draft = Live
                          /\ \/ ~Contains(ids, saving[n].tab)
                             \/ tabs[saving[n].tab].content # objects[saving[n].tab].content
<1>1. saves = [n \in 1..Len(saving) |->
                 IF detached(n) THEN [saving[n] EXCEPT !.draft = objects[saving[n].tab].content]
                                ELSE saving[n]]
  BY DEF Detached
<1> HIDE DEF saves, detached
<1>2. saving \in Seq(SaveRecords) /\ \A n \in 1..Len(saving) : saving[n] \in SaveRecords
  BY DEF TypeInv
<1>3. ASSUME NEW n \in 1..Len(saving)
      PROVE  LET save == IF detached(n)
                         THEN [saving[n] EXCEPT !.draft = objects[saving[n].tab].content]
                         ELSE saving[n]
             IN  /\ save \in SaveRecords
                 /\ save.tab = saving[n].tab /\ save.request = saving[n].request
                 /\ save.overtaken = saving[n].overtaken
  <2>1. saving[n] \in SaveRecords /\ saving[n].tab \in Ids
    BY <1>2 DEF SaveRecords
  <2>2. PICK c \in Contents : c = objects[saving[n].tab].content
    BY <2>1
  <2>3. PICK s \in SaveRecords : s = saving[n]
    BY <2>1
  <2>4. /\ [s EXCEPT !.draft = c] \in SaveRecords /\ [s EXCEPT !.draft = c].tab = s.tab
        /\ [s EXCEPT !.draft = c].request = s.request
        /\ [s EXCEPT !.draft = c].overtaken = s.overtaken
    BY <2>2, <2>3 DEF SaveRecords
  <2>5. CASE detached(n)
    BY <2>2, <2>3, <2>4, <2>5
  <2>6. CASE ~detached(n)
    BY <2>1, <2>6
  <2> QED BY <2>5, <2>6
<1>4. \A n \in 1..Len(saving) : /\ saves[n] \in SaveRecords
                                /\ saves[n].tab = saving[n].tab
                                /\ saves[n].request = saving[n].request
                                /\ saves[n].overtaken = saving[n].overtaken
  BY <1>1, <1>3
<1>5. saves \in Seq(SaveRecords) /\ Len(saves) = Len(saving)
  <2>1. Len(saving) \in Nat
    BY <1>2
  <2>2. \A n \in 1..Len(saving) : saves[n] \in SaveRecords
    BY <1>4
  <2> QED BY <1>1, <2>1, <2>2
<1> QED
  BY <1>4, <1>5 DEF saves

\* Some of the open tabs, in their order.
LEMMA SomeOpen ==
  ASSUME WInv, NEW P \in SUBSET (1..Len(open))
  PROVE  /\ Entries(open, P) \in Seq(Ids) /\ IsInjective(Entries(open, P))
         /\ \A k \in 1..Len(Entries(open, P)) : \E n \in P : Entries(open, P)[k] = open[n]
         /\ \A n \in P : \E k \in 1..Len(Entries(open, P)) : Entries(open, P)[k] = open[n]
<1> DEFINE e == Entries(open, P)
<1>1. open \in Seq(Ids) /\ IsInjective(open)
  BY OpenFacts
<1>2. /\ e \in Seq(Ids)
      /\ \E place \in [1..Len(e) -> P] :
           /\ \A k \in 1..Len(e) : e[k] = open[place[k]]
           /\ \A j, k \in 1..Len(e) : place[j] = place[k] => j = k
           /\ \A n \in P : \E k \in 1..Len(e) : place[k] = n
  BY <1>1, EntriesFacts
<1> HIDE DEF e
<1>3. PICK place \in [1..Len(e) -> P] :
        /\ \A k \in 1..Len(e) : e[k] = open[place[k]]
        /\ \A j, k \in 1..Len(e) : place[j] = place[k] => j = k
        /\ \A n \in P : \E k \in 1..Len(e) : place[k] = n
  BY <1>2
<1>4. IsInjective(e)
  <2> SUFFICES ASSUME NEW j \in 1..Len(e), NEW k \in 1..Len(e), e[j] = e[k] PROVE j = k
    BY <1>2 DEF IsInjective
  <2>1. place[j] \in 1..Len(open) /\ place[k] \in 1..Len(open)
        /\ open[place[j]] = open[place[k]]
    BY <1>3
  <2>2. place[j] = place[k]
    BY <1>1, <2>1 DEF IsInjective
  <2> QED BY <1>3, <2>2
<1>5. \A k \in 1..Len(e) : \E n \in P : e[k] = open[n]
  BY <1>3
<1>6. \A n \in P : \E k \in 1..Len(e) : e[k] = open[n]
  BY <1>3
<1> QED
  BY <1>2, <1>4, <1>5, <1>6 DEF e

\* kept is the sequence all cut after max places.
Trimmed(kept, all, max) ==
  kept = SubSeq(all, 1, IF Len(all) < max THEN Len(all) ELSE max)

\* The at most max places of kept hold the records from the last to the first, then those
\* kept earlier.
ReversedBefore(kept, records, earlier, max, R) ==
  /\ kept \in Seq(R) /\ Len(kept) <= max
  /\ \A n \in 1..Len(kept) :
       IF n <= Len(records)
       THEN Len(records) - n + 1 \in 1..Len(records)
            /\ kept[n] = records[Len(records) - n + 1]
       ELSE n - Len(records) \in 1..Len(earlier)
            /\ kept[n] = earlier[n - Len(records)]

\* The tabs that are closed come first, then those closed before.
LEMMA ClosedFirst ==
  ASSUME NEW R, NEW records \in Seq(R), NEW earlier \in Seq(R), NEW max \in Nat,
         NEW kept, Trimmed(kept, Reverse(records) \o earlier, max)
  PROVE  ReversedBefore(kept, records, earlier, max, R)
<1> DEFINE rev == Reverse(records)
           L == Len(records)
           all == rev \o earlier
           k == IF Len(all) < max THEN Len(all) ELSE max
<1>1. L \in Nat /\ Len(earlier) \in Nat
  OBVIOUS
<1>2. rev = [n \in 1..L |-> records[(L - n) + 1]]
  BY DEF Reverse
<1>3. \A n \in 1..L : L - n + 1 \in 1..L /\ (L - n) + 1 = L - n + 1
  BY <1>1
<1>4. \A n \in 1..L : records[L - n + 1] \in R
  BY <1>3
<1>5. rev \in Seq(R) /\ Len(rev) = L /\ \A n \in 1..L : rev[n] = records[L - n + 1]
  <2>1. \A n \in 1..L : records[(L - n) + 1] \in R
    BY <1>3, <1>4
  <2> QED BY <1>1, <1>2, <1>3, <2>1
<1> HIDE DEF rev
<1>6. all = rev \o earlier
  OBVIOUS
<1> HIDE DEF all
<1>7. /\ all \in Seq(R) /\ Len(all) = L + Len(earlier)
      /\ \A n \in 1..L + Len(earlier) : all[n] = IF n <= L THEN rev[n] ELSE earlier[n - L]
  <2>1. rev \in Seq(R) /\ earlier \in Seq(R) /\ Len(rev) = L
    BY <1>5
  <2>2. /\ rev \o earlier \in Seq(R) /\ Len(rev \o earlier) = Len(rev) + Len(earlier)
        /\ \A n \in 1..Len(rev) + Len(earlier) :
             (rev \o earlier)[n] = IF n <= Len(rev) THEN rev[n] ELSE earlier[n - Len(rev)]
    BY <2>1, ConcatProperties
  <2> HIDE DEF L
  <2> QED BY <1>6, <2>1, <2>2
<1> HIDE DEF L
<1>8. k \in Nat /\ k <= max /\ k <= Len(all)
  BY <1>1, <1>7
<1>9. kept = SubSeq(all, 1, k)
  BY DEF Trimmed, all, rev
<1> HIDE DEF k
<1>10. kept \in Seq(R) /\ Len(kept) = k /\ \A n \in 1..k : kept[n] = all[n]
  BY <1>7, <1>8, <1>9
<1>11. ASSUME NEW n \in 1..k
       PROVE  IF n <= L THEN L - n + 1 \in 1..L /\ kept[n] = records[L - n + 1]
                        ELSE n - L \in 1..Len(earlier) /\ kept[n] = earlier[n - L]
  <2>1. n \in 1..L + Len(earlier) /\ n \in Nat
    BY <1>1, <1>7, <1>8
  <2>2. CASE n <= L
    <3>1. n \in 1..L
      BY <1>1, <2>1, <2>2
    <3>2. kept[n] = all[n] /\ all[n] = rev[n]
      BY <1>7, <1>10, <2>1, <2>2
    <3>3. rev[n] = records[L - n + 1]
      BY <1>5, <3>1
    <3>4. L - n + 1 \in 1..L
      BY <1>3, <3>1
    <3> QED BY <2>2, <3>2, <3>3, <3>4
  <2>3. CASE ~(n <= L)
    <3>1. n - L \in 1..Len(earlier)
      BY <1>1, <2>1, <2>3
    <3> QED BY <1>7, <1>10, <2>1, <2>3, <3>1
  <2> QED BY <2>2, <2>3
<1> QED
  BY <1>8, <1>10, <1>11 DEF L, ReversedBefore

LEMMA LeaveStep ==
  ASSUME WInv, NEW gone, NEW active, Leave(gone, active),
         \A id \in Ids : id \in gone => ~tab[id].running,
         \/ active \in Ids /\ IsOpen(active) /\ active \notin gone
         \/ active = NoTab /\ \A id \in Ids : IsOpen(id) => id \in gone
  PROVE  Good
<1> DEFINE ids == Entries(open, {n \in 1..Len(open) : open[n] \notin gone})
           closing == Entries(open, {n \in 1..Len(open) : open[n] \in gone})
           records == [n \in 1..Len(closing) |->
                         [id |-> closing[n], tab |-> Flushed[closing[n]]]]
           all == Reverse(records) \o recentlyClosed
           L == Len(closing)
<1>1. /\ actions' = actions + 1 /\ Store(Flushed, ids)
      /\ saving' = Detached(Flushed, Flushed, ids)
      /\ token' = [id \in Ids |-> IF Contains(ids, id) THEN token[id] ELSE 0]
      /\ canceling' = {id \in canceling : Contains(ids, id)}
      /\ recentlyClosed' = SubSeq(all, 1, IF Len(all) < MaxClosed THEN Len(all) ELSE MaxClosed)
      /\ activeTabID' = active
      /\ UNCHANGED <<sends, cancels, libraryVars, edits, used, glossed>>
  BY DEF Leave, Act, Retire
<1>2. TypeInv /\ TabInv /\ OwnInv /\ SentInv /\ LibraryInv /\ LinkInv /\ CleanInv /\ SaveInv
  BY DEF WInv
<1>3. /\ ids \in Seq(Ids) /\ IsInjective(ids)
      /\ \A id \in Ids : Contains(ids, id) <=> IsOpen(id) /\ id \notin gone
  <2> DEFINE P == {n \in 1..Len(open) : open[n] \notin gone}
  <2>1. P \in SUBSET (1..Len(open))
    OBVIOUS
  <2>2. /\ Entries(open, P) \in Seq(Ids) /\ IsInjective(Entries(open, P))
        /\ \A k \in 1..Len(Entries(open, P)) : \E n \in P : Entries(open, P)[k] = open[n]
        /\ \A n \in P : \E k \in 1..Len(Entries(open, P)) : Entries(open, P)[k] = open[n]
    BY <2>1, SomeOpen
  <2>3. ids = Entries(open, P)
    OBVIOUS
  <2>4. \A n \in 1..Len(open) : n \in P <=> open[n] \notin gone
    OBVIOUS
  <2> HIDE DEF P, ids
  <2>5. /\ ids \in Seq(Ids) /\ IsInjective(ids)
        /\ \A k \in 1..Len(ids) : \E n \in P : ids[k] = open[n]
        /\ \A n \in P : \E k \in 1..Len(ids) : ids[k] = open[n]
    BY <2>2, <2>3
  <2>6. ASSUME NEW id \in Ids, Contains(ids, id) PROVE IsOpen(id) /\ id \notin gone
    BY <2>1, <2>4, <2>5, <2>6 DEF Contains, IsOpen
  <2>7. ASSUME NEW id \in Ids, IsOpen(id), id \notin gone PROVE Contains(ids, id)
    <3>1. PICK n \in 1..Len(open) : open[n] = id
      BY <2>7 DEF IsOpen
    <3>2. n \in P
      BY <2>4, <2>7, <3>1
    <3> QED BY <2>5, <3>1, <3>2 DEF Contains
  <2> QED BY <2>5, <2>6, <2>7
<1>4. /\ closing \in Seq(Ids) /\ IsInjective(closing) /\ L \in Nat
      /\ \A k \in 1..L : closing[k] \in Ids /\ closing[k] \in gone
  <2> DEFINE P == {n \in 1..Len(open) : open[n] \in gone}
  <2>1. P \in SUBSET (1..Len(open))
    OBVIOUS
  <2>2. /\ Entries(open, P) \in Seq(Ids) /\ IsInjective(Entries(open, P))
        /\ \A k \in 1..Len(Entries(open, P)) : \E n \in P : Entries(open, P)[k] = open[n]
    BY <2>1, SomeOpen
  <2>3. closing = Entries(open, P)
    OBVIOUS
  <2>4. \A n \in P : open[n] \in gone
    OBVIOUS
  <2> HIDE DEF P, closing
  <2> QED BY <2>2, <2>3, <2>4
<1> HIDE DEF ids, closing, L
<1>5. \A id \in Ids : /\ Flushed[id] \in TabRecords
                      /\ Flushed[id].content = drafts[id] /\ Flushed[id].content \in Contents
                      /\ Flushed[id].link = tab[id].link
                      /\ Flushed[id].running = tab[id].running
                      /\ Flushed[id].answer = tab[id].answer
                      /\ Flushed[id].checked = tab[id].checked
                      /\ tab[id].dirty => Flushed[id].dirty
                      /\ ~Flushed[id].dirty => Flushed[id] = tab[id]
                      /\ pending[id] = {} => Flushed[id] = tab[id]
                      /\ ~IsOpen(id) => Flushed[id] = RequestTab
  BY Drafted DEF TabRecords
<1>6. /\ records \in Seq(ClosedRecords) /\ Len(records) = L
      /\ \A k \in 1..L : /\ records[k].id = closing[k]
                         /\ records[k].tab = Flushed[closing[k]]
  <2>1. L = Len(closing)
    BY DEF L
  <2>2. \A k \in 1..L : [id |-> closing[k], tab |-> Flushed[closing[k]]] \in ClosedRecords
    BY <1>4, <1>5 DEF ClosedRecords
  <2> QED BY <1>4, <2>1, <2>2
<1>7. /\ recentlyClosed \in Seq(ClosedRecords) /\ MaxClosed \in Nat
      /\ \A n \in 1..Len(recentlyClosed) :
           recentlyClosed[n].id \in Ids /\ recentlyClosed[n].tab \in TabRecords
  BY <1>2, ClosedTypes, WorkspaceAssumption DEF TypeInv
<1> HIDE DEF records
<1>8. /\ recentlyClosed' \in Seq(ClosedRecords) /\ Len(recentlyClosed') <= MaxClosed
      /\ \A n \in 1..Len(recentlyClosed') :
           IF n <= Len(records)
           THEN Len(records) - n + 1 \in 1..Len(records)
                /\ recentlyClosed'[n] = records[Len(records) - n + 1]
           ELSE n - Len(records) \in 1..Len(recentlyClosed)
                /\ recentlyClosed'[n] = recentlyClosed[n - Len(records)]
  <2>1. records \in Seq(ClosedRecords) /\ recentlyClosed \in Seq(ClosedRecords)
        /\ MaxClosed \in Nat
    BY <1>6, <1>7
  <2>2. Trimmed(recentlyClosed', Reverse(records) \o recentlyClosed, MaxClosed)
    BY <1>1 DEF Trimmed
  <2>3. ReversedBefore(recentlyClosed', records, recentlyClosed, MaxClosed, ClosedRecords)
    BY <2>1, <2>2, ClosedFirst
  <2> QED BY <2>3 DEF ReversedBefore
<1>9. ASSUME NEW n \in 1..Len(recentlyClosed'), n <= L
      PROVE  /\ L - n + 1 \in 1..L
             /\ recentlyClosed'[n].id = closing[L - n + 1]
             /\ recentlyClosed'[n].tab = Flushed[closing[L - n + 1]]
             /\ recentlyClosed'[n].id \in Ids /\ recentlyClosed'[n].id \in gone
             /\ recentlyClosed'[n].tab = Flushed[recentlyClosed'[n].id]
  BY <1>4, <1>6, <1>8, <1>9
<1>10. ASSUME NEW n \in 1..Len(recentlyClosed'), ~(n <= L)
       PROVE  n - L \in 1..Len(recentlyClosed) /\ recentlyClosed'[n] = recentlyClosed[n - L]
  BY <1>6, <1>8, <1>10
<1> HIDE DEF all
<1>11. /\ open' = ids
       /\ \A id : (IsOpen(id))' <=> Contains(ids, id)
       /\ tab' \in [Ids -> TabRecords] /\ drafts' \in [Ids -> Contents]
       /\ pending' \in [Ids -> SUBSET Fields]
       /\ \A id \in Ids : Contains(ids, id) => tab'[id] = Flushed[id]
       /\ \A id \in Ids : ~Contains(ids, id) => tab'[id] = RequestTab
       /\ \A id \in Ids : drafts'[id] = tab'[id].content /\ pending'[id] = {}
  BY <1>1, <1>3, <1>5, StoreFacts
<1>12. (IF ids = <<>> THEN activeTabID' = NoTab ELSE Contains(ids, activeTabID'))
       /\ activeTabID' \in Ids \cup {NoTab}
  <2>1. \A k \in 1..Len(ids) : ids[k] \in Ids /\ Contains(ids, ids[k])
    BY <1>3 DEF Contains
  <2>2. CASE active \in Ids /\ IsOpen(active) /\ active \notin gone
    <3>1. Contains(ids, active)
      BY <1>3, <2>2
    <3>2. ids # <<>>
      BY <3>1 DEF Contains
    <3> QED BY <1>1, <2>2, <3>1, <3>2
  <2>3. CASE active = NoTab /\ \A id \in Ids : IsOpen(id) => id \in gone
    <3>1. \A id \in Ids : ~Contains(ids, id)
      BY <1>3, <2>3
    <3>2. Len(ids) = 0
      BY <1>3, <2>1, <3>1
    <3>3. ids = <<>>
      BY <1>3, <3>2
    <3> QED BY <1>1, <2>3, <3>3
  <2> QED BY <2>2, <2>3
<1>13. TabInv'
  BY <1>1, <1>3, <1>5, <1>12, StoreTabInv
<1>14. /\ sends' = sends /\ glossed' = glossed /\ library' = library /\ disk' = disk
       /\ locked' = locked /\ used' = used /\ edits' = edits /\ cancels' = cancels
  BY <1>1 DEF libraryVars
<1>15. \A id \in Ids : IF Contains(ids, id)
                       THEN /\ tab'[id] = Flushed[id] /\ drafts'[id] = drafts[id]
                            /\ token'[id] = token[id]
                       ELSE tab'[id] = RequestTab /\ token'[id] = 0 /\ id \notin canceling'
  BY <1>1, <1>5, <1>11
<1>16. OwnInv' /\ SentInv' /\ AnswerStep
  <2>1. \A id \in Ids : (~IsOpen(id))' => token'[id] = 0 /\ id \notin canceling'
    BY <1>11, <1>15
  <2>2. ASSUME NEW id \in Ids PROVE Undisturbed(id) \/ Forgotten(id)
    <3>1. CASE Contains(ids, id)
      BY <1>5, <1>15, <3>1 DEF Undisturbed
    <3>2. CASE ~Contains(ids, id)
      <4>1. ~RequestTab.running /\ RequestTab.answer = 0
        BY DEF RequestTab
      <4> QED BY <1>15, <3>2, <4>1 DEF Forgotten
    <3> QED BY <3>1, <3>2
  <2> QED BY <1>2, <1>14, <2>1, <2>2, OperationsKept
<1>17. LibraryInv'
  BY <1>2, <1>14 DEF LibraryInv
<1>18. RequestTab.link = NoRequest /\ ~RequestTab.running
  BY DEF RequestTab
<1>19. \A id \in Ids : tab'[id].link # NoRequest =>
         Contains(ids, id) /\ tab'[id].link = tab[id].link
  BY <1>5, <1>15, <1>18
<1>20. ASSUME NEW n \in 1..Len(recentlyClosed')
       PROVE  LET closed == recentlyClosed'[n]
              IN  /\ ~closed.tab.running
                  /\ closed.id \in used' \cup {Endpoint}
                  /\ closed.tab.link # NoRequest =>
                       /\ library'[closed.tab.link] # NoRequest
                       /\ tab'[closed.id].link # closed.tab.link
                       /\ \A m \in 1..Len(recentlyClosed') :
                            recentlyClosed'[m].id = closed.id
                              /\ recentlyClosed'[m].tab.link = closed.tab.link => m = n
  <2> DEFINE closed == recentlyClosed'[n]
  <2>1. CASE n <= L
    <3>1. /\ L - n + 1 \in 1..L /\ closed.id = closing[L - n + 1]
          /\ closed.id \in Ids /\ closed.id \in gone /\ closed.tab = Flushed[closed.id]
      BY <1>9, <2>1
    <3> HIDE DEF closed
    <3>2. ~closed.tab.running /\ closed.tab.link = tab[closed.id].link
      BY <1>5, <3>1
    <3>3. closed.id \in used \cup {Endpoint}
      <4>1. \A k \in 1..L : IsOpen(closing[k])
        <5> DEFINE P == {j \in 1..Len(open) : open[j] \in gone}
        <5>1. P \in SUBSET (1..Len(open))
          OBVIOUS
        <5>2. \A k \in 1..Len(Entries(open, P)) : \E j \in P : Entries(open, P)[k] = open[j]
          BY <5>1, SomeOpen
        <5> QED BY <5>2 DEF closing, L, IsOpen
      <4>2. IsOpen(closed.id)
        BY <3>1, <4>1
      <4> QED BY <1>2, <3>1, <4>2 DEF LinkInv
    <3>4. ~Contains(ids, closed.id)
      BY <1>3, <3>1
    <3>5. closed.tab.link # NoRequest => library[closed.tab.link] # NoRequest
      BY <1>2, <3>1, <3>2 DEF LinkInv
    <3>6. closed.tab.link # NoRequest => tab'[closed.id].link # closed.tab.link
      BY <1>15, <1>18, <3>1, <3>4
    <3>7. ASSUME closed.tab.link # NoRequest, NEW m \in 1..Len(recentlyClosed'),
                 recentlyClosed'[m].id = closed.id,
                 recentlyClosed'[m].tab.link = closed.tab.link
          PROVE  m = n
      <4>1. CASE m <= L
        <5>1. L - m + 1 \in 1..L /\ recentlyClosed'[m].id = closing[L - m + 1]
          BY <1>9, <4>1
        <5>2. closing[L - m + 1] = closing[L - n + 1] /\ L = Len(closing)
          BY <3>1, <3>7, <5>1 DEF L
        <5>3. L - m + 1 = L - n + 1
          <6>1. PICK x \in 1..L, y \in 1..L : x = L - m + 1 /\ y = L - n + 1
            BY <3>1, <5>1
          <6>2. closing[x] = closing[y] /\ DOMAIN closing = 1..L
            BY <1>4, <5>2, <6>1
          <6>3. \A i, j \in 1..L : closing[i] = closing[j] => i = j
            BY <1>4, <6>2 DEF IsInjective
          <6>4. x = y
            BY <6>2, <6>3
          <6> QED BY <6>1, <6>4
        <5>4. m \in Nat /\ n \in Nat
          BY <1>8
        <5> QED BY <1>4, <5>3, <5>4
      <4>2. CASE ~(m <= L)
        <5>1. m - L \in 1..Len(recentlyClosed)
              /\ recentlyClosed'[m] = recentlyClosed[m - L]
          BY <1>10, <4>2
        <5> QED BY <1>2, <3>2, <3>7, <5>1 DEF LinkInv
      <4> QED BY <4>1, <4>2
    <3> QED BY <1>14, <3>2, <3>3, <3>5, <3>6, <3>7 DEF closed
  <2>2. CASE ~(n <= L)
    <3>1. n - L \in 1..Len(recentlyClosed) /\ closed = recentlyClosed[n - L]
      BY <1>10, <2>2
    <3> HIDE DEF closed
    <3>2. /\ ~closed.tab.running /\ closed.id \in used \cup {Endpoint}
          /\ closed.tab.link # NoRequest =>
               /\ library[closed.tab.link] # NoRequest
               /\ tab[closed.id].link # closed.tab.link
               /\ \A m \in 1..Len(recentlyClosed) :
                    recentlyClosed[m].id = closed.id
                      /\ recentlyClosed[m].tab.link = closed.tab.link => m = n - L
      BY <1>2, <3>1 DEF LinkInv
    <3>3. closed.id \in Ids
      BY <1>7, <3>1
    <3>4. closed.tab.link # NoRequest => tab'[closed.id].link # closed.tab.link
      BY <1>19, <3>2, <3>3
    <3>5. ASSUME closed.tab.link # NoRequest, NEW m \in 1..Len(recentlyClosed'),
                 recentlyClosed'[m].id = closed.id,
                 recentlyClosed'[m].tab.link = closed.tab.link
          PROVE  m = n
      <4>1. CASE m <= L
        <5>1. recentlyClosed'[m].id \in Ids
              /\ recentlyClosed'[m].tab = Flushed[recentlyClosed'[m].id]
          BY <1>9, <4>1
        <5>2. tab[closed.id].link = closed.tab.link
          BY <1>5, <3>5, <5>1
        <5> QED BY <3>2, <3>5, <5>2
      <4>2. CASE ~(m <= L)
        <5>1. m - L \in 1..Len(recentlyClosed)
              /\ recentlyClosed'[m] = recentlyClosed[m - L]
          BY <1>10, <4>2
        <5>2. m - L = n - L
          BY <3>2, <3>5, <5>1
        <5>3. m \in Nat /\ n \in Nat
          BY <1>8
        <5> QED BY <1>4, <5>2, <5>3
      <4> QED BY <4>1, <4>2
    <3> QED BY <1>14, <3>2, <3>4, <3>5 DEF closed
  <2> QED BY <2>1, <2>2
<1>21. LinkInv'
  <2>1. \A id \in Ids : tab'[id].link # NoRequest => library'[tab'[id].link] # NoRequest
    BY <1>2, <1>14, <1>19 DEF LinkInv
  <2>2. \A id, other \in Ids :
          tab'[id].link = tab'[other].link /\ tab'[id].link # NoRequest => id = other
    BY <1>2, <1>19 DEF LinkInv
  <2>3. \A id \in Ids : (IsOpen(id))' => id \in used' \cup {Endpoint}
    BY <1>2, <1>3, <1>11, <1>14 DEF LinkInv
  <2> QED BY <1>20, <2>1, <2>2, <2>3 DEF LinkInv
<1>22. CleanInv'
  <2>1. ASSUME NEW id \in Ids, ~tab'[id].dirty, tab'[id].link # NoRequest, id \notin glossed'
        PROVE  library'[tab'[id].link] = tab'[id].content
    <3>1. tab'[id] = Flushed[id] /\ Flushed[id] = tab[id]
      BY <1>5, <1>15, <1>19, <2>1
    <3> QED BY <1>2, <1>14, <2>1, <3>1 DEF CleanInv
  <2>2. ASSUME NEW n \in 1..Len(recentlyClosed')
        PROVE  LET closed == recentlyClosed'[n]
               IN  ~closed.tab.dirty /\ closed.tab.link # NoRequest /\ closed.id \notin glossed'
                     => library'[closed.tab.link] = closed.tab.content
    <3>1. CASE n <= L
      <4>1. recentlyClosed'[n].id \in Ids
            /\ recentlyClosed'[n].tab = Flushed[recentlyClosed'[n].id]
        BY <1>9, <3>1
      <4> QED BY <1>2, <1>5, <1>14, <4>1 DEF CleanInv
    <3>2. CASE ~(n <= L)
      <4>1. n - L \in 1..Len(recentlyClosed) /\ recentlyClosed'[n] = recentlyClosed[n - L]
        BY <1>10, <3>2
      <4> QED BY <1>2, <1>14, <4>1 DEF CleanInv
    <3> QED BY <3>1, <3>2
  <2> QED BY <2>1, <2>2 DEF CleanInv
<1>23. /\ saving' \in Seq(SaveRecords) /\ Len(saving') = Len(saving)
       /\ \A n \in 1..Len(saving) :
            /\ saving'[n].tab = saving[n].tab /\ saving'[n].request = saving[n].request
            /\ saving'[n].overtaken = saving[n].overtaken
  <2>1. \A id \in Ids : Flushed[id].content \in Contents
    BY <1>5
  <2> QED BY <1>1, <1>2, <2>1, DetachedFacts
<1>24. SaveInv'
  <2> SUFFICES ASSUME NEW n \in 1..Len(saving)
               PROVE  LET save == saving'[n]
                      IN  /\ save.request \in used' /\ save.tab \in used' \cup {Endpoint}
                          /\ ~save.overtaken =>
                               /\ tab'[save.tab].link = save.request =>
                                    /\ pending'[save.tab] = {}
                                    /\ library'[save.request]
                                         = Sanitized(tab'[save.tab].content)
                               /\ \A m \in 1..Len(recentlyClosed') :
                                    recentlyClosed'[m].id = save.tab
                                      /\ recentlyClosed'[m].tab.link = save.request
                                      => library'[save.request]
                                           = Sanitized(recentlyClosed'[m].tab.content)
    BY <1>23 DEF SaveInv
  <2> DEFINE id == saving[n].tab
             r == saving[n].request
  <2>1. id \in Ids /\ r # NoRequest
    BY <1>2, SavingTypes
  <2>2. r \in used /\ id \in used \cup {Endpoint}
    BY <1>2 DEF SaveInv
  <2>3. ASSUME ~saving[n].overtaken
        PROVE  /\ tab[id].link = r => /\ pending[id] = {}
                                      /\ library[r] = Sanitized(tab[id].content)
               /\ \A m \in 1..Len(recentlyClosed) :
                    recentlyClosed[m].id = id /\ recentlyClosed[m].tab.link = r
                      => library[r] = Sanitized(recentlyClosed[m].tab.content)
    BY <1>2, <2>3 DEF SaveInv
  <2> HIDE DEF id, r
  <2>4. ASSUME ~saving[n].overtaken, tab'[id].link = r
        PROVE  pending'[id] = {} /\ library[r] = Sanitized(tab'[id].content)
    <3>1. Contains(ids, id) /\ tab[id].link = r
      BY <1>19, <2>1, <2>4
    <3>2. tab'[id] = tab[id]
      BY <1>5, <1>15, <2>1, <2>3, <2>4, <3>1
    <3> QED BY <1>11, <2>1, <2>3, <2>4, <3>1, <3>2
  <2>5. ASSUME ~saving[n].overtaken, NEW m \in 1..Len(recentlyClosed'),
               recentlyClosed'[m].id = id, recentlyClosed'[m].tab.link = r
        PROVE  library[r] = Sanitized(recentlyClosed'[m].tab.content)
    <3>1. CASE m <= L
      <4>1. recentlyClosed'[m].tab = Flushed[id]
        BY <1>9, <2>5, <3>1
      <4>2. tab[id].link = r
        BY <1>5, <2>1, <2>5, <4>1
      <4>3. Flushed[id] = tab[id]
        BY <1>5, <2>1, <2>3, <2>5, <4>2
      <4> QED BY <2>3, <2>5, <4>1, <4>2, <4>3
    <3>2. CASE ~(m <= L)
      <4>1. m - L \in 1..Len(recentlyClosed) /\ recentlyClosed'[m] = recentlyClosed[m - L]
        BY <1>10, <3>2
      <4> QED BY <2>3, <2>5, <4>1
    <3> QED BY <3>1, <3>2
  <2>6. saving'[n].tab = id /\ saving'[n].request = r
    BY <1>23 DEF id, r
  <2>7. saving'[n].overtaken = saving[n].overtaken
    BY <1>23
  <2> QED BY <1>14, <2>2, <2>4, <2>5, <2>6, <2>7
<1>25. TypeInv'
  <2>1. token' \in [Ids -> 0..Len(sends)] /\ canceling' \subseteq Ids /\ actions' \in Nat
    BY <1>1, <1>2 DEF TypeInv
  <2> QED BY <1>2, <1>3, <1>8, <1>11, <1>12, <1>14, <1>23, <2>1 DEF TypeInv
<1> QED
  BY <1>13, <1>16, <1>17, <1>21, <1>22, <1>24, <1>25 DEF Good, WInv

LEMMA CloseTabStep ==
  ASSUME WInv, NEW n \in 1..Len(open), CloseTab(n)
  PROVE  Good
<1> DEFINE active == IF activeTabID = open[n] THEN Fallback(n) ELSE activeTabID
           rest == RemoveAt(open, n)
<1>1. ~tab[open[n]].running /\ Leave({open[n]}, active)
  BY DEF CloseTab
<1>2. /\ open \in Seq(Ids) /\ IsInjective(open) /\ open[n] \in Ids /\ open # <<>>
      /\ activeTabID # NoTab => activeTabID \in Ids /\ IsOpen(activeTabID)
      /\ open # <<>> => activeTabID # NoTab
  <2>1. /\ open \in Seq(Ids) /\ IsInjective(open)
        /\ activeTabID # NoTab => activeTabID \in Ids /\ IsOpen(activeTabID)
    BY OpenFacts
  <2>2. open[n] \in Ids /\ open # <<>>
    BY <2>1
  <2>3. open # <<>> => IsOpen(activeTabID)
    BY DEF WInv, TabInv
  <2>4. IsOpen(activeTabID) => activeTabID \in Ids
    BY <2>1 DEF IsOpen
  <2> QED BY <2>1, <2>2, <2>3, <2>4, WorkspaceAssumption
<1>3. /\ rest \in Seq(Ids) /\ Len(rest) = Len(open) - 1
      /\ \A k \in 1..Len(open) - 1 : rest[k] = open[IF k < n THEN k ELSE k + 1]
  BY <1>2, RemoveFacts
<1> HIDE DEF rest
<1>4. \A k \in 1..Len(rest) : rest[k] \in Ids /\ IsOpen(rest[k]) /\ rest[k] # open[n]
  <2> SUFFICES ASSUME NEW k \in 1..Len(rest)
               PROVE  rest[k] \in Ids /\ IsOpen(rest[k]) /\ rest[k] # open[n]
    OBVIOUS
  <2> DEFINE j == IF k < n THEN k ELSE k + 1
  <2>1. j \in 1..Len(open) /\ j # n /\ k \in 1..Len(open) - 1
    BY <1>2, <1>3
  <2>2. rest[k] = open[j]
    BY <1>3, <2>1
  <2> HIDE DEF j
  <2> QED BY <1>2, <1>3, <2>1, <2>2 DEF IsOpen, IsInjective
<1>5. rest = <<>> => \A id \in Ids : IsOpen(id) => id = open[n]
  <2> SUFFICES ASSUME rest = <<>>, NEW m \in 1..Len(open) PROVE m = n
    BY DEF IsOpen
  <2>1. Len(open) = 1
    BY <1>2, <1>3
  <2> QED BY <2>1
<1>6. \/ active \in Ids /\ IsOpen(active) /\ active \notin {open[n]}
      \/ active = NoTab /\ \A id \in Ids : IsOpen(id) => id \in {open[n]}
  <2>1. CASE activeTabID # open[n]
    BY <1>2, <2>1
  <2>2. CASE activeTabID = open[n] /\ rest = <<>>
    <3>1. Fallback(n) = NoTab
      BY <2>2 DEF Fallback, rest
    <3> QED BY <1>5, <2>2, <3>1
  <2>3. CASE activeTabID = open[n] /\ rest # <<>>
    <3>1. Fallback(n) = rest[IF n <= Len(rest) THEN n ELSE Len(rest)]
      BY <2>3 DEF Fallback, rest
    <3>2. (IF n <= Len(rest) THEN n ELSE Len(rest)) \in 1..Len(rest)
      BY <1>3, <2>3
    <3> QED BY <1>4, <2>3, <3>1, <3>2
  <2> QED BY <2>1, <2>2, <2>3
<1> HIDE DEF active
<1>7. \A id \in Ids : id \in {open[n]} => ~tab[id].running
  BY <1>1
<1> QED
  BY <1>1, <1>6, <1>7, LeaveStep

LEMMA CloseOtherTabsStep ==
  ASSUME WInv, NEW id \in Ids, CloseOtherTabs(id)
  PROVE  Good
<1> DEFINE gone == {other \in Ids \ {id} : IsOpen(other) /\ Closable(other)}
<1>1. IsOpen(id) /\ Leave(gone, id)
  BY DEF CloseOtherTabs
<1>2. id \notin gone /\ \A other \in Ids : other \in gone => ~tab[other].running
  BY DEF Closable
<1> HIDE DEF gone
<1> QED
  BY <1>1, <1>2, LeaveStep

LEMMA CloseTabsToRightStep ==
  ASSUME WInv, NEW n \in 1..Len(open), CloseTabsToRight(n)
  PROVE  Good
<1> DEFINE gone == {open[m] : m \in {k \in n + 1..Len(open) : Closable(open[k])}}
           active == IF activeTabID \in gone THEN open[n] ELSE activeTabID
<1>1. Leave(gone, active)
  BY DEF CloseTabsToRight
<1>2. /\ open \in Seq(Ids) /\ IsInjective(open)
      /\ activeTabID # NoTab => activeTabID \in Ids /\ IsOpen(activeTabID)
  BY OpenFacts
<1>3. open[n] \in Ids /\ IsOpen(open[n]) /\ open # <<>>
  BY <1>2 DEF IsOpen
<1>4. activeTabID \in Ids /\ IsOpen(activeTabID)
  BY <1>2, <1>3 DEF WInv, TabInv, IsOpen
<1>5. open[n] \notin gone
  <2> SUFFICES ASSUME NEW m \in n + 1..Len(open) PROVE open[m] # open[n]
    OBVIOUS
  <2>1. m \in 1..Len(open) /\ m # n
    BY <1>2
  <2> QED BY <1>2, <2>1 DEF IsInjective
<1>6. \A id \in Ids : id \in gone => ~tab[id].running
  BY DEF Closable
<1> HIDE DEF gone
<1>7. active \in Ids /\ IsOpen(active) /\ active \notin gone
  BY <1>3, <1>4, <1>5
<1> HIDE DEF active
<1> QED
  BY <1>1, <1>6, <1>7, LeaveStep

-----------------------------------------------------------------------------
(* A closed tab that is opened again *)

LEMMA SmallestPlace ==
  ASSUME NEW N \in Nat, NEW P \in SUBSET (1..N), P # {}
  PROVE  \E least \in P : \A p \in P : least <= p
<1>1. /\ Cardinality(P) \in Nat
      /\ \A n \in P : Rank(P, n) \in 1..Cardinality(P)
      /\ \A k \in 1..Cardinality(P) : \E n \in P : Rank(P, n) = k
  BY RanksExact
<1>2. 1 \in 1..Cardinality(P)
  <2>1. PICK n \in P : TRUE
    OBVIOUS
  <2> QED BY <1>1, <2>1
<1>3. PICK least \in P : Rank(P, least) = 1
  BY <1>1, <1>2
<1>4. ASSUME NEW p \in P PROVE least <= p
  <2>1. p \in Nat /\ least \in Nat /\ Rank(P, p) \in Nat /\ Rank(P, p) >= 1
    BY <1>1
  <2>2. p < least => Rank(P, p) < Rank(P, least)
    BY RanksGrow
  <2> QED BY <1>3, <2>1, <2>2
<1> QED
  BY <1>4

LEMMA ReopenClosedTabStep ==
  ASSUME WInv, ReopenClosedTab
  PROVE  Good
<1> DEFINE closed == recentlyClosed[1]
           same == InPlaceOf(closed)
           position(id) == CHOOSE n \in 1..Len(open) : open[n] = id
           L == Len(recentlyClosed)
<1>1. /\ actions' = actions + 1 /\ recentlyClosed # <<>>
      /\ recentlyClosed' = Tail(recentlyClosed)
      /\ \/ /\ same = {}
            /\ Store([Flushed EXCEPT ![closed.id] = closed.tab], Append(open, closed.id))
            /\ activeTabID' = closed.id
         \/ /\ same # {}
            /\ Store(Flushed, open)
            /\ activeTabID' = CHOOSE id \in same :
                 \A other \in same : position(id) <= position(other)
      /\ UNCHANGED <<operationVars, libraryVars, saving, edits, used, glossed>>
  BY DEF ReopenClosedTab, Act
<1>2. TypeInv /\ TabInv /\ OwnInv /\ SentInv /\ LibraryInv /\ LinkInv /\ CleanInv /\ SaveInv
  BY DEF WInv
<1>3. /\ recentlyClosed \in Seq(ClosedRecords) /\ L \in Nat /\ L # 0 /\ 1 \in 1..L
      /\ recentlyClosed' \in Seq(ClosedRecords) /\ Len(recentlyClosed') = L - 1
      /\ \A n \in 1..L - 1 : recentlyClosed'[n] = recentlyClosed[n + 1]
      /\ \A n \in 1..L - 1 : n + 1 \in 1..L /\ n + 1 # 1 /\ n \in Nat
  BY <1>1, <1>2 DEF TypeInv
<1>4. closed.id \in Ids /\ closed.tab \in TabRecords
  BY <1>2, <1>3, ClosedTypes
<1>5. \A id \in Ids : /\ Flushed[id] \in TabRecords
                      /\ Flushed[id].content = drafts[id]
                      /\ Flushed[id].link = tab[id].link
                      /\ Flushed[id].running = tab[id].running
                      /\ Flushed[id].answer = tab[id].answer
                      /\ Flushed[id].checked = tab[id].checked
                      /\ tab[id].dirty => Flushed[id].dirty
                      /\ ~Flushed[id].dirty => Flushed[id] = tab[id]
                      /\ pending[id] = {} => Flushed[id] = tab[id]
                      /\ ~IsOpen(id) => Flushed[id] = RequestTab
  BY Drafted
<1>6. /\ ~closed.tab.running /\ closed.id \in used \cup {Endpoint}
      /\ closed.tab.link # NoRequest =>
           /\ library[closed.tab.link] # NoRequest
           /\ tab[closed.id].link # closed.tab.link
           /\ \A m \in 1..L : recentlyClosed[m].id = closed.id
                                /\ recentlyClosed[m].tab.link = closed.tab.link => m = 1
  BY <1>2, <1>3 DEF LinkInv
<1>7. RequestTab.link = NoRequest /\ ~RequestTab.running /\ RequestTab.answer = 0
  BY DEF RequestTab
<1>8. same = {id \in Ids : /\ IsOpen(id)
                           /\ \/ id = closed.id
                              \/ closed.tab.link # NoRequest /\ tab[id].link = closed.tab.link}
  BY DEF InPlaceOf
<1> DEFINE reopened == same = {}
           ids == IF reopened THEN Append(open, closed.id) ELSE open
           tabs == IF reopened THEN [Flushed EXCEPT ![closed.id] = closed.tab] ELSE Flushed
<1>9. Store(tabs, ids)
  BY <1>1
<1>10. reopened => ~IsOpen(closed.id)
  BY <1>4, <1>8
<1>11. reopened /\ closed.tab.link # NoRequest =>
         \A id \in Ids : tab[id].link # closed.tab.link
  <2> SUFFICES ASSUME reopened, closed.tab.link # NoRequest, NEW id \in Ids
               PROVE  tab[id].link # closed.tab.link
    OBVIOUS
  <2>1. CASE IsOpen(id)
    BY <1>8, <2>1
  <2>2. CASE ~IsOpen(id)
    BY <1>2, <1>7, <2>2 DEF TabInv
  <2> QED BY <2>1, <2>2
<1>12. (IF ids = <<>> THEN activeTabID' = NoTab ELSE Contains(ids, activeTabID'))
       /\ activeTabID' \in Ids
  <2>1. CASE reopened
    <3>1. activeTabID' = closed.id
      BY <1>1, <2>1
    <3>2. Append(open, closed.id) # <<>> /\ Contains(Append(open, closed.id), closed.id)
      BY <1>4, <1>10, <2>1, AppendFacts
    <3> QED BY <1>4, <2>1, <3>1, <3>2
  <2>2. CASE ~reopened
    <3>1. activeTabID' = CHOOSE id \in same :
                           \A other \in same : position(id) <= position(other)
      BY <1>1, <2>2
    <3>2. \A id \in same : IsOpen(id) /\ id \in Ids
      BY <1>8
    <3>3. \A id \in same : position(id) \in 1..Len(open)
      BY <3>2 DEF IsOpen
    <3>4. \E id \in same : \A other \in same : position(id) <= position(other)
      <4> DEFINE places == {position(id) : id \in same}
      <4>1. places \subseteq Nat /\ places # {}
        <5>1. \A id \in same : position(id) \in Nat
          BY <3>3
        <5> HIDE DEF same, position
        <5> QED BY <2>2, <5>1
      <4>2. PICK least \in places : \A p \in places : least <= p
        <5>1. places \in SUBSET (1..Len(open)) /\ Len(open) \in Nat
          <6>1. Len(open) \in Nat
            BY <1>2 DEF TypeInv
          <6> HIDE DEF same, position
          <6> QED BY <3>3, <6>1
        <5> HIDE DEF places
        <5> QED BY <4>1, <5>1, SmallestPlace
      <4> HIDE DEF same, position
      <4> QED BY <4>2
    <3>5. activeTabID' \in same
      <4> HIDE DEF same, position
      <4> QED BY <3>1, <3>4
    <3>6. Contains(open, activeTabID') /\ open # <<>>
      <4>1. activeTabID' \in Ids /\ IsOpen(activeTabID')
        BY <3>2, <3>5
      <4> QED BY <4>1, OpenFacts
    <3> QED BY <2>2, <3>2, <3>5, <3>6
  <2> QED BY <2>1, <2>2
<1> HIDE DEF same
<1>13. /\ ids \in Seq(Ids) /\ IsInjective(ids)
       /\ \A id \in Ids : Contains(ids, id) <=> IsOpen(id) \/ (reopened /\ id = closed.id)
  <2>1. CASE reopened
    BY <1>4, <1>10, <2>1, AppendFacts
  <2>2. CASE ~reopened
    BY <2>2, OpenFacts
  <2> QED BY <2>1, <2>2
<1>14. \A id \in Ids : tabs[id] = IF reopened /\ id = closed.id THEN closed.tab ELSE Flushed[id]
  <2>1. DOMAIN Flushed = Ids
    BY DEF Flushed
  <2> QED BY <1>4, <2>1
<1>15. \A id \in Ids : tabs[id] \in TabRecords
  BY <1>4, <1>5, <1>14
<1> HIDE DEF ids, tabs, reopened, closed
<1>16. /\ open' = ids
       /\ \A id : (IsOpen(id))' <=> Contains(ids, id)
       /\ tab' \in [Ids -> TabRecords] /\ drafts' \in [Ids -> Contents]
       /\ pending' \in [Ids -> SUBSET Fields]
       /\ \A id \in Ids : Contains(ids, id) => tab'[id] = tabs[id]
       /\ \A id \in Ids : ~Contains(ids, id) => tab'[id] = RequestTab
       /\ \A id \in Ids : drafts'[id] = tab'[id].content /\ pending'[id] = {}
  BY <1>9, <1>13, <1>15, StoreFacts
<1>17. TabInv'
  BY <1>9, <1>12, <1>13, <1>15, StoreTabInv
<1>18. \A id \in Ids : IF reopened /\ id = closed.id THEN tab'[id] = closed.tab
                        ELSE tab'[id] = Flushed[id] /\ drafts'[id] = drafts[id]
  BY <1>5, <1>13, <1>14, <1>16
<1>19. /\ sends' = sends /\ glossed' = glossed /\ library' = library /\ disk' = disk
       /\ locked' = locked /\ used' = used /\ edits' = edits /\ cancels' = cancels
       /\ token' = token /\ canceling' = canceling /\ saving' = saving
  BY <1>1 DEF libraryVars, operationVars
<1>20. OwnInv' /\ SentInv' /\ AnswerStep
  <2>1. \A id \in Ids : (~IsOpen(id))' => token'[id] = 0 /\ id \notin canceling'
    BY <1>2, <1>13, <1>16, <1>19 DEF OwnInv
  <2>2. ASSUME NEW id \in Ids PROVE Undisturbed(id) \/ Forgotten(id)
    <3>1. CASE reopened /\ id = closed.id
      BY <1>2, <1>6, <1>10, <1>18, <1>19, <3>1 DEF Forgotten, OwnInv
    <3>2. CASE ~(reopened /\ id = closed.id)
      BY <1>5, <1>18, <1>19, <3>2 DEF Undisturbed
    <3> QED BY <3>1, <3>2
  <2> QED BY <1>2, <1>19, <2>1, <2>2, OperationsKept
<1>21. LibraryInv'
  BY <1>2, <1>19 DEF LibraryInv
<1>22. ASSUME NEW n \in 1..Len(recentlyClosed')
       PROVE  LET again == recentlyClosed'[n]
              IN  /\ ~again.tab.running
                  /\ again.id \in used' \cup {Endpoint}
                  /\ again.tab.link # NoRequest =>
                       /\ library'[again.tab.link] # NoRequest
                       /\ tab'[again.id].link # again.tab.link
                       /\ \A m \in 1..Len(recentlyClosed') :
                            recentlyClosed'[m].id = again.id
                              /\ recentlyClosed'[m].tab.link = again.tab.link => m = n
  <2> DEFINE again == recentlyClosed'[n]
  <2>1. n + 1 \in 1..L /\ n + 1 # 1 /\ again = recentlyClosed[n + 1] /\ n \in Nat
    BY <1>3
  <2> HIDE DEF again
  <2>2. /\ ~again.tab.running /\ again.id \in used \cup {Endpoint}
        /\ again.tab.link # NoRequest =>
             /\ library[again.tab.link] # NoRequest
             /\ tab[again.id].link # again.tab.link
             /\ \A m \in 1..L : recentlyClosed[m].id = again.id
                                  /\ recentlyClosed[m].tab.link = again.tab.link => m = n + 1
    BY <1>2, <2>1 DEF LinkInv, L
  <2>3. again.id \in Ids
    BY <1>2, <2>1, ClosedTypes DEF L
  <2>4. again.tab.link # NoRequest => tab'[again.id].link # again.tab.link
    <3>1. CASE reopened /\ again.id = closed.id
      BY <1>6, <1>18, <2>1, <2>3, <3>1
    <3>2. CASE ~(reopened /\ again.id = closed.id)
      BY <1>5, <1>18, <2>2, <2>3, <3>2
    <3> QED BY <3>1, <3>2
  <2>5. ASSUME again.tab.link # NoRequest, NEW m \in 1..Len(recentlyClosed'),
               recentlyClosed'[m].id = again.id,
               recentlyClosed'[m].tab.link = again.tab.link
        PROVE  m = n
    <3>1. m + 1 \in 1..L /\ recentlyClosed'[m] = recentlyClosed[m + 1] /\ m \in Nat
      BY <1>3
    <3>2. m + 1 = n + 1
      BY <2>2, <2>5, <3>1
    <3> QED BY <2>1, <3>1, <3>2
  <2> QED BY <1>19, <2>2, <2>4, <2>5 DEF again
<1>23. LinkInv'
  <2>1. \A id \in Ids : tab'[id].link # NoRequest => library'[tab'[id].link] # NoRequest
    BY <1>2, <1>5, <1>6, <1>18, <1>19 DEF LinkInv
  <2>2. ASSUME NEW id \in Ids, NEW other \in Ids, tab'[id].link = tab'[other].link,
               tab'[id].link # NoRequest
        PROVE  id = other
    <3>1. CASE reopened /\ id = closed.id
      BY <1>5, <1>11, <1>18, <2>2, <3>1
    <3>2. CASE reopened /\ other = closed.id
      BY <1>5, <1>11, <1>18, <2>2, <3>2
    <3>3. CASE ~(reopened /\ id = closed.id) /\ ~(reopened /\ other = closed.id)
      BY <1>2, <1>5, <1>18, <2>2, <3>3 DEF LinkInv
    <3> QED BY <3>1, <3>2, <3>3
  <2>3. \A id \in Ids : (IsOpen(id))' => id \in used' \cup {Endpoint}
    BY <1>2, <1>6, <1>13, <1>16, <1>19 DEF LinkInv
  <2> QED BY <1>22, <2>1, <2>2, <2>3 DEF LinkInv
<1>24. CleanInv'
  <2>1. ASSUME NEW id \in Ids, ~tab'[id].dirty, tab'[id].link # NoRequest, id \notin glossed'
        PROVE  library'[tab'[id].link] = tab'[id].content
    <3>1. CASE reopened /\ id = closed.id
      BY <1>2, <1>3, <1>18, <1>19, <2>1, <3>1 DEF CleanInv, closed, L
    <3>2. CASE ~(reopened /\ id = closed.id)
      <4>1. tab'[id] = Flushed[id] /\ Flushed[id] = tab[id]
        BY <1>5, <1>18, <2>1, <3>2
      <4> QED BY <1>2, <1>19, <2>1, <4>1 DEF CleanInv
    <3> QED BY <3>1, <3>2
  <2>2. ASSUME NEW n \in 1..Len(recentlyClosed')
        PROVE  LET again == recentlyClosed'[n]
               IN  ~again.tab.dirty /\ again.tab.link # NoRequest /\ again.id \notin glossed'
                     => library'[again.tab.link] = again.tab.content
    <3>1. n + 1 \in 1..L /\ recentlyClosed'[n] = recentlyClosed[n + 1]
      BY <1>3
    <3> QED BY <1>2, <1>19, <3>1 DEF CleanInv, L
  <2> QED BY <2>1, <2>2 DEF CleanInv
<1>25. SaveInv'
  <2> SUFFICES ASSUME NEW n \in 1..Len(saving)
               PROVE  LET save == saving[n]
                      IN  /\ save.request \in used /\ save.tab \in used \cup {Endpoint}
                          /\ ~save.overtaken =>
                               /\ tab'[save.tab].link = save.request =>
                                    /\ pending'[save.tab] = {}
                                    /\ library[save.request]
                                         = Sanitized(tab'[save.tab].content)
                               /\ \A m \in 1..Len(recentlyClosed') :
                                    recentlyClosed'[m].id = save.tab
                                      /\ recentlyClosed'[m].tab.link = save.request
                                      => library[save.request]
                                           = Sanitized(recentlyClosed'[m].tab.content)
    BY <1>19 DEF SaveInv
  <2> DEFINE id == saving[n].tab
             r == saving[n].request
  <2>1. id \in Ids /\ r # NoRequest
    BY <1>2, SavingTypes
  <2>2. r \in used /\ id \in used \cup {Endpoint}
    BY <1>2 DEF SaveInv
  <2>3. ASSUME ~saving[n].overtaken
        PROVE  /\ tab[id].link = r => /\ pending[id] = {}
                                      /\ library[r] = Sanitized(tab[id].content)
               /\ \A m \in 1..L : recentlyClosed[m].id = id /\ recentlyClosed[m].tab.link = r
                    => library[r] = Sanitized(recentlyClosed[m].tab.content)
    BY <1>2, <2>3 DEF SaveInv, L
  <2> HIDE DEF id, r
  <2>4. ASSUME ~saving[n].overtaken, tab'[id].link = r
        PROVE  pending'[id] = {} /\ library[r] = Sanitized(tab'[id].content)
    <3>1. CASE reopened /\ id = closed.id
      <4>1. tab'[id] = recentlyClosed[1].tab /\ recentlyClosed[1].id = id
        BY <1>18, <2>1, <3>1 DEF closed
      <4> QED BY <1>3, <1>16, <2>1, <2>3, <2>4, <4>1
    <3>2. CASE ~(reopened /\ id = closed.id)
      <4>1. tab'[id] = Flushed[id] /\ tab[id].link = r
        BY <1>5, <1>18, <2>1, <2>4, <3>2
      <4>2. tab'[id] = tab[id]
        BY <1>5, <2>1, <2>3, <2>4, <4>1
      <4> QED BY <1>16, <2>1, <2>3, <2>4, <4>1, <4>2
    <3> QED BY <3>1, <3>2
  <2>5. ASSUME ~saving[n].overtaken, NEW m \in 1..Len(recentlyClosed'),
               recentlyClosed'[m].id = id, recentlyClosed'[m].tab.link = r
        PROVE  library[r] = Sanitized(recentlyClosed'[m].tab.content)
    <3>1. m + 1 \in 1..L /\ recentlyClosed'[m] = recentlyClosed[m + 1]
      BY <1>3
    <3> QED BY <2>3, <2>5, <3>1
  <2> QED BY <2>2, <2>4, <2>5 DEF id, r
<1>26. TypeInv'
  <2>1. actions' \in Nat
    BY <1>1, <1>2 DEF TypeInv
  <2>2. Len(recentlyClosed') <= MaxClosed
    BY <1>2, <1>3, WorkspaceAssumption DEF TypeInv, L
  <2> QED BY <1>2, <1>3, <1>12, <1>13, <1>16, <1>19, <2>1, <2>2 DEF TypeInv
<1> QED
  BY <1>17, <1>20, <1>21, <1>23, <1>24, <1>25, <1>26 DEF Good, WInv

-----------------------------------------------------------------------------
(* Changes of the library *)

LEMMA SanitizedFacts ==
  ASSUME NEW c \in Contents
  PROVE  /\ Sanitized(c) \in Contents /\ Sanitized(c).headers # "secret"
         /\ c.headers # "secret" => Sanitized(c) = c
         /\ c.headers = Sanitized(c).headers => Sanitized(c) = c
<1>1. c.headers \in {"plain", "secret", "stripped"}
  BY DEF Contents
<1>2. PICK h \in {"plain", "stripped"} :
        h = IF c.headers = "secret" THEN "stripped" ELSE c.headers
  BY <1>1
<1>3. Sanitized(c) = [c EXCEPT !.headers = h]
  BY <1>2 DEF Sanitized
<1>4. Sanitized(c) \in Contents /\ Sanitized(c).headers = h
  BY <1>2, <1>3 DEF Contents
<1>5. c.headers = h => [c EXCEPT !.headers = h] = c
  BY <1>2 DEF Contents
<1> QED
  BY <1>1, <1>2, <1>3, <1>4, <1>5

\* A reconciled tab that is linked and not marked is what the library has.
LEMMA ReconcileFacts ==
  ASSUME NEW record \in TabRecords, NEW lib \in [RequestIds -> Saved]
  PROVE  LET new == Reconcile(record, lib)
         IN  /\ new \in TabRecords /\ new.running = record.running
             /\ new.link # NoRequest => new.link = record.link /\ lib[new.link] # NoRequest
             /\ ~new.dirty => ~record.dirty
             /\ ~new.dirty /\ new.link # NoRequest => lib[new.link] = new.content
             /\ \/ new.content = record.content
                \/ /\ ~record.dirty /\ new.link # NoRequest
                   /\ new.content = lib[new.link] /\ new.answer = 0
             /\ \/ new.answer = 0
                \/ new.answer = record.answer /\ new.checked = record.checked
<1> DEFINE new == Reconcile(record, lib)
<1>1. PICK yes \in BOOLEAN, no \in BOOLEAN, zero \in Nat :
        yes = TRUE /\ no = FALSE /\ zero = 0
  OBVIOUS
<1>2. record.link \in Links /\ (record.link # NoRequest => record.link \in RequestIds)
  BY DEF TabRecords, Links
<1>3. CASE record.link = NoRequest
  <2>1. new = record
    BY <1>3 DEF Reconcile
  <2> QED BY <1>3, <2>1
<1>4. CASE record.link # NoRequest /\ lib[record.link] = NoRequest
  <2>1. PICK none \in Links : none = NoRequest
    BY DEF Links
  <2>2. new = [record EXCEPT !.link = none, !.dirty = yes]
    BY <1>1, <1>4, <2>1 DEF Reconcile
  <2>3. /\ new \in TabRecords /\ new.running = record.running /\ new.link = none
        /\ new.dirty = yes /\ new.content = record.content
        /\ new.answer = record.answer /\ new.checked = record.checked
    BY <1>1, <2>1, <2>2 DEF TabRecords
  <2> QED BY <1>1, <2>1, <2>3
<1>5. CASE record.link # NoRequest /\ lib[record.link] # NoRequest
           /\ (record.dirty \/ record.content = lib[record.link])
  <2>1. new = record
    BY <1>5 DEF Reconcile
  <2> QED BY <1>5, <2>1
<1>6. CASE record.link # NoRequest /\ lib[record.link] # NoRequest
           /\ ~record.dirty /\ record.content # lib[record.link]
  <2>1. PICK c \in Contents : c = lib[record.link]
    BY <1>2, <1>6 DEF Saved
  <2>2. new = [record EXCEPT !.content = c, !.answer = zero, !.checked = no]
    BY <1>1, <1>6, <2>1 DEF Reconcile
  <2>3. /\ new \in TabRecords /\ new.running = record.running /\ new.link = record.link
        /\ new.dirty = record.dirty /\ new.content = c /\ new.answer = zero
    BY <1>1, <2>1, <2>2 DEF TabRecords
  <2> QED BY <1>1, <1>6, <2>1, <2>3
<1> QED
  BY <1>3, <1>4, <1>5, <1>6

\* The closed tabs after a change of the library.
LEMMA ClosedReconciled ==
  ASSUME TypeInv, NEW lib \in [RequestIds -> Saved], ReconcileClosed(lib)
  PROVE  /\ recentlyClosed' \in Seq(ClosedRecords)
         /\ Len(recentlyClosed') = Len(recentlyClosed)
         /\ \A n \in 1..Len(recentlyClosed) :
              /\ recentlyClosed'[n].id = recentlyClosed[n].id
              /\ recentlyClosed'[n].tab = Reconcile(recentlyClosed[n].tab, lib)
<1>1. recentlyClosed' = [n \in 1..Len(recentlyClosed) |->
        [recentlyClosed[n] EXCEPT !.tab = Reconcile(recentlyClosed[n].tab, lib)]]
  BY DEF ReconcileClosed
<1>2. ASSUME NEW n \in 1..Len(recentlyClosed)
      PROVE  /\ recentlyClosed'[n] \in ClosedRecords
             /\ recentlyClosed'[n].id = recentlyClosed[n].id
             /\ recentlyClosed'[n].tab = Reconcile(recentlyClosed[n].tab, lib)
  <2>1. recentlyClosed[n] \in ClosedRecords /\ recentlyClosed[n].tab \in TabRecords
    BY ClosedTypes
  <2>2. PICK t \in TabRecords : t = Reconcile(recentlyClosed[n].tab, lib)
    BY <2>1, ReconcileFacts
  <2>3. recentlyClosed'[n] = [recentlyClosed[n] EXCEPT !.tab = t]
    BY <1>1, <2>2
  <2> QED BY <2>1, <2>2, <2>3 DEF ClosedRecords
<1>3. Len(recentlyClosed) \in Nat
  BY DEF TypeInv
<1>4. recentlyClosed' \in Seq(ClosedRecords) /\ Len(recentlyClosed') = Len(recentlyClosed)
  BY <1>1, <1>2, <1>3
<1> QED
  BY <1>2, <1>4

\* A request without a link, of a tab that is open or closed.
Unlinked(r) ==
  /\ \A id \in Ids : tab[id].link # r
  /\ \A n \in 1..Len(recentlyClosed) : recentlyClosed[n].tab.link # r

\* Links end with their request, and one is made of a request that has none.
LEMMA ChangedLinks ==
  ASSUME TypeInv, LinkInv, NEW lib \in [RequestIds -> Saved], library' = lib,
         ReconcileClosed(lib), used \subseteq used',
         NEW mine \in Ids \cup {NoTab}, NEW made \in RequestIds,
         \A id \in Ids : (IsOpen(id))' => IsOpen(id),
         \A id \in Ids : tab'[id].link # NoRequest =>
           /\ lib[tab'[id].link] # NoRequest
           /\ \/ tab'[id].link = tab[id].link
              \/ id = mine /\ tab'[id].link = made /\ Unlinked(made)
  PROVE  LinkInv'
<1>1. /\ Len(recentlyClosed') = Len(recentlyClosed)
      /\ \A n \in 1..Len(recentlyClosed) :
           /\ recentlyClosed'[n].id = recentlyClosed[n].id
           /\ recentlyClosed'[n].tab = Reconcile(recentlyClosed[n].tab, lib)
  BY ClosedReconciled
<1>2. ASSUME NEW id \in Ids, NEW other \in Ids,
             tab'[id].link = tab'[other].link, tab'[id].link # NoRequest
      PROVE  id = other
  BY <1>2 DEF LinkInv, Unlinked
<1>3. ASSUME NEW n \in 1..Len(recentlyClosed)
      PROVE  /\ recentlyClosed[n].id \in Ids
             /\ recentlyClosed'[n].tab.running = recentlyClosed[n].tab.running
             /\ recentlyClosed'[n].tab.link # NoRequest =>
                  /\ recentlyClosed'[n].tab.link = recentlyClosed[n].tab.link
                  /\ lib[recentlyClosed'[n].tab.link] # NoRequest
  <2>1. recentlyClosed[n].id \in Ids /\ recentlyClosed[n].tab \in TabRecords
    BY ClosedTypes
  <2> QED BY <1>1, <2>1, ReconcileFacts
<1>4. ASSUME NEW n \in 1..Len(recentlyClosed)
      PROVE  LET closed == recentlyClosed'[n]
             IN  /\ ~closed.tab.running
                 /\ closed.id \in used' \cup {Endpoint}
                 /\ closed.tab.link # NoRequest =>
                      /\ library'[closed.tab.link] # NoRequest
                      /\ tab'[closed.id].link # closed.tab.link
                      /\ \A m \in 1..Len(recentlyClosed') :
                           recentlyClosed'[m].id = closed.id
                             /\ recentlyClosed'[m].tab.link = closed.tab.link => m = n
  <2>1. /\ ~recentlyClosed[n].tab.running
        /\ recentlyClosed[n].id \in used \cup {Endpoint}
        /\ recentlyClosed[n].tab.link # NoRequest =>
             /\ tab[recentlyClosed[n].id].link # recentlyClosed[n].tab.link
             /\ \A m \in 1..Len(recentlyClosed) :
                  recentlyClosed[m].id = recentlyClosed[n].id
                    /\ recentlyClosed[m].tab.link = recentlyClosed[n].tab.link => m = n
    BY DEF LinkInv
  <2>2. recentlyClosed'[n].tab.link # NoRequest =>
          tab'[recentlyClosed[n].id].link # recentlyClosed'[n].tab.link
    BY <1>3, <2>1 DEF Unlinked
  <2>3. ASSUME recentlyClosed'[n].tab.link # NoRequest, NEW m \in 1..Len(recentlyClosed),
               recentlyClosed'[m].id = recentlyClosed'[n].id,
               recentlyClosed'[m].tab.link = recentlyClosed'[n].tab.link
        PROVE  m = n
    BY <1>1, <1>3, <2>1, <2>3
  <2> QED BY <1>1, <1>3, <2>1, <2>2, <2>3
<1>5. \A id \in Ids : (IsOpen(id))' => id \in used' \cup {Endpoint}
  BY DEF LinkInv
<1> QED
  BY <1>1, <1>2, <1>4, <1>5 DEF LinkInv

\* What a save has written outlives the changes of other requests.
LEMMA SaveSurvives ==
  ASSUME WInv, NEW lib \in [RequestIds -> Saved], library' = lib, LibraryInv',
         ReconcileClosed(lib), NEW n \in 1..Len(saving), ~saving[n].overtaken,
         lib[saving[n].request] \in {library[saving[n].request], NoRequest},
         pending'[saving[n].tab] = {},
         tab'[saving[n].tab].link = saving[n].request =>
           /\ Reconcile(Flushed[saving[n].tab], lib).link = saving[n].request
           /\ tab'[saving[n].tab].content
                = Reconcile(Flushed[saving[n].tab], lib).content
  PROVE  /\ tab'[saving[n].tab].link = saving[n].request =>
              /\ pending'[saving[n].tab] = {}
              /\ library'[saving[n].request] = Sanitized(tab'[saving[n].tab].content)
         /\ \A m \in 1..Len(recentlyClosed') :
              recentlyClosed'[m].id = saving[n].tab
                /\ recentlyClosed'[m].tab.link = saving[n].request
                => library'[saving[n].request] = Sanitized(recentlyClosed'[m].tab.content)
<1> DEFINE id == saving[n].tab
           r == saving[n].request
<1>1. TypeInv /\ SaveInv
  BY DEF WInv
<1>2. id \in Ids /\ r \in RequestIds /\ r # NoRequest
  BY <1>1, SavingTypes
<1>3. /\ tab[id].link = r => pending[id] = {} /\ library[r] = Sanitized(tab[id].content)
      /\ \A m \in 1..Len(recentlyClosed) :
           recentlyClosed[m].id = id /\ recentlyClosed[m].tab.link = r
             => library[r] = Sanitized(recentlyClosed[m].tab.content)
  BY <1>1 DEF SaveInv
<1>4. /\ lib[r] \in {library[r], NoRequest} /\ pending'[id] = {}
      /\ tab'[id].link = r => /\ Reconcile(Flushed[id], lib).link = r
                              /\ tab'[id].content = Reconcile(Flushed[id], lib).content
  OBVIOUS
<1> HIDE DEF id, r
<1>5. lib[r] # NoRequest => lib[r] \in Contents /\ Sanitized(lib[r]) = lib[r]
  <2> SUFFICES ASSUME lib[r] # NoRequest PROVE lib[r] \in Contents /\ Sanitized(lib[r]) = lib[r]
    OBVIOUS
  <2>1. lib[r] \in Contents
    BY <1>2 DEF Saved
  <2>2. lib[r].headers # "secret"
    BY <1>2 DEF LibraryInv
  <2> QED BY <2>1, <2>2, SanitizedFacts
<1>6. ASSUME tab'[id].link = r PROVE lib[r] = Sanitized(tab'[id].content)
  <2>1. Flushed[id] \in TabRecords /\ Flushed[id].link = tab[id].link
        /\ (pending[id] = {} => Flushed[id] = tab[id])
    BY <1>2, Drafted
  <2> DEFINE new == Reconcile(Flushed[id], lib)
  <2>2. /\ new.link # NoRequest => new.link = Flushed[id].link /\ lib[new.link] # NoRequest
        /\ \/ new.content = Flushed[id].content
           \/ new.link # NoRequest /\ new.content = lib[new.link]
    BY <2>1, ReconcileFacts
  <2>3. new.link = r /\ tab'[id].content = new.content
    BY <1>4, <1>6
  <2> HIDE DEF new
  <2>4. tab[id].link = r /\ lib[r] = library[r] /\ lib[r] # NoRequest
    BY <1>2, <1>4, <2>1, <2>2, <2>3
  <2>5. Flushed[id] = tab[id] /\ lib[r] = Sanitized(tab[id].content)
    BY <1>3, <2>1, <2>4
  <2> QED BY <1>5, <2>2, <2>3, <2>4, <2>5
<1>7. ASSUME NEW m \in 1..Len(recentlyClosed'), recentlyClosed'[m].id = id,
             recentlyClosed'[m].tab.link = r
      PROVE  lib[r] = Sanitized(recentlyClosed'[m].tab.content)
  <2>1. /\ m \in 1..Len(recentlyClosed)
        /\ recentlyClosed'[m].id = recentlyClosed[m].id
        /\ recentlyClosed'[m].tab = Reconcile(recentlyClosed[m].tab, lib)
    BY <1>1, ClosedReconciled
  <2>2. recentlyClosed[m].tab \in TabRecords
    BY <1>1, <2>1, ClosedTypes
  <2> DEFINE new == Reconcile(recentlyClosed[m].tab, lib)
  <2>3. /\ new.link # NoRequest =>
             new.link = recentlyClosed[m].tab.link /\ lib[new.link] # NoRequest
        /\ \/ new.content = recentlyClosed[m].tab.content
           \/ new.link # NoRequest /\ new.content = lib[new.link]
    BY <2>2, ReconcileFacts
  <2>4. new.link = r /\ recentlyClosed'[m].tab.content = new.content
    BY <1>7, <2>1
  <2> HIDE DEF new
  <2>5. recentlyClosed[m].tab.link = r /\ lib[r] = library[r] /\ lib[r] # NoRequest
    BY <1>2, <1>4, <2>3, <2>4
  <2>6. lib[r] = Sanitized(recentlyClosed[m].tab.content)
    BY <1>3, <1>7, <2>1, <2>5
  <2> QED BY <1>5, <2>3, <2>4, <2>5, <2>6
<1> QED
  BY <1>4, <1>6, <1>7 DEF id, r

\* A tab that is reconciled keeps its operation, and what the editor shows.
LEMMA ReconciledTab ==
  ASSUME WInv, NEW lib \in [RequestIds -> Saved], NEW id \in Ids,
         tab[id].link # NoRequest => lib[tab[id].link] \in {library[tab[id].link], NoRequest}
  PROVE  LET new == Reconcile(Flushed[id], lib)
         IN  /\ new \in TabRecords /\ new.running = tab[id].running
             /\ new.link # NoRequest => new.link = tab[id].link /\ lib[new.link] # NoRequest
             /\ ~new.dirty /\ new.link # NoRequest => lib[new.link] = new.content
             /\ \/ new.answer = 0
                \/ new.answer = tab[id].answer /\ new.checked = tab[id].checked
             /\ id \notin glossed => new.content = drafts[id]
<1>1. /\ Flushed[id] \in TabRecords
      /\ Flushed[id].content = drafts[id]
      /\ Flushed[id].link = tab[id].link
      /\ Flushed[id].running = tab[id].running
      /\ Flushed[id].answer = tab[id].answer
      /\ Flushed[id].checked = tab[id].checked
      /\ ~Flushed[id].dirty => Flushed[id] = tab[id]
  BY Drafted
<1> DEFINE new == Reconcile(Flushed[id], lib)
<1>2. /\ new \in TabRecords /\ new.running = Flushed[id].running
      /\ new.link # NoRequest => new.link = Flushed[id].link /\ lib[new.link] # NoRequest
      /\ ~new.dirty /\ new.link # NoRequest => lib[new.link] = new.content
      /\ \/ new.content = Flushed[id].content
         \/ ~Flushed[id].dirty /\ new.link # NoRequest /\ new.content = lib[new.link]
      /\ \/ new.answer = 0
         \/ new.answer = Flushed[id].answer /\ new.checked = Flushed[id].checked
  BY <1>1, ReconcileFacts
<1> HIDE DEF new
<1>3. id \notin glossed => new.content = drafts[id]
  <2> SUFFICES ASSUME id \notin glossed, new.content # Flushed[id].content
               PROVE  new.content = drafts[id]
    BY <1>1
  <2>1. ~Flushed[id].dirty /\ new.link # NoRequest /\ new.content = lib[new.link]
        /\ new.link = Flushed[id].link /\ lib[new.link] # NoRequest
    BY <1>2
  <2>2. Flushed[id] = tab[id] /\ new.link = tab[id].link
    BY <1>1, <2>1
  <2>3. lib[tab[id].link] = library[tab[id].link]
    BY <2>1, <2>2
  <2>4. library[tab[id].link] = tab[id].content
    BY <2>1, <2>2 DEF WInv, CleanInv
  <2> QED BY <1>1, <2>1, <2>2, <2>3, <2>4
<1> QED
  BY <1>1, <1>2, <1>3 DEF new

\* The tab that a save writes or marks: its link may be a new one.
Spared(id, record, lib, made) ==
  /\ record \in TabRecords /\ record.running = tab[id].running
  /\ \/ record.answer = 0
     \/ record.answer = tab[id].answer /\ record.checked = tab[id].checked
  /\ id \notin glossed => record.content = drafts[id]
  /\ record.link # NoRequest =>
       /\ lib[record.link] # NoRequest
       /\ record.link = tab[id].link \/ (record.link = made /\ Unlinked(made))
  /\ ~record.dirty /\ record.link # NoRequest /\ id \notin glossed' =>
       lib[record.link] = record.content

\* The rest of what a change of the library does.
OthersChanged ==
  /\ used \subseteq used' /\ glossed \subseteq glossed' /\ glossed' \subseteq Ids
  /\ UNCHANGED <<activeTabID, token, canceling, sends, cancels, edits>>
  /\ actions' \in Nat /\ disk' \in [RequestIds -> Saved] /\ locked' \in BOOLEAN
  /\ saving' \in Seq(SaveRecords)

\* The library changes, and the tabs with it, but for one of them.
LEMMA LibraryStep ==
  ASSUME WInv, NEW lib \in [RequestIds -> Saved], library' = lib, NEW tabs,
         Store(tabs, open), ReconcileClosed(lib), LibraryInv', SaveInv', OthersChanged,
         NEW mine \in Ids \cup {NoTab}, NEW made \in RequestIds,
         \A id \in Ids : id # mine => tabs[id] = Reconcile(Flushed[id], lib),
         \A id \in Ids : id # mine /\ tab[id].link # NoRequest =>
           lib[tab[id].link] \in {library[tab[id].link], NoRequest},
         mine \in Ids => Spared(mine, tabs[mine], lib, made)
  PROVE  Good
<1>1. /\ TypeInv /\ TabInv /\ OwnInv /\ SentInv /\ LinkInv /\ CleanInv
      /\ used \subseteq used' /\ glossed \subseteq glossed' /\ glossed' \subseteq Ids
      /\ UNCHANGED <<activeTabID, token, canceling, sends, cancels, edits>>
      /\ actions' \in Nat /\ disk' \in [RequestIds -> Saved] /\ locked' \in BOOLEAN
      /\ saving' \in Seq(SaveRecords)
  BY DEF WInv, OthersChanged
<1>3. ASSUME NEW id \in Ids, id # mine
      PROVE  /\ tabs[id] \in TabRecords /\ tabs[id].running = tab[id].running
             /\ tabs[id].link # NoRequest =>
                  tabs[id].link = tab[id].link /\ lib[tabs[id].link] # NoRequest
             /\ ~tabs[id].dirty /\ tabs[id].link # NoRequest =>
                  lib[tabs[id].link] = tabs[id].content
             /\ \/ tabs[id].answer = 0
                \/ tabs[id].answer = tab[id].answer /\ tabs[id].checked = tab[id].checked
             /\ id \notin glossed => tabs[id].content = drafts[id]
  <2>1. tabs[id] = Reconcile(Flushed[id], lib)
    BY <1>3
  <2>2. tab[id].link # NoRequest => lib[tab[id].link] \in {library[tab[id].link], NoRequest}
    BY <1>3
  <2> QED BY <2>1, <2>2, ReconciledTab
<1>4. \A id \in Ids : /\ tabs[id] \in TabRecords /\ tabs[id].running = tab[id].running
                      /\ \/ tabs[id].answer = 0
                         \/ tabs[id].answer = tab[id].answer
                            /\ tabs[id].checked = tab[id].checked
                      /\ id \notin glossed => tabs[id].content = drafts[id]
  BY <1>3 DEF Spared
<1>5. Activates(open) /\ open \in Seq(Ids) /\ IsInjective(open)
      /\ \A id \in Ids : Contains(open, id) <=> IsOpen(id)
  BY <1>1, OpenFacts
<1>6. /\ open' = open
      /\ \A id : (IsOpen(id))' <=> Contains(open, id)
      /\ tab' \in [Ids -> TabRecords] /\ drafts' \in [Ids -> Contents]
      /\ pending' \in [Ids -> SUBSET Fields]
      /\ \A id \in Ids : Contains(open, id) => tab'[id] = tabs[id]
      /\ \A id \in Ids : ~Contains(open, id) => tab'[id] = RequestTab
      /\ \A id \in Ids : drafts'[id] = tab'[id].content /\ pending'[id] = {}
  BY <1>4, <1>5, StoreFacts
<1>7. TabInv'
  BY <1>1, <1>4, <1>5, StoreTabInv DEF Activates
<1>8. \A id \in Ids : ~IsOpen(id) => tab[id] = RequestTab
  BY <1>1 DEF TabInv
<1>9. OwnInv' /\ SentInv' /\ AnswerStep
  <2>1. \A id \in Ids : (~IsOpen(id))' => token'[id] = 0 /\ id \notin canceling'
    BY <1>1, <1>5, <1>6 DEF OwnInv
  <2>2. ASSUME NEW id \in Ids PROVE Undisturbed(id)
    <3>1. CASE IsOpen(id)
      <4>1. tab'[id] = tabs[id] /\ drafts'[id] = tabs[id].content
        BY <1>5, <1>6, <3>1
      <4> QED BY <1>1, <1>4, <4>1 DEF Undisturbed
    <3>2. CASE ~IsOpen(id)
      <4>1. tab'[id] = tab[id] /\ token[id] = 0
        BY <1>1, <1>5, <1>6, <1>8, <3>2 DEF OwnInv
      <4> QED BY <1>1, <3>2, <4>1 DEF Undisturbed
    <3> QED BY <3>1, <3>2
  <2> QED BY <1>1, <2>1, <2>2, OperationsKept
<1>10. RequestTab.link = NoRequest
  BY DEF RequestTab
<1>11. LinkInv'
  <2>1. \A id \in Ids : (IsOpen(id))' => IsOpen(id)
    BY <1>5, <1>6
  <2>2. ASSUME NEW id \in Ids, tab'[id].link # NoRequest
        PROVE  /\ lib[tab'[id].link] # NoRequest
               /\ \/ tab'[id].link = tab[id].link
                  \/ id = mine /\ tab'[id].link = made /\ Unlinked(made)
    <3>1. tab'[id] = tabs[id]
      BY <1>6, <1>10, <2>2
    <3>2. CASE id # mine
      BY <1>3, <2>2, <3>1, <3>2
    <3>3. CASE id = mine
      BY <2>2, <3>1, <3>3 DEF Spared
    <3> QED BY <3>2, <3>3
  <2> QED BY <1>1, <2>1, <2>2, ChangedLinks
<1>12. CleanInv'
  <2>1. ASSUME NEW id \in Ids, ~tab'[id].dirty, tab'[id].link # NoRequest, id \notin glossed'
        PROVE  library'[tab'[id].link] = tab'[id].content
    <3>1. tab'[id] = tabs[id]
      BY <1>6, <1>10, <2>1
    <3>2. CASE id # mine
      BY <1>3, <2>1, <3>1, <3>2
    <3>3. CASE id = mine
      BY <2>1, <3>1, <3>3 DEF Spared
    <3> QED BY <3>2, <3>3
  <2>2. ASSUME NEW n \in 1..Len(recentlyClosed'), ~recentlyClosed'[n].tab.dirty,
               recentlyClosed'[n].tab.link # NoRequest
        PROVE  library'[recentlyClosed'[n].tab.link] = recentlyClosed'[n].tab.content
    <3>1. n \in 1..Len(recentlyClosed)
          /\ recentlyClosed'[n].tab = Reconcile(recentlyClosed[n].tab, lib)
      BY <1>1, ClosedReconciled
    <3>2. recentlyClosed[n].tab \in TabRecords
      BY <1>1, <3>1, ClosedTypes
    <3> QED BY <2>2, <3>1, <3>2, ReconcileFacts
  <2> QED BY <2>1, <2>2 DEF CleanInv
<1>13. TypeInv'
  <2>1. recentlyClosed' \in Seq(ClosedRecords) /\ Len(recentlyClosed') <= MaxClosed
    BY <1>1, ClosedReconciled DEF TypeInv
  <2> QED BY <1>1, <1>5, <1>6, <2>1 DEF TypeInv
<1> QED
  BY <1>7, <1>9, <1>11, <1>12, <1>13 DEF Good, WInv

LEMMA DeleteSavedStep ==
  ASSUME WInv, NEW r \in RequestIds, DeleteSaved(r)
  PROVE  Good
<1> DEFINE lib == [library EXCEPT ![r] = NoRequest]
           tabs == Reconciled(lib)
<1>1. /\ actions' = actions + 1 /\ library' = lib /\ Store(tabs, open)
      /\ ReconcileClosed(lib) /\ saving' = Detached(Flushed, tabs, open)
      /\ UNCHANGED <<activeTabID, operationVars, disk, locked, edits, used, glossed>>
  BY DEF DeleteSaved, Act
<1>2. TypeInv /\ LibraryInv /\ SaveInv
  BY DEF WInv
<1>3. /\ library \in [RequestIds -> Saved] /\ disk \in [RequestIds -> Saved]
      /\ locked \in BOOLEAN /\ glossed \subseteq Ids /\ actions + 1 \in Nat
  BY <1>2 DEF TypeInv
<1>4. /\ lib \in [RequestIds -> Saved]
      /\ \A q \in RequestIds : lib[q] = IF q = r THEN NoRequest ELSE library[q]
  BY <1>3 DEF Saved
<1>5. \A id \in Ids : tabs[id] = Reconcile(Flushed[id], lib)
  BY DEF Reconciled
<1> HIDE DEF lib, tabs
<1>6. \A id \in Ids : tab[id].link # NoRequest =>
        lib[tab[id].link] \in {library[tab[id].link], NoRequest}
  <2>1. \A id \in Ids : tab[id].link \in Links
    BY <1>2 DEF TypeInv, TabRecords
  <2> QED BY <1>4, <2>1 DEF Links
<1>7. LibraryInv'
  BY <1>1, <1>2, <1>4 DEF LibraryInv
<1>8. \A id \in Ids : Flushed[id].content \in Contents /\ Flushed[id] \in TabRecords
  BY Drafted DEF TabRecords
<1>9. /\ saving' \in Seq(SaveRecords) /\ Len(saving') = Len(saving)
      /\ \A n \in 1..Len(saving) :
           /\ saving'[n].tab = saving[n].tab /\ saving'[n].request = saving[n].request
           /\ saving'[n].overtaken = saving[n].overtaken
  BY <1>1, <1>2, <1>8, DetachedFacts
<1>10. \A id \in Ids : /\ Contains(open, id) => tab'[id] = tabs[id]
                       /\ ~Contains(open, id) => tab'[id] = RequestTab
                       /\ pending'[id] = {}
  <2>1. \A id \in Ids : tabs[id] \in TabRecords
    BY <1>4, <1>5, <1>8, ReconcileFacts
  <2>2. open \in Seq(Ids)
    BY <1>2 DEF TypeInv
  <2> QED BY <1>1, <2>1, <2>2, StoreFacts
<1>11. SaveInv'
  <2> SUFFICES ASSUME NEW n \in 1..Len(saving)
               PROVE  LET save == saving'[n]
                      IN  /\ save.request \in used' /\ save.tab \in used' \cup {Endpoint}
                          /\ ~save.overtaken =>
                               /\ tab'[save.tab].link = save.request =>
                                    /\ pending'[save.tab] = {}
                                    /\ library'[save.request]
                                         = Sanitized(tab'[save.tab].content)
                               /\ \A m \in 1..Len(recentlyClosed') :
                                    recentlyClosed'[m].id = save.tab
                                      /\ recentlyClosed'[m].tab.link = save.request
                                      => library'[save.request]
                                           = Sanitized(recentlyClosed'[m].tab.content)
    BY <1>9 DEF SaveInv
  <2>1. saving[n].tab \in Ids /\ saving[n].request \in RequestIds
        /\ saving[n].request # NoRequest
    BY <1>2, SavingTypes
  <2>2. saving[n].request \in used' /\ saving[n].tab \in used' \cup {Endpoint}
    BY <1>1, <1>2 DEF SaveInv
  <2>3. lib[saving[n].request] \in {library[saving[n].request], NoRequest}
    BY <1>4, <2>1
  <2>4. tab'[saving[n].tab].link = saving[n].request =>
          /\ Reconcile(Flushed[saving[n].tab], lib).link = saving[n].request
          /\ tab'[saving[n].tab].content = Reconcile(Flushed[saving[n].tab], lib).content
    BY <1>5, <1>10, <2>1 DEF RequestTab
  <2>5. pending'[saving[n].tab] = {}
    BY <1>10, <2>1
  <2>6. ASSUME ~saving[n].overtaken
        PROVE  /\ tab'[saving[n].tab].link = saving[n].request =>
                    /\ pending'[saving[n].tab] = {}
                    /\ library'[saving[n].request] = Sanitized(tab'[saving[n].tab].content)
               /\ \A m \in 1..Len(recentlyClosed') :
                    recentlyClosed'[m].id = saving[n].tab
                      /\ recentlyClosed'[m].tab.link = saving[n].request
                      => library'[saving[n].request]
                           = Sanitized(recentlyClosed'[m].tab.content)
    BY <1>1, <1>4, <1>7, <2>3, <2>4, <2>5, <2>6, SaveSurvives
  <2> QED BY <1>9, <2>2, <2>6
<1>12. OthersChanged
  BY <1>1, <1>3, <1>9 DEF operationVars, OthersChanged
<1>13. \A id \in Ids : id # NoTab
  BY WorkspaceAssumption
<1>14. NoTab \in Ids \cup {NoTab}
  OBVIOUS
<1> QED
  BY <1>1, <1>4, <1>5, <1>6, <1>7, <1>11, <1>12, <1>13, <1>14, LibraryStep

LEMMA SaveStep ==
  ASSUME WInv, NEW r \in RequestIds, Save(r)
  PROVE  Good
<1> DEFINE id == activeTabID
           lib == [library EXCEPT ![r] = Sanitized(Flushed[id].content)]
           tabs == [Reconciled(lib) EXCEPT
                      ![id] = [Flushed[id] EXCEPT !.link = r, !.dirty = TRUE,
                                                  !.session = FALSE]]
           saves == Detached(Flushed, tabs, open)
           own == [tab |-> id, request |-> r, draft |-> Live, overtaken |-> FALSE]
<1>1. /\ actions' = actions + 1 /\ id # NoTab /\ (r = tab[id].link \/ r \notin used)
      /\ used' = used \cup {r} /\ library' = lib /\ Store(tabs, open)
      /\ ReconcileClosed(lib) /\ saving' = Append(OvertakenBy(id, r, saves), own)
      /\ UNCHANGED <<activeTabID, operationVars, disk, locked, edits, glossed>>
  BY DEF Save, Act
<1>2. TypeInv /\ LibraryInv /\ LinkInv /\ SaveInv
  BY DEF WInv
<1>3. /\ library \in [RequestIds -> Saved] /\ disk \in [RequestIds -> Saved]
      /\ locked \in BOOLEAN /\ glossed \subseteq Ids /\ actions + 1 \in Nat
  BY <1>2 DEF TypeInv
<1>4. id \in Ids /\ IsOpen(id) /\ Contains(open, id)
  BY <1>1, OpenFacts
<1>5. \A other \in Ids : /\ Flushed[other] \in TabRecords
                         /\ Flushed[other].content \in Contents
                         /\ Flushed[other].content = drafts[other]
                         /\ Flushed[other].running = tab[other].running
                         /\ Flushed[other].answer = tab[other].answer
                         /\ Flushed[other].checked = tab[other].checked
  BY Drafted DEF TabRecords
<1> DEFINE c == Sanitized(Flushed[id].content)
<1>6. c \in Contents /\ c.headers # "secret" /\ c # NoRequest
  BY <1>4, <1>5, SanitizedFacts, WorkspaceAssumption
<1>7. /\ lib \in [RequestIds -> Saved]
      /\ \A q \in RequestIds : lib[q] = IF q = r THEN c ELSE library[q]
  <2>1. lib = [library EXCEPT ![r] = c] /\ c \in Saved
    BY <1>6 DEF Saved
  <2> HIDE DEF c, lib
  <2> QED BY <1>3, <2>1
<1>8. \A other \in Ids : tabs[other] =
        IF other = id THEN [Flushed[id] EXCEPT !.link = r, !.dirty = TRUE, !.session = FALSE]
                      ELSE Reconcile(Flushed[other], lib)
  <2> HIDE DEF id, lib
  <2> QED BY <1>4 DEF Reconciled
<1> HIDE DEF id, lib, tabs, c, saves
<1>9. /\ tabs[id] \in TabRecords /\ tabs[id].link = r /\ tabs[id].dirty
      /\ tabs[id].content = Flushed[id].content /\ tabs[id].running = Flushed[id].running
      /\ tabs[id].answer = Flushed[id].answer /\ tabs[id].checked = Flushed[id].checked
  <2>1. PICK yes \in BOOLEAN, no \in BOOLEAN, f \in TabRecords, link \in Links :
          yes = TRUE /\ no = FALSE /\ f = Flushed[id] /\ link = r
    BY <1>4, <1>5 DEF Links
  <2>2. tabs[id] = [f EXCEPT !.link = link, !.dirty = yes, !.session = no]
    BY <1>4, <1>8, <2>1
  <2>3. /\ tabs[id] \in TabRecords /\ tabs[id].link = link /\ tabs[id].dirty = yes
        /\ tabs[id].content = f.content /\ tabs[id].running = f.running
        /\ tabs[id].answer = f.answer /\ tabs[id].checked = f.checked
    BY <2>1, <2>2 DEF TabRecords
  <2> QED BY <2>1, <2>3
<1>10. \A other \in Ids : tabs[other] \in TabRecords
  BY <1>5, <1>7, <1>8, <1>9, ReconcileFacts
<1>11. r # NoRequest
  BY WorkspaceAssumption
<1>12. r \notin used => Unlinked(r)
  BY <1>2, <1>11 DEF LinkInv, LibraryInv, Unlinked
<1>13. \A other \in Ids : other # id => tab[other].link # r
  BY <1>1, <1>2, <1>4, <1>11, <1>12 DEF LinkInv, Unlinked
<1>14. \A n \in 1..Len(recentlyClosed) :
         ~(recentlyClosed[n].id = id /\ recentlyClosed[n].tab.link = r)
  BY <1>1, <1>2, <1>11, <1>12 DEF LinkInv, Unlinked
<1>15. \A other \in Ids : other # id /\ tab[other].link # NoRequest =>
         lib[tab[other].link] \in {library[tab[other].link], NoRequest}
  <2>1. \A other \in Ids : tab[other].link \in Links
    BY <1>2 DEF TypeInv, TabRecords
  <2> QED BY <1>7, <1>13, <2>1 DEF Links
<1>16. LibraryInv'
  BY <1>1, <1>2, <1>6, <1>7 DEF LibraryInv
<1>17. /\ saves \in Seq(SaveRecords) /\ Len(saves) = Len(saving)
       /\ \A n \in 1..Len(saving) :
            /\ saves[n].tab = saving[n].tab /\ saves[n].request = saving[n].request
            /\ saves[n].overtaken = saving[n].overtaken
  BY <1>2, <1>5, DetachedFacts DEF saves
<1>18. /\ saving' \in Seq(SaveRecords) /\ Len(saving') = Len(saving) + 1
       /\ Len(saving) \in Nat
       /\ saving'[Len(saving) + 1] = own
       /\ \A n \in 1..Len(saving) :
            /\ saving'[n].tab = saving[n].tab /\ saving'[n].request = saving[n].request
            /\ ~saving'[n].overtaken =>
                 ~saving[n].overtaken /\ (saving[n].request # r \/ saving[n].tab = id)
  <2> DEFINE over == OvertakenBy(id, r, saves)
  <2>1. over = [n \in 1..Len(saves) |->
                  IF saves[n].request = r /\ saves[n].tab # id
                  THEN [saves[n] EXCEPT !.overtaken = TRUE] ELSE saves[n]]
    BY DEF OvertakenBy
  <2> HIDE DEF over
  <2>2. ASSUME NEW n \in 1..Len(saving)
        PROVE  /\ over[n] \in SaveRecords
               /\ over[n].tab = saving[n].tab /\ over[n].request = saving[n].request
               /\ ~over[n].overtaken =>
                    ~saving[n].overtaken /\ (saving[n].request # r \/ saving[n].tab = id)
    <3>0. saves[n] \in SaveRecords
      BY <1>17
    <3>1. PICK s \in SaveRecords, yes \in BOOLEAN : s = saves[n] /\ yes = TRUE
      BY <3>0
    <3>2. over[n] = IF s.request = r /\ s.tab # id THEN [s EXCEPT !.overtaken = yes] ELSE s
      BY <1>17, <2>1, <3>1
    <3>3. CASE s.request = r /\ s.tab # id
      <4>1. /\ over[n] \in SaveRecords /\ over[n].tab = s.tab
            /\ over[n].request = s.request /\ over[n].overtaken = yes
        BY <3>1, <3>2, <3>3 DEF SaveRecords
      <4> QED BY <1>17, <3>1, <4>1
    <3>4. CASE ~(s.request = r /\ s.tab # id)
      <4>1. over[n] = s
        BY <3>2, <3>4
      <4> QED BY <1>17, <3>1, <3>4, <4>1
    <3> QED BY <3>3, <3>4
  <2>3. Len(saving) \in Nat
    BY <1>2 DEF TypeInv
  <2>4. over \in Seq(SaveRecords) /\ Len(over) = Len(saving)
    BY <1>17, <2>1, <2>2, <2>3
  <2>5. own \in SaveRecords
    BY <1>4 DEF SaveRecords
  <2>6. saving' = Append(over, own)
    BY <1>1 DEF over
  <2> HIDE DEF own
  <2>7. /\ saving' \in Seq(SaveRecords) /\ Len(saving') = Len(saving) + 1
        /\ saving'[Len(saving) + 1] = own
        /\ \A n \in 1..Len(saving) : saving'[n] = over[n]
    BY <2>3, <2>4, <2>5, <2>6
  <2> QED BY <2>2, <2>3, <2>7
<1>19. \A other \in Ids : /\ Contains(open, other) => tab'[other] = tabs[other]
                          /\ ~Contains(open, other) => tab'[other] = RequestTab
                          /\ pending'[other] = {}
  <2>1. open \in Seq(Ids)
    BY <1>2 DEF TypeInv
  <2> QED BY <1>1, <1>10, <2>1, StoreFacts
<1>20. tab'[id] = tabs[id] /\ pending'[id] = {}
  BY <1>4, <1>19
<1>21. ASSUME NEW m \in 1..Len(recentlyClosed'), recentlyClosed'[m].id = id
       PROVE  recentlyClosed'[m].tab.link # r
  <2>1. /\ m \in 1..Len(recentlyClosed)
        /\ recentlyClosed'[m].id = recentlyClosed[m].id
        /\ recentlyClosed'[m].tab = Reconcile(recentlyClosed[m].tab, lib)
    BY <1>1, <1>2, <1>7, ClosedReconciled
  <2>2. recentlyClosed[m].tab \in TabRecords
    BY <1>2, <2>1, ClosedTypes
  <2>3. recentlyClosed'[m].tab.link # NoRequest =>
          recentlyClosed'[m].tab.link = recentlyClosed[m].tab.link
    BY <1>7, <2>1, <2>2, ReconcileFacts
  <2> QED BY <1>11, <1>14, <1>21, <2>1, <2>3
<1>22. SaveInv'
  <2> SUFFICES ASSUME NEW n \in 1..Len(saving) + 1
               PROVE  LET save == saving'[n]
                      IN  /\ save.request \in used' /\ save.tab \in used' \cup {Endpoint}
                          /\ ~save.overtaken =>
                               /\ tab'[save.tab].link = save.request =>
                                    /\ pending'[save.tab] = {}
                                    /\ library'[save.request]
                                         = Sanitized(tab'[save.tab].content)
                               /\ \A m \in 1..Len(recentlyClosed') :
                                    recentlyClosed'[m].id = save.tab
                                      /\ recentlyClosed'[m].tab.link = save.request
                                      => library'[save.request]
                                           = Sanitized(recentlyClosed'[m].tab.content)
    BY <1>18 DEF SaveInv
  <2>1. library'[r] = Sanitized(tab'[id].content)
    BY <1>1, <1>7, <1>9, <1>20 DEF c
  <2>2. CASE n = Len(saving) + 1
    <3>1. saving'[n].tab = id /\ saving'[n].request = r
      BY <1>18, <2>2
    <3>2. r \in used' /\ id \in used' \cup {Endpoint}
      BY <1>1, <1>2, <1>4 DEF LinkInv
    <3> QED BY <1>20, <1>21, <2>1, <3>1, <3>2
  <2>3. CASE n # Len(saving) + 1
    <3>1. n \in 1..Len(saving)
      BY <1>18, <2>3
    <3>2. saving[n].tab \in Ids /\ saving[n].request \in RequestIds
          /\ saving[n].request # NoRequest
      BY <1>2, <3>1, SavingTypes
    <3>3. saving[n].request \in used' /\ saving[n].tab \in used' \cup {Endpoint}
      BY <1>1, <1>2, <3>1 DEF SaveInv
    <3>4. saving'[n].tab = saving[n].tab /\ saving'[n].request = saving[n].request
      BY <1>18, <3>1
    <3>5. ASSUME ~saving'[n].overtaken
          PROVE  /\ tab'[saving[n].tab].link = saving[n].request =>
                      /\ pending'[saving[n].tab] = {}
                      /\ library'[saving[n].request] = Sanitized(tab'[saving[n].tab].content)
                 /\ \A m \in 1..Len(recentlyClosed') :
                      recentlyClosed'[m].id = saving[n].tab
                        /\ recentlyClosed'[m].tab.link = saving[n].request
                        => library'[saving[n].request]
                             = Sanitized(recentlyClosed'[m].tab.content)
      <4>1. ~saving[n].overtaken /\ (saving[n].request # r \/ saving[n].tab = id)
        BY <1>18, <3>1, <3>5
      <4>2. CASE saving[n].request = r
        BY <1>20, <1>21, <2>1, <4>1, <4>2
      <4>3. CASE saving[n].request # r
        <5>1. lib[saving[n].request] \in {library[saving[n].request], NoRequest}
          BY <1>7, <3>2, <4>3
        <5>2. tab'[saving[n].tab].link = saving[n].request =>
                /\ Reconcile(Flushed[saving[n].tab], lib).link = saving[n].request
                /\ tab'[saving[n].tab].content
                     = Reconcile(Flushed[saving[n].tab], lib).content
          BY <1>8, <1>9, <1>19, <3>2, <4>3 DEF RequestTab
        <5>3. pending'[saving[n].tab] = {}
          BY <1>19, <3>2
        <5> QED BY <1>1, <1>7, <1>16, <3>1, <4>1, <5>1, <5>2, <5>3, SaveSurvives
      <4> QED BY <4>2, <4>3
    <3> QED BY <3>3, <3>4, <3>5
  <2> QED BY <2>2, <2>3
<1>23. OthersChanged
  BY <1>1, <1>3, <1>18 DEF operationVars, OthersChanged
<1>24. Spared(id, tabs[id], lib, r)
  <2>1. /\ tabs[id] \in TabRecords /\ tabs[id].running = tab[id].running
        /\ tabs[id].answer = tab[id].answer /\ tabs[id].checked = tab[id].checked
        /\ tabs[id].content = drafts[id]
    BY <1>4, <1>5, <1>9
  <2>2. lib[r] # NoRequest
    BY <1>6, <1>7
  <2> QED BY <1>1, <1>9, <1>12, <2>1, <2>2 DEF Spared
<1>25. id \in Ids \cup {NoTab}
  BY <1>4
<1>26. \A other \in Ids : other # id => tabs[other] = Reconcile(Flushed[other], lib)
  BY <1>8
<1> QED
  BY <1>1, <1>7, <1>15, <1>16, <1>22, <1>23, <1>24, <1>25, <1>26, LibraryStep

LEMMA SaveReturnsStep ==
  ASSUME WInv, NEW n \in 1..Len(saving), NEW durable \in BOOLEAN, SaveReturns(n, durable)
  PROVE  Good
<1> DEFINE tabs == Reconciled(library)
           saves == Detached(Flushed, tabs, open)
           save == saves[n]
           id == save.tab
           draft == IF save.draft = Live THEN tabs[id].content ELSE save.draft
           clean == /\ durable
                    /\ ~SecretsRemoved(save.request, draft)
                    /\ IsOpen(id) /\ tabs[id].link = save.request
                    /\ Definition(tabs[id].content) = Definition(draft)
           final == IF clean THEN [tabs EXCEPT ![id].dirty = FALSE] ELSE tabs
<1>1. /\ Store(final, open) /\ ReconcileClosed(library)
      /\ saving' = RemoveAt(saves, n)
      /\ disk' = (IF durable THEN library ELSE disk)
      /\ locked' \in (IF durable THEN {locked} ELSE {locked, TRUE})
      /\ glossed' = (IF clean /\ save.overtaken THEN glossed \cup {id} ELSE glossed)
      /\ UNCHANGED <<activeTabID, operationVars, library, counters>>
  BY DEF SaveReturns
<1>2. TypeInv /\ LibraryInv /\ SaveInv /\ CleanInv
  BY DEF WInv
<1>3. /\ library \in [RequestIds -> Saved] /\ disk \in [RequestIds -> Saved]
      /\ locked \in BOOLEAN /\ glossed \subseteq Ids /\ actions \in Nat
      /\ open \in Seq(Ids) /\ saving \in Seq(SaveRecords)
  BY <1>2 DEF TypeInv
<1>4. \A other \in Ids : tabs[other] = Reconcile(Flushed[other], library)
  BY DEF Reconciled
<1>5. DOMAIN tabs = Ids
  BY DEF Reconciled
<1>6. clean => /\ ~SecretsRemoved(save.request, draft)
               /\ IsOpen(id) /\ tabs[id].link = save.request
               /\ Definition(tabs[id].content) = Definition(draft)
  OBVIOUS
<1>7. Definition(tabs[id].content) = Definition(draft)
        => tabs[id].content.headers = draft.headers
  <2>1. "headers" \in Fields
    BY DEF Fields
  <2> HIDE DEF tabs, draft, id
  <2> QED BY <2>1 DEF Definition
<1>8. \A other \in Ids : Flushed[other].content \in Contents /\ Flushed[other] \in TabRecords
  BY Drafted DEF TabRecords
<1>9. /\ saves \in Seq(SaveRecords) /\ Len(saves) = Len(saving)
      /\ \A k \in 1..Len(saving) :
           /\ saves[k].tab = saving[k].tab /\ saves[k].request = saving[k].request
           /\ saves[k].overtaken = saving[k].overtaken
  <2> HIDE DEF tabs
  <2> QED BY <1>2, <1>8, DetachedFacts
<1> DEFINE r == saving[n].request
<1>10. id \in Ids /\ id = saving[n].tab /\ save.request = r /\ r \in RequestIds
       /\ r # NoRequest /\ save.overtaken = saving[n].overtaken
  BY <1>2, <1>9, SavingTypes
<1>11. clean \in BOOLEAN
  OBVIOUS
<1>12. clean => /\ IsOpen(id) /\ tabs[id].link = r
                /\ library[r] # NoRequest => library[r].headers = tabs[id].content.headers
  BY <1>6, <1>7, <1>10 DEF SecretsRemoved
<1> HIDE DEF tabs, saves, save, id, draft, clean
<1>13. \A other \in Ids : other # id => final[other] = tabs[other]
  BY <1>5, <1>10
<1>14. final[id] = IF clean THEN [tabs[id] EXCEPT !.dirty = FALSE] ELSE tabs[id]
  BY <1>5, <1>10
<1>15. \A other \in Ids :
         LET new == tabs[other]
         IN  /\ new \in TabRecords /\ new.running = tab[other].running
             /\ new.link # NoRequest =>
                  new.link = tab[other].link /\ library[new.link] # NoRequest
             /\ ~new.dirty /\ new.link # NoRequest => library[new.link] = new.content
             /\ \/ new.answer = 0
                \/ new.answer = tab[other].answer /\ new.checked = tab[other].checked
             /\ other \notin glossed => new.content = drafts[other]
  <2>1. \A other \in Ids : tab[other].link # NoRequest =>
          library[tab[other].link] \in {library[tab[other].link], NoRequest}
    OBVIOUS
  <2> QED BY <1>3, <1>4, <2>1, ReconciledTab
<1>16. /\ final[id] \in TabRecords /\ final[id].link = tabs[id].link
       /\ final[id].content = tabs[id].content /\ final[id].running = tabs[id].running
       /\ final[id].answer = tabs[id].answer /\ final[id].checked = tabs[id].checked
  <2>1. PICK no \in BOOLEAN, f \in TabRecords : no = FALSE /\ f = tabs[id]
    BY <1>10, <1>15
  <2>2. CASE clean
    <3>1. final[id] = [f EXCEPT !.dirty = no]
      BY <1>14, <2>1, <2>2
    <3>2. /\ final[id] \in TabRecords /\ final[id].link = f.link
          /\ final[id].content = f.content /\ final[id].running = f.running
          /\ final[id].answer = f.answer /\ final[id].checked = f.checked
      BY <2>1, <3>1 DEF TabRecords
    <3> QED BY <2>1, <3>2
  <2>3. CASE ~clean
    BY <1>14, <2>1, <2>3
  <2> QED BY <2>2, <2>3
<1>17. \A other \in Ids : final[other] \in TabRecords /\ final[other].link = tabs[other].link
                          /\ final[other].content = tabs[other].content
  BY <1>13, <1>15, <1>16
<1> HIDE DEF final, r
<1>18. \A other \in Ids : /\ Contains(open, other) => tab'[other] = final[other]
                          /\ ~Contains(open, other) => tab'[other] = RequestTab
                          /\ pending'[other] = {}
  BY <1>1, <1>3, <1>17, StoreFacts
<1>19. LibraryInv'
  BY <1>1, <1>2 DEF LibraryInv, counters
<1>20. /\ saving' \in Seq(SaveRecords) /\ Len(saving') = Len(saving) - 1
       /\ \A k \in 1..Len(saving) - 1 : saving'[k] = saves[IF k < n THEN k ELSE k + 1]
  <2>1. n \in 1..Len(saves) /\ saves \in Seq(SaveRecords) /\ Len(saves) = Len(saving)
    BY <1>9
  <2>2. /\ RemoveAt(saves, n) \in Seq(SaveRecords)
        /\ Len(RemoveAt(saves, n)) = Len(saves) - 1
        /\ \A k \in 1..Len(saves) - 1 :
             RemoveAt(saves, n)[k] = saves[IF k < n THEN k ELSE k + 1]
    BY <2>1, RemoveFacts
  <2>3. saving' = RemoveAt(saves, n)
    BY <1>1
  <2> QED BY <2>1, <2>2, <2>3
<1>21. SaveInv'
  <2> SUFFICES ASSUME NEW k \in 1..Len(saving) - 1
               PROVE  LET entry == saving'[k]
                      IN  /\ entry.request \in used' /\ entry.tab \in used' \cup {Endpoint}
                          /\ ~entry.overtaken =>
                               /\ tab'[entry.tab].link = entry.request =>
                                    /\ pending'[entry.tab] = {}
                                    /\ library'[entry.request]
                                         = Sanitized(tab'[entry.tab].content)
                               /\ \A m \in 1..Len(recentlyClosed') :
                                    recentlyClosed'[m].id = entry.tab
                                      /\ recentlyClosed'[m].tab.link = entry.request
                                      => library'[entry.request]
                                           = Sanitized(recentlyClosed'[m].tab.content)
    BY <1>20 DEF SaveInv
  <2>1. PICK j \in 1..Len(saving) : saving'[k] = saves[j]
    <3>1. Len(saving) \in Nat
      BY <1>3
    <3>2. (IF k < n THEN k ELSE k + 1) \in 1..Len(saving)
      BY <3>1
    <3> QED BY <1>20, <3>2
  <2>2. /\ saving'[k].tab = saving[j].tab /\ saving'[k].request = saving[j].request
        /\ saving'[k].overtaken = saving[j].overtaken
    BY <1>9, <2>1
  <2>3. saving[j].tab \in Ids /\ saving[j].request \in RequestIds
        /\ saving[j].request # NoRequest
    BY <1>2, SavingTypes
  <2>4. saving[j].request \in used' /\ saving[j].tab \in used' \cup {Endpoint}
    BY <1>1, <1>2 DEF SaveInv, counters
  <2>5. tab'[saving[j].tab].link = saving[j].request =>
          /\ Reconcile(Flushed[saving[j].tab], library).link = saving[j].request
          /\ tab'[saving[j].tab].content
               = Reconcile(Flushed[saving[j].tab], library).content
    BY <1>4, <1>17, <1>18, <2>3 DEF RequestTab
  <2>6. pending'[saving[j].tab] = {} /\ library' = library
    BY <1>1, <1>18, <2>3
  <2>7. ASSUME ~saving[j].overtaken
        PROVE  /\ tab'[saving[j].tab].link = saving[j].request =>
                    /\ pending'[saving[j].tab] = {}
                    /\ library'[saving[j].request] = Sanitized(tab'[saving[j].tab].content)
               /\ \A m \in 1..Len(recentlyClosed') :
                    recentlyClosed'[m].id = saving[j].tab
                      /\ recentlyClosed'[m].tab.link = saving[j].request
                      => library'[saving[j].request]
                           = Sanitized(recentlyClosed'[m].tab.content)
    BY <1>1, <1>3, <1>19, <2>5, <2>6, <2>7, SaveSurvives
  <2> QED BY <2>2, <2>4, <2>7
<1>22. OthersChanged
  <2>1. locked' \in BOOLEAN
    BY <1>1, <1>3
  <2>2. glossed \subseteq glossed' /\ glossed' \subseteq Ids
    BY <1>1, <1>3, <1>10
  <2>3. disk' \in [RequestIds -> Saved]
    BY <1>1, <1>3
  <2> QED BY <1>1, <1>3, <1>20, <2>1, <2>2, <2>3 DEF operationVars, counters, OthersChanged
\* Nothing overtook the save: the tab is what it wrote, and that holds no secret.
<1>23. ASSUME clean, id \notin glossed' PROVE library[r] = tabs[id].content
  <2>1. ~saving[n].overtaken
    BY <1>1, <1>10, <1>23
  <2>2. /\ tabs[id] \in TabRecords /\ tabs[id].link = r /\ tab[id].link = r
        /\ library[r] # NoRequest /\ library[r].headers = tabs[id].content.headers
    BY <1>10, <1>12, <1>15, <1>23
  <2>3. pending[id] = {} /\ library[r] = Sanitized(tab[id].content)
    BY <1>2, <1>10, <2>1, <2>2 DEF SaveInv, r
  <2>4. Flushed[id] = tab[id] /\ tab[id] \in TabRecords
    BY <1>2, <1>10, <2>3, Drafted DEF TypeInv
  <2>5. tabs[id].content = tab[id].content \/ library[r] = tabs[id].content
    <3>1. tabs[id] = Reconcile(tab[id], library)
      BY <1>4, <1>10, <2>4
    <3>2. \/ tabs[id].content = tab[id].content
          \/ /\ tabs[id].link # NoRequest
             /\ tabs[id].content = library[tabs[id].link]
      <4>1. tab[id] \in TabRecords /\ library \in [RequestIds -> Saved]
        BY <1>3, <2>4
      <4> QED BY <3>1, <4>1, ReconcileFacts
    <3> QED BY <2>2, <3>2
  <2>6. ASSUME tabs[id].content = tab[id].content PROVE library[r] = tabs[id].content
    <3>1. tab[id].content \in Contents
      BY <2>4 DEF TabRecords
    <3> QED BY <2>2, <2>3, <2>6, <3>1, SanitizedFacts
  <2> QED BY <2>5, <2>6
<1>24. CASE clean
  <2>1. Spared(id, final[id], library, r)
    <3>1. /\ final[id].link # NoRequest => /\ library[final[id].link] # NoRequest
                                           /\ final[id].link = tab[id].link
          /\ final[id].running = tab[id].running
          /\ \/ final[id].answer = 0
             \/ final[id].answer = tab[id].answer /\ final[id].checked = tab[id].checked
          /\ id \notin glossed => final[id].content = drafts[id]
      BY <1>10, <1>15, <1>16
    <3>2. id \notin glossed' => library[final[id].link] = final[id].content
      BY <1>12, <1>16, <1>23, <1>24
    <3> QED BY <1>16, <3>1, <3>2 DEF Spared
  <2>2. \A other \in Ids : other # id => final[other] = Reconcile(Flushed[other], library)
    BY <1>4, <1>13
  <2>3. \A other \in Ids : other # id /\ tab[other].link # NoRequest =>
          library[tab[other].link] \in {library[tab[other].link], NoRequest}
    OBVIOUS
  <2>4. id \in Ids \cup {NoTab} /\ r \in RequestIds /\ library' = library
    BY <1>1, <1>10
  <2> QED BY <1>1, <1>3, <1>19, <1>21, <1>22, <2>1, <2>2, <2>3, <2>4, LibraryStep
<1>25. CASE ~clean
  <2>1. \A other \in Ids : final[other] = Reconcile(Flushed[other], library)
    BY <1>4, <1>10, <1>13, <1>14, <1>25
  <2>2. NoTab \in Ids \cup {NoTab} /\ r \in RequestIds /\ library' = library
        /\ NoTab \notin Ids
    BY <1>1, <1>10, WorkspaceAssumption
  <2>3. \A other \in Ids : other # NoTab /\ tab[other].link # NoRequest =>
          library[tab[other].link] \in {library[tab[other].link], NoRequest}
    OBVIOUS
  <2> QED BY <1>1, <1>3, <1>19, <1>21, <1>22, <2>1, <2>2, <2>3, LibraryStep
<1> QED
  BY <1>11, <1>24, <1>25

-----------------------------------------------------------------------------
(* Loading the window again *)

LEMMA PersistedFacts ==
  ASSUME NEW record \in TabRecords
  PROVE  /\ PersistedTab(record) \in TabRecords
         /\ PersistedTab(record).link = record.link
         /\ ~PersistedTab(record).running /\ PersistedTab(record).answer = 0
<1>1. PICK no \in BOOLEAN, zero \in Nat, c \in Contents :
        no = FALSE /\ zero = 0 /\ c = Sanitized(record.content)
  BY SanitizedFacts DEF TabRecords
<1>2. PersistedTab(record) = [record EXCEPT !.content = c, !.openApi = no, !.running = no,
                                            !.answer = zero, !.checked = no]
  BY <1>1 DEF PersistedTab
<1>3. /\ PersistedTab(record) \in TabRecords /\ PersistedTab(record).link = record.link
      /\ PersistedTab(record).running = no /\ PersistedTab(record).answer = zero
  BY <1>1, <1>2 DEF TabRecords
<1> QED
  BY <1>1, <1>3

\* What is read of a tab is idle, shows no answer, and is linked as it was.
LEMMA ReadFacts ==
  ASSUME NEW record \in TabRecords, NEW lib \in [RequestIds -> Saved]
  PROVE  LET new == Reconcile(PersistedTab(record), lib)
         IN  /\ new \in TabRecords /\ ~new.running /\ new.answer = 0
             /\ new.link # NoRequest => new.link = record.link /\ lib[new.link] # NoRequest
             /\ ~new.dirty /\ new.link # NoRequest => lib[new.link] = new.content
<1> DEFINE old == PersistedTab(record)
<1>1. old \in TabRecords /\ old.link = record.link /\ ~old.running /\ old.answer = 0
  BY PersistedFacts
<1> HIDE DEF old
<1>2. LET new == Reconcile(old, lib)
      IN  /\ new \in TabRecords /\ new.running = old.running
          /\ new.link # NoRequest => new.link = old.link /\ lib[new.link] # NoRequest
          /\ ~new.dirty /\ new.link # NoRequest => lib[new.link] = new.content
          /\ new.answer = 0 \/ new.answer = old.answer
  BY <1>1, ReconcileFacts
<1> QED
  BY <1>1, <1>2 DEF old

LEMMA ReloadStep ==
  ASSUME WInv, Reload
  PROVE  Good
<1>1. PICK tabs \in {Flushed, tab}, read \in {library, disk} :
        LET kept == Entries(open, {n \in 1..Len(open) : ~tabs[open[n]].session})
            closed == Entries(recentlyClosed, {n \in 1..Len(recentlyClosed) :
                                                 ~recentlyClosed[n].tab.session})
        IN  /\ Act
            /\ Store([id \in Ids |-> Reconcile(PersistedTab(tabs[id]), read)], kept)
            /\ recentlyClosed' = [n \in 1..Len(closed) |->
                 [closed[n] EXCEPT !.tab = Reconcile(PersistedTab(@), read)]]
            /\ activeTabID' = IF activeTabID # NoTab /\ Contains(kept, activeTabID)
                              THEN activeTabID
                              ELSE IF kept = <<>> THEN NoTab ELSE kept[1]
            /\ token' = [id \in Ids |-> 0]
            /\ canceling' = {} /\ cancels' = {}
            /\ sends' = [n \in 1..Len(sends) |-> [sends[n] EXCEPT !.at = "done"]]
            /\ library' = read /\ disk' = read
            /\ locked' = FALSE
            /\ saving' = <<>>
            /\ glossed' = {}
            /\ UNCHANGED <<edits, used>>
  BY DEF Reload
<1> DEFINE keep == {n \in 1..Len(open) : ~tabs[open[n]].session}
           left == {n \in 1..Len(recentlyClosed) : ~recentlyClosed[n].tab.session}
           kept == Entries(open, keep)
           closed == Entries(recentlyClosed, left)
           all == [id \in Ids |-> Reconcile(PersistedTab(tabs[id]), read)]
<1>2. /\ actions' = actions + 1 /\ Store(all, kept)
      /\ recentlyClosed' = [n \in 1..Len(closed) |->
           [closed[n] EXCEPT !.tab = Reconcile(PersistedTab(closed[n].tab), read)]]
      /\ activeTabID' = IF activeTabID # NoTab /\ Contains(kept, activeTabID)
                        THEN activeTabID
                        ELSE IF kept = <<>> THEN NoTab ELSE kept[1]
      /\ token' = [id \in Ids |-> 0] /\ canceling' = {} /\ cancels' = {}
      /\ sends' = [n \in 1..Len(sends) |-> [sends[n] EXCEPT !.at = "done"]]
      /\ library' = read /\ disk' = read /\ locked' = FALSE /\ saving' = <<>>
      /\ glossed' = {} /\ UNCHANGED <<edits, used>>
  BY <1>1 DEF Act
<1>3. keep \in SUBSET (1..Len(open)) /\ left \in SUBSET (1..Len(recentlyClosed))
  OBVIOUS
<1>4. \A id \in Ids : all[id] = Reconcile(PersistedTab(tabs[id]), read)
  OBVIOUS
<1> HIDE DEF keep, left, kept, closed, all
<1>5. TypeInv /\ TabInv /\ LibraryInv /\ LinkInv
  BY DEF WInv
<1>6. \A id \in Ids : tabs[id] \in TabRecords /\ tabs[id].link = tab[id].link
  <2>1. \A id \in Ids : tab[id] \in TabRecords
    BY <1>5 DEF TypeInv
  <2> QED BY <2>1, Drafted
<1>7. /\ read \in [RequestIds -> Saved]
      /\ \A r \in RequestIds : read[r] # NoRequest => read[r].headers # "secret" /\ r \in used
  BY <1>5 DEF TypeInv, LibraryInv
<1>8. \A id \in Ids :
        /\ all[id] \in TabRecords /\ ~all[id].running /\ all[id].answer = 0
        /\ all[id].link # NoRequest =>
             all[id].link = tab[id].link /\ read[all[id].link] # NoRequest
        /\ ~all[id].dirty /\ all[id].link # NoRequest =>
             read[all[id].link] = all[id].content
  BY <1>4, <1>6, <1>7, ReadFacts
<1>9. /\ kept \in Seq(Ids) /\ IsInjective(kept)
      /\ \A id \in Ids : Contains(kept, id) => IsOpen(id)
  <2>1. /\ kept \in Seq(Ids) /\ IsInjective(kept)
        /\ \A k \in 1..Len(kept) : \E n \in keep : kept[k] = open[n]
    BY <1>3, SomeOpen DEF kept
  <2> QED BY <1>3, <2>1 DEF Contains, IsOpen
<1>10. Activates(kept)
  <2>1. CASE activeTabID # NoTab /\ Contains(kept, activeTabID)
    <3>1. kept # <<>>
      BY <2>1 DEF Contains
    <3> QED BY <1>2, <2>1, <3>1 DEF Activates
  <2>2. CASE ~(activeTabID # NoTab /\ Contains(kept, activeTabID)) /\ kept # <<>>
    <3>1. activeTabID' = kept[1] /\ 1 \in 1..Len(kept)
      BY <1>2, <1>9, <2>2
    <3> QED BY <2>2, <3>1 DEF Activates, Contains
  <2>3. CASE ~(activeTabID # NoTab /\ Contains(kept, activeTabID)) /\ kept = <<>>
    BY <1>2, <2>3 DEF Activates
  <2> QED BY <2>1, <2>2, <2>3
<1>11. /\ open' = kept
       /\ \A id : (IsOpen(id))' <=> Contains(kept, id)
       /\ tab' \in [Ids -> TabRecords] /\ drafts' \in [Ids -> Contents]
       /\ pending' \in [Ids -> SUBSET Fields]
       /\ \A id \in Ids : Contains(kept, id) => tab'[id] = all[id]
       /\ \A id \in Ids : ~Contains(kept, id) => tab'[id] = RequestTab
  BY <1>2, <1>8, <1>9, StoreFacts
<1>12. TabInv'
  BY <1>2, <1>8, <1>9, <1>10, StoreTabInv DEF Activates
<1>13. ~RequestTab.running /\ RequestTab.answer = 0 /\ RequestTab.link = NoRequest
  BY DEF RequestTab
<1>14. \A id \in Ids :
         /\ ~tab'[id].running /\ tab'[id].answer = 0
         /\ tab'[id].link # NoRequest =>
              tab'[id].link = tab[id].link /\ read[tab'[id].link] # NoRequest
         /\ ~tab'[id].dirty /\ tab'[id].link # NoRequest =>
              read[tab'[id].link] = tab'[id].content
  BY <1>8, <1>11, <1>13
<1>15. PICK place \in [1..Len(closed) -> left] :
         /\ \A k \in 1..Len(closed) : closed[k] = recentlyClosed[place[k]]
         /\ \A j, k \in 1..Len(closed) : place[j] = place[k] => j = k
  <2>1. recentlyClosed \in Seq(ClosedRecords)
    BY <1>5 DEF TypeInv
  <2>2. \E place \in [1..Len(closed) -> left] :
          /\ \A k \in 1..Len(closed) : closed[k] = recentlyClosed[place[k]]
          /\ \A j, k \in 1..Len(closed) : place[j] = place[k] => j = k
          /\ \A n \in left : \E k \in 1..Len(closed) : place[k] = n
    BY <1>3, <2>1, EntriesFacts DEF closed
  <2> HIDE DEF closed
  <2> QED BY <2>2
<1>16. /\ closed \in Seq(ClosedRecords) /\ Len(closed) \in Nat
       /\ Len(closed) <= Len(recentlyClosed) /\ Len(recentlyClosed) \in Nat
  <2>1. recentlyClosed \in Seq(ClosedRecords)
    BY <1>5 DEF TypeInv
  <2>2. closed \in Seq(ClosedRecords) /\ Len(closed) = Cardinality(left)
    BY <1>3, <2>1, EntriesFacts DEF closed
  <2>3. IsFiniteSet(1..Len(recentlyClosed))
        /\ Cardinality(1..Len(recentlyClosed)) = Len(recentlyClosed)
    <3>1. PICK l \in Nat : l = Len(recentlyClosed)
      BY <2>1
    <3>2. IsFiniteSet(1..l) /\ Cardinality(1..l) = IF 1 > l THEN 0 ELSE l - 1 + 1
      BY FS_Interval
    <3>3. Cardinality(1..l) = l
      BY <3>2
    <3> QED BY <3>1, <3>2, <3>3
  <2>4. Cardinality(left) <= Len(recentlyClosed)
    <3> DEFINE places == 1..Len(recentlyClosed)
    <3>1. left \in SUBSET places /\ IsFiniteSet(places)
      BY <1>3, <2>3
    <3> HIDE DEF places, left
    <3>2. Cardinality(left) <= Cardinality(places)
      BY <3>1, FS_Subset
    <3> QED BY <2>3, <3>2 DEF places
  <2> QED BY <2>1, <2>2, <2>4
<1>17. ASSUME NEW k \in 1..Len(closed)
       PROVE  LET m == place[k]
                  new == recentlyClosed'[k]
              IN  /\ m \in 1..Len(recentlyClosed) /\ new \in ClosedRecords
                  /\ new.id \in Ids /\ new.id = recentlyClosed[m].id /\ ~new.tab.running
                  /\ new.tab.link # NoRequest =>
                       /\ new.tab.link = recentlyClosed[m].tab.link
                       /\ read[new.tab.link] # NoRequest
                  /\ ~new.tab.dirty /\ new.tab.link # NoRequest =>
                       read[new.tab.link] = new.tab.content
  <2>1. place[k] \in 1..Len(recentlyClosed) /\ closed[k] = recentlyClosed[place[k]]
    BY <1>3, <1>15
  <2>2. closed[k] \in ClosedRecords /\ closed[k].id \in Ids /\ closed[k].tab \in TabRecords
    BY <1>5, <2>1, ClosedTypes
  <2>3. PICK t \in TabRecords : t = Reconcile(PersistedTab(closed[k].tab), read)
    BY <1>7, <2>2, ReadFacts
  <2>4. recentlyClosed'[k] = [closed[k] EXCEPT !.tab = t]
    BY <1>2, <2>3
  <2>5. /\ recentlyClosed'[k] \in ClosedRecords /\ recentlyClosed'[k].id = closed[k].id
        /\ recentlyClosed'[k].tab = t
    BY <2>2, <2>4 DEF ClosedRecords
  <2>6. /\ ~t.running
        /\ t.link # NoRequest => t.link = closed[k].tab.link /\ read[t.link] # NoRequest
        /\ ~t.dirty /\ t.link # NoRequest => read[t.link] = t.content
    BY <1>7, <2>2, <2>3, ReadFacts
  <2> QED BY <2>1, <2>2, <2>5, <2>6
<1>18. recentlyClosed' \in Seq(ClosedRecords) /\ Len(recentlyClosed') = Len(closed)
  <2>1. \A k \in 1..Len(closed) : recentlyClosed'[k] \in ClosedRecords
    BY <1>17
  <2> QED BY <1>2, <1>16, <2>1
<1>19. LinkInv'
  <2>1. \A id \in Ids : tab'[id].link # NoRequest => library'[tab'[id].link] # NoRequest
    BY <1>2, <1>14
  <2>2. ASSUME NEW id \in Ids, NEW other \in Ids,
               tab'[id].link = tab'[other].link, tab'[id].link # NoRequest
        PROVE  id = other
    BY <1>5, <1>14, <2>2 DEF LinkInv
  <2>3. ASSUME NEW k \in 1..Len(closed)
        PROVE  LET new == recentlyClosed'[k]
               IN  /\ ~new.tab.running
                   /\ new.id \in used' \cup {Endpoint}
                   /\ new.tab.link # NoRequest =>
                        /\ library'[new.tab.link] # NoRequest
                        /\ tab'[new.id].link # new.tab.link
                        /\ \A m \in 1..Len(closed) :
                             recentlyClosed'[m].id = new.id
                               /\ recentlyClosed'[m].tab.link = new.tab.link => m = k
    <3> DEFINE p == place[k]
    <3>1. /\ p \in 1..Len(recentlyClosed) /\ recentlyClosed'[k].id \in Ids
          /\ recentlyClosed'[k].id = recentlyClosed[p].id /\ ~recentlyClosed'[k].tab.running
          /\ recentlyClosed'[k].tab.link # NoRequest =>
               /\ recentlyClosed'[k].tab.link = recentlyClosed[p].tab.link
               /\ read[recentlyClosed'[k].tab.link] # NoRequest
      BY <1>17
    <3> HIDE DEF p
    <3>2. /\ recentlyClosed[p].id \in used \cup {Endpoint}
          /\ recentlyClosed[p].tab.link # NoRequest =>
               /\ tab[recentlyClosed[p].id].link # recentlyClosed[p].tab.link
               /\ \A m \in 1..Len(recentlyClosed) :
                    recentlyClosed[m].id = recentlyClosed[p].id
                      /\ recentlyClosed[m].tab.link = recentlyClosed[p].tab.link => m = p
      BY <1>5, <3>1 DEF LinkInv
    <3>3. recentlyClosed'[k].tab.link # NoRequest =>
            tab'[recentlyClosed'[k].id].link # recentlyClosed'[k].tab.link
      BY <1>14, <3>1, <3>2
    <3>4. ASSUME recentlyClosed'[k].tab.link # NoRequest, NEW m \in 1..Len(closed),
                 recentlyClosed'[m].id = recentlyClosed'[k].id,
                 recentlyClosed'[m].tab.link = recentlyClosed'[k].tab.link
          PROVE  m = k
      <4>1. /\ place[m] \in 1..Len(recentlyClosed)
            /\ recentlyClosed'[m].id = recentlyClosed[place[m]].id
            /\ recentlyClosed'[m].tab.link = recentlyClosed[place[m]].tab.link
        BY <1>17, <3>4
      <4>2. place[m] = p
        BY <3>1, <3>2, <3>4, <4>1
      <4> QED BY <1>15, <4>2 DEF p
    <3> QED BY <1>2, <3>1, <3>2, <3>3, <3>4
  <2>4. \A id \in Ids : (IsOpen(id))' => id \in used' \cup {Endpoint}
    BY <1>2, <1>5, <1>9, <1>11 DEF LinkInv
  <2> QED BY <1>18, <2>1, <2>2, <2>3, <2>4 DEF LinkInv
<1>20. CleanInv'
  <2>1. \A id \in Ids : ~tab'[id].dirty /\ tab'[id].link # NoRequest =>
          library'[tab'[id].link] = tab'[id].content
    BY <1>2, <1>14
  <2>2. \A k \in 1..Len(closed) :
          ~recentlyClosed'[k].tab.dirty /\ recentlyClosed'[k].tab.link # NoRequest =>
            library'[recentlyClosed'[k].tab.link] = recentlyClosed'[k].tab.content
    BY <1>2, <1>17
  <2> QED BY <1>18, <2>1, <2>2 DEF CleanInv
<1>21. LibraryInv' /\ SaveInv' /\ SentInv'
  BY <1>2, <1>7 DEF LibraryInv, SaveInv, SentInv
<1>22. OwnInv'
  BY <1>2, <1>14 DEF OwnInv
<1>23. AnswerStep
  BY <1>14 DEF AnswerStep
<1>24. TypeInv'
  <2>1. sends' \in Seq(SendRecords) /\ Len(sends') = Len(sends) /\ Len(sends) \in Nat
    <3>1. sends \in Seq(SendRecords) /\ \A n \in 1..Len(sends) : sends[n] \in SendRecords
      BY <1>5 DEF TypeInv
    <3>2. \A n \in 1..Len(sends) : sends'[n] \in SendRecords
      <4> SUFFICES ASSUME NEW n \in 1..Len(sends) PROVE sends'[n] \in SendRecords
        OBVIOUS
      <4>1. PICK done \in {"sent", "checking", "done"} : done = "done"
        OBVIOUS
      <4>2. sends'[n] = [sends[n] EXCEPT !.at = done]
        BY <1>2, <4>1
      <4> QED BY <3>1, <4>2 DEF SendRecords
    <3> QED BY <1>2, <3>1, <3>2
  <2>2. token' \in [Ids -> 0..Len(sends')]
    BY <1>2, <2>1
  <2>3. Len(recentlyClosed') <= MaxClosed
    BY <1>5, <1>16, <1>18, WorkspaceAssumption DEF TypeInv
  <2>4. saving' \in Seq(SaveRecords) /\ actions' \in Nat /\ activeTabID' \in Ids \cup {NoTab}
    BY <1>2, <1>5, <1>9, <1>10, ActiveTypes DEF TypeInv
  <2>5. edits' \in 0..MaxEdits
    BY <1>2, <1>5 DEF TypeInv
  <2> QED BY <1>2, <1>7, <1>9, <1>11, <1>18, <2>1, <2>2, <2>3, <2>4, <2>5 DEF TypeInv
<1> QED
  BY <1>12, <1>19, <1>20, <1>21, <1>22, <1>23, <1>24 DEF Good, WInv

-----------------------------------------------------------------------------
(* The invariant and the theorems *)

LEMMA InitWInv == Init => WInv
<1> SUFFICES ASSUME Init PROVE WInv
  OBVIOUS
<1>1. Blank \in Contents /\ RequestTab \in TabRecords /\ RequestTab.content = Blank
      /\ RequestTab.link = NoRequest /\ ~RequestTab.running /\ Blank.headers = "plain"
  BY BlankFacts DEF RequestTab, Blank
<1>2. /\ open = <<>> /\ activeTabID = NoTab /\ recentlyClosed = <<>>
      /\ tab = [id \in Ids |-> RequestTab] /\ drafts = [id \in Ids |-> Blank]
      /\ pending = [id \in Ids |-> {}] /\ token = [id \in Ids |-> 0]
      /\ canceling = {} /\ cancels = {} /\ sends = <<>> /\ disk = library
      /\ used = {r \in RequestIds : library[r] # NoRequest}
      /\ locked = FALSE /\ saving = <<>> /\ edits = 0 /\ actions = 0 /\ glossed = {}
  BY DEF Init
<1>3. PICK S \in SUBSET RequestIds :
        library = [r \in RequestIds |-> IF r \in S THEN Blank ELSE NoRequest]
  BY DEF Init
<1>4. library \in [RequestIds -> Saved]
  BY <1>1, <1>3 DEF Saved
<1>5. TypeInv
  <2>1. token \in [Ids -> 0..Len(sends)]
    BY <1>2
  <2>2. Len(recentlyClosed) <= MaxClosed
    BY <1>2, WorkspaceAssumption
  <2>3. edits \in 0..MaxEdits
    BY <1>2, WorkspaceAssumption
  <2>4. /\ open \in Seq(Ids) /\ recentlyClosed \in Seq(ClosedRecords)
        /\ sends \in Seq(SendRecords) /\ saving \in Seq(SaveRecords)
    BY <1>2
  <2>5. tab \in [Ids -> TabRecords] /\ drafts \in [Ids -> Contents]
        /\ pending \in [Ids -> SUBSET Fields]
    BY <1>1, <1>2
  <2> QED BY <1>2, <1>4, <2>1, <2>2, <2>3, <2>4, <2>5 DEF TypeInv
<1>6. TabInv
  BY <1>1, <1>2 DEF TabInv, IsInjective, IsOpen
<1>7. OwnInv /\ SentInv /\ SaveInv
  BY <1>1, <1>2 DEF OwnInv, SentInv, SaveInv, IsOpen
<1>8. LibraryInv
  BY <1>1, <1>2, <1>3 DEF LibraryInv
<1>9. LinkInv /\ CleanInv
  BY <1>1, <1>2 DEF LinkInv, CleanInv, IsOpen
<1> QED
  BY <1>5, <1>6, <1>7, <1>8, <1>9 DEF WInv

LEMMA TabStepsKeep == ASSUME WInv, TabSteps PROVE Good
<1>1. CASE \E id \in Ids : NewRequest(id) \/ Activate(id) \/ TogglePin(id)
                           \/ CloseOtherTabs(id)
  BY <1>1, NewRequestStep, ActivateStep, TogglePinStep, CloseOtherTabsStep
<1>2. CASE OpenEndpoint
  BY <1>2, OpenEndpointStep
<1>3. CASE \E r \in RequestIds, id \in Ids : OpenSaved(r, id)
  BY <1>3, OpenSavedStep
<1>4. CASE \E id, copy \in Ids : DuplicateTab(id, copy)
  BY <1>4, DuplicateTabStep
<1>5. CASE \E n \in 1..Len(open) : CloseTab(n) \/ CloseTabsToRight(n)
  BY <1>5, CloseTabStep, CloseTabsToRightStep
<1>6. CASE \E m, n \in 1..Len(open) : ReorderTab(m, n)
  BY <1>6, ReorderTabStep
<1>7. CASE ReopenClosedTab
  BY <1>7, ReopenClosedTabStep
<1> QED
  BY <1>1, <1>2, <1>3, <1>4, <1>5, <1>6, <1>7 DEF TabSteps

LEMMA OperationStepsKeep == ASSUME WInv, OperationSteps PROVE Good
<1>1. CASE Send \/ SendRefused
  BY <1>1, SendStep, SendRefusedStep
<1>2. CASE \E n \in 1..Len(sends) : Responded(n) \/ Failed(n) \/ Validated(n)
  BY <1>2, AnswersStep
<1>3. CASE \E id \in Ids : Cancel(id)
  BY <1>3, CancelStep
<1>4. CASE \E c \in cancels, canceled \in BOOLEAN : CancelReturns(c, canceled)
  BY <1>4, CancelReturnsStep
<1> QED
  BY <1>1, <1>2, <1>3, <1>4 DEF OperationSteps

LEMMA LibraryStepsKeep == ASSUME WInv, LibrarySteps PROVE Good
<1>1. CASE \E r \in RequestIds : Save(r) \/ DeleteSaved(r)
  BY <1>1, SaveStep, DeleteSavedStep
<1>2. CASE \E n \in 1..Len(saving), durable \in BOOLEAN : SaveReturns(n, durable)
  BY <1>2, SaveReturnsStep
<1>3. CASE Reload
  BY <1>3, ReloadStep
<1> QED
  BY <1>1, <1>2, <1>3 DEF LibrarySteps

LEMMA UnchangedStep == ASSUME WInv, UNCHANGED vars PROVE Good
<1>1. UNCHANGED <<open, tab, activeTabID, recentlyClosed, drafts, pending, token, canceling,
                  sends, cancels, library, disk, locked, saving, edits, used, actions,
                  glossed>>
  BY DEF vars, tabVars, editorVars, operationVars, libraryVars, counters
<1>2. TypeInv'
  BY <1>1 DEF WInv, TypeInv
<1>3. TabInv' /\ OwnInv' /\ SentInv'
  BY <1>1 DEF WInv, TabInv, OwnInv, SentInv, IsOpen, IsInjective
<1>4. LibraryInv' /\ LinkInv' /\ CleanInv' /\ SaveInv'
  BY <1>1 DEF WInv, LibraryInv, LinkInv, CleanInv, SaveInv, IsOpen
<1>5. AnswerStep
  BY <1>1 DEF AnswerStep
<1> QED
  BY <1>2, <1>3, <1>4, <1>5 DEF Good, WInv

LEMMA NextWInv == WInv /\ [Next]_vars => WInv' /\ AnswerStep
<1> SUFFICES ASSUME WInv, [Next]_vars PROVE Good
  BY DEF Good
<1>1. CASE \E field \in Fields : Type(field)
  BY <1>1, TypeStep
<1>2. CASE FlushDrafts \/ ToggleLiteral
  BY <1>2, FlushDraftsStep, ToggleLiteralStep
<1>3. CASE TabSteps
  BY <1>3, TabStepsKeep
<1>4. CASE OperationSteps
  BY <1>4, OperationStepsKeep
<1>5. CASE LibrarySteps
  BY <1>5, LibraryStepsKeep
<1>6. CASE UNCHANGED vars
  BY <1>6, UnchangedStep
<1> QED
  BY <1>1, <1>2, <1>3, <1>4, <1>5, <1>6 DEF Next

LEMMA AlwaysWInv == Spec => []WInv
BY InitWInv, NextWInv, PTL DEF Spec

LEMMA WInvTypes == WInv => TypeOK
<1> SUFFICES ASSUME WInv PROVE TypeOK
  OBVIOUS
<1>1. TypeInv /\ TabInv /\ OwnInv /\ LinkInv
  BY DEF WInv
<1>2. \A id \in Ids : tab[id].content \in Contents /\ drafts[id] \in Contents
  BY <1>1 DEF TypeInv, TabRecords
<1>3. \A id \in Ids : pending[id] \subseteq Fields /\ token[id] \in 0..Len(sends)
  BY <1>1 DEF TypeInv
<1>4. ASSUME NEW r \in RequestIds PROVE Cardinality(Linked(r)) <= 1
  <2>1. \A id, other \in Linked(r) : id = other
    BY <1>1, WorkspaceAssumption DEF LinkInv, Linked
  <2>2. CASE Linked(r) = {}
    BY <2>2, FS_EmptySet
  <2>3. CASE Linked(r) # {}
    <3>1. PICK id : id \in Linked(r)
      BY <2>3
    <3>2. Linked(r) = {id}
      BY <2>1, <3>1
    <3> QED BY <3>2, FS_Singleton
  <2> QED BY <2>2, <2>3
<1>5. canceling \subseteq {id \in Ids : IsOpen(id)}
  BY <1>1 DEF TypeInv, OwnInv
<1> QED
  BY <1>1, <1>2, <1>3, <1>4, <1>5 DEF TypeOK, TypeInv, TabInv

\* Every variable keeps its type, a saved request is open in one tab at most,
\* and some tab is active when there is one, whatever is opened, closed, opened
\* again, saved, deleted or read again.
THEOREM WorkspaceTypeCorrect == Spec => []TypeOK
BY AlwaysWInv, WInvTypes, PTL

\* A tab runs exactly while its own last send is under way: none is left running.
THEOREM RunningTabsAreOwned == Spec => []RunningIsOwned
<1>1. WInv => RunningIsOwned
  <2> SUFFICES ASSUME WInv PROVE RunningIsOwned
    OBVIOUS
  <2>1. ASSUME NEW id \in Ids
        PROVE  (IsOpen(id) /\ tab[id].running)
                 <=> (token[id] # 0 /\ sends[token[id]].at = "sent")
    <3>1. tab[id].running <=> token[id] # 0 /\ sends[token[id]].at = "sent"
      BY DEF WInv, OwnInv
    <3>2. ~IsOpen(id) => token[id] = 0
      BY DEF WInv, OwnInv
    <3> QED BY <3>1, <3>2
  <2> QED BY <2>1, WInvTypes DEF RunningIsOwned
<1> QED
  BY <1>1, AlwaysWInv, PTL

\* A tab without the mark is what the library has of it, but for the tabs that
\* the property excepts.
THEOREM UnmarkedTabsAreSaved == Spec => []CleanIsSaved
<1>1. WInv => CleanIsSaved
  BY DEF WInv, CleanInv, CleanIsSaved
<1> QED
  BY <1>1, AlwaysWInv, PTL

\* Only the last send of a tab puts an answer on it, and only while the editor
\* holds the method and the URL that were sent.
THEOREM NoStaleAnswerIsShown == Spec => AnswersAreCurrent
<1>1. WInv /\ [Next]_vars => [AnswerStep]_vars
  BY NextWInv
<1> QED
  BY <1>1, AlwaysWInv, PTL DEF Spec, AnswersAreCurrent, AnswerStep

=============================================================================
