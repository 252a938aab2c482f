------------------------ MODULE CollectionStoreProofs ------------------------
(***************************************************************************)
(* Theorems about CollectionStore, for any collections and requests, any   *)
(* number of edits, retries and windows, and any host: what the storage    *)
(* says of the library on the screen is so.                                *)
(***************************************************************************)
EXTENDS CollectionStore, FiniteSetTheorems, SequenceTheorems, TLAPS

Loading == hydration = "reading"
Documents == Libraries \cup {Nothing, Newer}
StorageRecords ==
  [phase : {"loading", "saving", "ready", "error"}, hydrated : BOOLEAN,
   error : {"none", "read", "newer", "write", "conflict"},
   latestDocument : Documents, lastRequestedDocument : Documents,
   latestWrite : Nat, cycles : Seq({"open", "saved", "failed"}), active : Nat,
   sequence : Nat, settled : {"none", "saved", "failed"}, staleSuccess : BOOLEAN]
CallRecords ==
  [kind : {"load", "save"}, window : Nat \ {0}, document : Libraries \cup {Nothing},
   sequence : Nat, cycle : Nat]
WaiterRecords == [at : {"idle", "choosing", "waiting"}, edition : Nat, promise : Nat]
Waiting == {"import", "request"}

TypeInv ==
  /\ library \in Libraries /\ hydration \in {"idle", "reading", "migrating"}
  /\ persistenceEnabled \in BOOLEAN /\ storage \in StorageRecords
  /\ waiter \in [Waiting -> WaiterRecords]
  /\ legacy \in Libraries \cup {Missing} /\ host \in {"serial", "unordered"}
  /\ calls \in Seq(CallRecords)
  /\ file \in Libraries \cup {Missing, Newer}
  /\ observed \in Libraries \cup {Missing, Newer, Nothing}
  /\ edits \in 0..MaxEditions /\ others \in Nat /\ windows \in Nat \ {0}

\* No document carries the edition of an edit to come.
Past(d, e) == d \in Libraries => d.edition <= e \/ d.edition > MaxEditions
PastInv ==
  /\ Past(file, edits) /\ Past(legacy, edits)
  /\ Past(storage.latestDocument, edits) /\ Past(storage.lastRequestedDocument, edits)
  /\ \A i \in 1..Len(calls) : Past(calls[i].document, edits)

\* A load waits behind the saves of earlier windows and alone; otherwise the
\* calls are the saves of this window in the order they were sent.
QueueInv ==
  /\ windows > 1 => host = "serial"
  /\ Loading =>
       /\ calls # <<>> /\ calls[Len(calls)].kind = "load"
       /\ calls[Len(calls)].window = windows
       /\ \A i \in 1..(Len(calls) - 1) :
            /\ calls[i].kind = "save" /\ calls[i].window < windows
            /\ calls[i].document \in Libraries
  /\ ~Loading =>
       /\ \A i \in 1..Len(calls) :
            /\ calls[i].kind = "save" /\ calls[i].window = windows
            /\ calls[i].document \in Libraries /\ calls[i].cycle = storage.active
            /\ calls[i].sequence \in 1..storage.sequence
       /\ \A i, j \in 1..Len(calls) : i < j => calls[i].sequence < calls[j].sequence

\* A cycle is open exactly while a write of this window is in flight.
CycleInv ==
  /\ Loading => storage.active = 0
  /\ ~Loading => (storage.active # 0 <=> calls # <<>>)
  /\ storage.active \in 0..Len(storage.cycles)
  /\ storage.latestWrite \in 0..Len(storage.cycles)
  /\ \A n \in 1..Len(storage.cycles) : storage.cycles[n] = "open" <=> n = storage.active
  /\ storage.active # 0 => storage.latestWrite = storage.active

\* The newest write is in flight until it settles; when it was saved, it is what
\* the host stored last, or an older one is known to have been stored after it.
NewestInv ==
  ~Loading /\ calls # <<>> =>
    /\ storage.settled = "none" <=> calls[Len(calls)].sequence = storage.sequence
    /\ storage.settled = "none" => calls[Len(calls)].document = storage.latestDocument
    /\ storage.settled = "saved" =>
         /\ host = "unordered"
         /\ storage.staleSuccess \/ observed = storage.latestDocument

\* What is so until the library has been read.
LoadInv ==
  /\ storage.hydrated => hydration = "idle"
  /\ hydration = "idle" => (persistenceEnabled <=> storage.hydrated)
  /\ hydration # "idle" => storage.phase = "loading"
  /\ storage.error # "none" <=> storage.phase = "error"
  /\ ~storage.hydrated =>
       /\ library = Empty
       /\ \A w \in Waiting : waiter[w].at = "idle"
       /\ hydration = "idle" => /\ storage.phase = "error" /\ calls = <<>>
                                /\ storage.error \in {"read", "newer"}
       /\ hydration # "migrating" =>
            /\ storage.latestDocument = storage.lastRequestedDocument
            /\ \/ storage.latestDocument = Nothing
               \/ storage.latestDocument = Newer /\ file # Missing
  /\ hydration = "migrating" =>
       /\ Len(calls) = 1 /\ calls[1].document = legacy /\ legacy \in Libraries
       /\ storage.latestDocument = legacy /\ storage.lastRequestedDocument = Nothing
       /\ storage.settled = "none"

\* What the storage says of the library on the screen.
ScreenInv ==
  /\ Hydrate(library) = library
  /\ storage.hydrated =>
       /\ storage.error \in {"none", "write", "conflict"}
       /\ calls # <<>> => storage.phase = IF storage.settled = "failed" THEN "error"
                                                                        ELSE "saving"
       /\ calls = <<>> => storage.phase \in {"ready", "error"}
       /\ storage.phase = "ready" => Content(observed) = Content(storage.latestDocument)
       /\ Content(storage.latestDocument) = library
       /\ storage.lastRequestedDocument \in {Nothing, storage.latestDocument}
       /\ storage.lastRequestedDocument = Nothing /\ calls # <<>> =>
            Len(calls) = 1 /\ storage.settled = "none"
       /\ storage.phase # "ready" => /\ storage.lastRequestedDocument \in {Nothing, library}
                                     /\ storage.latestDocument \in Libraries

\* What is in flight or stored is no older than an edition whose cycle was saved.
WaitInv ==
  \A w \in Waiting : waiter[w].at = "waiting" =>
    /\ waiter[w].promise \in 1..Len(storage.cycles)
    /\ waiter[w].edition \in 1..edits
    /\ storage.latestDocument \in Libraries
    /\ storage.latestDocument.edition >= waiter[w].edition
    /\ storage.cycles[waiter[w].promise] = "saved" =>
         /\ observed \in Libraries /\ observed.edition >= waiter[w].edition
         /\ \A i \in 1..Len(calls) : calls[i].document.edition >= waiter[w].edition

CInv == TypeInv /\ PastInv /\ QueueInv /\ CycleInv /\ NewestInv /\ LoadInv /\ ScreenInv
        /\ WaitInv

-----------------------------------------------------------------------------
(* Documents *)

LEMMA DocumentFacts ==
  /\ Missing \notin Libraries /\ Newer \notin Libraries /\ Nothing \notin Libraries
  /\ Missing # Newer /\ Missing # Nothing /\ Newer # Nothing
  /\ Empty \in Libraries
  /\ \A d \in Libraries : d.edition \in Nat /\ Hydrate(d) \in Libraries
                          /\ Hydrate(Hydrate(d)) = Hydrate(d)
                          /\ Hydrate(d).edition = d.edition
                          /\ Content(d) = Hydrate(d)
  /\ Hydrate(Empty) = Empty
  /\ Content(Missing) = Empty /\ Content(Newer) = Empty /\ Content(Nothing) = Empty
<1>1. /\ Missing \notin Libraries /\ Newer \notin Libraries /\ Nothing \notin Libraries
      /\ Missing # Newer /\ Missing # Nothing /\ Newer # Nothing
      /\ Nowhere \notin CollectionIds
  BY StoreAssumption
<1>2. Empty \in Libraries
  BY DEF Empty, Libraries
<1>3. ASSUME NEW d \in Libraries
      PROVE  /\ d.edition \in Nat /\ Hydrate(d) \in Libraries
             /\ Hydrate(Hydrate(d)) = Hydrate(d) /\ Hydrate(d).edition = d.edition
  <2>1. /\ d.edition \in Nat /\ d.collections \in SUBSET CollectionIds
        /\ d.home \in [RequestIds -> CollectionIds \cup {Nowhere}]
        /\ d = [edition |-> d.edition, collections |-> d.collections, home |-> d.home]
    BY DEF Libraries
  <2> DEFINE h == [r \in RequestIds |-> IF d.home[r] \in d.collections THEN d.home[r]
                                                                        ELSE Nowhere]
  <2>2. Hydrate(d) = [edition |-> d.edition, collections |-> d.collections, home |-> h]
    BY <2>1 DEF Hydrate
  <2>3. h \in [RequestIds -> CollectionIds \cup {Nowhere}]
    BY <2>1
  <2>4. Hydrate(d) \in Libraries
    BY <2>1, <2>2, <2>3 DEF Libraries
  <2>5. [r \in RequestIds |-> IF h[r] \in d.collections THEN h[r] ELSE Nowhere] = h
    OBVIOUS
  <2>6. Hydrate(Hydrate(d)) = Hydrate(d)
    BY <2>2, <2>5 DEF Hydrate
  <2> QED
    BY <2>1, <2>2, <2>4, <2>6
<1>4. Hydrate(Empty) = Empty
  BY <1>1 DEF Hydrate, Empty
<1> QED
  BY <1>1, <1>2, <1>3, <1>4 DEF Content

\* A library whose requests are in collections it has is read as it is written.
LEMMA ClosedLibrary ==
  ASSUME NEW C \in SUBSET CollectionIds, NEW e \in Nat,
         NEW h \in [RequestIds -> CollectionIds \cup {Nowhere}],
         \A r \in RequestIds : h[r] \in C \cup {Nowhere}
  PROVE  LET d == [edition |-> e, collections |-> C, home |-> h]
         IN  d \in Libraries /\ Hydrate(d) = d
<1> DEFINE d == [edition |-> e, collections |-> C, home |-> h]
<1>1. d \in Libraries
  BY DEF Libraries
<1>2. [r \in RequestIds |-> IF h[r] \in C THEN h[r] ELSE Nowhere] = h
  OBVIOUS
<1>3. Hydrate(d) = d
  BY <1>2 DEF Hydrate
<1> QED
  BY <1>1, <1>3

\* And such a library is what the screen shows.
LEMMA ScreenIsClosed ==
  ASSUME library \in Libraries, Hydrate(library) = library
  PROVE  /\ library.collections \in SUBSET CollectionIds
         /\ library.home \in [RequestIds -> CollectionIds \cup {Nowhere}]
         /\ \A r \in RequestIds : library.home[r] \in library.collections \cup {Nowhere}
<1>1. /\ library.collections \in SUBSET CollectionIds
      /\ library.home \in [RequestIds -> CollectionIds \cup {Nowhere}]
  BY DEF Libraries
<1>2. Hydrate(library).home = [r \in RequestIds |->
        IF library.home[r] \in library.collections THEN library.home[r] ELSE Nowhere]
  BY DEF Hydrate, Libraries
<1> QED
  BY <1>1, <1>2

-----------------------------------------------------------------------------
(* Queues *)

LEMMA Added ==
  ASSUME NEW q \in Seq(CallRecords), NEW c \in CallRecords
  PROVE  /\ Append(q, c) \in Seq(CallRecords) /\ Append(q, c) # <<>>
         /\ Len(Append(q, c)) = Len(q) + 1 /\ Len(q) \in Nat
         /\ \A i \in 1..Len(q) : Append(q, c)[i] = q[i]
         /\ Append(q, c)[Len(q) + 1] = c
OBVIOUS

LEMMA Removed ==
  ASSUME NEW q \in Seq(CallRecords), NEW i \in 1..Len(q)
  PROVE  /\ RemoveAt(q, i) \in Seq(CallRecords)
         /\ Len(RemoveAt(q, i)) = Len(q) - 1 /\ Len(q) \in Nat \ {0}
         /\ \A j \in 1..(Len(q) - 1) :
              RemoveAt(q, i)[j] = IF j < i THEN q[j] ELSE q[j + 1]
<1> DEFINE a == SubSeq(q, 1, i - 1)
           b == SubSeq(q, i + 1, Len(q))
<1>1. a \in Seq(CallRecords) /\ Len(a) = i - 1 /\ \A j \in 1..(i - 1) : a[j] = q[j]
  OBVIOUS
<1>2. b \in Seq(CallRecords) /\ Len(b) = Len(q) - i
      /\ \A j \in 1..(Len(q) - i) : b[j] = q[i + j]
  OBVIOUS
<1>3. RemoveAt(q, i) = a \o b
  BY DEF RemoveAt
<1> HIDE DEF a, b
<1>4. a \o b \in Seq(CallRecords) /\ Len(a \o b) = Len(q) - 1
  <2>1. a \o b \in Seq(CallRecords) /\ Len(a \o b) = Len(a) + Len(b)
    BY <1>1, <1>2, ConcatProperties
  <2> QED
    BY <1>1, <1>2, <2>1
<1>5. ASSUME NEW j \in 1..(Len(q) - 1)
      PROVE  (a \o b)[j] = IF j < i THEN q[j] ELSE q[j + 1]
  <2>1. \A k \in 1..(Len(a) + Len(b)) :
          (a \o b)[k] = IF k <= Len(a) THEN a[k] ELSE b[k - Len(a)]
    BY <1>1, <1>2, ConcatProperties
  <2>2. (a \o b)[j] = IF j <= i - 1 THEN a[j] ELSE b[j - (i - 1)]
    BY <1>1, <1>2, <2>1
  <2>3. CASE j < i
    BY <1>1, <2>2, <2>3
  <2>4. CASE j >= i
    <3>1. (a \o b)[j] = b[j - (i - 1)] /\ j - (i - 1) \in 1..(Len(q) - i)
      BY <2>2, <2>4
    <3> QED
      BY <1>2, <2>4, <3>1
  <2>5. i \in Nat /\ j \in Nat
    OBVIOUS
  <2>6. j < i \/ j >= i
    BY <2>5
  <2> QED
    BY <2>3, <2>4, <2>6
<1>6. Len(q) \in Nat \ {0}
  OBVIOUS
<1> QED
  BY <1>3, <1>4, <1>5, <1>6

LEMMA Cut ==
  ASSUME NEW q \in Seq(CallRecords), NEW n \in 0..Len(q)
  PROVE  /\ SubSeq(q, 1, n) \in Seq(CallRecords) /\ Len(SubSeq(q, 1, n)) = n
         /\ \A i \in 1..n : SubSeq(q, 1, n)[i] = q[i]
OBVIOUS

LEMMA Shortened ==
  ASSUME NEW q \in Seq(CallRecords), q # <<>>
  PROVE  /\ Front(q) \in Seq(CallRecords) /\ Len(Front(q)) = Len(q) - 1
         /\ Len(q) \in Nat \ {0}
         /\ \A i \in 1..(Len(q) - 1) : Front(q)[i] = q[i]
<1> DEFINE n == Len(q) - 1
<1>1. Len(q) \in Nat \ {0} /\ n \in 0..Len(q) /\ Front(q) = SubSeq(q, 1, n)
  BY DEF Front
<1>2. n = Len(q) - 1
  OBVIOUS
<1> HIDE DEF n
<1>3. /\ SubSeq(q, 1, n) \in Seq(CallRecords) /\ Len(SubSeq(q, 1, n)) = n
      /\ \A i \in 1..n : SubSeq(q, 1, n)[i] = q[i]
  BY <1>1, Cut
<1> QED
  BY <1>1, <1>2, <1>3

\* Whether a write of this window is in flight.
LEMMA PendingFacts ==
  ASSUME NEW q \in Seq(CallRecords)
  PROVE  /\ Pending(q) \in Nat
         /\ Pending(q) = 0 <=> \A i \in 1..Len(q) : ~(q[i].kind = "save" /\ q[i].window = windows)
<1> DEFINE saves == {i \in 1..Len(q) : q[i].kind = "save" /\ q[i].window = windows}
<1>1. IsFiniteSet(1..Len(q))
  BY FS_Interval
<1>2. IsFiniteSet(saves)
  BY <1>1, FS_Subset
<1>3. Cardinality(saves) \in Nat /\ (Cardinality(saves) = 0 <=> saves = {})
  BY <1>2, FS_CardinalityType, FS_EmptySet
<1> QED
  BY <1>3 DEF Pending

-----------------------------------------------------------------------------
(* The storage *)

Outcomes == {"open", "saved", "failed"}

LEMMA CyclesFacts ==
  ASSUME NEW k \in Seq(Outcomes)
  PROVE  /\ Len(k) \in Nat
         /\ \A n \in 1..Len(k) : k[n] \in Outcomes
         /\ \A o \in Outcomes :
              /\ Append(k, o) \in Seq(Outcomes) /\ Len(Append(k, o)) = Len(k) + 1
              /\ Append(k, o)[Len(k) + 1] = o
              /\ \A n \in 1..Len(k) : Append(k, o)[n] = k[n]
         /\ \A o \in Outcomes, m \in 1..Len(k) :
              /\ [k EXCEPT ![m] = o] \in Seq(Outcomes) /\ Len([k EXCEPT ![m] = o]) = Len(k)
              /\ [k EXCEPT ![m] = o][m] = o
              /\ \A n \in 1..Len(k) : n # m => [k EXCEPT ![m] = o][n] = k[n]
OBVIOUS

LEMMA StorageFacts ==
  ASSUME NEW s \in StorageRecords
  PROVE  /\ s.phase \in {"loading", "saving", "ready", "error"} /\ s.hydrated \in BOOLEAN
         /\ s.error \in {"none", "read", "newer", "write", "conflict"}
         /\ s.latestDocument \in Documents /\ s.lastRequestedDocument \in Documents
         /\ s.latestWrite \in Nat /\ s.cycles \in Seq(Outcomes) /\ s.active \in Nat
         /\ s.sequence \in Nat /\ s.settled \in {"none", "saved", "failed"}
         /\ s.staleSuccess \in BOOLEAN /\ Len(s.cycles) \in Nat
BY CyclesFacts DEF StorageRecords, Outcomes

\* t is storage s after saveNativeDocument of d.
HasSaved(s, d, t) ==
  /\ t \in StorageRecords
  /\ t.phase = (IF s.hydrated THEN "saving" ELSE s.phase)
  /\ t.error = (IF s.hydrated THEN "none" ELSE s.error)
  /\ t.hydrated = s.hydrated /\ t.latestDocument = d
  /\ t.lastRequestedDocument = s.lastRequestedDocument
  /\ t.sequence = s.sequence + 1 /\ t.settled = "none"
  /\ t.active \in 1..Len(t.cycles) /\ Len(s.cycles) <= Len(t.cycles)
  /\ \A n \in 1..Len(t.cycles) :
       t.cycles[n] = IF n <= Len(s.cycles) THEN s.cycles[n] ELSE "open"
  /\ s.active # 0 => /\ t.active = s.active /\ Len(t.cycles) = Len(s.cycles)
                     /\ t.latestWrite = s.latestWrite
  /\ s.active = 0 => /\ t.active = Len(s.cycles) + 1 /\ Len(t.cycles) = t.active
                     /\ t.latestWrite = t.active

LEMMA SavingFacts ==
  ASSUME NEW s \in StorageRecords, s.active \in 0..Len(s.cycles), NEW d \in Libraries
  PROVE  HasSaved(s, d, Saving(s, d))
<1> DEFINE t == Saving(s, d)
<1>1. /\ s.cycles \in Seq(Outcomes) /\ s.sequence + 1 \in Nat /\ Len(s.cycles) \in Nat
      /\ Len(s.cycles) + 1 \in Nat /\ s.active \in Nat /\ s.latestWrite \in Nat
  BY StorageFacts
<1> DEFINE k == Append(s.cycles, "open")
<1>2. /\ k \in Seq(Outcomes) /\ Len(k) = Len(s.cycles) + 1
      /\ k[Len(s.cycles) + 1] = "open"
      /\ \A n \in 1..Len(s.cycles) : k[n] = s.cycles[n]
  BY <1>1, CyclesFacts DEF Outcomes
<1> HIDE DEF k
<1>3. CASE s.active # 0
  <2>1. t = [s EXCEPT !.latestDocument = d, !.sequence = s.sequence + 1, !.settled = "none",
               !.staleSuccess = FALSE,
               !.phase = IF s.hydrated THEN "saving" ELSE s.phase,
               !.error = IF s.hydrated THEN "none" ELSE s.error]
    BY <1>3 DEF Saving, StorageRecords
  <2>2. t \in StorageRecords
    BY <1>1, <2>1 DEF StorageRecords, Documents
  <2>3. /\ t.phase = (IF s.hydrated THEN "saving" ELSE s.phase)
        /\ t.error = (IF s.hydrated THEN "none" ELSE s.error)
        /\ t.hydrated = s.hydrated /\ t.latestDocument = d
        /\ t.lastRequestedDocument = s.lastRequestedDocument
        /\ t.sequence = s.sequence + 1 /\ t.settled = "none"
        /\ t.active = s.active /\ t.cycles = s.cycles /\ t.latestWrite = s.latestWrite
    BY <2>1 DEF StorageRecords
  <2> QED
    BY <1>1, <1>3, <2>2, <2>3 DEF HasSaved
<1>4. CASE s.active = 0
  <2>1. t = [s EXCEPT !.latestDocument = d, !.sequence = s.sequence + 1, !.settled = "none",
               !.staleSuccess = FALSE, !.cycles = k, !.active = Len(s.cycles) + 1,
               !.latestWrite = Len(s.cycles) + 1,
               !.phase = IF s.hydrated THEN "saving" ELSE s.phase,
               !.error = IF s.hydrated THEN "none" ELSE s.error]
    BY <1>4 DEF Saving, StorageRecords, k
  <2>2. t \in StorageRecords
    <3>1. /\ s.phase \in {"loading", "saving", "ready", "error"}
          /\ s.error \in {"none", "read", "newer", "write", "conflict"}
      BY StorageFacts
    <3>2. PICK p \in {"loading", "saving", "ready", "error"},
               e \in {"none", "read", "newer", "write", "conflict"}, no \in BOOLEAN :
            /\ p = IF s.hydrated THEN "saving" ELSE s.phase
            /\ e = IF s.hydrated THEN "none" ELSE s.error
            /\ no = FALSE
      BY <3>1
    <3>3. PICK last \in Nat, next \in Nat, document \in Documents, none \in {"none", "saved", "failed"} :
            last = Len(s.cycles) + 1 /\ next = s.sequence + 1 /\ document = d /\ none = "none"
      BY <1>1 DEF Documents
    <3>4. t = [s EXCEPT !.latestDocument = document, !.sequence = next, !.settled = none,
                 !.staleSuccess = no, !.cycles = k, !.active = last,
                 !.latestWrite = last, !.phase = p, !.error = e]
      BY <2>1, <3>2, <3>3
    <3> HIDE DEF t
    <3> QED BY <1>2, <3>4 DEF StorageRecords, Outcomes
  <2>3. /\ t.phase = (IF s.hydrated THEN "saving" ELSE s.phase)
        /\ t.error = (IF s.hydrated THEN "none" ELSE s.error)
        /\ t.hydrated = s.hydrated /\ t.latestDocument = d
        /\ t.lastRequestedDocument = s.lastRequestedDocument
        /\ t.sequence = s.sequence + 1 /\ t.settled = "none"
        /\ t.active = Len(s.cycles) + 1 /\ t.cycles = k /\ t.latestWrite = Len(s.cycles) + 1
    BY <2>1 DEF StorageRecords
  <2>4. \A n \in 1..Len(k) : k[n] = IF n <= Len(s.cycles) THEN s.cycles[n] ELSE "open"
    BY <1>1, <1>2
  <2> QED
    BY <1>1, <1>2, <1>4, <2>2, <2>3, <2>4 DEF HasSaved
<1> QED
  BY <1>1, <1>3, <1>4

LEMMA SaveCallFacts ==
  ASSUME NEW s \in StorageRecords, NEW d \in Libraries, windows \in Nat \ {0}
  PROVE  /\ SaveCall(s, d) \in CallRecords
         /\ SaveCall(s, d).kind = "save" /\ SaveCall(s, d).window = windows
         /\ SaveCall(s, d).document = d /\ SaveCall(s, d).sequence = s.sequence
         /\ SaveCall(s, d).cycle = s.active
BY StorageFacts DEF SaveCall, CallRecords

LEMMA LoadCallFacts ==
  ASSUME NEW n \in Nat \ {0}
  PROVE  LET c == [kind |-> "load", window |-> n, document |-> Nothing, sequence |-> 0,
                   cycle |-> 0]
         IN  c \in CallRecords /\ c.kind = "load" /\ c.window = n /\ c.document = Nothing
BY DEF CallRecords

\* The facts of CInv that its proof uses by name.
LEMMA Typed ==
  ASSUME TypeInv
  PROVE  /\ calls \in Seq(CallRecords) /\ Len(calls) \in Nat
         /\ calls = <<>> <=> Len(calls) = 0
         /\ storage \in StorageRecords
         /\ \A i \in 1..Len(calls) : /\ calls[i] \in CallRecords
                                     /\ calls[i].sequence \in Nat /\ calls[i].cycle \in Nat
                                     /\ calls[i].window \in Nat \ {0}
         /\ \A w \in Waiting : /\ waiter[w].at \in {"idle", "choosing", "waiting"}
                               /\ waiter[w].edition \in Nat /\ waiter[w].promise \in Nat
         /\ edits \in Nat /\ edits <= MaxEditions /\ MaxEditions \in Nat
<1>1. calls \in Seq(CallRecords) /\ storage \in StorageRecords
      /\ waiter \in [Waiting -> WaiterRecords] /\ edits \in 0..MaxEditions
  BY DEF TypeInv
<1>2. \A i \in 1..Len(calls) : calls[i] \in CallRecords
  BY <1>1
<1>3. Len(calls) \in Nat /\ (calls = <<>> <=> Len(calls) = 0)
  BY <1>1
<1>4. \A i \in 1..Len(calls) : /\ calls[i].sequence \in Nat /\ calls[i].cycle \in Nat
                               /\ calls[i].window \in Nat \ {0}
  BY <1>2 DEF CallRecords
<1>5. \A w \in Waiting : /\ waiter[w].at \in {"idle", "choosing", "waiting"}
                         /\ waiter[w].edition \in Nat /\ waiter[w].promise \in Nat
  BY <1>1 DEF WaiterRecords
<1>6. MaxEditions \in Nat
  BY StoreAssumption
<1> QED
  BY <1>1, <1>2, <1>3, <1>4, <1>5, <1>6

-----------------------------------------------------------------------------
(* Writes *)

\* Document d is sent to be what the screen shows from now on: an edit, which a
\* call may wait for, a retry, or the library once more.
LEMMA Sending ==
  ASSUME CInv, storage.hydrated, NEW d \in Libraries, NEW s \in StorageRecords,
         NEW r \in {Nothing, d},
         s = [storage EXCEPT !.lastRequestedDocument = r],
         storage' = Saving(s, d), calls' = Append(calls, SaveCall(Saving(s, d), d)),
         library' \in Libraries, Hydrate(library') = library', Content(d) = library',
         r \in {Nothing, library'}, r = Nothing => calls = <<>>,
         edits' \in {edits, edits + 1}, edits' <= MaxEditions, Past(d, edits'),
         \/ edits' = edits + 1 /\ d.edition = edits'
         \/ storage.latestDocument \in Libraries =>
              d.edition = storage.latestDocument.edition,
         waiter' \in [Waiting -> WaiterRecords],
         \A w \in Waiting :
           \/ waiter'[w].at # "waiting"
           \/ waiter'[w] = waiter[w]
           \/ /\ waiter'[w].edition = edits + 1 /\ edits' = edits + 1 /\ d.edition = edits'
              /\ waiter'[w].promise = storage'.latestWrite,
         UNCHANGED <<hydration, persistenceEnabled, legacy, host, file, observed,
                     windows, others>>
  PROVE  CInv'
<1> DEFINE t == Saving(s, d)
           c == SaveCall(t, d)
<1>1. /\ hydration' = hydration /\ persistenceEnabled' = persistenceEnabled
      /\ legacy' = legacy /\ host' = host /\ file' = file /\ observed' = observed
      /\ windows' = windows /\ others' = others
  OBVIOUS
<1>2. /\ TypeInv /\ PastInv /\ QueueInv /\ CycleInv /\ NewestInv /\ LoadInv /\ ScreenInv
      /\ WaitInv
  BY DEF CInv
<1>3. hydration = "idle" /\ ~Loading
  BY <1>2 DEF LoadInv, Loading
<1>4. /\ s.active = storage.active /\ s.cycles = storage.cycles
      /\ s.latestWrite = storage.latestWrite /\ s.hydrated = storage.hydrated
      /\ s.sequence = storage.sequence /\ s.lastRequestedDocument = r
  BY <1>2, Typed DEF StorageRecords
<1>5. storage.active \in 0..Len(storage.cycles)
  BY <1>2 DEF CycleInv
<1> HIDE DEF t
<1>6. /\ t \in StorageRecords /\ t.phase = "saving" /\ t.error = "none"
      /\ t.hydrated /\ t.latestDocument = d /\ t.lastRequestedDocument = r
      /\ t.sequence = storage.sequence + 1 /\ t.settled = "none"
      /\ t.active \in 1..Len(t.cycles) /\ Len(storage.cycles) <= Len(t.cycles)
      /\ \A n \in 1..Len(t.cycles) :
           t.cycles[n] = IF n <= Len(storage.cycles) THEN storage.cycles[n] ELSE "open"
      /\ storage.active # 0 => /\ t.active = storage.active
                               /\ Len(t.cycles) = Len(storage.cycles)
                               /\ t.latestWrite = storage.latestWrite
      /\ storage.active = 0 => /\ t.active = Len(storage.cycles) + 1
                               /\ Len(t.cycles) = t.active /\ t.latestWrite = t.active
  <2>1. t = Saving(s, d) /\ s.active \in 0..Len(s.cycles)
    BY <1>4, <1>5 DEF t
  <2>2. HasSaved(s, d, t)
    BY <2>1, SavingFacts
  <2>3. s.hydrated
    BY <1>4
  <2>4. t.phase = "saving" /\ t.error = "none" /\ t.hydrated
    BY <2>2, <2>3 DEF HasSaved
  <2> QED
    BY <1>4, <2>2, <2>4 DEF HasSaved
<1>7. /\ c \in CallRecords /\ c.kind = "save" /\ c.window = windows /\ c.document = d
      /\ c.sequence = t.sequence /\ c.cycle = t.active
  BY <1>2, <1>6, SaveCallFacts DEF TypeInv
<1> HIDE DEF c
<1>8. storage' = t /\ calls' = Append(calls, c)
  BY DEF t, c
<1>9. /\ calls' \in Seq(CallRecords) /\ calls' # <<>> /\ Len(calls') = Len(calls) + 1
      /\ Len(calls) \in Nat /\ calls'[Len(calls')] = c
      /\ \A i \in 1..Len(calls) : calls'[i] = calls[i]
  BY <1>2, <1>7, <1>8, Typed, Added
<1>10. /\ storage.cycles \in Seq(Outcomes) /\ Len(storage.cycles) \in Nat
       /\ storage.sequence \in Nat /\ Len(t.cycles) \in Nat
  BY <1>2, <1>6, Typed, StorageFacts
<1>11. TypeInv'
  BY <1>1, <1>2, <1>6, <1>8, <1>9, Typed DEF TypeInv
<1>12. \A x : Past(x, edits) => Past(x, edits')
  BY <1>2, Typed, DocumentFacts DEF Past
<1>13. PastInv'
  <2>1. Past(file', edits') /\ Past(legacy', edits') /\ Past(t.latestDocument, edits')
    BY <1>1, <1>2, <1>6, <1>12 DEF PastInv
  <2>2. Past(t.lastRequestedDocument, edits')
    BY <1>6, DocumentFacts DEF Past
  <2>3. ASSUME NEW i \in 1..Len(calls') PROVE Past(calls'[i].document, edits')
    <3>1. CASE i = Len(calls')
      BY <1>7, <1>9, <3>1
    <3>2. CASE i # Len(calls')
      <4>1. i \in 1..Len(calls) /\ calls'[i] = calls[i]
        BY <1>9, <3>2
      <4> QED
        BY <1>2, <1>12, <4>1 DEF PastInv
    <3> QED
      BY <3>1, <3>2
  <2> QED
    BY <1>8, <2>1, <2>2, <2>3 DEF PastInv
<1>14. ~Loading' /\ hydration' = "idle"
  BY <1>1, <1>3 DEF Loading
<1>15. QueueInv'
  <2>1. windows' > 1 => host' = "serial"
    BY <1>1, <1>2 DEF QueueInv
  <2>2. calls # <<>> => t.active = storage.active
    BY <1>2, <1>3, <1>6 DEF CycleInv
  <2>3. ASSUME NEW i \in 1..Len(calls')
        PROVE  /\ calls'[i].kind = "save" /\ calls'[i].window = windows'
               /\ calls'[i].document \in Libraries /\ calls'[i].cycle = t.active
               /\ calls'[i].sequence \in 1..t.sequence
    <3>1. CASE i = Len(calls')
      BY <1>1, <1>6, <1>7, <1>9, <1>10, <3>1
    <3>2. CASE i # Len(calls')
      <4>1. i \in 1..Len(calls) /\ calls'[i] = calls[i] /\ calls # <<>>
        BY <1>2, <1>9, <3>2, Typed
      <4>2. /\ calls[i].kind = "save" /\ calls[i].window = windows
            /\ calls[i].document \in Libraries /\ calls[i].cycle = storage.active
            /\ calls[i].sequence \in 1..storage.sequence
        BY <1>2, <1>3, <4>1 DEF QueueInv
      <4>3. calls[i].sequence \in 1..t.sequence
        BY <1>6, <1>10, <4>2
      <4> QED
        BY <1>1, <2>2, <4>1, <4>2, <4>3
    <3> QED
      BY <3>1, <3>2
  <2>4. ASSUME NEW i \in 1..Len(calls'), NEW j \in 1..Len(calls'), i < j
        PROVE  calls'[i].sequence < calls'[j].sequence
    <3>1. i \in 1..Len(calls) /\ calls'[i] = calls[i]
      BY <1>9, <2>4
    <3>2. calls[i].sequence \in 1..storage.sequence
      BY <1>2, <1>3, <3>1 DEF QueueInv
    <3>3. CASE j = Len(calls')
      BY <1>6, <1>7, <1>9, <1>10, <3>1, <3>2, <3>3
    <3>4. CASE j # Len(calls')
      <4>1. j \in 1..Len(calls) /\ calls'[j] = calls[j]
        BY <1>9, <3>4
      <4> QED
        BY <1>2, <1>3, <2>4, <3>1, <4>1 DEF QueueInv
    <3> QED
      BY <3>3, <3>4
  <2> QED
    BY <1>8, <1>14, <2>1, <2>3, <2>4 DEF QueueInv
<1>16. CycleInv'
  <2>1. t.active \in 0..Len(t.cycles) /\ t.active # 0 /\ t.active \in Nat
    BY <1>6, <1>10
  <2>2. CASE storage.active # 0
    <3>1. t.latestWrite = t.active /\ t.cycles \in Seq(Outcomes)
      BY <1>2, <1>6, <2>2, StorageFacts DEF CycleInv
    <3>2. \A n \in 1..Len(t.cycles) : t.cycles[n] = "open" <=> n = t.active
      BY <1>2, <1>6, <1>10, <2>2 DEF CycleInv
    <3> QED
      BY <1>8, <1>9, <1>14, <2>1, <3>1, <3>2 DEF CycleInv
  <2>3. CASE storage.active = 0
    <3>1. t.latestWrite = t.active
      BY <1>6, <2>3
    <3>2. \A n \in 1..Len(t.cycles) : t.cycles[n] = "open" <=> n = t.active
      <4> SUFFICES ASSUME NEW n \in 1..Len(t.cycles)
                   PROVE  t.cycles[n] = "open" <=> n = t.active
        OBVIOUS
      <4>1. t.active = Len(storage.cycles) + 1 /\ Len(t.cycles) = t.active
        BY <1>6, <2>3
      <4>2. t.cycles[n] = IF n <= Len(storage.cycles) THEN storage.cycles[n] ELSE "open"
        BY <1>6
      <4>3. CASE n <= Len(storage.cycles)
        <5>1. n \in 1..Len(storage.cycles) /\ n # 0 /\ n # t.active
          BY <1>10, <4>1, <4>3
        <5>2. storage.cycles[n] # "open"
          BY <1>2, <2>3, <5>1 DEF CycleInv
        <5> QED
          BY <4>2, <4>3, <5>1, <5>2
      <4>4. CASE ~(n <= Len(storage.cycles))
        BY <1>10, <4>1, <4>2, <4>4
      <4> QED
        BY <4>3, <4>4
    <3> QED
      BY <1>8, <1>9, <1>14, <2>1, <3>1, <3>2 DEF CycleInv
  <2> QED
    BY <2>2, <2>3
<1>17. NewestInv'
  BY <1>6, <1>7, <1>8, <1>9 DEF NewestInv
<1>18. LoadInv'
  <2>1. persistenceEnabled
    BY <1>2, <1>3 DEF LoadInv
  <2> QED
    BY <1>1, <1>6, <1>8, <1>14, <2>1 DEF LoadInv
<1>19. ScreenInv'
  <2>1. r = Nothing => Len(calls') = 1
    BY <1>2, <1>9, Typed
  <2> QED
    BY <1>6, <1>8, <1>9, <2>1 DEF ScreenInv
<1>20. WaitInv'
  <2> SUFFICES ASSUME NEW w \in Waiting, waiter'[w].at = "waiting"
               PROVE  /\ waiter'[w].promise \in 1..Len(storage'.cycles)
                      /\ waiter'[w].edition \in 1..edits'
                      /\ storage'.latestDocument \in Libraries
                      /\ storage'.latestDocument.edition >= waiter'[w].edition
                      /\ storage'.cycles[waiter'[w].promise] = "saved" =>
                           /\ observed' \in Libraries
                           /\ observed'.edition >= waiter'[w].edition
                           /\ \A i \in 1..Len(calls') :
                                calls'[i].document.edition >= waiter'[w].edition
    BY DEF WaitInv
  <2>0. storage' = t /\ t.latestDocument = d /\ observed' = observed
    BY <1>1, <1>6, <1>8
  <2> SUFFICES /\ waiter'[w].promise \in 1..Len(t.cycles)
               /\ waiter'[w].edition \in 1..edits'
               /\ d \in Libraries /\ d.edition >= waiter'[w].edition
               /\ t.cycles[waiter'[w].promise] = "saved" =>
                    /\ observed \in Libraries
                    /\ observed.edition >= waiter'[w].edition
                    /\ \A i \in 1..Len(calls') :
                         calls'[i].document.edition >= waiter'[w].edition
    BY <2>0
  <2>1. d.edition \in Nat /\ edits \in Nat /\ waiter[w].edition \in Nat
    BY <1>2, Typed, DocumentFacts
  <2>2. CASE waiter'[w] = waiter[w]
    <3>1. /\ waiter[w].promise \in 1..Len(storage.cycles) /\ waiter[w].edition \in 1..edits
          /\ storage.latestDocument \in Libraries
          /\ storage.latestDocument.edition >= waiter[w].edition
          /\ storage.cycles[waiter[w].promise] = "saved" =>
               /\ observed \in Libraries /\ observed.edition >= waiter[w].edition
               /\ \A i \in 1..Len(calls) : calls[i].document.edition >= waiter[w].edition
      BY <1>2, <2>2 DEF WaitInv
    <3>2. d.edition >= waiter[w].edition
      BY <2>1, <3>1
    <3>3. waiter[w].promise \in 1..Len(t.cycles)
      BY <1>6, <1>10, <3>1
    <3>4. t.cycles[waiter[w].promise] = storage.cycles[waiter[w].promise]
      BY <1>6, <1>10, <3>1, <3>3
    <3>5. ASSUME storage.cycles[waiter[w].promise] = "saved", NEW i \in 1..Len(calls')
          PROVE  calls'[i].document.edition >= waiter[w].edition
      <4>1. CASE i = Len(calls')
        BY <1>7, <1>9, <3>2, <4>1
      <4>2. CASE i # Len(calls')
        <5>1. i \in 1..Len(calls) /\ calls'[i] = calls[i]
          BY <1>9, <4>2
        <5> QED
          BY <3>1, <3>5, <5>1
      <4> QED
        BY <4>1, <4>2
    <3>6. waiter[w].edition \in 1..edits'
      BY <2>1, <3>1
    <3> QED
      BY <2>2, <3>1, <3>2, <3>3, <3>4, <3>5, <3>6
  <2>3. CASE waiter'[w] # waiter[w]
    <3>1. /\ waiter'[w].edition = edits + 1 /\ edits' = edits + 1 /\ d.edition = edits'
          /\ waiter'[w].promise = t.latestWrite
      BY <1>8, <2>3
    <3>2. t.latestWrite = t.active /\ t.cycles[t.active] = "open"
      <4>1. t.active \in 1..Len(t.cycles) /\ t.active # 0
        BY <1>6, <1>10
      <4>2. storage'.active # 0 => storage'.latestWrite = storage'.active
        BY <1>16 DEF CycleInv
      <4>3. \A n \in 1..Len(storage'.cycles) :
              storage'.cycles[n] = "open" <=> n = storage'.active
        BY <1>16 DEF CycleInv
      <4> QED
        BY <2>0, <4>1, <4>2, <4>3
    <3> QED
      BY <1>6, <2>1, <3>1, <3>2
  <2> QED
    BY <2>2, <2>3
<1> QED
  BY <1>11, <1>13, <1>15, <1>16, <1>17, <1>18, <1>19, <1>20 DEF CInv

\* The library changes, and a call may wait for its cycle.
LEMMA Editing ==
  ASSUME CInv, storage.hydrated, NEW C \in SUBSET CollectionIds,
         NEW h \in [RequestIds -> CollectionIds \cup {Nowhere}],
         \A r \in RequestIds : h[r] \in C \cup {Nowhere},
         Edit(C, h), waiter' = waiter \/ \E w \in Waiting : Waits(w)
  PROVE  CInv'
<1> DEFINE d == [edition |-> edits + 1, collections |-> C, home |-> h]
           s == [storage EXCEPT !.lastRequestedDocument = d]
<1>1. /\ TypeInv /\ PastInv /\ CycleInv /\ LoadInv /\ ScreenInv
      /\ storage \in StorageRecords /\ edits \in Nat /\ edits + 1 \in Nat
      /\ MaxEditions \in Nat
  BY Typed DEF CInv
<1>2. d \in Libraries /\ Hydrate(d) = d /\ d.edition = edits + 1
  BY <1>1, ClosedLibrary
<1>3. /\ edits < MaxEditions /\ edits' = edits + 1 /\ library' = d /\ Persist(d)
      /\ UNCHANGED <<hydration, persistenceEnabled, legacy, host, file, observed,
                     windows, others>>
  BY DEF Edit
<1> HIDE DEF d
<1>4. storage.lastRequestedDocument # d
  BY <1>1, <1>2, <1>3 DEF PastInv, Past
<1>5. hydration = "idle" /\ persistenceEnabled
  BY <1>1 DEF LoadInv
<1>6. storage' = Saving(s, d) /\ calls' = Append(calls, SaveCall(Saving(s, d), d))
  BY <1>3, <1>4, <1>5 DEF Persist, SetItem
<1>7. s \in StorageRecords /\ s.active = storage.active /\ s.cycles = storage.cycles
  BY <1>1, <1>2 DEF StorageRecords, Documents
<1>8. Saving(s, d) \in StorageRecords
  BY <1>1, <1>2, <1>7, SavingFacts DEF CycleInv, HasSaved
<1>9. /\ waiter' \in [Waiting -> WaiterRecords]
      /\ \A w \in Waiting :
           \/ waiter'[w] = waiter[w]
           \/ waiter'[w].edition = edits + 1 /\ waiter'[w].promise = storage'.latestWrite
  <2>1. CASE waiter' = waiter
    BY <1>1, <2>1 DEF TypeInv
  <2>2. ASSUME NEW w \in Waiting, Waits(w)
        PROVE  <1>9
    <3> DEFINE entry == [at |-> "waiting", edition |-> edits + 1,
                         promise |-> storage'.latestWrite]
    <3>1. waiter' = [waiter EXCEPT ![w] = entry]
      BY <2>2 DEF Waits
    <3>2. storage'.latestWrite \in Nat
      BY <1>6, <1>8, StorageFacts
    <3>3. entry \in WaiterRecords /\ entry.edition = edits + 1
          /\ entry.promise = storage'.latestWrite
      BY <1>1, <3>2 DEF WaiterRecords
    <3> HIDE DEF entry
    <3> QED
      BY <1>1, <3>1, <3>3 DEF TypeInv
  <2> QED
    BY <2>1, <2>2
<1>10. Content(d) = library' /\ Hydrate(library') = library' /\ library' \in Libraries
  BY <1>2, <1>3, DocumentFacts
<1>11. Past(d, edits') /\ edits' <= MaxEditions /\ d.edition = edits'
  BY <1>1, <1>2, <1>3 DEF Past
<1>12. d # Nothing
  BY <1>2, DocumentFacts
<1> HIDE DEF s
<1>13. s = [storage EXCEPT !.lastRequestedDocument = d]
  BY DEF s
<1> QED
  BY <1>2, <1>3, <1>6, <1>7, <1>9, <1>10, <1>11, <1>12, <1>13, Sending

LEMMA Edits ==
  ASSUME CInv, UserEdits \/ (\E c \in CollectionIds, R \in SUBSET RequestIds : ConfirmImport(c, R))
  PROVE  CInv'
<1> DEFINE C == library.collections
           H == library.home
<1>1. /\ C \in SUBSET CollectionIds /\ H \in [RequestIds -> CollectionIds \cup {Nowhere}]
      /\ \A r \in RequestIds : H[r] \in C \cup {Nowhere}
  BY ScreenIsClosed DEF CInv, TypeInv, ScreenInv
<1> HIDE DEF C, H
<1>2. Editable => storage.hydrated
  BY DEF Editable
<1>3. ASSUME NEW c \in CollectionIds, CreateCollection(c)
      PROVE  CInv'
  <2>1. Edit(C \cup {c}, H) /\ waiter' = waiter /\ storage.hydrated
    BY <1>2, <1>3 DEF CreateCollection, C, H
  <2> QED
    BY <1>1, <2>1, Editing
<1>4. ASSUME Rename
      PROVE  CInv'
  <2>1. Edit(C, H) /\ waiter' = waiter /\ storage.hydrated
    BY <1>2, <1>4 DEF Rename, C, H
  <2> QED
    BY <1>1, <2>1, Editing
<1>5. ASSUME NEW c \in CollectionIds, DeleteCollection(c)
      PROVE  CInv'
  <2> DEFINE h == [r \in RequestIds |-> IF H[r] = c THEN Nowhere ELSE H[r]]
  <2>1. Edit(C \ {c}, h) /\ waiter' = waiter /\ storage.hydrated
    BY <1>2, <1>5 DEF DeleteCollection, C, H
  <2>2. h \in [RequestIds -> CollectionIds \cup {Nowhere}]
        /\ \A r \in RequestIds : h[r] \in (C \ {c}) \cup {Nowhere}
    BY <1>1
  <2> HIDE DEF h
  <2> QED
    BY <1>1, <2>1, <2>2, Editing
<1>6. ASSUME NEW r \in RequestIds, NEW c \in CollectionIds,
             MoveRequest(r, c) \/ SaveRequest(r, c)
      PROVE  CInv'
  <2> DEFINE h == [H EXCEPT ![r] = c]
  <2>1. Edit(C, h) /\ storage.hydrated /\ c \in C
    BY <1>2, <1>6 DEF MoveRequest, SaveRequest, Known, C, H
  <2>2. waiter' = waiter \/ Waits("request")
    BY <1>6 DEF MoveRequest, SaveRequest
  <2>3. h \in [RequestIds -> CollectionIds \cup {Nowhere}]
        /\ \A q \in RequestIds : h[q] \in C \cup {Nowhere}
    BY <1>1, <2>1
  <2> HIDE DEF h
  <2> QED
    BY <1>1, <2>1, <2>2, <2>3, Editing DEF Waiting
<1>7. ASSUME NEW r \in RequestIds, DeleteRequest(r)
      PROVE  CInv'
  <2> DEFINE h == [H EXCEPT ![r] = Nowhere]
  <2>1. Edit(C, h) /\ storage.hydrated /\ waiter' = waiter
    BY <1>2, <1>7 DEF DeleteRequest, C, H
  <2>2. h \in [RequestIds -> CollectionIds \cup {Nowhere}]
        /\ \A q \in RequestIds : h[q] \in C \cup {Nowhere}
    BY <1>1
  <2> HIDE DEF h
  <2> QED
    BY <1>1, <2>1, <2>2, Editing
<1>8. ASSUME NEW c \in CollectionIds, NEW R \in SUBSET RequestIds, ConfirmImport(c, R)
      PROVE  CInv'
  <2> DEFINE h == [r \in RequestIds |-> IF r \in R THEN c ELSE H[r]]
  <2>1. Edit(C \cup {c}, h) /\ Waits("import") /\ waiter["import"].at = "choosing"
    BY <1>8 DEF ConfirmImport, C, H
  <2>2. storage.hydrated
    BY <2>1 DEF CInv, LoadInv, Waiting
  <2>3. h \in [RequestIds -> CollectionIds \cup {Nowhere}]
        /\ \A r \in RequestIds : h[r] \in (C \cup {c}) \cup {Nowhere}
    BY <1>1
  <2> HIDE DEF h
  <2> QED
    BY <1>1, <2>1, <2>2, <2>3, Editing DEF Waiting
<1> QED
  BY <1>3, <1>4, <1>5, <1>6, <1>7, <1>8 DEF UserEdits

\* Nothing of the storage changes.
LEMMA Quiet ==
  ASSUME CInv,
         UNCHANGED <<library, hydration, persistenceEnabled, storage, legacy, host, calls,
                     observed, edits, windows>>,
         file' \in Libraries \cup {Missing, Newer}, file' # file => file' \in Libraries,
         Past(file', edits), others' \in Nat,
         waiter' \in [Waiting -> WaiterRecords],
         \A w \in Waiting : \/ waiter'[w] = waiter[w]
                            \/ waiter'[w].at = "idle"
                            \/ waiter'[w].at = "choosing" /\ storage.hydrated
  PROVE  CInv'
<1>1. /\ TypeInv /\ PastInv /\ QueueInv /\ CycleInv /\ NewestInv /\ LoadInv /\ ScreenInv
      /\ WaitInv
  BY DEF CInv
<1>2. TypeInv' /\ PastInv'
  BY <1>1 DEF TypeInv, PastInv
<1>3. QueueInv' /\ CycleInv' /\ NewestInv'
  BY <1>1 DEF QueueInv, CycleInv, NewestInv, Loading
<1>4. ScreenInv'
  BY <1>1 DEF ScreenInv
<1>5. LoadInv'
  <2>1. file # Missing => file' # Missing
    BY DocumentFacts
  <2>2. ~storage.hydrated => \A w \in Waiting : waiter'[w].at = "idle"
    BY <1>1 DEF LoadInv
  <2> QED
    BY <1>1, <2>1, <2>2 DEF LoadInv
<1>6. WaitInv'
  <2> SUFFICES ASSUME NEW w \in Waiting, waiter'[w].at = "waiting"
               PROVE  waiter'[w] = waiter[w]
    BY <1>1 DEF WaitInv
  <2> QED
    OBVIOUS
<1> QED
  BY <1>2, <1>3, <1>4, <1>5, <1>6 DEF CInv

\* toggleCollection sends the library once more, unless that is what was
\* requested last.
LEMMA Toggling ==
  ASSUME CInv, ToggleCollection
  PROVE  CInv'
<1>1. /\ TypeInv /\ PastInv /\ CycleInv /\ LoadInv /\ ScreenInv
      /\ storage \in StorageRecords /\ edits \in Nat
  BY Typed DEF CInv
<1>2. /\ storage.hydrated /\ library.collections # {} /\ Persist(library)
      /\ UNCHANGED <<library, hydration, persistenceEnabled, waiter, legacy, host,
                     file, observed, edits, windows, others>>
  BY DEF ToggleCollection, counters
<1>3. SetItem(library)
  BY <1>1, <1>2 DEF Persist, LoadInv
<1>4. /\ library \in Libraries /\ Hydrate(library) = library /\ Content(library) = library
      /\ Content(storage.latestDocument) = library
      /\ storage.lastRequestedDocument \in {Nothing, storage.latestDocument}
      /\ library # Nothing
  BY <1>1, <1>2, DocumentFacts DEF TypeInv, ScreenInv
<1>5. CASE library = storage.lastRequestedDocument
  <2>1. storage.latestDocument = library
    BY <1>4, <1>5
  <2>2. calls' = calls /\ storage' = [storage EXCEPT !.latestDocument = library]
    BY <1>3, <1>5 DEF SetItem
  <2>3. storage' = storage
    BY <1>1, <2>1, <2>2 DEF StorageRecords
  <2> QED
    BY <1>1, <1>2, <2>2, <2>3, Quiet DEF TypeInv, PastInv
<1>6. CASE library # storage.lastRequestedDocument
  <2> DEFINE s == [storage EXCEPT !.lastRequestedDocument = library]
  <2>1. storage' = Saving(s, library)
        /\ calls' = Append(calls, SaveCall(Saving(s, library), library))
    BY <1>3, <1>6 DEF SetItem
  <2>2. s \in StorageRecords
    BY <1>1, <1>4 DEF StorageRecords, Documents
  <2>3. Past(library, edits) /\ edits <= MaxEditions
    <3>1. CASE storage.latestDocument \in Libraries
      BY <1>1, <1>4, <3>1, DocumentFacts DEF PastInv, Past, TypeInv
    <3>2. CASE storage.latestDocument \notin Libraries
      <4>1. library = Empty
        BY <1>4, <3>2 DEF Content
      <4> QED
        BY <1>2, <4>1 DEF Empty
    <3> QED
      BY <3>1, <3>2, <1>1 DEF TypeInv
  <2>4. storage.latestDocument \in Libraries => library.edition = storage.latestDocument.edition
    BY <1>4, DocumentFacts
  <2> HIDE DEF s
  <2>5. s = [storage EXCEPT !.lastRequestedDocument = library]
    BY DEF s
  <2>6. waiter' \in [Waiting -> WaiterRecords] /\ \A w \in Waiting : waiter'[w] = waiter[w]
    BY <1>1, <1>2 DEF TypeInv
  <2> QED
    BY <1>1, <1>2, <1>4, <2>1, <2>2, <2>3, <2>4, <2>5, <2>6, Sending
<1> QED
  BY <1>5, <1>6

\* The steps that leave the storage alone.
LEMMA Bystanding ==
  ASSUME CInv, BeginImport \/ CancelImport \/ (\E w \in Waiting : Report(w)) \/ OtherProcessSaves
  PROVE  CInv'
<1>1. TypeInv /\ PastInv /\ edits \in Nat /\ MaxEditions \in Nat /\ others \in Nat
  BY Typed DEF CInv, TypeInv
<1>2. CASE OtherProcessSaves
  <2> DEFINE d == [Empty EXCEPT !.edition = MaxEditions + others + 1]
  <2>1. /\ file' = d /\ others' = others + 1
        /\ UNCHANGED <<library, hydration, persistenceEnabled, storage, legacy, host, calls,
                       observed, edits, windows, waiter>>
    BY <1>2 DEF OtherProcessSaves, rendererVars
  <2>2. d.edition = MaxEditions + others + 1 /\ d \in Libraries
    BY <1>1 DEF Empty, Libraries
  <2> HIDE DEF d
  <2>3. Past(d, edits)
    BY <1>1, <2>2 DEF Past
  <2>4. waiter' \in [Waiting -> WaiterRecords] /\ \A w \in Waiting : waiter'[w] = waiter[w]
    BY <1>1, <2>1 DEF TypeInv
  <2> QED
    BY <1>1, <2>1, <2>2, <2>3, <2>4, Quiet
<1>3. CASE BeginImport \/ CancelImport \/ \E w \in Waiting : Report(w)
  <2>1. UNCHANGED <<library, hydration, persistenceEnabled, storage, legacy, host, calls,
                    observed, edits, windows, file, others>>
    BY <1>3 DEF BeginImport, CancelImport, Report, hostVars, counters
  <2>2. waiter' \in [Waiting -> WaiterRecords]
        /\ \A w \in Waiting : \/ waiter'[w] = waiter[w]
                              \/ waiter'[w].at = "idle"
                              \/ waiter'[w].at = "choosing" /\ storage.hydrated
    <3>1. CASE BeginImport
      <4>1. storage.hydrated /\ waiter' = [waiter EXCEPT !["import"].at = "choosing"]
        BY <3>1 DEF BeginImport, Editable
      <4> QED
        BY <1>1, <4>1 DEF TypeInv, Waiting, WaiterRecords
    <3>2. CASE CancelImport
      <4>1. waiter' = [waiter EXCEPT !["import"].at = "idle"]
        BY <3>2 DEF CancelImport
      <4> QED
        BY <1>1, <4>1 DEF TypeInv, Waiting, WaiterRecords
    <3>3. ASSUME NEW w \in Waiting, Report(w)
          PROVE  <2>2
      <4>1. waiter' = [waiter EXCEPT ![w] = [at |-> "idle", edition |-> 0, promise |-> 0]]
        BY <3>3 DEF Report
      <4> QED
        BY <1>1, <4>1 DEF TypeInv, WaiterRecords
    <3> QED
      BY <1>3, <3>1, <3>2, <3>3
  <2> QED
    BY <1>1, <2>1, <2>2, Quiet DEF TypeInv, PastInv
<1> QED
  BY <1>2, <1>3

LEMMA RetryingWrite ==
  ASSUME CInv, RetryWrite
  PROVE  CInv'
<1> DEFINE d == storage.latestDocument
           r == storage.lastRequestedDocument
<1>1. /\ TypeInv /\ PastInv /\ CycleInv /\ LoadInv /\ ScreenInv
      /\ storage \in StorageRecords /\ edits \in Nat /\ edits <= MaxEditions
  BY Typed DEF CInv
<1>2. /\ storage.hydrated /\ storage.phase = "error"
      /\ storage' = Saving(storage, d)
      /\ calls' = Append(calls, SaveCall(Saving(storage, d), d))
      /\ UNCHANGED <<library, hydration, persistenceEnabled, waiter, legacy, host, file,
                     observed, edits, windows, others>>
  <2>1. /\ storage.hydrated /\ storage.phase = "error"
        /\ storage' = Saving(storage, d)
        /\ calls' = Append(calls, SaveCall(Saving(storage, d), Saving(storage, d).latestDocument))
        /\ UNCHANGED <<library, hydration, persistenceEnabled, waiter, legacy, host, file,
                       observed, edits, windows, others>>
    BY DEF RetryWrite
  <2>2. Saving(storage, d).latestDocument = d
    BY <1>1 DEF Saving, StorageRecords
  <2> HIDE DEF d
  <2> QED
    BY <2>1, <2>2
<1>3. /\ d \in Libraries /\ r \in {Nothing, d} /\ r \in {Nothing, library}
      /\ Content(d) = library /\ Hydrate(library) = library
      /\ r = Nothing => calls = <<>>
  BY <1>1, <1>2 DEF ScreenInv
<1>4. storage = [storage EXCEPT !.lastRequestedDocument = r]
  BY <1>1 DEF StorageRecords
<1>5. Past(d, edits) /\ library \in Libraries
  BY <1>1 DEF PastInv, TypeInv
<1>6. waiter' \in [Waiting -> WaiterRecords] /\ \A w \in Waiting : waiter'[w] = waiter[w]
  BY <1>1, <1>2 DEF TypeInv
<1> HIDE DEF d, r
<1>7. storage.latestDocument = d
  BY DEF d
<1> QED
  BY <1>1, <1>2, <1>3, <1>4, <1>5, <1>6, <1>7, Sending

\* A load is sent, behind the saves of earlier windows, to a window that has
\* nothing yet.
LEMMA Reading ==
  ASSUME CInv, NEW q \in Seq(CallRecords), NEW c \in CallRecords,
         calls' = Append(q, c), c.kind = "load", c.window = windows', c.document = Nothing,
         \A i \in 1..Len(q) : \E j \in 1..Len(calls) :
           /\ q[i] = calls[j] /\ q[i].kind = "save" /\ q[i].document \in Libraries
           /\ q[i].window < windows',
         windows' \in Nat \ {0}, windows' > 1 => host = "serial",
         hydration' = "reading", persistenceEnabled' = FALSE, library' = Empty,
         waiter' \in [Waiting -> WaiterRecords], \A w \in Waiting : waiter'[w].at = "idle",
         storage' \in StorageRecords, storage'.phase = "loading", storage'.error = "none",
         ~storage'.hydrated, storage'.active = 0,
         storage'.latestWrite \in 0..Len(storage'.cycles),
         \A n \in 1..Len(storage'.cycles) : storage'.cycles[n] # "open",
         storage'.latestDocument = storage'.lastRequestedDocument,
         \/ storage'.latestDocument = Nothing
         \/ storage'.latestDocument = Newer /\ file # Missing,
         UNCHANGED <<legacy, host, file, observed, edits, others>>
  PROVE  CInv'
<1>1. TypeInv /\ PastInv /\ QueueInv
  BY DEF CInv
<1>2. /\ calls' \in Seq(CallRecords) /\ calls' # <<>> /\ Len(calls') = Len(q) + 1
      /\ Len(q) \in Nat /\ calls'[Len(calls')] = c
      /\ \A i \in 1..Len(q) : calls'[i] = q[i]
  BY Added
<1>3. TypeInv'
  BY <1>1, <1>2, DocumentFacts DEF TypeInv
<1>4. PastInv'
  <2>1. ASSUME NEW i \in 1..Len(calls') PROVE Past(calls'[i].document, edits)
    <3>1. CASE i = Len(calls')
      BY <1>2, <3>1, DocumentFacts DEF Past
    <3>2. CASE i # Len(calls')
      <4>1. i \in 1..Len(q) /\ calls'[i] = q[i]
        BY <1>2, <3>2
      <4>2. PICK j \in 1..Len(calls) : q[i] = calls[j]
        BY <4>1
      <4> QED
        BY <1>1, <4>1, <4>2 DEF PastInv
    <3> QED
      BY <3>1, <3>2
  <2>2. Past(storage'.latestDocument, edits)
    BY DocumentFacts DEF Past
  <2> QED
    BY <1>1, <2>1, <2>2 DEF PastInv
<1>5. QueueInv'
  <2>1. ASSUME NEW i \in 1..(Len(calls') - 1)
        PROVE  /\ calls'[i].kind = "save" /\ calls'[i].window < windows'
               /\ calls'[i].document \in Libraries
    <3>1. i \in 1..Len(q) /\ calls'[i] = q[i]
      BY <1>2
    <3> QED
      BY <3>1
  <2> QED
    BY <1>2, <2>1 DEF QueueInv, Loading
<1>6. CycleInv'
  <2>1. Len(storage'.cycles) \in Nat
    BY StorageFacts
  <2> QED
    BY <2>1 DEF CycleInv, Loading
<1>7. NewestInv' /\ ScreenInv' /\ WaitInv' /\ LoadInv'
  BY DocumentFacts DEF NewestInv, ScreenInv, WaitInv, LoadInv, Loading
<1> QED
  BY <1>3, <1>4, <1>5, <1>6, <1>7 DEF CInv

LEMMA RetryingRead ==
  ASSUME CInv, RetryRead
  PROVE  CInv'
<1> DEFINE c == LoadCall
<1>1. /\ TypeInv /\ QueueInv /\ CycleInv /\ LoadInv /\ ScreenInv
      /\ storage \in StorageRecords /\ calls \in Seq(CallRecords)
      /\ calls = <<>> <=> Len(calls) = 0
  BY Typed DEF CInv
<1>2. /\ storage.error \in {"read", "newer"} /\ hydration = "idle"
      /\ hydration' = "reading" /\ persistenceEnabled' = FALSE
      /\ storage' = [storage EXCEPT !.phase = "loading", !.hydrated = FALSE, !.error = "none"]
      /\ calls' = Append(calls, c)
      /\ UNCHANGED <<library, waiter, legacy, host, file, observed, edits, windows, others>>
  BY DEF RetryRead
<1>3. ~storage.hydrated
  BY <1>1, <1>2 DEF ScreenInv
<1>4. /\ library = Empty /\ \A w \in Waiting : waiter[w].at = "idle"
      /\ calls = <<>> /\ storage.latestDocument = storage.lastRequestedDocument
      /\ \/ storage.latestDocument = Nothing
         \/ storage.latestDocument = Newer /\ file # Missing
  BY <1>1, <1>2, <1>3 DEF LoadInv
<1>5. storage.active = 0 /\ storage.latestWrite \in 0..Len(storage.cycles)
      /\ \A n \in 1..Len(storage.cycles) : storage.cycles[n] # "open"
  <2>1. storage.active = 0
    BY <1>1, <1>2, <1>4 DEF CycleInv, Loading
  <2>2. \A n \in 1..Len(storage.cycles) : n # 0
    BY <1>1, StorageFacts
  <2> QED
    BY <1>1, <2>1, <2>2 DEF CycleInv
<1>6. /\ storage' \in StorageRecords /\ storage'.phase = "loading"
      /\ storage'.error = "none" /\ ~storage'.hydrated /\ storage'.active = storage.active
      /\ storage'.latestWrite = storage.latestWrite /\ storage'.cycles = storage.cycles
      /\ storage'.latestDocument = storage.latestDocument
      /\ storage'.lastRequestedDocument = storage.lastRequestedDocument
  BY <1>1, <1>2 DEF StorageRecords
<1>7. windows \in Nat \ {0} /\ waiter \in [Waiting -> WaiterRecords]
      /\ (windows > 1 => host = "serial")
  BY <1>1 DEF TypeInv, QueueInv
<1>8. c \in CallRecords /\ c.kind = "load" /\ c.window = windows /\ c.document = Nothing
  BY <1>7, LoadCallFacts DEF LoadCall
<1>9. \A i \in 1..Len(calls) : FALSE
  BY <1>1, <1>4
<1> HIDE DEF c
<1> QED
  BY <1>1, <1>2, <1>4, <1>5, <1>6, <1>7, <1>8, <1>9, Reading

LEMMA Reopening ==
  ASSUME CInv, Reopen
  PROVE  CInv'
<1> DEFINE q == IF hydration = "reading" THEN Front(calls) ELSE calls
           c == [LoadCall EXCEPT !.window = windows + 1]
<1>1. /\ TypeInv /\ QueueInv /\ calls \in Seq(CallRecords) /\ Len(calls) \in Nat
      /\ windows \in Nat \ {0}
  BY Typed DEF CInv, TypeInv
<1>2. /\ host = "serial" /\ windows' = windows + 1 /\ library' = Empty
      /\ hydration' = "reading" /\ persistenceEnabled' = FALSE /\ storage' = Started
      /\ waiter' = [w \in Waiting |-> [at |-> "idle", edition |-> 0, promise |-> 0]]
      /\ calls' = Append(q, c)
      /\ UNCHANGED <<legacy, host, file, observed, edits, others>>
  BY DEF Reopen, Waiting
<1>3. c \in CallRecords /\ c.kind = "load" /\ c.window = windows + 1 /\ c.document = Nothing
  <2>1. c = [kind |-> "load", window |-> windows + 1, document |-> Nothing, sequence |-> 0,
             cycle |-> 0]
    BY DEF LoadCall
  <2> QED
    BY <1>1, <2>1, LoadCallFacts
<1>4. /\ q \in Seq(CallRecords)
      /\ \A i \in 1..Len(q) : /\ i \in 1..Len(calls) /\ q[i] = calls[i]
                              /\ q[i].kind = "save" /\ q[i].document \in Libraries
                              /\ q[i].window <= windows
  <2>1. CASE Loading
    <3>1. q = Front(calls) /\ calls # <<>>
      BY <1>1, <2>1 DEF Loading, QueueInv
    <3>2. /\ Front(calls) \in Seq(CallRecords) /\ Len(Front(calls)) = Len(calls) - 1
          /\ \A i \in 1..(Len(calls) - 1) : Front(calls)[i] = calls[i]
      BY <1>1, <3>1, Shortened
    <3>3. \A i \in 1..(Len(calls) - 1) :
            /\ calls[i].kind = "save" /\ calls[i].window < windows
            /\ calls[i].document \in Libraries /\ calls[i].window \in Nat
      BY <1>1, <2>1, Typed DEF QueueInv
    <3> HIDE DEF q
    <3> QED
      BY <1>1, <3>1, <3>2, <3>3
  <2>2. CASE ~Loading
    <3>1. q = calls
      BY <2>2 DEF Loading
    <3> QED
      BY <1>1, <2>2, <3>1 DEF QueueInv
  <2> QED
    BY <2>1, <2>2
<1>5. \A i \in 1..Len(q) : \E j \in 1..Len(calls) :
        /\ q[i] = calls[j] /\ q[i].kind = "save" /\ q[i].document \in Libraries
        /\ q[i].window < windows'
  <2> SUFFICES ASSUME NEW i \in 1..Len(q)
               PROVE  i \in 1..Len(calls) /\ q[i] = calls[i] /\ q[i].kind = "save"
                      /\ q[i].document \in Libraries /\ q[i].window < windows'
    BY Zenon
  <2>1. q[i].window \in Nat
    BY <1>1, <1>4, Typed
  <2> QED
    BY <1>1, <1>2, <1>4, <2>1
<1>6. /\ storage' \in StorageRecords /\ storage'.phase = "loading"
      /\ storage'.error = "none" /\ ~storage'.hydrated /\ storage'.active = 0
      /\ storage'.latestWrite = 0 /\ storage'.cycles = <<>>
      /\ storage'.latestDocument = Nothing /\ storage'.lastRequestedDocument = Nothing
  BY <1>2 DEF Started, StorageRecords, Documents
<1>7. 0 \in 0..Len(storage'.cycles) /\ \A n \in 1..Len(storage'.cycles) : FALSE
  BY <1>6
<1>8. waiter' \in [Waiting -> WaiterRecords] /\ \A w \in Waiting : waiter'[w].at = "idle"
  BY <1>2 DEF WaiterRecords
<1>9. windows' \in Nat \ {0}
  BY <1>1, <1>2
<1> HIDE DEF q, c
<1> QED
  BY <1>2, <1>3, <1>4, <1>5, <1>6, <1>7, <1>8, <1>9, Reading

LEMMA InitCInv == Init => CInv
<1> SUFFICES ASSUME Init PROVE CInv
  OBVIOUS
<1>1. /\ library = Empty /\ hydration = "reading" /\ persistenceEnabled = FALSE
      /\ storage = Started /\ legacy \in FirstLegacy /\ host \in {"serial", "unordered"}
      /\ waiter = [w \in Waiting |-> [at |-> "idle", edition |-> 0, promise |-> 0]]
      /\ file \in FirstFiles /\ observed = Nothing /\ edits = 0 /\ windows = 1 /\ others = 0
      /\ calls = <<LoadCall>>
  BY DEF Init, Waiting
<1>2. /\ storage \in StorageRecords /\ storage.phase = "loading" /\ storage.error = "none"
      /\ ~storage.hydrated /\ storage.active = 0 /\ storage.latestWrite = 0
      /\ storage.cycles = <<>> /\ storage.latestDocument = Nothing
      /\ storage.lastRequestedDocument = Nothing
  BY <1>1 DEF Started, StorageRecords, Documents
<1>3. /\ LoadCall \in CallRecords /\ LoadCall.kind = "load" /\ LoadCall.window = windows
      /\ LoadCall.document = Nothing
  BY <1>1, LoadCallFacts DEF LoadCall
<1>4. /\ file \in Libraries \cup {Missing, Newer} /\ legacy \in Libraries \cup {Missing}
      /\ file \in Libraries => file.edition = 0
      /\ legacy \in Libraries => legacy.edition = 0
      /\ MaxEditions \in Nat
  BY <1>1, StoreAssumption
<1>5. calls \in Seq(CallRecords) /\ Len(calls) = 1 /\ calls[1] = LoadCall /\ calls # <<>>
  BY <1>1, <1>3
<1> HIDE DEF LoadCall
<1>6. waiter \in [Waiting -> WaiterRecords] /\ \A w \in Waiting : waiter[w].at = "idle"
  BY <1>1 DEF WaiterRecords
<1>7. TypeInv
  <2>1. edits \in 0..MaxEditions /\ others \in Nat /\ windows \in Nat \ {0}
    BY <1>1, <1>4
  <2>2. library \in Libraries /\ hydration \in {"idle", "reading", "migrating"}
        /\ persistenceEnabled \in BOOLEAN
    BY <1>1, DocumentFacts
  <2>3. observed \in Libraries \cup {Missing, Newer, Nothing}
        /\ host \in {"serial", "unordered"}
    BY <1>1
  <2> QED
    BY <1>2, <1>4, <1>5, <1>6, <2>1, <2>2, <2>3 DEF TypeInv
<1>8. PastInv
  BY <1>1, <1>2, <1>3, <1>4, <1>5, DocumentFacts DEF PastInv, Past
<1>9. QueueInv
  BY <1>1, <1>3, <1>5 DEF QueueInv, Loading
<1>10. CycleInv
  BY <1>1, <1>2 DEF CycleInv, Loading
<1>11. NewestInv /\ ScreenInv /\ WaitInv /\ LoadInv
  BY <1>1, <1>2, <1>6, DocumentFacts DEF NewestInv, ScreenInv, WaitInv, LoadInv, Loading
<1> QED
  BY <1>7, <1>8, <1>9, <1>10, <1>11 DEF CInv

-----------------------------------------------------------------------------
(* Answers *)

\* t is storage s after the answer o to call c, with p writes still in flight.
HasRecorded(s, c, o, p, t) ==
  /\ t \in StorageRecords
  /\ t.hydrated = s.hydrated /\ t.latestDocument = s.latestDocument
  /\ t.latestWrite = s.latestWrite /\ t.cycles = s.cycles /\ t.active = s.active
  /\ t.sequence = s.sequence
  /\ c.sequence # s.sequence =>
       /\ t.phase = s.phase /\ t.error = s.error /\ t.settled = s.settled
       /\ t.lastRequestedDocument = s.lastRequestedDocument
       /\ t.staleSuccess <=> s.staleSuccess \/ (o = "saved" /\ s.settled = "saved")
  /\ c.sequence = s.sequence /\ o = "saved" =>
       /\ t.settled = "saved" /\ ~t.staleSuccess /\ t.lastRequestedDocument = c.document
       /\ t.phase = IF s.hydrated /\ p > 0 THEN "saving" ELSE s.phase
       /\ t.error = IF s.hydrated /\ p > 0 THEN "none" ELSE s.error
  /\ c.sequence = s.sequence /\ o # "saved" =>
       /\ t.settled = "failed" /\ ~t.staleSuccess /\ t.phase = "error" /\ t.error = o
       /\ t.lastRequestedDocument = s.lastRequestedDocument

LEMMA RecordedFacts ==
  ASSUME NEW s \in StorageRecords, NEW c \in CallRecords, c.document \in Libraries,
         NEW o \in {"saved", "write", "conflict"}, NEW p \in Nat
  PROVE  HasRecorded(s, c, o, p, Recorded(s, c, o, p))
<1> DEFINE t == Recorded(s, c, o, p)
<1>1. CASE c.sequence # s.sequence
  <2> DEFINE b == s.staleSuccess \/ (o = "saved" /\ s.settled = "saved")
  <2>1. t = [s EXCEPT !.staleSuccess = b]
    BY <1>1 DEF Recorded, StorageRecords
  <2>2. b \in BOOLEAN
    BY Zenon
  <2> HIDE DEF b
  <2>3. /\ t \in StorageRecords /\ t.staleSuccess = b
        /\ t.hydrated = s.hydrated /\ t.latestDocument = s.latestDocument
        /\ t.latestWrite = s.latestWrite /\ t.cycles = s.cycles /\ t.active = s.active
        /\ t.sequence = s.sequence
        /\ t.phase = s.phase /\ t.error = s.error /\ t.settled = s.settled
        /\ t.lastRequestedDocument = s.lastRequestedDocument
    BY <2>1, <2>2 DEF StorageRecords
  <2>4. t.staleSuccess <=> s.staleSuccess \/ (o = "saved" /\ s.settled = "saved")
    BY <2>3, Zenon DEF b
  <2> HIDE DEF t
  <2> QED
    BY <1>1, <2>3, <2>4 DEF HasRecorded, t
<1>2. CASE c.sequence = s.sequence /\ o = "saved"
  <2>1. t = [s EXCEPT !.settled = "saved", !.staleSuccess = FALSE,
               !.lastRequestedDocument = c.document,
               !.phase = IF s.hydrated /\ p > 0 THEN "saving" ELSE s.phase,
               !.error = IF s.hydrated /\ p > 0 THEN "none" ELSE s.error]
    BY <1>2 DEF Recorded, StorageRecords
  <2>2. c.document \in Documents
    BY DEF Documents
  <2>3. /\ t \in StorageRecords
        /\ t.hydrated = s.hydrated /\ t.latestDocument = s.latestDocument
        /\ t.latestWrite = s.latestWrite /\ t.cycles = s.cycles /\ t.active = s.active
        /\ t.sequence = s.sequence
        /\ t.settled = "saved" /\ ~t.staleSuccess /\ t.lastRequestedDocument = c.document
        /\ t.phase = IF s.hydrated /\ p > 0 THEN "saving" ELSE s.phase
        /\ t.error = IF s.hydrated /\ p > 0 THEN "none" ELSE s.error
    BY <2>1, <2>2 DEF StorageRecords
  <2> HIDE DEF t
  <2> QED
    BY <1>2, <2>3 DEF HasRecorded, t
<1>3. CASE c.sequence = s.sequence /\ o # "saved"
  <2>1. t = [s EXCEPT !.settled = "failed", !.staleSuccess = FALSE, !.phase = "error",
               !.error = o]
    BY <1>3 DEF Recorded, Failure, StorageRecords
  <2>2. /\ t \in StorageRecords
        /\ t.hydrated = s.hydrated /\ t.latestDocument = s.latestDocument
        /\ t.latestWrite = s.latestWrite /\ t.cycles = s.cycles /\ t.active = s.active
        /\ t.sequence = s.sequence
        /\ t.settled = "failed" /\ ~t.staleSuccess /\ t.phase = "error" /\ t.error = o
        /\ t.lastRequestedDocument = s.lastRequestedDocument
    BY <1>3, <2>1 DEF StorageRecords
  <2> HIDE DEF t
  <2> QED
    BY <1>3, <2>2 DEF HasRecorded, t
<1> HIDE DEF t
<1>4. QED
  BY <1>1, <1>2, <1>3 DEF t

\* t is storage s after its open cycle has come to outcome o.
HasSettled(s, o, t) ==
  /\ t \in StorageRecords
  /\ t.hydrated = s.hydrated /\ t.latestDocument = s.latestDocument
  /\ t.lastRequestedDocument = s.lastRequestedDocument
  /\ t.latestWrite = s.latestWrite /\ t.active = 0 /\ Len(t.cycles) = Len(s.cycles)
  /\ t.cycles[s.active] = o
  /\ \A n \in 1..Len(s.cycles) : n # s.active => t.cycles[n] = s.cycles[n]
  /\ t.sequence = s.sequence /\ t.settled = s.settled
  /\ t.phase = (IF o = "saved" /\ s.hydrated THEN "ready" ELSE s.phase)
  /\ t.error = (IF o = "saved" /\ s.hydrated THEN "none" ELSE s.error)

LEMMA SettledFacts ==
  ASSUME NEW s \in StorageRecords, s.active \in 1..Len(s.cycles)
  PROVE  /\ HasSettled(s, "failed", Settle(s, "failed"))
         /\ HasSettled(s, "saved", Settle(IF s.hydrated THEN Ready(s) ELSE s, "saved"))
<1>1. s.cycles \in Seq(Outcomes)
  BY StorageFacts
<1>2. ASSUME NEW o \in {"failed", "saved"}, NEW t,
             t = [s EXCEPT !.cycles = [s.cycles EXCEPT ![s.active] = o], !.active = 0,
                    !.phase = IF o = "saved" /\ s.hydrated THEN "ready" ELSE s.phase,
                    !.error = IF o = "saved" /\ s.hydrated THEN "none" ELSE s.error]
      PROVE  HasSettled(s, o, t)
  <2> DEFINE k == [s.cycles EXCEPT ![s.active] = o]
  <2>1. /\ k \in Seq(Outcomes) /\ Len(k) = Len(s.cycles) /\ k[s.active] = o
        /\ \A n \in 1..Len(s.cycles) : n # s.active => k[n] = s.cycles[n]
    BY <1>1, CyclesFacts DEF Outcomes
  <2>2. t = [s EXCEPT !.cycles = k, !.active = 0,
               !.phase = IF o = "saved" /\ s.hydrated THEN "ready" ELSE s.phase,
               !.error = IF o = "saved" /\ s.hydrated THEN "none" ELSE s.error]
    BY <1>2
  <2> HIDE DEF k
  <2>3. /\ t \in StorageRecords
        /\ t.hydrated = s.hydrated /\ t.latestDocument = s.latestDocument
        /\ t.lastRequestedDocument = s.lastRequestedDocument
        /\ t.latestWrite = s.latestWrite /\ t.active = 0 /\ t.cycles = k
        /\ t.sequence = s.sequence /\ t.settled = s.settled
        /\ t.phase = (IF o = "saved" /\ s.hydrated THEN "ready" ELSE s.phase)
        /\ t.error = (IF o = "saved" /\ s.hydrated THEN "none" ELSE s.error)
    BY <2>1, <2>2 DEF StorageRecords, Outcomes
  <2> QED
    BY <2>1, <2>3 DEF HasSettled
<1>3. HasSettled(s, "failed", Settle(s, "failed"))
  <2>1. Settle(s, "failed")
          = [s EXCEPT !.cycles = [s.cycles EXCEPT ![s.active] = "failed"], !.active = 0,
               !.phase = IF "failed" = "saved" /\ s.hydrated THEN "ready" ELSE s.phase,
               !.error = IF "failed" = "saved" /\ s.hydrated THEN "none" ELSE s.error]
    BY DEF Settle, StorageRecords
  <2> QED
    BY <1>2, <2>1
<1>4. HasSettled(s, "saved", Settle(IF s.hydrated THEN Ready(s) ELSE s, "saved"))
  <2>1. Settle(IF s.hydrated THEN Ready(s) ELSE s, "saved")
          = [s EXCEPT !.cycles = [s.cycles EXCEPT ![s.active] = "saved"], !.active = 0,
               !.phase = IF "saved" = "saved" /\ s.hydrated THEN "ready" ELSE s.phase,
               !.error = IF "saved" = "saved" /\ s.hydrated THEN "none" ELSE s.error]
    BY DEF Settle, Ready, StorageRecords
  <2> QED
    BY <1>2, <2>1
<1> QED
  BY <1>3, <1>4

\* What the host has done when it answers o to save call i.
Stored(i, o) ==
  /\ \/ file' = file /\ observed' = observed /\ o # "saved"
     \/ /\ file' = calls[i].document /\ observed' = calls[i].document
        /\ o = "saved" \/ host = "serial"
  /\ o = "saved" => i = 1 \/ host = "unordered"

LEMMA SaveSteps ==
  ASSUME NEW i \in 1..Len(calls), SaveAnswered(i) \/ SaveRefused(i)
  PROVE  \E o \in {"saved", "write", "conflict"} :
           /\ AnswerSave(i, o) /\ Stored(i, o) /\ calls[i].kind = "save"
           /\ UNCHANGED <<host, edits, windows, others>>
<1>1. CASE SaveRefused(i)
  <2>1. AnswerSave(i, "write") /\ Stored(i, "write") /\ calls[i].kind = "save"
        /\ UNCHANGED <<host, edits, windows, others>>
    BY <1>1 DEF SaveRefused, Stored, counters
  <2> QED
    BY <2>1
<1>2. CASE SaveAnswered(i)
  <2>1. /\ MayAnswer(i) /\ calls[i].kind = "save" /\ UNCHANGED <<host, edits, windows, others>>
    BY <1>2 DEF SaveAnswered, counters
  <2>2. CASE /\ file' = calls[i].document /\ observed' = calls[i].document
             /\ AnswerSave(i, "saved")
    <3>1. Stored(i, "saved")
      BY <2>1, <2>2 DEF Stored, MayAnswer
    <3> QED
      BY <2>1, <2>2, <3>1
  <2>3. CASE /\ file' = calls[i].document /\ observed' = calls[i].document
             /\ host = "serial" /\ AnswerSave(i, "write")
    <3>1. Stored(i, "write")
      BY <2>3 DEF Stored
    <3> QED
      BY <2>1, <2>3, <3>1
  <2>4. CASE AnswerSave(i, "conflict") /\ UNCHANGED <<file, observed>>
    <3>1. Stored(i, "conflict")
      BY <2>4 DEF Stored
    <3> QED
      BY <2>1, <2>4, <3>1
  <2> QED
    BY <1>2, <2>2, <2>3, <2>4 DEF SaveAnswered
<1> QED
  BY <1>1, <1>2

\* The hydration ends with nothing in flight.
LEMMA Arriving ==
  ASSUME TypeInv, PastInv, QueueInv, \A w \in Waiting : waiter[w].at # "waiting",
         ~storage'.hydrated => \A w \in Waiting : waiter[w].at = "idle",
         calls' = <<>>, hydration' = "idle", persistenceEnabled' = storage'.hydrated,
         storage' \in StorageRecords, storage'.active = 0,
         storage'.latestWrite \in 0..Len(storage'.cycles),
         \A n \in 1..Len(storage'.cycles) : storage'.cycles[n] # "open",
         file' \in Libraries \cup {Missing, Newer}, Past(file', edits),
         legacy' \in Libraries \cup {Missing}, Past(legacy', edits),
         observed' \in Libraries \cup {Missing, Newer, Nothing},
         library' \in Libraries, Hydrate(library') = library',
         Past(storage'.latestDocument, edits), Past(storage'.lastRequestedDocument, edits),
         storage'.error # "none" <=> storage'.phase = "error",
         ~storage'.hydrated =>
           /\ library' = Empty /\ storage'.phase = "error"
           /\ storage'.error \in {"read", "newer"}
           /\ storage'.latestDocument = storage'.lastRequestedDocument
           /\ \/ storage'.latestDocument = Nothing
              \/ storage'.latestDocument = Newer /\ file' # Missing,
         storage'.hydrated =>
           /\ storage'.error \in {"none", "write", "conflict"}
           /\ storage'.phase \in {"ready", "error"}
           /\ storage'.phase = "ready" =>
                Content(observed') = Content(storage'.latestDocument)
           /\ Content(storage'.latestDocument) = library'
           /\ storage'.lastRequestedDocument \in {Nothing, storage'.latestDocument}
           /\ storage'.phase # "ready" =>
                /\ storage'.lastRequestedDocument \in {Nothing, library'}
                /\ storage'.latestDocument \in Libraries,
         UNCHANGED <<waiter, host, edits, windows, others>>
  PROVE  CInv'
<1>1. calls' \in Seq(CallRecords) /\ Len(calls') = 0 /\ \A i \in 1..Len(calls') : FALSE
  OBVIOUS
<1>2. persistenceEnabled' \in BOOLEAN
  BY StorageFacts
<1>3. TypeInv'
  BY <1>1, <1>2 DEF TypeInv
<1>4. PastInv'
  BY <1>1 DEF PastInv
<1>5. QueueInv'
  BY <1>1 DEF QueueInv, Loading
<1>6. CycleInv'
  <2>1. Len(storage'.cycles) \in Nat /\ 0 \in 0..Len(storage'.cycles)
    BY StorageFacts
  <2>2. \A n \in 1..Len(storage'.cycles) : storage'.cycles[n] = "open" <=> n = storage'.active
    BY <2>1
  <2> QED
    BY <2>1, <2>2 DEF CycleInv, Loading
<1>7. NewestInv' /\ WaitInv'
  BY DEF NewestInv, WaitInv
<1>8. LoadInv'
  BY <1>2, Zenon DEF LoadInv
<1>9. ScreenInv'
  BY DEF ScreenInv
<1> QED
  BY <1>3, <1>4, <1>5, <1>6, <1>7, <1>8, <1>9 DEF CInv

\* The load is answered alone: its window is the only one, or the calls of the
\* earlier ones have been answered.
LEMMA LoadIsAlone ==
  ASSUME CInv, NEW i \in 1..Len(calls), calls[i].kind = "load", MayAnswer(i)
  PROVE  /\ Loading /\ Len(calls) = 1 /\ i = 1 /\ RemoveAt(calls, i) = <<>>
         /\ Pending(RemoveAt(calls, i)) = 0
<1>1. QueueInv /\ calls \in Seq(CallRecords) /\ Len(calls) \in Nat /\ windows \in Nat \ {0}
      /\ \A j \in 1..Len(calls) : calls[j].window \in Nat \ {0}
  BY Typed DEF CInv, TypeInv
<1>2. host \in {"serial", "unordered"} /\ (windows > 1 => host = "serial")
  BY <1>1 DEF CInv, TypeInv, QueueInv
<1>3. Loading
  BY <1>1 DEF QueueInv
<1>4. i = Len(calls)
  <2>1. i # Len(calls) => i \in 1..(Len(calls) - 1)
    BY <1>1
  <2> QED
    BY <1>1, <1>3, <2>1 DEF QueueInv
<1>5. Len(calls) = 1
  <2>1. CASE host = "serial"
    BY <1>4, <2>1 DEF MayAnswer
  <2>2. CASE host = "unordered"
    <3>1. windows = 1
      BY <1>1, <1>2, <2>2
    <3>2. ASSUME Len(calls) # 1 PROVE FALSE
      <4>1. 1 \in 1..(Len(calls) - 1) /\ 1 \in 1..Len(calls)
        <5> DEFINE n == Len(calls)
        <5>1. n \in Nat /\ i \in 1..n /\ n # 1
          BY <1>1, <3>2
        <5> HIDE DEF n
        <5>2. n >= 2
          BY <5>1
        <5>3. 1 \in 1..(n - 1) /\ 1 \in 1..n
          BY <5>1, <5>2
        <5> QED
          BY <5>3 DEF n
      <4>2. calls[1].window < windows
        BY <1>1, <1>3, <4>1 DEF QueueInv
      <4> QED
        BY <1>1, <3>1, <4>1, <4>2
    <3> QED
      BY <3>2
  <2> QED
    BY <1>2, <2>1, <2>2
<1> DEFINE q == RemoveAt(calls, i)
<1>6. q \in Seq(CallRecords) /\ Len(q) = 0
  <2>1. calls \in Seq(CallRecords) /\ Len(calls) = 1
    BY <1>1, <1>5
  <2>2. q \in Seq(CallRecords) /\ Len(q) = Len(calls) - 1
    BY <2>1, Removed
  <2> QED
    BY <2>1, <2>2
<1> HIDE DEF q
<1>7. q = <<>> /\ \A j \in 1..Len(q) : FALSE
  BY <1>6
<1>8. Pending(q) = 0
  BY <1>6, <1>7, PendingFacts
<1> QED
  BY <1>3, <1>4, <1>5, <1>7, <1>8 DEF q

LEMMA AnsweringLoad ==
  ASSUME CInv, NEW i \in 1..Len(calls), AnswerLoad(i)
  PROVE  CInv'
<1> DEFINE q == RemoveAt(calls, i)
           read == [storage EXCEPT !.latestDocument = file,
                                   !.lastRequestedDocument = file, !.latestWrite = 0]
           moving == Saving(storage, legacy)
<1>1. /\ TypeInv /\ PastInv /\ QueueInv /\ CycleInv /\ LoadInv /\ ScreenInv
      /\ storage \in StorageRecords
  BY Typed DEF CInv
<1>2. /\ MayAnswer(i) /\ calls[i].kind = "load"
      /\ UNCHANGED <<waiter, legacy, host, file, edits, windows, others>>
  BY DEF AnswerLoad, counters
<1>3. Loading /\ q = <<>> /\ Pending(q) = 0
  BY <1>2, LoadIsAlone
<1>4. /\ hydration = "reading" /\ ~storage.hydrated /\ storage.phase = "loading"
      /\ storage.error = "none" /\ library = Empty
      /\ \A w \in Waiting : waiter[w].at = "idle"
      /\ storage.latestDocument = storage.lastRequestedDocument
      /\ storage.latestDocument = Nothing \/ (storage.latestDocument = Newer /\ file # Missing)
      /\ storage.active = 0
  <2>1. hydration = "reading" /\ storage.active = 0
    BY <1>1, <1>3 DEF Loading, CycleInv
  <2>2. ~storage.hydrated /\ storage.phase = "loading" /\ storage.error = "none"
    BY <1>1, <2>1 DEF LoadInv
  <2> QED
    BY <1>1, <2>1, <2>2 DEF LoadInv
<1>5. /\ storage.cycles \in Seq(Outcomes) /\ Len(storage.cycles) \in Nat
      /\ 0 \in 0..Len(storage.cycles) /\ storage.latestWrite \in 0..Len(storage.cycles)
      /\ \A n \in 1..Len(storage.cycles) : storage.cycles[n] # "open"
  <2>1. Len(storage.cycles) \in Nat /\ storage.cycles \in Seq(Outcomes)
    BY <1>1, StorageFacts
  <2>2. \A n \in 1..Len(storage.cycles) : n # 0
    BY <2>1
  <2> QED
    BY <1>1, <1>4, <2>1, <2>2 DEF CycleInv
<1>6. file \in Libraries \cup {Missing, Newer} /\ Past(file, edits) /\ Past(legacy, edits)
      /\ legacy \in Libraries \cup {Missing} /\ library \in Libraries
      /\ observed \in Libraries \cup {Missing, Newer, Nothing}
      /\ Past(storage.latestDocument, edits) /\ Past(Nothing, edits)
  BY <1>1, DocumentFacts DEF TypeInv, PastInv, Past
<1>7. /\ \/ UNCHANGED observed /\ Loaded(Nothing, Failure(storage, "read"), q)
         \/ observed' = file /\ file # Missing /\ Loaded(file, read, q)
         \/ /\ observed' = file /\ file = Missing /\ legacy # Missing
            /\ storage' = moving /\ hydration' = "migrating"
            /\ calls' = Append(q, SaveCall(moving, legacy))
            /\ UNCHANGED <<library, persistenceEnabled>>
         \/ /\ observed' = file /\ file = Missing /\ legacy = Missing
            /\ Loaded(Nothing, [storage EXCEPT !.latestWrite = 0], q)
  BY DEF AnswerLoad
<1> HIDE DEF q
<1>8. CASE UNCHANGED observed /\ Loaded(Nothing, Failure(storage, "read"), q)
  <2>1. /\ library' = library /\ hydration' = "idle" /\ calls' = <<>>
        /\ storage' = Hydrated(Failure(storage, "read"), 0)
        /\ persistenceEnabled' = storage'.hydrated
    BY <1>3, <1>8, DocumentFacts DEF Loaded
  <2>2. storage' = [storage EXCEPT !.phase = "error", !.error = "read", !.hydrated = FALSE]
    BY <1>1, <2>1 DEF Hydrated, Failure, StorageRecords
  <2>3. /\ storage' \in StorageRecords /\ ~storage'.hydrated /\ storage'.phase = "error"
        /\ storage'.error = "read" /\ storage'.latestDocument = storage.latestDocument
        /\ storage'.lastRequestedDocument = storage.lastRequestedDocument
        /\ storage'.latestWrite = storage.latestWrite /\ storage'.active = storage.active
        /\ storage'.cycles = storage.cycles
    BY <1>1, <2>2 DEF StorageRecords
  <2> QED
    BY <1>1, <1>2, <1>4, <1>5, <1>6, <1>8, <2>1, <2>3, Arriving, DocumentFacts
<1>9. CASE observed' = file /\ file # Missing /\ Loaded(file, read, q)
  <2>1. CASE file = Newer
    <3>1. /\ library' = library /\ hydration' = "idle" /\ calls' = <<>>
          /\ storage' = Failure([read EXCEPT !.hydrated = FALSE], "newer")
          /\ persistenceEnabled' = storage'.hydrated
      BY <1>3, <1>9, <2>1, DocumentFacts DEF Loaded
    <3>2. storage' = [storage EXCEPT !.phase = "error", !.error = "newer", !.hydrated = FALSE,
                        !.latestDocument = Newer, !.lastRequestedDocument = Newer,
                        !.latestWrite = 0]
      BY <1>1, <2>1, <3>1 DEF Failure, StorageRecords
    <3>3. /\ storage' \in StorageRecords /\ ~storage'.hydrated /\ storage'.phase = "error"
          /\ storage'.error = "newer" /\ storage'.latestDocument = Newer
          /\ storage'.lastRequestedDocument = Newer
          /\ storage'.latestWrite = 0 /\ storage'.active = storage.active
          /\ storage'.cycles = storage.cycles
      BY <1>1, <3>2 DEF StorageRecords, Documents
    <3>4. Past(Newer, edits)
      BY <1>6, <2>1
    <3> QED
      BY <1>1, <1>2, <1>4, <1>5, <1>6, <1>9, <2>1, <3>1, <3>3, <3>4, Arriving, DocumentFacts
  <2>2. CASE file # Newer
    <3>1. file \in Libraries
      BY <1>6, <1>9, <2>2
    <3>2. /\ library' = Hydrate(file) /\ hydration' = "idle" /\ calls' = <<>>
          /\ storage' = Hydrated(read, 0) /\ persistenceEnabled' = storage'.hydrated
      BY <1>3, <1>9, <2>2, <3>1, DocumentFacts DEF Loaded
    <3>3. storage' = [storage EXCEPT !.phase = "ready", !.error = "none", !.hydrated = TRUE,
                        !.latestDocument = file, !.lastRequestedDocument = file,
                        !.latestWrite = 0]
      <4>1. read.phase = "loading"
        BY <1>1, <1>4 DEF StorageRecords
      <4>2. storage' = [read EXCEPT !.hydrated = TRUE, !.error = "none", !.phase = "ready"]
        BY <3>2, <4>1 DEF Hydrated
      <4> QED
        BY <1>1, <4>2 DEF StorageRecords
    <3>4. /\ storage' \in StorageRecords /\ storage'.hydrated /\ storage'.phase = "ready"
          /\ storage'.error = "none" /\ storage'.latestDocument = file
          /\ storage'.lastRequestedDocument = file
          /\ storage'.latestWrite = 0 /\ storage'.active = storage.active
          /\ storage'.cycles = storage.cycles
      BY <1>1, <3>1, <3>3 DEF StorageRecords, Documents
    <3> QED
      BY <1>1, <1>2, <1>4, <1>5, <1>6, <1>9, <3>1, <3>2, <3>4, Arriving, DocumentFacts
  <2> QED
    BY <2>1, <2>2
<1>10. CASE /\ observed' = file /\ file = Missing /\ legacy = Missing
            /\ Loaded(Nothing, [storage EXCEPT !.latestWrite = 0], q)
  <2>1. /\ library' = library /\ hydration' = "idle" /\ calls' = <<>>
        /\ storage' = Hydrated([storage EXCEPT !.latestWrite = 0], 0)
        /\ persistenceEnabled' = storage'.hydrated
    BY <1>3, <1>10, DocumentFacts DEF Loaded
  <2>2. storage' = [storage EXCEPT !.phase = "ready", !.error = "none", !.hydrated = TRUE,
                      !.latestWrite = 0]
    <3> DEFINE s == [storage EXCEPT !.latestWrite = 0]
    <3>1. s.phase = "loading"
      BY <1>1, <1>4 DEF StorageRecords
    <3>2. storage' = [s EXCEPT !.hydrated = TRUE, !.error = "none", !.phase = "ready"]
      BY <2>1, <3>1 DEF Hydrated
    <3> QED
      BY <1>1, <3>2 DEF StorageRecords
  <2>3. /\ storage' \in StorageRecords /\ storage'.hydrated /\ storage'.phase = "ready"
        /\ storage'.error = "none" /\ storage'.latestDocument = storage.latestDocument
        /\ storage'.lastRequestedDocument = storage.lastRequestedDocument
        /\ storage'.latestWrite = 0 /\ storage'.active = storage.active
        /\ storage'.cycles = storage.cycles
    BY <1>1, <2>2 DEF StorageRecords
  <2>4. storage.latestDocument = Nothing
    BY <1>4, <1>10
  <2> QED
    BY <1>1, <1>2, <1>4, <1>5, <1>6, <1>10, <2>1, <2>3, <2>4, Arriving, DocumentFacts
<1>11. CASE /\ observed' = file /\ file = Missing /\ legacy # Missing
            /\ storage' = moving /\ hydration' = "migrating"
            /\ calls' = Append(q, SaveCall(moving, legacy))
            /\ UNCHANGED <<library, persistenceEnabled>>
  <2> DEFINE t == moving
             c == SaveCall(t, legacy)
  <2>1. legacy \in Libraries /\ storage.active \in 0..Len(storage.cycles)
        /\ storage.lastRequestedDocument = Nothing
    BY <1>1, <1>4, <1>6, <1>11 DEF CycleInv
  <2> HIDE DEF moving
  <2>2. HasSaved(storage, legacy, t)
    BY <1>1, <2>1, SavingFacts DEF moving
  <2>3. /\ t \in StorageRecords /\ t.phase = "loading" /\ t.error = "none"
        /\ ~t.hydrated /\ t.latestDocument = legacy /\ t.lastRequestedDocument = Nothing
        /\ t.sequence = storage.sequence + 1 /\ t.settled = "none"
        /\ t.active = Len(storage.cycles) + 1 /\ Len(t.cycles) = t.active
        /\ t.latestWrite = t.active
        /\ \A n \in 1..Len(t.cycles) :
             t.cycles[n] = IF n <= Len(storage.cycles) THEN storage.cycles[n] ELSE "open"
    BY <1>4, <2>1, <2>2 DEF HasSaved
  <2>4. /\ c \in CallRecords /\ c.kind = "save" /\ c.window = windows /\ c.document = legacy
        /\ c.sequence = t.sequence /\ c.cycle = t.active
    BY <1>1, <2>1, <2>3, SaveCallFacts DEF TypeInv
  <2> HIDE DEF c
  <2>5. calls' = <<c>> /\ storage' = t /\ hydration' = "migrating" /\ library' = library
        /\ persistenceEnabled' = persistenceEnabled /\ observed' = file
    BY <1>3, <1>11 DEF c
  <2>6. calls' \in Seq(CallRecords) /\ Len(calls') = 1 /\ calls'[1] = c /\ calls' # <<>>
        /\ \A j \in 1..Len(calls') : j = 1
    BY <2>4, <2>5
  <2>7. TypeInv'
    BY <1>1, <1>2, <1>6, <2>3, <2>5, <2>6 DEF TypeInv
  <2>8. PastInv'
    BY <1>2, <1>6, <2>3, <2>4, <2>5, <2>6 DEF PastInv
  <2>9. t.sequence \in 1..t.sequence /\ t.active \in 0..Len(t.cycles) /\ t.active # 0
        /\ \A n \in 1..Len(t.cycles) : t.cycles[n] = "open" <=> n = t.active
    <3>1. storage.sequence \in Nat
      BY <1>1, StorageFacts
    <3>2. t.sequence \in 1..t.sequence /\ t.active \in 0..Len(t.cycles) /\ t.active # 0
      BY <1>5, <2>3, <3>1
    <3>3. ASSUME NEW n \in 1..Len(t.cycles)
          PROVE  t.cycles[n] = "open" <=> n = t.active
      <4>1. CASE n <= Len(storage.cycles)
        BY <1>5, <2>3, <4>1
      <4>2. CASE ~(n <= Len(storage.cycles))
        BY <1>5, <2>3, <4>2
      <4> QED
        BY <4>1, <4>2
    <3> QED
      BY <3>2, <3>3
  <2>10. QueueInv'
    <3>1. \A j, k \in 1..Len(calls') : ~(j < k)
      BY <2>6
    <3> QED
      BY <1>1, <1>2, <2>1, <2>4, <2>5, <2>6, <2>9, <3>1 DEF QueueInv, Loading
  <2>11. CycleInv'
    BY <2>3, <2>5, <2>6, <2>9 DEF CycleInv, Loading
  <2>12. NewestInv'
    BY <2>3, <2>4, <2>5, <2>6 DEF NewestInv
  <2>13. LoadInv'
    BY <1>2, <1>4, <2>1, <2>3, <2>4, <2>5, <2>6 DEF LoadInv
  <2>14. ScreenInv' /\ WaitInv'
    BY <1>2, <1>4, <2>3, <2>5, DocumentFacts DEF ScreenInv, WaitInv
  <2> QED
    BY <2>7, <2>8, <2>10, <2>11, <2>12, <2>13, <2>14 DEF CInv
<1> QED
  BY <1>7, <1>8, <1>9, <1>10, <1>11

\* What a step of the host leaves typed and past.
LEMMA StoredFacts ==
  ASSUME TypeInv, PastInv, NEW i \in 1..Len(calls), calls[i].document \in Libraries,
         NEW o \in {"saved", "write", "conflict"}, Stored(i, o)
  PROVE  /\ file' \in Libraries \cup {Missing, Newer} /\ Past(file', edits)
         /\ observed' \in Libraries \cup {Missing, Newer, Nothing}
         /\ file' = file \/ file' # Missing
<1>1. Past(calls[i].document, edits)
  BY DEF PastInv
<1>2. file \in Libraries \cup {Missing, Newer} /\ Past(file, edits)
      /\ observed \in Libraries \cup {Missing, Newer, Nothing}
  BY DEF TypeInv, PastInv
<1> QED
  BY <1>1, <1>2, DocumentFacts DEF Stored

\* The answer to a save of an earlier window, which nobody hears.
LEMMA Unheard ==
  ASSUME CInv, NEW i \in 1..Len(calls), NEW o \in {"saved", "write", "conflict"},
         calls[i].kind = "save", calls[i].window # windows, AnswerSave(i, o), Stored(i, o),
         UNCHANGED <<host, edits, windows, others>>
  PROVE  CInv'
<1> DEFINE q == RemoveAt(calls, i)
<1>1. /\ TypeInv /\ PastInv /\ QueueInv /\ CycleInv /\ LoadInv /\ ScreenInv
      /\ storage \in StorageRecords /\ calls \in Seq(CallRecords)
  BY Typed DEF CInv
<1>2. /\ calls' = q
      /\ UNCHANGED <<library, hydration, persistenceEnabled, storage, waiter, legacy>>
  BY DEF AnswerSave, rendererVars
<1>3. /\ q \in Seq(CallRecords) /\ Len(q) = Len(calls) - 1 /\ Len(calls) \in Nat \ {0}
      /\ \A j \in 1..(Len(calls) - 1) : q[j] = IF j < i THEN calls[j] ELSE calls[j + 1]
  BY <1>1, Removed
<1> HIDE DEF q
<1>4. Loading /\ i # Len(calls)
  <2>1. Loading
    BY <1>1 DEF QueueInv
  <2>2. calls[Len(calls)].window = windows
    BY <1>1, <2>1 DEF QueueInv
  <2> QED
    BY <2>1, <2>2
<1>5. i \in 1..(Len(calls) - 1) /\ calls[i].document \in Libraries
  <2>1. i \in 1..(Len(calls) - 1)
    BY <1>3, <1>4
  <2> QED
    BY <1>1, <1>4, <2>1 DEF QueueInv
<1>6. /\ file' \in Libraries \cup {Missing, Newer} /\ Past(file', edits)
      /\ observed' \in Libraries \cup {Missing, Newer, Nothing}
      /\ file' = file \/ file' # Missing
  BY <1>1, <1>5, StoredFacts
<1>7. \A j \in 1..Len(q) : \E k \in 1..Len(calls) : q[j] = calls[k]
  <2> SUFFICES ASSUME NEW j \in 1..Len(q) PROVE \E k \in 1..Len(calls) : q[j] = calls[k]
    OBVIOUS
  <2>1. j \in 1..(Len(calls) - 1) /\ j \in 1..Len(calls) /\ j + 1 \in 1..Len(calls)
    BY <1>3
  <2> QED
    BY <1>3, <2>1
<1>8. \A j \in 1..(Len(q) - 1) : \E k \in 1..(Len(calls) - 1) : q[j] = calls[k]
  <2> SUFFICES ASSUME NEW j \in 1..(Len(q) - 1)
               PROVE  \E k \in 1..(Len(calls) - 1) : q[j] = calls[k]
    OBVIOUS
  <2>1. j \in 1..(Len(calls) - 1) /\ j + 1 \in 1..(Len(calls) - 1)
    BY <1>3
  <2> QED
    BY <1>3, <2>1
<1>9. Len(q) \in 1..(Len(calls) - 1) /\ q[Len(q)] = calls[Len(calls)] /\ q # <<>>
  <2>1. Len(q) \in 1..(Len(calls) - 1) /\ Len(q) + 1 = Len(calls) /\ ~(Len(q) < i)
        /\ Len(q) # 0
    BY <1>3, <1>5
  <2>2. q # <<>>
    BY <2>1
  <2> QED
    BY <1>3, <2>1, <2>2
<1>10. TypeInv'
  BY <1>1, <1>2, <1>3, <1>6 DEF TypeInv
<1>11. PastInv'
  BY <1>1, <1>2, <1>6, <1>7 DEF PastInv
<1>12. QueueInv'
  BY <1>1, <1>2, <1>4, <1>8, <1>9 DEF QueueInv, Loading
<1>13. CycleInv'
  BY <1>1, <1>2, <1>4 DEF CycleInv, Loading
<1>14. NewestInv'
  BY <1>2, <1>4 DEF NewestInv, Loading
<1>15. ~storage.hydrated /\ hydration = "reading"
  BY <1>1, <1>4 DEF LoadInv, Loading
<1>16. LoadInv'
  <2>1. /\ library = Empty /\ \A w \in Waiting : waiter[w].at = "idle"
        /\ storage.latestDocument = storage.lastRequestedDocument
        /\ storage.latestDocument = Nothing \/ (storage.latestDocument = Newer /\ file # Missing)
        /\ storage.phase = "loading"
        /\ (storage.error # "none" <=> storage.phase = "error")
    BY <1>1, <1>15 DEF LoadInv
  <2> QED
    BY <1>2, <1>6, <1>15, <2>1 DEF LoadInv
<1>17. ScreenInv' /\ WaitInv'
  <2>1. \A w \in Waiting : waiter[w].at = "idle"
    BY <1>1, <1>15 DEF LoadInv
  <2> QED
    BY <1>1, <1>2, <1>15, <2>1 DEF ScreenInv, WaitInv
<1> QED
  BY <1>10, <1>11, <1>12, <1>13, <1>14, <1>16, <1>17 DEF CInv

\* Whether writes of this window are left after an answer.
LEMMA LeftOver ==
  ASSUME CInv, ~Loading, NEW i \in 1..Len(calls)
  PROVE  LET q == RemoveAt(calls, i)
         IN  /\ Pending(q) \in Nat /\ (Pending(q) = 0 <=> Len(calls) = 1)
             /\ (Pending(q) > 0 <=> Len(calls) > 1) /\ (Len(calls) = 1 <=> q = <<>>)
<1> DEFINE q == RemoveAt(calls, i)
<1>1. QueueInv /\ calls \in Seq(CallRecords) /\ windows \in Nat \ {0}
  BY Typed DEF CInv, TypeInv
<1>2. /\ q \in Seq(CallRecords) /\ Len(q) = Len(calls) - 1 /\ Len(calls) \in Nat \ {0}
      /\ \A j \in 1..(Len(calls) - 1) : q[j] = IF j < i THEN calls[j] ELSE calls[j + 1]
  BY <1>1, Removed
<1> HIDE DEF q
<1>3. \A j \in 1..Len(q) : q[j].kind = "save" /\ q[j].window = windows
  <2> SUFFICES ASSUME NEW j \in 1..Len(q)
               PROVE  q[j].kind = "save" /\ q[j].window = windows
    OBVIOUS
  <2>1. j \in 1..(Len(calls) - 1) /\ j \in 1..Len(calls) /\ j + 1 \in 1..Len(calls)
    BY <1>2
  <2>2. \A k \in 1..Len(calls) : calls[k].kind = "save" /\ calls[k].window = windows
    BY <1>1 DEF QueueInv
  <2> QED
    BY <1>2, <2>1, <2>2
<1>4. Pending(q) \in Nat /\ (Pending(q) = 0 <=> \A j \in 1..Len(q) : FALSE)
  BY <1>2, <1>3, PendingFacts
<1>5. (\A j \in 1..Len(q) : FALSE) <=> Len(q) = 0
  <2>1. Len(q) \in Nat /\ (Len(q) # 0 => 1 \in 1..Len(q))
    BY <1>2
  <2> QED
    BY <2>1
<1>6. Len(q) = 0 <=> q = <<>>
  BY <1>2
<1>7. Len(q) = 0 <=> Len(calls) = 1
  BY <1>2
<1> QED
  BY <1>2, <1>4, <1>5, <1>6, <1>7 DEF q

\* The write of the legacy document has come to an end, and so has the hydration.
LEMMA Migrated ==
  ASSUME CInv, hydration = "migrating", NEW i \in 1..Len(calls),
         NEW o \in {"saved", "write", "conflict"}, calls[i].kind = "save",
         AnswerSave(i, o), Stored(i, o), UNCHANGED <<host, edits, windows, others>>
  PROVE  CInv'
<1> DEFINE q == RemoveAt(calls, i)
           r == Recorded(storage, calls[i], o, Pending(q))
           t == Stabilize(r, calls[i].cycle, Pending(q))
<1>1. /\ TypeInv /\ PastInv /\ QueueInv /\ CycleInv /\ NewestInv /\ LoadInv /\ ScreenInv
      /\ storage \in StorageRecords /\ calls \in Seq(CallRecords) /\ calls[i] \in CallRecords
      /\ calls = <<>> <=> Len(calls) = 0
  BY Typed DEF CInv
<1>2. /\ ~Loading /\ Len(calls) = 1 /\ i = 1 /\ calls[i].document = legacy
      /\ legacy \in Libraries /\ storage.latestDocument = legacy
      /\ storage.lastRequestedDocument = Nothing /\ storage.settled = "none"
      /\ ~storage.hydrated /\ storage.phase = "loading" /\ storage.error = "none"
  <2>1. ~Loading /\ ~storage.hydrated /\ storage.phase = "loading" /\ storage.error = "none"
    BY <1>1 DEF LoadInv, Loading
  <2>2. /\ Len(calls) = 1 /\ calls[1].document = legacy /\ legacy \in Libraries
        /\ storage.latestDocument = legacy /\ storage.lastRequestedDocument = Nothing
        /\ storage.settled = "none"
    BY <1>1 DEF LoadInv
  <2>3. i = 1
    BY <2>2
  <2> QED
    BY <2>1, <2>2, <2>3
<1>3. q = <<>> /\ Pending(q) = 0
  BY <1>2, LeftOver
<1>4. /\ calls[i].window = windows /\ calls[i].cycle = storage.active
      /\ calls[i].sequence = storage.sequence
      /\ storage.active \in 1..Len(storage.cycles)
      /\ storage.latestWrite \in 0..Len(storage.cycles)
      /\ \A n \in 1..Len(storage.cycles) : storage.cycles[n] = "open" <=> n = storage.active
  <2>1. calls # <<>>
    BY <1>1, <1>2
  <2>2. calls[i].window = windows /\ calls[i].cycle = storage.active
    BY <1>1, <1>2 DEF QueueInv
  <2>3. calls[i].sequence = storage.sequence
    BY <1>1, <1>2, <2>1 DEF NewestInv
  <2>4. storage.active # 0 /\ storage.active \in 0..Len(storage.cycles)
        /\ Len(storage.cycles) \in Nat
    BY <1>1, <1>2, <2>1, StorageFacts DEF CycleInv
  <2>5. storage.active \in 1..Len(storage.cycles)
    BY <2>4
  <2> QED
    BY <1>1, <2>2, <2>3, <2>5 DEF CycleInv
<1>5. /\ legacy' = IF o = "saved" THEN Missing ELSE legacy
      /\ Loaded(legacy, t, q) /\ UNCHANGED waiter
  BY <1>2, <1>4 DEF AnswerSave
<1>6. HasRecorded(storage, calls[i], o, Pending(q), r)
  BY <1>1, <1>2, <1>3, RecordedFacts
<1>7. /\ r \in StorageRecords /\ ~r.hydrated /\ r.latestDocument = legacy
      /\ r.latestWrite = storage.latestWrite /\ r.cycles = storage.cycles
      /\ r.active = storage.active /\ ~r.staleSuccess
      /\ o = "saved" => /\ r.settled = "saved" /\ r.lastRequestedDocument = legacy
                        /\ r.phase = "loading" /\ r.error = "none"
      /\ o # "saved" => /\ r.settled = "failed" /\ r.lastRequestedDocument = Nothing
                        /\ r.phase = "error" /\ r.error = o
  BY <1>2, <1>3, <1>4, <1>6 DEF HasRecorded
<1>8. t = Stabilize(r, storage.active, 0) /\ r.active = storage.active
  BY <1>3, <1>4, <1>7
<1> HIDE DEF r, t, q
<1>9. /\ o = "saved" => HasSettled(r, "saved", t)
      /\ o # "saved" => HasSettled(r, "failed", t)
  <2>1. HasSettled(r, "failed", Settle(r, "failed"))
        /\ HasSettled(r, "saved", Settle(IF r.hydrated THEN Ready(r) ELSE r, "saved"))
    BY <1>4, <1>7, SettledFacts
  <2>2. o = "saved" => t = Settle(IF r.hydrated THEN Ready(r) ELSE r, "saved")
    BY <1>7, <1>8 DEF Stabilize, Compensates
  <2>3. o # "saved" => t = Settle(r, "failed")
    <3> SUFFICES ASSUME o # "saved" PROVE t = Settle(r, "failed")
      OBVIOUS
    <3>1. r.settled = "failed" /\ r.active = storage.active
      BY <1>7
    <3> QED
      BY <1>8, <3>1 DEF Stabilize
  <2> QED
    BY <2>1, <2>2, <2>3
<1>10. /\ t \in StorageRecords /\ ~t.hydrated /\ t.latestDocument = legacy
       /\ t.latestWrite = storage.latestWrite /\ t.active = 0
       /\ Len(t.cycles) = Len(storage.cycles)
       /\ \A n \in 1..Len(t.cycles) : t.cycles[n] # "open"
       /\ t.lastRequestedDocument = IF o = "saved" THEN legacy ELSE Nothing
       /\ t.phase = (IF o = "saved" THEN "loading" ELSE "error")
       /\ t.error = (IF o = "saved" THEN "none" ELSE o)
  <2>1. \E c \in {"saved", "failed"} :
          /\ Len(t.cycles) = Len(r.cycles) /\ t.cycles[r.active] = c
          /\ \A n \in 1..Len(r.cycles) : n # r.active => t.cycles[n] = r.cycles[n]
    BY <1>9, Zenon DEF HasSettled
  <2>2. Len(t.cycles) = Len(storage.cycles) /\ \A n \in 1..Len(t.cycles) : t.cycles[n] # "open"
    BY <1>4, <1>7, <2>1
  <2> QED
    BY <1>7, <1>9, <2>2 DEF HasSettled
<1>11. /\ library' = Hydrate(legacy) /\ hydration' = "idle" /\ calls' = <<>>
       /\ storage' = Hydrated(t, 0) /\ persistenceEnabled' = storage'.hydrated
  BY <1>2, <1>3, <1>5, DocumentFacts DEF Loaded
<1>12. /\ storage' \in StorageRecords /\ storage'.hydrated
       /\ storage'.latestDocument = legacy
       /\ storage'.lastRequestedDocument = t.lastRequestedDocument
       /\ storage'.latestWrite = t.latestWrite /\ storage'.active = 0
       /\ storage'.cycles = t.cycles
       /\ storage'.phase = (IF o = "saved" THEN "ready" ELSE "error")
       /\ storage'.error = (IF o = "saved" THEN "none" ELSE o)
  <2>1. CASE o = "saved"
    <3>1. storage' = [t EXCEPT !.hydrated = TRUE, !.error = "none", !.phase = "ready"]
      BY <1>10, <1>11, <2>1 DEF Hydrated
    <3> QED
      BY <1>10, <2>1, <3>1 DEF StorageRecords
  <2>2. CASE o # "saved"
    <3>1. storage' = [t EXCEPT !.hydrated = TRUE]
      BY <1>10, <1>11, <2>2 DEF Hydrated
    <3> QED
      BY <1>10, <2>2, <3>1 DEF StorageRecords
  <2> QED
    BY <2>1, <2>2
<1>13. /\ file' \in Libraries \cup {Missing, Newer} /\ Past(file', edits)
       /\ observed' \in Libraries \cup {Missing, Newer, Nothing}
       /\ o = "saved" => observed' = legacy
  BY <1>1, <1>2, StoredFacts DEF Stored
<1>14. /\ legacy' \in Libraries \cup {Missing} /\ Past(legacy', edits) /\ Past(legacy, edits)
       /\ Past(Nothing, edits)
  BY <1>1, <1>2, <1>5, DocumentFacts DEF PastInv, Past
<1>15. \A w \in Waiting : waiter[w].at = "idle"
  BY <1>1, <1>2 DEF LoadInv
<1>16. /\ library' \in Libraries /\ Hydrate(library') = library' /\ Content(legacy) = library'
       /\ storage'.lastRequestedDocument \in {Nothing, legacy}
       /\ storage'.phase # "ready" => storage'.lastRequestedDocument = Nothing
       /\ storage'.phase = "ready" => o = "saved"
  BY <1>2, <1>10, <1>11, <1>12, DocumentFacts
<1>17. Past(storage'.latestDocument, edits) /\ Past(storage'.lastRequestedDocument, edits)
  BY <1>12, <1>14, <1>16
<1>18. storage'.latestWrite \in 0..Len(storage'.cycles)
       /\ \A n \in 1..Len(storage'.cycles) : storage'.cycles[n] # "open"
  BY <1>4, <1>10, <1>12
<1>19. (storage'.error # "none" <=> storage'.phase = "error")
       /\ storage'.error \in {"none", "write", "conflict"}
       /\ storage'.phase \in {"ready", "error"}
  BY <1>12
<1> QED
  BY <1>1, <1>2, <1>5, <1>11, <1>12, <1>13, <1>14, <1>15, <1>16, <1>17, <1>18, <1>19, Arriving

\* An answer after which the storage sends nothing: the cycle stays open while
\* writes are in flight and comes to an end with the last.
LEMMA Answering ==
  ASSUME CInv, hydration = "idle", NEW i \in 1..Len(calls),
         NEW o \in {"saved", "write", "conflict"}, Stored(i, o),
         calls' = RemoveAt(calls, i),
         storage' \in StorageRecords, storage'.hydrated, storage.hydrated,
         storage'.latestDocument = storage.latestDocument,
         storage'.sequence = storage.sequence, storage'.latestWrite = storage.latestWrite,
         storage'.lastRequestedDocument
           \in {storage.lastRequestedDocument, storage.latestDocument},
         storage'.error # "none" <=> storage'.phase = "error",
         storage'.error \in {"none", "write", "conflict"},
         Len(calls) > 1 =>
           /\ storage'.cycles = storage.cycles /\ storage'.active = storage.active
           /\ storage'.phase = IF storage'.settled = "failed" THEN "error" ELSE "saving",
         Len(calls) = 1 =>
           /\ storage'.active = 0 /\ Len(storage'.cycles) = Len(storage.cycles)
           /\ \A n \in 1..Len(storage.cycles) :
                n # storage.active => storage'.cycles[n] = storage.cycles[n]
           /\ storage'.phase \in {"ready", "error"}
           /\ \/ /\ storage'.cycles[storage.active] = "failed" /\ storage'.phase = "error"
                 /\ storage'.lastRequestedDocument = storage.lastRequestedDocument
              \/ /\ storage'.cycles[storage.active] = "saved" /\ storage'.phase = "ready"
                 /\ observed' = storage.latestDocument,
         NewestInv',
         UNCHANGED <<library, hydration, persistenceEnabled, waiter, legacy, host, edits,
                     windows, others>>
  PROVE  CInv'
<1> DEFINE q == RemoveAt(calls, i)
<1>1. /\ TypeInv /\ PastInv /\ QueueInv /\ CycleInv /\ NewestInv /\ LoadInv /\ ScreenInv
      /\ WaitInv /\ storage \in StorageRecords /\ calls \in Seq(CallRecords) /\ ~Loading
  BY Typed DEF CInv, Loading
<1>2. /\ q \in Seq(CallRecords) /\ Len(q) = Len(calls) - 1 /\ Len(calls) \in Nat \ {0}
      /\ \A j \in 1..(Len(calls) - 1) : q[j] = IF j < i THEN calls[j] ELSE calls[j + 1]
  BY <1>1, Removed
<1>3. Len(calls) = 1 <=> q = <<>>
  BY <1>1, LeftOver
<1> HIDE DEF q
<1>4. calls' = q
  BY DEF q
<1>5. \A j \in 1..Len(calls) :
        /\ calls[j].kind = "save" /\ calls[j].window = windows
        /\ calls[j].document \in Libraries /\ calls[j].cycle = storage.active
        /\ calls[j].sequence \in 1..storage.sequence
        /\ Past(calls[j].document, edits)
  BY <1>1 DEF QueueInv, PastInv
<1>6. /\ file' \in Libraries \cup {Missing, Newer} /\ Past(file', edits)
      /\ observed' \in Libraries \cup {Missing, Newer, Nothing}
  BY <1>1, <1>5, StoredFacts
<1>7. /\ storage.active \in 1..Len(storage.cycles) /\ storage.latestWrite = storage.active
      /\ storage.latestWrite \in 0..Len(storage.cycles) /\ Len(storage.cycles) \in Nat
      /\ \A n \in 1..Len(storage.cycles) : storage.cycles[n] = "open" <=> n = storage.active
  <2>1. calls # <<>> /\ Len(storage.cycles) \in Nat
    BY <1>1, <1>2, StorageFacts
  <2>2. storage.active # 0 /\ storage.active \in 0..Len(storage.cycles)
    BY <1>1, <2>1 DEF CycleInv
  <2>3. storage.active \in 1..Len(storage.cycles)
    BY <2>1, <2>2
  <2> QED
    BY <1>1, <2>1, <2>2, <2>3 DEF CycleInv
<1>8. /\ storage.phase \in {"saving", "error"} /\ storage.latestDocument \in Libraries
      /\ storage.lastRequestedDocument \in {Nothing, library, storage.latestDocument}
      /\ Content(storage.latestDocument) = library /\ Hydrate(library) = library
      /\ storage.lastRequestedDocument = Nothing => Len(calls) = 1
      /\ storage.lastRequestedDocument # Nothing =>
           storage.lastRequestedDocument = storage.latestDocument
           /\ storage.latestDocument = library
  <2>1. calls # <<>>
    BY <1>1, <1>2
  <2>2. storage.phase \in {"saving", "error"}
    BY <1>1, <2>1 DEF ScreenInv
  <2> QED
    BY <1>1, <2>1, <2>2 DEF ScreenInv
<1>9. Len(calls) # 1 => Len(calls) > 1
  BY <1>2
<1>10. \A j \in 1..Len(q) : \E k \in 1..Len(calls) : q[j] = calls[k]
  <2> SUFFICES ASSUME NEW j \in 1..Len(q) PROVE \E k \in 1..Len(calls) : q[j] = calls[k]
    OBVIOUS
  <2>1. j \in 1..(Len(calls) - 1) /\ j \in 1..Len(calls) /\ j + 1 \in 1..Len(calls)
    BY <1>2
  <2> QED
    BY <1>2, <2>1
<1>11. \A j, k \in 1..Len(q) : j < k => q[j].sequence < q[k].sequence
  <2> SUFFICES ASSUME NEW j \in 1..Len(q), NEW k \in 1..Len(q), j < k
               PROVE  q[j].sequence < q[k].sequence
    OBVIOUS
  <2>1. /\ j \in 1..(Len(calls) - 1) /\ j \in 1..Len(calls) /\ j + 1 \in 1..Len(calls)
        /\ k \in 1..(Len(calls) - 1) /\ k \in 1..Len(calls) /\ k + 1 \in 1..Len(calls)
        /\ j + 1 < k + 1 /\ j < k + 1
    BY <1>2
  <2>2. \A m, n \in 1..Len(calls) : m < n => calls[m].sequence < calls[n].sequence
    BY <1>1 DEF QueueInv
  <2>3. k < i => j < i
    BY <2>1
  <2>4. q[j] = (IF j < i THEN calls[j] ELSE calls[j + 1])
        /\ q[k] = (IF k < i THEN calls[k] ELSE calls[k + 1])
    BY <1>2, <2>1
  <2>5. CASE k < i
    BY <2>1, <2>2, <2>3, <2>4, <2>5
  <2>6. CASE ~(k < i) /\ j < i
    BY <2>1, <2>2, <2>4, <2>6
  <2>7. CASE ~(k < i) /\ ~(j < i)
    BY <2>1, <2>2, <2>4, <2>7
  <2> QED
    BY <2>3, <2>5, <2>6, <2>7
<1>12. TypeInv'
  BY <1>1, <1>2, <1>4, <1>6 DEF TypeInv
<1>13. PastInv'
  BY <1>1, <1>4, <1>6, <1>10 DEF PastInv
<1>14. hydration' = "idle" /\ ~Loading'
  BY DEF Loading
<1>15. Len(calls) > 1 => storage'.active = storage.active
  OBVIOUS
<1>16. QueueInv'
  <2>1. ASSUME NEW j \in 1..Len(q)
        PROVE  /\ q[j].kind = "save" /\ q[j].window = windows
               /\ q[j].document \in Libraries /\ q[j].cycle = storage'.active
               /\ q[j].sequence \in 1..storage.sequence
    <3>1. PICK k \in 1..Len(calls) : q[j] = calls[k]
      BY <1>10
    <3>2. Len(calls) > 1
      BY <1>2
    <3> QED
      BY <1>5, <1>15, <3>1, <3>2
  <2>2. windows' > 1 => host' = "serial"
    BY <1>1 DEF QueueInv
  <2> QED
    BY <1>4, <1>11, <1>14, <2>1, <2>2 DEF QueueInv
<1>17. CycleInv'
  <2>1. CASE Len(calls) = 1
    <3>1. q = <<>> /\ storage'.active = 0 /\ Len(storage'.cycles) = Len(storage.cycles)
      BY <1>3, <2>1
    <3>2. \A n \in 1..Len(storage.cycles) : storage'.cycles[n] # "open" /\ n # 0
      BY <1>7, <2>1
    <3> QED
      BY <1>4, <1>7, <1>14, <3>1, <3>2 DEF CycleInv
  <2>2. CASE Len(calls) > 1
    <3>1. q # <<>>
      BY <1>2, <1>3, <2>2
    <3> QED
      BY <1>4, <1>7, <1>14, <2>2, <3>1 DEF CycleInv
  <2> QED
    BY <1>9, <2>1, <2>2
<1>18. LoadInv'
  <2>1. persistenceEnabled
    BY <1>1 DEF LoadInv
  <2> QED
    BY <1>14, <2>1 DEF LoadInv
<1>19. ScreenInv'
  <2>1. /\ q # <<>> => storage'.phase = IF storage'.settled = "failed" THEN "error" ELSE "saving"
        /\ q = <<>> => storage'.phase \in {"ready", "error"}
        /\ storage'.phase = "ready" => observed' = storage.latestDocument
    BY <1>3, <1>9
  <2>2. storage'.lastRequestedDocument \in {Nothing, storage.latestDocument}
        /\ (storage'.lastRequestedDocument = Nothing => q = <<>>)
    BY <1>3, <1>8, DocumentFacts
  <2>3. storage'.phase # "ready" => storage'.lastRequestedDocument \in {Nothing, library}
    <3> SUFFICES ASSUME storage'.phase # "ready", storage'.lastRequestedDocument # Nothing
                 PROVE  storage'.lastRequestedDocument = library
      OBVIOUS
    <3>1. storage.lastRequestedDocument # Nothing =>
            storage.lastRequestedDocument = library /\ storage.latestDocument = library
      BY <1>8
    <3>2. storage.lastRequestedDocument # Nothing
      <4>1. CASE Len(calls) = 1
        BY <4>1
      <4>2. CASE Len(calls) > 1
        BY <1>2, <1>8, <4>2
      <4> QED
        BY <1>9, <4>1, <4>2
    <3> QED
      BY <3>1, <3>2
  <2> QED
    BY <1>4, <1>8, <2>1, <2>2, <2>3 DEF ScreenInv
<1>20. WaitInv'
  <2> SUFFICES ASSUME NEW w \in Waiting, waiter[w].at = "waiting"
               PROVE  /\ waiter[w].promise \in 1..Len(storage'.cycles)
                      /\ waiter[w].edition \in 1..edits
                      /\ storage.latestDocument \in Libraries
                      /\ storage.latestDocument.edition >= waiter[w].edition
                      /\ storage'.cycles[waiter[w].promise] = "saved" =>
                           /\ observed' \in Libraries
                           /\ observed'.edition >= waiter[w].edition
                           /\ \A j \in 1..Len(q) : q[j].document.edition >= waiter[w].edition
    BY <1>4 DEF WaitInv
  <2>1. /\ waiter[w].promise \in 1..Len(storage.cycles) /\ waiter[w].edition \in 1..edits
        /\ storage.latestDocument \in Libraries
        /\ storage.latestDocument.edition >= waiter[w].edition
        /\ storage.cycles[waiter[w].promise] = "saved" =>
             /\ observed \in Libraries /\ observed.edition >= waiter[w].edition
             /\ \A j \in 1..Len(calls) : calls[j].document.edition >= waiter[w].edition
    BY <1>1 DEF WaitInv
  <2>2. Len(storage'.cycles) = Len(storage.cycles)
    BY <1>9
  <2>3. ASSUME storage'.cycles[waiter[w].promise] = "saved"
        PROVE  /\ observed' \in Libraries /\ observed'.edition >= waiter[w].edition
               /\ \A j \in 1..Len(q) : q[j].document.edition >= waiter[w].edition
    <3>1. CASE storage.cycles[waiter[w].promise] = "saved"
      <4>1. observed' \in Libraries /\ observed'.edition >= waiter[w].edition
        BY <1>5, <2>1, <3>1 DEF Stored
      <4>2. \A j \in 1..Len(q) : q[j].document.edition >= waiter[w].edition
        BY <1>10, <2>1, <3>1
      <4> QED
        BY <4>1, <4>2
    <3>2. CASE storage.cycles[waiter[w].promise] # "saved"
      <4>1. Len(calls) = 1 /\ waiter[w].promise = storage.active
        BY <1>9, <2>1, <2>3, <3>2
      <4>2. observed' = storage.latestDocument
        BY <2>3, <4>1
      <4>3. \A j \in 1..Len(q) : FALSE
        BY <1>2, <4>1
      <4> QED
        BY <2>1, <4>2, <4>3
    <3> QED
      BY <3>1, <3>2
  <2> QED
    BY <2>1, <2>2, <2>3
<1> QED
  BY <1>12, <1>13, <1>16, <1>17, <1>18, <1>19, <1>20 DEF CInv

\* An answer after which the newest document is sent again in the same cycle.
LEMMA Compensating ==
  ASSUME CInv, hydration = "idle", storage.hydrated, NEW i \in 1..Len(calls), Len(calls) = 1,
         NEW o \in {"saved", "write", "conflict"}, Stored(i, o), NEW r \in StorageRecords,
         r.hydrated, r.latestDocument = storage.latestDocument,
         r.lastRequestedDocument = storage.lastRequestedDocument,
         storage.settled = "saved", r.cycles = storage.cycles, r.active = storage.active,
         r.latestWrite = storage.latestWrite, r.sequence = storage.sequence,
         HasSaved(r, storage.latestDocument, storage'),
         calls' = <<SaveCall(storage', storage.latestDocument)>>,
         UNCHANGED <<library, hydration, persistenceEnabled, waiter, legacy, host, edits,
                     windows, others>>
  PROVE  CInv'
<1> DEFINE c == SaveCall(storage', storage.latestDocument)
<1>1. /\ TypeInv /\ PastInv /\ QueueInv /\ CycleInv /\ NewestInv /\ LoadInv /\ ScreenInv
      /\ WaitInv /\ storage \in StorageRecords /\ calls \in Seq(CallRecords) /\ ~Loading
      /\ calls # <<>>
  BY Typed DEF CInv, Loading
<1>2. /\ calls[i].document \in Libraries /\ Past(calls[i].document, edits)
      /\ \A j \in 1..Len(calls) : calls[j].document = calls[i].document
  <2>1. \A j \in 1..Len(calls) : j = i
    OBVIOUS
  <2> QED
    BY <1>1, <2>1 DEF QueueInv, PastInv
<1>3. /\ file' \in Libraries \cup {Missing, Newer} /\ Past(file', edits)
      /\ observed' \in Libraries \cup {Missing, Newer, Nothing}
  BY <1>1, <1>2, StoredFacts
<1>4. /\ storage.active # 0 /\ storage.active \in 0..Len(storage.cycles)
      /\ storage.latestWrite = storage.active
      /\ \A n \in 1..Len(storage.cycles) : storage.cycles[n] = "open" <=> n = storage.active
  BY <1>1 DEF CycleInv
<1>5. /\ storage.latestDocument \in Libraries /\ Content(storage.latestDocument) = library
      /\ Hydrate(library) = library
      /\ storage.lastRequestedDocument = storage.latestDocument
      /\ storage.latestDocument = library
  <2>1. storage.phase = "saving"
    BY <1>1 DEF ScreenInv
  <2>2. storage.lastRequestedDocument # Nothing
    BY <1>1 DEF ScreenInv
  <2> QED
    BY <1>1, <2>1, <2>2 DEF ScreenInv
<1>6. /\ storage' \in StorageRecords /\ storage'.phase = "saving" /\ storage'.error = "none"
      /\ storage'.hydrated /\ storage'.latestDocument = storage.latestDocument
      /\ storage'.lastRequestedDocument = storage.lastRequestedDocument
      /\ storage'.sequence = storage.sequence + 1 /\ storage'.settled = "none"
      /\ storage'.active = storage.active /\ storage'.latestWrite = storage.active
      /\ Len(storage'.cycles) = Len(storage.cycles)
      /\ \A n \in 1..Len(storage'.cycles) : storage'.cycles[n] = storage.cycles[n]
  <2>1. Len(storage.cycles) \in Nat
    BY <1>1, StorageFacts
  <2>2. storage' \in StorageRecords /\ storage'.phase = "saving" /\ storage'.error = "none"
        /\ storage'.hydrated
    BY DEF HasSaved
  <2> QED
    BY <1>4, <2>1, <2>2 DEF HasSaved
<1>7. /\ c \in CallRecords /\ c.kind = "save" /\ c.window = windows
      /\ c.document = storage.latestDocument
      /\ c.sequence = storage'.sequence /\ c.cycle = storage'.active
  BY <1>1, <1>5, <1>6, SaveCallFacts DEF TypeInv
<1> HIDE DEF c
<1>8. calls' = <<c>>
  BY DEF c
<1>9. calls' \in Seq(CallRecords) /\ Len(calls') = 1 /\ calls'[1] = c /\ calls' # <<>>
      /\ \A j \in 1..Len(calls') : j = 1
  BY <1>7, <1>8
<1>10. TypeInv'
  BY <1>1, <1>3, <1>6, <1>9 DEF TypeInv
<1>11. PastInv'
  BY <1>1, <1>3, <1>6, <1>7, <1>9 DEF PastInv
<1>12. hydration' = "idle" /\ ~Loading'
  BY DEF Loading
<1>13. QueueInv'
  <2>1. storage'.sequence \in 1..storage'.sequence
    <3>1. storage.sequence \in Nat
      BY <1>1, StorageFacts
    <3> QED
      BY <1>6, <3>1
  <2>2. \A j, k \in 1..Len(calls') : ~(j < k)
    BY <1>9
  <2> QED
    BY <1>1, <1>5, <1>7, <1>9, <1>12, <2>1, <2>2 DEF QueueInv
<1>14. CycleInv'
  BY <1>4, <1>6, <1>9, <1>12 DEF CycleInv
<1>15. NewestInv'
  BY <1>6, <1>7, <1>9 DEF NewestInv
<1>16. LoadInv'
  <2>1. persistenceEnabled
    BY <1>1 DEF LoadInv
  <2> QED
    BY <1>6, <1>12, <2>1 DEF LoadInv
<1>17. ScreenInv'
  BY <1>5, <1>6, <1>9 DEF ScreenInv
<1>18. WaitInv'
  <2> SUFFICES ASSUME NEW w \in Waiting, waiter[w].at = "waiting"
               PROVE  /\ waiter[w].promise \in 1..Len(storage'.cycles)
                      /\ waiter[w].edition \in 1..edits
                      /\ storage.latestDocument \in Libraries
                      /\ storage.latestDocument.edition >= waiter[w].edition
                      /\ storage'.cycles[waiter[w].promise] = "saved" =>
                           /\ observed' \in Libraries
                           /\ observed'.edition >= waiter[w].edition
                           /\ \A j \in 1..Len(calls') :
                                calls'[j].document.edition >= waiter[w].edition
    BY <1>6 DEF WaitInv
  <2>1. /\ waiter[w].promise \in 1..Len(storage.cycles) /\ waiter[w].edition \in 1..edits
        /\ storage.latestDocument \in Libraries
        /\ storage.latestDocument.edition >= waiter[w].edition
        /\ storage.cycles[waiter[w].promise] = "saved" =>
             /\ observed \in Libraries /\ observed.edition >= waiter[w].edition
             /\ \A j \in 1..Len(calls) : calls[j].document.edition >= waiter[w].edition
    BY <1>1 DEF WaitInv
  <2>2. storage'.cycles[waiter[w].promise] = storage.cycles[waiter[w].promise]
    BY <1>6, <2>1
  <2>3. storage.cycles[waiter[w].promise] = "saved" =>
          observed' \in Libraries /\ observed'.edition >= waiter[w].edition
    BY <1>2, <2>1 DEF Stored
  <2>4. \A j \in 1..Len(calls') : calls'[j].document.edition >= waiter[w].edition
    BY <1>7, <1>9, <2>1
  <2> QED
    BY <1>6, <2>1, <2>2, <2>3, <2>4
<1> QED
  BY <1>10, <1>11, <1>13, <1>14, <1>15, <1>16, <1>17, <1>18 DEF CInv

LEMMA AnsweringWrite ==
  ASSUME CInv, hydration = "idle", NEW i \in 1..Len(calls),
         NEW o \in {"saved", "write", "conflict"}, calls[i].kind = "save",
         AnswerSave(i, o), Stored(i, o), UNCHANGED <<host, edits, windows, others>>
  PROVE  CInv'
<1> DEFINE q == RemoveAt(calls, i)
           p == Pending(q)
           c == calls[i]
           r == Recorded(storage, c, o, p)
           t == Stabilize(r, c.cycle, p)
<1>1. /\ TypeInv /\ QueueInv /\ CycleInv /\ NewestInv /\ LoadInv /\ ScreenInv
      /\ storage \in StorageRecords /\ calls \in Seq(CallRecords) /\ c \in CallRecords
      /\ ~Loading /\ calls # <<>> /\ Len(calls) \in Nat \ {0} /\ Len(calls) \in 1..Len(calls)
  <2>1. Len(calls) \in Nat /\ calls # <<>> /\ Len(calls) # 0
    BY Typed DEF CInv
  <2>2. Len(calls) \in Nat \ {0} /\ Len(calls) \in 1..Len(calls)
    BY <2>1
  <2> QED
    BY <2>1, <2>2, Typed DEF CInv, Loading
<1>2. storage.hydrated
  BY <1>1 DEF LoadInv
<1>3. /\ c.window = windows /\ c.cycle = storage.active /\ c.document \in Libraries
      /\ c.sequence \in 1..storage.sequence /\ storage.sequence \in Nat
  BY <1>1, StorageFacts DEF QueueInv
<1>4. /\ storage' = t /\ UNCHANGED <<library, hydration, persistenceEnabled, waiter, legacy>>
      /\ calls' = IF Compensates(r, storage.active, p)
                  THEN Append(q, SaveCall(t, t.latestDocument)) ELSE q
  BY <1>3 DEF AnswerSave
<1>5. /\ p \in Nat /\ (p = 0 <=> Len(calls) = 1) /\ (p > 0 <=> Len(calls) > 1)
      /\ (Len(calls) = 1 <=> q = <<>>)
  BY <1>1, LeftOver
<1>6. HasRecorded(storage, c, o, p, r)
  BY <1>1, <1>3, <1>5, RecordedFacts
<1>7. t = Stabilize(r, storage.active, p)
  BY <1>3
<1>8. /\ q \in Seq(CallRecords) /\ Len(q) = Len(calls) - 1
      /\ \A j \in 1..(Len(calls) - 1) : q[j] = IF j < i THEN calls[j] ELSE calls[j + 1]
  BY <1>1, Removed
<1> HIDE DEF t, r, p, q
<1>9. /\ r \in StorageRecords /\ r.hydrated /\ r.latestDocument = storage.latestDocument
      /\ r.latestWrite = storage.latestWrite /\ r.cycles = storage.cycles
      /\ r.active = storage.active /\ r.sequence = storage.sequence
  BY <1>2, <1>6 DEF HasRecorded
<1>10. /\ storage.active \in 1..Len(storage.cycles) /\ Len(storage.cycles) \in Nat
  <2>1. storage.active # 0 /\ storage.active \in 0..Len(storage.cycles)
        /\ Len(storage.cycles) \in Nat
    BY <1>1, StorageFacts DEF CycleInv
  <2> QED
    BY <2>1
<1>11. /\ storage.phase = IF storage.settled = "failed" THEN "error" ELSE "saving"
       /\ storage.error \in {"none", "write", "conflict"}
       /\ (storage.error # "none" <=> storage.phase = "error")
       /\ storage.latestDocument \in Libraries
  <2>1. storage.phase = IF storage.settled = "failed" THEN "error" ELSE "saving"
    BY <1>1, <1>2 DEF ScreenInv
  <2>2. storage.phase # "ready"
    BY <2>1
  <2> QED
    BY <1>1, <1>2, <2>1, <2>2 DEF ScreenInv, LoadInv
<1>12. /\ \A j, k \in 1..Len(calls) : j < k => calls[j].sequence < calls[k].sequence
       /\ \A j \in 1..Len(calls) : calls[j].sequence \in 1..storage.sequence
  BY <1>1 DEF QueueInv
<1>13. /\ storage.settled = "none" <=> calls[Len(calls)].sequence = storage.sequence
       /\ storage.settled = "none" => calls[Len(calls)].document = storage.latestDocument
       /\ storage.settled = "saved" =>
            /\ host = "unordered"
            /\ storage.staleSuccess \/ observed = storage.latestDocument
  BY <1>1 DEF NewestInv
\* Only the last call can be the newest write.
<1>14. \A j \in 1..Len(calls) : j # Len(calls) => calls[j].sequence < storage.sequence
  <2> SUFFICES ASSUME NEW j \in 1..Len(calls), j # Len(calls)
               PROVE  calls[j].sequence < storage.sequence
    OBVIOUS
  <2>1. j < Len(calls)
    BY <1>1
  <2>2. calls[j].sequence < calls[Len(calls)].sequence
    BY <1>1, <1>12, <2>1
  <2>3. calls[Len(calls)].sequence \in 1..storage.sequence
        /\ calls[j].sequence \in 1..storage.sequence
    BY <1>1, <1>12
  <2> QED
    BY <1>3, <2>2, <2>3
<1>15. c.sequence = storage.sequence =>
         i = Len(calls) /\ storage.settled = "none" /\ c.document = storage.latestDocument
  <2> SUFFICES ASSUME c.sequence = storage.sequence
               PROVE  i = Len(calls) /\ storage.settled = "none"
                      /\ c.document = storage.latestDocument
    OBVIOUS
  <2>1. i = Len(calls)
    BY <1>3, <1>14
  <2> QED
    BY <1>13, <2>1
<1>16. c.sequence # storage.sequence /\ storage.settled = "none" =>
         i # Len(calls) /\ Len(calls) > 1
  BY <1>1, <1>13
<1>17. Len(calls) = 1 \/ Len(calls) > 1
  <2> DEFINE n == Len(calls)
  <2>1. n \in Nat \ {0}
    BY <1>1
  <2> HIDE DEF n
  <2>2. n = 1 \/ n > 1
    BY <2>1
  <2> QED
    BY <2>2 DEF n
<1>18. CASE Compensates(r, storage.active, p)
  <2>1. p = 0 /\ r.settled = "saved" /\ r.staleSuccess /\ Len(calls) = 1 /\ q = <<>>
    BY <1>5, <1>18 DEF Compensates
  <2>2. c.sequence # storage.sequence
    BY <1>6, <2>1, Zenon DEF HasRecorded
  <2>3. storage.settled = "saved"
        /\ r.lastRequestedDocument = storage.lastRequestedDocument
    BY <1>6, <2>1, <2>2 DEF HasRecorded
  <2>4. t = Saving(r, storage.latestDocument)
    BY <1>5, <1>7, <1>9, <1>18, <2>1 DEF Stabilize
  <2>5. HasSaved(r, storage.latestDocument, t)
    <3>1. r.active \in 0..Len(r.cycles)
      BY <1>9, <1>10
    <3> QED
      BY <1>9, <1>11, <2>4, <3>1, SavingFacts
  <2>6. t.latestDocument = storage.latestDocument
    BY <2>5 DEF HasSaved
  <2>7. calls' = <<SaveCall(storage', storage.latestDocument)>>
    BY <1>4, <1>18, <2>1, <2>6
  <2> QED
    BY <1>2, <1>4, <1>9, <2>1, <2>3, <2>5, <2>7, Compensating
<1>19. CASE ~Compensates(r, storage.active, p)
  <2>1. calls' = q
    BY <1>4, <1>19
  <2>2. r.lastRequestedDocument \in {storage.lastRequestedDocument, storage.latestDocument}
    BY <1>6, <1>15 DEF HasRecorded
  <2>3. CASE Len(calls) > 1
    <3>1. t = r /\ p > 0
      BY <1>5, <1>7, <2>3 DEF Stabilize
    <3>2. /\ r.phase = IF r.settled = "failed" THEN "error" ELSE "saving"
          /\ r.error \in {"none", "write", "conflict"}
          /\ (r.error # "none" <=> r.phase = "error")
      <4>1. CASE c.sequence # storage.sequence
        BY <1>6, <1>11, <4>1 DEF HasRecorded
      <4>2. CASE c.sequence = storage.sequence /\ o = "saved"
        BY <1>2, <1>6, <3>1, <4>2 DEF HasRecorded
      <4>3. CASE c.sequence = storage.sequence /\ o # "saved"
        BY <1>6, <4>3 DEF HasRecorded
      <4> QED
        BY <4>1, <4>2, <4>3
    <3>3. NewestInv'
      <4>1. /\ Len(q) \in 1..(Len(calls) - 1) /\ Len(q) \in Nat
            /\ i = Len(calls) => q[Len(q)] = calls[Len(calls) - 1]
            /\ i # Len(calls) => q[Len(q)] = calls[Len(calls)]
        <5>1. /\ Len(q) \in 1..(Len(calls) - 1) /\ Len(q) \in Nat
              /\ Len(q) = Len(calls) - 1 /\ Len(q) + 1 = Len(calls)
              /\ (i = Len(calls) => Len(q) < i) /\ (i # Len(calls) => ~(Len(q) < i))
          BY <1>1, <1>8, <2>3
        <5> QED
          BY <1>8, <5>1
      <4>2. i = Len(calls) => q[Len(q)].sequence # storage.sequence
        <5>1. Len(calls) - 1 \in 1..Len(calls) /\ Len(calls) - 1 # Len(calls)
          BY <1>1, <2>3
        <5>2. calls[Len(calls) - 1].sequence < storage.sequence
              /\ calls[Len(calls) - 1].sequence \in 1..storage.sequence
          BY <1>12, <1>14, <5>1
        <5> QED
          BY <1>3, <4>1, <5>2
      <4>3. CASE c.sequence = storage.sequence
        <5>1. i = Len(calls) /\ storage.settled = "none" /\ c.document = storage.latestDocument
          BY <1>15, <4>3
        <5>2. q[Len(q)].sequence # storage.sequence
          BY <4>2, <5>1
        <5>3. r.settled = (IF o = "saved" THEN "saved" ELSE "failed")
          BY <1>6, <4>3 DEF HasRecorded
        <5>4. host \in {"serial", "unordered"} /\ i # 1
          BY <1>1, <2>3, <5>1 DEF TypeInv
        <5>5. o = "saved" => host = "unordered" /\ observed' = storage.latestDocument
          BY <5>1, <5>4 DEF Stored
        <5> QED
          BY <1>4, <1>9, <2>1, <3>1, <5>2, <5>3, <5>5 DEF NewestInv
      <4>4. CASE c.sequence # storage.sequence
        <5>1. /\ r.settled = storage.settled
              /\ (r.staleSuccess <=> storage.staleSuccess \/ (o = "saved" /\ storage.settled = "saved"))
          BY <1>6, <4>4 DEF HasRecorded
        <5>2. storage.settled = "none" <=> q[Len(q)].sequence = storage.sequence
          <6>1. CASE i = Len(calls)
            BY <1>16, <4>2, <4>4, <6>1
          <6>2. CASE i # Len(calls)
            BY <1>13, <4>1, <6>2
          <6> QED
            BY <6>1, <6>2
        <5>3. storage.settled = "none" => q[Len(q)].document = storage.latestDocument
          BY <1>13, <1>16, <4>1, <4>4
        <5>4. storage.settled = "saved" =>
                host = "unordered" /\ (r.staleSuccess \/ observed' = storage.latestDocument)
          <6> SUFFICES ASSUME storage.settled = "saved"
                       PROVE  host = "unordered"
                              /\ (r.staleSuccess \/ observed' = storage.latestDocument)
            OBVIOUS
          <6>1. host = "unordered"
            BY <1>13
          <6>2. CASE o = "saved"
            BY <5>1, <6>1, <6>2
          <6>3. CASE o # "saved"
            <7>1. observed' = observed
              BY <6>1, <6>3 DEF Stored
            <7> QED
              BY <1>13, <5>1, <6>1, <7>1
          <6> QED
            BY <6>2, <6>3
        <5> QED
          BY <1>4, <1>9, <2>1, <3>1, <5>1, <5>2, <5>3, <5>4 DEF NewestInv
      <4> QED
        BY <4>3, <4>4
    <3>4. Len(calls) # 1
      <4> DEFINE n == Len(calls)
      <4>1. n \in Nat /\ n > 1
        BY <1>1, <2>3
      <4> HIDE DEF n
      <4>2. n # 1
        BY <4>1
      <4> QED
        BY <4>2 DEF n
    <3> QED
      BY <1>2, <1>4, <1>9, <2>1, <2>2, <2>3, <3>1, <3>2, <3>3, <3>4, Answering DEF q
  <2>4. CASE Len(calls) = 1
    <3>1. p = 0 /\ ~(Len(calls) > 1) /\ ~(p > 0) /\ i = Len(calls)
      BY <1>5, <2>4
    <3>2. r.settled \in {"saved", "failed"} /\ (r.settled = "saved" => ~r.staleSuccess)
      <4>1. r.settled # "none"
        <5>1. CASE c.sequence = storage.sequence
          BY <1>6, <5>1 DEF HasRecorded
        <5>2. CASE c.sequence # storage.sequence
          <6>1. storage.settled # "none" /\ r.settled = storage.settled
            BY <1>6, <1>16, <3>1, <5>2 DEF HasRecorded
          <6> QED
            BY <6>1
        <5> QED
          BY <5>1, <5>2
      <4> QED
        BY <1>9, <1>19, <3>1, <4>1, StorageFacts DEF Compensates
    <3>3. r.active \in 1..Len(r.cycles)
      BY <1>9, <1>10
    <3>4. NewestInv'
      BY <1>5, <2>1, <2>4 DEF NewestInv
    <3>5. CASE r.settled = "failed"
      <4>1. t = Settle(r, "failed")
        BY <1>7, <1>9, <3>1, <3>5 DEF Stabilize
      <4>2. HasSettled(r, "failed", t)
        BY <1>9, <3>3, <4>1, SettledFacts
      <4>3. r.phase = "error" /\ r.error \in {"none", "write", "conflict"}
            /\ (r.error # "none" <=> r.phase = "error")
            /\ r.lastRequestedDocument = storage.lastRequestedDocument
        <5>1. CASE c.sequence = storage.sequence
          <6>1. o # "saved"
            BY <1>6, <3>5, <5>1 DEF HasRecorded
          <6> QED
            BY <1>6, <5>1, <6>1 DEF HasRecorded
        <5>2. CASE c.sequence # storage.sequence
          <6>1. /\ storage.settled = "failed" /\ r.phase = storage.phase
                /\ r.error = storage.error
                /\ r.lastRequestedDocument = storage.lastRequestedDocument
            BY <1>6, <3>5, <5>2 DEF HasRecorded
          <6> QED
            BY <1>11, <6>1
        <5> QED
          BY <5>1, <5>2
      <4>4. /\ t \in StorageRecords /\ t.hydrated /\ t.latestDocument = storage.latestDocument
            /\ t.sequence = storage.sequence /\ t.latestWrite = storage.latestWrite
            /\ t.lastRequestedDocument = storage.lastRequestedDocument
            /\ t.phase = "error" /\ t.error = r.error /\ t.active = 0
            /\ Len(t.cycles) = Len(storage.cycles) /\ t.cycles[storage.active] = "failed"
            /\ \A n \in 1..Len(storage.cycles) :
                 n # storage.active => t.cycles[n] = storage.cycles[n]
        BY <1>9, <4>2, <4>3 DEF HasSettled
      <4>5. (t.error # "none" <=> t.phase = "error") /\ t.error \in {"none", "write", "conflict"}
        BY <4>3, <4>4
      <4> QED
        BY <1>2, <1>4, <2>1, <2>4, <3>1, <3>4, <4>4, <4>5, Answering DEF q
    <3>6. CASE r.settled = "saved"
      <4>1. t = Settle(IF r.hydrated THEN Ready(r) ELSE r, "saved")
        BY <1>7, <1>9, <1>19, <3>1, <3>6 DEF Stabilize
      <4>2. HasSettled(r, "saved", t)
        BY <1>9, <3>3, <4>1, SettledFacts
      <4>3. observed' = storage.latestDocument
        <5>1. CASE c.sequence = storage.sequence
          <6>1. o = "saved" /\ c.document = storage.latestDocument
            BY <1>6, <1>15, <3>6, <5>1 DEF HasRecorded
          <6> QED
            BY <6>1 DEF Stored
        <5>2. CASE c.sequence # storage.sequence
          <6>1. storage.settled = "saved" /\ ~r.staleSuccess
                /\ (r.staleSuccess <=> storage.staleSuccess \/ (o = "saved" /\ storage.settled = "saved"))
            BY <1>6, <3>2, <3>6, <5>2 DEF HasRecorded
          <6>2. ~storage.staleSuccess /\ o # "saved"
            BY <6>1
          <6>3. host = "unordered" /\ observed = storage.latestDocument
            BY <1>13, <6>1, <6>2
          <6> QED
            BY <6>2, <6>3 DEF Stored
        <5> QED
          BY <5>1, <5>2
      <4>4. /\ t \in StorageRecords /\ t.hydrated /\ t.latestDocument = storage.latestDocument
            /\ t.sequence = storage.sequence /\ t.latestWrite = storage.latestWrite
            /\ t.lastRequestedDocument = r.lastRequestedDocument
            /\ t.phase = "ready" /\ t.error = "none" /\ t.active = 0
            /\ Len(t.cycles) = Len(storage.cycles) /\ t.cycles[storage.active] = "saved"
            /\ \A n \in 1..Len(storage.cycles) :
                 n # storage.active => t.cycles[n] = storage.cycles[n]
        BY <1>9, <4>2 DEF HasSettled
      <4> QED
        BY <1>2, <1>4, <2>1, <2>2, <2>4, <3>1, <3>4, <4>3, <4>4, Answering DEF q
    <3> QED
      BY <3>2, <3>5, <3>6
  <2> QED
    BY <1>17, <2>3, <2>4
<1> QED
  BY <1>18, <1>19

LEMMA AnsweringSave ==
  ASSUME CInv, NEW i \in 1..Len(calls), SaveAnswered(i) \/ SaveRefused(i)
  PROVE  CInv'
<1>1. PICK o \in {"saved", "write", "conflict"} :
        /\ AnswerSave(i, o) /\ Stored(i, o) /\ calls[i].kind = "save"
        /\ UNCHANGED <<host, edits, windows, others>>
  BY SaveSteps
<1>2. CASE calls[i].window # windows
  BY <1>1, <1>2, Unheard
<1>3. CASE calls[i].window = windows
  <2>1. ~Loading
    <3> SUFFICES ASSUME Loading PROVE FALSE
      OBVIOUS
    <3>1. QueueInv /\ Len(calls) \in Nat /\ windows \in Nat
      BY Typed DEF CInv, TypeInv
    <3>2. i # Len(calls)
      BY <1>1, <3>1 DEF QueueInv
    <3>3. i \in 1..(Len(calls) - 1)
      BY <3>1, <3>2
    <3>4. calls[i].window < windows
      BY <3>1, <3>3 DEF QueueInv
    <3> QED
      BY <1>3, <3>1, <3>4
  <2>2. hydration \in {"idle", "migrating"}
    BY <2>1 DEF Loading, CInv, TypeInv
  <2> QED
    BY <1>1, <2>2, AnsweringWrite, Migrated
<1> QED
  BY <1>2, <1>3

LEMMA StepCInv == CInv /\ [Next]_vars => CInv'
<1> SUFFICES ASSUME CInv, [Next]_vars PROVE CInv'
  OBVIOUS
<1>1. CASE UserEdits \/ ImportSteps
  BY <1>1, Edits, Bystanding DEF ImportSteps
<1>2. CASE ToggleCollection
  BY <1>2, Toggling
<1>3. CASE \E w \in {"import", "request"} : Report(w)
  BY <1>3, Bystanding DEF Waiting
<1>4. CASE RetryWrite \/ RetryRead \/ Reopen
  BY <1>4, RetryingWrite, RetryingRead, Reopening
<1>5. CASE \E i \in 1..Len(calls) : Answered(i)
  BY <1>5, AnsweringLoad, AnsweringSave DEF Answered
<1>6. CASE OtherProcessSaves
  BY <1>6, Bystanding
<1>7. CASE UNCHANGED vars
  BY <1>7 DEF vars, rendererVars, hostVars, counters, CInv, TypeInv, PastInv, QueueInv,
              CycleInv, NewestInv, LoadInv, ScreenInv, WaitInv, Loading
<1> QED
  BY <1>1, <1>2, <1>3, <1>4, <1>5, <1>6, <1>7 DEF Next

LEMMA AlwaysCInv == Spec => []CInv
<1> QED
  BY InitCInv, StepCInv, PTL DEF Spec

-----------------------------------------------------------------------------
(* What the storage promises *)

\* The values the code gives the variables, from the records of the invariant.
LEMMA TypesHold == CInv => TypeOK
<1> SUFFICES ASSUME CInv PROVE TypeOK
  OBVIOUS
<1>1. TypeInv /\ CycleInv /\ LoadInv /\ storage \in StorageRecords
  BY Typed DEF CInv
<1>2. /\ storage.cycles \in Seq(Outcomes)
      /\ storage.phase \in {"loading", "saving", "ready", "error"}
      /\ storage.error \in {"none", "read", "newer", "write", "conflict"}
      /\ storage.settled \in {"none", "saved", "failed"}
      /\ Len(storage.cycles) \in Nat
  BY <1>1, StorageFacts
<1>3. \A n \in 1..Len(storage.cycles) : storage.cycles[n] \in {"open", "saved", "failed"}
  BY <1>2, CyclesFacts DEF Outcomes
<1>4. /\ storage.active \in 0..Len(storage.cycles)
      /\ storage.active # 0 => storage.cycles[storage.active] = "open"
      /\ storage.latestWrite \in 0..Len(storage.cycles)
  <2>1. storage.active # 0 /\ storage.active \in 0..Len(storage.cycles)
          => storage.active \in 1..Len(storage.cycles)
    BY <1>2
  <2> QED
    BY <1>1, <2>1 DEF CycleInv
<1>5. (storage.error # "none") = (storage.phase = "error")
  <2>1. storage.error # "none" <=> storage.phase = "error"
    BY <1>1 DEF LoadInv
  <2> QED
    BY <2>1, Zenon
<1>6. \A w \in DOMAIN waiter : waiter[w].at \in {"idle", "choosing", "waiting"}
  <2>1. DOMAIN waiter = Waiting
    BY <1>1 DEF TypeInv
  <2> QED
    BY <1>1, <2>1, Typed
<1>7. /\ library \in Libraries /\ hydration \in {"idle", "reading", "migrating"}
      /\ persistenceEnabled \in BOOLEAN /\ file \in Libraries \cup {Missing, Newer}
      /\ observed \in Libraries \cup {Missing, Newer, Nothing}
  BY <1>1 DEF TypeInv
<1> QED
  BY <1>2, <1>3, <1>4, <1>5, <1>6, <1>7, Zenon DEF TypeOK

\* Every variable keeps its values, the snapshot has an error exactly in its
\* error phase, and writes join a cycle that has not settled.
THEOREM StorageTypeCorrect == Spec => []TypeOK
BY AlwaysCInv, TypesHold, PTL

\* A snapshot that is not loading and has no error of the read is hydrated.
LEMMA ShownIsHydrated ==
  ASSUME CInv, \/ storage.phase \in {"ready", "saving"}
               \/ storage.error \in {"write", "conflict"}
  PROVE  storage.hydrated /\ hydration = "idle" /\ ~Loading
<1>1. LoadInv /\ hydration \in {"idle", "reading", "migrating"}
  BY DEF CInv, TypeInv
<1>2. storage.hydrated
  BY <1>1 DEF LoadInv
<1> QED
  BY <1>1, <1>2 DEF LoadInv, Loading

LEMMA NothingLost == CInv => NoSilentLoss
<1> SUFFICES ASSUME CInv PROVE NoSilentLoss
  OBVIOUS
<1>1. /\ TypeInv /\ QueueInv /\ CycleInv /\ ScreenInv /\ calls \in Seq(CallRecords)
      /\ Len(calls) \in Nat /\ (calls = <<>> <=> Len(calls) = 0)
  BY Typed DEF CInv
<1>2. ASSUME storage.phase = "ready"
      PROVE  Pending(calls) = 0 /\ Content(observed) = library
  <2>1. storage.hydrated
    BY <1>2, ShownIsHydrated
  <2>2. calls = <<>> /\ Content(observed) = library
    BY <1>1, <1>2, <2>1 DEF ScreenInv
  <2>3. \A i \in 1..Len(calls) : FALSE
    BY <1>1, <2>2
  <2> QED
    BY <1>1, <2>2, <2>3, PendingFacts
<1>3. ASSUME storage.phase = "saving" \/ storage.active # 0
      PROVE  Pending(calls) > 0
  <2>1. ~Loading /\ calls # <<>>
    <3>1. CASE storage.active # 0
      BY <1>1, <3>1 DEF CycleInv
    <3>2. CASE storage.phase = "saving"
      <4>1. storage.hydrated /\ ~Loading
        BY <3>2, ShownIsHydrated
      <4> QED
        BY <1>1, <3>2, <4>1 DEF ScreenInv
    <3> QED
      BY <1>3, <3>1, <3>2
  <2>2. 1 \in 1..Len(calls)
    BY <1>1, <2>1
  <2>3. calls[1].kind = "save" /\ calls[1].window = windows
    BY <1>1, <2>1, <2>2 DEF QueueInv
  <2>4. Pending(calls) \in Nat /\ Pending(calls) # 0
    BY <1>1, <2>2, <2>3, PendingFacts
  <2> QED
    BY <2>4
<1> QED
  BY <1>2, <1>3, TypesHold DEF NoSilentLoss

\* What the user sees is never silently absent from the disk: ready means that
\* the document stored last reads back as the screen, and saving, or an open
\* promise, that a write is in flight.
THEOREM LibraryIsNeverLost == Spec => []NoSilentLoss
BY AlwaysCInv, NothingLost, PTL

LEMMA ReportsHold == CInv => ReportedIsStored
<1> SUFFICES ASSUME CInv, NEW w \in DOMAIN waiter, waiter[w].at = "waiting",
                    Outcome(w) = "saved"
             PROVE  observed \in Libraries /\ observed.edition >= waiter[w].edition
  BY DEF ReportedIsStored
<1>1. TypeInv /\ WaitInv /\ Len(storage.cycles) \in Nat
  BY Typed, StorageFacts DEF CInv
<1>2. w \in Waiting
  BY <1>1 DEF TypeInv
<1>3. waiter[w].promise \in 1..Len(storage.cycles)
  BY <1>1, <1>2 DEF WaitInv
<1>4. waiter[w].promise # 0
  BY <1>1, <1>3
<1>5. storage.cycles[waiter[w].promise] = "saved"
  BY <1>4 DEF Outcome
<1> QED
  BY <1>1, <1>2, <1>5 DEF WaitInv

\* A save or an import that is told its edition was saved can rely on it,
\* whichever order the host answered in.
THEOREM ReportsAreTrue == Spec => []ReportedIsStored
BY AlwaysCInv, ReportsHold, PTL

\* No answer makes the storage send again after a conflict: the open cycle has
\* failed with its newest write, or the newest is still to be answered.
LEMMA AnswersSendNothing ==
  ASSUME CInv, storage.error = "conflict", NEW i \in 1..Len(calls),
         SaveAnswered(i) \/ SaveRefused(i)
  PROVE  storage'.sequence = storage.sequence
<1>1. PICK o \in {"saved", "write", "conflict"} :
        AnswerSave(i, o) /\ calls[i].kind = "save"
  BY SaveSteps
<1> DEFINE q == RemoveAt(calls, i)
           p == Pending(q)
           c == calls[i]
           r == Recorded(storage, c, o, p)
           t == Stabilize(r, c.cycle, p)
<1>2. storage.hydrated /\ hydration = "idle" /\ ~Loading
  BY ShownIsHydrated
<1>3. /\ QueueInv /\ ScreenInv /\ LoadInv /\ storage \in StorageRecords
      /\ calls \in Seq(CallRecords) /\ c \in CallRecords /\ calls # <<>>
  BY Typed DEF CInv
<1>4. c.window = windows /\ c.document \in Libraries
  BY <1>2, <1>3 DEF QueueInv
<1>5. storage' = t
  BY <1>1, <1>2, <1>4 DEF AnswerSave
<1>6. storage.settled = "failed"
  <2>1. storage.phase = "error"
    BY <1>3 DEF LoadInv
  <2> QED
    BY <1>2, <1>3, <2>1 DEF ScreenInv
<1>7. p \in Nat
  BY <1>2, LeftOver
<1>8. HasRecorded(storage, c, o, p, r)
  BY <1>3, <1>4, <1>7, RecordedFacts
<1> HIDE DEF t, r, p, q
<1>9. r \in StorageRecords /\ r.sequence = storage.sequence
      /\ ~(r.settled = "saved" /\ r.staleSuccess)
  <2>1. CASE c.sequence # storage.sequence
    BY <1>6, <1>8, <2>1 DEF HasRecorded
  <2>2. CASE c.sequence = storage.sequence
    BY <1>8, <2>2, Zenon DEF HasRecorded
  <2> QED
    BY <2>1, <2>2
<1>10. t = Stabilize(r, c.cycle, p)
  BY DEF t
<1>11. t \in {r, Settle(r, "failed"), Settle(r, "saved"), Settle(Ready(r), "saved")}
  BY <1>9, <1>10 DEF Stabilize, Compensates
<1>12. /\ Settle(r, "failed").sequence = r.sequence /\ Settle(r, "saved").sequence = r.sequence
       /\ Settle(Ready(r), "saved").sequence = r.sequence
  BY <1>9 DEF Settle, Ready, StorageRecords
<1> QED
  BY <1>5, <1>9, <1>11, <1>12

LEMMA ConflictSteps ==
  ASSUME CInv, [Next]_vars, storage.error = "conflict"
  PROVE  \/ storage'.sequence \in {storage.sequence, 0}
         \/ waiter["import"].at = "choosing" /\ waiter'["import"].at = "waiting"
         \/ storage.lastRequestedDocument = Nothing
<1>1. storage.hydrated /\ hydration = "idle" /\ ~Loading /\ ~Editable
  BY ShownIsHydrated DEF Editable
<1>2. /\ TypeInv /\ QueueInv /\ ScreenInv /\ LoadInv /\ storage \in StorageRecords
      /\ storage.phase = "error"
  BY Typed DEF CInv, LoadInv
<1>3. ~UserEdits
  BY <1>1 DEF UserEdits, CreateCollection, DeleteCollection, Rename, MoveRequest, SaveRequest,
              DeleteRequest
<1>4. CASE ImportSteps
  <2>1. ~BeginImport
    BY <1>1 DEF BeginImport
  <2>2. CASE CancelImport
    BY <2>2 DEF CancelImport
  <2>3. ASSUME NEW c \in CollectionIds, NEW R \in SUBSET RequestIds, ConfirmImport(c, R)
        PROVE  waiter["import"].at = "choosing" /\ waiter'["import"].at = "waiting"
    <3>1. waiter["import"].at = "choosing" /\ Waits("import")
      BY <2>3 DEF ConfirmImport
    <3>2. DOMAIN waiter = Waiting /\ "import" \in Waiting
      BY <1>2 DEF TypeInv, Waiting
    <3> QED
      BY <3>1, <3>2 DEF Waits
  <2> QED
    BY <1>4, <2>1, <2>2, <2>3 DEF ImportSteps
<1>5. CASE ToggleCollection
  <2>1. Persist(library) /\ persistenceEnabled
    BY <1>1, <1>2, <1>5 DEF ToggleCollection, LoadInv
  <2>2. SetItem(library)
    BY <1>1, <2>1 DEF Persist
  <2>3. CASE library = storage.lastRequestedDocument
    <3>1. storage' = [storage EXCEPT !.latestDocument = library]
      BY <2>2, <2>3 DEF SetItem
    <3> QED
      BY <1>2, <3>1 DEF StorageRecords
  <2>4. CASE library # storage.lastRequestedDocument
    BY <1>1, <1>2, <2>4 DEF ScreenInv
  <2> QED
    BY <2>3, <2>4
<1>6. CASE \E w \in {"import", "request"} : Report(w)
  BY <1>6 DEF Report
<1>7. CASE RetryWrite \/ RetryRead
  BY <1>7 DEF RetryWrite, RetryRead
<1>8. CASE Reopen
  BY <1>8 DEF Reopen, Started
<1>9. CASE \E i \in 1..Len(calls) : Answered(i)
  <2>1. PICK i \in 1..Len(calls) : Answered(i)
    BY <1>9
  <2>2. ~AnswerLoad(i)
    BY <1>1, LoadIsAlone DEF AnswerLoad
  <2>3. storage'.sequence = storage.sequence
    BY <2>1, <2>2, AnswersSendNothing DEF Answered
  <2> QED
    BY <2>3
<1>10. CASE OtherProcessSaves
  BY <1>10 DEF OtherProcessSaves, rendererVars
<1>11. CASE UNCHANGED vars
  BY <1>11 DEF vars, rendererVars
<1> QED
  BY <1>3, <1>4, <1>5, <1>6, <1>7, <1>8, <1>9, <1>10, <1>11 DEF Next

\* After a conflict nothing is written over the document of another process,
\* but for the two cases the property names.
THEOREM ConflictsAreFinal == Spec => ConflictIsFinal
<1>1. CInv /\ [Next]_vars =>
        [storage.error = "conflict" =>
           \/ storage'.sequence \in {storage.sequence, 0}
           \/ (waiter["import"].at = "choosing" /\ waiter'["import"].at = "waiting")
           \/ storage.lastRequestedDocument = Nothing]_vars
  BY ConflictSteps
<1> QED
  BY <1>1, AlwaysCInv, PTL DEF Spec, ConflictIsFinal

=============================================================================
