--------------------------- MODULE LibraryDocument ---------------------------
(***************************************************************************)
(* The contents of the collection library (stores/collectionLibrary.ts):   *)
(* collections, the requests saved in them, their names and their order;   *)
(* the operations of the sidebar on them, the document they are written as *)
(* and what a document that was read becomes.  When documents are written  *)
(* and read is the matter of CollectionStore.                              *)
(***************************************************************************)
EXTENDS Integers, Sequences, FiniteSets, SequencesExt, FiniteSetsExt, Functions, TLC

CONSTANTS
  NameOf,          \* the normalized name of what is typed; none, if it is refused
  KeyOf,           \* a name in lower case
  Numbered,        \* a name cut to its limit, with a number from 2 on in brackets
  RawNames,        \* names that are typed
  Batches,         \* imports: lists of collections with lists of requests
  MaxIds,          \* bound: ids that crypto.randomUUID returns
  MaxOperations    \* bound: operations, which are also the time

VARIABLE contents

-----------------------------------------------------------------------------
(* Headers *)

\* persistedHeader: a secret is kept only if it is a reference to a variable.
PersistedHeader(header) ==
  IF header.key = "secret" /\ header.value # "reference"
    THEN [header EXCEPT !.value = "", !.enabled = FALSE]
  ELSE header

\* The header of an import, which may be marked as sensitive whatever its key.
ImportedHeader(header) ==
  LET secret == header.sensitive \/ header.key = "secret"
      sanitized == secret /\ header.value # "reference"
  IN  [key |-> header.key, value |-> IF sanitized THEN "" ELSE header.value,
       enabled |-> header.enabled /\ ~sanitized]

IsSanitized(header) ==
  (header.sensitive \/ header.key = "secret") /\ header.value # "reference"

-----------------------------------------------------------------------------
(* Parts of the library *)

NextSortOrder(items) == Max({-1} \cup {items[i].order : i \in DOMAIN items}) + 1

IdsOf(items) == {items[i].id : i \in DOMAIN items}
With(items, id) == CHOOSE i \in DOMAIN items : items[i].id = id
InCollection(requests, id) == SelectSeq(requests, LAMBDA request : request.home = id)

\* touchCollections
Touched(collections, ids, time) ==
  [i \in DOMAIN collections |->
     IF collections[i].id \in ids THEN [collections[i] EXCEPT !.updated = time] ELSE collections[i]]

\* createSavedRequest
SavedRequest(id, home, name, header, time, order) ==
  [id |-> id, home |-> home, name |-> name, header |-> PersistedHeader(header),
   updated |-> time, order |-> order]

\* uniqueByID: the first of each.
UniqueById(items) ==
  FoldLeft(LAMBDA kept, item : IF item.id \in IdsOf(kept) THEN kept ELSE Append(kept, item),
           <<>>, items)

\* hydrateLibraryData: what is not in order is left out, requests also when their
\* collection was.
HydrateLibraryData(document) ==
  LET Named(item) == NameOf[item.name] # <<>>
      Clean(item) == [item EXCEPT !.name = NameOf[item.name][1]]
      Cleaned(items) == [i \in DOMAIN items |-> Clean(items[i])]
      collections == UniqueById(Cleaned(SelectSeq(document.collections, Named)))
      InOrder(request) == Named(request) /\ request.home \in IdsOf(collections)
      requests == UniqueById(Cleaned(SelectSeq(document.requests, InOrder)))
  IN  [collections |-> collections,
       requests |-> [i \in DOMAIN requests |->
                       [requests[i] EXCEPT !.header = PersistedHeader(@)]],
       expanded |-> SelectSeq(document.expanded, LAMBDA id : id \in IdsOf(collections))]

\* collectionLibraryDocument; the expansions were part of older documents.
DocumentOf(state) ==
  [collections |-> state.collections, expanded |-> <<>>,
   requests |-> [i \in DOMAIN state.requests |->
                   [state.requests[i] EXCEPT !.header = PersistedHeader(@)]]]

\* mergeHydratedLibrary; the expansions are those of the view that the last window
\* left behind, or those of an older document, and are written as the view again.
MergeHydratedLibrary(document, view) ==
  LET hydrated == HydrateLibraryData(document)
      expanded == SelectSeq(IF view # <<>> THEN view ELSE hydrated.expanded,
                            LAMBDA id : id \in IdsOf(hydrated.collections))
  IN  [collections |-> hydrated.collections, requests |-> hydrated.requests,
       expanded |-> expanded, view |-> expanded]

-----------------------------------------------------------------------------
(* Operations *)

Now == contents.edits + 1
Nothing == [ids |-> {}, summary |-> <<>>]

IdsLeft(count) == contents.nextId + count - 1 <= MaxIds

\* set, with the view that is written along with the expansions.
Set(collections, requests, expanded, ids, imported) ==
  contents' = [collections |-> collections, requests |-> requests, expanded |-> expanded,
              view |-> expanded, nextId |-> contents.nextId + ids, edits |-> Now,
              imported |-> imported]

CreateCollection(raw) ==
  /\ IdsLeft(1)
  /\ NameOf[raw] # <<>>
  /\ Set(Append(contents.collections,
                [id |-> contents.nextId, name |-> NameOf[raw][1], updated |-> Now,
                 order |-> NextSortOrder(contents.collections)]),
         contents.requests, Append(contents.expanded, contents.nextId), 1, Nothing)

RenameCollection(id, raw) ==
  /\ NameOf[raw] # <<>>
  /\ id \in IdsOf(contents.collections)
  /\ Set([contents.collections EXCEPT ![With(contents.collections, id)] =
            [@ EXCEPT !.name = NameOf[raw][1], !.updated = Now]],
         contents.requests, contents.expanded, 0, Nothing)

DeleteCollection(id) ==
  /\ id \in IdsOf(contents.collections)
  /\ Set(SelectSeq(contents.collections, LAMBDA c : c.id # id),
         SelectSeq(contents.requests, LAMBDA r : r.home # id),
         SelectSeq(contents.expanded, LAMBDA e : e # id), 0, Nothing)

ToggleCollection(id) ==
  /\ id \in IdsOf(contents.collections)
  /\ Set(contents.collections, contents.requests,
         IF id \in ToSet(contents.expanded) THEN SelectSeq(contents.expanded, LAMBDA e : e # id)
         ELSE Append(contents.expanded, id), 0, Nothing)

SaveRequest(home, raw, header) ==
  /\ IdsLeft(1)
  /\ home \in IdsOf(contents.collections)
  /\ NameOf[raw] # <<>>
  /\ Set(Touched(contents.collections, {home}, Now),
         Append(contents.requests,
                SavedRequest(contents.nextId, home, NameOf[raw][1], header, Now,
                             NextSortOrder(InCollection(contents.requests, home)))),
         contents.expanded, 1, Nothing)

\* Mutant: a request that moves keeps its place.
OrderKept(request, home) == request.order

\* A request that moves becomes the last one.
OrderIn(request, home) ==
  IF request.home = home THEN request.order
  ELSE NextSortOrder(InCollection(contents.requests, home))

\* upsertRequest of a request that exists; of another one, it is saveRequest.
UpsertRequest(home, raw, header, id) ==
  LET i == With(contents.requests, id)
      request == contents.requests[i]
  IN  /\ home \in IdsOf(contents.collections)
      /\ NameOf[raw] # <<>>
      /\ id \in IdsOf(contents.requests)
      /\ Set(Touched(contents.collections, {request.home, home}, Now),
             [contents.requests EXCEPT ![i] =
                [id |-> id, home |-> home, name |-> NameOf[raw][1],
                 header |-> PersistedHeader(header), updated |-> Now,
                 order |-> OrderIn(request, home)]],
             contents.expanded, 0, Nothing)

RenameRequest(id, raw) ==
  LET i == With(contents.requests, id)
  IN  /\ NameOf[raw] # <<>>
      /\ id \in IdsOf(contents.requests)
      /\ Set(Touched(contents.collections, {contents.requests[i].home}, Now),
             [contents.requests EXCEPT ![i] =
                [@ EXCEPT !.name = NameOf[raw][1], !.updated = Now]],
             contents.expanded, 0, Nothing)

\* A move into the collection the request is in changes nothing.
MoveRequest(id, home) ==
  LET i == With(contents.requests, id)
      request == contents.requests[i]
  IN  /\ id \in IdsOf(contents.requests)
      /\ home \in IdsOf(contents.collections)
      /\ request.home # home
      /\ Set(Touched(contents.collections, {request.home, home}, Now),
             [contents.requests EXCEPT ![i] =
                [@ EXCEPT !.home = home, !.updated = Now, !.order = OrderIn(request, home)]],
             contents.expanded, 0, Nothing)

DeleteRequest(id) ==
  /\ id \in IdsOf(contents.requests)
  /\ Set(Touched(contents.collections, {contents.requests[With(contents.requests, id)].home}, Now),
         SelectSeq(contents.requests, LAMBDA r : r.id # id), contents.expanded, 0, Nothing)

-----------------------------------------------------------------------------
(* Imports *)

\* uniqueImportedCollectionName
UniqueName(name, reserved) ==
  IF KeyOf[name] \notin reserved THEN name
  ELSE LET free == {n \in DOMAIN Numbered[name] : KeyOf[Numbered[name][n]] \notin reserved}
       IN  Numbered[name][Min(free)]

\* preparedImportedCollections: one name that is refused refuses the whole.
Prepared(batch) ==
  /\ batch # <<>>
  /\ \A i \in DOMAIN batch :
       /\ NameOf[batch[i].name] # <<>>
       /\ \A j \in DOMAIN batch[i].requests : NameOf[batch[i].requests[j].name] # <<>>

\* Mutant: only names that the library had are taken.
ImportOverItself(state, collection) ==
  LET id == state.nextId
      name == UniqueName(NameOf[collection.name][1],
                         {KeyOf[contents.collections[i].name] : i \in DOMAIN contents.collections})
      saved == [j \in DOMAIN collection.requests |->
                  SavedRequest(id + j, id, NameOf[collection.requests[j].name][1],
                               ImportedHeader(collection.requests[j].header), Now, j - 1)]
  IN  [nextId |-> id + 1 + Len(saved),
       collections |-> Append(state.collections,
                              [id |-> id, name |-> name, updated |-> Now,
                               order |-> NextSortOrder(state.collections)]),
       requests |-> state.requests \o saved, expanded |-> Append(state.expanded, id)]

\* One collection of an import, after those before it.
ImportCollection(state, collection) ==
  LET id == state.nextId
      name == UniqueName(NameOf[collection.name][1],
                         {KeyOf[state.collections[i].name] : i \in DOMAIN state.collections})
      saved == [j \in DOMAIN collection.requests |->
                  SavedRequest(id + j, id, NameOf[collection.requests[j].name][1],
                               ImportedHeader(collection.requests[j].header), Now, j - 1)]
  IN  [nextId |-> id + 1 + Len(saved),
       collections |-> Append(state.collections,
                              [id |-> id, name |-> name, updated |-> Now,
                               order |-> NextSortOrder(state.collections)]),
       requests |-> state.requests \o saved, expanded |-> Append(state.expanded, id)]

RequestsOf(batch) == FoldLeft(LAMBDA all, collection : all \o collection.requests, <<>>, batch)

ImportCollections(batch) ==
  LET start == [nextId |-> contents.nextId, collections |-> contents.collections,
                requests |-> contents.requests, expanded |-> contents.expanded]
      requests == RequestsOf(batch)
      sanitized == {j \in DOMAIN requests : IsSanitized(requests[j].header)}
  IN  /\ Prepared(batch)
      /\ \E all \in {FoldLeft(ImportCollection, start, batch)} :
           /\ IdsLeft(all.nextId - contents.nextId)
           /\ Set(all.collections, all.requests, all.expanded, all.nextId - contents.nextId,
                  [ids |-> contents.nextId..all.nextId - 1,
                   summary |-> <<Len(batch), Len(requests), Cardinality(sanitized)>>])

\* The document is written and read again: by this window, or by the next one, which
\* has the expansions of the view.
ReadAgain ==
  contents' = [edits |-> Now, imported |-> Nothing]
              @@ MergeHydratedLibrary(DocumentOf(contents), contents.view) @@ contents

-----------------------------------------------------------------------------
(* The specification *)

\* What may be read comes with the view that was left behind.
LibraryInit(document) ==
  contents = [edits |-> 0, imported |-> Nothing,
              nextId |-> 1 + Max({0} \cup IdsOf(document.collections) \cup IdsOf(document.requests))]
             @@ MergeHydratedLibrary(document, document.view)

\* Headers without a secret come from documents and imports.
Headers == [key : {"secret"}, value : {"text", "reference"}, enabled : {TRUE}]

LibraryNext ==
  /\ contents.edits < MaxOperations
  /\ \/ \E raw \in RawNames : CreateCollection(raw)
     \/ \E id \in IdsOf(contents.collections) :
          \/ \E raw \in RawNames : RenameCollection(id, raw)
          \/ DeleteCollection(id)
          \/ ToggleCollection(id)
          \/ \E raw \in RawNames, header \in Headers : SaveRequest(id, raw, header)
     \/ \E id \in IdsOf(contents.requests) :
          \/ \E raw \in RawNames : RenameRequest(id, raw)
          \/ DeleteRequest(id)
          \/ \E home \in IdsOf(contents.collections) :
               \/ MoveRequest(id, home)
               \/ \E raw \in RawNames, header \in Headers : UpsertRequest(home, raw, header, id)
     \/ \E batch \in Batches : ImportCollections(batch)
     \/ ReadAgain

-----------------------------------------------------------------------------
(* Properties *)

Distinct(items) ==
  \A i, j \in DOMAIN items : items[i].order = items[j].order => i = j

\* Through every sequence of operations, imports and reloads, from whatever document
\* was read: every request is in a collection that exists, ids are unique, and no two
\* that are listed together have the same place; no secret is kept but a reference; a
\* collection is as new as the newest of its requests; what is written is what is read
\* again; the expanded collections exist, once each, and are those of the view; and an
\* import adds what it says under names that nothing had, and leaves out no part
\* (collectionLibrary.ts:290, 457, 728).
LibraryExact ==
  LET collections == contents.collections
      requests == contents.requests
      imported == contents.imported
      added == {i \in DOMAIN collections : collections[i].id \in imported.ids}
      saved == {i \in DOMAIN requests : requests[i].id \in imported.ids}
  IN  /\ \A i \in DOMAIN requests : requests[i].home \in IdsOf(collections)
      /\ Cardinality(IdsOf(collections)) = Len(collections)
      /\ Cardinality(IdsOf(requests)) = Len(requests)
      /\ IdsOf(collections) \cup IdsOf(requests) \subseteq 1..contents.nextId - 1
      /\ Distinct(collections)
      /\ \A id \in IdsOf(collections) : Distinct(InCollection(requests, id))
      /\ \A i \in DOMAIN requests :
           requests[i].header.key = "secret" => requests[i].header.value \in {"", "reference"}
      /\ \A i \in DOMAIN requests :
           requests[i].updated <= collections[With(collections, requests[i].home)].updated
      /\ HydrateLibraryData(DocumentOf(contents)) =
           [collections |-> collections, requests |-> requests, expanded |-> <<>>]
      /\ Cardinality(ToSet(contents.expanded)) = Len(contents.expanded)
      /\ ToSet(contents.expanded) \subseteq IdsOf(collections)
      /\ contents.view = contents.expanded
      /\ imported.ids # {} =>
           /\ imported.summary[1] = Cardinality(added)
           /\ imported.summary[2] = Cardinality(saved)
           /\ imported.summary[3] = Cardinality({i \in saved : requests[i].header.value = ""})
           /\ \A i \in added, j \in DOMAIN collections :
                KeyOf[collections[i].name] = KeyOf[collections[j].name] => i = j
=============================================================================
