--------------------------- MODULE RequestWorkspace ---------------------------
(***************************************************************************)
(* The request tabs of the renderer: the store that keeps them             *)
(* (stores/workspace.ts), the editor that buffers what is typed, sends,    *)
(* cancels and saves (native/requests/workspace.ts), and the sidebar that  *)
(* opens and deletes saved requests (native/chrome/sidebar.ts).            *)
(*                                                                         *)
(* An event with the callbacks it runs is one step; what an await gives    *)
(* back is another.  What is typed stays in a draft until a timer, or any  *)
(* other event that renders, commits it to the tab.  Dialogs are modal, so *)
(* opening and confirming one is one step.                                 *)
(***************************************************************************)
EXTENDS Integers, Sequences, SequencesExt, FiniteSets

CONSTANTS
  Fresh,        \* tab ids that crypto.randomUUID will return
  Endpoint,     \* id of the tab of an imported endpoint, the same every time
  RequestIds,   \* ids of saved requests
  NoTab,        \* activeTabID ""
  NoRequest,    \* savedRequestId undefined, a request the library has not
  Live,         \* the draft a save compares with is still the one of the editor
  MaxClosed,    \* length of recentlyClosed, 10 in the code
  MaxEdits,     \* bound: fields typed
  MaxSends,     \* bound: requests sent
  MaxActions    \* bound: what the user does, edits and sends included

Ids == Fresh \cup {Endpoint}

Fields == {"method", "url", "body", "headers"}

\* A value typed into a field is the number of the edit that typed it.
\* Headers are told apart by whether they hold a secret.
Contents == [method : 0..MaxEdits, url : 0..MaxEdits, body : 0..MaxEdits,
             headers : {"plain", "secret", "stripped"}, literal : BOOLEAN]

ASSUME WorkspaceAssumption ==
  /\ Endpoint \notin Fresh /\ NoTab \notin Ids
  /\ NoRequest \notin RequestIds
  /\ {NoRequest, Live} \cap Contents = {}
  /\ MaxClosed \in Nat \ {0}
  /\ MaxEdits \in Nat /\ MaxSends \in Nat /\ MaxActions \in Nat

Blank == [method |-> 0, url |-> 0, body |-> 0,
          headers |-> "plain", literal |-> FALSE]

\* createRequestTab
RequestTab == [content |-> Blank, link |-> NoRequest, openApi |-> FALSE,
               dirty |-> FALSE, running |-> FALSE, pinned |-> FALSE,
               session |-> FALSE, answer |-> 0, checked |-> FALSE]

VARIABLES
  open,            \* the ids of the tabs, in their order
  tab,             \* what the store holds of each
  activeTabID,
  recentlyClosed,
  drafts,          \* RequestDraft of each tab
  pending,         \* pendingDraftFields
  token,           \* requestOperationTokens: a send, or 0 for any other symbol
  canceling,       \* cancelingRequests
  sends,           \* the calls of sendRequest
  cancels,         \* cancellations the backend has not answered
  library,         \* collectionLibraryStore: the requests it has
  disk,            \* the library whose saving was last reported
  locked,          \* a conflict forbids changes of the library
  saving,          \* calls of persistSavedRequest that await the storage
  edits, used, actions,
  glossed          \* history: tabs marked clean by a save that an edit or
                   \* another save overtook, since the window was loaded

editorVars == <<drafts, pending>>
operationVars == <<token, canceling, sends, cancels>>
libraryVars == <<library, disk, locked>>
tabVars == <<open, tab, activeTabID, recentlyClosed>>
counters == <<edits, used, actions>>
vars == <<tabVars, editorVars, operationVars, libraryVars, saving, counters, glossed>>

\* The user does something.
Act == actions < MaxActions /\ actions' = actions + 1

IsOpen(id) == \E n \in 1..Len(open) : open[n] = id

-----------------------------------------------------------------------------
(* Drafts *)

\* Mutant: an edit does not touch the token; only a commit would.
KeepsToken(id, field) == token[id]

\* markDraftFields: a new method or URL makes the answers under way stale.
TokenAfterEdit(id, field) ==
  IF field \in {"method", "url"} THEN 0 ELSE token[id]

Typed(content, field) ==
  CASE field = "headers" /\ content.headers = "secret" -> [content EXCEPT !.headers = "plain"]
    [] field = "headers" -> [content EXCEPT !.headers = "secret"]
    [] OTHER -> [content EXCEPT ![field] = edits + 1]

\* commitDraftFields: the fields that differ go to the tab.
Commit(id) ==
  LET changed == {f \in pending[id] : drafts[id][f] # tab[id].content[f]}
  IN  IF changed = {} \/ ~IsOpen(id) THEN tab[id]
      ELSE [tab[id] EXCEPT
              !.content = [f \in DOMAIN @ |-> IF f \in changed THEN drafts[id][f] ELSE @[f]],
              !.openApi = @ /\ "method" \notin changed,
              !.dirty = TRUE]

\* flushPendingDrafts
Flushed == [id \in Ids |-> Commit(id)]

\* The saves in flight keep the draft object they were given.  The editor makes
\* another (draftFor) when the tab got other content than its draft, and drops
\* it (retireRequestRuntime) when the tab is closed.
Detached(objects, tabs, ids) ==
  [n \in 1..Len(saving) |->
     LET id == saving[n].tab
     IN  IF /\ saving[n].draft = Live
            /\ ~Contains(ids, id) \/ tabs[id].content # objects[id].content
         THEN [saving[n] EXCEPT !.draft = objects[id].content]
         ELSE saving[n]]

\* The store's next tabs, and the drafts after the render that follows.
\* retireRequestRuntime forgets the tabs that are gone.
Store(tabs, ids) ==
  /\ open' = ids
  /\ tab' = [id \in Ids |-> IF Contains(ids, id) THEN tabs[id] ELSE RequestTab]
  /\ drafts' = [id \in Ids |-> tab'[id].content]
  /\ pending' = [id \in Ids |-> {}]

\* The tokens and cancellations of the tabs that stay.
Retire(ids) ==
  /\ token' = [id \in Ids |-> IF Contains(ids, id) THEN token[id] ELSE 0]
  /\ canceling' = {id \in canceling : Contains(ids, id)}
  /\ UNCHANGED <<sends, cancels>>

Type(field) ==
  LET id == activeTabID
  IN  /\ id # NoTab
      /\ ~tab[id].running
      /\ Act
      /\ edits < MaxEdits
      /\ edits' = edits + 1
      /\ drafts' = [drafts EXCEPT ![id] = Typed(@, field)]
      /\ pending' = [pending EXCEPT ![id] = @ \cup {field}]
      /\ token' = [token EXCEPT ![id] = TokenAfterEdit(id, field)]
      /\ saving' = [n \in 1..Len(saving) |->
           IF saving[n].tab = id THEN [saving[n] EXCEPT !.overtaken = TRUE] ELSE saving[n]]
      /\ UNCHANGED <<tabVars, canceling, sends, cancels, libraryVars, used,
                     glossed>>

\* The 120 ms timer, focusout and visibilitychange.
FlushDrafts ==
  /\ \E id \in Ids : pending[id] # {}
  /\ Store(Flushed, open)
  /\ UNCHANGED <<activeTabID, recentlyClosed, operationVars, libraryVars, saving,
                 counters, glossed>>

\* The switch of variable resolution: the answer on the screen is dropped, and
\* the draft is changed with the tab.
ToggleLiteral ==
  LET id == activeTabID
      toggled == [Flushed EXCEPT ![id].content.literal = ~@, ![id].dirty = TRUE,
                                 ![id].answer = 0, ![id].checked = FALSE]
  IN  /\ id # NoTab
      /\ ~tab[id].running
      /\ Act
      /\ edits < MaxEdits
      /\ edits' = edits + 1
      /\ Store(toggled, open)
      /\ saving' = [n \in 1..Len(saving) |->
           IF saving[n].tab = id THEN [saving[n] EXCEPT !.overtaken = TRUE] ELSE saving[n]]
      /\ UNCHANGED <<activeTabID, recentlyClosed, operationVars, libraryVars, used,
                     glossed>>

-----------------------------------------------------------------------------
(* Tabs *)

\* openTab with an id that is not open.
Open(id, record) ==
  /\ Act
  /\ Store([Flushed EXCEPT ![id] = record], Append(open, id))
  /\ activeTabID' = id
  /\ UNCHANGED <<recentlyClosed, operationVars, libraryVars, saving, edits,
                 glossed>>

Activate(id) ==
  /\ Act
  /\ IsOpen(id)
  /\ activeTabID # id
  /\ activeTabID' = id
  /\ Store(Flushed, open)
  /\ UNCHANGED <<recentlyClosed, operationVars, libraryVars, saving, edits, used,
                 glossed>>

\* openRequestDraft, and applyCurlImport, whose tab is not persisted.
NewRequest(id) ==
  /\ id \in Fresh \ used
  /\ used' = used \cup {id}
  /\ \/ Open(id, [RequestTab EXCEPT !.dirty = TRUE])
     \/ Open(id, [RequestTab EXCEPT !.dirty = TRUE, !.session = TRUE,
                                    !.content.literal = TRUE])

OpenEndpoint ==
  \/ Activate(Endpoint)
  \/ /\ ~IsOpen(Endpoint)
     /\ Open(Endpoint, [RequestTab EXCEPT !.openApi = TRUE])
     /\ UNCHANGED used

Linked(r) == {id \in Ids : IsOpen(id) /\ tab[id].link = r}

\* openSavedRequest of the sidebar.
OpenSaved(r, id) ==
  /\ library[r] # NoRequest
  /\ \/ /\ id \in Linked(r)
        /\ Activate(id)
     \/ /\ Linked(r) = {} /\ id \in Fresh \ used
        /\ used' = used \cup {id}
        /\ Open(id, [RequestTab EXCEPT !.content = library[r], !.link = r])

DuplicateTab(id, copy) ==
  /\ IsOpen(id) /\ ~tab[id].running
  /\ copy \in Fresh \ used
  /\ used' = used \cup {copy}
  /\ Open(copy, [Flushed[id] EXCEPT !.link = NoRequest, !.pinned = FALSE,
                                    !.answer = 0, !.checked = FALSE])

TogglePin(id) ==
  /\ IsOpen(id) /\ ~tab[id].running
  /\ Act
  /\ Store([Flushed EXCEPT ![id].pinned = ~@], open)
  /\ UNCHANGED <<activeTabID, recentlyClosed, operationVars, libraryVars, saving,
                 edits, used, glossed>>

ReorderTab(m, n) ==
  /\ {m, n} \subseteq 1..Len(open)
  /\ n \in {m - 1, m + 1}
  /\ ~tab[open[m]].running /\ ~tab[open[m]].pinned
  /\ Act
  /\ Store(Flushed, InsertAt(RemoveAt(open, m), n, open[m]))
  /\ UNCHANGED <<activeTabID, recentlyClosed, operationVars, libraryVars, saving,
                 edits, used, glossed>>

\* The entries of a sequence at some of its places, in their order.
Entries(s, places) ==
  [k \in 1..Cardinality(places) |->
     s[CHOOSE n \in places : Cardinality({m \in places : m <= n}) = k]]

\* The tabs that leave the store go in front of recentlyClosed, the last first.
Leave(gone, active) ==
  LET ids == Entries(open, {n \in 1..Len(open) : open[n] \notin gone})
      closing == Entries(open, {n \in 1..Len(open) : open[n] \in gone})
      records == [n \in 1..Len(closing) |->
                    [id |-> closing[n], tab |-> Flushed[closing[n]]]]
      all == Reverse(records) \o recentlyClosed
  IN  /\ Act
      /\ Store(Flushed, ids)
      /\ saving' = Detached(Flushed, Flushed, ids)
      /\ Retire(ids)
      /\ recentlyClosed' = SubSeq(all, 1, IF Len(all) < MaxClosed THEN Len(all) ELSE MaxClosed)
      /\ activeTabID' = active
      /\ UNCHANGED <<libraryVars, edits, used, glossed>>

\* The tab that becomes active when the n-th is closed.
Fallback(n) ==
  LET rest == RemoveAt(open, n)
  IN  IF rest = <<>> THEN NoTab ELSE rest[IF n <= Len(rest) THEN n ELSE Len(rest)]

\* closeTab, the dialog of a dirty tab included.
CloseTab(n) ==
  /\ ~tab[open[n]].running
  /\ Leave({open[n]}, IF activeTabID = open[n] THEN Fallback(n) ELSE activeTabID)

Closable(id) == ~Flushed[id].pinned /\ ~Flushed[id].dirty /\ ~tab[id].running

CloseOtherTabs(id) ==
  LET gone == {other \in Ids \ {id} : IsOpen(other) /\ Closable(other)}
  IN  /\ IsOpen(id) /\ gone # {}
      /\ Leave(gone, id)

CloseTabsToRight(n) ==
  LET gone == {open[m] : m \in {k \in n + 1..Len(open) : Closable(open[k])}}
  IN  /\ gone # {}
      /\ Leave(gone, IF activeTabID \in gone THEN open[n] ELSE activeTabID)

\* The open tabs that stand for a closed one.
InPlaceOf(closed) ==
  {id \in Ids : /\ IsOpen(id)
                /\ \/ id = closed.id
                   \/ closed.tab.link # NoRequest /\ tab[id].link = closed.tab.link}

ReopenClosedTab ==
  LET closed == recentlyClosed[1]
      same == InPlaceOf(closed)
      position(id) == CHOOSE n \in 1..Len(open) : open[n] = id
  IN  /\ Act
      /\ recentlyClosed # <<>>
      /\ recentlyClosed' = Tail(recentlyClosed)
      /\ \/ /\ same = {}
            /\ Store([Flushed EXCEPT ![closed.id] = closed.tab], Append(open, closed.id))
            /\ activeTabID' = closed.id
         \/ /\ same # {}
            /\ Store(Flushed, open)
            /\ activeTabID' = CHOOSE id \in same :
                 \A other \in same : position(id) <= position(other)
      /\ UNCHANGED <<operationVars, libraryVars, saving, edits, used, glossed>>

-----------------------------------------------------------------------------
(* Sending and cancelling *)

Send ==
  LET id == activeTabID
      n == Len(sends) + 1
  IN  /\ Act
      /\ id # NoTab
      /\ ~tab[id].running
      /\ n <= MaxSends
      /\ sends' = Append(sends, [tab |-> id, at |-> "sent",
                                 content |-> Flushed[id].content,
                                 openApi |-> Flushed[id].openApi])
      /\ token' = [token EXCEPT ![id] = n]
      /\ canceling' = canceling \ {id}
      /\ Store([Flushed EXCEPT ![id].running = TRUE, ![id].answer = 0,
                               ![id].checked = FALSE], open)
      /\ UNCHANGED <<activeTabID, recentlyClosed, cancels, libraryVars, saving,
                     edits, used, glossed>>

\* The URL is not valid, or a variable has no value.
SendRefused ==
  LET id == activeTabID
  IN  /\ Act
      /\ id # NoTab
      /\ ~tab[id].running
      /\ token' = [token EXCEPT ![id] = 0]
      /\ canceling' = canceling \ {id}
      /\ Store(Flushed, open)
      /\ UNCHANGED <<activeTabID, recentlyClosed, sends, cancels, libraryVars,
                     saving, edits, used, glossed>>

\* Mutant: any answer to a tab that is still open is taken.
AnyIsCurrent(n) == IsOpen(sends[n].tab)

\* operationIsCurrent
OperationIsCurrent(n) == token[sends[n].tab] = n

\* The call goes on to "checking" when the tab belongs to an endpoint and its
\* URL still fits the path; it ends otherwise.
Answer(n, shown, next) ==
  LET id == sends[n].tab
  IN  /\ sends' = [sends EXCEPT ![n].at = next]
      /\ IF OperationIsCurrent(n)
         THEN /\ Store([Flushed EXCEPT ![id].running = FALSE,
                          ![id].answer = IF shown THEN n ELSE @,
                          ![id].checked = shown /\ next = "done"], open)
              /\ canceling' = IF next = "done" THEN canceling \ {id} ELSE canceling
         ELSE UNCHANGED <<open, tab, drafts, pending, canceling>>
      /\ UNCHANGED <<activeTabID, recentlyClosed, token, cancels, libraryVars,
                     saving, counters, glossed>>

Responded(n) ==
  /\ sends[n].at = "sent"
  /\ \/ Answer(n, TRUE, "done")
     \/ sends[n].openApi /\ OperationIsCurrent(n) /\ Answer(n, TRUE, "checking")

\* An error of the request, a cancellation, or a rejected promise.
Failed(n) ==
  /\ sends[n].at = "sent"
  /\ Answer(n, FALSE, "done")

\* validateOpenAPIResponse answered or failed: the verdict joins the response.
Validated(n) ==
  /\ sends[n].at = "checking"
  /\ Answer(n, TRUE, "done")

\* cancelRequest, from the composer or from another part of the window.
Cancel(id) ==
  /\ Act
  /\ IsOpen(id) /\ tab[id].running
  /\ id \notin canceling
  /\ canceling' = canceling \cup {id}
  /\ cancels' = cancels \cup {[tab |-> id, token |-> token[id]]}
  /\ Store(Flushed, open)
  /\ UNCHANGED <<activeTabID, recentlyClosed, token, sends, libraryVars, saving,
                 edits, used, glossed>>

\* cancellationIsCurrent
CancellationIsCurrent(c) == tab[c.tab].running /\ token[c.tab] = c.token

\* The backend canceled the request, or did not (or the call failed): the
\* tab is then released without waiting for its answer.
CancelReturns(c, canceled) ==
  /\ cancels' = cancels \ {c}
  /\ IF CancellationIsCurrent(c) /\ ~canceled
     THEN /\ canceling' = canceling \ {c.tab}
          /\ token' = [token EXCEPT ![c.tab] = 0]
          /\ Store([Flushed EXCEPT ![c.tab].running = FALSE], open)
     ELSE UNCHANGED <<canceling, token, open, tab, drafts, pending>>
  /\ UNCHANGED <<activeTabID, recentlyClosed, sends, libraryVars, saving,
                 counters, glossed>>

-----------------------------------------------------------------------------
(* Saving *)

\* persistedHeader: the library and localStorage never hold a secret.
Sanitized(content) ==
  [content EXCEPT !.headers = IF @ = "secret" THEN "stripped" ELSE @]

\* reconcileTabWithSavedRequests
Reconcile(record, lib) ==
  IF record.link = NoRequest THEN record
  ELSE IF lib[record.link] = NoRequest
  THEN [record EXCEPT !.link = NoRequest, !.dirty = TRUE]
  ELSE IF record.dirty \/ record.content = lib[record.link] THEN record
  ELSE [record EXCEPT !.content = lib[record.link], !.answer = 0, !.checked = FALSE]

\* reconcileSavedRequestLinks, run by every change of the library and of its
\* persistence.
Reconciled(lib) == [id \in Ids |-> Reconcile(Flushed[id], lib)]

ReconcileClosed(lib) ==
  recentlyClosed' = [n \in 1..Len(recentlyClosed) |->
    [recentlyClosed[n] EXCEPT !.tab = Reconcile(@, lib)]]

\* A save from another tab replaces what those in flight have written: while
\* such a tab is closed, the request may be opened, and saved, in a second one.
OvertakenBy(id, r, saves) ==
  [n \in 1..Len(saves) |->
     IF saves[n].request = r /\ saves[n].tab # id
     THEN [saves[n] EXCEPT !.overtaken = TRUE] ELSE saves[n]]

\* openSaveDialog and persistSavedRequest up to the wait: a request of its own,
\* or the one the tab was saved as.
Save(r) ==
  LET id == activeTabID
      lib == [library EXCEPT ![r] = Sanitized(Flushed[id].content)]
      tabs == [Reconciled(lib) EXCEPT
                 ![id] = [Flushed[id] EXCEPT !.link = r, !.dirty = TRUE,
                                             !.session = FALSE]]
  IN  /\ Act
      /\ id # NoTab
      /\ ~tab[id].running
      /\ ~locked
      /\ r = tab[id].link \/ r \notin used
      /\ used' = used \cup {r}
      /\ library' = lib
      /\ Store(tabs, open)
      /\ ReconcileClosed(lib)
      /\ saving' = Append(OvertakenBy(id, r, Detached(Flushed, tabs, open)),
                          [tab |-> id, request |-> r, draft |-> Live, overtaken |-> FALSE])
      /\ UNCHANGED <<activeTabID, operationVars, disk, locked, edits, glossed>>

\* Mutant: removed secrets do not keep the tab dirty.
SecretsForgotten(request, draft) == FALSE

\* secretsRemoved
SecretsRemoved(request, draft) ==
  library[request] # NoRequest /\ library[request].headers # draft.headers

Definition(content) == [f \in Fields |-> content[f]]

\* The wait is over.  The tab is compared with the draft as it is now, which
\* follows the edits made during the wait unless the editor has replaced it.
SaveReturns(n, durable) ==
  LET tabs == Reconciled(library)
      save == Detached(Flushed, tabs, open)[n]
      id == save.tab
      draft == IF save.draft = Live THEN tabs[id].content ELSE save.draft
      clean == /\ durable
               /\ ~SecretsRemoved(save.request, draft)
               /\ IsOpen(id) /\ tabs[id].link = save.request
               /\ Definition(tabs[id].content) = Definition(draft)
  IN  /\ durable => ~locked
      /\ Store(IF clean THEN [tabs EXCEPT ![id].dirty = FALSE] ELSE tabs, open)
      /\ ReconcileClosed(library)
      /\ saving' = RemoveAt(Detached(Flushed, tabs, open), n)
      /\ disk' = IF durable THEN library ELSE disk
      /\ locked' \in IF durable THEN {locked} ELSE {locked, TRUE}
      /\ glossed' = IF clean /\ save.overtaken THEN glossed \cup {id} ELSE glossed
      /\ UNCHANGED <<activeTabID, operationVars, library, counters>>

\* The sidebar deletes a saved request, alone or with its collection.
DeleteSaved(r) ==
  LET lib == [library EXCEPT ![r] = NoRequest]
  IN  /\ Act
      /\ library[r] # NoRequest
      /\ ~locked
      /\ library' = lib
      /\ Store(Reconciled(lib), open)
      /\ ReconcileClosed(lib)
      /\ saving' = Detached(Flushed, Reconciled(lib), open)
      /\ UNCHANGED <<activeTabID, operationVars, disk, locked, edits, used, glossed>>

\* persistedTab: what localStorage keeps of a tab.
PersistedTab(record) ==
  [record EXCEPT !.content = Sanitized(@), !.openApi = FALSE, !.running = FALSE,
                 !.answer = 0, !.checked = FALSE]

\* The window is loaded again, after pagehide or after a crash that loses what
\* was not committed; the library is read, as it was saved last or as it is now,
\* and the tabs are reconciled with it.
Reload ==
  \E tabs \in {Flushed, tab}, read \in {library, disk} :
    LET kept == Entries(open, {n \in 1..Len(open) : ~tabs[open[n]].session})
        closed == Entries(recentlyClosed, {n \in 1..Len(recentlyClosed) :
                                             ~recentlyClosed[n].tab.session})
    IN  /\ Act
        /\ Store([id \in Ids |-> Reconcile(PersistedTab(tabs[id]), read)], kept)
        /\ recentlyClosed' = [n \in 1..Len(closed) |->
             [closed[n] EXCEPT !.tab = Reconcile(PersistedTab(@), read)]]
        /\ activeTabID' = IF activeTabID # NoTab /\ Contains(kept, activeTabID)
                          THEN activeTabID
                          ELSE IF kept = <<>> THEN NoTab ELSE kept[1]
        /\ token' = [id \in Ids |-> 0]
        /\ canceling' = {} /\ cancels' = {}
        /\ sends' = [n \in 1..Len(sends) |-> [sends[n] EXCEPT !.at = "done"]]
        /\ library' = read /\ disk' = read
        /\ locked' = FALSE
        /\ saving' = <<>>
        /\ glossed' = {}
        /\ UNCHANGED <<edits, used>>

Init ==
  /\ open = <<>> /\ activeTabID = NoTab /\ recentlyClosed = <<>>
  /\ tab = [id \in Ids |-> RequestTab]
  /\ drafts = [id \in Ids |-> Blank]
  /\ pending = [id \in Ids |-> {}]
  /\ token = [id \in Ids |-> 0]
  /\ canceling = {} /\ cancels = {} /\ sends = <<>>
  /\ library \in {[r \in RequestIds |-> IF r \in S THEN Blank ELSE NoRequest] :
                    S \in SUBSET RequestIds}
  /\ disk = library
  /\ used = {r \in RequestIds : library[r] # NoRequest}
  /\ locked = FALSE /\ saving = <<>>
  /\ edits = 0 /\ actions = 0 /\ glossed = {}

TabSteps ==
  \/ \E id \in Ids : NewRequest(id) \/ Activate(id) \/ TogglePin(id)
                     \/ CloseOtherTabs(id)
  \/ OpenEndpoint
  \/ \E r \in RequestIds, id \in Ids : OpenSaved(r, id)
  \/ \E id, copy \in Ids : DuplicateTab(id, copy)
  \/ \E n \in 1..Len(open) : CloseTab(n) \/ CloseTabsToRight(n)
  \/ \E m, n \in 1..Len(open) : ReorderTab(m, n)
  \/ ReopenClosedTab

OperationSteps ==
  \/ Send \/ SendRefused
  \/ \E n \in 1..Len(sends) : Responded(n) \/ Failed(n) \/ Validated(n)
  \/ \E id \in Ids : Cancel(id)
  \/ \E c \in cancels, canceled \in BOOLEAN : CancelReturns(c, canceled)

LibrarySteps ==
  \/ \E r \in RequestIds : Save(r) \/ DeleteSaved(r)
  \/ \E n \in 1..Len(saving), durable \in BOOLEAN : SaveReturns(n, durable)
  \/ Reload

Next ==
  \/ \E field \in Fields : Type(field)
  \/ FlushDrafts \/ ToggleLiteral
  \/ TabSteps
  \/ OperationSteps
  \/ LibrarySteps

Spec == Init /\ [][Next]_vars

-----------------------------------------------------------------------------
(* Properties *)

\* Every variable keeps the values the code gives it.  A tab is open once, a
\* saved request is open in one tab at most, and some tab is active when there
\* is one: reopening, importing and saving as all keep to that.
\* (openTab, reopenClosedTab, closeTab of stores/workspace.ts)
TypeOK ==
  /\ \A id \in Ids : tab[id].content \in Contents /\ drafts[id] \in Contents
  /\ \A id \in Ids : pending[id] \subseteq Fields /\ token[id] \in 0..Len(sends)
  /\ IsInjective(open)
  /\ \A r \in RequestIds : Cardinality(Linked(r)) <= 1
  /\ IF open = <<>> THEN activeTabID = NoTab ELSE IsOpen(activeTabID)
  /\ canceling \subseteq {id \in Ids : IsOpen(id)}
  /\ Len(recentlyClosed) <= MaxClosed

\* A tab runs exactly while the send that set it running is in flight and still
\* the current operation of the tab: no tab is left running (it could be
\* neither edited, cancelled nor closed), and no current send runs unseen.
\* (sendRequest, cancelRequest and the tokens of native/requests/workspace.ts)
RunningIsOwned ==
  /\ TypeOK
  /\ \A id \in Ids :
       (IsOpen(id) /\ tab[id].running) =
         (token[id] # 0 /\ sends[token[id]].at = "sent")

\* A response, or the verdict on it, is put on a tab only by the last send of
\* that tab, and only while the method and the URL in the editor are those that
\* were sent.  The tabs excepted from CleanIsSaved are excepted here: the next
\* reconciliation replaces their content even while they run.
\* (comment in markDraftFields)
AnswersAreCurrent ==
  [][\A id \in Ids :
       LET n == tab'[id].answer
       IN  /\ IsOpen(id) /\ (IsOpen(id))' /\ id \notin glossed
           /\ n # 0
           /\ <<n, tab'[id].checked>> # <<tab[id].answer, tab[id].checked>>
           => /\ sends[n].tab = id
              /\ \A m \in n + 1..Len(sends) : sends[m].tab # id
              /\ drafts'[id].method = sends[n].content.method
              /\ drafts'[id].url = sends[n].content.url]_vars

\* A tab that is linked to a saved request and not marked dirty shows what the
\* library holds of it, so that closing it, or the next reconciliation, loses
\* nothing.  Excepted are tabs that were edited while their own save was in
\* flight, and those whose request another tab saved then: the save compares
\* the tab with the live draft, or with what it wrote itself, and clears the mark.
\* (persistSavedRequest and reconcileTabWithSavedRequests)
CleanIsSaved ==
  \A id \in Ids :
    IsOpen(id) /\ ~tab[id].dirty /\ tab[id].link # NoRequest /\ id \notin glossed
      => library[tab[id].link] = tab[id].content
=============================================================================
