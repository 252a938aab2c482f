------------------------------ MODULE MockServer ------------------------------
(***************************************************************************)
(* The mock server: its workspace in the renderer                          *)
(* (native/features/mockServer.ts), the bridge methods it calls            *)
(* (internal/canbridge/tools_bridge.go) and the listeners of               *)
(* internal/mockserver/server.go.                                          *)
(*                                                                         *)
(* A call carries the counters of the view as they were when it was sent,  *)
(* and waits for mockMu on its own; so it may run after a later one, and   *)
(* its answer may come after that of a later one.  A route table is a      *)
(* number: every edit and every import makes a new one.                    *)
(***************************************************************************)
EXTENDS Integers, Sequences

CONSTANTS
  MaxTables,    \* bound: route tables made
  MaxRequests,  \* bound: calls sent
  MaxServers,   \* bound: Server objects
  MaxSessions   \* bound: windows opened

ASSUME MockAssumption ==
  /\ MaxTables \in Nat /\ MaxRequests \in Nat
  /\ MaxServers \in Nat \ {0} /\ MaxSessions \in Nat \ {0}

NoRoutes == 0
Free == 0       \* nobody holds mockMu

VARIABLES
  (* the view *)
  session,         \* the window the view is in
  routes,          \* the routes shown
  dirty,
  busy,            \* the operation under way, or ""
  routeRevision,
  snapshotRequest,
  generation,      \* silentRefreshGeneration
  flight,          \* silentRefreshInFlight, or 0
  server,          \* the snapshot shown
  polling,         \* pollingTimer is set
  buttons,         \* of start and stop, those enabled in the document
  (* between *)
  calls,           \* calls sent whose answer has not been looked at
  (* the bridge and its servers *)
  mockMu,          \* the request of the call that holds it, or Free
  servers,         \* Server objects made; the last one is the bridge's
  tables,          \* bound: route tables made
  now,             \* history: changes of what the bridge would answer
  readAt,          \* history: the instant of the last routes the view took, or 0
  foreignAt        \* history: the last instant at which a call of an earlier
                   \* window replaced the routes

viewVars == <<session, routes, dirty, busy, routeRevision, snapshotRequest,
              generation, flight, server, polling, buttons>>
hostVars == <<mockMu, servers, now>>
history == <<readAt, foreignAt>>
vars == <<viewVars, calls, hostVars, tables, history>>

Operations == {"start", "stop", "apply", "import", "clear"}
Unread == [running |-> FALSE, hits |-> FALSE, routes |-> NoRoutes, at |-> 0]

-----------------------------------------------------------------------------
(* The view *)

\* pageMarkup: the button of the controls that a render leaves enabled.
Rendered(shown, unapplied, operation) ==
  IF operation # "" THEN {}
  ELSE IF shown.running THEN {"stop"}
  ELSE IF unapplied THEN {} ELSE {"start"}

\* A locale change, the workspace becoming active, a selected route, a deferred
\* render: the document follows the state again.
Render ==
  /\ buttons' = Rendered(server, dirty, busy)
  /\ UNCHANGED <<session, routes, dirty, busy, routeRevision, snapshotRequest,
                 generation, flight, server, polling, calls, hostVars, tables, history>>

\* The call a view sends; it names the counters its answer is compared with.
Call(kind, table) ==
  [kind |-> kind, session |-> session, request |-> snapshotRequest + 1,
   revision |-> routeRevision, generation |-> generation + 1,
   routes |-> table, at |-> "sent", failed |-> FALSE, snapshot |-> Unread]

Send(kind, table) ==
  /\ snapshotRequest < MaxRequests
  /\ calls' = calls \cup {Call(kind, table)}
  /\ snapshotRequest' = snapshotRequest + 1
  /\ generation' = generation + 1

Edited(table, unrendered) ==
  /\ routes' = table
  /\ routeRevision' = routeRevision + 1
  /\ dirty' = TRUE
  /\ buttons' = IF unrendered THEN buttons ELSE Rendered(server, TRUE, busy)
  /\ UNCHANGED <<session, busy, snapshotRequest, generation, flight, server,
                 polling, calls, hostVars, history>>

\* addRoute, updateSelected and useActiveResponse, whose controls an operation
\* disables.  Text areas render nothing while they are typed in.
Edit(unrendered) ==
  /\ busy = ""
  /\ unrendered => routes # NoRoutes
  /\ tables < MaxTables
  /\ tables' = tables + 1
  /\ Edited(tables + 1, unrendered)

\* deleteRoute, once confirmed in its modal dialog, of the only route.
DeleteLast ==
  /\ busy = "" /\ routes # NoRoutes
  /\ Edited(NoRoutes, FALSE)
  /\ UNCHANGED tables

\* runOperation: what is shown is not polled for meanwhile.
Operate(kind, table) ==
  /\ busy = ""
  /\ Send(kind, table)
  /\ busy' = kind
  /\ flight' = 0
  /\ polling' = FALSE
  /\ buttons' = {}
  /\ UNCHANGED <<session, routes, dirty, routeRevision, server, hostVars, tables, history>>

Start == "start" \in buttons /\ Operate("start", NoRoutes)
Stop == "stop" \in buttons /\ Operate("stop", NoRoutes)
ClearHits == server.hits /\ Operate("clear", NoRoutes)

\* applyRoutes.  The button is shown with a route to edit only.
ApplyRoutes == dirty /\ routes # NoRoutes /\ Operate("apply", routes)

\* importOpenAPI, confirmed when there are edits.
ImportOpenAPI == Operate("import", NoRoutes)

\* The timer of syncPolling: refresh(false, true).
Poll ==
  /\ polling /\ busy = "" /\ flight = 0
  /\ Send("poll", NoRoutes)
  /\ flight' = generation + 1
  /\ UNCHANGED <<session, routes, dirty, busy, routeRevision, server, polling,
                 buttons, hostVars, tables, history>>

\* readSilentSnapshot gives up after 5 s; the call goes on.
PollTimesOut ==
  /\ \E c \in calls : c.kind = "poll" /\ c.generation = flight
  /\ flight' = 0
  /\ UNCHANGED <<session, routes, dirty, busy, routeRevision, snapshotRequest,
                 generation, server, polling, buttons, calls, hostVars, tables, history>>

\* Mutant: whatever the window's own calls return is shown.
IsOfThisWindow(c) == c.session = session

\* refresh and acceptSnapshot: the answer is still the one waited for.
IsCurrent(c) ==
  /\ c.session = session
  /\ c.request = snapshotRequest
  /\ c.kind = "poll" => c.generation = flight

\* acceptSnapshot: the calls that bring routes, unless they were edited since.
BringsRoutes(c) ==
  c.kind \in {"refresh", "apply", "import"} /\ c.revision = routeRevision

\* An answer reaches the view; a failed one leaves what is shown.  A poll is not
\* rendered while an editor has the focus.
Answer(c) ==
  /\ c.at = "answered"
  /\ calls' = calls \ {c}
  /\ IF ~IsCurrent(c)
     THEN UNCHANGED <<viewVars, readAt>>
     ELSE LET taken == ~c.failed
              brings == taken /\ BringsRoutes(c)
          IN  /\ server' = IF taken THEN c.snapshot ELSE server
              /\ routes' = IF brings THEN c.snapshot.routes ELSE routes
              /\ dirty' = (dirty /\ ~brings)
              /\ readAt' = IF brings THEN c.snapshot.at ELSE readAt
              /\ IF c.kind = "poll"
                 THEN /\ flight' = 0
                      /\ UNCHANGED busy
                      /\ polling' = IF taken THEN server'.running ELSE polling
                      /\ \/ UNCHANGED buttons
                         \/ taken /\ buttons' = Rendered(server', dirty', busy)
                 ELSE /\ busy' = ""
                      /\ UNCHANGED flight
                      /\ polling' = (server'.running /\ (taken \/ c.kind # "refresh"))
                      /\ buttons' = Rendered(server', dirty', "")
              /\ UNCHANGED <<session, routeRevision, snapshotRequest, generation>>
  /\ UNCHANGED <<hostVars, tables, foreignAt>>

\* The window is closed and opened again: mountMockServerLab starts over with
\* refresh(true), and nobody waits for the calls that are under way.
Reopen ==
  /\ session < MaxSessions
  /\ session' = session + 1
  /\ snapshotRequest < MaxRequests
  /\ calls' = calls \cup {[Call("refresh", NoRoutes) EXCEPT
                             !.session = session + 1, !.revision = 0]}
  /\ snapshotRequest' = snapshotRequest + 1
  /\ routes' = NoRoutes /\ dirty' = FALSE /\ busy' = "refresh"
  /\ routeRevision' = 0 /\ generation' = generation + 1 /\ flight' = 0
  /\ server' = Unread /\ polling' = FALSE /\ buttons' = {}
  /\ readAt' = 0
  /\ UNCHANGED <<hostVars, tables, foreignAt>>

-----------------------------------------------------------------------------
(* The servers *)

\* Mutant: the new server starts without the routes of the last one.
EmptyServer(table) ==
  [routes |-> NoRoutes, hits |-> FALSE, http |-> FALSE, stopping |-> FALSE,
   shut |-> FALSE, listening |-> FALSE, serve |-> "none", closes |-> 0]

\* New and ReplaceRoutes.  http stands for httpServer and listener, shut for the
\* http.Server having been shut down, listening for the port being bound,
\* closes counts how often stopDone was closed.
NewServer(table) ==
  [routes |-> table, hits |-> FALSE, http |-> FALSE, stopping |-> FALSE,
   shut |-> FALSE, listening |-> FALSE, serve |-> "none", closes |-> 0]

Current == servers[Len(servers)]

\* Status, Routes and Hits, as mockSnapshot puts them together.
Running(s) == s.http /\ ~s.stopping
Snapshot(s, instant) ==
  [running |-> Running(s), hits |-> s.hits, routes |-> s.routes, at |-> instant]

\* Start of the Server: the port is bound and a goroutine will serve.
Started(s) == [s EXCEPT !.http = TRUE, !.listening = TRUE, !.serve = "starting"]

\* Fields cleared at the end of Stop and by a serve that failed.
Cleared(s) == [s EXCEPT !.http = FALSE, !.stopping = FALSE, !.closes = @ + 1]

\* Mutant: Stop clears the fields whoever cleared them before.
SettlesAnyway(s) == TRUE

\* Stop finds its http.Server still there.
StillOwned(s) == s.http

Changed(list) == servers' = list /\ now' = now + 1
SetCurrent(s) == Changed([servers EXCEPT ![Len(servers)] = s])

\* The bridge answers; an answer the view will not look at is gone at once.
Answered(c, failed, s, instant) ==
  calls' = (calls \ {c}) \cup
    {d \in {[c EXCEPT !.at = "answered", !.failed = failed, !.routes = NoRoutes,
                     !.snapshot = IF failed THEN Unread ELSE Snapshot(s, instant)]} :
       IsCurrent(d) \/ d.kind = "shutdown"}

\* Routes changed for a window that is gone are not those the view has read.
Overwrites(c) ==
  /\ foreignAt' = IF c.session = session THEN foreignAt ELSE now + 1
  /\ UNCHANGED readAt

-----------------------------------------------------------------------------
(* The bridge *)

\* A call that waits for mockMu is let in and, but for StopMockServer, runs
\* while it holds it.
Enters(c, kinds) == c \in calls /\ c.at = "sent" /\ c.kind \in kinds /\ mockMu = Free

\* A call ends before it changes anything: the runtime refuses it, the routes are
\* invalid, the port cannot be bound, the import dialog is dismissed.
Refuse(c) ==
  /\ c.at = "sent"
  /\ Answered(c, TRUE, Current, now)
  /\ UNCHANGED <<viewVars, hostVars, tables, history>>

\* GetMockServer
Get(c) ==
  /\ Enters(c, {"refresh", "poll"})
  /\ Answered(c, FALSE, Current, now)
  /\ UNCHANGED <<viewVars, hostVars, tables, history>>

\* UpdateMockRoutes
UpdateMockRoutes(c) ==
  LET s == [Current EXCEPT !.routes = c.routes]
  IN  /\ Enters(c, {"apply"})
      /\ SetCurrent(s)
      /\ Answered(c, FALSE, s, now + 1)
      /\ Overwrites(c)
      /\ UNCHANGED <<viewVars, mockMu, tables>>

\* ImportMockOpenAPI, the file chosen and read.
ImportMockOpenAPI(c) ==
  LET s == [Current EXCEPT !.routes = tables + 1]
  IN  /\ Enters(c, {"import"})
      /\ tables < MaxTables
      /\ tables' = tables + 1
      /\ SetCurrent(s)
      /\ Answered(c, FALSE, s, now + 1)
      /\ Overwrites(c)
      /\ UNCHANGED <<viewVars, mockMu>>

ClearMockHits(c) ==
  LET s == [Current EXCEPT !.hits = FALSE]
  IN  /\ Enters(c, {"clear"})
      /\ SetCurrent(s)
      /\ Answered(c, FALSE, s, now + 1)
      /\ UNCHANGED <<viewVars, mockMu, tables, history>>

MayStart(s) == ~Running(s)

\* StartMockServer: a new Server with the routes of the last one, or a failure
\* when that one runs.
StartMockServer(c) ==
  LET s == Started(NewServer(Current.routes))
  IN  /\ Enters(c, {"start"})
      /\ IF MayStart(Current)
         THEN /\ Len(servers) < MaxServers
              /\ Changed(Append(servers, s))
              /\ Answered(c, FALSE, s, now + 1)
         ELSE /\ Answered(c, TRUE, Current, now)
              /\ UNCHANGED <<servers, now>>
      /\ UNCHANGED <<viewVars, mockMu, tables, history>>

\* StopMockServer, and Shutdown of the bridge: Stop up to its call of Shutdown,
\* which closes the listener if Serve has registered it.  Only the holder of
\* mockMu stops, so nobody waits for the stop of another.
Shut(s) ==
  [s EXCEPT !.stopping = TRUE, !.shut = TRUE,
            !.listening = @ /\ s.serve # "serving"]

StopMockServer(c) ==
  /\ Enters(c, {"stop", "shutdown"})
  /\ IF Current.http
     THEN /\ mockMu' = c.request
          /\ calls' = (calls \ {c}) \cup {[c EXCEPT !.at = "stopping"]}
          /\ SetCurrent(Shut(Current))
     ELSE Answered(c, FALSE, Current, now) /\ UNCHANGED hostVars
  /\ UNCHANGED <<viewVars, tables, history>>

\* Shutdown returns, after the requests under way or, failed, after 3 s and with
\* Close; the rest of Stop.  A server that never served has no request under way.
StopEnds(c, failed) ==
  LET s == IF StillOwned(Current) THEN Cleared(Current) ELSE Current
  IN  /\ c \in calls /\ c.at = "stopping"
      /\ failed => Current.serve # "starting"
      /\ SetCurrent(s)
      /\ Answered(c, failed, s, now + 1)
      /\ mockMu' = Free
      /\ UNCHANGED <<viewVars, tables, history>>

\* Shutdown of the bridge, once, by a call of nobody's window.
ShutDown ==
  /\ \A c \in calls : c.kind # "shutdown"
  /\ snapshotRequest < MaxRequests
  /\ calls' = calls \cup {[Call("shutdown", NoRoutes) EXCEPT !.session = 0, !.request = -1]}
  /\ UNCHANGED <<viewVars, hostVars, tables, history>>

-----------------------------------------------------------------------------
(* The serving goroutines of server.go and net/http *)

SetServer(n, s, change) ==
  /\ servers' = [servers EXCEPT ![n] = s]
  /\ now' = IF change THEN now + 1 ELSE now
  /\ UNCHANGED <<viewVars, calls, mockMu, tables, history>>

\* http.Server.Serve registers the listener, or finds the server shut down and
\* closes it.
ServeStarts(n) ==
  LET s == servers[n]
  IN  /\ s.serve = "starting"
      /\ SetServer(n, IF s.shut THEN [s EXCEPT !.serve = "done", !.listening = FALSE]
                      ELSE [s EXCEPT !.serve = "serving"], FALSE)

\* Accept fails: because of Shutdown, or on its own, and Serve closes the listener.
ServeReturns(n) ==
  LET s == servers[n]
  IN  /\ s.serve = "serving"
      /\ SetServer(n, [s EXCEPT !.listening = FALSE,
                                !.serve = IF s.shut THEN "done" ELSE "failed"], FALSE)

\* serve reports the error unless the server was stopped meanwhile.
ServeFails(n) ==
  LET s == [servers[n] EXCEPT !.serve = "done"]
  IN  /\ servers[n].serve = "failed"
      /\ SetServer(n, IF s.http THEN Cleared(s) ELSE s, s.http)

\* ServeHTTP records a hit.
Hit ==
  /\ Current.serve = "serving" /\ ~Current.hits
  /\ SetServer(Len(servers), [Current EXCEPT !.hits = TRUE], TRUE)

-----------------------------------------------------------------------------

Init ==
  /\ session = 1 /\ routes = NoRoutes /\ dirty = FALSE /\ busy = "refresh"
  /\ routeRevision = 0 /\ snapshotRequest = 1 /\ generation = 1 /\ flight = 0
  /\ server = Unread /\ polling = FALSE /\ buttons = {}
  /\ calls = {[kind |-> "refresh", session |-> 1, request |-> 1, revision |-> 0,
               generation |-> 1, routes |-> NoRoutes, at |-> "sent",
               failed |-> FALSE, snapshot |-> Unread]}
  /\ mockMu = Free /\ servers = <<NewServer(NoRoutes)>> /\ now = 1
  /\ tables = 0 /\ readAt = 0 /\ foreignAt = 1

ViewSteps ==
  \/ Render \/ Reopen \/ DeleteLast \/ \E unrendered \in BOOLEAN : Edit(unrendered)
  \/ Start \/ Stop \/ ClearHits \/ ApplyRoutes \/ ImportOpenAPI
  \/ Poll \/ PollTimesOut
  \/ \E c \in calls : Answer(c)

BridgeSteps ==
  \/ ShutDown
  \/ \E c \in calls :
       \/ Refuse(c) \/ Get(c) \/ UpdateMockRoutes(c) \/ ImportMockOpenAPI(c)
       \/ ClearMockHits(c) \/ StartMockServer(c) \/ StopMockServer(c)
       \/ \E failed \in BOOLEAN : StopEnds(c, failed)

ServerSteps ==
  \/ Hit
  \/ \E n \in 1..Len(servers) : ServeStarts(n) \/ ServeReturns(n) \/ ServeFails(n)

Next == ViewSteps \/ BridgeSteps \/ ServerSteps

Spec == Init /\ [][Next]_vars

-----------------------------------------------------------------------------
(* Properties *)

\* Every variable keeps the values the code gives it.
MockTypeOK ==
  /\ busy \in {"", "refresh"} \cup Operations
  /\ routes \in 0..tables /\ dirty \in BOOLEAN /\ polling \in BOOLEAN
  /\ buttons \in {{}, {"start"}, {"stop"}}
  /\ flight \in 0..generation
  /\ (busy # "" /\ busy # "refresh") => (flight = 0 /\ ~polling)
  /\ \A c \in calls : c.at \in {"sent", "stopping", "answered"}
  /\ mockMu = Free \/ \E c \in calls : c.request = mockMu /\ c.at = "stopping"

\* Between operations, routes that are not marked as having unapplied changes are
\* those the bridge serves or would serve, whatever failed, was refused or came
\* late before.  Excepted: the routes could not be read yet, or a call of a
\* window closed since has replaced them.
\* (acceptSnapshot and runOperation of mockServer.ts, StartMockServer)
CleanIsApplied ==
  MockTypeOK /\ (busy = "" /\ ~dirty /\ readAt >= foreignAt => routes = Current.routes)

\* What is shown of the server is never replaced by an older snapshot, although
\* polls run, time out and answer next to the operations of the user.
\* (snapshotRequest and silentRefreshGeneration of mockServer.ts)
SnapshotsInOrder ==
  [][session' = session => server'.at >= server.at]_vars

\* A bound port belongs to the bridge's current server, where the user can stop
\* it, or to one that was stopped before its goroutine served and that the
\* goroutine closes; and stopDone is closed once, by Stop or by serve.
\* (StartMockServer; Stop and serve of server.go)
ListenersOwned ==
  \A n \in 1..Len(servers) :
    LET s == servers[n]
    IN  /\ s.listening => \/ n = Len(servers) /\ s.http
                          \/ s.shut /\ s.serve = "starting"
        /\ s.closes <= 1
=============================================================================
