--------------------------- MODULE MockServerProofs ---------------------------
(***************************************************************************)
(* Theorems about MockServer, for every number of calls, windows, servers  *)
(* and route tables: no bound port is left without an owner, and what is   *)
(* shown of the server is never replaced by an older snapshot.             *)
(***************************************************************************)
EXTENDS MockServer, SequenceTheorems, TLAPS

Kinds == Operations \cup {"refresh", "poll", "shutdown"}
Snapshots == [running : BOOLEAN, hits : BOOLEAN, routes : Nat, at : Nat]
CallRecords ==
  [kind : Kinds, session : Nat, request : Int \ {0}, revision : Nat,
   generation : Nat \ {0}, routes : Nat, at : {"sent", "stopping", "answered"},
   failed : BOOLEAN, snapshot : Snapshots]
ServerRecords ==
  [routes : Nat, hits : BOOLEAN, http : BOOLEAN, stopping : BOOLEAN,
   shut : BOOLEAN, listening : BOOLEAN,
   serve : {"none", "starting", "serving", "failed", "done"}, closes : Nat]

TypeInv ==
  /\ session \in Nat /\ routes \in Nat /\ routeRevision \in Nat
  /\ snapshotRequest \in Nat \ {0} /\ generation \in Nat
  /\ server \in Snapshots
  /\ calls \subseteq CallRecords
  /\ mockMu \in Int
  /\ servers \in Seq(ServerRecords) /\ servers # <<>>
  /\ tables \in Nat /\ now \in Nat

\* A request number names one call, and no call is of a later window.
CallInv ==
  /\ \A c \in calls : /\ c.session <= session
                      /\ c.request <= snapshotRequest
                      /\ c.request < 0 => c.kind = "shutdown"
  /\ \A c, d \in calls : c.request = d.request => c = d

\* The call that stops a server holds mockMu, and it is the current server.
StopInv ==
  /\ \A c \in calls : c.at = "stopping" => mockMu # Free /\ Current.shut
  /\ \A c, d \in calls : c.at = "stopping" /\ d.at = "stopping" => c = d

\* What a server may be, the only one that is not idle being the last one.
Sound(s, last, held) ==
  /\ s.http => last /\ s.closes = 0
  /\ s.closes <= 1
  /\ s.stopping => s.http /\ held
  /\ s.listening => /\ s.serve \in {"starting", "serving"}
                    /\ s.http \/ s.shut
                    /\ s.shut => s.serve = "starting"

ServerInv == \A n \in 1..Len(servers) : Sound(servers[n], n = Len(servers), mockMu # Free)

\* An answer that will be looked at is no older than what is shown.
OrderInv ==
  /\ server.at <= now
  /\ \A c \in calls :
       c.at = "answered" /\ ~c.failed /\ IsCurrent(c)
         => server.at <= c.snapshot.at /\ c.snapshot.at <= now

MInv == TypeInv /\ CallInv /\ StopInv /\ ServerInv /\ OrderInv

-----------------------------------------------------------------------------
(* Records and sequences *)

LEMMA UnreadType == Unread \in Snapshots
BY DEF Unread, Snapshots, NoRoutes

LEMMA SnapshotType ==
  ASSUME NEW s \in ServerRecords, NEW instant \in Nat
  PROVE  Snapshot(s, instant) \in Snapshots /\ Snapshot(s, instant).at = instant
BY DEF ServerRecords, Snapshots, Snapshot, Running

LEMMA NewServerType ==
  ASSUME NEW table \in Nat
  PROVE  NewServer(table) \in ServerRecords
BY DEF NewServer, ServerRecords

LEMMA ClearedType ==
  ASSUME NEW s \in ServerRecords
  PROVE  /\ Cleared(s) \in ServerRecords /\ ~Cleared(s).http /\ ~Cleared(s).stopping
         /\ Cleared(s).shut = s.shut /\ Cleared(s).listening = s.listening
         /\ Cleared(s).serve = s.serve /\ Cleared(s).closes = s.closes + 1
<1>1. s.closes \in Nat /\ s.closes + 1 \in Nat
  BY DEF ServerRecords
<1>2. Cleared(s) \in ServerRecords
  BY <1>1 DEF Cleared, ServerRecords
<1> QED
  BY <1>2 DEF Cleared, ServerRecords

LEMMA CurrentType ==
  ASSUME TypeInv
  PROVE  /\ Len(servers) \in Nat \ {0}
         /\ Current = servers[Len(servers)]
         /\ Current \in ServerRecords
         /\ \A n \in 1..Len(servers) : servers[n] \in ServerRecords
<1>1. servers \in Seq(ServerRecords) /\ servers # <<>>
  BY DEF TypeInv
<1> QED
  BY <1>1 DEF Current

\* One server changes.
LEMMA ServerChanges ==
  ASSUME TypeInv, NEW n \in 1..Len(servers), NEW s \in ServerRecords,
         servers' = [servers EXCEPT ![n] = s]
  PROVE  /\ servers' \in Seq(ServerRecords) /\ servers' # <<>>
         /\ Len(servers') = Len(servers)
         /\ servers'[n] = s
         /\ \A m \in 1..Len(servers) : m # n => servers'[m] = servers[m]
         /\ (Current)' = IF n = Len(servers) THEN s ELSE Current
<1>1. servers \in Seq(ServerRecords) /\ servers # <<>> /\ Len(servers) \in Nat \ {0}
  BY CurrentType DEF TypeInv
<1>2. /\ servers' \in Seq(ServerRecords)
      /\ Len(servers') = Len(servers)
      /\ servers'[n] = s
      /\ \A m \in 1..Len(servers) : m # n => servers'[m] = servers[m]
  BY <1>1
<1>3. servers' # <<>>
  BY <1>1, <1>2
<1>4. (Current)' = servers'[Len(servers)]
  BY <1>2 DEF Current
<1>5. Len(servers) # n => servers'[Len(servers)] = Current
  <2>1. Len(servers) \in 1..Len(servers)
    BY <1>1
  <2> QED
    BY <1>2, <2>1 DEF Current
<1>6. (Current)' = IF n = Len(servers) THEN s ELSE Current
  BY <1>2, <1>4, <1>5
<1> QED
  BY <1>2, <1>3, <1>6

\* A server that changes leaves the others sound when it is sound itself and
\* either the lock is not let go or nobody else is stopping.
LEMMA StaysSound ==
  ASSUME TypeInv, ServerInv, NEW n \in 1..Len(servers), NEW s \in ServerRecords,
         servers' = [servers EXCEPT ![n] = s],
         Sound(s, n = Len(servers), mockMu' # Free),
         n = Len(servers) \/ mockMu' = mockMu
  PROVE  ServerInv'
<1>1. /\ Len(servers') = Len(servers) /\ servers'[n] = s
      /\ \A m \in 1..Len(servers) : m # n => servers'[m] = servers[m]
      /\ Len(servers) \in Nat
  BY ServerChanges, CurrentType
<1>2. ASSUME NEW m \in 1..Len(servers), m # n
      PROVE  Sound(servers'[m], m = Len(servers'), mockMu' # Free)
  <2>1. Sound(servers[m], m = Len(servers), mockMu # Free) /\ servers'[m] = servers[m]
    BY <1>1, <1>2 DEF ServerInv
  <2>2. CASE mockMu' = mockMu
    BY <2>1, <2>2, <1>1
  <2>3. CASE n = Len(servers)
    <3>1. m # Len(servers) /\ m # Len(servers')
      BY <2>3, <1>1, <1>2
    <3> QED
      BY <2>1, <3>1 DEF Sound
  <2> QED
    BY <2>2, <2>3
<1>3. Sound(servers'[n], n = Len(servers'), mockMu' # Free)
  BY <1>1
<1>4. \A m \in 1..Len(servers') : Sound(servers'[m], m = Len(servers'), mockMu' # Free)
  BY <1>1, <1>2, <1>3
<1> QED
  BY <1>4 DEF ServerInv

-----------------------------------------------------------------------------
(* Calls *)

\* A call is sent: it is the newest, and makes the answers of others late.
LEMMA Sends ==
  ASSUME MInv, NEW c \in CallRecords, calls' = calls \cup {c},
         c.at = "sent", c.request = snapshotRequest + 1,
         c.session <= session', session <= session',
         session' \in Nat, snapshotRequest' = snapshotRequest + 1,
         server' = server \/ server' = Unread, UNCHANGED hostVars
  PROVE  CallInv' /\ StopInv' /\ ServerInv' /\ OrderInv'
<1>1. /\ calls \subseteq CallRecords /\ snapshotRequest \in Nat \ {0}
      /\ session \in Nat /\ server \in Snapshots /\ now \in Nat
  BY DEF MInv, TypeInv
<1>2. \A d \in calls : /\ d.request \in Int /\ d.request < c.request
                       /\ d.session \in Nat /\ d.session <= session'
                       /\ d.request < 0 => d.kind = "shutdown"
  BY <1>1 DEF MInv, CallInv, CallRecords
<1>3. CallInv'
  BY <1>1, <1>2 DEF MInv, CallInv
<1>4. StopInv'
  BY DEF MInv, StopInv, hostVars, Current
<1>5. ServerInv'
  BY DEF MInv, ServerInv, hostVars
<1>6. server'.at \in Nat /\ server'.at <= now'
  BY <1>1 DEF MInv, OrderInv, Snapshots, Unread, hostVars
<1>7. \A d \in calls' : d.at = "answered" => ~IsCurrent(d)'
  BY <1>1, <1>2 DEF IsCurrent
<1> QED
  BY <1>3, <1>4, <1>5, <1>6, <1>7 DEF OrderInv

\* The record of a call that is sent.
LEMMA CallType ==
  ASSUME TypeInv, NEW kind \in Kinds, NEW table \in Nat
  PROVE  /\ Call(kind, table) \in CallRecords
         /\ Call(kind, table).session = session
         /\ Call(kind, table).request = snapshotRequest + 1
         /\ Call(kind, table).at = "sent"
BY UnreadType DEF Call, CallRecords, TypeInv

\* The bridge answers, from the state it is in then.
LEMMA Answers ==
  ASSUME MInv, NEW c \in calls, NEW failed \in BOOLEAN, NEW s \in ServerRecords,
         now' \in {now, now + 1},
         Answered(c, failed, s, now'), UNCHANGED viewVars
  PROVE  /\ calls' \subseteq CallRecords /\ CallInv' /\ OrderInv'
         /\ \A d \in calls' : d.at = "stopping" => d \in calls /\ d # c
<1> DEFINE e == [c EXCEPT !.at = "answered", !.failed = failed, !.routes = NoRoutes,
                   !.snapshot = IF failed THEN Unread ELSE Snapshot(s, now')]
<1>1. /\ calls \subseteq CallRecords /\ c \in CallRecords /\ now \in Nat /\ now' \in Nat
      /\ now <= now' /\ server \in Snapshots
  BY DEF MInv, TypeInv
<1>2. Snapshot(s, now') \in Snapshots /\ Snapshot(s, now').at = now'
  BY <1>1, SnapshotType
<1>3. /\ e \in CallRecords /\ e.at = "answered" /\ e.failed = failed
      /\ e.session = c.session /\ e.request = c.request /\ e.kind = c.kind
      /\ ~failed => e.snapshot.at = now'
  BY <1>1, <1>2, UnreadType DEF CallRecords, NoRoutes
<1>4. calls' \subseteq (calls \ {c}) \cup {e}
  BY DEF Answered
<1>5. calls' \subseteq CallRecords
  BY <1>1, <1>3, <1>4
<1> HIDE DEF e
<1>6. /\ \A d \in calls : /\ d.session <= session /\ d.request <= snapshotRequest
                          /\ d.request < 0 => d.kind = "shutdown"
      /\ \A d, f \in calls : d.request = f.request => d = f
  BY DEF MInv, CallInv
<1>7. \A d \in calls' : /\ d.session <= session' /\ d.request <= snapshotRequest'
                        /\ d.request < 0 => d.kind = "shutdown"
  BY <1>3, <1>4, <1>6 DEF viewVars
<1>8. \A d, f \in calls' : d.request = f.request => d = f
  BY <1>3, <1>4, <1>6
<1>9. CallInv'
  BY <1>7, <1>8 DEF CallInv
<1>10. OrderInv'
  <2>1. server'.at \in Nat /\ server'.at <= now /\ server' = server
    BY <1>1 DEF MInv, OrderInv, Snapshots, viewVars
  <2>2. ASSUME NEW d \in calls', d.at = "answered", ~d.failed, IsCurrent(d)'
        PROVE  server'.at <= d.snapshot.at /\ d.snapshot.at <= now'
    <3>1. CASE d = e
      BY <3>1, <2>1, <2>2, <1>1, <1>3
    <3>2. CASE d \in calls
      <4>1. IsCurrent(d)
        BY <2>2 DEF IsCurrent, viewVars
      <4>2. d.snapshot.at \in Nat
        BY <3>2, <1>1 DEF CallRecords, Snapshots
      <4> QED
        BY <4>1, <4>2, <3>2, <2>1, <2>2, <1>1 DEF MInv, OrderInv
    <3> QED
      BY <3>1, <3>2, <1>4
  <2> QED
    BY <2>1, <2>2, <1>1 DEF OrderInv
<1>11. \A d \in calls' : d.at = "stopping" => d \in calls /\ d # c
  BY <1>3, <1>4
<1> QED
  BY <1>5, <1>9, <1>10, <1>11

\* Calls of others go on as they were.
LEMMA StopGoesOn ==
  ASSUME MInv, mockMu' = mockMu, Current.shut => (Current)'.shut,
         \A d \in calls' : d.at = "stopping" => d \in calls
  PROVE  StopInv'
BY DEF MInv, StopInv

-----------------------------------------------------------------------------
(* The steps *)

LEMMA InitMInv == Init => MInv
<1> SUFFICES ASSUME Init PROVE MInv
  OBVIOUS
<1>1. Unread \in Snapshots /\ NewServer(NoRoutes) \in ServerRecords
  BY UnreadType, NewServerType DEF NoRoutes
<1>2. TypeInv
  BY <1>1 DEF Init, TypeInv, CallRecords, Kinds, NoRoutes, Free
<1>3. CallInv /\ StopInv
  BY DEF Init, CallInv, StopInv
<1>4. ServerInv
  BY DEF Init, ServerInv, Sound, NewServer
<1>5. OrderInv
  BY DEF Init, OrderInv, Unread
<1> QED
  BY <1>2, <1>3, <1>4, <1>5 DEF MInv

\* The view edits, renders or gives a poll up: calls and servers stay.
LEMMA ViewStays ==
  ASSUME MInv, Render \/ DeleteLast \/ PollTimesOut \/ \E b \in BOOLEAN : Edit(b)
  PROVE  MInv'
<1>1. UNCHANGED <<session, snapshotRequest, generation, server, calls, hostVars>>
  BY DEF Render, DeleteLast, PollTimesOut, Edit, Edited
<1>2. TypeInv'
  <2>1. /\ routes' \in {routes, NoRoutes, tables + 1}
        /\ routeRevision' \in {routeRevision, routeRevision + 1}
        /\ tables' \in {tables, tables + 1}
    <3>1. CASE Render \/ PollTimesOut
      BY <3>1 DEF Render, PollTimesOut
    <3>2. CASE DeleteLast
      BY <3>2 DEF DeleteLast, Edited
    <3>3. CASE \E b \in BOOLEAN : Edit(b)
      BY <3>3 DEF Edit, Edited
    <3> QED
      BY <3>1, <3>2, <3>3
  <2> QED
    BY <1>1, <2>1 DEF MInv, TypeInv, hostVars, NoRoutes
<1>3. CallInv' /\ StopInv' /\ ServerInv'
  BY <1>1 DEF MInv, CallInv, StopInv, ServerInv, hostVars, Current
<1>4. \A c \in calls : IsCurrent(c)' => IsCurrent(c)
  <2>1. flight' = flight \/ flight' = 0
    BY DEF Render, DeleteLast, PollTimesOut, Edit, Edited
  <2>2. \A c \in calls : c.generation # 0
    BY DEF MInv, TypeInv, CallRecords
  <2> QED
    BY <1>1, <2>1, <2>2 DEF IsCurrent
<1>5. OrderInv'
  BY <1>1, <1>4 DEF MInv, OrderInv, hostVars
<1> QED
  BY <1>2, <1>3, <1>5 DEF MInv

\* The view sends a call.
LEMMA ViewSends ==
  ASSUME MInv, Poll \/ \E kind \in Operations, table \in Nat : Operate(kind, table)
  PROVE  MInv'
<1>1. PICK kind \in Kinds, table \in Nat : Send(kind, table)
  BY DEF Poll, Operate, Kinds, NoRoutes
<1>2. UNCHANGED <<session, routes, routeRevision, server, hostVars, tables>>
  BY DEF Poll, Operate
<1>3. TypeInv
  BY DEF MInv
<1>4. Call(kind, table) \in CallRecords
  BY <1>3, CallType
<1>5. TypeInv'
  BY <1>1, <1>2, <1>3, <1>4 DEF TypeInv, Send, hostVars
<1>6. CallInv' /\ StopInv' /\ ServerInv' /\ OrderInv'
  BY <1>1, <1>2, <1>3, <1>4, CallType, Sends DEF Send, TypeInv
<1> QED
  BY <1>5, <1>6 DEF MInv

\* The call of a window that has just been opened.
LEMMA FirstCallType ==
  ASSUME NEW d \in CallRecords, NEW n \in Nat
  PROVE  LET c == [d EXCEPT !.session = n, !.revision = 0]
         IN  /\ c \in CallRecords /\ c.session = n
             /\ c.request = d.request /\ c.at = d.at
BY DEF CallRecords

LEMMA ReopenStep ==
  ASSUME MInv, Reopen
  PROVE  MInv'
<1> DEFINE d == Call("refresh", NoRoutes)
           c == [d EXCEPT !.session = session + 1, !.revision = 0]
<1>1. TypeInv
  BY DEF MInv
<1>2. d \in CallRecords /\ d.request = snapshotRequest + 1 /\ d.at = "sent"
  BY <1>1, CallType DEF Kinds, NoRoutes
<1>3. calls' = calls \cup {c}
  BY DEF Reopen
<1>4. /\ c \in CallRecords /\ c.at = "sent" /\ c.request = snapshotRequest + 1
      /\ c.session = session + 1
  <2>1. session + 1 \in Nat
    BY <1>1 DEF TypeInv
  <2> HIDE DEF d
  <2> QED
    BY <1>2, <2>1, FirstCallType
<1> HIDE DEF c
<1>5. TypeInv'
  BY <1>1, <1>3, <1>4, UnreadType DEF TypeInv, Reopen, NoRoutes, hostVars
<1>6. CallInv' /\ StopInv' /\ ServerInv' /\ OrderInv'
  BY <1>1, <1>3, <1>4, Sends DEF Reopen, TypeInv
<1> QED
  BY <1>5, <1>6 DEF MInv

\* The call that stands for the shutdown of the bridge.
LEMMA ShutdownCallType ==
  ASSUME NEW d \in CallRecords
  PROVE  LET c == [d EXCEPT !.session = 0, !.request = -1]
         IN  /\ c \in CallRecords /\ c.session = 0 /\ c.request = -1
             /\ c.at = d.at /\ c.kind = d.kind
<1>1. -1 \in Int \ {0} /\ 0 \in Nat
  OBVIOUS
<1> QED
  BY <1>1 DEF CallRecords

\* An answer is looked at.  No other one is current then.
LEMMA AnswerStep ==
  ASSUME MInv, NEW c \in calls, Answer(c)
  PROVE  MInv' /\ (session' = session => server'.at >= server.at)
<1>1. /\ calls' = calls \ {c} /\ c.at = "answered" /\ c \in CallRecords
      /\ UNCHANGED <<session, routeRevision, snapshotRequest, generation, hostVars, tables>>
  BY DEF Answer, MInv, TypeInv, viewVars
<1>2. \/ ~IsCurrent(c) /\ UNCHANGED <<viewVars, readAt>>
      \/ /\ IsCurrent(c)
         /\ server' = IF c.failed THEN server ELSE c.snapshot
         /\ routes' = c.snapshot.routes \/ routes' = routes
  BY DEF Answer
<1>3. TypeInv'
  BY <1>1, <1>2 DEF MInv, TypeInv, viewVars, hostVars, CallRecords, Snapshots
<1>4. CallInv' /\ StopInv' /\ ServerInv'
  BY <1>1 DEF MInv, CallInv, StopInv, ServerInv, hostVars, Current
<1>5. server'.at >= server.at /\ server'.at <= now'
  <2>1. server.at \in Nat /\ c.snapshot.at \in Nat /\ server.at <= now
        /\ now' = now /\ now \in Nat
    BY <1>1 DEF MInv, TypeInv, OrderInv, Snapshots, CallRecords, hostVars
  <2>2. IsCurrent(c) /\ ~c.failed => server.at <= c.snapshot.at /\ c.snapshot.at <= now
    BY <1>1 DEF MInv, OrderInv
  <2> QED
    BY <1>2, <2>1, <2>2 DEF viewVars
<1>6. OrderInv'
  <2>1. CASE ~IsCurrent(c) /\ UNCHANGED <<viewVars, readAt>>
    BY <1>1, <2>1 DEF MInv, OrderInv, IsCurrent, viewVars, hostVars
  <2>2. CASE IsCurrent(c)
    <3>1. \A d \in calls' : ~IsCurrent(d)'
      BY <1>1, <2>2 DEF MInv, CallInv, IsCurrent
    <3> QED
      BY <3>1, <1>5 DEF OrderInv
  <2> QED
    BY <1>2, <2>1, <2>2
<1> QED
  BY <1>3, <1>4, <1>5, <1>6 DEF MInv

\* Calls that the bridge answers at once, with the current server as it is.
LEMMA HostAnswers ==
  ASSUME MInv, NEW c \in calls, NEW failed \in BOOLEAN,
         Answered(c, failed, Current, now), UNCHANGED <<viewVars, hostVars, tables>>
  PROVE  MInv'
<1>1. Current \in ServerRecords
  BY CurrentType DEF MInv
<1>2. now' = now
  BY DEF hostVars
<1>3. /\ calls' \subseteq CallRecords /\ CallInv' /\ OrderInv'
      /\ \A d \in calls' : d.at = "stopping" => d \in calls
  BY <1>1, <1>2, Answers
<1>4. TypeInv'
  BY <1>3 DEF MInv, TypeInv, viewVars, hostVars
<1>5. StopInv'
  BY <1>3, StopGoesOn DEF hostVars, Current
<1>6. ServerInv'
  BY DEF MInv, ServerInv, hostVars
<1> QED
  BY <1>3, <1>4, <1>5, <1>6 DEF MInv

\* Calls that change the routes or the hits of the current server.
LEMMA HostChanges ==
  ASSUME MInv, NEW c \in calls, NEW s \in ServerRecords, SetCurrent(s),
         s.http = Current.http, s.stopping = Current.stopping, s.shut = Current.shut,
         s.listening = Current.listening, s.serve = Current.serve,
         s.closes = Current.closes,
         Answered(c, FALSE, s, now + 1), UNCHANGED <<viewVars, mockMu>>, tables' \in Nat
  PROVE  MInv'
<1>1. /\ TypeInv /\ ServerInv /\ Len(servers) \in Nat \ {0}
      /\ Len(servers) \in 1..Len(servers) /\ Current = servers[Len(servers)]
  BY CurrentType DEF MInv
<1>2. servers' = [servers EXCEPT ![Len(servers)] = s] /\ now' = now + 1
  BY DEF SetCurrent, Changed
<1>3. /\ servers' \in Seq(ServerRecords) /\ servers' # <<>> /\ (Current)' = s
  BY <1>1, <1>2, ServerChanges
<1>4. /\ calls' \subseteq CallRecords /\ CallInv' /\ OrderInv'
      /\ \A d \in calls' : d.at = "stopping" => d \in calls
  BY <1>2, Answers
<1>5. TypeInv'
  BY <1>1, <1>2, <1>3, <1>4 DEF TypeInv, viewVars
<1>6. StopInv'
  BY <1>3, <1>4, StopGoesOn
<1>7. Sound(s, TRUE, mockMu' # Free)
  BY <1>1 DEF ServerInv, Sound
<1>8. ServerInv'
  BY <1>1, <1>2, <1>7, StaysSound
<1> QED
  BY <1>4, <1>5, <1>6, <1>8 DEF MInv

LEMMA StartStep ==
  ASSUME MInv, NEW c \in calls, StartMockServer(c)
  PROVE  MInv'
<1> DEFINE s == Started(NewServer(Current.routes))
<1>1. /\ TypeInv /\ Len(servers) \in Nat \ {0} /\ Current = servers[Len(servers)]
      /\ Current \in ServerRecords
  BY CurrentType DEF MInv
<1>2. CASE ~MayStart(Current)
  BY <1>2, HostAnswers DEF StartMockServer, hostVars
<1>3. CASE MayStart(Current)
  <2>1. /\ servers' = Append(servers, s) /\ now' = now + 1
        /\ Answered(c, FALSE, s, now')
        /\ mockMu = Free /\ UNCHANGED <<viewVars, mockMu, tables>>
    BY <1>3 DEF StartMockServer, Changed, Enters
  <2>2. /\ s \in ServerRecords /\ s.http /\ s.closes = 0 /\ ~s.stopping /\ ~s.shut
        /\ s.serve = "starting"
    BY <1>1 DEF Started, NewServer, ServerRecords
  <2> HIDE DEF s
  <2>3. /\ servers' \in Seq(ServerRecords) /\ servers' # <<>>
        /\ Len(servers') = Len(servers) + 1
        /\ servers'[Len(servers) + 1] = s
        /\ \A n \in 1..Len(servers) : servers'[n] = servers[n]
    BY <1>1, <2>1, <2>2 DEF TypeInv
  <2>4. /\ calls' \subseteq CallRecords /\ CallInv' /\ OrderInv'
        /\ \A d \in calls' : d.at = "stopping" => d \in calls
    BY <2>1, <2>2, Answers
  <2>5. TypeInv'
    BY <1>1, <2>1, <2>3, <2>4 DEF TypeInv, viewVars
  <2>6. StopInv'
    BY <2>1, <2>4 DEF MInv, StopInv
  <2>7. ~Current.http
    <3>1. ~Current.stopping
      BY <1>1, <2>1 DEF MInv, ServerInv, Sound
    <3> QED
      BY <1>3, <3>1 DEF MayStart, Running
  <2>8. ASSUME NEW n \in 1..Len(servers')
        PROVE  Sound(servers'[n], n = Len(servers'), mockMu' # Free)
    <3>1. CASE n = Len(servers')
      BY <2>2, <2>3, <3>1 DEF Sound
    <3>2. CASE n # Len(servers')
      <4>1. n \in 1..Len(servers) /\ servers'[n] = servers[n]
        BY <1>1, <2>3, <3>2
      <4>2. Sound(servers[n], n = Len(servers), mockMu # Free)
        BY <4>1 DEF MInv, ServerInv
      <4>3. ~servers[n].http
        BY <1>1, <2>7, <4>1, <4>2 DEF Sound
      <4> QED
        BY <2>1, <3>2, <4>1, <4>2, <4>3 DEF Sound
    <3> QED
      BY <3>1, <3>2
  <2> QED
    BY <2>4, <2>5, <2>6, <2>8 DEF MInv, ServerInv
<1> QED
  BY <1>2, <1>3

\* StopMockServer takes the lock and shuts the current server down.
LEMMA StopStep ==
  ASSUME MInv, NEW c \in calls, StopMockServer(c)
  PROVE  MInv'
<1> DEFINE s == Shut(Current)
           e == [c EXCEPT !.at = "stopping"]
<1>1. /\ TypeInv /\ ServerInv /\ Len(servers) \in 1..Len(servers)
      /\ Current = servers[Len(servers)] /\ Current \in ServerRecords
      /\ c \in CallRecords /\ now \in Nat
  BY CurrentType DEF MInv, TypeInv
<1>2. CASE ~Current.http
  BY <1>2, HostAnswers DEF StopMockServer
<1>3. CASE Current.http
  <2>1. /\ servers' = [servers EXCEPT ![Len(servers)] = s] /\ now' = now + 1
        /\ calls' = (calls \ {c}) \cup {e}
        /\ mockMu = Free /\ mockMu' = c.request /\ UNCHANGED <<viewVars, tables>>
    BY <1>3 DEF StopMockServer, SetCurrent, Changed, Enters
  <2>2. /\ s \in ServerRecords /\ s.http = Current.http /\ s.closes = Current.closes
        /\ s.stopping /\ s.shut /\ s.serve = Current.serve
        /\ s.listening = (Current.listening /\ Current.serve # "serving")
    BY <1>1 DEF Shut, ServerRecords
  <2>3. /\ e \in CallRecords /\ e.at = "stopping" /\ e.request = c.request
        /\ e.session = c.session /\ e.kind = c.kind
    BY <1>1 DEF CallRecords
  <2>4. mockMu' \in Int /\ mockMu' # Free
    BY <1>1, <2>1 DEF CallRecords, Free
  <2> HIDE DEF s, e
  <2>5. /\ servers' \in Seq(ServerRecords) /\ servers' # <<>> /\ (Current)' = s
    BY <1>1, <2>1, <2>2, ServerChanges
  <2>6. TypeInv'
    BY <1>1, <2>1, <2>3, <2>4, <2>5 DEF TypeInv, viewVars
  <2>7. CallInv'
    BY <2>1, <2>3 DEF MInv, CallInv, viewVars
  <2>8. StopInv'
    <3>1. \A d \in calls : d.at # "stopping"
      BY <2>1 DEF MInv, StopInv
    <3> QED
      BY <2>1, <2>2, <2>3, <2>4, <2>5, <3>1 DEF StopInv
  <2>9. ServerInv'
    <3>1. Sound(Current, TRUE, mockMu # Free)
      BY <1>1 DEF ServerInv
    <3>2. Sound(s, TRUE, mockMu' # Free)
      BY <1>3, <2>2, <2>4, <3>1 DEF Sound
    <3> QED
      BY <1>1, <2>1, <2>2, <3>2, StaysSound
  <2>10. OrderInv'
    <3>1. server'.at \in Nat /\ server' = server /\ server.at <= now
      BY <1>1, <2>1 DEF MInv, OrderInv, TypeInv, Snapshots, viewVars
    <3>2. ASSUME NEW d \in calls', d.at = "answered", ~d.failed, IsCurrent(d)'
          PROVE  server'.at <= d.snapshot.at /\ d.snapshot.at <= now'
      <4>1. d \in calls /\ IsCurrent(d) /\ d.snapshot.at \in Nat
        BY <1>1, <2>1, <2>3, <3>2 DEF IsCurrent, viewVars, TypeInv, CallRecords, Snapshots
      <4> QED
        BY <1>1, <2>1, <3>1, <3>2, <4>1 DEF MInv, OrderInv
    <3> QED
      BY <1>1, <2>1, <3>1, <3>2 DEF OrderInv
  <2> QED
    BY <2>6, <2>7, <2>8, <2>9, <2>10 DEF MInv
<1> QED
  BY <1>2, <1>3

\* The stop ends: the fields are cleared unless serve has done it, and nobody
\* else is stopping.
LEMMA StopEndsStep ==
  ASSUME MInv, NEW c \in calls, NEW failed \in BOOLEAN, StopEnds(c, failed)
  PROVE  MInv'
<1> DEFINE s == IF StillOwned(Current) THEN Cleared(Current) ELSE Current
<1>1. /\ TypeInv /\ ServerInv /\ Len(servers) \in 1..Len(servers)
      /\ Current = servers[Len(servers)] /\ Current \in ServerRecords
  BY CurrentType DEF MInv
<1>2. /\ servers' = [servers EXCEPT ![Len(servers)] = s] /\ now' = now + 1
      /\ Answered(c, failed, s, now') /\ c.at = "stopping"
      /\ mockMu' = Free /\ UNCHANGED <<viewVars, tables>>
  BY DEF StopEnds, SetCurrent, Changed
<1>3. /\ s \in ServerRecords /\ ~s.http /\ s.shut = Current.shut
      /\ s.listening = Current.listening /\ s.serve = Current.serve
      /\ s.closes = IF Current.http THEN Current.closes + 1 ELSE Current.closes
      /\ s.stopping => ~Current.http /\ Current.stopping
  <2>1. CASE Current.http
    BY <1>1, <2>1, ClearedType DEF StillOwned
  <2>2. CASE ~Current.http
    BY <1>1, <2>2 DEF StillOwned
  <2> QED
    BY <2>1, <2>2
<1> HIDE DEF s
<1>4. /\ servers' \in Seq(ServerRecords) /\ servers' # <<>>
  BY <1>1, <1>2, <1>3, ServerChanges
<1>5. /\ calls' \subseteq CallRecords /\ CallInv' /\ OrderInv'
      /\ \A d \in calls' : d.at = "stopping" => d \in calls /\ d # c
  BY <1>2, <1>3, Answers
<1>6. TypeInv'
  BY <1>1, <1>2, <1>4, <1>5 DEF TypeInv, viewVars, Free
<1>7. StopInv'
  <2>1. \A d \in calls' : d.at # "stopping"
    BY <1>2, <1>5 DEF MInv, StopInv
  <2> QED
    BY <2>1 DEF StopInv
<1>8. ServerInv'
  <2>1. Sound(Current, TRUE, mockMu # Free) /\ Current.shut
    BY <1>1, <1>2 DEF MInv, StopInv, ServerInv
  <2>2. Sound(s, TRUE, mockMu' # Free)
    BY <1>1, <1>3, <2>1 DEF Sound, ServerRecords
  <2> QED
    BY <1>1, <1>2, <1>3, <2>2, StaysSound
<1> QED
  BY <1>5, <1>6, <1>7, <1>8 DEF MInv

LEMMA ShutDownStep ==
  ASSUME MInv, ShutDown
  PROVE  MInv'
<1> DEFINE d == Call("shutdown", NoRoutes)
           c == [d EXCEPT !.session = 0, !.request = -1]
<1>1. TypeInv
  BY DEF MInv
<1>2. d \in CallRecords /\ d.at = "sent" /\ d.kind = "shutdown"
  BY <1>1, CallType DEF Kinds, NoRoutes, Call
<1>3. /\ calls' = calls \cup {c} /\ UNCHANGED <<viewVars, hostVars, tables>>
      /\ \A b \in calls : b.kind # "shutdown"
  BY DEF ShutDown
<1>4. /\ c \in CallRecords /\ c.at = "sent" /\ c.request = -1 /\ c.session = 0
      /\ c.kind = "shutdown"
  <2> HIDE DEF d
  <2> QED
    BY <1>2, ShutdownCallType
<1> HIDE DEF c
<1>5. TypeInv'
  BY <1>1, <1>3, <1>4 DEF TypeInv, viewVars, hostVars
<1>6. CallInv'
  <2>1. \A b \in calls : b.request # -1
    BY <1>3 DEF MInv, CallInv
  <2> QED
    BY <1>1, <1>3, <1>4, <2>1 DEF MInv, TypeInv, CallInv, viewVars
<1>7. StopInv' /\ ServerInv'
  BY <1>3, <1>4 DEF MInv, StopInv, ServerInv, hostVars, Current
<1>8. OrderInv'
  <2>1. \A b \in calls : IsCurrent(b)' => IsCurrent(b)
    BY <1>3 DEF IsCurrent, viewVars
  <2> QED
    BY <1>3, <1>4, <2>1 DEF MInv, OrderInv, viewVars, hostVars
<1> QED
  BY <1>5, <1>6, <1>7, <1>8 DEF MInv

\* A serving goroutine goes on, or the current server is hit.
LEMMA ServerChange ==
  ASSUME MInv, NEW n \in 1..Len(servers), NEW s \in ServerRecords,
         NEW change \in BOOLEAN, SetServer(n, s, change), s.shut = servers[n].shut,
         Sound(s, n = Len(servers), mockMu # Free)
  PROVE  MInv'
<1>1. TypeInv /\ ServerInv /\ now \in Nat /\ Current = servers[Len(servers)]
  BY CurrentType DEF MInv, TypeInv
<1>2. /\ servers' = [servers EXCEPT ![n] = s] /\ now' \in {now, now + 1}
      /\ UNCHANGED <<viewVars, calls, mockMu, tables>>
  BY DEF SetServer
<1>3. /\ servers' \in Seq(ServerRecords) /\ servers' # <<>>
      /\ (Current)' = IF n = Len(servers) THEN s ELSE Current
  BY <1>1, <1>2, ServerChanges
<1>4. TypeInv'
  BY <1>1, <1>2, <1>3 DEF TypeInv, viewVars
<1>5. CallInv'
  BY <1>2 DEF MInv, CallInv, viewVars
<1>6. (Current)'.shut = Current.shut
  BY <1>1, <1>3
<1>7. StopInv'
  BY <1>2, <1>6 DEF MInv, StopInv
<1>8. ServerInv'
  BY <1>1, <1>2, StaysSound
<1>9. OrderInv'
  <2>1. server'.at \in Nat /\ server' = server
    BY <1>1, <1>2 DEF TypeInv, Snapshots, viewVars
  <2>2. \A d \in calls : /\ d.snapshot.at \in Nat
                         /\ IsCurrent(d)' => IsCurrent(d)
    BY <1>1, <1>2 DEF TypeInv, CallRecords, Snapshots, IsCurrent, viewVars
  <2> QED
    BY <1>1, <1>2, <2>1, <2>2 DEF MInv, OrderInv
<1> QED
  BY <1>4, <1>5, <1>7, <1>8, <1>9 DEF MInv

\* A serve that failed leaves a server as it may be.
LEMMA FailedIsSound ==
  ASSUME NEW old \in ServerRecords, NEW last \in BOOLEAN, NEW held \in BOOLEAN,
         Sound(old, last, held), old.serve = "failed"
  PROVE  LET d == [old EXCEPT !.serve = "done"]
             s == IF d.http THEN Cleared(d) ELSE d
         IN  s \in ServerRecords /\ s.shut = d.shut /\ Sound(s, last, held)
<1> DEFINE d == [old EXCEPT !.serve = "done"]
           s == IF d.http THEN Cleared(d) ELSE d
<1> SUFFICES s \in ServerRecords /\ s.shut = d.shut /\ Sound(s, last, held)
  OBVIOUS
<1>1. /\ d \in ServerRecords /\ d.http = old.http /\ d.closes = old.closes
      /\ d.stopping = old.stopping /\ d.listening = old.listening
  BY DEF ServerRecords
<1>2. ~old.listening
  BY DEF Sound
<1>3. /\ d.http => d.closes = 0
      /\ d.closes \in Nat /\ d.closes <= 1
      /\ d.stopping => d.http
      /\ ~d.listening
  BY <1>1, <1>2 DEF Sound, ServerRecords
<1> HIDE DEF d
<1>4. CASE d.http
  <2>1. s = Cleared(d) /\ d.closes = 0
    BY <1>3, <1>4
  <2>2. /\ s \in ServerRecords /\ s.shut = d.shut
        /\ ~s.http /\ ~s.stopping /\ s.closes = 1
    BY <1>1, <2>1, ClearedType
  <2>3. ~s.listening
    BY <1>1, <1>3, <2>1, ClearedType
  <2> HIDE DEF s
  <2>4. Sound(s, last, held)
    BY <2>2, <2>3 DEF Sound
  <2> QED
    BY <2>2, <2>4
<1>5. CASE ~d.http
  <2>1. s = d
    BY <1>5
  <2>2. Sound(d, last, held)
    BY <1>3, <1>5 DEF Sound
  <2> QED
    BY <1>1, <2>1, <2>2
<1> QED
  BY <1>4, <1>5

LEMMA ServerStep ==
  ASSUME MInv, ServerSteps
  PROVE  MInv'
<1>1. /\ TypeInv /\ Len(servers) \in 1..Len(servers) /\ Current = servers[Len(servers)]
      /\ \A n \in 1..Len(servers) : /\ servers[n] \in ServerRecords
                                     /\ Sound(servers[n], n = Len(servers), mockMu # Free)
  BY CurrentType DEF MInv, ServerInv
<1>2. CASE Hit
  <2> DEFINE s == [Current EXCEPT !.hits = TRUE]
  <2>1. /\ s \in ServerRecords /\ s.http = Current.http /\ s.stopping = Current.stopping
        /\ s.shut = Current.shut /\ s.listening = Current.listening
        /\ s.serve = Current.serve /\ s.closes = Current.closes
    BY <1>1 DEF ServerRecords
  <2>2. SetServer(Len(servers), s, TRUE)
    BY <1>2 DEF Hit
  <2> HIDE DEF s
  <2>3. Sound(Current, TRUE, mockMu # Free)
    BY <1>1
  <2>4. Sound(s, TRUE, mockMu # Free)
    BY <2>1, <2>3 DEF Sound
  <2> QED
    BY <1>1, <2>1, <2>2, <2>4, ServerChange
<1>3. ASSUME NEW n \in 1..Len(servers), ServeStarts(n)
      PROVE  MInv'
  <2> DEFINE s == IF servers[n].shut
                  THEN [servers[n] EXCEPT !.serve = "done", !.listening = FALSE]
                  ELSE [servers[n] EXCEPT !.serve = "serving"]
  <2>1. SetServer(n, s, FALSE)
    BY <1>3 DEF ServeStarts
  <2>2. s \in ServerRecords /\ s.shut = servers[n].shut
    BY <1>1 DEF ServerRecords
  <2>3. Sound(s, n = Len(servers), mockMu # Free)
    BY <1>1 DEF Sound, ServerRecords
  <2> QED
    BY <2>1, <2>2, <2>3, ServerChange
<1>4. ASSUME NEW n \in 1..Len(servers), ServeReturns(n)
      PROVE  MInv'
  <2> DEFINE s == [servers[n] EXCEPT !.listening = FALSE,
                     !.serve = IF servers[n].shut THEN "done" ELSE "failed"]
  <2>1. SetServer(n, s, FALSE)
    BY <1>4 DEF ServeReturns
  <2>2. s \in ServerRecords /\ s.shut = servers[n].shut
    BY <1>1 DEF ServerRecords
  <2>3. Sound(s, n = Len(servers), mockMu # Free)
    BY <1>1 DEF Sound, ServerRecords
  <2> QED
    BY <2>1, <2>2, <2>3, ServerChange
<1>5. ASSUME NEW n \in 1..Len(servers), ServeFails(n)
      PROVE  MInv'
  <2> DEFINE d == [servers[n] EXCEPT !.serve = "done"]
             s == IF d.http THEN Cleared(d) ELSE d
  <2>1. SetServer(n, s, d.http) /\ servers[n].serve = "failed"
    BY <1>5 DEF ServeFails
  <2>2. d \in ServerRecords /\ d.shut = servers[n].shut
    BY <1>1 DEF ServerRecords
  <2>3. d.http \in BOOLEAN
    BY <2>2 DEF ServerRecords
  <2>4. /\ s \in ServerRecords /\ s.shut = d.shut
        /\ Sound(s, n = Len(servers), mockMu # Free)
    BY <1>1, <2>1, FailedIsSound
  <2> HIDE DEF d
  <2>5. s.shut = servers[n].shut
    BY <2>2, <2>4
  <2> HIDE DEF s
  <2> DEFINE change == d.http
  <2>6. change \in BOOLEAN /\ SetServer(n, s, change)
    BY <2>1, <2>3
  <2> HIDE DEF change
  <2> QED
    BY <2>4, <2>5, <2>6, ServerChange
<1> QED
  BY <1>2, <1>3, <1>4, <1>5 DEF ServerSteps

-----------------------------------------------------------------------------
(* The theorems *)

LEMMA BridgeStep ==
  ASSUME MInv, BridgeSteps
  PROVE  MInv'
<1>1. TypeInv /\ Current \in ServerRecords
  BY CurrentType DEF MInv
<1>2. ASSUME NEW c \in calls, Refuse(c) \/ Get(c)
      PROVE  MInv'
  BY <1>2, HostAnswers DEF Refuse, Get
<1>3. ASSUME NEW c \in calls, UpdateMockRoutes(c)
      PROVE  MInv'
  <2> DEFINE s == [Current EXCEPT !.routes = c.routes]
  <2>1. c.routes \in Nat
    BY <1>1 DEF TypeInv, CallRecords
  <2>2. s \in ServerRecords /\ s.http = Current.http /\ s.stopping = Current.stopping
        /\ s.shut = Current.shut /\ s.listening = Current.listening
        /\ s.serve = Current.serve /\ s.closes = Current.closes
    BY <1>1, <2>1 DEF ServerRecords
  <2>3. SetCurrent(s) /\ Answered(c, FALSE, s, now + 1)
        /\ UNCHANGED <<viewVars, mockMu>> /\ tables' \in Nat
    BY <1>1, <1>3 DEF UpdateMockRoutes, TypeInv
  <2> HIDE DEF s
  <2> QED
    BY <2>2, <2>3, HostChanges
<1>4. ASSUME NEW c \in calls, ImportMockOpenAPI(c)
      PROVE  MInv'
  <2> DEFINE s == [Current EXCEPT !.routes = tables + 1]
  <2>1. tables + 1 \in Nat
    BY <1>1 DEF TypeInv
  <2>2. s \in ServerRecords /\ s.http = Current.http /\ s.stopping = Current.stopping
        /\ s.shut = Current.shut /\ s.listening = Current.listening
        /\ s.serve = Current.serve /\ s.closes = Current.closes
    BY <1>1, <2>1 DEF ServerRecords
  <2>3. SetCurrent(s) /\ Answered(c, FALSE, s, now + 1)
        /\ UNCHANGED <<viewVars, mockMu>> /\ tables' = tables + 1
    BY <1>4 DEF ImportMockOpenAPI
  <2> HIDE DEF s
  <2> QED
    BY <2>1, <2>2, <2>3, HostChanges
<1>5. ASSUME NEW c \in calls, ClearMockHits(c)
      PROVE  MInv'
  <2> DEFINE s == [Current EXCEPT !.hits = FALSE]
  <2>1. s \in ServerRecords /\ s.http = Current.http /\ s.stopping = Current.stopping
        /\ s.shut = Current.shut /\ s.listening = Current.listening
        /\ s.serve = Current.serve /\ s.closes = Current.closes
    BY <1>1 DEF ServerRecords
  <2>2. SetCurrent(s) /\ Answered(c, FALSE, s, now + 1)
        /\ UNCHANGED <<viewVars, mockMu>> /\ tables' \in Nat
    BY <1>1, <1>5 DEF ClearMockHits, TypeInv
  <2> HIDE DEF s
  <2> QED
    BY <2>1, <2>2, HostChanges
<1> QED
  BY <1>2, <1>3, <1>4, <1>5, StartStep, StopStep, StopEndsStep, ShutDownStep
  DEF BridgeSteps

LEMMA ViewStep ==
  ASSUME MInv, ViewSteps
  PROVE  MInv' /\ (session' = session => server'.at >= server.at)
<1>1. server.at \in Nat
  BY DEF MInv, TypeInv, Snapshots
<1>2. CASE Render \/ DeleteLast \/ PollTimesOut \/ \E b \in BOOLEAN : Edit(b)
  <2>1. server' = server
    BY <1>2 DEF Render, DeleteLast, PollTimesOut, Edit, Edited
  <2> QED
    BY <1>1, <1>2, <2>1, ViewStays
<1>3. CASE Start \/ Stop \/ ClearHits \/ ApplyRoutes \/ ImportOpenAPI \/ Poll
  <2>1. Poll \/ \E kind \in Operations, table \in Nat : Operate(kind, table)
    BY <1>3 DEF Start, Stop, ClearHits, ApplyRoutes, ImportOpenAPI, Operations,
                NoRoutes, MInv, TypeInv
  <2>2. server' = server
    BY <2>1 DEF Poll, Operate
  <2> QED
    BY <1>1, <2>1, <2>2, ViewSends
<1>4. CASE Reopen
  <2>1. session' # session
    BY <1>4 DEF Reopen, MInv, TypeInv
  <2> QED
    BY <1>4, <2>1, ReopenStep
<1>5. CASE \E c \in calls : Answer(c)
  BY <1>5, AnswerStep
<1> QED
  BY <1>2, <1>3, <1>4, <1>5 DEF ViewSteps

\* What the bridge and the servers do leaves the view as it is.
LEMMA HostKeepsView ==
  ASSUME MInv, BridgeSteps \/ ServerSteps
  PROVE  server'.at >= server.at
<1>1. server.at \in Nat
  BY DEF MInv, TypeInv, Snapshots
<1>2. UNCHANGED viewVars
  BY DEF BridgeSteps, ShutDown, Refuse, Get, UpdateMockRoutes, ImportMockOpenAPI,
         ClearMockHits, StartMockServer, StopMockServer, StopEnds, ServerSteps, Hit,
         ServeStarts, ServeReturns, ServeFails, SetServer
<1> QED
  BY <1>1, <1>2 DEF viewVars

LEMMA StepMInv ==
  ASSUME MInv, [Next]_vars
  PROVE  MInv' /\ (session' = session => server'.at >= server.at)
<1>1. CASE UNCHANGED vars
  <2>1. MInv'
    BY <1>1 DEF MInv, TypeInv, CallInv, StopInv, ServerInv, OrderInv, IsCurrent,
                Current, vars, viewVars, hostVars
  <2> QED
    BY <1>1, <2>1 DEF MInv, TypeInv, Snapshots, vars, viewVars
<1>2. CASE Next
  BY <1>2, ViewStep, BridgeStep, ServerStep, HostKeepsView DEF Next
<1> QED
  BY <1>1, <1>2

\* Nothing listens that the user cannot stop or that does not end by itself,
\* and stopDone is closed once. (StartMockServer, Stop and serve)
THEOREM ListenersAreOwned == Spec => []ListenersOwned
<1>1. MInv => ListenersOwned
  <2> SUFFICES ASSUME MInv, NEW n \in 1..Len(servers)
               PROVE  /\ servers[n].listening =>
                            \/ n = Len(servers) /\ servers[n].http
                            \/ servers[n].shut /\ servers[n].serve = "starting"
                      /\ servers[n].closes <= 1
    BY DEF ListenersOwned
  <2> QED
    BY DEF MInv, ServerInv, Sound
<1> QED
  BY <1>1, InitMInv, StepMInv, PTL DEF Spec

\* What is shown of the server is never replaced by an older snapshot.
\* (acceptSnapshot and refresh of mockServer.ts)
THEOREM SnapshotsAreInOrder == Spec => SnapshotsInOrder
<1>1. ASSUME MInv, [Next]_vars
      PROVE  [session' = session => server'.at >= server.at]_vars
  BY <1>1, StepMInv
<1> QED
  BY <1>1, InitMInv, StepMInv, PTL DEF Spec, SnapshotsInOrder

-----------------------------------------------------------------------------
(***************************************************************************)
(* Routes.  What the view shows without edits is what the bridge serves:   *)
(* the one call whose answer the view waits for may have replaced the      *)
(* routes already, and brings them; a call of a window that is gone leaves *)
(* a later foreignAt behind.                                               *)
(***************************************************************************)

\* A call of the window whose answer it waits for, and one that brings routes.
Awaited(c) == c.session = session /\ c.kind # "poll"
Brings(c) == /\ Awaited(c) /\ c.kind \in {"refresh", "apply", "import"}
             /\ c.at = "answered" /\ ~c.failed

ViewInv ==
  /\ busy \in {"", "refresh"} \cup Operations
  /\ dirty \in BOOLEAN /\ polling \in BOOLEAN
  /\ buttons \in {{}, {"start"}, {"stop"}}
  /\ flight \in 0..generation
  /\ busy \in Operations => flight = 0 /\ ~polling

\* A table is one of those made so far.
TableInv ==
  /\ routes <= tables /\ Current.routes <= tables
  /\ \A c \in calls : c.routes <= tables /\ c.snapshot.routes <= tables

LockInv == mockMu # Free => \E c \in calls : c.request = mockMu /\ c.at = "stopping"

\* The window waits for one call at most, the newest, and is not edited meanwhile.
AwaitInv ==
  /\ session > 0
  /\ \A c \in calls :
       Awaited(c) => /\ busy = c.kind /\ c.request = snapshotRequest
                     /\ c.revision = routeRevision
                     /\ c.kind = "apply" => dirty

CleanInv ==
  /\ readAt \in 0..now /\ foreignAt \in 1..now
  /\ \A c \in calls :
       Brings(c) /\ c.snapshot.at >= foreignAt => c.snapshot.routes = Current.routes
  /\ ~dirty /\ readAt >= foreignAt =>
       \/ routes = Current.routes
       \/ \E c \in calls : Brings(c) /\ c.kind = "import"

RInv == ViewInv /\ TableInv /\ LockInv /\ AwaitInv /\ CleanInv

LEMMA InitRInv == Init => RInv
<1> SUFFICES ASSUME Init PROVE RInv
  OBVIOUS
<1>1. Current.routes = 0
  BY DEF Init, Current, NewServer, NoRoutes
<1>2. \A c \in calls : /\ c.session = 1 /\ c.kind = "refresh" /\ c.request = 1
                       /\ c.revision = 0 /\ c.at = "sent" /\ c.routes = 0
                       /\ c.snapshot.routes = 0
  BY DEF Init, NoRoutes, Unread
<1>3. ViewInv
  <2>1. /\ busy = "refresh" /\ dirty = FALSE /\ polling = FALSE /\ buttons = {}
        /\ flight = 0 /\ generation = 1
    BY DEF Init
  <2>2. flight \in 0..generation
    BY <2>1
  <2> QED
    BY <2>1, <2>2 DEF ViewInv, Operations
<1>4. TableInv
  BY <1>1, <1>2 DEF Init, TableInv, NoRoutes
<1>5. LockInv /\ AwaitInv
  BY <1>2 DEF Init, LockInv, AwaitInv, Awaited
<1>6. CleanInv
  BY <1>1, <1>2 DEF Init, CleanInv, Brings
<1> QED
  BY <1>3, <1>4, <1>5, <1>6 DEF RInv

LEMMA RenderedType ==
  ASSUME NEW shown, NEW unapplied, NEW operation
  PROVE  Rendered(shown, unapplied, operation) \in {{}, {"start"}, {"stop"}}
BY DEF Rendered

LEMMA RoutesTyped ==
  ASSUME MInv, RInv
  PROVE  /\ calls \subseteq CallRecords /\ session \in Nat \ {0} /\ routes \in Nat
         /\ routeRevision \in Nat /\ snapshotRequest \in Nat \ {0}
         /\ generation \in Nat /\ tables \in Nat /\ now \in Nat
         /\ Current \in ServerRecords /\ Current.routes \in Nat
         /\ readAt \in Nat /\ foreignAt \in Nat \ {0}
         /\ \A c \in calls : /\ c.kind \in Kinds /\ c.session \in Nat /\ c.request \in Int
                             /\ c.revision \in Nat /\ c.generation \in Nat \ {0}
                             /\ c.routes \in Nat /\ c.snapshot.routes \in Nat
                             /\ c.snapshot.at \in Nat
                             /\ c.snapshot.running \in BOOLEAN /\ c.failed \in BOOLEAN
<1>1. /\ calls \subseteq CallRecords /\ session \in Nat \ {0} /\ routes \in Nat
      /\ routeRevision \in Nat /\ snapshotRequest \in Nat \ {0}
      /\ generation \in Nat /\ tables \in Nat /\ now \in Nat
      /\ readAt \in Nat /\ foreignAt \in Nat \ {0}
  BY DEF MInv, TypeInv, RInv, AwaitInv, CleanInv
<1>2. Current \in ServerRecords
  BY CurrentType DEF MInv
<1>3. Current.routes \in Nat
  BY <1>2 DEF ServerRecords
<1> QED
  BY <1>1, <1>2, <1>3 DEF CallRecords, Snapshots

\* While no operation is under way the window waits for no call.
LEMMA NobodyAwaited ==
  ASSUME MInv, RInv, busy = "", NEW c \in calls
  PROVE  ~Awaited(c)
<1>1. c.kind # ""
  BY RoutesTyped DEF Kinds, Operations
<1> QED
  BY <1>1 DEF RInv, AwaitInv

\* What the answers waited for have read is no later than now.
LEMMA BroughtInTime ==
  ASSUME MInv, RInv, NEW c \in calls, Brings(c)
  PROVE  c.snapshot.at <= now
<1>1. IsCurrent(c)
  BY DEF RInv, AwaitInv, Brings, Awaited, IsCurrent
<1> QED
  BY <1>1 DEF MInv, OrderInv, Brings

\* The view changes without a call, and is marked as edited when its routes change.
LEMMA RoutesStay ==
  ASSUME MInv, RInv, Render \/ DeleteLast \/ PollTimesOut \/ \E b \in BOOLEAN : Edit(b)
  PROVE  RInv'
<1>1. /\ UNCHANGED <<session, busy, snapshotRequest, generation, server, polling,
                     calls, hostVars, history>>
      /\ flight' \in {flight, 0} /\ buttons' \in {buttons, Rendered(server, dirty, busy),
                                                  Rendered(server, TRUE, busy)}
      /\ tables' \in {tables, tables + 1}
  BY DEF Render, DeleteLast, PollTimesOut, Edit, Edited
<1>2. \/ UNCHANGED <<routes, dirty, routeRevision>>
      \/ busy = "" /\ dirty' = TRUE /\ routes' \in {0, tables'}
  BY DEF Render, DeleteLast, PollTimesOut, Edit, Edited, NoRoutes
<1>3. (Current)' = Current
  BY <1>1 DEF Current, hostVars
<1>4. ViewInv'
  <2>1. buttons' \in {{}, {"start"}, {"stop"}}
    BY <1>1, RenderedType DEF RInv, ViewInv
  <2>2. dirty' \in BOOLEAN
    BY <1>2 DEF RInv, ViewInv
  <2>3. flight' \in 0..generation'
    <3>1. generation \in Nat /\ flight \in 0..generation
      BY RoutesTyped DEF RInv, ViewInv
    <3>2. generation' = generation
      BY <1>2 DEF Render, DeleteLast, PollTimesOut, Edit, Edited
    <3> QED
      BY <1>1, <3>1, <3>2
  <2>4. busy \in Operations => flight' = 0
    BY <1>1 DEF RInv, ViewInv
  <2>5. busy' = busy /\ polling' = polling
    BY <1>1
  <2> QED
    BY <2>1, <2>2, <2>3, <2>4, <2>5 DEF RInv, ViewInv
<1>5. TableInv'
  <2>1. /\ tables \in Nat /\ routes \in Nat /\ Current.routes \in Nat
        /\ \A c \in calls : c.routes \in Nat /\ c.snapshot.routes \in Nat
    BY RoutesTyped
  <2>2. calls' = calls /\ tables' \in {tables, tables + 1} /\ routes' \in {routes, 0, tables'}
    BY <1>1, <1>2
  <2> QED
    BY <1>3, <2>1, <2>2 DEF RInv, TableInv
<1>6. LockInv'
  BY <1>1 DEF RInv, LockInv, hostVars
<1>7. AwaitInv'
  <2>1. busy = "" => \A c \in calls : ~Awaited(c)
    BY NobodyAwaited
  <2> QED
    <3>1. CASE UNCHANGED <<routes, dirty, routeRevision>>
      BY <1>1, <3>1 DEF RInv, AwaitInv, Awaited
    <3>2. CASE busy = ""
      BY <1>1, <2>1, <3>2 DEF RInv, AwaitInv, Awaited
    <3> QED
      BY <1>2, <3>1, <3>2
<1>8. CleanInv'
  BY <1>1, <1>2, <1>3, NobodyAwaited DEF RInv, CleanInv, Awaited, Brings, hostVars, history
<1> QED
  BY <1>4, <1>5, <1>6, <1>7, <1>8 DEF RInv

\* A poll or an operation is sent; an operation ends what the window waited for.
LEMMA RoutesSend ==
  ASSUME MInv, RInv, NEW kind \in Operations \cup {"poll"}, NEW table \in Nat,
         kind = "poll" => Poll /\ table = NoRoutes,
         kind # "poll" => Operate(kind, table),
         kind = "apply" => dirty, table <= tables
  PROVE  RInv'
<1> DEFINE c == Call(kind, table)
<1>1. /\ c.kind = kind /\ c.session = session /\ c.request = snapshotRequest + 1
      /\ c.revision = routeRevision /\ c.routes = table /\ c.at = "sent"
      /\ c.snapshot.routes = 0
  BY DEF Call, Unread, NoRoutes
<1>2. /\ busy = "" /\ Send(kind, table)
      /\ UNCHANGED <<session, routes, dirty, routeRevision, server, hostVars, tables, history>>
      /\ busy' = IF kind = "poll" THEN busy ELSE kind
      /\ flight' = IF kind = "poll" THEN generation + 1 ELSE 0
      /\ kind = "poll" => polling' = polling /\ buttons' = buttons
      /\ kind # "poll" => polling' = FALSE /\ buttons' = {}
  BY DEF Poll, Operate
<1>3. /\ calls' = calls \cup {c} /\ snapshotRequest' = snapshotRequest + 1
      /\ generation' = generation + 1 /\ (Current)' = Current
  BY <1>2 DEF Send, Current, hostVars
<1> HIDE DEF c
<1>4. ViewInv'
  <2>1. generation \in Nat /\ flight' \in 0..generation'
    <3>1. generation \in Nat /\ flight' \in {0, generation + 1}
      BY <1>2, RoutesTyped
    <3> QED
      BY <1>3, <3>1
  <2>2. CASE kind = "poll"
    <3>1. busy' = "" /\ polling' = polling /\ buttons' = buttons /\ dirty' = dirty
      BY <1>2, <2>2
    <3> QED
      BY <2>1, <3>1 DEF RInv, ViewInv, Operations
  <2>3. CASE kind # "poll"
    <3>1. busy' = kind /\ polling' = FALSE /\ buttons' = {} /\ dirty' = dirty /\ flight' = 0
      BY <1>2, <2>3
    <3> QED
      BY <2>1, <2>3, <3>1 DEF RInv, ViewInv, Operations
  <2> QED
    BY <2>2, <2>3
<1>5. TableInv'
  <2>1. /\ tables \in Nat /\ routes \in Nat /\ Current.routes \in Nat
        /\ \A d \in calls : d.routes \in Nat /\ d.snapshot.routes \in Nat
    BY RoutesTyped
  <2>2. tables' = tables /\ routes' = routes
    BY <1>2
  <2> QED
    BY <1>1, <1>3, <2>1, <2>2 DEF RInv, TableInv
<1>6. LockInv'
  BY <1>2, <1>3 DEF RInv, LockInv, hostVars
<1>7. \A d \in calls : ~Awaited(d)'
  BY <1>2, NobodyAwaited DEF Awaited
<1>8. AwaitInv'
  BY <1>1, <1>2, <1>3, <1>7 DEF RInv, AwaitInv, Awaited
<1>9. \A d \in calls : ~Brings(d)
  BY <1>2, NobodyAwaited DEF Brings
<1>10. CleanInv'
  <2>1. \A d \in calls' : ~Brings(d)'
    BY <1>1, <1>3, <1>7 DEF Brings
  <2>2. /\ now' = now /\ readAt' = readAt /\ foreignAt' = foreignAt /\ dirty' = dirty
        /\ routes' = routes
    BY <1>2 DEF hostVars, history
  <2>3. ~dirty /\ readAt >= foreignAt => routes = Current.routes
    BY <1>9 DEF RInv, CleanInv
  <2> QED
    BY <1>3, <2>1, <2>2, <2>3 DEF RInv, CleanInv
<1> QED
  BY <1>4, <1>5, <1>6, <1>8, <1>10 DEF RInv

\* A new window waits for its first read only.
LEMMA RoutesReopen ==
  ASSUME MInv, RInv, Reopen
  PROVE  RInv'
<1> DEFINE c == [Call("refresh", NoRoutes) EXCEPT !.session = session + 1, !.revision = 0]
<1>1. /\ c.kind = "refresh" /\ c.session = session + 1 /\ c.request = snapshotRequest + 1
      /\ c.revision = 0 /\ c.routes = 0 /\ c.at = "sent" /\ c.snapshot.routes = 0
  BY DEF Call, Unread, NoRoutes
<1>2. calls' = calls \cup {c}
  BY DEF Reopen
<1> HIDE DEF c
<1>3. /\ session' = session + 1 /\ snapshotRequest' = snapshotRequest + 1
      /\ routes' = 0 /\ dirty' = FALSE /\ busy' = "refresh" /\ routeRevision' = 0
      /\ generation' = generation + 1 /\ flight' = 0 /\ polling' = FALSE /\ buttons' = {}
      /\ readAt' = 0 /\ UNCHANGED <<hostVars, tables, foreignAt>>
  BY DEF Reopen, NoRoutes
<1>4. (Current)' = Current
  BY <1>3 DEF Current, hostVars
<1>5. ViewInv'
  <2>1. generation \in Nat /\ 0 \in 0..generation'
    BY <1>3, RoutesTyped
  <2> QED
    BY <1>3, <2>1 DEF ViewInv, Operations
<1>6. TableInv' /\ LockInv'
  BY <1>1, <1>2, <1>3, <1>4, RoutesTyped DEF RInv, TableInv, LockInv, hostVars
<1>7. \A d \in calls : ~Awaited(d)'
  BY <1>3, RoutesTyped DEF MInv, CallInv, Awaited
<1>8. AwaitInv'
  BY <1>1, <1>2, <1>3, <1>7, RoutesTyped DEF AwaitInv, Awaited
<1>9. \A d \in calls' : ~Brings(d)'
  BY <1>1, <1>2, <1>7 DEF Brings
<1>10. CleanInv'
  BY <1>3, <1>9, RoutesTyped DEF RInv, CleanInv, hostVars
<1> QED
  BY <1>5, <1>6, <1>8, <1>10 DEF RInv

\* The answer waited for brings the routes, or leaves those the view has.
LEMMA RoutesAnswer ==
  ASSUME MInv, RInv, NEW c \in calls, Answer(c)
  PROVE  RInv'
<1>1. /\ c.at = "answered" /\ calls' = calls \ {c}
      /\ UNCHANGED <<session, routeRevision, snapshotRequest, generation,
                     hostVars, tables, foreignAt>>
  BY DEF Answer, viewVars
<1>2. (Current)' = Current
  BY <1>1 DEF Current, hostVars
<1>3. \A d \in calls : d # c => d \in calls'
  BY <1>1
<1>4. LockInv'
  BY <1>1 DEF RInv, LockInv, hostVars
<1>5. \A d \in calls' : (Awaited(d)' = Awaited(d)) /\ (Brings(d)' = Brings(d))
  BY <1>1 DEF Awaited, Brings
<1>6. readAt \in 0..now /\ foreignAt \in 1..now /\ now' = now
  BY <1>1 DEF RInv, CleanInv, hostVars
<1>7. CASE ~IsCurrent(c)
  <2>1. UNCHANGED <<viewVars, readAt>>
    BY <1>7 DEF Answer
  <2>2. ViewInv' /\ TableInv' /\ AwaitInv'
    BY <1>1, <1>2, <1>5, <2>1 DEF RInv, ViewInv, TableInv, AwaitInv, viewVars
  <2>3. ~Brings(c)
    BY <1>7 DEF RInv, AwaitInv, Brings, Awaited, IsCurrent
  <2>4. CleanInv'
    BY <1>1, <1>2, <1>3, <1>5, <1>6, <2>1, <2>3 DEF RInv, CleanInv, viewVars
  <2> QED
    BY <1>4, <2>2, <2>4 DEF RInv
<1>8. CASE IsCurrent(c)
  <2> DEFINE brings == ~c.failed /\ BringsRoutes(c)
  <2>1. /\ routes' = IF brings THEN c.snapshot.routes ELSE routes
        /\ dirty' = (dirty /\ ~brings)
        /\ readAt' = IF brings THEN c.snapshot.at ELSE readAt
    BY <1>8 DEF Answer
  <2>2. server' \in {server, c.snapshot}
    BY <1>8 DEF Answer
  <2>3. /\ IF c.kind = "poll"
           THEN /\ flight' = 0
                /\ UNCHANGED busy
                /\ polling' \in {server'.running, polling}
           ELSE /\ busy' = ""
                /\ UNCHANGED flight
                /\ polling' = (server'.running /\ (~c.failed \/ c.kind # "refresh"))
        /\ buttons' \in {buttons, Rendered(server', dirty', busy'), Rendered(server', dirty', "")}
    BY <1>8 DEF Answer
  <2>4. c.session = session /\ c.request = snapshotRequest
        /\ (c.kind = "poll" => c.generation = flight)
    BY <1>8 DEF IsCurrent
  <2>5. brings <=> Brings(c)
    BY <1>1, <2>4 DEF BringsRoutes, Brings, Awaited, RInv, AwaitInv
  <2> HIDE DEF brings
  <2>6. \A d \in calls' : ~Awaited(d)
    <3>1. \A d \in calls : d.request = c.request => d = c
      BY DEF MInv, CallInv
    <3> QED
      BY <1>1, <2>4, <3>1 DEF RInv, AwaitInv
  <2>7. \A d \in calls' : ~Brings(d) /\ ~Brings(d)' /\ ~Awaited(d)'
    BY <1>5, <2>6 DEF Brings
  <2>8. AwaitInv'
    BY <1>1, <2>7 DEF RInv, AwaitInv
  <2>9. TableInv'
    BY <1>1, <1>2, <2>1, RoutesTyped DEF RInv, TableInv
  <2>10. ViewInv'
    <3>1. server'.running \in BOOLEAN
      BY <2>2, RoutesTyped DEF MInv, TypeInv, Snapshots
    <3>2. polling' \in BOOLEAN
      BY <2>3, <3>1, Zenon DEF RInv, ViewInv
    <3>3. dirty' \in BOOLEAN
      BY <2>1
    <3>4. buttons' \in {{}, {"start"}, {"stop"}}
      BY <2>3, RenderedType DEF RInv, ViewInv
    <3>5. flight' \in 0..generation'
      <4>1. generation \in Nat /\ flight \in 0..generation /\ flight' \in {0, flight}
        BY <2>3, RoutesTyped DEF RInv, ViewInv
      <4> QED
        BY <1>1, <4>1
    <3>6. busy' \in {"", "refresh"}
      <4>1. CASE c.kind = "poll"
        <5>1. flight # 0
          BY <2>4, <4>1, RoutesTyped
        <5> QED
          BY <2>3, <4>1, <5>1 DEF RInv, ViewInv
      <4> QED
        BY <2>3, <4>1
    <3> QED
      BY <3>2, <3>3, <3>4, <3>5, <3>6 DEF ViewInv, Operations
  <2>11. CleanInv'
    <3>1. CASE brings
      <4>1. Brings(c) /\ routes' = c.snapshot.routes /\ readAt' = c.snapshot.at
        BY <2>1, <2>5, <3>1
      <4>2. c.snapshot.at \in 0..now
        BY <4>1, BroughtInTime, RoutesTyped
      <4>3. readAt' >= foreignAt => routes' = Current.routes
        BY <4>1 DEF RInv, CleanInv
      <4> QED
        BY <1>1, <1>2, <1>6, <2>7, <4>1, <4>2, <4>3 DEF CleanInv
    <3>2. CASE ~brings
      <4>1. routes' = routes /\ dirty' = dirty /\ readAt' = readAt
        <5>1. dirty \in BOOLEAN
          BY DEF RInv, ViewInv
        <5> QED
          BY <2>1, <3>2, <5>1
      <4>2. \A d \in calls : ~Brings(d)
        BY <1>3, <2>5, <2>7, <3>2
      <4> QED
        BY <1>1, <1>2, <1>6, <2>7, <4>1, <4>2 DEF RInv, CleanInv
    <3> QED
      BY <3>1, <3>2
  <2> QED
    BY <1>4, <2>8, <2>9, <2>10, <2>11 DEF RInv
<1> QED
  BY <1>7, <1>8

\* The bridge answers call c.  It serves other routes only for a call of another
\* window, which foreignAt remembers, or for one that will bring them.
LEMMA RoutesServed ==
  ASSUME MInv, RInv, NEW c \in calls, c.at # "answered", NEW failed \in BOOLEAN,
         NEW s \in ServerRecords, now' \in {now, now + 1}, tables' \in Nat,
         tables <= tables', Answered(c, failed, s, now'),
         UNCHANGED <<viewVars, readAt>>, (Current)'.routes = s.routes,
         s.routes <= tables', mockMu' \in {Free, mockMu},
         mockMu' # Free => c.at = "sent",
         \/ /\ foreignAt' = foreignAt
            /\ \/ s.routes = Current.routes
               \/ c.session = session /\ c.kind \in {"apply", "import"} /\ ~failed
         \/ foreignAt' = now' /\ now' = now + 1 /\ c.session # session
  PROVE  RInv'
<1> DEFINE e == [c EXCEPT !.at = "answered", !.failed = failed, !.routes = NoRoutes,
                   !.snapshot = IF failed THEN Unread ELSE Snapshot(s, now')]
<1>1. c \in CallRecords /\ s.routes \in Nat
  BY RoutesTyped DEF ServerRecords
<1>2. /\ e.session = c.session /\ e.kind = c.kind /\ e.request = c.request
      /\ e.revision = c.revision /\ e.generation = c.generation
      /\ e.at = "answered" /\ e.failed = failed /\ e.routes = 0
      /\ e.snapshot.routes \in {0, s.routes}
      /\ ~failed => e.snapshot.routes = s.routes /\ e.snapshot.at = now'
  BY <1>1 DEF CallRecords, Snapshot, Unread, NoRoutes
<1>3. /\ calls' \subseteq (calls \ {c}) \cup {e}
      /\ calls \ {c} \subseteq calls'
      /\ IsCurrent(e) => e \in calls'
  BY DEF Answered
<1> HIDE DEF e
<1>4. ViewInv'
  BY DEF RInv, ViewInv, viewVars
<1>5. TableInv'
  <2>1. /\ tables \in Nat /\ routes \in Nat
        /\ \A d \in calls : d.routes \in Nat /\ d.snapshot.routes \in Nat
    BY RoutesTyped
  <2>2. routes' = routes
    BY DEF viewVars
  <2> QED
    BY <1>1, <1>2, <1>3, <2>1, <2>2 DEF RInv, TableInv
<1>6. LockInv'
  <2> SUFFICES ASSUME mockMu' # Free
               PROVE  \E d \in calls' : d.request = mockMu' /\ d.at = "stopping"
    BY DEF LockInv
  <2>1. c.at = "sent" /\ mockMu' = mockMu
    OBVIOUS
  <2>2. PICK d \in calls : d.request = mockMu /\ d.at = "stopping"
    BY <2>1 DEF RInv, LockInv
  <2> QED
    BY <1>3, <2>1, <2>2
<1>7. \A d \in calls : Awaited(d)' = Awaited(d) /\ Brings(d)' = Brings(d)
  BY DEF Awaited, Brings, viewVars
<1>8. \A d : d = e => Awaited(d)' = Awaited(c)
  BY <1>2 DEF Awaited, viewVars
<1>9. AwaitInv'
  BY <1>2, <1>3, <1>7, <1>8 DEF RInv, AwaitInv, viewVars
<1>10. CleanInv'
  <2>1. /\ now \in Nat /\ readAt \in 0..now /\ foreignAt \in 1..now
        /\ readAt' = readAt /\ dirty' = dirty /\ routes' = routes
    BY RoutesTyped DEF RInv, CleanInv, viewVars
  <2>2. readAt' \in 0..now' /\ foreignAt' \in 1..now'
    BY <2>1
  <2>3. ASSUME c.session = session, c.kind \in {"apply", "import"}
        PROVE  /\ \A d \in calls : Awaited(d) => d = c
               /\ IsCurrent(e) /\ Awaited(c)
               /\ c.kind = "apply" => dirty
    <3>1. Awaited(c)
      BY <2>3 DEF Awaited
    <3>2. \A d \in calls : d.request = c.request => d = c
      BY DEF MInv, CallInv
    <3> QED
      BY <1>2, <2>3, <3>1, <3>2 DEF RInv, AwaitInv, IsCurrent
  <2>4. ASSUME NEW d \in calls', Brings(d)', d.snapshot.at >= foreignAt'
        PROVE  d.snapshot.routes = s.routes
    <3>1. CASE d = e
      BY <1>2, <2>4, <3>1 DEF Brings
    <3>2. CASE d # e
      <4>1. d \in calls /\ d # c /\ Brings(d)
        BY <1>3, <1>7, <2>4, <3>2
      <4>2. d.snapshot.at \in Nat /\ d.snapshot.at <= now
        BY <4>1, BroughtInTime, RoutesTyped
      <4>3. foreignAt' = foreignAt
        BY <2>1, <2>4, <4>2
      <4>4. ~(c.session = session /\ c.kind \in {"apply", "import"})
        BY <2>3, <4>1 DEF Brings
      <4>5. s.routes = Current.routes
        BY <2>1, <4>3, <4>4, <2>4, <4>2
      <4> QED
        BY <2>4, <4>1, <4>3, <4>5 DEF RInv, CleanInv
    <3> QED
      BY <3>1, <3>2
  <2>5. ASSUME ~dirty', readAt' >= foreignAt'
        PROVE  routes' = s.routes \/ \E d \in calls' : Brings(d)' /\ d.kind = "import"
    <3>1. foreignAt' = foreignAt
      BY <2>1, <2>5
    <3>2. CASE s.routes = Current.routes
      <4>1. CASE routes = Current.routes
        BY <2>1, <3>2, <4>1
      <4>2. CASE \E d \in calls : Brings(d) /\ d.kind = "import"
        <5>1. PICK d \in calls : Brings(d) /\ d.kind = "import"
          BY <4>2
        <5>2. d # c
          BY <5>1 DEF Brings
        <5> QED
          BY <1>3, <1>7, <5>1, <5>2
      <4> QED
        BY <2>1, <2>5, <3>1, <4>1, <4>2 DEF RInv, CleanInv
    <3>3. CASE c.session = session /\ c.kind \in {"apply", "import"} /\ ~failed
      <4>1. e \in calls' /\ c.kind = "import" /\ Awaited(c)
        BY <1>3, <2>1, <2>3, <2>5, <3>3
      <4>2. \A d : d = e => Brings(d)'
        BY <1>2, <1>8, <3>3, <4>1 DEF Brings
      <4> QED
        BY <1>2, <4>1, <4>2
    <3> QED
      BY <2>1, <3>1, <3>2, <3>3
  <2> QED
    BY <2>2, <2>4, <2>5 DEF CleanInv
<1> QED
  BY <1>4, <1>5, <1>6, <1>9, <1>10 DEF RInv

\* A server does something that changes neither its routes nor a call waited for:
\* the calls are those there were, one of them moved on, or a call of no window.
LEMMA RoutesQuiet ==
  ASSUME MInv, RInv, UNCHANGED <<viewVars, tables, history>>, now' \in {now, now + 1},
         (Current)'.routes = Current.routes,
         \A d \in calls' :
           \/ d \in calls
           \/ d.session = 0 /\ d.routes = 0 /\ d.snapshot.routes = 0
           \/ /\ d.at = "stopping"
              /\ \E c \in calls : /\ d.session = c.session /\ d.kind = c.kind
                                  /\ d.request = c.request /\ d.revision = c.revision
                                  /\ d.routes = c.routes /\ d.snapshot = c.snapshot,
         \A d \in calls : d.at = "sent" \/ d \in calls',
         LockInv'
  PROVE  RInv'
<1>1. ViewInv'
  BY DEF RInv, ViewInv, viewVars
<1>2. TableInv'
  <2>1. tables \in Nat /\ tables' = tables /\ routes' = routes
    BY RoutesTyped DEF viewVars
  <2> QED
    BY <2>1 DEF RInv, TableInv
<1>3. /\ \A d : Awaited(d)' <=> Awaited(d)
      /\ \A d : Brings(d)' <=> Brings(d)
  BY DEF Awaited, Brings, viewVars
<1>4. ~(session = 0)
  BY RoutesTyped
<1>5. AwaitInv'
  <2>1. UNCHANGED <<session, busy, snapshotRequest, routeRevision, dirty>>
    BY DEF viewVars
  <2>2. ASSUME NEW d \in calls', Awaited(d)
        PROVE  /\ busy = d.kind /\ d.request = snapshotRequest
               /\ d.revision = routeRevision
               /\ d.kind = "apply" => dirty
    BY <1>4, <2>2 DEF RInv, AwaitInv, Awaited
  <2>3. session > 0
    BY DEF RInv, AwaitInv
  <2>4. session' > 0
    BY <2>1, <2>3
  <2>5. ASSUME NEW d \in calls', Awaited(d)'
        PROVE  /\ busy' = d.kind /\ d.request = snapshotRequest'
               /\ d.revision = routeRevision'
               /\ d.kind = "apply" => dirty'
    <3>1. Awaited(d)
      BY <1>3, <2>5
    <3> QED
      BY <2>1, <2>2, <3>1
  <2> QED
    BY <2>4, <2>5 DEF AwaitInv
<1>6. CleanInv'
  <2>1. /\ now \in Nat /\ readAt \in 0..now /\ foreignAt \in 1..now
        /\ readAt' = readAt /\ foreignAt' = foreignAt /\ dirty' = dirty /\ routes' = routes
    BY RoutesTyped DEF RInv, CleanInv, viewVars, history
  <2>2. readAt' \in 0..now' /\ foreignAt' \in 1..now'
    BY <2>1
  <2>3. \A d \in calls' : Brings(d) => d \in calls
    BY <1>4 DEF Brings, Awaited
  <2>4. \A d \in calls : Brings(d) => d \in calls'
    BY DEF Brings
  <2> QED
    BY <1>3, <2>1, <2>2, <2>3, <2>4 DEF RInv, CleanInv
<1> QED
  BY <1>1, <1>2, <1>5, <1>6 DEF RInv

LEMMA RoutesServers ==
  ASSUME MInv, RInv, ServerSteps
  PROVE  RInv'
<1>1. PICK n \in 1..Len(servers), s \in ServerRecords, change \in BOOLEAN :
        SetServer(n, s, change) /\ s.routes = servers[n].routes
  <2>1. \A n \in 1..Len(servers) : servers[n] \in ServerRecords
    BY CurrentType DEF MInv
  <2>2. CASE Hit
    <3> DEFINE s == [Current EXCEPT !.hits = TRUE]
    <3>1. Len(servers) \in 1..Len(servers) /\ Current = servers[Len(servers)]
      BY CurrentType DEF MInv
    <3>2. s \in ServerRecords /\ s.routes = Current.routes
      BY <2>1, <3>1 DEF ServerRecords
    <3> QED
      BY <2>2, <3>1, <3>2 DEF Hit
  <2>3. ASSUME NEW n \in 1..Len(servers), ServeStarts(n)
        PROVE  \E s \in ServerRecords, change \in BOOLEAN :
                 SetServer(n, s, change) /\ s.routes = servers[n].routes
    <3> DEFINE r == servers[n]
               s == IF r.shut THEN [r EXCEPT !.serve = "done", !.listening = FALSE]
                    ELSE [r EXCEPT !.serve = "serving"]
    <3>1. s \in ServerRecords /\ s.routes = servers[n].routes
      BY <2>1 DEF ServerRecords
    <3>2. SetServer(n, s, FALSE)
      BY <2>3 DEF ServeStarts
    <3> QED
      BY <3>1, <3>2
  <2>4. ASSUME NEW n \in 1..Len(servers), ServeReturns(n)
        PROVE  \E s \in ServerRecords, change \in BOOLEAN :
                 SetServer(n, s, change) /\ s.routes = servers[n].routes
    <3> DEFINE r == servers[n]
               s == [r EXCEPT !.listening = FALSE,
                              !.serve = IF r.shut THEN "done" ELSE "failed"]
    <3>1. s \in ServerRecords /\ s.routes = servers[n].routes
      BY <2>1 DEF ServerRecords
    <3>2. SetServer(n, s, FALSE)
      BY <2>4 DEF ServeReturns
    <3> QED
      BY <3>1, <3>2
  <2>5. ASSUME NEW n \in 1..Len(servers), ServeFails(n)
        PROVE  \E s \in ServerRecords, change \in BOOLEAN :
                 SetServer(n, s, change) /\ s.routes = servers[n].routes
    <3> DEFINE r == [servers[n] EXCEPT !.serve = "done"]
               s == IF r.http THEN Cleared(r) ELSE r
    <3>1. r \in ServerRecords /\ r.routes = servers[n].routes
      BY <2>1 DEF ServerRecords
    <3>2. SetServer(n, s, r.http)
      BY <2>5 DEF ServeFails
    <3> HIDE DEF r
    <3>3. Cleared(r) \in ServerRecords
      BY <3>1, ClearedType
    <3>4. s \in ServerRecords /\ s.routes = r.routes /\ r.http \in BOOLEAN
      BY <3>1, <3>3 DEF Cleared, ServerRecords
    <3> QED
      BY <3>1, <3>2, <3>4
  <2> QED
    BY <2>2, <2>3, <2>4, <2>5 DEF ServerSteps
<1>2. servers' = [servers EXCEPT ![n] = s] /\ UNCHANGED <<viewVars, calls, mockMu, tables, history>>
      /\ now' \in {now, now + 1}
  BY <1>1 DEF SetServer
<1>3. (Current)' = IF n = Len(servers) THEN s ELSE Current
  BY <1>2, ServerChanges DEF MInv
<1>4. (Current)'.routes = Current.routes
  BY <1>1, <1>3 DEF Current
<1>5. LockInv'
  BY <1>2 DEF RInv, LockInv
<1> QED
  BY <1>2, <1>4, <1>5, RoutesQuiet

\* The current server changes at the end of a call.
LEMMA CurrentSet ==
  ASSUME MInv, NEW s \in ServerRecords, SetCurrent(s)
  PROVE  (Current)' = s /\ now' = now + 1
<1>1. Len(servers) \in 1..Len(servers)
  BY CurrentType DEF MInv
<1> QED
  BY <1>1, ServerChanges DEF MInv, SetCurrent, Changed

LEMMA RoutesBridge ==
  ASSUME MInv, RInv, BridgeSteps
  PROVE  RInv'
<1>1. /\ Current \in ServerRecords /\ tables \in Nat /\ now \in Nat
      /\ Current.routes <= tables /\ TypeInv
  BY RoutesTyped DEF RInv, TableInv, MInv
<1>2. ASSUME NEW c \in calls, Refuse(c) \/ Get(c)
      PROVE  RInv'
  <2>1. PICK failed \in BOOLEAN : Answered(c, failed, Current, now)
    BY <1>2 DEF Refuse, Get
  <2>2. c.at = "sent" /\ UNCHANGED <<viewVars, hostVars, tables, history>>
    BY <1>2 DEF Refuse, Get, Enters
  <2>3. now' = now /\ (Current)' = Current /\ mockMu' = mockMu /\ readAt' = readAt
        /\ foreignAt' = foreignAt /\ viewVars' = viewVars /\ tables' = tables
    BY <2>2 DEF hostVars, history, Current
  <2> QED
    BY <1>1, <2>1, <2>2, <2>3, RoutesServed
<1>3. ASSUME NEW c \in calls, UpdateMockRoutes(c)
      PROVE  RInv'
  <2> DEFINE s == [Current EXCEPT !.routes = c.routes]
  <2>1. c.routes \in Nat /\ c.routes <= tables
    BY RoutesTyped DEF RInv, TableInv
  <2>2. s \in ServerRecords /\ s.routes = c.routes
    BY <1>1, <2>1 DEF ServerRecords
  <2>3. /\ c.at = "sent" /\ c.kind = "apply" /\ SetCurrent(s)
        /\ Answered(c, FALSE, s, now + 1) /\ Overwrites(c)
        /\ UNCHANGED <<viewVars, mockMu, tables>>
    BY <1>3 DEF UpdateMockRoutes, Enters
  <2> HIDE DEF s
  <2>4. (Current)' = s /\ now' = now + 1
    BY <2>2, <2>3, CurrentSet
  <2>5. /\ foreignAt' = IF c.session = session THEN foreignAt ELSE now + 1
        /\ readAt' = readAt /\ viewVars' = viewVars /\ tables' = tables /\ mockMu' = mockMu
    BY <2>3 DEF Overwrites
  <2>6. \/ foreignAt' = foreignAt /\ c.session = session
        \/ foreignAt' = now' /\ now' = now + 1 /\ c.session # session
    BY <2>4, <2>5
  <2>7. PICK failed \in BOOLEAN : ~failed /\ Answered(c, failed, s, now')
    BY <2>3, <2>4
  <2> QED
    BY <1>1, <2>1, <2>2, <2>3, <2>4, <2>5, <2>6, <2>7, RoutesServed
<1>4. ASSUME NEW c \in calls, ImportMockOpenAPI(c)
      PROVE  RInv'
  <2> DEFINE s == [Current EXCEPT !.routes = tables + 1]
  <2>1. s \in ServerRecords /\ s.routes = tables + 1
    BY <1>1 DEF ServerRecords
  <2>2. /\ c.at = "sent" /\ c.kind = "import" /\ SetCurrent(s)
        /\ Answered(c, FALSE, s, now + 1) /\ Overwrites(c)
        /\ UNCHANGED <<viewVars, mockMu>> /\ tables' = tables + 1
    BY <1>4 DEF ImportMockOpenAPI, Enters
  <2> HIDE DEF s
  <2>3. (Current)' = s /\ now' = now + 1
    BY <2>1, <2>2, CurrentSet
  <2>4. /\ foreignAt' = IF c.session = session THEN foreignAt ELSE now + 1
        /\ readAt' = readAt /\ viewVars' = viewVars /\ mockMu' = mockMu
        /\ tables' \in Nat /\ tables <= tables'
    BY <1>1, <2>2 DEF Overwrites
  <2>5. \/ foreignAt' = foreignAt /\ c.session = session
        \/ foreignAt' = now' /\ now' = now + 1 /\ c.session # session
    BY <2>3, <2>4
  <2>6. PICK failed \in BOOLEAN : ~failed /\ Answered(c, failed, s, now')
    BY <2>2, <2>3
  <2> QED
    BY <1>1, <2>1, <2>2, <2>3, <2>4, <2>5, <2>6, RoutesServed
<1>5. ASSUME NEW c \in calls, ClearMockHits(c)
      PROVE  RInv'
  <2> DEFINE s == [Current EXCEPT !.hits = FALSE]
  <2>1. s \in ServerRecords /\ s.routes = Current.routes
    BY <1>1 DEF ServerRecords
  <2>2. /\ c.at = "sent" /\ SetCurrent(s) /\ Answered(c, FALSE, s, now + 1)
        /\ viewVars' = viewVars /\ mockMu' = mockMu /\ tables' = tables
        /\ readAt' = readAt /\ foreignAt' = foreignAt
    BY <1>5 DEF ClearMockHits, Enters, history
  <2> HIDE DEF s
  <2>3. (Current)' = s /\ now' = now + 1
    BY <2>1, <2>2, CurrentSet
  <2>4. PICK failed \in BOOLEAN : Answered(c, failed, s, now')
    BY <2>2, <2>3
  <2> QED
    BY <1>1, <2>1, <2>2, <2>3, <2>4, RoutesServed
<1>6. ASSUME NEW c \in calls, StartMockServer(c)
      PROVE  RInv'
  <2>1. /\ c.at = "sent" /\ viewVars' = viewVars /\ mockMu' = mockMu /\ tables' = tables
        /\ readAt' = readAt /\ foreignAt' = foreignAt
    BY <1>6 DEF StartMockServer, Enters, history
  <2>2. CASE ~MayStart(Current)
    <3>1. Answered(c, TRUE, Current, now) /\ servers' = servers /\ now' = now
      BY <1>6, <2>2 DEF StartMockServer
    <3>2. (Current)' = Current
      BY <3>1 DEF Current
    <3>3. PICK failed \in BOOLEAN : Answered(c, failed, Current, now')
      BY <3>1
    <3> QED
      BY <1>1, <2>1, <3>1, <3>2, <3>3, RoutesServed
  <2>3. CASE MayStart(Current)
    <3> DEFINE s == Started(NewServer(Current.routes))
    <3>1. s \in ServerRecords /\ s.routes = Current.routes
      BY RoutesTyped DEF Started, NewServer, ServerRecords
    <3>2. servers' = Append(servers, s) /\ now' = now + 1 /\ Answered(c, FALSE, s, now + 1)
      BY <1>6, <2>3 DEF StartMockServer, Changed
    <3> HIDE DEF s
    <3>3. (Current)' = s
      <4>1. servers \in Seq(ServerRecords)
        BY <1>1 DEF TypeInv
      <4>2. servers'[Len(servers')] = s
        BY <3>1, <3>2, <4>1
      <4> QED
        BY <4>2 DEF Current
    <3>4. PICK failed \in BOOLEAN : Answered(c, failed, s, now')
      BY <3>2
    <3> QED
      BY <1>1, <2>1, <3>1, <3>2, <3>3, <3>4, RoutesServed
  <2> QED
    BY <2>2, <2>3
<1>7. ASSUME NEW c \in calls, StopMockServer(c)
      PROVE  RInv'
  <2>1. c.at = "sent" /\ UNCHANGED <<viewVars, tables, history>>
    BY <1>7 DEF StopMockServer, Enters
  <2>2. CASE ~Current.http
    <3>1. UNCHANGED hostVars /\ \E failed \in BOOLEAN : Answered(c, failed, Current, now)
      BY <1>7, <2>2 DEF StopMockServer
    <3>2. now' = now /\ (Current)' = Current /\ mockMu' = mockMu /\ readAt' = readAt
          /\ foreignAt' = foreignAt /\ viewVars' = viewVars /\ tables' = tables
      BY <2>1, <3>1 DEF hostVars, history, Current
    <3>3. PICK failed \in BOOLEAN : Answered(c, failed, Current, now')
      BY <3>1, <3>2
    <3> QED
      BY <1>1, <2>1, <3>2, <3>3, RoutesServed
  <2>3. CASE Current.http
    <3> DEFINE e == [c EXCEPT !.at = "stopping"]
    <3>1. /\ mockMu' = c.request /\ calls' = (calls \ {c}) \cup {e}
          /\ SetCurrent(Shut(Current))
      BY <1>7, <2>3 DEF StopMockServer
    <3>2. c \in CallRecords
      BY RoutesTyped
    <3>3. /\ e.at = "stopping" /\ e.session = c.session /\ e.kind = c.kind
          /\ e.request = c.request /\ e.revision = c.revision
          /\ e.routes = c.routes /\ e.snapshot = c.snapshot
      BY <3>2 DEF CallRecords
    <3> HIDE DEF e
    <3>4. Shut(Current) \in ServerRecords /\ Shut(Current).routes = Current.routes
      BY <1>1 DEF Shut, ServerRecords
    <3>5. (Current)'.routes = Current.routes /\ now' = now + 1
      BY <3>1, <3>4, CurrentSet
    <3>6. LockInv'
      BY <3>1, <3>3 DEF LockInv
    <3> QED
      BY <2>1, <3>1, <3>3, <3>5, <3>6, RoutesQuiet
  <2> QED
    BY <2>2, <2>3
<1>8. ASSUME NEW c \in calls, NEW failed \in BOOLEAN, StopEnds(c, failed)
      PROVE  RInv'
  <2> DEFINE s == IF StillOwned(Current) THEN Cleared(Current) ELSE Current
  <2>1. s \in ServerRecords /\ s.routes = Current.routes
    BY <1>1, ClearedType DEF Cleared, ServerRecords
  <2>2. /\ c.at = "stopping" /\ SetCurrent(s) /\ Answered(c, failed, s, now + 1)
        /\ viewVars' = viewVars /\ mockMu' = Free /\ tables' = tables
        /\ readAt' = readAt /\ foreignAt' = foreignAt
    BY <1>8 DEF StopEnds, history
  <2> HIDE DEF s
  <2>3. (Current)' = s /\ now' = now + 1
    BY <2>1, <2>2, CurrentSet
  <2>4. Answered(c, failed, s, now')
    BY <2>2, <2>3
  <2> QED
    BY <1>1, <2>1, <2>2, <2>3, <2>4, RoutesServed
<1>9. CASE ShutDown
  <2> DEFINE e == [Call("shutdown", NoRoutes) EXCEPT !.session = 0, !.request = -1]
  <2>1. e.session = 0 /\ e.routes = 0 /\ e.snapshot.routes = 0
    BY DEF Call, Unread, NoRoutes
  <2>2. calls' = calls \cup {e} /\ UNCHANGED <<viewVars, hostVars, tables, history>>
    BY <1>9 DEF ShutDown
  <2> HIDE DEF e
  <2>3. (Current)' = Current /\ now' = now /\ LockInv'
    BY <2>2 DEF Current, hostVars, RInv, LockInv
  <2> QED
    BY <2>1, <2>2, <2>3, RoutesQuiet
<1> QED
  BY <1>2, <1>3, <1>4, <1>5, <1>6, <1>7, <1>8, <1>9 DEF BridgeSteps

LEMMA RoutesView ==
  ASSUME MInv, RInv, ViewSteps
  PROVE  RInv'
<1>1. routes \in Nat /\ routes <= tables /\ 0 <= tables /\ tables \in Nat
  BY RoutesTyped DEF RInv, TableInv
<1>2. CASE Start \/ Stop \/ ClearHits \/ ApplyRoutes \/ ImportOpenAPI \/ Poll
  <2>1. CASE ApplyRoutes
    BY <1>1, <2>1, RoutesSend DEF ApplyRoutes, Operations
  <2>2. CASE Poll
    BY <1>1, <2>2, RoutesSend DEF NoRoutes
  <2>3. CASE Start \/ Stop \/ ClearHits \/ ImportOpenAPI
    <3>1. PICK kind \in {"start", "stop", "clear", "import"} : Operate(kind, NoRoutes)
      BY <2>3 DEF Start, Stop, ClearHits, ImportOpenAPI
    <3> QED
      BY <1>1, <3>1, RoutesSend DEF NoRoutes, Operations
  <2> QED
    BY <1>2, <2>1, <2>2, <2>3
<1> QED
  BY <1>2, RoutesStay, RoutesReopen, RoutesAnswer DEF ViewSteps

LEMMA StepRInv ==
  ASSUME MInv, RInv, [Next]_vars
  PROVE  RInv'
<1>1. CASE UNCHANGED vars
  <2>1. UNCHANGED <<viewVars, tables, history, now, calls, mockMu, servers>>
    BY <1>1 DEF vars, hostVars
  <2>2. (Current)' = Current /\ LockInv'
    BY <2>1 DEF Current, RInv, LockInv
  <2> QED
    BY <2>1, <2>2, RoutesQuiet
<1> QED
  BY <1>1, RoutesView, RoutesBridge, RoutesServers DEF Next

\* Routes without unapplied changes are those the bridge serves, for any number
\* of calls, windows, servers and tables. (acceptSnapshot and runOperation of
\* mockServer.ts, StartMockServer)
THEOREM CleanRoutesAreApplied == Spec => []CleanIsApplied
<1>1. MInv /\ RInv => CleanIsApplied
  <2> SUFFICES ASSUME MInv, RInv PROVE CleanIsApplied
    OBVIOUS
  <2>1. MockTypeOK
    <3>1. routes \in 0..tables
      BY RoutesTyped DEF RInv, TableInv
    <3>2. \A c \in calls : c.at \in {"sent", "stopping", "answered"}
      BY RoutesTyped DEF CallRecords
    <3> QED
      BY <3>1, <3>2 DEF MockTypeOK, RInv, ViewInv, LockInv, Operations
  <2>2. ASSUME busy = "", ~dirty, readAt >= foreignAt
        PROVE  routes = Current.routes
    <3>1. \A c \in calls : ~Brings(c)
      BY <2>2, NobodyAwaited DEF Brings
    <3> QED
      BY <2>2, <3>1 DEF RInv, CleanInv
  <2> QED
    BY <2>1, <2>2 DEF CleanIsApplied
<1> QED
  BY <1>1, InitMInv, StepMInv, InitRInv, StepRInv, PTL DEF Spec
=============================================================================
