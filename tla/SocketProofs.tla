----------------------------- MODULE SocketProofs -----------------------------
(***************************************************************************)
(* Theorems about the sockets of Gateway, for every number of sockets,     *)
(* requests and users: what the map of sockets holds, and why the gateway  *)
(* ends.  They rest on what GatewayProofs shows of the requests.           *)
(***************************************************************************)
EXTENDS GatewayProofs

------------------------------------------------------------------------------
(* The inductive invariant. *)

SocketState ==
  [at : {"new", "session", "user", "done", "over"}, open : BOOLEAN,
   token : {Nobody} \union Ids, user : {Nobody} \union Owners,
   live : BOOLEAN, early : BOOLEAN]

(***************************************************************************)
(* A connection being checked belongs to nobody yet; one whose session was *)
(* found was opened with a live one; and one that is done belongs to the   *)
(* user of its session.                                                    *)
(***************************************************************************)
CheckedInTurn(k) ==
  /\ socket[k] \in SocketState
  /\ socket[k].at = "new" => socket[k].user = Nobody /\ ~socket[k].open /\ ~socket[k].early
  /\ socket[k].at \in {"session", "user", "done"} =>
       socket[k].token \in Ids /\ sessions[socket[k].token] # None
  /\ Checking(k) => socket[k].user = Nobody /\ (socket[k].open \/ socket[k].early)
  /\ socket[k].at = "session" /\ Live(socket[k].token) => socket[k].live
  /\ socket[k].at \in {"user", "done"} => socket[k].live
  /\ socket[k].at = "done" => socket[k].user = Owner(k)
  /\ socket[k].open => socket[k].at # "over" /\ ~socket[k].early

(* The map has a socket once from its check on, until it is disconnected,  *)
(* or, if it was disconnected before, until the process ends.              *)
InMap(u, k) ==
  /\ socket[k].at = "done" /\ socket[k].user = u
  /\ socket[k].open \/ socket[k].early

MapTells(k) == \A u \in Owners : userSocketMap[u][k] = IF InMap(u, k) THEN 1 ELSE 0

(* The process was ended by a socket that is over, whose user was gone. *)
EndedByTheGone ==
  \A k \in ended :
    /\ socket[k].at = "over"
    /\ copy = "gateway" => /\ socket[k].token \in Ids /\ sessions[socket[k].token] # None
                           /\ ~Exists(Owner(k))

(* Nobody has a session, or is about to have one, before being created. *)
UnbornHaveNothing ==
  \A c \in Calls :
    call[c].at \notin {"open", "done", "failed"} =>
      /\ \A s \in Ids : sessions[s] # None => sessions[s].user # c
      /\ \A d \in Calls : call[d].at = "open" => call[d].user # c

SocketsShape ==
  /\ copy \in {"gateway", "notification"} /\ DOMAIN socket = Sockets
  /\ userSocketMap \in [Owners -> [Sockets -> Nat]] /\ ended \subseteq Sockets

SocketsInv ==
  /\ SocketsShape /\ \A k \in Sockets : CheckedInTurn(k) /\ MapTells(k)
  /\ EndedByTheGone /\ UnbornHaveNothing

------------------------------------------------------------------------------
(* What the requests do that matters to the sockets. *)

LEMMA SessionsKept ==
  ASSUME Shape, [GatewayNext]_gatewayVars
  PROVE  SessionsStay /\ clock' \in Nat /\ clock \in Nat /\ clock <= clock'
<1>1. clock \in Nat
  BY AccountsAssumption DEF Shape
<1>2. CASE UNCHANGED vars \/ Tick \/ Aborted
  BY <1>1, <1>2 DEF vars, Tick, Aborted, SessionsStay
<1>3. ASSUME NEW c \in Calls, Asks(c) \/ Edits(c) \/ RemoveUser(c) \/ InsertUser(c)
      PROVE  UNCHANGED <<sessions, clock>>
  BY <1>3, AskFrame, EditEffect, RemovalEffect, InsertEffect DEF Edited, Changed
<1>4. ASSUME NEW c \in Calls, Writes(c) PROVE SessionsStay /\ clock' = clock
  BY <1>4, WriteEffect, WriteFrame
<1> QED
  BY <1>1, <1>2, <1>3, <1>4, StepsByKind DEF SessionsStay

(* A session that is not live will not be. *)
LEMMA LiveBefore ==
  ASSUME Shape, [GatewayNext]_gatewayVars, NEW s \in Ids, sessions[s] # None, Live(s)'
  PROVE  Live(s)
<1>1. /\ sessions'[s].iat = sessions[s].iat
      /\ sessions[s].revoked => sessions'[s].revoked
      /\ clock' \in Nat /\ clock \in Nat /\ clock <= clock'
  BY SessionsKept DEF SessionsStay
<1>2. sessions[s].iat \in Nat
  BY AccountsAssumption DEF Shape, SessionsShape, Session
<1> QED
  <2>1. AccessLife \in Nat
    BY AccountsAssumption
  <2>2. sessions'[s].iat + AccessLife > clock' /\ ~sessions'[s].revoked
    BY DEF Live
  <2> QED
    BY <1>1, <1>2, <2>1, <2>2 DEF Live

(* Only an insertion brings a user about. *)
LEMMA OnlyInserted ==
  ASSUME Shape, [GatewayNext]_gatewayVars, NEW u \in Ids, ~Exists(u), Exists(u)'
  PROVE  u \in Calls /\ call[u].at = "insert"
<1> USE DEF Exists
<1>1. ASSUME NEW c \in Calls, NEW v \in Ids, Edited(c, v) PROVE FALSE
  BY <1>1 DEF Edited, Changed
<1>2. ASSUME NEW c \in Calls, RemoveUser(c) PROVE FALSE
  BY <1>2, RemovalEffect DEF Changed
<1>3. ASSUME NEW c \in Calls, InsertUser(c) PROVE u = c /\ call[c].at = "insert"
  BY <1>3, InsertEffect
<1> QED
  BY <1>1, <1>2, <1>3, OtherSteps

LEMMA UnbornStep ==
  ASSUME Shape, NotYetCreated, UnbornHaveNothing, [GatewayNext]_gatewayVars
  PROVE  UnbornHaveNothing'
<1> USE DEF UnbornHaveNothing
<1>1. CASE UNCHANGED vars \/ Tick
  BY <1>1 DEF vars, Tick
<1>2. CASE Aborted
  BY <1>2 DEF Aborted, Restarted, Idle
<1>3. ASSUME NEW c \in Calls, Asks(c) PROVE UnbornHaveNothing'
  <2>1. /\ \A d \in Calls \ {c} : call'[d] = call[d]
        /\ call[c].at \notin {"done", "failed"}
        /\ call[c].at = "open" => call'[c].at = "failed"
        /\ call'[c].at = "open" => Exists(call[c].user)'
        /\ UNCHANGED <<users, sessions>>
    BY <1>3, AskFrame, AskEffect DEF Asked
  <2>2. ASSUME NEW d \in Calls, d # c, call'[c].at = "open",
               call[d].at \notin {"open", "done", "failed"}
        PROVE  call'[c].user # d
    BY <2>1, <2>2 DEF NotYetCreated, Exists
  <2>3. ASSUME NEW d \in Calls, call'[d].at \notin {"open", "done", "failed"}
        PROVE  call[d].at \notin {"open", "done", "failed"}
    BY <2>1, <2>3
  <2>4. ASSUME NEW d \in Calls, NEW e \in Calls, call'[d].at \notin {"open", "done", "failed"},
               call'[e].at = "open"
        PROVE  call'[e].user # d
    <3>1. CASE e = c
      BY <2>1, <2>2, <2>3, <2>4, <3>1
    <3>2. CASE e # c
      BY <2>1, <2>3, <2>4, <3>2
    <3> QED
      BY <3>1, <3>2
  <2> QED
    BY <2>1, <2>3, <2>4
<1>4. ASSUME NEW c \in Calls, Writes(c) PROVE UnbornHaveNothing'
  <2>1. /\ \A d \in Calls \ {c} : call'[d] = call[d]
        /\ call'[c].at = "done"
        /\ \A s \in Ids : sessions[s] # None => sessions'[s].user = sessions[s].user
        /\ \A s \in Ids : sessions[s] = None /\ sessions'[s] # None =>
             call[c].at = "open" /\ sessions'[s].user = call[c].user
    BY <1>4, WriteEffect DEF Written, SessionsStay
  <2>2. ASSUME NEW d \in Calls \ {c}, call[d].at \notin {"open", "done", "failed"},
               NEW s \in Ids, sessions'[s] # None
        PROVE  sessions'[s].user # d
    BY <2>1, <2>2
  <2> QED
    BY <2>1, <2>2
<1>5. ASSUME NEW c \in Calls, NEW u \in Ids, Changed(c, u) PROVE UnbornHaveNothing'
  BY <1>5 DEF Changed, Written, Keeps
<1>6. ASSUME NEW c \in Calls, InsertUser(c) PROVE UnbornHaveNothing'
  BY <1>6, InsertEffect
<1>7. ASSUME NEW c \in Calls, Edits(c) \/ RemoveUser(c) PROVE UnbornHaveNothing'
  BY <1>5, <1>7, EditEffect, RemovalEffect DEF Edited, Changed
<1> QED
  BY <1>1, <1>2, <1>3, <1>4, <1>6, <1>7, StepsByKind

(* A socket is as it was when a step does not touch it. *)
LEMMA Untouched ==
  ASSUME Shape, [GatewayNext]_gatewayVars, NEW k \in Sockets, CheckedInTurn(k), MapTells(k),
         socket'[k] = socket[k], \A u \in Owners : userSocketMap'[u][k] = userSocketMap[u][k]
  PROVE  CheckedInTurn(k)' /\ MapTells(k)'
<1>1. ASSUME socket[k].token \in Ids, sessions[socket[k].token] # None
      PROVE  /\ sessions'[socket[k].token] # None
             /\ sessions'[socket[k].token].user = sessions[socket[k].token].user
             /\ Live(socket[k].token)' => Live(socket[k].token)
  <2>1. PICK s \in Ids : s = socket[k].token /\ s = socket'[k].token
    BY <1>1
  <2>2. Live(s)' => Live(s)
    BY <1>1, <2>1, LiveBefore
  <2> QED
    BY <1>1, <2>1, <2>2, SessionsKept DEF SessionsStay, Live
<1>2. MapTells(k)'
  BY DEF MapTells, InMap
<1>3. CheckedInTurn(k)'
  BY <1>1 DEF CheckedInTurn, Checking, Owner, SocketState, Live
<1> QED
  BY <1>2, <1>3

------------------------------------------------------------------------------
(* What the sockets' own steps do. *)

(* Every step of a socket but the last it can take touches only that socket. *)
Alone(k) ==
  /\ DOMAIN socket' = Sockets /\ copy' = copy /\ ended' = ended
  /\ userSocketMap' \in [Owners -> [Sockets -> Nat]]
  /\ \A j \in Sockets \ {k} :
       /\ socket'[j] = socket[j]
       /\ \A u \in Owners : userSocketMap'[u][j] = userSocketMap[u][j]
  /\ socket[k].at = "over" => socket'[k] = socket[k]
  /\ CheckedInTurn(k)' /\ MapTells(k)'

(* A step that leaves the map as it is: what is left to show is of the socket. *)
LEMMA AloneInSocket ==
  ASSUME SocketsShape, NEW k \in Sockets, MapTells(k), NEW new,
         socket' = [socket EXCEPT ![k] = new], UNCHANGED <<copy, userSocketMap, ended>>,
         socket[k].at # "over" \/ new = socket[k], CheckedInTurn(k)',
         \A u \in Owners : InMap(u, k)' <=> InMap(u, k)
  PROVE  Alone(k)
<1>1. MapTells(k)'
  BY DEF MapTells
<1> QED
  BY <1>1 DEF Alone, SocketsShape

LEMMA RefuseEffect ==
  ASSUME SocketsShape, NEW k \in Sockets, CheckedInTurn(k), MapTells(k), Checking(k), Refuse(k)
  PROVE  Alone(k)
<1> DEFINE new == [socket[k] EXCEPT !.at = "over", !.open = FALSE]
<1>1. /\ socket' = [socket EXCEPT ![k] = new] /\ UNCHANGED <<copy, userSocketMap, ended>>
      /\ socket[k].at \in {"session", "user"} /\ socket[k] \in SocketState
  BY DEF Refuse, Checking, CheckedInTurn
<1>2. /\ new \in SocketState /\ new.at = "over" /\ ~new.open
  BY <1>1 DEF SocketState
<1> HIDE DEF new
<1>3. socket'[k] = new
  BY <1>1 DEF SocketsShape
<1>4. CheckedInTurn(k)' /\ \A u \in Owners : InMap(u, k)' <=> InMap(u, k)
  BY <1>1, <1>2, <1>3 DEF CheckedInTurn, Checking, InMap
<1> QED
  BY <1>1, <1>4, AloneInSocket

(* The process ends under notification's guard, or for a user who is gone. *)
Ending(k) ==
  /\ EndProcess(k)
  /\ copy = "gateway" => socket[k].at = "user" /\ ~Exists(Owner(k))

LEMMA HandshakeEffect ==
  ASSUME SocketsShape, NEW k \in Sockets, CheckedInTurn(k), MapTells(k), NEW s \in Ids,
         sessions[s] # None, Handshake(k, s, Dated(s), Live(s)), UNCHANGED <<sessions, clock>>
  PROVE  Alone(k) \/ Ending(k)
<1>0. /\ socket[k].at = "new" /\ socket[k] \in SocketState
      /\ socket[k].user = Nobody /\ ~socket[k].open /\ ~socket[k].early
  BY DEF Handshake, CheckedInTurn
<1>1. CASE socket' = [socket EXCEPT ![k].at = "over"] /\ UNCHANGED <<copy, userSocketMap, ended>>
  <2> DEFINE new == [socket[k] EXCEPT !.at = "over"]
  <2>1. new \in SocketState /\ new.at = "over" /\ ~new.open
    BY <1>0 DEF SocketState
  <2>2. socket' = [socket EXCEPT ![k] = new]
    BY <1>1
  <2> HIDE DEF new
  <2>3. socket'[k] = new
    BY <2>2 DEF SocketsShape
  <2>4. CheckedInTurn(k)' /\ \A u \in Owners : InMap(u, k)' <=> InMap(u, k)
    BY <1>0, <2>1, <2>3 DEF CheckedInTurn, Checking, InMap
  <2> QED
    BY <1>0, <1>1, <2>2, <2>4, AloneInSocket
<1>2. CASE /\ socket' = [socket EXCEPT ![k] = [@ EXCEPT !.at = "session", !.open = TRUE,
                                                        !.token = s, !.live = Live(s)]]
           /\ UNCHANGED <<copy, userSocketMap, ended>>
  <2> DEFINE new == [socket[k] EXCEPT !.at = "session", !.open = TRUE,
                                      !.token = s, !.live = Live(s)]
  <2>0. Live(s) \in BOOLEAN /\ (Live(s)' <=> Live(s))
    BY DEF Live
  <2>1. /\ new \in SocketState /\ new.at = "session" /\ new.token = s /\ new.live = Live(s)
        /\ new.user = Nobody /\ new.open /\ ~new.early
    BY <1>0, <2>0 DEF SocketState
  <2>2. socket' = [socket EXCEPT ![k] = new]
    BY <1>2
  <2> HIDE DEF new
  <2>3. socket'[k] = new
    BY <2>2 DEF SocketsShape
  <2>4. Live(socket[k].token)' => new.live
    BY <2>0, <2>1, <2>3 DEF Live
  <2>5. CheckedInTurn(k)' /\ \A u \in Owners : InMap(u, k)' <=> InMap(u, k)
    BY <1>0, <2>1, <2>3, <2>4 DEF CheckedInTurn, Checking, InMap
  <2> QED
    BY <1>0, <1>2, <2>2, <2>5, AloneInSocket
<1>3. CASE copy = "notification" /\ EndProcess(k)
  BY <1>3 DEF Ending
<1> QED
  BY <1>1, <1>2, <1>3 DEF Handshake

LEMMA SessionFound ==
  ASSUME SocketsShape, NEW k \in Sockets, CheckedInTurn(k), MapTells(k),
         FindSession(k, Live(socket[k].token)), UNCHANGED <<sessions, clock>>
  PROVE  Alone(k)
<1>0. socket[k].at = "session" /\ socket[k] \in SocketState
  BY DEF FindSession, CheckedInTurn
<1>1. CASE Refuse(k)
  BY <1>0, <1>1, RefuseEffect DEF Checking
<1>2. CASE /\ Live(socket[k].token) /\ socket' = [socket EXCEPT ![k].at = "user"]
           /\ UNCHANGED <<copy, userSocketMap, ended>>
  <2> DEFINE new == [socket[k] EXCEPT !.at = "user"]
  <2>1. /\ new \in SocketState /\ new.at = "user" /\ new.token = socket[k].token
        /\ new.live = socket[k].live /\ new.user = socket[k].user
        /\ new.open = socket[k].open /\ new.early = socket[k].early
    BY <1>0 DEF SocketState
  <2>2. socket' = [socket EXCEPT ![k] = new]
    BY <1>2
  <2> HIDE DEF new
  <2>3. socket'[k] = new
    BY <2>2 DEF SocketsShape
  <2>4. CheckedInTurn(k)' /\ \A u \in Owners : InMap(u, k)' <=> InMap(u, k)
    BY <1>0, <1>2, <2>1, <2>3 DEF CheckedInTurn, Checking, InMap
  <2> QED
    BY <1>0, <1>2, <2>2, <2>4, AloneInSocket
<1> QED
  BY <1>1, <1>2 DEF FindSession

LEMMA UserFound ==
  ASSUME SocketsShape, Shape, NEW k \in Sockets, CheckedInTurn(k), MapTells(k),
         FindUser(k, Owner(k), Exists(Owner(k))), UNCHANGED <<sessions, clock>>
  PROVE  Alone(k) \/ Ending(k)
<1>0. /\ socket[k].at = "user" /\ socket[k] \in SocketState /\ socket[k].user = Nobody
      /\ socket[k].live /\ socket[k].token \in Ids /\ sessions[socket[k].token] # None
      /\ Owner(k) \in Owners /\ Nobody \notin Owners
  <2>1. /\ socket[k].at = "user" /\ socket[k] \in SocketState /\ socket[k].user = Nobody
        /\ socket[k].live /\ socket[k].token \in Ids /\ sessions[socket[k].token] # None
    BY DEF FindUser, CheckedInTurn, Checking
  <2> QED
    BY <2>1, GatewayAssumption, RealtimeAssumption DEF Owner, Shape, SessionsShape, Session
<1>1. CASE EndProcess(k) /\ ~Exists(Owner(k))
  BY <1>0, <1>1 DEF Ending
<1>2. CASE /\ socket' = [socket EXCEPT ![k] = [@ EXCEPT !.at = "done", !.user = Owner(k)]]
           /\ userSocketMap' = [userSocketMap EXCEPT ![Owner(k)][k] = @ + 1]
           /\ UNCHANGED <<copy, ended>>
  <2> DEFINE new == [socket[k] EXCEPT !.at = "done", !.user = Owner(k)]
             u == Owner(k)
  <2>1. /\ new \in SocketState /\ new.at = "done" /\ new.token = socket[k].token
        /\ new.live = socket[k].live /\ new.user = u
        /\ new.open = socket[k].open /\ new.early = socket[k].early
    BY <1>0 DEF SocketState
  <2>2. socket' = [socket EXCEPT ![k] = new]
    BY <1>2
  <2> HIDE DEF new
  <2>3. socket'[k] = new /\ DOMAIN socket' = Sockets /\ \A j \in Sockets \ {k} : socket'[j] = socket[j]
    BY <2>2 DEF SocketsShape
  <2>4. CheckedInTurn(k)'
    BY <1>0, <2>1, <2>3 DEF CheckedInTurn, Checking, Owner
  <2>5. /\ userSocketMap' \in [Owners -> [Sockets -> Nat]]
        /\ \A v \in Owners, j \in Sockets :
             userSocketMap'[v][j] = IF v = u /\ j = k THEN userSocketMap[v][j] + 1
                                    ELSE userSocketMap[v][j]
    BY <1>0, <1>2 DEF SocketsShape
  <2>6. MapTells(k)'
    <3>1. socket[k].open \/ socket[k].early
      BY <1>0 DEF CheckedInTurn, Checking
    <3>2. \A v \in Owners : userSocketMap[v][k] = 0 /\ (InMap(v, k)' <=> v = u)
      BY <1>0, <2>1, <2>3, <3>1 DEF MapTells, InMap
    <3> QED
      BY <1>0, <2>5, <3>2 DEF MapTells
  <2> QED
    BY <1>0, <1>2, <2>3, <2>4, <2>5, <2>6 DEF Alone
<1> QED
  BY <1>1, <1>2 DEF FindUser

LEMMA DisconnectEffect ==
  ASSUME SocketsShape, NEW k \in Sockets, CheckedInTurn(k), MapTells(k), Disconnect(k),
         UNCHANGED <<sessions, clock>>
  PROVE  Alone(k)
<1> DEFINE new == [socket[k] EXCEPT !.open = FALSE, !.early = Checking(k)]
<1>0. /\ socket[k].open /\ socket[k] \in SocketState /\ socket[k].at \notin {"new", "over"}
      /\ Checking(k) \in BOOLEAN
      /\ socket' = [socket EXCEPT ![k] = new] /\ UNCHANGED <<copy, ended>>
      /\ userSocketMap' = [u \in Owners |-> IF u = socket[k].user
                                            THEN Without(userSocketMap[u], k)
                                            ELSE userSocketMap[u]]
  BY DEF Disconnect, CheckedInTurn, Checking
<1>1. /\ new \in SocketState /\ new.at = socket[k].at /\ new.token = socket[k].token
      /\ new.live = socket[k].live /\ new.user = socket[k].user
      /\ ~new.open /\ (new.early <=> Checking(k))
  BY <1>0 DEF SocketState
<1> HIDE DEF new
<1>2. socket'[k] = new /\ DOMAIN socket' = Sockets /\ \A j \in Sockets \ {k} : socket'[j] = socket[j]
  BY <1>0 DEF SocketsShape
<1>3. CheckedInTurn(k)'
  <2>1. Checking(k)' <=> Checking(k)
    BY <1>1, <1>2 DEF Checking
  <2>2. Owner(k)' = Owner(k) /\ (Live(socket[k].token)' <=> Live(socket[k].token))
    BY <1>1, <1>2 DEF Owner, Live
  <2> QED
    BY <1>0, <1>1, <1>2, <2>1, <2>2 DEF CheckedInTurn
<1>4. /\ userSocketMap' \in [Owners -> [Sockets -> Nat]]
      /\ \A u \in Owners, j \in Sockets :
           userSocketMap'[u][j] = IF u = socket[k].user /\ j = k THEN 0 ELSE userSocketMap[u][j]
  <2>1. ASSUME NEW u \in Owners
        PROVE  /\ Without(userSocketMap[u], k) \in [Sockets -> Nat]
               /\ \A j \in Sockets : Without(userSocketMap[u], k)[j]
                                       = IF j = k THEN 0 ELSE userSocketMap[u][j]
    BY DEF SocketsShape, Without
  <2> HIDE DEF Without
  <2> QED
    BY <1>0, <2>1 DEF SocketsShape
<1>5. MapTells(k)'
  <2>1. ASSUME NEW u \in Owners PROVE userSocketMap'[u][k] = IF InMap(u, k)' THEN 1 ELSE 0
    <3>1. InMap(u, k)' <=> FALSE
      BY <1>1, <1>2, <1>3 DEF InMap, Checking
    <3>2. u # socket[k].user => userSocketMap[u][k] = 0
      BY DEF MapTells, InMap
    <3> QED
      BY <1>4, <3>1, <3>2
  <2> QED
    BY <2>1 DEF MapTells
<1> QED
  BY <1>0, <1>2, <1>3, <1>4, <1>5 DEF Alone

LEMMA ConnectionEffect ==
  ASSUME SocketsShape, Shape, NEW k \in Sockets, CheckedInTurn(k), MapTells(k), Connection(k),
         UNCHANGED <<sessions, clock>>
  PROVE  Alone(k) \/ Ending(k)
<1>1. CASE \E r \in Rooms : Join(k, r) \/ Leave(k, r)
  <2>1. UNCHANGED <<copy, socket, userSocketMap, ended>>
    BY <1>1 DEF Join, Leave
  <2>2. CheckedInTurn(k)' /\ MapTells(k)'
    BY <2>1 DEF CheckedInTurn, MapTells, InMap, Checking, Owner, Live
  <2> QED
    BY <2>1, <2>2 DEF Alone, SocketsShape
<1>2. CASE \E s \in Ids : sessions[s] # None /\ Handshake(k, s, Dated(s), Live(s))
  BY <1>2, HandshakeEffect
<1>3. CASE FindSession(k, Live(socket[k].token))
  BY <1>3, SessionFound
<1>4. CASE FindUser(k, Owner(k), Exists(Owner(k)))
  BY <1>4, UserFound
<1>5. CASE CheckFails(k)
  BY <1>5, RefuseEffect DEF CheckFails
<1>6. CASE Disconnect(k)
  BY <1>6, DisconnectEffect
<1> QED
  BY <1>1, <1>2, <1>3, <1>4, <1>5, <1>6 DEF Connection

(* The process ends: whatever was connected is over, and the map is empty. *)
LEMMA EndingEffect ==
  ASSUME SocketsShape, NEW k \in Sockets, EndProcess(k), UNCHANGED <<sessions, clock>>,
         NEW j \in Sockets, CheckedInTurn(j), MapTells(j)
  PROVE  /\ CheckedInTurn(j)' /\ MapTells(j)' /\ socket'[j].token = socket[j].token
         /\ socket[j].at = "over" \/ j = k => socket'[j].at = "over"
<1>1. /\ socket'[j] = IF socket[j].at = "new" /\ j # k THEN socket[j]
                      ELSE [socket[j] EXCEPT !.at = "over", !.open = FALSE]
      /\ userSocketMap' = [u \in Owners |-> NoSockets]
  BY DEF EndProcess
<1>2. \A u \in Owners : userSocketMap'[u][j] = 0
  BY <1>1 DEF NoSockets
<1>3. socket[j] \in SocketState
  BY DEF CheckedInTurn
<1>4. CASE socket[j].at = "new" /\ j # k
  <2>1. socket'[j] = socket[j] /\ socket[j].user = Nobody /\ ~socket[j].open /\ ~socket[j].early
    BY <1>1, <1>4 DEF CheckedInTurn
  <2> QED
    BY <1>2, <1>3, <1>4, <2>1 DEF CheckedInTurn, Checking, MapTells, InMap
<1>5. CASE ~(socket[j].at = "new" /\ j # k)
  <2>1. /\ socket'[j] \in SocketState /\ socket'[j].at = "over" /\ ~socket'[j].open
        /\ socket'[j].token = socket[j].token
    BY <1>1, <1>3, <1>5 DEF SocketState
  <2> QED
    BY <1>2, <2>1 DEF CheckedInTurn, Checking, MapTells, InMap
<1> QED
  BY <1>4, <1>5

LEMMA EndedShape ==
  ASSUME SocketsShape, NEW k \in Sockets, EndProcess(k)
  PROVE  SocketsShape'
<1>1. NoSockets \in [Sockets -> Nat]
  BY DEF NoSockets
<1> QED
  BY <1>1 DEF SocketsShape, EndProcess

------------------------------------------------------------------------------
(* The invariant is preserved. *)

(* A step of the gateway is one of its requests, or one of a socket. *)
LEMMA EitherSide ==
  ASSUME [GatewayNext]_gatewayVars
  PROVE  \/ UNCHANGED realtime
         \/ \E k \in Sockets : Connection(k) /\ UNCHANGED <<users, sessions, clock>>
BY DEF GatewayNext, gatewayVars, WithRequests

(* The user of a session who is gone does not come back. *)
LEMMA GoneStays ==
  ASSUME Shape, UnbornHaveNothing, [GatewayNext]_gatewayVars,
         NEW s \in Ids, sessions[s] # None, ~Exists(sessions[s].user)
  PROVE  /\ sessions'[s] # None /\ sessions'[s].user = sessions[s].user
         /\ ~Exists(sessions[s].user)'
<1>1. PICK u \in Ids : u = sessions[s].user
  BY DEF Shape, SessionsShape, Session
<1>2. sessions'[s] # None /\ sessions'[s].user = u
  BY <1>1, SessionsKept DEF SessionsStay
<1>3. ~Exists(u)'
  <2>1. u \in Calls /\ call[u].at = "insert" => FALSE
    BY <1>1 DEF UnbornHaveNothing
  <2> QED
    BY <1>1, <2>1, OnlyInserted
<1> QED
  BY <1>1, <1>2, <1>3 DEF Exists

LEMMA SocketsStep ==
  ASSUME IInv, SocketsInv, [GatewayNext]_gatewayVars
  PROVE  SocketsInv'
<1>0. /\ Shape /\ NotYetCreated /\ SocketsShape /\ EndedByTheGone /\ UnbornHaveNothing
      /\ \A k \in Sockets : CheckedInTurn(k) /\ MapTells(k)
  BY DEF IInv, SocketsInv
<1>1. UnbornHaveNothing'
  BY <1>0, UnbornStep
<1>2. CASE UNCHANGED realtime
  <2>1. UNCHANGED <<copy, socket, userSocketMap, ended>>
    BY <1>2 DEF realtime
  <2>2. \A k \in Sockets : CheckedInTurn(k)' /\ MapTells(k)'
    BY <1>0, <2>1, Untouched
  <2>3. ASSUME NEW k \in ended, copy = "gateway"
        PROVE  /\ socket[k].token \in Ids /\ sessions'[socket[k].token] # None
               /\ sessions'[socket[k].token].user = Owner(k) /\ users'[Owner(k)] = None
    <3>1. /\ socket[k].token \in Ids /\ sessions[socket[k].token] # None
          /\ ~Exists(sessions[socket[k].token].user)
      BY <1>0, <2>3 DEF EndedByTheGone, Owner
    <3> QED
      BY <1>0, <3>1, GoneStays DEF Owner, Exists
  <2>4. EndedByTheGone'
    BY <1>0, <2>1, <2>3 DEF EndedByTheGone, Owner, Exists
  <2> QED
    BY <1>0, <1>1, <2>1, <2>2, <2>4 DEF SocketsInv, SocketsShape
<1>3. ASSUME NEW k \in Sockets, Connection(k), UNCHANGED <<users, sessions, clock>>
      PROVE  SocketsInv'
  <2>1. CASE Alone(k)
    <3>1. SocketsShape'
      BY <1>0, <2>1 DEF SocketsShape, Alone
    <3>2. \A j \in Sockets : CheckedInTurn(j)' /\ MapTells(j)'
      BY <1>0, <2>1, Untouched DEF Alone
    <3>3. \A j \in ended : socket'[j] = socket[j]
      BY <1>0, <2>1 DEF Alone, EndedByTheGone, SocketsShape
    <3>4. EndedByTheGone'
      BY <1>0, <1>3, <2>1, <3>3 DEF EndedByTheGone, Alone, Owner, Exists
    <3> QED
      BY <1>1, <3>1, <3>2, <3>4 DEF SocketsInv
  <2>2. CASE Ending(k)
    <3>1. SocketsShape'
      BY <1>0, <2>2, EndedShape DEF Ending
    <3>2. ASSUME NEW j \in Sockets
          PROVE  /\ CheckedInTurn(j)' /\ MapTells(j)' /\ socket'[j].token = socket[j].token
                 /\ socket[j].at = "over" \/ j = k => socket'[j].at = "over"
      BY <1>0, <1>3, <2>2, EndingEffect DEF Ending
    <3>3. ended' = ended \union {k} /\ copy' = copy
      BY <2>2 DEF Ending, EndProcess
    <3>4. copy = "gateway" => /\ socket[k].token \in Ids /\ sessions[socket[k].token] # None
                              /\ ~Exists(Owner(k))
      BY <1>0, <2>2 DEF Ending, CheckedInTurn
    <3>5. EndedByTheGone'
      BY <1>0, <1>3, <3>2, <3>3, <3>4 DEF EndedByTheGone, Owner, Exists, SocketsShape
    <3> QED
      BY <1>1, <3>1, <3>2, <3>5 DEF SocketsInv
  <2> QED
    BY <1>0, <1>3, <2>1, <2>2, ConnectionEffect
<1> QED
  BY <1>2, <1>3, EitherSide

LEMMA InitSockets == GatewayInit => SocketsInv
<1> SUFFICES ASSUME GatewayInit PROVE SocketsInv
  OBVIOUS
<1>1. /\ copy \in {"gateway", "notification"} /\ socket = [k \in Sockets |-> Unconnected]
      /\ userSocketMap = [u \in Owners |-> NoSockets] /\ ended = {}
      /\ call = [c \in Calls |-> Idle]
      /\ sessions = [s \in Ids |-> IF s = First THEN [user |-> First, iat |-> 0, revoked |-> FALSE]
                                   ELSE None]
  BY DEF GatewayInit, RealtimeInit, Init
<1>2. SocketsShape /\ EndedByTheGone
  BY <1>1 DEF SocketsShape, EndedByTheGone, NoSockets
<1>3. UnbornHaveNothing
  BY <1>1, AccountsAssumption DEF UnbornHaveNothing, Idle
<1>4. ASSUME NEW k \in Sockets PROVE CheckedInTurn(k) /\ MapTells(k)
  BY <1>1 DEF CheckedInTurn, MapTells, InMap, Checking, Unconnected, SocketState, NoSockets
<1> QED
  BY <1>2, <1>3, <1>4 DEF SocketsInv

LEMMA SocketsInvariance == GatewaySpec => [](IInv /\ SocketsInv)
<1>1. GatewayInit => IInv /\ SocketsInv
  BY InitIInv, InitSockets
<1>2. (IInv /\ SocketsInv) /\ [GatewayNext]_gatewayVars => (IInv /\ SocketsInv)'
  BY IInvStep, SocketsStep
<1> QED
  BY <1>1, <1>2, PTL DEF GatewaySpec

(***************************************************************************)
(* handleConnection and handleDisconnect keep the list of every user: each *)
(* open socket of the user that has passed its check is there once, and no *)
(* other open one, however sockets come, go and are checked, and whenever  *)
(* the process ends.                                                       *)
(***************************************************************************)
THEOREM OpenAreStored == GatewaySpec => []OnlineIsStored
<1>1. SocketsInv => OnlineIsStored
  BY DEF SocketsInv, MapTells, InMap, OnlineIsStored
<1> QED
  BY <1>1, SocketsInvariance, PTL

(* What the map has of a closed socket is there because handleDisconnect came *)
(* before the end of its check.                                               *)
THEOREM StaleWereEarly == GatewaySpec => []StaleEntriesAreLateChecks
<1>1. SocketsInv => StaleEntriesAreLateChecks
  BY DEF SocketsInv, MapTells, InMap, StaleEntriesAreLateChecks, Stored
<1> QED
  BY <1>1, SocketsInvariance, PTL

(* No socket is stored for anyone but the user of the session it was opened   *)
(* with, and only if that session was live then.                              *)
THEOREM StoredAreAuthentic == GatewaySpec => []StoredWasAuthentic
<1>1. SocketsInv => StoredWasAuthentic
  BY GatewayAssumption
     DEF SocketsInv, MapTells, InMap, CheckedInTurn, StoredWasAuthentic, Stored
<1> QED
  BY <1>1, SocketsInvariance, PTL

(* handleConnection ends the API gateway only when the user of a live session *)
(* has been deleted, and that user stays deleted.                             *)
THEOREM EndedByDeletion == GatewaySpec => []EndsOnlyForTheGone
<1>1. SocketsInv => EndsOnlyForTheGone
  BY DEF SocketsInv, EndedByTheGone, EndsOnlyForTheGone
<1> QED
  BY <1>1, SocketsInvariance, PTL
==============================================================================
