------------------------------ MODULE Realtime ------------------------------
(***************************************************************************)
(* The socket.io gateway (RealtimeGateway) and the check of a token that   *)
(* opens a connection (WsJwtGuard).  The repository has two copies of the  *)
(* gateway that handle connections and rooms alike, in the API gateway and *)
(* in the notification service, and two different guards.                  *)
(*                                                                         *)
(* What the guard's queries find is a parameter of the actions here: it    *)
(* belongs to the database, which the module that extends this one models. *)
(***************************************************************************)
EXTENDS Naturals

CONSTANTS
  Sockets,  \* connections, each made once
  Owners,   \* the ids of users
  Rooms,    \* names of rooms; those of entities, "type-id", among them
  Nobody    \* no user, no token

ASSUME RealtimeAssumption == Nobody \notin Owners

VARIABLES
  copy,           \* "gateway" or "notification": whose process this is
  socket,         \* each connection, and client.data.user
  userSocketMap,  \* how often the list of each user has each socket; no list is an
                  \* empty one, and the order of a list tells nobody anything
  rooms,          \* the sockets in each room, which socket.io keeps
  ended           \* history: the sockets whose handling ended the process

realtime == <<copy, socket, userSocketMap, rooms, ended>>

Unconnected == [at |-> "new", open |-> FALSE, token |-> Nobody, user |-> Nobody,
                live |-> FALSE, early |-> FALSE]

NoSockets == [k \in Sockets |-> 0]

RealtimeInit ==
  /\ copy \in {"gateway", "notification"}
  /\ socket = [k \in Sockets |-> Unconnected]
  /\ userSocketMap = [u \in Owners |-> NoSockets]
  /\ rooms = [r \in Rooms |-> {}]
  /\ ended = {}

Checking(k) == socket[k].at \in {"session", "user"}

Stored(u, k) == userSocketMap[u][k] > 0

LeaveAll(k) == rooms' = [r \in Rooms |-> rooms[r] \ {k}]

(***************************************************************************)
(* handleConnection reads the id of a user that is not there; nobody       *)
(* handles the rejection, and Node.js ends the process.  Docker starts it  *)
(* again, with nothing of what it held.                                    *)
(***************************************************************************)
EndProcess(k) ==
  /\ socket' = [j \in Sockets |->
                  IF socket[j].at = "new" /\ j # k THEN socket[j]
                  ELSE [socket[j] EXCEPT !.at = "over", !.open = FALSE]]
  /\ userSocketMap' = [u \in Owners |-> NoSockets]
  /\ rooms' = [r \in Rooms |-> {}]
  /\ ended' = ended \union {k}
  /\ UNCHANGED copy

(***************************************************************************)
(* handleConnection starts with a token, which jwtService.verify accepts   *)
(* if it is in date.  The API gateway's guard goes on to the session.  The *)
(* notification service's guard answers with the payload of the token,     *)
(* whose `data` is undefined: all of it happens before the next event.     *)
(***************************************************************************)
Handshake(k, token, dated, live) ==
  /\ socket[k].at = "new"
  /\ \/ /\ ~dated
        /\ socket' = [socket EXCEPT ![k].at = "over"]
        /\ UNCHANGED <<copy, userSocketMap, rooms, ended>>
     \/ /\ dated /\ copy = "gateway"
        /\ socket' = [socket EXCEPT ![k] = [@ EXCEPT !.at = "session", !.open = TRUE,
                                                     !.token = token, !.live = live]]
        /\ UNCHANGED <<copy, userSocketMap, rooms, ended>>
     \/ /\ dated /\ copy = "notification"
        /\ EndProcess(k)

(* Mutant of Refuse: the catch of handleSecuredConnection returns true. *)
RefuseAndGoOn(k) == EndProcess(k)

(* handleSecuredConnection: the check failed, the client is disconnected. *)
Refuse(k) ==
  /\ socket' = [socket EXCEPT ![k] = [@ EXCEPT !.at = "over", !.open = FALSE]]
  /\ LeaveAll(k)
  /\ UNCHANGED <<copy, userSocketMap, ended>>

(* Mutant of FindSession: what was found is not looked at. *)
FindAnySession(k, live) ==
  /\ socket[k].at = "session"
  /\ socket' = [socket EXCEPT ![k].at = "user"]
  /\ UNCHANGED <<copy, userSocketMap, rooms, ended>>

(* The session of the token: not revoked, expires_at ahead. *)
FindSession(k, live) ==
  /\ socket[k].at = "session"
  /\ \/ /\ live
        /\ socket' = [socket EXCEPT ![k].at = "user"]
        /\ UNCHANGED <<copy, userSocketMap, rooms, ended>>
     \/ ~live /\ Refuse(k)

(***************************************************************************)
(* The user of the token.  findById answers {data: null} for one that is   *)
(* not there, and the guard takes the answer for a user.                   *)
(***************************************************************************)
FindUser(k, u, found) ==
  /\ socket[k].at = "user"
  /\ \/ /\ found
        /\ socket' = [socket EXCEPT ![k] = [@ EXCEPT !.at = "done", !.user = u]]
        /\ userSocketMap' = [userSocketMap EXCEPT ![u][k] = @ + 1]
        /\ UNCHANGED <<copy, rooms, ended>>
     \/ ~found /\ EndProcess(k)

(* A query of the guard fails. *)
CheckFails(k) == Checking(k) /\ Refuse(k)

(* Mutants of Without: the socket is the only one of its user; a last one  *)
(* stays.                                                                  *)
WithoutAny(entry, k) == NoSockets

WithoutUnlessLast(entry, k) ==
  IF \E j \in Sockets \ {k} : entry[j] > 0 THEN [entry EXCEPT ![k] = 0] ELSE entry

(* sockets.filter((id) => id !== client.id) *)
Without(entry, k) == [entry EXCEPT ![k] = 0]

(***************************************************************************)
(* The client goes away: handleDisconnect takes it out of the map if its   *)
(* user is known by then.                                                  *)
(***************************************************************************)
Disconnect(k) ==
  /\ socket[k].open
  /\ socket' = [socket EXCEPT ![k] = [@ EXCEPT !.open = FALSE, !.early = Checking(k)]]
  /\ userSocketMap' =
       [u \in Owners |-> IF u = socket[k].user THEN Without(userSocketMap[u], k)
                         ELSE userSocketMap[u]]
  /\ LeaveAll(k)
  /\ UNCHANGED <<copy, ended>>

(***************************************************************************)
(* joinRoom and subscribeToEntity, leaveRoom and unsubscribeFromEntity:    *)
(* messages are served from the start, while the token is being checked.   *)
(***************************************************************************)
Join(k, r) ==
  /\ socket[k].open /\ k \notin rooms[r]
  /\ rooms' = [rooms EXCEPT ![r] = @ \union {k}]
  /\ UNCHANGED <<copy, socket, userSocketMap, ended>>

Leave(k, r) ==
  /\ socket[k].open /\ k \in rooms[r]
  /\ rooms' = [rooms EXCEPT ![r] = @ \ {k}]
  /\ UNCHANGED <<copy, socket, userSocketMap, ended>>

------------------------------------------------------------------------------
(***************************************************************************)
(* "Store socket mapping for later use": while sockets come, go and are    *)
(* checked, an open socket that has passed its check is in the list of its *)
(* user once, and in no other; one that has not is in none.                *)
(***************************************************************************)
OnlineIsStored ==
  \A u \in Owners, k \in Sockets :
    socket[k].open =>
      userSocketMap[u][k] = IF socket[k].at = "done" /\ socket[k].user = u THEN 1 ELSE 0

(***************************************************************************)
(* An entry of the map whose socket is closed is one that closed while its *)
(* token was checked.  Nothing removes it until the process ends.          *)
(***************************************************************************)
StaleEntriesAreLateChecks ==
  \A u \in Owners, k \in Sockets :
    Stored(u, k) => socket[k].open \/ socket[k].early

(***************************************************************************)
(* realtime.gateway.ts: "Authenticate user on connection" and "Store       *)
(* socket mapping for later use": no connection whose check succeeds ends  *)
(* otherwise.                                                              *)
(***************************************************************************)
AuthenticatedIsStored == ended = {}
==============================================================================
