------------------------------ MODULE Gateway ------------------------------
(***************************************************************************)
(* The API gateway's process: the requests of Accounts and the sockets of  *)
(* Realtime on one database, each at every await of the other.  When the   *)
(* handling of a socket ends the process, the requests under way end too.  *)
(***************************************************************************)
EXTENDS Accounts, Realtime

CONSTANTS
  Connected,   \* the scenarios in which sockets are connected
  MaxRequests  \* bound: requests made in those scenarios

ASSUME GatewayAssumption ==
  Connected \subseteq Scenarios /\ Owners = Ids /\ MaxRequests \in Nat

gatewayVars == <<vars, realtime>>

GatewayInit ==
  /\ Init /\ RealtimeInit
  /\ allowed \notin Connected => copy = "gateway"

(* The requests under way are aborted with their transactions. *)
Restarted ==
  [c \in Calls |-> IF call[c].at \in {"idle", "done", "failed"} THEN call[c]
                   ELSE [Idle EXCEPT !.at = "failed"]]

Ends == ended' # ended

(* A process that ends was serving the requests only if it is the gateway. *)
WithRequests ==
  /\ call' = IF Ends /\ copy = "gateway" THEN Restarted ELSE call
  /\ UNCHANGED <<allowed, clock, users, profiles, sessions, last>>

(***************************************************************************)
(* The access token of session s is in date as long as expires_at is       *)
(* ahead: both are JWT_ACCESS_EXPIRATION after its signing.                *)
(***************************************************************************)
Dated(s) == sessions[s].iat + AccessLife > clock

Owner(k) == sessions[socket[k].token].user

Connection(k) ==
  \/ \E s \in Ids : sessions[s] # None /\ Handshake(k, s, Dated(s), Live(s))
  \/ FindSession(k, Live(socket[k].token))
  \/ socket[k].at = "user" /\ FindUser(k, Owner(k), Exists(Owner(k)))
  \/ CheckFails(k) \/ Disconnect(k)
  \/ \E r \in Rooms : Join(k, r) \/ Leave(k, r)

GatewayNext ==
  \/ /\ Next
     /\ allowed \in Connected =>
          Cardinality({c \in Calls : call'[c].at # "idle"}) <= MaxRequests
     /\ UNCHANGED realtime
  \/ /\ allowed \in Connected
     /\ \E k \in Sockets : Connection(k)
     /\ WithRequests

GatewaySpec == GatewayInit /\ [][GatewayNext]_gatewayVars

------------------------------------------------------------------------------
(***************************************************************************)
(* Every socket in the map belongs to the user of the session it was       *)
(* opened with, and that session was live when the connection was made:    *)
(* a logout or a deletion during the check may be missed, one before it    *)
(* is not.                                                                 *)
(***************************************************************************)
StoredWasAuthentic ==
  \A u \in Ids, k \in Sockets :
    Stored(u, k) => socket[k].live /\ Owner(k) = u

(***************************************************************************)
(* A connection ends the API gateway's process only if the user of its     *)
(* token has been deleted while a session of theirs is live.               *)
(***************************************************************************)
EndsOnlyForTheGone ==
  copy = "gateway" => \A k \in ended : ~Exists(Owner(k))
==============================================================================
