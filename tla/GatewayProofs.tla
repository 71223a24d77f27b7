---------------------------- MODULE GatewayProofs ----------------------------
(***************************************************************************)
(* Theorems about Gateway, for every number of requests, sockets, users    *)
(* and addresses, every life of the tokens and every group of requests.    *)
(***************************************************************************)
EXTENDS Gateway, TLAPS

------------------------------------------------------------------------------
(* The inductive invariant. *)

(* What TypeOK says of the collections and of the histories, with their domains. *)
UsersShape ==
  /\ DOMAIN users = Ids /\ DOMAIN last = Ids /\ profiles \subseteq Ids
  /\ \A u \in Ids :
       /\ Exists(u) => users[u] \in User /\ last[u] \in [Fields -> Ids \union Emails]
       /\ ~Exists(u) => last[u] = None

SessionsShape ==
  /\ DOMAIN sessions = Ids
  /\ \A s \in Ids : sessions[s] # None => sessions[s] \in Session

(* What it says of request c, *)
Places == {"idle", "load", "open", "begin", "revoke", "write", "insert", "remove", "done",
           "failed"}

CallShape(c) ==
  /\ DOMAIN call[c] = DOMAIN Idle
  /\ call[c].kind \in {"none"} \union allowed /\ call[c].at \in Places
  /\ call[c].user \in {None} \union Ids
  /\ call[c].seen \subseteq Ids /\ call[c].late \subseteq Ids
  /\ call[c].crossed \in BOOLEAN

(* and what the request holds between two of its awaits. *)
Memory(c) ==
  /\ call[c].at \in {"load", "open", "begin", "revoke", "write", "remove"} => call[c].user \in Ids
  /\ call[c].at = "insert" => call[c].doc.email \in Emails
  /\ call[c].at = "write" =>
       /\ call[c].doc["email"] \in Emails
       /\ call[c].doc["password"] \in Ids /\ call[c].doc["rest"] \in Ids
  /\ Is(c, "forgot", "write") => call[c].token \in 0..MaxClock
  /\ Is(c, "logout", "revoke") => \A s \in call[c].seen : sessions[s] # None
  /\ call[c].at # "done" => sessions[c] = None
  /\ call[c].at = "insert" => call[c].kind \in {"register", "google"}
  /\ call[c].at = "open" => call[c].kind \in {"login", "google", "refresh"}

CallsShape ==
  /\ DOMAIN call = Calls
  /\ \A c \in Calls : CallShape(c) /\ Memory(c)

Shape ==
  /\ allowed \in Scenarios /\ clock \in 0..MaxClock
  /\ UsersShape /\ SessionsShape /\ CallsShape

(* A request that has not come to its insertion has created nobody. *)
NotYetCreated ==
  \A c \in Calls : call[c].at \notin {"open", "done", "failed"} => ~Exists(c)

(* A document held to be written back is as stored unless a change crossed it. *)
HeldIsCurrent ==
  \A c \in Calls, u \in Ids :
    HoldsDocument(c, u) /\ ~call[c].crossed =>
      Exists(u) /\ \A f \in Fields : call[c].doc[f] = users[u][f]

(* A request about to open a session for a user who is gone was under way *)
(* when the user was removed.                                             *)
OpenersWereLate ==
  \A c \in Calls :
    call[c].at = "open" /\ ~Exists(call[c].user) =>
      \E d \in Calls : Is(d, "delete", "done") /\ call[d].user = call[c].user
                       /\ c \in call[d].late

(* What a revocation has revoked is there for good. *)
Revoker(r) == call[r].kind \in {"logout", "revoke"} /\ call[r].at = "done"

SeenAreThere ==
  \A r \in Calls : Revoker(r) => \A s \in call[r].seen : sessions[s] # None

(* A request that validated a token after a revocation has it from a session *)
(* that is still there and was not revoked by it.                            *)
RefreshersHoldOthers ==
  \A r, c \in Calls :
    /\ Revoker(r) /\ c \notin call[r].late
    /\ call[c].kind = "refresh" /\ call[c].at \in {"load", "open"} /\ call[c].user = call[r].user
    => \E t \in SessionsOf(call[r].user) \ call[r].seen : Token(t) = call[c].token

IInv ==
  /\ Shape /\ NotYetCreated /\ HeldIsCurrent /\ OpenersWereLate
  /\ SeenAreThere /\ RefreshersHoldOthers
  /\ AccountsAreWhole /\ NoSessionForTheGone /\ LostUpdateNeedsOverlap /\ RevocationReaches

------------------------------------------------------------------------------
(* The steps, by what they touch. *)

(* The gateway's process ends under its requests. *)
Aborted == call' = Restarted /\ UNCHANGED <<allowed, clock, users, profiles, sessions, last>>

(* Steps that change nothing but the request itself. *)
Asks(c) ==
  \/ Login(c) \/ Google(c) \/ Refresh(c) \/ LoadUser(c) \/ Logout(c) \/ WriteRevocations(c)
  \/ ForgotPassword(c) \/ ResetPassword(c) \/ UpdatePassword(c) \/ Register(c) \/ DeleteUser(c)
  \/ Fail(c)

(* Steps that write sessions. *)
Writes(c) == OpenSession(c) \/ CommitRevocations(c) \/ RevokeSession(c)

(* Steps that commit a change of a user. *)
Edits(c) ==
  \/ WriteForgot(c) \/ WriteReset(c) \/ WritePassword(c) \/ UpdateUser(c) \/ AssignRoles(c)

LEMMA StepsByKind ==
  ASSUME [GatewayNext]_gatewayVars
  PROVE  \/ UNCHANGED vars
         \/ Tick
         \/ Aborted
         \/ \E c \in Calls : Asks(c) \/ Writes(c) \/ Edits(c) \/ RemoveUser(c)
                                     \/ InsertUser(c)
<1>1. CASE Next
  BY <1>1 DEF Next, Request, Asks, Writes, Edits
<1>2. CASE WithRequests
  BY <1>2 DEF WithRequests, Aborted, vars
<1>3. CASE UNCHANGED gatewayVars
  BY <1>3 DEF gatewayVars
<1> QED
  BY <1>1, <1>2, <1>3 DEF GatewayNext

LEMMA AskFrame ==
  ASSUME NEW c \in Calls, Asks(c)
  PROVE  UNCHANGED <<allowed, clock, users, profiles, sessions, last>>
BY DEF Asks, Login, Google, Refresh, LoadUser, Logout, WriteRevocations, ForgotPassword,
       ResetPassword, UpdatePassword, Register, DeleteUser, Fail

(* What such a step makes of its request. *)
Asked(c) ==
  /\ CallShape(c) /\ Memory(c) /\ call[c].at \notin {"idle", "done"}
  /\ call[c].at = "open" => Exists(call[c].user)
  /\ call[c].at = "write" => Exists(call[c].user) /\ call[c].doc = Read(call[c].user)

LEMMA AskEffect ==
  ASSUME Shape, NEW c \in Calls, Asks(c)
  PROVE  /\ DOMAIN call' = Calls
         /\ \A d \in Calls \ {c} : call'[d] = call[d]
         /\ call[c].at \notin {"done", "failed"}
         /\ call[c].at = "open" => call'[c].at = "failed"
         /\ Asked(c)'
<1> USE DEF Advance, Idle, Asked, Is, CallShape, Memory, Places
<1>0. /\ DOMAIN call = Calls /\ CallShape(c) /\ Memory(c) /\ clock \in 0..MaxClock
      /\ \A s \in Ids : sessions[s] # None => sessions[s].user \in Ids
      /\ \A u \in Ids : Exists(u) => Read(u)["email"] \in Emails /\ Read(u)["password"] \in Ids
                                     /\ Read(u)["rest"] \in Ids
  BY DEF Shape, UsersShape, SessionsShape, CallsShape, User, Session, Fields, Read
<1>1. CASE Login(c)
  BY <1>0, <1>1 DEF Login, May, Exists, Read
<1>2. CASE Google(c)
  <2>1. PICK e \in Emails :
          \/ \E u \in Ids :
               Exists(u) /\ Advance(c, [Idle EXCEPT !.kind = "google", !.at = "open", !.user = u])
          \/ Advance(c, [Idle EXCEPT !.kind = "google", !.at = "insert", !.doc = [email |-> e]])
    BY <1>2 DEF Google
  <2>2. "google" \in allowed /\ call[c].at = "idle"
        /\ UNCHANGED <<users, sessions, allowed>>
    BY <1>2 DEF Google, May
  <2>3. CASE \E u \in Ids :
               Exists(u) /\ Advance(c, [Idle EXCEPT !.kind = "google", !.at = "open", !.user = u])
    BY <1>0, <2>2, <2>3 DEF Exists
  <2>4. CASE Advance(c, [Idle EXCEPT !.kind = "google", !.at = "insert", !.doc = [email |-> e]])
    BY <1>0, <2>2, <2>4
  <2> QED
    BY <2>1, <2>3, <2>4
<1>3. CASE Refresh(c)
  BY <1>0, <1>3 DEF Refresh, May, Live, Token
<1>4. CASE LoadUser(c)
  BY <1>0, <1>4 DEF LoadUser, Memory, Exists, Read
<1>5. CASE Logout(c)
  BY <1>0, <1>5 DEF Logout, May, Authentic, Live
<1>6. CASE WriteRevocations(c)
  BY <1>0, <1>6 DEF WriteRevocations, Is, Memory, SessionsOf
<1>7. CASE ForgotPassword(c)
  BY <1>0, <1>7 DEF ForgotPassword, May, Exists, Read
<1>8. CASE ResetPassword(c)
  BY <1>0, <1>8 DEF ResetPassword, May, Exists, Read
<1>9. CASE UpdatePassword(c)
  BY <1>0, <1>9 DEF UpdatePassword, May, Authentic, Live, Exists, Read
<1>10. CASE Register(c)
  BY <1>0, <1>10 DEF Register, May
<1>11. CASE DeleteUser(c)
  BY <1>0, <1>11 DEF DeleteUser, May
<1>12. CASE Fail(c)
  BY <1>0, <1>12 DEF Fail
<1> QED
  BY <1>1, <1>2, <1>3, <1>4, <1>5, <1>6, <1>7, <1>8, <1>9, <1>10, <1>11, <1>12 DEF Asks

(* Another request keeps what it has, and may be crossed. *)
Keeps(d) ==
  /\ DOMAIN call'[d] = DOMAIN Idle
  /\ call'[d].kind = call[d].kind /\ call'[d].at = call[d].at
  /\ call'[d].user = call[d].user /\ call'[d].token = call[d].token
  /\ call'[d].doc = call[d].doc
  /\ call'[d].seen = call[d].seen /\ call'[d].late = call[d].late
  /\ call'[d].crossed \in BOOLEAN
  /\ call[d].crossed => call'[d].crossed

(* A request that has just written, and is done. *)
Written(c) == CallShape(c) /\ Memory(c) /\ call[c].at = "done"

(* The sessions stay, with their users and tokens, and so do revocations. *)
SessionsStay ==
  \A s \in Ids : sessions[s] # None =>
    /\ sessions'[s] # None
    /\ sessions'[s].user = sessions[s].user /\ sessions'[s].iat = sessions[s].iat
    /\ sessions[s].revoked => sessions'[s].revoked

LEMMA RevokedSessions ==
  ASSUME SessionsShape, NEW ss, \A s \in ss : s \in Ids /\ sessions[s] # None,
         sessions' = Revoked(ss)
  PROVE  /\ SessionsShape' /\ SessionsStay
         /\ \A s \in Ids : sessions'[s] # None => sessions[s] # None
BY AccountsAssumption DEF SessionsShape, SessionsStay, Revoked, Session

LEMMA WriteFrame ==
  ASSUME NEW c \in Calls, Writes(c)
  PROVE  UNCHANGED <<allowed, clock, users, profiles, last>>
BY DEF Writes, OpenSession, CommitRevocations, RevokeSession

LEMMA WriteEffect ==
  ASSUME Shape, NEW c \in Calls, Writes(c)
  PROVE  /\ DOMAIN call' = Calls
         /\ \A d \in Calls \ {c} : call'[d] = call[d]
         /\ Written(c)' /\ call[c].at \notin {"done", "failed"}
         /\ SessionsShape' /\ SessionsStay
         /\ \A s \in Ids : sessions[s] = None /\ sessions'[s] # None =>
              s = c /\ call[c].at = "open" /\ sessions'[s].user = call[c].user
<1> USE DEF Advance, Done, Written, CallShape, Memory, Places, Is
<1>0. /\ DOMAIN call = Calls /\ CallShape(c) /\ Memory(c) /\ clock \in 0..MaxClock
      /\ SessionsShape
  BY DEF Shape, CallsShape
<1>1. CASE OpenSession(c)
  <2>1. /\ DOMAIN call' = Calls
        /\ \A d \in Calls \ {c} : call'[d] = call[d]
        /\ Written(c)' /\ call[c].at \notin {"done", "failed"}
    BY <1>0, <1>1 DEF OpenSession
  <2>2. sessions' = [sessions EXCEPT ![c] = [user |-> call[c].user, iat |-> clock,
                                             revoked |-> FALSE]]
        /\ call[c].at = "open" /\ call[c].user \in Ids
    BY <1>0, <1>1 DEF OpenSession
  <2>3. [user |-> call[c].user, iat |-> clock, revoked |-> FALSE] \in Session
    BY <1>0, <2>2 DEF Session
  <2>4. c \in Ids
    BY DEF Ids
  <2> QED
    BY <1>0, <2>1, <2>2, <2>3, <2>4, AccountsAssumption DEF SessionsShape, SessionsStay
<1>2. CASE CommitRevocations(c)
  <2>1. /\ DOMAIN call' = Calls
        /\ \A d \in Calls \ {c} : call'[d] = call[d]
        /\ Written(c)' /\ call[c].at \notin {"done", "failed"}
    BY <1>0, <1>2 DEF CommitRevocations, OutOfReach, SessionsOf, Ids, Idle
  <2>2. /\ sessions' = Revoked(call[c].seen)
        /\ \A s \in call[c].seen : s \in Ids /\ sessions[s] # None
    BY <1>0, <1>2 DEF CommitRevocations
  <2> QED
    BY <1>0, <2>1, <2>2, RevokedSessions
<1>3. CASE RevokeSession(c)
  <2>1. PICK s \in Ids, t \in Ids :
          /\ Authentic(s) /\ t \in SessionsOf(sessions[s].user) \ Held
          /\ sessions' = Revoked({t})
          /\ Advance(c, [Idle EXCEPT !.kind = "revoke", !.at = "done", !.seen = {t},
                               !.late = OutOfReach(sessions[s].user, {t}),
                               !.user = sessions[s].user])
    BY <1>3 DEF RevokeSession
  <2>2. "revoke" \in allowed /\ call[c].at = "idle" /\ allowed' = allowed
    BY <1>3 DEF RevokeSession, May
  <2>3. sessions[s].user \in Ids
    BY <1>0, <2>1 DEF Authentic, Live, SessionsShape, Session
  <2>4. OutOfReach(sessions[s].user, {t}) \subseteq Ids
    BY DEF OutOfReach, SessionsOf, Ids
  <2>5. /\ DOMAIN call' = Calls
        /\ \A d \in Calls \ {c} : call'[d] = call[d]
        /\ Written(c)' /\ call[c].at \notin {"done", "failed"}
    BY <1>0, <2>1, <2>2, <2>3, <2>4 DEF Idle
  <2>6. \A r \in {t} : r \in Ids /\ sessions[r] # None
    BY <2>1 DEF SessionsOf
  <2>7. /\ SessionsShape' /\ SessionsStay
        /\ \A r \in Ids : sessions'[r] # None => sessions[r] # None
    BY <1>0, <2>1, <2>6, RevokedSessions
  <2> QED
    BY <2>5, <2>7
<1> QED
  BY <1>1, <1>2, <1>3 DEF Writes

------------------------------------------------------------------------------
(* Changes of users. *)

LEMMA CommitEffect ==
  ASSUME Shape, NEW c \in Calls, NEW u, NEW r, Commit(c, u, r)
  PROVE  /\ DOMAIN call' = Calls /\ call'[c] = r
         /\ \A d \in Calls \ {c} : Keeps(d) /\ (HoldsDocument(d, u) => call'[d].crossed)
<1>1. \A d \in Calls : CallShape(d)
  BY DEF Shape, CallsShape
<1>2. /\ DOMAIN call' = Calls /\ call'[c] = r
      /\ \A d \in Calls \ {c} :
           call'[d] = [call[d] EXCEPT !.crossed = @ \/ HoldsDocument(d, u)]
  BY DEF Commit
<1>3. ASSUME NEW d \in Calls \ {c}
      PROVE  Keeps(d) /\ (HoldsDocument(d, u) => call'[d].crossed)
  <2>1. DOMAIN call[d] = DOMAIN Idle /\ call[d].crossed \in BOOLEAN
    BY <1>1 DEF CallShape
  <2>2. call'[d] = [call[d] EXCEPT !.crossed = @ \/ HoldsDocument(d, u)]
    BY <1>2
  <2>3. call'[d].crossed = (call[d].crossed \/ HoldsDocument(d, u))
    BY <2>1, <2>2 DEF Idle
  <2>4. DOMAIN call'[d] = DOMAIN Idle
    BY <2>1, <2>2 DEF Idle
  <2>5. /\ call'[d].kind = call[d].kind /\ call'[d].at = call[d].at
        /\ call'[d].user = call[d].user /\ call'[d].token = call[d].token
        /\ call'[d].doc = call[d].doc
        /\ call'[d].seen = call[d].seen /\ call'[d].late = call[d].late
    BY <2>1, <2>2 DEF Idle
  <2>6. /\ call'[d].crossed \in BOOLEAN
        /\ call[d].crossed => call'[d].crossed
        /\ HoldsDocument(d, u) => call'[d].crossed
    BY <2>1, <2>3
  <2> QED
    BY <2>4, <2>5, <2>6 DEF Keeps
<1> QED
  BY <1>2, <1>3

(* What every change does: the user it is about is call[c].user after it. *)
Changed(c, u) ==
  /\ u \in Ids /\ call'[c].user = u
  /\ DOMAIN call' = Calls
  /\ \A d \in Calls \ {c} : Keeps(d) /\ (HoldsDocument(d, u) => call'[d].crossed)
  /\ Written(c)' /\ call[c].at \notin {"open", "done", "failed"}
  /\ call'[c].kind \notin {"logout", "revoke", "refresh"}
  /\ UNCHANGED <<allowed, clock, sessions>>
  /\ DOMAIN users' = Ids /\ DOMAIN last' = Ids
  /\ \A v \in Ids \ {u} : users'[v] = users[v] /\ last'[v] = last[v]

LEMMA DoneIsWritten ==
  ASSUME Shape, NEW c \in Calls, call'[c] = Done(c), allowed' = allowed
  PROVE  Written(c)' /\ call'[c].user = call[c].user /\ call'[c].kind = call[c].kind
<1>1. CallShape(c)
  BY DEF Shape, CallsShape
<1> QED
  BY <1>1 DEF Written, CallShape, Memory, Done, Is, Idle, Places

(* The three requests that write to a user they have in mind. *)
LEMMA PlannedChange ==
  ASSUME Shape, NEW c \in Calls, WriteForgot(c) \/ WriteReset(c) \/ WritePassword(c)
  PROVE  Changed(c, call[c].user)
<1> DEFINE u == call[c].user
<1>1. /\ call[c].at = "write" /\ Commit(c, u, Done(c))
      /\ call[c].kind \in {"forgot", "reset", "updatePassword"}
      /\ UNCHANGED <<allowed, clock, sessions>>
  BY DEF WriteForgot, WriteReset, WritePassword, Is
<1>2. u \in Ids
  BY <1>1 DEF Shape, CallsShape, Memory
<1>3. Written(c)' /\ call'[c].user = u /\ call'[c].kind = call[c].kind
  BY <1>1, CommitEffect, DoneIsWritten
<1>4. /\ DOMAIN users' = Ids /\ DOMAIN last' = Ids
      /\ \A v \in Ids \ {u} : users'[v] = users[v] /\ last'[v] = last[v]
  BY <1>2 DEF WriteForgot, WriteReset, WritePassword, Shape, UsersShape
<1> QED
  BY <1>1, <1>2, <1>3, <1>4, CommitEffect DEF Changed

LEMMA Removal ==
  ASSUME Shape, NEW c \in Calls, RemoveUser(c)
  PROVE  Changed(c, call[c].user)
<1> DEFINE u == call[c].user
           late == {d \in Calls : call[d].at = "open" /\ call[d].user = u}
           r == [Done(c) EXCEPT !.seen = SessionsOf(u), !.late = late]
<1>1. /\ call[c].at = "remove" /\ call[c].kind = "delete" /\ Commit(c, u, r)
      /\ UNCHANGED <<allowed, clock, sessions>>
  BY DEF RemoveUser, Is
<1>2. u \in Ids /\ CallShape(c)
  BY <1>1 DEF Shape, CallsShape, Memory
<1>3. SessionsOf(u) \subseteq Ids /\ late \subseteq Ids
  BY DEF SessionsOf, Ids
<1>4. call'[c] = r
  BY <1>1, CommitEffect
<1>5. Written(c)' /\ call'[c].user = u /\ call'[c].kind = "delete"
  <2> HIDE DEF late
  <2> QED
    BY <1>1, <1>2, <1>3, <1>4 DEF Written, CallShape, Memory, Done, Is, Idle, Places
<1>6. /\ DOMAIN users' = Ids /\ DOMAIN last' = Ids
      /\ \A v \in Ids \ {u} : users'[v] = users[v] /\ last'[v] = last[v]
  BY <1>2 DEF RemoveUser, Shape, UsersShape
<1> QED
  BY <1>1, <1>2, <1>5, <1>6, CommitEffect DEF Changed

(* The two that come straight to a user. *)
LEMMA DirectChange ==
  ASSUME Shape, NEW c \in Calls, NEW u \in Ids,
         NEW kind \in allowed \ {"logout", "revoke", "refresh"},
         call[c].at = "idle", UNCHANGED <<allowed, clock, sessions>>,
         Commit(c, u, [Idle EXCEPT !.kind = kind, !.at = "done", !.user = u]),
         NEW user, NEW history,
         users' = [users EXCEPT ![u] = user], last' = [last EXCEPT ![u] = history]
  PROVE  Changed(c, u)
<1>1. call'[c] = [Idle EXCEPT !.kind = kind, !.at = "done", !.user = u]
  BY CommitEffect
<1>2. Written(c)' /\ call'[c].user = u /\ call'[c].kind = kind
  BY <1>1 DEF Written, CallShape, Memory, Is, Idle, Places
<1>3. /\ DOMAIN users' = Ids /\ DOMAIN last' = Ids
      /\ \A v \in Ids \ {u} : users'[v] = users[v] /\ last'[v] = last[v]
  BY DEF Shape, UsersShape
<1> QED
  BY <1>2, <1>3, CommitEffect DEF Changed

(* A user's document was changed: field by field it now holds what was meant, *)
(* or what it did before, or what a request had read of the whole document.   *)
Edited(c, u) ==
  /\ Changed(c, u) /\ profiles' = profiles
  /\ Exists(u) /\ users'[u] # None /\ users'[u] \in User
  /\ last'[u] \in [Fields -> Ids \union Emails]
  /\ users'[u].email = users[u].email \/ IndexAllows(u, users'[u].email)
  /\ \A f \in Fields :
       \/ users'[u][f] = last'[u][f]
       \/ users'[u][f] = users[u][f] /\ last'[u][f] = last[u][f]
       \/ /\ HoldsDocument(c, u) /\ call'[c] = Done(c)
          /\ f = "password" => call[c].kind = "forgot"
          /\ users'[u][f] = call[c].doc[f] /\ last'[u][f] = last[u][f]

LEMMA ForgotEdits ==
  ASSUME Shape, NEW c \in Calls, WriteForgot(c)
  PROVE  Edited(c, call[c].user)
<1> DEFINE u == call[c].user
           doc == call[c].doc
           new == [email |-> doc.email, password |-> doc.password, rest |-> doc.rest,
                   token |-> call[c].token]
<1>1. /\ Is(c, "forgot", "write") /\ Exists(u) /\ IndexAllows(u, doc.email)
      /\ users' = [users EXCEPT ![u] = new]
      /\ Commit(c, u, Done(c)) /\ UNCHANGED <<profiles, last>>
  BY DEF WriteForgot
<1>2. u \in Ids /\ Memory(c) /\ UsersShape
  BY <1>1 DEF Shape, CallsShape, Memory, Is
<1>3. new \in User
  BY <1>1, <1>2 DEF Memory, Is, User
<1>4. users'[u] = new /\ last'[u] \in [Fields -> Ids \union Emails]
  BY <1>1, <1>2 DEF UsersShape
<1>5. \A f \in Fields : users'[u][f] = doc[f]
  BY <1>4 DEF Fields
<1>6. users'[u] # None
  BY <1>3, <1>4, AccountsAssumption DEF Exists
<1>7. call'[c] = Done(c)
  BY <1>1, CommitEffect
<1>8. IndexAllows(u, users'[u].email)
  BY <1>1, <1>4
<1>9. HoldsDocument(c, u) /\ call[c].kind = "forgot" /\ last'[u] = last[u]
  BY <1>1 DEF HoldsDocument, Is
<1>10. Changed(c, u)
  BY PlannedChange
<1> HIDE DEF new
<1> QED
  BY <1>1, <1>3, <1>4, <1>5, <1>6, <1>7, <1>8, <1>9, <1>10 DEF Edited

LEMMA ResetEdits ==
  ASSUME Shape, NEW c \in Calls, WriteReset(c)
  PROVE  Edited(c, call[c].user)
<1> DEFINE u == call[c].user
           doc == call[c].doc
           new == [email |-> doc.email, password |-> c, rest |-> doc.rest,
                   token |-> users[u].token]
<1>1. /\ Is(c, "reset", "write") /\ Exists(u) /\ IndexAllows(u, doc.email)
      /\ users' = [users EXCEPT ![u] = new]
      /\ last' = [last EXCEPT ![u].password = c]
      /\ Commit(c, u, Done(c)) /\ profiles' = profiles
  BY DEF WriteReset
<1>2. u \in Ids /\ Memory(c) /\ UsersShape
  BY <1>1 DEF Shape, CallsShape, Memory, Is
<1>3. new \in User
  BY <1>1, <1>2 DEF Memory, Is, User, UsersShape, Ids
<1>4. /\ users'[u] = new /\ last'[u] = [last[u] EXCEPT !.password = c]
      /\ last[u] \in [Fields -> Ids \union Emails]
  BY <1>1, <1>2 DEF UsersShape
<1>5. /\ last'[u] \in [Fields -> Ids \union Emails]
      /\ \A f \in Fields : last'[u][f] = IF f = "password" THEN c ELSE last[u][f]
  BY <1>4 DEF Ids
<1>6. \A f \in Fields : users'[u][f] = IF f = "password" THEN c ELSE doc[f]
  BY <1>4 DEF Fields
<1>7. users'[u] # None
  BY <1>3, <1>4, AccountsAssumption DEF Exists
<1>8. call'[c] = Done(c) /\ HoldsDocument(c, u)
  BY <1>1, CommitEffect DEF HoldsDocument, Is
<1>9. IndexAllows(u, users'[u].email)
  BY <1>1, <1>4
<1>10. Changed(c, u)
  BY PlannedChange
<1> HIDE DEF new
<1> QED
  BY <1>1, <1>3, <1>4, <1>5, <1>6, <1>7, <1>8, <1>9, <1>10 DEF Edited

LEMMA PasswordEdits ==
  ASSUME Shape, NEW c \in Calls, WritePassword(c)
  PROVE  Edited(c, call[c].user)
<1> DEFINE u == call[c].user
<1>1. /\ Is(c, "updatePassword", "write") /\ Exists(u)
      /\ users' = [users EXCEPT ![u].password = c]
      /\ last' = [last EXCEPT ![u].password = c]
      /\ profiles' = profiles
  BY DEF WritePassword
<1>2. u \in Ids /\ UsersShape
  BY <1>1 DEF Shape, CallsShape, Memory, Is
<1>3. /\ users[u] \in User /\ last[u] \in [Fields -> Ids \union Emails]
      /\ users'[u] = [users[u] EXCEPT !.password = c]
      /\ last'[u] = [last[u] EXCEPT !.password = c]
  BY <1>1, <1>2 DEF UsersShape
<1>4. users'[u] \in User /\ last'[u] \in [Fields -> Ids \union Emails]
  BY <1>3 DEF User, Fields, Ids
<1>5. /\ users'[u].email = users[u].email
      /\ \A f \in Fields : /\ users'[u][f] = IF f = "password" THEN c ELSE users[u][f]
                           /\ last'[u][f] = IF f = "password" THEN c ELSE last[u][f]
  BY <1>3 DEF User, Fields
<1>6. users'[u] # None
  BY <1>4, AccountsAssumption
<1>7. Changed(c, u)
  BY PlannedChange
<1> QED
  BY <1>1, <1>4, <1>5, <1>6, <1>7 DEF Edited

LEMMA RolesEdit ==
  ASSUME Shape, NEW c \in Calls, AssignRoles(c)
  PROVE  \E u \in Ids : Edited(c, u)
<1>1. PICK u \in Ids :
        /\ May(c, "assignRoles") /\ Exists(u)
        /\ users' = [users EXCEPT ![u].rest = c]
        /\ last' = [last EXCEPT ![u].rest = c]
        /\ Commit(c, u, [Idle EXCEPT !.kind = "assignRoles", !.at = "done", !.user = u])
        /\ UNCHANGED <<allowed, clock, profiles, sessions>>
  BY DEF AssignRoles
<1>2. UsersShape
  BY DEF Shape
<1>3. /\ users[u] \in User /\ last[u] \in [Fields -> Ids \union Emails]
      /\ users'[u] = [users[u] EXCEPT !.rest = c]
      /\ last'[u] = [last[u] EXCEPT !.rest = c]
  BY <1>1, <1>2 DEF UsersShape
<1>4. users'[u] \in User /\ last'[u] \in [Fields -> Ids \union Emails]
  BY <1>3 DEF User, Fields, Ids
<1>5. /\ users'[u].email = users[u].email
      /\ \A f \in Fields : /\ users'[u][f] = IF f = "rest" THEN c ELSE users[u][f]
                           /\ last'[u][f] = IF f = "rest" THEN c ELSE last[u][f]
  BY <1>3 DEF User, Fields
<1>6. users'[u] # None
  BY <1>4, AccountsAssumption
<1>7. Changed(c, u)
  <2>1. /\ "assignRoles" \in allowed \ {"logout", "revoke", "refresh"}
        /\ call[c].at = "idle"
    BY <1>1 DEF May
  <2>2. /\ users' = [users EXCEPT ![u] = [users[u] EXCEPT !.rest = c]]
        /\ last' = [last EXCEPT ![u] = [last[u] EXCEPT !.rest = c]]
    BY <1>1
  <2> QED
    BY <1>1, <2>1, <2>2, DirectChange
<1>8. Edited(c, u)
  BY <1>1, <1>4, <1>5, <1>6, <1>7 DEF Edited
<1> QED
  BY <1>8

LEMMA UserEdits ==
  ASSUME Shape, NEW c \in Calls, UpdateUser(c)
  PROVE  \E u \in Ids : Edited(c, u)
<1>1. PICK u \in Ids, e \in Emails, changed \in SUBSET {"email", "password"} :
        /\ May(c, "updateUser") /\ Exists(u)
        /\ "email" \in changed => IndexAllows(u, e)
        /\ LET new(f) == CASE f = "rest" -> c
                           [] f = "email" /\ "email" \in changed -> e
                           [] f = "password" /\ "password" \in changed -> c
           IN  /\ users' = [users EXCEPT ![u] =
                              [f \in DOMAIN @ |-> IF f \in changed \union {"rest"}
                                                  THEN new(f) ELSE @[f]]]
               /\ last' = [last EXCEPT ![u] =
                             [f \in Fields |-> IF f \in changed \union {"rest"}
                                               THEN new(f) ELSE @[f]]]
        /\ Commit(c, u, [Idle EXCEPT !.kind = "updateUser", !.at = "done", !.user = u])
        /\ UNCHANGED <<allowed, clock, profiles, sessions>>
  BY DEF UpdateUser
<1> DEFINE new(f) == CASE f = "rest" -> c
                       [] f = "email" /\ "email" \in changed -> e
                       [] f = "password" /\ "password" \in changed -> c
           edit(old, fields) == [f \in fields |-> IF f \in changed \union {"rest"}
                                                  THEN new(f) ELSE old[f]]
<1>2. UsersShape
  BY DEF Shape
<1>3. /\ users[u] \in User /\ last[u] \in [Fields -> Ids \union Emails]
      /\ users'[u] = edit(users[u], DOMAIN users[u])
      /\ last'[u] = edit(last[u], Fields)
  BY <1>1, <1>2 DEF UsersShape
<1>4. DOMAIN users[u] = {"email", "password", "rest", "token"}
  BY <1>3 DEF User
<1>5. \A f \in changed \union {"rest"} :
        f \in Fields /\ new(f) = IF f = "email" THEN e ELSE c
  BY DEF Fields
<1> HIDE DEF new
<1>6. \A f \in Fields :
        /\ users'[u][f] = IF f \notin changed \union {"rest"} THEN users[u][f]
                          ELSE IF f = "email" THEN e ELSE c
        /\ last'[u][f] = IF f \notin changed \union {"rest"} THEN last[u][f]
                         ELSE IF f = "email" THEN e ELSE c
  BY <1>3, <1>4, <1>5 DEF Fields
<1>7. users'[u].token = users[u].token
  BY <1>3, <1>4
<1>8. users'[u] \in User
  <2>1. /\ users'[u].email \in Emails /\ users'[u].password \in Ids /\ users'[u].rest \in Ids
        /\ users'[u].token \in {None} \union 0..MaxClock
    BY <1>3, <1>6, <1>7 DEF User, Fields, Ids
  <2>2. users'[u] = [f \in {"email", "password", "rest", "token"} |-> users'[u][f]]
    BY <1>3, <1>4
  <2> QED
    BY <2>1, <2>2 DEF User
<1>9. last'[u] \in [Fields -> Ids \union Emails]
  <2>1. \A f \in Fields : last'[u][f] \in Ids \union Emails
    BY <1>3, <1>6 DEF Ids
  <2>2. last'[u] = [f \in Fields |-> last'[u][f]]
    BY <1>3
  <2> QED
    BY <2>1, <2>2
<1>10. users'[u] # None
  BY <1>8, AccountsAssumption
<1>11. users'[u].email = users[u].email \/ IndexAllows(u, users'[u].email)
  <2>1. CASE "email" \in changed
    BY <1>1, <1>6, <2>1 DEF Fields
  <2>2. CASE "email" \notin changed
    BY <1>6, <2>2 DEF Fields
  <2> QED
    BY <2>1, <2>2
<1>12. Changed(c, u)
  <2>1. /\ "updateUser" \in allowed \ {"logout", "revoke", "refresh"}
        /\ call[c].at = "idle"
    BY <1>1 DEF May
  <2>2. /\ users' = [users EXCEPT ![u] = edit(users[u], DOMAIN users[u])]
        /\ last' = [last EXCEPT ![u] = edit(last[u], Fields)]
    BY <1>1 DEF new
  <2> HIDE DEF edit
  <2> QED
    BY <1>1, <2>1, <2>2, DirectChange
<1>13. Edited(c, u)
  BY <1>1, <1>6, <1>8, <1>9, <1>10, <1>11, <1>12 DEF Edited
<1> QED
  BY <1>13

LEMMA EditEffect ==
  ASSUME Shape, NEW c \in Calls, Edits(c)
  PROVE  \E u \in Ids : Edited(c, u)
<1>1. CASE WriteForgot(c) \/ WriteReset(c) \/ WritePassword(c)
  BY <1>1, ForgotEdits, ResetEdits, PasswordEdits DEF Edited, Changed
<1> QED
  BY <1>1, RolesEdit, UserEdits DEF Edits

LEMMA RemovalEffect ==
  ASSUME Shape, NEW c \in Calls, RemoveUser(c)
  PROVE  /\ Changed(c, call[c].user) /\ profiles' = profiles \ {call[c].user}
         /\ users'[call[c].user] = None /\ last'[call[c].user] = None
         /\ Is(c, "delete", "remove") /\ call'[c].kind = "delete"
         /\ call'[c].seen = SessionsOf(call[c].user)
         /\ call'[c].late = {d \in Calls : call[d].at = "open" /\ call[d].user = call[c].user}
<1>1. Changed(c, call[c].user)
  BY Removal
<1>2. call'[c] = [Done(c) EXCEPT
                    !.seen = SessionsOf(call[c].user),
                    !.late = {d \in Calls : call[d].at = "open" /\ call[d].user = call[c].user}]
  BY CommitEffect DEF RemoveUser
<1>3. CallShape(c)
  BY DEF Shape, CallsShape
<1> QED
  BY <1>1, <1>2, <1>3 DEF RemoveUser, Is, Shape, UsersShape, Changed, CallShape, Done, Idle

LEMMA InsertEffect ==
  ASSUME Shape, NEW c \in Calls, InsertUser(c)
  PROVE  /\ DOMAIN call' = Calls /\ \A d \in Calls \ {c} : call'[d] = call[d]
         /\ call[c].at = "insert" /\ CallShape(c)' /\ Memory(c)'
         /\ call'[c].at \in {"open", "done"} /\ call'[c].user = c
         /\ call'[c].kind \in {"register", "google"}
         /\ UNCHANGED <<allowed, clock, sessions>> /\ profiles' = profiles \union {c}
         /\ DOMAIN users' = Ids /\ DOMAIN last' = Ids
         /\ \A v \in Ids \ {c} : users'[v] = users[v] /\ last'[v] = last[v]
         /\ users'[c] \in User /\ users'[c] # None
         /\ last'[c] \in [Fields -> Ids \union Emails]
         /\ \A f \in Fields : users'[c][f] = last'[c][f]
         /\ ~Taken(users'[c].email)
<1>1. /\ call[c].at = "insert" /\ ~Taken(call[c].doc.email)
      /\ users' = [users EXCEPT ![c] = Created(c)]
      /\ profiles' = profiles \union {c}
      /\ last' = [last EXCEPT ![c] = [f \in Fields |-> Created(c)[f]]]
      /\ call' = [call EXCEPT ![c] = AfterCreation(c)]
      /\ UNCHANGED <<allowed, clock, sessions>>
  BY DEF InsertUser, Advance
<1>2. CallShape(c) /\ Memory(c) /\ DOMAIN call = Calls /\ UsersShape /\ c \in Ids
  BY DEF Shape, CallsShape, Ids
<1>3. DOMAIN call' = Calls /\ call'[c] = AfterCreation(c) /\ \A d \in Calls \ {c} : call'[d] = call[d]
  BY <1>1, <1>2
<1>4. /\ call'[c].at \in {"open", "done"} /\ call'[c].user = c
      /\ call'[c].kind \in {"register", "google"} /\ CallShape(c)' /\ Memory(c)'
  BY <1>1, <1>2, <1>3 DEF AfterCreation, CallShape, Memory, Done, Is, Idle, Places
<1>5. Created(c) \in User /\ Created(c).email = call[c].doc.email
  BY <1>1, <1>2 DEF Created, Memory, User
<1>6. /\ users'[c] = Created(c) /\ last'[c] = [f \in Fields |-> Created(c)[f]]
      /\ DOMAIN users' = Ids /\ DOMAIN last' = Ids
      /\ \A v \in Ids \ {c} : users'[v] = users[v] /\ last'[v] = last[v]
  BY <1>1, <1>2 DEF UsersShape
<1>7. last'[c] \in [Fields -> Ids \union Emails] /\ \A f \in Fields : users'[c][f] = last'[c][f]
  BY <1>5, <1>6 DEF User, Fields
<1>8. users'[c] # None
  BY <1>5, <1>6, AccountsAssumption
<1> QED
  BY <1>1, <1>3, <1>4, <1>5, <1>6, <1>7, <1>8

------------------------------------------------------------------------------
(* The shape is preserved. *)

LEMMA KeepsShape ==
  ASSUME Shape, NEW d \in Calls, Keeps(d), allowed' = allowed, SessionsStay,
         sessions'[d] = None \/ call[d].at = "done"
  PROVE  CallShape(d)' /\ Memory(d)'
<1>1. CallShape(d) /\ Memory(d)
  BY DEF Shape, CallsShape
<1>2. CallShape(d)'
  BY <1>1 DEF Keeps, CallShape
<1>3. Memory(d)'
  BY <1>1 DEF Keeps, CallShape, Memory, Is, SessionsStay
<1> QED
  BY <1>2, <1>3

LEMMA SameKeeps ==
  ASSUME Shape, NEW d \in Calls, call'[d] = call[d]
  PROVE  Keeps(d)
BY DEF Shape, CallsShape, CallShape, Keeps

LEMMA ShapeStep ==
  ASSUME Shape, [GatewayNext]_gatewayVars
  PROVE  Shape'
<1>1. CASE UNCHANGED vars
  BY <1>1 DEF vars, Shape, UsersShape, SessionsShape, CallsShape, CallShape, Memory, Is, Exists
<1>2. CASE Tick
  BY <1>2, AccountsAssumption
     DEF Tick, Shape, UsersShape, SessionsShape, CallsShape, CallShape, Memory, Is, Exists
<1>3. CASE Aborted
  <2>1. UsersShape' /\ SessionsShape' /\ UNCHANGED <<allowed, clock, sessions>>
    BY <1>3 DEF Aborted, Shape, UsersShape, SessionsShape, Exists
  <2>2. ASSUME NEW d \in Calls PROVE CallShape(d)' /\ Memory(d)'
    BY <1>3, <2>1
       DEF Aborted, Restarted, Shape, CallsShape, CallShape, Memory, Is, Idle, Places
  <2>3. DOMAIN call' = Calls
    BY <1>3 DEF Aborted, Restarted
  <2> QED
    BY <2>1, <2>2, <2>3 DEF Shape, CallsShape
<1>4. ASSUME NEW c \in Calls, Asks(c) PROVE Shape'
  <2>1. UNCHANGED <<allowed, clock, users, profiles, sessions, last>>
    BY <1>4, AskFrame
  <2>2. UsersShape' /\ SessionsShape'
    BY <2>1 DEF Shape, UsersShape, SessionsShape, Exists
  <2>3. CallsShape'
    <3>1. DOMAIN call' = Calls /\ CallShape(c)' /\ Memory(c)'
      BY <1>4, AskEffect DEF Asked
    <3>2. ASSUME NEW d \in Calls \ {c} PROVE CallShape(d)' /\ Memory(d)'
      BY <1>4, <2>1, AskEffect DEF Shape, CallsShape, CallShape, Memory, Is
    <3> QED
      BY <3>1, <3>2 DEF CallsShape
  <2> QED
    BY <2>1, <2>2, <2>3 DEF Shape
<1>5. ASSUME NEW c \in Calls, Writes(c) PROVE Shape'
  <2>1. UNCHANGED <<allowed, clock, users, profiles, last>>
    BY <1>5, WriteFrame
  <2>2. UsersShape' /\ SessionsShape'
    BY <1>5, <2>1, WriteEffect DEF Shape, UsersShape, Exists
  <2>3. CallsShape'
    <3>1. DOMAIN call' = Calls /\ CallShape(c)' /\ Memory(c)'
      BY <1>5, WriteEffect DEF Written
    <3>2. ASSUME NEW d \in Calls \ {c} PROVE CallShape(d)' /\ Memory(d)'
      <4>1. sessions'[d] = None \/ call[d].at = "done"
        BY <1>5, WriteEffect DEF Shape, CallsShape, Memory, Ids
      <4> QED
        BY <1>5, <2>1, <4>1, WriteEffect, SameKeeps, KeepsShape
    <3> QED
      BY <3>1, <3>2 DEF CallsShape
  <2> QED
    BY <2>1, <2>2, <2>3 DEF Shape
<1>6. ASSUME NEW c \in Calls, NEW u \in Ids, Changed(c, u),
             \/ Edited(c, u)
             \/ users'[u] = None /\ last'[u] = None /\ profiles' = profiles \ {u}
      PROVE  Shape'
  <2>1. UNCHANGED <<allowed, clock, sessions>> /\ SessionsStay
    BY <1>6 DEF Changed, SessionsStay
  <2>2. UsersShape'
    BY <1>6 DEF Changed, Edited, Shape, UsersShape, Exists
  <2>3. SessionsShape'
    BY <2>1 DEF Shape, SessionsShape
  <2>4. CallsShape'
    <3>1. DOMAIN call' = Calls /\ CallShape(c)' /\ Memory(c)'
      BY <1>6 DEF Changed, Written
    <3>2. ASSUME NEW d \in Calls \ {c} PROVE CallShape(d)' /\ Memory(d)'
      <4>1. sessions'[d] = None \/ call[d].at = "done"
        BY <2>1 DEF Shape, CallsShape, Memory
      <4>2. Keeps(d)
        BY <1>6 DEF Changed
      <4> QED
        BY <2>1, <4>1, <4>2, KeepsShape
    <3> QED
      BY <3>1, <3>2 DEF CallsShape
  <2> QED
    BY <2>1, <2>2, <2>3, <2>4 DEF Shape
<1>7. ASSUME NEW c \in Calls, InsertUser(c) PROVE Shape'
  <2>1. UNCHANGED <<allowed, clock, sessions>> /\ SessionsStay
    BY <1>7, InsertEffect DEF SessionsStay
  <2>2. UsersShape'
    BY <1>7, InsertEffect DEF Shape, UsersShape, Exists, Ids
  <2>3. SessionsShape'
    BY <2>1 DEF Shape, SessionsShape
  <2>4. CallsShape'
    <3>1. DOMAIN call' = Calls /\ CallShape(c)' /\ Memory(c)'
      BY <1>7, InsertEffect
    <3>2. ASSUME NEW d \in Calls \ {c} PROVE CallShape(d)' /\ Memory(d)'
      BY <1>7, <2>1, InsertEffect DEF Shape, CallsShape, CallShape, Memory, Is
    <3> QED
      BY <3>1, <3>2 DEF CallsShape
  <2> QED
    BY <2>1, <2>2, <2>3, <2>4 DEF Shape
<1>8. ASSUME NEW c \in Calls, Edits(c) \/ RemoveUser(c) PROVE Shape'
  BY <1>6, <1>8, EditEffect, RemovalEffect DEF Edited, Changed
<1> QED
  BY <1>1, <1>2, <1>3, <1>4, <1>5, <1>7, <1>8, StepsByKind

------------------------------------------------------------------------------
(* The other parts are preserved. *)

(* What all steps but those of users have in common. *)
LEMMA OtherSteps ==
  ASSUME Shape, [GatewayNext]_gatewayVars
  PROVE  \/ UNCHANGED <<users, profiles, last>>
         \/ \E c \in Calls, u \in Ids : Edited(c, u)
         \/ \E c \in Calls : RemoveUser(c) \/ InsertUser(c)
BY StepsByKind, AskFrame, WriteFrame, EditEffect DEF vars, Tick, Aborted

(* A request that is done stays as it was. *)
LEMMA DoneStays ==
  ASSUME Shape, [GatewayNext]_gatewayVars, NEW d \in Calls, call[d].at = "done"
  PROVE  Keeps(d)
<1>1. CASE UNCHANGED vars \/ Tick \/ Aborted
  <2>1. call'[d] = call[d]
    BY <1>1 DEF vars, Tick, Aborted, Restarted
  <2> QED
    BY <2>1, SameKeeps
<1>2. ASSUME NEW c \in Calls, Asks(c) \/ Writes(c) \/ InsertUser(c)
      PROVE  Keeps(d)
  BY <1>2, AskEffect, WriteEffect, InsertEffect, SameKeeps
<1>3. ASSUME NEW c \in Calls, Edits(c) \/ RemoveUser(c)
      PROVE  Keeps(d)
  BY <1>3, EditEffect, RemovalEffect DEF Edited, Changed
<1> QED
  BY <1>1, <1>2, <1>3, StepsByKind

LEMMA NotYetStep ==
  ASSUME Shape, NotYetCreated, [GatewayNext]_gatewayVars
  PROVE  NotYetCreated'
<1> USE DEF NotYetCreated, Exists
<1>1. CASE UNCHANGED vars \/ Tick
  BY <1>1 DEF vars, Tick
<1>2. CASE Aborted
  BY <1>2 DEF Aborted, Restarted, Idle
<1>3. ASSUME NEW c \in Calls, Asks(c) PROVE NotYetCreated'
  BY <1>3, AskFrame, AskEffect
<1>4. ASSUME NEW c \in Calls, Writes(c) PROVE NotYetCreated'
  BY <1>4, WriteFrame, WriteEffect DEF Written
<1>5. ASSUME NEW c \in Calls, Edits(c) PROVE NotYetCreated'
  BY <1>5, EditEffect DEF Edited, Changed, Written, Keeps, Ids
<1>6. ASSUME NEW c \in Calls, RemoveUser(c) PROVE NotYetCreated'
  BY <1>6, RemovalEffect DEF Changed, Written, Keeps, Ids
<1>7. ASSUME NEW c \in Calls, InsertUser(c) PROVE NotYetCreated'
  BY <1>7, InsertEffect DEF Ids
<1> QED
  BY <1>1, <1>2, <1>3, <1>4, <1>5, <1>6, <1>7, StepsByKind

LEMMA HeldStep ==
  ASSUME Shape, NotYetCreated, HeldIsCurrent, [GatewayNext]_gatewayVars
  PROVE  HeldIsCurrent'
<1> USE DEF HeldIsCurrent, HoldsDocument, Exists
<1>1. CASE UNCHANGED vars \/ Tick
  BY <1>1 DEF vars, Tick
<1>2. CASE Aborted
  BY <1>2 DEF Aborted, Restarted, Idle
<1>3. ASSUME NEW c \in Calls, Asks(c) PROVE HeldIsCurrent'
  <2>1. users' = users /\ \A d \in Calls \ {c} : call'[d] = call[d]
    BY <1>3, AskFrame, AskEffect
  <2>2. call'[c].at = "write" =>
          users'[call'[c].user] # None /\ call'[c].doc = [f \in Fields |-> users'[call'[c].user][f]]
    BY <1>3, AskEffect DEF Asked, Read
  <2>3. ASSUME NEW v \in Ids, call'[c].at = "write", call'[c].user = v
        PROVE  users'[v] # None /\ \A f \in Fields : call'[c].doc[f] = users'[v][f]
    BY <2>2, <2>3
  <2> QED
    BY <2>1, <2>3
<1>4. ASSUME NEW c \in Calls, Writes(c) PROVE HeldIsCurrent'
  BY <1>4, WriteFrame, WriteEffect DEF Written
<1>5. ASSUME NEW c \in Calls, NEW u \in Ids, Changed(c, u) PROVE HeldIsCurrent'
  BY <1>5 DEF Changed, Written, Keeps
<1>6. ASSUME NEW c \in Calls, InsertUser(c) PROVE HeldIsCurrent'
  BY <1>6, InsertEffect DEF NotYetCreated
<1>7. ASSUME NEW c \in Calls, Edits(c) \/ RemoveUser(c) PROVE HeldIsCurrent'
  BY <1>5, <1>7, EditEffect, RemovalEffect DEF Edited, Changed
<1> QED
  BY <1>1, <1>2, <1>3, <1>4, <1>6, <1>7, StepsByKind

LEMMA OpenersStep ==
  ASSUME Shape, OpenersWereLate, [GatewayNext]_gatewayVars
  PROVE  OpenersWereLate'
<1> USE DEF OpenersWereLate, Exists, Is
<1>1. CASE UNCHANGED vars \/ Tick
  BY <1>1 DEF vars, Tick
<1>2. CASE Aborted
  BY <1>2 DEF Aborted, Restarted, Idle
<1>3. ASSUME NEW c \in Calls, Asks(c) PROVE OpenersWereLate'
  BY <1>3, AskFrame, AskEffect DEF Asked
<1>4. ASSUME NEW c \in Calls, Writes(c) PROVE OpenersWereLate'
  BY <1>4, WriteFrame, WriteEffect DEF Written
<1>5. ASSUME NEW c \in Calls, Edits(c) PROVE OpenersWereLate'
  BY <1>5, EditEffect DEF Edited, Changed, Written, Keeps, Shape, CallsShape, Memory
<1>6. ASSUME NEW c \in Calls, RemoveUser(c) PROVE OpenersWereLate'
  <2> DEFINE u == call[c].user
  <2>1. Changed(c, u) /\ call'[c].kind = "delete" /\ call'[c].at = "done" /\ call'[c].user = u
    BY <1>6, RemovalEffect DEF Changed, Written
  <2>2. call'[c].late = {d \in Calls : call[d].at = "open" /\ call[d].user = u}
    BY <1>6, RemovalEffect
  <2>3. SUFFICES ASSUME NEW x \in Calls, call'[x].at = "open", users'[call'[x].user] = None
                 PROVE  \E d \in Calls : /\ call'[d].kind = "delete" /\ call'[d].at = "done"
                                         /\ call'[d].user = call'[x].user /\ x \in call'[d].late
    OBVIOUS
  <2>4. x # c /\ call[x].at = "open" /\ call'[x].user = call[x].user /\ call[x].user \in Ids
    BY <2>1, <2>3 DEF Changed, Keeps, Shape, CallsShape, Memory
  <2>5. CASE call[x].user = u
    BY <2>1, <2>2, <2>4, <2>5
  <2>6. CASE call[x].user # u
    <3>1. users[call[x].user] = None
      BY <2>1, <2>3, <2>4, <2>6 DEF Changed
    <3>2. PICK d \in Calls : /\ call[d].kind = "delete" /\ call[d].at = "done"
                             /\ call[d].user = call[x].user /\ x \in call[d].late
      BY <2>4, <3>1
    <3>3. d # c
      BY <1>6, <3>2 DEF RemoveUser
    <3> QED
      BY <2>1, <2>4, <3>2, <3>3 DEF Changed, Keeps
  <2> QED
    BY <2>5, <2>6
<1>7. ASSUME NEW c \in Calls, InsertUser(c) PROVE OpenersWereLate'
  BY <1>7, InsertEffect DEF Shape, CallsShape, Memory
<1> QED
  BY <1>1, <1>2, <1>3, <1>4, <1>5, <1>6, <1>7, StepsByKind

LEMMA WholeStep ==
  ASSUME Shape, AccountsAreWhole, [GatewayNext]_gatewayVars
  PROVE  AccountsAreWhole'
<1> USE DEF AccountsAreWhole, Exists
<1>1. CASE UNCHANGED <<users, profiles, last>>
  BY <1>1
<1>2. ASSUME NEW c \in Calls, NEW u \in Ids, Edited(c, u) PROVE AccountsAreWhole'
  BY <1>2 DEF Edited, Changed, IndexAllows
<1>3. ASSUME NEW c \in Calls, RemoveUser(c) PROVE AccountsAreWhole'
  BY <1>3, RemovalEffect DEF Changed
<1>4. ASSUME NEW c \in Calls, InsertUser(c) PROVE AccountsAreWhole'
  BY <1>4, InsertEffect DEF Taken, Ids
<1> QED
  BY <1>1, <1>2, <1>3, <1>4, OtherSteps

LEMMA NoSessionStep ==
  ASSUME Shape, OpenersWereLate, NoSessionForTheGone, [GatewayNext]_gatewayVars
  PROVE  NoSessionForTheGone'
<1> DEFINE Gone(s, u) == \E d \in Calls : /\ call'[d].kind = "delete" /\ call'[d].at = "done"
                                          /\ call'[d].user = u
                                          /\ s \in call'[d].seen \union call'[d].late
<1>1. ASSUME NEW s \in Ids, NEW u,
             \E d \in Calls : /\ Is(d, "delete", "done") /\ call[d].user = u
                              /\ s \in call[d].seen \union call[d].late
      PROVE  Gone(s, u)
  BY <1>1, DoneStays DEF Is, Keeps
<1> HIDE DEF Gone
<1>2. ASSUME UNCHANGED <<users, sessions>>
      PROVE  NoSessionForTheGone'
  BY <1>1, <1>2 DEF NoSessionForTheGone, Exists, Is, Gone
<1>3. ASSUME NEW c \in Calls, Writes(c) PROVE NoSessionForTheGone'
  <2>1. users' = users
    BY <1>3, WriteFrame
  <2>2. SUFFICES ASSUME NEW s \in Ids, sessions'[s] # None, users[sessions'[s].user] = None
                 PROVE  Gone(s, sessions'[s].user)
    BY <2>1 DEF NoSessionForTheGone, Exists, Is, Gone
  <2>3. CASE sessions[s] # None
    <3>1. sessions'[s].user = sessions[s].user
      BY <1>3, <2>3, WriteEffect DEF SessionsStay
    <3> QED
      BY <1>1, <2>2, <2>3, <3>1 DEF NoSessionForTheGone, Exists
  <2>4. CASE sessions[s] = None
    <3>1. s = c /\ call[c].at = "open" /\ sessions'[s].user = call[c].user
      BY <1>3, <2>2, <2>4, WriteEffect
    <3> QED
      BY <1>1, <2>2, <3>1 DEF OpenersWereLate, Exists
  <2> QED
    BY <2>3, <2>4
<1>4. ASSUME NEW c \in Calls, NEW u \in Ids, Edited(c, u) PROVE NoSessionForTheGone'
  <2>1. sessions' = sessions /\ \A v \in Ids : users'[v] = None => users[v] = None
    BY <1>4 DEF Edited, Changed, Exists
  <2>2. \A s \in Ids : sessions[s] # None => sessions[s].user \in Ids
    BY DEF Shape, SessionsShape, Session
  <2> QED
    BY <1>1, <2>1, <2>2 DEF NoSessionForTheGone, Exists, Is, Gone
<1>5. ASSUME NEW c \in Calls, RemoveUser(c) PROVE NoSessionForTheGone'
  <2> DEFINE u == call[c].user
  <2>1. Changed(c, u) /\ call'[c].kind = "delete" /\ call'[c].seen = SessionsOf(u)
    BY <1>5, RemovalEffect
  <2>2. SUFFICES ASSUME NEW s \in Ids, sessions[s] # None, users'[sessions[s].user] = None
                 PROVE  Gone(s, sessions[s].user)
    BY <2>1 DEF NoSessionForTheGone, Exists, Is, Gone, Changed
  <2>3. CASE sessions[s].user = u
    BY <2>1, <2>2, <2>3 DEF Gone, Changed, Written, SessionsOf
  <2>4. CASE sessions[s].user # u
    <3>1. sessions[s].user \in Ids
      BY <2>2 DEF Shape, SessionsShape, Session
    <3>2. users[sessions[s].user] = None
      BY <2>1, <2>2, <2>4, <3>1 DEF Changed
    <3> QED
      BY <1>1, <2>2, <3>2 DEF NoSessionForTheGone, Exists
  <2> QED
    BY <2>3, <2>4
<1>6. ASSUME NEW c \in Calls, InsertUser(c) PROVE NoSessionForTheGone'
  <2>1. sessions' = sessions /\ \A v \in Ids : users'[v] = None => users[v] = None
    BY <1>6, InsertEffect
  <2>2. \A s \in Ids : sessions[s] # None => sessions[s].user \in Ids
    BY DEF Shape, SessionsShape, Session
  <2> QED
    BY <1>1, <2>1, <2>2 DEF NoSessionForTheGone, Exists, Is, Gone
<1>7. CASE UNCHANGED vars \/ Tick \/ Aborted
  BY <1>2, <1>7 DEF vars, Tick, Aborted
<1>8. ASSUME NEW c \in Calls, Asks(c) PROVE NoSessionForTheGone'
  BY <1>2, <1>8, AskFrame
<1> QED
  BY <1>3, <1>4, <1>5, <1>6, <1>7, <1>8, EditEffect, StepsByKind

(* Who holds a token after a step held it before, or has it from a live session. *)
LEMMA AskForRefresh ==
  ASSUME Shape, NEW c \in Calls, Asks(c), call'[c].kind = "refresh"
  PROVE  \/ /\ call[c].kind = "refresh" /\ call[c].at = "load"
            /\ call'[c].user = call[c].user /\ call'[c].token = call[c].token
         \/ \E s \in Ids : /\ Live(s) /\ call'[c].user = sessions[s].user
                           /\ call'[c].token = Token(s)
<1> USE DEF Advance, Idle
<1>0. DOMAIN call = Calls /\ CallShape(c)
  BY DEF Shape, CallsShape
<1>1. CASE Refresh(c)
  BY <1>0, <1>1 DEF Refresh
<1>2. CASE LoadUser(c)
  BY <1>0, <1>2 DEF LoadUser, Is, CallShape
<1>3. CASE Login(c) \/ Logout(c) \/ ForgotPassword(c) \/ ResetPassword(c) \/ UpdatePassword(c)
           \/ Register(c) \/ DeleteUser(c)
  BY <1>0, <1>3 DEF Login, Logout, ForgotPassword, ResetPassword, UpdatePassword, Register,
                    DeleteUser
<1>4. CASE Google(c)
  <2>1. \/ \E u \in Ids :
             Advance(c, [Idle EXCEPT !.kind = "google", !.at = "open", !.user = u])
        \/ \E e \in Emails :
             Advance(c, [Idle EXCEPT !.kind = "google", !.at = "insert", !.doc = [email |-> e]])
    BY <1>4 DEF Google
  <2> QED
    BY <1>0, <2>1
<1>5. CASE WriteRevocations(c)
  BY <1>0, <1>5 DEF WriteRevocations, Is, CallShape
<1>6. CASE Fail(c)
  BY <1>0, <1>6 DEF Fail
<1> QED
  BY <1>1, <1>2, <1>3, <1>4, <1>5, <1>6 DEF Asks

LEMMA NewRevocation ==
  ASSUME Shape, NEW c \in Calls, CommitRevocations(c) \/ RevokeSession(c)
  PROVE  /\ \A s \in call'[c].seen : s \in Ids /\ sessions[s] # None /\ sessions'[s].revoked
         /\ \A s \in Ids : sessions[s] # None /\ sessions[s].user = call'[c].user =>
              s \in call'[c].seen \union call'[c].late
         /\ \A d \in Calls :
              call[d].kind = "refresh" /\ call[d].user = call'[c].user /\ call[d].at \in {"load", "open"}
                => d \in call'[c].late
         /\ \A s \in Ids : sessions'[s] # None => sessions[s] # None
<1> DEFINE u == call'[c].user
           ss == call'[c].seen
<1>1. CallShape(c) /\ Memory(c) /\ DOMAIN call = Calls /\ SessionsShape
  BY DEF Shape, CallsShape
<1>2. /\ \A s \in ss : s \in Ids /\ sessions[s] # None
      /\ sessions' = Revoked(ss)
      /\ call'[c].late = OutOfReach(u, ss)
  <2>1. CASE CommitRevocations(c)
    <3>1. /\ Is(c, "logout", "revoke") /\ sessions' = Revoked(call[c].seen)
          /\ call' = [call EXCEPT ![c] = [Done(c) EXCEPT
                                            !.late = OutOfReach(call[c].user, call[c].seen)]]
      BY <2>1 DEF CommitRevocations, Advance
    <3>2. call'[c] = [Done(c) EXCEPT !.late = OutOfReach(call[c].user, call[c].seen)]
      BY <1>1, <3>1
    <3>3. ss = call[c].seen /\ u = call[c].user /\ call'[c].late = OutOfReach(u, ss)
      BY <1>1, <3>2 DEF Done, CallShape, Idle
    <3> QED
      BY <1>1, <3>1, <3>3 DEF CallShape, Memory
  <2>2. CASE RevokeSession(c)
    <3>1. PICK s \in Ids, t \in Ids :
            /\ t \in SessionsOf(sessions[s].user) \ Held
            /\ sessions' = Revoked({t})
            /\ Advance(c, [Idle EXCEPT !.kind = "revoke", !.at = "done", !.seen = {t},
                                 !.late = OutOfReach(sessions[s].user, {t}),
                                 !.user = sessions[s].user])
      BY <2>2 DEF RevokeSession
    <3>2. ss = {t} /\ u = sessions[s].user /\ call'[c].late = OutOfReach(sessions[s].user, {t})
      BY <1>1, <3>1 DEF Advance, Idle
    <3> QED
      BY <3>1, <3>2 DEF SessionsOf
  <2> QED
    BY <2>1, <2>2
<1>3. \A s \in ss : sessions'[s].revoked
  BY <1>1, <1>2 DEF Revoked, SessionsShape, Session
<1>4. \A s \in Ids : sessions'[s] # None => sessions[s] # None
  BY <1>2 DEF Revoked
<1>5. OutOfReach(u, ss) = ({s \in Ids : sessions[s] # None /\ sessions[s].user = u} \ ss)
                            \union {d \in Calls : /\ call[d].kind = "refresh" /\ call[d].user = u
                                                  /\ call[d].at \in {"load", "open"}}
  BY DEF OutOfReach, SessionsOf
<1>6. \A s \in Ids : sessions[s] # None /\ sessions[s].user = u => s \in ss \union call'[c].late
  <2>1. SUFFICES ASSUME NEW s \in Ids, sessions[s] # None, sessions[s].user = u, s \notin ss
                 PROVE  s \in OutOfReach(u, ss)
    BY <1>2
  <2> QED
    BY <1>5, <2>1
<1>7. \A d \in Calls :
        call[d].kind = "refresh" /\ call[d].user = u /\ call[d].at \in {"load", "open"}
          => d \in call'[c].late
  <2>1. SUFFICES ASSUME NEW d \in Calls, call[d].kind = "refresh", call[d].user = u,
                        call[d].at \in {"load", "open"}
                 PROVE  d \in call'[c].late
    OBVIOUS
  <2>2. d \in OutOfReach(u, ss)
    BY <1>5, <2>1
  <2> QED
    BY <1>2, <2>2
<1> QED
  BY <1>2, <1>3, <1>4, <1>6, <1>7

(* The three parts about revocations, where no session is opened or revoked. *)
LEMMA QuietStep ==
  ASSUME Shape, SeenAreThere, RefreshersHoldOthers, RevocationReaches,
         [GatewayNext]_gatewayVars, sessions' = sessions,
         \A r \in Calls : call'[r].kind \in {"logout", "revoke"} /\ call'[r].at = "done" =>
           Revoker(r),
         \A c \in Calls :
           call'[c].kind = "refresh" /\ call'[c].at \in {"load", "open"} =>
             \/ /\ call[c].kind = "refresh" /\ call[c].at \in {"load", "open"}
                /\ call'[c].user = call[c].user /\ call'[c].token = call[c].token
             \/ \E s \in Ids : /\ Live(s) /\ call'[c].user = sessions[s].user
                               /\ call'[c].token = Token(s)
  PROVE  SeenAreThere' /\ RefreshersHoldOthers' /\ RevocationReaches'
<1>1. \A r \in Calls : call[r].at = "done" => Keeps(r)
  BY DoneStays
<1>2. SeenAreThere'
  BY <1>1 DEF SeenAreThere, Revoker, Keeps
<1>3. RefreshersHoldOthers'
  <2>1. SUFFICES ASSUME NEW r \in Calls, NEW c \in Calls,
                        call'[r].kind \in {"logout", "revoke"}, call'[r].at = "done",
                        c \notin call'[r].late, call'[c].kind = "refresh",
                        call'[c].at \in {"load", "open"}, call'[c].user = call'[r].user
                 PROVE  \E t \in SessionsOf(call[r].user) \ call[r].seen :
                          Token(t) = call'[c].token
    BY <1>1 DEF RefreshersHoldOthers, Revoker, Keeps, SessionsOf, Token
  <2>2. Revoker(r) /\ Keeps(r)
    BY <1>1, <2>1 DEF Revoker
  <2>3. CASE /\ call[c].kind = "refresh" /\ call[c].at \in {"load", "open"}
             /\ call'[c].user = call[c].user /\ call'[c].token = call[c].token
    BY <2>1, <2>2, <2>3 DEF RefreshersHoldOthers, Keeps
  <2>4. CASE \E s \in Ids : /\ Live(s) /\ call'[c].user = sessions[s].user
                            /\ call'[c].token = Token(s)
    <3>1. PICK s \in Ids : /\ Live(s) /\ call'[c].user = sessions[s].user
                           /\ call'[c].token = Token(s)
      BY <2>4
    <3>2. s \in SessionsOf(call[r].user) /\ ~sessions[s].revoked
      BY <2>1, <2>2, <3>1 DEF Live, SessionsOf, Keeps
    <3>3. s \notin call[r].seen
      BY <2>2, <3>2 DEF RevocationReaches, Revoker
    <3> QED
      BY <3>1, <3>2, <3>3
  <2> QED
    BY <2>1, <2>3, <2>4
<1>4. RevocationReaches'
  <2>1. SUFFICES ASSUME NEW r \in Calls, NEW s \in Ids,
                        call'[r].kind \in {"logout", "revoke"}, call'[r].at = "done",
                        s \in SessionsOf(call'[r].user), ~sessions[s].revoked
                 PROVE  /\ s \notin call'[r].seen
                        /\ s \in Calls \ call'[r].late /\ call'[s].kind = "refresh" =>
                             \E t \in SessionsOf(call'[r].user) \ ({s} \union call'[r].seen) :
                               Token(t) = call'[s].token
    BY DEF RevocationReaches, SessionsOf, Token
  <2>2. Revoker(r) /\ Keeps(r)
    BY <1>1, <2>1 DEF Revoker
  <2>3. s \in Calls => call[s].at = "done"
    BY <2>1 DEF SessionsOf, Shape, CallsShape, Memory
  <2>4. s \in Calls => Keeps(s)
    BY <1>1, <2>3
  <2> QED
    BY <2>1, <2>2, <2>4 DEF RevocationReaches, Revoker, Keeps
<1> QED
  BY <1>2, <1>3, <1>4

(* ... where one is opened, *)
LEMMA OpeningStep ==
  ASSUME Shape, SeenAreThere, RefreshersHoldOthers, RevocationReaches,
         [GatewayNext]_gatewayVars, NEW c \in Calls, OpenSession(c)
  PROVE  SeenAreThere' /\ RefreshersHoldOthers' /\ RevocationReaches'
<1>1. /\ call[c].at = "open" /\ call[c].kind \in {"login", "google", "refresh"}
      /\ call[c].user \in Ids /\ sessions[c] = None /\ c \in Ids
  BY DEF OpenSession, Shape, CallsShape, Memory, Ids
<1>2. /\ DOMAIN call' = Calls /\ call'[c] = Done(c) /\ \A d \in Calls \ {c} : call'[d] = call[d]
  BY DEF OpenSession, Advance, Shape, CallsShape
<1>3. /\ call'[c].kind = call[c].kind /\ call'[c].user = call[c].user
      /\ call'[c].token = call[c].token /\ call'[c].at = "done"
  BY <1>2 DEF Done, Shape, CallsShape, CallShape, Idle
<1>4. /\ \A s \in Ids \ {c} : sessions'[s] = sessions[s]
      /\ sessions'[c] # None /\ sessions'[c].user = call[c].user
  <2>1. /\ sessions' = [sessions EXCEPT ![c] = [user |-> call[c].user, iat |-> clock,
                                                revoked |-> FALSE]]
        /\ DOMAIN sessions = Ids
    BY DEF OpenSession, Shape, SessionsShape
  <2>2. [user |-> call[c].user, iat |-> clock, revoked |-> FALSE] \in Session
    BY <1>1 DEF Session, Shape
  <2> QED
    BY <1>1, <2>1, <2>2, AccountsAssumption
<1>5. ASSUME NEW r \in Calls, call'[r].kind \in {"logout", "revoke"}, call'[r].at = "done"
      PROVE  r # c /\ call'[r] = call[r] /\ Revoker(r)
  BY <1>1, <1>2, <1>3, <1>5 DEF Revoker
<1>6. \A u, s : s \in SessionsOf(u) =>
        /\ s \in Ids \ {c} /\ sessions'[s] # None /\ sessions'[s].user = u
        /\ <<sessions'[s].user, sessions'[s].iat>> = Token(s)
  BY <1>1, <1>4 DEF SessionsOf, Token
<1>7. SeenAreThere'
  <2>1. SUFFICES ASSUME NEW r \in Calls, call'[r].kind \in {"logout", "revoke"},
                        call'[r].at = "done", NEW s \in call'[r].seen
                 PROVE  sessions'[s] # None
    BY DEF SeenAreThere, Revoker
  <2>2. sessions[s] # None /\ s \in Ids
    BY <1>5, <2>1 DEF SeenAreThere, Shape, CallsShape, CallShape
  <2> QED
    BY <1>4, <2>2
<1>8. RefreshersHoldOthers'
  <2>1. SUFFICES ASSUME NEW r \in Calls, NEW x \in Calls,
                        call'[r].kind \in {"logout", "revoke"}, call'[r].at = "done",
                        x \notin call'[r].late, call'[x].kind = "refresh",
                        call'[x].at \in {"load", "open"}, call'[x].user = call'[r].user
                 PROVE  \E t \in Ids \ call'[r].seen :
                          /\ sessions'[t] # None /\ sessions'[t].user = call'[r].user
                          /\ <<sessions'[t].user, sessions'[t].iat>> = call'[x].token
    BY DEF RefreshersHoldOthers, Revoker, SessionsOf, Token
  <2>2. x # c /\ call'[x] = call[x] /\ call'[r] = call[r] /\ Revoker(r)
    BY <1>2, <1>3, <1>5, <2>1
  <2>3. PICK t \in SessionsOf(call[r].user) \ call[r].seen : Token(t) = call[x].token
    BY <2>1, <2>2 DEF RefreshersHoldOthers
  <2> QED
    BY <1>6, <2>2, <2>3
<1>9. RevocationReaches'
  <2>1. SUFFICES ASSUME NEW r \in Calls, NEW s \in Ids,
                        call'[r].kind \in {"logout", "revoke"}, call'[r].at = "done",
                        sessions'[s] # None, sessions'[s].user = call'[r].user,
                        ~sessions'[s].revoked
                 PROVE  /\ s \notin call'[r].seen
                        /\ s \in Calls \ call'[r].late /\ call'[s].kind = "refresh" =>
                             \E t \in Ids \ ({s} \union call'[r].seen) :
                               /\ sessions'[t] # None /\ sessions'[t].user = call'[r].user
                               /\ <<sessions'[t].user, sessions'[t].iat>> = call'[s].token
    BY DEF RevocationReaches, SessionsOf, Token
  <2>2. r # c /\ call'[r] = call[r] /\ Revoker(r)
    BY <1>5, <2>1
  <2>3. CASE s = c
    <3>1. s \notin call[r].seen
      BY <1>1, <2>2, <2>3 DEF SeenAreThere
    <3>2. ASSUME s \notin call[r].late, call[c].kind = "refresh"
          PROVE  \E t \in SessionsOf(call[r].user) \ call[r].seen : Token(t) = call[c].token
      BY <1>1, <1>4, <2>1, <2>2, <2>3, <3>2 DEF RefreshersHoldOthers
    <3> QED
      BY <1>3, <1>6, <2>2, <2>3, <3>1, <3>2
  <2>4. CASE s # c
    <3>1. s \in SessionsOf(call[r].user) /\ ~sessions[s].revoked
      BY <1>4, <2>1, <2>2, <2>4 DEF SessionsOf
    <3>2. s \in Calls => call'[s] = call[s]
      BY <1>2, <2>4
    <3>3. /\ s \notin call[r].seen
          /\ s \in Calls \ call[r].late /\ call[s].kind = "refresh" =>
               \E t \in SessionsOf(call[r].user) \ ({s} \union call[r].seen) :
                 Token(t) = call[s].token
      BY <2>2, <3>1 DEF RevocationReaches, Revoker
    <3> QED
      BY <1>6, <2>2, <3>2, <3>3
  <2> QED
    BY <2>3, <2>4
<1> QED
  BY <1>7, <1>8, <1>9

(* ... and where some are revoked: *)
LEMMA RevokingStep ==
  ASSUME Shape, SeenAreThere, RefreshersHoldOthers, RevocationReaches,
         [GatewayNext]_gatewayVars, NEW c \in Calls, CommitRevocations(c) \/ RevokeSession(c)
  PROVE  SeenAreThere' /\ RefreshersHoldOthers' /\ RevocationReaches'
<1>1. /\ \A d \in Calls \ {c} : call'[d] = call[d]
      /\ call'[c].at = "done" /\ call[c].at # "done" /\ SessionsStay
  BY WriteEffect DEF Writes, Written
<1>2. /\ \A s \in call'[c].seen : s \in Ids /\ sessions[s] # None /\ sessions'[s].revoked
      /\ \A s \in Ids : sessions[s] # None /\ sessions[s].user = call'[c].user =>
           s \in call'[c].seen \union call'[c].late
      /\ \A d \in Calls :
           call[d].kind = "refresh" /\ call[d].user = call'[c].user /\ call[d].at \in {"load", "open"}
             => d \in call'[c].late
      /\ \A s \in Ids : sessions'[s] # None => sessions[s] # None
  BY NewRevocation
<1>3. \A r \in Calls : r # c /\ Revoker(r)' => call'[r] = call[r] /\ Revoker(r)
  BY <1>1 DEF Revoker
<1>4. \A s \in Ids : sessions[s] # None =>
        /\ sessions'[s] # None
        /\ <<sessions'[s].user, sessions'[s].iat>> = Token(s)
        /\ sessions'[s].user = sessions[s].user
  BY <1>1 DEF SessionsStay, Token
<1>5. SeenAreThere'
  <2>1. SUFFICES ASSUME NEW r \in Calls, Revoker(r)', NEW s \in call'[r].seen
                 PROVE  sessions'[s] # None
    BY DEF SeenAreThere
  <2>2. CASE r = c
    BY <1>2, <1>4, <2>1, <2>2
  <2>3. CASE r # c
    BY <1>3, <1>4, <2>1, <2>3 DEF SeenAreThere, Shape, CallsShape, CallShape
  <2> QED
    BY <2>2, <2>3
<1>6. RefreshersHoldOthers'
  <2>1. SUFFICES ASSUME NEW r \in Calls, NEW x \in Calls, Revoker(r)',
                        x \notin call'[r].late, call'[x].kind = "refresh",
                        call'[x].at \in {"load", "open"}, call'[x].user = call'[r].user
                 PROVE  \E t \in Ids \ call'[r].seen :
                          /\ sessions'[t] # None /\ sessions'[t].user = call'[r].user
                          /\ <<sessions'[t].user, sessions'[t].iat>> = call'[x].token
    BY DEF RefreshersHoldOthers, SessionsOf, Token
  <2>2. x # c /\ call'[x] = call[x]
    BY <1>1, <2>1
  <2>3. r # c
    BY <1>2, <2>1, <2>2
  <2>4. call'[r] = call[r] /\ Revoker(r)
    BY <1>3, <2>1, <2>3
  <2>5. PICK t \in SessionsOf(call[r].user) \ call[r].seen : Token(t) = call[x].token
    BY <2>1, <2>2, <2>4 DEF RefreshersHoldOthers
  <2>6. t \in Ids /\ sessions[t] # None /\ sessions[t].user = call[r].user
    BY DEF SessionsOf
  <2> QED
    BY <1>4, <2>2, <2>4, <2>5, <2>6
<1>7. RevocationReaches'
  <2>1. SUFFICES ASSUME NEW r \in Calls, NEW s \in Ids, Revoker(r)',
                        sessions'[s] # None, sessions'[s].user = call'[r].user,
                        ~sessions'[s].revoked
                 PROVE  /\ s \notin call'[r].seen
                        /\ s \in Calls \ call'[r].late /\ call'[s].kind = "refresh" =>
                             \E t \in Ids \ ({s} \union call'[r].seen) :
                               /\ sessions'[t] # None /\ sessions'[t].user = call'[r].user
                               /\ <<sessions'[t].user, sessions'[t].iat>> = call'[s].token
    BY DEF RevocationReaches, Revoker, SessionsOf, Token
  <2>2. /\ sessions[s] # None /\ sessions[s].user = call'[r].user
        /\ ~sessions[s].revoked
    BY <1>1, <1>2, <2>1 DEF SessionsStay
  <2>3. CASE r = c
    BY <1>2, <2>1, <2>2, <2>3
  <2>4. CASE r # c
    <3>1. call'[r] = call[r] /\ Revoker(r)
      BY <1>3, <2>1, <2>4
    <3>2. s \in Calls => call'[s] = call[s]
      BY <1>1, <2>2 DEF Shape, CallsShape, Memory
    <3>3. s \in SessionsOf(call[r].user)
      BY <2>2, <3>1 DEF SessionsOf
    <3>4. s \notin call[r].seen
      BY <2>2, <3>1, <3>3 DEF RevocationReaches, Revoker
    <3>5. ASSUME s \in Calls \ call[r].late, call[s].kind = "refresh"
          PROVE  \E t \in SessionsOf(call[r].user) \ ({s} \union call[r].seen) :
                   Token(t) = call[s].token
      BY <2>2, <3>1, <3>3, <3>5 DEF RevocationReaches, Revoker
    <3>6. \A t \in SessionsOf(call[r].user) :
            t \in Ids /\ sessions[t] # None /\ sessions[t].user = call[r].user
      BY DEF SessionsOf
    <3> QED
      BY <1>4, <3>1, <3>2, <3>4, <3>5, <3>6
  <2> QED
    BY <2>3, <2>4
<1> QED
  BY <1>5, <1>6, <1>7

LEMMA RevocationStep ==
  ASSUME Shape, SeenAreThere, RefreshersHoldOthers, RevocationReaches, [GatewayNext]_gatewayVars
  PROVE  SeenAreThere' /\ RefreshersHoldOthers' /\ RevocationReaches'
<1> DEFINE Holds(d) == /\ call[d].kind = "refresh" /\ call[d].at \in {"load", "open"}
                       /\ call'[d].user = call[d].user /\ call'[d].token = call[d].token
           Reads(d) == \E s \in Ids : /\ Live(s) /\ call'[d].user = sessions[s].user
                                      /\ call'[d].token = Token(s)
           Same(d) == /\ call'[d].kind = call[d].kind /\ call'[d].at = call[d].at
                      /\ call'[d].user = call[d].user /\ call'[d].token = call[d].token
           Quiet(d) == /\ call'[d].kind \in {"logout", "revoke"} /\ call'[d].at = "done" =>
                            Revoker(d)
                       /\ call'[d].kind = "refresh" /\ call'[d].at \in {"load", "open"} =>
                            Holds(d) \/ Reads(d)
<1>1. ASSUME NEW d \in Calls, Same(d) PROVE Quiet(d)
  <2>1. Revoker(d) = (call'[d].kind \in {"logout", "revoke"} /\ call'[d].at = "done")
    BY <1>1 DEF Revoker
  <2>2. call'[d].kind = "refresh" /\ call'[d].at \in {"load", "open"} => Holds(d)
    BY <1>1
  <2> HIDE DEF Holds, Reads
  <2> QED
    BY <2>1, <2>2
<1>2. ASSUME sessions' = sessions, \A d \in Calls : Quiet(d)
      PROVE  SeenAreThere' /\ RefreshersHoldOthers' /\ RevocationReaches'
  BY <1>2, QuietStep
<1> HIDE DEF Quiet
<1>3. CASE UNCHANGED vars \/ Tick
  <2>1. sessions' = sessions /\ \A d \in Calls : Same(d)
    BY <1>3 DEF vars, Tick
  <2> QED
    BY <1>1, <1>2, <2>1
<1>4. CASE Aborted
  <2>1. ASSUME NEW d \in Calls PROVE Quiet(d)
    <3>1. CASE call[d].at \in {"idle", "done", "failed"}
      BY <1>1, <1>4, <3>1 DEF Aborted, Restarted
    <3>2. CASE call[d].at \notin {"idle", "done", "failed"}
      BY <1>4, <3>2 DEF Aborted, Restarted, Idle, Quiet
    <3> QED
      BY <3>1, <3>2
  <2> QED
    BY <1>2, <1>4, <2>1 DEF Aborted
<1>5. ASSUME NEW c \in Calls, Asks(c)
      PROVE  SeenAreThere' /\ RefreshersHoldOthers' /\ RevocationReaches'
  <2>1. call'[c].kind = "refresh" => Holds(c) \/ Reads(c)
    BY <1>5, AskForRefresh
  <2>2. call'[c].at # "done"
    BY <1>5, AskEffect DEF Asked
  <2>3. Quiet(c)
    BY <2>1, <2>2 DEF Quiet
  <2>4. sessions' = sessions /\ \A d \in Calls \ {c} : Same(d)
    BY <1>5, AskFrame, AskEffect
  <2> QED
    BY <1>1, <1>2, <2>3, <2>4
<1>6. ASSUME NEW c \in Calls, Edits(c) \/ RemoveUser(c) \/ InsertUser(c)
      PROVE  SeenAreThere' /\ RefreshersHoldOthers' /\ RevocationReaches'
  <2>1. call'[c].kind \notin {"logout", "revoke", "refresh"} /\ sessions' = sessions
    BY <1>6, EditEffect, RemovalEffect, InsertEffect DEF Edited, Changed
  <2>2. \A d \in Calls \ {c} : Same(d)
    BY <1>6, EditEffect, RemovalEffect, InsertEffect DEF Edited, Changed, Keeps
  <2>3. Quiet(c)
    BY <2>1 DEF Quiet
  <2> QED
    BY <1>1, <1>2, <2>1, <2>2, <2>3
<1> QED
  BY <1>3, <1>4, <1>5, <1>6, OpeningStep, RevokingStep, StepsByKind DEF Writes

LEMMA LostUpdateStep ==
  ASSUME Shape, HeldIsCurrent, LostUpdateNeedsOverlap, [GatewayNext]_gatewayVars
  PROVE  LostUpdateNeedsOverlap'
<1> DEFINE Kind(f) == IF f = "password" THEN {"forgot"} ELSE {"forgot", "reset"}
           LostNow(u, f) == \E d \in Calls : /\ call'[d].user = u /\ call'[d].crossed
                                             /\ call'[d].at = "done" /\ call'[d].kind \in Kind(f)
                                             /\ call'[d].doc[f] = users'[u][f]
<1>1. ASSUME NEW u \in Ids, NEW f \in Fields, users[u] # None,
             users'[u][f] = users[u][f], last'[u][f] = last[u][f], users'[u][f] # last'[u][f]
      PROVE  LostNow(u, f)
  <2>1. PICK d \in Calls : /\ call[d].user = u /\ call[d].crossed
                           /\ call[d].at = "done" /\ call[d].kind \in Kind(f)
                           /\ call[d].doc[f] = users[u][f]
    BY <1>1 DEF LostUpdateNeedsOverlap, Exists
  <2>2. Keeps(d)
    BY <2>1, DoneStays
  <2> QED
    BY <1>1, <2>1, <2>2 DEF Keeps
<1>2. SUFFICES ASSUME NEW u \in Ids, NEW f \in Fields, users'[u] # None,
                      users'[u][f] # last'[u][f]
               PROVE  LostNow(u, f)
  BY DEF LostUpdateNeedsOverlap, Exists
<1> HIDE DEF LostNow
<1>3. CASE UNCHANGED <<users, profiles, last>>
  BY <1>1, <1>2, <1>3
<1>4. ASSUME NEW c \in Calls, InsertUser(c) PROVE LostNow(u, f)
  <2>1. u # c
    BY <1>2, <1>4, InsertEffect
  <2>2. users'[u] = users[u] /\ last'[u] = last[u]
    BY <1>4, <2>1, InsertEffect
  <2> QED
    BY <1>1, <1>2, <2>2
<1>5. ASSUME NEW c \in Calls, RemoveUser(c) PROVE LostNow(u, f)
  <2>1. u # call[c].user /\ Changed(c, call[c].user)
    BY <1>2, <1>5, RemovalEffect
  <2>2. users'[u] = users[u] /\ last'[u] = last[u]
    BY <2>1 DEF Changed
  <2> QED
    BY <1>1, <1>2, <2>2
<1>6. ASSUME NEW c \in Calls, NEW v \in Ids, Edited(c, v) PROVE LostNow(u, f)
  <2>1. CASE users'[u][f] = users[u][f] /\ last'[u][f] = last[u][f] /\ users[u] # None
    BY <1>1, <1>2, <2>1
  <2>2. CASE u # v
    <3>1. users'[u] = users[u] /\ last'[u] = last[u]
      BY <1>6, <2>2 DEF Edited, Changed
    <3> QED
      BY <1>2, <2>1, <3>1
  <2>3. CASE /\ u = v /\ HoldsDocument(c, u) /\ call'[c] = Done(c)
             /\ f = "password" => call[c].kind = "forgot"
             /\ users'[u][f] = call[c].doc[f] /\ last'[u][f] = last[u][f]
    <3>1. CASE call[c].crossed
      <4>1. /\ call'[c].kind = call[c].kind /\ call'[c].user = call[c].user
            /\ call'[c].doc = call[c].doc /\ call'[c].at = "done"
            /\ call'[c].crossed = call[c].crossed
        BY <2>3 DEF Shape, CallsShape, CallShape, Done, Idle
      <4>2. call[c].user = u /\ call[c].kind \in Kind(f)
        BY <2>3 DEF HoldsDocument
      <4> QED
        BY <2>3, <3>1, <4>1, <4>2 DEF LostNow
    <3>2. CASE ~call[c].crossed
      <4>1. users[u] # None /\ call[c].doc[f] = users[u][f]
        BY <2>3, <3>2 DEF HeldIsCurrent, Exists
      <4> QED
        BY <2>1, <2>3, <4>1
    <3> QED
      BY <3>1, <3>2
  <2> QED
    BY <1>2, <1>6, <2>1, <2>2, <2>3 DEF Edited, Exists
<1> QED
  BY <1>3, <1>4, <1>5, <1>6, OtherSteps

------------------------------------------------------------------------------
(* The theorems. *)

LEMMA InitIInv == GatewayInit => IInv
<1> SUFFICES ASSUME GatewayInit PROVE IInv
  OBVIOUS
<1> USE AccountsAssumption DEF GatewayInit, Init
<1>1. PICK e \in Emails :
        users = [u \in Ids |->
                   IF u = First
                   THEN [email |-> e, password |-> First, rest |-> First, token |-> None]
                   ELSE None]
  OBVIOUS
<1>2. First \in Ids /\ First # None /\ \A c \in Calls : c \in Ids /\ c # First
  BY DEF Ids
<1>3. Exists(First) /\ users[First] \in User /\ \A u \in Ids : u # First => ~Exists(u)
  <2>1. users[First] = [email |-> e, password |-> First, rest |-> First, token |-> None]
    BY <1>1, <1>2
  <2>2. users[First] \in User
    BY <1>2, <2>1 DEF User
  <2> QED
    BY <1>1, <1>2, <2>2 DEF Exists
<1>4. last[First] = [f \in Fields |-> users[First][f]] /\ \A u \in Ids : u # First => last[u] = None
  BY <1>2
<1>5. UsersShape
  <2>1. last[First] \in [Fields -> Ids \union Emails]
    BY <1>3, <1>4 DEF User, Fields
  <2>2. DOMAIN users = Ids /\ DOMAIN last = Ids /\ profiles \subseteq Ids
    BY <1>1, <1>2
  <2> QED
    BY <1>3, <1>4, <2>1, <2>2 DEF UsersShape
<1>6. SessionsShape
  BY <1>2 DEF SessionsShape, Session
<1>7. CallsShape /\ \A c \in Calls : call[c] = Idle
  BY <1>2 DEF CallsShape, CallShape, Memory, Is, Idle, Places
<1>8. NotYetCreated /\ HeldIsCurrent /\ OpenersWereLate
  BY <1>2, <1>3, <1>7 DEF NotYetCreated, HeldIsCurrent, OpenersWereLate, HoldsDocument, Idle
<1>9. AccountsAreWhole
  BY <1>2, <1>3 DEF AccountsAreWhole
<1>10. NoSessionForTheGone
  BY <1>2, <1>3 DEF NoSessionForTheGone
<1>11. LostUpdateNeedsOverlap
  BY <1>3, <1>4 DEF LostUpdateNeedsOverlap
<1>12. SeenAreThere /\ RefreshersHoldOthers /\ RevocationReaches
  BY <1>7 DEF SeenAreThere, RefreshersHoldOthers, RevocationReaches, Revoker, Idle
<1> QED
  BY <1>5, <1>6, <1>7, <1>8, <1>9, <1>10, <1>11, <1>12 DEF IInv, Shape

LEMMA IInvStep == IInv /\ [GatewayNext]_gatewayVars => IInv'
BY ShapeStep, NotYetStep, HeldStep, OpenersStep, WholeStep, NoSessionStep, RevocationStep,
   LostUpdateStep DEF IInv

(* What is asked of the shape of the variables follows from what is proved of it. *)
LEMMA ShapeIsType == Shape => TypeOK
<1> SUFFICES ASSUME Shape PROVE TypeOK
  OBVIOUS
<1>1. \A u \in Ids : users[u] \in {None} \union User /\ (Exists(u) <=> last[u] # None)
  BY AccountsAssumption DEF Shape, UsersShape, Exists
<1>2. \A s \in Ids : sessions[s] \in {None} \union Session
  BY DEF Shape, SessionsShape
<1>3. \A c \in Calls : CallShape(c)
  BY DEF Shape, CallsShape
<1> QED
  BY <1>1, <1>2, <1>3 DEF TypeOK, Shape, UsersShape, CallShape, Places

(* The inductive invariant holds of the gateway, whatever requests and        *)
(* sockets do.                                                                *)
THEOREM Invariance == GatewaySpec => []IInv
<1>1. GatewayInit => IInv
  BY InitIInv
<1>2. IInv /\ [GatewayNext]_gatewayVars => IInv'
  BY IInvStep
<1> QED
  BY <1>1, <1>2, PTL DEF GatewaySpec

(* Users, sessions and requests keep their shape, in every interleaving.      *)
THEOREM TypeCorrect == GatewaySpec => []TypeOK
<1>1. IInv => TypeOK
  BY ShapeIsType DEF IInv
<1> QED
  BY <1>1, Invariance, PTL

(* Registrations, Google logins, changes and deletions never leave two users  *)
(* with one address, nor a user without its profile, nor a profile alone.     *)
THEOREM WholeAccounts == GatewaySpec => []AccountsAreWhole
<1>1. IInv => AccountsAreWhole
  BY DEF IInv
<1> QED
  BY <1>1, Invariance, PTL

(* The sessions of a deleted user are those it had, and those opened by       *)
(* requests that were under way.                                              *)
THEOREM OrphansWereThere == GatewaySpec => []NoSessionForTheGone
<1>1. IInv => NoSessionForTheGone
  BY DEF IInv
<1> QED
  BY <1>1, Invariance, PTL

(* A confirmed change of a user is lost only to forgotPassword or             *)
(* resetPassword, and only when it fell between their reading and writing.    *)
THEOREM ChangesStay == GatewaySpec => []LostUpdateNeedsOverlap
<1>1. IInv => LostUpdateNeedsOverlap
  BY DEF IInv
<1> QED
  BY <1>1, Invariance, PTL

(* A confirmed revocation leaves its sessions revoked; a session opened after *)
(* it from a refresh token was asked for before it, or shares its token with  *)
(* a session that was not revoked.                                            *)
THEOREM RevocationsReach == GatewaySpec => []RevocationReaches
<1>1. IInv => RevocationReaches
  BY DEF IInv
<1> QED
  BY <1>1, Invariance, PTL
==============================================================================
