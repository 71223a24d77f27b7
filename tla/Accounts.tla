------------------------------ MODULE Accounts ------------------------------
(***************************************************************************)
(* Users, their profiles, their sessions and tokens: the requests the API  *)
(* gateway serves in modules/auth, modules/session and modules/user, which *)
(* interleave at every await.                                              *)
(*                                                                         *)
(* Some requests write the fields they change, some read a whole document, *)
(* change it and write all of it back.  A document's fields hold the id of *)
(* the request that set them, so that a lost change can be seen.  A        *)
(* request that is refused before it changes anything leaves no trace and  *)
(* is not a step.                                                          *)
(***************************************************************************)
EXTENDS Integers, FiniteSets, FiniteSetsExt

CONSTANTS
  Calls,        \* the requests, each made once
  First,        \* the user, and its session, that exist at the start
  Emails,       \* the addresses asked for; they stand for every unique key
  AccessLife,   \* JWT_ACCESS_EXPIRATION, in ticks: what expires_at is made of
  RefreshLife,  \* JWT_REFRESH_EXPIRATION, in ticks
  ResetLife,    \* JWT_RESET_EXPIRES and the hour of reset_password_expire
  MaxClock,     \* bound: ticks
  Scenarios,    \* the sets of kinds of requests that are tried together
  None

Kinds == {"login", "google", "refresh", "logout", "revoke", "forgot", "reset",
          "updatePassword", "updateUser", "assignRoles", "register", "delete"}

Ids == {First} \union Calls

(* The documents of a user and of a session. *)
Fields == {"email", "password", "rest"}

User == [email : Emails, password : Ids, rest : Ids, token : {None} \union 0..MaxClock]

Session == [user : Ids, iat : 0..MaxClock, revoked : BOOLEAN]

ASSUME AccountsAssumption ==
  /\ First \notin Calls /\ None \notin Calls \union {First} \union Emails
  /\ Emails # {}
  /\ {AccessLife, RefreshLife, ResetLife} \subseteq Nat \ {0}
  /\ MaxClock \in Nat
  /\ \A k \in Scenarios : k \subseteq Kinds
  /\ None \notin User /\ None \notin Session /\ None \notin [Fields -> Ids \union Emails]

VARIABLES
  allowed,   \* the kinds of requests of this behaviour (never changes)
  clock,     \* the time
  users,     \* the users collection; the id of a user is who created it
  profiles,  \* the profiles, each with the id of its user
  sessions,  \* the sessions collection; a session has the id of its opener
  call,      \* where each request is, and what it has read
  last       \* history: the last value each field of a user was set to

vars == <<allowed, clock, users, profiles, sessions, call, last>>

------------------------------------------------------------------------------
(* What a document holds and what a request remembers.                     *)

Exists(u) == users[u] # None

Taken(e) == \E u \in Ids : Exists(u) /\ users[u].email = e

(* The unique index on email: may user u be written with address e? *)
IndexAllows(u, e) == \A v \in Ids \ {u} : Exists(v) => users[v].email # e

Idle == [kind |-> "none", at |-> "idle", user |-> None, token |-> None,
         doc |-> None, seen |-> {}, late |-> {}, crossed |-> FALSE]

May(c, kind) == kind \in allowed /\ call[c].at = "idle"

Is(c, kind, at) == call[c].kind = kind /\ call[c].at = at

(* A request that holds a whole document it is going to write back. *)
HoldsDocument(c, u) ==
  call[c].kind \in {"forgot", "reset"} /\ call[c].at = "write" /\ call[c].user = u

(* Request c comes to r; the change it commits to u crosses those that hold u. *)
Commit(c, u, r) ==
  call' = [d \in Calls |->
             IF d = c THEN r
             ELSE [call[d] EXCEPT !.crossed = @ \/ HoldsDocument(d, u)]]

Advance(c, r) == call' = [call EXCEPT ![c] = r]

Done(c) == [call[c] EXCEPT !.at = "done"]

------------------------------------------------------------------------------
(* Sessions and their tokens.                                              *)

(***************************************************************************)
(* The refresh token is signed over the user and the second it was signed  *)
(* in, nothing else: two logins of one second share it.                    *)
(***************************************************************************)
Token(s) == <<sessions[s].user, sessions[s].iat>>

(* The condition that finds a session: not revoked, expires_at ahead. *)
Live(s) ==
  /\ sessions[s] # None
  /\ ~sessions[s].revoked
  /\ sessions[s].iat + AccessLife > clock

(* JwtStrategy.validate: the session is live and its user is still there. *)
Authentic(s) == Live(s) /\ Exists(sessions[s].user)

SessionsOf(u) == {s \in Ids : sessions[s] # None /\ sessions[s].user = u}

(* The sessions written by a logout that has not committed. *)
Held == UNION {call[d].seen : d \in {e \in Calls : Is(e, "logout", "revoke")}}

Revoked(ss) ==
  [s \in Ids |-> IF s \in ss THEN [sessions[s] EXCEPT !.revoked = TRUE]
                 ELSE sessions[s]]

------------------------------------------------------------------------------
Init ==
  /\ allowed \in Scenarios
  /\ clock = 0
  /\ \E e \in Emails :
       users = [u \in Ids |->
                  IF u = First
                  THEN [email |-> e, password |-> First, rest |-> First, token |-> None]
                  ELSE None]
  /\ profiles = {First}
  /\ sessions = [s \in Ids |->
                   IF s = First THEN [user |-> First, iat |-> 0, revoked |-> FALSE]
                   ELSE None]
  /\ call = [c \in Calls |-> Idle]
  /\ last = [u \in Ids |-> IF u = First
                           THEN [f \in Fields |-> users[First][f]] ELSE None]

Tick ==
  /\ clock < MaxClock
  /\ clock' = clock + 1
  /\ UNCHANGED <<allowed, users, profiles, sessions, call, last>>

(***************************************************************************)
(* A database call of the request fails: its transaction is aborted, and   *)
(* the request ends with what it had committed before.                     *)
(***************************************************************************)
Fail(c) ==
  /\ call[c].at \notin {"idle", "done", "failed"}
  /\ Advance(c, [Idle EXCEPT !.at = "failed"])
  /\ UNCHANGED <<allowed, clock, users, profiles, sessions, last>>

------------------------------------------------------------------------------
(* Opening sessions.                                                       *)

(* validateUser: the user of this address, whose password was given. *)
Login(c) ==
  \E u \in Ids :
    /\ May(c, "login") /\ Exists(u)
    /\ Advance(c, [Idle EXCEPT !.kind = "login", !.at = "open", !.user = u])
    /\ UNCHANGED <<allowed, clock, users, profiles, sessions, last>>

(***************************************************************************)
(* findSocialUser: the user of the address, who logs in, or none, and      *)
(* createUser is called, whose own check and insertion come later.         *)
(***************************************************************************)
Google(c) ==
  \E e \in Emails :
    /\ May(c, "google")
    /\ \/ \E u \in Ids :
            /\ Exists(u) /\ users[u].email = e
            /\ Advance(c, [Idle EXCEPT !.kind = "google", !.at = "open", !.user = u])
       \/ /\ ~Taken(e)
          /\ Advance(c, [Idle EXCEPT !.kind = "google", !.at = "insert",
                                     !.doc = [email |-> e]])
    /\ UNCHANGED <<allowed, clock, users, profiles, sessions, last>>

(* validateRefreshToken: the token is in date and a live session holds it. *)
Refresh(c) ==
  \E s \in Ids :
    /\ May(c, "refresh") /\ Live(s) /\ sessions[s].iat + RefreshLife > clock
    /\ Advance(c, [Idle EXCEPT !.kind = "refresh", !.at = "load",
                               !.user = sessions[s].user, !.token = Token(s)])
    /\ UNCHANGED <<allowed, clock, users, profiles, sessions, last>>

(* Mutant of LoadUser: a user who is not found is handed on. *)
LoadNobody(c) ==
  /\ Is(c, "refresh", "load")
  /\ Advance(c, [call[c] EXCEPT !.at = "open"])
  /\ UNCHANGED <<allowed, clock, users, profiles, sessions, last>>

(* refreshToken: login(user.data) throws for a user who is not found. *)
LoadUser(c) ==
  /\ Is(c, "refresh", "load")
  /\ Advance(c, IF Exists(call[c].user) THEN [call[c] EXCEPT !.at = "open"]
                ELSE [Idle EXCEPT !.at = "failed"])
  /\ UNCHANGED <<allowed, clock, users, profiles, sessions, last>>

(***************************************************************************)
(* AuthService.login: signs both tokens and inserts the session.  The      *)
(* session whose token was presented stays as it is.                       *)
(***************************************************************************)
OpenSession(c) ==
  /\ call[c].at = "open"
  /\ sessions' = [sessions EXCEPT ![c] = [user |-> call[c].user, iat |-> clock,
                                          revoked |-> FALSE]]
  /\ Advance(c, Done(c))
  /\ UNCHANGED <<allowed, clock, users, profiles, last>>

------------------------------------------------------------------------------
(* Revoking them.                                                          *)

(* logout: the caller is authenticated. *)
Logout(c) ==
  \E s \in Ids :
    /\ May(c, "logout") /\ Authentic(s)
    /\ Advance(c, [Idle EXCEPT !.kind = "logout", !.at = "begin",
                               !.user = sessions[s].user])
    /\ UNCHANGED <<allowed, clock, users, profiles, sessions, last>>

(* revokeSessions: updateMany in a transaction of its own, on its snapshot. *)
WriteRevocations(c) ==
  /\ Is(c, "logout", "begin")
  /\ SessionsOf(call[c].user) \intersect Held = {}
  /\ Advance(c, [call[c] EXCEPT !.at = "revoke", !.seen = SessionsOf(call[c].user)])
  /\ UNCHANGED <<allowed, clock, users, profiles, sessions, last>>

(***************************************************************************)
(* History: what a revocation of ss cannot reach, the other sessions of u  *)
(* and the requests that have validated a token of u before it.            *)
(***************************************************************************)
OutOfReach(u, ss) ==
  (SessionsOf(u) \ ss)
    \union {d \in Calls : call[d].kind = "refresh" /\ call[d].user = u
                          /\ call[d].at \in {"load", "open"}}

(* Mutant of CommitRevocations: one of the caller's sessions is left out. *)
CommitAllButOne(c) ==
  /\ Is(c, "logout", "revoke")
  /\ \E s \in call[c].seen : sessions' = Revoked(call[c].seen \ {s})
  /\ Advance(c, [Done(c) EXCEPT !.late = OutOfReach(call[c].user, call[c].seen)])
  /\ UNCHANGED <<allowed, clock, users, profiles, last>>

CommitRevocations(c) ==
  /\ Is(c, "logout", "revoke")
  /\ sessions' = Revoked(call[c].seen)
  /\ Advance(c, [Done(c) EXCEPT !.late = OutOfReach(call[c].user, call[c].seen)])
  /\ UNCHANGED <<allowed, clock, users, profiles, last>>

(***************************************************************************)
(* revokeSession: one document, matched by its id and the caller's.  A     *)
(* session that a logout holds is a write conflict.                        *)
(***************************************************************************)
RevokeSession(c) ==
  \E s, t \in Ids :
    /\ May(c, "revoke") /\ Authentic(s)
    /\ t \in SessionsOf(sessions[s].user) \ Held
    /\ sessions' = Revoked({t})
    /\ Advance(c, [Idle EXCEPT !.kind = "revoke", !.at = "done", !.seen = {t},
                               !.late = OutOfReach(sessions[s].user, {t}),
                               !.user = sessions[s].user])
    /\ UNCHANGED <<allowed, clock, users, profiles, last>>

------------------------------------------------------------------------------
(* Changing a user.                                                        *)

Read(u) == [f \in Fields |-> users[u][f]]

(* generateResetToken: reads the user of the address and signs a token. *)
ForgotPassword(c) ==
  \E u \in Ids :
    /\ May(c, "forgot") /\ Exists(u)
    /\ Advance(c, [Idle EXCEPT !.kind = "forgot", !.at = "write", !.user = u,
                               !.token = clock, !.doc = Read(u)])
    /\ UNCHANGED <<allowed, clock, users, profiles, sessions, last>>

(* and writes the document back, as it was read, with the token in it. *)
WriteForgot(c) ==
  LET u == call[c].user
      doc == call[c].doc
  IN  /\ Is(c, "forgot", "write")
      /\ Exists(u) /\ IndexAllows(u, doc.email)
      /\ users' = [users EXCEPT ![u] =
                     [email |-> doc.email, password |-> doc.password,
                      rest |-> doc.rest, token |-> call[c].token]]
      /\ Commit(c, u, Done(c))
      /\ UNCHANGED <<allowed, clock, profiles, sessions, last>>

(* resetPassword: the token is in date and is the one the user holds. *)
ResetPassword(c) ==
  \E u \in Ids :
    /\ May(c, "reset") /\ Exists(u)
    /\ users[u].token # None /\ users[u].token + ResetLife > clock
    /\ Advance(c, [Idle EXCEPT !.kind = "reset", !.at = "write", !.user = u,
                               !.doc = Read(u)])
    /\ UNCHANGED <<allowed, clock, users, profiles, sessions, last>>

(***************************************************************************)
(* and the document is written back with the new password.  The token's    *)
(* fields are set to undefined, which the driver leaves out of $set, so    *)
(* that the stored token is neither cleared nor replaced.                  *)
(***************************************************************************)
WriteReset(c) ==
  LET u == call[c].user
      doc == call[c].doc
  IN  /\ Is(c, "reset", "write")
      /\ Exists(u) /\ IndexAllows(u, doc.email)
      /\ users' = [users EXCEPT ![u] =
                     [email |-> doc.email, password |-> c, rest |-> doc.rest,
                      token |-> @.token]]
      /\ last' = [last EXCEPT ![u].password = c]
      /\ Commit(c, u, Done(c))
      /\ UNCHANGED <<allowed, clock, profiles, sessions>>

(* updatePassword: the caller's document is read, the old password compared. *)
UpdatePassword(c) ==
  \E s \in Ids :
    /\ May(c, "updatePassword") /\ Authentic(s)
    /\ Advance(c, [Idle EXCEPT !.kind = "updatePassword", !.at = "write",
                               !.user = sessions[s].user, !.doc = Read(sessions[s].user)])
    /\ UNCHANGED <<allowed, clock, users, profiles, sessions, last>>

(* Mutant of WritePassword: the document that was read is written back. *)
WriteWholeUser(c) ==
  LET u == call[c].user
  IN  /\ Is(c, "updatePassword", "write") /\ Exists(u)
      /\ users' = [users EXCEPT ![u] =
                     [email |-> @.email, password |-> c, rest |-> call[c].doc.rest,
                      token |-> @.token]]
      /\ last' = [last EXCEPT ![u].password = c]
      /\ Commit(c, u, Done(c))
      /\ UNCHANGED <<allowed, clock, profiles, sessions>>

(* and the password, nothing else, is written. *)
WritePassword(c) ==
  LET u == call[c].user
  IN  /\ Is(c, "updatePassword", "write") /\ Exists(u)
      /\ users' = [users EXCEPT ![u].password = c]
      /\ last' = [last EXCEPT ![u].password = c]
      /\ Commit(c, u, Done(c))
      /\ UNCHANGED <<allowed, clock, profiles, sessions>>

(***************************************************************************)
(* updateUser: the fields given, in one transaction with the profile's.    *)
(* The caller may change itself or, with update_user, anyone.              *)
(***************************************************************************)
UpdateUser(c) ==
  \E s, u \in Ids, e \in Emails, changed \in SUBSET {"email", "password"} :
    /\ May(c, "updateUser") /\ Authentic(s) /\ Exists(u)
    /\ "email" \in changed => IndexAllows(u, e)
    /\ LET new(f) == CASE f = "rest" -> c
                       [] f = "email" /\ "email" \in changed -> e
                       [] f = "password" /\ "password" \in changed -> c
       IN  /\ users' = [users EXCEPT ![u] =
                          [f \in DOMAIN @ |-> IF f \in changed \union {"rest"}
                                              THEN new(f) ELSE @[f]]]
           /\ last' = [last EXCEPT ![u] =
                         [f \in Fields |-> IF f \in changed \union {"rest"}
                                           THEN new(f) ELSE @[f]]]
    /\ Commit(c, u, [Idle EXCEPT !.kind = "updateUser", !.at = "done", !.user = u])
    /\ UNCHANGED <<allowed, clock, profiles, sessions>>

(* assignRoles: the roles, found one by one, are written. *)
AssignRoles(c) ==
  \E s, u \in Ids :
    /\ May(c, "assignRoles") /\ Authentic(s) /\ Exists(u)
    /\ users' = [users EXCEPT ![u].rest = c]
    /\ last' = [last EXCEPT ![u].rest = c]
    /\ Commit(c, u, [Idle EXCEPT !.kind = "assignRoles", !.at = "done", !.user = u])
    /\ UNCHANGED <<allowed, clock, profiles, sessions>>

------------------------------------------------------------------------------
(* Creating and deleting users.                                            *)

(* createUser: no user has the address; a free user name is drawn. *)
Register(c) ==
  \E e \in Emails :
    /\ May(c, "register") /\ ~Taken(e)
    /\ Advance(c, [Idle EXCEPT !.kind = "register", !.at = "insert",
                               !.doc = [email |-> e]])
    /\ UNCHANGED <<allowed, clock, users, profiles, sessions, last>>

(* Mutant of Created: the password is left out, and nothing requires it. *)
CreatedBare(c) == [email |-> call[c].doc.email, password |-> None, rest |-> c, token |-> None]

(* The user as createUser writes it, and where the request goes from there. *)
Created(c) == [email |-> call[c].doc.email, password |-> c, rest |-> c, token |-> None]

AfterCreation(c) ==
  IF call[c].kind = "google" THEN [call[c] EXCEPT !.at = "open", !.user = c, !.doc = None]
  ELSE [Done(c) EXCEPT !.user = c, !.doc = None]

(* Mutant of InsertUser: the insertion trusts the check made before it. *)
InsertUnindexed(c) ==
  /\ call[c].at = "insert"
  /\ users' = [users EXCEPT ![c] = Created(c)]
  /\ profiles' = profiles \union {c}
  /\ last' = [last EXCEPT ![c] = [f \in Fields |-> Created(c)[f]]]
  /\ Advance(c, AfterCreation(c))
  /\ UNCHANGED <<allowed, clock, sessions>>

(***************************************************************************)
(* The transaction: user, profile, the link between them and the role, all *)
(* or nothing.  The unique index has the last word on the address.         *)
(***************************************************************************)
InsertUser(c) ==
  /\ call[c].at = "insert" /\ ~Taken(call[c].doc.email)
  /\ users' = [users EXCEPT ![c] = Created(c)]
  /\ profiles' = profiles \union {c}
  /\ last' = [last EXCEPT ![c] = [f \in Fields |-> Created(c)[f]]]
  /\ Advance(c, AfterCreation(c))
  /\ UNCHANGED <<allowed, clock, sessions>>

(* permanentlyDelete: the user is found first. *)
DeleteUser(c) ==
  \E s, u \in Ids :
    /\ May(c, "delete") /\ Authentic(s) /\ Exists(u)
    /\ Advance(c, [Idle EXCEPT !.kind = "delete", !.at = "remove", !.user = u])
    /\ UNCHANGED <<allowed, clock, users, profiles, sessions, last>>

(***************************************************************************)
(* The transaction, with the hook that removes the profile.  The user's    *)
(* sessions stay; so do the requests that have already read the user.      *)
(***************************************************************************)
RemoveUser(c) ==
  LET u == call[c].user
  IN  /\ Is(c, "delete", "remove")
      /\ users' = [users EXCEPT ![u] = None]
      /\ profiles' = profiles \ {u}
      /\ last' = [last EXCEPT ![u] = None]
      /\ Commit(c, u, [Done(c) EXCEPT
                         !.seen = SessionsOf(u),
                         !.late = {d \in Calls : call[d].at = "open" /\ call[d].user = u}])
      /\ UNCHANGED <<allowed, clock, sessions>>

------------------------------------------------------------------------------
Request(c) ==
  \/ Login(c) \/ Google(c) \/ Refresh(c) \/ LoadUser(c) \/ OpenSession(c)
  \/ Logout(c) \/ WriteRevocations(c) \/ CommitRevocations(c) \/ RevokeSession(c)
  \/ ForgotPassword(c) \/ WriteForgot(c) \/ ResetPassword(c) \/ WriteReset(c)
  \/ UpdatePassword(c) \/ WritePassword(c) \/ UpdateUser(c) \/ AssignRoles(c)
  \/ Register(c) \/ InsertUser(c) \/ DeleteUser(c) \/ RemoveUser(c)

Next == Tick \/ \E c \in Calls : Request(c) \/ Fail(c)

Spec == Init /\ [][Next]_vars

------------------------------------------------------------------------------
(* Every variable has the shape its comment says. *)
TypeOK ==
  /\ allowed \in Scenarios
  /\ clock \in 0..MaxClock
  /\ \A u \in Ids : users[u] \in {None} \union User
  /\ profiles \subseteq Ids
  /\ \A s \in Ids : sessions[s] \in {None} \union Session
  /\ \A c \in Calls :
       /\ DOMAIN call[c] = DOMAIN Idle
       /\ call[c].kind \in {"none"} \union allowed
       /\ call[c].at \in {"idle", "load", "open", "begin", "revoke", "write", "insert",
                          "remove", "done", "failed"}
       /\ call[c].user \in {None} \union Ids
       /\ call[c].seen \union call[c].late \subseteq Ids
       /\ call[c].crossed \in BOOLEAN
  /\ \A u \in Ids : Exists(u) <=> last[u] # None

(***************************************************************************)
(* A change that was confirmed stays until another request changes the     *)
(* field, unless a request that had read the whole document before it      *)
(* wrote it back after it: forgotPassword, for any field, or resetPassword *)
(* for any but the password.  What the field holds then is what that       *)
(* request had read.                                                       *)
(***************************************************************************)
LostUpdateNeedsOverlap ==
  \A u \in Ids, f \in Fields :
    Exists(u) /\ users[u][f] # last[u][f] =>
      \E c \in Calls :
        /\ call[c].user = u /\ call[c].crossed /\ call[c].at = "done"
        /\ call[c].kind \in (IF f = "password" THEN {"forgot"} ELSE {"forgot", "reset"})
        /\ call[c].doc[f] = users[u][f]

(***************************************************************************)
(* What a confirmed revocation (logout of every session, DELETE            *)
(* /sessions/:id of one) reaches: its sessions stay revoked, and a session *)
(* is only opened from a token of theirs by a request that had validated   *)
(* it before, or because another session signed in the same second holds   *)
(* the same token.                                                         *)
(***************************************************************************)
RevocationReaches ==
  \A r \in Calls, s \in Ids :
    /\ call[r].kind \in {"logout", "revoke"} /\ call[r].at = "done"
    /\ s \in SessionsOf(call[r].user) /\ ~sessions[s].revoked
    =>
    /\ s \notin call[r].seen
    /\ s \in Calls \ call[r].late /\ call[s].kind = "refresh" =>
         \E t \in SessionsOf(call[r].user) \ ({s} \union call[r].seen) :
           Token(t) = call[s].token

(***************************************************************************)
(* However registrations, Google logins, changes of address and deletions  *)
(* interleave, two users never share an address, and every user has its    *)
(* profile and every profile its user.                                     *)
(***************************************************************************)
AccountsAreWhole ==
  /\ profiles = {u \in Ids : Exists(u)}
  /\ \A u, v \in Ids : Exists(u) /\ Exists(v) /\ users[u].email = users[v].email => u = v

(***************************************************************************)
(* Nothing removes the sessions of a deleted user, and none is added but   *)
(* by a request that had read the user before.                             *)
(***************************************************************************)
NoSessionForTheGone ==
  \A s \in Ids :
    sessions[s] # None /\ ~Exists(sessions[s].user) =>
      \E d \in Calls : Is(d, "delete", "done") /\ call[d].user = sessions[s].user
                       /\ s \in call[d].seen \union call[d].late
==============================================================================
