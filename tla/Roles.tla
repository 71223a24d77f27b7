------------------------------- MODULE Roles -------------------------------
(***************************************************************************)
(* Permissions, roles and who may do what: the seeders that run when an    *)
(* instance of the gateway starts (PermissionSeedService, RoleSeedService, *)
(* UserSeedService), the operations of RoleService, and PermissionsGuard,  *)
(* which reads a user's roles and then what they permit.                   *)
(*                                                                         *)
(* Roles are known by their names, which the operations modelled here do   *)
(* not change.  A permission is its place in the list of the seeder.       *)
(***************************************************************************)
EXTENDS Listing

CONSTANTS
  Instances,     \* the gateway processes started on one database
  Super, Guest,  \* ROLE_CONSTANTS
  Custom,        \* the names of the roles that users create
  Listed,        \* how many permissions the seeder lists
  Getters,       \* those whose method is GET
  Activities,    \* the sets of activities that are tried together
  MaxChanges,    \* bound: operations on roles and their assignment
  MaxCrashes,    \* bound: crashes of an instance
  None

Permissions == 1..Listed

Names == {Super, Guest} \union Custom

ASSUME RolesAssumption ==
  /\ Listed \in Nat \ {0} /\ Getters \subseteq Permissions
  /\ Super # Guest /\ {Super, Guest} \intersect Custom = {}
  /\ Documents = Names
  /\ \A S \in (SUBSET Permissions) \union (SUBSET Names) : S # None
  /\ MaxChanges \in Nat /\ MaxCrashes \in Nat

VARIABLES
  allowed,      \* the activities of this behaviour (never changes)
  permissions,  \* the permissions collection
  roles,        \* the permissions of each role, None where there is no role
  order,        \* the roles collection, in its natural order
  admin,        \* the roles of the user of SUPER_ADMIN_EMAIL, or None
  inst,         \* where each instance is in its start
  assigned,     \* the roles of a user whose requests are checked
  check,        \* such a request in the guard, and what it has read
  changed,      \* history: the roles that users have changed or deleted
  changes,      \* operations so far
  crashes       \* crashes so far

data == <<permissions, roles, order, admin, assigned>>
vars == <<allowed, permissions, roles, order, admin, inst, assigned, check, walk,
          changed, changes, crashes>>

Exists(n) == roles[n] # None

Up == \E i \in Instances : inst[i].at = "up"

------------------------------------------------------------------------------
(* The guard's question.                                                   *)

(* What a user with roles `of` whose request requires p would be told if *)
(* the roles were as `all`.                                              *)
Granted(all, of, p) ==
  \/ Super \in of /\ all[Super] # None
  \/ \E n \in of : all[n] # None /\ p \in all[n]

Checking == check.at \in {"roles", "permissions"}

(***************************************************************************)
(* History: a change of the roles while a request is being checked adds    *)
(* what the guard's question would be answered after it.                   *)
(***************************************************************************)
Watch ==
  check' = IF ~Checking THEN check
           ELSE [check EXCEPT !.moments = @ \union {Granted(roles', assigned', check.needs)},
                              !.changes = @ + 1]

NoCheck == [at |-> "idle", needs |-> 1, seen |-> {}, allowed |-> FALSE,
            moments |-> {}, changes |-> 0]

------------------------------------------------------------------------------
(* What the seeder writes.                                                 *)

Seeds == <<Super, Guest>>

SeedOf(n, read) == IF n = Super THEN read ELSE read \intersect Getters

Down == [at |-> "down", next |-> 1, read |-> {}, role |-> FALSE]

(* A database that is empty, or that an earlier version with a shorter list left. *)
Init ==
  /\ allowed \in Activities
  /\ \E before \in 0..Listed :
       /\ "start" \notin allowed => before = Listed
       /\ permissions = 1..before
       /\ roles = [n \in Names |->
                     IF before > 0 /\ n \in {Super, Guest} THEN SeedOf(n, 1..before) ELSE None]
       /\ order = IF before > 0 THEN Seeds ELSE <<>>
       /\ admin = IF before > 0 THEN {Super} ELSE None
  /\ inst = [i \in Instances |->
               IF "start" \in allowed THEN Down ELSE [Down EXCEPT !.at = "up"]]
  /\ assigned \in IF "guard" \in allowed THEN {{Super}, {Guest}} ELSE {{}}
  /\ check = NoCheck
  /\ walk = NoWalk
  /\ changed = {}
  /\ changes = 0
  /\ crashes = 0

------------------------------------------------------------------------------
(* An instance starts.                                                     *)

At(i, where) == inst[i].at = where

Go(i, r) == inst' = [inst EXCEPT ![i] = r]

NotSeeding == UNCHANGED <<allowed, assigned, changed, changes, crashes>>

(* seedPermissions looks for the next permission of its list. *)
FindPermission(i) ==
  /\ At(i, "seeding") /\ inst[i].next <= Listed
  /\ Go(i, IF inst[i].next \in permissions THEN [inst[i] EXCEPT !.next = @ + 1]
           ELSE [inst[i] EXCEPT !.at = "create"])
  /\ NotSeeding /\ UNCHANGED <<permissions, roles, order, admin, check, walk>>

(***************************************************************************)
(* and creates it if it was not found.  Its name is unique: when another   *)
(* instance was faster the insertion throws, and the process ends.         *)
(***************************************************************************)
CreatePermission(i) ==
  /\ At(i, "create")
  /\ IF inst[i].next \in permissions
     THEN Go(i, Down) /\ UNCHANGED permissions
     ELSE /\ Go(i, [inst[i] EXCEPT !.at = "seeding", !.next = @ + 1])
          /\ permissions' = permissions \union {inst[i].next}
  /\ NotSeeding /\ UNCHANGED <<roles, order, admin, check, walk>>

(* Mutant of ReadPermissions: the query goes through findAll, which pages. *)
ReadFirstPermissions(i) ==
  /\ At(i, "seeding") /\ inst[i].next > Listed
  /\ \E page \in FirstPages(permissions) :
       Go(i, [inst[i] EXCEPT !.at = "role", !.next = 1, !.read = page])
  /\ NotSeeding /\ UNCHANGED <<permissions, roles, order, admin, check, walk>>

(* seedRoles reads all permissions. *)
ReadPermissions(i) ==
  /\ At(i, "seeding") /\ inst[i].next > Listed
  /\ Go(i, [inst[i] EXCEPT !.at = "role", !.next = 1, !.read = permissions])
  /\ NotSeeding /\ UNCHANGED <<permissions, roles, order, admin, check, walk>>

(* Mutant of FindRole: the roles are created without looking for them. *)
FindNoRole(i) ==
  /\ At(i, "role") /\ inst[i].next <= Len(Seeds)
  /\ Go(i, [inst[i] EXCEPT !.at = "createRole"])
  /\ NotSeeding /\ UNCHANGED <<permissions, roles, order, admin, check, walk>>

(* For super_admin and guest in turn: is there such a role? *)
FindRole(i) ==
  /\ At(i, "role") /\ inst[i].next <= Len(Seeds)
  /\ Go(i, [inst[i] EXCEPT
              !.at = IF Exists(Seeds[inst[i].next]) THEN "updateRole" ELSE "createRole"])
  /\ NotSeeding /\ UNCHANGED <<permissions, roles, order, admin, check, walk>>

(* It is created; its name is unique; *)
CreateSeedRole(i) ==
  LET n == Seeds[inst[i].next]
  IN  /\ At(i, "createRole")
      /\ NotSeeding /\ UNCHANGED <<permissions, admin>>
      /\ IF Exists(n)
         THEN Go(i, Down) /\ UNCHANGED <<roles, order, check, walk>>
         ELSE /\ Go(i, [inst[i] EXCEPT !.at = "role", !.next = @ + 1])
              /\ roles' = [roles EXCEPT ![n] = SeedOf(n, inst[i].read)]
              /\ order' = Append(order, n)
              /\ walk' = Inserting(walk, n)
              /\ Watch

(* or brought up to date, if it is still there. *)
UpdateSeedRole(i) ==
  LET n == Seeds[inst[i].next]
  IN  /\ At(i, "updateRole")
      /\ Go(i, [inst[i] EXCEPT !.at = "role", !.next = @ + 1])
      /\ roles' = [roles EXCEPT ![n] = IF Exists(n) THEN SeedOf(n, inst[i].read) ELSE @]
      /\ NotSeeding /\ UNCHANGED <<permissions, order, admin, walk>>
      /\ Watch

(* seedSuperAdmin: is there a user with the address?  If not, is there the *)
(* role?                                                                   *)
FindAdmin(i) ==
  /\ At(i, "role") /\ inst[i].next > Len(Seeds)
  /\ Go(i, IF admin # None THEN [Down EXCEPT !.at = "up"]
           ELSE [Down EXCEPT !.at = "createAdmin", !.role = Exists(Super)])
  /\ NotSeeding /\ UNCHANGED <<permissions, roles, order, admin, check, walk>>

(* createUser, which gives the super_admin role to every user it creates, *)
CreateAdmin(i) ==
  /\ At(i, "createAdmin")
  /\ IF admin # None
     THEN Go(i, Down) /\ UNCHANGED admin
     ELSE /\ Go(i, [Down EXCEPT !.at = IF inst[i].role THEN "assignAdmin" ELSE "up"])
          /\ admin' = IF Exists(Super) THEN {Super} ELSE {}
  /\ NotSeeding /\ UNCHANGED <<permissions, roles, order, check, walk>>

(* and assignRoles, with the role that was found; it throws if that is gone. *)
AssignAdmin(i) ==
  /\ At(i, "assignAdmin")
  /\ IF Exists(Super)
     THEN admin' = {Super} /\ Go(i, [Down EXCEPT !.at = "up"])
     ELSE Go(i, Down) /\ UNCHANGED admin
  /\ NotSeeding /\ UNCHANGED <<permissions, roles, order, check, walk>>

(* Docker starts a process that ended again. *)
Start(i) ==
  /\ At(i, "down") /\ Go(i, [Down EXCEPT !.at = "seeding"])
  /\ NotSeeding /\ UNCHANGED <<permissions, roles, order, admin, check, walk>>

Crash(i) ==
  /\ "start" \in allowed /\ crashes < MaxCrashes /\ ~At(i, "down")
  /\ Go(i, Down)
  /\ crashes' = crashes + 1
  /\ UNCHANGED <<allowed, permissions, roles, order, admin, assigned, check, walk,
                 changed, changes>>

Starting(i) ==
  \/ Start(i) \/ FindPermission(i) \/ CreatePermission(i) \/ ReadPermissions(i)
  \/ FindRole(i) \/ CreateSeedRole(i) \/ UpdateSeedRole(i)
  \/ FindAdmin(i) \/ CreateAdmin(i) \/ AssignAdmin(i)

------------------------------------------------------------------------------
(* The operations of an instance that is up.                               *)

Operation ==
  /\ Up /\ changes < MaxChanges
  /\ changes' = changes + 1
  /\ UNCHANGED <<allowed, permissions, admin, inst, crashes>>

(***************************************************************************)
(* createRole counts the permissions it finds among those asked for on the *)
(* first page: a list longer than a page is refused, whatever is on it.    *)
(***************************************************************************)
CreateRole(n, asked) ==
  /\ Operation
  /\ ~Exists(n)
  /\ \E page \in FirstPages(asked \intersect permissions) :
       Cardinality(page) = Cardinality(asked)
  /\ roles' = [roles EXCEPT ![n] = asked]
  /\ order' = Append(order, n)
  /\ changed' = changed \union {n}
  /\ walk' = Inserting(walk, n)
  /\ UNCHANGED assigned
  /\ Watch

(***************************************************************************)
(* updateRole writes the permissions it finds, the first page of them, for *)
(* those asked for; an empty list is written as it is.                     *)
(***************************************************************************)
UpdateRole(n, asked) ==
  /\ Operation
  /\ Exists(n)
  /\ \E page \in FirstPages(asked \intersect permissions) :
       /\ asked # {} => page # {}
       /\ roles' = [roles EXCEPT ![n] = page]
  /\ changed' = changed \union {n}
  /\ UNCHANGED <<order, assigned, walk>>
  /\ Watch

(* delete: the role, and nothing that refers to it. *)
DeleteRole(n) ==
  /\ Operation
  /\ Exists(n)
  /\ roles' = [roles EXCEPT ![n] = None]
  /\ order' = RemoveAt(order, CHOOSE i \in DOMAIN order : order[i] = n)
  /\ changed' = changed \union {n}
  /\ walk' = Removing(walk, n)
  /\ UNCHANGED assigned
  /\ Watch

(* assignRoles of the user whose requests are checked: roles that exist. *)
Assign(ns) ==
  /\ Operation
  /\ "guard" \in allowed
  /\ \A n \in ns : Exists(n)
  /\ assigned' = ns
  /\ UNCHANGED <<roles, order, changed, walk>>
  /\ Watch

(* The operations that the activity under way is sensitive to. *)
RoleOperation ==
  \/ \E n \in Custom : CreateRole(n, {})
  \/ /\ allowed # {"list"}
     /\ \E n \in Custom, p \in Permissions : CreateRole(n, {p})
  \/ /\ allowed # {"list"}
     /\ \E n \in Names, asked \in SUBSET Permissions : UpdateRole(n, asked)
  \/ \E n \in Names : DeleteRole(n)
  \/ \E ns \in SUBSET Names : Assign(ns)

------------------------------------------------------------------------------
(* The guard.                                                              *)

NotChecking ==
  UNCHANGED <<allowed, permissions, roles, order, admin, inst, assigned, walk, changed,
              changes, crashes>>

(* JwtStrategy.validate loads the roles; super_admin may do anything. *)
Arrive(p) ==
  /\ "guard" \in allowed /\ Up /\ check.at = "idle"
  /\ check' = IF Super \in assigned /\ Exists(Super)
              THEN [NoCheck EXCEPT !.at = "decided", !.needs = p, !.allowed = TRUE,
                                   !.moments = {TRUE}]
              ELSE [NoCheck EXCEPT !.at = "roles", !.needs = p,
                                   !.moments = {Granted(roles, assigned, p)}]
  /\ NotChecking

(* Mutant of ReadRoles: the roles loaded earlier, from a cache, are used. *)
ReadAnyRoles ==
  /\ check.at = "roles"
  /\ \E n \in Names : check' = [check EXCEPT !.at = "permissions", !.seen = {n}]
  /\ NotChecking

(* getUserPermissions reads the user once more, *)
ReadRoles ==
  /\ check.at = "roles"
  /\ check' = [check EXCEPT !.at = "permissions", !.seen = assigned]
  /\ NotChecking

(* and, populating, the roles it has, with what they permit. *)
ReadPermitted ==
  /\ check.at = "permissions"
  /\ check' = [check EXCEPT !.at = "decided", !.seen = {},
                            !.allowed = \E n \in check.seen :
                                          Exists(n) /\ check.needs \in roles[n]]
  /\ NotChecking

(* A query fails: the request ends with an error. *)
CheckFails ==
  /\ Checking
  /\ check' = [check EXCEPT !.at = "failed", !.seen = {}]
  /\ NotChecking

Guard == (\E p \in Permissions : Arrive(p)) \/ ReadRoles \/ ReadPermitted \/ CheckFails

(* getAllRoles. *)
List ==
  /\ "list" \in allowed /\ Up
  /\ UNCHANGED <<allowed, permissions, roles, order, admin, inst, assigned, check,
                 changed, changes, crashes>>
  /\ Walk(order)

Next ==
  \/ \E i \in Instances : Starting(i) \/ Crash(i)
  \/ RoleOperation \/ Guard \/ List

Spec == Init /\ [][Next]_vars

(* A process that runs goes on; a client follows the link it was given. *)
Fairness ==
  /\ \A i \in Instances : WF_vars(Starting(i))
  /\ WF_vars(List)

FairSpec == Spec /\ Fairness

------------------------------------------------------------------------------
(* Every variable has the shape its comment says. *)
TypeOK ==
  /\ permissions \subseteq Permissions
  /\ \A n \in Names : roles[n] \in {None} \union SUBSET Permissions
  /\ IsInjective(order) /\ Range(order) = {n \in Names : Exists(n)}
  /\ admin \in {None, {}, {Super}}
  /\ \A i \in Instances :
       /\ inst[i].at \in {"down", "seeding", "create", "role", "createRole", "updateRole",
                         "createAdmin", "assignAdmin", "up"}
       /\ inst[i].next \in 1..(Listed + 1) \union 1..(Len(Seeds) + 1)
       /\ inst[i].read \subseteq Permissions /\ inst[i].role \in BOOLEAN
  /\ assigned \subseteq Names /\ changed \subseteq Names
  /\ check.seen \subseteq Names /\ check.moments \subseteq BOOLEAN

(***************************************************************************)
(* As soon as one instance is up, and however the starts, crashes and      *)
(* starts again of the others interleave with it, every permission of the  *)
(* list is there, and so are the seeded roles with all they should permit  *)
(* and the administrator with its role, except for what users changed.     *)
(***************************************************************************)
SeededWhole ==
  Up =>
    /\ permissions = Permissions
    /\ \A n \in {Super, Guest} \ changed : roles[n] = SeedOf(n, Permissions)
    /\ Super \notin changed => admin = {Super}

(***************************************************************************)
(* The guard reads roles and permissions at different moments.  With at    *)
(* most one change in between it never lets in a request that it would     *)
(* have refused at every moment of the check; with two it may.             *)
(***************************************************************************)
AllowedWasGranted ==
  check.at = "decided" /\ check.allowed /\ check.changes <= 1 => TRUE \in check.moments

(***************************************************************************)
(* Instances that start together trip over each other's insertions and     *)
(* end, but once crashes are over and the roles are left alone every one   *)
(* of them comes up.                                                       *)
(***************************************************************************)
EveryoneStarts == \A i \in Instances : <>[]At(i, "up")
==============================================================================
