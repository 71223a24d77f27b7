----------------------------- MODULE RolesProofs -----------------------------
(***************************************************************************)
(* Theorems about Roles, for every list of permissions, every number of    *)
(* instances and of crashes, and every choice of activities; and about     *)
(* Listing, whose collection the roles are, for every list of queries and  *)
(* every limit.                                                            *)
(***************************************************************************)
EXTENDS Roles, FiniteSetTheorems, SequenceTheorems, TLAPS

------------------------------------------------------------------------------
(* The inductive invariant. *)

Places == {"down", "seeding", "create", "role", "createRole", "updateRole", "createAdmin",
           "assignAdmin", "up"}

Starts == [at : Places, next : Nat, read : SUBSET Permissions, role : BOOLEAN]

Checks == [at : {"idle", "roles", "permissions", "decided", "failed"}, needs : Permissions,
           seen : SUBSET Names, allowed : BOOLEAN, moments : SUBSET BOOLEAN, changes : Nat]

Shape ==
  /\ permissions \subseteq Permissions
  /\ roles \in [Names -> {None} \union SUBSET Permissions]
  /\ admin \in {None, {}, {Super}}
  /\ inst \in [Instances -> Starts]

(* A seeded role is what it should be, or is not there to be created. *)
Seeded(n) == n \in changed \/ roles[n] = SeedOf(n, Permissions)

Kept(n) == n \in changed \/ Exists(n)

(***************************************************************************)
(* What an instance has seen at each step of its start, and what therefore *)
(* holds from then on, whatever the others do.                             *)
(***************************************************************************)
StartTells(i) ==
  /\ inst[i].at \in {"seeding", "create"} =>
       /\ inst[i].next \in 1..(Listed + 1)
       /\ \A p \in Permissions : p < inst[i].next => p \in permissions
  /\ inst[i].at = "create" => inst[i].next <= Listed
  /\ inst[i].at \in {"role", "createRole", "updateRole"} =>
       /\ permissions = Permissions /\ inst[i].read = Permissions
       /\ inst[i].next \in {1, 2, 3}
       /\ inst[i].next > 1 => Seeded(Super)
       /\ inst[i].next > 2 => Seeded(Guest)
  /\ inst[i].at \in {"createRole", "updateRole"} => inst[i].next \in {1, 2}
  /\ inst[i].at = "updateRole" => Kept(Seeds[inst[i].next])
  /\ inst[i].at \in {"createAdmin", "assignAdmin", "up"} =>
       permissions = Permissions /\ Seeded(Super) /\ Seeded(Guest)
  /\ inst[i].at = "createAdmin" => inst[i].role \/ Super \in changed
  /\ inst[i].at \in {"assignAdmin", "up"} => admin # None

AdminTells == admin = None \/ admin = {Super} \/ Super \in changed

SeedInv == Shape /\ AdminTells /\ \A i \in Instances : StartTells(i)

------------------------------------------------------------------------------
(* What no step of any instance, user or crash takes back. *)

Onward ==
  /\ permissions \subseteq permissions' /\ changed \subseteq changed'
  /\ Seeded(Super) => Seeded(Super)'
  /\ Seeded(Guest) => Seeded(Guest)'
  /\ Kept(Super) => Kept(Super)'
  /\ Kept(Guest) => Kept(Guest)'
  /\ admin # None => admin' # None

LEMMA SeedNames ==
  /\ Super \in Names /\ Guest \in Names /\ Super # Guest
  /\ Super \notin Custom /\ Guest \notin Custom
  /\ Seeds[1] = Super /\ Seeds[2] = Guest /\ Len(Seeds) = 2
  /\ None \notin SUBSET Permissions /\ None # {} /\ None # {Super}
  /\ Listed \in Nat \ {0}
  /\ \A n, read : read \subseteq Permissions => SeedOf(n, read) \subseteq Permissions
<1>1. Super \in Names /\ Guest \in Names /\ {Super} \in SUBSET Names
  BY DEF Names
<1>2. Super # Guest /\ Super \notin Custom /\ Guest \notin Custom
  BY RolesAssumption
<1>3. None \notin SUBSET Permissions /\ None \notin SUBSET Names /\ Listed \in Nat \ {0}
  BY RolesAssumption
<1>4. None # {} /\ None # {Super}
  BY <1>1, <1>3
<1>5. \A n, read : read \subseteq Permissions => SeedOf(n, read) \subseteq Permissions
  BY DEF SeedOf
<1>6. Seeds[1] = Super /\ Seeds[2] = Guest /\ Len(Seeds) = 2
  BY DEF Seeds
<1> QED
  BY <1>1, <1>2, <1>3, <1>4, <1>5, <1>6

LEMMA OthersKeep ==
  ASSUME Onward, Shape', NEW i \in Instances, StartTells(i), inst'[i] = inst[i]
  PROVE  StartTells(i)'
<1>1. permissions = Permissions => permissions' = Permissions
  BY DEF Onward, Shape
<1>2. \A p \in Permissions : p \in permissions => p \in permissions'
  BY DEF Onward
<1>3. inst[i].next \in {1, 2} /\ Kept(Seeds[inst[i].next]) => Kept(Seeds[inst[i].next])'
  BY SeedNames DEF Onward, Kept, Exists
<1> QED
  BY <1>1, <1>2, <1>3, SeedNames DEF StartTells, Onward, Seeded, Kept, Exists

------------------------------------------------------------------------------
(* The steps of a start. *)

State(a, k, read, role) == [at |-> a, next |-> k, read |-> read, role |-> role]

LEMMA PlacesAre ==
  /\ "down" \in Places /\ "seeding" \in Places /\ "create" \in Places /\ "role" \in Places
  /\ "createRole" \in Places /\ "updateRole" \in Places /\ "createAdmin" \in Places
  /\ "assignAdmin" \in Places /\ "up" \in Places
BY DEF Places

LEMMA StateTypes ==
  ASSUME NEW a \in Places, NEW k \in Nat, NEW read \in SUBSET Permissions, NEW role \in BOOLEAN
  PROVE  State(a, k, read, role) \in Starts
BY DEF Starts, State

LEMMA Parts ==
  ASSUME NEW s \in Starts
  PROVE  /\ s.at \in Places /\ s.next \in Nat /\ s.read \in SUBSET Permissions
         /\ s.role \in BOOLEAN /\ DOMAIN s = {"at", "next", "read", "role"}
         /\ s = State(s.at, s.next, s.read, s.role)
BY DEF Starts, State

LEMMA States ==
  ASSUME NEW s \in Starts, NEW a, NEW k, NEW read
  PROVE  /\ [s EXCEPT !.at = a] = State(a, s.next, s.read, s.role)
         /\ [s EXCEPT !.next = k] = State(s.at, k, s.read, s.role)
         /\ [s EXCEPT !.at = a, !.next = k] = State(a, k, s.read, s.role)
<1>1. [s EXCEPT !.at = a] = State(a, s.next, s.read, s.role)
  BY DEF Starts, State
<1>2. [s EXCEPT !.next = k] = State(s.at, k, s.read, s.role)
  BY DEF Starts, State
<1>3. ASSUME NEW x, x = [s EXCEPT !.at = a, !.next = k] PROVE x = State(a, k, s.read, s.role)
  BY <1>3, Parts DEF State
<1> QED
  BY <1>1, <1>2, <1>3

LEMMA ThreeFields ==
  ASSUME NEW s \in Starts, NEW a, NEW k, NEW read, NEW x,
         x = [s EXCEPT !.at = a, !.next = k, !.read = read]
  PROVE  x = State(a, k, read, s.role)
BY Parts DEF State

LEMMA FromDown ==
  ASSUME NEW a, NEW role
  PROVE  /\ Down = State("down", 1, {}, FALSE)
         /\ [Down EXCEPT !.at = a] = State(a, 1, {}, FALSE)
         /\ [Down EXCEPT !.at = a, !.role = role] = State(a, 1, {}, role)
<1>1. Down = State("down", 1, {}, FALSE) /\ DOMAIN Down = {"at", "next", "read", "role"}
  BY DEF State, Down
<1>2. ASSUME NEW x, x = [Down EXCEPT !.at = a] PROVE x = State(a, 1, {}, FALSE)
  BY <1>1, <1>2 DEF State
<1>3. ASSUME NEW x, x = [Down EXCEPT !.at = a, !.role = role] PROVE x = State(a, 1, {}, role)
  BY <1>1, <1>3 DEF State
<1> QED
  BY <1>1, <1>2, <1>3

LEMMA Moved ==
  ASSUME Shape, NEW i \in Instances, NEW r \in Starts, Go(i, r)
  PROVE  /\ inst' \in [Instances -> Starts] /\ inst'[i] = r
         /\ \A j \in Instances \ {i} : inst'[j] = inst[j]
BY DEF Shape, Go

(* An instance that ends, or starts again, claims nothing. *)
LEMMA ToDown ==
  ASSUME Shape, NEW i \in Instances, Go(i, Down)
  PROVE  /\ StartTells(i)' /\ inst' \in [Instances -> Starts]
         /\ \A j \in Instances \ {i} : inst'[j] = inst[j]
<1>1. Down \in Starts /\ Down.at = "down"
  <2>1. Down = State("down", 1, {}, FALSE)
    BY FromDown
  <2>2. State("down", 1, {}, FALSE) \in Starts
    BY PlacesAre, StateTypes
  <2> QED
    BY <2>1, <2>2 DEF State
<1>2. /\ inst' \in [Instances -> Starts] /\ \A j \in Instances \ {i} : inst'[j] = inst[j]
      /\ inst'[i] = Down
  BY <1>1, Moved
<1> QED
  BY <1>1, <1>2 DEF StartTells

(* A step that changes nothing but where an instance is. *)
LEMMA NothingWritten ==
  ASSUME UNCHANGED <<permissions, roles, admin, changed>>, SeedInv,
         inst' \in [Instances -> Starts]
  PROVE  Shape' /\ AdminTells' /\ Onward
BY DEF SeedInv, Shape, AdminTells, Onward, Seeded, Kept, Exists

Moves(i) ==
  /\ Shape' /\ AdminTells' /\ Onward /\ StartTells(i)'
  /\ \A j \in Instances \ {i} : inst'[j] = inst[j]

LEMMA FindPermissionStep ==
  ASSUME SeedInv, NEW i \in Instances, FindPermission(i)
  PROVE  Moves(i)
<1> DEFINE s == inst[i]
<1>1. s \in Starts /\ s.at = "seeding" /\ s.next <= Listed /\ StartTells(i)
      /\ s.next \in Nat /\ Listed \in Nat
  BY SeedNames, Parts DEF SeedInv, Shape, FindPermission, At
<1>2. UNCHANGED <<permissions, roles, admin, changed>>
  BY DEF FindPermission, NotSeeding
<1>3. CASE s.next \in permissions
  <2>1. [s EXCEPT !.next = s.next + 1] = State("seeding", s.next + 1, s.read, s.role)
        /\ State("seeding", s.next + 1, s.read, s.role) \in Starts
    <3>1. s.next + 1 \in Nat /\ s.read \in SUBSET Permissions /\ s.role \in BOOLEAN
      BY <1>1, Parts
    <3>2. [s EXCEPT !.next = s.next + 1] = State(s.at, s.next + 1, s.read, s.role)
      BY <1>1, States
    <3>3. State("seeding", s.next + 1, s.read, s.role) \in Starts
      BY <3>1, PlacesAre, StateTypes
    <3> QED
      BY <1>1, <3>2, <3>3
  <2>2. Go(i, State("seeding", s.next + 1, s.read, s.role))
    BY <1>3, <2>1 DEF FindPermission
  <2>3. /\ inst'[i] = State("seeding", s.next + 1, s.read, s.role)
        /\ inst' \in [Instances -> Starts] /\ \A j \in Instances \ {i} : inst'[j] = inst[j]
    BY <2>1, <2>2, Moved DEF SeedInv
  <2>4. \A p \in Permissions : p < s.next + 1 => p \in permissions
    BY <1>1, <1>3 DEF StartTells, Permissions
  <2>5. StartTells(i)'
    BY <1>1, <1>2, <2>3, <2>4 DEF StartTells, State
  <2> QED
    BY <1>2, <2>3, <2>5, NothingWritten DEF Moves
<1>4. CASE s.next \notin permissions
  <2>1. [s EXCEPT !.at = "create"] = State("create", s.next, s.read, s.role)
        /\ State("create", s.next, s.read, s.role) \in Starts
    BY <1>1, PlacesAre, Parts, States, StateTypes
  <2>2. Go(i, State("create", s.next, s.read, s.role))
    BY <1>4, <2>1 DEF FindPermission
  <2>3. /\ inst'[i] = State("create", s.next, s.read, s.role)
        /\ inst' \in [Instances -> Starts] /\ \A j \in Instances \ {i} : inst'[j] = inst[j]
    BY <2>1, <2>2, Moved DEF SeedInv
  <2>5. StartTells(i)'
    BY <1>1, <1>2, <2>3 DEF StartTells, State
  <2> QED
    BY <1>2, <2>3, <2>5, NothingWritten DEF Moves
<1> QED
  BY <1>3, <1>4

LEMMA CreatePermissionStep ==
  ASSUME SeedInv, NEW i \in Instances, CreatePermission(i)
  PROVE  Moves(i)
<1> DEFINE s == inst[i]
<1>1. /\ s \in Starts /\ s.at = "create" /\ StartTells(i) /\ Shape /\ AdminTells
      /\ s.next \in 1..Listed /\ s.next \in Nat /\ Listed \in Nat
      /\ \A p \in Permissions : p < s.next => p \in permissions
  BY SeedNames, Parts DEF SeedInv, Shape, CreatePermission, At, StartTells
<1>2. UNCHANGED <<roles, admin, changed>>
  BY DEF CreatePermission, NotSeeding
<1>3. CASE s.next \in permissions
  <2>1. Go(i, Down) /\ UNCHANGED permissions
    BY <1>3 DEF CreatePermission
  <2> QED
    BY <1>1, <1>2, <2>1, ToDown, NothingWritten DEF Moves
<1>4. CASE s.next \notin permissions
  <2>1. [s EXCEPT !.at = "seeding", !.next = s.next + 1]
          = State("seeding", s.next + 1, s.read, s.role)
        /\ State("seeding", s.next + 1, s.read, s.role) \in Starts
    <3>1. s.next + 1 \in Nat
      BY <1>1
    <3> QED
      BY <1>1, <3>1, PlacesAre, Parts, States, StateTypes
  <2>2. /\ Go(i, State("seeding", s.next + 1, s.read, s.role))
        /\ permissions' = permissions \union {s.next}
    BY <1>4, <2>1 DEF CreatePermission
  <2>3. /\ inst'[i] = State("seeding", s.next + 1, s.read, s.role)
        /\ inst' \in [Instances -> Starts] /\ \A j \in Instances \ {i} : inst'[j] = inst[j]
    BY <1>1, <2>1, <2>2, Moved
  <2>4. permissions' \subseteq Permissions /\ permissions \subseteq permissions'
    BY <1>1, <2>2 DEF Shape, Permissions
  <2>5. \A p \in Permissions : p < s.next + 1 => p \in permissions'
    BY <1>1, <2>2 DEF Permissions
  <2>6. StartTells(i)'
    BY <1>1, <2>3, <2>5 DEF StartTells, State
  <2>7. Shape' /\ AdminTells' /\ Onward
    BY <1>1, <1>2, <2>3, <2>4 DEF Shape, AdminTells, Onward, Seeded, Kept, Exists
  <2> QED
    BY <2>3, <2>6, <2>7 DEF Moves
<1> QED
  BY <1>3, <1>4

LEMMA ReadPermissionsStep ==
  ASSUME SeedInv, NEW i \in Instances, ReadPermissions(i)
  PROVE  Moves(i)
<1> DEFINE s == inst[i]
<1>1. /\ s \in Starts /\ s.at = "seeding" /\ Shape /\ s.next > Listed /\ Listed \in Nat
      /\ s.next \in Nat /\ \A p \in Permissions : p < s.next => p \in permissions
  BY SeedNames, Parts DEF SeedInv, Shape, ReadPermissions, At, StartTells
<1>2. permissions = Permissions
  <2>1. \A p \in Permissions : p < s.next
    BY <1>1 DEF Permissions
  <2> QED
    BY <1>1, <2>1 DEF Shape
<1>3. UNCHANGED <<permissions, roles, admin, changed>>
  BY DEF ReadPermissions, NotSeeding
<1>4. /\ [s EXCEPT !.at = "role", !.next = 1, !.read = permissions]
           = State("role", 1, permissions, s.role)
      /\ State("role", 1, permissions, s.role) \in Starts
  <2>1. permissions \in SUBSET Permissions /\ 1 \in Nat /\ s.role \in BOOLEAN
    BY <1>1, <1>2, Parts
  <2>2. State("role", 1, permissions, s.role) \in Starts
    BY <2>1, PlacesAre, StateTypes
  <2>3. PICK r : r = [s EXCEPT !.at = "role", !.next = 1, !.read = permissions]
    OBVIOUS
  <2>4. r = State("role", 1, permissions, s.role)
    BY <1>1, <2>3, ThreeFields
  <2> QED
    BY <2>2, <2>3, <2>4
<1>5. Go(i, State("role", 1, permissions, s.role))
  BY <1>4 DEF ReadPermissions
<1>6. /\ inst'[i] = State("role", 1, permissions, s.role)
      /\ inst' \in [Instances -> Starts] /\ \A j \in Instances \ {i} : inst'[j] = inst[j]
  BY <1>1, <1>4, <1>5, Moved
<1>7. StartTells(i)'
  BY <1>2, <1>3, <1>6 DEF StartTells, State
<1> QED
  BY <1>3, <1>6, <1>7, NothingWritten DEF Moves

LEMMA FindRoleStep ==
  ASSUME SeedInv, NEW i \in Instances, FindRole(i)
  PROVE  Moves(i)
<1> DEFINE s == inst[i]
           to == IF Exists(Seeds[s.next]) THEN "updateRole" ELSE "createRole"
<1>1. /\ s \in Starts /\ s.at = "role" /\ Shape /\ StartTells(i)
      /\ s.next <= 2 /\ s.next \in Nat
  BY SeedNames, Parts DEF SeedInv, Shape, FindRole, At
<1>2. UNCHANGED <<permissions, roles, admin, changed>>
  BY DEF FindRole, NotSeeding
<1>3. to \in {"updateRole", "createRole"} /\ (to = "updateRole" => Exists(Seeds[s.next]))
  OBVIOUS
<1>4. Go(i, [s EXCEPT !.at = to])
  BY DEF FindRole
<1> HIDE DEF to
<1>5. [s EXCEPT !.at = to] = State(to, s.next, s.read, s.role)
      /\ State(to, s.next, s.read, s.role) \in Starts
  BY <1>1, <1>3, PlacesAre, Parts, States, StateTypes
<1>6. /\ inst'[i] = State(to, s.next, s.read, s.role)
      /\ inst' \in [Instances -> Starts] /\ \A j \in Instances \ {i} : inst'[j] = inst[j]
  BY <1>1, <1>4, <1>5, Moved
<1>7. StartTells(i)'
  <2>1. /\ inst'[i].at = to /\ inst'[i].next = s.next /\ inst'[i].read = s.read
        /\ inst'[i].role = s.role
    BY <1>6 DEF State
  <2>2. s.next \in {1, 2}
    BY <1>1 DEF StartTells
  <2>3. to = "updateRole" => Kept(Seeds[inst[i].next])'
    BY <1>2, <1>3, <2>1 DEF Kept, Exists
  <2> QED
    BY <1>1, <1>2, <1>3, <2>1, <2>2, <2>3 DEF StartTells, Seeded, Exists
<1> QED
  BY <1>2, <1>6, <1>7, NothingWritten DEF Moves

(* A role is given all it should permit, or is left as users changed it. *)
LEMMA SeedWrites ==
  ASSUME SeedInv, NEW n \in {Super, Guest}, UNCHANGED <<permissions, admin, changed>>,
         \/ roles' = [roles EXCEPT ![n] = SeedOf(n, Permissions)]
         \/ n \in changed /\ roles' = roles,
         inst' \in [Instances -> Starts]
  PROVE  Shape' /\ AdminTells' /\ Onward /\ Seeded(n)'
<1>1. /\ SeedOf(n, Permissions) \subseteq Permissions /\ SeedOf(n, Permissions) # None
      /\ n \in Names /\ roles \in [Names -> {None} \union SUBSET Permissions] /\ Super # Guest
      /\ Super \in Names /\ Guest \in Names
  BY SeedNames DEF SeedInv, Shape
<1> HIDE DEF SeedInv
<1>2. CASE roles' = [roles EXCEPT ![n] = SeedOf(n, Permissions)]
  <2>1. /\ roles' \in [Names -> {None} \union SUBSET Permissions]
        /\ roles'[n] = SeedOf(n, Permissions) /\ \A m \in Names \ {n} : roles'[m] = roles[m]
    BY <1>1, <1>2
  <2>2. Seeded(n)' /\ Kept(n)'
    BY <1>1, <2>1 DEF Seeded, Kept, Exists
  <2>3. \A m \in {Super, Guest} \ {n} : (Seeded(m) => Seeded(m)') /\ (Kept(m) => Kept(m)')
    BY <1>1, <2>1 DEF Seeded, Kept, Exists
  <2>4. Onward
    BY <2>2, <2>3 DEF Onward
  <2> QED
    BY <2>1, <2>2, <2>4 DEF SeedInv, Shape, AdminTells
<1>3. CASE n \in changed /\ roles' = roles
  BY <1>1, <1>3 DEF SeedInv, Shape, AdminTells, Onward, Seeded, Kept, Exists
<1> QED
  BY <1>2, <1>3

(* After a role that was created or brought up to date, the next one. *)
LEMMA NextRole ==
  ASSUME SeedInv, NEW i \in Instances, inst[i].at \in {"createRole", "updateRole"},
         Go(i, [inst[i] EXCEPT !.at = "role", !.next = inst[i].next + 1]),
         NEW n, n = Seeds[inst[i].next], UNCHANGED <<permissions, admin, changed>>,
         \/ roles' = [roles EXCEPT ![n] = SeedOf(n, Permissions)]
         \/ n \in changed /\ roles' = roles
  PROVE  Moves(i)
<1> DEFINE s == inst[i]
<1>1. /\ s \in Starts /\ StartTells(i) /\ s.next \in {1, 2} /\ n \in {Super, Guest} /\ Shape
      /\ s.next \in Nat
  BY SeedNames, Parts DEF SeedInv, StartTells, Shape
<1>2. [s EXCEPT !.at = "role", !.next = s.next + 1] = State("role", s.next + 1, s.read, s.role)
      /\ State("role", s.next + 1, s.read, s.role) \in Starts
  <2>1. s.next + 1 \in Nat
    BY <1>1
  <2> QED
    BY <1>1, <2>1, PlacesAre, Parts, States, StateTypes
<1>3. /\ inst'[i] = State("role", s.next + 1, s.read, s.role)
      /\ inst' \in [Instances -> Starts] /\ \A j \in Instances \ {i} : inst'[j] = inst[j]
  BY <1>1, <1>2, Moved
<1>4. Shape' /\ AdminTells' /\ Onward /\ Seeded(n)'
  BY <1>1, <1>3, SeedWrites
<1>5. /\ inst'[i].at = "role" /\ inst'[i].next = s.next + 1 /\ inst'[i].read = s.read
      /\ inst'[i].role = s.role
  BY <1>3 DEF State
<1>6. StartTells(i)'
  <2>1. /\ permissions' = Permissions /\ s.read = Permissions
        /\ s.next = 1 => n = Super
        /\ s.next = 2 => n = Guest /\ Seeded(Super)'
    BY <1>1, <1>4, SeedNames DEF StartTells, Onward
  <2>2. s.next = 1 => Seeded(Super)'
    BY <1>4, <2>1
  <2>3. s.next = 2 => Seeded(Guest)'
    BY <1>4, <2>1
  <2> QED
    BY <1>1, <1>5, <2>1, <2>2, <2>3 DEF StartTells
<1> QED
  BY <1>3, <1>4, <1>6 DEF Moves

LEMMA CreateSeedRoleStep ==
  ASSUME SeedInv, NEW i \in Instances, CreateSeedRole(i)
  PROVE  Moves(i)
<1>1. /\ inst[i].at = "createRole" /\ UNCHANGED <<permissions, admin, changed>>
      /\ Shape /\ inst[i].read = Permissions
  BY DEF CreateSeedRole, NotSeeding, At, SeedInv, StartTells
<1>2. CASE Exists(Seeds[inst[i].next])
  <2>1. Go(i, Down) /\ UNCHANGED roles
    BY <1>2 DEF CreateSeedRole
  <2> QED
    BY <1>1, <2>1, ToDown, NothingWritten DEF Moves
<1>3. CASE ~Exists(Seeds[inst[i].next])
  <2>1. PICK n : n = Seeds[inst[i].next]
    OBVIOUS
  <2>2. /\ Go(i, [inst[i] EXCEPT !.at = "role", !.next = inst[i].next + 1])
        /\ roles' = [roles EXCEPT ![n] = SeedOf(n, Permissions)]
    BY <1>1, <1>3, <2>1 DEF CreateSeedRole
  <2> QED
    BY <1>1, <2>1, <2>2, NextRole
<1> QED
  BY <1>2, <1>3

LEMMA UpdateSeedRoleStep ==
  ASSUME SeedInv, NEW i \in Instances, UpdateSeedRole(i)
  PROVE  Moves(i)
<1>1. PICK n : n = Seeds[inst[i].next]
  OBVIOUS
<1>2. /\ inst[i].at = "updateRole" /\ UNCHANGED <<permissions, admin, changed>>
      /\ inst[i].read = Permissions /\ Kept(n)
      /\ n \in Names /\ roles \in [Names -> {None} \union SUBSET Permissions]
  BY <1>1, SeedNames DEF UpdateSeedRole, NotSeeding, At, SeedInv, StartTells, Shape
<1>3. /\ Go(i, [inst[i] EXCEPT !.at = "role", !.next = inst[i].next + 1])
      /\ roles' = [roles EXCEPT ![n] = IF Exists(n) THEN SeedOf(n, Permissions) ELSE roles[n]]
  BY <1>1, <1>2 DEF UpdateSeedRole
<1>4. \/ roles' = [roles EXCEPT ![n] = SeedOf(n, Permissions)]
      \/ n \in changed /\ roles' = roles
  <2>1. CASE Exists(n)
    BY <1>3, <2>1
  <2>2. CASE ~Exists(n)
    BY <1>2, <1>3, <2>2 DEF Kept
  <2> QED
    BY <2>1, <2>2
<1> QED
  BY <1>1, <1>2, <1>3, <1>4, NextRole

(* The steps after the roles are seeded, and those that write the administrator. *)
LEMMA AfterRoles ==
  ASSUME SeedInv, NEW i \in Instances, NEW a \in {"createAdmin", "assignAdmin", "up"},
         NEW role \in BOOLEAN, Go(i, State(a, 1, {}, role)),
         permissions = Permissions, Seeded(Super), Seeded(Guest),
         UNCHANGED <<permissions, roles, changed>>,
         admin' = admin \/ admin' = {Super} \/ (admin' = {} /\ Super \in changed),
         a = "createAdmin" => role \/ Super \in changed,
         a # "createAdmin" => admin' # None
  PROVE  Moves(i)
<1>1. State(a, 1, {}, role) \in Starts
  BY PlacesAre, StateTypes
<1>2. /\ inst'[i] = State(a, 1, {}, role)
      /\ inst' \in [Instances -> Starts] /\ \A j \in Instances \ {i} : inst'[j] = inst[j]
  BY <1>1, Moved DEF SeedInv
<1>3. inst'[i].at = a /\ inst'[i].role = role
  BY <1>2 DEF State
<1>4. StartTells(i)'
  BY <1>3 DEF StartTells, Seeded
<1>5. Shape' /\ AdminTells' /\ Onward
  BY <1>2, SeedNames DEF SeedInv, Shape, AdminTells, Onward, Seeded, Kept, Exists
<1> QED
  BY <1>2, <1>4, <1>5 DEF Moves

LEMMA SeededExists ==
  ASSUME Seeded(Super), Super \notin changed
  PROVE  Exists(Super)
BY SeedNames DEF Seeded, Exists

LEMMA FindAdminStep ==
  ASSUME SeedInv, NEW i \in Instances, FindAdmin(i)
  PROVE  Moves(i)
<1>1. /\ inst[i].at = "role" /\ inst[i].next > 2 /\ inst[i].next \in {1, 2, 3}
      /\ permissions = Permissions /\ Seeded(Super) /\ Seeded(Guest)
      /\ UNCHANGED <<permissions, roles, admin, changed>>
  BY SeedNames DEF FindAdmin, NotSeeding, At, SeedInv, StartTells
<1>2. CASE admin # None
  <2>1. Go(i, State("up", 1, {}, FALSE))
    BY <1>2, FromDown DEF FindAdmin
  <2> QED
    BY <1>1, <1>2, <2>1, AfterRoles
<1>3. CASE admin = None
  <2>1. PICK role \in BOOLEAN : role = Exists(Super)
    BY DEF Exists
  <2>2. Go(i, [Down EXCEPT !.at = "createAdmin", !.role = role])
    BY <1>3, <2>1 DEF FindAdmin
  <2>3. Go(i, State("createAdmin", 1, {}, role))
    BY <2>2, FromDown
  <2>4. role \/ Super \in changed
    BY <1>1, <2>1, SeededExists
  <2> QED
    BY <1>1, <2>3, <2>4, AfterRoles
<1> QED
  BY <1>2, <1>3

LEMMA CreateAdminStep ==
  ASSUME SeedInv, NEW i \in Instances, CreateAdmin(i)
  PROVE  Moves(i)
<1>1. /\ inst[i].at = "createAdmin" /\ Shape
      /\ permissions = Permissions /\ Seeded(Super) /\ Seeded(Guest)
      /\ UNCHANGED <<permissions, roles, changed>>
  BY DEF CreateAdmin, NotSeeding, At, SeedInv, StartTells
<1>2. CASE admin # None
  <2>1. Go(i, Down) /\ UNCHANGED admin
    BY <1>2 DEF CreateAdmin
  <2> QED
    BY <1>1, <2>1, ToDown, NothingWritten DEF Moves
<1>3. CASE admin = None
  <2>1. PICK a \in {"assignAdmin", "up"} : Go(i, [Down EXCEPT !.at = a])
    BY <1>3 DEF CreateAdmin
  <2>2. Go(i, State(a, 1, {}, FALSE))
    BY <2>1, FromDown
  <2>3. admin' = {Super} \/ (admin' = {} /\ Super \in changed)
    BY <1>1, <1>3, SeededExists DEF CreateAdmin
  <2>4. admin' # None
    BY <2>3, SeedNames
  <2> QED
    BY <1>1, <2>2, <2>3, <2>4, AfterRoles
<1> QED
  BY <1>2, <1>3

LEMMA AssignAdminStep ==
  ASSUME SeedInv, NEW i \in Instances, AssignAdmin(i)
  PROVE  Moves(i)
<1>1. /\ inst[i].at = "assignAdmin" /\ Shape
      /\ permissions = Permissions /\ Seeded(Super) /\ Seeded(Guest)
      /\ UNCHANGED <<permissions, roles, changed>>
  BY DEF AssignAdmin, NotSeeding, At, SeedInv, StartTells
<1>2. CASE Exists(Super)
  <2>1. Go(i, State("up", 1, {}, FALSE)) /\ admin' = {Super}
    BY <1>2, FromDown DEF AssignAdmin
  <2>2. admin' # None
    BY <2>1, SeedNames
  <2> QED
    BY <1>1, <2>1, <2>2, AfterRoles
<1>3. CASE ~Exists(Super)
  <2>1. Go(i, Down) /\ UNCHANGED admin
    BY <1>3 DEF AssignAdmin
  <2> QED
    BY <1>1, <2>1, ToDown, NothingWritten DEF Moves
<1> QED
  BY <1>2, <1>3

LEMMA StartStep ==
  ASSUME SeedInv, NEW i \in Instances, Start(i)
  PROVE  Moves(i)
<1>1. Go(i, State("seeding", 1, {}, FALSE)) /\ UNCHANGED <<permissions, roles, admin, changed>>
  BY FromDown DEF Start, NotSeeding
<1>2. State("seeding", 1, {}, FALSE) \in Starts
  BY PlacesAre, StateTypes
<1>3. /\ inst'[i] = State("seeding", 1, {}, FALSE)
      /\ inst' \in [Instances -> Starts] /\ \A j \in Instances \ {i} : inst'[j] = inst[j]
  BY <1>1, <1>2, Moved DEF SeedInv
<1>4. StartTells(i)'
  BY <1>3, SeedNames DEF StartTells, State, Permissions
<1> QED
  BY <1>1, <1>3, <1>4, NothingWritten DEF Moves

LEMMA StartingStep ==
  ASSUME SeedInv, NEW i \in Instances, Starting(i) \/ Crash(i)
  PROVE  Moves(i)
<1>1. CASE Crash(i)
  <2>1. Go(i, Down) /\ UNCHANGED <<permissions, roles, admin, changed>>
    BY <1>1 DEF Crash
  <2> QED
    BY <2>1, ToDown, NothingWritten DEF Moves, SeedInv
<1> QED
  BY <1>1, StartStep, FindPermissionStep, CreatePermissionStep, ReadPermissionsStep, FindRoleStep,
     CreateSeedRoleStep, UpdateSeedRoleStep, FindAdminStep, CreateAdminStep, AssignAdminStep
     DEF Starting

------------------------------------------------------------------------------
(* The operations of users. *)

(* A change of the roles that users are known to have made. *)
LEMMA ByUsers ==
  ASSUME SeedInv, UNCHANGED <<permissions, admin, inst>>,
         NEW n \in Names, NEW v \in {None} \union SUBSET Permissions,
         roles' = [roles EXCEPT ![n] = v], changed' = changed \union {n}
  PROVE  Shape' /\ AdminTells' /\ Onward
<1>1. roles \in [Names -> {None} \union SUBSET Permissions]
  BY DEF SeedInv, Shape
<1>2. roles' \in [Names -> {None} \union SUBSET Permissions]
      /\ \A m \in Names \ {n} : roles'[m] = roles[m]
  BY <1>1
<1>3. \A m \in {Super, Guest} : (Seeded(m) => Seeded(m)') /\ (Kept(m) => Kept(m)')
  BY <1>2, SeedNames DEF Seeded, Kept, Exists
<1> QED
  BY <1>2, <1>3 DEF SeedInv, Shape, AdminTells, Onward

LEMMA OperationStep ==
  ASSUME SeedInv, RoleOperation
  PROVE  Shape' /\ AdminTells' /\ Onward /\ inst' = inst
<1>1. ASSUME NEW n \in Custom, NEW asked \in {{}} \union {{p} : p \in Permissions},
             CreateRole(n, asked)
      PROVE  Shape' /\ AdminTells' /\ Onward /\ inst' = inst
  <2>1. n \in Names /\ asked \in {None} \union SUBSET Permissions
    BY DEF Names
  <2>2. /\ UNCHANGED <<permissions, admin, inst>> /\ roles' = [roles EXCEPT ![n] = asked]
        /\ changed' = changed \union {n}
    BY <1>1 DEF CreateRole, Operation
  <2> QED
    BY <2>1, <2>2, ByUsers
<1>2. ASSUME NEW n \in Names, NEW asked \in SUBSET Permissions, UpdateRole(n, asked)
      PROVE  Shape' /\ AdminTells' /\ Onward /\ inst' = inst
  <2>1. PICK page \in FirstPages(asked \intersect permissions) :
          roles' = [roles EXCEPT ![n] = page]
    BY <1>2 DEF UpdateRole
  <2>2. page \in {None} \union SUBSET Permissions
    BY <2>1 DEF FirstPages
  <2>3. /\ UNCHANGED <<permissions, admin, inst>> /\ changed' = changed \union {n}
    BY <1>2 DEF UpdateRole, Operation
  <2> QED
    BY <2>1, <2>2, <2>3, ByUsers
<1>3. ASSUME NEW n \in Names, DeleteRole(n)
      PROVE  Shape' /\ AdminTells' /\ Onward /\ inst' = inst
  <2>1. /\ UNCHANGED <<permissions, admin, inst>> /\ roles' = [roles EXCEPT ![n] = None]
        /\ changed' = changed \union {n}
    BY <1>3 DEF DeleteRole, Operation
  <2> QED
    BY <2>1, ByUsers
<1>4. ASSUME NEW ns \in SUBSET Names, Assign(ns)
      PROVE  Shape' /\ AdminTells' /\ Onward /\ inst' = inst
  BY <1>4, NothingWritten DEF Assign, Operation, SeedInv, Shape
<1> QED
  BY <1>1, <1>2, <1>3, <1>4 DEF RoleOperation

LEMMA SeedNext == SeedInv /\ [Next]_vars => SeedInv'
<1> SUFFICES ASSUME SeedInv, [Next]_vars PROVE SeedInv'
  OBVIOUS
<1>1. ASSUME NEW i \in Instances, Starting(i) \/ Crash(i) PROVE SeedInv'
  <2>1. Moves(i)
    BY <1>1, StartingStep
  <2>2. ASSUME NEW j \in Instances, j # i PROVE StartTells(j)'
    BY <2>1, <2>2, OthersKeep DEF Moves, SeedInv
  <2> QED
    BY <2>1, <2>2 DEF Moves, SeedInv
<1>2. CASE RoleOperation
  <2>1. Shape' /\ AdminTells' /\ Onward /\ inst' = inst
    BY <1>2, OperationStep
  <2> QED
    BY <2>1, OthersKeep DEF SeedInv
<1>3. CASE Guard \/ List \/ UNCHANGED vars
  <2>1. UNCHANGED <<permissions, roles, admin, changed, inst>>
    BY <1>3 DEF Guard, Arrive, ReadRoles, ReadPermitted, CheckFails, NotChecking, List, vars
  <2> QED
    BY <2>1, NothingWritten, OthersKeep DEF SeedInv, Shape
<1> QED
  BY <1>1, <1>2, <1>3 DEF Next

LEMMA SeedInit == Init => SeedInv
<1> SUFFICES ASSUME Init PROVE SeedInv
  OBVIOUS
<1>1. PICK before \in 0..Listed :
        /\ "start" \notin allowed => before = Listed
        /\ permissions = 1..before
        /\ roles = [n \in Names |->
                      IF before > 0 /\ n \in {Super, Guest} THEN SeedOf(n, 1..before) ELSE None]
        /\ admin = IF before > 0 THEN {Super} ELSE None
  BY DEF Init
<1>2. Listed \in Nat \ {0} /\ before \in Nat /\ 1..before \subseteq Permissions
  BY <1>1, SeedNames DEF Permissions
<1>3. /\ permissions \subseteq Permissions /\ admin \in {None, {}, {Super}}
      /\ roles \in [Names -> {None} \union SUBSET Permissions]
  BY <1>1, <1>2, SeedNames
<1>4. CASE "start" \in allowed
  <2>1. Down \in Starts /\ Down.at = "down"
    <3>1. Down = State("down", 1, {}, FALSE) /\ State("down", 1, {}, FALSE) \in Starts
      BY PlacesAre, StateTypes, FromDown
    <3> QED
      BY <3>1 DEF State
  <2>2. inst = [i \in Instances |-> Down]
    BY <1>4 DEF Init
  <2> QED
    BY <1>1, <1>3, <2>1, <2>2 DEF SeedInv, Shape, AdminTells, StartTells
<1>5. CASE "start" \notin allowed
  <2>1. before = Listed /\ Listed > 0 /\ permissions = Permissions
    BY <1>1, <1>2, <1>5 DEF Permissions
  <2>2. inst = [i \in Instances |-> State("up", 1, {}, FALSE)]
    BY <1>5, FromDown DEF Init
  <2>3. State("up", 1, {}, FALSE) \in Starts /\ State("up", 1, {}, FALSE).at = "up"
    BY PlacesAre, StateTypes DEF State
  <2>4. roles[Super] = SeedOf(Super, Permissions) /\ roles[Guest] = SeedOf(Guest, Permissions)
    BY <1>1, <2>1, SeedNames DEF Permissions
  <2>5. admin = {Super}
    BY <1>1, <2>1
  <2> QED
    BY <1>3, <2>1, <2>2, <2>3, <2>4, <2>5, SeedNames
       DEF SeedInv, Shape, AdminTells, StartTells, Seeded
<1> QED
  BY <1>4, <1>5

(***************************************************************************)
(* Once the seeders of any instance have run (SeedService, at the start of *)
(* the gateway), the permissions of the list, the two seeded roles and the *)
(* administrator are whole, except for what users changed since: for any   *)
(* number of instances, whichever of their queries and insertions overlap, *)
(* fail on a unique index or are cut off by a crash.                       *)
(***************************************************************************)
THEOREM SeedingIsWhole == Spec => []SeededWhole
<1>1. SeedInv => SeededWhole
  <2> SUFFICES ASSUME SeedInv, NEW i \in Instances, inst[i].at = "up" PROVE SeededWhole
    BY DEF SeededWhole, Up
  <2>1. permissions = Permissions /\ Seeded(Super) /\ Seeded(Guest) /\ admin # None
    BY DEF SeedInv, StartTells
  <2> QED
    BY <2>1 DEF SeededWhole, SeedInv, AdminTells, Seeded
<1> QED
  BY <1>1, SeedInit, SeedNext, PTL DEF Spec

------------------------------------------------------------------------------
(* The guard. *)

CheckShape == check \in Checks /\ assigned \subseteq Names

(***************************************************************************)
(* While a request is checked, what its user is permitted now is among the *)
(* moments of the check.  The roles that the guard has read are those the  *)
(* user has, or the user's roles were what changed since: then nothing     *)
(* else did, and what those roles permit now, they permitted at a moment   *)
(* of the check as well.                                                   *)
(***************************************************************************)
GuardTells ==
  /\ Checking => (Granted(roles, assigned, check.needs) => TRUE \in check.moments)
  /\ check.at = "permissions" /\ check.changes = 0 => check.seen = assigned
  /\ check.at = "permissions" /\ check.changes <= 1 =>
       \/ check.seen = assigned
       \/ Granted(roles, check.seen, check.needs) => TRUE \in check.moments
  /\ AllowedWasGranted

GuardInv == CheckShape /\ GuardTells

LEMMA CheckParts ==
  ASSUME CheckShape
  PROVE  /\ check.at \in {"idle", "roles", "permissions", "decided", "failed"}
         /\ check.needs \in Permissions /\ check.seen \subseteq Names
         /\ check.allowed \in BOOLEAN /\ check.moments \subseteq BOOLEAN /\ check.changes \in Nat
         /\ DOMAIN check = {"at", "needs", "seen", "allowed", "moments", "changes"}
BY DEF CheckShape, Checks

(* What Watch adds to the history of a check. *)
LEMMA WatchEffect ==
  ASSUME CheckShape, Watch
  PROVE  /\ check' \in Checks
         /\ ~Checking => check' = check
         /\ Checking =>
              /\ check'.at = check.at /\ check'.needs = check.needs /\ check'.seen = check.seen
              /\ check'.changes = check.changes + 1 /\ check.moments \subseteq check'.moments
              /\ Granted(roles', assigned', check.needs) => TRUE \in check'.moments
<1>1. CASE ~Checking
  <2>1. check' = check
    BY <1>1 DEF Watch
  <2> QED
    BY <1>1, <2>1 DEF CheckShape
<1>2. CASE Checking
  <2>1. PICK g \in BOOLEAN : g = Granted(roles', assigned', check.needs)
    BY DEF Granted
  <2>2. check' = [check EXCEPT !.moments = check.moments \union {g},
                               !.changes = check.changes + 1]
    BY <1>2, <2>1 DEF Watch
  <2>3. check' = [at |-> check.at, needs |-> check.needs, seen |-> check.seen,
                  allowed |-> check.allowed, moments |-> check.moments \union {g},
                  changes |-> check.changes + 1]
    BY <2>2, CheckParts
  <2>4. check.moments \union {g} \subseteq BOOLEAN /\ check.changes + 1 \in Nat
    BY <2>1, CheckParts
  <2>5. check' \in Checks
    BY <2>3, <2>4, CheckParts DEF Checks
  <2>6. /\ check'.at = check.at /\ check'.needs = check.needs /\ check'.seen = check.seen
        /\ check'.changes = check.changes + 1 /\ check'.moments = check.moments \union {g}
    BY <2>3
  <2>7. g => TRUE \in check'.moments
    BY <2>1, <2>6
  <2> QED
    BY <1>2, <2>1, <2>5, <2>6, <2>7
<1> QED
  BY <1>1, <1>2

LEMMA WatchKeeps ==
  ASSUME GuardInv, Watch, assigned' \subseteq Names, roles' = roles \/ assigned' = assigned
  PROVE  GuardInv'
<1>1. CheckShape /\ check.changes \in Nat
  BY CheckParts DEF GuardInv
<1>2. CheckShape'
  BY <1>1, WatchEffect DEF CheckShape
<1>3. CASE ~Checking
  <2>1. check' = check /\ check.at # "roles" /\ check.at # "permissions"
    BY <1>1, <1>3, WatchEffect DEF Checking
  <2> QED
    BY <1>2, <2>1 DEF GuardInv, GuardTells, Checking, AllowedWasGranted
<1>4. CASE Checking
  <2>1. /\ check'.at = check.at /\ check'.needs = check.needs /\ check'.seen = check.seen
        /\ check'.changes = check.changes + 1 /\ check.moments \subseteq check'.moments
        /\ Granted(roles', assigned', check.needs) => TRUE \in check'.moments
        /\ check.at \in {"roles", "permissions"}
    BY <1>1, <1>4, WatchEffect DEF Checking
  <2>2. Granted(roles', assigned', check'.needs) => TRUE \in check'.moments
    BY <2>1
  <2>3. ASSUME check.at = "permissions", check'.changes <= 1, check'.seen # assigned',
               Granted(roles', check'.seen, check'.needs)
        PROVE  TRUE \in check'.moments
    <3>1. check.seen = assigned
      BY <1>1, <2>1, <2>3 DEF GuardInv, GuardTells
    <3>2. roles' = roles /\ Granted(roles, assigned, check.needs)
      BY <2>1, <2>3, <3>1
    <3>3. TRUE \in check.moments
      BY <1>4, <3>2 DEF GuardInv, GuardTells
    <3> QED
      BY <2>1, <3>3
  <2>4. check'.changes # 0 /\ check'.at # "decided"
    BY <1>1, <2>1
  <2>5. GuardTells'
    BY <2>1, <2>2, <2>3, <2>4 DEF GuardTells, AllowedWasGranted, Granted
  <2> QED
    BY <1>2, <2>5 DEF GuardInv
<1> QED
  BY <1>3, <1>4

LEMMA GuardUnmoved ==
  ASSUME GuardInv, UNCHANGED <<check, roles, assigned>>
  PROVE  GuardInv'
BY DEF GuardInv, CheckShape, GuardTells, AllowedWasGranted, Checking, Granted

LEMMA ArriveStep ==
  ASSUME GuardInv, NEW p \in Permissions, Arrive(p)
  PROVE  GuardInv'
<1>1. /\ UNCHANGED <<roles, assigned>> /\ assigned \subseteq Names
      /\ DOMAIN NoCheck = {"at", "needs", "seen", "allowed", "moments", "changes"}
  BY DEF Arrive, NotChecking, GuardInv, CheckShape, NoCheck
<1>2. CASE Super \in assigned /\ Exists(Super)
  <2>1. check' = [NoCheck EXCEPT !.at = "decided", !.needs = p, !.allowed = TRUE,
                                 !.moments = {TRUE}]
    BY <1>2 DEF Arrive
  <2>2. check' = [at |-> "decided", needs |-> p, seen |-> {}, allowed |-> TRUE,
                  moments |-> {TRUE}, changes |-> 0]
    BY <1>1, <2>1 DEF NoCheck
  <2> QED
    BY <1>1, <2>2 DEF GuardInv, CheckShape, Checks, GuardTells, AllowedWasGranted, Checking
<1>3. CASE ~(Super \in assigned /\ Exists(Super))
  <2>1. PICK g \in BOOLEAN : g = Granted(roles, assigned, p)
    BY DEF Granted
  <2>2. check' = [NoCheck EXCEPT !.at = "roles", !.needs = p, !.moments = {g}]
    BY <1>3, <2>1 DEF Arrive
  <2>3. check' = [at |-> "roles", needs |-> p, seen |-> {}, allowed |-> FALSE,
                  moments |-> {g}, changes |-> 0]
    BY <1>1, <2>2 DEF NoCheck
  <2>4. check' \in Checks /\ check'.at = "roles" /\ check'.needs = p /\ check'.moments = {g}
    BY <2>3 DEF Checks
  <2>5. Granted(roles, assigned, p) => TRUE \in {g}
    BY <2>1
  <2>6. GuardTells'
    BY <1>1, <2>4, <2>5 DEF GuardTells, AllowedWasGranted, Granted
  <2> QED
    BY <1>1, <2>4, <2>6 DEF GuardInv, CheckShape
<1> QED
  BY <1>2, <1>3

LEMMA ReadRolesStep ==
  ASSUME GuardInv, ReadRoles
  PROVE  GuardInv'
<1>1. /\ UNCHANGED <<roles, assigned>> /\ assigned \subseteq Names /\ check.at = "roles"
      /\ check' = [check EXCEPT !.at = "permissions", !.seen = assigned] /\ CheckShape
  BY DEF ReadRoles, NotChecking, GuardInv, CheckShape
<1>2. check' = [at |-> "permissions", needs |-> check.needs, seen |-> assigned,
                allowed |-> check.allowed, moments |-> check.moments, changes |-> check.changes]
  BY <1>1, CheckParts
<1>3. check' \in Checks
  BY <1>1, <1>2, CheckParts DEF Checks
<1>4. /\ check'.at = "permissions" /\ check'.seen = assigned /\ check'.needs = check.needs
      /\ check'.moments = check.moments
  BY <1>2
<1>5. Granted(roles, assigned, check.needs) => TRUE \in check.moments
  BY <1>1 DEF GuardInv, GuardTells, Checking
<1>6. GuardTells'
  BY <1>1, <1>4, <1>5 DEF GuardTells, AllowedWasGranted, Granted
<1> QED
  BY <1>1, <1>3, <1>6 DEF GuardInv, CheckShape

LEMMA ReadPermittedStep ==
  ASSUME GuardInv, ReadPermitted
  PROVE  GuardInv'
<1>1. PICK a \in BOOLEAN : a = (\E n \in check.seen : Exists(n) /\ check.needs \in roles[n])
  OBVIOUS
<1>2. /\ UNCHANGED <<roles, assigned>> /\ assigned \subseteq Names /\ check.at = "permissions"
      /\ check' = [check EXCEPT !.at = "decided", !.seen = {}, !.allowed = a] /\ CheckShape
  BY <1>1 DEF ReadPermitted, NotChecking, GuardInv, CheckShape
<1>3. check' = [at |-> "decided", needs |-> check.needs, seen |-> {}, allowed |-> a,
                moments |-> check.moments, changes |-> check.changes]
  BY <1>2, CheckParts
<1>4. check' \in Checks
  BY <1>2, <1>3, CheckParts DEF Checks
<1>5. /\ check'.at = "decided" /\ check'.allowed = a /\ check'.moments = check.moments
      /\ check'.changes = check.changes
  BY <1>3
<1>6. a => Granted(roles, check.seen, check.needs)
  BY <1>1 DEF Granted, Exists
<1>7. a /\ check.changes <= 1 => TRUE \in check.moments
  BY <1>2, <1>6 DEF GuardInv, GuardTells, Checking
<1>8. GuardTells'
  BY <1>5, <1>7 DEF GuardTells, AllowedWasGranted, Checking
<1> QED
  BY <1>2, <1>4, <1>8 DEF GuardInv, CheckShape

LEMMA CheckFailsStep ==
  ASSUME GuardInv, CheckFails
  PROVE  GuardInv'
<1>1. /\ UNCHANGED <<roles, assigned>> /\ assigned \subseteq Names
      /\ check' = [check EXCEPT !.at = "failed", !.seen = {}] /\ CheckShape
  BY DEF CheckFails, NotChecking, GuardInv, CheckShape
<1>2. check' = [at |-> "failed", needs |-> check.needs, seen |-> {}, allowed |-> check.allowed,
                moments |-> check.moments, changes |-> check.changes]
  BY <1>1, CheckParts
<1>3. check' \in Checks /\ check'.at = "failed"
  BY <1>1, <1>2, CheckParts DEF Checks
<1> QED
  BY <1>1, <1>3 DEF GuardInv, CheckShape, GuardTells, AllowedWasGranted, Checking

LEMMA GuardNext == GuardInv /\ [Next]_vars => GuardInv'
<1> SUFFICES ASSUME GuardInv, [Next]_vars PROVE GuardInv'
  OBVIOUS
<1>0. assigned \subseteq Names
  BY DEF GuardInv, CheckShape
<1>1. ASSUME NEW i \in Instances, Starting(i) \/ Crash(i) PROVE GuardInv'
  <2>1. CASE CreateSeedRole(i)
    <3>1. (UNCHANGED <<roles, check>> \/ Watch) /\ assigned' = assigned
      BY <2>1 DEF CreateSeedRole, NotSeeding
    <3> QED
      BY <1>0, <3>1, WatchKeeps, GuardUnmoved
  <2>2. CASE UpdateSeedRole(i)
    BY <1>0, <2>2, WatchKeeps DEF UpdateSeedRole, NotSeeding
  <2>3. CASE ~CreateSeedRole(i) /\ ~UpdateSeedRole(i)
    <3>1. UNCHANGED <<check, roles, assigned>>
      BY <1>1, <2>3 DEF Starting, Crash, Start, FindPermission, CreatePermission,
         ReadPermissions, FindRole, FindAdmin, CreateAdmin, AssignAdmin, NotSeeding
    <3> QED
      BY <3>1, GuardUnmoved
  <2> QED
    BY <2>1, <2>2, <2>3
<1>2. CASE RoleOperation
  <2>1. /\ Watch
        /\ roles' = roles \/ assigned' = assigned
        /\ assigned' \subseteq Names
    BY <1>0, <1>2 DEF RoleOperation, CreateRole, UpdateRole, DeleteRole, Assign
  <2> QED
    BY <2>1, WatchKeeps
<1>3. CASE Guard
  BY <1>3, ArriveStep, ReadRolesStep, ReadPermittedStep, CheckFailsStep DEF Guard
<1>4. CASE List \/ UNCHANGED vars
  BY <1>4, GuardUnmoved DEF List, vars
<1> QED
  BY <1>1, <1>2, <1>3, <1>4 DEF Next

LEMMA GuardInit == Init => GuardInv
<1> SUFFICES ASSUME Init PROVE GuardInv
  OBVIOUS
<1>1. 1 \in Permissions /\ {Super} \subseteq Names /\ {Guest} \subseteq Names
  BY SeedNames DEF Permissions
<1>2. assigned \in {{Super}, {Guest}, {}} /\ check = NoCheck
  BY DEF Init
<1> QED
  BY <1>1, <1>2 DEF GuardInv, CheckShape, Checks, NoCheck, GuardTells, AllowedWasGranted, Checking

(***************************************************************************)
(* PermissionsGuard.canActivate reads the user's roles, and then what they *)
(* permit.  Whatever operations on roles and assignments, starts of other  *)
(* instances and failing queries come between, a request is let in only if *)
(* it would have been granted at some moment of its check, as long as at   *)
(* most one of them changed the roles or the assignment meanwhile.         *)
(***************************************************************************)
THEOREM AllowedIsGranted == Spec => []AllowedWasGranted
<1>1. GuardInv => AllowedWasGranted
  BY DEF GuardInv, GuardTells
<1> QED
  BY <1>1, GuardInit, GuardNext, PTL DEF Spec

------------------------------------------------------------------------------
(* A list read page by page: the inductive invariant. *)

(* The collection has each role that exists at one place of its order. *)
OrderTells ==
  /\ order \in Seq(Names) /\ IsInjective(order)
  /\ Range(order) = {n \in Names : Exists(n)}

Walks == [at : {"idle", "asking", "refused", "done"}, query : Queries \union {NoSearch},
          limit : Nat, page : Nat \ {0}, total : Nat \union {NotAsked}, found : BOOLEAN,
          items : SUBSET Documents, times : [Documents -> Nat], stayed : SUBSET Documents,
          removed : SUBSET Documents, inserted : SUBSET Documents, torn : BOOLEAN]

Shown(d) == walk.times[d] > 0 \/ d \in walk.items

(* What was shown satisfies the condition, and is there unless removed. *)
WalkShape ==
  /\ walk \in Walks
  /\ walk.at \in {"asking", "done"} => walk.query \in Queries /\ ~Throws(walk.query)
  /\ ~walk.found => walk.items = {}
  /\ \A d \in Documents : Shown(d) => walk.at \in {"asking", "done"} /\ Matches(walk.query, d)
  /\ walk.at = "asking" =>
       \A d \in Documents : Shown(d) => d \in Range(order) \/ d \in walk.removed

PlaceOf(d) == Place(order, walk.query, d)

Read == Skip(walk.page, walk.limit)

ReadNext == Skip(walk.page + 1, walk.limit)

Staying == {d \in walk.stayed : Matches(walk.query, d)}

(***************************************************************************)
(* While nothing was removed, and in an arranged list nothing came between *)
(* a count and its reading, what stayed and has its place on a page        *)
(* already read was shown; and a count that leaves no page further is of   *)
(* no fewer documents than the place of the last of them.                  *)
(***************************************************************************)
MissTells ==
  walk.limit # 0 /\ walk.removed = {} /\ ~(Arranged(walk.query) /\ walk.torn) =>
    /\ walk.at = "asking" =>
         /\ Staying \subseteq Range(order)
         /\ \A d \in Staying : PlaceOf(d) <= Read => walk.times[d] > 0
         /\ walk.found => \A d \in Staying : PlaceOf(d) <= ReadNext => Shown(d)
         /\ walk.total # NotAsked /\ ~walk.found => \A d \in Staying : PlaceOf(d) <= walk.total
         /\ walk.total # NotAsked /\ walk.found /\ walk.total <= ReadNext =>
              \A d \in Staying : Shown(d)
    /\ walk.at = "done" => \A d \in Staying : walk.times[d] > 0

(***************************************************************************)
(* While nothing was inserted into an arranged list, what was shown keeps  *)
(* to the pages already read; but for one that was removed and inserted.   *)
(***************************************************************************)
RepeatTells ==
  walk.limit # 0 /\ ~(Arranged(walk.query) /\ walk.inserted # {}) =>
    \A d \in Documents \ (walk.removed \intersect walk.inserted) :
      /\ walk.times[d] <= 1
      /\ walk.at = "asking" =>
           /\ walk.times[d] = 1 /\ d \in Range(order) => PlaceOf(d) <= Read
           /\ d \in walk.items =>
                walk.times[d] = 0 /\ (d \in Range(order) => PlaceOf(d) <= ReadNext)

ListInv == WalkShape /\ MissTells /\ RepeatTells

------------------------------------------------------------------------------
(* Places in a line. *)

LEMMA DocumentsAre ==
  /\ Sorted \in Seq(Documents) /\ IsInjective(Sorted) /\ Documents = Names
  /\ DefaultLimit \in Nat \ {0} /\ Limits \subseteq Nat
BY ListingAssumption, RolesAssumption DEF Documents

LEMMA RangeIs ==
  ASSUME NEW S, NEW s \in Seq(S)
  PROVE  /\ Len(s) \in Nat /\ DOMAIN s = 1..Len(s)
         /\ Range(s) = {s[i] : i \in 1..Len(s)} /\ Range(s) \subseteq S
         /\ IsFiniteSet(Range(s))
<1>1. Len(s) \in Nat /\ DOMAIN s = 1..Len(s) /\ \A i \in 1..Len(s) : s[i] \in S
  BY LenProperties, ElementOfSeq
<1>2. Range(s) = {s[i] : i \in 1..Len(s)}
  BY <1>1 DEF Range
<1>3. IsFiniteSet(1..Len(s))
  BY <1>1, FS_Interval
<1>4. IsFiniteSet({s[i] : i \in 1..Len(s)})
  <2>1. s \in Surjection(1..Len(s), {s[i] : i \in 1..Len(s)})
    BY <1>1, LenProperties DEF Surjection
  <2> QED
    BY <1>3, <2>1, FS_Surjection
<1> QED
  BY <1>1, <1>2, <1>4

LEMMA PlaceBounds ==
  ASSUME NEW coll \in Seq(Names), NEW q, NEW d \in Range(coll)
  PROVE  /\ IsFiniteSet(Selected(coll, q)) /\ Cardinality(Selected(coll, q)) \in Nat
         /\ Place(coll, q, d) \in Nat
         /\ Place(coll, q, d) <= Cardinality(Selected(coll, q))
         /\ Matches(q, d) => Place(coll, q, d) >= 1
<1> DEFINE ahead == {e \in Selected(coll, q) : Precedes(Line(coll, q), e, d)}
<1>1. IsFiniteSet(Selected(coll, q))
  <2>1. Selected(coll, q) \subseteq Range(coll) /\ IsFiniteSet(Range(coll))
    BY RangeIs DEF Selected
  <2> QED
    BY <2>1, FS_Subset
<1>2. /\ IsFiniteSet(ahead) /\ Cardinality(ahead) \in Nat
      /\ Cardinality(ahead) <= Cardinality(Selected(coll, q))
      /\ Cardinality(Selected(coll, q)) \in Nat
  <2>1. ahead \subseteq Selected(coll, q)
    OBVIOUS
  <2> QED
    BY <1>1, <2>1, FS_Subset, FS_CardinalityType
<1>3. ASSUME Matches(q, d) PROVE Cardinality(ahead) # 0
  <2>1. Line(coll, q) \in Seq(Names) /\ d \in Range(Line(coll, q))
    BY DocumentsAre, RangeIs DEF Line, Documents
  <2>2. Precedes(Line(coll, q), d, d)
    <3>1. PICK j \in 1..Len(Line(coll, q)) : Line(coll, q)[j] = d
      BY <2>1, RangeIs
    <3>2. j \in 1..j /\ j \in DOMAIN Line(coll, q)
      BY <2>1, <3>1, RangeIs
    <3> QED
      BY <3>1, <3>2 DEF Precedes
  <2>3. d \in ahead
    BY <1>3, <2>2 DEF Selected
  <2> QED
    BY <1>2, <2>3, FS_EmptySet
<1> QED
  BY <1>1, <1>2, <1>3 DEF Place

(* Of two collections, where more is ahead of a document its place is later. *)
LEMMA PlaceGrows ==
  ASSUME NEW old \in Seq(Names), NEW new \in Seq(Names), NEW q, NEW d \in Range(old),
         d \in Range(new),
         \A e \in Selected(old, q) : Precedes(Line(old, q), e, d) =>
           e \in Selected(new, q) /\ Precedes(Line(new, q), e, d)
  PROVE  Place(old, q, d) <= Place(new, q, d)
<1> DEFINE before == {e \in Selected(old, q) : Precedes(Line(old, q), e, d)}
           after == {e \in Selected(new, q) : Precedes(Line(new, q), e, d)}
<1>1. IsFiniteSet(after)
  <2>1. IsFiniteSet(Selected(new, q)) /\ after \subseteq Selected(new, q)
    BY PlaceBounds
  <2> QED
    BY <2>1, FS_Subset
<1>2. before \subseteq after
  OBVIOUS
<1>3. Cardinality(before) <= Cardinality(after)
  BY <1>1, <1>2, FS_Subset
<1> QED
  BY <1>3 DEF Place

(***************************************************************************)
(* A document at the end of the collection comes after those that are      *)
(* there; in an arranged list it may move them on, but never back.        *)
(***************************************************************************)
LEMMA AfterInsertion ==
  ASSUME NEW old \in Seq(Names), NEW n \in Names \ Range(old), IsInjective(old)
  PROVE  LET new == Append(old, n)
         IN  /\ new \in Seq(Names) /\ IsInjective(new) /\ Range(new) = Range(old) \union {n}
             /\ \A q, d : d \in Range(old) =>
                  /\ Place(old, q, d) <= Place(new, q, d)
                  /\ ~Arranged(q) \/ ~Matches(q, n) => Place(old, q, d) = Place(new, q, d)
<1> DEFINE new == Append(old, n)
           L == Len(old)
<1>1. L \in Nat /\ DOMAIN old = 1..L /\ \A i \in 1..L : old[i] \in Range(old)
  BY RangeIs
<1>2. /\ new \in Seq(Names) /\ Len(new) = L + 1 /\ DOMAIN new = 1..(L + 1)
      /\ \A i \in 1..L : new[i] = old[i]
      /\ new[L + 1] = n
  BY AppendProperties, LenProperties
<1> HIDE DEF new
<1>3. Range(new) = Range(old) \union {n}
  <2>1. 1..(L + 1) = (1..L) \union {L + 1}
    BY <1>1
  <2> QED
    BY <1>1, <1>2, <2>1, RangeIs
<1>4. IsInjective(new)
  <2> SUFFICES ASSUME NEW i \in 1..(L + 1), NEW j \in 1..(L + 1), new[i] = new[j] PROVE i = j
    BY <1>2 DEF IsInjective
  <2>1. CASE i \in 1..L /\ j \in 1..L
    BY <1>1, <1>2, <2>1 DEF IsInjective
  <2>2. CASE i \notin 1..L \/ j \notin 1..L
    BY <1>1, <1>2, <2>2
  <2> QED
    BY <2>1, <2>2
<1>5. ASSUME NEW q, NEW d \in Range(old)
      PROVE  /\ Place(old, q, d) <= Place(new, q, d)
             /\ ~Arranged(q) \/ ~Matches(q, n) => Place(old, q, d) = Place(new, q, d)
  <2>1. d \in Range(new) /\ d # n
    BY <1>3
  <2>2. \A e : Precedes(old, e, d) => Precedes(new, e, d)
    <3> SUFFICES ASSUME NEW j \in 1..L, old[j] = d, NEW e, NEW i \in 1..j, old[i] = e
                 PROVE  \E k \in DOMAIN new : new[k] = d /\ \E m \in 1..k : new[m] = e
      BY <1>1 DEF Precedes
    <3> QED
      BY <1>1, <1>2
  <2>3. \A e : Precedes(new, e, d) => Precedes(old, e, d)
    <3> SUFFICES ASSUME NEW j \in 1..(L + 1), new[j] = d, NEW e, NEW i \in 1..j, new[i] = e
                 PROVE  \E k \in DOMAIN old : old[k] = d /\ \E m \in 1..k : old[m] = e
      BY <1>2 DEF Precedes
    <3>1. j \in 1..L /\ i \in 1..L
      BY <1>1, <1>2, <2>1
    <3> QED
      BY <1>1, <1>2, <3>1
  <2>4. Selected(new, q) = Selected(old, q) \union {e \in {n} : Matches(q, e)}
    BY <1>3 DEF Selected
  <2>5. Place(old, q, d) <= Place(new, q, d)
    <3>1. \A e \in Selected(old, q) : Precedes(Line(old, q), e, d) =>
             e \in Selected(new, q) /\ Precedes(Line(new, q), e, d)
      BY <2>2, <2>4 DEF Line
    <3> QED
      BY <1>2, <2>1, <3>1, PlaceGrows
  <2>6. ASSUME ~Arranged(q) \/ ~Matches(q, n) PROVE Place(old, q, d) = Place(new, q, d)
    <3>1. \A e \in Selected(new, q) : Precedes(Line(new, q), e, d) =>
             e \in Selected(old, q) /\ Precedes(Line(old, q), e, d)
      <4>1. CASE ~Arranged(q)
        <5>1. ~Precedes(old, n, d)
          <6> SUFFICES ASSUME NEW j \in 1..L, NEW i \in 1..j, old[i] = n PROVE FALSE
            BY <1>1 DEF Precedes
          <6> QED
            BY <1>1
        <5> QED
          BY <2>3, <2>4, <4>1, <5>1 DEF Line
      <4>2. CASE Arranged(q) /\ ~Matches(q, n)
        BY <2>4, <4>2 DEF Line
      <4> QED
        BY <2>6, <4>1, <4>2
    <3>2. Place(new, q, d) <= Place(old, q, d)
      BY <1>2, <2>1, <3>1, PlaceGrows
    <3>3. Place(old, q, d) \in Nat /\ Place(new, q, d) \in Nat
      BY <1>2, <2>1, PlaceBounds
    <3> QED
      BY <2>5, <3>2, <3>3
  <2> QED
    BY <2>5, <2>6
<1> QED
  BY <1>2, <1>3, <1>4, <1>5 DEF new

(* A document that is removed moves those behind it up, and none back. *)
LEMMA AfterRemoval ==
  ASSUME NEW old \in Seq(Names), IsInjective(old), NEW p \in DOMAIN old
  PROVE  LET new == RemoveAt(old, p)
         IN  /\ new \in Seq(Names) /\ IsInjective(new) /\ Range(new) = Range(old) \ {old[p]}
             /\ \A q, d : d \in Range(new) =>
                  /\ Place(new, q, d) <= Place(old, q, d)
                  /\ ~Matches(q, old[p]) => Place(new, q, d) = Place(old, q, d)
<1> DEFINE new == RemoveAt(old, p)
           L == Len(old)
           Was(i) == IF i < p THEN i ELSE i + 1
           Is(i) == IF i < p THEN i ELSE i - 1
<1>1. L \in Nat /\ DOMAIN old = 1..L /\ p \in 1..L /\ \A i \in 1..L : old[i] \in Names
  BY RangeIs, ElementOfSeq
<1>2. new \in Seq(Names) /\ Len(new) = L - 1 /\ \A i \in 1..(L - 1) : new[i] = old[Was(i)]
  <2> DEFINE a == SubSeq(old, 1, p - 1)
             b == SubSeq(old, p + 1, L)
  <2>1. /\ a \in Seq(Names) /\ Len(a) = p - 1 /\ \A i \in 1..(p - 1) : a[i] = old[i]
    <3>1. 1 \in Int /\ p - 1 \in Int /\ (\A i \in 1..(p - 1) : old[i] \in Names)
          /\ (p - 1) - 1 + 1 = p - 1 /\ \A i \in 1..(p - 1) : 1 + i - 1 = i
      BY <1>1
    <3>2. /\ a \in Seq(Names) /\ Len(a) = IF 1 <= p - 1 THEN (p - 1) - 1 + 1 ELSE 0
          /\ \A i \in 1..((p - 1) - 1 + 1) : a[i] = old[1 + i - 1]
      BY <3>1, SubSeqProperties
    <3> HIDE DEF a
    <3> QED
      BY <1>1, <3>1, <3>2
  <2>2. b \in Seq(Names) /\ Len(b) = L - p /\ \A i \in 1..(L - p) : b[i] = old[p + i]
    <3>1. p + 1 \in Int /\ L \in Int /\ (\A i \in (p + 1)..L : old[i] \in Names)
          /\ L - (p + 1) + 1 = L - p /\ \A i \in 1..(L - p) : (p + 1) + i - 1 = p + i
      BY <1>1
    <3>2. /\ b \in Seq(Names) /\ Len(b) = IF p + 1 <= L THEN L - (p + 1) + 1 ELSE 0
          /\ \A i \in 1..(L - (p + 1) + 1) : b[i] = old[(p + 1) + i - 1]
      BY <3>1, SubSeqProperties
    <3> HIDE DEF b
    <3> QED
      BY <1>1, <3>1, <3>2
  <2>3. new = a \o b
    BY DEF RemoveAt
  <2> HIDE DEF a, b
  <2>4. /\ a \o b \in Seq(Names) /\ Len(a \o b) = Len(a) + Len(b)
        /\ \A i \in 1..(Len(a) + Len(b)) :
             (a \o b)[i] = IF i <= Len(a) THEN a[i] ELSE b[i - Len(a)]
    BY <2>1, <2>2, ConcatProperties
  <2> HIDE DEF new
  <2>5. Len(a) + Len(b) = L - 1
    BY <1>1, <2>1, <2>2
  <2>6. ASSUME NEW i \in 1..(L - 1) PROVE new[i] = old[Was(i)]
    <3>1. CASE i < p
      BY <1>1, <2>1, <2>3, <2>4, <2>5, <3>1
    <3>2. CASE ~(i < p)
      <4>1. i - (p - 1) \in 1..(L - p) /\ p + (i - (p - 1)) = i + 1 /\ ~(i <= p - 1)
        BY <1>1, <3>2
      <4>2. (a \o b)[i] = b[i - (p - 1)]
        BY <2>1, <2>4, <2>5, <4>1
      <4> QED
        BY <2>2, <2>3, <3>2, <4>1, <4>2
    <3> QED
      BY <3>1, <3>2
  <2> QED
    BY <2>3, <2>4, <2>5, <2>6
<1> HIDE DEF new
<1>3. /\ DOMAIN new = 1..(L - 1)
      /\ \A i \in 1..(L - 1) : Was(i) \in 1..L /\ Was(i) # p /\ Is(Was(i)) = i
      /\ \A i \in 1..L : i # p => Is(i) \in 1..(L - 1) /\ Was(Is(i)) = i
      /\ \A i, j \in 1..(L - 1) : i <= j => Was(i) <= Was(j)
      /\ \A i, j \in 1..L : i <= j /\ i # p /\ j # p => Is(i) <= Is(j)
  BY <1>1, <1>2, LenProperties
<1> HIDE DEF Was, Is
<1>4. Range(new) = Range(old) \ {old[p]}
  <2>1. \A x \in Range(new) : x \in Range(old) /\ x # old[p]
    <3> SUFFICES ASSUME NEW i \in 1..(L - 1) PROVE new[i] \in Range(old) /\ new[i] # old[p]
      BY <1>2, RangeIs
    <3>1. new[i] = old[Was(i)] /\ Was(i) \in 1..L /\ Was(i) # p
      BY <1>2, <1>3
    <3> QED
      BY <1>1, <3>1, RangeIs DEF IsInjective
  <2>2. \A x \in Range(old) : x # old[p] => x \in Range(new)
    <3> SUFFICES ASSUME NEW i \in 1..L, i # p PROVE old[i] \in Range(new)
      BY <1>1, RangeIs
    <3>1. Is(i) \in 1..(L - 1) /\ new[Is(i)] = old[i]
      BY <1>2, <1>3
    <3> QED
      BY <1>2, <3>1, RangeIs
  <2> QED
    BY <2>1, <2>2
<1>5. IsInjective(new)
  <2> SUFFICES ASSUME NEW i \in 1..(L - 1), NEW j \in 1..(L - 1), new[i] = new[j] PROVE i = j
    BY <1>3 DEF IsInjective
  <2>1. Was(i) = Was(j)
    BY <1>1, <1>2, <1>3 DEF IsInjective
  <2>2. Is(Was(i)) = i /\ Is(Was(j)) = j
    BY <1>3
  <2> QED
    BY <2>1, <2>2
<1>6. ASSUME NEW q, NEW d \in Range(new)
      PROVE  /\ Place(new, q, d) <= Place(old, q, d)
             /\ ~Matches(q, old[p]) => Place(new, q, d) = Place(old, q, d)
  <2>1. d \in Range(old) /\ d # old[p]
    BY <1>4
  <2>2. \A e : Precedes(new, e, d) => Precedes(old, e, d)
    <3> SUFFICES ASSUME NEW j \in 1..(L - 1), new[j] = d, NEW e, NEW i \in 1..j, new[i] = e
                 PROVE  \E k \in DOMAIN old : old[k] = d /\ \E m \in 1..k : old[m] = e
      BY <1>3 DEF Precedes
    <3>1. i \in 1..(L - 1) /\ i <= j
      BY <1>1
    <3>2. Was(j) \in 1..L /\ Was(i) \in 1..L /\ Was(i) <= Was(j)
      BY <1>3, <3>1
    <3>3. old[Was(j)] = d /\ old[Was(i)] = e
      BY <1>2, <3>1
    <3>4. Was(i) \in 1..Was(j)
      BY <3>2
    <3> QED
      BY <1>1, <3>2, <3>3, <3>4
  <2>3. \A e : e # old[p] /\ Precedes(old, e, d) => Precedes(new, e, d)
    <3> SUFFICES ASSUME NEW j \in 1..L, old[j] = d, NEW e, e # old[p], NEW i \in 1..j, old[i] = e
                 PROVE  \E k \in DOMAIN new : new[k] = d /\ \E m \in 1..k : new[m] = e
      BY <1>1 DEF Precedes
    <3>1. i \in 1..L /\ i <= j /\ i # p /\ j # p
      BY <1>1, <2>1
    <3>2. Is(j) \in 1..(L - 1) /\ Is(i) \in 1..(L - 1) /\ Is(i) <= Is(j)
      BY <1>3, <3>1
    <3>3. new[Is(j)] = d /\ new[Is(i)] = e
      BY <1>2, <1>3, <3>1, <3>2
    <3>4. Is(i) \in 1..Is(j)
      BY <3>2
    <3> QED
      BY <1>3, <3>2, <3>3, <3>4
  <2>4. Selected(new, q) = Selected(old, q) \ {old[p]}
    BY <1>4 DEF Selected
  <2>5. Place(new, q, d) <= Place(old, q, d)
    <3>1. \A e \in Selected(new, q) : Precedes(Line(new, q), e, d) =>
             e \in Selected(old, q) /\ Precedes(Line(old, q), e, d)
      BY <2>2, <2>4 DEF Line
    <3> QED
      BY <1>2, <2>1, <3>1, PlaceGrows
  <2>6. ASSUME ~Matches(q, old[p]) PROVE Place(new, q, d) = Place(old, q, d)
    <3>1. \A e \in Selected(old, q) : Precedes(Line(old, q), e, d) =>
             e \in Selected(new, q) /\ Precedes(Line(new, q), e, d)
      <4>1. old[p] \notin Selected(old, q)
        BY <2>6 DEF Selected
      <4> QED
        BY <2>3, <2>4, <4>1 DEF Line
    <3>2. Place(old, q, d) <= Place(new, q, d)
      BY <1>2, <2>1, <3>1, PlaceGrows
    <3>3. Place(old, q, d) \in Nat /\ Place(new, q, d) \in Nat
      BY <1>2, <2>1, PlaceBounds
    <3> QED
      BY <2>5, <3>2, <3>3
  <2> QED
    BY <2>5, <2>6
<1> QED
  BY <1>2, <1>4, <1>5, <1>6 DEF new

(* What the link to the next page says. *)
LEMMA Pages ==
  ASSUME NEW page \in Nat \ {0}, NEW limit \in Nat \ {0}, NEW total \in Nat
  PROVE  /\ Skip(page, limit) \in Nat /\ Skip(1, limit) = 0
         /\ Skip(page + 1, limit) = Skip(page, limit) + limit
         /\ PerPage(limit) = limit
         /\ CurrentPage(page, limit) = page
         /\ page < TotalPages(total, limit) <=> Skip(page + 1, limit) < total
<1> DEFINE k == (page - 1) * limit
           c == k \div limit
           t == (total + limit - 1) \div limit
<1>1. k \in Nat /\ Skip(page, limit) = k
  BY DEF Skip
<1>2. Skip(1, limit) = 0 /\ Skip(page + 1, limit) = k + limit
  BY DEF Skip
<1>3. PerPage(limit) = limit
  BY DEF PerPage
<1>4. c = page - 1
  <2>1. c \in Int /\ limit * c <= k /\ k < limit * c + limit
    BY <1>1
  <2>2. CASE c > page - 1
    <3>1. limit * c >= limit * page
      BY <2>1, <2>2
    <3> QED
      BY <2>1, <3>1
  <2>3. CASE c < page - 1
    <3>1. limit * (c + 1) <= limit * (page - 1)
      BY <2>1, <2>3
    <3> QED
      BY <2>1, <3>1
  <2> QED
    BY <2>1, <2>2, <2>3
<1>5. page < t <=> k + limit < total
  <2>1. t \in Int /\ limit * t <= total + limit - 1 /\ total + limit - 1 < limit * t + limit
    OBVIOUS
  <2>2. k + limit = limit * page
    OBVIOUS
  <2>3. CASE page < t
    <3>1. limit * (page + 1) <= limit * t
      BY <2>1, <2>3
    <3> QED
      BY <2>1, <2>2, <3>1
  <2>4. CASE t <= page
    <3>1. limit * t <= limit * page
      BY <2>1, <2>4
    <3> QED
      BY <2>1, <2>2, <3>1
  <2> QED
    BY <2>1, <2>3, <2>4
<1> QED
  BY <1>1, <1>2, <1>3, <1>4, <1>5 DEF CurrentPage, TotalPages

------------------------------------------------------------------------------
(* What happens to the collection, and to the walk with it. *)

Inserted(n) ==
  /\ n \in Names \ Range(order) /\ order' = Append(order, n) /\ walk' = Inserting(walk, n)

Removed(p) ==
  /\ p \in DOMAIN order /\ order' = RemoveAt(order, p) /\ walk' = Removing(walk, order[p])

CollectionStep ==
  \/ UNCHANGED <<order, walk>>
  \/ Walk(order) /\ UNCHANGED order
  \/ \E n \in Names : Inserted(n)
  \/ \E p \in DOMAIN order : Removed(p)

(* Another role exists, or one does no longer. *)
LEMMA OrderAfter ==
  ASSUME Shape, OrderTells, NEW n \in Names, NEW v \in {None} \union SUBSET Permissions,
         roles' = [roles EXCEPT ![n] = v]
  PROVE  /\ Exists(n) <=> n \in Range(order)
         /\ v # None /\ Exists(n) /\ order' = order => OrderTells'
         /\ v # None /\ ~Exists(n) /\ order' = Append(order, n) => OrderTells'
         /\ v = None /\ (\E p \in DOMAIN order : order[p] = n /\ order' = RemoveAt(order, p))
              => OrderTells'
<1>1. /\ roles'[n] = v /\ \A m \in Names \ {n} : roles'[m] = roles[m]
      /\ order \in Seq(Names) /\ IsInjective(order) /\ Range(order) = {m \in Names : Exists(m)}
  BY DEF Shape, OrderTells
<1>2. CASE v # None /\ Exists(n) /\ order' = order
  BY <1>1, <1>2 DEF OrderTells, Exists
<1>3. CASE v # None /\ ~Exists(n) /\ order' = Append(order, n)
  <2>1. n \in Names \ Range(order)
    BY <1>1, <1>3
  <2>2. order' \in Seq(Names) /\ IsInjective(order') /\ Range(order') = Range(order) \union {n}
    BY <1>1, <1>3, <2>1, AfterInsertion
  <2>3. {m \in Names : Exists(m)'} = {m \in Names : Exists(m)} \union {n}
    BY <1>1, <1>3 DEF Exists
  <2> QED
    BY <1>1, <2>2, <2>3 DEF OrderTells
<1>4. ASSUME v = None, NEW p \in DOMAIN order, order[p] = n, order' = RemoveAt(order, p)
      PROVE  OrderTells'
  <2>1. order' \in Seq(Names) /\ IsInjective(order') /\ Range(order') = Range(order) \ {n}
    BY <1>1, <1>4, AfterRemoval
  <2>2. {m \in Names : Exists(m)'} = {m \in Names : Exists(m)} \ {n}
    BY <1>1, <1>4 DEF Exists
  <2> QED
    BY <1>1, <2>1, <2>2 DEF OrderTells
<1> QED
  BY <1>1, <1>2, <1>3, <1>4

LEMMA CollectionNext ==
  ASSUME SeedInv, OrderTells, [Next]_vars
  PROVE  OrderTells' /\ CollectionStep
<1>1. Shape
  BY DEF SeedInv
<1>2. UNCHANGED <<roles, order>> => OrderTells'
  BY DEF OrderTells, Exists
<1>3. ASSUME NEW i \in Instances, Starting(i) PROVE OrderTells' /\ CollectionStep
  <2>1. CASE CreateSeedRole(i)
    <3> DEFINE n == Seeds[inst[i].next]
    <3>1. n \in Names /\ SeedOf(n, inst[i].read) \in SUBSET Permissions
      <4>1. inst[i].next \in {1, 2} /\ inst[i].read = Permissions
        BY <2>1 DEF CreateSeedRole, At, SeedInv, StartTells
      <4> QED
        BY <4>1, SeedNames
    <3>2. CASE Exists(n)
      BY <1>2, <2>1, <3>2 DEF CreateSeedRole, CollectionStep
    <3>3. CASE ~Exists(n)
      <4>1. /\ roles' = [roles EXCEPT ![n] = SeedOf(n, inst[i].read)]
            /\ order' = Append(order, n) /\ walk' = Inserting(walk, n)
        BY <2>1, <3>3 DEF CreateSeedRole
      <4>2. PICK v \in {None} \union SUBSET Permissions :
              v = SeedOf(n, inst[i].read) /\ v # None
        BY <3>1, SeedNames
      <4> HIDE DEF n
      <4>3. OrderTells' /\ n \notin Range(order)
        BY <1>1, <3>1, <3>3, <4>1, <4>2, OrderAfter
      <4> QED
        BY <3>1, <4>1, <4>3 DEF CollectionStep, Inserted
    <3> QED
      BY <3>2, <3>3
  <2>2. CASE UpdateSeedRole(i)
    <3> DEFINE n == Seeds[inst[i].next]
    <3>1. n \in Names /\ SeedOf(n, inst[i].read) \in SUBSET Permissions
      <4>1. inst[i].next \in {1, 2} /\ inst[i].read = Permissions
        BY <2>2 DEF UpdateSeedRole, At, SeedInv, StartTells
      <4> QED
        BY <4>1, SeedNames
    <3>2. /\ UNCHANGED <<order, walk>>
          /\ roles' = [roles EXCEPT ![n] = IF Exists(n) THEN SeedOf(n, inst[i].read) ELSE @]
      BY <2>2 DEF UpdateSeedRole
    <3>3. CASE Exists(n)
      <4>1. PICK v \in {None} \union SUBSET Permissions :
              v = SeedOf(n, inst[i].read) /\ v # None
        BY <3>1, SeedNames
      <4> HIDE DEF n
      <4>2. roles' = [roles EXCEPT ![n] = v]
        BY <3>2, <3>3, <4>1
      <4>3. OrderTells'
        BY <1>1, <3>1, <3>2, <3>3, <4>1, <4>2, OrderAfter
      <4> QED
        BY <3>2, <4>3 DEF CollectionStep
    <3>4. CASE ~Exists(n)
      <4>1. roles' = roles
        BY <1>1, <3>2, <3>4 DEF Shape
      <4> QED
        BY <1>2, <3>2, <4>1 DEF CollectionStep
    <3> QED
      BY <3>3, <3>4
  <2>3. CASE ~CreateSeedRole(i) /\ ~UpdateSeedRole(i)
    <3>1. UNCHANGED <<roles, order, walk>>
      BY <1>3, <2>3 DEF Starting, Start, FindPermission, CreatePermission, ReadPermissions,
                        FindRole, FindAdmin, CreateAdmin, AssignAdmin
    <3> QED
      BY <1>2, <3>1 DEF CollectionStep
  <2> QED
    BY <2>1, <2>2, <2>3
<1>4. ASSUME NEW n \in Custom, NEW asked \in SUBSET Permissions, CreateRole(n, asked)
      PROVE  OrderTells' /\ CollectionStep
  <2>1. n \in Names /\ asked # None /\ asked \in {None} \union SUBSET Permissions
    BY SeedNames DEF Names
  <2>2. /\ ~Exists(n) /\ roles' = [roles EXCEPT ![n] = asked]
        /\ order' = Append(order, n) /\ walk' = Inserting(walk, n)
    BY <1>4 DEF CreateRole
  <2>3. OrderTells' /\ n \notin Range(order)
    BY <1>1, <2>1, <2>2, OrderAfter
  <2> QED
    BY <2>1, <2>2, <2>3 DEF CollectionStep, Inserted
<1>5. ASSUME NEW n \in Names, NEW asked \in SUBSET Permissions, UpdateRole(n, asked)
      PROVE  OrderTells' /\ CollectionStep
  <2>1. PICK page \in FirstPages(asked \intersect permissions) :
          roles' = [roles EXCEPT ![n] = page]
    BY <1>5 DEF UpdateRole
  <2>2. page \in {None} \union SUBSET Permissions /\ page # None
    BY <2>1, SeedNames DEF FirstPages
  <2>3. Exists(n) /\ UNCHANGED <<order, walk>>
    BY <1>5 DEF UpdateRole
  <2>4. OrderTells'
    BY <1>1, <2>1, <2>2, <2>3, OrderAfter
  <2> QED
    BY <2>3, <2>4 DEF CollectionStep
<1>6. ASSUME NEW n \in Names, DeleteRole(n) PROVE OrderTells' /\ CollectionStep
  <2> DEFINE p == CHOOSE i \in DOMAIN order : order[i] = n
  <2>1. /\ Exists(n) /\ roles' = [roles EXCEPT ![n] = None]
        /\ order' = RemoveAt(order, p) /\ walk' = Removing(walk, n)
    BY <1>6 DEF DeleteRole
  <2>2. p \in DOMAIN order /\ order[p] = n
    <3>1. n \in Range(order)
      BY <2>1 DEF OrderTells
    <3>2. \E i \in DOMAIN order : order[i] = n
      BY <3>1 DEF Range
    <3> QED
      BY <3>2
  <2> HIDE DEF p
  <2>3. OrderTells'
    BY <1>1, <2>1, <2>2, OrderAfter
  <2> QED
    BY <2>1, <2>2, <2>3 DEF CollectionStep, Removed
<1>7. ASSUME NEW ns \in SUBSET Names, Assign(ns) PROVE OrderTells' /\ CollectionStep
  BY <1>2, <1>7 DEF Assign, CollectionStep
<1>8. CASE RoleOperation
  <2>1. \A p \in Permissions : {p} \in SUBSET Permissions
    OBVIOUS
  <2> QED
    BY <1>4, <1>5, <1>6, <1>7, <1>8, <2>1 DEF RoleOperation
<1>9. CASE List
  BY <1>2, <1>9 DEF List, CollectionStep
<1>10. CASE Guard \/ (\E i \in Instances : Crash(i)) \/ UNCHANGED vars
  <2>1. UNCHANGED <<roles, order, walk>>
    BY <1>10 DEF Guard, Arrive, ReadRoles, ReadPermitted, CheckFails, NotChecking, Crash, vars
  <2> QED
    BY <1>2, <2>1 DEF CollectionStep
<1> QED
  BY <1>3, <1>8, <1>9, <1>10 DEF Next


------------------------------------------------------------------------------
(* The steps of the client and of the server that answers it. *)

LEMMA WalkFacts ==
  ASSUME OrderTells, WalkShape
  PROVE  /\ order \in Seq(Names) /\ IsInjective(order)
         /\ walk.limit \in Nat /\ walk.page \in Nat \ {0}
         /\ walk.total \in Nat \union {NotAsked} /\ walk.found \in BOOLEAN
         /\ walk.items \subseteq Documents /\ walk.times \in [Documents -> Nat]
         /\ walk.stayed \subseteq Documents /\ NotAsked \notin Nat /\ Documents = Names
         /\ walk.limit # 0 =>
              /\ Read \in Nat /\ ReadNext = Read + walk.limit /\ PerPage(walk.limit) = walk.limit
              /\ CurrentPage(walk.page, walk.limit) = walk.page
         /\ \A d \in Range(order) : PlaceOf(d) \in Nat
<1>1. order \in Seq(Names) /\ IsInjective(order)
  BY DEF OrderTells
<1>2. /\ walk.limit \in Nat /\ walk.page \in Nat \ {0}
      /\ walk.total \in Nat \union {NotAsked} /\ walk.found \in BOOLEAN
      /\ walk.items \subseteq Documents /\ walk.times \in [Documents -> Nat]
      /\ walk.stayed \subseteq Documents
  BY DEF WalkShape, Walks
<1>3. NotAsked \notin Nat
  BY DEF NotAsked
<1>4. walk.limit # 0 =>
        /\ Read \in Nat /\ ReadNext = Read + walk.limit /\ PerPage(walk.limit) = walk.limit
        /\ CurrentPage(walk.page, walk.limit) = walk.page
  BY <1>2, Pages DEF Read, ReadNext
<1>5. \A d \in Range(order) : PlaceOf(d) \in Nat
  BY <1>1, PlaceBounds DEF PlaceOf
<1> QED
  BY <1>1, <1>2, <1>3, <1>4, <1>5, DocumentsAre

LEMMA NoWalkIsWalk == NoWalk \in Walks
<1>1. [d \in Documents |-> 0] \in [Documents -> Nat]
  OBVIOUS
<1> DEFINE none == [d \in Documents |-> 0]
<1>2. NoWalk.times = none
  BY DEF NoWalk
<1> HIDE DEF none
<1> QED
  BY <1>1 DEF NoWalk, Walks

LEMMA StartWalkStep ==
  ASSUME ListInv, OrderTells, StartWalk(order), order' = order
  PROVE  ListInv'
<1>1. PICK q \in Queries, limit \in Limits :
        walk' = [NoWalk EXCEPT !.at = IF Throws(q) THEN "refused" ELSE "asking",
                               !.query = q, !.limit = limit, !.stayed = Range(order)]
  BY DEF StartWalk
<1>2. /\ order \in Seq(Names) /\ Documents = Names /\ limit \in Nat /\ NotAsked \notin Nat
      /\ Range(order) \subseteq Documents
  BY DocumentsAre, RangeIs DEF OrderTells, NotAsked
<1>3. /\ walk'.at \in {"asking", "refused"} /\ (walk'.at = "asking" => ~Throws(q))
      /\ walk'.query = q /\ walk'.limit = limit
      /\ walk'.page = 1 /\ walk'.total = NotAsked /\ walk'.found = FALSE /\ walk'.items = {}
      /\ walk'.times = [d \in Documents |-> 0] /\ walk'.stayed = Range(order)
      /\ walk'.removed = {} /\ walk'.inserted = {} /\ walk'.torn = FALSE
  BY <1>1 DEF NoWalk
<1>4. walk' \in Walks
  <2>1. NoWalk \in Walks
    BY NoWalkIsWalk
  <2> QED
    BY <1>1, <1>2, <2>1 DEF Walks
<1>5. WalkShape'
  BY <1>3, <1>4 DEF WalkShape, Shown
<1>6. MissTells'
  <2>1. ASSUME limit # 0, NEW d \in Range(order), Matches(q, d)
        PROVE  ~(Place(order, q, d) <= Skip(1, limit))
    <3>1. Place(order, q, d) \in Nat /\ Place(order, q, d) >= 1
      BY <1>2, <2>1, PlaceBounds
    <3>2. Skip(1, limit) = 0
      BY <1>2, <2>1, Pages
    <3> QED
      BY <3>1, <3>2
  <2> QED
    BY <1>3, <2>1 DEF MissTells, Staying, PlaceOf, Read
<1>7. RepeatTells'
  BY <1>3 DEF RepeatTells
<1> QED
  BY <1>5, <1>6, <1>7 DEF ListInv

LEMMA CountStep ==
  ASSUME ListInv, OrderTells, CountDocuments(order), order' = order
  PROVE  ListInv'
<1>1. /\ walk.at = "asking" /\ walk.total = NotAsked
      /\ walk' = [walk EXCEPT !.total = Cardinality(Selected(order, walk.query))]
  BY DEF CountDocuments
<1>2. /\ WalkShape /\ walk \in Walks /\ order \in Seq(Names)
      /\ Cardinality(Selected(order, walk.query)) \in Nat
  <2>1. order \in Seq(Names) /\ WalkShape
    BY DEF ListInv, OrderTells
  <2>2. IsFiniteSet(Selected(order, walk.query))
    <3>1. Selected(order, walk.query) \subseteq Range(order) /\ IsFiniteSet(Range(order))
      BY <2>1, RangeIs DEF Selected
    <3> QED
      BY <3>1, FS_Subset
  <2> QED
    BY <2>1, <2>2, FS_CardinalityType DEF WalkShape
<1>3. walk' \in Walks
  BY <1>1, <1>2 DEF Walks
<1>4. /\ walk'.total = Cardinality(Selected(order, walk.query))
      /\ walk'.at = walk.at /\ walk'.query = walk.query /\ walk'.limit = walk.limit
      /\ walk'.page = walk.page /\ walk'.found = walk.found /\ walk'.items = walk.items
      /\ walk'.times = walk.times /\ walk'.stayed = walk.stayed
      /\ walk'.removed = walk.removed /\ walk'.inserted = walk.inserted
      /\ walk'.torn = walk.torn
  BY <1>1, <1>2 DEF Walks
<1>5. WalkShape'
  BY <1>2, <1>3, <1>4 DEF WalkShape, Shown
<1>6. RepeatTells'
  BY <1>4 DEF RepeatTells, ListInv, PlaceOf, Read, ReadNext
<1>7. MissTells'
  <2> SUFFICES ASSUME walk.limit # 0, walk.removed = {}, ~(Arranged(walk.query) /\ walk.torn)
               PROVE  /\ Staying \subseteq Range(order)
                      /\ \A d \in Staying : PlaceOf(d) <= Read => walk.times[d] > 0
                      /\ walk.found => \A d \in Staying : PlaceOf(d) <= ReadNext => Shown(d)
                      /\ \A d \in Staying : PlaceOf(d) <= walk'.total
                      /\ walk.found /\ walk'.total <= ReadNext => \A d \in Staying : Shown(d)
    BY <1>1, <1>4 DEF MissTells, Staying, PlaceOf, Read, ReadNext, Shown
  <2>1. /\ Staying \subseteq Range(order)
        /\ \A d \in Staying : PlaceOf(d) <= Read => walk.times[d] > 0
        /\ walk.found => \A d \in Staying : PlaceOf(d) <= ReadNext => Shown(d)
    BY <1>1 DEF ListInv, MissTells
  <2>2. \A d \in Staying : PlaceOf(d) <= walk'.total
    BY <1>2, <1>4, <2>1, PlaceBounds DEF PlaceOf
  <2>3. walk.found /\ walk'.total <= ReadNext => \A d \in Staying : Shown(d)
    <3>1. \A d \in Staying : PlaceOf(d) \in Nat
      BY <2>1, WalkFacts, <1>2
    <3>2. walk'.total \in Nat /\ ReadNext \in Nat
      BY <1>2, <1>4, WalkFacts
    <3> QED
      BY <2>1, <2>2, <3>1, <3>2
  <2> QED
    BY <2>1, <2>2, <2>3
<1> QED
  BY <1>5, <1>6, <1>7 DEF ListInv

LEMMA FindStep ==
  ASSUME ListInv, OrderTells, FindDocuments(order), order' = order
  PROVE  ListInv'
<1> DEFINE items == Page(order, walk.query, walk.page, walk.limit)
<1>1. /\ walk.at = "asking" /\ walk.found = FALSE /\ walk \in Walks /\ WalkShape
      /\ walk' = [walk EXCEPT !.found = TRUE, !.items = items]
  BY DEF FindDocuments, ListInv, WalkShape, Walks
<1>2. /\ items \subseteq Range(order) /\ items \subseteq Documents
      /\ \A d \in items : Matches(walk.query, d)
      /\ walk.limit # 0 =>
           /\ \A d \in items : ~(PlaceOf(d) <= Read) /\ PlaceOf(d) <= ReadNext
           /\ \A d \in Range(order) :
                Matches(walk.query, d) /\ PlaceOf(d) <= ReadNext => PlaceOf(d) <= Read \/ d \in items
  <2>1. \A d : d \in items <=>
          /\ d \in Range(order) /\ Matches(walk.query, d)
          /\ PlaceOf(d) \in (Read + 1)..(Read + PerPage(walk.limit))
    BY DEF Page, Selected, PlaceOf, Read
  <2>2. Range(order) \subseteq Documents
    BY WalkFacts, <1>1, RangeIs
  <2>3. ASSUME walk.limit # 0, NEW d \in Range(order)
        PROVE  PlaceOf(d) \in (Read + 1)..(Read + PerPage(walk.limit))
                 <=> ~(PlaceOf(d) <= Read) /\ PlaceOf(d) <= ReadNext
    <3>1. PlaceOf(d) \in Nat /\ Read \in Nat /\ ReadNext = Read + PerPage(walk.limit)
          /\ PerPage(walk.limit) \in Nat
      BY <1>1, <2>3, WalkFacts
    <3> QED
      BY <3>1
  <2> HIDE DEF items
  <2> QED
    BY <2>1, <2>2, <2>3
<1> HIDE DEF items
<1>3. walk' \in Walks
  BY <1>1, <1>2 DEF Walks
<1>4. /\ walk'.found = TRUE /\ walk'.items = items
      /\ walk'.at = walk.at /\ walk'.query = walk.query /\ walk'.limit = walk.limit
      /\ walk'.page = walk.page /\ walk'.total = walk.total
      /\ walk'.times = walk.times /\ walk'.stayed = walk.stayed
      /\ walk'.removed = walk.removed /\ walk'.inserted = walk.inserted
      /\ walk'.torn = walk.torn
  BY <1>1 DEF Walks
<1>5. WalkShape'
  BY <1>1, <1>2, <1>3, <1>4 DEF WalkShape, Shown
<1>6. RepeatTells'
  <2> SUFFICES ASSUME walk.limit # 0, ~(Arranged(walk.query) /\ walk.inserted # {}),
                      NEW d \in Documents \ (walk.removed \intersect walk.inserted)
               PROVE  /\ walk.times[d] <= 1
                      /\ walk.times[d] = 1 /\ d \in Range(order) => PlaceOf(d) <= Read
                      /\ d \in items =>
                           walk.times[d] = 0 /\ (d \in Range(order) => PlaceOf(d) <= ReadNext)
    BY <1>4 DEF RepeatTells, PlaceOf, Read, ReadNext
  <2>1. /\ walk.times[d] <= 1
        /\ walk.times[d] = 1 /\ d \in Range(order) => PlaceOf(d) <= Read
    BY <1>1 DEF ListInv, RepeatTells
  <2>2. walk.times[d] \in Nat
    BY <1>1 DEF Walks
  <2> QED
    BY <1>2, <2>1, <2>2
<1>7. MissTells'
  <2> SUFFICES ASSUME walk.limit # 0, walk.removed = {}, ~(Arranged(walk.query) /\ walk.torn)
               PROVE  /\ Staying \subseteq Range(order)
                      /\ \A d \in Staying : PlaceOf(d) <= Read => walk.times[d] > 0
                      /\ \A d \in Staying : PlaceOf(d) <= ReadNext =>
                           walk.times[d] > 0 \/ d \in items
                      /\ walk.total # NotAsked /\ walk.total <= ReadNext =>
                           \A d \in Staying : walk.times[d] > 0 \/ d \in items
    BY <1>1, <1>4 DEF MissTells, Staying, PlaceOf, Read, ReadNext, Shown
  <2>1. /\ Staying \subseteq Range(order)
        /\ \A d \in Staying : PlaceOf(d) <= Read => walk.times[d] > 0
        /\ walk.total # NotAsked => \A d \in Staying : PlaceOf(d) <= walk.total
    BY <1>1 DEF ListInv, MissTells
  <2>2. \A d \in Staying : PlaceOf(d) <= ReadNext => walk.times[d] > 0 \/ d \in items
    BY <1>2, <2>1 DEF Staying
  <2>3. walk.total # NotAsked /\ walk.total <= ReadNext =>
          \A d \in Staying : walk.times[d] > 0 \/ d \in items
    <3>1. \A d \in Staying : PlaceOf(d) \in Nat
      BY <1>1, <2>1, WalkFacts
    <3>2. (walk.total # NotAsked => walk.total \in Nat) /\ ReadNext \in Nat
      BY <1>1, WalkFacts
    <3> QED
      BY <2>1, <2>2, <3>1, <3>2
  <2> QED
    BY <2>1, <2>2, <2>3
<1> QED
  BY <1>5, <1>6, <1>7 DEF ListInv

LEMMA AnswerStep ==
  ASSUME ListInv, OrderTells, AnswerPage, order' = order
  PROVE  ListInv'
<1> DEFINE seen == [d \in Documents |-> IF d \in walk.items /\ walk.times[d] < 2
                                        THEN walk.times[d] + 1 ELSE walk.times[d]]
           current == CurrentPage(walk.page, walk.limit)
           at == IF HasNext THEN "asking" ELSE "done"
           page == IF HasNext THEN current + 1 ELSE walk.page
<1>1. /\ walk.at = "asking" /\ walk.total # NotAsked /\ walk.found /\ walk \in Walks /\ WalkShape
      /\ walk' = [walk EXCEPT !.times = seen, !.total = NotAsked, !.found = FALSE, !.items = {},
                              !.at = at, !.page = page]
  BY DEF AnswerPage, ListInv, WalkShape
<1>2. /\ seen \in [Documents -> Nat]
      /\ \A d \in Documents :
           /\ seen[d] > 0 <=> Shown(d)
           /\ seen[d] = IF d \in walk.items /\ walk.times[d] < 2
                        THEN walk.times[d] + 1 ELSE walk.times[d]
  <2>1. walk.times \in [Documents -> Nat]
    BY <1>1, WalkFacts
  <2>2. ASSUME NEW d \in Documents
        PROVE  LET s == IF d \in walk.items /\ walk.times[d] < 2
                        THEN walk.times[d] + 1 ELSE walk.times[d]
               IN  s \in Nat /\ (s > 0 <=> Shown(d))
    <3>1. walk.times[d] \in Nat
      BY <2>1
    <3> QED
      BY <3>1 DEF Shown
  <2> QED
    BY <2>2
<1> HIDE DEF seen
<1>3. current \in Nat /\ page \in Nat \ {0} /\ at \in {"asking", "done"}
  <2>1. CASE walk.limit # 0
    BY <1>1, <2>1, WalkFacts
  <2>2. CASE walk.limit = 0
    <3>1. walk.page \in Nat \ {0} /\ DefaultLimit \in Nat \ {0}
      BY <1>1, WalkFacts, DocumentsAre
    <3>2. Skip(walk.page, walk.limit) = 0 /\ PerPage(walk.limit) = DefaultLimit
      BY <2>2, <3>1 DEF Skip, PerPage
    <3>3. 0 \div DefaultLimit = 0
      BY <3>1
    <3>4. current = 1
      BY <3>2, <3>3 DEF CurrentPage
    <3> HIDE DEF current
    <3> QED
      BY <3>1, <3>4
  <2> QED
    BY <2>1, <2>2
<1>4. walk.limit # 0 =>
        /\ Read \in Nat /\ ReadNext \in Nat /\ Read <= ReadNext
        /\ HasNext => page = walk.page + 1
        /\ ~HasNext => walk.total <= ReadNext
  <2> SUFFICES ASSUME walk.limit # 0
               PROVE  /\ Read \in Nat /\ ReadNext \in Nat /\ Read <= ReadNext
                      /\ HasNext => page = walk.page + 1
                      /\ ~HasNext => walk.total <= ReadNext
    OBVIOUS
  <2>1. /\ walk.page \in Nat \ {0} /\ walk.limit \in Nat \ {0} /\ walk.total \in Nat
        /\ Read \in Nat /\ ReadNext = Read + walk.limit /\ current = walk.page
    BY <1>1, WalkFacts
  <2>2. HasNext <=> ReadNext < walk.total
    <3>1. /\ walk.page < TotalPages(walk.total, walk.limit) <=> ReadNext < walk.total
          /\ CurrentPage(walk.page, walk.limit) = walk.page
      <4> DEFINE p == walk.page
                 l == walk.limit
                 t == walk.total
      <4>1. p \in Nat \ {0} /\ l \in Nat \ {0} /\ t \in Nat
        BY <2>1
      <4> HIDE DEF p, l, t
      <4>2. /\ p < TotalPages(t, l) <=> Skip(p + 1, l) < t
            /\ CurrentPage(p, l) = p
        BY <4>1, Pages
      <4> QED
        BY <4>2 DEF p, l, t, ReadNext
    <3> QED
      BY <3>1 DEF HasNext
  <2> HIDE DEF current
  <2> QED
    BY <2>1, <2>2
<1>5. HasNext <=> at = "asking"
  OBVIOUS
<1> HIDE DEF at, page, current
<1>6. walk' \in Walks
  BY <1>1, <1>2, <1>3 DEF Walks
<1>7. /\ walk'.at = at /\ walk'.page = page /\ walk'.times = seen
      /\ walk'.total = NotAsked /\ walk'.found = FALSE /\ walk'.items = {}
      /\ walk'.query = walk.query /\ walk'.limit = walk.limit
      /\ walk'.stayed = walk.stayed /\ walk'.removed = walk.removed
      /\ walk'.inserted = walk.inserted /\ walk'.torn = walk.torn
  BY <1>1 DEF Walks
<1>8. WalkShape'
  <2>1. \A d \in Documents : Shown(d)' => Shown(d)
    BY <1>2, <1>7 DEF Shown
  <2> QED
    BY <1>1, <1>3, <1>6, <1>7, <2>1 DEF WalkShape
<1>9. \A d \in Range(order) : PlaceOf(d) \in Nat
  BY <1>1, WalkFacts
<1>10. MissTells'
  <2> SUFFICES ASSUME walk.limit # 0, walk.removed = {}, ~(Arranged(walk.query) /\ walk.torn)
               PROVE  /\ at = "asking" =>
                           /\ Staying \subseteq Range(order)
                           /\ \A d \in Staying : PlaceOf(d) <= Skip(page, walk.limit) => seen[d] > 0
                      /\ at = "done" => \A d \in Staying : seen[d] > 0
    BY <1>7 DEF MissTells, Staying, PlaceOf, Read
  <2>1. /\ Staying \subseteq Range(order) /\ Staying \subseteq Documents
        /\ \A d \in Staying : PlaceOf(d) <= ReadNext => Shown(d)
        /\ walk.total <= ReadNext => \A d \in Staying : Shown(d)
    BY <1>1, WalkFacts DEF ListInv, MissTells, Staying
  <2>2. HasNext => Skip(page, walk.limit) = ReadNext
    BY <1>4 DEF ReadNext
  <2> QED
    BY <1>2, <1>3, <1>4, <1>5, <2>1, <2>2
<1>11. RepeatTells'
  <2> SUFFICES ASSUME walk.limit # 0, ~(Arranged(walk.query) /\ walk.inserted # {}),
                      NEW d \in Documents \ (walk.removed \intersect walk.inserted)
               PROVE  /\ seen[d] <= 1
                      /\ at = "asking" /\ d \in Range(order) /\ seen[d] = 1 =>
                           PlaceOf(d) <= Skip(page, walk.limit)
    BY <1>7 DEF RepeatTells, PlaceOf, Read
  <2>1. /\ walk.times[d] <= 1
        /\ walk.times[d] = 1 /\ d \in Range(order) => PlaceOf(d) <= Read
        /\ d \in walk.items =>
             walk.times[d] = 0 /\ (d \in Range(order) => PlaceOf(d) <= ReadNext)
    BY <1>1 DEF ListInv, RepeatTells
  <2>2. walk.times[d] \in Nat
    BY <1>1, WalkFacts
  <2>3. HasNext => Skip(page, walk.limit) = ReadNext
    BY <1>4 DEF ReadNext
  <2>4. seen[d] <= 1
    BY <1>2, <2>1, <2>2
  <2>5. ASSUME HasNext, d \in Range(order), seen[d] = 1 PROVE PlaceOf(d) <= ReadNext
    <3>1. walk.times[d] = 1 \/ d \in walk.items
      BY <1>2, <2>2, <2>5
    <3> QED
      BY <1>4, <1>9, <2>1, <2>5, <3>1
  <2> QED
    BY <1>5, <2>3, <2>4, <2>5
<1> QED
  BY <1>8, <1>10, <1>11 DEF ListInv

(* Steps of the roles while the client waits, or thinks. *)

LEMMA InsertStep ==
  ASSUME ListInv, OrderTells, NEW n \in Names, Inserted(n)
  PROVE  ListInv'
<1>1. /\ n \in Names \ Range(order) /\ order' = Append(order, n) /\ walk' = Inserting(walk, n)
      /\ order \in Seq(Names) /\ IsInjective(order)
      /\ walk \in Walks /\ WalkShape /\ MissTells /\ RepeatTells
  BY DEF Inserted, OrderTells, ListInv, WalkShape
<1>2. /\ Range(order') = Range(order) \union {n}
      /\ \A d \in Range(order) :
           /\ Place(order, walk.query, d) <= Place(order', walk.query, d)
           /\ ~Arranged(walk.query) \/ ~Matches(walk.query, n) =>
                Place(order, walk.query, d) = Place(order', walk.query, d)
  BY <1>1, AfterInsertion
<1>3. CASE walk.at # "asking" \/ ~Matches(walk.query, n)
  <2>1. walk' = walk
    BY <1>1, <1>3 DEF Inserting
  <2>2. CASE walk.at # "asking"
    <3>1. WalkShape'
      BY <1>1, <2>1, <2>2 DEF WalkShape, Shown
    <3>2. MissTells' /\ RepeatTells'
      BY <1>1, <2>1, <2>2 DEF MissTells, RepeatTells, Staying
    <3> QED
      BY <3>1, <3>2 DEF ListInv
  <2>3. CASE ~Matches(walk.query, n)
    <3>1. WalkShape'
      BY <1>1, <1>2, <2>1 DEF WalkShape, Shown
    <3>2. /\ ~Shown(n) /\ n \notin walk.items
          /\ \A d \in Range(order) : PlaceOf(d)' = PlaceOf(d)
      <4>1. n \in Documents
        BY <1>1, DocumentsAre
      <4> QED
        BY <1>1, <1>2, <2>1, <2>3, <4>1 DEF WalkShape, Shown, PlaceOf
    <3>3. MissTells'
      <4> SUFFICES ASSUME walk.limit # 0, walk.removed = {}, ~(Arranged(walk.query) /\ walk.torn),
                          walk.at = "asking"
                   PROVE  /\ Staying \subseteq Range(order')
                          /\ \A d \in Staying : PlaceOf(d)' <= Read => walk.times[d] > 0
                          /\ walk.found => \A d \in Staying : PlaceOf(d)' <= ReadNext => Shown(d)
                          /\ walk.total # NotAsked /\ ~walk.found =>
                               \A d \in Staying : PlaceOf(d)' <= walk.total
                          /\ walk.total # NotAsked /\ walk.found /\ walk.total <= ReadNext =>
                               \A d \in Staying : Shown(d)
        BY <1>1, <2>1 DEF MissTells, Staying, Read, ReadNext, Shown
      <4> QED
        BY <1>1, <1>2, <3>2 DEF MissTells
    <3>4. RepeatTells'
      <4> SUFFICES ASSUME walk.limit # 0, ~(Arranged(walk.query) /\ walk.inserted # {}),
                          walk.at = "asking",
                          NEW d \in Documents \ (walk.removed \intersect walk.inserted)
                   PROVE  /\ walk.times[d] = 1 /\ d \in Range(order') => PlaceOf(d)' <= Read
                          /\ d \in walk.items =>
                               walk.times[d] = 0 /\ (d \in Range(order') => PlaceOf(d)' <= ReadNext)
        BY <1>1, <2>1 DEF RepeatTells, Read, ReadNext
      <4>1. walk.times[d] = 1 => Shown(d)
        BY DEF Shown
      <4> QED
        BY <1>1, <1>2, <3>2, <4>1 DEF RepeatTells
    <3> QED
      BY <3>1, <3>3, <3>4 DEF ListInv
  <2> QED
    BY <1>3, <2>2, <2>3
<1>4. CASE walk.at = "asking" /\ Matches(walk.query, n)
  <2>1. walk' = [walk EXCEPT !.inserted = @ \union {n},
                             !.torn = @ \/ (walk.total # NotAsked /\ ~walk.found)]
    BY <1>1, <1>4 DEF Inserting
  <2>2. walk' \in Walks
    <3> DEFINE inserted == walk.inserted \union {n}
               torn == walk.torn \/ (walk.total # NotAsked /\ ~walk.found)
    <3>1. inserted \in SUBSET Documents /\ torn \in BOOLEAN
      BY <1>1, DocumentsAre DEF Walks
    <3>2. walk' = [walk EXCEPT !.inserted = inserted, !.torn = torn]
      BY <2>1
    <3> HIDE DEF inserted, torn
    <3> QED
      BY <1>1, <3>1, <3>2 DEF Walks
  <2>3. /\ walk'.inserted = walk.inserted \union {n}
        /\ walk'.torn = (walk.torn \/ (walk.total # NotAsked /\ ~walk.found))
        /\ walk'.at = walk.at /\ walk'.query = walk.query /\ walk'.limit = walk.limit
        /\ walk'.page = walk.page /\ walk'.total = walk.total /\ walk'.found = walk.found
        /\ walk'.items = walk.items /\ walk'.times = walk.times
        /\ walk'.stayed = walk.stayed /\ walk'.removed = walk.removed
    BY <1>1, <2>1 DEF Walks
  <2>4. WalkShape'
    BY <1>1, <1>2, <2>2, <2>3 DEF WalkShape, Shown
  <2>5. /\ \A d \in Range(order) : PlaceOf(d) \in Nat /\ PlaceOf(d)' \in Nat
        /\ \A d \in Range(order) : PlaceOf(d) <= PlaceOf(d)'
        /\ ~Arranged(walk.query) => \A d \in Range(order) : PlaceOf(d)' = PlaceOf(d)
    <3>1. order' \in Seq(Names) /\ Range(order) \subseteq Range(order')
      BY <1>1, AfterInsertion
    <3> QED
      BY <1>1, <1>2, <2>3, <3>1, PlaceBounds DEF PlaceOf
  <2>6. walk.limit # 0 => Read \in Nat /\ ReadNext \in Nat
    BY <1>1, WalkFacts
  <2>7. MissTells'
    <3> SUFFICES ASSUME walk.limit # 0, walk.removed = {},
                        ~(Arranged(walk.query)
                            /\ (walk.torn \/ (walk.total # NotAsked /\ ~walk.found)))
                 PROVE  /\ Staying \subseteq Range(order')
                        /\ \A d \in Staying : PlaceOf(d)' <= Read => walk.times[d] > 0
                        /\ walk.found => \A d \in Staying : PlaceOf(d)' <= ReadNext => Shown(d)
                        /\ walk.total # NotAsked /\ ~walk.found =>
                             \A d \in Staying : PlaceOf(d)' <= walk.total
                        /\ walk.total # NotAsked /\ walk.found /\ walk.total <= ReadNext =>
                             \A d \in Staying : Shown(d)
      BY <1>4, <2>3 DEF MissTells, Staying, Read, ReadNext, Shown
    <3>1. /\ Staying \subseteq Range(order)
          /\ \A d \in Staying : PlaceOf(d) <= Read => walk.times[d] > 0
          /\ walk.found => \A d \in Staying : PlaceOf(d) <= ReadNext => Shown(d)
          /\ walk.total # NotAsked /\ ~walk.found => \A d \in Staying : PlaceOf(d) <= walk.total
          /\ walk.total # NotAsked /\ walk.found /\ walk.total <= ReadNext =>
               \A d \in Staying : Shown(d)
      BY <1>1, <1>4 DEF MissTells
    <3>2. /\ \A d \in Staying : PlaceOf(d)' <= Read => PlaceOf(d) <= Read
          /\ \A d \in Staying : PlaceOf(d)' <= ReadNext => PlaceOf(d) <= ReadNext
      BY <2>5, <2>6, <3>1
    <3> QED
      BY <1>2, <2>5, <3>1, <3>2
  <2>8. RepeatTells'
    <3> SUFFICES ASSUME walk.limit # 0, ~Arranged(walk.query),
                        NEW d \in Documents \ (walk.removed \intersect (walk.inserted \union {n}))
                 PROVE  /\ walk.times[d] <= 1
                        /\ walk.times[d] = 1 /\ d \in Range(order') => PlaceOf(d)' <= Read
                        /\ d \in walk.items =>
                             walk.times[d] = 0 /\ (d \in Range(order') => PlaceOf(d)' <= ReadNext)
      BY <1>4, <2>3 DEF RepeatTells, Read, ReadNext
    <3>1. /\ walk.times[d] <= 1
          /\ walk.times[d] = 1 /\ d \in Range(order) => PlaceOf(d) <= Read
          /\ d \in walk.items =>
               walk.times[d] = 0 /\ (d \in Range(order) => PlaceOf(d) <= ReadNext)
      BY <1>1, <1>4 DEF RepeatTells
    <3>2. d = n => ~Shown(d)
      BY <1>1, <1>4 DEF WalkShape
    <3>3. ~Shown(d) => walk.times[d] # 1 /\ d \notin walk.items
      BY DEF Shown
    <3> QED
      BY <1>2, <2>5, <3>1, <3>2, <3>3
  <2> QED
    BY <2>4, <2>7, <2>8 DEF ListInv
<1> QED
  BY <1>3, <1>4

LEMMA RemoveStep ==
  ASSUME ListInv, OrderTells, NEW p \in DOMAIN order, Removed(p)
  PROVE  ListInv'
<1> DEFINE n == order[p]
<1>1. /\ order' = RemoveAt(order, p) /\ walk' = Removing(walk, n)
      /\ order \in Seq(Names) /\ IsInjective(order)
      /\ walk \in Walks /\ WalkShape /\ MissTells /\ RepeatTells
  BY DEF Removed, OrderTells, ListInv, WalkShape
<1>2. /\ order' \in Seq(Names) /\ Range(order') = Range(order) \ {n}
      /\ \A d \in Range(order') :
           /\ Place(order', walk.query, d) <= Place(order, walk.query, d)
           /\ ~Matches(walk.query, n) =>
                Place(order', walk.query, d) = Place(order, walk.query, d)
  BY <1>1, AfterRemoval
<1> HIDE DEF n
<1>3. CASE walk.at # "asking" \/ ~Matches(walk.query, n)
  <2>1. walk' = walk
    BY <1>1, <1>3 DEF Removing
  <2>2. CASE walk.at # "asking"
    <3>1. WalkShape'
      BY <1>1, <2>1, <2>2 DEF WalkShape, Shown
    <3>2. MissTells' /\ RepeatTells'
      BY <1>1, <2>1, <2>2 DEF MissTells, RepeatTells, Staying
    <3> QED
      BY <3>1, <3>2 DEF ListInv
  <2>3. CASE ~Matches(walk.query, n)
    <3>1. WalkShape'
      BY <1>1, <1>2, <2>1, <2>3 DEF WalkShape, Shown
    <3>2. /\ n \notin Staying
          /\ \A d \in Range(order') : d \in Range(order) /\ PlaceOf(d)' = PlaceOf(d)
      BY <1>2, <2>1, <2>3 DEF Staying, PlaceOf
    <3>3. MissTells'
      <4> SUFFICES ASSUME walk.limit # 0, walk.removed = {}, ~(Arranged(walk.query) /\ walk.torn),
                          walk.at = "asking"
                   PROVE  /\ Staying \subseteq Range(order')
                          /\ \A d \in Staying : PlaceOf(d)' <= Read => walk.times[d] > 0
                          /\ walk.found => \A d \in Staying : PlaceOf(d)' <= ReadNext => Shown(d)
                          /\ walk.total # NotAsked /\ ~walk.found =>
                               \A d \in Staying : PlaceOf(d)' <= walk.total
                          /\ walk.total # NotAsked /\ walk.found /\ walk.total <= ReadNext =>
                               \A d \in Staying : Shown(d)
        BY <1>1, <2>1 DEF MissTells, Staying, Read, ReadNext, Shown
      <4>1. Staying \subseteq Range(order')
        BY <1>1, <1>2, <3>2 DEF MissTells
      <4> QED
        BY <1>1, <3>2, <4>1 DEF MissTells
    <3>4. RepeatTells'
      BY <1>1, <2>1, <3>2 DEF RepeatTells, Read, ReadNext
    <3> QED
      BY <3>1, <3>3, <3>4 DEF ListInv
  <2> QED
    BY <1>3, <2>2, <2>3
<1>4. CASE walk.at = "asking" /\ Matches(walk.query, n)
  <2>1. walk' = [walk EXCEPT !.removed = @ \union {n}, !.stayed = @ \ {n}]
    BY <1>1, <1>4 DEF Removing
  <2>2. n \in Documents
    BY <1>1, RangeIs, DocumentsAre DEF n
  <2>3. walk' \in Walks
    <3> DEFINE removed == walk.removed \union {n}
               stayed == walk.stayed \ {n}
    <3>1. removed \in SUBSET Documents /\ stayed \in SUBSET Documents
      BY <1>1, <2>2 DEF Walks
    <3>2. walk' = [walk EXCEPT !.removed = removed, !.stayed = stayed]
      BY <2>1
    <3> HIDE DEF removed, stayed
    <3> QED
      BY <1>1, <3>1, <3>2 DEF Walks
  <2>4. /\ walk'.removed = walk.removed \union {n} /\ walk'.stayed = walk.stayed \ {n}
        /\ walk'.at = walk.at /\ walk'.query = walk.query /\ walk'.limit = walk.limit
        /\ walk'.page = walk.page /\ walk'.total = walk.total /\ walk'.found = walk.found
        /\ walk'.items = walk.items /\ walk'.times = walk.times
        /\ walk'.inserted = walk.inserted /\ walk'.torn = walk.torn
    BY <1>1, <2>1 DEF Walks
  <2>5. WalkShape'
    BY <1>1, <1>2, <2>3, <2>4 DEF WalkShape, Shown
  <2>6. MissTells'
    BY <2>4 DEF MissTells
  <2>7. /\ \A d \in Range(order') : d \in Range(order) /\ PlaceOf(d)' <= PlaceOf(d)
        /\ \A d \in Range(order') : PlaceOf(d) \in Nat /\ PlaceOf(d)' \in Nat
        /\ walk.limit # 0 => Read \in Nat /\ ReadNext \in Nat
    BY <1>1, <1>2, <2>4, WalkFacts, PlaceBounds DEF PlaceOf
  <2>8. RepeatTells'
    <3> SUFFICES ASSUME walk.limit # 0, ~(Arranged(walk.query) /\ walk.inserted # {}),
                        NEW d \in Documents \ (walk.removed \intersect walk.inserted)
                 PROVE  /\ walk.times[d] <= 1
                        /\ walk.times[d] = 1 /\ d \in Range(order') => PlaceOf(d)' <= Read
                        /\ d \in walk.items =>
                             walk.times[d] = 0 /\ (d \in Range(order') => PlaceOf(d)' <= ReadNext)
      BY <1>4, <2>4 DEF RepeatTells, Read, ReadNext
    <3>1. /\ walk.times[d] <= 1
          /\ walk.times[d] = 1 /\ d \in Range(order) => PlaceOf(d) <= Read
          /\ d \in walk.items =>
               walk.times[d] = 0 /\ (d \in Range(order) => PlaceOf(d) <= ReadNext)
      BY <1>1, <1>4 DEF RepeatTells
    <3> QED
      BY <2>7, <3>1
  <2> QED
    BY <2>5, <2>6, <2>8 DEF ListInv
<1> QED
  BY <1>3, <1>4

LEMMA ListNext == ListInv /\ SeedInv /\ OrderTells /\ [Next]_vars => ListInv'
<1> SUFFICES ASSUME ListInv, SeedInv, OrderTells, [Next]_vars PROVE ListInv'
  OBVIOUS
<1>1. CollectionStep
  BY CollectionNext
<1>2. CASE UNCHANGED <<order, walk>>
  BY <1>2 DEF ListInv, WalkShape, MissTells, RepeatTells, Shown, Staying, PlaceOf, Read, ReadNext
<1>3. CASE Walk(order) /\ UNCHANGED order
  BY <1>3, StartWalkStep, CountStep, FindStep, AnswerStep DEF Walk
<1> QED
  BY <1>1, <1>2, <1>3, InsertStep, RemoveStep DEF CollectionStep

LEMMA ListInit == Init => ListInv /\ OrderTells
<1> SUFFICES ASSUME Init PROVE ListInv /\ OrderTells
  OBVIOUS
<1>1. PICK before \in 0..Listed :
        /\ roles = [n \in Names |->
                      IF before > 0 /\ n \in {Super, Guest} THEN SeedOf(n, 1..before) ELSE None]
        /\ order = IF before > 0 THEN Seeds ELSE <<>>
  BY DEF Init
<1>2. ASSUME before > 0 PROVE OrderTells
  <2>1. order = <<Super, Guest>>
    BY <1>1, <1>2 DEF Seeds
  <2>2. order \in Seq(Names) /\ IsInjective(order) /\ Range(order) = {Super, Guest}
    BY <2>1, SeedNames DEF IsInjective, Range
  <2>3. \A n \in Names : Exists(n) <=> n \in {Super, Guest}
    <3>1. \A n : SeedOf(n, 1..before) # None
      BY <1>1, SeedNames DEF Permissions
    <3> QED
      BY <1>1, <1>2, <3>1 DEF Exists
  <2>4. {n \in Names : Exists(n)} = {Super, Guest}
    BY <2>3, SeedNames
  <2>5. Range(order) = {n \in Names : Exists(n)}
    BY <2>2, <2>4
  <2> QED
    BY <2>2, <2>5 DEF OrderTells
<1>3. ASSUME ~(before > 0) PROVE OrderTells
  <2>1. order = <<>>
    BY <1>1, <1>3
  <2>2. order \in Seq(Names) /\ IsInjective(order) /\ Range(order) = {}
    BY <2>1 DEF IsInjective, Range
  <2>3. \A n \in Names : ~Exists(n)
    BY <1>1, <1>3 DEF Exists
  <2>4. {n \in Names : Exists(n)} = {}
    BY <2>3
  <2>5. Range(order) = {n \in Names : Exists(n)}
    BY <2>2, <2>4
  <2> QED
    BY <2>2, <2>5 DEF OrderTells
<1>4. ListInv
  <2>1. walk = NoWalk /\ walk \in Walks
    BY NoWalkIsWalk DEF Init
  <2>2. /\ walk.at = "idle" /\ walk.items = {} /\ walk.limit = 0
        /\ \A d \in Documents : walk.times[d] = 0
    BY <2>1 DEF NoWalk
  <2> QED
    BY <2>1, <2>2 DEF ListInv, WalkShape, MissTells, RepeatTells, Shown
<1> QED
  BY <1>2, <1>3, <1>4

(***************************************************************************)
(* findAll counts the documents of a condition and reads a page of them,   *)
(* and the list handler links to the next page while the count promises    *)
(* one.  Whatever collection, limit, query and changes meanwhile, a client *)
(* that follows the links misses a document that stayed only if one was    *)
(* removed, or came into an arranged list between a count and its reading; *)
(* and sees one twice only if one came into an arranged list, or this one  *)
(* went and came back.  Arranged is a list that is sorted, and one that is *)
(* answered from the unique index on the name.                             *)
(***************************************************************************)
THEOREM ListsAreRead == Spec => []ListIsRead
<1>1. ListInv => ListIsRead
  <2> SUFFICES ASSUME ListInv PROVE ListIsRead
    OBVIOUS
  <2>1. walk \in Walks
    BY DEF ListInv, WalkShape
  <2>2. MissedNeedsChange
    BY <2>1 DEF MissedNeedsChange, ListInv, MissTells, Staying
  <2>3. RepeatedNeedsInsertion
    <3>1. \A d \in Documents : walk.times[d] \in Nat
      BY <2>1 DEF Walks
    <3> QED
      BY <3>1 DEF RepeatedNeedsInsertion, ListInv, RepeatTells
  <2> QED
    BY <2>2, <2>3 DEF ListIsRead
<1> QED
  BY <1>1, SeedInit, SeedNext, ListInit, CollectionNext, ListNext, PTL DEF Spec

------------------------------------------------------------------------------
(* Types. *)

Counts == 1..(Listed + 1) \union 1..(Len(Seeds) + 1)

Counters ==
  /\ \A i \in Instances : inst[i].next \in Counts
  /\ changed \subseteq Names

LEMMA CountersNext == Counters /\ SeedInv /\ [Next]_vars => Counters'
<1> SUFFICES ASSUME Counters, SeedInv, [Next]_vars PROVE Counters'
  OBVIOUS
<1>1. /\ Listed \in Nat \ {0} /\ Len(Seeds) = 2 /\ inst \in [Instances -> Starts]
      /\ Down.next = 1
      /\ 1 \in Counts /\ \A k \in Counts : k <= Listed \/ k <= Len(Seeds) => k + 1 \in Counts
  BY SeedNames DEF SeedInv, Shape, Down, Counts
<1>2. ASSUME NEW i \in Instances, NEW r, Go(i, r), changed' = changed,
             r.next \in Counts
      PROVE  Counters'
  BY <1>1, <1>2 DEF Counters, Go
<1>3. ASSUME NEW i \in Instances, Starting(i) \/ Crash(i) PROVE Counters'
  <2>1. changed' = changed
    BY <1>3 DEF Starting, Crash, Start, FindPermission, CreatePermission, ReadPermissions,
                FindRole, CreateSeedRole, UpdateSeedRole, FindAdmin, CreateAdmin, AssignAdmin,
                NotSeeding
  <2>2. inst[i].next \in Counts /\ inst[i] \in Starts
    BY <1>1 DEF Counters
  <2>3. CASE FindPermission(i)
    <3>1. PICK r : /\ Go(i, r) /\ inst[i].next <= Listed
                   /\ r = [inst[i] EXCEPT !.next = @ + 1] \/ r = [inst[i] EXCEPT !.at = "create"]
      BY <2>3 DEF FindPermission
    <3>2. r.next = inst[i].next + 1 \/ r.next = inst[i].next
      BY <2>2, <3>1 DEF Starts
    <3> QED
      BY <1>1, <1>2, <2>1, <2>2, <3>1, <3>2
  <2>4. CASE CreatePermission(i)
    <3>1. PICK r : /\ Go(i, r) /\ inst[i].next <= Listed
                   /\ r = Down \/ r = [inst[i] EXCEPT !.at = "seeding", !.next = @ + 1]
      BY <2>4 DEF CreatePermission, At, SeedInv, StartTells
    <3>2. r.next = inst[i].next + 1 \/ r.next = 1
      BY <1>1, <2>2, <3>1 DEF Starts
    <3> QED
      BY <1>1, <1>2, <2>1, <2>2, <3>1, <3>2
  <2>5. CASE CreateSeedRole(i) \/ UpdateSeedRole(i)
    <3>1. PICK r : /\ Go(i, r) /\ inst[i].next <= Len(Seeds)
                   /\ r = Down \/ r = [inst[i] EXCEPT !.at = "role", !.next = @ + 1]
      BY <1>1, <2>5 DEF CreateSeedRole, UpdateSeedRole, At, SeedInv, StartTells
    <3>2. r.next = inst[i].next + 1 \/ r.next = 1
      BY <1>1, <2>2, <3>1 DEF Starts
    <3> QED
      BY <1>1, <1>2, <2>1, <2>2, <3>1, <3>2
  <2>6. CASE FindRole(i)
    <3>1. PICK a : Go(i, [inst[i] EXCEPT !.at = a])
      BY <2>6 DEF FindRole
    <3>2. [inst[i] EXCEPT !.at = a].next = inst[i].next
      BY <2>2 DEF Starts
    <3> QED
      BY <1>2, <2>1, <2>2, <3>1, <3>2
  <2>7. CASE ReadPermissions(i)
    <3>1. Go(i, [inst[i] EXCEPT !.at = "role", !.next = 1, !.read = permissions])
      BY <2>7 DEF ReadPermissions
    <3>2. [inst[i] EXCEPT !.at = "role", !.next = 1, !.read = permissions].next = 1
      BY <2>2 DEF Starts
    <3> QED
      BY <1>1, <1>2, <2>1, <3>1, <3>2
  <2>8. CASE FindAdmin(i) \/ CreateAdmin(i) \/ AssignAdmin(i) \/ Start(i) \/ Crash(i)
    <3>1. PICK a, role : Go(i, [Down EXCEPT !.at = a]) \/ Go(i, [Down EXCEPT !.at = a, !.role = role])
                         \/ Go(i, Down)
      BY <2>8 DEF FindAdmin, CreateAdmin, AssignAdmin, Start, Crash
    <3>2. /\ [Down EXCEPT !.at = a].next = 1 /\ [Down EXCEPT !.at = a, !.role = role].next = 1
          /\ Down.next = 1
      BY DEF Down
    <3> QED
      BY <1>1, <1>2, <2>1, <3>1, <3>2
  <2> QED
    BY <1>3, <2>3, <2>4, <2>5, <2>6, <2>7, <2>8 DEF Starting
<1>4. CASE RoleOperation
  BY <1>4 DEF RoleOperation, CreateRole, UpdateRole, DeleteRole, Assign, Operation, Counters, Names
<1>5. CASE Guard \/ List \/ UNCHANGED vars
  BY <1>5 DEF Guard, Arrive, ReadRoles, ReadPermitted, CheckFails, NotChecking, List, vars, Counters
<1> QED
  BY <1>3, <1>4, <1>5 DEF Next

(***************************************************************************)
(* Every variable has the shape its comment says; and the collection holds *)
(* each role that exists once, under its unique name.                      *)
(***************************************************************************)
THEOREM TypeCorrect == Spec => []TypeOK
<1>1. SeedInv /\ GuardInv /\ OrderTells /\ Counters => TypeOK
  <2> SUFFICES ASSUME SeedInv, GuardInv, OrderTells, Counters PROVE TypeOK
    OBVIOUS
  <2>1. /\ permissions \subseteq Permissions /\ admin \in {None, {}, {Super}}
        /\ \A n \in Names : roles[n] \in {None} \union SUBSET Permissions
        /\ \A i \in Instances : inst[i] \in Starts
    BY DEF SeedInv, Shape
  <2>2. check.seen \subseteq Names /\ check.moments \subseteq BOOLEAN /\ assigned \subseteq Names
    BY DEF GuardInv, CheckShape, Checks
  <2> QED
    BY <2>1, <2>2, Parts DEF OrderTells, Counters, Counts, TypeOK, Places
<1>2. Init => Counters
  BY SeedNames DEF Init, Counters, Counts, Down
<1> QED
  BY <1>1, <1>2, SeedInit, SeedNext, GuardInit, GuardNext, ListInit, CollectionNext, CountersNext, PTL
     DEF Spec
==============================================================================
