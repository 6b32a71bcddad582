------------------------------ MODULE Accounts ------------------------------
(***************************************************************************)
(* Roles, dealer profiles and the operations of user.service.ts and          *)
(* auth.service.ts that change them.  Each operation reads the rows it       *)
(* decides on, then writes in later statements: other operations come        *)
(* between.  A process may die, or a statement fail, between two of them.    *)
(***************************************************************************)
EXTENDS FiniteSets, Naturals

CONSTANTS
    Users,          \* User rows, those yet to be created included
    Calls           \* bound: operations under way at once

Internal == {"ADMIN", "SUPERADMIN"}
External == {"USER", "DEALER"}
Roles == Internal \cup External
Statuses == {"PENDING", "APPROVED", "LEGACY", "REJECTED", "SUSPENDED"}
DealerStatuses == {"APPROVED", "LEGACY", "SUSPENDED"}   \* with role DEALER

VARIABLES
    role,           \* role[u]: "FREE" before the row is there, "GONE" after it
    supervisor,     \* supervisor[u]: User.isBillingSupervisor
    profile,        \* profile[u]: DealerProfile.status, "NONE" without a row
    payLater,       \* payLater[u]: DealerProfile.payLaterEnabled
    trusted,        \* users the protect middleware takes for SUPERADMIN
    op              \* op[k]: what operation k is to write next

rows == <<role, supervisor, profile, payLater, trusted>>
vars == <<role, supervisor, profile, payLater, trusted, op>>

Exists(u) == role[u] \in Roles

Idle == [do |-> "none"]
Op == {Idle}
      \cup [do : {"count demote", "count delete", "delete"}, user : Users]
      \cup [do : {"role"}, user : Users, arg : Roles]
      \cup [do : {"supervisor"}, user : Users, arg : BOOLEAN]
      \cup [do : {"status"}, user : Users, arg : Statuses]
      \cup [do : {"dealer", "profile"}, user : Users, arg : {"PENDING", "APPROVED", "LEGACY"}]

Init ==
    /\ role \in [Users -> {"FREE", "USER", "SUPERADMIN"}]
    /\ \E u \in Users : role[u] = "SUPERADMIN"
    /\ supervisor = [u \in Users |-> FALSE]
    /\ profile = [u \in Users |-> "NONE"]
    /\ payLater = [u \in Users |-> FALSE]
    /\ trusted = {u \in Users : role[u] = "SUPERADMIN"}
    /\ op = [k \in Calls |-> Idle]

-----------------------------------------------------------------------------
\* An operation has read what it decides on, and goes on to what.
Begin(k, what) ==
    /\ op[k].do = "none"
    /\ op' = [op EXCEPT ![k] = what]
    /\ UNCHANGED rows

Done(k) == op' = [op EXCEPT ![k] = Idle]

\* It is refused, a statement of it fails, or its process dies.
Abort(k) ==
    /\ op[k].do # "none"
    /\ Done(k)
    /\ UNCHANGED rows

SuperAdmins == {u \in Users : role[u] = "SUPERADMIN"}

\* The caller is taken for a SUPERADMIN and is not the target
\* (authorizeRoleHierarchy).
BySuperAdmin(u) == \E a \in trusted : a # u

\* The cached user record of a former SUPERADMIN is cleared, or is 60 s old.
Forget(u) ==
    /\ u \in trusted \ SuperAdmins
    /\ trusted' = trusted \ {u}
    /\ UNCHANGED <<role, supervisor, profile, payLater, op>>

-----------------------------------------------------------------------------
(* updateMe with a role, deleteUser.                                        *)

RoleOf(status) == IF status \in DealerStatuses THEN "DEALER" ELSE "USER"

\* Mutant: the boundary between internal and external accounts is not checked.
ReadRoleAnyBoundary(k, u, r) ==
    /\ BySuperAdmin(u) /\ Exists(u)
    /\ Begin(k, IF role[u] = "SUPERADMIN" /\ r = "ADMIN"
                THEN [do |-> "count demote", user |-> u]
                ELSE [do |-> "role", user |-> u, arg |-> r])

ReadRole(k, u, r) ==
    /\ BySuperAdmin(u) /\ Exists(u)
    /\ role[u] \in Internal <=> r \in Internal
    /\ IF profile[u] = "NONE" THEN r # "DEALER" ELSE r = RoleOf(profile[u])
    /\ Begin(k, IF role[u] = "SUPERADMIN" /\ r = "ADMIN"
                THEN [do |-> "count demote", user |-> u]
                ELSE [do |-> "role", user |-> u, arg |-> r])

WriteRole(k) ==
    LET u == op[k].user IN
    /\ op[k].do = "role" /\ Exists(u)
    /\ role' = [role EXCEPT ![u] = op[k].arg]
    /\ supervisor' = [supervisor EXCEPT ![u] = @ /\ op[k].arg = "ADMIN"]
    /\ trusted' = trusted \cup {a \in {u} : op[k].arg = "SUPERADMIN"}
    /\ Done(k)
    /\ UNCHANGED <<profile, payLater>>

ReadUserToDelete(k, u) ==
    /\ BySuperAdmin(u) /\ Exists(u)
    /\ Begin(k, [do |-> IF role[u] = "SUPERADMIN" THEN "count delete" ELSE "delete",
                 user |-> u])

\* Cannot demote, or delete, the last SuperAdmin.
CountSuperAdmins(k) ==
    LET u == op[k].user IN
    /\ Cardinality(SuperAdmins) > 1
    /\ \/ /\ op[k].do = "count demote"
          /\ op' = [op EXCEPT ![k] = [do |-> "role", user |-> u, arg |-> "ADMIN"]]
       \/ /\ op[k].do = "count delete"
          /\ op' = [op EXCEPT ![k] = [do |-> "delete", user |-> u]]
    /\ UNCHANGED rows

\* The profile goes with its user (onDelete: Cascade).
DeleteUser(k) ==
    LET u == op[k].user IN
    /\ op[k].do = "delete" /\ Exists(u)
    /\ role' = [role EXCEPT ![u] = "GONE"]
    /\ supervisor' = [supervisor EXCEPT ![u] = FALSE]
    /\ profile' = [profile EXCEPT ![u] = "NONE"]
    /\ payLater' = [payLater EXCEPT ![u] = FALSE]
    /\ Done(k)
    /\ UNCHANGED trusted

-----------------------------------------------------------------------------
(* createAdmin, updateBillingSupervisor.                                    *)

CreateAdmin(u, flag) ==
    /\ role[u] = "FREE" /\ SuperAdmins # {}
    /\ role' = [role EXCEPT ![u] = "ADMIN"]
    /\ supervisor' = [supervisor EXCEPT ![u] = flag]
    /\ UNCHANGED <<profile, payLater, trusted, op>>

\* Mutant: canBeBillingSupervisor asks only for an account without a profile.
ReadSupervisorAnyRole(k, u, flag) ==
    /\ SuperAdmins # {} /\ Exists(u) /\ profile[u] = "NONE"
    /\ Begin(k, [do |-> "supervisor", user |-> u, arg |-> flag])

ReadSupervisor(k, u, flag) ==
    /\ SuperAdmins # {} /\ role[u] = "ADMIN" /\ profile[u] = "NONE"
    /\ Begin(k, [do |-> "supervisor", user |-> u, arg |-> flag])

WriteSupervisor(k) ==
    LET u == op[k].user IN
    /\ op[k].do = "supervisor" /\ Exists(u)
    /\ supervisor' = [supervisor EXCEPT ![u] = op[k].arg]
    /\ Done(k)
    /\ UNCHANGED <<role, profile, payLater, trusted>>

-----------------------------------------------------------------------------
(* Dealers.                                                                 *)

\* registerUser; from the dealer form, a profile PENDING follows.
Register(k, u, dealer) ==
    /\ op[k].do = "none" /\ role[u] = "FREE"
    /\ role' = [role EXCEPT ![u] = "USER"]
    /\ op' = [op EXCEPT ![k] = IF dealer THEN [do |-> "profile", user |-> u, arg |-> "PENDING"]
                               ELSE Idle]
    /\ UNCHANGED <<supervisor, profile, payLater, trusted>>

\* Mutant: applyDealerAccess does not ask for the role USER.
ReadToApplyAnyRole(k, u) ==
    /\ Exists(u) /\ profile[u] \notin {"APPROVED", "LEGACY"}
    /\ Begin(k, [do |-> "profile", user |-> u, arg |-> "PENDING"])

\* applyDealerAccessForCurrentUser.
ReadToApply(k, u) ==
    /\ role[u] = "USER" /\ profile[u] \notin {"APPROVED", "LEGACY"}
    /\ Begin(k, [do |-> "profile", user |-> u, arg |-> "PENDING"])

\* createDealer: a new user, or one that is not internal.
CreateDealerUser(k, u, status) ==
    /\ op[k].do = "none" /\ role[u] = "FREE"
    /\ role' = [role EXCEPT ![u] = "DEALER"]
    /\ op' = [op EXCEPT ![k] = [do |-> "profile", user |-> u, arg |-> status]]
    /\ UNCHANGED <<supervisor, profile, payLater, trusted>>

ReadToMakeDealer(k, u, status) ==
    /\ role[u] \in External
    /\ Begin(k, [do |-> "dealer", user |-> u, arg |-> status])

WriteDealerUser(k) ==
    LET u == op[k].user IN
    /\ op[k].do = "dealer" /\ Exists(u)
    /\ role' = [role EXCEPT ![u] = "DEALER"]
    /\ op' = [op EXCEPT ![k] = [do |-> "profile", user |-> u, arg |-> op[k].arg]]
    /\ UNCHANGED <<supervisor, profile, payLater, trusted>>

\* upsertDealerProfile: payLaterEnabled is set for LEGACY and else kept.
WriteProfile(k) ==
    LET u == op[k].user IN
    /\ op[k].do = "profile" /\ Exists(u)
    /\ profile' = [profile EXCEPT ![u] = op[k].arg]
    /\ payLater' = [payLater EXCEPT ![u] = @ \/ op[k].arg = "LEGACY"]
    /\ Done(k)
    /\ UNCHANGED <<role, supervisor, trusted>>

\* updateDealerStatus reads the user and refuses internal accounts.
ReadDealer(k, u, status) ==
    /\ role[u] \in External
    /\ Begin(k, [do |-> "status", user |-> u, arg |-> status])

\* updateDealerStatus: one statement over both tables, if there is a profile.
WriteStatus(k) ==
    LET u == op[k].user IN
    /\ op[k].do = "status" /\ profile[u] # "NONE"
    /\ profile' = [profile EXCEPT ![u] = op[k].arg]
    /\ payLater' = [payLater EXCEPT ![u] = op[k].arg = "LEGACY"]
    /\ role' = [role EXCEPT ![u] = RoleOf(op[k].arg)]
    /\ Done(k)
    /\ UNCHANGED <<supervisor, trusted>>

\* deleteDealer.
ReadDealerToDelete(k, u) ==
    /\ role[u] \in External /\ profile[u] # "NONE"
    /\ Begin(k, [do |-> "delete", user |-> u])

-----------------------------------------------------------------------------
Next ==
    \/ \E u \in Users, flag \in BOOLEAN : CreateAdmin(u, flag)
    \/ \E u \in Users : Forget(u)
    \/ \E k \in Calls :
         \/ \E u \in Users :
              \/ \E r \in Roles : ReadRole(k, u, r)
              \/ \E flag \in BOOLEAN : ReadSupervisor(k, u, flag) \/ Register(k, u, flag)
              \/ \E s \in {"APPROVED", "LEGACY"} :
                   CreateDealerUser(k, u, s) \/ ReadToMakeDealer(k, u, s)
              \/ \E s \in Statuses : ReadDealer(k, u, s)
              \/ ReadUserToDelete(k, u) \/ ReadToApply(k, u) \/ ReadDealerToDelete(k, u)
         \/ WriteRole(k) \/ CountSuperAdmins(k) \/ DeleteUser(k)
         \/ WriteSupervisor(k) \/ WriteDealerUser(k) \/ WriteProfile(k) \/ WriteStatus(k)
         \/ Abort(k)

Spec == Init /\ [][Next]_vars

-----------------------------------------------------------------------------
TypeOK ==
    /\ role \in [Users -> Roles \cup {"FREE", "GONE"}]
    /\ supervisor \in [Users -> BOOLEAN]
    /\ profile \in [Users -> Statuses \cup {"NONE"}]
    /\ payLater \in [Users -> BOOLEAN]
    /\ trusted \in SUBSET Users
    /\ op \in [Calls -> Op]

\* Whatever the operations overlap, an internal account never has a dealer
\* profile, so none gets a dealer's prices or pay-later.
InternalHasNoProfile == \A u \in Users : profile[u] # "NONE" => role[u] \in External

\* A billing supervisor is an internal account.
SupervisorIsInternal == \A u \in Users : supervisor[u] => role[u] \in Internal

\* No operation, however old what it read, takes an account across the boundary
\* between customers and staff.
BoundaryKept ==
    [][\A u \in Users : role[u] \in Roles /\ role'[u] \in Roles
         => (role[u] \in Internal <=> role'[u] \in Internal)]_vars
=============================================================================
