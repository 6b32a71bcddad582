--------------------------- MODULE AccountsProofs ---------------------------
(***************************************************************************)
(* What is proved of Accounts, for any number of users and of operations     *)
(* under way: no interleaving takes an account across the boundary.          *)
(***************************************************************************)
EXTENDS Accounts, TLAPS

\* The role of a user that has been created and, if it is still there, is on
\* this side of the boundary.
Staff == Internal \cup {"GONE"}
Customer == External \cup {"GONE"}

\* The side of the boundary operation o was decided on, for a user of role r.
Decided(o, r) ==
    /\ o.do \in {"count demote", "supervisor"} => r \in Staff
    /\ o.do = "role" => IF o.arg \in Internal THEN r \in Staff ELSE r \in Customer
    /\ o.do \in {"status", "dealer", "profile"} => r \in Customer

OpInv == \A k \in Calls : op[k].do # "none" => Decided(op[k], role[op[k].user])

AccountsInv == TypeOK /\ InternalHasNoProfile /\ SupervisorIsInternal /\ OpInv

-----------------------------------------------------------------------------
\* What an operation carries, by what it is to do.
LEMMA OpType ==
    ASSUME NEW o \in Op
    PROVE  /\ o.do # "none" => o.user \in Users
           /\ o.do = "role" => o.arg \in Roles
           /\ o.do = "supervisor" => o.arg \in BOOLEAN
           /\ o.do = "status" => o.arg \in Statuses
           /\ o.do = "dealer" => o.arg \in {"PENDING", "APPROVED", "LEGACY"}
           /\ o.do = "profile" => o.arg \in {"PENDING", "APPROVED", "LEGACY"}
<1>1. CASE o = Idle
  BY <1>1 DEF Idle
<1>2. CASE o \in [do : {"count demote", "count delete", "delete"}, user : Users]
  BY <1>2
<1>3. CASE o \in [do : {"role"}, user : Users, arg : Roles]
  BY <1>3
<1>4. CASE o \in [do : {"supervisor"}, user : Users, arg : BOOLEAN]
  BY <1>4
<1>5. CASE o \in [do : {"status"}, user : Users, arg : Statuses]
  BY <1>5
<1>6. CASE o \in [do : {"dealer", "profile"}, user : Users,
                  arg : {"PENDING", "APPROVED", "LEGACY"}]
  BY <1>6
<1> QED
  BY <1>1, <1>2, <1>3, <1>4, <1>5, <1>6 DEF Op

LEMMA AccountsInit == Init => AccountsInv
<1> SUFFICES ASSUME Init PROVE AccountsInv
  OBVIOUS
<1>1. Idle \in Op /\ Idle.do = "none"
  BY DEF Op, Idle
<1> QED
  BY <1>1 DEF Init, AccountsInv, TypeOK, InternalHasNoProfile, SupervisorIsInternal, OpInv,
              Roles, Internal, External

\* A step that moves no account across the boundary keeps what the operations
\* have read.
LEMMA SidesKept ==
    ASSUME AccountsInv,
           \A u \in Users : \/ role[u] = "FREE" \/ role'[u] = role[u] \/ role'[u] = "GONE"
                            \/ role[u] \in Internal /\ role'[u] \in Internal
                            \/ role[u] \in External /\ role'[u] \in External,
           \A u \in Users : role[u] = "GONE" => role'[u] = "GONE",
           NEW k \in Calls, NEW o \in Op, op' = [op EXCEPT ![k] = o],
           o.do # "none" => Decided(o, role'[o.user])
    PROVE  OpInv' /\ op' \in [Calls -> Op]
<1>1. op \in [Calls -> Op]
  BY DEF AccountsInv, TypeOK
<1>2. op' \in [Calls -> Op]
  BY <1>1
<1>3. ASSUME NEW j \in Calls, op'[j].do # "none"
      PROVE  Decided(op'[j], role'[op'[j].user])
  <2>1. CASE j = k
    BY <1>1, <2>1, <1>3
  <2>2. CASE j # k
    <3>1. op'[j] = op[j] /\ op[j] \in Op
      BY <1>1, <2>2
    <3>2. op[j].user \in Users /\ Decided(op[j], role[op[j].user])
      BY <3>1, <1>3, OpType DEF AccountsInv, OpInv
    <3> QED
      BY <3>1, <3>2 DEF Decided, Staff, Customer, Internal, External
  <2> QED
    BY <2>1, <2>2
<1> QED
  BY <1>2, <1>3 DEF OpInv

-----------------------------------------------------------------------------
\* No account that is there before and after a step has crossed the boundary.
NoCrossing ==
    \A u \in Users : role[u] \in Roles /\ role'[u] \in Roles
      => (role[u] \in Internal <=> role'[u] \in Internal)

\* A step that leaves the rows alone and makes operation k go on to o.
LEMMA RowsKept ==
    ASSUME AccountsInv, UNCHANGED rows, NEW k \in Calls, NEW o \in Op,
           op' = [op EXCEPT ![k] = o],
           o.do # "none" => Decided(o, role[o.user])
    PROVE  AccountsInv' /\ NoCrossing
<1>1. OpInv' /\ op' \in [Calls -> Op]
  <2>1. role' = role
    BY DEF rows
  <2>2. o.do # "none" => Decided(o, role'[o.user])
    BY <2>1
  <2>3. \A u \in Users : role'[u] = role[u]
    BY <2>1
  <2> QED
    BY <2>2, <2>3, SidesKept
<1> QED
  BY <1>1 DEF AccountsInv, TypeOK, InternalHasNoProfile, SupervisorIsInternal, rows, NoCrossing

\* A step that writes role x of user u and makes operation k go on to o.
LEMMA RoleWritten ==
    ASSUME AccountsInv, NEW u \in Users, NEW x \in Roles \cup {"GONE"},
           role' = [role EXCEPT ![u] = x],
           \/ role[u] = "FREE" \/ x = "GONE"
           \/ role[u] \in Internal /\ x \in Internal
           \/ role[u] \in External /\ x \in External,
           NEW k \in Calls, NEW o \in Op, op' = [op EXCEPT ![k] = o],
           o.do # "none" => o.user = u /\ Decided(o, x)
    PROVE  /\ OpInv' /\ op' \in [Calls -> Op] /\ NoCrossing
           /\ role' \in [Users -> Roles \cup {"FREE", "GONE"}]
           /\ role'[u] = x /\ \A v \in Users : v # u => role'[v] = role[v]
<1>1. role \in [Users -> Roles \cup {"FREE", "GONE"}]
  BY DEF AccountsInv, TypeOK
<1>2. /\ role' \in [Users -> Roles \cup {"FREE", "GONE"}]
      /\ role'[u] = x /\ \A v \in Users : v # u => role'[v] = role[v]
  BY <1>1
<1>3. \A v \in Users : \/ role[v] = "FREE" \/ role'[v] = role[v] \/ role'[v] = "GONE"
                       \/ role[v] \in Internal /\ role'[v] \in Internal
                       \/ role[v] \in External /\ role'[v] \in External
  BY <1>2
<1>4. \A v \in Users : role[v] = "GONE" => role'[v] = "GONE"
  BY <1>2 DEF Internal, External
<1>5. o.do # "none" => Decided(o, role'[o.user])
  BY <1>2
<1>6. OpInv' /\ op' \in [Calls -> Op]
  BY <1>3, <1>4, <1>5, SidesKept
<1>7. NoCrossing
  BY <1>3 DEF NoCrossing, Roles, Internal, External
<1> QED
  BY <1>2, <1>6, <1>7

\* What operation k carries, and where its user stands.
LEMMA Carried ==
    ASSUME AccountsInv, NEW k \in Calls, op[k].do # "none"
    PROVE  /\ op[k] \in Op /\ op[k].user \in Users
           /\ Decided(op[k], role[op[k].user])
  BY OpType DEF AccountsInv, TypeOK, OpInv

\* The forms of an operation.
LEMMA Forms ==
    ASSUME NEW u \in Users
    PROVE  /\ Idle \in Op /\ Idle.do = "none"
           /\ \A d \in {"count demote", "count delete", "delete"} : [do |-> d, user |-> u] \in Op
           /\ \A r \in Roles : [do |-> "role", user |-> u, arg |-> r] \in Op
           /\ \A b \in BOOLEAN : [do |-> "supervisor", user |-> u, arg |-> b] \in Op
           /\ \A s \in Statuses : [do |-> "status", user |-> u, arg |-> s] \in Op
           /\ \A d \in {"dealer", "profile"}, s \in {"PENDING", "APPROVED", "LEGACY"} :
                [do |-> d, user |-> u, arg |-> s] \in Op
  BY DEF Op, Idle

LEMMA IdleForm == Idle \in Op /\ Idle.do = "none"
  BY DEF Op, Idle

-----------------------------------------------------------------------------
(* The steps that only read.                                                *)

LEMMA ReadRoleKeeps ==
    ASSUME AccountsInv, NEW k \in Calls, NEW u \in Users, NEW r \in Roles, ReadRole(k, u, r)
    PROVE  AccountsInv' /\ NoCrossing
<1> DEFINE o == IF role[u] = "SUPERADMIN" /\ r = "ADMIN"
                THEN [do |-> "count demote", user |-> u]
                ELSE [do |-> "role", user |-> u, arg |-> r]
<1>1. o \in Op
  BY Forms
<1>2. op' = [op EXCEPT ![k] = o] /\ UNCHANGED rows
  BY DEF ReadRole, Begin
<1>3. o.user = u /\ Decided(o, role[u])
  BY DEF ReadRole, Exists, Decided, Staff, Customer, Roles, Internal, External
<1> HIDE DEF o
<1> QED
  BY <1>1, <1>2, <1>3, RowsKept

LEMMA ReadSupervisorKeeps ==
    ASSUME AccountsInv, NEW k \in Calls, NEW u \in Users, NEW flag \in BOOLEAN,
           ReadSupervisor(k, u, flag)
    PROVE  AccountsInv' /\ NoCrossing
<1> DEFINE o == [do |-> "supervisor", user |-> u, arg |-> flag]
<1>1. o \in Op
  BY Forms
<1>2. op' = [op EXCEPT ![k] = o] /\ UNCHANGED rows
  BY DEF ReadSupervisor, Begin
<1>3. o.user = u /\ Decided(o, role[u])
  BY DEF ReadSupervisor, Decided, Staff, Internal
<1> HIDE DEF o
<1> QED
  BY <1>1, <1>2, <1>3, RowsKept

LEMMA ReadOfCustomerKeeps ==
    ASSUME AccountsInv, NEW k \in Calls, NEW u \in Users,
           \/ ReadToApply(k, u)
           \/ \E s \in {"APPROVED", "LEGACY"} : ReadToMakeDealer(k, u, s)
           \/ \E s \in Statuses : ReadDealer(k, u, s)
    PROVE  AccountsInv' /\ NoCrossing
<1>1. PICK o \in [do : {"profile", "dealer", "status"}, user : {u}, arg : Statuses] :
        /\ o \in Op /\ op' = [op EXCEPT ![k] = o] /\ UNCHANGED rows /\ role[u] \in External
  <2>1. CASE ReadToApply(k, u)
    BY <2>1, Forms DEF ReadToApply, Begin, External, Statuses
  <2>2. CASE \E s \in {"APPROVED", "LEGACY"} : ReadToMakeDealer(k, u, s)
    BY <2>2, Forms DEF ReadToMakeDealer, Begin, Statuses
  <2>3. CASE \E s \in Statuses : ReadDealer(k, u, s)
    BY <2>3, Forms DEF ReadDealer, Begin
  <2> QED
    BY <2>1, <2>2, <2>3
<1>2. o.user = u /\ Decided(o, role[u])
  BY <1>1 DEF Decided, Customer
<1> QED
  BY <1>1, <1>2, RowsKept

LEMMA ReadToDeleteKeeps ==
    ASSUME AccountsInv, NEW k \in Calls, NEW u \in Users,
           ReadUserToDelete(k, u) \/ ReadDealerToDelete(k, u)
    PROVE  AccountsInv' /\ NoCrossing
<1>1. PICK d \in {"count delete", "delete"} :
        op' = [op EXCEPT ![k] = [do |-> d, user |-> u]] /\ UNCHANGED rows
  BY DEF ReadUserToDelete, ReadDealerToDelete, Begin
<1> DEFINE o == [do |-> d, user |-> u]
<1>2. o \in Op /\ Decided(o, role[o.user])
  BY <1>1, Forms DEF Decided
<1> HIDE DEF o
<1>3. op' = [op EXCEPT ![k] = o]
  BY <1>1 DEF o
<1> QED
  BY <1>1, <1>2, <1>3, RowsKept

LEMMA AbortKeeps ==
    ASSUME AccountsInv, NEW k \in Calls, Abort(k)
    PROVE  AccountsInv' /\ NoCrossing
<1>1. op' = [op EXCEPT ![k] = Idle] /\ UNCHANGED rows
  BY DEF Abort, Done
<1> QED
  BY <1>1, IdleForm, RowsKept

LEMMA CountKeeps ==
    ASSUME AccountsInv, NEW k \in Calls, CountSuperAdmins(k)
    PROVE  AccountsInv' /\ NoCrossing
<1> DEFINE u == op[k].user
           o == IF op[k].do = "count demote" THEN [do |-> "role", user |-> u, arg |-> "ADMIN"]
                                             ELSE [do |-> "delete", user |-> u]
<1>1. op[k].do \in {"count demote", "count delete"}
      /\ op' = [op EXCEPT ![k] = o] /\ UNCHANGED rows
  BY DEF CountSuperAdmins
<1>2. u \in Users /\ Decided(op[k], role[u])
  BY <1>1, Carried
<1>3. o \in Op /\ o.user = u
  BY <1>2, Forms DEF Roles, Internal
<1>4. Decided(o, role[u])
  BY <1>1, <1>2 DEF Decided, Internal
<1> HIDE DEF o
<1> QED
  BY <1>1, <1>3, <1>4, RowsKept

-----------------------------------------------------------------------------
(* The steps that write.                                                    *)

LEMMA WriteRoleKeeps ==
    ASSUME AccountsInv, NEW k \in Calls, WriteRole(k)
    PROVE  AccountsInv' /\ NoCrossing
<1> DEFINE u == op[k].user  x == op[k].arg
<1>1. /\ u \in Users /\ x \in Roles /\ role[u] \in Roles
      /\ IF x \in Internal THEN role[u] \in Internal ELSE role[u] \in External
  <2>1. op[k].do = "role" /\ role[u] \in Roles
    BY DEF WriteRole, Exists
  <2>2. u \in Users /\ Decided(op[k], role[u]) /\ x \in Roles
    BY <2>1, Carried, OpType
  <2> QED
    BY <2>1, <2>2 DEF Decided, Staff, Customer, Roles, Internal, External
<1>2. /\ role' = [role EXCEPT ![u] = x] /\ op' = [op EXCEPT ![k] = Idle]
      /\ supervisor' = [supervisor EXCEPT ![u] = @ /\ x = "ADMIN"]
      /\ UNCHANGED <<profile, payLater>>
      /\ trusted' = trusted \cup {a \in {u} : x = "SUPERADMIN"}
  BY DEF WriteRole, Done
<1> HIDE DEF u, x
<1>3. /\ OpInv' /\ op' \in [Calls -> Op] /\ NoCrossing
      /\ role' \in [Users -> Roles \cup {"FREE", "GONE"}]
      /\ role'[u] = x /\ \A v \in Users : v # u => role'[v] = role[v]
  BY <1>1, <1>2, IdleForm, RoleWritten DEF Roles
<1>4. /\ supervisor' \in [Users -> BOOLEAN]
      /\ supervisor'[u] => x = "ADMIN"
      /\ \A v \in Users : v # u => supervisor'[v] = supervisor[v]
  BY <1>1, <1>2 DEF AccountsInv, TypeOK
<1>5. TypeOK'
  BY <1>1, <1>2, <1>3, <1>4 DEF AccountsInv, TypeOK
<1>6. InternalHasNoProfile'
  BY <1>1, <1>2, <1>3 DEF AccountsInv, InternalHasNoProfile, Roles, Internal, External
<1>7. ASSUME NEW v \in Users, supervisor'[v] PROVE role'[v] \in Internal
  <2>1. CASE v = u
    BY <1>3, <1>4, <1>7, <2>1 DEF Internal
  <2>2. CASE v # u
    BY <1>3, <1>4, <1>7, <2>2 DEF AccountsInv, SupervisorIsInternal
  <2> QED
    BY <2>1, <2>2
<1> QED
  BY <1>3, <1>5, <1>6, <1>7 DEF AccountsInv, SupervisorIsInternal

LEMMA DeleteUserKeeps ==
    ASSUME AccountsInv, NEW k \in Calls, DeleteUser(k)
    PROVE  AccountsInv' /\ NoCrossing
<1> DEFINE u == op[k].user
<1>1. u \in Users
  BY Carried DEF DeleteUser
<1>2. /\ role' = [role EXCEPT ![u] = "GONE"] /\ op' = [op EXCEPT ![k] = Idle]
      /\ supervisor' = [supervisor EXCEPT ![u] = FALSE]
      /\ profile' = [profile EXCEPT ![u] = "NONE"]
      /\ payLater' = [payLater EXCEPT ![u] = FALSE] /\ trusted' = trusted
  BY DEF DeleteUser, Done
<1> HIDE DEF u
<1>3. /\ OpInv' /\ op' \in [Calls -> Op] /\ NoCrossing
      /\ role' \in [Users -> Roles \cup {"FREE", "GONE"}]
      /\ role'[u] = "GONE" /\ \A v \in Users : v # u => role'[v] = role[v]
  BY <1>1, <1>2, IdleForm, RoleWritten
<1>4. /\ supervisor' \in [Users -> BOOLEAN] /\ ~ supervisor'[u]
      /\ \A v \in Users : v # u => supervisor'[v] = supervisor[v]
  BY <1>1, <1>2 DEF AccountsInv, TypeOK
<1>5. /\ profile' \in [Users -> Statuses \cup {"NONE"}] /\ profile'[u] = "NONE"
      /\ \A v \in Users : v # u => profile'[v] = profile[v]
  BY <1>1, <1>2 DEF AccountsInv, TypeOK
<1>6. payLater' \in [Users -> BOOLEAN]
  BY <1>2 DEF AccountsInv, TypeOK
<1>7. InternalHasNoProfile' /\ SupervisorIsInternal'
  BY <1>3, <1>4, <1>5 DEF AccountsInv, InternalHasNoProfile, SupervisorIsInternal
<1> QED
  BY <1>2, <1>3, <1>4, <1>5, <1>6, <1>7 DEF AccountsInv, TypeOK

LEMMA CreateAdminKeeps ==
    ASSUME AccountsInv, NEW u \in Users, NEW flag \in BOOLEAN, CreateAdmin(u, flag)
    PROVE  AccountsInv' /\ NoCrossing
<1>1. /\ role[u] = "FREE" /\ role' = [role EXCEPT ![u] = "ADMIN"]
      /\ supervisor' = [supervisor EXCEPT ![u] = flag]
      /\ profile' = profile /\ payLater' = payLater /\ op' = op
      /\ trusted' = trusted
  BY DEF CreateAdmin
<1>2. /\ role' \in [Users -> Roles \cup {"FREE", "GONE"}]
      /\ role'[u] = "ADMIN" /\ \A v \in Users : v # u => role'[v] = role[v]
  BY <1>1 DEF AccountsInv, TypeOK, Roles, Internal
<1>3. /\ supervisor' \in [Users -> BOOLEAN]
      /\ \A v \in Users : v # u => supervisor'[v] = supervisor[v]
  BY <1>1 DEF AccountsInv, TypeOK
<1>4. OpInv'
  <2> SUFFICES ASSUME NEW j \in Calls, op[j].do # "none"
               PROVE  Decided(op[j], role'[op[j].user])
    BY <1>1 DEF OpInv
  <2>1. op[j].user \in Users /\ Decided(op[j], role[op[j].user]) /\ op[j] \in Op
    BY Carried
  <2>2. CASE op[j].user = u
    BY <2>1, <2>2, <1>1 DEF Decided, Staff, Customer, Internal, External
  <2>3. CASE op[j].user # u
    BY <2>1, <2>3, <1>2
  <2> QED
    BY <2>2, <2>3
<1>5. InternalHasNoProfile' /\ SupervisorIsInternal'
  BY <1>1, <1>2, <1>3
     DEF AccountsInv, InternalHasNoProfile, SupervisorIsInternal, Internal, External
<1>6. NoCrossing
  BY <1>1, <1>2 DEF NoCrossing, Roles, Internal, External
<1> QED
  BY <1>1, <1>2, <1>3, <1>4, <1>5, <1>6 DEF AccountsInv, TypeOK

LEMMA WriteSupervisorKeeps ==
    ASSUME AccountsInv, NEW k \in Calls, WriteSupervisor(k)
    PROVE  AccountsInv' /\ NoCrossing
<1> DEFINE u == op[k].user
<1>1. u \in Users /\ role[u] \in Internal /\ op[k].arg \in BOOLEAN
  <2>1. op[k].do = "supervisor" /\ role[u] \in Roles
    BY DEF WriteSupervisor, Exists
  <2>2. u \in Users /\ Decided(op[k], role[u]) /\ op[k].arg \in BOOLEAN
    BY <2>1, Carried, OpType
  <2> QED
    BY <2>1, <2>2 DEF Decided, Staff, Roles, Internal, External
<1>2. /\ supervisor' = [supervisor EXCEPT ![u] = op[k].arg] /\ op' = [op EXCEPT ![k] = Idle]
      /\ role' = role /\ profile' = profile /\ payLater' = payLater
      /\ trusted' = trusted
  BY DEF WriteSupervisor, Done
<1> HIDE DEF u
<1>3. OpInv' /\ op' \in [Calls -> Op]
  BY <1>2, IdleForm, SidesKept
<1>4. /\ supervisor' \in [Users -> BOOLEAN]
      /\ \A v \in Users : v # u => supervisor'[v] = supervisor[v]
  BY <1>1, <1>2 DEF AccountsInv, TypeOK
<1>5. SupervisorIsInternal'
  BY <1>1, <1>2, <1>4 DEF AccountsInv, SupervisorIsInternal
<1> QED
  BY <1>2, <1>3, <1>4, <1>5 DEF AccountsInv, TypeOK, InternalHasNoProfile, NoCrossing

\* registerUser, createDealer of a new user or of one that is there.
LEMMA NewCustomerKeeps ==
    ASSUME AccountsInv, NEW k \in Calls, NEW u \in Users, NEW x \in External,
           role[u] = "FREE" \/ role[u] \in External,
           role' = [role EXCEPT ![u] = x], NEW o \in Op, op' = [op EXCEPT ![k] = o],
           o.do = "none" \/ (o.do = "profile" /\ o.user = u),
           UNCHANGED <<supervisor, profile, payLater, trusted>>
    PROVE  AccountsInv' /\ NoCrossing
<1>1. o.do # "none" => o.user = u /\ Decided(o, x)
  BY DEF Decided, Customer
<1>2. /\ OpInv' /\ op' \in [Calls -> Op] /\ NoCrossing
      /\ role' \in [Users -> Roles \cup {"FREE", "GONE"}]
      /\ role'[u] = x /\ \A v \in Users : v # u => role'[v] = role[v]
  BY <1>1, RoleWritten DEF Roles
<1>3. InternalHasNoProfile'
  BY <1>2 DEF AccountsInv, InternalHasNoProfile
<1>4. SupervisorIsInternal'
  BY <1>2 DEF AccountsInv, SupervisorIsInternal, Internal, External
<1> QED
  BY <1>2, <1>3, <1>4 DEF AccountsInv, TypeOK

LEMMA RegisterKeeps ==
    ASSUME AccountsInv, NEW k \in Calls, NEW u \in Users, NEW dealer \in BOOLEAN,
           Register(k, u, dealer)
    PROVE  AccountsInv' /\ NoCrossing
<1> DEFINE o == IF dealer THEN [do |-> "profile", user |-> u, arg |-> "PENDING"] ELSE Idle
<1>1. o \in Op /\ (o.do = "none" \/ (o.do = "profile" /\ o.user = u))
  BY Forms
<1>2. /\ role[u] = "FREE" /\ role' = [role EXCEPT ![u] = "USER"]
      /\ op' = [op EXCEPT ![k] = o] /\ UNCHANGED <<supervisor, profile, payLater, trusted>>
  BY DEF Register
<1> HIDE DEF o
<1> QED
  BY <1>1, <1>2, NewCustomerKeeps DEF External

LEMMA CreateDealerUserKeeps ==
    ASSUME AccountsInv, NEW k \in Calls, NEW u \in Users, NEW s \in {"APPROVED", "LEGACY"},
           CreateDealerUser(k, u, s)
    PROVE  AccountsInv' /\ NoCrossing
<1> DEFINE o == [do |-> "profile", user |-> u, arg |-> s]
<1>1. o \in Op /\ o.do = "profile" /\ o.user = u
  BY Forms
<1>2. /\ role[u] = "FREE" /\ role' = [role EXCEPT ![u] = "DEALER"]
      /\ op' = [op EXCEPT ![k] = o] /\ UNCHANGED <<supervisor, profile, payLater, trusted>>
  BY DEF CreateDealerUser
<1> HIDE DEF o
<1> QED
  BY <1>1, <1>2, NewCustomerKeeps DEF External

LEMMA WriteDealerUserKeeps ==
    ASSUME AccountsInv, NEW k \in Calls, WriteDealerUser(k)
    PROVE  AccountsInv' /\ NoCrossing
<1> DEFINE u == op[k].user
           o == [do |-> "profile", user |-> u, arg |-> op[k].arg]
<1>1. op[k].do = "dealer" /\ role[u] \in Roles
  BY DEF WriteDealerUser, Exists
<1>2. u \in Users /\ role[u] \in External /\ op[k].arg \in {"PENDING", "APPROVED", "LEGACY"}
  BY <1>1, Carried, OpType DEF Decided, Customer, Roles, Internal, External
<1>3. o \in Op /\ o.do = "profile" /\ o.user = u
  BY <1>2, Forms
<1>4. /\ role' = [role EXCEPT ![u] = "DEALER"]
      /\ op' = [op EXCEPT ![k] = o] /\ UNCHANGED <<supervisor, profile, payLater, trusted>>
  BY DEF WriteDealerUser
<1> HIDE DEF u, o
<1> QED
  BY <1>2, <1>3, <1>4, NewCustomerKeeps DEF External

LEMMA WriteProfileKeeps ==
    ASSUME AccountsInv, NEW k \in Calls, WriteProfile(k)
    PROVE  AccountsInv' /\ NoCrossing
<1> DEFINE u == op[k].user
<1>1. op[k].do = "profile" /\ role[u] \in Roles
  BY DEF WriteProfile, Exists
<1>2. u \in Users /\ role[u] \in External /\ op[k].arg \in Statuses
  BY <1>1, Carried, OpType DEF Decided, Customer, Roles, Internal, External, Statuses
<1>3. /\ profile' = [profile EXCEPT ![u] = op[k].arg] /\ op' = [op EXCEPT ![k] = Idle]
      /\ payLater' = [payLater EXCEPT ![u] = @ \/ op[k].arg = "LEGACY"]
      /\ role' = role /\ supervisor' = supervisor /\ trusted' = trusted
  BY DEF WriteProfile, Done
<1> HIDE DEF u
<1>4. OpInv' /\ op' \in [Calls -> Op]
  BY <1>3, IdleForm, SidesKept
<1>5. /\ profile' \in [Users -> Statuses \cup {"NONE"}]
      /\ \A v \in Users : v # u => profile'[v] = profile[v]
  BY <1>2, <1>3 DEF AccountsInv, TypeOK
<1>6. payLater' \in [Users -> BOOLEAN]
  BY <1>2, <1>3 DEF AccountsInv, TypeOK
<1>7. InternalHasNoProfile'
  BY <1>2, <1>3, <1>5 DEF AccountsInv, InternalHasNoProfile
<1> QED
  BY <1>3, <1>4, <1>5, <1>6, <1>7 DEF AccountsInv, TypeOK, SupervisorIsInternal, NoCrossing

LEMMA WriteStatusKeeps ==
    ASSUME AccountsInv, NEW k \in Calls, WriteStatus(k)
    PROVE  AccountsInv' /\ NoCrossing
<1> DEFINE u == op[k].user  x == RoleOf(op[k].arg)
<1>1. op[k].do = "status" /\ profile[u] # "NONE"
  BY DEF WriteStatus
<1>2. u \in Users /\ role[u] \in External /\ op[k].arg \in Statuses /\ x \in External
  BY <1>1, Carried, OpType DEF AccountsInv, InternalHasNoProfile, RoleOf, External
<1>3. /\ role' = [role EXCEPT ![u] = x] /\ op' = [op EXCEPT ![k] = Idle]
      /\ profile' = [profile EXCEPT ![u] = op[k].arg]
      /\ payLater' = [payLater EXCEPT ![u] = op[k].arg = "LEGACY"]
      /\ supervisor' = supervisor /\ trusted' = trusted
  BY DEF WriteStatus, Done
<1> HIDE DEF u, x
<1>4. /\ OpInv' /\ op' \in [Calls -> Op] /\ NoCrossing
      /\ role' \in [Users -> Roles \cup {"FREE", "GONE"}]
      /\ role'[u] = x /\ \A v \in Users : v # u => role'[v] = role[v]
  BY <1>2, <1>3, IdleForm, RoleWritten DEF Roles
<1>5. /\ profile' \in [Users -> Statuses \cup {"NONE"}]
      /\ \A v \in Users : v # u => profile'[v] = profile[v]
  BY <1>2, <1>3 DEF AccountsInv, TypeOK
<1>6. payLater' \in [Users -> BOOLEAN]
  BY <1>2, <1>3 DEF AccountsInv, TypeOK
<1>7. InternalHasNoProfile'
  BY <1>2, <1>4, <1>5 DEF AccountsInv, InternalHasNoProfile
<1>8. SupervisorIsInternal'
  BY <1>2, <1>3, <1>4 DEF AccountsInv, SupervisorIsInternal, Internal, External
<1> QED
  BY <1>3, <1>4, <1>5, <1>6, <1>7, <1>8 DEF AccountsInv, TypeOK

-----------------------------------------------------------------------------
LEMMA AccountsNext == AccountsInv /\ [Next]_vars => AccountsInv' /\ (NoCrossing \/ UNCHANGED vars)
<1> SUFFICES ASSUME AccountsInv, [Next]_vars
             PROVE  AccountsInv' /\ (NoCrossing \/ UNCHANGED vars)
  OBVIOUS
<1>1. CASE \E u \in Users, flag \in BOOLEAN : CreateAdmin(u, flag)
  BY <1>1, CreateAdminKeeps
<1>2. ASSUME NEW k \in Calls, NEW u \in Users,
             \/ \E r \in Roles : ReadRole(k, u, r)
             \/ \E flag \in BOOLEAN : ReadSupervisor(k, u, flag) \/ Register(k, u, flag)
             \/ \E s \in {"APPROVED", "LEGACY"} :
                  CreateDealerUser(k, u, s) \/ ReadToMakeDealer(k, u, s)
             \/ \E s \in Statuses : ReadDealer(k, u, s)
             \/ ReadUserToDelete(k, u) \/ ReadToApply(k, u) \/ ReadDealerToDelete(k, u)
      PROVE  AccountsInv' /\ NoCrossing
  BY <1>2, ReadRoleKeeps, ReadSupervisorKeeps, RegisterKeeps, CreateDealerUserKeeps,
     ReadOfCustomerKeeps, ReadToDeleteKeeps
<1>3. ASSUME NEW k \in Calls,
             \/ WriteRole(k) \/ CountSuperAdmins(k) \/ DeleteUser(k)
             \/ WriteSupervisor(k) \/ WriteDealerUser(k) \/ WriteProfile(k) \/ WriteStatus(k)
             \/ Abort(k)
      PROVE  AccountsInv' /\ NoCrossing
  BY <1>3, WriteRoleKeeps, CountKeeps, DeleteUserKeeps, WriteSupervisorKeeps,
     WriteDealerUserKeeps, WriteProfileKeeps, WriteStatusKeeps, AbortKeeps
<1>4. CASE UNCHANGED vars
  BY <1>4 DEF vars, AccountsInv, TypeOK, InternalHasNoProfile, SupervisorIsInternal, OpInv
<1>5. CASE \E u \in Users : Forget(u)
  BY <1>5 DEF Forget, NoCrossing, AccountsInv, TypeOK, InternalHasNoProfile,
              SupervisorIsInternal, OpInv
<1> QED
  BY <1>1, <1>2, <1>3, <1>4, <1>5 DEF Next

LEMMA AccountsInvHolds == Spec => []AccountsInv
<1>1. AccountsInv /\ [Next]_vars => AccountsInv'
  BY AccountsNext
<1> QED
  BY <1>1, AccountsInit, PTL DEF Spec

\* Type correctness, for any number of users and operations under way.
THEOREM AccountTypes == Spec => []TypeOK
<1>1. AccountsInv => TypeOK
  BY DEF AccountsInv
<1> QED
  BY <1>1, AccountsInvHolds, PTL

\* No overlap of operations leaves a dealer profile on an internal account.
THEOREM StaffHaveNoProfile == Spec => []InternalHasNoProfile
<1>1. AccountsInv => InternalHasNoProfile
  BY DEF AccountsInv
<1> QED
  BY <1>1, AccountsInvHolds, PTL

\* No overlap of operations makes a customer a billing supervisor.
THEOREM SupervisorsAreStaff == Spec => []SupervisorIsInternal
<1>1. AccountsInv => SupervisorIsInternal
  BY DEF AccountsInv
<1> QED
  BY <1>1, AccountsInvHolds, PTL

\* No operation takes an account across the boundary between customers and
\* staff, however long ago it read the account.
THEOREM NobodyCrosses == Spec => BoundaryKept
<1>1. AccountsInv /\ [Next]_vars =>
        [\A u \in Users : role[u] \in Roles /\ role'[u] \in Roles
           => (role[u] \in Internal <=> role'[u] \in Internal)]_vars
  BY AccountsNext DEF NoCrossing
<1> QED
  BY <1>1, AccountsInvHolds, PTL DEF Spec, BoundaryKept
=============================================================================
