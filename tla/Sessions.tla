------------------------------ MODULE Sessions ------------------------------
(***************************************************************************)
(* One account's password, its tokenVersion and the requests that read the   *)
(* version to let a session in, through the 60 s record protect keeps in     *)
(* Redis.                                                                    *)
(*                                                                          *)
(* A token is abstracted to the tokenVersion it carries and the password its *)
(* holder proved to know; a password to the tokenVersion its update gave.    *)
(* Expiry and rotation of tokens are left out: refreshToken compares with    *)
(* the database and gives a token of the version it was shown.               *)
(***************************************************************************)
EXTENDS Naturals

CONSTANTS
    Requests,       \* requests under way at once
    MaxVersion      \* bound: updates of the account

ASSUME SessionsAssumption == MaxVersion \in Nat

VARIABLES
    version,        \* User.tokenVersion
    password,       \* User.password
    cache,          \* protect:user:{id}: the tokenVersion in the record, or Miss
    tokens,         \* the tokens issued
    req             \* req[r]: what request r is doing

vars == <<version, password, cache, tokens, req>>

Versions == 0..MaxVersion
Miss == MaxVersion + 1
Token == [tv : Versions, password : Versions]

Request == [pc : {"over", "lookup", "read", "store", "in", "refused",
                  "update", "evict", "answer"},
            token : Token,       \* the one it was sent with
            seen : Versions]     \* the version it read or, later, gave

FirstToken == [tv |-> 0, password |-> 0]
NoRequest == [pc |-> "over", token |-> FirstToken, seen |-> 0]

Init ==
    /\ version = 0 /\ password = 0
    /\ cache = Miss
    /\ tokens = {FirstToken}
    /\ req = [r \in Requests |-> NoRequest]

Move(r, pc) == req' = [req EXCEPT ![r].pc = pc]

-----------------------------------------------------------------------------
(* protect.ts                                                               *)

\* A request with a token that verifies.
Arrive(r) ==
    /\ req[r].pc = "over"
    /\ \E t \in tokens :
         req' = [req EXCEPT ![r] = [pc |-> "lookup", token |-> t, seen |-> 0]]
    /\ UNCHANGED <<version, password, cache, tokens>>

\* The handler runs when the token's version is the record's; else 401.
Admit(r, v) == Move(r, IF req[r].token.tv = v THEN "in" ELSE "refused")

Refuse(r) ==
    /\ req[r].pc = "refused"
    /\ Move(r, "over")
    /\ UNCHANGED <<version, password, cache, tokens>>

\* GET; a failure of Redis counts as a miss.
Lookup(r) ==
    /\ req[r].pc = "lookup"
    /\ \/ cache # Miss /\ Admit(r, cache)
       \/ Move(r, "read")
    /\ UNCHANGED <<version, password, cache, tokens>>

ReadUser(r) ==
    /\ req[r].pc = "read"
    /\ req' = [req EXCEPT ![r].pc = "store", ![r].seen = version]
    /\ UNCHANGED <<version, password, cache, tokens>>

\* SETEX, best effort and after the read: the record may be an old one by now.
StoreRecord(r) ==
    /\ req[r].pc = "store"
    /\ cache' \in {cache, req[r].seen}
    /\ Admit(r, req[r].seen)
    /\ UNCHANGED <<version, password, tokens>>

\* Mutant: the record is kept without a time to live.
NeverExpire == FALSE /\ UNCHANGED vars

\* The record's 60 s are over.
Expire ==
    /\ cache # Miss
    /\ cache' = Miss
    /\ UNCHANGED <<version, password, tokens, req>>

-----------------------------------------------------------------------------
(* auth.service.ts, and the updates that raise tokenVersion.                *)

\* Any other handler.
Serve(r) ==
    /\ req[r].pc = "in"
    /\ Move(r, "over")
    /\ UNCHANGED <<version, password, cache, tokens>>

\* changeOwnPassword: the current password given is the one the session's
\* owner knows; it is compared with the one read.
VerifyCurrent(r) ==
    /\ req[r].pc = "in"
    /\ req[r].token.password = password
    /\ Move(r, "update")
    /\ UNCHANGED <<version, password, cache, tokens>>

Raise == version < MaxVersion /\ version' = version + 1

\* updateUserPassword, then the evict of the record.
UpdateOwn(r) ==
    /\ req[r].pc = "update"
    /\ Raise
    /\ password' = version + 1
    /\ req' = [req EXCEPT ![r].pc = "evict", ![r].seen = version + 1]
    /\ UNCHANGED <<cache, tokens>>

\* DEL, best effort.
Evict(r) ==
    /\ req[r].pc = "evict"
    /\ cache' \in {cache, Miss}
    /\ Move(r, IF req[r].seen = 0 THEN "over" ELSE "answer")
    /\ UNCHANGED <<version, password, tokens>>

\* The user is read again, and the caller gets tokens of the version read.
AnswerOwn(r) ==
    /\ req[r].pc = "answer"
    /\ tokens' = tokens \cup {[tv |-> version, password |-> req[r].seen]}
    /\ Move(r, "over")
    /\ UNCHANGED <<version, password, cache>>

\* resetPassword, updateAdminPassword, resetSuperAdminPassword set another
\* password; updateDealerStatus raises the version and keeps it.
UpdateByOther(r) ==
    /\ req[r].pc = "over"
    /\ Raise
    /\ password' \in {password, version + 1}
    /\ req' = [req EXCEPT ![r].pc = "evict", ![r].seen = 0]
    /\ UNCHANGED <<cache, tokens>>

\* signin reads the password and the version in one row.
SignIn ==
    /\ tokens' = tokens \cup {[tv |-> version, password |-> password]}
    /\ UNCHANGED <<version, password, cache, req>>

-----------------------------------------------------------------------------
Run(r) ==
    \/ Lookup(r) \/ ReadUser(r) \/ StoreRecord(r) \/ Serve(r) \/ Refuse(r)
    \/ UpdateOwn(r) \/ Evict(r) \/ AnswerOwn(r)

Next ==
    \/ SignIn
    \/ Expire
    \/ \E r \in Requests : Arrive(r) \/ Run(r) \/ VerifyCurrent(r) \/ UpdateByOther(r)

\* A record expires, and a request that has arrived is run to its end.
Spec == Init /\ [][Next]_vars /\ WF_vars(Expire) /\ \A r \in Requests : WF_vars(Run(r))

-----------------------------------------------------------------------------
TypeOK ==
    /\ version \in Versions /\ password \in Versions
    /\ cache \in Versions \cup {Miss}
    /\ tokens \subseteq Token
    /\ req \in [Requests -> Request]

\* A record or a read under way that would let version v in.
Admits(v) == cache = v \/ \E r \in Requests : req[r].pc = "store" /\ req[r].seen = v

\* However late a record of the old version is written, and even when no evict
\* works, the sessions of an old version end: within the record's life after
\* the last request that read the old version, nothing lets them in again.
OldSessionsEnd == \A v \in Versions : version > v ~> [](~Admits(v))
=============================================================================
