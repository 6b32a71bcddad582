---------------------------- MODULE Registration ----------------------------
(***************************************************************************)
(* The registration of one e-mail address: the code in Redis, its counter of *)
(* failed attempts, the cooldown of a resend, and the account made at the    *)
(* end.  Every Redis command, mail and statement is a step of its own.       *)
(*                                                                          *)
(* Time is abstracted to the order in which keys end.  Redis rounds a        *)
(* remaining life to whole seconds: a counter given the life of a code may   *)
(* end in that code's last half second, in which the life reads 0.  Codes    *)
(* are numbered, so two of them never agree by chance.  The code by phone is *)
(* switched off, which is its default.                                       *)
(***************************************************************************)
EXTENDS FiniteSets, Naturals, Sequences

CONSTANTS
    Requests,       \* requests under way at once
    Phones,
    MaxAttempts,    \* OTP_MAX_VERIFY_ATTEMPTS
    MaxCodes,       \* bound: codes made for the address
    MaxDeaths       \* bound: requests that die half-way

ASSUME RegistrationAssumption ==
    /\ IsFiniteSet(Requests)
    /\ MaxAttempts \in Nat \ {0} /\ MaxCodes \in Nat /\ MaxDeaths \in Nat

VARIABLES
    otp,            \* the code stored, 0 without one
    ending,         \* that code is in its last half second
    attempts,       \* the counter of failed attempts, 0 without one
    lasting,        \* the counter lives as long as the code, or nearly, or not
    cooldown,       \* the cooldown key is there
    codes,          \* codes[c]: what code c was asked for
    mailed,         \* the codes that have reached their owner
    account,        \* the User row made, or NoAccount
    req,            \* req[r]: what request r is doing
    misses,         \* history. misses[c]: wrong codes compared with code c
    deaths          \* history: requests that died

redis == <<otp, ending, attempts, lasting, cooldown>>
history == <<misses, deaths>>
vars == <<otp, ending, attempts, lasting, cooldown, codes, mailed, account, req, misses, deaths>>

Code == 1..MaxCodes
Lives == {"no", "nearly", "yes"}
Purpose == [phone : Phones, dealer : BOOLEAN]
NoAccount == [made |-> FALSE]
Account == {NoAccount}
           \cup [made : {TRUE}, phone : Phones, profile : BOOLEAN, session : BOOLEAN]

\* code is the one made, or compared; until the code whose remaining life, as
\* rounded, was read, 0 for a whole life.
Idle == [pc |-> "idle"]
Request == {Idle}
    \cup [pc : {"ask", "store"}, for : Purpose]
    \cup [pc : {"mail"}, code : Code]
    \cup [pc : {"clear"}]
    \cup [pc : {"get"}, for : Purpose, guess : 0..MaxCodes]
    \cup [pc : {"ttl"}]
    \cup [pc : {"incr", "expire"}, until : 0..MaxCodes]
    \cup [pc : {"use", "create", "profile", "answer"}, for : Purpose, code : Code]

Init ==
    /\ otp = 0 /\ ending = FALSE /\ attempts = 0 /\ lasting = "yes" /\ cooldown = FALSE
    /\ codes = <<>> /\ mailed = {}
    /\ account = NoAccount
    /\ req = [r \in Requests |-> Idle]
    /\ misses = [c \in Code |-> 0] /\ deaths = 0

Go(r, next) == req' = [req EXCEPT ![r] = next]

-----------------------------------------------------------------------------
(* requestRegistrationOtp, createRegistrationOtp.                           *)

Ask(r, p) ==
    /\ req[r].pc = "idle"
    /\ ~account.made
    /\ Go(r, [pc |-> "ask", for |-> p])
    /\ UNCHANGED <<redis, codes, mailed, account, history>>

CheckCooldown(r) ==
    /\ req[r].pc = "ask"
    /\ Go(r, IF cooldown THEN Idle ELSE [pc |-> "store", for |-> req[r].for])
    /\ UNCHANGED <<redis, codes, mailed, account, history>>

\* One MULTI: code, cooldown and counter change together.
StoreCode(r) ==
    /\ req[r].pc = "store"
    /\ Len(codes) < MaxCodes
    /\ codes' = Append(codes, req[r].for)
    /\ otp' = Len(codes) + 1 /\ ending' = FALSE
    /\ cooldown' = TRUE
    /\ attempts' = 0 /\ lasting' = "yes"
    /\ Go(r, [pc |-> "mail", code |-> Len(codes) + 1])
    /\ UNCHANGED <<mailed, account, history>>

\* sendEmail. A mail that is reported as failed may have arrived.
Mail(r) ==
    /\ req[r].pc = "mail"
    /\ \/ mailed' = mailed \cup {req[r].code} /\ Go(r, Idle)
       \/ mailed' \in {mailed, mailed \cup {req[r].code}} /\ Go(r, [pc |-> "clear"])
    /\ UNCHANGED <<redis, codes, account, history>>

\* clearRegistrationOtp: whatever is stored for the address by now.
Clear(r) ==
    /\ req[r].pc = "clear"
    /\ otp' = 0 /\ ending' = FALSE /\ attempts' = 0 /\ lasting' = "yes"
    /\ cooldown' = FALSE
    /\ Go(r, Idle)
    /\ UNCHANGED <<codes, mailed, account, history>>

-----------------------------------------------------------------------------
(* verifyAndConsumeRegistrationOtp, registerFailedAttempt.                  *)

\* The customer types a code he was sent, or a wrong one (0).
Register(r, p, guess) ==
    /\ req[r].pc = "idle"
    /\ ~account.made
    /\ guess \in {0} \cup mailed
    /\ Go(r, [pc |-> "get", for |-> p, guess |-> guess])
    /\ UNCHANGED <<redis, codes, mailed, account, history>>

GetAndCompare(r) ==
    /\ req[r].pc = "get"
    /\ IF otp = 0
       THEN Go(r, Idle) /\ UNCHANGED misses
       ELSE IF req[r].guess = otp /\ req[r].for.phone = codes[otp].phone
            THEN /\ Go(r, [pc |-> "use", for |-> req[r].for, code |-> otp])
                 /\ UNCHANGED misses
            ELSE /\ Go(r, [pc |-> "ttl"])
                 /\ misses' = [misses EXCEPT ![otp] = @ + 1]
    /\ UNCHANGED <<redis, codes, mailed, account, deaths>>

\* resolveOtpTtl: of the code there now; a whole life when there is none or its
\* own rounds to 0.
ReadTtl(r) ==
    /\ req[r].pc = "ttl"
    /\ Go(r, [pc |-> "incr", until |-> IF ending THEN 0 ELSE otp])
    /\ UNCHANGED <<redis, codes, mailed, account, history>>

\* Mutant: the attempt that reaches the limit is let pass.
JudgeLate(n) == IF n > MaxAttempts THEN [pc |-> "clear"] ELSE Idle

\* LOCKED when no attempt remains, else INVALID.
Judge(n) == IF n >= MaxAttempts THEN [pc |-> "clear"] ELSE Idle

\* INCR. A key made by it has no end until EXPIRE.
CountMiss(r) ==
    /\ req[r].pc = "incr"
    /\ attempts' = attempts + 1
    /\ Go(r, IF attempts = 0 THEN [pc |-> "expire", until |-> req[r].until]
                             ELSE Judge(attempts + 1))
    /\ UNCHANGED <<otp, ending, lasting, cooldown, codes, mailed, account, history>>

\* EXPIRE, by a second or more: it outlasts a code that is ending.  The life
\* read may be that of a code replaced since.
LimitCounter(r) ==
    /\ req[r].pc = "expire"
    /\ lasting' = IF attempts = 0 \/ otp = 0 \/ ending \/ req[r].until = 0 THEN "yes"
                  ELSE IF req[r].until = otp THEN "nearly" ELSE "no"
    /\ Go(r, Judge(1))
    /\ UNCHANGED <<otp, ending, attempts, cooldown, codes, mailed, account, history>>

\* One MULTI.
UseCode(r) ==
    /\ req[r].pc = "use"
    /\ otp' = 0 /\ ending' = FALSE /\ attempts' = 0 /\ lasting' = "yes"
    /\ Go(r, IF req[r].for.dealer /\ ~codes[req[r].code].dealer
             THEN Idle
             ELSE [req[r] EXCEPT !.pc = "create"])
    /\ UNCHANGED <<cooldown, codes, mailed, account, history>>

-----------------------------------------------------------------------------
(* The rest of registerUser.                                                *)

\* Mutant: the purpose is taken from the form and not from the code.
CreateUserAsAsked(r) ==
    /\ req[r].pc = "create"
    /\ IF account.made
       THEN Go(r, Idle) /\ UNCHANGED account
       ELSE /\ account' = [made |-> TRUE, phone |-> req[r].for.phone,
                           profile |-> FALSE, session |-> FALSE]
            /\ Go(r, [req[r] EXCEPT !.pc = IF req[r].for.dealer
                                           THEN "profile" ELSE "answer"])
    /\ UNCHANGED <<redis, codes, mailed, history>>

\* User.email is unique: the second of two is refused.
CreateUser(r) ==
    /\ req[r].pc = "create"
    /\ IF account.made
       THEN Go(r, Idle) /\ UNCHANGED account
       ELSE /\ account' = [made |-> TRUE, phone |-> req[r].for.phone,
                           profile |-> FALSE, session |-> FALSE]
            /\ Go(r, [req[r] EXCEPT !.pc = IF codes[req[r].code].dealer
                                           THEN "profile" ELSE "answer"])
    /\ UNCHANGED <<redis, codes, mailed, history>>

\* upsertDealerProfile, PENDING; no tokens are given.
CreateProfile(r) ==
    /\ req[r].pc = "profile"
    /\ account' = [account EXCEPT !.profile = TRUE]
    /\ Go(r, Idle)
    /\ UNCHANGED <<redis, codes, mailed, history>>

\* The tokens of a customer's session.
SignUp(r) ==
    /\ req[r].pc = "answer"
    /\ account' = [account EXCEPT !.session = TRUE]
    /\ Go(r, Idle)
    /\ UNCHANGED <<redis, codes, mailed, history>>

-----------------------------------------------------------------------------
(* Time and failures.                                                       *)

LastHalfSecond ==
    /\ otp # 0 /\ ~ending
    /\ ending' = TRUE
    /\ UNCHANGED <<otp, attempts, lasting, cooldown, codes, mailed, account, req, history>>

ExpireCode ==
    /\ ending
    /\ otp' = 0 /\ ending' = FALSE
    /\ UNCHANGED <<attempts, lasting, cooldown, codes, mailed, account, req, history>>

ExpireCooldown ==
    /\ cooldown
    /\ cooldown' = FALSE
    /\ UNCHANGED <<otp, ending, attempts, lasting, codes, mailed, account, req, history>>

ExpireCounter ==
    /\ attempts # 0
    /\ \/ lasting = "no" \/ otp = 0
       \/ lasting = "nearly" /\ ending
    /\ attempts' = 0 /\ lasting' = "yes"
    /\ UNCHANGED <<otp, ending, cooldown, codes, mailed, account, req, history>>

\* A command or statement fails, or the process dies.
Die(r) ==
    /\ req[r].pc # "idle"
    /\ deaths < MaxDeaths
    /\ deaths' = deaths + 1
    /\ Go(r, Idle)
    /\ UNCHANGED <<redis, codes, mailed, account, misses>>

Next ==
    \/ LastHalfSecond \/ ExpireCode \/ ExpireCooldown \/ ExpireCounter
    \/ \E r \in Requests :
         \/ \E p \in Purpose : Ask(r, p) \/ \E g \in 0..MaxCodes : Register(r, p, g)
         \/ CheckCooldown(r) \/ StoreCode(r) \/ Mail(r) \/ Clear(r)
         \/ GetAndCompare(r) \/ ReadTtl(r) \/ CountMiss(r) \/ LimitCounter(r)
         \/ UseCode(r) \/ CreateUser(r) \/ CreateProfile(r) \/ SignUp(r)
         \/ Die(r)

Spec == Init /\ [][Next]_vars

-----------------------------------------------------------------------------
TypeOK ==
    /\ otp \in 0..Len(codes) /\ attempts \in Nat
    /\ ending \in BOOLEAN /\ lasting \in Lives /\ cooldown \in BOOLEAN
    /\ codes \in Seq(Purpose) /\ Len(codes) <= MaxCodes
    /\ mailed \subseteq 1..Len(codes)
    /\ account \in Account
    /\ req \in [Requests -> Request]
    /\ misses \in [Code -> Nat] /\ deaths \in Nat

\* However requests overlap, an account has the phone of one code that reached
\* its owner, a dealer's profile only if that code was asked for by the dealer
\* form, and a session only if it was not.
AccountFollowsCode ==
    account.made =>
        \E c \in mailed :
            /\ account.phone = codes[c].phone
            /\ account.profile => codes[c].dealer
            /\ account.session => ~codes[c].dealer

\* A code is compared with MaxAttempts wrong ones for each request that can be
\* under way at once, one more for each that died before it could count or
\* clear, and MaxAttempts - 1 more when the rounded life of the counter ends in
\* the code's last half second: requests one by one pass the limit by those.
GuessesBounded ==
    \A c \in Code :
      misses[c] <= Cardinality(Requests) * MaxAttempts + (MaxAttempts - 1) + deaths
=============================================================================
