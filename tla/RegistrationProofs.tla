------------------------- MODULE RegistrationProofs -------------------------
(***************************************************************************)
(* What is proved of Registration, for any number of requests and codes: the *)
(* account a registration makes is the one its code was asked for, and the   *)
(* wrong guesses at a code are bounded.                                      *)
(***************************************************************************)
EXTENDS Registration, FiniteSetTheorems, TLAPS

Verified == {"use", "create", "profile", "answer"}

\* What request q carries: a code that exists, or one that reached its owner
\* and was asked for with the same phone.
Carries(q) ==
    /\ q.pc = "mail" => q.code \in 1..Len(codes)
    /\ q.pc = "get" => q.guess \in {0} \cup mailed
    /\ q.pc \in Verified => /\ q.code \in mailed
                            /\ q.for.phone = codes[q.code].phone
    /\ q.pc = "profile" => codes[q.code].dealer
    /\ q.pc = "answer" => ~codes[q.code].dealer

\* The account is of code c, and so is every request that is completing it.
MadeWith(c) ==
    /\ account.phone = codes[c].phone
    /\ account.profile => codes[c].dealer
    /\ account.session => ~codes[c].dealer
    /\ \A r \in Requests : req[r].pc \in {"profile", "answer"} => req[r].code = c

RegistrationInv ==
    /\ TypeOK
    /\ \A r \in Requests : Carries(req[r])
    /\ IF account.made
       THEN \E c \in mailed : MadeWith(c)
       ELSE \A r \in Requests : req[r].pc \notin {"profile", "answer"}

-----------------------------------------------------------------------------
\* What a request consists of, by what it is doing.
LEMMA RequestShape ==
    ASSUME NEW q \in Request
    PROVE  /\ q.pc \in {"ask", "store"} => q = [pc |-> q.pc, for |-> q.for] /\ q.for \in Purpose
           /\ q.pc = "mail" => q.code \in Code
           /\ q.pc = "get" => q.for \in Purpose /\ q.guess \in 0..MaxCodes
           /\ q.pc \in {"incr", "expire"} => q.until \in 0..MaxCodes
           /\ q.pc \in Verified =>
                /\ q = [pc |-> q.pc, for |-> q.for, code |-> q.code]
                /\ q.for \in Purpose /\ q.code \in Code
<1>1. CASE q = Idle
  BY <1>1 DEF Idle, Verified
<1>2. CASE q \in [pc : {"ask", "store"}, for : Purpose]
  BY <1>2 DEF Verified
<1>3. CASE q \in [pc : {"mail"}, code : Code]
  BY <1>3 DEF Verified
<1>4. CASE q \in [pc : {"clear"}] \cup [pc : {"ttl"}]
  BY <1>4 DEF Verified
<1>5. CASE q \in [pc : {"get"}, for : Purpose, guess : 0..MaxCodes]
  BY <1>5 DEF Verified
<1>6. CASE q \in [pc : {"incr", "expire"}, until : 0..MaxCodes]
  BY <1>6 DEF Verified
<1>7. CASE q \in [pc : Verified, for : Purpose, code : Code]
  BY <1>7 DEF Verified
<1> QED
  BY <1>1, <1>2, <1>3, <1>4, <1>5, <1>6, <1>7 DEF Request, Verified

LEMMA RegistrationInit == Init => RegistrationInv
<1> SUFFICES ASSUME Init PROVE RegistrationInv
  OBVIOUS
<1>1. Idle \in Request /\ NoAccount \in Account
  BY DEF Request, Account
<1>2. TypeOK
  <2>1. codes \in Seq(Purpose) /\ Len(codes) = 0
    BY DEF Init
  <2>2. req \in [Requests -> Request] /\ misses \in [Code -> Nat]
    BY <1>1 DEF Init
  <2>3. account \in Account
    BY <1>1 DEF Init
  <2>4. /\ otp = 0 /\ ending = FALSE /\ attempts = 0 /\ lasting = "yes" /\ cooldown = FALSE
        /\ mailed = {} /\ deaths = 0
    BY DEF Init
  <2>5. otp \in 0..Len(codes) /\ mailed \subseteq 1..Len(codes) /\ Len(codes) <= MaxCodes
    BY <2>1, <2>4, RegistrationAssumption
  <2> QED
    BY <2>1, <2>2, <2>3, <2>4, <2>5 DEF TypeOK, Lives
<1>3. \A r \in Requests : req[r].pc = "idle"
  BY DEF Init, Idle
<1> QED
  BY <1>2, <1>3 DEF Init, RegistrationInv, Carries, Verified, NoAccount

\* A step in which one request goes on to q, no code or mail is taken back, and
\* the account stays.
LEMMA OneGoesOn ==
    ASSUME RegistrationInv, NEW r \in Requests, NEW q \in Request, Go(r, q),
           UNCHANGED account, Carries(q)', mailed \subseteq mailed',
           Len(codes) <= Len(codes'), Len(codes') \in Nat,
           \A c \in 1..Len(codes) : codes'[c] = codes[c],
           q.pc \notin {"profile", "answer"}
    PROVE  /\ \A s \in Requests : Carries(req[s])'
           /\ req' \in [Requests -> Request]
           /\ IF account'.made
              THEN \E c \in mailed' : MadeWith(c)'
              ELSE \A s \in Requests : req'[s].pc \notin {"profile", "answer"}
<1> USE DEF RegistrationInv, TypeOK
<1>1. req' = [req EXCEPT ![r] = q] /\ req' \in [Requests -> Request]
  BY DEF Go
<1>2. \A s \in Requests : req'[s] = IF s = r THEN q ELSE req[s]
  BY <1>1
<1>3. \A s \in Requests : Carries(req[s])'
  <2> TAKE s \in Requests
  <2>1. CASE s = r
    BY <2>1, <1>2 DEF Carries
  <2>2. CASE s # r
    <3>1. req'[s] = req[s] /\ Carries(req[s])
      BY <2>2, <1>2
    <3>2. \A c \in mailed : c \in 1..Len(codes) /\ codes'[c] = codes[c]
      OBVIOUS
    <3>3. 1..Len(codes) \subseteq 1..Len(codes')
      OBVIOUS
    <3>4. req[s].pc \in {"profile", "answer"} => req[s].pc \in Verified
      BY DEF Verified
    <3> HIDE DEF RegistrationInv, TypeOK
    <3> QED
      BY <3>1, <3>2, <3>3, <3>4 DEF Carries
  <2> QED
    BY <2>1, <2>2
<1>4. CASE account.made
  <2>1. PICK c \in mailed : MadeWith(c)
    BY <1>4
  <2>2. MadeWith(c)'
    BY <2>1, <1>2 DEF MadeWith
  <2> QED
    BY <1>3, <1>1, <1>4, <2>1, <2>2
<1>5. CASE ~account.made
  BY <1>1, <1>2, <1>3, <1>5
<1> QED
  BY <1>4, <1>5

-----------------------------------------------------------------------------
(* The steps.                                                               *)

\* A step after which the request is idle, whatever happens to Redis.
LEMMA GoesIdle ==
    ASSUME RegistrationInv, NEW r \in Requests, Go(r, Idle),
           UNCHANGED <<codes, account>>, mailed \subseteq mailed',
           otp' \in 0..Len(codes), attempts' \in Nat,
           lasting' \in Lives /\ ending' \in BOOLEAN, cooldown' \in BOOLEAN,
           mailed' \subseteq 1..Len(codes), misses' = misses, deaths' \in Nat
    PROVE  RegistrationInv'
<1>1. Idle \in Request /\ Idle.pc = "idle"
  BY DEF Idle, Request
<1>2. Carries(Idle)'
  BY <1>1 DEF Carries, Verified
<1>3. /\ \A s \in Requests : Carries(req[s])'
      /\ req' \in [Requests -> Request]
      /\ IF account'.made
         THEN \E c \in mailed' : MadeWith(c)'
         ELSE \A s \in Requests : req'[s].pc \notin {"profile", "answer"}
  <2>1. Len(codes) <= Len(codes') /\ Len(codes') \in Nat
    BY DEF RegistrationInv, TypeOK
  <2> QED
    BY <1>1, <1>2, <2>1, OneGoesOn
<1>4. TypeOK'
  BY <1>3 DEF RegistrationInv, TypeOK
<1> QED
  BY <1>3, <1>4 DEF RegistrationInv

\* A step after which the request does something else short of completing an
\* account, whatever happens to Redis.
LEMMA GoesOn ==
    ASSUME RegistrationInv, NEW r \in Requests, NEW q \in Request, Go(r, q),
           q.pc \notin {"profile", "answer"}, Carries(q)',
           UNCHANGED <<codes, mailed, account, deaths>>,
           otp' \in 0..Len(codes), attempts' \in Nat,
           lasting' \in Lives /\ ending' \in BOOLEAN, cooldown' \in BOOLEAN,
           misses' \in [Code -> Nat]
    PROVE  RegistrationInv'
<1>1. /\ \A s \in Requests : Carries(req[s])'
      /\ req' \in [Requests -> Request]
      /\ IF account'.made
         THEN \E c \in mailed' : MadeWith(c)'
         ELSE \A s \in Requests : req'[s].pc \notin {"profile", "answer"}
  <2>1. Len(codes) <= Len(codes') /\ Len(codes') \in Nat
    BY DEF RegistrationInv, TypeOK
  <2> QED
    BY <2>1, OneGoesOn
<1>2. TypeOK'
  BY <1>1 DEF RegistrationInv, TypeOK
<1> QED
  BY <1>1, <1>2 DEF RegistrationInv

LEMMA AskStep ==
    ASSUME RegistrationInv, NEW r \in Requests,
           (\E p \in Purpose : Ask(r, p)) \/ CheckCooldown(r) \/ StoreCode(r) \/ Mail(r) \/ Clear(r)
    PROVE  RegistrationInv'
<1> USE DEF redis, history
<1>0. req[r] \in Request /\ Carries(req[r])
  BY DEF RegistrationInv, TypeOK
<1>1. ASSUME NEW p \in Purpose, Ask(r, p) PROVE RegistrationInv'
  <2> DEFINE q == [pc |-> "ask", for |-> p]
  <2>1. q \in Request /\ q.pc = "ask"
    BY DEF Request
  <2>2. Carries(q)'
    BY <2>1 DEF Carries, Verified
  <2> QED
    BY <1>1, <2>1, <2>2, GoesOn DEF Ask, RegistrationInv, TypeOK
<1>2. CASE CheckCooldown(r)
  <2>1. PICK q \in Request : q = [pc |-> "store", for |-> req[r].for]
    BY <1>0, <1>2, RequestShape DEF Request, CheckCooldown
  <2>2. Carries(q)'
    BY <2>1 DEF Carries, Verified
  <2>3. CASE cooldown
    BY <1>2, <2>3, GoesIdle DEF CheckCooldown, RegistrationInv, TypeOK
  <2>4. CASE ~cooldown
    BY <1>2, <2>1, <2>2, <2>4, GoesOn DEF CheckCooldown, RegistrationInv, TypeOK
  <2> QED
    BY <2>3, <2>4
<1>3. CASE StoreCode(r)
  <2>0. PICK c \in Nat : c = Len(codes) + 1
    BY DEF RegistrationInv, TypeOK
  <2>1. /\ codes' = Append(codes, req[r].for) /\ req[r].for \in Purpose
        /\ codes \in Seq(Purpose) /\ Len(codes) < MaxCodes /\ mailed \subseteq 1..Len(codes)
    BY <1>0, <1>3, RequestShape DEF StoreCode, RegistrationInv, TypeOK
  <2>2. /\ codes' \in Seq(Purpose) /\ Len(codes') = c /\ Len(codes) \in Nat
        /\ \A d \in 1..Len(codes) : codes'[d] = codes[d]
    BY <2>0, <2>1
  <2>3. c \in Code /\ c \in 1..Len(codes') /\ Len(codes') <= MaxCodes
    BY <2>0, <2>1, <2>2, RegistrationAssumption DEF Code
  <2>4. PICK q \in Request : q = [pc |-> "mail", code |-> c]
    BY <2>3 DEF Request
  <2>5. Carries(q)'
    BY <2>3, <2>4 DEF Carries, Verified
  <2>6. Go(r, q) /\ UNCHANGED <<mailed, account, misses, deaths>>
    BY <1>3, <2>0, <2>4 DEF StoreCode
  <2>7. /\ \A s \in Requests : Carries(req[s])'
        /\ req' \in [Requests -> Request]
        /\ IF account'.made
           THEN \E d \in mailed' : MadeWith(d)'
           ELSE \A s \in Requests : req'[s].pc \notin {"profile", "answer"}
    <3>1. Len(codes) <= Len(codes') /\ Len(codes') \in Nat
      BY <2>0, <2>2
    <3>2. q.pc \notin {"profile", "answer"} /\ mailed \subseteq mailed' /\ UNCHANGED account
      BY <2>4, <2>6
    <3> QED
      BY <2>2, <2>4, <2>5, <2>6, <3>1, <3>2, OneGoesOn
  <2>8. /\ otp' \in 0..Len(codes') /\ attempts' \in Nat
        /\ lasting' \in Lives /\ ending' \in BOOLEAN /\ cooldown' \in BOOLEAN
    <3>1. otp' = c /\ attempts' = 0 /\ lasting' = "yes" /\ ending' = FALSE /\ cooldown' = TRUE
      BY <1>3, <2>0 DEF StoreCode
    <3>2. c \in 0..Len(codes')
      BY <2>2
    <3> QED
      BY <3>1, <3>2 DEF Lives
  <2>9. mailed' \subseteq 1..Len(codes')
    BY <2>1, <2>2, <2>6
  <2>10. TypeOK'
    BY <2>2, <2>3, <2>6, <2>7, <2>8, <2>9 DEF RegistrationInv, TypeOK
  <2> QED
    BY <2>7, <2>10 DEF RegistrationInv
<1>4. CASE Mail(r)
  <2> DEFINE q == [pc |-> "clear"]
  <2>1. q \in Request /\ q.pc = "clear"
    BY DEF Request
  <2>2. Carries(q)'
    BY <2>1 DEF Carries, Verified
  <2>3. req[r].code \in 1..Len(codes)
    BY <1>0, <1>4 DEF Mail, Carries
  <2>4. mailed \subseteq mailed' /\ mailed' \subseteq 1..Len(codes)
    BY <1>4, <2>3 DEF Mail, RegistrationInv, TypeOK
  <2>5. UNCHANGED <<otp, ending, attempts, lasting, cooldown, codes, account, misses, deaths>>
    BY <1>4 DEF Mail
  <2>6. CASE Go(r, Idle)
    BY <2>4, <2>5, <2>6, GoesIdle DEF RegistrationInv, TypeOK
  <2>7. CASE Go(r, q)
    <3>1. /\ \A s \in Requests : Carries(req[s])'
          /\ req' \in [Requests -> Request]
          /\ IF account'.made
             THEN \E d \in mailed' : MadeWith(d)'
             ELSE \A s \in Requests : req'[s].pc \notin {"profile", "answer"}
      <4>1. Len(codes) <= Len(codes') /\ Len(codes') \in Nat
        BY <2>5 DEF RegistrationInv, TypeOK
      <4> QED
        BY <2>1, <2>2, <2>4, <2>5, <2>7, <4>1, OneGoesOn
    <3>2. TypeOK'
      BY <2>4, <2>5, <3>1 DEF RegistrationInv, TypeOK
    <3> QED
      BY <3>1, <3>2 DEF RegistrationInv
  <2> QED
    BY <1>4, <2>6, <2>7 DEF Mail
<1>5. CASE Clear(r)
  <2>1. 0 \in 0..Len(codes) /\ mailed \subseteq 1..Len(codes) /\ deaths \in Nat
    BY DEF RegistrationInv, TypeOK
  <2> QED
    BY <1>5, <2>1, GoesIdle DEF Clear, Lives
<1> QED
  BY <1>1, <1>2, <1>3, <1>4, <1>5

LEMMA VerifyStep ==
    ASSUME RegistrationInv, NEW r \in Requests,
           \/ \E p \in Purpose, g \in 0..MaxCodes : Register(r, p, g)
           \/ GetAndCompare(r) \/ ReadTtl(r) \/ CountMiss(r)
           \/ LimitCounter(r) \/ UseCode(r)
    PROVE  RegistrationInv'
<1> USE DEF redis, history
<1>0. /\ req[r] \in Request /\ Carries(req[r])
      /\ otp \in 0..Len(codes) /\ 0 \in 0..Len(codes) /\ 0..Len(codes) \subseteq 0..MaxCodes
      /\ attempts \in Nat /\ lasting \in Lives /\ ending \in BOOLEAN /\ cooldown \in BOOLEAN
      /\ mailed \subseteq 1..Len(codes) /\ mailed \subseteq Code
      /\ misses \in [Code -> Nat] /\ deaths \in Nat
  BY RegistrationAssumption DEF RegistrationInv, TypeOK, Code
<1>1. ASSUME NEW p \in Purpose, NEW g \in 0..MaxCodes, Register(r, p, g)
      PROVE  RegistrationInv'
  <2>1. PICK q \in Request : q = [pc |-> "get", for |-> p, guess |-> g]
    BY DEF Request
  <2>2. Carries(q)'
    BY <1>1, <2>1 DEF Carries, Verified, Register
  <2> QED
    BY <1>0, <1>1, <2>1, <2>2, GoesOn DEF Register
<1>2. CASE GetAndCompare(r)
  <2>1. CASE otp = 0
    BY <1>0, <1>2, <2>1, GoesIdle DEF GetAndCompare
  <2>2. CASE otp # 0 /\ req[r].guess = otp /\ req[r].for.phone = codes[otp].phone
    <3>1. otp \in mailed /\ otp \in Code
      BY <1>0, <1>2, <2>2 DEF GetAndCompare, Carries
    <3>2. PICK q \in Request : q = [pc |-> "use", for |-> req[r].for, code |-> otp]
      BY <1>0, <1>2, <3>1, RequestShape DEF Request, GetAndCompare
    <3>3. Go(r, q) /\ UNCHANGED <<redis, codes, mailed, account, misses, deaths>>
      BY <1>2, <2>2, <3>2 DEF GetAndCompare
    <3>4. Carries(q)'
      BY <2>2, <3>1, <3>2, <3>3 DEF Carries, Verified
    <3> QED
      BY <1>0, <3>2, <3>3, <3>4, GoesOn
  <2>3. CASE otp # 0 /\ ~(req[r].guess = otp /\ req[r].for.phone = codes[otp].phone)
    <3>1. PICK q \in Request : q = [pc |-> "ttl"]
      BY DEF Request
    <3>2. Carries(q)'
      BY <3>1 DEF Carries, Verified
    <3>3. /\ Go(r, q) /\ UNCHANGED <<redis, codes, mailed, account, deaths>>
          /\ misses' = [misses EXCEPT ![otp] = @ + 1]
      BY <1>2, <2>3, <3>1 DEF GetAndCompare
    <3>4. misses[otp] + 1 \in Nat /\ misses' \in [Code -> Nat]
      <4>1. otp \in Code
        BY <1>0, <2>3 DEF Code
      <4>2. misses[otp] + 1 \in Nat
        BY <1>0, <4>1
      <4> QED
        BY <1>0, <3>3, <4>2
    <3> QED
      BY <1>0, <3>1, <3>2, <3>3, <3>4, GoesOn
  <2> QED
    BY <2>1, <2>2, <2>3
<1>3. CASE ReadTtl(r)
  <2>1. PICK q \in Request : q = [pc |-> "incr", until |-> IF ending THEN 0 ELSE otp]
    BY <1>0 DEF Request
  <2>2. Carries(q)'
    BY <2>1 DEF Carries, Verified
  <2> QED
    BY <1>0, <1>3, <2>1, <2>2, GoesOn DEF ReadTtl
<1>4. ASSUME NEW n \in Nat, Go(r, Judge(n)), UNCHANGED <<otp, codes, mailed, account, misses, deaths>>,
             attempts' \in Nat, lasting' \in Lives /\ ending' \in BOOLEAN, cooldown' \in BOOLEAN
      PROVE  RegistrationInv'
  <2>1. CASE n >= MaxAttempts
    <3>1. PICK q \in Request : q = [pc |-> "clear"]
      BY DEF Request
    <3>2. Carries(q)'
      BY <3>1 DEF Carries, Verified
    <3> QED
      BY <1>0, <1>4, <2>1, <3>1, <3>2, GoesOn DEF Judge
  <2>2. CASE ~(n >= MaxAttempts)
    BY <1>0, <1>4, <2>2, GoesIdle DEF Judge
  <2> QED
    BY <2>1, <2>2
<1>5. CASE CountMiss(r)
  <2>1. CASE attempts = 0
    <3>1. PICK q \in Request : q = [pc |-> "expire", until |-> req[r].until]
      BY <1>0, <1>5, RequestShape DEF Request, CountMiss
    <3>2. Carries(q)'
      BY <3>1 DEF Carries, Verified
    <3> QED
      BY <1>0, <1>5, <2>1, <3>1, <3>2, GoesOn DEF CountMiss
  <2>2. CASE attempts # 0
    <3>1. attempts + 1 \in Nat
      BY <1>0
    <3> QED
      BY <1>0, <1>4, <1>5, <2>2, <3>1 DEF CountMiss
  <2> QED
    BY <2>1, <2>2
<1>6. CASE LimitCounter(r)
  BY <1>0, <1>4, <1>6 DEF LimitCounter, Lives
<1>7. CASE UseCode(r)
  <2>1. CASE req[r].for.dealer /\ ~codes[req[r].code].dealer
    BY <1>0, <1>7, <2>1, GoesIdle DEF UseCode, Lives
  <2>2. CASE ~(req[r].for.dealer /\ ~codes[req[r].code].dealer)
    <3>1. PICK q \in Request : q = [pc |-> "create", for |-> req[r].for, code |-> req[r].code]
      BY <1>0, <1>7, RequestShape DEF Request, UseCode, Verified
    <3>2. [req[r] EXCEPT !.pc = "create"] = q
      BY <1>0, <1>7, <3>1, RequestShape DEF UseCode, Verified
    <3>3. Carries(q)'
      BY <1>0, <1>7, <3>1 DEF UseCode, Carries, Verified
    <3> QED
      BY <1>0, <1>7, <2>2, <3>1, <3>2, <3>3, GoesOn DEF UseCode, Lives
  <2> QED
    BY <2>1, <2>2
<1> QED
  BY <1>1, <1>2, <1>3, <1>5, <1>6, <1>7

LEMMA AccountStep ==
    ASSUME RegistrationInv, NEW r \in Requests,
           CreateUser(r) \/ CreateProfile(r) \/ SignUp(r)
    PROVE  RegistrationInv'
<1> USE DEF redis, history
<1>0. /\ req[r] \in Request /\ Carries(req[r]) /\ req \in [Requests -> Request]
      /\ account \in Account /\ mailed \subseteq 1..Len(codes) /\ Len(codes) \in Nat
      /\ codes \in Seq(Purpose)
      /\ otp \in 0..Len(codes) /\ attempts \in Nat /\ lasting \in Lives /\ ending \in BOOLEAN /\ cooldown \in BOOLEAN
      /\ misses' = misses /\ deaths' \in Nat
  BY DEF RegistrationInv, TypeOK, CreateUser, CreateProfile, SignUp
<1>1. UNCHANGED <<otp, ending, attempts, lasting, cooldown, codes, mailed, misses, deaths>>
  BY DEF CreateUser, CreateProfile, SignUp
<1>2. ASSUME NEW q \in Request, Go(r, q), Carries(q), account' \in Account, account'.made,
             NEW c \in mailed, MadeWith(c)'
      PROVE  RegistrationInv'
  <2>1. req' \in [Requests -> Request] /\ \A s \in Requests : req'[s] \in {q, req[s]}
    BY <1>0, <1>2 DEF Go
  <2>2. \A s \in Requests : Carries(req[s])'
    BY <1>1, <1>2, <2>1 DEF RegistrationInv, Carries
  <2>3. TypeOK'
    BY <1>1, <1>2, <2>1 DEF RegistrationInv, TypeOK
  <2> QED
    BY <1>1, <1>2, <2>2, <2>3 DEF RegistrationInv
<1>3. CASE CreateUser(r)
  <2>1. req[r].pc = "create" /\ req[r].code \in mailed /\ req[r].for.phone = codes[req[r].code].phone
    BY <1>0, <1>3 DEF CreateUser, Carries, Verified
  <2>2. CASE account.made
    BY <1>0, <1>1, <1>3, <2>2, GoesIdle DEF CreateUser
  <2>3. CASE ~account.made
    <3>1. PICK c \in mailed : c = req[r].code
      BY <2>1
    <3>2. PICK q \in Request :
             q = [pc |-> IF codes[c].dealer THEN "profile" ELSE "answer", for |-> req[r].for, code |-> c]
      BY <1>0, <2>1, <3>1, RequestShape DEF Request, Verified
    <3>3. Go(r, q)
      <4>1. req[r] = [pc |-> "create", for |-> req[r].for, code |-> c]
        BY <1>0, <2>1, <3>1, RequestShape DEF Verified
      <4> QED
        BY <1>3, <2>3, <3>1, <3>2, <4>1 DEF CreateUser
    <3>4. Carries(q)
      BY <2>1, <3>1, <3>2 DEF Carries, Verified
    <3>5. req[r].for.phone \in Phones
      <4>1. req[r].for \in Purpose
        BY <1>0, <2>1, RequestShape DEF Verified
      <4> QED
        BY <4>1 DEF Purpose
    <3>6. account' = [made |-> TRUE, phone |-> req[r].for.phone, profile |-> FALSE, session |-> FALSE]
      BY <1>3, <2>3 DEF CreateUser
    <3>7. account' \in Account /\ account'.made
      BY <3>5, <3>6 DEF Account
    <3>8. \A s \in Requests : s # r => req'[s].pc \notin {"profile", "answer"}
      BY <1>0, <2>3, <3>3 DEF RegistrationInv, Go
    <3>9. req'[r] = q
      BY <1>0, <3>3 DEF Go
    <3>10. MadeWith(c)'
      BY <1>1, <2>1, <3>1, <3>2, <3>6, <3>8, <3>9 DEF MadeWith
    <3> QED
      BY <1>2, <3>3, <3>4, <3>7, <3>10
  <2> QED
    BY <2>2, <2>3
<1>4. CASE CreateProfile(r) \/ SignUp(r)
  <2>1. req[r].pc \in {"profile", "answer"} /\ account.made
    BY <1>4 DEF CreateProfile, SignUp, RegistrationInv
  <2>2. PICK c \in mailed : MadeWith(c)
    BY <2>1 DEF RegistrationInv
  <2>3. req[r].code = c /\ account \in [made : {TRUE}, phone : Phones, profile : BOOLEAN, session : BOOLEAN]
    <3>1. req[r].code = c
      BY <2>1, <2>2 DEF MadeWith
    <3>2. account # NoAccount
      BY <2>1 DEF NoAccount
    <3> QED
      BY <1>0, <3>1, <3>2 DEF Account
  <2>4. Go(r, Idle) /\ Idle \in Request /\ Idle.pc = "idle"
    BY <1>4 DEF CreateProfile, SignUp, Idle, Request
  <2>5. Carries(Idle)
    BY <2>4 DEF Carries, Verified
  <2>6. \A s \in Requests : req'[s].pc \in {"profile", "answer"} => req'[s].code = c
    BY <1>0, <2>2, <2>4 DEF MadeWith, Go
  <2>7. CASE CreateProfile(r)
    <3>1. account' = [account EXCEPT !.profile = TRUE] /\ codes[c].dealer
      BY <1>0, <2>3, <2>7 DEF CreateProfile, Carries
    <3>2. account' \in Account /\ account'.made /\ account'.phone = account.phone
          /\ account'.session = account.session
      BY <2>3, <3>1 DEF Account
    <3>3. MadeWith(c)'
      BY <1>1, <2>2, <2>6, <3>1, <3>2 DEF MadeWith
    <3> QED
      BY <1>2, <2>4, <2>5, <3>2, <3>3
  <2>8. CASE SignUp(r)
    <3>1. account' = [account EXCEPT !.session = TRUE] /\ ~codes[c].dealer
      BY <1>0, <2>3, <2>8 DEF SignUp, Carries
    <3>2. account' \in Account /\ account'.made /\ account'.phone = account.phone
          /\ account'.profile = account.profile
      BY <2>3, <3>1 DEF Account
    <3>3. MadeWith(c)'
      BY <1>1, <2>2, <2>6, <3>1, <3>2 DEF MadeWith
    <3> QED
      BY <1>2, <2>4, <2>5, <3>2, <3>3
  <2> QED
    BY <1>4, <2>7, <2>8
<1> QED
  BY <1>3, <1>4

LEMMA RegistrationNext == RegistrationInv /\ [Next]_vars => RegistrationInv'
<1> SUFFICES ASSUME RegistrationInv, [Next]_vars PROVE RegistrationInv'
  OBVIOUS
<1> USE DEF redis, history
<1>1. CASE LastHalfSecond \/ ExpireCode \/ ExpireCooldown \/ ExpireCounter \/ UNCHANGED vars
  <2>1. UNCHANGED <<codes, mailed, account, req, misses, deaths>>
    BY <1>1 DEF LastHalfSecond, ExpireCode, ExpireCooldown, ExpireCounter, vars
  <2>2. /\ otp' \in 0..Len(codes) /\ attempts' \in Nat
        /\ lasting' \in Lives /\ ending' \in BOOLEAN /\ cooldown' \in BOOLEAN
    <3>1. /\ otp \in 0..Len(codes) /\ 0 \in 0..Len(codes) /\ attempts \in Nat
          /\ lasting \in Lives /\ ending \in BOOLEAN /\ cooldown \in BOOLEAN
      BY DEF RegistrationInv, TypeOK
    <3>2. CASE LastHalfSecond \/ ExpireCode
      BY <3>1, <3>2 DEF LastHalfSecond, ExpireCode
    <3>3. CASE ExpireCooldown
      BY <3>1, <3>3 DEF ExpireCooldown
    <3>4. CASE ExpireCounter
      BY <3>1, <3>4 DEF ExpireCounter, Lives
    <3>5. CASE UNCHANGED vars
      BY <3>1, <3>5 DEF vars
    <3> QED
      BY <1>1, <3>2, <3>3, <3>4, <3>5
  <2>3. TypeOK'
    BY <2>1, <2>2 DEF RegistrationInv, TypeOK
  <2>4. \A r \in Requests : Carries(req[r])'
    BY <2>1 DEF RegistrationInv, Carries
  <2>5. account.made => \E c \in mailed' : MadeWith(c)'
    BY <2>1 DEF RegistrationInv, MadeWith
  <2> QED
    BY <2>1, <2>3, <2>4, <2>5 DEF RegistrationInv
<1>2. ASSUME NEW r \in Requests, Die(r) PROVE RegistrationInv'
  <2>1. /\ otp \in 0..Len(codes) /\ attempts \in Nat /\ lasting \in Lives /\ ending \in BOOLEAN /\ cooldown \in BOOLEAN
        /\ mailed \subseteq 1..Len(codes) /\ deaths \in Nat
    BY DEF RegistrationInv, TypeOK
  <2> QED
    BY <1>2, <2>1, GoesIdle DEF Die
<1> QED
  BY <1>1, <1>2, AskStep, VerifyStep, AccountStep DEF Next

\* TypeOK: what a request carries fits what it is doing.
THEOREM RegistrationTypeInvariant == Spec => []TypeOK
<1>1. RegistrationInv => TypeOK
  BY DEF RegistrationInv
<1> QED
  BY <1>1, RegistrationInit, RegistrationNext, PTL DEF Spec

\* verifyAndConsumeRegistrationOtp, registerUser: however requests overlap, the
\* account is the one some code that reached its owner was asked for.
THEOREM AccountIsOfItsCode == Spec => []AccountFollowsCode
<1>1. RegistrationInv => AccountFollowsCode
  BY DEF RegistrationInv, AccountFollowsCode, MadeWith
<1> QED
  BY <1>1, RegistrationInit, RegistrationNext, PTL DEF Spec

-----------------------------------------------------------------------------
(* The bound on guesses.  A counter that starts again forgives what it had  *)
(* counted, and it can do so under a living code for two reasons: it was    *)
(* given the end of an older one, or the rounded end of this one, which is  *)
(* in its last half second.  Each request that holds an older end, and a    *)
(* counter that has one, is a debt of K guesses not made yet; so is the     *)
(* rounding, once for each code.  No new debt arises while the code lives.  *)
(* A guess not counted yet is a pending request's.                          *)

K == MaxAttempts - 1

\* The requests that will give the counter the end of a code that is replaced.
Stale == {r \in Requests : req[r].pc \in {"incr", "expire"} /\ req[r].until \notin {0, otp}}

\* The requests that have compared a wrong code and have not counted it, or are
\* about to clear the code.
Pending == {r \in Requests : \/ req[r].pc \in {"ttl", "incr", "clear"}
                             \/ req[r].pc = "expire" /\ MaxAttempts = 1}

One(b) == IF b THEN 1 ELSE 0

Counted == IF attempts <= K THEN attempts ELSE K

\* The counter ends too soon by an older code's life, or by the rounding of its
\* own code's once that code is ending.
Life == One(lasting = "no") + One(~ending \/ lasting = "nearly")

GuessesPaidFor ==
    otp # 0 => misses[otp] + K * (Cardinality(Stale) + Life + 1)
                 <= K * (Cardinality(Requests) + 1) + Counted + Cardinality(Pending) + deaths

GuessInv ==
    /\ RegistrationInv
    /\ \A c \in Code : c > Len(codes) => misses[c] = 0
    /\ GuessesPaidFor
    /\ GuessesBounded

\* Sets of requests are finite and no larger than all of them; two that differ
\* in r alone differ in size as r's membership does.
LEMMA SizeOfRequests ==
    ASSUME NEW S \in SUBSET Requests
    PROVE  IsFiniteSet(S) /\ Cardinality(S) \in Nat /\ Cardinality(S) <= Cardinality(Requests)
           /\ Cardinality(Requests) \in Nat
BY FS_Subset, FS_CardinalityType, RegistrationAssumption

LEMMA SizeWithout ==
    ASSUME NEW S \in SUBSET Requests, NEW r \in Requests
    PROVE  Cardinality(S) = Cardinality(S \ {r}) + One(r \in S)
<1>1. IsFiniteSet(S) /\ Cardinality(S) \in Nat
  BY SizeOfRequests
<1>2. CASE r \in S
  <2>1. Cardinality(S \ {r}) = Cardinality(S) - 1
    BY <1>1, <1>2, FS_RemoveElement
  <2> QED
    BY <1>1, <1>2, <2>1 DEF One
<1>3. CASE r \notin S
  <2>1. S \ {r} = S
    BY <1>3
  <2> QED
    BY <1>1, <1>3, <2>1 DEF One
<1> QED
  BY <1>2, <1>3

LEMMA SizeAfterMove ==
    ASSUME NEW S \in SUBSET Requests, NEW T \in SUBSET Requests, NEW r \in Requests,
           S \ {r} = T \ {r}
    PROVE  Cardinality(T) + One(r \in S) = Cardinality(S) + One(r \in T)
<1>1. /\ Cardinality(S) = Cardinality(S \ {r}) + One(r \in S)
      /\ Cardinality(T) = Cardinality(T \ {r}) + One(r \in T)
  BY SizeWithout
<1>2. Cardinality(S \ {r}) \in Nat
  BY SizeOfRequests
<1> QED
  BY <1>1, <1>2 DEF One

\* Products with K.
LEMMA KType == K \in Nat
BY RegistrationAssumption DEF K

LEMMA MoreTimes ==
    ASSUME NEW k \in Nat, NEW a \in Nat, NEW b \in Nat, a <= b
    PROVE  k * a \in Nat /\ k * b \in Nat /\ k * a <= k * b
OBVIOUS

LEMMA OnceMore ==
    ASSUME NEW k \in Nat, NEW a \in Nat
    PROVE  k * a \in Nat /\ k * (a + 1) = k * a + k
OBVIOUS

LEMMA LifeType == Life \in 0..2
BY DEF Life, One

LEMMA CountedType ==
    ASSUME attempts \in Nat
    PROVE  Counted \in Nat /\ Counted <= K
BY KType DEF Counted

\* What request r gives up the counter takes over, or nobody.
LEMMA BoundedSum ==
    ASSUME NEW s \in Nat, NEW t \in Nat, NEW l \in 0..2, NEW m \in 0..2,
           NEW a, NEW b, t + One(a) = s + One(b), m + One(b) <= l + One(a)
    PROVE  t + m + 1 <= s + l + 1
BY DEF One

LEMMA StillPaid ==
    ASSUME GuessInv, TypeOK', NEW r \in Requests, otp # 0, otp' = otp,
           \A s \in Requests : s # r => req'[s] = req[s],
           Life' + One(r \in Stale') <= Life + One(r \in Stale),
           misses'[otp] + Counted + One(r \in Pending) + deaths
             <= misses[otp] + Counted' + One(r \in Pending') + deaths'
    PROVE  GuessesPaidFor'
<1>1. /\ otp \in Code /\ misses[otp] \in Nat /\ misses'[otp] \in Nat
      /\ deaths \in Nat /\ deaths' \in Nat /\ attempts \in Nat /\ attempts' \in Nat
  <2>1. otp \in Code
    BY RegistrationAssumption DEF GuessInv, RegistrationInv, TypeOK, Code
  <2> QED
    BY <2>1 DEF GuessInv, RegistrationInv, TypeOK
<1>2. /\ Stale \in SUBSET Requests /\ Stale' \in SUBSET Requests
      /\ Pending \in SUBSET Requests /\ Pending' \in SUBSET Requests
  BY DEF Stale, Pending
<1>3. Stale \ {r} = Stale' \ {r} /\ Pending \ {r} = Pending' \ {r}
  BY DEF Stale, Pending
<1>4. /\ Cardinality(Stale') + One(r \in Stale) = Cardinality(Stale) + One(r \in Stale')
      /\ Cardinality(Pending') + One(r \in Pending) = Cardinality(Pending) + One(r \in Pending')
  BY <1>2, <1>3, SizeAfterMove
<1>5. /\ Cardinality(Stale) \in Nat /\ Cardinality(Stale') \in Nat
      /\ Cardinality(Pending) \in Nat /\ Cardinality(Pending') \in Nat
      /\ Cardinality(Requests) \in Nat
  BY <1>2, SizeOfRequests
<1>6. /\ Counted \in Nat /\ Counted' \in Nat
  <2>1. Counted' \in Nat
    BY <1>1, KType DEF Counted
  <2> QED
    BY <1>1, <2>1, CountedType
<1>7. Cardinality(Stale') + Life' + 1 <= Cardinality(Stale) + Life + 1
  <2>1. Life \in 0..2 /\ Life' \in 0..2
    BY DEF Life, One
  <2> QED
    BY <1>4, <1>5, <2>1, BoundedSum
<1> DEFINE d == Cardinality(Stale) + Life + 1
           e == Cardinality(Stale') + Life' + 1
<1>8. d \in Nat /\ e \in Nat /\ e <= d
  <2>1. Life \in 0..2 /\ Life' \in 0..2
    BY DEF Life, One
  <2> QED
    BY <1>5, <1>7, <2>1
<1>9. K * d \in Nat /\ K * e \in Nat /\ K * e <= K * d
  <2> HIDE DEF d, e
  <2> QED
    BY <1>8, MoreTimes, KType
<1>10. K * (Cardinality(Requests) + 1) \in Nat
  BY <1>5, MoreTimes, KType
<1>11. misses[otp] + K * d <= K * (Cardinality(Requests) + 1) + Counted + Cardinality(Pending) + deaths
  BY DEF GuessInv, GuessesPaidFor
<1>12. misses'[otp] + K * e <= K * (Cardinality(Requests) + 1) + Counted' + Cardinality(Pending') + deaths'
  <2> HIDE DEF d, e
  <2>1. PICK kd \in Nat, ke \in Nat, kr \in Nat :
           kd = K * d /\ ke = K * e /\ kr = K * (Cardinality(Requests) + 1)
    BY <1>9, <1>10
  <2> QED
    BY <1>1, <1>4, <1>5, <1>6, <1>9, <1>11, <2>1 DEF One
<1> QED
  BY <1>12 DEF GuessesPaidFor

\* Nobody but r moves, and r moves to q.
LEMMA Moved ==
    ASSUME TypeOK, NEW r \in Requests, NEW q, Go(r, q)
    PROVE  req'[r] = q /\ \A s \in Requests : s # r => req'[s] = req[s]
BY DEF TypeOK, Go

\* A step that leaves Redis alone: only a wrong guess and a death count.
LEMMA QuietStep ==
    ASSUME GuessInv, TypeOK', NEW r \in Requests, NEW q, Go(r, q),
           UNCHANGED <<otp, ending, attempts, lasting>>, q.pc \notin {"incr", "expire"},
           otp # 0 => misses'[otp] + One(r \in Pending) + deaths
                        <= misses[otp] + One(q.pc \in {"ttl", "clear"}) + deaths'
    PROVE  GuessesPaidFor'
<1>1. CASE otp = 0
  BY <1>1 DEF GuessesPaidFor
<1>2. CASE otp # 0
  <2>1. req'[r] = q /\ \A s \in Requests : s # r => req'[s] = req[s]
    BY Moved DEF GuessInv, RegistrationInv
  <2>2. r \notin Stale' /\ (r \in Pending' <=> q.pc \in {"ttl", "clear"})
    BY <2>1 DEF Stale, Pending
  <2>3. Life' + One(r \in Stale') <= Life + One(r \in Stale)
    BY <2>2 DEF Life, One
  <2>4. Counted' = Counted /\ Counted \in Nat
    BY CountedType DEF Counted, GuessInv, RegistrationInv, TypeOK
  <2>5. One(r \in Pending') = One(q.pc \in {"ttl", "clear"})
    BY <2>2 DEF One
  <2>6. misses[otp] \in Nat /\ misses'[otp] \in Nat /\ deaths \in Nat /\ deaths' \in Nat
    <3>1. otp \in Code
      BY <1>2, RegistrationAssumption DEF GuessInv, RegistrationInv, TypeOK, Code
    <3> QED
      BY <3>1 DEF GuessInv, RegistrationInv, TypeOK
  <2>7. misses'[otp] + Counted + One(r \in Pending) + deaths
          <= misses[otp] + Counted' + One(r \in Pending') + deaths'
    BY <1>2, <2>4, <2>5, <2>6 DEF One
  <2> QED
    BY <1>2, <2>1, <2>3, <2>7, StillPaid
<1> QED
  BY <1>1, <1>2

LEMMA QuietSteps ==
    ASSUME GuessInv, TypeOK', NEW r \in Requests,
           \/ \E p \in Purpose : Ask(r, p) \/ \E g \in 0..MaxCodes : Register(r, p, g)
           \/ CheckCooldown(r) \/ Mail(r) \/ GetAndCompare(r)
           \/ CreateUser(r) \/ CreateProfile(r) \/ SignUp(r) \/ Die(r)
    PROVE  GuessesPaidFor'
<1>0. /\ req[r] \in Request /\ Idle.pc = "idle" /\ deaths \in Nat
      /\ otp # 0 => otp \in Code /\ misses[otp] \in Nat
  BY RegistrationAssumption DEF GuessInv, RegistrationInv, TypeOK, Idle, Code
<1> USE DEF redis, history
<1>1. ASSUME UNCHANGED <<otp, ending, attempts, lasting, misses, deaths>>, r \notin Pending,
             NEW q, Go(r, q), q.pc \notin {"incr", "expire"}
      PROVE  GuessesPaidFor'
  BY <1>0, <1>1, QuietStep DEF One
<1>2. ASSUME NEW p \in Purpose, Ask(r, p) PROVE GuessesPaidFor'
  BY <1>1, <1>2 DEF Ask, Pending
<1>3. ASSUME NEW p \in Purpose, NEW g \in 0..MaxCodes, Register(r, p, g) PROVE GuessesPaidFor'
  BY <1>1, <1>3 DEF Register, Pending
<1>4. CASE CheckCooldown(r)
  <2>1. CASE cooldown
    BY <1>0, <1>1, <1>4, <2>1 DEF CheckCooldown, Pending
  <2>2. CASE ~cooldown
    BY <1>1, <1>4, <2>2 DEF CheckCooldown, Pending
  <2> QED
    BY <2>1, <2>2
<1>5. CASE Mail(r)
  <2>1. r \notin Pending /\ UNCHANGED <<otp, ending, attempts, lasting, misses, deaths>>
    BY <1>5 DEF Mail, Pending
  <2>2. CASE Go(r, Idle)
    BY <1>0, <1>1, <2>1, <2>2
  <2>3. CASE Go(r, [pc |-> "clear"])
    BY <1>1, <2>1, <2>3
  <2> QED
    BY <1>5, <2>2, <2>3 DEF Mail
<1>6. CASE GetAndCompare(r)
  <2>1. r \notin Pending /\ UNCHANGED <<otp, ending, attempts, lasting, deaths>>
    BY <1>6 DEF GetAndCompare, Pending
  <2>2. CASE otp = 0
    BY <1>0, <1>1, <1>6, <2>1, <2>2 DEF GetAndCompare
  <2>3. CASE otp # 0 /\ req[r].guess = otp /\ req[r].for.phone = codes[otp].phone
    BY <1>1, <1>6, <2>1, <2>3 DEF GetAndCompare
  <2>4. CASE otp # 0 /\ ~(req[r].guess = otp /\ req[r].for.phone = codes[otp].phone)
    <3>1. Go(r, [pc |-> "ttl"]) /\ misses' = [misses EXCEPT ![otp] = @ + 1]
      BY <1>6, <2>4 DEF GetAndCompare
    <3>2. misses'[otp] = misses[otp] + 1
      BY <1>0, <2>4, <3>1 DEF GuessInv, RegistrationInv, TypeOK
    <3>3. misses'[otp] + One(r \in Pending) + deaths
            <= misses[otp] + One("ttl" \in {"ttl", "clear"}) + deaths'
      BY <1>0, <2>1, <2>4, <3>2 DEF One
    <3> QED
      BY <2>1, <3>1, <3>3, QuietStep
  <2> QED
    BY <2>2, <2>3, <2>4
<1>7. CASE CreateUser(r)
  <2>1. r \notin Pending /\ UNCHANGED <<otp, ending, attempts, lasting, misses, deaths>>
    BY <1>7 DEF CreateUser, Pending
  <2>2. CASE account.made
    BY <1>0, <1>1, <1>7, <2>1, <2>2 DEF CreateUser
  <2>3. CASE ~account.made
    <3>1. PICK q : Go(r, q) /\ q.pc \in {"profile", "answer"}
      <4>1. req[r] = [pc |-> req[r].pc, for |-> req[r].for, code |-> req[r].code]
        BY <1>0, <1>7, RequestShape DEF CreateUser, Verified
      <4> QED
        BY <1>7, <2>3, <4>1 DEF CreateUser
    <3> QED
      BY <1>1, <2>1, <3>1
  <2> QED
    BY <2>2, <2>3
<1>8. CASE CreateProfile(r) \/ SignUp(r)
  BY <1>0, <1>1, <1>8 DEF CreateProfile, SignUp, Pending
<1>9. CASE Die(r)
  <2>1. /\ UNCHANGED <<otp, ending, attempts, lasting, misses>> /\ deaths' = deaths + 1
        /\ Go(r, Idle)
    BY <1>9 DEF Die
  <2>2. otp # 0 => misses'[otp] + One(r \in Pending) + deaths
                     <= misses[otp] + One(Idle.pc \in {"ttl", "clear"}) + deaths'
    BY <1>0, <2>1 DEF One
  <2> QED
    BY <1>0, <2>1, <2>2, QuietStep
<1> QED
  BY <1>2, <1>3, <1>4, <1>5, <1>6, <1>7, <1>8, <1>9

\* registerFailedAttempt: a guess is handed from the request to the counter, and
\* the end of an older code from the request to the counter's life.
LEMMA CountSteps ==
    ASSUME GuessInv, TypeOK', NEW r \in Requests,
           ReadTtl(r) \/ CountMiss(r) \/ LimitCounter(r)
    PROVE  GuessesPaidFor'
<1>0. /\ otp' = otp /\ misses' = misses /\ deaths' = deaths /\ deaths \in Nat
      /\ attempts \in Nat /\ MaxAttempts \in Nat \ {0} /\ lasting \in Lives /\ ending \in BOOLEAN
      /\ otp # 0 => misses[otp] \in Nat
  <2>1. otp # 0 => otp \in Code
    BY RegistrationAssumption DEF GuessInv, RegistrationInv, TypeOK, Code
  <2> QED
    BY <2>1, RegistrationAssumption
    DEF GuessInv, RegistrationInv, TypeOK, ReadTtl, CountMiss, LimitCounter, redis, history
<1>1. CASE otp = 0
  BY <1>0, <1>1 DEF GuessesPaidFor
<1> DEFINE debt == Life' + One(r \in Stale') <= Life + One(r \in Stale)
           paid == Counted + One(r \in Pending) <= Counted' + One(r \in Pending')
<1>2. ASSUME otp # 0, \A s \in Requests : s # r => req'[s] = req[s], debt, paid,
             Counted \in Nat, Counted' \in Nat
      PROVE  GuessesPaidFor'
  <2>1. misses'[otp] + Counted + One(r \in Pending) + deaths
          <= misses[otp] + Counted' + One(r \in Pending') + deaths'
    BY <1>0, <1>2 DEF One
  <2> QED
    BY <1>0, <1>2, <2>1, StillPaid
<1>3. Counted \in Nat /\ Counted <= K /\ Counted' \in Nat
  <2>1. attempts' \in Nat
    BY DEF TypeOK
  <2> QED
    BY <1>0, <2>1, KType, CountedType DEF Counted
<1>4. CASE otp # 0 /\ ReadTtl(r)
  <2>1. UNCHANGED <<ending, attempts, lasting>>
    BY <1>4 DEF ReadTtl, redis
  <2>2. /\ req'[r] = [pc |-> "incr", until |-> IF ending THEN 0 ELSE otp]
        /\ \A s \in Requests : s # r => req'[s] = req[s]
    BY <1>4, Moved DEF ReadTtl, GuessInv, RegistrationInv
  <2>3. r \notin Stale' /\ r \in Pending'
    BY <1>0, <2>2 DEF Stale, Pending
  <2>4. Counted' = Counted
    BY <2>1 DEF Counted
  <2>5. debt /\ paid
    BY <1>3, <2>1, <2>3, <2>4 DEF Life, One
  <2> QED
    BY <1>2, <1>3, <1>4, <2>2, <2>5
<1>5. CASE otp # 0 /\ CountMiss(r)
  <2>1. /\ attempts' = attempts + 1 /\ lasting' = lasting /\ ending' = ending
        /\ req[r].pc = "incr"
    BY <1>5 DEF CountMiss
  <2>2. r \in Pending
    BY <2>1 DEF Pending
  <2>3. PICK q : /\ Go(r, q)
                 /\ q = IF attempts = 0 THEN [pc |-> "expire", until |-> req[r].until]
                                        ELSE Judge(attempts + 1)
    BY <1>5 DEF CountMiss
  <2>4. req'[r] = q /\ \A s \in Requests : s # r => req'[s] = req[s]
    BY <2>3, Moved DEF GuessInv, RegistrationInv
  <2>5. CASE attempts = 0
    <3>1. req'[r].pc = "expire" /\ req'[r].until = req[r].until
      BY <2>3, <2>4, <2>5
    <3>2. r \in Stale' => r \in Stale
      BY <1>0, <2>1, <3>1 DEF Stale
    <3>3. r \in Pending' <=> MaxAttempts = 1
      BY <3>1 DEF Pending
    <3>4. Counted = 0 /\ Counted' = IF MaxAttempts = 1 THEN 0 ELSE 1
      BY <1>0, <2>1, <2>5 DEF Counted, K
    <3>5. debt /\ paid
      BY <2>1, <2>2, <3>2, <3>3, <3>4 DEF Life, One
    <3> QED
      BY <1>2, <1>3, <1>5, <2>4, <3>5
  <2>6. CASE attempts # 0
    <3>1. req'[r] = Judge(attempts + 1) /\ req'[r].pc \in {"clear", "idle"}
      BY <2>3, <2>4, <2>6 DEF Judge, Idle
    <3>2. r \notin Stale' /\ (r \in Pending' <=> attempts + 1 >= MaxAttempts)
      <4>1. req'[r].pc = "clear" <=> attempts + 1 >= MaxAttempts
        BY <3>1 DEF Judge, Idle
      <4> QED
        BY <3>1, <4>1 DEF Stale, Pending
    <3>3. Counted' >= Counted /\ (~(attempts + 1 >= MaxAttempts) => Counted' = Counted + 1)
      BY <1>0, <2>1 DEF Counted, K
    <3>4. debt
      BY <2>1, <3>2 DEF Life, One
    <3>5. CASE r \in Pending'
      <4>1. One(r \in Pending) = 1 /\ One(r \in Pending') = 1
        BY <2>2, <3>5 DEF One
      <4>2. paid
        BY <1>3, <3>3, <4>1
      <4> QED
        BY <1>2, <1>3, <1>5, <2>4, <3>4, <4>2
    <3>6. CASE r \notin Pending'
      <4>1. Counted' = Counted + 1
        BY <3>2, <3>3, <3>6
      <4> QED
        BY <1>2, <1>3, <1>5, <2>2, <2>4, <3>4, <3>6, <4>1 DEF One
    <3> QED
      BY <3>5, <3>6
  <2> QED
    BY <2>5, <2>6
<1>6. CASE otp # 0 /\ LimitCounter(r)
  <2>1. /\ attempts' = attempts /\ ending' = ending /\ req[r].pc = "expire"
        /\ \/ lasting' = "yes"
           \/ ~ending /\ lasting' = "nearly"
           \/ ~ending /\ lasting' = "no" /\ req[r].until \notin {0, otp}
    BY <1>6 DEF LimitCounter
  <2>2. req'[r] = Judge(1) /\ \A s \in Requests : s # r => req'[s] = req[s]
    BY <1>6, Moved DEF LimitCounter, GuessInv, RegistrationInv
  <2>3. req'[r].pc = IF MaxAttempts = 1 THEN "clear" ELSE "idle"
    BY <1>0, <2>2 DEF Judge, Idle
  <2>4. r \notin Stale' /\ (r \in Pending' <=> r \in Pending)
    BY <2>1, <2>3 DEF Stale, Pending
  <2>5. lasting' = "no" => r \in Stale
    BY <2>1 DEF Stale
  <2>6. Counted' = Counted
    BY <2>1 DEF Counted
  <2>7. debt /\ paid
    BY <1>3, <2>1, <2>4, <2>5, <2>6 DEF Life, One
  <2> QED
    BY <1>2, <1>3, <1>6, <2>2, <2>7
<1> QED
  BY <1>1, <1>4, <1>5, <1>6

\* A new code starts without debts but those of the requests that count a guess
\* at an older one, and the request that stores it is none of them.
LEMMA StoreSteps ==
    ASSUME GuessInv, TypeOK', NEW r \in Requests, StoreCode(r)
    PROVE  GuessesPaidFor'
<1>1. /\ otp' = Len(codes) + 1 /\ misses' = misses /\ deaths' = deaths
      /\ attempts' = 0 /\ lasting' = "yes" /\ ending' = FALSE /\ req'[r].pc = "mail"
  <2>1. req'[r] = [pc |-> "mail", code |-> Len(codes) + 1]
    BY Moved DEF StoreCode, GuessInv, RegistrationInv
  <2> QED
    BY <2>1 DEF StoreCode, history
<1>2. misses'[otp'] = 0
  <2>1. otp' \in Code /\ otp' > Len(codes)
    BY <1>1, RegistrationAssumption DEF StoreCode, GuessInv, RegistrationInv, TypeOK, Code
  <2> QED
    BY <1>1, <2>1 DEF GuessInv
<1>3. Counted' = 0 /\ Life' = 1
  BY <1>1, KType DEF Counted, Life, One
<1>4. /\ Stale' \in SUBSET Requests /\ Stale' \cup {r} \in SUBSET Requests /\ r \notin Stale'
      /\ Pending' \in SUBSET Requests
  BY <1>1 DEF Stale, Pending
<1>5. Cardinality(Stale' \cup {r}) = Cardinality(Stale') + 1
  BY <1>4, SizeOfRequests, FS_AddElement
<1>6. /\ Cardinality(Stale') \in Nat /\ Cardinality(Requests) \in Nat
      /\ Cardinality(Stale') + 1 <= Cardinality(Requests)
      /\ Cardinality(Pending') \in Nat
  BY <1>4, <1>5, SizeOfRequests
<1>7. PICK a \in Nat, b \in Nat : a = Cardinality(Stale') + 2 /\ b = Cardinality(Requests) + 1
  BY <1>6
<1>8. K * a \in Nat /\ K * b \in Nat /\ K * a <= K * b
  BY <1>6, <1>7, MoreTimes, KType
<1>9. Cardinality(Stale') + Life' + 1 = a
  BY <1>3, <1>6, <1>7
<1>10. deaths \in Nat
  BY DEF GuessInv, RegistrationInv, TypeOK
<1>11. misses'[otp'] + K * a <= K * b + Counted' + Cardinality(Pending') + deaths'
  BY <1>1, <1>2, <1>3, <1>6, <1>8, <1>10
<1> QED
  BY <1>7, <1>9, <1>11 DEF GuessesPaidFor

\* Time: the counter ends under a living code only if it had an older one's end.
LEMMA TimeSteps ==
    ASSUME GuessInv, LastHalfSecond \/ ExpireCode \/ ExpireCooldown \/ ExpireCounter \/ UNCHANGED vars
    PROVE  GuessesPaidFor'
<1>1. CASE ExpireCode
  BY <1>1 DEF ExpireCode, GuessesPaidFor
<1>2. CASE ExpireCooldown \/ UNCHANGED vars
  <2>1. UNCHANGED <<otp, ending, attempts, lasting, misses, req, deaths>>
    BY <1>2 DEF ExpireCooldown, vars, history
  <2>2. Stale' = Stale /\ Pending' = Pending /\ Counted' = Counted /\ Life' = Life
    BY <2>1 DEF Stale, Pending, Counted, Life
  <2> QED
    BY <2>1, <2>2 DEF GuessInv, GuessesPaidFor
<1>4. CASE LastHalfSecond
  <2>1. /\ UNCHANGED <<otp, attempts, lasting, misses, req, deaths>> /\ ~ending /\ ending' /\ otp # 0
    BY <1>4 DEF LastHalfSecond, history
  <2>2. /\ Stale' = Stale /\ Pending' = Pending /\ Counted' = Counted
        /\ Life \in 0..2 /\ Life' \in 0..2 /\ Life' <= Life
    BY <2>1 DEF Stale, Pending, Counted, Life, One
  <2>3. /\ misses[otp] \in Nat /\ deaths \in Nat /\ Counted \in Nat
        /\ Cardinality(Stale) \in Nat /\ Cardinality(Pending) \in Nat /\ Cardinality(Requests) \in Nat
    <3>1. otp \in Code
      BY <2>1, RegistrationAssumption DEF GuessInv, RegistrationInv, TypeOK, Code
    <3>2. Stale \in SUBSET Requests /\ Pending \in SUBSET Requests
      BY DEF Stale, Pending
    <3> QED
      BY <3>1, <3>2, SizeOfRequests, CountedType DEF GuessInv, RegistrationInv, TypeOK
  <2>4. PICK d \in Nat, e \in Nat, b \in Nat :
           /\ d = Cardinality(Stale) + Life + 1 /\ e = Cardinality(Stale) + Life' + 1
           /\ b = Cardinality(Requests) + 1 /\ e <= d
    BY <2>2, <2>3
  <2>5. K * d \in Nat /\ K * e \in Nat /\ K * e <= K * d /\ K * b \in Nat
    BY <2>4, MoreTimes, KType
  <2>6. misses[otp] + K * d <= K * b + Counted + Cardinality(Pending) + deaths
    BY <2>1, <2>4 DEF GuessInv, GuessesPaidFor
  <2>7. misses[otp] + K * e <= K * b + Counted + Cardinality(Pending) + deaths
    BY <2>3, <2>5, <2>6
  <2>8. misses'[otp'] + K * (Cardinality(Stale') + Life' + 1)
          <= K * (Cardinality(Requests) + 1) + Counted' + Cardinality(Pending') + deaths'
    BY <2>1, <2>2, <2>4, <2>7
  <2> QED
    BY <2>8 DEF GuessesPaidFor
<1>3. CASE ExpireCounter
  <2>1. CASE otp = 0
    BY <1>3, <2>1 DEF ExpireCounter, GuessesPaidFor
  <2>2. CASE otp # 0
    <3>1. /\ UNCHANGED <<otp, ending, misses, req, deaths>> /\ lasting' = "yes" /\ attempts' = 0
          /\ lasting = "no" \/ (lasting = "nearly" /\ ending)
      BY <1>3, <2>2 DEF ExpireCounter, history
    <3>2. Stale' = Stale /\ Pending' = Pending
      BY <3>1 DEF Stale, Pending
    <3>3. Counted' = 0 /\ Counted \in Nat /\ Counted <= K
      BY <3>1, KType, CountedType DEF Counted, GuessInv, RegistrationInv, TypeOK
    <3>4. /\ otp \in Code /\ misses[otp] \in Nat /\ deaths \in Nat
          /\ Cardinality(Stale) \in Nat /\ Cardinality(Pending) \in Nat /\ Cardinality(Requests) \in Nat
      <4>1. otp \in Code
        BY <2>2, RegistrationAssumption DEF GuessInv, RegistrationInv, TypeOK, Code
      <4>2. Stale \in SUBSET Requests /\ Pending \in SUBSET Requests
        BY DEF Stale, Pending
      <4> QED
        BY <4>1, <4>2, SizeOfRequests DEF GuessInv, RegistrationInv, TypeOK
    <3>5. PICK a \in Nat, b \in Nat : a = Cardinality(Stale) + Life' + 1 /\ b = Cardinality(Requests) + 1
      <4>1. Life' \in 0..2
        BY DEF Life, One
      <4> QED
        BY <3>4, <4>1
    <3>6. K * a \in Nat /\ K * b \in Nat /\ K * (a + 1) = K * a + K
      BY KType, OnceMore
    <3>7. /\ Cardinality(Stale) + Life + 1 = a + 1
          /\ Cardinality(Stale') + Life' + 1 = a
      <4>1. Life = Life' + 1 /\ Life' \in 0..2
        BY <3>1 DEF Life, One
      <4> QED
        BY <3>2, <3>4, <3>5, <4>1
    <3>8. misses[otp] + K * (a + 1) <= K * b + Counted + Cardinality(Pending) + deaths
      BY <2>2, <3>5, <3>7 DEF GuessInv, GuessesPaidFor
    <3>9. misses[otp] + K * a <= K * b + Cardinality(Pending) + deaths
      BY <3>3, <3>4, <3>6, <3>8, KType
    <3>10. misses'[otp'] + K * a <= K * b + Counted' + Cardinality(Pending') + deaths'
      BY <3>1, <3>2, <3>3, <3>4, <3>6, <3>9
    <3> QED
      BY <3>5, <3>7, <3>10 DEF GuessesPaidFor
  <2> QED
    BY <2>1, <2>2
<1> QED
  BY <1>1, <1>2, <1>3, <1>4

\* What is paid for is within the bound.
LEMMA PaidIsBounded ==
    ASSUME NEW m \in Nat, NEW d \in Nat, NEW c \in Nat, NEW p \in Nat, NEW x \in Nat, NEW n \in Nat,
           c <= K, p <= n, m + K * (d + 1) <= K * (n + 1) + c + p + x
    PROVE  m <= n * MaxAttempts + K + x
<1>1. /\ K * d \in Nat /\ K * (d + 1) = K * d + K
      /\ K * n \in Nat /\ K * (n + 1) = K * n + K
  BY KType, OnceMore
<1>2. n * MaxAttempts = K * n + n
  <2>1. MaxAttempts = K + 1
    BY RegistrationAssumption DEF K
  <2>2. n * (K + 1) = n * K + n /\ n * K = K * n
    BY KType
  <2> QED
    BY <2>1, <2>2
<1> QED
  BY <1>1, <1>2, KType

LEMMA GuessInit == Init => GuessInv
<1> SUFFICES ASSUME Init PROVE GuessInv
  OBVIOUS
<1>1. \A c \in Code : misses[c] = 0
  BY DEF Init
<1>2. GuessesPaidFor
  BY DEF Init, GuessesPaidFor
<1>3. GuessesBounded
  <2>1. Cardinality(Requests) \in Nat /\ deaths = 0
    BY FS_CardinalityType, RegistrationAssumption DEF Init
  <2>2. Cardinality(Requests) * MaxAttempts \in Nat
    BY <2>1, RegistrationAssumption, MoreTimes
  <2> QED
    BY <1>1, <2>1, <2>2, RegistrationAssumption DEF GuessesBounded
<1> QED
  BY <1>1, <1>2, <1>3, RegistrationInit DEF GuessInv

LEMMA GuessNext == GuessInv /\ [Next]_vars => GuessInv'
<1> SUFFICES ASSUME GuessInv, [Next]_vars PROVE GuessInv'
  OBVIOUS
<1>1. RegistrationInv /\ RegistrationInv' /\ TypeOK /\ TypeOK'
  BY RegistrationNext DEF GuessInv, RegistrationInv
<1>2. GuessesPaidFor'
  <2>1. ASSUME NEW r \in Requests, Clear(r) \/ UseCode(r) PROVE GuessesPaidFor'
    BY <2>1 DEF Clear, UseCode, GuessesPaidFor
  <2> QED
    BY <1>1, <2>1, QuietSteps, CountSteps, StoreSteps, TimeSteps DEF Next
<1>3. /\ Len(codes) \in Nat /\ Len(codes') \in Nat /\ deaths \in Nat /\ deaths' \in Nat
      /\ misses \in [Code -> Nat] /\ misses' \in [Code -> Nat]
      /\ otp \in 0..Len(codes)
  BY <1>1 DEF TypeOK
<1>4. /\ Len(codes) <= Len(codes') /\ deaths <= deaths'
      /\ \/ misses' = misses
         \/ otp # 0 /\ otp' = otp /\ misses' = [misses EXCEPT ![otp] = @ + 1]
  <2>1. CASE \E r \in Requests : StoreCode(r)
    <3>1. PICK r \in Requests : StoreCode(r)
      BY <2>1
    <3>2. req[r].for \in Purpose
      BY <1>1, <3>1, RequestShape DEF StoreCode, TypeOK
    <3>3. Len(codes') = Len(codes) + 1
      BY <1>1, <3>1, <3>2 DEF StoreCode, TypeOK
    <3> QED
      BY <1>3, <3>1, <3>3 DEF StoreCode, history
  <2>2. CASE \E r \in Requests : GetAndCompare(r)
    <3>1. PICK r \in Requests : GetAndCompare(r)
      BY <2>2
    <3>2. UNCHANGED <<codes, deaths, otp>>
      BY <3>1 DEF GetAndCompare, redis
    <3>3. \/ misses' = misses
          \/ otp # 0 /\ misses' = [misses EXCEPT ![otp] = @ + 1]
      BY <3>1 DEF GetAndCompare
    <3> QED
      BY <1>3, <3>2, <3>3
  <2>3. ASSUME NEW r \in Requests,
               \/ \E p \in Purpose : Ask(r, p) \/ \E g \in 0..MaxCodes : Register(r, p, g)
               \/ CheckCooldown(r) \/ Mail(r) \/ Clear(r) \/ ReadTtl(r) \/ CountMiss(r)
               \/ LimitCounter(r) \/ UseCode(r) \/ CreateUser(r) \/ CreateProfile(r) \/ SignUp(r)
        PROVE  codes' = codes /\ misses' = misses /\ deaths' = deaths
    BY <2>3 DEF Ask, Register, CheckCooldown, Mail, Clear, ReadTtl, CountMiss, LimitCounter,
                UseCode, CreateUser, CreateProfile, SignUp, history
  <2>4. ASSUME NEW r \in Requests, Die(r)
        PROVE  codes' = codes /\ misses' = misses /\ deaths' = deaths + 1
    BY <2>4 DEF Die
  <2>5. CASE LastHalfSecond \/ ExpireCode \/ ExpireCooldown \/ ExpireCounter \/ UNCHANGED vars
    BY <1>3, <2>5 DEF LastHalfSecond, ExpireCode, ExpireCooldown, ExpireCounter, vars, history
  <2> QED
    BY <1>3, <2>1, <2>2, <2>3, <2>4, <2>5 DEF Next
<1>5. \A c \in Code : c > Len(codes') => misses'[c] = 0
  <2> SUFFICES ASSUME NEW c \in Code, c > Len(codes') PROVE misses'[c] = 0
    OBVIOUS
  <2>1. c > Len(codes) /\ c # otp
    BY <1>3, <1>4, RegistrationAssumption DEF Code
  <2> QED
    BY <1>3, <1>4, <2>1 DEF GuessInv
<1>6. GuessesBounded'
  <2> SUFFICES ASSUME NEW c \in Code
               PROVE  misses'[c] <= Cardinality(Requests) * MaxAttempts + K + deaths'
    BY DEF GuessesBounded, K
  <2>1. CASE misses'[c] = misses[c]
    <3>1. misses[c] <= Cardinality(Requests) * MaxAttempts + K + deaths
      BY DEF GuessInv, GuessesBounded, K
    <3>2. Cardinality(Requests) * MaxAttempts \in Nat
      BY FS_CardinalityType, RegistrationAssumption, MoreTimes
    <3> QED
      BY <1>3, <1>4, <2>1, <3>1, <3>2, KType
  <2>2. CASE misses'[c] # misses[c]
    <3>1. c = otp' /\ otp' # 0
      BY <1>3, <1>4, <2>2
    <3>2. Stale' \in SUBSET Requests /\ Pending' \in SUBSET Requests
      BY DEF Stale, Pending
    <3>3. /\ Cardinality(Stale') \in Nat /\ Cardinality(Pending') \in Nat
          /\ Cardinality(Requests) \in Nat /\ Cardinality(Pending') <= Cardinality(Requests)
      BY <3>2, SizeOfRequests
    <3>4. Counted' \in Nat /\ Counted' <= K
      BY <1>1, KType DEF Counted, TypeOK
    <3>5. PICK d \in Nat : d = Cardinality(Stale') + Life'
      BY <3>3 DEF Life, One
    <3>6. misses'[c] + K * (d + 1) <= K * (Cardinality(Requests) + 1) + Counted' + Cardinality(Pending') + deaths'
      BY <1>2, <3>1, <3>5 DEF GuessesPaidFor
    <3>7. misses'[c] \in Nat
      BY <1>3
    <3> QED
      BY <1>3, <3>3, <3>4, <3>6, <3>7, PaidIsBounded
  <2> QED
    BY <2>1, <2>2
<1> QED
  BY <1>1, <1>2, <1>5, <1>6 DEF GuessInv

\* verifyAndConsumeRegistrationOtp: however requests, codes and ends of keys
\* overlap, the wrong codes compared with one code stay within the bound.
THEOREM GuessesStayBounded == Spec => []GuessesBounded
<1>1. GuessInv => GuessesBounded
  BY DEF GuessInv
<1> QED
  BY <1>1, GuessInit, GuessNext, PTL DEF Spec
=============================================================================
