--------------------------- MODULE AddressesProofs ---------------------------
(***************************************************************************)
(* The three properties of the default address, for any address book and    *)
(* any number of requests under way at once.                                *)
(*                                                                          *)
(* A request that no other one overtook commits on the rows it has read:    *)
(* what it found is what it would find now (Seen).  Of every request, also   *)
(* of an overtaken one, it is known that the address it creates is nobody   *)
(* else's and that it unsets nothing unless it was asked for the default     *)
(* (Own).                                                                   *)
(***************************************************************************)
EXTENDS Addresses, FiniteSetTheorems, TLAPS

-----------------------------------------------------------------------------
(* The inductive invariant.                                                 *)

Storing(k) == call[k].do \in {"create", "update"}

Own ==
    \A k \in Calls :
      /\ call[k].do = "create" =>
           /\ row[call[k].of] = "unused"
           /\ \A j \in Calls \ {k} : call[j] # Idle => call[j].of # call[k].of
      /\ call[k].do \in {"update", "delete"} => row[call[k].of] # "unused"
      /\ Storing(k) /\ call[k].ready /\ call[k].flag # "on" => call[k].others = {}

\* Of a deletion the flag says whether its address is the default.
SeenDelete(k) ==
    /\ call[k].of \in Live
    /\ call[k].flag = "on" <=> call[k].of \in Defaults
    /\ call[k].ready =>
         /\ call[k].others = {} \/ \E b \in Live \ {call[k].of} : call[k].others = {b}
         /\ call[k].others = {} <=> (call[k].flag # "on" \/ Live = {call[k].of})

Seen ==
    \A k \in Calls \ overtaken :
      /\ Storing(k) /\ call[k].ready /\ call[k].flag = "on" => call[k].others = Defaults
      /\ call[k].do = "delete" => SeenDelete(k)

BookInv ==
    /\ TypeOK
    /\ Own
    /\ Seen

-----------------------------------------------------------------------------
(* Type correctness.                                                        *)

\* The fields a request has, and those it has not.
LEMMA CallFields ==
    ASSUME NEW c \in Call
    PROVE  /\ Idle.do = "none"
           /\ c = Idle \/ c.do \in {"create", "update", "delete"}
           /\ c # Idle => /\ c.of \in Addresses
                          /\ c.flag \in {"on", "off", "keep"}
                          /\ c.ready \in BOOLEAN
                          /\ c.ready => c.others \in SUBSET Addresses
  BY DEF Call, Idle

LEMMA TypeBegin ==
    ASSUME TypeOK, NEW k \in Calls, NEW do \in {"create", "update", "delete"},
           NEW a \in Addresses, NEW flag \in {"on", "off", "keep"}, Begin(k, do, a, flag)
    PROVE  TypeOK'
<1>1. [do |-> do, of |-> a, flag |-> flag, ready |-> FALSE] \in Call
  BY DEF Call
<1> QED
  BY <1>1 DEF Begin, TypeOK

LEMMA TypeFind ==
    ASSUME TypeOK, NEW k \in Calls, call[k].do \in {"create", "update", "delete"},
           NEW found \in SUBSET Addresses, Find(k, found), UNCHANGED <<row, overtaken>>
    PROVE  TypeOK'
<1>1. /\ call[k].of \in Addresses /\ call[k].flag \in {"on", "off", "keep"}
  BY CallFields DEF TypeOK
<1>2. [do |-> call[k].do, of |-> call[k].of, flag |-> call[k].flag,
       ready |-> TRUE, others |-> found] \in Call
  BY <1>1 DEF Call
<1> QED
  BY <1>2 DEF Find, TypeOK

\* The steps, told apart by what they write.
LEMMA Steps ==
    ASSUME TypeOK, [Next]_vars
    PROVE  \/ \E k \in Calls, a \in Addresses :
                \/ \E asked \in BOOLEAN : CreateAddress(k, a, asked)
                \/ \E flag \in {"on", "off", "keep"} : UpdateAddress(k, a, flag)
                \/ DeleteAddress(k, a)
           \/ \E k \in Calls : UnsetDefaultAddresses(k) \/ FindNextAddressForDefault(k)
           \/ \E k \in Calls : Commits(k)
           \/ \E k \in Calls : Abort(k)
           \/ UNCHANGED vars
  BY DEF Next, Commits, SetDefaultAddress, UpdateAddress

LEMMA CommitWrites ==
    ASSUME TypeOK, NEW k \in Calls, Commits(k)
    PROVE  /\ Finish(k)
           /\ call[k].of \in Addresses
           /\ row' \in [Addresses -> {"unused", "plain", "default", "deleted"}]
           /\ \A a \in Addresses \ {call[k].of} : row[a] = "unused" <=> row'[a] = "unused"
           /\ row[call[k].of] # "unused" => row'[call[k].of] # "unused"
<1>1. call[k].do \in {"create", "update", "delete"} /\ call[k].ready /\ Finish(k)
  BY DEF Commits, Store, Remove
<1>2. call[k].of \in Addresses /\ call[k].others \in SUBSET Addresses
  BY <1>1, CallFields DEF TypeOK, Idle
<1>3. CASE Store(k)
  <2>1. \A a \in Addresses : row'[a] = IF a = call[k].of THEN Marked(a, call[k].flag)
                 ELSE IF a \in call[k].others \cap Live THEN "plain" ELSE row[a]
    BY <1>3 DEF Store
  <2>2. \A a \in Addresses : /\ row[a] \in {"unused", "plain", "default", "deleted"}
                             /\ Marked(a, call[k].flag) \in {"plain", "default", row[a]}
    BY DEF TypeOK, Marked
  <2>3. \A a \in Live : row[a] # "unused"
    BY DEF Live
  <2>4. \E f : row' = [a \in Addresses |-> f[a]]
    BY <1>3 DEF Store
  <2> QED
    BY <1>1, <1>2, <2>1, <2>2, <2>3, <2>4
<1>4. CASE Remove(k)
  BY <1>1, <1>2, <1>4 DEF Remove, Live, TypeOK
<1> QED
  BY <1>1, <1>3, <1>4 DEF Commits

LEMMA TypeFinish ==
    ASSUME TypeOK, NEW k \in Calls, Commits(k)
    PROVE  TypeOK'
<1>1. Idle \in Call
  BY DEF Call
<1> QED
  BY <1>1, CommitWrites DEF Finish, TypeOK

LEMMA TypeNext == TypeOK /\ [Next]_vars => TypeOK'
<1> SUFFICES ASSUME TypeOK, [Next]_vars PROVE TypeOK'
  OBVIOUS
<1>1. ASSUME NEW k \in Calls, NEW a \in Addresses,
             \/ \E asked \in BOOLEAN : CreateAddress(k, a, asked)
             \/ \E flag \in {"on", "off", "keep"} : UpdateAddress(k, a, flag)
             \/ DeleteAddress(k, a)
      PROVE  TypeOK'
  BY <1>1, TypeBegin DEF CreateAddress, UpdateAddress, DeleteAddress
<1>2. ASSUME NEW k \in Calls, UnsetDefaultAddresses(k)
      PROVE  TypeOK'
  BY <1>2, TypeFind DEF UnsetDefaultAddresses, Defaults
<1>3. ASSUME NEW k \in Calls, FindNextAddressForDefault(k)
      PROVE  TypeOK'
  <2>1. PICK found \in SUBSET Addresses : Find(k, found)
    BY <1>3 DEF FindNextAddressForDefault, Live
  <2> QED
    BY <1>3, <2>1, TypeFind DEF FindNextAddressForDefault
<1>4. ASSUME NEW k \in Calls, Abort(k)
      PROVE  TypeOK'
  BY <1>4 DEF Abort, TypeOK, Call
<1>5. CASE UNCHANGED vars
  BY <1>5 DEF vars, TypeOK
<1> QED
  BY <1>1, <1>2, <1>3, <1>4, <1>5, TypeFinish, Steps

\* Every reachable state is well typed.
THEOREM TypeInvariant == Spec => []TypeOK
<1>1. Init => TypeOK
  BY DEF Init, TypeOK, Call
<1> QED
  BY <1>1, TypeNext, PTL DEF Spec

-----------------------------------------------------------------------------
(* The invariant is kept.                                                   *)

\* What a request writes of itself.
LEMMA CallNow ==
    ASSUME TypeOK, NEW k \in Calls, NEW c, call' = [call EXCEPT ![k] = c]
    PROVE  call'[k] = c /\ \A j \in Calls \ {k} : call'[j] = call[j]
  BY DEF TypeOK

LEMMA OwnBegin ==
    ASSUME TypeOK, Own, NEW k \in Calls, NEW do \in {"create", "update", "delete"},
           NEW a \in Addresses, NEW flag, Begin(k, do, a, flag),
           do # "create" => row[a] # "unused",
           do = "create" => /\ row[a] = "unused"
                            /\ \A j \in Calls : call[j] # Idle => call[j].of # a
    PROVE  Own'
<1> DEFINE c == [do |-> do, of |-> a, flag |-> flag, ready |-> FALSE]
<1>1. /\ c.do = do /\ c.of = a /\ c.ready = FALSE /\ call[k] = Idle
      /\ call'[k] = c /\ row' = row
      /\ \A j \in Calls \ {k} : call'[j] = call[j]
  BY CallNow DEF Begin
<1> HIDE DEF c
<1>2. \A j \in Calls : call[j].do = "create" => row[call[j].of] = "unused" /\ call[j] # Idle
  BY CallFields DEF Own, TypeOK
<1> SUFFICES ASSUME NEW i \in Calls
             PROVE  /\ call'[i].do = "create" =>
                         /\ row[call'[i].of] = "unused"
                         /\ \A j \in Calls \ {i} : call'[j] # Idle => call'[j].of # call'[i].of
                    /\ call'[i].do \in {"update", "delete"} => row[call'[i].of] # "unused"
                    /\ call'[i].do \in {"create", "update"} /\ call'[i].ready
                         /\ call'[i].flag # "on" => call'[i].others = {}
  BY <1>1 DEF Own, Storing
<1>3. CASE i = k
  BY <1>1, <1>3
<1>4. CASE i # k
  BY <1>1, <1>2, <1>4 DEF Own, Storing
<1> QED
  BY <1>3, <1>4

\* A request that reads inside its transaction keeps the rest of what it is.
LEMMA OwnFind ==
    ASSUME TypeOK, Own, NEW k \in Calls, NEW found, Find(k, found), UNCHANGED row,
           call[k].do \in {"create", "update", "delete"},
           Storing(k) /\ call[k].flag # "on" => found = {}
    PROVE  Own'
<1> DEFINE c == [do |-> call[k].do, of |-> call[k].of, flag |-> call[k].flag,
                 ready |-> TRUE, others |-> found]
<1>0. /\ c.do = call[k].do /\ c.of = call[k].of /\ c.flag = call[k].flag
      /\ c.others = found /\ call[k] # Idle
      /\ call' = [call EXCEPT ![k] = c]
  BY DEF Find, Idle
<1> HIDE DEF c
<1>1. /\ c.do = call[k].do /\ c.of = call[k].of /\ c.flag = call[k].flag
      /\ c.others = found /\ call[k] # Idle
      /\ call'[k] = c
      /\ \A j \in Calls \ {k} : call'[j] = call[j]
  BY <1>0, CallNow
<1> SUFFICES ASSUME NEW i \in Calls
             PROVE  /\ call'[i].do = "create" =>
                         /\ row[call'[i].of] = "unused"
                         /\ \A j \in Calls \ {i} : call'[j] # Idle => call'[j].of # call'[i].of
                    /\ call'[i].do \in {"update", "delete"} => row[call'[i].of] # "unused"
                    /\ call'[i].do \in {"create", "update"} /\ call'[i].ready
                         /\ call'[i].flag # "on" => call'[i].others = {}
  BY DEF Own, Storing
<1>2. CASE i = k
  BY <1>1, <1>2 DEF Own, Storing
<1>3. CASE i # k
  BY <1>1, <1>3 DEF Own, Storing
<1> QED
  BY <1>2, <1>3

\* A request that ends, and leaves what the others rely on.
LEMMA OwnEnd ==
    ASSUME TypeOK, Own, NEW k \in Calls, call' = [call EXCEPT ![k] = Idle],
           \A j \in Calls \ {k} : call[j] # Idle =>
             (row[call[j].of] = "unused" <=> row'[call[j].of] = "unused")
    PROVE  Own'
<1>1. /\ Idle.do = "none" /\ call'[k] = Idle
      /\ \A j \in Calls \ {k} : call'[j] = call[j]
  BY CallNow, CallFields DEF Idle
<1>2. \A j \in Calls : call[j].do \in {"create", "update", "delete"} => call[j] # Idle
  BY DEF Idle
<1> SUFFICES ASSUME NEW i \in Calls
             PROVE  /\ call'[i].do = "create" =>
                         /\ row'[call'[i].of] = "unused"
                         /\ \A j \in Calls \ {i} : call'[j] # Idle => call'[j].of # call'[i].of
                    /\ call'[i].do \in {"update", "delete"} => row'[call'[i].of] # "unused"
                    /\ call'[i].do \in {"create", "update"} /\ call'[i].ready
                         /\ call'[i].flag # "on" => call'[i].others = {}
  BY DEF Own, Storing
<1>3. CASE i = k
  BY <1>1, <1>3
<1>4. CASE i # k
  BY <1>1, <1>2, <1>4 DEF Own, Storing
<1> QED
  BY <1>3, <1>4

\* Once another request has committed, nobody else under way is not overtaken.
LEMMA SeenCommit ==
    ASSUME TypeOK, NEW k \in Calls, Finish(k)
    PROVE  Seen'
<1>1. /\ Idle.do = "none" /\ call'[k] = Idle
      /\ \A j \in Calls \ {k} : call'[j] = call[j]
  BY CallNow DEF Finish, Idle
<1>2. ASSUME NEW j \in Calls \ overtaken'
      PROVE  call'[j].do = "none"
  BY <1>1, <1>2 DEF Finish
<1> QED
  BY <1>2 DEF Seen, Storing

\* A step that leaves the rows, and of the requests moves k only.
LEMMA SeenMove ==
    ASSUME TypeOK, Seen, NEW k \in Calls, NEW c, call' = [call EXCEPT ![k] = c],
           UNCHANGED row, overtaken \ {k} \subseteq overtaken',
           k \notin overtaken' =>
             /\ c.do \in {"create", "update"} /\ c.ready /\ c.flag = "on"
                  => c.others = Defaults
             /\ c.do = "delete" =>
                  /\ c.of \in Live
                  /\ c.flag = "on" <=> c.of \in Defaults
                  /\ c.ready =>
                       /\ c.others = {} \/ \E b \in Live \ {c.of} : c.others = {b}
                       /\ c.others = {} <=> (c.flag # "on" \/ Live = {c.of})
    PROVE  Seen'
<1>1. /\ call'[k] = c
      /\ \A j \in Calls \ {k} : call'[j] = call[j]
  BY CallNow
<1>2. Live' = Live /\ Defaults' = Defaults
  BY DEF Live, Defaults
<1>3. \A j \in (Calls \ overtaken') \ {k} : j \in Calls \ overtaken
  OBVIOUS
<1> QED
  BY <1>1, <1>2, <1>3 DEF Seen, SeenDelete, Storing

LEMMA BeginKeeps ==
    ASSUME BookInv, NEW k \in Calls, NEW a \in Addresses,
           \/ \E asked \in BOOLEAN : CreateAddress(k, a, asked)
           \/ \E flag \in {"on", "off", "keep"} : UpdateAddress(k, a, flag)
           \/ DeleteAddress(k, a)
    PROVE  Own' /\ Seen'
<1>1. PICK do \in {"create", "update", "delete"}, flag \in {"on", "off", "keep"} :
         /\ Begin(k, do, a, flag)
         /\ do = "create" => /\ row[a] = "unused"
                             /\ a \notin {call[j].of : j \in {i \in Calls : call[i] # Idle}}
         /\ do # "create" => a \in Live
         /\ do = "delete" => (flag = "on" <=> a \in Defaults)
  <2>1. CASE \E asked \in BOOLEAN : CreateAddress(k, a, asked)
    BY <2>1, Zenon DEF CreateAddress
  <2>2. CASE \E flag \in {"on", "off", "keep"} : UpdateAddress(k, a, flag)
    BY <2>2 DEF UpdateAddress
  <2>3. CASE DeleteAddress(k, a)
    BY <2>3 DEF DeleteAddress
  <2> QED
    BY <2>1, <2>2, <2>3
<1>2. Own'
  BY <1>1, OwnBegin DEF BookInv, Live
<1>3. Seen'
  <2> DEFINE c == [do |-> do, of |-> a, flag |-> flag, ready |-> FALSE]
  <2>1. /\ c.do = do /\ c.of = a /\ c.flag = flag /\ c.ready = FALSE
        /\ call' = [call EXCEPT ![k] = c] /\ row' = row /\ overtaken' = overtaken \ {k}
    BY <1>1 DEF Begin
  <2> HIDE DEF c
  <2> QED
    BY <1>1, <2>1, SeenMove DEF BookInv
<1> QED
  BY <1>2, <1>3

LEMMA UnsetKeeps ==
    ASSUME BookInv, NEW k \in Calls, UnsetDefaultAddresses(k)
    PROVE  Own' /\ Seen'
<1> DEFINE found == IF call[k].flag = "on" THEN Defaults ELSE {}
<1>1. /\ call[k].do \in {"create", "update"} /\ Find(k, found)
      /\ UNCHANGED <<row, overtaken>>
  BY DEF UnsetDefaultAddresses
<1>2. Own'
  BY <1>1, OwnFind DEF BookInv
<1>3. Seen'
  <2> DEFINE c == [do |-> call[k].do, of |-> call[k].of, flag |-> call[k].flag,
                   ready |-> TRUE, others |-> found]
  <2>1. /\ c.do # "delete" /\ c.flag = call[k].flag /\ c.others = found
        /\ call' = [call EXCEPT ![k] = c]
    BY <1>1 DEF Find
  <2> HIDE DEF c
  <2> QED
    BY <1>1, <2>1, SeenMove DEF BookInv
<1> QED
  BY <1>2, <1>3

LEMMA FindNextKeeps ==
    ASSUME BookInv, NEW k \in Calls, FindNextAddressForDefault(k)
    PROVE  Own' /\ Seen'
<1>1. PICK found \in SUBSET Addresses :
         /\ Find(k, found)
         /\ found = {} \/ \E b \in Live \ {call[k].of} : found = {b}
         /\ found = {} <=> (call[k].flag # "on" \/ Live \ {call[k].of} = {})
  BY DEF FindNextAddressForDefault, Live
<1>2. call[k].do = "delete" /\ UNCHANGED <<row, overtaken>>
  BY DEF FindNextAddressForDefault
<1>3. Own'
  BY <1>1, <1>2, OwnFind DEF BookInv, Storing
<1>4. Seen'
  <2> DEFINE c == [do |-> call[k].do, of |-> call[k].of, flag |-> call[k].flag,
                   ready |-> TRUE, others |-> found]
  <2>1. /\ c.do = "delete" /\ c.of = call[k].of /\ c.flag = call[k].flag
        /\ c.others = found /\ call' = [call EXCEPT ![k] = c]
    BY <1>1, <1>2 DEF Find
  <2> HIDE DEF c
  <2>2. ASSUME k \notin overtaken
        PROVE  /\ c.of \in Live
               /\ c.flag = "on" <=> c.of \in Defaults
               /\ Live \ {c.of} = {} <=> Live = {c.of}
    BY <1>2, <2>1, <2>2 DEF BookInv, Seen, SeenDelete
  <2> QED
    BY <1>1, <1>2, <2>1, <2>2, SeenMove DEF BookInv
<1> QED
  BY <1>3, <1>4

LEMMA CommitKeeps ==
    ASSUME BookInv, NEW k \in Calls, Commits(k)
    PROVE  Own' /\ Seen'
<1>1. Seen'
  BY CommitWrites, SeenCommit DEF BookInv
<1>2. call' = [call EXCEPT ![k] = Idle] /\ call[k] # Idle
  BY CommitWrites DEF Finish, BookInv, Commits, Store, Remove, Idle
<1>3. ASSUME NEW j \in Calls \ {k}, call[j] # Idle
      PROVE  row[call[j].of] = "unused" <=> row'[call[j].of] = "unused"
  <2>1. call[j].of \in Addresses /\ call[j].do \in {"create", "update", "delete"}
    BY <1>3, CallFields DEF BookInv, TypeOK
  <2>2. CASE call[j].of # call[k].of
    BY <2>1, <2>2, CommitWrites DEF BookInv
  <2>3. CASE call[j].of = call[k].of
    <3>1. call[j].do # "create" /\ call[k].do # "create"
      BY <1>2, <1>3, <2>3 DEF BookInv, Own
    <3>2. row[call[j].of] # "unused"
      BY <2>1, <3>1 DEF BookInv, Own
    <3> QED
      BY <2>3, <3>2, CommitWrites DEF BookInv
  <2> QED
    BY <2>2, <2>3
<1>4. Own'
  BY <1>2, <1>3, OwnEnd DEF BookInv
<1> QED
  BY <1>1, <1>4

LEMMA AbortKeeps ==
    ASSUME BookInv, NEW k \in Calls, Abort(k)
    PROVE  Own' /\ Seen'
<1>1. /\ call' = [call EXCEPT ![k] = Idle] /\ row' = row
      /\ overtaken' = overtaken \ {k} /\ Idle.do = "none"
  BY DEF Abort, Idle
<1>2. Own'
  BY <1>1, OwnEnd DEF BookInv
<1>3. Seen'
  BY <1>1, SeenMove DEF BookInv
<1> QED
  BY <1>2, <1>3

LEMMA BookInvariant == Spec => []BookInv
<1>1. Init => BookInv
  BY DEF Init, Idle, Call, BookInv, TypeOK, Own, Seen, Storing
<1>2. BookInv /\ [Next]_vars => BookInv'
  <2> SUFFICES ASSUME BookInv, [Next]_vars PROVE Own' /\ Seen'
    BY TypeNext DEF BookInv
  <2>1. CASE UNCHANGED vars
    BY <2>1 DEF vars, BookInv, Own, Seen, SeenDelete, Storing, Live, Defaults
  <2> QED
    BY <2>1, BeginKeeps, UnsetKeeps, FindNextKeeps, CommitKeeps, AbortKeeps, Steps
       DEF BookInv
<1> QED
  BY <1>1, <1>2, PTL DEF Spec

-----------------------------------------------------------------------------
(* What a commit does to the default.                                       *)

\* An address saved as the default, when what was found is still so, is the
\* only one.
LEMMA StoreOn ==
    ASSUME BookInv, NEW k \in Calls \ overtaken, Store(k), call[k].flag = "on"
    PROVE  Defaults' = {call[k].of}
<1>1. call[k].others = Defaults
  BY DEF Store, BookInv, Seen, Storing
<1>2. call[k].of \in Addresses
  BY CommitWrites DEF Commits, BookInv
<1>3. \A a \in Addresses : row'[a] = IF a = call[k].of THEN "default"
                                    ELSE IF a \in Defaults THEN "plain" ELSE row[a]
  BY <1>1 DEF Store, Marked, Defaults, Live
<1> QED
  BY <1>2, <1>3 DEF Defaults

\* An address saved otherwise is at most taken from the defaults, and then
\* because the form says so.
LEMMA StoreOff ==
    ASSUME BookInv, NEW k \in Calls, Store(k), call[k].flag # "on"
    PROVE  Defaults' = Defaults \/ (Clears(k) /\ Defaults' = Defaults \ {call[k].of})
<1>1. call[k].others = {} /\ call[k].do \in {"create", "update"}
  BY DEF Store, BookInv, Own, Storing
<1>2. \A a \in Addresses : row'[a] = IF a = call[k].of /\ call[k].flag = "off"
                                    THEN "plain" ELSE row[a]
  BY <1>1 DEF Store, Marked
<1>3. call[k].do = "create" => row[call[k].of] = "unused"
  BY DEF BookInv, Own
<1> QED
  BY <1>1, <1>2, <1>3 DEF Defaults, Clears

LEMMA RemoveOne ==
    ASSUME BookInv, NEW k \in Calls \ overtaken, Remove(k), NEW d, Defaults = {d}
    PROVE  \/ \E b : Defaults' = {b}
           \/ Defaults' = {} /\ Live' = {}
<1> DEFINE a == call[k].of
           S == call[k].others
<1>1. /\ a \in Live
      /\ call[k].flag = "on" <=> a \in Defaults
      /\ S = {} \/ \E b \in Live \ {a} : S = {b}
      /\ S = {} <=> (call[k].flag # "on" \/ Live = {a})
  BY DEF Remove, BookInv, Seen, SeenDelete
<1>2. \A x \in Addresses : row'[x] = IF x = a THEN "deleted"
                                    ELSE IF x \in S THEN "default" ELSE row[x]
  BY DEF Remove
<1>3. Defaults' = (Defaults \cup S) \ {a}
  BY <1>1, <1>2 DEF Defaults, Live
<1>4. CASE S = {}
  <2>1. CASE a \in Defaults
    BY <1>1, <1>2, <1>3, <1>4, <2>1 DEF Live
  <2>2. CASE a \notin Defaults
    BY <1>3, <1>4, <2>2
  <2> QED
    BY <2>1, <2>2
<1>5. CASE S # {}
  BY <1>1, <1>3, <1>5
<1> QED
  BY <1>4, <1>5

LEMMA OneDefault ==
    /\ Cardinality(Defaults) = 1 <=> \E d : Defaults = {d}
    /\ Cardinality(Defaults') = 1 <=> \E d : Defaults' = {d}
<1>1. IsFiniteSet(Defaults) /\ IsFiniteSet(Defaults')
  BY AddressesAssumption, FS_Subset DEF Defaults
<1> QED
  BY <1>1, FS_Singleton

LEMMA QuietDefaults ==
    ASSUME TypeOK, [Next]_vars, ~ \E k \in Calls : Commits(k)
    PROVE  Defaults' = Defaults
<1>1. row' = row
  BY Steps DEF CreateAddress, UpdateAddress, DeleteAddress, Begin, UnsetDefaultAddresses,
               FindNextAddressForDefault, Abort, vars
<1> QED
  BY <1>1 DEF Defaults

-----------------------------------------------------------------------------
(* What is proved.                                                          *)

\* Whatever earlier races left behind, a request that makes an address the
\* default leaves exactly that one, if no other commits between its read and
\* its own commit.
THEOREM DefaultRestored == Spec => DefaultIsRestored
<1>1. BookInv /\ [Next]_vars
        => [\A k \in Calls \ overtaken :
              Store(k) /\ call[k].flag = "on" => Defaults' = {call[k].of}]_vars
  BY StoreOn
<1> QED
  BY <1>1, BookInvariant, PTL DEF Spec, DefaultIsRestored

\* A request that is not overtaken keeps the single default single; only an
\* edit that clears the mark, or the end of the last address, leaves none.
THEOREM SingleDefault == Spec => DefaultStaysOne
<1>1. ASSUME BookInv, NEW k \in Calls \ overtaken, Commits(k), Cardinality(Defaults) = 1
      PROVE  \/ Cardinality(Defaults') = 1
             \/ Defaults' = {} /\ (Live' = {} \/ Clears(k))
  <2>1. PICK d : Defaults = {d}
    BY <1>1, OneDefault
  <2>2. CASE Store(k) /\ call[k].flag = "on"
    BY <1>1, <2>2, StoreOn, OneDefault
  <2>3. CASE Store(k) /\ call[k].flag # "on"
    <3>1. \/ Defaults' = {d}
          \/ Clears(k) /\ Defaults' = {}
      BY <1>1, <2>1, <2>3, StoreOff
    <3> QED
      BY <3>1, OneDefault
  <2>4. CASE Remove(k)
    BY <1>1, <2>1, <2>4, RemoveOne, OneDefault
  <2> QED
    BY <1>1, <2>2, <2>3, <2>4 DEF Commits
<1>2. BookInv /\ [Next]_vars
        => [\A k \in Calls \ overtaken :
              Commits(k) /\ Cardinality(Defaults) = 1 =>
                 \/ Cardinality(Defaults') = 1
                 \/ Defaults' = {} /\ (Live' = {} \/ Clears(k))]_vars
  BY <1>1
<1> QED
  BY <1>2, BookInvariant, PTL DEF Spec, DefaultStaysOne

\* However many requests that choose a default overlap, they leave one between
\* them: only a deletion or an edit that clears the mark can leave none.
THEOREM ChoiceLeavesDefault == Spec => ChoosingLeavesADefault
<1>1. ASSUME BookInv, [Next]_vars, Defaults # {}, Defaults' = {}
      PROVE  \E k \in Calls : Commits(k) /\ (call[k].do = "delete" \/ Clears(k))
  <2>1. PICK k \in Calls : Commits(k)
    BY <1>1, QuietDefaults DEF BookInv
  <2>2. CASE Remove(k)
    BY <2>1, <2>2 DEF Remove
  <2>3. CASE Store(k) /\ call[k].flag = "on"
    <3>1. call[k].of \in Addresses
      BY <1>1, <2>1, CommitWrites DEF BookInv
    <3>2. row'[call[k].of] = "default"
      BY <2>3, <3>1 DEF Store, Marked
    <3> QED
      BY <1>1, <3>1, <3>2 DEF Defaults
  <2>4. CASE Store(k) /\ call[k].flag # "on"
    BY <1>1, <2>1, <2>4, StoreOff
  <2> QED
    BY <2>1, <2>2, <2>3, <2>4 DEF Commits
<1>2. BookInv /\ [Next]_vars
        => [Defaults # {} /\ Defaults' = {} =>
              \E k \in Calls : Commits(k) /\ (call[k].do = "delete" \/ Clears(k))]_vars
  BY <1>1
<1> QED
  BY <1>2, BookInvariant, PTL DEF Spec, ChoosingLeavesADefault
=============================================================================
