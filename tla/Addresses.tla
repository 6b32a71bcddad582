----------------------------- MODULE Addresses -----------------------------
(***************************************************************************)
(* The address book of one customer, and which address is the default.  A   *)
(* request reads outside its database transaction, then takes the snapshot  *)
(* of the one statement that reads inside it, and commits.  What an address *)
(* says is left out.                                                        *)
(*                                                                          *)
(* A row changed by a statement stays locked until the commit, and an UPDATE *)
(* that waited looks at its row again: so all writes happen at the commit,   *)
(* on the rows the snapshot found.                                          *)
(***************************************************************************)
EXTENDS FiniteSets, Naturals

CONSTANTS
    Addresses,      \* bound: rows created
    Calls           \* requests under way at once

ASSUME AddressesAssumption == IsFiniteSet(Addresses)

VARIABLES
    row,            \* row[a]: "unused", "plain", "default", "deleted"
    call,           \* call[k]: what request k is doing
    overtaken       \* history: requests during which another one committed

vars == <<row, call, overtaken>>

Live == {a \in Addresses : row[a] \in {"plain", "default"}}
Defaults == {a \in Addresses : row[a] = "default"}

\* flag: what isDefault becomes ("keep": not in the form); for a deletion, what
\* it was. others: the rows the statement inside the transaction found.
Idle == [do |-> "none"]
Call == {Idle}
        \cup [do : {"create", "update", "delete"}, of : Addresses,
              flag : {"on", "off", "keep"}, ready : {FALSE}]
        \cup [do : {"create", "update", "delete"}, of : Addresses,
              flag : {"on", "off", "keep"}, ready : {TRUE}, others : SUBSET Addresses]

Init ==
    /\ row = [a \in Addresses |-> "unused"]
    /\ call = [k \in Calls |-> Idle]
    /\ overtaken = {}

Begin(k, do, a, flag) ==
    /\ call[k] = Idle
    /\ call' = [call EXCEPT ![k] = [do |-> do, of |-> a, flag |-> flag, ready |-> FALSE]]
    /\ overtaken' = overtaken \ {k}
    /\ UNCHANGED row

-----------------------------------------------------------------------------
(* What a request reads first: the count, or the address.                   *)

CreateAddress(k, a, asked) ==
    /\ row[a] = "unused" /\ a \notin {call[j].of : j \in {i \in Calls : call[i] # Idle}}
    /\ Begin(k, "create", a, IF asked \/ Live = {} THEN "on" ELSE "off")

UpdateAddress(k, a, flag) == a \in Live /\ Begin(k, "update", a, flag)

SetDefaultAddress(k, a) == a \in Live /\ Begin(k, "update", a, "on")

DeleteAddress(k, a) ==
    a \in Live /\ Begin(k, "delete", a, IF a \in Defaults THEN "on" ELSE "off")

-----------------------------------------------------------------------------
(* The database transaction.                                                *)

Find(k, found) ==
    call' = [call EXCEPT ![k] = [do |-> call[k].do, of |-> call[k].of, flag |-> call[k].flag,
                                 ready |-> TRUE, others |-> found]]

\* Mutant: the default is not taken from the others when a form asks for it.
UnsetNone(k) ==
    /\ call[k].do \in {"create", "update"} /\ ~call[k].ready
    /\ Find(k, {})
    /\ UNCHANGED <<row, overtaken>>

\* unsetDefaultAddresses.
UnsetDefaultAddresses(k) ==
    /\ call[k].do \in {"create", "update"} /\ ~call[k].ready
    /\ Find(k, IF call[k].flag = "on" THEN Defaults ELSE {})
    /\ UNCHANGED <<row, overtaken>>

\* Mutant: the address to come is sought before the one to go is gone.
FindNextAmongAll(k) ==
    /\ call[k].do = "delete" /\ ~call[k].ready
    /\ IF call[k].flag = "on" /\ Live # {}
       THEN \E b \in Live : Find(k, {b})
       ELSE Find(k, {})
    /\ UNCHANGED <<row, overtaken>>

\* findNextAddressForDefault: the last one updated.
FindNextAddressForDefault(k) ==
    /\ call[k].do = "delete" /\ ~call[k].ready
    /\ IF call[k].flag = "on" /\ Live \ {call[k].of} # {}
       THEN \E b \in Live \ {call[k].of} : Find(k, {b})
       ELSE Find(k, {})
    /\ UNCHANGED <<row, overtaken>>

Finish(k) ==
    /\ call' = [call EXCEPT ![k] = Idle]
    /\ overtaken' = (overtaken \cup {j \in Calls : call[j] # Idle}) \ {k}

\* isDefault as the form has it.
Marked(a, flag) ==
    IF flag = "on" THEN "default" ELSE IF flag = "off" THEN "plain" ELSE row[a]

\* Mutant: the address is marked before the others are cleared.
StoreThenUnset(k) ==
    /\ call[k].do \in {"create", "update"} /\ call[k].ready
    /\ call[k].do = "update" => call[k].of \in Live
    /\ row' = [a \in Addresses |->
                 IF a \in call[k].others \cap Live THEN "plain"
                 ELSE IF a = call[k].of THEN Marked(a, call[k].flag) ELSE row[a]]
    /\ Finish(k)

\* The UPDATE of an address deleted since fails.
Store(k) ==
    /\ call[k].do \in {"create", "update"} /\ call[k].ready
    /\ call[k].do = "update" => call[k].of \in Live
    /\ row' = [a \in Addresses |->
                 IF a = call[k].of THEN Marked(a, call[k].flag)
                 ELSE IF a \in call[k].others \cap Live THEN "plain" ELSE row[a]]
    /\ Finish(k)

Remove(k) ==
    /\ call[k].do = "delete" /\ call[k].ready
    /\ {call[k].of} \cup call[k].others \subseteq Live
    /\ row' = [a \in Addresses |-> IF a = call[k].of THEN "deleted"
                                   ELSE IF a \in call[k].others THEN "default" ELSE row[a]]
    /\ Finish(k)

\* A refusal, a failed statement, a deadlock broken by the database, a crash.
Abort(k) ==
    /\ call[k] # Idle
    /\ call' = [call EXCEPT ![k] = Idle]
    /\ overtaken' = overtaken \ {k}
    /\ UNCHANGED row

Next == \E k \in Calls :
    \/ \E a \in Addresses :
         \/ \E asked \in BOOLEAN : CreateAddress(k, a, asked)
         \/ \E flag \in {"on", "off", "keep"} : UpdateAddress(k, a, flag)
         \/ SetDefaultAddress(k, a) \/ DeleteAddress(k, a)
    \/ UnsetDefaultAddresses(k) \/ FindNextAddressForDefault(k)
    \/ Store(k) \/ Remove(k) \/ Abort(k)

Spec == Init /\ [][Next]_vars

-----------------------------------------------------------------------------
TypeOK ==
    /\ row \in [Addresses -> {"unused", "plain", "default", "deleted"}]
    /\ call \in [Calls -> Call]
    /\ overtaken \subseteq Calls

Commits(k) == Store(k) \/ Remove(k)

\* Whatever earlier races left behind, a request that makes an address the
\* default leaves exactly that one, if no other commits between its read and its
\* own commit.
DefaultIsRestored ==
    [][\A k \in Calls \ overtaken :
         Store(k) /\ call[k].flag = "on" => Defaults' = {call[k].of}]_vars

Clears(k) == call[k].do = "update" /\ call[k].flag = "off"

\* A request that is not overtaken keeps the single default single, and only an
\* edit that clears the mark, or the end of the last address, leaves none.
DefaultStaysOne ==
    [][\A k \in Calls \ overtaken :
         Commits(k) /\ Cardinality(Defaults) = 1 =>
            \/ Cardinality(Defaults') = 1
            \/ Defaults' = {} /\ (Live' = {} \/ Clears(k))]_vars

\* Requests that choose a default, however they overlap, never leave none
\* between them: only a deletion or an edit that clears the mark can.
ChoosingLeavesADefault ==
    [][Defaults # {} /\ Defaults' = {} =>
         \E k \in Calls : Commits(k) /\ (call[k].do = "delete" \/ Clears(k))]_vars
=============================================================================
