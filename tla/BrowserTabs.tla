---------------------------- MODULE BrowserTabs ----------------------------
(***************************************************************************)
(* The tabs of one browser, which share cookies: what each tab shows, what   *)
(* it does when the server answers 401, and the events the tabs send each    *)
(* other. The account may be updated on another device, which ends its       *)
(* sessions.                                                                *)
(*                                                                          *)
(* The server is what Sessions makes of it: for a while after an update an   *)
(* old record may let an old session in, and keep a new one out; then no     *)
(* more (OldSessionsEnd). The tries of one request are one request, which    *)
(* is answered or lost.                                                      *)
(***************************************************************************)
EXTENDS Naturals, Sequences

CONSTANTS
    Tabs,
    Slots,          \* <<tab, kind>>: each tab's checks (GET /users/me), other requests
    MaxInbox,       \* bound: events under way to a tab; further ones are lost
    MaxActs         \* bound: what people do, and access tokens that run out

ASSUME BrowserTabsAssumption == MaxInbox \in Nat /\ MaxActs \in Nat

VARIABLES
    jar,            \* the session in the cookies
    lag,            \* a record of before the last update may be in use
    shown,          \* shown[t]: auth.user
    ask,            \* ask[s]: how far slot s is with its request
    inbox,          \* inbox[t]: events of other tabs not yet delivered
    acts

vars == <<jar, lag, shown, ask, inbox, acts>>

\* "live": of the account's version. "old": of a version before. "expired": the
\* access token does not verify any more.
Session == {"none", "live", "old", "expired"}
Event == {"SIGNED_OUT", "SESSION_REFRESHED"}
Check(t) == <<t, "check">>
Tab(s) == s[1]
IsCheck(s) == s[2] = "check"

\* carries: the session it was sent with. had: a user was shown when the 401 came.
\* reset: the API state was thrown away since the request was sent.
Ask == [pc : {"idle", "first", "refresh", "recover", "again", "repeat"},
        carries : Session, had : BOOLEAN, reset : BOOLEAN]
NoAsk == [pc |-> "idle", carries |-> "none", had |-> FALSE, reset |-> FALSE]

\* Any rest people may have left the tabs in.
Init ==
    /\ jar \in Session
    /\ lag = FALSE
    /\ shown \in [Tabs -> {"unknown", "user", "nobody"}]
    /\ ask = [s \in Slots |-> NoAsk]
    /\ inbox = [t \in Tabs |-> <<>>]
    /\ acts = 0

-----------------------------------------------------------------------------
(* Building blocks.                                                         *)

\* The request leaves with the cookies of its moment.
Send(s, pc) == ask' = [ask EXCEPT ![s].pc = pc, ![s].carries = jar]

Done(s) == ask' = [ask EXCEPT ![s] = NoAsk]

\* A 200 is possible, a 401 is possible.
Admitted(s) == ask[s].carries = "live" \/ (ask[s].carries = "old" /\ lag)
Refused(s) == ask[s].carries # "live" \/ lag

Waiting(s) == ask[s].pc \in {"first", "recover", "repeat"}

Emit(t, event) ==
    inbox' = [u \in Tabs |-> IF u = t \/ Len(inbox[u]) = MaxInbox
                             THEN inbox[u] ELSE Append(inbox[u], event)]

\* resetApiState and logout in tab t; the slots in ended are done.
ShowNobody(t, ended) ==
    /\ shown' = [shown EXCEPT ![t] = "nobody"]
    /\ ask' = [s \in Slots |-> IF s \in ended THEN NoAsk
                               ELSE IF s = Check(t) /\ ask[s].pc # "idle"
                                    THEN [ask[s] EXCEPT !.reset = TRUE]
                                    ELSE ask[s]]

\* handleUnauthorizedState at the end of the request of slot s.
HandleUnauthorized(s) ==
    /\ IF shown[Tab(s)] = "nobody" THEN Done(s) /\ UNCHANGED shown
                                   ELSE ShowNobody(Tab(s), {s})
    /\ IF shown[Tab(s)] = "user" THEN Emit(Tab(s), "SIGNED_OUT") ELSE UNCHANGED inbox

-----------------------------------------------------------------------------
(* A request begins.                                                        *)

Begin(s) ==
    /\ ask[s].pc = "idle"
    /\ Send(s, "first")
    /\ UNCHANGED <<jar, lag, shown, acts>>

\* revalidateAuth; it does nothing while one runs.
Bootstrap(t) == shown[t] = "unknown" /\ Begin(Check(t)) /\ UNCHANGED inbox

\* Mutant: the condition on the user shown is turned round.
FocusOfGuests(t) == shown[t] = "nobody" /\ Begin(Check(t)) /\ UNCHANGED inbox

\* The window gets the focus, is visible again, or online again.
Focus(t) == shown[t] = "user" /\ Begin(Check(t)) /\ UNCHANGED inbox

Use(s) == ~IsCheck(s) /\ Begin(s) /\ UNCHANGED inbox

-----------------------------------------------------------------------------
(* baseQueryWithReauth, and for a check what revalidateAuth makes of it.    *)

\* shouldAttemptTokenRefresh
Refreshable(s) ==
    \/ shown[Tab(s)] = "user"
    \/ shown[Tab(s)] = "unknown" /\ IsCheck(s)

\* Mutant: every check that is answered tells the other tabs.
AnswerOkTelling(s) ==
    /\ Waiting(s) /\ Admitted(s)
    /\ IF ask[s].pc = "recover" THEN ask' = [ask EXCEPT ![s].pc = "again"] ELSE Done(s)
    /\ IF IsCheck(s) \/ ask[s].pc = "recover"
       THEN Emit(Tab(s), "SESSION_REFRESHED") /\ shown' = [shown EXCEPT ![Tab(s)] = "user"]
       ELSE UNCHANGED <<inbox, shown>>
    /\ UNCHANGED <<jar, lag, acts>>

AnswerOk(s) ==
    /\ Waiting(s) /\ Admitted(s)
    /\ IF ask[s].pc = "recover"
       THEN /\ ask' = [ask EXCEPT ![s].pc = "again"]
            /\ Emit(Tab(s), "SESSION_REFRESHED")
       ELSE Done(s) /\ UNCHANGED inbox
    /\ shown' = IF IsCheck(s) \/ ask[s].pc = "recover"
                THEN [shown EXCEPT ![Tab(s)] = "user"] ELSE shown
    /\ UNCHANGED <<jar, lag, acts>>

Answer401(s) ==
    /\ Waiting(s) /\ Refused(s)
    /\ CASE ask[s].pc = "first" /\ Refreshable(s) ->
              /\ ask' = [ask EXCEPT ![s].pc = "refresh", ![s].had = shown[Tab(s)] = "user"]
              /\ UNCHANGED <<shown, inbox>>
         [] ask[s].pc = "recover" -> HandleUnauthorized(s)
         [] ask[s].pc # "recover" /\ ~(ask[s].pc = "first" /\ Refreshable(s)) ->
              /\ IF IsCheck(s) THEN ShowNobody(Tab(s), {s}) ELSE Done(s) /\ UNCHANGED shown
              /\ UNCHANGED inbox
    /\ UNCHANGED <<jar, lag, acts>>

\* No answer, or neither 200 nor 401.
Lost(s) ==
    /\ Waiting(s)
    /\ IF ask[s].pc = "recover"
       THEN HandleUnauthorized(s)
       ELSE /\ Done(s)
            /\ shown' = IF IsCheck(s) /\ shown[Tab(s)] = "unknown"
                        THEN [shown EXCEPT ![Tab(s)] = "nobody"] ELSE shown
            /\ UNCHANGED inbox
    /\ UNCHANGED <<jar, lag, acts>>

\* A check whose query was reset may end without data.
EndReset(s) ==
    /\ ask[s].reset /\ ask[s].pc \in {"first", "repeat"}
    /\ ShowNobody(Tab(s), {s})
    /\ UNCHANGED <<jar, lag, inbox, acts>>

\* refreshAuthToken: sent without the x-csrf-token its route demands, so refused
\* whatever the refresh token. If a user was shown, another tab may have a new
\* session: GET /users/me.
RefreshRefused(s) ==
    /\ ask[s].pc = "refresh"
    /\ IF ask[s].had THEN Send(s, "recover") /\ UNCHANGED <<shown, inbox>>
                     ELSE HandleUnauthorized(s)
    /\ UNCHANGED <<jar, lag, acts>>

\* It has: the request once more.
Repeat(s) ==
    /\ ask[s].pc = "again"
    /\ Send(s, "repeat")
    /\ UNCHANGED <<jar, lag, shown, inbox, acts>>

-----------------------------------------------------------------------------
(* Events.                                                                  *)

\* AuthProvider's subscription. Nobody emits SIGNED_IN.
Deliver(t) ==
    /\ inbox[t] # <<>>
    /\ inbox' = [inbox EXCEPT ![t] = Tail(@)]
    /\ IF Head(inbox[t]) = "SIGNED_OUT"
       THEN ShowNobody(t, {}) /\ UNCHANGED <<jar, lag, acts>>
       ELSE \/ Begin(Check(t))
            \/ ask[Check(t)].pc # "idle" /\ UNCHANGED <<jar, lag, shown, ask, acts>>

\* The last record of before the update has expired.
LagEnds == lag /\ lag' = FALSE /\ UNCHANGED <<jar, shown, ask, inbox, acts>>

-----------------------------------------------------------------------------
(* What people do.                                                          *)

Act == acts < MaxActs /\ acts' = acts + 1

\* GuestOnlyGuard: the form is there when nobody is shown.
SignIn(t) ==
    /\ Act
    /\ shown[t] = "nobody"
    /\ jar' = "live"
    /\ shown' = [shown EXCEPT ![t] = "user"]
    /\ UNCHANGED <<lag, ask, inbox>>

\* The tab forgets the user even when the request fails and the cookies stay.
SignOut(t) ==
    /\ Act
    /\ shown[t] = "user"
    /\ jar' \in {jar, "none"}
    /\ ShowNobody(t, {})
    /\ Emit(t, "SIGNED_OUT")
    /\ UNCHANGED lag

Load(t) ==
    /\ Act
    /\ shown' = [shown EXCEPT ![t] = "unknown"]
    /\ ask' = [s \in Slots |-> IF Tab(s) = t THEN NoAsk ELSE ask[s]]
    /\ inbox' = [inbox EXCEPT ![t] = <<>>]
    /\ UNCHANGED <<jar, lag>>

\* The account's version is raised, here (a new password: the answer brings a new
\* token) or elsewhere.
Outdated(session) == IF session = "live" THEN "old" ELSE session
Update ==
    /\ Act
    /\ jar' \in {Outdated(jar)} \cup {j \in {"live"} : jar = "live"}
    /\ lag' = TRUE
    /\ ask' = [s \in Slots |-> [ask[s] EXCEPT !.carries = Outdated(@)]]
    /\ UNCHANGED <<shown, inbox>>

\* The cookies outlive the access token.
AccessRunsOut ==
    /\ Act
    /\ jar \in {"live", "old"}
    /\ jar' = "expired"
    /\ UNCHANGED <<lag, shown, ask, inbox>>

-----------------------------------------------------------------------------
Answer(s) == AnswerOk(s) \/ Answer401(s)

Run(s) == Answer(s) \/ Lost(s) \/ EndReset(s) \/ RefreshRefused(s) \/ Repeat(s)

Next ==
    \/ \E s \in Slots : Use(s) \/ Run(s)
    \/ \E t \in Tabs :
         \/ Bootstrap(t) \/ Focus(t) \/ Deliver(t)
         \/ SignIn(t) \/ SignOut(t) \/ Load(t)
    \/ LagEnds \/ Update \/ AccessRunsOut

\* Old records expire; a request goes on, and not all are lost; events arrive; a
\* page loads; the customer comes back to a tab.
Fairness ==
    /\ WF_vars(LagEnds)
    /\ \A s \in Slots : WF_vars(Run(s)) /\ SF_vars(Answer(s))
    /\ \A t \in Tabs : WF_vars(Bootstrap(t)) /\ WF_vars(Focus(t)) /\ WF_vars(Deliver(t))

Spec == Init /\ [][Next]_vars /\ Fairness

-----------------------------------------------------------------------------
TypeOK ==
    /\ jar \in Session /\ lag \in BOOLEAN
    /\ shown \in [Tabs -> {"unknown", "user", "nobody"}]
    /\ ask \in [Slots -> Ask]
    /\ inbox \in [Tabs -> Seq(Event)]
    /\ acts \in 0..MaxActs

\* Once the account and the cookies stop changing, every tab comes to show
\* nobody, or the user of a session that lives: wherever it ended (in another
\* tab, by its age, on another device), in spite of old records, lost answers and
\* events that meet a check under way.
TabsAgree ==
    <>[](\A t \in Tabs : shown[t] = "nobody" \/ (shown[t] = "user" /\ jar = "live"))

\* The tabs do not keep each other busy: an event makes a tab check, but a check
\* makes an event only when the session was found changed.
EventsDieOut == <>[](\A t \in Tabs : inbox[t] = <<>>)
=============================================================================
