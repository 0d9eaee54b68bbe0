---------------------------- MODULE CabinetSession ----------------------------
(***************************************************************************)
(* Sessions of the cabinet: the login callback, the session rows in        *)
(* cabinet.sessions, the refresh of access tokens shared by concurrent     *)
(* requests, the proxied calls to the BL with their one retry, and logout  *)
(* (apps/cabinet/src/lib/session.ts, lib/bl.ts, app/api/auth).             *)
(*                                                                         *)
(* The cabinet is one Node process: between two awaits nothing else runs,  *)
(* and a row that was selected is looked at only when the request resumes. *)
(* Tokens are numbered in the order the identity provider grants them to a *)
(* session; a session is the pair of its tokens.  A callback creates at    *)
(* most one session, so it also stands for the session's id; a session row *)
(* whose id no browser was told is left out.                               *)
(***************************************************************************)
EXTENDS Naturals, FiniteSets

CONSTANTS
    States,        \* login attempts: the `state` parameter
    Callbacks,     \* GET requests of the callback, and the sessions they make
    Requests,      \* requests that need a session
    StateOf,       \* the state a callback carries
    SidOf,         \* the session a request's cookie names
    MaxFaults,     \* bound: how many calls raise
    MaxRestarts,   \* bound: how often the process is killed
    None           \* no refresh in flight

ASSUME StateOfAssumption == StateOf \in [Callbacks -> States]
ASSUME SidOfAssumption   == SidOf \in [Requests -> Callbacks]
ASSUME NoneAssumption    == None \notin Requests
ASSUME BoundsAssumption  == MaxFaults \in Nat /\ MaxRestarts \in Nat

VARIABLES
    saved,      \* login states that are rows of cabinet.sessions
    codes,      \* authorization codes, by state, that are not used yet
    callback,   \* where a callback stands
    row,        \* cabinet.sessions: the tokens of a session
    inflight,   \* __refreshing: the request that refreshes a session
    at,         \* where a request stands
    held,       \* the session a request has in hand
    again,      \* the request is on its second try
    on,         \* the refresh a request waits for
    current,    \* provider: the refresh token in force, 0 when revoked
    issued,     \* provider: the tokens granted
    stale,      \* access tokens up to this one look expired to the cabinet
    dead,       \* access tokens up to this one are refused by the BL
    out,        \* sessions whose logout was answered
    inHand,     \* history: sessions a request had in hand at their logout
    unsaved,    \* history: sessions whose newest tokens may not be stored
    excused,    \* history: sessions with a reason to end
    faults, restarts

logins   == <<saved, codes, callback>>
requests == <<at, held, again, on>>
provider == <<current, issued>>
clocks   == <<stale, dead>>
history  == <<inHand, unsaved, excused>>
vars     == <<logins, row, inflight, requests, provider, clocks, out, history,
              faults, restarts>>

NoSession  == [access |-> 0, refresh |-> 0]
Refreshing == {"ask", "put", "drop"}
Underway   == {"get", "got", "wait", "call"} \cup Refreshing
Answered   == {"ok", "401", "500", "503", "lost"}

TypeOK ==
    /\ saved \subseteq States /\ codes \subseteq States
    /\ callback \in [Callbacks -> {"new", "take", "exchange", "create", "in", "error"}]
    /\ row \in [Callbacks -> [access : Nat, refresh : Nat]]
    /\ inflight \in [Callbacks -> Requests \cup {None}]
    /\ at \in [Requests -> {"new"} \cup Underway \cup Answered]
    /\ held \in [Requests -> [access : Nat, refresh : Nat]]
    /\ \A q \in Requests : at[q] = "call" => held[q] # NoSession
    /\ again \in [Requests -> BOOLEAN]
    /\ on \in [Requests -> Requests \cup {None}]
    /\ current \in [Callbacks -> Nat] /\ issued \in [Callbacks -> Nat]
    /\ stale \in [Callbacks -> Nat] /\ dead \in [Callbacks -> Nat]
    /\ out \subseteq Callbacks /\ inHand \subseteq Callbacks
    /\ unsaved \subseteq Callbacks /\ excused \subseteq Callbacks
    /\ faults \in 0..MaxFaults /\ restarts \in 0..MaxRestarts

\* Every login page has been opened; nobody has come back yet.
Init ==
    /\ saved = States /\ codes = States
    /\ callback = [c \in Callbacks |-> "new"]
    /\ row = [c \in Callbacks |-> NoSession]
    /\ inflight = [c \in Callbacks |-> None]
    /\ at = [q \in Requests |-> "new"]
    /\ held = [q \in Requests |-> NoSession]
    /\ again = [q \in Requests |-> FALSE]
    /\ on = [q \in Requests |-> None]
    /\ current = [c \in Callbacks |-> 0] /\ issued = [c \in Callbacks |-> 0]
    /\ stale = [c \in Callbacks |-> 0] /\ dead = [c \in Callbacks |-> 0]
    /\ out = {} /\ inHand = {} /\ unsaved = {} /\ excused = {}
    /\ faults = 0 /\ restarts = 0

-----------------------------------------------------------------------------
(* GET /app/api/auth/callback *)

Turn(c, l) == callback' = [callback EXCEPT ![c] = l]

\* takeLogin, first half: two callbacks may both find the state.
FindLogin(c) ==
    /\ callback[c] = "new"
    /\ Turn(c, IF StateOf[c] \in saved THEN "take" ELSE "error")
    /\ UNCHANGED <<saved, codes, row, inflight, requests, provider, clocks, out, history,
                   faults, restarts>>

\* takeLogin, second half.
DeleteLogin(c) ==
    /\ callback[c] = "take"
    /\ saved' = saved \ {StateOf[c]}
    /\ Turn(c, "exchange")
    /\ UNCHANGED <<codes, row, inflight, requests, provider, clocks, out, history,
                   faults, restarts>>

\* Without offline_access there is no refresh token.
GrantFirst(c) ==
    /\ codes' = codes \ {StateOf[c]}
    /\ issued' = [issued EXCEPT ![c] = 1]
    /\ \E t \in {0, 1} : current' = [current EXCEPT ![c] = t]

\* exchangeCode: the provider accepts a code once.
Exchange(c) ==
    /\ callback[c] = "exchange"
    /\ \/ StateOf[c] \in codes /\ GrantFirst(c) /\ Turn(c, "create")
       \/ StateOf[c] \notin codes /\ UNCHANGED <<codes, provider>> /\ Turn(c, "error")
    /\ UNCHANGED <<saved, row, inflight, requests, clocks, out, history, faults, restarts>>

CreateSession(c) ==
    /\ callback[c] = "create"
    /\ row' = [row EXCEPT ![c] = [access |-> 1, refresh |-> current[c]]]
    /\ Turn(c, "in")
    /\ UNCHANGED <<saved, codes, inflight, requests, provider, clocks, out, history,
                   faults, restarts>>

\* A call raises; the code may be used up.
CallbackFails(c) ==
    /\ callback[c] \in {"take", "exchange", "create"}
    /\ faults < MaxFaults
    /\ faults' = faults + 1
    /\ Turn(c, "error")
    /\ codes' = IF callback[c] = "exchange" THEN codes \ {StateOf[c]} ELSE codes
    /\ UNCHANGED <<saved, row, inflight, requests, provider, clocks, out, history, restarts>>

-----------------------------------------------------------------------------
(* A request: getSession, blFetch. *)

\* Where requests go on once a refresh has settled.
ToBL     == [p \in Requests |-> "call"]
NoLonger == [p \in Requests |-> "401"]
Errors   == [p \in Requests |-> IF again[p] THEN "503" ELSE "500"]

\* The browser sends the cookie until the logout is answered.
Arrive(q) ==
    /\ at[q] = "new"
    /\ callback[SidOf[q]] = "in" /\ SidOf[q] \notin out
    /\ at' = [at EXCEPT ![q] = "get"]
    /\ UNCHANGED <<logins, row, inflight, held, again, on, provider, clocks, out, history,
                   faults, restarts>>

\* The row is selected ...
SelectRow(q) ==
    /\ at[q] = "get"
    /\ held' = [held EXCEPT ![q] = row[SidOf[q]]]
    /\ at' = [at EXCEPT ![q] = "got"]
    /\ UNCHANGED <<logins, row, inflight, again, on, provider, clocks, out, history,
                   faults, restarts>>

\* ... and getSession resumes.  A fresh access token is used as it is.
NeedsRefresh(q) == again[q] \/ held[q].access <= stale[SidOf[q]]

SignedOut(q) ==
    /\ at[q] = "got" /\ held[q] = NoSession
    /\ at' = [at EXCEPT ![q] = "401"]
    /\ UNCHANGED <<logins, row, inflight, held, again, on, provider, clocks, out, history,
                   faults, restarts>>

UseToken(q) ==
    /\ at[q] = "got" /\ held[q] # NoSession /\ ~NeedsRefresh(q)
    /\ at' = [at EXCEPT ![q] = "call"]
    /\ UNCHANGED <<logins, row, inflight, held, again, on, provider, clocks, out, history,
                   faults, restarts>>

\* refreshSession: a refresh in flight is joined.
JoinRefresh(q) ==
    /\ at[q] = "got" /\ held[q] # NoSession /\ NeedsRefresh(q)
    /\ inflight[SidOf[q]] # None
    /\ at' = [at EXCEPT ![q] = "wait"]
    /\ on' = [on EXCEPT ![q] = inflight[SidOf[q]]]
    /\ held' = [held EXCEPT ![q] = NoSession]
    /\ UNCHANGED <<logins, row, inflight, again, provider, clocks, out, history,
                   faults, restarts>>

\* A refresh begins with the session in hand, which may by now not be the one
\* that is stored; without a refresh token the session is dropped.
Begin(q) ==
    LET c == SidOf[q] IN
    /\ inflight' = [inflight EXCEPT ![c] = q]
    /\ at' = [at EXCEPT ![q] = IF held[q].refresh = 0 THEN "drop" ELSE "ask"]
    /\ excused' = IF held[q].refresh = 0 \/ held[q] # row[c] THEN excused \cup {c} ELSE excused
    /\ UNCHANGED <<logins, row, held, again, on, provider, clocks, out, inHand, unsaved,
                   faults, restarts>>

\* Mutant of StartRefresh: the map of refreshes in flight is not consulted.
StartRefreshAlways(q) ==
    /\ at[q] = "got" /\ held[q] # NoSession /\ NeedsRefresh(q)
    /\ Begin(q)

StartRefresh(q) ==
    /\ at[q] = "got" /\ held[q] # NoSession /\ NeedsRefresh(q)
    /\ inflight[SidOf[q]] = None
    /\ Begin(q)

\* Mutant of CallBL: the retry does not force a refresh.
CallBLRetryAsIs(q) ==
    /\ at[q] = "call"
    /\ at' = [at EXCEPT ![q] = IF held[q].access > dead[SidOf[q]] THEN "ok"
                               ELSE IF again[q] THEN "401" ELSE "call"]
    /\ again' = [again EXCEPT ![q] = TRUE]
    /\ UNCHANGED <<logins, row, inflight, held, on, provider, clocks, out, history,
                   faults, restarts>>

\* The BL refuses a token: once more with a session refreshed by force.
CallBL(q) ==
    LET accepted == held[q].access > dead[SidOf[q]] IN
    /\ at[q] = "call"
    /\ at' = [at EXCEPT ![q] = IF accepted THEN "ok" ELSE IF again[q] THEN "401" ELSE "get"]
    /\ again' = [again EXCEPT ![q] = TRUE]
    /\ held' = [held EXCEPT ![q] = NoSession]
    /\ UNCHANGED <<logins, row, inflight, on, provider, clocks, out, history,
                   faults, restarts>>

\* The session cannot be read, or the BL not reached; a second try is inside
\* the try block of blFetch.
RequestFails(q) ==
    /\ at[q] \in {"get", "call"}
    /\ faults < MaxFaults
    /\ faults' = faults + 1
    /\ at' = [at EXCEPT ![q] = IF at[q] = "call" THEN "503" ELSE Errors[q]]
    /\ held' = [held EXCEPT ![q] = NoSession]
    /\ excused' = excused \cup {SidOf[q]}
    /\ UNCHANGED <<logins, row, inflight, again, on, provider, clocks, out, inHand, unsaved,
                   restarts>>

-----------------------------------------------------------------------------
(* The refresh a request has started: refreshSession. *)

\* The promise settles: the map entry goes, and everyone who waits for it goes
\* on with session s at the place next names.
Settle(q, s, next) ==
    LET woken == {q} \cup {p \in Requests : at[p] = "wait" /\ on[p] = q} IN
    /\ inflight' = [inflight EXCEPT ![SidOf[q]] = None]
    /\ at' = [p \in Requests |-> IF p \in woken THEN next[p] ELSE at[p]]
    /\ held' = [p \in Requests |-> IF p \in woken THEN s ELSE held[p]]
    /\ on' = [p \in Requests |-> IF p \in woken THEN None ELSE on[p]]

Grant(q, refreshed) ==
    LET c == SidOf[q]
        n == issued[c] + 1
    IN
    /\ issued' = [issued EXCEPT ![c] = n]
    /\ current' = [current EXCEPT ![c] = refreshed]

\* Mutant of Ask: the rotated refresh token is not taken over.
AskKeepsRefreshToken(q) ==
    /\ at[q] = "ask"
    /\ \/ /\ held[q].refresh = current[SidOf[q]]
          /\ \E rotated \in BOOLEAN :
                LET n == issued[SidOf[q]] + 1 IN
                /\ Grant(q, IF rotated THEN n ELSE held[q].refresh)
                /\ held' = [held EXCEPT ![q].access = n]
          /\ at' = [at EXCEPT ![q] = "put"]
       \/ /\ held[q].refresh # current[SidOf[q]]
          /\ at' = [at EXCEPT ![q] = "drop"]
          /\ UNCHANGED <<held, provider>>
    /\ UNCHANGED <<logins, row, inflight, again, on, clocks, out, history, faults, restarts>>

\* The provider grants a new access token, with a new refresh token or without
\* one (the old stays in force), or refuses.
Ask(q) ==
    /\ at[q] = "ask"
    /\ \/ /\ held[q].refresh = current[SidOf[q]]
          /\ \E rotated \in BOOLEAN :
                LET n == issued[SidOf[q]] + 1
                    t == IF rotated THEN n ELSE held[q].refresh
                IN
                /\ Grant(q, t)
                /\ held' = [held EXCEPT ![q] = [access |-> n, refresh |-> t]]
          /\ at' = [at EXCEPT ![q] = "put"]
       \/ /\ held[q].refresh # current[SidOf[q]]
          /\ at' = [at EXCEPT ![q] = "drop"]
          /\ UNCHANGED <<held, provider>>
    /\ UNCHANGED <<logins, row, inflight, again, on, clocks, out, history, faults, restarts>>

\* The provider cannot be reached, or its answer is lost after a rotation.
AskFails(q) ==
    /\ at[q] = "ask"
    /\ faults < MaxFaults
    /\ faults' = faults + 1
    /\ \/ UNCHANGED provider
       \/ held[q].refresh = current[SidOf[q]] /\ Grant(q, issued[SidOf[q]] + 1)
    /\ at' = [at EXCEPT ![q] = "drop"]
    /\ excused' = excused \cup {SidOf[q]}
    /\ UNCHANGED <<logins, row, inflight, held, again, on, clocks, out, inHand, unsaved, restarts>>

\* The session is written back, whether or not its row is still there.
Put(q) ==
    /\ at[q] = "put"
    /\ row' = [row EXCEPT ![SidOf[q]] = held[q]]
    /\ Settle(q, held[q], ToBL)
    /\ UNCHANGED <<logins, again, provider, clocks, out, history, faults, restarts>>

PutFails(q) ==
    /\ at[q] = "put"
    /\ faults < MaxFaults
    /\ faults' = faults + 1
    /\ row' \in {row, [row EXCEPT ![SidOf[q]] = held[q]]}
    /\ at' = [at EXCEPT ![q] = "drop"]
    /\ excused' = excused \cup {SidOf[q]}
    /\ UNCHANGED <<logins, inflight, held, again, on, provider, clocks, out, inHand, unsaved, restarts>>

\* destroySession, after a refusal or any error.
Drop(q) ==
    /\ at[q] = "drop"
    /\ row' = [row EXCEPT ![SidOf[q]] = NoSession]
    /\ Settle(q, NoSession, NoLonger)
    /\ UNCHANGED <<logins, again, provider, clocks, out, history, faults, restarts>>

\* Mutant of DropFails: only the request that refreshes learns of the error.
DropFailsAlone(q) ==
    /\ at[q] = "drop"
    /\ faults < MaxFaults
    /\ faults' = faults + 1
    /\ row' \in {row, [row EXCEPT ![SidOf[q]] = NoSession]}
    /\ inflight' = [inflight EXCEPT ![SidOf[q]] = None]
    /\ at' = [at EXCEPT ![q] = Errors[q]]
    /\ held' = [held EXCEPT ![q] = NoSession]
    /\ unsaved' = unsaved \cup {SidOf[q]}
    /\ excused' = excused \cup {SidOf[q]}
    /\ UNCHANGED <<logins, again, on, provider, clocks, out, inHand, restarts>>

\* Even that raises: the promise is rejected, in everyone who waits for it.
DropFails(q) ==
    /\ at[q] = "drop"
    /\ faults < MaxFaults
    /\ faults' = faults + 1
    /\ row' \in {row, [row EXCEPT ![SidOf[q]] = NoSession]}
    /\ Settle(q, NoSession, Errors)
    /\ unsaved' = unsaved \cup {SidOf[q]}
    /\ excused' = excused \cup {SidOf[q]}
    /\ UNCHANGED <<logins, again, provider, clocks, out, inHand, restarts>>

-----------------------------------------------------------------------------
(* Logout, the provider's clocks, the process. *)

\* Mutant of Logout: only the cookie goes.
LogoutCookieOnly(c) ==
    /\ callback[c] = "in" /\ c \notin out
    /\ out' = out \cup {c}
    /\ excused' = excused \cup {c}
    /\ UNCHANGED <<logins, row, inflight, requests, provider, clocks, inHand, unsaved,
                   faults, restarts>>

\* destroySession, then the answer that deletes the cookie.
Logout(c) ==
    /\ callback[c] = "in" /\ c \notin out
    /\ row' = [row EXCEPT ![c] = NoSession]
    /\ out' = out \cup {c}
    /\ inHand' = IF \E q \in Requests :
                        SidOf[q] = c /\ at[q] \in {"got"} \cup Refreshing /\ held[q] # NoSession
                 THEN inHand \cup {c} ELSE inHand
    /\ excused' = excused \cup {c}
    /\ UNCHANGED <<logins, inflight, requests, provider, clocks, unsaved, faults, restarts>>

\* The store raises, before or after the row is deleted: the cookie stays.
LogoutFails(c) ==
    /\ callback[c] = "in" /\ c \notin out
    /\ faults < MaxFaults
    /\ faults' = faults + 1
    /\ row' \in {row, [row EXCEPT ![c] = NoSession]}
    /\ excused' = excused \cup {c}
    /\ UNCHANGED <<logins, inflight, requests, provider, clocks, out, inHand, unsaved, restarts>>

\* expiresAt minus the skew is past.
Age(c) ==
    /\ stale[c] < issued[c]
    /\ stale' = [stale EXCEPT ![c] = issued[c]]
    /\ UNCHANGED <<logins, row, inflight, requests, provider, dead, out, history, faults, restarts>>

\* The BL refuses the tokens up to n: an excuse for a request that was given
\* one of them by a refresh and has not used it yet, and has no try left.
Expire(c) ==
    \E n \in dead[c] + 1..issued[c] :
        /\ dead' = [dead EXCEPT ![c] = n]
        /\ excused' = IF \E q \in Requests :
                            /\ SidOf[q] = c /\ held[q].access \in 1..n
                            /\ at[q] = "put" \/ (at[q] = "call" /\ again[q])
                      THEN excused \cup {c} ELSE excused
        /\ UNCHANGED <<logins, row, inflight, requests, provider, stale, out, inHand,
                       unsaved, faults, restarts>>

\* An administrator, or the end of the single sign-on session; before there is
\* a session it is not told from a moment later.
Revoke(c) ==
    /\ callback[c] = "in" /\ current[c] # 0
    /\ current' = [current EXCEPT ![c] = 0]
    /\ excused' = excused \cup {c}
    /\ UNCHANGED <<logins, row, inflight, requests, issued, clocks, out, inHand, unsaved,
                   faults, restarts>>

\* The process is killed with its requests and its map; rows stay.
Restart ==
    /\ restarts < MaxRestarts
    /\ restarts' = restarts + 1
    /\ at' = [q \in Requests |-> IF at[q] \in Underway THEN "lost" ELSE at[q]]
    /\ held' = [q \in Requests |-> NoSession]
    /\ on' = [q \in Requests |-> None]
    /\ inflight' = [c \in Callbacks |-> None]
    /\ unsaved' = unsaved \cup {c \in Callbacks : inflight[c] # None}
    /\ excused' = excused \cup {c \in Callbacks : inflight[c] # None}
    /\ callback' = [c \in Callbacks |-> IF callback[c] \in {"take", "exchange", "create"}
                                        THEN "error" ELSE callback[c]]
    /\ UNCHANGED <<saved, codes, row, again, provider, clocks, out, inHand, faults>>

-----------------------------------------------------------------------------

Login(c)   == FindLogin(c) \/ DeleteLogin(c) \/ Exchange(c) \/ CreateSession(c)
Resume(q)  == SignedOut(q) \/ UseToken(q) \/ JoinRefresh(q) \/ StartRefresh(q)
Proceed(q) == SelectRow(q) \/ Resume(q) \/ CallBL(q) \/ Ask(q) \/ Put(q) \/ Drop(q)

Next ==
    \/ \E c \in Callbacks : Login(c) \/ CallbackFails(c)
    \/ \E q \in Requests : Arrive(q)
    \/ \E q \in Requests : Proceed(q)
    \/ \E q \in Requests : RequestFails(q) \/ AskFails(q) \/ PutFails(q) \/ DropFails(q)
    \/ \E c \in Callbacks : Logout(c) \/ LogoutFails(c)
    \/ \E c \in Callbacks : Age(c) \/ Expire(c) \/ Revoke(c)
    \/ Restart

Spec == Init /\ [][Next]_vars

-----------------------------------------------------------------------------
(* Properties. *)

\* "One in-flight refresh per session": the provider never sees two refreshes
\* of a session at once, whatever requests find its token expired
\* (refreshSession, the map __refreshing).
OneRefreshAtATime ==
    \A p, q \in Requests :
        at[p] \in Refreshing /\ at[q] \in Refreshing /\ SidOf[p] = SidOf[q] => p = q

\* A stored session can be refreshed: between two refreshes its row holds the
\* refresh token that is in force, although the provider rotates it before the
\* row is written and either step may fail; a kill, or an error on top of an
\* error, may lose the token.
StoredTokenCurrent ==
    \A c \in Callbacks :
        row[c] # NoSession /\ inflight[c] = None /\ c \notin unsaved
            => row[c].refresh = current[c] \/ current[c] = 0

\* Nobody is signed out by accident: a request is answered with an error only
\* where the session was ended, revoked, hit by an error or a kill, or had no
\* refresh token, where a refresh began with a row that was no longer stored,
\* or where the BL came to refuse a token between the refresh that brought it
\* and its use (getSession, blFetch).
SignedInIsServed ==
    \A q \in Requests : at[q] \in {"401", "500", "503"} => SidOf[q] \in excused

\* A logout deletes the row for good, if no request had the session in hand then
\* (destroySession, logout); those that had it may store it again, which is
\* LogoutDeletesSession.
LogoutIsFinal ==
    \A c \in out \ inHand : row[c] = NoSession

\* Nobody waits for a refresh that is over: while a request waits, the one it
\* waits for is at work (refreshSession, the promise in __refreshing and its
\* .finally).
NoWaiterForgotten ==
    \A p \in Requests : at[p] = "wait" =>
        /\ inflight[SidOf[p]] = on[p]
        /\ at[on[p]] \in Refreshing /\ SidOf[on[p]] = SidOf[p]

\* apps/cabinet/README.md:10, POST /app/api/auth/logout: the session is
\* deleted.
LogoutDeletesSession ==
    \A c \in out :
        (\A q \in Requests : SidOf[q] = c => at[q] \notin Underway) => row[c] = NoSession

=============================================================================
