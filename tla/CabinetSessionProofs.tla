------------------------- MODULE CabinetSessionProofs -------------------------
(***************************************************************************)
(* Theorems about CabinetSession for any logins, sessions, requests and    *)
(* bounds: refreshes take turns and forget nobody, the stored token is the *)
(* one in force, logout is final, and nobody is signed out by accident.    *)
(***************************************************************************)
EXTENDS CabinetSession, TLAPS

USE StateOfAssumption, SidOfAssumption, NoneAssumption, BoundsAssumption
USE DEF logins, requests, provider, clocks, history

-----------------------------------------------------------------------------
(* The inductive invariants. *)

\* A refresh has a session in hand, and asks with a refresh token.
Typed ==
    /\ TypeOK
    /\ \A q \in Requests :
           /\ at[q] \in Refreshing => held[q] # NoSession
           /\ at[q] = "ask" => held[q].refresh # 0

Tokens == [access : Nat, refresh : Nat]

\* Only a session that was created has requests, a logout or tokens stored.
Entered ==
    /\ \A q \in Requests : at[q] # "new" => callback[SidOf[q]] = "in"
    /\ \A c \in Callbacks : callback[c] # "in" => row[c] = NoSession /\ c \notin out
    /\ \A c \in Callbacks : callback[c] \in {"new", "take", "exchange"} => issued[c] = 0
    /\ \A c \in Callbacks : dead[c] <= issued[c]

\* The map of refreshes in flight holds exactly the refreshes at work.
Turns ==
    /\ \A c \in Callbacks : inflight[c] # None =>
           SidOf[inflight[c]] = c /\ at[inflight[c]] \in Refreshing
    /\ \A q \in Requests : at[q] \in Refreshing => inflight[SidOf[q]] = q
    /\ \A p \in Requests : at[p] = "wait" => on[p] # None /\ inflight[SidOf[p]] = on[p]

\* Nobody has a session in hand that could bring one back after its logout.
Closed ==
    \A c \in out \ inHand :
        /\ row[c] = NoSession
        /\ \A q \in Requests :
               SidOf[q] = c /\ at[q] \in {"got"} \cup Refreshing => held[q] = NoSession

\* What is about to be stored is in force as well.
InForce ==
    /\ StoredTokenCurrent
    /\ \A q \in Requests : at[q] = "put" =>
           held[q].refresh = current[SidOf[q]] \/ current[SidOf[q]] = 0

\* A session that is about to end has an excuse.
Excusable ==
    /\ unsaved \subseteq excused
    /\ \A c \in Callbacks \ excused : callback[c] = "in" =>
           row[c] # NoSession /\ (current[c] = 0 => row[c].refresh = 0)
    /\ \A q \in Requests : SidOf[q] \notin excused =>
           /\ at[q] \notin {"401", "500", "503", "drop"}
           /\ at[q] = "got" => held[q] # NoSession
           /\ at[q] = "ask" => held[q].refresh = current[SidOf[q]]
           /\ at[q] = "put" => current[SidOf[q]] # 0
           /\ at[q] = "put" \/ (at[q] = "call" /\ again[q]) => held[q].access > dead[SidOf[q]]

-----------------------------------------------------------------------------
(* The steps with a choice, by cases. *)

LEMMA AskCases ==
    ASSUME Typed, NEW q \in Requests, Ask(q)
    PROVE  /\ at[q] = "ask"
           /\ UNCHANGED <<saved, codes, callback, row, inflight, again, on, stale, dead, out,
                          inHand, unsaved, excused, faults, restarts>>
           /\ \/ \E t \in Nat \ {0} :
                     /\ held[q].refresh = current[SidOf[q]]
                     /\ issued' = [issued EXCEPT ![SidOf[q]] = issued[SidOf[q]] + 1]
                     /\ current' = [current EXCEPT ![SidOf[q]] = t]
                     /\ held' = [held EXCEPT ![q] =
                                     [access |-> issued[SidOf[q]] + 1, refresh |-> t]]
                     /\ at' = [at EXCEPT ![q] = "put"]
              \/ /\ held[q].refresh # current[SidOf[q]]
                 /\ at' = [at EXCEPT ![q] = "drop"] /\ UNCHANGED <<held, current, issued>>
<1>1. issued[SidOf[q]] \in Nat /\ held[q].refresh \in Nat
  BY DEF Typed, TypeOK
<1>2. /\ at[q] = "ask" /\ held[q].refresh # 0
      /\ UNCHANGED <<saved, codes, callback, row, inflight, again, on, stale, dead, out,
                          inHand, unsaved, excused, faults, restarts>>
  BY DEF Ask, Typed
<1>3. CASE held[q].refresh # current[SidOf[q]]
  BY <1>2, <1>3 DEF Ask
<1>4. CASE held[q].refresh = current[SidOf[q]]
  <2>1. PICK rotated \in BOOLEAN :
          LET n == issued[SidOf[q]] + 1
              t == IF rotated THEN n ELSE held[q].refresh
          IN  Grant(q, t) /\ held' = [held EXCEPT ![q] = [access |-> n, refresh |-> t]]
    BY <1>4 DEF Ask
  <2>2. PICK t \in Nat \ {0} : t = IF rotated THEN issued[SidOf[q]] + 1 ELSE held[q].refresh
    BY <1>1, <1>2
  <2>3. at' = [at EXCEPT ![q] = "put"]
    BY <1>4 DEF Ask
  <2> QED BY <1>2, <1>4, <2>1, <2>2, <2>3 DEF Grant
<1> QED BY <1>2, <1>3, <1>4

LEMMA AskFailsCases ==
    ASSUME Typed, NEW q \in Requests, AskFails(q)
    PROVE  /\ at[q] = "ask" /\ faults < MaxFaults /\ faults' = faults + 1
           /\ UNCHANGED <<saved, codes, callback, row, inflight, held, again, on, stale, dead, out,
                          inHand, unsaved, restarts>>
           /\ at' = [at EXCEPT ![q] = "drop"] /\ excused' = excused \cup {SidOf[q]}
           /\ \/ UNCHANGED <<current, issued>>
              \/ \E n \in Nat \ {0} :
                     /\ n = issued[SidOf[q]] + 1
                     /\ issued' = [issued EXCEPT ![SidOf[q]] = n]
                     /\ current' = [current EXCEPT ![SidOf[q]] = n]
<1>1. issued[SidOf[q]] + 1 \in Nat \ {0}
  BY DEF Typed, TypeOK
<1> QED BY <1>1 DEF AskFails, Grant

LEMMA ExchangeCases ==
    ASSUME Typed, NEW c \in Callbacks, Exchange(c)
    PROVE  /\ callback[c] = "exchange"
           /\ UNCHANGED <<saved, row, inflight, at, held, again, on, stale, dead, out, inHand,
                          unsaved, excused, faults, restarts>>
           /\ \/ \E t \in {0, 1} :
                     /\ codes' \subseteq codes /\ issued' = [issued EXCEPT ![c] = 1]
                     /\ current' = [current EXCEPT ![c] = t]
                     /\ callback' = [callback EXCEPT ![c] = "create"]
              \/ /\ UNCHANGED <<codes, current, issued>>
                 /\ callback' = [callback EXCEPT ![c] = "error"]
  BY DEF Exchange, GrantFirst, Turn

LEMMA DropRow ==
    ASSUME Typed, NEW c \in Callbacks, NEW s \in Tokens, row' \in {row, [row EXCEPT ![c] = s]}
    PROVE  /\ row' \in [Callbacks -> Tokens]
           /\ \A d \in Callbacks \ {c} : row'[d] = row[d]
           /\ row'[c] \in {row[c], s}
  BY SMTT(30) DEF Typed, TypeOK, Tokens

-----------------------------------------------------------------------------
(* Types. *)

LEMMA ExchangeTyped == ASSUME Typed, NEW c \in Callbacks, Exchange(c) PROVE Typed'
<1>1. codes' \subseteq States
  BY ExchangeCases DEF Typed, TypeOK
<1>2. \E l \in {"create", "error"} : callback' = [callback EXCEPT ![c] = l]
  BY ExchangeCases
<1>3. callback' \in [Callbacks -> {"new", "take", "exchange", "create", "in", "error"}]
  BY <1>2 DEF Typed, TypeOK
<1>4. issued' = issued \/ issued' = [issued EXCEPT ![c] = 1]
  BY ExchangeCases
<1>5. current' = current \/ \E t \in {0, 1} : current' = [current EXCEPT ![c] = t]
  BY ExchangeCases
<1>6. issued' \in [Callbacks -> Nat] /\ current' \in [Callbacks -> Nat]
  BY SMTT(30), <1>4, <1>5 DEF Typed, TypeOK
<1> QED BY <1>1, <1>3, <1>6, ExchangeCases DEF Typed, TypeOK

LEMMA AskTyped == ASSUME Typed, NEW q \in Requests, Ask(q) PROVE Typed'
<1>1. CASE at' = [at EXCEPT ![q] = "put"]
  <2>1. PICK t \in Nat \ {0}, n \in Nat \ {0} :
            /\ issued' = [issued EXCEPT ![SidOf[q]] = n]
            /\ current' = [current EXCEPT ![SidOf[q]] = t]
            /\ held' = [held EXCEPT ![q] = [access |-> n, refresh |-> t]]
    <3>1. at'[q] # "drop"
      BY <1>1 DEF Typed, TypeOK
    <3>2. at' # [at EXCEPT ![q] = "drop"]
      BY <3>1 DEF Typed, TypeOK
    <3>3. PICK n \in Nat \ {0} : n = issued[SidOf[q]] + 1
      BY DEF Typed, TypeOK
    <3> QED BY <3>2, <3>3, AskCases
  <2>2. held' \in [Requests -> Tokens] /\ \A p \in Requests \ {q} : held'[p] = held[p]
    BY <2>1 DEF Typed, TypeOK, Tokens
  <2>3. held'[q] # NoSession /\ current' \in [Callbacks -> Nat] /\ issued' \in [Callbacks -> Nat]
    BY <2>1 DEF Typed, TypeOK, NoSession
  <2>4. at' \in [Requests -> {"new"} \cup Underway \cup Answered] /\ at'[q] = "put"
    BY <1>1 DEF Typed, TypeOK, Refreshing, Underway
  <2>5. \A p \in Requests \ {q} : at'[p] = at[p]
    BY <1>1
  <2>6. \A p \in Requests : /\ at'[p] = "call" => held'[p] # NoSession
                            /\ at'[p] \in Refreshing => held'[p] # NoSession
                            /\ at'[p] = "ask" => held'[p].refresh # 0
    BY <2>2, <2>3, <2>4, <2>5 DEF Typed, TypeOK
  <2> QED BY <2>2, <2>3, <2>4, <2>6, AskCases DEF Typed, TypeOK, Tokens
<1>2. CASE at' = [at EXCEPT ![q] = "drop"] /\ UNCHANGED <<held, current, issued>>
  BY <1>2, AskCases DEF Typed, TypeOK, Refreshing, Underway
<1> QED BY <1>1, <1>2, AskCases

LEMMA AskFailsTyped == ASSUME Typed, NEW q \in Requests, AskFails(q) PROVE Typed'
<1>1. current' \in [Callbacks -> Nat] /\ issued' \in [Callbacks -> Nat]
  BY AskFailsCases DEF Typed, TypeOK
<1>2. faults' \in 0..MaxFaults /\ excused' \subseteq Callbacks
  BY AskFailsCases DEF Typed, TypeOK
<1>3. at' \in [Requests -> {"new"} \cup Underway \cup Answered]
  <2>1. at' = [at EXCEPT ![q] = "drop"]
    BY AskFailsCases
  <2> QED BY <2>1 DEF Typed, TypeOK, Refreshing, Underway
<1>4. held' = held /\ \A p \in Requests : p # q => at'[p] = at[p]
  BY AskFailsCases DEF Typed, TypeOK
<1>5. at[q] = "ask" /\ at'[q] = "drop"
  BY AskFailsCases DEF Typed, TypeOK
<1>6. TypeOK'
  BY <1>1, <1>2, <1>3, <1>4, <1>5, AskFailsCases DEF Typed, TypeOK
<1> QED BY <1>4, <1>5, <1>6 DEF Typed, Refreshing

LEMMA LogoutFailsTyped == ASSUME Typed, NEW c \in Callbacks, LogoutFails(c) PROVE Typed'
<1>1. NoSession \in Tokens
  BY DEF NoSession, Tokens
<1>2. row' \in [Callbacks -> Tokens]
  BY <1>1, DropRow DEF LogoutFails
<1> QED BY <1>2 DEF LogoutFails, Typed, TypeOK, Tokens

LEMMA PutFailsTyped == ASSUME Typed, NEW q \in Requests, PutFails(q) PROVE Typed'
<1>1. held[q] \in Tokens
  BY DEF Typed, TypeOK, Tokens
<1>2. row' \in [Callbacks -> Tokens]
  BY <1>1, DropRow DEF PutFails
<1> QED BY <1>2 DEF PutFails, Typed, TypeOK, Tokens, Refreshing, Underway

LEMMA DropFailsTyped == ASSUME Typed, NEW q \in Requests, DropFails(q) PROVE Typed'
<1>1. NoSession \in Tokens
  BY DEF NoSession, Tokens
<1>2. row' \in [Callbacks -> Tokens]
  BY <1>1, DropRow DEF DropFails
<1>3. /\ inflight' \in [Callbacks -> Requests \cup {None}]
      /\ on' \in [Requests -> Requests \cup {None}]
      /\ held' \in [Requests -> Tokens]
  BY <1>1 DEF DropFails, Settle, Typed, TypeOK, Tokens
<1>4. at' \in [Requests -> {"new"} \cup Underway \cup Answered]
  BY DEF DropFails, Settle, Errors, Typed, TypeOK, Answered
<1>5. \A p \in Requests : at'[p] \in Refreshing \cup {"call"} =>
          at'[p] = at[p] /\ held'[p] = held[p]
  BY DEF DropFails, Settle, Errors, Typed, TypeOK, Refreshing
<1> QED BY <1>2, <1>3, <1>4, <1>5 DEF DropFails, Typed, TypeOK, Tokens, Refreshing

LEMMA TypedStep == ASSUME Typed, [Next]_vars PROVE Typed'
<1>1. ASSUME NEW c \in Callbacks, FindLogin(c) PROVE Typed'
  BY <1>1 DEF FindLogin, Turn, Typed, TypeOK, Refreshing, Underway, Answered, NoSession
<1>2. ASSUME NEW c \in Callbacks, DeleteLogin(c) PROVE Typed'
  BY <1>2 DEF DeleteLogin, Turn, Typed, TypeOK, Refreshing, Underway, Answered, NoSession
<1>3. ASSUME NEW c \in Callbacks, CreateSession(c) PROVE Typed'
  BY <1>3 DEF CreateSession, Turn, Typed, TypeOK, Refreshing, Underway, Answered, NoSession
<1>4. ASSUME NEW c \in Callbacks, CallbackFails(c) PROVE Typed'
  BY <1>4 DEF CallbackFails, Turn, Typed, TypeOK, Refreshing, Underway, Answered, NoSession
<1>5. ASSUME NEW c \in Callbacks, Logout(c) PROVE Typed'
  BY <1>5 DEF Logout, Typed, TypeOK, Refreshing, Underway, Answered, NoSession
<1>6. ASSUME NEW c \in Callbacks, Age(c) PROVE Typed'
  BY <1>6 DEF Age, Typed, TypeOK, Refreshing, Underway, Answered, NoSession
<1>7. ASSUME NEW c \in Callbacks, Expire(c) PROVE Typed'
  BY <1>7 DEF Expire, Typed, TypeOK, Refreshing, Underway, Answered, NoSession
<1>8. ASSUME NEW c \in Callbacks, Revoke(c) PROVE Typed'
  BY <1>8 DEF Revoke, Typed, TypeOK, Refreshing, Underway, Answered, NoSession
<1>9. ASSUME NEW q \in Requests, Arrive(q) PROVE Typed'
  BY <1>9 DEF Arrive, Typed, TypeOK, Refreshing, Underway, Answered, NoSession
<1>10. ASSUME NEW q \in Requests, SelectRow(q) PROVE Typed'
  BY <1>10 DEF SelectRow, Typed, TypeOK, Refreshing, Underway, Answered, NoSession
<1>11. ASSUME NEW q \in Requests, SignedOut(q) PROVE Typed'
  BY <1>11 DEF SignedOut, Typed, TypeOK, Refreshing, Underway, Answered, NoSession
<1>12. ASSUME NEW q \in Requests, UseToken(q) PROVE Typed'
  BY <1>12 DEF UseToken, NeedsRefresh, Typed, TypeOK, Refreshing, Underway, Answered, NoSession
<1>13. ASSUME NEW q \in Requests, JoinRefresh(q) PROVE Typed'
  BY <1>13 DEF JoinRefresh, Typed, TypeOK, Refreshing, Underway, Answered, NoSession
<1>14. ASSUME NEW q \in Requests, StartRefresh(q) PROVE Typed'
  BY <1>14 DEF StartRefresh, Begin, Typed, TypeOK, Refreshing, Underway, Answered, NoSession
<1>15. ASSUME NEW q \in Requests, CallBL(q) PROVE Typed'
  BY <1>15 DEF CallBL, Typed, TypeOK, Refreshing, Underway, Answered, NoSession
<1>16. ASSUME NEW q \in Requests, Put(q) PROVE Typed'
  BY <1>16 DEF Put, Settle, ToBL, Typed, TypeOK, Refreshing, Underway, Answered, NoSession
<1>17. ASSUME NEW q \in Requests, Drop(q) PROVE Typed'
  BY <1>17 DEF Drop, Settle, NoLonger, Typed, TypeOK, Refreshing, Underway, Answered, NoSession
<1>18. ASSUME NEW q \in Requests, RequestFails(q) PROVE Typed'
  BY <1>18 DEF RequestFails, Errors, Typed, TypeOK, Refreshing, Underway, Answered, NoSession
<1>19. CASE Restart
  BY <1>19 DEF Restart, Typed, TypeOK, Refreshing, Underway, Answered, NoSession
<1>20. CASE UNCHANGED vars
  BY <1>20 DEF vars, Typed, TypeOK
<1> QED BY <1>1, <1>2, <1>3, <1>4, <1>5, <1>6, <1>7, <1>8, <1>9, <1>10, <1>11, <1>12, <1>13,
    <1>14, <1>15, <1>16, <1>17, <1>18, <1>19, <1>20, ExchangeTyped, AskTyped, AskFailsTyped,
    LogoutFailsTyped, PutFailsTyped, DropFailsTyped DEF Next, Login, Resume, Proceed

-----------------------------------------------------------------------------
(* Sessions come from a login. *)

LEMMA ExchangeEntered == ASSUME Typed, Entered, NEW c \in Callbacks, Exchange(c) PROVE Entered'
<1>1. dead[c] = 0
  BY ExchangeCases DEF Entered, Typed, TypeOK
<1>2. \A d \in Callbacks : d # c => issued'[d] = issued[d] /\ callback'[d] = callback[d]
  BY ExchangeCases DEF Typed, TypeOK
<1>3. /\ issued'[c] \in Nat /\ callback[c] = "exchange"
      /\ callback'[c] \notin {"new", "take", "exchange", "in"}
  BY ExchangeCases DEF Typed, TypeOK
<1>4. UNCHANGED <<at, row, out, dead>>
  BY ExchangeCases
<1> QED BY <1>1, <1>2, <1>3, <1>4 DEF Entered

LEMMA AskEntered == ASSUME Typed, Entered, NEW q \in Requests, Ask(q) PROVE Entered'
<1>1. \A p \in Requests : at'[p] # "new" => at[p] # "new"
  BY AskCases DEF Typed, TypeOK
<1>2. callback[SidOf[q]] = "in"
  BY AskCases DEF Entered
<1>3. \A c \in Callbacks :
          issued'[c] \in Nat /\ issued'[c] >= issued[c] /\ (c # SidOf[q] => issued'[c] = issued[c])
  BY SMTT(30), AskCases DEF Typed, TypeOK
<1> QED BY <1>1, <1>2, <1>3, AskCases DEF Entered, Typed, TypeOK

LEMMA AskFailsEntered == ASSUME Typed, Entered, NEW q \in Requests, AskFails(q) PROVE Entered'
<1>1. \A p \in Requests : at'[p] # "new" => at[p] # "new"
  BY AskFailsCases DEF Typed, TypeOK
<1>2. callback[SidOf[q]] = "in"
  BY AskFailsCases DEF Entered
<1>3. \A c \in Callbacks :
          issued'[c] \in Nat /\ issued'[c] >= issued[c] /\ (c # SidOf[q] => issued'[c] = issued[c])
  BY AskFailsCases DEF Typed, TypeOK
<1> QED BY <1>1, <1>2, <1>3, AskFailsCases DEF Entered, Typed, TypeOK

LEMMA EnteredStep == ASSUME Typed, Entered, [Next]_vars PROVE Entered'
<1>1. ASSUME NEW c \in Callbacks, FindLogin(c) PROVE Entered'
  BY <1>1 DEF FindLogin, Turn, Entered, Typed, TypeOK, Refreshing, Underway, Answered, NoSession
<1>2. ASSUME NEW c \in Callbacks, DeleteLogin(c) PROVE Entered'
  BY <1>2 DEF DeleteLogin, Turn, Entered, Typed, TypeOK, Refreshing, Underway, Answered, NoSession
<1>3. ASSUME NEW c \in Callbacks, CreateSession(c) PROVE Entered'
  BY <1>3 DEF CreateSession, Turn, Entered, Typed, TypeOK, Refreshing, Underway, Answered,
      NoSession
<1>4. ASSUME NEW c \in Callbacks, CallbackFails(c) PROVE Entered'
  BY <1>4 DEF CallbackFails, Turn, Entered, Typed, TypeOK, Refreshing, Underway, Answered,
      NoSession
<1>5. ASSUME NEW c \in Callbacks, Logout(c) PROVE Entered'
  BY <1>5 DEF Logout, Entered, Typed, TypeOK, Refreshing, Underway, Answered, NoSession
<1>6. ASSUME NEW c \in Callbacks, LogoutFails(c) PROVE Entered'
  BY <1>6 DEF LogoutFails, Entered, Typed, TypeOK, Refreshing, Underway, Answered, NoSession
<1>7. ASSUME NEW c \in Callbacks, Age(c) PROVE Entered'
  BY <1>7 DEF Age, Entered, Typed, TypeOK, Refreshing, Underway, Answered, NoSession
<1>8. ASSUME NEW c \in Callbacks, Expire(c) PROVE Entered'
  BY <1>8 DEF Expire, Entered, Typed, TypeOK, Refreshing, Underway, Answered, NoSession
<1>9. ASSUME NEW c \in Callbacks, Revoke(c) PROVE Entered'
  BY <1>9 DEF Revoke, Entered, Typed, TypeOK, Refreshing, Underway, Answered, NoSession
<1>10. ASSUME NEW q \in Requests, Arrive(q) PROVE Entered'
  BY <1>10 DEF Arrive, Entered, Typed, TypeOK, Refreshing, Underway, Answered, NoSession
<1>11. ASSUME NEW q \in Requests, SelectRow(q) PROVE Entered'
  BY <1>11 DEF SelectRow, Entered, Typed, TypeOK, Refreshing, Underway, Answered, NoSession
<1>12. ASSUME NEW q \in Requests, SignedOut(q) PROVE Entered'
  BY <1>12 DEF SignedOut, Entered, Typed, TypeOK, Refreshing, Underway, Answered, NoSession
<1>13. ASSUME NEW q \in Requests, UseToken(q) PROVE Entered'
  BY <1>13 DEF UseToken, NeedsRefresh, Entered, Typed, TypeOK, Refreshing, Underway, Answered,
      NoSession
<1>14. ASSUME NEW q \in Requests, JoinRefresh(q) PROVE Entered'
  BY <1>14 DEF JoinRefresh, Entered, Typed, TypeOK, Refreshing, Underway, Answered, NoSession
<1>15. ASSUME NEW q \in Requests, StartRefresh(q) PROVE Entered'
  BY <1>15 DEF StartRefresh, Begin, Entered, Typed, TypeOK, Refreshing, Underway, Answered,
      NoSession
<1>16. ASSUME NEW q \in Requests, CallBL(q) PROVE Entered'
  BY <1>16 DEF CallBL, Entered, Typed, TypeOK, Refreshing, Underway, Answered, NoSession
<1>17. ASSUME NEW q \in Requests, Put(q) PROVE Entered'
  BY <1>17 DEF Put, Settle, ToBL, Entered, Typed, TypeOK, Refreshing, Underway, Answered,
      NoSession
<1>18. ASSUME NEW q \in Requests, Drop(q) PROVE Entered'
  BY <1>18 DEF Drop, Settle, NoLonger, Entered, Typed, TypeOK, Refreshing, Underway, Answered,
      NoSession
<1>19. ASSUME NEW q \in Requests, RequestFails(q) PROVE Entered'
  BY <1>19 DEF RequestFails, Errors, Entered, Typed, TypeOK, Refreshing, Underway, Answered,
      NoSession
<1>20. ASSUME NEW q \in Requests, PutFails(q) PROVE Entered'
  BY <1>20 DEF PutFails, Entered, Typed, TypeOK, Refreshing, Underway, Answered, NoSession
<1>21. ASSUME NEW q \in Requests, DropFails(q) PROVE Entered'
  BY <1>21 DEF DropFails, Settle, Errors, Entered, Typed, TypeOK, Refreshing, Underway, Answered,
      NoSession
<1>22. CASE Restart
  BY <1>22 DEF Restart, Entered, Typed, TypeOK, Refreshing, Underway, Answered, NoSession
<1>23. CASE UNCHANGED vars
  BY <1>23 DEF vars, Entered, Typed, TypeOK
<1> QED BY <1>1, <1>2, <1>3, <1>4, <1>5, <1>6, <1>7, <1>8, <1>9, <1>10, <1>11, <1>12, <1>13,
    <1>14, <1>15, <1>16, <1>17, <1>18, <1>19, <1>20, <1>21, <1>22, <1>23, ExchangeEntered,
    AskEntered, AskFailsEntered DEF Next, Login, Resume, Proceed

-----------------------------------------------------------------------------
(* Refreshes take turns and forget nobody. *)

LEMMA AskTurns == ASSUME Typed, Turns, NEW q \in Requests, Ask(q) PROVE Turns'
<1>1. /\ at[q] = "ask" /\ \E l \in {"put", "drop"} : at' = [at EXCEPT ![q] = l]
      /\ UNCHANGED <<inflight, on>>
  BY AskCases
<1> QED BY <1>1 DEF Turns, Typed, TypeOK, Refreshing

LEMMA TurnsStep == ASSUME Typed, Turns, [Next]_vars PROVE Turns'
<1>1. ASSUME NEW c \in Callbacks, FindLogin(c) PROVE Turns'
  BY <1>1 DEF FindLogin, Turn, Turns, Typed, TypeOK, Refreshing, Underway, Answered, NoSession
<1>2. ASSUME NEW c \in Callbacks, DeleteLogin(c) PROVE Turns'
  BY <1>2 DEF DeleteLogin, Turn, Turns, Typed, TypeOK, Refreshing, Underway, Answered, NoSession
<1>3. ASSUME NEW c \in Callbacks, Exchange(c) PROVE Turns'
  BY <1>3 DEF Exchange, Turn, GrantFirst, Turns, Typed, TypeOK, Refreshing, Underway, Answered,
      NoSession
<1>4. ASSUME NEW c \in Callbacks, CreateSession(c) PROVE Turns'
  BY <1>4 DEF CreateSession, Turn, Turns, Typed, TypeOK, Refreshing, Underway, Answered, NoSession
<1>5. ASSUME NEW c \in Callbacks, CallbackFails(c) PROVE Turns'
  BY <1>5 DEF CallbackFails, Turn, Turns, Typed, TypeOK, Refreshing, Underway, Answered, NoSession
<1>6. ASSUME NEW c \in Callbacks, Logout(c) PROVE Turns'
  BY <1>6 DEF Logout, Turns, Typed, TypeOK, Refreshing, Underway, Answered, NoSession
<1>7. ASSUME NEW c \in Callbacks, LogoutFails(c) PROVE Turns'
  BY <1>7 DEF LogoutFails, Turns, Typed, TypeOK, Refreshing, Underway, Answered, NoSession
<1>8. ASSUME NEW c \in Callbacks, Age(c) PROVE Turns'
  BY <1>8 DEF Age, Turns, Typed, TypeOK, Refreshing, Underway, Answered, NoSession
<1>9. ASSUME NEW c \in Callbacks, Expire(c) PROVE Turns'
  BY <1>9 DEF Expire, Turns, Typed, TypeOK, Refreshing, Underway, Answered, NoSession
<1>10. ASSUME NEW c \in Callbacks, Revoke(c) PROVE Turns'
  BY <1>10 DEF Revoke, Turns, Typed, TypeOK, Refreshing, Underway, Answered, NoSession
<1>11. ASSUME NEW q \in Requests, Arrive(q) PROVE Turns'
  BY <1>11 DEF Arrive, Turns, Typed, TypeOK, Refreshing, Underway, Answered, NoSession
<1>12. ASSUME NEW q \in Requests, SelectRow(q) PROVE Turns'
  BY <1>12 DEF SelectRow, Turns, Typed, TypeOK, Refreshing, Underway, Answered, NoSession
<1>13. ASSUME NEW q \in Requests, SignedOut(q) PROVE Turns'
  BY <1>13 DEF SignedOut, Turns, Typed, TypeOK, Refreshing, Underway, Answered, NoSession
<1>14. ASSUME NEW q \in Requests, UseToken(q) PROVE Turns'
  BY <1>14 DEF UseToken, NeedsRefresh, Turns, Typed, TypeOK, Refreshing, Underway, Answered,
      NoSession
<1>15. ASSUME NEW q \in Requests, JoinRefresh(q) PROVE Turns'
  BY <1>15 DEF JoinRefresh, Turns, Typed, TypeOK, Refreshing, Underway, Answered, NoSession
<1>16. ASSUME NEW q \in Requests, StartRefresh(q) PROVE Turns'
  BY <1>16 DEF StartRefresh, Begin, Turns, Typed, TypeOK, Refreshing, Underway, Answered,
      NoSession
<1>17. ASSUME NEW q \in Requests, CallBL(q) PROVE Turns'
  BY <1>17 DEF CallBL, Turns, Typed, TypeOK, Refreshing, Underway, Answered, NoSession
<1>18. ASSUME NEW q \in Requests, Put(q) PROVE Turns'
  BY <1>18 DEF Put, Settle, ToBL, Turns, Typed, TypeOK, Refreshing, Underway, Answered, NoSession
<1>19. ASSUME NEW q \in Requests, Drop(q) PROVE Turns'
  BY <1>19 DEF Drop, Settle, NoLonger, Turns, Typed, TypeOK, Refreshing, Underway, Answered,
      NoSession
<1>20. ASSUME NEW q \in Requests, RequestFails(q) PROVE Turns'
  BY <1>20 DEF RequestFails, Errors, Turns, Typed, TypeOK, Refreshing, Underway, Answered,
      NoSession
<1>21. ASSUME NEW q \in Requests, AskFails(q) PROVE Turns'
  BY <1>21 DEF AskFails, Grant, Turns, Typed, TypeOK, Refreshing, Underway, Answered, NoSession
<1>22. ASSUME NEW q \in Requests, PutFails(q) PROVE Turns'
  BY <1>22 DEF PutFails, Turns, Typed, TypeOK, Refreshing, Underway, Answered, NoSession
<1>23. ASSUME NEW q \in Requests, DropFails(q) PROVE Turns'
  BY <1>23 DEF DropFails, Settle, Errors, Turns, Typed, TypeOK, Refreshing, Underway, Answered,
      NoSession
<1>24. CASE Restart
  BY <1>24 DEF Restart, Turns, Typed, TypeOK, Refreshing, Underway, Answered, NoSession
<1>25. CASE UNCHANGED vars
  BY <1>25 DEF vars, Turns, Typed, TypeOK
<1> QED BY <1>1, <1>2, <1>3, <1>4, <1>5, <1>6, <1>7, <1>8, <1>9, <1>10, <1>11, <1>12, <1>13,
    <1>14, <1>15, <1>16, <1>17, <1>18, <1>19, <1>20, <1>21, <1>22, <1>23, <1>24, <1>25, AskTurns
    DEF Next, Login, Resume, Proceed

LEMMA TurnsAlways == Spec => [](Typed /\ Entered /\ Turns)
<1>1. Init => Typed /\ Entered /\ Turns
  BY DEF Init, Typed, TypeOK, Entered, Turns, NoSession, Refreshing, Underway
<1> QED BY <1>1, TypedStep, EnteredStep, TurnsStep, PTL DEF Spec

\* The provider never sees two refreshes of a session at once.
THEOREM OneRefreshTheorem == Spec => []OneRefreshAtATime
<1>1. Turns => OneRefreshAtATime
  BY DEF Turns, OneRefreshAtATime
<1> QED BY <1>1, TurnsAlways, PTL

\* A request that waits for a refresh waits for one that is at work, so the end
\* of a refresh, its failure and a kill leave nobody behind.
THEOREM WaiterTheorem == Spec => []NoWaiterForgotten
<1>1. Typed /\ Turns => NoWaiterForgotten
  BY DEF Typed, TypeOK, Turns, NoWaiterForgotten
<1> QED BY <1>1, TurnsAlways, PTL

-----------------------------------------------------------------------------
(* Logout is final. *)

LEMMA ClosedStep == ASSUME Typed, Entered, Turns, Closed, [Next]_vars PROVE Closed'
<1>1. ASSUME NEW c \in Callbacks, FindLogin(c) PROVE Closed'
  BY <1>1 DEF FindLogin, Turn, Closed, Entered, Turns, Typed, TypeOK, Refreshing, Underway,
      Answered, NoSession
<1>2. ASSUME NEW c \in Callbacks, DeleteLogin(c) PROVE Closed'
  BY <1>2 DEF DeleteLogin, Turn, Closed, Entered, Turns, Typed, TypeOK, Refreshing, Underway,
      Answered, NoSession
<1>3. ASSUME NEW c \in Callbacks, Exchange(c) PROVE Closed'
  BY <1>3 DEF Exchange, Turn, GrantFirst, Closed, Entered, Turns, Typed, TypeOK, Refreshing,
      Underway, Answered, NoSession
<1>4. ASSUME NEW c \in Callbacks, CreateSession(c) PROVE Closed'
  BY <1>4 DEF CreateSession, Turn, Closed, Entered, Turns, Typed, TypeOK, Refreshing, Underway,
      Answered, NoSession
<1>5. ASSUME NEW c \in Callbacks, CallbackFails(c) PROVE Closed'
  BY <1>5 DEF CallbackFails, Turn, Closed, Entered, Turns, Typed, TypeOK, Refreshing, Underway,
      Answered, NoSession
<1>6. ASSUME NEW c \in Callbacks, Logout(c) PROVE Closed'
  BY <1>6 DEF Logout, Closed, Entered, Turns, Typed, TypeOK, Refreshing, Underway, Answered,
      NoSession
<1>7. ASSUME NEW c \in Callbacks, LogoutFails(c) PROVE Closed'
  BY <1>7 DEF LogoutFails, Closed, Entered, Turns, Typed, TypeOK, Refreshing, Underway, Answered,
      NoSession
<1>8. ASSUME NEW c \in Callbacks, Age(c) PROVE Closed'
  BY <1>8 DEF Age, Closed, Entered, Turns, Typed, TypeOK, Refreshing, Underway, Answered,
      NoSession
<1>9. ASSUME NEW c \in Callbacks, Expire(c) PROVE Closed'
  BY <1>9 DEF Expire, Closed, Entered, Turns, Typed, TypeOK, Refreshing, Underway, Answered,
      NoSession
<1>10. ASSUME NEW c \in Callbacks, Revoke(c) PROVE Closed'
  BY <1>10 DEF Revoke, Closed, Entered, Turns, Typed, TypeOK, Refreshing, Underway, Answered,
      NoSession
<1>11. ASSUME NEW q \in Requests, Arrive(q) PROVE Closed'
  BY <1>11 DEF Arrive, Closed, Entered, Turns, Typed, TypeOK, Refreshing, Underway, Answered,
      NoSession
<1>12. ASSUME NEW q \in Requests, SelectRow(q) PROVE Closed'
  BY <1>12 DEF SelectRow, Closed, Entered, Turns, Typed, TypeOK, Refreshing, Underway, Answered,
      NoSession
<1>13. ASSUME NEW q \in Requests, SignedOut(q) PROVE Closed'
  BY <1>13 DEF SignedOut, Closed, Entered, Turns, Typed, TypeOK, Refreshing, Underway, Answered,
      NoSession
<1>14. ASSUME NEW q \in Requests, UseToken(q) PROVE Closed'
  BY <1>14 DEF UseToken, NeedsRefresh, Closed, Entered, Turns, Typed, TypeOK, Refreshing,
      Underway, Answered, NoSession
<1>15. ASSUME NEW q \in Requests, JoinRefresh(q) PROVE Closed'
  BY <1>15 DEF JoinRefresh, Closed, Entered, Turns, Typed, TypeOK, Refreshing, Underway, Answered,
      NoSession
<1>16. ASSUME NEW q \in Requests, StartRefresh(q) PROVE Closed'
  BY <1>16 DEF StartRefresh, Begin, Closed, Entered, Turns, Typed, TypeOK, Refreshing, Underway,
      Answered, NoSession
<1>17. ASSUME NEW q \in Requests, CallBL(q) PROVE Closed'
  BY <1>17 DEF CallBL, Closed, Entered, Turns, Typed, TypeOK, Refreshing, Underway, Answered,
      NoSession
<1>18. ASSUME NEW q \in Requests, Ask(q) PROVE Closed'
  BY <1>18 DEF Ask, Grant, Closed, Entered, Turns, Typed, TypeOK, Refreshing, Underway, Answered,
      NoSession
<1>19. ASSUME NEW q \in Requests, Put(q) PROVE Closed'
  BY <1>19 DEF Put, Settle, ToBL, Closed, Entered, Turns, Typed, TypeOK, Refreshing, Underway,
      Answered, NoSession
<1>20. ASSUME NEW q \in Requests, Drop(q) PROVE Closed'
  BY <1>20 DEF Drop, Settle, NoLonger, Closed, Entered, Turns, Typed, TypeOK, Refreshing,
      Underway, Answered, NoSession
<1>21. ASSUME NEW q \in Requests, RequestFails(q) PROVE Closed'
  BY <1>21 DEF RequestFails, Errors, Closed, Entered, Turns, Typed, TypeOK, Refreshing, Underway,
      Answered, NoSession
<1>22. ASSUME NEW q \in Requests, AskFails(q) PROVE Closed'
  BY <1>22 DEF AskFails, Grant, Closed, Entered, Turns, Typed, TypeOK, Refreshing, Underway,
      Answered, NoSession
<1>23. ASSUME NEW q \in Requests, PutFails(q) PROVE Closed'
  BY <1>23 DEF PutFails, Closed, Entered, Turns, Typed, TypeOK, Refreshing, Underway, Answered,
      NoSession
<1>24. ASSUME NEW q \in Requests, DropFails(q) PROVE Closed'
  BY <1>24 DEF DropFails, Settle, Errors, Closed, Entered, Turns, Typed, TypeOK, Refreshing,
      Underway, Answered, NoSession
<1>25. CASE Restart
  BY <1>25 DEF Restart, Closed, Entered, Turns, Typed, TypeOK, Refreshing, Underway, Answered,
      NoSession
<1>26. CASE UNCHANGED vars
  BY <1>26 DEF vars, Closed, Entered, Turns, Typed, TypeOK
<1> QED BY <1>1, <1>2, <1>3, <1>4, <1>5, <1>6, <1>7, <1>8, <1>9, <1>10, <1>11, <1>12, <1>13,
    <1>14, <1>15, <1>16, <1>17, <1>18, <1>19, <1>20, <1>21, <1>22, <1>23, <1>24, <1>25, <1>26 DEF
    Next, Login, Resume, Proceed

\* A session that no request had in hand at its logout is never stored again;
\* of the others nothing is said.
THEOREM LogoutTheorem == Spec => []LogoutIsFinal
<1>1. Init => Closed
  BY DEF Init, Closed
<1>2. Closed => LogoutIsFinal
  BY DEF Closed, LogoutIsFinal
<1> QED BY <1>1, <1>2, ClosedStep, TurnsAlways, PTL DEF Spec

-----------------------------------------------------------------------------
(* The stored token is in force. *)

LEMMA ExchangeInForce ==
    ASSUME Typed, Entered, Turns, InForce, NEW c \in Callbacks, Exchange(c)
    PROVE  InForce'
<1>1. row[c] = NoSession /\ \A q \in Requests : at[q] = "put" => SidOf[q] # c
  BY ExchangeCases DEF Entered
<1>2. \A d \in Callbacks \ {c} : current'[d] = current[d]
  BY SMTT(30), ExchangeCases DEF Typed, TypeOK
<1> QED BY <1>1, <1>2, ExchangeCases DEF InForce, StoredTokenCurrent, NoSession

LEMMA AskInForce ==
    ASSUME Typed, Entered, Turns, InForce, NEW q \in Requests, Ask(q)
    PROVE  InForce'
<1>1. inflight[SidOf[q]] = q /\ \A p \in Requests \ {q} : at[p] = "put" => SidOf[p] # SidOf[q]
  BY AskCases DEF Turns, Refreshing
<1>2. \A d \in Callbacks \ {SidOf[q]} : current'[d] = current[d]
  BY AskCases DEF Typed, TypeOK
<1>3. \A p \in Requests \ {q} : at'[p] = at[p] /\ held'[p] = held[p]
  BY AskCases DEF Typed, TypeOK
<1>4. at'[q] = "put" => held'[q].refresh = current'[SidOf[q]]
  BY AskCases DEF Typed, TypeOK
<1> QED BY <1>1, <1>2, <1>3, <1>4, AskCases DEF InForce, StoredTokenCurrent, NoSession

LEMMA AskFailsInForce ==
    ASSUME Typed, Entered, Turns, InForce, NEW q \in Requests, AskFails(q)
    PROVE  InForce'
<1>1. inflight[SidOf[q]] = q /\ \A p \in Requests \ {q} : at[p] = "put" => SidOf[p] # SidOf[q]
  BY AskFailsCases DEF Turns, Refreshing
<1>2. \A d \in Callbacks \ {SidOf[q]} : current'[d] = current[d]
  BY AskFailsCases DEF Typed, TypeOK
<1>3. at'[q] = "drop" /\ \A p \in Requests \ {q} : at'[p] = at[p]
  BY AskFailsCases DEF Typed, TypeOK
<1> QED BY <1>1, <1>2, <1>3, AskFailsCases DEF InForce, StoredTokenCurrent, NoSession

LEMMA PutFailsInForce ==
    ASSUME Typed, Entered, Turns, InForce, NEW q \in Requests, PutFails(q)
    PROVE  InForce'
<1>1. inflight[SidOf[q]] = q
  BY DEF PutFails, Turns, Refreshing
<1>2. held[q] \in Tokens
  BY DEF Typed, TypeOK, Tokens
<1>3. \A d \in Callbacks \ {SidOf[q]} : row'[d] = row[d]
  BY <1>2, DropRow DEF PutFails
<1>4. at'[q] = "drop" /\ \A p \in Requests \ {q} : at'[p] = at[p]
  BY DEF PutFails, Typed, TypeOK
<1>5. UNCHANGED <<inflight, held, current, issued, unsaved>>
  BY DEF PutFails
<1> QED BY <1>1, <1>3, <1>4, <1>5 DEF InForce, StoredTokenCurrent, NoSession

LEMMA InForceStep == ASSUME Typed, Entered, Turns, InForce, [Next]_vars PROVE InForce'
<1>1. ASSUME NEW c \in Callbacks, FindLogin(c) PROVE InForce'
  BY <1>1 DEF FindLogin, Turn, InForce, StoredTokenCurrent, Entered, Turns, Typed, TypeOK,
      Refreshing, Underway, Answered, NoSession
<1>2. ASSUME NEW c \in Callbacks, DeleteLogin(c) PROVE InForce'
  BY <1>2 DEF DeleteLogin, Turn, InForce, StoredTokenCurrent, Entered, Turns, Typed, TypeOK,
      Refreshing, Underway, Answered, NoSession
<1>3. ASSUME NEW c \in Callbacks, CreateSession(c) PROVE InForce'
  BY <1>3 DEF CreateSession, Turn, InForce, StoredTokenCurrent, Entered, Turns, Typed, TypeOK,
      Refreshing, Underway, Answered, NoSession
<1>4. ASSUME NEW c \in Callbacks, CallbackFails(c) PROVE InForce'
  BY <1>4 DEF CallbackFails, Turn, InForce, StoredTokenCurrent, Entered, Turns, Typed, TypeOK,
      Refreshing, Underway, Answered, NoSession
<1>5. ASSUME NEW c \in Callbacks, Logout(c) PROVE InForce'
  BY <1>5 DEF Logout, InForce, StoredTokenCurrent, Entered, Turns, Typed, TypeOK, Refreshing,
      Underway, Answered, NoSession
<1>6. ASSUME NEW c \in Callbacks, LogoutFails(c) PROVE InForce'
  BY <1>6 DEF LogoutFails, InForce, StoredTokenCurrent, Entered, Turns, Typed, TypeOK, Refreshing,
      Underway, Answered, NoSession
<1>7. ASSUME NEW c \in Callbacks, Age(c) PROVE InForce'
  BY <1>7 DEF Age, InForce, StoredTokenCurrent, Entered, Turns, Typed, TypeOK, Refreshing,
      Underway, Answered, NoSession
<1>8. ASSUME NEW c \in Callbacks, Expire(c) PROVE InForce'
  BY <1>8 DEF Expire, InForce, StoredTokenCurrent, Entered, Turns, Typed, TypeOK, Refreshing,
      Underway, Answered, NoSession
<1>9. ASSUME NEW c \in Callbacks, Revoke(c) PROVE InForce'
  BY <1>9 DEF Revoke, InForce, StoredTokenCurrent, Entered, Turns, Typed, TypeOK, Refreshing,
      Underway, Answered, NoSession
<1>10. ASSUME NEW q \in Requests, Arrive(q) PROVE InForce'
  BY <1>10 DEF Arrive, InForce, StoredTokenCurrent, Entered, Turns, Typed, TypeOK, Refreshing,
      Underway, Answered, NoSession
<1>11. ASSUME NEW q \in Requests, SelectRow(q) PROVE InForce'
  BY <1>11 DEF SelectRow, InForce, StoredTokenCurrent, Entered, Turns, Typed, TypeOK, Refreshing,
      Underway, Answered, NoSession
<1>12. ASSUME NEW q \in Requests, SignedOut(q) PROVE InForce'
  BY <1>12 DEF SignedOut, InForce, StoredTokenCurrent, Entered, Turns, Typed, TypeOK, Refreshing,
      Underway, Answered, NoSession
<1>13. ASSUME NEW q \in Requests, UseToken(q) PROVE InForce'
  BY <1>13 DEF UseToken, NeedsRefresh, InForce, StoredTokenCurrent, Entered, Turns, Typed, TypeOK,
      Refreshing, Underway, Answered, NoSession
<1>14. ASSUME NEW q \in Requests, JoinRefresh(q) PROVE InForce'
  BY <1>14 DEF JoinRefresh, InForce, StoredTokenCurrent, Entered, Turns, Typed, TypeOK,
      Refreshing, Underway, Answered, NoSession
<1>15. ASSUME NEW q \in Requests, StartRefresh(q) PROVE InForce'
  BY <1>15 DEF StartRefresh, Begin, InForce, StoredTokenCurrent, Entered, Turns, Typed, TypeOK,
      Refreshing, Underway, Answered, NoSession
<1>16. ASSUME NEW q \in Requests, CallBL(q) PROVE InForce'
  BY <1>16 DEF CallBL, InForce, StoredTokenCurrent, Entered, Turns, Typed, TypeOK, Refreshing,
      Underway, Answered, NoSession
<1>17. ASSUME NEW q \in Requests, Put(q) PROVE InForce'
  BY <1>17 DEF Put, Settle, ToBL, InForce, StoredTokenCurrent, Entered, Turns, Typed, TypeOK,
      Refreshing, Underway, Answered, NoSession
<1>18. ASSUME NEW q \in Requests, Drop(q) PROVE InForce'
  BY <1>18 DEF Drop, Settle, NoLonger, InForce, StoredTokenCurrent, Entered, Turns, Typed, TypeOK,
      Refreshing, Underway, Answered, NoSession
<1>19. ASSUME NEW q \in Requests, RequestFails(q) PROVE InForce'
  BY <1>19 DEF RequestFails, Errors, InForce, StoredTokenCurrent, Entered, Turns, Typed, TypeOK,
      Refreshing, Underway, Answered, NoSession
<1>20. ASSUME NEW q \in Requests, DropFails(q) PROVE InForce'
  BY <1>20 DEF DropFails, Settle, Errors, InForce, StoredTokenCurrent, Entered, Turns, Typed,
      TypeOK, Refreshing, Underway, Answered, NoSession
<1>21. CASE Restart
  BY <1>21 DEF Restart, InForce, StoredTokenCurrent, Entered, Turns, Typed, TypeOK, Refreshing,
      Underway, Answered, NoSession
<1>22. CASE UNCHANGED vars
  BY <1>22 DEF vars, InForce, StoredTokenCurrent, Entered, Turns, Typed, TypeOK
<1> QED BY <1>1, <1>2, <1>3, <1>4, <1>5, <1>6, <1>7, <1>8, <1>9, <1>10, <1>11, <1>12, <1>13,
    <1>14, <1>15, <1>16, <1>17, <1>18, <1>19, <1>20, <1>21, <1>22, ExchangeInForce, AskInForce,
    AskFailsInForce, PutFailsInForce DEF Next, Login, Resume, Proceed

LEMMA InForceAlways == Spec => [](Typed /\ Entered /\ Turns /\ InForce)
<1>1. Init => InForce
  BY DEF Init, InForce, StoredTokenCurrent
<1> QED BY <1>1, InForceStep, TurnsAlways, PTL DEF Spec

\* Between two refreshes the stored refresh token is the provider's, although
\* every refresh may rotate it, unless a kill or a second error lost it.
THEOREM TokenTheorem == Spec => []StoredTokenCurrent
<1>1. InForce => StoredTokenCurrent
  BY DEF InForce
<1> QED BY <1>1, InForceAlways, PTL

-----------------------------------------------------------------------------
(* Nobody is signed out by accident. *)

LEMMA ExpireExcusable ==
    ASSUME Typed, Entered, Turns, InForce, Excusable, NEW c \in Callbacks, Expire(c)
    PROVE  Excusable'
<1>1. PICK n \in Nat :
          /\ n \in dead[c] + 1..issued[c] /\ dead' = [dead EXCEPT ![c] = n]
          /\ excused' = IF \E q \in Requests :
                            /\ SidOf[q] = c /\ held[q].access \in 1..n
                            /\ at[q] = "put" \/ (at[q] = "call" /\ again[q])
                      THEN excused \cup {c} ELSE excused
          /\ UNCHANGED <<callback, row, at, held, again, current, unsaved>>
  <2>1. dead[c] \in Nat /\ issued[c] \in Nat
    BY DEF Typed, TypeOK
  <2>2. dead[c] + 1..issued[c] \subseteq Nat
    BY <2>1
  <2> QED BY <2>2 DEF Expire
<1>2. ASSUME NEW q \in Requests, SidOf[q] \notin excused',
             at[q] = "put" \/ (at[q] = "call" /\ again[q])
      PROVE  held[q].access > dead'[SidOf[q]]
  <2>1. held[q].access > dead[SidOf[q]] /\ held[q].access \in Nat /\ dead[SidOf[q]] \in Nat
    BY <1>1, <1>2 DEF Excusable, Typed, TypeOK
  <2>2. CASE SidOf[q] # c
    BY <1>1, <2>1, <2>2 DEF Typed, TypeOK
  <2>3. CASE SidOf[q] = c
    <3>1. ~(held[q].access \in 1..n)
      BY <1>1, <1>2, <2>3
    <3> QED BY <1>1, <2>1, <2>3, <3>1 DEF Typed, TypeOK
  <2> QED BY <2>2, <2>3
<1>3. excused \subseteq excused'
  BY <1>1
<1> QED BY <1>1, <1>2, <1>3 DEF Excusable

LEMMA ExcusableStep ==
    ASSUME Typed, Entered, Turns, InForce, Excusable, [Next]_vars
    PROVE  Excusable'
<1>1. ASSUME NEW c \in Callbacks, FindLogin(c) PROVE Excusable'
  BY <1>1 DEF FindLogin, Turn, Excusable, InForce, StoredTokenCurrent, Entered, Turns, Typed,
      TypeOK, Refreshing, Underway, Answered, NoSession
<1>2. ASSUME NEW c \in Callbacks, DeleteLogin(c) PROVE Excusable'
  BY <1>2 DEF DeleteLogin, Turn, Excusable, InForce, StoredTokenCurrent, Entered, Turns, Typed,
      TypeOK, Refreshing, Underway, Answered, NoSession
<1>3. ASSUME NEW c \in Callbacks, Exchange(c) PROVE Excusable'
  BY <1>3 DEF Exchange, Turn, GrantFirst, Excusable, InForce, StoredTokenCurrent, Entered, Turns,
      Typed, TypeOK, Refreshing, Underway, Answered, NoSession
<1>4. ASSUME NEW c \in Callbacks, CreateSession(c) PROVE Excusable'
  BY <1>4 DEF CreateSession, Turn, Excusable, InForce, StoredTokenCurrent, Entered, Turns, Typed,
      TypeOK, Refreshing, Underway, Answered, NoSession
<1>5. ASSUME NEW c \in Callbacks, CallbackFails(c) PROVE Excusable'
  BY <1>5 DEF CallbackFails, Turn, Excusable, InForce, StoredTokenCurrent, Entered, Turns, Typed,
      TypeOK, Refreshing, Underway, Answered, NoSession
<1>6. ASSUME NEW c \in Callbacks, Logout(c) PROVE Excusable'
  BY <1>6 DEF Logout, Excusable, InForce, StoredTokenCurrent, Entered, Turns, Typed, TypeOK,
      Refreshing, Underway, Answered, NoSession
<1>7. ASSUME NEW c \in Callbacks, LogoutFails(c) PROVE Excusable'
  BY <1>7 DEF LogoutFails, Excusable, InForce, StoredTokenCurrent, Entered, Turns, Typed, TypeOK,
      Refreshing, Underway, Answered, NoSession
<1>8. ASSUME NEW c \in Callbacks, Age(c) PROVE Excusable'
  BY <1>8 DEF Age, Excusable, InForce, StoredTokenCurrent, Entered, Turns, Typed, TypeOK,
      Refreshing, Underway, Answered, NoSession
<1>9. ASSUME NEW c \in Callbacks, Revoke(c) PROVE Excusable'
  BY <1>9 DEF Revoke, Excusable, InForce, StoredTokenCurrent, Entered, Turns, Typed, TypeOK,
      Refreshing, Underway, Answered, NoSession
<1>10. ASSUME NEW q \in Requests, Arrive(q) PROVE Excusable'
  BY <1>10 DEF Arrive, Excusable, InForce, StoredTokenCurrent, Entered, Turns, Typed, TypeOK,
      Refreshing, Underway, Answered, NoSession
<1>11. ASSUME NEW q \in Requests, SelectRow(q) PROVE Excusable'
  BY <1>11 DEF SelectRow, Excusable, InForce, StoredTokenCurrent, Entered, Turns, Typed, TypeOK,
      Refreshing, Underway, Answered, NoSession
<1>12. ASSUME NEW q \in Requests, SignedOut(q) PROVE Excusable'
  BY <1>12 DEF SignedOut, Excusable, InForce, StoredTokenCurrent, Entered, Turns, Typed, TypeOK,
      Refreshing, Underway, Answered, NoSession
<1>13. ASSUME NEW q \in Requests, UseToken(q) PROVE Excusable'
  BY <1>13 DEF UseToken, NeedsRefresh, Excusable, InForce, StoredTokenCurrent, Entered, Turns,
      Typed, TypeOK, Refreshing, Underway, Answered, NoSession
<1>14. ASSUME NEW q \in Requests, JoinRefresh(q) PROVE Excusable'
  BY <1>14 DEF JoinRefresh, Excusable, InForce, StoredTokenCurrent, Entered, Turns, Typed, TypeOK,
      Refreshing, Underway, Answered, NoSession
<1>15. ASSUME NEW q \in Requests, StartRefresh(q) PROVE Excusable'
  BY <1>15 DEF StartRefresh, Begin, Excusable, InForce, StoredTokenCurrent, Entered, Turns, Typed,
      TypeOK, Refreshing, Underway, Answered, NoSession
<1>16. ASSUME NEW q \in Requests, CallBL(q) PROVE Excusable'
  BY <1>16 DEF CallBL, Excusable, InForce, StoredTokenCurrent, Entered, Turns, Typed, TypeOK,
      Refreshing, Underway, Answered, NoSession
<1>17. ASSUME NEW q \in Requests, Ask(q) PROVE Excusable'
  BY <1>17 DEF Ask, Grant, Excusable, InForce, StoredTokenCurrent, Entered, Turns, Typed, TypeOK,
      Refreshing, Underway, Answered, NoSession
<1>18. ASSUME NEW q \in Requests, Put(q) PROVE Excusable'
  BY <1>18 DEF Put, Settle, ToBL, Excusable, InForce, StoredTokenCurrent, Entered, Turns, Typed,
      TypeOK, Refreshing, Underway, Answered, NoSession
<1>19. ASSUME NEW q \in Requests, Drop(q) PROVE Excusable'
  BY <1>19 DEF Drop, Settle, NoLonger, Excusable, InForce, StoredTokenCurrent, Entered, Turns,
      Typed, TypeOK, Refreshing, Underway, Answered, NoSession
<1>20. ASSUME NEW q \in Requests, RequestFails(q) PROVE Excusable'
  BY <1>20 DEF RequestFails, Errors, Excusable, InForce, StoredTokenCurrent, Entered, Turns,
      Typed, TypeOK, Refreshing, Underway, Answered, NoSession
<1>21. ASSUME NEW q \in Requests, AskFails(q) PROVE Excusable'
  BY <1>21 DEF AskFails, Grant, Excusable, InForce, StoredTokenCurrent, Entered, Turns, Typed,
      TypeOK, Refreshing, Underway, Answered, NoSession
<1>22. ASSUME NEW q \in Requests, PutFails(q) PROVE Excusable'
  BY <1>22 DEF PutFails, Excusable, InForce, StoredTokenCurrent, Entered, Turns, Typed, TypeOK,
      Refreshing, Underway, Answered, NoSession
<1>23. ASSUME NEW q \in Requests, DropFails(q) PROVE Excusable'
  BY <1>23 DEF DropFails, Settle, Errors, Excusable, InForce, StoredTokenCurrent, Entered, Turns,
      Typed, TypeOK, Refreshing, Underway, Answered, NoSession
<1>24. CASE Restart
  BY <1>24 DEF Restart, Excusable, InForce, StoredTokenCurrent, Entered, Turns, Typed, TypeOK,
      Refreshing, Underway, Answered, NoSession
<1>25. CASE UNCHANGED vars
  BY <1>25 DEF vars, Excusable, InForce, StoredTokenCurrent, Entered, Turns, Typed, TypeOK
<1> QED BY <1>1, <1>2, <1>3, <1>4, <1>5, <1>6, <1>7, <1>8, <1>9, <1>10, <1>11, <1>12, <1>13,
    <1>14, <1>15, <1>16, <1>17, <1>18, <1>19, <1>20, <1>21, <1>22, <1>23, <1>24, <1>25,
    ExpireExcusable DEF Next, Login, Resume, Proceed

\* A request is answered with an error only where its session was ended,
\* revoked, hit by an error or a kill, had no refresh token, was refreshed from
\* an outdated row, or had its token refused between a refresh and its use.
THEOREM ServedTheorem == Spec => []SignedInIsServed
<1>1. Init => Excusable
  BY DEF Init, Excusable
<1>2. Excusable => SignedInIsServed
  BY DEF Excusable, SignedInIsServed
<1> QED BY <1>1, <1>2, ExcusableStep, InForceAlways, PTL DEF Spec

===============================================================================
