--------------------------- MODULE CloudAuthProofs ---------------------------
(***************************************************************************)
(* Proofs about CloudAuth for every number of accounts, callers, logins,   *)
(* browser visits and pairs of tokens.                                     *)
(***************************************************************************)
EXTENDS CloudAuth, TLAPS

\* Nothing names a pair before the server issues it.
Issued ==
    /\ tokens \in 0..issued /\ file \in 0..issued
    /\ \A c \in Caller : held[c] \in 0..issued /\ answer[c] \in 0..issued
    /\ \A v \in Visit : brought[v] \in 0..issued
    /\ spent \subseteq 0..issued

\* A pair on its way to the client is on its way to one goroutine, and has not
\* been used.
Private ==
    /\ \A c \in Caller :
          pc[c] = "ok" =>
            /\ answer[c] \notin spent /\ answer[c] # tokens /\ answer[c] # file
            /\ \A k \in Caller : answer[c] # held[k]
            /\ \A k \in Caller : k # c => answer[c] # answer[k]
            /\ \A v \in Visit : answer[c] # brought[v]
    /\ \A v \in Visit :
          visit[v] = "fetch" =>
            /\ brought[v] \notin spent /\ brought[v] # tokens /\ brought[v] # file
            /\ \A k \in Caller : brought[v] # held[k]
            /\ \A w \in Visit : w # v => brought[v] # brought[w]

\* Why a posted token may be refused, and why a second call holds it.
Reason ==
    /\ RefusedForAReason
    /\ \A c \in Caller :
          pc[c] = "posted" /\ held[c] \in spent => held[c] \in shared \cup orphaned
    /\ \A c, k \in Caller :
          c # k /\ InFlight(c) /\ InFlight(k) /\ held[c] = held[k] => held[c] \in shared

\* What is displayed and kept is the user of the pair's account, but for the
\* pairs that took the user of other tokens.
Kept ==
    /\ tokens # NoGrant => identity = user[tokens]
    /\ \A g \in 1..issued : user[g] = owner[g] \/ g \in misnamed
    /\ \A c \in Caller : pc[c] = "ok" => owner[answer[c]] = owner[held[c]]

\* After a Logout that reached the disk there is nothing to read, and whatever is
\* under way was so at that time, or belongs to a later login.
Left ==
    left => /\ tokens = NoGrant /\ file = NoGrant
            /\ \A c \in Caller : InFlight(c) => c \in excused
            /\ \A l \in Login : login[l] = "waiting" => l \in excused
            /\ \A v \in Visit : visit[v] = "fetch" => v \in excused

------------------------------------------------------------------------------
\* What giving up does to the history: tokens are only ever added, a token newly
\* used was posted, and every answer that is given up orphans its token.
LEMMA GiveUpBounds ==
    ASSUME TypeOK, NEW callers \in SUBSET Caller, GiveUp(callers)
    PROVE  /\ spent \subseteq spent' /\ spent' \subseteq Grant
           /\ orphaned \subseteq orphaned' /\ orphaned' \subseteq Grant
           /\ \A g \in spent' \ spent :
                 g \in orphaned' /\ \E c \in callers : pc[c] = "posted" /\ held[c] = g
           /\ \A c \in callers : pc[c] = "ok" => held[c] \in orphaned'
<1> DEFINE Held(where) == {held[c] : c \in {k \in callers : pc[k] = where}}
<1>1. PICK used \in SUBSET (Held("posted") \ spent) :
         /\ spent' = spent \cup used
         /\ orphaned' = orphaned \cup used \cup Held("ok")
  BY DEF GiveUp
<1>2. Held("posted") \subseteq Grant /\ Held("ok") \subseteq Grant
  BY DEF TypeOK, InFlight, Grant, NoGrant
<1> QED
  BY <1>1, <1>2 DEF TypeOK

\* Every action keeps the types.
LEMMA NextType == TypeOK /\ [Next]_vars => TypeOK'
<1> SUFFICES ASSUME TypeOK, [Next]_vars PROVE TypeOK'
  OBVIOUS
<1> USE NameAssumption, BoundAssumption DEF Grant, NoGrant
<1>1. CASE Logout
  BY <1>1
  DEF Logout, UnderWay, Save, client, calls, logins, server, history, TypeOK, InFlight
<1>2. CASE Restart
  <2>1. GiveUp(Caller)
    BY <1>2 DEF Restart
  <2>2. /\ spent \subseteq spent' /\ spent' \subseteq Grant
        /\ orphaned \subseteq orphaned' /\ orphaned' \subseteq Grant
        /\ \A g \in spent' \ spent :
              g \in orphaned' /\ \E k \in Caller : pc[k] = "posted" /\ held[k] = g
        /\ \A k \in Caller : pc[k] = "ok" => held[k] \in orphaned'
    BY <2>1, GiveUpBounds
  <2> QED
    BY <1>2, <2>2
    DEF Restart, Hydrated, TypeOK, client, calls, logins, server, history, InFlight
<1>3. ASSUME NEW c \in Caller, FindExpired(c) PROVE TypeOK'
  BY <1>3 DEF FindExpired, client, calls, logins, server, history, TypeOK, InFlight
<1>4. ASSUME NEW c \in Caller, PostRefresh(c) PROVE TypeOK'
  BY <1>4 DEF PostRefresh, InFlight, client, calls, logins, server, history, TypeOK
<1>5. ASSUME NEW c \in Caller, NothingToRefresh(c) PROVE TypeOK'
  BY <1>5 DEF NothingToRefresh, client, calls, logins, server, history, TypeOK, InFlight
<1>6. ASSUME NEW c \in Caller, ApplyRefresh(c) PROVE TypeOK'
  <2>1. answer[c] \in Grant /\ Hydrated(tokens) \in Account \cup {NoAccount}
    BY <1>6 DEF ApplyRefresh, Hydrated, TypeOK
  <2>2. /\ user' \in [Grant -> Account \cup {NoAccount}]
        /\ misnamed' \subseteq Grant
        /\ identity' \in Account \cup {NoAccount}
    BY <1>6, <2>1 DEF ApplyRefresh, NameAnswer, TypeOK
  <2>3. /\ tokens' \in Grant \cup {NoGrant} /\ file' \in Grant \cup {NoGrant}
        /\ orphaned' \subseteq Grant
        /\ left' \in BOOLEAN /\ excused' \subseteq Caller \cup Login \cup Visit
    BY <1>6, <2>1 DEF ApplyRefresh, Save, SignsIn, TypeOK
  <2> QED
    BY <1>6, <2>2, <2>3 DEF ApplyRefresh, Over, InFlight, logins, server, TypeOK
<1>7. ASSUME NEW c \in Caller, ApplyRefusal(c) PROVE TypeOK'
  BY <1>7
  DEF ApplyRefusal, EndsWithout, Save, Over, InFlight, client, calls, logins, server,
      history, TypeOK
<1>8. ASSUME NEW c \in Caller, LoseRefresh(c) PROVE TypeOK'
  <2>1. GiveUp({c})
    BY <1>8 DEF LoseRefresh, EndsWithout
  <2>2. /\ spent \subseteq spent' /\ spent' \subseteq Grant
        /\ orphaned \subseteq orphaned' /\ orphaned' \subseteq Grant
        /\ \A g \in spent' \ spent :
              g \in orphaned' /\ \E k \in {c} : pc[k] = "posted" /\ held[k] = g
        /\ \A k \in {c} : pc[k] = "ok" => held[k] \in orphaned'
    BY <2>1, GiveUpBounds
  <2> QED
    BY <1>8, <2>2
    DEF LoseRefresh, EndsWithout, Over, InFlight, TypeOK, client, calls, logins, server,
        history
<1>9. ASSUME NEW c \in Caller, Accept(c) PROVE TypeOK'
  <2>1. issued + 1 \in Grant /\ held[c] \in Grant /\ owner[held[c]] \in Account \cup {NoAccount}
    BY <1>9 DEF Accept, TypeOK, InFlight
  <2>2. issued' \in 0..MaxGrants
    BY <1>9 DEF Accept, TypeOK
  <2>3. spent' \subseteq Grant
    BY <1>9, <2>1 DEF Accept, TypeOK
  <2>4. owner' \in [Grant -> Account \cup {NoAccount}]
    BY <1>9, <2>1 DEF Accept, TypeOK
  <2>5. answer' \in [Caller -> Grant \cup {NoGrant}] /\ answer'[c] # NoGrant
    BY <1>9, <2>1 DEF Accept, TypeOK
  <2>6. \A k \in Caller : pc'[k] = "ok" => answer'[k] # NoGrant
    BY <1>9, <2>1, <2>5 DEF Accept, TypeOK
  <2>7. \A k \in Caller : InFlight(k)' => held'[k] # NoGrant
    BY <1>9, <2>1 DEF Accept, TypeOK, InFlight
  <2> QED
    BY <1>9, <2>2, <2>3, <2>4, <2>5, <2>6, <2>7 DEF Accept, client, logins, history, TypeOK
<1>10. ASSUME NEW c \in Caller, RefuseSpent(c) PROVE TypeOK'
  BY <1>10 DEF RefuseSpent, client, calls, logins, server, history, TypeOK, InFlight
<1>11. ASSUME NEW c \in Caller, ServerDown(c) PROVE TypeOK'
  <2>1. GiveUp({c})
    BY <1>11 DEF ServerDown, EndsWithout
  <2>2. /\ spent \subseteq spent' /\ spent' \subseteq Grant
        /\ orphaned \subseteq orphaned' /\ orphaned' \subseteq Grant
        /\ \A g \in spent' \ spent :
              g \in orphaned' /\ \E k \in {c} : pc[k] = "posted" /\ held[k] = g
        /\ \A k \in {c} : pc[k] = "ok" => held[k] \in orphaned'
    BY <2>1, GiveUpBounds
  <2> QED
    BY <1>11, <2>2 DEF ServerDown, InFlight, TypeOK, client, calls, logins, server, history
<1>12. ASSUME NEW l \in Login, StartLogin(l) PROVE TypeOK'
  BY <1>12 DEF StartLogin, Excuse, client, calls, logins, server, history, TypeOK, InFlight
<1>13. ASSUME NEW l \in Login, LoginReturns(l) PROVE TypeOK'
  BY <1>13
  DEF LoginReturns, EndsWithout, client, calls, logins, server, history, TypeOK, InFlight
<1>14. ASSUME NEW l \in Login, LoginGivesUp(l) PROVE TypeOK'
  BY <1>14
  DEF LoginGivesUp, EndsWithout, client, calls, logins, server, history, TypeOK, InFlight
<1>15. ASSUME NEW v \in Visit, FetchUserFails(v) PROVE TypeOK'
  BY <1>15
  DEF FetchUserFails, EndsWithout, client, calls, logins, server, history, TypeOK, InFlight
<1>16. ASSUME NEW v \in Visit, SetTokens(v) PROVE TypeOK'
  BY <1>16
  DEF SetTokens, SignsIn, Save, Hydrated, client, calls, logins, server, history, TypeOK,
      InFlight
<1>17. ASSUME NEW v \in Visit, Report(v) PROVE TypeOK'
  BY <1>17 DEF Report, client, calls, logins, server, history, TypeOK, InFlight
<1>18. ASSUME NEW v \in Visit, NEW l \in Login, BrowserFails(v, l) PROVE TypeOK'
  BY <1>18 DEF BrowserFails, client, calls, logins, server, history, TypeOK, InFlight
<1>19. ASSUME NEW v \in Visit, NEW l \in Login, NEW a \in Account, BrowserReturns(v, l, a)
       PROVE  TypeOK'
  BY <1>19
  DEF BrowserReturns, Excuse, client, calls, logins, server, history, TypeOK, InFlight
<1>20. CASE UNCHANGED vars
  BY <1>20 DEF vars, client, calls, logins, server, history, TypeOK, InFlight
<1> QED
  BY <1>1, <1>2, <1>3, <1>4, <1>5, <1>6, <1>7, <1>8, <1>9, <1>10, <1>11, <1>12, <1>13,
     <1>14, <1>15, <1>16, <1>17, <1>18, <1>19, <1>20
  DEF Next, CallStep, HandlerStep, LoginStep

\* Pairs are numbered in the order they are issued, and nothing names one before.
LEMMA NextIssued == TypeOK /\ Issued /\ [Next]_vars => Issued'
<1> SUFFICES ASSUME TypeOK, Issued, [Next]_vars PROVE Issued'
  OBVIOUS
<1> USE NameAssumption, BoundAssumption DEF Grant, NoGrant
<1>1. CASE Logout
  BY <1>1 DEF Logout, UnderWay, Save, client, calls, logins, server, history, TypeOK, Issued
<1>2. CASE Restart
  <2>1. GiveUp(Caller)
    BY <1>2 DEF Restart
  <2>2. /\ spent \subseteq spent' /\ spent' \subseteq Grant
        /\ orphaned \subseteq orphaned' /\ orphaned' \subseteq Grant
        /\ \A g \in spent' \ spent :
              g \in orphaned' /\ \E k \in Caller : pc[k] = "posted" /\ held[k] = g
        /\ \A k \in Caller : pc[k] = "ok" => held[k] \in orphaned'
    BY <2>1, GiveUpBounds
  <2> QED
    BY <1>2, <2>2
    DEF Restart, Hydrated, TypeOK, client, calls, logins, server, history, Issued
<1>3. ASSUME NEW c \in Caller, FindExpired(c) PROVE Issued'
  BY <1>3 DEF FindExpired, client, calls, logins, server, history, TypeOK, Issued
<1>4. ASSUME NEW c \in Caller, PostRefresh(c) PROVE Issued'
  BY <1>4 DEF PostRefresh, InFlight, client, calls, logins, server, history, TypeOK, Issued
<1>5. ASSUME NEW c \in Caller, NothingToRefresh(c) PROVE Issued'
  BY <1>5 DEF NothingToRefresh, client, calls, logins, server, history, TypeOK, Issued
<1>6. ASSUME NEW c \in Caller, ApplyRefresh(c) PROVE Issued'
  BY <1>6
  DEF ApplyRefresh, NameAnswer, SignsIn, Save, Over, InFlight, Hydrated, client, calls,
      logins, server, history, TypeOK, Issued
<1>7. ASSUME NEW c \in Caller, ApplyRefusal(c) PROVE Issued'
  BY <1>7
  DEF ApplyRefusal, EndsWithout, Save, Over, InFlight, client, calls, logins, server,
      history, TypeOK, Issued
<1>8. ASSUME NEW c \in Caller, LoseRefresh(c) PROVE Issued'
  <2>1. GiveUp({c})
    BY <1>8 DEF LoseRefresh, EndsWithout
  <2>2. /\ spent \subseteq spent' /\ spent' \subseteq Grant
        /\ orphaned \subseteq orphaned' /\ orphaned' \subseteq Grant
        /\ \A g \in spent' \ spent :
              g \in orphaned' /\ \E k \in {c} : pc[k] = "posted" /\ held[k] = g
        /\ \A k \in {c} : pc[k] = "ok" => held[k] \in orphaned'
    BY <2>1, GiveUpBounds
  <2> QED
    BY <1>8, <2>2
    DEF LoseRefresh, EndsWithout, Over, InFlight, TypeOK, client, calls, logins, server,
        history, Issued
<1>9. ASSUME NEW c \in Caller, Accept(c) PROVE Issued'
  <2>1. issued \in Nat /\ held[c] \in 0..issued
    BY <1>9 DEF Accept, TypeOK, Issued
  <2>2. issued' = issued + 1 /\ spent' \subseteq 0..issued'
    BY <1>9, <2>1 DEF Accept, Issued
  <2>3. \A k \in Caller : answer'[k] \in 0..issued'
    BY <1>9, <2>1, <2>2 DEF Accept, TypeOK, Issued
  <2> QED
    BY <1>9, <2>1, <2>2, <2>3 DEF Accept, client, logins, history, Issued
<1>10. ASSUME NEW c \in Caller, RefuseSpent(c) PROVE Issued'
  BY <1>10 DEF RefuseSpent, client, calls, logins, server, history, TypeOK, Issued
<1>11. ASSUME NEW c \in Caller, ServerDown(c) PROVE Issued'
  <2>1. GiveUp({c})
    BY <1>11 DEF ServerDown, EndsWithout
  <2>2. /\ spent \subseteq spent' /\ spent' \subseteq Grant
        /\ orphaned \subseteq orphaned' /\ orphaned' \subseteq Grant
        /\ \A g \in spent' \ spent :
              g \in orphaned' /\ \E k \in {c} : pc[k] = "posted" /\ held[k] = g
        /\ \A k \in {c} : pc[k] = "ok" => held[k] \in orphaned'
    BY <2>1, GiveUpBounds
  <2> QED
    BY <1>11, <2>2
    DEF ServerDown, InFlight, TypeOK, client, calls, logins, server, history, Issued
<1>12. ASSUME NEW l \in Login, StartLogin(l) PROVE Issued'
  BY <1>12 DEF StartLogin, Excuse, client, calls, logins, server, history, TypeOK, Issued
<1>13. ASSUME NEW l \in Login, LoginReturns(l) PROVE Issued'
  BY <1>13
  DEF LoginReturns, EndsWithout, client, calls, logins, server, history, TypeOK, Issued
<1>14. ASSUME NEW l \in Login, LoginGivesUp(l) PROVE Issued'
  BY <1>14
  DEF LoginGivesUp, EndsWithout, client, calls, logins, server, history, TypeOK, Issued
<1>15. ASSUME NEW v \in Visit, FetchUserFails(v) PROVE Issued'
  BY <1>15
  DEF FetchUserFails, EndsWithout, client, calls, logins, server, history, TypeOK, Issued
<1>16. ASSUME NEW v \in Visit, SetTokens(v) PROVE Issued'
  BY <1>16
  DEF SetTokens, SignsIn, Save, Hydrated, client, calls, logins, server, history, TypeOK,
      Issued
<1>17. ASSUME NEW v \in Visit, Report(v) PROVE Issued'
  BY <1>17 DEF Report, client, calls, logins, server, history, TypeOK, Issued
<1>18. ASSUME NEW v \in Visit, NEW l \in Login, BrowserFails(v, l) PROVE Issued'
  BY <1>18 DEF BrowserFails, client, calls, logins, server, history, TypeOK, Issued
<1>19. ASSUME NEW v \in Visit, NEW l \in Login, NEW a \in Account, BrowserReturns(v, l, a)
       PROVE  Issued'
  BY <1>19
  DEF BrowserReturns, Excuse, client, calls, logins, server, history, TypeOK, Issued
<1>20. CASE UNCHANGED vars
  BY <1>20 DEF vars, client, calls, logins, server, history, TypeOK, Issued
<1> QED
  BY <1>1, <1>2, <1>3, <1>4, <1>5, <1>6, <1>7, <1>8, <1>9, <1>10, <1>11, <1>12, <1>13,
     <1>14, <1>15, <1>16, <1>17, <1>18, <1>19, <1>20
  DEF Next, CallStep, HandlerStep, LoginStep

\* A pair on its way becomes usable only when its one goroutine stores it.
LEMMA NextPrivate == TypeOK /\ Issued /\ Private /\ [Next]_vars => Private'
<1> SUFFICES ASSUME TypeOK, Issued, Private, [Next]_vars PROVE Private'
  OBVIOUS
<1> USE NameAssumption, BoundAssumption DEF Grant, NoGrant
<1>1. CASE Logout
  BY <1>1
  DEF Logout, UnderWay, Save, client, calls, logins, server, history, TypeOK, Issued,
      Private, InFlight
<1>2. CASE Restart
  <2>1. GiveUp(Caller)
    BY <1>2 DEF Restart
  <2>2. /\ spent \subseteq spent' /\ spent' \subseteq Grant
        /\ orphaned \subseteq orphaned' /\ orphaned' \subseteq Grant
        /\ \A g \in spent' \ spent :
              g \in orphaned' /\ \E k \in Caller : pc[k] = "posted" /\ held[k] = g
        /\ \A k \in Caller : pc[k] = "ok" => held[k] \in orphaned'
    BY <2>1, GiveUpBounds
  <2> QED
    BY <1>2, <2>2
    DEF Restart, Hydrated, TypeOK, client, calls, logins, server, history, Private
<1>3. ASSUME NEW c \in Caller, FindExpired(c) PROVE Private'
  BY <1>3
  DEF FindExpired, client, calls, logins, server, history, TypeOK, Issued, Private, InFlight
<1>4. ASSUME NEW c \in Caller, PostRefresh(c) PROVE Private'
  BY <1>4
  DEF PostRefresh, InFlight, client, calls, logins, server, history, TypeOK, Issued, Private
<1>5. ASSUME NEW c \in Caller, NothingToRefresh(c) PROVE Private'
  BY <1>5
  DEF NothingToRefresh, client, calls, logins, server, history, TypeOK, Issued, Private,
      InFlight
<1>6. ASSUME NEW c \in Caller, ApplyRefresh(c) PROVE Private'
  BY <1>6
  DEF ApplyRefresh, NameAnswer, SignsIn, Save, Over, InFlight, Hydrated, client, calls,
      logins, server, history, TypeOK, Issued, Private
<1>7. ASSUME NEW c \in Caller, ApplyRefusal(c) PROVE Private'
  BY <1>7
  DEF ApplyRefusal, EndsWithout, Save, Over, InFlight, client, calls, logins, server,
      history, TypeOK, Issued, Private
<1>8. ASSUME NEW c \in Caller, LoseRefresh(c) PROVE Private'
  <2>1. GiveUp({c})
    BY <1>8 DEF LoseRefresh, EndsWithout
  <2>2. /\ spent \subseteq spent' /\ spent' \subseteq Grant
        /\ orphaned \subseteq orphaned' /\ orphaned' \subseteq Grant
        /\ \A g \in spent' \ spent :
              g \in orphaned' /\ \E k \in {c} : pc[k] = "posted" /\ held[k] = g
        /\ \A k \in {c} : pc[k] = "ok" => held[k] \in orphaned'
    BY <2>1, GiveUpBounds
  <2> QED
    BY <1>8, <2>2
    DEF LoseRefresh, EndsWithout, Over, InFlight, TypeOK, client, calls, logins, server,
        history, Private
<1>9. ASSUME NEW c \in Caller, Accept(c) PROVE Private'
  BY <1>9
  DEF Accept, client, calls, logins, server, history, TypeOK, Issued, Private, InFlight
<1>10. ASSUME NEW c \in Caller, RefuseSpent(c) PROVE Private'
  BY <1>10
  DEF RefuseSpent, client, calls, logins, server, history, TypeOK, Issued, Private, InFlight
<1>11. ASSUME NEW c \in Caller, ServerDown(c) PROVE Private'
  <2>1. GiveUp({c})
    BY <1>11 DEF ServerDown, EndsWithout
  <2>2. /\ spent \subseteq spent' /\ spent' \subseteq Grant
        /\ orphaned \subseteq orphaned' /\ orphaned' \subseteq Grant
        /\ \A g \in spent' \ spent :
              g \in orphaned' /\ \E k \in {c} : pc[k] = "posted" /\ held[k] = g
        /\ \A k \in {c} : pc[k] = "ok" => held[k] \in orphaned'
    BY <2>1, GiveUpBounds
  <2> QED
    BY <1>11, <2>2
    DEF ServerDown, InFlight, TypeOK, client, calls, logins, server, history, Private
<1>12. ASSUME NEW l \in Login, StartLogin(l) PROVE Private'
  BY <1>12
  DEF StartLogin, Excuse, client, calls, logins, server, history, TypeOK, Issued, Private,
      InFlight
<1>13. ASSUME NEW l \in Login, LoginReturns(l) PROVE Private'
  BY <1>13
  DEF LoginReturns, EndsWithout, client, calls, logins, server, history, TypeOK, Issued,
      Private, InFlight
<1>14. ASSUME NEW l \in Login, LoginGivesUp(l) PROVE Private'
  BY <1>14
  DEF LoginGivesUp, EndsWithout, client, calls, logins, server, history, TypeOK, Issued,
      Private, InFlight
<1>15. ASSUME NEW v \in Visit, FetchUserFails(v) PROVE Private'
  BY <1>15
  DEF FetchUserFails, EndsWithout, client, calls, logins, server, history, TypeOK, Issued,
      Private, InFlight
<1>16. ASSUME NEW v \in Visit, SetTokens(v) PROVE Private'
  BY <1>16
  DEF SetTokens, SignsIn, Save, Hydrated, client, calls, logins, server, history, TypeOK,
      Issued, Private, InFlight
<1>17. ASSUME NEW v \in Visit, Report(v) PROVE Private'
  BY <1>17
  DEF Report, client, calls, logins, server, history, TypeOK, Issued, Private, InFlight
<1>18. ASSUME NEW v \in Visit, NEW l \in Login, BrowserFails(v, l) PROVE Private'
  BY <1>18
  DEF BrowserFails, client, calls, logins, server, history, TypeOK, Issued, Private,
      InFlight
<1>19. ASSUME NEW v \in Visit, NEW l \in Login, NEW a \in Account, BrowserReturns(v, l, a)
       PROVE  Private'
  BY <1>19
  DEF BrowserReturns, Excuse, client, calls, logins, server, history, TypeOK, Issued,
      Private, InFlight
<1>20. CASE UNCHANGED vars
  BY <1>20
  DEF vars, client, calls, logins, server, history, TypeOK, Issued, Private, InFlight
<1> QED
  BY <1>1, <1>2, <1>3, <1>4, <1>5, <1>6, <1>7, <1>8, <1>9, <1>10, <1>11, <1>12, <1>13,
     <1>14, <1>15, <1>16, <1>17, <1>18, <1>19, <1>20
  DEF Next, CallStep, HandlerStep, LoginStep

\* Whoever stores a pair displays the user kept with it; the account of a pair
\* never changes.
LEMMA NextKept == TypeOK /\ Issued /\ Private /\ Kept /\ [Next]_vars => Kept'
<1> SUFFICES ASSUME TypeOK, Issued, Private, Kept, [Next]_vars
             PROVE Kept'
  OBVIOUS
<1> USE NameAssumption, BoundAssumption DEF Grant, NoGrant
<1>1. CASE Logout
  BY <1>1
  DEF Logout, UnderWay, Save, client, calls, logins, server, history, TypeOK, Issued,
      Private, Kept, Hydrated
<1>2. CASE Restart
  BY <1>2
  DEF Restart, GiveUp, Hydrated, client, calls, logins, server, history, TypeOK, Issued,
      Private, Kept
<1>3. ASSUME NEW c \in Caller, FindExpired(c) PROVE Kept'
  BY <1>3
  DEF FindExpired, client, calls, logins, server, history, TypeOK, Issued, Private,
      Kept, Hydrated
<1>4. ASSUME NEW c \in Caller, PostRefresh(c) PROVE Kept'
  BY <1>4
  DEF PostRefresh, InFlight, client, calls, logins, server, history, TypeOK, Issued,
      Private, Kept, Hydrated
<1>5. ASSUME NEW c \in Caller, NothingToRefresh(c) PROVE Kept'
  BY <1>5
  DEF NothingToRefresh, client, calls, logins, server, history, TypeOK, Issued, Private,
      Kept, Hydrated
<1>6. ASSUME NEW c \in Caller, ApplyRefresh(c) PROVE Kept'
  BY <1>6
  DEF ApplyRefresh, NameAnswer, SignsIn, Save, Over, InFlight, Hydrated, client, calls,
      logins, server, history, TypeOK, Issued, Private, Kept
<1>7. ASSUME NEW c \in Caller, ApplyRefusal(c) PROVE Kept'
  BY <1>7
  DEF ApplyRefusal, EndsWithout, Save, Over, InFlight, client, calls, logins, server,
      history, TypeOK, Issued, Private, Kept, Hydrated
<1>8. ASSUME NEW c \in Caller, LoseRefresh(c) PROVE Kept'
  BY <1>8
  DEF LoseRefresh, EndsWithout, Over, InFlight, GiveUp, client, calls, logins, server,
      history, TypeOK, Issued, Private, Kept, Hydrated
<1>9. ASSUME NEW c \in Caller, Accept(c) PROVE Kept'
  BY <1>9
  DEF Accept, client, calls, logins, server, history, TypeOK, Issued, Private, Kept,
      Hydrated
<1>10. ASSUME NEW c \in Caller, RefuseSpent(c) PROVE Kept'
  BY <1>10
  DEF RefuseSpent, client, calls, logins, server, history, TypeOK, Issued, Private,
      Kept, Hydrated
<1>11. ASSUME NEW c \in Caller, ServerDown(c) PROVE Kept'
  BY <1>11
  DEF ServerDown, client, calls, logins, server, history, TypeOK, Issued, Private,
      Kept, Hydrated
<1>12. ASSUME NEW l \in Login, StartLogin(l) PROVE Kept'
  BY <1>12
  DEF StartLogin, Excuse, client, calls, logins, server, history, TypeOK, Issued, Private,
      Kept, Hydrated
<1>13. ASSUME NEW l \in Login, LoginReturns(l) PROVE Kept'
  BY <1>13
  DEF LoginReturns, EndsWithout, client, calls, logins, server, history, TypeOK, Issued,
      Private, Kept, Hydrated
<1>14. ASSUME NEW l \in Login, LoginGivesUp(l) PROVE Kept'
  BY <1>14
  DEF LoginGivesUp, EndsWithout, client, calls, logins, server, history, TypeOK, Issued,
      Private, Kept, Hydrated
<1>15. ASSUME NEW v \in Visit, FetchUserFails(v) PROVE Kept'
  BY <1>15
  DEF FetchUserFails, EndsWithout, client, calls, logins, server, history, TypeOK, Issued,
      Private, Kept, Hydrated
<1>16. ASSUME NEW v \in Visit, SetTokens(v) PROVE Kept'
  BY <1>16
  DEF SetTokens, SignsIn, Save, Hydrated, client, calls, logins, server, history, TypeOK,
      Issued, Private, Kept
<1>17. ASSUME NEW v \in Visit, Report(v) PROVE Kept'
  BY <1>17
  DEF Report, client, calls, logins, server, history, TypeOK, Issued, Private, Kept,
      Hydrated
<1>18. ASSUME NEW v \in Visit, NEW l \in Login, BrowserFails(v, l)
       PROVE Kept'
  BY <1>18
  DEF BrowserFails, client, calls, logins, server, history, TypeOK, Issued, Private,
      Kept, Hydrated
<1>19. ASSUME NEW v \in Visit, NEW l \in Login, NEW a \in Account, BrowserReturns(v, l, a)
       PROVE Kept'
  BY <1>19
  DEF BrowserReturns, Excuse, client, calls, logins, server, history, TypeOK, Issued,
      Private, Kept, Hydrated
<1>20. CASE UNCHANGED vars
  BY <1>20
  DEF vars, client, calls, logins, server, history, TypeOK, Issued, Private, Kept,
      Hydrated
<1> QED
  BY <1>1, <1>2, <1>3, <1>4, <1>5, <1>6, <1>7, <1>8, <1>9, <1>10, <1>11, <1>12, <1>13,
     <1>14, <1>15, <1>16, <1>17, <1>18, <1>19, <1>20
  DEF Next, CallStep, HandlerStep, LoginStep

\* What is stored was private, hence not used yet; a token in use is used up by a
\* caller that will answer, or is orphaned.
LEMMA NextUsable == TypeOK /\ Private /\ TokensAreUsable /\ [Next]_vars => TokensAreUsable'
<1> SUFFICES ASSUME TypeOK, Private, TokensAreUsable, [Next]_vars PROVE TokensAreUsable'
  OBVIOUS
<1> USE NameAssumption, BoundAssumption DEF Grant, NoGrant
<1>1. CASE Logout
  BY <1>1
  DEF Logout, UnderWay, Save, client, calls, logins, server, history, TypeOK, Private,
      TokensAreUsable, AnswerComing
<1>2. CASE Restart
  <2>1. GiveUp(Caller)
    BY <1>2 DEF Restart
  <2>2. /\ spent \subseteq spent' /\ spent' \subseteq Grant
        /\ orphaned \subseteq orphaned' /\ orphaned' \subseteq Grant
        /\ \A g \in spent' \ spent :
              g \in orphaned' /\ \E k \in Caller : pc[k] = "posted" /\ held[k] = g
        /\ \A k \in Caller : pc[k] = "ok" => held[k] \in orphaned'
    BY <2>1, GiveUpBounds
  <2> QED
    BY <1>2, <2>2
    DEF Restart, Hydrated, TypeOK, client, calls, logins, server, history, TokensAreUsable,
        AnswerComing
<1>3. ASSUME NEW c \in Caller, FindExpired(c) PROVE TokensAreUsable'
  BY <1>3
  DEF FindExpired, client, calls, logins, server, history, TypeOK, Private, TokensAreUsable,
      AnswerComing
<1>4. ASSUME NEW c \in Caller, PostRefresh(c) PROVE TokensAreUsable'
  BY <1>4
  DEF PostRefresh, InFlight, client, calls, logins, server, history, TypeOK, Private,
      TokensAreUsable, AnswerComing
<1>5. ASSUME NEW c \in Caller, NothingToRefresh(c) PROVE TokensAreUsable'
  BY <1>5
  DEF NothingToRefresh, client, calls, logins, server, history, TypeOK, Private,
      TokensAreUsable, AnswerComing
<1>6. ASSUME NEW c \in Caller, ApplyRefresh(c) PROVE TokensAreUsable'
  BY <1>6
  DEF ApplyRefresh, NameAnswer, SignsIn, Save, Over, InFlight, Hydrated, client, calls,
      logins, server, history, TypeOK, Private, TokensAreUsable, AnswerComing
<1>7. ASSUME NEW c \in Caller, ApplyRefusal(c) PROVE TokensAreUsable'
  BY <1>7
  DEF ApplyRefusal, EndsWithout, Save, Over, InFlight, client, calls, logins, server,
      history, TypeOK, Private, TokensAreUsable, AnswerComing
<1>8. ASSUME NEW c \in Caller, LoseRefresh(c) PROVE TokensAreUsable'
  <2>1. GiveUp({c})
    BY <1>8 DEF LoseRefresh, EndsWithout
  <2>2. /\ spent \subseteq spent' /\ spent' \subseteq Grant
        /\ orphaned \subseteq orphaned' /\ orphaned' \subseteq Grant
        /\ \A g \in spent' \ spent :
              g \in orphaned' /\ \E k \in {c} : pc[k] = "posted" /\ held[k] = g
        /\ \A k \in {c} : pc[k] = "ok" => held[k] \in orphaned'
    BY <2>1, GiveUpBounds
  <2> QED
    BY <1>8, <2>2
    DEF LoseRefresh, EndsWithout, Over, InFlight, TypeOK, client, calls, logins, server,
        history, TokensAreUsable, AnswerComing
<1>9. ASSUME NEW c \in Caller, Accept(c) PROVE TokensAreUsable'
  BY <1>9
  DEF Accept, client, calls, logins, server, history, TypeOK, Private, TokensAreUsable,
      AnswerComing
<1>10. ASSUME NEW c \in Caller, RefuseSpent(c) PROVE TokensAreUsable'
  BY <1>10
  DEF RefuseSpent, client, calls, logins, server, history, TypeOK, Private, TokensAreUsable,
      AnswerComing
<1>11. ASSUME NEW c \in Caller, ServerDown(c) PROVE TokensAreUsable'
  <2>1. GiveUp({c})
    BY <1>11 DEF ServerDown, EndsWithout
  <2>2. /\ spent \subseteq spent' /\ spent' \subseteq Grant
        /\ orphaned \subseteq orphaned' /\ orphaned' \subseteq Grant
        /\ \A g \in spent' \ spent :
              g \in orphaned' /\ \E k \in {c} : pc[k] = "posted" /\ held[k] = g
        /\ \A k \in {c} : pc[k] = "ok" => held[k] \in orphaned'
    BY <2>1, GiveUpBounds
  <2> QED
    BY <1>11, <2>2
    DEF ServerDown, InFlight, TypeOK, client, calls, logins, server, history,
        TokensAreUsable, AnswerComing
<1>12. ASSUME NEW l \in Login, StartLogin(l) PROVE TokensAreUsable'
  BY <1>12
  DEF StartLogin, Excuse, client, calls, logins, server, history, TypeOK, Private,
      TokensAreUsable, AnswerComing
<1>13. ASSUME NEW l \in Login, LoginReturns(l) PROVE TokensAreUsable'
  BY <1>13
  DEF LoginReturns, EndsWithout, client, calls, logins, server, history, TypeOK, Private,
      TokensAreUsable, AnswerComing
<1>14. ASSUME NEW l \in Login, LoginGivesUp(l) PROVE TokensAreUsable'
  BY <1>14
  DEF LoginGivesUp, EndsWithout, client, calls, logins, server, history, TypeOK, Private,
      TokensAreUsable, AnswerComing
<1>15. ASSUME NEW v \in Visit, FetchUserFails(v) PROVE TokensAreUsable'
  BY <1>15
  DEF FetchUserFails, EndsWithout, client, calls, logins, server, history, TypeOK, Private,
      TokensAreUsable, AnswerComing
<1>16. ASSUME NEW v \in Visit, SetTokens(v) PROVE TokensAreUsable'
  BY <1>16
  DEF SetTokens, SignsIn, Save, Hydrated, client, calls, logins, server, history, TypeOK,
      Private, TokensAreUsable, AnswerComing
<1>17. ASSUME NEW v \in Visit, Report(v) PROVE TokensAreUsable'
  BY <1>17
  DEF Report, client, calls, logins, server, history, TypeOK, Private, TokensAreUsable,
      AnswerComing
<1>18. ASSUME NEW v \in Visit, NEW l \in Login, BrowserFails(v, l)
       PROVE  TokensAreUsable'
  BY <1>18
  DEF BrowserFails, client, calls, logins, server, history, TypeOK, Private,
      TokensAreUsable, AnswerComing
<1>19. ASSUME NEW v \in Visit, NEW l \in Login, NEW a \in Account, BrowserReturns(v, l, a)
       PROVE  TokensAreUsable'
  BY <1>19
  DEF BrowserReturns, Excuse, client, calls, logins, server, history, TypeOK, Private,
      TokensAreUsable, AnswerComing
<1>20. CASE UNCHANGED vars
  BY <1>20
  DEF vars, client, calls, logins, server, history, TypeOK, Private, TokensAreUsable,
      AnswerComing
<1> QED
  BY <1>1, <1>2, <1>3, <1>4, <1>5, <1>6, <1>7, <1>8, <1>9, <1>10, <1>11, <1>12, <1>13,
     <1>14, <1>15, <1>16, <1>17, <1>18, <1>19, <1>20
  DEF Next, CallStep, HandlerStep, LoginStep

\* A call that reads a used token finds the call that used it, or an orphan.
LEMMA NextReason == TypeOK /\ TokensAreUsable /\ Reason /\ [Next]_vars => Reason'
<1> SUFFICES ASSUME TypeOK, TokensAreUsable, Reason, [Next]_vars PROVE Reason'
  OBVIOUS
<1> USE NameAssumption, BoundAssumption DEF Grant, NoGrant
<1>1. CASE Logout
  BY <1>1
  DEF Logout, UnderWay, Save, client, calls, logins, server, history, TypeOK,
      TokensAreUsable, AnswerComing, Reason, RefusedForAReason, InFlight
<1>2. CASE Restart
  <2>1. GiveUp(Caller)
    BY <1>2 DEF Restart
  <2>2. /\ spent \subseteq spent' /\ spent' \subseteq Grant
        /\ orphaned \subseteq orphaned' /\ orphaned' \subseteq Grant
        /\ \A g \in spent' \ spent :
              g \in orphaned' /\ \E k \in Caller : pc[k] = "posted" /\ held[k] = g
        /\ \A k \in Caller : pc[k] = "ok" => held[k] \in orphaned'
    BY <2>1, GiveUpBounds
  <2> QED
    BY <1>2, <2>2
    DEF Restart, Hydrated, TypeOK, client, calls, logins, server, history, Reason,
        RefusedForAReason, InFlight
<1>3. ASSUME NEW c \in Caller, FindExpired(c) PROVE Reason'
  BY <1>3
  DEF FindExpired, client, calls, logins, server, history, TypeOK, TokensAreUsable,
      AnswerComing, Reason, RefusedForAReason, InFlight
<1>4. ASSUME NEW c \in Caller, PostRefresh(c) PROVE Reason'
  BY <1>4
  DEF PostRefresh, InFlight, client, calls, logins, server, history, TypeOK,
      TokensAreUsable, AnswerComing, Reason, RefusedForAReason
<1>5. ASSUME NEW c \in Caller, NothingToRefresh(c) PROVE Reason'
  BY <1>5
  DEF NothingToRefresh, client, calls, logins, server, history, TypeOK, TokensAreUsable,
      AnswerComing, Reason, RefusedForAReason, InFlight
<1>6. ASSUME NEW c \in Caller, ApplyRefresh(c) PROVE Reason'
  BY <1>6
  DEF ApplyRefresh, NameAnswer, SignsIn, Save, Over, InFlight, Hydrated, client, calls,
      logins, server, history, TypeOK, TokensAreUsable, AnswerComing, Reason,
      RefusedForAReason
<1>7. ASSUME NEW c \in Caller, ApplyRefusal(c) PROVE Reason'
  BY <1>7
  DEF ApplyRefusal, EndsWithout, Save, Over, InFlight, client, calls, logins, server,
      history, TypeOK, TokensAreUsable, AnswerComing, Reason, RefusedForAReason
<1>8. ASSUME NEW c \in Caller, LoseRefresh(c) PROVE Reason'
  <2>1. GiveUp({c})
    BY <1>8 DEF LoseRefresh, EndsWithout
  <2>2. /\ spent \subseteq spent' /\ spent' \subseteq Grant
        /\ orphaned \subseteq orphaned' /\ orphaned' \subseteq Grant
        /\ \A g \in spent' \ spent :
              g \in orphaned' /\ \E k \in {c} : pc[k] = "posted" /\ held[k] = g
        /\ \A k \in {c} : pc[k] = "ok" => held[k] \in orphaned'
    BY <2>1, GiveUpBounds
  <2> QED
    BY <1>8, <2>2
    DEF LoseRefresh, EndsWithout, Over, InFlight, TypeOK, client, calls, logins, server,
        history, Reason, RefusedForAReason
<1>9. ASSUME NEW c \in Caller, Accept(c) PROVE Reason'
  BY <1>9
  DEF Accept, client, calls, logins, server, history, TypeOK, TokensAreUsable, AnswerComing,
      Reason, RefusedForAReason, InFlight
<1>10. ASSUME NEW c \in Caller, RefuseSpent(c) PROVE Reason'
  BY <1>10
  DEF RefuseSpent, client, calls, logins, server, history, TypeOK, TokensAreUsable,
      AnswerComing, Reason, RefusedForAReason, InFlight
<1>11. ASSUME NEW c \in Caller, ServerDown(c) PROVE Reason'
  <2>1. GiveUp({c})
    BY <1>11 DEF ServerDown, EndsWithout
  <2>2. /\ spent \subseteq spent' /\ spent' \subseteq Grant
        /\ orphaned \subseteq orphaned' /\ orphaned' \subseteq Grant
        /\ \A g \in spent' \ spent :
              g \in orphaned' /\ \E k \in {c} : pc[k] = "posted" /\ held[k] = g
        /\ \A k \in {c} : pc[k] = "ok" => held[k] \in orphaned'
    BY <2>1, GiveUpBounds
  <2> QED
    BY <1>11, <2>2
    DEF ServerDown, InFlight, TypeOK, client, calls, logins, server, history, Reason,
        RefusedForAReason
<1>12. ASSUME NEW l \in Login, StartLogin(l) PROVE Reason'
  BY <1>12
  DEF StartLogin, Excuse, client, calls, logins, server, history, TypeOK, TokensAreUsable,
      AnswerComing, Reason, RefusedForAReason, InFlight
<1>13. ASSUME NEW l \in Login, LoginReturns(l) PROVE Reason'
  BY <1>13
  DEF LoginReturns, EndsWithout, client, calls, logins, server, history, TypeOK,
      TokensAreUsable, AnswerComing, Reason, RefusedForAReason, InFlight
<1>14. ASSUME NEW l \in Login, LoginGivesUp(l) PROVE Reason'
  BY <1>14
  DEF LoginGivesUp, EndsWithout, client, calls, logins, server, history, TypeOK,
      TokensAreUsable, AnswerComing, Reason, RefusedForAReason, InFlight
<1>15. ASSUME NEW v \in Visit, FetchUserFails(v) PROVE Reason'
  BY <1>15
  DEF FetchUserFails, EndsWithout, client, calls, logins, server, history, TypeOK,
      TokensAreUsable, AnswerComing, Reason, RefusedForAReason, InFlight
<1>16. ASSUME NEW v \in Visit, SetTokens(v) PROVE Reason'
  BY <1>16
  DEF SetTokens, SignsIn, Save, Hydrated, client, calls, logins, server, history, TypeOK,
      TokensAreUsable, AnswerComing, Reason, RefusedForAReason, InFlight
<1>17. ASSUME NEW v \in Visit, Report(v) PROVE Reason'
  BY <1>17
  DEF Report, client, calls, logins, server, history, TypeOK, TokensAreUsable, AnswerComing,
      Reason, RefusedForAReason, InFlight
<1>18. ASSUME NEW v \in Visit, NEW l \in Login, BrowserFails(v, l) PROVE Reason'
  BY <1>18
  DEF BrowserFails, client, calls, logins, server, history, TypeOK, TokensAreUsable,
      AnswerComing, Reason, RefusedForAReason, InFlight
<1>19. ASSUME NEW v \in Visit, NEW l \in Login, NEW a \in Account, BrowserReturns(v, l, a)
       PROVE  Reason'
  BY <1>19
  DEF BrowserReturns, Excuse, client, calls, logins, server, history, TypeOK,
      TokensAreUsable, AnswerComing, Reason, RefusedForAReason, InFlight
<1>20. CASE UNCHANGED vars
  BY <1>20
  DEF vars, client, calls, logins, server, history, TypeOK, TokensAreUsable, AnswerComing,
      Reason, RefusedForAReason, InFlight
<1> QED
  BY <1>1, <1>2, <1>3, <1>4, <1>5, <1>6, <1>7, <1>8, <1>9, <1>10, <1>11, <1>12, <1>13,
     <1>14, <1>15, <1>16, <1>17, <1>18, <1>19, <1>20
  DEF Next, CallStep, HandlerStep, LoginStep

\* Nothing to read, nothing to send.
LEMMA NextLeft == TypeOK /\ Left /\ [Next]_vars => Left'
<1> SUFFICES ASSUME TypeOK, Left, [Next]_vars PROVE Left'
  OBVIOUS
<1> USE NameAssumption, BoundAssumption, KindAssumption DEF Grant, NoGrant
<1>1. CASE Logout
  BY <1>1
  DEF Logout, UnderWay, Save, client, calls, logins, server, history, TypeOK, Left,
      InFlight
<1>2. CASE Restart
  BY <1>2
  DEF Restart, GiveUp, Hydrated, client, calls, logins, server, history, TypeOK, Left,
      InFlight
<1>3. ASSUME NEW c \in Caller, FindExpired(c) PROVE Left'
  BY <1>3 DEF FindExpired, client, calls, logins, server, history, TypeOK, Left, InFlight
<1>4. ASSUME NEW c \in Caller, PostRefresh(c) PROVE Left'
  BY <1>4 DEF PostRefresh, InFlight, client, calls, logins, server, history, TypeOK, Left
<1>5. ASSUME NEW c \in Caller, NothingToRefresh(c) PROVE Left'
  BY <1>5
  DEF NothingToRefresh, client, calls, logins, server, history, TypeOK, Left, InFlight
<1>6. ASSUME NEW c \in Caller, ApplyRefresh(c) PROVE Left'
  BY <1>6
  DEF ApplyRefresh, NameAnswer, SignsIn, Save, Over, InFlight, Hydrated, client, calls,
      logins, server, history, TypeOK, Left
<1>7. ASSUME NEW c \in Caller, ApplyRefusal(c) PROVE Left'
  BY <1>7
  DEF ApplyRefusal, EndsWithout, Save, Over, InFlight, client, calls, logins, server,
      history, TypeOK, Left
<1>8. ASSUME NEW c \in Caller, LoseRefresh(c) PROVE Left'
  BY <1>8
  DEF LoseRefresh, EndsWithout, Over, InFlight, GiveUp, client, calls, logins, server,
      history, TypeOK, Left
<1>9. ASSUME NEW c \in Caller, Accept(c) PROVE Left'
  BY <1>9 DEF Accept, client, calls, logins, server, history, TypeOK, Left, InFlight
<1>10. ASSUME NEW c \in Caller, RefuseSpent(c) PROVE Left'
  BY <1>10 DEF RefuseSpent, client, calls, logins, server, history, TypeOK, Left, InFlight
<1>11. ASSUME NEW c \in Caller, ServerDown(c) PROVE Left'
  BY <1>11 DEF ServerDown, client, calls, logins, server, history, TypeOK, Left, InFlight
<1>12. ASSUME NEW l \in Login, StartLogin(l) PROVE Left'
  BY <1>12
  DEF StartLogin, Excuse, client, calls, logins, server, history, TypeOK, Left, InFlight
<1>13. ASSUME NEW l \in Login, LoginReturns(l) PROVE Left'
  BY <1>13
  DEF LoginReturns, EndsWithout, client, calls, logins, server, history, TypeOK, Left,
      InFlight
<1>14. ASSUME NEW l \in Login, LoginGivesUp(l) PROVE Left'
  BY <1>14
  DEF LoginGivesUp, EndsWithout, client, calls, logins, server, history, TypeOK, Left,
      InFlight
<1>15. ASSUME NEW v \in Visit, FetchUserFails(v) PROVE Left'
  BY <1>15
  DEF FetchUserFails, EndsWithout, client, calls, logins, server, history, TypeOK, Left,
      InFlight
<1>16. ASSUME NEW v \in Visit, SetTokens(v) PROVE Left'
  BY <1>16
  DEF SetTokens, SignsIn, Save, Hydrated, client, calls, logins, server, history, TypeOK,
      Left, InFlight
<1>17. ASSUME NEW v \in Visit, Report(v) PROVE Left'
  BY <1>17 DEF Report, client, calls, logins, server, history, TypeOK, Left, InFlight
<1>18. ASSUME NEW v \in Visit, NEW l \in Login, BrowserFails(v, l) PROVE Left'
  BY <1>18 DEF BrowserFails, client, calls, logins, server, history, TypeOK, Left, InFlight
<1>19. ASSUME NEW v \in Visit, NEW l \in Login, NEW a \in Account, BrowserReturns(v, l, a)
       PROVE  Left'
  BY <1>19
  DEF BrowserReturns, Excuse, client, calls, logins, server, history, TypeOK, Left,
      InFlight
<1>20. CASE UNCHANGED vars
  BY <1>20 DEF vars, client, calls, logins, server, history, TypeOK, Left, InFlight
<1> QED
  BY <1>1, <1>2, <1>3, <1>4, <1>5, <1>6, <1>7, <1>8, <1>9, <1>10, <1>11, <1>12, <1>13,
     <1>14, <1>15, <1>16, <1>17, <1>18, <1>19, <1>20
  DEF Next, CallStep, HandlerStep, LoginStep

------------------------------------------------------------------------------
\* The inductive invariant.
Inv ==
    /\ TypeOK /\ Issued /\ Private
    /\ Kept /\ TokensAreUsable /\ Reason /\ Left

\* It holds before anything happened.
LEMMA InitInv == Init => Inv
<1> SUFFICES ASSUME Init PROVE Inv
  OBVIOUS
<1> USE NameAssumption, BoundAssumption DEF Grant, NoGrant
<1>1. TypeOK
  <2>1. \A c \in Caller : ~InFlight(c) /\ pc[c] # "ok"
    BY DEF Init, InFlight
  <2>2. owner \in [Grant -> Account \cup {NoAccount}] /\ issued \in 0..MaxGrants
    BY DEF Init
  <2> QED
    BY <2>1, <2>2 DEF Init, TypeOK
<1>2. Issued /\ Private
  BY DEF Init, Issued, Private
<1>3. Kept /\ TokensAreUsable
  BY DEF Init, Kept, TokensAreUsable
<1>4. Reason /\ Left
  BY DEF Init, Reason, RefusedForAReason, Left, InFlight
<1> QED
  BY <1>1, <1>2, <1>3, <1>4 DEF Inv

\* Every step keeps it.
LEMMA NextInv == Inv /\ [Next]_vars => Inv'
BY NextType, NextIssued, NextPrivate, NextKept, NextUsable, NextReason, NextLeft
DEF Inv

\* It holds always.
THEOREM Invariant == Spec => []Inv
BY InitInv, NextInv, PTL DEF Spec

\* Every reachable state of the login is well typed; no empty refresh token is
\* ever sent (cloud.go:225).
THEOREM TypeCorrect == Spec => []TypeOK
<1>1. Inv => TypeOK
  BY DEF Inv
<1> QED
  BY <1>1, Invariant, PTL

\* The account on display is that of the tokens in use, whatever logins, refreshes
\* and Logouts interleave and whatever is lost, but for an answer without a user
\* that replaced other tokens than those it refreshed, and the answers without a
\* user to its refreshes (cloud.go:261-273).
THEOREM DisplayIsTrue == Spec => []IdentityMatchesTokens
<1>1. Inv => IdentityMatchesTokens
  <2> SUFFICES ASSUME Inv, tokens # NoGrant PROVE identity = owner[tokens] \/ tokens \in misnamed
    BY DEF IdentityMatchesTokens
  <2>1. tokens \in 1..issued
    BY DEF Inv, TypeOK, Issued, NoGrant
  <2> QED
    BY <2>1 DEF Inv, Kept
<1> QED
  BY <1>1, Invariant, PTL

\* The tokens in memory and in the file can be refreshed, unless an answer was
\* lost.
THEOREM Usable == Spec => []TokensAreUsable
<1>1. Inv => TokensAreUsable
  BY DEF Inv
<1> QED
  BY <1>1, Invariant, PTL

\* Only two concurrent refreshes, or a lost answer, make the server refuse a
\* token as used.
THEOREM Refusals == Spec => []RefusedForAReason
<1>1. Inv => RefusedForAReason
  BY DEF Inv, Reason
<1> QED
  BY <1>1, Invariant, PTL

\* A Logout that reached the disk lasts until a login begun after it brings tokens,
\* or a refresh, a login or a handler that was under way when the user logged out:
\* no other caller, handler, visit or restart does (auth.go:73-79, cloud.go:221-273).
THEOREM LogoutLasts == Spec => []LoggedOutStays
<1>1. Inv => LoggedOutStays
  BY DEF Inv, Left, LoggedOutStays
<1> QED
  BY <1>1, Invariant, PTL

------------------------------------------------------------------------------
\* A result waits in the channel of a login only if a handler reported to it:
\* a login that starts again starts with a channel that is empty.
FullWasReported == \A l \in Login : buffer[l] = "full" => l \in reported

\* The first handler of a login to report finds room in the channel, whether or
\* not LoginWithDiscord still waits: the guard of its send holds.
FirstFindsRoom ==
    \A v \in Visit :
        visit[v] = "send" /\ site[v] \notin reported => buffer[site[v]] = "empty"

\* Only a report fills a channel, and only a new channel forgets a report.
LEMMA NextReported == TypeOK /\ FullWasReported /\ [Next]_vars => FullWasReported'
<1> SUFFICES ASSUME TypeOK, FullWasReported, [Next]_vars PROVE FullWasReported'
  OBVIOUS
<1>1. ASSUME NEW l \in Login, LoginStep(l) PROVE FullWasReported'
  BY <1>1
  DEF LoginStep, StartLogin, LoginReturns, LoginGivesUp, TypeOK, FullWasReported
<1>2. ASSUME NEW v \in Visit, Report(v) PROVE FullWasReported'
  BY <1>2 DEF Report, TypeOK, FullWasReported
<1>3. CASE Restart
  BY <1>3 DEF Restart, FullWasReported
<1>4. CASE UNCHANGED <<buffer, reported>>
  BY <1>4 DEF FullWasReported
<1>5. Logout => UNCHANGED <<buffer, reported>>
  BY DEF Logout, UnderWay, logins
<1>6. ASSUME NEW c \in Caller, CallStep(c) PROVE UNCHANGED <<buffer, reported>>
  BY <1>6
  DEF CallStep, FindExpired, PostRefresh, NothingToRefresh, ApplyRefresh,
      ApplyRefusal, LoseRefresh, Accept, RefuseSpent, ServerDown, logins
<1>7. ASSUME NEW v \in Visit, FetchUserFails(v) \/ SetTokens(v)
      PROVE  UNCHANGED <<buffer, reported>>
  BY <1>7 DEF FetchUserFails, EndsWithout, SetTokens
<1>8. ASSUME NEW v \in Visit, NEW l \in Login, NEW a \in Account,
             BrowserReturns(v, l, a)
      PROVE  UNCHANGED <<buffer, reported>>
  BY <1>8 DEF BrowserReturns, Excuse
<1>9. ASSUME NEW v \in Visit, NEW l \in Login, BrowserFails(v, l)
      PROVE  UNCHANGED <<buffer, reported>>
  BY <1>9 DEF BrowserFails
<1>10. UNCHANGED vars => UNCHANGED <<buffer, reported>>
  BY DEF vars, logins
<1> QED
  BY <1>1, <1>2, <1>3, <1>4, <1>5, <1>6, <1>7, <1>8, <1>9, <1>10 DEF Next, HandlerStep

\* However many handlers a login has, and whether it has given up or not, the
\* first one's send to resultCh never waits (auth.go:33, 81): this is the guard
\* of Report, which FirstReportNeverBlocks asks for with ENABLED.
THEOREM FirstReportFindsRoom == Spec => []FirstFindsRoom
<1>1. Init => FullWasReported
  BY DEF Init, FullWasReported
<1>2. TypeOK /\ FullWasReported => FirstFindsRoom
  BY DEF TypeOK, FullWasReported, FirstFindsRoom
<1> QED
  BY <1>1, <1>2, NextReported, TypeCorrect, PTL DEF Spec
=============================================================================
