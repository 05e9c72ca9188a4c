------------------------------ MODULE CloudAuth ------------------------------
(***************************************************************************)
(* The desktop's login (desktop/cloud/cloud.go, auth.go): the tokens in    *)
(* memory and in session.json, the goroutines that find them expired and   *)
(* refresh them, Logout, and the browser logins that bring new ones.       *)
(*                                                                         *)
(* The server accepts a refresh token once and issues a new pair for it.   *)
(* A pair is its number, a grant, and belongs to one account.  Whether the *)
(* tokens have expired is time's business: a call may find so at any look. *)
(* The REST request a call makes afterwards changes nothing here.          *)
(***************************************************************************)
EXTENDS Naturals, FiniteSets

CONSTANTS
    Account,
    NoAccount,
    Caller,     \* goroutines inside AccessToken
    Login,      \* calls of LoginWithDiscord, each with its loopback listener
    Visit,      \* browser requests for /token, each a handler goroutine
    MaxGrants   \* bound on pairs of tokens issued

ASSUME NameAssumption == NoAccount \notin Account
ASSUME BoundAssumption == MaxGrants \in Nat
ASSUME KindAssumption == Caller \cap Login = {} /\ Caller \cap Visit = {} /\ Login \cap Visit = {}

Grant == 1..MaxGrants
NoGrant == 0

VARIABLES
    tokens,    \* c.tokens
    identity,  \* c.identity: the account on display
    file,      \* session.json
    pc,        \* where each caller stands
    held,      \* the refresh token it sent
    answer,    \* the pair it was sent in reply
    login,     \* whether LoginWithDiscord waits
    buffer,    \* its resultCh, of capacity one
    reported,  \* history: logins some handler has reported to
    visit,     \* where each handler stands
    site,      \* whose handler it is
    brought,   \* the pair the browser brought
    issued,    \* server: pairs issued
    user,      \* the user the client keeps with each pair
    owner,     \* server: their accounts
    spent,     \* server: refresh tokens used
    orphaned,  \* history: spent, and the answer or its save was lost
    shared,    \* history: two calls held it at once
    misnamed,  \* history: pairs that took the user of other tokens
    left,      \* history: the user logged out and nobody has signed in since
    excused    \* history: refreshes, logins and handlers that may sign in again

client == <<tokens, identity, file>>
calls == <<pc, held, answer>>
logins == <<login, buffer, reported, visit, site, brought>>
server == <<issued, owner, spent>>
history == <<orphaned, shared, misnamed, left, excused>>
vars == <<client, user, calls, logins, server, history>>

\* Sent and not answered, answered, or given up by the server.
InFlight(c) == pc[c] \in {"posted", "ok", "refused", "down"}

TypeOK ==
    /\ tokens \in Grant \cup {NoGrant}
    /\ identity \in Account \cup {NoAccount}
    /\ file \in Grant \cup {NoGrant}
    /\ pc \in [Caller -> {"idle", "refresh", "posted", "ok", "refused", "down"}]
    /\ held \in [Caller -> Grant \cup {NoGrant}]
    /\ \A c \in Caller : InFlight(c) => held[c] # NoGrant
    /\ answer \in [Caller -> Grant \cup {NoGrant}]
    /\ \A c \in Caller : pc[c] = "ok" => answer[c] # NoGrant
    /\ login \in [Login -> {"idle", "waiting"}]
    /\ buffer \in [Login -> {"empty", "full"}]
    /\ reported \subseteq Login
    /\ visit \in [Visit -> {"off", "fetch", "send"}]
    /\ site \in [Visit -> Login]
    /\ brought \in [Visit -> Grant \cup {NoGrant}]
    /\ \A v \in Visit : visit[v] = "fetch" => brought[v] # NoGrant
    /\ issued \in 0..MaxGrants
    /\ user \in [Grant -> Account \cup {NoAccount}]
    /\ owner \in [Grant -> Account \cup {NoAccount}]
    /\ spent \subseteq Grant
    /\ orphaned \subseteq Grant
    /\ shared \subseteq Grant
    /\ misnamed \subseteq Grant
    /\ left \in BOOLEAN
    /\ excused \subseteq Caller \cup Login \cup Visit

Init ==
    /\ tokens = NoGrant
    /\ identity = NoAccount
    /\ file = NoGrant
    /\ pc = [c \in Caller |-> "idle"]
    /\ held = [c \in Caller |-> NoGrant]
    /\ answer = [c \in Caller |-> NoGrant]
    /\ login = [l \in Login |-> "idle"]
    /\ buffer = [l \in Login |-> "empty"]
    /\ reported = {}
    /\ visit = [v \in Visit |-> "off"]
    /\ site \in [Visit -> Login]
    /\ brought = [v \in Visit |-> NoGrant]
    /\ issued = 0
    /\ user = [g \in Grant |-> NoAccount]
    /\ owner = [g \in Grant |-> NoAccount]
    /\ spent = {}
    /\ orphaned = {}
    /\ shared = {}
    /\ misnamed = {}
    /\ left = FALSE
    /\ excused = {}

------------------------------------------------------------------------------
\* The client.

\* hydrateUserLocked, for the user kept with a pair: nobody without one.
Hydrated(g) == IF g = NoGrant THEN NoAccount ELSE user[g]

\* saveLocked ignores its errors, and WriteFile truncates before it writes.
Save(g) == file' \in {g, file, NoGrant}

\* AccessToken with tokens that have expired.  Without tokens it is an error,
\* and tokens that are good are used.
FindExpired(c) ==
    /\ pc[c] = "idle"
    /\ tokens # NoGrant
    /\ pc' = [pc EXCEPT ![c] = "refresh"]
    /\ UNCHANGED <<client, user, held, answer, logins, server, history>>

\* Mutated: an empty token is sent like any other.
PostAnyRefresh(c) ==
    /\ pc[c] = "refresh"
    /\ pc' = [pc EXCEPT ![c] = "posted"]
    /\ held' = [held EXCEPT ![c] = tokens]
    /\ shared' = IF \E k \in Caller : InFlight(k) /\ held[k] = tokens
                 THEN shared \cup {tokens} ELSE shared
    /\ UNCHANGED <<client, user, answer, logins, server, orphaned, misnamed, left, excused>>

\* refresh: the token is read in a section of its own, and sent.
PostRefresh(c) ==
    /\ pc[c] = "refresh"
    /\ tokens # NoGrant
    /\ pc' = [pc EXCEPT ![c] = "posted"]
    /\ held' = [held EXCEPT ![c] = tokens]
    /\ shared' = IF \E k \in Caller : InFlight(k) /\ held[k] = tokens
                 THEN shared \cup {tokens} ELSE shared
    /\ UNCHANGED <<client, user, answer, logins, server, orphaned, misnamed, left, excused>>

\* There are no tokens any more, or the pair came without a refresh token.
NothingToRefresh(c) ==
    /\ pc[c] = "refresh"
    /\ pc' = [pc EXCEPT ![c] = "idle"]
    /\ UNCHANGED <<client, user, held, answer, logins, server, history>>

\* Caller c is done with its refresh.
Over(c) ==
    /\ pc' = [pc EXCEPT ![c] = "idle"]
    /\ held' = [held EXCEPT ![c] = NoGrant]
    /\ answer' = [answer EXCEPT ![c] = NoGrant]

\* After a Logout: x may sign the user in again, x ends without, and x does.
Excuse(x) == excused' = IF left THEN excused \cup {x} ELSE excused
EndsWithout(x) == excused' = excused \ {x}
SignsIn(x) ==
    /\ left' = (left /\ x \notin excused)
    /\ excused' = IF left' THEN excused \ {x} ELSE {}

\* The answer carries a user or leaves the one that is kept: that of whatever
\* the tokens are by now, nobody without any.
NameAnswer(c) ==
    \/ UNCHANGED <<user, misnamed>>
    \/ /\ user' = [user EXCEPT ![answer[c]] = Hydrated(tokens)]
       /\ misnamed' = IF tokens # held[c] \/ held[c] \in misnamed
                      THEN misnamed \cup {answer[c]} ELSE misnamed

\* Mutated: nothing is saved.
ApplyRefreshUnsaved(c) ==
    /\ pc[c] = "ok"
    /\ tokens' = answer[c]
    /\ NameAnswer(c)
    /\ identity' = user'[answer[c]]
    /\ SignsIn(c)
    /\ Over(c)
    /\ UNCHANGED <<file, logins, server, orphaned, shared>>

\* Mutated: the name on display is not refreshed.
ApplyRefreshUnnamed(c) ==
    /\ pc[c] = "ok"
    /\ tokens' = answer[c]
    /\ NameAnswer(c)
    /\ Save(answer[c])
    /\ orphaned' = orphaned \cup ({file'} \cap spent)
    /\ SignsIn(c)
    /\ Over(c)
    /\ UNCHANGED <<identity, logins, server, shared>>

\* The answer replaces whatever the tokens are by now.
ApplyRefresh(c) ==
    /\ pc[c] = "ok"
    /\ tokens' = answer[c]
    /\ NameAnswer(c)
    /\ identity' = user'[answer[c]]
    /\ Save(answer[c])
    /\ orphaned' = orphaned \cup ({file'} \cap spent)
    /\ SignsIn(c)
    /\ Over(c)
    /\ UNCHANGED <<logins, server, shared>>

\* Any status but 200 wipes whatever the tokens are by now, not the name on
\* display.
ApplyRefusal(c) ==
    /\ pc[c] \in {"refused", "down"}
    /\ tokens' = NoGrant
    /\ Save(NoGrant)
    /\ Over(c)
    /\ EndsWithout(c)
    /\ UNCHANGED <<identity, user, logins, server, orphaned, shared, misnamed, left>>

\* Mutated: an answer that does not come is asked for again.
RetryLostRefresh(c) ==
    /\ pc[c] \in {"posted", "ok"}
    /\ pc' = [pc EXCEPT ![c] = "posted"]
    /\ UNCHANGED <<client, user, held, answer, logins, server, history>>

\* These callers wait no more.  A request that was not answered yet may still
\* reach the server, and the answer to one that did is lost.  It comes to the
\* same if it arrives later: nobody sees the server but by its answers.
GiveUp(callers) ==
    LET Held(where) == {held[c] : c \in {k \in callers : pc[k] = where}}
    IN  \E used \in SUBSET (Held("posted") \ spent) :
           /\ spent' = spent \cup used
           /\ orphaned' = orphaned \cup used \cup Held("ok")

\* The request or its answer is lost, timed out or garbled: the tokens stay.
LoseRefresh(c) ==
    /\ InFlight(c)
    /\ GiveUp({c})
    /\ Over(c)
    /\ EndsWithout(c)
    /\ UNCHANGED <<client, user, logins, issued, owner, shared, misnamed, left>>

\* What is under way: answers to come, listeners that wait, profiles to come.
UnderWay ==
    {c \in Caller : InFlight(c)} \cup {l \in Login : login[l] = "waiting"}
        \cup {v \in Visit : visit[v] = "fetch"}

\* The name on display stays.
Logout ==
    /\ tokens' = NoGrant
    /\ Save(NoGrant)
    /\ left' = (file' = NoGrant)
    /\ excused' = IF left' THEN UnderWay ELSE {}
    /\ UNCHANGED <<identity, user, calls, logins, server, orphaned, shared, misnamed>>

------------------------------------------------------------------------------
\* LoginWithDiscord and the handlers of its listener.

\* A free port, and the browser opens.  A name is used again once no handler of
\* it runs; the code makes a new listener and a new channel.
StartLogin(l) ==
    /\ login[l] = "idle"
    /\ \A v \in Visit : site[v] = l => visit[v] = "off"
    /\ login' = [login EXCEPT ![l] = "waiting"]
    /\ buffer' = [buffer EXCEPT ![l] = "empty"]
    /\ reported' = reported \ {l}
    /\ Excuse(l)
    /\ UNCHANGED <<client, user, calls, visit, site, brought, server, orphaned, shared,
                   misnamed, left>>

\* Mutated: the listener of a login that gave up is still there.
BrowserReturnsLate(v, l, a) ==
    /\ visit[v] = "off"
    /\ issued < MaxGrants
    /\ issued' = issued + 1
    /\ owner' = [owner EXCEPT ![issued + 1] = a]
    /\ user' = [user EXCEPT ![issued + 1] = a]
    /\ visit' = [visit EXCEPT ![v] = "fetch"]
    /\ site' = [site EXCEPT ![v] = l]
    /\ brought' = [brought EXCEPT ![v] = issued + 1]
    /\ IF l \in excused THEN Excuse(v) ELSE UNCHANGED excused
    /\ UNCHANGED <<client, calls, login, buffer, reported, spent, orphaned, shared,
                   misnamed, left>>

\* The browser comes back with a new pair of the account that signed in; the
\* handler asks for its profile, which names that account.
BrowserReturns(v, l, a) ==
    /\ visit[v] = "off"
    /\ login[l] = "waiting"
    /\ issued < MaxGrants
    /\ issued' = issued + 1
    /\ owner' = [owner EXCEPT ![issued + 1] = a]
    /\ user' = [user EXCEPT ![issued + 1] = a]
    /\ visit' = [visit EXCEPT ![v] = "fetch"]
    /\ site' = [site EXCEPT ![v] = l]
    /\ brought' = [brought EXCEPT ![v] = issued + 1]
    /\ IF l \in excused THEN Excuse(v) ELSE UNCHANGED excused
    /\ UNCHANGED <<client, calls, login, buffer, reported, spent, orphaned, shared,
                   misnamed, left>>

\* It comes back with an error, or without a token.
BrowserFails(v, l) ==
    /\ visit[v] = "off"
    /\ login[l] = "waiting"
    /\ visit' = [visit EXCEPT ![v] = "send"]
    /\ site' = [site EXCEPT ![v] = l]
    /\ UNCHANGED <<client, user, calls, login, buffer, reported, brought, server, history>>

FetchUserFails(v) ==
    /\ visit[v] = "fetch"
    /\ visit' = [visit EXCEPT ![v] = "send"]
    /\ brought' = [brought EXCEPT ![v] = NoGrant]
    /\ EndsWithout(v)
    /\ UNCHANGED <<client, user, calls, login, buffer, reported, site, server, orphaned,
                   shared, misnamed, left>>

\* fetchUser and SetTokens, whether LoginWithDiscord still waits or not.
SetTokens(v) ==
    /\ visit[v] = "fetch"
    /\ tokens' = brought[v]
    /\ identity' = Hydrated(brought[v])
    /\ Save(brought[v])
    /\ visit' = [visit EXCEPT ![v] = "send"]
    /\ brought' = [brought EXCEPT ![v] = NoGrant]
    /\ SignsIn(v)
    /\ UNCHANGED <<user, calls, login, buffer, reported, site, server, orphaned, shared,
                   misnamed>>

\* Mutated: the channel has no buffer.
ReportUnbuffered(v) ==
    /\ visit[v] = "send"
    /\ login[site[v]] = "waiting"
    /\ buffer[site[v]] = "empty"
    /\ buffer' = [buffer EXCEPT ![site[v]] = "full"]
    /\ reported' = reported \cup {site[v]}
    /\ visit' = [visit EXCEPT ![v] = "off"]
    /\ UNCHANGED <<client, user, calls, login, site, brought, server, history>>

\* The handler blocks while the buffer is full: for good once nobody waits.
Report(v) ==
    /\ visit[v] = "send"
    /\ buffer[site[v]] = "empty"
    /\ buffer' = [buffer EXCEPT ![site[v]] = "full"]
    /\ reported' = reported \cup {site[v]}
    /\ visit' = [visit EXCEPT ![v] = "off"]
    /\ UNCHANGED <<client, user, calls, login, site, brought, server, history>>

LoginReturns(l) ==
    /\ login[l] = "waiting"
    /\ buffer[l] = "full"
    /\ login' = [login EXCEPT ![l] = "idle"]
    /\ buffer' = [buffer EXCEPT ![l] = "empty"]
    /\ EndsWithout(l)
    /\ UNCHANGED <<client, user, calls, reported, visit, site, brought, server, orphaned,
                   shared, misnamed, left>>

\* Three minutes are over, the application ends or the listener stopped.
LoginGivesUp(l) ==
    /\ login[l] = "waiting"
    /\ login' = [login EXCEPT ![l] = "idle"]
    /\ EndsWithout(l)
    /\ UNCHANGED <<client, user, calls, buffer, reported, visit, site, brought, server,
                   orphaned, shared, misnamed, left>>

------------------------------------------------------------------------------
\* The server.

Accept(c) ==
    /\ pc[c] = "posted"
    /\ held[c] \notin spent
    /\ issued < MaxGrants
    /\ issued' = issued + 1
    /\ owner' = [owner EXCEPT ![issued + 1] = owner[held[c]]]
    /\ user' = [user EXCEPT ![issued + 1] = owner[held[c]]]
    /\ spent' = spent \cup {held[c]}
    /\ pc' = [pc EXCEPT ![c] = "ok"]
    /\ answer' = [answer EXCEPT ![c] = issued + 1]
    /\ UNCHANGED <<client, held, logins, history>>

RefuseSpent(c) ==
    /\ pc[c] = "posted"
    /\ held[c] \in spent
    /\ pc' = [pc EXCEPT ![c] = "refused"]
    /\ UNCHANGED <<client, user, held, answer, logins, server, history>>

\* An error of its own, a rate limit or a gateway's: before the token was used
\* or after.
ServerDown(c) ==
    /\ pc[c] = "posted"
    /\ pc' = [pc EXCEPT ![c] = "down"]
    /\ GiveUp({c})
    /\ UNCHANGED <<client, user, held, answer, logins, issued, owner, shared, misnamed,
                   left, excused>>

------------------------------------------------------------------------------
\* The process ends at any time; Restore loads what the file holds, if it can be
\* read.
Restart ==
    /\ \E found \in {file, NoGrant} :
          tokens' = found /\ identity' = Hydrated(found)
    /\ pc' = [c \in Caller |-> "idle"]
    /\ held' = [c \in Caller |-> NoGrant]
    /\ answer' = [c \in Caller |-> NoGrant]
    /\ login' = [l \in Login |-> "idle"]
    /\ buffer' = [l \in Login |-> "empty"]
    /\ reported' = {}
    /\ visit' = [v \in Visit |-> "off"]
    /\ brought' = [v \in Visit |-> NoGrant]
    /\ GiveUp(Caller)
    /\ excused' = {}
    /\ UNCHANGED <<file, user, site, issued, owner, shared, misnamed, left>>

CallStep(c) ==
    \/ FindExpired(c) \/ PostRefresh(c) \/ NothingToRefresh(c) \/ ApplyRefresh(c)
    \/ ApplyRefusal(c) \/ LoseRefresh(c) \/ Accept(c) \/ RefuseSpent(c) \/ ServerDown(c)

HandlerStep(v) == FetchUserFails(v) \/ SetTokens(v) \/ Report(v)

LoginStep(l) == StartLogin(l) \/ LoginReturns(l) \/ LoginGivesUp(l)

Next ==
    \/ Logout \/ Restart
    \/ \E c \in Caller : CallStep(c)
    \/ \E l \in Login : LoginStep(l)
    \/ \E v \in Visit : HandlerStep(v)
    \/ \E v \in Visit, l \in Login :
          BrowserFails(v, l) \/ \E a \in Account : BrowserReturns(v, l, a)

Spec == Init /\ [][Next]_vars

------------------------------------------------------------------------------
\* The name on display is that of the tokens in use, whichever of two logins and
\* of the refreshes of both wrote last (cloud.go:271, 332), with one exception:
\* an answer without a user that found other tokens than those it refreshes is
\* named after them, after nobody if there are none, and so are its successors
\* that come without a user themselves (cloud.go:268-271).  Without tokens the
\* last name stays: Logout and a refused refresh do not clear it.
IdentityMatchesTokens ==
    tokens # NoGrant => identity = owner[tokens] \/ tokens \in misnamed

\* Whoever used refresh token g still has its answer to apply.
AnswerComing(g) == \E c \in Caller : pc[c] = "ok" /\ held[c] = g

\* The next refresh will be accepted, now and after a restart: a token in memory
\* or in the file that the server has seen used is about to be replaced, unless
\* an answer was lost on the way or on its way to the disk (cloud.go:261-273,
\* 308-321).
TokensAreUsable ==
    \A g \in {tokens, file} \cap spent : AnswerComing(g) \/ g \in orphaned

\* The server refuses a token as used only if two calls had read it before
\* either was answered, or if an earlier answer to it was lost: no other order
\* of calls, logins and restarts signs the user out (cloud.go:221-249).
RefusedForAReason ==
    \A c \in Caller : pc[c] = "refused" => held[c] \in shared \cup orphaned

\* After a Logout that reached the disk, tokens come back, across restarts too,
\* only from a login begun afterwards or from what was under way at the Logout: a
\* refresh that was sent, a login whose listener waited, or a handler that was
\* fetching its profile, even one whose login had timed out before (auth.go:
\* 73-79, 110-124, cloud.go:221-273, 342-347).
LoggedOutStays == left => tokens = NoGrant

\* The first handler of a login that has its result can always report it and
\* end, even when LoginWithDiscord timed out long before (auth.go:33, 57-82).
FirstReportNeverBlocks ==
    \A v \in Visit :
        visit[v] = "send" /\ site[v] \notin reported => ENABLED Report(v)
==============================================================================
