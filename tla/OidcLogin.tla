------------------------------ MODULE OidcLogin ------------------------------
(***************************************************************************)
(* Login over OIDC (backend/routers/oidc.py, backend/oidc.py) and the      *)
(* sessions it makes (backend/auth.py, backend/routers/auth.py).  A        *)
(* browser with several tabs keeps one state cookie; the addresses Glue    *)
(* sends it back to can be opened again, or elsewhere; Glue's signing keys *)
(* rotate.  Of the identity service only what GlueIdentity shows of it is  *)
(* used: its answers were true of the account not long ago.                *)
(***************************************************************************)
EXTENDS Naturals, FiniteSets

CONSTANTS
  User, NoUser,
  Browser,
  Tab,
  In,           \* In[t]: the browser of tab t
  Mismatch,     \* whether OIDC_REDIRECT_URI differs from what Glue knows
  MaxFlows,     \* bounds of the model: authorizations begun, sessions made,
  MaxSessions,  \* signing keys, changes of accounts
  MaxKeys,
  MaxChanges

ASSUME LoginAssumption ==
  /\ NoUser \notin User
  /\ In \in [Tab -> Browser]
  /\ Mismatch \in BOOLEAN
  /\ {MaxFlows, MaxSessions, MaxChanges} \subseteq Nat /\ MaxKeys \in Nat \ {0}

VARIABLES
  jar,          \* the cookies of each browser
  flows,        \* the authorizations begun, by their state and nonce: who began them
  links,        \* the callback addresses Glue gave out, with their codes
  calls,        \* what each tab does
  sessions,     \* cd_sessions, by token
  jwks,         \* _jwks_cache
  glue          \* Glue: accounts, what was true of them of late, signing keys

loginVars == <<jar, flows, links, calls, sessions, jwks, glue>>

Flow    == 1..MaxFlows       \* a state and a nonce, drawn together; 0: no cookie
Key     == 1..MaxKeys
Token   == 1..MaxSessions    \* 0: none
Account == {"member", "out"}

\* restarts: history, silent restarts since a user last began a login.
Cookies == [flow : 0..MaxFlows, token : 0..MaxSessions, restarts : 0..MaxFlows]

\* spent: the code has been redeemed or is more than a minute old.
Link == [flow : Flow, user : User, spent : BOOLEAN]

Session == [row : {"never", "live", "expired", "gone"}, user : User \cup {NoUser}]

\* link, expected: the address opened and the cookie sent with it; key: the key
\* of the id_token; keys: the fetched keys; token: the session used or made.
Call == [pc       : {"idle", "glue", "redeem", "verify", "load", "loaded", "fetch",
                     "fetched", "identity", "answer", "restart", "refuse", "badkey",
                     "lookup", "check", "revoke", "logout", "forget"},
         flow     : 0..MaxFlows,
         user     : User \cup {NoUser},
         key      : 0..MaxKeys,
         keys     : SUBSET Key,
         token    : 0..MaxSessions]
Idle == [pc |-> "idle", flow |-> 0, user |-> NoUser, key |-> 0, keys |-> {}, token |-> 0]

LoginInit ==
  /\ jar = [b \in Browser |-> [flow |-> 0, token |-> 0, restarts |-> 0]]
  /\ flows = [f \in Flow |-> {}]
  /\ links = {}
  /\ calls = [t \in Tab |-> Idle]
  /\ sessions = [k \in Token |-> [row |-> "never", user |-> NoUser]]
  /\ jwks = {}
  /\ glue = [accounts |-> [u \in User |-> "member"], recent |-> [u \in User |-> {"member"}],
             key |-> 1, published |-> {1}, changes |-> 0]

-----------------------------------------------------------------------------
At(t, pc)   == calls[t].pc = pc
Jar(t)      == jar[In[t]]
Goes(t, pc) == calls' = [calls EXCEPT ![t].pc = pc]
Ends(t)     == calls' = [calls EXCEPT ![t] = Idle]
Cookie(t, field, value) ==
  jar' = [jar EXCEPT ![In[t]] = [@ EXCEPT ![field] = value]]

\* Mutant of NextFlow: state and nonce are not drawn anew.
NextFlowFixed == {f \in Flow : f = 1}

\* A state and a nonce nobody has yet.
NextFlow == {f \in Flow : flows[f] = {} /\ \A g \in Flow : flows[g] = {} => f <= g}

\* start: what a user begins and what a silent restart begins are the same, the
\* parameter retry is not passed on.  The cookie replaces that of another tab.
Authorize(t, restarts) ==
  \E f \in NextFlow :
    /\ flows' = [flows EXCEPT ![f] = @ \cup {In[t]}]
    /\ jar' = [jar EXCEPT ![In[t]].flow = f, ![In[t]].restarts = restarts]
    /\ calls' = [calls EXCEPT ![t] = [Idle EXCEPT !.pc = "glue", !.flow = f]]
    /\ UNCHANGED <<links, sessions, jwks, glue>>

Start(t)   == At(t, "idle") /\ Authorize(t, 0)
Restart(t) == At(t, "restart") /\ Authorize(t, Jar(t).restarts + 1)

\* Somebody is logged in at Glue and sent back with a code.
SendBack(t, u) ==
  /\ At(t, "glue")
  /\ links' = links \cup {[flow |-> calls[t].flow, user |-> u, spent |-> FALSE]}
  /\ Ends(t)
  /\ UNCHANGED <<jar, flows, sessions, jwks, glue>>

\* callback, up to the exchange of the code: the state of the address against that
\* of the cookie.
Callback(t, l) ==
  /\ At(t, "idle")
  /\ calls' = [calls EXCEPT ![t] =
       [Idle EXCEPT !.pc = IF l.flow = Jar(t).flow THEN "redeem" ELSE "refuse",
                    !.flow = l.flow, !.user = l.user]]
  /\ UNCHANGED <<jar, flows, links, sessions, jwks, glue>>

\* exchange_code: Glue gives an id_token for a code, once, if the redirect address
\* is the one it knows; else it says invalid_grant; or it does not answer.
Redeem(t, l) ==
  /\ At(t, "redeem") /\ l.flow = calls[t].flow /\ l.user = calls[t].user
  /\ ~l.spent /\ ~Mismatch
  /\ links' = (links \ {l}) \cup {[l EXCEPT !.spent = TRUE]}
  /\ calls' = [calls EXCEPT ![t].pc = "verify", ![t].key = glue.key]
  /\ UNCHANGED <<jar, flows, sessions, jwks, glue>>

\* A callback never carries retry, so the login starts again every time.
InvalidGrant(t, l) ==
  /\ At(t, "redeem") /\ l.flow = calls[t].flow /\ l.user = calls[t].user
  /\ l.spent \/ Mismatch
  /\ Cookie(t, "flow", 0)
  /\ Goes(t, "restart")
  /\ UNCHANGED <<flows, links, sessions, jwks, glue>>

ExchangeFails(t) ==
  /\ At(t, "redeem")
  /\ Goes(t, "refuse")
  /\ UNCHANGED <<jar, flows, links, sessions, jwks, glue>>

\* A minute passes.
Spend(l) ==
  /\ ~l.spent
  /\ links' = (links \ {l}) \cup {[l EXCEPT !.spent = TRUE]}
  /\ UNCHANGED <<jar, flows, calls, sessions, jwks, glue>>

\* _find_key with a cached set of keys, or without.
Verify(t) ==
  /\ At(t, "verify")
  /\ Goes(t, IF jwks = {} THEN "load" ELSE IF calls[t].key \in jwks THEN "identity" ELSE "fetch")
  /\ UNCHANGED <<jar, flows, links, sessions, jwks, glue>>

Fetch(t) ==
  /\ At(t, "load") \/ At(t, "fetch")
  /\ \/ calls' = [calls EXCEPT ![t].keys = glue.published,
                               ![t].pc = IF @ = "load" THEN "loaded" ELSE "fetched"]
     \/ Goes(t, "refuse")
  /\ UNCHANGED <<jar, flows, links, sessions, jwks, glue>>

\* Mutant of StoreKeys: no second look at a key the loaded set lacks.
StoreKeysOnce(t) ==
  /\ At(t, "loaded") \/ At(t, "fetched")
  /\ jwks' = calls[t].keys
  /\ Goes(t, IF calls[t].key \in jwks THEN "identity" ELSE "badkey")
  /\ UNCHANGED <<jar, flows, links, sessions, glue>>

\* The fetched keys replace the cached ones and are looked through.
StoreKeys(t) ==
  /\ At(t, "loaded") \/ At(t, "fetched")
  /\ jwks' = calls[t].keys
  /\ calls' = [calls EXCEPT ![t].keys = {},
       ![t].pc = IF calls[t].key \in calls[t].keys THEN "identity"
                 ELSE IF @ = "loaded" THEN "fetch" ELSE "badkey"]
  /\ UNCHANGED <<jar, flows, links, sessions, glue>>

\* What get_identity may answer of a user; besides, it may be unable to.
Says(u, a) == a \in glue.recent[u]

NextToken == {k \in Token : sessions[k].row = "never" /\
                            \A j \in Token : sessions[j].row = "never" => k <= j}

\* _create_session, which first sweeps out what has expired.
Admit(t) ==
  /\ At(t, "identity")
  /\ Says(calls[t].user, "member")
  /\ \E k \in NextToken :
       /\ sessions' = [j \in Token |->
            IF j = k THEN [row |-> "live", user |-> calls[t].user]
            ELSE IF sessions[j].row = "expired" THEN [sessions[j] EXCEPT !.row = "gone"]
            ELSE sessions[j]]
       /\ calls' = [calls EXCEPT ![t].pc = "answer", ![t].token = k]
  /\ UNCHANGED <<jar, flows, links, jwks, glue>>

Deny(t) ==
  /\ At(t, "identity")
  /\ Goes(t, "refuse")
  /\ UNCHANGED <<jar, flows, links, sessions, jwks, glue>>

\* The responses: the session goes into the browser, the state cookie out of it.
Answer(t) ==
  /\ At(t, "answer")
  /\ jar' = [jar EXCEPT ![In[t]] = [flow |-> 0, token |-> calls[t].token, restarts |-> 0]]
  /\ Ends(t)
  /\ UNCHANGED <<flows, links, sessions, jwks, glue>>

Refuse(t) ==
  /\ At(t, "refuse") \/ At(t, "badkey")
  /\ Cookie(t, "flow", 0)
  /\ Ends(t)
  /\ UNCHANGED <<flows, links, sessions, jwks, glue>>

-----------------------------------------------------------------------------
\* Requests with a session: _oidc_session, then _oidc_identity.
Use(t) ==
  /\ At(t, "idle") /\ Jar(t).token # 0
  /\ calls' = [calls EXCEPT ![t] = [Idle EXCEPT !.pc = "lookup", !.token = Jar(t).token]]
  /\ UNCHANGED <<jar, flows, links, sessions, jwks, glue>>

\* Mutant of Delete: the token can be given out again.
DeleteReusable(k) == sessions' = [sessions EXCEPT ![k] = [row |-> "never", user |-> NoUser]]

Delete(k) == sessions' = [sessions EXCEPT ![k].row = "gone"]

\* The deletion of an expired row is rolled back by the refusal that follows it; the row
\* stays until the next login.
Lookup(t) ==
  /\ At(t, "lookup")
  /\ IF sessions[calls[t].token].row = "live" THEN Goes(t, "check") ELSE Ends(t)
  /\ UNCHANGED <<jar, flows, links, sessions, jwks, glue>>

\* Mutant of Check: no answer counts as a refusal.
CheckHasty(t) ==
  /\ At(t, "check")
  /\ Goes(t, "revoke")
  /\ UNCHANGED <<jar, flows, links, sessions, jwks, glue>>

\* A member's request goes on, and so do, refused, requests Glue is not there for.
Check(t) ==
  /\ At(t, "check")
  /\ LET u == sessions[calls[t].token].user
     IN  \/ Ends(t)
         \/ Says(u, "out") /\ Goes(t, "revoke")
  /\ UNCHANGED <<jar, flows, links, sessions, jwks, glue>>

\* _revoke_session_quietly.
Revoke(t) ==
  /\ At(t, "revoke")
  /\ Delete(calls[t].token) \/ UNCHANGED sessions
  /\ Ends(t)
  /\ UNCHANGED <<jar, flows, links, jwks, glue>>

\* logout: the row, then the cookie, whichever is there by then.
LeaveBegin(t) ==
  /\ At(t, "idle") /\ Jar(t).token # 0
  /\ calls' = [calls EXCEPT ![t] = [Idle EXCEPT !.pc = "logout", !.token = Jar(t).token]]
  /\ UNCHANGED <<jar, flows, links, sessions, jwks, glue>>

Leave(t) ==
  /\ At(t, "logout")
  /\ Delete(calls[t].token)
  /\ Goes(t, "forget")
  /\ UNCHANGED <<jar, flows, links, jwks, glue>>

Forget(t) ==
  /\ At(t, "forget")
  /\ Cookie(t, "token", 0)
  /\ Ends(t)
  /\ UNCHANGED <<flows, links, sessions, jwks, glue>>

-----------------------------------------------------------------------------
\* Time and Glue.
Expire(k) ==
  /\ sessions[k].row = "live"
  /\ sessions' = [sessions EXCEPT ![k].row = "expired"]
  /\ UNCHANGED <<jar, flows, links, calls, jwks, glue>>

KeysExpire ==
  /\ jwks # {}
  /\ jwks' = {}
  /\ UNCHANGED <<jar, flows, links, calls, sessions, glue>>

Rotate ==
  /\ glue.key < MaxKeys
  /\ glue' = [glue EXCEPT !.key = @ + 1, !.published = @ \cup {glue.key + 1}]
  /\ UNCHANGED <<jar, flows, links, calls, sessions, jwks>>

Retire ==
  /\ glue.published # {glue.key}
  /\ glue' = [glue EXCEPT !.published = {glue.key}]
  /\ UNCHANGED <<jar, flows, links, calls, sessions, jwks>>

ChangeAccount(u, a) ==
  /\ glue.changes < MaxChanges /\ a # glue.accounts[u]
  /\ glue' = [glue EXCEPT !.accounts[u] = a, !.recent[u] = @ \cup {a}, !.changes = @ + 1]
  /\ UNCHANGED <<jar, flows, links, calls, sessions, jwks>>

\* What was is no longer remembered by anyone.
Lapse(u) ==
  /\ \A t \in Tab : At(t, "revoke") => sessions[calls[t].token].user # u
  /\ glue.recent[u] # {glue.accounts[u]}
  /\ glue' = [glue EXCEPT !.recent[u] = {glue.accounts[u]}]
  /\ UNCHANGED <<jar, flows, links, calls, sessions, jwks>>

LoginStep(t) ==
  \/ Start(t) \/ Restart(t) \/ \E u \in User : SendBack(t, u)
  \/ \E l \in links : Callback(t, l)
  \/ \E l \in links : Redeem(t, l) \/ InvalidGrant(t, l)
  \/ ExchangeFails(t) \/ Verify(t) \/ Fetch(t) \/ StoreKeys(t)
  \/ Admit(t) \/ Deny(t) \/ Answer(t) \/ Refuse(t)
  \/ Use(t) \/ Lookup(t) \/ Check(t) \/ Revoke(t)
  \/ LeaveBegin(t) \/ Leave(t) \/ Forget(t)

LoginNext ==
  \/ \E t \in Tab : LoginStep(t)
  \/ \E l \in links : Spend(l)
  \/ \E k \in Token : Expire(k)
  \/ KeysExpire \/ Rotate \/ Retire
  \/ \E u \in User, a \in Account : ChangeAccount(u, a)
  \/ \E u \in User : Lapse(u)

LoginSpec == LoginInit /\ [][LoginNext]_loginVars

-----------------------------------------------------------------------------
LoginTypeOK ==
  /\ jar \in [Browser -> Cookies]
  /\ flows \in [Flow -> SUBSET Browser]
  /\ links \subseteq Link
  /\ calls \in [Tab -> Call]
  /\ sessions \in [Token -> Session]
  /\ \A t \in Tab : At(t, "check") => sessions[calls[t].token].user \in User
  /\ jwks \subseteq Key
  /\ glue \in [accounts : [User -> Account], recent : [User -> SUBSET Account],
               key : Key, published : SUBSET Key, changes : 0..MaxChanges]

\* Whose session a browser holds has logged in at Glue in an authorization that
\* this very browser began, in whichever order tabs begin and end theirs and
\* wherever the addresses of callbacks are opened again.
SessionIsOwn ==
  \A b \in Browser : jar[b].token # 0 =>
    \E l \in links : l.spent /\ b \in flows[l.flow] /\ flows[l.flow] = {b}
                     /\ l.user = sessions[jar[b].token].user

\* A rotation of the signing keys fails no login with the new key: a token is never
\* refused for an unknown key while Glue signs with that key, whatever other
\* callbacks fetched and stored meanwhile (_find_key, "an unknown kid forces one
\* refresh").  A token signed just before a rotation may be refused.
RotationSurvived ==
  \A t \in Tab : At(t, "badkey") => calls[t].key # glue.key

\* A session ends for a reason: it expired, its user is or was of late no member,
\* or a browser logs out with it.  That Glue does not answer is none.
SessionsEndForAReason ==
  [][\A k \in Token : sessions[k].row = "live" /\ sessions'[k].row = "gone" =>
       \/ \E t \in Tab : At(t, "logout") /\ calls[t].token = k
       \/ \E t \in Tab : At(t, "revoke") /\ calls[t].token = k /\ calls'[t].pc = "idle"
                         /\ Says(sessions[k].user, "out")]_loginVars

\* "A silent restart of the login, with retry=1 against endless redirection"
\* (routers/oidc.py:9).  Violated: start drops the parameter.  No run lists it.
RestartOnce == \A b \in Browser : jar[b].restarts <= 1
=============================================================================
