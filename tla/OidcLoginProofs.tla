--------------------------- MODULE OidcLoginProofs ---------------------------
(***************************************************************************)
(* Whose sessions OidcLogin makes, what a rotation of keys does to logins, *)
(* and why sessions end, for any browsers, tabs, users, flows and bounds.  *)
(*                                                                         *)
(* A session is somebody's own because of a chain that several steps, of   *)
(* several tabs, build: the cookie names an authorization this browser     *)
(* began, the callback carries the same, its code was redeemed for a user, *)
(* the session is made for him.  The invariant follows the chain through   *)
(* everything a browser or a tab holds.                                    *)
(***************************************************************************)
EXTENDS OidcLogin, TLAPS

\* User u has logged in, in an authorization that browser b and no other began.
Vouched(b, u) ==
  \E f \in Flow : flows[f] = {b} /\ [flow |-> f, user |-> u, spent |-> TRUE] \in links

\* The places of a callback whose code has been redeemed, and of requests with a session.
Redeemed == {"verify", "load", "loaded", "fetch", "fetched", "identity", "badkey"}
InSession == {"lookup", "check", "revoke", "logout"}

\* What tab t, doing c, rests on.
CallFits(t, c) ==
  /\ c.pc = "glue" => c.flow \in Flow
  /\ c.pc = "redeem" => c.flow \in Flow /\ c.user \in User /\ flows[c.flow] = {In[t]}
  /\ c.pc \in Redeemed => c.user \in User /\ Vouched(In[t], c.user)
  /\ c.key <= glue.key
  /\ c.pc \in {"loaded", "fetched"} /\ c.key = glue.key => c.key \in c.keys
  /\ c.pc = "badkey" => c.key # glue.key
  /\ c.pc = "answer" => c.token \in Token /\ Vouched(In[t], sessions[c.token].user)
  /\ c.pc \in InSession \cup {"answer"} => c.token \in Token /\ sessions[c.token].row # "never"
  /\ c.pc = "revoke" => Says(sessions[c.token].user, "out")

\* What the cookies j of browser b are worth.
JarFits(b, j) ==
  /\ j.flow # 0 => flows[j.flow] = {b}
  /\ j.token # 0 => sessions[j.token].row # "never" /\ Vouched(b, sessions[j.token].user)
  /\ j.restarts # 0 => flows[j.restarts] # {}

\* Authorizations are drawn in order; sessions have users; Glue publishes its key.
TablesFit ==
  /\ \A f, g \in Flow : f < g /\ flows[g] # {} => flows[f] # {}
  /\ \A k \in Token : sessions[k].row # "never" => sessions[k].user \in User
  /\ glue.key \in glue.published

LoginInv ==
  /\ LoginTypeOK
  /\ TablesFit
  /\ \A t \in Tab : CallFits(t, calls[t])
  /\ \A b \in Browser : JarFits(b, jar[b])
-----------------------------------------------------------------------------
\* What every step keeps of the tables, and of what a tab is told.
Grows ==
  /\ \A f \in Flow : flows[f] # {} => flows'[f] = flows[f]
  /\ \A l \in links : l.spent => l \in links'
  /\ \A k \in Token : sessions[k].row # "never" =>
       sessions'[k].row # "never" /\ sessions'[k].user = sessions[k].user
  /\ glue.key <= glue'.key
  /\ \A t \in Tab : At(t, "revoke") =>
       LET u == sessions[calls[t].token].user IN glue.recent[u] \subseteq glue'.recent[u]

TableTypes ==
  /\ flows \in [Flow -> SUBSET Browser]
  /\ links \subseteq Link
  /\ sessions \in [Token -> Session]
  /\ jwks \subseteq Key
  /\ glue \in [accounts : [User -> Account], recent : [User -> SUBSET Account],
               key : Key, published : SUBSET Key, changes : 0..MaxChanges]

\* The bounds are numbers.
LEMMA Bounds ==
  /\ MaxFlows \in Nat /\ MaxSessions \in Nat /\ MaxChanges \in Nat /\ MaxKeys \in Nat /\ MaxKeys > 0
  /\ Flow \subseteq Nat \ {0} /\ Key \subseteq Nat \ {0} /\ Token \subseteq Nat \ {0}
  /\ 0..MaxFlows = Flow \cup {0} /\ 0..MaxSessions = Token \cup {0} /\ 0..MaxKeys = Key \cup {0}
  BY LoginAssumption DEF Flow, Key, Token

\* The chain behind a session stays.
LEMMA VouchedKeeps ==
  ASSUME Grows, NEW b, NEW u, Vouched(b, u)
  PROVE  Vouched(b, u)'
<1>1. PICK f \in Flow : flows[f] = {b} /\ [flow |-> f, user |-> u, spent |-> TRUE] \in links
  BY DEF Vouched
<1>2. flows'[f] = {b} /\ [flow |-> f, user |-> u, spent |-> TRUE] \in links'
  BY <1>1 DEF Grows
<1> QED BY <1>2 DEF Vouched

\* What tabs and browsers rest on stays.
LEMMA CallKeeps ==
  ASSUME LoginInv, Grows, TableTypes', NEW t \in Tab, NEW c \in Call, c = calls[t]
  PROVE  CallFits(t, c)'
<1>1. CallFits(t, c) /\ glue.key \in Nat /\ glue'.key \in Nat /\ c.key \in Nat
  BY Bounds DEF LoginInv, LoginTypeOK, TableTypes, Call
<1>2. c.pc = "redeem" => flows'[c.flow] = {In[t]}
  BY <1>1 DEF CallFits, Grows
<1>3. c.pc \in Redeemed => Vouched(In[t], c.user)'
  BY <1>1, VouchedKeeps DEF CallFits
<1>4. c.key <= glue'.key
  BY <1>1 DEF CallFits, Grows
<1>5. /\ c.pc \in {"loaded", "fetched"} /\ c.key = glue'.key => c.key \in c.keys
      /\ c.pc = "badkey" => c.key # glue'.key
  <2>1. c.key = glue'.key => c.key = glue.key
    BY <1>1 DEF CallFits, Grows
  <2> QED BY <1>1, <2>1 DEF CallFits
<1>6. c.pc \in InSession \cup {"answer"} =>
        /\ c.token \in Token /\ sessions'[c.token].row # "never"
        /\ sessions'[c.token].user = sessions[c.token].user
  BY <1>1 DEF CallFits, Grows
<1>7. c.pc = "answer" => Vouched(In[t], sessions[c.token].user)'
  <2> SUFFICES ASSUME c.pc = "answer" PROVE Vouched(In[t], sessions[c.token].user)'
    OBVIOUS
  <2>1. PICK u : u = sessions[c.token].user
    OBVIOUS
  <2>2. Vouched(In[t], u)
    BY <1>1, <2>1 DEF CallFits
  <2>3. Vouched(In[t], u)'
    BY <2>2, VouchedKeeps
  <2> QED BY <1>6, <2>1, <2>3 DEF Vouched
<1>8. c.pc = "revoke" => "out" \in glue'.recent[sessions'[c.token].user]
  BY <1>1, <1>6 DEF CallFits, Grows, Says, At, InSession
<1> QED BY <1>1, <1>2, <1>3, <1>4, <1>5, <1>6, <1>7, <1>8 DEF CallFits, Says

LEMMA JarKeeps ==
  ASSUME Grows, NEW b \in Browser, NEW j \in Cookies, JarFits(b, j)
  PROVE  JarFits(b, j)'
<1>1. j.flow \in Flow \cup {0} /\ j.token \in Token \cup {0} /\ j.restarts \in Flow \cup {0}
  BY Bounds DEF Cookies
<1>2. j.flow # 0 => flows'[j.flow] = {b}
  BY <1>1 DEF JarFits, Grows
<1>3. j.restarts # 0 => flows'[j.restarts] # {}
  BY <1>1 DEF JarFits, Grows
<1>4. j.token # 0 => sessions'[j.token].row # "never" /\ sessions'[j.token].user = sessions[j.token].user
  BY <1>1 DEF JarFits, Grows
<1>5. j.token # 0 => Vouched(b, sessions[j.token].user)'
  <2> SUFFICES ASSUME j.token # 0 PROVE Vouched(b, sessions[j.token].user)'
    OBVIOUS
  <2>1. PICK u : u = sessions[j.token].user
    OBVIOUS
  <2>2. Vouched(b, u)'
    BY <2>1, VouchedKeeps DEF JarFits
  <2> QED BY <1>4, <2>1, <2>2 DEF Vouched
<1> QED BY <1>2, <1>3, <1>4, <1>5 DEF JarFits
-----------------------------------------------------------------------------
\* What the invariant says of one tab and its browser.
LEMMA TabFacts ==
  ASSUME LoginInv, NEW t \in Tab
  PROVE  /\ calls \in [Tab -> Call] /\ calls[t] \in Call /\ CallFits(t, calls[t])
         /\ jar \in [Browser -> Cookies] /\ In[t] \in Browser /\ Jar(t) \in Cookies
         /\ JarFits(In[t], Jar(t))
         /\ TableTypes /\ TablesFit
         /\ glue.key \in Nat \ {0} /\ calls[t].key \in Nat
  BY LoginAssumption, Bounds DEF LoginInv, LoginTypeOK, TableTypes, Jar, Call

\* A tab that does nothing, and one that begins with something.
LEMMA IdleFits == Idle \in Call /\ Idle.pc = "idle" /\ Idle.key = 0
  BY Bounds DEF Idle, Call

LEMMA BeginsSession ==
  ASSUME NEW pc \in {"lookup", "logout"}, NEW k \in 0..MaxSessions
  PROVE  LET c == [Idle EXCEPT !.pc = pc, !.token = k]
         IN  c \in Call /\ c.pc = pc /\ c.token = k /\ c.key = 0
  BY Bounds DEF Idle, Call

\* A step of tab t, which now does c and leaves its browser with the cookies j.
LEMMA TabInv ==
  ASSUME LoginInv, Grows, TableTypes', TablesFit',
         NEW t \in Tab, NEW c \in Call, NEW j \in Cookies,
         calls' = [calls EXCEPT ![t] = c], jar' = [jar EXCEPT ![In[t]] = j],
         CallFits(t, c)', JarFits(In[t], j)'
  PROVE  LoginInv'
<1>1. /\ calls' \in [Tab -> Call] /\ jar' \in [Browser -> Cookies]
      /\ \A u \in Tab : calls'[u] = IF u = t THEN c ELSE calls[u]
      /\ \A b \in Browser : jar'[b] = IF b = In[t] THEN j ELSE jar[b]
  BY TabFacts
<1>2. ASSUME NEW u \in Tab PROVE CallFits(u, calls[u])'
  <2>1. PICK d \in Call : d = calls'[u]
    BY <1>1
  <2>2. CallFits(u, d)'
    <3>1. CASE u = t
      BY <1>1, <2>1, <3>1
    <3>2. CASE u # t
      BY <1>1, <2>1, <3>2, CallKeeps
    <3> QED BY <3>1, <3>2
  <2> QED BY <2>1, <2>2 DEF CallFits, Vouched, Says
<1>3. ASSUME NEW b \in Browser PROVE JarFits(b, jar[b])'
  <2>1. PICK d \in Cookies : d = jar'[b]
    BY <1>1
  <2>2. JarFits(b, d)'
    <3>1. CASE b = In[t]
      BY <1>1, <2>1, <3>1
    <3>2. CASE b # In[t]
      BY <1>1, <2>1, <3>2, JarKeeps DEF LoginInv
    <3> QED BY <3>1, <3>2
  <2> QED BY <2>1, <2>2 DEF JarFits, Vouched
<1>4. ASSUME NEW u \in Tab, At(u, "check")' PROVE sessions'[calls'[u].token].user \in User
  BY <1>2, <1>4 DEF At, CallFits, InSession, TablesFit
<1>5. LoginTypeOK'
  BY <1>1, <1>4 DEF LoginTypeOK, TableTypes
<1> QED BY <1>2, <1>3, <1>5 DEF LoginInv

\* A step of a tab that changes nothing else, or the cookies only.
LEMMA QuietInv ==
  ASSUME LoginInv, NEW t \in Tab, NEW c \in Call, NEW j \in Cookies,
         calls' = [calls EXCEPT ![t] = c], jar' = [jar EXCEPT ![In[t]] = j],
         UNCHANGED <<flows, links, sessions, jwks, glue>>,
         CallFits(t, c), JarFits(In[t], j)
  PROVE  LoginInv'
<1>1. Grows
  BY TabFacts DEF Grows
<1>2. TableTypes' /\ TablesFit'
  BY TabFacts DEF TableTypes, TablesFit
<1>3. CallFits(t, c)' /\ JarFits(In[t], j)'
  BY DEF CallFits, JarFits, Vouched, Says
<1> QED BY <1>1, <1>2, <1>3, TabInv

LEMMA CallInv ==
  ASSUME LoginInv, NEW t \in Tab, NEW c \in Call,
         calls' = [calls EXCEPT ![t] = c],
         UNCHANGED <<jar, flows, links, sessions, jwks, glue>>,
         CallFits(t, c)
  PROVE  LoginInv'
<1>1. jar' = [jar EXCEPT ![In[t]] = Jar(t)]
  BY TabFacts DEF Jar
<1> QED BY <1>1, QuietInv, TabFacts

\* A step outside of the browsers.
LEMMA OutsideInv ==
  ASSUME LoginInv, Grows, TableTypes', TablesFit', UNCHANGED <<jar, calls>>
  PROVE  LoginInv'
<1>1. ASSUME NEW u \in Tab PROVE CallFits(u, calls[u])'
  <2>1. PICK d \in Call : d = calls[u]
    BY TabFacts
  <2>2. CallFits(u, d)'
    BY <2>1, CallKeeps
  <2> QED BY <2>1, <2>2 DEF CallFits, Vouched, Says
<1>2. ASSUME NEW b \in Browser PROVE JarFits(b, jar[b])'
  <2>1. PICK d \in Cookies : d = jar[b]
    BY DEF LoginInv, LoginTypeOK
  <2>2. JarFits(b, d)'
    BY <2>1, JarKeeps DEF LoginInv
  <2> QED BY <2>1, <2>2 DEF JarFits, Vouched
<1>3. ASSUME NEW u \in Tab, At(u, "check")' PROVE sessions'[calls'[u].token].user \in User
  BY <1>1, <1>3 DEF At, CallFits, InSession, TablesFit
<1>4. LoginTypeOK'
  BY <1>3 DEF LoginInv, LoginTypeOK, TableTypes
<1> QED BY <1>1, <1>2, <1>4 DEF LoginInv

-----------------------------------------------------------------------------
\* An authorization is begun: its cookie replaces that of another tab.
LEMMA AuthorizeInv ==
  ASSUME LoginInv, NEW t \in Tab, NEW r \in Nat, Authorize(t, r), r \in {0, Jar(t).restarts + 1}
  PROVE  LoginInv'
<1>1. PICK f \in NextFlow :
        /\ flows' = [flows EXCEPT ![f] = @ \cup {In[t]}]
        /\ jar' = [jar EXCEPT ![In[t]].flow = f, ![In[t]].restarts = r]
        /\ calls' = [calls EXCEPT ![t] = [Idle EXCEPT !.pc = "glue", !.flow = f]]
        /\ UNCHANGED <<links, sessions, jwks, glue>>
  BY DEF Authorize
<1>2. /\ f \in Flow /\ flows[f] = {} /\ \A g \in Flow : flows[g] = {} => f <= g
      /\ flows' \in [Flow -> SUBSET Browser]
      /\ \A g \in Flow : flows'[g] = IF g = f THEN {In[t]} ELSE flows[g]
  BY <1>1, TabFacts DEF NextFlow, TableTypes
<1>3. r = 0 \/ (r \in Flow /\ flows'[r] # {})
  <2>1. CASE r = Jar(t).restarts + 1
    <3>1. Jar(t).restarts \in Flow \cup {0} /\ (Jar(t).restarts # 0 => flows[Jar(t).restarts] # {})
      BY TabFacts, Bounds DEF JarFits, Cookies
    <3>2. Jar(t).restarts < f
      <4> SUFFICES ASSUME Jar(t).restarts # 0, ~(Jar(t).restarts < f) PROVE FALSE
        BY <1>2, <3>1, Bounds
      <4>1. Jar(t).restarts \in Flow /\ f <= Jar(t).restarts /\ Jar(t).restarts \in Nat /\ f \in Nat
        BY <1>2, <3>1, Bounds
      <4>2. f # Jar(t).restarts
        BY <1>2, <3>1
      <4>3. flows[f] # {}
        BY <1>2, <3>1, <4>1, <4>2, TabFacts DEF TablesFit
      <4> QED BY <1>2, <4>3
    <3>3. r \in Flow /\ r <= f
      BY <1>2, <2>1, <3>1, <3>2, Bounds DEF Flow
    <3>4. r # f => flows[r] # {}
      BY <1>2, <3>3, Bounds
    <3> QED BY <1>2, <3>3, <3>4
  <2> QED BY <2>1
<1>4. PICK c \in Call : c = [Idle EXCEPT !.pc = "glue", !.flow = f]
  <2>1. f \in 0..MaxFlows
    BY <1>2, Bounds
  <2>2. [Idle EXCEPT !.pc = "glue", !.flow = f] \in Call
    BY <2>1, Bounds DEF Idle, Call
  <2> QED BY <2>2
<1>5. PICK j \in Cookies : j = [Jar(t) EXCEPT !.flow = f, !.restarts = r]
  BY <1>2, <1>3, TabFacts, Bounds DEF Cookies
<1>6. /\ c.pc = "glue" /\ c.flow = f /\ c.key = 0
      /\ j.flow = f /\ j.restarts = r /\ j.token = Jar(t).token
  BY <1>4, <1>5, TabFacts DEF Idle, Cookies
<1>7. calls' = [calls EXCEPT ![t] = c] /\ jar' = [jar EXCEPT ![In[t]] = j]
  BY <1>1, <1>4, <1>5 DEF Jar
<1>8. Grows
  BY <1>1, <1>2, TabFacts DEF Grows
<1>9. TableTypes'
  BY <1>1, <1>2, TabFacts DEF TableTypes
<1>10. TablesFit'
  <2>1. ASSUME NEW g \in Flow, NEW h \in Flow, g < h, flows'[h] # {} PROVE flows'[g] # {}
    BY <1>2, <2>1, TabFacts, Bounds DEF TablesFit
  <2> QED BY <1>1, <2>1, TabFacts DEF TablesFit
<1>11. CallFits(t, c)'
  BY <1>1, <1>2, <1>6, TabFacts DEF CallFits, Redeemed, InSession
<1>12. JarFits(In[t], j)'
  <2>1. JarFits(In[t], Jar(t)) /\ Jar(t) \in Cookies
    BY TabFacts
  <2>2. j.token # 0 => sessions[j.token].row # "never" /\ Vouched(In[t], sessions[j.token].user)
    BY <1>6, <2>1 DEF JarFits
  <2>3. j.token # 0 => Vouched(In[t], sessions[j.token].user)'
    <3>1. PICK u : u = sessions[j.token].user
      OBVIOUS
    <3>2. j.token # 0 => Vouched(In[t], u)'
      BY <1>8, <2>2, <3>1, VouchedKeeps
    <3> QED BY <1>1, <3>1, <3>2 DEF Vouched
  <2> QED BY <1>1, <1>2, <1>3, <1>6, <2>2, <2>3 DEF JarFits
<1> QED BY <1>4, <1>5, <1>7, <1>8, <1>9, <1>10, <1>11, <1>12, TabInv

LEMMA StartInv ==
  ASSUME LoginInv, NEW t \in Tab, Start(t) \/ Restart(t)
  PROVE  LoginInv'
<1>1. CASE Start(t)
  BY <1>1, AuthorizeInv DEF Start
<1>2. CASE Restart(t)
  <2>1. Jar(t).restarts + 1 \in Nat
    BY TabFacts, Bounds DEF Cookies
  <2> QED BY <1>2, <2>1, AuthorizeInv DEF Restart
<1> QED BY <1>1, <1>2
-----------------------------------------------------------------------------
\* A tab that goes to another place, or comes to rest.
CallPc == {"idle", "glue", "redeem", "verify", "load", "loaded", "fetch", "fetched", "identity",
           "answer", "restart", "refuse", "badkey", "lookup", "check", "revoke", "logout", "forget"}

LEMMA Moved ==
  ASSUME NEW c \in Call, NEW pc \in CallPc
  PROVE  /\ [c EXCEPT !.pc = pc] \in Call
         /\ [c EXCEPT !.pc = pc].pc = pc /\ [c EXCEPT !.pc = pc].flow = c.flow
         /\ [c EXCEPT !.pc = pc].user = c.user /\ [c EXCEPT !.pc = pc].key = c.key
         /\ [c EXCEPT !.pc = pc].keys = c.keys /\ [c EXCEPT !.pc = pc].token = c.token
  BY DEF Call, CallPc

LEMMA GoesTo ==
  ASSUME LoginInv, NEW t \in Tab, NEW pc \in CallPc, Goes(t, pc)
  PROVE  \E c \in Call : /\ calls' = [calls EXCEPT ![t] = c] /\ c.pc = pc
                         /\ c.flow = calls[t].flow /\ c.user = calls[t].user
                         /\ c.key = calls[t].key /\ c.keys = calls[t].keys
                         /\ c.token = calls[t].token
<1>1. PICK c \in Call : c = [calls[t] EXCEPT !.pc = pc]
  BY TabFacts, Moved
<1>2. calls' = [calls EXCEPT ![t] = c]
  BY <1>1 DEF Goes
<1> QED BY <1>1, <1>2, Moved, TabFacts

\* A step of a tab that only goes to a place where it needs nothing, or needs what it
\* needed before.
Free == {"idle", "restart", "refuse", "forget"}

LEMMA GoesInv ==
  ASSUME LoginInv, NEW t \in Tab, NEW pc \in CallPc, Goes(t, pc),
         UNCHANGED <<jar, flows, links, sessions, jwks, glue>>,
         \/ pc \in Free
         \/ pc \in {"load", "fetch", "identity"} /\ calls[t].pc \in Redeemed
         \/ pc = "check" /\ calls[t].pc \in InSession
         \/ /\ pc = "revoke" /\ calls[t].pc \in InSession
            /\ Says(sessions[calls[t].token].user, "out")
  PROVE  LoginInv'
<1>1. PICK c \in Call : /\ calls' = [calls EXCEPT ![t] = c] /\ c.pc = pc
                        /\ c.flow = calls[t].flow /\ c.user = calls[t].user
                        /\ c.key = calls[t].key /\ c.keys = calls[t].keys
                        /\ c.token = calls[t].token
  BY GoesTo
<1>2. CallFits(t, c)
  BY <1>1, TabFacts DEF CallFits, Free, Redeemed, InSession
<1> QED BY <1>1, <1>2, CallInv

LEMMA RestFits ==
  ASSUME NEW t \in Tab, NEW c \in Call, c.pc = "idle", c.key = 0
  PROVE  /\ glue.key \in Nat => CallFits(t, c)
         /\ glue'.key \in Nat => CallFits(t, c)'
  BY DEF CallFits, Redeemed, InSession

LEMMA EndsTo ==
  ASSUME LoginInv, NEW t \in Tab, Ends(t)
  PROVE  \E c \in Call : /\ calls' = [calls EXCEPT ![t] = c]
                         /\ c.pc = "idle" /\ c.key = 0 /\ CallFits(t, c)
<1>1. PICK c \in Call : c = Idle
  BY IdleFits
<1>2. c.pc = "idle" /\ c.key = 0 /\ calls' = [calls EXCEPT ![t] = c]
  BY <1>1, IdleFits DEF Ends
<1>3. CallFits(t, c)
  BY <1>2, RestFits, TabFacts
<1> QED BY <1>2, <1>3

LEMMA EndsInv ==
  ASSUME LoginInv, NEW t \in Tab, Ends(t), UNCHANGED <<jar, flows, links, sessions, jwks, glue>>
  PROVE  LoginInv'
  BY EndsTo, CallInv

\* The cookies: without the state, or without the session.
LEMMA CookieFits ==
  ASSUME LoginInv, NEW t \in Tab, NEW field \in {"flow", "token"}, Cookie(t, field, 0)
  PROVE  \E j \in Cookies : jar' = [jar EXCEPT ![In[t]] = j] /\ JarFits(In[t], j)
<1>1. PICK j : j = [Jar(t) EXCEPT ![field] = 0]
  OBVIOUS
<1>2. jar' = [jar EXCEPT ![In[t]] = j]
  BY <1>1 DEF Cookie, Jar
<1>3. CASE field = "flow"
  <2>1. j \in Cookies /\ j.flow = 0 /\ j.token = Jar(t).token /\ j.restarts = Jar(t).restarts
    BY <1>1, <1>3, TabFacts, Bounds DEF Cookies
  <2> QED BY <1>2, <2>1, TabFacts DEF JarFits
<1>4. CASE field = "token"
  <2>1. j \in Cookies /\ j.flow = Jar(t).flow /\ j.token = 0 /\ j.restarts = Jar(t).restarts
    BY <1>1, <1>4, TabFacts, Bounds DEF Cookies
  <2> QED BY <1>2, <2>1, TabFacts DEF JarFits
<1> QED BY <1>3, <1>4

\* The links grow, and what was spent stays.
LEMMA LinksGrow ==
  ASSUME LoginInv, links' \subseteq Link, \A l \in links : l.spent => l \in links',
         UNCHANGED <<flows, sessions, jwks, glue>>
  PROVE  Grows /\ TableTypes' /\ TablesFit'
<1>1. TableTypes /\ TablesFit /\ glue.key \in Nat
  BY Bounds DEF LoginInv, LoginTypeOK, TableTypes
<1> QED BY <1>1 DEF Grows, TableTypes, TablesFit

-----------------------------------------------------------------------------
\* Glue sends the browser back.
LEMMA SendBackInv ==
  ASSUME LoginInv, NEW t \in Tab, NEW u \in User, SendBack(t, u)
  PROVE  LoginInv'
<1>1. [flow |-> calls[t].flow, user |-> u, spent |-> FALSE] \in Link
  BY TabFacts DEF SendBack, At, CallFits, Link
<1>2. Grows /\ TableTypes' /\ TablesFit'
  BY <1>1, LinksGrow DEF SendBack, LoginInv, LoginTypeOK
<1>3. PICK c \in Call : calls' = [calls EXCEPT ![t] = c] /\ c.pc = "idle" /\ c.key = 0
  BY EndsTo DEF SendBack
<1>4. PICK j \in Cookies : j = Jar(t) /\ jar' = [jar EXCEPT ![In[t]] = Jar(t)]
  BY TabFacts DEF SendBack, Jar
<1>5. CallFits(t, c)'
  BY <1>3, RestFits, TabFacts DEF SendBack
<1>6. JarFits(In[t], j)'
  BY <1>2, <1>4, JarKeeps, TabFacts
<1> QED BY <1>2, <1>3, <1>4, <1>5, <1>6, TabInv

\* The address is opened: with the cookie of this authorization, or refused.
LEMMA CallbackInv ==
  ASSUME LoginInv, NEW t \in Tab, NEW l \in links, Callback(t, l)
  PROVE  LoginInv'
<1>1. l.flow \in Flow /\ l.user \in User /\ l.flow # 0
  BY Bounds DEF LoginInv, LoginTypeOK, Link
<1> DEFINE pc == IF l.flow = Jar(t).flow THEN "redeem" ELSE "refuse"
<1>2. /\ pc \in {"glue", "redeem", "refuse"} /\ l.flow \in 0..MaxFlows /\ l.user \in User \cup {NoUser}
      /\ calls' = [calls EXCEPT ![t] = [Idle EXCEPT !.pc = pc, !.flow = l.flow, !.user = l.user]]
      /\ pc = "redeem" => l.flow = Jar(t).flow
  BY <1>1, Bounds DEF Callback
<1> HIDE DEF pc
<1>3. PICK c : c = [Idle EXCEPT !.pc = pc, !.flow = l.flow, !.user = l.user]
  OBVIOUS
<1>4. c \in Call /\ c.pc = pc /\ c.flow = l.flow /\ c.user = l.user /\ c.key = 0
  <2>1. PICK f \in 0..MaxFlows, u \in User \cup {NoUser} : f = l.flow /\ u = l.user
    BY <1>2
  <2>2. c = [Idle EXCEPT !.pc = pc, !.flow = f, !.user = u]
    BY <1>3, <2>1
  <2>3. c \in Call /\ c.pc = pc /\ c.flow = f /\ c.user = u /\ c.key = 0
    BY <1>2, <2>2, Bounds DEF Idle, Call
  <2> QED BY <2>1, <2>3
<1>5. l.flow = Jar(t).flow => flows[l.flow] = {In[t]}
  BY <1>1, TabFacts DEF JarFits
<1>6. CallFits(t, c)
  BY <1>1, <1>2, <1>4, <1>5, TabFacts DEF CallFits, Redeemed, InSession
<1>7. calls' = [calls EXCEPT ![t] = c]
  BY <1>2, <1>3
<1> QED BY <1>4, <1>6, <1>7, CallInv DEF Callback

\* The code is redeemed: from now on the user is vouched for.
LEMMA RedeemInv ==
  ASSUME LoginInv, NEW t \in Tab, NEW l \in links, Redeem(t, l)
  PROVE  LoginInv'
<1> DEFINE m == [flow |-> l.flow, user |-> l.user, spent |-> TRUE]
<1>1. /\ l.flow \in Flow /\ l.user \in User /\ flows[l.flow] = {In[t]}
      /\ l.flow = calls[t].flow /\ l.user = calls[t].user
  BY TabFacts DEF Redeem, At, CallFits
<1>2. m \in Link /\ links' = (links \ {l}) \cup {m}
  BY <1>1 DEF Redeem, LoginInv, LoginTypeOK, Link
<1>3. Grows /\ TableTypes' /\ TablesFit'
  BY <1>2, LinksGrow DEF Redeem, LoginInv, LoginTypeOK
<1>4. PICK c \in Call : c = [calls[t] EXCEPT !.pc = "verify", !.key = glue.key]
  <2>1. PICK k \in 0..MaxKeys : k = glue.key
    BY TabFacts, Bounds DEF TableTypes
  <2>2. PICK d \in Call : d = calls[t]
    BY TabFacts
  <2>3. [d EXCEPT !.pc = "verify", !.key = k] \in Call
    BY DEF Call
  <2> QED BY <2>1, <2>2, <2>3
<1>5. c.pc = "verify" /\ c.user = l.user /\ c.key = glue.key
  BY <1>1, <1>4, TabFacts DEF Call
<1>6. calls' = [calls EXCEPT ![t] = c] /\ jar' = [jar EXCEPT ![In[t]] = Jar(t)]
  BY <1>4, TabFacts DEF Redeem, Jar
<1>7. Vouched(In[t], c.user)'
  BY <1>1, <1>2, <1>5 DEF Vouched, Redeem
<1>8. CallFits(t, c)'
  BY <1>1, <1>5, <1>7, TabFacts DEF CallFits, Redeemed, InSession, Redeem
<1>9. PICK j \in Cookies : j = Jar(t)
  BY TabFacts
<1>10. JarFits(In[t], j)'
  BY <1>3, <1>9, JarKeeps, TabFacts
<1> QED BY <1>3, <1>6, <1>8, <1>9, <1>10, TabInv

\* The code is refused: the state cookie goes and the login starts again.
LEMMA InvalidGrantInv ==
  ASSUME LoginInv, NEW t \in Tab, NEW l \in links, InvalidGrant(t, l)
  PROVE  LoginInv'
<1>1. PICK c \in Call : /\ calls' = [calls EXCEPT ![t] = c] /\ c.pc = "restart" /\ c.key = calls[t].key
  BY GoesTo DEF InvalidGrant, CallPc
<1>2. PICK j \in Cookies : jar' = [jar EXCEPT ![In[t]] = j] /\ JarFits(In[t], j)
  BY CookieFits DEF InvalidGrant
<1>3. CallFits(t, c)
  BY <1>1, TabFacts DEF CallFits, Redeemed, InSession
<1> QED BY <1>1, <1>2, <1>3, QuietInv DEF InvalidGrant

\* Steps that only lead to another place.
LEMMA PlacesInv ==
  ASSUME LoginInv, NEW t \in Tab, ExchangeFails(t) \/ Verify(t) \/ Deny(t)
  PROVE  LoginInv'
<1>1. CASE ExchangeFails(t) \/ Deny(t)
  BY <1>1, GoesInv DEF ExchangeFails, Deny, CallPc, Free
<1>2. CASE Verify(t)
  <2> DEFINE pc == IF jwks = {} THEN "load" ELSE IF calls[t].key \in jwks THEN "identity" ELSE "fetch"
  <2>1. pc \in CallPc /\ pc \in {"load", "fetch", "identity"} /\ calls[t].pc \in Redeemed
    BY <1>2 DEF CallPc, Verify, At, Redeemed
  <2>2. Goes(t, pc) /\ UNCHANGED <<jar, flows, links, sessions, jwks, glue>>
    BY <1>2 DEF Verify
  <2> HIDE DEF pc
  <2> QED BY <2>1, <2>2, GoesInv
<1> QED BY <1>1, <1>2

\* The keys are fetched: Glue's key of now is among them.
LEMMA FetchInv ==
  ASSUME LoginInv, NEW t \in Tab, Fetch(t)
  PROVE  LoginInv'
<1>1. CASE Goes(t, "refuse")
  BY <1>1, GoesInv DEF Fetch, CallPc, Free
<1>2. CASE calls' = [calls EXCEPT ![t].keys = glue.published,
                                  ![t].pc = IF @ = "load" THEN "loaded" ELSE "fetched"]
  <2> DEFINE pc == IF calls[t].pc = "load" THEN "loaded" ELSE "fetched"
  <2>1. PICK c \in Call : c = [calls[t] EXCEPT !.keys = glue.published, !.pc = pc]
    BY TabFacts DEF Call, TableTypes
  <2>2. /\ c.pc = pc /\ c.keys = glue.published /\ c.user = calls[t].user
        /\ c.key = calls[t].key
    BY <2>1, TabFacts DEF Call
  <2>3. calls' = [calls EXCEPT ![t] = c]
    BY <1>2, <2>1
  <2>4. calls[t].pc \in Redeemed
    BY DEF Fetch, At, Redeemed
  <2>5. CallFits(t, c)
    BY <2>2, <2>4, TabFacts DEF CallFits, TablesFit, Redeemed, InSession
  <2> QED BY <2>3, <2>5, CallInv DEF Fetch
<1> QED BY <1>1, <1>2 DEF Fetch

\* The fetched keys are stored and looked through: only a key that Glue no longer uses
\* is not among them.
LEMMA StoreKeysInv ==
  ASSUME LoginInv, NEW t \in Tab, StoreKeys(t)
  PROVE  LoginInv'
<1> DEFINE pc == IF calls[t].key \in calls[t].keys THEN "identity"
                 ELSE IF calls[t].pc = "loaded" THEN "fetch" ELSE "badkey"
<1>1. PICK c \in Call : c = [calls[t] EXCEPT !.keys = {}, !.pc = pc]
  BY TabFacts DEF Call
<1>2. c.pc = pc /\ c.user = calls[t].user /\ c.key = calls[t].key
  BY <1>1, TabFacts DEF Call
<1>3. calls' = [calls EXCEPT ![t] = c] /\ jar' = [jar EXCEPT ![In[t]] = Jar(t)]
  BY <1>1, TabFacts DEF StoreKeys, Jar
<1>4. calls[t].pc \in {"loaded", "fetched"}
  BY DEF StoreKeys, At
<1>5. CallFits(t, c)
  BY <1>2, <1>4, TabFacts DEF CallFits, Redeemed, InSession
<1>6. calls[t].keys \subseteq Key /\ jwks' = calls[t].keys
  BY TabFacts DEF Call, StoreKeys
<1>7. Grows /\ TableTypes' /\ TablesFit'
  BY <1>6, TabFacts DEF StoreKeys, Grows, TableTypes, TablesFit
<1>8. CallFits(t, c)' 
  BY <1>5 DEF CallFits, Vouched, Says, StoreKeys
<1>9. PICK j \in Cookies : j = Jar(t)
  BY TabFacts
<1>10. JarFits(In[t], j)'
  BY <1>7, <1>9, JarKeeps, TabFacts
<1> QED BY <1>3, <1>7, <1>8, <1>9, <1>10, TabInv
-----------------------------------------------------------------------------
\* Rows of sessions are made, swept out and deleted, and keep their users.
LEMMA SessionsGrow ==
  ASSUME LoginInv, sessions' \in [Token -> Session], UNCHANGED <<flows, links, jwks, glue>>,
         \A k \in Token :
           /\ sessions[k].row # "never" =>
                sessions'[k].row # "never" /\ sessions'[k].user = sessions[k].user
           /\ sessions'[k].row # "never" => sessions'[k].user \in User
  PROVE  Grows /\ TableTypes' /\ TablesFit'
<1>1. TableTypes /\ TablesFit /\ glue.key \in Nat
  BY Bounds DEF LoginInv, LoginTypeOK, TableTypes
<1> QED BY <1>1 DEF Grows, TableTypes, TablesFit

LEMMA DeleteGrows ==
  ASSUME LoginInv, NEW k \in Token, sessions[k].row # "never",
         Delete(k) \/ UNCHANGED sessions, UNCHANGED <<flows, links, jwks, glue>>
  PROVE  Grows /\ TableTypes' /\ TablesFit'
<1>1. sessions \in [Token -> Session] /\ \A j \in Token : sessions[j].row # "never" => sessions[j].user \in User
  BY DEF LoginInv, LoginTypeOK, TablesFit
<1>2. /\ sessions' \in [Token -> Session]
      /\ \A j \in Token : /\ sessions'[j].user = sessions[j].user
                          /\ sessions[j].row # "never" => sessions'[j].row # "never"
                          /\ sessions'[j].row # "never" => sessions[j].row # "never"
  BY <1>1 DEF Delete, Session
<1> QED BY <1>1, <1>2, SessionsGrow

\* A step of a tab that ends with a session or gives it up, its cookies left as they are.
LEMMA DeleteInv ==
  ASSUME LoginInv, NEW t \in Tab, calls[t].token \in Token, sessions[calls[t].token].row # "never",
         Delete(calls[t].token) \/ UNCHANGED sessions,
         UNCHANGED <<jar, flows, links, jwks, glue>>,
         Ends(t) \/ Goes(t, "forget")
  PROVE  LoginInv'
<1>1. Grows /\ TableTypes' /\ TablesFit'
  BY DeleteGrows
<1>2. PICK j \in Cookies : j = Jar(t) /\ jar' = [jar EXCEPT ![In[t]] = Jar(t)]
  BY TabFacts DEF Jar
<1>3. JarFits(In[t], j)'
  BY <1>1, <1>2, JarKeeps, TabFacts
<1>4. PICK c \in Call : /\ calls' = [calls EXCEPT ![t] = c]
                       /\ c.pc \in Free /\ c.key <= glue.key
  <2>1. CASE Ends(t)
    BY <2>1, EndsTo, TabFacts DEF Free
  <2>2. CASE Goes(t, "forget")
    <3>1. calls[t].key <= glue.key
      BY TabFacts DEF CallFits
    <3> QED BY <2>2, <3>1, GoesTo DEF Free, CallPc
  <2> QED BY <2>1, <2>2
<1>5. CallFits(t, c)'
  BY <1>4 DEF CallFits, Free, Redeemed, InSession
<1> QED BY <1>1, <1>2, <1>3, <1>4, <1>5, TabInv

\* A session is made for the user whose code was redeemed.
LEMMA AdmitInv ==
  ASSUME LoginInv, NEW t \in Tab, Admit(t)
  PROVE  LoginInv'
<1>1. PICK k \in NextToken :
        /\ sessions' = [j \in Token |->
             IF j = k THEN [row |-> "live", user |-> calls[t].user]
             ELSE IF sessions[j].row = "expired" THEN [sessions[j] EXCEPT !.row = "gone"]
             ELSE sessions[j]]
        /\ calls' = [calls EXCEPT ![t].pc = "answer", ![t].token = k]
  BY DEF Admit
<1>2. k \in Token /\ sessions[k].row = "never"
  BY <1>1 DEF NextToken
<1>3. calls[t].user \in User /\ Vouched(In[t], calls[t].user) /\ calls[t].key <= glue.key
  BY TabFacts DEF Admit, At, CallFits, Redeemed
<1>4. sessions \in [Token -> Session] /\ \A j \in Token : sessions[j].row # "never" => sessions[j].user \in User
  BY DEF LoginInv, LoginTypeOK, TablesFit
<1>5. sessions'[k].row = "live" /\ sessions'[k].user = calls[t].user
  BY <1>1, <1>2
<1>6. ASSUME NEW j \in Token, j # k
      PROVE  /\ sessions'[j] \in Session /\ sessions'[j].user = sessions[j].user
             /\ sessions[j].row # "never" => sessions'[j].row # "never"
             /\ sessions'[j].row # "never" => sessions[j].row # "never"
  BY <1>1, <1>4, <1>6 DEF Session
<1>7. sessions' \in [Token -> Session]
  <2>1. sessions'[k] \in Session
    BY <1>1, <1>2, <1>3 DEF Session
  <2> QED BY <1>1, <1>6, <2>1
<1>8. Grows /\ TableTypes' /\ TablesFit'
  <2>1. UNCHANGED <<flows, links, jwks, glue>>
    BY DEF Admit
  <2>2. ASSUME NEW j \in Token
        PROVE  /\ sessions[j].row # "never" =>
                    sessions'[j].row # "never" /\ sessions'[j].user = sessions[j].user
               /\ sessions'[j].row # "never" => sessions'[j].user \in User
    BY <1>2, <1>3, <1>4, <1>5, <1>6
  <2> QED BY <1>7, <2>1, <2>2, SessionsGrow
<1>9. PICK c \in Call : c = [calls[t] EXCEPT !.pc = "answer", !.token = k]
  <2>1. PICK d \in Call : d = calls[t]
    BY TabFacts
  <2>2. [d EXCEPT !.pc = "answer", !.token = k] \in Call
    BY <1>2, Bounds DEF Call
  <2> QED BY <2>1, <2>2
<1>10. c.pc = "answer" /\ c.token = k /\ c.key = calls[t].key /\ c.user = calls[t].user
  BY <1>9, TabFacts DEF Call
<1>11. calls' = [calls EXCEPT ![t] = c]
  BY <1>1, <1>9
<1>12. Vouched(In[t], sessions[k].user)'
  <2>1. PICK u : u = calls[t].user
    OBVIOUS
  <2>2. Vouched(In[t], u)'
    BY <1>3, <1>8, <2>1, VouchedKeeps
  <2> QED BY <1>5, <2>1, <2>2 DEF Vouched
<1>13. CallFits(t, c)'
  <2>1. c.key <= glue'.key
    BY <1>3, <1>10 DEF Admit
  <2>2. sessions'[c.token].row # "never" /\ c.token \in Token
    BY <1>2, <1>5, <1>10
  <2>3. Vouched(In[t], sessions[c.token].user)'
    BY <1>10, <1>12 DEF Vouched
  <2> QED BY <1>10, <2>1, <2>2, <2>3 DEF CallFits, Redeemed, InSession
<1>14. PICK j \in Cookies : j = Jar(t) /\ jar' = [jar EXCEPT ![In[t]] = Jar(t)]
  BY TabFacts DEF Admit, Jar
<1>15. JarFits(In[t], j)'
  BY <1>8, <1>14, JarKeeps, TabFacts
<1> QED BY <1>8, <1>11, <1>13, <1>14, <1>15, TabInv

\* The responses: the session made goes into the browser.
LEMMA AnswerInv ==
  ASSUME LoginInv, NEW t \in Tab, Answer(t)
  PROVE  LoginInv'
<1>1. /\ calls[t].token \in Token /\ sessions[calls[t].token].row # "never"
      /\ Vouched(In[t], sessions[calls[t].token].user)
  BY TabFacts DEF Answer, At, CallFits
<1>2. PICK j \in Cookies : j = [flow |-> 0, token |-> calls[t].token, restarts |-> 0]
  BY <1>1, Bounds DEF Cookies
<1>3. JarFits(In[t], j)
  BY <1>1, <1>2 DEF JarFits
<1>4. jar' = [jar EXCEPT ![In[t]] = j]
  BY <1>2 DEF Answer
<1>5. PICK c \in Call : calls' = [calls EXCEPT ![t] = c] /\ CallFits(t, c)
  BY EndsTo DEF Answer
<1> QED BY <1>3, <1>4, <1>5, QuietInv DEF Answer

\* A refusal, and the end of a logout: a cookie goes.
LEMMA CookieGoesInv ==
  ASSUME LoginInv, NEW t \in Tab, Refuse(t) \/ Forget(t)
  PROVE  LoginInv'
<1>1. PICK c \in Call : calls' = [calls EXCEPT ![t] = c] /\ CallFits(t, c)
  BY EndsTo DEF Refuse, Forget
<1>2. PICK j \in Cookies : jar' = [jar EXCEPT ![In[t]] = j] /\ JarFits(In[t], j)
  BY CookieFits DEF Refuse, Forget
<1> QED BY <1>1, <1>2, QuietInv DEF Refuse, Forget

\* Requests with a session, and logout.
LEMMA UseInv ==
  ASSUME LoginInv, NEW t \in Tab, Use(t) \/ LeaveBegin(t)
  PROVE  LoginInv'
<1>1. PICK pc \in {"lookup", "logout"} :
        calls' = [calls EXCEPT ![t] = [Idle EXCEPT !.pc = pc, !.token = Jar(t).token]]
  BY DEF Use, LeaveBegin
<1>2. PICK c \in Call : c = [Idle EXCEPT !.pc = pc, !.token = Jar(t).token]
  <2>1. PICK k \in 0..MaxSessions : k = Jar(t).token
    BY TabFacts DEF Cookies
  <2>2. [Idle EXCEPT !.pc = pc, !.token = k] \in Call
    BY BeginsSession
  <2> QED BY <2>1, <2>2
<1>3. c.pc = pc /\ c.token = Jar(t).token /\ c.key = 0
  BY <1>2 DEF Idle
<1>4. Jar(t).token \in Token /\ sessions[Jar(t).token].row # "never"
  BY TabFacts, Bounds DEF Use, LeaveBegin, JarFits, Cookies
<1>5. CallFits(t, c)
  BY <1>3, <1>4, TabFacts DEF CallFits, Redeemed, InSession
<1>6. calls' = [calls EXCEPT ![t] = c]
  BY <1>1, <1>2
<1> QED BY <1>5, <1>6, CallInv DEF Use, LeaveBegin

LEMMA SessionInv ==
  ASSUME LoginInv, NEW t \in Tab, Lookup(t) \/ Check(t) \/ Revoke(t) \/ Leave(t)
  PROVE  LoginInv'
<1>1. calls[t].pc \in InSession /\ calls[t].token \in Token /\ sessions[calls[t].token].row # "never"
  BY TabFacts DEF Lookup, Check, Revoke, Leave, At, InSession, CallFits
<1>2. CASE Lookup(t)
  <2>1. CASE Goes(t, "check")
    BY <1>1, <1>2, <2>1, GoesInv DEF Lookup, CallPc
  <2>2. CASE Ends(t)
    BY <1>2, <2>2, EndsInv DEF Lookup
  <2> QED BY <1>2, <2>1, <2>2 DEF Lookup
<1>3. CASE Check(t)
  <2>1. CASE Ends(t)
    BY <1>3, <2>1, EndsInv DEF Check
  <2>2. CASE Says(sessions[calls[t].token].user, "out") /\ Goes(t, "revoke")
    BY <1>1, <1>3, <2>2, GoesInv DEF Check, CallPc
  <2> QED BY <1>3, <2>1, <2>2 DEF Check
<1>4. CASE Revoke(t)
  BY <1>1, <1>4, DeleteInv DEF Revoke
<1>5. CASE Leave(t)
  BY <1>1, <1>5, DeleteInv DEF Leave
<1> QED BY <1>2, <1>3, <1>4, <1>5
-----------------------------------------------------------------------------
\* Time and Glue: codes grow old, sessions and cached keys expire, keys rotate, accounts
\* change and what was true of them lapses.
LEMMA OutsideStepInv ==
  ASSUME LoginInv,
         \/ \E l \in links : Spend(l)
         \/ \E k \in Token : Expire(k)
         \/ KeysExpire \/ Rotate \/ Retire
         \/ \E u \in User, a \in Account : ChangeAccount(u, a)
         \/ \E u \in User : Lapse(u)
  PROVE  LoginInv'
<1>1. /\ TableTypes /\ TablesFit /\ glue.key \in Nat
      /\ \A t \in Tab : calls[t].pc = "revoke" => sessions[calls[t].token].user \in User
  BY Bounds DEF LoginInv, LoginTypeOK, TableTypes, TablesFit, CallFits, InSession
<1>2. ASSUME NEW l \in links, Spend(l) PROVE LoginInv'
  <2>1. [l EXCEPT !.spent = TRUE] \in Link
    BY <1>1 DEF TableTypes, Link
  <2>2. Grows /\ TableTypes' /\ TablesFit'
    BY <1>1, <1>2, <2>1, LinksGrow DEF Spend, TableTypes
  <2> QED BY <1>2, <2>2, OutsideInv DEF Spend
<1>3. ASSUME NEW k \in Token, Expire(k) PROVE LoginInv'
  <2>1. /\ sessions' \in [Token -> Session]
        /\ \A j \in Token : sessions'[j].user = sessions[j].user
        /\ \A j \in Token : sessions[j].row # "never" <=> sessions'[j].row # "never"
    BY <1>1, <1>3 DEF Expire, TableTypes, Session
  <2>2. Grows /\ TableTypes' /\ TablesFit'
    BY <1>1, <1>3, <2>1, SessionsGrow DEF Expire, TablesFit
  <2> QED BY <1>3, <2>2, OutsideInv DEF Expire
<1>4. CASE KeysExpire
  <2>1. Grows /\ TableTypes' /\ TablesFit'
    BY <1>1, <1>4 DEF KeysExpire, Grows, TableTypes, TablesFit
  <2> QED BY <1>4, <2>1, OutsideInv DEF KeysExpire
<1>5. CASE Rotate
  <2>1. /\ glue'.key = glue.key + 1 /\ glue'.key \in Key /\ glue'.published = glue.published \cup {glue.key + 1}
        /\ glue'.recent = glue.recent /\ glue'.accounts = glue.accounts /\ glue'.changes = glue.changes
    BY <1>1, <1>5, Bounds DEF Rotate, TableTypes, Key
  <2>2. glue' \in [accounts : [User -> Account], recent : [User -> SUBSET Account],
                   key : Key, published : SUBSET Key, changes : 0..MaxChanges]
    BY <1>1, <1>5, <2>1 DEF Rotate, TableTypes
  <2>3. Grows /\ TableTypes' /\ TablesFit'
    BY <1>1, <1>5, <2>1, <2>2 DEF Rotate, Grows, TableTypes, TablesFit
  <2> QED BY <1>5, <2>3, OutsideInv DEF Rotate
<1>6. CASE Retire
  <2>1. Grows /\ TableTypes' /\ TablesFit'
    BY <1>1, <1>6 DEF Retire, Grows, TableTypes, TablesFit
  <2> QED BY <1>6, <2>1, OutsideInv DEF Retire
<1>7. ASSUME NEW u \in User, NEW a \in Account, ChangeAccount(u, a) PROVE LoginInv'
  <2>1. /\ glue \in [accounts : [User -> Account], recent : [User -> SUBSET Account],
                    key : Key, published : SUBSET Key, changes : 0..MaxChanges]
        /\ glue.changes < MaxChanges
        /\ glue' = [glue EXCEPT !.accounts[u] = a, !.recent[u] = @ \cup {a}, !.changes = @ + 1]
        /\ UNCHANGED <<jar, flows, links, calls, sessions, jwks>>
    BY <1>1, <1>7 DEF ChangeAccount, TableTypes
  <2>2. /\ glue'.key = glue.key /\ glue'.published = glue.published
        /\ glue'.accounts = [glue.accounts EXCEPT ![u] = a]
        /\ glue'.recent = [glue.recent EXCEPT ![u] = @ \cup {a}]
        /\ glue'.changes = glue.changes + 1
        /\ glue' = [accounts |-> glue'.accounts, recent |-> glue'.recent, key |-> glue'.key,
                    published |-> glue'.published, changes |-> glue'.changes]
    BY <2>1
  <2>3. glue'.accounts \in [User -> Account] /\ glue'.recent \in [User -> SUBSET Account]
    BY <2>1, <2>2
  <2>4. glue'.changes \in 0..MaxChanges
    BY <2>1, <2>2, Bounds
  <2>5. \A v \in User : glue.recent[v] \subseteq glue'.recent[v]
    BY <2>1, <2>2
  <2>6. TableTypes' /\ TablesFit'
    BY <1>1, <2>1, <2>2, <2>3, <2>4 DEF TableTypes, TablesFit
  <2>7. Grows
    BY <1>1, <2>1, <2>2, <2>5 DEF Grows, At
  <2> QED BY <2>1, <2>6, <2>7, OutsideInv
<1>8. ASSUME NEW u \in User, Lapse(u) PROVE LoginInv'
  <2>1. /\ glue'.key = glue.key /\ glue'.published = glue.published
        /\ \A v \in User : v # u => glue'.recent[v] = glue.recent[v]
    BY <1>1, <1>8 DEF Lapse, TableTypes
  <2>2. glue' \in [accounts : [User -> Account], recent : [User -> SUBSET Account],
                   key : Key, published : SUBSET Key, changes : 0..MaxChanges]
    BY <1>1, <1>8 DEF Lapse, TableTypes
  <2>3. Grows
    BY <1>1, <1>8, <2>1 DEF Lapse, Grows, At
  <2>4. TableTypes' /\ TablesFit'
    BY <1>1, <1>8, <2>1, <2>2 DEF Lapse, TableTypes, TablesFit
  <2> QED BY <1>8, <2>3, <2>4, OutsideInv DEF Lapse
<1> QED BY <1>2, <1>3, <1>4, <1>5, <1>6, <1>7, <1>8

LEMMA LoginInitInv == LoginInit => LoginInv
<1> SUFFICES ASSUME LoginInit PROVE LoginInv
  OBVIOUS
<1>1. 1 \in Key /\ 0 \in 0..MaxFlows /\ 0 \in 0..MaxSessions /\ 0 \in 0..MaxChanges
  BY LoginAssumption DEF Key
<1>2. \A b \in Browser : jar[b] = [flow |-> 0, token |-> 0, restarts |-> 0]
  BY DEF LoginInit
<1>3. ASSUME NEW t \in Tab PROVE CallFits(t, calls[t]) /\ ~At(t, "check")
  <2>1. PICK c \in Call : c = calls[t]
    BY IdleFits DEF LoginInit
  <2>2. c.pc = "idle" /\ c.key = 0
    BY <2>1, IdleFits DEF LoginInit
  <2>3. CallFits(t, c)
    BY <1>1, <2>2, RestFits, Bounds DEF LoginInit
  <2> QED BY <2>1, <2>2, <2>3 DEF At
<1>4. LoginTypeOK
  <2>1. jar \in [Browser -> Cookies] /\ calls \in [Tab -> Call]
    BY <1>1, IdleFits DEF LoginInit, Cookies
  <2>2. sessions \in [Token -> Session]
    BY DEF LoginInit, Session
  <2>3. glue \in [accounts : [User -> Account], recent : [User -> SUBSET Account],
                  key : Key, published : SUBSET Key, changes : 0..MaxChanges]
    BY <1>1 DEF LoginInit, Account
  <2> QED BY <1>3, <2>1, <2>2, <2>3 DEF LoginInit, LoginTypeOK
<1>5. TablesFit
  BY DEF LoginInit, TablesFit
<1> QED BY <1>2, <1>3, <1>4, <1>5 DEF LoginInv, JarFits

LEMMA LoginNextInv == LoginInv /\ [LoginNext]_loginVars => LoginInv'
<1> SUFFICES ASSUME LoginInv, [LoginNext]_loginVars PROVE LoginInv'
  OBVIOUS
<1>1. ASSUME NEW t \in Tab, LoginStep(t) PROVE LoginInv'
  BY <1>1, StartInv, SendBackInv, CallbackInv, RedeemInv, InvalidGrantInv, PlacesInv, FetchInv,
     StoreKeysInv, AdmitInv, AnswerInv, CookieGoesInv, UseInv, SessionInv DEF LoginStep
<1>2. CASE UNCHANGED loginVars
  BY <1>2, OutsideInv, Bounds DEF loginVars, LoginInv, LoginTypeOK, Grows, TableTypes, TablesFit
<1> QED BY <1>1, <1>2, OutsideStepInv DEF LoginNext

LEMMA LoginHolds == LoginSpec => []LoginInv
  BY LoginInitInv, LoginNextInv, PTL DEF LoginSpec
-----------------------------------------------------------------------------
\* Types; a request whose session is checked has a user to check (auth.py, _oidc_identity).
THEOREM LoginTypes == LoginSpec => []LoginTypeOK
  BY LoginHolds, PTL DEF LoginInv

\* A browser's session belongs to whoever logged in, in an authorization that this
\* browser began (routers/oidc.py, callback), in however many tabs and flows.
THEOREM LoginSessionIsOwn == LoginSpec => []SessionIsOwn
<1>1. LoginInv => SessionIsOwn
  <2> SUFFICES ASSUME LoginInv, NEW b \in Browser, jar[b].token # 0
               PROVE  \E l \in links : l.spent /\ b \in flows[l.flow] /\ flows[l.flow] = {b}
                                       /\ l.user = sessions[jar[b].token].user
    BY DEF SessionIsOwn
  <2>1. Vouched(b, sessions[jar[b].token].user)
    BY DEF LoginInv, JarFits
  <2> QED BY <2>1 DEF Vouched
<1> QED BY <1>1, LoginHolds, PTL

\* A rotation of the signing keys fails no login whose token the new key has signed
\* (backend/oidc.py, _find_key).
THEOREM LoginRotation == LoginSpec => []RotationSurvived
<1>1. LoginInv => RotationSurvived
  BY DEF LoginInv, CallFits, RotationSurvived, At
<1> QED BY <1>1, LoginHolds, PTL

\* Only expiry, a refusal by Glue and a logout end a session (backend/auth.py).
THEOREM LoginSessionsEnd == LoginSpec => SessionsEndForAReason
<1> DEFINE P == \A k \in Token : sessions[k].row = "live" /\ sessions'[k].row = "gone" =>
       \/ \E t \in Tab : At(t, "logout") /\ calls[t].token = k
       \/ \E t \in Tab : At(t, "revoke") /\ calls[t].token = k /\ calls'[t].pc = "idle"
                         /\ Says(sessions[k].user, "out")
<1>1. LoginInv /\ [LoginNext]_loginVars => P
  <2> SUFFICES ASSUME LoginInv, [LoginNext]_loginVars, NEW k \in Token,
                      sessions[k].row = "live", sessions'[k].row = "gone"
               PROVE  \/ \E t \in Tab : At(t, "logout") /\ calls[t].token = k
                      \/ \E t \in Tab : At(t, "revoke") /\ calls[t].token = k /\ calls'[t].pc = "idle"
                                        /\ Says(sessions[k].user, "out")
    OBVIOUS
  <2>1. sessions \in [Token -> Session] /\ sessions' # sessions
    BY DEF LoginInv, LoginTypeOK
  <2>2. ~\E j \in Token : Expire(j)
    BY <2>1 DEF Expire, Session
  <2>3. PICK t \in Tab : Admit(t) \/ Revoke(t) \/ Leave(t)
    BY <2>1, <2>2 DEF LoginNext, LoginStep, loginVars, Start, Restart, Authorize, SendBack, Callback,
       Redeem, InvalidGrant, ExchangeFails, Verify, Fetch, StoreKeys, Deny, Answer, Refuse, Use,
       Lookup, Check, LeaveBegin, Forget, Spend, KeysExpire, Rotate, Retire, ChangeAccount, Lapse
  <2>4. ASSUME NEW j, sessions' = [sessions EXCEPT ![j].row = "gone"] PROVE j = k
    BY <2>1, <2>4 DEF Session
  <2>5. ~Admit(t)
    <3> SUFFICES ASSUME Admit(t) PROVE FALSE
      OBVIOUS
    <3>1. PICK j \in NextToken : sessions' = [i \in Token |->
            IF i = j THEN [row |-> "live", user |-> calls[t].user]
            ELSE IF sessions[i].row = "expired" THEN [sessions[i] EXCEPT !.row = "gone"]
            ELSE sessions[i]]
      BY DEF Admit
    <3> QED BY <2>1, <3>1
  <2>7. CASE Revoke(t)
    <3>1. At(t, "revoke") /\ calls[t].token = k
      BY <2>1, <2>4, <2>7 DEF Revoke, Delete
    <3>2. Says(sessions[k].user, "out")
      BY <3>1, TabFacts DEF CallFits, At
    <3>3. calls'[t].pc = "idle"
      BY <2>7, EndsTo, TabFacts DEF Revoke
    <3> QED BY <3>1, <3>2, <3>3
  <2>8. CASE Leave(t)
    BY <2>4, <2>8 DEF Leave, Delete
  <2> QED BY <2>3, <2>5, <2>7, <2>8
<1> QED BY <1>1, LoginHolds, PTL DEF LoginSpec, SessionsEndForAReason
=============================================================================
