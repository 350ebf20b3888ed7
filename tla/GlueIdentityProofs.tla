-------------------------- MODULE GlueIdentityProofs --------------------------
(***************************************************************************)
(* Whom GlueIdentity lets in and turns away, for any users, threads,       *)
(* windows and latency.                                                    *)
(*                                                                         *)
(* The properties speak of outcomes.  An outcome rests on what a cache or  *)
(* a thread remembers, so the invariant says of everything remembered how  *)
(* old the fact behind it can be: by the age of the entry, or by how long  *)
(* the thread has been asking.                                             *)
(***************************************************************************)
EXTENDS GlueIdentity, TLAPS

\* What an identity of user u vouches for.
Dated(u, e) ==
  /\ e.known = "usable" /\ e.member  => last.member[u] <= e.checked + MaxLatency
  /\ e.known = "usable" /\ ~e.member => last.out[u] <= e.checked + MaxLatency
  /\ e.known = "usable" /\ e.grant   => last.granted < e.checked + Window + 2 * MaxLatency
  /\ e.known = "dangling" => last.missing < e.checked + Window + MaxLatency

\* What is remembered of the role.
PermsDated ==
  /\ perms.known /\ perms.grant => last.granted <= perms.checked + MaxLatency
  /\ perms.missing > 0 => last.missing <= Window - perms.missing + MaxLatency

\* What a request has heard so far.
Heard(r) ==
  /\ r.pc # "idle" => r.user \in User
  /\ r.pc \in Asking => Dated(r.user, r.cached)
  /\ r.pc \in {"gotUser", "role", "gotRole", "store"} =>
       IF r.member THEN last.member[r.user] <= r.since ELSE last.out[r.user] <= r.since
  /\ r.pc = "strand" => last.out[r.user] <= r.since
  /\ r.pc = "gotRole" /\ r.answer = "granted" => last.granted <= r.since
  /\ r.pc = "gotRole" /\ r.answer = "gone"    => last.missing <= r.since
  /\ r.pc = "store" /\ r.answer = "granted" => last.granted < r.since + Window + MaxLatency
  /\ r.pc = "store" /\ r.answer = "gone"    => last.missing < r.since + Window + MaxLatency

\* What an outcome rests on.
Founded(r) ==
  /\ r.pc = "admitted" => last.member[r.user] <= Trust + MaxLatency
  /\ r.pc = "admitted" /\ r.cached.grant => last.granted < Trust + Window + 2 * MaxLatency
  /\ r.pc = "refused" => \/ last.out[r.user] <= Trust + MaxLatency
                         \/ last.missing < 2 * Window + 2 * MaxLatency

\* The history knows what holds now.
UpToDate ==
  /\ \A u \in User : IF glue.users[u] = "member" THEN last.member[u] = 0 ELSE last.out[u] = 0
  /\ glue.role = "granted" => last.granted = 0
  /\ glue.role = "gone"    => last.missing = 0

IdentityInv ==
  /\ IdentityTypeOK
  /\ UpToDate
  /\ \A u \in User : Dated(u, ids[u])
  /\ PermsDated
  /\ \A t \in Thread : Heard(requests[t]) /\ Founded(requests[t])

-----------------------------------------------------------------------------
\* The numbers are such that the bounds of the properties can be told from never.
LEMMA Ages ==
  /\ Trust \in Nat /\ Trust >= Window /\ Trust >= Grace
  /\ LongAgo \in Nat /\ MaxLatency < LongAgo
  /\ Window \in Nat /\ Window > 0 /\ MaxLatency \in Nat /\ Grace \in Nat
  BY IdentityAssumption DEF Trust, LongAgo

\* An idle thread, and the entry it starts from.
LEMMA NoEntryTyped ==
  /\ NoEntry \in Entry /\ NoEntry.known = "nothing" /\ ~NoEntry.grant
  /\ \A u : Dated(u, NoEntry)
<1>1. NoEntry.known = "nothing"
  BY DEF NoEntry
<1> QED BY <1>1, Ages DEF NoEntry, Entry, Age, Dated

\* A thread that asks nothing.
LEMMA IdleTyped ==
  /\ Idle \in Request /\ Idle.pc = "idle" /\ ~Idle.member /\ Idle.answer = "gone" /\ Idle.since = 0
  BY NoEntryTyped, Ages DEF Idle, Request, RoleState

\* A thread's step that tells no more than it should.
LEMMA StepInv ==
  ASSUME IdentityInv, NEW t \in Thread, NEW r \in Request, Heard(r), Founded(r),
         requests' = [requests EXCEPT ![t] = r], UNCHANGED <<glue, last>>,
         ids' \in [User -> Entry], \A u \in User : Dated(u, ids'[u]),
         perms' \in PermEntry, PermsDated'
  PROVE  IdentityInv'
<1>1. requests' \in [Thread -> Request] /\ \A s \in Thread : requests'[s] = requests[s] \/ requests'[s] = r
  BY DEF IdentityInv, IdentityTypeOK
<1>2. IdentityTypeOK'
  BY <1>1 DEF IdentityInv, IdentityTypeOK
<1>3. \A s \in Thread : Heard(requests'[s]) /\ Founded(requests'[s])
  BY <1>1 DEF IdentityInv
<1>4. \A u : \A e : Dated(u, e) => Dated(u, e)'
  BY DEF Dated
<1>5. \A s \in Thread : Heard(requests[s])' /\ Founded(requests[s])'
  BY <1>3, <1>4 DEF Heard, Founded
<1>6. UpToDate'
  BY DEF IdentityInv, UpToDate
<1> QED BY <1>2, <1>4, <1>5, <1>6 DEF IdentityInv

\* A step that stores nothing.
LEMMA QuietInv ==
  ASSUME IdentityInv, NEW t \in Thread, NEW r \in Request, Heard(r), Founded(r),
         requests' = [requests EXCEPT ![t] = r], UNCHANGED <<glue, ids, perms, last>>
  PROVE  IdentityInv'
  BY StepInv DEF IdentityInv, IdentityTypeOK, PermsDated

\* A verdict on an identity that may be trusted.
LEMMA VerdictInv ==
  ASSUME IdentityInv, NEW t \in Thread, NEW e \in Entry, NEW u \in User, NEW r \in Request,
         Dated(u, e), e.known # "nothing",
         e.known = "usable"   => e.checked <= Trust,
         e.known = "dangling" => e.checked <= Window \/ e.checked <= MaxLatency,
         r.pc = Judged(e), r.user = u, r.cached.grant => e.grant,
         requests' = [requests EXCEPT ![t] = r],
         UNCHANGED <<glue, perms, last>>,
         ids' \in [User -> Entry], \A v \in User : Dated(v, ids'[v])
  PROVE  IdentityInv'
<1>1. Judged(e) \in Outcome
  BY DEF Judged, Outcome
<1>2. Heard(r)
  BY <1>1 DEF Heard, Outcome, Asking
<1>3. Founded(r)
  <2>1. /\ e.known \in {"usable", "dangling"} /\ e.checked \in Int /\ e.member \in BOOLEAN
        /\ e.grant \in BOOLEAN
    BY DEF Entry, Age
  <2>2. /\ last.member[u] \in Int /\ last.out[u] \in Int /\ last.granted \in Int /\ last.missing \in Int
    BY DEF IdentityInv, IdentityTypeOK, Age
  <2> QED BY <2>1, <2>2, Ages DEF Founded, Judged, Dated
<1> QED BY <1>2, <1>3, StepInv DEF IdentityInv, IdentityTypeOK, PermsDated

\* The remaining verdicts rest on what the thread has just heard.
LEMMA DecideInv ==
  ASSUME IdentityInv, NEW t \in Thread, NEW outcome \in {"refused", "unavailable"},
         Of(t) \in User, Decide(t, outcome, NoEntry),
         outcome = "refused" => last.out[Of(t)] <= MaxLatency,
         UNCHANGED <<glue, perms, last>>,
         ids' \in [User -> Entry], \A v \in User : Dated(v, ids'[v])
  PROVE  IdentityInv'
<1> DEFINE r == [Idle EXCEPT !.pc = outcome, !.user = Of(t), !.cached = NoEntry]
<1>1. /\ r \in Request /\ r.pc = outcome /\ r.user = Of(t) /\ r.cached = NoEntry
  BY IdleTyped, NoEntryTyped DEF Request, Outcome
<1>2. requests' = [requests EXCEPT ![t] = r]
  BY DEF Decide
<1> HIDE DEF r
<1>3. Heard(r)
  BY <1>1 DEF Heard, Asking
<1>4. Founded(r)
  BY <1>1, Ages DEF Founded, IdentityInv, IdentityTypeOK, Age
<1> QED BY <1>1, <1>2, <1>3, <1>4, StepInv DEF IdentityInv, IdentityTypeOK, PermsDated

\* What the invariant says of one thread, in the words of the actions.
LEMMA ThreadFacts ==
  ASSUME IdentityInv, NEW t \in Thread
  PROVE  /\ requests[t] \in Request /\ requests \in [Thread -> Request]
         /\ Heard(requests[t]) /\ Founded(requests[t])
         /\ ids \in [User -> Entry] /\ perms \in PermEntry
         /\ \A u \in User : ids[u] \in Entry /\ Dated(u, ids[u])
         /\ \A u \in User : last.member[u] \in Nat /\ last.out[u] \in Nat
         /\ last.granted \in Nat /\ last.missing \in Nat
  BY Ages DEF IdentityInv, IdentityTypeOK, Age

\* A request begins: an entry within the window decides.
LEMMA BeginInv ==
  ASSUME IdentityInv, NEW t \in Thread, NEW u \in User, Begin(t, u)
  PROVE  IdentityInv'
<1> DEFINE e == ids[u]
           c == IF e.known = "usable" THEN e ELSE NoEntry
           pc == IF Fresh(e) THEN Judged(e) ELSE "user"
           r == [Idle EXCEPT !.user = u, !.cached = c, !.pc = pc]
<1>1. e \in Entry /\ Dated(u, e) /\ c \in Entry /\ Dated(u, c) /\ (c.grant => e.grant)
  BY ThreadFacts, NoEntryTyped
<1>2. /\ requests' = [requests EXCEPT ![t] = r]
      /\ UNCHANGED <<glue, ids, perms, last>>
  BY DEF Begin
<1>3. pc \in Asking \cup Outcome
  BY DEF Judged, Asking, Outcome
<1> HIDE DEF e, c, pc
<1>4. r \in Request /\ r.pc = pc /\ r.user = u /\ r.cached = c
  BY <1>1, <1>3, IdleTyped DEF Request
<1> HIDE DEF r
<1>5. CASE Fresh(e)
  <2>1. e.known # "nothing" /\ e.checked <= Window /\ e.checked <= Trust /\ pc = Judged(e)
    BY <1>1, <1>5, Ages DEF Fresh, Entry, Age, pc
  <2> QED BY <1>1, <1>2, <1>4, <2>1, VerdictInv, ThreadFacts
<1>6. CASE ~Fresh(e)
  <2>1. Heard(r) /\ Founded(r)
    BY <1>1, <1>4, <1>6 DEF pc, Heard, Founded
  <2> QED BY <1>2, <1>4, <2>1, QuietInv
<1> QED BY <1>5, <1>6

\* Glue tells of the account what the history knows.
LEMMA AnswerUserInv ==
  ASSUME IdentityInv, NEW t \in Thread, AnswerUser(t)
  PROVE  IdentityInv'
<1> DEFINE account == glue.users[Of(t)]
           gone == [requests[t] EXCEPT !.pc = "strand"]
           got  == [requests[t] EXCEPT !.pc = "gotUser", !.member = (account = "member")]
<1>1. /\ requests[t] \in Request /\ Heard(requests[t]) /\ requests[t].pc = "user"
      /\ requests[t].since \in Nat /\ requests[t].user \in User
  BY ThreadFacts DEF AnswerUser, At, Heard, Request
<1>2. /\ account = "member"  => last.member[Of(t)] = 0
      /\ account # "member" => last.out[Of(t)] = 0
  BY <1>1 DEF IdentityInv, UpToDate, Of
<1>3. CASE account = "gone"
  <2>1. gone \in Request /\ Heard(gone) /\ Founded(gone)
    BY <1>1, <1>2, <1>3 DEF Request, Heard, Founded, Asking, Of
  <2> QED BY <1>3, <2>1, QuietInv DEF AnswerUser, Goes
<1>4. CASE account # "gone"
  <2>1. /\ got \in Request /\ got.pc = "gotUser" /\ (got.member <=> account = "member")
        /\ got.user = requests[t].user /\ got.cached = requests[t].cached
        /\ got.since = requests[t].since
    BY <1>1 DEF Request, Asking
  <2> HIDE DEF got
  <2>2. Heard(got) /\ Founded(got)
    <3>1. Dated(requests[t].user, requests[t].cached)
      BY <1>1 DEF Heard, Asking
    <3> HIDE DEF account
    <3> QED BY <1>1, <1>2, <2>1, <3>1 DEF Heard, Founded, Of
  <2> USE DEF got
  <2> QED BY <1>4, <2>1, <2>2, QuietInv DEF AnswerUser
<1> QED BY <1>3, <1>4

\* A definite no.
LEMMA StrandInv ==
  ASSUME IdentityInv, NEW t \in Thread, Strand(t)
  PROVE  IdentityInv'
<1>1. /\ requests[t].pc = "strand" /\ Of(t) \in User /\ last.out[Of(t)] <= requests[t].since
      /\ requests[t].since \in Nat /\ requests[t].since <= MaxLatency
  BY ThreadFacts, Ages DEF Strand, At, Of, Heard, Request
<1>2. last.out[Of(t)] <= MaxLatency
  BY <1>1, ThreadFacts, Ages
<1>3. ids' \in [User -> Entry] /\ \A v \in User : Dated(v, ids'[v])
  BY <1>1, ThreadFacts, NoEntryTyped DEF Strand
<1> QED BY <1>1, <1>2, <1>3, DecideInv DEF Strand

\* A failure is excused by an identity that may be trusted, or refused.
LEMMA UnreachableInv ==
  ASSUME IdentityInv, NEW t \in Thread, Unreachable(t)
  PROVE  IdentityInv'
<1> DEFINE e == requests[t].cached
           r == [Idle EXCEPT !.pc = Judged(e), !.user = Of(t), !.cached = e]
<1>1. Of(t) \in User /\ e \in Entry /\ Dated(Of(t), e)
  BY ThreadFacts DEF Unreachable, At, Of, Heard, Asking, Request
<1>2. CASE Excused(e)
  <2>1. Judged(e) \in Outcome
    BY DEF Judged, Outcome
  <2>2. r \in Request /\ r.pc = Judged(e) /\ r.user = Of(t) /\ r.cached = e
    BY <1>1, <2>1, IdleTyped DEF Request
  <2>3. requests' = [requests EXCEPT ![t] = r]
    BY <1>2 DEF Unreachable, Given, Decide
  <2>4. e.known = "usable" /\ e.checked <= Trust
    BY <1>1, <1>2, Ages DEF Excused, Entry, Age
  <2> HIDE DEF e, r
  <2> QED BY <1>1, <2>2, <2>3, <2>4, VerdictInv, ThreadFacts DEF Unreachable
<1>3. CASE ~Excused(e)
  BY <1>1, <1>3, DecideInv, ThreadFacts DEF Unreachable
<1> QED BY <1>2, <1>3

\* A thread that knows the role has no further use for its copy.
LEMMA AnsweredInv ==
  ASSUME IdentityInv, NEW t \in Thread, NEW pc \in {"gotRole", "store"}, NEW role \in RoleState,
         requests[t].pc \in {"gotUser", "role"}, Answered(t, pc, role),
         role = "granted" => IF pc = "gotRole" THEN last.granted = 0 ELSE last.granted < Window + MaxLatency,
         role = "gone"    => IF pc = "gotRole" THEN last.missing = 0 ELSE last.missing < Window + MaxLatency,
         UNCHANGED <<glue, ids, perms, last>>
  PROVE  IdentityInv'
<1> DEFINE r == [requests[t] EXCEPT !.pc = pc, !.answer = role, !.cached = NoEntry]
<1>1. /\ requests[t] \in Request /\ Heard(requests[t]) /\ requests[t].user \in User
      /\ requests[t].since \in Nat
  BY ThreadFacts DEF Heard, Request
<1>2. /\ r \in Request /\ r.pc = pc /\ r.answer = role /\ r.cached = NoEntry
      /\ r.user = requests[t].user /\ r.member = requests[t].member /\ r.since = requests[t].since
  BY <1>1, NoEntryTyped DEF Request, Asking
<1>3. requests' = [requests EXCEPT ![t] = r]
  BY DEF Answered
<1> HIDE DEF r
<1>4. Dated(r.user, r.cached)
  BY <1>2, NoEntryTyped
<1>5. Heard(r)
  BY <1>1, <1>2, <1>4, Ages, ThreadFacts DEF Heard
<1>6. Founded(r)
  BY <1>2 DEF Founded
<1> QED BY <1>2, <1>3, <1>5, <1>6, QuietInv

\* The caches of the role answer, or the thread will ask.
LEMMA ReadPermsInv ==
  ASSUME IdentityInv, NEW t \in Thread, ReadPerms(t)
  PROVE  IdentityInv'
<1>1. requests[t].pc = "gotUser" /\ UNCHANGED <<glue, ids, perms, last>>
  BY DEF ReadPerms, At
<1>2. /\ perms.checked \in Nat /\ perms.missing \in Nat /\ perms.missing <= Window
      /\ perms.known \in BOOLEAN /\ perms.grant \in BOOLEAN
  BY ThreadFacts, Ages DEF PermEntry, Age
<1>3. PermsDated
  BY DEF IdentityInv
<1>4. CASE FreshPerms /\ Answered(t, "store", IF perms.grant THEN "granted" ELSE "bare")
  <2>1. perms.grant => last.granted < Window + MaxLatency
    BY <1>2, <1>3, <1>4, Ages, ThreadFacts DEF FreshPerms, PermsDated
  <2>2. CASE perms.grant
    BY <1>1, <1>4, <2>1, <2>2, AnsweredInv DEF RoleState
  <2>3. CASE ~perms.grant
    BY <1>1, <1>4, <2>3, AnsweredInv DEF RoleState
  <2> QED BY <2>2, <2>3
<1>5. CASE perms.missing > 0 /\ Answered(t, "store", "gone")
  <2>1. last.missing < Window + MaxLatency
    BY <1>2, <1>3, <1>5, Ages, ThreadFacts DEF PermsDated
  <2> QED BY <1>1, <1>5, <2>1, AnsweredInv DEF RoleState
<1>6. CASE Goes(t, "role")
  <2> DEFINE r == [requests[t] EXCEPT !.pc = "role"]
  <2>1. r \in Request /\ Heard(r) /\ Founded(r)
    BY <1>1, ThreadFacts DEF Request, Heard, Founded, Asking
  <2> QED BY <1>1, <1>6, <2>1, QuietInv DEF Goes
<1> QED BY <1>4, <1>5, <1>6 DEF ReadPerms

\* Glue tells of the role what the history knows.
LEMMA AnswerRoleInv ==
  ASSUME IdentityInv, NEW t \in Thread, AnswerRole(t)
  PROVE  IdentityInv'
<1>1. glue.role \in RoleState /\ UpToDate
  BY DEF IdentityInv, IdentityTypeOK
<1> QED BY <1>1, AnsweredInv DEF AnswerRole, At, UpToDate

\* The answer is stored as old as the question is, at most.
LEMMA StorePermsInv ==
  ASSUME IdentityInv, NEW t \in Thread, StorePerms(t)
  PROVE  IdentityInv'
<1> DEFINE r == [requests[t] EXCEPT !.pc = "store"]
<1>1. /\ requests[t] \in Request /\ Heard(requests[t]) /\ requests[t].pc = "gotRole"
      /\ requests[t].since \in Nat /\ requests[t].since <= MaxLatency
      /\ requests[t].answer \in RoleState
  BY ThreadFacts, Ages DEF StorePerms, At, Request
<1>2. r \in Request /\ Heard(r) /\ Founded(r)
  BY <1>1, ThreadFacts, Ages DEF Request, Heard, Founded, Asking
<1>3. /\ requests[t].answer = "granted" => last.granted <= MaxLatency
      /\ requests[t].answer = "gone"    => last.missing <= MaxLatency
  BY <1>1, ThreadFacts, Ages DEF Heard
<1>4. CASE requests[t].answer = "gone"
  <2>1. perms' = [perms EXCEPT !.missing = Window]
    BY <1>4 DEF StorePerms
  <2>2. /\ perms' \in PermEntry /\ perms'.missing = Window
        /\ perms'.known = perms.known /\ perms'.grant = perms.grant /\ perms'.checked = perms.checked
    BY <2>1, ThreadFacts, Ages DEF PermEntry
  <2>3. PermsDated'
    BY <1>3, <1>4, <2>2, Ages, ThreadFacts DEF IdentityInv, PermsDated, StorePerms
  <2> QED BY <1>2, <2>2, <2>3, StepInv, ThreadFacts DEF StorePerms, Goes
<1>5. CASE requests[t].answer # "gone"
  <2>1. perms' = [known |-> TRUE, grant |-> requests[t].answer = "granted",
                  checked |-> 0, missing |-> 0]
    BY <1>5 DEF StorePerms
  <2>2. perms' \in PermEntry /\ PermsDated'
    <3>1. /\ perms' \in PermEntry /\ perms'.checked = 0 /\ perms'.missing = 0
      BY <2>1, Ages DEF PermEntry, Age
    <3>2. perms'.grant => requests[t].answer = "granted"
      BY <2>1
    <3>3. last'.granted = last.granted /\ last.granted \in Nat
      BY ThreadFacts DEF StorePerms
    <3>4. perms'.grant => last'.granted <= MaxLatency
      BY <1>3, <3>2, <3>3
    <3> QED BY <3>1, <3>3, <3>4, Ages DEF PermsDated
  <2> QED BY <1>2, <2>2, StepInv, ThreadFacts DEF StorePerms, Goes
<1> QED BY <1>4, <1>5

\* So is the identity, and the verdict given on it.
LEMMA StoreInv ==
  ASSUME IdentityInv, NEW t \in Thread, Store(t)
  PROVE  IdentityInv'
<1> DEFINE q == requests[t]
           e == [known   |-> IF q.answer = "gone" THEN "dangling" ELSE "usable",
                 member  |-> q.member /\ q.answer # "gone",
                 grant   |-> q.answer = "granted",
                 checked |-> IF q.answer = "gone" THEN q.since ELSE 0]
           r == [Idle EXCEPT !.pc = Judged(e), !.user = q.user, !.cached = e]
<1>1. /\ q \in Request /\ Heard(q) /\ q.pc = "store" /\ q.user \in User
      /\ q.since \in Nat /\ q.since <= MaxLatency /\ q.since \in Age
      /\ q.answer \in RoleState /\ q.member \in BOOLEAN
  <2>1. q \in Request /\ Heard(q) /\ q.pc = "store"
    BY ThreadFacts DEF Store, At
  <2> QED BY <2>1, Ages DEF Heard, Request, Age
<1>2. e \in Entry
  BY <1>1, Ages DEF Entry, Age
<1>3. /\ e.known = IF q.answer = "gone" THEN "dangling" ELSE "usable"
      /\ e.member <=> (q.member /\ q.answer # "gone")
      /\ e.grant <=> q.answer = "granted"
      /\ e.checked = IF q.answer = "gone" THEN q.since ELSE 0
  OBVIOUS
<1>4. Dated(q.user, e)
  <2> HIDE DEF e
  <2>1. /\ q.member  => last.member[q.user] <= q.since
        /\ ~q.member => last.out[q.user] <= q.since
        /\ q.answer = "granted" => last.granted < q.since + Window + MaxLatency
        /\ q.answer = "gone"    => last.missing < q.since + Window + MaxLatency
    BY <1>1 DEF Heard
  <2>2. CASE q.answer = "gone"
    BY <1>1, <2>1, <2>2, <1>3, Ages, ThreadFacts DEF Dated
  <2>3. CASE q.answer # "gone"
    BY <1>1, <2>1, <2>3, <1>3, Ages, ThreadFacts DEF Dated
  <2> QED BY <2>2, <2>3
<1>5. /\ requests' = [requests EXCEPT ![t] = r] /\ ids' = [ids EXCEPT ![q.user] = e]
      /\ UNCHANGED <<glue, perms, last>>
  BY DEF Store, Given, Decide, Of
<1>6. /\ e.known # "nothing" /\ (e.known = "usable" => e.checked <= Trust)
      /\ (e.known = "dangling" => e.checked <= MaxLatency)
  BY <1>1, Ages
<1> HIDE DEF q, e
<1>7. r \in Request /\ r.pc = Judged(e) /\ r.user = q.user /\ r.cached = e
  <2>1. Judged(e) \in Outcome
    BY DEF Judged, Outcome
  <2> QED BY <1>1, <1>2, <2>1, IdleTyped DEF Request
<1>8. ids' \in [User -> Entry] /\ \A v \in User : Dated(v, ids'[v])
  BY <1>1, <1>2, <1>4, <1>5, ThreadFacts
<1> HIDE DEF r
<1> QED BY <1>1, <1>2, <1>4, <1>5, <1>6, <1>7, <1>8, VerdictInv

\* Whatever Glue becomes, the history only gets younger.
LEMMA ChangeInv ==
  ASSUME IdentityInv, last' = Noted(last, glue'), UNCHANGED <<ids, perms, requests>>,
         glue' \in [users : [User -> Account], role : RoleState, changes : 0..MaxChanges]
  PROVE  IdentityInv'
<1>1. /\ last' \in [member : [User -> Age], out : [User -> Age], granted : Age, missing : Age]
      /\ \A u \in User : last'.member[u] \in {0, last.member[u]} /\ last'.out[u] \in {0, last.out[u]}
      /\ last'.granted \in {0, last.granted} /\ last'.missing \in {0, last.missing}
  BY Ages DEF IdentityInv, IdentityTypeOK, Noted, Age
<1>2. \A u \in User : \A e \in Entry : Dated(u, e) => Dated(u, e)'
  BY <1>1, Ages, ThreadFacts DEF Dated, Entry, Age, IdentityInv, IdentityTypeOK
<1>3. IdentityTypeOK' /\ UpToDate'
  BY <1>1 DEF IdentityInv, IdentityTypeOK, UpToDate, Noted
<1>4. PermsDated'
  BY <1>1, Ages DEF IdentityInv, IdentityTypeOK, PermsDated, PermEntry, Age
<1>5. ASSUME NEW t \in Thread
      PROVE  Heard(requests[t])' /\ Founded(requests[t])'
  <2> DEFINE r == requests[t]
  <2>1. r \in Request /\ Heard(r) /\ Founded(r) /\ r.since \in Nat /\ r.cached \in Entry
    BY ThreadFacts, Ages DEF Request
  <2>2. r.pc # "idle" => /\ r.user \in User
                         /\ last'.member[r.user] <= last.member[r.user]
                         /\ last'.out[r.user] <= last.out[r.user]
    BY <1>1, <2>1, ThreadFacts DEF Heard
  <2>3. last'.granted <= last.granted /\ last'.missing <= last.missing
    BY <1>1, ThreadFacts
  <2>4. last'.granted \in Nat /\ last'.missing \in Nat /\ last.granted \in Nat /\ last.missing \in Nat
    BY <1>1, ThreadFacts
  <2>5. r.pc # "idle" => /\ last'.member[r.user] \in Nat /\ last.member[r.user] \in Nat
                         /\ last'.out[r.user] \in Nat /\ last.out[r.user] \in Nat
    BY <1>1, <2>2, ThreadFacts
  <2>6. r' = r
    OBVIOUS
  <2>7. Heard(r)'
    BY <1>2, <2>1, <2>2, <2>3, <2>4, <2>5, <2>6, Ages DEF Heard, Asking
  <2>8. Founded(r)'
    BY <2>1, <2>2, <2>3, <2>4, <2>5, <2>6, Ages DEF Founded
  <2> QED BY <2>7, <2>8
<1> QED BY <1>2, <1>3, <1>4, <1>5 DEF IdentityInv, IdentityTypeOK

\* Older keeps ages in order.
LEMMA OlderKeeps ==
  ASSUME NEW a \in Age, NEW b \in Age, NEW k \in Nat
  PROVE  /\ Older(a) \in Age /\ Older(a) <= a + 1
         /\ a <= b + k => Older(a) <= Older(b) + k
         /\ k > 0 /\ a < b + k => Older(a) < Older(b) + k
<1>1. CASE a < LongAgo /\ b < LongAgo
  BY <1>1, Ages DEF Older, Age
<1>2. CASE a < LongAgo /\ ~(b < LongAgo)
  BY <1>2, Ages DEF Older, Age
<1>3. CASE ~(a < LongAgo)
  BY <1>3, Ages DEF Older, Age
<1> QED BY <1>1, <1>2, <1>3

\* What an entry vouches for grows old with the entry.
LEMMA DatedKeeps ==
  ASSUME NEW u \in User, NEW e \in Entry, NEW f \in Entry, Dated(u, e), IdentityInv,
         f.known = e.known, f.member = e.member, f.grant = e.grant, f.checked = Older(e.checked),
         last'.member[u] \in {0, Older(last.member[u])}, last'.out[u] \in {0, Older(last.out[u])},
         last'.granted \in {0, Older(last.granted)}, last'.missing \in {0, Older(last.missing)}
  PROVE  Dated(u, f)'
<1>1. /\ e.checked \in Age /\ last.member[u] \in Age /\ last.out[u] \in Age
      /\ last.granted \in Age /\ last.missing \in Age
  BY DEF Entry, IdentityInv, IdentityTypeOK
<1>2. MaxLatency \in Nat /\ Window + 2 * MaxLatency \in Nat /\ Window + 2 * MaxLatency > 0
      /\ Window + MaxLatency \in Nat /\ Window + MaxLatency > 0
  BY Ages
<1>3. Older(e.checked) \in Nat /\ e.checked \in Nat
  BY <1>1, <1>2, OlderKeeps, Ages DEF Age
<1>4. e.known = "usable" /\ e.member => last'.member[u] <= f.checked + MaxLatency
  BY <1>1, <1>2, <1>3, OlderKeeps DEF Dated
<1>5. e.known = "usable" /\ ~e.member => last'.out[u] <= f.checked + MaxLatency
  BY <1>1, <1>2, <1>3, OlderKeeps DEF Dated
<1>6. e.known = "usable" /\ e.grant => last'.granted < f.checked + (Window + 2 * MaxLatency)
  <2>1. e.known = "usable" /\ e.grant => last.granted < e.checked + (Window + 2 * MaxLatency)
    BY <1>1, <1>3, Ages DEF Dated, Age
  <2> QED BY <1>1, <1>2, <1>3, <2>1, OlderKeeps
<1>7. e.known = "dangling" => last'.missing < f.checked + (Window + MaxLatency)
  <2>1. e.known = "dangling" => last.missing < e.checked + (Window + MaxLatency)
    BY <1>1, <1>3, Ages DEF Dated, Age
  <2> QED BY <1>1, <1>2, <1>3, <2>1, OlderKeeps
<1>8. /\ f.checked + (Window + 2 * MaxLatency) = f.checked + Window + 2 * MaxLatency
      /\ f.checked + (Window + MaxLatency) = f.checked + Window + MaxLatency
  BY <1>3, Ages
<1> QED BY <1>4, <1>5, <1>6, <1>7, <1>8 DEF Dated

\* A request that goes on asking.
LEMMA HeardKeeps ==
  ASSUME NEW q \in Request, NEW r \in Request, Heard(q), q.pc \in Asking, IdentityInv,
         r.pc = q.pc, r.user = q.user, r.since = q.since + 1, r.member = q.member,
         r.answer = q.answer, r.cached.known = q.cached.known,
         r.cached.member = q.cached.member, r.cached.grant = q.cached.grant,
         r.cached.checked = Older(q.cached.checked),
         \A u \in User : /\ last'.member[u] \in {0, Older(last.member[u])}
                         /\ last'.out[u] \in {0, Older(last.out[u])},
         last'.granted \in {0, Older(last.granted)}, last'.missing \in {0, Older(last.missing)}
  PROVE  Heard(r)' /\ Founded(r)'
<1>1. /\ q.user \in User /\ Dated(q.user, q.cached) /\ q.cached \in Entry /\ r.cached \in Entry
      /\ q.since \in Nat
  BY Ages DEF Heard, Request, Asking
<1>2. Dated(r.user, r.cached)'
  BY <1>1, DatedKeeps
<1>3. \A a \in Age : Older(a) \in Nat /\ a \in Nat /\ Older(a) <= a + 1
  BY OlderKeeps, Ages DEF Age
<1>4. /\ last.member[q.user] \in Age /\ last.out[q.user] \in Age
      /\ last.granted \in Age /\ last.missing \in Age
  BY <1>1 DEF IdentityInv, IdentityTypeOK
<1>5. /\ last'.member[q.user] <= last.member[q.user] + 1
      /\ last'.out[q.user] <= last.out[q.user] + 1
      /\ last'.granted <= last.granted + 1 /\ last'.missing <= last.missing + 1
  BY <1>1, <1>3, <1>4
<1>6. /\ last'.member[q.user] \in Nat /\ last.member[q.user] \in Nat
      /\ last'.out[q.user] \in Nat /\ last.out[q.user] \in Nat
      /\ last'.granted \in Nat /\ last.granted \in Nat
      /\ last'.missing \in Nat /\ last.missing \in Nat
  BY <1>1, <1>3, <1>4
<1>7. Heard(r)'
  BY <1>1, <1>2, <1>5, <1>6, Ages DEF Heard
<1>8. Founded(r)'
  BY DEF Founded, Asking
<1> QED BY <1>7, <1>8

\* Time passes for everything remembered and for the history.
LEMMA PassInv ==
  ASSUME IdentityInv, Pass
  PROVE  IdentityInv'
<1>1. /\ last' \in [member : [User -> Age], out : [User -> Age], granted : Age, missing : Age]
      /\ \A u \in User : /\ last'.member[u] \in {0, Older(last.member[u])}
                         /\ last'.out[u] \in {0, Older(last.out[u])}
      /\ last'.granted \in {0, Older(last.granted)} /\ last'.missing \in {0, Older(last.missing)}
      /\ \A a \in Age : Older(a) \in Age /\ Older(a) <= a + 1
  <2>1. /\ \A a \in Age : Older(a) \in Age /\ Older(a) <= a + 1
        /\ 0 \in Age
    BY OlderKeeps, Ages DEF Age
  <2> QED BY <2>1 DEF IdentityInv, IdentityTypeOK, Noted, Pass
<1>2. /\ ids' \in [User -> Entry]
      /\ \A u \in User : /\ ids'[u].known = ids[u].known /\ ids'[u].member = ids[u].member
                         /\ ids'[u].grant = ids[u].grant /\ ids'[u].checked = Older(ids[u].checked)
  <2>1. /\ \A u \in User : ids[u] \in Entry
        /\ ids' = [u \in User |-> [ids[u] EXCEPT !.checked = Older(ids[u].checked)]]
    BY DEF Pass, IdentityInv, IdentityTypeOK
  <2>2. ASSUME NEW e \in Entry, NEW f, f = [e EXCEPT !.checked = Older(e.checked)]
        PROVE  /\ f \in Entry /\ f.known = e.known /\ f.member = e.member
               /\ f.grant = e.grant /\ f.checked = Older(e.checked)
    BY <1>1, <2>2 DEF Entry
  <2>3. \A u \in User : ids'[u] = [ids[u] EXCEPT !.checked = Older(ids[u].checked)]
    BY <2>1
  <2>4. \A u \in User : /\ ids'[u] \in Entry
                        /\ ids'[u].known = ids[u].known /\ ids'[u].member = ids[u].member
                        /\ ids'[u].grant = ids[u].grant /\ ids'[u].checked = Older(ids[u].checked)
    BY <2>1, <2>2, <2>3
  <2> QED BY <2>1, <2>4
<1>3. \A u \in User : Dated(u, ids[u])'
  BY <1>1, <1>2, DatedKeeps DEF IdentityInv, IdentityTypeOK
<1>4. perms' \in PermEntry /\ PermsDated'
  <2>1. /\ perms'.known = perms.known /\ perms'.grant = perms.grant
        /\ perms'.checked = Older(perms.checked)
        /\ perms'.missing = IF perms.missing > 0 THEN perms.missing - 1 ELSE 0
        /\ perms' = [perms EXCEPT !.checked = perms'.checked, !.missing = perms'.missing]
        /\ perms.checked \in Age /\ perms.missing \in Nat /\ perms.missing <= Window
    <3>1. perms' = [perms EXCEPT !.checked = Older(perms.checked),
                      !.missing = IF perms.missing > 0 THEN perms.missing - 1 ELSE 0]
      BY DEF Pass
    <3>2. perms \in PermEntry
      BY DEF IdentityInv, IdentityTypeOK
    <3>3. perms.checked \in Age /\ perms.missing \in Nat /\ perms.missing <= Window
      BY <3>2, Ages DEF PermEntry
    <3>4. /\ perms'.known = perms.known /\ perms'.grant = perms.grant
          /\ perms'.checked = Older(perms.checked)
          /\ perms'.missing = IF perms.missing > 0 THEN perms.missing - 1 ELSE 0
      BY <3>1, <3>2 DEF PermEntry
    <3> QED BY <3>1, <3>3, <3>4
  <2>2. perms' \in PermEntry
    <3>1. perms'.checked \in Age /\ perms'.missing \in 0..Window
      BY <1>1, <2>1, Ages
    <3> QED BY <2>1, <3>1 DEF IdentityInv, IdentityTypeOK, PermEntry
  <2>3. perms.known /\ perms.grant => last'.granted <= perms'.checked + MaxLatency
    <3>1. last.granted \in Age /\ MaxLatency \in Nat /\ PermsDated /\ Older(perms.checked) \in Nat
      BY <1>1, <2>1, Ages DEF IdentityInv, IdentityTypeOK, Age
    <3> QED BY <1>1, <2>1, <3>1, OlderKeeps DEF PermsDated
  <2>4. perms'.missing > 0 => last'.missing <= Window - perms'.missing + MaxLatency
    <3>1. last.missing \in Age /\ PermsDated
      BY DEF IdentityInv, IdentityTypeOK
    <3> QED BY <1>1, <2>1, <3>1, Ages DEF PermsDated, Age
  <2> QED BY <2>1, <2>2, <2>3, <2>4 DEF PermsDated
<1>5. UpToDate'
  BY DEF IdentityInv, IdentityTypeOK, UpToDate, Noted, Pass
<1>6. ASSUME NEW t \in Thread
      PROVE  requests'[t] \in Request /\ Heard(requests[t])' /\ Founded(requests[t])'
  <2>1. CASE requests[t].pc \notin Asking
    <3>1. requests'[t] = Idle
      BY <2>1 DEF Pass, IdentityInv, IdentityTypeOK
    <3> QED BY <3>1, IdleTyped DEF Heard, Founded, Asking
  <2>2. CASE requests[t].pc \in Asking
    <3> DEFINE q == requests[t]
               r == [q EXCEPT !.since = @ + 1, !.cached.checked = Older(@)]
    <3>1. requests'[t] = r
      BY <2>2 DEF Pass, IdentityInv, IdentityTypeOK
    <3>2. /\ q \in Request /\ Heard(q) /\ q.since \in 0..MaxLatency /\ q.since < MaxLatency
          /\ q.cached \in Entry
      BY <2>2, ThreadFacts DEF Pass, Request
    <3>3. /\ r.pc = q.pc /\ r.user = q.user /\ r.since = q.since + 1 /\ r.member = q.member
          /\ r.answer = q.answer
          /\ r.cached = [q.cached EXCEPT !.checked = Older(@)]
          /\ r \in Request
      <4>1. [q.cached EXCEPT !.checked = Older(@)] \in Entry
        BY <1>1, <3>2 DEF Entry
      <4>2. q.since + 1 \in 0..MaxLatency
        BY <3>2, Ages
      <4> HIDE DEF q
      <4> QED BY <3>2, <4>1, <4>2 DEF Request
    <3>4. /\ requests'[t].cached.known = q.cached.known
          /\ requests'[t].cached.member = q.cached.member
          /\ requests'[t].cached.grant = q.cached.grant
          /\ requests'[t].cached.checked = Older(q.cached.checked)
      BY <3>1, <3>2, <3>3 DEF Entry
    <3>5. q \in Request /\ Heard(q) /\ q.pc \in Asking /\ requests'[t] \in Request
      BY <2>2, <3>1, <3>2, <3>3
    <3>6. /\ requests'[t].pc = q.pc /\ requests'[t].user = q.user
          /\ requests'[t].since = q.since + 1 /\ requests'[t].member = q.member
          /\ requests'[t].answer = q.answer
      BY <3>1, <3>3
    <3> HIDE DEF q, r
    <3>7. Heard(requests[t])' /\ Founded(requests[t])'
      BY <1>1, <3>4, <3>5, <3>6, HeardKeeps
    <3> QED BY <3>5, <3>7
  <2> QED BY <2>1, <2>2
<1>7. IdentityTypeOK'
  BY <1>1, <1>2, <1>4, <1>6 DEF IdentityInv, IdentityTypeOK, Pass
<1> QED BY <1>3, <1>4, <1>5, <1>6, <1>7 DEF IdentityInv

-----------------------------------------------------------------------------
\* Nothing is remembered at first.
LEMMA IdentityStarts ==
  ASSUME IdentityInit
  PROVE  IdentityInv
<1>1. 0 \in Age /\ LongAgo \in Age
  BY Ages DEF Age
<1>2. IdentityTypeOK
  <2>1. /\ glue \in [users : [User -> Account], role : RoleState, changes : 0..MaxChanges]
    BY IdentityAssumption DEF IdentityInit, Account
  <2>2. perms \in PermEntry /\ ids \in [User -> Entry] /\ requests \in [Thread -> Request]
    BY <1>1, NoEntryTyped, IdleTyped, Ages DEF IdentityInit, PermEntry
  <2>3. last \in [member : [User -> Age], out : [User -> Age], granted : Age, missing : Age]
    BY <1>1 DEF IdentityInit, Noted
  <2> QED BY <2>1, <2>2, <2>3 DEF IdentityTypeOK
<1>3. UpToDate
  BY <1>2 DEF IdentityInit, UpToDate, Noted, IdentityTypeOK
<1>4. PermsDated /\ \A u \in User : Dated(u, ids[u])
  BY NoEntryTyped DEF IdentityInit, PermsDated
<1>5. \A t \in Thread : Heard(requests[t]) /\ Founded(requests[t])
  BY IdleTyped DEF IdentityInit, Heard, Founded, Asking
<1> QED BY <1>2, <1>3, <1>4, <1>5 DEF IdentityInv

\* Every step keeps the invariant.
LEMMA IdentityStays ==
  ASSUME IdentityInv, [IdentityNext]_identityVars
  PROVE  IdentityInv'
<1>1. ASSUME NEW t \in Thread, IdentityStep(t)
      PROVE  IdentityInv'
  BY <1>1, BeginInv, AnswerUserInv, StrandInv, UnreachableInv, ReadPermsInv, AnswerRoleInv,
     StorePermsInv, StoreInv DEF IdentityStep
<1>2. ASSUME NEW u \in User, NEW a \in Account, ChangeAccount(u, a)
      PROVE  IdentityInv'
  <2>1. glue' \in [users : [User -> Account], role : RoleState, changes : 0..MaxChanges]
    <3>1. glue \in [users : [User -> Account], role : RoleState, changes : 0..MaxChanges]
      BY DEF IdentityInv, IdentityTypeOK
    <3>2. glue.changes + 1 \in 0..MaxChanges
      BY <1>2, <3>1, IdentityAssumption DEF ChangeAccount
    <3>3. glue' = [users |-> [glue.users EXCEPT ![u] = a], role |-> glue.role,
                   changes |-> glue.changes + 1]
      BY <1>2, <3>1 DEF ChangeAccount
    <3> QED BY <3>1, <3>2, <3>3
  <2> QED BY <1>2, <2>1, ChangeInv DEF ChangeAccount
<1>3. ASSUME NEW s \in RoleState, ChangeRole(s)
      PROVE  IdentityInv'
  <2>1. glue' \in [users : [User -> Account], role : RoleState, changes : 0..MaxChanges]
    <3>1. glue \in [users : [User -> Account], role : RoleState, changes : 0..MaxChanges]
      BY DEF IdentityInv, IdentityTypeOK
    <3>2. glue.changes + 1 \in 0..MaxChanges
      BY <1>3, <3>1, IdentityAssumption DEF ChangeRole
    <3>3. glue' = [users |-> glue.users, role |-> s, changes |-> glue.changes + 1]
      BY <1>3, <3>1 DEF ChangeRole
    <3> QED BY <3>1, <3>2, <3>3
  <2> QED BY <1>3, <2>1, ChangeInv DEF ChangeRole
<1>4. CASE UNCHANGED identityVars
  BY <1>4 DEF identityVars, IdentityInv, IdentityTypeOK, UpToDate, PermsDated, Dated, Heard, Founded
<1> QED BY <1>1, <1>2, <1>3, <1>4, PassInv DEF IdentityNext

\* Nothing remembered is older than it says.
THEOREM IdentityHolds == IdentitySpec => []IdentityInv
<1> QED BY IdentityStarts, IdentityStays, PTL DEF IdentitySpec

\* Everything remembered has its type, for any windows (glue_identity.py:40-120).
THEOREM IdentityTypes == IdentitySpec => []IdentityTypeOK
<1>1. IdentityInv => IdentityTypeOK
  BY DEF IdentityInv
<1> QED BY <1>1, IdentityHolds, PTL

\* The fail-closed promise of get_identity: nobody is let in whose last good
\* standing is longer ago than the larger window and one exchange with Glue.
THEOREM IdentityAdmitted == IdentitySpec => []AdmittedWasMember
<1>1. IdentityInv => AdmittedWasMember
  BY DEF IdentityInv, Founded, AdmittedWasMember, Admitted, Of
<1> QED BY <1>1, IdentityHolds, PTL

\* A permission taken from the role is out of use after the windows and two exchanges.
THEOREM IdentityGrants == IdentitySpec => []GrantWasHeld
<1>1. IdentityInv => GrantWasHeld
  BY DEF IdentityInv, Founded, GrantWasHeld, Admitted
<1> QED BY <1>1, IdentityHolds, PTL

\* Nobody is turned away on a memory older than the windows and two exchanges.
THEOREM IdentityRefusals == IdentitySpec => []RefusedForAReason
<1>1. IdentityInv => RefusedForAReason
  BY DEF IdentityInv, Founded, RefusedForAReason, Refused, Of
<1> QED BY <1>1, IdentityHolds, PTL
=============================================================================
