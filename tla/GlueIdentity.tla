---------------------------- MODULE GlueIdentity ----------------------------
(***************************************************************************)
(* backend/services/glue_identity.py and the decisions of backend/auth.py  *)
(* on it: what a process remembers of users and roles, and whom it lets    *)
(* in.  Glue owns the accounts and the role; every request may have to ask *)
(* it, and Glue may change or fail between any two steps.  Points in time  *)
(* are kept as ages: how long ago they are.                                *)
(***************************************************************************)
EXTENDS Integers

CONSTANTS
  User,         \* users; they share one role
  NoUser,
  Thread,       \* request threads of the process
  Window,       \* OIDC_REVALIDATE_SECONDS (at least 1)
  Grace,        \* OIDC_STALE_GRACE_SECONDS
  MaxLatency,   \* how long a request asks Glue and stores the answers, at most
  MayFail,      \* whether Glue may be unreachable
  MaxChanges    \* bound of the model: changes of accounts and role

ASSUME IdentityAssumption ==
  /\ NoUser \notin User
  /\ Window \in Nat \ {0}
  /\ Grace \in Nat
  /\ MaxLatency \in Nat
  /\ MayFail \in BOOLEAN
  /\ MaxChanges \in Nat

VARIABLES
  glue,         \* Glue: the accounts, the role, the number of changes
  ids,          \* _identity_cache
  perms,        \* _perm_cache and _role_negative, of the role
  requests,     \* the threads
  last          \* history: when each account was last in order and last not, when
                \* the role last granted and was last missing

identityVars == <<glue, ids, perms, requests, last>>

\* How old an identity may be that lets somebody in.
Trust == IF Grace > Window THEN Grace ELSE Window

\* Ages beyond what anything depends on are all the same, and the same as never.
LongAgo  == Trust + 2 * Window + 2 * MaxLatency
Age      == 0..LongAgo
Older(a) == IF a < LongAgo THEN a + 1 ELSE LongAgo

Account   == {"member", "barred", "gone"}  \* barred: status 0, or without system cd
RoleState == {"granted", "bare", "gone"}   \* with the permission, without it, no such role

Entry == [known   : {"nothing", "usable", "dangling"},
          member  : BOOLEAN,          \* neither disabled nor without system cd
          grant   : BOOLEAN,          \* permissions
          checked : Age]              \* checked_at; of a usable entry also last_ok_at
NoEntry == [known |-> "nothing", member |-> FALSE, grant |-> FALSE, checked |-> LongAgo]

\* missing: how long a 404 is still remembered.
PermEntry == [known : BOOLEAN, grant : BOOLEAN, checked : Age, missing : 0..Window]

Asking  == {"user", "gotUser", "strand", "role", "gotRole", "store"}
Outcome == {"admitted", "refused", "unavailable"}

\* cached: the local copy, if it is usable, later the identity given; member, answer: what Glue
\* said; since: how long it has been asking.
Request == [pc     : {"idle"} \cup Asking \cup Outcome,
            user   : User \cup {NoUser},
            cached : Entry,
            member : BOOLEAN,
            answer : RoleState,
            since  : 0..MaxLatency]
Idle == [pc |-> "idle", user |-> NoUser, cached |-> NoEntry, member |-> FALSE,
         answer |-> "gone", since |-> 0]

\* The history once Glue is g.
Noted(h, g) ==
  [member  |-> [u \in User |-> IF g.users[u] = "member" THEN 0 ELSE h.member[u]],
   out     |-> [u \in User |-> IF g.users[u] # "member" THEN 0 ELSE h.out[u]],
   granted |-> IF g.role = "granted" THEN 0 ELSE h.granted,
   missing |-> IF g.role = "gone" THEN 0 ELSE h.missing]

IdentityInit ==
  /\ glue \in [users : [User -> {"member"}], role : RoleState, changes : {0}]
  /\ ids = [u \in User |-> NoEntry]
  /\ perms = [known |-> FALSE, grant |-> FALSE, checked |-> LongAgo, missing |-> 0]
  /\ requests = [t \in Thread |-> Idle]
  /\ last = Noted([member |-> [u \in User |-> LongAgo], out |-> [u \in User |-> LongAgo],
                   granted |-> LongAgo, missing |-> LongAgo], glue)

-----------------------------------------------------------------------------
At(t, pc) == requests[t].pc = pc
Of(t)     == requests[t].user
Goes(t, pc) == requests' = [requests EXCEPT ![t].pc = pc]

\* The outcome of a request, with the identity it rests on.
Decide(t, outcome, entry) ==
  requests' = [requests EXCEPT ![t] =
    [Idle EXCEPT !.pc = outcome, !.user = Of(t), !.cached = entry]]

\* The caller's decision on an identity (_oidc_identity, load_user_context): a
\* dangling role and barred users are refused.
Judged(entry) == IF entry.known = "usable" /\ entry.member THEN "admitted" ELSE "refused"

Given(t, entry) == Decide(t, Judged(entry), entry)

Fresh(entry) == entry.known # "nothing" /\ entry.checked < Window

\* get_identity for a request, a background task or the end of a login, up to the
\* first call: an entry within the window decides.
Begin(t, u) ==
  /\ requests[t].pc \in {"idle"} \cup Outcome
  /\ LET entry == ids[u]
         asked == [Idle EXCEPT !.user = u,
                               !.cached = IF entry.known = "usable" THEN entry ELSE NoEntry]
     IN  requests' = [requests EXCEPT ![t] =
           [asked EXCEPT !.pc = IF Fresh(entry) THEN Judged(entry) ELSE "user"]]
  /\ UNCHANGED <<glue, ids, perms, last>>

\* Glue answers the question for the account (_fetch_identity).
AnswerUser(t) ==
  /\ At(t, "user")
  /\ LET account == glue.users[Of(t)]
     IN  IF account = "gone"
         THEN Goes(t, "strand")
         ELSE requests' = [requests EXCEPT ![t].pc = "gotUser",
                                           ![t].member = (account = "member")]
  /\ UNCHANGED <<glue, ids, perms, last>>

\* A definite no: the entry is dropped (invalidate).
Strand(t) ==
  /\ At(t, "strand")
  /\ ids' = [ids EXCEPT ![Of(t)] = NoEntry]
  /\ Decide(t, "refused", NoEntry)
  /\ UNCHANGED <<glue, perms, last>>

\* Mutant of Excused: any last known identity will do.
ExcusedAlways(entry) == entry.known = "usable" /\ Grace > 0

\* The last known identity holds while its last success is recent.
Excused(entry) ==
  entry.known = "usable" /\ Grace > 0 /\ entry.checked <= Grace

\* Glue does not answer (_soft_fail_or_raise).
Unreachable(t) ==
  /\ MayFail
  /\ At(t, "user") \/ At(t, "role")
  /\ LET entry == requests[t].cached
     IN  IF Excused(entry) THEN Given(t, entry) ELSE Decide(t, "unavailable", NoEntry)
  /\ UNCHANGED <<glue, ids, perms, last>>

\* Mutant of FreshPerms: a role once known is not asked for again.
FreshPermsForever == perms.known

FreshPerms == perms.known /\ perms.checked < Window

\* The role is answered: the local copy has no further use.
Answered(t, pc, role) ==
  requests' = [requests EXCEPT ![t].pc = pc, ![t].answer = role, ![t].cached = NoEntry]

\* Mutant of ReadPerms: whoever meets the memory of a 404 renews it.
ReadPermsRenewing(t) ==
  /\ At(t, "gotUser")
  /\ \/ /\ FreshPerms /\ Answered(t, "store", IF perms.grant THEN "granted" ELSE "bare")
        /\ UNCHANGED perms
     \/ /\ ~FreshPerms /\ perms.missing > 0 /\ Answered(t, "store", "gone")
        /\ perms' = [perms EXCEPT !.missing = Window]
     \/ /\ ~FreshPerms /\ perms.missing = 0
        /\ Goes(t, "role") /\ UNCHANGED perms
  /\ UNCHANGED <<glue, ids, last>>

\* role_permissions up to its call.  A 404 within the window is not asked again.
ReadPerms(t) ==
  /\ At(t, "gotUser")
  /\ \/ FreshPerms /\ Answered(t, "store", IF perms.grant THEN "granted" ELSE "bare")
     \/ ~FreshPerms /\ perms.missing > 0 /\ Answered(t, "store", "gone")
     \/ /\ ~FreshPerms
        /\ perms.missing = 0
        /\ Goes(t, "role")
  /\ UNCHANGED <<glue, ids, perms, last>>

AnswerRole(t) ==
  /\ At(t, "role")
  /\ Answered(t, "gotRole", glue.role)
  /\ UNCHANGED <<glue, ids, perms, last>>

\* Mutant of StorePerms: a 404 is remembered for two windows.
StorePermsTwice(t) ==
  /\ At(t, "gotRole")
  /\ perms' = IF requests[t].answer = "gone"
              THEN [perms EXCEPT !.missing = 2 * Window]
              ELSE [known |-> TRUE, grant |-> requests[t].answer = "granted",
                    checked |-> 0, missing |-> 0]
  /\ Goes(t, "store")
  /\ UNCHANGED <<glue, ids, last>>

\* A 404 is remembered for a window; an answer ends that.
StorePerms(t) ==
  /\ At(t, "gotRole")
  /\ perms' = IF requests[t].answer = "gone"
              THEN [perms EXCEPT !.missing = Window]
              ELSE [known |-> TRUE, grant |-> requests[t].answer = "granted",
                    checked |-> 0, missing |-> 0]
  /\ Goes(t, "store")
  /\ UNCHANGED <<glue, ids, last>>

\* The end of get_identity: a usable entry of this moment, or one that says since
\* when the role dangles.
Store(t) ==
  /\ At(t, "store")
  /\ LET r == requests[t]
         entry == [known   |-> IF r.answer = "gone" THEN "dangling" ELSE "usable",
                   member  |-> r.member /\ r.answer # "gone",
                   grant   |-> r.answer = "granted",
                   checked |-> IF r.answer = "gone" THEN r.since ELSE 0]
     IN  ids' = [ids EXCEPT ![r.user] = entry] /\ Given(t, entry)
  /\ UNCHANGED <<glue, perms, last>>

-----------------------------------------------------------------------------
\* Glue's administrators.
ChangeAccount(u, a) ==
  /\ glue.changes < MaxChanges
  /\ a # glue.users[u]
  /\ glue' = [glue EXCEPT !.users[u] = a, !.changes = @ + 1]
  /\ last' = Noted(last, glue')
  /\ UNCHANGED <<ids, perms, requests>>

ChangeRole(s) ==
  /\ glue.changes < MaxChanges
  /\ s # glue.role
  /\ glue' = [glue EXCEPT !.role = s, !.changes = @ + 1]
  /\ last' = Noted(last, glue')
  /\ UNCHANGED <<ids, perms, requests>>

\* Time passes: who asks Glue is answered or gives up in time, and an outcome is
\* of the moment it is given.
Pass ==
  /\ \A t \in Thread : requests[t].pc \in Asking => requests[t].since < MaxLatency
  /\ requests' = [t \in Thread |->
       IF requests[t].pc \in Asking
       THEN [requests[t] EXCEPT !.since = @ + 1, !.cached.checked = Older(@)]
       ELSE Idle]
  /\ ids' = [u \in User |-> [ids[u] EXCEPT !.checked = Older(@)]]
  /\ perms' = [perms EXCEPT !.checked = Older(@), !.missing = IF @ > 0 THEN @ - 1 ELSE 0]
  /\ last' = Noted([member  |-> [u \in User |-> Older(last.member[u])],
                    out     |-> [u \in User |-> Older(last.out[u])],
                    granted |-> Older(last.granted),
                    missing |-> Older(last.missing)], glue)
  /\ UNCHANGED glue

IdentityStep(t) ==
  \/ \E u \in User : Begin(t, u)
  \/ AnswerUser(t) \/ Strand(t) \/ Unreachable(t)
  \/ ReadPerms(t) \/ AnswerRole(t) \/ StorePerms(t) \/ Store(t)

IdentityNext ==
  \/ \E t \in Thread : IdentityStep(t)
  \/ \E u \in User, a \in Account : ChangeAccount(u, a)
  \/ \E s \in RoleState : ChangeRole(s)
  \/ Pass

IdentitySpec == IdentityInit /\ [][IdentityNext]_identityVars

-----------------------------------------------------------------------------
IdentityTypeOK ==
  /\ glue \in [users : [User -> Account], role : RoleState, changes : 0..MaxChanges]
  /\ ids \in [User -> Entry]
  /\ perms \in PermEntry
  /\ requests \in [Thread -> Request]
  /\ last \in [member : [User -> Age], out : [User -> Age], granted : Age, missing : Age]

Admitted(t) == requests[t].pc = "admitted"
Refused(t)  == requests[t].pc = "refused"

\* Whoever is admitted was a member in good standing not longer ago than the
\* larger of the two windows and one exchange with Glue: neither failures, nor
\* answers that arrive late or out of order, extend it (glue_identity.py:209, "the
\* window is not renewed by failing requests").
AdmittedWasMember ==
  \A t \in Thread : Admitted(t) => last.member[Of(t)] <= Trust + MaxLatency

\* A permission that is used was granted not longer ago than that, one more window
\* and one more exchange: the permissions an identity is stored with may be as old.
GrantWasHeld ==
  \A t \in Thread : Admitted(t) /\ requests[t].cached.grant =>
    last.granted < Trust + Window + 2 * MaxLatency

\* Whoever is refused was out, or the role was missing, not longer ago than two
\* windows and two exchanges: the memory of a 404 ends, though an entry may be
\* made of another entry's memory.
RefusedForAReason ==
  \A t \in Thread : Refused(t) =>
    \/ last.out[Of(t)] <= Trust + MaxLatency
    \/ last.missing < 2 * Window + 2 * MaxLatency

\* "Taking a permission from a role, or the role, must take effect within the
\* window" (glue_identity.py:268-269), if Glue always answers.  Violated when the
\* two caches expire one after the other; what holds is GrantWasHeld.
PermTakesEffect ==
  \A t \in Thread : Admitted(t) /\ requests[t].cached.grant =>
    last.granted <= Window + MaxLatency
=============================================================================
