--------------------------- MODULE ApprovalTickets ---------------------------
(***************************************************************************)
(* The table cd_approvals and the statements of                            *)
(* backend/services/approval_service.py that write it.  A ticket changes   *)
(* status only through _transition, an UPDATE guarded by the statuses it   *)
(* may leave, so each operator below is one atomic step: a decision whose  *)
(* ticket has moved on meanwhile writes nothing.                           *)
(*                                                                         *)
(* TicketSpec is the life of the tickets under any interleaving of those   *)
(* statements; which of them run when is the business of ApprovalFlow.     *)
(***************************************************************************)
EXTENDS DeployBase

CONSTANTS
  User,         \* usernames
  Approver,     \* those can_approve admits: super, cd.deploy.approve, named in
                \* the rule, or holding its approver_role
  Super,        \* those _is_super admits
  NoUser

ASSUME UserAssumption ==
  /\ NoUser \notin User
  /\ Approver \subseteq User
  /\ Super \subseteq Approver

VARIABLE tickets   \* cd_approvals: id -> ticket

TicketStatus == {"none", "pending", "approved", "deploying",
                 "deployed", "failed", "rejected", "cancelled"}
Terminal == {"deployed", "failed", "rejected", "cancelled"}

Ticket == [st        : TicketStatus,
           project   : Project \cup {NoProject},
           requester : User \cup {NoUser},
           approver  : User \cup {NoUser},
           ruled     : BOOLEAN]    \* an approval rule matched when it was filed

NoTicket == [st |-> "none", project |-> NoProject, requester |-> NoUser,
             approver |-> NoUser, ruled |-> FALSE]

TicketInit == tickets = [a \in Approval |-> NoTicket]

\* Mutant of Transition: the status is not re-checked.
TransitionUnchecked(a, from, to) ==
  tickets' = IF from # {} THEN [tickets EXCEPT ![a].st = to] ELSE tickets

\* _transition: WHERE id = a AND status IN from.  A no-op when the ticket is
\* in none of them.
Transition(a, from, to) ==
  tickets' = IF tickets[a].st \in from
             THEN [tickets EXCEPT ![a].st = to]
             ELSE tickets

-----------------------------------------------------------------------------
\* create_approval, as gate_deploy calls it: pending where a rule asks for
\* approval, otherwise (a schedule without a rule) approved with no approver.
File(a, u, p, ruled) ==
  /\ tickets[a].st = "none"
  /\ tickets' = [tickets EXCEPT ![a] =
       [st |-> IF ruled THEN "pending" ELSE "approved", project |-> p,
        requester |-> u, approver |-> NoUser, ruled |-> ruled]]

\* Mutant of MayDecide: approvers may decide on their own requests.
MayDecideOwn(a, v) == a \in Approval /\ v \in Approver

\* Four eyes: nobody, not even a super admin, decides on his own request.
MayDecide(a, v) == v # tickets[a].requester /\ v \in Approver

Approve(a, v) ==
  /\ MayDecide(a, v)
  /\ tickets[a].st = "pending"
  /\ tickets' = [tickets EXCEPT ![a].st = "approved", ![a].approver = v]

Reject(a, v) ==
  /\ MayDecide(a, v)
  /\ tickets[a].st = "pending"
  /\ tickets' = [tickets EXCEPT ![a].st = "rejected", ![a].approver = v]

\* The requester or a super admin withdraws a ticket that is not executing;
\* the approver's name is kept.
Cancel(a, v) ==
  /\ v = tickets[a].requester \/ v \in Super
  /\ tickets[a].st \in {"pending", "approved"}
  /\ Transition(a, {"pending", "approved"}, "cancelled")

\* Mutant of ClaimTicket: a pending ticket can be claimed.
ClaimTicketPending(a, v) ==
  /\ v = tickets[a].requester
  /\ tickets[a].st \in {"pending", "approved"}
  /\ Transition(a, {"pending", "approved"}, "deploying")

\* claim_for_execution: only the requester, only from approved.
ClaimTicket(a, v) ==
  /\ v = tickets[a].requester
  /\ tickets[a].st = "approved"
  /\ Transition(a, {"approved"}, "deploying")

\* The end of run_approval and of its error paths: deploying -> s.
Settle(a, s) ==
  /\ s \in {"deployed", "failed", "cancelled", "approved"}
  /\ Transition(a, {"deploying"}, s)

\* Mutant of Converge: tickets without a finished row are left as they are.
ConvergeFinished(ok, bad, running) ==
  tickets' = [a \in Approval |->
    IF tickets[a].st # "deploying" \/ a \in running THEN tickets[a]
    ELSE [tickets[a] EXCEPT !.st = CASE a \in ok       -> "deployed"
                                     [] a \in bad \ ok -> "failed"
                                     [] OTHER          -> "deploying"]]

\* recover_on_startup: of the tickets still deploying, those in ok become
\* deployed, those in bad failed, those of the rest not in running approved.
Converge(ok, bad, running) ==
  tickets' = [a \in Approval |->
    IF tickets[a].st # "deploying" THEN tickets[a]
    ELSE [tickets[a] EXCEPT !.st = CASE a \in ok      -> "deployed"
                                     [] a \in bad \ ok -> "failed"
                                     [] a \in running \ (ok \cup bad) -> "deploying"
                                     [] OTHER         -> "approved"]]

-----------------------------------------------------------------------------
TicketNext ==
  \/ \E a \in Approval, u \in User :
       \/ \E p \in Project, ruled \in BOOLEAN : File(a, u, p, ruled)
       \/ Approve(a, u) \/ Reject(a, u) \/ Cancel(a, u) \/ ClaimTicket(a, u)
  \/ \E a \in Approval, s \in TicketStatus : Settle(a, s)
  \/ \E ok, bad, running \in SUBSET Approval : Converge(ok, bad, running)

TicketSpec == TicketInit /\ [][TicketNext]_tickets

-----------------------------------------------------------------------------
TicketTypeOK == tickets \in [Approval -> Ticket]

\* A ticket that a rule sent to approval and that got past pending, other than
\* by being withdrawn, carries the name of somebody who may approve and who is
\* not its requester: no path into approved, deploying or an outcome, recovery
\* included, goes round the decision.
FourEyes ==
  \A a \in Approval :
    /\ tickets[a].ruled
    /\ tickets[a].st \in {"approved", "deploying", "deployed", "failed", "rejected"}
    => /\ tickets[a].approver \in Approver
       /\ tickets[a].approver # tickets[a].requester

\* The state machine of approval_service.py:6-9 with the returns of its
\* recovery and busy paths: what is not listed never happens.  A ticket that
\* was decided against or is over stays so, whatever a late executor, a late
\* decision or a sweep still writes.
Edges == {<<"none", "pending">>, <<"none", "approved">>,
          <<"pending", "approved">>, <<"pending", "rejected">>,
          <<"pending", "cancelled">>, <<"approved", "cancelled">>,
          <<"approved", "deploying">>, <<"deploying", "approved">>,
          <<"deploying", "deployed">>, <<"deploying", "failed">>,
          <<"deploying", "cancelled">>}
TicketStep ==
  \A a \in Approval :
    /\ tickets'[a].st # tickets[a].st
         => <<tickets[a].st, tickets'[a].st>> \in Edges
    /\ tickets[a].st # "none"
         => /\ tickets'[a].requester = tickets[a].requester
            /\ tickets'[a].project   = tickets[a].project
    /\ tickets[a].approver # NoUser => tickets'[a].approver = tickets[a].approver
TicketLife == [][TicketStep]_tickets
=============================================================================
