----------------------------- MODULE TargetsProofs -----------------------------
(***************************************************************************)
(* What a success of a deployment means on a cluster and on a host, and    *)
(* what deployments leave alone there, for any services, tags, registries, *)
(* attempts and bounds, and any number of deployments and jobs, of which   *)
(* several may work at one service once the lock has been freed.           *)
(*                                                                         *)
(* On a cluster the verdict is the exit code of "rollout status", which    *)
(* says that the pods run the template, not which one.  The invariant      *)
(* K8sInv adds that between the command and the verdict the template is    *)
(* the one that was sent, or was deleted, or another job of the service    *)
(* has sent its own: "met" is what every such job leaves at the others.    *)
(*                                                                         *)
(* On a host it is the exit code of "up" and a tag in a list.  ComposeInv  *)
(* adds where the image came from: a pull whose exit code nobody looks at  *)
(* has brought what a registry holds, or the look at the image finds out   *)
(* that it has not; and what the env file says, written or not.            *)
(***************************************************************************)
EXTENDS MCTargets, TLAPS

\* The places of a job, and those of one that is not, or no longer, there.
JobPc == {"idle", "check", "read", "send", "restart", "ask", "wait", "rollout", "over", "ok"}
Gone  == {"idle", "over", "ok"}

\* What a job is after.
AimOf(e) == IF e.kind = "undo" THEN e.aim.tag ELSE e.sent

\* What a job e and the Deployments c have to do with each other when services are
\* deployed as m says.
Fits(m, e, c) ==
  /\ e.pc \in Gone <=> e.svc = None
  /\ e.held => e.svc # None
  /\ e.svc # None => e.tag \in Tag /\ e.sent \in Tag
  /\ e.svc # None /\ e.kind = "undo" => m[e.svc] \in {"kubectl", "helm", "argocd"}
  /\ e.pc \in {"check", "read", "send"} => e.tries < Applies
  /\ e.pc \in {"restart", "rollout"} /\ m[e.svc] \in {"kubectl", "k8s", "yaml"}
       /\ e.kind = "deploy" /\ e.code = 0 /\ ~e.met => c[e.svc].spec \in {e.sent, None}
  /\ e.pc = "wait" /\ m[e.svc] = "helm" /\ ~e.met => c[e.svc].spec \in {AimOf(e), None}

Bounded ==
  /\ used \in [jobs : Nat, losses : Nat, turns : 0..MaxTurns]
  /\ \A s \in Service : desired[s].rev <= used.turns

K8sInv ==
  /\ K8sTypeOK
  /\ Bounded
  /\ \A j \in JobId : Fits(mode, jobs[j], cluster)

\* Deployments that change no template a job of this kind relies on: they are deleted,
\* or are those of Argo CD and Flux.
Mild(m, c, d) ==
  \A u \in Service : d[u].spec \in {c[u].spec, None} \/ m[u] \in Flux \cup {"argocd"}

\* Job f is what e was asked for.
Follows(e, f) ==
  /\ f \in Job
  /\ f.svc = e.svc /\ f.kind = e.kind /\ f.tag = e.tag /\ f.sent = e.sent /\ f.met = e.met
  /\ f.held = e.held

-----------------------------------------------------------------------------
\* Jobs that are given another value in a field.
LEMMA JobMoves ==
  ASSUME NEW e \in Job, NEW pc \in JobPc
  PROVE  LET f == [e EXCEPT !.pc = pc] IN
         Follows(e, f) /\ f.pc = pc /\ f.aim = e.aim /\ f.code = e.code /\ f.tries = e.tries
  BY DEF Job, JobPc, Follows

LEMMA JobCoded ==
  ASSUME NEW e \in Job, NEW code \in 0..1, NEW pc \in JobPc
  PROVE  LET f == [e EXCEPT !.pc = pc, !.code = code] IN
         Follows(e, f) /\ f.pc = pc
  BY DEF Job, JobPc, Follows

\* The values without a version, and the sets they are in.
LEMMA NothingTyped ==
  /\ None \in Some /\ Tag \subseteq Some /\ None \notin Tag /\ None \notin Service
  /\ Nothing \in Workload /\ Nothing.spec = None
  /\ Applies \in Nat /\ Applies > 0 /\ MaxTurns \in Nat /\ MaxJobs \in Nat
  /\ \A w \in Workload : w.spec \in Some /\ w.undo \in Some /\ w.live \in Some
  /\ \A w \in Workload, t \in Some : Template(w, t) \in Workload /\ Template(w, t).spec = t
  /\ \A s \in Service : mode \in Modes => mode[s] \in Mode
  BY K8sAssumption DEF Some, Nothing, Workload, Template

LEMMA NoJobTyped ==
  /\ NoJob \in Job /\ NoJob.pc = "idle" /\ NoJob.kind = "deploy" /\ NoJob.tries = 0
  /\ NoJob.code = 0 /\ NoJob.aim \in Entry /\ NoJob.svc = None /\ NoJob.held = FALSE
  /\ NoJob.read \in [Service -> Some]
  BY NothingTyped DEF NoJob, Job, Entry

\* A job that is over or done asks for nothing.
LEMMA ClosedFits ==
  ASSUME NEW pc \in {"over", "ok"}, NEW m, NEW c
  PROVE  Closed(pc) \in Job /\ Closed(pc).pc = pc /\ Closed(pc).svc = None /\ Fits(m, Closed(pc), c)
<1>1. Closed(pc) \in Job /\ Closed(pc).pc = pc /\ Closed(pc).svc = None /\ Closed(pc).held = FALSE
  BY NoJobTyped DEF Closed, Job
<1> QED BY <1>1 DEF Fits, Gone

\* Nor does one that goes on, or would if anybody waited for it.
LEMMA ResumedFits ==
  ASSUME NEW j \in JobId, NEW e \in Job, NEW m, NEW c, Fits(m, e, c)
  PROVE  Resumed(j, e) \in Job /\ Fits(m, Resumed(j, e), c)
  BY ClosedFits DEF Resumed

\* What the invariant says of one job and of one service.
LEMMA JobFacts ==
  ASSUME K8sInv, NEW j \in JobId
  PROVE  /\ jobs[j] \in Job /\ jobs \in [JobId -> Job] /\ Fits(mode, jobs[j], cluster)
         /\ jobs[j].svc # None => /\ For(j) \in Service /\ jobs[j].tag \in Tag /\ jobs[j].sent \in Tag
                                  /\ jobs[j].tag \in Some /\ jobs[j].sent \in Some
                                  /\ jobs[j].pc \in JobPc \ Gone
                                  /\ mode[For(j)] \in Mode
         /\ jobs[j].pc \notin Gone => jobs[j].svc # None
         /\ jobs[j].aim \in Entry /\ jobs[j].aim.tag \in Some /\ jobs[j].read \in [Service -> Some]
         /\ jobs[j].tries \in 0..Applies /\ jobs[j].code \in 0..1 /\ jobs[j].kind \in {"deploy", "undo"}
<1>1. jobs[j] \in Job /\ jobs \in [JobId -> Job] /\ Fits(mode, jobs[j], cluster) /\ mode \in Modes
  BY DEF K8sInv, K8sTypeOK
<1>2. /\ jobs[j].aim \in Entry /\ jobs[j].aim.tag \in Some /\ jobs[j].read \in [Service -> Some]
      /\ jobs[j].tries \in 0..Applies /\ jobs[j].code \in 0..1 /\ jobs[j].kind \in {"deploy", "undo"}
      /\ jobs[j].svc \in Service \cup {None} /\ jobs[j].pc \in JobPc
  BY <1>1 DEF Job, Entry, JobPc
<1>3. /\ jobs[j].pc \in Gone <=> jobs[j].svc = None
      /\ jobs[j].svc # None => jobs[j].tag \in Tag /\ jobs[j].sent \in Tag
  BY <1>1 DEF Fits
<1> QED BY <1>1, <1>2, <1>3, NothingTyped DEF For

LEMMA ServiceFacts ==
  ASSUME K8sInv
  PROVE  /\ mode \in Modes /\ cluster \in [Service -> Workload]
         /\ desired \in [Service -> Control] /\ logs \in [Service -> Seq(Tag)]
         /\ \A s \in Service : /\ mode[s] \in Mode /\ cluster[s] \in Workload
                               /\ desired[s] \in Control /\ logs[s] \in Seq(Tag)
  BY NothingTyped DEF K8sInv, K8sTypeOK

\* The invariant after a step, of what it asks.
LEMMA StepInv ==
  ASSUME UNCHANGED mode, mode \in Modes, jobs' \in [JobId -> Job], cluster' \in [Service -> Workload],
         logs' \in [Service -> Seq(Tag)], desired' \in [Service -> Control], Bounded',
         \A x \in JobId : Fits(mode, jobs'[x], cluster')
  PROVE  K8sInv'
<1>1. mode' = mode
  OBVIOUS
<1>2. \A x \in JobId : Fits(mode', jobs'[x], cluster')
  BY <1>1
<1>3. \A x \in JobId : Fits(mode, jobs[x], cluster)'
  BY <1>2 DEF Fits, AimOf
<1> QED BY <1>1, <1>3 DEF K8sInv, K8sTypeOK

\* Other jobs do not mind a mild change.
LEMMA MildFits ==
  ASSUME NEW m, NEW e \in Job, NEW c, NEW d, Mild(m, c, d), Fits(m, e, c)
  PROVE  Fits(m, e, d)
<1>1. e.svc \in Service \cup {None}
  BY DEF Job
<1>2. e.svc = None => e.pc \notin {"restart", "rollout", "wait"}
  BY DEF Fits, Gone
<1>3. e.svc \in Service /\ m[e.svc] \in {"kubectl", "k8s", "yaml", "helm"} =>
        d[e.svc].spec \in {c[e.svc].spec, None}
  BY DEF Mild, Flux
<1> QED BY <1>1, <1>2, <1>3 DEF Fits

\* A step of one job, around which Deployments change mildly.
LEMMA OneJobInv ==
  ASSUME K8sInv, NEW j \in JobId, NEW e \in Job, jobs' = [jobs EXCEPT ![j] = e],
         UNCHANGED mode, cluster' \in [Service -> Workload], Mild(mode, cluster, cluster'),
         Fits(mode, e, cluster'),
         logs' \in [Service -> Seq(Tag)], desired' \in [Service -> Control], Bounded'
  PROVE  K8sInv'
<1>1. /\ jobs' \in [JobId -> Job]
      /\ \A x \in JobId : (x = j /\ jobs'[x] = e) \/ jobs'[x] = jobs[x]
  BY JobFacts
<1>2. \A x \in JobId : Fits(mode, jobs[x], cluster')
  BY JobFacts, MildFits
<1> QED BY <1>1, <1>2, StepInv, ServiceFacts

\* A Deployment that is as it was.
LEMMA SameIsMild ==
  ASSUME K8sInv, UNCHANGED cluster
  PROVE  cluster' \in [Service -> Workload] /\ Mild(mode, cluster, cluster')
  BY ServiceFacts DEF Mild

\* A command of one job, which the others of its service meet.
LEMMA DisturbsInv ==
  ASSUME K8sInv, NEW j \in JobId, jobs[j].svc # None, NEW e \in Job, NEW w \in Workload,
         Disturbs(j, e), cluster' = [cluster EXCEPT ![For(j)] = w],
         UNCHANGED mode, Fits(mode, e, [cluster EXCEPT ![For(j)] = w]),
         logs' \in [Service -> Seq(Tag)], desired' \in [Service -> Control], Bounded'
  PROVE  K8sInv'
<1>1. For(j) \in Service /\ cluster' \in [Service -> Workload]
  BY JobFacts, ServiceFacts
<1>2. \A x \in JobId : jobs'[x] \in Job /\ Fits(mode, jobs'[x], cluster')
  <2> SUFFICES ASSUME NEW x \in JobId PROVE jobs'[x] \in Job /\ Fits(mode, jobs'[x], cluster')
    OBVIOUS
  <2>1. CASE x = j
    <3>1. jobs'[x] = Resumed(j, e)
      BY <2>1 DEF Disturbs
    <3> QED BY <3>1, ResumedFits
  <2>2. CASE x # j /\ For(x) = For(j)
    <3> DEFINE f == [jobs[x] EXCEPT !.met = TRUE]
    <3>1. jobs'[x] = f
      BY <2>2 DEF Disturbs
    <3>2. /\ f \in Job /\ f.met = TRUE /\ f.pc = jobs[x].pc /\ f.svc = jobs[x].svc /\ f.held = jobs[x].held
          /\ f.tag = jobs[x].tag /\ f.sent = jobs[x].sent /\ f.kind = jobs[x].kind /\ f.tries = jobs[x].tries
      BY JobFacts DEF Job
    <3> HIDE DEF f
    <3>3. Fits(mode, f, cluster')
      BY <3>2, JobFacts DEF Fits
    <3> QED BY <3>1, <3>2, <3>3
  <2>3. CASE x # j /\ For(x) # For(j)
    <3>1. jobs'[x] = jobs[x]
      BY <2>3 DEF Disturbs
    <3>2. jobs[x].svc \in Service => cluster'[jobs[x].svc] = cluster[jobs[x].svc]
      BY <1>1, <2>3, ServiceFacts DEF For
    <3>3. Fits(mode, jobs[x], cluster')
      BY <3>2, JobFacts DEF Fits, Gone, For
    <3> QED BY <3>1, <3>3, JobFacts
  <2> QED BY <2>1, <2>2, <2>3
<1>3. jobs' \in [JobId -> Job]
  BY <1>2 DEF Disturbs
<1> QED BY <1>1, <1>2, <1>3, StepInv, ServiceFacts

\* The bounds hold if neither revisions nor turns move.
LEMMA BoundKeeps ==
  ASSUME K8sInv, Loses \/ UNCHANGED used \/ used' = [used EXCEPT !.jobs = @ + 1],
         \A u \in Service : desired'[u].rev = desired[u].rev
  PROVE  Bounded'
<1>1. used' \in [jobs : Nat, losses : Nat, turns : 0..MaxTurns] /\ used'.turns = used.turns
  <2>1. used \in [jobs : Nat, losses : Nat, turns : 0..MaxTurns]
    BY DEF K8sInv, Bounded
  <2> QED BY <2>1 DEF Loses
<1> QED BY <1>1 DEF K8sInv, Bounded

\* ... or if turns move on and revisions stay behind them.
LEMMA BoundTurns ==
  ASSUME K8sInv, Turns,
         \A u \in Service : desired'[u].rev = desired[u].rev
  PROVE  Bounded'
<1>1. /\ used \in [jobs : Nat, losses : Nat, turns : 0..MaxTurns] /\ used.turns < MaxTurns
      /\ used' = [used EXCEPT !.turns = @ + 1]
  BY DEF K8sInv, Bounded, Turns
<1>2. used.turns + 1 \in 0..MaxTurns /\ used.turns \in Nat /\ MaxTurns \in Nat
  BY <1>1, K8sAssumption
<1>3. used' \in [jobs : Nat, losses : Nat, turns : 0..MaxTurns] /\ used'.turns = used.turns + 1
  BY <1>1, <1>2
<1>4. ASSUME NEW u \in Service PROVE desired'[u].rev <= used'.turns
  <2>1. desired[u].rev <= used.turns /\ desired[u].rev \in 0..MaxTurns
    BY ServiceFacts DEF K8sInv, Bounded, Control
  <2> QED BY <1>2, <1>3, <2>1
<1> QED BY <1>3, <1>4 DEF Bounded

\* A job that gives up.
LEMMA FailsInv ==
  ASSUME K8sInv, NEW j \in JobId, Fails(j),
         UNCHANGED mode, cluster' \in [Service -> Workload], Mild(mode, cluster, cluster'),
         logs' \in [Service -> Seq(Tag)], desired' \in [Service -> Control], Bounded'
  PROVE  K8sInv'
  BY ClosedFits, OneJobInv DEF Fails

\* A job that goes on as e, if anybody waits for it.
LEMMA ResumesInv ==
  ASSUME K8sInv, NEW j \in JobId, NEW e \in Job, Resumes(j, e), Fits(mode, e, cluster'),
         UNCHANGED mode, cluster' \in [Service -> Workload], Mild(mode, cluster, cluster'),
         logs' \in [Service -> Seq(Tag)], desired' \in [Service -> Control], Bounded'
  PROVE  K8sInv'
<1>1. Resumed(j, e) \in Job /\ Fits(mode, Resumed(j, e), cluster')
  BY ResumedFits
<1> QED BY <1>1, OneJobInv DEF Resumes

\* A job that only moves on, where that asks for nothing.
LEMMA MoveInv ==
  ASSUME K8sInv, NEW j \in JobId, NEW pc \in JobPc \ (Gone \cup {"check", "restart"}),
         Moves(j, pc), jobs[j].svc # None,
         pc \in {"read", "send"} => jobs[j].pc \in {"check", "read", "send"},
         pc = "rollout" => mode[For(j)] \in Flux,
         pc = "wait" => mode[For(j)] # "helm",
         UNCHANGED mode, cluster' \in [Service -> Workload], Mild(mode, cluster, cluster'),
         logs' \in [Service -> Seq(Tag)], desired' \in [Service -> Control], Bounded'
  PROVE  K8sInv'
<1> DEFINE e == [jobs[j] EXCEPT !.pc = pc]
<1>1. Follows(jobs[j], e) /\ e.pc = pc /\ e.tries = jobs[j].tries
  BY JobFacts, JobMoves
<1>2. Resumes(j, e)
  BY DEF Moves
<1> HIDE DEF e
<1>3. e \in Job /\ Fits(mode, e, cluster')
  BY <1>1, JobFacts DEF Fits, Follows, Flux, Gone, For
<1> QED BY <1>2, <1>3, ResumesInv

\* The verdict: a job ends, and a success is on record.
LEMMA EndsInv ==
  ASSUME K8sInv, NEW j \in JobId, NEW ok, jobs[j].svc # None, Ends(j, ok),
         UNCHANGED <<mode, cluster>>, Bounded', desired' \in [Service -> Control]
  PROVE  K8sInv'
<1>1. PICK pc \in {"over", "ok"} : jobs' = [jobs EXCEPT ![j] = Closed(pc)]
  BY DEF Ends
<1>2. logs' \in [Service -> Seq(Tag)]
  <2>1. For(j) \in Service /\ jobs[j].tag \in Tag /\ logs \in [Service -> Seq(Tag)]
    BY JobFacts, ServiceFacts
  <2>2. Append(logs[For(j)], jobs[j].tag) \in Seq(Tag)
    BY <2>1
  <2>3. \/ logs' = [logs EXCEPT ![For(j)] = Append(@, jobs[j].tag)]
        \/ logs' = logs
    BY DEF Ends
  <2> QED BY <2>1, <2>2, <2>3
<1> QED BY <1>1, <1>2, ClosedFits, SameIsMild, OneJobInv

\* A job is taken on.
LEMMA TakesInv ==
  ASSUME K8sInv, NEW s \in Service, NEW kind \in {"deploy", "undo"}, NEW t \in Tag, NEW sent \in Tag,
         kind = "undo" => Native(s), Takes(s, kind, t, sent)
  PROVE  K8sInv'
<1> DEFINE e == [NoJob EXCEPT !.pc = "check", !.svc = s, !.held = TRUE,
                   !.kind = kind, !.tag = t, !.sent = sent]
<1>1. /\ e \in Job /\ e.pc = "check" /\ e.kind = kind /\ e.tag = t /\ e.sent = sent /\ e.tries = 0
      /\ e.svc = s
  BY NoJobTyped, NothingTyped DEF Job
<1>2. used.jobs + 1 \in JobId
  <2>1. used.jobs \in Nat /\ used.jobs < MaxJobs /\ MaxJobs \in Nat
    BY K8sAssumption DEF K8sInv, Bounded, Takes
  <2> QED BY <2>1 DEF JobId
<1>3. jobs' = [jobs EXCEPT ![used.jobs + 1] = e]
  BY DEF Takes
<1> HIDE DEF e
<1>4. Fits(mode, e, cluster')
  BY <1>1, NothingTyped DEF Fits, Gone, Native
<1>5. UNCHANGED <<mode, cluster, desired, logs>> /\ Bounded'
  BY BoundKeeps DEF Takes
<1> QED BY <1>1, <1>2, <1>3, <1>4, <1>5, SameIsMild, OneJobInv, ServiceFacts

\* All three ways to take a job on.
LEMMA TakingInv ==
  ASSUME K8sInv, NEW s \in Service,
         (\E t, sent \in Tag : Deploy(s, t, sent)) \/ RollBack(s) \/ Replay(s)
  PROVE  K8sInv'
<1>1. CASE \E t, sent \in Tag : Deploy(s, t, sent)
  BY <1>1, TakesInv DEF Deploy
<1>2. CASE RollBack(s)
  <2>1. logs[s][Len(logs[s])] \in Tag
    BY <1>2, ServiceFacts DEF RollBack
  <2> QED BY <1>2, <2>1, TakesInv DEF RollBack
<1>3. CASE Replay(s)
  <2>1. \A i \in 1..Len(logs[s]) : logs[s][i] \in Tag
    BY ServiceFacts
  <2> QED BY <1>3, <2>1, TakesInv DEF Replay
<1> QED BY <1>1, <1>2, <1>3

-----------------------------------------------------------------------------
\* Apply leaves a Deployment with what is applied.
LEMMA AppliedTyped ==
  ASSUME K8sInv, NEW s \in Service, NEW t \in Some, Applied(s, t)
  PROVE  \E w \in Workload : w.spec = t /\ cluster' = [cluster EXCEPT ![s] = w]
<1>1. CASE cluster[s].spec = t
  BY <1>1, ServiceFacts DEF Applied
<1>2. CASE cluster[s].spec # t
  BY <1>2, ServiceFacts, NothingTyped DEF Applied, Put
<1> QED BY <1>1, <1>2

\* The first look at the cluster.
LEMMA CheckInv ==
  ASSUME K8sInv, NEW j \in JobId, Check(j)
  PROVE  K8sInv'
<1>1. /\ Bounded' /\ jobs[j].pc = "check" /\ jobs[j].svc # None /\ For(j) \in Service
      /\ UNCHANGED <<mode, cluster, desired, logs>>
  BY BoundKeeps, JobFacts DEF Check, On, Gone
<1>2. CASE Fails(j)
  BY <1>1, <1>2, FailsInv, SameIsMild, ServiceFacts
<1>3. CASE ~Fails(j)
  <2> DEFINE before == IF mode[For(j)] = "kubectl" THEN cluster[For(j)] ELSE jobs[j].before
             aim == IF mode[For(j)] = "argocd" /\ HasPrevious(For(j))
                    THEN Previous(desired[For(j)].past) ELSE jobs[j].aim
             e == [jobs[j] EXCEPT !.pc = "send", !.before = before, !.aim = aim]
  <2>1. Resumes(j, e)
    BY <1>3 DEF Check
  <2>2. aim \in Entry /\ before \in Workload
    <3>1. jobs[j].before \in Workload
      BY JobFacts DEF Job
    <3> QED BY <1>1, <3>1, JobFacts, ServiceFacts DEF HasPrevious, Previous, Control
  <2> HIDE DEF aim, before
  <2>3. Follows(jobs[j], e) /\ e.pc = "send" /\ e.tries = jobs[j].tries
    BY <2>2, JobFacts DEF Job, Follows
  <2> HIDE DEF e
  <2>4. e \in Job /\ Fits(mode, e, cluster')
    BY <1>1, <2>3, JobFacts DEF Fits, Gone, Follows
  <2> QED BY <1>1, <2>1, <2>4, ResumesInv, SameIsMild, ServiceFacts
<1> QED BY <1>2, <1>3

\* kubectl apply or set image: what is sent is the template, or the exit code tells.
LEMMA ApplyInv ==
  ASSUME K8sInv, NEW j \in JobId, Apply(j)
  PROVE  K8sInv'
<1>1. /\ Bounded' /\ jobs[j].pc = "send" /\ jobs[j].kind = "deploy" /\ mode[For(j)] # "helm"
      /\ jobs[j].svc # None /\ For(j) \in Service
      /\ UNCHANGED <<mode, desired, logs>>
  BY BoundKeeps, JobFacts DEF Apply, On, Gone
<1>2. PICK code \in 0..1 :
        \/ Applied(For(j), jobs[j].sent) /\ Disturbs(j, AfterApply(j, code))
        \/ code = 1 /\ UNCHANGED cluster /\ Resumes(j, AfterApply(j, code))
  BY DEF Apply
<1> DEFINE e == AfterApply(j, code)
<1>3. \/ e = Closed("over")
      \/ /\ Follows(jobs[j], e) /\ e.code = code /\ e.pc \in {"rollout", "restart", "send"}
         /\ e.pc = "send" => e.tries < Applies
  <2> DEFINE go(pc) == [jobs[j] EXCEPT !.code = code, !.tries = @ + 1, !.pc = pc]
  <2>1. jobs[j].tries + 1 \in 0..Applies
    <3>1. jobs[j].tries < Applies /\ jobs[j].tries \in Nat
      BY <1>1, JobFacts DEF Fits
    <3> QED BY <3>1, NothingTyped
  <2>2. \A pc \in {"rollout", "restart", "send"} :
          Follows(jobs[j], go(pc)) /\ go(pc).code = code /\ go(pc).pc = pc /\ go(pc).tries = jobs[j].tries + 1
    BY <2>1, JobFacts DEF Job, Follows
  <2>3. \/ e = Closed("over") \/ e = go("rollout") \/ e = go("restart")
        \/ e = go("send") /\ jobs[j].tries + 1 < Applies
    BY DEF AfterApply
  <2> HIDE DEF go, e
  <2> QED BY <2>2, <2>3
<1> HIDE DEF e
<1>4. e \in Job
  BY <1>3, ClosedFits DEF Follows
<1>5. ASSUME NEW c, code = 0 => c[For(j)].spec = jobs[j].sent PROVE Fits(mode, e, c)
  <2>1. CASE e = Closed("over")
    BY <2>1, ClosedFits
  <2>2. CASE e # Closed("over")
    BY <1>1, <1>3, <1>5, <2>2, JobFacts DEF Fits, Gone, Follows, For
  <2> QED BY <2>1, <2>2
<1>6. CASE Applied(For(j), jobs[j].sent) /\ Disturbs(j, e)
  <2>1. PICK w \in Workload : w.spec = jobs[j].sent /\ cluster' = [cluster EXCEPT ![For(j)] = w]
    BY <1>1, <1>6, AppliedTyped, JobFacts
  <2>2. Fits(mode, e, [cluster EXCEPT ![For(j)] = w])
    BY <1>1, <1>5, <2>1, ServiceFacts
  <2> QED BY <1>1, <1>4, <1>6, <2>1, <2>2, DisturbsInv, ServiceFacts
<1>7. CASE code = 1 /\ UNCHANGED cluster /\ Resumes(j, e)
  <2>1. Fits(mode, e, cluster')
    BY <1>5, <1>7
  <2> QED BY <1>1, <1>4, <1>7, <2>1, ResumesInv, SameIsMild, ServiceFacts
<1> QED BY <1>2, <1>6, <1>7 DEF e

\* rollout restart: another template with the same image.
LEMMA RestartInv ==
  ASSUME K8sInv, NEW j \in JobId, Restart(j)
  PROVE  K8sInv'
<1>1. /\ Bounded' /\ jobs[j].pc = "restart" /\ mode[For(j)] = "kubectl"
      /\ jobs[j].svc # None /\ For(j) \in Service
      /\ UNCHANGED <<mode, desired, logs>>
  BY BoundKeeps, JobFacts DEF Restart, On, Gone
<1> DEFINE s == For(j)
           w == Template(cluster[s], cluster[s].spec)
           e == [jobs[j] EXCEPT !.pc = "rollout"]
<1>2. CASE Fails(j) /\ UNCHANGED cluster
  BY <1>1, <1>2, FailsInv, SameIsMild, ServiceFacts
<1>3. CASE ~(Fails(j) /\ UNCHANGED cluster)
  <2>1. w \in Workload /\ w.spec = cluster[s].spec /\ [cluster EXCEPT ![s] = w][s].spec = cluster[s].spec
    BY <1>1, ServiceFacts, NothingTyped
  <2>2. cluster' = [cluster EXCEPT ![s] = w] /\ (Disturbs(j, e) \/ Disturbs(j, Closed("over")))
    BY <1>3 DEF Restart, Put
  <2>3. Follows(jobs[j], e) /\ e.pc = "rollout" /\ e.code = jobs[j].code
    BY JobFacts, JobMoves DEF JobPc
  <2> HIDE DEF w, e
  <2>4. Fits(mode, e, [cluster EXCEPT ![s] = w])
    BY <1>1, <2>1, <2>3, JobFacts DEF Fits, Gone, Follows, For
  <2>5. e \in Job
    BY <2>3 DEF Follows
  <2> QED BY <1>1, <2>1, <2>2, <2>4, <2>5, ClosedFits, DisturbsInv, ServiceFacts
<1> QED BY <1>2, <1>3

\* rollout undo: another template, but a rollback with kubectl promises none.
LEMMA UndoInv ==
  ASSUME K8sInv, NEW j \in JobId, Undo(j)
  PROVE  K8sInv'
<1>1. /\ Bounded' /\ jobs[j].pc = "send" /\ mode[For(j)] = "kubectl" /\ jobs[j].kind = "undo"
      /\ jobs[j].svc # None /\ For(j) \in Service
      /\ UNCHANGED <<mode, desired, logs>>
  BY BoundKeeps, JobFacts DEF Undo, On, Gone
<1> DEFINE s == For(j)
           w == Template(cluster[s], cluster[s].undo)
           after(code) == [jobs[j] EXCEPT !.pc = "rollout", !.code = code]
<1>2. PICK code \in 0..1 : \/ cluster' = [cluster EXCEPT ![s] = w] /\ Disturbs(j, after(code))
                           \/ UNCHANGED cluster /\ Resumes(j, after(code))
  BY DEF Undo, Put
<1> DEFINE e == after(code)
<1>3. Follows(jobs[j], e) /\ e.pc = "rollout"
  <2>1. jobs[j] \in Job /\ "rollout" \in JobPc
    BY JobFacts DEF JobPc
  <2> QED BY <2>1, JobCoded
<1>4. w \in Workload
  BY <1>1, ServiceFacts, NothingTyped
<1> HIDE DEF e, w
<1>5. e \in Job /\ \A c : Fits(mode, e, c)
  BY <1>1, <1>3, JobFacts DEF Fits, Gone, Follows, For
<1>6. CASE cluster' = [cluster EXCEPT ![s] = w] /\ Disturbs(j, e)
  BY <1>1, <1>4, <1>5, <1>6, DisturbsInv, ServiceFacts
<1>7. CASE UNCHANGED cluster /\ Resumes(j, e)
  BY <1>1, <1>5, <1>7, ResumesInv, SameIsMild, ServiceFacts
<1> QED BY <1>2, <1>6, <1>7 DEF e

\* rollout status, and the poll of Argo CD.
LEMMA RolloutInv ==
  ASSUME K8sInv, NEW j \in JobId, Rollout(j) \/ FluxRollout(j) \/ ArgoPoll(j)
  PROVE  K8sInv'
<1>1. /\ Bounded' /\ jobs[j].pc \in {"rollout", "wait"} /\ UNCHANGED <<mode, cluster, desired>>
      /\ jobs[j].svc # None
  BY BoundKeeps, JobFacts DEF Rollout, FluxRollout, ArgoPoll, On, Gone
<1>2. \E ok : Ends(j, ok)
  BY DEF Rollout, FluxRollout, ArgoPoll
<1> QED BY <1>1, <1>2, EndsInv, ServiceFacts

-----------------------------------------------------------------------------
\* What is kept of a service, with another value in some field: the revision stays.
LEMMA ControlTyped ==
  ASSUME NEW d \in Control, NEW e \in Entry, NEW b \in BOOLEAN, NEW t \in Some
  PROVE  /\ [d EXCEPT !.busy = b] \in Control /\ [d EXCEPT !.busy = b].rev = d.rev
         /\ [d EXCEPT !.tag = t] \in Control /\ [d EXCEPT !.tag = t].rev = d.rev
         /\ [d EXCEPT !.held = b] \in Control /\ [d EXCEPT !.held = b].rev = d.rev
         /\ [d EXCEPT !.past = << >>] \in Control /\ [d EXCEPT !.past = << >>].rev = d.rev
         /\ [d EXCEPT !.past = Append(@, e)] \in Control
         /\ [d EXCEPT !.past = Append(@, e)].rev = d.rev
<1>1. Append(d.past, e) \in Seq(Entry) /\ << >> \in Seq(Entry)
  BY DEF Control
<1> QED BY <1>1 DEF Control

\* One of them that changes.
LEMMA KeptTyped ==
  ASSUME K8sInv, NEW s \in Service, NEW d \in Control, d.rev = desired[s].rev,
         desired' = [desired EXCEPT ![s] = d]
  PROVE  /\ desired' \in [Service -> Control]
         /\ \A u \in Service : desired'[u].rev = desired[u].rev
  BY ServiceFacts

\* helm upgrade or rollback: the template is what the release is after.
LEMMA HelmInv ==
  ASSUME K8sInv, NEW j \in JobId, Helm(j)
  PROVE  K8sInv'
<1>1. /\ jobs[j].pc = "send" /\ mode[For(j)] = "helm" /\ jobs[j].svc # None /\ For(j) \in Service
      /\ UNCHANGED <<mode, logs>> /\ (Loses \/ UNCHANGED used)
  BY JobFacts DEF Helm, On, Gone
<1>2. CASE Fails(j) /\ UNCHANGED <<cluster, desired>>
  <2>1. Bounded'
    BY <1>1, <1>2, BoundKeeps
  <2> QED BY <1>1, <1>2, <2>1, FailsInv, SameIsMild, ServiceFacts
<1>3. CASE ~(Fails(j) /\ UNCHANGED <<cluster, desired>>)
  <2> DEFINE s == For(j)
             t == HelmTag(j)
             n == [tag |-> t, rev |-> 0]
             d == [desired[s] EXCEPT !.busy = TRUE, !.past = Append(@, n)]
             e == [jobs[j] EXCEPT !.pc = "wait", !.aim.tag = t]
  <2>1. HelmReady(j) /\ Applied(s, t) /\ desired' = [desired EXCEPT ![s] = d] /\ Disturbs(j, e)
    BY <1>3 DEF Helm
  <2>2. t \in Some
    <3>1. PICK past \in Seq(Entry) : past = desired[s].past
      BY <1>1, ServiceFacts DEF Control
    <3>2. Len(past) >= 2 => past[Len(past) - 1] \in Entry
      OBVIOUS
    <3>3. jobs[j].kind = "undo" => t \in Some
      BY <2>1, <3>1, <3>2 DEF HelmTag, HelmReady, HasPrevious, Previous, Entry
    <3> QED BY <1>1, <3>3, JobFacts DEF HelmTag
  <2>3. jobs[j].kind # "undo" => t = jobs[j].sent
    BY DEF HelmTag
  <2> HIDE DEF t
  <2>4. n \in Entry
    BY <2>2, NothingTyped DEF Entry
  <2> HIDE DEF n
  <2>5. PICK w \in Workload : w.spec = t /\ cluster' = [cluster EXCEPT ![s] = w]
    BY <1>1, <2>1, <2>2, AppliedTyped
  <2>6. d \in Control /\ d.rev = desired[s].rev
    <3>1. desired[s] \in Control
      BY <1>1, ServiceFacts
    <3>2. [desired[s] EXCEPT !.past = Append(@, n)] \in Control
          /\ [desired[s] EXCEPT !.past = Append(@, n)].rev = desired[s].rev
      BY <2>2, <2>4, <3>1, ControlTyped
    <3>3. d = [[desired[s] EXCEPT !.past = Append(@, n)] EXCEPT !.busy = TRUE]
      BY <3>1 DEF Control
    <3> QED BY <2>2, <2>4, <3>2, <3>3, ControlTyped
  <2> HIDE DEF d
  <2>7. desired' \in [Service -> Control] /\ Bounded'
    BY <1>1, <2>1, <2>6, KeptTyped, BoundKeeps
  <2>8. Follows(jobs[j], e) /\ e.pc = "wait" /\ e.aim.tag = t
    <3>1. [jobs[j].aim EXCEPT !.tag = t] \in Entry /\ [jobs[j].aim EXCEPT !.tag = t].tag = t
      BY <2>2, JobFacts DEF Entry
    <3> QED BY <3>1, JobFacts DEF Job, Follows
  <2> HIDE DEF e
  <2>9. Fits(mode, e, [cluster EXCEPT ![s] = w])
    <3>1. [cluster EXCEPT ![s] = w][s].spec = t
      BY <1>1, <2>5, ServiceFacts
    <3>2. AimOf(e) = t
      BY <2>3, <2>8 DEF AimOf, Follows
    <3> QED BY <1>1, <2>8, <3>1, <3>2, JobFacts DEF Fits, Gone, Follows, For
  <2>10. e \in Job
    BY <2>8 DEF Follows
  <2> QED BY <1>1, <2>1, <2>5, <2>7, <2>9, <2>10, DisturbsInv, ServiceFacts
<1> QED BY <1>2, <1>3

\* The end of a helm command, waited for or not.
LEMMA HelmWaitInv ==
  ASSUME K8sInv, NEW j \in JobId, HelmWait(j)
  PROVE  K8sInv'
<1>1. jobs[j].svc # None /\ For(j) \in Service
  BY JobFacts DEF HelmWait, On, Gone
<1>2. desired' \in [Service -> Control] /\ Bounded'
  <2>1. desired' = [desired EXCEPT ![For(j)] = [desired[For(j)] EXCEPT !.busy = FALSE]]
    BY DEF HelmWait
  <2>2. [desired[For(j)] EXCEPT !.busy = FALSE] \in Control
        /\ [desired[For(j)] EXCEPT !.busy = FALSE].rev = desired[For(j)].rev
    BY <1>1, ServiceFacts, ControlTyped, NoJobTyped, NothingTyped
  <2> QED BY <1>1, <2>1, <2>2, KeptTyped, BoundKeeps DEF HelmWait
<1>3. \E ok : Ends(j, ok)
  BY DEF HelmWait
<1> QED BY <1>1, <1>2, <1>3, EndsInv DEF HelmWait

\* A step in which no job moves.
LEMMA QuietInv ==
  ASSUME K8sInv, UNCHANGED <<mode, jobs, logs>>,
         cluster' \in [Service -> Workload], Mild(mode, cluster, cluster'),
         desired' \in [Service -> Control], Bounded'
  PROVE  K8sInv'
<1>1. \A x \in JobId : jobs'[x] = jobs[x] /\ Fits(mode, jobs[x], cluster')
  BY JobFacts, MildFits
<1>2. jobs' \in [JobId -> Job]
  BY DEF K8sInv, K8sTypeOK
<1>3. \A x \in JobId : Fits(mode, jobs'[x], cluster')
  BY <1>1
<1> QED BY <1>2, <1>3, StepInv, ServiceFacts

LEMMA HelmLeavesInv ==
  ASSUME K8sInv, NEW s \in Service, HelmLeaves(s)
  PROVE  K8sInv'
<1>1. desired' = [desired EXCEPT ![s] = [desired[s] EXCEPT !.busy = FALSE]]
  BY DEF HelmLeaves
<1>2. [desired[s] EXCEPT !.busy = FALSE] \in Control
      /\ [desired[s] EXCEPT !.busy = FALSE].rev = desired[s].rev
  BY ServiceFacts, ControlTyped, NoJobTyped, NothingTyped
<1>3. desired' \in [Service -> Control] /\ Bounded'
  BY <1>1, <1>2, KeptTyped, BoundKeeps DEF HelmLeaves
<1> QED BY <1>3, QuietInv, SameIsMild DEF HelmLeaves

-----------------------------------------------------------------------------
\* A Deployment of Argo CD or Flux that gets another template.
LEMMA PutIsMild ==
  ASSUME K8sInv, NEW s \in Service, mode[s] \in Flux \cup {"argocd"}, NEW t \in Some,
         Put(s, t) \/ Applied(s, t)
  PROVE  cluster' \in [Service -> Workload] /\ Mild(mode, cluster, cluster')
<1>1. CASE UNCHANGED cluster
  BY <1>1, SameIsMild
<1>2. CASE Put(s, t)
  <2> DEFINE w == Template(cluster[s], t)
  <2>1. w \in Workload /\ cluster' = [cluster EXCEPT ![s] = w]
    BY <1>2, ServiceFacts, NothingTyped DEF Put
  <2> HIDE DEF w
  <2> QED BY <2>1, ServiceFacts DEF Mild
<1> QED BY <1>1, <1>2 DEF Applied

\* The parameter or the rollback is sent to Argo CD.
LEMMA ArgoSendInv ==
  ASSUME K8sInv, NEW j \in JobId, ArgoSend(j)
  PROVE  K8sInv'
<1>1. /\ jobs[j].pc = "send" /\ mode[For(j)] = "argocd" /\ jobs[j].svc # None /\ For(j) \in Service
      /\ UNCHANGED <<mode, logs>> /\ (Loses \/ UNCHANGED used)
  BY JobFacts DEF ArgoSend, On, Gone
<1> DEFINE s  == For(j)
           d1 == [desired[s] EXCEPT !.tag = jobs[j].sent]
           d2 == [desired[s] EXCEPT !.past = Append(@, jobs[j].aim)]
<1>2. /\ d1 \in Control /\ d1.rev = desired[s].rev
      /\ d2 \in Control /\ d2.rev = desired[s].rev
  <2>1. desired[s] \in Control /\ jobs[j].sent \in Some /\ jobs[j].aim \in Entry /\ TRUE \in BOOLEAN
    BY <1>1, ServiceFacts, JobFacts
  <2> QED BY <2>1, ControlTyped
<1>3. cluster' \in [Service -> Workload] /\ Mild(mode, cluster, cluster')
  <2>1. Put(s, jobs[j].aim.tag) \/ UNCHANGED cluster
    BY DEF ArgoSend
  <2> QED BY <1>1, <2>1, PutIsMild, SameIsMild, JobFacts
<1>4. \/ desired' = [desired EXCEPT ![s] = d1]
      \/ desired' = [desired EXCEPT ![s] = d2]
      \/ desired' = desired
  BY DEF ArgoSend
<1> HIDE DEF d1, d2
<1>5. desired' \in [Service -> Control] /\ Bounded'
  <2>1. desired' \in [Service -> Control] /\ \A u \in Service : desired'[u].rev = desired[u].rev
    BY <1>1, <1>2, <1>4, KeptTyped, ServiceFacts
  <2> QED BY <1>1, <2>1, BoundKeeps
<1>6. Fails(j) \/ Moves(j, "ask") \/ Moves(j, "wait")
  BY DEF ArgoSend
<1> QED BY <1>1, <1>3, <1>5, <1>6, FailsInv, MoveInv, ServiceFacts DEF JobPc, Gone

\* The sync is asked for.
LEMMA ArgoAskInv ==
  ASSUME K8sInv, NEW j \in JobId, ArgoAsk(j)
  PROVE  K8sInv'
<1>1. /\ mode[For(j)] = "argocd" /\ jobs[j].svc # None /\ For(j) \in Service
      /\ UNCHANGED <<mode, cluster, logs>> /\ (Loses \/ UNCHANGED used)
  BY JobFacts DEF ArgoAsk, On, Gone
<1> DEFINE s == For(j)
           d == [desired[s] EXCEPT !.busy = TRUE]
<1>2. d \in Control /\ d.rev = desired[s].rev
  BY <1>1, ServiceFacts, ControlTyped, NoJobTyped, NothingTyped
<1>3. desired' = [desired EXCEPT ![s] = d] \/ desired' = desired
  BY DEF ArgoAsk
<1> HIDE DEF d
<1>4. desired' \in [Service -> Control] /\ \A u \in Service : desired'[u].rev = desired[u].rev
  BY <1>1, <1>2, <1>3, KeptTyped, ServiceFacts
<1>5. Bounded'
  BY <1>1, <1>4, BoundKeeps
<1>6. Moves(j, "wait") \/ Fails(j)
  BY DEF ArgoAsk
<1> QED BY <1>1, <1>4, <1>5, <1>6, MoveInv, FailsInv, SameIsMild, ServiceFacts DEF JobPc, Gone

\* The controller of Argo CD.
LEMMA ArgoSyncInv ==
  ASSUME K8sInv, NEW s \in Service, ArgoSync(s) \/ ArgoStatus(s)
  PROVE  K8sInv'
<1>1. mode[s] = "argocd"
  BY DEF ArgoSync, ArgoStatus
<1>2. CASE ArgoSync(s)
  <2> DEFINE e == [tag |-> desired[s].tag, rev |-> desired[s].rev]
             d == [desired[s] EXCEPT !.busy = FALSE, !.past = Append(@, e)]
  <2>1. e \in Entry /\ desired[s].tag \in Some
    BY ServiceFacts DEF Entry, Control
  <2>2. cluster' \in [Service -> Workload] /\ Mild(mode, cluster, cluster')
    BY <1>1, <1>2, <2>1, PutIsMild DEF ArgoSync
  <2>3. desired' = [desired EXCEPT ![s] = d]
    BY <1>2 DEF ArgoSync
  <2> HIDE DEF e
  <2>4. d \in Control /\ d.rev = desired[s].rev
    <3>1. [desired[s] EXCEPT !.past = Append(@, e)] \in Control
          /\ [desired[s] EXCEPT !.past = Append(@, e)].rev = desired[s].rev
      BY <2>1, ServiceFacts, ControlTyped
    <3>2. d = [[desired[s] EXCEPT !.past = Append(@, e)] EXCEPT !.busy = FALSE]
      BY ServiceFacts DEF Control
    <3> QED BY <2>1, <3>1, <3>2, ControlTyped
  <2> HIDE DEF d
  <2>5. desired' \in [Service -> Control] /\ Bounded'
    BY <1>2, <2>3, <2>4, KeptTyped, BoundKeeps DEF ArgoSync
  <2> QED BY <1>2, <2>2, <2>5, QuietInv DEF ArgoSync
<1>3. CASE ArgoStatus(s)
  <2> DEFINE good == RolledOut(s) /\ cluster[s].spec = desired[s].tag
             d == [desired[s] EXCEPT !.shown = [good |-> good, rev |-> desired[s].rev]]
  <2>1. desired' = [desired EXCEPT ![s] = d]
    BY <1>3 DEF ArgoStatus
  <2>2. good \in BOOLEAN
    BY DEF RolledOut
  <2> HIDE DEF good
  <2>3. d \in Control /\ d.rev = desired[s].rev
    BY <2>2, ServiceFacts DEF Control
  <2> HIDE DEF d
  <2>4. desired' \in [Service -> Control] /\ Bounded'
    BY <1>3, <2>1, <2>3, KeptTyped, BoundKeeps DEF ArgoStatus
  <2> QED BY <1>3, <2>4, QuietInv, SameIsMild DEF ArgoStatus
<1> QED BY <1>2, <1>3

\* A commit: the one step that raises a revision.
LEMMA PushInv ==
  ASSUME K8sInv, NEW s \in Service, Push(s)
  PROVE  K8sInv'
<1> DEFINE d == [desired[s] EXCEPT !.rev = @ + 1]
<1>1. /\ used \in [jobs : Nat, losses : Nat, turns : 0..MaxTurns] /\ used.turns < MaxTurns
      /\ used' = [used EXCEPT !.turns = @ + 1]
  BY DEF K8sInv, Bounded, Push, Turns
<1>2. used.turns + 1 \in 0..MaxTurns /\ used.turns \in Nat /\ MaxTurns \in Nat
  BY <1>1, K8sAssumption
<1>3. used' \in [jobs : Nat, losses : Nat, turns : 0..MaxTurns] /\ used'.turns = used.turns + 1
  BY <1>1, <1>2
<1>4. \A u \in Service : desired[u].rev <= used.turns /\ desired[u].rev \in 0..MaxTurns
  BY ServiceFacts DEF K8sInv, Bounded, Control
<1>5. d \in Control /\ d.rev = desired[s].rev + 1
  <2>1. desired[s].rev + 1 \in 0..MaxTurns
    BY <1>1, <1>2, <1>4
  <2> QED BY <2>1, ServiceFacts DEF Control
<1>6. desired' = [desired EXCEPT ![s] = d]
  BY DEF Push
<1> HIDE DEF d
<1>7. desired' \in [Service -> Control]
      /\ \A u \in Service : desired'[u].rev \in {desired[u].rev, desired[u].rev + 1}
  BY <1>5, <1>6, ServiceFacts
<1>8. ASSUME NEW u \in Service PROVE desired'[u].rev <= used'.turns
  BY <1>2, <1>3, <1>4, <1>7
<1>9. Bounded'
  BY <1>3, <1>8 DEF Bounded
<1> QED BY <1>7, <1>9, QuietInv, SameIsMild DEF Push

-----------------------------------------------------------------------------
\* The resource of Flux is found and read.
LEMMA FluxFindInv ==
  ASSUME K8sInv, NEW j \in JobId, FluxFind(j) \/ FluxRead(j)
  PROVE  K8sInv'
<1>1. /\ jobs[j].pc \in {"check", "read"} /\ mode[For(j)] \in Flux /\ jobs[j].svc # None
      /\ UNCHANGED <<mode, cluster, desired, logs>> /\ (Loses \/ UNCHANGED used)
  BY JobFacts DEF FluxFind, FluxRead, On, Gone, Flux
<1>2. Bounded'
  BY <1>1, BoundKeeps
<1>3. CASE Fails(j)
  BY <1>1, <1>2, <1>3, FailsInv, SameIsMild, ServiceFacts
<1>4. CASE Moves(j, "read") \/ Moves(j, "send")
  BY <1>1, <1>2, <1>4, MoveInv, SameIsMild, ServiceFacts DEF JobPc, Gone
<1>5. CASE FluxRead(j) /\ ~Fails(j)
  <2> DEFINE read == [u \in Service |-> desired[u].tag]
             e == [jobs[j] EXCEPT !.pc = "send", !.read = read]
  <2>1. read \in [Service -> Some]
    BY ServiceFacts DEF Control
  <2>2. Resumes(j, e)
    BY <1>5 DEF FluxRead
  <2> HIDE DEF read
  <2>3. Follows(jobs[j], e) /\ e.pc = "send" /\ e.tries = jobs[j].tries
    BY <2>1, JobFacts DEF Job, Follows
  <2> HIDE DEF e
  <2>4. e \in Job /\ Fits(mode, e, cluster')
    BY <1>1, <2>3, JobFacts DEF Fits, Gone, Follows
  <2> QED BY <1>1, <1>2, <2>2, <2>4, ResumesInv, SameIsMild, ServiceFacts
<1> QED BY <1>3, <1>4, <1>5 DEF FluxFind

\* The overrides are written back.
LEMMA FluxPatchInv ==
  ASSUME K8sInv, NEW j \in JobId, FluxPatch(j)
  PROVE  K8sInv'
<1>1. /\ jobs[j].pc = "send" /\ mode[For(j)] \in Flux /\ jobs[j].svc # None
      /\ UNCHANGED <<mode, cluster, logs>> /\ (Loses \/ UNCHANGED used)
  BY JobFacts DEF FluxPatch, On, Gone
<1>2. \A u \in Service : Patch(j)[u] \in Some
  BY <1>1, JobFacts DEF Patch
<1> DEFINE d(u) == [desired[u] EXCEPT !.tag = Patch(j)[u]]
<1>3. \A u \in Service : d(u) \in Control /\ d(u).rev = desired[u].rev
  BY <1>2, ServiceFacts, ControlTyped, NoJobTyped
<1>4. \/ desired' = [u \in Service |->
                       IF u = For(j) \/ {For(j), u} \subseteq Sharers THEN d(u) ELSE desired[u]]
      \/ desired' = desired
  BY DEF FluxPatch
<1> HIDE DEF d
<1>5. desired' \in [Service -> Control] /\ \A u \in Service : desired'[u].rev = desired[u].rev
  BY <1>3, <1>4, ServiceFacts
<1>6. Bounded'
  BY <1>1, <1>5, BoundKeeps
<1>7. CASE Fails(j)
  BY <1>1, <1>5, <1>6, <1>7, FailsInv, SameIsMild, ServiceFacts
<1>8. CASE ~Fails(j)
  <2> DEFINE e == [jobs[j] EXCEPT !.pc = "wait", !.read = NoJob.read]
  <2>1. Resumes(j, e)
    BY <1>8 DEF FluxPatch
  <2>2. Follows(jobs[j], e) /\ e.pc = "wait"
    BY JobFacts, NoJobTyped DEF Job, Follows
  <2> HIDE DEF e
  <2>3. e \in Job /\ Fits(mode, e, cluster')
    BY <1>1, <2>2, JobFacts DEF Fits, Gone, Follows, Flux, For
  <2> QED BY <1>1, <1>5, <1>6, <2>1, <2>3, ResumesInv, SameIsMild, ServiceFacts
<1> QED BY <1>7, <1>8

\* The poll, and a thread that notices that it was cancelled.
LEMMA FluxPollInv ==
  ASSUME K8sInv, NEW j \in JobId, FluxPoll(j) \/ Notices(j)
  PROVE  K8sInv'
<1>1. /\ UNCHANGED <<mode, cluster, desired, logs>> /\ (Loses \/ UNCHANGED used)
  BY DEF FluxPoll, Notices
<1>2. Bounded'
  BY <1>1, BoundKeeps
<1>3. CASE Fails(j)
  BY <1>1, <1>2, <1>3, FailsInv, SameIsMild, ServiceFacts
<1>4. CASE FluxPoll(j) /\ Moves(j, "rollout")
  <2>1. jobs[j].svc # None /\ mode[For(j)] \in Flux
    BY <1>4, JobFacts DEF FluxPoll, On, Gone
  <2> QED BY <1>1, <1>2, <1>4, <2>1, MoveInv, SameIsMild, ServiceFacts DEF JobPc, Gone
<1> QED BY <1>3, <1>4 DEF FluxPoll, Notices

\* A job loses the lock, or its connection.
LEMMA CancelInv ==
  ASSUME K8sInv, NEW j \in JobId, CancelJob(j) \/ Break(j)
  PROVE  K8sInv'
<1>1. UNCHANGED <<mode, cluster, desired, logs>> /\ (Loses \/ Turns)
  BY DEF CancelJob, Break
<1>2. Bounded'
  BY <1>1, BoundKeeps, BoundTurns
<1>3. PICK e : jobs' = [jobs EXCEPT ![j] = e] /\
               \/ e = [jobs[j] EXCEPT !.held = FALSE]
               \/ e = [jobs[j] EXCEPT !.held = FALSE, !.cut = TRUE]
               \/ e = Closed("over")
  BY DEF CancelJob, Break
<1>4. CASE e = Closed("over")
  BY <1>1, <1>2, <1>3, <1>4, ClosedFits, OneJobInv, SameIsMild, ServiceFacts
<1>5. CASE e # Closed("over")
  <2>1. /\ e \in Job /\ e.pc = jobs[j].pc /\ e.svc = jobs[j].svc /\ e.held = FALSE
        /\ e.tag = jobs[j].tag /\ e.sent = jobs[j].sent /\ e.kind = jobs[j].kind
        /\ e.tries = jobs[j].tries /\ e.code = jobs[j].code /\ e.met = jobs[j].met /\ e.aim = jobs[j].aim
    BY <1>3, <1>5, JobFacts DEF Job
  <2>2. Fits(mode, e, cluster')
    BY <1>1, <2>1, JobFacts DEF Fits, AimOf
  <2> QED BY <1>1, <1>2, <1>3, <2>1, <2>2, OneJobInv, SameIsMild, ServiceFacts
<1> QED BY <1>4, <1>5

\* The cluster and the controller of Flux.
LEMMA RollInv ==
  ASSUME K8sInv, NEW s \in Service, FluxReconcile(s) \/ Roll(s)
  PROVE  K8sInv'
<1>1. Bounded'
  BY BoundKeeps DEF FluxReconcile, Roll
<1>2. CASE FluxReconcile(s)
  <2>1. desired[s].tag \in Some /\ desired' \in [Service -> Control]
    BY <1>2, ServiceFacts DEF FluxReconcile, Control
  <2> QED BY <1>1, <1>2, <2>1, PutIsMild, QuietInv DEF FluxReconcile
<1>3. CASE Roll(s)
  <2> DEFINE w == [cluster[s] EXCEPT !.live = cluster[s].spec]
  <2>1. w \in Workload /\ w.spec = cluster[s].spec
    BY ServiceFacts DEF Workload
  <2>2. cluster' = [cluster EXCEPT ![s] = w]
    BY <1>3 DEF Roll
  <2> HIDE DEF w
  <2>3. cluster' \in [Service -> Workload] /\ Mild(mode, cluster, cluster')
    BY <2>1, <2>2, ServiceFacts DEF Mild
  <2> QED BY <1>1, <1>3, <2>3, QuietInv, ServiceFacts DEF Roll
<1> QED BY <1>2, <1>3

\* A service is stopped: its template is deleted or stays.
LEMMA StopInv ==
  ASSUME K8sInv, NEW s \in Service, StopService(s)
  PROVE  K8sInv'
<1>1. desired' \in [Service -> Control] /\ \A u \in Service : desired'[u].rev = desired[u].rev
  <2>1. CASE Delete(s)
    BY <2>1, ServiceFacts DEF Delete
  <2>2. CASE Uninstall(s)
    <3>1. [desired[s] EXCEPT !.past = << >>] \in Control
          /\ [desired[s] EXCEPT !.past = << >>].rev = desired[s].rev
      BY ServiceFacts, ControlTyped, NoJobTyped, NothingTyped
    <3> QED BY <2>2, <3>1, KeptTyped DEF Uninstall
  <2>3. CASE DeleteApp(s)
    <3> DEFINE d == [desired[s] EXCEPT !.held = TRUE, !.busy = FALSE]
    <3>1. d \in Control /\ d.rev = desired[s].rev
      BY ServiceFacts DEF Control
    <3>2. desired' = [desired EXCEPT ![s] = d]
      BY <2>3 DEF DeleteApp
    <3> HIDE DEF d
    <3> QED BY <3>1, <3>2, KeptTyped
  <2>4. CASE Suspend(s)
    <3> DEFINE held(u) == desired[u].held \/ u = s \/ {s, u} \subseteq Sharers
               d(u) == [desired[u] EXCEPT !.held = held(u)]
    <3>1. desired' = [u \in Service |-> d(u)]
      BY <2>4 DEF Suspend
    <3>2. \A u \in Service : held(u) \in BOOLEAN
      BY ServiceFacts DEF Control
    <3> HIDE DEF held
    <3>3. \A u \in Service : d(u) \in Control /\ d(u).rev = desired[u].rev
      BY <3>2, ServiceFacts, ControlTyped, NoJobTyped, NothingTyped
    <3> HIDE DEF d
    <3> QED BY <3>1, <3>3
  <2> QED BY <2>1, <2>2, <2>3, <2>4 DEF StopService
<1>2. Bounded'
  BY <1>1, BoundTurns DEF StopService
<1>3. cluster' \in [Service -> Workload] /\ Mild(mode, cluster, cluster')
  <2>1. cluster' = [cluster EXCEPT ![s] = Nothing] \/ cluster' = cluster
    BY DEF StopService, Delete, Uninstall, DeleteApp, Suspend
  <2> QED BY <2>1, ServiceFacts, NothingTyped DEF Mild
<1> QED BY <1>1, <1>2, <1>3, QuietInv DEF StopService

-----------------------------------------------------------------------------
\* The invariant is inductive.
LEMMA K8sStarts == K8sInit => K8sInv
<1> SUFFICES ASSUME K8sInit PROVE K8sInv
  OBVIOUS
<1>1. mode \in Modes /\ \A s \in Service : mode[s] \in Mode
  BY NothingTyped DEF K8sInit
<1>2. cluster \in [Service -> Workload]
  BY NothingTyped DEF K8sInit, Workload, Some
<1>3. desired \in [Service -> Control] /\ \A s \in Service : desired[s].rev = 0
  BY NothingTyped DEF K8sInit, Control
<1>4. jobs \in [JobId -> Job] /\ \A j \in JobId : jobs[j] = NoJob
  BY NoJobTyped DEF K8sInit
<1>5. logs \in [Service -> Seq(Tag)]
  BY DEF K8sInit
<1>6. Bounded
  BY <1>3, NothingTyped DEF K8sInit, Bounded
<1>7. \A j \in JobId : Fits(mode, jobs[j], cluster)
  BY <1>4, NoJobTyped DEF Fits, Gone
<1> QED BY <1>1, <1>2, <1>3, <1>4, <1>5, <1>6, <1>7 DEF K8sInv, K8sTypeOK

\* Every step keeps it.
LEMMA K8sStays == K8sInv /\ [K8sNext]_k8sVars => K8sInv'
<1> SUFFICES ASSUME K8sInv, [K8sNext]_k8sVars PROVE K8sInv'
  OBVIOUS
<1>1. CASE UNCHANGED k8sVars
  BY <1>1 DEF k8sVars, K8sInv, K8sTypeOK, Bounded, Fits, AimOf
<1>2. ASSUME NEW s \in Service,
        \/ (\E t, sent \in Tag : Deploy(s, t, sent)) \/ RollBack(s) \/ Replay(s)
        \/ HelmLeaves(s) \/ ArgoSync(s) \/ ArgoStatus(s) \/ Push(s)
        \/ FluxReconcile(s) \/ Roll(s) \/ StopService(s)
      PROVE K8sInv'
  BY <1>2, TakingInv, HelmLeavesInv, ArgoSyncInv, PushInv, RollInv, StopInv
<1>3. ASSUME NEW j \in JobId,
        \/ Check(j) \/ Apply(j) \/ Restart(j) \/ Undo(j) \/ Rollout(j)
        \/ Helm(j) \/ HelmWait(j) \/ ArgoSend(j) \/ ArgoAsk(j) \/ ArgoPoll(j)
        \/ FluxFind(j) \/ FluxRead(j) \/ FluxPatch(j) \/ FluxPoll(j) \/ FluxRollout(j)
        \/ CancelJob(j) \/ Notices(j) \/ Break(j)
      PROVE K8sInv'
  BY <1>3, CheckInv, ApplyInv, RestartInv, UndoInv, RolloutInv, HelmInv, HelmWaitInv,
     ArgoSendInv, ArgoAskInv, FluxFindInv, FluxPatchInv, FluxPollInv, CancelInv
<1> QED BY <1>1, <1>2, <1>3 DEF K8sNext

\* The invariant holds.
THEOREM K8sHolds == K8sSpec => []K8sInv
  BY K8sStarts, K8sStays, PTL DEF K8sSpec

\* Type correctness, for any number of services and jobs.
THEOREM K8sTypes == K8sSpec => []K8sTypeOK
<1>1. K8sInv => K8sTypeOK
  BY DEF K8sInv
<1> QED BY <1>1, K8sHolds, PTL

-----------------------------------------------------------------------------
\* A command of one job leaves another where it is.
LEMMA OtherStays ==
  ASSUME K8sInv, NEW k \in JobId, NEW j \in JobId \ {k}, NEW e,
         Resumes(k, e) \/ Disturbs(k, e) \/ jobs' = [jobs EXCEPT ![k] = e]
  PROVE  jobs'[j].pc = jobs[j].pc
<1>1. jobs'[j] \in {jobs[j], [jobs[j] EXCEPT !.met = TRUE]}
  BY JobFacts DEF Resumes, Disturbs
<1>2. [jobs[j] EXCEPT !.met = TRUE].pc = jobs[j].pc
  BY JobFacts DEF Job
<1> QED BY <1>1, <1>2

\* Neither does it make a success of its own.
LEMMA NoVerdict ==
  ASSUME K8sInv, NEW k \in JobId, NEW j \in JobId, jobs[j].svc # None, NEW e, e.pc # "ok",
         Resumes(k, e) \/ Disturbs(k, e) \/ jobs' = [jobs EXCEPT ![k] = e]
  PROVE  jobs'[j].pc # "ok"
<1>1. CASE j # k
  BY <1>1, OtherStays, JobFacts DEF Gone
<1>2. CASE j = k
  <2>1. jobs'[j] \in {e, Closed("over")}
    BY <1>2, JobFacts DEF Resumes, Disturbs, Resumed
  <2> QED BY <2>1, ClosedFits
<1> QED BY <1>1, <1>2

\* So a job succeeds with the exit code of what it waits for.
LEMMA VerdictBy ==
  ASSUME K8sInv, K8sNext, NEW j \in JobId, jobs[j].svc # None, jobs'[j].pc = "ok"
  PROVE  Rollout(j) \/ FluxRollout(j) \/ ArgoPoll(j) \/ HelmWait(j)
<1>1. ASSUME NEW s \in Service,
        \/ (\E t, sent \in Tag : Deploy(s, t, sent)) \/ RollBack(s) \/ Replay(s)
        \/ HelmLeaves(s) \/ ArgoSync(s) \/ ArgoStatus(s) \/ Push(s)
        \/ FluxReconcile(s) \/ Roll(s) \/ StopService(s)
      PROVE FALSE
  <2>1. CASE UNCHANGED jobs
    BY <2>1, JobFacts DEF Gone
  <2>2. CASE \E kind \in {"deploy", "undo"}, t, sent \in Tag : Takes(s, kind, t, sent)
    <3>1. PICK kind \in {"deploy", "undo"}, t \in Tag, sent \in Tag : Takes(s, kind, t, sent)
      BY <2>2
    <3> DEFINE e == [NoJob EXCEPT !.pc = "check", !.svc = s, !.held = TRUE,
                       !.kind = kind, !.tag = t, !.sent = sent]
    <3>2. jobs' = [jobs EXCEPT ![used.jobs + 1] = e] /\ e.pc = "check"
      BY <3>1 DEF Takes, NoJob
    <3> HIDE DEF e
    <3>3. jobs'[j] \in {e, jobs[j]}
      BY <3>2, JobFacts
    <3> QED BY <3>2, <3>3, JobFacts DEF Gone
  <2>3. RollBack(s) => logs[s][Len(logs[s])] \in Tag
    BY ServiceFacts DEF RollBack
  <2>4. \A i \in 1..Len(logs[s]) : logs[s][i] \in Tag
    BY ServiceFacts
  <2> QED BY <1>1, <2>1, <2>2, <2>3, <2>4
          DEF Deploy, RollBack, Replay, HelmLeaves, ArgoSync, ArgoStatus, Push,
              FluxReconcile, Roll, StopService
<1>2. ASSUME NEW k \in JobId,
        \/ Check(k) \/ Apply(k) \/ Restart(k) \/ Undo(k)
        \/ Helm(k) \/ ArgoSend(k) \/ ArgoAsk(k)
        \/ FluxFind(k) \/ FluxRead(k) \/ FluxPatch(k) \/ FluxPoll(k)
        \/ CancelJob(k) \/ Notices(k) \/ Break(k)
      PROVE FALSE
  <2>1. /\ jobs[k] \in Job /\ Closed("over").pc # "ok"
        /\ Fails(k) => jobs' = [jobs EXCEPT ![k] = Closed("over")]
    BY JobFacts, ClosedFits DEF Fails
  <2>2. \E e : e.pc # "ok" /\ (Resumes(k, e) \/ Disturbs(k, e) \/ jobs' = [jobs EXCEPT ![k] = e])
    <3>1. CASE Fails(k)
      BY <2>1, <3>1
    <3>2. CASE \E pc \in JobPc \ {"ok"} : Moves(k, pc)
      <4>1. PICK pc \in JobPc \ {"ok"} : Moves(k, pc)
        BY <3>2
      <4>2. [jobs[k] EXCEPT !.pc = pc].pc = pc
        BY <2>1, JobMoves
      <4> QED BY <4>1, <4>2 DEF Moves
    <3>3. CASE Check(k) /\ ~Fails(k)
      <4>1. PICK before, aim :
              Resumes(k, [jobs[k] EXCEPT !.pc = "send", !.before = before, !.aim = aim])
        BY <3>3 DEF Check
      <4>2. [jobs[k] EXCEPT !.pc = "send", !.before = before, !.aim = aim].pc = "send"
        BY <2>1 DEF Job
      <4> QED BY <4>1, <4>2
    <3>4. CASE Apply(k)
      <4>1. PICK code \in 0..1 : Resumes(k, AfterApply(k, code)) \/ Disturbs(k, AfterApply(k, code))
        BY <3>4 DEF Apply
      <4> DEFINE go(pc) == [jobs[k] EXCEPT !.code = code, !.tries = @ + 1, !.pc = pc]
      <4>2. \A pc : go(pc).pc = pc
        BY <2>1 DEF Job
      <4>3. AfterApply(k, code) \in {go("rollout"), go("restart"), go("send"), Closed("over")}
        BY DEF AfterApply
      <4> HIDE DEF go
      <4> QED BY <2>1, <4>1, <4>2, <4>3
    <3>5. CASE Restart(k)
      <4>1. [jobs[k] EXCEPT !.pc = "rollout"].pc = "rollout"
        BY <2>1 DEF Job
      <4> QED BY <2>1, <3>1, <3>5, <4>1 DEF Restart
    <3>6. CASE Undo(k)
      <4>1. \A code : [jobs[k] EXCEPT !.pc = "rollout", !.code = code].pc = "rollout"
        BY <2>1 DEF Job
      <4> QED BY <3>6, <4>1 DEF Undo
    <3>7. CASE Helm(k)
      <4>1. \A t : [jobs[k] EXCEPT !.pc = "wait", !.aim.tag = t].pc = "wait"
        BY <2>1 DEF Job
      <4> QED BY <3>1, <3>7, <4>1 DEF Helm
    <3>8. CASE FluxRead(k)
      <4>1. \A read : [jobs[k] EXCEPT !.pc = "send", !.read = read].pc = "send"
        BY <2>1 DEF Job
      <4> QED BY <3>1, <3>8, <4>1 DEF FluxRead
    <3>9. CASE FluxPatch(k)
      <4>1. \A read : [jobs[k] EXCEPT !.pc = "wait", !.read = read].pc = "wait"
        BY <2>1 DEF Job
      <4> QED BY <3>1, <3>9, <4>1 DEF FluxPatch
    <3>10. CASE CancelJob(k) \/ Break(k)
      <4>1. [jobs[k] EXCEPT !.held = FALSE].pc = jobs[k].pc
            /\ [jobs[k] EXCEPT !.held = FALSE, !.cut = TRUE].pc = jobs[k].pc
        BY <2>1 DEF Job
      <4>2. jobs[k].svc # None => jobs[k].pc # "ok"
        BY JobFacts DEF Gone
      <4>3. jobs[k].svc # None
        BY <3>10, JobFacts DEF CancelJob, Break, Fits
      <4> QED BY <2>1, <3>10, <4>1, <4>2, <4>3 DEF CancelJob, Break
    <3>11. ArgoSend(k) \/ ArgoAsk(k) \/ FluxFind(k) \/ FluxPoll(k) \/ Notices(k) =>
             Fails(k) \/ \E pc \in JobPc \ {"ok"} : Moves(k, pc)
      BY DEF ArgoSend, ArgoAsk, FluxFind, FluxPoll, Notices, JobPc
    <3> QED BY <1>2, <3>1, <3>2, <3>3, <3>4, <3>5, <3>6, <3>7, <3>8, <3>9, <3>10, <3>11
  <2> QED BY <2>2, NoVerdict
<1>3. ASSUME NEW k \in JobId \ {j}, Rollout(k) \/ FluxRollout(k) \/ ArgoPoll(k) \/ HelmWait(k)
      PROVE FALSE
  <2>1. \E ok : Ends(k, ok)
    BY <1>3 DEF Rollout, FluxRollout, ArgoPoll, HelmWait
  <2>2. jobs'[j].pc = jobs[j].pc
    BY <2>1, OtherStays DEF Ends
  <2> QED BY <2>2, JobFacts DEF Gone
<1> QED BY <1>1, <1>2, <1>3 DEF K8sNext

\* The commands' exit codes are enough: who reports a success with kubectl apply, set image
\* or Helm has left the pods with the template it has sent (k8s_kubectl.py:321, k8s_helm.py:152),
\* unless a command of another job of the service came in between.
THEOREM K8sOkMeansRolledOut == K8sSpec => OkMeansRolledOut
<1> DEFINE P == \A j \in JobId :
       /\ Succeeds(j)
       /\ mode[For(j)] \in {"k8s", "yaml", "helm"} \/ (mode[For(j)] = "kubectl" /\ jobs[j].kind = "deploy")
       => jobs[j].met \/ cluster[For(j)].live = Aim(j)
<1>1. K8sInv /\ [K8sNext]_k8sVars => [P]_k8sVars
  <2> SUFFICES ASSUME K8sInv, K8sNext, NEW j \in JobId, Succeeds(j), ~jobs[j].met,
        mode[For(j)] \in {"k8s", "yaml", "helm"} \/ (mode[For(j)] = "kubectl" /\ jobs[j].kind = "deploy")
        PROVE cluster[For(j)].live = Aim(j)
    OBVIOUS
  <2>1. jobs[j].svc # None /\ jobs'[j].pc = "ok" /\ Closed("over").pc # "ok"
    BY ClosedFits DEF Succeeds, For
  <2>2. \/ Rollout(j) /\ mode[For(j)] \in {"kubectl", "k8s", "yaml"}
        \/ HelmWait(j) /\ mode[For(j)] = "helm"
    BY <2>1, VerdictBy DEF Rollout, FluxRollout, ArgoPoll, HelmWait, On, Flux
  <2>3. /\ ~Ends(j, FALSE) /\ (Ends(j, Judged(j)) => Judged(j))
        /\ Ends(j, RolledOut(For(j))) => RolledOut(For(j))
    BY <2>1, JobFacts DEF Ends
  <2>4. CASE Rollout(j) /\ mode[For(j)] \in {"kubectl", "k8s", "yaml"}
    <3>1. Judged(j) /\ jobs[j].pc = "rollout"
      BY <2>3, <2>4 DEF Rollout, On
    <3>2. jobs[j].kind = "deploy"
      BY <2>1, <2>4, JobFacts DEF Fits, For
    <3>3. cluster[For(j)].spec \in {jobs[j].sent, None}
      BY <2>4, <3>1, <3>2, JobFacts DEF Judged, Fits, For
    <3> QED BY <3>1, <3>2, <3>3 DEF Judged, RolledOut, Aim
  <2>5. CASE HelmWait(j) /\ mode[For(j)] = "helm"
    <3>1. RolledOut(For(j)) /\ jobs[j].pc = "wait"
      BY <2>3, <2>5 DEF HelmWait, On
    <3>2. cluster[For(j)].spec \in {AimOf(jobs[j]), None}
      BY <2>5, <3>1, JobFacts DEF Fits, For
    <3> QED BY <3>1, <3>2 DEF RolledOut, Aim, AimOf
  <2> QED BY <2>2, <2>4, <2>5
<1> QED BY <1>1, K8sHolds, PTL DEF K8sSpec, OkMeansRolledOut

\* Only Argo CD and Flux are told tags.
LEMMA TagsStay ==
  ASSUME K8sInv, NEW u \in Service,
         \/ UNCHANGED desired
         \/ \E k \in JobId : Helm(k) \/ HelmWait(k) \/ ArgoAsk(k)
         \/ \E s \in Service : HelmLeaves(s) \/ ArgoSync(s) \/ ArgoStatus(s) \/ Push(s) \/ StopService(s)
  PROVE  desired'[u].tag = desired[u].tag
<1>1. desired \in [Service -> Control] /\ desired[u] \in Control
  BY ServiceFacts
<1>2. ASSUME NEW k \in JobId, Helm(k) PROVE desired'[u].tag = desired[u].tag
  <2> DEFINE d == [desired[For(k)] EXCEPT !.busy = TRUE, !.past = Append(@, [tag |-> HelmTag(k), rev |-> 0])]
  <2>1. desired' = [desired EXCEPT ![For(k)] = d] \/ desired' = desired
    BY <1>2 DEF Helm
  <2>2. u = For(k) => d.tag = desired[u].tag
    BY <1>1 DEF Control
  <2> HIDE DEF d
  <2> QED BY <1>1, <2>1, <2>2
<1>3. ASSUME NEW k \in JobId, HelmWait(k) PROVE desired'[u].tag = desired[u].tag
  <2> DEFINE d == [desired[For(k)] EXCEPT !.busy = FALSE]
  <2>1. desired' = [desired EXCEPT ![For(k)] = d]
    BY <1>3 DEF HelmWait
  <2>2. u = For(k) => d.tag = desired[u].tag
    BY <1>1 DEF Control
  <2> HIDE DEF d
  <2> QED BY <1>1, <2>1, <2>2
<1>4. ASSUME NEW k \in JobId, ArgoAsk(k) PROVE desired'[u].tag = desired[u].tag
  <2> DEFINE d == [desired[For(k)] EXCEPT !.busy = TRUE]
  <2>1. desired' = [desired EXCEPT ![For(k)] = d] \/ desired' = desired
    BY <1>4 DEF ArgoAsk
  <2>2. u = For(k) => d.tag = desired[u].tag
    BY <1>1 DEF Control
  <2> HIDE DEF d
  <2> QED BY <1>1, <2>1, <2>2
<1>5. ASSUME NEW s \in Service, HelmLeaves(s) PROVE desired'[u].tag = desired[u].tag
  <2> DEFINE d == [desired[s] EXCEPT !.busy = FALSE]
  <2>1. desired' = [desired EXCEPT ![s] = d]
    BY <1>5 DEF HelmLeaves
  <2>2. u = s => d.tag = desired[u].tag
    BY <1>1 DEF Control
  <2> HIDE DEF d
  <2> QED BY <1>1, <2>1, <2>2
<1>6. ASSUME NEW s \in Service, ArgoSync(s) PROVE desired'[u].tag = desired[u].tag
  <2> DEFINE d == [desired[s] EXCEPT !.busy = FALSE,
             !.past = Append(@, [tag |-> desired[s].tag, rev |-> desired[s].rev])]
  <2>1. desired' = [desired EXCEPT ![s] = d]
    BY <1>6 DEF ArgoSync
  <2>2. u = s => d.tag = desired[u].tag
    BY <1>1 DEF Control
  <2> HIDE DEF d
  <2> QED BY <1>1, <2>1, <2>2
<1>7. ASSUME NEW s \in Service, ArgoStatus(s) PROVE desired'[u].tag = desired[u].tag
  <2> DEFINE d == [desired[s] EXCEPT !.shown = [good |-> RolledOut(s) /\ cluster[s].spec = desired[s].tag,
             rev |-> desired[s].rev]]
  <2>1. desired' = [desired EXCEPT ![s] = d]
    BY <1>7 DEF ArgoStatus
  <2>2. u = s => d.tag = desired[u].tag
    BY <1>1 DEF Control
  <2> HIDE DEF d
  <2> QED BY <1>1, <2>1, <2>2
<1>8. ASSUME NEW s \in Service, Push(s) PROVE desired'[u].tag = desired[u].tag
  <2> DEFINE d == [desired[s] EXCEPT !.rev = @ + 1]
  <2>1. desired' = [desired EXCEPT ![s] = d]
    BY <1>8 DEF Push
  <2>2. u = s => d.tag = desired[u].tag
    BY <1>1 DEF Control
  <2> HIDE DEF d
  <2> QED BY <1>1, <2>1, <2>2
<1>9. ASSUME NEW s \in Service, Uninstall(s) PROVE desired'[u].tag = desired[u].tag
  <2> DEFINE d == [desired[s] EXCEPT !.past = << >>]
  <2>1. desired' = [desired EXCEPT ![s] = d]
    BY <1>9 DEF Uninstall
  <2>2. u = s => d.tag = desired[u].tag
    BY <1>1 DEF Control
  <2> HIDE DEF d
  <2> QED BY <1>1, <2>1, <2>2
<1>10. ASSUME NEW s \in Service, DeleteApp(s) PROVE desired'[u].tag = desired[u].tag
  <2> DEFINE d == [desired[s] EXCEPT !.held = TRUE, !.busy = FALSE]
  <2>1. desired' = [desired EXCEPT ![s] = d]
    BY <1>10 DEF DeleteApp
  <2>2. u = s => d.tag = desired[u].tag
    BY <1>1 DEF Control
  <2> HIDE DEF d
  <2> QED BY <1>1, <2>1, <2>2
<1>11. ASSUME NEW s \in Service, Suspend(s) PROVE desired'[u].tag = desired[u].tag
  BY <1>1, <1>11 DEF Suspend, Control
<1> QED BY <1>1, <1>2, <1>3, <1>4, <1>5, <1>6, <1>7, <1>8, <1>9, <1>10, <1>11 DEF StopService, Delete

\* A patch leaves the overrides alone that are as they were read (k8s_fluxcd.py:17-21), for
\* any number of services that share a Kustomization.
THEOREM K8sOverridesKept == K8sSpec => OverridesKept
<1> DEFINE P == \A j \in JobId : For(j) \in Sharers /\ jobs[j].pc = "send" /\ jobs'[j].pc # "send" =>
       \A u \in Service \ {For(j)} :
         desired'[u].tag = desired[u].tag \/ jobs[j].read[u] # desired[u].tag
<1>1. K8sInv /\ [K8sNext]_k8sVars => [P]_k8sVars
  <2> SUFFICES ASSUME K8sInv, K8sNext, NEW j \in JobId, For(j) \in Sharers,
        jobs[j].pc = "send", jobs'[j].pc # "send", NEW u \in Service \ {For(j)}
        PROVE desired'[u].tag = desired[u].tag \/ jobs[j].read[u] # desired[u].tag
    OBVIOUS
  <2>1. For(j) \in Service /\ mode[For(j)] = "kustomization"
    BY DEF Sharers
  <2>2. CASE FluxPatch(j)
    <3>1. jobs[j].read \in [Service -> Some] /\ desired \in [Service -> Control]
      BY JobFacts, ServiceFacts
    <3>2. Patch(j)[u] = jobs[j].read[u]
      BY <3>1 DEF Patch
    <3>3. desired'[u] \in {desired[u], [desired[u] EXCEPT !.tag = Patch(j)[u]]}
      BY <2>2, <3>1 DEF FluxPatch
    <3>4. [desired[u] EXCEPT !.tag = Patch(j)[u]].tag = Patch(j)[u]
      BY <3>1 DEF Control
    <3> QED BY <3>2, <3>3, <3>4
  <2>3. ASSUME NEW k \in JobId, ArgoSend(k) \/ (FluxPatch(k) /\ k # j) PROVE FALSE
    <3>1. k # j
      BY <2>1, <2>3 DEF ArgoSend, On
    <3>2. \E e : Resumes(k, e) \/ jobs' = [jobs EXCEPT ![k] = e]
      BY <2>3 DEF ArgoSend, FluxPatch, Moves, Fails
    <3> QED BY <3>1, <3>2, OtherStays
  <2>4. \/ FluxPatch(j) \/ (\E k \in JobId : ArgoSend(k) \/ (FluxPatch(k) /\ k # j))
        \/ UNCHANGED desired
        \/ \E k \in JobId : Helm(k) \/ HelmWait(k) \/ ArgoAsk(k)
        \/ \E s \in Service : HelmLeaves(s) \/ ArgoSync(s) \/ ArgoStatus(s) \/ Push(s) \/ StopService(s)
    BY DEF K8sNext, Deploy, RollBack, Replay, Takes, Check, Apply, Restart, Undo, Rollout, ArgoPoll,
           FluxFind, FluxRead, FluxPoll, FluxRollout, CancelJob, Notices, Break, FluxReconcile, Roll
  <2> QED BY <2>2, <2>3, <2>4, TagsStay
<1> QED BY <1>1, K8sHolds, PTL DEF K8sSpec, OverridesKept
-----------------------------------------------------------------------------
\* Deployments with docker-compose.

\* A container, or what is there without one.
Running == Container \cup {NoContainer}

\* The places of a deployment: of one that is not, or no longer, there; before "up".
DepPc  == {"idle", "env", "insecure", "write", "reload", "need", "pull",
           "have", "up", "verify", "over", "ok"}
Past   == {"idle", "over", "ok"}
Before == {"env", "insecure", "write", "reload", "need", "pull", "have"}

\* Private, and taken from Docker Hub now.
Steps(d)  == d.private /\ d.src = "hub"
ImageOf(d) == [src |-> d.src, tag |-> d.tag]
\* What the env file, or a container's line, shows of a tag.
Tells(w, s, i, t) == i.tag = t \/ <<t, i.tag>> \in w \/ <<s, t>> \in Mentions

\* What deployment d, which is the x-th, has to do with the env files en, the containers
\* ru, the images im of the host, and what the registries hold, h.
DepFits(w, x, d, en, ru, im, h) ==
  /\ d.pc \in Past <=> d.svc = "none"
  /\ d.svc # "none" =>
       /\ d.tag \in Tag /\ (h[ImageOf(d)] = 0 \/ h[ImageOf(d)] >= d.since)
       /\ d.pc \in Before => d.tries = 0
       /\ d.pc = "up" => d.tries < Attempts
       /\ Steps(d) => /\ ~d.blocked
                      /\ d.missed \/ d.lost \/ d.unwritten \/ d.met \/ d.svc \in Custom
  /\ d.svc # "none" /\ ~d.met =>
       /\ d.pc # "env" \/ Steps(d) => Tells(w, d.svc, en[d.svc], d.tag)
       /\ d.pc # "env" /\ ~d.unwritten => en[d.svc] = ImageOf(d)
       /\ d.pc \in {"have", "up"} /\ d.svc \notin Custom /\ ~d.missed /\ en[d.svc] = ImageOf(d) =>
            im[ImageOf(d)] > 0 /\ im[ImageOf(d)] >= d.since
       /\ d.pc = "verify" /\ d.code = 0 /\ ru[d.svc] # NoContainer =>
            /\ ru[d.svc].by = x /\ ru[d.svc].image = en[d.svc]
            /\ d.svc \notin Custom /\ ~d.missed /\ en[d.svc] = ImageOf(d) => ru[d.svc].ver >= d.since

\* The configuration: the file, its backup, dockerd.
Config == [file : File, backup : File, loaded : BOOLEAN, last : -1..MaxEdits, writes : 0..2,
           copied : BOOLEAN]

\* daemon.json: a missing file has no version; without edits nothing has.
DaemonFits ==
  /\ \A f \in {daemon.file, daemon.backup} : f.kind = "none" => f.ver = -1
  /\ daemon.last = -1 => /\ daemon.file.ver = -1 /\ daemon.backup.ver = -1
                         /\ \A d \in Deployment : deps[d].dump.ver = -1
  /\ daemon.writes = 0 => daemon.last = daemon.file.ver
  /\ OperatorsConfigKept

Spent == [deploys : Nat, faults : Nat, changes : 0..MaxChanges, edits : 0..MaxEdits, cancels : Nat]
Bounds ==
  /\ spent \in Spent
  /\ \A i \in Image : registry.holds[i] <= spent.changes + 1
  /\ \A d \in Deployment : /\ deps[d].since <= spent.changes + 1
                           /\ Live(d) => d <= spent.deploys
  /\ daemon.last <= spent.edits

ComposeInv ==
  /\ ComposeTypeOK
  /\ Bounds
  /\ DaemonFits
  /\ \A d \in Deployment : DepFits(site.within, d, deps[d], env, running, images, registry.holds)
-----------------------------------------------------------------------------
LEMMA Numbers ==
  /\ Attempts \in Nat /\ Attempts > 0 /\ MaxChanges \in Nat /\ MaxEdits \in Nat /\ MaxDeploys \in Nat
  /\ "none" \notin Tag /\ "none" \notin Service /\ Version \subseteq Nat
  BY ComposeAssumption DEF Version

LEMMA Images ==
  /\ \A d \in Dep : d.tag \in Tag => ImageOf(d) \in Image
  /\ \A d \in Deployment : Wanted(d) = ImageOf(deps[d])
  /\ NoContainer.image.tag = "none" /\ NoContainer.image \notin Image
  BY Numbers DEF Dep, Image, ImageOf, Wanted, NoContainer

\* The records, and the fields of a deployment.
LEMMA DepTyped ==
  ASSUME NEW d \in Dep
  PROVE  /\ d.pc \in DepPc /\ d.svc \in Service \cup {"none"} /\ d.held \in BOOLEAN /\ d.cut \in BOOLEAN
         /\ d.private \in BOOLEAN /\ d.src \in Src /\ d.dump \in File /\ d.blocked \in BOOLEAN
         /\ d.tries \in 0..Attempts /\ d.code \in 0..1 /\ d.since \in Version /\ d.since \in Nat
         /\ d.missed \in BOOLEAN /\ d.lost \in BOOLEAN /\ d.unwritten \in BOOLEAN /\ d.met \in BOOLEAN
  BY Numbers DEF Dep, DepPc

LEMMA IdleTyped ==
  /\ Missing \in File /\ Missing.kind = "none" /\ Missing.ver = -1
  /\ Emptied \in File /\ Emptied.kind = "plain" /\ Emptied.ver = -1
  /\ Torn \in File /\ Torn.kind = "odd" /\ Torn.ver = -1
  /\ Idle \in Dep /\ Idle.tries = 0 /\ Idle.dump = Missing /\ Idle.since = 0
  /\ Idle.svc = "none" /\ Idle.pc = "idle"
<1>1. -1 \in -1..MaxEdits
  BY Numbers
<1>2. Missing \in File /\ Missing.kind = "none" /\ Missing.ver = -1
  BY <1>1 DEF Missing, File
<1>3. /\ Emptied \in File /\ Emptied.kind = "plain" /\ Emptied.ver = -1
      /\ Torn \in File /\ Torn.kind = "odd" /\ Torn.ver = -1
  BY <1>1 DEF Emptied, Torn, File
<1>4. 0 \in Version /\ 0 \in 0..Attempts
  BY Numbers DEF Version
<1> QED BY <1>2, <1>3, <1>4 DEF Idle, Dep, Src

\* A deployment that is over or done asks for nothing.
LEMMA EndedFits ==
  ASSUME NEW pc \in {"over", "ok"}, NEW w, NEW x, NEW en, NEW ru, NEW im, NEW h
  PROVE  /\ Ended(pc) \in Dep /\ Ended(pc).pc = pc /\ Ended(pc).svc = "none"
         /\ Ended(pc).dump.ver = -1 /\ Ended(pc).since = 0
         /\ DepFits(w, x, Ended(pc), en, ru, im, h)
<1>1. PICK o \in Dep : o = Idle
  BY IdleTyped
<1>2. /\ [o EXCEPT !.pc = pc] \in Dep /\ [o EXCEPT !.pc = pc].pc = pc
      /\ [o EXCEPT !.pc = pc].svc = o.svc /\ [o EXCEPT !.pc = pc].dump = o.dump
      /\ [o EXCEPT !.pc = pc].since = o.since
  BY DEF Dep
<1>3. /\ Ended(pc) \in Dep /\ Ended(pc).pc = pc /\ Ended(pc).svc = "none"
      /\ Ended(pc).dump.ver = -1 /\ Ended(pc).since = 0
  BY <1>1, <1>2, IdleTyped DEF Ended
<1> QED BY <1>3 DEF DepFits, Past

\* What the invariant says of one deployment and of the host.
LEMMA DepFacts ==
  ASSUME ComposeInv, NEW d \in Deployment
  PROVE  /\ deps \in [Deployment -> Dep] /\ deps[d] \in Dep
         /\ DepFits(site.within, d, deps[d], env, running, images, registry.holds)
         /\ deps[d].since <= spent.changes + 1 /\ (Live(d) => d <= spent.deploys)
         /\ deps[d].pc \notin Past <=> Live(d)
         /\ Live(d) => /\ Svc(d) \in Service /\ Svc(d) = deps[d].svc
                       /\ env[Svc(d)] \in Image \cup {NoContainer.image} /\ running[Svc(d)] \in Running
                       /\ deps[d].tag \in Tag /\ Wanted(d) \in Image /\ ImageOf(deps[d]) = Wanted(d)
                       /\ images[Wanted(d)] \in Nat /\ registry.holds[Wanted(d)] \in Nat
                       /\ registry.holds[Wanted(d)] = 0 \/ registry.holds[Wanted(d)] >= deps[d].since
<1>1. /\ deps \in [Deployment -> Dep] /\ deps[d] \in Dep
      /\ DepFits(site.within, d, deps[d], env, running, images, registry.holds)
      /\ deps[d].since <= spent.changes + 1 /\ (Live(d) => d <= spent.deploys)
      /\ env \in [Service -> Image \cup {NoContainer.image}] /\ running \in [Service -> Running]
      /\ images \in [Image -> Version] /\ registry.holds \in [Image -> Version]
  BY DEF ComposeInv, ComposeTypeOK, Bounds, Running
<1>2. deps[d].svc \in Service \cup {"none"} /\ deps[d].pc \in DepPc
  BY <1>1, DepTyped
<1>3. Live(d) => /\ deps[d].tag \in Tag
                 /\ registry.holds[ImageOf(deps[d])] = 0 \/ registry.holds[ImageOf(deps[d])] >= deps[d].since
  BY <1>1 DEF DepFits, Live
<1>4. deps[d].pc \notin Past <=> Live(d)
  BY <1>1 DEF DepFits, Live
<1>5. Live(d) => Wanted(d) \in Image /\ ImageOf(deps[d]) = Wanted(d)
  BY <1>1, <1>3, Images
<1>6. \A i \in Image : images[i] \in Nat /\ registry.holds[i] \in Nat
  BY <1>1, Numbers
<1> QED BY <1>1, <1>2, <1>3, <1>4, <1>5, <1>6 DEF Live, Svc

LEMMA HostFacts ==
  ASSUME ComposeInv
  PROVE  /\ deps \in [Deployment -> Dep]
         /\ env \in [Service -> Image \cup {NoContainer.image}]
         /\ running \in [Service -> Running]
         /\ images \in [Image -> Version] /\ registry.holds \in [Image -> Version]
         /\ daemon \in Config /\ spent \in Spent /\ spent.changes \in Nat
         /\ \A i \in Image : registry.holds[i] <= spent.changes + 1
  BY DEF ComposeInv, ComposeTypeOK, Running, Bounds, Config, Spent

\* How the images on the host may move: what is pulled is what a registry holds.
Pulled ==
  /\ images' \in [Image -> Version]
  /\ \A i \in Image : \/ images'[i] = images[i]
                      \/ images'[i] = registry.holds[i] /\ registry.holds[i] > 0

LEMMA PulledOne ==
  ASSUME ComposeInv, NEW i, images' \in {images, WithPulled(i)}
  PROVE  Pulled
<1>1. images \in [Image -> Version] /\ registry.holds \in [Image -> Version]
  BY HostFacts
<1>2. CASE images' = images
  BY <1>1, <1>2 DEF Pulled
<1>3. CASE i \in Image /\ images' = [images EXCEPT ![i] = registry.holds[i]] /\ registry.holds[i] > 0
  BY <1>1, <1>3 DEF Pulled
<1> QED BY <1>2, <1>3 DEF WithPulled, Available

\* What the bounds count moves, but for changes of registries and edits.
Spends ==
  /\ spent' \in Spent
  /\ spent'.changes = spent.changes /\ spent'.edits = spent.edits /\ spent'.deploys >= spent.deploys

LEMMA Spending ==
  ASSUME ComposeInv,
         \/ UNCHANGED spent \/ Fault \/ spent' = [spent EXCEPT !.deploys = @ + 1]
         \/ spent' = [spent EXCEPT !.cancels = @ + 1]
  PROVE  Spends
<1>1. PICK n \in Spent : n = spent
  BY HostFacts
<1>2. spent' \in {n, [n EXCEPT !.faults = @ + 1], [n EXCEPT !.deploys = @ + 1], [n EXCEPT !.cancels = @ + 1]}
  BY <1>1 DEF Fault
<1>3. /\ n.deploys \in Nat /\ n.faults \in Nat /\ n.cancels \in Nat
      /\ n.deploys + 1 \in Nat /\ n.faults + 1 \in Nat /\ n.cancels + 1 \in Nat
  BY DEF Spent
<1>4. \A k \in Nat : /\ [n EXCEPT !.faults = k] \in Spent /\ [n EXCEPT !.deploys = k] \in Spent
                     /\ [n EXCEPT !.cancels = k] \in Spent
  BY DEF Spent
<1>5. \A k : /\ [n EXCEPT !.faults = k].changes = n.changes /\ [n EXCEPT !.faults = k].edits = n.edits
             /\ [n EXCEPT !.faults = k].deploys = n.deploys
             /\ [n EXCEPT !.cancels = k].changes = n.changes /\ [n EXCEPT !.cancels = k].edits = n.edits
             /\ [n EXCEPT !.cancels = k].deploys = n.deploys
             /\ [n EXCEPT !.deploys = k].changes = n.changes /\ [n EXCEPT !.deploys = k].edits = n.edits
             /\ [n EXCEPT !.deploys = k].deploys = k
  BY DEF Spent
<1>6. /\ spent' \in Spent /\ spent'.changes = n.changes /\ spent'.edits = n.edits
      /\ spent'.deploys \in {n.deploys, n.deploys + 1}
  <2>1. CASE spent' = n
    BY <2>1
  <2>2. CASE spent' = [n EXCEPT !.faults = n.faults + 1]
    BY <1>3, <1>4, <1>5, <2>2
  <2>3. CASE spent' = [n EXCEPT !.deploys = n.deploys + 1]
    BY <1>3, <1>4, <1>5, <2>3
  <2>4. CASE spent' = [n EXCEPT !.cancels = n.cancels + 1]
    BY <1>3, <1>4, <1>5, <2>4
  <2> QED BY <1>2, <2>1, <2>2, <2>3, <2>4
<1> QED BY <1>1, <1>3, <1>6 DEF Spends
-----------------------------------------------------------------------------
\* A deployment rests on what it rests on while images are pulled and tags are
\* pushed, anew after the n changes so far, or deleted.
LEMMA DepKeeps ==
  ASSUME NEW w, NEW x, NEW d \in Dep, NEW en, NEW ru, NEW n \in Nat, d.since <= n + 1,
         NEW im \in [Image -> Version], NEW h \in [Image -> Version],
         NEW jm \in [Image -> Version], NEW g \in [Image -> Version],
         \A i \in Image : jm[i] = im[i] \/ (jm[i] = h[i] /\ h[i] > 0),
         \A i \in Image : g[i] = h[i] \/ g[i] = 0 \/ g[i] > n + 1,
         DepFits(w, x, d, en, ru, im, h)
  PROVE  DepFits(w, x, d, en, ru, jm, g)
<1>1. d.since \in Nat
  BY DepTyped
<1>2. CASE d.svc = "none"
  BY <1>2 DEF DepFits
<1>3. CASE d.svc # "none"
  <2>1. d.tag \in Tag /\ (h[ImageOf(d)] = 0 \/ h[ImageOf(d)] >= d.since)
    BY <1>3 DEF DepFits
  <2>2. PICK i \in Image : i = ImageOf(d)
    BY <2>1, Images
  <2>3. h[i] \in Nat /\ g[i] \in Nat /\ im[i] \in Nat /\ jm[i] \in Nat
    BY Numbers
  <2>4. g[i] = 0 \/ g[i] >= d.since
    BY <1>1, <2>1, <2>2, <2>3
  <2>5. im[i] > 0 /\ im[i] >= d.since => jm[i] > 0 /\ jm[i] >= d.since
    BY <1>1, <2>1, <2>2, <2>3
  <2> QED BY <2>1, <2>2, <2>4, <2>5 DEF DepFits
<1> QED BY <1>2, <1>3

\* ... while others' services change, and while its own is stopped.
LEMMA ElsewhereKeeps ==
  ASSUME NEW w, NEW x, NEW d, NEW en, NEW ru, NEW fn, NEW qu, NEW im, NEW h,
         d.svc # "none" => fn[d.svc] = en[d.svc] /\ qu[d.svc] \in {ru[d.svc], NoContainer},
         DepFits(w, x, d, en, ru, im, h)
  PROVE  DepFits(w, x, d, fn, qu, im, h)
  BY DEF DepFits

\* ... and, once another deployment's command is known to have come in between, whatever
\* that has changed.
LEMMA MetKeeps ==
  ASSUME NEW w, NEW x, NEW d \in Dep, NEW en, NEW ru, NEW fn, NEW qu, NEW im, NEW h,
         DepFits(w, x, d, en, ru, im, h)
  PROVE  /\ [d EXCEPT !.met = TRUE] \in Dep
         /\ [d EXCEPT !.met = TRUE].pc = d.pc /\ [d EXCEPT !.met = TRUE].svc = d.svc
         /\ [d EXCEPT !.met = TRUE].dump = d.dump /\ [d EXCEPT !.met = TRUE].since = d.since
         /\ DepFits(w, x, [d EXCEPT !.met = TRUE], fn, qu, im, h)
<1>1. PICK o : o = [d EXCEPT !.met = TRUE]
  OBVIOUS
<1>2. /\ o \in Dep /\ o.pc = d.pc /\ o.svc = d.svc /\ o.dump = d.dump /\ o.since = d.since
      /\ o.met = TRUE /\ o.tag = d.tag /\ o.private = d.private /\ o.src = d.src
      /\ o.blocked = d.blocked /\ o.tries = d.tries
  BY <1>1 DEF Dep
<1>3. ImageOf(o) = ImageOf(d) /\ (Steps(o) <=> Steps(d))
  BY <1>2 DEF ImageOf, Steps
<1>4. DepFits(w, x, o, fn, qu, im, h)
  BY <1>2, <1>3 DEF DepFits
<1> QED BY <1>1, <1>2, <1>4

\* Deployment d goes on as e, and those of M have met it.
Moved(d, e, M) ==
  deps' = [x \in Deployment |->
    IF x = d THEN e ELSE IF x \in M THEN [deps[x] EXCEPT !.met = TRUE] ELSE deps[x]]

\* daemon.json is left alone; what was read of it is what it says.
LEMMA DaemonKeeps ==
  ASSUME ComposeInv, NEW d \in Deployment, NEW e \in Dep, NEW M, Moved(d, e, M),
         e.dump.ver \in {deps[d].dump.ver, daemon.file.ver, -1}, UNCHANGED daemon
  PROVE  DaemonFits' /\ daemon' \in Config /\ daemon'.last = daemon.last
<1>1. \A x \in Deployment : deps'[x].dump = IF x = d THEN e.dump ELSE deps[x].dump
  <2> SUFFICES ASSUME NEW x \in Deployment
               PROVE  deps'[x].dump = IF x = d THEN e.dump ELSE deps[x].dump
    OBVIOUS
  <2>1. deps[x] \in Dep /\ [deps[x] EXCEPT !.met = TRUE].dump = deps[x].dump
    BY DepFacts, MetKeeps
  <2> QED BY <2>1 DEF Moved
<1>2. daemon \in Config /\ DaemonFits
  BY HostFacts DEF ComposeInv
<1> QED BY <1>1, <1>2 DEF DaemonFits, OperatorsConfigKept

\* A step of deployment d.
LEMMA HostStepInv ==
  ASSUME ComposeInv, NEW d \in Deployment, NEW e \in Dep, NEW M, Moved(d, e, M),
         UNCHANGED <<site, registry>>, Pulled, Spends,
         env' \in [Service -> Image \cup {NoContainer.image}],
         running' \in [Service -> Running],
         \A x \in Deployment \ {d} : Live(x) /\ x \notin M =>
           env'[Svc(x)] = env[Svc(x)] /\ running'[Svc(x)] \in {running[Svc(x)], NoContainer},
         daemon' \in Config, daemon'.last = daemon.last, DaemonFits',
         e.since <= spent.changes + 1, e.svc # "none" => d <= spent'.deploys,
         DepFits(site.within, d, e, env', running', images', registry.holds)
  PROVE  ComposeInv'
<1>1. ASSUME NEW x \in Deployment, x # d
      PROVE  /\ deps'[x] \in Dep /\ deps'[x].svc = deps[x].svc /\ deps'[x].since = deps[x].since
             /\ DepFits(site.within, x, deps'[x], env', running', images', registry.holds)
  <2>1. deps[x] \in Dep /\ DepFits(site.within, x, deps[x], env, running, images, registry.holds)
    BY DepFacts
  <2>2. DepFits(site.within, x, deps[x], env, running, images', registry.holds)
    BY <2>1, DepFacts, HostFacts, DepKeeps DEF Pulled
  <2>3. CASE x \in M
    <3>1. deps'[x] = [deps[x] EXCEPT !.met = TRUE]
      BY <1>1, <2>3 DEF Moved
    <3> QED BY <2>1, <2>2, <3>1, MetKeeps
  <2>4. CASE x \notin M
    <3>1. deps'[x] = deps[x]
      BY <1>1, <2>4 DEF Moved
    <3>2. deps[x].svc # "none" => /\ env'[deps[x].svc] = env[deps[x].svc]
                                  /\ running'[deps[x].svc] \in {running[deps[x].svc], NoContainer}
      BY <1>1, <2>4 DEF Live, Svc
    <3>3. DepFits(site.within, x, deps[x], env', running', images', registry.holds)
      BY <2>2, <3>2, ElsewhereKeeps
    <3> QED BY <2>1, <3>1, <3>3
  <2> QED BY <2>3, <2>4
<1>2. deps'[d] = e /\ DOMAIN deps' = Deployment /\ deps' = [x \in Deployment |-> deps'[x]]
  BY DEF Moved
<1>3. deps' \in [Deployment -> Dep]
  BY <1>1, <1>2
<1>4. ComposeTypeOK'
  BY <1>3 DEF ComposeInv, ComposeTypeOK, Running, Pulled, Config
<1>5. Bounds'
  <2>1. /\ spent' \in Spent /\ \A i \in Image : registry'.holds[i] <= spent'.changes + 1
        /\ daemon'.last <= spent'.edits
    BY DEF ComposeInv, Bounds, Spends
  <2>2. ASSUME NEW x \in Deployment
        PROVE  deps'[x].since <= spent'.changes + 1 /\ (deps'[x].svc # "none" => x <= spent'.deploys)
    <3>1. CASE x = d
      BY <1>2, <3>1 DEF Spends
    <3>2. CASE x # d
      <4>1. /\ deps'[x].since = deps[x].since /\ deps'[x].svc = deps[x].svc
            /\ deps[x].since <= spent.changes + 1 /\ (deps[x].svc # "none" => x <= spent.deploys)
        BY <1>1, <3>2, DepFacts DEF Live
      <4>2. spent'.changes = spent.changes /\ spent'.deploys >= spent.deploys
            /\ spent'.deploys \in Nat /\ spent.deploys \in Nat /\ x \in Nat
        BY HostFacts DEF Spends, Spent, Deployment
      <4> QED BY <4>1, <4>2
    <3> QED BY <3>1, <3>2
  <2> QED BY <2>1, <2>2 DEF Bounds, Live
<1>6. \A x \in Deployment : DepFits(site.within, x, deps'[x], env', running', images', registry.holds)
  BY <1>1, <1>2
<1>7. \A x \in Deployment : DepFits(site.within, x, deps[x], env, running, images, registry.holds)'
  BY <1>6 DEF DepFits
<1> QED BY <1>4, <1>5, <1>7 DEF ComposeInv
-----------------------------------------------------------------------------
\* A deployment that goes on, unless it was cut off, as e.
LEMMA Onwards ==
  ASSUME ComposeInv, NEW d \in Deployment, NEW e \in Dep,
         NEW en, NEW ru, NEW im, NEW h, DepFits(site.within, d, e, en, ru, im, h),
         e.dump.ver \in {deps[d].dump.ver, daemon.file.ver, -1}, e.since <= spent.changes + 1
  PROVE  \E f \in Dep : /\ f = Onward(d, e)
                        /\ f.dump.ver \in {deps[d].dump.ver, daemon.file.ver, -1}
                        /\ f.since <= spent.changes + 1
                        /\ DepFits(site.within, d, f, en, ru, im, h)
<1>1. CASE Onward(d, e) = e
  BY <1>1
<1>2. CASE Onward(d, e) = Ended("over")
  BY <1>2, EndedFits, HostFacts
<1> QED BY <1>1, <1>2 DEF Onward

\* A step of deployment d alone, which may pull images.
LEMMA BecomesInv ==
  ASSUME ComposeInv, NEW d \in Deployment, Live(d), NEW e \in Dep, Becomes(d, e),
         UNCHANGED <<site, registry, env, running, daemon>>, Pulled, Spends,
         e.dump.ver \in {deps[d].dump.ver, daemon.file.ver, -1}, e.since <= spent.changes + 1,
         DepFits(site.within, d, e, env, running, images', registry.holds)
  PROVE  ComposeInv'
<1>1. PICK f \in Dep : /\ f = Onward(d, e)
                       /\ f.dump.ver \in {deps[d].dump.ver, daemon.file.ver, -1}
                       /\ f.since <= spent.changes + 1
                       /\ DepFits(site.within, d, f, env, running, images', registry.holds)
  BY Onwards
<1>2. Moved(d, f, {})
  BY <1>1, HostFacts DEF Moved, Becomes
<1>3. DaemonFits' /\ daemon' \in Config /\ daemon'.last = daemon.last
  BY <1>1, <1>2, DaemonKeeps
<1>4. d <= spent'.deploys
  BY DepFacts, HostFacts DEF Spends, Spent, Deployment
<1>5. env' = env /\ running' = running /\ UNCHANGED <<site, registry>>
  OBVIOUS
<1>6. DepFits(site.within, d, f, env', running', images', registry.holds)
  BY <1>1, <1>5
<1>7. /\ env' \in [Service -> Image \cup {NoContainer.image}] /\ running' \in [Service -> Running]
      /\ \A x \in Deployment : env'[Svc(x)] = env[Svc(x)] /\ running'[Svc(x)] = running[Svc(x)]
  BY <1>5, HostFacts
<1> QED BY <1>1, <1>2, <1>3, <1>4, <1>5, <1>6, <1>7, HostStepInv

\* A deployment has ended.
LEMMA FinishesInv ==
  ASSUME ComposeInv, NEW d \in Deployment, NEW pc \in {"over", "ok"}, Finishes(d, pc),
         UNCHANGED <<site, registry, images, env, running>>, Spends,
         daemon' \in Config, daemon'.last = daemon.last,
         (\A x \in Deployment : deps'[x].dump.ver \in {deps[x].dump.ver, -1}) => DaemonFits'
  PROVE  ComposeInv'
<1>1. PICK f \in Dep : f = Ended(pc) /\ f.svc = "none" /\ f.dump.ver = -1 /\ f.since = 0
  BY EndedFits
<1>2. Moved(d, f, {})
  BY <1>1, HostFacts DEF Moved, Finishes
<1>3. \A x \in Deployment : deps'[x].dump.ver \in {deps[x].dump.ver, -1}
  BY <1>1, <1>2 DEF Moved
<1>4. DepFits(site.within, d, f, env', running', images', registry.holds)
  BY <1>1, EndedFits
<1>5. Pulled /\ UNCHANGED <<site, registry>> /\ f.since <= spent.changes + 1
  BY <1>1, HostFacts DEF Pulled
<1>6. /\ env' \in [Service -> Image \cup {NoContainer.image}] /\ running' \in [Service -> Running]
      /\ \A x \in Deployment : env'[Svc(x)] = env[Svc(x)] /\ running'[Svc(x)] = running[Svc(x)]
  BY HostFacts
<1> QED BY <1>1, <1>2, <1>3, <1>4, <1>5, <1>6, HostStepInv

\* A step of deployment d that the others of its service meet.
LEMMA AffectsInv ==
  ASSUME ComposeInv, NEW d \in Deployment, Live(d), NEW e \in Dep, Affects(d, e),
         UNCHANGED <<site, registry, daemon>>, Pulled, Spends,
         env' \in [Service -> Image \cup {NoContainer.image}], running' \in [Service -> Running],
         \A s \in Service \ {Svc(d)} : env'[s] = env[s] /\ running'[s] = running[s],
         e.dump.ver \in {deps[d].dump.ver, daemon.file.ver, -1}, e.since <= spent.changes + 1,
         DepFits(site.within, d, e, env', running', images', registry.holds)
  PROVE  ComposeInv'
<1>1. PICK f \in Dep : /\ f = Onward(d, e)
                       /\ f.dump.ver \in {deps[d].dump.ver, daemon.file.ver, -1}
                       /\ f.since <= spent.changes + 1
                       /\ DepFits(site.within, d, f, env', running', images', registry.holds)
  BY Onwards
<1>2. PICK M : M = {x \in Deployment : Live(x) /\ Svc(x) = Svc(d)}
  OBVIOUS
<1>3. Moved(d, f, M)
  BY <1>1, <1>2 DEF Moved, Affects
<1>4. DaemonFits' /\ daemon' \in Config /\ daemon'.last = daemon.last
  BY <1>1, <1>3, DaemonKeeps
<1>5. d <= spent'.deploys
  BY DepFacts, HostFacts DEF Spends, Spent, Deployment
<1>6. \A x \in Deployment \ {d} : Live(x) /\ x \notin M =>
        env'[Svc(x)] = env[Svc(x)] /\ running'[Svc(x)] = running[Svc(x)]
  BY <1>2, DepFacts
<1>7. UNCHANGED <<site, registry>>
  OBVIOUS
<1> QED BY <1>1, <1>3, <1>4, <1>5, <1>6, <1>7, HostStepInv

\* A deployment that goes to another place, where what it rested on is enough.
LEMMA GoesFits ==
  ASSUME ComposeInv, NEW d \in Deployment, Live(d), NEW pc \in DepPc,
         \/ pc \in {"write", "reload", "need", "pull"}
              /\ deps[d].pc \in {"insecure", "write", "reload", "need"}
         \/ /\ pc = "have" /\ deps[d].pc = "need"
            /\ images[Wanted(d)] > 0 /\ images[Wanted(d)] >= deps[d].since
         \/ /\ pc = "up" /\ deps[d].pc = "have"
  PROVE  \E e \in Dep : /\ e = [deps[d] EXCEPT !.pc = pc]
                        /\ e.dump = deps[d].dump /\ e.since = deps[d].since
                        /\ DepFits(site.within, d, e, env, running, images, registry.holds)
<1>1. PICK o \in Dep : o = deps[d]
  BY DepFacts
<1>2. PICK e : e = [o EXCEPT !.pc = pc]
  OBVIOUS
<1>3. /\ e \in Dep /\ e.pc = pc /\ e.svc = o.svc /\ e.tag = o.tag /\ e.private = o.private /\ e.src = o.src
      /\ e.dump = o.dump /\ e.blocked = o.blocked /\ e.tries = o.tries /\ e.code = o.code
      /\ e.since = o.since /\ e.missed = o.missed /\ e.lost = o.lost /\ e.unwritten = o.unwritten
      /\ e.met = o.met
  BY <1>2 DEF Dep, DepPc
<1>4. ImageOf(e) = ImageOf(o) /\ (Steps(e) <=> Steps(o)) /\ ImageOf(o) = Wanted(d)
  BY <1>1, <1>3 DEF ImageOf, Steps, Wanted
<1>5. DepFits(site.within, d, o, env, running, images, registry.holds) /\ o.svc # "none"
  BY <1>1, DepFacts DEF Live
<1>6. DepFits(site.within, d, e, env, running, images, registry.holds)
  <2>1. CASE /\ pc \in {"write", "reload", "need", "pull"}
             /\ o.pc \in {"insecure", "write", "reload", "need"}
    BY <1>3, <1>4, <1>5, <2>1 DEF DepFits, Past, Before
  <2>2. CASE /\ pc = "have" /\ o.pc = "need"
             /\ images[Wanted(d)] > 0 /\ images[Wanted(d)] >= o.since
    BY <1>3, <1>4, <1>5, <2>2 DEF DepFits, Past, Before
  <2>3. CASE pc = "up" /\ o.pc = "have"
    BY <1>3, <1>4, <1>5, <2>3, Numbers DEF DepFits, Past, Before
  <2> QED BY <1>1, <2>1, <2>2, <2>3
<1> QED BY <1>1, <1>2, <1>3, <1>6

LEMMA GoesInv ==
  ASSUME ComposeInv, NEW d \in Deployment, Live(d), NEW pc \in DepPc, Goes(d, pc),
         UNCHANGED <<site, registry, images, env, running, daemon>>, Spends,
         \/ pc \in {"write", "reload", "need", "pull"}
              /\ deps[d].pc \in {"insecure", "write", "reload", "need"}
         \/ /\ pc = "have" /\ deps[d].pc = "need"
            /\ images[Wanted(d)] > 0 /\ images[Wanted(d)] >= deps[d].since
         \/ /\ pc = "up" /\ deps[d].pc = "have"
  PROVE  ComposeInv'
<1>1. PICK e \in Dep : /\ e = [deps[d] EXCEPT !.pc = pc]
                       /\ e.dump = deps[d].dump /\ e.since = deps[d].since
                       /\ DepFits(site.within, d, e, env, running, images, registry.holds)
  BY GoesFits
<1>2. Becomes(d, e)
  BY <1>1 DEF Goes
<1>3. Pulled /\ images' = images /\ e.since <= spent.changes + 1
  BY <1>1, HostFacts, DepFacts DEF Pulled
<1>4. DepFits(site.within, d, e, env, running, images', registry.holds)
  BY <1>1, <1>3
<1>5. UNCHANGED <<site, registry, env, running, daemon>>
  OBVIOUS
<1> QED BY <1>1, <1>2, <1>3, <1>4, <1>5, BecomesInv

\* A place means that there is a deployment.
LEMMA AtLive ==
  ASSUME ComposeInv, NEW d \in Deployment, NEW pc, pc \notin Past, At(d, pc)
  PROVE  Live(d) /\ deps[d].pc = pc
  BY DepFacts DEF At
-----------------------------------------------------------------------------
\* A deployment begins.
LEMMA BeginInv ==
  ASSUME ComposeInv, NEW s \in Service, NEW t \in Tag, NEW private \in BOOLEAN, Begin(s, t, private)
  PROVE  ComposeInv'
<1>1. PICK src \in Src : src = IF private THEN "own" ELSE "hub"
  BY DEF Src
<1>2. PICK i \in Image : i = [src |-> src, tag |-> t]
  BY DEF Image
<1>3. PICK v \in Version : v = registry.holds[i] /\ v <= spent.changes + 1
  BY HostFacts
<1>4. PICK d \in Deployment : d = NextId
  BY HostFacts, Numbers DEF Begin, NextId, Spent, Deployment
<1>5. PICK e : e = [Idle EXCEPT !.pc = "env", !.svc = s, !.held = TRUE, !.tag = t,
                      !.private = private, !.src = src, !.since = v]
  OBVIOUS
<1>6. /\ e \in Dep /\ e.pc = "env" /\ e.svc = s /\ e.tag = t /\ e.private = private /\ e.src = src
      /\ e.since = v /\ e.tries = 0 /\ e.dump = Missing
  <2>1. PICK o \in Dep : o = Idle
    BY IdleTyped
  <2>2. e = [o EXCEPT !.pc = "env", !.svc = s, !.held = TRUE, !.tag = t,
                      !.private = private, !.src = src, !.since = v]
    BY <1>5, <2>1
  <2>3. /\ e \in Dep /\ e.pc = "env" /\ e.svc = s /\ e.tag = t /\ e.private = private /\ e.src = src
        /\ e.since = v /\ e.tries = o.tries /\ e.dump = o.dump
    BY <2>2 DEF Dep
  <2> QED BY <2>1, <2>3, IdleTyped
<1>7. deps' = [deps EXCEPT ![d] = e]
  BY <1>1, <1>2, <1>3, <1>4, <1>5 DEF Begin
<1>8. Moved(d, e, {})
  BY <1>7, HostFacts DEF Moved
<1>9. DepFits(site.within, d, e, env, running, images, registry.holds)
  <2>1. ~Steps(e) /\ ImageOf(e) = i
    BY <1>1, <1>2, <1>6 DEF Steps, ImageOf
  <2>2. registry.holds[i] = v /\ v \in Nat
    BY <1>3, Numbers
  <2> QED BY <1>6, <2>1, <2>2, Numbers DEF DepFits, Past, Before
<1>10. UNCHANGED <<site, registry, images, env, running, daemon>> /\ Spends
  BY Spending DEF Begin
<1>11. DaemonFits' /\ daemon' \in Config /\ daemon'.last = daemon.last
  BY <1>6, <1>8, <1>10, IdleTyped, DaemonKeeps
<1>12. d <= spent'.deploys
  BY <1>4, HostFacts DEF Begin, NextId, Spent
<1>13. Pulled /\ UNCHANGED <<site, registry>> /\ e.since <= spent.changes + 1
  BY <1>3, <1>6, <1>10, HostFacts DEF Pulled
<1>14. DepFits(site.within, d, e, env', running', images', registry.holds)
  BY <1>9, <1>10
<1>15. /\ env' \in [Service -> Image \cup {NoContainer.image}] /\ running' \in [Service -> Running]
       /\ \A x \in Deployment : env'[Svc(x)] = env[Svc(x)] /\ running'[Svc(x)] = running[Svc(x)]
  BY <1>10, HostFacts
<1> QED BY <1>6, <1>8, <1>10, <1>11, <1>12, <1>13, <1>14, <1>15, HostStepInv

\* What is written shows what was wanted.
LEMMA ShowsTells ==
  ASSUME NEW s, NEW i, NEW t, Shows(s, i, t)
  PROVE  Tells(site.within, s, i, t)
  BY DEF Shows, Contains, Tells

\* The env file is written, or not.
LEMMA RewriteEnvInv ==
  ASSUME ComposeInv, NEW d \in Deployment, RewriteEnv(d)
  PROVE  ComposeInv'
<1>1. Live(d) /\ deps[d].pc = "env"
  BY AtLive DEF RewriteEnv, Past
<1>2. PICK s \in Service, w \in Image : s = Svc(d) /\ w = Wanted(d) /\ w = ImageOf(deps[d])
                                       /\ s = deps[d].svc /\ w.tag = deps[d].tag
  BY <1>1, DepFacts DEF Wanted
<1>3. PICK o \in Dep : o = deps[d] /\ o.since <= spent.changes + 1 /\ o.svc # "none"
                       /\ DepFits(site.within, d, o, env, running, images, registry.holds)
  BY <1>1, DepFacts DEF Live
<1>4. PICK next \in {"need", "insecure"} :
        next = IF deps[d].private /\ deps[d].src = "hub" THEN "need"
               ELSE IF deps[d].private /\ site.http THEN "insecure" ELSE "need"
  OBVIOUS
<1>5. /\ UNCHANGED <<site, registry, images, running, daemon>> /\ Spends /\ Pulled /\ images' = images
  BY Spending, HostFacts DEF RewriteEnv, Pulled
<1>6. CASE env' = [env EXCEPT ![s] = w] /\ Affects(d, [o EXCEPT !.pc = next])
  <2>1. PICK e : e = [o EXCEPT !.pc = next]
    OBVIOUS
  <2>2. /\ e \in Dep /\ e.pc = next /\ e.svc = o.svc /\ e.tag = o.tag /\ e.private = o.private
        /\ e.src = o.src /\ e.dump = o.dump /\ e.blocked = o.blocked /\ e.tries = o.tries
        /\ e.since = o.since /\ e.missed = o.missed /\ e.lost = o.lost /\ e.unwritten = o.unwritten
        /\ e.met = o.met
    BY <2>1 DEF Dep
  <2>3. ImageOf(e) = w /\ (Steps(e) <=> Steps(o))
    BY <1>2, <1>3, <2>2 DEF ImageOf, Steps
  <2>4. env'[s] = w
    BY <1>6, HostFacts
  <2>5. DepFits(site.within, d, e, env', running, images, registry.holds)
    BY <1>1, <1>2, <1>3, <2>2, <2>3, <2>4 DEF DepFits, Past, Before, Tells
  <2>6. DepFits(site.within, d, e, env', running', images', registry.holds)
    BY <1>5, <2>5
  <2>7. /\ env' \in [Service -> Image \cup {NoContainer.image}] /\ running' \in [Service -> Running]
        /\ \A u \in Service \ {Svc(d)} : env'[u] = env[u] /\ running'[u] = running[u]
    BY <1>2, <1>5, <1>6, HostFacts
  <2> QED BY <1>1, <1>3, <1>5, <1>6, <2>1, <2>2, <2>6, <2>7, AffectsInv
<1>7. CASE /\ env' = env /\ Becomes(d, [o EXCEPT !.pc = next, !.unwritten = TRUE])
           /\ Steps(o) \/ Written(s, env[s], w)
  <2>1. PICK e : e = [o EXCEPT !.pc = next, !.unwritten = TRUE]
    OBVIOUS
  <2>2. /\ e \in Dep /\ e.pc = next /\ e.svc = o.svc /\ e.tag = o.tag /\ e.private = o.private
        /\ e.src = o.src /\ e.dump = o.dump /\ e.blocked = o.blocked /\ e.tries = o.tries
        /\ e.since = o.since /\ e.missed = o.missed /\ e.lost = o.lost /\ e.unwritten = TRUE
        /\ e.met = o.met
    BY <2>1 DEF Dep
  <2>3. ImageOf(e) = w /\ (Steps(e) <=> Steps(o))
    BY <1>2, <1>3, <2>2 DEF ImageOf, Steps
  <2>4. ~o.met => Tells(site.within, s, env[s], o.tag)
    <3>1. CASE Steps(o)
      BY <1>2, <1>3, <3>1 DEF DepFits
    <3>2. CASE Written(s, env[s], w)
      BY <1>2, <1>3, <3>2, ShowsTells DEF Written
    <3> QED BY <1>7, <3>1, <3>2
  <2>5. DepFits(site.within, d, e, env, running, images, registry.holds)
    BY <1>1, <1>2, <1>3, <2>2, <2>3, <2>4 DEF DepFits, Past, Before
  <2>6. DepFits(site.within, d, e, env, running, images', registry.holds)
    BY <1>5, <2>5
  <2> QED BY <1>1, <1>3, <1>5, <1>7, <2>1, <2>2, <2>6, BecomesInv
<1>8. CASE Finishes(d, "over") /\ env' = env
  <2>1. (\A x \in Deployment : deps'[x].dump.ver \in {deps[x].dump.ver, -1}) => DaemonFits'
    BY <1>5 DEF ComposeInv, DaemonFits, OperatorsConfigKept
  <2>2. daemon' \in Config /\ daemon'.last = daemon.last
    BY <1>5, HostFacts
  <2> QED BY <1>5, <1>8, <2>1, <2>2, FinishesInv
<1>9. o.private /\ o.src = "hub" => Steps(o)
  BY DEF Steps
<1> QED BY <1>2, <1>3, <1>4, <1>6, <1>7, <1>8, <1>9 DEF RewriteEnv
-----------------------------------------------------------------------------
\* The dump of the configuration.
LEMMA DumpInv ==
  ASSUME ComposeInv, NEW d \in Deployment, Dump(d)
  PROVE  ComposeInv'
<1>1. Live(d) /\ deps[d].pc = "insecure"
  BY AtLive DEF Dump, Past
<1>2. PICK o \in Dep : o = deps[d] /\ o.since <= spent.changes + 1 /\ o.svc # "none"
                       /\ DepFits(site.within, d, o, env, running, images, registry.holds)
  BY <1>1, DepFacts DEF Live
<1>3. UNCHANGED <<site, registry, images, env, running, daemon>> /\ Pulled /\ images' = images
  BY HostFacts DEF Dump, Pulled
<1>4. daemon.file \in File /\ Missing \in File /\ Missing.ver = -1
  BY HostFacts, IdleTyped DEF Config
<1>5. PICK f \in {daemon.file, Missing} :
        /\ IF f = daemon.file THEN UNCHANGED spent ELSE Fault
        /\ Becomes(d, IF f.allows THEN [deps[d] EXCEPT !.pc = "need"]
                      ELSE IF site.auto /\ f.kind # "odd"
                      THEN [deps[d] EXCEPT !.pc = "write", !.dump = f] ELSE Ended("over"))
  BY DEF Dump
<1>6. Spends /\ f \in File /\ f.ver \in {daemon.file.ver, -1}
  BY <1>4, <1>5, Spending
<1>7. PICK e : /\ Becomes(d, e)
               /\ e \in {[o EXCEPT !.pc = "need"], [o EXCEPT !.pc = "write", !.dump = f], Ended("over")}
  BY <1>2, <1>5
<1>8. CASE e = [o EXCEPT !.pc = "need"] \/ e = [o EXCEPT !.pc = "write", !.dump = f]
  <2>1. /\ e \in Dep /\ e.pc \in {"need", "write"} /\ e.svc = o.svc /\ e.tag = o.tag
        /\ e.private = o.private /\ e.src = o.src /\ e.dump \in {o.dump, f} /\ e.blocked = o.blocked
        /\ e.tries = o.tries /\ e.since = o.since /\ e.missed = o.missed /\ e.lost = o.lost
        /\ e.unwritten = o.unwritten /\ e.met = o.met
    BY <1>6, <1>8 DEF Dep
  <2>2. ImageOf(e) = ImageOf(o) /\ (Steps(e) <=> Steps(o))
    BY <2>1 DEF ImageOf, Steps
  <2>3. DepFits(site.within, d, e, env, running, images, registry.holds)
    BY <1>1, <1>2, <2>1, <2>2 DEF DepFits, Past, Before
  <2>4. DepFits(site.within, d, e, env, running, images', registry.holds)
    BY <1>3, <2>3
  <2>5. e.dump.ver \in {deps[d].dump.ver, daemon.file.ver, -1}
    BY <1>2, <1>6, <2>1
  <2> QED BY <1>1, <1>2, <1>3, <1>6, <1>7, <2>1, <2>4, <2>5, BecomesInv
<1>9. CASE e = Ended("over")
  <2>1. /\ e \in Dep /\ e.dump.ver = -1 /\ e.since <= spent.changes + 1
        /\ DepFits(site.within, d, e, env, running, images', registry.holds)
    BY <1>9, EndedFits, HostFacts
  <2> QED BY <1>1, <1>3, <1>6, <1>7, <2>1, BecomesInv
<1> QED BY <1>7, <1>8, <1>9

\* A deployment goes on or ends, and daemon.json or dockerd moves.
LEMMA DaemonStepInv ==
  ASSUME ComposeInv, NEW d \in Deployment, Live(d), deps[d].pc \in {"write", "reload"},
         NEW pc \in {"reload", "need"}, Goes(d, pc) \/ Finishes(d, "over"),
         UNCHANGED <<site, registry, images, env, running>>, Spends,
         daemon' \in Config,
         daemon'.last = daemon.last,
         \A f \in {daemon'.file, daemon'.backup} : f.kind = "none" => f.ver = -1,
         daemon.last = -1 => daemon'.file.ver = -1 /\ daemon'.backup.ver = -1,
         daemon'.writes = 0 => daemon.last = daemon'.file.ver,
         daemon'.writes <= 1 /\ daemon'.copied => daemon.last \in {daemon'.file.ver, daemon'.backup.ver}
  PROVE  ComposeInv'
<1>1. (\A x \in Deployment : deps'[x].dump.ver \in {deps[x].dump.ver, -1}) => DaemonFits'
  BY DEF ComposeInv, DaemonFits, OperatorsConfigKept
<1>2. CASE Finishes(d, "over")
  BY <1>1, <1>2, FinishesInv
<1>3. CASE Goes(d, pc)
  <2>1. PICK e \in Dep : /\ e = [deps[d] EXCEPT !.pc = pc]
                         /\ e.dump = deps[d].dump /\ e.since = deps[d].since
                         /\ DepFits(site.within, d, e, env, running, images, registry.holds)
    BY GoesFits DEF DepPc
  <2>2. PICK f \in Dep : /\ f = Onward(d, e)
                         /\ f.dump.ver \in {deps[d].dump.ver, -1}
                         /\ f.since <= spent.changes + 1
                         /\ DepFits(site.within, d, f, env, running, images, registry.holds)
    <3>1. CASE Onward(d, e) = e
      BY <2>1, <3>1, DepFacts
    <3>2. CASE Onward(d, e) = Ended("over")
      BY <3>2, EndedFits, HostFacts
    <3> QED BY <3>1, <3>2 DEF Onward
  <2>3. Moved(d, f, {})
    BY <1>3, <2>1, <2>2, HostFacts DEF Moved, Becomes, Goes
  <2>4. \A x \in Deployment : deps'[x].dump.ver \in {deps[x].dump.ver, -1}
    BY <2>2, <2>3 DEF Moved
  <2>5. d <= spent'.deploys
    BY DepFacts, HostFacts DEF Spends, Spent, Deployment
  <2>6. DepFits(site.within, d, f, env', running', images', registry.holds)
    BY <2>2
  <2>7. Pulled /\ UNCHANGED <<site, registry>>
    BY HostFacts DEF Pulled
  <2>8. /\ env' \in [Service -> Image \cup {NoContainer.image}] /\ running' \in [Service -> Running]
        /\ \A x \in Deployment : env'[Svc(x)] = env[Svc(x)] /\ running'[Svc(x)] = running[Svc(x)]
    BY HostFacts
  <2> QED BY <1>1, <2>2, <2>3, <2>4, <2>5, <2>6, <2>7, <2>8, HostStepInv
<1> QED BY <1>2, <1>3

LEMMA ConfigFacts ==
  ASSUME ComposeInv, NEW d \in Deployment
  PROVE  /\ daemon \in Config
         /\ daemon.file \in File /\ daemon.backup \in File /\ deps[d].dump \in File
         /\ Merged(d) \in File /\ Merged(d).kind = "plain" /\ Merged(d).ver = deps[d].dump.ver
         /\ Kept \in {daemon.file, daemon.backup}
         /\ daemon.file.kind # "none" => Kept = daemon.file
         /\ Writes \in {1, 2} /\ (Writes = 1 => daemon.writes = 0)
         /\ daemon.file.kind = "none" => daemon.file.ver = -1
         /\ daemon.backup.kind = "none" => daemon.backup.ver = -1
         /\ daemon.last = -1 => /\ daemon.file.ver = -1 /\ daemon.backup.ver = -1
                                /\ deps[d].dump.ver = -1
         /\ daemon.writes = 0 => daemon.last = daemon.file.ver
         /\ daemon.writes <= 1 /\ daemon.copied => daemon.last \in {daemon.file.ver, daemon.backup.ver}
<1>1. daemon \in Config /\ daemon.writes \in {0, 1, 2} /\ deps[d] \in Dep
  BY HostFacts, DepFacts DEF Config
<1>2. deps[d].dump \in File
  BY <1>1, DepTyped
<1>3. Merged(d) \in File /\ Merged(d).kind = "plain" /\ Merged(d).ver = deps[d].dump.ver
  BY <1>2 DEF Merged, File
<1>4. /\ daemon.file \in File /\ daemon.backup \in File
      /\ Kept \in {daemon.file, daemon.backup} /\ (daemon.file.kind # "none" => Kept = daemon.file)
  BY <1>1 DEF Config, Kept
<1>5. Writes \in {1, 2} /\ (Writes = 1 => daemon.writes = 0)
  BY <1>1 DEF Writes
<1>6. DaemonFits
  BY DEF ComposeInv
<1> QED BY <1>1, <1>2, <1>3, <1>4, <1>5, <1>6 DEF DaemonFits, OperatorsConfigKept

\* Copy and write: the copy, if it worked, is what the operator wrote last, unless it was
\* made before.
LEMMA WriteDaemonInv ==
  ASSUME ComposeInv, NEW d \in Deployment, WriteDaemon(d)
  PROVE  ComposeInv'
<1>1. Live(d) /\ deps[d].pc = "write" /\ UNCHANGED <<site, registry, images, env, running>>
  BY AtLive DEF WriteDaemon, Past
<1>2. PICK copied \in BOOLEAN, written \in BOOLEAN :
        /\ IF copied /\ written THEN UNCHANGED spent ELSE Fault
        /\ copied \/ daemon.file.kind # "none"
        /\ \E b \in (IF copied THEN {Kept} ELSE {daemon.backup, Emptied}),
              f \in (IF written THEN {Merged(d)} ELSE {daemon.file, Emptied, Torn}) :
             daemon' = [daemon EXCEPT !.file = f, !.backup = b, !.writes = Writes,
                          !.copied = @ /\ copied]
        /\ IF written THEN Goes(d, "reload") ELSE Finishes(d, "over")
  BY DEF WriteDaemon
<1> PICK b \in (IF copied THEN {Kept} ELSE {daemon.backup, Emptied}),
         f \in (IF written THEN {Merged(d)} ELSE {daemon.file, Emptied, Torn}) :
      daemon' = [daemon EXCEPT !.file = f, !.backup = b, !.writes = Writes, !.copied = @ /\ copied]
  BY <1>2
<1>3. Spends /\ (Goes(d, "reload") \/ Finishes(d, "over"))
  BY <1>2, Spending
<1>4. f \in File /\ (f.kind = "none" => f.ver = -1) /\ (daemon.last = -1 => f.ver = -1)
  <2>1. f \in {Merged(d), daemon.file, Emptied, Torn}
    BY <1>2
  <2> QED BY <2>1, ConfigFacts, IdleTyped
<1>5. b \in File /\ (b.kind = "none" => b.ver = -1) /\ (daemon.last = -1 => b.ver = -1)
  <2>1. b \in {Kept, daemon.backup, Emptied}
    BY <1>2
  <2> QED BY <2>1, ConfigFacts, IdleTyped
<1>6. PICK w \in {1, 2} : w = Writes
  BY ConfigFacts
<1>7. PICK c \in BOOLEAN : c = (daemon.copied /\ copied)
  OBVIOUS
<1>8. /\ daemon' \in Config /\ daemon'.last = daemon.last /\ daemon'.file = f /\ daemon'.backup = b
      /\ daemon'.writes = w /\ daemon'.copied = c
  <2>1. daemon \in Config
    BY ConfigFacts
  <2>2. daemon' = [daemon EXCEPT !.file = f, !.backup = b, !.writes = w, !.copied = c]
    BY <1>2, <1>6, <1>7
  <2>3. w \in 0..2
    OBVIOUS
  <2> QED BY <1>4, <1>5, <2>1, <2>2, <2>3 DEF Config
<1>9. w <= 1 /\ c => daemon.last \in {f.ver, b.ver}
  <2> SUFFICES ASSUME w <= 1, c PROVE daemon.last \in {f.ver, b.ver}
    OBVIOUS
  <2>1. daemon.last = daemon.file.ver /\ b = Kept
    BY <1>2, <1>6, <1>7, ConfigFacts
  <2>2. CASE daemon.file.kind = "none"
    <3>1. daemon.last = -1
      BY <2>1, <2>2, ConfigFacts
    <3> QED BY <1>4, <1>5, <3>1, <2>1, <2>2, ConfigFacts
  <2>3. CASE daemon.file.kind # "none"
    BY <2>1, <2>3, ConfigFacts
  <2> QED BY <2>2, <2>3
<1> QED BY <1>1, <1>3, <1>4, <1>5, <1>6, <1>8, <1>9, DaemonStepInv

\* dockerd reads it, or not.
LEMMA ReloadInv ==
  ASSUME ComposeInv, NEW d \in Deployment, Reload(d)
  PROVE  ComposeInv'
<1>1. /\ Live(d) /\ deps[d].pc = "reload" /\ Spends
      /\ UNCHANGED <<site, registry, images, env, running>>
  BY AtLive, Spending DEF Reload, Past
<1>2. Goes(d, "need") \/ Finishes(d, "over")
  BY DEF Reload
<1>3. /\ daemon' \in Config /\ daemon'.last = daemon.last /\ daemon'.file = daemon.file
      /\ daemon'.backup = daemon.backup /\ daemon'.writes = daemon.writes
      /\ daemon'.copied = daemon.copied
  BY ConfigFacts DEF Reload, Config, File
<1> QED BY <1>1, <1>2, <1>3, ConfigFacts, DaemonStepInv
-----------------------------------------------------------------------------
\* The look at the image: without a pull it is what the registry holds now.
LEMMA NeedInv ==
  ASSUME ComposeInv, NEW d \in Deployment, Need(d)
  PROVE  ComposeInv'
<1>1. /\ Live(d) /\ deps[d].pc = "need" /\ Spends
      /\ UNCHANGED <<site, registry, images, env, running, daemon>>
  BY AtLive, Spending DEF Need, Past
<1>2. CASE Goes(d, "pull")
  BY <1>1, <1>2, GoesInv DEF DepPc
<1>3. CASE Goes(d, "have") /\ ~NeedsPull(d)
  <2>1. images[Wanted(d)] = registry.holds[Wanted(d)] /\ registry.holds[Wanted(d)] > 0
    BY <1>3 DEF NeedsPull, Available
  <2>2. images[Wanted(d)] > 0 /\ images[Wanted(d)] >= deps[d].since
    BY <1>1, <2>1, DepFacts
  <2> QED BY <1>1, <1>3, <2>2, GoesInv DEF DepPc
<1> QED BY <1>2, <1>3 DEF Need

\* The pull: afterwards the image is there, or a registry did not give it.
LEMMA PullInv ==
  ASSUME ComposeInv, NEW d \in Deployment, Pull(d)
  PROVE  ComposeInv'
<1>1. /\ Live(d) /\ deps[d].pc = "pull" /\ Spends
      /\ UNCHANGED <<site, registry, env, running, daemon>>
  BY AtLive, Spending DEF Pull, Past
<1>2. PICK i : i = IF Svc(d) \in Custom THEN Dot[Svc(d)] ELSE env[Svc(d)]
  OBVIOUS
<1>3. Pulled
  BY <1>2, PulledOne DEF Pull
<1>4. PICK o \in Dep : /\ o = deps[d] /\ o.since <= spent.changes + 1 /\ o.svc # "none"
                       /\ DepFits(site.within, d, o, env, running, images, registry.holds)
                       /\ o.blocked \in BOOLEAN /\ o.missed \in BOOLEAN
  BY <1>1, DepFacts, DepTyped DEF Live
<1>5. PICK b \in BOOLEAN, m \in BOOLEAN :
        /\ Becomes(d, [o EXCEPT !.pc = "have", !.blocked = b, !.missed = m])
        /\ b => o.blocked \/ o.src = "own"
        /\ o.missed => m
        /\ m \/ (Available(i) /\ images' = WithPulled(i))
  <2>1. CASE /\ images' = WithPulled(i)
             /\ Becomes(d, [deps[d] EXCEPT !.pc = "have",
                  !.blocked = @ \/ (deps[d].src = "own" /\ Refused(i)), !.missed = @ \/ ~Available(i)])
    <3>1. PICK b \in BOOLEAN, m \in BOOLEAN : /\ b = (o.blocked \/ (o.src = "own" /\ Refused(i)))
                                              /\ m = (o.missed \/ ~Available(i))
      OBVIOUS
    <3>2. Becomes(d, [o EXCEPT !.pc = "have", !.blocked = b, !.missed = m])
      BY <1>4, <2>1, <3>1
    <3> QED BY <2>1, <3>1, <3>2
  <2>2. CASE Becomes(d, [deps[d] EXCEPT !.pc = "have", !.missed = TRUE])
    <3>1. [o EXCEPT !.pc = "have", !.missed = TRUE]
            = [o EXCEPT !.pc = "have", !.blocked = o.blocked, !.missed = TRUE]
      BY DEF Dep
    <3>2. Becomes(d, [o EXCEPT !.pc = "have", !.blocked = o.blocked, !.missed = TRUE])
      BY <1>4, <2>2, <3>1
    <3> QED BY <1>4, <3>2
  <2> QED BY <1>2, <2>1, <2>2 DEF Pull
<1>6. PICK e : e = [o EXCEPT !.pc = "have", !.blocked = b, !.missed = m]
  OBVIOUS
<1>7. /\ e \in Dep /\ e.pc = "have" /\ e.svc = o.svc /\ e.tag = o.tag /\ e.private = o.private
      /\ e.src = o.src /\ e.blocked = b /\ e.tries = o.tries /\ e.since = o.since
      /\ e.missed = m /\ e.lost = o.lost /\ e.unwritten = o.unwritten /\ e.met = o.met
      /\ e.dump = o.dump
  BY <1>6 DEF Dep
<1>8. PICK w \in Image : /\ w = ImageOf(o) /\ ImageOf(e) = w /\ w = Wanted(d)
                         /\ registry.holds[w] = 0 \/ registry.holds[w] >= o.since
                         /\ registry.holds[w] \in Nat
  BY <1>1, <1>4, <1>7, DepFacts DEF ImageOf
<1>9. e.svc \notin Custom /\ ~m /\ env[e.svc] = w => images'[w] > 0 /\ images'[w] >= e.since
  <2> SUFFICES ASSUME e.svc \notin Custom, ~m, env[e.svc] = w
               PROVE  images'[w] > 0 /\ images'[w] >= e.since
    OBVIOUS
  <2>1. i = w
    BY <1>2, <1>4, <1>7 DEF Svc
  <2>2. images'[w] = registry.holds[w] /\ registry.holds[w] > 0
    BY <1>5, <2>1, HostFacts DEF WithPulled, Available
  <2> QED BY <1>7, <1>8, <2>2
<1>10. Steps(e) <=> Steps(o)
  BY <1>7 DEF Steps
<1>11. Steps(o) /\ b => o.blocked
  BY <1>5 DEF Steps
<1>12. DepFits(site.within, d, e, env, running, images', registry.holds)
  BY <1>1, <1>4, <1>5, <1>7, <1>8, <1>9, <1>10, <1>11 DEF DepFits, Past, Before
<1> QED BY <1>1, <1>3, <1>4, <1>5, <1>6, <1>7, <1>12, BecomesInv

\* The look at the image after the pull.
LEMMA HaveInv ==
  ASSUME ComposeInv, NEW d \in Deployment, Have(d)
  PROVE  ComposeInv'
<1>1. /\ Live(d) /\ deps[d].pc = "have" /\ Spends
      /\ UNCHANGED <<site, registry, images, env, running, daemon>>
  BY AtLive, Spending DEF Have, Past
<1>2. CASE Goes(d, "up")
  BY <1>1, <1>2, GoesInv DEF DepPc
<1>3. ASSUME NEW lost \in BOOLEAN, Becomes(d, WithoutImage(d, lost)), lost \/ images[Wanted(d)] = 0
      PROVE  ComposeInv'
  <2>1. PICK o \in Dep : /\ o = deps[d] /\ o.svc # "none" /\ o.tag \in Tag /\ o.lost \in BOOLEAN
                         /\ DepFits(site.within, d, o, env, running, images, registry.holds)
    BY <1>1, DepFacts, DepTyped DEF Live
  <2>2. PICK i \in Image : i = [src |-> "hub", tag |-> o.tag]
    BY <2>1 DEF Image, Src
  <2>3. PICK v \in Version : v = registry.holds[i] /\ v <= spent.changes + 1
    BY HostFacts
  <2>4. PICK n \in BOOLEAN : n = (o.lost \/ lost)
    OBVIOUS
  <2>5. PICK pc \in {"env", "over"} : pc = IF o.src = "own" /\ ~o.blocked THEN "env" ELSE "over"
    OBVIOUS
  <2>6. PICK e : e = [o EXCEPT !.src = "hub", !.lost = n, !.pc = pc, !.since = v]
    OBVIOUS
  <2>7. WithoutImage(d, lost) = e
    BY <2>1, <2>2, <2>3, <2>4, <2>5, <2>6 DEF WithoutImage, Elsewhere
  <2>8. /\ e \in Dep /\ e.pc = pc /\ e.svc = o.svc /\ e.tag = o.tag /\ e.private = o.private
        /\ e.src = "hub" /\ e.blocked = o.blocked /\ e.tries = o.tries /\ e.since = v
        /\ e.missed = o.missed /\ e.lost = n /\ e.unwritten = o.unwritten /\ e.met = o.met
        /\ e.dump = o.dump
    BY <2>6 DEF Dep, Src
  <2>9. CASE pc = "over"
    <3>1. Finishes(d, "over")
      BY <1>3, <2>7, <2>8, <2>9 DEF Becomes, Onward, Finishes
    <3>2. (\A x \in Deployment : deps'[x].dump.ver \in {deps[x].dump.ver, -1}) => DaemonFits'
      BY <1>1 DEF ComposeInv, DaemonFits, OperatorsConfigKept
    <3>3. daemon' \in Config /\ daemon'.last = daemon.last
      BY <1>1, HostFacts
    <3> QED BY <1>1, <3>1, <3>2, <3>3, FinishesInv
  <2>10. CASE pc = "env"
    <3>1. ~o.blocked /\ ImageOf(e) = i /\ registry.holds[i] = v /\ v \in Nat
      BY <2>2, <2>3, <2>5, <2>8, <2>10, Numbers DEF ImageOf
    <3>2. e.missed \/ e.lost \/ e.unwritten \/ e.met \/ e.svc \in Custom
      <4> SUFFICES ASSUME ~o.missed, ~lost, ~o.unwritten, ~o.met, o.svc \notin Custom PROVE FALSE
        BY <2>4, <2>8
      <4>1. env[o.svc] = ImageOf(o) /\ images[ImageOf(o)] > 0
        BY <1>1, <2>1 DEF DepFits
      <4> QED BY <1>1, <1>3, <2>1, <4>1, DepFacts
    <3>3. ~o.met => Tells(site.within, o.svc, env[o.svc], o.tag)
      BY <1>1, <2>1 DEF DepFits
    <3>4. o.tries = 0
      BY <1>1, <2>1 DEF DepFits, Before
    <3>5. DepFits(site.within, d, e, env, running, images, registry.holds)
      BY <2>1, <2>8, <2>10, <3>1, <3>2, <3>3, <3>4 DEF DepFits, Past, Before
    <3>6. Pulled /\ DepFits(site.within, d, e, env, running, images', registry.holds)
      BY <1>1, <3>5, HostFacts DEF Pulled
    <3>7. /\ Becomes(d, e) /\ e.since <= spent.changes + 1
          /\ e.dump.ver \in {deps[d].dump.ver, daemon.file.ver, -1}
      BY <1>3, <2>1, <2>3, <2>7, <2>8
    <3> QED BY <1>1, <2>8, <3>6, <3>7, BecomesInv
  <2> QED BY <2>9, <2>10
<1> QED BY <1>2, <1>3 DEF Have
-----------------------------------------------------------------------------
\* A container created anew: its image was on the host or has been pulled.
LEMMA Recreated ==
  ASSUME ComposeInv, NEW s \in Service, NEW i, NEW by \in 0..MaxDeploys, Recreate(s, i, by)
  PROVE  /\ Pulled /\ running' \in [Service -> Running]
         /\ running'[s] = [image |-> i, ver |-> images'[i], by |-> by]
         /\ \A u \in Service \ {s} : running'[u] = running[u]
<1>1. i \in Image /\ images' \in {images, WithPulled(i)}
  BY DEF Recreate, CanRecreate
<1>2. Pulled
  BY <1>1, PulledOne
<1>3. PICK c \in Container : c = [image |-> i, ver |-> images'[i], by |-> by]
  BY <1>1, <1>2 DEF Pulled, Container
<1>4. running' = [running EXCEPT ![s] = c] /\ running \in [Service -> Running] /\ c \in Running
  BY <1>3, HostFacts DEF Recreate, Running
<1> QED BY <1>2, <1>3, <1>4

\* What a deployment is after an attempt of "up", with the containers qu and images jm.
LEMMA AfterUpFits ==
  ASSUME ComposeInv, NEW d \in Deployment, Live(d), deps[d].pc = "up", NEW code \in 0..1,
         NEW qu, NEW jm \in [Image -> Version],
         \A i \in Image : jm[i] = images[i] \/ (jm[i] = registry.holds[i] /\ registry.holds[i] > 0),
         code = 0 => qu[Svc(d)] = [image |-> env[Svc(d)], ver |-> jm[env[Svc(d)]], by |-> d]
  PROVE  \E e \in Dep : /\ e = AfterUp(d, code) /\ e.dump = deps[d].dump /\ e.since = deps[d].since
                        /\ DepFits(site.within, d, e, env, qu, jm, registry.holds)
<1>1. PICK o \in Dep : /\ o = deps[d] /\ o.svc # "none" /\ o.svc = Svc(d)
                       /\ DepFits(site.within, d, o, env, running, images, registry.holds)
                       /\ o.since <= spent.changes + 1
  BY DepFacts DEF Live
<1>2. DepFits(site.within, d, o, env, running, jm, registry.holds)
  BY <1>1, HostFacts, DepKeeps
<1>3. PICK n \in 0..Attempts : n = o.tries + 1
  BY <1>1, Numbers, DepTyped DEF DepFits
<1>4. PICK pc \in {"up", "verify"} : pc = IF code = 0 \/ n >= Attempts THEN "verify" ELSE "up"
  OBVIOUS
<1>5. PICK e : e = [o EXCEPT !.code = code, !.tries = n, !.pc = pc]
  OBVIOUS
<1>6. e = AfterUp(d, code)
  BY <1>1, <1>3, <1>4, <1>5 DEF AfterUp
<1>7. /\ e \in Dep /\ e.pc = pc /\ e.svc = o.svc /\ e.tag = o.tag /\ e.private = o.private
      /\ e.src = o.src /\ e.blocked = o.blocked /\ e.tries = n /\ e.since = o.since
      /\ e.missed = o.missed /\ e.lost = o.lost /\ e.unwritten = o.unwritten /\ e.met = o.met
      /\ e.dump = o.dump /\ e.code = code
  BY <1>5 DEF Dep
<1>8. ImageOf(e) = ImageOf(o) /\ (Steps(e) <=> Steps(o))
  BY <1>7 DEF ImageOf, Steps
<1>9. pc = "up" => n < Attempts
  BY <1>3, <1>4, Numbers
<1>10. code = 0 => qu[o.svc].by = d /\ qu[o.svc].image = env[o.svc] /\ qu[o.svc].ver = jm[env[o.svc]]
  BY <1>1
<1>11. DepFits(site.within, d, e, env, qu, jm, registry.holds)
  BY <1>1, <1>2, <1>7, <1>8, <1>9, <1>10 DEF DepFits, Past, Before
<1> QED BY <1>1, <1>6, <1>7, <1>11

\* The container is created anew, or not.
LEMMA UpInv ==
  ASSUME ComposeInv, NEW d \in Deployment, Up(d)
  PROVE  ComposeInv'
<1>1. /\ Live(d) /\ deps[d].pc = "up" /\ Spends /\ UNCHANGED <<site, registry, env, daemon>>
  BY AtLive, Spending DEF Up, Past
<1>2. PICK s \in Service : s = Svc(d)
  BY <1>1, DepFacts
<1>3. deps[d].since <= spent.changes + 1
  BY DepFacts
<1>4. ASSUME NEW code \in 0..1, Recreate(s, env[s], d), Affects(d, AfterUp(d, code))
      PROVE  ComposeInv'
  <2>1. d \in 0..MaxDeploys
    BY Numbers DEF Deployment
  <2>2. /\ Pulled /\ running' \in [Service -> Running]
        /\ running'[s] = [image |-> env[s], ver |-> images'[env[s]], by |-> d]
        /\ \A u \in Service \ {s} : running'[u] = running[u]
    BY <1>4, <2>1, Recreated
  <2>3. PICK e \in Dep : /\ e = AfterUp(d, code) /\ e.dump = deps[d].dump /\ e.since = deps[d].since
                         /\ DepFits(site.within, d, e, env, running', images', registry.holds)
    BY <1>1, <1>2, <2>2, AfterUpFits DEF Pulled
  <2>4. /\ env' \in [Service -> Image \cup {NoContainer.image}]
        /\ \A u \in Service \ {Svc(d)} : env'[u] = env[u] /\ running'[u] = running[u]
        /\ DepFits(site.within, d, e, env', running', images', registry.holds)
    BY <1>1, <1>2, <2>2, <2>3, HostFacts
  <2> QED BY <1>1, <1>3, <1>4, <2>2, <2>3, <2>4, AffectsInv
<1>5. CASE UNCHANGED <<images, running>> /\ Becomes(d, AfterUp(d, 1))
  <2>1. Pulled
    BY <1>5, HostFacts DEF Pulled
  <2>2. PICK e \in Dep : /\ e = AfterUp(d, 1) /\ e.dump = deps[d].dump /\ e.since = deps[d].since
                         /\ DepFits(site.within, d, e, env, running, images', registry.holds)
    BY <1>1, <2>1, AfterUpFits DEF Pulled
  <2> QED BY <1>1, <1>3, <1>5, <2>1, <2>2, BecomesInv
<1> QED BY <1>2, <1>4, <1>5 DEF Up

\* The verdict.
LEMMA VerifyInv ==
  ASSUME ComposeInv, NEW d \in Deployment, Verify(d)
  PROVE  ComposeInv'
<1>1. UNCHANGED <<site, registry, images, env, running, daemon>> /\ Spends
  BY Spending DEF Verify
<1>2. PICK pc \in {"over", "ok"} : Finishes(d, pc)
  BY DEF Verify
<1>3. (\A x \in Deployment : deps'[x].dump.ver \in {deps[x].dump.ver, -1}) => DaemonFits'
  BY <1>1 DEF ComposeInv, DaemonFits, OperatorsConfigKept
<1>4. daemon' \in Config /\ daemon'.last = daemon.last
  BY <1>1, HostFacts
<1> QED BY <1>1, <1>2, <1>3, <1>4, FinishesInv
-----------------------------------------------------------------------------
\* The lock is lost, a streamed command is left running, a connection breaks.
LEMMA CutInv ==
  ASSUME ComposeInv, NEW d \in Deployment, Cancel(d) \/ Notice(d) \/ BreakOff(d)
  PROVE  ComposeInv'
<1>1. UNCHANGED <<site, registry, images, env, running, daemon>> /\ Spends
  BY Spending DEF Cancel, Notice, BreakOff
<1>2. PICK o \in Dep : /\ o = deps[d] /\ o.since <= spent.changes + 1
                       /\ DepFits(site.within, d, o, env, running, images, registry.holds)
                       /\ o.svc # "none" => d <= spent.deploys
  BY DepFacts DEF Live
<1>3. PICK e : /\ deps' = [deps EXCEPT ![d] = e]
               /\ e \in {[o EXCEPT !.held = FALSE], [o EXCEPT !.cut = TRUE],
                         [o EXCEPT !.held = FALSE, !.cut = TRUE], Ended("over")}
  BY <1>2 DEF Cancel, Notice, BreakOff
<1>4. /\ e \in Dep /\ e.dump.ver \in {o.dump.ver, -1} /\ e.since <= spent.changes + 1
      /\ e.svc \in {o.svc, "none"}
      /\ DepFits(site.within, d, e, env, running, images, registry.holds)
  <2>1. CASE e = Ended("over")
    BY <2>1, EndedFits, HostFacts
  <2>2. CASE e \in {[o EXCEPT !.held = FALSE], [o EXCEPT !.cut = TRUE],
                    [o EXCEPT !.held = FALSE, !.cut = TRUE]}
    <3>1. /\ e \in Dep /\ e.pc = o.pc /\ e.svc = o.svc /\ e.tag = o.tag /\ e.private = o.private
          /\ e.src = o.src /\ e.blocked = o.blocked /\ e.tries = o.tries /\ e.since = o.since
          /\ e.missed = o.missed /\ e.lost = o.lost /\ e.unwritten = o.unwritten /\ e.met = o.met
          /\ e.dump = o.dump /\ e.code = o.code
      BY <2>2 DEF Dep
    <3>2. ImageOf(e) = ImageOf(o) /\ (Steps(e) <=> Steps(o))
      BY <3>1 DEF ImageOf, Steps
    <3>3. DepFits(site.within, d, e, env, running, images, registry.holds)
      BY <1>2, <3>1, <3>2 DEF DepFits
    <3> QED BY <1>2, <3>1, <3>3
  <2> QED BY <1>3, <2>1, <2>2
<1>5. Moved(d, e, {})
  BY <1>3, HostFacts DEF Moved
<1>6. DaemonFits' /\ daemon' \in Config /\ daemon'.last = daemon.last
  BY <1>1, <1>2, <1>4, <1>5, DaemonKeeps
<1>7. e.svc # "none" => d <= spent'.deploys
  BY <1>1, <1>2, <1>4, HostFacts DEF Spends, Spent, Deployment
<1>8. /\ env' \in [Service -> Image \cup {NoContainer.image}] /\ running' \in [Service -> Running]
      /\ \A x \in Deployment : env'[Svc(x)] = env[Svc(x)] /\ running'[Svc(x)] = running[Svc(x)]
      /\ Pulled /\ UNCHANGED <<site, registry>>
  BY <1>1, HostFacts DEF Pulled
<1>9. DepFits(site.within, d, e, env', running', images', registry.holds)
  BY <1>1, <1>4
<1> QED BY <1>1, <1>4, <1>5, <1>6, <1>7, <1>8, <1>9, HostStepInv

\* A deployment by the operator's own commands.
LEMMA ScriptInv ==
  ASSUME ComposeInv, NEW s \in Service, NEW t \in Tag, Script(s, t)
  PROVE  ComposeInv'
<1>1. PICK code \in 0..1, i \in [src : {"own"}, tag : {t}] :
        /\ deps' = [d \in Deployment |->
             IF d = NextId THEN Ended(IF code = 0 THEN "ok" ELSE "over")
             ELSE IF Svc(d) = s THEN [deps[d] EXCEPT !.met = TRUE] ELSE deps[d]]
        /\ Recreate(s, i, NextId) \/ UNCHANGED <<images, running>>
  BY DEF Script
<1>2. PICK d \in Deployment : d = NextId /\ d \in 0..MaxDeploys
  BY HostFacts, Numbers DEF Script, NextId, Spent, Deployment
<1>3. PICK pc \in {"ok", "over"} : pc = IF code = 0 THEN "ok" ELSE "over"
  OBVIOUS
<1>4. PICK e \in Dep : e = Ended(pc) /\ e.svc = "none" /\ e.dump.ver = -1 /\ e.since = 0
  BY EndedFits
<1>5. PICK M : M = {x \in Deployment : Svc(x) = s}
  OBVIOUS
<1>6. Moved(d, e, M)
  BY <1>1, <1>2, <1>3, <1>4, <1>5 DEF Moved
<1>7. UNCHANGED <<site, registry>> /\ env' = env /\ daemon' = daemon /\ Spends
  BY Spending DEF Script
<1>8. /\ Pulled /\ running' \in [Service -> Running]
      /\ \A u \in Service \ {s} : running'[u] = running[u]
  <2>1. CASE Recreate(s, i, NextId)
    BY <1>2, <2>1, Recreated
  <2>2. CASE UNCHANGED <<images, running>>
    BY <2>2, HostFacts DEF Pulled
  <2> QED BY <1>1, <2>1, <2>2
<1>9. DaemonFits' /\ daemon' \in Config /\ daemon'.last = daemon.last
  BY <1>4, <1>6, <1>7, DaemonKeeps
<1>10. \A x \in Deployment \ {d} : Live(x) /\ x \notin M =>
         env'[Svc(x)] = env[Svc(x)] /\ running'[Svc(x)] \in {running[Svc(x)], NoContainer}
  BY <1>5, <1>7, <1>8, DepFacts
<1>11. /\ env' \in [Service -> Image \cup {NoContainer.image}] /\ e.since <= spent.changes + 1
       /\ DepFits(site.within, d, e, env', running', images', registry.holds)
  BY <1>4, <1>7, HostFacts, EndedFits
<1> QED BY <1>4, <1>6, <1>7, <1>8, <1>9, <1>10, <1>11, HostStepInv

\* A service is stopped.
LEMMA DownInv ==
  ASSUME ComposeInv, NEW s \in Service, Stop(s)
  PROVE  ComposeInv'
<1>1. /\ UNCHANGED <<site, registry, images, env, daemon, deps, spent>>
      /\ running' = [running EXCEPT ![s] = NoContainer]
  BY DEF Stop
<1>2. running' \in [Service -> Running] /\ \A u \in Service : running'[u] \in {running[u], NoContainer}
  BY <1>1, HostFacts DEF Running
<1>3. ASSUME NEW x \in Deployment
      PROVE  DepFits(site.within, x, deps[x], env, running', images, registry.holds)
  <2>1. deps[x].svc # "none" => running'[deps[x].svc] \in {running[deps[x].svc], NoContainer}
    BY <1>2, DepFacts DEF Live
  <2> QED BY <2>1, DepFacts, ElsewhereKeeps
<1>4. \A x \in Deployment : DepFits(site.within, x, deps[x], env, running, images, registry.holds)'
  BY <1>1, <1>3 DEF DepFits
<1>5. ComposeTypeOK' /\ Bounds' /\ DaemonFits'
  BY <1>1, <1>2 DEF ComposeInv, ComposeTypeOK, Bounds, Live, DaemonFits, OperatorsConfigKept, Running
<1> QED BY <1>4, <1>5 DEF ComposeInv
-----------------------------------------------------------------------------
\* What the registries hold moves: a tag is pushed, after everything so far, or
\* deleted; a registry goes, or the host is let in or not.
LEMMA RegistryInv ==
  ASSUME ComposeInv, ChangeRegistry
  PROVE  ComposeInv'
<1>1. /\ registry \in [up : SUBSET Src, admits : BOOLEAN, holds : [Image -> Version]]
      /\ spent \in Spent
      /\ spent.changes < MaxChanges /\ spent' = [spent EXCEPT !.changes = @ + 1]
      /\ \A i \in Image : registry.holds[i] <= spent.changes + 1
      /\ UNCHANGED <<site, images, env, running, daemon, deps>>
  BY DEF ComposeInv, ComposeTypeOK, Bounds, ChangeRegistry
<1>2. PICK n \in Nat : n = spent.changes /\ n + 1 \in 0..MaxChanges
  BY <1>1, Numbers DEF Spent
<1>3. n + 2 \in Version /\ 0 \in Version
  BY <1>2, Numbers DEF Version
<1>4. /\ registry' \in [up : SUBSET Src, admits : BOOLEAN, holds : [Image -> Version]]
      /\ \A i \in Image : registry'.holds[i] \in {registry.holds[i], 0, n + 2}
  <2>1. CASE \E i \in Image : registry' = [registry EXCEPT !.holds[i] = n + 2]
    BY <1>1, <1>3, <2>1
  <2>2. CASE \E i \in Image : registry' = [registry EXCEPT !.holds[i] = 0]
    BY <1>1, <1>3, <2>2
  <2>3. CASE \E r \in Src : registry' = [registry EXCEPT !.up = Src \ {r}]
    BY <1>1, <2>3
  <2>4. CASE registry' = [registry EXCEPT !.admits = ~@]
    <3>1. PICK b \in BOOLEAN : b = ~registry.admits
      OBVIOUS
    <3>2. registry' = [registry EXCEPT !.admits = b]
      BY <2>4, <3>1
    <3> QED BY <1>1, <3>2
  <2> QED BY <1>2, <2>1, <2>2, <2>3, <2>4 DEF ChangeRegistry
<1>5. spent' \in Spent /\ spent'.changes = n + 1 /\ spent'.edits = spent.edits
      /\ spent'.deploys = spent.deploys
  BY <1>1, <1>2 DEF Spent
<1>6. \A i \in Image : registry.holds[i] \in Nat /\ registry.holds[i] <= n + 1
  BY <1>1, <1>2, Numbers
<1>7. Bounds'
  <2>1. \A i \in Image : registry'.holds[i] <= spent'.changes + 1
    BY <1>4, <1>5, <1>6
  <2>2. ASSUME NEW x \in Deployment
        PROVE  deps'[x].since <= spent'.changes + 1 /\ (deps'[x].svc # "none" => x <= spent'.deploys)
    <3>1. deps[x].since \in Nat /\ deps[x].since <= n + 1 /\ (deps[x].svc # "none" => x <= spent.deploys)
      BY <1>2, DepFacts, DepTyped DEF Live
    <3> QED BY <1>1, <1>2, <1>5, <3>1
  <2>3. daemon'.last <= spent'.edits
    BY <1>1, <1>5 DEF ComposeInv, Bounds
  <2> QED BY <1>5, <2>1, <2>2, <2>3 DEF Bounds, Live
<1>8. ASSUME NEW x \in Deployment
      PROVE  DepFits(site.within, x, deps[x], env, running, images, registry'.holds)
  <2>1. registry'.holds \in [Image -> Version] /\ registry.holds \in [Image -> Version]
        /\ images \in [Image -> Version]
    BY <1>4, HostFacts
  <2>2. \A i \in Image : \/ registry'.holds[i] = registry.holds[i] \/ registry'.holds[i] = 0
                         \/ registry'.holds[i] > n + 1
    BY <1>4
  <2> QED BY <1>2, <2>1, <2>2, DepFacts, DepKeeps
<1>9. \A x \in Deployment : DepFits(site.within, x, deps[x], env, running, images, registry.holds)'
  BY <1>1, <1>8 DEF DepFits
<1>10. ComposeTypeOK' /\ DaemonFits'
  BY <1>1, <1>4 DEF ComposeInv, ComposeTypeOK, DaemonFits, OperatorsConfigKept
<1> QED BY <1>7, <1>9, <1>10 DEF ComposeInv

\* Somebody edits daemon.json, or restarts dockerd.
LEMMA OperatorInv ==
  ASSUME ComposeInv, RestartDaemon \/ \E k \in {"odd", "plain"} : Edit(k)
  PROVE  ComposeInv'
<1>1. daemon \in Config /\ daemon.last <= spent.edits
  BY HostFacts DEF ComposeInv, Bounds
<1>2. UNCHANGED <<site, registry, images, env, running, deps>>
  BY DEF RestartDaemon, Edit
<1>3. \A x \in Deployment : DepFits(site.within, x, deps[x], env, running, images, registry.holds)'
  BY <1>2 DEF ComposeInv, DepFits
<1>4. CASE RestartDaemon
  <2>1. /\ daemon' \in Config /\ daemon'.last = daemon.last /\ daemon'.file = daemon.file
        /\ daemon'.backup = daemon.backup /\ daemon'.writes = daemon.writes
        /\ daemon'.copied = daemon.copied
    BY <1>1, <1>4 DEF RestartDaemon, Config, File
  <2>2. DaemonFits'
    BY <1>2, <2>1 DEF ComposeInv, DaemonFits, OperatorsConfigKept
  <2>3. Bounds' /\ ComposeTypeOK'
    BY <1>2, <1>4, <2>1 DEF ComposeInv, ComposeTypeOK, Bounds, Live, RestartDaemon, Config
  <2> QED BY <1>3, <2>2, <2>3 DEF ComposeInv
<1>5. ASSUME NEW k \in {"odd", "plain"}, Edit(k) PROVE ComposeInv'
  <2>1. spent \in Spent /\ spent.edits < MaxEdits /\ spent' = [spent EXCEPT !.edits = @ + 1]
    BY <1>5, HostFacts DEF Edit
  <2>2. PICK v \in -1..MaxEdits : v = daemon.last + 1 /\ v >= 0 /\ v <= spent.edits + 1
    BY <1>1, <2>1, Numbers DEF Config, Spent
  <2>3. PICK f \in File : f = [kind |-> k, ver |-> v, allows |-> FALSE]
    BY DEF File
  <2>4. daemon' = [daemon EXCEPT !.last = v, !.writes = 0, !.copied = TRUE, !.file = f]
    BY <1>5, <2>2, <2>3 DEF Edit
  <2>5. /\ daemon' \in Config /\ daemon'.last = v /\ daemon'.file = f
        /\ daemon'.backup = daemon.backup /\ daemon'.writes = 0
    <3>1. 0 \in 0..2
      OBVIOUS
    <3> QED BY <1>1, <2>2, <2>4, <3>1 DEF Config
  <2>6. DaemonFits'
    <3>1. f.kind # "none" /\ f.ver = v /\ v # -1
      BY <2>2, <2>3
    <3> QED BY <1>2, <2>5, <3>1 DEF ComposeInv, DaemonFits, OperatorsConfigKept
  <2>7. /\ spent' \in Spent /\ spent'.changes = spent.changes /\ spent'.edits = spent.edits + 1
        /\ spent'.deploys = spent.deploys
    BY <2>1, Numbers DEF Spent
  <2>8. Bounds' /\ ComposeTypeOK'
    BY <1>2, <2>2, <2>5, <2>7 DEF ComposeInv, ComposeTypeOK, Bounds, Live, Config
  <2> QED BY <1>3, <2>6, <2>8 DEF ComposeInv
<1> QED BY <1>4, <1>5

LEMMA ComposeStarts == ComposeInit => ComposeInv
<1> SUFFICES ASSUME ComposeInit PROVE ComposeInv
  OBVIOUS
<1>1. 0 \in Version /\ 1 \in Version /\ 0 \in 0..MaxEdits /\ 0 \in 0..MaxChanges
  BY Numbers DEF Version
<1>2. /\ deps = [d \in Deployment |-> Idle]
      /\ registry = [up |-> Src, admits |-> TRUE, holds |-> [i \in Image |-> 1]]
      /\ spent = [deploys |-> 0, faults |-> 0, changes |-> 0, edits |-> 0, cancels |-> 0]
  BY DEF ComposeInit
<1>3. PICK f \in {Missing} \cup [kind : {"odd", "plain"}, ver : {0}, allows : {FALSE}] :
        daemon = [file |-> f, backup |-> Missing, loaded |-> FALSE, last |-> f.ver,
                  writes |-> 0, copied |-> TRUE]
  BY DEF ComposeInit
<1>4. f \in File /\ f.ver \in {-1, 0} /\ (f.kind = "none" => f.ver = -1)
  <2>1. CASE f = Missing
    BY <2>1, IdleTyped
  <2>2. CASE f \in [kind : {"odd", "plain"}, ver : {0}, allows : {FALSE}]
    <3>1. PICK k \in {"odd", "plain"} : f = [kind |-> k, ver |-> 0, allows |-> FALSE]
      BY <2>2
    <3>2. 0 \in -1..MaxEdits
      BY Numbers
    <3> QED BY <3>1, <3>2 DEF File
  <2> QED BY <1>3, <2>1, <2>2
<1>5. daemon \in Config
  BY <1>1, <1>3, <1>4, IdleTyped, Numbers DEF Config
<1>6. ComposeTypeOK
  BY <1>1, <1>2, <1>5, IdleTyped DEF ComposeInit, ComposeTypeOK, Config
<1>7. Bounds
  BY <1>1, <1>2, <1>3, <1>4, IdleTyped, Numbers DEF Bounds, Spent, Live
<1>8. DaemonFits
  <2>1. \A d \in Deployment : deps[d].dump.ver = -1
    BY <1>2, IdleTyped
  <2> QED BY <1>3, <1>4, <2>1, IdleTyped DEF DaemonFits, OperatorsConfigKept
<1>9. ASSUME NEW x \in Deployment
      PROVE  DepFits(site.within, x, deps[x], env, running, images, registry.holds)
  <2>1. deps[x].pc = "idle" /\ deps[x].svc = "none"
    BY <1>2, IdleTyped
  <2> QED BY <2>1 DEF DepFits, Past
<1> QED BY <1>6, <1>7, <1>8, <1>9 DEF ComposeInv

LEMMA ComposeStays == ComposeInv /\ [ComposeNext]_composeVars => ComposeInv'
<1> SUFFICES ASSUME ComposeInv, [ComposeNext]_composeVars PROVE ComposeInv'
  OBVIOUS
<1>1. ASSUME NEW d \in Deployment,
             \/ RewriteEnv(d) \/ Dump(d) \/ WriteDaemon(d) \/ Reload(d)
             \/ Need(d) \/ Pull(d) \/ Have(d) \/ Up(d) \/ Verify(d)
             \/ Cancel(d) \/ Notice(d) \/ BreakOff(d)
      PROVE  ComposeInv'
  BY <1>1, RewriteEnvInv, DumpInv, WriteDaemonInv, ReloadInv, NeedInv, PullInv, HaveInv,
     UpInv, VerifyInv, CutInv
<1>2. ASSUME NEW s \in Service,
             \/ \E t \in Tag, private \in BOOLEAN : Begin(s, t, private)
             \/ \E t \in Tag : Script(s, t)
             \/ Stop(s)
      PROVE  ComposeInv'
  BY <1>2, BeginInv, ScriptInv, DownInv
<1>3. CASE UNCHANGED composeVars
  BY <1>3 DEF composeVars, ComposeInv, ComposeTypeOK, Bounds, Live, DaemonFits, OperatorsConfigKept, DepFits
<1> QED BY <1>1, <1>2, <1>3, RegistryInv, OperatorInv DEF ComposeNext

\* The invariant of a host holds throughout (compose.py, registry_insecure.py).
THEOREM ComposeHolds == ComposeSpec => []ComposeInv
  BY ComposeStarts, ComposeStays, PTL DEF ComposeSpec

\* Types and bounds of a host (compose.py), for any services and tags.
THEOREM ComposeTypes == ComposeSpec => []ComposeTypeOK
  BY ComposeHolds, PTL DEF ComposeInv

\* Docker Hub steps in only after a pull has ended without the tag, and never because
\* dockerd refuses plain HTTP (compose.py:245-264), however many registries, deployments,
\* cancellations and edits of daemon.json come in between.
THEOREM ComposeNoSubstitute == ComposeSpec => []NoSubstitute
<1>1. ComposeInv => NoSubstitute
  BY DEF ComposeInv, DepFits, NoSubstitute, Steps, Live, Svc
<1> QED BY <1>1, ComposeHolds, PTL

\* The operator's daemon.json is there or in the backup after a write, if it could be copied
\* (registry_insecure.py), whichever deployments read and write at a time.
THEOREM ComposeConfigKept == ComposeSpec => []OperatorsConfigKept
<1>1. ComposeInv => OperatorsConfigKept
  BY DEF ComposeInv, DaemonFits
<1> QED BY <1>1, ComposeHolds, PTL

\* Who says "ok" of a deployment has verified it.
LEMMA VerifiedBy ==
  ASSUME ComposeInv, [ComposeNext]_composeVars, NEW d \in Deployment,
         deps[d].pc = "verify", deps'[d].pc = "ok"
  PROVE  Verified(d)
<1>1. /\ deps \in [Deployment -> Dep] /\ deps[d] \in Dep /\ Live(d) /\ deps[d].pc # "ok"
      /\ d <= spent.deploys
  BY DepFacts DEF Past
<1>2. deps'[d] # deps[d] /\ deps'[d].pc # deps[d].pc
  BY <1>1
<1>3. deps'[d] # [deps[d] EXCEPT !.met = TRUE]
  BY <1>1 DEF Dep
<1>4. ASSUME NEW x \in Deployment, x # d, NEW f, deps' = [deps EXCEPT ![x] = f] PROVE FALSE
  BY <1>1, <1>2, <1>4
<1>5. ASSUME NEW x \in Deployment, x # d, NEW f, Affects(x, f) PROVE FALSE
  BY <1>2, <1>3, <1>5 DEF Affects
<1>6. ASSUME NEW x \in Deployment, x # d,
             \/ RewriteEnv(x) \/ Dump(x) \/ WriteDaemon(x) \/ Reload(x)
             \/ Need(x) \/ Pull(x) \/ Have(x) \/ Up(x) \/ Verify(x)
             \/ Cancel(x) \/ Notice(x) \/ BreakOff(x)
      PROVE  FALSE
  <2>1. \/ \E f : deps' = [deps EXCEPT ![x] = f]
        \/ \E f : Affects(x, f)
    BY <1>6 DEF RewriteEnv, Dump, WriteDaemon, Reload, Need, Pull, Have, Up, Verify,
         Cancel, Notice, BreakOff, Becomes, Goes, Finishes
  <2> QED BY <1>4, <1>5, <1>6, <2>1
<1>7. ASSUME NEW s \in Service,
             \/ \E t \in Tag, private \in BOOLEAN : Begin(s, t, private)
             \/ \E t \in Tag : Script(s, t)
             \/ Stop(s)
      PROVE  FALSE
  <2>1. NextId # d
    BY <1>1, HostFacts DEF NextId, Spent, Deployment
  <2>2. CASE \E t \in Tag, private \in BOOLEAN : Begin(s, t, private)
    BY <1>1, <1>2, <2>1, <2>2 DEF Begin
  <2>3. CASE \E t \in Tag : Script(s, t)
    BY <1>2, <1>3, <2>1, <2>3 DEF Script
  <2> QED BY <1>2, <1>7, <2>2, <2>3 DEF Stop
<1>8. ~ UNCHANGED deps
  BY <1>2
<1>9. \/ RewriteEnv(d) \/ Dump(d) \/ WriteDaemon(d) \/ Reload(d)
      \/ Need(d) \/ Pull(d) \/ Have(d) \/ Up(d) \/ Verify(d)
      \/ Cancel(d) \/ Notice(d) \/ BreakOff(d)
  BY <1>6, <1>7, <1>8 DEF ComposeNext, composeVars, ChangeRegistry, RestartDaemon, Edit
<1>10. ~Cancel(d) /\ ~Notice(d)
  <2>1. ~Cancel(d)
    BY <1>1, <1>2 DEF Cancel, Dep
  <2> QED BY <1>1, <2>1 DEF Notice
<1>11. ~BreakOff(d)
  <2>1. Ended("over").pc = "over"
    BY EndedFits
  <2> QED BY <1>1, <2>1 DEF BreakOff
<1>12. Verify(d)
  BY <1>1, <1>9, <1>10, <1>11 DEF At, RewriteEnv, Dump, WriteDaemon, Reload, Need, Pull, Have, Up
<1>13. Ended("over").pc = "over"
  BY EndedFits
<1> QED BY <1>1, <1>12, <1>13 DEF Verify, Finishes

\* "ok" is said of the container of this deployment (compose.py:337), for any number of
\* attempts and whatever others do on the host, with the exceptions that the property states.
THEOREM ComposeOkMeansDeployed == ComposeSpec => OkMeansDeployed
<1> DEFINE Sound(d) ==
       LET c == running[Svc(d)]
       IN  \/ deps[d].met \/ c = NoContainer
           \/ /\ c.by = d
              /\ IF c.image = Wanted(d) THEN c.ver >= deps[d].since \/ deps[d].missed
                 ELSE deps[d].unwritten /\ Shows(Svc(d), c.image, deps[d].tag)
<1> DEFINE P == \A d \in Deployment :
       At(d, "verify") /\ deps'[d].pc = "ok" /\ Svc(d) \notin Custom => Sound(d)
<1>1. ComposeInv /\ [ComposeNext]_composeVars => P
  <2> SUFFICES ASSUME ComposeInv, [ComposeNext]_composeVars, NEW d \in Deployment,
                      deps[d].pc = "verify", deps'[d].pc = "ok", Svc(d) \notin Custom
               PROVE  Sound(d)
    BY DEF At
  <2>1. DepFits(site.within, d, deps[d], env, running, images, registry.holds) /\ Live(d)
        /\ Wanted(d) = ImageOf(deps[d]) /\ Svc(d) = deps[d].svc
    BY DepFacts DEF Past
  <2>2. deps[d].code = 0
    BY VerifiedBy DEF Verified
  <2> SUFFICES ASSUME ~deps[d].met, running[Svc(d)] # NoContainer PROVE Sound(d)
    OBVIOUS
  <2>3. /\ running[Svc(d)].by = d /\ running[Svc(d)].image = env[Svc(d)]
        /\ ~deps[d].missed /\ env[Svc(d)] = Wanted(d) => running[Svc(d)].ver >= deps[d].since
        /\ Tells(site.within, Svc(d), env[Svc(d)], deps[d].tag)
        /\ ~deps[d].unwritten => env[Svc(d)] = Wanted(d)
    BY <2>1, <2>2 DEF DepFits, Live
  <2>4. deps[d].missed \in BOOLEAN /\ deps[d].unwritten \in BOOLEAN
    BY DepFacts, DepTyped
  <2> QED BY <2>3, <2>4 DEF Tells, Shows, Contains
<1> QED BY <1>1, ComposeHolds, PTL DEF ComposeSpec, OkMeansDeployed
-----------------------------------------------------------------------------
\* Hosts and clusters together: a step of one leaves the other alone.
THEOREM TargetsTypes == TargetsSpec => []TargetsTypeOK
<1>1. TargetsInit => ComposeInv /\ K8sInv
  BY ComposeStarts, K8sStarts DEF TargetsInit
<1>2. ComposeInv /\ K8sInv /\ [TargetsNext]_<<composeVars, k8sVars, part>> => ComposeInv' /\ K8sInv'
  BY ComposeStays, K8sStays DEF TargetsNext
<1>3. ComposeInv /\ K8sInv => TargetsTypeOK
  BY DEF ComposeInv, K8sInv, TargetsTypeOK
<1> QED BY <1>1, <1>2, <1>3, PTL DEF TargetsSpec
=============================================================================
