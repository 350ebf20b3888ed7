------------------------------ MODULE K8sTargets ------------------------------
(***************************************************************************)
(* backend/deployers/k8s*.py and services/rollback_service.py: deployments *)
(* to a Kubernetes cluster with kubectl, Helm, Argo CD and Flux, and their *)
(* rollback, command by command, against a cluster that rolls out, and     *)
(* controllers that synchronise, when they get to it.  The project lock    *)
(* admits one job of a service at a time, but a cancellation frees it at   *)
(* once, and the thread goes on until it looks, if it ever does;           *)
(* connections break, and the command they have started goes on.           *)
(***************************************************************************)
EXTENDS TargetsBase, Integers, Sequences

CONSTANTS
  Modes,        \* how each service is deployed: the choices to look at
  None,         \* no version
  Applies,      \* settings.deploy_retry_attempts
  MaxJobs,      \* bounds of the model: jobs, commands that fail, and pushes, stops
  MaxLosses,    \* and cancellations
  MaxTurns

Mode == {"kubectl", "k8s", "yaml", "helm", "argocd", "kustomization", "helmrelease"}
Flux == {"kustomization", "helmrelease"}
Some == Tag \cup {None}
JobId == 1..MaxJobs

ASSUME K8sAssumption ==
  /\ None \notin Tag \cup Service
  /\ Modes \subseteq [Service -> Mode]
  /\ Applies \in Nat \ {0} /\ {MaxJobs, MaxLosses, MaxTurns} \subseteq Nat

VARIABLES
  mode,
  cluster,      \* the Deployment of each service
  desired,      \* what Helm, Argo CD or Flux keeps of it
  jobs,         \* the deployments and rollbacks
  logs,         \* the tags of its successful records
  used          \* what the bounds count

k8sVars == <<mode, cluster, desired, jobs, logs, used>>

\* The pod template, the one "rollout undo" goes back to, what the pods run.
Workload == [spec : Some, undo : Some, live : Some]
Nothing  == [spec |-> None, undo |-> None, live |-> None]

\* tag: the parameter (Argo CD) or override (Flux); rev: the commit its source is at;
\* past: the history of syncs (Argo CD) or of revisions (Helm); busy: a sync was
\* asked for, or a helm command is at work; held: suspended or deleted;
\* shown: the status that was last computed.
Entry   == [tag : Some, rev : 0..MaxTurns]
Control == [tag : Some, rev : 0..MaxTurns, past : Seq(Entry), busy : BOOLEAN, held : BOOLEAN,
            shown : [good : BOOLEAN, rev : 0..MaxTurns]]

\* held: it has the project lock, and its verdict counts; cut: its thread has left,
\* and the command at pc may still be running; sent: what the commands carry;
\* before: the Deployment at the beginning; read: the overrides of the Kustomization as
\* they were read; aim: the history entry to go back to; met: a command of another job
\* has changed the Deployment meanwhile (history).
Job == [pc : {"idle", "check", "read", "send", "restart", "ask", "wait", "rollout", "over", "ok"},
        svc : Service \cup {None}, held : BOOLEAN, cut : BOOLEAN,
        kind : {"deploy", "undo"}, tag : Some, sent : Some, before : Workload,
        read : [Service -> Some], aim : Entry, code : 0..1, tries : 0..Applies, met : BOOLEAN]
NoJob == [pc |-> "idle", svc |-> None, held |-> FALSE, cut |-> FALSE, kind |-> "deploy",
          tag |-> None, sent |-> None, before |-> Nothing, read |-> [s \in Service |-> None],
          aim |-> [tag |-> None, rev |-> 0], code |-> 0, tries |-> 0, met |-> FALSE]
Closed(pc) == [NoJob EXCEPT !.pc = pc]

K8sInit ==
  /\ mode \in Modes
  /\ \E t \in Tag :
       cluster = [s \in Service |->
         IF mode[s] = "k8s" THEN [spec |-> t, undo |-> None, live |-> t] ELSE Nothing]
  /\ desired = [s \in Service |-> [tag |-> None, rev |-> 0, past |-> << >>, busy |-> FALSE,
                  held |-> FALSE, shown |-> [good |-> FALSE, rev |-> 0]]]
  /\ jobs = [j \in JobId |-> NoJob]
  /\ logs = [s \in Service |-> << >>]
  /\ used = [jobs |-> 0, losses |-> 0, turns |-> 0]

-----------------------------------------------------------------------------
For(j)       == jobs[j].svc
On(j, m, pc) == jobs[j].pc = pc /\ mode[For(j)] \in m
Loses        == used.losses < MaxLosses /\ used' = [used EXCEPT !.losses = @ + 1]
Turns        == used.turns < MaxTurns /\ used' = [used EXCEPT !.turns = @ + 1]

\* Job j goes on as e; a command that nobody waits for is its last.
Resumed(j, e) == IF jobs[j].cut THEN Closed("over") ELSE e
Resumes(j, e) == jobs' = [jobs EXCEPT ![j] = Resumed(j, e)]
Moves(j, pc)  == Resumes(j, [jobs[j] EXCEPT !.pc = pc])
Fails(j)      == jobs' = [jobs EXCEPT ![j] = Closed("over")]
\* ... and the others of its service have met a command of it.
Disturbs(j, e) ==
  jobs' = [x \in JobId |->
    IF x = j THEN Resumed(j, e)
    ELSE IF For(x) = For(j) THEN [jobs[x] EXCEPT !.met = TRUE] ELSE jobs[x]]

\* A new pod template; the old one is what an undo goes back to.
Template(c, t)  == [spec |-> t, undo |-> c.spec, live |-> c.live]
Put(s, t)       == cluster' = [cluster EXCEPT ![s] = Template(@, t)]
\* kubectl apply and set image leave a template alone that says so already.
Applied(s, t)   == IF cluster[s].spec = t THEN UNCHANGED cluster ELSE Put(s, t)
Previous(past)  == past[Len(past) - 1]
HasPrevious(s)  == Len(desired[s].past) >= 2

\* The end of a job that has its verdict, and the record of a success.
Ends(j, ok) ==
  LET counts == ok /\ jobs[j].held
  IN  /\ jobs' = [jobs EXCEPT ![j] = Closed(IF counts THEN "ok" ELSE "over")]
      /\ logs' = IF counts THEN [logs EXCEPT ![For(j)] = Append(@, jobs[j].tag)] ELSE logs

\* _deploy_k8s_core takes a job on, when no other one holds the lock of the service; in
\* mode "yaml" the file names an image by itself.
Takes(s, kind, t, sent) ==
  /\ \A j \in JobId : For(j) = s => ~jobs[j].held
  /\ used.jobs < MaxJobs
  /\ used' = [used EXCEPT !.jobs = @ + 1]
  /\ jobs' = [jobs EXCEPT ![used.jobs + 1] = [NoJob EXCEPT !.pc = "check", !.svc = s,
       !.held = TRUE, !.kind = kind, !.tag = t, !.sent = sent]]
  /\ UNCHANGED <<mode, cluster, desired, logs>>

Deploy(s, t, sent) ==
  /\ sent = t \/ mode[s] = "yaml"
  /\ Takes(s, "deploy", t, sent)

\* prepare_rollback: native for kubectl, Helm and Argo CD, in the context of the
\* latest success ...
Native(s) == mode[s] \in {"kubectl", "helm", "argocd"}
RollBack(s) ==
  /\ Native(s) /\ logs[s] # << >>
  /\ LET t == logs[s][Len(logs[s])] IN Takes(s, "undo", t, t)

\* ... and otherwise the latest success with another tag, once more.
Replay(s) ==
  /\ ~Native(s)
  /\ \E i \in 1..Len(logs[s]) :
       LET t == logs[s][i]
           n == Len(logs[s])
       IN  /\ t # logs[s][n] /\ \A j \in (i+1)..n : logs[s][j] = logs[s][n]
           /\ Takes(s, "deploy", t, t)

-----------------------------------------------------------------------------
\* What is looked at first.  kubectl, once the YAML is read and rendered: the
\* application is there, or has another name in the YAML, or is the first of its namespace.
AppOrFirst(s, renamed) ==
  cluster[s].spec # None \/ renamed \/ \A u \in Service : cluster[u].spec = None
\* set image: there is a Deployment.
Existing(s) == cluster[s].spec # None
\* Argo CD: the application is there; for a rollback it has been synchronised twice.
AppFound(s)     == ~desired[s].held
HistoryFound(s) == AppFound(s) /\ HasPrevious(s)

Acceptable(j, renamed) ==
  LET s == For(j)
  IN  CASE mode[s] = "kubectl" /\ jobs[j].kind = "deploy" -> AppOrFirst(s, renamed)
        [] mode[s] = "k8s"     -> Existing(s)
        [] mode[s] = "argocd" /\ jobs[j].kind = "deploy"  -> AppFound(s)
        [] mode[s] = "argocd" /\ jobs[j].kind = "undo"    -> HistoryFound(s)
        [] OTHER -> TRUE

\* Helm: the list of releases must be readable, whatever it says; so must be what
\* the others look at.
Check(j) ==
  /\ On(j, Mode \ Flux, "check")
  /\ \/ /\ \E renamed \in BOOLEAN : Acceptable(j, renamed)
        /\ LET past == desired[For(j)].past
           IN  Resumes(j, [jobs[j] EXCEPT !.pc = "send",
                 !.before = IF mode[For(j)] = "kubectl" THEN cluster[For(j)] ELSE @,
                 !.aim = IF mode[For(j)] = "argocd" /\ HasPrevious(For(j)) THEN Previous(past) ELSE @])
        /\ UNCHANGED used
     \/ ~Acceptable(j, FALSE) /\ Fails(j) /\ UNCHANGED used
     \/ Loses /\ Fails(j)
  /\ UNCHANGED <<mode, cluster, desired, logs>>

\* kubectl apply, again if it fails; k8s: apply or set image, once, whatever comes of it.
AfterApply(j, code) ==
  LET go(pc) == [jobs[j] EXCEPT !.code = code, !.tries = @ + 1, !.pc = pc]
  IN  CASE mode[For(j)] # "kubectl"            -> go("rollout")
        [] mode[For(j)] = "kubectl" /\ code = 0 ->
             go(IF jobs[j].before.spec = None THEN "rollout" ELSE "restart")
        [] OTHER -> IF jobs[j].tries + 1 < Applies THEN go("send") ELSE Closed("over")

Apply(j) ==
  LET s == For(j)
      t == jobs[j].sent
      takes == Applied(s, t) /\ (mode[s] = "k8s" => Existing(s))
  IN  /\ On(j, {"kubectl", "k8s", "yaml"}, "send") /\ jobs[j].kind = "deploy"
      /\ \/ takes /\ Disturbs(j, AfterApply(j, 0)) /\ UNCHANGED used
         \/ /\ mode[s] = "k8s" /\ ~Existing(s)
            /\ Resumes(j, AfterApply(j, 1)) /\ UNCHANGED <<cluster, used>>
         \/ Loses /\ takes /\ Disturbs(j, AfterApply(j, 1))
         \/ Loses /\ Resumes(j, AfterApply(j, 1)) /\ UNCHANGED cluster
      /\ UNCHANGED <<mode, desired, logs>>

\* kubectl rollout restart: the same template with another annotation, so a new one.
Restart(j) ==
  LET s == For(j)
      restarts == cluster[s].spec # None /\ Put(s, cluster[s].spec)
  IN  /\ On(j, {"kubectl"}, "restart")
      /\ \/ restarts /\ Disturbs(j, [jobs[j] EXCEPT !.pc = "rollout"]) /\ UNCHANGED used
         \/ cluster[s].spec = None /\ Fails(j) /\ UNCHANGED <<cluster, used>>
         \/ Loses /\ restarts /\ Disturbs(j, Closed("over"))
         \/ Loses /\ Fails(j) /\ UNCHANGED cluster
      /\ UNCHANGED <<mode, desired, logs>>

\* kubectl rollout undo.
Undo(j) ==
  LET s == For(j)
      undoes == cluster[s].undo # None /\ Put(s, cluster[s].undo)
      after(code) == [jobs[j] EXCEPT !.pc = "rollout", !.code = code]
  IN  /\ On(j, {"kubectl"}, "send") /\ jobs[j].kind = "undo"
      /\ \/ undoes /\ Disturbs(j, after(0)) /\ UNCHANGED used
         \/ cluster[s].undo = None /\ Resumes(j, after(1)) /\ UNCHANGED <<cluster, used>>
         \/ Loses /\ undoes /\ Disturbs(j, after(1))
         \/ Loses /\ Resumes(j, after(1)) /\ UNCHANGED cluster
      /\ UNCHANGED <<mode, desired, logs>>

\* Mutant of RolledOut: nobody waits for the pods.
RolledOutAtOnce(s) == cluster[s].spec # None

\* kubectl rollout status: 0 when the pods run the template of now.
RolledOut(s) == cluster[s].spec # None /\ cluster[s].live = cluster[s].spec

\* The verdict: the commands have succeeded, too.
Judged(j) == RolledOut(For(j)) /\ jobs[j].code = 0

Rollout(j) ==
  /\ On(j, {"kubectl", "k8s", "yaml"}, "rollout")
  /\ \/ Ends(j, Judged(j)) /\ UNCHANGED used                   \* or --timeout
     \/ Loses /\ Ends(j, FALSE)
  /\ UNCHANGED <<mode, cluster, desired>>

-----------------------------------------------------------------------------
\* helm upgrade --install --wait, and helm rollback to the revision before; one
\* command at a time.
HelmTag(j)   == IF jobs[j].kind = "undo" THEN Previous(desired[For(j)].past).tag ELSE jobs[j].sent
HelmReady(j) == ~desired[For(j)].busy /\ (jobs[j].kind = "undo" => HasPrevious(For(j)))
Helm(j) ==
  LET s == For(j)
  IN  /\ On(j, {"helm"}, "send")
      /\ \/ /\ HelmReady(j)
            /\ Applied(s, HelmTag(j))
            /\ desired' = [desired EXCEPT ![s].busy = TRUE,
                 ![s].past = Append(@, [tag |-> HelmTag(j), rev |-> 0])]
            /\ Disturbs(j, [jobs[j] EXCEPT !.pc = "wait", !.aim.tag = HelmTag(j)])
            /\ UNCHANGED used
         \/ ~HelmReady(j) /\ Fails(j) /\ UNCHANGED <<cluster, desired, used>>
         \/ Loses /\ Fails(j) /\ UNCHANGED <<cluster, desired>>
      /\ UNCHANGED <<mode, logs>>

HelmWait(j) ==
  /\ On(j, {"helm"}, "wait")
  /\ desired' = [desired EXCEPT ![For(j)].busy = FALSE]
  /\ \/ Ends(j, RolledOut(For(j))) /\ UNCHANGED used           \* or --timeout
     \/ Loses /\ Ends(j, FALSE)
  /\ UNCHANGED <<mode, cluster>>

\* A helm command nobody waits for any longer ends.
HelmLeaves(s) ==
  /\ mode[s] = "helm" /\ desired[s].busy
  /\ \A j \in JobId : For(j) = s => jobs[j].pc # "wait"
  /\ desired' = [desired EXCEPT ![s].busy = FALSE]
  /\ UNCHANGED <<mode, cluster, jobs, logs, used>>

-----------------------------------------------------------------------------
\* Argo CD: PUT of the parameter, POST of the sync; POST of the rollback.
ArgoSend(j) ==
  LET s == For(j)
  IN  /\ On(j, {"argocd"}, "send")
      /\ \/ /\ jobs[j].kind = "deploy"
            /\ desired' = [desired EXCEPT ![s].tag = jobs[j].sent]
            /\ Moves(j, "ask") /\ UNCHANGED <<cluster, used>>
         \/ /\ jobs[j].kind = "undo"
            /\ Put(s, jobs[j].aim.tag)
            /\ desired' = [desired EXCEPT ![s].past = Append(@, jobs[j].aim)]
            /\ Moves(j, "wait") /\ UNCHANGED used
         \/ Loses /\ Fails(j) /\ UNCHANGED <<cluster, desired>>
      /\ UNCHANGED <<mode, logs>>

ArgoAsk(j) ==
  /\ On(j, {"argocd"}, "ask")
  /\ \/ desired' = [desired EXCEPT ![For(j)].busy = TRUE] /\ Moves(j, "wait") /\ UNCHANGED used
     \/ Loses /\ Fails(j) /\ UNCHANGED desired
  /\ UNCHANGED <<mode, cluster, logs>>

\* The poll: Healthy and Synced, of whichever status is shown; a rollback also wants
\* another revision than the one it goes back to.
ArgoGood(j) ==
  LET shown == desired[For(j)].shown
  IN  shown.good /\ (jobs[j].kind = "undo" => shown.rev # jobs[j].aim.rev)
ArgoPoll(j) ==
  /\ On(j, {"argocd"}, "wait")
  /\ Ends(j, ArgoGood(j))                                     \* or 30 rounds are over
  /\ UNCHANGED <<mode, cluster, desired, used>>

\* The controller: it synchronises, and now and then computes the status.
ArgoSync(s) ==
  /\ mode[s] = "argocd" /\ desired[s].busy
  /\ Applied(s, desired[s].tag)
  /\ desired' = [desired EXCEPT ![s].busy = FALSE,
       ![s].past = Append(@, [tag |-> desired[s].tag, rev |-> desired[s].rev])]
  /\ UNCHANGED <<mode, jobs, logs, used>>

ArgoStatus(s) ==
  LET now == [good |-> RolledOut(s) /\ cluster[s].spec = desired[s].tag, rev |-> desired[s].rev]
  IN  /\ mode[s] = "argocd" /\ desired[s].shown # now
      /\ desired' = [desired EXCEPT ![s].shown = now]
      /\ UNCHANGED <<mode, cluster, jobs, logs, used>>

Push(s) ==
  /\ mode[s] = "argocd" /\ Turns
  /\ desired' = [desired EXCEPT ![s].rev = @ + 1]
  /\ UNCHANGED <<mode, cluster, jobs, logs>>

-----------------------------------------------------------------------------
\* Flux: the overrides of a Kustomization are read and written back with one changed;
\* those of a HelmRelease are merged.
Sharers == {s \in Service : mode[s] = "kustomization"}

\* _build_flux_image_patch.
\* Mutant: only the entry of the image itself.
PatchAlone(j) == [u \in Service |-> IF u = For(j) THEN jobs[j].sent ELSE None]
Patch(j) == [jobs[j].read EXCEPT ![For(j)] = jobs[j].sent]

\* The resource is found, and the path of a Kustomization is set.
FluxFind(j) ==
  /\ On(j, Flux, "check")
  /\ \/ Moves(j, IF mode[For(j)] = "kustomization" THEN "read" ELSE "send") /\ UNCHANGED used
     \/ Loses /\ Fails(j)
  /\ UNCHANGED <<mode, cluster, desired, logs>>

FluxRead(j) ==
  /\ On(j, {"kustomization"}, "read")
  /\ \/ /\ Resumes(j, [jobs[j] EXCEPT !.pc = "send", !.read = [u \in Service |-> desired[u].tag]])
        /\ UNCHANGED used
     \/ Loses /\ Fails(j)
  /\ UNCHANGED <<mode, cluster, desired, logs>>

FluxPatch(j) ==
  LET s == For(j)
  IN  /\ On(j, Flux, "send")
      /\ \/ /\ desired' = [u \in Service |->
                 IF u = s \/ {s, u} \subseteq Sharers THEN [desired[u] EXCEPT !.tag = Patch(j)[u]]
                 ELSE desired[u]]
            /\ Resumes(j, [jobs[j] EXCEPT !.pc = "wait", !.read = NoJob.read])
            /\ UNCHANGED used
         \/ Loses /\ Fails(j) /\ UNCHANGED desired
      /\ UNCHANGED <<mode, cluster, logs>>

\* The poll: the resource reports an error, or the pods change, or 90 seconds are over.
FluxPoll(j) ==
  LET s == For(j)
  IN  /\ On(j, Flux, "wait")
      /\ \/ Moves(j, "rollout") /\ UNCHANGED used
         \/ ~(RolledOut(s) /\ cluster[s].spec = desired[s].tag) /\ Fails(j) /\ UNCHANGED used
         \/ Loses /\ Fails(j)
      /\ UNCHANGED <<mode, cluster, desired, logs>>

\* rollout status of whatever Deployment is there decides, though nothing may have changed.
FluxRollout(j) ==
  /\ On(j, Flux, "rollout")
  /\ \/ Ends(j, RolledOut(For(j))) /\ UNCHANGED used
     \/ Loses /\ Ends(j, FALSE)
  /\ UNCHANGED <<mode, cluster, desired>>

FluxReconcile(s) ==
  /\ mode[s] \in Flux /\ ~desired[s].held
  /\ desired[s].tag \notin {None, cluster[s].spec}
  /\ Put(s, desired[s].tag)
  /\ UNCHANGED <<mode, desired, jobs, logs, used>>

-----------------------------------------------------------------------------
\* The cluster rolls the template out, if its pods ever get ready.
Roll(s) ==
  /\ cluster[s].spec \notin {None, cluster[s].live}
  /\ cluster' = [cluster EXCEPT ![s].live = cluster[s].spec]
  /\ UNCHANGED <<mode, desired, jobs, logs, used>>

\* A cancellation, or a sweep, frees the lock; the thread does not know yet.
CancelJob(j) ==
  /\ jobs[j].held /\ Turns
  /\ jobs' = [jobs EXCEPT ![j].held = FALSE]
  /\ UNCHANGED <<mode, cluster, desired, logs>>

\* check_cancelled, before some commands but no retry, and in the polls; never in k8s.py.
\* A look misses the cancellation when the database cannot be read.
LookPoints == {<<"kubectl", "send">>, <<"kubectl", "restart">>, <<"kubectl", "rollout">>,
               <<"helm", "send">>, <<"argocd", "wait">>} \cup (Flux \X {"wait"})
Notices(j) ==
  /\ jobs[j].svc # None /\ ~jobs[j].held
  /\ \/ <<mode[For(j)], jobs[j].pc>> \in LookPoints /\ (jobs[j].pc = "send" => jobs[j].tries = 0)
     \/ On(j, {"argocd"}, "send") /\ jobs[j].kind = "undo"
  /\ Fails(j)
  /\ UNCHANGED <<mode, cluster, desired, logs, used>>

\* The connection breaks, or the process dies: the job has failed, and a command that
\* changes something may go on.
Break(j) ==
  /\ jobs[j].svc # None /\ ~jobs[j].cut /\ Loses
  /\ jobs' = [jobs EXCEPT ![j] =
       IF @.pc \in {"send", "restart", "ask"} THEN [@ EXCEPT !.held = FALSE, !.cut = TRUE]
       ELSE Closed("over")]
  /\ UNCHANGED <<mode, cluster, desired, logs>>

\* stop: the Deployment, the release or the application is deleted; Flux is suspended,
\* and nothing resumes it.
Delete(s) ==
  /\ mode[s] \in {"kubectl", "k8s", "yaml"} /\ cluster[s].spec # None
  /\ cluster' = [cluster EXCEPT ![s] = Nothing] /\ UNCHANGED desired
Uninstall(s) ==
  /\ mode[s] = "helm" /\ desired[s].past # << >>
  /\ cluster' = [cluster EXCEPT ![s] = Nothing]
  /\ desired' = [desired EXCEPT ![s].past = << >>]
DeleteApp(s) ==
  /\ mode[s] = "argocd" /\ ~desired[s].held
  /\ cluster' = [cluster EXCEPT ![s] = Nothing]
  /\ desired' = [desired EXCEPT ![s].held = TRUE, ![s].busy = FALSE]
Suspend(s) ==
  /\ mode[s] \in Flux /\ ~desired[s].held
  /\ desired' = [u \in Service |->
       [desired[u] EXCEPT !.held = @ \/ u = s \/ {s, u} \subseteq Sharers]]
  /\ UNCHANGED cluster

StopService(s) ==
  /\ Turns
  /\ Delete(s) \/ Uninstall(s) \/ DeleteApp(s) \/ Suspend(s)
  /\ UNCHANGED <<mode, jobs, logs>>

K8sNext ==
  \/ \E s \in Service :
       \/ \E t, sent \in Tag : Deploy(s, t, sent)
       \/ RollBack(s) \/ Replay(s) \/ HelmLeaves(s) \/ ArgoSync(s) \/ ArgoStatus(s) \/ Push(s)
       \/ FluxReconcile(s) \/ Roll(s) \/ StopService(s)
  \/ \E j \in JobId :
       \/ Check(j) \/ Apply(j) \/ Restart(j) \/ Undo(j) \/ Rollout(j)
       \/ Helm(j) \/ HelmWait(j) \/ ArgoSend(j) \/ ArgoAsk(j) \/ ArgoPoll(j)
       \/ FluxFind(j) \/ FluxRead(j) \/ FluxPatch(j) \/ FluxPoll(j) \/ FluxRollout(j)
       \/ CancelJob(j) \/ Notices(j) \/ Break(j)

K8sSpec == K8sInit /\ [][K8sNext]_k8sVars

-----------------------------------------------------------------------------
K8sTypeOK ==
  /\ mode \in Modes
  /\ cluster \in [Service -> Workload]
  /\ desired \in [Service -> Control]
  /\ jobs \in [JobId -> Job]
  /\ logs \in [Service -> Seq(Tag)]

\* What a rollback with Helm goes back to, or a deployment takes the cluster to.
Aim(j)      == IF jobs[j].kind = "undo" THEN jobs[j].aim.tag ELSE jobs[j].sent
Succeeds(j) == For(j) # None /\ jobs'[j].pc = "ok"

\* With kubectl and Helm a deployment is a success only when the pods run what it has
\* sent, and a rollback with Helm only when they run what they ran one revision before
\* (k8s_kubectl.py:321, k8s_helm.py:152: exit codes and nothing else); commands
\* that fail half way or are tried again do not make it one, nor does a service that is
\* stopped meanwhile.  The exception is a command of another job of the service that
\* lands in between: of one that has lost the lock, or of a connection that broke.
OkMeansRolledOut ==
  [][\A j \in JobId :
       /\ Succeeds(j)
       /\ mode[For(j)] \in {"k8s", "yaml", "helm"} \/ (mode[For(j)] = "kubectl" /\ jobs[j].kind = "deploy")
       => jobs[j].met \/ cluster[For(j)].live = Aim(j)]_k8sVars

\* The override of another service that shares a Kustomization stays when one is
\* patched (k8s_fluxcd.py:17-21, "preserving unrelated overrides"), as long as it was
\* what was read: two deployments at once undo each other's.
OverridesKept ==
  [][\A j \in JobId : For(j) \in Sharers /\ jobs[j].pc = "send" /\ jobs'[j].pc # "send" =>
       \A u \in Service \ {For(j)} :
         desired'[u].tag = desired[u].tag \/ jobs[j].read[u] # desired[u].tag]_k8sVars

\* What the manual says of a rollback (docs/ADMIN_MANUAL.md:517): it brings a previous
\* successful version back.  After a deployment with apply and restart the
\* template to undo to has the same image.
KubectlRollsBack ==
  [][\A j \in JobId : LET s == For(j) n == Len(logs[s]) IN
       /\ Succeeds(j) /\ jobs[j].kind = "undo" /\ mode[s] = "kubectl"
       /\ n >= 2 /\ logs[s][n] # logs[s][n - 1] /\ jobs[j].before.live = logs[s][n]
       => cluster[s].live # logs[s][n]]_k8sVars
=============================================================================
