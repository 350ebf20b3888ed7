------------------------------ MODULE MCTargets ------------------------------
(* Deployments with docker-compose, or to a Kubernetes cluster; the two have no
   state in common. *)
EXTENDS Compose, K8sTargets, TLC

CONSTANTS s1, s2, Parts
VARIABLE part

\* One of the two tags is a part of the text of the other; everything on the host is listed.
MCSites == {[http |-> c[1], auto |-> c[2], within |-> w] :
             c \in {<<TRUE, TRUE>>, <<TRUE, FALSE>>, <<FALSE, FALSE>>},
             w \in {{}} \cup {{<<t, u>>} : t, u \in Tag}}
MCKin == Service \X Service
MCDot == [s \in {} |-> NoContainer.image]

MCKubectl == {(s1 :> "kubectl") @@ (s2 :> "kubectl")}
MCModes == MCKubectl \cup
  {(p[1] :> m[1]) @@ (p[2] :> m[2]) : p \in {<<s1, s2>>, <<s2, s1>>},
     m \in {<<"kubectl", "helm">>, <<"kustomization", "kustomization">>,
            <<"argocd", "yaml">>, <<"helmrelease", "k8s">>}}
MCSymmetry == {p @@ q : p \in Permutations(Service), q \in Permutations(Tag)}

\* The part that is not looked at has one initial state; what daemon.json says of the
\* operator's, an edit has written.
TargetsInit ==
  /\ part \in Parts /\ ComposeInit /\ K8sInit
  /\ part = "compose" =>
       /\ mode \in MCKubectl /\ \E t, u \in Tag : t # u /\ site.within = {<<t, u>>}
       /\ daemon.file = Missing /\ (site.http => \A i \in Image : images[i] = 0)
  /\ part = "k8s" => ~site.http /\ site.within = {} /\ daemon.file = Missing
       /\ \A i \in Image : images[i] = 0
TargetsNext ==
  \/ part = "compose" /\ ComposeNext /\ UNCHANGED <<k8sVars, part>>
  \/ part = "k8s"     /\ K8sNext     /\ UNCHANGED <<composeVars, part>>
TargetsSpec == TargetsInit /\ [][TargetsNext]_<<composeVars, k8sVars, part>>

\* Every record of the two modules has its fields and bounds.
TargetsTypeOK == ComposeTypeOK /\ K8sTypeOK
=============================================================================
