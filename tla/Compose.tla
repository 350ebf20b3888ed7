------------------------------- MODULE Compose -------------------------------
(***************************************************************************)
(* backend/deployers/compose.py and registry_insecure.py: deployments with *)
(* docker-compose over SSH, command by command, against a host that others *)
(* change too: operators, the registries, and deployments that have lost   *)
(* the project lock.  A cancellation frees the lock at once, and its       *)
(* thread goes on to the next streamed command; a connection that breaks   *)
(* leaves a command running.  Services share the docker daemon.            *)
(***************************************************************************)
EXTENDS TargetsBase, Integers

CONSTANTS
  Custom,       \* services deployed with an env file of their own, and
  Dot,          \* what the .env in their directory says instead
  Mentions,     \* <<s, t>>: other lines of the env file of s have t in their text
  Kin,          \* <<s, u>>: the containers of u are listed with those of s
  Sites,        \* the sites to look at: http: the registry is plain HTTP; auto:
                \* settings.registry_insecure_auto; within: the pairs of tags of which
                \* the first is a part of the text of the second
  Attempts,     \* settings.deploy_retry_attempts
  MaxDeploys,   \* bounds of the model: deployments, commands that fail,
  MaxFaults,    \* changes of the registries,
  MaxChanges,   \* edits of daemon.json, cancellations, and the four together
  MaxEdits, MaxCancels, MaxTroubles

Src     == {"own", "hub"}               \* the private registry, Docker Hub
Image   == [src : Src, tag : Tag]
Version == 0..(MaxChanges + 1)          \* when a tag was pushed; 0: not there
Deployment == 1..MaxDeploys

ASSUME ComposeAssumption ==
  /\ "none" \notin Tag /\ "none" \notin Service
  /\ Custom \subseteq Service /\ Dot \in [Custom -> Image]
  /\ Mentions \subseteq Service \X Tag /\ Kin \subseteq Service \X Service
  /\ Sites \subseteq [http : BOOLEAN, auto : BOOLEAN, within : SUBSET (Tag \X Tag)]
  /\ Attempts \in Nat \ {0}
  /\ {MaxDeploys, MaxFaults, MaxChanges, MaxEdits, MaxCancels, MaxTroubles} \subseteq Nat

VARIABLES
  site,
  registry,     \* which registries answer, whether the private one lets the host
                \* in, and what they hold
  images,       \* the images on the host
  env,          \* IMAGE and TAG in the env file of each service
  running,      \* the container of each service
  daemon,       \* daemon.json, its backup, and what dockerd has read of it; the
                \* operator's last version, the writes since, and whether every
                \* copy for the backup has worked (history)
  deps,         \* the deployments
  spent         \* what the bounds count

composeVars == <<site, registry, images, env, running, daemon, deps, spent>>

\* daemon.json: which of the operator's versions it holds (-1: none of them), and
\* whether it lists the registry under insecure-registries.  An empty file is "plain".
File    == [kind : {"none", "odd", "plain"}, ver : -1..MaxEdits, allows : BOOLEAN]
Missing == [kind |-> "none", ver |-> -1, allows |-> FALSE]
Emptied == [kind |-> "plain", ver |-> -1, allows |-> FALSE]
Torn    == [kind |-> "odd", ver |-> -1, allows |-> FALSE]

\* by: the deployment that has created it (0: none of these).
Container == [image : Image, ver : Version, by : 0..MaxDeploys]
NoContainer == [image |-> [src |-> "hub", tag |-> "none"], ver |-> 0, by |-> 0]

\* held: it has the project lock, and somebody waits for its verdict; cut: its thread
\* has left, or its connection, and the command at pc may still be running.
\* src: where the image is to come from now; blocked: a pull ended with the error
\* of plain HTTP.  The rest is history: the version of the tag at the beginning;
\* whether a pull ended without the tag because the registry did not have it, was
\* not there, let nobody in or took too long; whether the answer to a question
\* about images was lost; whether the env file was not written; whether another
\* deployment's command has changed the service meanwhile.
Dep == [pc : {"idle", "env", "insecure", "write", "reload", "need", "pull",
              "have", "up", "verify", "over", "ok"},
        svc : Service \cup {"none"}, held : BOOLEAN, cut : BOOLEAN,
        tag : Tag \cup {"none"}, private : BOOLEAN, src : Src, dump : File,
        blocked : BOOLEAN, tries : 0..Attempts, code : 0..1, since : Version,
        missed : BOOLEAN, lost : BOOLEAN, unwritten : BOOLEAN, met : BOOLEAN]
Idle == [pc |-> "idle", svc |-> "none", held |-> FALSE, cut |-> FALSE, tag |-> "none",
         private |-> TRUE, src |-> "own", dump |-> Missing, blocked |-> FALSE, tries |-> 0,
         code |-> 1, since |-> 0, missed |-> FALSE, lost |-> FALSE, unwritten |-> FALSE,
         met |-> FALSE]
Live(d) == deps[d].svc # "none"

ComposeInit ==
  /\ site \in Sites
  /\ registry = [up |-> Src, admits |-> TRUE, holds |-> [i \in Image |-> 1]]
  /\ \E v \in 0..1 : images = [i \in Image |-> v]
  /\ env = [s \in Service |-> NoContainer.image]
  /\ running = [s \in Service |-> NoContainer]
  /\ \E f \in {Missing} \cup [kind : {"odd", "plain"}, ver : {0}, allows : {FALSE}] :
       daemon = [file |-> f, backup |-> Missing, loaded |-> FALSE, last |-> f.ver,
                 writes |-> 0, copied |-> TRUE]
  /\ deps = [d \in Deployment |-> Idle]
  /\ spent = [deploys |-> 0, faults |-> 0, changes |-> 0, edits |-> 0, cancels |-> 0]

-----------------------------------------------------------------------------
At(d, pc) == deps[d].pc = pc
Svc(d)    == deps[d].svc
Wanted(d) == [src |-> deps[d].src, tag |-> deps[d].tag]
Ended(pc) == [Idle EXCEPT !.pc = pc]

\* Deployment d goes on as e; a command that nobody waits for is its last.
Onward(d, e) == IF deps[d].cut \/ e.pc = "over" THEN Ended("over") ELSE e
Becomes(d, e)   == deps' = [deps EXCEPT ![d] = Onward(d, e)]
Goes(d, pc)     == Becomes(d, [deps[d] EXCEPT !.pc = pc])
Finishes(d, pc)   == deps' = [deps EXCEPT ![d] = Ended(pc)]
\* ... and the others of its service have met a command of it.
Affects(d, e) ==
  deps' = [x \in Deployment |->
    IF x = d THEN Onward(d, e)
    ELSE IF Live(x) /\ Svc(x) = Svc(d) THEN [deps[x] EXCEPT !.met = TRUE] ELSE deps[x]]

InTrouble == spent.faults + spent.changes + spent.edits + spent.cancels >= MaxTroubles
MayFail   == spent.faults < MaxFaults /\ ~InTrouble
Fault     == MayFail /\ spent' = [spent EXCEPT !.faults = @ + 1]

\* A registry that answers dockerd: plain HTTP only if dockerd was told; and one that
\* lets it in, with the login of this host or without.
Reached(src)  == src \in registry.up /\ (src = "own" /\ site.http => daemon.loaded)
Available(i)  == /\ i \in Image /\ Reached(i.src) /\ (i.src = "own" => registry.admits)
                 /\ registry.holds[i] > 0
Refused(i)    == i.src = "own" /\ "own" \in registry.up /\ ~Reached("own")
WithPulled(i) == IF Available(i) THEN [images EXCEPT ![i] = registry.holds[i]] ELSE images

\* What a search for a tag in a text finds.
Contains(i, t) == i.tag = t \/ <<t, i.tag>> \in site.within
\* A deployment of a service is let in when no other one holds its lock.
Unlocked(s) == \A d \in Deployment : Svc(d) = s => ~deps[d].held
NextId      == spent.deploys + 1

\* deploy, to the first write: the env file.
Begin(s, t, private) ==
  /\ Unlocked(s) /\ spent.deploys < MaxDeploys
  /\ LET src == IF private THEN "own" ELSE "hub"
     IN  deps' = [deps EXCEPT ![NextId] = [Idle EXCEPT !.pc = "env", !.svc = s, !.held = TRUE,
           !.tag = t, !.private = private, !.src = src,
           !.since = registry.holds[[src |-> src, tag |-> t]]]]
  /\ spent' = [spent EXCEPT !.deploys = @ + 1]
  /\ UNCHANGED <<site, registry, images, env, running, daemon>>

\* The look at the env file: the name of the image and the tag occur in its text.  The
\* name on Docker Hub is a part of the one in the private registry.
Shows(s, i, t) == Contains(i, t) \/ <<s, t>> \in Mentions
Written(s, i, w) == (w.src = "own" => i.src = "own") /\ Shows(s, i, w.tag)

\* _rewrite_env and the look at the file; later, for Docker Hub, nobody looks.
RewriteEnv(d) ==
  LET s    == Svc(d)
      hub  == deps[d].private /\ deps[d].src = "hub"
      next == IF hub THEN "need"
              ELSE IF deps[d].private /\ site.http THEN "insecure" ELSE "need"
  IN  /\ At(d, "env")
      /\ \/ /\ env' = [env EXCEPT ![s] = Wanted(d)]
            /\ Affects(d, [deps[d] EXCEPT !.pc = next])
            /\ UNCHANGED spent
         \/ /\ Fault
            /\ IF hub \/ Written(s, env[s], Wanted(d))
               THEN Becomes(d, [deps[d] EXCEPT !.pc = next, !.unwritten = TRUE])
               ELSE Finishes(d, "over")
            /\ UNCHANGED env
      /\ UNCHANGED <<site, registry, images, running, daemon>>

-----------------------------------------------------------------------------
\* ensure_insecure_registry: what the dump of the configuration says; a dump that
\* fails reads as no configuration ...
Dump(d) ==
  /\ At(d, "insecure")
  /\ \E f \in {daemon.file, Missing} :
       /\ IF f = daemon.file THEN UNCHANGED spent ELSE Fault
       /\ Becomes(d, IF f.allows THEN [deps[d] EXCEPT !.pc = "need"]
                     ELSE IF site.auto /\ f.kind # "odd"
                     THEN [deps[d] EXCEPT !.pc = "write", !.dump = f] ELSE Ended("over"))
  /\ UNCHANGED <<site, registry, images, env, running, daemon>>

\* The file as one deployment writes it: what it read, with the registry added.
Merged(d) == [kind |-> "plain", ver |-> deps[d].dump.ver, allows |-> TRUE]
Kept      == IF daemon.file.kind = "none" THEN daemon.backup ELSE daemon.file
Writes    == IF daemon.writes < 2 THEN daemon.writes + 1 ELSE 2

\* Mutant of WriteDaemon: no backup.
WriteDaemonBare(d) ==
  /\ At(d, "write")
  /\ daemon' = [daemon EXCEPT !.file = Merged(d), !.writes = Writes]
  /\ Goes(d, "reload")
  /\ UNCHANGED <<site, registry, images, env, running, spent>>

\* ... backup and write, one whatever comes of the other.  With the disk full, or no
\* right to write, a file is left empty, torn, or as it was; only the second exit
\* code counts.
WriteDaemon(d) ==
  /\ At(d, "write")
  /\ \E copied, written \in BOOLEAN :
       /\ IF copied /\ written THEN UNCHANGED spent ELSE Fault
       /\ copied \/ daemon.file.kind # "none"
       /\ \E b \in (IF copied THEN {Kept} ELSE {daemon.backup, Emptied}),
             f \in (IF written THEN {Merged(d)} ELSE {daemon.file, Emptied, Torn}) :
            daemon' = [daemon EXCEPT !.file = f, !.backup = b, !.writes = Writes,
                         !.copied = @ /\ copied]
       /\ IF written THEN Goes(d, "reload") ELSE Finishes(d, "over")
  /\ UNCHANGED <<site, registry, images, env, running>>

\* ... and reload or restart of dockerd, which refuses a file it cannot read.
Reload(d) ==
  /\ At(d, "reload")
  /\ \/ /\ daemon.file.kind # "odd"
        /\ daemon' = [daemon EXCEPT !.loaded = daemon.file.allows]
        /\ Goes(d, "need") /\ UNCHANGED spent
     \/ /\ daemon.file.kind = "odd"
        /\ Finishes(d, "over") /\ UNCHANGED <<daemon, spent>>
     \/ /\ Fault
        /\ Finishes(d, "over") /\ UNCHANGED daemon
  /\ UNCHANGED <<site, registry, images, env, running>>

-----------------------------------------------------------------------------
\* Mutant of NeedsPull: an image that is there will do.
NeedsPullAbsent(d) == images[Wanted(d)] = 0

\* _needs_pull: not if the image is there and is what the registry says it is.
NeedsPull(d) ==
  LET i == Wanted(d)
  IN  images[i] = 0 \/ ~Available(i) \/ images[i] # registry.holds[i]

\* The login, whose failure is only logged, and _needs_pull.
Need(d) ==
  /\ At(d, "need")
  /\ \/ Goes(d, IF NeedsPull(d) THEN "pull" ELSE "have") /\ UNCHANGED spent
     \/ Fault /\ Goes(d, "pull")
  /\ UNCHANGED <<site, registry, images, env, running, daemon>>

\* docker-compose pull, which reads .env, whatever the env file of the deployment
\* is; nobody looks at its exit code.
Pull(d) ==
  /\ At(d, "pull")
  /\ LET s == Svc(d)
         i == IF s \in Custom THEN Dot[s] ELSE env[s]
     IN  \/ /\ images' = WithPulled(i)
            /\ Becomes(d, [deps[d] EXCEPT !.pc = "have",
                 !.blocked = @ \/ (deps[d].src = "own" /\ Refused(i)), !.missed = @ \/ ~Available(i)])
            /\ UNCHANGED spent
         \/ /\ Fault             \* it takes too long, or the login has failed
            /\ Becomes(d, [deps[d] EXCEPT !.pc = "have", !.missed = TRUE])
            /\ UNCHANGED images
  /\ UNCHANGED <<site, registry, env, running, daemon>>

\* Docker Hub is asked for the image.
Elsewhere(d, lost, pc) ==
  [deps[d] EXCEPT !.src = "hub", !.lost = @ \/ lost, !.pc = pc,
     !.since = registry.holds[[src |-> "hub", tag |-> deps[d].tag]]]

\* Mutant of WithoutImage: Docker Hub steps in whatever the error was.
WithoutImageAnyway(d, lost) == Elsewhere(d, lost, IF deps[d].src = "own" THEN "env" ELSE "over")

\* The image is not there: Docker Hub steps in for the private registry, but not
\* if that speaks plain HTTP to a dockerd that was not told.
WithoutImage(d, lost) ==
  Elsewhere(d, lost, IF deps[d].src = "own" /\ ~deps[d].blocked THEN "env" ELSE "over")

\* _image_exists after the pull; a command that fails reads as an image that is not there.
Have(d) ==
  /\ At(d, "have")
  /\ \/ images[Wanted(d)] > 0 /\ Goes(d, "up") /\ UNCHANGED spent
     \/ images[Wanted(d)] = 0 /\ Becomes(d, WithoutImage(d, FALSE)) /\ UNCHANGED spent
     \/ Fault /\ Becomes(d, WithoutImage(d, TRUE))
  /\ UNCHANGED <<site, registry, images, env, running, daemon>>

-----------------------------------------------------------------------------
\* docker-compose up --force-recreate with image i: it pulls what is missing.
CanRecreate(i) == i \in Image /\ (images[i] > 0 \/ Available(i))
Recreate(s, i, by) ==
  /\ CanRecreate(i)
  /\ images' = IF images[i] > 0 THEN images ELSE WithPulled(i)
  /\ running' = [running EXCEPT ![s] = [image |-> i, ver |-> images'[i], by |-> by]]

\* Mutant of AfterUp: it is tried again and again.
AfterUpAlways(d, code) ==
  [deps[d] EXCEPT !.code = code, !.tries = @ + 1, !.pc = IF code = 0 THEN "verify" ELSE "up"]

\* retry_idempotent.
AfterUp(d, code) ==
  [deps[d] EXCEPT !.code = code, !.tries = @ + 1,
     !.pc = IF code = 0 \/ deps[d].tries + 1 >= Attempts THEN "verify" ELSE "up"]

Up(d) ==
  /\ At(d, "up")
  /\ LET s == Svc(d)
     IN  \/ Recreate(s, env[s], d) /\ Affects(d, AfterUp(d, 0)) /\ UNCHANGED spent
         \/ Fault /\ Recreate(s, env[s], d) /\ Affects(d, AfterUp(d, 1))   \* its exit code is lost
         \/ Fault /\ UNCHANGED <<images, running>> /\ Becomes(d, AfterUp(d, 1))
         \/ /\ ~CanRecreate(env[s])
            /\ Becomes(d, AfterUp(d, 1))
            /\ UNCHANGED <<images, running, spent>>
  /\ UNCHANGED <<site, registry, env, daemon>>

\* The tag occurs in what is listed: the containers of the project, or of the host, whose
\* lines have the name of the service in them.
Listed(s)   == {u \in Service : (u = s \/ <<s, u>> \in Kin) /\ running[u] # NoContainer}
Verified(d) == deps[d].code = 0 /\ \E u \in Listed(Svc(d)) : Shows(u, running[u].image, deps[d].tag)

\* The verdict, which counts as long as the lock is held.
Verify(d) ==
  /\ At(d, "verify")
  /\ Finishes(d, IF Verified(d) /\ deps[d].held THEN "ok" ELSE "over")
  /\ UNCHANGED <<site, registry, images, env, running, daemon, spent>>

-----------------------------------------------------------------------------
\* A cancellation, or a sweep, frees the lock; the thread does not know yet.
Cancel(d) ==
  /\ deps[d].held /\ spent.cancels < MaxCancels /\ ~InTrouble
  /\ spent' = [spent EXCEPT !.cancels = @ + 1]
  /\ deps' = [deps EXCEPT ![d].held = FALSE]
  /\ UNCHANGED <<site, registry, images, env, running, daemon>>

\* It finds out while a streamed command runs, and leaves it running.
Notice(d) ==
  /\ Live(d) /\ ~deps[d].held /\ ~deps[d].cut /\ deps[d].pc \in {"pull", "up"}
  /\ deps' = [deps EXCEPT ![d].cut = TRUE]
  /\ UNCHANGED <<site, registry, images, env, running, daemon, spent>>

\* The connection breaks, or the process dies: the deployment has failed, and a
\* command that changes something may go on.
BreakOff(d) ==
  /\ Live(d) /\ ~deps[d].cut /\ Fault
  /\ deps' = [deps EXCEPT ![d] =
       IF deps[d].pc \in {"env", "write", "reload", "pull", "up"}
       THEN [@ EXCEPT !.held = FALSE, !.cut = TRUE] ELSE Ended("over")]
  /\ UNCHANGED <<site, registry, images, env, running, daemon>>

\* The modes "commands" and "ansible": what the operator wrote, judged by its exit code.
Script(s, t) ==
  /\ Unlocked(s) /\ spent.deploys < MaxDeploys
  /\ spent' = [spent EXCEPT !.deploys = @ + 1]
  /\ \E code \in 0..1, i \in [src : {"own"}, tag : {t}] :
       /\ deps' = [d \in Deployment |->
            IF d = NextId THEN Ended(IF code = 0 THEN "ok" ELSE "over")
            ELSE IF Svc(d) = s THEN [deps[d] EXCEPT !.met = TRUE] ELSE deps[d]]
       /\ Recreate(s, i, NextId) \/ (code = 1 /\ UNCHANGED <<images, running>>)
  /\ UNCHANGED <<site, registry, env, daemon>>

\* stop: docker-compose down.
Stop(s) ==
  /\ running[s] # NoContainer
  /\ running' = [running EXCEPT ![s] = NoContainer]
  /\ UNCHANGED <<site, registry, images, env, daemon, deps, spent>>

-----------------------------------------------------------------------------
\* Builds push tags anew or delete them; registries go and come, and let the host in or
\* not; operators edit daemon.json, and restart dockerd.
ChangeRegistry ==
  /\ spent.changes < MaxChanges /\ ~InTrouble
  /\ spent' = [spent EXCEPT !.changes = @ + 1]
  /\ \/ \E i \in Image : registry' = [registry EXCEPT !.holds[i] = spent.changes + 2]
     \/ \E i \in Image : registry.holds[i] > 0 /\ registry' = [registry EXCEPT !.holds[i] = 0]
     \/ \E r \in Src : registry' = [registry EXCEPT !.up = Src \ {r}]
     \/ registry' = [registry EXCEPT !.admits = ~@]
  /\ UNCHANGED <<site, images, env, running, daemon, deps>>

Edit(k) ==
  /\ spent.edits < MaxEdits /\ ~InTrouble
  /\ spent' = [spent EXCEPT !.edits = @ + 1]
  /\ daemon' = [daemon EXCEPT !.last = @ + 1, !.writes = 0, !.copied = TRUE,
       !.file = [kind |-> k, ver |-> daemon.last + 1, allows |-> FALSE]]
  /\ UNCHANGED <<site, registry, images, env, running, deps>>

RestartDaemon ==
  /\ daemon.file.kind # "odd" /\ daemon.loaded # daemon.file.allows
  /\ daemon' = [daemon EXCEPT !.loaded = daemon.file.allows]
  /\ UNCHANGED <<site, registry, images, env, running, deps, spent>>

ComposeNext ==
  \/ \E d \in Deployment :
       \/ RewriteEnv(d) \/ Dump(d) \/ WriteDaemon(d) \/ Reload(d)
       \/ Need(d) \/ Pull(d) \/ Have(d) \/ Up(d) \/ Verify(d)
       \/ Cancel(d) \/ Notice(d) \/ BreakOff(d)
  \/ \E s \in Service :
       \/ \E t \in Tag, private \in BOOLEAN : Begin(s, t, private)
       \/ \E t \in Tag : Script(s, t)
       \/ Stop(s)
  \/ ChangeRegistry \/ RestartDaemon
  \/ \E k \in {"odd", "plain"} : Edit(k)

ComposeSpec == ComposeInit /\ [][ComposeNext]_composeVars

-----------------------------------------------------------------------------
ComposeTypeOK ==
  /\ site \in Sites
  /\ registry \in [up : SUBSET Src, admits : BOOLEAN, holds : [Image -> Version]]
  /\ images \in [Image -> Version]
  /\ env \in [Service -> Image \cup {NoContainer.image}]
  /\ running \in [Service -> Container \cup {NoContainer}]
  /\ daemon \in [file : File, backup : File, loaded : BOOLEAN, last : -1..MaxEdits,
                 writes : 0..2, copied : BOOLEAN]
  /\ deps \in [Deployment -> Dep]

\* "ok" is said of a container that this deployment has created, from the image it was
\* given, in the version that the tag had by its beginning or later
\* (compose.py:337, "all retries failed must not count because the container is
\* there").  The exceptions: another deployment, which had lost the lock, has changed the
\* service meanwhile, or it was stopped; a registry did not give the tag and what the
\* host had was taken; the env file was not written, and the tag is a part of the
\* text of the one it names, or of another line.  Services with an env file of their own are
\* excepted: what is pulled for them is what another file names.
OkMeansDeployed ==
  [][\A d \in Deployment :
       At(d, "verify") /\ deps'[d].pc = "ok" /\ Svc(d) \notin Custom =>
         LET c == running[Svc(d)]
         IN  \/ deps[d].met \/ c = NoContainer
             \/ /\ c.by = d
                /\ IF c.image = Wanted(d) THEN c.ver >= deps[d].since \/ deps[d].missed
                   ELSE deps[d].unwritten /\ Shows(Svc(d), c.image, deps[d].tag)]_composeVars

\* A public image steps in for the private one of the same name only after a pull has
\* ended without the tag, and never because dockerd refuses plain HTTP
\* (compose.py:245-247), whatever of the configuration was read, written or loaded by
\* then.  The code does not ask why the pull has failed: the registry may not have the
\* tag, not be there or not let the host in.  The exceptions are an answer that was
\* lost, an env file that was not written or that another deployment has
\* written, and services with an env file of their own.
NoSubstitute ==
  \A d \in Deployment :
    Live(d) /\ deps[d].private /\ deps[d].src = "hub" =>
      /\ ~deps[d].blocked
      /\ \/ deps[d].missed \/ deps[d].lost
         \/ deps[d].unwritten \/ deps[d].met \/ Svc(d) \in Custom

\* What an operator wrote into daemon.json is there or in the backup after one
\* write, if he writes between the dump and the write too, and if the write fails;
\* not if the copy fails, which nobody looks at.  A second write, after one that failed
\* or by another deployment, is not as careful.
OperatorsConfigKept ==
  daemon.writes <= 1 /\ daemon.copied => daemon.last \in {daemon.file.ver, daemon.backup.ver}
=============================================================================
