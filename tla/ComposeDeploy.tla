----------------------------- MODULE ComposeDeploy -----------------------------
(***************************************************************************)
(* src/ops/docker-deploy-compose.sh, run again and again against one host: *)
(* every run tags the image that runs, lets Compose replace the container, *)
(* and goes back to the tagged image when the new one does not pass its    *)
(* checks.  Every docker command is one step.                              *)
(*                                                                         *)
(* A command that fails ends the script (`set -e`), whether or not Docker  *)
(* has done what it was asked to; but for those of the rollback, which is  *)
(* called with `|| true` and so goes on past them.  The script may be      *)
(* killed between two commands.  A container that has been started is      *)
(* listed for good, for its restart policy never gives up.                 *)
(***************************************************************************)
EXTENDS Integers

CONSTANTS
    Nothing,   \* no container, no image
    MaxRuns,   \* bound on the runs of the script
    MaxKills   \* bound on how often it is killed

ASSUME ComposeAssumption ==
    /\ MaxRuns \in Nat
    /\ MaxKills \in Nat
    /\ Nothing \notin Nat
    /\ Nothing \notin [image : Nat, state : {"created", "starting", "up", "down"}]

VARIABLES
    app,      \* the container of the Compose service
    tag,      \* the image ROLLBACK_IMAGE_REF names
    pc,       \* the next command of the script, or idle
    run,      \* the runs begun so far; each deploys an image of its own
    kills,
    result,   \* how the last run ended
    before,   \* history: the image the run found running
    proved,   \* history: the images that have passed the three checks, and the
              \*   one that ran at first
    tainted   \* history: some run was killed, was ended by set -e, failed, or did
              \*   not see the container it replaced

host == <<app, tag>>
history == <<before, proved, tainted>>
vars == <<app, tag, pc, run, kills, result, history>>

State == {"created", "starting", "up", "down"}
Container == [image : 0..MaxRuns, state : State]

\* compose ps -q app
Listed(c) == c # Nothing /\ c.state # "created"

Init ==
    /\ \E s \in {"starting", "up", "down"} : app \in {Nothing, [image |-> 0, state |-> s]}
    /\ tag = Nothing
    /\ pc = "idle"
    /\ run = 0
    /\ kills = 0
    /\ result = "none"
    /\ before = Nothing
    /\ proved = IF app = Nothing THEN {} ELSE {0}
    /\ tainted = FALSE

Goto(next) == pc' = next /\ UNCHANGED <<run, kills, result, history>>

Exit(how) ==
    /\ pc' = "idle"
    /\ result' = how
    /\ tainted' = (tainted \/ how \in {"aborted", "failed"})
    /\ UNCHANGED <<run, kills, before, proved>>

\* The three checks are passed: healthy for Docker, ready inside, ready outside.
Pass == proved' = proved \cup {app.image}

\* The files are there, the registry lets the script in.  A `compose ps` that fails
\* is taken for one that lists nothing (`|| true`), and then nothing is tagged.
Begin ==
    /\ pc = "idle"
    /\ run < MaxRuns
    /\ run' = run + 1
    /\ \/ /\ Listed(app)
          /\ before' = app.image
          /\ pc' = "tag"
          /\ UNCHANGED tainted
       \/ /\ before' = Nothing
          /\ pc' = "pull"
          /\ tainted' = (tainted \/ Listed(app))
    /\ UNCHANGED <<host, kills, result, proved>>

\* A bug: a rollback tag that is there is kept.
TagOnce ==
    /\ pc = "tag"
    /\ tag' = IF tag = Nothing THEN app.image ELSE tag
    /\ UNCHANGED app
    /\ Goto("pull")

\* docker tag: whatever is running, and whatever the tag named before.
Tag ==
    /\ pc = "tag"
    /\ \/ tag' = app.image /\ (Goto("pull") \/ Exit("aborted"))
       \/ UNCHANGED tag /\ Exit("aborted")
    /\ UNCHANGED app

Pull ==
    /\ pc = "pull"
    /\ Goto("up") \/ Exit("aborted")
    /\ UNCHANGED host

\* What `compose up` can leave when it fails: it has not begun, has removed the
\* container, or cannot start the one it created.
Failed(image) == {app, Nothing, [image |-> image, state |-> "created"]}

Up ==
    /\ pc = "up"
    /\ \/ /\ app' = [image |-> run, state |-> "starting"]
          /\ Goto("find") \/ Exit("aborted")
       \/ app' \in Failed(run) /\ Exit("aborted")
    /\ UNCHANGED tag

Find ==
    /\ pc = "find"
    /\ Goto(IF Listed(app) THEN "wait" ELSE "undo") \/ Exit("aborted")
    /\ UNCHANGED host

\* Up, and ready from inside; or down; or the deadline is over, and the logs are
\* printed, if they can be read.
Wait ==
    /\ pc = "wait"
    /\ \/ app.state = "up" /\ Goto("path")
       \/ Goto("undo")
       \/ Exit("aborted")
    /\ UNCHANGED host

\* The container is asked for its path and Docker for its port, which a
\* container that is no longer up may not have.
ReadPath ==
    /\ pc = "path"
    /\ Goto("verify") \/ Goto("undo") \/ Exit("aborted")
    /\ UNCHANGED host

\* A bug: a failed probe from the host is only reported.
VerifyLenient ==
    /\ pc = "verify"
    /\ Goto("finish")
    /\ UNCHANGED host

\* A probe from the host.
Verify ==
    /\ pc = "verify"
    /\ \/ /\ app.state = "up" /\ Pass
          /\ pc' = "finish"
          /\ UNCHANGED <<run, kills, result, before, tainted>>
       \/ Goto("undo")
       \/ Exit("aborted")
    /\ UNCHANGED host

\* docker image rm ${ROLLBACK_IMAGE_REF} || true
Finish ==
    /\ pc = "finish"
    /\ tag' \in {Nothing, tag}
    /\ UNCHANGED app
    /\ Exit("deployed")

\* rollback_compose_deployment.  An inspect of the tag that is not answered is
\* taken for no tag.
Undo ==
    /\ pc = "undo"
    /\ \/ tag # Nothing /\ Goto("up again")
       \/ Exit("failed")
    /\ UNCHANGED host

\* The exit status of this one is not looked at.
UpAgain ==
    /\ pc = "up again"
    /\ app' \in {[image |-> tag, state |-> "starting"]} \cup Failed(tag)
    /\ UNCHANGED tag
    /\ Goto("find again")

\* Whichever container is listed is taken for the previous one.
FindAgain ==
    /\ pc = "find again"
    /\ \/ Listed(app) /\ Goto("wait again")
       \/ Exit("failed")
    /\ UNCHANGED host

WaitAgain ==
    /\ pc = "wait again"
    /\ \/ app.state = "up" /\ Goto("verify again")
       \/ Exit("failed")
    /\ UNCHANGED host

VerifyAgain ==
    /\ pc = "verify again"
    /\ \/ /\ app.state = "up" /\ Pass
          /\ pc' = "idle"
          /\ result' = "restored"
          /\ UNCHANGED <<run, kills, before, tainted>>
       \/ Exit("failed")
    /\ UNCHANGED host

\* The script dies: its terminal is closed, or its job cancelled.
Kill ==
    /\ pc # "idle"
    /\ kills < MaxKills
    /\ kills' = kills + 1
    /\ pc' = "idle"
    /\ result' = "killed"
    /\ tainted' = TRUE
    /\ UNCHANGED <<host, run, before, proved>>

\* Docker's health check, its restart policy, and the process inside.
Health ==
    /\ Listed(app)
    /\ \E s \in {"starting", "up", "down"} \ {app.state} : app' = [app EXCEPT !.state = s]
    /\ UNCHANGED <<tag, pc, run, kills, result, history>>

Command ==
    \/ Tag
    \/ Pull
    \/ Up
    \/ Find
    \/ Wait
    \/ ReadPath
    \/ Verify
    \/ Finish
    \/ Undo
    \/ UpAgain
    \/ FindAgain
    \/ WaitAgain
    \/ VerifyAgain

Next ==
    \/ Begin
    \/ Command
    \/ Kill
    \/ Health

Spec == Init /\ [][Next]_vars

----------------------------------------------------------------------------

TypeOK ==
    /\ app \in Container \cup {Nothing}
    /\ tag \in 0..MaxRuns \cup {Nothing}
    /\ pc \in {"idle", "tag", "pull", "up", "find", "wait", "path", "verify", "finish", "undo",
               "up again", "find again", "wait again", "verify again"}
    /\ run \in 0..MaxRuns
    /\ kills \in 0..MaxKills
    /\ result \in {"none", "deployed", "restored", "failed", "aborted", "killed"}
    /\ before \in 0..MaxRuns \cup {Nothing}
    /\ proved \subseteq 0..MaxRuns
    /\ tainted \in BOOLEAN

Good(image) == image \in proved

\* As long as every run saw what it replaced, and deployed its image or restored the
\* previous one, an image that passed all checks is what runs or what the rollback tag
\* names, at every command of the next run: a prune of unused images cannot take it
\* (docker-deploy-compose.sh:163-170, 210-212; docs/operations.md:441-444).
KeptByWholeRuns ==
    ~tainted /\ proved # {} => (app # Nothing /\ Good(app.image)) \/ Good(tag)

\* A run that says it has deployed runs its own image; one that says it has
\* restored the previous deployment runs what the rollback tag names, or at worst
\* its own image; and what runs then has passed the checks.  Tags of killed and
\* failed runs stay behind: a run that saw the container it replaced never goes
\* back to one of them.  A run whose `compose ps` listed nothing, or failed, does:
\* it restores whatever image an earlier run has left tagged
\* (docker-deploy-compose.sh:119-167, 214).
EndsSettled ==
    pc = "idle" =>
        /\ result = "deployed" => Listed(app) /\ app.image = run /\ Good(run)
        /\ result = "restored" => Listed(app) /\ Good(app.image) /\ app.image \in {tag, run}
        /\ result = "restored" /\ before # Nothing => app.image \in {before, run}

\* What runs and what is tagged at each command of the script.
Places ==
    /\ pc \in {"tag", "wait", "path", "verify", "finish", "wait again", "verify again"} =>
        Listed(app)
    /\ pc = "tag" => before = app.image
    /\ pc \notin {"idle", "tag"} /\ before # Nothing => tag = before
    /\ pc \in {"find", "wait", "path", "verify", "finish", "undo", "up again"} =>
        app # Nothing /\ app.image = run
    /\ pc = "finish" => Good(run)
    /\ pc \in {"up again", "find again", "wait again", "verify again"} =>
        tag # Nothing /\ (app # Nothing => app.image \in {tag, run})

\* Where the image to go back to is while all runs have been whole.
Keeping ==
    ~tainted /\ proved # {} =>
        /\ pc \in {"idle", "tag", "finish"} => Listed(app) /\ Good(app.image)
        /\ pc \notin {"idle", "tag", "finish"} => before # Nothing /\ Good(before)

\* The inductive invariant.
IInv == TypeOK /\ Places /\ Keeping /\ EndsSettled
================================================================================
