------------------------------ MODULE ImageDeploy ------------------------------
(***************************************************************************)
(* src/ops/docker-deploy-image.sh, run again and again against one Docker  *)
(* host: every run replaces the container, keeps the previous one under    *)
(* the rollback name until the new one has passed its checks, and puts it  *)
(* back when it has not.  Every docker command is one step.                *)
(*                                                                         *)
(* A command the script lets fail (`|| true`) may fail, and any other that *)
(* fails ends the script there (`set -e`), whether or not Docker has done  *)
(* what it was asked to.  `if docker container inspect` takes a Docker     *)
(* that does not answer for one that has no such container: the script     *)
(* then overlooks it.  The script may also be killed between two commands. *)
(* Containers change their health at any time.                             *)
(***************************************************************************)
EXTENDS Integers

CONSTANTS
    Nothing,   \* no container has that name
    MaxRuns,   \* bound on the runs of the script
    MaxKills   \* bound on how often it is killed

ASSUME DeployAssumption ==
    /\ MaxRuns \in Nat
    /\ MaxKills \in Nat
    /\ Nothing \notin [id : Nat, state : {"starting", "up", "down", "stopped"}]

VARIABLES
    main,     \* the container named CONTAINER_NAME
    spare,    \* the container named ROLLBACK_CONTAINER_NAME
    pc,       \* the next command of the script, or idle
    run,      \* the runs begun so far; a container is named after its run
    kills,
    result,   \* how the last run ended
    before,   \* history: what main was when the run began
    proved,   \* history: the containers that have passed the three checks, and the
              \*   one that was there at first
    blind,    \* history: this run has overlooked a container
    tainted   \* history: some run was killed, ended by set -e, or was blind

host == <<main, spare>>
history == <<before, proved, blind, tainted>>
vars == <<main, spare, pc, run, kills, result, history>>

State == {"starting", "up", "down", "stopped"}
Container == [id : 0..MaxRuns, state : State]
Running(c) == c # Nothing /\ c.state # "stopped"

Init ==
    /\ \E s \in {"starting", "up", "down"} : main \in {Nothing, [id |-> 0, state |-> s]}
    /\ spare = Nothing
    /\ pc = "idle"
    /\ run = 0
    /\ kills = 0
    /\ result = "none"
    /\ before = Nothing
    /\ proved = IF main = Nothing THEN {} ELSE {0}
    /\ blind = FALSE
    /\ tainted = FALSE

Goto(next) == pc' = next /\ UNCHANGED <<run, kills, result, history>>

Exit(how) ==
    /\ pc' = "idle"
    /\ result' = how
    /\ tainted' = (tainted \/ how = "aborted")
    /\ UNCHANGED <<run, kills, before, proved, blind>>

\* docker container inspect has failed, though there is a container.
Overlook(next, how) ==
    /\ pc' = next
    /\ result' = how
    /\ blind' = TRUE
    /\ tainted' = TRUE
    /\ UNCHANGED <<run, kills, before, proved>>

\* The inputs are there and the image could be pulled; otherwise the script
\* ends before it has touched a container.
Begin ==
    /\ pc = "idle"
    /\ run < MaxRuns
    /\ run' = run + 1
    /\ before' = main
    /\ pc' = "drop"
    /\ blind' = FALSE
    /\ UNCHANGED <<main, spare, kills, result, proved, tainted>>

\* docker rm -f ${ROLLBACK_CONTAINER_NAME} || true
DropSpare ==
    /\ pc = "drop"
    /\ spare' \in {Nothing, spare}
    /\ UNCHANGED main
    /\ Goto("look")

\* Is there a container to replace?
Look ==
    /\ pc = "look"
    /\ \/ main = Nothing /\ Goto("start")
       \/ main # Nothing /\ Goto("stop")
       \/ main # Nothing /\ Overlook("start", result)
    /\ UNCHANGED host

\* A bug: the container is renamed while it runs.
StopLater ==
    /\ pc = "stop"
    /\ Goto("rename")
    /\ UNCHANGED host

Stop ==
    /\ pc = "stop"
    /\ \/ /\ main' = [main EXCEPT !.state = "stopped"]
          /\ Goto("rename") \/ Exit("aborted")
       \/ UNCHANGED main /\ Exit("aborted")
    /\ UNCHANGED spare

\* A name that is taken cannot be given away.
Rename ==
    /\ pc = "rename"
    /\ \/ /\ spare = Nothing
          /\ spare' = main
          /\ main' = Nothing
          /\ Goto("start") \/ Exit("aborted")
       \/ UNCHANGED host /\ Exit("aborted")

\* docker run creates the container and starts it; either may fail, and so may
\* the answer.  Nothing is created under a name that is taken.
Start ==
    /\ pc = "start"
    /\ \/ /\ main = Nothing
          /\ main' = [id |-> run, state |-> "starting"]
          /\ Goto("wait") \/ Goto("undo")
       \/ /\ main = Nothing
          /\ main' = [id |-> run, state |-> "stopped"]
          /\ Goto("undo")
       \/ UNCHANGED main /\ Goto("undo")
    /\ UNCHANGED spare

\* A bug: a container that is still starting is waited for without end.
WaitForever ==
    /\ pc = "wait"
    /\ \/ main.state = "up" /\ Goto("path")
       \/ main.state = "down" /\ (Goto("undo") \/ Exit("aborted"))
    /\ UNCHANGED host

\* Healthy for Docker and ready from inside; or down; or the deadline is over.
\* The status that is then to be shown is read under set -e.
Wait ==
    /\ pc = "wait"
    /\ \/ main.state = "up" /\ Goto("path")
       \/ Goto("undo")
       \/ Exit("aborted")
    /\ UNCHANGED host

\* The container is asked for its path; set -e ends the script if it cannot be.
ReadPath ==
    /\ pc = "path"
    /\ Goto("verify") \/ Exit("aborted")
    /\ UNCHANGED host

\* A bug: a failed probe from the host is only reported.
VerifyLenient ==
    /\ pc = "verify"
    /\ \/ /\ main.state = "up"
          /\ pc' = "finish"
          /\ proved' = proved \cup {main.id}
          /\ UNCHANGED <<run, kills, result, before, blind, tainted>>
       \/ Goto("finish")
    /\ UNCHANGED host

\* A probe from the host.
Verify ==
    /\ pc = "verify"
    /\ \/ /\ main.state = "up"
          /\ pc' = "finish"
          /\ proved' = proved \cup {main.id}
          /\ UNCHANGED <<run, kills, result, before, blind, tainted>>
       \/ Goto("undo")
    /\ UNCHANGED host

Finish ==
    /\ pc = "finish"
    /\ spare' \in {Nothing, spare}
    /\ UNCHANGED main
    /\ Exit("deployed")

\* A bug: the container kept for the rollback is never looked for.
UndoNothing ==
    /\ pc = "undo"
    /\ Exit("failed")
    /\ UNCHANGED host

\* rollback_previous_container: is there a container to go back to?
Undo ==
    /\ pc = "undo"
    /\ \/ spare = Nothing /\ Exit("failed")
       \/ spare # Nothing /\ Goto("clear")
       \/ spare # Nothing /\ Overlook("idle", "failed")
    /\ UNCHANGED host

\* docker rm -f ${CONTAINER_NAME} || true
Clear ==
    /\ pc = "clear"
    /\ main' \in {Nothing, main}
    /\ UNCHANGED spare
    /\ Goto("restore")

Restore ==
    /\ pc = "restore"
    /\ \/ /\ main = Nothing
          /\ main' = spare
          /\ spare' = Nothing
          /\ Goto("restart") \/ Exit("aborted")
       \/ UNCHANGED host /\ Exit("aborted")

Restart ==
    /\ pc = "restart"
    /\ \/ /\ main' = [main EXCEPT !.state = "starting"]
          /\ Exit("restored") \/ Exit("aborted")
       \/ UNCHANGED main /\ Exit("aborted")
    /\ UNCHANGED spare

\* The script dies: its terminal is closed, or its job cancelled.
Kill ==
    /\ pc # "idle"
    /\ kills < MaxKills
    /\ kills' = kills + 1
    /\ pc' = "idle"
    /\ result' = "killed"
    /\ tainted' = TRUE
    /\ UNCHANGED <<host, run, before, proved, blind>>

\* Docker's health check, its restart policy, and the process inside.
Health ==
    /\ Running(main)
    /\ \E s \in {"starting", "up", "down"} \ {main.state} : main' = [main EXCEPT !.state = s]
    /\ UNCHANGED <<spare, pc, run, kills, result, history>>

Command ==
    \/ DropSpare
    \/ Look
    \/ Stop
    \/ Rename
    \/ Start
    \/ Wait
    \/ ReadPath
    \/ Verify
    \/ Finish
    \/ Undo
    \/ Clear
    \/ Restore
    \/ Restart

Next ==
    \/ Begin
    \/ Command
    \/ Kill
    \/ Health

Spec == Init /\ [][Next]_vars

\* The script goes on: every command of it returns, and the wait has a deadline.
FairSpec == Spec /\ WF_vars(Command)

----------------------------------------------------------------------------

Phase == {"idle", "drop", "look", "stop", "rename", "start", "wait", "path",
          "verify", "finish", "undo", "clear", "restore", "restart"}

TypeOK ==
    /\ main \in Container \cup {Nothing}
    /\ spare \in Container \cup {Nothing}
    /\ pc \in Phase
    /\ run \in 0..MaxRuns
    /\ kills \in 0..MaxKills
    /\ result \in {"none", "deployed", "restored", "failed", "aborted", "killed"}
    /\ before \in Container \cup {Nothing}
    /\ proved \subseteq 0..MaxRuns
    /\ blind \in BOOLEAN
    /\ tainted \in BOOLEAN

\* Two containers never run at once, not even after a kill: they would write to
\* the same data directory and ask for the same port
\* (docker-deploy-image.sh:84-87, 109-111).
OneRuns == ~(Running(main) /\ Running(spare))

Good(c) == c # Nothing /\ c.id \in proved

\* A container that has passed all checks is deleted only when another one has
\* (the comment at docker-deploy-image.sh:106-107).
KnownGoodKept == proved # {} => Good(main) \/ Good(spare)

\* As long as every run has come to its own end and overlooked no container
\* (docker-deploy-image.sh:84, 109), that is what the script does.
KeptByWholeRuns == ~tainted => KnownGoodKept

\* A run that came to its own end has deployed a container that passed its
\* checks, or has put back and started the very one it found
\* (docs/operations.md:436-437).  One that overlooked a container
\* (docker-deploy-image.sh:84, 109) may put back another, or may end with
\* nothing that runs, but then it has not deleted the one it found.
EndsSettled ==
    pc = "idle" =>
        /\ result = "deployed" => Running(main) /\ main.id = run /\ Good(main)
        /\ result \in {"restored", "failed"} /\ before # Nothing /\ ~blind =>
               result = "restored" /\ Running(main) /\ main.id = before.id
        /\ result = "failed" /\ before # Nothing =>
               \E c \in {main, spare} : c # Nothing /\ c.id = before.id

\* Every run ends, whatever the health of the containers does.
RunsEnd == pc # "idle" ~> pc = "idle"

\* Which container each command of the script finds.
Places ==
    /\ spare # Nothing => spare.state = "stopped"
    /\ pc = "start" => (main = Nothing <=> ~blind)
    /\ pc \in {"stop", "rename", "wait", "path", "verify", "finish", "restart"} => main # Nothing
    /\ pc = "rename" => main.state = "stopped"
    /\ pc = "restart" => main.state = "stopped"
    /\ pc \in {"wait", "path", "verify", "finish"} => Running(main) /\ main.id = run
    /\ pc = "finish" => main.id \in proved
    /\ pc \in {"clear", "restore"} => spare # Nothing
    /\ blind => tainted /\ pc \in {"idle", "start", "undo", "clear", "restore", "restart"}

\* Where the container to go back to is.
Kept ==
    IF pc \in {"start", "wait", "path", "verify", "undo", "clear", "restore"}
    THEN spare
    ELSE main

\* Where the container that was found is.
Found == IF blind THEN main ELSE Kept

Keeping ==
    /\ ~tainted /\ proved # {} => Good(Kept)
    /\ \/ pc \in {"idle", "finish"}
       \/ pc \in {"clear", "restore", "restart"} /\ blind
       \/ before # Nothing => Found # Nothing /\ Found.id = before.id

\* The inductive invariant.
IInv == TypeOK /\ Places /\ Keeping /\ EndsSettled
================================================================================
