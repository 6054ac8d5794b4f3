-------------------------- MODULE ComposeDeployProofs --------------------------
(***************************************************************************)
(* Proofs about ComposeDeploy, for every number of runs and of kills.      *)
(***************************************************************************)
EXTENDS ComposeDeploy, TLAPS

USE DEF Good, Listed, host, history

LEMMA InvInit == Init => IInv
<1> SUFFICES ASSUME Init PROVE IInv
  OBVIOUS
<1>1. TypeOK
  <2>1. 0 \in 0..MaxRuns /\ 0 \in 0..MaxKills
    BY ComposeAssumption
  <2>2. \A s \in State : [image |-> 0, state |-> s] \in Container
    BY <2>1 DEF Container
  <2>3. app \in Container \cup {Nothing}
    BY <2>2 DEF Init, State
  <2> QED BY <2>1, <2>3 DEF Init, TypeOK
<1>2. Places
  BY DEF Init, Places
<1>3. Keeping
  <2>1. CASE app = Nothing
    BY <2>1 DEF Init, Keeping
  <2>2. CASE app # Nothing
    <3>1. app.image = 0 /\ app.state # "created" /\ proved = {0}
      BY <2>2 DEF Init
    <3> QED BY <2>2, <3>1 DEF Init, Keeping
  <2> QED BY <2>1, <2>2
<1>4. EndsSettled
  BY DEF Init, EndsSettled
<1> QED BY <1>1, <1>2, <1>3, <1>4 DEF IInv

\* A run that ends badly owes nothing to Keeping.
LEMMA Excused ==
    ASSUME NEW how \in {"aborted", "failed"}, Exit(how)
    PROVE  Keeping'
  BY DEF Keeping, Exit

\* Between the tag and the verdict it is the image found at first that is kept,
\* whatever becomes of the container.
LEMMA Onwards ==
    ASSUME Keeping, pc \notin {"idle", "tag", "finish"},
           NEW next, next \notin {"idle", "tag", "finish"}, Goto(next)
    PROVE  Keeping'
  BY DEF Keeping, Goto

LEMMA BeginStep == IInv /\ Begin => IInv'
<1> SUFFICES ASSUME IInv, Begin PROVE IInv'
  OBVIOUS
<1>0. tainted \in BOOLEAN
  BY DEF IInv, TypeOK
<1>1. TypeOK'
  <2>1. app # Nothing => app.image \in 0..MaxRuns
    BY DEF IInv, TypeOK, Container
  <2>2. run + 1 \in 0..MaxRuns
    BY ComposeAssumption DEF IInv, TypeOK, Begin
  <2> QED BY <2>1, <2>2 DEF IInv, TypeOK, Begin
<1>2. Places'
  BY DEF IInv, Places, Begin
<1>3. Keeping'
  <2>1. CASE Listed(app) /\ before' = app.image /\ pc' = "tag"
    BY <2>1 DEF IInv, Keeping, Begin
  <2>2. CASE pc' = "pull" /\ tainted' = (tainted \/ Listed(app))
    <3>1. ~tainted' => ~tainted /\ ~Listed(app)
      BY <1>0, <2>2
    <3>2. tainted \/ proved = {} \/ Listed(app)
      BY DEF IInv, Keeping, Begin
    <3> QED BY <3>1, <3>2 DEF Keeping, Begin
  <2> QED BY <2>1, <2>2 DEF Begin
<1>4. EndsSettled'
  BY DEF IInv, EndsSettled, Begin
<1> QED BY <1>1, <1>2, <1>3, <1>4 DEF IInv

LEMMA TagStep == IInv /\ Tag => IInv'
<1> SUFFICES ASSUME IInv, Tag PROVE IInv'
  OBVIOUS
<1>1. TypeOK'
  BY DEF IInv, TypeOK, Places, Container, Tag, Goto, Exit
<1>2. Places'
  BY DEF IInv, Places, Tag, Goto, Exit
<1>3. Keeping'
  <2>1. before = app.image /\ app \in Container
    BY DEF IInv, TypeOK, Places, Tag
  <2>2. before # Nothing
    BY <2>1, ComposeAssumption DEF Container
  <2>3. CASE Goto("pull")
    BY <2>1, <2>2, <2>3 DEF IInv, Keeping, Tag, Goto
  <2> QED BY <2>3, Excused DEF Tag
<1>4. EndsSettled'
  BY DEF IInv, EndsSettled, Tag, Goto, Exit
<1> QED BY <1>1, <1>2, <1>3, <1>4 DEF IInv

LEMMA PullStep == IInv /\ Pull => IInv'
<1> SUFFICES ASSUME IInv, Pull PROVE IInv'
  OBVIOUS
<1>1. TypeOK'
  BY DEF IInv, TypeOK, Pull, Goto, Exit
<1>2. Places'
  BY DEF IInv, Places, Pull, Goto, Exit
<1>3. Keeping'
  BY Excused, Onwards DEF IInv, Pull
<1>4. EndsSettled'
  BY DEF IInv, EndsSettled, Pull, Goto, Exit
<1> QED BY <1>1, <1>2, <1>3, <1>4 DEF IInv

LEMMA UpStep == IInv /\ Up => IInv'
<1> SUFFICES ASSUME IInv, Up PROVE IInv'
  OBVIOUS
<1>1. TypeOK'
  <2>1. run \in 0..MaxRuns
    BY DEF IInv, TypeOK, Places, Up
  <2>2. \A s \in State : [image |-> run, state |-> s] \in Container
    BY <2>1 DEF Container
  <2>3. app' \in Container \cup {Nothing}
    BY <2>2 DEF IInv, TypeOK, Up, Failed, State
  <2> QED BY <2>3 DEF IInv, TypeOK, Up, Goto, Exit
<1>2. Places'
  <2>1. CASE Goto("find")
    <3>1. app' = [image |-> run, state |-> "starting"]
      BY <2>1 DEF Up, Exit, Goto
    <3>2. app'.image = run
      BY <3>1
    <3>3. run \in Nat
      <4>1. run \in 0..MaxRuns
        BY DEF IInv, TypeOK
      <4> QED BY <4>1
    <3>4. app' # Nothing
      BY <3>1, <3>3, ComposeAssumption
    <3> QED BY <2>1, <3>2, <3>4 DEF IInv, Places, Up, Goto
  <2>2. CASE Exit("aborted")
    BY <2>2 DEF Places, Exit
  <2> QED BY <2>1, <2>2 DEF Up
<1>3. Keeping'
  BY Excused, Onwards DEF IInv, Up
<1>4. EndsSettled'
  BY DEF IInv, EndsSettled, Up, Goto, Exit
<1> QED BY <1>1, <1>2, <1>3, <1>4 DEF IInv

LEMMA FindStep == IInv /\ Find => IInv'
<1> SUFFICES ASSUME IInv, Find PROVE IInv'
  OBVIOUS
<1>1. TypeOK'
  BY DEF IInv, TypeOK, Find, Goto, Exit
<1>2. Places'
  BY DEF IInv, Places, Find, Goto, Exit
<1>3. Keeping'
  BY Excused, Onwards DEF IInv, Find
<1>4. EndsSettled'
  BY DEF IInv, EndsSettled, Find, Goto, Exit
<1> QED BY <1>1, <1>2, <1>3, <1>4 DEF IInv

LEMMA WaitStep == IInv /\ Wait => IInv'
<1> SUFFICES ASSUME IInv, Wait PROVE IInv'
  OBVIOUS
<1>1. TypeOK'
  BY DEF IInv, TypeOK, Wait, Goto, Exit
<1>2. Places'
  BY DEF IInv, Places, Wait, Goto, Exit
<1>3. Keeping'
  BY Excused, Onwards DEF IInv, Wait
<1>4. EndsSettled'
  BY DEF IInv, EndsSettled, Wait, Goto, Exit
<1> QED BY <1>1, <1>2, <1>3, <1>4 DEF IInv

LEMMA ReadPathStep == IInv /\ ReadPath => IInv'
<1> SUFFICES ASSUME IInv, ReadPath PROVE IInv'
  OBVIOUS
<1>1. TypeOK'
  BY DEF IInv, TypeOK, ReadPath, Goto, Exit
<1>2. Places'
  BY DEF IInv, Places, ReadPath, Goto, Exit
<1>3. Keeping'
  BY Excused, Onwards DEF IInv, ReadPath
<1>4. EndsSettled'
  BY DEF IInv, EndsSettled, ReadPath, Goto, Exit
<1> QED BY <1>1, <1>2, <1>3, <1>4 DEF IInv

LEMMA VerifyStep == IInv /\ Verify => IInv'
<1> SUFFICES ASSUME IInv, Verify PROVE IInv'
  OBVIOUS
<1>1. TypeOK'
  BY DEF IInv, TypeOK, Places, Container, Verify, Goto, Exit, Pass
<1>2. Places'
  BY DEF IInv, Places, Verify, Goto, Exit, Pass
<1>3. Keeping'
  <2>1. Listed(app) /\ app' = app
    BY DEF IInv, Places, Verify
  <2>2. CASE Pass /\ pc' \in {"idle", "finish"}
    BY <2>1, <2>2 DEF Keeping, Pass
  <2> QED BY <2>2, Excused, Onwards DEF IInv, Verify
<1>4. EndsSettled'
  BY DEF IInv, EndsSettled, Places, Verify, Goto, Exit, Pass
<1> QED BY <1>1, <1>2, <1>3, <1>4 DEF IInv

LEMMA FinishStep == IInv /\ Finish => IInv'
<1> SUFFICES ASSUME IInv, Finish PROVE IInv'
  OBVIOUS
<1>0. tainted \in BOOLEAN
  BY DEF IInv, TypeOK
<1>1. TypeOK'
  BY DEF IInv, TypeOK, Finish, Exit
<1>2. Places'
  BY DEF IInv, Places, Finish, Exit
<1>3. Keeping'
  BY <1>0 DEF IInv, Keeping, Places, Finish, Exit
<1>4. EndsSettled'
  BY DEF IInv, EndsSettled, Places, Finish, Exit
<1> QED BY <1>1, <1>2, <1>3, <1>4 DEF IInv

LEMMA UndoStep == IInv /\ Undo => IInv'
<1> SUFFICES ASSUME IInv, Undo PROVE IInv'
  OBVIOUS
<1>1. TypeOK'
  BY DEF IInv, TypeOK, Undo, Goto, Exit
<1>2. Places'
  BY DEF IInv, Places, Undo, Goto, Exit
<1>3. Keeping'
  BY Excused, Onwards DEF IInv, Undo
<1>4. EndsSettled'
  BY DEF IInv, EndsSettled, Undo, Goto, Exit
<1> QED BY <1>1, <1>2, <1>3, <1>4 DEF IInv

LEMMA UpAgainStep == IInv /\ UpAgain => IInv'
<1> SUFFICES ASSUME IInv, UpAgain PROVE IInv'
  OBVIOUS
<1>1. TypeOK'
  <2>1. tag \in 0..MaxRuns
    BY DEF IInv, TypeOK, Places, UpAgain
  <2>2. \A s \in State : [image |-> tag, state |-> s] \in Container
    BY <2>1 DEF Container
  <2>3. app' \in Container \cup {Nothing}
    BY <2>2 DEF IInv, TypeOK, UpAgain, Failed, State
  <2> QED BY <2>3 DEF IInv, TypeOK, UpAgain, Goto
<1>2. Places'
  <2>1. tag # Nothing /\ (app # Nothing => app.image \in {tag, run})
    BY DEF IInv, Places, UpAgain
  <2>2. app' # Nothing => app'.image \in {tag, run}
    <3>1. CASE app' = app
      BY <2>1, <3>1
    <3>2. CASE app' = [image |-> tag, state |-> "starting"]
      BY <3>2
    <3>3. CASE app' = [image |-> tag, state |-> "created"]
      BY <3>3
    <3> QED BY <3>1, <3>2, <3>3 DEF UpAgain, Failed
  <2>3. pc' = "find again" /\ tag' = tag /\ run' = run /\ before' = before
    BY DEF UpAgain, Goto
  <2>4. before # Nothing => tag = before
    BY DEF IInv, Places, UpAgain
  <2> QED BY <2>1, <2>2, <2>3, <2>4 DEF Places
<1>3. Keeping'
  BY Excused, Onwards DEF IInv, UpAgain
<1>4. EndsSettled'
  BY DEF IInv, EndsSettled, UpAgain, Goto
<1> QED BY <1>1, <1>2, <1>3, <1>4 DEF IInv

LEMMA FindAgainStep == IInv /\ FindAgain => IInv'
<1> SUFFICES ASSUME IInv, FindAgain PROVE IInv'
  OBVIOUS
<1>1. TypeOK'
  BY DEF IInv, TypeOK, FindAgain, Goto, Exit
<1>2. Places'
  BY DEF IInv, Places, FindAgain, Goto, Exit
<1>3. Keeping'
  BY Excused, Onwards DEF IInv, FindAgain
<1>4. EndsSettled'
  BY DEF IInv, EndsSettled, FindAgain, Goto, Exit
<1> QED BY <1>1, <1>2, <1>3, <1>4 DEF IInv

LEMMA WaitAgainStep == IInv /\ WaitAgain => IInv'
<1> SUFFICES ASSUME IInv, WaitAgain PROVE IInv'
  OBVIOUS
<1>1. TypeOK'
  BY DEF IInv, TypeOK, WaitAgain, Goto, Exit
<1>2. Places'
  BY DEF IInv, Places, WaitAgain, Goto, Exit
<1>3. Keeping'
  BY Excused, Onwards DEF IInv, WaitAgain
<1>4. EndsSettled'
  BY DEF IInv, EndsSettled, WaitAgain, Goto, Exit
<1> QED BY <1>1, <1>2, <1>3, <1>4 DEF IInv

LEMMA VerifyAgainStep == IInv /\ VerifyAgain => IInv'
<1> SUFFICES ASSUME IInv, VerifyAgain PROVE IInv'
  OBVIOUS
<1>1. TypeOK'
  BY DEF IInv, TypeOK, Places, Container, VerifyAgain, Exit, Pass
<1>2. Places'
  BY DEF IInv, Places, VerifyAgain, Exit, Pass
<1>3. Keeping'
  <2>1. Listed(app) /\ app' = app
    BY DEF IInv, Places, VerifyAgain
  <2>2. CASE Pass /\ pc' \in {"idle", "finish"}
    BY <2>1, <2>2 DEF Keeping, Pass
  <2> QED BY <2>2, Excused DEF IInv, VerifyAgain
<1>4. EndsSettled'
  BY DEF IInv, EndsSettled, Places, VerifyAgain, Exit, Pass
<1> QED BY <1>1, <1>2, <1>3, <1>4 DEF IInv

LEMMA KillStep == IInv /\ Kill => IInv'
<1> SUFFICES ASSUME IInv, Kill PROVE IInv'
  OBVIOUS
<1>1. TypeOK'
  <2>1. kills + 1 \in 0..MaxKills
    <3>1. kills \in 0..MaxKills /\ kills < MaxKills
      BY DEF IInv, TypeOK, Kill
    <3> QED BY <3>1, ComposeAssumption
  <2> QED BY <2>1 DEF IInv, TypeOK, Kill
<1>2. Places'
  BY DEF Places, Kill
<1>3. Keeping'
  BY DEF Keeping, Kill
<1>4. EndsSettled'
  BY DEF IInv, EndsSettled, Kill
<1> QED BY <1>1, <1>2, <1>3, <1>4 DEF IInv

LEMMA HealthStep == IInv /\ Health => IInv'
<1> SUFFICES ASSUME IInv, Health PROVE IInv'
  OBVIOUS
<1>0. Listed(app) /\ Listed(app') /\ app # Nothing /\ app' # Nothing /\ app'.image = app.image
  <2>1. app \in Container /\ app # Nothing
    BY DEF IInv, TypeOK, Health
  <2>2. app' \in Container /\ app'.image = app.image /\ app'.state # "created"
    BY <2>1 DEF Health, Container, State
  <2>3. app' # Nothing
    BY <2>2, ComposeAssumption DEF Container, State
  <2> QED BY <2>1, <2>2, <2>3 DEF Health
<1>1. TypeOK'
  <2>1. \A s \in State : [app EXCEPT !.state = s] \in Container
    BY DEF IInv, TypeOK, Health, Container
  <2> QED BY <2>1 DEF IInv, TypeOK, Health, State
<1>2. Places'
  BY <1>0 DEF IInv, Places, Health
<1>3. Keeping'
  BY <1>0 DEF IInv, Keeping, Health
<1>4. EndsSettled'
  BY <1>0 DEF IInv, EndsSettled, Health
<1> QED BY <1>1, <1>2, <1>3, <1>4 DEF IInv

LEMMA InvNext == IInv /\ [Next]_vars => IInv'
<1> SUFFICES ASSUME IInv, [Next]_vars PROVE IInv'
  OBVIOUS
<1>1. CASE Next
  BY <1>1, BeginStep, TagStep, PullStep, UpStep, FindStep, WaitStep, ReadPathStep, VerifyStep,
     FinishStep, UndoStep, UpAgainStep, FindAgainStep, WaitAgainStep, VerifyAgainStep, KillStep, HealthStep DEF Next, Command
<1>2. CASE UNCHANGED vars
  <2>1. TypeOK'
    BY <1>2 DEF vars, IInv, TypeOK
  <2>2. Places'
    BY <1>2 DEF vars, IInv, Places
  <2>3. Keeping'
    BY <1>2 DEF vars, IInv, Keeping
  <2>4. EndsSettled'
    BY <1>2 DEF vars, IInv, EndsSettled
  <2> QED BY <2>1, <2>2, <2>3, <2>4 DEF IInv
<1> QED BY <1>1, <1>2

\* The inductive invariant: which image runs and which one is tagged at every
\* command of the script (docker-deploy-compose.sh:163-214).
THEOREM Invariance == Spec => []IInv
<1> QED BY InvInit, InvNext, PTL DEF Spec

\* While every run was whole, an image that passed all checks runs or is tagged, at
\* every command (docker-deploy-compose.sh:163-170, 210-212).
THEOREM WholeRunsKeep == Spec => []KeptByWholeRuns
<1>1. IInv => KeptByWholeRuns
  <2> SUFFICES ASSUME IInv, ~tainted, proved # {}
               PROVE (app # Nothing /\ Good(app.image)) \/ Good(tag)
    BY DEF KeptByWholeRuns
  <2>1. CASE pc \in {"idle", "tag", "finish"}
    BY <2>1 DEF IInv, Keeping
  <2>2. CASE pc \notin {"idle", "tag", "finish"}
    <3>1. before # Nothing /\ Good(before)
      BY <2>2 DEF IInv, Keeping
    <3>2. tag = before
      BY <2>2, <3>1 DEF IInv, Places
    <3> QED BY <3>1, <3>2
  <2> QED BY <2>1, <2>2
<1> QED BY <1>1, Invariance, PTL

\* A run that says it has deployed runs its own image, and one that says it has
\* restored the image the rollback tag names or its own, and that image has passed
\* the checks; and if the run saw a container at first, the tag is not one that an
\* earlier run has left (docker-deploy-compose.sh:119-167, 214).
THEOREM RunsSettle == Spec => []EndsSettled
<1>1. IInv => EndsSettled
  BY DEF IInv
<1> QED BY <1>1, Invariance, PTL
================================================================================
