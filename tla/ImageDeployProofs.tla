--------------------------- MODULE ImageDeployProofs ---------------------------
(***************************************************************************)
(* Proofs about ImageDeploy, for every number of runs and of kills.        *)
(***************************************************************************)
EXTENDS ImageDeploy, TLAPS

USE DEF Container, State, Phase, Running, Good, Kept, Found, host, history

LEMMA InvInit == Init => IInv
<1> SUFFICES ASSUME Init PROVE IInv
  OBVIOUS
<1>1. TypeOK
  <2>1. 0 \in 0..MaxRuns /\ 0 \in 0..MaxKills
    BY DeployAssumption
  <2>2. \A s \in State : [id |-> 0, state |-> s] \in Container
    BY <2>1
  <2>3. main \in Container \cup {Nothing}
    BY <2>2 DEF Init
  <2> QED BY <2>1, <2>3 DEF Init, TypeOK
<1>2. Places
  BY DEF Init, Places
<1>3. Keeping
  <2>1. CASE main = Nothing
    BY <2>1 DEF Init, Keeping
  <2>2. CASE main # Nothing
    <3>1. main.id = 0 /\ proved = {0}
      BY <2>2 DEF Init
    <3> QED BY <2>2, <3>1 DEF Init, Keeping
  <2> QED BY <2>1, <2>2
<1>4. EndsSettled
  BY DEF Init, EndsSettled
<1> QED BY <1>1, <1>2, <1>3, <1>4 DEF IInv

LEMMA BeginStep == IInv /\ Begin => IInv'
<1> SUFFICES ASSUME IInv, Begin PROVE IInv'
  OBVIOUS
<1>1. TypeOK'
  <2>1. run' \in 0..MaxRuns
    BY DeployAssumption DEF IInv, TypeOK, Begin
  <2> QED BY <2>1 DEF IInv, TypeOK, Begin
<1>2. Places'
  BY DeployAssumption DEF IInv, TypeOK, Begin, Goto, Exit, Places
<1>3. Keeping'
  BY DeployAssumption DEF IInv, TypeOK, Begin, Goto, Exit, Places, Keeping
<1>4. EndsSettled'
  BY DeployAssumption DEF IInv, TypeOK, Begin, Goto, Exit, Places, Keeping, EndsSettled
<1> QED BY <1>1, <1>2, <1>3, <1>4 DEF IInv

LEMMA DropSpareStep == IInv /\ DropSpare => IInv'
<1> SUFFICES ASSUME IInv, DropSpare PROVE IInv'
  OBVIOUS
<1>1. TypeOK'
  BY DeployAssumption DEF IInv, TypeOK, DropSpare, Goto, Exit, Places
<1>2. Places'
  BY DeployAssumption DEF IInv, TypeOK, DropSpare, Goto, Exit, Places
<1>3. Keeping'
  BY DeployAssumption DEF IInv, TypeOK, DropSpare, Goto, Exit, Places, Keeping
<1>4. EndsSettled'
  BY DeployAssumption DEF IInv, TypeOK, DropSpare, Goto, Exit, Places, Keeping, EndsSettled
<1> QED BY <1>1, <1>2, <1>3, <1>4 DEF IInv

LEMMA LookStep == IInv /\ Look => IInv'
<1> SUFFICES ASSUME IInv, Look PROVE IInv'
  OBVIOUS
<1>1. TypeOK'
  BY DeployAssumption DEF IInv, TypeOK, Look, Goto, Exit, Overlook, Places
<1>2. Places'
  BY DeployAssumption DEF IInv, TypeOK, Look, Goto, Exit, Overlook, Places
<1>3. Keeping'
  BY DeployAssumption DEF IInv, TypeOK, Look, Goto, Exit, Overlook, Places, Keeping
<1>4. EndsSettled'
  BY DeployAssumption DEF IInv, TypeOK, Look, Goto, Exit, Overlook, Places, Keeping, EndsSettled
<1> QED BY <1>1, <1>2, <1>3, <1>4 DEF IInv

LEMMA StopStep == IInv /\ Stop => IInv'
<1> SUFFICES ASSUME IInv, Stop PROVE IInv'
  OBVIOUS
<1>1. TypeOK'
  BY DeployAssumption DEF IInv, TypeOK, Stop, Goto, Exit, Places
<1>2. Places'
  BY DeployAssumption DEF IInv, TypeOK, Stop, Goto, Exit, Places
<1>3. Keeping'
  BY DeployAssumption DEF IInv, TypeOK, Stop, Goto, Exit, Places, Keeping
<1>4. EndsSettled'
  BY DeployAssumption DEF IInv, TypeOK, Stop, Goto, Exit, Places, Keeping, EndsSettled
<1> QED BY <1>1, <1>2, <1>3, <1>4 DEF IInv

LEMMA RenameStep == IInv /\ Rename => IInv'
<1> SUFFICES ASSUME IInv, Rename PROVE IInv'
  OBVIOUS
<1>1. TypeOK'
  BY DeployAssumption DEF IInv, TypeOK, Rename, Goto, Exit, Places
<1>2. Places'
  BY DeployAssumption DEF IInv, TypeOK, Rename, Goto, Exit, Places
<1>3. Keeping'
  <2>1. CASE Exit("aborted")
    BY <2>1 DEF Exit, Keeping
  <2>2. CASE Goto("start")
    BY <2>2 DEF IInv, Places, Rename, Goto, Exit, Keeping
  <2> QED BY <2>1, <2>2 DEF Rename
<1>4. EndsSettled'
  BY DeployAssumption DEF IInv, TypeOK, Rename, Goto, Exit, Places, Keeping, EndsSettled
<1> QED BY <1>1, <1>2, <1>3, <1>4 DEF IInv

LEMMA StartStep == IInv /\ Start => IInv'
<1> SUFFICES ASSUME IInv, Start PROVE IInv'
  OBVIOUS
<1> DEFINE new(s) == [id |-> run, state |-> s]
<1>0. ASSUME NEW s \in State
      PROVE  new(s) # Nothing /\ new(s).id = run /\ new(s).state = s /\ new(s) \in Container
  BY DeployAssumption DEF IInv, TypeOK
<1>s. "starting" \in State /\ "stopped" \in State
  OBVIOUS
<1>h. spare' = spare /\ run' = run /\ kills' = kills /\ result' = result /\ before' = before
      /\ proved' = proved /\ blind' = blind /\ tainted' = tainted /\ pc = "start"
      /\ pc' \in {"wait", "undo"}
  BY DEF Start, Goto
<1>c. \/ main = Nothing /\ main' = new("starting")
      \/ main = Nothing /\ main' = new("stopped") /\ pc' = "undo"
      \/ main' = main /\ pc' = "undo"
  BY DEF Start, Goto
<1> HIDE DEF new
<1>1. TypeOK'
  BY <1>0, <1>s, <1>h, <1>c DEF IInv, TypeOK
<1>2. Places'
  <2>1. CASE pc' = "wait"
    <3>1. main' # Nothing /\ main'.id = run' /\ main'.state = "starting" /\ ~blind
      BY <1>0, <1>s, <1>h, <1>c, <2>1 DEF IInv, Places
    <3> QED BY <1>h, <2>1, <3>1 DEF IInv, Places
  <2>2. CASE pc' = "undo"
    BY <1>h, <2>2 DEF IInv, Places
  <2> QED BY <1>h, <2>1, <2>2
<1>3. Keeping'
  <2>1. ~tainted /\ proved # {} => Good(Kept)'
    BY <1>h DEF IInv, Keeping
  <2>2. before # Nothing => Found' # Nothing /\ Found'.id = before.id
    <3>1. CASE blind
      <4>1. main # Nothing
        BY <1>h, <3>1 DEF IInv, Places
      <4> QED BY <1>h, <1>c, <3>1, <4>1 DEF IInv, Keeping
    <3>2. CASE ~blind
      BY <1>h, <3>2 DEF IInv, Keeping
    <3> QED BY <3>1, <3>2
  <2> QED BY <1>h, <2>1, <2>2 DEF Keeping
<1>4. EndsSettled'
  BY <1>h DEF EndsSettled
<1> QED BY <1>1, <1>2, <1>3, <1>4 DEF IInv

LEMMA WaitStep == IInv /\ Wait => IInv'
<1> SUFFICES ASSUME IInv, Wait PROVE IInv'
  OBVIOUS
<1>1. TypeOK'
  BY DeployAssumption DEF IInv, TypeOK, Wait, Goto, Exit, Places
<1>2. Places'
  BY DeployAssumption DEF IInv, TypeOK, Wait, Goto, Exit, Places
<1>3. Keeping'
  <2>1. CASE Exit("aborted")
    BY <2>1 DEF Exit, Keeping
  <2>2. CASE pc' # "idle"
    BY <2>2 DEF IInv, Places, Wait, Goto, Exit, Keeping
  <2> QED BY <2>1, <2>2 DEF Wait, Goto
<1>4. EndsSettled'
  BY DeployAssumption DEF IInv, TypeOK, Wait, Goto, Exit, Places, Keeping, EndsSettled
<1> QED BY <1>1, <1>2, <1>3, <1>4 DEF IInv

LEMMA ReadPathStep == IInv /\ ReadPath => IInv'
<1> SUFFICES ASSUME IInv, ReadPath PROVE IInv'
  OBVIOUS
<1>1. TypeOK'
  BY DeployAssumption DEF IInv, TypeOK, ReadPath, Goto, Exit, Places
<1>2. Places'
  BY DeployAssumption DEF IInv, TypeOK, ReadPath, Goto, Exit, Places
<1>3. Keeping'
  <2>1. CASE Exit("aborted")
    BY <2>1 DEF Exit, Keeping
  <2>2. CASE pc' # "idle"
    BY <2>2 DEF IInv, Places, ReadPath, Goto, Exit, Keeping
  <2> QED BY <2>1, <2>2 DEF ReadPath, Goto
<1>4. EndsSettled'
  BY DeployAssumption DEF IInv, TypeOK, ReadPath, Goto, Exit, Places, Keeping, EndsSettled
<1> QED BY <1>1, <1>2, <1>3, <1>4 DEF IInv

LEMMA VerifyStep == IInv /\ Verify => IInv'
<1> SUFFICES ASSUME IInv, Verify PROVE IInv'
  OBVIOUS
<1>1. TypeOK'
  BY DeployAssumption DEF IInv, TypeOK, Verify, Goto, Exit, Places
<1>2. Places'
  BY DeployAssumption DEF IInv, TypeOK, Verify, Goto, Exit, Places
<1>3. Keeping'
  BY DeployAssumption DEF IInv, TypeOK, Verify, Goto, Exit, Places, Keeping
<1>4. EndsSettled'
  BY DeployAssumption DEF IInv, TypeOK, Verify, Goto, Exit, Places, Keeping, EndsSettled
<1> QED BY <1>1, <1>2, <1>3, <1>4 DEF IInv

LEMMA FinishStep == IInv /\ Finish => IInv'
<1> SUFFICES ASSUME IInv, Finish PROVE IInv'
  OBVIOUS
<1>1. TypeOK'
  BY DeployAssumption DEF IInv, TypeOK, Finish, Goto, Exit, Places
<1>2. Places'
  BY DeployAssumption DEF IInv, TypeOK, Finish, Goto, Exit, Places
<1>3. Keeping'
  BY DeployAssumption DEF IInv, TypeOK, Finish, Goto, Exit, Places, Keeping
<1>4. EndsSettled'
  BY DeployAssumption DEF IInv, TypeOK, Finish, Goto, Exit, Places, Keeping, EndsSettled
<1> QED BY <1>1, <1>2, <1>3, <1>4 DEF IInv

LEMMA UndoStep == IInv /\ Undo => IInv'
<1> SUFFICES ASSUME IInv, Undo PROVE IInv'
  OBVIOUS
<1>1. TypeOK'
  BY DeployAssumption DEF IInv, TypeOK, Undo, Goto, Exit, Overlook, Places
<1>2. Places'
  BY DeployAssumption DEF IInv, TypeOK, Undo, Goto, Exit, Overlook, Places
<1>3. Keeping'
  BY DeployAssumption DEF IInv, TypeOK, Undo, Goto, Exit, Overlook, Places, Keeping
<1>4. EndsSettled'
  BY DeployAssumption DEF IInv, TypeOK, Undo, Goto, Exit, Overlook, Places, Keeping, EndsSettled
<1> QED BY <1>1, <1>2, <1>3, <1>4 DEF IInv

LEMMA ClearStep == IInv /\ Clear => IInv'
<1> SUFFICES ASSUME IInv, Clear PROVE IInv'
  OBVIOUS
<1>1. TypeOK'
  BY DeployAssumption DEF IInv, TypeOK, Clear, Goto, Exit, Places
<1>2. Places'
  BY DeployAssumption DEF IInv, TypeOK, Clear, Goto, Exit, Places
<1>3. Keeping'
  BY DeployAssumption DEF IInv, TypeOK, Clear, Goto, Exit, Places, Keeping
<1>4. EndsSettled'
  BY DeployAssumption DEF IInv, TypeOK, Clear, Goto, Exit, Places, Keeping, EndsSettled
<1> QED BY <1>1, <1>2, <1>3, <1>4 DEF IInv

LEMMA RestoreStep == IInv /\ Restore => IInv'
<1> SUFFICES ASSUME IInv, Restore PROVE IInv'
  OBVIOUS
<1>1. TypeOK'
  BY DeployAssumption DEF IInv, TypeOK, Restore, Goto, Exit, Places
<1>2. Places'
  BY DeployAssumption DEF IInv, TypeOK, Restore, Goto, Exit, Places
<1>3. Keeping'
  BY DeployAssumption DEF IInv, TypeOK, Restore, Goto, Exit, Places, Keeping
<1>4. EndsSettled'
  BY DeployAssumption DEF IInv, TypeOK, Restore, Goto, Exit, Places, Keeping, EndsSettled
<1> QED BY <1>1, <1>2, <1>3, <1>4 DEF IInv

LEMMA RestartStep == IInv /\ Restart => IInv'
<1> SUFFICES ASSUME IInv, Restart PROVE IInv'
  OBVIOUS
<1>1. TypeOK'
  BY DeployAssumption DEF IInv, TypeOK, Restart, Goto, Exit, Places
<1>2. Places'
  BY DeployAssumption DEF IInv, TypeOK, Restart, Goto, Exit, Places
<1>3. Keeping'
  BY DeployAssumption DEF IInv, TypeOK, Restart, Goto, Exit, Places, Keeping
<1>4. EndsSettled'
  BY DeployAssumption DEF IInv, TypeOK, Restart, Goto, Exit, Places, Keeping, EndsSettled
<1> QED BY <1>1, <1>2, <1>3, <1>4 DEF IInv

LEMMA KillStep == IInv /\ Kill => IInv'
<1> SUFFICES ASSUME IInv, Kill PROVE IInv'
  OBVIOUS
<1>1. TypeOK'
  BY DeployAssumption DEF IInv, TypeOK, Kill, Goto, Exit, Places
<1>2. Places'
  BY DeployAssumption DEF IInv, TypeOK, Kill, Goto, Exit, Places
<1>3. Keeping'
  BY DeployAssumption DEF IInv, TypeOK, Kill, Goto, Exit, Places, Keeping
<1>4. EndsSettled'
  BY DeployAssumption DEF IInv, TypeOK, Kill, Goto, Exit, Places, Keeping, EndsSettled
<1> QED BY <1>1, <1>2, <1>3, <1>4 DEF IInv

LEMMA HealthStep == IInv /\ Health => IInv'
<1> SUFFICES ASSUME IInv, Health PROVE IInv'
  OBVIOUS
<1>1. TypeOK'
  BY DeployAssumption DEF IInv, TypeOK, Health, Goto, Exit, Places
<1>2. Places'
  BY DeployAssumption DEF IInv, TypeOK, Health, Goto, Exit, Places
<1>3. Keeping'
  BY DeployAssumption DEF IInv, TypeOK, Health, Goto, Exit, Places, Keeping
<1>4. EndsSettled'
  BY DeployAssumption DEF IInv, TypeOK, Health, Goto, Exit, Places, Keeping, EndsSettled
<1> QED BY <1>1, <1>2, <1>3, <1>4 DEF IInv

LEMMA InvNext == IInv /\ [Next]_vars => IInv'
<1>1. CASE Next
  BY <1>1, BeginStep, DropSpareStep, LookStep, StopStep, RenameStep, StartStep, WaitStep, ReadPathStep,
     VerifyStep, FinishStep, UndoStep, ClearStep, RestoreStep, RestartStep, KillStep, HealthStep DEF Next, Command
<1>2. CASE UNCHANGED vars
  BY <1>2 DEF vars, IInv, TypeOK, Places, Keeping, EndsSettled
<1> QED BY <1>1, <1>2

\* The inductive invariant: where each container is at every command of the
\* script, and that the one to go back to is kept there.
THEOREM Invariance == Spec => []IInv
<1> QED BY InvInit, InvNext, PTL DEF Spec

\* Two containers never run at once, whatever is killed and whatever fails.
THEOREM OnlyOneRuns == Spec => []OneRuns
<1>1. IInv => OneRuns
  BY DEF IInv, Places, OneRuns
<1> QED BY <1>1, Invariance, PTL

\* Runs that are not cut short and overlook no container never delete the last
\* one that works.
THEOREM WholeRunsKeep == Spec => []KeptByWholeRuns
<1>1. IInv => KeptByWholeRuns
  BY DEF IInv, Keeping, KeptByWholeRuns, KnownGoodKept
<1> QED BY <1>1, Invariance, PTL

\* A run that came to its own end leaves a proved container, or the old one; one
\* that overlooked a container has not deleted the old one when it says failed.
THEOREM RunsSettle == Spec => []EndsSettled
<1>1. IInv => EndsSettled
  BY DEF IInv
<1> QED BY <1>1, Invariance, PTL
================================================================================
