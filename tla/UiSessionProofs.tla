--------------------------- MODULE UiSessionProofs ---------------------------
(***************************************************************************)
(* What one window of the app guarantees, whatever profiles and form tests *)
(* there are.                                                              *)
(***************************************************************************)
EXTENDS UiSession, TLAPS

USE DEF profileVars, lockVars, taskVars

(***************************************************************************)
(* Types, and that a dropdown never keeps what its list has lost.          *)
(***************************************************************************)
\* What refresh_db_options leaves behind.
LEMMA RefreshKeepsTypes ==
  ASSUME TypeOK, stored' \in [Profiles -> Row \cup {None}], RefreshProfiles(stored')
  PROVE  /\ listed' \in SUBSET Profiles /\ offered' \in SUBSET Profiles
         /\ source' \in listed' \cup {None} /\ destination' \in offered' \cup {None}
BY DEF TypeOK, RefreshProfiles, Existing, Candidates

\* Every variable keeps to its type, and every selection to the options of its dropdown.
THEOREM TypeCorrect == Spec => []TypeOK
<1>1. Init => TypeOK
  <2> SUFFICES ASSUME Init PROVE TypeOK
    OBVIOUS
  <2>1. switch \in [on : BOOLEAN, disabled : BOOLEAN]
    BY DEF Init
  <2>2. QED
    BY <2>1 DEF Init, TypeOK, Existing, Candidates
<1>2. TypeOK /\ [Next]_vars => TypeOK'
  <2> SUFFICES ASSUME TypeOK, [Next]_vars PROVE TypeOK'
    OBVIOUS
  <2>1. CASE UNCHANGED vars
    BY <2>1 DEF TypeOK, vars
  <2>2. CASE PickSource \/ PickDestination
    BY <2>2 DEF TypeOK, PickSource, PickDestination
  <2>16. CASE FlipSwitch
    <3>1. switch' = [switch EXCEPT !.on = ~switch.on] /\ switch \in [on : BOOLEAN, disabled : BOOLEAN]
      BY <2>16 DEF FlipSwitch, TypeOK
    <3>2. switch' \in [on : BOOLEAN, disabled : BOOLEAN]
      BY <3>1
    <3>3. QED
      BY <2>16, <3>2 DEF TypeOK, FlipSwitch
  <2>3. CASE OpenForm
    <3>1. PICK p \in listed \cup {New} :
            IF p \in Profiles /\ stored[p] = None
            THEN RefreshProfiles(stored) /\ UNCHANGED <<stored, used, form>>
            ELSE form' = p /\ UNCHANGED profileVars
      BY <2>3 DEF OpenForm
    <3>2. UNCHANGED <<testing, rules, lockVars, taskVars>> /\ stored' = stored /\ used' = used
      BY <2>3, <3>1 DEF OpenForm
    <3>3. form' \in Profiles \cup {None, New}
      BY <3>1 DEF TypeOK
    <3>4. CASE RefreshProfiles(stored)
      <4>1. RefreshProfiles(stored')
        BY <3>2, <3>4 DEF RefreshProfiles
      <4>2. QED
        BY <3>2, <3>3, <4>1, RefreshKeepsTypes DEF TypeOK
    <3>5. CASE UNCHANGED profileVars
      BY <3>2, <3>3, <3>5 DEF TypeOK
    <3>6. QED
      BY <3>1, <3>4, <3>5
  <2>4. CASE CloseForm
    BY <2>4 DEF TypeOK, CloseForm
  <2>5. CASE SaveForm
    <3>1. /\ stored' \in [Profiles -> Row \cup {None}] /\ used' \in SUBSET Profiles
          /\ RefreshProfiles(stored')
      <4>1. CASE \E p \in Profiles, row \in Row :
                   /\ stored' = [stored EXCEPT ![p] = row] /\ used' = used \cup {p}
                   /\ RefreshProfiles(stored')
        BY <4>1 DEF TypeOK
      <4>2. CASE RefreshProfiles(stored) /\ UNCHANGED <<stored, used>>
        BY <4>2 DEF TypeOK, RefreshProfiles
      <4>3. QED
        BY <2>5, <4>1, <4>2 DEF SaveForm
    <3>2. form' = None /\ UNCHANGED <<testing, rules, lockVars, taskVars>>
      BY <2>5 DEF SaveForm
    <3>3. QED
      BY <3>1, <3>2, RefreshKeepsTypes DEF TypeOK
  <2>6. CASE DeleteProfile \/ DeleteSSHProfile
    <3>1. stored' \in [Profiles -> Row \cup {None}]
      <4>1. CASE DeleteProfile
        BY <4>1 DEF TypeOK, DeleteProfile
      <4>2. CASE DeleteSSHProfile
        <5>1. \A p \in Existing(stored) : stored[p] \in Row
          BY DEF TypeOK, Existing
        <5>2. \A p \in Existing(stored) : [stored[p] EXCEPT !.reach = "here"] \in Row
          BY <5>1 DEF Row
        <5>3. QED
          BY <4>2, <5>2 DEF TypeOK, DeleteSSHProfile
      <4>3. QED
        BY <2>6, <4>1, <4>2
    <3>2. /\ RefreshProfiles(stored')
          /\ UNCHANGED <<used, form, testing, rules, lockVars, taskVars>>
      BY <2>6 DEF DeleteProfile, DeleteSSHProfile
    <3>3. QED
      BY <3>1, <3>2, RefreshKeepsTypes DEF TypeOK
  <2>7. CASE EditRules \/ SearchRules
    <3>1. rules' \in BOOLEAN /\ switch' = [on |-> rules', disabled |-> ~rules']
      BY <2>7 DEF TypeOK, EditRules, SearchRules, RefreshRules
    <3>2. switch' \in [on : BOOLEAN, disabled : BOOLEAN]
      BY <3>1
    <3>3. QED
      BY <2>7, <3>1, <3>2 DEF TypeOK, EditRules, SearchRules
  <2>8. CASE StartFormTest \/ FormTestEnds
    BY <2>8 DEF TypeOK, StartFormTest, FormTestEnds
  <2>9. CASE StartProbe \/ ProbeEnds \/ ProbeRaises
    BY <2>9 DEF TypeOK, StartProbe, ProbeEnds, ProbeRaises, Lock, Unlock
  <2>10. CASE RefuseGone
    <3>1. UNCHANGED <<stored, used, form, testing, rules, lockVars, taskVars>> /\ RefreshProfiles(stored)
      BY <2>10 DEF RefuseGone
    <3>2. RefreshProfiles(stored')
      BY <3>1 DEF RefreshProfiles
    <3>3. QED
      BY <3>1, <3>2, RefreshKeepsTypes DEF TypeOK
  <2>11. CASE StartRun \/ AskDestination
    <3>1. target' \in [id : Profiles, row : Row]
      BY <2>11 DEF TypeOK, StartRun, AskDestination, EndpointsOk, Candidates, Existing
    <3>2. QED
      BY <2>11, <3>1 DEF TypeOK, StartRun, AskDestination, Begin, Lock, ClearFlag
  <2>12. CASE Overwrite \/ Decline
    BY <2>12 DEF TypeOK, Overwrite, Decline, Begin, Lock, ClearFlag
  <2>13. CASE PressCancel \/ RunEnds
    BY <2>13 DEF TypeOK, PressCancel, RunEnds, Unlock
  <2>14. CASE OtherWindowEdits
    <3>1. stored' \in [Profiles -> Row \cup {None}] /\ rules' \in BOOLEAN
      BY <2>14 DEF TypeOK, OtherWindowEdits
    <3>2. meddled' \in BOOLEAN
      BY <2>14, Zenon DEF TypeOK, OtherWindowEdits
    <3>3. UNCHANGED <<used, listed, offered, source, destination, form, testing,
                      lockVars, probe, transfer, target, stop, refused>>
      BY <2>14 DEF OtherWindowEdits
    <3>4. QED
      BY <3>1, <3>2, <3>3 DEF TypeOK
  <2>15. QED
    BY <2>1, <2>2, <2>3, <2>4, <2>5, <2>6, <2>7, <2>8, <2>9, <2>10, <2>11, <2>12, <2>13, <2>14,
       <2>16
       DEF Next
<1>3. QED
  BY <1>1, <1>2, PTL DEF Spec

(***************************************************************************)
(* The lock.  It is its own inductive invariant: what starts a task needs  *)
(* the buttons, and what gives them back ends the only task there is.      *)
(***************************************************************************)
Tasks == OneTaskAtATime /\ CancelIsForThisRun

\* The actions that touch neither the lock nor a task.
LEMMA TasksUntouched ==
  ASSUME Tasks, UNCHANGED <<locked, cancel, stop, probe, transfer>>
  PROVE  Tasks'
BY DEF Tasks, OneTaskAtATime, CancelIsForThisRun

\* The two of them hold together, beside the types.
LEMMA TasksInv == Spec => [](TypeOK /\ Tasks)
<1>1. Init => Tasks
  BY DEF Init, Tasks, OneTaskAtATime, CancelIsForThisRun
<1>2. TypeOK /\ Tasks /\ [Next]_vars => Tasks'
  <2> SUFFICES ASSUME TypeOK, Tasks, [Next]_vars PROVE Tasks'
    OBVIOUS
  <2> USE DEF Tasks, OneTaskAtATime, CancelIsForThisRun
  <2>1. CASE UNCHANGED vars
    BY <2>1, TasksUntouched DEF vars
  <2>2. CASE PickSource \/ PickDestination \/ FlipSwitch
    BY <2>2, TasksUntouched DEF PickSource, PickDestination, FlipSwitch
  <2>3. CASE OpenForm \/ CloseForm \/ SaveForm
    BY <2>3, TasksUntouched DEF OpenForm, CloseForm, SaveForm
  <2>4. CASE DeleteProfile \/ DeleteSSHProfile \/ EditRules \/ SearchRules
    BY <2>4, TasksUntouched DEF DeleteProfile, DeleteSSHProfile, EditRules, SearchRules
  <2>5. CASE StartFormTest \/ FormTestEnds
    BY <2>5, TasksUntouched DEF StartFormTest, FormTestEnds
  <2>6. CASE StartProbe
    BY <2>6 DEF TypeOK, StartProbe, Pressable, Reachable, Lock
  <2>7. CASE ProbeEnds \/ ProbeRaises
    BY <2>7 DEF ProbeEnds, ProbeRaises, Unlock
  <2>8. CASE RefuseGone \/ OtherWindowEdits
    BY <2>8, TasksUntouched DEF RefuseGone, OtherWindowEdits
  <2>9. CASE StartRun
    BY <2>9 DEF StartRun, Pressable, Begin, ClearFlag, Lock
  <2>10. CASE AskDestination
    BY <2>10 DEF AskDestination, Pressable
  <2>11. CASE Overwrite
    BY <2>11 DEF Overwrite, Begin, ClearFlag, Lock
  <2>12. CASE Decline
    BY <2>12 DEF Decline
  <2>13. CASE PressCancel
    BY <2>13 DEF PressCancel
  <2>14. CASE RunEnds
    BY <2>14 DEF RunEnds, Unlock
  <2>15. QED
    BY <2>1, <2>2, <2>3, <2>4, <2>5, <2>6, <2>7, <2>8, <2>9, <2>10, <2>11, <2>12, <2>13, <2>14
       DEF Next
<1>3. QED
  BY <1>1, <1>2, TypeCorrect, PTL DEF Spec

\* A task that works has the buttons locked, and there is never a second one
\* (app.py:387-397, 424).
THEOREM TasksExclude == Spec => []OneTaskAtATime
<1>1. Tasks => OneTaskAtATime
  BY DEF Tasks
<1>2. QED
  BY <1>1, TasksInv, PTL

\* A run stops for its own Cancel and for no other (app.py:434, 1467).
THEOREM CancelIsHeard == Spec => []CancelIsForThisRun
<1>1. Tasks => CancelIsForThisRun
  BY DEF Tasks
<1>2. QED
  BY <1>1, TasksInv, PTL

(***************************************************************************)
(* What the user is asked about is what the run then writes to: while the  *)
(* question is open nothing else of this window can be reached, and what   *)
(* another window does meanwhile is remembered.                            *)
(***************************************************************************)
AskedIsStored ==
  /\ transfer = "asked" /\ ~meddled =>
       /\ form = None
       /\ stored[target.id] = target.row /\ ~target.row.production
  /\ transfer = "asked" => form = None
  /\ meddled => transfer = "asked"

\* Only AskDestination begins the question, and what can happen before the answer
\* leaves the form and the target alone, and the profiles but for another window.
LEMMA AskedInv == Spec => []AskedIsStored
<1>1. Init => AskedIsStored
  BY DEF Init, AskedIsStored
<1>2. AskedIsStored /\ [Next]_vars => AskedIsStored'
  <2> SUFFICES ASSUME AskedIsStored, [Next]_vars PROVE AskedIsStored'
    OBVIOUS
  <2>1. CASE transfer = "asked"
    <3>1. form = None /\ ~Reachable
      BY <2>1 DEF AskedIsStored, Reachable
    <3>2. CASE UNCHANGED vars
      BY <3>2 DEF vars, AskedIsStored
    <3>3. CASE Next
      <4>1. ~(SaveForm \/ CloseForm \/ StartFormTest)
        BY <3>1 DEF SaveForm, CloseForm, StartFormTest
      <4>2. ~(PickSource \/ PickDestination \/ FlipSwitch \/ OpenForm \/ DeleteProfile
              \/ DeleteSSHProfile \/ EditRules \/ SearchRules)
        BY <3>1 DEF Pressable, PickSource, PickDestination, FlipSwitch, OpenForm, DeleteProfile,
          DeleteSSHProfile, EditRules, SearchRules
      <4>3. ~(StartProbe \/ RefuseGone \/ StartRun \/ AskDestination \/ PressCancel)
        BY <3>1 DEF Pressable, StartProbe, RefuseGone, StartRun, AskDestination, PressCancel
      <4>4. CASE FormTestEnds \/ ProbeEnds \/ ProbeRaises
        BY <4>4 DEF FormTestEnds, ProbeEnds, ProbeRaises, AskedIsStored
      <4>5. CASE Overwrite \/ Decline \/ RunEnds
        BY <2>1, <4>5 DEF Overwrite, Decline, RunEnds, Begin, AskedIsStored
      <4>6. CASE OtherWindowEdits
        BY <2>1, <4>6 DEF OtherWindowEdits, AskedIsStored
      <4>7. QED
        BY <3>3, <4>1, <4>2, <4>3, <4>4, <4>5, <4>6 DEF Next
    <3>4. QED
      BY <3>2, <3>3
  <2>2. CASE transfer # "asked"
    <3>1. ~meddled
      BY <2>2 DEF AskedIsStored
    <3>2. CASE AskDestination
      <4>1. target'.id = destination /\ target'.row = stored[destination]
        BY <3>2 DEF AskDestination
      <4>2. QED
        BY <3>1, <3>2, <4>1 DEF AskedIsStored, AskDestination, Pressable, Reachable, EndpointsOk, Candidates
    <3>3. CASE ~AskDestination
      <4>1. ~meddled'
        <5>1. CASE OtherWindowEdits
          BY <2>2, <3>1, <5>1, Zenon DEF OtherWindowEdits
        <5>2. CASE Overwrite \/ Decline
          BY <5>2 DEF Overwrite, Decline
        <5>3. CASE ~(OtherWindowEdits \/ Overwrite \/ Decline)
          <6>1. meddled' = meddled
            BY <3>3, <5>3 DEF Next, vars, PickSource, PickDestination, FlipSwitch, OpenForm,
              CloseForm, SaveForm, DeleteProfile, DeleteSSHProfile, EditRules, SearchRules,
              StartFormTest, FormTestEnds, StartProbe, ProbeEnds, ProbeRaises, RefuseGone,
              StartRun, PressCancel, RunEnds
          <6>2. QED
            BY <3>1, <6>1
        <5>4. QED
          BY <5>1, <5>2, <5>3
      <4>2. transfer' # "asked"
        BY <2>2, <3>3 DEF Next, vars, PickSource, PickDestination, FlipSwitch, OpenForm,
          CloseForm, SaveForm, DeleteProfile, DeleteSSHProfile, EditRules, SearchRules,
          StartFormTest, FormTestEnds, StartProbe, ProbeEnds, ProbeRaises, RefuseGone,
          StartRun, Overwrite, Decline, Begin, PressCancel, RunEnds, OtherWindowEdits
      <4>3. QED
        BY <4>1, <4>2 DEF AskedIsStored
    <3>4. QED
      BY <3>2, <3>3
  <2>3. QED
    BY <2>1, <2>2
<1>3. QED
  BY <1>1, <1>2, PTL DEF Spec

\* Unless another window meddles while the question is open, a run writes to the
\* destination that storage holds when it starts, never to one marked as production, and
\* only after a question if it is elsewhere (app.py:1184-1216, 1309-1327).
THEOREM StartsAsStored == Spec => RunStartsAsStored
<1> DEFINE Starts ==
      transfer # "running" /\ transfer' = "running" /\ ~meddled =>
        /\ stored[target'.id] = target'.row /\ ~target'.row.production
        /\ transfer = "asked" \/ target'.row.reach = "here"
<1>1. AskedIsStored /\ [Next]_vars => [Starts]_vars
  <2> SUFFICES ASSUME AskedIsStored, Next, transfer # "running", transfer' = "running", ~meddled
               PROVE  /\ stored[target'.id] = target'.row /\ ~target'.row.production
                      /\ transfer = "asked" \/ target'.row.reach = "here"
    OBVIOUS
  <2>1. StartRun \/ Overwrite
    BY DEF Next, PickSource, PickDestination, FlipSwitch, OpenForm, CloseForm,
      SaveForm, DeleteProfile, DeleteSSHProfile, EditRules, SearchRules, StartFormTest,
      FormTestEnds, StartProbe, ProbeEnds, ProbeRaises, RefuseGone,
      AskDestination, Decline, PressCancel, RunEnds, OtherWindowEdits
  <2>2. CASE StartRun
    <3>1. target'.id = destination /\ target'.row = stored[destination]
      BY <2>2 DEF StartRun
    <3>2. QED
      BY <2>2, <3>1 DEF StartRun, EndpointsOk, Candidates, IsLocal
  <2>3. CASE Overwrite
    BY <2>3 DEF Overwrite, AskedIsStored
  <2>4. QED
    BY <2>1, <2>2, <2>3
<1>2. QED
  BY <1>1, AskedInv, PTL DEF Spec, RunStartsAsStored
=============================================================================
