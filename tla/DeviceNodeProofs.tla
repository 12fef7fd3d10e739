-------------------------- MODULE DeviceNodeProofs --------------------------
(***************************************************************************)
(* Proofs about DeviceNode: types, and that a node stays gone, or stays,   *)
(* after whatever the task and the scripts do.                             *)
(*                                                                         *)
(* Why an uninstalled node stays gone: uninstall.ps1 is past its first     *)
(* step only without a task, and past its second only without a copy, so   *)
(* with no process of the task that has got beyond its launch (an          *)
(* executable in use cannot be deleted).  From there on it is the only one *)
(* that can hold or create a node.                                         *)
(***************************************************************************)
EXTENDS DeviceNode, TLAPS

LEMMA Scripts ==
  /\ DOMAIN Steps = {"install", "uninstall", "update", "create", "remove"}
  /\ Steps["install"] = InstallSteps /\ Steps["uninstall"] = UninstallSteps
  /\ Steps["update"] = UpdateSteps
  /\ Steps["create"] = <<"install-device">> /\ Steps["remove"] = <<"remove-device">>
  BY DEF Steps

LEMMA Lengths ==
  /\ DOMAIN Steps = {"install", "uninstall", "update", "create", "remove"}
  /\ Len(Steps["install"]) = 4 /\ Len(Steps["uninstall"]) = 3
  /\ Len(Steps["update"]) = 3 /\ Len(Steps["create"]) = 1 /\ Len(Steps["remove"]) = 1
  BY Scripts DEF InstallSteps, UninstallSteps, UpdateSteps

\* The script and the step in which a caller creates, or removes, the node.
AtInstall ==
  \/ running = "install" /\ at = 2
  \/ running = "update" /\ at = 3
  \/ running = "create" /\ at = 1

AtRemove ==
  \/ running = "uninstall" /\ at = 3
  \/ running = "update" /\ at = 2
  \/ running = "remove" /\ at = 1

Scripted == running \in {"none"} \cup DOMAIN Steps /\ at \in 0 .. Length + 1

LEMMA DoingIs ==
  ASSUME Scripted
  PROVE  /\ Doing("install-device") <=> AtInstall
         /\ Doing("remove-device") <=> AtRemove
         /\ Doing("stage") <=> running \in {"install", "update"} /\ at = 1
         /\ Doing("copy") <=> running = "install" /\ at = 3
         /\ Doing("register") <=> running = "install" /\ at = 4
         /\ Doing("unregister") <=> running = "uninstall" /\ at = 1
         /\ Doing("delete-copy") <=> running = "uninstall" /\ at = 2
<1>1. CASE running = "none"
  BY <1>1 DEF Doing, Length, AtInstall, AtRemove
<1>2. CASE running = "install"
  <2>1. Length = 4 BY <1>2, Lengths DEF Length
  <2>2. at \in {0, 1, 2, 3, 4, 5} BY <2>1 DEF Scripted
  <2>3. \A step : Doing(step) <=>
          \/ at = 1 /\ step = "stage"
          \/ at = 2 /\ step = "install-device"
          \/ at = 3 /\ step = "copy"
          \/ at = 4 /\ step = "register"
    BY <1>2, <2>1, <2>2, Scripts DEF Doing, InstallSteps
  <2> QED BY <1>2, <2>2, <2>3 DEF AtInstall, AtRemove
<1>3. CASE running = "uninstall"
  <2>1. Length = 3 BY <1>3, Lengths DEF Length
  <2>2. at \in {0, 1, 2, 3, 4} BY <2>1 DEF Scripted
  <2>3. \A step : Doing(step) <=>
          \/ at = 1 /\ step = "unregister"
          \/ at = 2 /\ step = "delete-copy"
          \/ at = 3 /\ step = "remove-device"
    BY <1>3, <2>1, <2>2, Scripts DEF Doing, UninstallSteps
  <2> QED BY <1>3, <2>2, <2>3 DEF AtInstall, AtRemove
<1>4. CASE running = "update"
  <2>1. Length = 3 BY <1>4, Lengths DEF Length
  <2>2. at \in {0, 1, 2, 3, 4} BY <2>1 DEF Scripted
  <2>3. \A step : Doing(step) <=>
          \/ at = 1 /\ step = "stage"
          \/ at = 2 /\ step = "remove-device"
          \/ at = 3 /\ step = "install-device"
    BY <1>4, <2>1, <2>2, Scripts DEF Doing, UpdateSteps
  <2> QED BY <1>4, <2>2, <2>3 DEF AtInstall, AtRemove
<1>5. CASE running \in {"create", "remove"}
  <2>1. Length = 1 BY <1>5, Lengths DEF Length
  <2>2. at \in {0, 1, 2} BY <2>1 DEF Scripted
  <2>3. \A step : Doing(step) <=> at = 1 /\ Steps[running][1] = step
    BY <1>5, <2>1, <2>2, Scripts DEF Doing
  <2> QED BY <1>5, <2>2, <2>3, Scripts DEF AtInstall, AtRemove
<1> QED BY <1>1, <1>2, <1>3, <1>4, <1>5, Scripts DEF Scripted

-----------------------------------------------------------------------------
(* Types.                                                                   *)

Places == {"idle", "launch", "create", "wait", "apply", "done", "failed"}
Open == {"wait", "apply", "done", "failed"}

\* The administrator is inside SetDeviceLifetime only at a step that calls it,
\* and is not started by the scheduler.
AdminCalls ==
  /\ pc["Admin"] # "launch"
  /\ pc["Admin"] # "idle" => AtInstall \/ AtRemove

TypeInv == TypeOK /\ AdminCalls

LEMMA HoldersAre ==
  /\ Holders # {} <=> pc["Admin"] \in Open \/ pc["Task"] \in Open
  /\ (Holders # {})' <=> pc'["Admin"] \in Open \/ pc'["Task"] \in Open
  /\ Holders \subseteq {"Admin"} <=> pc["Task"] \notin Open
  /\ Holders \subseteq {"Task"} <=> pc["Admin"] \notin Open
<1>1. \A c : c \in Holders <=> c \in {"Admin", "Task"} /\ pc[c] \in Open
  BY DEF Holders, Callers, Open
<1>2. \A c : c \in Holders' <=> c \in {"Admin", "Task"} /\ pc'[c] \in Open
  BY DEF Holders, Callers, Open
<1> QED BY <1>1, <1>2

LEMMA LengthIs ==
  ASSUME Scripted
  PROVE  /\ Length \in Nat
         /\ running = "none" => Length = 0
         /\ running = "install" => Length = 4
         /\ running \in {"uninstall", "update"} => Length = 3
         /\ running \in {"create", "remove"} => Length = 1
  BY Lengths DEF Scripted, Length

LEMMA LengthIsNext ==
  ASSUME running' \in {"none"} \cup DOMAIN Steps
  PROVE  /\ Length' \in Nat
         /\ running' = "none" => Length' = 0
         /\ running' = "install" => Length' = 4
         /\ running' \in {"uninstall", "update"} => Length' = 3
         /\ running' \in {"create", "remove"} => Length' = 1
  BY Lengths DEF Length

\* What the conjuncts of TypeOK and AdminCalls say of the next state, in terms of
\* the callers' places.
LEMMA TypeNext ==
  ASSUME node' \in {"absent", "handle", "parent"},
         pc' \in [Callers -> Places], task' \in BOOLEAN, copy' \in BOOLEAN,
         running' \in {"none"} \cup DOMAIN Steps, at' \in 0 .. (Length' + 1),
         result' \in {"none", "installed", "removed", "uninstalled"},
         node' = "handle" => pc'["Admin"] \in Open \/ pc'["Task"] \in Open,
         AdminCalls'
  PROVE  TypeInv'
<1>1. node' = "handle" => Holders' # {} BY HoldersAre
<1> QED BY <1>1 DEF TypeInv, TypeOK, Places, Lifetimes

LEMMA TypeFacts ==
  ASSUME TypeInv
  PROVE  /\ Scripted
         /\ node \in {"absent", "handle", "parent"} /\ pc \in [Callers -> Places]
         /\ "Admin" \in Callers /\ "Task" \in Callers
         /\ node = "handle" => pc["Admin"] \in Open \/ pc["Task"] \in Open
  BY HoldersAre DEF TypeInv, TypeOK, Scripted, Places, Lifetimes, Callers

LEMMA TypeInit == Init => TypeInv
<1> SUFFICES ASSUME Init PROVE TypeInv
  OBVIOUS
<1>1. Length = 0 BY DEF Init, Length
<1>2. pc["Admin"] = "idle" /\ pc \in [Callers -> Places]
  BY DEF Init, Callers, Places
<1>3. node = "absent" /\ running = "none" /\ at = 0 /\ result = "none"
  BY DEF Init
<1>4. task \in BOOLEAN /\ copy \in BOOLEAN BY DEF Init
<1>5. TypeOK
  BY <1>1, <1>2, <1>3, <1>4 DEF TypeOK, Places
<1> QED BY <1>2, <1>5 DEF TypeInv, AdminCalls

LEMMA TypeReturn ==
  ASSUME TypeInv, NEW c \in Callers, NEW ok \in BOOLEAN, pc[c] # "idle", Return(c, ok)
  PROVE  /\ pc' \in [Callers -> Places] /\ AdminCalls'
         /\ running' \in {"none"} \cup DOMAIN Steps /\ at' \in 0 .. (Length' + 1)
         /\ result' \in {"none", "installed", "removed", "uninstalled"}
<1> USE TypeFacts
<1>1. /\ running \in {"none"} \cup DOMAIN Steps /\ at \in 0 .. Length + 1
      /\ result \in {"none", "installed", "removed", "uninstalled"}
      /\ AdminCalls
  BY DEF TypeInv, TypeOK
<1>2. pc' = [pc EXCEPT ![c] = "idle"] /\ pc' \in [Callers -> Places]
  BY DEF Return, Goto, Places
<1>3. CASE c = "Task"
  <2>1. UNCHANGED scriptVars BY <1>3 DEF Return
  <2>2. Length' = Length BY <2>1 DEF scriptVars, Length
  <2>3. pc'["Admin"] = pc["Admin"] BY <1>2, <1>3
  <2>4. AdminCalls' BY <1>1, <2>1, <2>3 DEF AdminCalls, AtInstall, AtRemove, scriptVars
  <2> QED BY <1>1, <1>2, <2>1, <2>2, <2>4 DEF scriptVars
<1>4. CASE c = "Admin"
  <2>1. AdminCalls' BY <1>2, <1>4 DEF AdminCalls
  <2>2. at \in 1 .. Length /\ Length \in Nat
    BY <1>1, <1>4, LengthIs DEF AdminCalls, AtInstall, AtRemove
  <2>3. \/ Proceed /\ result' \in {"removed", result}
        \/ Abort
    BY <1>4 DEF Return
  <2>4. CASE Abort
    BY <1>1, <1>2, <2>1, <2>4, LengthIsNext DEF Abort
  <2>5. CASE Proceed /\ result' \in {"removed", result}
    <3>1. Length' = Length BY <2>5 DEF Proceed, Length
    <3> QED BY <1>1, <1>2, <2>1, <2>2, <2>5, <3>1 DEF Proceed
  <2> QED BY <2>3, <2>4, <2>5
<1> QED BY <1>3, <1>4 DEF Callers

LEMMA TypeStep == TypeInv /\ [Next]_vars => TypeInv'
<1> SUFFICES ASSUME TypeInv, [Next]_vars PROVE TypeInv'
  OBVIOUS
<1> USE TypeFacts
<1>t. /\ task \in BOOLEAN /\ copy \in BOOLEAN
      /\ running \in {"none"} \cup DOMAIN Steps /\ at \in 0 .. Length + 1
      /\ result \in {"none", "installed", "removed", "uninstalled"}
      /\ AdminCalls
  BY DEF TypeInv, TypeOK
\* The scripts' steps leave the calls alone.
<1>s. ASSUME UNCHANGED callVars, task' \in BOOLEAN, copy' \in BOOLEAN,
             running' \in {"none"} \cup DOMAIN Steps, at' \in 0 .. (Length' + 1),
             result' \in {"none", "installed", "removed", "uninstalled"},
             AdminCalls'
      PROVE  TypeInv'
  BY <1>s, TypeNext DEF callVars
<1>1. CASE UNCHANGED vars
  <2>1. Length' = Length /\ AdminCalls'
    BY <1>1, <1>t DEF vars, callVars, scriptVars, Length, AdminCalls, AtInstall, AtRemove
  <2> QED BY <1>1, <1>s, <1>t, <2>1 DEF vars, callVars, taskVars, scriptVars
<1>2. ASSUME NEW s \in DOMAIN Steps, Start(s) PROVE TypeInv'
  <2>1. pc["Admin"] = "idle" BY <1>2, <1>t DEF Start, AdminCalls, AtInstall, AtRemove
  <2>2. AdminCalls' BY <1>2, <2>1 DEF Start, AdminCalls, callVars
  <2>3. PICK k \in Nat : Length' = k BY <1>2, LengthIsNext DEF Start
  <2>4. running' \in {"none"} \cup DOMAIN Steps BY <1>2 DEF Start
  <2>7. at' = 1 BY <1>2 DEF Start
  <2>8. at' \in 0 .. (Length' + 1) BY <2>3, <2>7
  <2>5. result' \in {"none", "installed", "removed", "uninstalled"} BY <1>2 DEF Start
  <2>6. UNCHANGED <<callVars, task, copy>> BY <1>2 DEF Start, taskVars
  <2> QED BY <1>s, <1>t, <2>2, <2>4, <2>5, <2>6, <2>8
<1>3. CASE Finish
  <2>1. pc["Admin"] = "idle"
    BY <1>3, <1>t, LengthIs DEF Finish, AdminCalls, AtInstall, AtRemove
  <2>2. AdminCalls' BY <1>3, <2>1 DEF Finish, AdminCalls, callVars
  <2>3. PICK k \in Nat : Length' = k BY <1>3, LengthIsNext DEF Finish
  <2>4. running' \in {"none"} \cup DOMAIN Steps BY <1>3 DEF Finish
  <2>7. at' = 0 BY <1>3 DEF Finish
  <2>8. at' \in 0 .. (Length' + 1) BY <2>3, <2>7
  <2>5. result' \in {"none", "installed", "removed", "uninstalled"} BY <1>3, <1>t DEF Finish
  <2>6. UNCHANGED <<callVars, task, copy>> BY <1>3 DEF Finish, taskVars
  <2> QED BY <1>s, <1>t, <2>2, <2>4, <2>5, <2>6, <2>8
<1>4. CASE Stage \/ CopyRestore \/ Register \/ Unregister \/ DeleteCopy
  <2>0. PICK step \in {"stage", "copy", "register", "unregister", "delete-copy"} : Doing(step)
    BY <1>4 DEF Stage, CopyRestore, Register, Unregister, DeleteCopy
  <2>1. pc["Admin"] = "idle"
    BY <1>t, <2>0, DoingIs DEF AdminCalls, AtInstall, AtRemove
  <2>2. UNCHANGED callVars
    BY <1>4 DEF Stage, CopyRestore, Register, Unregister, DeleteCopy, callVars
  <2>3. AdminCalls' BY <2>1, <2>2 DEF AdminCalls, callVars
  <2>4. running' \in {running, "none"}
    BY <1>4 DEF Stage, CopyRestore, Register, Unregister, DeleteCopy, Proceed, Abort
  <2>5. Length \in Nat /\ Length' \in Nat /\ (running' = running => Length' = Length)
    BY <1>t, <2>4, LengthIs, LengthIsNext DEF Length
  <2>6. at \in 1 .. Length
    BY <2>0 DEF Doing
  <2>7. \/ running' = running /\ at' \in {at + 1, Length + 1}
        \/ at' = 0
    BY <1>4
    DEF Stage, CopyRestore, Register, Unregister, DeleteCopy, Proceed, Abort, AfterFailedCopy
  <2>10. at' \in 0 .. (Length' + 1)
    BY <2>5, <2>6, <2>7
  <2>8. task' \in BOOLEAN /\ copy' \in BOOLEAN
    BY <1>4, <1>t DEF Stage, CopyRestore, Register, Unregister, DeleteCopy, taskVars
  <2>9. result' = result
    BY <1>4 DEF Stage, CopyRestore, Register, Unregister, DeleteCopy, Abort
  <2> QED BY <1>s, <1>t, <2>2, <2>3, <2>4, <2>8, <2>9, <2>10
<1>5. CASE NoProgram
  <2>1. Length' = Length /\ Length \in Nat
    BY <1>5, LengthIs DEF NoProgram, Proceed, Length
  <2>2. AdminCalls' BY <1>5 DEF NoProgram, AdminCalls, callVars
  <2>3. at \in 1 .. Length BY <1>5 DEF NoProgram, Doing
  <2> QED BY <1>5, <1>s, <1>t, <2>1, <2>2, <2>3 DEF NoProgram, Proceed, taskVars
\* A step of a call that leaves the scripts alone.
<1>c. ASSUME NEW place \in Places, NEW c \in Callers,
             Goto(c, place), UNCHANGED <<task, copy, running, at>>,
             c = "Admin" => place # "launch" /\ (place # "idle" => pc[c] # "idle"),
             node' \in {"absent", "handle", "parent"},
             node' = "handle" => place \in Open \/ (node = "handle" /\ pc[c] \notin Open),
             result' \in {result, "installed"}
      PROVE  TypeInv'
  <2>1. pc' = [pc EXCEPT ![c] = place] /\ pc' \in [Callers -> Places]
    BY <1>c DEF Goto
  <2>2. Length' = Length BY <1>c DEF Length
  <2>3. AdminCalls' BY <1>c, <1>t, <2>1 DEF AdminCalls, AtInstall, AtRemove
  <2>4. node' = "handle" => pc'["Admin"] \in Open \/ pc'["Task"] \in Open
    BY <1>c, <2>1 DEF Callers
  <2> QED BY <1>c, <1>t, <2>1, <2>2, <2>3, <2>4, TypeNext
<1>6. CASE Call
  <2>1. AtInstall \/ AtRemove BY <1>6, DoingIs DEF Call
  <2>2. pc' = [pc EXCEPT !["Admin"] = "create"] /\ pc' \in [Callers -> Places]
    BY <1>6 DEF Call, Goto, Places
  <2>3. Length' = Length BY <1>6 DEF Call, scriptVars, Length
  <2>4. AdminCalls' BY <1>6, <2>1, <2>2 DEF Call, AdminCalls, AtInstall, AtRemove, scriptVars
  <2>5. node' = "handle" => pc'["Admin"] \in Open \/ pc'["Task"] \in Open
    BY <1>6, <2>2 DEF Call, Open
  <2> QED BY <1>6, <1>t, <2>2, <2>3, <2>4, <2>5, TypeNext DEF Call, taskVars, scriptVars
<1>7. ASSUME NEW c \in Callers, CallStep(c) PROVE TypeInv'
  <2>1. CASE \/ SwDeviceCreate(c) \/ CreationCallback(c) \/ GiveUp(c)
             \/ SwDeviceSetLifetime(c) \/ SetLifetimeFails(c)
    <3>1. PICK place \in {"wait", "apply", "failed", "done"} : Goto(c, place)
      BY <2>1 DEF SwDeviceCreate, CreationCallback, GiveUp, SwDeviceSetLifetime, SetLifetimeFails
    <3>2. UNCHANGED <<task, copy, running, at>> /\ result' \in {result, "installed"}
      BY <2>1 DEF SwDeviceCreate, CreationCallback, GiveUp, SwDeviceSetLifetime,
                  SetLifetimeFails, taskVars, scriptVars
    <3>3. node' \in {"absent", "handle", "parent"}
      BY <2>1 DEF SwDeviceCreate, CreationCallback, GiveUp, SwDeviceSetLifetime,
                  SetLifetimeFails, Wanted
    <3>4. pc[c] # "idle"
      BY <2>1 DEF SwDeviceCreate, CreationCallback, GiveUp, SwDeviceSetLifetime,
                  SetLifetimeFails
    <3> QED BY <1>c, <3>1, <3>2, <3>3, <3>4 DEF Open, Places
  <2>2. CASE CreateFails(c)
    <3>1. Return(c, FALSE) /\ pc[c] = "create" /\ UNCHANGED <<node, task, copy>>
      BY <2>2 DEF CreateFails, taskVars
    <3>2. pc' = [pc EXCEPT ![c] = "idle"] BY <3>1 DEF Return, Goto
    <3>3. node' = "handle" => pc'["Admin"] \in Open \/ pc'["Task"] \in Open
      BY <3>1, <3>2 DEF Callers, Open
    <3> QED BY <1>t, <3>1, <3>3, TypeReturn, TypeNext
  <2>3. CASE SwDeviceClose(c)
    <3>1. /\ Return(c, pc[c] = "done") /\ pc[c] \in {"done", "failed"}
          /\ node' = NodeWithout(c) /\ UNCHANGED <<task, copy>>
      BY <2>3 DEF SwDeviceClose, taskVars
    <3>2. pc' = [pc EXCEPT ![c] = "idle"] BY <3>1 DEF Return, Goto
    <3>3. node' = "handle" => pc'["Admin"] \in Open \/ pc'["Task"] \in Open
      BY <3>1, <3>2, HoldersAre DEF Callers, NodeWithout
    <3>4. node' \in {"absent", "handle", "parent"} BY <3>1 DEF NodeWithout
    <3>5. (pc[c] = "done") \in BOOLEAN /\ pc[c] # "idle" BY <3>1
    <3> QED BY <1>t, <3>1, <3>3, <3>4, <3>5, TypeReturn, TypeNext
  <2> QED BY <1>7, <2>1, <2>2, <2>3 DEF CallStep
<1>8. CASE TaskTriggered \/ TaskStarts
  <2>1. PICK place \in {"launch", "create", "idle"} : Goto("Task", place)
    BY <1>8 DEF TaskTriggered, TaskStarts
  <2>2. UNCHANGED <<node, task, copy, running, at, result>> /\ pc["Task"] \in {"idle", "launch"}
    BY <1>8 DEF TaskTriggered, TaskStarts, taskVars, scriptVars
  <2> QED BY <1>c, <2>1, <2>2 DEF Open, Places
<1>9. CASE Enumerate \/ Vanish
  <2>1. UNCHANGED <<pc, task, copy, running, at>> /\ result' \in {"none", result}
    BY <1>9 DEF Enumerate, Vanish, taskVars, scriptVars
  <2>2. Length' = Length /\ AdminCalls'
    BY <1>t, <2>1 DEF Length, AdminCalls, AtInstall, AtRemove
  <2>3. node' \in {"handle", "absent"} /\ (node' = "handle" => Holders # {})
    BY <1>9 DEF Enumerate, Vanish
  <2> QED BY <1>t, <2>1, <2>2, <2>3, HoldersAre, TypeNext
<1>10. CASE Reboot
  <2>1. /\ node' \in {"absent", "parent"} /\ pc' \in [Callers -> Places] /\ pc'["Admin"] = "idle"
        /\ UNCHANGED <<task, copy, result>> /\ running' = "none" /\ at' = 0
    BY <1>10 DEF Reboot, Abort, taskVars, Places
  <2>2. AdminCalls' /\ Length' = 0 BY <2>1, LengthIsNext DEF AdminCalls
  <2> QED BY <1>t, <2>1, <2>2, TypeNext
<1> QED
  BY <1>1, <1>2, <1>3, <1>4, <1>5, <1>6, <1>7, <1>8, <1>9, <1>10 DEF Next, ScriptStep

-----------------------------------------------------------------------------
(* The node stays gone, or stays.                                           *)

Uninstalling ==
  /\ CopyInUse => copy
  /\ running = "uninstall" /\ at > 1 => ~task
  /\ running = "uninstall" /\ at > 2 => ~copy
  /\ running = "uninstall" /\ pc["Admin"] = "done" => node # "parent"
  /\ running = "uninstall" /\ result = "removed" => at = 4 /\ node = "absent"
  /\ result = "uninstalled" => running = "none" /\ ~task /\ ~copy /\ node = "absent"

Installing ==
  /\ result = "installed" => node = "parent"
  /\ running \in {"uninstall", "remove"} => result # "installed"
  /\ running = "update" /\ at < 3 => result # "installed"

StayInv == TypeInv /\ Uninstalling /\ Installing

LEMMA StayInit == Init => StayInv
<1> SUFFICES ASSUME Init PROVE StayInv
  OBVIOUS
<1>1. pc["Task"] = "idle" BY DEF Init, Callers
<1>2. Uninstalling /\ Installing BY <1>1 DEF Init, Uninstalling, Installing, CopyInUse
<1> QED BY <1>2, TypeInit DEF StayInv

LEMMA UninstallingStep == StayInv /\ [Next]_vars => Uninstalling'
<1> SUFFICES ASSUME StayInv, [Next]_vars PROVE Uninstalling'
  OBVIOUS
<1>t. /\ TypeInv /\ Scripted /\ AdminCalls /\ pc \in [Callers -> Places] /\ at \in Nat
      /\ "Admin" \in Callers /\ "Task" \in Callers
      /\ running = "uninstall" => at <= 4
      /\ running = "uninstall" /\ pc["Admin"] # "idle" => at = 3
      /\ running = "none" => pc["Admin"] = "idle"
      /\ node = "handle" => pc["Admin"] \in Open \/ pc["Task"] \in Open
  <2>1. TypeInv /\ AdminCalls BY DEF StayInv, TypeInv
  <2>2. at \in 0 .. Length + 1 /\ (running = "uninstall" => Length = 3) /\ Length \in Nat
    BY <2>1, TypeFacts, LengthIs DEF Scripted
  <2> QED BY <2>1, <2>2, TypeFacts DEF AdminCalls, AtInstall, AtRemove
<1>u. Uninstalling BY DEF StayInv
<1>1. CASE UNCHANGED vars
  BY <1>1, <1>u DEF vars, callVars, taskVars, scriptVars, Uninstalling, CopyInUse
<1>2. ASSUME NEW s \in DOMAIN Steps, Start(s) PROVE Uninstalling'
  <2>1. /\ UNCHANGED <<node, pc, task, copy>> /\ at' = 1 /\ running = "none"
        /\ result' \in {"none", "installed"}
    BY <1>2 DEF Start, callVars, taskVars
  <2> QED BY <1>t, <1>u, <2>1 DEF Uninstalling, CopyInUse
<1>3. CASE Finish
  <2>1. /\ UNCHANGED <<node, pc, task, copy>> /\ running' = "none" /\ at > Length
        /\ result' = IF running = "uninstall" /\ result = "removed" THEN "uninstalled" ELSE result
        /\ running # "none"
    BY <1>3 DEF Finish, callVars, taskVars
  <2> QED BY <1>t, <1>u, <2>1 DEF Uninstalling, CopyInUse
<1>4. CASE Stage \/ CopyRestore \/ Register
  <2>1. running \in {"install", "update"} /\ running' \in {running, "none"}
    BY <1>4, <1>t, DoingIs DEF Stage, CopyRestore, Register, Proceed, Abort
  <2>2. UNCHANGED <<node, pc, result>> /\ copy' \in {copy, TRUE}
    BY <1>4 DEF Stage, CopyRestore, Register, callVars, taskVars, Abort
  <2> QED BY <1>u, <2>1, <2>2 DEF Uninstalling, CopyInUse
<1>5. CASE Unregister \/ DeleteCopy
  <2>1. /\ UNCHANGED <<node, pc, result>> /\ running = "uninstall"
        /\ pc["Admin"] = "idle"
    <3>1. PICK step \in {"unregister", "delete-copy"} : Doing(step)
      BY <1>5 DEF Unregister, DeleteCopy
    <3>2. running = "uninstall" /\ pc["Admin"] = "idle"
      BY <1>t, <3>1, DoingIs DEF AdminCalls, AtInstall, AtRemove
    <3> QED BY <1>5, <3>2 DEF Unregister, DeleteCopy, callVars, Abort
  <2>2. CASE Unregister
    <3>0. at = 1 BY <1>t, <2>2, DoingIs DEF Unregister
    <3>1. copy' = copy /\ (running' = "none" \/ (at' = 2 /\ ~task'))
      BY <2>2, <3>0 DEF Unregister, Proceed, Abort
    <3>2. CASE running' = "none"
      BY <1>u, <2>1, <3>1, <3>2 DEF Uninstalling, CopyInUse
    <3>3. CASE at' = 2 /\ ~task'
      BY <1>u, <2>1, <3>0, <3>1, <3>3 DEF Uninstalling, CopyInUse
    <3> QED BY <3>1, <3>2, <3>3
  <2>3. CASE DeleteCopy
    <3>1. /\ at = 2 /\ task' = task
          /\ \/ running' = "none" /\ copy' = copy
             \/ at' = 3 /\ copy' = FALSE /\ ~(copy /\ CopyInUse)
      BY <1>t, <2>3, DoingIs DEF DeleteCopy, Proceed, Abort
    <3> QED BY <1>u, <2>1, <3>1 DEF Uninstalling, CopyInUse
  <2> QED BY <1>5, <2>2, <2>3
<1>6. CASE NoProgram
  <2>1. /\ UNCHANGED <<node, pc, task, copy, running, result>> /\ running = "uninstall"
        /\ at' = at + 1 /\ pc["Admin"] = "idle" /\ at = 3
    BY <1>6, <1>t, DoingIs DEF NoProgram, Proceed, callVars, taskVars, AtRemove
  <2> QED BY <1>u, <2>1 DEF Uninstalling, CopyInUse
<1>7. CASE Call
  <2>1. UNCHANGED <<node, task, copy, running, at, result>> BY <1>7 DEF Call, taskVars, scriptVars
  <2>2. pc'["Admin"] = "create" /\ pc'["Task"] = pc["Task"]
    BY <1>7, <1>t DEF Call, Goto
  <2> QED BY <1>u, <2>1, <2>2 DEF Uninstalling, CopyInUse
\* What is known of the task's process when it is inside a call, and of the
\* administrator's.
<1>h. ASSUME NEW c \in Callers, pc[c] \notin {"idle", "launch"}
      PROVE  /\ c = "Task" => copy /\ (running = "uninstall" => at <= 2)
             /\ c = "Admin" => running # "none" /\ (running = "uninstall" => at = 3)
             /\ result # "uninstalled"
  BY <1>h, <1>t, <1>u DEF Uninstalling, CopyInUse, Callers
<1>8. ASSUME NEW c \in Callers,
             \/ SwDeviceCreate(c) \/ CreationCallback(c) \/ GiveUp(c)
             \/ SwDeviceSetLifetime(c) \/ SetLifetimeFails(c)
      PROVE  Uninstalling'
  <2>1. /\ pc[c] \notin {"idle", "launch"} /\ UNCHANGED <<task, copy, running, at>>
        /\ result' \in {result, "installed"}
    BY <1>8 DEF SwDeviceCreate, CreationCallback, GiveUp, SwDeviceSetLifetime,
                SetLifetimeFails, taskVars, scriptVars
  <2>2. PICK place \in {"wait", "apply", "failed", "done"} :
          /\ pc' = [pc EXCEPT ![c] = place]
          /\ place # "done" => UNCHANGED node
          /\ place = "done" => node' = Wanted(c)
    BY <1>8 DEF SwDeviceCreate, CreationCallback, GiveUp, SwDeviceSetLifetime,
                SetLifetimeFails, Goto
  <2>3. running = "uninstall" /\ c = "Admin" => Wanted(c) = "handle"
    BY <1>h, <1>t, <2>1, DoingIs DEF Wanted, AtRemove
  <2>4. CopyInUse' => copy'
    BY <1>h, <1>t, <1>u, <2>1, <2>2 DEF Uninstalling, CopyInUse
  <2>5. running' = "uninstall" /\ pc'["Admin"] = "done" => node' # "parent"
    BY <1>h, <1>t, <1>u, <2>1, <2>2, <2>3 DEF Uninstalling, Callers
  <2>6. running' = "uninstall" => result' # "removed"
    BY <1>h, <1>t, <1>u, <2>1 DEF Uninstalling, Callers
  <2> QED BY <1>h, <1>u, <2>1, <2>4, <2>5, <2>6 DEF Uninstalling
<1>9. ASSUME NEW c \in Callers, CreateFails(c) PROVE Uninstalling'
  <2>1. /\ Return(c, FALSE) /\ pc[c] = "create" /\ UNCHANGED <<node, task, copy>>
    BY <1>9 DEF CreateFails, taskVars
  <2>2. pc' = [pc EXCEPT ![c] = "idle"] BY <2>1 DEF Return, Goto
  <2>3. /\ result' = result
        /\ \/ UNCHANGED <<running, at>>
           \/ running' = "none"
           \/ c = "Admin" /\ running' = running /\ at' = at + 1
    <3>1. CASE c = "Task"
      BY <2>1, <3>1 DEF Return, scriptVars
    <3>2. CASE c = "Admin"
      BY <2>1, <3>2 DEF Return, Proceed, Abort
    <3> QED BY <3>1, <3>2 DEF Callers
  <2>4. CopyInUse' => copy' BY <1>t, <1>u, <2>1, <2>2 DEF Uninstalling, CopyInUse
  <2>5. running = "uninstall" => result # "removed"
    BY <1>h, <1>t, <1>u, <2>1 DEF Uninstalling, Callers
  <2>6. pc'["Admin"] = "done" => pc["Admin"] = "done" BY <1>t, <2>2
  <2> QED BY <1>h, <1>t, <1>u, <2>1, <2>3, <2>4, <2>5, <2>6 DEF Uninstalling
<1>10. ASSUME NEW c \in Callers, SwDeviceClose(c) PROVE Uninstalling'
  <2>1. /\ Return(c, pc[c] = "done") /\ pc[c] \in {"done", "failed"}
        /\ node' = NodeWithout(c) /\ UNCHANGED <<task, copy>>
    BY <1>10 DEF SwDeviceClose, taskVars
  <2>2. pc' = [pc EXCEPT ![c] = "idle"] BY <2>1 DEF Return, Goto
  <2>3. CopyInUse' => copy' BY <1>t, <1>u, <2>1, <2>2 DEF Uninstalling, CopyInUse
  <2>4. node' \in {node, "absent"} BY <2>1 DEF NodeWithout
  <2>5. CASE c = "Task"
    <3>1. UNCHANGED <<running, at, result>> BY <2>1, <2>5 DEF Return, scriptVars
    <3>2. pc'["Admin"] = pc["Admin"] BY <1>t, <2>2, <2>5
    <3> QED BY <1>u, <2>1, <2>3, <2>4, <3>1, <3>2 DEF Uninstalling
  <2>6. CASE c = "Admin"
    <3>1. pc'["Admin"] = "idle" /\ result # "uninstalled" /\ running # "none"
      BY <1>h, <1>t, <2>1, <2>2, <2>6
    <3>2. CASE running # "uninstall"
      <4>1. running' \in {running, "none"} /\ result' \in {result, "removed"}
        BY <2>1, <2>6 DEF Return, Proceed, Abort
      <4> QED BY <2>1, <2>3, <3>1, <3>2, <4>1 DEF Uninstalling
    <3>3. CASE running = "uninstall"
      <4>1. at = 3 /\ running' = running /\ at' = 4
            /\ result' = IF pc["Admin"] = "done" /\ Doing("remove-device") THEN "removed" ELSE result
        BY <1>h, <2>1, <2>6, <3>3 DEF Return, Proceed
      <4>2. ~task /\ ~copy /\ pc["Task"] \notin Open /\ result # "removed"
        BY <1>u, <3>3, <4>1 DEF Uninstalling, CopyInUse, Open
      <4>3. pc["Admin"] = "done" => node' = "absent"
        BY <1>t, <1>u, <2>1, <2>6, <3>3, <4>2, HoldersAre, TypeFacts DEF Uninstalling, NodeWithout
      <4> QED BY <2>1, <2>3, <3>1, <3>3, <4>1, <4>2, <4>3 DEF Uninstalling
    <3> QED BY <3>2, <3>3
  <2> QED BY <2>5, <2>6 DEF Callers
<1>11. CASE TaskTriggered
  <2>1. /\ task /\ UNCHANGED <<node, task, copy, running, at, result>>
        /\ pc'["Task"] = "launch" /\ pc'["Admin"] = pc["Admin"]
    BY <1>11, <1>t DEF TaskTriggered, Goto, taskVars, scriptVars
  <2> QED BY <1>u, <2>1 DEF Uninstalling, CopyInUse
<1>12. CASE TaskStarts
  <2>1. /\ UNCHANGED <<node, task, copy, running, at, result>>
        /\ pc'["Task"] = (IF copy THEN "create" ELSE "idle") /\ pc'["Admin"] = pc["Admin"]
    BY <1>12, <1>t DEF TaskStarts, Goto, taskVars, scriptVars
  <2> QED BY <1>u, <2>1 DEF Uninstalling, CopyInUse
<1>13. CASE Enumerate
  <2>1. /\ UNCHANGED <<pc, task, copy, running, at, result>> /\ node' = "handle"
        /\ pc["Admin"] \in Open \/ pc["Task"] \in Open
    BY <1>13, HoldersAre DEF Enumerate, taskVars, scriptVars
  <2>2. result # "uninstalled" BY <1>h, <1>t, <2>1 DEF Open
  <2>3. running = "uninstall" => result # "removed"
    BY <1>h, <1>t, <1>u, <2>1 DEF Uninstalling, Open
  <2> QED BY <1>u, <2>1, <2>2, <2>3 DEF Uninstalling, CopyInUse
<1>14. CASE Vanish
  <2>1. /\ UNCHANGED <<pc, task, copy, running, at>> /\ node' = "absent"
        /\ result' \in {result, "none"}
    BY <1>14 DEF Vanish, taskVars
  <2> QED BY <1>u, <2>1 DEF Uninstalling, CopyInUse
<1>15. CASE Reboot
  <2>1. /\ UNCHANGED <<task, copy, result>> /\ running' = "none" /\ node' \in {node, "absent"}
        /\ pc'["Task"] = "idle"
    BY <1>15, <1>t DEF Reboot, Abort, taskVars
  <2> QED BY <1>u, <2>1 DEF Uninstalling, CopyInUse
<1> QED
  BY <1>1, <1>2, <1>3, <1>4, <1>5, <1>6, <1>7, <1>8, <1>9, <1>10, <1>11, <1>12, <1>13,
     <1>14, <1>15 DEF Next, ScriptStep, CallStep

LEMMA InstallingStep == StayInv /\ [Next]_vars => Installing'
<1> SUFFICES ASSUME StayInv, [Next]_vars PROVE Installing'
  OBVIOUS
<1>t. /\ TypeInv /\ Scripted /\ AdminCalls /\ at \in Nat
      /\ node \in {"absent", "handle", "parent"}
  BY TypeFacts, LengthIs DEF StayInv, TypeInv, Scripted
<1>i. Installing BY DEF StayInv
<1>1. CASE UNCHANGED vars
  BY <1>1, <1>i DEF vars, callVars, scriptVars, Installing
<1>2. ASSUME NEW s \in DOMAIN Steps, Start(s) PROVE Installing'
  BY <1>2, <1>i DEF Start, Installing, callVars
<1>3. CASE Finish
  BY <1>3, <1>i DEF Finish, Installing, callVars
<1>4. CASE Stage \/ CopyRestore \/ Register \/ Unregister \/ DeleteCopy \/ NoProgram \/ Call
  <2>1. UNCHANGED <<node, result>>
    BY <1>4 DEF Stage, CopyRestore, Register, Unregister, DeleteCopy, NoProgram, Call, Abort,
                callVars, scriptVars
  <2>2. \/ UNCHANGED <<running, at>>
        \/ running' = "none"
        \/ running' = running /\ (running = "update" => at = 1)
    <3>1. CASE Stage \/ Unregister \/ DeleteCopy
      BY <1>t, <3>1, DoingIs DEF Stage, Unregister, DeleteCopy, Proceed, Abort
    <3>2. CASE CopyRestore \/ Register \/ NoProgram \/ Call
      BY <1>t, <3>2, DoingIs DEF CopyRestore, Register, NoProgram, Call, Proceed, Abort, scriptVars
    <3> QED BY <1>4, <3>1, <3>2
  <2> QED BY <1>i, <2>1, <2>2 DEF Installing
<1>5. ASSUME NEW c \in Callers,
             \/ SwDeviceCreate(c) \/ CreationCallback(c) \/ GiveUp(c) \/ SetLifetimeFails(c)
      PROVE  Installing'
  BY <1>5, <1>i
  DEF SwDeviceCreate, CreationCallback, GiveUp, SetLifetimeFails, scriptVars, Installing
<1>6. ASSUME NEW c \in Callers, SwDeviceSetLifetime(c) PROVE Installing'
  <2>1. /\ UNCHANGED <<running, at>> /\ pc[c] = "apply" /\ node' = Wanted(c)
        /\ result' = IF c = "Admin" /\ Doing("install-device") THEN "installed" ELSE result
    BY <1>6 DEF SwDeviceSetLifetime
  <2>2. CASE c = "Admin" /\ AtInstall
    <3>1. node' = "parent" BY <1>t, <2>1, <2>2, DoingIs DEF Wanted, AtInstall, AtRemove
    <3> QED BY <2>1, <2>2, <3>1 DEF Installing, AtInstall
  <2>3. CASE c = "Admin" /\ AtRemove
    <3>1. result # "installed" /\ result' = result
      BY <1>i, <1>t, <2>1, <2>3, DoingIs DEF Installing, AtInstall, AtRemove
    <3> QED BY <3>1 DEF Installing
  <2>4. CASE c = "Task"
    <3>1. node' = "parent" /\ result' = result BY <2>1, <2>4 DEF Wanted
    <3> QED BY <1>i, <2>1, <3>1 DEF Installing
  <2>5. c = "Admin" => AtInstall \/ AtRemove BY <1>t, <2>1 DEF AdminCalls
  <2> QED BY <2>2, <2>3, <2>4, <2>5 DEF Callers
<1>7. ASSUME NEW c \in Callers, NEW ok \in BOOLEAN, Return(c, ok), pc[c] # "idle",
             node' = node \/ (node # "parent" /\ node' = "absent")
      PROVE  Installing'
  <2>1. CASE c = "Task"
    BY <1>7, <1>i, <2>1 DEF Return, scriptVars, Installing
  <2>2. CASE c = "Admin"
    <3>1. AtInstall \/ AtRemove BY <1>7, <1>t, <2>2 DEF AdminCalls
    <3>2. \/ Abort
          \/ (Proceed /\ result' \in {result, "removed"} /\ (AtRemove => result # "installed"))
      BY <1>7, <1>i, <2>2 DEF Return, Installing, AtRemove
    <3>3. CASE Abort BY <1>7, <1>i, <3>3 DEF Abort, Installing
    <3>4. CASE Proceed /\ result' \in {result, "removed"} /\ (AtRemove => result # "installed")
      <4>1. CASE AtInstall
        BY <1>7, <1>i, <3>4, <4>1 DEF Proceed, Installing, AtInstall
      <4>2. CASE AtRemove
        BY <1>7, <1>i, <3>4, <4>2 DEF Proceed, Installing, AtRemove
      <4> QED BY <3>1, <4>1, <4>2
    <3> QED BY <3>2, <3>3, <3>4
  <2> QED BY <2>1, <2>2 DEF Callers
<1>8. ASSUME NEW c \in Callers, CreateFails(c) \/ SwDeviceClose(c) PROVE Installing'
  <2>1. CASE CreateFails(c)
    BY <1>7, <2>1 DEF CreateFails
  <2>2. CASE SwDeviceClose(c)
    <3>1. /\ Return(c, pc[c] = "done") /\ pc[c] # "idle" /\ (pc[c] = "done") \in BOOLEAN
          /\ node' = node \/ (node # "parent" /\ node' = "absent")
      BY <2>2 DEF SwDeviceClose, NodeWithout
    <3> QED BY <1>7, <3>1
  <2> QED BY <1>8, <2>1, <2>2
<1>9. CASE TaskTriggered \/ TaskStarts
  BY <1>9, <1>i DEF TaskTriggered, TaskStarts, scriptVars, Installing
<1>10. CASE Enumerate \/ Vanish \/ Reboot
  BY <1>10, <1>i, <1>t DEF Enumerate, Vanish, Reboot, Abort, scriptVars, Installing
<1> QED
  BY <1>1, <1>2, <1>3, <1>4, <1>5, <1>6, <1>8, <1>9, <1>10 DEF Next, ScriptStep, CallStep

LEMMA StayStep == StayInv /\ [Next]_vars => StayInv'
  BY TypeStep, UninstallingStep, InstallingStep DEF StayInv

\* A node that uninstall.ps1 has removed does not come back: from the deletion of
\* the copy on nothing is left that could recreate it, whatever the task was
\* doing when it was unregistered.
THEOREM UninstalledIsGone == Spec => []UninstalledStaysGone
<1>1. StayInv => UninstalledStaysGone BY DEF StayInv, Uninstalling, UninstalledStaysGone
<1> QED BY <1>1, StayInit, StayStep, PTL DEF Spec

\* An installed node is persistent and stays so, through failed and repeated
\* installs, runs of the task and reboots, until it vanishes or somebody sets out
\* to remove it.
THEOREM InstalledIsKept == Spec => []InstalledStays
<1>1. StayInv => InstalledStays BY DEF StayInv, Installing, InstalledStays
<1> QED BY <1>1, StayInit, StayStep, PTL DEF Spec
=============================================================================
