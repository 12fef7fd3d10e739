----------------------------- MODULE DeviceNode -----------------------------
(***************************************************************************)
(* The device node the driver is loaded for.  nyanvddctl creates and       *)
(* removes it with SwDeviceCreate and a lifetime; an administrator does so *)
(* by hand or through install.ps1, uninstall.ps1 and dev-update.ps1; the   *)
(* restore task does so at every startup and logon, from a copy of the     *)
(* program.  The node may vanish, the machine may restart at any step, and *)
(* any call may fail.                                                      *)
(*                                                                         *)
(* One administrator works at a time.  Unplugging, which uninstall.ps1     *)
(* does before it removes the node, and the certificate do not matter to   *)
(* the node and are left out; so does the driver package, except that      *)
(* staging it can end a script.                                            *)
(***************************************************************************)
EXTENDS Naturals, Sequences

VARIABLES
  node,       \* "absent", or the lifetime of the present node
  pc,         \* where each caller is in SetDeviceLifetime
  task,       \* the restore task is registered
  copy,       \* its executable is in ProgramData
  running,    \* the administrator's script or command
  at,         \* its next step
  result      \* history: what the last script or command has achieved

callVars == <<node, pc>>
taskVars == <<task, copy>>
scriptVars == <<running, at, result>>
vars == <<callVars, taskVars, scriptVars>>

Callers == {"Admin", "Task"}
Lifetimes == {"handle", "parent"}

-----------------------------------------------------------------------------
(* The scripts.                                                             *)

InstallSteps == <<"stage", "install-device", "copy", "register">>

\* Mutant: the task is unregistered after the node was removed.
UninstallSteps_NodeFirst == <<"remove-device", "unregister", "delete-copy">>

\* "Before remove-device, not after."
UninstallSteps == <<"unregister", "delete-copy", "remove-device">>

UpdateSteps == <<"stage", "remove-device", "install-device">>

\* The scripts, and nyanvddctl by hand.
Steps == [install |-> InstallSteps, uninstall |-> UninstallSteps, update |-> UpdateSteps,
          create |-> <<"install-device">>, remove |-> <<"remove-device">>]

Length == IF running = "none" THEN 0 ELSE Len(Steps[running])

Doing(step) == at \in 1 .. Length /\ Steps[running][at] = step

Proceed == at' = at + 1 /\ UNCHANGED running

\* A command that throws, or a checked exit code, ends the script.
Abort == running' = "none" /\ at' = 0 /\ UNCHANGED result

Start(s) ==
  /\ running = "none"
  /\ running' = s /\ at' = 1
  /\ result' = IF s \in {"install", "create"} /\ result = "installed" THEN result ELSE "none"
  /\ UNCHANGED <<callVars, taskVars>>

\* The script has come to its end.  That of uninstall.ps1 reports success even
\* when remove-device failed; here only a node it did remove counts.
Finish ==
  /\ running # "none" /\ at > Length
  /\ result' = IF running = "uninstall" /\ result = "removed" THEN "uninstalled" ELSE result
  /\ running' = "none" /\ at' = 0
  /\ UNCHANGED <<callVars, taskVars>>

\* pnputil /add-driver.
Stage ==
  /\ Doing("stage")
  /\ \/ Proceed /\ UNCHANGED result
     \/ Abort
  /\ UNCHANGED <<callVars, taskVars>>

\* An executable that runs can be neither replaced nor deleted.
CopyInUse == pc["Task"] \notin {"idle", "launch"}

\* Mutant: the task is registered all the same.
AfterFailedCopy_Register == at + 1

\* What cannot be copied is not registered: a warning, and the script is done.
AfterFailedCopy == Length + 1

CopyRestore ==
  /\ Doing("copy")
  /\ \/ ~CopyInUse /\ copy' = TRUE /\ at' = at + 1
     \/ at' = AfterFailedCopy /\ UNCHANGED copy
  /\ UNCHANGED <<callVars, task, running, result>>

Register ==
  /\ Doing("register")
  /\ task' \in {task, TRUE}
  /\ Proceed
  /\ UNCHANGED <<callVars, copy, result>>

Unregister ==
  /\ Doing("unregister")
  /\ \/ task' = FALSE /\ Proceed /\ UNCHANGED result
     \/ UNCHANGED task /\ Abort
  /\ UNCHANGED <<callVars, copy>>

DeleteCopy ==
  /\ Doing("delete-copy")
  /\ \/ ~(copy /\ CopyInUse)
        /\ copy' = FALSE /\ Proceed /\ UNCHANGED result
     \/ copy /\ UNCHANGED copy /\ Abort
  /\ UNCHANGED <<callVars, task>>

\* uninstall.ps1 without a nyanvddctl.exe beside it leaves the node.
NoProgram ==
  /\ running = "uninstall" /\ Doing("remove-device") /\ pc["Admin"] = "idle"
  /\ Proceed
  /\ UNCHANGED <<callVars, taskVars, result>>

-----------------------------------------------------------------------------
(* SetDeviceLifetime, by the administrator or by the task.                  *)

\* Mutant: install-device asks for a node that goes with its handle.
Wanted_Handle(c) == "handle"

Wanted(c) == IF c = "Admin" /\ Doing("remove-device") THEN "handle" ELSE "parent"

\* The callers with an open HSWDEVICE.
Holders == {c \in Callers : pc[c] \in {"wait", "apply", "done", "failed"}}

Goto(c, place) == pc' = [pc EXCEPT ![c] = place]

\* The caller is back, with exit code 0 or not.  Only uninstall.ps1 does not
\* look at it.
Return(c, ok) ==
  /\ Goto(c, "idle")
  /\ IF c = "Task" THEN UNCHANGED scriptVars
     ELSE IF ok \/ running = "uninstall"
       THEN Proceed /\ result' = IF ok /\ Doing("remove-device") THEN "removed" ELSE result
       ELSE Abort

Call ==
  /\ Doing("install-device") \/ Doing("remove-device")
  /\ pc["Admin"] = "idle"
  /\ Goto("Admin", "create")
  /\ UNCHANGED <<node, taskVars, scriptVars>>

\* SwDeviceCreate opens the node or begins to create it, or fails.
SwDeviceCreate(c) ==
  /\ pc[c] = "create"
  /\ Goto(c, "wait")
  /\ UNCHANGED <<node, taskVars, scriptVars>>

CreateFails(c) ==
  /\ pc[c] = "create"
  /\ Return(c, FALSE)
  /\ UNCHANGED <<node, taskVars>>

\* PnP enumerates a node that somebody has a handle of; external.
Enumerate ==
  /\ node = "absent" /\ Holders # {}
  /\ node' = "handle"
  /\ UNCHANGED <<pc, taskVars, scriptVars>>

CreationCallback(c) ==
  /\ pc[c] = "wait" /\ node # "absent"
  /\ Goto(c, "apply")
  /\ UNCHANGED <<node, taskVars, scriptVars>>

\* Ten seconds have passed, or the callback brought an error.
GiveUp(c) ==
  /\ pc[c] = "wait"
  /\ Goto(c, "failed")
  /\ UNCHANGED <<node, taskVars, scriptVars>>

SwDeviceSetLifetime(c) ==
  /\ pc[c] = "apply" /\ node # "absent"
  /\ node' = Wanted(c)
  /\ Goto(c, "done")
  /\ result' = IF c = "Admin" /\ Doing("install-device") THEN "installed" ELSE result
  /\ UNCHANGED <<taskVars, running, at>>

SetLifetimeFails(c) ==
  /\ pc[c] = "apply"
  /\ Goto(c, "failed")
  /\ UNCHANGED <<node, taskVars, scriptVars>>

\* A node of the lifetime "handle" goes with the last handle.
NodeWithout(c) == IF node = "handle" /\ Holders \subseteq {c} THEN "absent" ELSE node

SwDeviceClose(c) ==
  /\ pc[c] \in {"done", "failed"}
  /\ node' = NodeWithout(c)
  /\ Return(c, pc[c] = "done")
  /\ UNCHANGED taskVars

-----------------------------------------------------------------------------
(* The restore task and the world.                                          *)

\* Startup or logon; "MultipleInstances IgnoreNew".
TaskTriggered ==
  /\ task /\ pc["Task"] = "idle"
  /\ Goto("Task", "launch")
  /\ UNCHANGED <<node, taskVars, scriptVars>>

\* The process starts, if the executable is still there.
TaskStarts ==
  /\ pc["Task"] = "launch"
  /\ Goto("Task", IF copy THEN "create" ELSE "idle")
  /\ UNCHANGED <<node, taskVars, scriptVars>>

\* The node becomes non-present "on its own while the driver package stays
\* installed"; what install-device has achieved is undone.
Vanish ==
  /\ node # "absent"
  /\ node' = "absent"
  /\ result' = IF result = "installed" THEN "none" ELSE result
  /\ UNCHANGED <<pc, taskVars, running, at>>

\* Every process dies, with its handles; a node of the lifetime "parent" stays.
Reboot ==
  /\ node' = IF node = "handle" THEN "absent" ELSE node
  /\ pc' = [c \in Callers |-> "idle"]
  /\ Abort
  /\ UNCHANGED taskVars

-----------------------------------------------------------------------------

Init ==
  /\ node = "absent" /\ pc = [c \in Callers |-> "idle"]
  /\ task = FALSE /\ copy = FALSE
  /\ running = "none" /\ at = 0 /\ result = "none"

ScriptStep ==
  \/ \E s \in DOMAIN Steps : Start(s)
  \/ Finish \/ Stage \/ CopyRestore \/ Register
  \/ Unregister \/ DeleteCopy \/ NoProgram \/ Call

CallStep(c) ==
  \/ SwDeviceCreate(c) \/ CreateFails(c)
  \/ CreationCallback(c) \/ GiveUp(c)
  \/ SwDeviceSetLifetime(c) \/ SetLifetimeFails(c)
  \/ SwDeviceClose(c)

Next ==
  \/ ScriptStep
  \/ \E c \in Callers : CallStep(c)
  \/ TaskTriggered \/ TaskStarts
  \/ Enumerate \/ Vanish \/ Reboot

\* Logons and startups recur, and not every run of the task is cut short, timed
\* out or refused at the same step.  Nothing is asked of the administrator.
Fairness ==
  /\ SF_vars(TaskTriggered) /\ SF_vars(TaskStarts)
  /\ SF_vars(SwDeviceCreate("Task"))
  /\ SF_vars(Enumerate /\ pc["Task"] = "wait")
  /\ SF_vars(CreationCallback("Task"))
  /\ SF_vars(SwDeviceSetLifetime("Task"))
  /\ WF_vars(CallStep("Task"))

Spec == Init /\ [][Next]_vars /\ Fairness

-----------------------------------------------------------------------------
(* Correctness.                                                             *)

\* Types; and a node of the lifetime "handle" has a holder, as the OS sees to.
\* What the other properties rest on (DeviceNodeProofs).
TypeOK ==
  /\ node \in {"absent"} \cup Lifetimes
  /\ pc \in [Callers -> {"idle", "launch", "create", "wait", "apply", "done", "failed"}]
  /\ task \in BOOLEAN /\ copy \in BOOLEAN
  /\ running \in {"none"} \cup DOMAIN Steps
  /\ at \in 0 .. Length + 1
  /\ result \in {"none", "installed", "removed", "uninstalled"}
  /\ node = "handle" => Holders # {}

\* A node that uninstall.ps1 has removed does not come back, whatever the task
\* was doing meanwhile: "leaving it armed while removing the node is a race
\* with the next logon".
UninstalledStaysGone == result = "uninstalled" => node = "absent"

\* What install-device has installed stays until somebody sets out to remove it
\* or it vanishes: through reboots, and through further installs and runs of the
\* task that fail half-way ("install-device is idempotent").
InstalledStays == result = "installed" => node = "parent"

\* While the task is registered, a node that is missing comes back, to stay.
RestoreWorks == task /\ node = "absent" ~> node = "parent" \/ ~task
=============================================================================
