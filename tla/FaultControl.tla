---------------------------- MODULE FaultControl ----------------------------
(***************************************************************************)
(* Fault injection from the web app to the image: the endpoint that        *)
(* appends accepted commands to the device's command file (web/app.py,     *)
(* api_instance_fault and api_instance_fault_clear), the task that reads   *)
(* the file and drives the image (emulator_core.py, JsonlCommandQueue and  *)
(* run_fault_control), and the starts and ends of the device process,      *)
(* which the file outlives.                                                *)
(*                                                                         *)
(* A batch of commands is applied without a pause of the event loop; the   *)
(* web app, another process, may append at any moment.                     *)
(***************************************************************************)
EXTENDS ProcessImage, Sequences, FiniteSetsExt

CONSTANTS
    Offered,        \* what the definition file may offer while the process keeps
                    \* the Capabilities it booted with: [Points -> SUBSET FaultModes]
    MaxCommands,    \* bound: commands in the file
    MaxBoots        \* bound: starts of the device process; the last run goes on

ASSUME FaultControlAssumption ==
    /\ Offered \subseteq [Points -> SUBSET FaultModes]
    /\ MaxCommands \in Nat /\ MaxBoots \in Nat \ {0}

VARIABLES
    process,    \* "down", "booting" or "up"; the last two are alive
    task,       \* the fault task: "off", "asleep", "applying" or "dead"
    queue,      \* the command file
    offset,     \* how many commands of the file have been read
    batch,      \* commands read and not applied
    changed,    \* whether the batch changed the image
    status,     \* the fault status file
    boots,      \* starts so far
    opened,     \* history: Len(queue) when the task opened the file
    applied     \* history: the commands that took effect, by position

taskVars == <<task, offset, batch, changed, status, applied>>
webVars == <<process, queue, boots, opened>>
fcVars == <<vars, taskVars, webVars>>

Reported == [p \in DOMAIN faults |-> faults[p].mode]

-----------------------------------------------------------------------------
\* The web app accepts a command for a process that is alive, if the definition
\* lists the point, and the mode, as fault-injectable.  It reads the file anew for
\* each request, so an edited one is obeyed here and not by the process.
AcceptedCommands ==
    {c \in [action : {"clear"}, point : Points, mode : {""}] :
        \E modes \in Offered : modes[c.point] # {}}
    \cup {c \in [action : {"set"}, point : Points, mode : FaultModes] :
             \E modes \in Offered : c.mode \in modes[c.point]}

AcceptCommand ==
    /\ process # "down"
    /\ Len(queue) < MaxCommands
    /\ \E c \in AcceptedCommands : queue' = Append(queue, c)
    /\ UNCHANGED <<vars, taskVars, process, boots, opened>>

StartProcess ==
    /\ process = "down"
    /\ process' = "booting"
    /\ boots' = boots + 1
    /\ UNCHANGED <<vars, taskVars, queue, opened>>

\* JsonlCommandQueue starts at the end of the file.
OpenedAtStart == 0                          \* Mutant: earlier runs are replayed
OpenedAt == Len(queue)

\* main_async builds a fresh image; the task opens the file and writes the
\* status.
Boot ==
    /\ process = "booting"
    /\ process' = "up"
    /\ task' = "asleep"
    /\ offset' = OpenedAt
    /\ opened' = Len(queue)
    /\ status' = <<>>
    /\ UNCHANGED <<vars, batch, changed, applied, queue, boots>>

\* The process is stopped or crashes: the image is gone, the files stay.
Exit ==
    /\ process # "down"
    /\ boots < MaxBoots
    /\ process' = "down"
    /\ task' = "off"
    /\ batch' = <<>>
    /\ changed' = FALSE
    /\ state' = Initial /\ shadow' = <<>> /\ faults' = <<>> /\ now' = 0
    /\ UNCHANGED <<offset, status, applied, queue, boots, opened>>

-----------------------------------------------------------------------------
\* read_pending: everything from offset to the end of the file.  A tick that
\* finds nothing changes nothing.
PendingFirst(from) ==           \* Mutant: takes one command, skips the others
    SubSeq(queue, from + 1, IF from < Len(queue) THEN from + 1 ELSE from)
Pending(from) == SubSeq(queue, from + 1, Len(queue))

ReadPending ==
    /\ task = "asleep"
    /\ offset < Len(queue)
    /\ batch' = Pending(offset)
    /\ offset' = Len(queue)
    /\ task' = "applying"
    /\ UNCHANGED <<vars, webVars, changed, status, applied>>

Obey(c) ==
    \/ /\ c.action = "set"
       /\ \E rate \in DriftRates, amplitude \in Amplitudes :
             SetFault(c.point, c.mode, rate, amplitude)
    \/ c.action = "clear" /\ ClearFault(c.point)

ApplyCommand ==
    /\ task = "applying"
    /\ batch # <<>>
    /\ Obey(Head(batch))
    /\ batch' = Tail(batch)
    /\ changed' = TRUE
    /\ applied' = applied \cup {offset - Len(batch) + 1}
    /\ UNCHANGED <<webVars, task, offset, status>>

\* set_fault raises ValueError, which nothing catches: the task ends.
FailCommand ==
    /\ task = "applying"
    /\ batch # <<>>
    /\ Head(batch).action = "set"
    /\ ~ CanFault(Head(batch).point, Head(batch).mode)
    /\ task' = "dead"
    /\ batch' = <<>>
    /\ UNCHANGED <<vars, webVars, offset, changed, status, applied>>

StatusUnlessQuiet == IF changed /\ faults # <<>> THEN Reported ELSE status  \* Mutant: the last clear is not reported
StatusAfterBatch == IF changed THEN Reported ELSE status

FinishBatch ==
    /\ task = "applying"
    /\ batch = <<>>
    /\ status' = StatusAfterBatch
    /\ task' = "asleep"
    /\ changed' = FALSE
    /\ UNCHANGED <<vars, webVars, offset, batch, applied>>

FaultTask == ReadPending \/ ApplyCommand \/ FailCommand \/ FinishBatch

\* The server and physics tasks run while the fault task sleeps, or is dead.
OtherTasks ==
    /\ process = "up"
    /\ task # "applying"
    /\ ModbusWrite \/ PhysicsStep \/ Advance
    /\ UNCHANGED <<taskVars, webVars>>

FCInit ==
    /\ Init
    /\ process = "down"
    /\ task = "off"
    /\ queue = <<>>
    /\ offset = 0
    /\ batch = <<>>
    /\ changed = FALSE
    /\ status = <<>>
    /\ boots = 0
    /\ opened = 0
    /\ applied = {}

FCNext ==
    \/ AcceptCommand
    \/ StartProcess
    \/ Boot
    \/ Exit
    \/ FaultTask
    \/ OtherTasks

\* A process that boots gets to its event loop; the fault task wakes every
\* 0.2 s for as long as it lives.
FCSpec == FCInit /\ [][FCNext]_fcVars /\ WF_fcVars(Boot) /\ WF_fcVars(FaultTask)

-----------------------------------------------------------------------------
\* Types of the files and of the task's state, with the image's own.
FCTypeOK ==
    /\ TypeOK
    /\ process \in {"down", "booting", "up"}
    /\ task \in {"off", "asleep", "applying", "dead"}
    /\ queue \in Seq(AcceptedCommands) /\ Len(queue) <= MaxCommands
    /\ batch \in Seq(AcceptedCommands) /\ Len(batch) <= offset
    /\ offset \in opened .. Len(queue)
    /\ changed \in BOOLEAN
    /\ boots \in 0 .. MaxBoots
    /\ applied \subseteq 1 .. offset

\* Once the task has read everything, the fault of each point is what the last
\* command for it said since this process opened the file, however commands
\* were batched: none is lost or applied out of order, and none of an earlier
\* run of the process is applied again.
LastCommandWins ==
    task = "asleep" /\ offset = Len(queue) =>
        \A p \in Points :
            LET mine == {n \in opened + 1 .. Len(queue) : queue[n].point = p}
            IN  IF mine = {} \/ queue[Max(mine)].action = "clear"
                THEN p \notin DOMAIN faults
                ELSE HasFault(p, queue[Max(mine)].mode)

\* The status file lists the active faults whenever the task sleeps, so also
\* after a restart, when the file of the process before is still there.
StatusTellsTheFaults == task = "asleep" => status = Reported

\* README, fault injection: the emulator can "inject live process and sensor
\* faults into a running instance without restarting it".  A command accepted
\* after the process opened the file takes effect, unless the process ends or
\* a command set_fault refuses has ended the fault task.
FaultsTakeEffect ==
    \A n \in 1 .. MaxCommands :
        (process = "up" /\ n \in opened + 1 .. Len(queue))
            ~> (n \in applied \/ process = "down" \/ task = "dead")
=============================================================================
