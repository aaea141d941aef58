-------------------------------- MODULE Hmi --------------------------------
(***************************************************************************)
(* An HMI: the operator's commands the web app appends to a file, the      *)
(* client process that reads them, writes them to the device, polls it and *)
(* writes a status file (hmi_client.py), and what the web app makes of     *)
(* that file (web/app.py, read_hmi_status).  The device is one writable    *)
(* point, which other clients write too.  The library under the client     *)
(* sends a write again that is not answered: requirements.txt pins         *)
(* pymodbus 3.8.6, and the client is built with its default of 3 retries.  *)
(* What a poll reads is left out, and so is whether the last contact       *)
(* succeeded; that both are logged is not.                                 *)
(***************************************************************************)
EXTENDS Integers, Sequences

CONSTANTS
    Values,         \* values of the point
    Bad,            \* a command execute() refuses: no writable point, bad value
    Commands,       \* what the operator sends: values, or Bad
    NoStatus,       \* no status file yet
    Resends,        \* how often the library sends an unanswered write again
    MaxEvents,      \* deque(maxlen=48)
    MaxCommands,    \* bound: commands in the file
    MaxBoots        \* bound: starts of the client; the last run goes on

ASSUME HmiAssumption ==
    /\ Bad \notin Values /\ Commands \subseteq Values \cup {Bad}
    /\ Resends \in Nat /\ MaxEvents \in Nat
    /\ MaxCommands \in Nat /\ MaxBoots \in Nat \ {0}

VARIABLES
    process,        \* "down", "booting" or "up"
    device,         \* the value of the target's point
    queue, opened,  \* the command file; history: its length at the last boot
    offset, batch,  \* CommandQueue.offset; the positions read and not executed
    phase,          \* the step of the loop that comes next
    tries,          \* how often the command being executed was sent in vain
    view,           \* what the loop knows: the next status
    file,           \* the status file, or NoStatus
    sent,           \* history: the positions sent to the device
    boots

clientVars == <<offset, batch, phase, tries, view, file, sent>>
webVars == <<process, queue, opened, boots>>
hmiVars == <<device, clientVars, webVars>>

\* Positions in the file stand for the commands' ids; an event without one is
\* that of a poll.
NoCommand == 0

FirstView == [last |-> NoCommand, events |-> <<>>]

-----------------------------------------------------------------------------
\* api_hmi_command: accepted as soon as the client has a live pid.
SendCommand ==
    /\ process # "down"
    /\ Len(queue) < MaxCommands
    /\ \E v \in Commands : queue' = Append(queue, v)
    /\ UNCHANGED <<device, clientVars, process, opened, boots>>

StartClient ==
    /\ process = "down"
    /\ process' = "booting"
    /\ boots' = boots + 1
    /\ UNCHANGED <<device, clientVars, queue, opened>>

OpenedAtStart == 0                          \* Mutant: earlier runs are replayed
OpenedAt == Len(queue)

\* main: the queue starts at the end of the file; the status file stays.
Boot ==
    /\ process = "booting"
    /\ process' = "up"
    /\ offset' = OpenedAt
    /\ opened' = Len(queue)
    /\ batch' = <<>>
    /\ phase' = "read"
    /\ tries' = 0
    /\ view' = FirstView
    /\ UNCHANGED <<device, file, sent, queue, boots>>

\* The client is stopped, or crashes, between any two steps.
Exit ==
    /\ process # "down"
    /\ boots < MaxBoots
    /\ process' = "down"
    /\ UNCHANGED <<device, clientVars, queue, opened, boots>>

-----------------------------------------------------------------------------
PendingFirst(from) ==           \* Mutant: takes one command, skips the others
    IF from < Len(queue) THEN <<from + 1>> ELSE <<>>
Pending(from) == [i \in 1 .. Len(queue) - from |-> from + i]

ReadPending ==
    /\ phase = "read"
    /\ batch' = Pending(offset)
    /\ offset' = Len(queue)
    /\ phase' = "execute"
    /\ UNCHANGED <<device, tries, view, file, sent>>

\* The next status: the last command that succeeded, and the last events.
Logged(events, event) ==
    LET all == Append(events, event)
    IN  IF Len(all) > MaxEvents THEN Tail(all) ELSE all

Tell(last, event) == view' = [last |-> last, events |-> Logged(view.events, event)]

Current == Head(batch)
Executing == phase = "execute" /\ batch # <<>>

\* The library sends the write, for the first time or again.
Send ==
    /\ Executing /\ queue[Current] # Bad
    /\ tries <= Resends
    /\ sent' = Append(sent, Current)

\* No answer comes; the device may have taken the write all the same, and may
\* take it again when it is sent again, over what another client wrote.
SendInVain ==
    /\ Send
    /\ tries' = tries + 1
    /\ device' \in {device, queue[Current]}
    /\ UNCHANGED <<offset, batch, phase, view, file>>

EndCommand ==
    /\ Executing
    /\ batch' = Tail(batch)
    /\ tries' = 0
    /\ UNCHANGED <<offset, phase, file>>

Execute ==
    /\ Send
    /\ device' = queue[Current]
    /\ EndCommand
    /\ Tell(Current, Current)

\* execute() raises: the command is refused, the device is out of reach, answers
\* with an error or not at all.  It is not called for this command again.
ExecuteFails ==
    /\ EndCommand
    /\ Tell(view.last, Current)
    /\ UNCHANGED <<device, sent>>

\* A poll comes when it is due, and the loop goes on without one before.
PollStep ==
    /\ phase = "execute" /\ batch = <<>>
    /\ phase' = "write"
    /\ UNCHANGED <<device, offset, batch, tries, file, sent>>

\* It is logged, whether it succeeds or fails.
Poll == PollStep /\ Tell(view.last, NoCommand)

PollNotDue == PollStep /\ UNCHANGED view

FinishTurn ==
    /\ phase = "write"
    /\ file' = view
    /\ phase' = "read"
    /\ UNCHANGED <<device, offset, batch, tries, view, sent>>

LoopStep ==
    /\ process = "up"
    /\ \/ ReadPending \/ SendInVain \/ Execute \/ ExecuteFails
       \/ Poll \/ PollNotDue \/ FinishTurn
    /\ UNCHANGED webVars

\* Another client writes the point.
OtherClient ==
    /\ device' \in Values
    /\ UNCHANGED <<clientVars, webVars>>

-----------------------------------------------------------------------------
\* read_hmi_status: the file, whichever run wrote it.
Shown == IF file = NoStatus THEN FirstView ELSE file

\* pendingCommandSatisfied of the web page.
Answered(i) ==
    Shown.last = i \/ \E n \in DOMAIN Shown.events : Shown.events[n] = i

HmiInit ==
    /\ process = "down" /\ boots = 0
    /\ device \in Values
    /\ queue = <<>> /\ opened = 0
    /\ offset = 0 /\ batch = <<>> /\ phase = "read" /\ tries = 0
    /\ view = FirstView
    /\ file = NoStatus
    /\ sent = <<>>

HmiNext ==
    \/ SendCommand
    \/ StartClient
    \/ Boot
    \/ Exit
    \/ LoopStep
    \/ OtherClient

HmiSpec == HmiInit /\ [][HmiNext]_hmiVars

\* The loop of main turns ten times a second for as long as the client runs.
FairHmiSpec == HmiSpec /\ WF_hmiVars(Boot) /\ WF_hmiVars(LoopStep)

-----------------------------------------------------------------------------
\* Types: the client has read a part of the file that begins where it opened
\* it, and tells of no command outside that part.
HmiTypeOK ==
    /\ process \in {"down", "booting", "up"}
    /\ device \in Values
    /\ queue \in Seq(Commands)
    /\ offset \in opened .. Len(queue)
    /\ phase \in {"read", "execute", "write"}
    /\ tries \in 0 .. Resends + 1
    /\ \A n \in DOMAIN view.events : view.events[n] \in {0} \cup opened + 1 .. offset
    /\ Len(view.events) <= MaxEvents
    /\ view.last \in {0} \cup opened + 1 .. offset
    /\ boots \in 0 .. MaxBoots

\* Commands reach the network in the order the operator gave them, over every
\* batching, failure and restart of the client: execute() is called at most once
\* for each, so that a command is sent at most once and Resends times again, and
\* never after a later one.
CommandsAreSentInOrder ==
    \A i, j \in DOMAIN sent :
        /\ i < j => sent[i] <= sent[j]
        /\ i + Resends < j => sent[i] < sent[j]

\* A command that waits in a running client's file is answered, with success or failure,
\* unless the client ends first, or reads at once as many commands as its status
\* keeps events: then the answer to the first may be pushed out before the status
\* is written.
CommandsAreAnswered ==
    \A i \in 1 .. MaxCommands :
        (process = "up" /\ i \in offset + 1 .. Len(queue))
            ~> (Answered(i) \/ process = "down" \/ Len(batch) >= MaxEvents)
=============================================================================
