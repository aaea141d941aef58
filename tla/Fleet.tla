------------------------------- MODULE Fleet -------------------------------
(***************************************************************************)
(* The fleet manager (web/app.py): the instances and hmis dictionaries,    *)
(* their two registry files, the child processes, and the requests that    *)
(* create, start, stop and delete devices and HMIs and launch and stop     *)
(* facilities.                                                             *)
(*                                                                         *)
(* Flask serves each request in a thread of its own and nothing is locked, *)
(* so a request is a job: a sequence of steps that those of other requests *)
(* come between.  A step may put further steps before the rest of its job, *)
(* as a call does; an exception ends the job.                              *)
(***************************************************************************)
EXTENDS Integers, Sequences, Functions, FiniteSets

CONSTANTS
    DeviceIds, HmiIds,  \* ids for uuid4 to return; bound on what exists at once
    Targets,            \* host:port pairs; the name is checked like the target
    Facility,           \* the members' targets of a facility
    Threads,            \* the threads that serve requests
    Pids,               \* the process ids of children
    Shapes              \* bounds: the sizes of fleet a run starts from

ASSUME FleetAssumption ==
    /\ DeviceIds \cap HmiIds = {}
    /\ IsFiniteSet(DeviceIds) /\ IsFiniteSet(Threads)
    /\ Pids \subseteq Nat \ {0}
    /\ \A s \in Shapes :
          /\ {s.users, s.devices, s.hmis, s.pids, s.crashes, s.requests} \subseteq Nat
          /\ s.unsupported \subseteq Targets

\* validate_facility_launch refuses a facility that conflicts with itself.
ASSUME FacilityAssumption == Facility \in Seq(Targets) /\ IsInjective(Facility)

VARIABLES
    shape,      \* the bounds of this fleet: .users requests at once, .devices
                \* and .hmis ids, .pids children at once, .crashes of the web
                \* app, .requests in all; .unsupported: targets whose protocol
                \* has no backend
    store,      \* .devices: instances, .hmis: hmis, by id
    files,      \* .devices: instances.json, .hmis: hmi_instances.json
    procs,      \* the children by pid: whether alive, for whom, and the thread
                \* that holds the Popen object, if any does
    jobs,       \* [Threads -> Seq of steps]
    taken,      \* requests so far
    request,    \* [Threads -> the operation and the devices it is about]
    crashes,    \* crashes so far
    suspect,    \* history: devices about which two requests ran at once, or
                \* whose request a crash cut short, or all if it found a file
                \* torn or written by a save that was overtaken
    raced       \* history: .dumps: the parts of which two dumps were last pending
                \* at once, or whose last dump an exception ended; .files: those
                \* whose file was last written then

fleetVars == <<shape, store, files, procs, jobs, request, taken, crashes, suspect,
               raced>>

None == "none"
NoPid == 0
NoRequest == [op |-> None, devices |-> {}]

Part(id) == IF id \in HmiIds THEN "hmis" ELSE "devices"
Known(id) == id \in DOMAIN store[Part(id)]
Entry(id) == store[Part(id)][id]
DeviceOf(id) == IF id \in HmiIds THEN Entry(id).device ELSE id
HmisOf(i) == {h \in DOMAIN store.hmis : store.hmis[h].device = i}

With(f, x, v) == [y \in DOMAIN f \cup {x} |-> IF y = x THEN v ELSE f[y]]
Without(f, x) == Restrict(f, DOMAIN f \ {x})

Put(id, entry) == [store EXCEPT ![Part(id)] = With(@, id, entry)]
\* cfg["pid"] = pid: a dictionary that left the store takes it to no effect.
PutPid(id, pid) ==
    IF Known(id) THEN Put(id, [Entry(id) EXCEPT !.pid = pid]) ELSE store

\* os.kill(pid, 0) succeeds for a child that exited until it is waited for.
Alive(pid) == pid \in DOMAIN procs
Live(pid) == Alive(pid) /\ procs[pid].live

-----------------------------------------------------------------------------
\* Jobs.

Step(do, id) == [do |-> do, id |-> id]
DeleteEach(ids) == IF ids = {} THEN <<>> ELSE <<[do |-> "delete", ids |-> ids]>>
Save == <<[do |-> "save"]>>

At(t, do) == jobs[t] # <<>> /\ Head(jobs[t]).do = do
Steps == UNION {Range(jobs[t]) : t \in Threads}
Dumps == {s.dump : s \in {x \in Steps : "dump" \in DOMAIN x}}

\* Replace thread t's job; an empty one ends the request.
Continue(t, job) ==
    /\ jobs' = [jobs EXCEPT ![t] = job]
    /\ request' = [request EXCEPT ![t] = IF job = <<>> THEN NoRequest ELSE @]
Call(t, steps) == Continue(t, steps \o Tail(jobs[t]))
KeyError(t) == Continue(t, <<>>)

\* To iterate over a dictionary fails when another request's next step changes
\* its size.
Resizes(step, part) ==
    \/ step.do = (IF part = "hmis" THEN "insert_hmi" ELSE "insert")
    \/ step.do = "remove" /\ Part(step.id) = part /\ Known(step.id)
Interrupted(t, part) ==
    \E u \in Threads \ {t} : jobs[u] # <<>> /\ Resizes(Head(jobs[u]), part)

\* save_registry dumps a dictionary and then rewrites its file, first the
\* devices and then the HMIs; other requests come between dump and rewriting.
Writing(part) == IF part = "devices" THEN "write_devices" ELSE "write_hmis"
Pending(part) == {t \in Threads : At(t, Writing(part))}
WriteStep(part, dump) == [do |-> Writing(part), dump |-> dump]

DumpNoHmis(part) == IF part = "hmis" THEN files.hmis ELSE store.devices   \* Mutant
Dump(part) == store[part]

NoneRaced == [dumps |-> {}, files |-> {}]
RacedByDump(r, part) ==
    IF Pending(part) = {} THEN [r EXCEPT !.dumps = @ \ {part}]
    ELSE [dumps |-> r.dumps \cup {part}, files |-> r.files \cup {part}]
RacedAfterWrite(part) ==
    IF part \in raced.dumps THEN raced ELSE [raced EXCEPT !.files = @ \ {part}]

DumpDevices(t) ==
    /\ At(t, "save")
    /\ Call(t, <<WriteStep("devices", Dump("devices"))>>)
    /\ raced' = RacedByDump(raced, "devices")
    /\ UNCHANGED <<shape, taken, store, files, procs, crashes, suspect>>

WriteDevices(t) ==
    /\ At(t, "write_devices")
    /\ files' = [files EXCEPT !.devices = Head(jobs[t]).dump]
    /\ Call(t, <<WriteStep("hmis", Dump("hmis"))>>)
    /\ raced' = RacedByDump(RacedAfterWrite("devices"), "hmis")
    /\ UNCHANGED <<shape, taken, store, procs, crashes, suspect>>

WriteHmis(t) ==
    /\ At(t, "write_hmis")
    /\ files' = [files EXCEPT !.hmis = Head(jobs[t]).dump]
    /\ Call(t, <<>>)
    /\ raced' = RacedAfterWrite("hmis")
    /\ UNCHANGED <<shape, taken, store, procs, crashes, suspect>>

\* An exception drops the Popen object the request holds, which waits for the
\* child if it exited.
Dropped(t) ==
    [p \in {q \in DOMAIN procs : procs[q].live \/ procs[q].held # t} |->
        IF procs[p].held = t THEN [procs[p] EXCEPT !.held = None] ELSE procs[p]]

\* json.dumps raises when the dictionary changes size under it: the request ends
\* and this file, and what it had still to save, stay as they are.
Unsaved(part) == IF part = "devices" THEN {"devices", "hmis"} ELSE {"hmis"}

SaveRaises(t) ==
    /\ \E part \in {"devices", "hmis"} :
          /\ At(t, Writing(part))
          /\ Interrupted(t, part)
          /\ raced' = [dumps |-> raced.dumps \cup Unsaved(part),
                       files |-> raced.files \cup Unsaved(part)]
    /\ Continue(t, <<>>)
    /\ procs' = Dropped(t)
    /\ UNCHANGED <<shape, taken, store, files, crashes, suspect>>

\* A rewriting cut short leaves a truncated file, which loads as no entries.
Torn(part) ==
    IF Pending(part) = {} THEN {} ELSE {[files EXCEPT ![part] = <<>>]}
TornFiles == Torn("devices") \cup Torn("hmis")

-----------------------------------------------------------------------------
\* _start_managed_process, behind start_instance and start_hmi.

Preflight(id) == id \in HmiIds \/ Entry(id).target \notin shape.unsupported

Start(t) ==
    /\ At(t, "start")
    /\ LET id == Head(jobs[t]).id
       IN  IF ~ Known(id) THEN KeyError(t)
           ELSE IF Alive(Entry(id).pid) \/ ~ Preflight(id) THEN Call(t, <<>>)
           ELSE Call(t, <<[do |-> "spawn", id |-> id, entry |-> Entry(id)]>>)
    /\ UNCHANGED <<shape, taken, raced, store, files, procs, crashes, suspect>>

\* Popen first waits for the children that exited and that nobody holds.
Reaped == Restrict(procs, {p \in DOMAIN procs : procs[p].live \/ procs[p].held # None})

\* Assumed of the kernel: a pid that some entry still names is not given again.
Recorded ==
    {e.pid : e \in UNION {Range(f) : f \in {store.devices, store.hmis,
                                            files.devices, files.hmis} \cup Dumps}}
FreePids == {p \in Pids : p <= shape.pids} \ (DOMAIN Reaped \cup Recorded)

\* A device whose port another process serves fails to bind and exits.
PortTaken(target) ==
    \E p \in DOMAIN Reaped : Reaped[p].live /\ Reaped[p].target = target

Child(t, id, entry) ==
    IF id \in HmiIds
    THEN [id |-> id, device |-> entry.device, target |-> None,
          live |-> TRUE, child |-> TRUE, held |-> t]
    ELSE [id |-> id, device |-> id, target |-> entry.target,
          live |-> ~ PortTaken(entry.target), child |-> TRUE, held |-> t]

Spawn(t) ==
    /\ At(t, "spawn")
    /\ LET s == Head(jobs[t])
           pid == CHOOSE p \in FreePids : \A q \in FreePids : p <= q
       IN  \/ /\ FreePids # {}
              /\ procs' = With(Reaped, pid, Child(t, s.id, s.entry))
              /\ Call(t, <<[do |-> "record", id |-> s.id, pid |-> pid]>>)
           \/ /\ procs' = Reaped                \* OSError
              /\ Call(t, <<>>)
    /\ UNCHANGED <<shape, taken, raced, store, files, crashes, suspect>>

Record(t) ==
    /\ At(t, "record")
    /\ LET s == Head(jobs[t])
       IN  /\ store' = PutPid(s.id, s.pid)
           /\ Call(t, Save \o <<[s EXCEPT !.do = "confirm"]>>)
    /\ UNCHANGED <<shape, taken, raced, files, procs, crashes, suspect>>

\* 0.4 s later the child is looked at; returning drops the Popen object, which
\* waits for the child if it exited.
Released(pid) ==
    IF ~ Alive(pid) THEN procs
    ELSE IF procs[pid].live THEN [procs EXCEPT ![pid].held = None]
    ELSE Without(procs, pid)

Confirm(t) ==
    /\ At(t, "confirm")
    /\ LET s == Head(jobs[t])
       IN  /\ IF Alive(s.pid)
              THEN Call(t, <<>>) /\ UNCHANGED store
              ELSE Call(t, Save) /\ store' = PutPid(s.id, NoPid)
           /\ procs' = Released(s.pid)
    /\ UNCHANGED <<shape, taken, raced, files, crashes, suspect>>

-----------------------------------------------------------------------------
\* _stop_managed_process, delete_instance and delete_hmi.

\* An exited child stays until it is waited for; init waits at once for the
\* children of a web app that is gone.
Ended(pid) ==
    IF procs[pid].child THEN [procs EXCEPT ![pid].live = FALSE]
    ELSE Without(procs, pid)

KillNone(pid) == procs                      \* Mutant: the signal is not sent
Kill(pid) == Ended(pid)

Stop(t) ==
    /\ At(t, "stop")
    /\ LET id == Head(jobs[t]).id
       IN  IF ~ Known(id)
           THEN KeyError(t) /\ UNCHANGED <<store, procs>>
           ELSE IF Alive(Entry(id).pid)
           THEN /\ procs' = Kill(Entry(id).pid)
                /\ Call(t, <<Step("forget", id)>>)
                /\ UNCHANGED store
           ELSE /\ store' = PutPid(id, NoPid)
                /\ Call(t, Save)
                /\ UNCHANGED procs
    /\ UNCHANGED <<shape, taken, raced, files, crashes, suspect>>

\* After SIGTERM, the wait of up to 2 s and SIGKILL.
Forget(t) ==
    /\ At(t, "forget")
    /\ store' = PutPid(Head(jobs[t]).id, NoPid)
    /\ Call(t, Save)
    /\ UNCHANGED <<shape, taken, raced, files, procs, crashes, suspect>>

AttachedNone(i) == {}                       \* Mutant: the HMIs are left behind
Attached(i) == HmisOf(i)

Delete(t) ==
    /\ At(t, "delete")
    /\ LET ids == Head(jobs[t]).ids
       IN  \E id \in ids :
              Call(t, (IF Known(id)
                       THEN DeleteEach(IF id \in DeviceIds THEN Attached(id) ELSE {})
                            \o <<Step("stop", id), Step("remove", id)>>
                       ELSE <<>>)
                      \o DeleteEach(ids \ {id}))
    /\ UNCHANGED <<shape, taken, raced, store, files, procs, crashes, suspect>>

RemoveEntry(t) ==
    /\ At(t, "remove")
    /\ LET id == Head(jobs[t]).id
       IN  IF ~ Known(id) THEN KeyError(t) /\ UNCHANGED store
           ELSE /\ store' = [store EXCEPT ![Part(id)] = Without(@, id)]
                /\ Call(t, Save)
    /\ UNCHANGED <<shape, taken, raced, files, procs, crashes, suspect>>

-----------------------------------------------------------------------------
\* create_instance_from_config, api_open_hmi and api_facility_launch.

ConflictNone(target) == FALSE               \* Mutant: no conflict is looked for
Conflict(target) == \E i \in DOMAIN store.devices : store.devices[i].target = target

\* A conflict refuses the request; a launch also deletes what it launched.
RollbackNone(t) == <<>>                     \* Mutant: what was launched stays
Rollback(t) ==
    IF request[t].op = "launch" THEN DeleteEach(request[t].devices) ELSE <<>>

Create(t) ==
    /\ At(t, "create")
    /\ IF Conflict(Head(jobs[t]).target)
       THEN Continue(t, Rollback(t))
       ELSE Call(t, <<[Head(jobs[t]) EXCEPT !.do = "insert"]>>)
    /\ UNCHANGED <<shape, taken, raced, store, files, procs, crashes, suspect>>

InsertEntry(t) ==
    /\ At(t, "insert")
    /\ LET s == Head(jobs[t])
       IN  /\ store' = Put(s.id, [target |-> s.target, facility |-> s.facility,
                                  pid |-> NoPid])
           /\ Call(t, Save \o IF s.autostart THEN <<Step("start", s.id)>> ELSE <<>>)
    /\ UNCHANGED <<shape, taken, raced, files, procs, crashes, suspect>>

NewHmiWithoutPid(device) == [device |-> device]     \* Mutant: no "pid" entry
NewHmi(device) == [device |-> device, pid |-> NoPid]

InsertHmi(t) ==
    /\ At(t, "insert_hmi")
    /\ store' = Put(Head(jobs[t]).id, NewHmi(Head(jobs[t]).device))
    /\ Call(t, <<>>)
    /\ UNCHANGED <<shape, taken, raced, files, procs, crashes, suspect>>

-----------------------------------------------------------------------------
\* What else ends a request with an exception, without any rollback: the loops
\* over the instances and over the HMIs, and opening the log file.
Raise(t) ==
    /\ \/ At(t, "create") /\ Interrupted(t, "devices")
       \/ /\ At(t, "delete")
          /\ \E id \in Head(jobs[t]).ids \cap DeviceIds : Known(id)
          /\ Interrupted(t, "hmis")
       \/ At(t, "spawn")
    /\ Continue(t, <<>>)
    /\ UNCHANGED <<shape, taken, raced, store, files, procs, crashes, suspect>>

-----------------------------------------------------------------------------
\* Requests.

Busy(t) == jobs[t] # <<>>

Requested == UNION {request[t].devices : t \in Threads}

Used == (UNION {DOMAIN f : f \in {store.devices, store.hmis,
                                   files.devices, files.hmis} \cup Dumps})
        \cup {e.device : e \in Range(store.hmis) \cup Range(files.hmis)}
        \cup (UNION {{procs[p].id, procs[p].device} : p \in {q \in DOMAIN procs : Live(q)}})
        \cup Requested
        \cup {s.id : s \in {x \in Steps : "id" \in DOMAIN x}}
        \cup (UNION {s.ids : s \in {x \in Steps : "ids" \in DOMAIN x}})

FreshDevices ==
    IF Cardinality(DeviceIds \cap Used) < shape.devices THEN DeviceIds \ Used ELSE {}
FreshHmis ==
    IF Cardinality(HmiIds \cap Used) < shape.hmis THEN HmiIds \ Used ELSE {}

\* A thread takes request op about some devices.  New devices start unsuspected.
Take(t, op, devices, fresh, job) ==
    /\ ~ Busy(t)
    /\ Cardinality({u \in Threads : Busy(u)}) < shape.users
    /\ taken < shape.requests
    /\ taken' = taken + 1
    /\ jobs' = [jobs EXCEPT ![t] = job]
    /\ request' = [request EXCEPT ![t] = [op |-> op, devices |-> devices]]
    /\ suspect' = (suspect \ fresh) \cup (devices \cap Requested)
    /\ UNCHANGED <<shape, raced, store, files, procs, crashes>>

CreateStep(id, target, facility, autostart) ==
    [do |-> "create", id |-> id, target |-> target, facility |-> facility,
     autostart |-> autostart]

TakeCreate(t) ==
    \E id \in FreshDevices, target \in Targets, autostart \in BOOLEAN :
        Take(t, "create", {id}, {id}, <<CreateStep(id, target, None, autostart)>>)

TakeLaunch(t) ==
    \E ids \in [DOMAIN Facility -> DeviceIds \ Used] :
        /\ IsInjective(ids)
        /\ Cardinality(DeviceIds \cap Used) + Len(Facility) <= shape.devices
        /\ \A n \in DOMAIN Facility : ~ Conflict(Facility[n])
        /\ Take(t, "launch", Range(ids), Range(ids),
                [n \in DOMAIN Facility |->
                    CreateStep(ids[n], Facility[n], "facility", TRUE)])

TakeStopFacility(t) ==
    LET tagged == {i \in DOMAIN store.devices : store.devices[i].facility = "facility"}
    IN  /\ tagged # {}
        /\ Take(t, "stop_facility", tagged, {}, DeleteEach(tagged))

TakeStart(t) ==
    \E i \in DOMAIN store.devices : Take(t, "start", {i}, {}, <<Step("start", i)>>)

TakeStop(t) ==
    \E id \in DOMAIN store.devices \cup DOMAIN store.hmis :
        Take(t, "stop", {DeviceOf(id)}, {}, <<Step("stop", id)>>)

TakeDelete(t) ==
    \E id \in DOMAIN store.devices \cup DOMAIN store.hmis :
        Take(t, "delete", {DeviceOf(id)}, {}, DeleteEach({id}))

\* The HMI of a device is created when it is opened first.
TakeOpenHmi(t) ==
    \E i \in DOMAIN store.devices :
        \E h \in IF HmisOf(i) = {} THEN FreshHmis ELSE HmisOf(i) :
            Take(t, "open_hmi", {i}, {},
                 (IF HmisOf(i) # {} THEN <<>>
                  ELSE <<[do |-> "insert_hmi", id |-> h, device |-> i]>>)
                 \o Save \o <<Step("start", h)>>)

-----------------------------------------------------------------------------
\* A device or HMI process ends by itself.
ProcessExit ==
    /\ \E p \in DOMAIN procs : procs[p].live /\ procs' = Ended(p)
    /\ UNCHANGED <<shape, taken, raced, store, files, jobs, request, crashes, suspect>>

\* load_registry: an entry keeps the pid of a process that is alive.
Loaded(entries) ==
    [id \in DOMAIN entries |->
        IF Live(entries[id].pid) THEN entries[id]
        ELSE [entries[id] EXCEPT !.pid = NoPid]]

\* The web app dies and is started again; the children live on.
WebCrash ==
    /\ crashes < shape.crashes
    /\ crashes' = crashes + 1
    /\ files' \in {files} \cup TornFiles
    /\ store' = [devices |-> Loaded(files'.devices), hmis |-> Loaded(files'.hmis)]
    /\ procs' = [p \in {q \in DOMAIN procs : Live(q)} |->
                    [procs[p] EXCEPT !.child = FALSE, !.held = None]]
    /\ jobs' = [t \in Threads |-> <<>>]
    /\ request' = [t \in Threads |-> NoRequest]
    /\ suspect' = suspect \cup Requested
                    \cup IF files' \in TornFiles \/ raced.files # {} THEN DeviceIds ELSE {}
    /\ raced' = NoneRaced
    /\ UNCHANGED <<shape, taken>>

FleetInit ==
    /\ shape \in Shapes
    /\ store = [devices |-> <<>>, hmis |-> <<>>]
    /\ files = store
    /\ procs = <<>>
    /\ jobs = [t \in Threads |-> <<>>]
    /\ request = [t \in Threads |-> NoRequest]
    /\ taken = 0
    /\ crashes = 0
    /\ suspect = {}
    /\ raced = NoneRaced

Requests(t) ==
    \/ TakeCreate(t) \/ TakeLaunch(t) \/ TakeStopFacility(t) \/ TakeStart(t)
    \/ TakeStop(t) \/ TakeDelete(t) \/ TakeOpenHmi(t)

Work(t) ==
    \/ DumpDevices(t) \/ WriteDevices(t) \/ WriteHmis(t) \/ SaveRaises(t)
    \/ Start(t) \/ Spawn(t) \/ Record(t) \/ Confirm(t)
    \/ Stop(t) \/ Forget(t) \/ Delete(t) \/ RemoveEntry(t)
    \/ Create(t) \/ InsertEntry(t) \/ InsertHmi(t) \/ Raise(t)

\* The bound on requests is reached.
Done == taken = shape.requests /\ (\A t \in Threads : ~ Busy(t)) /\ UNCHANGED fleetVars

FleetNext ==
    \/ \E t \in Threads : Requests(t) \/ Work(t)
    \/ ProcessExit
    \/ WebCrash
    \/ Done

FleetSpec == FleetInit /\ [][FleetNext]_fleetVars

-----------------------------------------------------------------------------
AllIdle == \A t \in Threads : ~ Busy(t)

\* Types of the stores, the files, the processes and the jobs.
FleetTypeOK ==
    /\ \A m \in {store, files} :
          /\ DOMAIN m.devices \subseteq DeviceIds
          /\ \A i \in DOMAIN m.devices :
                m.devices[i] \in [target : Targets, facility : {None, "facility"},
                                  pid : Pids \cup {NoPid}]
          /\ DOMAIN m.hmis \subseteq HmiIds
          /\ \A h \in DOMAIN m.hmis :
                m.hmis[h] \in [device : DeviceIds, pid : Pids \cup {NoPid}]
    /\ DOMAIN procs \subseteq Pids
    /\ \A t \in Threads : request[t].devices \subseteq DeviceIds
    /\ crashes \in 0 .. shape.crashes
    /\ suspect \subseteq DeviceIds
    /\ raced.dumps \subseteq raced.files /\ raced.files \subseteq {"devices", "hmis"}

\* README, user accounts: everyone can "see what is actually running on the
\* wire".  Between requests, every process that lives is the one its device's
\* or HMI's entry names; only overlapping requests about one device, a crash in
\* the middle of one, or a crash that finds a file torn or written by a save that
\* was overtaken, may lose a process.
RunningIsShown ==
    AllIdle =>
        \A p \in DOMAIN procs :
            procs[p].live /\ procs[p].device \notin suspect =>
                Known(procs[p].id) /\ Entry(procs[p].id).pid = p

\* instance_conflicts is to keep two instances from one host and port.  The
\* look-up and the insertion are two steps, so requests that overlap may share a
\* target; never more of them than there are requests at once, and one user at a
\* time gives every target once.
TargetsAreShared(n) ==
    \A x \in Targets :
        Cardinality({i \in DOMAIN store.devices : store.devices[i].target = x}) <= n
TargetsAreDistinct == TargetsAreShared(shape.users)

\* Deleting a device takes its HMIs along (api_delete: "attached HMI stopped
\* and removed"), so no HMI points to a device that is gone.
HmisHaveTheirDevice ==
    \A h \in DOMAIN store.hmis :
        store.hmis[h].device \in DOMAIN store.devices \cup suspect

\* Between requests a restart of the web app would find the fleet it has,
\* unless the saves of two requests overlapped, where the one that dumped first
\* may have written last, or an exception ended the last save.
RestartLosesNothing ==
    AllIdle =>
        \A part \in {"devices", "hmis"} \ raced.dumps :
            Loaded(files[part]) = Loaded(store[part])

\* A launch that runs to its end, or that a conflict ends, leaves every member in
\* the fleet, or none of those it created, when no other request touched them.
\* Entries only: a member that cannot start stays, with a warning, where README,
\* facilities, has the launch be all or nothing.  The rollback catches ValueError
\* alone, so any other exception leaves the members inserted before it.
LaunchIsWhole ==
    [][\A t \in Threads :
          LET ids == request[t].devices
          IN  request[t].op = "launch" /\ crashes' = crashes /\ jobs'[t] = <<>>
                 /\ ids \cap suspect = {} /\ ~ SaveRaises(t) /\ ~ Raise(t)
               => ids \cap DOMAIN store'.devices \in {ids, {}}]_fleetVars
=============================================================================
